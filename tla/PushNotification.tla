----------------------------- MODULE PushNotification -----------------------------
(***************************************************************************)
(* POST /media/uploads/complete (push_notification) beside the handlers of *)
(* device_tokens: one invocation pages through its caller's tokens, makes  *)
(* sure of the Firebase app of its execution environment, and sends to     *)
(* each device in turn, removing the tokens that FCM calls unregistered.   *)
(***************************************************************************)
EXTENDS DeviceTokens

CONSTANT Notifier  \* execution environments, each runs one invocation at a time

VARIABLES job,     \* [Notifier -> Job]: the invocation under way
          app,     \* SUBSET Notifier: environments with a cached Firebase app
          secret,  \* BOOLEAN: the credentials secret holds a service account
          dead     \* SUBSET Token: tokens FCM has dropped, for good

pushVars == <<job, app, secret, dead>>
vars == <<tokenVars, pushVars>>

Job == [user    : User,
        pc      : {"idle", "query", "app", "send", "cleanup", "answered"},
        cursor  : 0 .. LastToken,
        tokens  : SUBSET Key,        \* queried, still to send to
        current : SUBSET Key,        \* the token to clean up, if any
        sent    : SUBSET Key,        \* delivered: sent_count is its size
        tried   : SUBSET Key,        \* history: sent to, with any outcome
        stable  : SUBSET Key,        \* history: every query shows these
        hidden  : SUBSET Key,        \* history: no query may show these
        answer  : {"none", "201", "204", "400", "401", "500", "502", "504"}]

Registered(u) == {k \in Key : k[1] = u /\ table[k] # Absent}

IdleJob(u) == [user |-> u, pc |-> "idle", cursor |-> 0, tokens |-> {}, current |-> {},
               sent |-> {}, tried |-> {}, stable |-> {}, hidden |-> {}, answer |-> "none"]

Init == /\ TokenInit
        /\ \E u \in User : job = [n \in Notifier |-> IdleJob(u)]
        /\ app = {}
        /\ secret \in BOOLEAN
        /\ dead = {}

\* A change of a token ends the promise that every query shows it, and that none of
\* its user's does.
Unsettle(j, keys) == [j EXCEPT !.stable = @ \ keys,
                               !.hidden = @ \ {k \in keys : k[1] = j.user}]

Unsettled(keys) == job' = [n \in Notifier |-> Unsettle(job[n], keys)]

Answer(n, answer) == job' = [job EXCEPT ![n].pc = "answered", ![n].answer = answer]

-----------------------------------------------------------------------------
(* The handler.                                                            *)

\* What a query for u that starts now has to show, and what none may show: a token
\* of somebody else, or one that is not registered and no replica remembers.
Promised(u) == [IdleJob(u) EXCEPT
                  !.pc = "query",
                  !.stable = Registered(u) \ lagging,
                  !.hidden = {k \in Key : k[1] = u => table[k] = Absent /\ k \notin lagging}]

\* Mutant: the tokens of a user are kept with the environment, as the app is.
NotifyHandlerCached(n) ==
  /\ job[n].pc \in {"idle", "answered"}
  /\ \E u \in User :
       job' = [job EXCEPT ![n] =
                 IF u = @.user /\ @.sent # {}
                 THEN [Promised(u) EXCEPT !.pc = "app", !.tokens = job[n].sent]
                 ELSE Promised(u)]
  /\ UNCHANGED <<tokenVars, app, secret, dead>>

\* 401, 400, and 204 for a successCount of 0 come before any call.
NotifyHandler(n) ==
  /\ job[n].pc \in {"idle", "answered"}
  /\ \E u \in User :
       \/ \E a \in {"401", "400", "204"} :
            job' = [job EXCEPT ![n] = [IdleJob(u) EXCEPT !.pc = "answered", !.answer = a]]
       \/ job' = [job EXCEPT ![n] = Promised(u)]
  /\ UNCHANGED <<tokenVars, app, secret, dead>>

\* Mutant: an empty page ends the query.
MorePagesUnlessEmpty(found, last) == last < LastToken /\ found # {}

\* A page that ends at the token "last" comes with a LastEvaluatedKey, whatever is
\* on it: only the key says whether more pages follow.
MorePages(found, last) == last < LastToken

\* One page of query_device_tokens.  A lagging key may show or not; a page may be
\* empty and still have more pages after it.
QueryPage(n) ==
  /\ job[n].pc = "query"
  /\ \E last \in job[n].cursor + 1 .. LastToken, ghosts \in SUBSET lagging :
       LET shown == (Registered(job[n].user) \ lagging)
                      \cup {k \in ghosts : k[1] = job[n].user}
           found == {k \in shown : job[n].cursor < k[2] /\ k[2] <= last}
           all   == job[n].tokens \cup found
       IN  \/ /\ MorePages(found, last)
              /\ job' = [job EXCEPT ![n].tokens = all, ![n].cursor = last]
           \/ /\ ~MorePages(found, last)
              /\ job' = [job EXCEPT ![n].tokens = all, ![n].cursor = last,
                                    ![n].pc = IF all = {} THEN "answered" ELSE "app",
                                    ![n].answer = IF all = {} THEN "204" ELSE "none"]
  /\ UNCHANGED <<tokenVars, app, secret, dead>>

QueryError(n) == /\ job[n].pc = "query"
                 /\ Answer(n, "500")
                 /\ UNCHANGED <<tokenVars, app, secret, dead>>

\* get_firebase_app: cached per environment, a failed attempt is not cached.
GetApp(n) ==
  /\ job[n].pc = "app"
  /\ \/ /\ n \in app \/ secret
        /\ app' = app \cup {n}
        /\ job' = [job EXCEPT ![n].pc = "send"]
     \/ /\ n \notin app
        /\ Answer(n, "500")
        /\ UNCHANGED app
  /\ UNCHANGED <<tokenVars, secret, dead>>

\* sum(_notify_device(...) for token in tokens): one token, in the order of the query.
Attempt(n, k) == /\ job[n].pc = "send"
                 /\ k \in job[n].tokens
                 /\ \A l \in job[n].tokens : k[2] <= l[2]

\* Mutant: the token stays first in line.
AfterSendAgain(n, k) == [job[n] EXCEPT !.tried = @ \cup {k}]

\* What _notify_device does after one send: the next token waits.
AfterSend(n, k) == [job[n] EXCEPT !.tokens = @ \ {k}, !.tried = @ \cup {k}]

SendDelivered(n) ==
  \E k \in job[n].tokens :
    /\ Attempt(n, k)
    /\ k[2] \notin dead
    /\ job' = [job EXCEPT ![n] = [AfterSend(n, k) EXCEPT !.sent = @ \cup {k}]]
    /\ UNCHANGED <<tokenVars, app, secret, dead>>

\* UnregisteredError: the token goes to _delete_unregistered_token.
SendUnregistered(n) ==
  \E k \in job[n].tokens :
    /\ Attempt(n, k)
    /\ k[2] \in dead
    /\ job' = [job EXCEPT ![n] = [AfterSend(n, k) EXCEPT !.pc = "cleanup", !.current = {k}]]
    /\ UNCHANGED <<tokenVars, app, secret, dead>>

\* Mutant: any failure of a send removes the token.
SendFailedRemoves(n) ==
  \E k \in job[n].tokens :
    /\ Attempt(n, k)
    /\ job' = [job EXCEPT ![n] = [AfterSend(n, k) EXCEPT !.pc = "cleanup", !.current = {k}]]
    /\ UNCHANGED <<tokenVars, app, secret, dead>>

\* Any other exception is recorded and skipped.
SendFailed(n) ==
  \E k \in job[n].tokens :
    /\ Attempt(n, k)
    /\ job' = [job EXCEPT ![n] = AfterSend(n, k)]
    /\ UNCHANGED <<tokenVars, app, secret, dead>>

\* delete_device_token succeeds or raises; either way the loop goes on.
Cleanup(n) ==
  /\ job[n].pc = "cleanup"
  /\ \E k \in job[n].current :
       \/ /\ Remove(k)
          /\ job' = [m \in Notifier |->
                      IF m = n
                      THEN [Unsettle(job[m], {k}) EXCEPT !.pc = "send", !.current = {}]
                      ELSE Unsettle(job[m], {k})]
       \/ /\ job' = [job EXCEPT ![n].pc = "send", ![n].current = {}]
          /\ UNCHANGED <<table, lagging>>
  /\ UNCHANGED <<now, req, app, secret, dead>>

\* Mutant: the answer of a created resource is that of a read one.
NotifyRespondRead(n) == /\ job[n].pc = "send" /\ job[n].tokens = {}
                        /\ Answer(n, "200")
                        /\ UNCHANGED <<tokenVars, app, secret, dead>>

NotifyRespond(n) == /\ job[n].pc = "send" /\ job[n].tokens = {}
                    /\ Answer(n, "201")
                    /\ UNCHANGED <<tokenVars, app, secret, dead>>

\* The time limit, or an exception the handler does not catch (502); the
\* environment may be replaced by a new one.
NotifyStopped(n) == /\ job[n].pc \notin {"idle", "answered"}
                    /\ \E a \in {"502", "504"} : Answer(n, a)
                    /\ app' \in {app, app \ {n}}
                    /\ UNCHANGED <<tokenVars, secret, dead>>

-----------------------------------------------------------------------------
(* Around the handler.                                                     *)

\* An app is uninstalled, or FCM expires its token.
Expire(t) == /\ dead' = dead \cup {t}
             /\ t \notin dead
             /\ UNCHANGED <<tokenVars, job, app, secret>>

\* The secret is filled in by hand after the deployment, or changed.
ChangeSecret == /\ secret' = ~secret
                /\ UNCHANGED <<tokenVars, job, app, dead>>

\* A step of device_tokens: the keys it changes are unsettled.
TokenStep == /\ TokenNext
             /\ Unsettled({k \in Key : table[k] # table'[k]})
             /\ UNCHANGED <<app, secret, dead>>

Step(n) == \/ QueryPage(n) \/ QueryError(n) \/ GetApp(n) \/ SendDelivered(n)
           \/ SendUnregistered(n) \/ SendFailed(n) \/ Cleanup(n) \/ NotifyRespond(n)

Next == \/ TokenStep
        \/ \E n \in Notifier : NotifyHandler(n) \/ NotifyStopped(n) \/ Step(n)
        \/ \E t \in Token : Expire(t)
        \/ ChangeSecret

Spec == Init /\ [][Next]_vars

\* A running invocation is not suspended for good.
FairSpec == Spec /\ \A n \in Notifier : WF_vars(Step(n))

-----------------------------------------------------------------------------
(* Properties.                                                             *)

\* Every variable keeps its type.
TypeOK == /\ TokenTypeOK
          /\ job \in [Notifier -> Job]
          /\ app \subseteq Notifier
          /\ secret \in BOOLEAN
          /\ dead \subseteq Token

\* A 201, or a 204 for want of tokens, says that every device the queries were bound
\* to show was tried: no page is lost, and neither a failed send nor a failed clean-up
\* stops the others (_notify_device: "A failure never stops the other devices").
EveryDeviceTried ==
  \A n \in Notifier :
    job[n].answer \in {"201", "204"} => job[n].stable \subseteq job[n].tried

\* An invocation sends to nothing but what a query of its own could find: tokens that
\* were registered for its caller, by what some replica said, at a moment since it
\* began.  A device that signed out before hears no more, on whatever page it was,
\* and neither does a device where somebody else is signed in by now.
SendsOnlyToRegistered ==
  \A n \in Notifier : (job[n].tokens \cup job[n].tried) \cap job[n].hidden = {}

\* A token disappears only by its user's own request or because FCM has dropped
\* it: a live token survives every notification, although the clean-up deletes
\* without a condition and long after the query.
LiveTokensStay ==
  [][\A k \in Key : table[k] # Absent /\ table'[k] = Absent =>
       \/ k[2] \in dead
       \/ \E r \in Request : req[r].pc = "unregister" /\ KeyOf(req[r]) = k]_vars

\* An invocation that begins ends, with an answer or by its time limit.
NotifyEnds == \A n \in Notifier : job[n].pc = "query" ~> job[n].pc = "answered"
================================================================================
