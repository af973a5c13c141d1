-------------------------- MODULE PushNotificationProofs --------------------------
(***************************************************************************)
(* Proofs about PushNotification, for any users, tokens, requests and      *)
(* execution environments: the types; that an invocation sends to nothing  *)
(* but tokens registered for its caller since it began, and answers 201 or *)
(* 204 only when it has tried every device; and that a live token survives *)
(* every clean-up.                                                         *)
(***************************************************************************)
EXTENDS PushNotification, DeviceTokensProofs

Pc == {"idle", "query", "app", "send", "cleanup", "answered"}
Answers == {"none", "201", "204", "400", "401", "500", "502", "504"}

-----------------------------------------------------------------------------
(* Type correctness.                                                       *)

\* An invocation that begins, or is refused, has the variables of a job.
LEMMA IdleJobType ==
  ASSUME NEW u \in User
  PROVE  /\ IdleJob(u) \in Job
         /\ \A pc \in Pc, s \in SUBSET Key, h \in SUBSET Key :
              [IdleJob(u) EXCEPT !.pc = pc, !.stable = s, !.hidden = h] \in Job
<1>1. 0 \in 0 .. LastToken
  BY ConstantsAssumption
<1> QED
  BY <1>1 DEF IdleJob, Job, Pc

\* What a job that has moved on is: its caller and its promises stay.
Moved(q, j, pc, cursor, tokens, current, sent, tried, answer) ==
  /\ q \in Job /\ q.user = j.user /\ q.stable = j.stable /\ q.hidden = j.hidden
  /\ q.pc = pc /\ q.cursor = cursor /\ q.tokens = tokens /\ q.current = current
  /\ q.sent = sent /\ q.tried = tried /\ q.answer = answer

\* The assignments of the handler, one conjunct for each shape of them.
LEMMA JobMoves ==
  ASSUME NEW j \in Job
  PROVE  /\ \A pc \in Pc, a \in Answers :
              Moved([j EXCEPT !.pc = pc, !.answer = a],
                    j, pc, j.cursor, j.tokens, j.current, j.sent, j.tried, a)
         /\ \A pc \in Pc :
              Moved([j EXCEPT !.pc = pc],
                    j, pc, j.cursor, j.tokens, j.current, j.sent, j.tried, j.answer)
         /\ \A pc \in Pc, x \in SUBSET Key :
              Moved([j EXCEPT !.pc = pc, !.current = x],
                    j, pc, j.cursor, j.tokens, x, j.sent, j.tried, j.answer)
         /\ \A x \in SUBSET Key, c \in 0 .. LastToken :
              Moved([j EXCEPT !.tokens = x, !.cursor = c],
                    j, j.pc, c, x, j.current, j.sent, j.tried, j.answer)
         /\ \A x \in SUBSET Key, c \in 0 .. LastToken, pc \in Pc, a \in Answers :
              Moved([j EXCEPT !.tokens = x, !.cursor = c, !.pc = pc, !.answer = a],
                    j, pc, c, x, j.current, j.sent, j.tried, a)
         /\ \A x \in SUBSET Key, y \in SUBSET Key :
              Moved([j EXCEPT !.tokens = x, !.tried = y],
                    j, j.pc, j.cursor, x, j.current, j.sent, y, j.answer)
         /\ \A x \in SUBSET Key :
              Moved([j EXCEPT !.sent = x],
                    j, j.pc, j.cursor, j.tokens, j.current, x, j.tried, j.answer)
<1>0. Job = [user : User, pc : Pc, cursor : 0 .. LastToken, tokens : SUBSET Key,
              current : SUBSET Key, sent : SUBSET Key, tried : SUBSET Key,
              stable : SUBSET Key, hidden : SUBSET Key, answer : Answers]
  BY DEF Job, Pc, Answers
<1> USE <1>0 DEF Moved
<1>1. \A pc \in Pc, a \in Answers :
        Moved([j EXCEPT !.pc = pc, !.answer = a],
              j, pc, j.cursor, j.tokens, j.current, j.sent, j.tried, a)
  BY Zenon
<1>2. \A pc \in Pc :
        Moved([j EXCEPT !.pc = pc],
              j, pc, j.cursor, j.tokens, j.current, j.sent, j.tried, j.answer)
  BY Zenon
<1>3. \A pc \in Pc, x \in SUBSET Key :
        Moved([j EXCEPT !.pc = pc, !.current = x],
              j, pc, j.cursor, j.tokens, x, j.sent, j.tried, j.answer)
  BY Zenon
<1>4. \A x \in SUBSET Key, c \in 0 .. LastToken :
        Moved([j EXCEPT !.tokens = x, !.cursor = c],
              j, j.pc, c, x, j.current, j.sent, j.tried, j.answer)
  BY Zenon
<1>5. ASSUME NEW x \in SUBSET Key, NEW c \in 0 .. LastToken, NEW pc \in Pc, NEW a \in Answers
      PROVE  Moved([j EXCEPT !.tokens = x, !.cursor = c, !.pc = pc, !.answer = a],
                   j, pc, c, x, j.current, j.sent, j.tried, a)
  BY Zenon
<1>6. \A x \in SUBSET Key, y \in SUBSET Key :
        Moved([j EXCEPT !.tokens = x, !.tried = y],
              j, j.pc, j.cursor, x, j.current, j.sent, y, j.answer)
  BY Zenon
<1>7. \A x \in SUBSET Key :
        Moved([j EXCEPT !.sent = x],
              j, j.pc, j.cursor, j.tokens, j.current, x, j.tried, j.answer)
  BY Zenon
<1> HIDE <1>0 DEF Moved
<1> QED
  BY <1>1, <1>2, <1>3, <1>4, <1>5, <1>6, <1>7

-----------------------------------------------------------------------------
(* The inductive invariant.                                                *)

\* What holds of the job j of any environment.  What it has collected is not hidden, and
\* what is hidden of its caller's is still not to be found.  While it queries, each
\* promised token is shown to every query and has been collected if it lies before the
\* cursor; from then on each is still to send to or has been tried.
JobInv(j) ==
  /\ (j.tokens \cup j.tried) \cap j.hidden = {}
  /\ \A k \in j.hidden : k[1] = j.user => k \notin Registered(j.user) \cup lagging
  /\ j.pc \in {"query", "app"} => j.tried = {}
  /\ j.pc # "answered" => j.answer = "none"
  /\ j.pc = "query" => \A k \in j.stable : /\ k \in Registered(j.user) \ lagging
                                           /\ k[2] <= j.cursor => k \in j.tokens
  /\ j.pc \in {"app", "send", "cleanup"} => j.stable \subseteq j.tokens \cup j.tried
  /\ j.answer \in {"201", "204"} => j.stable \subseteq j.tried
  /\ j.pc = "cleanup" => \A k \in j.current : k[2] \in dead

JobsInv == \A n \in Notifier : JobInv(job[n])

Becomes(n, q) == job' = [job EXCEPT ![n] = q]

\* An answer ends the job soundly if a 201 or a 204 is given only when all were tried.
LEMMA AnswerKeeps ==
  ASSUME job \in [Notifier -> Job], NEW n \in Notifier, JobInv(job[n]), NEW a \in Answers,
         a \in {"201", "204"} => job[n].stable \subseteq job[n].tried, Answer(n, a)
  PROVE  \E q \in Job : Becomes(n, q) /\ JobInv(q)
<1> DEFINE j == job[n]
           q == [j EXCEPT !.pc = "answered", !.answer = a]
<1>1. Becomes(n, q)
  BY DEF Answer, Becomes
<1>2. Moved(q, j, "answered", j.cursor, j.tokens, j.current, j.sent, j.tried, a)
  BY JobMoves DEF Pc
<1> HIDE DEF q
<1>3. JobInv(q)
  BY <1>2 DEF JobInv, Moved
<1> QED
  BY <1>1, <1>2, <1>3 DEF Moved

\* A new invocation has collected nothing and is promised what every query shows.
LEMMA HandlerKeeps ==
  ASSUME TypeOK, NEW n \in Notifier, NotifyHandler(n)
  PROVE  \E q \in Job : Becomes(n, q) /\ JobInv(q)
<1>1. PICK u \in User :
        \/ \E a \in {"401", "400", "204"} :
             Becomes(n, [IdleJob(u) EXCEPT !.pc = "answered", !.answer = a])
        \/ Becomes(n, Promised(u))
  BY DEF NotifyHandler, Becomes
<1>2. ASSUME NEW a \in {"401", "400", "204"}
      PROVE  /\ [IdleJob(u) EXCEPT !.pc = "answered", !.answer = a] \in Job
             /\ JobInv([IdleJob(u) EXCEPT !.pc = "answered", !.answer = a])
  <2> DEFINE q == [IdleJob(u) EXCEPT !.pc = "answered", !.answer = a]
  <2>1. IdleJob(u) \in Job
    BY IdleJobType DEF Pc, Answers
  <2> DEFINE j == IdleJob(u)
  <2>2. Moved(q, j, "answered", j.cursor, j.tokens, j.current, j.sent, j.tried, a)
    BY <2>1, JobMoves DEF Pc, Answers
  <2> HIDE DEF q
  <2>3. q \in Job /\ JobInv(q)
    BY <2>2 DEF JobInv, Moved, IdleJob
  <2> QED
    BY <2>3 DEF q
<1>3. Promised(u) \in Job /\ JobInv(Promised(u))
  <2> DEFINE hidden == {k \in Key : k[1] = u => table[k] = Absent /\ k \notin lagging}
  <2>1. Registered(u) \ lagging \in SUBSET Key /\ hidden \in SUBSET Key
    BY DEF Registered
  <2>2. Promised(u) \in Job
    BY <2>1, IdleJobType DEF Promised, Pc
  <2>3. \A k \in Key : ~(k[2] <= 0)
    BY ConstantsAssumption DEF Key, Token
  <2>4. \A k \in hidden : k[1] = u => k \notin Registered(u) \cup lagging
    BY DEF Registered
  <2> QED
    BY <2>1, <2>2, <2>3, <2>4 DEF JobInv, Promised, IdleJob
<1> QED
  BY <1>1, <1>2, <1>3

\* A page collects what lies between the cursor and its last token; the last page has
\* reached every token, and no tokens at all means that none was promised.
LEMMA QueryKeeps ==
  ASSUME TypeOK, NEW n \in Notifier, JobInv(job[n]), QueryPage(n)
  PROVE  \E q \in Job : Becomes(n, q) /\ JobInv(q)
<1> DEFINE j == job[n]
<1>1. /\ j \in Job /\ j.pc = "query" /\ j.cursor \in 0 .. LastToken
      /\ j.tokens \in SUBSET Key /\ j.answer = "none" /\ j.tried = {} /\ j.stable \in SUBSET Key
  BY DEF TypeOK, QueryPage, JobInv, Job
<1>2. PICK last \in j.cursor + 1 .. LastToken, ghosts \in SUBSET lagging :
        LET shown == (Registered(j.user) \ lagging) \cup {k \in ghosts : k[1] = j.user}
            found == {k \in shown : j.cursor < k[2] /\ k[2] <= last}
            all   == j.tokens \cup found
        IN  \/ /\ MorePages(found, last)
               /\ job' = [job EXCEPT ![n].tokens = all, ![n].cursor = last]
            \/ /\ ~MorePages(found, last)
               /\ job' = [job EXCEPT ![n].tokens = all, ![n].cursor = last,
                                     ![n].pc = IF all = {} THEN "answered" ELSE "app",
                                     ![n].answer = IF all = {} THEN "204" ELSE "none"]
  BY DEF QueryPage
<1> DEFINE shown == (Registered(j.user) \ lagging) \cup {k \in ghosts : k[1] = j.user}
           found == {k \in shown : j.cursor < k[2] /\ k[2] <= last}
           all   == j.tokens \cup found
<1>3. last \in 0 .. LastToken /\ last <= LastToken
  BY <1>1, ConstantsAssumption
<1>4. /\ all \in SUBSET Key
      /\ all \cap j.hidden = {}
      /\ \A k \in j.stable : k[2] <= last => k \in all
  <2>1. shown \in SUBSET Key /\ shown \cap j.hidden = {}
    <3>1. \A k \in shown : k \in Key /\ k[1] = j.user /\ k \in Registered(j.user) \cup lagging
      BY DEF Registered, TypeOK, TokenTypeOK
    <3> QED
      BY <3>1 DEF JobInv
  <2>2. ASSUME NEW k \in j.stable, k[2] <= last PROVE k \in all
    <3>1. k \in shown /\ k \in Key /\ k[2] \in Token
      BY <1>1 DEF JobInv, Key
    <3>2. k[2] <= j.cursor => k \in j.tokens
      BY <1>1 DEF JobInv
    <3> QED
      BY <1>1, <2>2, <3>1, <3>2, ConstantsAssumption DEF Token
  <2> QED
    BY <1>1, <2>1, <2>2 DEF JobInv
<1>5. CASE last < LastToken
  <2> DEFINE q == [j EXCEPT !.tokens = all, !.cursor = last]
  <2>1. Becomes(n, q)
    BY <1>2, <1>5 DEF MorePages, Becomes
  <2>2. Moved(q, j, j.pc, last, all, j.current, j.sent, j.tried, j.answer)
    BY <1>1, <1>3, <1>4, JobMoves, Zenon DEF Pc, Answers
  <2> HIDE DEF q, all
  <2>3. JobInv(q)
    BY <1>1, <1>4, <2>2 DEF JobInv, Moved
  <2> QED
    BY <2>1, <2>2, <2>3 DEF Moved
<1>6. CASE ~(last < LastToken)
  <2> DEFINE pc == IF all = {} THEN "answered" ELSE "app"
             a == IF all = {} THEN "204" ELSE "none"
             q == [j EXCEPT !.tokens = all, !.cursor = last, !.pc = pc, !.answer = a]
  <2>1. Becomes(n, q)
    BY <1>2, <1>6 DEF MorePages, Becomes
  <2>2. pc \in Pc /\ a \in Answers
    BY DEF Pc, Answers
  <2>3. Moved(q, j, pc, last, all, j.current, j.sent, j.tried, a)
    <3> HIDE DEF all, a, pc
    <3> QED
      BY <1>1, <1>3, <1>4, <2>2, JobMoves, Zenon
  <2>4. j.stable \subseteq all
    <3> HIDE DEF all
    <3>1. \A k \in j.stable : k[2] <= last
      BY <1>1, <1>3, <1>6, ConstantsAssumption DEF Key, Token
    <3> QED
      BY <1>4, <3>1
  <2> HIDE DEF q, all
  <2>5. JobInv(q)
    BY <1>1, <1>4, <2>3, <2>4 DEF JobInv, Moved
  <2> QED
    BY <2>1, <2>3, <2>5 DEF Moved
<1> QED
  BY <1>5, <1>6

\* A job that has its Firebase app goes on to its tokens, none of which is lost.
LEMMA AppKeeps ==
  ASSUME TypeOK, NEW n \in Notifier, JobInv(job[n]), GetApp(n)
  PROVE  \E q \in Job : Becomes(n, q) /\ JobInv(q)
<1> DEFINE j == job[n]
<1>1. j \in Job /\ j.pc = "app"
  BY DEF TypeOK, GetApp
<1>2. CASE Answer(n, "500")
  BY <1>1, <1>2, AnswerKeeps DEF Answers, TypeOK
<1>3. CASE job' = [job EXCEPT ![n].pc = "send"]
  <2> DEFINE q == [j EXCEPT !.pc = "send"]
  <2>1. Becomes(n, q)
    BY <1>3 DEF Becomes
  <2>2. Moved(q, j, "send", j.cursor, j.tokens, j.current, j.sent, j.tried, j.answer)
    BY <1>1, JobMoves DEF Pc
  <2> HIDE DEF q
  <2>3. JobInv(q)
    BY <1>1, <2>2 DEF JobInv, Moved
  <2> QED
    BY <2>1, <2>2, <2>3 DEF Moved
<1> QED
  BY <1>2, <1>3 DEF GetApp

\* A token that has been sent to is tried, and is not in line any more.
LEMMA SendMoves ==
  ASSUME TypeOK, NEW n \in Notifier, JobInv(job[n]), NEW k \in job[n].tokens, Attempt(n, k)
  PROVE  /\ Moved(AfterSend(n, k), job[n], "send", job[n].cursor, job[n].tokens \ {k},
                  job[n].current, job[n].sent, job[n].tried \cup {k}, job[n].answer)
         /\ JobInv(AfterSend(n, k))
         /\ k \in Key
<1> DEFINE j == job[n]
           q == [j EXCEPT !.tokens = @ \ {k}, !.tried = @ \cup {k}]
<1>1. j \in Job /\ j.pc = "send"
  BY DEF TypeOK, Attempt
<1>2. j.tokens \ {k} \in SUBSET Key /\ j.tried \cup {k} \in SUBSET Key /\ k \in Key
  BY <1>1 DEF Job
<1>3. Moved(q, j, j.pc, j.cursor, j.tokens \ {k}, j.current, j.sent, j.tried \cup {k}, j.answer)
  BY <1>1, <1>2, JobMoves, Zenon
<1>4. q = AfterSend(n, k)
  BY DEF AfterSend
<1> HIDE DEF q
<1>5. JobInv(q)
  BY <1>1, <1>3 DEF JobInv, Moved
<1> QED
  BY <1>1, <1>2, <1>3, <1>4, <1>5

\* A send, delivered, failed or refused as unregistered, leaves a sound job; in the
\* last case the token to clean up is dead.
LEMMA SendKeeps ==
  ASSUME TypeOK, NEW n \in Notifier, JobInv(job[n]),
         SendDelivered(n) \/ SendUnregistered(n) \/ SendFailed(n)
  PROVE  \E q \in Job : Becomes(n, q) /\ JobInv(q)
<1>1. CASE SendDelivered(n)
  <2>1. PICK k \in job[n].tokens :
          /\ Attempt(n, k)
          /\ Becomes(n, [AfterSend(n, k) EXCEPT !.sent = @ \cup {k}])
    BY <1>1 DEF SendDelivered, Becomes
  <2> DEFINE a == AfterSend(n, k)
             q == [a EXCEPT !.sent = @ \cup {k}]
  <2>2. a \in Job /\ JobInv(a) /\ a.pc = "send" /\ k \in a.tried /\ k \in Key
    BY <2>1, SendMoves DEF Moved
  <2> HIDE DEF a
  <2>3. a.sent \cup {k} \in SUBSET Key
    BY <2>2 DEF Job
  <2>4. Moved(q, a, a.pc, a.cursor, a.tokens, a.current, a.sent \cup {k}, a.tried, a.answer)
    BY <2>2, <2>3, JobMoves, Zenon
  <2>5. Becomes(n, q)
    BY <2>1 DEF a
  <2> HIDE DEF q
  <2>6. JobInv(q)
    BY <2>2, <2>4 DEF JobInv, Moved
  <2> QED
    BY <2>4, <2>5, <2>6 DEF Moved
<1>2. CASE SendUnregistered(n)
  <2>1. PICK k \in job[n].tokens :
          /\ Attempt(n, k) /\ k[2] \in dead
          /\ Becomes(n, [AfterSend(n, k) EXCEPT !.pc = "cleanup", !.current = {k}])
    BY <1>2 DEF SendUnregistered, Becomes
  <2> DEFINE a == AfterSend(n, k)
             q == [a EXCEPT !.pc = "cleanup", !.current = {k}]
  <2>2. a \in Job /\ JobInv(a) /\ a.pc = "send" /\ {k} \in SUBSET Key
    BY <2>1, SendMoves DEF Moved
  <2> HIDE DEF a
  <2>3. Moved(q, a, "cleanup", a.cursor, a.tokens, {k}, a.sent, a.tried, a.answer)
    BY <2>2, JobMoves DEF Pc
  <2>4. Becomes(n, q)
    BY <2>1 DEF a
  <2> HIDE DEF q
  <2>5. JobInv(q)
    BY <2>1, <2>2, <2>3 DEF JobInv, Moved
  <2> QED
    BY <2>3, <2>4, <2>5 DEF Moved
<1>3. CASE SendFailed(n)
  BY <1>3, SendMoves DEF SendFailed, Becomes, Moved
<1> QED
  BY <1>1, <1>2, <1>3

\* The last answer, the loss of the query, and the end by the runtime.
LEMMA EndKeeps ==
  ASSUME TypeOK, NEW n \in Notifier, JobInv(job[n]),
         QueryError(n) \/ NotifyRespond(n) \/ NotifyStopped(n)
  PROVE  \E q \in Job : Becomes(n, q) /\ JobInv(q)
<1>1. CASE QueryError(n)
  BY <1>1, AnswerKeeps DEF QueryError, Answers, TypeOK
<1>2. CASE NotifyRespond(n)
  <2>1. Answer(n, "201") /\ job[n].stable \subseteq job[n].tried
    BY <1>2 DEF NotifyRespond, JobInv
  <2> QED
    BY <2>1, AnswerKeeps DEF Answers, TypeOK
<1>3. CASE NotifyStopped(n)
  BY <1>3, AnswerKeeps DEF NotifyStopped, Answers, TypeOK
<1> QED
  BY <1>1, <1>2, <1>3

-----------------------------------------------------------------------------
(* What happens around a job.                                              *)

\* A job stays sound while keys change, if no promise is kept about those that do.
LEMMA UnsettledKeeps ==
  ASSUME NEW m \in Notifier, NEW j \in Job, JobInv(j), NEW keys,
         job'[m] = Unsettle(j, keys),
         \A k \in Key \ keys : table'[k] = table[k] /\ (k \in lagging' => k \in lagging),
         dead \subseteq dead'
  PROVE  job'[m] \in Job /\ JobInv(job[m])'
<1> DEFINE q == job'[m]
           Now(u) == {l \in Key : l[1] = u /\ table'[l] # Absent}
<1>1. /\ q \in Job /\ q.stable = j.stable \ keys
      /\ q.hidden = j.hidden \ {k \in keys : k[1] = j.user}
      /\ q.user = j.user /\ q.cursor = j.cursor /\ q.tokens = j.tokens /\ q.current = j.current
      /\ q.sent = j.sent /\ q.tried = j.tried /\ q.pc = j.pc /\ q.answer = j.answer
  <2>1. ASSUME NEW x \in SUBSET Key, NEW y \in SUBSET Key
        PROVE  LET d == [j EXCEPT !.stable = x, !.hidden = y]
               IN  /\ d \in Job /\ d.stable = x /\ d.hidden = y
                   /\ d.user = j.user /\ d.cursor = j.cursor /\ d.tokens = j.tokens
                   /\ d.current = j.current /\ d.sent = j.sent /\ d.tried = j.tried
                   /\ d.pc = j.pc /\ d.answer = j.answer
    BY Zenon DEF Job
  <2> DEFINE x == j.stable \ keys
             y == j.hidden \ {k \in keys : k[1] = j.user}
  <2>2. q = [j EXCEPT !.stable = x, !.hidden = y]
    BY DEF Unsettle
  <2>3. x \in SUBSET Key /\ y \in SUBSET Key
    BY DEF Job
  <2> HIDE DEF x, y, q
  <2>4. /\ q \in Job /\ q.stable = x /\ q.hidden = y
        /\ q.user = j.user /\ q.cursor = j.cursor /\ q.tokens = j.tokens
        /\ q.current = j.current /\ q.sent = j.sent /\ q.tried = j.tried
        /\ q.pc = j.pc /\ q.answer = j.answer
    BY <2>1, <2>2, <2>3
  <2> QED
    BY <2>4 DEF x, y
<1>2. ASSUME NEW k \in Key \ keys
      PROVE  /\ k \in Registered(j.user) <=> k \in Now(j.user)
             /\ k \in lagging' => k \in lagging
  BY <1>2 DEF Registered
<1>3. /\ \A k \in j.stable \ keys : k \in Key \ keys
      /\ \A k \in j.hidden \ keys : k \in Key \ keys
  BY DEF Job
<1> HIDE DEF q, Now
<1>4. /\ (q.tokens \cup q.tried) \cap q.hidden = {}
      /\ \A k \in q.hidden : k[1] = q.user => k \notin Now(q.user) \cup lagging'
  BY <1>1, <1>2, <1>3 DEF JobInv
<1>5. /\ q.pc \in {"query", "app"} => q.tried = {}
      /\ q.pc # "answered" => q.answer = "none"
      /\ q.pc = "query" => \A k \in q.stable : /\ k \in Now(q.user) \ lagging'
                                               /\ k[2] <= q.cursor => k \in q.tokens
      /\ q.pc \in {"app", "send", "cleanup"} => q.stable \subseteq q.tokens \cup q.tried
      /\ q.answer \in {"201", "204"} => q.stable \subseteq q.tried
      /\ q.pc = "cleanup" => \A k \in q.current : k[2] \in dead'
  BY <1>1, <1>2, <1>3 DEF JobInv
<1> QED
  BY <1>1, <1>4, <1>5 DEF JobInv, Registered, Now, q

\* The job of one environment moves on, the others and the tables stay.
LEMMA OneJobMoves ==
  ASSUME TypeOK, JobsInv, NEW n \in Notifier, NEW q \in Job, Becomes(n, q), JobInv(q),
         UNCHANGED <<table, lagging>>, dead \subseteq dead'
  PROVE  job' \in [Notifier -> Job] /\ JobsInv'
<1>1. ASSUME NEW m \in Notifier PROVE JobInv(job[m])'
  <2>1. JobInv(job'[m])
    BY DEF Becomes, TypeOK, JobsInv
  <2> QED
    BY <2>1 DEF JobInv, Registered
<1> QED
  BY <1>1 DEF Becomes, TypeOK, JobsInv

\* A clean-up that fails goes on; one that succeeds takes the token, and every job's
\* promise of it, away.
LEMMA CleanupKeeps ==
  ASSUME TypeOK, JobsInv, NEW n \in Notifier, Cleanup(n)
  PROVE  TokenTypeOK' /\ job' \in [Notifier -> Job] /\ JobsInv'
<1>1. PICK k \in job[n].current :
        \/ /\ Remove(k)
           /\ job' = [m \in Notifier |->
                       IF m = n
                       THEN [Unsettle(job[m], {k}) EXCEPT !.pc = "send", !.current = {}]
                       ELSE Unsettle(job[m], {k})]
        \/ /\ job' = [job EXCEPT ![n].pc = "send", ![n].current = {}]
           /\ UNCHANGED <<table, lagging>>
  BY DEF Cleanup
<1>2. job[n] \in Job /\ job[n].pc = "cleanup" /\ JobInv(job[n]) /\ k \in Key
  BY DEF TypeOK, JobsInv, Cleanup, Job
<1> DEFINE q == [job[n] EXCEPT !.pc = "send", !.current = {}]
<1>3. /\ Moved(q, job[n], "send", job[n].cursor, job[n].tokens, {}, job[n].sent,
               job[n].tried, job[n].answer)
      /\ JobInv(q)
  <2>1. Moved(q, job[n], "send", job[n].cursor, job[n].tokens, {}, job[n].sent,
              job[n].tried, job[n].answer)
    BY <1>2, JobMoves DEF Pc
  <2> HIDE DEF q
  <2> QED
    BY <1>2, <2>1 DEF JobInv, Moved
<1>4. CASE /\ job' = [job EXCEPT ![n].pc = "send", ![n].current = {}]
           /\ UNCHANGED <<table, lagging>>
  <2>1. Becomes(n, q) /\ q \in Job
    BY <1>3, <1>4 DEF Becomes, Moved
  <2>2. TokenTypeOK'
    BY <1>4 DEF Cleanup, TokenTypeOK, TypeOK
  <2> HIDE DEF q
  <2> QED
    BY <1>3, <1>4, <2>1, <2>2, OneJobMoves DEF Cleanup
<1>5. CASE /\ Remove(k)
           /\ job' = [m \in Notifier |->
                       IF m = n
                       THEN [Unsettle(job[m], {k}) EXCEPT !.pc = "send", !.current = {}]
                       ELSE Unsettle(job[m], {k})]
  <2>1. TokenTypeOK'
    BY <1>2, <1>5 DEF Cleanup, Remove, TokenTypeOK, TypeOK
  <2>2. ASSUME NEW l \in Key \ {k}
        PROVE  table'[l] = table[l] /\ (l \in lagging' => l \in lagging)
    BY <1>5 DEF Remove, TypeOK, TokenTypeOK
  <2>3. ASSUME NEW m \in Notifier PROVE job'[m] \in Job /\ JobInv(job[m])'
    <3> DEFINE j == IF m = n THEN q ELSE job[m]
    <3>1. j \in Job /\ JobInv(j)
      BY <1>3 DEF Moved, JobsInv, TypeOK
    <3>2. job'[m] = Unsettle(j, {k})
      <4>1. CASE m = n
        BY <1>5, <4>1, <1>2 DEF Job, Unsettle
      <4>2. CASE m # n
        BY <1>5, <4>2
      <4> QED
        BY <4>1, <4>2
    <3>3. dead \subseteq dead'
      BY DEF Cleanup
    <3> HIDE DEF j
    <3> QED
      BY <2>2, <3>1, <3>2, <3>3, UnsettledKeeps
  <2>4. job' \in [Notifier -> Job]
    BY <1>5, <2>3
  <2> QED
    BY <2>1, <2>3, <2>4 DEF JobsInv
<1> QED
  BY <1>1, <1>4, <1>5

\* A request of device_tokens ends the promises of the tokens it changes, and makes
\* no other token lag.
LEMMA TokenStepKeeps ==
  ASSUME TypeOK, JobsInv, TokenStep
  PROVE  TokenTypeOK' /\ job' \in [Notifier -> Job] /\ JobsInv'
<1> DEFINE changed == {k \in Key : table[k] # table'[k]}
<1>1. TokenTypeOK'
  BY TokenTypeStep DEF TokenStep, TypeOK
<1>2. ASSUME NEW k \in Key \ changed
      PROVE  table'[k] = table[k] /\ (k \in lagging' => k \in lagging)
  BY <1>2, LagsOnChange DEF TokenStep, TypeOK
<1>3. ASSUME NEW m \in Notifier PROVE job'[m] \in Job /\ JobInv(job[m])'
  <2>1. job[m] \in Job /\ JobInv(job[m]) /\ dead \subseteq dead'
    BY DEF TypeOK, JobsInv, TokenStep
  <2>2. job'[m] = Unsettle(job[m], changed)
    BY DEF TokenStep, Unsettled
  <2> HIDE DEF changed
  <2> QED
    BY <1>2, <2>1, <2>2, UnsettledKeeps
<1>4. job' \in [Notifier -> Job]
  BY <1>3 DEF TokenStep, Unsettled
<1> QED
  BY <1>1, <1>3, <1>4 DEF JobsInv

-----------------------------------------------------------------------------
(* The theorems.                                                           *)

\* Before any request no device is registered and no job is under way.
LEMMA InitKeeps == Init => TypeOK /\ JobsInv
<1> SUFFICES ASSUME Init PROVE TypeOK /\ JobsInv
  OBVIOUS
<1>1. TokenTypeOK
  BY TokenTypeInit DEF Init
<1>2. PICK u \in User : job = [n \in Notifier |-> IdleJob(u)]
  BY DEF Init
<1>3. IdleJob(u) \in Job /\ JobInv(IdleJob(u))
  BY IdleJobType DEF JobInv, IdleJob
<1> QED
  BY <1>1, <1>2, <1>3 DEF Init, TypeOK, JobsInv

\* Every step keeps the types and the invariant.
LEMMA NextKeeps == TypeOK /\ JobsInv /\ [Next]_vars => (TypeOK /\ JobsInv)'
<1> SUFFICES ASSUME TypeOK, JobsInv, [Next]_vars PROVE (TypeOK /\ JobsInv)'
  OBVIOUS
<1>1. CASE TokenStep
  BY <1>1, TokenStepKeeps DEF TokenStep, TypeOK
<1>2. ASSUME NEW n \in Notifier, Cleanup(n) PROVE (TypeOK /\ JobsInv)'
  BY <1>2, CleanupKeeps DEF Cleanup, TypeOK
<1>3. ASSUME NEW n \in Notifier,
             \/ NotifyHandler(n) \/ NotifyStopped(n) \/ QueryPage(n) \/ QueryError(n)
             \/ GetApp(n) \/ SendDelivered(n) \/ SendUnregistered(n) \/ SendFailed(n)
             \/ NotifyRespond(n)
      PROVE  (TypeOK /\ JobsInv)'
  <2>1. JobInv(job[n])
    BY DEF JobsInv
  <2>2. \E q \in Job : Becomes(n, q) /\ JobInv(q)
    BY <1>3, <2>1, HandlerKeeps, QueryKeeps, AppKeeps, SendKeeps, EndKeeps
  <2>3. UNCHANGED <<tokenVars, secret, dead>> /\ app' \subseteq app \cup {n}
    BY <1>3 DEF NotifyHandler, NotifyStopped, QueryPage, QueryError, GetApp, SendDelivered,
                SendUnregistered, SendFailed, NotifyRespond
  <2>4. UNCHANGED <<table, lagging, now, req>>
    BY <2>3 DEF tokenVars
  <2>5. job' \in [Notifier -> Job] /\ JobsInv'
    BY <2>2, <2>3, <2>4, OneJobMoves
  <2> QED
    BY <2>3, <2>4, <2>5 DEF TypeOK, TokenTypeOK
<1>4. ASSUME NEW t \in Token, Expire(t) PROVE (TypeOK /\ JobsInv)'
  BY <1>4 DEF Expire, tokenVars, TypeOK, TokenTypeOK, JobsInv, JobInv, Registered
<1>5. CASE ChangeSecret
  BY <1>5 DEF ChangeSecret, tokenVars, TypeOK, TokenTypeOK, JobsInv, JobInv, Registered
<1>6. CASE UNCHANGED vars
  BY <1>6 DEF vars, tokenVars, pushVars, TypeOK, TokenTypeOK, JobsInv, JobInv, Registered
<1> QED
  BY <1>1, <1>2, <1>3, <1>4, <1>5, <1>6 DEF Next, Step

LEMMA Invariant == Spec => [](TypeOK /\ JobsInv)
  BY InitKeeps, NextKeeps, PTL DEF Spec

\* Every variable keeps its type, for any numbers of users, tokens, requests and
\* environments.
THEOREM TypeCorrect == Spec => []TypeOK
  BY Invariant, PTL

\* An invocation sends to nothing but tokens that were registered for its caller, by what
\* some replica said, at a moment since it began: not to a device that signed out before,
\* on any page, whatever registrations, removals and clean-ups come between.
THEOREM SentToRegistered == Spec => []SendsOnlyToRegistered
<1>1. TypeOK /\ JobsInv => SendsOnlyToRegistered
  BY DEF JobsInv, JobInv, SendsOnlyToRegistered
<1> QED
  BY <1>1, Invariant, PTL

\* A 201, or a 204 for want of tokens, means that every device was tried that each query
\* had to show: no page, failed send or failed clean-up loses one.
THEOREM DevicesTried == Spec => []EveryDeviceTried
<1>1. TypeOK /\ JobsInv => EveryDeviceTried
  BY DEF JobsInv, JobInv, EveryDeviceTried
<1> QED
  BY <1>1, Invariant, PTL

\* A token disappears only on a request of its user for it, or when FCM has dropped it:
\* no clean-up, however late, removes a live one.
THEOREM LiveTokensSurvive == Spec => LiveTokensStay
<1>1. TypeOK /\ JobsInv /\ [Next]_vars =>
        [\A k \in Key : table[k] # Absent /\ table'[k] = Absent =>
           \/ k[2] \in dead
           \/ \E r \in Request : req[r].pc = "unregister" /\ KeyOf(req[r]) = k]_vars
  <2> SUFFICES ASSUME TypeOK, JobsInv, [Next]_vars, NEW k \in Key,
                      table[k] # Absent, table'[k] = Absent
               PROVE  \/ k[2] \in dead
                      \/ \E r \in Request : req[r].pc = "unregister" /\ KeyOf(req[r]) = k
    OBVIOUS
  <2>1. ASSUME NEW n \in Notifier, Cleanup(n) PROVE k[2] \in dead
    <3>1. PICK l \in job[n].current : Remove(l) \/ UNCHANGED table
      BY <2>1 DEF Cleanup
    <3>2. l[2] \in dead
      BY <2>1 DEF Cleanup, JobsInv, JobInv
    <3> QED
      BY <3>1, <3>2 DEF Remove, TypeOK, TokenTypeOK
  <2>2. CASE TokenStep
    <3>1. PICK r \in Request : Upserts(r) \/ Removes(r)
      BY <2>2, TokenSteps DEF TokenStep
    <3>2. ~Upserts(r)
      BY OneTokenChanges, AbsentAssumption DEF TypeOK, TokenTypeOK
    <3>3. req[r].pc = "unregister" /\ KeyOf(req[r]) = k
      BY <3>1, <3>2, OneTokenChanges DEF Removes, TypeOK, TokenTypeOK
    <3> QED
      BY <3>3
  <2>3. TokenStep \/ \E n \in Notifier : Cleanup(n)
    BY DEF Next, Step, NotifyHandler, NotifyStopped, QueryPage, QueryError, GetApp,
           SendDelivered, SendUnregistered, SendFailed, NotifyRespond, Expire, ChangeSecret,
           vars, tokenVars
  <2> QED
    BY <2>1, <2>2, <2>3
<1> QED
  BY <1>1, Invariant, PTL DEF Spec, LiveTokensStay
================================================================================
