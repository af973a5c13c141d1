------------------------------ MODULE DeviceTokens ------------------------------
(***************************************************************************)
(* The device tokens of device_tokens: PUT /devices/token upserts a token  *)
(* and DELETE /devices/token removes it.  A request is one invocation: its *)
(* validation and clock reading are one step, its DynamoDB call another.   *)
(***************************************************************************)
EXTENDS Integers, FiniteSets

CONSTANTS User,         \* Cognito identities
          LastToken,    \* device tokens are 1 .. LastToken, in the table's order
          Platform,     \* android and ios
          Request,      \* invocations of the two handlers
          MaxTime,      \* bound of the clock
          MaxAttempts,  \* attempts of the SDK at one call
          Absent        \* no item under a key

Token == 1 .. LastToken
Key   == User \X Token
Time  == 0 .. MaxTime

ASSUME ConstantsAssumption == /\ LastToken \in Nat \ {0} /\ MaxTime \in Nat
                              /\ MaxAttempts \in Nat \ {0}

Item == [platform : Platform, registeredAt : Time, updatedAt : Time]

ASSUME AbsentAssumption == Absent \notin Item

VARIABLES table,    \* [Key -> Item \cup {Absent}]
          lagging,  \* SUBSET Key: tokens that a query may still miss, or still show
          now,      \* the clock that time.time() reads
          req       \* [Request -> Idle \cup Call]

tokenVars == <<table, lagging, now, req>>

\* A request between calls is known by its last answer.
Idle == [pc : {"idle"}, answer : {"none", "200", "201", "400", "403", "500", "504"}]
Call == [pc : {"register"}, user : User, token : Token, platform : Platform,
         time : Time, attempt : 1 .. MaxAttempts]
          \cup [pc : {"unregister"}, user : User, token : Token,
                attempt : 1 .. MaxAttempts]

KeyOf(c) == <<c.user, c.token>>

Stored == {k \in Key : table[k] # Absent}

TokenInit == /\ table = [k \in Key |-> Absent]
             /\ lagging = {}
             /\ now = 0
             /\ req = [r \in Request |-> [pc |-> "idle", answer |-> "none"]]

Tick == /\ now < MaxTime
        /\ now' = now + 1
        /\ UNCHANGED <<table, lagging, req>>

Reply(r, answer) == req' = [req EXCEPT ![r] = [pc |-> "idle", answer |-> answer]]

\* No identity (403), an invalid body or field (400).
Refuse(r) == \E answer \in {"400", "403"} : Reply(r, answer)

\* Mutant: the SDK never gives up.
NoAnswerWithoutEnd(r) == req' = [req EXCEPT ![r].attempt = @ + 1]

\* No answer reaches the SDK, which sends the call again or raises at last.
NoAnswer(r) == \/ /\ req[r].attempt < MaxAttempts
                  /\ req' = [req EXCEPT ![r].attempt = @ + 1]
               \/ Reply(r, "500")

\* save_device_token reads the clock before its call.
RegisterHandler(r) ==
  /\ req[r].pc = "idle"
  /\ \/ Refuse(r)
     \/ \E u \in User, t \in Token, f \in Platform :
          req' = [req EXCEPT ![r] = [pc |-> "register", user |-> u, token |-> t,
                                     platform |-> f, time |-> now, attempt |-> 1]]
  /\ UNCHANGED <<table, lagging, now>>

\* Mutant: registeredAt is set without if_not_exists.
UpsertedAnew(old, c) == [platform |-> c.platform, registeredAt |-> c.time,
                         updatedAt |-> c.time]

\* SET platform, registeredAt = if_not_exists(registeredAt, now), updatedAt = now.
Upserted(old, c) == [platform |-> c.platform,
                     registeredAt |-> IF old = Absent THEN c.time ELSE old.registeredAt,
                     updatedAt |-> c.time]

UpdateItem(r) ==
  /\ req[r].pc = "register"
  /\ \/ /\ table' = [table EXCEPT ![KeyOf(req[r])] = Upserted(@, req[r])]
        /\ lagging' = lagging \cup ({KeyOf(req[r])} \ Stored)
        /\ Reply(r, "201") \/ NoAnswer(r)
     \/ /\ NoAnswer(r)
        /\ UNCHANGED <<table, lagging>>
  /\ UNCHANGED now

UnregisterHandler(r) ==
  /\ req[r].pc = "idle"
  /\ \/ Refuse(r)
     \/ \E u \in User, t \in Token :
          req' = [req EXCEPT ![r] = [pc |-> "unregister", user |-> u, token |-> t,
                                     attempt |-> 1]]
  /\ UNCHANGED <<table, lagging, now>>

\* delete_item without a condition: deleting an absent token succeeds.
Remove(k) == /\ table' = [table EXCEPT ![k] = Absent]
             /\ lagging' = lagging \cup ({k} \cap Stored)

DeleteItem(r) ==
  /\ req[r].pc = "unregister"
  /\ \/ /\ Remove(KeyOf(req[r]))
        /\ Reply(r, "200") \/ NoAnswer(r)
     \/ /\ NoAnswer(r)
        /\ UNCHANGED <<table, lagging>>
  /\ UNCHANGED now

\* The runtime stops an invocation at its time limit.
Timeout(r) == /\ req[r].pc # "idle"
              /\ Reply(r, "504")
              /\ UNCHANGED <<table, lagging, now>>

Replicate(k) == /\ k \in lagging
                /\ lagging' = lagging \ {k}
                /\ UNCHANGED <<table, now, req>>

TokenNext == \/ Tick
             \/ \E k \in lagging : Replicate(k)
             \/ \E r \in Request : \/ RegisterHandler(r) \/ UpdateItem(r)
                                   \/ UnregisterHandler(r) \/ DeleteItem(r) \/ Timeout(r)

TokenSpec == TokenInit /\ [][TokenNext]_tokenVars

-----------------------------------------------------------------------------
\* Every variable keeps its type.
TokenTypeOK == /\ table \in [Key -> Item \cup {Absent}]
               /\ lagging \subseteq Key
               /\ now \in Time
               /\ req \in [Request -> Idle \cup Call]

\* db.py: a repeated PUT updates the token "while keeping the first registration
\* time", whatever the order in which racing or resent updates land.
RegistrationTimeKept ==
  [][\A k \in Key : table[k] # Absent /\ table'[k] # Absent
       => table'[k].registeredAt = table[k].registeredAt]_table
================================================================================
