---------------------------- MODULE DeviceTokensProofs ----------------------------
(***************************************************************************)
(* Proofs about DeviceTokens, for any users, tokens, requests, attempts    *)
(* and clocks: the types, what a step can do to the table, and that a      *)
(* registration keeps its first time.                                      *)
(***************************************************************************)
EXTENDS DeviceTokens, TLAPS

-----------------------------------------------------------------------------
(* Type correctness.                                                       *)

\* A request that has reached its call addresses a key; one that registers carries a
\* platform and the time it has read.
LEMMA CallFields ==
  ASSUME NEW c \in Idle \cup Call, c.pc # "idle"
  PROVE  /\ c \in Call /\ KeyOf(c) \in Key /\ c.attempt \in 1 .. MaxAttempts
         /\ c.pc = "register" => c.platform \in Platform /\ c.time \in Time
<1>1. c \in Call
  BY DEF Idle
<1> QED
  BY <1>1 DEF Call, KeyOf, Key

\* The SDK's next attempt is a call like the one before.
LEMMA NextAttempt ==
  ASSUME NEW c \in Call, c.attempt < MaxAttempts
  PROVE  [c EXCEPT !.attempt = @ + 1] \in Call
<1>1. c.attempt \in 1 .. MaxAttempts /\ MaxAttempts \in Nat
  BY ConstantsAssumption DEF Call
<1>2. c.attempt + 1 \in 1 .. MaxAttempts
  BY <1>1
<1>3. CASE c \in [pc : {"register"}, user : User, token : Token, platform : Platform,
                  time : Time, attempt : 1 .. MaxAttempts]
  BY <1>2, <1>3, Zenon DEF Call
<1>4. CASE c \in [pc : {"unregister"}, user : User, token : Token,
                  attempt : 1 .. MaxAttempts]
  BY <1>2, <1>4, Zenon DEF Call
<1> QED
  BY <1>3, <1>4 DEF Call

\* The steps that answer a request or send its call again keep its type.
LEMMA ReplyTypes ==
  ASSUME req \in [Request -> Idle \cup Call], NEW r \in Request,
         NEW a \in {"200", "201", "400", "403", "500", "504"},
         Reply(r, a) \/ (req[r].pc # "idle" /\ NoAnswer(r))
  PROVE  req' \in [Request -> Idle \cup Call]
<1>1. ASSUME NEW b \in {"200", "201", "400", "403", "500", "504"}, Reply(r, b)
      PROVE  req' \in [Request -> Idle \cup Call]
  <2>1. [pc |-> "idle", answer |-> b] \in Idle
    BY DEF Idle
  <2> QED
    BY <1>1, <2>1 DEF Reply
<1>2. ASSUME req[r].pc # "idle", req[r].attempt < MaxAttempts,
             req' = [req EXCEPT ![r].attempt = @ + 1]
      PROVE  req' \in [Request -> Idle \cup Call]
  <2>1. [req[r] EXCEPT !.attempt = @ + 1] \in Call
    BY <1>2, CallFields, NextAttempt
  <2>2. req' = [req EXCEPT ![r] = [req[r] EXCEPT !.attempt = @ + 1]]
    BY <1>2
  <2> QED
    BY <2>1, <2>2
<1> QED
  BY <1>1, <1>2 DEF NoAnswer

\* What an upsert stores is an item.
LEMMA UpsertType ==
  ASSUME NEW c, c.platform \in Platform, c.time \in Time, NEW old \in Item \cup {Absent}
  PROVE  Upserted(old, c) \in Item
<1>1. old # Absent => old.registeredAt \in Time
  BY DEF Item
<1> QED
  BY <1>1 DEF Upserted, Item

\* Every step keeps the types, whatever is resent and whenever it lands.
LEMMA TokenTypeStep == TokenTypeOK /\ [TokenNext]_tokenVars => TokenTypeOK'
<1> SUFFICES ASSUME TokenTypeOK, [TokenNext]_tokenVars PROVE TokenTypeOK'
  OBVIOUS
<1> USE DEF TokenTypeOK
<1>1. CASE Tick
  BY <1>1, ConstantsAssumption DEF Tick, Time
<1>2. ASSUME NEW k \in lagging, Replicate(k) PROVE TokenTypeOK'
  BY <1>2 DEF Replicate
<1>3. ASSUME NEW r \in Request, Refuse(r) PROVE req' \in [Request -> Idle \cup Call]
  BY <1>3, ReplyTypes DEF Refuse
<1>4. 1 \in 1 .. MaxAttempts
  BY ConstantsAssumption
<1>5. ASSUME NEW r \in Request, RegisterHandler(r) PROVE TokenTypeOK'
  <2>1. ASSUME NEW u \in User, NEW t \in Token, NEW f \in Platform
        PROVE  [pc |-> "register", user |-> u, token |-> t, platform |-> f,
                time |-> now, attempt |-> 1] \in Call
    BY <1>4 DEF Call
  <2> QED
    BY <1>3, <1>5, <2>1 DEF RegisterHandler
<1>6. ASSUME NEW r \in Request, UnregisterHandler(r) PROVE TokenTypeOK'
  <2>1. ASSUME NEW u \in User, NEW t \in Token
        PROVE  [pc |-> "unregister", user |-> u, token |-> t, attempt |-> 1] \in Call
    BY <1>4 DEF Call
  <2> QED
    BY <1>3, <1>6, <2>1 DEF UnregisterHandler
<1>7. ASSUME NEW r \in Request, UpdateItem(r) PROVE TokenTypeOK'
  <2>1. req[r] \in Idle \cup Call /\ req[r].pc = "register"
    BY <1>7 DEF UpdateItem
  <2>2. /\ KeyOf(req[r]) \in Key
        /\ req[r].platform \in Platform /\ req[r].time \in Time
    BY <2>1, CallFields
  <2>3. Upserted(table[KeyOf(req[r])], req[r]) \in Item
    BY <2>2, UpsertType
  <2>4. req' \in [Request -> Idle \cup Call]
    BY <1>7, <2>1, ReplyTypes DEF UpdateItem
  <2> QED
    BY <1>7, <2>2, <2>3, <2>4 DEF UpdateItem
<1>8. ASSUME NEW r \in Request, DeleteItem(r) PROVE TokenTypeOK'
  <2>1. req[r] \in Idle \cup Call /\ req[r].pc = "unregister"
    BY <1>8 DEF DeleteItem
  <2>2. KeyOf(req[r]) \in Key
    BY <2>1, CallFields
  <2>3. req' \in [Request -> Idle \cup Call]
    BY <1>8, <2>1, ReplyTypes DEF DeleteItem
  <2> QED
    BY <1>8, <2>2, <2>3 DEF DeleteItem, Remove
<1>9. ASSUME NEW r \in Request, Timeout(r) PROVE TokenTypeOK'
  BY <1>9, ReplyTypes DEF Timeout
<1>10. CASE UNCHANGED tokenVars
  BY <1>10 DEF tokenVars
<1> QED
  BY <1>1, <1>2, <1>5, <1>6, <1>7, <1>8, <1>9, <1>10 DEF TokenNext

\* No token is registered before any request.
LEMMA TokenTypeInit == TokenInit => TokenTypeOK
<1> SUFFICES ASSUME TokenInit PROVE TokenTypeOK
  OBVIOUS
<1>1. 0 \in Time
  BY ConstantsAssumption DEF Time
<1> QED
  BY <1>1 DEF TokenInit, TokenTypeOK, Idle

\* Every variable keeps its type, for any numbers of users, tokens and requests.
THEOREM TokenTypeCorrect == TokenSpec => []TokenTypeOK
  BY TokenTypeInit, TokenTypeStep, PTL DEF TokenSpec

-----------------------------------------------------------------------------
(* What a step does to the table: nothing, an upsert, or a removal.        *)

Upserts(r) == /\ req[r].pc = "register"
              /\ table' = [table EXCEPT ![KeyOf(req[r])] = Upserted(@, req[r])]
              /\ lagging' = lagging \cup ({KeyOf(req[r])} \ Stored)

Removes(r) == req[r].pc = "unregister" /\ Remove(KeyOf(req[r]))

\* Only update_item and delete_item of a request under way change the table.
LEMMA TokenSteps ==
  ASSUME [TokenNext]_tokenVars
  PROVE  UNCHANGED table \/ \E r \in Request : Upserts(r) \/ Removes(r)
<1>1. ASSUME NEW r \in Request, UpdateItem(r) PROVE UNCHANGED table \/ Upserts(r)
  BY <1>1 DEF UpdateItem, Upserts
<1>2. ASSUME NEW r \in Request, DeleteItem(r) PROVE UNCHANGED table \/ Removes(r)
  BY <1>2 DEF DeleteItem, Removes
<1>3. ASSUME NEW r \in Request, RegisterHandler(r) \/ UnregisterHandler(r) \/ Timeout(r)
      PROVE  UNCHANGED table
  BY <1>3 DEF RegisterHandler, UnregisterHandler, Timeout
<1>4. (Tick \/ \E k \in lagging : Replicate(k)) => UNCHANGED table
  BY DEF Tick, Replicate
<1>5. UNCHANGED tokenVars => UNCHANGED table
  BY DEF tokenVars
<1> QED
  BY <1>1, <1>2, <1>3, <1>4, <1>5 DEF TokenNext

\* An upsert or a removal changes the token of its request and no other.
LEMMA OneTokenChanges ==
  ASSUME TokenTypeOK, NEW r \in Request
  PROVE  /\ Upserts(r) =>
              /\ KeyOf(req[r]) \in Key
              /\ table' = [table EXCEPT ![KeyOf(req[r])] =
                                  Upserted(table[KeyOf(req[r])], req[r])]
              /\ Upserted(table[KeyOf(req[r])], req[r]) \in Item
         /\ Removes(r) => /\ KeyOf(req[r]) \in Key
                          /\ table' = [table EXCEPT ![KeyOf(req[r])] = Absent]
<1>1. req[r] \in Idle \cup Call
  BY DEF TokenTypeOK
<1>2. ASSUME Upserts(r)
      PROVE  /\ KeyOf(req[r]) \in Key
             /\ table' = [table EXCEPT ![KeyOf(req[r])] =
                                 Upserted(table[KeyOf(req[r])], req[r])]
             /\ Upserted(table[KeyOf(req[r])], req[r]) \in Item
  <2>1. KeyOf(req[r]) \in Key /\ req[r].platform \in Platform /\ req[r].time \in Time
    BY <1>1, <1>2, CallFields DEF Upserts
  <2>2. Upserted(table[KeyOf(req[r])], req[r]) \in Item
    BY <2>1, UpsertType DEF TokenTypeOK
  <2> QED
    BY <1>2, <2>1, <2>2 DEF Upserts
<1>3. ASSUME Removes(r)
      PROVE  /\ KeyOf(req[r]) \in Key
             /\ table' = [table EXCEPT ![KeyOf(req[r])] = Absent]
  BY <1>1, <1>3, CallFields DEF Removes, Remove
<1> QED
  BY <1>2, <1>3

\* A query shows a token as it is unless a step has just changed whether it is there.
LEMMA LagsOnChange ==
  ASSUME TokenTypeOK, TokenNext, NEW k \in lagging' \ lagging
  PROVE  k \in Key /\ table'[k] # table[k]
<1>1. PICK r \in Request : UpdateItem(r) \/ DeleteItem(r)
  BY DEF TokenNext, Tick, Replicate, RegisterHandler, UnregisterHandler, Timeout
<1>2. req[r] \in Idle \cup Call /\ req[r].pc # "idle"
  BY <1>1 DEF TokenTypeOK, UpdateItem, DeleteItem
<1>3. KeyOf(req[r]) \in Key
  BY <1>2, CallFields
<1>4. CASE UpdateItem(r)
  <2>1. k = KeyOf(req[r]) /\ table[k] = Absent /\ Upserts(r)
    BY <1>3, <1>4 DEF UpdateItem, Stored, Upserts
  <2> QED
    BY <1>3, <2>1, OneTokenChanges, AbsentAssumption DEF TokenTypeOK
<1>5. CASE DeleteItem(r)
  BY <1>3, <1>5 DEF DeleteItem, Remove, Stored, TokenTypeOK
<1> QED
  BY <1>1, <1>4, <1>5

\* What is stored, and what a query may miss or still show, after a step: one token
\* comes or goes and lags, one lags no more, or nothing changes.
LEMMA StoredSteps ==
  ASSUME TokenTypeOK, [TokenNext]_tokenVars
  PROVE  \/ Stored' = Stored /\ lagging' = lagging
         \/ \E k \in lagging : Stored' = Stored /\ lagging' = lagging \ {k}
         \/ \E k \in Key \ Stored : Stored' = Stored \cup {k} /\ lagging' = lagging \cup {k}
         \/ \E k \in Stored : Stored' = Stored \ {k} /\ lagging' = lagging \cup {k}
<1>1. ASSUME NEW r \in Request, Upserts(r)
      PROVE  LET k == KeyOf(req[r])
             IN  k \in Key /\ Stored' = Stored \cup {k} /\ lagging' = lagging \cup ({k} \ Stored)
  BY <1>1, OneTokenChanges, AbsentAssumption DEF Upserts, Stored, TokenTypeOK
<1>2. ASSUME NEW r \in Request, Removes(r)
      PROVE  LET k == KeyOf(req[r])
             IN  Stored' = Stored \ {k} /\ lagging' = lagging \cup ({k} \cap Stored)
  BY <1>2, OneTokenChanges DEF Removes, Remove, Stored, TokenTypeOK
<1>3. ASSUME UNCHANGED <<table, lagging>> PROVE Stored' = Stored /\ lagging' = lagging
  BY <1>3 DEF Stored
<1>4. CASE \E r \in Request : UpdateItem(r)
  <2>1. PICK r \in Request : UNCHANGED <<table, lagging>> \/ Upserts(r)
    BY <1>4 DEF UpdateItem, Upserts
  <2>2. CASE Upserts(r)
    <3> DEFINE k == KeyOf(req[r])
    <3>1. k \in Key /\ Stored' = Stored \cup {k} /\ lagging' = lagging \cup ({k} \ Stored)
      BY <1>1, <2>2
    <3> HIDE DEF k
    <3>2. CASE k \in Stored
      <4>1. Stored' = Stored /\ lagging' = lagging
        BY <3>1, <3>2
      <4> QED
        BY <4>1
    <3>3. CASE k \notin Stored
      <4>1. k \in Key \ Stored /\ Stored' = Stored \cup {k} /\ lagging' = lagging \cup {k}
        BY <3>1, <3>3
      <4> QED
        BY <4>1
    <3> QED
      BY <3>2, <3>3
  <2> QED
    BY <1>3, <2>1, <2>2
<1>5. CASE \E r \in Request : DeleteItem(r)
  BY <1>2, <1>3, <1>5 DEF DeleteItem, Removes
<1>6. CASE \E k \in lagging : Replicate(k)
  BY <1>6 DEF Replicate, Stored
<1>7. CASE Tick \/ \E r \in Request : RegisterHandler(r) \/ UnregisterHandler(r) \/ Timeout(r)
  BY <1>3, <1>7 DEF Tick, RegisterHandler, UnregisterHandler, Timeout
<1>8. CASE UNCHANGED tokenVars
  BY <1>3, <1>8 DEF tokenVars
<1> QED
  BY <1>4, <1>5, <1>6, <1>7, <1>8 DEF TokenNext

\* A token that stays registered keeps the time of its first registration, for any
\* number of racing, late and resent registrations and removals (save_device_token).
THEOREM FirstTimeKept == TokenSpec => RegistrationTimeKept
<1>1. TokenTypeOK /\ [TokenNext]_tokenVars =>
        [\A k \in Key : table[k] # Absent /\ table'[k] # Absent
           => table'[k].registeredAt = table[k].registeredAt]_table
  <2> SUFFICES ASSUME TokenTypeOK, [TokenNext]_tokenVars, NEW k \in Key,
                      table[k] # Absent, table'[k] # Absent
               PROVE  table'[k].registeredAt = table[k].registeredAt
    OBVIOUS
  <2>1. ASSUME NEW r \in Request, Upserts(r)
        PROVE  table'[k].registeredAt = table[k].registeredAt
    <3>1. CASE k = KeyOf(req[r])
      <4>1. table'[k] = Upserted(table[k], req[r])
        BY <2>1, <3>1, OneTokenChanges DEF TokenTypeOK
      <4> QED
        BY <4>1 DEF Upserted
    <3>2. CASE k # KeyOf(req[r])
      BY <2>1, <3>2, OneTokenChanges DEF TokenTypeOK
    <3> QED
      BY <3>1, <3>2
  <2>2. ASSUME NEW r \in Request, Removes(r)
        PROVE  table'[k].registeredAt = table[k].registeredAt
    BY <2>2, OneTokenChanges DEF TokenTypeOK
  <2> QED
    BY <2>1, <2>2, TokenSteps
<1> QED
  BY <1>1, TokenTypeCorrect, PTL DEF TokenSpec, RegistrationTimeKept
================================================================================
