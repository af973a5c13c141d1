--------------------------- MODULE UserDeletionProofs ---------------------------
(***************************************************************************)
(* Proofs about UserDeletion, for any users, invocations, entries, page    *)
(* and batch sizes: the types; that no owed entry survives an answer       *)
(* unless its store is named, by induction on Tracking; and that no batch  *)
(* is larger than the service accepts.                                     *)
(***************************************************************************)
EXTENDS UserDeletion, FiniteSetTheorems, TLAPS

\* The stores follow each other in the handler's order and each comes once.
LEMMA StoreOrder ==
  ASSUME NEW s \in Store
  PROVE  /\ After[s] \in Store \cup {"done"}
         /\ Handled(After[s]) = Handled(s) \cup {s}
         /\ s \notin Handled(s)
<1>1. CASE s = "S3"
  BY <1>1 DEF After, Handled, Store, Tables
<1>2. CASE s = "upload_records"
  BY <1>2 DEF After, Handled, Store, Tables
<1>3. CASE s = "device_tokens"
  BY <1>3 DEF After, Handled, Store, Tables
<1> QED
  BY <1>1, <1>2, <1>3 DEF Store, Tables

\* A fresh set of the handler's variables is one of theirs, whatever its status.
LEMMA IdleType ==
  ASSUME NEW u \in User,
         NEW a \in {"idle", "running", "200", "401", "500", "502", "504"}
  PROVE  /\ [Idle(u) EXCEPT !.status = a] \in Run
         /\ Idle(u) \in Run
  BY BoundsAssumption DEF Idle, Run, EndOfList, Store

\* Leaving a store keeps the handler's variables in their types.
LEMMA ProceedType ==
  ASSUME NEW r \in Run, r.stage \in Store, NEW f \in SUBSET Store
  PROVE  /\ Proceed(r, f) \in Run
         /\ Proceed(r, f).user = r.user
         /\ Proceed(r, f).status = "running"
         /\ Proceed(r, f).stage = After[r.stage]
         /\ Proceed(r, f).cursor = 0
         /\ Proceed(r, f).page = {}
         /\ Proceed(r, f).batch = {}
         /\ Proceed(r, f).failed = r.failed \cup f
<1>1. After[r.stage] \in Store \cup {"done"}
  BY StoreOrder
<1>2. r.user \in User /\ r.failed \cup f \in SUBSET Store
  BY DEF Run
<1>3. Idle(r.user) \in Run
  BY <1>2, IdleType
<1>4. Proceed(r, f) \in Run
  BY <1>1, <1>2, <1>3, Zenon DEF Proceed, Run
<1> QED
  BY <1>4 DEF Proceed, Idle

\* q is r with another cursor, page and batch: what a step of the loops assigns.
MovedOn(q, r, cursor, page, batch) ==
  /\ q \in Run
  /\ q.user = r.user /\ q.stage = r.stage /\ q.failed = r.failed /\ q.status = r.status
  /\ q.cursor = cursor /\ q.page = page /\ q.batch = batch

\* The assignments of the loops, one lemma for each shape of them.
LEMMA ListingMoves ==
  ASSUME NEW r \in Run, NEW c \in 0 .. EndOfList, NEW x \in SUBSET Item
  PROVE  MovedOn([r EXCEPT !.cursor = c, !.page = x], r, c, x, r.batch)
  BY Zenon DEF Run, MovedOn

\* Entries move from the page to the batch.
LEMMA CollectingMoves ==
  ASSUME NEW r \in Run, NEW x \in SUBSET Item, NEW y \in SUBSET Item
  PROVE  MovedOn([r EXCEPT !.page = x, !.batch = y], r, r.cursor, x, y)
  BY Zenon DEF Run, MovedOn

\* Entries leave the batch, which delete_objects has answered for.
LEMMA FlushingMoves ==
  ASSUME NEW r \in Run, NEW y \in SUBSET Item
  PROVE  MovedOn([r EXCEPT !.batch = y], r, r.cursor, r.page, y)
  BY Zenon DEF Run, MovedOn

\* The batch becomes what is unprocessed, and the retries are counted.
LEMMA WritingMoves ==
  ASSUME NEW r \in Run, NEW y \in SUBSET Item, NEW n \in 0 .. MaxBatchWriteRetries
  PROVE  MovedOn([r EXCEPT !.batch = y, !.attempt = n], r, r.cursor, r.page, y)
  BY Zenon DEF Run, MovedOn

\* A chunk is cut off the page, with its retries to come.
LEMMA ChunkingMoves ==
  ASSUME NEW r \in Run, NEW x \in SUBSET Item, NEW y \in SUBSET Item,
         NEW n \in 0 .. MaxBatchWriteRetries
  PROVE  MovedOn([r EXCEPT !.page = x, !.batch = y, !.attempt = n], r, r.cursor, x, y)
  BY Zenon DEF Run, MovedOn

\* A page holds every entry of the caller between the old cursor and the new one
\* that the query is bound to show.
LEMMA ListFinds ==
  ASSUME TypeOK, NEW p \in Invocation, List(p)
  PROVE  \E last \in run[p].cursor + 1 .. EndOfList, found \in SUBSET Item :
           /\ Become(p, [run[p] EXCEPT !.cursor = last, !.page = found])
           /\ \A i \in found : i.owner = run[p].user
           /\ \A i \in data[run[p].stage] :
                /\ i.owner = run[p].user /\ run[p].cursor < i.key /\ i.key <= last
                /\ <<run[p].stage, i>> \notin fresh
                => i \in found
<1> DEFINE From(to) == Listed(run[p].stage, run[p].user, run[p].cursor, to)
<1>1. run[p].stage \in Store /\ run[p].cursor \in 0 .. EndOfList
  BY DEF List, Active, TypeOK, Run
<1>2. PICK missed \in SUBSET {i \in From(LastKey) : <<run[p].stage, i>> \in fresh} :
        \E last \in {i.key : i \in From(LastKey) \ missed} \cup {EndOfList} :
          Become(p, [run[p] EXCEPT !.cursor = last, !.page = From(last) \ missed])
  BY DEF List, ListAfter
<1>3. PICK last \in {i.key : i \in From(LastKey) \ missed} \cup {EndOfList} :
        Become(p, [run[p] EXCEPT !.cursor = last, !.page = From(last) \ missed])
  BY <1>2
<1>4. \A to : From(to) \in SUBSET Item
  BY <1>1 DEF Listed, TypeOK
<1>5. last \in run[p].cursor + 1 .. EndOfList
  <2>1. EndOfList \in run[p].cursor + 1 .. EndOfList
    BY <1>1, BoundsAssumption DEF List, WantsPage, EndOfList
  <2>2. \A i \in From(LastKey) : i.key \in run[p].cursor + 1 .. EndOfList
    BY <1>1, <1>4, BoundsAssumption DEF Listed, EndOfList, Item
  <2> QED
    BY <1>3, <2>1, <2>2
<1>6. \A i \in From(last) \ missed : i.owner = run[p].user
  BY DEF Listed
<1>7. \A i \in data[run[p].stage] :
        /\ i.owner = run[p].user /\ run[p].cursor < i.key /\ i.key <= last
        /\ <<run[p].stage, i>> \notin fresh
        => i \in From(last) \ missed
  BY DEF Listed
<1>8. From(last) \ missed \in SUBSET Item
  BY <1>4
<1> QED
  BY <1>3, <1>5, <1>6, <1>7, <1>8

-----------------------------------------------------------------------------
(* Type correctness.                                                       *)

\* The handler's variables are well typed before any request.
LEMMA TypeInit == Init => TypeOK
  BY IdleType DEF Init, TypeOK

\* Every step keeps the types: no store order, page, batch or retry count of the
\* handlers leaves its range, MAX_BATCH_WRITE_RETRIES included.
LEMMA TypeStep == TypeOK /\ [Next]_vars => TypeOK'
<1> SUFFICES ASSUME TypeOK, [Next]_vars PROVE TypeOK'
  OBVIOUS
<1> USE DEF TypeOK
<1>1. ASSUME NEW p \in Invocation, NEW r \in Run, Become(p, r)
      PROVE  run' \in [Invocation -> Run]
  BY <1>1 DEF Become
<1>2. ASSUME NEW p \in Invocation, Start(p) PROVE TypeOK'
  <2>1. PICK u \in User : /\ Become(p, [Idle(u) EXCEPT !.status = "running"])
                          /\ owed' = [owed EXCEPT ![p] = OwnedBy(u) \ fresh]
    BY <1>2 DEF Start
  <2>2. OwnedBy(u) \ fresh \in SUBSET (Store \X Item)
    BY DEF OwnedBy
  <2> QED
    BY <1>1, <1>2, <2>1, <2>2, IdleType DEF Start
<1>3. ASSUME NEW p \in Invocation, Refuse(p) PROVE TypeOK'
  <2>1. PICK a \in {"401", "502"} : Become(p, [Idle(run[p].user) EXCEPT !.status = a])
    BY <1>3 DEF Refuse
  <2>2. run[p].user \in User
    BY DEF Run
  <2> QED
    BY <1>1, <1>3, <2>1, <2>2, IdleType DEF Refuse
<1>4. ASSUME NEW p \in Invocation, Timeout(p) PROVE TypeOK'
  <2>1. run[p].user \in User
    BY DEF Run
  <2> QED
    BY <1>1, <1>4, <2>1, IdleType DEF Timeout
<1>5. ASSUME NEW p \in Invocation, List(p) PROVE TypeOK'
  <2>1. PICK found \in SUBSET Item, last \in 0 .. EndOfList :
          Become(p, [run[p] EXCEPT !.cursor = last, !.page = found])
    <3>1. run[p].cursor \in 0 .. EndOfList
      BY DEF Run
    <3>2. run[p].cursor + 1 .. EndOfList \subseteq 0 .. EndOfList
      BY <3>1, BoundsAssumption DEF EndOfList
    <3> QED
      BY <1>5, <3>2, ListFinds
  <2>2. [run[p] EXCEPT !.cursor = last, !.page = found] \in Run
    <3>1. run[p] \in Run /\ last \in 0 .. EndOfList
      BY <2>1
    <3> QED
      BY <3>1, ListingMoves, Zenon DEF MovedOn
  <2> QED
    BY <1>1, <1>5, <2>1, <2>2 DEF List
<1>6. ASSUME NEW p \in Invocation, ListError(p) PROVE TypeOK'
  BY <1>1, <1>6, ProceedType DEF ListError, Fail, Active
<1>7. ASSUME NEW p \in Invocation, FinishStore(p) PROVE TypeOK'
  BY <1>1, <1>7, ProceedType DEF FinishStore, Active
<1>8. ASSUME NEW p \in Invocation, Respond(p) PROVE TypeOK'
  <2>1. [run[p] EXCEPT !.status = IF run[p].failed = {} THEN "200" ELSE "500"] \in Run
    BY DEF Run
  <2> QED
    BY <1>1, <1>8, <2>1 DEF Respond
<1>9. ASSUME NEW p \in Invocation, Collect(p) PROVE TypeOK'
  <2>1. PICK e \in run[p].page :
          Become(p, [run[p] EXCEPT !.page = @ \ {e}, !.batch = @ \cup {e}])
    BY <1>9 DEF Collect
  <2>2. [run[p] EXCEPT !.page = @ \ {e}, !.batch = @ \cup {e}] \in Run
    <3>1. run[p].page \ {e} \in SUBSET Item /\ run[p].batch \cup {e} \in SUBSET Item
      BY DEF Run
    <3>2. run[p] \in Run
      OBVIOUS
    <3> QED
      BY <3>1, <3>2, CollectingMoves, Zenon DEF MovedOn
  <2> QED
    BY <1>1, <1>9, <2>1, <2>2 DEF Collect
<1>10. ASSUME NEW p \in Invocation, Flush(p) PROVE TypeOK'
  <2>1. data' \in [Store -> SUBSET Item]
    BY <1>10 DEF Flush, Store
  <2>2. \/ Become(p, [run[p] EXCEPT !.batch = {}])
        \/ Become(p, Proceed(run[p], {run[p].stage}))
    BY <1>10 DEF Flush, Fail
  <2>3. [run[p] EXCEPT !.batch = {}] \in Run
    BY DEF Run
  <2>4. run[p].stage \in Store
    BY <1>10 DEF Flush, Active, Store
  <2> QED
    BY <1>1, <1>10, <2>1, <2>2, <2>3, <2>4, ProceedType DEF Flush
<1>11. ASSUME NEW p \in Invocation, Chunk(p) PROVE TypeOK'
  <2>1. PICK c \in SUBSET run[p].page :
          Become(p, [run[p] EXCEPT !.page = @ \ c, !.batch = c, !.attempt = 0])
    BY <1>11 DEF Chunk
  <2>2. [run[p] EXCEPT !.page = @ \ c, !.batch = c, !.attempt = 0] \in Run
    <3>1. /\ run[p].page \ c \in SUBSET Item /\ c \in SUBSET Item
          /\ 0 \in 0 .. MaxBatchWriteRetries
      BY BoundsAssumption DEF Run
    <3>2. run[p] \in Run
      OBVIOUS
    <3> QED
      BY <3>1, <3>2, ChunkingMoves, Zenon DEF MovedOn
  <2> QED
    BY <1>1, <1>11, <2>1, <2>2 DEF Chunk
<1>12. ASSUME NEW p \in Invocation, BatchWrite(p) PROVE TypeOK'
  <2>1. run[p].stage \in Store
    BY <1>12 DEF BatchWrite, Active, Store
  <2>2. data' \in [Store -> SUBSET Item]
    BY <1>12, <2>1 DEF BatchWrite
  <2>3. PICK rest \in SUBSET run[p].batch :
          \/ Become(p, [run[p] EXCEPT !.batch = {}, !.attempt = 0])
          \/ /\ run[p].attempt < MaxBatchWriteRetries
             /\ Become(p, [run[p] EXCEPT !.batch = rest, !.attempt = @ + 1])
          \/ Become(p, Proceed(run[p], {run[p].stage}))
    BY <1>12 DEF BatchWrite, Fail
  <2>4. [run[p] EXCEPT !.batch = {}, !.attempt = 0] \in Run
    <3>1. {} \in SUBSET Item /\ 0 \in 0 .. MaxBatchWriteRetries
      BY BoundsAssumption
    <3>2. run[p] \in Run
      OBVIOUS
    <3> QED
      BY <3>1, <3>2, WritingMoves, Zenon DEF MovedOn
  <2>5. run[p].attempt < MaxBatchWriteRetries
          => [run[p] EXCEPT !.batch = rest, !.attempt = @ + 1] \in Run
    <3>1. rest \in SUBSET Item
      BY DEF Run
    <3>2. run[p].attempt < MaxBatchWriteRetries
            => run[p].attempt + 1 \in 0 .. MaxBatchWriteRetries
      BY BoundsAssumption DEF Run
    <3>3. run[p] \in Run
      OBVIOUS
    <3> QED
      BY <3>1, <3>2, <3>3, WritingMoves, Zenon DEF MovedOn
  <2> QED
    BY <1>1, <1>12, <2>1, <2>2, <2>3, <2>4, <2>5, ProceedType DEF BatchWrite
<1>13. ASSUME NEW s \in Store, NEW i \in Item, Put(s, i) PROVE TypeOK'
  BY <1>13 DEF Put
<1>14. ASSUME NEW e \in fresh, Propagate(e) PROVE TypeOK'
  BY <1>14 DEF Propagate
<1>15. ASSUME NEW s \in Store, NEW i \in Item, Withdraw(s, i) PROVE TypeOK'
  BY <1>15 DEF Withdraw
<1>16. CASE UNCHANGED vars
  BY <1>16 DEF vars
<1> QED
  BY <1>2, <1>3, <1>4, <1>5, <1>6, <1>7, <1>8, <1>9, <1>10, <1>11, <1>12, <1>13,
     <1>14, <1>15, <1>16 DEF Next, Step, Store, Tables

\* Every variable keeps its type, whatever the constants are.
THEOREM TypeCorrect == Spec => []TypeOK
  BY TypeInit, TypeStep, PTL DEF Spec

-----------------------------------------------------------------------------
\* What one invocation does cannot put another one's owed entries out of its reach.
LEMMA OthersKeepTrack ==
  ASSUME TypeOK, NEW q \in Invocation, Tracked(q),
         run'[q] = run[q], owed'[q] \subseteq owed[q],
         \A e \in owed'[q] :
           e \notin fresh' /\ (e[2] \in data'[e[1]] => e[2] \in data[e[1]])
  PROVE  Tracked(q)'
<1>1. ASSUME NEW e \in owed'[q]
      PROVE  /\ e \notin fresh' /\ e[2].owner = run'[q].user
             /\ e[2] \in data'[e[1]]
                  => e[1] \in run'[q].failed \/ Ahead(run'[q], e)
  <2>1. e \in owed[q] /\ e \notin fresh' /\ (e[2] \in data'[e[1]] => e[2] \in data[e[1]])
    BY <1>1
  <2>2. /\ e[2].owner = run[q].user
        /\ e[2] \in data[e[1]] => e[1] \in run[q].failed \/ Ahead(run[q], e)
    BY <2>1 DEF Tracked
  <2> QED
    BY <2>1, <2>2
<1> QED
  BY <1>1 DEF Tracked, Ahead

\* A step of the handler keeps Tracking when it does so for its own owed entries.
LEMMA HandlerKeepsTrack ==
  ASSUME TypeOK, Tracking, NEW p \in Invocation, NEW r \in Run, Become(p, r),
         UNCHANGED <<fresh, owed>>, \A s \in Store : data'[s] \subseteq data[s],
         r.user = run[p].user, WellFormed(r),
         \A e \in owed[p] :
           e[2] \in data'[e[1]] /\ (e[1] \in run[p].failed \/ Ahead(run[p], e))
             => e[1] \in r.failed \/ Ahead(r, e)
  PROVE  Tracking'
<1>1. run'[p] = r /\ \A q \in Invocation \ {p} : run'[q] = run[q]
  BY DEF Become, TypeOK
<1>2. \A q \in Invocation : \A e \in owed[q] : e[1] \in Store
  BY DEF TypeOK
<1>3. ASSUME NEW q \in Invocation, q # p PROVE Tracked(q)' /\ WellFormed(run[q])'
  <2>1. Tracked(q) /\ WellFormed(run[q]) /\ run'[q] = run[q]
    BY <1>1, <1>3 DEF Tracking
  <2>2. Tracked(q)'
    BY <1>2, <2>1, OthersKeepTrack DEF Tracked
  <2> QED
    BY <2>1, <2>2
<1>4. Tracked(p)'
  BY <1>1, <1>2 DEF Tracking, Tracked, Ahead
<1>5. WellFormed(run[p])'
  BY <1>1
<1> QED
  BY <1>3, <1>4, <1>5 DEF Tracking

\* Leaving a store is safe when it is named as failed, or when every entry the
\* caller owed in it is gone.
LEMMA ProceedKeepsTrack ==
  ASSUME TypeOK, Tracking, NEW p \in Invocation, Active(p, Store),
         NEW f \in SUBSET Store, Become(p, Proceed(run[p], f)),
         UNCHANGED <<fresh, owed>>, \A s \in Store : data'[s] \subseteq data[s],
         \A e \in owed[p] : e[2] \in data'[e[1]] /\ e[1] = run[p].stage
                               => e[1] \in run[p].failed \cup f \/ ~Ahead(run[p], e)
  PROVE  Tracking'
<1> DEFINE r == Proceed(run[p], f)
<1>1. run[p] \in Run /\ run[p].stage \in Store
  BY DEF TypeOK, Active
<1>2. /\ r \in Run /\ r.user = run[p].user /\ r.status = "running"
      /\ r.stage = After[run[p].stage] /\ r.cursor = 0 /\ r.page = {} /\ r.batch = {}
      /\ r.failed = run[p].failed \cup f
  BY <1>1, ProceedType
<1>3. WellFormed(r)
  BY <1>2 DEF WellFormed
<1>4. Handled(r.stage) = Handled(run[p].stage) \cup {run[p].stage}
  BY <1>1, <1>2, StoreOrder
<1>5. \A e \in owed[p] : 0 < e[2].key
  BY DEF TypeOK, Item
<1>6. ASSUME NEW e \in owed[p], e[2] \in data'[e[1]],
             e[1] \in run[p].failed \/ Ahead(run[p], e)
      PROVE  e[1] \in r.failed \/ Ahead(r, e)
  BY <1>2, <1>4, <1>5, <1>6 DEF Ahead
<1> HIDE DEF r
<1> QED
  BY <1>2, <1>3, <1>6, HandlerKeepsTrack DEF r

-----------------------------------------------------------------------------
(* Tracking is inductive.                                                  *)

\* Before any request nothing is owed.
LEMMA TrackingInit == Init => Tracking
  BY DEF Init, Tracking, Tracked, WellFormed, Idle

\* A new, refused or stopped invocation owes what it finds, or nothing.
LEMMA FreshStart ==
  ASSUME TypeOK, Tracking, NEW p \in Invocation, NEW u \in User,
         NEW a \in {"running", "401", "502", "504"},
         Become(p, [Idle(u) EXCEPT !.status = a]),
         NEW new \in {{}, OwnedBy(u) \ fresh}, owed' = [owed EXCEPT ![p] = new],
         UNCHANGED <<data, fresh>>
  PROVE  Tracking'
<1> DEFINE r == [Idle(u) EXCEPT !.status = a]
<1>1. /\ run'[p] = r /\ owed'[p] = new
      /\ \A q \in Invocation \ {p} : run'[q] = run[q] /\ owed'[q] = owed[q]
  BY DEF Become, TypeOK
<1>2. /\ r.user = u /\ r.status = a /\ r.stage = "S3" /\ r.cursor = 0
      /\ r.page = {} /\ r.batch = {}
  BY DEF Idle
<1>3. WellFormed(r)
  BY <1>2 DEF WellFormed
<1>4. ASSUME NEW q \in Invocation, q # p PROVE Tracked(q)' /\ WellFormed(run[q])'
  <2>1. Tracked(q) /\ WellFormed(run[q]) /\ run'[q] = run[q] /\ owed'[q] = owed[q]
    BY <1>1, <1>4 DEF Tracking
  <2>2. Tracked(q)'
    BY <2>1, OthersKeepTrack DEF Tracked
  <2> QED
    BY <2>1, <2>2
<1>5. ASSUME NEW e \in new
      PROVE  e \notin fresh /\ e[2].owner = u /\ Ahead(r, e)
  <2>1. e \in OwnedBy(u) /\ e \notin fresh
    OBVIOUS
  <2>2. e \in Store \X Item /\ e[2].owner = u
    BY <2>1 DEF OwnedBy
  <2>3. 0 < e[2].key
    BY <2>2 DEF Item
  <2>4. Handled("S3") = {}
    BY DEF Handled
  <2> HIDE DEF r
  <2> QED
    BY <1>2, <2>1, <2>2, <2>3, <2>4 DEF Ahead
<1> HIDE DEF r
<1>6. Tracked(p)'
  BY <1>1, <1>2, <1>5 DEF Tracked
<1> QED
  BY <1>1, <1>3, <1>4, <1>6 DEF Tracking

\* Every step keeps an owed entry ahead of the handler, in a store that has failed,
\* or gone: by the lemmas above for the steps of the invocation that owes it and of
\* the others, and because a write ends the debt.
LEMMA TrackingStep == TypeOK /\ Tracking /\ [Next]_vars => Tracking'
<1> SUFFICES ASSUME TypeOK, Tracking, [Next]_vars PROVE Tracking'
  OBVIOUS
<1>1. \A p \in Invocation : run[p] \in Run /\ run[p].user \in User
  BY DEF TypeOK, Run
<1>2. \A p \in Invocation : \A e \in owed[p] : e \in Store \X Item
  BY DEF TypeOK
<1>3. \A p \in Invocation : WellFormed(run[p]) /\ Tracked(p)
  BY DEF Tracking
<1>4. ASSUME NEW p \in Invocation, Start(p) PROVE Tracking'
  BY <1>4, FreshStart DEF Start
<1>5. ASSUME NEW p \in Invocation, Refuse(p) PROVE Tracking'
  BY <1>1, <1>5, FreshStart DEF Refuse
<1>6. ASSUME NEW p \in Invocation, Timeout(p) PROVE Tracking'
  BY <1>1, <1>6, FreshStart DEF Timeout
<1>7. ASSUME NEW p \in Invocation, ListError(p) PROVE Tracking'
  <2>1. {run[p].stage} \in SUBSET Store /\ Become(p, Proceed(run[p], {run[p].stage}))
    BY <1>7 DEF ListError, Fail, Active
  <2> QED
    BY <1>7, <2>1, ProceedKeepsTrack DEF ListError
<1>8. ASSUME NEW p \in Invocation, FinishStore(p) PROVE Tracking'
  <2>1. /\ Active(p, Store) /\ run[p].cursor = EndOfList
        /\ run[p].page = {} /\ run[p].batch = {}
        /\ Become(p, Proceed(run[p], {})) /\ UNCHANGED <<data, fresh, owed>>
    BY <1>8 DEF FinishStore
  <2>2. \A e \in owed[p] : ~(EndOfList < e[2].key)
    BY <1>2, BoundsAssumption DEF Item, EndOfList
  <2>3. \A e \in owed[p] : e[1] = run[p].stage => ~Ahead(run[p], e)
    BY <2>1, <2>2 DEF Ahead
  <2> QED
    BY <2>1, <2>3, ProceedKeepsTrack
<1>9. ASSUME NEW p \in Invocation, Respond(p) PROVE Tracking'
  <2> DEFINE r == [run[p] EXCEPT !.status = IF run[p].failed = {} THEN "200" ELSE "500"]
  <2>1. /\ r \in Run /\ r.user = run[p].user /\ r.stage = "done"
        /\ r.cursor = run[p].cursor /\ r.page = run[p].page /\ r.batch = run[p].batch
        /\ r.failed = run[p].failed /\ (r.status = "200" => run[p].failed = {})
    BY <1>1, <1>9 DEF Respond, Active, Run
  <2>2. run[p].stage = "done"
    BY <1>9 DEF Respond, Active
  <2> HIDE DEF r
  <2>3. WellFormed(r)
    BY <1>3, <2>1 DEF WellFormed
  <2>4. \A e : Ahead(run[p], e) => Ahead(r, e)
    BY <2>1, <2>2 DEF Ahead
  <2>5. Become(p, r) /\ UNCHANGED <<data, fresh, owed>>
    BY <1>9 DEF Respond, r
  <2> QED
    BY <2>1, <2>3, <2>4, <2>5, HandlerKeepsTrack
<1>10. ASSUME NEW p \in Invocation, List(p) PROVE Tracking'
  <2>1. PICK last \in run[p].cursor + 1 .. EndOfList, found \in SUBSET Item :
          /\ Become(p, [run[p] EXCEPT !.cursor = last, !.page = found])
          /\ \A i \in found : i.owner = run[p].user
          /\ \A i \in data[run[p].stage] :
               /\ i.owner = run[p].user /\ run[p].cursor < i.key /\ i.key <= last
               /\ <<run[p].stage, i>> \notin fresh
               => i \in found
    BY <1>10, ListFinds
  <2> DEFINE r == [run[p] EXCEPT !.cursor = last, !.page = found]
  <2>2. run[p].cursor \in Nat /\ last \in 0 .. EndOfList
    BY <1>1, BoundsAssumption DEF Run, EndOfList
  <2>3. MovedOn(r, run[p], last, found, run[p].batch)
    BY <1>1, <2>2, ListingMoves, Zenon
  <2> HIDE DEF r
  <2>4. WellFormed(r)
    BY <1>3, <2>1, <2>3 DEF WellFormed, MovedOn
  <2>5. run[p].page = {} /\ UNCHANGED <<data, fresh, owed>>
    BY <1>10 DEF List, WantsPage
  <2>6. ASSUME NEW e \in owed[p], e[2] \in data[e[1]], Ahead(run[p], e)
        PROVE  Ahead(r, e)
    <3>1. e[2].key \in Nat /\ last \in Nat
      BY <1>2, <2>2, BoundsAssumption DEF Item, EndOfList
    <3>2. e \notin fresh /\ e[2].owner = run[p].user /\ e = <<e[1], e[2]>>
      BY <1>2, <1>3 DEF Tracked
    <3> QED
      BY <2>1, <2>3, <2>5, <2>6, <3>1, <3>2 DEF Ahead, MovedOn
  <2>7. Become(p, r)
    BY <2>1 DEF r
  <2> QED
    BY <2>3, <2>4, <2>5, <2>6, <2>7, HandlerKeepsTrack DEF MovedOn
<1>11. ASSUME NEW p \in Invocation, Collect(p) PROVE Tracking'
  <2>1. PICK i \in run[p].page :
          Become(p, [run[p] EXCEPT !.page = @ \ {i}, !.batch = @ \cup {i}])
    BY <1>11 DEF Collect
  <2> DEFINE r == [run[p] EXCEPT !.page = @ \ {i}, !.batch = @ \cup {i}]
  <2>2. run[p].page \ {i} \in SUBSET Item /\ run[p].batch \cup {i} \in SUBSET Item
    BY <1>1 DEF Run
  <2>3. MovedOn(r, run[p], run[p].cursor, run[p].page \ {i}, run[p].batch \cup {i})
    BY <1>1, <2>2, CollectingMoves, Zenon
  <2>4. Become(p, r) /\ UNCHANGED <<data, fresh, owed>>
    BY <1>11, <2>1 DEF Collect
  <2> HIDE DEF r
  <2>5. WellFormed(r)
    BY <1>3, <2>3 DEF WellFormed, MovedOn
  <2>6. \A e : Ahead(run[p], e) => Ahead(r, e)
    BY <2>3 DEF Ahead, MovedOn
  <2> QED
    BY <2>3, <2>4, <2>5, <2>6, HandlerKeepsTrack DEF MovedOn
<1>12. ASSUME NEW p \in Invocation, Chunk(p) PROVE Tracking'
  <2>1. PICK c \in SUBSET run[p].page :
          Become(p, [run[p] EXCEPT !.page = @ \ c, !.batch = c, !.attempt = 0])
    BY <1>12 DEF Chunk
  <2> DEFINE r == [run[p] EXCEPT !.page = @ \ c, !.batch = c, !.attempt = 0]
  <2>2. /\ run[p].page \ c \in SUBSET Item /\ c \in SUBSET Item
        /\ 0 \in 0 .. MaxBatchWriteRetries
    BY <1>1, BoundsAssumption DEF Run
  <2>3. MovedOn(r, run[p], run[p].cursor, run[p].page \ c, c)
    BY <1>1, <2>2, ChunkingMoves, Zenon
  <2>4. Become(p, r) /\ UNCHANGED <<data, fresh, owed>> /\ run[p].batch = {}
    BY <1>12, <2>1 DEF Chunk
  <2> HIDE DEF r
  <2>5. WellFormed(r)
    BY <1>3, <2>3 DEF WellFormed, MovedOn
  <2>6. \A e : Ahead(run[p], e) => Ahead(r, e)
    BY <2>3, <2>4 DEF Ahead, MovedOn
  <2> QED
    BY <2>3, <2>4, <2>5, <2>6, HandlerKeepsTrack DEF MovedOn
<1>13. ASSUME NEW p \in Invocation, Flush(p) PROVE Tracking'
  <2>1. PICK gone \in SUBSET run[p].batch :
          /\ data' = [data EXCEPT !["S3"] = @ \ gone]
          /\ \/ gone = run[p].batch /\ Become(p, [run[p] EXCEPT !.batch = {}])
             \/ Fail(p)
    BY <1>13 DEF Flush
  <2>2. /\ run[p].stage = "S3" /\ run[p].stage \in Store /\ Active(p, Store)
        /\ UNCHANGED <<fresh, owed>>
    BY <1>13 DEF Flush, Active, Store
  <2>3. /\ \A s \in Store : data'[s] \subseteq data[s]
        /\ data'[run[p].stage] = data[run[p].stage] \ gone
    BY <2>1, <2>2 DEF TypeOK
  <2>4. CASE Fail(p)
    BY <2>2, <2>3, <2>4, ProceedKeepsTrack DEF Fail
  <2>5. CASE gone = run[p].batch /\ Become(p, [run[p] EXCEPT !.batch = {}])
    <3> DEFINE r == [run[p] EXCEPT !.batch = {}]
    <3>1. MovedOn(r, run[p], run[p].cursor, run[p].page, {})
      BY <1>1, FlushingMoves, Zenon
    <3>2. Become(p, r)
      BY <2>5
    <3> HIDE DEF r
    <3>3. WellFormed(r)
      BY <1>3, <3>1 DEF WellFormed, MovedOn
    <3>4. ASSUME NEW e \in owed[p], e[2] \in data'[e[1]], Ahead(run[p], e)
          PROVE  Ahead(r, e)
      BY <2>3, <2>5, <3>1, <3>4 DEF Ahead, MovedOn
    <3> QED
      BY <2>2, <2>3, <3>1, <3>2, <3>3, <3>4, HandlerKeepsTrack DEF MovedOn
  <2> QED
    BY <2>1, <2>4, <2>5
<1>14. ASSUME NEW p \in Invocation, BatchWrite(p) PROVE Tracking'
  <2>1. PICK gone \in SUBSET run[p].batch :
          /\ data' = [data EXCEPT ![run[p].stage] = @ \ gone]
          /\ \/ /\ run[p].batch \ gone = {}
                /\ Become(p, [run[p] EXCEPT !.batch = {}, !.attempt = 0])
             \/ /\ run[p].attempt < MaxBatchWriteRetries
                /\ Become(p, [run[p] EXCEPT !.batch = run[p].batch \ gone,
                                           !.attempt = @ + 1])
             \/ Fail(p)
    BY <1>14 DEF BatchWrite
  <2>2. run[p].stage \in Store /\ Active(p, Store) /\ UNCHANGED <<fresh, owed>>
    BY <1>14 DEF BatchWrite, Active, Store
  <2>3. /\ \A s \in Store : data'[s] \subseteq data[s]
        /\ data'[run[p].stage] = data[run[p].stage] \ gone
    BY <2>1, <2>2 DEF TypeOK
  <2>4. CASE Fail(p)
    BY <2>2, <2>3, <2>4, ProceedKeepsTrack DEF Fail
  <2>5. ASSUME NEW n \in 0 .. MaxBatchWriteRetries,
               Become(p, [run[p] EXCEPT !.batch = run[p].batch \ gone, !.attempt = n])
        PROVE  Tracking'
    <3> DEFINE r == [run[p] EXCEPT !.batch = run[p].batch \ gone, !.attempt = n]
    <3>1. run[p].batch \ gone \in SUBSET Item
      BY <1>1 DEF Run
    <3>2. MovedOn(r, run[p], run[p].cursor, run[p].page, run[p].batch \ gone)
      BY <1>1, <3>1, WritingMoves, Zenon
    <3>3. Become(p, r)
      BY <2>5
    <3> HIDE DEF r
    <3>4. WellFormed(r)
      BY <1>3, <3>2 DEF WellFormed, MovedOn
    <3>5. ASSUME NEW e \in owed[p], e[2] \in data'[e[1]], Ahead(run[p], e)
          PROVE  Ahead(r, e)
      BY <2>3, <3>2, <3>5 DEF Ahead, MovedOn
    <3> QED
      BY <2>2, <2>3, <3>2, <3>3, <3>4, <3>5, HandlerKeepsTrack DEF MovedOn
  <2>6. 0 \in 0 .. MaxBatchWriteRetries
    BY BoundsAssumption
  <2>7. run[p].attempt < MaxBatchWriteRetries => run[p].attempt + 1 \in 0 .. MaxBatchWriteRetries
    BY <1>1, BoundsAssumption DEF Run
  <2> QED
    BY <2>1, <2>4, <2>5, <2>6, <2>7
<1>15. ASSUME NEW s \in Store, NEW i \in Item, Put(s, i) PROVE Tracking'
  <2>1. /\ data' = [data EXCEPT ![s] = @ \cup {i}] /\ run' = run
        /\ fresh' \subseteq fresh \cup {<<s, i>>}
        /\ \A q \in Invocation : owed'[q] = owed[q] \ {<<s, i>>}
    BY <1>15 DEF Put
  <2>2. ASSUME NEW q \in Invocation PROVE Tracked(q)'
    <3>1. ASSUME NEW e \in owed'[q]
          PROVE  e \notin fresh' /\ (e[2] \in data'[e[1]] => e[2] \in data[e[1]])
      <4>1. e \in owed[q] /\ e # <<s, i>>
        BY <2>1
      <4>2. e \in Store \X Item /\ e = <<e[1], e[2]>> /\ e \notin fresh
        BY <1>2, <1>3, <4>1 DEF Tracked
      <4> QED
        BY <2>1, <4>1, <4>2 DEF TypeOK
    <3> QED
      BY <1>3, <2>1, <3>1, OthersKeepTrack
  <2> QED
    BY <1>3, <2>1, <2>2 DEF Tracking
<1>16. ASSUME NEW e \in fresh, Propagate(e) PROVE Tracking'
  <2>1. ASSUME NEW q \in Invocation PROVE Tracked(q)'
    BY <1>3, <1>16, OthersKeepTrack DEF Propagate, Tracked
  <2> QED
    BY <1>3, <1>16, <2>1 DEF Propagate, Tracking
<1>17. ASSUME NEW s \in Store, NEW i \in Item, Withdraw(s, i) PROVE Tracking'
  <2>1. ASSUME NEW q \in Invocation PROVE Tracked(q)'
    <3>1. \A e \in owed[q] : e[2] \in data'[e[1]] => e[2] \in data[e[1]]
      BY <1>2, <1>17 DEF Withdraw, TypeOK
    <3> QED
      BY <1>3, <1>17, <3>1, OthersKeepTrack DEF Withdraw, Tracked
  <2> QED
    BY <1>3, <1>17, <2>1 DEF Withdraw, Tracking
<1>18. CASE UNCHANGED vars
  BY <1>18 DEF vars, Tracking, Tracked, Ahead
<1> QED
  BY <1>4, <1>5, <1>6, <1>7, <1>8, <1>9, <1>10, <1>11, <1>12, <1>13, <1>14, <1>15,
     <1>16, <1>17, <1>18 DEF Next, Step, Store, Tables

\* An entry that an invocation owes is never out of its reach while it is stored:
\* delete_user's stores, pages and batches leave none behind.
THEOREM TrackingInvariant == Spec => [](TypeOK /\ Tracking)
  BY TypeInit, TypeStep, TrackingInit, TrackingStep, PTL DEF Spec

\* DELETE /users: once it has answered, nothing it owes survives in a store that
\* the answer does not name, for any number of concurrent deletions and writers.
THEOREM ErasureComplete == Spec => []NothingOwedSurvives
<1>1. TypeOK /\ Tracking => NothingOwedSurvives
  <2> SUFFICES ASSUME TypeOK, Tracking, NEW p \in Invocation, Answered(p)
               PROVE  /\ \A e \in owed[p] : e[2] \in data[e[1]] => e[1] \in run[p].failed
                      /\ run[p].status = "200" => run[p].failed = {}
    BY DEF NothingOwedSurvives
  <2>1. run[p].stage = "done" /\ (run[p].status = "200" => run[p].failed = {})
    BY DEF Tracking, WellFormed, Answered
  <2>2. Handled("done") = Store
    BY DEF Handled
  <2>3. \A e \in owed[p] : e[1] \in Store
    BY DEF TypeOK
  <2> QED
    BY <2>1, <2>2, <2>3 DEF Tracking, Tracked, Ahead
<1> QED
  BY <1>1, TrackingInvariant, PTL

-----------------------------------------------------------------------------
(* The sizes of the requests to delete.                                    *)

\* A handler's batch is no longer than the service accepts.
Limit(stage) == IF stage = "S3" THEN S3DeleteBatchSize ELSE DynamoBatchWriteSize
Small(r) == Cardinality(r.batch) <= Limit(r.stage)
AllSmall == \A p \in Invocation : Small(run[p])

\* A caller has no more entries than a store has positions, so a batch is finite.
LEMMA OwnFinite ==
  ASSUME NEW u, NEW S \in SUBSET Item, \A i \in S : i.owner = u
  PROVE  IsFiniteSet(S)
<1> DEFINE f == [i \in S |-> i.key]
<1>1. IsFiniteSet(1 .. LastKey)
  BY FS_Interval, BoundsAssumption
<1>2. f \in Injection(S, 1 .. LastKey)
  BY DEF Injection, IsInjective, Item
<1> QED
  BY <1>1, <1>2, FS_Injection

\* An empty batch is within any limit.
LEMMA EmptySmall == ASSUME NEW r, r.batch = {} PROVE Small(r)
  BY FS_EmptySet, BoundsAssumption DEF Small, Limit

\* A step of a handler changes the size of its own batch alone.
LEMMA SmallStep ==
  ASSUME TypeOK, AllSmall, NEW p \in Invocation, NEW r, Become(p, r), Small(r)
  PROVE  AllSmall'
<1>1. \A q \in Invocation : run'[q] = IF q = p THEN r ELSE run[q]
  BY DEF TypeOK, Become
<1> QED
  BY <1>1 DEF AllSmall, Small

\* No step makes a batch longer than the service accepts.
LEMMA AllSmallStep == TypeOK /\ Tracking /\ AllSmall /\ [Next]_vars => AllSmall'
<1> SUFFICES ASSUME TypeOK, Tracking, AllSmall, [Next]_vars PROVE AllSmall'
  OBVIOUS
<1>1. \A p \in Invocation : /\ run[p] \in Run /\ Small(run[p])
                            /\ IsFiniteSet(run[p].batch)
  <2> TAKE p \in Invocation
  <2>1. run[p] \in Run /\ run[p].batch \in SUBSET Item
    BY DEF TypeOK, Run
  <2> QED
    BY <2>1, OwnFinite DEF Tracking, WellFormed, AllSmall
<1>2. ASSUME NEW p \in Invocation, Start(p) \/ Refuse(p) \/ Timeout(p) PROVE AllSmall'
  <2>1. PICK u, a : Become(p, [Idle(u) EXCEPT !.status = a])
    BY <1>2 DEF Start, Refuse, Timeout
  <2>2. Small([Idle(u) EXCEPT !.status = a])
    BY EmptySmall DEF Idle
  <2> QED
    BY <2>1, <2>2, SmallStep
<1>3. ASSUME NEW p \in Invocation, Active(p, Store), NEW f \in SUBSET Store,
             Become(p, Proceed(run[p], f))
      PROVE  AllSmall'
  <2>1. Proceed(run[p], f).batch = {}
    BY <1>1, <1>3, ProceedType DEF Active
  <2> QED
    BY <1>3, <2>1, EmptySmall, SmallStep
<1>4. ASSUME NEW p \in Invocation, Active(p, Store), Fail(p) PROVE AllSmall'
  BY <1>3, <1>4 DEF Fail, Active
<1>5. ASSUME NEW p \in Invocation, ListError(p) \/ FinishStore(p) PROVE AllSmall'
  BY <1>3, <1>4, <1>5 DEF ListError, FinishStore
<1>6. ASSUME NEW p \in Invocation, List(p) PROVE AllSmall'
  <2>1. PICK c, x : Become(p, [run[p] EXCEPT !.cursor = c, !.page = x])
    BY <1>6 DEF List, ListAfter
  <2>2. Small([run[p] EXCEPT !.cursor = c, !.page = x])
    BY <1>1 DEF Small, Run
  <2> QED
    BY <2>1, <2>2, SmallStep
<1>7. ASSUME NEW p \in Invocation, Respond(p) PROVE AllSmall'
  <2>1. PICK a : Become(p, [run[p] EXCEPT !.status = a])
    BY <1>7 DEF Respond
  <2>2. Small([run[p] EXCEPT !.status = a])
    BY <1>1 DEF Small, Run
  <2> QED
    BY <2>1, <2>2, SmallStep
<1>8. ASSUME NEW p \in Invocation, Collect(p) PROVE AllSmall'
  <2>1. PICK i \in run[p].page :
          Become(p, [run[p] EXCEPT !.page = @ \ {i}, !.batch = @ \cup {i}])
    BY <1>8 DEF Collect
  <2> DEFINE r == [run[p] EXCEPT !.page = @ \ {i}, !.batch = @ \cup {i}]
  <2>2. r.batch = run[p].batch \cup {i} /\ r.stage = "S3"
    BY <1>1, <1>8 DEF Collect, Active, Run
  <2>3. Cardinality(run[p].batch \cup {i}) <= S3DeleteBatchSize
    <3>1. /\ Cardinality(run[p].batch) \in Nat /\ S3DeleteBatchSize \in Nat
          /\ Cardinality(run[p].batch) < S3DeleteBatchSize
      BY <1>1, <1>8, FS_CardinalityType, BoundsAssumption DEF Collect
    <3>2. \/ Cardinality(run[p].batch \cup {i}) = Cardinality(run[p].batch)
          \/ Cardinality(run[p].batch \cup {i}) = Cardinality(run[p].batch) + 1
      BY <1>1, FS_AddElement
    <3> QED
      BY <3>1, <3>2
  <2> HIDE DEF r
  <2>4. Small(r)
    BY <2>2, <2>3 DEF Small, Limit
  <2> QED
    BY <2>1, <2>4, SmallStep DEF r
<1>9. ASSUME NEW p \in Invocation, Flush(p) PROVE AllSmall'
  <2>1. CASE Fail(p)
    BY <1>4, <1>9, <2>1 DEF Flush, Active, Store
  <2>2. CASE Become(p, [run[p] EXCEPT !.batch = {}])
    <3>1. Small([run[p] EXCEPT !.batch = {}])
      BY <1>1, EmptySmall DEF Run
    <3> QED
      BY <2>2, <3>1, SmallStep
  <2> QED
    BY <1>9, <2>1, <2>2 DEF Flush
<1>10. ASSUME NEW p \in Invocation, Chunk(p) PROVE AllSmall'
  <2>1. PICK chunk \in SUBSET run[p].page :
          /\ Cardinality(chunk) <= DynamoBatchWriteSize
          /\ Become(p, [run[p] EXCEPT !.page = @ \ chunk, !.batch = chunk, !.attempt = 0])
    BY <1>10 DEF Chunk
  <2> DEFINE r == [run[p] EXCEPT !.page = @ \ chunk, !.batch = chunk, !.attempt = 0]
  <2>2. r.batch = chunk /\ r.stage \in Tables
    BY <1>1, <1>10 DEF Chunk, Active, Run
  <2> HIDE DEF r
  <2>3. Small(r)
    BY <2>1, <2>2 DEF Small, Limit, Tables
  <2> QED
    BY <2>1, <2>3, SmallStep DEF r
<1>11. ASSUME NEW p \in Invocation, BatchWrite(p) PROVE AllSmall'
  <2>1. CASE Fail(p)
    BY <1>4, <1>11, <2>1 DEF BatchWrite, Active, Store
  <2>2. CASE Become(p, [run[p] EXCEPT !.batch = {}, !.attempt = 0])
    <3>1. Small([run[p] EXCEPT !.batch = {}, !.attempt = 0])
      BY <1>1, EmptySmall DEF Run
    <3> QED
      BY <2>2, <3>1, SmallStep
  <2>3. CASE \E gone \in SUBSET run[p].batch :
               Become(p, [run[p] EXCEPT !.batch = run[p].batch \ gone, !.attempt = @ + 1])
    <3>1. PICK gone \in SUBSET run[p].batch :
            Become(p, [run[p] EXCEPT !.batch = run[p].batch \ gone, !.attempt = @ + 1])
      BY <2>3
    <3> DEFINE r == [run[p] EXCEPT !.batch = run[p].batch \ gone, !.attempt = @ + 1]
    <3>2. r.batch = run[p].batch \ gone /\ r.stage = run[p].stage
      BY <1>1 DEF Run
    <3>3. /\ Cardinality(run[p].batch \ gone) <= Cardinality(run[p].batch)
          /\ Cardinality(run[p].batch \ gone) \in Nat /\ Cardinality(run[p].batch) \in Nat
      BY <1>1, FS_Subset, FS_CardinalityType
    <3> HIDE DEF r
    <3>4. Small(r)
      BY <1>1, <3>2, <3>3, BoundsAssumption DEF Small, Limit
    <3> QED
      BY <3>1, <3>4, SmallStep DEF r
  <2> QED
    BY <1>11, <2>1, <2>2, <2>3 DEF BatchWrite
<1>12. ASSUME UNCHANGED run PROVE AllSmall'
  BY <1>12 DEF AllSmall, Small
<1> QED
  BY <1>2, <1>5, <1>6, <1>7, <1>8, <1>9, <1>10, <1>11, <1>12
     DEF Next, Step, Put, Propagate, Withdraw, vars

\* A request to delete names at most 1000 objects or 25 items, whatever the pages, and
\* all of them the caller's (_flush_s3_batch, _batch_delete_items).
THEOREM BatchesBounded == Spec => []BatchesAccepted
<1>1. Init => AllSmall
  <2> SUFFICES ASSUME Init PROVE AllSmall
    OBVIOUS
  <2>1. \A p \in Invocation : run[p].batch = {}
    BY DEF Init, Idle
  <2> QED
    BY <2>1, EmptySmall DEF AllSmall
<1>2. TypeOK /\ Tracking /\ AllSmall => BatchesAccepted
  BY DEF Tracking, WellFormed, AllSmall, Small, Limit, BatchesAccepted
<1> QED
  BY <1>1, <1>2, AllSmallStep, TrackingInvariant, PTL DEF Spec
================================================================================
