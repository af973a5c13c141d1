------------------------- MODULE UserDeletionRefinement -------------------------
(***************************************************************************)
(* Proof that UserDeletion implements ErasureContract, for any users,      *)
(* invocations, entries, page and batch sizes.  What a client sees of an   *)
(* invocation is its caller, status and failed stores; a step of the       *)
(* handler either leaves these and the stores alone or is a step of the    *)
(* contract.                                                               *)
(***************************************************************************)
EXTENDS UserDeletionProofs

Callers  == [p \in Invocation |-> run[p].user]
Statuses == [p \in Invocation |-> run[p].status]
Failures == [p \in Invocation |-> run[p].failed]

\* An assignment to the variables of one invocation changes what is seen of it alone.
LEMMA SeenChange ==
  ASSUME TypeOK, NEW p \in Invocation, NEW r, Become(p, r)
  PROVE  /\ Callers'  = [Callers EXCEPT ![p] = r.user]
         /\ Statuses' = [Statuses EXCEPT ![p] = r.status]
         /\ Failures' = [Failures EXCEPT ![p] = r.failed]
  BY DEF TypeOK, Become, Callers, Statuses, Failures

\* An assignment that keeps the caller, the status and the failures is not seen.
LEMMA Unseen ==
  ASSUME TypeOK, NEW p \in Invocation, NEW r, Become(p, r),
         r.user = run[p].user, r.status = run[p].status, r.failed = run[p].failed
  PROVE  Callers' = Callers /\ Statuses' = Statuses /\ Failures' = Failures
<1>1. Callers' = [Callers EXCEPT ![p] = r.user] /\ Callers[p] = r.user
  BY SeenChange, Zenon DEF Callers
<1>2. Statuses' = [Statuses EXCEPT ![p] = r.status] /\ Statuses[p] = r.status
  BY SeenChange, Zenon DEF Statuses
<1>3. Failures' = [Failures EXCEPT ![p] = r.failed] /\ Failures[p] = r.failed
  BY SeenChange, Zenon DEF Failures
<1> QED
  BY <1>1, <1>2, <1>3 DEF Callers, Statuses, Failures

\* What the deletion owes at its start is what the contract says it owes.
LEMMA SameOwned == ASSUME NEW u PROVE Contract!OwnedBy(u) = OwnedBy(u)
  BY DEF OwnedBy, Contract!OwnedBy

\* Before any request the contract's state is initial too.
LEMMA InitRefines == Init => Contract!Init
  BY DEF Init, Contract!Init, Idle, Callers, Statuses, Failures

\* The handler begins as the contract does, owing the caller's settled entries.
LEMMA StartRefines ==
  ASSUME TypeOK, NEW p \in Invocation, Start(p)
  PROVE  Contract!Begin(p)
<1>1. PICK u \in User : /\ Become(p, [Idle(u) EXCEPT !.status = "running"])
                        /\ owed' = [owed EXCEPT ![p] = OwnedBy(u) \ fresh]
  BY DEF Start
<1>2. /\ Callers' = [Callers EXCEPT ![p] = u]
      /\ Statuses' = [Statuses EXCEPT ![p] = "running"]
      /\ Failures' = [Failures EXCEPT ![p] = {}]
  BY <1>1, SeenChange DEF Idle
<1>3. Statuses[p] # "running"
  BY DEF Start, Statuses
<1> QED
  BY <1>1, <1>2, <1>3, SameOwned DEF Contract!Begin, Start, Callers, Statuses, Failures

\* A refusal, and the end of an invocation by the runtime.
LEMMA AbandonRefines ==
  ASSUME TypeOK, NEW p \in Invocation, NEW a \in {"401", "502", "504"},
         Become(p, [Idle(run[p].user) EXCEPT !.status = a]),
         a = "504" <=> run[p].status = "running",
         owed' = [owed EXCEPT ![p] = {}], UNCHANGED <<data, fresh>>
  PROVE  Contract!Abandon(p)
<1> DEFINE r == [Idle(run[p].user) EXCEPT !.status = a]
<1>1. r.user = run[p].user /\ r.status = a /\ r.failed = {}
  BY DEF Idle
<1> HIDE DEF r
<1>2. Become(p, r)
  BY DEF r
<1>3. /\ Callers' = [Callers EXCEPT ![p] = run[p].user]
      /\ Statuses' = [Statuses EXCEPT ![p] = a]
      /\ Failures' = [Failures EXCEPT ![p] = {}]
  BY <1>1, <1>2, SeenChange
<1>4. Callers' = Callers
  BY <1>3 DEF Callers
<1>5. Statuses[p] = run[p].status
  BY DEF Statuses
<1> QED
  BY <1>3, <1>4, <1>5 DEF Contract!Abandon, Callers, Statuses, Failures

\* A call that deletes entries of the caller from one store, and perhaps fails.
LEMMA EraseRefines ==
  ASSUME TypeOK, NEW p \in Invocation, NEW r, Become(p, r),
         run[p].status = "running", r.status = "running", r.user = run[p].user,
         run[p].failed \subseteq r.failed, r.failed \subseteq Store,
         NEW s \in Store, NEW gone,
         \A i \in gone : i.owner = run[p].user,
         data' = [data EXCEPT ![s] = @ \ gone], UNCHANGED <<fresh, owed>>
  PROVE  Contract!Erase(p)
<1>1. /\ Callers' = [Callers EXCEPT ![p] = run[p].user]
      /\ Statuses' = [Statuses EXCEPT ![p] = "running"]
      /\ Failures' = [Failures EXCEPT ![p] = r.failed]
  BY SeenChange
<1>2. /\ Callers[p] = run[p].user /\ Statuses[p] = "running"
      /\ Failures[p] = run[p].failed
  BY DEF Callers, Statuses, Failures
<1>3. Callers' = Callers /\ Statuses' = Statuses
  BY <1>1, <1>2 DEF Callers, Statuses
<1>4. Failures'[p] = r.failed
  BY <1>1 DEF Failures
<1>5. Failures' = [Failures EXCEPT ![p] = Failures'[p]]
  BY <1>1, <1>4
<1>6. Failures[p] \subseteq Failures'[p] /\ Failures'[p] \subseteq Store
  BY <1>2, <1>4
<1>7. data' = [data EXCEPT ![s] = @ \cap data'[s]]
  BY DEF TypeOK
<1>8. \A t \in Store : \A i \in data[t] \ data'[t] : i.owner = Callers[p]
  BY <1>2 DEF TypeOK
<1> QED
  BY <1>2, <1>3, <1>5, <1>6, <1>7, <1>8 DEF Contract!Erase, Callers, Statuses, Failures

\* A 200 or 500 comes when nothing that is owed is left outside the failed stores.
LEMMA RespondRefines ==
  ASSUME TypeOK, Tracking, NEW p \in Invocation, Respond(p)
  PROVE  Contract!Answer(p)
<1> DEFINE r == [run[p] EXCEPT !.status = IF run[p].failed = {} THEN "200" ELSE "500"]
<1>1. /\ r.user = run[p].user /\ r.failed = run[p].failed
      /\ r.status = IF run[p].failed = {} THEN "200" ELSE "500"
  BY DEF TypeOK, Run
<1>2. Become(p, r)
  BY DEF Respond
<1> HIDE DEF r
<1>3. /\ Callers' = [Callers EXCEPT ![p] = run[p].user]
      /\ Statuses' = [Statuses EXCEPT ![p] = IF run[p].failed = {} THEN "200" ELSE "500"]
      /\ Failures' = [Failures EXCEPT ![p] = run[p].failed]
  BY <1>1, <1>2, SeenChange
<1>4. /\ Callers[p] = run[p].user /\ Statuses[p] = run[p].status
      /\ Failures[p] = run[p].failed
  BY DEF Callers, Statuses, Failures
<1>5. Callers' = Callers /\ Failures' = Failures
  BY <1>3, <1>4 DEF Callers, Failures
<1>6. \A e \in owed[p] : e[2] \in data[e[1]] => e[1] \in run[p].failed
  <2>1. run[p].stage = "done" /\ run[p].status = "running"
    BY DEF Respond, Active
  <2>2. Handled("done") = Store
    BY DEF Handled
  <2>3. \A e \in owed[p] : e[1] \in Store
    BY DEF TypeOK
  <2> QED
    BY <2>1, <2>2, <2>3 DEF Tracking, Tracked, Ahead
<1>7. Contract!Settled(p)
  BY <1>4, <1>6 DEF Contract!Settled, Failures
<1>8. run[p].status = "running" /\ UNCHANGED <<data, fresh, owed>>
  BY DEF Respond, Active
<1> QED
  BY <1>3, <1>4, <1>5, <1>7, <1>8 DEF Contract!Answer, Callers, Statuses, Failures

\* What a step of the loops over pages and entries changes is not seen.
LEMMA MovedUnseen ==
  ASSUME TypeOK, NEW p \in Invocation, NEW r, Become(p, r),
         NEW c, NEW x, NEW y, MovedOn(r, run[p], c, x, y),
         UNCHANGED <<data, fresh, owed>>
  PROVE  UNCHANGED Contract!vars
<1>1. Callers' = Callers /\ Statuses' = Statuses /\ Failures' = Failures
  BY Unseen DEF MovedOn
<1> QED
  BY <1>1 DEF Contract!vars, Callers, Statuses, Failures

\* A handler that fails in a store, or leaves it, erases nothing by that.
LEMMA FailRefines ==
  ASSUME TypeOK, NEW p \in Invocation, Active(p, Store), NEW f \in SUBSET Store,
         Become(p, Proceed(run[p], f)), NEW gone, gone \subseteq run[p].batch,
         WellFormed(run[p]),
         data' = [data EXCEPT ![run[p].stage] = @ \ gone], UNCHANGED <<fresh, owed>>
  PROVE  Contract!Erase(p)
<1> DEFINE r == Proceed(run[p], f)
<1>1. run[p] \in Run /\ run[p].stage \in Store /\ run[p].status = "running"
  BY DEF TypeOK, Active
<1>2. r.user = run[p].user /\ r.status = "running" /\ r.failed = run[p].failed \cup f
  BY <1>1, ProceedType
<1>3. run[p].failed \subseteq r.failed /\ r.failed \subseteq Store
  BY <1>1, <1>2 DEF Run
<1>4. \A i \in gone : i.owner = run[p].user
  BY DEF WellFormed
<1>5. Become(p, r)
  OBVIOUS
<1> HIDE DEF r
<1> QED
  BY <1>1, <1>2, <1>3, <1>4, <1>5, EraseRefines

\* Every step of the handlers, of the writers and of the runtime is a step of the
\* contract or does not show.
LEMMA StepRefines ==
  TypeOK /\ Tracking /\ [Next]_vars => [Contract!Next]_(Contract!vars)
<1> SUFFICES ASSUME TypeOK, Tracking, [Next]_vars
             PROVE  Contract!Next \/ UNCHANGED Contract!vars
  OBVIOUS
<1>1. \A p \in Invocation : run[p] \in Run /\ run[p].user \in User /\ WellFormed(run[p])
  BY DEF TypeOK, Run, Tracking
<1>2. ASSUME NEW p \in Invocation, Start(p) PROVE Contract!Next
  BY <1>2, StartRefines DEF Contract!Next
<1>3. ASSUME NEW p \in Invocation, Refuse(p) PROVE Contract!Next
  <2>1. PICK a \in {"401", "502"} : Become(p, [Idle(run[p].user) EXCEPT !.status = a])
    BY <1>3 DEF Refuse
  <2>2. Contract!Abandon(p)
    BY <1>3, <2>1, AbandonRefines DEF Refuse
  <2> QED
    BY <2>2 DEF Contract!Next
<1>4. ASSUME NEW p \in Invocation, Timeout(p) PROVE Contract!Next
  <2>1. Contract!Abandon(p)
    BY <1>4, AbandonRefines DEF Timeout
  <2> QED
    BY <2>1 DEF Contract!Next
<1>5. ASSUME NEW p \in Invocation, List(p) PROVE UNCHANGED Contract!vars
  <2>1. PICK last \in run[p].cursor + 1 .. EndOfList, found \in SUBSET Item :
          Become(p, [run[p] EXCEPT !.cursor = last, !.page = found])
    BY <1>5, ListFinds
  <2>2. last \in 0 .. EndOfList
    BY <1>1, BoundsAssumption DEF Run, EndOfList
  <2> DEFINE r == [run[p] EXCEPT !.cursor = last, !.page = found]
  <2>3. MovedOn(r, run[p], last, found, run[p].batch)
    BY <1>1, <2>2, ListingMoves, Zenon
  <2>4. Become(p, r) /\ UNCHANGED <<data, fresh, owed>>
    BY <1>5, <2>1 DEF List
  <2> HIDE DEF r
  <2> QED
    BY <2>3, <2>4, MovedUnseen
<1>6. ASSUME NEW p \in Invocation, ListError(p) PROVE Contract!Next
  <2>1. /\ Active(p, Store) /\ {run[p].stage} \in SUBSET Store
        /\ Become(p, Proceed(run[p], {run[p].stage})) /\ UNCHANGED <<data, fresh, owed>>
    BY <1>6 DEF ListError, Fail, Active
  <2>2. PICK gone : /\ gone \subseteq run[p].batch
                    /\ data' = [data EXCEPT ![run[p].stage] = @ \ gone]
    <3>1. data' = [data EXCEPT ![run[p].stage] = @ \ {}]
      BY <2>1 DEF TypeOK
    <3> QED
      BY <3>1
  <2>3. Contract!Erase(p)
    BY <1>1, <2>1, <2>2, FailRefines
  <2> QED
    BY <2>3 DEF Contract!Next
<1>7. ASSUME NEW p \in Invocation, FinishStore(p) PROVE Contract!Next
  <2>1. /\ Active(p, Store) /\ {} \in SUBSET Store
        /\ Become(p, Proceed(run[p], {})) /\ UNCHANGED <<data, fresh, owed>>
    BY <1>7 DEF FinishStore
  <2>2. PICK gone : /\ gone \subseteq run[p].batch
                    /\ data' = [data EXCEPT ![run[p].stage] = @ \ gone]
    <3>1. data' = [data EXCEPT ![run[p].stage] = @ \ {}]
      BY <2>1 DEF TypeOK
    <3> QED
      BY <3>1
  <2>3. Contract!Erase(p)
    BY <1>1, <2>1, <2>2, FailRefines
  <2> QED
    BY <2>3 DEF Contract!Next
<1>8. ASSUME NEW p \in Invocation, Respond(p) PROVE Contract!Next
  BY <1>8, RespondRefines DEF Contract!Next
<1>9. ASSUME NEW p \in Invocation, Collect(p) PROVE UNCHANGED Contract!vars
  <2>1. PICK i \in run[p].page :
          Become(p, [run[p] EXCEPT !.page = @ \ {i}, !.batch = @ \cup {i}])
    BY <1>9 DEF Collect
  <2> DEFINE r == [run[p] EXCEPT !.page = @ \ {i}, !.batch = @ \cup {i}]
  <2>2. run[p].page \ {i} \in SUBSET Item /\ run[p].batch \cup {i} \in SUBSET Item
    BY <1>1 DEF Run
  <2>3. MovedOn(r, run[p], run[p].cursor, run[p].page \ {i}, run[p].batch \cup {i})
    BY <1>1, <2>2, CollectingMoves, Zenon
  <2>4. Become(p, r) /\ UNCHANGED <<data, fresh, owed>>
    BY <1>9, <2>1 DEF Collect
  <2> HIDE DEF r
  <2> QED
    BY <2>3, <2>4, MovedUnseen
<1>10. ASSUME NEW p \in Invocation, Chunk(p) PROVE UNCHANGED Contract!vars
  <2>1. PICK c \in SUBSET run[p].page :
          Become(p, [run[p] EXCEPT !.page = @ \ c, !.batch = c, !.attempt = 0])
    BY <1>10 DEF Chunk
  <2> DEFINE r == [run[p] EXCEPT !.page = @ \ c, !.batch = c, !.attempt = 0]
  <2>2. /\ run[p].page \ c \in SUBSET Item /\ c \in SUBSET Item
        /\ 0 \in 0 .. MaxBatchWriteRetries
    BY <1>1, BoundsAssumption DEF Run
  <2>3. MovedOn(r, run[p], run[p].cursor, run[p].page \ c, c)
    BY <1>1, <2>2, ChunkingMoves, Zenon
  <2>4. Become(p, r) /\ UNCHANGED <<data, fresh, owed>>
    BY <1>10, <2>1 DEF Chunk
  <2> HIDE DEF r
  <2> QED
    BY <2>3, <2>4, MovedUnseen
<1>11. ASSUME NEW p \in Invocation, Flush(p) PROVE Contract!Next
  <2>1. PICK gone \in SUBSET run[p].batch :
          /\ data' = [data EXCEPT !["S3"] = @ \ gone]
          /\ \/ Become(p, [run[p] EXCEPT !.batch = {}])
             \/ Fail(p)
    BY <1>11 DEF Flush
  <2>2. /\ run[p].stage = "S3" /\ run[p].stage \in Store /\ Active(p, Store)
        /\ run[p].status = "running" /\ UNCHANGED <<fresh, owed>>
    BY <1>11 DEF Flush, Active, Store
  <2>3. CASE Fail(p)
    <3>1. {run[p].stage} \in SUBSET Store /\ Become(p, Proceed(run[p], {run[p].stage}))
      BY <2>2, <2>3 DEF Fail
    <3>2. gone \subseteq run[p].batch /\ data' = [data EXCEPT ![run[p].stage] = @ \ gone]
      BY <2>1, <2>2
    <3>3. Contract!Erase(p)
      BY <1>1, <2>2, <3>1, <3>2, FailRefines
    <3> QED
      BY <3>3 DEF Contract!Next
  <2>4. CASE Become(p, [run[p] EXCEPT !.batch = {}])
    <3> DEFINE r == [run[p] EXCEPT !.batch = {}]
    <3>1. MovedOn(r, run[p], run[p].cursor, run[p].page, {})
      BY <1>1, FlushingMoves, Zenon
    <3>2. Become(p, r)
      BY <2>4
    <3> HIDE DEF r
    <3>3. /\ r.user = run[p].user /\ r.status = "running"
          /\ run[p].failed \subseteq r.failed /\ r.failed \subseteq Store
      BY <1>1, <2>2, <3>1 DEF MovedOn, Run
    <3>4. \A i \in gone : i.owner = run[p].user
      BY <1>1, <2>1 DEF WellFormed
    <3>5. Contract!Erase(p)
      BY <2>1, <2>2, <3>2, <3>3, <3>4, EraseRefines
    <3> QED
      BY <3>5 DEF Contract!Next
  <2> QED
    BY <2>1, <2>3, <2>4
<1>12. ASSUME NEW p \in Invocation, BatchWrite(p) PROVE Contract!Next
  <2>1. PICK gone \in SUBSET run[p].batch :
          /\ data' = [data EXCEPT ![run[p].stage] = @ \ gone]
          /\ \/ Become(p, [run[p] EXCEPT !.batch = {}, !.attempt = 0])
             \/ /\ run[p].attempt < MaxBatchWriteRetries
                /\ Become(p, [run[p] EXCEPT !.batch = run[p].batch \ gone,
                                           !.attempt = @ + 1])
             \/ Fail(p)
    BY <1>12 DEF BatchWrite
  <2>2. /\ run[p].stage \in Store /\ Active(p, Store) /\ run[p].status = "running"
        /\ UNCHANGED <<fresh, owed>>
    BY <1>12 DEF BatchWrite, Active, Store
  <2>3. CASE Fail(p)
    <3>1. {run[p].stage} \in SUBSET Store /\ Become(p, Proceed(run[p], {run[p].stage}))
      BY <2>2, <2>3 DEF Fail
    <3>2. gone \subseteq run[p].batch /\ data' = [data EXCEPT ![run[p].stage] = @ \ gone]
      BY <2>1, <2>2
    <3>3. Contract!Erase(p)
      BY <1>1, <2>2, <3>1, <3>2, FailRefines
    <3> QED
      BY <3>3 DEF Contract!Next
  <2>4. ASSUME NEW n \in 0 .. MaxBatchWriteRetries, NEW rest \in SUBSET Item,
               Become(p, [run[p] EXCEPT !.batch = rest, !.attempt = n])
        PROVE  Contract!Next
    <3> DEFINE r == [run[p] EXCEPT !.batch = rest, !.attempt = n]
    <3>1. MovedOn(r, run[p], run[p].cursor, run[p].page, rest)
      BY <1>1, WritingMoves, Zenon
    <3>2. Become(p, r)
      BY <2>4
    <3> HIDE DEF r
    <3>3. /\ r.user = run[p].user /\ r.status = "running"
          /\ run[p].failed \subseteq r.failed /\ r.failed \subseteq Store
      BY <1>1, <2>2, <3>1 DEF MovedOn, Run
    <3>4. \A i \in gone : i.owner = run[p].user
      BY <1>1, <2>1 DEF WellFormed
    <3>5. Contract!Erase(p)
      BY <2>1, <2>2, <3>2, <3>3, <3>4, EraseRefines
    <3> QED
      BY <3>5 DEF Contract!Next
  <2>5. CASE Become(p, [run[p] EXCEPT !.batch = {}, !.attempt = 0])
    <3>1. 0 \in 0 .. MaxBatchWriteRetries /\ {} \in SUBSET Item
      BY BoundsAssumption
    <3> QED
      BY <2>4, <2>5, <3>1
  <2>6. CASE /\ run[p].attempt < MaxBatchWriteRetries
             /\ Become(p, [run[p] EXCEPT !.batch = run[p].batch \ gone, !.attempt = @ + 1])
    <3>1. run[p].attempt + 1 \in 0 .. MaxBatchWriteRetries
      BY <1>1, <2>6, BoundsAssumption DEF Run
    <3>2. run[p].batch \ gone \in SUBSET Item
      BY <1>1 DEF Run
    <3> QED
      BY <2>4, <2>6, <3>1, <3>2
  <2> QED
    BY <2>1, <2>3, <2>5, <2>6
<1>13. ASSUME NEW s \in Store, NEW i \in Item, Put(s, i) PROVE Contract!Next
  <2>1. Contract!Put(s, i)
    BY <1>13 DEF Put, Contract!Put
  <2> QED
    BY <2>1 DEF Contract!Next
<1>14. ASSUME NEW e \in fresh, Propagate(e) PROVE Contract!Next
  <2>1. Contract!Propagate(e)
    BY <1>14 DEF Propagate, Contract!Propagate
  <2> QED
    BY <2>1 DEF Contract!Next
<1>15. ASSUME NEW s \in Store, NEW i \in Item, Withdraw(s, i) PROVE Contract!Next
  <2>1. Contract!Withdraw(s, i)
    BY <1>15 DEF Withdraw, Contract!Withdraw
  <2> QED
    BY <2>1 DEF Contract!Next
<1>16. CASE UNCHANGED vars
  BY <1>16 DEF vars, Contract!vars
<1> QED
  BY <1>2, <1>3, <1>4, <1>5, <1>6, <1>7, <1>8, <1>9, <1>10, <1>11, <1>12, <1>13,
     <1>14, <1>15, <1>16 DEF Next, Step, Store, Tables

\* DELETE /users as coded - pages, batches, chunks, retries, concurrent invocations -
\* does no more than the contract allows: it erases nobody else's entries, and answers
\* only when it owes nothing outside the stores it names.
THEOREM DeletionRefinesContract == Spec => ImplementsContract
  BY InitRefines, TrackingInvariant, StepRefines, PTL
     DEF Spec, ImplementsContract, Contract!Spec
================================================================================
