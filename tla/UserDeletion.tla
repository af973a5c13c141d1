------------------------------ MODULE UserDeletion ------------------------------
(***************************************************************************)
(* DELETE /users (lambda/cloud_photos/users).  One invocation of the       *)
(* handler erases its caller's data from three stores in turn: every       *)
(* version and delete marker under the caller's S3 prefix, then the items  *)
(* of two DynamoDB tables.  Each AWS call is one action, so calls of other *)
(* invocations, and everything else that writes to the stores, come        *)
(* between any two of them.                                                *)
(*                                                                         *)
(* An entry of a store is a record of its owner and of its position in the *)
(* order in which the store lists the owner's entries.                     *)
(***************************************************************************)
EXTENDS Naturals, FiniteSets

CONSTANTS User,                 \* Cognito identities
          Invocation,           \* concurrent invocations of the handler
          LastKey,              \* positions in a listing are 1 .. LastKey
          Entries,              \* [Store -> SUBSET Item]: what may ever be stored
          DeleteMarkers,        \* the S3 positions that hold delete markers
          PageSize,             \* entries a store returns per page, at most
          S3DeleteBatchSize,    \* S3_DELETE_BATCH_SIZE, 1000
          DynamoBatchWriteSize, \* DYNAMODB_BATCH_WRITE_SIZE, 25
          MaxBatchWriteRetries  \* MAX_BATCH_WRITE_RETRIES, 5

Tables == {"upload_records", "device_tokens"}
Store  == {"S3"} \cup Tables
Item   == [owner : User, key : 1 .. LastKey]

ASSUME BoundsAssumption ==
  /\ LastKey \in Nat /\ MaxBatchWriteRetries \in Nat
  /\ PageSize \in Nat \ {0}
  /\ S3DeleteBatchSize \in Nat \ {0} /\ DynamoBatchWriteSize \in Nat \ {0}
ASSUME EntriesAssumption == Entries \in [Store -> SUBSET Item]

\* The cursor after the last page: the store returned no continuation key.
EndOfList == LastKey + 1

\* The order of the handler's list "deletions".
After == [s \in Store |-> CASE s = "S3" -> "upload_records"
                            [] s = "upload_records" -> "device_tokens"
                            [] s = "device_tokens" -> "done"]

VARIABLES data,  \* [Store -> SUBSET Item]
          run,   \* [Invocation -> Run]: the handler's local variables
          fresh, \* SUBSET (Tables \X Item): writes that a query may not see yet,
                 \* for the handler's queries are eventually consistent
          owed   \* history: [Invocation -> SUBSET (Store \X Item)], the caller's
                 \* entries that any list showed at the start and that have not
                 \* been written again since

vars == <<data, run, fresh, owed>>

Run == [user    : User,
        status  : {"idle", "running", "200", "401", "500", "502", "504"},
        stage   : Store \cup {"done"},
        cursor  : 0 .. EndOfList,       \* key of the last entry listed
        page    : SUBSET Item,          \* entries of the page still to handle
        batch   : SUBSET Item,          \* objects_to_delete, or unprocessed
        attempt : 0 .. MaxBatchWriteRetries,
        failed  : SUBSET Store]         \* failed_subsystems

Idle(u) == [user |-> u, status |-> "idle", stage |-> "S3", cursor |-> 0, page |-> {},
            batch |-> {}, attempt |-> 0, failed |-> {}]

OwnedBy(u) == {e \in Store \X Item : e[2] \in data[e[1]] /\ e[2].owner = u}

Init == /\ data = [s \in Store |-> {}]
        /\ \E u \in User : run = [p \in Invocation |-> Idle(u)]
        /\ fresh = {}
        /\ owed = [p \in Invocation |-> {}]

Active(p, stores) == run[p].status = "running" /\ run[p].stage \in stores

Become(p, r) == run' = [run EXCEPT ![p] = r]

-----------------------------------------------------------------------------
(* The handler.                                                            *)

\* The configuration is read and the first deletion begins.
Start(p) == /\ run[p].status # "running"
            /\ \E u \in User :
                 /\ Become(p, [Idle(u) EXCEPT !.status = "running"])
                 /\ owed' = [owed EXCEPT ![p] = OwnedBy(u) \ fresh]
            /\ UNCHANGED <<data, fresh>>

\* No identity (401), or a missing environment variable (502 from API Gateway).
Refuse(p) == /\ run[p].status # "running"
             /\ \E answer \in {"401", "502"} :
                  Become(p, [Idle(run[p].user) EXCEPT !.status = answer])
             /\ owed' = [owed EXCEPT ![p] = {}]
             /\ UNCHANGED <<data, fresh>>

\* _try_delete has returned: record the failure, if any, and go to the next store.
Proceed(r, failures) == [Idle(r.user) EXCEPT !.status = "running",
                                             !.stage = After[r.stage],
                                             !.failed = r.failed \cup failures]

Fail(p) == Become(p, Proceed(run[p], {run[p].stage}))

Respond(p) == /\ Active(p, {"done"})
              /\ Become(p, [run[p] EXCEPT !.status = IF run[p].failed = {} THEN "200" ELSE "500"])
              /\ UNCHANGED <<data, fresh, owed>>

\* The runtime stops the invocation, at its time limit or in a crash.
Timeout(p) == /\ run[p].status = "running"
              /\ Become(p, [Idle(run[p].user) EXCEPT !.status = "504"])
              /\ owed' = [owed EXCEPT ![p] = {}]
              /\ UNCHANGED <<data, fresh>>

-----------------------------------------------------------------------------
(* Listing a store: list_object_versions and query, page by page.          *)

\* Mutant: the query forgets whose entries it lists.
ListedForAnyone(s, u, from, to) ==
  {i \in data[s] : from < i.key /\ i.key <= to}

Listed(s, u, from, to) ==
  {i \in data[s] : i.owner = u /\ from < i.key /\ i.key <= to}

\* When the loops over the entries of a page ask for the next page.
WantsPage(r) == /\ r.page = {}
                /\ r.cursor # EndOfList
                /\ IF r.stage = "S3" THEN Cardinality(r.batch) < S3DeleteBatchSize
                                     ELSE r.batch = {}

\* A query may miss fresh writes.  A page that is not the last one continues
\* after its own last entry.
ListAfter(p, from) ==
  LET s == run[p].stage
      u == run[p].user
  IN  \E missed \in SUBSET {i \in Listed(s, u, from, LastKey) : <<s, i>> \in fresh} :
        \E last \in {i.key : i \in Listed(s, u, from, LastKey) \ missed} \cup {EndOfList} :
          LET found == Listed(s, u, from, last) \ missed
          IN  /\ Cardinality(found) <= PageSize
              /\ Become(p, [run[p] EXCEPT !.cursor = last, !.page = found])

\* Mutant: the query of the next page does not carry ExclusiveStartKey.
ListFromStart(p) == /\ Active(p, Store)
                    /\ WantsPage(run[p])
                    /\ ListAfter(p, 0)
                    /\ UNCHANGED <<data, fresh, owed>>

List(p) == /\ Active(p, Store)
           /\ WantsPage(run[p])
           /\ ListAfter(p, run[p].cursor)
           /\ UNCHANGED <<data, fresh, owed>>

ListError(p) == /\ Active(p, Store)
                /\ WantsPage(run[p])
                /\ Fail(p)
                /\ UNCHANGED <<data, fresh, owed>>

\* The last page of the store has been handled.
FinishStore(p) == /\ Active(p, Store)
                  /\ run[p].cursor = EndOfList
                  /\ run[p].page = {} /\ run[p].batch = {}
                  /\ Become(p, Proceed(run[p], {}))
                  /\ UNCHANGED <<data, fresh, owed>>

-----------------------------------------------------------------------------
(* S3: entries gather across pages until a batch is full.                  *)

\* chain(Versions, DeleteMarkers): a page's versions come before its markers.
Precedes(i, j) == IF (i.key \in DeleteMarkers) = (j.key \in DeleteMarkers)
                  THEN i.key < j.key
                  ELSE j.key \in DeleteMarkers

\* Mutant: the batch is flushed when it has grown past its limit.
CollectOneTooMany(p) ==
  /\ Active(p, {"S3"})
  /\ Cardinality(run[p].batch) <= S3DeleteBatchSize
  /\ \E entry \in run[p].page :
       Become(p, [run[p] EXCEPT !.page = @ \ {entry}, !.batch = @ \cup {entry}])
  /\ UNCHANGED <<data, fresh, owed>>

Collect(p) == /\ Active(p, {"S3"})
              /\ Cardinality(run[p].batch) < S3DeleteBatchSize
              /\ \E entry \in run[p].page :
                   /\ \A other \in run[p].page \ {entry} : Precedes(entry, other)
                   /\ Become(p, [run[p] EXCEPT !.page = @ \ {entry},
                                               !.batch = @ \cup {entry}])
              /\ UNCHANGED <<data, fresh, owed>>

\* A full batch, or the remainder after the last page.
FlushDue(r) == /\ r.batch # {}
               /\ \/ Cardinality(r.batch) = S3DeleteBatchSize
                  \/ r.page = {} /\ r.cursor = EndOfList

\* Mutant: the Errors of delete_objects are not looked at.
FlushIgnoringErrors(p) ==
  /\ Active(p, {"S3"})
  /\ FlushDue(run[p])
  /\ \E gone \in SUBSET run[p].batch : data' = [data EXCEPT !["S3"] = @ \ gone]
  /\ Become(p, [run[p] EXCEPT !.batch = {}])
  /\ UNCHANGED <<fresh, owed>>

\* delete_objects removes the objects it does not report under Errors; the call
\* may also raise, having removed any of them.
Flush(p) == /\ Active(p, {"S3"})
            /\ FlushDue(run[p])
            /\ \E gone \in SUBSET run[p].batch :
                 /\ data' = [data EXCEPT !["S3"] = @ \ gone]
                 /\ \/ gone = run[p].batch /\ Become(p, [run[p] EXCEPT !.batch = {}])
                    \/ Fail(p)
            /\ UNCHANGED <<fresh, owed>>

-----------------------------------------------------------------------------
(* DynamoDB: each page is written in chunks, with retries.                 *)

\* Mutant: a page is not cut into chunks.
ChunkWholePage(p) == /\ Active(p, Tables)
                     /\ run[p].batch = {} /\ run[p].page # {}
                     /\ Become(p, [run[p] EXCEPT !.page = {}, !.batch = run[p].page,
                                                 !.attempt = 0])
                     /\ UNCHANGED <<data, fresh, owed>>

\* Each chunk is as long as DYNAMODB_BATCH_WRITE_SIZE, but for the last of a page.
Chunk(p) == /\ Active(p, Tables)
            /\ run[p].batch = {} /\ run[p].page # {}
            /\ \E chunk \in SUBSET run[p].page :
                 /\ chunk # {} /\ Cardinality(chunk) <= DynamoBatchWriteSize
                 /\ chunk = run[p].page \/ Cardinality(chunk) = DynamoBatchWriteSize
                 /\ \A i \in chunk, j \in run[p].page \ chunk : i.key < j.key
                 /\ Become(p, [run[p] EXCEPT !.page = @ \ chunk, !.batch = chunk,
                                             !.attempt = 0])
            /\ UNCHANGED <<data, fresh, owed>>

\* Mutant: the last retry does not give up.
BatchWriteWithoutEnd(p) ==
  /\ Active(p, Tables)
  /\ run[p].batch # {}
  /\ \E gone \in SUBSET run[p].batch :
       /\ data' = [data EXCEPT ![run[p].stage] = @ \ gone]
       /\ Become(p, [run[p] EXCEPT !.batch = @ \ gone, !.attempt = @ + 1])
  /\ UNCHANGED <<fresh, owed>>

\* Mutant: what the last retry leaves unprocessed is not reported.
BatchWriteForgetting(p) ==
  /\ Active(p, Tables)
  /\ run[p].batch # {}
  /\ \E gone \in SUBSET run[p].batch :
       /\ data' = [data EXCEPT ![run[p].stage] = @ \ gone]
       /\ IF run[p].batch = gone \/ run[p].attempt = MaxBatchWriteRetries
          THEN Become(p, [run[p] EXCEPT !.batch = {}, !.attempt = 0])
          ELSE Become(p, [run[p] EXCEPT !.batch = @ \ gone, !.attempt = @ + 1])
  /\ UNCHANGED <<fresh, owed>>

\* batch_write_item deletes some of the batch and returns the rest as
\* UnprocessedItems; the call may also raise, having deleted any of them.
BatchWrite(p) ==
  /\ Active(p, Tables)
  /\ run[p].batch # {}
  /\ \E gone \in SUBSET run[p].batch :
       LET unprocessed == run[p].batch \ gone
       IN  /\ data' = [data EXCEPT ![run[p].stage] = @ \ gone]
           /\ \/ /\ unprocessed = {}
                 /\ Become(p, [run[p] EXCEPT !.batch = {}, !.attempt = 0])
              \/ /\ unprocessed # {} /\ run[p].attempt < MaxBatchWriteRetries
                 /\ Become(p, [run[p] EXCEPT !.batch = unprocessed, !.attempt = @ + 1])
              \/ Fail(p)
  /\ UNCHANGED <<fresh, owed>>

-----------------------------------------------------------------------------
(* The rest of the system, while deletions run: uploads and S3 deletions   *)
(* (which add a version or a marker), POST /media/uploads, and             *)
(* PUT /devices/token store entries; DELETE /devices/token, the removal of *)
(* unregistered tokens and S3's expiration of old versions withdraw them.  *)

Put(s, i) == /\ i \in Entries[s] \ data[s]
             /\ data' = [data EXCEPT ![s] = @ \cup {i}]
             /\ fresh' = IF s \in Tables THEN fresh \cup {<<s, i>>} ELSE fresh
             /\ owed' = [p \in Invocation |-> owed[p] \ {<<s, i>>}]
             /\ UNCHANGED run

\* The write has reached every replica of the table.
Propagate(e) == /\ e \in fresh
                /\ fresh' = fresh \ {e}
                /\ UNCHANGED <<data, run, owed>>

Withdraw(s, i) == /\ i \in data[s]
                  /\ data' = [data EXCEPT ![s] = @ \ {i}]
                  /\ UNCHANGED <<run, fresh, owed>>

-----------------------------------------------------------------------------
Step(p) == \/ List(p) \/ ListError(p) \/ FinishStore(p) \/ Respond(p)
           \/ Collect(p) \/ Flush(p) \/ Chunk(p) \/ BatchWrite(p)

Next == \/ \E p \in Invocation : Start(p) \/ Refuse(p) \/ Timeout(p) \/ Step(p)
        \/ \E s \in Store, i \in Item : Put(s, i)
        \/ \E e \in fresh : Propagate(e)
        \/ \E s \in {"S3", "device_tokens"}, i \in Item : Withdraw(s, i)

Spec == Init /\ [][Next]_vars

\* A running invocation is never suspended for good: Lambda runs it until it
\* returns or is stopped.  Nothing obliges clients to call or AWS to succeed.
FairSpec == Spec /\ \A p \in Invocation : WF_vars(Step(p))

-----------------------------------------------------------------------------
(* Properties.                                                             *)

\* Every variable keeps its type; in particular no batch is retried more than
\* MAX_BATCH_WRITE_RETRIES times.
TypeOK == /\ data \in [Store -> SUBSET Item]
          /\ run \in [Invocation -> Run]
          /\ fresh \subseteq Tables \X Item
          /\ owed \in [Invocation -> SUBSET (Store \X Item)]

Answered(p) == run[p].status \in {"200", "500"}

\* Once an invocation has answered, whatever survives of the entries its caller
\* had when it started (and that had reached every replica) is in a store the
\* answer names: no page, batch remainder, retry or failure of another store lets
\* an entry slip through, whatever is written at the same time
\* (delete_user.handler's 200 and 500).
NothingOwedSurvives ==
  \A p \in Invocation : Answered(p) =>
    /\ \A e \in owed[p] : e[2] \in data[e[1]] => e[1] \in run[p].failed
    /\ run[p].status = "200" => run[p].failed = {}

\* A request to delete names at most as many entries as the service accepts, all
\* of them the caller's (_flush_s3_batch, _batch_delete_items).
BatchesAccepted ==
  \A p \in Invocation : run[p].status = "running" =>
    /\ Cardinality(run[p].batch) <= IF run[p].stage = "S3" THEN S3DeleteBatchSize
                                                         ELSE DynamoBatchWriteSize
    /\ \A i \in run[p].batch : i.owner = run[p].user

\* Paging and retrying end: a deletion that starts is answered or stopped, even
\* while entries are added all the time.
Responds == \A p \in Invocation : run[p].status = "running" ~> run[p].status # "running"

\* The invocations do no more than the contract of DELETE /users allows: they
\* erase nobody else's entries and answer only when they owe nothing.
Contract == INSTANCE ErasureContract
              WITH caller <- [p \in Invocation |-> run[p].user],
                   status <- [p \in Invocation |-> run[p].status],
                   failed <- [p \in Invocation |-> run[p].failed]

ImplementsContract == Contract!Spec

\* The inductive invariant behind NothingOwedSurvives.  An owed entry that is still
\* stored is in a failed store, in a store whose turn has not come, or ahead of
\* the handler in the current store: past the cursor, or listed and not yet gone.
Handled(stage) == CASE stage = "S3" -> {}
                    [] stage = "upload_records" -> {"S3"}
                    [] stage = "device_tokens" -> {"S3", "upload_records"}
                    [] OTHER -> Store

Ahead(r, e) == /\ e[1] \notin Handled(r.stage)
               /\ e[1] = r.stage => r.cursor < e[2].key \/ e[2] \in r.page \cup r.batch

Tracked(p) == \A e \in owed[p] :
                /\ e \notin fresh
                /\ e[2].owner = run[p].user
                /\ e[2] \in data[e[1]] => e[1] \in run[p].failed \/ Ahead(run[p], e)

WellFormed(r) == /\ \A i \in r.page \cup r.batch : i.owner = r.user
                 /\ r.status \in {"200", "500"} => r.stage = "done"
                 /\ r.status = "200" => r.failed = {}

Tracking == \A p \in Invocation : Tracked(p) /\ WellFormed(run[p])

\* db.py says "Delete every item of the user in the table": a 200 would then leave
\* no item of the caller in a table (under MCUserDeletion's QuietSpec, in which
\* nothing is written while a deletion runs).
EveryItemDeleted ==
  [][\A p \in Invocation : run[p].status = "running" /\ run'[p].status = "200"
       => \A s \in Tables : \A i \in data[s] : i.owner # run[p].user]_vars
================================================================================
