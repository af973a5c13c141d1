---------------------------- MODULE ErasureContract ----------------------------
(***************************************************************************)
(* What DELETE /users promises, without pages, batches or retries: while a *)
(* deletion is under way it may erase entries of its caller and of nobody  *)
(* else, and it may answer only when every entry it owes is gone from each *)
(* store it does not name as failed.  An entry is owed when every reader   *)
(* saw it at the start of the deletion and it has not been written since.  *)
(***************************************************************************)
CONSTANTS User, Invocation, Store, Item

VARIABLES data,    \* [Store -> SUBSET Item]: what each store holds
          caller,  \* [Invocation -> User]: whose data the invocation erases
          status,  \* [Invocation -> STRING]: idle, running, or the answer
          failed,  \* [Invocation -> SUBSET Store]: the stores named as failed
          fresh,   \* SUBSET (Store \X Item): writes not yet seen by every reader
          owed     \* [Invocation -> SUBSET (Store \X Item)]

vars == <<data, caller, status, failed, fresh, owed>>

OwnedBy(u) == {e \in Store \X Item : e[2] \in data[e[1]] /\ e[2].owner = u}

Settled(p) == \A e \in owed[p] : e[2] \in data[e[1]] => e[1] \in failed[p]

Init == /\ data \in [Store -> SUBSET Item]
        /\ caller \in [Invocation -> User]
        /\ status = [p \in Invocation |-> "idle"]
        /\ failed = [p \in Invocation |-> {}]
        /\ fresh = {}
        /\ owed = [p \in Invocation |-> {}]

Begin(p) == /\ status[p] # "running"
            /\ \E u \in User :
                 /\ caller' = [caller EXCEPT ![p] = u]
                 /\ owed' = [owed EXCEPT ![p] = OwnedBy(u) \ fresh]
            /\ status' = [status EXCEPT ![p] = "running"]
            /\ failed' = [failed EXCEPT ![p] = {}]
            /\ UNCHANGED <<data, fresh>>

\* Some of the caller's entries of one store go, or a store is found to fail.
Erase(p) == /\ status[p] = "running"
            /\ \E s \in Store : data' = [data EXCEPT ![s] = @ \cap data'[s]]
            /\ \A s \in Store : \A i \in data[s] \ data'[s] : i.owner = caller[p]
            /\ failed[p] \subseteq failed'[p] /\ failed'[p] \subseteq Store
            /\ failed' = [failed EXCEPT ![p] = failed'[p]]
            /\ UNCHANGED <<caller, status, fresh, owed>>

Answer(p) == /\ status[p] = "running"
             /\ Settled(p)
             /\ status' = [status EXCEPT ![p] = IF failed[p] = {} THEN "200" ELSE "500"]
             /\ UNCHANGED <<data, caller, failed, fresh, owed>>

\* Refused before anything is deleted, or stopped by the runtime.
Abandon(p) == /\ \/ status[p] # "running" /\ status' = [status EXCEPT ![p] = "401"]
                 \/ status[p] # "running" /\ status' = [status EXCEPT ![p] = "502"]
                 \/ status[p] = "running" /\ status' = [status EXCEPT ![p] = "504"]
              /\ owed' = [owed EXCEPT ![p] = {}]
              /\ failed' = [failed EXCEPT ![p] = {}]
              /\ UNCHANGED <<data, caller, fresh>>

\* The rest of the system stores a new entry, or withdraws one.
Put(s, i) == /\ data' = [data EXCEPT ![s] = @ \cup {i}]
             /\ fresh' \in {fresh, fresh \cup {<<s, i>>}}
             /\ owed' = [p \in Invocation |-> owed[p] \ {<<s, i>>}]
             /\ UNCHANGED <<caller, status, failed>>

Withdraw(s, i) == /\ data' = [data EXCEPT ![s] = @ \ {i}]
                  /\ UNCHANGED <<caller, status, failed, fresh, owed>>

Propagate(e) == /\ fresh' = fresh \ {e}
                /\ UNCHANGED <<data, caller, status, failed, owed>>

Next == \/ \E p \in Invocation : Begin(p) \/ Erase(p) \/ Answer(p) \/ Abandon(p)
        \/ \E s \in Store, i \in Item : Put(s, i) \/ Withdraw(s, i)
        \/ \E e \in fresh : Propagate(e)

Spec == Init /\ [][Next]_vars
================================================================================
