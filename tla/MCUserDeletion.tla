----------------------------- MODULE MCUserDeletion -----------------------------
(***************************************************************************)
(* Values of UserDeletion's constants for TLC.                             *)
(***************************************************************************)
EXTENDS UserDeletion, TLC

CONSTANTS alice, bob

At(u, keys) == [owner : {u}, key : keys]

\* Three S3 entries of alice (one a marker) over batches of two, one of bob among
\* them, one record and one token of alice.
MCEntries == [s \in Store |-> IF s = "S3" THEN At(alice, {1, 2, 3}) \cup At(bob, {2})
                                          ELSE At(alice, {1})]

\* Two records only, for two invocations at once.
MCRecords == [s \in Store |-> IF s = "upload_records" THEN At(alice, {1, 2}) ELSE {}]

\* Three records, for pages of several chunks, after one S3 entry.
MCLive == [s \in Store |-> CASE s = "S3" -> At(alice, {1})
                             [] s = "upload_records" -> At(alice, {1, 2, 3})
                             [] s = "device_tokens" -> {}]

\* Nothing is written while a deletion runs.
Quiet == (\E p \in Invocation : run[p].status = "running")
           => \A s \in Store : data'[s] \subseteq data[s]
QuietSpec == Init /\ [][Next /\ Quiet]_vars

InvocationSymmetry == Permutations(Invocation)
================================================================================
