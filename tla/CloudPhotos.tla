------------------------------- MODULE CloudPhotos -------------------------------
(***************************************************************************)
(* The handlers over the stores they share: media_uploads creates and      *)
(* marks upload records, device_tokens registers and removes tokens, and   *)
(* meanwhile DELETE /users erases.  UserDeletion lets any write of the     *)
(* rest of the system come between two of its steps; here the rest of the  *)
(* system is the handlers themselves.  None of them stores objects: the    *)
(* media bucket is empty, and listing it does not fail.  Requests that     *)
(* touch no store (refused, or of a padded id) are left out, and the clock *)
(* stands still.                                                           *)
(***************************************************************************)
EXTENDS UploadRecords

CONSTANTS Platform,     \* as in DeviceTokens, with one token for each media id
          TokenRequest, \* invocations of the two token handlers
          Invocation,   \* invocations of DELETE /users
          DeleteMarkers, PageSize, S3DeleteBatchSize, DynamoBatchWriteSize,
          MaxBatchWriteRetries

VARIABLES tokens,       \* the table of device tokens
          tokenLagging, \* tokens that a query may still miss, or still show
          tokenReq,     \* [TokenRequest -> ...]: requests of device_tokens
          run,          \* [Invocation -> ...]: the handlers of DELETE /users
          newTokens,    \* history: tokenLagging without those removed alone
          owed          \* history: see UserDeletion

Item == [owner : User, key : Media]

TokenHandlers == INSTANCE DeviceTokens
                   WITH LastToken <- LastMedia, Request <- TokenRequest, table <- tokens,
                        lagging <- tokenLagging, req <- tokenReq

\* What DeviceTokens and UserDeletion ask of the constants that UploadRecords lacks.
ASSUME AbsentTokenAssumption == Absent \notin TokenHandlers!Item
ASSUME SizesAssumption ==
  /\ MaxBatchWriteRetries \in Nat /\ PageSize \in Nat \ {0}
  /\ S3DeleteBatchSize \in Nat \ {0} /\ DynamoBatchWriteSize \in Nat \ {0}

-----------------------------------------------------------------------------
(* The stores as UserDeletion sees them.                                   *)

ItemOf(k) == [owner |-> k[1], key |-> k[2]]
KeysOf(items) == {k \in Key : ItemOf(k) \in items}

Records == {ItemOf(k) : k \in {l \in Key : table[l] # Absent}}

Stores == {"S3", "upload_records", "device_tokens"}

Data == [s \in Stores |->
           CASE s = "S3"             -> {}
             [] s = "upload_records" -> Records
             [] s = "device_tokens"  -> {ItemOf(k) : k \in TokenHandlers!Stored}]

Fresh == {<<"upload_records", ItemOf(k)>> : k \in lagging}
           \cup {<<"device_tokens", ItemOf(k)>> : k \in newTokens}

Deletion == INSTANCE UserDeletion
              WITH LastKey <- LastMedia, Entries <- [s \in Stores |-> Item],
                   data <- Data, fresh <- Fresh

allVars == <<vars, tokens, tokenLagging, tokenReq, run, newTokens, owed>>

SystemInit == /\ Init /\ TokenHandlers!TokenInit
              /\ newTokens = {}
              /\ \E u \in User : run = [p \in Invocation |-> Deletion!Idle(u)]
              /\ owed = [p \in Invocation |-> {}]

\* What a write stores anew is owed no longer.
Forgive == owed' = [p \in Invocation |->
                      {e \in owed[p] : e[2] \in Data'[e[1]] => e[2] \in Data[e[1]]}]

-----------------------------------------------------------------------------
\* A request that goes on to its call.
Effective(c) == c.pc # "answered" /\ ~c.padded

\* The environment that has answered takes another request.
NextRequest(r) == /\ req[r].pc = "answered"
                  /\ req' = [req EXCEPT ![r] = IdleCall(@.user, @.content)]
                  /\ UNCHANGED <<table, lagging, now, walk>>

RecordsStep ==
  /\ \/ \E k \in lagging : Replicate(k)
     \/ \E r \in Request : \/ (CreateHandler(r) \/ DeleteHandler(r)) /\ Effective(req'[r])
                           \/ PutItem(r) \/ MarkItem(r) \/ Timeout(r) \/ NextRequest(r)
  /\ UNCHANGED <<tokens, tokenLagging, tokenReq, run, newTokens>>
  /\ Forgive

TokensStep ==
  /\ \/ \E k \in tokenLagging : TokenHandlers!Replicate(k)
     \/ \E r \in TokenRequest : \/ /\ \/ TokenHandlers!RegisterHandler(r)
                                      \/ TokenHandlers!UnregisterHandler(r)
                                   /\ tokenReq'[r].pc # "idle"
                                \/ TokenHandlers!UpdateItem(r) \/ TokenHandlers!DeleteItem(r)
                                \/ TokenHandlers!Timeout(r)
  /\ newTokens' = (newTokens \cap tokenLagging')
                    \cup (TokenHandlers!Stored' \ TokenHandlers!Stored)
  /\ UNCHANGED <<table, lagging, req, walk, run>>
  /\ Forgive

\* The entries of the stage's store that a call has erased.  A removed token may be
\* seen for a while.
Erased(stage, gone) ==
  LET from(s) == IF stage = s THEN gone ELSE {}
      removed == KeysOf(from("device_tokens")) \cap TokenHandlers!Stored
  IN  /\ table' = [k \in Key |-> IF ItemOf(k) \in from("upload_records") THEN Absent ELSE table[k]]
      /\ tokens' = [k \in Key |-> IF k \in removed THEN Absent ELSE tokens[k]]
      /\ tokenLagging' = tokenLagging \cup removed
      /\ UNCHANGED <<lagging, now, req, walk, tokenReq, newTokens>>

DeletionStep ==
  \E p \in Invocation, gone \in SUBSET Item :
    /\ gone \subseteq run[p].batch
    /\ Erased(run[p].stage, gone)
    /\ Deletion!Start(p) \/ Deletion!Timeout(p) \/ Deletion!Step(p)
    /\ "S3" \notin run'[p].failed

SystemNext == RecordsStep \/ TokensStep \/ DeletionStep

SystemSpec == SystemInit /\ [][SystemNext]_allVars

-----------------------------------------------------------------------------
(* Properties.                                                             *)

\* What the handlers do to the stores while DELETE /users runs is no more than
\* UserDeletion supposes of the rest of the system, with the same idea of a write
\* that a query may not see yet: what is shown and proved there holds beside the
\* real handlers.
ImplementsDeletion == Deletion!Spec

\* A 200 of DELETE /users means that what the caller had, and every replica showed,
\* at its start is gone or has been stored anew since, whatever creates, marks,
\* registrations and resent calls came between its pages.
UserErased ==
  \A p \in Invocation : run[p].status = "200" => \A e \in owed[p] : e[2] \notin Data[e[1]]

\* Only POST /media/uploads stores a record: a mark (DELETE /media/uploads) whose
\* record DELETE /users erased before it lands, or before it is sent again, does not
\* bring a remainder of it back.
MarksNeverStore ==
  [][\A k \in Key : table[k] = Absent /\ table'[k] # Absent =>
       /\ ~table'[k].isDeleted
       /\ \E r \in Request : req[r].op = "create" /\ req[r].pc = "calling" /\ KeyOf(req[r]) = k]_allVars
================================================================================
