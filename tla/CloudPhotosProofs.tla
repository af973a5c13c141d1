---------------------------- MODULE CloudPhotosProofs ----------------------------
(***************************************************************************)
(* Proofs about CloudPhotos, for any users, media, requests and sizes:     *)
(* what the handlers do to the stores is what UserDeletion supposes of the *)
(* rest of the system, so what is proved there holds beside them.  The     *)
(* theorems about the token handlers and about DELETE /users are used      *)
(* through instances of the modules that prove them.                       *)
(***************************************************************************)
EXTENDS CloudPhotos, UploadRecordsProofs

TokenProofs == INSTANCE DeviceTokensProofs
                 WITH LastToken <- LastMedia, Request <- TokenRequest, table <- tokens,
                      lagging <- tokenLagging, req <- tokenReq

DeletionProofs == INSTANCE UserDeletionRefinement
                    WITH LastKey <- LastMedia, Entries <- [s \in Stores |-> Item],
                         data <- Data, fresh <- Fresh

-----------------------------------------------------------------------------
(* The two instances of each module are the same.                          *)

\* The types and the stored tokens.
LEMMA SameTokens ==
  /\ TokenHandlers!TokenTypeOK <=> TokenProofs!TokenTypeOK
  /\ TokenHandlers!Stored = TokenProofs!Stored
  /\ TokenHandlers!TokenInit <=> TokenProofs!TokenInit
  /\ TokenHandlers!Time = Time /\ TokenHandlers!Key = Key /\ TokenProofs!Key = Key
  BY DEF TokenHandlers!TokenTypeOK, TokenHandlers!Idle, TokenHandlers!Call,
         TokenHandlers!Key, TokenHandlers!Token, TokenHandlers!Item, TokenHandlers!Time,
         TokenHandlers!Stored, TokenHandlers!TokenInit,
         TokenProofs!TokenTypeOK, TokenProofs!Idle, TokenProofs!Call,
         TokenProofs!Key, TokenProofs!Token, TokenProofs!Item, TokenProofs!Time,
         TokenProofs!Stored, TokenProofs!TokenInit, Key, Media, Time

\* The steps of the token handlers.
LEMMA SameTokenSteps ==
  ASSUME NEW r
  PROVE  /\ TokenHandlers!Replicate(r) <=> TokenProofs!Replicate(r)
         /\ TokenHandlers!RegisterHandler(r) <=> TokenProofs!RegisterHandler(r)
         /\ TokenHandlers!UnregisterHandler(r) <=> TokenProofs!UnregisterHandler(r)
         /\ TokenHandlers!UpdateItem(r) <=> TokenProofs!UpdateItem(r)
         /\ TokenHandlers!DeleteItem(r) <=> TokenProofs!DeleteItem(r)
         /\ TokenHandlers!Timeout(r) <=> TokenProofs!Timeout(r)
<1>1. TokenHandlers!Replicate(r) <=> TokenProofs!Replicate(r)
  BY DEF TokenHandlers!Replicate, TokenProofs!Replicate
<1>2. /\ TokenHandlers!RegisterHandler(r) <=> TokenProofs!RegisterHandler(r)
      /\ TokenHandlers!UnregisterHandler(r) <=> TokenProofs!UnregisterHandler(r)
      /\ TokenHandlers!Timeout(r) <=> TokenProofs!Timeout(r)
  BY DEF TokenHandlers!RegisterHandler, TokenHandlers!UnregisterHandler,
         TokenHandlers!Timeout, TokenHandlers!Refuse, TokenHandlers!Reply,
         TokenHandlers!Token,
         TokenProofs!RegisterHandler, TokenProofs!UnregisterHandler,
         TokenProofs!Timeout, TokenProofs!Refuse, TokenProofs!Reply, TokenProofs!Token
<1>3. TokenHandlers!UpdateItem(r) <=> TokenProofs!UpdateItem(r)
  BY DEF TokenHandlers!UpdateItem, TokenHandlers!Upserted, TokenHandlers!KeyOf,
         TokenHandlers!Stored, TokenHandlers!Key, TokenHandlers!Token,
         TokenHandlers!NoAnswer, TokenHandlers!Reply,
         TokenProofs!UpdateItem, TokenProofs!Upserted, TokenProofs!KeyOf,
         TokenProofs!Stored, TokenProofs!Key, TokenProofs!Token,
         TokenProofs!NoAnswer, TokenProofs!Reply
<1>4. TokenHandlers!DeleteItem(r) <=> TokenProofs!DeleteItem(r)
  BY DEF TokenHandlers!DeleteItem, TokenHandlers!Remove, TokenHandlers!KeyOf,
         TokenHandlers!Stored, TokenHandlers!Key, TokenHandlers!Token,
         TokenHandlers!NoAnswer, TokenHandlers!Reply,
         TokenProofs!DeleteItem, TokenProofs!Remove, TokenProofs!KeyOf,
         TokenProofs!Stored, TokenProofs!Key, TokenProofs!Token,
         TokenProofs!NoAnswer, TokenProofs!Reply
<1> QED
  BY <1>1, <1>2, <1>3, <1>4

\* The stores and entries of UserDeletion are the ones of this module.
LEMMA SameStores ==
  /\ Deletion!Store = Stores /\ Deletion!Item = Item
  /\ Deletion!Tables = {"upload_records", "device_tokens"}
  BY DEF Deletion!Store, Deletion!Tables, Deletion!Item, Stores, Item, Media

\* What DeviceTokens assumes of its constants.
LEMMA TokenAssumptions ==
  /\ TokenProofs!ConstantsAssumption /\ TokenProofs!AbsentAssumption
  BY ConstantsAssumption, AbsentTokenAssumption
     DEF TokenProofs!ConstantsAssumption, TokenProofs!AbsentAssumption, TokenProofs!Item,
         TokenProofs!Time, TokenHandlers!Item, TokenHandlers!Time

-----------------------------------------------------------------------------
(* Types, and what the histories are about.                                *)

SystemTyped == /\ TypeOK
               /\ TokenHandlers!TokenTypeOK
               /\ newTokens \subseteq tokenLagging
               /\ owed \in [Invocation -> SUBSET (Stores \X Item)]

\* A step of the token handlers is one of DeviceTokens.
LEMMA TokensMove == TokensStep => TokenProofs!TokenNext
  BY SameTokenSteps DEF TokensStep, TokenProofs!TokenNext

\* A step of the record handlers is one of UploadRecords, or the next request of an
\* environment, which the stores do not see.
LEMMA RecordsMove ==
  RecordsStep => Next \/ \E r \in Request : NextRequest(r)
  BY DEF RecordsStep, Next

\* What is forgiven is still owed of something stored.
LEMMA ForgiveType ==
  ASSUME owed \in [Invocation -> SUBSET (Stores \X Item)], Forgive
  PROVE  owed' \in [Invocation -> SUBSET (Stores \X Item)]
  BY DEF Forgive

\* What a step of the token handlers does to what is stored and to what a query may
\* miss or still show: a token comes or goes and lags, lags no more, or nothing changes.
LEMMA TokenMoves ==
  ASSUME TokenHandlers!TokenTypeOK, TokensStep
  PROVE  LET old == TokenHandlers!Stored
             new == TokenHandlers!Stored'
         IN  \/ new = old /\ tokenLagging' = tokenLagging
             \/ \E k \in tokenLagging : new = old /\ tokenLagging' = tokenLagging \ {k}
             \/ \E k \in Key \ old : new = old \cup {k} /\ tokenLagging' = tokenLagging \cup {k}
             \/ \E k \in old : new = old \ {k} /\ tokenLagging' = tokenLagging \cup {k}
<1>1. TokenProofs!TokenTypeOK /\ TokenProofs!TokenNext
  BY SameTokens, TokensMove
<1>2. TokenHandlers!Stored' = TokenProofs!Stored'
  BY SameTokens DEF TokenHandlers!Stored, TokenProofs!Stored
<1> QED
  BY <1>1, <1>2, SameTokens, TokenAssumptions, TokenProofs!StoredSteps

\* What DELETE /users owes is of the stores, whoever starts it.
LEMMA DeletionOwes ==
  ASSUME owed \in [Invocation -> SUBSET (Stores \X Item)], NEW p \in Invocation,
         Deletion!Start(p) \/ Deletion!Timeout(p) \/ Deletion!Step(p)
  PROVE  owed' \in [Invocation -> SUBSET (Stores \X Item)]
<1>1. CASE Deletion!Start(p)
  <2>1. PICK u \in User : owed' = [owed EXCEPT ![p] = Deletion!OwnedBy(u) \ Fresh]
    BY <1>1 DEF Deletion!Start
  <2>2. Deletion!OwnedBy(u) \subseteq Stores \X Item
    BY SameStores DEF Deletion!OwnedBy
  <2> QED
    BY <2>1, <2>2
<1>2. CASE Deletion!Timeout(p)
  BY <1>2 DEF Deletion!Timeout
<1>3. CASE Deletion!Step(p)
  BY <1>3 DEF Deletion!Step, Deletion!List, Deletion!ListError, Deletion!FinishStore,
              Deletion!Respond, Deletion!Collect, Deletion!Flush, Deletion!Chunk,
              Deletion!BatchWrite
<1> QED
  BY <1>1, <1>2, <1>3

\* Every step keeps the types.
LEMMA SystemTypedStep == SystemTyped /\ [SystemNext]_allVars => SystemTyped'
<1> SUFFICES ASSUME SystemTyped, [SystemNext]_allVars PROVE SystemTyped'
  OBVIOUS
<1> USE DEF SystemTyped
<1>1. ASSUME TypeOK', UNCHANGED <<tokens, tokenLagging, tokenReq>>
      PROVE  TokenHandlers!TokenTypeOK'
  BY <1>1 DEF TypeOK, Time, TokenHandlers!TokenTypeOK, TokenHandlers!Time
<1>2. CASE RecordsStep
  <2>1. TypeOK'
    <3>1. CASE Next
      BY <3>1, TypeStep
    <3>2. ASSUME NEW r \in Request, NextRequest(r) PROVE TypeOK'
      <4>1. req[r].user \in User /\ req[r].content \in Content
        BY DEF TypeOK, Call
      <4>2. IdleCall(req[r].user, req[r].content) \in Call
        BY <4>1, ConstantsAssumption DEF IdleCall, Call, Path, Media, Time
      <4>3. req' = [req EXCEPT ![r] = IdleCall(req[r].user, req[r].content)]
        BY <3>2 DEF NextRequest
      <4> QED
        BY <3>2, <4>2, <4>3 DEF NextRequest, TypeOK
    <3> QED
      BY <1>2, <3>1, <3>2, RecordsMove
  <2> QED
    BY <1>1, <1>2, <2>1, ForgiveType DEF RecordsStep
<1>3. CASE TokensStep
  <2>1. TokenProofs!TokenTypeOK'
    BY <1>3, TokensMove, SameTokens, TokenAssumptions, TokenProofs!TokenTypeStep
  <2>2. TokenHandlers!TokenTypeOK'
    BY <2>1, SameTokens, PTL
  <2>3. now' \in Time
    BY <2>2, SameTokens DEF TokenHandlers!TokenTypeOK
  <2>4. TypeOK'
    BY <1>3, <2>3 DEF TokensStep, TypeOK
  <2>5. newTokens' \subseteq tokenLagging'
    <3>1. TokenHandlers!Stored' \ TokenHandlers!Stored \subseteq tokenLagging'
      BY <1>3, TokenMoves
    <3> QED
      BY <1>3, <3>1 DEF TokensStep
  <2>6. owed' \in [Invocation -> SUBSET (Stores \X Item)]
    BY <1>3, ForgiveType DEF TokensStep
  <2> QED
    BY <2>2, <2>4, <2>5, <2>6
<1>4. CASE DeletionStep
  <2>1. PICK p \in Invocation, gone \in SUBSET Item :
          /\ Erased(run[p].stage, gone)
          /\ Deletion!Start(p) \/ Deletion!Timeout(p) \/ Deletion!Step(p)
    BY <1>4 DEF DeletionStep
  <2>2. /\ table' \in [Key -> Record \cup {Absent}]
        /\ UNCHANGED <<lagging, now, req, walk, tokenReq, newTokens>>
    BY <2>1 DEF Erased, TypeOK
  <2>3. PICK removed : /\ removed \subseteq TokenHandlers!Stored
                       /\ tokens' = [k \in Key |-> IF k \in removed THEN Absent ELSE tokens[k]]
                       /\ tokenLagging' = tokenLagging \cup removed
    BY <2>1 DEF Erased
  <2>4. TokenHandlers!TokenTypeOK'
    BY <2>2, <2>3, SameTokens DEF TokenHandlers!TokenTypeOK, TokenHandlers!Stored
  <2>5. TypeOK' /\ newTokens' \subseteq tokenLagging'
    BY <2>2, <2>3 DEF TypeOK
  <2>6. owed' \in [Invocation -> SUBSET (Stores \X Item)]
    BY <2>1, DeletionOwes
  <2> QED
    BY <2>4, <2>5, <2>6
<1>5. CASE UNCHANGED allVars
  <2>1. TypeOK'
    BY <1>5 DEF allVars, vars, TypeOK
  <2>2. TokenHandlers!TokenTypeOK'
    BY <1>1, <1>5, <2>1 DEF allVars
  <2> QED
    BY <1>5, <2>1, <2>2 DEF allVars
<1> QED
  BY <1>2, <1>3, <1>4, <1>5 DEF SystemNext

\* Before any request the types hold.
LEMMA SystemTypedInit == SystemInit => SystemTyped
<1> SUFFICES ASSUME SystemInit PROVE SystemTyped
  OBVIOUS
<1>1. TypeOK
  BY TypeInit DEF SystemInit
<1>2. TokenHandlers!TokenTypeOK
  BY SameTokens, TokenAssumptions, TokenProofs!TokenTypeInit DEF SystemInit
<1> QED
  BY <1>1, <1>2 DEF SystemInit, SystemTyped

\* Every variable keeps its type and a token that a query may miss is one that lags.
THEOREM SystemTypeCorrect == SystemSpec => []SystemTyped
  BY SystemTypedInit, SystemTypedStep, PTL DEF SystemSpec

-----------------------------------------------------------------------------
(* The stores as UserDeletion sees them, and its steps.                    *)

TokenItems == {ItemOf(k) : k \in TokenHandlers!Stored}

\* Keys and entries correspond.
LEMMA ItemsOfKeys ==
  /\ \A k \in Key : ItemOf(k) \in Item
  /\ \A k, l \in Key : ItemOf(k) = ItemOf(l) => k = l
  BY DEF ItemOf, Item, Key

\* What each store holds.
LEMMA DataShape ==
  /\ Data = [s \in Stores |-> CASE s = "S3"             -> {}
                                [] s = "upload_records" -> {ItemOf(k) : k \in Held}
                                [] s = "device_tokens"  -> TokenItems]
  /\ Data \in [Stores -> SUBSET Item]
<1>1. Records = {ItemOf(k) : k \in Held}
  BY DEF Records, Held
<1>2. Records \subseteq Item /\ TokenItems \subseteq Item
  BY <1>1, ItemsOfKeys, SameTokens DEF Held, TokenItems, TokenHandlers!Stored
<1> QED
  BY <1>1, <1>2 DEF Data, Stores, TokenItems

\* The stores change by what becomes of the records and of the tokens.
LEMMA DataMoves ==
  /\ Held' = Held /\ TokenHandlers!Stored' = TokenHandlers!Stored => Data' = Data
  /\ TokenHandlers!Stored' = TokenHandlers!Stored =>
       Data' = [Data EXCEPT !["upload_records"] = {ItemOf(k) : k \in Held'}]
  /\ Held' = Held =>
       Data' = [Data EXCEPT !["device_tokens"] = {ItemOf(k) : k \in TokenHandlers!Stored'}]
  BY DataShape DEF Stores, TokenItems, Data, Records, Held

\* A step that the deletions and the stores do not see leaves what is owed.
LEMMA StutterRefines ==
  ASSUME SystemTyped, Forgive, Data' = Data, Fresh' = Fresh, UNCHANGED run
  PROVE  UNCHANGED Deletion!vars
  BY DEF SystemTyped, Forgive, Deletion!vars

\* A write that stores an entry anew.
LEMMA PutRefines ==
  ASSUME SystemTyped, Forgive, NEW s \in {"upload_records", "device_tokens"},
         NEW i \in Item \ Data[s], Data' = [Data EXCEPT ![s] = @ \cup {i}],
         Fresh' = Fresh \cup {<<s, i>>}, UNCHANGED run
  PROVE  Deletion!Next
<1>1. Data \in [Stores -> SUBSET Item] /\ s \in Stores
  BY DataShape DEF Stores
<1>2. ASSUME NEW p \in Invocation
      PROVE  {e \in owed[p] : e[2] \in Data'[e[1]] => e[2] \in Data[e[1]]}
               = owed[p] \ {<<s, i>>}
  BY <1>1 DEF SystemTyped
<1>3. owed' = [p \in Invocation |-> owed[p] \ {<<s, i>>}]
  BY <1>2 DEF Forgive
<1>4. Deletion!Put(s, i)
  BY <1>1, <1>3, SameStores DEF Deletion!Put
<1> QED
  BY <1>1, <1>4, SameStores DEF Deletion!Next

\* A removal.
LEMMA WithdrawRefines ==
  ASSUME SystemTyped, Forgive, NEW i \in Data["device_tokens"],
         Data' = [Data EXCEPT !["device_tokens"] = @ \ {i}],
         Fresh' = Fresh, UNCHANGED run
  PROVE  Deletion!Next
<1>1. Data \in [Stores -> SUBSET Item] /\ i \in Item
  BY DataShape DEF Stores
<1>2. ASSUME NEW p \in Invocation
      PROVE  {e \in owed[p] : e[2] \in Data'[e[1]] => e[2] \in Data[e[1]]} = owed[p]
  BY <1>1 DEF SystemTyped
<1>3. owed' = owed
  BY <1>2 DEF Forgive, SystemTyped
<1>4. Deletion!Withdraw("device_tokens", i)
  BY <1>3 DEF Deletion!Withdraw
<1> QED
  BY <1>1, <1>4, SameStores DEF Deletion!Next

\* A write reaches every replica.
LEMMA PropagateRefines ==
  ASSUME SystemTyped, Forgive, NEW e \in Fresh, Fresh' = Fresh \ {e}, Data' = Data,
         UNCHANGED run
  PROVE  Deletion!Next
<1>1. owed' = owed
  BY DEF Forgive, SystemTyped
<1>2. Deletion!Propagate(e)
  BY <1>1 DEF Deletion!Propagate
<1> QED
  BY <1>2 DEF Deletion!Next

\* A step of the record handlers creates one record, shows one, or is not seen.
LEMMA RecordsRefine ==
  ASSUME SystemTyped, RecordsStep
  PROVE  Deletion!Next \/ UNCHANGED Deletion!vars
<1>1. /\ Forgive /\ UNCHANGED run /\ TypeOK
      /\ UNCHANGED <<tokens, newTokens>>
  BY DEF RecordsStep, SystemTyped
<1>2. TokenHandlers!Stored' = TokenHandlers!Stored
  BY <1>1 DEF TokenHandlers!Stored
<1>3. \/ Held' = Held /\ lagging' = lagging
      \/ \E k \in lagging : Held' = Held /\ lagging' = lagging \ {k}
      \/ \E k \in Key \ Held : Held' = Held \cup {k} /\ lagging' = lagging \cup {k}
  <2>1. CASE Next
    BY <1>1, <2>1, HeldSteps
  <2>2. CASE \E r \in Request : NextRequest(r)
    BY <2>2 DEF NextRequest, Held
  <2> QED
    BY <2>1, <2>2, RecordsMove
<1>4. CASE Held' = Held /\ lagging' = lagging
  BY <1>1, <1>2, <1>4, DataMoves, StutterRefines DEF Fresh
<1>5. ASSUME NEW k \in lagging, Held' = Held, lagging' = lagging \ {k}
      PROVE  Deletion!Next
  <2>1. <<"upload_records", ItemOf(k)>> \in Fresh
    BY DEF Fresh
  <2>2. Fresh' = Fresh \ {<<"upload_records", ItemOf(k)>>}
    BY <1>1, <1>5, ItemsOfKeys DEF Fresh, TypeOK
  <2>3. Data' = Data
    BY <1>2, <1>5, DataMoves
  <2> QED
    BY <1>1, <2>1, <2>2, <2>3, PropagateRefines
<1>6. ASSUME NEW k \in Key \ Held, Held' = Held \cup {k}, lagging' = lagging \cup {k}
      PROVE  Deletion!Next
  <2>1. Data["upload_records"] = {ItemOf(l) : l \in Held} /\ ItemOf(k) \in Item
    BY DataShape, ItemsOfKeys DEF Stores
  <2>2. ItemOf(k) \notin Data["upload_records"]
    BY <2>1, ItemsOfKeys DEF Held
  <2>3. Data' = [Data EXCEPT !["upload_records"] = @ \cup {ItemOf(k)}]
    <3>1. {ItemOf(l) : l \in Held'} = Data["upload_records"] \cup {ItemOf(k)}
      BY <1>6, <2>1
    <3> QED
      BY <1>2, <3>1, DataMoves
  <2>4. Fresh' = Fresh \cup {<<"upload_records", ItemOf(k)>>}
    BY <1>1, <1>6 DEF Fresh
  <2> QED
    BY <1>1, <2>1, <2>2, <2>3, <2>4, PutRefines
<1> QED
  BY <1>3, <1>4, <1>5, <1>6

\* A step of the token handlers stores one token, shows one, removes one, or is not seen.
LEMMA TokensRefine ==
  ASSUME SystemTyped, TokensStep
  PROVE  Deletion!Next \/ UNCHANGED Deletion!vars
<1> DEFINE old == TokenHandlers!Stored
           new == TokenHandlers!Stored'
<1>1. /\ Forgive /\ UNCHANGED run /\ UNCHANGED <<table, lagging>>
      /\ newTokens' = (newTokens \cap tokenLagging') \cup (new \ old)
      /\ newTokens \subseteq tokenLagging /\ tokenLagging \subseteq Key
      /\ TokenHandlers!TokenTypeOK
  BY SameTokens DEF TokensStep, SystemTyped, TokenHandlers!TokenTypeOK
<1>2. Held' = Held /\ old \subseteq Key
  BY <1>1, SameTokens DEF Held, TokenHandlers!Stored
<1>3. \/ new = old /\ tokenLagging' = tokenLagging
      \/ \E k \in tokenLagging : new = old /\ tokenLagging' = tokenLagging \ {k}
      \/ \E k \in Key \ old : new = old \cup {k} /\ tokenLagging' = tokenLagging \cup {k}
      \/ \E k \in old : new = old \ {k} /\ tokenLagging' = tokenLagging \cup {k}
  BY <1>1, TokenMoves
<1>4. new = old => Data' = Data
  BY <1>2, DataMoves
<1>5. Data' = [Data EXCEPT !["device_tokens"] = {ItemOf(l) : l \in new}]
  BY <1>2, DataMoves
<1>6. Data["device_tokens"] = {ItemOf(l) : l \in old}
  BY DataShape DEF Stores, TokenItems
<1>7. newTokens' = newTokens => Fresh' = Fresh
  BY <1>1 DEF Fresh
<1> HIDE DEF old, new
<1>8. CASE new = old /\ tokenLagging' = tokenLagging
  <2>1. newTokens' = newTokens
    BY <1>1, <1>8
  <2> QED
    BY <1>1, <1>4, <1>7, <1>8, <2>1, StutterRefines
<1>9. ASSUME NEW k \in tokenLagging, new = old, tokenLagging' = tokenLagging \ {k}
      PROVE  Deletion!Next \/ UNCHANGED Deletion!vars
  <2>1. newTokens' = newTokens \ {k} /\ newTokens \subseteq Key /\ k \in Key
    BY <1>1, <1>9
  <2>2. CASE k \in newTokens
    <3>1. <<"device_tokens", ItemOf(k)>> \in Fresh
      BY <2>2 DEF Fresh
    <3>2. Fresh' = Fresh \ {<<"device_tokens", ItemOf(k)>>}
      BY <1>1, <2>1, ItemsOfKeys DEF Fresh
    <3> QED
      BY <1>1, <1>4, <1>9, <3>1, <3>2, PropagateRefines
  <2>3. CASE k \notin newTokens
    BY <1>1, <1>4, <1>7, <1>9, <2>1, <2>3, StutterRefines
  <2> QED
    BY <2>2, <2>3
<1>10. ASSUME NEW k \in Key \ old, new = old \cup {k}, tokenLagging' = tokenLagging \cup {k}
       PROVE  Deletion!Next
  <2>1. newTokens' = newTokens \cup {k}
    BY <1>1, <1>10
  <2>2. Fresh' = Fresh \cup {<<"device_tokens", ItemOf(k)>>}
    BY <1>1, <2>1 DEF Fresh
  <2>3. ItemOf(k) \in Item \ Data["device_tokens"]
    BY <1>2, <1>6, ItemsOfKeys
  <2>4. {ItemOf(l) : l \in new} = Data["device_tokens"] \cup {ItemOf(k)}
    BY <1>6, <1>10
  <2>5. Data' = [Data EXCEPT !["device_tokens"] = @ \cup {ItemOf(k)}]
    BY <1>5, <2>4
  <2> QED
    BY <1>1, <2>2, <2>3, <2>5, PutRefines
<1>11. ASSUME NEW k \in old, new = old \ {k}, tokenLagging' = tokenLagging \cup {k}
       PROVE  Deletion!Next
  <2>1. newTokens' = newTokens
    BY <1>1, <1>11
  <2>2. ItemOf(k) \in Data["device_tokens"]
    BY <1>6
  <2>3. {ItemOf(l) : l \in new} = Data["device_tokens"] \ {ItemOf(k)}
    BY <1>2, <1>6, <1>11, ItemsOfKeys
  <2>4. Data' = [Data EXCEPT !["device_tokens"] = @ \ {ItemOf(k)}]
    BY <1>5, <2>3
  <2> QED
    BY <1>1, <1>7, <2>1, <2>2, <2>4, WithdrawRefines
<1> QED
  BY <1>3, <1>8, <1>9, <1>10, <1>11

\* Whatever the handlers do next, DELETE /users takes a step of its own, the rest of the
\* system does something that UserDeletion supposes of it, or nothing is seen.
LEMMA SystemRefines ==
  SystemTyped /\ [SystemNext]_allVars => [Deletion!Next]_(Deletion!vars)
<1> SUFFICES ASSUME SystemTyped, [SystemNext]_allVars
             PROVE  Deletion!Next \/ UNCHANGED Deletion!vars
  OBVIOUS
<1>1. CASE RecordsStep
  BY <1>1, RecordsRefine
<1>2. CASE TokensStep
  BY <1>2, TokensRefine
<1>3. CASE DeletionStep
  BY <1>3 DEF DeletionStep, Deletion!Next
<1>4. CASE UNCHANGED allVars
  <2>1. /\ UNCHANGED <<table, lagging, tokens, newTokens, run, owed>>
    BY <1>4 DEF allVars, vars
  <2>2. Held' = Held /\ TokenHandlers!Stored' = TokenHandlers!Stored /\ Fresh' = Fresh
    BY <2>1 DEF Held, TokenHandlers!Stored, Fresh
  <2> QED
    BY <2>1, <2>2, DataMoves DEF Deletion!vars
<1> QED
  BY <1>1, <1>2, <1>3, <1>4 DEF SystemNext

\* Before any request the stores are empty and no deletion has begun.
LEMMA SystemInitRefines == SystemInit => Deletion!Init
<1> SUFFICES ASSUME SystemInit PROVE Deletion!Init
  OBVIOUS
<1>1. Held = {} /\ TokenHandlers!Stored = {} /\ Fresh = {}
  BY DEF SystemInit, Init, Held, TokenHandlers!TokenInit, TokenHandlers!Stored,
         TokenHandlers!Key, TokenHandlers!Token, Key, Media, Fresh
<1>2. Data = [s \in Deletion!Store |-> {}]
  BY <1>1, DataShape, SameStores DEF Stores, TokenItems
<1> QED
  BY <1>1, <1>2 DEF SystemInit, Deletion!Init

\* What the handlers do to the stores while DELETE /users runs is no more than
\* UserDeletion supposes of the rest of the system, for any number of requests.
THEOREM HandlersRefine == SystemSpec => ImplementsDeletion
  BY SystemInitRefines, SystemRefines, SystemTypeCorrect, PTL
     DEF SystemSpec, ImplementsDeletion, Deletion!Spec

-----------------------------------------------------------------------------
(* What is proved of DELETE /users alone holds beside the handlers.        *)

\* The steps of the two instances of UserDeletion are the same.
LEMMA SameDeletionSteps ==
  ASSUME NEW p
  PROVE  /\ Deletion!Start(p) <=> DeletionProofs!Start(p)
         /\ Deletion!Refuse(p) <=> DeletionProofs!Refuse(p)
         /\ Deletion!Timeout(p) <=> DeletionProofs!Timeout(p)
         /\ Deletion!Step(p) <=> DeletionProofs!Step(p)
<1>1. /\ Deletion!Start(p) <=> DeletionProofs!Start(p)
      /\ Deletion!Refuse(p) <=> DeletionProofs!Refuse(p)
      /\ Deletion!Timeout(p) <=> DeletionProofs!Timeout(p)
  BY DEF Deletion!Start, Deletion!Refuse, Deletion!Timeout, Deletion!Idle,
         Deletion!Become, Deletion!OwnedBy, Deletion!Store, Deletion!Tables,
         Deletion!Item, DeletionProofs!Start, DeletionProofs!Refuse,
         DeletionProofs!Timeout, DeletionProofs!Idle, DeletionProofs!Become,
         DeletionProofs!OwnedBy, DeletionProofs!Store, DeletionProofs!Tables,
         DeletionProofs!Item
<1>2. /\ Deletion!List(p) <=> DeletionProofs!List(p)
      /\ Deletion!ListError(p) <=> DeletionProofs!ListError(p)
  BY DEF Deletion!List, Deletion!ListError, Deletion!Active, Deletion!WantsPage,
         Deletion!ListAfter, Deletion!Listed, Deletion!EndOfList, Deletion!Cardinality,
         Deletion!Become, Deletion!Fail, Deletion!Proceed, Deletion!Idle,
         Deletion!After, Deletion!Store, Deletion!Tables, DeletionProofs!List,
         DeletionProofs!ListError, DeletionProofs!Active, DeletionProofs!WantsPage,
         DeletionProofs!ListAfter, DeletionProofs!Listed, DeletionProofs!EndOfList,
         DeletionProofs!Cardinality, DeletionProofs!Become, DeletionProofs!Fail,
         DeletionProofs!Proceed, DeletionProofs!Idle, DeletionProofs!After,
         DeletionProofs!Store, DeletionProofs!Tables
<1>3. /\ Deletion!FinishStore(p) <=> DeletionProofs!FinishStore(p)
      /\ Deletion!Respond(p) <=> DeletionProofs!Respond(p)
  BY DEF Deletion!FinishStore, Deletion!Respond, Deletion!Active, Deletion!EndOfList,
         Deletion!Become, Deletion!Proceed, Deletion!Idle, Deletion!After,
         Deletion!Store, Deletion!Tables, DeletionProofs!FinishStore,
         DeletionProofs!Respond, DeletionProofs!Active, DeletionProofs!EndOfList,
         DeletionProofs!Become, DeletionProofs!Proceed, DeletionProofs!Idle,
         DeletionProofs!After, DeletionProofs!Store, DeletionProofs!Tables
<1>4. /\ Deletion!Collect(p) <=> DeletionProofs!Collect(p)
      /\ Deletion!Flush(p) <=> DeletionProofs!Flush(p)
  BY DEF Deletion!Collect, Deletion!Flush, Deletion!Active, Deletion!Precedes,
         Deletion!Become, Deletion!FlushDue, Deletion!Cardinality, Deletion!EndOfList,
         Deletion!Fail, Deletion!Proceed, Deletion!Idle, Deletion!After,
         Deletion!Store, Deletion!Tables, DeletionProofs!Collect, DeletionProofs!Flush,
         DeletionProofs!Active, DeletionProofs!Precedes, DeletionProofs!Become,
         DeletionProofs!FlushDue, DeletionProofs!Cardinality, DeletionProofs!EndOfList,
         DeletionProofs!Fail, DeletionProofs!Proceed, DeletionProofs!Idle,
         DeletionProofs!After, DeletionProofs!Store, DeletionProofs!Tables
<1>5. /\ Deletion!Chunk(p) <=> DeletionProofs!Chunk(p)
      /\ Deletion!BatchWrite(p) <=> DeletionProofs!BatchWrite(p)
  BY DEF Deletion!Chunk, Deletion!BatchWrite, Deletion!Active, Deletion!Cardinality,
         Deletion!Become, Deletion!Fail, Deletion!Proceed, Deletion!Idle,
         Deletion!After, Deletion!Store, Deletion!Tables, DeletionProofs!Chunk,
         DeletionProofs!BatchWrite, DeletionProofs!Active, DeletionProofs!Cardinality,
         DeletionProofs!Become, DeletionProofs!Fail, DeletionProofs!Proceed,
         DeletionProofs!Idle, DeletionProofs!After, DeletionProofs!Store,
         DeletionProofs!Tables
<1> QED
  BY <1>1, <1>2, <1>3, <1>4, <1>5 DEF Deletion!Step, DeletionProofs!Step

\* So are the specifications.
LEMMA SameDeletion ==
  /\ Deletion!Init <=> DeletionProofs!Init
  /\ [Deletion!Next]_(Deletion!vars) <=> [DeletionProofs!Next]_(DeletionProofs!vars)
<1>1. Deletion!Init <=> DeletionProofs!Init
  BY DEF Deletion!Init, Deletion!Store, Deletion!Tables, Deletion!Idle,
         DeletionProofs!Init, DeletionProofs!Store, DeletionProofs!Tables,
         DeletionProofs!Idle
<1>2. Deletion!vars = DeletionProofs!vars
  BY DEF Deletion!vars, DeletionProofs!vars
<1>3. UNCHANGED Deletion!vars <=> UNCHANGED DeletionProofs!vars
  BY DEF Deletion!vars, DeletionProofs!vars
<1>4. ASSUME NEW s, NEW i
      PROVE  /\ Deletion!Put(s, i) <=> DeletionProofs!Put(s, i)
             /\ Deletion!Withdraw(s, i) <=> DeletionProofs!Withdraw(s, i)
             /\ Deletion!Propagate(i) <=> DeletionProofs!Propagate(i)
  BY DEF Deletion!Put, Deletion!Withdraw, Deletion!Propagate, Deletion!Tables,
         DeletionProofs!Put, DeletionProofs!Withdraw, DeletionProofs!Propagate,
         DeletionProofs!Tables
<1>5. /\ Deletion!Store = DeletionProofs!Store
      /\ Deletion!Item = DeletionProofs!Item
  BY DEF Deletion!Store, Deletion!Tables, Deletion!Item,
         DeletionProofs!Store, DeletionProofs!Tables, DeletionProofs!Item
<1>6. Deletion!Next <=> DeletionProofs!Next
  BY <1>4, <1>5, SameDeletionSteps DEF Deletion!Next, DeletionProofs!Next
<1> QED
  BY <1>1, <1>3, <1>6

\* What UserDeletion assumes of its constants.
LEMMA DeletionAssumptions ==
  DeletionProofs!BoundsAssumption /\ DeletionProofs!EntriesAssumption
<1>1. [s \in Stores |-> Item] \in [DeletionProofs!Store -> SUBSET DeletionProofs!Item]
  BY DEF DeletionProofs!Store, DeletionProofs!Tables, DeletionProofs!Item, Stores, Item, Media
<1> QED
  BY <1>1, ConstantsAssumption, SizesAssumption
     DEF DeletionProofs!BoundsAssumption, DeletionProofs!EntriesAssumption

\* The system implements UserDeletion in the sense of the proofs about it.
LEMMA SystemDeletes == SystemSpec => DeletionProofs!Spec
  BY HandlersRefine, SameDeletion, PTL
     DEF ImplementsDeletion, Deletion!Spec, DeletionProofs!Spec

\* Beside the handlers that create, mark, register and resend, a deletion that answers
\* has left nothing it owes but in the stores it names (delete_user.handler).
THEOREM ErasureBeside == SystemSpec => []DeletionProofs!NothingOwedSurvives
<1>1. DeletionProofs!Spec => []DeletionProofs!NothingOwedSurvives
  BY DeletionAssumptions, DeletionProofs!ErasureComplete
<1> QED
  BY <1>1, SystemDeletes, PTL

\* A 200 of DELETE /users means that what the caller had is gone or stored anew.
THEOREM UserErasedBeside == SystemSpec => []UserErased
<1>1. DeletionProofs!NothingOwedSurvives => UserErased
  BY DEF DeletionProofs!NothingOwedSurvives, DeletionProofs!Answered, UserErased
<1> QED
  BY <1>1, ErasureBeside, PTL

\* The whole system keeps the contract of DELETE /users: the handlers beside it store and
\* withdraw, and a deletion erases its caller's entries and answers for what it owes.
THEOREM SystemKeepsContract == SystemSpec => DeletionProofs!ImplementsContract
<1>1. DeletionProofs!Spec => DeletionProofs!ImplementsContract
  BY DeletionAssumptions, DeletionProofs!DeletionRefinesContract
<1> QED
  BY <1>1, SystemDeletes, PTL

\* Only a POST /media/uploads under way stores a record under a key that has none; a mark
\* that lands late, or again, after an erasure does not.
THEOREM MarksStoreNothing == SystemSpec => MarksNeverStore
<1>1. SystemTyped /\ [SystemNext]_allVars =>
        [\A k \in Key : table[k] = Absent /\ table'[k] # Absent =>
           /\ ~table'[k].isDeleted
           /\ \E r \in Request :
                req[r].op = "create" /\ req[r].pc = "calling" /\ KeyOf(req[r]) = k]_allVars
  <2> SUFFICES ASSUME SystemTyped, SystemNext, NEW k \in Key,
                      table[k] = Absent, table'[k] # Absent
               PROVE  /\ ~table'[k].isDeleted
                      /\ \E r \in Request :
                           req[r].op = "create" /\ req[r].pc = "calling" /\ KeyOf(req[r]) = k
    OBVIOUS
  <2>1. table \in [Key -> Record \cup {Absent}]
    BY DEF SystemTyped, TypeOK
  <2>2. \E r \in Request : Creates(r) \/ Marks(r)
    <3>1. CASE RecordsStep
      <4>1. CASE Next
        BY <4>1, TableSteps
      <4>2. CASE \E r \in Request : NextRequest(r)
        BY <4>2 DEF NextRequest
      <4> QED
        BY <3>1, <4>1, <4>2, RecordsMove
    <3>2. CASE TokensStep
      BY <3>2 DEF TokensStep
    <3>3. CASE DeletionStep
      BY <3>3 DEF DeletionStep, Erased
    <3> QED
      BY <3>1, <3>2, <3>3 DEF SystemNext
  <2>3. PICK r \in Request : Creates(r) \/ Marks(r)
    BY <2>2
  <2>4. KeyOf(req[r]) = k /\ Creates(r)
    BY <2>1, <2>3 DEF Creates, Marks
  <2>5. table'[k] = NewRecord(req[r])
    BY <2>1, <2>4 DEF Creates
  <2> QED
    BY <2>4, <2>5 DEF Creates, NewRecord
<1> QED
  BY <1>1, SystemTypeCorrect, PTL DEF SystemSpec, MarksNeverStore
================================================================================
