--------------------------- MODULE UploadRecordsProofs ---------------------------
(***************************************************************************)
(* Proofs about UploadRecords, for any users, records, requests, attempts  *)
(* and clocks: the types; that a stored record keeps what it was created   *)
(* with; that answers stay true and paths stay below their user's prefix;  *)
(* that the pages of a walk do not overlap and leave nothing out.          *)
(***************************************************************************)
EXTENDS UploadRecords, FiniteSetTheorems, WellFoundedInduction, TLAPS

-----------------------------------------------------------------------------
(* Type correctness.                                                       *)

\* A request's answer, or its next attempt, is a state of the request.
LEMMA CallTypes ==
  ASSUME NEW c \in Call, NEW a \in {"200", "201", "400", "403", "404", "500", "504"},
         NEW o \in {"create", "delete"}
  PROVE  /\ [c EXCEPT !.pc = "answered", !.answer = a] \in Call
         /\ [c EXCEPT !.op = o, !.pc = "answered", !.answer = a] \in Call
         /\ c.attempt < MaxAttempts => [c EXCEPT !.attempt = @ + 1] \in Call
<1>1. [c EXCEPT !.pc = "answered", !.answer = a] \in Call
  BY Zenon DEF Call
<1>2. [c EXCEPT !.op = o, !.pc = "answered", !.answer = a] \in Call
  BY Zenon DEF Call
<1>3. ASSUME c.attempt < MaxAttempts PROVE [c EXCEPT !.attempt = @ + 1] \in Call
  <2>1. c.attempt + 1 \in 1 .. MaxAttempts
    BY <1>3, ConstantsAssumption DEF Call
  <2> QED
    BY <2>1, Zenon DEF Call
<1> QED
  BY <1>1, <1>2, <1>3

\* The steps that answer a request or send its call again keep its type.
LEMMA ReplyTypes ==
  ASSUME TypeOK, NEW r \in Request, NEW a \in {"200", "201", "400", "403", "404", "500", "504"},
         Reply(r, a) \/ NoAnswer(r)
  PROVE  req' \in [Request -> Call]
<1>1. ASSUME NEW b \in {"200", "201", "400", "403", "404", "500", "504"}, Reply(r, b)
      PROVE  req' \in [Request -> Call]
  <2>1. req[r] \in Call
    BY DEF TypeOK
  <2>2. [req[r] EXCEPT !.pc = "answered", !.answer = b] \in Call
    BY <2>1, CallTypes
  <2>3. req' = [req EXCEPT ![r] = [req[r] EXCEPT !.pc = "answered", !.answer = b]]
    BY <1>1 DEF Reply, TypeOK
  <2> QED
    BY <2>2, <2>3 DEF TypeOK
<1>2. CASE Reply(r, a)
  BY <1>1, <1>2
<1>3. CASE NoAnswer(r)
  <2>1. CASE Reply(r, "500")
    BY <1>1, <2>1
  <2>2. CASE req[r].attempt < MaxAttempts /\ req' = [req EXCEPT ![r].attempt = @ + 1]
    <3>1. req[r] \in Call
      BY DEF TypeOK
    <3>2. [req[r] EXCEPT !.attempt = @ + 1] \in Call
      BY <2>2, <3>1, CallTypes
    <3>3. req' = [req EXCEPT ![r] = [req[r] EXCEPT !.attempt = @ + 1]]
      BY <2>2 DEF TypeOK
    <3> QED
      BY <3>2, <3>3 DEF TypeOK
  <2> QED
    BY <1>3, <2>1, <2>2 DEF NoAnswer
<1> QED
  BY <1>2, <1>3

\* A record that is marked deleted is still a record, with all but the mark and the
\* time of the update as it was.
LEMMA MarkedRecord ==
  ASSUME NEW x \in Record, NEW t \in Time
  PROVE  /\ [x EXCEPT !.isDeleted = TRUE, !.updatedAt = t] \in Record
         /\ [x EXCEPT !.isDeleted = TRUE, !.updatedAt = t].path = x.path
         /\ [x EXCEPT !.isDeleted = TRUE, !.updatedAt = t].content = x.content
         /\ [x EXCEPT !.isDeleted = TRUE, !.updatedAt = t].uploadedAt = x.uploadedAt
         /\ [x EXCEPT !.isDeleted = TRUE, !.updatedAt = t].isDeleted
  BY Zenon DEF Record

\* What a request asks for is a key, and what it creates is a record.
LEMMA CallMakes ==
  ASSUME NEW c \in Call
  PROVE  KeyOf(c) \in Key /\ NewRecord(c) \in Record /\ c.time \in Time
<1>1. 0 \in Time
  BY ConstantsAssumption DEF Time
<1> QED
  BY <1>1 DEF Call, KeyOf, NewRecord, Record, Key

\* A client that receives a page, begins or fails has the variables of a walk.
LEMMA WalkTypes ==
  ASSUME TypeOK, NEW w \in Walker, NEW u \in User,
         NEW status \in {"idle", "running", "done", "failed"}, NEW c \in 0 .. LastMedia,
         NEW x \in SUBSET Key, NEW y \in SUBSET Key, NEW z \in SUBSET Key,
         walk' = [walk EXCEPT ![w] = [user |-> u, status |-> status, cursor |-> c,
                                      page |-> x, got |-> y, stable |-> z]]
  PROVE  walk' \in [Walker -> Walk]
  BY DEF TypeOK, Walk

\* The state of a walk is well typed.
LEMMA WalkParts ==
  ASSUME TypeOK, NEW w \in Walker
  PROVE  /\ walk[w].user \in User /\ walk[w].cursor \in 0 .. LastMedia
         /\ walk[w].page \in SUBSET Key /\ walk[w].got \in SUBSET Key
         /\ walk[w].stable \in SUBSET Key /\ walk[w].got \cup walk[w].page \in SUBSET Key
  BY DEF TypeOK, Walk

\* Every step keeps the types, whatever the answers, retries and pages.
LEMMA TypeStep == TypeOK /\ [Next]_vars => TypeOK'
<1> SUFFICES ASSUME TypeOK, [Next]_vars PROVE TypeOK'
  OBVIOUS
<1>1. CASE Tick
  BY <1>1, ConstantsAssumption DEF Tick, TypeOK, Time
<1>2. ASSUME NEW k \in lagging, Replicate(k) PROVE TypeOK'
  BY <1>2 DEF Replicate, TypeOK
<1>3. ASSUME NEW r \in Request, NEW o \in {"create", "delete"}, Refuse(r, o, {"400", "403"})
      PROVE  req' \in [Request -> Call]
  <2>1. PICK a \in {"400", "403"} :
          req' = [req EXCEPT ![r].op = o, ![r].pc = "answered", ![r].answer = a]
    BY <1>3 DEF Refuse
  <2>2. req[r] \in Call
    BY DEF TypeOK
  <2>3. [req[r] EXCEPT !.op = o, !.pc = "answered", !.answer = a] \in Call
    BY <2>2, CallTypes
  <2>4. req' = [req EXCEPT ![r] = [req[r] EXCEPT !.op = o, !.pc = "answered", !.answer = a]]
    BY <2>1 DEF TypeOK
  <2> QED
    BY <2>3, <2>4 DEF TypeOK
<1>4. ASSUME NEW r \in Request, NEW o \in {"create", "delete"}, NEW u \in User, NEW m \in Media,
             NEW f \in BOOLEAN, NEW v \in Path, NEW x \in Content,
             req' = [req EXCEPT ![r] =
                      [op |-> o, pc |-> "calling", user |-> u, media |-> m,
                       padded |-> f, path |-> v, content |-> x, time |-> now,
                       attempt |-> 1, answer |-> "none"]]
      PROVE  req' \in [Request -> Call]
  <2>1. 1 \in 1 .. MaxAttempts /\ now \in Time
    BY ConstantsAssumption DEF TypeOK
  <2> QED
    BY <1>4, <2>1 DEF TypeOK, Call
<1>5. ASSUME NEW r \in Request, CreateHandler(r) PROVE TypeOK'
  <2>1. CASE Refuse(r, "create", {"400", "403"})
    BY <1>3, <1>5, <2>1 DEF CreateHandler, TypeOK
  <2>2. CASE ~Refuse(r, "create", {"400", "403"})
    <3>1. \A raw \in RawPath : Stripped(raw) \in Path
      BY DEF Path
    <3>2. req' \in [Request -> Call]
      BY <1>4, <1>5, <2>2, <3>1 DEF CreateHandler
    <3> QED
      BY <1>5, <3>2 DEF CreateHandler, TypeOK
  <2> QED
    BY <2>1, <2>2
<1>6. ASSUME NEW r \in Request, DeleteHandler(r) PROVE TypeOK'
  <2>1. CASE Refuse(r, "delete", {"400", "403"})
    BY <1>3, <1>6, <2>1 DEF DeleteHandler, TypeOK
  <2>2. CASE ~Refuse(r, "delete", {"400", "403"})
    <3>1. req[r].path \in Path /\ req[r].content \in Content
      BY DEF TypeOK, Call
    <3> QED
      BY <1>4, <1>6, <2>2, <3>1 DEF DeleteHandler, TypeOK
  <2> QED
    BY <2>1, <2>2
<1>7. ASSUME NEW r \in Request, PutItem(r) PROVE TypeOK'
  <2>1. req' \in [Request -> Call]
    BY <1>7, ReplyTypes DEF PutItem
  <2>2. KeyOf(req[r]) \in Key /\ NewRecord(req[r]) \in Record
    BY CallMakes DEF TypeOK
  <2> QED
    BY <1>7, <2>1, <2>2 DEF PutItem, TypeOK
<1>8. ASSUME NEW r \in Request, MarkItem(r) PROVE TypeOK'
  <2>1. req' \in [Request -> Call]
    BY <1>8, ReplyTypes DEF MarkItem
  <2>2. KeyOf(req[r]) \in Key /\ req[r].time \in Time
    BY CallMakes DEF TypeOK
  <2>3. table' \in [Key -> Record \cup {Absent}]
    <3>1. CASE UNCHANGED table
      BY <3>1 DEF TypeOK
    <3>2. CASE ~UNCHANGED table
      <4>1. /\ Addressed(req[r]) # Absent
            /\ table' = [table EXCEPT ![KeyOf(req[r])] =
                           [@ EXCEPT !.isDeleted = TRUE, !.updatedAt = req[r].time]]
        BY <1>8, <3>2 DEF MarkItem
      <4>2. table[KeyOf(req[r])] \in Record
        BY <2>2, <4>1 DEF Addressed, TypeOK
      <4>3. [table[KeyOf(req[r])] EXCEPT !.isDeleted = TRUE, !.updatedAt = req[r].time] \in Record
        BY <2>2, <4>2, MarkedRecord
      <4> QED
        BY <4>1, <4>3 DEF TypeOK
    <3> QED
      BY <3>1, <3>2
  <2> QED
    BY <1>8, <2>1, <2>3 DEF MarkItem, TypeOK
<1>9. ASSUME NEW r \in Request, Timeout(r) PROVE TypeOK'
  BY <1>9, ReplyTypes DEF Timeout, TypeOK
<1>10. ASSUME NEW w \in Walker, BeginWalk(w) PROVE TypeOK'
  <2>1. PICK u \in User :
          walk' = [walk EXCEPT ![w] = [user |-> u, status |-> "running", cursor |-> 0,
                                       page |-> {}, got |-> {}, stable |-> Live(u) \ lagging]]
    BY <1>10 DEF BeginWalk
  <2>2. Live(u) \ lagging \in SUBSET Key /\ 0 \in 0 .. LastMedia /\ {} \in SUBSET Key
    BY ConstantsAssumption DEF Live
  <2>3. walk' \in [Walker -> Walk]
    BY <2>1, <2>2, WalkTypes
  <2> QED
    BY <1>10, <2>3 DEF BeginWalk, TypeOK
<1>11. ASSUME NEW w \in Walker, GetPage(w) PROVE TypeOK'
  <2>1. PICK page \in SUBSET Key :
          \/ Received(w, page, "done", walk[w].cursor)
          \/ \E last \in page : Received(w, page, "running", last[2])
    BY <1>11 DEF GetPage, Live
  <2>2. ASSUME NEW status \in {"running", "done"}, NEW c \in 0 .. LastMedia,
               Received(w, page, status, c)
        PROVE  walk' \in [Walker -> Walk]
    BY <2>2, WalkParts, WalkTypes DEF Received
  <2>3. \A last \in page : last[2] \in 0 .. LastMedia
    BY ConstantsAssumption DEF Key, Media
  <2>4. walk' \in [Walker -> Walk]
    BY <2>1, <2>2, <2>3, WalkParts
  <2> QED
    BY <1>11, <2>4 DEF GetPage, TypeOK
<1>12. ASSUME NEW w \in Walker, WalkFails(w) PROVE TypeOK'
  <2>1. 0 \in 0 .. LastMedia /\ {} \in SUBSET Key
    BY ConstantsAssumption
  <2>2. walk' \in [Walker -> Walk]
    BY <1>12, <2>1, WalkParts, WalkTypes DEF WalkFails
  <2> QED
    BY <1>12, <2>2 DEF WalkFails, TypeOK
<1>13. CASE UNCHANGED vars
  BY <1>13 DEF vars, TypeOK
<1> QED
  BY <1>1, <1>2, <1>5, <1>6, <1>7, <1>8, <1>9, <1>10, <1>11, <1>12, <1>13 DEF Next

\* Before any request everything is well typed.
LEMMA TypeInit == Init => TypeOK
<1> SUFFICES ASSUME Init PROVE TypeOK
  OBVIOUS
<1>1. 0 \in Time /\ 1 \in Media /\ 1 \in 1 .. MaxAttempts /\ 0 \in 0 .. LastMedia
  BY ConstantsAssumption DEF Time, Media
<1>2. \A u \in User, x \in Content : IdleCall(u, x) \in Call
  BY <1>1 DEF IdleCall, Call, Path
<1>3. table \in [Key -> Record \cup {Absent}] /\ lagging \subseteq Key /\ now \in Time
  BY <1>1 DEF Init
<1>4. req \in [Request -> Call]
  BY <1>2 DEF Init
<1>5. walk \in [Walker -> Walk]
  BY <1>1 DEF Init, Walk
<1> QED
  BY <1>3, <1>4, <1>5 DEF TypeOK

\* Every variable keeps its type, for any numbers of users, records and requests.
THEOREM TypeCorrect == Spec => []TypeOK
  BY TypeInit, TypeStep, PTL DEF Spec

-----------------------------------------------------------------------------
(* What a step does to the table: nothing, a new record, or a mark.        *)

Creates(r) == /\ req[r].pc = "calling" /\ req[r].op = "create"
              /\ table[KeyOf(req[r])] = Absent
              /\ table' = [table EXCEPT ![KeyOf(req[r])] = NewRecord(req[r])]

Marks(r) == /\ req[r].pc = "calling" /\ req[r].op = "delete"
            /\ ~req[r].padded
            /\ table[KeyOf(req[r])] # Absent
            /\ table' = [table EXCEPT ![KeyOf(req[r])] =
                           [@ EXCEPT !.isDeleted = TRUE, !.updatedAt = req[r].time]]

\* Only put_item and update_item of a request under way change the table, and only
\* under their conditions.
LEMMA TableSteps ==
  ASSUME [Next]_vars
  PROVE  UNCHANGED table \/ \E r \in Request : Creates(r) \/ Marks(r)
<1>1. ASSUME NEW r \in Request, PutItem(r) PROVE UNCHANGED table \/ Creates(r)
  BY <1>1 DEF PutItem, Creates
<1>2. ASSUME NEW r \in Request, MarkItem(r) PROVE UNCHANGED table \/ Marks(r)
  BY <1>2 DEF MarkItem, Marks, Addressed, DeletePads
<1>3. ASSUME NEW r \in Request, CreateHandler(r) \/ DeleteHandler(r) \/ Timeout(r)
      PROVE  UNCHANGED table
  BY <1>3 DEF CreateHandler, DeleteHandler, Timeout
<1>4. ASSUME NEW w \in Walker, BeginWalk(w) \/ GetPage(w) \/ WalkFails(w)
      PROVE  UNCHANGED table
  BY <1>4 DEF BeginWalk, GetPage, WalkFails
<1>5. (Tick \/ \E k \in lagging : Replicate(k)) => UNCHANGED table
  BY DEF Tick, Replicate
<1>6. UNCHANGED vars => UNCHANGED table
  BY DEF vars
<1> QED
  BY <1>1, <1>2, <1>3, <1>4, <1>5, <1>6 DEF Next

\* What stays of a record under a key: the record itself, with its path, contents,
\* upload time, and its mark once it has one.
Kept(k) == table[k] # Absent =>
             /\ table'[k] # Absent
             /\ table'[k].path = table[k].path /\ table'[k].content = table[k].content
             /\ table'[k].uploadedAt = table[k].uploadedAt
             /\ table[k].isDeleted => table'[k].isDeleted

\* No step loses or rewrites a stored record.
LEMMA RecordsStay ==
  ASSUME TypeOK, [Next]_vars, NEW k \in Key
  PROVE  Kept(k)
<1>1. CASE UNCHANGED table
  BY <1>1 DEF Kept
<1>2. ASSUME NEW r \in Request, Creates(r) PROVE Kept(k)
  BY <1>2 DEF Creates, Kept, TypeOK
<1>3. ASSUME NEW r \in Request, Marks(r) PROVE Kept(k)
  <2>1. req[r].time \in Time /\ KeyOf(req[r]) \in Key
    BY CallMakes DEF TypeOK
  <2>2. CASE k # KeyOf(req[r])
    BY <1>3, <2>2 DEF Marks, Kept, TypeOK
  <2>3. CASE k = KeyOf(req[r])
    <3>1. table[k] \in Record
      BY <1>3, <2>3 DEF Marks, TypeOK
    <3> DEFINE x == [table[k] EXCEPT !.isDeleted = TRUE, !.updatedAt = req[r].time]
    <3>2. /\ x \in Record /\ x.path = table[k].path /\ x.content = table[k].content
          /\ x.uploadedAt = table[k].uploadedAt /\ x.isDeleted
      BY <2>1, <3>1, MarkedRecord
    <3>3. table'[k] = x
      BY <1>3, <2>3 DEF Marks, TypeOK
    <3> HIDE DEF x
    <3> QED
      BY <3>2, <3>3, AbsentAssumption DEF Kept
  <2> QED
    BY <2>2, <2>3
<1> QED
  BY <1>1, <1>2, <1>3, TableSteps

\* The keys that have a record.
Held == {k \in Key : table[k] # Absent}

\* What is stored, and what a query may miss, after a step: a record is created and may
\* be missed, one is missed no more, or nothing changes.
LEMMA HeldSteps ==
  ASSUME TypeOK, [Next]_vars
  PROVE  \/ Held' = Held /\ lagging' = lagging
         \/ \E k \in lagging : Held' = Held /\ lagging' = lagging \ {k}
         \/ \E k \in Key \ Held : Held' = Held \cup {k} /\ lagging' = lagging \cup {k}
<1>1. ASSUME UNCHANGED table PROVE Held' = Held
  BY <1>1 DEF Held
<1>2. ASSUME NEW r \in Request, PutItem(r)
      PROVE  \/ Held' = Held /\ lagging' = lagging
             \/ \E k \in Key \ Held : Held' = Held \cup {k} /\ lagging' = lagging \cup {k}
  <2>1. CASE UNCHANGED <<table, lagging>>
    BY <1>1, <2>1
  <2>2. CASE Creates(r) /\ lagging' = lagging \cup {KeyOf(req[r])}
    <3>1. KeyOf(req[r]) \in Key /\ NewRecord(req[r]) # Absent
      BY CallMakes, AbsentAssumption DEF TypeOK
    <3> QED
      BY <2>2, <3>1 DEF Creates, Held, TypeOK
  <2> QED
    BY <1>2, <2>1, <2>2 DEF PutItem, Creates
<1>3. ASSUME NEW r \in Request, MarkItem(r) PROVE Held' = Held /\ lagging' = lagging
  <2>1. lagging' = lagging /\ (UNCHANGED table \/ Marks(r))
    BY <1>3 DEF MarkItem, Marks, Addressed, DeletePads
  <2>2. CASE Marks(r)
    <3>1. \A k \in Key : table'[k] # Absent <=> table[k] # Absent
      BY <1>3, <2>2, RecordsStay DEF Kept, Next, Marks, TypeOK
    <3> QED
      BY <2>1, <3>1 DEF Held
  <2> QED
    BY <1>1, <2>1, <2>2
<1>4. CASE \E k \in lagging : Replicate(k)
  BY <1>1, <1>4 DEF Replicate
<1>5. CASE \/ Tick \/ \E r \in Request : CreateHandler(r) \/ DeleteHandler(r) \/ Timeout(r)
           \/ \E w \in Walker : BeginWalk(w) \/ GetPage(w) \/ WalkFails(w)
  BY <1>1, <1>5 DEF Tick, CreateHandler, DeleteHandler, Timeout, BeginWalk, GetPage, WalkFails
<1>6. CASE UNCHANGED vars
  BY <1>1, <1>6 DEF vars
<1> QED
  BY <1>2, <1>3, <1>4, <1>5, <1>6 DEF Next

\* create_upload_record is idempotent and a deletion is final: for any interleaving of
\* requests, lost answers and retries, a stored record keeps what it was created with.
THEOREM RecordsKept == Spec => FirstWriteStays
<1>1. TypeOK /\ [Next]_vars =>
        [\A k \in Key : table[k] # Absent =>
           /\ table'[k] # Absent
           /\ table'[k].path = table[k].path /\ table'[k].content = table[k].content
           /\ table'[k].uploadedAt = table[k].uploadedAt
           /\ table[k].isDeleted => table'[k].isDeleted]_vars
  BY RecordsStay DEF Kept
<1> QED
  BY <1>1, TypeCorrect, PTL DEF Spec, FirstWriteStays

\* A record changes only on a request to delete exactly its id.
THEOREM ExactIdDeleted == Spec => DeletedByExactId
<1>1. TypeOK /\ [Next]_vars =>
        [\A k \in Key : table[k] # Absent /\ table[k] # table'[k] =>
           \E r \in Request : /\ req[r].op = "delete" /\ req[r].pc = "calling"
                              /\ KeyOf(req[r]) = k /\ ~req[r].padded]_vars
  <2> SUFFICES ASSUME TypeOK, [Next]_vars, NEW k \in Key,
                      table[k] # Absent, table[k] # table'[k]
               PROVE  \E r \in Request : /\ req[r].op = "delete" /\ req[r].pc = "calling"
                                         /\ KeyOf(req[r]) = k /\ ~req[r].padded
    OBVIOUS
  <2>1. \A r \in Request : ~Creates(r)
    BY DEF Creates, TypeOK
  <2>2. PICK r \in Request : Marks(r)
    BY <2>1, TableSteps
  <2> QED
    BY <2>2 DEF Marks, TypeOK
<1> QED
  BY <1>1, TypeCorrect, PTL DEF Spec, DeletedByExactId

-----------------------------------------------------------------------------
(* What the answers say, and where the paths lead.                         *)

\* A request has no answer until it is answered, and a create that has passed its
\* checks asks for a path below its own user's prefix.
Waiting == \A r \in Request :
             /\ req[r].pc # "answered" => req[r].answer = "none"
             /\ req[r].pc = "calling" /\ req[r].op = "create" =>
                  BelongsTo(req[r].path, req[r].user)

\* What one step does to the request r: nothing that tells its client of a record, or
\* an answer 200 or 201 that the table bears out.
Quiet(r) == /\ req'[r].answer \notin {"200", "201"}
            /\ req'[r].pc # "answered" => req'[r].answer = "none"
            /\ req'[r].pc = "calling" /\ req'[r].op = "create" =>
                 BelongsTo(req'[r].path, req'[r].user)

Tells(r, answer) == /\ req[r].pc = "calling"
                    /\ req'[r] = [req[r] EXCEPT !.pc = "answered", !.answer = answer]

Truthful(r) == \/ Tells(r, "201") /\ Creates(r)
               \/ Tells(r, "200") /\ req[r].op = "create" /\ table[KeyOf(req[r])] # Absent
               \/ Tells(r, "200") /\ Marks(r)

\* An answer leaves the rest of its request as it was.
LEMMA ToldFields ==
  ASSUME NEW c \in Call, NEW a
  PROVE  LET d == [c EXCEPT !.pc = "answered", !.answer = a]
         IN  /\ d.op = c.op /\ d.user = c.user /\ d.media = c.media /\ d.content = c.content
             /\ d.time = c.time /\ d.path = c.path /\ d.pc = "answered" /\ d.answer = a
             /\ KeyOf(d) = KeyOf(c)
  BY Zenon DEF Call, KeyOf

\* An answer without a record, and a repeated call, tell the client of no record.
LEMMA QuietReplies ==
  ASSUME TypeOK, Waiting, NEW r \in Request, req[r].pc = "calling",
         \/ \E a \in {"404", "500", "504"} : Reply(r, a)
         \/ NoAnswer(r)
  PROVE  Quiet(r) /\ \A q \in Request \ {r} : req'[q] = req[q]
<1>1. req[r] \in Call
  BY DEF TypeOK
<1>2. ASSUME NEW a \in {"404", "500", "504"}, Reply(r, a)
      PROVE  Quiet(r) /\ \A q \in Request \ {r} : req'[q] = req[q]
  <2>1. /\ req'[r] = [req[r] EXCEPT !.pc = "answered", !.answer = a]
        /\ \A q \in Request \ {r} : req'[q] = req[q]
    BY <1>2 DEF Reply, TypeOK
  <2>2. req'[r].pc = "answered" /\ req'[r].answer = a
    BY <1>1, <2>1, Zenon DEF Call
  <2> QED
    BY <2>1, <2>2 DEF Quiet
<1>3. ASSUME req' = [req EXCEPT ![r].attempt = @ + 1]
      PROVE  Quiet(r) /\ \A q \in Request \ {r} : req'[q] = req[q]
  <2>1. /\ req'[r] = [req[r] EXCEPT !.attempt = @ + 1]
        /\ \A q \in Request \ {r} : req'[q] = req[q]
    BY <1>3 DEF TypeOK
  <2>2. LET d == [req[r] EXCEPT !.attempt = @ + 1]
        IN  /\ d.answer = req[r].answer /\ d.pc = req[r].pc /\ d.op = req[r].op
            /\ d.path = req[r].path /\ d.user = req[r].user
    BY <1>1, Zenon DEF Call
  <2> QED
    BY <2>1, <2>2 DEF Quiet, Waiting
<1> QED
  BY <1>2, <1>3 DEF NoAnswer

\* A step leaves all requests but one as they were, and that one is told of no record,
\* or the truth.
LEMMA RequestSteps ==
  ASSUME TypeOK, Waiting, [Next]_vars
  PROVE  \/ UNCHANGED req
         \/ \E r \in Request : /\ \A q \in Request \ {r} : req'[q] = req[q]
                               /\ Quiet(r) \/ Truthful(r)
<1> DEFINE Fine == \E r \in Request : /\ \A q \in Request \ {r} : req'[q] = req[q]
                                      /\ Quiet(r) \/ Truthful(r)
<1>1. ASSUME NEW r \in Request, NEW o \in {"create", "delete"}, Refuse(r, o, {"400", "403"})
      PROVE  Fine
  <2>1. PICK a \in {"400", "403"} :
          req' = [req EXCEPT ![r].op = o, ![r].pc = "answered", ![r].answer = a]
    BY <1>1 DEF Refuse
  <2>2. req[r] \in Call
    BY DEF TypeOK
  <2>3. /\ req'[r] = [req[r] EXCEPT !.op = o, !.pc = "answered", !.answer = a]
        /\ \A q \in Request \ {r} : req'[q] = req[q]
    BY <2>1 DEF TypeOK
  <2>4. req'[r].pc = "answered" /\ req'[r].answer = a
    BY <2>2, <2>3, Zenon DEF Call
  <2> QED
    BY <2>3, <2>4 DEF Quiet
<1>2. ASSUME NEW r \in Request, CreateHandler(r) PROVE Fine
  BY <1>1, <1>2 DEF CreateHandler, Quiet, TypeOK
<1>3. ASSUME NEW r \in Request, DeleteHandler(r) PROVE Fine
  BY <1>1, <1>3 DEF DeleteHandler, Quiet, TypeOK
<1>4. ASSUME NEW r \in Request, NEW a \in {"200", "201"}, Reply(r, a), req[r].pc = "calling"
      PROVE  Tells(r, a) /\ \A q \in Request \ {r} : req'[q] = req[q]
  BY <1>4 DEF Reply, Tells, TypeOK
<1>5. ASSUME NEW r \in Request, PutItem(r) PROVE Fine
  <2>1. req[r].pc = "calling" /\ req[r].op = "create"
    BY <1>5 DEF PutItem
  <2>2. CASE NoAnswer(r)
    BY <2>1, <2>2, QuietReplies
  <2>3. CASE Reply(r, "200") /\ table[KeyOf(req[r])] # Absent
    BY <1>4, <2>1, <2>3 DEF Truthful
  <2>4. CASE Reply(r, "201") /\ Creates(r)
    BY <1>4, <2>1, <2>4 DEF Truthful
  <2> QED
    BY <1>5, <2>1, <2>2, <2>3, <2>4 DEF PutItem, Creates
<1>6. ASSUME NEW r \in Request, MarkItem(r) PROVE Fine
  <2>1. req[r].pc = "calling" /\ req[r].op = "delete"
    BY <1>6 DEF MarkItem
  <2>2. CASE NoAnswer(r) \/ Reply(r, "404")
    BY <2>1, <2>2, QuietReplies
  <2>3. CASE Reply(r, "200") /\ Marks(r)
    BY <1>4, <2>1, <2>3 DEF Truthful
  <2> QED
    BY <1>6, <2>1, <2>2, <2>3 DEF MarkItem, Marks, Addressed, DeletePads
<1>7. ASSUME NEW r \in Request, Timeout(r) PROVE Fine
  BY <1>7, QuietReplies DEF Timeout
<1>8. ASSUME NEW w \in Walker, BeginWalk(w) \/ GetPage(w) \/ WalkFails(w)
      PROVE  UNCHANGED req
  BY <1>8 DEF BeginWalk, GetPage, WalkFails
<1>9. (Tick \/ \E k \in lagging : Replicate(k)) => UNCHANGED req
  BY DEF Tick, Replicate
<1>10. UNCHANGED vars => UNCHANGED req
  BY DEF vars
<1> HIDE DEF Fine
<1>11. UNCHANGED req \/ Fine
  BY <1>2, <1>3, <1>5, <1>6, <1>7, <1>8, <1>9, <1>10 DEF Next
<1> QED
  BY <1>11 DEF Fine

\* What a truthful answer leaves: its fields, and, for a create that is told 201 and
\* a deletion that is told 200, the record under its key.
LEMMA TruthfulLeaves ==
  ASSUME TypeOK, [Next]_vars, NEW r \in Request, Truthful(r)
  PROVE  LET c == req[r]
             d == req'[r]
             stored == table'[KeyOf(c)]
         IN  /\ KeyOf(d) = KeyOf(c) /\ d.op = c.op /\ d.pc = "answered"
             /\ d.content = c.content /\ d.time = c.time
             /\ stored # Absent
             /\ d.answer = "201" => /\ table[KeyOf(c)] = Absent
                                    /\ stored.content = c.content /\ stored.uploadedAt = c.time
             /\ d.answer = "200" /\ d.op = "delete" => stored.isDeleted
<1>1. req[r] \in Call
  BY DEF TypeOK
<1>2. KeyOf(req[r]) \in Key /\ NewRecord(req[r]) \in Record /\ req[r].time \in Time
  BY <1>1, CallMakes
<1>3. ASSUME NEW a \in {"200", "201"}, Tells(r, a)
      PROVE  /\ KeyOf(req'[r]) = KeyOf(req[r]) /\ req'[r].op = req[r].op
             /\ req'[r].pc = "answered" /\ req'[r].content = req[r].content
             /\ req'[r].time = req[r].time /\ req'[r].answer = a
  BY <1>1, <1>3, Zenon DEF Call, KeyOf, Tells
<1>4. CASE Tells(r, "201") /\ Creates(r)
  <2>1. table'[KeyOf(req[r])] = NewRecord(req[r])
    BY <1>2, <1>4 DEF Creates, TypeOK
  <2>2. /\ table'[KeyOf(req[r])].content = req[r].content
        /\ table'[KeyOf(req[r])].uploadedAt = req[r].time
    BY <2>1 DEF NewRecord
  <2>3. table'[KeyOf(req[r])] # Absent
    BY <1>2, <2>1, AbsentAssumption
  <2> QED
    BY <1>3, <1>4, <2>2, <2>3 DEF Creates
<1>5. CASE Tells(r, "200") /\ req[r].op = "create" /\ table[KeyOf(req[r])] # Absent
  <2>1. table'[KeyOf(req[r])] # Absent
    BY <1>2, <1>5, RecordsStay DEF Kept
  <2> QED
    BY <1>3, <1>5, <2>1
<1>6. CASE Tells(r, "200") /\ Marks(r)
  <2>1. table[KeyOf(req[r])] \in Record
    BY <1>2, <1>6 DEF Marks, TypeOK
  <2> DEFINE x == [table[KeyOf(req[r])] EXCEPT !.isDeleted = TRUE, !.updatedAt = req[r].time]
  <2>2. x \in Record /\ x.isDeleted
    BY <1>2, <2>1, MarkedRecord
  <2>3. table'[KeyOf(req[r])] = x
    BY <1>2, <1>6 DEF Marks, TypeOK
  <2> HIDE DEF x
  <2>4. table'[KeyOf(req[r])] # Absent /\ table'[KeyOf(req[r])].isDeleted
    BY <2>2, <2>3, AbsentAssumption
  <2> QED
    BY <1>3, <1>6, <2>4
<1> QED
  BY <1>4, <1>5, <1>6 DEF Truthful

\* Requests wait without an answer, whatever the others do.
LEMMA WaitingStep == TypeOK /\ Waiting /\ [Next]_vars => Waiting'
<1> SUFFICES ASSUME TypeOK, Waiting, [Next]_vars, NEW q \in Request
             PROVE  /\ req'[q].pc # "answered" => req'[q].answer = "none"
                    /\ req'[q].pc = "calling" /\ req'[q].op = "create" =>
                         BelongsTo(req'[q].path, req'[q].user)
  BY DEF Waiting
<1>1. CASE req'[q] = req[q]
  BY <1>1 DEF Waiting
<1>2. CASE Quiet(q)
  BY <1>2 DEF Quiet
<1>3. CASE Truthful(q)
  <2>1. req'[q].pc = "answered"
    BY <1>3, TruthfulLeaves
  <2> QED
    BY <2>1
<1> QED
  BY <1>1, <1>2, <1>3, RequestSteps

\* What an answered request was told stays true while others run: records are kept.
LEMMA AnswersStep == TypeOK /\ Waiting /\ AnswersTrue /\ [Next]_vars => AnswersTrue'
<1> DEFINE Borne(r) ==
      /\ req[r].answer = "201" => /\ table[KeyOf(req[r])] # Absent
                                  /\ table[KeyOf(req[r])].content = req[r].content
                                  /\ table[KeyOf(req[r])].uploadedAt = req[r].time
      /\ req[r].answer = "200" => /\ table[KeyOf(req[r])] # Absent
                                  /\ req[r].op = "delete" => table[KeyOf(req[r])].isDeleted
<1> DEFINE Sole(r, q) == ~(/\ req[r].answer = "201" /\ req[q].answer = "201"
                           /\ KeyOf(req[q]) = KeyOf(req[r]))
<1> SUFFICES ASSUME TypeOK, Waiting, AnswersTrue, [Next]_vars
             PROVE  AnswersTrue'
  OBVIOUS
<1>1. \A r \in Request : Borne(r) /\ \A q \in Request \ {r} : Sole(r, q)
  BY DEF AnswersTrue
<1>2. \A r \in Request : KeyOf(req[r]) \in Key
  BY CallMakes DEF TypeOK
<1>3. ASSUME NEW r \in Request, req'[r] = req[r] PROVE Borne(r)'
  <2>1. Kept(KeyOf(req[r])) /\ KeyOf(req'[r]) = KeyOf(req[r])
    BY <1>2, <1>3, RecordsStay
  <2> QED
    BY <1>1, <1>3, <2>1 DEF Kept
<1>4. ASSUME NEW r \in Request, Quiet(r) PROVE Borne(r)'
  BY <1>4 DEF Quiet
<1>5. ASSUME NEW r \in Request, Truthful(r) PROVE Borne(r)'
  BY <1>5, TruthfulLeaves
<1>6. ASSUME NEW r \in Request, NEW q \in Request \ {r},
             req'[q] = req[q], req'[r] = req[r] \/ Quiet(r) \/ Truthful(r)
      PROVE  Sole(r, q)' /\ Sole(q, r)'
  <2>1. CASE req'[r] = req[r]
    <3>1. Sole(r, q)
      BY <1>1, <1>6
    <3>2. KeyOf(req'[r]) = KeyOf(req[r]) /\ KeyOf(req'[q]) = KeyOf(req[q])
      BY <1>6, <2>1
    <3> QED
      BY <1>6, <2>1, <3>1, <3>2
  <2>2. CASE Quiet(r)
    BY <2>2 DEF Quiet
  <2>3. CASE Truthful(r)
    <3>1. /\ KeyOf(req'[r]) = KeyOf(req[r]) /\ KeyOf(req'[q]) = KeyOf(req[q])
          /\ req'[r].answer = "201" => table[KeyOf(req[r])] = Absent
      BY <1>6, <2>3, TruthfulLeaves DEF KeyOf
    <3>2. req[q].answer = "201" => table[KeyOf(req[q])] # Absent
      BY <1>1
    <3> QED
      BY <1>6, <3>1, <3>2
  <2> QED
    BY <1>6, <2>1, <2>2, <2>3
<1> HIDE DEF Borne, Sole
<1>7. /\ \A r \in Request : Borne(r)'
      /\ \A r \in Request : \A q \in Request \ {r} : Sole(r, q)'
  <2>1. CASE UNCHANGED req
    BY <1>3, <1>6, <2>1
  <2>2. CASE ~UNCHANGED req
    <3>1. PICK s \in Request : /\ \A q \in Request \ {s} : req'[q] = req[q]
                               /\ Quiet(s) \/ Truthful(s)
      BY <2>2, RequestSteps
    <3>2. \A r \in Request : Borne(r)'
      BY <1>3, <1>4, <1>5, <3>1
    <3>3. ASSUME NEW r \in Request, NEW q \in Request \ {r} PROVE Sole(r, q)'
      <4>1. CASE q = s
        <5>1. r \in Request \ {s} /\ s \in Request \ {r}
          BY <4>1
        <5> QED
          BY <1>6, <3>1, <4>1, <5>1
      <4>2. CASE q # s
        BY <1>6, <3>1, <4>2
      <4> QED
        BY <4>1, <4>2
    <3> QED
      BY <3>2, <3>3
  <2> QED
    BY <2>1, <2>2
<1> QED
  BY <1>7 DEF AnswersTrue, Borne, Sole

\* What begins a sequence agrees with it, piece by piece.
LEMMA PrefixPieces ==
  ASSUME NEW S, NEW s \in Seq(S), NEW t \in Seq(S), IsPrefix(s, t), NEW i \in 1 .. Len(s)
  PROVE  i \in 1 .. Len(t) /\ t[i] = s[i]
  BY DEF IsPrefix

\* The prefix of a user's objects: its pieces, the identity's among them.
LEMMA ListedPieces ==
  ASSUME NEW u \in User
  PROVE  /\ ListedPrefix(u) \in Seq(Piece)
         /\ Id[u] \in Seq(Piece) /\ Len(Id[u]) \in Nat
         /\ Len(ListedPrefix(u)) = Len(Id[u]) + 3
         /\ ListedPrefix(u)[Len(Id[u]) + 3] = Slash
         /\ \A i \in 1 .. Len(Id[u]) : /\ ListedPrefix(u)[i + 2] = Id[u][i]
                                       /\ Id[u][i] # Slash
<1> DEFINE id == Id[u]
<1>1. id \in Seq(Piece \ {Slash})
  BY TextAssumption
<1>2. id \in Seq(Piece) /\ Len(id) \in Nat /\ \A i \in 1 .. Len(id) : id[i] # Slash
  BY <1>1
<1>3. {Private, Slash} \subseteq Piece
  BY TextAssumption
<1>4. ListedPrefix(u) = <<Private, Slash>> \o id \o <<Slash>>
  BY DEF ListedPrefix
<1> HIDE DEF id
<1> DEFINE p == <<Private, Slash>> \o id
<1>5. p \in Seq(Piece) /\ Len(p) = Len(id) + 2 /\ \A i \in 1 .. Len(id) : p[i + 2] = id[i]
  BY <1>2, <1>3
<1>6. ListedPrefix(u) = p \o <<Slash>>
  BY <1>4
<1> HIDE DEF p
<1>7. /\ p \o <<Slash>> \in Seq(Piece) /\ Len(p \o <<Slash>>) = Len(p) + 1
      /\ (p \o <<Slash>>)[Len(p) + 1] = Slash
      /\ \A i \in 1 .. Len(p) : (p \o <<Slash>>)[i] = p[i]
  BY <1>3, <1>5
<1>8. \A i \in 1 .. Len(id) : ListedPrefix(u)[i + 2] = id[i]
  <2> SUFFICES ASSUME NEW i \in 1 .. Len(id) PROVE ListedPrefix(u)[i + 2] = id[i]
    OBVIOUS
  <2>1. i + 2 \in 1 .. Len(p)
    BY <1>2, <1>5
  <2> QED
    BY <1>5, <1>6, <1>7, <2>1
<1>9. Len(ListedPrefix(u)) = Len(id) + 3 /\ ListedPrefix(u)[Len(id) + 3] = Slash
  BY <1>2, <1>5, <1>6, <1>7
<1> QED
  BY <1>2, <1>6, <1>7, <1>8, <1>9 DEF id

\* A path has a place under the prefix of one user at most: the slash ends the identity.
LEMMA OnePrefix ==
  ASSUME NEW u \in User, NEW v \in User, NEW path \in Seq(Piece),
         IsPrefix(ListedPrefix(u), path), IsPrefix(ListedPrefix(v), path)
  PROVE  u = v
<1>1. ASSUME NEW a \in User, NEW b \in User,
             IsPrefix(ListedPrefix(a), path), IsPrefix(ListedPrefix(b), path)
      PROVE  ~(Len(Id[a]) < Len(Id[b]))
  <2> SUFFICES ASSUME Len(Id[a]) < Len(Id[b]) PROVE FALSE
    OBVIOUS
  <2> DEFINE n == Len(Id[a]) + 1
  <2>1. n \in 1 .. Len(Id[b])
    BY ListedPieces
  <2>2. n + 2 \in 1 .. Len(ListedPrefix(a)) /\ n + 2 \in 1 .. Len(ListedPrefix(b))
    BY <2>1, ListedPieces
  <2>3. path[n + 2] = ListedPrefix(a)[n + 2] /\ path[n + 2] = ListedPrefix(b)[n + 2]
    BY <1>1, <2>2, ListedPieces, PrefixPieces
  <2>4. ListedPrefix(a)[n + 2] = Slash
    BY ListedPieces
  <2>5. ListedPrefix(b)[n + 2] = Id[b][n] /\ Id[b][n] # Slash
    BY <2>1, ListedPieces
  <2> QED
    BY <2>3, <2>4, <2>5
<1>2. Len(Id[u]) = Len(Id[v]) /\ Len(Id[u]) \in Nat
  BY <1>1, ListedPieces
<1>3. ASSUME NEW i \in 1 .. Len(Id[u]) PROVE Id[u][i] = Id[v][i]
  <2>1. i + 2 \in 1 .. Len(ListedPrefix(u)) /\ i + 2 \in 1 .. Len(ListedPrefix(v))
    BY <1>2, ListedPieces
  <2>2. path[i + 2] = ListedPrefix(u)[i + 2] /\ path[i + 2] = ListedPrefix(v)[i + 2]
    BY <2>1, ListedPieces, PrefixPieces
  <2> QED
    BY <1>2, <2>2, ListedPieces
<1>4. Id[u] \in Seq(Piece) /\ Id[v] \in Seq(Piece)
  BY ListedPieces
<1>5. Id[u] = Id[v]
  BY <1>2, <1>3, <1>4
<1> QED
  BY <1>5, TextAssumption

\* A set of naturals has a least element.
LEMMA LeastNatural ==
  ASSUME NEW S \in SUBSET Nat, S # {}
  PROVE  \E x \in S : \A y \in S : x <= y
<1> DEFINE Less == {p \in Nat \X Nat : p[1] < p[2]}
<1>1. IsWellFoundedOn(Less, Nat)
  BY NatLessThanWellFounded DEF OpToRel
<1>2. \E x \in S : \A y \in S : ~(<<y, x>> \in Less)
  <2> HIDE DEF Less
  <2> QED
    BY <1>1, WFMin
<1>3. \A x, y \in S : y < x => <<y, x>> \in Less
  OBVIOUS
<1>4. PICK x \in S : \A y \in S : ~(<<y, x>> \in Less)
  BY <1>2
<1>5. \A y \in S : ~(y < x)
  BY <1>3, <1>4
<1> QED
  BY <1>5

\* A set of naturals within a bound has a greatest element.
LEMMA GreatestUpTo ==
  ASSUME NEW n \in Nat, NEW S \in SUBSET (1 .. n), S # {}
  PROVE  \E x \in S : \A y \in S : x >= y
<1> DEFINE T == {m \in Nat : \E x \in S : m = n - x}
<1>1. PICK s \in S : TRUE
  OBVIOUS
<1>2. n - s \in T
  OBVIOUS
<1>3. PICK t \in T : \A y \in T : t <= y
  <2>1. T \in SUBSET Nat /\ T # {}
    BY <1>2
  <2> HIDE DEF T
  <2> QED
    BY <2>1, LeastNatural
<1>4. PICK x \in S : t = n - x
  OBVIOUS
<1>5. ASSUME NEW y \in S PROVE x >= y
  <2>1. n - y \in T
    OBVIOUS
  <2>2. t <= n - y
    BY <1>3, <2>1
  <2> QED
    BY <1>4, <2>2
<1> QED
  BY <1>5

\* A path is a text, whatever blanks are stripped from it.
LEMMA PathText == Path \subseteq Seq(Piece)
<1>0. <<>> \in Seq(Piece)
  OBVIOUS
<1> SUFFICES ASSUME NEW raw \in RawPath PROVE Stripped(raw) \in Seq(Piece)
  BY <1>0 DEF Path
<1> DEFINE text == {i \in DOMAIN raw : raw[i] # Blank}
<1>1. raw \in Seq(Piece)
  BY TextAssumption
<1>2. CASE text = {}
  BY <1>2 DEF Stripped
<1>3. CASE text # {}
  <2>1. Stripped(raw) = SubSeq(raw, Min(text), Max(text))
    BY <1>3 DEF Stripped
  <2>2. text \in SUBSET (1 .. Len(raw)) /\ Len(raw) \in Nat
    BY <1>1
  <2> HIDE DEF text
  <2>3. \E x \in text : \A y \in text : x <= y
    <3>1. text \in SUBSET Nat
      BY <2>2
    <3> QED
      BY <1>3, <3>1, LeastNatural
  <2>4. \E x \in text : \A y \in text : x >= y
    BY <1>3, <2>2, GreatestUpTo
  <2>5. Min(text) \in text /\ Max(text) \in text
    BY <2>3, <2>4 DEF Min, Max
  <2>6. Min(text) \in 1 .. Len(raw) /\ Max(text) \in 1 .. Len(raw)
    BY <2>2, <2>5
  <2> QED
    BY <1>1, <2>1, <2>6
<1> QED
  BY <1>2, <1>3

\* A record that is created has the path its request was checked for, and a mark
\* leaves the path alone.
LEMMA PathsStep == TypeOK /\ Waiting /\ PathsBelong /\ [Next]_vars => PathsBelong'
<1> SUFFICES ASSUME TypeOK, Waiting, PathsBelong, [Next]_vars,
                    NEW k \in Key, table'[k] # Absent, NEW u \in User
             PROVE  IsPrefix(ListedPrefix(u), table'[k].path) <=> u = k[1]
  BY DEF PathsBelong, ListedPrefix
<1>1. CASE table[k] # Absent
  <2>1. table'[k].path = table[k].path
    BY <1>1, RecordsStay DEF Kept
  <2> QED
    BY <1>1, <2>1 DEF PathsBelong
<1>2. CASE table[k] = Absent
  <2>1. PICK r \in Request : Creates(r) \/ Marks(r)
    BY <1>2, TableSteps
  <2>2. KeyOf(req[r]) = k /\ Creates(r)
    BY <1>2, <2>1 DEF Creates, Marks, TypeOK
  <2>3. table'[k].path = req[r].path
    BY <2>2 DEF Creates, TypeOK, NewRecord
  <2>4. BelongsTo(req[r].path, req[r].user)
    BY <2>2 DEF Creates, Waiting
  <2>5. /\ req[r].user = k[1] /\ k[1] \in User
        /\ req[r].path \in Seq(Piece)
    BY <2>2, PathText DEF KeyOf, Key, TypeOK, Call
  <2>6. IsPrefix(ListedPrefix(k[1]), table'[k].path)
    BY <2>3, <2>4, <2>5 DEF BelongsTo, ListedPrefix
  <2> QED
    BY <2>3, <2>5, <2>6, OnePrefix
<1> QED
  BY <1>1, <1>2

\* Before any request there is nothing to answer for.
LEMMA AnswersInit == Init => Waiting /\ AnswersTrue /\ PathsBelong
<1> SUFFICES ASSUME Init PROVE Waiting /\ AnswersTrue /\ PathsBelong
  OBVIOUS
<1>1. \A r \in Request : req[r].pc = "idle" /\ req[r].answer = "none"
  BY DEF Init, IdleCall
<1>2. PathsBelong
  BY DEF Init, PathsBelong
<1> QED
  BY <1>1, <1>2 DEF Waiting, AnswersTrue

\* 201 and 200 are true for good, and only one create of a key is told 201, for any
\* number of requests in any interleaving, with any lost answers and retries.
THEOREM AnswersStayTrue == Spec => []AnswersTrue
  BY TypeCorrect, AnswersInit, WaitingStep, AnswersStep, PTL DEF Spec

\* The object a record points to is among those DELETE /users lists for the record's
\* user and for nobody else, for any identities without a slash, one of which may begin
\* another, and any paths, with blanks around them or not.
THEOREM RecordsBelong == Spec => []PathsBelong
  BY TypeCorrect, AnswersInit, WaitingStep, PathsStep, PTL DEF Spec

-----------------------------------------------------------------------------
(* GET /media/uploads, page after page.                                    *)

Seen(v) == v.got \cup v.page

\* Pages are apart, the caller's and short; while the walk runs they are behind its cursor.
InOrder(v) == /\ v.page \cap v.got = {}
              /\ \A k \in Seen(v) : k[1] = v.user
              /\ Cardinality(v.page) <= MaxLimit
              /\ v.status = "running" => \A k \in Seen(v) : k[2] <= v.cursor

\* The records that were visible at the start still are, and those behind the cursor of
\* a running walk, or all of a done one, have been seen.
Covered(v) == /\ v.stable \subseteq Held \ lagging
              /\ \A k \in v.stable : k[1] = v.user
              /\ v.status = "running" => \A k \in v.stable : k[2] <= v.cursor => k \in Seen(v)
              /\ v.status = "done" => v.stable \subseteq Seen(v)

Walking == \A w \in Walker : InOrder(walk[w]) /\ Covered(walk[w])

\* A walk that has received nothing is in order.
LEMMA EmptyInOrder ==
  ASSUME NEW v, v.page = {}, v.got = {}
  PROVE  InOrder(v)
  BY FS_EmptySet, ConstantsAssumption DEF InOrder, Seen

\* A user has no more records than there are media ids.
LEMMA OwnFinite ==
  ASSUME NEW u, NEW S \in SUBSET Key, \A k \in S : k[1] = u
  PROVE  IsFiniteSet(S)
<1> DEFINE f == [k \in S |-> k[2]]
<1>1. IsFiniteSet(1 .. LastMedia)
  BY FS_Interval, ConstantsAssumption
<1>2. f \in Injection(S, 1 .. LastMedia)
  BY DEF Injection, IsInjective, Key, Media
<1> QED
  BY <1>1, <1>2, FS_Injection

\* A page within a clamped limit is within MAX_LIMIT, whatever the parameter.
LEMMA PageLimitBound ==
  ASSUME NEW raw \in RawLimit, NEW S, IsFiniteSet(S), Cardinality(S) <= PageLimit(raw)
  PROVE  Cardinality(S) <= MaxLimit
<1>1. Cardinality(S) \in Nat /\ raw \in Int /\ MaxLimit \in Nat \ {0}
  BY FS_CardinalityType, ConstantsAssumption
<1> QED
  BY <1>1 DEF PageLimit

\* A page goes on where the pages before it ended, and leaves out no record that was
\* visible when the walk began.
LEMMA PageKeeps ==
  ASSUME TypeOK, NEW w \in Walker, GetPage(w), InOrder(walk[w]), Covered(walk[w])
  PROVE  InOrder(walk'[w]) /\ Covered(walk'[w])
<1> DEFINE v == walk[w]
           live == Live(v.user)
<1>1. /\ v.user \in User /\ v.cursor \in 0 .. LastMedia /\ v.status = "running"
      /\ Seen(v) \in SUBSET Key /\ v.stable \in SUBSET Key
  BY WalkParts DEF GetPage, Seen
<1>2. PICK raw \in RawLimit, missed \in SUBSET (live \cap lagging) :
        LET rest == {k \in live \ missed : v.cursor < k[2]}
        IN  \E page \in SUBSET rest :
              /\ Cardinality(page) <= PageLimit(raw)
              /\ \A k \in page, l \in rest \ page : k[2] < l[2]
              /\ \/ page = rest /\ Received(w, page, "done", v.cursor)
                 \/ \E last \in page : /\ \A k \in page : k[2] <= last[2]
                                       /\ Received(w, page, "running", last[2])
  BY DEF GetPage
<1> DEFINE rest == {k \in live \ missed : v.cursor < k[2]}
<1>3. PICK page \in SUBSET rest :
        /\ Cardinality(page) <= PageLimit(raw)
        /\ \A k \in page, l \in rest \ page : k[2] < l[2]
        /\ \/ page = rest /\ Received(w, page, "done", v.cursor)
           \/ \E last \in page : /\ \A k \in page : k[2] <= last[2]
                                 /\ Received(w, page, "running", last[2])
  BY <1>2
<1>4. \A k \in rest : k \in Key /\ k[1] = v.user /\ v.cursor < k[2] /\ k[2] \in 0 .. LastMedia
  BY ConstantsAssumption DEF Live, Key, Media
<1>5. Cardinality(page) <= MaxLimit
  BY <1>3, <1>4, OwnFinite, PageLimitBound
<1>6. \A k \in Seen(v) : k[1] = v.user /\ k[2] <= v.cursor /\ k[2] \in 0 .. LastMedia
  BY <1>1, ConstantsAssumption DEF InOrder, Key, Media
<1>7. \A k \in v.stable : /\ k[1] = v.user /\ k[2] \in 0 .. LastMedia
                          /\ k[2] <= v.cursor => k \in Seen(v)
                          /\ ~(k[2] <= v.cursor) => k \in rest
  BY <1>1, ConstantsAssumption DEF Covered, Held, Live, Key, Media
<1>8. page \cap Seen(v) = {}
  BY <1>1, <1>4, <1>6
<1>9. v.stable \subseteq Held \ lagging
  BY DEF Covered
<1>10. ASSUME NEW s, NEW c, Received(w, page, s, c)
       PROVE  walk'[w] = [user |-> v.user, status |-> s, cursor |-> c, page |-> page,
                          got |-> Seen(v), stable |-> v.stable]
  BY <1>10 DEF Received, Seen, TypeOK
<1> HIDE DEF v, rest, live
<1>11. CASE page = rest /\ Received(w, page, "done", v.cursor)
  <2>1. walk'[w] = [user |-> v.user, status |-> "done", cursor |-> v.cursor, page |-> page,
                    got |-> Seen(v), stable |-> v.stable]
    BY <1>10, <1>11
  <2>2. InOrder(walk'[w])
    BY <1>3, <1>4, <1>5, <1>6, <1>8, <2>1 DEF InOrder, Seen
  <2>3. v.stable \subseteq Seen(v) \cup page
    BY <1>7, <1>11
  <2> QED
    BY <1>7, <1>9, <2>1, <2>2, <2>3 DEF Covered, Seen
<1>12. ASSUME NEW last \in page, \A k \in page : k[2] <= last[2],
              Received(w, page, "running", last[2])
       PROVE  InOrder(walk'[w]) /\ Covered(walk'[w])
  <2>1. walk'[w] = [user |-> v.user, status |-> "running", cursor |-> last[2], page |-> page,
                    got |-> Seen(v), stable |-> v.stable]
    BY <1>10, <1>12
  <2>2. v.cursor < last[2] /\ last[2] \in 0 .. LastMedia
    BY <1>3, <1>4
  <2>3. \A k \in Seen(v) \cup page : k[1] = v.user /\ k[2] <= last[2]
    BY <1>1, <1>3, <1>4, <1>6, <1>12, <2>2
  <2>4. InOrder(walk'[w])
    BY <1>5, <1>8, <2>1, <2>3 DEF InOrder, Seen
  <2>5. ASSUME NEW k \in v.stable, k[2] <= last[2] PROVE k \in Seen(v) \cup page
    <3>1. k \in rest /\ k \notin page => last[2] < k[2]
      BY <1>3
    <3> QED
      BY <1>7, <2>2, <2>5, <3>1
  <2> QED
    BY <1>7, <1>9, <2>1, <2>4, <2>5 DEF Covered, Seen
<1> QED
  BY <1>3, <1>11, <1>12

\* Walks stay in order and complete while records are created and marked.
LEMMA WalkingStep == TypeOK /\ Walking /\ [Next]_vars => Walking'
<1> SUFFICES ASSUME TypeOK, Walking, [Next]_vars, NEW w \in Walker
             PROVE  InOrder(walk'[w]) /\ Covered(walk[w])'
  BY DEF Walking, InOrder, Seen
<1>1. InOrder(walk[w]) /\ Covered(walk[w]) /\ walk[w] \in Walk
  BY DEF Walking, TypeOK
<1>2. CASE walk'[w] = walk[w]
  <2>1. Held \ lagging \subseteq Held' \ lagging'
    BY HeldSteps
  <2> QED
    BY <1>1, <1>2, <2>1 DEF Covered, Seen
<1>3. CASE BeginWalk(w)
  <2>1. PICK u : walk'[w] = [user |-> u, status |-> "running", cursor |-> 0, page |-> {},
                             got |-> {}, stable |-> Live(u) \ lagging]
    BY <1>3 DEF BeginWalk, TypeOK
  <2>2. Held' = Held /\ lagging' = lagging
    BY <1>3 DEF BeginWalk, Held
  <2>3. \A k \in Live(u) : k \in Held /\ k[1] = u /\ ~(k[2] <= 0)
    BY ConstantsAssumption DEF Live, Held, Key, Media
  <2>4. InOrder(walk'[w])
    BY <2>1, EmptyInOrder
  <2> QED
    BY <2>1, <2>2, <2>3, <2>4 DEF Covered
<1>4. CASE WalkFails(w)
  <2>1. /\ walk'[w].page = {} /\ walk'[w].got = {} /\ walk'[w].stable = {}
        /\ walk'[w].status = "failed"
    BY <1>4 DEF WalkFails, TypeOK
  <2> QED
    BY <2>1, EmptyInOrder DEF Covered
<1>5. CASE GetPage(w)
  <2>1. InOrder(walk'[w]) /\ Covered(walk'[w])
    BY <1>1, <1>5, PageKeeps
  <2>2. Held' = Held /\ lagging' = lagging
    BY <1>5 DEF GetPage, Held
  <2> QED
    BY <2>1, <2>2 DEF Covered, Seen
<1>6. \/ walk'[w] = walk[w] \/ BeginWalk(w) \/ GetPage(w) \/ WalkFails(w)
  <2>1. ASSUME NEW x \in Walker, x # w, BeginWalk(x) \/ GetPage(x) \/ WalkFails(x)
        PROVE  walk'[w] = walk[w]
    BY <2>1 DEF BeginWalk, GetPage, Received, WalkFails, TypeOK
  <2>2. ASSUME UNCHANGED walk PROVE walk'[w] = walk[w]
    BY <2>2
  <2> QED
    BY <2>1, <2>2 DEF Next, Tick, Replicate, CreateHandler, PutItem, DeleteHandler, MarkItem,
                      Timeout, vars
<1> QED
  BY <1>2, <1>3, <1>4, <1>5, <1>6

\* Before any request nothing has been received.
LEMMA WalkingInit == Init => Walking
<1> SUFFICES ASSUME Init, NEW w \in Walker PROVE InOrder(walk[w]) /\ Covered(walk[w])
  BY DEF Walking
<1>1. /\ walk[w].page = {} /\ walk[w].got = {} /\ walk[w].stable = {}
      /\ walk[w].status = "idle"
  BY DEF Init
<1> QED
  BY <1>1, EmptyInOrder DEF Covered

\* The pages of a walk never overlap, hold only the caller's records and respect
\* MAX_LIMIT, whatever is created between them (query_upload_records, PageLimit.parse).
THEOREM PagesAreSound == Spec => []PagesSound
<1>1. Walking => PagesSound
  BY DEF Walking, InOrder, Seen, PagesSound
<1> QED
  BY <1>1, WalkingInit, WalkingStep, TypeCorrect, PTL DEF Spec

\* A walk that reaches its last page has returned every record that was visible when it
\* began, for any page limits and any pages cut short.
THEOREM WalksComplete == Spec => []WalkComplete
<1>1. Walking => WalkComplete
  BY DEF Walking, Covered, Seen, WalkComplete
<1> QED
  BY <1>1, WalkingInit, WalkingStep, TypeCorrect, PTL DEF Spec
================================================================================
