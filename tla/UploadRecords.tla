------------------------------ MODULE UploadRecords ------------------------------
(***************************************************************************)
(* The upload records of media_uploads: POST /media/uploads creates a      *)
(* record once, DELETE /media/uploads/{mediaId} marks it deleted, and      *)
(* GET /media/uploads pages through a user's records.  Each request is one *)
(* invocation of a handler: its validation and clock reading are one step, *)
(* its DynamoDB call another, and calls of other requests, lost answers    *)
(* and the SDK's retries come between.                                     *)
(***************************************************************************)
EXTENDS Integers, FiniteSets, SequencesExt

CONSTANTS User,         \* Cognito identities
          Piece,        \* pieces of text that paths are made of
          Private,      \* the piece "private" of PRIVATE_PATH_PREFIX
          Slash, Blank, \* "/" and white space
          Id,           \* [User -> Seq(Piece)]: an identity's text
          RawPath,      \* values of cloudStoragePath in a request
          LastMedia,    \* media ids are 1 .. LastMedia, in the table's order
          Content,      \* contentType, mediaType and fileSize of a record
          Request,      \* invocations of the create and delete handlers
          Walker,       \* clients paging through their records
          MaxTime,      \* bound of the clock
          MaxAttempts,  \* attempts of the SDK at one call
          RawLimit,     \* values of the limit parameter
          MaxLimit,     \* MAX_LIMIT, 500
          Absent        \* no record under a key

Media == 1 .. LastMedia
Key   == User \X Media
Time  == 0 .. MaxTime

ASSUME ConstantsAssumption ==
  /\ LastMedia \in Nat \ {0} /\ MaxTime \in Nat
  /\ MaxAttempts \in Nat \ {0} /\ MaxLimit \in Nat \ {0}
  /\ RawLimit \subseteq Int

\* Two identities differ, and no identity has a slash in it; one may be the
\* beginning of another.
ASSUME TextAssumption ==
  /\ {Private, Slash, Blank} \subseteq Piece /\ RawPath \subseteq Seq(Piece)
  /\ Id \in [User -> Seq(Piece \ {Slash})]
  /\ \A u, v \in User : Id[u] = Id[v] => u = v

\* _required_text: a text without the blanks around it.
Stripped(raw) == LET text == {i \in DOMAIN raw : raw[i] # Blank}
                 IN  IF text = {} THEN <<>> ELSE SubSeq(raw, Min(text), Max(text))

Path == {Stripped(raw) : raw \in RawPath} \cup {<<>>}

\* updatedAt is 0 while the attribute is missing.
Record == [path : Path, content : Content, uploadedAt : Time,
           isDeleted : BOOLEAN, updatedAt : Time]

ASSUME AbsentAssumption == Absent \notin Record

VARIABLES table,    \* [Key -> Record \cup {Absent}]
          lagging,  \* SUBSET Key: new records that a query may not see yet
          now,      \* the clock that time.time() reads
          req,      \* [Request -> Call]: the requests that change records
          walk      \* [Walker -> Walk]: the clients' listings

vars == <<table, lagging, now, req, walk>>

Call == [op      : {"none", "create", "delete"},
         pc      : {"idle", "calling", "answered"},
         user    : User,
         media   : Media,
         padded  : BOOLEAN,             \* the raw id has spaces around it
         path    : Path,
         content : Content,
         time    : Time,                \* uploaded_at or updated_at, once read
         attempt : 1 .. MaxAttempts,
         answer  : {"none", "200", "201", "400", "403", "404", "500", "504"}]

Walk == [user   : User,
         status : {"idle", "running", "done", "failed"},
         cursor : 0 .. LastMedia,       \* lastEvaluatedKey, 0 for none
         page   : SUBSET Key,           \* the last page received
         got    : SUBSET Key,           \* the pages before it
         stable : SUBSET Key]           \* history: visible when the walk began

KeyOf(c) == <<c.user, c.media>>

IdleCall(u, x) == [op |-> "none", pc |-> "idle", user |-> u, media |-> 1,
                   padded |-> FALSE, path |-> <<>>, content |-> x, time |-> 0,
                   attempt |-> 1, answer |-> "none"]

Live(u) == {k \in Key : k[1] = u /\ table[k] # Absent}

Init == /\ table = [k \in Key |-> Absent]
        /\ lagging = {}
        /\ now = 0
        /\ \E u \in User, x \in Content : req = [r \in Request |-> IdleCall(u, x)]
        /\ \E u \in User :
             walk = [w \in Walker |-> [user |-> u, status |-> "idle", cursor |-> 0,
                                       page |-> {}, got |-> {}, stable |-> {}]]

Tick == /\ now < MaxTime
        /\ now' = now + 1
        /\ UNCHANGED <<table, lagging, req, walk>>

Reply(r, answer) == req' = [req EXCEPT ![r].pc = "answered", ![r].answer = answer]

\* Refused before any call: no identity or somebody else's path (403), or an
\* invalid body or field (400).
Refuse(r, op, answers) ==
  \E a \in answers : req' = [req EXCEPT ![r].op = op, ![r].pc = "answered", ![r].answer = a]

-----------------------------------------------------------------------------
(* POST /media/uploads.                                                    *)

\* Mutant: the slash that ends the identity is forgotten.
BelongsToWithoutSlash(path, u) == IsPrefix(<<Private, Slash>> \o Id[u], path)

\* CloudStoragePath.belongs_to.
BelongsTo(path, u) == IsPrefix(<<Private, Slash>> \o Id[u] \o <<Slash>>, path)

\* Authentication, body, validation and ownership, in this order, and then the
\* clock.  The path is stripped and so is the id (MediaId.parse), which is never
\* padded here.
CreateHandler(r) ==
  /\ req[r].pc = "idle"
  /\ \/ Refuse(r, "create", {"400", "403"})
     \/ \E u \in User, m \in Media, raw \in RawPath, x \in Content :
          /\ BelongsTo(Stripped(raw), u)
          /\ req' = [req EXCEPT ![r] =
                       [op |-> "create", pc |-> "calling", user |-> u, media |-> m,
                        padded |-> FALSE, path |-> Stripped(raw), content |-> x, time |-> now,
                        attempt |-> 1, answer |-> "none"]]
  /\ UNCHANGED <<table, lagging, now, walk>>

NewRecord(c) == [path |-> c.path, content |-> c.content, uploadedAt |-> c.time,
                 isDeleted |-> FALSE, updatedAt |-> 0]

\* Mutant: the SDK never gives up.
NoAnswerWithoutEnd(r) == req' = [req EXCEPT ![r].attempt = @ + 1]

\* No answer reaches the SDK, which sends the call again or raises at last.
NoAnswer(r) == \/ /\ req[r].attempt < MaxAttempts
                  /\ req' = [req EXCEPT ![r].attempt = @ + 1]
               \/ Reply(r, "500")

\* Mutant: put_item without the condition.
PutItemAlways(r) ==
  /\ req[r].op = "create" /\ req[r].pc = "calling"
  /\ table' = [table EXCEPT ![KeyOf(req[r])] = NewRecord(req[r])]
  /\ Reply(r, "201")
  /\ UNCHANGED <<lagging, now, walk>>

\* put_item on condition that the key has no record.
PutItem(r) ==
  /\ req[r].op = "create" /\ req[r].pc = "calling"
  /\ \/ /\ table[KeyOf(req[r])] # Absent
        /\ Reply(r, "200")
        /\ UNCHANGED <<table, lagging>>
     \/ /\ table[KeyOf(req[r])] = Absent
        /\ table' = [table EXCEPT ![KeyOf(req[r])] = NewRecord(req[r])]
        /\ lagging' = lagging \cup {KeyOf(req[r])}
        /\ Reply(r, "201") \/ NoAnswer(r)
     \/ /\ NoAnswer(r)
        /\ UNCHANGED <<table, lagging>>
  /\ UNCHANGED <<now, walk>>

-----------------------------------------------------------------------------
(* DELETE /media/uploads/{mediaId}.                                        *)

\* Mutant: the id is parsed by MediaId.parse, which strips it.
DeletePadsStripped(padded) == FALSE /\ padded

\* The id of the path is not stripped: a padded one stays a name of its own.
DeletePads(padded) == padded

DeleteHandler(r) ==
  /\ req[r].pc = "idle"
  /\ \/ Refuse(r, "delete", {"400", "403"})
     \/ \E u \in User, m \in Media, padded \in BOOLEAN :
          req' = [req EXCEPT ![r] =
                    [op |-> "delete", pc |-> "calling", user |-> u, media |-> m,
                     padded |-> padded, path |-> @.path, content |-> @.content,
                     time |-> now, attempt |-> 1, answer |-> "none"]]
  /\ UNCHANGED <<table, lagging, now, walk>>

\* The record the update addresses, if there is one: no stored id is padded.
Addressed(c) == IF DeletePads(c.padded) THEN Absent ELSE table[KeyOf(c)]

\* Mutant: the answer does not wait for the update's.
MarkItemUnchecked(r) ==
  /\ req[r].op = "delete" /\ req[r].pc = "calling"
  /\ Reply(r, "200")
  /\ UNCHANGED <<table, lagging, now, walk>>

\* Mutant: without the condition, update_item stores an item of what it sets.
MarkItemUpserts(r) ==
  /\ req[r].op = "delete" /\ req[r].pc = "calling"
  /\ table' = [table EXCEPT ![KeyOf(req[r])] =
                 [(IF @ = Absent THEN NewRecord(req[r]) ELSE @) EXCEPT !.isDeleted = TRUE,
                                                                      !.updatedAt = req[r].time]]
  /\ Reply(r, "200") \/ NoAnswer(r)
  /\ UNCHANGED <<lagging, now, walk>>

\* Mutant: the record itself is deleted.
MarkItemDeletes(r) ==
  /\ req[r].op = "delete" /\ req[r].pc = "calling"
  /\ table' = [table EXCEPT ![KeyOf(req[r])] = Absent]
  /\ Reply(r, "200") \/ NoAnswer(r)
  /\ UNCHANGED <<lagging, now, walk>>

\* update_item on condition that the key has a record, a deleted one included.
MarkItem(r) ==
  /\ req[r].op = "delete" /\ req[r].pc = "calling"
  /\ \/ /\ Addressed(req[r]) = Absent
        /\ Reply(r, "404")
        /\ UNCHANGED table
     \/ /\ Addressed(req[r]) # Absent
        /\ table' = [table EXCEPT ![KeyOf(req[r])] =
                       [@ EXCEPT !.isDeleted = TRUE, !.updatedAt = req[r].time]]
        /\ Reply(r, "200") \/ NoAnswer(r)
     \/ /\ NoAnswer(r)
        /\ UNCHANGED table
  /\ UNCHANGED <<lagging, now, walk>>

\* The runtime stops an invocation at its time limit: the client gets an error.
Timeout(r) == /\ req[r].pc = "calling"
              /\ Reply(r, "504")
              /\ UNCHANGED <<table, lagging, now, walk>>

-----------------------------------------------------------------------------
(* GET /media/uploads, page after page.                                    *)

\* Mutant: the limit is clamped from below only.
PageLimitUnclamped(raw) == IF raw < 1 THEN 1 ELSE raw

\* PageLimit.parse clamps the parameter into 1 .. MAX_LIMIT.
PageLimit(raw) == IF raw < 1 THEN 1 ELSE IF raw > MaxLimit THEN MaxLimit ELSE raw

Replicate(k) == /\ k \in lagging
                /\ lagging' = lagging \ {k}
                /\ UNCHANGED <<table, now, req, walk>>

BeginWalk(w) ==
  /\ walk[w].status # "running"
  /\ \E u \in User :
       walk' = [walk EXCEPT ![w] = [user |-> u, status |-> "running", cursor |-> 0,
                                    page |-> {}, got |-> {}, stable |-> Live(u) \ lagging]]
  /\ UNCHANGED <<table, lagging, now, req>>

\* The client has a page, and goes on from the cursor while the walk is running.
Received(w, page, status, cursor) ==
  walk' = [walk EXCEPT ![w] = [user |-> @.user, status |-> status, cursor |-> cursor,
                               page |-> page, got |-> @.got \cup @.page,
                               stable |-> @.stable]]

\* Mutant: the cursor is dropped when the page is short of the limit.
GetPageShortIsLast(w) ==
  /\ walk[w].status = "running"
  /\ \E raw \in RawLimit :
       LET rest == {k \in Live(walk[w].user) : walk[w].cursor < k[2]}
       IN  \E page \in SUBSET rest :
             /\ Cardinality(page) < PageLimit(raw)
             /\ \A k \in page, l \in rest \ page : k[2] < l[2]
             /\ Received(w, page, "done", walk[w].cursor)
  /\ UNCHANGED <<table, lagging, now, req>>

\* query_upload_records: records after the cursor in key order, deleted ones too.
\* The page ends at the limit or earlier; with lastEvaluatedKey the client goes on.
GetPage(w) ==
  /\ walk[w].status = "running"
  /\ \E raw \in RawLimit, missed \in SUBSET (Live(walk[w].user) \cap lagging) :
       LET rest == {k \in Live(walk[w].user) \ missed : walk[w].cursor < k[2]}
       IN  \E page \in SUBSET rest :
             /\ Cardinality(page) <= PageLimit(raw)
             /\ \A k \in page, l \in rest \ page : k[2] < l[2]
             /\ \/ page = rest /\ Received(w, page, "done", walk[w].cursor)
                \/ \E last \in page : /\ \A k \in page : k[2] <= last[2]
                                      /\ Received(w, page, "running", last[2])
  /\ UNCHANGED <<table, lagging, now, req>>

\* A cursor of another user (403), a malformed parameter (400), a failed query (500).
WalkFails(w) == /\ walk[w].status = "running"
                /\ walk' = [walk EXCEPT ![w] = [user |-> @.user, status |-> "failed",
                                                cursor |-> 0, page |-> {}, got |-> {},
                                                stable |-> {}]]
                /\ UNCHANGED <<table, lagging, now, req>>

-----------------------------------------------------------------------------
Next == \/ Tick
        \/ \E k \in lagging : Replicate(k)
        \/ \E r \in Request : \/ CreateHandler(r) \/ PutItem(r)
                              \/ DeleteHandler(r) \/ MarkItem(r) \/ Timeout(r)
        \/ \E w \in Walker : BeginWalk(w) \/ GetPage(w) \/ WalkFails(w)

Spec == Init /\ [][Next]_vars

-----------------------------------------------------------------------------
(* Properties.                                                             *)

\* Every variable keeps its type.
TypeOK == /\ table \in [Key -> Record \cup {Absent}]
          /\ lagging \subseteq Key
          /\ now \in Time
          /\ req \in [Request -> Call]
          /\ walk \in [Walker -> Walk]

\* An answer stays true however requests, lost answers and SDK retries interleave:
\* 201 means that this request's record is the stored one and that no other
\* request was told the same, 200 that the record exists (create) or is marked
\* deleted (delete).
AnswersTrue ==
  \A r \in Request :
    LET c == req[r]
        stored == table[KeyOf(c)]
    IN  /\ c.answer = "201" => /\ stored # Absent
                               /\ stored.content = c.content /\ stored.uploadedAt = c.time
                               /\ \A q \in Request \ {r} :
                                    req[q].answer = "201" => KeyOf(req[q]) # KeyOf(c)
        /\ c.answer = "200" => /\ stored # Absent
                               /\ c.op = "delete" => stored.isDeleted

\* The prefix that DELETE /users lists in the media bucket (users/storage.py).
ListedPrefix(u) == <<Private, Slash>> \o Id[u] \o <<Slash>>

\* The object a record points to is among those DELETE /users lists for the
\* record's user, and among those of no other user, blanks around the path and
\* identities that begin another identity included.
PathsBelong ==
  \A k \in Key : table[k] # Absent =>
    \A u \in User : IsPrefix(ListedPrefix(u), table[k].path) <=> u = k[1]

\* A stored record keeps what it was created with, and stays deleted once it is:
\* a late or repeated create changes nothing (create_upload_record, idempotency).
FirstWriteStays ==
  [][\A k \in Key : table[k] # Absent =>
       /\ table'[k] # Absent
       /\ table'[k].path = table[k].path /\ table'[k].content = table[k].content
       /\ table'[k].uploadedAt = table[k].uploadedAt
       /\ table[k].isDeleted => table'[k].isDeleted]_vars

\* A record is marked deleted only on a request for exactly its id: models.py
\* warns that " abc " must not delete the record "abc".
DeletedByExactId ==
  [][\A k \in Key : table[k] # Absent /\ table[k] # table'[k] =>
       \E r \in Request : /\ req[r].op = "delete" /\ req[r].pc = "calling"
                          /\ KeyOf(req[r]) = k /\ ~req[r].padded]_vars

\* Pages of one walk never overlap, hold only the caller's records and respect
\* MAX_LIMIT, while records are created between them.
PagesSound == \A w \in Walker : /\ walk[w].page \cap walk[w].got = {}
                                /\ \A k \in walk[w].page : k[1] = walk[w].user
                                /\ Cardinality(walk[w].page) <= MaxLimit

\* A walk that reaches its last page has returned every record that was visible
\* when it began, deleted ones included.
WalkComplete == \A w \in Walker : walk[w].status = "done" =>
                  walk[w].stable \subseteq walk[w].got \cup walk[w].page
================================================================================
