# Verification of the cloud photos backend

TLA+ models of the Lambda handlers under `lambda/cloud_photos`, of the scripts that
package them and check the API's trigger, and of the workflows that deploy them. They
are checked with TLC on small instances; every safety property of every module is also
proved with TLAPS, for every value of the constants.

## The system

An Android client signs in with Cognito, uploads photos to S3 below its own
prefix `private/<identity id>/`, and calls seven handlers behind API Gateway.
Every call is one invocation of a Lambda function. The handlers share no memory:
they interact through two DynamoDB tables, a versioned S3 bucket, and Firebase
Cloud Messaging (FCM).

| Part | State | Operations |
|---|---|---|
| `users` | none of its own; S3 and both tables | `DELETE /users` erases the caller's versions and markers in S3, then the upload records, then the device tokens |
| `media_uploads` | table of upload records, key (user, media id) | `POST /media/uploads` creates once, `DELETE /media/uploads/{mediaId}` marks deleted, `GET /media/uploads` returns a page |
| `device_tokens` | table of tokens, key (user, token) | `PUT /devices/token` upserts, `DELETE /devices/token` removes |
| `push_notification` | a Firebase app cached per execution environment | `POST /media/uploads/complete` sends to every token of the caller and removes those FCM has dropped |
| `common` | none | the caller's identity, the body, the answers, item conversion |
| packaging scripts | `.build`: archives, layers, directories of installations | `build_lambda.py` builds, `verify_lambda_packages.py` imports every handler from its archive |
| repository checks | none | CI checks that every setting of the API feeds the redeployment trigger, and the role names |
| CD workflows | Terraform state, saved plans, the queues of the concurrency groups | plan and apply of dev, then of prod for `main`, on every push |
| REST API in Terraform | settings, the deployment (a snapshot of them) and its trigger, the stage | changed by each apply |
| other Terraform | tables, bucket, roles, accounts | declarative |

What is hard in it:

* *Interleaving.* A deletion takes dozens of calls, a notification at least one
  per device, a listing one request per page; other requests change the same
  items between any two of them.
* *Partial failure.* One store of three, one object of a batch, one item of a
  chunk, one device of several may fail.
* *Lost answers.* The SDK resends a call whose answer is lost, so a call may have
  taken effect when it is made again.
* *Stale reads.* No query sets `ConsistentRead`: it may miss writes that were
  acknowledged before it, or show removed items.
* *Stopped invocations.* A time limit ends an invocation between any two calls.
* *Leftovers.* A build that fails or is killed leaves archives and directories that the
  next build, or a verification, finds.
* *Two levels of queues.* Runs of a branch wait for each other, jobs of all branches wait
  for an environment; a queue holds one, and a newcomer replaces it.
* *Partial applies.* Terraform stops after some of its changes, and the next commit may
  change them back.

What makes each part correct: a deletion answers 200 only when nothing is left
of what it had to delete, and otherwise names the stores that failed; a record is
created once, keeps what it was created with, and stays deleted; a listing skips
nothing and repeats nothing; a token keeps its registration time; a notification
tries every device, and removes dead tokens only. An archive holds what its handlers
import, and a verification that passes says so; prod gets what dev has got, never an older
commit, and the stage serves what was applied.

## Modules

| Module | Models | Composes |
|---|---|---|
| `ErasureContract` | what `DELETE /users` promises, without pages, batches or retries | |
| `UserDeletion` | `users/delete_user.py`, `users/db.py`, `users/storage.py` | `ErasureContract`, by refinement |
| `UserDeletionProofs` | theorems about `UserDeletion` | extends it |
| `UserDeletionRefinement` | the proof that `UserDeletion` implements `ErasureContract` | extends `UserDeletionProofs` |
| `UploadRecords` | the three handlers of `media_uploads`, and clients that page | |
| `UploadRecordsProofs` | theorems about `UploadRecords` | extends it |
| `DeviceTokens` | the two handlers of `device_tokens` | |
| `DeviceTokensProofs` | theorems about `DeviceTokens` | extends it |
| `PushNotification` | `push_notification/notify_upload_complete.py`, `db.py`, `fcm.py` | extends `DeviceTokens`: the two share the table of tokens |
| `PushNotificationProofs` | theorems about `PushNotification` | extends it and `DeviceTokensProofs` |
| `CloudPhotos` | the handlers of records, tokens and the account over their shared tables | `UploadRecords` (extended), `DeviceTokens`, and `UserDeletion` by refinement |
| `CloudPhotosProofs` | theorems about `CloudPhotos` | extends it and `UploadRecordsProofs`, instances of `DeviceTokensProofs` and `UserDeletionRefinement` |
| `Packaging` | `scripts/build_lambda.py`, `scripts/verify_lambda_packages.py` | |
| `PackagingProofs` | theorems about `Packaging` | extends it |
| `ApiSettings` | `scripts/check_api_deployment_inputs.py`, and the locals of `modules/media_api/api_gateway.tf` it is about | |
| `Deployment` | `cd-terraform.yml`, `reusable-terraform-deploy.yml`, the deployment and stage of the API | extends `ApiSettings`: what is deployed has passed the check |
| `DeploymentProofs` | theorems about `Deployment` and `ApiSettings` | extends `Deployment` |
| `MC*` | values of the constants | |

### UserDeletion

`run[p]` is the local state of an invocation: the store under way (`stage`), the
cursor of its listing, the entries of the current page still to handle, the batch
to delete (`objects_to_delete`, or the `unprocessed` of a chunk), the number of
retries, and `failed_subsystems`. Each AWS call is one action and so is each purely local
step that decides what to call next: `List`, `Collect` and `Flush` for S3; `List`,
`Chunk` and `BatchWrite` for the tables. `ListError`, and the `Fail` disjuncts of
`Flush` and `BatchWrite`, are the exceptions `_try_delete` catches; `Proceed` is
its return. S3 lists the state of the moment (it is strongly consistent); a query
may miss the writes in `fresh`, that is, those that `Propagate` has not carried to
every replica. `Put` and `Withdraw` are everything else that writes to the three
stores while deletions run. An S3 entry is a version or a delete marker; markers
come after the versions of a page, as in `itertools.chain`.

`owed[p]` is a history variable: the caller's entries that any reader saw when the
invocation started, without those written again since. It is what a truthful 200
must have erased.

### UploadRecords

A request of `Request` runs a create or a delete: its refusals, validation and
clock reading are `CreateHandler` and `DeleteHandler`, its call is `PutItem` or
`MarkItem`. A call may take effect with its answer lost (`NoAnswer`), and is then
made again up to `MaxAttempts` times, as boto3 does, or raises and gives a 500.
A walk of `Walker` is a client that follows `lastEvaluatedKey`; a query may miss
the records in `lagging`. A path is a sequence of pieces of text (`Piece`), with the slash
and the blank among them: a request brings one of `RawPath`, `Stripped` takes the blanks
off as `_required_text` does, and `BelongsTo` compares the rest with the caller's prefix,
`private/`, its identity `Id[u]` and a slash. Identities have no slash, and one may begin
with another. `ListedPrefix` is what `users/storage.py` lists. The id of a deletion is
abstracted to a media id and whether it is padded.

### DeviceTokens and PushNotification

Requests work as in `UploadRecords`, but each may come again after its answer. A
notification (`job[n]`, one at a time per execution environment `n`) goes through
`NotifyHandler`, `QueryPage` until the last page, `GetApp`, one `SendDelivered`,
`SendUnregistered` or `SendFailed` per token in the order of the query, `Cleanup` after an
unregistered one, and `NotifyRespond`. `app` holds the environments whose Firebase app is
cached, `dead` the tokens FCM has dropped (FCM does not revive a token), `stable` the tokens
that every query of the job was bound to show, and `hidden` those that none could show:
tokens that are not the caller's, or that neither the table nor a late replica has held for
the caller since the job began. `TokenStep` lets the handlers of `device_tokens` run between
any two of these steps.

### CloudPhotos

`UserDeletion` lets anything be written between two of its steps. `CloudPhotos` puts the
real writers there: the handlers of `UploadRecords` and of `DeviceTokens` over the two
tables that the deletion erases. `Deletion` is the instance of `UserDeletion` whose stores
(`Data`) and unreplicated writes (`Fresh`) are functions of these tables; a step of the
deletion is a step of `Deletion` together with what it erases from them (`Erased`). That
the whole implements `Deletion!Spec` (`ImplementsDeletion`) says that `UserDeletion` has
supposed enough of the rest of the system, so that what is proved about it holds here.
Left out: objects in S3 (no handler stores any, clients upload directly), refused
requests, walks, and the clock.

### Packaging

`build` and `check` are the local variables of the two scripts; `zips`, `layerZips`,
`dirs` and `root` are the output directory, which outlives them. `Scan` is one turn of the
loop of `required_packages`, `BuildGroup` writes the archive of the group, `ParseLayers`,
`InstallLayer`, `AllInstalled`, `PackLayer` and `CleanUp` are the rest of `main` in its
order. Each script runs alone; `Edit` changes the working copy between runs, `Kill` ends a
build anywhere, perhaps in the middle of an archive. The verification takes the groups
from the working copy and the files from the archives (`CheckGroup`), and `Load` imports
one module after the other as the child process does. The build follows dotted absolute
imports wherever they stand, the child process follows those of any form that are executed
while a module loads: an import is `dotted` or not, `lazy` or not. Abstracted: files
to Python modules, contents of a layer to the versions it holds, `--layer` and the
third-party imports of a verification, `cloud_photos/__init__.py` (in every archive), the
bytes of an archive. Groups are visited in some fixed order instead of by name.

### ApiSettings and Deployment

A `Source` is what the check reads of `modules/media_api` for one resource type: the blocks
and what their `for_each` is over (one of the two tables, or some other collection), the
keys of these collections, the whole maps and the entries of the local. `Missing`,
`Unknown`, `Mismatched` and `SharedKeys` are the four reports; `Settings` are the resources,
`Tracked` those that survive the `merge` into the local. The check accepts a `for_each` over
anything and compares the keys of the two tables only: that blocks of a type over anything
else share no key, and that no key names a single block, is how the module is written, not
something the check ensures (`OneBlockPerKey`, an assumption on the sources). At this commit
every `for_each` of these types is over one of the two tables.

A block that is tracked counts as seen whole. The trigger itself lists attributes by hand
(`api_gateway.tf:225-261`, with the warning at 222-224 that a newly set one must be added).
The list is complete at this commit, and no check guards it: `EverySettingTracked` and
`StageServes` say that no resource is missed, not that no attribute is.

`run[c]` is the workflow run of the push `c`, numbered in their order: `unpushed`, `pending`
or `cancelled` in the group of its branch; `arriving`, `waiting` or `running` with a job in
the group of an environment, `replaced` if it lost its place there; `done` or `failed`; a
run that is over keeps no job and no plan (`Over`). A run goes plan, apply over dev, and on
`main` plan, apply over prod (`AfterApply`). `env[e]` holds the live settings, the
deployment's trigger and the snapshot it has published, what the stage serves, and
Terraform's serial. `Apply` makes the plan's changes: the deployment is replaced if its
trigger differs, after the settings that the trigger refers to, while the order against
other changes is open. `ApplyInPart` stops anywhere. `StalePlan` fails over a state that has
changed since the plan. What concurrency groups do (one running, one pending, a newcomer
cancels the pending one), and what Terraform does with plans and serials, is modelled from
how the workflows use them.

## Runs

| Run | Shows | Bounds |
|---|---|---|
| `UserDeletion` | types, `NothingOwedSurvives`, `BatchesAccepted`, the inductive `Tracking`, and that `UserDeletion` implements `ErasureContract` | one invocation at a time, two users, three S3 positions with one marker over batches of two (a full batch, a remainder, a batch across pages), pages of two, chunks of one, one retry; the invocation may be repeated after it ends |
| `UserDeletionRetries` | `NothingOwedSurvives` for two invocations of one caller at once | two records in one chunk, one retry |
| `UserDeletionLiveness` | `Responds`, and `BatchesAccepted` for a page longer than a chunk | three records in a page, chunks of two |
| `UserDeletionMisses` | a violation, see below | as `UserDeletionLiveness`, without writes during a deletion |
| `UploadRecords` | `AnswersTrue`, `PathsBelong`, `FirstWriteStays`, `DeletedByExactId` | three requests, two users, the identity of one beginning that of the other, ten paths (padded, without the last slash, of the other user, not private, blank), one media id each, two contents, two times, two attempts |
| `UploadRecordsPages` | `PagesSound`, `WalkComplete` | one client, three records, limits below, inside and above 1..2 |
| `DeviceTokens` | `RegistrationTimeKept` | three requests at a time, two users, one token each, two platforms, two times, two attempts |
| `PushNotification` | `EveryDeviceTried`, `LiveTokensStay`, `NotifyEnds` | one environment, one token request at a time, any number of both, two tokens of one user |
| `PushNotificationUsers` | `SendsOnlyToRegistered` | two users, two tokens that either may have, pages of one or two, one token request at a time, any number of invocations in one environment |
| `CloudPhotos` | `UserErased`, `MarksNeverStore`, `ImplementsDeletion` | one user, one entry in each table (`LastMedia` = 1 for both: two exceed the time of a run, and the theorems hold for any number), one request of each kind at a time, any number of them, a page and a chunk of one, two attempts |
| `Packaging` | `ArchivesComplete`, `VerifiedLoads`, `LayersFresh`, `OnlyZipsRemain`, `BuildEnds` | six working copies over two groups and two shared packages (cycles, indirect, lazy, missing and undotted imports, tests), one layer in two versions, any number of builds and verifications |
| `Deployment` | `NoJobReplaced`, `NewestReachesProd`, `DevFirst`, `ProdPlansFresh`, `ProdForward`, `EverySettingTracked`, `StageServes`, `RunsEnd` | three pushes to either branch, seven versions of the module, of which the check lets three through: these alone are deployed (`first`, `listed`, `limited`, any two of which differ in one setting or two), the other four are what it has to refuse; pushes are finite, so the run does not check for deadlock |

The bounds are chosen so that each limit is met and passed: a batch that is full in the
middle of a page, a chunk that is shorter than the others, a retry and its exhaustion, a
page that ends early, two requests that pass each other and a third that follows. More
entries, users or requests repeat these cases. In `UploadRecords` each request runs once,
because its properties compare the answers of all requests: the system stops when all are
answered, and the run does not check for deadlock. Symmetry is used in runs without liveness
only, over sets whose members no formula distinguishes. `PushNotificationUsers` has a `VIEW`
too: it leaves out what no later step and no property reads again, the answer of a token
request that is over and, of an invocation that has ended, all but its caller and its
deliveries (an ended invocation violates `SendsOnlyToRegistered` only if it did so before it
ended). The bounds are the constants `LastKey`, `LastMedia`, `LastToken` (keys), `MaxTime`
(the clock stops there), `MaxAttempts`, and `LastCommit` (pushes). Three pushes are the
least with which one run is active while a second of its branch is pending and a third
arrives, and with which two runs of one branch meet one of the other.

`DELETE /users` and the query. `UserDeletionMisses` finds that a 200 can leave an
item of the caller although nothing is written during the deletion: the item's write
was acknowledged before the deletion, and the eventually consistent query of
`users/db.py:79` misses it. The docstring of the function (`users/db.py:70`) says
"Delete every item of the user in the table". What does hold is
`NothingOwedSurvives`: everything that had reached every replica is gone.

### Fairness

`FairSpec` of `UserDeletion` and of `PushNotification` asks for weak fairness of the
steps of a running invocation, nothing else: Lambda runs an invocation until it
returns or is stopped. No fairness obliges AWS or FCM to succeed, clients to call,
or replication to happen. An AWS call returns or raises, because botocore bounds its
waiting; the model has no call that never returns.

`FairSpec` of `Packaging` asks that a script that runs goes on: each is a process without
waits, and the installation of a layer has a time limit (`LAYER_INSTALL_TIMEOUT_SECONDS`).
`FairSpec` of `Deployment` asks that some run takes a step while one can: GitHub starts
jobs that may start, ends jobs and approvals by its time limits, and Terraform waits for a
lock for five minutes (`-lock-timeout=5m`). Neither obliges anything to succeed, anyone to
push, or a particular run to be served first.

## Proofs

`UserDeletionProofs` proves, for any users, invocations, stored entries and any page,
batch and retry limits that satisfy `BoundsAssumption` (sizes are positive, counts are
natural numbers) and `EntriesAssumption`:

* `TypeCorrect`: `Spec => []TypeOK`.
* `TrackingInvariant`: `Spec => [](TypeOK /\ Tracking)`.
* `ErasureComplete`: `Spec => []NothingOwedSurvives`.
* `BatchesBounded`: `Spec => []BatchesAccepted`.

`NothingOwedSurvives` speaks of answered invocations only and is not inductive.
`Tracking` is: an owed entry that is still stored is in a store that has failed, in a
store whose turn has not come, or in the current store and ahead of the handler -
past the cursor, or on the page or in the batch at hand (`Ahead`). The proof has one
step per action. Three facts carry it: a page cannot leave out an owed entry it passes,
since an owed entry is not fresh (`ListFinds`); a handler moves an entry from the page
to the batch and drops it from the batch only when it is deleted or the store has
failed (`HandlerKeepsTrack`, `ProceedKeepsTrack`); and other invocations and writers
only remove entries, or add some and cancel the debt (`OthersKeepTrack`). At the answer
no store is ahead, so what is left is in a failed one.

`BatchesBounded` needs its bound for every batch, also those of stopped invocations
(`AllSmall`), and needs batches to be finite, or their cardinality says nothing: a batch
holds entries of one caller, no two of them at one position (`OwnFinite`).

`UserDeletionRefinement` proves `DeletionRefinesContract`: `Spec => ImplementsContract`.
The contract sees, of an invocation, the caller, whether it is idle, busy or answered,
and the failed stores; it does not see stages, cursors, pages, batches and retries. The proof
shows for every action that it is a step of the contract or leaves what the contract
sees unchanged (`SeenChange` says how a change of one invocation looks, `Unseen` what is
invisible). Two steps need more than their own text: a call that deletes erases entries
of the caller only, because its page and batch hold nothing else (`WellFormed`), and an
answer may be given because `Tracking` leaves no owed entry in a store that has not
failed.

`UploadRecordsProofs` proves, for any users, media ids, requests, walkers, attempts and
limits that satisfy `ConstantsAssumption` and `AbsentAssumption`:

* `TypeCorrect`: `Spec => []TypeOK`.
* `RecordsKept`: `Spec => FirstWriteStays`, and `ExactIdDeleted`:
  `Spec => DeletedByExactId`. Both follow from what a step can do to the table
  (`TableSteps`): nothing, one conditional put, or one conditional mark.
* `AnswersStayTrue`: `Spec => []AnswersTrue`. A step leaves all requests but one alone,
  and that one gets no answer about a record or one the table bears out
  (`RequestSteps`, `TruthfulLeaves`); all others were told the truth before and stored
  records are kept (`RecordsStay`). A second 201 for a key would need the key to be
  free, but the first one's record is still there. `Waiting`, that a request has
  no answer until it is answered, makes this inductive: a call that is sent again must not
  carry an answer.
* `RecordsBelong`: `Spec => []PathsBelong`, with the second half of `Waiting`: a create
  under way has a path that belongs to its own user. That such a path is below no other
  user's prefix is about text (`OnePrefix`): the two identities end where their slash
  stands, and neither holds one, so they are equal (`PrefixPieces`, `ListedPieces`); that
  stripping gives a path at all is `PathText`.
* `PagesAreSound`: `Spec => []PagesSound`, and `WalksComplete`: `Spec => []WalkComplete`.
  Neither is inductive. `Walking` is: while a walk runs, all it has received lies behind
  its cursor, so the next page cannot overlap (`InOrder`); and the records that every
  replica showed at its start still are stored and shown - no handler of this module
  removes one - and those behind the cursor have been received (`Covered`).
  That a page is short for every parameter is `PageLimitBound`.

`DeviceTokensProofs` proves, for any users, tokens, requests and attempts that satisfy
`ConstantsAssumption` and `AbsentAssumption`, `TokenTypeCorrect` (`TokenTypeOK`) and
`FirstTimeKept`: `TokenSpec => RegistrationTimeKept`. The argument is `StoredSteps`: a step
leaves the table alone, upserts one registration - whose time is that of the stored one if
there is one - or removes one.

`PushNotificationProofs` builds on it and proves, for any number of execution environments
in addition, `TypeCorrect`, `SentToRegistered` (`SendsOnlyToRegistered`), `DevicesTried`
(`EveryDeviceTried`) and `LiveTokensSurvive` (`LiveTokensStay`). The invariant is `JobInv`
of every job. `EveryDeviceTried` speaks of answers; before them, a token that every query
is bound to show is still registered while the pages are read, is collected once the cursor
has passed it, and after the last page is either still to send to or tried. `TokenStep`
could break the first of these by removing or lagging a token, and takes it out of `stable`
when it does (`TokenStepKeeps`). `LiveTokensSurvive` needs that an invocation which is about
to clean up does so for a token that FCM has dropped. For `SentToRegistered`, what is
registered for the caller, or lags behind for it, is never in `hidden`, so that no page can
bring a hidden token; a token that is registered or moved meanwhile leaves `hidden` first.

`CloudPhotosProofs` proves about the whole system, under the assumptions of `UploadRecords`
and, for the constants that it lacks, `AbsentTokenAssumption` and `SizesAssumption`:

* `SystemTypeCorrect`: all parts stay well typed over their shared tables.
* `HandlersRefine`: `SystemSpec => ImplementsDeletion`. A create or a first registration is
  a `Put` of `UserDeletion`, a mark or an update of a registration changes nothing that it
  sees, an unregistration is a `Withdraw`, and replication is a `Propagate`
  (`RecordsRefine`, `TokensRefine`). Each stored key is one entry of its store
  (`ItemsOfKeys`, `DataShape`), so a step of one key is a step of one entry.
* `ErasureBeside`, `SystemKeepsContract`: with that, `ErasureComplete` and
  `DeletionRefinesContract` hold of the system. They are cited through an instance of their
  module, whose assumptions are proved of the system's constants (`DeletionAssumptions`).
* `UserErasedBeside`: `SystemSpec => []UserErased`.
* `MarksStoreNothing`: `SystemSpec => MarksNeverStore`.

`PackagingProofs` proves `BuildIsComplete`, `Spec => []ArchivesComplete`, for any packages,
files, imports and layers. `Needed(g)` is defined without the algorithm, as the least set
that holds the group and is closed under imports. While a group is scanned, what has been
found lies between the group and `Needed(g)`, and whatever is no longer pending has had its
imports followed (`Scanned`); when nothing is pending the set is closed, and so it is the
least one (`LeastClosed`). That the loop ends is left to `BuildEnds`. It also proves:

* `TypeCorrect`: `Spec => []TypeOK`.
* `VerifiedArchivesLoad`: `Spec => []VerifiedLoads`. `CheckInv` says of a verification
  under way that every group it is done with is `Verified`, unless a failure is noted, and
  of the group at hand that what has loaded is in the archive and everything it asks for
  has loaded or is still to load (`Loading`). When nothing is left to load, the loaded
  modules are closed under what an import runs, and so they hold all that the handlers need.
* `LayersAreFresh`: `Spec => []LayersFresh`, and `NoDirectoryIsLeft`:
  `Spec => []OnlyZipsRemain`. `LayerInv` follows a directory from its installation to its
  removal: fresh while the layer is still to pack, in the archive and gone afterwards; and
  what directories there are besides were there before the build.

`DeploymentProofs` proves `CheckIsSound` first: a source that passes, with `OneBlockPerKey`,
tracks exactly its settings. Every setting is a candidate for its own key because its block
is listed in the form it asks for (`OwnKey`), and the only one because blocks that could
share a key are over the two tables, which are disjoint (`OnlyCandidate`).

It then proves for any number of pushes and any versions that satisfy `SourcesAssumption`
(the sources have `OneBlockPerKey`, and the one deployed first passes the check):
`TypeCorrect`, `QueuesSuffice` (`NoJobReplaced`), `NewestReaches` (`NewestReachesProd`),
`DevComesFirst` (`DevFirst`), `ProdPlansStayFresh`, `ProdMovesForward` (`ProdForward`),
`TriggerComplete` (`EverySettingTracked`) and `StageIsServed` (`StageServes`). The invariant
has seven parts beside the types: one run of a branch is active, one pending that is newer,
and what is unpushed is newest (`QueueInv`); what was pushed has passed the check
(`CheckedInv`); over prod only runs of `main` are active, so that no other can change it
under a plan, and none is older than what it has (`ProdInv`); a run over prod has been
applied to dev (`DevInv`); what is cancelled has a newer push of its branch after it
(`CancelInv`), and a run of `main` that is done has brought prod to its commit, which only a
newer one has changed since (`DoneInv`); and a deployment has published what its trigger
refers to (`ServeInv`), which with `CheckIsSound` is everything. Of the steps of an active
run the proof uses only what they share (`StepMoves`): they change that run, keep its branch
and source, and either leave the environments alone or give one a new state (`ApplyGives`).

Only model-checked: the liveness properties `Responds`, `NotifyEnds`, `BuildEnds` and
`RunsEnd`, which are out of the prover's reach (it reasons neither about ENABLED nor about
fairness). `ImplementsContract` and `ImplementsDeletion` are refinements of safety
specifications, and proved. The constants that make a run of TLC finite (`LastKey`,
`MaxTime`, `LastCommit` and the others) are arbitrary in the theorems.

## Not modelled

* Waits of the backoff, log output, masking, the wording of answers and notifications:
  no property depends on them.
* The details of validation other than those of a path and of a limit: a request is refused
  with 400 or 403, or accepted.
* `users/storage.py:33-37` skips a listed entry without a key and deletes one without a
  version id by its key; S3 lists no such entries (`Collect`).
* In `verify_lambda_packages.py`: a layer that it does not know (132-135), a layer archive
  that is missing or has no `python/` (90, 144-146), and the child's checks that the handler
  is callable and its module is from the archive's directory. Each makes the script fail
  where the model may pass, so `VerifiedLoads` is shown of more passes than the script has.
* The reading of Terraform text by `check_api_deployment_inputs.py` (regular expressions
  over files), and `check_lambda_role_names.py`, which compares names in two files.
* Which attributes of a resource the trigger lists (see ApiSettings): a setting is one
  value, and any change of it is seen if the setting is tracked. The order in which
  Terraform removes settings that are no longer declared is left open; `StageServes` speaks
  of declared ones.
* Manual re-runs of a workflow, an apply that is killed and leaves the lock, and path
  filters of a push. CI is a condition on what is merged: it is checked on each pull
  request, not again on the branch after other merges.
* Tables, bucket, identity, environments and bootstrap in Terraform: declarative, without
  behaviour.
* API Gateway, Cognito, IAM: their outcomes (no identity, 502, 504) are inputs.

## Plan

1. Done: `ErasureContract`, `UserDeletion` and `UploadRecords` with their proofs,
   `DeviceTokens`, `PushNotification`; `CloudPhotos`; `Packaging`, `ApiSettings` and
   `Deployment` with theirs.
2. Done: theorems about every invariant and action property of the runs.
3. Theorems that no run states yet: that `BatchesAccepted` holds beside the handlers of
   `CloudPhotos`, and that `FirstWriteStays` and `AnswersTrue` fail there only by an erasure
   of the same user.
4. `Validation`: `PageLimit`, `FileSize`, `SuccessCount` and the page cursor as operators
   against their messages.
