----------------------------- MODULE DeploymentProofs ----------------------------
(***************************************************************************)
(* Proofs about Deployment for any number of pushes and any versions of    *)
(* the module: the types, the queues of the two levels of concurrency      *)
(* groups, the order in which commits reach prod, and that the trigger     *)
(* sees every setting of what CI has let through.                          *)
(***************************************************************************)
EXTENDS Deployment, TLAPS

-----------------------------------------------------------------------------
(* The check of the redeployment trigger (ApiSettings).                    *)

\* A setting is a candidate for its own key: check_resource_type has found its block
\* in the form the block asks for.
LEMMA OwnKey ==
  ASSUME NEW src \in Source, Passes(src), NEW s \in Settings(src)
  PROVE  s \in Candidates(src, s.key)
<1>1. CASE s.block \in ForEach(src)
  <2>1. s.block \in src.maps
    BY <1>1 DEF Passes, Missing
  <2>2. QED
    BY <1>1, <2>1 DEF Candidates
<1>2. CASE s.block \notin ForEach(src)
  <2>1. src.kind[s.block] = "single" /\ s.key = s.block /\ s.block \in Name
    BY <1>2 DEF Settings
  <2>2. s.block \in Listed(src)
    BY <1>2, <2>1 DEF Passes, Missing, Declared
  <2>3. PICK e \in src.entries : e.name = s.block
    BY <2>2 DEF Listed
  <2>4. e.key = e.name /\ e = [key |-> e.key, name |-> e.name]
    BY <2>3 DEF Passes, Mismatched, Source
  <2>5. QED
    BY <2>1, <2>3, <2>4 DEF Candidates
<1>3. QED
  BY <1>1, <1>2

\* Only the setting itself is a candidate for its key, so that merge() has nothing to
\* drop.
LEMMA OnlyCandidate ==
  ASSUME NEW src \in Source, Passes(src), OneBlockPerKey(src),
         NEW k \in Name, NEW s \in Candidates(src, k), NEW t \in Candidates(src, k)
  PROVE  s = t
<1> DEFINE Single(u) == src.kind[u.block] = "single" /\ u.key = u.block /\ u.block = k
           Mapped(u) == /\ u.block \in ForEach(src) /\ u.key = k
                        /\ k \in src.keys[src.kind[u.block]]
<1>1. ASSUME NEW u \in Candidates(src, k)
      PROVE  /\ Single(u) \/ Mapped(u)
             /\ u = [block |-> u.block, key |-> u.key] /\ u.block \in Name
  <2>1. u \in Settings(src) /\ u = [block |-> u.block, key |-> u.key] /\ u.block \in Name
    BY <1>1 DEF Candidates, Settings
  <2>2. CASE u.key = k /\ u.block \in src.maps \cap ForEach(src)
    BY <2>1, <2>2, CollectionAssumption DEF Settings, ForEach
  <2>3. CASE src.kind[u.block] = "single" /\ [key |-> k, name |-> u.block] \in src.entries
    <3>1. k = u.block
      BY <2>3 DEF Passes, Mismatched
    <3>2. QED
      BY <2>1, <2>3, <3>1, CollectionAssumption DEF Settings, ForEach
  <2>4. QED
    BY <1>1, <2>1, <2>2, <2>3 DEF Candidates
<1>2. CASE Single(s) /\ Single(t)
  BY <1>1, <1>2
<1>3. CASE Mapped(s) /\ Mapped(t)
  <2>1. k \in src.keys[src.kind[s.block]] \cap src.keys[src.kind[t.block]]
    BY <1>3
  <2>2. s.block = t.block
    <3> SUFFICES ASSUME s.block # t.block PROVE FALSE
      OBVIOUS
    <3>1. {src.kind[s.block], src.kind[t.block]} = Table
      BY <1>3, <2>1 DEF OneBlockPerKey
    <3>2. k \in SharedKeys(src)
      BY <2>1, <3>1 DEF SharedKeys, Table
    <3>3. QED
      BY <3>2 DEF Passes
  <2>3. QED
    BY <1>1, <1>3, <2>2
<1>4. ASSUME NEW u \in {s, t}, NEW v \in {s, t}, Single(u), Mapped(v)
      PROVE  FALSE
  BY <1>4, <1>1 DEF OneBlockPerKey, ForEach
<1>5. QED
  BY <1>1, <1>2, <1>3, <1>4

\* A module that passes the check feeds every setting it declares, and nothing else,
\* into the trigger that redeploys the stage (check_api_deployment_inputs.py).
THEOREM CheckIsSound ==
  ASSUME NEW src \in Source, Passes(src), OneBlockPerKey(src)
  PROVE  Tracked(src) = Settings(src)
<1>1. ASSUME NEW s \in Settings(src)
      PROVE  s \in Tracked(src)
  <2>1. s.key \in Name /\ s \in Candidates(src, s.key)
    BY <1>1, OwnKey DEF Settings
  <2>2. (CHOOSE c \in Candidates(src, s.key) : TRUE) = s
    BY <2>1, OnlyCandidate
  <2>3. QED
    BY <2>1, <2>2 DEF Tracked
<1>2. ASSUME NEW s \in Tracked(src)
      PROVE  s \in Settings(src)
  BY <1>2 DEF Tracked, Candidates
<1>3. QED
  BY <1>1, <1>2

-----------------------------------------------------------------------------
(* The parts of the inductive invariant.                                   *)

OneValue(setups) == \A u, v \in setups : u.setting = v.setting => u = v

Pending == In({"pending"})
Unpushed == In({"unpushed"})

\* One run of a branch is active and one pending, a newer one; what is not pushed yet is
\* newer still.
QueueInv ==
  /\ \A c, d \in Active : run[c].ref = run[d].ref => c = d
  /\ \A c, d \in Pending : run[c].ref = run[d].ref => c = d
  /\ \A c \in Pending, d \in Active : run[c].ref = run[d].ref => d < c
  /\ \A c \in Unpushed, d \in Commit \ Unpushed : d < c
  /\ \A c \in Pending : run[c].env = "dev"

CheckedInv == \A c \in Commit : run[c].tree \in Merged \cup {First}

\* Prod belongs to the branch main, whose runs come in the order of their commits.
ProdInv ==
  /\ \A c \in Active : run[c].env = "prod" => run[c].ref = "main"
  /\ env["prod"].commit \notin Unpushed
  /\ \A c \in Active \cup Pending : run[c].ref = "main" => env["prod"].commit <= c
  /\ ProdPlansFresh

\* A run is cancelled only for a newer push of its branch.
CancelInv ==
  \A c \in In({"cancelled"}) :
    \E d \in Commit : d > c /\ run[d].ref = run[c].ref /\ run[d].phase # "unpushed"

\* A run of main that is done has brought prod to its commit; since then prod has stayed
\* there or has gone on to a newer one.
DoneInv ==
  \A c \in In({"done"}) : run[c].ref = "main" =>
    env["prod"].commit > c \/ (env["prod"].commit = c /\ env["prod"].clean)

\* A deployment has published what its trigger refers to, and once an apply has succeeded
\* the stage has it.
Serving(s, tree) ==
  /\ s.trigger \subseteq s.snapshot
  /\ s.clean => s.stage = s.snapshot /\ s.trigger = Inputs[tree]

ServeInv == \A e \in Env : /\ env[e].commit \notin Unpushed
                           /\ Serving(env[e], run[env[e].commit].tree)

\* A run goes on to prod once dev has its commit.
DevInv ==
  /\ DevFirst
  /\ \A c \in Active : run[c].env = "prod" => c \in env["dev"].applied

-----------------------------------------------------------------------------
(* Settings.                                                               *)

LEMMA SetupsTyped ==
  \A t \in Tree : Setups[t] \in SUBSET Setup /\ OneValue(Setups[t]) /\ Inputs[t] \in SUBSET Setups[t]
<1> SUFFICES ASSUME NEW t \in Tree
             PROVE  Setups[t] \in SUBSET Setup /\ OneValue(Setups[t]) /\ Inputs[t] \in SUBSET Setups[t]
  OBVIOUS
<1>1. Content[t].value \in [Name -> Value]
  BY SourcesAssumption DEF Source
<1>2. Setups[t] = {[setting |-> s, value |-> Content[t].value[s.block]] : s \in Settings(Content[t])}
  BY DEF Setups
<1>3. Settings(Content[t]) \subseteq Setting
  BY DEF Settings, Setting
<1>4. Setups[t] \in SUBSET Setup
  BY <1>1, <1>2, <1>3 DEF Setup, Setting
<1>5. OneValue(Setups[t])
  BY <1>2 DEF OneValue
<1>6. Inputs[t] \in SUBSET Setups[t]
  BY DEF Inputs
<1>7. QED
  BY <1>4, <1>5, <1>6

LEMMA BroughtTyped ==
  ASSUME NEW live \in SUBSET Setup, OneValue(live), NEW t \in Tree, NEW changed
  PROVE  Brought(live, t, changed) \in SUBSET Setup /\ OneValue(Brought(live, t, changed))
  BY SetupsTyped DEF Brought, OneValue

LEMMA PublishedTyped ==
  ASSUME NEW s \in State, OneValue(s.live), OneValue(s.snapshot), NEW t \in Tree, NEW done,
         NEW p \in Published(s, t, done)
  PROVE  p \in SUBSET Setup /\ OneValue(p)
<1>1. CASE s.trigger = Inputs[t]
  BY <1>1 DEF Published, State
<1>2. CASE s.trigger # Inputs[t]
  <2>1. PICK before : p = Brought(s.live, t, before)
    BY <1>2 DEF Published
  <2>2. QED
    BY <2>1, BroughtTyped DEF State
<1>3. QED
  BY <1>1, <1>2

\* The deployment comes after the settings that its trigger refers to (the references of
\* api_deployment_inputs).
LEMMA PublishedServes ==
  ASSUME NEW s, s.trigger \subseteq s.snapshot, NEW t \in Tree, NEW done,
         NEW p \in Published(s, t, done)
  PROVE  Inputs[t] \subseteq p
<1>1. CASE s.trigger = Inputs[t]
  BY <1>1 DEF Published
<1>2. CASE s.trigger # Inputs[t]
  <2>1. PICK before : p = Brought(s.live, t, before) /\ Referred(t) \subseteq before
    BY <1>2 DEF Published
  <2>2. QED
    BY <2>1, SetupsTyped DEF Brought, Referred
<1>3. QED
  BY <1>1, <1>2

\* api_deployment_inputs: what passes the check feeds the trigger completely.
LEMMA CheckedTracked ==
  ASSUME NEW t \in Merged \cup {First} PROVE Inputs[t] = Setups[t]
<1>1. t \in Tree /\ Passes(Content[t]) /\ OneBlockPerKey(Content[t]) /\ Content[t] \in Source
  BY SourcesAssumption DEF Merged
<1>2. Tracked(Content[t]) = Settings(Content[t])
  BY <1>1, CheckIsSound
<1>3. \A u \in Setups[t] : u.setting \in Settings(Content[t])
  BY <1>1 DEF Setups
<1>4. QED
  BY <1>1, <1>2, <1>3 DEF Inputs

-----------------------------------------------------------------------------
(* Type correctness.                                                       *)

\* An apply gives one environment a new state, of its own commit.
Given(c, s) ==
  /\ env' = [env EXCEPT ![run[c].env] = s] /\ s.commit = c
  /\ OneValue(s.live) /\ OneValue(s.snapshot) /\ OneValue(s.stage)
  /\ Serving(s, run[c].tree)
  /\ LET applied == env[run[c].env].applied
     IN  applied \subseteq s.applied /\ s.applied \subseteq applied \cup {c}

\* Both kinds of apply do, and one that does not complete fails its run.
LEMMA ApplyGives ==
  ASSUME TypeOK, ServeInv, NEW c \in Commit, Apply(c) \/ ApplyInPart(c)
  PROVE  \E s \in State : Given(c, s) /\ ((c \in s.applied /\ s.clean) \/ run' = Failed(c))
<1> DEFINE e == run[c].env
           s == env[e]
           tree == run[c].tree
<1>1. /\ e \in Env /\ tree \in Tree /\ s \in State
      /\ OneValue(s.live) /\ OneValue(s.snapshot) /\ OneValue(s.stage)
      /\ s.trigger \subseteq s.snapshot
  BY DEF TypeOK, Run, OneValue, ServeInv, Serving
<1>2. /\ Setups[tree] \in SUBSET Setup /\ OneValue(Setups[tree])
      /\ Inputs[tree] \in SUBSET Setup
  BY <1>1, SetupsTyped
<1>3. CASE Apply(c)
  <2>1. PICK published \in Published(s, tree, Concerned(s, tree)),
             serial \in {s.serial + 1} \cup IF Current(s, tree) THEN {s.serial} ELSE {} :
          env' = [env EXCEPT ![e] =
                       [serial |-> serial, live |-> Setups[tree], trigger |-> Inputs[tree],
                        snapshot |-> published, stage |-> published,
                        commit |-> c, clean |-> TRUE, applied |-> s.applied \cup {c}]]
    BY <1>3 DEF Apply
  <2>2. published \in SUBSET Setup /\ OneValue(published) /\ Inputs[tree] \subseteq published
    BY <1>1, <2>1, PublishedTyped, PublishedServes
  <2>3. serial \in Nat
    BY <1>1, <2>1 DEF State
  <2> DEFINE new == [serial |-> serial, live |-> Setups[tree], trigger |-> Inputs[tree],
                     snapshot |-> published, stage |-> published,
                     commit |-> c, clean |-> TRUE, applied |-> s.applied \cup {c}]
  <2>4. new \in State
    BY <1>1, <1>2, <2>2, <2>3 DEF State
  <2>5. Serving(new, tree)
    BY <2>2 DEF Serving
  <2>6. QED
    BY <1>1, <1>2, <2>1, <2>2, <2>4, <2>5 DEF Given
<1>4. CASE ApplyInPart(c)
  <2>1. PICK done \in SUBSET Concerned(s, tree) :
          LET kept == [s EXCEPT !.serial = @ + 1, !.live = Brought(@, tree, done),
                                !.commit = c, !.clean = FALSE]
          IN  \/ env' = [env EXCEPT ![e] = kept]
              \/ \E published \in Published(s, tree, done), stage \in BOOLEAN :
                   env' = [env EXCEPT ![e] =
                            [kept EXCEPT !.trigger = Inputs[tree], !.snapshot = published,
                                         !.stage = IF stage THEN published ELSE @]]
    BY <1>4 DEF ApplyInPart
  <2> DEFINE live == Brought(s.live, tree, done)
             kept == [s EXCEPT !.serial = @ + 1, !.live = live, !.commit = c, !.clean = FALSE]
  <2>2. live \in SUBSET Setup /\ OneValue(live)
    BY <1>1, BroughtTyped DEF State
  <2>3. /\ kept = [s EXCEPT !.serial = @ + 1, !.live = live, !.commit = c, !.clean = FALSE]
        /\ kept = [s EXCEPT !.serial = @ + 1, !.live = Brought(@, tree, done),
                            !.commit = c, !.clean = FALSE]
    OBVIOUS
  <2> HIDE DEF live, kept
  <2>4. /\ kept \in State /\ kept.commit = c
        /\ kept.live = live /\ kept.snapshot = s.snapshot /\ kept.stage = s.stage
        /\ kept.trigger = s.trigger /\ ~kept.clean /\ kept.applied = s.applied
    <3>1. PICK clean \in BOOLEAN : clean = FALSE
      OBVIOUS
    <3>2. kept = [s EXCEPT !.serial = @ + 1, !.live = live, !.commit = c, !.clean = clean]
      BY <2>3, <3>1, Zenon
    <3>3. s.serial + 1 \in Nat
      BY <1>1 DEF State
    <3>4. QED
      BY <1>1, <2>2, <3>1, <3>2, <3>3 DEF State
  <2>5. CASE env' = [env EXCEPT ![e] = kept]
    BY <1>1, <1>4, <2>2, <2>4, <2>5 DEF Given, Serving, ApplyInPart
  <2>6. CASE \E published \in Published(s, tree, done), stage \in BOOLEAN :
               env' = [env EXCEPT ![e] =
                        [kept EXCEPT !.trigger = Inputs[tree], !.snapshot = published,
                                     !.stage = IF stage THEN published ELSE @]]
    <3>1. PICK published \in Published(s, tree, done), stage \in BOOLEAN :
            env' = [env EXCEPT ![e] =
                     [kept EXCEPT !.trigger = Inputs[tree], !.snapshot = published,
                                  !.stage = IF stage THEN published ELSE @]]
      BY <2>6
    <3>2. published \in SUBSET Setup /\ OneValue(published) /\ Inputs[tree] \subseteq published
      BY <1>1, <3>1, PublishedTyped, PublishedServes
    <3> DEFINE served == IF stage THEN published ELSE s.stage
               new == [kept EXCEPT !.trigger = Inputs[tree], !.snapshot = published,
                                   !.stage = served]
    <3>3. served \in SUBSET Setup /\ OneValue(served)
      BY <1>1, <3>2 DEF State
    <3>4. env' = [env EXCEPT ![e] = new]
      BY <2>4, <3>1
    <3> HIDE DEF served
    <3>5. /\ new \in State /\ new.commit = c
          /\ new.live = live /\ new.snapshot = published /\ new.stage = served
          /\ new.trigger = Inputs[tree] /\ ~new.clean /\ new.applied = s.applied
      BY <1>2, <2>4, <3>2, <3>3 DEF State
    <3>6. QED
      BY <1>4, <2>2, <3>2, <3>3, <3>4, <3>5 DEF Given, Serving, ApplyInPart
  <2>7. QED
    BY <2>1, <2>3, <2>5, <2>6
<1>5. QED
  BY <1>3, <1>4

-----------------------------------------------------------------------------
(* What a step does to its run.                                            *)

Live == {"arriving", "waiting", "running"}

\* A step of an active run changes that run only, and not its branch or source.
Moved(c, r) ==
  /\ c \in Active /\ r \in Run /\ run' = [run EXCEPT ![c] = r]
  /\ r.phase \in Live \cup {"done", "failed"}
  /\ r.ref = run[c].ref /\ r.tree = run[c].tree

\* It waits, ends, or has planned: the environment stays.
Stays(c, r) ==
  /\ env' = env /\ r.phase # "done"
  /\ r.phase \in Live => /\ r.env = run[c].env
                         /\ \/ r.job = run[c].job /\ r.serial = run[c].serial
                            \/ r.serial = env[r.env].serial

\* It has applied: the run goes on to prod, if it is on main, or ends.
Applied(c, r) ==
  /\ run[c].phase = "running"
  /\ \E s \in State : /\ Given(c, s) /\ (r.phase \in Live => c \in s.applied)
                      /\ r.phase = "done" => s.clean
  /\ r.phase = "done" /\ r.ref = "main" => run[c].env = "prod"
  /\ r.phase \in Live => /\ run[c].env = "dev"
                         /\ r.env = "prod" /\ r.ref = "main" /\ r.job = "plan"

\* Two branches bring one job each: while one holds the group of an environment and
\* another arrives, none can be waiting.
LEMMA NoneWaits ==
  ASSUME TypeOK, QueueInv, NEW c \in Commit, run[c].phase = "arriving", NEW e, Holds(e) # {}
  PROVE  Waits(e) = {}
<1> SUFFICES ASSUME NEW w \in Waits(e) PROVE FALSE
  OBVIOUS
<1>1. PICK h \in Holds(e) : TRUE
  OBVIOUS
<1>2. /\ c \in Active /\ w \in Active /\ h \in Active
      /\ run[w].phase = "waiting" /\ run[h].phase = "running"
  BY <1>1 DEF Waits, Holds, In, Active
<1>3. run[c].ref \in Ref /\ run[w].ref \in Ref /\ run[h].ref \in Ref
  BY <1>2 DEF TypeOK, Run, Active, In
<1>4. QED
  BY <1>2, <1>3 DEF QueueInv, Ref

LEMMA WaitingMoves ==
  ASSUME TypeOK, QueueInv, NEW c \in Commit, Arrive(c) \/ TakeGroup(c)
  PROVE  \E r : Moved(c, r) /\ Stays(c, r)
<1>1. PICK phase \in {"waiting", "running"} :
        run' = [run EXCEPT ![c] = [run[c] EXCEPT !.phase = phase]]
  <2>1. CASE Arrive(c)
    <3>1. CASE run' = [run EXCEPT ![c].phase = "running"]
      BY <3>1
    <3>2. CASE ~(run' = [run EXCEPT ![c].phase = "running"])
      <4>1. run[c].phase = "arriving" /\ Holds(run[c].env) # {}
        BY <2>1, <3>2 DEF Arrive
      <4>2. Waits(run[c].env) = {}
        BY <4>1, NoneWaits
      <4>3. run' = [d \in Commit |-> IF d = c THEN [run[d] EXCEPT !.phase = "waiting"] ELSE run[d]]
        BY <2>1, <3>2, <4>2 DEF Arrive
      <4>4. run' = [run EXCEPT ![c] = [run[c] EXCEPT !.phase = "waiting"]]
        BY <4>3 DEF TypeOK
      <4>5. QED
        BY <4>4
    <3>3. QED
      BY <3>1, <3>2
  <2>2. CASE TakeGroup(c)
    BY <2>2 DEF TakeGroup
  <2>3. QED
    BY <2>1, <2>2
<1>2. c \in Active /\ env' = env /\ run[c] \in Run
  BY DEF Arrive, TakeGroup, Active, In, TypeOK
<1> DEFINE r == [run[c] EXCEPT !.phase = phase]
<1>3. r \in Run /\ r.phase = phase /\ r.ref = run[c].ref /\ r.tree = run[c].tree
      /\ r.env = run[c].env /\ r.job = run[c].job /\ r.serial = run[c].serial
  BY <1>2 DEF Run
<1>4. QED
  BY <1>1, <1>2, <1>3 DEF Moved, Stays, Live

LEMMA FailedMoves ==
  ASSUME TypeOK, NEW c \in Active, run' = Failed(c)
  PROVE  \E r : Moved(c, r) /\ r.phase = "failed"
<1> DEFINE r == [run[c] EXCEPT !.phase = "failed", !.job = "plan", !.serial = 0]
<1>1. c \in Commit /\ run[c] \in Run
  BY DEF Active, In, TypeOK
<1>2. r \in Run /\ r.phase = "failed" /\ r.ref = run[c].ref /\ r.tree = run[c].tree
  BY <1>1 DEF Run
<1>3. run' = [run EXCEPT ![c] = r]
  BY DEF Failed, Over
<1>4. QED
  BY <1>2, <1>3 DEF Moved

LEMMA PlanMoves ==
  ASSUME TypeOK, NEW c \in Commit, Plan(c)
  PROVE  \E r : Moved(c, r) /\ Stays(c, r)
<1> DEFINE serial == env[run[c].env].serial
           r == [run[c] EXCEPT !.phase = "arriving", !.job = "apply", !.serial = serial]
<1>1. c \in Active /\ run[c] \in Run /\ env' = env
  BY DEF Plan, Active, In, TypeOK
<1>2. serial \in Nat
  BY <1>1 DEF TypeOK, State, Run
<1>3. run' = [run EXCEPT ![c] = r]
  BY DEF Plan
<1>4. /\ r.serial = env[run[c].env].serial
      /\ r \in Run /\ r.phase = "arriving" /\ r.ref = run[c].ref /\ r.tree = run[c].tree
      /\ r.env = run[c].env
  BY <1>1, <1>2 DEF Run
<1>5. QED
  BY <1>1, <1>3, <1>4 DEF Moved, Stays, Live

LEMMA ApplyMoves ==
  ASSUME TypeOK, ServeInv, NEW c \in Commit, Apply(c) \/ ApplyInPart(c)
  PROVE  \E r : Moved(c, r) /\ Applied(c, r)
<1>1. c \in Active /\ run[c].phase = "running" /\ run[c] \in Run
  BY DEF Apply, ApplyInPart, Active, In, TypeOK
<1>2. \E s \in State : Given(c, s) /\ ((c \in s.applied /\ s.clean) \/ run' = Failed(c))
  BY ApplyGives
<1>3. CASE run' = Failed(c)
  BY <1>1, <1>2, <1>3, FailedMoves DEF Applied, Live
<1>4. CASE run' # Failed(c) /\ run[c].env = "dev" /\ run[c].ref = "main"
  <2> DEFINE r == [run[c] EXCEPT !.env = "prod", !.job = "plan", !.phase = "arriving", !.serial = 0]
  <2>1. run' = [run EXCEPT ![c] = r]
    BY <1>4 DEF Apply, ApplyInPart, AfterApply
  <2>2. /\ r \in Run /\ r.phase = "arriving" /\ r.ref = run[c].ref /\ r.tree = run[c].tree
        /\ r.env = "prod" /\ r.job = "plan"
    BY <1>1 DEF Run, Env
  <2>3. QED
    BY <1>1, <1>2, <1>4, <2>1, <2>2 DEF Moved, Applied, Live
<1>5. CASE run' # Failed(c) /\ ~(run[c].env = "dev" /\ run[c].ref = "main")
  <2> DEFINE r == [run[c] EXCEPT !.phase = "done", !.job = "plan", !.serial = 0]
  <2>1. run' = [run EXCEPT ![c] = r]
    BY <1>5 DEF Apply, ApplyInPart, AfterApply, Over
  <2>2. r \in Run /\ r.phase = "done" /\ r.ref = run[c].ref /\ r.tree = run[c].tree
    BY <1>1 DEF Run
  <2>3. run[c].ref = "main" => run[c].env = "prod"
    BY <1>1, <1>5 DEF Run, Env
  <2>4. QED
    BY <1>1, <1>2, <1>5, <2>1, <2>2, <2>3 DEF Moved, Applied, Live
<1>6. QED
  BY <1>3, <1>4, <1>5

\* Every step of a run but its start.
LEMMA StepMoves ==
  ASSUME TypeOK, QueueInv, ServeInv, NEW c \in Commit, RunStep(c), ~StartRun(c)
  PROVE  \E r : Moved(c, r) /\ (Stays(c, r) \/ Applied(c, r))
<1>1. CASE Arrive(c) \/ TakeGroup(c)
  BY <1>1, WaitingMoves
<1>2. CASE JobFails(c) \/ StalePlan(c)
  <2>1. c \in Active /\ env' = env /\ run' = Failed(c)
    BY <1>2 DEF JobFails, StalePlan, Active, In
  <2>2. QED
    BY <2>1, FailedMoves DEF Stays, Live
<1>3. CASE Plan(c)
  BY <1>3, PlanMoves
<1>4. CASE Apply(c) \/ ApplyInPart(c)
  BY <1>4, ApplyMoves
<1>5. QED
  BY <1>1, <1>2, <1>3, <1>4 DEF RunStep

-----------------------------------------------------------------------------
(* Each step keeps the types and the invariants.                           *)

AllInv == /\ TypeOK /\ QueueInv /\ CheckedInv /\ ProdInv /\ ServeInv /\ DevInv
          /\ NoJobReplaced /\ CancelInv /\ DoneInv

LEMMA InitHolds == Init => AllInv
<1> SUFFICES ASSUME Init PROVE AllInv
  OBVIOUS
<1>1. 0 \in Commit /\ First \in Tree /\ "main" \in Ref
  BY SourcesAssumption DEF Commit, Ref
<1>2. \A c \in Commit :
        /\ run[c] = NewRun(IF c = 0 THEN "done" ELSE "unpushed", "main", First)
        /\ run[c] \in Run /\ run[c].ref = "main" /\ run[c].tree = First
        /\ run[c].phase = IF c = 0 THEN "done" ELSE "unpushed"
  BY <1>1 DEF Init, NewRun, Run, Env
<1>3. run \in [Commit -> Run]
  BY <1>2 DEF Init
<1>4. TypeOK
  <2> DEFINE s == [serial |-> 0, live |-> Setups[First], trigger |-> Inputs[First],
                   snapshot |-> Setups[First], stage |-> Setups[First],
                   commit |-> 0, clean |-> TRUE, applied |-> {0}]
  <2>1. env = [e \in Env |-> s]
    BY DEF Init
  <2>2. /\ Setups[First] \in SUBSET Setup /\ OneValue(Setups[First])
        /\ Inputs[First] \in SUBSET Setup
    BY <1>1, SetupsTyped
  <2>3. s \in State
    BY <1>1, <2>2 DEF State
  <2> HIDE DEF s
  <2>4. env \in [Env -> State] /\ \A e \in Env : env[e] = s
    BY <2>1, <2>3
  <2>5. s.live = Setups[First] /\ s.snapshot = Setups[First] /\ s.stage = Setups[First]
    BY DEF s
  <2>6. QED
    BY <1>3, <2>2, <2>4, <2>5 DEF TypeOK, OneValue
<1>5. Active = {} /\ Pending = {} /\ NoJobReplaced
  BY <1>2 DEF Active, Pending, In, NoJobReplaced
<1>6. Unpushed = Commit \ {0}
  BY <1>2 DEF Unpushed, In
<1>7. QueueInv
  BY <1>5, <1>6 DEF QueueInv, Commit
<1>8. \A e \in Env : /\ env[e].commit = 0 /\ env[e].applied = {0} /\ env[e].trigger = Inputs[First]
                    /\ env[e].snapshot = Setups[First] /\ env[e].stage = Setups[First]
  BY DEF Init
<1>9. "prod" \in Env /\ "dev" \in Env
  BY DEF Env
<1>10. ServeInv
  BY <1>1, <1>2, <1>6, <1>8, SetupsTyped DEF ServeInv, Serving
<1>11. DevInv
  BY <1>1, <1>2, <1>5, <1>8, <1>9 DEF DevInv, DevFirst
<1>12. CancelInv
  BY <1>2 DEF CancelInv, In
<1>13. DoneInv
  <2>1. \A c \in In({"done"}) : c = 0
    BY <1>2 DEF In
  <2>2. env["prod"].clean
    BY <1>9 DEF Init
  <2>3. QED
    BY <1>8, <1>9, <2>1, <2>2 DEF DoneInv
<1>14. QED
  BY <1>2, <1>4, <1>5, <1>6, <1>7, <1>8, <1>9, <1>10, <1>11, <1>12, <1>13
  DEF AllInv, CheckedInv, ProdInv, ProdPlansFresh

LEMMA MovedType ==
  ASSUME TypeOK, NEW c, NEW r, Moved(c, r), Stays(c, r) \/ Applied(c, r)
  PROVE  TypeOK'
<1>1. run' \in [Commit -> Run]
  BY DEF Moved, TypeOK
<1>2. CASE env' = env
  BY <1>1, <1>2 DEF TypeOK
<1>3. CASE Applied(c, r)
  <2>1. PICK s \in State :
          /\ env' = [env EXCEPT ![run[c].env] = s] /\ s.commit = c
          /\ OneValue(s.live) /\ OneValue(s.snapshot) /\ OneValue(s.stage)
    BY <1>3 DEF Applied, Given
  <2>2. env' \in [Env -> State]
    BY <2>1 DEF TypeOK
  <2>3. \A e \in Env : OneValue(env'[e].live) /\ OneValue(env'[e].snapshot) /\ OneValue(env'[e].stage)
    BY <2>1 DEF TypeOK, OneValue
  <2>4. QED
    BY <1>1, <2>2, <2>3 DEF TypeOK, OneValue
<1>4. QED
  BY <1>2, <1>3 DEF Stays

\* What the queues look like after such a step.
LEMMA MovedSets ==
  ASSUME TypeOK, NEW c, NEW r, Moved(c, r)
  PROVE  /\ c \in Commit
         /\ \A d \in Commit : run'[d].ref = run[d].ref /\ run'[d].tree = run[d].tree
         /\ \A d \in Commit \ {c} : run'[d] = run[d]
         /\ run'[c] = r
         /\ Active' \subseteq Active /\ Pending' = Pending /\ Unpushed' = Unpushed
         /\ c \in Active' => r.phase \in Live
         /\ c \notin Pending /\ c \notin Unpushed
         /\ NoJobReplaced => NoJobReplaced'
         /\ CancelInv => CancelInv'
<1>1. c \in Commit /\ run[c].phase \in Live
  BY DEF Moved, Active, In, Live
<1>2. run'[c] = r /\ \A d \in Commit \ {c} : run'[d] = run[d]
  BY <1>1 DEF Moved, TypeOK
<1>3. r.phase \in Live \cup {"done", "failed"}
  BY DEF Moved
<1>4. Active' \subseteq Active
  BY <1>1, <1>2 DEF Active, In, Live
<1>5. Pending' = Pending /\ Unpushed' = Unpushed /\ c \notin Pending /\ c \notin Unpushed
  BY <1>1, <1>2, <1>3 DEF Pending, Unpushed, In, Live
<1>6. NoJobReplaced => NoJobReplaced'
  BY <1>1, <1>2, <1>3 DEF NoJobReplaced, In, Live
<1>7. c \in Active' => r.phase \in Live
  BY <1>2 DEF Active, In, Live
<1>8. CancelInv => CancelInv'
  <2>1. In({"cancelled"})' = In({"cancelled"})
    BY <1>1, <1>2, <1>3 DEF In, Live
  <2>2. \A d \in Commit : run[d].phase # "unpushed" => run'[d].phase # "unpushed"
    BY <1>1, <1>2, <1>3 DEF Live
  <2>3. \A d \in Commit : run'[d].ref = run[d].ref
    BY <1>2 DEF Moved
  <2>4. In({"cancelled"}) \subseteq Commit
    BY DEF In
  <2>5. QED
    BY <2>1, <2>2, <2>3, <2>4 DEF CancelInv
<1>9. QED
  BY <1>1, <1>2, <1>4, <1>5, <1>6, <1>7, <1>8 DEF Moved

LEMMA MovedQueues ==
  ASSUME TypeOK, QueueInv, CheckedInv, NEW c, NEW r, Moved(c, r)
  PROVE  QueueInv' /\ CheckedInv'
<1>1. CheckedInv'
  BY MovedSets DEF CheckedInv, Merged
<1>2. Active \subseteq Commit /\ Pending \subseteq Commit
  BY DEF Active, Pending, In
<1>3. QueueInv'
  BY <1>2, MovedSets DEF QueueInv
<1>4. QED
  BY <1>1, <1>3

\* Only the active run of main changes prod, and it is the newest that has.
LEMMA MovedProd ==
  ASSUME TypeOK, QueueInv, ProdInv, NEW c, NEW r, Moved(c, r), Stays(c, r) \/ Applied(c, r)
  PROVE  ProdInv' /\ env'["prod"].commit >= env["prod"].commit
<1>1. /\ Active \subseteq Commit /\ Pending \subseteq Commit /\ c \in Active
      /\ Commit \subseteq Nat /\ env["prod"].commit \in Commit /\ "prod" \in Env
      /\ run[c] \in Run
  BY DEF Active, Pending, In, Commit, TypeOK, State, Env, Moved
<1>2. /\ \A d \in Commit : run'[d].ref = run[d].ref
      /\ \A d \in Commit \ {c} : run'[d] = run[d]
      /\ run'[c] = r
      /\ Active' \subseteq Active /\ Pending' = Pending /\ Unpushed' = Unpushed
      /\ c \in Active' => r.phase \in Live
      /\ c \notin Pending /\ c \notin Unpushed
  BY MovedSets
<1>3. c \in Nat /\ env["prod"].commit \in Nat
  BY <1>1
<1>4. CASE env' = env /\ Stays(c, r)
  <2>1. \A d \in Active' : run'[d].env = "prod" => run'[d].ref = "main"
    BY <1>1, <1>4, <1>2 DEF ProdInv, Stays
  <2>2. ProdPlansFresh'
    <3>1. \A d \in Active' : run'[d].env = "prod" /\ run'[d].job = "apply" =>
                               run'[d].serial = env'["prod"].serial
      BY <1>1, <1>4, <1>2 DEF ProdInv, ProdPlansFresh, Stays
    <3>2. QED
      BY <3>1 DEF ProdPlansFresh
  <2>3. /\ env'["prod"].commit \notin Unpushed'
        /\ \A d \in Active' \cup Pending' : run'[d].ref = "main" => env'["prod"].commit <= d
    BY <1>1, <1>4, <1>2 DEF ProdInv
  <2>4. env'["prod"].commit >= env["prod"].commit
    BY <1>4, <1>3
  <2>5. QED
    BY <2>1, <2>2, <2>3, <2>4 DEF ProdInv
<1>5. CASE Applied(c, r)
  <2>1. PICK s \in State : env' = [env EXCEPT ![run[c].env] = s] /\ s.commit = c
    BY <1>5 DEF Applied, Given
  <2>2. env'["prod"] = IF run[c].env = "prod" THEN s ELSE env["prod"]
    BY <1>1, <2>1 DEF TypeOK
  <2>3. run[c].env = "prod" => run[c].ref = "main"
    BY <1>1 DEF ProdInv
  <2>4. \A d \in Active' : run'[d].env = "prod" => run'[d].ref = "main"
    BY <1>1, <1>5, <1>2 DEF ProdInv, Applied
  <2>5. env'["prod"].commit \notin Unpushed'
    BY <2>1, <2>2, <1>2 DEF ProdInv
  <2>6. \A d \in Active' \cup Pending' : run'[d].ref = "main" => env'["prod"].commit <= d
    BY <1>1, <2>1, <2>2, <2>3, <1>2 DEF ProdInv, QueueInv
  <2>7. ProdPlansFresh'
    <3>1. \A d \in Active' : run'[d].env = "prod" /\ run'[d].job = "apply" =>
                               run'[d].serial = env'["prod"].serial
      BY <1>1, <1>5, <2>2, <2>3, <2>4, <1>2 DEF ProdInv, ProdPlansFresh, QueueInv, Applied
    <3>2. QED
      BY <3>1 DEF ProdPlansFresh
  <2>8. env'["prod"].commit >= env["prod"].commit
    <3>1. CASE run[c].env = "prod"
      <4>1. env["prod"].commit <= c /\ env'["prod"].commit = c
        BY <1>1, <2>1, <2>2, <2>3, <3>1 DEF ProdInv
      <4>2. QED
        BY <1>3, <4>1
    <3>2. CASE run[c].env # "prod"
      BY <1>3, <2>2, <3>2
    <3>3. QED
      BY <3>1, <3>2
  <2>9. QED
    BY <2>4, <2>5, <2>6, <2>7, <2>8 DEF ProdInv
<1>6. QED
  BY <1>4, <1>5 DEF Stays

\* The trigger of an environment goes with what its deployment has published.
LEMMA MovedServes ==
  ASSUME TypeOK, ServeInv, NEW c, NEW r, Moved(c, r), Stays(c, r) \/ Applied(c, r)
  PROVE  ServeInv'
<1>1. /\ c \in Commit /\ c \notin Unpushed /\ Unpushed' = Unpushed
      /\ \A d \in Commit : run'[d].tree = run[d].tree
  BY MovedSets
<1>2. \A e \in Env : env[e] \in State /\ env[e].commit \in Commit
  BY DEF TypeOK, State
<1>3. \A s, t : Serving(s, t)' = Serving(s, t)
  BY DEF Serving
<1>4. CASE env' = env
  BY <1>1, <1>2, <1>3, <1>4 DEF ServeInv
<1>5. CASE Applied(c, r)
  <2>1. PICK s \in State : /\ env' = [env EXCEPT ![run[c].env] = s] /\ s.commit = c
                          /\ Serving(s, run[c].tree)
    BY <1>5 DEF Applied, Given
  <2>2. \A e \in Env : env'[e] = IF e = run[c].env THEN s ELSE env[e]
    BY <2>1 DEF TypeOK
  <2>3. \A e \in Env : env'[e].commit \notin Unpushed'
    BY <1>1, <2>1, <2>2 DEF ServeInv
  <2>4. \A e \in Env : Serving(env'[e], run'[env'[e].commit].tree)
    BY <1>1, <1>2, <2>1, <2>2 DEF ServeInv
  <2>5. QED
    BY <2>3, <2>4 DEF ServeInv, Serving
<1>6. QED
  BY <1>4, <1>5 DEF Stays

\* A run that goes on to prod has just been applied to dev.
LEMMA MovedDev ==
  ASSUME TypeOK, ProdInv, DevInv, NEW c, NEW r, Moved(c, r), Stays(c, r) \/ Applied(c, r)
  PROVE  DevInv'
<1>1. /\ \A d \in Commit : run'[d].ref = run[d].ref
      /\ \A d \in Commit \ {c} : run'[d] = run[d]
      /\ run'[c] = r /\ Active' \subseteq Active
      /\ c \in Active' => r.phase \in Live
  BY MovedSets
<1>2. /\ Active \subseteq Commit /\ c \in Active /\ "prod" \in Env /\ "dev" \in Env
      /\ env["prod"].commit \in Commit /\ run[c].env \in Env
  BY DEF Active, In, Moved, Env, TypeOK, State, Run
<1>3. CASE env' = env /\ Stays(c, r)
  <2>1. \A d \in Active' : run'[d].env = "prod" => d \in env'["dev"].applied
    BY <1>1, <1>2, <1>3 DEF DevInv, Stays
  <2>2. DevFirst'
    BY <1>1, <1>2, <1>3 DEF DevInv, DevFirst
  <2>3. QED
    BY <2>1, <2>2 DEF DevInv
<1>4. CASE Applied(c, r)
  <2>1. PICK s \in State : Given(c, s) /\ (r.phase \in Live => c \in s.applied)
    BY <1>4 DEF Applied
  <2>2. \A e \in Env : env'[e] = IF e = run[c].env THEN s ELSE env[e]
    BY <2>1 DEF TypeOK, Given
  <2>3. env[run[c].env].applied \subseteq s.applied /\ s.applied \subseteq env[run[c].env].applied \cup {c}
    BY <2>1 DEF Given
  <2>4. env["dev"].applied \subseteq env'["dev"].applied
    BY <1>2, <2>2, <2>3
  <2>5. \A d \in Active' : run'[d].env = "prod" => d \in env'["dev"].applied
    BY <1>1, <1>2, <1>4, <2>1, <2>2, <2>4 DEF DevInv, Applied
  <2>6. CASE run[c].env = "prod"
    <3>1. c \in env["dev"].applied /\ run[c].ref = "main"
      BY <1>2, <2>6 DEF DevInv, ProdInv
    <3>2. env'["prod"] = s /\ env'["dev"] = env["dev"] /\ s.commit = c
      BY <1>2, <2>1, <2>2, <2>6 DEF Given
    <3>3. DevFirst'
      BY <1>1, <1>2, <2>3, <2>6, <3>1, <3>2 DEF DevInv, DevFirst
    <3>4. QED
      BY <2>5, <3>3 DEF DevInv
  <2>7. CASE run[c].env # "prod"
    <3>1. env'["prod"] = env["prod"]
      BY <1>2, <2>2, <2>7
    <3>2. DevFirst'
      BY <1>1, <1>2, <2>4, <3>1 DEF DevInv, DevFirst
    <3>3. QED
      BY <2>5, <3>2 DEF DevInv
  <2>8. QED
    BY <2>6, <2>7
<1>5. QED
  BY <1>3, <1>4 DEF Stays

\* A run of main that ends well has just brought prod to its commit, and whoever touches
\* prod later is newer.
LEMMA MovedDone ==
  ASSUME TypeOK, ProdInv, DoneInv, NEW c, NEW r, Moved(c, r), Stays(c, r) \/ Applied(c, r)
  PROVE  DoneInv'
<1>1. /\ c \in Commit /\ run'[c] = r /\ \A d \in Commit \ {c} : run'[d] = run[d]
      /\ r.ref = run[c].ref
  BY MovedSets DEF Moved
<1>2. /\ c \in Active /\ run[c].phase \in Live /\ "prod" \in Env /\ run[c].env \in Env
      /\ env["prod"].commit \in Nat /\ Commit \subseteq Nat
  BY DEF Moved, Active, In, Live, Env, TypeOK, Run, State, Commit
<1>3. In({"done"})' \subseteq In({"done"}) \cup {c} /\ c \notin In({"done"})
  BY <1>1, <1>2 DEF In, Live
<1>4. c \in In({"done"})' => r.phase = "done"
  BY <1>1 DEF In
<1>5. In({"done"}) \subseteq Commit
  BY DEF In
<1>6. CASE env' = env /\ Stays(c, r)
  BY <1>1, <1>3, <1>4, <1>5, <1>6 DEF DoneInv, Stays
<1>7. CASE Applied(c, r)
  <2>1. PICK s \in State : Given(c, s) /\ (r.phase = "done" => s.clean)
    BY <1>7 DEF Applied
  <2>2. env'["prod"] = IF run[c].env = "prod" THEN s ELSE env["prod"]
    BY <1>2, <2>1 DEF TypeOK, Given
  <2>3. s.commit = c
    BY <2>1 DEF Given
  <2>4. run[c].env = "prod" => env["prod"].commit <= c
    BY <1>2 DEF ProdInv
  <2>5. ASSUME NEW d \in In({"done"}), run[d].ref = "main"
        PROVE  env'["prod"].commit > d \/ (env'["prod"].commit = d /\ env'["prod"].clean)
    <3>1. env["prod"].commit > d \/ (env["prod"].commit = d /\ env["prod"].clean)
      BY <2>5 DEF DoneInv
    <3>2. d \in Nat /\ c \in Nat /\ d # c
      BY <1>1, <1>2, <1>3, <1>5
    <3>3. CASE run[c].env = "prod"
      BY <1>2, <2>2, <2>3, <2>4, <3>1, <3>2, <3>3
    <3>4. CASE run[c].env # "prod"
      BY <2>2, <3>1, <3>4
    <3>5. QED
      BY <3>3, <3>4
  <2>6. c \in In({"done"})' /\ run[c].ref = "main" => env'["prod"].commit = c /\ env'["prod"].clean
    BY <1>1, <1>4, <1>7, <2>1, <2>2, <2>3 DEF Applied
  <2>7. QED
    BY <1>1, <1>3, <1>5, <2>5, <2>6 DEF DoneInv
<1>8. QED
  BY <1>6, <1>7 DEF Stays

\* The pending run of a branch becomes its active one.
LEMMA StartKeeps ==
  ASSUME AllInv, NEW c \in Commit, StartRun(c) PROVE AllInv'
<1>1. /\ TypeOK /\ QueueInv /\ CheckedInv /\ ProdInv /\ NoJobReplaced
      /\ ServeInv /\ DevInv /\ CancelInv /\ DoneInv
      /\ c \in Pending /\ env' = env /\ Active \cap OfRef(run[c].ref) = {}
      /\ run[c] \in Run
  BY DEF AllInv, StartRun, Pending, In, TypeOK
<1> DEFINE r == [run[c] EXCEPT !.phase = "arriving"]
<1>2. /\ r \in Run /\ r.phase = "arriving" /\ r.ref = run[c].ref /\ r.tree = run[c].tree
      /\ r.env = run[c].env
  BY <1>1 DEF Run
<1>3. run' = [run EXCEPT ![c] = r]
  BY DEF StartRun
<1> HIDE DEF r
<1>4. /\ run' \in [Commit -> Run] /\ run'[c] = r
      /\ \A d \in Commit \ {c} : run'[d] = run[d]
      /\ \A d \in Commit : run'[d].ref = run[d].ref /\ run'[d].tree = run[d].tree
                            /\ run'[d].env = run[d].env
  BY <1>1, <1>2, <1>3 DEF TypeOK
<1>5. /\ Active' = Active \cup {c} /\ Pending' = Pending \ {c} /\ Unpushed' = Unpushed
      /\ In({"replaced"})' = In({"replaced"}) /\ In({"cancelled"})' = In({"cancelled"})
      /\ In({"done"})' = In({"done"})
  BY <1>1, <1>2, <1>4 DEF Active, Pending, Unpushed, In
<1>6. Active \subseteq Commit /\ Pending \subseteq Commit /\ c \notin Active
  BY <1>1 DEF Active, Pending, In
<1>7. TypeOK' /\ CheckedInv' /\ NoJobReplaced'
  BY <1>1, <1>4, <1>5 DEF TypeOK, CheckedInv, Merged, NoJobReplaced
<1>8. QueueInv'
  <2>1. \A d \in Active : run[d].ref # run[c].ref
    BY <1>1, <1>6 DEF OfRef
  <2>2. \A d \in Pending \ {c} : run[d].ref # run[c].ref
    BY <1>1 DEF QueueInv
  <2>3. QED
    BY <1>1, <1>4, <1>5, <1>6, <2>1, <2>2 DEF QueueInv
<1>9. ProdInv'
  <2>1. run[c].env = "dev"
    BY <1>1 DEF QueueInv
  <2>2. ProdPlansFresh'
    BY <1>1, <1>4, <1>5, <1>6, <2>1 DEF ProdInv, ProdPlansFresh
  <2>3. QED
    BY <1>1, <1>4, <1>5, <1>6, <2>1, <2>2 DEF ProdInv
<1>10. ServeInv'
  <2>1. \A e \in Env : env[e].commit \in Commit
    BY <1>1 DEF TypeOK, State
  <2>2. QED
    BY <1>1, <1>4, <1>5, <2>1 DEF ServeInv, Serving
<1>11. DevInv'
  <2>1. run[c].env = "dev" /\ env["prod"].commit \in Commit
    BY <1>1 DEF QueueInv, TypeOK, State, Env
  <2>2. QED
    BY <1>1, <1>4, <1>5, <1>6, <2>1 DEF DevInv, DevFirst
<1>12. CancelInv'
  <2>1. In({"cancelled"}) \subseteq Commit
    BY DEF In
  <2>2. \A d \in Commit : run[d].phase # "unpushed" => run'[d].phase # "unpushed"
    BY <1>2, <1>4
  <2>3. QED
    BY <1>1, <1>4, <1>5, <2>1, <2>2 DEF CancelInv
<1>13. DoneInv'
  BY <1>1, <1>4, <1>5 DEF DoneInv, In
<1>14. QED
  BY <1>7, <1>8, <1>9, <1>10, <1>11, <1>12, <1>13 DEF AllInv

\* A push takes the place of the pending run of its branch.
LEMMA PushKeeps ==
  ASSUME AllInv, NEW c \in Commit, Push(c) PROVE AllInv'
<1>1. /\ TypeOK /\ QueueInv /\ CheckedInv /\ ProdInv /\ NoJobReplaced
      /\ ServeInv /\ DevInv /\ CancelInv /\ DoneInv
      /\ c \in Unpushed /\ c - 1 \notin Unpushed /\ c \notin Pending /\ env' = env
  BY DEF AllInv, Push, Unpushed, Pending, In
<1>2. PICK ref \in Ref, tree \in Merged :
        LET pending == In({"pending"}) \cap OfRef(ref)
            new == NewRun(IF (Active \cup pending) \cap OfRef(ref) = {} THEN "arriving"
                                                                       ELSE "pending", ref, tree)
        IN  run' = [d \in Commit |-> CASE d = c       -> new
                                       [] d \in pending -> [run[d] EXCEPT !.phase = "cancelled"]
                                       [] OTHER       -> run[d]]
  BY DEF Push
<1> DEFINE pending == Pending \cap OfRef(ref)
           phase == IF (Active \cup pending) \cap OfRef(ref) = {} THEN "arriving" ELSE "pending"
           new == NewRun(phase, ref, tree)
           gone(d) == [run[d] EXCEPT !.phase = "cancelled"]
<1>3. /\ new \in Run /\ new.phase = phase /\ new.ref = ref /\ new.tree = tree
      /\ new.env = "dev" /\ phase \in {"arriving", "pending"}
  BY DEF NewRun, Run, Env, Merged
<1>4. \A d \in Commit : /\ gone(d) \in Run /\ gone(d).phase = "cancelled"
                        /\ gone(d).ref = run[d].ref /\ gone(d).tree = run[d].tree
  BY <1>1 DEF TypeOK, Run
<1>5. \A d \in Commit : run'[d] = IF d = c THEN new ELSE IF d \in pending THEN gone(d) ELSE run[d]
  BY <1>1, <1>2 DEF Pending
<1>6. run' \in [Commit -> Run]
  <2>1. run' = [d \in Commit |-> run'[d]]
    BY <1>2
  <2>2. \A d \in Commit : run'[d] \in Run
    BY <1>1, <1>3, <1>4, <1>5 DEF TypeOK
  <2>3. QED
    BY <2>1, <2>2
<1>7. phase = "arriving" => Active \cap OfRef(ref) = {} /\ pending = {}
  BY DEF Pending
<1> HIDE DEF phase, new, gone
<1>8. /\ Active \subseteq Commit /\ Pending \subseteq Commit /\ Unpushed \subseteq Commit
      /\ c \notin Active /\ c \notin Pending
      /\ Active \cap Pending = {}
  BY <1>1 DEF Active, Pending, Unpushed, In
<1>9. /\ Active' = Active \cup (IF phase = "arriving" THEN {c} ELSE {})
      /\ Pending' = (Pending \ pending) \cup (IF phase = "pending" THEN {c} ELSE {})
      /\ Unpushed' = Unpushed \ {c}
      /\ In({"replaced"})' = In({"replaced"})
  BY <1>1, <1>3, <1>4, <1>5, <1>8 DEF Active, Pending, Unpushed, In
<1>10. \A d \in (Active \cup Pending) \ pending : run'[d] = run[d]
  BY <1>5, <1>8
<1>11. run'[c] = new
  BY <1>5
<1>12. TypeOK' /\ NoJobReplaced'
  BY <1>1, <1>6, <1>9 DEF TypeOK, NoJobReplaced
<1>13. CheckedInv'
  BY <1>1, <1>3, <1>4, <1>5 DEF CheckedInv, Merged
<1>14. \A d \in Commit \ Unpushed : d < c
  BY <1>1 DEF QueueInv
<1>15. Active \cup Pending \subseteq Commit \ Unpushed
  BY DEF Active, Pending, Unpushed, In
<1>16. QueueInv'
  <2>1. \A d, e \in Active' : run'[d].ref = run'[e].ref => d = e
    BY <1>1, <1>3, <1>7, <1>8, <1>9, <1>10, <1>11 DEF QueueInv, OfRef
  <2>2. \A d, e \in Pending' : run'[d].ref = run'[e].ref => d = e
    BY <1>1, <1>3, <1>8, <1>9, <1>10, <1>11 DEF QueueInv, OfRef
  <2>3. \A d \in Pending', e \in Active' : run'[d].ref = run'[e].ref => e < d
    BY <1>1, <1>3, <1>7, <1>8, <1>9, <1>10, <1>11, <1>14, <1>15 DEF QueueInv, OfRef
  <2>4. \A d \in Unpushed', e \in Commit \ Unpushed' : e < d
    <3>1. \A d \in Unpushed \ {c} : c < d
      <4> SUFFICES ASSUME NEW d \in Unpushed \ {c}, ~(c < d) PROVE FALSE
        OBVIOUS
      <4>1. d \in Nat /\ c \in Nat /\ d < c /\ c \in Commit
        BY <1>8 DEF Commit
      <4>2. c - 1 \in Commit \ Unpushed
        BY <1>1, <4>1, SourcesAssumption DEF Commit
      <4>3. c - 1 < d
        BY <1>1, <4>2 DEF QueueInv
      <4>4. QED
        BY <4>1, <4>3
    <3>2. QED
      BY <1>1, <1>9, <3>1 DEF QueueInv
  <2>5. \A d \in Pending' : run'[d].env = "dev"
    BY <1>1, <1>3, <1>8, <1>9, <1>10, <1>11 DEF QueueInv
  <2>6. QED
    BY <2>1, <2>2, <2>3, <2>4, <2>5 DEF QueueInv
<1>17. ProdInv'
  <2>1. \A d \in Active' : run'[d].env = "prod" => run'[d].ref = "main"
    BY <1>1, <1>3, <1>8, <1>9, <1>10, <1>11 DEF ProdInv
  <2>2. env'["prod"].commit \notin Unpushed'
    BY <1>1, <1>9 DEF ProdInv
  <2>3. \A d \in Active' \cup Pending' : run'[d].ref = "main" => env'["prod"].commit <= d
    <3>1. env["prod"].commit < c
      BY <1>1, <1>14 DEF ProdInv, TypeOK, Env, State
    <3>2. c \in Nat /\ env["prod"].commit \in Nat
      BY <1>1 DEF TypeOK, Env, State, Commit
    <3>3. env'["prod"].commit <= c
      BY <1>1, <3>1, <3>2
    <3>4. QED
      BY <1>1, <1>3, <1>8, <1>9, <1>10, <3>3 DEF ProdInv
  <2>4. \A d \in Active' : run'[d].env = "prod" /\ run'[d].job = "apply" =>
                            run'[d].serial = env'["prod"].serial
    BY <1>1, <1>3, <1>8, <1>9, <1>10, <1>11 DEF ProdInv, ProdPlansFresh
  <2>5. QED
    BY <2>1, <2>2, <2>3, <2>4 DEF ProdInv, ProdPlansFresh
<1>18. \A d \in Commit \ {c} : run'[d].ref = run[d].ref /\ run'[d].tree = run[d].tree
  BY <1>4, <1>5
<1>19. ServeInv'
  <2>1. \A e \in Env : env[e].commit \in Commit \ Unpushed
    BY <1>1 DEF TypeOK, State, ServeInv
  <2>2. \A e \in Env : run'[env[e].commit].tree = run[env[e].commit].tree
    BY <1>1, <1>18, <2>1
  <2>3. QED
    BY <1>1, <1>9, <2>1, <2>2 DEF ServeInv, Serving
<1>20. DevInv'
  <2>1. env["prod"].commit \in Commit \ {c}
    BY <1>1 DEF ProdInv, TypeOK, State, Env
  <2>2. \A d \in Active' : run'[d].env = "prod" => d \in env'["dev"].applied
    BY <1>1, <1>3, <1>8, <1>9, <1>10, <1>11 DEF DevInv
  <2>3. DevFirst'
    BY <1>1, <1>18, <2>1 DEF DevInv, DevFirst
  <2>4. QED
    BY <2>2, <2>3 DEF DevInv
<1>21. CancelInv'
  <2>1. run'[c].phase # "unpushed" /\ run'[c].ref = ref
    BY <1>3, <1>11
  <2>2. \A d \in pending : d < c /\ run'[d].ref = ref /\ d \in Commit \ {c}
    BY <1>1, <1>8, <1>14, <1>15, <1>18 DEF OfRef
  <2>3. In({"cancelled"})' = In({"cancelled"}) \cup pending
    BY <1>1, <1>3, <1>4, <1>5, <1>8 DEF In, Unpushed
  <2>4. In({"cancelled"}) \subseteq Commit \ {c}
    BY <1>1 DEF In, Unpushed
  <2>5. \A d \in Commit \ {c} : run[d].phase # "unpushed" => run'[d].phase # "unpushed"
    BY <1>4, <1>5
  <2>6. \A d \in In({"cancelled"}) : \E e \in Commit : e > d /\ run'[e].ref = run'[d].ref
                                                       /\ run'[e].phase # "unpushed"
    <3> SUFFICES ASSUME NEW d \in In({"cancelled"})
                 PROVE  \E e \in Commit : e > d /\ run'[e].ref = run'[d].ref
                                           /\ run'[e].phase # "unpushed"
      OBVIOUS
    <3>1. PICK e \in Commit : e > d /\ run[e].ref = run[d].ref /\ run[e].phase # "unpushed"
      BY <1>1 DEF CancelInv
    <3>2. e # c
      BY <1>1, <3>1 DEF Unpushed, In
    <3>3. QED
      BY <1>18, <2>4, <2>5, <3>1, <3>2
  <2>7. \A d \in pending : c > d
    BY <1>8, <2>2 DEF Commit
  <2>8. QED
    BY <2>1, <2>2, <2>3, <2>6, <2>7 DEF CancelInv
<1>22. DoneInv'
  <2>1. In({"done"})' = In({"done"}) /\ c \notin In({"done"})
    BY <1>1, <1>3, <1>4, <1>5, <1>8 DEF In, Unpushed, Pending
  <2>2. QED
    BY <1>1, <1>18, <2>1 DEF DoneInv, In
<1>23. QED
  BY <1>12, <1>13, <1>16, <1>17, <1>19, <1>20, <1>21, <1>22 DEF AllInv

LEMMA NextKeeps ==
  ASSUME AllInv, [Next]_vars
  PROVE  AllInv' /\ env'["prod"].commit >= env["prod"].commit
<1>1. env["prod"].commit \in Nat
  BY DEF AllInv, TypeOK, Env, State, Commit
<1>2. ASSUME NEW c \in Commit, StartRun(c) \/ Push(c)
      PROVE  AllInv' /\ env'["prod"].commit >= env["prod"].commit
  <2>1. env' = env
    BY <1>2 DEF StartRun, Push
  <2>2. AllInv'
    BY <1>2, StartKeeps, PushKeeps
  <2>3. QED
    BY <1>1, <2>1, <2>2
<1>3. ASSUME NEW c \in Commit, RunStep(c), ~StartRun(c)
      PROVE  AllInv' /\ env'["prod"].commit >= env["prod"].commit
  <2>1. /\ TypeOK /\ QueueInv /\ CheckedInv /\ ProdInv /\ ServeInv /\ DevInv
        /\ NoJobReplaced /\ CancelInv /\ DoneInv
    BY DEF AllInv
  <2>2. PICK r : Moved(c, r) /\ (Stays(c, r) \/ Applied(c, r))
    BY <1>3, <2>1, StepMoves
  <2>3. TypeOK' /\ NoJobReplaced' /\ CancelInv'
    BY <2>1, <2>2, MovedType, MovedSets
  <2>4. QueueInv' /\ CheckedInv'
    BY <2>1, <2>2, MovedQueues
  <2>5. ProdInv' /\ env'["prod"].commit >= env["prod"].commit
    BY <2>1, <2>2, MovedProd
  <2>6. ServeInv' /\ DevInv'
    BY <2>1, <2>2, MovedServes, MovedDev
  <2>7. DoneInv'
    BY <2>1, <2>2, MovedDone
  <2>8. QED
    BY <2>3, <2>4, <2>5, <2>6, <2>7 DEF AllInv
<1>4. CASE UNCHANGED vars
  <2>1. AllInv'
    BY <1>4 DEF AllInv, TypeOK, QueueInv, CheckedInv, Merged, ProdInv, ProdPlansFresh, ServeInv,
                Serving, DevInv, DevFirst, NoJobReplaced, CancelInv, DoneInv, Active, Pending, Unpushed,
                In, vars
  <2>2. QED
    BY <1>1, <1>4, <2>1 DEF vars
<1>5. QED
  BY <1>2, <1>3, <1>4 DEF Next, SomeRunStep

LEMMA Invariant == Spec => []AllInv
<1>1. AllInv /\ [Next]_vars => AllInv'
  BY NextKeeps
<1>2. QED
  BY InitHolds, <1>1, PTL DEF Spec

\* Every reachable state is well typed, and a setting has one value at a time in the API,
\* in the deployment and in the stage.
THEOREM TypeCorrect == Spec => []TypeOK
<1>1. AllInv => TypeOK
  BY DEF AllInv
<1>2. QED
  BY <1>1, Invariant, PTL

\* The two levels of concurrency groups: with one active run of each branch, no job of
\* theirs is ever replaced in the queue of an environment.
THEOREM QueuesSuffice == Spec => []NoJobReplaced
<1>1. AllInv => NoJobReplaced
  BY DEF AllInv
<1>2. QED
  BY <1>1, Invariant, PTL

\* needs and the branch of deploy-prod: no plan over prod is stale when it is applied.
THEOREM ProdPlansStayFresh == Spec => []ProdPlansFresh
<1>1. AllInv => ProdPlansFresh
  BY DEF AllInv, ProdInv
<1>2. QED
  BY <1>1, Invariant, PTL

\* The runs of main come in the order of their pushes: prod never goes back to an older
\* commit.
THEOREM ProdMovesForward == Spec => ProdForward
<1>1. AllInv /\ [Next]_vars => [env'["prod"].commit >= env["prod"].commit]_vars
  BY NextKeeps
<1>2. QED
  BY <1>1, Invariant, PTL DEF Spec, ProdForward

\* CI and the precondition of the deployment: the trigger sees every setting of every
\* commit that is deployed.
THEOREM TriggerComplete == Spec => []EverySettingTracked
<1>1. AllInv => EverySettingTracked
  BY CheckedTracked DEF AllInv, CheckedInv, EverySettingTracked
<1>2. QED
  BY <1>1, Invariant, PTL

\* concurrency of cd-terraform.yml: the last push to main is not lost in the queue of its
\* branch; when its run is over and has not failed, prod has been brought to it.
THEOREM NewestReaches == Spec => []NewestReachesProd
<1>1. AllInv => NewestReachesProd
  <2> SUFFICES ASSUME AllInv, NEW c \in In({"done", "cancelled", "replaced"}), run[c].ref = "main",
                      \A d \in Commit : d > c /\ run[d].ref = "main" => run[d].phase = "unpushed"
               PROVE  env["prod"].commit = c /\ env["prod"].clean
    BY DEF NewestReachesProd
  <2>1. c \in In({"done"})
    BY DEF In, AllInv, CancelInv, NoJobReplaced
  <2>2. env["prod"].commit \in Commit /\ run[env["prod"].commit].ref = "main"
        /\ run[env["prod"].commit].phase # "unpushed"
    BY DEF AllInv, TypeOK, State, Env, DevInv, DevFirst, ProdInv, Unpushed, In
  <2>3. QED
    BY <2>1, <2>2 DEF AllInv, DoneInv
<1>2. QED
  BY <1>1, Invariant, PTL

\* needs and the condition of deploy-prod: nothing reaches prod, even in part, that is not
\* on main and has not been applied to dev.
THEOREM DevComesFirst == Spec => []DevFirst
<1>1. AllInv => DevFirst
  BY DEF AllInv, DevInv
<1>2. QED
  BY <1>1, Invariant, PTL

\* The references of api_deployment_inputs: after an apply that succeeds the stage serves all
\* that the commit declares, whatever was applied before and left half done.
THEOREM StageIsServed == Spec => []StageServes
<1>1. AllInv => StageServes
  <2> SUFFICES ASSUME AllInv, NEW e \in Env, env[e].clean
               PROVE  Setups[run[env[e].commit].tree] \subseteq env[e].stage
    BY DEF StageServes
  <2>1. env[e].commit \in Commit
    BY DEF AllInv, TypeOK, State
  <2>2. Inputs[run[env[e].commit].tree] = Setups[run[env[e].commit].tree]
    BY <2>1, CheckedTracked DEF AllInv, CheckedInv
  <2>3. QED
    BY <2>2 DEF AllInv, ServeInv, Serving
<1>2. QED
  BY <1>1, Invariant, PTL
==================================================================================
