------------------------------- MODULE Deployment --------------------------------
(***************************************************************************)
(* .github/workflows/cd-terraform.yml and reusable-terraform-deploy.yml:   *)
(* the runs of the CD workflow over the dev and prod environments, and     *)
(* what their applies do to the REST API of modules/media_api.  The queues *)
(* and cancellations of GitHub's concurrency groups, and what a plan and   *)
(* an apply of Terraform do, follow from how the workflows use them.       *)
(***************************************************************************)
EXTENDS ApiSettings

CONSTANTS LastCommit, \* bound on the pushes; commit 0 is deployed
          Tree,       \* versions of modules/media_api
          Content,    \* [Tree -> Source]
          First       \* the version of commit 0

ASSUME SourcesAssumption ==
  /\ LastCommit \in Nat /\ First \in Tree
  /\ Content \in [Tree -> Source] /\ \A t \in Tree : OneBlockPerKey(Content[t])
  /\ Passes(Content[First])

Commit == 0 .. LastCommit
Ref == {"main", "develop"}
Env == {"dev", "prod"}

VARIABLES run, \* [Commit -> Run]: the workflow run that the push of the commit starts
          env  \* [Env -> State]: the environment and Terraform's state of it

vars == <<run, env>>

Setting == [block : Name, key : Name]
Setup == [setting : Setting, value : Value]

Run == [phase  : {"unpushed", "pending", "arriving", "waiting", "running",
                  "done", "failed", "cancelled", "replaced"},
        ref    : Ref,
        tree   : Tree,
        env    : Env,
        job    : {"plan", "apply"},
        serial : Nat]          \* of the state that its plan is over; 0 if it has none

State == [serial   : Nat,
          live     : SUBSET Setup,  \* the API's settings
          trigger  : SUBSET Setup,  \* api_deployment_inputs of the deployment
          snapshot : SUBSET Setup,  \* what the deployment has published
          stage    : SUBSET Setup,  \* what the stage serves
          commit   : Commit,        \* the last one that was applied, if only in part
          clean    : BOOLEAN,       \* that apply has succeeded
          applied  : SUBSET Commit] \* those whose apply has succeeded

\* What a source declares, and what of it the trigger of the deployment refers to.
Setups == [t \in Tree |-> {[setting |-> s, value |-> Content[t].value[s.block]] :
                             s \in Settings(Content[t])}]
Inputs == [t \in Tree |-> {u \in Setups[t] : u.setting \in Tracked(Content[t])}]

NewRun(phase, ref, tree) ==
  [phase |-> phase, ref |-> ref, tree |-> tree, env |-> "dev", job |-> "plan", serial |-> 0]

Init ==
  /\ run = [c \in Commit |-> NewRun(IF c = 0 THEN "done" ELSE "unpushed", "main", First)]
  /\ env = [e \in Env |-> [serial |-> 0, live |-> Setups[First], trigger |-> Inputs[First],
                           snapshot |-> Setups[First], stage |-> Setups[First],
                           commit |-> 0, clean |-> TRUE, applied |-> {0}]]

In(phases) == {c \in Commit : run[c].phase \in phases}
Active == In({"arriving", "waiting", "running"})

-----------------------------------------------------------------------------
(* The workflow's concurrency group: one run of a branch at a time, and    *)
(* one that is pending, whose place a newer one takes.                     *)

\* Mutant: the group's name leaves out the branch.
OfAnyRef(ref) == {c \in Commit : ref \in Ref}

OfRef(ref) == {c \in Commit : run[c].ref = ref}

\* A pull request is merged whose CI has passed.
Merged == {t \in Tree : Passes(Content[t])}

\* Mutant: the workflow has no concurrency group.
PushAtOnce(c) ==
  /\ run[c].phase = "unpushed" /\ (c - 1) \notin In({"unpushed"})
  /\ \E ref \in Ref, tree \in Merged : run' = [run EXCEPT ![c] = NewRun("arriving", ref, tree)]
  /\ UNCHANGED env

Push(c) ==
  /\ run[c].phase = "unpushed" /\ (c - 1) \notin In({"unpushed"})
  /\ \E ref \in Ref, tree \in Merged :
       LET pending == In({"pending"}) \cap OfRef(ref)
           new == NewRun(IF (Active \cup pending) \cap OfRef(ref) = {} THEN "arriving"
                                                                      ELSE "pending", ref, tree)
       IN  run' = [d \in Commit |-> CASE d = c       -> new
                                      [] d \in pending -> [run[d] EXCEPT !.phase = "cancelled"]
                                      [] OTHER       -> run[d]]
  /\ UNCHANGED env

StartRun(c) ==
  /\ run[c].phase = "pending" /\ Active \cap OfRef(run[c].ref) = {}
  /\ run' = [run EXCEPT ![c].phase = "arriving"]
  /\ UNCHANGED env

-----------------------------------------------------------------------------
(* The group of an environment, which a job holds and leaves between plan  *)
(* and apply.                                                              *)

\* Mutant: a job that has failed keeps the group.
HoldsEvenFailed(e) == {c \in In({"running", "failed"}) : run[c].env = e}

Holds(e) == {c \in In({"running"}) : run[c].env = e}
Waits(e) == {c \in In({"waiting"}) : run[c].env = e}

Arrive(c) ==
  /\ run[c].phase = "arriving"
  /\ LET e == run[c].env
     IN  \/ /\ Holds(e) = {} /\ Waits(e) = {}
            /\ run' = [run EXCEPT ![c].phase = "running"]
         \/ /\ Holds(e) # {}
            /\ run' = [d \in Commit |->
                         CASE d = c          -> [run[d] EXCEPT !.phase = "waiting"]
                           [] d \in Waits(e) -> [run[d] EXCEPT !.phase = "replaced"]
                           [] OTHER          -> run[d]]
  /\ UNCHANGED env

TakeGroup(c) ==
  /\ run[c].phase = "waiting" /\ Holds(run[c].env) = {}
  /\ run' = [run EXCEPT ![c].phase = "running"]
  /\ UNCHANGED env

-----------------------------------------------------------------------------
(* The jobs.                                                               *)

\* A run that is over has no job and no plan left.
Over(c, phase) == [run EXCEPT ![c] = [@ EXCEPT !.phase = phase, !.job = "plan", !.serial = 0]]

Failed(c) == Over(c, "failed")

\* A job that runs fails in any of its steps before Terraform changes anything; one
\* that needs an approval is rejected.
JobFails(c) ==
  /\ \/ run[c].phase = "running"
     \/ run[c].phase \in {"arriving", "waiting"} /\ run[c].job = "apply"
  /\ run' = Failed(c)
  /\ UNCHANGED env

\* The plan is made over the state as it is, and the precondition of the deployment
\* is evaluated.
Plan(c) ==
  /\ run[c].phase = "running" /\ run[c].job = "plan"
  /\ SharedKeys(Content[run[c].tree]) = {}
  /\ run' = [run EXCEPT ![c].phase = "arriving", ![c].job = "apply",
                        ![c].serial = env[run[c].env].serial]
  /\ UNCHANGED env

\* Terraform refuses a plan over a state that another apply has changed.
StalePlan(c) ==
  /\ run[c].phase = "running" /\ run[c].job = "apply"
  /\ run[c].serial # env[run[c].env].serial
  /\ run' = Failed(c)
  /\ UNCHANGED env

\* Mutant: a new value does not take the place of the old one.
BroughtBeside(live, tree, changed) == live \cup {u \in Setups[tree] : u.setting \in changed}

\* The settings once those in changed have been brought to what the tree declares.
Brought(live, tree, changed) == {u \in live : u.setting \notin changed}
                                 \cup {u \in Setups[tree] : u.setting \in changed}

Referred(tree) == {u.setting : u \in Inputs[tree]}

\* The deployment is replaced only if its trigger differs, and after the settings
\* that the trigger refers to.
Published(s, tree, done) ==
  IF s.trigger = Inputs[tree] THEN {s.snapshot}
  ELSE {Brought(s.live, tree, before) : before \in {b \in SUBSET done : Referred(tree) \subseteq b}}

Concerned(s, tree) == {u.setting : u \in s.live \cup Setups[tree]}

Current(s, tree) == s.live = Setups[tree] /\ s.trigger = Inputs[tree] /\ s.stage = s.snapshot

\* Mutant: prod follows dev on every branch.
AfterDevAnyway(c) ==
  IF run[c].env = "dev"
  THEN [run EXCEPT ![c] = [@ EXCEPT !.env = "prod", !.job = "plan", !.phase = "arriving",
                                    !.serial = 0]]
  ELSE Over(c, "done")

\* deploy-prod needs deploy-dev, and the main branch.
AfterApply(c) ==
  IF run[c].env = "dev" /\ run[c].ref = "main"
  THEN [run EXCEPT ![c] = [@ EXCEPT !.env = "prod", !.job = "plan", !.phase = "arriving",
                                    !.serial = 0]]
  ELSE Over(c, "done")

Apply(c) ==
  /\ run[c].phase = "running" /\ run[c].job = "apply"
  /\ LET e == run[c].env
         s == env[e]
         tree == run[c].tree
     IN  /\ run[c].serial = s.serial
         /\ \E published \in Published(s, tree, Concerned(s, tree)),
               serial \in {s.serial + 1} \cup IF Current(s, tree) THEN {s.serial} ELSE {} :
              env' = [env EXCEPT ![e] =
                        [serial |-> serial, live |-> Setups[tree], trigger |-> Inputs[tree],
                         snapshot |-> published, stage |-> published,
                         commit |-> c, clean |-> TRUE, applied |-> @.applied \cup {c}]]
  /\ run' = AfterApply(c)

\* An apply fails having made some of its changes; the state records them.
ApplyInPart(c) ==
  /\ run[c].phase = "running" /\ run[c].job = "apply"
  /\ LET e == run[c].env
         s == env[e]
         tree == run[c].tree
     IN  /\ run[c].serial = s.serial
         /\ \E done \in SUBSET Concerned(s, tree) :
              LET kept == [s EXCEPT !.serial = @ + 1, !.live = Brought(@, tree, done),
                                    !.commit = c, !.clean = FALSE]
              IN  \/ env' = [env EXCEPT ![e] = kept]
                  \/ /\ Referred(tree) \subseteq done
                     /\ \E published \in Published(s, tree, done), stage \in BOOLEAN :
                          env' = [env EXCEPT ![e] =
                                    [kept EXCEPT !.trigger = Inputs[tree], !.snapshot = published,
                                                 !.stage = IF stage THEN published ELSE @]]
  /\ run' = Failed(c)

-----------------------------------------------------------------------------
RunStep(c) == \/ StartRun(c) \/ Arrive(c) \/ TakeGroup(c) \/ JobFails(c)
              \/ Plan(c) \/ StalePlan(c) \/ Apply(c) \/ ApplyInPart(c)

SomeRunStep == \E c \in Commit : RunStep(c)

Next == SomeRunStep \/ \E c \in Commit : Push(c)

Spec == Init /\ [][Next]_vars

\* While a job may start, or runs, GitHub goes on (jobs and approvals have time limits).
FairSpec == Spec /\ WF_vars(SomeRunStep)

-----------------------------------------------------------------------------
(* Properties.                                                             *)

\* Every variable keeps its type, and a setting has one value at a time.
TypeOK == /\ run \in [Commit -> Run] /\ env \in [Env -> State]
          /\ \A e \in Env : \A s \in {env[e].live, env[e].snapshot, env[e].stage} :
               \A u, v \in s : u.setting = v.setting => u = v

\* No job loses its place in the queue of its environment, although the queue holds
\* one job only: each branch brings one (the two levels of concurrency groups).
NoJobReplaced == In({"replaced"}) = {}

\* The queue of a branch holds one run, and yet no last push to main is lost in it: when
\* its run is over and has not failed, prod has been brought to that commit, unless a
\* push to main has come after it.
NewestReachesProd ==
  \A c \in In({"done", "cancelled", "replaced"}) :
    /\ run[c].ref = "main"
    /\ \A d \in Commit : d > c /\ run[d].ref = "main" => run[d].phase = "unpushed"
    => env["prod"].commit = c /\ env["prod"].clean

\* "main への push で、dev へ適用した後に prod へ": what is applied to prod, even in part,
\* comes from main and has been applied to dev.
DevFirst == /\ env["prod"].applied \cup {env["prod"].commit} \subseteq env["dev"].applied
            /\ run[env["prod"].commit].ref = "main"

\* A plan over prod is never stale when its job comes, however long it waited: no other
\* run has touched prod since.
ProdPlansFresh ==
  \A c \in Active : run[c].env = "prod" /\ run[c].job = "apply" =>
                      run[c].serial = env["prod"].serial

\* Prod moves forward: an older commit is never applied over a newer one.
ProdForward == [][env'["prod"].commit >= env["prod"].commit]_vars

\* The trigger sees every setting of what CI has let through.
EverySettingTracked ==
  \A c \in Commit : Inputs[run[c].tree] = Setups[run[c].tree]

\* After an apply that succeeds the stage serves every setting that the commit
\* declares, also when earlier applies ended half way and when the settings have
\* been changed back in the meantime.
StageServes == \A e \in Env : env[e].clean => Setups[run[env[e].commit].tree] \subseteq env[e].stage

\* Once nothing more is pushed, every run ends or has given way to a newer one.
RunsEnd == In({"unpushed"}) = {} ~> Active \cup In({"pending"}) = {}
==================================================================================
