-------------------------------- MODULE Packaging --------------------------------
(***************************************************************************)
(* scripts/build_lambda.py and scripts/verify_lambda_packages.py.  A build *)
(* writes one archive per function group, with the packages the group      *)
(* imports, and one per layer; a verification imports every handler from   *)
(* the archives alone.  The output directory outlives the builds: one that *)
(* fails or is killed leaves what it has written.                          *)
(***************************************************************************)
CONSTANTS Package,     \* names of packages below cloud_photos
          File,        \* Python modules
          PackageOf,   \* [File -> Package]: the package whose directory holds it
          Handler,     \* modules that define handler, directly in a package
          Excluded,    \* modules in EXCLUDED_DIRS: tests and caches
          Trees,       \* states of the working copy
          Layer, Version

\* An import of a cloud_photos module: by a dotted name or otherwise (from the
\* root, relatively), when the module loads or later, inside a function.
Import == [from : File, to : File, dotted : BOOLEAN, lazy : BOOLEAN]

Tree == [packages : SUBSET Package, imports : SUBSET Import,
         requirements : [Layer -> Version]]

\* An archive or a directory: none, one that was not written to its end, or one of
\* function code or of a layer's requirements.
Missing == [state |-> "missing"]
Broken == [state |-> "broken"]
Archive == [state : {"whole"}, files : SUBSET File, imports : SUBSET Import]
Installation == [state : {"whole"}, versions : SUBSET Version]
Installed(versions) == [state |-> "whole", versions |-> versions]

ASSUME ConstantsAssumption ==
  /\ PackageOf \in [File -> Package]
  /\ Handler \subseteq File \ Excluded /\ Trees \subseteq Tree

VARIABLES tree,      \* the working copy
          build,     \* the build's local variables
          zips,      \* [Package -> Archive \cup {Missing, Broken}]: <group>.zip
          layerZips, \* [Layer -> Installation \cup {Missing, Broken}]
          dirs,      \* [Layer -> Installation \cup {Missing}]: .build/layers/<layer>
          root,      \* BOOLEAN: .build/layers exists
          check      \* the verification's local variables

vars == <<tree, build, zips, layerZips, dirs, root, check>>

Build == [pc          : {"idle", "scan", "parse", "install", "pack", "done", "failed"},
          groups      : SUBSET Package,  \* still to build, the current one first
          required    : SUBSET Package,
          pending     : SUBSET Package,
          withLayers  : BOOLEAN,
          given       : SUBSET Layer,    \* --layer-from
          layers      : SUBSET Layer,    \* still to install, then still to pack
          here        : SUBSET Layer,    \* installed_here
          rootExisted : BOOLEAN]         \* install_root_existed

Check == [pc     : {"none", "group", "load", "passed", "failed"},
          groups : SUBSET Package,
          todo   : SUBSET File,          \* modules to import next
          loaded : SUBSET File,
          bad    : BOOLEAN]              \* there are failures

NoBuild == [pc |-> "idle", groups |-> {}, required |-> {}, pending |-> {},
            withLayers |-> FALSE, given |-> {}, layers |-> {}, here |-> {},
            rootExisted |-> FALSE]
NoCheck == [pc |-> "none", groups |-> {}, todo |-> {}, loaded |-> {}, bad |-> FALSE]

Init == /\ tree \in Trees
        /\ build = NoBuild /\ check = NoCheck
        /\ zips = [p \in Package |-> Missing]
        /\ layerZips = [l \in Layer |-> Missing]
        /\ dirs = [l \in Layer |-> Missing]
        /\ root = FALSE

Building == build.pc \notin {"idle", "done", "failed"}
Checking == check.pc \in {"group", "load"}

\* Between runs the working copy changes.
Edit == /\ ~Building /\ ~Checking
        /\ tree' \in Trees
        /\ build' = NoBuild /\ check' = NoCheck
        /\ UNCHANGED <<zips, layerZips, dirs, root>>

\* Groups come in the order of their names: some fixed order.
First(groups) == CHOOSE g \in groups : TRUE

Fail == build' = [build EXCEPT !.pc = "failed"]

-----------------------------------------------------------------------------
(* One archive per function group.                                         *)

PackageFiles(p) == {f \in File \ Excluded : PackageOf[f] = p /\ p \in tree.packages}

Groups == {g \in tree.packages : \E f \in Handler : PackageOf[f] = g}

\* imported_packages of every module of a package: ast.walk sees lazy imports too,
\* but only dotted names.
ImportedBy(p) == {PackageOf[i.to] : i \in {j \in tree.imports :
                                             j.dotted /\ j.from \in PackageFiles(p)}}

StartBuild ==
  /\ ~Building /\ ~Checking
  /\ \E with \in BOOLEAN, given \in SUBSET Layer :
       IF Groups = {} THEN Fail
       ELSE build' = [NoBuild EXCEPT !.pc = "scan", !.groups = Groups,
                                     !.required = {First(Groups)},
                                     !.pending = {First(Groups)},
                                     !.withLayers = with, !.given = given]
  /\ check' = NoCheck
  /\ UNCHANGED <<tree, zips, layerZips, dirs, root>>

\* Mutant: the imports of imported packages are not followed.
ScanDirectOnly ==
  /\ build.pc = "scan"
  /\ \E p \in build.pending :
       /\ ImportedBy(p) \subseteq tree.packages
       /\ build' = [build EXCEPT !.required = @ \cup ImportedBy(p), !.pending = {}]
  /\ UNCHANGED <<tree, zips, layerZips, dirs, root, check>>

\* Mutant: the module's own name is taken for that of its package, and not looked up.
ScanModules ==
  /\ build.pc = "scan"
  /\ \E p \in build.pending :
       build' = [build EXCEPT !.pending = @ \ {p},
                              !.required = @ \cup {i.to : i \in {j \in tree.imports :
                                                            j.from \in PackageFiles(p)}}]
  /\ UNCHANGED <<tree, zips, layerZips, dirs, root, check>>

\* Mutant: a package that is already required is scanned again.
ScanAgain ==
  /\ build.pc = "scan"
  /\ \E p \in build.pending :
       /\ ImportedBy(p) \subseteq tree.packages
       /\ build' = [build EXCEPT !.required = @ \cup ImportedBy(p),
                                 !.pending = (@ \ {p}) \cup ImportedBy(p)]
  /\ UNCHANGED <<tree, zips, layerZips, dirs, root, check>>

\* required_packages: one turn of its loop.
Scan ==
  /\ build.pc = "scan"
  /\ \E p \in build.pending :
       LET found == ImportedBy(p) \ build.required
       IN  \/ /\ ~(found \subseteq tree.packages)
              /\ Fail
           \/ /\ found \subseteq tree.packages
              /\ build' = [build EXCEPT !.required = @ \cup found,
                                        !.pending = (@ \ {p}) \cup found]
  /\ UNCHANGED <<tree, zips, layerZips, dirs, root, check>>

ArchiveOf(packages) ==
  LET files == UNION {PackageFiles(p) : p \in packages}
  IN  [state |-> "whole", files |-> files, imports |-> {i \in tree.imports : i.from \in files}]

\* build_group: the archive is written, and the next group's turn comes.
BuildGroup ==
  /\ build.pc = "scan" /\ build.pending = {}
  /\ zips' = [zips EXCEPT ![First(build.groups)] = ArchiveOf(build.required)]
  /\ LET rest == build.groups \ {First(build.groups)}
     IN  build' = IF rest = {}
                  THEN [build EXCEPT !.pc = "parse", !.groups = {}]
                  ELSE [build EXCEPT !.groups = rest, !.required = {First(rest)},
                                     !.pending = {First(rest)}]
  /\ UNCHANGED <<tree, layerZips, dirs, root, check>>

-----------------------------------------------------------------------------
(* One archive per layer.                                                  *)

\* parse_layer_dirs raises on a malformed option or an unknown layer.
ParseLayers ==
  /\ build.pc = "parse"
  /\ \/ Fail
     \/ build' = [build EXCEPT !.pc = "install", !.rootExisted = root,
                               !.layers = IF build.withLayers THEN Layer \ build.given
                                                              ELSE {}]
  /\ UNCHANGED <<tree, zips, layerZips, dirs, root, check>>

\* Mutant: an earlier installation stays where it is.
InstallOnTop ==
  /\ build.pc = "install"
  /\ \E l \in build.layers :
       /\ dirs' = [dirs EXCEPT ![l] = Installed({tree.requirements[l]} \cup
                                     IF @ = Missing THEN {} ELSE @.versions)]
       /\ build' = [build EXCEPT !.layers = @ \ {l}, !.here = @ \cup {l}]
  /\ root' = TRUE
  /\ UNCHANGED <<tree, zips, layerZips, check>>

\* install_layer: the directory is made anew and pip fills it, or fails or times out
\* having filled some of it.
InstallLayer ==
  /\ build.pc = "install"
  /\ \E l \in build.layers :
       \/ /\ dirs' = [dirs EXCEPT ![l] = Installed({tree.requirements[l]})]
          /\ build' = [build EXCEPT !.layers = @ \ {l}, !.here = @ \cup {l}]
       \/ /\ \E part \in {{}, {tree.requirements[l]}} : dirs' = [dirs EXCEPT ![l] = Installed(part)]
          /\ Fail
  /\ root' = TRUE
  /\ UNCHANGED <<tree, zips, layerZips, check>>

AllInstalled ==
  /\ build.pc = "install" /\ build.layers = {}
  /\ build' = [build EXCEPT !.pc = "pack", !.layers = build.here \cup build.given]
  /\ UNCHANGED <<tree, zips, layerZips, dirs, root, check>>

\* build_layer, and the removal of what was installed here.  A given directory
\* holds anything, or does not exist.
PackLayer ==
  /\ build.pc = "pack"
  /\ \E l \in build.layers :
       \/ /\ l \in build.here
          /\ layerZips' = [layerZips EXCEPT ![l] = dirs[l]]
          /\ dirs' = [dirs EXCEPT ![l] = Missing]
          /\ build' = [build EXCEPT !.layers = @ \ {l}]
       \/ /\ l \notin build.here
          /\ \E content \in Installation : layerZips' = [layerZips EXCEPT ![l] = content]
          /\ build' = [build EXCEPT !.layers = @ \ {l}]
          /\ UNCHANGED dirs
       \/ /\ l \notin build.here
          /\ Fail
          /\ UNCHANGED <<layerZips, dirs>>
  /\ UNCHANGED <<tree, zips, root, check>>

\* Mutant: .build/layers stays.
CleanUpNothing == /\ build.pc = "pack" /\ build.layers = {}
                  /\ build' = [build EXCEPT !.pc = "done"]
                  /\ UNCHANGED <<tree, zips, layerZips, dirs, root, check>>

\* Only a parent that this build made, and that is empty again, is removed.
CleanUp ==
  /\ build.pc = "pack" /\ build.layers = {}
  /\ root' = IF /\ build.here # {} /\ ~build.rootExisted
                /\ \A l \in Layer : dirs[l] = Missing
             THEN FALSE ELSE root
  /\ build' = [build EXCEPT !.pc = "done"]
  /\ UNCHANGED <<tree, zips, layerZips, dirs, check>>

\* The build is killed, perhaps in the middle of an archive.
Kill ==
  /\ Building
  /\ Fail
  /\ zips' \in IF build.pc = "scan" /\ build.pending = {}
               THEN {zips, [zips EXCEPT ![First(build.groups)] = Broken]}
               ELSE {zips}
  /\ layerZips' \in IF build.pc = "pack"
                    THEN {layerZips} \cup {[layerZips EXCEPT ![l] = Broken] : l \in build.layers}
                    ELSE {layerZips}
  /\ UNCHANGED <<tree, dirs, root, check>>

-----------------------------------------------------------------------------
(* verify_lambda_packages.py.                                              *)

StartCheck ==
  /\ ~Building /\ ~Checking
  /\ check' = [NoCheck EXCEPT !.pc = "group", !.groups = Groups]
  /\ UNCHANGED <<tree, build, zips, layerZips, dirs, root>>

\* The next group: a missing archive, or one without a handler, is a failure; a
\* broken one ends the verification.
CheckGroup ==
  /\ check.pc = "group" /\ check.groups # {}
  /\ LET g == First(check.groups)
     IN  \/ /\ zips[g] = Broken
            /\ check' = [check EXCEPT !.pc = "failed"]
         \/ /\ zips[g] = Missing
            /\ check' = [check EXCEPT !.groups = @ \ {g}, !.bad = TRUE]
         \/ /\ zips[g] \notin {Missing, Broken}
            /\ LET handlers == {f \in Handler \cap zips[g].files : PackageOf[f] = g}
               IN  check' = IF handlers = {}
                            THEN [check EXCEPT !.groups = @ \ {g}, !.bad = TRUE]
                            ELSE [check EXCEPT !.pc = "load", !.todo = handlers,
                                               !.loaded = {}]
  /\ UNCHANGED <<tree, build, zips, layerZips, dirs, root>>

\* What a module imports while it loads.
LoadedBy(archive, f) == {i.to : i \in {j \in archive.imports : j.from = f /\ ~j.lazy}}

\* Mutant: the source tree is on the search path.
LoadFromSource ==
  /\ check.pc = "load"
  /\ \E f \in check.todo :
       check' = [check EXCEPT !.loaded = @ \cup {f},
                              !.todo = (@ \cup LoadedBy(zips[First(check.groups)], f))
                                         \ (check.loaded \cup {f}),
                              !.bad = @ \/ PackageOf[f] \notin tree.packages]
  /\ UNCHANGED <<tree, build, zips, layerZips, dirs, root>>

\* The child process imports from the archive alone.
Load ==
  /\ check.pc = "load"
  /\ \E f \in check.todo :
       \/ /\ f \in zips[First(check.groups)].files
          /\ check' = [check EXCEPT !.loaded = @ \cup {f},
                                    !.todo = (@ \cup LoadedBy(zips[First(check.groups)], f))
                                               \ (check.loaded \cup {f})]
       \/ /\ f \notin zips[First(check.groups)].files
          /\ check' = [check EXCEPT !.bad = TRUE, !.todo = @ \ {f}]
  /\ UNCHANGED <<tree, build, zips, layerZips, dirs, root>>

GroupChecked ==
  /\ check.pc = "load" /\ check.todo = {}
  /\ check' = [check EXCEPT !.pc = "group", !.groups = @ \ {First(check.groups)}]
  /\ UNCHANGED <<tree, build, zips, layerZips, dirs, root>>

FinishCheck ==
  /\ check.pc = "group" /\ check.groups = {}
  /\ check' = [check EXCEPT !.pc = IF check.bad THEN "failed" ELSE "passed"]
  /\ UNCHANGED <<tree, build, zips, layerZips, dirs, root>>

-----------------------------------------------------------------------------
BuildStep == \/ Scan \/ BuildGroup \/ ParseLayers \/ InstallLayer \/ AllInstalled
             \/ PackLayer \/ CleanUp
CheckStep == CheckGroup \/ Load \/ GroupChecked \/ FinishCheck

Next == Edit \/ StartBuild \/ BuildStep \/ Kill \/ StartCheck \/ CheckStep

Spec == Init /\ [][Next]_vars

\* A script that runs goes on running; pip has a time limit of its own.
FairSpec == Spec /\ WF_vars(BuildStep) /\ WF_vars(CheckStep)

-----------------------------------------------------------------------------
(* Properties.                                                             *)

\* Every variable keeps its type.
TypeOK == /\ tree \in Tree
          /\ build \in Build
          /\ zips \in [Package -> Archive \cup {Missing, Broken}]
          /\ layerZips \in [Layer -> Installation \cup {Missing, Broken}]
          /\ dirs \in [Layer -> Installation \cup {Missing}]
          /\ root \in BOOLEAN
          /\ check \in Check

\* The packages a group imports, directly or indirectly: the least set that holds
\* the group and is closed under imports.
Closed(packages) == \A p \in packages : ImportedBy(p) \subseteq packages
Needed(g) == {p \in Package :
                \A s \in SUBSET Package : g \in s /\ Closed(s) => p \in s}

\* A build that succeeds leaves, for every group, an archive of exactly the packages
\* the group needs, whatever cycles the imports have and whatever earlier builds
\* left (required_packages, build_group).
ArchivesComplete ==
  build.pc = "done" => \A g \in Groups : zips[g] = ArchiveOf(Needed(g))

\* What loads when the handlers of an archive are imported.
Loads(archive, g) ==
  {f \in File : \A s \in SUBSET File :
     /\ {h \in Handler \cap archive.files : PackageOf[h] = g} \subseteq s
     /\ \A e \in s : LoadedBy(archive, e) \subseteq s
     => f \in s}

\* A verification that passes means that every handler imports from its archive
\* alone, also when the imports are of a form that the build does not follow, and
\* also when the archives are those of an earlier or an unfinished build.
VerifiedLoads ==
  check.pc = "passed" =>
    \A g \in Groups : /\ zips[g] \notin {Missing, Broken}
                      /\ Loads(zips[g], g) \subseteq zips[g].files
                      /\ \E h \in Handler \cap zips[g].files : PackageOf[h] = g

\* A layer that a successful build installs holds its pinned requirements and nothing
\* that an earlier build, perhaps of other requirements, left in its directory.
LayersFresh ==
  build.pc = "done" => \A l \in build.here : layerZips[l] = Installed({tree.requirements[l]})

\* "CD uploads the whole output directory": a successful build that installs layers
\* leaves no directory that was not there before it.
OnlyZipsRemain ==
  build.pc = "done" => /\ \A l \in build.here : dirs[l] = Missing
                       /\ root => build.rootExisted

\* Every build ends, also over cyclic imports.
BuildEnds == Building ~> ~Building
================================================================================
