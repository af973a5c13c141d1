----------------------------- MODULE PackagingProofs -----------------------------
(***************************************************************************)
(* Proofs about Packaging for any packages, imports and layers: the types; *)
(* a build that succeeds has put exactly what a group imports into its     *)
(* archive, and its layers are of their own installation alone; and a      *)
(* verification that passes has found archives from which handlers import. *)
(***************************************************************************)
EXTENDS Packaging, TLAPS

\* The packages found so far lie between the group and what it needs, and those that
\* are no longer pending have had their imports followed.
Scanned == LET g == First(build.groups)
           IN  /\ g \in build.required /\ build.pending \subseteq build.required
               /\ build.required \subseteq Needed(g)
               /\ \A p \in build.required \ build.pending : ImportedBy(p) \subseteq build.required

Typed == /\ tree \in Tree
         /\ build \in Build /\ root \in BOOLEAN
         /\ zips \in [Package -> Archive \cup {Missing, Broken}]

Succeeding == build.pc \in {"scan", "parse", "install", "pack", "done"}

\* The archives of this build's earlier groups are complete.
BuildInv ==
  /\ build.pc = "scan" => build.groups # {} /\ build.groups \subseteq Groups /\ Scanned
  /\ Succeeding /\ build.pc # "scan" => build.groups = {}
  /\ Succeeding => \A g \in Groups \ build.groups : zips[g] = ArchiveOf(Needed(g))

-----------------------------------------------------------------------------
(* Groups, imports and archives.                                           *)

LEMMA GroupsArePackages == ASSUME tree \in Tree PROVE Groups \subseteq Package
  BY DEF Tree, Groups

LEMMA FirstIsMember == \A s : s # {} => First(s) \in s
  BY DEF First

LEMMA ImportsArePackages ==
  ASSUME tree \in Tree, NEW p PROVE ImportedBy(p) \subseteq Package
  BY ConstantsAssumption DEF Tree, Import, ImportedBy

\* What a package needs is closed under imports: required_packages may add all that
\* a package of the set imports.
LEMMA NeededClosed ==
  ASSUME tree \in Tree, NEW g, NEW p \in Needed(g)
  PROVE  ImportedBy(p) \subseteq Needed(g)
<1>1. ASSUME NEW q \in ImportedBy(p), NEW s \in SUBSET Package, g \in s, Closed(s)
      PROVE  q \in s
  <2>1. p \in s
    BY <1>1 DEF Needed
  <2>2. QED
    BY <1>1, <2>1 DEF Closed
<1>2. QED
  BY <1>1, ImportsArePackages DEF Needed

LEMMA NeedsItself == ASSUME NEW g \in Package PROVE g \in Needed(g)
  BY DEF Needed

\* A set that is closed, holds the group and nothing that it does not need is what it
\* needs.
LEMMA LeastClosed ==
  ASSUME NEW g, NEW s \in SUBSET Package, g \in s, Closed(s), s \subseteq Needed(g)
  PROVE  s = Needed(g)
  BY DEF Needed

LEMMA ArchiveType ==
  ASSUME tree \in Tree, NEW s PROVE ArchiveOf(s) \in Archive
<1> DEFINE files == UNION {PackageFiles(p) : p \in s}
<1>1. files \in SUBSET File
  BY DEF PackageFiles
<1>2. {i \in tree.imports : i.from \in files} \in SUBSET Import
  BY DEF Tree
<1>3. QED
  BY <1>1, <1>2 DEF ArchiveOf, Archive

-----------------------------------------------------------------------------
(* The types on which the argument rests.                                  *)

LEMMA InitTyped == Init => Typed
<1> SUFFICES ASSUME Init PROVE Typed
  OBVIOUS
<1>1. tree \in Tree /\ root \in BOOLEAN
  BY ConstantsAssumption DEF Init
<1>2. build \in Build
  BY DEF Init, NoBuild, Build
<1>3. QED
  BY <1>1, <1>2 DEF Init, Typed

LEMMA FailTyped == build \in Build /\ Fail => build' \in Build /\ build'.pc = "failed"
  BY DEF Fail, Build

LEMMA NoBuildTyped == NoBuild \in Build
  BY DEF NoBuild, Build

\* A step of the build keeps the types.
LEMMA BuildTyped == Typed /\ BuildStep => Typed'
<1> SUFFICES ASSUME Typed, BuildStep PROVE Typed'
  OBVIOUS
<1> USE DEF Typed
<1>1. CASE Scan
  <2>1. PICK p \in build.pending : Fail \/ build' = [build EXCEPT
            !.required = @ \cup (ImportedBy(p) \ build.required),
            !.pending = (@ \ {p}) \cup (ImportedBy(p) \ build.required)]
    BY <1>1 DEF Scan
  <2>2. ImportedBy(p) \subseteq Package
    BY ImportsArePackages
  <2>3. CASE Fail
    BY <1>1, <2>3, FailTyped DEF Scan
  <2>4. CASE ~Fail
    <3> DEFINE found == ImportedBy(p) \ build.required
    <3>1. found \in SUBSET Package
      BY <2>2
    <3>2. build' = [build EXCEPT !.required = @ \cup found, !.pending = (@ \ {p}) \cup found]
      BY <2>1, <2>4
    <3> HIDE DEF found
    <3>3. build' \in Build
      BY <3>1, <3>2 DEF Build
    <3>4. QED
      BY <1>1, <3>3 DEF Scan
  <2>5. QED
    BY <2>3, <2>4
<1>2. CASE BuildGroup
  <2>1. ArchiveOf(build.required) \in Archive
    BY ArchiveType
  <2>2. zips' \in [Package -> Archive \cup {Missing, Broken}]
    BY <1>2, <2>1 DEF BuildGroup
  <2> DEFINE rest == build.groups \ {First(build.groups)}
  <2>3. rest \in SUBSET Package
    BY DEF Build
  <2>4. rest # {} => {First(rest)} \in SUBSET Package
    BY <2>3, FirstIsMember
  <2>5. build' = IF rest = {}
                 THEN [build EXCEPT !.pc = "parse", !.groups = {}]
                 ELSE [build EXCEPT !.groups = rest, !.required = {First(rest)},
                                    !.pending = {First(rest)}]
    BY <1>2 DEF BuildGroup
  <2> HIDE DEF rest
  <2>6. CASE rest = {}
    <3>1. build' = [build EXCEPT !.pc = "parse", !.groups = {}]
      BY <2>5, <2>6
    <3>2. build' \in Build
      BY <3>1 DEF Build
    <3>3. QED
      BY <1>2, <2>2, <3>2 DEF BuildGroup
  <2>7. CASE rest # {}
    <3> DEFINE one == {First(rest)}
    <3>1. build' = [build EXCEPT !.groups = rest, !.required = one, !.pending = one]
      BY <2>5, <2>7
    <3>2. one \in SUBSET Package
      BY <2>4, <2>7
    <3> HIDE DEF one
    <3>3. build' \in Build
      BY <2>3, <3>1, <3>2 DEF Build
    <3>4. QED
      BY <1>2, <2>2, <3>3 DEF BuildGroup
  <2>8. QED
    BY <2>6, <2>7
<1>3. CASE ParseLayers
  <2>1. CASE Fail
    BY <1>3, <2>1, FailTyped DEF ParseLayers
  <2>2. CASE ~Fail
    <3> DEFINE some == IF build.withLayers THEN Layer \ build.given ELSE {}
    <3>1. some \in SUBSET Layer
      OBVIOUS
    <3>2. build' = [build EXCEPT !.pc = "install", !.rootExisted = root, !.layers = some]
      BY <1>3, <2>2 DEF ParseLayers
    <3> HIDE DEF some
    <3>3. build' \in Build
      BY <3>1, <3>2 DEF Build
    <3>4. QED
      BY <1>3, <3>3 DEF ParseLayers
  <2>3. QED
    BY <2>1, <2>2
<1>4. CASE InstallLayer
  <2>1. CASE Fail
    BY <1>4, <2>1, FailTyped DEF InstallLayer
  <2>2. CASE ~Fail
    <3>1. PICK l \in build.layers : build' = [build EXCEPT !.layers = @ \ {l}, !.here = @ \cup {l}]
      BY <1>4, <2>2 DEF InstallLayer
    <3>2. build' \in Build
      BY <3>1 DEF Build
    <3>3. QED
      BY <1>4, <3>2 DEF InstallLayer
  <2>3. QED
    BY <2>1, <2>2
<1>5. CASE AllInstalled
  <2>1. build' \in Build
    BY <1>5 DEF AllInstalled, Build
  <2>2. QED
    BY <1>5, <2>1 DEF AllInstalled
<1>6. CASE PackLayer
  <2>1. CASE Fail
    BY <1>6, <2>1, FailTyped DEF PackLayer
  <2>2. CASE ~Fail
    <3>1. PICK l \in build.layers : build' = [build EXCEPT !.layers = @ \ {l}]
      BY <1>6, <2>2 DEF PackLayer
    <3>2. build' \in Build
      BY <3>1 DEF Build
    <3>3. QED
      BY <1>6, <3>2 DEF PackLayer
  <2>3. QED
    BY <2>1, <2>2
<1>7. CASE CleanUp
  <2>1. build' \in Build
    BY <1>7 DEF CleanUp, Build
  <2>2. QED
    BY <1>7, <2>1 DEF CleanUp
<1>8. QED
  BY <1>1, <1>2, <1>3, <1>4, <1>5, <1>6, <1>7 DEF BuildStep

LEMMA NextTyped == Typed /\ [Next]_vars => Typed'
<1> SUFFICES ASSUME Typed, [Next]_vars PROVE Typed'
  OBVIOUS
<1> USE DEF Typed
<1>1. CASE Edit
  BY <1>1, NoBuildTyped, ConstantsAssumption DEF Edit
<1>2. CASE StartBuild
  <2>1. CASE Fail
    BY <1>2, <2>1, FailTyped DEF StartBuild
  <2>2. CASE ~Fail
    <3> DEFINE one == {First(Groups)}
    <3>1. PICK with \in BOOLEAN, given \in SUBSET Layer :
            /\ Groups # {}
            /\ build' = [NoBuild EXCEPT !.pc = "scan", !.groups = Groups, !.required = one,
                                        !.pending = one, !.withLayers = with, !.given = given]
      BY <1>2, <2>2 DEF StartBuild
    <3>2. one \in SUBSET Package /\ Groups \in SUBSET Package
      BY <3>1, FirstIsMember, GroupsArePackages
    <3> HIDE DEF one
    <3>3. build' \in Build
      BY <3>1, <3>2 DEF NoBuild, Build
    <3>4. QED
      BY <1>2, <3>3 DEF StartBuild
  <2>3. QED
    BY <2>1, <2>2
<1>3. CASE BuildStep
  BY <1>3, BuildTyped
<1>4. CASE Kill
  <2>1. zips' \in [Package -> Archive \cup {Missing, Broken}]
    BY <1>4 DEF Kill
  <2>2. QED
    BY <1>4, <2>1, FailTyped DEF Kill
<1>5. CASE StartCheck
  BY <1>5 DEF StartCheck
<1>6. CASE CheckStep
  BY <1>6 DEF CheckStep, CheckGroup, Load, GroupChecked, FinishCheck
<1>7. CASE UNCHANGED vars
  BY <1>7 DEF vars
<1>8. QED
  BY <1>1, <1>2, <1>3, <1>4, <1>5, <1>6, <1>7 DEF Next

-----------------------------------------------------------------------------
(* A successful build's archives are complete.                             *)

\* What the archives should hold is a matter of the working copy alone.
LEMMA SameTree ==
  ASSUME tree' = tree
  PROVE  /\ Groups' = Groups
         /\ \A p : ImportedBy(p)' = ImportedBy(p)
         /\ \A g : Needed(g)' = Needed(g)
         /\ \A s : ArchiveOf(s)' = ArchiveOf(s)
<1>1. Groups' = Groups
  BY DEF Groups
<1>2. \A p : PackageFiles(p)' = PackageFiles(p)
  BY DEF PackageFiles
<1>3. \A p : ImportedBy(p)' = ImportedBy(p)
  BY <1>2 DEF ImportedBy
<1>4. \A s : Closed(s)' = Closed(s)
  BY <1>3 DEF Closed
<1>5. \A g : Needed(g)' = Needed(g)
  BY <1>4 DEF Needed
<1>6. \A s : ArchiveOf(s)' = ArchiveOf(s)
  BY <1>2 DEF ArchiveOf
<1>7. QED
  BY <1>1, <1>3, <1>5, <1>6

\* A build that has failed or has not begun promises nothing.
LEMMA NotSucceeding ==
  ASSUME build'.pc \in {"idle", "failed"} PROVE BuildInv'
  BY DEF BuildInv, Succeeding

LEMMA StartKeeps == Typed /\ BuildInv /\ StartBuild => BuildInv'
<1> SUFFICES ASSUME Typed, BuildInv, StartBuild PROVE BuildInv'
  OBVIOUS
<1>1. CASE Fail
  BY <1>1, FailTyped, NotSucceeding DEF Typed
<1>2. CASE ~Fail
  <2>1. /\ Groups # {} /\ tree' = tree
        /\ build'.pc = "scan" /\ build'.groups = Groups
        /\ build'.required = {First(Groups)} /\ build'.pending = {First(Groups)}
    BY <1>2 DEF StartBuild, NoBuild
  <2>2. First(Groups) \in Needed(First(Groups))
    BY <2>1, FirstIsMember, GroupsArePackages, NeedsItself DEF Typed
  <2>3. Scanned'
    BY <2>1, <2>2, SameTree DEF Scanned
  <2>4. QED
    BY <2>1, <2>3, SameTree DEF BuildInv, Succeeding
<1>3. QED
  BY <1>1, <1>2

LEMMA ScanKeeps == Typed /\ BuildInv /\ Scan => BuildInv'
<1> SUFFICES ASSUME Typed, BuildInv, Scan PROVE BuildInv'
  OBVIOUS
<1>1. CASE Fail
  BY <1>1, FailTyped, NotSucceeding DEF Typed
<1>2. CASE ~Fail
  <2>1. PICK p \in build.pending : build' = [build EXCEPT
            !.required = @ \cup (ImportedBy(p) \ build.required),
            !.pending = (@ \ {p}) \cup (ImportedBy(p) \ build.required)]
    BY <1>2 DEF Scan
  <2>2. /\ build.pc = "scan" /\ tree' = tree /\ zips' = zips
        /\ build'.pc = "scan" /\ build'.groups = build.groups
        /\ build'.required = build.required \cup ImportedBy(p)
        /\ build'.pending = (build.pending \ {p}) \cup (ImportedBy(p) \ build.required)
    BY <2>1 DEF Scan, Typed, Build
  <2>3. build.groups # {} /\ build.groups \subseteq Groups /\ Scanned
    BY <2>2 DEF BuildInv
  <2>4. ImportedBy(p) \subseteq Needed(First(build.groups))
    BY <2>3, NeededClosed DEF Scanned, Typed
  <2>5. Scanned'
    <3>1. \A q \in build'.required \ build'.pending : ImportedBy(q) \subseteq build'.required
      BY <2>2, <2>3 DEF Scanned
    <3>2. QED
      BY <2>2, <2>3, <2>4, <3>1, SameTree DEF Scanned
  <2>6. \A g \in Groups \ build.groups : zips[g] = ArchiveOf(Needed(g))
    BY <2>2 DEF BuildInv, Succeeding
  <2>7. QED
    BY <2>2, <2>3, <2>5, <2>6, SameTree DEF BuildInv, Succeeding
<1>3. QED
  BY <1>1, <1>2

LEMMA BuildGroupKeeps == Typed /\ BuildInv /\ BuildGroup => BuildInv'
<1> SUFFICES ASSUME Typed, BuildInv, BuildGroup PROVE BuildInv'
  OBVIOUS
<1> DEFINE g == First(build.groups)
           rest == build.groups \ {g}
<1>1. /\ build.pc = "scan" /\ build.pending = {} /\ tree' = tree
      /\ build.groups # {} /\ build.groups \subseteq Groups /\ Scanned
      /\ \A h \in Groups \ build.groups : zips[h] = ArchiveOf(Needed(h))
  BY DEF BuildGroup, BuildInv, Succeeding
<1>2. g \in build.groups /\ build.groups \subseteq Package
  BY <1>1, FirstIsMember, GroupsArePackages DEF Typed
<1>3. build.required = Needed(g)
  <2>1. build.required \in SUBSET Package /\ Closed(build.required)
    BY <1>1 DEF Scanned, Closed, Typed, Build
  <2>2. QED
    BY <1>1, <2>1, LeastClosed DEF Scanned
<1>4. \A h \in Groups \ rest : zips'[h] = ArchiveOf(Needed(h))
  <2>1. zips' = [zips EXCEPT ![g] = ArchiveOf(Needed(g))]
    BY <1>3 DEF BuildGroup
  <2>2. QED
    BY <1>1, <1>2, <2>1, GroupsArePackages DEF Typed
<1>5. build' = IF rest = {}
               THEN [build EXCEPT !.pc = "parse", !.groups = {}]
               ELSE [build EXCEPT !.groups = rest, !.required = {First(rest)},
                                  !.pending = {First(rest)}]
  BY DEF BuildGroup
<1> HIDE DEF g, rest
<1>6. CASE rest = {}
  <2>1. build'.pc = "parse" /\ build'.groups = {}
    BY <1>5, <1>6 DEF Typed, Build
  <2>2. QED
    BY <1>1, <1>4, <1>6, <2>1, SameTree DEF BuildInv, Succeeding
<1>7. CASE rest # {}
  <2>1. /\ build'.pc = "scan" /\ build'.groups = rest
        /\ build'.required = {First(rest)} /\ build'.pending = {First(rest)}
    BY <1>1, <1>5, <1>7 DEF Typed, Build
  <2>2. rest \subseteq Groups
    BY <1>1 DEF rest
  <2>3. First(rest) \in Needed(First(rest))
    BY <1>7, <2>2, FirstIsMember, GroupsArePackages, NeedsItself DEF Typed
  <2>4. Scanned'
    BY <1>1, <2>1, <2>3, SameTree DEF Scanned
  <2>5. QED
    BY <1>1, <1>4, <1>7, <2>1, <2>2, <2>4, SameTree DEF BuildInv, Succeeding
<1>8. QED
  BY <1>6, <1>7

\* The other steps of a build write no function archive.
LEMMA LayerStepKeeps ==
  Typed /\ BuildInv /\ (ParseLayers \/ InstallLayer \/ AllInstalled \/ PackLayer \/ CleanUp)
    => BuildInv'
<1> SUFFICES ASSUME Typed, BuildInv,
                    ParseLayers \/ InstallLayer \/ AllInstalled \/ PackLayer \/ CleanUp
             PROVE  BuildInv'
  OBVIOUS
<1>1. CASE Fail
  BY <1>1, FailTyped, NotSucceeding DEF Typed
<1>2. CASE ~Fail
  <2>1. /\ build.pc \in {"parse", "install", "pack"}
        /\ tree' = tree /\ zips' = zips
        /\ build'.groups = build.groups
        /\ build'.pc \in {"install", "pack", "done"}
    <3>1. CASE ParseLayers
      BY <1>2, <3>1 DEF ParseLayers, Typed, Build
    <3>2. CASE InstallLayer
      BY <1>2, <3>2 DEF InstallLayer, Typed, Build
    <3>3. CASE AllInstalled
      BY <3>3 DEF AllInstalled, Typed, Build
    <3>4. CASE PackLayer
      BY <1>2, <3>4 DEF PackLayer, Typed, Build
    <3>5. CASE CleanUp
      BY <3>5 DEF CleanUp, Typed, Build
    <3>6. QED
      BY <3>1, <3>2, <3>3, <3>4, <3>5
  <2>2. build.groups = {} /\ \A g \in Groups : zips[g] = ArchiveOf(Needed(g))
    BY <2>1 DEF BuildInv, Succeeding
  <2>3. QED
    BY <2>1, <2>2, SameTree DEF BuildInv, Succeeding
<1>3. QED
  BY <1>1, <1>2

LEMMA SameBuild ==
  ASSUME BuildInv, tree' = tree, build' = build, zips' = zips PROVE BuildInv'
<1>1. Scanned => Scanned'
  BY SameTree DEF Scanned
<1>2. QED
  BY <1>1, SameTree DEF BuildInv, Succeeding

LEMMA NextKeeps == Typed /\ BuildInv /\ [Next]_vars => BuildInv'
<1> SUFFICES ASSUME Typed, BuildInv, [Next]_vars PROVE BuildInv'
  OBVIOUS
<1>1. CASE Edit
  BY <1>1, NotSucceeding DEF Edit, NoBuild
<1>2. CASE StartBuild
  BY <1>2, StartKeeps
<1>3. CASE BuildStep
  BY <1>3, ScanKeeps, BuildGroupKeeps, LayerStepKeeps DEF BuildStep
<1>4. CASE Kill
  BY <1>4, FailTyped, NotSucceeding DEF Kill, Typed
<1>5. CASE StartCheck
  BY <1>5, SameBuild DEF StartCheck
<1>6. CASE CheckStep
  BY <1>6, SameBuild DEF CheckStep, CheckGroup, Load, GroupChecked, FinishCheck
<1>7. CASE UNCHANGED vars
  BY <1>7, SameBuild DEF vars
<1>8. QED
  BY <1>1, <1>2, <1>3, <1>4, <1>5, <1>6, <1>7 DEF Next

\* build_lambda.py: whatever the imports, their cycles and what earlier builds left, a
\* build that succeeds has written archives of exactly the packages needed.
THEOREM BuildIsComplete == Spec => []ArchivesComplete
<1>1. Init => Typed /\ BuildInv
  <2>1. Init => BuildInv
    BY DEF Init, NoBuild, BuildInv, Succeeding
  <2>2. QED
    BY <2>1, InitTyped
<1>2. Typed /\ BuildInv /\ [Next]_vars => (Typed /\ BuildInv)'
  BY NextTyped, NextKeeps
<1>3. Typed /\ BuildInv => ArchivesComplete
  BY DEF BuildInv, Succeeding, ArchivesComplete
<1>4. QED
  BY <1>1, <1>2, <1>3, PTL DEF Spec

-----------------------------------------------------------------------------
(* What a verification has found out.                                      *)

Verified(g) == /\ zips[g] \notin {Missing, Broken}
               /\ Loads(zips[g], g) \subseteq zips[g].files
               /\ \E h \in Handler \cap zips[g].files : PackageOf[h] = g

Entry(g) == {h \in Handler \cap zips[g].files : PackageOf[h] = g}

\* Unless a failure is noted, the modules that loaded are in the archive, and what they
\* and the handlers ask for has loaded or is still to load.
Loading == LET g == First(check.groups)
           IN  /\ check.groups # {} /\ zips[g] \in Archive /\ Entry(g) # {}
               /\ ~check.bad =>
                    /\ Entry(g) \subseteq check.loaded \cup check.todo
                    /\ check.loaded \subseteq zips[g].files
                    /\ \A f \in check.loaded :
                         LoadedBy(zips[g], f) \subseteq check.loaded \cup check.todo

\* No build runs beside a verification; the groups that are not still to check are
\* verified unless a failure is noted.
CheckInv ==
  /\ Building => check.pc = "none"
  /\ check.pc \in {"group", "load", "passed"} =>
       /\ check.groups \subseteq Groups
       /\ ~check.bad => \A g \in Groups \ check.groups : Verified(g)
  /\ check.pc = "load" => Loading
  /\ check.pc = "passed" => check.groups = {} /\ ~check.bad

\* A step that leaves the working copy and the archives alone leaves what they show.
LEMMA SameArchives ==
  ASSUME tree' = tree, zips' = zips
  PROVE  /\ Groups' = Groups
         /\ \A g : Verified(g)' = Verified(g) /\ Entry(g)' = Entry(g)
  BY SameTree DEF Verified, Entry, Loads, LoadedBy

\* A verification that has not begun has found out nothing, and a failed one is over.
LEMMA NothingChecked ==
  ASSUME check'.pc \in {"none", "failed"}, Building' => check'.pc = "none"
  PROVE  CheckInv'
  BY DEF CheckInv

\* A build runs only while there is no verification.
LEMMA BuildsAlone ==
  ASSUME CheckInv, BuildStep \/ Kill
  PROVE  check' = check /\ check.pc = "none"
<1>1. Building
  BY DEF BuildStep, Scan, BuildGroup, ParseLayers, InstallLayer, AllInstalled, PackLayer,
         CleanUp, Kill, Building
<1> QED
  BY <1>1 DEF CheckInv, BuildStep, Scan, BuildGroup, ParseLayers, InstallLayer, AllInstalled,
              PackLayer, CleanUp, Kill

\* The next group is opened: its archive is unusable, or its handlers are to load.
LEMMA CheckGroupKeeps ==
  ASSUME TypeOK, CheckInv, CheckGroup
  PROVE  CheckInv' /\ check' \in Check
<1> DEFINE g == First(check.groups)
<1>1. /\ check.pc = "group" /\ g \in check.groups /\ check \in Check
      /\ tree' = tree /\ zips' = zips /\ build' = build
      /\ check.groups \subseteq Groups /\ g \in Package
      /\ ~check.bad => \A h \in Groups \ check.groups : Verified(h)
      /\ ~Building
  BY FirstIsMember DEF CheckGroup, CheckInv, TypeOK, Check
<1>2. ~Building'
  BY <1>1 DEF Building
<1>3. CASE check' = [check EXCEPT !.pc = "failed"]
  BY <1>1, <1>2, <1>3, NothingChecked DEF Check
<1>4. CASE check' = [check EXCEPT !.groups = @ \ {g}, !.bad = TRUE]
  <2>1. /\ check'.pc = "group" /\ check'.groups = check.groups \ {g} /\ check'.bad
        /\ check' \in Check
    BY <1>1, <1>4 DEF Check
  <2> QED
    BY <1>1, <1>2, <2>1, SameArchives DEF CheckInv
<1>5. CASE /\ zips[g] \notin {Missing, Broken} /\ Entry(g) # {}
           /\ check' = [check EXCEPT !.pc = "load", !.todo = Entry(g), !.loaded = {}]
  <2>1. zips[g] \in Archive
    BY <1>1, <1>5 DEF TypeOK
  <2>2. Entry(g) \in SUBSET File
    BY <2>1 DEF Entry, Archive
  <2>3. /\ check'.pc = "load" /\ check'.groups = check.groups /\ check'.bad = check.bad
        /\ check'.todo = Entry(g) /\ check'.loaded = {} /\ check' \in Check
    BY <1>1, <1>5, <2>2 DEF Check
  <2>4. First(check'.groups) = g
    BY <2>3
  <2> HIDE DEF g
  <2>5. Loading'
    BY <1>1, <1>5, <2>1, <2>3, <2>4, SameArchives DEF Loading
  <2> QED
    BY <1>1, <1>2, <2>3, <2>5, SameArchives DEF CheckInv
<1> QED
  BY <1>3, <1>4, <1>5 DEF CheckGroup, Entry

\* A module loads, or is missing from the archive.
LEMMA LoadKeeps ==
  ASSUME TypeOK, CheckInv, Load
  PROVE  CheckInv' /\ check' \in Check
<1> DEFINE g == First(check.groups)
<1>1. /\ check.pc = "load" /\ check \in Check /\ Loading
      /\ tree' = tree /\ zips' = zips /\ build' = build
      /\ check.groups \subseteq Groups /\ zips[g] \in Archive
      /\ ~check.bad => \A h \in Groups \ check.groups : Verified(h)
      /\ ~Building
  BY DEF Load, CheckInv, Loading, TypeOK
<1>2. ~Building'
  BY <1>1 DEF Building
<1>3. PICK f \in check.todo :
        \/ /\ f \in zips[g].files
           /\ check' = [check EXCEPT !.loaded = @ \cup {f},
                                     !.todo = (@ \cup LoadedBy(zips[g], f))
                                                \ (check.loaded \cup {f})]
        \/ check' = [check EXCEPT !.bad = TRUE, !.todo = @ \ {f}]
  BY DEF Load
<1> HIDE DEF g
<1>4. CASE /\ f \in zips[g].files
           /\ check' = [check EXCEPT !.loaded = @ \cup {f},
                                     !.todo = (@ \cup LoadedBy(zips[g], f))
                                                \ (check.loaded \cup {f})]
  <2> DEFINE more == LoadedBy(zips[g], f)
  <2>1. more \in SUBSET File
    BY <1>1 DEF LoadedBy, Archive, Import
  <2> HIDE DEF more
  <2>2. check' = [check EXCEPT !.loaded = @ \cup {f},
                               !.todo = (@ \cup more) \ (check.loaded \cup {f})]
    BY <1>4 DEF more
  <2>3. /\ check'.pc = "load" /\ check'.groups = check.groups /\ check'.bad = check.bad
        /\ check'.loaded = check.loaded \cup {f}
        /\ check'.todo = (check.todo \cup more) \ (check.loaded \cup {f})
        /\ check' \in Check
    BY <1>1, <2>1, <2>2 DEF Check
  <2>4. check'.loaded \cup check'.todo = check.loaded \cup check.todo \cup more
    BY <1>3, <2>3
  <2>5. Loading'
    <3>1. First(check'.groups) = g /\ g = First(check.groups)
      BY <2>3 DEF g
    <3>2. /\ check.groups # {} /\ zips[g] \in Archive /\ Entry(g) # {}
          /\ ~check.bad =>
               /\ Entry(g) \subseteq check.loaded \cup check.todo
               /\ check.loaded \subseteq zips[g].files
               /\ \A e \in check.loaded :
                    LoadedBy(zips[g], e) \subseteq check.loaded \cup check.todo
      BY <1>1, <3>1 DEF Loading
    <3>3. \A e \in check'.loaded : ~check.bad =>
            LoadedBy(zips[g], e) \subseteq check'.loaded \cup check'.todo
      BY <2>3, <2>4, <3>2 DEF more
    <3>4. \A e : LoadedBy(zips[g], e)' = LoadedBy(zips[g], e)
      BY <1>1, <3>1 DEF LoadedBy, g
    <3> QED
      BY <1>1, <1>4, <2>3, <2>4, <3>1, <3>2, <3>3, <3>4, SameArchives DEF Loading
  <2> QED
    BY <1>1, <1>2, <2>3, <2>5, SameArchives DEF CheckInv
<1>5. CASE check' = [check EXCEPT !.bad = TRUE, !.todo = @ \ {f}]
  <2>1. /\ check'.pc = "load" /\ check'.groups = check.groups /\ check'.bad
        /\ check' \in Check
    BY <1>1, <1>5 DEF Check
  <2>2. Loading'
    BY <1>1, <2>1, SameArchives DEF Loading
  <2> QED
    BY <1>1, <1>2, <2>1, <2>2, SameArchives DEF CheckInv
<1> QED
  BY <1>3, <1>4, <1>5

\* A group is done when nothing is left to load: without a failure its handlers load from
\* its archive alone.
LEMMA GroupCheckedKeeps ==
  ASSUME TypeOK, CheckInv, GroupChecked
  PROVE  CheckInv' /\ check' \in Check
<1> DEFINE g == First(check.groups)
<1>1. /\ check.pc = "load" /\ check.todo = {} /\ check \in Check /\ Loading
      /\ check' = [check EXCEPT !.pc = "group", !.groups = @ \ {g}]
      /\ tree' = tree /\ zips' = zips /\ build' = build
      /\ check.groups \subseteq Groups
      /\ ~check.bad => \A h \in Groups \ check.groups : Verified(h)
      /\ ~Building
  BY DEF GroupChecked, CheckInv, TypeOK
<1>2. ~Building'
  BY <1>1 DEF Building
<1>3. /\ check'.pc = "group" /\ check'.groups = check.groups \ {g}
      /\ check'.bad = check.bad /\ check' \in Check
  BY <1>1 DEF Check
<1>4. ASSUME ~check.bad PROVE Verified(g)
  <2>1. /\ zips[g] \in Archive /\ Entry(g) # {} /\ Entry(g) \subseteq check.loaded
        /\ check.loaded \subseteq zips[g].files
        /\ \A e \in check.loaded : LoadedBy(zips[g], e) \subseteq check.loaded
    BY <1>1, <1>4 DEF Loading
  <2>2. check.loaded \in SUBSET File
    BY <1>1 DEF Check
  <2>3. Loads(zips[g], g) \subseteq check.loaded
    BY <2>1, <2>2 DEF Loads, Entry
  <2>4. zips[g] \notin {Missing, Broken}
    BY <2>1 DEF Archive, Missing, Broken
  <2> QED
    BY <2>1, <2>3, <2>4 DEF Verified, Entry
<1> QED
  BY <1>1, <1>2, <1>3, <1>4, SameArchives DEF CheckInv

\* The verification passes when no failure is noted.
LEMMA FinishCheckKeeps ==
  ASSUME TypeOK, CheckInv, FinishCheck
  PROVE  CheckInv' /\ check' \in Check
<1>1. /\ check.pc = "group" /\ check.groups = {} /\ check \in Check
      /\ check' = [check EXCEPT !.pc = IF check.bad THEN "failed" ELSE "passed"]
      /\ tree' = tree /\ zips' = zips /\ build' = build
      /\ ~check.bad => \A h \in Groups \ check.groups : Verified(h)
      /\ ~Building
  BY DEF FinishCheck, CheckInv, TypeOK
<1>2. ~Building'
  BY <1>1 DEF Building
<1>3. CASE check.bad
  <2>1. check'.pc = "failed" /\ check' \in Check
    BY <1>1, <1>3 DEF Check
  <2> QED
    BY <1>2, <2>1, NothingChecked
<1>4. CASE ~check.bad
  <2>1. /\ check'.pc = "passed" /\ check'.groups = {} /\ ~check'.bad /\ check' \in Check
    BY <1>1, <1>4 DEF Check
  <2> QED
    BY <1>1, <1>2, <1>4, <2>1, SameArchives DEF CheckInv
<1> QED
  BY <1>3, <1>4

\* Every step keeps what verifications have found out.
LEMMA CheckInvStep == TypeOK /\ CheckInv /\ [Next]_vars => CheckInv' /\ check' \in Check
<1> SUFFICES ASSUME TypeOK, CheckInv, [Next]_vars PROVE CheckInv' /\ check' \in Check
  OBVIOUS
<1>1. NoCheck \in Check /\ check \in Check
  BY DEF NoCheck, Check, TypeOK
<1>2. CASE Edit \/ StartBuild
  <2>1. check' = NoCheck
    BY <1>2 DEF Edit, StartBuild
  <2>2. check'.pc = "none"
    BY <2>1 DEF NoCheck
  <2> QED
    BY <1>1, <2>1, <2>2, NothingChecked
<1>3. CASE BuildStep \/ Kill
  <2>1. check' = check /\ check.pc = "none"
    BY <1>3, BuildsAlone
  <2> QED
    BY <1>1, <2>1, NothingChecked
<1>4. CASE StartCheck
  <2>1. /\ check'.pc = "group" /\ check'.groups = Groups /\ check' \in Check
        /\ ~Building /\ build' = build /\ tree' = tree /\ zips' = zips
    BY <1>4, GroupsArePackages DEF StartCheck, NoCheck, Check, TypeOK
  <2>2. ~Building'
    BY <2>1 DEF Building
  <2> QED
    BY <2>1, <2>2, SameArchives DEF CheckInv
<1>5. CASE CheckStep
  BY <1>5, CheckGroupKeeps, LoadKeeps, GroupCheckedKeeps, FinishCheckKeeps DEF CheckStep
<1>6. CASE UNCHANGED vars
  <2>1. tree' = tree /\ build' = build /\ check' = check /\ zips' = zips
    BY <1>6 DEF vars
  <2>2. Building' = Building /\ (Loading => Loading')
    BY <2>1, SameArchives DEF Building, Loading, LoadedBy
  <2> QED
    BY <1>1, <2>1, <2>2, SameArchives DEF CheckInv
<1> QED
  BY <1>2, <1>3, <1>4, <1>5, <1>6 DEF Next

-----------------------------------------------------------------------------
(* Type correctness.                                                       *)

\* What pip installs is an installation.
LEMMA InstallationTypes ==
  ASSUME tree \in Tree, NEW l \in Layer
  PROVE  Installed({tree.requirements[l]}) \in Installation /\ Installed({}) \in Installation
  BY DEF Tree, Installed, Installation

\* The layers' archives and directories keep their types.
LEMMA LayerTypes ==
  ASSUME TypeOK, [Next]_vars
  PROVE  /\ layerZips' \in [Layer -> Installation \cup {Missing, Broken}]
         /\ dirs' \in [Layer -> Installation \cup {Missing}]
<1> USE DEF TypeOK
<1>1. build.layers \subseteq Layer
  BY DEF Build
<1>2. CASE InstallLayer
  <2>1. PICK l \in build.layers :
          \E part \in {{}, {tree.requirements[l]}} : dirs' = [dirs EXCEPT ![l] = Installed(part)]
    BY <1>2 DEF InstallLayer
  <2> QED
    BY <1>1, <1>2, <2>1, InstallationTypes DEF InstallLayer
<1>3. CASE PackLayer
  BY <1>1, <1>3 DEF PackLayer
<1>4. CASE Kill
  BY <1>1, <1>4 DEF Kill
<1>5. CASE UNCHANGED <<layerZips, dirs>>
  BY <1>5
<1> QED
  BY <1>2, <1>3, <1>4, <1>5
     DEF Next, Edit, StartBuild, BuildStep, Scan, BuildGroup, ParseLayers, AllInstalled, CleanUp,
         StartCheck, CheckStep, CheckGroup, Load, GroupChecked, FinishCheck, vars

\* Before anything is built the types hold, and nothing has been verified.
LEMMA StartTyped == Init => TypeOK /\ CheckInv
<1> SUFFICES ASSUME Init PROVE TypeOK /\ CheckInv
  OBVIOUS
<1>1. Typed
  BY InitTyped
<1>2. NoCheck \in Check
  BY DEF NoCheck, Check
<1> QED
  BY <1>1, <1>2 DEF Init, Typed, TypeOK, CheckInv, NoCheck, NoBuild, Building

\* Types and findings are inductive together: a module that loads is typed because its
\* archive was found whole.
LEMMA TypeStep == TypeOK /\ CheckInv /\ [Next]_vars => (TypeOK /\ CheckInv)'
<1> SUFFICES ASSUME TypeOK, CheckInv, [Next]_vars PROVE TypeOK' /\ CheckInv'
  OBVIOUS
<1>1. Typed'
  BY NextTyped DEF Typed, TypeOK
<1> QED
  BY <1>1, LayerTypes, CheckInvStep DEF Typed, TypeOK

\* Every variable keeps its type, for any packages, imports and layers.
THEOREM TypeCorrect == Spec => []TypeOK
  BY StartTyped, TypeStep, PTL DEF Spec

\* verify_lambda_packages.py: when it passes, every handler imports from its archive alone,
\* whichever builds, finished or not, the archives are from.
THEOREM VerifiedArchivesLoad == Spec => []VerifiedLoads
<1>1. CheckInv => VerifiedLoads
  BY DEF CheckInv, Verified, VerifiedLoads
<1> QED
  BY <1>1, StartTyped, TypeStep, PTL DEF Spec

-----------------------------------------------------------------------------
(* What a build leaves of its layers.                                      *)

Fresh(l) == Installed({tree.requirements[l]})
Packed(l) == layerZips[l] = Fresh(l) /\ dirs[l] = Missing

\* A layer installed here is fresh in its directory until it is packed and removed; what
\* other directories there are, and the root of them all, were there before.
LayerInv ==
  /\ \A l \in Layer : dirs[l] # Missing => root
  /\ build.pc \in {"scan", "parse"} => build.here = {}
  /\ build.pc = "install" => /\ build.here \cap build.layers = {}
                             /\ \A l \in build.here : dirs[l] = Fresh(l)
  /\ build.pc = "pack" => \A l \in build.here : IF l \in build.layers THEN dirs[l] = Fresh(l)
                                                                     ELSE Packed(l)
  /\ build.pc \in {"install", "pack"} =>
       /\ \A l \in Layer \ build.here : dirs[l] # Missing => build.rootExisted
       /\ build.here = {} /\ root => build.rootExisted
  /\ build.pc = "done" => /\ \A l \in build.here : Packed(l)
                          /\ root => build.rootExisted

\* A build that has failed or has not begun leaves directories below their root.
LEMMA StoppedKeeps ==
  ASSUME build'.pc \in {"idle", "failed"}, \A l \in Layer : dirs'[l] # Missing => root'
  PROVE  LayerInv'
  BY DEF LayerInv

\* An installation is there.
LEMMA InstalledIsThere == ASSUME NEW v PROVE Installed(v) # Missing
<1>1. Installed(v).state = "whole" /\ Missing.state = "missing"
  BY DEF Installed, Missing
<1> QED
  BY <1>1

\* A layer is installed anew, or its installation fails.
LEMMA InstallKeeps ==
  ASSUME TypeOK, LayerInv, InstallLayer
  PROVE  LayerInv'
<1>1. build.pc = "install" /\ root' = TRUE /\ tree' = tree /\ build \in Build
  BY DEF InstallLayer, TypeOK
<1>2. CASE Fail
  BY <1>1, <1>2, FailTyped, StoppedKeeps
<1>3. CASE ~Fail
  <2>1. PICK l \in build.layers :
          /\ dirs' = [dirs EXCEPT ![l] = Fresh(l)]
          /\ build' = [build EXCEPT !.layers = @ \ {l}, !.here = @ \cup {l}]
    BY <1>3 DEF InstallLayer, Fresh
  <2>2. /\ build'.pc = "install" /\ build'.layers = build.layers \ {l}
        /\ build'.here = build.here \cup {l} /\ build'.rootExisted = build.rootExisted
        /\ l \in Layer /\ build.here \subseteq Layer
    BY <1>1, <2>1 DEF Build
  <2>3. \A k \in Layer : dirs'[k] = IF k = l THEN Fresh(l) ELSE dirs[k]
    BY <2>1, <2>2 DEF TypeOK
  <2>4. \A k : Fresh(k)' = Fresh(k)
    BY <1>1 DEF Fresh
  <2>5. l \notin build.here /\ \A k \in build.here : dirs[k] = Fresh(k)
    BY <1>1, <2>1 DEF LayerInv
  <2>6. \A k \in build'.here : dirs'[k] = Fresh(k)
    BY <2>2, <2>3, <2>5
  <2> QED
    BY <1>1, <2>2, <2>3, <2>4, <2>5, <2>6 DEF LayerInv
<1> QED
  BY <1>2, <1>3

\* A layer installed here is packed and its directory removed; a given one is packed
\* from where it is.
LEMMA PackKeeps ==
  ASSUME TypeOK, LayerInv, PackLayer
  PROVE  LayerInv'
<1>1. /\ build.pc = "pack" /\ root' = root /\ tree' = tree /\ build \in Build
      /\ build.layers \subseteq Layer /\ build.here \subseteq Layer
  BY DEF PackLayer, TypeOK, Build
<1>2. \A k : Fresh(k)' = Fresh(k)
  BY <1>1 DEF Fresh
<1>3. CASE Fail
  <2>1. \A l \in Layer : dirs'[l] # Missing => dirs[l] # Missing
    BY <1>1, <1>3 DEF PackLayer, TypeOK
  <2> QED
    BY <1>1, <1>3, <2>1, FailTyped, StoppedKeeps DEF LayerInv
<1>4. ASSUME NEW l \in build.layers, build' = [build EXCEPT !.layers = @ \ {l}],
             \A k \in Layer \ {l} : dirs'[k] = dirs[k] /\ layerZips'[k] = layerZips[k],
             IF l \in build.here THEN layerZips'[l] = dirs[l] /\ dirs'[l] = Missing
                                 ELSE dirs'[l] = dirs[l]
      PROVE  LayerInv'
  <2>1. /\ build'.pc = "pack" /\ build'.layers = build.layers \ {l}
        /\ build'.here = build.here /\ build'.rootExisted = build.rootExisted
    BY <1>1, <1>4 DEF Build
  <2>2. \A k \in build.here : IF k \in build.layers THEN dirs[k] = Fresh(k) ELSE Packed(k)
    BY <1>1 DEF LayerInv
  <2>3. ASSUME NEW k \in build.here
        PROVE  IF k \in build'.layers THEN dirs'[k] = Fresh(k)'
               ELSE layerZips'[k] = Fresh(k)' /\ dirs'[k] = Missing
    <3>1. CASE k = l
      BY <1>2, <1>4, <2>1, <2>2, <3>1
    <3>2. CASE k # l
      BY <1>1, <1>2, <1>4, <2>1, <2>2, <3>2 DEF Packed
    <3> QED
      BY <3>1, <3>2
  <2>4. \A k \in Layer : dirs'[k] # Missing => dirs[k] # Missing
    BY <1>4
  <2> QED
    BY <1>1, <2>1, <2>3, <2>4 DEF LayerInv, Packed
<1>5. CASE ~Fail
  <2>1. PICK l \in build.layers :
          /\ build' = [build EXCEPT !.layers = @ \ {l}]
          /\ \/ /\ l \in build.here
                /\ layerZips' = [layerZips EXCEPT ![l] = dirs[l]]
                /\ dirs' = [dirs EXCEPT ![l] = Missing]
             \/ /\ l \notin build.here
                /\ \E content \in Installation : layerZips' = [layerZips EXCEPT ![l] = content]
                /\ UNCHANGED dirs
    BY <1>5 DEF PackLayer
  <2>2. /\ \A k \in Layer \ {l} : dirs'[k] = dirs[k] /\ layerZips'[k] = layerZips[k]
        /\ IF l \in build.here THEN layerZips'[l] = dirs[l] /\ dirs'[l] = Missing
                               ELSE dirs'[l] = dirs[l]
    BY <1>1, <2>1 DEF TypeOK
  <2> QED
    BY <1>4, <2>1, <2>2
<1> QED
  BY <1>3, <1>5

\* The root goes when this build made it and nothing is left below it.
LEMMA CleanUpKeeps ==
  ASSUME TypeOK, LayerInv, CleanUp
  PROVE  LayerInv'
<1>1. /\ build.pc = "pack" /\ build.layers = {} /\ build \in Build
      /\ tree' = tree /\ dirs' = dirs /\ layerZips' = layerZips
      /\ root' = IF /\ build.here # {} /\ ~build.rootExisted
                    /\ \A l \in Layer : dirs[l] = Missing
                 THEN FALSE ELSE root
  BY DEF CleanUp, TypeOK
<1>2. /\ build'.pc = "done" /\ build'.here = build.here
      /\ build'.rootExisted = build.rootExisted
  BY <1>1 DEF CleanUp, Build
<1>3. \A l \in build.here : Packed(l)
  BY <1>1 DEF LayerInv
<1>4. \A l \in build.here : Packed(l)'
  BY <1>1, <1>3 DEF Packed, Fresh
<1>5. root' => build.rootExisted
  BY <1>1, <1>3 DEF LayerInv, Packed
<1>6. \A l \in Layer : dirs[l] # Missing => root'
  BY <1>1 DEF LayerInv
<1> QED
  BY <1>1, <1>2, <1>4, <1>5, <1>6 DEF LayerInv

\* Every step keeps what is known of the layers.
LEMMA LayerInvStep == TypeOK /\ LayerInv /\ [Next]_vars => LayerInv'
<1> SUFFICES ASSUME TypeOK, LayerInv, [Next]_vars PROVE LayerInv'
  OBVIOUS
<1>1. build \in Build /\ NoBuild.pc = "idle" /\ NoBuild.here = {}
  BY DEF TypeOK, NoBuild
<1>2. CASE Edit \/ Kill
  <2>1. build'.pc \in {"idle", "failed"} /\ dirs' = dirs /\ root' = root
    BY <1>1, <1>2, FailTyped DEF Edit, Kill
  <2> QED
    BY <2>1, StoppedKeeps DEF LayerInv
<1>3. CASE StartBuild \/ Scan \/ BuildGroup
  <2>1. CASE Fail
    <3>1. dirs' = dirs /\ root' = root
      BY <1>3 DEF StartBuild, Scan, BuildGroup
    <3> QED
      BY <1>1, <2>1, <3>1, FailTyped, StoppedKeeps DEF LayerInv
  <2>2. CASE ~Fail
    <3>1. dirs' = dirs /\ root' = root /\ build'.pc \in {"scan", "parse"} /\ build'.here = {}
      <4>1. CASE StartBuild
        BY <2>2, <4>1 DEF StartBuild, NoBuild
      <4>2. CASE Scan
        BY <1>1, <2>2, <4>2 DEF Scan, LayerInv, Build
      <4>3. CASE BuildGroup
        BY <1>1, <4>3 DEF BuildGroup, LayerInv, Build
      <4> QED
        BY <1>3, <4>1, <4>2, <4>3
    <3> QED
      BY <3>1 DEF LayerInv
  <2> QED
    BY <2>1, <2>2
<1>4. CASE ParseLayers
  <2>1. dirs' = dirs /\ root' = root
    BY <1>4 DEF ParseLayers
  <2>2. CASE Fail
    BY <1>1, <2>1, <2>2, FailTyped, StoppedKeeps DEF LayerInv
  <2>3. CASE ~Fail
    <3>1. build'.pc = "install" /\ build'.here = {} /\ build'.rootExisted = root
      BY <1>1, <1>4, <2>3 DEF ParseLayers, LayerInv, Build
    <3> QED
      BY <2>1, <3>1 DEF LayerInv
  <2> QED
    BY <2>2, <2>3
<1>5. CASE AllInstalled
  <2>1. /\ dirs' = dirs /\ root' = root /\ tree' = tree
        /\ build.pc = "install" /\ build'.pc = "pack" /\ build'.here = build.here
        /\ build'.layers = build.here \cup build.given
        /\ build'.rootExisted = build.rootExisted
    BY <1>1, <1>5 DEF AllInstalled, Build
  <2> QED
    BY <2>1 DEF LayerInv, Fresh
<1>6. CASE InstallLayer \/ PackLayer \/ CleanUp
  BY <1>6, InstallKeeps, PackKeeps, CleanUpKeeps
<1>7. CASE UNCHANGED <<tree, build, layerZips, dirs, root>>
  BY <1>7 DEF LayerInv, Fresh, Packed
<1> QED
  BY <1>2, <1>3, <1>4, <1>5, <1>6, <1>7
     DEF Next, BuildStep, StartCheck, CheckStep, CheckGroup, Load, GroupChecked, FinishCheck,
         vars

\* Before any build there are no layers.
LEMMA LayerInvInit == Init => LayerInv
<1> SUFFICES ASSUME Init PROVE LayerInv
  OBVIOUS
<1>1. build.pc = "idle" /\ \A l \in Layer : dirs[l] = Missing
  BY DEF Init, NoBuild
<1> QED
  BY <1>1 DEF LayerInv

\* install_layer, build_layer: an archive that a successful build makes of a layer holds
\* its pinned requirements alone, whatever failed builds left in the directory.
THEOREM LayersAreFresh == Spec => []LayersFresh
<1>1. LayerInv => LayersFresh
  BY DEF LayerInv, LayersFresh, Packed, Fresh
<1> QED
  BY <1>1, LayerInvInit, LayerInvStep, TypeCorrect, PTL DEF Spec

\* A successful build that installs layers leaves no directory in the output directory
\* that was not there before it.
THEOREM NoDirectoryIsLeft == Spec => []OnlyZipsRemain
<1>1. LayerInv => OnlyZipsRemain
  BY DEF LayerInv, OnlyZipsRemain, Packed
<1> QED
  BY <1>1, LayerInvInit, LayerInvStep, TypeCorrect, PTL DEF Spec
================================================================================
