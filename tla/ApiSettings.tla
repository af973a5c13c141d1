------------------------------- MODULE ApiSettings -------------------------------
(***************************************************************************)
(* What modules/media_api declares for one resource type of the REST API   *)
(* (methods, integrations, responses: all are treated alike), what of it   *)
(* feeds the trigger that redeploys the stage, and what                    *)
(* scripts/check_api_deployment_inputs.py reports about it in CI.          *)
(***************************************************************************)
EXTENDS Naturals

CONSTANTS Name,       \* names of resource blocks, and keys of what they iterate over
          Value,      \* what a setting may be set to
          Collection  \* what a for_each may be over: the two tables, and anything else

Table == {"api_routes", "cors_preflights"}

ASSUME CollectionAssumption ==
  Table \subseteq Collection /\ Collection \cap {"single", "undeclared"} = {}

\* A block is a single resource or has for_each over a collection.  The local of the type
\* merges the blocks it references as a whole map with the entries it lists.
Source == [kind    : [Name -> Collection \cup {"single", "undeclared"}],
           keys    : [Collection -> SUBSET Name],
           maps    : SUBSET Name,
           entries : SUBSET [key : Name, name : Name],
           value   : [Name -> Value]]

Declared(src) == {n \in Name : src.kind[n] # "undeclared"}
ForEach(src) == {n \in Name : src.kind[n] \in Collection}

\* The resources of the type: a block has one for each key of its collection.
Settings(src) == {s \in [block : Name, key : Name] :
                    \/ src.kind[s.block] = "single" /\ s.key = s.block
                    \/ s.block \in ForEach(src) /\ s.key \in src.keys[src.kind[s.block]]}

Listed(src) == {e.name : e \in src.entries}

\* Mutant: a block that is listed nowhere is reported only if it has for_each.
MissingMapsOnly(src) == ForEach(src) \ src.maps

\* check_resource_type: blocks that the local does not contain, in the form that
\* their for_each asks for.
Missing(src) == (ForEach(src) \ src.maps) \cup ((Declared(src) \ ForEach(src)) \ Listed(src))

Unknown(src) == (src.maps \cup Listed(src)) \ Declared(src)

Mismatched(src) == {e \in src.entries : e.key # e.name}

\* Mutant: the tables may share keys.
NothingShared(src) == {}

\* check_disjoint_tables.
SharedKeys(src) == src.keys["api_routes"] \cap src.keys["cors_preflights"]

Passes(src) == Missing(src) = {} /\ Unknown(src) = {} /\ Mismatched(src) = {} /\ SharedKeys(src) = {}

-----------------------------------------------------------------------------
(* The trigger.                                                            *)

\* What a key of the local may stand for.
Candidates(src, k) ==
  {s \in Settings(src) : \/ s.key = k /\ s.block \in src.maps \cap ForEach(src)
                         \/ /\ src.kind[s.block] = "single"
                            /\ [key |-> k, name |-> s.block] \in src.entries}

\* merge() keeps one of the entries with an equal key.
Tracked(src) == {CHOOSE s \in Candidates(src, k) : TRUE :
                   k \in {j \in Name : Candidates(src, j) # {}}}

\* What the module is written like, and the check does not look at: blocks of a type
\* share no key, unless they are over the two tables that it compares, and no key names a
\* single resource.
OneBlockPerKey(src) ==
  \A n \in ForEach(src) :
    /\ \A m \in ForEach(src) \ {n} : \/ {src.kind[m], src.kind[n]} = Table
                                      \/ src.keys[src.kind[m]] \cap src.keys[src.kind[n]] = {}
    /\ \A m \in src.keys[src.kind[n]] : src.kind[m] # "single"
================================================================================
