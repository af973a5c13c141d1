------------------------------- MODULE MCPackaging -------------------------------
(***************************************************************************)
(* Values of the constants of Packaging for TLC: two groups, 1 and 2, and  *)
(* two shared packages, 3 and 4.                                           *)
(***************************************************************************)
EXTENDS Packaging

CONSTANTS handler1, handler2, tests2, shared3, shared4, old, new

MCPackageOf == [f \in File |-> CASE f = handler1 -> 1
                                 [] f \in {handler2, tests2} -> 2
                                 [] f = shared3 -> 3
                                 [] f = shared4 -> 4]

Imports(f, g, dotted, lazy) == [from |-> f, to |-> g, dotted |-> dotted, lazy |-> lazy]

Source(packages, imports, version) ==
  [packages |-> packages, imports |-> imports, requirements |-> [l \in Layer |-> version]]

Cycle == {Imports(shared3, shared4, TRUE, TRUE), Imports(shared4, shared3, TRUE, FALSE)}

\* A path of two imports with a lazy end and a cycle behind it; a form that the build
\* does not follow; an import of a package that is gone; a group that imports the
\* other one; an import that only a test has; no group at all.
MCTrees ==
  {Source({1, 2, 3, 4}, Cycle \cup {Imports(handler1, shared3, TRUE, FALSE)}, old),
   Source({1, 2, 3, 4}, Cycle \cup {Imports(handler2, shared4, FALSE, FALSE)}, new),
   Source({1, 2, 4}, {Imports(handler1, shared4, TRUE, FALSE),
                      Imports(shared4, shared3, TRUE, FALSE)}, old),
   Source({1, 2, 3, 4}, {Imports(handler2, handler1, TRUE, FALSE),
                         Imports(handler1, shared3, TRUE, FALSE)}, new),
   Source({1, 2, 3, 4}, {Imports(tests2, shared3, TRUE, FALSE),
                         Imports(handler2, shared4, TRUE, FALSE)}, old),
   Source({3, 4}, Cycle, old)}
==================================================================================
