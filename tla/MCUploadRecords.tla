----------------------------- MODULE MCUploadRecords -----------------------------
(***************************************************************************)
(* Values of UploadRecords' constants for TLC.                             *)
(***************************************************************************)
EXTENDS UploadRecords, TLC

CONSTANTS alice, bob, x, y, private, slash, blank, suffix, name

RequestSymmetry == Permutations(Request) \cup Permutations(Content)

WalkSymmetry == Permutations(Request)

MCPiece == {alice, private, slash, blank, suffix, name}

\* bob's identity begins with the whole of alice's, as in the tests of belongs_to.
MCId == [u \in User |-> IF u = bob THEN <<alice, suffix>> ELSE <<alice>>]

\* An object of each user, with and without blanks around it; a prefix without its
\* slash, paths that are not private, that do not begin there, and blanks.
MCRawPath == {<<private, slash, alice, slash, name>>,
              <<private, slash, alice, suffix, slash, name>>,
              <<blank, private, slash, alice, slash, name, blank>>,
              <<blank, blank, private, slash, alice, suffix, slash, name>>,
              <<private, slash, alice>>, <<private, slash, alice, blank>>,
              <<name, slash, alice, slash, name>>,
              <<name, private, slash, alice, slash, name>>, <<blank>>, <<>>}

\* Below, inside and above the clamped range.
MCRawLimit == {0, 2, 3}
================================================================================
