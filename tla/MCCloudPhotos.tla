------------------------------ MODULE MCCloudPhotos ------------------------------
(***************************************************************************)
(* Values of the constants of CloudPhotos for TLC.                         *)
(***************************************************************************)
EXTENDS CloudPhotos

CONSTANTS alice, x, android, private, slash, blank, name

MCPiece == {alice, private, slash, blank, name}
MCId    == [u \in User |-> <<alice>>]

\* An object of the user, and somebody else's.
MCRawPath == {<<private, slash, alice, slash, name, blank>>,
              <<private, slash, alice, name, slash, name>>}
================================================================================
