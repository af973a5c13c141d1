------------------------------ MODULE MCDeviceTokens ------------------------------
(***************************************************************************)
(* Values of the constants of DeviceTokens for TLC.                        *)
(***************************************************************************)
EXTENDS DeviceTokens, TLC

CONSTANTS alice, bob, android, ios

TokenSymmetry == Permutations(Request) \cup Permutations(User) \cup Permutations(Platform)
================================================================================
