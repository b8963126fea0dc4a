---------------------------- MODULE MCWebRTCPool ----------------------------
(***************************************************************************)
(* A small pool for TLC: three factories, visited in the order of their    *)
(* names, which stands for any order as the factories are alike.           *)
(***************************************************************************)
EXTENDS WebRTCPool, TLC

CONSTANTS f1, f2, f3

InOrder == <<f1, f2, f3>>
CreatorSymmetry == Permutations(Creators)

=============================================================================
