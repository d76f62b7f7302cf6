---------------------------- MODULE MCEdsConduit ----------------------------
(* The instances of EdsConduit that TLC checks. *)
EXTENDS EdsConduit, TLC

CONSTANTS MaxPid, MaxUid, MaxItem

MCPids == 1 .. MaxPid
MCUids == 1 .. MaxUid
MCItems == 1 .. MaxItem
SourceSymmetry == Permutations(Sources)
=============================================================================
