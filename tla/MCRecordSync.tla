---------------------------- MODULE MCRecordSync ----------------------------
(* The instances of RecordSync that TLC checks. *)
EXTENDS RecordSync

CONSTANTS a, b, Size

MCValues == {a, b}
MCIds == 1 .. Size
=============================================================================
