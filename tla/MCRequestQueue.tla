--------------------------- MODULE MCRequestQueue ---------------------------
(* The instances of RequestQueue that TLC checks. *)
EXTENDS RequestQueue

CONSTANT cradle

MCCradles == {cradle}

(* Pilot 2 gets everything, any other pilot is only sent files.  Where a    *)
(* handle has 16 values and a section 5 of them, the handles of pilot 5     *)
(* wrap around to those of pilot 2, one lower, as with 2^32 and 65535 those *)
(* of pilot 65539 do.                                                       *)
MCKindsOf == [p \in Pilots |-> IF p = 2 THEN PilotKinds ELSE {"INSTALL"}]
=============================================================================
