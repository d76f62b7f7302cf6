----------------------------- MODULE RecordTexts -----------------------------
(***************************************************************************)
(* The texts in records, as far as the conversions tell them apart: "" is   *)
(* empty, "none" is no text at all, "long" a line of more than 50 characters*)
(* and "long..." what is left of it; the rest are like "a".                 *)
(***************************************************************************)
CONSTANT Texts

ASSUME TextsAssumption == {"", "none", "a", "long", "long..."} \subseteq Texts
=============================================================================
