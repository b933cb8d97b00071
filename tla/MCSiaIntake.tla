----------------------------- MODULE MCSiaIntake -----------------------------
(***************************************************************************)
(* Frames with one fault of each answer, and one with two.                 *)
(***************************************************************************)
EXTENDS SiaIntake

MCDamages == {{"empty"}, {"length"}, {"crc"}, {"crc", "account"}}
=============================================================================
