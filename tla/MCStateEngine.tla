---------------------------- MODULE MCStateEngine -----------------------------
(* Instances of StateEngine for TLC.                                        *)
EXTENDS StateEngine

CONSTANTS a1, detector, keypad

(* The usual devices: a detector with alarms and faults, a keypad whose      *)
(* users arm, disarm and may be under duress, and the hub with its lid.      *)
Installation ==
  [w \in Accounts \X Places |->
     CASE w[2] = detector -> {"alarm", "restore", "trouble", "bypass", "turned_off"}
       [] w[2] = keypad -> {"alarm", "arm", "night", "night_off", "disarm"}
       [] OTHER -> {"alarm", "restore", "tamper", "arm", "disarm", "test", "other"}]
=============================================================================
