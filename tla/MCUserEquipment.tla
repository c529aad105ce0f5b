-------------------------- MODULE MCUserEquipment --------------------------
(* UserEquipment with a battery of a few units: one second moves it by two  *)
(* units and one ping by one, as 12 and 2 of 100 do in the program.         *)
EXTENDS UserEquipment
=============================================================================
