------------------------------- MODULE MCChat -------------------------------
(***************************************************************************)
(* Instances of Chat for TLC: God, a player and a thing, named so that the *)
(* thing sorts before the players.                                         *)
(***************************************************************************)
EXTENDS Chat

MCObjName == [o \in Objects |-> IF o \in Things THEN 1 ELSE IF o = God THEN 2 ELSE 3]

MCTypes == {{"player"}, {"object", "player"}, {"player", "disabled"}}
=============================================================================
