------------------------------ MODULE MCWorld -------------------------------
(***************************************************************************)
(* A small world for TLC: room 0 with God and player 3, who carries thing  *)
(* 2, and a room 4 of his with an exit 5 that leads to room 0.  The thing  *)
(* comes before its owner, so purge() reaches it first.                    *)
(***************************************************************************)
EXTENDS World

\* Player 3 may live in thing 2; room 4 has a dropto.
SmallLinks == {<<3, 2>>, <<4, 0>>, <<5, 2>>}

\* Room 4 goes to God and back.
SmallGifts == {<<4, 1>>, <<4, 3>>}

\* Both can go everywhere, the exit to the other room and back.
SmallTels == {<<3, 4>>, <<2, 4>>, <<5, 0>>, <<5, 4>>}

SameTypes == {<<2, "THING">>, <<3, "PLAYER">>, <<4, "ROOM">>, <<5, "EXIT">>}

Small == [x \in Objects |->
    LET o == Garbage
    IN CASE x = 0 -> [o EXCEPT !.type = "ROOM", !.contents = <<3, 1>>]
         [] x = 1 -> [o EXCEPT !.type = "PLAYER", !.location = 0, !.home = 0]
         [] x = 2 -> [o EXCEPT !.type = "THING", !.owner = 3, !.location = 3, !.home = 0]
         [] x = 3 -> [o EXCEPT !.type = "PLAYER", !.owner = 3, !.location = 0, !.home = 0,
                               !.contents = <<2>>]
         [] x = 4 -> [o EXCEPT !.type = "ROOM", !.owner = 3, !.exits = <<5>>]
         [] x = 5 -> [o EXCEPT !.type = "EXIT", !.owner = 3, !.location = 0, !.home = 4]]
=============================================================================
