--------------------------- MODULE MCCommandQueue ---------------------------
(***************************************************************************)
(* Instances of CommandQueue for TLC.                                      *)
(***************************************************************************)
EXTENDS CommandQueue, TLC

\* Object 0 is a player who owns everything that is not a player.
OneOwner == [x \in Objects |-> IF x \in Players THEN x ELSE 0]

NoPowers == [x \in Objects |-> {}]

Two == [p \in Players |-> 2]
\* The semaphore attributes are interchangeable.
Symmetry == Permutations(Attrs)

TwoAndNone == [p \in Players |-> IF p = 0 THEN 2 ELSE 0]
Three == [p \in Players |-> 3]

Neg1 == -1
=============================================================================
