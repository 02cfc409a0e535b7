----------------------------- MODULE MCGameLoop -----------------------------
(***************************************************************************)
(* Instances of GameLoop for TLC.  A second has two milliseconds.          *)
(***************************************************************************)
EXTENDS GameLoop

\* How long before the dump a warning is given.
OneAndTwo == [t \in Warnings |-> IF t = "1min" THEN 1 ELSE 2]

\* The dump has an interval of three, the others of four milliseconds.
DumpThree == [t \in Loops \cup Optional |-> IF t = dbsave THEN 3 ELSE 4]
=============================================================================
