----------------------------- MODULE QueueSeqs -----------------------------
(***************************************************************************)
(* The list traversals of src/cque.c, on sequences of process ids.         *)
(*                                                                         *)
(* The C code keeps each queue as a singly linked list and edits it while  *)
(* walking it with a "trail" pointer.  Every such walk is one of two:      *)
(* unlink the nodes that match, or find the place of a node in a list      *)
(* sorted by wait_until.  Neither uses a RECURSIVE operator, so that       *)
(* theorems can be proved about both.                                      *)
(***************************************************************************)
EXTENDS Integers, Sequences, Functions

\* The elements of s that are in S, in their order: what remains of a list
\* after a walk has unlinked every node outside S.
Keep(s, S) ==
  LET kept[i \in 0..Len(s)] ==
        IF i = 0 THEN << >>
        ELSE IF s[i] \in S THEN Append(kept[i - 1], s[i])
        ELSE kept[i - 1]
  IN  kept[Len(s)]

\* The position of the first element of s whose key is greater than k, or
\* the position after the last one: where a walk over a sorted list stops.
FirstAfter(s, key, k) ==
  CHOOSE i \in 1..(Len(s) + 1) :
    /\ \A j \in 1..(i - 1) : key[s[j]] <= k
    /\ i <= Len(s) => key[s[i]] > k

\* s with e linked in front of its i-th element.
Insert(s, i, e) == SubSeq(s, 1, i - 1) \o <<e>> \o SubSeq(s, i, Len(s))

\* The first n elements of s, or all of them when there are fewer.
Take(s, n) == SubSeq(s, 1, IF n < Len(s) THEN n ELSE Len(s))

\* The elements of s after its n-th.
Drop(s, n) == SubSeq(s, n + 1, Len(s))

=============================================================================
