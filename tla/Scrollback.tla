----------------------------- MODULE Scrollback -----------------------------
(***************************************************************************)
(* What the scroll-back buffer of a channel promises its readers: lines in *)
(* the order they were sent, oldest forgotten first, never a gap, and the  *)
(* newest line is always there.                                            *)
(***************************************************************************)
EXTENDS SequencesExt

CONSTANTS Texts, Off
VARIABLE lines      \* what can be recalled, Off when nothing is kept

Init == lines = Off

Say(text) ==
    /\ lines # Off
    /\ \E kept \in Suffixes(lines) : lines' = Append(kept, text)

Forget == lines # Off /\ lines' \in Suffixes(lines)

Disable == lines' = Off

Enable == lines = Off /\ lines' = <<>>

Next == (\E text \in Texts : Say(text)) \/ Forget \/ Enable \/ Disable

Spec == Init /\ [][Next]_lines

=============================================================================
