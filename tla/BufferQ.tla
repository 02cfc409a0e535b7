------------------------------ MODULE BufferQ ------------------------------
(***************************************************************************)
(* The scroll-back buffer of src/bufferq.c: lines of any length, one after *)
(* the other in a fixed number of bytes, each with its length in front.    *)
(* mem holds the bytes from buffer to buffer_end; the first byte of an     *)
(* entry stands for its header and text, the others are PAD.  A write past *)
(* the end of the allocation makes mem longer than buffer_size.            *)
(***************************************************************************)
EXTENDS Integers, Sequences

CONSTANTS BUFFER_LEN,   \* bytes of the longest line, its final 0 included
          OVERHEAD,     \* BUFFERQLINEOVERHEAD
          PAD

ASSUME SizeAssumption == BUFFER_LEN \in Nat \ {0} /\ OVERHEAD \in Nat \ {0}

\* The bytes an entry takes: its header, the text and the final 0.
EntrySize(text) == text.len + 1 + OVERHEAD

EntryBytes(text) ==
    [i \in 1..EntrySize(text) |-> IF i = 1 THEN text ELSE PAD]

allocate_bufferq(lines) ==
    [mem |-> <<>>, buffer_size |-> lines * (BUFFER_LEN + OVERHEAD),
     num_buffered |-> 0]

\* Where an entry starts, and the end of the bytes.
Starts(mem) == {p \in 0..Len(mem) : p < Len(mem) => mem[p + 1] # PAD}

\* Where the walk of shift_bufferq stops, and how many entries it passed.
Passed(mem, space_needed) ==
    LET walk[p \in Starts(mem)] ==
            IF p >= space_needed \/ p = Len(mem)
            THEN [p |-> p, skipped |-> 0]
            ELSE LET rest == walk[p + EntrySize(mem[p + 1])]
                 IN  [rest EXCEPT !.skipped = @ + 1]
    IN  walk[0]

shift_bufferq(bq, space_needed) ==
    LET w == Passed(bq.mem, space_needed)
    IN  [bq EXCEPT !.mem = SubSeq(@, w.p + 1, Len(@)),
                   !.num_buffered = @ - w.skipped]

\* Mutant of NeedsShift: the final 0 of the line is forgotten.
NeedsShift_late(bq, room) ==
    Len(bq.mem) > 0 /\ bq.buffer_size - Len(bq.mem) < room - 1

\* Room is made when less than the entry is left.
NeedsShift(bq, room) ==
    Len(bq.mem) > 0 /\ bq.buffer_size - Len(bq.mem) < room

\* Mutant of add_to_bufferq: the line is put in front of the others.
add_to_bufferq_front(bq, text) ==
    LET room == EntrySize(text)
        shifted == IF NeedsShift(bq, room) THEN shift_bufferq(bq, room) ELSE bq
    IN  IF room > bq.buffer_size THEN bq
        ELSE [shifted EXCEPT !.mem = EntryBytes(text) \o @,
                             !.num_buffered = @ + 1]

add_to_bufferq(bq, text) ==
    LET room == EntrySize(text)
        shifted == IF NeedsShift(bq, room) THEN shift_bufferq(bq, room) ELSE bq
    IN  IF room > bq.buffer_size THEN bq
        ELSE [shifted EXCEPT !.mem = @ \o EntryBytes(text),
                             !.num_buffered = @ + 1]

\* A resized buffer counts the overhead of a line twice, a new one once.
reallocate_bufferq(bq, lines) ==
    LET bytes == lines * (BUFFER_LEN + 2 * OVERHEAD)
        used == Len(bq.mem)
        kept == IF bq.buffer_size > bytes /\ used >= bytes
                THEN shift_bufferq(bq, used - bytes) ELSE bq
    IN  [kept EXCEPT !.buffer_size = bytes]

\* The lines that calling iter_bufferq until it gives NULL returns.
Lines(bq) ==
    LET from[p \in Starts(bq.mem)] ==
            IF p = Len(bq.mem) THEN <<>>
            ELSE <<bq.mem[p + 1]>> \o from[p + EntrySize(bq.mem[p + 1])]
    IN  from[0]

bufferq_blocks(bq) == bq.buffer_size \div (BUFFER_LEN + OVERHEAD)

\* What a recall of the last n lines shows: the place where it starts is
\* found from num_buffered, not from the entries.
Recalled(bq, n) ==
    LET start == IF bq.num_buffered > n THEN bq.num_buffered - n ELSE 0
        lines == Lines(bq)
    IN  SubSeq(lines, start + 1, IF start + n < Len(lines) THEN start + n ELSE Len(lines))

=============================================================================
