----------------------------- MODULE ChatProofs -----------------------------
(***************************************************************************)
(* Proofs about Chat: both sides of the membership agree, the list of      *)
(* channels is sorted and complete, deposits are given back once, and the  *)
(* bytes of a scroll-back buffer implement Scrollback.                     *)
(***************************************************************************)
EXTENDS Chat, QueueSeqsProofs

-----------------------------------------------------------------------------
\* Lists.

\* A walk that stops in front of a set of entries.
LEMMA PlaceFacts ==
  ASSUME NEW T, NEW s \in Seq(T), NEW stops
  PROVE  /\ Place(s, stops) \in 1..(Len(s) + 1)
         /\ \A j \in 1..(Place(s, stops) - 1) : s[j] \notin stops
         /\ Place(s, stops) <= Len(s) => s[Place(s, stops)] \in stops
<1> DEFINE I == {i \in DOMAIN s : s[i] \in stops} \cup {Len(s) + 1}
           p == Place(s, stops)
<1>0. Len(s) \in Nat /\ DOMAIN s = 1..Len(s)
  OBVIOUS
<1>1. I \subseteq Nat /\ I # {}
  BY <1>0
<1>2. p = CHOOSE x \in I : \A y \in I : x <= y
  BY DEF Place, Min
<1>3. p \in I /\ \A y \in I : p <= y
  <2> HIDE DEF I, p
  <2>1. \E x \in I : \A y \in I : x <= y
    BY <1>1, LeastElement
  <2> QED BY <1>2, <2>1
<1> HIDE DEF p
<1>4. p \in 1..(Len(s) + 1)
  BY <1>0, <1>3
<1>5. ASSUME NEW j \in 1..(p - 1) PROVE s[j] \notin stops
  <2>1. j \in DOMAIN s /\ ~(p <= j)
    BY <1>0, <1>4
  <2> QED BY <1>3, <2>1
<1>6. p <= Len(s) => s[p] \in stops
  BY <1>0, <1>3
<1> QED BY <1>4, <1>5, <1>6 DEF p

\* A list without repetitions has as many entries as elements.
LEMMA InjectiveLen ==
  ASSUME NEW T, NEW s \in Seq(T), IsInjective(s)
  PROVE  IsFiniteSet(Range(s)) /\ Cardinality(Range(s)) = Len(s)
<1>0. s \in [1..Len(s) -> Range(s)] /\ DOMAIN s = 1..Len(s)
  BY DEF Range
<1>1. s \in Bijection(1..Len(s), Range(s))
  <2>1. s \in Injection(1..Len(s), Range(s))
    BY <1>0 DEF Injection, IsInjective
  <2>2. \A t \in Range(s) : \E i \in 1..Len(s) : s[i] = t
    BY <1>0 DEF Range
  <2>3. s \in Surjection(1..Len(s), Range(s))
    BY <1>0, <2>2 DEF Surjection
  <2> QED BY <2>1, <2>3 DEF Bijection
<1>2. IsFiniteSet(1..Len(s)) /\ Cardinality(1..Len(s)) = Len(s)
  <2>1. Len(s) \in Int /\ 1 \in Int /\ (1 > Len(s) => Len(s) = 0) /\ Len(s) - 1 + 1 = Len(s)
    OBVIOUS
  <2> QED BY <2>1, FS_Interval
<1>3. ExistsBijection(1..Len(s), Range(s))
  BY <1>1 DEF ExistsBijection
<1> QED BY <1>2, <1>3, FS_Bijection

-----------------------------------------------------------------------------
\* The bytes of a buffer.

\* The end of the entry at p.
After(mem, p) == p + EntrySize(mem[p + 1])

\* The bytes are entries, one after the other.
WellFormed(mem) ==
  /\ mem \in Seq(Texts \cup {PAD})
  /\ 0 \in Starts(mem)
  /\ \A p \in Starts(mem) : p < Len(mem) => After(mem, p) \in Starts(mem)

\* An entry takes at least its header, and never more than a line's share of
\* a new buffer.
LEMMA SizeFacts ==
  ASSUME NEW t \in Texts
  PROVE  EntrySize(t) \in 1..(BUFFER_LEN + OVERHEAD) /\ t.len \in Nat
<1>1. t.len \in Lens
  BY DEF Texts
<1>2. BUFFER_LEN \in Nat /\ OVERHEAD \in Nat /\ OVERHEAD > 0 /\ t.len \in 0..(BUFFER_LEN - 1)
  <2>1. BUFFER_LEN \in Nat /\ OVERHEAD \in Nat /\ OVERHEAD > 0
    BY SizeAssumption
  <2>2. Lens \subseteq 0..(BUFFER_LEN - 1)
    BY BoundsAssumption
  <2> QED BY <1>1, <2>1, <2>2
<1> QED BY <1>2 DEF EntrySize

\* What is at a place where an entry starts.
LEMMA StartFacts ==
  ASSUME NEW mem, WellFormed(mem), NEW p \in Starts(mem)
  PROVE  /\ p \in Nat /\ Len(mem) \in Nat /\ p <= Len(mem)
         /\ Len(mem) \in Starts(mem)
         /\ p # Len(mem) => /\ p < Len(mem) /\ mem[p + 1] \in Texts
                            /\ After(mem, p) \in Starts(mem)
                            /\ After(mem, p) \in Nat
                            /\ After(mem, p) > p
<1>1. /\ p \in Nat /\ Len(mem) \in Nat /\ p <= Len(mem)
      /\ Len(mem) \in Starts(mem) /\ DOMAIN mem = 1..Len(mem)
      /\ \A i \in 1..Len(mem) : mem[i] \in Texts \cup {PAD}
  BY DEF WellFormed, Starts
<1>2. ASSUME p # Len(mem)
      PROVE  /\ p < Len(mem) /\ mem[p + 1] \in Texts
             /\ After(mem, p) \in Starts(mem)
             /\ After(mem, p) \in Nat
             /\ After(mem, p) > p
  <2>1. p < Len(mem) /\ p + 1 \in 1..Len(mem)
    <3>1. \A a, b \in Nat : a <= b /\ a # b => a < b /\ a + 1 \in 1..b
      OBVIOUS
    <3>2. p \in Nat /\ Len(mem) \in Nat /\ p <= Len(mem) /\ p # Len(mem)
      BY <1>1, <1>2, Zenon
    <3> QED BY <3>1, <3>2, Zenon
  <2>2. mem[p + 1] \in Texts
    <3>1. mem[p + 1] \in Texts \cup {PAD}
      BY <1>1, <2>1
    <3>2. mem[p + 1] # PAD
      BY <2>1 DEF Starts
    <3> QED BY <3>1, <3>2
  <2>3. EntrySize(mem[p + 1]) \in Nat /\ EntrySize(mem[p + 1]) > 0
    <3>1. EntrySize(mem[p + 1]) \in 1..(BUFFER_LEN + OVERHEAD)
      BY <2>2, SizeFacts
    <3>2. BUFFER_LEN + OVERHEAD \in Nat
      BY SizeAssumption
    <3> QED BY <3>1, <3>2
  <2>4. After(mem, p) \in Starts(mem)
    BY <2>1 DEF WellFormed
  <2> QED BY <1>1, <2>1, <2>2, <2>3, <2>4 DEF After
<1> QED BY <1>1, <1>2

\* The starts that are at most n bytes from the end.
Near(mem, n) == {p \in Starts(mem) : Len(mem) - p <= n}

\* Induction over the entries, from the last to the first.
LEMMA EntryInduction ==
  ASSUME NEW mem, WellFormed(mem), NEW S, Len(mem) \in S,
         \A p \in Starts(mem) : p # Len(mem) /\ After(mem, p) \in S => p \in S
  PROVE  \A p \in Starts(mem) : p \in S
<1> DEFINE ok == {n \in Nat : \A p \in Starts(mem) : Len(mem) - p <= n => p \in S}
<1>1. 0 \in ok
  <2>1. ASSUME NEW p \in Starts(mem), Len(mem) - p <= 0 PROVE p = Len(mem)
    BY <2>1, StartFacts
  <2> QED BY <2>1
<1>2. ASSUME NEW n \in Nat, n \in ok PROVE n + 1 \in ok
  <2>1. ASSUME NEW p \in Starts(mem), Len(mem) - p <= n + 1 PROVE p \in S
    <3>1. CASE p = Len(mem)
      BY <3>1
    <3>2. CASE p # Len(mem)
      <4>1. /\ p \in Nat /\ Len(mem) \in Nat /\ After(mem, p) \in Starts(mem)
            /\ After(mem, p) \in Nat /\ After(mem, p) > p
        BY <3>2, StartFacts
      <4>2. Len(mem) - After(mem, p) <= n
        BY <2>1, <4>1
      <4>3. After(mem, p) \in S
        BY <1>2, <4>1, <4>2
      <4> QED BY <3>2, <4>3
    <3> QED BY <3>1, <3>2
  <2> QED BY <2>1
<1>3. Nat \subseteq ok
  <2> HIDE DEF ok
  <2> QED BY <1>1, <1>2, NatSetInduction
<1>4. ASSUME NEW p \in Starts(mem) PROVE p \in S
  <2>1. Len(mem) - p \in Nat /\ Len(mem) - p <= Len(mem) - p
    BY StartFacts
  <2>2. Len(mem) - p \in ok
    BY <1>3, <2>1
  <2> QED BY <2>1, <2>2
<1> QED BY <1>4

\* One step of a walk from entry to entry that ends in Stop.
Stepped(mem, Stop, B, G, f, p) ==
  IF p \in Stop THEN B[p] ELSE G[<<p, f[After(mem, p)]>>]

\* Such a walk computes something.
Computes(mem, X, Stop, B, G) ==
  \E f \in [Starts(mem) -> X] :
    \A p \in Starts(mem) : f[p] = Stepped(mem, Stop, B, G, f, p)

\* A walk over the entries has a result, by induction from the last entry.
LEMMA WalkExists ==
  ASSUME NEW mem, WellFormed(mem), NEW X, NEW Stop, Len(mem) \in Stop,
         NEW B \in [Starts(mem) -> X],
         NEW G \in [(Starts(mem) \ Stop) \X X -> X]
  PROVE  Computes(mem, X, Stop, B, G)
<1> DEFINE Good(n, f) == /\ f \in [Near(mem, n) -> X]
                         /\ \A p \in Near(mem, n) : f[p] = Stepped(mem, Stop, B, G, f, p)
           ok == {n \in Nat : \E f : Good(n, f)}
<1>0. ASSUME NEW n \in Nat, NEW p \in Near(mem, n + 1), p \notin Stop
      PROVE  After(mem, p) \in Near(mem, n)
  <2>1. p \in Starts(mem) /\ p # Len(mem) /\ Len(mem) - p <= n + 1
    BY <1>0 DEF Near
  <2>2. /\ p \in Nat /\ Len(mem) \in Nat /\ After(mem, p) \in Starts(mem)
        /\ After(mem, p) \in Nat /\ After(mem, p) > p
    BY <2>1, StartFacts
  <2> QED BY <2>1, <2>2 DEF Near
<1>1. 0 \in ok
  <2> DEFINE f == [p \in Near(mem, 0) |-> B[p]]
  <2>1. ASSUME NEW p \in Near(mem, 0) PROVE p \in Starts(mem) /\ p \in Stop
    <3>1. p \in Starts(mem) /\ Len(mem) - p <= 0
      BY DEF Near
    <3>2. p \in Nat /\ Len(mem) \in Nat /\ p <= Len(mem)
      BY <3>1, StartFacts
    <3>3. p = Len(mem)
      BY <3>1, <3>2
    <3> QED BY <3>1, <3>3
  <2>2. Good(0, f)
    BY <2>1 DEF Stepped
  <2> QED BY <2>2
<1>2. ASSUME NEW n \in Nat, n \in ok PROVE n + 1 \in ok
  <2>1. PICK f : Good(n, f)
    BY <1>2
  <2> DEFINE g == [p \in Near(mem, n + 1) |-> Stepped(mem, Stop, B, G, f, p)]
  <2>2. /\ \A p \in Near(mem, n) : p \in Near(mem, n + 1)
        /\ \A k \in Nat : \A p \in Near(mem, k) : p \in Starts(mem)
    <3>1. ASSUME NEW p \in Near(mem, n) PROVE p \in Near(mem, n + 1)
      <4>1. p \in Starts(mem) /\ Len(mem) - p <= n
        BY DEF Near
      <4>2. p \in Nat /\ Len(mem) \in Nat
        BY <4>1, StartFacts
      <4>3. Len(mem) - p <= n + 1
        BY <4>1, <4>2
      <4> QED BY <4>1, <4>3 DEF Near
    <3>2. \A k \in Nat : \A p \in Near(mem, k) : p \in Starts(mem)
      BY DEF Near
    <3> QED BY <3>1, <3>2
  <2>3. \A p \in Near(mem, n) : g[p] = f[p]
    BY <2>1, <2>2
  <2>4. \A p \in Near(mem, n + 1) : g[p] \in X
    <3>1. ASSUME NEW p \in Near(mem, n + 1) PROVE Stepped(mem, Stop, B, G, f, p) \in X
      <4>1. CASE p \in Stop
        BY <2>2, <4>1 DEF Stepped
      <4>2. CASE p \notin Stop
        <5>1. After(mem, p) \in Near(mem, n)
          BY <1>0, <4>2
        <5>2. f[After(mem, p)] \in X /\ p \in Starts(mem) \ Stop
          BY <2>1, <2>2, <4>2, <5>1
        <5>3. <<p, f[After(mem, p)]>> \in (Starts(mem) \ Stop) \X X
          BY <5>2
        <5> QED BY <4>2, <5>3 DEF Stepped
      <4> QED BY <4>1, <4>2
    <3> QED BY <3>1
  <2>5. ASSUME NEW p \in Near(mem, n + 1) PROVE g[p] = Stepped(mem, Stop, B, G, g, p)
    <3>1. CASE p \in Stop
      BY <3>1 DEF Stepped
    <3>2. CASE p \notin Stop
      <4>1. After(mem, p) \in Near(mem, n)
        BY <1>0, <3>2
      <4>2. g[After(mem, p)] = f[After(mem, p)]
        BY <2>3, <4>1
      <4>3. g[p] = Stepped(mem, Stop, B, G, f, p)
        OBVIOUS
      <4> HIDE DEF g
      <4> QED BY <3>2, <4>2, <4>3 DEF Stepped
    <3> QED BY <3>1, <3>2
  <2>6. g \in [Near(mem, n + 1) -> X]
    BY <2>4
  <2> HIDE DEF g
  <2>7. Good(n + 1, g)
    BY <2>5, <2>6
  <2> QED BY <2>7
<1>3. Nat \subseteq ok
  <2> HIDE DEF ok
  <2> QED BY <1>1, <1>2, NatSetInduction
<1>4. Len(mem) \in Nat /\ Near(mem, Len(mem)) = Starts(mem)
  <2>1. 0 \in Starts(mem)
    BY DEF WellFormed
  <2>2. Len(mem) \in Nat
    BY <2>1, StartFacts
  <2>3. ASSUME NEW p \in Starts(mem) PROVE Len(mem) - p <= Len(mem)
    <3>1. p \in Nat
      BY StartFacts
    <3> QED BY <2>2, <3>1
  <2> QED BY <2>2, <2>3 DEF Near
<1>5. PICK f : Good(Len(mem), f)
  BY <1>3, <1>4
<1> QED BY <1>4, <1>5 DEF Computes

\* The recursive function of Lines: the lines from a place on.
From(mem) ==
  CHOOSE f : f = [p \in Starts(mem) |->
                    IF p = Len(mem) THEN <<>> ELSE <<mem[p + 1]>> \o f[After(mem, p)]]

\* A line of an entry, in front of the lines that follow.
LEMMA FromFacts ==
  ASSUME NEW mem, WellFormed(mem)
  PROVE  /\ From(mem) \in [Starts(mem) -> Seq(Texts)]
         /\ From(mem)[Len(mem)] = <<>>
         /\ \A p \in Starts(mem) : p # Len(mem) =>
              From(mem)[p] = <<mem[p + 1]>> \o From(mem)[After(mem, p)]
<1> DEFINE X == Seq(Texts)
           Stop == {Len(mem)}
           B == [p \in Starts(mem) |-> <<>>]
           G == [z \in (Starts(mem) \ Stop) \X X |-> <<mem[z[1] + 1]>> \o z[2]]
           Step(f, p) == IF p = Len(mem) THEN <<>> ELSE <<mem[p + 1]>> \o f[After(mem, p)]
<1>1. ASSUME NEW p \in Starts(mem) \ Stop, NEW x \in X
      PROVE  /\ <<mem[p + 1]>> \o x \in X
             /\ G[<<p, x>>] = <<mem[p + 1]>> \o x
  <2>1. mem[p + 1] \in Texts
    BY StartFacts
  <2>2. <<mem[p + 1]>> \o x \in X
    BY <2>1
  <2> QED BY <2>2
<1>2. G \in [(Starts(mem) \ Stop) \X X -> X] /\ B \in [Starts(mem) -> X]
  <2>1. ASSUME NEW z \in (Starts(mem) \ Stop) \X X PROVE <<mem[z[1] + 1]>> \o z[2] \in X
    <3>1. z[1] \in Starts(mem) \ Stop /\ z[2] \in X
      OBVIOUS
    <3> QED BY <1>1, <3>1
  <2>2. G \in [(Starts(mem) \ Stop) \X X -> X]
    BY <2>1, Zenon
  <2>3. <<>> \in X
    OBVIOUS
  <2> QED BY <2>2, <2>3
<1>3. Computes(mem, X, Stop, B, G)
  <2> HIDE DEF B, G, X
  <2>1. Len(mem) \in Stop
    OBVIOUS
  <2> HIDE DEF Stop
  <2> QED BY <1>2, <2>1, WalkExists
<1>4. PICK f \in [Starts(mem) -> X] :
        \A p \in Starts(mem) : f[p] = Stepped(mem, Stop, B, G, f, p)
  <2> HIDE DEF B, G, X, Stop
  <2> QED BY <1>3 DEF Computes
<1>5. ASSUME NEW p \in Starts(mem) PROVE f[p] = Step(f, p)
  <2>1. CASE p = Len(mem)
    <3>1. f[p] = B[p]
      BY <1>4, <2>1 DEF Stepped
    <3> QED BY <2>1, <3>1
  <2>2. CASE p # Len(mem)
    <3>1. After(mem, p) \in Starts(mem)
      BY <2>2, StartFacts
    <3>2. f[After(mem, p)] \in X /\ p \in Starts(mem) \ Stop
      BY <2>2, <3>1
    <3>3. f[p] = G[<<p, f[After(mem, p)]>>]
      BY <1>4, <2>2 DEF Stepped
    <3>4. G[<<p, f[After(mem, p)]>>] = <<mem[p + 1]>> \o f[After(mem, p)]
      BY <1>1, <3>2
    <3> HIDE DEF G
    <3> QED BY <2>2, <3>3, <3>4
  <2> QED BY <2>1, <2>2
<1>6. f = [p \in Starts(mem) |-> Step(f, p)]
  BY <1>5
<1> DEFINE F == From(mem)
<1>7. F = [p \in Starts(mem) |-> Step(F, p)]
  <2>1. F = CHOOSE g : g = [p \in Starts(mem) |-> Step(g, p)]
    BY DEF From
  <2> HIDE DEF F, Step
  <2> QED BY <1>6, <2>1
<1> HIDE DEF F
<1>8. DOMAIN F = Starts(mem) /\ \A p \in Starts(mem) : F[p] = Step(F, p)
  <2> HIDE DEF Step
  <2> QED BY <1>7
<1>9. \A p \in Starts(mem) : F[p] \in X
  <2> DEFINE S == {p \in Starts(mem) : F[p] \in X}
  <2>1. Len(mem) \in Starts(mem)
    BY StartFacts DEF WellFormed
  <2>2. Len(mem) \in S
    <3>1. F[Len(mem)] = <<>>
      BY <1>8, <2>1
    <3>2. <<>> \in X
      OBVIOUS
    <3> QED BY <2>1, <3>1, <3>2
  <2>3. ASSUME NEW p \in Starts(mem), p # Len(mem), After(mem, p) \in S PROVE p \in S
    <3>1. F[After(mem, p)] \in X
      BY <2>3
    <3>2. F[p] = <<mem[p + 1]>> \o F[After(mem, p)]
      BY <1>8, <2>3
    <3> QED BY <1>1, <2>3, <3>1, <3>2
  <2> HIDE DEF S
  <2>4. \A p \in Starts(mem) : p \in S
    BY <2>2, <2>3, EntryInduction
  <2> QED BY <2>4 DEF S
<1>10. F \in [Starts(mem) -> X]
  BY <1>7, <1>9
<1>11. Len(mem) \in Starts(mem)
  BY StartFacts DEF WellFormed
<1> QED BY <1>8, <1>10, <1>11 DEF F

\* Lines are the lines from the first byte on.
LEMMA LinesFrom ==
  ASSUME NEW bq
  PROVE  Lines(bq) = From(bq.mem)[0]
BY DEF Lines, From, After

\* The recursive function of Passed.
Walk(mem, space) ==
  CHOOSE f : f = [p \in Starts(mem) |->
                    IF p >= space \/ p = Len(mem) THEN [p |-> p, skipped |-> 0]
                    ELSE [f[After(mem, p)] EXCEPT !.skipped = @ + 1]]

\* The walk of shift_bufferq() stays on entries and counts the ones it passes.
LEMMA WalkFacts ==
  ASSUME NEW mem, WellFormed(mem), NEW space
  PROVE  /\ Walk(mem, space) \in [Starts(mem) -> [p : Starts(mem), skipped : Nat]]
         /\ \A p \in Starts(mem) :
              Walk(mem, space)[p] =
                IF p >= space \/ p = Len(mem) THEN [p |-> p, skipped |-> 0]
                ELSE [Walk(mem, space)[After(mem, p)] EXCEPT !.skipped = @ + 1]
<1> DEFINE X == [p : Starts(mem), skipped : Nat]
           Stop == {p \in Starts(mem) : p >= space \/ p = Len(mem)}
           B == [p \in Starts(mem) |-> [p |-> p, skipped |-> 0]]
           G == [z \in (Starts(mem) \ Stop) \X X |-> [z[2] EXCEPT !.skipped = @ + 1]]
           Step(f, p) == IF p >= space \/ p = Len(mem) THEN [p |-> p, skipped |-> 0]
                         ELSE [f[After(mem, p)] EXCEPT !.skipped = @ + 1]
<1>1. ASSUME NEW p \in Starts(mem) \ Stop, NEW x \in X
      PROVE  /\ [x EXCEPT !.skipped = @ + 1] \in X
             /\ G[<<p, x>>] = [x EXCEPT !.skipped = @ + 1]
  OBVIOUS
<1>2. G \in [(Starts(mem) \ Stop) \X X -> X] /\ B \in [Starts(mem) -> X]
  <2>1. G \in [(Starts(mem) \ Stop) \X X -> X]
    <3>1. ASSUME NEW z \in (Starts(mem) \ Stop) \X X PROVE [z[2] EXCEPT !.skipped = @ + 1] \in X
      BY <1>1
    <3> QED BY <3>1
  <2> QED BY <2>1
<1>0. Len(mem) \in Starts(mem)
  BY StartFacts DEF WellFormed
<1>3. Computes(mem, X, Stop, B, G)
  <2> HIDE DEF B, G, X
  <2>1. Len(mem) \in Stop
    BY <1>0
  <2> HIDE DEF Stop
  <2> QED BY <1>2, <2>1, WalkExists
<1>4. PICK f \in [Starts(mem) -> X] :
        \A p \in Starts(mem) : f[p] = Stepped(mem, Stop, B, G, f, p)
  <2> HIDE DEF B, G, X, Stop
  <2> QED BY <1>3 DEF Computes
<1>5. ASSUME NEW p \in Starts(mem) PROVE f[p] = Step(f, p)
  <2>1. CASE p \in Stop
    <3>1. f[p] = B[p]
      BY <1>4, <2>1 DEF Stepped
    <3> QED BY <2>1, <3>1
  <2>2. CASE p \notin Stop
    <3>1. After(mem, p) \in Starts(mem)
      BY <2>2, StartFacts
    <3>2. f[After(mem, p)] \in X /\ p \in Starts(mem) \ Stop
      BY <2>2, <3>1
    <3>3. f[p] = G[<<p, f[After(mem, p)]>>]
      BY <1>4, <2>2 DEF Stepped
    <3>4. G[<<p, f[After(mem, p)]>>] = [f[After(mem, p)] EXCEPT !.skipped = @ + 1]
      <4> DEFINE x == f[After(mem, p)]
      <4>1. x \in X
        BY <3>2
      <4> HIDE DEF x
      <4>2. G[<<p, x>>] = [x EXCEPT !.skipped = @ + 1]
        BY <1>1, <3>2, <4>1
      <4> HIDE DEF G, X
      <4> QED BY <4>2 DEF x
    <3> HIDE DEF G
    <3> QED BY <2>2, <3>3, <3>4
  <2> QED BY <2>1, <2>2
<1>6. f = [p \in Starts(mem) |-> Step(f, p)]
  BY <1>5
<1> DEFINE F == Walk(mem, space)
<1>7. F = [p \in Starts(mem) |-> Step(F, p)]
  <2>1. F = CHOOSE g : g = [p \in Starts(mem) |-> Step(g, p)]
    BY DEF Walk
  <2> HIDE DEF F, Step
  <2> QED BY <1>6, <2>1
<1> HIDE DEF F
<1>8. DOMAIN F = Starts(mem) /\ \A p \in Starts(mem) : F[p] = Step(F, p)
  <2> HIDE DEF Step
  <2> QED BY <1>7
<1>9. \A p \in Starts(mem) : F[p] \in X
  <2> DEFINE S == {p \in Starts(mem) : F[p] \in X}
  <2>1. ASSUME NEW p \in Starts(mem), p \in Stop PROVE p \in S
    BY <1>8, <2>1
  <2>2. Len(mem) \in S
    BY <1>0, <2>1
  <2>3. ASSUME NEW p \in Starts(mem), p # Len(mem), After(mem, p) \in S PROVE p \in S
    <3>1. F[After(mem, p)] \in X
      BY <2>3
    <3>2. CASE p \notin Stop
      <4>1. F[p] = [F[After(mem, p)] EXCEPT !.skipped = @ + 1]
        BY <1>8, <2>3, <3>2
      <4>2. \A x \in X : [x EXCEPT !.skipped = @ + 1] \in X
        OBVIOUS
      <4> QED BY <3>1, <4>1, <4>2
    <3> QED BY <2>1, <3>2
  <2> HIDE DEF S
  <2>4. \A p \in Starts(mem) : p \in S
    BY <2>2, <2>3, EntryInduction
  <2> QED BY <2>4 DEF S
<1>10. F \in [Starts(mem) -> X]
  BY <1>7, <1>9
<1> QED BY <1>8, <1>10 DEF F

\* Passed is this walk, from the first entry.
LEMMA PassedWalk ==
  ASSUME NEW mem, NEW space
  PROVE  Passed(mem, space) = Walk(mem, space)[0]
BY DEF Passed, Walk, After

\* s without its first n elements.
Without(s, n) == SubSeq(s, n + 1, Len(s))

\* What is left is a suffix.
LEMMA WithoutFacts ==
  ASSUME NEW T, NEW s \in Seq(T), NEW n \in Nat, n <= Len(s)
  PROVE  /\ Without(s, n) \in Seq(T) /\ Len(Without(s, n)) = Len(s) - n
         /\ \A i \in 1..(Len(s) - n) : Without(s, n)[i] = s[n + i]
         /\ n = 0 => Without(s, n) = s
         /\ Without(s, n) \in Suffixes(s)
<1>0. Len(s) \in Nat /\ DOMAIN s = 1..Len(s)
  OBVIOUS
<1>1. /\ Without(s, n) \in Seq(T) /\ Len(Without(s, n)) = Len(s) - n
      /\ \A i \in 1..(Len(s) - n) : Without(s, n)[i] = s[n + i]
  <2>1. n + 1 \in Int /\ Len(s) \in Int /\ 1 <= n + 1 /\ Len(s) <= Len(s)
        /\ n + 1 <= Len(s) + 1 /\ Len(s) - (n + 1) + 1 = Len(s) - n
        /\ \A i \in Int : (n + 1) + i - 1 = n + i
    BY <1>0
  <2>2. /\ Without(s, n) \in Seq(T) /\ Len(Without(s, n)) = Len(s) - (n + 1) + 1
        /\ \A i \in 1..(Len(s) - (n + 1) + 1) : Without(s, n)[i] = s[(n + 1) + i - 1]
    <3>1. \A x, y \in Int : 1 <= x /\ y <= Len(s) /\ x <= y + 1 =>
            /\ SubSeq(s, x, y) \in Seq(T) /\ Len(SubSeq(s, x, y)) = y - x + 1
            /\ \A i \in 1..(y - x + 1) : SubSeq(s, x, y)[i] = s[x + i - 1]
      BY SubSeqFacts
    <3> QED BY <2>1, <3>1, Zenon DEF Without
  <2>3. ASSUME NEW i \in 1..(Len(s) - n) PROVE Without(s, n)[i] = s[n + i]
    <3>1. i \in 1..(Len(s) - (n + 1) + 1) /\ (n + 1) + i - 1 = n + i
      BY <1>0, <2>1
    <3> QED BY <2>2, <3>1
  <2> QED BY <2>1, <2>2, <2>3
<1>2. n = 0 => Without(s, n) = s
  <2> SUFFICES ASSUME n = 0 PROVE Without(s, n) = s
    OBVIOUS
  <2>1. Len(Without(s, n)) = Len(s) /\ \A i \in 1..Len(s) : Without(s, n)[i] = s[i]
    BY <1>0, <1>1
  <2> DEFINE t == Without(s, n)
  <2>2. t \in Seq(T) /\ Len(t) = Len(s) /\ \A i \in 1..Len(s) : t[i] = s[i]
    BY <1>1, <2>1
  <2> HIDE DEF t
  <2>3. t = s
    BY <2>2
  <2> QED BY <2>3 DEF t
<1>3. Without(s, n) \in Suffixes(s)
  <2>1. CASE n = Len(s)
    <3>1. Len(Without(s, n)) = 0 /\ Without(s, n) \in Seq(T)
      BY <1>0, <1>1, <2>1
    <3>2. Without(s, n) = <<>>
      BY <3>1
    <3> QED BY <3>2 DEF Suffixes
  <2>2. CASE n # Len(s)
    <3>1. n + 1 \in 1..Len(s)
      <4>1. \A a, b \in Nat : a <= b /\ a # b => a + 1 \in 1..b
        OBVIOUS
      <4> QED BY <1>0, <2>2, <4>1, Zenon
    <3> QED BY <3>1 DEF Suffixes, Without
  <2> QED BY <2>1, <2>2
<1> QED BY <1>1, <1>2, <1>3

\* A line in front.
LEMMA ConsFacts ==
  ASSUME NEW T, NEW x \in T, NEW s \in Seq(T)
  PROVE  /\ <<x>> \o s \in Seq(T) /\ Len(<<x>> \o s) = Len(s) + 1
         /\ (<<x>> \o s)[1] = x
         /\ \A i \in 2..(Len(s) + 1) : (<<x>> \o s)[i] = s[i - 1]
OBVIOUS

\* Leaving out one more.
LEMMA WithoutCons ==
  ASSUME NEW T, NEW x \in T, NEW s \in Seq(T), NEW n \in Nat, n <= Len(s)
  PROVE  Without(<<x>> \o s, n + 1) = Without(s, n)
<1> DEFINE c == <<x>> \o s
<1>1. /\ c \in Seq(T) /\ Len(c) = Len(s) + 1 /\ Len(s) \in Nat
      /\ \A i \in 2..(Len(s) + 1) : c[i] = s[i - 1]
  BY ConsFacts
<1> HIDE DEF c
<1> DEFINE a == Without(c, n + 1)
           b == Without(s, n)
<1>2. /\ a \in Seq(T) /\ Len(a) = Len(c) - (n + 1)
      /\ \A i \in 1..(Len(c) - (n + 1)) : a[i] = c[(n + 1) + i]
  <2>1. n + 1 \in Nat /\ n + 1 <= Len(c)
    BY <1>1
  <2> QED BY <1>1, <2>1, WithoutFacts
<1>3. /\ b \in Seq(T) /\ Len(b) = Len(s) - n
      /\ \A i \in 1..(Len(s) - n) : b[i] = s[n + i]
  BY WithoutFacts
<1> HIDE DEF a, b
<1>4. Len(c) - (n + 1) = Len(s) - n
  BY <1>1
<1>5. ASSUME NEW i \in 1..(Len(s) - n) PROVE a[i] = b[i]
  <2>1. /\ i \in 1..(Len(c) - (n + 1)) /\ (n + 1) + i \in 2..(Len(s) + 1)
        /\ ((n + 1) + i) - 1 = n + i
    BY <1>1, <1>4
  <2>2. a[i] = c[(n + 1) + i] /\ c[(n + 1) + i] = s[((n + 1) + i) - 1]
    BY <1>1, <1>2, <2>1
  <2> QED BY <1>3, <2>1, <2>2
<1>6. a = b
  BY <1>2, <1>3, <1>4, <1>5
<1> QED BY <1>6 DEF a, b, c

\* Where a walk ends: at the end or with the space that was asked for, and
\* it has counted the lines it left behind.
LEMMA WalkEnds ==
  ASSUME NEW mem, WellFormed(mem), NEW space
  PROVE  \A p \in Starts(mem) :
           LET w == Walk(mem, space)[p]
               s == From(mem)[p]
           IN  /\ w.p \in Starts(mem) /\ w.skipped \in Nat /\ s \in Seq(Texts)
               /\ w.p >= space \/ w.p = Len(mem)
               /\ w.skipped <= Len(s)
               /\ From(mem)[w.p] = Without(s, w.skipped)
<1> DEFINE W == Walk(mem, space)
           F == From(mem)
           Ends(p) == /\ W[p].p >= space \/ W[p].p = Len(mem)
                      /\ W[p].skipped <= Len(F[p])
                      /\ F[W[p].p] = Without(F[p], W[p].skipped)
           S == {p \in Starts(mem) : Ends(p)}
<1>1. /\ \A p \in Starts(mem) : W[p] \in [p : Starts(mem), skipped : Nat]
      /\ \A p \in Starts(mem) :
            W[p] = IF p >= space \/ p = Len(mem) THEN [p |-> p, skipped |-> 0]
                   ELSE [W[After(mem, p)] EXCEPT !.skipped = @ + 1]
  <2> DEFINE X == [p : Starts(mem), skipped : Nat]
  <2>1. W \in [Starts(mem) -> X]
    BY WalkFacts
  <2> HIDE DEF X, W
  <2>2. \A p \in Starts(mem) : W[p] \in X
    BY <2>1
  <2> QED BY <2>2, WalkFacts DEF X, W
<1>2. /\ \A p \in Starts(mem) : F[p] \in Seq(Texts)
      /\ \A p \in Starts(mem) : p # Len(mem) => F[p] = <<mem[p + 1]>> \o F[After(mem, p)]
  <2>1. F \in [Starts(mem) -> Seq(Texts)]
    BY FromFacts
  <2> HIDE DEF F
  <2> QED BY <2>1, FromFacts DEF F
<1> HIDE DEF W, F
<1>3. ASSUME NEW p \in Starts(mem), p >= space \/ p = Len(mem) PROVE p \in S
  <2>1. W[p] = [p |-> p, skipped |-> 0]
    BY <1>1, <1>3
  <2>2. W[p].p = p /\ W[p].skipped = 0
    BY <2>1
  <2>3. F[p] \in Seq(Texts) /\ 0 \in Nat /\ 0 <= Len(F[p])
    BY <1>2
  <2>4. Without(F[p], 0) = F[p]
    BY <2>3, WithoutFacts
  <2> QED BY <1>3, <2>2, <2>3, <2>4
<1>4. ASSUME NEW p \in Starts(mem), p # Len(mem), After(mem, p) \in S PROVE p \in S
  <2> DEFINE q == After(mem, p)
             x == mem[p + 1]
  <2>1. q \in Starts(mem) /\ Ends(q) /\ x \in Texts
    BY <1>4, StartFacts
  <2>2. CASE p >= space
    BY <1>3, <2>2
  <2>3. CASE ~(p >= space)
    <3>1. W[p] = [W[q] EXCEPT !.skipped = @ + 1]
      BY <1>1, <1>4, <2>3
    <3>2. W[q] \in [p : Starts(mem), skipped : Nat]
      BY <1>1, <2>1
    <3>3. W[p].p = W[q].p /\ W[p].skipped = W[q].skipped + 1 /\ W[q].skipped \in Nat
      BY <3>1, <3>2
    <3>4. F[p] = <<x>> \o F[q] /\ F[q] \in Seq(Texts)
      BY <1>2, <1>4, <2>1
    <3> DEFINE s == F[q]
               n == W[q].skipped
    <3>5. s \in Seq(Texts) /\ n \in Nat /\ n <= Len(s)
      BY <2>1, <3>3, <3>4
    <3> HIDE DEF q, x
    <3>6. Without(<<x>> \o s, n + 1) = Without(s, n) /\ Len(<<x>> \o s) = Len(s) + 1
      <4> HIDE DEF s, n
      <4> QED BY <2>1, <3>5, WithoutCons, ConsFacts
    <3>7. n + 1 <= Len(s) + 1
      BY <3>5
    <3> QED BY <2>1, <3>3, <3>4, <3>6, <3>7
  <2> QED BY <2>2, <2>3
<1>5. Len(mem) \in S
  <2>1. Len(mem) \in Starts(mem)
    BY StartFacts DEF WellFormed
  <2> QED BY <1>3, <2>1
<1>6. \A p \in Starts(mem) : p \in S
  <2> HIDE DEF S
  <2> QED BY <1>4, <1>5, EntryInduction
<1>7. ASSUME NEW p \in Starts(mem)
      PROVE  /\ W[p].p \in Starts(mem) /\ W[p].skipped \in Nat /\ F[p] \in Seq(Texts)
             /\ Ends(p)
  BY <1>1, <1>2, <1>6
<1> QED BY <1>7 DEF W, F

\* The bytes from an entry on are entries again, with the same lines.
LEMMA ShiftedBytes ==
  ASSUME NEW mem, WellFormed(mem), NEW k \in Starts(mem)
  PROVE  /\ WellFormed(Without(mem, k))
         /\ Len(Without(mem, k)) = Len(mem) - k
         /\ From(Without(mem, k))[0] = From(mem)[k]
<1> DEFINE u == Without(mem, k)
<1>0. mem \in Seq(Texts \cup {PAD}) /\ k \in Nat /\ k <= Len(mem) /\ Len(mem) \in Nat
  BY StartFacts DEF WellFormed
<1>1. /\ u \in Seq(Texts \cup {PAD}) /\ Len(u) = Len(mem) - k
      /\ \A i \in 1..(Len(mem) - k) : u[i] = mem[k + i]
  BY <1>0, WithoutFacts
<1> HIDE DEF u
<1>2. ASSUME NEW p \in Nat
      PROVE  /\ p \in Starts(u) <=> k + p \in Starts(mem)
             /\ p < Len(u) => u[p + 1] = mem[(k + p) + 1]
  <2>1. /\ p \in 0..Len(u) <=> k + p \in 0..Len(mem)
        /\ p < Len(u) <=> k + p < Len(mem)
    BY <1>0, <1>1
  <2>2. p < Len(u) => u[p + 1] = mem[(k + p) + 1]
    <3> SUFFICES ASSUME p < Len(u) PROVE u[p + 1] = mem[(k + p) + 1]
      OBVIOUS
    <3>1. p + 1 \in 1..(Len(mem) - k) /\ k + (p + 1) = (k + p) + 1
      BY <1>0, <1>1
    <3> QED BY <1>1, <3>1
  <2> QED BY <2>1, <2>2 DEF Starts
<1>3. ASSUME NEW p \in Starts(u), p < Len(u)
      PROVE  /\ p \in Nat /\ k + p \in Starts(mem) /\ k + p # Len(mem)
             /\ u[p + 1] = mem[(k + p) + 1]
             /\ After(u, p) \in Nat
             /\ k + After(u, p) = After(mem, k + p)
             /\ k + After(u, p) \in Starts(mem)
  <2>1. p \in Nat
    BY <1>0, <1>1 DEF Starts
  <2>2. k + p \in Starts(mem) /\ u[p + 1] = mem[(k + p) + 1] /\ k + p # Len(mem)
    <3>1. k + p # Len(mem)
      BY <1>0, <1>1, <1>3, <2>1
    <3> QED BY <1>2, <1>3, <2>1, <3>1
  <2>3. mem[(k + p) + 1] \in Texts /\ After(mem, k + p) \in Starts(mem)
    BY <2>2, StartFacts
  <2> DEFINE e == EntrySize(mem[(k + p) + 1])
  <2>4. e \in Nat
    <3>1. e \in 1..(BUFFER_LEN + OVERHEAD) /\ BUFFER_LEN + OVERHEAD \in Nat
      BY <2>3, SizeFacts, SizeAssumption
    <3> HIDE DEF e
    <3> QED BY <3>1
  <2>5. After(u, p) = p + e /\ After(mem, k + p) = (k + p) + e
    BY <2>2 DEF After
  <2> HIDE DEF e
  <2>6. p + e \in Nat /\ k + (p + e) = (k + p) + e
    BY <1>0, <2>1, <2>4
  <2> QED BY <2>1, <2>2, <2>3, <2>5, <2>6
<1>4. WellFormed(u)
  <2>1. k + 0 = k /\ 0 \in Nat
    BY <1>0
  <2>2. 0 \in Starts(u)
    BY <1>2, <2>1
  <2>3. ASSUME NEW p \in Starts(u), p < Len(u) PROVE After(u, p) \in Starts(u)
    BY <1>2, <1>3, <2>3
  <2> QED BY <1>1, <2>2, <2>3 DEF WellFormed
<1>5. From(u)[0] = From(mem)[k]
  <2> DEFINE F == From(u)
             M == From(mem)
             S == {p \in Starts(u) : F[p] = M[k + p]}
  <2>1. Len(u) \in S
    <3>1. Len(u) \in Starts(u) /\ Len(u) \in Nat
      BY <1>4, StartFacts DEF WellFormed
    <3>2. k + Len(u) = Len(mem)
      BY <1>0, <1>1
    <3>3. F[Len(u)] = <<>> /\ M[Len(mem)] = <<>>
      BY <1>4, FromFacts
    <3> HIDE DEF F, M
    <3> QED BY <3>1, <3>2, <3>3
  <2>2. ASSUME NEW p \in Starts(u), p # Len(u), After(u, p) \in S PROVE p \in S
    <3>1. p < Len(u)
      BY <1>4, <2>2, StartFacts
    <3>2. F[After(u, p)] = M[k + After(u, p)]
      BY <2>2
    <3>3. F[p] = <<u[p + 1]>> \o F[After(u, p)]
      BY <1>4, <2>2, FromFacts
    <3>4. /\ k + p \in Starts(mem) /\ k + p # Len(mem)
          /\ u[p + 1] = mem[(k + p) + 1] /\ k + After(u, p) = After(mem, k + p)
      BY <1>3, <3>1
    <3>5. M[k + p] = <<mem[(k + p) + 1]>> \o M[After(mem, k + p)]
      BY <3>4, FromFacts
    <3> HIDE DEF F, M
    <3>6. F[p] = M[k + p]
      BY <3>2, <3>3, <3>4, <3>5
    <3> QED BY <3>6
  <2>3. 0 \in S
    <3> HIDE DEF S
    <3>1. 0 \in Starts(u)
      BY <1>4 DEF WellFormed
    <3> QED BY <1>4, <2>1, <2>2, <3>1, EntryInduction
  <2>4. k + 0 = k
    BY <1>0
  <2> HIDE DEF F, M
  <2> QED BY <2>3, <2>4 DEF F, M
<1> QED BY <1>1, <1>4, <1>5 DEF u

\* Bytes with an entry behind them are entries, and have one more line.
LEMMA AppendedBytes ==
  ASSUME NEW mem, WellFormed(mem), NEW t \in Texts
  PROVE  /\ WellFormed(mem \o EntryBytes(t))
         /\ Len(mem \o EntryBytes(t)) = Len(mem) + EntrySize(t)
         /\ From(mem \o EntryBytes(t))[0] = Append(From(mem)[0], t)
<1> DEFINE b == EntryBytes(t)
           u == mem \o b
           e == EntrySize(t)
           n == Len(mem)
<1>0. mem \in Seq(Texts \cup {PAD}) /\ n \in Nat /\ n \in Starts(mem)
  BY StartFacts DEF WellFormed
<1>1. e \in Nat /\ e > 0
  <2>1. e \in 1..(BUFFER_LEN + OVERHEAD) /\ BUFFER_LEN + OVERHEAD \in Nat
    BY SizeFacts, SizeAssumption
  <2> HIDE DEF e
  <2> QED BY <2>1
<1>2. /\ b \in Seq(Texts \cup {PAD}) /\ Len(b) = e /\ b[1] = t
      /\ \A i \in 1..e : i # 1 => b[i] = PAD
  <2>1. b = [i \in 1..e |-> IF i = 1 THEN t ELSE PAD]
    BY DEF EntryBytes
  <2> HIDE DEF b, e
  <2>2. b \in [1..e -> Texts \cup {PAD}]
    BY <2>1
  <2>3. b \in Seq(Texts \cup {PAD}) /\ Len(b) = e
    BY <1>1, <2>2
  <2> QED BY <1>1, <2>1, <2>3
<1> HIDE DEF b, e
<1>3. /\ u \in Seq(Texts \cup {PAD}) /\ Len(u) = n + e
      /\ \A i \in 1..n : u[i] = mem[i]
      /\ \A i \in (n + 1)..(n + e) : u[i] = b[i - n]
  <2>1. /\ u \in Seq(Texts \cup {PAD}) /\ Len(u) = n + Len(b)
        /\ \A i \in 1..n : u[i] = mem[i]
        /\ \A i \in (n + 1)..(n + Len(b)) : u[i] = b[i - n]
    <3>1. b \in Seq(Texts \cup {PAD})
      BY <1>2
    <3> QED BY <1>0, <3>1
  <2> HIDE DEF u, n
  <2> QED BY <1>2, <2>1
<1> HIDE DEF u, n
<1>4. ASSUME NEW p \in Nat, p < n
      PROVE  /\ u[p + 1] = mem[p + 1]
             /\ p \in Starts(u) <=> p \in Starts(mem)
  <2>1. p + 1 \in 1..n /\ p \in 0..(n + e) /\ p \in 0..n /\ p < n + e
    BY <1>0, <1>1, <1>4
  <2>2. u[p + 1] = mem[p + 1]
    BY <1>3, <2>1
  <2> QED BY <1>3, <1>4, <2>1, <2>2 DEF Starts, n
<1>5. u[n + 1] = t /\ n \in Starts(u) /\ After(u, n) = n + e
  <2>1. n + 1 \in (n + 1)..(n + e) /\ (n + 1) - n = 1 /\ n \in 0..(n + e)
    BY <1>0, <1>1
  <2>2. u[n + 1] = t
    BY <1>2, <1>3, <2>1
  <2>3. t # PAD
    BY NullAssumption
  <2> QED BY <1>3, <2>1, <2>2, <2>3 DEF Starts, After, e
<1>6. n + e \in Starts(u) /\ n # n + e
  BY <1>0, <1>1, <1>3 DEF Starts
<1>7. ASSUME NEW p \in Starts(u), p # n, p # n + e
      PROVE  p \in Nat /\ p < n /\ p \in Starts(mem)
  <2>1. p \in 0..(n + e) /\ (p < n + e => u[p + 1] # PAD)
    BY <1>3 DEF Starts
  <2>2. p \in Nat /\ p < n + e
    BY <1>0, <1>1, <1>7, <2>1
  <2>3. ASSUME ~(p < n) PROVE FALSE
    <3>1. p + 1 \in (n + 1)..(n + e) /\ (p + 1) - n \in 1..e /\ (p + 1) - n # 1
      BY <1>0, <1>1, <1>7, <2>2, <2>3
    <3>2. u[p + 1] = PAD
      BY <1>2, <1>3, <3>1
    <3> QED BY <2>1, <2>2, <3>2
  <2>4. p < n
    BY <2>3
  <2> QED BY <1>4, <1>7, <2>2, <2>4
<1>8. ASSUME NEW p \in Starts(mem), p # n
      PROVE  /\ p \in Nat /\ p < n /\ p \in Starts(u) /\ p # n + e
             /\ u[p + 1] = mem[p + 1]
             /\ After(u, p) = After(mem, p) /\ After(mem, p) \in Starts(mem)
             /\ After(mem, p) \in Starts(u)
  <2>1. /\ p \in Nat /\ p < n /\ After(mem, p) \in Starts(mem)
        /\ After(mem, p) \in Nat /\ After(mem, p) <= n
    BY <1>8, StartFacts DEF n
  <2>2. p \in Starts(u) /\ u[p + 1] = mem[p + 1]
    BY <1>4, <2>1
  <2>3. After(u, p) = After(mem, p)
    BY <2>2 DEF After
  <2>4. After(mem, p) \in Starts(u)
    <3>1. CASE After(mem, p) = n
      BY <1>5, <3>1
    <3>2. CASE After(mem, p) # n
      <4>1. After(mem, p) < n
        BY <1>0, <2>1, <3>2
      <4> QED BY <1>4, <2>1, <4>1
    <3> QED BY <3>1, <3>2
  <2>5. p # n + e
    BY <1>0, <1>1, <2>1
  <2> QED BY <2>1, <2>2, <2>3, <2>4, <2>5
<1>9. WellFormed(u)
  <2>1. 0 \in Starts(u)
    <3>1. 0 \in Starts(mem)
      BY DEF WellFormed
    <3> QED BY <1>5, <1>8, <3>1
  <2>2. ASSUME NEW p \in Starts(u), p < Len(u) PROVE After(u, p) \in Starts(u)
    <3>1. CASE p = n
      BY <1>5, <1>6, <3>1
    <3>2. CASE p # n
      <4>1. p # n + e
        BY <1>0, <1>1, <1>3, <2>2
      <4>2. p \in Starts(mem)
        BY <1>7, <3>2, <4>1
      <4> QED BY <1>8, <3>2, <4>2
    <3> QED BY <3>1, <3>2
  <2> QED BY <1>3, <2>1, <2>2 DEF WellFormed
<1>10. From(u)[0] = Append(From(mem)[0], t)
  <2> DEFINE F == From(u)
             M == From(mem)
             S == {p \in Starts(mem) : F[p] = Append(M[p], t)}
  <2>1. Len(mem) \in S
    <3>1. F[n + e] = <<>> /\ M[n] = <<>>
      BY <1>3, <1>9, FromFacts DEF n
    <3>2. F[n] = <<t>> \o F[n + e]
      <4>1. F[n] = <<u[n + 1]>> \o F[After(u, n)]
        BY <1>3, <1>5, <1>6, <1>9, FromFacts
      <4> HIDE DEF F
      <4> QED BY <1>5, <4>1
    <3> HIDE DEF F, M
    <3>3. F[n] = <<t>> \o <<>>
      BY <3>1, <3>2
    <3>4. Append(<<>>, t) = <<t>> \o <<>>
      OBVIOUS
    <3>5. F[n] = Append(M[n], t)
      BY <3>1, <3>3, <3>4
    <3> QED BY <1>0, <3>5 DEF n
  <2>2. ASSUME NEW p \in Starts(mem), p # Len(mem), After(mem, p) \in S PROVE p \in S
    <3> DEFINE q == After(mem, p)
               x == mem[p + 1]
    <3>1. /\ p \in Starts(u) /\ p # n + e /\ u[p + 1] = x /\ After(u, p) = q
      BY <1>8, <2>2 DEF n
    <3>2. F[p] = <<u[p + 1]>> \o F[After(u, p)]
      BY <1>3, <1>9, <3>1, FromFacts
    <3>3. M[p] = <<x>> \o M[q]
      BY <2>2, FromFacts
    <3>4. F[q] = Append(M[q], t) /\ x \in Texts /\ M[q] \in Seq(Texts)
      <4>1. q \in Starts(mem) /\ x \in Texts
        BY <2>2, StartFacts
      <4>2. M \in [Starts(mem) -> Seq(Texts)]
        BY FromFacts
      <4> HIDE DEF M, q
      <4>3. M[q] \in Seq(Texts)
        BY <4>1, <4>2
      <4> QED BY <2>2, <4>1, <4>3 DEF q
    <3> HIDE DEF F, M, q, x
    <3>5. F[p] = <<x>> \o Append(M[q], t)
      BY <3>1, <3>2, <3>4
    <3>6. \A l \in Seq(Texts) : <<x>> \o Append(l, t) = Append(<<x>> \o l, t)
      BY <3>4
    <3>7. F[p] = Append(M[p], t)
      BY <3>3, <3>4, <3>5, <3>6
    <3> QED BY <3>7
  <2>3. 0 \in S
    <3> HIDE DEF S
    <3>1. 0 \in Starts(mem)
      BY DEF WellFormed
    <3> QED BY <2>1, <2>2, <3>1, EntryInduction
  <2> HIDE DEF F, M
  <2> QED BY <2>3 DEF F, M
<1> QED BY <1>3, <1>9, <1>10 DEF u, b, e, n

-----------------------------------------------------------------------------
\* Buffers.

\* Entries within the allocation, and num_buffered counts them.
BufferOk(bq) ==
  /\ bq \in Buffers
  /\ WellFormed(bq.mem)
  /\ bq.num_buffered = Len(Lines(bq))
  /\ Len(bq.mem) <= bq.buffer_size

\* What a good buffer is made of; iterating over it gives texts.
LEMMA BufferFacts ==
  ASSUME NEW bq, BufferOk(bq)
  PROVE  /\ bq.mem \in Seq(Texts \cup {PAD}) /\ Len(bq.mem) \in Nat
         /\ bq.buffer_size \in Nat /\ bq.num_buffered \in Nat
         /\ 0 \in Starts(bq.mem)
         /\ Lines(bq) = From(bq.mem)[0] /\ Lines(bq) \in Seq(Texts)
         /\ Len(Lines(bq)) \in Nat
<1>1. bq.mem \in Seq(Texts \cup {PAD}) /\ bq.buffer_size \in Nat /\ bq.num_buffered \in Nat
  BY DEF BufferOk, Buffers
<1>2. WellFormed(bq.mem)
  BY DEF BufferOk
<1>3. 0 \in Starts(bq.mem)
  BY <1>2 DEF WellFormed
<1>4. From(bq.mem) \in [Starts(bq.mem) -> Seq(Texts)]
  BY <1>2, FromFacts
<1>5. Lines(bq) = From(bq.mem)[0]
  BY LinesFrom
<1>6. Lines(bq) \in Seq(Texts)
  BY <1>3, <1>4, <1>5
<1> QED BY <1>1, <1>3, <1>5, <1>6

\* Two buffers with the same bytes have the same lines.
LEMMA SameLines ==
  ASSUME NEW a, NEW b, a.mem = b.mem
  PROVE  Lines(a) = Lines(b)
BY LinesFrom

\* shift_bufferq forgets the oldest lines, until there is the space that was
\* asked for or nothing is left.
LEMMA ShiftFacts ==
  ASSUME NEW bq, BufferOk(bq), NEW space \in Int
  PROVE  /\ BufferOk(shift_bufferq(bq, space))
         /\ shift_bufferq(bq, space).buffer_size = bq.buffer_size
         /\ Lines(shift_bufferq(bq, space)) \in Suffixes(Lines(bq))
         /\ Len(shift_bufferq(bq, space).mem) \in Nat
         /\ \/ Len(shift_bufferq(bq, space).mem) = 0
            \/ Len(shift_bufferq(bq, space).mem) <= Len(bq.mem) - space
<1> DEFINE r == shift_bufferq(bq, space)
           mem == bq.mem
           w == Walk(mem, space)[0]
           lines == Lines(bq)
           u == Without(mem, w.p)
<1>1. WellFormed(mem) /\ 0 \in Starts(mem) /\ bq \in Buffers /\ Len(mem) \in Nat
      /\ Len(mem) <= bq.buffer_size /\ bq.buffer_size \in Nat
  BY BufferFacts DEF BufferOk
<1>2. /\ w.p \in Starts(mem) /\ w.skipped \in Nat
      /\ w.p >= space \/ w.p = Len(mem)
      /\ w.skipped <= Len(From(mem)[0])
      /\ From(mem)[w.p] = Without(From(mem)[0], w.skipped)
  BY <1>1, WalkEnds
<1>3. Passed(mem, space) = w
  BY PassedWalk
<1>4. r = [bq EXCEPT !.mem = SubSeq(@, w.p + 1, Len(@)), !.num_buffered = @ - w.skipped]
  BY <1>3 DEF shift_bufferq
<1> HIDE DEF w
<1>5. w.p \in Nat /\ w.p <= Len(mem)
  BY <1>1, <1>2, StartFacts
<1>6. /\ r.mem = u /\ r.buffer_size = bq.buffer_size
      /\ r.num_buffered = bq.num_buffered - w.skipped
      /\ r = [mem |-> u, buffer_size |-> bq.buffer_size,
              num_buffered |-> bq.num_buffered - w.skipped]
  BY <1>1, <1>4 DEF Buffers, Without
<1>7. lines = From(mem)[0] /\ lines \in Seq(Texts) /\ Len(lines) \in Nat
      /\ bq.num_buffered = Len(lines)
  BY BufferFacts DEF BufferOk
<1>8. WellFormed(u) /\ Len(u) = Len(mem) - w.p /\ From(u)[0] = From(mem)[w.p]
  BY <1>1, <1>2, ShiftedBytes
<1> HIDE DEF u, mem, lines, r
<1>9. Lines(r) = Without(lines, w.skipped)
  <2>1. Lines(r) = From(r.mem)[0]
    BY LinesFrom
  <2> QED BY <1>2, <1>6, <1>7, <1>8, <2>1
<1>10. /\ Len(Without(lines, w.skipped)) = Len(lines) - w.skipped
       /\ Without(lines, w.skipped) \in Suffixes(lines)
  BY <1>2, <1>7, WithoutFacts
<1>11. r \in Buffers
  <2>1. u \in Seq(Texts \cup {PAD})
    BY <1>8 DEF WellFormed
  <2>2. bq.num_buffered - w.skipped \in Nat
    BY <1>2, <1>7
  <2> QED BY <1>1, <1>6, <2>1, <2>2 DEF Buffers
<1>12. BufferOk(r)
  <2>1. r.num_buffered = Len(Lines(r))
    BY <1>6, <1>7, <1>9, <1>10
  <2>2. Len(r.mem) <= r.buffer_size
    BY <1>1, <1>5, <1>6, <1>8
  <2> QED BY <1>6, <1>8, <1>11, <2>1, <2>2 DEF BufferOk
<1>13. Len(u) \in Nat /\ (Len(u) = 0 \/ Len(u) <= Len(mem) - space)
  BY <1>1, <1>2, <1>5, <1>8
<1> QED BY <1>6, <1>9, <1>10, <1>12, <1>13 DEF r, mem, lines

\* The whole of a buffer, and nothing, are suffixes of it.
LEMMA SuffixFacts ==
  ASSUME NEW T, NEW s \in Seq(T)
  PROVE  s \in Suffixes(s) /\ <<>> \in Suffixes(s)
<1>1. 0 \in Nat /\ 0 <= Len(s)
  OBVIOUS
<1>2. Without(s, 0) = s /\ Without(s, 0) \in Suffixes(s)
  BY <1>1, WithoutFacts
<1> QED BY <1>2 DEF Suffixes

\* A new line goes behind the ones that are kept; one that could never fit
\* is dropped.
LEMMA AddFacts ==
  ASSUME NEW bq, BufferOk(bq), NEW t \in Texts
  PROVE  /\ BufferOk(add_to_bufferq(bq, t))
         /\ \/ Lines(add_to_bufferq(bq, t)) = Lines(bq)
            \/ \E kept \in Suffixes(Lines(bq)) :
                 Lines(add_to_bufferq(bq, t)) = Append(kept, t)
<1> DEFINE room == EntrySize(t)
           sh == IF NeedsShift(bq, room) THEN shift_bufferq(bq, room) ELSE bq
           a == add_to_bufferq(bq, t)
<1>0. room \in Nat
  <2>1. room \in 1..(BUFFER_LEN + OVERHEAD) /\ BUFFER_LEN + OVERHEAD \in Nat
    BY SizeFacts, SizeAssumption
  <2> HIDE DEF room
  <2> QED BY <2>1
<1>1. a = IF room > bq.buffer_size THEN bq
          ELSE [sh EXCEPT !.mem = @ \o EntryBytes(t), !.num_buffered = @ + 1]
  BY DEF add_to_bufferq
<1>2. CASE room > bq.buffer_size
  BY <1>1, <1>2
<1>3. CASE ~(room > bq.buffer_size)
  <2>1. /\ BufferOk(sh) /\ sh.buffer_size = bq.buffer_size
        /\ Lines(sh) \in Suffixes(Lines(bq))
        /\ Len(sh.mem) + room <= bq.buffer_size
    <3>0. /\ Len(bq.mem) \in Nat /\ bq.buffer_size \in Nat /\ Len(bq.mem) <= bq.buffer_size
          /\ Lines(bq) \in Suffixes(Lines(bq))
      BY BufferFacts, SuffixFacts DEF BufferOk
    <3>1. CASE NeedsShift(bq, room)
      <4>1. sh = shift_bufferq(bq, room)
        BY <3>1
      <4> HIDE DEF sh, room
      <4>2. /\ BufferOk(sh) /\ sh.buffer_size = bq.buffer_size
            /\ Lines(sh) \in Suffixes(Lines(bq))
            /\ Len(sh.mem) \in Nat
            /\ Len(sh.mem) = 0 \/ Len(sh.mem) <= Len(bq.mem) - room
        <5>1. room \in Int
          BY <1>0
        <5> QED BY <4>1, <5>1, ShiftFacts
      <4> QED BY <1>0, <1>3, <3>0, <4>2
    <3>2. CASE ~NeedsShift(bq, room)
      <4>1. sh = bq
        BY <3>2
      <4>2. Len(bq.mem) = 0 \/ ~(bq.buffer_size - Len(bq.mem) < room)
        BY <3>0, <3>2 DEF NeedsShift
      <4> HIDE DEF sh, room
      <4> QED BY <1>0, <1>3, <3>0, <4>1, <4>2
    <3> QED BY <3>1, <3>2
  <2> HIDE DEF sh, a
  <2> DEFINE u == sh.mem \o EntryBytes(t)
  <2>2. a = [sh EXCEPT !.mem = @ \o EntryBytes(t), !.num_buffered = @ + 1]
    BY <1>1, <1>3
  <2>3. /\ WellFormed(u) /\ Len(u) = Len(sh.mem) + room
        /\ From(u)[0] = Append(From(sh.mem)[0], t)
    BY <2>1, AppendedBytes DEF BufferOk
  <2>4. sh \in Buffers /\ sh.num_buffered = Len(Lines(sh))
    BY <2>1 DEF BufferOk
  <2>5. /\ a.mem = u /\ a.buffer_size = sh.buffer_size
        /\ a.num_buffered = sh.num_buffered + 1
        /\ a = [mem |-> u, buffer_size |-> sh.buffer_size, num_buffered |-> sh.num_buffered + 1]
    BY <2>2, <2>4 DEF Buffers
  <2>6. Lines(sh) = From(sh.mem)[0] /\ Lines(sh) \in Seq(Texts) /\ Len(Lines(sh)) \in Nat
        /\ sh.buffer_size \in Nat
    BY <2>1, BufferFacts
  <2> HIDE DEF u, room
  <2>7. Lines(a) = Append(Lines(sh), t)
    <3>1. Lines(a) = From(a.mem)[0]
      BY LinesFrom
    <3> QED BY <2>3, <2>5, <2>6, <3>1
  <2>8. Len(Lines(a)) = Len(Lines(sh)) + 1
    BY <2>6, <2>7
  <2>9. a \in Buffers
    <3>1. u \in Seq(Texts \cup {PAD}) /\ sh.num_buffered + 1 \in Nat
      BY <2>3, <2>4, <2>6 DEF WellFormed
    <3> QED BY <2>5, <2>6, <3>1 DEF Buffers
  <2>10. BufferOk(a)
    <3>1. a.num_buffered = Len(Lines(a)) /\ Len(a.mem) <= a.buffer_size
      BY <2>1, <2>3, <2>4, <2>5, <2>8
    <3> QED BY <2>3, <2>5, <2>9, <3>1 DEF BufferOk
  <2> QED BY <2>1, <2>7, <2>10 DEF a
<1> QED BY <1>2, <1>3

\* A new buffer is empty.
LEMMA AllocateFacts ==
  ASSUME NEW n \in Nat
  PROVE  /\ BufferOk(allocate_bufferq(n))
         /\ Lines(allocate_bufferq(n)) = <<>>
<1> DEFINE a == allocate_bufferq(n)
           e == <<>>
<1>1. a.mem = e /\ a.num_buffered = 0 /\ a.buffer_size = n * (BUFFER_LEN + OVERHEAD)
  BY DEF allocate_bufferq
<1>2. n * (BUFFER_LEN + OVERHEAD) \in Nat
  <2>1. BUFFER_LEN + OVERHEAD \in Nat
    BY SizeAssumption
  <2> QED BY <2>1, TimesFacts
<1>3. e \in Seq(Texts \cup {PAD}) /\ Len(e) = 0
  OBVIOUS
<1>4. a \in Buffers
  BY <1>2, <1>3 DEF Buffers, allocate_bufferq
<1> HIDE DEF a, e
<1>5. Starts(e) = {0}
  BY <1>3 DEF Starts
<1>6. WellFormed(e)
  BY <1>3, <1>5 DEF WellFormed
<1>7. Lines(a) = e
  <2>1. From(e)[Len(e)] = <<>>
    BY <1>6, FromFacts
  <2>2. Lines(a) = From(a.mem)[0]
    BY LinesFrom
  <2> QED BY <1>1, <1>3, <2>1, <2>2 DEF e
<1>8. BufferOk(a)
  BY <1>1, <1>2, <1>3, <1>4, <1>6, <1>7 DEF BufferOk
<1> QED BY <1>7, <1>8 DEF a, e

\* A buffer that is made smaller forgets the oldest lines.
LEMMA ReallocateFacts ==
  ASSUME NEW bq, BufferOk(bq), NEW n \in Nat
  PROVE  /\ BufferOk(reallocate_bufferq(bq, n))
         /\ Lines(reallocate_bufferq(bq, n)) \in Suffixes(Lines(bq))
<1> DEFINE bytes == n * (BUFFER_LEN + 2 * OVERHEAD)
           used == Len(bq.mem)
           shrinks == bq.buffer_size > bytes /\ used >= bytes
           kept == IF shrinks THEN shift_bufferq(bq, used - bytes) ELSE bq
           r == reallocate_bufferq(bq, n)
<1>1. bytes \in Nat
  <2>1. BUFFER_LEN + 2 * OVERHEAD \in Nat
    BY SizeAssumption
  <2> QED BY <2>1, TimesFacts
<1>2. r = [kept EXCEPT !.buffer_size = bytes]
  BY DEF reallocate_bufferq
<1>3. /\ used \in Nat /\ bq.buffer_size \in Nat /\ used <= bq.buffer_size
      /\ Lines(bq) \in Suffixes(Lines(bq))
  BY BufferFacts, SuffixFacts DEF BufferOk
<1> HIDE DEF bytes
<1>4. /\ BufferOk(kept) /\ Lines(kept) \in Suffixes(Lines(bq)) /\ Len(kept.mem) <= bytes
  <2>1. CASE shrinks
    <3>1. kept = shift_bufferq(bq, used - bytes)
      BY <2>1
    <3>2. used - bytes \in Int
      BY <1>1, <1>3
    <3> DEFINE space == used - bytes
    <3> HIDE DEF kept, space
    <3>3. /\ BufferOk(kept) /\ Lines(kept) \in Suffixes(Lines(bq)) /\ Len(kept.mem) \in Nat
          /\ Len(kept.mem) = 0 \/ Len(kept.mem) <= used - space
      BY <3>1, <3>2, ShiftFacts DEF space
    <3> QED BY <1>1, <1>3, <3>3 DEF space
  <2>2. CASE ~shrinks
    <3>1. kept = bq
      BY <2>2
    <3> HIDE DEF kept
    <3> QED BY <1>1, <1>3, <2>2, <3>1
  <2> QED BY <2>1, <2>2
<1> HIDE DEF kept, r
<1>5. kept \in Buffers
  BY <1>4 DEF BufferOk
<1>6. /\ r.mem = kept.mem /\ r.buffer_size = bytes /\ r.num_buffered = kept.num_buffered
      /\ r \in Buffers
  BY <1>1, <1>2, <1>5 DEF Buffers
<1>7. Lines(r) = Lines(kept)
  BY <1>6, SameLines
<1>8. BufferOk(r)
  BY <1>4, <1>6, <1>7 DEF BufferOk
<1> QED BY <1>4, <1>7, <1>8 DEF r

\* What is left of a list without its first elements is a suffix of it.
LEMMA WithoutSuffix ==
  ASSUME NEW T, NEW s \in Seq(T), NEW n \in Nat, n <= Len(s)
  PROVE  IsSuffix(Without(s, n), s)
<1> DEFINE w == Without(s, n)
           m == Len(s) - n
<1>0. Len(s) \in Nat /\ m \in Nat /\ m <= Len(s)
  OBVIOUS
<1>1. w \in Seq(T) /\ Len(w) = m /\ \A i \in 1..m : w[i] = s[n + i]
  BY WithoutFacts
<1> HIDE DEF w
<1> DEFINE a == Reverse(w)
           b == Reverse(s)
<1>2. a = [i \in 1..m |-> w[(m - i) + 1]] /\ b = [i \in 1..Len(s) |-> s[(Len(s) - i) + 1]]
  BY <1>1 DEF Reverse
<1>3. a \in Seq(T) /\ Len(a) = m /\ b \in Seq(T) /\ Len(b) = Len(s)
  <2>1. ASSUME NEW i \in 1..m PROVE w[(m - i) + 1] \in T
    <3>1. (m - i) + 1 \in 1..m
      BY <1>0
    <3> HIDE DEF m
    <3> QED BY <1>1, <3>1
  <2>2. ASSUME NEW i \in 1..Len(s) PROVE s[(Len(s) - i) + 1] \in T
    <3>1. (Len(s) - i) + 1 \in 1..Len(s)
      BY <1>0
    <3> QED BY <3>1
  <2> HIDE DEF m, a, b
  <2>3. a \in [1..m -> T] /\ b \in [1..Len(s) -> T]
    BY <1>2, <2>1, <2>2
  <2> QED BY <1>0, <2>3
<1> HIDE DEF a, b
<1>4. ASSUME NEW i \in 1..m PROVE a[i] = b[i]
  <2>1. (m - i) + 1 \in 1..m /\ i \in 1..Len(s) /\ n + ((m - i) + 1) = (Len(s) - i) + 1
    BY <1>0
  <2>2. a[i] = w[(m - i) + 1] /\ b[i] = s[(Len(s) - i) + 1]
    BY <1>2, <2>1
  <2>3. w[(m - i) + 1] = s[n + ((m - i) + 1)]
    BY <1>1, <2>1
  <2> QED BY <2>1, <2>2, <2>3
<1> HIDE DEF m
<1>5. SubSeq(a, 1, m) = SubSeq(b, 1, m)
  <2> DEFINE x == SubSeq(a, 1, m)
             y == SubSeq(b, 1, m)
  <2>1. /\ x \in Seq(T) /\ Len(x) = m /\ \A i \in 1..m : x[i] = a[i]
        /\ y \in Seq(T) /\ Len(y) = m /\ \A i \in 1..m : y[i] = b[i]
    BY <1>0, <1>3
  <2> HIDE DEF x, y
  <2>2. x = y
    BY <1>4, <2>1
  <2> QED BY <2>2 DEF x, y
<1>6. IsPrefix(a, b)
  BY <1>0, <1>3, <1>5 DEF IsPrefix
<1> QED BY <1>6 DEF IsSuffix, a, b, w

\* A recall shows the last lines, as many as there are.
LEMMA RecallFacts ==
  ASSUME NEW bq, BufferOk(bq), NEW n \in Nat
  PROVE  /\ Len(Recalled(bq, n)) = IF n < Len(Lines(bq)) THEN n ELSE Len(Lines(bq))
         /\ IsSuffix(Recalled(bq, n), Lines(bq))
<1> DEFINE lines == Lines(bq)
           l == Len(lines)
           start == IF l > n THEN l - n ELSE 0
<1>1. lines \in Seq(Texts) /\ l \in Nat /\ bq.num_buffered = l
  BY BufferFacts DEF BufferOk
<1>2. Recalled(bq, n) = SubSeq(lines, start + 1, IF start + n < l THEN start + n ELSE l)
  BY <1>1 DEF Recalled
<1> HIDE DEF lines
<1>3. start \in Nat /\ start <= l /\ ~(start + n < l)
      /\ l - start = (IF n < l THEN n ELSE l)
  <2> HIDE DEF l
  <2> QED BY <1>1
<1> HIDE DEF start
<1>4. Recalled(bq, n) = Without(lines, start)
  BY <1>2, <1>3 DEF Without
<1>5. Len(Without(lines, start)) = l - start /\ IsSuffix(Without(lines, start), lines)
  BY <1>1, <1>3, WithoutFacts, WithoutSuffix
<1> QED BY <1>3, <1>4, <1>5 DEF lines

-----------------------------------------------------------------------------
\* The inductive invariant.

CoreType ==
  /\ owner \in [Objects -> Players \cup {NOTHING}]
  /\ pennies \in [Players -> Nat]
  /\ chan \in [Chans -> Channel \cup {NOTHING}]
  /\ channels \in Seq(Chans) /\ num_channels \in Nat
  /\ Chanlist \in [Objects -> Seq(Chans)]

\* A call of channel_send that has not returned.
Call == [chan : Chans, text : Texts, phase : {"mogrify", "notify"},
         rest : Nat, skip_buffer : BOOLEAN]

\* The channels that are being sent on are not deleted meanwhile.
CallsOk ==
  /\ stack \in Seq(Call) /\ message \in Texts
  /\ \A i \in 1..Len(stack) : chan[stack[i].chan] # NOTHING

\* What was sent on before the step can still be sent on.
ChansStay == Idle \/ \A c \in Chans : chan[c] # NOTHING => chan'[c] # NOTHING

\* Players own themselves, God is never destroyed, and the owner of an object
\* that exists exists.
OwnersLive ==
  /\ owner[God] = God
  /\ \A p \in Players : owner[p] \in {p, NOTHING}
  /\ \A o \in Objects : owner[o] # NOTHING => owner[owner[o]] # NOTHING

BuffersOk ==
  \A c \in Chans : chan[c] # NOTHING /\ chan[c].bufferq # NOTHING => BufferOk(chan[c].bufferq)

ChatInv ==
  /\ CoreType /\ CallsOk /\ OwnersLive
  /\ MembersAgree /\ ChannelsListed /\ DepositsHeld /\ BuffersOk

\* Together the types of the variables.
LEMMA TypeParts == CoreType /\ CallsOk => TypeOK
BY DEF TypeOK, CoreType, CallsOk, Call

\* Calls on channels that stay.
LEMMA CallsStay ==
  ASSUME CallsOk, ChansStay
  PROVE  \A i \in 1..Len(stack) : stack[i].chan \in Chans /\ chan'[stack[i].chan] # NOTHING
<1>1. stack \in Seq(Call) /\ (Idle => Len(stack) = 0)
  BY DEF CallsOk, Idle
<1>2. ASSUME NEW i \in 1..Len(stack) PROVE stack[i].chan \in Chans
  <2>1. stack[i] \in Call
    BY <1>1
  <2> QED BY <2>1 DEF Call
<1>3. \A i \in 1..Len(stack) : chan[stack[i].chan] # NOTHING
  BY DEF CallsOk
<1>4. ASSUME NEW i \in 1..Len(stack) PROVE chan'[stack[i].chan] # NOTHING
  <2>1. Len(stack) # 0
    BY <1>1
  <2>2. \A c \in Chans : chan[c] # NOTHING => chan'[c] # NOTHING
    BY <1>1, <2>1 DEF ChansStay
  <2> QED BY <1>2, <1>3, <2>2
<1> QED BY <1>2, <1>4

\* What the assumptions say of objects and of NOTHING.
LEMMA ObjectFacts ==
  /\ God \in Players /\ God \in Objects /\ NOTHING \notin Objects /\ NOTHING \notin Players
  /\ Players \subseteq Objects /\ Things \subseteq Objects
  /\ \A t \in Things : t \notin Players
  /\ NOTHING \notin Channel /\ NOTHING \notin Buffers
BY ObjectsAssumption, NullAssumption DEF Objects

\* Sending puts a call on the stack.
LEMMA SendType ==
  ASSUME CallsOk, NEW c \in Chans, NEW ch, ch.users \in Seq(Objects), NEW len \in Lens,
         ChansStay, chan'[c] # NOTHING, channel_send(c, ch, len)
  PROVE  CallsOk'
<1> DEFINE text == [on |-> c, len |-> len]
<1>1. text \in Texts
  BY DEF Texts
<1>2. CASE "disabled" \in ch.type
  <2>1. stack' = stack /\ message' = message
    BY <1>2 DEF channel_send
  <2> QED BY <2>1, CallsStay DEF CallsOk
<1>3. CASE "disabled" \notin ch.type
  <2>1. PICK phase \in {"notify"} \cup (IF ch.mogrifier = NOTHING THEN {} ELSE {"mogrify"}) :
          stack' = Append(stack, [chan |-> c, text |-> text, phase |-> phase,
                                  rest |-> Len(ch.users), skip_buffer |-> FALSE])
    BY <1>3 DEF channel_send
  <2>2. message' = text
    BY <1>3 DEF channel_send
  <2>3. phase \in {"mogrify", "notify"} /\ Len(ch.users) \in Nat
    BY <2>1
  <2> HIDE DEF text
  <2> DEFINE call == [chan |-> c, text |-> text, phase |-> phase,
                      rest |-> Len(ch.users), skip_buffer |-> FALSE]
  <2>4. call \in Call
    BY <1>1, <2>3 DEF Call
  <2> HIDE DEF call
  <2>5. stack' = Append(stack, call)
    BY <2>1 DEF call
  <2>6. call.chan = c
    BY DEF call
  <2>7. /\ stack \in Seq(Call) /\ stack' \in Seq(Call) /\ Len(stack') = Len(stack) + 1
        /\ Len(stack) \in Nat
        /\ \A i \in 1..Len(stack) : stack'[i] = stack[i]
        /\ stack'[Len(stack) + 1] = call
    BY <2>4, <2>5 DEF CallsOk
  <2>8. ASSUME NEW i \in 1..(Len(stack) + 1) PROVE chan'[stack'[i].chan] # NOTHING
    <3>1. CASE i = Len(stack) + 1
      BY <2>6, <2>7, <3>1
    <3>2. CASE i # Len(stack) + 1
      <4>1. i \in 1..Len(stack)
        BY <2>7, <3>2
      <4> QED BY <2>7, <4>1, CallsStay
    <3> QED BY <3>1, <3>2
  <2> QED BY <1>1, <2>2, <2>7, <2>8 DEF CallsOk
<1> QED BY <1>2, <1>3

\* An announcement on a channel that stays is a good call.
LEMMA AnnounceType ==
  ASSUME CallsOk, NEW c \in Chans, NEW ch, ch.users \in Seq(Objects),
         ChansStay, chan'[c] # NOTHING, Announces(c, ch)
  PROVE  CallsOk'
<1>1. CASE UNCHANGED <<stack, message>>
  <2>1. stack' = stack /\ message' = message
    BY <1>1
  <2> QED BY <2>1, CallsStay DEF CallsOk
<1>2. CASE \E len \in Lens : channel_send(c, ch, len)
  BY <1>2, SendType
<1> QED BY <1>1, <1>2 DEF Announces

\* Nothing but the calls under way changed.
LEMMA SameChat ==
  ASSUME ChatInv, UNCHANGED chanVars, CallsOk'
  PROVE  ChatInv'
<1>1. /\ owner' = owner /\ pennies' = pennies /\ chan' = chan /\ channels' = channels
      /\ num_channels' = num_channels /\ Chanlist' = Chanlist
  BY DEF chanVars
<1>2. CoreType' /\ OwnersLive' /\ BuffersOk'
  BY <1>1 DEF ChatInv, CoreType, OwnersLive, BuffersOk
<1>3. MembersAgree' /\ ChannelsListed'
  BY <1>1 DEF ChatInv, MembersAgree, ChannelsListed, onchannel, IsLive
<1>4. DepositsHeld'
  BY <1>1 DEF ChatInv, DepositsHeld, Deposit, Paid, IsLive
<1> QED BY <1>2, <1>3, <1>4 DEF ChatInv

\* What the other parts of the invariant see of a channel.
SameChannel(a, b) ==
  /\ a \in Channel /\ b \in Channel
  /\ a.name = b.name /\ a.creator = b.creator /\ a.cost = b.cost
  /\ a.users = b.users /\ a.num_users = b.num_users

\* A channel's flags, mogrifier or buffer changed.
LEMMA Tweaked ==
  ASSUME ChatInv, NEW c \in Chans, NEW ch, chan[c] # NOTHING,
         SameChannel(chan[c], ch),
         ch.bufferq # NOTHING => BufferOk(ch.bufferq),
         chan' = [chan EXCEPT ![c] = ch],
         UNCHANGED <<owner, pennies, channels, num_channels, Chanlist>>,
         CallsOk'
  PROVE  ChatInv'
<1>1. /\ chan \in [Chans -> Channel \cup {NOTHING}] /\ ch \in Channel /\ ch # NOTHING
      /\ chan[c] \in Channel
  BY ObjectFacts DEF ChatInv, CoreType, SameChannel
<1>2. /\ chan' \in [Chans -> Channel \cup {NOTHING}] /\ chan'[c] = ch
      /\ \A d \in Chans : d # c => chan'[d] = chan[d]
      /\ \A d \in Chans : chan'[d] = NOTHING <=> chan[d] = NOTHING
      /\ \A d \in Chans : chan[d] # NOTHING => SameChannel(chan[d], chan'[d])
  <2>1. /\ chan' \in [Chans -> Channel \cup {NOTHING}] /\ chan'[c] = ch
        /\ \A d \in Chans : d # c => chan'[d] = chan[d]
    BY <1>1
  <2>2. ASSUME NEW d \in Chans, chan[d] # NOTHING PROVE SameChannel(chan[d], chan'[d])
    <3>1. CASE d = c
      BY <2>1, <3>1
    <3>2. CASE d # c
      <4>1. chan[d] \in Channel /\ chan'[d] = chan[d]
        BY <1>1, <2>1, <2>2, <3>2
      <4> QED BY <4>1 DEF SameChannel
    <3> QED BY <3>1, <3>2
  <2> QED BY <1>1, <2>1, <2>2
<1>3. /\ owner' = owner /\ pennies' = pennies /\ channels' = channels
      /\ num_channels' = num_channels /\ Chanlist' = Chanlist
  OBVIOUS
<1>4. /\ channels \in Seq(Chans)
      /\ \A d \in Range(channels) : d \in Chans /\ chan[d] # NOTHING
      /\ \A i \in DOMAIN channels : channels[i] \in Range(channels)
  BY DEF ChatInv, ChannelsListed, CoreType, Range
<1>5. CoreType' /\ OwnersLive'
  BY <1>2, <1>3 DEF ChatInv, CoreType, OwnersLive
<1>6. BuffersOk'
  BY <1>2 DEF ChatInv, BuffersOk
<1>7. MembersAgree'
  <2>1. \A d \in Chans, o \in Objects :
          (chan'[d] # NOTHING /\ o \in Range(chan'[d].users)) <=> d \in Range(Chanlist[o])
    BY <1>2 DEF ChatInv, MembersAgree, onchannel, SameChannel
  <2>2. \A d \in Range(channels) : IsInjective(chan'[d].users)
                                   /\ chan'[d].num_users = Len(chan'[d].users)
    BY <1>2, <1>4 DEF ChatInv, MembersAgree, SameChannel
  <2>3. \A o \in Objects : IsInjective(Chanlist[o]) /\ (Chanlist[o] # <<>> => owner[o] # NOTHING)
    BY DEF ChatInv, MembersAgree, IsLive
  <2> QED BY <1>3, <2>1, <2>2, <2>3 DEF MembersAgree, onchannel, IsLive
<1>8. ChannelsListed'
  <2>1. Range(channels) = {d \in Chans : chan'[d] # NOTHING}
    BY <1>2 DEF ChatInv, ChannelsListed
  <2>2. \A i, j \in DOMAIN channels : i < j => chan'[channels[i]].name < chan'[channels[j]].name
    BY <1>2, <1>4 DEF ChatInv, ChannelsListed, SameChannel
  <2> QED BY <1>3, <2>1, <2>2 DEF ChatInv, ChannelsListed
<1>9. DepositsHeld'
  <2>1. ASSUME NEW p PROVE Paid(p)' = Paid(p)
    <3>1. ASSUME NEW d \in Chans
          PROVE  (IF chan'[d] # NOTHING /\ chan'[d].creator = p THEN chan'[d].cost ELSE 0)
                   = (IF chan[d] # NOTHING /\ chan[d].creator = p THEN chan[d].cost ELSE 0)
      BY <1>2 DEF SameChannel
    <3> QED BY <3>1 DEF Paid
  <2>2. \A p : Deposit(p)' = Deposit(p)
    BY <2>1 DEF Deposit
  <2>3. \A d \in Range(channels) : chan'[d].creator = chan[d].creator
    BY <1>2, <1>4 DEF SameChannel
  <2> QED BY <1>3, <2>2, <2>3 DEF ChatInv, DepositsHeld, IsLive
<1> QED BY <1>5, <1>6, <1>7, <1>8, <1>9 DEF ChatInv

\* A channel is on the list, with distinct members that are counted.
LEMMA ChannelFacts ==
  ASSUME ChatInv, NEW c \in Chans, chan[c] # NOTHING
  PROVE  /\ chan[c] \in Channel /\ chan[c].users \in Seq(Objects)
         /\ c \in Range(channels)
         /\ IsInjective(chan[c].users) /\ chan[c].num_users = Len(chan[c].users)
<1>1. chan[c] \in Channel
  BY DEF ChatInv, CoreType
<1>2. c \in Range(channels)
  BY DEF ChatInv, ChannelsListed
<1>3. IsInjective(chan[c].users) /\ chan[c].num_users = Len(chan[c].users)
  BY <1>2 DEF ChatInv, MembersAgree
<1> QED BY <1>1, <1>2, <1>3 DEF Channel

\* The call on top of the stack.
LEMMA TopFacts ==
  ASSUME CallsOk, ~Idle
  PROVE  /\ top \in Call /\ Front(stack) \in Seq(Call)
         /\ chan[top.chan] # NOTHING
         /\ stack' = Front(stack) /\ message' = message /\ ChansStay => CallsOk'
         /\ \A call \in Call : call.chan = top.chan =>
              (stack' = Top(call) /\ message' = message /\ ChansStay => CallsOk')
<1>1. stack \in Seq(Call) /\ stack # <<>>
  BY DEF CallsOk, Idle
<1>2. Len(stack) \in 1..Len(stack) /\ Len(stack) - 1 \in 0..Len(stack)
  BY <1>1
<1>3. top \in Call
  BY <1>1, <1>2 DEF top
<1>4. /\ Front(stack) \in Seq(Call) /\ Len(Front(stack)) = Len(stack) - 1
      /\ \A i \in 1..(Len(stack) - 1) : Front(stack)[i] = stack[i]
  <2> DEFINE n == Len(stack) - 1
             f == SubSeq(stack, 1, n)
  <2>1. n \in Nat /\ n <= Len(stack)
    BY <1>1, <1>2
  <2> HIDE DEF n
  <2>2. f \in Seq(Call) /\ Len(f) = n /\ \A i \in 1..n : f[i] = stack[i]
    BY <1>1, <2>1
  <2> HIDE DEF f
  <2>3. Front(stack) = f
    BY DEF Front, f, n
  <2> QED BY <2>2, <2>3 DEF n
<1>5. chan[top.chan] # NOTHING
  BY <1>2 DEF CallsOk, top
<1>6. ASSUME stack' = Front(stack), message' = message, ChansStay PROVE CallsOk'
  <2>1. \A i \in 1..(Len(stack) - 1) : i \in 1..Len(stack)
    BY <1>2
  <2> QED BY <1>4, <1>6, <2>1, CallsStay DEF CallsOk
<1>7. ASSUME NEW call \in Call, call.chan = top.chan, stack' = Top(call), message' = message,
             ChansStay
      PROVE  CallsOk'
  <2>1. /\ stack' \in Seq(Call) /\ Len(stack') = Len(stack)
        /\ \A i \in 1..Len(stack) : stack'[i].chan = stack[i].chan
    BY <1>1, <1>2, <1>7 DEF Top, top
  <2> QED BY <1>7, <2>1, CallsStay DEF CallsOk
<1> QED BY <1>3, <1>4, <1>5, <1>6, <1>7

\* A line is added to the buffer of a channel.
LEMMA BufferedChannel ==
  ASSUME ChatInv, NEW c \in Chans, chan[c] # NOTHING, chan[c].bufferq # NOTHING,
         NEW t \in Texts
  PROVE  LET ch == [chan[c] EXCEPT !.bufferq = add_to_bufferq(@, t)]
         IN  /\ SameChannel(chan[c], ch) /\ BufferOk(ch.bufferq)
             /\ [chan EXCEPT ![c].bufferq = add_to_bufferq(@, t)] = [chan EXCEPT ![c] = ch]
<1> DEFINE bq == chan[c].bufferq
           new == add_to_bufferq(bq, t)
           ch == [chan[c] EXCEPT !.bufferq = new]
<1>1. BufferOk(bq)
  BY DEF ChatInv, BuffersOk
<1>2. BufferOk(new)
  BY <1>1, AddFacts
<1>3. new \in Buffers
  BY <1>2 DEF BufferOk
<1>4. chan[c] \in Channel
  BY ChannelFacts
<1> HIDE DEF new
<1>5. ch \in Channel /\ ch.bufferq = new
  BY <1>3, <1>4 DEF Channel
<1>6. SameChannel(chan[c], ch)
  BY <1>4, <1>5 DEF SameChannel, Channel
<1> QED BY <1>2, <1>5, <1>6 DEF new

\* Speaking, mogrifying, notifying and buffering keep the invariant.
LEMMA SendingStep ==
  ASSUME ChatInv, Sending
  PROVE  ChatInv'
<1>0. CallsOk
  BY DEF ChatInv
<1>1. ASSUME NEW c \in Chans, NEW len \in Lens, Say(c, len) \/ Cemit(c, len) PROVE ChatInv'
  <2>1. chan[c] # NOTHING /\ channel_send(c, chan[c], len) /\ UNCHANGED chanVars
    BY <1>1 DEF Say, Cemit
  <2>2. chan[c].users \in Seq(Objects)
    BY <2>1, ChannelFacts
  <2>3. CallsOk'
    BY <1>0, <2>1, <2>2, SendType DEF ChansStay, chanVars
  <2> QED BY <2>1, <2>3, SameChat
<1>2. ASSUME NEW c \in Chans, NEW len \in Lens, BufferAdd(c, len) PROVE ChatInv'
  <2> DEFINE t == [on |-> c, len |-> len]
             ch == [chan[c] EXCEPT !.bufferq = add_to_bufferq(@, t)]
  <2>1. t \in Texts
    BY DEF Texts
  <2>2. /\ chan[c] # NOTHING /\ chan[c].bufferq # NOTHING
        /\ chan' = [chan EXCEPT ![c].bufferq = add_to_bufferq(@, t)]
        /\ UNCHANGED <<owner, pennies, channels, num_channels, Chanlist>>
        /\ UNCHANGED <<stack, message>>
    BY <1>2 DEF BufferAdd
  <2> HIDE DEF t
  <2>3. SameChannel(chan[c], ch) /\ BufferOk(ch.bufferq) /\ chan' = [chan EXCEPT ![c] = ch]
    BY <2>1, <2>2, BufferedChannel
  <2>4. CallsOk'
    <3>1. Idle /\ Idle'
      BY <1>2 DEF BufferAdd, Idle
    <3> QED BY <1>0, <2>2, <3>1 DEF CallsOk, Idle
  <2> HIDE DEF ch
  <2> QED BY <2>2, <2>3, <2>4, Tweaked
<1>3. CASE MogrifyBlocks
  <2>1. CallsOk' /\ UNCHANGED chanVars
    BY <1>0, <1>3, TopFacts DEF MogrifyBlocks, ChansStay, chanVars
  <2> QED BY <2>1, SameChat
<1>4. CASE Mogrify
  <2>1. PICK skip \in BOOLEAN :
          stack' = Top([top EXCEPT !.phase = "notify", !.skip_buffer = skip])
    BY <1>4 DEF Mogrify
  <2> DEFINE call == [top EXCEPT !.phase = "notify", !.skip_buffer = skip]
  <2>2. call \in Call /\ call.chan = top.chan
    BY <1>0, <1>4, TopFacts DEF Mogrify, Call
  <2> HIDE DEF call
  <2>3. CallsOk' /\ UNCHANGED chanVars
    <3>1. stack' = Top(call)
      BY <2>1 DEF call
    <3> QED BY <1>0, <1>4, <2>2, <3>1, TopFacts DEF Mogrify, ChansStay, chanVars
  <2> QED BY <2>3, SameChat
<1>5. CASE Notify
  <2>0. top \in Call /\ top.rest > 0
    BY <1>0, <1>5, TopFacts DEF Notify
  <2>1. top.rest - 1 \in Nat
    BY <2>0 DEF Call
  <2> DEFINE call == [top EXCEPT !.rest = @ - 1]
  <2>2. call \in Call /\ call.chan = top.chan
    BY <2>0, <2>1 DEF Call
  <2>4. stack' = Top(call)
    BY <1>5 DEF Notify
  <2> HIDE DEF call
  <2>3. CallsOk' /\ UNCHANGED chanVars
    BY <1>0, <1>5, <2>2, <2>4, TopFacts DEF Notify, ChansStay, chanVars
  <2> QED BY <2>3, SameChat
<1>6. CASE Buffer
  <2> DEFINE c == top.chan
             ch == [chan[c] EXCEPT !.bufferq = add_to_bufferq(@, message)]
  <2>0. c \in Chans /\ message \in Texts /\ chan[c] # NOTHING
    BY <1>0, <1>6, TopFacts DEF Buffer, CallsOk, Call
  <2>1. /\ UNCHANGED <<owner, pennies, channels, num_channels, Chanlist>>
        /\ stack' = Front(stack) /\ message' = message /\ ~Idle
    BY <1>6 DEF Buffer
  <2>2. CASE chan' = chan
    <3>1. UNCHANGED chanVars
      BY <2>1, <2>2 DEF chanVars
    <3>2. CallsOk'
      BY <1>0, <2>1, <2>2, TopFacts DEF ChansStay
    <3> QED BY <3>1, <3>2, SameChat
  <2>3. CASE chan' # chan
    <3>1. /\ chan[c].bufferq # NOTHING
          /\ chan' = [chan EXCEPT ![c].bufferq = add_to_bufferq(@, message)]
      BY <1>6, <2>3 DEF Buffer
    <3> HIDE DEF c
    <3>3. SameChannel(chan[c], ch) /\ BufferOk(ch.bufferq) /\ chan' = [chan EXCEPT ![c] = ch]
      BY <2>0, <3>1, BufferedChannel
    <3> HIDE DEF ch
    <3>4. ChansStay
      <4>1. ch # NOTHING /\ chan \in [Chans -> Channel \cup {NOTHING}]
        BY <3>3, ObjectFacts DEF SameChannel, ChatInv, CoreType
      <4> QED BY <3>3, <4>1 DEF ChansStay
    <3>5. CallsOk'
      BY <1>0, <2>1, <3>4, TopFacts
    <3> QED BY <2>0, <2>1, <3>3, <3>5, Tweaked
  <2> QED BY <2>2, <2>3
<1> QED BY <1>1, <1>2, <1>3, <1>4, <1>5, <1>6 DEF Sending

-----------------------------------------------------------------------------
\* What keeps a part of the invariant.

\* The channels are the same ones, under the same names.
SameNames ==
  /\ channels' = channels /\ num_channels' = num_channels
  /\ \A c \in Chans : chan'[c] = NOTHING <=> chan[c] = NOTHING
  /\ \A c \in Chans : chan[c] # NOTHING => chan'[c].name = chan[c].name

\* Every channel has the owner and the price it had.
SamePrices ==
  /\ owner' = owner /\ pennies' = pennies
  /\ \A c \in Chans : chan'[c] = NOTHING <=> chan[c] = NOTHING
  /\ \A c \in Chans : chan[c] # NOTHING =>
       chan'[c].creator = chan[c].creator /\ chan'[c].cost = chan[c].cost

\* Every channel has the members it had; new ones have none.
SameMembers ==
  /\ owner' = owner /\ Chanlist' = Chanlist
  /\ \A c \in Chans : chan[c] # NOTHING =>
       /\ chan'[c] # NOTHING
       /\ chan'[c].users = chan[c].users /\ chan'[c].num_users = chan[c].num_users
  /\ \A c \in Chans : chan[c] = NOTHING /\ chan'[c] # NOTHING =>
       chan'[c].users = <<>> /\ chan'[c].num_users = 0

\* Every buffer is empty or what it was.
SameBuffers ==
  \A c \in Chans : chan'[c] # NOTHING /\ chan'[c].bufferq # NOTHING =>
    \/ chan[c] # NOTHING /\ chan'[c].bufferq = chan[c].bufferq
    \/ BufferOk(chan'[c].bufferq)

\* When names and the list stay, the list is right.
LEMMA KeepsListed ==
  ASSUME ChatInv, SameNames
  PROVE  ChannelsListed'
<1>1. /\ channels \in Seq(Chans) /\ Range(channels) = {c \in Chans : chan[c] # NOTHING}
      /\ \A i, j \in DOMAIN channels : i < j => chan[channels[i]].name < chan[channels[j]].name
      /\ num_channels = Len(channels) /\ num_channels <= MAX_CHANNELS
  BY DEF ChatInv, CoreType, ChannelsListed
<1>2. \A i \in DOMAIN channels : channels[i] \in Chans /\ chan[channels[i]] # NOTHING
  BY <1>1 DEF Range
<1>3. \A i \in DOMAIN channels : chan'[channels[i]].name = chan[channels[i]].name
  BY <1>2 DEF SameNames
<1>4. Range(channels) = {c \in Chans : chan'[c] # NOTHING}
  BY <1>1 DEF SameNames
<1> QED BY <1>1, <1>3, <1>4 DEF ChannelsListed, SameNames

\* Membership, with channels rather than the entries of the list.
LEMMA MembersFrom ==
  ASSUME ChannelsListed',
         \A c \in Chans, o \in Objects :
            (chan'[c] # NOTHING /\ onchannel(o, chan'[c])) <=> (c \in Range(Chanlist'[o])),
         \A o \in Objects : IsInjective(Chanlist'[o]) /\ (Chanlist'[o] # <<>> => owner'[o] # NOTHING),
         \A c \in Chans : chan'[c] # NOTHING => /\ IsInjective(chan'[c].users)
                                                /\ chan'[c].num_users = Len(chan'[c].users)
  PROVE  MembersAgree'
<1>1. \A c \in Range(channels') : c \in Chans /\ chan'[c] # NOTHING
  BY DEF ChannelsListed
<1> QED BY <1>1 DEF MembersAgree, IsLive, onchannel

\* The same, of the state before.
LEMMA Members ==
  ASSUME ChatInv
  PROVE  /\ \A c \in Chans, o \in Objects :
              (chan[c] # NOTHING /\ onchannel(o, chan[c])) <=> (c \in Range(Chanlist[o]))
         /\ \A o \in Objects : IsInjective(Chanlist[o]) /\ (Chanlist[o] # <<>> => owner[o] # NOTHING)
         /\ \A c \in Chans : chan[c] # NOTHING => /\ IsInjective(chan[c].users)
                                                  /\ chan[c].num_users = Len(chan[c].users)
<1>1. \A c \in Chans : chan[c] # NOTHING => c \in Range(channels)
  BY DEF ChatInv, ChannelsListed
<1> QED BY <1>1 DEF ChatInv, MembersAgree, IsLive

\* When members and objects' lists stay, both sides agree.
LEMMA KeepsMembers ==
  ASSUME ChatInv, ChannelsListed', SameMembers
  PROVE  MembersAgree'
<1>0. IsInjective(<<>>) /\ Len(<<>>) = 0 /\ Range(<<>>) = {}
  BY DEF IsInjective, Range
<1>1. ASSUME NEW c \in Chans, NEW o \in Objects
      PROVE  (chan'[c] # NOTHING /\ onchannel(o, chan'[c])) <=> (c \in Range(Chanlist'[o]))
  BY <1>0, Members DEF SameMembers, onchannel
<1>2. \A o \in Objects : IsInjective(Chanlist'[o]) /\ (Chanlist'[o] # <<>> => owner'[o] # NOTHING)
  BY Members DEF SameMembers
<1>3. \A c \in Chans : chan'[c] # NOTHING => /\ IsInjective(chan'[c].users)
                                             /\ chan'[c].num_users = Len(chan'[c].users)
  BY <1>0, Members DEF SameMembers
<1> QED BY <1>1, <1>2, <1>3, MembersFrom

\* When owners, prices and purses stay, deposits are held.
LEMMA KeepsDeposits ==
  ASSUME ChatInv, ChannelsListed', SamePrices
  PROVE  DepositsHeld'
<1>1. ASSUME NEW p \in Players PROVE Deposit(p)' = Deposit(p)
  <2>1. ASSUME NEW c \in Chans
        PROVE  (IF chan'[c] # NOTHING /\ chan'[c].creator = p THEN chan'[c].cost ELSE 0)
                  = IF chan[c] # NOTHING /\ chan[c].creator = p THEN chan[c].cost ELSE 0
    BY DEF SamePrices
  <2>2. Paid(p)' = Paid(p)
    BY <2>1 DEF Paid
  <2> QED BY <2>2 DEF Deposit
<1>2. \A p \in Players \ {God} : IsLive(p)' => pennies'[p] + Deposit(p)' = InitPennies
  BY <1>1 DEF ChatInv, DepositsHeld, SamePrices, IsLive
<1>3. ASSUME NEW c \in Range(channels') PROVE owner'[chan'[c].creator] # NOTHING
  <2>1. c \in Chans /\ chan[c] # NOTHING /\ chan'[c].creator = chan[c].creator /\ owner' = owner
    BY DEF ChannelsListed, SamePrices
  <2>2. c \in Range(channels)
    BY <2>1, ChannelFacts
  <2> QED BY <2>1, <2>2 DEF ChatInv, DepositsHeld, IsLive
<1> QED BY <1>2, <1>3 DEF DepositsHeld, IsLive

\* When every buffer stays or is good, all are.
LEMMA KeepsBuffers ==
  ASSUME ChatInv, SameBuffers
  PROVE  BuffersOk'
BY DEF ChatInv, BuffersOk, SameBuffers

\* Without a send under way there is nothing to keep.
LEMMA KeepsCalls ==
  ASSUME ChatInv, Idle, UNCHANGED <<stack, message>>
  PROVE  CallsOk'
<1>1. stack' = <<>> /\ stack = <<>> /\ message' = message
  BY DEF Idle
<1>2. stack \in Seq(Call) /\ message \in Texts
  BY DEF ChatInv, CallsOk
<1>3. Len(<<>>) = 0 /\ stack' \in Seq(Call)
  BY <1>1
<1>4. \A i \in 1..Len(stack') : FALSE
  BY <1>1, <1>3
<1> QED BY <1>1, <1>2, <1>3, <1>4 DEF CallsOk

\* When owners stay, they live.
LEMMA KeepsOwners ==
  ASSUME ChatInv, owner' = owner
  PROVE  OwnersLive'
BY DEF ChatInv, OwnersLive

-----------------------------------------------------------------------------
\* The steps.

\* init_chatdb() leaves no channels, and the invariant holds.
LEMMA InitStep == Init => ChatInv
<1> SUFFICES ASSUME Init PROVE ChatInv
  OBVIOUS
<1>1. /\ owner \in [Objects -> Players] /\ \A p \in Players : owner[p] = p
      /\ pennies = [p \in Players |-> InitPennies] /\ chan = [c \in Chans |-> NOTHING]
      /\ channels = <<>> /\ num_channels = 0 /\ Chanlist = [o \in Objects |-> <<>>]
      /\ stack = <<>> /\ message \in Texts
  BY DEF Init
<1>2. <<>> \in Seq(Chans) /\ <<>> \in Seq(Call) /\ Len(<<>>) = 0 /\ DOMAIN <<>> = {}
  OBVIOUS
<1>3. Range(<<>>) = {} /\ IsInjective(<<>>)
  BY <1>2 DEF Range, IsInjective
<1>4. InitPennies \in Nat /\ 0 <= MAX_CHANNELS /\ InitPennies + 0 = InitPennies
  BY BoundsAssumption
<1>5. CoreType
  BY <1>1, <1>2, <1>4 DEF CoreType
<1>6. CallsOk
  <2>1. \A i \in 1..0 : FALSE
    OBVIOUS
  <2> QED BY <1>1, <1>2, <2>1 DEF CallsOk
<1>7. OwnersLive
  <2>1. \A o \in Objects : owner[o] \in Players
    BY <1>1
  <2> QED BY <1>1, <2>1, ObjectFacts DEF OwnersLive
<1>8. ChannelsListed
  BY <1>1, <1>2, <1>3, <1>4 DEF ChannelsListed
<1>9. MembersAgree
  BY <1>1, <1>2, <1>3 DEF MembersAgree
<1>10. DepositsHeld
  <2>1. ASSUME NEW p \in Players PROVE Deposit(p) = 0
    <3>1. Paid(p) = [c \in Chans |-> 0]
      BY <1>1 DEF Paid
    <3> QED BY <3>1, ObjectsAssumption, SumZero DEF Deposit
  <2>2. \A p \in Players : pennies[p] + Deposit(p) = InitPennies
    BY <1>1, <1>4, <2>1
  <2> QED BY <1>1, <1>3, <2>2 DEF DepositsHeld
<1>11. BuffersOk
  BY <1>1 DEF BuffersOk
<1> QED BY <1>5, <1>6, <1>7, <1>8, <1>9, <1>10, <1>11 DEF ChatInv

\* @channel/privs, /mogrifier and /buffer change nothing but the channel.
LEMMA TweakStep ==
  ASSUME ChatInv, NEW c \in Chans,
         \/ \E type \in Types : Priv(c, type)
         \/ \E it \in Mogrifiers \cup {NOTHING} : do_chan_set_mogrifier(c, it)
         \/ \E lines \in BufferLines : do_chan_buffer(c, lines)
  PROVE  ChatInv'
<1>1. /\ Idle /\ chan[c] # NOTHING
      /\ UNCHANGED <<owner, pennies, channels, num_channels, Chanlist>>
      /\ UNCHANGED <<stack, message>>
  BY DEF Priv, do_chan_set_mogrifier, do_chan_buffer
<1>2. CallsOk'
  BY <1>1, KeepsCalls
<1>3. chan[c] \in Channel
  BY <1>1, ChannelFacts
<1>4. chan[c].bufferq # NOTHING => BufferOk(chan[c].bufferq)
  BY <1>1 DEF ChatInv, BuffersOk
<1>5. ASSUME NEW type \in Types, Priv(c, type) PROVE ChatInv'
  <2> DEFINE ch == [chan[c] EXCEPT !.type = type]
  <2>1. SameChannel(chan[c], ch) /\ ch.bufferq = chan[c].bufferq
    BY <1>3 DEF SameChannel, Channel
  <2>2. chan' = [chan EXCEPT ![c] = ch]
    BY <1>5 DEF Priv
  <2> HIDE DEF ch
  <2> QED BY <1>1, <1>2, <1>4, <2>1, <2>2, Tweaked
<1>6. ASSUME NEW it \in Mogrifiers \cup {NOTHING}, do_chan_set_mogrifier(c, it) PROVE ChatInv'
  <2> DEFINE ch == [chan[c] EXCEPT !.mogrifier = it]
  <2>0. it \in Objects \cup {NOTHING}
    BY ChoiceAssumption
  <2>1. SameChannel(chan[c], ch) /\ ch.bufferq = chan[c].bufferq
    BY <1>3, <2>0 DEF SameChannel, Channel
  <2>2. chan' = [chan EXCEPT ![c] = ch]
    BY <1>6 DEF do_chan_set_mogrifier
  <2> HIDE DEF ch
  <2> QED BY <1>1, <1>2, <1>4, <2>1, <2>2, Tweaked
<1>7. ASSUME NEW lines \in BufferLines, do_chan_buffer(c, lines) PROVE ChatInv'
  <2> DEFINE bq == chan[c].bufferq
             new == IF lines = 0 THEN NOTHING
                    ELSE IF bq = NOTHING THEN allocate_bufferq(lines)
                    ELSE reallocate_bufferq(bq, lines)
             ch == [chan[c] EXCEPT !.bufferq = new]
  <2>0. lines \in Nat
    BY BoundsAssumption
  <2>1. new # NOTHING => BufferOk(new)
    <3>1. bq = NOTHING => BufferOk(allocate_bufferq(lines))
      BY <2>0, AllocateFacts
    <3>2. bq # NOTHING => BufferOk(reallocate_bufferq(bq, lines))
      BY <1>4, <2>0, ReallocateFacts
    <3> QED BY <3>1, <3>2
  <2>2. chan' = [chan EXCEPT ![c] = ch]
    BY <1>7 DEF do_chan_buffer
  <2> HIDE DEF new
  <2>3. new \in Buffers \cup {NOTHING}
    BY <2>1 DEF BufferOk
  <2>4. SameChannel(chan[c], ch) /\ ch.bufferq = new
    BY <1>3, <2>3 DEF SameChannel, Channel
  <2> HIDE DEF ch
  <2> QED BY <1>1, <1>2, <2>1, <2>2, <2>4, Tweaked
<1> QED BY <1>5, <1>6, <1>7

\* What p paid for a channel.
Price(x, p) == IF x # NOTHING /\ x.creator = p THEN x.cost ELSE 0

\* A price is a number of pennies.
LEMMA PriceType ==
  ASSUME NEW x \in Channel \cup {NOTHING}, NEW p
  PROVE  Price(x, p) \in Nat
<1>1. CHANNEL_COST \in Nat
  BY BoundsAssumption
<1>2. CASE x = NOTHING
  BY <1>2 DEF Price
<1>3. CASE x # NOTHING
  <2>1. x.cost \in {0, CHANNEL_COST}
    BY <1>3 DEF Channel
  <2> QED BY <1>1, <1>3, <2>1 DEF Price
<1> QED BY <1>2, <1>3

\* Paid gives a price for every channel.
LEMMA PaidType ==
  ASSUME ChatInv, NEW p
  PROVE  Paid(p) \in [Chans -> Int] /\ \A c \in Chans : Paid(p)[c] = Price(chan[c], p)
<1>1. \A c \in Chans : chan[c] \in Channel \cup {NOTHING}
  BY DEF ChatInv, CoreType
<1>2. Paid(p) = [c \in Chans |-> Price(chan[c], p)]
  BY DEF Paid, Price
<1> QED BY <1>1, <1>2, PriceType

\* One channel is replaced by x.
LEMMA DepositMoves ==
  ASSUME ChatInv, NEW c \in Chans, NEW x, x \in Channel \cup {NOTHING}, NEW p,
         chan' = [chan EXCEPT ![c] = x]
  PROVE  Deposit(p)' = Deposit(p) - Price(chan[c], p) + Price(x, p)
<1>1. chan \in [Chans -> Channel \cup {NOTHING}]
  BY DEF ChatInv, CoreType
<1>2. chan'[c] = x /\ \A d \in Chans : d # c => chan'[d] = chan[d]
  BY <1>1
<1> DEFINE f == Paid(p)
           g == Paid(p)'
           v == Price(x, p)
<1>3. f \in [Chans -> Int] /\ \A d \in Chans : f[d] = Price(chan[d], p)
  BY PaidType
<1>4. v \in Int
  BY PriceType
<1>5. g = [d \in Chans |-> Price(chan'[d], p)]
  BY DEF Paid, Price
<1>6. DOMAIN g = Chans /\ g[c] = v /\ \A d \in Chans : d # c => g[d] = f[d]
  BY <1>2, <1>3, <1>5
<1> HIDE DEF v
<1>7. g = With(f, c, v)
  <2> HIDE DEF f
  <2>1. With(f, c, v) = [y \in Chans |-> IF y = c THEN v ELSE f[y]]
    BY <1>3 DEF With
  <2>2. g = [y \in Chans |-> g[y]]
    BY <1>5
  <2> HIDE DEF g
  <2> QED BY <1>6, <2>1, <2>2
<1> HIDE DEF f, g
<1>8. SumFunction(g) = SumFunction(f) - f[c] + v
  BY <1>3, <1>4, <1>7, SumWith, ObjectsAssumption
<1> QED BY <1>3, <1>8 DEF Deposit, f, g, v

\* Deposits and purses are numbers.
LEMMA DepositType ==
  ASSUME ChatInv, NEW p \in Players
  PROVE  Deposit(p) \in Int /\ pennies[p] \in Nat
<1>1. pennies[p] \in Nat
  BY DEF ChatInv, CoreType
<1>2. Paid(p) \in [Chans -> Int]
  BY PaidType
<1> QED BY <1>1, <1>2, SumType, ObjectsAssumption DEF Deposit

\* What is no longer held was given back, and what is held was paid.
LEMMA MovesDeposits ==
  ASSUME ChatInv, NEW c \in Chans, NEW x, x \in Channel \cup {NOTHING},
         chan' = [chan EXCEPT ![c] = x], owner' = owner, ChannelsListed',
         \A p \in Players \ {God} :
            pennies'[p] = pennies[p] + Price(chan[c], p) - Price(x, p),
         x # NOTHING => owner[x.creator] # NOTHING
  PROVE  DepositsHeld'
<1>1. ASSUME NEW p \in Players \ {God}, owner'[p] # NOTHING
      PROVE  pennies'[p] + Deposit(p)' = InitPennies
  <2>1. Deposit(p)' = Deposit(p) - Price(chan[c], p) + Price(x, p)
    BY DepositMoves
  <2>2. Deposit(p) \in Int /\ pennies[p] \in Nat
    BY DepositType
  <2>3. chan[c] \in Channel \cup {NOTHING}
    BY DEF ChatInv, CoreType
  <2>4. Price(chan[c], p) \in Nat /\ Price(x, p) \in Nat
    BY <2>3, PriceType
  <2>5. pennies[p] + Deposit(p) = InitPennies
    BY <1>1 DEF ChatInv, DepositsHeld, IsLive
  <2>6. pennies'[p] = pennies[p] + Price(chan[c], p) - Price(x, p)
    OBVIOUS
  <2>7. \A a, b, d, e \in Int : (a + d - e) + (b - d + e) = a + b
    OBVIOUS
  <2> QED BY <2>1, <2>2, <2>4, <2>5, <2>6, <2>7
<1>2. ASSUME NEW d \in Range(channels') PROVE owner'[chan'[d].creator] # NOTHING
  <2>1. d \in Chans /\ chan'[d] # NOTHING
    BY DEF ChannelsListed
  <2>2. chan \in [Chans -> Channel \cup {NOTHING}]
    BY DEF ChatInv, CoreType
  <2>3. CASE d = c
    <3>1. chan'[d] = x
      BY <2>1, <2>2, <2>3
    <3> QED BY <2>1, <3>1
  <2>4. CASE d # c
    <3>1. chan'[d] = chan[d]
      BY <2>1, <2>2, <2>4
    <3>2. d \in Range(channels)
      BY <2>1, <3>1, ChannelFacts
    <3> QED BY <3>1, <3>2 DEF ChatInv, DepositsHeld, IsLive
  <2> QED BY <2>3, <2>4
<1> QED BY <1>1, <1>2 DEF DepositsHeld, IsLive

\* The lists of the objects, without c.
LEMMA WipedFacts ==
  ASSUME ChatInv, NEW c \in Chans, chan[c] # NOTHING
  PROVE  /\ WipedLists(c) \in [Objects -> Seq(Chans)]
         /\ \A o \in Objects : /\ IsInjective(WipedLists(c)[o])
                               /\ Range(WipedLists(c)[o]) = Range(Chanlist[o]) \ {c}
                               /\ WipedLists(c)[o] # <<>> => owner[o] # NOTHING
<1> DEFINE L(o) == IF onchannel(o, chan[c]) THEN remove_obj_chan(Chanlist[o], c)
                                             ELSE Chanlist[o]
<1>1. ASSUME NEW o \in Objects
      PROVE  /\ L(o) \in Seq(Chans) /\ IsInjective(L(o))
             /\ Range(L(o)) = Range(Chanlist[o]) \ {c}
             /\ L(o) # <<>> => owner[o] # NOTHING
  <2>1. Chanlist[o] \in Seq(Chans)
    BY DEF ChatInv, CoreType
  <2>2. /\ IsInjective(Chanlist[o]) /\ (Chanlist[o] # <<>> => owner[o] # NOTHING)
        /\ onchannel(o, chan[c]) <=> c \in Range(Chanlist[o])
    BY Members
  <2>3. CASE onchannel(o, chan[c])
    <3>1. L(o) = RemoveFirst(Chanlist[o], c)
      BY <2>3 DEF remove_obj_chan
    <3> HIDE DEF L
    <3>2. L(o) \in Seq(Chans) /\ IsInjective(L(o)) /\ Range(L(o)) = Range(Chanlist[o]) \ {c}
      BY <2>1, <2>2, <3>1, RemoveFirstFacts
    <3>3. Chanlist[o] # <<>>
      BY <2>2, <2>3 DEF Range
    <3> QED BY <2>2, <3>2, <3>3
  <2>4. CASE ~onchannel(o, chan[c])
    BY <2>1, <2>2, <2>4
  <2> QED BY <2>3, <2>4
<1>2. WipedLists(c) = [o \in Objects |-> L(o)]
  BY DEF WipedLists
<1> HIDE DEF L
<1> QED BY <1>1, <1>2

\* channel_wipe() takes the channel off the list of every member it drops.
LEMMA WipeStep ==
  ASSUME ChatInv, NEW c \in Chans, Wipe(c)
  PROVE  ChatInv'
<1> DEFINE x == channel_wipe(chan[c])
<1>1. /\ Idle /\ chan[c] # NOTHING /\ chan' = [chan EXCEPT ![c] = x]
      /\ Chanlist' = WipedLists(c) /\ owner' = owner /\ pennies' = pennies
      /\ channels' = channels /\ num_channels' = num_channels /\ UNCHANGED <<stack, message>>
  BY DEF Wipe
<1>2. /\ chan[c] \in Channel /\ <<>> \in Seq(Objects)
  BY <1>1, ChannelFacts
<1>3. /\ x \in Channel /\ x.name = chan[c].name /\ x.creator = chan[c].creator
      /\ x.cost = chan[c].cost /\ x.bufferq = chan[c].bufferq /\ x.users = <<>> /\ x.num_users = 0
  BY <1>2 DEF channel_wipe, Channel
<1> HIDE DEF x
<1>4. chan \in [Chans -> Channel \cup {NOTHING}] /\ x # NOTHING
  BY <1>3, ObjectFacts DEF ChatInv, CoreType
<1>5. /\ chan' \in [Chans -> Channel \cup {NOTHING}] /\ chan'[c] = x
      /\ \A d \in Chans : d # c => chan'[d] = chan[d]
  BY <1>1, <1>3, <1>4
<1>6. CoreType'
  BY <1>1, <1>5, WipedFacts DEF ChatInv, CoreType
<1>7. CallsOk' /\ OwnersLive'
  BY <1>1, KeepsCalls, KeepsOwners
<1>8. ChannelsListed'
  BY <1>1, <1>3, <1>4, <1>5, KeepsListed DEF SameNames
<1>9. DepositsHeld'
  BY <1>1, <1>3, <1>4, <1>5, <1>8, KeepsDeposits DEF SamePrices
<1>10. BuffersOk'
  BY <1>1, <1>3, <1>5, KeepsBuffers DEF SameBuffers
<1>11. MembersAgree'
  <2>1. ASSUME NEW d \in Chans, NEW o \in Objects
        PROVE  (chan'[d] # NOTHING /\ onchannel(o, chan'[d])) <=> (d \in Range(Chanlist'[o]))
    <3>1. Range(Chanlist'[o]) = Range(Chanlist[o]) \ {c}
      BY <1>1, WipedFacts
    <3>2. CASE d = c
      <4>1. ~onchannel(o, chan'[c])
        BY <1>3, <1>5 DEF onchannel, Range
      <4> QED BY <3>1, <3>2, <4>1
    <3>3. CASE d # c
      BY <1>5, <3>1, <3>3, Members
    <3> QED BY <3>2, <3>3
  <2>2. \A o \in Objects : IsInjective(Chanlist'[o]) /\ (Chanlist'[o] # <<>> => owner'[o] # NOTHING)
    BY <1>1, WipedFacts
  <2>3. ASSUME NEW d \in Chans, chan'[d] # NOTHING
        PROVE  IsInjective(chan'[d].users) /\ chan'[d].num_users = Len(chan'[d].users)
    <3>1. IsInjective(<<>>) /\ Len(<<>>) = 0
      BY DEF IsInjective
    <3> QED BY <1>3, <1>5, <2>3, <3>1, Members
  <2> QED BY <1>8, <2>1, <2>2, <2>3, MembersFrom
<1> QED BY <1>6, <1>7, <1>8, <1>9, <1>10, <1>11 DEF ChatInv

-----------------------------------------------------------------------------
\* Linking an entry into a list.

\* The list is in the order of the names, no two of which are equal.
Sorted(list, name) ==
  \A i, j \in 1..Len(list) : i < j => name[list[i]] < name[list[j]]

\* A list sorted by names has no channel twice.
LEMMA SortedInjective ==
  ASSUME NEW T, NEW list \in Seq(T), NEW name, Sorted(list, name),
         \A i \in 1..Len(list) : name[list[i]] \in Nat
  PROVE  IsInjective(list)
<1>1. DOMAIN list = 1..Len(list) /\ Len(list) \in Nat
  OBVIOUS
<1>2. ASSUME NEW i \in 1..Len(list), NEW j \in 1..Len(list), list[i] = list[j] PROVE i = j
  <2>1. ~(i < j) /\ ~(j < i)
    BY <1>2 DEF Sorted
  <2> QED BY <1>1, <2>1
<1> QED BY <1>1, <1>2 DEF IsInjective

\* insert_channel() links in a channel with a new name and keeps the order.
LEMMA ChannelInserted ==
  ASSUME NEW list \in Seq(Chans), NEW D, NEW name \in [D -> Nat], NEW c \in Chans \cap D,
         Range(list) \subseteq D, Sorted(list, name),
         \A i \in 1..Len(list) : name[list[i]] # name[c]
  PROVE  /\ insert_channel(list, c, name) \in Seq(Chans)
         /\ Len(insert_channel(list, c, name)) = Len(list) + 1
         /\ Range(insert_channel(list, c, name)) = Range(list) \cup {c}
         /\ Sorted(insert_channel(list, c, name), name)
<1> DEFINE stops == {d \in DOMAIN name : name[d] > name[c]}
           p == Place(list, stops)
           r == insert_channel(list, c, name)
<1>1. r = Insert(list, p, c)
  BY DEF insert_channel, InsertAt, Insert
<1>2. /\ p \in 1..(Len(list) + 1)
      /\ \A j \in 1..(p - 1) : list[j] \notin stops
      /\ p <= Len(list) => list[p] \in stops
  <2> HIDE DEF stops
  <2> QED BY PlaceFacts
<1>3. Len(list) \in Nat /\ \A i \in 1..Len(list) : list[i] \in D /\ name[list[i]] \in Nat
  <2>1. Len(list) \in Nat /\ DOMAIN list = 1..Len(list)
    OBVIOUS
  <2> QED BY <2>1 DEF Range
<1>4. name[c] \in Nat
  OBVIOUS
<1> HIDE DEF p
<1>5. /\ r \in Seq(Chans) /\ Len(r) = Len(list) + 1
      /\ \A j \in 1..(p - 1) : r[j] = list[j]
      /\ r[p] = c
      /\ \A j \in (p + 1)..(Len(list) + 1) : r[j] = list[j - 1]
      /\ Range(r) = Range(list) \cup {c}
  <2> HIDE DEF r
  <2>1. c \in Chans
    OBVIOUS
  <2> QED BY <1>1, <1>2, <2>1, InsertFacts
<1>6. \A j \in 1..(p - 1) : name[list[j]] < name[c]
  <2> SUFFICES ASSUME NEW j \in 1..(p - 1) PROVE name[list[j]] < name[c]
    OBVIOUS
  <2>1. j \in 1..Len(list)
    BY <1>2, <1>3
  <2>2. ~(name[list[j]] > name[c]) /\ name[list[j]] # name[c] /\ name[list[j]] \in Nat
    BY <1>2, <1>3, <2>1
  <2> QED BY <1>4, <2>2
<1>7. \A j \in p..Len(list) : name[c] < name[list[j]]
  <2> SUFFICES ASSUME NEW j \in p..Len(list) PROVE name[c] < name[list[j]]
    OBVIOUS
  <2>1. p \in 1..Len(list) /\ j \in 1..Len(list)
    BY <1>2, <1>3
  <2>2. name[list[p]] > name[c] /\ name[list[p]] \in Nat /\ name[list[j]] \in Nat
    BY <1>2, <1>3, <2>1
  <2>3. p = j \/ name[list[p]] < name[list[j]]
    BY <1>3, <2>1 DEF Sorted
  <2> QED BY <1>4, <2>2, <2>3
<1> HIDE DEF r
<1>8. ASSUME NEW i \in 1..(Len(list) + 1), NEW j \in 1..(Len(list) + 1), i < j
      PROVE  name[r[i]] < name[r[j]]
  <2>1. CASE j < p
    <3>1. i \in 1..(p - 1) /\ j \in 1..(p - 1) /\ i \in 1..Len(list) /\ j \in 1..Len(list)
      BY <1>2, <1>3, <1>8, <2>1
    <3> QED BY <1>5, <1>8, <3>1 DEF Sorted
  <2>2. CASE j = p
    <3>1. i \in 1..(p - 1)
      BY <1>2, <1>8, <2>2
    <3> QED BY <1>5, <1>6, <2>2, <3>1
  <2>3. CASE j > p
    <3>1. j \in (p + 1)..(Len(list) + 1) /\ j - 1 \in p..Len(list) /\ j - 1 \in 1..Len(list)
      BY <1>2, <1>3, <2>3
    <3>2. r[j] = list[j - 1]
      BY <1>5, <3>1
    <3>3. CASE i < p
      <4>1. i \in 1..(p - 1) /\ i \in 1..Len(list) /\ i < j - 1
        BY <1>2, <1>3, <2>3, <3>3
      <4> QED BY <1>5, <3>1, <3>2, <4>1 DEF Sorted
    <3>4. CASE i = p
      BY <1>5, <1>7, <3>1, <3>2, <3>4
    <3>5. CASE i > p
      <4>1. i \in (p + 1)..(Len(list) + 1) /\ i - 1 \in 1..Len(list) /\ i - 1 < j - 1
        BY <1>2, <1>3, <1>8, <3>5
      <4>2. r[i] = list[i - 1]
        BY <1>5, <4>1
      <4> QED BY <3>1, <3>2, <4>1, <4>2 DEF Sorted
    <3> QED BY <1>2, <3>3, <3>4, <3>5
  <2> QED BY <1>2, <2>1, <2>2, <2>3
<1>9. Sorted(r, name)
  BY <1>5, <1>8 DEF Sorted
<1> QED BY <1>5, <1>9 DEF r

\* insert_obj_chan() links in a channel whose name is not on the list.
LEMMA ObjChanInserted ==
  ASSUME NEW list \in Seq(Chans), NEW D, NEW name \in [D -> Nat], NEW c \in Chans \cap D,
         \A d \in Range(list) : name[d] # name[c], c \notin Range(list), IsInjective(list)
  PROVE  /\ insert_obj_chan(list, c, name) \in Seq(Chans)
         /\ Range(insert_obj_chan(list, c, name)) = Range(list) \cup {c}
         /\ IsInjective(insert_obj_chan(list, c, name))
<1> DEFINE stops == {d \in DOMAIN name : name[d] >= name[c]}
           p == Place(list, stops)
           r == insert_obj_chan(list, c, name)
<1>1. p \in 1..(Len(list) + 1)
  <2> HIDE DEF stops
  <2> QED BY PlaceFacts
<1>2. ~(p <= Len(list) /\ name[list[p]] = name[c])
  <2> HIDE DEF p
  <2>1. ASSUME p <= Len(list) PROVE list[p] \in Range(list)
    BY <1>1, <2>1 DEF Range
  <2> QED BY <2>1
<1>3. r = Insert(list, p, c)
  BY <1>2 DEF insert_obj_chan, InsertAt, Insert
<1> HIDE DEF p, r
<1>4. c \in Chans
  OBVIOUS
<1>5. r \in Seq(Chans) /\ Range(r) = Range(list) \cup {c} /\ IsInjective(r)
  BY <1>1, <1>3, <1>4, InsertFacts
<1> QED BY <1>5 DEF r

\* insert_user() links in an object that is not a member, once.
LEMMA UserInserted ==
  ASSUME NEW users \in Seq(Objects), NEW o \in Objects, o \notin Range(users), IsInjective(users)
  PROVE  /\ insert_user(users, o) \in Seq(Objects)
         /\ Len(insert_user(users, o)) = Len(users) + 1
         /\ Range(insert_user(users, o)) = Range(users) \cup {o}
         /\ IsInjective(insert_user(users, o))
<1> DEFINE stops == {u \in Objects : ObjName[u] > ObjName[o]}
           p == Place(users, stops)
           r == insert_user(users, o)
<1>1. p \in 1..(Len(users) + 1)
  <2> HIDE DEF stops
  <2> QED BY PlaceFacts
<1>2. ~(p > 1 /\ users[p - 1] = o)
  <2> HIDE DEF p
  <2>1. ASSUME p > 1 PROVE users[p - 1] \in Range(users)
    <3>1. p - 1 \in 1..Len(users)
      BY <1>1, <2>1
    <3> QED BY <3>1 DEF Range
  <2> QED BY <2>1
<1>3. r = Insert(users, p, o)
  BY <1>2 DEF insert_user, InsertAt, Insert
<1> HIDE DEF p, r
<1>5. /\ r \in Seq(Objects) /\ Len(r) = Len(users) + 1
      /\ Range(r) = Range(users) \cup {o} /\ IsInjective(r)
  BY <1>1, <1>3, InsertFacts
<1> QED BY <1>5 DEF r

\* The list of channels: sorted, with distinct names.
LEMMA Listed ==
  ASSUME ChatInv
  PROVE  /\ channels \in Seq(Chans) /\ Len(channels) \in Nat
         /\ ChanName \in [Range(channels) -> Nat]
         /\ \A c \in Range(channels) : c \in Chans /\ chan[c] # NOTHING /\ ChanName[c] = chan[c].name
         /\ \A i \in 1..Len(channels) : channels[i] \in Range(channels)
         /\ Sorted(channels, ChanName) /\ IsInjective(channels)
         /\ \A c, d \in Range(channels) : c # d => ChanName[c] # ChanName[d]
<1>1. channels \in Seq(Chans) /\ Len(channels) \in Nat /\ DOMAIN channels = 1..Len(channels)
  BY DEF ChatInv, CoreType
<1>2. \A c \in Range(channels) : c \in Chans /\ chan[c] # NOTHING
  BY DEF ChatInv, ChannelsListed
<1>3. \A c \in Range(channels) : chan[c].name \in Nat
  <2>1. \A c \in Range(channels) : chan[c] \in Channel
    BY <1>2 DEF ChatInv, CoreType
  <2> QED BY <2>1, NamesAssumption DEF Channel
<1>4. /\ ChanName \in [Range(channels) -> Nat]
      /\ \A c \in Range(channels) : ChanName[c] = chan[c].name
  BY <1>3 DEF ChanName
<1>5. \A i \in 1..Len(channels) : channels[i] \in Range(channels)
  BY <1>1 DEF Range
<1>6. Sorted(channels, ChanName)
  BY <1>1, <1>4, <1>5 DEF ChatInv, ChannelsListed, Sorted
<1>7. IsInjective(channels)
  BY <1>1, <1>4, <1>5, <1>6, SortedInjective
<1>8. ASSUME NEW c \in Range(channels), NEW d \in Range(channels), c # d
      PROVE  ChanName[c] # ChanName[d]
  <2>1. PICK i \in 1..Len(channels) : channels[i] = c
    BY <1>1 DEF Range
  <2>2. PICK j \in 1..Len(channels) : channels[j] = d
    BY <1>1 DEF Range
  <2>3. i < j \/ j < i
    BY <1>1, <1>8, <2>1, <2>2
  <2>4. ChanName[c] < ChanName[d] \/ ChanName[d] < ChanName[c]
    BY <1>6, <2>1, <2>2, <2>3 DEF Sorted
  <2>5. ChanName[c] \in Nat /\ ChanName[d] \in Nat
    BY <1>4
  <2> QED BY <2>4, <2>5
<1> QED BY <1>1, <1>2, <1>4, <1>5, <1>6, <1>7, <1>8

\* A sorted list of exactly the channels, counted, is right.
LEMMA ListedFrom ==
  ASSUME channels' \in Seq(Chans), Range(channels') = {c \in Chans : chan'[c] # NOTHING},
         NEW name, Sorted(channels', name),
         \A c \in Range(channels') : name[c] = chan'[c].name,
         num_channels' = Len(channels'), num_channels' <= MAX_CHANNELS
  PROVE  ChannelsListed'
<1>1. DOMAIN channels' = 1..Len(channels')
  OBVIOUS
<1>2. \A i \in 1..Len(channels') : channels'[i] \in Range(channels')
  BY <1>1 DEF Range
<1>3. \A i, j \in DOMAIN channels' : i < j => chan'[channels'[i]].name < chan'[channels'[j]].name
  BY <1>1, <1>2 DEF Sorted
<1> QED BY <1>3 DEF ChannelsListed

\* Money given.
LEMMA GiveFacts ==
  ASSUME ChatInv, NEW p \in Players, NEW amount \in Nat
  PROVE  /\ giveto(pennies, p, amount) \in [Players -> Nat]
         /\ \A q \in Players \ {God} : giveto(pennies, p, amount)[q]
              = pennies[q] + IF q = p THEN amount ELSE 0
<1>1. pennies \in [Players -> Nat]
  BY DEF ChatInv, CoreType
<1>2. \A n \in Nat : n + 0 = n
  OBVIOUS
<1>3. CASE p = God
  BY <1>1, <1>2, <1>3 DEF giveto
<1>4. CASE p # God
  BY <1>1, <1>2, <1>4 DEF giveto
<1> QED BY <1>3, <1>4

\* The price of a channel is given back to its owner.
LEMMA RefundFacts ==
  ASSUME ChatInv, NEW c \in Chans, chan[c] # NOTHING
  PROVE  LET purse == giveto(pennies, chan[c].creator, chan[c].cost)
         IN  /\ purse \in [Players -> Nat]
             /\ \A q \in Players \ {God} : purse[q] = pennies[q] + Price(chan[c], q)
<1>1. chan[c] \in Channel
  BY ChannelFacts
<1>2. chan[c].creator \in Players /\ chan[c].cost \in Nat
  BY <1>1, BoundsAssumption DEF Channel
<1> DEFINE p == chan[c].creator
           amount == chan[c].cost
<1>3. \A q \in Players : Price(chan[c], q) = IF q = p THEN amount ELSE 0
  BY DEF Price
<1> HIDE DEF p, amount
<1>4. /\ giveto(pennies, p, amount) \in [Players -> Nat]
      /\ \A q \in Players \ {God} : giveto(pennies, p, amount)[q]
           = pennies[q] + IF q = p THEN amount ELSE 0
  <2>1. p \in Players /\ amount \in Nat
    BY <1>2 DEF p, amount
  <2> QED BY <2>1, GiveFacts
<1> QED BY <1>3, <1>4 DEF p, amount

\* @channel/chown refunds the old owner, and the new one has paid nothing.
LEMMA ChownStep ==
  ASSUME ChatInv, NEW c \in Chans, NEW p \in Players, do_chan_chown(c, p)
  PROVE  ChatInv'
<1> DEFINE x == chan_chown(chan[c], p)
<1>1. /\ Idle /\ chan[c] # NOTHING /\ owner[p] # NOTHING /\ chan' = [chan EXCEPT ![c] = x]
      /\ Chanlist' = Chanlist /\ owner' = owner
      /\ pennies' = giveto(pennies, chan[c].creator, chan[c].cost)
      /\ channels' = channels /\ num_channels' = num_channels /\ UNCHANGED <<stack, message>>
  BY DEF do_chan_chown, IsLive
<1>2. chan[c] \in Channel
  BY <1>1, ChannelFacts
<1>3. /\ x \in Channel /\ x.name = chan[c].name /\ x.creator = p
      /\ x.cost = 0 /\ x.bufferq = chan[c].bufferq
      /\ x.users = chan[c].users /\ x.num_users = chan[c].num_users
  BY <1>2 DEF chan_chown, Channel
<1> HIDE DEF x
<1>4. chan \in [Chans -> Channel \cup {NOTHING}] /\ x # NOTHING
  BY <1>3, ObjectFacts DEF ChatInv, CoreType
<1>5. /\ chan' \in [Chans -> Channel \cup {NOTHING}] /\ chan'[c] = x
      /\ \A d \in Chans : d # c => chan'[d] = chan[d]
  BY <1>1, <1>3, <1>4
<1>13. /\ pennies' \in [Players -> Nat]
       /\ \A q \in Players \ {God} : pennies'[q] = pennies[q] + Price(chan[c], q)
  BY <1>1, RefundFacts
<1>6. CoreType'
  BY <1>1, <1>5, <1>13 DEF ChatInv, CoreType
<1>7. CallsOk' /\ OwnersLive'
  BY <1>1, KeepsCalls, KeepsOwners
<1>8. ChannelsListed'
  BY <1>1, <1>3, <1>4, <1>5, KeepsListed DEF SameNames
<1>9. DepositsHeld'
  <2>1. \A q \in Players \ {God} : Price(x, q) = 0
    BY <1>3 DEF Price
  <2>2. ASSUME NEW q \in Players \ {God}
        PROVE  pennies'[q] = pennies[q] + Price(chan[c], q) - Price(x, q)
    <3>1. pennies[q] \in Nat /\ Price(chan[c], q) \in Nat
      BY <1>2, PriceType DEF ChatInv, CoreType
    <3> QED BY <1>13, <2>1, <3>1
  <2> QED BY <1>1, <1>3, <1>8, <2>2, MovesDeposits
<1>10. BuffersOk'
  BY <1>1, <1>3, <1>5, KeepsBuffers DEF SameBuffers
<1>11. MembersAgree'
  BY <1>1, <1>3, <1>4, <1>5, <1>8, KeepsMembers DEF SameMembers
<1> QED BY <1>6, <1>7, <1>8, <1>9, <1>10, <1>11 DEF ChatInv

\* @channel/delete takes the channel off every list and refunds it.
LEMMA DeleteStep ==
  ASSUME ChatInv, NEW c \in Chans, Delete(c)
  PROVE  ChatInv'
<1>1. /\ Idle /\ chan[c] # NOTHING /\ chan' = [chan EXCEPT ![c] = NOTHING]
      /\ Chanlist' = WipedLists(c) /\ owner' = owner
      /\ pennies' = giveto(pennies, chan[c].creator, chan[c].cost)
      /\ channels' = RemoveFirst(channels, c) /\ num_channels' = num_channels - 1
      /\ UNCHANGED <<stack, message>>
  BY DEF Delete, remove_channel
<1>2. chan \in [Chans -> Channel \cup {NOTHING}] /\ chan[c] \in Channel
  BY <1>1 DEF ChatInv, CoreType
<1>3. /\ chan' \in [Chans -> Channel \cup {NOTHING}] /\ chan'[c] = NOTHING
      /\ \A d \in Chans : d # c => chan'[d] = chan[d]
  BY <1>1, <1>2
<1>4. /\ pennies' \in [Players -> Nat]
      /\ \A q \in Players \ {God} : pennies'[q] = pennies[q] + Price(chan[c], q)
  BY <1>1, RefundFacts
<1>5. /\ c \in Range(channels) /\ channels \in Seq(Chans) /\ IsInjective(channels)
      /\ num_channels = Len(channels) /\ Len(channels) \in Nat /\ num_channels <= MAX_CHANNELS
  BY <1>1, ChannelFacts, Listed DEF ChatInv, ChannelsListed
<1>6. /\ channels' \in Seq(Chans) /\ Range(channels') = Range(channels) \ {c}
      /\ Len(channels') = Len(channels) - 1
      /\ \A i, j \in DOMAIN channels' : i < j =>
           \E k, l \in DOMAIN channels : /\ k < l /\ channels'[i] = channels[k]
                                         /\ channels'[j] = channels[l]
  <2> DEFINE r == RemoveFirst(channels, c)
  <2>1. /\ r \in Seq(Chans) /\ Range(r) = Range(channels) \ {c}
        /\ Len(r) = Len(channels) - 1
        /\ \A i, j \in DOMAIN r : i < j =>
             \E k, l \in DOMAIN channels : /\ k < l /\ r[i] = channels[k]
                                           /\ r[j] = channels[l]
    BY <1>5, RemoveFirstFacts
  <2> HIDE DEF r
  <2>2. channels' = r
    BY <1>1 DEF r
  <2> QED BY <2>1, <2>2
<1>7. num_channels' = Len(channels') /\ num_channels' <= MAX_CHANNELS /\ num_channels' \in Nat
  BY <1>1, <1>5, <1>6, BoundsAssumption
<1>8. CoreType'
  BY <1>1, <1>3, <1>4, <1>6, <1>7, WipedFacts DEF ChatInv, CoreType
<1>9. CallsOk' /\ OwnersLive'
  BY <1>1, KeepsCalls, KeepsOwners
<1>10. ChannelsListed'
  <2>1. Range(channels') = {d \in Chans : chan'[d] # NOTHING}
    BY <1>3, <1>6 DEF ChatInv, ChannelsListed
  <2>2. \A d \in Range(channels') : ChanName[d] = chan'[d].name
    BY <1>3, <1>6, Listed
  <2>3. Sorted(channels', ChanName)
    <3>1. DOMAIN channels' = 1..Len(channels') /\ DOMAIN channels = 1..Len(channels)
      BY <1>5, <1>6
    <3>2. Sorted(channels, ChanName)
      BY Listed
    <3> QED BY <1>6, <3>1, <3>2 DEF Sorted
  <2> QED BY <1>6, <1>7, <2>1, <2>2, <2>3, ListedFrom
<1>11. DepositsHeld'
  <2>2. ASSUME NEW q \in Players \ {God}
        PROVE  pennies'[q] = pennies[q] + Price(chan[c], q) - Price(NOTHING, q)
    <3>1. pennies[q] \in Nat /\ Price(chan[c], q) \in Nat
      BY <1>2, PriceType DEF ChatInv, CoreType
    <3>2. Price(NOTHING, q) = 0
      BY DEF Price
    <3> QED BY <1>4, <3>1, <3>2
  <2> QED BY <1>1, <1>10, <2>2, MovesDeposits
<1>12. BuffersOk'
  BY <1>3, KeepsBuffers DEF SameBuffers
<1>13. MembersAgree'
  <2>1. ASSUME NEW d \in Chans, NEW o \in Objects
        PROVE  (chan'[d] # NOTHING /\ onchannel(o, chan'[d])) <=> (d \in Range(Chanlist'[o]))
    <3>1. Range(Chanlist'[o]) = Range(Chanlist[o]) \ {c}
      BY <1>1, WipedFacts
    <3>2. CASE d = c
      BY <1>3, <3>1, <3>2
    <3>3. CASE d # c
      BY <1>3, <3>1, <3>3, Members
    <3> QED BY <3>2, <3>3
  <2>2. \A o \in Objects : IsInjective(Chanlist'[o]) /\ (Chanlist'[o] # <<>> => owner'[o] # NOTHING)
    BY <1>1, WipedFacts
  <2>3. ASSUME NEW d \in Chans, chan'[d] # NOTHING
        PROVE  IsInjective(chan'[d].users) /\ chan'[d].num_users = Len(chan'[d].users)
    BY <1>3, <2>3, Members
  <2> QED BY <1>10, <2>1, <2>2, <2>3, MembersFrom
<1> QED BY <1>8, <1>9, <1>10, <1>11, <1>12, <1>13 DEF ChatInv

\* payfor() takes the amount from one purse, and from no more than it holds.
LEMMA PayFacts ==
  ASSUME ChatInv, NEW p \in Players, NEW amount \in Nat, CanPay(p, amount)
  PROVE  /\ payfor(p, amount) \in [Players -> Nat]
         /\ \A q \in Players \ {God} : payfor(p, amount)[q]
              = pennies[q] - IF q = p THEN amount ELSE 0
<1>1. pennies \in [Players -> Nat]
  BY DEF ChatInv, CoreType
<1>2. \A n \in Nat : n - 0 = n
  OBVIOUS
<1>3. CASE p = God
  BY <1>1, <1>2, <1>3 DEF payfor
<1>4. CASE p # God
  <2>1. pennies[p] - amount \in Nat
    BY <1>1, <1>4 DEF CanPay
  <2> QED BY <1>1, <1>2, <1>4, <2>1 DEF payfor
<1> QED BY <1>3, <1>4

\* @channel/add charges the owner what the channel will refund.
LEMMA AddStep ==
  ASSUME ChatInv, NEW o \in Objects, NEW c \in Chans, NEW n \in ChanNames, NEW type \in Types,
         Add(o, c, n, type)
  PROVE  ChatInv'
<1> DEFINE x == [new_channel EXCEPT !.name = n, !.creator = owner[o],
                                    !.type = IF type = {} THEN @ ELSE type]
           name == [d \in Range(channels) \cup {c} |-> IF d = c THEN n ELSE chan[d].name]
<1>1. /\ Idle /\ owner[o] # NOTHING /\ chan[c] = NOTHING /\ num_channels # MAX_CHANNELS
      /\ NameOk(n, NOTHING) /\ CanPay(owner[o], CHANNEL_COST)
      /\ chan' = [chan EXCEPT ![c] = x]
      /\ Chanlist' = Chanlist /\ owner' = owner
      /\ pennies' = payfor(owner[o], CHANNEL_COST)
      /\ channels' = insert_channel(channels, c, name)
      /\ num_channels' = num_channels + 1 /\ UNCHANGED <<stack, message>>
  BY DEF Add, IsLive
<1>2. owner[o] \in Players /\ owner[owner[o]] # NOTHING
  BY <1>1 DEF ChatInv, CoreType, OwnersLive
<1>3. /\ x \in Channel /\ x.name = n /\ x.creator = owner[o] /\ x.cost = CHANNEL_COST
      /\ x.users = <<>> /\ x.num_users = 0 /\ x.bufferq = NOTHING
  <2>1. <<>> \in Seq(Objects)
    OBVIOUS
  <2> DEFINE t == IF type = {} THEN {"player"} ELSE type
             p == owner[o]
  <2>2. t \in Types \cup {{"player"}}
    OBVIOUS
  <2>3. x = [new_channel EXCEPT !.name = n, !.creator = p, !.type = t]
    BY DEF new_channel
  <2> HIDE DEF t, p
  <2>4. p \in Players
    BY <1>2 DEF p
  <2> DEFINE Made == [name : Nat, type : Types \cup {{"player"}}, creator : Players \cup {NOTHING},
                     cost : {0, CHANNEL_COST}, mogrifier : Objects \cup {NOTHING},
                     users : Seq(Objects), num_users : Nat, bufferq : Buffers \cup {NOTHING}]
  <2>5. /\ new_channel \in Made /\ new_channel.cost = CHANNEL_COST /\ new_channel.users = <<>>
        /\ new_channel.num_users = 0 /\ new_channel.bufferq = NOTHING
    BY <2>1 DEF new_channel
  <2> QED BY <2>2, <2>3, <2>4, <2>5 DEF Channel, p
<1> HIDE DEF x
<1>4. chan \in [Chans -> Channel \cup {NOTHING}] /\ x # NOTHING
  BY <1>3, ObjectFacts DEF ChatInv, CoreType
<1>5. /\ chan' \in [Chans -> Channel \cup {NOTHING}] /\ chan'[c] = x
      /\ \A d \in Chans : d # c => chan'[d] = chan[d]
  BY <1>1, <1>3, <1>4
<1>6. /\ pennies' \in [Players -> Nat]
      /\ \A q \in Players \ {God} : pennies'[q]
           = pennies[q] - IF q = owner[o] THEN CHANNEL_COST ELSE 0
  BY <1>1, <1>2, BoundsAssumption, PayFacts
<1>7. /\ channels \in Seq(Chans) /\ Len(channels) \in Nat /\ c \notin Range(channels)
      /\ num_channels = Len(channels) /\ num_channels <= MAX_CHANNELS
      /\ Range(channels) = {d \in Chans : chan[d] # NOTHING}
  BY <1>1, Listed DEF ChatInv, ChannelsListed
<1>8. /\ name \in [Range(channels) \cup {c} -> Nat] /\ name[c] = n
      /\ \A d \in Range(channels) : name[d] = chan[d].name /\ name[d] = ChanName[d]
  <2>1. n \in Nat
    BY NamesAssumption
  <2>2. \A d \in Range(channels) : chan[d].name \in Nat /\ ChanName[d] = chan[d].name
    BY Listed
  <2> QED BY <1>7, <2>1, <2>2
<1> HIDE DEF name
<1>9. /\ \A i \in 1..Len(channels) : name[channels[i]] # name[c]
      /\ Sorted(channels, name)
  <2>1. \A i \in 1..Len(channels) : channels[i] \in Range(channels) /\ channels[i] # NOTHING
    BY Listed, ObjectsAssumption
  <2>2. \A i \in 1..Len(channels) : name[channels[i]] # n
    BY <1>1, <1>8, <2>1 DEF NameOk
  <2>3. Sorted(channels, ChanName)
    BY Listed
  <2> QED BY <1>8, <2>1, <2>2, <2>3 DEF Sorted
<1>10. /\ channels' \in Seq(Chans) /\ Len(channels') = Len(channels) + 1
       /\ Range(channels') = Range(channels) \cup {c} /\ Sorted(channels', name)
  <2> DEFINE r == insert_channel(channels, c, name)
             D == Range(channels) \cup {c}
  <2>1. c \in Chans \cap D /\ Range(channels) \subseteq D /\ name \in [D -> Nat]
    BY <1>8
  <2> HIDE DEF D
  <2>2. /\ r \in Seq(Chans) /\ Len(r) = Len(channels) + 1
        /\ Range(r) = Range(channels) \cup {c} /\ Sorted(r, name)
    BY <1>7, <1>9, <2>1, ChannelInserted
  <2> HIDE DEF r
  <2>3. channels' = r
    BY <1>1 DEF r
  <2> QED BY <2>2, <2>3
<1>11. num_channels' = Len(channels') /\ num_channels' <= MAX_CHANNELS /\ num_channels' \in Nat
  BY <1>1, <1>7, <1>10, BoundsAssumption
<1>12. CoreType'
  BY <1>1, <1>5, <1>6, <1>10, <1>11 DEF ChatInv, CoreType
<1>13. CallsOk' /\ OwnersLive'
  BY <1>1, KeepsCalls, KeepsOwners
<1>14. ChannelsListed'
  <2>1. Range(channels') = {d \in Chans : chan'[d] # NOTHING}
    BY <1>4, <1>5, <1>7, <1>10
  <2>2. \A d \in Range(channels') : name[d] = chan'[d].name
    BY <1>3, <1>5, <1>7, <1>8, <1>10
  <2> QED BY <1>10, <1>11, <2>1, <2>2, ListedFrom
<1>15. DepositsHeld'
  <2>1. ASSUME NEW q \in Players \ {God}
        PROVE  pennies'[q] = pennies[q] + Price(chan[c], q) - Price(x, q)
    <3>1. pennies[q] \in Nat /\ CHANNEL_COST \in Nat
      BY BoundsAssumption DEF ChatInv, CoreType
    <3>2. Price(chan[c], q) = 0 /\ Price(x, q) = IF q = owner[o] THEN CHANNEL_COST ELSE 0
      BY <1>1, <1>3, <1>4 DEF Price
    <3> QED BY <1>6, <3>1, <3>2
  <2> QED BY <1>1, <1>2, <1>3, <1>14, <2>1, MovesDeposits
<1>16. BuffersOk'
  BY <1>3, <1>5, KeepsBuffers DEF SameBuffers
<1>17. MembersAgree'
  BY <1>1, <1>3, <1>5, <1>14, KeepsMembers DEF SameMembers
<1> QED BY <1>12, <1>13, <1>14, <1>15, <1>16, <1>17 DEF ChatInv

\* @channel/rename moves the channel to where its new name belongs.
LEMMA RenameStep ==
  ASSUME ChatInv, NEW c \in Chans, NEW n \in ChanNames, Rename(c, n)
  PROVE  ChatInv'
<1> DEFINE x == [chan[c] EXCEPT !.name = n]
           name == [ChanName EXCEPT ![c] = n]
           list == RemoveFirst(channels, c)
<1>1. /\ Idle /\ chan[c] # NOTHING /\ NameOk(n, c)
      /\ chan' = [chan EXCEPT ![c] = x]
      /\ Chanlist' = Chanlist /\ owner' = owner /\ pennies' = pennies
      /\ channels' = insert_channel(list, c, name)
      /\ num_channels' = num_channels /\ \E len \in Lens : channel_send(c, x, len)
  BY DEF Rename, remove_channel
<1>2. chan[c] \in Channel
  BY <1>1, ChannelFacts
<1>3. /\ x \in Channel /\ x.name = n /\ x.creator = chan[c].creator /\ x.cost = chan[c].cost
      /\ x.users = chan[c].users /\ x.num_users = chan[c].num_users
      /\ x.bufferq = chan[c].bufferq /\ x.users \in Seq(Objects)
  BY <1>2 DEF Channel
<1> HIDE DEF x
<1>4. chan \in [Chans -> Channel \cup {NOTHING}] /\ x # NOTHING
  BY <1>3, ObjectFacts DEF ChatInv, CoreType
<1>5. /\ chan' \in [Chans -> Channel \cup {NOTHING}] /\ chan'[c] = x
      /\ \A d \in Chans : d # c => chan'[d] = chan[d]
  BY <1>1, <1>3, <1>4
<1>6. /\ channels \in Seq(Chans) /\ Len(channels) \in Nat /\ c \in Range(channels)
      /\ IsInjective(channels) /\ num_channels = Len(channels) /\ num_channels <= MAX_CHANNELS
      /\ Range(channels) = {d \in Chans : chan[d] # NOTHING}
  BY <1>1, Listed DEF ChatInv, ChannelsListed
<1>7. /\ list \in Seq(Chans) /\ Range(list) = Range(channels) \ {c}
      /\ Len(list) = Len(channels) - 1 /\ Len(list) \in Nat
      /\ \A i, j \in DOMAIN list : i < j =>
           \E k, l \in DOMAIN channels : /\ k < l /\ list[i] = channels[k]
                                         /\ list[j] = channels[l]
      /\ \A i \in 1..Len(list) : list[i] \in Range(list)
  <2>1. /\ list \in Seq(Chans) /\ Range(list) = Range(channels) \ {c}
        /\ Len(list) = Len(channels) - 1
        /\ \A i, j \in DOMAIN list : i < j =>
           \E k, l \in DOMAIN channels : /\ k < l /\ list[i] = channels[k]
                                         /\ list[j] = channels[l]
    BY <1>6, RemoveFirstFacts
  <2> HIDE DEF list
  <2>2. Len(list) \in Nat /\ \A i \in 1..Len(list) : list[i] \in Range(list)
    BY <2>1 DEF Range
  <2> QED BY <2>1, <2>2
<1>8. /\ name \in [Range(channels) -> Nat] /\ name[c] = n
      /\ \A d \in Range(channels) : d # c => name[d] = chan[d].name /\ name[d] = ChanName[d]
  <2>1. n \in Nat
    BY NamesAssumption
  <2>2. /\ ChanName \in [Range(channels) -> Nat]
        /\ \A d \in Range(channels) : chan[d].name \in Nat /\ ChanName[d] = chan[d].name
    BY Listed
  <2> QED BY <1>6, <2>1, <2>2
<1> HIDE DEF name, list
<1>9. /\ \A i \in 1..Len(list) : name[list[i]] # name[c]
      /\ Sorted(list, name)
  <2>1. ASSUME NEW i \in 1..Len(list) PROVE name[list[i]] # n
    <3>1. list[i] \in Range(channels) \ {c}
      BY <1>7
    <3>2. chan[list[i]].name # n /\ name[list[i]] = chan[list[i]].name
      BY <1>1, <1>8, <3>1 DEF NameOk
    <3> QED BY <3>2
  <2>2. Sorted(channels, ChanName)
    BY Listed
  <2>3. DOMAIN list = 1..Len(list) /\ DOMAIN channels = 1..Len(channels)
    BY <1>6, <1>7
  <2>4. ASSUME NEW i \in 1..Len(list), NEW j \in 1..Len(list), i < j
        PROVE  name[list[i]] < name[list[j]]
    <3>4. i \in DOMAIN list /\ j \in DOMAIN list
      BY <2>3
    <3>5. \E k, l \in DOMAIN channels : k < l /\ list[i] = channels[k] /\ list[j] = channels[l]
      BY <1>7, <2>4, <3>4, Zenon
    <3>3. PICK k, l \in 1..Len(channels) :
            k < l /\ list[i] = channels[k] /\ list[j] = channels[l]
      BY <2>3, <3>5
    <3>1. ChanName[list[i]] < ChanName[list[j]]
      BY <2>2, <3>3 DEF Sorted
    <3>2. name[list[i]] = ChanName[list[i]] /\ name[list[j]] = ChanName[list[j]]
      BY <1>7, <1>8
    <3> QED BY <3>1, <3>2
  <2> QED BY <1>8, <2>1, <2>4 DEF Sorted
<1>10. /\ channels' \in Seq(Chans) /\ Len(channels') = Len(channels)
       /\ Range(channels') = Range(channels) /\ Sorted(channels', name)
  <2> DEFINE r == insert_channel(list, c, name)
             D == Range(channels)
  <2>1. c \in Chans \cap D /\ Range(list) \subseteq D /\ name \in [D -> Nat]
    BY <1>6, <1>7, <1>8
  <2> HIDE DEF D
  <2>2. /\ r \in Seq(Chans) /\ Len(r) = Len(list) + 1
        /\ Range(r) = Range(list) \cup {c} /\ Sorted(r, name)
    <3>1. list \in Seq(Chans) /\ Sorted(list, name)
          /\ \A i \in 1..Len(list) : name[list[i]] # name[c]
      BY <1>7, <1>9
    <3> QED BY <2>1, <3>1, ChannelInserted
  <2> HIDE DEF r
  <2>3. channels' = r
    BY <1>1 DEF r
  <2> QED BY <1>6, <1>7, <2>2, <2>3
<1>11. num_channels' = Len(channels') /\ num_channels' <= MAX_CHANNELS /\ num_channels' \in Nat
  BY <1>1, <1>6, <1>10
<1>12. CoreType'
  BY <1>1, <1>5, <1>10, <1>11 DEF ChatInv, CoreType
<1>13. OwnersLive'
  BY <1>1, KeepsOwners
<1>18. CallsOk'
  <2>1. PICK len \in Lens : channel_send(c, x, len)
    BY <1>1
  <2> QED BY <1>1, <1>3, <1>4, <1>5, <2>1, SendType DEF ChatInv, ChansStay
<1>14. ChannelsListed'
  <2>1. Range(channels') = {d \in Chans : chan'[d] # NOTHING}
    BY <1>1, <1>4, <1>5, <1>6, <1>10
  <2>2. \A d \in Range(channels') : name[d] = chan'[d].name
    BY <1>3, <1>5, <1>6, <1>8, <1>10
  <2> QED BY <1>10, <1>11, <2>1, <2>2, ListedFrom
<1>15. DepositsHeld'
  BY <1>1, <1>3, <1>4, <1>5, <1>14, KeepsDeposits DEF SamePrices
<1>16. BuffersOk'
  BY <1>1, <1>3, <1>5, KeepsBuffers DEF SameBuffers
<1>17. MembersAgree'
  BY <1>1, <1>3, <1>4, <1>5, <1>14, KeepsMembers DEF SameMembers
<1> QED BY <1>12, <1>13, <1>14, <1>15, <1>16, <1>17, <1>18 DEF ChatInv

\* The commands on a channel keep the invariant.
LEMMA AdminStep ==
  ASSUME ChatInv, Admin
  PROVE  ChatInv'
<1>1. PICK c \in Chans :
        \/ \E o \in Objects, n \in ChanNames, type \in Types : Add(o, c, n, type)
        \/ \E n \in ChanNames : Rename(c, n)
        \/ \E type \in Types : Priv(c, type)
        \/ \E p \in Players : do_chan_chown(c, p)
        \/ \E it \in Mogrifiers \cup {NOTHING} : do_chan_set_mogrifier(c, it)
        \/ \E lines \in BufferLines : do_chan_buffer(c, lines)
        \/ Delete(c) \/ Wipe(c)
  BY DEF Admin
<1>2. CASE \E o \in Objects, n \in ChanNames, type \in Types : Add(o, c, n, type)
  BY <1>2, AddStep
<1>3. CASE \E n \in ChanNames : Rename(c, n)
  BY <1>3, RenameStep
<1>4. CASE \E p \in Players : do_chan_chown(c, p)
  BY <1>4, ChownStep
<1>5. CASE Delete(c) \/ Wipe(c)
  BY <1>5, DeleteStep, WipeStep
<1>6. CASE \/ \E type \in Types : Priv(c, type)
           \/ \E it \in Mogrifiers \cup {NOTHING} : do_chan_set_mogrifier(c, it)
           \/ \E lines \in BufferLines : do_chan_buffer(c, lines)
  BY <1>6, TweakStep
<1> QED BY <1>1, <1>2, <1>3, <1>4, <1>5, <1>6

\* o comes to c, or leaves it: the channel is x and the object's list l.
LEMMA MemberMoves ==
  ASSUME ChatInv, NEW o \in Objects, NEW c \in Chans, NEW x \in Channel, NEW l \in Seq(Chans),
         chan[c] # NOTHING, chan' = [chan EXCEPT ![c] = x], Chanlist' = [Chanlist EXCEPT ![o] = l],
         owner' = owner, pennies' = pennies, channels' = channels, num_channels' = num_channels,
         x.name = chan[c].name, x.creator = chan[c].creator, x.cost = chan[c].cost,
         x.bufferq = chan[c].bufferq,
         IsInjective(x.users), x.num_users = Len(x.users), IsInjective(l), owner[o] # NOTHING,
         c \in Range(l) <=> o \in Range(x.users),
         \A d \in Chans : d # c => (d \in Range(l) <=> d \in Range(Chanlist[o])),
         \A q \in Objects : q # o => (q \in Range(x.users) <=> q \in Range(chan[c].users)),
         Announces(c, x)
  PROVE  ChatInv'
<1>1. /\ chan \in [Chans -> Channel \cup {NOTHING}] /\ x # NOTHING
      /\ Chanlist \in [Objects -> Seq(Chans)]
  BY ObjectFacts DEF ChatInv, CoreType
<1>2. /\ chan' \in [Chans -> Channel \cup {NOTHING}] /\ chan'[c] = x
      /\ \A d \in Chans : d # c => chan'[d] = chan[d]
  BY <1>1
<1>3. /\ Chanlist' \in [Objects -> Seq(Chans)] /\ Chanlist'[o] = l
      /\ \A q \in Objects : q # o => Chanlist'[q] = Chanlist[q]
  BY <1>1
<1>4. CoreType' /\ OwnersLive'
  BY <1>2, <1>3, KeepsOwners DEF ChatInv, CoreType
<1>5. CallsOk'
  <2>1. x.users \in Seq(Objects)
    BY DEF Channel
  <2> QED BY <1>1, <1>2, <2>1, AnnounceType DEF ChatInv, ChansStay
<1>6. ChannelsListed'
  BY <1>1, <1>2, KeepsListed DEF SameNames
<1>7. DepositsHeld'
  BY <1>1, <1>2, <1>6, KeepsDeposits DEF SamePrices
<1>8. BuffersOk'
  BY <1>2, KeepsBuffers DEF SameBuffers
<1>9. MembersAgree'
  <2>1. ASSUME NEW d \in Chans, NEW q \in Objects
        PROVE  (chan'[d] # NOTHING /\ onchannel(q, chan'[d])) <=> (d \in Range(Chanlist'[q]))
    <3>1. (chan[d] # NOTHING /\ onchannel(q, chan[d])) <=> (d \in Range(Chanlist[q]))
      BY Members
    <3>2. CASE d = c /\ q = o
      BY <1>1, <1>2, <1>3, <3>2 DEF onchannel
    <3>3. CASE d = c /\ q # o
      BY <1>1, <1>2, <1>3, <3>1, <3>3 DEF onchannel
    <3>4. CASE d # c
      BY <1>2, <1>3, <3>1, <3>4
    <3> QED BY <3>2, <3>3, <3>4
  <2>2. ASSUME NEW q \in Objects
        PROVE  IsInjective(Chanlist'[q]) /\ (Chanlist'[q] # <<>> => owner'[q] # NOTHING)
    <3>1. CASE q = o
      BY <1>3, <3>1
    <3>2. CASE q # o
      BY <1>3, <3>2, Members
    <3> QED BY <3>1, <3>2
  <2>3. ASSUME NEW d \in Chans, chan'[d] # NOTHING
        PROVE  IsInjective(chan'[d].users) /\ chan'[d].num_users = Len(chan'[d].users)
    <3>1. CASE d = c
      BY <1>2, <3>1
    <3>2. CASE d # c
      BY <1>2, <2>3, <3>2, Members
    <3> QED BY <3>1, <3>2
  <2> QED BY <1>6, <2>1, <2>2, <2>3, MembersFrom
<1> QED BY <1>4, <1>5, <1>6, <1>7, <1>8, <1>9 DEF ChatInv

\* Joining links both sides.
LEMMA JoinStep ==
  ASSUME ChatInv, NEW o \in Objects, NEW c \in Chans, Join(o, c)
  PROVE  ChatInv'
<1> DEFINE u == insert_user(chan[c].users, o)
           x == [chan[c] EXCEPT !.users = u, !.num_users = @ + 1]
           l == insert_obj_chan(Chanlist[o], c, ChanName)
<1>1. /\ chan[c] # NOTHING /\ owner[o] # NOTHING /\ ~onchannel(o, chan[c])
      /\ chan' = [chan EXCEPT ![c] = x]
      /\ Chanlist' = [Chanlist EXCEPT ![o] = l]
      /\ Announces(c, x)
      /\ owner' = owner /\ pennies' = pennies /\ channels' = channels
      /\ num_channels' = num_channels
  BY DEF Join, ChanOkType, IsLive
<1>2. /\ chan[c] \in Channel /\ chan[c].users \in Seq(Objects) /\ c \in Range(channels)
      /\ IsInjective(chan[c].users) /\ chan[c].num_users = Len(chan[c].users)
  BY <1>1, ChannelFacts
<1>3. /\ u \in Seq(Objects) /\ Len(u) = Len(chan[c].users) + 1
      /\ Range(u) = Range(chan[c].users) \cup {o} /\ IsInjective(u)
  BY <1>1, <1>2, UserInserted DEF onchannel
<1> HIDE DEF u
<1>4. chan[c].num_users + 1 \in Nat
  <2>1. Len(chan[c].users) \in Nat
    BY <1>2
  <2> QED BY <1>2, <2>1
<1>5. /\ x \in Channel /\ x.name = chan[c].name /\ x.creator = chan[c].creator
      /\ x.cost = chan[c].cost /\ x.bufferq = chan[c].bufferq
      /\ x.users = u /\ x.num_users = chan[c].num_users + 1
  BY <1>2, <1>3, <1>4 DEF Channel
<1> HIDE DEF x
<1>6. /\ Chanlist[o] \in Seq(Chans) /\ IsInjective(Chanlist[o]) /\ c \notin Range(Chanlist[o])
      /\ Range(Chanlist[o]) \subseteq Range(channels)
  <2>1. /\ IsInjective(Chanlist[o]) /\ c \notin Range(Chanlist[o])
        /\ Chanlist[o] \in Seq(Chans)
    BY <1>1, Members DEF ChatInv, CoreType
  <2>2. Range(Chanlist[o]) \subseteq Chans
    BY <2>1 DEF Range
  <2>3. \A d \in Range(Chanlist[o]) : d \in Chans /\ chan[d] # NOTHING
    BY <2>2, Members
  <2>4. \A d \in Range(Chanlist[o]) : d \in Range(channels)
    BY <2>3, ChannelFacts
  <2> QED BY <2>1, <2>4
<1>7. l \in Seq(Chans) /\ Range(l) = Range(Chanlist[o]) \cup {c} /\ IsInjective(l)
  <2>1. /\ ChanName \in [Range(channels) -> Nat] /\ c \in Chans \cap Range(channels)
        /\ \A d \in Range(Chanlist[o]) : ChanName[d] # ChanName[c]
    BY <1>2, <1>6, Listed
  <2> QED BY <1>6, <2>1, ObjChanInserted
<1> HIDE DEF l
<1>8. IsInjective(x.users) /\ x.num_users = Len(x.users)
  BY <1>2, <1>3, <1>5
<1>9. /\ c \in Range(l) <=> o \in Range(x.users)
      /\ \A d \in Chans : d # c => (d \in Range(l) <=> d \in Range(Chanlist[o]))
      /\ \A q \in Objects : q # o => (q \in Range(x.users) <=> q \in Range(chan[c].users))
  BY <1>3, <1>5, <1>7
<1> QED BY <1>1, <1>5, <1>7, <1>8, <1>9, MemberMoves

\* Leaving unlinks both sides.
LEMMA LeaveStep ==
  ASSUME ChatInv, NEW o \in Objects, NEW c \in Chans, Leave(o, c)
  PROVE  ChatInv'
<1> DEFINE u == RemoveFirst(chan[c].users, o)
           x == remove_user(chan[c], o)
           l == RemoveFirst(Chanlist[o], c)
<1>1. /\ chan[c] # NOTHING /\ onchannel(o, chan[c])
      /\ chan' = [chan EXCEPT ![c] = x]
      /\ Chanlist' = [Chanlist EXCEPT ![o] = l]
      /\ Announces(c, x)
      /\ owner' = owner /\ pennies' = pennies /\ channels' = channels
      /\ num_channels' = num_channels
  BY DEF Leave, remove_obj_chan
<1>2. /\ chan[c] \in Channel /\ chan[c].users \in Seq(Objects)
      /\ IsInjective(chan[c].users) /\ chan[c].num_users = Len(chan[c].users)
      /\ o \in Range(chan[c].users)
  BY <1>1, ChannelFacts DEF onchannel
<1>3. /\ u \in Seq(Objects) /\ Len(u) = Len(chan[c].users) - 1
      /\ Range(u) = Range(chan[c].users) \ {o} /\ IsInjective(u)
  BY <1>2, RemoveFirstFacts
<1>10. x = [chan[c] EXCEPT !.users = u, !.num_users = @ - 1]
  BY DEF remove_user
<1> HIDE DEF u, x
<1>4. chan[c].num_users - 1 \in Nat
  <2>1. Len(u) \in Nat
    BY <1>3
  <2> QED BY <1>2, <1>3, <2>1
<1>5. /\ x \in Channel /\ x.name = chan[c].name /\ x.creator = chan[c].creator
      /\ x.cost = chan[c].cost /\ x.bufferq = chan[c].bufferq
      /\ x.users = u /\ x.num_users = chan[c].num_users - 1
  BY <1>2, <1>3, <1>4, <1>10 DEF Channel
<1>6. /\ Chanlist[o] \in Seq(Chans) /\ IsInjective(Chanlist[o]) /\ c \in Range(Chanlist[o])
      /\ owner[o] # NOTHING
  <2>1. /\ Chanlist[o] \in Seq(Chans) /\ IsInjective(Chanlist[o]) /\ c \in Range(Chanlist[o])
    BY <1>1, Members DEF ChatInv, CoreType
  <2>2. Chanlist[o] # <<>>
    BY <2>1 DEF Range
  <2> QED BY <2>1, <2>2, Members
<1>7. l \in Seq(Chans) /\ Range(l) = Range(Chanlist[o]) \ {c} /\ IsInjective(l)
  BY <1>6, RemoveFirstFacts
<1> HIDE DEF l
<1>8. IsInjective(x.users) /\ x.num_users = Len(x.users)
  BY <1>2, <1>3, <1>5
<1>9. /\ c \in Range(l) <=> o \in Range(x.users)
      /\ \A d \in Chans : d # c => (d \in Range(l) <=> d \in Range(Chanlist[o]))
      /\ \A q \in Objects : q # o => (q \in Range(x.users) <=> q \in Range(chan[c].users))
  BY <1>3, <1>5, <1>7
<1> QED BY <1>1, <1>5, <1>6, <1>7, <1>8, <1>9, MemberMoves

\* The channels as they are, but perhaps for their owners and prices.
SameButOwner(chans) ==
  /\ chans \in [Chans -> Channel \cup {NOTHING}]
  /\ \A c \in Chans : chans[c] = NOTHING <=> chan[c] = NOTHING
  /\ \A c \in Chans : chan[c] # NOTHING =>
       /\ chans[c].name = chan[c].name /\ chans[c].bufferq = chan[c].bufferq
       /\ chans[c].users = chan[c].users /\ chans[c].num_users = chan[c].num_users

\* x is what is left of the channel a when the objects of gone are destroyed.
Left(x, a, gone) ==
  /\ x \in Channel
  /\ x.name = a.name /\ x.bufferq = a.bufferq /\ x.creator = a.creator /\ x.cost = a.cost
  /\ Range(x.users) = Range(a.users) \ gone
  /\ IsInjective(x.users) /\ x.num_users = Len(x.users)

\* One channel without the objects that go.
LEMMA RemovedUsers ==
  ASSUME ChatInv, NEW gone, gone \subseteq Objects, NEW c \in Chans, NEW a \in Channel,
         chan[c] # NOTHING, a.users = chan[c].users, a.num_users = chan[c].num_users,
         NEW told
  PROVE  LET left == {o \in gone : c \in Range(Chanlist[o]) /\ onchannel(o, a)}
             x == [a EXCEPT !.users = Keep(@, Objects \ left),
                            !.num_users = @ - Cardinality(left),
                            !.mogrifier = IF @ \in told THEN NOTHING ELSE @]
         IN  Left(x, a, gone)
<1> DEFINE left == {o \in gone : c \in Range(Chanlist[o]) /\ onchannel(o, a)}
           users == a.users
           u == Keep(users, Objects \ left)
           n == Cardinality(left)
           m == IF a.mogrifier \in told THEN NOTHING ELSE a.mogrifier
           x == [a EXCEPT !.users = u, !.num_users = @ - n, !.mogrifier = m]
<1>1. /\ users \in Seq(Objects) /\ IsInjective(users) /\ a.num_users = Len(users)
  BY ChannelFacts
<1>2. left = gone \cap Range(users)
  BY Members DEF onchannel
<1>3. Range(users) \subseteq Objects
  BY <1>1 DEF Range
<1> HIDE DEF left
<1>4. u \in Seq(Objects) /\ Range(u) = Range(users) \cap (Objects \ left) /\ IsInjective(u)
  <2> HIDE DEF users
  <2> QED BY <1>1, KeepFacts
<1>5. Range(u) = Range(users) \ gone /\ Range(u) = Range(users) \ left /\ left = Range(users) \cap left
  <2> HIDE DEF u, users
  <2> QED BY <1>2, <1>3, <1>4
<1> HIDE DEF u, users
<1>6. /\ IsFiniteSet(Range(users)) /\ Cardinality(Range(users)) = Len(users)
      /\ Cardinality(Range(u)) = Len(u) /\ Len(u) \in Nat /\ Len(users) \in Nat
  <2>1. IsFiniteSet(Range(users)) /\ Cardinality(Range(users)) = Len(users)
    BY <1>1, InjectiveLen
  <2>2. Cardinality(Range(u)) = Len(u)
    BY <1>4, InjectiveLen
  <2>3. Len(u) \in Nat /\ Len(users) \in Nat
    BY <1>1, <1>4
  <2> QED BY <2>1, <2>2, <2>3
<1>7. IsFiniteSet(left) /\ n \in Nat /\ Len(u) = Len(users) - n
  <2>1. IsFiniteSet(left) /\ Cardinality(left) \in Nat
    BY <1>5, <1>6, FS_Subset, FS_CardinalityType
  <2>2. Cardinality(Range(users) \ left) = Cardinality(Range(users)) - Cardinality(Range(users) \cap left)
    BY <1>6, FS_Difference
  <2> QED BY <1>5, <1>6, <2>1, <2>2
<1> HIDE DEF n
<1>8. a.num_users - n = Len(u) /\ a.num_users - n \in Nat
  BY <1>1, <1>6, <1>7
<1>9. m \in Objects \cup {NOTHING}
  BY DEF Channel
<1> HIDE DEF m
<1>10. /\ x \in Channel /\ x.name = a.name /\ x.bufferq = a.bufferq /\ x.creator = a.creator
       /\ x.cost = a.cost /\ x.users = u /\ x.num_users = a.num_users - n
  BY <1>4, <1>8, <1>9 DEF Channel
<1>11. Left(x, a, gone)
  <2> HIDE DEF x
  <2> QED BY <1>4, <1>5, <1>8, <1>10 DEF Left, users
<1> QED BY <1>11 DEF x, u, users, n, m, left

\* remove_all_obj_chan() takes the objects off every channel.
LEMMA RemovedFacts ==
  ASSUME ChatInv, NEW gone, gone \subseteq Objects, NEW chans, SameButOwner(chans)
  PROVE  /\ remove_all_obj_chan(chans, gone) \in [Chans -> Channel \cup {NOTHING}]
         /\ \A c \in Chans : chan[c] = NOTHING => remove_all_obj_chan(chans, gone)[c] = NOTHING
         /\ \A c \in Chans : chan[c] # NOTHING =>
              Left(remove_all_obj_chan(chans, gone)[c], chans[c], gone)
<1> DEFINE X(c) == LET left == {o \in gone : c \in Range(Chanlist[o]) /\ onchannel(o, chans[c])}
                       told == {o \in gone : c \in Range(Chanlist[o])}
                   IN  [chans[c] EXCEPT !.users = Keep(@, Objects \ left),
                                        !.num_users = @ - Cardinality(left),
                                        !.mogrifier = IF @ \in told THEN NOTHING ELSE @]
           R == remove_all_obj_chan(chans, gone)
<1>1. R = [c \in Chans |-> IF chans[c] = NOTHING THEN NOTHING ELSE X(c)]
  BY DEF remove_all_obj_chan
<1>2. ASSUME NEW c \in Chans, chan[c] # NOTHING PROVE Left(X(c), chans[c], gone)
  <2>1. /\ chans[c] \in Channel /\ chans[c].users = chan[c].users
        /\ chans[c].num_users = chan[c].num_users
    BY <1>2 DEF SameButOwner
  <2> DEFINE a == chans[c]
  <2> HIDE DEF a
  <2>2. Left(LET left == {o \in gone : c \in Range(Chanlist[o]) /\ onchannel(o, a)}
                 told == {o \in gone : c \in Range(Chanlist[o])}
             IN  [a EXCEPT !.users = Keep(@, Objects \ left),
                           !.num_users = @ - Cardinality(left),
                           !.mogrifier = IF @ \in told THEN NOTHING ELSE @], a, gone)
    <3>1. a \in Channel /\ a.users = chan[c].users /\ a.num_users = chan[c].num_users
      BY <2>1 DEF a
    <3> QED BY <1>2, <3>1, RemovedUsers
  <2> QED BY <2>2 DEF a
<1> HIDE DEF X, R
<1>3. \A c \in Chans : chan[c] # NOTHING => X(c) \in Channel
  BY <1>2 DEF Left
<1>4. \A c \in Chans : chans[c] = NOTHING <=> chan[c] = NOTHING
  BY DEF SameButOwner
<1>5. \A c \in Chans : R[c] = IF chan[c] = NOTHING THEN NOTHING ELSE X(c)
  BY <1>1, <1>4
<1>6. R \in [Chans -> Channel \cup {NOTHING}]
  BY <1>1, <1>3, <1>4
<1>7. R \in [Chans -> Channel \cup {NOTHING}]
       /\ (\A c \in Chans : chan[c] = NOTHING => R[c] = NOTHING)
       /\ (\A c \in Chans : chan[c] # NOTHING => Left(R[c], chans[c], gone))
  BY <1>2, <1>5, <1>6
<1> QED BY <1>7 DEF R

\* The objects that go have no channels left, the others keep theirs.
LEMMA ListsWithoutFacts ==
  ASSUME ChatInv, NEW gone, gone \subseteq Objects
  PROVE  /\ ListsWithout(gone) \in [Objects -> Seq(Chans)]
         /\ \A o \in Objects : o \in gone => ListsWithout(gone)[o] = <<>>
         /\ \A o \in Objects : o \notin gone => ListsWithout(gone)[o] = Chanlist[o]
<1> DEFINE K(o) == Keep(Chanlist[o], {c \in Range(channels) : ~onchannel(o, chan[c])})
<1>1. ASSUME NEW o \in Objects PROVE K(o) = <<>>
  <2> DEFINE S == {c \in Range(channels) : ~onchannel(o, chan[c])}
  <2>1. Chanlist[o] \in Seq(Chans)
    BY DEF ChatInv, CoreType
  <2>2. K(o) \in Seq(Chans) /\ Range(K(o)) = Range(Chanlist[o]) \cap S
    <3> HIDE DEF S
    <3>1. Keep(Chanlist[o], S) \in Seq(Chans)
          /\ Range(Keep(Chanlist[o], S)) = Range(Chanlist[o]) \cap S
      BY <2>1, KeepFacts
    <3> QED BY <3>1 DEF S
  <2>3. Range(Chanlist[o]) \subseteq Chans
    BY <2>1 DEF Range
  <2>4. \A c \in Range(Chanlist[o]) : onchannel(o, chan[c])
    BY <2>3, Members
  <2>5. Range(Chanlist[o]) \cap S = {}
    BY <2>4
  <2> HIDE DEF K, S
  <2>6. Len(K(o)) = 0
    <3>1. Len(K(o)) \in Nat /\ DOMAIN K(o) = 1..Len(K(o))
      BY <2>2
    <3>2. ASSUME Len(K(o)) # 0 PROVE K(o)[1] \in Range(K(o))
      BY <3>1, <3>2 DEF Range
    <3> QED BY <2>2, <2>5, <3>2
  <2> QED BY <2>2, <2>6
<1>2. ListsWithout(gone) = [o \in Objects |-> IF o \in gone THEN K(o) ELSE Chanlist[o]]
  BY DEF ListsWithout
<1> HIDE DEF K
<1>3. \A o \in Objects : Chanlist[o] \in Seq(Chans)
  BY DEF ChatInv, CoreType
<1>4. <<>> \in Seq(Chans)
  OBVIOUS
<1> QED BY <1>1, <1>2, <1>3, <1>4

\* Deposits are held when those who remain keep their purses and prices, and
\* every channel has an owner that exists.
LEMMA DepositsFrom ==
  ASSUME ChatInv, ChannelsListed',
         \A p \in Players \ {God} : owner'[p] # NOTHING =>
            /\ owner[p] # NOTHING /\ pennies'[p] = pennies[p]
            /\ \A c \in Chans : Price(chan'[c], p) = Price(chan[c], p),
         \A c \in Chans : chan'[c] # NOTHING => owner'[chan'[c].creator] # NOTHING
  PROVE  DepositsHeld'
<1>1. ASSUME NEW p \in Players \ {God}, owner'[p] # NOTHING
      PROVE  pennies'[p] + Deposit(p)' = InitPennies
  <2>1. \A c \in Chans : Price(chan'[c], p) = Price(chan[c], p)
    BY <1>1
  <2>2. /\ Paid(p)' = [c \in Chans |-> Price(chan'[c], p)]
        /\ Paid(p) = [c \in Chans |-> Price(chan[c], p)]
    BY DEF Paid, Price
  <2>3. Paid(p)' = Paid(p)
    BY <2>1, <2>2
  <2>4. Deposit(p)' = Deposit(p)
    BY <2>3 DEF Deposit
  <2> QED BY <1>1, <2>4 DEF ChatInv, DepositsHeld, IsLive
<1>2. \A c \in Range(channels') : owner'[chan'[c].creator] # NOTHING
  BY DEF ChannelsListed
<1> QED BY <1>1, <1>2 DEF DepositsHeld, IsLive

\* The objects of gone are destroyed.
LEMMA DestroyFacts ==
  ASSUME ChatInv, NEW gone, gone \subseteq Objects, NEW chans, SameButOwner(chans),
         chan' = remove_all_obj_chan(chans, gone), Chanlist' = ListsWithout(gone),
         \A o \in Objects : o \notin gone /\ owner[o] # NOTHING => owner'[o] # NOTHING,
         channels' = channels, num_channels' = num_channels
  PROVE  /\ chan' \in [Chans -> Channel \cup {NOTHING}] /\ Chanlist' \in [Objects -> Seq(Chans)]
         /\ ChannelsListed' /\ MembersAgree' /\ BuffersOk'
         /\ \A c \in Chans : chan'[c] = NOTHING <=> chan[c] = NOTHING
         /\ \A c \in Chans : chan[c] # NOTHING => /\ chan'[c].creator = chans[c].creator
                                                  /\ chan'[c].cost = chans[c].cost
<1>1. /\ chan' \in [Chans -> Channel \cup {NOTHING}]
      /\ \A c \in Chans : chan[c] = NOTHING => chan'[c] = NOTHING
      /\ \A c \in Chans : chan[c] # NOTHING => Left(chan'[c], chans[c], gone)
  BY RemovedFacts
<1>2. /\ Chanlist' \in [Objects -> Seq(Chans)]
      /\ \A o \in Objects : o \in gone => Chanlist'[o] = <<>>
      /\ \A o \in Objects : o \notin gone => Chanlist'[o] = Chanlist[o]
  BY ListsWithoutFacts
<1>3. \A c \in Chans : chan'[c] = NOTHING <=> chan[c] = NOTHING
  BY <1>1, ObjectFacts DEF Left
<1>4. \A c \in Chans : chan[c] # NOTHING => /\ chan'[c].creator = chans[c].creator
                                            /\ chan'[c].cost = chans[c].cost
  BY <1>1 DEF Left
<1>5. ChannelsListed'
  <2>1. \A c \in Chans : chan[c] # NOTHING => chan'[c].name = chan[c].name
    BY <1>1 DEF Left, SameButOwner
  <2> QED BY <1>3, <2>1, KeepsListed DEF SameNames
<1>6. BuffersOk'
  <2>1. \A c \in Chans : chan[c] # NOTHING => chan'[c].bufferq = chan[c].bufferq
    BY <1>1 DEF Left, SameButOwner
  <2> QED BY <1>3, <2>1, KeepsBuffers DEF SameBuffers
<1>7. MembersAgree'
  <2>0. Range(<<>>) = {} /\ IsInjective(<<>>)
    BY DEF Range, IsInjective
  <2>1. ASSUME NEW c \in Chans, NEW o \in Objects
        PROVE  (chan'[c] # NOTHING /\ onchannel(o, chan'[c])) <=> (c \in Range(Chanlist'[o]))
    <3>1. (chan[c] # NOTHING /\ onchannel(o, chan[c])) <=> (c \in Range(Chanlist[o]))
      BY Members
    <3>2. chan[c] # NOTHING => Range(chan'[c].users) = Range(chan[c].users) \ gone
      BY <1>1 DEF Left, SameButOwner
    <3>3. CASE o \in gone
      BY <1>2, <1>3, <2>0, <3>2, <3>3 DEF onchannel
    <3>4. CASE o \notin gone
      BY <1>2, <1>3, <3>1, <3>2, <3>4 DEF onchannel
    <3> QED BY <3>3, <3>4
  <2>2. ASSUME NEW o \in Objects
        PROVE  IsInjective(Chanlist'[o]) /\ (Chanlist'[o] # <<>> => owner'[o] # NOTHING)
    <3>1. CASE o \in gone
      BY <1>2, <2>0, <3>1
    <3>2. CASE o \notin gone
      BY <1>2, <3>2, Members
    <3> QED BY <3>1, <3>2
  <2>3. \A c \in Chans : chan'[c] # NOTHING => /\ IsInjective(chan'[c].users)
                                               /\ chan'[c].num_users = Len(chan'[c].users)
    BY <1>1, <1>3 DEF Left
  <2> QED BY <1>5, <2>1, <2>2, <2>3, MembersFrom
<1> QED BY <1>1, <1>2, <1>3, <1>4, <1>5, <1>6, <1>7

\* A destroyed thing leaves its channels and its mogrifying behind.
LEMMA DestroyThingStep ==
  ASSUME ChatInv, NEW t \in Things, DestroyThing(t)
  PROVE  ChatInv'
<1>1. /\ Idle /\ chan' = remove_all_obj_chan(chan, {t}) /\ Chanlist' = ListsWithout({t})
      /\ owner' = [owner EXCEPT ![t] = NOTHING] /\ pennies' = pennies
      /\ channels' = channels /\ num_channels' = num_channels /\ UNCHANGED <<stack, message>>
  BY DEF DestroyThing
<1>2. /\ owner \in [Objects -> Players \cup {NOTHING}] /\ t \in Objects /\ t \notin Players
  BY ObjectFacts DEF ChatInv, CoreType
<1>3. /\ owner' \in [Objects -> Players \cup {NOTHING}] /\ owner'[t] = NOTHING
      /\ \A o \in Objects : o # t => owner'[o] = owner[o]
      /\ \A p \in Players : owner'[p] = owner[p]
  <2>1. /\ owner' \in [Objects -> Players \cup {NOTHING}] /\ owner'[t] = NOTHING
        /\ \A o \in Objects : o # t => owner'[o] = owner[o]
    BY <1>1, <1>2
  <2> QED BY <1>2, <2>1, ObjectFacts
<1>4. SameButOwner(chan) /\ {t} \subseteq Objects
  BY <1>2 DEF SameButOwner, ChatInv, CoreType
<1>5. \A o \in Objects : o \notin {t} /\ owner[o] # NOTHING => owner'[o] # NOTHING
  BY <1>3
<1>6. /\ chan' \in [Chans -> Channel \cup {NOTHING}] /\ Chanlist' \in [Objects -> Seq(Chans)]
      /\ ChannelsListed' /\ MembersAgree' /\ BuffersOk'
      /\ \A c \in Chans : chan'[c] = NOTHING <=> chan[c] = NOTHING
      /\ \A c \in Chans : chan[c] # NOTHING => /\ chan'[c].creator = chan[c].creator
                                               /\ chan'[c].cost = chan[c].cost
  <2> DEFINE gone == {t}
             chans == chan
  <2> HIDE DEF gone, chans
  <2>1. /\ gone \subseteq Objects /\ chan' = remove_all_obj_chan(chans, gone)
        /\ Chanlist' = ListsWithout(gone) /\ SameButOwner(chans)
        /\ channels' = channels /\ num_channels' = num_channels
        /\ \A o \in Objects : o \notin gone /\ owner[o] # NOTHING => owner'[o] # NOTHING
    BY <1>1, <1>4, <1>5 DEF gone, chans
  <2>2. /\ chan' \in [Chans -> Channel \cup {NOTHING}] /\ Chanlist' \in [Objects -> Seq(Chans)]
        /\ ChannelsListed' /\ MembersAgree' /\ BuffersOk'
        /\ \A c \in Chans : chan'[c] = NOTHING <=> chan[c] = NOTHING
        /\ \A c \in Chans : chan[c] # NOTHING => /\ chan'[c].creator = chans[c].creator
                                                 /\ chan'[c].cost = chans[c].cost
    BY <2>1, DestroyFacts
  <2> QED BY <2>2 DEF chans
<1>7. CoreType' /\ CallsOk'
  BY <1>1, <1>3, <1>6, KeepsCalls DEF ChatInv, CoreType
<1>8. OwnersLive'
  <2>1. /\ owner[God] = God /\ \A p \in Players : owner[p] \in {p, NOTHING}
        /\ \A o \in Objects : owner[o] # NOTHING => owner[owner[o]] # NOTHING
    BY DEF ChatInv, OwnersLive
  <2>2. ASSUME NEW o \in Objects, owner'[o] # NOTHING PROVE owner'[owner'[o]] # NOTHING
    <3>1. o # t /\ owner'[o] = owner[o] /\ owner[o] \in Players
      BY <1>2, <1>3, <2>2
    <3> QED BY <1>3, <2>1, <2>2, <3>1
  <2> QED BY <1>3, <2>1, <2>2, ObjectFacts DEF OwnersLive
<1>9. DepositsHeld'
  <2>1. \A c \in Chans, p \in Players : Price(chan'[c], p) = Price(chan[c], p)
    BY <1>6 DEF Price
  <2>2. ASSUME NEW c \in Chans, chan'[c] # NOTHING PROVE owner'[chan'[c].creator] # NOTHING
    <3>1. /\ chan[c] # NOTHING /\ chan[c] \in Channel /\ c \in Range(channels)
      BY <1>6, <2>2, ChannelFacts
    <3>2. chan'[c].creator = chan[c].creator /\ chan[c].creator \in Players
      BY <1>6, <3>1 DEF Channel
    <3>3. owner[chan[c].creator] # NOTHING
      BY <3>1 DEF ChatInv, DepositsHeld, IsLive
    <3> QED BY <1>3, <3>2, <3>3
  <2> QED BY <1>1, <1>3, <1>6, <2>1, <2>2, DepositsFrom
<1> QED BY <1>6, <1>7, <1>8, <1>9 DEF ChatInv

\* The channels of p go to God.
LEMMA ChownedFacts ==
  ASSUME ChatInv, NEW p \in Players
  PROVE  LET chans == chan_chownall(chan, p, God)
         IN  /\ SameButOwner(chans)
             /\ \A c \in Chans : chan[c] # NOTHING =>
                  \/ chan[c].creator = p /\ chans[c].creator = God /\ chans[c].cost = 0
                  \/ chan[c].creator # p /\ chans[c] = chan[c]
<1> DEFINE chans == chan_chownall(chan, p, God)
<1>1. /\ SameButOwner(chans)
      /\ \A c \in Chans : chan[c] # NOTHING => \/ /\ chan[c].creator = p /\ chans[c].creator = God
                                                  /\ chans[c].cost = 0
                                               \/ chan[c].creator # p /\ chans[c] = chan[c]
  <2> DEFINE X(c) == IF chan[c] # NOTHING /\ chan[c].creator = p THEN chan_chown(chan[c], God)
                     ELSE chan[c]
  <2>1. chans = [c \in Chans |-> X(c)]
    BY DEF chan_chownall
  <2>2. ASSUME NEW c \in Chans
        PROVE  /\ X(c) \in Channel \cup {NOTHING} /\ (X(c) = NOTHING <=> chan[c] = NOTHING)
               /\ chan[c] # NOTHING =>
                    /\ X(c).name = chan[c].name /\ X(c).bufferq = chan[c].bufferq
                    /\ X(c).users = chan[c].users /\ X(c).num_users = chan[c].num_users
                    /\ \/ chan[c].creator = p /\ X(c).creator = God /\ X(c).cost = 0
                       \/ chan[c].creator # p /\ X(c) = chan[c]
    <3>1. chan[c] \in Channel \cup {NOTHING}
      BY DEF ChatInv, CoreType
    <3>2. CASE chan[c] # NOTHING /\ chan[c].creator = p
      <4> DEFINE a == chan[c]
                 b == chan_chown(a, God)
      <4>1. a \in Channel /\ X(c) = b
        BY <3>1, <3>2
      <4> HIDE DEF a, X
      <4>2. /\ b \in Channel /\ b.name = a.name /\ b.bufferq = a.bufferq
            /\ b.users = a.users /\ b.num_users = a.num_users /\ b.creator = God /\ b.cost = 0
        BY <4>1, ObjectFacts DEF chan_chown, Channel
      <4> HIDE DEF b
      <4> QED BY <3>2, <4>1, <4>2, ObjectFacts DEF a
    <3>3. CASE ~(chan[c] # NOTHING /\ chan[c].creator = p)
      <4>1. X(c) = chan[c]
        BY <3>3
      <4> HIDE DEF X
      <4> QED BY <3>1, <3>3, <4>1
    <3> QED BY <3>2, <3>3
  <2> HIDE DEF X, chans
  <2>3. \A c \in Chans : chans[c] = X(c)
    BY <2>1
  <2>4. chans \in [Chans -> Channel \cup {NOTHING}]
    BY <2>1, <2>2
  <2> QED BY <2>2, <2>3, <2>4 DEF SameButOwner
<1> QED BY <1>1 DEF chans

\* A destroyed player's channels and spared things go to someone who exists.
LEMMA DestroyPlayerStep ==
  ASSUME ChatInv, NEW p \in Players, NEW spared \in SUBSET Things, DestroyPlayer(p, spared)
  PROVE  ChatInv'
<1> DEFINE gone == {p} \cup ({t \in Things : owner[t] = p} \ spared)
           chans == chan_chownall(chan, p, God)
<1>1. /\ Idle /\ owner[p] # NOTHING /\ p # God
      /\ chan' = remove_all_obj_chan(chans, gone) /\ Chanlist' = ListsWithout(gone)
      /\ owner' = [o \in Objects |-> IF o \in gone THEN NOTHING
                                     ELSE IF owner[o] = p THEN God ELSE owner[o]]
      /\ pennies' = [pennies EXCEPT ![p] = 0]
      /\ channels' = channels /\ num_channels' = num_channels /\ UNCHANGED <<stack, message>>
  BY DEF DestroyPlayer, IsLive
<1>2. /\ gone \subseteq Objects /\ p \in gone /\ \A q \in Players : q \in gone => q = p
      /\ God \notin gone
  BY <1>1, ObjectFacts
<1>3. /\ owner \in [Objects -> Players \cup {NOTHING}] /\ pennies \in [Players -> Nat]
      /\ owner[God] = God /\ \A q \in Players : owner[q] \in {q, NOTHING}
      /\ \A o \in Objects : owner[o] # NOTHING => owner[owner[o]] # NOTHING
  BY DEF ChatInv, CoreType, OwnersLive
<1>4. /\ SameButOwner(chans)
      /\ \A c \in Chans : chan[c] # NOTHING => \/ /\ chan[c].creator = p /\ chans[c].creator = God
                                                  /\ chans[c].cost = 0
                                               \/ chan[c].creator # p /\ chans[c] = chan[c]
  BY ChownedFacts
<1> HIDE DEF gone, chans
<1>5. /\ owner' \in [Objects -> Players \cup {NOTHING}]
      /\ \A o \in Objects : owner'[o] = IF o \in gone THEN NOTHING
                                        ELSE IF owner[o] = p THEN God ELSE owner[o]
  BY <1>1, <1>3, ObjectFacts
<1>6. /\ owner'[p] = NOTHING /\ owner'[God] = God
      /\ \A q \in Players : q # p => owner'[q] = owner[q]
  <2>1. owner'[p] = NOTHING /\ owner'[God] = God
    BY <1>1, <1>2, <1>3, <1>5, ObjectFacts
  <2>2. ASSUME NEW q \in Players, q # p PROVE owner'[q] = owner[q]
    <3>1. q \in Objects /\ q \notin gone /\ owner[q] # p
      BY <1>2, <1>3, <2>2, ObjectFacts
    <3> QED BY <1>5, <3>1
  <2> QED BY <2>1, <2>2
<1>7. ASSUME NEW o \in Objects, o \notin gone, owner[o] # NOTHING PROVE owner'[o] # NOTHING
  BY <1>5, <1>7, ObjectFacts
<1>8. /\ chan' \in [Chans -> Channel \cup {NOTHING}] /\ Chanlist' \in [Objects -> Seq(Chans)]
      /\ ChannelsListed' /\ MembersAgree' /\ BuffersOk'
      /\ \A c \in Chans : chan'[c] = NOTHING <=> chan[c] = NOTHING
      /\ \A c \in Chans : chan[c] # NOTHING => /\ chan'[c].creator = chans[c].creator
                                               /\ chan'[c].cost = chans[c].cost
  BY <1>1, <1>2, <1>4, <1>7, DestroyFacts
<1>9. pennies' \in [Players -> Nat] /\ \A q \in Players : q # p => pennies'[q] = pennies[q]
  BY <1>1, <1>3
<1>10. CoreType' /\ CallsOk'
  BY <1>1, <1>5, <1>8, <1>9, KeepsCalls DEF ChatInv, CoreType
<1>11. OwnersLive'
  <2>1. \A q \in Players : owner'[q] \in {q, NOTHING}
    BY <1>3, <1>6
  <2>2. ASSUME NEW o \in Objects, owner'[o] # NOTHING PROVE owner'[owner'[o]] # NOTHING
    <3>1. o \notin gone
      BY <1>5, <2>2
    <3>2. CASE owner[o] = p
      BY <1>5, <1>6, <3>1, <3>2, ObjectFacts
    <3>3. CASE owner[o] # p
      <4>1. owner'[o] = owner[o] /\ owner[o] \in Players
        BY <1>3, <1>5, <2>2, <3>1, <3>3
      <4>2. owner'[owner[o]] = owner[owner[o]]
        BY <1>6, <3>3, <4>1
      <4> QED BY <1>3, <2>2, <4>1, <4>2
    <3> QED BY <3>2, <3>3
  <2> QED BY <1>6, <2>1, <2>2 DEF OwnersLive
<1>12. DepositsHeld'
  <2>1. ASSUME NEW q \in Players \ {God}, owner'[q] # NOTHING
        PROVE  /\ owner[q] # NOTHING /\ pennies'[q] = pennies[q]
               /\ \A c \in Chans : Price(chan'[c], q) = Price(chan[c], q)
    <3>1. q # p
      BY <1>6, <2>1
    <3>2. ASSUME NEW c \in Chans PROVE Price(chan'[c], q) = Price(chan[c], q)
      <4>1. CASE chan[c] = NOTHING
        BY <1>8, <4>1 DEF Price
      <4>2. CASE chan[c] # NOTHING /\ chan[c].creator = p
        <5>1. chan'[c].creator = God
          BY <1>4, <1>8, <4>2
        <5> QED BY <3>1, <4>2, <5>1 DEF Price
      <4>3. CASE chan[c] # NOTHING /\ chan[c].creator # p
        <5>1. chans[c] = chan[c] /\ chan'[c] # NOTHING
          BY <1>4, <1>8, <4>3
        <5>2. chan'[c].creator = chan[c].creator /\ chan'[c].cost = chan[c].cost
          BY <1>8, <4>3, <5>1
        <5> QED BY <4>3, <5>1, <5>2 DEF Price
      <4> QED BY <4>1, <4>2, <4>3
    <3> QED BY <1>6, <1>9, <2>1, <3>1, <3>2
  <2>2. ASSUME NEW c \in Chans, chan'[c] # NOTHING PROVE owner'[chan'[c].creator] # NOTHING
    <3>1. /\ chan[c] # NOTHING /\ chan[c] \in Channel /\ c \in Range(channels)
      BY <1>8, <2>2, ChannelFacts
    <3>2. owner[chan[c].creator] # NOTHING /\ chan[c].creator \in Players
      BY <3>1 DEF ChatInv, DepositsHeld, IsLive, Channel
    <3>3. CASE chan[c].creator = p
      <4>1. chan'[c].creator = God
        BY <1>4, <1>8, <3>1, <3>3
      <4> QED BY <1>6, <4>1, ObjectFacts
    <3>4. CASE chan[c].creator # p
      <4>1. chans[c] = chan[c]
        BY <1>4, <3>1, <3>4
      <4>2. chan'[c].creator = chan[c].creator
        BY <1>8, <3>1, <4>1
      <4> QED BY <1>6, <3>2, <3>4, <4>2
    <3> QED BY <3>3, <3>4
  <2> QED BY <1>8, <2>1, <2>2, DepositsFrom
<1> QED BY <1>8, <1>10, <1>11, <1>12 DEF ChatInv

\* A thing with a dbref that was destroyed starts on no channel.
LEMMA CreateThingStep ==
  ASSUME ChatInv, NEW t \in Things, NEW p \in Players, CreateThing(t, p)
  PROVE  ChatInv'
<1>1. /\ Idle /\ owner[p] # NOTHING /\ owner[t] = NOTHING /\ owner' = [owner EXCEPT ![t] = p]
      /\ pennies' = pennies /\ chan' = chan /\ channels' = channels
      /\ num_channels' = num_channels /\ Chanlist' = Chanlist /\ UNCHANGED <<stack, message>>
  BY DEF CreateThing, IsLive
<1>2. owner \in [Objects -> Players \cup {NOTHING}] /\ t \in Objects /\ t \notin Players
  BY ObjectFacts DEF ChatInv, CoreType
<1>3. /\ owner' \in [Objects -> Players \cup {NOTHING}] /\ owner'[t] = p
      /\ \A o \in Objects : o # t => owner'[o] = owner[o]
      /\ \A q \in Players : owner'[q] = owner[q]
  <2>1. /\ owner' \in [Objects -> Players \cup {NOTHING}] /\ owner'[t] = p
        /\ \A o \in Objects : o # t => owner'[o] = owner[o]
    BY <1>1, <1>2
  <2> QED BY <1>2, <2>1, ObjectFacts
<1>4. CoreType' /\ CallsOk' /\ BuffersOk'
  BY <1>1, <1>3, KeepsCalls DEF ChatInv, CoreType, BuffersOk
<1>5. ChannelsListed'
  BY <1>1, KeepsListed DEF SameNames
<1>6. OwnersLive'
  <2>1. /\ owner[God] = God /\ \A q \in Players : owner[q] \in {q, NOTHING}
        /\ \A o \in Objects : owner[o] # NOTHING => owner[owner[o]] # NOTHING
    BY DEF ChatInv, OwnersLive
  <2>2. ASSUME NEW o \in Objects, owner'[o] # NOTHING PROVE owner'[owner'[o]] # NOTHING
    <3>1. CASE o = t
      BY <1>1, <1>3, <3>1
    <3>2. CASE o # t
      <4>1. owner'[o] = owner[o] /\ owner[o] \in Players
        BY <1>2, <1>3, <2>2, <3>2
      <4> QED BY <1>3, <2>1, <2>2, <4>1
    <3> QED BY <3>1, <3>2
  <2> QED BY <1>3, <2>1, <2>2, ObjectFacts DEF OwnersLive
<1>7. MembersAgree'
  <2>1. \A o \in Objects : owner[o] # NOTHING => owner'[o] # NOTHING
    BY <1>1, <1>3, ObjectFacts
  <2> QED BY <1>1, <1>5, <2>1, Members, MembersFrom
<1>8. DepositsHeld'
  <2>1. \A c \in Chans, q \in Players : Price(chan'[c], q) = Price(chan[c], q)
    BY <1>1
  <2>2. ASSUME NEW c \in Chans, chan'[c] # NOTHING PROVE owner'[chan'[c].creator] # NOTHING
    <3>1. chan[c] # NOTHING /\ chan[c] \in Channel /\ c \in Range(channels)
      BY <1>1, <2>2, ChannelFacts
    <3>2. owner[chan[c].creator] # NOTHING /\ chan[c].creator \in Players
      BY <3>1 DEF ChatInv, DepositsHeld, IsLive, Channel
    <3> QED BY <1>1, <1>3, <3>2
  <2> QED BY <1>1, <1>3, <1>5, <2>1, <2>2, DepositsFrom
<1> QED BY <1>4, <1>5, <1>6, <1>7, <1>8 DEF ChatInv

-----------------------------------------------------------------------------
\* What is loaded again.

\* What n steps of G make of base.
Chained(F, A, n, base, G) ==
  F \in [0..n -> A] /\ F[0] = base /\ \A i \in 1..n : F[i] = G[i][F[i - 1]]

\* A loop over a list has a result, by induction on the iterations.
LEMMA ChainExists ==
  ASSUME NEW n \in Nat, NEW A, NEW base \in A, NEW G \in [1..n -> [A -> A]]
  PROVE  \E F : Chained(F, A, n, base, G)
<1> DEFINE S == {m \in 0..n : \E F : Chained(F, A, m, base, G)}
<1>1. 0 \in S
  <2> DEFINE F == [i \in 0..0 |-> base]
  <2>1. Chained(F, A, 0, base, G)
    BY DEF Chained
  <2> QED BY <2>1
<1>2. ASSUME NEW m \in 1..n, m - 1 \in S PROVE m \in S
  <2>1. PICK F : Chained(F, A, m - 1, base, G)
    BY <1>2
  <2> DEFINE H == [i \in 0..m |-> IF i = m THEN G[m][F[m - 1]] ELSE F[i]]
  <2>2. /\ F \in [0..(m - 1) -> A] /\ F[0] = base
        /\ \A i \in 1..(m - 1) : F[i] = G[i][F[i - 1]]
    BY <2>1 DEF Chained
  <2>3. m - 1 \in 0..(m - 1) /\ m \in Nat /\ m # 0
    OBVIOUS
  <2>4. G[m][F[m - 1]] \in A
    BY <2>2, <2>3
  <2>5. \A i \in 0..m : i # m => i \in 0..(m - 1)
    OBVIOUS
  <2>6. H \in [0..m -> A]
    BY <2>2, <2>4, <2>5
  <2>7. H[0] = base
    BY <2>2, <2>3
  <2>8. ASSUME NEW i \in 1..m PROVE H[i] = G[i][H[i - 1]]
    <3>1. i \in 0..m /\ i - 1 \in 0..m /\ i - 1 # m
      OBVIOUS
    <3>2. H[i - 1] = F[i - 1]
      BY <3>1
    <3>3. CASE i = m
      BY <3>1, <3>2, <3>3
    <3>4. CASE i # m
      <4>1. i \in 1..(m - 1)
        BY <3>4
      <4>2. H[i] = F[i]
        BY <3>1, <3>4
      <4> QED BY <2>2, <3>2, <4>1, <4>2
    <3> QED BY <3>3, <3>4
  <2> HIDE DEF H
  <2>9. Chained(H, A, m, base, G)
    BY <2>6, <2>7, <2>8 DEF Chained
  <2> QED BY <2>9
<1>3. n \in S
  <2> HIDE DEF S
  <2>1. \A i \in 0..n : i \in S
    BY <1>1, <1>2, UpTo
  <2> QED BY <2>1
<1> QED BY <1>3

\* Insertions give lists, whatever the names.
LEMMA InsertTypes ==
  /\ \A u \in Seq(Objects), o \in Objects : insert_user(u, o) \in Seq(Objects)
  /\ \A l \in Seq(Chans), c \in Chans : \A name : insert_channel(l, c, name) \in Seq(Chans)
  /\ \A l \in Seq(Chans), c \in Chans : \A name : insert_obj_chan(l, c, name) \in Seq(Chans)
<1>1. ASSUME NEW T, NEW s \in Seq(T), NEW e \in T, NEW stops
      PROVE  InsertAt(s, Place(s, stops), e) \in Seq(T)
  <2> DEFINE p == Place(s, stops)
  <2>1. p \in 1..(Len(s) + 1)
    BY PlaceFacts
  <2> HIDE DEF p
  <2>2. Insert(s, p, e) \in Seq(T)
    BY <2>1, InsertFacts
  <2> QED BY <2>2 DEF InsertAt, Insert, p
<1>2. ASSUME NEW u \in Seq(Objects), NEW o \in Objects PROVE insert_user(u, o) \in Seq(Objects)
  BY <1>1 DEF insert_user
<1>3. ASSUME NEW l \in Seq(Chans), NEW c \in Chans, NEW name
      PROVE  insert_channel(l, c, name) \in Seq(Chans)
  BY <1>1 DEF insert_channel
<1>4. ASSUME NEW l \in Seq(Chans), NEW c \in Chans, NEW name
      PROVE  insert_obj_chan(l, c, name) \in Seq(Chans)
  BY <1>1 DEF insert_obj_chan
<1> QED BY <1>2, <1>3, <1>4

\* The members that are linked in again, one after the other.
LEMMA UsersLoaded ==
  ASSUME NEW saved \in Seq(Objects), IsInjective(saved), NEW f,
         f = [i \in 0..Len(saved) |->
               IF i = 0 THEN <<>> ELSE insert_user(f[i - 1], saved[i])]
  PROVE  LET u == f[Len(saved)]
         IN  u \in Seq(Objects) /\ IsInjective(u) /\ Range(u) = Range(saved)
<1> DEFINE n == Len(saved)
           S == {i \in 0..n : /\ f[i] \in Seq(Objects) /\ IsInjective(f[i])
                              /\ Range(f[i]) = {saved[j] : j \in 1..i}}
<1>0. n \in Nat /\ DOMAIN saved = 1..n /\ \A i \in 1..n : saved[i] \in Objects
  OBVIOUS
<1>1. f[0] = <<>> /\ \A i \in 1..n : f[i] = insert_user(f[i - 1], saved[i])
  <2>1. 0 \in 0..n /\ \A i \in 1..n : i \in 0..n /\ i # 0
    BY <1>0
  <2> HIDE DEF n
  <2>2. \A i \in 0..n : f[i] = IF i = 0 THEN <<>> ELSE insert_user(f[i - 1], saved[i])
    BY DEF n
  <2> QED BY <2>1, <2>2
<1>2. 0 \in S
  <2>1. <<>> \in Seq(Objects) /\ IsInjective(<<>>) /\ Range(<<>>) = {}
    BY DEF IsInjective, Range
  <2>2. {saved[j] : j \in 1..0} = {}
    OBVIOUS
  <2> QED BY <1>0, <1>1, <2>1, <2>2
<1>3. ASSUME NEW i \in 1..n, i - 1 \in S PROVE i \in S
  <2> DEFINE u == f[i - 1]
             o == saved[i]
  <2>1. /\ u \in Seq(Objects) /\ IsInjective(u) /\ Range(u) = {saved[j] : j \in 1..(i - 1)}
        /\ o \in Objects /\ f[i] = insert_user(u, o)
    BY <1>0, <1>1, <1>3
  <2>2. o \notin Range(u)
    <3>1. ASSUME NEW j \in 1..(i - 1) PROVE saved[j] # saved[i]
      <4>1. j \in DOMAIN saved /\ i \in DOMAIN saved /\ j # i
        BY <1>0
      <4> QED BY <4>1 DEF IsInjective
    <3> QED BY <2>1, <3>1
  <2> HIDE DEF u, o
  <2>3. /\ f[i] \in Seq(Objects) /\ IsInjective(f[i]) /\ Range(f[i]) = Range(u) \cup {o}
    BY <2>1, <2>2, UserInserted
  <2>4. {saved[j] : j \in 1..i} = {saved[j] : j \in 1..(i - 1)} \cup {saved[i]}
    <3>1. 1..i = (1..(i - 1)) \cup {i}
      BY <1>0
    <3> QED BY <3>1
  <2>5. Range(f[i]) = {saved[j] : j \in 1..i}
    BY <2>1, <2>3, <2>4, Zenon DEF o
  <2>6. i \in 0..n
    BY <1>0
  <2> HIDE DEF n
  <2> QED BY <2>3, <2>5, <2>6
<1>4. n \in S
  <2> HIDE DEF S
  <2>1. \A i \in 0..n : i \in S
    BY <1>0, <1>2, <1>3, UpTo
  <2> QED BY <1>0, <2>1
<1>5. Range(saved) = {saved[j] : j \in 1..n}
  BY <1>0 DEF Range
<1> QED BY <1>4, <1>5

\* The members that are loaded are the saved ones that the type allows.
LEMMA LoadedUsersFacts ==
  ASSUME NEW ch, ch.users \in Seq(Objects), IsInjective(ch.users)
  PROVE  /\ LoadedUsers(ch) \in Seq(Objects) /\ IsInjective(LoadedUsers(ch))
         /\ Range(LoadedUsers(ch)) = Range(ch.users) \cap {o \in Objects : ChanOkType(ch, o)}
<1> DEFINE S == {o \in Objects : ChanOkType(ch, o)}
           saved == Keep(ch.users, S)
           n == Len(saved)
           f == CHOOSE f : f = [i \in 0..n |->
                                 IF i = 0 THEN <<>> ELSE insert_user(f[i - 1], saved[i])]
<1>1. LoadedUsers(ch) = f[n]
  BY DEF LoadedUsers
<1>2. saved \in Seq(Objects) /\ IsInjective(saved) /\ Range(saved) = Range(ch.users) \cap S
  <2> HIDE DEF S
  <2> QED BY KeepFacts
<1> HIDE DEF saved
<1>3. n \in Nat /\ \A i \in 1..n : saved[i] \in Objects
  BY <1>2
<1> HIDE DEF n
<1>4. \E g : g = [i \in 0..n |-> IF i = 0 THEN <<>> ELSE insert_user(g[i - 1], saved[i])]
  <2> DEFINE A == Seq(Objects)
             G == [i \in 1..n |-> [u \in A |-> insert_user(u, saved[i])]]
             e == <<>>
  <2>1. e \in A
    OBVIOUS
  <2>2. G \in [1..n -> [A -> A]]
    BY <1>3, InsertTypes
  <2>3. PICK F : Chained(F, A, n, e, G)
    <3> HIDE DEF A, G, e
    <3> QED BY <1>3, <2>1, <2>2, ChainExists
  <2>4. F \in [0..n -> A] /\ F[0] = e /\ \A i \in 1..n : F[i] = G[i][F[i - 1]]
    <3> HIDE DEF A, G, e
    <3> QED BY <2>3 DEF Chained
  <2>5. ASSUME NEW i \in 0..n
        PROVE  F[i] = IF i = 0 THEN <<>> ELSE insert_user(F[i - 1], saved[i])
    <3>1. CASE i = 0
      BY <2>4, <3>1
    <3>2. CASE i # 0
      <4>1. i \in 1..n /\ i - 1 \in 0..n
        BY <1>3, <3>2
      <4>2. F[i - 1] \in A
        <5> HIDE DEF A
        <5> QED BY <2>4, <4>1
      <4> HIDE DEF A
      <4> QED BY <2>4, <3>2, <4>1, <4>2
    <3> QED BY <3>1, <3>2
  <2>6. F = [i \in 0..n |-> IF i = 0 THEN <<>> ELSE insert_user(F[i - 1], saved[i])]
    <3>1. F = [i \in 0..n |-> F[i]]
      <4> HIDE DEF A, G, e
      <4> QED BY <2>4
    <3> HIDE DEF A, G, e
    <3> QED BY <2>5, <3>1
  <2> QED BY <2>6
<1>5. f = [i \in 0..n |-> IF i = 0 THEN <<>> ELSE insert_user(f[i - 1], saved[i])]
  BY <1>4
<1> HIDE DEF f
<1>6. f[n] \in Seq(Objects) /\ IsInjective(f[n]) /\ Range(f[n]) = Range(saved)
  <2>1. f = [i \in 0..Len(saved) |-> IF i = 0 THEN <<>> ELSE insert_user(f[i - 1], saved[i])]
    BY <1>5 DEF n
  <2> QED BY <1>2, <2>1, UsersLoaded DEF n
<1> QED BY <1>1, <1>2, <1>6

\* A channel is linked in among some of the others.
LEMMA ChannelLinked ==
  ASSUME ChatInv, NEW u \in Seq(Chans), Sorted(u, ChanName), Range(u) \subseteq Range(channels),
         NEW c \in Range(channels), c \notin Range(u)
  PROVE  LET r == insert_channel(u, c, ChanName)
         IN  /\ r \in Seq(Chans) /\ Len(r) = Len(u) + 1 /\ Range(r) = Range(u) \cup {c}
             /\ Sorted(r, ChanName)
<1> DEFINE D == Range(channels)
           name == ChanName
<1>1. /\ name \in [D -> Nat] /\ c \in Chans \cap D
      /\ \A k \in 1..Len(u) : name[u[k]] # name[c]
  <2>1. \A k \in 1..Len(u) : u[k] \in Range(u)
    BY DEF Range
  <2> QED BY <2>1, Listed
<1>2. Range(u) \subseteq D /\ Sorted(u, name)
  OBVIOUS
<1> HIDE DEF D, name
<1>3. /\ insert_channel(u, c, name) \in Seq(Chans)
      /\ Len(insert_channel(u, c, name)) = Len(u) + 1
      /\ Range(insert_channel(u, c, name)) = Range(u) \cup {c}
      /\ Sorted(insert_channel(u, c, name), name)
  BY <1>1, <1>2, ChannelInserted
<1> QED BY <1>3 DEF name

\* The channels that are linked in again, one after the other.
LEMMA ChannelsLoaded ==
  ASSUME ChatInv, NEW f,
         f = [i \in 0..Len(channels) |->
               IF i = 0 THEN <<>> ELSE insert_channel(f[i - 1], channels[i], ChanName)]
  PROVE  LET u == f[Len(channels)]
         IN  /\ u \in Seq(Chans) /\ Len(u) = Len(channels) /\ Range(u) = Range(channels)
             /\ Sorted(u, ChanName)
<1> DEFINE n == Len(channels)
           S == {i \in 0..n : /\ f[i] \in Seq(Chans) /\ Len(f[i]) = i /\ Sorted(f[i], ChanName)
                              /\ Range(f[i]) = {channels[j] : j \in 1..i}}
<1>0. /\ n \in Nat /\ DOMAIN channels = 1..n /\ IsInjective(channels)
      /\ \A i \in 1..n : channels[i] \in Range(channels) /\ channels[i] \in Chans
      /\ ChanName \in [Range(channels) -> Nat]
      /\ \A c, d \in Range(channels) : c # d => ChanName[c] # ChanName[d]
  <2>1. channels \in Seq(Chans)
    BY Listed
  <2>2. n \in Nat /\ DOMAIN channels = 1..n
    BY <2>1
  <2> HIDE DEF n
  <2>3. \A i \in 1..n : channels[i] \in Range(channels) /\ channels[i] \in Chans
    BY <2>1, <2>2, Listed DEF n
  <2> QED BY <2>2, <2>3, Listed
<1>1. f[0] = <<>> /\ \A i \in 1..n : f[i] = insert_channel(f[i - 1], channels[i], ChanName)
  <2>1. 0 \in 0..n /\ \A i \in 1..n : i \in 0..n /\ i # 0
    BY <1>0
  <2> HIDE DEF n
  <2>2. \A i \in 0..n : f[i] = IF i = 0 THEN <<>>
                               ELSE insert_channel(f[i - 1], channels[i], ChanName)
    BY DEF n
  <2> QED BY <2>1, <2>2
<1> HIDE DEF n
<1>2. 0 \in S
  <2>1. <<>> \in Seq(Chans) /\ Len(<<>>) = 0 /\ Range(<<>>) = {}
    BY DEF Range
  <2>2. {channels[j] : j \in 1..0} = {} /\ \A i \in 1..0 : FALSE
    OBVIOUS
  <2>3. Sorted(<<>>, ChanName)
    BY <2>1, <2>2 DEF Sorted
  <2> QED BY <1>0, <1>1, <2>1, <2>2, <2>3
<1>3. ASSUME NEW i \in 1..n, i - 1 \in S PROVE i \in S
  <2> DEFINE u == f[i - 1]
             c == channels[i]
  <2>1. /\ u \in Seq(Chans) /\ Len(u) = i - 1 /\ Sorted(u, ChanName)
        /\ Range(u) = {channels[j] : j \in 1..(i - 1)}
        /\ c \in Chans \cap Range(channels) /\ f[i] = insert_channel(u, c, ChanName)
    BY <1>0, <1>1, <1>3
  <2>2. \A j \in 1..(i - 1) : channels[j] # c /\ channels[j] \in Range(channels)
    <3>1. ASSUME NEW j \in 1..(i - 1) PROVE channels[j] # channels[i] /\ channels[j] \in Range(channels)
      <4>1. j \in 1..n /\ j # i
        BY <1>0
      <4> QED BY <1>0, <4>1 DEF IsInjective
    <3> QED BY <3>1
  <2> HIDE DEF u, c
  <2>3. Range(u) \subseteq Range(channels) /\ c \notin Range(u)
    BY <2>1, <2>2
  <2>5. /\ f[i] \in Seq(Chans) /\ Len(f[i]) = Len(u) + 1 /\ Range(f[i]) = Range(u) \cup {c}
        /\ Sorted(f[i], ChanName)
    <3>1. u \in Seq(Chans) /\ Sorted(u, ChanName) /\ c \in Range(channels)
      BY <2>1
    <3>2. LET r == insert_channel(u, c, ChanName)
          IN  /\ r \in Seq(Chans) /\ Len(r) = Len(u) + 1 /\ Range(r) = Range(u) \cup {c}
              /\ Sorted(r, ChanName)
      BY <2>3, <3>1, ChannelLinked, Zenon
    <3> QED BY <2>1, <3>2, Zenon
  <2>6. {channels[j] : j \in 1..i} = {channels[j] : j \in 1..(i - 1)} \cup {channels[i]}
    <3>1. 1..i = (1..(i - 1)) \cup {i}
      BY <1>0
    <3> QED BY <3>1
  <2>7. Range(f[i]) = {channels[j] : j \in 1..i}
    BY <2>1, <2>5, <2>6, Zenon DEF c
  <2>8. i \in 0..n /\ Len(f[i]) = i
    BY <1>0, <2>1, <2>5
  <2> QED BY <2>5, <2>7, <2>8
<1>4. n \in S
  <2> HIDE DEF S
  <2>1. \A i \in 0..n : i \in S
    BY <1>0, <1>2, <1>3, UpTo
  <2> QED BY <1>0, <2>1
<1>5. Range(channels) = {channels[j] : j \in 1..n}
  BY <1>0 DEF Range
<1> QED BY <1>4, <1>5 DEF n

\* The channels that are loaded are the saved ones, sorted again.
LEMMA LoadedChannelsFacts ==
  ASSUME ChatInv
  PROVE  /\ LoadedChannels \in Seq(Chans) /\ Len(LoadedChannels) = Len(channels)
         /\ Range(LoadedChannels) = Range(channels) /\ Sorted(LoadedChannels, ChanName)
<1> DEFINE n == Len(channels)
           f == CHOOSE f : f = [i \in 0..n |-> IF i = 0 THEN <<>>
                                 ELSE insert_channel(f[i - 1], channels[i], ChanName)]
<1>1. LoadedChannels = f[n]
  BY DEF LoadedChannels
<1>3. n \in Nat /\ \A i \in 1..n : channels[i] \in Chans
  BY Listed
<1> HIDE DEF n
<1>4. \E g : g = [i \in 0..n |-> IF i = 0 THEN <<>>
                                 ELSE insert_channel(g[i - 1], channels[i], ChanName)]
  <2> DEFINE A == Seq(Chans)
             G == [i \in 1..n |-> [u \in A |-> insert_channel(u, channels[i], ChanName)]]
             e == <<>>
  <2>1. e \in A
    OBVIOUS
  <2>2. G \in [1..n -> [A -> A]]
    BY <1>3, InsertTypes
  <2>3. PICK F : Chained(F, A, n, e, G)
    <3> HIDE DEF A, G, e
    <3> QED BY <1>3, <2>1, <2>2, ChainExists
  <2>4. F \in [0..n -> A] /\ F[0] = e /\ \A i \in 1..n : F[i] = G[i][F[i - 1]]
    <3> HIDE DEF A, G, e
    <3> QED BY <2>3 DEF Chained
  <2>5. ASSUME NEW i \in 0..n
        PROVE  F[i] = IF i = 0 THEN <<>> ELSE insert_channel(F[i - 1], channels[i], ChanName)
    <3>1. CASE i = 0
      BY <2>4, <3>1
    <3>2. CASE i # 0
      <4>1. i \in 1..n /\ i - 1 \in 0..n
        BY <1>3, <3>2
      <4>2. F[i - 1] \in A
        <5> HIDE DEF A
        <5> QED BY <2>4, <4>1
      <4> HIDE DEF A
      <4> QED BY <2>4, <3>2, <4>1, <4>2
    <3> QED BY <3>1, <3>2
  <2>6. F = [i \in 0..n |-> IF i = 0 THEN <<>>
                            ELSE insert_channel(F[i - 1], channels[i], ChanName)]
    <3>1. F = [i \in 0..n |-> F[i]]
      <4> HIDE DEF A, G, e
      <4> QED BY <2>4
    <3> HIDE DEF A, G, e
    <3> QED BY <2>5, <3>1
  <2> QED BY <2>6
<1>5. f = [i \in 0..n |-> IF i = 0 THEN <<>>
                          ELSE insert_channel(f[i - 1], channels[i], ChanName)]
  BY <1>4
<1> HIDE DEF f
<1>6. /\ f[n] \in Seq(Chans) /\ Len(f[n]) = n
      /\ Range(f[n]) = Range(channels) /\ Sorted(f[n], ChanName)
  <2>1. f = [i \in 0..Len(channels) |-> IF i = 0 THEN <<>>
                                        ELSE insert_channel(f[i - 1], channels[i], ChanName)]
    BY <1>5 DEF n
  <2> QED BY <2>1, ChannelsLoaded DEF n
<1> QED BY <1>1, <1>6 DEF n

\* f is the list of o after each iteration of the loop over the channels.
ListLoop(f, o, chans) ==
  f = [i \in 0..Len(channels) |->
        IF i = 0 THEN <<>>
        ELSE IF onchannel(o, chans[channels[i]])
        THEN insert_obj_chan(f[i - 1], channels[i], ChanName)
        ELSE f[i - 1]]

\* The list of o that its channels make, one after the other.
LEMMA ListLoaded ==
  ASSUME ChatInv, NEW o, NEW chans, NEW f, ListLoop(f, o, chans)
  PROVE  LET l == f[Len(channels)]
         IN  /\ l \in Seq(Chans) /\ IsInjective(l)
             /\ Range(l) = {c \in Range(channels) : onchannel(o, chans[c])}
<1> DEFINE n == Len(channels)
           On == {c \in Range(channels) : onchannel(o, chans[c])}
           S == {i \in 0..n : /\ f[i] \in Seq(Chans) /\ IsInjective(f[i])
                              /\ Range(f[i]) = {channels[j] : j \in 1..i} \cap On}
<1>0. /\ n \in Nat /\ DOMAIN channels = 1..n /\ IsInjective(channels)
      /\ \A i \in 1..n : channels[i] \in Range(channels) /\ channels[i] \in Chans
      /\ ChanName \in [Range(channels) -> Nat]
      /\ \A c, d \in Range(channels) : c # d => ChanName[c] # ChanName[d]
  <2>1. channels \in Seq(Chans)
    BY Listed
  <2>2. n \in Nat /\ DOMAIN channels = 1..n
    BY <2>1
  <2> HIDE DEF n
  <2>3. \A i \in 1..n : channels[i] \in Range(channels) /\ channels[i] \in Chans
    BY <2>1, <2>2, Listed DEF n
  <2> QED BY <2>2, <2>3, Listed
<1>1. /\ f[0] = <<>>
      /\ \A i \in 1..n : f[i] = IF onchannel(o, chans[channels[i]])
                                THEN insert_obj_chan(f[i - 1], channels[i], ChanName)
                                ELSE f[i - 1]
  <2>1. 0 \in 0..n /\ \A i \in 1..n : i \in 0..n /\ i # 0
    BY <1>0
  <2> HIDE DEF n
  <2>2. \A i \in 0..n : f[i] = IF i = 0 THEN <<>>
                               ELSE IF onchannel(o, chans[channels[i]])
                               THEN insert_obj_chan(f[i - 1], channels[i], ChanName)
                               ELSE f[i - 1]
    BY DEF n, ListLoop
  <2> QED BY <2>1, <2>2
<1>6. \A i \in 1..n : channels[i] \in On <=> onchannel(o, chans[channels[i]])
  BY <1>0
<1>7. On \subseteq Range(channels)
  OBVIOUS
<1> HIDE DEF n, On
<1>2. 0 \in S
  <2>1. <<>> \in Seq(Chans) /\ IsInjective(<<>>) /\ Range(<<>>) = {}
    BY DEF Range, IsInjective
  <2>2. {channels[j] : j \in 1..0} = {}
    OBVIOUS
  <2>3. f[0] \in Seq(Chans) /\ IsInjective(f[0]) /\ Range(f[0]) = {}
    BY <1>1, <2>1
  <2>4. 0 \in 0..n /\ {channels[j] : j \in 1..0} \cap On = {}
    BY <1>0, <2>2
  <2>5. Range(f[0]) = {channels[j] : j \in 1..0} \cap On
    BY <2>3, <2>4, Zenon
  <2> QED BY <2>3, <2>4, <2>5, Zenon
<1>3. ASSUME NEW i \in 1..n, i - 1 \in S PROVE i \in S
  <2> DEFINE u == f[i - 1]
             c == channels[i]
             Seen == {channels[j] : j \in 1..(i - 1)}
  <2>1. /\ u \in Seq(Chans) /\ IsInjective(u) /\ Range(u) = Seen \cap On
        /\ c \in Chans \cap Range(channels)
        /\ f[i] = IF c \in On THEN insert_obj_chan(u, c, ChanName) ELSE u
    BY <1>0, <1>1, <1>3, <1>6
  <2>2. c \notin Seen
    <3>1. ASSUME NEW j \in 1..(i - 1) PROVE channels[j] # channels[i]
      <4>1. j \in 1..n /\ j # i
        BY <1>0
      <4> QED BY <1>0, <4>1 DEF IsInjective
    <3> QED BY <3>1
  <2>3. {channels[j] : j \in 1..i} = Seen \cup {c}
    <3>1. 1..i = (1..(i - 1)) \cup {i}
      BY <1>0
    <3> QED BY <3>1
  <2>4. i \in 0..n
    BY <1>0
  <2> HIDE DEF u, c, Seen
  <2>5. /\ f[i] \in Seq(Chans) /\ IsInjective(f[i]) /\ Range(f[i]) = (Seen \cup {c}) \cap On
    <3>1. CASE c \in On
      <4>1. c \notin Range(u) /\ Range(u) \subseteq Range(channels)
        BY <1>7, <2>1, <2>2
      <4>2. \A d \in Range(u) : ChanName[d] # ChanName[c]
        BY <1>0, <2>1, <4>1
      <4>3. f[i] = insert_obj_chan(u, c, ChanName)
        BY <2>1, <3>1
      <4>4. f[i] \in Seq(Chans) /\ Range(f[i]) = Range(u) \cup {c} /\ IsInjective(f[i])
        BY <1>0, <2>1, <4>1, <4>2, <4>3, ObjChanInserted
      <4> QED BY <2>1, <3>1, <4>4
    <3>2. CASE c \notin On
      BY <2>1, <3>2
    <3> QED BY <3>1, <3>2
  <2> QED BY <2>3, <2>4, <2>5
<1>4. n \in S
  <2> HIDE DEF S
  <2>1. \A i \in 0..n : i \in S
    BY <1>0, <1>2, <1>3, UpTo
  <2> QED BY <1>0, <2>1
<1>5. Range(channels) = {channels[j] : j \in 1..n}
  BY <1>0 DEF Range
<1>8. f[n] \in Seq(Chans) /\ IsInjective(f[n]) /\ Range(f[n]) = On
  BY <1>4, <1>5, <1>7
<1> QED BY <1>8 DEF n, On

\* An object's list is loaded with the channels that list it.
LEMMA LoadedListFacts ==
  ASSUME ChatInv, NEW o, NEW chans
  PROVE  /\ LoadedList(o, chans) \in Seq(Chans) /\ IsInjective(LoadedList(o, chans))
         /\ Range(LoadedList(o, chans)) = {c \in Range(channels) : onchannel(o, chans[c])}
<1> DEFINE n == Len(channels)
           R(g, i) == IF i = 0 THEN <<>>
                      ELSE IF onchannel(o, chans[channels[i]])
                      THEN insert_obj_chan(g[i - 1], channels[i], ChanName)
                      ELSE g[i - 1]
           f == CHOOSE f : f = [i \in 0..n |-> R(f, i)]
<1>1. LoadedList(o, chans) = f[n]
  BY DEF LoadedList
<1>3. n \in Nat /\ \A i \in 1..n : channels[i] \in Chans
  BY Listed
<1> HIDE DEF n
<1>4. \E g : g = [i \in 0..n |-> R(g, i)]
  <2> DEFINE A == Seq(Chans)
             G == [i \in 1..n |-> [u \in A |-> IF onchannel(o, chans[channels[i]])
                                               THEN insert_obj_chan(u, channels[i], ChanName)
                                               ELSE u]]
             e == <<>>
  <2>1. e \in A
    OBVIOUS
  <2>2. G \in [1..n -> [A -> A]]
    BY <1>3, InsertTypes
  <2>3. PICK F : Chained(F, A, n, e, G)
    <3> HIDE DEF A, G, e
    <3> QED BY <1>3, <2>1, <2>2, ChainExists
  <2>4. F \in [0..n -> A] /\ F[0] = e /\ \A i \in 1..n : F[i] = G[i][F[i - 1]]
    <3> HIDE DEF A, G, e
    <3> QED BY <2>3 DEF Chained
  <2>5. ASSUME NEW i \in 0..n PROVE F[i] = R(F, i)
    <3>1. CASE i = 0
      BY <2>4, <3>1
    <3>2. CASE i # 0
      <4>1. i \in 1..n /\ i - 1 \in 0..n
        BY <1>3, <3>2
      <4>2. F[i - 1] \in A
        <5> HIDE DEF A
        <5> QED BY <2>4, <4>1
      <4> HIDE DEF A
      <4> QED BY <2>4, <3>2, <4>1, <4>2
    <3> QED BY <3>1, <3>2
  <2>6. F = [i \in 0..n |-> R(F, i)]
    <3>1. F = [i \in 0..n |-> F[i]]
      <4> HIDE DEF A, G, e
      <4> QED BY <2>4
    <3> HIDE DEF A, G, e, R
    <3> QED BY <2>5, <3>1
  <2> QED BY <2>6
<1>5. f = [i \in 0..n |-> R(f, i)]
  <2> HIDE DEF R
  <2> QED BY <1>4
<1> HIDE DEF f
<1>6. /\ f[n] \in Seq(Chans) /\ IsInjective(f[n])
      /\ Range(f[n]) = {c \in Range(channels) : onchannel(o, chans[c])}
  <2>1. ListLoop(f, o, chans)
    BY <1>5 DEF n, ListLoop
  <2>2. LET u == f[Len(channels)]
        IN  /\ u \in Seq(Chans) /\ IsInjective(u)
            /\ Range(u) = {c \in Range(channels) : onchannel(o, chans[c])}
    BY <2>1, ListLoaded
  <2> QED BY <2>2 DEF n
<1> QED BY <1>1, <1>6

\* A buffer is loaded empty, with room for as many lines.
LEMMA BlocksType ==
  ASSUME NEW bq, BufferOk(bq)
  PROVE  bufferq_blocks(bq) \in Nat
<1>1. bq.buffer_size \in Nat
  BY DEF BufferOk, Buffers
<1>2. BUFFER_LEN + OVERHEAD \in Nat /\ BUFFER_LEN + OVERHEAD > 0
  BY SizeAssumption
<1> DEFINE k == BUFFER_LEN + OVERHEAD
           s == bq.buffer_size
<1> HIDE DEF k, s
<1>3. s \in Nat /\ k \in Nat /\ k > 0
  BY <1>1, <1>2 DEF k, s
<1>4. s \div k \in Nat
  BY <1>3
<1> QED BY <1>4 DEF bufferq_blocks, k, s

\* A channel is loaded with its name, owner, price and members; its buffer is
\* empty.
LEMMA LoadedChannelFacts ==
  ASSUME ChatInv, NEW c \in Chans, chan[c] # NOTHING
  PROVE  LET a == chan[c]
             x == LoadedChannel(a)
         IN  /\ x \in Channel /\ x.name = a.name /\ x.creator = a.creator /\ x.cost = a.cost
             /\ x.users = LoadedUsers(a) /\ x.num_users = Len(x.users) /\ IsInjective(x.users)
             /\ Range(x.users) = Range(a.users) \cap {o \in Objects : ChanOkType(a, o)}
             /\ a.bufferq = NOTHING => x.bufferq = NOTHING
             /\ a.bufferq # NOTHING => BufferOk(x.bufferq) /\ Lines(x.bufferq) = <<>>
             /\ x.bufferq = NOTHING => a.bufferq = NOTHING
<1> DEFINE a == chan[c]
           x == LoadedChannel(a)
           u == LoadedUsers(a)
           b == IF a.bufferq = NOTHING THEN NOTHING
                ELSE allocate_bufferq(bufferq_blocks(a.bufferq))
<1>1. a \in Channel /\ a.users \in Seq(Objects) /\ IsInjective(a.users)
  BY ChannelFacts
<1>2. a.bufferq # NOTHING => BufferOk(a.bufferq)
  BY DEF ChatInv, BuffersOk
<1>3. x = [a EXCEPT !.users = u, !.num_users = Len(u), !.bufferq = b]
  BY DEF LoadedChannel
<1> HIDE DEF a, x
<1>4. /\ u \in Seq(Objects) /\ IsInjective(u)
      /\ Range(u) = Range(a.users) \cap {o \in Objects : ChanOkType(a, o)}
  BY <1>1, LoadedUsersFacts
<1>5. /\ a.bufferq = NOTHING => b = NOTHING
      /\ a.bufferq # NOTHING => b \in Buffers /\ BufferOk(b) /\ Lines(b) = <<>>
  <2>1. ASSUME a.bufferq # NOTHING PROVE b \in Buffers /\ BufferOk(b) /\ Lines(b) = <<>>
    <3> DEFINE n == bufferq_blocks(a.bufferq)
    <3>1. n \in Nat
      BY <1>2, <2>1, BlocksType
    <3>2. b = allocate_bufferq(n)
      BY <2>1
    <3> HIDE DEF n, b
    <3>3. BufferOk(b) /\ Lines(b) = <<>>
      BY <3>1, <3>2, AllocateFacts
    <3> QED BY <3>3 DEF BufferOk
  <2> QED BY <2>1
<1> HIDE DEF b
<1>6. b \in Buffers \cup {NOTHING} /\ (b = NOTHING => a.bufferq = NOTHING)
  BY <1>5, ObjectFacts
<1> HIDE DEF u
<1>7. Len(u) \in Nat
  BY <1>4
<1>8. /\ x \in Channel /\ x.name = a.name /\ x.creator = a.creator /\ x.cost = a.cost
      /\ x.users = u /\ x.num_users = Len(u) /\ x.bufferq = b
  BY <1>1, <1>3, <1>4, <1>6, <1>7 DEF Channel
<1> QED BY <1>4, <1>5, <1>6, <1>8 DEF a, x, u

\* Saving and loading keep the invariant.
LEMMA RestartStep ==
  ASSUME ChatInv, Restart
  PROVE  ChatInv'
<1>1. /\ Idle
      /\ chan' = [c \in Chans |-> IF chan[c] = NOTHING THEN NOTHING ELSE LoadedChannel(chan[c])]
      /\ channels' = LoadedChannels /\ num_channels' = Len(channels)
      /\ Chanlist' = [o \in Objects |-> LoadedList(o, chan')]
      /\ owner' = owner /\ pennies' = pennies /\ UNCHANGED <<stack, message>>
  BY DEF Restart
<1>2. \A c \in Chans : chan[c] = NOTHING => chan'[c] = NOTHING
  BY <1>1
<1>3. ASSUME NEW c \in Chans, chan[c] # NOTHING
      PROVE  /\ chan'[c] \in Channel /\ chan'[c].name = chan[c].name
             /\ chan'[c].creator = chan[c].creator /\ chan'[c].cost = chan[c].cost
             /\ chan'[c].num_users = Len(chan'[c].users) /\ IsInjective(chan'[c].users)
             /\ Range(chan'[c].users) = Range(chan[c].users) \cap {o \in Objects : ChanOkType(chan[c], o)}
             /\ chan'[c].bufferq # NOTHING => BufferOk(chan'[c].bufferq)
  <2>1. chan'[c] = LoadedChannel(chan[c])
    BY <1>1, <1>3
  <2> QED BY <1>3, <2>1, LoadedChannelFacts
<1>4. \A c \in Chans : chan'[c] = NOTHING <=> chan[c] = NOTHING
  BY <1>2, <1>3, ObjectFacts
<1>5. chan' \in [Chans -> Channel \cup {NOTHING}]
  <2>1. chan' = [c \in Chans |-> chan'[c]]
    BY <1>1
  <2>2. \A c \in Chans : chan'[c] \in Channel \cup {NOTHING}
    BY <1>2, <1>3
  <2> QED BY <2>1, <2>2
<1>6. /\ LoadedChannels \in Seq(Chans) /\ Len(LoadedChannels) = Len(channels)
      /\ Range(LoadedChannels) = Range(channels) /\ Sorted(LoadedChannels, ChanName)
      /\ Len(channels) \in Nat
  BY LoadedChannelsFacts, Listed
<1>7. /\ channels' \in Seq(Chans) /\ Len(channels') = Len(channels)
      /\ Range(channels') = Range(channels) /\ Sorted(channels', ChanName)
      /\ num_channels' = Len(channels') /\ num_channels' \in Nat /\ num_channels' <= MAX_CHANNELS
  <2>1. num_channels = Len(channels) /\ num_channels <= MAX_CHANNELS
    BY DEF ChatInv, ChannelsListed
  <2> QED BY <1>1, <1>6, <2>1
<1>8. Range(channels) = {c \in Chans : chan[c] # NOTHING}
  BY DEF ChatInv, ChannelsListed
<1>9. ASSUME NEW o \in Objects
      PROVE  /\ Chanlist'[o] \in Seq(Chans) /\ IsInjective(Chanlist'[o])
             /\ Range(Chanlist'[o]) = {c \in Range(channels) : onchannel(o, chan'[c])}
  <2> DEFINE chans == chan'
             l == LoadedList(o, chans)
  <2>1. Chanlist'[o] = l
    BY <1>1
  <2> HIDE DEF chans
  <2>2. /\ l \in Seq(Chans) /\ IsInjective(l)
        /\ Range(l) = {c \in Range(channels) : onchannel(o, chans[c])}
    BY LoadedListFacts
  <2> HIDE DEF l
  <2> QED BY <2>1, <2>2 DEF chans
<1>10. Chanlist' \in [Objects -> Seq(Chans)]
  <2>1. Chanlist' = [o \in Objects |-> Chanlist'[o]]
    BY <1>1
  <2>2. \A o \in Objects : Chanlist'[o] \in Seq(Chans)
    BY <1>9
  <2> QED BY <2>1, <2>2
<1>11. CoreType'
  BY <1>1, <1>5, <1>7, <1>10 DEF ChatInv, CoreType
<1>12. CallsOk' /\ OwnersLive'
  BY <1>1, KeepsCalls, KeepsOwners
<1>13. ChannelsListed'
  <2>1. Range(channels') = {c \in Chans : chan'[c] # NOTHING}
    BY <1>4, <1>7, <1>8
  <2>2. \A c \in Range(channels') : ChanName[c] = chan'[c].name
    BY <1>3, <1>7, <1>8, Listed
  <2> QED BY <1>7, <2>1, <2>2, ListedFrom
<1>14. DepositsHeld'
  BY <1>1, <1>3, <1>4, <1>13, KeepsDeposits DEF SamePrices
<1>15. BuffersOk'
  BY <1>3, <1>4, KeepsBuffers DEF SameBuffers
<1>16. MembersAgree'
  <2>1. ASSUME NEW c \in Chans, NEW o \in Objects
        PROVE  (chan'[c] # NOTHING /\ onchannel(o, chan'[c])) <=> (c \in Range(Chanlist'[o]))
    BY <1>4, <1>8, <1>9
  <2>2. ASSUME NEW o \in Objects, Chanlist'[o] # <<>> PROVE owner'[o] # NOTHING
    <3>1. Chanlist'[o] \in Seq(Chans)
      BY <1>9
    <3>2. PICK c : c \in Range(Chanlist'[o])
      <4>1. Len(Chanlist'[o]) \in Nat /\ Len(Chanlist'[o]) # 0
            /\ DOMAIN Chanlist'[o] = 1..Len(Chanlist'[o])
        BY <2>2, <3>1
      <4>2. 1 \in DOMAIN Chanlist'[o]
        BY <4>1
      <4> QED BY <4>2 DEF Range
    <3>3. c \in Chans /\ chan[c] # NOTHING /\ o \in Range(chan'[c].users)
      BY <1>8, <1>9, <3>2 DEF onchannel
    <3>4. ChanOkType(chan[c], o)
      BY <1>3, <3>3
    <3> QED BY <1>1, <3>4 DEF ChanOkType, IsLive
  <2>3. \A c \in Chans : chan'[c] # NOTHING => /\ IsInjective(chan'[c].users)
                                               /\ chan'[c].num_users = Len(chan'[c].users)
    BY <1>3, <1>4
  <2>4. \A o \in Objects : IsInjective(Chanlist'[o]) /\ (Chanlist'[o] # <<>> => owner'[o] # NOTHING)
    BY <1>9, <2>2
  <2> QED BY <1>13, <2>1, <2>3, <2>4, MembersFrom
<1> QED BY <1>11, <1>12, <1>13, <1>14, <1>15, <1>16 DEF ChatInv

\* ChatInv is inductive.
LEMMA NextStep == ChatInv /\ [Next]_vars => ChatInv'
<1> SUFFICES ASSUME ChatInv, [Next]_vars PROVE ChatInv'
  OBVIOUS
<1>1. CASE Sending
  BY <1>1, SendingStep
<1>2. CASE Admin
  BY <1>2, AdminStep
<1>3. CASE Membership
  <2>1. PICK o \in Objects, c \in Chans : Join(o, c) \/ Leave(o, c)
    BY <1>3 DEF Membership
  <2> QED BY <2>1, JoinStep, LeaveStep
<1>4. CASE World
  <2>1. ASSUME NEW t \in Things, DestroyThing(t) PROVE ChatInv'
    BY <2>1, DestroyThingStep
  <2>2. ASSUME NEW t \in Things, NEW p \in Players, CreateThing(t, p) PROVE ChatInv'
    BY <2>2, CreateThingStep
  <2>3. ASSUME NEW p \in Players, NEW spared \in SUBSET Things, DestroyPlayer(p, spared)
        PROVE  ChatInv'
    BY <2>3, DestroyPlayerStep
  <2> QED BY <1>4, <2>1, <2>2, <2>3 DEF World
<1>5. CASE Restart
  BY <1>5, RestartStep
<1>6. CASE UNCHANGED vars
  <2>1. UNCHANGED chanVars /\ stack' = stack /\ message' = message
    BY <1>6 DEF vars, chanVars
  <2>2. chan' = chan
    BY <2>1 DEF chanVars
  <2>3. CallsOk'
    BY <2>1, <2>2 DEF ChatInv, CallsOk
  <2> QED BY <2>1, <2>3, SameChat
<1> QED BY <1>1, <1>2, <1>3, <1>4, <1>5, <1>6 DEF Next

\* The inductive invariant: the types, the calls of channel_send under way,
\* the owners, and the four properties below hold together always.
THEOREM Invariance == Spec => []ChatInv
<1>1. Init => ChatInv
  BY InitStep
<1>2. ChatInv /\ [Next]_vars => ChatInv'
  BY NextStep
<1> QED BY <1>1, <1>2, PTL DEF Spec

\* Every variable of the chat system keeps the values its C type allows.
THEOREM TypeCorrect == Spec => []TypeOK
<1>1. ChatInv => TypeOK
  BY TypeParts DEF ChatInv
<1> QED BY <1>1, Invariance, PTL

\* The members a channel lists and the channels an object lists agree,
\* without repetitions and with the right counts, through joins, departures,
\* wipes, deletions, destructions and restarts (insert_user, remove_user,
\* insert_obj_chan, remove_obj_chan and remove_all_obj_chan).
THEOREM BothSidesAgree == Spec => []MembersAgree
<1>1. ChatInv => MembersAgree
  BY DEF ChatInv
<1> QED BY <1>1, Invariance, PTL

\* The list of channels is complete, sorted, free of equal names and within
\* MAX_CHANNELS, through additions, renames, deletions and restarts
\* (insert_channel, remove_channel and load_chatdb).
THEOREM AllListed == Spec => []ChannelsListed
<1>1. ChatInv => ChannelsListed
  BY DEF ChatInv
<1> QED BY <1>1, Invariance, PTL

\* The price of a channel is given back once, whatever changes of owner, and
\* deletions follow, and its owner exists (chan_chown, chan_chownall).
THEOREM RefundedOnce == Spec => []DepositsHeld
<1>1. ChatInv => DepositsHeld
  BY DEF ChatInv
<1> QED BY <1>1, Invariance, PTL

\* A buffer stays within its allocation, counts its lines, and a recall of n
\* lines shows the last n (add_to_bufferq, shift_bufferq, reallocate_bufferq).
THEOREM RecallExact == Spec => []BuffersExact
<1>1. ChatInv => BuffersExact
  <2> SUFFICES ASSUME ChatInv, NEW c \in Range(channels), chan[c].bufferq # NOTHING
               PROVE  LET bq == chan[c].bufferq
                          lines == Lines(bq)
                      IN  /\ Len(bq.mem) <= bq.buffer_size
                          /\ bq.num_buffered = Len(lines)
                          /\ \A n \in 1..bq.buffer_size :
                               /\ Len(Recalled(bq, n)) = (IF n < Len(lines) THEN n ELSE Len(lines))
                               /\ IsSuffix(Recalled(bq, n), lines)
    BY DEF BuffersExact
  <2> DEFINE bq == chan[c].bufferq
  <2>1. BufferOk(bq)
    BY Listed DEF ChatInv, BuffersOk
  <2> HIDE DEF bq
  <2>2. \A n \in 1..bq.buffer_size : n \in Nat
    BY <2>1, BufferFacts
  <2>3. Len(bq.mem) <= bq.buffer_size /\ bq.num_buffered = Len(Lines(bq))
    BY <2>1 DEF BufferOk
  <2>4. ASSUME NEW n \in 1..bq.buffer_size
        PROVE  /\ Len(Recalled(bq, n)) = IF n < Len(Lines(bq)) THEN n ELSE Len(Lines(bq))
               /\ IsSuffix(Recalled(bq, n), Lines(bq))
    BY <2>1, <2>2, RecallFacts
  <2> QED BY <2>3, <2>4 DEF bq
<1> QED BY <1>1, Invariance, PTL

-----------------------------------------------------------------------------
\* The refinement of Scrollback.

\* The buffer of a channel, if it has one.
BufferOf(c) == IF chan[c] = NOTHING THEN NOTHING ELSE chan[c].bufferq

\* What a step may do to a buffer.
BufferStep(a, b) ==
  \/ b = a
  \/ b = NOTHING
  \/ a # NOTHING /\ \E t \in Texts : b = add_to_bufferq(a, t)
  \/ \E n \in Nat : b = allocate_bufferq(n)
  \/ a # NOTHING /\ \E n \in Nat : b = reallocate_bufferq(a, n)

\* A channel is replaced by x.
LEMMA Replaced ==
  ASSUME ChatInv, NEW c \in Chans, NEW x, chan' = [chan EXCEPT ![c] = x],
         BufferStep(BufferOf(c), x.bufferq), NEW w \in Chans
  PROVE  BufferStep(BufferOf(w), BufferOf(w)')
<1>1. chan \in [Chans -> Channel \cup {NOTHING}]
  BY DEF ChatInv, CoreType
<1>2. BufferOf(w)' = IF chan'[w] = NOTHING THEN NOTHING ELSE chan'[w].bufferq
  BY DEF BufferOf
<1>3. CASE w = c
  <2>1. chan'[w] = x
    BY <1>1, <1>3
  <2>2. BufferOf(w)' = NOTHING \/ BufferOf(w)' = x.bufferq
    BY <1>2, <2>1
  <2>3. CASE BufferOf(w)' = NOTHING
    BY <2>3 DEF BufferStep
  <2>4. CASE BufferOf(w)' = x.bufferq
    BY <1>3, <2>4
  <2> QED BY <2>2, <2>3, <2>4
<1>4. CASE w # c
  <2>1. chan'[w] = chan[w]
    BY <1>1, <1>4
  <2>2. BufferOf(w)' = BufferOf(w)
    BY <1>2, <2>1 DEF BufferOf
  <2> QED BY <2>2 DEF BufferStep
<1> QED BY <1>3, <1>4

\* A buffer that stays takes a step of its own.
LEMMA SameStep ==
  ASSUME NEW w, BufferOf(w)' = BufferOf(w) \/ chan' = chan
  PROVE  BufferStep(BufferOf(w), BufferOf(w)')
<1>1. BufferOf(w)' = BufferOf(w)
  BY DEF BufferOf
<1> QED BY <1>1 DEF BufferStep

\* Sending adds a line to a buffer or leaves it.
LEMMA ScrollSending ==
  ASSUME ChatInv, Sending, NEW w \in Chans
  PROVE  BufferStep(BufferOf(w), BufferOf(w)')
<1>0. CallsOk
  BY DEF ChatInv
<1>1. CASE chan' = chan
  BY <1>1, SameStep
<1>2. ASSUME NEW c \in Chans, NEW t \in Texts, chan[c] # NOTHING, chan[c].bufferq # NOTHING,
             chan' = [chan EXCEPT ![c].bufferq = add_to_bufferq(@, t)]
      PROVE  BufferStep(BufferOf(w), BufferOf(w)')
  <2> DEFINE b == add_to_bufferq(chan[c].bufferq, t)
             x == [chan[c] EXCEPT !.bufferq = b]
  <2>1. chan' = [chan EXCEPT ![c] = x] /\ chan[c] \in Channel
    BY <1>2, ChannelFacts
  <2>2. x.bufferq = b
    <3> HIDE DEF b
    <3> QED BY <2>1 DEF Channel
  <2>3. BufferOf(c) = chan[c].bufferq
    BY <1>2 DEF BufferOf
  <2>4. BufferStep(BufferOf(c), x.bufferq)
    <3> HIDE DEF x
    <3> QED BY <1>2, <2>2, <2>3 DEF BufferStep
  <2> HIDE DEF x
  <2> QED BY <2>1, <2>4, Replaced
<1>3. ASSUME NEW c \in Chans, NEW len \in Lens, BufferAdd(c, len)
      PROVE  BufferStep(BufferOf(w), BufferOf(w)')
  <2> DEFINE t == [on |-> c, len |-> len]
  <2>1. t \in Texts
    BY DEF Texts
  <2>2. /\ chan[c] # NOTHING /\ chan[c].bufferq # NOTHING
        /\ chan' = [chan EXCEPT ![c].bufferq = add_to_bufferq(@, t)]
    BY <1>3 DEF BufferAdd
  <2> HIDE DEF t
  <2> QED BY <1>2, <2>1, <2>2
<1>4. CASE Buffer
  <2> DEFINE c == top.chan
  <2>1. c \in Chans /\ message \in Texts /\ chan[c] # NOTHING
    BY <1>0, <1>4, TopFacts DEF Buffer, CallsOk, Call
  <2>2. \/ chan' = chan
        \/ /\ chan[c].bufferq # NOTHING
           /\ chan' = [chan EXCEPT ![c].bufferq = add_to_bufferq(@, message)]
    BY <1>4 DEF Buffer
  <2> HIDE DEF c
  <2> QED BY <1>1, <1>2, <2>1, <2>2
<1>5. ASSUME \/ \E c \in Chans, len \in Lens : Say(c, len) \/ Cemit(c, len)
             \/ MogrifyBlocks \/ Mogrify \/ Notify
      PROVE  chan' = chan
  BY <1>5 DEF Say, Cemit, MogrifyBlocks, Mogrify, Notify, chanVars
<1> QED BY <1>1, <1>3, <1>4, <1>5 DEF Sending

\* The buffer of a channel is left alone, or its lines are counted anew.
LEMMA ScrollAdmin ==
  ASSUME ChatInv, Admin, NEW w \in Chans
  PROVE  BufferStep(BufferOf(w), BufferOf(w)')
<1>1. PICK c \in Chans :
        \/ \E o \in Objects, n \in ChanNames, type \in Types : Add(o, c, n, type)
        \/ \E n \in ChanNames : Rename(c, n)
        \/ \E type \in Types : Priv(c, type)
        \/ \E p \in Players : do_chan_chown(c, p)
        \/ \E it \in Mogrifiers \cup {NOTHING} : do_chan_set_mogrifier(c, it)
        \/ \E lines \in BufferLines : do_chan_buffer(c, lines)
        \/ Delete(c) \/ Wipe(c)
  BY DEF Admin
<1>2. ASSUME NEW x, chan[c] # NOTHING, x.bufferq = chan[c].bufferq, chan' = [chan EXCEPT ![c] = x]
      PROVE  BufferStep(BufferOf(w), BufferOf(w)')
  <2>1. BufferStep(BufferOf(c), x.bufferq)
    BY <1>2 DEF BufferOf, BufferStep
  <2> QED BY <1>2, <2>1, Replaced
<1>3. chan \in [Chans -> Channel \cup {NOTHING}]
  BY DEF ChatInv, CoreType
<1>4. ASSUME NEW o \in Objects, NEW n \in ChanNames, NEW type \in Types, Add(o, c, n, type)
      PROVE  BufferStep(BufferOf(w), BufferOf(w)')
  <2> DEFINE x == [new_channel EXCEPT !.name = n, !.creator = owner[o],
                                      !.type = IF type = {} THEN @ ELSE type]
  <2>1. chan' = [chan EXCEPT ![c] = x]
    BY <1>4 DEF Add
  <2>2. x.bufferq = NOTHING
    BY DEF new_channel
  <2> HIDE DEF x
  <2>3. BufferStep(BufferOf(c), x.bufferq)
    BY <2>2 DEF BufferStep
  <2> QED BY <2>1, <2>3, Replaced
<1>5. ASSUME NEW n \in ChanNames, Rename(c, n) PROVE BufferStep(BufferOf(w), BufferOf(w)')
  <2> DEFINE x == [chan[c] EXCEPT !.name = n]
  <2>1. chan[c] # NOTHING /\ chan' = [chan EXCEPT ![c] = x]
    BY <1>5 DEF Rename
  <2>2. x.bufferq = chan[c].bufferq
    BY <1>3, <2>1 DEF Channel
  <2> HIDE DEF x
  <2> QED BY <1>2, <2>1, <2>2
<1>6. ASSUME NEW type \in Types, Priv(c, type) PROVE BufferStep(BufferOf(w), BufferOf(w)')
  <2> DEFINE x == [chan[c] EXCEPT !.type = type]
  <2>1. chan[c] # NOTHING /\ chan' = [chan EXCEPT ![c] = x]
    BY <1>6 DEF Priv
  <2>2. x.bufferq = chan[c].bufferq
    BY <1>3, <2>1 DEF Channel
  <2> HIDE DEF x
  <2> QED BY <1>2, <2>1, <2>2
<1>7. ASSUME NEW p \in Players, do_chan_chown(c, p) PROVE BufferStep(BufferOf(w), BufferOf(w)')
  <2> DEFINE x == chan_chown(chan[c], p)
  <2>1. chan[c] # NOTHING /\ chan' = [chan EXCEPT ![c] = x]
    BY <1>7 DEF do_chan_chown
  <2>2. x.bufferq = chan[c].bufferq
    BY <1>3, <2>1 DEF chan_chown, Channel
  <2> HIDE DEF x
  <2> QED BY <1>2, <2>1, <2>2
<1>8. ASSUME NEW it, do_chan_set_mogrifier(c, it) PROVE BufferStep(BufferOf(w), BufferOf(w)')
  <2> DEFINE x == [chan[c] EXCEPT !.mogrifier = it]
  <2>1. chan[c] # NOTHING /\ chan' = [chan EXCEPT ![c] = x]
    BY <1>8 DEF do_chan_set_mogrifier
  <2>2. x.bufferq = chan[c].bufferq
    BY <1>3, <2>1 DEF Channel
  <2> HIDE DEF x
  <2> QED BY <1>2, <2>1, <2>2
<1>9. CASE Wipe(c)
  <2> DEFINE x == channel_wipe(chan[c])
  <2>1. chan[c] # NOTHING /\ chan' = [chan EXCEPT ![c] = x]
    BY <1>9 DEF Wipe
  <2>2. x.bufferq = chan[c].bufferq
    BY <1>3, <2>1 DEF channel_wipe, Channel
  <2> HIDE DEF x
  <2> QED BY <1>2, <2>1, <2>2
<1>10. CASE Delete(c)
  <2>1. chan' = [chan EXCEPT ![c] = NOTHING]
    BY <1>10 DEF Delete
  <2>2. CASE w = c
    <3>1. BufferOf(w)' = NOTHING
      BY <1>3, <2>1, <2>2 DEF BufferOf
    <3> QED BY <3>1 DEF BufferStep
  <2>3. CASE w # c
    <3>1. chan'[w] = chan[w]
      BY <1>3, <2>1, <2>3
    <3>2. BufferOf(w)' = BufferOf(w)
      BY <3>1 DEF BufferOf
    <3> QED BY <3>2, SameStep
  <2> QED BY <2>2, <2>3
<1>11. ASSUME NEW lines \in BufferLines, do_chan_buffer(c, lines)
       PROVE  BufferStep(BufferOf(w), BufferOf(w)')
  <2> DEFINE a == chan[c].bufferq
             b == IF lines = 0 THEN NOTHING
                  ELSE IF a = NOTHING THEN allocate_bufferq(lines)
                  ELSE reallocate_bufferq(a, lines)
             x == [chan[c] EXCEPT !.bufferq = b]
  <2>0. lines \in Nat
    BY BoundsAssumption
  <2>1. chan[c] # NOTHING /\ chan' = [chan EXCEPT ![c] = x]
    BY <1>11 DEF do_chan_buffer
  <2>2. BufferOf(c) = a /\ BufferStep(a, b)
    BY <2>0, <2>1 DEF BufferOf, BufferStep
  <2>3. x.bufferq = b
    <3> HIDE DEF b
    <3> QED BY <1>3, <2>1 DEF Channel
  <2> HIDE DEF a, b, x
  <2> QED BY <2>1, <2>2, <2>3, Replaced
<1> QED BY <1>1, <1>4, <1>5, <1>6, <1>7, <1>8, <1>9, <1>10, <1>11

\* Joins, destruction and a restart leave a buffer or empty it.
LEMMA ScrollRest ==
  ASSUME ChatInv, Membership \/ World \/ Restart, NEW w \in Chans
  PROVE  BufferStep(BufferOf(w), BufferOf(w)')
<1>1. chan \in [Chans -> Channel \cup {NOTHING}]
  BY DEF ChatInv, CoreType
<1>2. ASSUME NEW c \in Chans, NEW x, chan[c] # NOTHING, x.bufferq = chan[c].bufferq,
             chan' = [chan EXCEPT ![c] = x]
      PROVE  BufferStep(BufferOf(w), BufferOf(w)')
  <2>1. BufferStep(BufferOf(c), x.bufferq)
    BY <1>2 DEF BufferOf, BufferStep
  <2> QED BY <1>2, <2>1, Replaced
<1>3. ASSUME NEW o \in Objects, NEW c \in Chans, Join(o, c)
      PROVE  BufferStep(BufferOf(w), BufferOf(w)')
  <2> DEFINE x == [chan[c] EXCEPT !.users = insert_user(@, o), !.num_users = @ + 1]
  <2>1. chan[c] # NOTHING /\ chan' = [chan EXCEPT ![c] = x]
    BY <1>3 DEF Join
  <2>2. x.bufferq = chan[c].bufferq
    BY <1>1, <2>1 DEF Channel
  <2> HIDE DEF x
  <2> QED BY <1>2, <2>1, <2>2
<1>4. ASSUME NEW o \in Objects, NEW c \in Chans, Leave(o, c)
      PROVE  BufferStep(BufferOf(w), BufferOf(w)')
  <2> DEFINE x == remove_user(chan[c], o)
  <2>1. chan[c] # NOTHING /\ chan' = [chan EXCEPT ![c] = x]
    BY <1>4 DEF Leave
  <2>2. x.bufferq = chan[c].bufferq
    BY <1>1, <2>1 DEF remove_user, Channel
  <2> HIDE DEF x
  <2> QED BY <1>2, <2>1, <2>2
<1>5. ASSUME NEW gone, gone \subseteq Objects, NEW chans, SameButOwner(chans),
             chan' = remove_all_obj_chan(chans, gone)
      PROVE  BufferStep(BufferOf(w), BufferOf(w)')
  <2>1. /\ chan[w] = NOTHING => chan'[w] = NOTHING
        /\ chan[w] # NOTHING => Left(chan'[w], chans[w], gone)
    BY <1>5, RemovedFacts
  <2>2. chan[w] # NOTHING => chan'[w].bufferq = chan[w].bufferq /\ chan'[w] # NOTHING
    BY <1>5, <2>1, ObjectFacts DEF Left, SameButOwner
  <2>3. BufferOf(w)' = BufferOf(w)
    BY <2>1, <2>2 DEF BufferOf
  <2> QED BY <2>3, SameStep
<1>6. ASSUME NEW t \in Things, DestroyThing(t) PROVE BufferStep(BufferOf(w), BufferOf(w)')
  <2> DEFINE gone == {t}
             chans == chan
  <2>1. /\ gone \subseteq Objects /\ SameButOwner(chans)
        /\ chan' = remove_all_obj_chan(chans, gone)
    BY <1>1, <1>6, ObjectFacts DEF DestroyThing, SameButOwner
  <2> HIDE DEF gone, chans
  <2> QED BY <1>5, <2>1
<1>7. ASSUME NEW p \in Players, NEW spared \in SUBSET Things, DestroyPlayer(p, spared)
      PROVE  BufferStep(BufferOf(w), BufferOf(w)')
  <2> DEFINE gone == {p} \cup ({t \in Things : owner[t] = p} \ spared)
             chans == chan_chownall(chan, p, God)
  <2>1. gone \subseteq Objects /\ chan' = remove_all_obj_chan(chans, gone)
    BY <1>7, ObjectFacts DEF DestroyPlayer
  <2>2. SameButOwner(chans)
    BY ChownedFacts
  <2> HIDE DEF gone, chans
  <2> QED BY <1>5, <2>1, <2>2
<1>8. ASSUME NEW t \in Things, NEW p \in Players, CreateThing(t, p)
      PROVE  BufferStep(BufferOf(w), BufferOf(w)')
  <2>1. chan' = chan
    BY <1>8 DEF CreateThing
  <2> QED BY <2>1, SameStep
<1>9. CASE Restart
  <2>1. chan'[w] = IF chan[w] = NOTHING THEN NOTHING ELSE LoadedChannel(chan[w])
    BY <1>9 DEF Restart
  <2>2. CASE chan[w] = NOTHING
    <3>1. BufferOf(w)' = NOTHING
      BY <2>1, <2>2 DEF BufferOf
    <3> QED BY <3>1 DEF BufferStep
  <2>3. CASE chan[w] # NOTHING
    <3> DEFINE a == chan[w].bufferq
               b == chan'[w].bufferq
    <3>1. chan[w] \in Channel
      BY <2>3, ChannelFacts
    <3>2. b = IF a = NOTHING THEN NOTHING ELSE allocate_bufferq(bufferq_blocks(a))
      BY <2>1, <2>3, <3>1 DEF LoadedChannel, Channel
    <3>3. BufferOf(w)' = NOTHING \/ BufferOf(w)' = b
      BY DEF BufferOf
    <3>4. a # NOTHING => bufferq_blocks(a) \in Nat
      BY <2>3, BlocksType DEF ChatInv, BuffersOk
    <3> HIDE DEF a, b
    <3>5. CASE BufferOf(w)' = NOTHING
      BY <3>5 DEF BufferStep
    <3>6. CASE BufferOf(w)' = b
      <4>1. b = NOTHING \/ \E n \in Nat : b = allocate_bufferq(n)
        BY <3>2, <3>4
      <4>2. CASE b = NOTHING
        BY <3>6, <4>2 DEF BufferStep
      <4>3. CASE \E n \in Nat : b = allocate_bufferq(n)
        BY <3>6, <4>3 DEF BufferStep
      <4> QED BY <4>1, <4>2, <4>3
    <3> QED BY <3>3, <3>5, <3>6
  <2> QED BY <2>2, <2>3
<1>10. CASE Membership
  <2>1. PICK o \in Objects, c \in Chans : Join(o, c) \/ Leave(o, c)
    BY <1>10 DEF Membership
  <2> QED BY <1>3, <1>4, <2>1
<1>11. CASE World
  BY <1>6, <1>7, <1>8, <1>11 DEF World
<1> QED BY <1>9, <1>10, <1>11

\* What a reader of Watched sees of a buffer.
Seen(b) == IF b = NOTHING THEN NOTHING ELSE Lines(b)

\* What happens to the bytes is a step of Scrollback, or none.
LEMMA ScrollStep ==
  ASSUME NEW a, NEW b, a # NOTHING => BufferOk(a), b # NOTHING => BufferOk(b), BufferStep(a, b)
  PROVE  \/ \E t \in Texts : /\ Seen(a) # NOTHING
                             /\ \E kept \in Suffixes(Seen(a)) : Seen(b) = Append(kept, t)
         \/ Seen(a) # NOTHING /\ Seen(b) \in Suffixes(Seen(a))
         \/ Seen(b) = NOTHING
         \/ Seen(a) = NOTHING /\ Seen(b) = <<>>
         \/ Seen(b) = Seen(a)
<1>1. CASE b = a
  BY <1>1 DEF Seen
<1>2. CASE b = NOTHING
  BY <1>2 DEF Seen
<1>3. \A c : BufferOk(c) => c # NOTHING /\ Lines(c) \in Seq(Texts) /\ Lines(c) # NOTHING
  BY BufferFacts, NullAssumption DEF BufferOk
<1>4. ASSUME a # NOTHING, b # NOTHING, NEW t \in Texts, b = add_to_bufferq(a, t)
      PROVE  \/ \E kept \in Suffixes(Lines(a)) : Lines(b) = Append(kept, t)
             \/ Lines(b) = Lines(a)
  BY <1>4, AddFacts
<1>5. ASSUME b # NOTHING, NEW n \in Nat, b = allocate_bufferq(n) PROVE Lines(b) = <<>>
  BY <1>5, AllocateFacts
<1>6. ASSUME a # NOTHING, b # NOTHING, NEW n \in Nat, b = reallocate_bufferq(a, n)
      PROVE  Lines(b) \in Suffixes(Lines(a))
  BY <1>6, ReallocateFacts
<1>7. a # NOTHING => <<>> \in Suffixes(Lines(a))
  BY <1>3, SuffixFacts
<1>8. CASE b # a /\ b # NOTHING
  <2>1. /\ Seen(b) = Lines(b)
        /\ a # NOTHING => Seen(a) = Lines(a) /\ Seen(a) # NOTHING
        /\ a = NOTHING => Seen(a) = NOTHING
    BY <1>3, <1>8 DEF Seen
  <2>2. CASE a # NOTHING /\ \E t \in Texts : b = add_to_bufferq(a, t)
    BY <1>4, <1>8, <2>1, <2>2
  <2>3. CASE \E n \in Nat : b = allocate_bufferq(n)
    <3>1. Lines(b) = <<>>
      BY <1>5, <1>8, <2>3
    <3> QED BY <1>7, <2>1, <3>1
  <2>4. CASE a # NOTHING /\ \E n \in Nat : b = reallocate_bufferq(a, n)
    <3>1. Lines(b) \in Suffixes(Lines(a))
      BY <1>6, <1>8, <2>4
    <3> QED BY <2>1, <2>4, <3>1
  <2> QED BY <1>8, <2>2, <2>3, <2>4 DEF BufferStep
<1> QED BY <1>1, <1>2, <1>8

\* The bytes of a channel's buffer implement Scrollback: every send, every
\* cbufferadd(), @channel/buffer, deletion and restart is a step of it or
\* leaves the lines alone (extchat.c on bufferq.c).
THEOREM Implements == Spec => KeepsScrollback
<1> DEFINE a == BufferOf(Watched)
           v == IF chan[Watched] = NOTHING \/ chan[Watched].bufferq = NOTHING THEN NOTHING
                ELSE Lines(chan[Watched].bufferq)
<1>0. Watched \in Chans
  BY ChoiceAssumption
<1>1. v = Seen(a) /\ v' = Seen(a')
  BY DEF Seen, BufferOf
<1>2. Init => Recall!Init
  BY <1>0 DEF Init, Recall!Init
<1>3. ChatInv /\ ChatInv' /\ [Next]_vars => [Recall!Next]_v
  <2> SUFFICES ASSUME ChatInv, ChatInv', [Next]_vars PROVE [Recall!Next]_v
    OBVIOUS
  <2>1. BufferStep(a, a')
    <3>1. CASE UNCHANGED vars
      BY <3>1, SameStep DEF vars
    <3>2. CASE Sending
      BY <1>0, <3>2, ScrollSending
    <3>3. CASE Admin
      BY <1>0, <3>3, ScrollAdmin
    <3>4. CASE Membership \/ World \/ Restart
      BY <1>0, <3>4, ScrollRest
    <3> QED BY <3>1, <3>2, <3>3, <3>4 DEF Next
  <2>2. a # NOTHING => BufferOk(a)
    BY <1>0 DEF ChatInv, BuffersOk, BufferOf
  <2>3. a' # NOTHING => BufferOk(a')
    BY <1>0 DEF ChatInv, BuffersOk, BufferOf
  <2>4. \/ \E t \in Texts : /\ Seen(a) # NOTHING
                            /\ \E kept \in Suffixes(Seen(a)) : Seen(a') = Append(kept, t)
        \/ Seen(a) # NOTHING /\ Seen(a') \in Suffixes(Seen(a))
        \/ Seen(a') = NOTHING
        \/ Seen(a) = NOTHING /\ Seen(a') = <<>>
        \/ Seen(a') = Seen(a)
    <3> DEFINE b == a'
    <3> HIDE DEF a, b
    <3>1. (a # NOTHING => BufferOk(a)) /\ (b # NOTHING => BufferOk(b)) /\ BufferStep(a, b)
      BY <2>1, <2>2, <2>3 DEF b
    <3>2. \/ \E t \in Texts : /\ Seen(a) # NOTHING
                              /\ \E kept \in Suffixes(Seen(a)) : Seen(b) = Append(kept, t)
          \/ Seen(a) # NOTHING /\ Seen(b) \in Suffixes(Seen(a))
          \/ Seen(b) = NOTHING
          \/ Seen(a) = NOTHING /\ Seen(b) = <<>>
          \/ Seen(b) = Seen(a)
      BY <3>1, ScrollStep
    <3> QED BY <3>2 DEF b
  <2>5. \/ \E t \in Texts : v # NOTHING /\ \E kept \in Suffixes(v) : v' = Append(kept, t)
        \/ v # NOTHING /\ v' \in Suffixes(v)
        \/ v' = NOTHING
        \/ v = NOTHING /\ v' = <<>>
        \/ v' = v
    <3> HIDE DEF a, v
    <3> QED BY <1>1, <2>4
  <2>6. \A s : Recall!Suffixes(s) = Suffixes(s)
    BY DEF Recall!Suffixes, Suffixes
  <2>7. \A t : Recall!Say(t) <=>
                 v # NOTHING /\ \E kept \in Recall!Suffixes(v) : v' = Append(kept, t)
    BY DEF Recall!Say
  <2>8. /\ Recall!Forget <=> (v # NOTHING /\ v' \in Recall!Suffixes(v))
        /\ Recall!Disable <=> v' = NOTHING
        /\ Recall!Enable <=> (v = NOTHING /\ v' = <<>>)
    BY DEF Recall!Forget, Recall!Disable, Recall!Enable
  <2> HIDE DEF v
  <2>9. CASE \E t \in Texts : v # NOTHING /\ \E kept \in Suffixes(v) : v' = Append(kept, t)
    <3>1. PICK t \in Texts : v # NOTHING /\ \E kept \in Suffixes(v) : v' = Append(kept, t)
      BY <2>9
    <3>2. Recall!Say(t)
      BY <2>6, <2>7, <3>1
    <3> QED BY <3>2 DEF Recall!Next
  <2>10. CASE v # NOTHING /\ v' \in Suffixes(v)
    <3>1. Recall!Forget
      BY <2>6, <2>8, <2>10
    <3> QED BY <3>1 DEF Recall!Next
  <2>11. CASE v' = NOTHING \/ (v = NOTHING /\ v' = <<>>)
    <3>1. Recall!Disable \/ Recall!Enable
      BY <2>8, <2>11
    <3> QED BY <3>1 DEF Recall!Next
  <2> QED BY <2>5, <2>9, <2>10, <2>11
<1>4. Recall!Spec <=> Recall!Init /\ [][Recall!Next]_v
  BY DEF Recall!Spec
<1> QED BY <1>2, <1>3, <1>4, Invariance, PTL DEF Spec, KeepsScrollback

=============================================================================
