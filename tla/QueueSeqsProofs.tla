-------------------------- MODULE QueueSeqsProofs ---------------------------
(***************************************************************************)
(* What the list traversals of QueueSeqs return, for every list, and how   *)
(* the sum of a function over a finite set changes with its values.        *)
(***************************************************************************)
EXTENDS QueueSeqs, SequencesExt, WellFoundedInduction, FiniteSetTheorems, TLAPS

\* Induction on the natural numbers, for a set instead of a predicate.
LEMMA NatSetInduction ==
  ASSUME NEW S, 0 \in S, \A n \in Nat : n \in S => n + 1 \in S
  PROVE  Nat \subseteq S
<1> SUFFICES ASSUME Nat \ S # {} PROVE FALSE
  OBVIOUS
<1>1. PICK x \in Nat \ S :
        \A y \in Nat \ S : ~(<<y, x>> \in OpToRel(<, Nat))
  BY NatLessThanWellFounded, WFMin, Nat \ S \subseteq Nat
<1>2. x # 0
  OBVIOUS
<1>3. x - 1 \in Nat /\ x - 1 < x
  BY <1>2
<1>4. x - 1 \in S
  BY <1>1, <1>3 DEF OpToRel
<1> QED
  BY <1>3, <1>4

\* A nonempty set of natural numbers has a least element.
LEMMA LeastElement ==
  ASSUME NEW S, S \subseteq Nat, S # {}
  PROVE  \E x \in S : \A y \in S : x <= y
<1>1. PICK x \in S : \A y \in S : ~(<<y, x>> \in OpToRel(<, Nat))
  BY NatLessThanWellFounded, WFMin
<1>2. ASSUME NEW y \in S, y < x PROVE FALSE
  <2>1. <<y, x>> \in OpToRel(<, Nat)
    BY <1>2 DEF OpToRel
  <2> QED
    BY <1>1, <2>1
<1>3. \A y \in S : ~(y < x)
  BY <1>2
<1>4. \A y \in S : x <= y
  BY <1>3
<1> QED
  BY <1>4

\* Induction up to n.
LEMMA UpTo ==
  ASSUME NEW n \in Nat, NEW S, 0 \in S, \A i \in 1..n : i - 1 \in S => i \in S
  PROVE  \A i \in 0..n : i \in S
<1> DEFINE ok == {i \in Nat : i <= n => i \in S}
<1>1. 0 \in ok
  OBVIOUS
<1>2. ASSUME NEW i \in Nat, i \in ok PROVE i + 1 \in ok
  <2>1. ASSUME i + 1 <= n PROVE i + 1 \in S
    <3>1. i + 1 \in 1..n /\ (i + 1) - 1 = i /\ i <= n
      BY <2>1
    <3> QED BY <1>2, <3>1
  <2> QED BY <2>1
<1>3. Nat \subseteq ok
  <2> HIDE DEF ok
  <2> QED BY <1>1, <1>2, NatSetInduction
<1> QED BY <1>3

\* The ranges and injectivity of the standard operations.
LEMMA AppendFacts ==
  ASSUME NEW T, NEW s \in Seq(T), NEW e \in T
  PROVE  /\ Append(s, e) \in Seq(T)
         /\ Range(Append(s, e)) = Range(s) \cup {e}
         /\ IsInjective(s) /\ e \notin Range(s) => IsInjective(Append(s, e))
<1>1. /\ Append(s, e) \in Seq(T) /\ Len(Append(s, e)) = Len(s) + 1
      /\ \A i \in 1..Len(s) : Append(s, e)[i] = s[i]
      /\ Append(s, e)[Len(s) + 1] = e
      /\ DOMAIN Append(s, e) = 1..(Len(s) + 1) /\ DOMAIN s = 1..Len(s)
      /\ Len(s) \in Nat
  OBVIOUS
<1>2. Range(Append(s, e)) = Range(s) \cup {e}
  BY <1>1 DEF Range
<1>3. IsInjective(s) /\ e \notin Range(s) => IsInjective(Append(s, e))
  BY <1>1 DEF IsInjective, Range
<1> QED
  BY <1>1, <1>2, <1>3

\* Concatenation: elements, length and injectivity.
LEMMA ConcatFacts ==
  ASSUME NEW T, NEW s \in Seq(T), NEW t \in Seq(T)
  PROVE  /\ s \o t \in Seq(T)
         /\ Range(s \o t) = Range(s) \cup Range(t)
         /\ IsInjective(s) /\ IsInjective(t) /\ Range(s) \cap Range(t) = {}
              => IsInjective(s \o t)
<1> DEFINE u == s \o t
<1>1. /\ u \in Seq(T) /\ Len(u) = Len(s) + Len(t)
      /\ \A i \in 1..Len(s) : u[i] = s[i]
      /\ \A i \in (Len(s) + 1)..(Len(s) + Len(t)) : u[i] = t[i - Len(s)]
      /\ DOMAIN u = 1..(Len(s) + Len(t))
      /\ DOMAIN s = 1..Len(s) /\ DOMAIN t = 1..Len(t)
      /\ Len(s) \in Nat /\ Len(t) \in Nat
  OBVIOUS
<1> HIDE DEF u
<1>4. \A i \in 1..(Len(s) + Len(t)) :
        i \in 1..Len(s) \/ i \in (Len(s) + 1)..(Len(s) + Len(t))
  BY <1>1
<1>5. \A i \in (Len(s) + 1)..(Len(s) + Len(t)) : i - Len(s) \in 1..Len(t)
  BY <1>1
<1>6. \A i \in 1..Len(s) : u[i] = s[i] /\ s[i] \in Range(s)
  BY <1>1 DEF Range
<1>7. \A i \in (Len(s) + 1)..(Len(s) + Len(t)) :
        u[i] = t[i - Len(s)] /\ t[i - Len(s)] \in Range(t)
  <2> SUFFICES ASSUME NEW i \in (Len(s) + 1)..(Len(s) + Len(t))
               PROVE  t[i - Len(s)] \in Range(t)
    BY <1>1
  <2>1. i - Len(s) \in DOMAIN t
    BY <1>1, <1>5
  <2> QED
    BY <2>1 DEF Range
<1>2. Range(u) = Range(s) \cup Range(t)
  <2>1. \A x \in Range(u) : x \in Range(s) \cup Range(t)
    <3> SUFFICES ASSUME NEW i \in 1..(Len(s) + Len(t))
                 PROVE  u[i] \in Range(s) \cup Range(t)
      BY <1>1 DEF Range
    <3> QED
      BY <1>4, <1>6, <1>7
  <2>2. \A x \in Range(s) : x \in Range(u)
    <3>1. \A i \in 1..Len(s) : i \in DOMAIN u
      BY <1>1
    <3> QED
      BY <1>1, <1>6, <3>1 DEF Range
  <2>3. ASSUME NEW x \in Range(t) PROVE x \in Range(u)
    <3>1. PICK i \in 1..Len(t) : x = t[i]
      BY <1>1 DEF Range
    <3>2. /\ i + Len(s) \in (Len(s) + 1)..(Len(s) + Len(t))
          /\ i + Len(s) \in DOMAIN u
          /\ (i + Len(s)) - Len(s) = i
      BY <1>1
    <3>3. u[i + Len(s)] = x
      BY <1>7, <3>1, <3>2
    <3> QED
      BY <3>2, <3>3 DEF Range
  <2> QED
    BY <2>1, <2>2, <2>3
<1>3. ASSUME IsInjective(s), IsInjective(t), Range(s) \cap Range(t) = {}
      PROVE  IsInjective(u)
  <2> SUFFICES ASSUME NEW a \in 1..(Len(s) + Len(t)),
                      NEW b \in 1..(Len(s) + Len(t)),
                      u[a] = u[b]
               PROVE  a = b
    BY <1>1 DEF IsInjective
  <2>2. CASE a \in 1..Len(s) /\ b \in 1..Len(s)
    BY <1>1, <1>3, <2>2 DEF IsInjective
  <2>3. CASE /\ a \in (Len(s) + 1)..(Len(s) + Len(t))
             /\ b \in (Len(s) + 1)..(Len(s) + Len(t))
    <3>1. /\ a - Len(s) \in DOMAIN t /\ b - Len(s) \in DOMAIN t
          /\ t[a - Len(s)] = t[b - Len(s)]
      BY <1>1, <1>5, <1>7, <2>3
    <3>2. a - Len(s) = b - Len(s)
      BY <1>3, <3>1 DEF IsInjective
    <3> QED
      BY <1>1, <3>2
  <2>4. CASE a \in 1..Len(s) /\ b \in (Len(s) + 1)..(Len(s) + Len(t))
    BY <1>3, <1>6, <1>7, <2>4
  <2>5. CASE a \in (Len(s) + 1)..(Len(s) + Len(t)) /\ b \in 1..Len(s)
    BY <1>3, <1>6, <1>7, <2>5
  <2> QED
    BY <1>4, <2>2, <2>3, <2>4, <2>5
<1> QED
  BY <1>1, <1>2, <1>3 DEF u

\* Where a subsequence comes from.
LEMMA SubSeqFacts ==
  ASSUME NEW T, NEW s \in Seq(T), NEW m \in Int, NEW n \in Int,
         1 <= m, n <= Len(s), m <= n + 1
  PROVE  /\ SubSeq(s, m, n) \in Seq(T)
         /\ Len(SubSeq(s, m, n)) = n - m + 1
         /\ \A i \in 1..(n - m + 1) : SubSeq(s, m, n)[i] = s[m + i - 1]
         /\ Range(SubSeq(s, m, n)) = {s[i] : i \in m..n}
         /\ IsInjective(s) => IsInjective(SubSeq(s, m, n))
<1>1. /\ SubSeq(s, m, n) \in Seq(T)
      /\ Len(SubSeq(s, m, n)) = n - m + 1
      /\ \A i \in 1..(n - m + 1) : SubSeq(s, m, n)[i] = s[m + i - 1]
      /\ DOMAIN SubSeq(s, m, n) = 1..(n - m + 1)
      /\ DOMAIN s = 1..Len(s) /\ Len(s) \in Nat
  OBVIOUS
<1>2. Range(SubSeq(s, m, n)) = {s[i] : i \in m..n}
  <2>1. \A x \in Range(SubSeq(s, m, n)) : x \in {s[i] : i \in m..n}
    BY <1>1 DEF Range
  <2>2. ASSUME NEW i \in m..n PROVE s[i] \in Range(SubSeq(s, m, n))
    <3>1. i - m + 1 \in 1..(n - m + 1) /\ m + (i - m + 1) - 1 = i
      OBVIOUS
    <3> QED
      BY <1>1, <3>1 DEF Range
  <2> QED
    BY <2>1, <2>2
<1>3. IsInjective(s) => IsInjective(SubSeq(s, m, n))
  BY <1>1 DEF IsInjective
<1> QED
  BY <1>1, <1>2, <1>3

\* The first elements of a list.
LEMMA TakeFacts ==
  ASSUME NEW T, NEW s \in Seq(T), NEW n \in Nat
  PROVE  /\ Take(s, n) \in Seq(T)
         /\ Range(Take(s, n)) \subseteq Range(s)
         /\ n <= Len(s) => Range(Take(s, n)) = {s[i] : i \in 1..n}
         /\ IsInjective(s) => IsInjective(Take(s, n))
<1>1. PICK k \in Nat : /\ k <= Len(s) /\ (n <= Len(s) => k = n)
                       /\ Take(s, n) = SubSeq(s, 1, k)
  <2>1. CASE n < Len(s)
    BY <2>1 DEF Take
  <2>2. CASE ~(n < Len(s))
    <3>1. Take(s, n) = SubSeq(s, 1, Len(s))
      BY <2>2 DEF Take
    <3>2. Len(s) \in Nat /\ (n <= Len(s) => Len(s) = n)
      BY <2>2
    <3> QED
      BY <3>1, <3>2
  <2> QED
    BY <2>1, <2>2
<1>2. 1 \in Int /\ k \in Int /\ 1 <= 1 /\ 1 <= k + 1
  OBVIOUS
<1>3. /\ SubSeq(s, 1, k) \in Seq(T)
      /\ Range(SubSeq(s, 1, k)) = {s[i] : i \in 1..k}
      /\ IsInjective(s) => IsInjective(SubSeq(s, 1, k))
  BY <1>1, <1>2, SubSeqFacts
<1>4. {s[i] : i \in 1..k} \subseteq Range(s)
  BY <1>1 DEF Range
<1> QED
  BY <1>1, <1>3, <1>4

\* Take and Drop cut a list in two.
LEMMA DropFacts ==
  ASSUME NEW T, NEW s \in Seq(T), NEW n \in Nat, n <= Len(s)
  PROVE  /\ Drop(s, n) \in Seq(T)
         /\ Len(Drop(s, n)) = Len(s) - n
         /\ \A i \in 1..(Len(s) - n) : Drop(s, n)[i] = s[n + i]
         /\ Range(Take(s, n)) \cup Range(Drop(s, n)) = Range(s)
         /\ IsInjective(s) => /\ IsInjective(Drop(s, n))
                              /\ Range(Take(s, n)) \cap Range(Drop(s, n)) = {}
<1>0. Len(s) \in Nat /\ DOMAIN s = 1..Len(s) /\ n <= Len(s)
  OBVIOUS
<1>1. n + 1 \in Int /\ Len(s) \in Int /\ 1 <= n + 1 /\ Len(s) <= Len(s)
      /\ n + 1 <= Len(s) + 1
  BY <1>0
<1>2. /\ Drop(s, n) \in Seq(T)
      /\ Len(Drop(s, n)) = Len(s) - (n + 1) + 1
      /\ \A i \in 1..(Len(s) - (n + 1) + 1) : Drop(s, n)[i] = s[(n + 1) + i - 1]
      /\ Range(Drop(s, n)) = {s[i] : i \in (n + 1)..Len(s)}
      /\ IsInjective(s) => IsInjective(Drop(s, n))
  BY <1>1, SubSeqFacts DEF Drop
<1>3. Range(Take(s, n)) = {s[i] : i \in 1..n}
  <2>1. Take(s, n) = SubSeq(s, 1, n)
    <3>1. CASE n < Len(s)
      BY <3>1 DEF Take
    <3>2. CASE n = Len(s)
      BY <3>2 DEF Take
    <3>3. \A m \in Nat : n <= m => n < m \/ n = m
      OBVIOUS
    <3> QED
      BY <1>0, <3>1, <3>2, <3>3
  <2>2. 1 \in Int /\ n \in Int /\ 1 <= 1 /\ 1 <= n + 1
    OBVIOUS
  <2>3. Range(SubSeq(s, 1, n)) = {s[i] : i \in 1..n}
    BY <2>2, SubSeqFacts
  <2> QED
    BY <2>1, <2>3
<1>4. Len(s) - (n + 1) + 1 = Len(s) - n /\ \A i \in Int : (n + 1) + i - 1 = n + i
  BY <1>0
<1>5. Range(Take(s, n)) \cup Range(Drop(s, n)) = Range(s)
  <2>1. 1..Len(s) = 1..n \cup (n + 1)..Len(s)
    BY <1>0
  <2> QED
    BY <1>0, <1>2, <1>3, <2>1 DEF Range
<1>6. IsInjective(s) => Range(Take(s, n)) \cap Range(Drop(s, n)) = {}
  <2> SUFFICES ASSUME IsInjective(s), NEW i \in 1..n, NEW j \in (n + 1)..Len(s)
               PROVE  s[i] # s[j]
    BY <1>2, <1>3
  <2>1. i \in DOMAIN s /\ j \in DOMAIN s /\ i # j
    BY <1>0
  <2> QED
    BY <2>1 DEF IsInjective
<1> QED
  BY <1>2, <1>4, <1>5, <1>6

\* A walk over a list always stops, at a place that FirstAfter describes.
LEMMA FirstAfterFacts ==
  ASSUME NEW T, NEW s \in Seq(T), NEW k \in Int, NEW key,
         \A i \in 1..Len(s) : key[s[i]] \in Int
  PROVE  /\ FirstAfter(s, key, k) \in 1..(Len(s) + 1)
         /\ \A j \in 1..(FirstAfter(s, key, k) - 1) : key[s[j]] <= k
         /\ FirstAfter(s, key, k) <= Len(s) => key[s[FirstAfter(s, key, k)]] > k
<1> DEFINE P(i) == /\ \A j \in 1..(i - 1) : key[s[j]] <= k
                   /\ i <= Len(s) => key[s[i]] > k
<1> DEFINE stops == {i \in 1..(Len(s) + 1) : i <= Len(s) => key[s[i]] > k}
<1>0. Len(s) \in Nat
  OBVIOUS
<1>1. stops \subseteq Nat /\ Len(s) + 1 \in stops
  BY <1>0
<1>2. PICK i \in stops : \A j \in stops : i <= j
  <2> HIDE DEF stops
  <2> QED
    BY <1>1, LeastElement
<1>3. ASSUME NEW j \in 1..(i - 1) PROVE key[s[j]] <= k
  <2>1. j \in 1..Len(s) /\ ~(i <= j)
    BY <1>0
  <2>2. j \notin stops
    BY <1>2, <2>1
  <2> QED
    BY <1>0, <2>1, <2>2
<1>4. i \in 1..(Len(s) + 1) /\ P(i)
  BY <1>3
<1>5. \E m \in 1..(Len(s) + 1) : P(m)
  BY <1>4
<1>6. FirstAfter(s, key, k) = CHOOSE m \in 1..(Len(s) + 1) : P(m)
  BY DEF FirstAfter
<1> HIDE DEF P
<1>7. FirstAfter(s, key, k) \in 1..(Len(s) + 1) /\ P(FirstAfter(s, key, k))
  BY <1>5, <1>6
<1> QED
  BY <1>7 DEF P

\* Linking an element into a list.
LEMMA InsertFacts ==
  ASSUME NEW T, NEW s \in Seq(T), NEW i \in 1..(Len(s) + 1), NEW e \in T
  PROVE  /\ Insert(s, i, e) \in Seq(T)
         /\ Len(Insert(s, i, e)) = Len(s) + 1
         /\ \A j \in 1..(i - 1) : Insert(s, i, e)[j] = s[j]
         /\ Insert(s, i, e)[i] = e
         /\ \A j \in (i + 1)..(Len(s) + 1) : Insert(s, i, e)[j] = s[j - 1]
         /\ Range(Insert(s, i, e)) = Range(s) \cup {e}
         /\ IsInjective(s) /\ e \notin Range(s) => IsInjective(Insert(s, i, e))
<1> DEFINE a == SubSeq(s, 1, i - 1)
           b == SubSeq(s, i, Len(s))
<1>0. Len(s) \in Nat /\ DOMAIN s = 1..Len(s)
  OBVIOUS
<1>1. /\ a \in Seq(T) /\ Len(a) = i - 1 /\ \A j \in 1..(i - 1) : a[j] = s[j]
      /\ b \in Seq(T) /\ Len(b) = Len(s) - i + 1
      /\ \A j \in 1..(Len(s) - i + 1) : b[j] = s[i + j - 1]
  BY <1>0
<1>2. Insert(s, i, e) = a \o <<e>> \o b
  BY DEF Insert
<1> HIDE DEF a, b
<1>3. /\ a \o <<e>> \in Seq(T) /\ Len(a \o <<e>>) = i
      /\ \A j \in 1..(i - 1) : (a \o <<e>>)[j] = s[j]
      /\ (a \o <<e>>)[i] = e
  BY <1>1
<1>4. /\ Insert(s, i, e) \in Seq(T) /\ Len(Insert(s, i, e)) = Len(s) + 1
      /\ \A j \in 1..(i - 1) : Insert(s, i, e)[j] = s[j]
      /\ Insert(s, i, e)[i] = e
  <2> DEFINE c == a \o <<e>>
  <2>1. c \in Seq(T) /\ Len(c) = i
    BY <1>3
  <2>2. /\ \A j \in 1..(i - 1) : c[j] = s[j]
        /\ c[i] = e
    BY <1>3
  <2>3. Insert(s, i, e) = c \o b
    BY <1>2
  <2> HIDE DEF c
  <2>4. c \o b \in Seq(T) /\ Len(c \o b) = Len(s) + 1
    <3>1. c \in Seq(T) /\ b \in Seq(T)
      BY <1>1, <2>1
    <3>2. c \o b \in Seq(T)
      BY <3>1
    <3>3. Len(c \o b) = Len(c) + Len(b)
      BY <3>1
    <3> QED BY <1>0, <1>1, <2>1, <3>2, <3>3
  <2>5. \A j \in 1..i : (c \o b)[j] = c[j]
    BY <1>0, <1>1, <2>1
  <2>6. i \in 1..i /\ \A j \in 1..(i - 1) : j \in 1..i
    BY <1>0
  <2> QED BY <2>2, <2>3, <2>4, <2>5, <2>6
<1>5. ASSUME NEW j \in (i + 1)..(Len(s) + 1) PROVE Insert(s, i, e)[j] = s[j - 1]
  <2>1. /\ j - i \in 1..Len(b) /\ i + (j - i) - 1 = j - 1
        /\ j \in (Len(a \o <<e>>) + 1)..(Len(a \o <<e>>) + Len(b))
    BY <1>0, <1>1, <1>3
  <2>2. Insert(s, i, e)[j] = b[j - i]
    BY <1>1, <1>2, <1>3, <2>1
  <2> QED
    BY <1>1, <2>1, <2>2
<1>6. DOMAIN Insert(s, i, e) = 1..(Len(s) + 1)
  BY <1>4
<1> DEFINE t == Insert(s, i, e)
<1> HIDE DEF t
<1>7. /\ \A j \in 1..(i - 1) : t[j] = s[j]
      /\ t[i] = e
      /\ \A j \in (i + 1)..(Len(s) + 1) : t[j] = s[j - 1]
      /\ DOMAIN t = 1..(Len(s) + 1)
  BY <1>4, <1>5, <1>6 DEF t
<1>8. Range(t) = Range(s) \cup {e}
  <2>1. \A x \in Range(t) : x \in Range(s) \cup {e}
    BY <1>0, <1>7 DEF Range
  <2>2. e \in Range(t)
    BY <1>0, <1>7 DEF Range
  <2>3. ASSUME NEW j \in 1..Len(s) PROVE s[j] \in Range(t)
    <3>1. CASE j < i
      BY <1>0, <1>7, <3>1 DEF Range
    <3>2. CASE j >= i
      <4>1. j + 1 \in (i + 1)..(Len(s) + 1) /\ (j + 1) - 1 = j
        BY <1>0, <3>2
      <4>2. t[j + 1] = s[j]
        BY <1>7, <4>1
      <4> QED
        BY <1>0, <1>7, <4>1, <4>2 DEF Range
    <3> QED
      BY <1>0, <3>1, <3>2
  <2> QED
    BY <1>0, <2>1, <2>2, <2>3 DEF Range
<1>9. ASSUME IsInjective(s), e \notin Range(s) PROVE IsInjective(t)
  <2>1. \A j \in 1..Len(s) : s[j] # e
    BY <1>0, <1>9 DEF Range
  <2>2. \A j, m \in 1..Len(s) : s[j] = s[m] => j = m
    BY <1>0, <1>9 DEF IsInjective
  <2> QED
    BY <1>0, <1>7, <2>1, <2>2 DEF IsInjective
<1> QED
  BY <1>4, <1>5, <1>8, <1>9 DEF t

\* Taking a list's first e out of it.
LEMMA RemoveFirstFacts ==
  ASSUME NEW T, NEW s \in Seq(T), NEW e, IsInjective(s)
  PROVE  /\ RemoveFirst(s, e) \in Seq(T)
         /\ Range(RemoveFirst(s, e)) = Range(s) \ {e}
         /\ IsInjective(RemoveFirst(s, e))
         /\ Len(RemoveFirst(s, e)) = IF e \in Range(s) THEN Len(s) - 1 ELSE Len(s)
         /\ \A i, j \in DOMAIN RemoveFirst(s, e) : i < j =>
              \E k, l \in DOMAIN s : /\ k < l /\ RemoveFirst(s, e)[i] = s[k]
                                     /\ RemoveFirst(s, e)[j] = s[l]
<1>0. Len(s) \in Nat /\ DOMAIN s = 1..Len(s)
  OBVIOUS
<1>1. CASE e \notin Range(s)
  <2>1. RemoveFirst(s, e) = s
    BY <1>0, <1>1 DEF RemoveFirst, Range
  <2>2. Range(s) \ {e} = Range(s)
    BY <1>1
  <2> QED BY <1>1, <2>1, <2>2
<1>2. CASE e \in Range(s)
  <2> DEFINE I == {i \in 1..Len(s) : s[i] = e}
             m == SelectInSeq(s, LAMBDA v : v = e)
             r == RemoveFirst(s, e)
  <2>1. I \subseteq Nat /\ I # {}
    BY <1>0, <1>2 DEF Range
  <2>2. m = CHOOSE x \in I : \A y \in I : x <= y
    BY <2>1 DEF SelectInSeq, Min
  <2>3. m \in I
    <3> HIDE DEF I, m
    <3>1. \E x \in I : \A y \in I : x <= y
      BY <2>1, LeastElement
    <3> QED BY <2>2, <3>1
  <2>4. r = RemoveAt(s, m)
    BY <1>0, <1>2 DEF RemoveFirst, Range
  <2> HIDE DEF m, r
  <2>5. m \in 1..Len(s) /\ s[m] = e
    BY <2>3
  <2> DEFINE a == SubSeq(s, 1, m - 1)
             b == SubSeq(s, m + 1, Len(s))
  <2>6. r = a \o b
    BY <2>4 DEF RemoveAt
  <2>7. /\ a \in Seq(T) /\ Len(a) = m - 1
        /\ b \in Seq(T) /\ Len(b) = Len(s) - m
        /\ \A i \in 1..(m - 1) : a[i] = s[i]
        /\ \A i \in 1..(Len(s) - m) : b[i] = s[m + i]
    <3>1. (m - 1) - 1 + 1 = m - 1 /\ Len(s) - (m + 1) + 1 = Len(s) - m
          /\ \A i \in Int : 1 + i - 1 = i /\ (m + 1) + i - 1 = m + i
      BY <1>0, <2>5
    <3>4. \A x, y \in Int : 1 <= x /\ y <= Len(s) /\ x <= y + 1 =>
            /\ SubSeq(s, x, y) \in Seq(T) /\ Len(SubSeq(s, x, y)) = y - x + 1
            /\ \A i \in 1..(y - x + 1) : SubSeq(s, x, y)[i] = s[x + i - 1]
      BY SubSeqFacts
    <3>5. /\ 1 \in Int /\ m - 1 \in Int /\ 1 <= 1 /\ m - 1 <= Len(s) /\ 1 <= (m - 1) + 1
          /\ m + 1 \in Int /\ Len(s) \in Int /\ 1 <= m + 1 /\ Len(s) <= Len(s)
          /\ m + 1 <= Len(s) + 1
      BY <1>0, <2>5
    <3>2. /\ a \in Seq(T) /\ Len(a) = (m - 1) - 1 + 1
          /\ \A i \in 1..((m - 1) - 1 + 1) : a[i] = s[1 + i - 1]
      BY <3>4, <3>5, Zenon
    <3>3. /\ b \in Seq(T) /\ Len(b) = Len(s) - (m + 1) + 1
          /\ \A i \in 1..(Len(s) - (m + 1) + 1) : b[i] = s[(m + 1) + i - 1]
      BY <3>4, <3>5, Zenon
    <3> HIDE DEF a, b
    <3>6. ASSUME NEW i \in 1..(m - 1) PROVE a[i] = s[i]
      <4>1. i \in 1..((m - 1) - 1 + 1) /\ 1 + i - 1 = i
        BY <2>5
      <4> QED BY <3>2, <4>1
    <3>7. ASSUME NEW i \in 1..(Len(s) - m) PROVE b[i] = s[m + i]
      <4>1. i \in 1..(Len(s) - (m + 1) + 1) /\ (m + 1) + i - 1 = m + i
        BY <1>0, <2>5
      <4> QED BY <3>3, <4>1
    <3> QED BY <3>1, <3>2, <3>3, <3>6, <3>7
  <2> HIDE DEF a, b
  <2>8. /\ r \in Seq(T) /\ Len(r) = Len(s) - 1 /\ DOMAIN r = 1..(Len(s) - 1)
        /\ \A i \in 1..(Len(s) - 1) : r[i] = IF i < m THEN s[i] ELSE s[i + 1]
    <3>1. /\ r \in Seq(T) /\ Len(r) = Len(a) + Len(b)
          /\ DOMAIN r = 1..(Len(a) + Len(b))
          /\ \A i \in 1..Len(a) : r[i] = a[i]
          /\ \A i \in (Len(a) + 1)..(Len(a) + Len(b)) : r[i] = b[i - Len(a)]
      <4>1. a \in Seq(T) /\ b \in Seq(T)
        BY <2>7
      <4> QED BY <2>6, <4>1
    <3>2. Len(a) + Len(b) = Len(s) - 1 /\ (m - 1) + 1 = m
      BY <1>0, <2>5, <2>7
    <3>3. ASSUME NEW i \in 1..(Len(s) - 1)
          PROVE  r[i] = IF i < m THEN s[i] ELSE s[i + 1]
      <4>1. CASE i < m
        <5>1. i \in 1..(m - 1)
          BY <2>5, <4>1
        <5>2. r[i] = a[i] /\ a[i] = s[i]
          BY <2>7, <3>1, <5>1
        <5> QED BY <4>1, <5>2
      <4>2. CASE ~(i < m)
        <5>1. i \in ((m - 1) + 1)..(Len(s) - 1)
          BY <1>0, <2>5, <4>2
        <5>2. r[i] = b[i - (m - 1)]
          BY <2>7, <3>1, <3>2, <5>1
        <5>3. i - (m - 1) \in 1..(Len(s) - m) /\ m + (i - (m - 1)) = i + 1
          BY <1>0, <2>5, <4>2
        <5>4. b[i - (m - 1)] = s[m + (i - (m - 1))]
          BY <2>7, <5>3
        <5> QED BY <4>2, <5>2, <5>3, <5>4
      <4> QED BY <4>1, <4>2
    <3> QED BY <3>1, <3>2, <3>3
  <2> DEFINE at(i) == IF i < m THEN i ELSE i + 1
  <2>9. /\ \A i \in 1..(Len(s) - 1) : at(i) \in 1..Len(s) /\ at(i) # m /\ r[i] = s[at(i)]
        /\ \A i, j \in 1..(Len(s) - 1) : i < j => at(i) < at(j)
        /\ \A k \in 1..Len(s) : k # m => \E i \in 1..(Len(s) - 1) : at(i) = k
    <3>1. \A i \in 1..(Len(s) - 1) : at(i) \in 1..Len(s) /\ at(i) # m /\ r[i] = s[at(i)]
      BY <1>0, <2>5, <2>8
    <3>2. \A i, j \in 1..(Len(s) - 1) : i < j => at(i) < at(j)
      BY <1>0, <2>5
    <3>3. ASSUME NEW k \in 1..Len(s), k # m PROVE \E i \in 1..(Len(s) - 1) : at(i) = k
      <4>1. CASE k < m
        <5>1. k \in 1..(Len(s) - 1) /\ at(k) = k
          BY <1>0, <2>5, <4>1
        <5> QED BY <5>1
      <4>2. CASE k > m
        <5>1. k - 1 \in 1..(Len(s) - 1) /\ at(k - 1) = k
          BY <1>0, <2>5, <4>2
        <5> QED BY <5>1
      <4> QED BY <1>0, <2>5, <3>3, <4>1, <4>2
    <3> QED BY <3>1, <3>2, <3>3
  <2> HIDE DEF at
  <2>10. Range(r) = Range(s) \ {e}
    <3>1. ASSUME NEW i \in 1..(Len(s) - 1) PROVE r[i] \in Range(s) \ {e}
      BY <1>0, <2>5, <2>9 DEF Range, IsInjective
    <3>2. ASSUME NEW k \in 1..Len(s), s[k] # e PROVE s[k] \in Range(r)
      BY <2>5, <2>8, <2>9, <3>2 DEF Range
    <3> QED BY <1>0, <2>8, <3>1, <3>2 DEF Range
  <2>11. IsInjective(r)
    <3> SUFFICES ASSUME NEW i \in 1..(Len(s) - 1), NEW j \in 1..(Len(s) - 1), r[i] = r[j]
                 PROVE  i = j
      BY <2>8 DEF IsInjective
    <3>1. s[at(i)] = s[at(j)] /\ at(i) \in DOMAIN s /\ at(j) \in DOMAIN s
      BY <1>0, <2>9
    <3>2. at(i) = at(j)
      BY <3>1 DEF IsInjective
    <3>3. ~(i < j) /\ ~(j < i)
      BY <1>0, <2>9, <3>2
    <3> QED BY <1>0, <3>3
  <2>12. \A i, j \in DOMAIN r : i < j =>
           \E k, l \in DOMAIN s : k < l /\ r[i] = s[k] /\ r[j] = s[l]
    <3> SUFFICES ASSUME NEW i \in DOMAIN r, NEW j \in DOMAIN r, i < j
                 PROVE  \E k, l \in DOMAIN s : k < l /\ r[i] = s[k] /\ r[j] = s[l]
      OBVIOUS
    <3>2. i \in 1..(Len(s) - 1) /\ j \in 1..(Len(s) - 1)
      BY <2>8
    <3>1. /\ at(i) \in 1..Len(s) /\ at(j) \in 1..Len(s) /\ at(i) < at(j)
          /\ r[i] = s[at(i)] /\ r[j] = s[at(j)]
      BY <2>9, <3>2
    <3> QED BY <1>0, <3>1
  <2> QED BY <1>2, <2>8, <2>10, <2>11, <2>12 DEF r
<1> QED BY <1>1, <1>2

\* t holds exactly the elements of s that are in S, in their order: e tells
\* where in s each of them was.
Embeds(t, s, n, S, T) ==
  /\ t \in Seq(T)
  /\ \E e \in [1..Len(t) -> 1..n] :
       /\ \A i \in 1..Len(t) : t[i] = s[e[i]]
       /\ \A i, j \in 1..Len(t) : i < j => e[i] < e[j]
  /\ Range(t) = {s[i] : i \in 1..n} \cap S

\* The value of the recursive function in Keep at i.
Kept(s, S, f, i) ==
  IF i = 0 THEN << >>
  ELSE IF s[i] \in S THEN Append(f[i - 1], s[i])
  ELSE f[i - 1]

\* The recursion of Keep defines a function.
LEMMA KeptExists ==
  ASSUME NEW s, NEW S
  PROVE  \A n \in Nat : \E f : f = [i \in 0..n |-> Kept(s, S, f, i)]
<1> DEFINE ok == {n \in Nat : \E f : f = [i \in 0..n |-> Kept(s, S, f, i)]}
<1>1. 0 \in ok
  <2> DEFINE f == [i \in 0..0 |-> << >>]
  <2>1. f = [i \in 0..0 |-> Kept(s, S, f, i)]
    BY DEF Kept
  <2> QED
    BY <2>1
<1>2. ASSUME NEW n \in Nat, n \in ok PROVE n + 1 \in ok
  <2>1. PICK f : f = [i \in 0..n |-> Kept(s, S, f, i)]
    BY <1>2
  <2> DEFINE last == IF s[n + 1] \in S THEN Append(f[n], s[n + 1]) ELSE f[n]
             g == [i \in 0..(n + 1) |-> IF i = n + 1 THEN last ELSE f[i]]
  <2>2. ASSUME NEW i \in 0..(n + 1) PROVE g[i] = Kept(s, S, g, i)
    <3>1. CASE i = n + 1
      <4>1. g[i] = last /\ i # 0 /\ i - 1 = n /\ n \in 0..(n + 1) /\ n # n + 1
        BY <3>1
      <4>2. g[i - 1] = f[n]
        BY <4>1
      <4> QED
        BY <3>1, <4>1, <4>2 DEF Kept
    <3>2. CASE i = 0
      <4>1. g[0] = f[0] /\ f[0] = << >>
        BY <2>1 DEF Kept
      <4> QED
        BY <3>2, <4>1 DEF Kept
    <3>3. CASE i # 0 /\ i # n + 1
      <4>1. i \in 0..n /\ i - 1 \in 0..n /\ i - 1 # n + 1 /\ i - 1 \in 0..(n + 1)
        BY <3>3
      <4>2. g[i] = f[i] /\ g[i - 1] = f[i - 1]
        BY <3>3, <4>1
      <4>3. f[i] = Kept(s, S, f, i)
        BY <2>1, <4>1
      <4> QED
        BY <3>3, <4>2, <4>3 DEF Kept
    <3> QED
      BY <3>1, <3>2, <3>3
  <2>3. g = [i \in 0..(n + 1) |-> Kept(s, S, g, i)]
    BY <2>2
  <2> HIDE DEF g
  <2> QED
    BY <2>3
<1> HIDE DEF ok
<1>3. Nat \subseteq ok
  BY <1>1, <1>2, NatSetInduction
<1> QED
  BY <1>3 DEF ok

\* What an unlinking walk leaves.
LEMMA KeepEmbeds ==
  ASSUME NEW T, NEW s \in Seq(T), NEW S
  PROVE  Embeds(Keep(s, S), s, Len(s), S, T)
<1> DEFINE F == CHOOSE f : f = [i \in 0..Len(s) |-> Kept(s, S, f, i)]
<1>1. Keep(s, S) = F[Len(s)]
  BY DEF Keep, Kept
<1>2. F = [i \in 0..Len(s) |-> Kept(s, S, F, i)]
  <2>1. \E f : f = [i \in 0..Len(s) |-> Kept(s, S, f, i)]
    BY KeptExists, Len(s) \in Nat
  <2> QED
    BY <2>1
<1> HIDE DEF F
<1> DEFINE ok == {n \in Nat : n <= Len(s) => Embeds(F[n], s, n, S, T)}
<1>3. 0 \in ok
  <2>1. F[0] = << >>
    BY <1>2, Len(s) \in Nat DEF Kept
  <2>2. << >> \in Seq(T) /\ Len(<< >>) = 0 /\ Range(<< >>) = {}
    BY DEF Range
  <2> DEFINE z == << >>
             e == [i \in 1..0 |-> i]
  <2>3. /\ e \in [1..Len(z) -> 1..0]
        /\ \A i \in 1..Len(z) : z[i] = s[e[i]]
        /\ \A i, j \in 1..Len(z) : i < j => e[i] < e[j]
    BY <2>2
  <2>5. z \in Seq(T) /\ Range(z) = {s[i] : i \in 1..0} \cap S
    BY <2>2
  <2> HIDE DEF z, e
  <2>4. Embeds(z, s, 0, S, T)
    BY <2>3, <2>5 DEF Embeds
  <2> QED
    BY <2>1, <2>4 DEF z
<1>4. ASSUME NEW n \in Nat, n \in ok PROVE n + 1 \in ok
  <2> SUFFICES ASSUME n + 1 <= Len(s)
               PROVE  Embeds(F[n + 1], s, n + 1, S, T)
    OBVIOUS
  <2> DEFINE t == F[n]
             x == s[n + 1]
  <2>1. Embeds(t, s, n, S, T)
    BY <1>4
  <2>2. F[n + 1] = IF x \in S THEN Append(t, x) ELSE t
    <3>1. n + 1 \in 0..Len(s) /\ n + 1 # 0 /\ (n + 1) - 1 = n
      OBVIOUS
    <3> QED
      BY <1>2, <3>1 DEF Kept
  <2> HIDE DEF t
  <2>3. t \in Seq(T) /\ x \in T /\ Len(t) \in Nat
    BY <2>1 DEF Embeds
  <2>4. PICK e \in [1..Len(t) -> 1..n] :
          /\ \A i \in 1..Len(t) : t[i] = s[e[i]]
          /\ \A i, j \in 1..Len(t) : i < j => e[i] < e[j]
    BY <2>1 DEF Embeds
  <2>5. {s[i] : i \in 1..(n + 1)} = {s[i] : i \in 1..n} \cup {x}
    OBVIOUS
  <2> HIDE DEF x
  <2>6. Range(t) = {s[i] : i \in 1..n} \cap S
    BY <2>1 DEF Embeds
  <2>7. CASE x \notin S
    <3>1. e \in [1..Len(t) -> 1..(n + 1)]
      BY <2>3
    <3> QED
      BY <2>2, <2>3, <2>4, <2>5, <2>6, <2>7, <3>1 DEF Embeds
  <2>8. CASE x \in S
    <3> DEFINE u == Append(t, x)
               d == [i \in 1..(Len(t) + 1) |-> IF i = Len(t) + 1 THEN n + 1 ELSE e[i]]
    <3>1. /\ u \in Seq(T) /\ Len(u) = Len(t) + 1
          /\ \A i \in 1..Len(t) : u[i] = t[i]
          /\ u[Len(t) + 1] = x
      BY <2>3
    <3>2. Range(u) = Range(t) \cup {x}
      BY <2>3, AppendFacts
    <3>3. d \in [1..(Len(t) + 1) -> 1..(n + 1)]
      BY <2>3
    <3>4. \A i \in 1..(Len(t) + 1) : u[i] = s[d[i]]
      BY <2>3, <2>4, <3>1 DEF x
    <3>9. /\ \A i \in 1..Len(t) : d[i] = e[i] /\ e[i] \in 1..n
          /\ d[Len(t) + 1] = n + 1
      BY <2>3
    <3> HIDE DEF u, d
    <3>5. \A i, j \in 1..(Len(t) + 1) : i < j => d[i] < d[j]
      <4> SUFFICES ASSUME NEW i \in 1..(Len(t) + 1), NEW j \in 1..(Len(t) + 1),
                          i < j
                   PROVE  d[i] < d[j]
        OBVIOUS
      <4>1. i \in 1..Len(t)
        BY <2>3
      <4>2. CASE j = Len(t) + 1
        BY <3>9, <4>1, <4>2
      <4>3. CASE j \in 1..Len(t)
        <5>1. e[i] < e[j]
          BY <2>4, <4>1, <4>3
        <5>2. d[i] = e[i] /\ d[j] = e[j]
          BY <3>9, <4>1, <4>3
        <5> QED
          BY <5>1, <5>2
      <4>4. \A m \in Nat : \A k \in 1..(m + 1) : k = m + 1 \/ k \in 1..m
        OBVIOUS
      <4> QED
        BY <2>3, <4>2, <4>3, <4>4
    <3>6. \E c \in [1..Len(u) -> 1..(n + 1)] :
             /\ \A i \in 1..Len(u) : u[i] = s[c[i]]
             /\ \A i, j \in 1..Len(u) : i < j => c[i] < c[j]
      BY <3>1, <3>3, <3>4, <3>5
    <3>7. Range(u) = {s[i] : i \in 1..(n + 1)} \cap S
      BY <2>5, <2>6, <2>8, <3>2
    <3> QED
      BY <2>2, <2>8, <3>1, <3>6, <3>7 DEF Embeds, u
  <2> QED
    BY <2>7, <2>8
<1> HIDE DEF ok
<1>5. Nat \subseteq ok
  BY <1>3, <1>4, NatSetInduction
<1> QED
  BY <1>1, <1>5, Len(s) \in Nat DEF ok

\* The consequences that the invariants of the queues need.
LEMMA KeepFacts ==
  ASSUME NEW T, NEW s \in Seq(T), NEW S
  PROVE  /\ Keep(s, S) \in Seq(T)
         /\ Range(Keep(s, S)) = Range(s) \cap S
         /\ IsInjective(s) => IsInjective(Keep(s, S))
<1> DEFINE t == Keep(s, S)
<1>1. Embeds(t, s, Len(s), S, T)
  BY KeepEmbeds
<1> HIDE DEF t
<1>2. PICK e \in [1..Len(t) -> 1..Len(s)] :
        /\ \A i \in 1..Len(t) : t[i] = s[e[i]]
        /\ \A i, j \in 1..Len(t) : i < j => e[i] < e[j]
  BY <1>1 DEF Embeds
<1>3. t \in Seq(T) /\ DOMAIN t = 1..Len(t) /\ DOMAIN s = 1..Len(s)
      /\ Len(t) \in Nat /\ Len(s) \in Nat
  BY <1>1 DEF Embeds
<1>4. IsInjective(s) => IsInjective(t)
  BY <1>2, <1>3 DEF IsInjective
<1>5. Range(t) = Range(s) \cap S
  BY <1>1, <1>3 DEF Embeds, Range
<1> QED
  BY <1>3, <1>4, <1>5 DEF t

-----------------------------------------------------------------------------
\* Folds over finite sets.

\* The subsets of S of at most n elements.
Small(S, n) == {s \in SUBSET S : Cardinality(s) <= n}

\* A set without the element that the fold takes from it is smaller.
LEMMA SmallStep ==
  ASSUME NEW S, IsFiniteSet(S), NEW s \in SUBSET S, s # {}
  PROVE  LET t == CHOOSE x \in s : TRUE
         IN  /\ t \in s /\ s \ {t} \in SUBSET S
             /\ IsFiniteSet(s) /\ Cardinality(s) \in Nat
             /\ Cardinality(s \ {t}) = Cardinality(s) - 1
             /\ Cardinality(s) # 0
<1>1. IsFiniteSet(s)
  BY FS_Subset
<1>2. Cardinality(s) \in Nat /\ Cardinality(s) # 0
  BY <1>1, FS_CardinalityType, FS_EmptySet
<1> DEFINE t == CHOOSE x \in s : TRUE
<1>3. t \in s
  OBVIOUS
<1> HIDE DEF t
<1>4. Cardinality(s \ {t}) = Cardinality(s) - 1
  BY <1>1, <1>3, FS_RemoveElement
<1> QED BY <1>1, <1>2, <1>3, <1>4 DEF t

\* Induction over the subsets of a finite set.
LEMMA SubsetInduction ==
  ASSUME NEW S, IsFiniteSet(S), NEW ok,
         {} \in ok,
         \A s \in SUBSET S : s # {} /\ s \ {CHOOSE x \in s : TRUE} \in ok => s \in ok
  PROVE  \A s \in SUBSET S : s \in ok
<1> DEFINE P == {n \in Nat : \A s \in SUBSET S : Cardinality(s) = n => s \in ok}
<1>1. 0 \in P
  <2>1. \A s \in SUBSET S : Cardinality(s) = 0 => s = {}
    BY FS_Subset, FS_EmptySet
  <2> QED BY <2>1
<1>2. ASSUME NEW n \in Nat, n \in P PROVE n + 1 \in P
  <2> SUFFICES ASSUME NEW s \in SUBSET S, Cardinality(s) = n + 1
               PROVE  s \in ok
    OBVIOUS
  <2> DEFINE t == CHOOSE x \in s : TRUE
  <2>1. s # {}
    <3>1. Cardinality({}) = 0
      BY FS_EmptySet
    <3> QED BY <3>1
  <2>2. s \ {t} \in SUBSET S /\ Cardinality(s \ {t}) = n
    <3>1. s \ {t} \in SUBSET S /\ Cardinality(s \ {t}) = Cardinality(s) - 1
      BY <2>1, SmallStep
    <3>2. (n + 1) - 1 = n
      OBVIOUS
    <3> HIDE DEF t
    <3> QED BY <3>1, <3>2
  <2>3. s \ {t} \in ok
    BY <1>2, <2>2
  <2> QED BY <2>1, <2>3
<1> HIDE DEF P
<1>3. Nat \subseteq P
  BY <1>1, <1>2, NatSetInduction
<1> SUFFICES ASSUME NEW s \in SUBSET S PROVE s \in ok
  OBVIOUS
<1>4. Cardinality(s) \in Nat
  BY FS_Subset, FS_CardinalityType
<1> QED BY <1>3, <1>4 DEF P

\* One step of the fold that sums the values of f.
Summed(f, g, s) ==
  IF s = {} THEN 0
  ELSE LET t == CHOOSE x \in s : TRUE IN f[t] + g[s \ {t}]

\* The recursive function of that fold exists.
LEMMA SummedExists ==
  ASSUME NEW f, NEW S, IsFiniteSet(S)
  PROVE  \E g : g = [s \in SUBSET S |-> Summed(f, g, s)]
<1> DEFINE ok == {n \in Nat : \E g : g = [s \in Small(S, n) |-> Summed(f, g, s)]}
<1>0. \A s \in SUBSET S : IsFiniteSet(s) /\ Cardinality(s) \in Nat
                          /\ (Cardinality(s) = 0 => s = {})
  BY FS_Subset, FS_CardinalityType, FS_EmptySet
<1>1. 0 \in ok
  <2> DEFINE g == [s \in Small(S, 0) |-> 0]
  <2>1. ASSUME NEW s \in Small(S, 0) PROVE s = {}
    <3>1. s \in SUBSET S /\ Cardinality(s) <= 0
      BY DEF Small
    <3> QED BY <1>0, <3>1
  <2>2. g = [s \in Small(S, 0) |-> Summed(f, g, s)]
    BY <2>1 DEF Summed
  <2> HIDE DEF g
  <2> QED BY <2>2
<1>2. ASSUME NEW n \in Nat, n \in ok PROVE n + 1 \in ok
  <2>1. PICK g : g = [s \in Small(S, n) |-> Summed(f, g, s)]
    BY <1>2
  <2> DEFINE h == [s \in Small(S, n + 1) |-> Summed(f, g, s)]
  <2>2. ASSUME NEW s \in Small(S, n + 1) PROVE h[s] = Summed(f, h, s)
    <3>0. s \in SUBSET S /\ Cardinality(s) <= n + 1
      BY DEF Small
    <3>1. CASE s = {}
      BY <3>1 DEF Summed
    <3>2. CASE s # {}
      <4> DEFINE t == CHOOSE x \in s : TRUE
      <4>1. /\ s \ {t} \in SUBSET S /\ Cardinality(s) \in Nat
            /\ Cardinality(s \ {t}) = Cardinality(s) - 1
        BY <3>0, <3>2, SmallStep
      <4>2. s \ {t} \in Small(S, n) /\ s \ {t} \in Small(S, n + 1)
        BY <3>0, <4>1 DEF Small
      <4>3. g[s \ {t}] = h[s \ {t}]
        BY <2>1, <4>2
      <4>4. /\ Summed(f, g, s) = f[t] + g[s \ {t}]
            /\ Summed(f, h, s) = f[t] + h[s \ {t}]
        BY <3>2 DEF Summed
      <4> QED BY <4>3, <4>4
    <3> QED BY <3>1, <3>2
  <2>3. h = [s \in Small(S, n + 1) |-> Summed(f, h, s)]
    BY <2>2
  <2> HIDE DEF h
  <2> QED BY <2>3
<1> HIDE DEF ok
<1>3. Nat \subseteq ok
  BY <1>1, <1>2, NatSetInduction
<1>4. Cardinality(S) \in Nat
  BY FS_CardinalityType
<1>5. Small(S, Cardinality(S)) = SUBSET S
  <2>1. \A s \in SUBSET S : Cardinality(s) <= Cardinality(S)
    BY FS_Subset
  <2> QED BY <2>1 DEF Small
<1> QED BY <1>3, <1>4, <1>5 DEF ok

\* The sums of f over the subsets of its domain.
Sums(f) == CHOOSE g : g = [s \in SUBSET (DOMAIN f) |-> Summed(f, g, s)]

\* They are computed by taking one element after another.
LEMMA SumsFacts ==
  ASSUME NEW f, IsFiniteSet(DOMAIN f)
  PROVE  /\ SumFunction(f) = Sums(f)[DOMAIN f]
         /\ Sums(f)[{}] = 0
         /\ \A s \in SUBSET (DOMAIN f) : s # {} =>
              LET t == CHOOSE x \in s : TRUE
              IN  Sums(f)[s] = f[t] + Sums(f)[s \ {t}]
<1>1. SumFunction(f) = Sums(f)[DOMAIN f]
  BY DEF SumFunction, SumFunctionOnSet, FoldFunctionOnSet, MapThenFoldSet, Sums, Summed
<1>2. Sums(f) = [s \in SUBSET (DOMAIN f) |-> Summed(f, Sums(f), s)]
  BY SummedExists DEF Sums
<1> QED BY <1>1, <1>2 DEF Summed

\* A sum of integers is an integer.
LEMMA SumType ==
  ASSUME NEW D, IsFiniteSet(D), NEW f \in [D -> Int]
  PROVE  SumFunction(f) \in Int
<1>0. DOMAIN f = D
  OBVIOUS
<1> DEFINE F == Sums(f)
           ok == {s \in SUBSET D : F[s] \in Int}
<1>1. F[{}] = 0 /\ F[D] = SumFunction(f)
  BY <1>0, SumsFacts
<1>2. ASSUME NEW s \in SUBSET D, s # {}, s \ {CHOOSE x \in s : TRUE} \in ok
      PROVE  s \in ok
  <2> DEFINE t == CHOOSE x \in s : TRUE
  <2>1. F[s] = f[t] + F[s \ {t}] /\ t \in s
    BY <1>0, <1>2, SumsFacts
  <2>2. F[s \ {t}] \in Int
    BY <1>2
  <2> HIDE DEF t, F
  <2> QED BY <2>1, <2>2
<1>3. {} \in ok
  BY <1>1
<1> HIDE DEF ok
<1>4. \A s \in SUBSET D : s \in ok
  BY <1>2, <1>3, SubsetInduction
<1> QED BY <1>1, <1>4 DEF ok

\* A sum of zeros is zero.
LEMMA SumZero ==
  ASSUME NEW D, IsFiniteSet(D)
  PROVE  SumFunction([x \in D |-> 0]) = 0
<1> DEFINE f == [x \in D |-> 0]
<1>0. DOMAIN f = D /\ \A x \in D : f[x] = 0
  OBVIOUS
<1> DEFINE F == Sums(f)
           ok == {s \in SUBSET D : F[s] = 0}
<1> HIDE DEF f
<1>1. F[{}] = 0 /\ F[D] = SumFunction(f)
  BY <1>0, SumsFacts
<1>2. ASSUME NEW s \in SUBSET D, s # {}, s \ {CHOOSE x \in s : TRUE} \in ok
      PROVE  s \in ok
  <2> DEFINE t == CHOOSE x \in s : TRUE
  <2>1. F[s] = f[t] + F[s \ {t}] /\ t \in s
    BY <1>0, <1>2, SumsFacts
  <2>2. F[s \ {t}] = 0
    BY <1>2
  <2> HIDE DEF t, F
  <2> QED BY <1>0, <2>1, <2>2
<1>3. {} \in ok
  BY <1>1
<1> HIDE DEF ok
<1>4. \A s \in SUBSET D : s \in ok
  BY <1>2, <1>3, SubsetInduction
<1> QED BY <1>1, <1>4 DEF ok, f

\* f with another value for x.
With(f, x, v) == [f EXCEPT ![x] = v]

\* Another value for one element changes the sum by the difference.
LEMMA SumWith ==
  ASSUME NEW D, IsFiniteSet(D), NEW f \in [D -> Int], NEW x \in D, NEW v \in Int
  PROVE  SumFunction(With(f, x, v)) = SumFunction(f) - f[x] + v
<1> DEFINE g == With(f, x, v)
<1>0. /\ DOMAIN f = D /\ DOMAIN g = D /\ g[x] = v
      /\ \A y \in D : y # x => g[y] = f[y]
  BY DEF With
<1> HIDE DEF g
<1> DEFINE F == Sums(f)
           G == Sums(g)
           Moved(s) == /\ F[s] \in Int /\ G[s] \in Int
                       /\ x \in s => G[s] = F[s] - f[x] + v
                       /\ x \notin s => G[s] = F[s]
           ok == {s \in SUBSET D : Moved(s)}
<1>1. /\ F[{}] = 0 /\ F[D] = SumFunction(f)
      /\ G[{}] = 0 /\ G[D] = SumFunction(g)
  BY <1>0, SumsFacts
<1>2. ASSUME NEW s \in SUBSET D, s # {}, s \ {CHOOSE y \in s : TRUE} \in ok
      PROVE  s \in ok
  <2> DEFINE t == CHOOSE y \in s : TRUE
             r == s \ {t}
  <2>1. F[s] = f[t] + F[r] /\ G[s] = g[t] + G[r] /\ t \in s
    BY <1>0, <1>2, SumsFacts
  <2>2. Moved(r)
    BY <1>2
  <2>3. (x \in s => t = x \/ x \in r) /\ (x \notin s => t # x /\ x \notin r)
        /\ (t = x => x \notin r)
    BY <2>1
  <2>4. f[t] \in Int /\ f[x] \in Int /\ t \in D
    BY <2>1
  <2> HIDE DEF t, F, G, r
  <2>5. CASE t = x
    BY <1>0, <2>1, <2>2, <2>3, <2>4, <2>5
  <2>6. CASE t # x
    BY <1>0, <2>1, <2>2, <2>3, <2>4, <2>6
  <2> QED BY <2>5, <2>6
<1>3. {} \in ok
  BY <1>1
<1> HIDE DEF ok
<1>4. \A s \in SUBSET D : s \in ok
  BY <1>2, <1>3, SubsetInduction
<1> QED BY <1>1, <1>4 DEF ok, g

\* Multiplication by a natural number keeps the order.
LEMMA TimesFacts ==
  /\ \A c, a, b \in Nat : c * (a + b) = c * a + c * b
  /\ \A c, a, b \in Nat : a <= b => c * a <= c * b
  /\ \A c, a \in Nat : c * a \in Nat
  /\ \A c \in Nat : c * 0 = 0
<1>1. \A c, a, b \in Nat : c * (a + b) = c * a + c * b
  OBVIOUS
<1>2. \A c, a \in Nat : c * a \in Nat
  OBVIOUS
<1>3. \A c, a, b \in Nat : a <= b => c * a <= c * b
  <2> SUFFICES ASSUME NEW c \in Nat, NEW a \in Nat, NEW b \in Nat, a <= b
               PROVE  c * a <= c * b
    OBVIOUS
  <2> DEFINE d == b - a
  <2>1. d \in Nat /\ b = a + d
    OBVIOUS
  <2> HIDE DEF d
  <2>2. c * b = c * a + c * d /\ c * d \in Nat /\ c * a \in Nat
    BY <1>1, <1>2, <2>1
  <2> QED BY <2>2
<1> QED BY <1>1, <1>2, <1>3

\* When each value grows by at most c for each element of a share of P, and
\* the shares are disjoint, the sum grows by at most c for each element of P.
LEMMA SumShares ==
  ASSUME NEW D, IsFiniteSet(D), NEW P, IsFiniteSet(P), NEW c \in Nat,
         NEW f \in [D -> Int], NEW g \in [D -> Int], NEW M \in [D -> SUBSET P],
         \A x, y \in D : x # y => M[x] \cap M[y] = {},
         \A x \in D : g[x] <= f[x] + c * Cardinality(M[x])
  PROVE  SumFunction(g) <= SumFunction(f) + c * Cardinality(P)
<1> DEFINE h(s) == [x \in D |-> IF x \in s THEN g[x] ELSE f[x]]
           U(s) == UNION {M[x] : x \in s}
           Grown(s) == SumFunction(h(s)) <= SumFunction(f) + c * Cardinality(U(s))
           ok == {s \in SUBSET D : Grown(s)}
<1>0. SumFunction(f) \in Int /\ \A s \in SUBSET D : h(s) \in [D -> Int]
  BY SumType
<1>1. \A s \in SUBSET D : U(s) \in SUBSET P /\ IsFiniteSet(U(s)) /\ Cardinality(U(s)) \in Nat
  <2> SUFFICES ASSUME NEW s \in SUBSET D
               PROVE  U(s) \in SUBSET P /\ IsFiniteSet(U(s)) /\ Cardinality(U(s)) \in Nat
    OBVIOUS
  <2>1. U(s) \in SUBSET P
    OBVIOUS
  <2> HIDE DEF U
  <2> QED BY <2>1, FS_Subset, FS_CardinalityType
<1>2. {} \in ok
  <2>1. h({}) = f /\ U({}) = {}
    OBVIOUS
  <2>2. c * Cardinality(U({})) = 0
    BY <2>1, FS_EmptySet, TimesFacts
  <2> HIDE DEF h, U
  <2> QED BY <1>0, <2>1, <2>2
<1>3. ASSUME NEW s \in SUBSET D, s # {}, s \ {CHOOSE x \in s : TRUE} \in ok
      PROVE  s \in ok
  <2> DEFINE t == CHOOSE x \in s : TRUE
             r == s \ {t}
  <2>1. t \in s /\ r \in SUBSET D /\ t \in D /\ t \notin r
    BY <1>3
  <2>2. Grown(r)
    BY <1>3
  <2> HIDE DEF t
  <2>3. h(s) = With(h(r), t, g[t]) /\ h(r)[t] = f[t] /\ h(r) \in [D -> Int]
    BY <2>1 DEF With
  <2>4. U(s) = U(r) \cup M[t] /\ U(r) \cap M[t] = {} /\ M[t] \in SUBSET P
    <3>1. s = r \cup {t}
      BY <2>1
    <3> QED BY <2>1, <3>1
  <2> HIDE DEF r, h, U
  <2>5. SumFunction(h(s)) = SumFunction(h(r)) - f[t] + g[t]
    BY <2>1, <2>3, SumWith
  <2>6. /\ IsFiniteSet(M[t]) /\ IsFiniteSet(U(r)) /\ Cardinality(U(r)) \in Nat
        /\ Cardinality(M[t]) \in Nat
    BY <1>1, <2>1, <2>4, FS_Subset, FS_CardinalityType
  <2>7. Cardinality(U(s)) = Cardinality(U(r)) + Cardinality(M[t])
    <3>1. Cardinality(U(r) \cup M[t]) =
            Cardinality(U(r)) + Cardinality(M[t]) - Cardinality(U(r) \cap M[t])
      BY <2>6, FS_Union
    <3>2. Cardinality(U(r) \cap M[t]) = 0
      BY <2>4, FS_EmptySet
    <3> QED BY <2>4, <2>6, <3>1, <3>2
  <2>8. c * Cardinality(U(s)) = c * Cardinality(U(r)) + c * Cardinality(M[t])
        /\ c * Cardinality(U(r)) \in Nat /\ c * Cardinality(M[t]) \in Nat
    BY <2>6, <2>7, TimesFacts
  <2>9. SumFunction(h(r)) \in Int /\ f[t] \in Int /\ g[t] \in Int
        /\ g[t] <= f[t] + c * Cardinality(M[t])
    BY <2>1, <2>3, SumType
  <2> DEFINE a == SumFunction(h(r))
             b == c * Cardinality(U(r))
             d == c * Cardinality(M[t])
             z == SumFunction(f)
  <2>10. a \in Int /\ b \in Nat /\ d \in Nat /\ z \in Int /\ a <= z + b
         /\ g[t] <= f[t] + d /\ g[t] \in Int /\ f[t] \in Int
    BY <1>0, <2>2, <2>8, <2>9
  <2>11. SumFunction(h(s)) = a - f[t] + g[t] /\ c * Cardinality(U(s)) = b + d
    BY <2>5, <2>8
  <2> HIDE DEF a, b, d, z
  <2>12. a - f[t] + g[t] <= z + (b + d)
    BY <2>10
  <2> QED BY <2>11, <2>12 DEF z
<1> HIDE DEF ok
<1>4. D \in ok
  <2>1. \A s \in SUBSET D : s \in ok
    BY <1>2, <1>3, SubsetInduction
  <2> QED BY <2>1
<1>5. h(D) = g
  OBVIOUS
<1>6. SumFunction(g) <= SumFunction(f) + c * Cardinality(U(D))
  BY <1>4, <1>5 DEF ok
<1> HIDE DEF U, h
<1>7. U(D) \in SUBSET P /\ Cardinality(U(D)) \in Nat /\ Cardinality(P) \in Nat
  BY <1>1, FS_CardinalityType
<1>8. Cardinality(U(D)) <= Cardinality(P)
  BY <1>7, FS_Subset
<1>9. c * Cardinality(U(D)) <= c * Cardinality(P)
      /\ c * Cardinality(U(D)) \in Nat /\ c * Cardinality(P) \in Nat
  BY <1>7, <1>8, TimesFacts
<1>10. SumFunction(g) \in Int
  BY SumType
<1> DEFINE a == c * Cardinality(U(D))
           b == c * Cardinality(P)
<1> HIDE DEF a, b
<1> QED BY <1>0, <1>6, <1>9, <1>10 DEF a, b

=============================================================================
