------------------------- MODULE CommandQueueProofs -------------------------
(***************************************************************************)
(* Type correctness of the command queues, the partition of the entries    *)
(* among the lists, and the order of the wait queue, for every database,   *)
(* every configuration and every number of entries.                        *)
(*                                                                         *)
(* Each operation is a function from states to states, so the invariant is *)
(* a predicate Good on states and each operation has a lemma that it takes *)
(* good states to good states.                                             *)
(***************************************************************************)
EXTENDS CommandQueue, QueueSeqsProofs, FiniteSetTheorems, TLAPS

\* The entry tables: functions from some pids to entries.
QMaps == UNION {[P -> MQUE] : P \in SUBSET PID}

\* The typed states of the queue code.
State ==
  [qfirst : Seq(PID), qwait : Seq(PID), qsem : Seq(PID), running : Seq(PID),
   queue_map : QMaps, top_pid : 1..(MAX_PID + 1),
   queue : [Objects -> Int], pennies : [Players -> 0..MAX_PENNIES],
   sem : [SemKeys -> Int], owner : [Objects -> Players],
   powers : [Objects -> SUBSET Powers],
   halted : SUBSET Objects, garbage : SUBSET Objects]

\* Every allocated entry is in one place, and only allocated ones are.
Linked(s) ==
  Disjoint(s) /\ DOMAIN s.queue_map = Listed(s) \cup Range(s.running)

\* The wait queue q is in order of due time in the table m.
Sorted(q, m) ==
  \A i, j \in 1..Len(q) : i < j => m[q[i]].wait_until <= m[q[j]].wait_until

\* The states between two commands in which nothing dangles.
Good(s) == s \in State /\ Linked(s) /\ Sorted(s.qwait, s.queue_map)

-----------------------------------------------------------------------------
\* Dbrefs and pids are integers, and NOTHING is no dbref.
LEMMA ObjectFacts ==
  /\ Players \subseteq Objects /\ NOTHING \notin Objects
  /\ Objects \subseteq Int /\ PID \subseteq Int
BY ConfigAssumption DEF Objects, NOTHING, PID

\* Membership in QMaps, without the union.
LEMMA QMapFacts ==
  \A m : m \in QMaps <=> DOMAIN m \subseteq PID /\ m \in [DOMAIN m -> MQUE]
BY DEF QMaps

\* Sets of pids are finite.
LEMMA PidCardinality ==
  ASSUME NEW P, P \subseteq PID
  PROVE  Cardinality(P) \in Nat
<1>1. IsFiniteSet(PID)
  BY ConfigAssumption, FS_Interval DEF PID
<1>2. IsFiniteSet(P)
  BY <1>1, FS_Subset
<1> QED
  BY <1>2, FS_CardinalityType

\* What n deposits (QUEUE_COST each) amount to is a natural number.
LEMMA CostTimes == ASSUME NEW n \in Nat PROVE QUEUE_COST * n \in Nat
BY ConfigAssumption

\* giveto() never takes a player above Max_Pennies.
LEMMA CappedType ==
  ASSUME NEW n \in Nat PROVE Capped(n) \in 0..MAX_PENNIES
BY ConfigAssumption DEF Capped

\* The entries of the lists of a state are pids.
LEMMA ListedPids ==
  ASSUME NEW s \in State
  PROVE  /\ Range(s.qfirst) \subseteq PID /\ Range(s.qwait) \subseteq PID
         /\ Range(s.qsem) \subseteq PID /\ Range(s.running) \subseteq PID
         /\ Listed(s) \subseteq PID
<1>1. \A q \in Seq(PID) : Range(q) \subseteq PID
  BY DEF Range
<1>2. s.qfirst \in Seq(PID) /\ s.qwait \in Seq(PID) /\ s.qsem \in Seq(PID)
      /\ s.running \in Seq(PID)
  BY DEF State
<1> QED
  BY <1>1, <1>2 DEF Listed

\* An operation on money, counters, semaphores or flags only.
LEMMA SameLists ==
  ASSUME NEW s, Good(s), NEW t \in State,
         t.qfirst = s.qfirst, t.qwait = s.qwait, t.qsem = s.qsem,
         t.running = s.running, t.queue_map = s.queue_map
  PROVE  Good(t)
BY DEF Good, Linked, Disjoint, Listed

-----------------------------------------------------------------------------
\* giveto() changes pennies only.
LEMMA GivetoType ==
  ASSUME NEW s, Good(s), NEW x \in Objects, NEW n \in Nat
  PROVE  Good(giveto(s, x, n))
<1>1. s \in State
  BY DEF Good
<1>2. s.owner[x] \in Players /\ s.pennies[s.owner[x]] \in Nat
  BY <1>1, ConfigAssumption DEF State
<1>3. Capped(s.pennies[s.owner[x]] + n) \in 0..MAX_PENNIES
  BY <1>2, CappedType
<1>4. giveto(s, x, n) \in State
  BY <1>1, <1>2, <1>3 DEF giveto, State
<1> QED
  BY <1>1, <1>4, SameLists DEF giveto, State

\* add_to() changes counts only.
LEMMA AddToType ==
  ASSUME NEW s, Good(s), NEW x \in Objects, NEW am \in Int
  PROVE  /\ Good(add_to(s, x, am))
         /\ Counter(s, x) \in Objects
<1>1. s \in State
  BY DEF Good
<1>2. Counter(s, x) \in Objects
  BY <1>1, ObjectFacts DEF State, Counter
<1> DEFINE q == [s.queue EXCEPT ![Counter(s, x)] = @ + am]
<1>3. q \in [Objects -> Int] /\ add_to(s, x, am) = [s EXCEPT !.queue = q]
  BY <1>1, <1>2 DEF add_to, State
<1> HIDE DEF q
<1>4. add_to(s, x, am) \in State
  BY <1>1, <1>3 DEF State
<1> QED
  BY <1>1, <1>2, <1>4, SameLists DEF add_to, State

\* add_to_sem() changes semaphores only.
LEMMA AddToSemType ==
  ASSUME NEW s, Good(s), NEW k \in SemKeys, NEW am \in Int
  PROVE  Good(add_to_sem(s, k, am))
<1>1. s \in State
  BY DEF Good
<1> DEFINE q == [s.sem EXCEPT ![k] = @ + am]
<1>2. q \in [SemKeys -> Int] /\ add_to_sem(s, k, am) = [s EXCEPT !.sem = q]
  BY <1>1 DEF add_to_sem, State
<1> HIDE DEF q
<1>3. add_to_sem(s, k, am) \in State
  BY <1>1, <1>2 DEF State
<1> QED
  BY <1>1, <1>3, SameLists DEF add_to_sem, State

-----------------------------------------------------------------------------
\* Unlinking keeps the order.
LEMMA KeepSorted ==
  ASSUME NEW q \in Seq(PID), NEW S, NEW m, NEW w, Sorted(q, m),
         \A p \in Range(q) \cap S : w[p].wait_until = m[p].wait_until
  PROVE  Sorted(Keep(q, S), w)
<1> DEFINE t == Keep(q, S)
<1>1. Embeds(t, q, Len(q), S, PID)
  BY KeepEmbeds
<1>2. Range(t) = Range(q) \cap S
  BY KeepFacts
<1> HIDE DEF t
<1>3. PICK e \in [1..Len(t) -> 1..Len(q)] :
        /\ \A i \in 1..Len(t) : t[i] = q[e[i]]
        /\ \A i, j \in 1..Len(t) : i < j => e[i] < e[j]
  BY <1>1 DEF Embeds
<1>4. t \in Seq(PID) /\ \A i \in 1..Len(t) : t[i] \in Range(q) \cap S
  BY <1>1, <1>2 DEF Embeds, Range
<1>5. SUFFICES ASSUME NEW i \in 1..Len(t), NEW j \in 1..Len(t), i < j
               PROVE  w[t[i]].wait_until <= w[t[j]].wait_until
  BY DEF Sorted, t
<1>6. m[q[e[i]]].wait_until <= m[q[e[j]]].wait_until
  BY <1>3, <1>5 DEF Sorted
<1> QED
  BY <1>3, <1>4, <1>6

\* An operation that frees the entries outside stay, none of which is in the
\* command queue or running.
LEMMA TrimGood ==
  ASSUME NEW s, Good(s), NEW t \in State, NEW stay, NEW U,
         stay \subseteq DOMAIN s.queue_map,
         Range(s.qfirst) \subseteq stay, Range(s.running) \subseteq stay,
         t.qfirst = s.qfirst, t.running = s.running,
         t.qwait = Keep(s.qwait, stay), t.qsem = Keep(s.qsem, U),
         Range(s.qsem) \cap U = Range(s.qsem) \cap stay,
         DOMAIN t.queue_map = stay,
         \A p \in stay :
            t.queue_map[p].wait_until = s.queue_map[p].wait_until
  PROVE  Good(t)
<1>1. /\ s \in State /\ Linked(s) /\ Sorted(s.qwait, s.queue_map)
      /\ s.qwait \in Seq(PID) /\ s.qsem \in Seq(PID)
  BY DEF Good, State
<1>2. /\ Range(t.qwait) = Range(s.qwait) \cap stay
      /\ Range(t.qsem) = Range(s.qsem) \cap stay
      /\ IsInjective(t.qwait) /\ IsInjective(t.qsem)
  BY <1>1, KeepFacts DEF Linked, Disjoint
<1>3. Linked(t)
  BY <1>1, <1>2 DEF Linked, Disjoint, Listed
<1>4. Sorted(t.qwait, t.queue_map)
  BY <1>1, KeepSorted
<1> QED
  BY <1>3, <1>4 DEF Good

\* The entries that a halt removes are in the lists.
LEMMA EntriesListed ==
  ASSUME NEW s \in State, NEW V
  PROVE  /\ UNION {EntriesOf(s, v) : v \in V} \subseteq Listed(s)
         /\ Cardinality(UNION {EntriesOf(s, v) : v \in V}) \in Nat
<1>1. UNION {EntriesOf(s, v) : v \in V} \subseteq Listed(s)
  BY DEF EntriesOf
<1> QED
  BY <1>1, ListedPids, PidCardinality


\* do_halt() marks or unlinks and frees, and leaves the rest in order.
LEMMA HaltGood ==
  ASSUME NEW s, Good(s), NEW V
  PROVE  Good(do_halt(s, V))
<1> DEFINE mine == UNION {EntriesOf(s, v) : v \in V}
           gone == mine \ Range(s.qfirst)
           stay == DOMAIN s.queue_map \ gone
           back(W) == Cardinality(UNION {EntriesOf(s, v) : v \in W})
           m == [p \in stay |->
                   IF p \in mine THEN [s.queue_map[p] EXCEPT !.executor = NOTHING]
                   ELSE s.queue_map[p]]
           sm == [k \in SemKeys |->
                    s.sem[k] - Waiters(s, gone \cap Range(s.qsem), k)]
           mo == [pl \in Players |->
                    Capped(s.pennies[pl] + QUEUE_COST *
                      back({v \in V : s.owner[v] = pl /\ ~NoPay(s, v)}))]
           qu == [x \in Objects |-> s.queue[x] - back({v \in V : Counter(s, v) = x})]
           t == [s EXCEPT !.qwait = Keep(@, stay), !.qsem = Keep(@, stay),
                          !.queue_map = m, !.sem = sm, !.pennies = mo,
                          !.queue = qu]
<1>1. do_halt(s, V) = t
  BY DEF do_halt
<1>2. s \in State /\ Linked(s) /\ s.queue_map \in QMaps
      /\ s.qwait \in Seq(PID) /\ s.qsem \in Seq(PID)
  BY DEF Good, State
<1>3. m \in QMaps /\ DOMAIN m = stay
      /\ \A p \in stay : m[p].wait_until = s.queue_map[p].wait_until
  <2> HIDE DEF gone, mine
  <2>1. \A p \in stay : s.queue_map[p] \in MQUE
    BY <1>2, QMapFacts
  <2>2. \A e \in MQUE : /\ [e EXCEPT !.executor = NOTHING] \in MQUE
                        /\ [e EXCEPT !.executor = NOTHING].wait_until = e.wait_until
    BY DEF MQUE
  <2>3. \A p \in stay : m[p] \in MQUE /\ m[p].wait_until = s.queue_map[p].wait_until
    BY <2>1, <2>2
  <2>4. m \in [stay -> MQUE] /\ stay \subseteq PID
    BY <1>2, <2>3, QMapFacts
  <2> QED
    BY <2>3, <2>4, QMapFacts
<1>4. gone \cap Range(s.qsem) \subseteq PID
  BY <1>2, ListedPids
<1>5. \A k \in SemKeys : Waiters(s, gone \cap Range(s.qsem), k) \in Nat
  BY <1>4, PidCardinality DEF Waiters
<1>6. sm \in [SemKeys -> Int]
  <2> HIDE DEF gone
  <2>1. s.sem \in [SemKeys -> Int]
    BY <1>2 DEF State
  <2> QED
    BY <1>5, <2>1
<1>7. \A W : back(W) \in Nat
  BY <1>2, EntriesListed
<1>8. qu \in [Objects -> Int]
  <2> HIDE DEF back
  <2> QED
    BY <1>2, <1>7 DEF State
<1>9. mo \in [Players -> 0..MAX_PENNIES]
  <2> HIDE DEF back
  <2>1. ASSUME NEW pl \in Players, NEW n \in Nat
        PROVE  Capped(s.pennies[pl] + QUEUE_COST * n) \in 0..MAX_PENNIES
    <3>1. QUEUE_COST * n \in Nat
      BY CostTimes
    <3>2. s.pennies[pl] \in Nat
      BY <1>2, ConfigAssumption DEF State
    <3>3. s.pennies[pl] + QUEUE_COST * n \in Nat
      BY <3>1, <3>2
    <3> QED
      BY <3>3, CappedType
  <2> QED
    BY <1>7, <2>1
<1>10. mine \subseteq Listed(s)
  BY <1>2, EntriesListed
<1>11. /\ stay \subseteq DOMAIN s.queue_map
       /\ Range(s.qfirst) \subseteq stay /\ Range(s.running) \subseteq stay
  BY <1>2, <1>10 DEF Linked, Disjoint, Listed
<1>12. Keep(s.qwait, stay) \in Seq(PID) /\ Keep(s.qsem, stay) \in Seq(PID)
  BY <1>2, KeepFacts
<1> HIDE DEF m, sm, mo, qu, stay
<1>13. t \in State
  BY <1>2, <1>3, <1>6, <1>8, <1>9, <1>12 DEF State
<1>14. /\ t.qfirst = s.qfirst /\ t.running = s.running
       /\ t.qwait = Keep(s.qwait, stay) /\ t.qsem = Keep(s.qsem, stay)
       /\ t.queue_map = m
  BY <1>2 DEF State
<1> HIDE DEF t
<1>15. Good(t)
  BY <1>3, <1>11, <1>13, <1>14, TrimGood
<1> QED
  BY <1>1, <1>15

-----------------------------------------------------------------------------
\* Queueing.

\* get_random_u32() in pay_queue() adds nothing or one.
LEMMA LossType == \A loss \in LossChoices : loss \in {0, 1}
BY ConfigAssumption DEF LossChoices

\* Setting HALT flags does not concern the lists.
LEMMA HaltedGood ==
  ASSUME NEW s, Good(s), NEW H \in SUBSET Objects
  PROVE  Good([s EXCEPT !.halted = H])
<1>1. s \in State
  BY DEF Good
<1>2. [s EXCEPT !.halted = H] \in State
  BY <1>1 DEF State
<1> QED
  BY <1>1, <1>2, SameLists DEF State

\* pay_queue() keeps the lists in order, even when it halts the payer.
LEMMA PayGood ==
  ASSUME NEW s, Good(s), NEW x \in Objects, NEW loss \in {0, 1}
  PROVE  Good(pay_queue(s, x, loss).s)
<1> DEFINE cost == QUEUE_COST + loss
           pl == s.owner[x]
           payed == IF NoPay(s, x) THEN s ELSE [s EXCEPT !.pennies[pl] = @ - cost]
           count == add_to(payed, x, 1)
           undo == do_halt(add_to(giveto(count, x, QUEUE_COST), x, -1), {x})
           poor == ~NoPay(s, x) /\ s.pennies[pl] < cost
           over == count.queue[Counter(s, x)] > QueueLimit(s, x)
<1>0. s \in State /\ pl \in Players
  BY DEF Good, State
<1>1. s \in State /\ pl \in Players /\ cost \in Nat /\ QUEUE_COST \in Nat
  BY <1>0, ConfigAssumption
<1>2. /\ poor => pay_queue(s, x, loss).s = s
      /\ ~poor /\ over =>
           pay_queue(s, x, loss).s = [undo EXCEPT !.halted = @ \cup {x}]
      /\ ~poor /\ ~over => pay_queue(s, x, loss).s = count
  BY DEF pay_queue
<1> SUFFICES ASSUME ~poor PROVE Good(count) /\ Good([undo EXCEPT !.halted = @ \cup {x}])
  BY <1>2
<1>3. Good(payed)
  <2>1. CASE NoPay(s, x)
    BY <2>1
  <2>2. CASE ~NoPay(s, x)
    <3> DEFINE mo == [s.pennies EXCEPT ![pl] = @ - cost]
    <3>1. s.pennies[pl] \in 0..MAX_PENNIES /\ ~(s.pennies[pl] < cost)
      BY <1>1, <2>2 DEF State
    <3>2. s.pennies[pl] - cost \in 0..MAX_PENNIES
      BY <1>1, <3>1, ConfigAssumption
    <3>3. mo \in [Players -> 0..MAX_PENNIES] /\ payed = [s EXCEPT !.pennies = mo]
      BY <1>1, <2>2, <3>2 DEF State
    <3> HIDE DEF mo
    <3>4. payed \in State
      BY <1>1, <3>3 DEF State
    <3> QED
      BY <1>1, <3>3, <3>4, SameLists DEF State
  <2> QED
    BY <2>1, <2>2
<1> HIDE DEF payed
<1>4. Good(count)
  BY <1>3, AddToType
<1> HIDE DEF count
<1>5. Good(giveto(count, x, QUEUE_COST))
  BY <1>1, <1>4, GivetoType
<1>6. Good(add_to(giveto(count, x, QUEUE_COST), x, -1))
  BY <1>5, AddToType
<1>7. Good(undo)
  BY <1>6, HaltGood
<1> HIDE DEF undo
<1>8. undo.halted \cup {x} \in SUBSET Objects
  BY <1>7 DEF Good, State
<1>9. Good([undo EXCEPT !.halted = undo.halted \cup {x}])
  BY <1>7, <1>8, HaltedGood
<1> QED
  BY <1>4, <1>9

\* next_pid() finds a pid that is not in use, or none.
LEMMA NextPidFree ==
  ASSUME NEW s
  PROVE  next_pid(s) = 0 \/ next_pid(s) \in PID \ DOMAIN s.queue_map
<1> DEFINE free == PID \ DOMAIN s.queue_map
           above == {p \in free : p >= s.top_pid}
           from == IF above # {} THEN above ELSE free
<1>1. next_pid(s) = IF free = {} THEN 0 ELSE Smallest(from)
  BY DEF next_pid
<1>2. from \subseteq free /\ free \subseteq Nat /\ (free # {} => from # {})
  BY DEF PID
<1> HIDE DEF from
<1>3. ASSUME free # {} PROVE Smallest(from) \in from
  <2>1. \E x \in from : \A y \in from : x <= y
    BY <1>2, <1>3, LeastElement
  <2> QED
    BY <2>1 DEF Smallest
<1> QED
  BY <1>1, <1>2, <1>3

\* What new entries get from pay_queue() and next_pid(): a free pid or 0.
LEMMA AdmitGood ==
  ASSUME NEW s, Good(s), NEW x \in Objects, NEW loss \in {0, 1}
  PROVE  /\ Good(admit(s, x, loss).s)
         /\ \/ admit(s, x, loss).pid = 0
            \/ admit(s, x, loss).pid \in
                 PID \ DOMAIN admit(s, x, loss).s.queue_map
<1>1. admit(s, x, loss).s = pay_queue(s, x, loss).s
  BY DEF admit
<1>2. admit(s, x, loss).pid =
        IF pay_queue(s, x, loss).ok THEN next_pid(pay_queue(s, x, loss).s) ELSE 0
  BY DEF admit
<1> QED
  BY <1>1, <1>2, PayGood, NextPidFree

\* A new entry is in the table but not yet in a list.
LEMMA InsertedMap ==
  ASSUME NEW s, Good(s), NEW pid \in PID \ DOMAIN s.queue_map, NEW e \in MQUE
  PROVE  /\ im_insert(s, pid, e) \in State
         /\ im_insert(s, pid, e).queue_map \in QMaps
         /\ DOMAIN im_insert(s, pid, e).queue_map = DOMAIN s.queue_map \cup {pid}
         /\ im_insert(s, pid, e).queue_map[pid] = e
         /\ \A p \in DOMAIN s.queue_map :
              im_insert(s, pid, e).queue_map[p] = s.queue_map[p]
         /\ im_insert(s, pid, e).qfirst = s.qfirst
         /\ im_insert(s, pid, e).qwait = s.qwait
         /\ im_insert(s, pid, e).qsem = s.qsem
         /\ im_insert(s, pid, e).running = s.running
<1> DEFINE m == [p \in DOMAIN s.queue_map \cup {pid} |->
                   IF p = pid THEN e ELSE s.queue_map[p]]
<1>1. s \in State /\ s.queue_map \in QMaps
  BY DEF Good, State
<1>2. im_insert(s, pid, e) = [s EXCEPT !.queue_map = m, !.top_pid = pid + 1]
  BY DEF im_insert
<1>3. m \in QMaps /\ pid + 1 \in 1..(MAX_PID + 1)
  BY <1>1, QMapFacts, ConfigAssumption DEF PID
<1>4. /\ DOMAIN m = DOMAIN s.queue_map \cup {pid} /\ m[pid] = e
      /\ \A p \in DOMAIN s.queue_map : m[p] = s.queue_map[p]
  OBVIOUS
<1> HIDE DEF m
<1>5. im_insert(s, pid, e) \in State
  BY <1>1, <1>2, <1>3 DEF State
<1> QED
  BY <1>1, <1>2, <1>3, <1>4, <1>5 DEF State

\* A new entry at the end of the command queue.
LEMMA ToCommandQueueGood ==
  ASSUME NEW s, Good(s), NEW x \in Objects, NEW loss \in {0, 1}
  PROVE  Good(ToCommandQueue(s, x, loss))
<1> DEFINE a == admit(s, x, loss)
           e == new_queue_entry(x, NOTHING, NULL, 0)
           i == im_insert(a.s, a.pid, e)
           t == [i EXCEPT !.qfirst = Append(@, a.pid)]
<1>1. ToCommandQueue(s, x, loss) = IF a.pid = 0 THEN a.s ELSE t
  BY DEF ToCommandQueue
<1>2. Good(a.s) /\ (a.pid = 0 \/ a.pid \in PID \ DOMAIN a.s.queue_map)
  BY AdmitGood
<1>3. e \in MQUE
  BY DEF new_queue_entry, MQUE
<1> HIDE DEF a, e
<1> SUFFICES ASSUME a.pid # 0 PROVE Good(t)
  BY <1>1, <1>2
<1>4. /\ i \in State /\ i.qfirst = a.s.qfirst /\ i.qwait = a.s.qwait
      /\ i.qsem = a.s.qsem /\ i.running = a.s.running
      /\ DOMAIN i.queue_map = DOMAIN a.s.queue_map \cup {a.pid}
      /\ \A p \in DOMAIN a.s.queue_map : i.queue_map[p] = a.s.queue_map[p]
  BY <1>2, <1>3, InsertedMap
<1>5. /\ a.s \in State /\ Linked(a.s) /\ Sorted(a.s.qwait, a.s.queue_map)
      /\ a.s.qfirst \in Seq(PID) /\ a.s.qwait \in Seq(PID) /\ a.pid \in PID
      /\ a.pid \notin DOMAIN a.s.queue_map
  BY <1>2 DEF Good, State
<1> HIDE DEF i
<1>6. /\ Append(i.qfirst, a.pid) \in Seq(PID)
      /\ Range(Append(i.qfirst, a.pid)) = Range(i.qfirst) \cup {a.pid}
      /\ IsInjective(Append(i.qfirst, a.pid))
  BY <1>4, <1>5, AppendFacts DEF Linked, Disjoint, Listed
<1>7. t \in State
  BY <1>4, <1>6 DEF State
<1>8. /\ t.qfirst = Append(i.qfirst, a.pid) /\ t.qwait = a.s.qwait
      /\ t.qsem = a.s.qsem /\ t.running = a.s.running
      /\ t.queue_map = i.queue_map
  BY <1>4 DEF State
<1> HIDE DEF t
<1>9. Linked(t)
  BY <1>4, <1>5, <1>6, <1>8 DEF Linked, Disjoint, Listed
<1>10. Sorted(t.qwait, t.queue_map)
  <2>1. \A j \in 1..Len(a.s.qwait) : a.s.qwait[j] \in DOMAIN a.s.queue_map
    BY <1>5 DEF Linked, Listed, Range
  <2> QED
    BY <1>4, <1>5, <1>8, <2>1 DEF Sorted
<1> QED
  BY <1>7, <1>9, <1>10 DEF Good

\* new_queue_actionlist() on an object that may be halted.
LEMMA InsertQueGood ==
  ASSUME NEW s, Good(s), NEW x \in Objects, NEW loss \in {0, 1}
  PROVE  Good(insert_que(s, x, loss))
BY ToCommandQueueGood DEF insert_que

\* queue_event() with or without a handler.
LEMMA QueueEventGood ==
  ASSUME NEW s, Good(s), NEW loss \in {0, 1}
  PROVE  Good(queue_event(s, loss))
<1>1. EVENT_HANDLER # NOTHING => EVENT_HANDLER \in Objects
  BY ConfigAssumption
<1> QED
  BY <1>1, ToCommandQueueGood DEF queue_event

\* A pid in none of the lists may be linked into one of them.
LEMMA ThreePlaces ==
  \A b, c, d \in Int : b < c =>
    \/ b < d /\ c < d
    \/ b < d /\ c = d
    \/ b < d /\ c > d
    \/ b = d /\ c > d
    \/ b > d
OBVIOUS

\* An allocated entry that is in no list, linked into the wait queue.
LEMMA LinkByTimeGood ==
  ASSUME NEW s \in State, Disjoint(s), NEW pid \in PID,
         pid \notin Listed(s) \cup Range(s.running),
         DOMAIN s.queue_map = Listed(s) \cup Range(s.running) \cup {pid},
         Sorted(s.qwait, s.queue_map)
  PROVE  Good(LinkByTime(s, pid))
<1> DEFINE q == s.qwait
           m == s.queue_map
           when == m[pid].wait_until
           i == FirstAfter(q, Until(s), when)
           r == Insert(q, i, pid)
           t == [s EXCEPT !.qwait = r]
<1>1. LinkByTime(s, pid) = t
  BY DEF LinkByTime
<1>2. /\ q \in Seq(PID) /\ Len(q) \in Nat /\ DOMAIN q = 1..Len(q)
      /\ m \in QMaps
  BY DEF State
<1>3. \A p \in DOMAIN m : Until(s)[p] = m[p].wait_until /\ m[p].wait_until \in Int
  BY <1>2, QMapFacts DEF Until, MQUE
<1>4. \A j \in 1..Len(q) : q[j] \in DOMAIN m /\ q[j] \in Range(q)
  BY <1>2 DEF Listed, Range
<1>5. when \in Int /\ \A j \in 1..Len(q) : Until(s)[q[j]] \in Int
  BY <1>3, <1>4
<1>6. /\ i \in 1..(Len(q) + 1)
      /\ \A j \in 1..(i - 1) : Until(s)[q[j]] <= when
      /\ i <= Len(q) => Until(s)[q[i]] > when
  <2> HIDE DEF q, m, when
  <2> QED
    BY <1>2, <1>5, FirstAfterFacts
<1> HIDE DEF i
<1>7. /\ r \in Seq(PID) /\ Len(r) = Len(q) + 1
      /\ \A j \in 1..(i - 1) : r[j] = q[j]
      /\ r[i] = pid
      /\ \A j \in (i + 1)..(Len(q) + 1) : r[j] = q[j - 1]
      /\ Range(r) = Range(q) \cup {pid}
      /\ IsInjective(q) /\ pid \notin Range(q) => IsInjective(r)
  <2> HIDE DEF q
  <2>1. q \in Seq(PID) /\ i \in 1..(Len(q) + 1) /\ pid \in PID
    BY <1>2, <1>6
  <2>2. r \in Seq(PID) /\ Len(r) = Len(q) + 1
    BY ONLY <2>1, InsertFacts
  <2>3. \A j \in 1..(i - 1) : r[j] = q[j]
    BY ONLY <2>1, InsertFacts
  <2>4. r[i] = pid
    BY ONLY <2>1, InsertFacts
  <2>5. \A j \in (i + 1)..(Len(q) + 1) : r[j] = q[j - 1]
    BY ONLY <2>1, InsertFacts
  <2>6. /\ Range(r) = Range(q) \cup {pid}
        /\ IsInjective(q) /\ pid \notin Range(q) => IsInjective(r)
    BY ONLY <2>1, InsertFacts
  <2> QED
    BY <2>2, <2>3, <2>4, <2>5, <2>6
<1> HIDE DEF r
<1>8. t \in State
  BY <1>7 DEF State
<1>9. /\ t.qfirst = s.qfirst /\ t.qwait = r /\ t.qsem = s.qsem
      /\ t.running = s.running /\ t.queue_map = m
  BY DEF State
<1> HIDE DEF t
<1>10. Linked(t)
  BY <1>7, <1>9 DEF Linked, Disjoint, Listed
<1>11. Sorted(r, m)
  <2> DEFINE u(p) == m[p].wait_until
  <2>1. \A j, k \in 1..Len(q) : j < k => u(q[j]) <= u(q[k])
    BY DEF Sorted
  <2>2. \A j \in 1..Len(q) : u(q[j]) \in Int
    BY <1>3, <1>4
  <2>3. \A j \in 1..(i - 1) : u(q[j]) <= when
    BY <1>2, <1>3, <1>4, <1>6
  <2>4. ASSUME NEW j \in i..Len(q) PROVE when <= u(q[j])
    <3>1. i \in 1..Len(q) /\ j \in 1..Len(q)
      BY <1>2, <1>6
    <3>2. u(q[i]) > when
      BY <1>3, <1>4, <1>6, <3>1
    <3>3. u(q[i]) <= u(q[j])
      BY <1>2, <2>1, <2>2, <3>1, i <= j, i < j \/ i = j
    <3> QED
      BY <1>5, <2>2, <3>1, <3>2, <3>3
  <2> SUFFICES ASSUME NEW j \in 1..(Len(q) + 1), NEW k \in 1..(Len(q) + 1), j < k
               PROVE  u(r[j]) <= u(r[k])
    BY <1>7 DEF Sorted
  <2>5. u(pid) = when
    OBVIOUS
  <2> HIDE DEF u, q, m, when
  <2>6. CASE j < i /\ k < i
    BY <1>2, <1>6, <1>7, <2>1, <2>6
  <2>7. CASE j < i /\ k = i
    BY <1>2, <1>6, <1>7, <2>3, <2>5, <2>7
  <2>8. CASE j < i /\ k > i
    <3>1. /\ j \in 1..(i - 1) /\ j \in 1..Len(q) /\ k - 1 \in 1..Len(q)
          /\ j < k - 1 /\ k \in (i + 1)..(Len(q) + 1)
      BY <1>2, <1>6, <2>8
    <3> QED
      BY <1>7, <2>1, <3>1
  <2>9. CASE j = i /\ k > i
    <3>1. k - 1 \in i..Len(q) /\ k \in (i + 1)..(Len(q) + 1)
      BY <1>2, <1>6, <2>9
    <3> QED
      BY <1>7, <2>4, <2>5, <2>9, <3>1
  <2>10. CASE j > i
    <3>1. /\ j \in (i + 1)..(Len(q) + 1) /\ k \in (i + 1)..(Len(q) + 1)
          /\ j - 1 \in 1..Len(q) /\ k - 1 \in 1..Len(q) /\ j - 1 < k - 1
      BY <1>2, <1>6, <2>10
    <3> QED
      BY <1>7, <2>1, <3>1
  <2>11. \/ j < i /\ k < i
         \/ j < i /\ k = i
         \/ j < i /\ k > i
         \/ j = i /\ k > i
         \/ j > i
    <3>1. i \in Int /\ j \in Int /\ k \in Int
      BY <1>2, <1>6
    <3> QED
      BY <3>1, ThreePlaces
  <2> QED
    BY <2>6, <2>7, <2>8, <2>9, <2>10, <2>11
<1> QED
  BY <1>1, <1>8, <1>9, <1>10, <1>11 DEF Good

\* wait_que() in its three outcomes: at once, by time, on a semaphore.
LEMMA WaitQueGood ==
  ASSUME mudtime \in Int, NEW s, Good(s), NEW x \in Objects, NEW n \in Int,
         NEW obj \in Objects \cup {NOTHING}, NEW attr \in Attrs \cup {NULL},
         obj # NOTHING => attr \in Attrs, NEW until, NEW loss \in {0, 1}
  PROVE  Good(wait_que(s, x, n, obj, attr, until, loss))
<1> DEFINE a == admit(s, x, loss)
           when == CASE until -> n
                     [] ~until /\ n >= 0 -> mudtime + n
                     [] OTHER -> 0
           e == new_queue_entry(x, obj, IF obj = NOTHING THEN NULL ELSE attr, when)
           i == im_insert(a.s, a.pid, e)
           t == [i EXCEPT !.qsem = Append(@, a.pid)]
           low == IF obj = NOTHING THEN s ELSE add_to_sem(s, <<obj, attr>>, -1)
<1>1. wait_que(s, x, n, obj, attr, until, loss) =
        IF n = 0 THEN insert_que(low, x, loss)
        ELSE IF a.pid = 0 THEN a.s
        ELSE IF obj = NOTHING THEN LinkByTime(i, a.pid)
        ELSE t
  BY DEF wait_que
<1>2. Good(insert_que(low, x, loss))
  <2>1. Good(low)
    <3>1. CASE obj = NOTHING
      BY <3>1
    <3>2. CASE obj # NOTHING
      <4>1. <<obj, attr>> \in SemKeys
        BY <3>2 DEF SemKeys
      <4> QED
        BY <3>2, <4>1, AddToSemType
    <3> QED
      BY <3>1, <3>2
  <2> HIDE DEF low
  <2> QED
    BY <2>1, InsertQueGood
<1>3. Good(a.s) /\ (a.pid = 0 \/ a.pid \in PID \ DOMAIN a.s.queue_map)
  BY AdmitGood
<1>4. when \in Int
  <2>1. until \/ ~until
    OBVIOUS
  <2> QED
    BY <2>1
<1> HIDE DEF when
<1>5. e \in MQUE
  BY <1>4 DEF new_queue_entry, MQUE
<1> HIDE DEF a, e, low
<1> SUFFICES ASSUME a.pid # 0 PROVE Good(LinkByTime(i, a.pid)) /\ (obj # NOTHING => Good(t))
  BY <1>1, <1>2, <1>3
<1>6. /\ i \in State /\ i.qfirst = a.s.qfirst /\ i.qwait = a.s.qwait
      /\ i.qsem = a.s.qsem /\ i.running = a.s.running
      /\ DOMAIN i.queue_map = DOMAIN a.s.queue_map \cup {a.pid}
      /\ \A p \in DOMAIN a.s.queue_map : i.queue_map[p] = a.s.queue_map[p]
  BY <1>3, <1>5, InsertedMap
<1>7. /\ a.s \in State /\ Linked(a.s) /\ Sorted(a.s.qwait, a.s.queue_map)
      /\ a.s.qsem \in Seq(PID) /\ a.s.qwait \in Seq(PID) /\ a.pid \in PID
      /\ a.pid \notin DOMAIN a.s.queue_map
  BY <1>3 DEF Good, State
<1> HIDE DEF i
<1>8. Sorted(i.qwait, i.queue_map)
  <2>1. \A j \in 1..Len(a.s.qwait) : a.s.qwait[j] \in DOMAIN a.s.queue_map
    BY <1>7 DEF Linked, Listed, Range
  <2> QED
    BY <1>6, <1>7, <2>1 DEF Sorted
<1>9. /\ Disjoint(i) /\ a.pid \notin Listed(i) \cup Range(i.running)
      /\ DOMAIN i.queue_map = Listed(i) \cup Range(i.running) \cup {a.pid}
  BY <1>6, <1>7 DEF Linked, Disjoint, Listed
<1>10. Good(LinkByTime(i, a.pid))
  BY <1>6, <1>7, <1>8, <1>9, LinkByTimeGood
<1>11. Good(t)
  <2>1. /\ Append(i.qsem, a.pid) \in Seq(PID)
        /\ Range(Append(i.qsem, a.pid)) = Range(i.qsem) \cup {a.pid}
        /\ IsInjective(Append(i.qsem, a.pid))
    BY <1>6, <1>7, AppendFacts DEF Linked, Disjoint, Listed
  <2>2. t \in State
    BY <1>6, <2>1 DEF State
  <2>3. /\ t.qfirst = i.qfirst /\ t.qwait = i.qwait
        /\ t.qsem = Append(i.qsem, a.pid) /\ t.running = i.running
        /\ t.queue_map = i.queue_map
    BY <1>6 DEF State
  <2> HIDE DEF t
  <2>4. Linked(t)
    BY <1>9, <2>1, <2>3 DEF Linked, Disjoint, Listed
  <2> QED
    BY <1>8, <2>2, <2>3, <2>4 DEF Good
<1> QED
  BY <1>10, <1>11

\* @wait on a semaphore.
LEMMA DoWaitGood ==
  ASSUME mudtime \in Int, NEW s, Good(s), NEW x \in Objects, NEW n \in Int,
         NEW obj \in Objects, NEW attr \in Attrs, NEW until, NEW loss \in {0, 1}
  PROVE  Good(do_wait(s, x, obj, attr, n, until, loss))
<1> DEFINE up == add_to_sem(s, <<obj, attr>>, 1)
<1>1. <<obj, attr>> \in SemKeys
  BY DEF SemKeys
<1>2. Good(up)
  BY <1>1, AddToSemType
<1>3. \/ do_wait(s, x, obj, attr, n, until, loss) =
           wait_que(up, x, -1, NOTHING, NULL, until, loss)
      \/ do_wait(s, x, obj, attr, n, until, loss) =
           wait_que(up, x, n, obj, attr, until, loss)
  BY DEF do_wait
<1> HIDE DEF up
<1>4. obj # NOTHING
  BY ObjectFacts
<1>5. Good(wait_que(up, x, -1, NOTHING, NULL, until, loss))
  <2>1. -1 \in Int /\ NOTHING \in Objects \cup {NOTHING}
        /\ NULL \in Attrs \cup {NULL}
    OBVIOUS
  <2> QED
    BY <1>2, <2>1, WaitQueGood
<1>6. Good(wait_que(up, x, n, obj, attr, until, loss))
  BY <1>2, <1>4, WaitQueGood
<1> QED
  BY <1>3, <1>5, <1>6

\* A change of one entry that keeps the lists.
LEMMA ChangedEntry ==
  ASSUME NEW s \in State, NEW pid \in DOMAIN s.queue_map, NEW e \in MQUE
  PROVE  /\ [s.queue_map EXCEPT ![pid] = e] \in QMaps
         /\ [s EXCEPT !.queue_map = [s.queue_map EXCEPT ![pid] = e]] \in State
<1>1. [s.queue_map EXCEPT ![pid] = e] \in QMaps
  BY QMapFacts DEF State
<1> QED
  BY <1>1 DEF State

\* @wait/pid unlinks and relinks an entry of the wait queue.
LEMMA DoWaitPidGood ==
  ASSUME mudtime \in Int, NEW s, Good(s), NEW pid \in DOMAIN s.queue_map,
         NEW mode \in {"until", "adjust", "set"}, NEW n \in Int
  PROVE  Good(do_waitpid(s, pid, mode, n))
<1> DEFINE e == s.queue_map[pid]
           w == CASE mode = "until" -> n
                  [] mode = "adjust" -> e.wait_until + n
                  [] mode = "set" -> mudtime + n
           v == IF w < 0 THEN 0 ELSE w
           m == [s.queue_map EXCEPT ![pid] = [e EXCEPT !.wait_until = v]]
           t == [s EXCEPT !.queue_map = m]
           u == [t EXCEPT !.qwait = Keep(@, PID \ {pid})]
<1>1. s \in State /\ Linked(s) /\ s.queue_map \in QMaps /\ s.qwait \in Seq(PID)
      /\ Sorted(s.qwait, s.queue_map)
  BY DEF Good, State
<1>2. e \in MQUE /\ pid \in PID
  BY <1>1, QMapFacts
<1>3. [s EXCEPT !.queue_map[pid].wait_until = v] = t
  BY <1>1, <1>2, QMapFacts DEF State
<1>4. do_waitpid(s, pid, mode, n) =
        IF e.semaphore_obj # NOTHING /\ e.wait_until = 0 THEN s
        ELSE IF pid \in Range(s.qwait) THEN LinkByTime(u, pid) ELSE t
  BY <1>3 DEF do_waitpid
<1>5. v \in Int
  BY <1>2 DEF MQUE
<1> HIDE DEF v
<1>6. [e EXCEPT !.wait_until = v] \in MQUE
  BY <1>2, <1>5 DEF MQUE
<1>7. m \in QMaps /\ t \in State
  BY <1>1, <1>6, ChangedEntry
<1>8. DOMAIN m = DOMAIN s.queue_map
      /\ \A p \in DOMAIN s.queue_map : p # pid => m[p] = s.queue_map[p]
  BY <1>1, QMapFacts
<1> HIDE DEF m, e
<1>9. /\ t.qfirst = s.qfirst /\ t.qwait = s.qwait /\ t.qsem = s.qsem
      /\ t.running = s.running /\ t.queue_map = m
  BY <1>1 DEF State
<1> HIDE DEF t
<1>10. \A j \in 1..Len(s.qwait) :
         s.qwait[j] \in DOMAIN s.queue_map /\ s.qwait[j] \in Range(s.qwait)
  BY <1>1 DEF Linked, Listed, Range
<1>11. ASSUME pid \notin Range(s.qwait) PROVE Good(t)
  <2>1. Linked(t)
    BY <1>1, <1>8, <1>9 DEF Linked, Disjoint, Listed
  <2>2. Sorted(t.qwait, t.queue_map)
    <3>1. \A j \in 1..Len(s.qwait) : m[s.qwait[j]] = s.queue_map[s.qwait[j]]
      BY <1>8, <1>10, <1>11
    <3> QED
      BY <1>1, <1>9, <3>1 DEF Sorted
  <2> QED
    BY <1>7, <2>1, <2>2 DEF Good
<1>12. ASSUME pid \in Range(s.qwait) PROVE Good(LinkByTime(u, pid))
  <2>1. /\ Keep(s.qwait, PID \ {pid}) \in Seq(PID)
        /\ Range(Keep(s.qwait, PID \ {pid})) = Range(s.qwait) \cap (PID \ {pid})
        /\ IsInjective(Keep(s.qwait, PID \ {pid}))
    BY <1>1, KeepFacts DEF Linked, Disjoint
  <2>2. /\ u \in State /\ u.qfirst = s.qfirst /\ u.qsem = s.qsem
        /\ u.qwait = Keep(s.qwait, PID \ {pid}) /\ u.running = s.running
        /\ u.queue_map = m
    BY <1>7, <1>9, <2>1 DEF State
  <2>3. \A p \in Range(s.qwait) \cap (PID \ {pid}) :
          m[p].wait_until = s.queue_map[p].wait_until
    BY <1>1, <1>8 DEF Linked, Listed
  <2>4. Sorted(u.qwait, u.queue_map)
    BY <1>1, <2>2, <2>3, KeepSorted
  <2> HIDE DEF u
  <2>5. Range(s.qwait) \subseteq PID
    BY <1>1, ListedPids
  <2>6. /\ Disjoint(u) /\ pid \notin Listed(u) \cup Range(u.running)
        /\ DOMAIN u.queue_map = Listed(u) \cup Range(u.running) \cup {pid}
    BY <1>1, <1>8, <1>12, <2>1, <2>2, <2>5 DEF Linked, Disjoint, Listed
  <2> QED
    BY <1>2, <2>2, <2>4, <2>6, LinkByTimeGood
<1> QED
  BY <1>4, <1>11, <1>12

-----------------------------------------------------------------------------
\* Removing.

\* An operation that leaves the wait queue alone.
LEMMA SameWait ==
  ASSUME NEW s, Good(s), NEW t \in State, Linked(t), t.qwait = s.qwait,
         \A p \in Range(s.qwait) :
            t.queue_map[p].wait_until = s.queue_map[p].wait_until
  PROVE  Good(t)
<1>1. s \in State /\ s.qwait \in Seq(PID) /\ Sorted(s.qwait, s.queue_map)
  BY DEF Good, State
<1>2. \A j \in 1..Len(s.qwait) : s.qwait[j] \in Range(s.qwait)
  BY <1>1 DEF Range
<1>3. Sorted(t.qwait, t.queue_map)
  BY <1>1, <1>2 DEF Sorted
<1> QED
  BY <1>3 DEF Good

\* Money and counts given back.
LEMMA RefundType ==
  ASSUME NEW s \in State, NEW P, P \subseteq PID
  PROVE  /\ Refund(s, P) \in State
         /\ Refund(s, P).qfirst = s.qfirst /\ Refund(s, P).qwait = s.qwait
         /\ Refund(s, P).qsem = s.qsem /\ Refund(s, P).running = s.running
         /\ Refund(s, P).queue_map = s.queue_map
<1> DEFINE x(p) == s.queue_map[p].executor
           gets(pl) == {p \in P : s.owner[x(p)] = pl /\ ~NoPay(s, x(p))}
           from(y) == {p \in P : Counter(s, x(p)) = y}
           mo == [pl \in Players |->
                    Capped(s.pennies[pl] + QUEUE_COST * Cardinality(gets(pl)))]
           qu == [y \in Objects |-> s.queue[y] - Cardinality(from(y))]
<1>1. Refund(s, P) = [s EXCEPT !.pennies = mo, !.queue = qu]
  BY DEF Refund
<1>2. \A y : Cardinality(from(y)) \in Nat /\ Cardinality(gets(y)) \in Nat
  <2>1. \A y : from(y) \subseteq PID /\ gets(y) \subseteq PID
    OBVIOUS
  <2> HIDE DEF from, gets
  <2> QED
    BY <2>1, PidCardinality
<1> HIDE DEF from, gets
<1>3. qu \in [Objects -> Int]
  BY <1>2 DEF State
<1>4. mo \in [Players -> 0..MAX_PENNIES]
  <2>1. ASSUME NEW pl \in Players, NEW n \in Nat
        PROVE  Capped(s.pennies[pl] + QUEUE_COST * n) \in 0..MAX_PENNIES
    <3>1. QUEUE_COST * n \in Nat
      BY CostTimes
    <3>2. s.pennies[pl] \in Nat
      BY ConfigAssumption DEF State
    <3>3. s.pennies[pl] + QUEUE_COST * n \in Nat
      BY <3>1, <3>2
    <3> QED
      BY <3>3, CappedType
  <2> QED
    BY <1>2, <2>1
<1> HIDE DEF mo, qu
<1> QED
  BY <1>1, <1>3, <1>4 DEF State

\* free_qentry() changes the table only.
LEMMA FreeType ==
  ASSUME NEW s \in State, NEW P
  PROVE  /\ free_qentry(s, P) \in State
         /\ DOMAIN free_qentry(s, P).queue_map = DOMAIN s.queue_map \ P
         /\ \A p \in DOMAIN s.queue_map \ P :
              free_qentry(s, P).queue_map[p] = s.queue_map[p]
         /\ free_qentry(s, P).qfirst = s.qfirst
         /\ free_qentry(s, P).qwait = s.qwait
         /\ free_qentry(s, P).qsem = s.qsem
         /\ free_qentry(s, P).running = s.running
<1> DEFINE m == [p \in DOMAIN s.queue_map \ P |-> s.queue_map[p]]
<1>1. free_qentry(s, P) = [s EXCEPT !.queue_map = m]
  BY DEF free_qentry, Restrict
<1>2. m \in QMaps
  BY QMapFacts DEF State
<1>3. DOMAIN m = DOMAIN s.queue_map \ P
      /\ \A p \in DOMAIN s.queue_map \ P : m[p] = s.queue_map[p]
  OBVIOUS
<1> HIDE DEF m
<1> QED
  BY <1>1, <1>2, <1>3 DEF State

\* Part of the semaphore queue, in any order.
PartOfSem(s, ps) ==
  ps \in Seq(PID) /\ IsInjective(ps) /\ Range(ps) \subseteq Range(s.qsem)

\* The entries waiting on a semaphore are part of the semaphore queue.
LEMMA WaitingOnPart ==
  ASSUME NEW s, Good(s), NEW obj, NEW attr
  PROVE  /\ PartOfSem(s, WaitingOn(s, obj, attr))
         /\ \A n \in Nat : PartOfSem(s, Take(WaitingOn(s, obj, attr), n))
<1>1. s.qsem \in Seq(PID) /\ IsInjective(s.qsem)
  BY DEF Good, State, Linked, Disjoint
<1> DEFINE w == WaitingOn(s, obj, attr)
<1>2. w \in Seq(PID) /\ IsInjective(w) /\ Range(w) \subseteq Range(s.qsem)
  BY <1>1, KeepFacts DEF WaitingOn
<1> HIDE DEF w
<1>3. \A n \in Nat : PartOfSem(s, Take(w, n))
  BY <1>2, TakeFacts DEF PartOfSem
<1> QED
  BY <1>2, <1>3 DEF w, PartOfSem

\* Unlinking from the semaphore queue changes it and semaphores only.
LEMMA DequeueType ==
  ASSUME NEW s, Good(s), NEW ps, PartOfSem(s, ps)
  PROVE  /\ Dequeue(s, ps) \in State
         /\ Range(Dequeue(s, ps).qsem) = Range(s.qsem) \ Range(ps)
         /\ IsInjective(Dequeue(s, ps).qsem)
         /\ Dequeue(s, ps).qfirst = s.qfirst /\ Dequeue(s, ps).qwait = s.qwait
         /\ Dequeue(s, ps).running = s.running
         /\ Dequeue(s, ps).queue_map = s.queue_map
<1> DEFINE q == Keep(s.qsem, PID \ Range(ps))
           sm == [k \in SemKeys |-> s.sem[k] - Waiters(s, Range(ps), k)]
<1>1. Dequeue(s, ps) = [s EXCEPT !.qsem = q, !.sem = sm]
  BY DEF Dequeue
<1>2. s \in State /\ s.qsem \in Seq(PID) /\ IsInjective(s.qsem)
  BY DEF Good, State, Linked, Disjoint
<1>3. Range(ps) \subseteq PID /\ Range(s.qsem) \subseteq PID
  BY <1>2, ListedPids DEF PartOfSem
<1>4. \A k : Waiters(s, Range(ps), k) \in Nat
  BY <1>3, PidCardinality DEF Waiters
<1>5. sm \in [SemKeys -> Int]
  BY <1>2, <1>4 DEF State
<1>6. /\ q \in Seq(PID) /\ IsInjective(q)
      /\ Range(q) = Range(s.qsem) \cap (PID \ Range(ps))
  BY <1>2, KeepFacts
<1>7. Range(q) = Range(s.qsem) \ Range(ps)
  BY <1>3, <1>6
<1> HIDE DEF q, sm
<1> QED
  BY <1>1, <1>2, <1>5, <1>6, <1>7 DEF State

\* Released waiters go to the command queue.
LEMMA ReleaseGood ==
  ASSUME NEW s, Good(s), NEW ps, PartOfSem(s, ps)
  PROVE  Good(Release(s, ps))
<1> DEFINE d == Dequeue(s, ps)
           t == [d EXCEPT !.qfirst = @ \o ps]
<1>1. Release(s, ps) = t
  BY DEF Release
<1>2. /\ d \in State /\ Range(d.qsem) = Range(s.qsem) \ Range(ps)
      /\ IsInjective(d.qsem) /\ d.qfirst = s.qfirst /\ d.qwait = s.qwait
      /\ d.running = s.running /\ d.queue_map = s.queue_map
  BY DequeueType
<1> HIDE DEF d
<1>3. s \in State /\ Linked(s) /\ s.qfirst \in Seq(PID)
  BY DEF Good, State
<1>4. /\ d.qfirst \o ps \in Seq(PID)
      /\ Range(d.qfirst \o ps) = Range(s.qfirst) \cup Range(ps)
      /\ IsInjective(d.qfirst \o ps)
  <2>1. IsInjective(s.qfirst) /\ Range(s.qfirst) \cap Range(ps) = {}
    BY <1>3 DEF Linked, Disjoint, PartOfSem
  <2> QED
    BY <1>2, <1>3, <2>1, ConcatFacts DEF PartOfSem
<1>5. /\ t \in State /\ t.qfirst = d.qfirst \o ps /\ t.qwait = s.qwait
      /\ t.qsem = d.qsem /\ t.running = s.running /\ t.queue_map = s.queue_map
  BY <1>2, <1>4 DEF State
<1> HIDE DEF t
<1>6. Range(ps) \subseteq Range(s.qsem)
  BY DEF PartOfSem
<1>7. Linked(t)
  BY <1>2, <1>3, <1>4, <1>5, <1>6 DEF Linked, Disjoint, Listed
<1> QED
  BY <1>1, <1>5, <1>7, SameWait

\* Drained waiters are freed.
LEMMA DiscardGood ==
  ASSUME NEW s, Good(s), NEW ps, PartOfSem(s, ps)
  PROVE  Good(Discard(s, ps))
<1> DEFINE d == Dequeue(s, ps)
           r == Refund(d, Range(ps))
           t == free_qentry(r, Range(ps))
<1>1. Discard(s, ps) = t
  BY DEF Discard
<1>2. /\ d \in State /\ Range(d.qsem) = Range(s.qsem) \ Range(ps)
      /\ IsInjective(d.qsem) /\ d.qfirst = s.qfirst /\ d.qwait = s.qwait
      /\ d.running = s.running /\ d.queue_map = s.queue_map
  BY DequeueType
<1> HIDE DEF d
<1>3. s \in State /\ Linked(s)
  BY DEF Good
<1>4. Range(ps) \subseteq Range(s.qsem) /\ Range(ps) \subseteq PID
  BY <1>3, ListedPids DEF PartOfSem
<1>5. /\ r \in State /\ r.qfirst = s.qfirst /\ r.qwait = s.qwait
      /\ r.qsem = d.qsem /\ r.running = s.running /\ r.queue_map = s.queue_map
  BY <1>2, <1>4, RefundType
<1> HIDE DEF r
<1>6. /\ t \in State /\ t.qfirst = s.qfirst /\ t.qwait = s.qwait
      /\ t.qsem = d.qsem /\ t.running = s.running
      /\ DOMAIN t.queue_map = DOMAIN s.queue_map \ Range(ps)
      /\ \A p \in DOMAIN s.queue_map \ Range(ps) : t.queue_map[p] = s.queue_map[p]
  BY <1>5, FreeType
<1> HIDE DEF t
<1>7. Linked(t)
  BY <1>2, <1>3, <1>4, <1>6 DEF Linked, Disjoint, Listed
<1>8. \A p \in Range(s.qwait) : t.queue_map[p] = s.queue_map[p]
  BY <1>3, <1>4, <1>6 DEF Linked, Disjoint, Listed
<1> QED
  BY <1>1, <1>6, <1>7, <1>8, SameWait

\* @notify with a count, for all, and with registers.
LEMMA NotifyGood ==
  ASSUME NEW s, Good(s), NEW obj \in Objects, NEW attr \in Attrs \cup {NULL}
  PROVE  /\ Good(execute_one_semaphore(s, obj, attr))
         /\ Good(NotifyAll(s, obj, attr))
         /\ \A n \in Nat : Good(NotifySemaphores(s, obj, attr, n))
<1>1. Good(execute_one_semaphore(s, obj, attr)) /\ Good(NotifyAll(s, obj, attr))
  BY WaitingOnPart, ReleaseGood, 1 \in Nat DEF execute_one_semaphore, NotifyAll
<1>2. ASSUME NEW n \in Nat PROVE Good(NotifySemaphores(s, obj, attr, n))
  <2> DEFINE ps == Take(WaitingOn(s, obj, attr), n)
             t == Release(s, ps)
  <2>1. PartOfSem(s, ps)
    BY WaitingOnPart
  <2> HIDE DEF ps
  <2>2. Good(t) /\ Len(ps) \in Nat
    BY <2>1, ReleaseGood DEF PartOfSem
  <2>3. -(n - Len(ps)) \in Int
    BY <2>2
  <2> DEFINE am == -(n - Len(ps))
  <2>4. \/ NotifySemaphores(s, obj, attr, n) = t
        \/ attr # NULL /\ NotifySemaphores(s, obj, attr, n)
                            = add_to_sem(t, <<obj, attr>>, am)
    BY DEF NotifySemaphores, ps
  <2>5. attr # NULL => <<obj, attr>> \in SemKeys
    BY DEF SemKeys
  <2> HIDE DEF t, am
  <2> QED
    BY <2>2, <2>3, <2>4, <2>5, AddToSemType DEF am
<1> QED
  BY <1>1, <1>2

\* @drain with a count and for all.
LEMMA DrainGood ==
  ASSUME NEW s, Good(s), NEW obj, NEW attr
  PROVE  /\ Good(DrainAll(s, obj, attr))
         /\ \A n \in Nat : Good(DrainSome(s, obj, attr, n))
<1>1. \A n \in Nat : Good(DrainSome(s, obj, attr, n))
  BY WaitingOnPart, DiscardGood DEF DrainSome
<1> DEFINE t == Discard(s, WaitingOn(s, obj, attr))
           sm == [k \in SemKeys |->
                    IF k[1] = obj /\ (attr # NULL => k[2] = attr) THEN 0
                    ELSE t.sem[k]]
<1>2. Good(t)
  BY WaitingOnPart, DiscardGood
<1>3. DrainAll(s, obj, attr) = [t EXCEPT !.sem = sm]
  BY DEF DrainAll
<1> HIDE DEF t
<1>4. t \in State
  BY <1>2 DEF Good
<1>5. sm \in [SemKeys -> Int]
  BY <1>4 DEF State
<1> HIDE DEF sm
<1>6. [t EXCEPT !.sem = sm] \in State
  BY <1>4, <1>5 DEF State
<1>7. Good([t EXCEPT !.sem = sm])
  BY <1>2, <1>4, <1>6, SameLists DEF State
<1> QED
  BY <1>1, <1>3, <1>7

\* A state after which the model stops, as @halt/pid may leave.
Dangles(s) == ~ (Listed(s) \cup Range(s.running) \subseteq DOMAIN s.queue_map)

\* @halt/pid leaves the lists in order or an entry dangling.
LEMMA HaltPidGood ==
  ASSUME NEW s, Good(s), NEW pid \in DOMAIN s.queue_map
  PROVE  /\ do_haltpid(s, pid) \in State
         /\ Good(do_haltpid(s, pid)) \/ Dangles(do_haltpid(s, pid))
<1> DEFINE e == s.queue_map[pid]
           m == [s.queue_map EXCEPT ![pid] = [e EXCEPT !.executor = NOTHING]]
           t == [s EXCEPT !.queue_map = m]
           u == IF e.executor = NOTHING THEN t ELSE giveto(t, e.executor, QUEUE_COST)
           v == IF e.semaphore_obj = NOTHING THEN u ELSE add_to_sem(u, SemKey(e), -1)
           q == Keep(v.qsem, PID \ {pid})
           w == [v EXCEPT !.qsem = q]
           r == free_qentry(w, {pid})
<1>1. s \in State /\ Linked(s) /\ s.queue_map \in QMaps
  BY DEF Good, State
<1>2. e \in MQUE /\ pid \in PID
  BY <1>1, QMapFacts
<1>3. [s EXCEPT !.queue_map[pid].executor = NOTHING] = t
  BY <1>1, <1>2, QMapFacts DEF State
<1>4. do_haltpid(s, pid) = IF e.semaphore_attr = NULL THEN t ELSE r
  BY <1>3 DEF do_haltpid
<1>5. [e EXCEPT !.executor = NOTHING] \in MQUE
      /\ [e EXCEPT !.executor = NOTHING].wait_until = e.wait_until
  BY <1>2 DEF MQUE
<1>6. t \in State
  BY <1>1, <1>5, ChangedEntry
<1>7. DOMAIN m = DOMAIN s.queue_map
      /\ \A p \in DOMAIN s.queue_map : m[p].wait_until = s.queue_map[p].wait_until
  <2>1. \A p \in DOMAIN s.queue_map : p # pid => m[p] = s.queue_map[p]
    BY <1>1, QMapFacts
  <2>2. m[pid] = [e EXCEPT !.executor = NOTHING] /\ DOMAIN m = DOMAIN s.queue_map
    BY <1>1, QMapFacts
  <2> HIDE DEF m
  <2> QED
    BY <1>5, <2>1, <2>2
<1> HIDE DEF m
<1>8. /\ t.qfirst = s.qfirst /\ t.qwait = s.qwait /\ t.qsem = s.qsem
      /\ t.running = s.running /\ t.queue_map = m
  BY <1>1 DEF State
<1> HIDE DEF t
<1>9. Linked(t)
  BY <1>1, <1>7, <1>8 DEF Linked, Disjoint, Listed
<1>10. Good(t)
  <2>1. \A p \in Range(s.qwait) :
          t.queue_map[p].wait_until = s.queue_map[p].wait_until
    BY <1>1, <1>7, <1>8 DEF Linked, Listed
  <2> QED
    BY <1>6, <1>8, <1>9, <2>1, SameWait
<1> SUFFICES ASSUME e.semaphore_attr # NULL
             PROVE  r \in State /\ (Good(r) \/ Dangles(r))
  BY <1>4, <1>6, <1>10
<1>11. /\ Good(u) /\ u.qfirst = s.qfirst /\ u.qwait = s.qwait /\ u.qsem = s.qsem
       /\ u.running = s.running /\ u.queue_map = m
  <2>1. CASE e.executor = NOTHING
    BY <1>8, <1>10, <2>1
  <2>2. CASE e.executor # NOTHING
    <3>1. e.executor \in Objects /\ QUEUE_COST \in Nat
      BY <1>2, <2>2, ConfigAssumption DEF MQUE
    <3>2. Good(giveto(t, e.executor, QUEUE_COST))
      BY <1>10, <3>1, GivetoType
    <3> QED
      BY <1>6, <1>8, <2>2, <3>2 DEF giveto, State
  <2> QED
    BY <2>1, <2>2
<1> HIDE DEF u
<1>12. /\ Good(v) /\ v.qfirst = s.qfirst /\ v.qwait = s.qwait /\ v.qsem = s.qsem
       /\ v.running = s.running /\ v.queue_map = m
  <2>1. CASE e.semaphore_obj = NOTHING
    BY <1>11, <2>1
  <2>2. CASE e.semaphore_obj # NOTHING
    <3>1. SemKey(e) \in SemKeys
      BY <1>2, <2>2 DEF MQUE, SemKey, SemKeys
    <3>2. Good(add_to_sem(u, SemKey(e), -1))
      BY <1>11, <3>1, AddToSemType
    <3>3. u \in State
      BY <1>11 DEF Good
    <3> QED
      BY <1>11, <2>2, <3>2, <3>3 DEF add_to_sem, State
  <2> QED
    BY <2>1, <2>2
<1> HIDE DEF v
<1>13. v \in State /\ v.qsem \in Seq(PID) /\ Linked(v)
  BY <1>12 DEF Good, State
<1>14. /\ q \in Seq(PID) /\ IsInjective(q)
       /\ Range(q) = Range(v.qsem) \cap (PID \ {pid})
  BY <1>13, KeepFacts DEF Linked, Disjoint
<1> HIDE DEF q
<1>15. /\ w \in State /\ w.qfirst = v.qfirst /\ w.qwait = v.qwait /\ w.qsem = q
       /\ w.running = v.running /\ w.queue_map = v.queue_map
  BY <1>13, <1>14 DEF State
<1> HIDE DEF w
<1>16. /\ r \in State /\ r.qfirst = v.qfirst /\ r.qwait = v.qwait /\ r.qsem = q
       /\ r.running = v.running
       /\ DOMAIN r.queue_map = DOMAIN v.queue_map \ {pid}
       /\ \A p \in DOMAIN v.queue_map \ {pid} : r.queue_map[p] = v.queue_map[p]
  BY <1>15, FreeType
<1> HIDE DEF r
<1>17. Range(v.qsem) \subseteq PID
  BY <1>13, ListedPids
<1>18. CASE pid \in Range(v.qsem)
  <2>1. Linked(r)
    BY <1>13, <1>14, <1>16, <1>17, <1>18 DEF Linked, Disjoint, Listed
  <2>2. \A p \in Range(v.qwait) : r.queue_map[p] = v.queue_map[p]
    BY <1>13, <1>16, <1>18 DEF Linked, Disjoint, Listed
  <2> QED
    BY <1>12, <1>16, <2>1, <2>2, SameWait
<1>19. CASE pid \notin Range(v.qsem)
  <2>1. pid \in Range(v.qfirst) \cup Range(v.qwait) \cup Range(v.running)
    BY <1>7, <1>12, <1>13, <1>19 DEF Linked, Listed
  <2> QED
    BY <1>16, <2>1 DEF Dangles, Listed
<1> QED
  BY <1>18, <1>19

-----------------------------------------------------------------------------
\* The main loop.

\* queue_update() moves due and timed-out entries to the command queue.
LEMMA QueueUpdateGood ==
  ASSUME mudtime \in Int, NEW s, Good(s)
  PROVE  Good(queue_update(s))
<1> DEFINE q == s.qwait
           i == FirstAfter(q, Until(s), mudtime)
           n == i - 1
           due == Take(q, n)
           expired == {p \in Range(s.qsem) : LET w == s.queue_map[p].wait_until
                                             IN  w # 0 /\ w <= mudtime}
           late == Keep(s.qsem, expired)
           d == Dequeue(s, late)
           m == [p \in DOMAIN s.queue_map |->
                  CASE p \in Range(due) -> [s.queue_map[p] EXCEPT !.wait_until = 0]
                    [] p \in expired ->
                         [s.queue_map[p] EXCEPT !.semaphore_obj = NOTHING]
                    [] OTHER -> s.queue_map[p]]
           t == [d EXCEPT !.qwait = Drop(@, n), !.qfirst = @ \o due \o late,
                          !.queue_map = m]
<1>1. queue_update(s) = t
  BY DEF queue_update
<1>2. /\ s \in State /\ Linked(s) /\ Sorted(q, s.queue_map)
      /\ q \in Seq(PID) /\ Len(q) \in Nat /\ s.qsem \in Seq(PID)
      /\ s.qfirst \in Seq(PID) /\ s.queue_map \in QMaps
  BY DEF Good, State
<1>3. i \in 1..(Len(q) + 1)
  <2>1. \A p \in DOMAIN s.queue_map : Until(s)[p] \in Int
    BY <1>2, QMapFacts DEF Until, MQUE
  <2>2. \A j \in 1..Len(q) : q[j] \in DOMAIN s.queue_map
    BY <1>2 DEF Linked, Listed, Range
  <2>3. \A j \in 1..Len(q) : Until(s)[q[j]] \in Int
    BY <2>1, <2>2
  <2> HIDE DEF q
  <2> QED
    BY <1>2, <2>3, FirstAfterFacts
<1> HIDE DEF i
<1>4. n \in Nat /\ n <= Len(q)
  BY <1>2, <1>3
<1> HIDE DEF n
<1>5. /\ due \in Seq(PID) /\ Range(due) \subseteq Range(q) /\ IsInjective(due)
  <2> HIDE DEF q
  <2> QED
    BY <1>2, <1>4, TakeFacts DEF Linked, Disjoint, q
<1>6. /\ Drop(q, n) \in Seq(PID) /\ Len(Drop(q, n)) = Len(q) - n
      /\ \A j \in 1..(Len(q) - n) : Drop(q, n)[j] = q[n + j]
      /\ Range(due) \cup Range(Drop(q, n)) = Range(q)
      /\ IsInjective(Drop(q, n)) /\ Range(due) \cap Range(Drop(q, n)) = {}
  <2>1. IsInjective(q)
    BY <1>2 DEF Linked, Disjoint
  <2> HIDE DEF q
  <2> QED
    BY <1>2, <1>4, <2>1, DropFacts
<1> HIDE DEF due
<1>7. /\ late \in Seq(PID) /\ Range(late) = expired /\ IsInjective(late)
      /\ expired \subseteq Range(s.qsem)
  <2>1. expired \subseteq Range(s.qsem)
    OBVIOUS
  <2> HIDE DEF expired
  <2>2. IsInjective(s.qsem)
    BY <1>2 DEF Linked, Disjoint
  <2>3. /\ late \in Seq(PID) /\ IsInjective(late)
        /\ Range(late) = Range(s.qsem) \cap expired
    BY <1>2, <2>2, KeepFacts
  <2> QED
    BY <2>1, <2>3
<1> HIDE DEF expired, late
<1>8. /\ d \in State /\ Range(d.qsem) = Range(s.qsem) \ Range(late)
      /\ IsInjective(d.qsem) /\ d.qfirst = s.qfirst /\ d.qwait = s.qwait
      /\ d.running = s.running /\ d.queue_map = s.queue_map
  BY <1>7, DequeueType DEF PartOfSem
<1> HIDE DEF d
<1>9. m \in QMaps /\ DOMAIN m = DOMAIN s.queue_map
      /\ \A p \in DOMAIN s.queue_map :
           p \notin Range(due) => m[p].wait_until = s.queue_map[p].wait_until
  <2>1. \A p \in DOMAIN s.queue_map : s.queue_map[p] \in MQUE
    BY <1>2, QMapFacts
  <2>2. \A e \in MQUE : /\ [e EXCEPT !.wait_until = 0] \in MQUE
                        /\ [e EXCEPT !.semaphore_obj = NOTHING] \in MQUE
                        /\ [e EXCEPT !.semaphore_obj = NOTHING].wait_until
                             = e.wait_until
    BY DEF MQUE
  <2>3. \A p \in DOMAIN s.queue_map :
          /\ m[p] \in MQUE
          /\ p \notin Range(due) => m[p].wait_until = s.queue_map[p].wait_until
    BY <2>1, <2>2
  <2>4. m \in [DOMAIN s.queue_map -> MQUE] /\ DOMAIN s.queue_map \subseteq PID
    BY <1>2, <2>3, QMapFacts
  <2> QED
    BY <2>3, <2>4, QMapFacts
<1> HIDE DEF m
<1> DEFINE f == s.qfirst \o due \o late
<1>10. /\ f \in Seq(PID) /\ IsInjective(f)
       /\ Range(f) = Range(s.qfirst) \cup Range(due) \cup Range(late)
  <2> DEFINE g == s.qfirst \o due
  <2>1. /\ g \in Seq(PID) /\ IsInjective(g)
        /\ Range(g) = Range(s.qfirst) \cup Range(due)
    BY <1>2, <1>5, ConcatFacts DEF Linked, Disjoint
  <2>2. Range(g) \cap Range(late) = {}
    BY <1>2, <1>5, <1>7, <2>1 DEF Linked, Disjoint
  <2> HIDE DEF g
  <2>3. /\ g \o late \in Seq(PID) /\ IsInjective(g \o late)
        /\ Range(g \o late) = Range(g) \cup Range(late)
    BY <1>7, <2>1, <2>2, ConcatFacts
  <2> QED
    BY <2>1, <2>3 DEF g
<1> HIDE DEF f
<1>11. t = [d EXCEPT !.qwait = Drop(q, n), !.qfirst = f, !.queue_map = m]
  BY <1>8 DEF State, f
<1>12. /\ t \in State /\ t.qfirst = f /\ t.qwait = Drop(q, n)
       /\ t.qsem = d.qsem /\ t.running = s.running /\ t.queue_map = m
  <2> HIDE DEF t, q
  <2> QED
    BY <1>6, <1>8, <1>9, <1>10, <1>11 DEF State
<1> HIDE DEF t
<1>13. Linked(t)
  BY <1>2, <1>5, <1>6, <1>7, <1>8, <1>9, <1>10, <1>12 DEF Linked, Disjoint, Listed
<1>14. Sorted(t.qwait, t.queue_map)
  <2> DEFINE r == Drop(q, n)
  <2>1. \A j \in 1..Len(r) : /\ r[j] = q[n + j] /\ n + j \in 1..Len(q)
                             /\ r[j] \in Range(r)
    BY <1>2, <1>4, <1>6 DEF Range
  <2> HIDE DEF r
  <2>2. \A p \in Range(r) : m[p].wait_until = s.queue_map[p].wait_until
    <3>1. Range(r) \subseteq DOMAIN s.queue_map /\ Range(due) \cap Range(r) = {}
      BY <1>2, <1>6 DEF Linked, Listed, r
    <3> QED
      BY <1>9, <3>1
  <2>3. ASSUME NEW j \in 1..Len(r), NEW k \in 1..Len(r), j < k
        PROVE  m[r[j]].wait_until <= m[r[k]].wait_until
    <3>1. n + j < n + k
      BY <1>4, <2>3
    <3>2. s.queue_map[q[n + j]].wait_until <= s.queue_map[q[n + k]].wait_until
      BY <1>2, <2>1, <3>1 DEF Sorted
    <3> QED
      BY <2>1, <2>2, <3>2
  <2> QED
    BY <1>12, <2>3 DEF Sorted, r
<1> QED
  BY <1>1, <1>12, <1>13, <1>14 DEF Good

\* do_top() frees the first entry or starts running it.
LEMMA DoTopGood ==
  ASSUME NEW s, Good(s), s.qfirst # << >>
  PROVE  Good(do_top(s))
<1> DEFINE p == Head(s.qfirst)
           t == [s EXCEPT !.qfirst = Tail(@)]
           r == Refund(t, {p})
           g == [r EXCEPT !.running = Append(@, p)]
<1>1. \/ do_top(s) = free_qentry(t, {p})
      \/ do_top(s) = free_qentry(r, {p})
      \/ do_top(s) = g
  BY DEF do_top
<1>2. s \in State /\ Linked(s) /\ s.qfirst \in Seq(PID) /\ s.running \in Seq(PID)
  BY DEF Good, State
<1>3. /\ p \in PID /\ Tail(s.qfirst) \in Seq(PID) /\ IsInjective(Tail(s.qfirst))
      /\ Range(s.qfirst) = Range(Tail(s.qfirst)) \cup {p}
      /\ p \notin Range(Tail(s.qfirst))
  <2> DEFINE q == s.qfirst
  <2>1. q \in Seq(PID) /\ q # << >> /\ IsInjective(q)
    BY <1>2 DEF Linked, Disjoint
  <2> HIDE DEF q
  <2>2. /\ Len(q) \in Nat \ {0} /\ DOMAIN q = 1..Len(q) /\ Head(q) = q[1]
        /\ Tail(q) \in Seq(PID) /\ Len(Tail(q)) = Len(q) - 1
        /\ DOMAIN Tail(q) = 1..(Len(q) - 1)
        /\ \A j \in 1..(Len(q) - 1) : Tail(q)[j] = q[j + 1]
    BY <2>1
  <2> DEFINE z == Tail(q)
  <2>3. q[1] \in PID
    BY <2>1, <2>2
  <2>4. /\ DOMAIN z = 1..(Len(q) - 1) /\ \A j \in 1..(Len(q) - 1) : z[j] = q[j + 1]
    BY <2>2
  <2> HIDE DEF z
  <2>5. IsInjective(z)
    BY <2>1, <2>2, <2>4 DEF IsInjective
  <2>6. Range(q) = Range(z) \cup {q[1]}
    <3>1. \A x \in Range(z) \cup {q[1]} : x \in Range(q)
      BY <2>2, <2>4 DEF Range
    <3>2. ASSUME NEW j \in 1..Len(q) PROVE q[j] \in Range(z) \cup {q[1]}
      <4>1. j = 1 \/ (j - 1 \in 1..(Len(q) - 1) /\ (j - 1) + 1 = j)
        BY <2>2
      <4> QED
        BY <2>4, <4>1 DEF Range
    <3> QED
      BY <2>2, <3>1, <3>2 DEF Range
  <2>7. q[1] \notin Range(z)
    BY <2>1, <2>2, <2>4 DEF IsInjective, Range
  <2> QED
    BY <2>2, <2>3, <2>5, <2>6, <2>7 DEF q, z
<1>4. /\ t \in State /\ t.qfirst = Tail(s.qfirst) /\ t.qwait = s.qwait
      /\ t.qsem = s.qsem /\ t.running = s.running /\ t.queue_map = s.queue_map
  BY <1>2, <1>3 DEF State
<1> HIDE DEF t, p
<1>5. /\ r \in State /\ r.qfirst = t.qfirst /\ r.qwait = s.qwait
      /\ r.qsem = s.qsem /\ r.running = s.running /\ r.queue_map = s.queue_map
  BY <1>3, <1>4, RefundType
<1> HIDE DEF r
<1>6. ASSUME NEW v \in State, v.qfirst = Tail(s.qfirst), v.qwait = s.qwait,
             v.qsem = s.qsem, v.running = s.running, v.queue_map = s.queue_map
      PROVE  Good(free_qentry(v, {p}))
  <2> DEFINE f == free_qentry(v, {p})
  <2>1. /\ f \in State /\ DOMAIN f.queue_map = DOMAIN s.queue_map \ {p}
        /\ \A e \in DOMAIN s.queue_map \ {p} : f.queue_map[e] = s.queue_map[e]
        /\ f.qfirst = Tail(s.qfirst) /\ f.qwait = s.qwait
        /\ f.qsem = s.qsem /\ f.running = s.running
    BY <1>6, FreeType
  <2> HIDE DEF f
  <2>2. Linked(f)
    BY <1>2, <1>3, <2>1 DEF Linked, Disjoint, Listed
  <2>3. \A e \in Range(s.qwait) : f.queue_map[e] = s.queue_map[e]
    BY <1>2, <1>3, <2>1 DEF Linked, Disjoint, Listed
  <2>4. Good(f)
    BY <2>1, <2>2, <2>3, SameWait
  <2> QED
    BY <2>4 DEF f
<1>7. Good(g)
  <2>1. /\ Append(s.running, p) \in Seq(PID)
        /\ Range(Append(s.running, p)) = Range(s.running) \cup {p}
        /\ IsInjective(Append(s.running, p))
    BY <1>2, <1>3, AppendFacts DEF Linked, Disjoint, Listed
  <2>2. /\ g \in State /\ g.qfirst = Tail(s.qfirst) /\ g.qwait = s.qwait
        /\ g.qsem = s.qsem /\ g.running = Append(s.running, p)
        /\ g.queue_map = s.queue_map
    BY <1>4, <1>5, <2>1 DEF State
  <2> HIDE DEF g
  <2>3. Linked(g)
    BY <1>2, <1>3, <2>1, <2>2 DEF Linked, Disjoint, Listed
  <2> QED
    BY <2>2, <2>3, SameWait
<1> QED
  BY <1>1, <1>4, <1>5, <1>6, <1>7

\* An entry that has run is freed.
LEMMA EndOfEntryGood ==
  ASSUME NEW s, Good(s), s.running # << >>
  PROVE  Good(EndOfEntry(s))
<1> DEFINE q == s.running
           n == Len(q) - 1
           p == q[Len(q)]
           t == [s EXCEPT !.running = Take(@, n)]
           f == free_qentry(t, {p})
<1>1. EndOfEntry(s) = f
  BY DEF EndOfEntry
<1>2. s \in State /\ Linked(s) /\ q \in Seq(PID) /\ IsInjective(q) /\ q # << >>
  BY DEF Good, State, Linked, Disjoint
<1> HIDE DEF q
<1>3. Len(q) \in Nat \ {0} /\ DOMAIN q = 1..Len(q)
  BY <1>2
<1>4. n \in Nat /\ n <= Len(q) /\ n + 1 = Len(q) /\ Len(q) - n = 1
  BY <1>3
<1> HIDE DEF n
<1>5. Take(q, n) \in Seq(PID) /\ IsInjective(Take(q, n))
  BY <1>2, <1>4, TakeFacts
<1>6. Range(Drop(q, n)) = {p}
  <2> DEFINE z == Drop(q, n)
  <2>1. z \in Seq(PID) /\ Len(z) = Len(q) - n
        /\ \A j \in 1..(Len(q) - n) : z[j] = q[n + j]
    BY <1>2, <1>4, DropFacts
  <2> HIDE DEF z
  <2>2. Len(z) = 1 /\ \A j \in 1..1 : z[j] = q[n + j]
    BY <1>4, <2>1
  <2>3. DOMAIN z = {1} /\ z[1] = q[Len(q)]
    BY <1>4, <2>1, <2>2
  <2>4. Range(z) = {p}
    BY <2>3 DEF Range
  <2> QED
    BY <2>4 DEF z
<1>7. Range(q) = Range(Take(q, n)) \cup {p} /\ p \notin Range(Take(q, n))
  <2>1. /\ Range(Take(q, n)) \cup Range(Drop(q, n)) = Range(q)
        /\ Range(Take(q, n)) \cap Range(Drop(q, n)) = {}
    BY <1>2, <1>4, DropFacts
  <2> HIDE DEF p
  <2> QED
    BY <1>6, <2>1
<1> HIDE DEF p
<1>8. /\ t \in State /\ t.running = Take(q, n) /\ t.qfirst = s.qfirst
      /\ t.qwait = s.qwait /\ t.qsem = s.qsem /\ t.queue_map = s.queue_map
  BY <1>2, <1>5 DEF State, q
<1> HIDE DEF t
<1>9. /\ f \in State /\ DOMAIN f.queue_map = DOMAIN s.queue_map \ {p}
      /\ \A e \in DOMAIN s.queue_map \ {p} : f.queue_map[e] = s.queue_map[e]
      /\ f.qfirst = s.qfirst /\ f.qwait = s.qwait /\ f.qsem = s.qsem
      /\ f.running = Take(q, n)
  BY <1>8, FreeType
<1> HIDE DEF f
<1>10. Linked(f)
  BY <1>2, <1>5, <1>7, <1>9 DEF Linked, Disjoint, Listed, q
<1>11. \A e \in Range(s.qwait) : f.queue_map[e] = s.queue_map[e]
  BY <1>2, <1>7, <1>9 DEF Linked, Disjoint, Listed, q
<1> QED
  BY <1>1, <1>9, <1>10, <1>11, SameWait

\* shutdown_queues() frees every listed entry.
LEMMA ShutdownGood ==
  ASSUME NEW s, Good(s)
  PROVE  Good(shutdown_queues(s))
<1> DEFINE real == {p \in Listed(s) : RealGood(s, s.queue_map[p].executor)}
           r == Refund(s, real)
           f == free_qentry(r, Listed(s))
           t == [f EXCEPT !.qfirst = << >>, !.qwait = << >>, !.qsem = << >>]
<1>1. shutdown_queues(s) = t
  BY DEF shutdown_queues
<1>2. s \in State /\ Linked(s)
  BY DEF Good
<1>3. real \subseteq PID
  BY <1>2, ListedPids
<1> HIDE DEF real
<1>4. r \in State /\ r.running = s.running /\ r.queue_map = s.queue_map
  BY <1>2, <1>3, RefundType
<1> HIDE DEF r
<1>5. /\ f \in State /\ DOMAIN f.queue_map = DOMAIN s.queue_map \ Listed(s)
      /\ f.running = s.running
  BY <1>4, FreeType
<1> HIDE DEF f
<1>6. << >> \in Seq(PID) /\ Len(<< >>) = 0 /\ Range(<< >>) = {} /\ IsInjective(<< >>)
  BY DEF Range, IsInjective
<1>7. /\ t \in State /\ t.qfirst = << >> /\ t.qwait = << >> /\ t.qsem = << >>
      /\ t.running = s.running /\ t.queue_map = f.queue_map
  BY <1>5, <1>6 DEF State
<1> HIDE DEF t
<1>8. Linked(t)
  BY <1>2, <1>5, <1>6, <1>7 DEF Linked, Disjoint, Listed
<1>9. Sorted(t.qwait, t.queue_map)
  BY <1>6, <1>7 DEF Sorted
<1> QED
  BY <1>1, <1>7, <1>8, <1>9 DEF Good

-----------------------------------------------------------------------------
\* Other commands.

\* The state after the restart of the i-th object, from the states before.
Restarted(s, R, loss, f, i) ==
  IF i = 0 THEN s
  ELSE LET t == f[i - 1] IN
       IF i - 1 \in (R \cap STARTUP) \ (t.garbage \cup t.halted)
       THEN insert_que(t, i - 1, loss[i - 1]) ELSE t

\* The states that do_raw_restart() goes through, one per dbref.
Restarts(s, R, loss) ==
  CHOOSE f : f = [i \in 0..db_top |-> Restarted(s, R, loss, f, i)]

\* The recursion of do_raw_restart defines a function.
LEMMA RestartsDefined ==
  ASSUME NEW s, NEW R, NEW loss
  PROVE  Restarts(s, R, loss) =
           [i \in 0..db_top |-> Restarted(s, R, loss, Restarts(s, R, loss), i)]
<1> DEFINE ok == {n \in Nat :
                    \E f : f = [i \in 0..n |-> Restarted(s, R, loss, f, i)]}
<1>1. 0 \in ok
  <2> DEFINE f == [i \in 0..0 |-> s]
  <2>1. f = [i \in 0..0 |-> Restarted(s, R, loss, f, i)]
    BY DEF Restarted
  <2> QED
    BY <2>1
<1>2. ASSUME NEW n \in Nat, n \in ok PROVE n + 1 \in ok
  <2>1. PICK f : f = [i \in 0..n |-> Restarted(s, R, loss, f, i)]
    BY <1>2
  <2> DEFINE last == Restarted(s, R, loss, f, n + 1)
             g == [i \in 0..(n + 1) |-> IF i = n + 1 THEN last ELSE f[i]]
  <2>2. ASSUME NEW h, NEW i \in Nat, i # 0, h[i - 1] = f[i - 1]
        PROVE  Restarted(s, R, loss, h, i) = Restarted(s, R, loss, f, i)
    BY <2>2 DEF Restarted
  <2>3. \A h : Restarted(s, R, loss, h, 0) = s
    BY DEF Restarted
  <2>4. ASSUME NEW i \in 0..(n + 1) PROVE g[i] = Restarted(s, R, loss, g, i)
    <3>1. CASE i = n + 1
      <4>1. i \in Nat /\ i # 0 /\ i - 1 = n /\ n \in 0..(n + 1) /\ n # n + 1
        BY <3>1
      <4>2. g[i - 1] = f[i - 1] /\ g[i] = Restarted(s, R, loss, f, i)
        BY <3>1, <4>1
      <4> HIDE DEF g
      <4> QED
        BY <2>2, <4>1, <4>2
    <3>2. CASE i = 0
      <4>1. g[0] = f[0] /\ f[0] = Restarted(s, R, loss, f, 0)
        BY <2>1
      <4> HIDE DEF g
      <4> QED
        BY <2>3, <3>2, <4>1
    <3>3. CASE i # 0 /\ i # n + 1
      <4>1. /\ i \in 0..n /\ i - 1 \in 0..n /\ i - 1 # n + 1 /\ i - 1 \in 0..(n + 1)
            /\ i \in Nat
        BY <3>3
      <4>2. g[i] = f[i] /\ g[i - 1] = f[i - 1]
        BY <3>3, <4>1
      <4>3. f[i] = Restarted(s, R, loss, f, i)
        BY <2>1, <4>1
      <4> HIDE DEF g
      <4> QED
        BY <2>2, <3>3, <4>1, <4>2, <4>3
    <3> QED
      BY <3>1, <3>2, <3>3
  <2>5. g = [i \in 0..(n + 1) |-> Restarted(s, R, loss, g, i)]
    <3> DEFINE h == [i \in 0..(n + 1) |-> Restarted(s, R, loss, g, i)]
    <3>1. DOMAIN g = 0..(n + 1) /\ g = [i \in 0..(n + 1) |-> g[i]]
      OBVIOUS
    <3> HIDE DEF g
    <3> QED
      BY <2>4, <3>1
  <2> HIDE DEF g
  <2> QED
    BY <2>5
<1> HIDE DEF ok
<1>3. Nat \subseteq ok
  BY <1>1, <1>2, NatSetInduction
<1>4. db_top \in ok
  BY <1>3, ConfigAssumption
<1>5. \E f : f = [i \in 0..db_top |-> Restarted(s, R, loss, f, i)]
  BY <1>4 DEF ok
<1> QED
  BY <1>5 DEF Restarts

\* do_raw_restart() queues in good states only, by induction on dbrefs.
LEMMA RawRestartGood ==
  ASSUME NEW s, Good(s), NEW R, NEW loss \in [Objects -> LossChoices]
  PROVE  Good(do_raw_restart(s, R, loss))
<1> DEFINE F == Restarts(s, R, loss)
<1>0. db_top \in Nat
  BY ConfigAssumption
<1>1. do_raw_restart(s, R, loss) = F[db_top]
  BY DEF do_raw_restart, Restarted, Restarts
<1>2. F = [i \in 0..db_top |-> Restarted(s, R, loss, F, i)]
  BY RestartsDefined
<1> HIDE DEF F
<1> DEFINE ok == {n \in Nat : n <= db_top => Good(F[n])}
<1>3. 0 \in ok
  <2>1. F[0] = s
    BY <1>0, <1>2 DEF Restarted
  <2> QED
    BY <2>1
<1>4. ASSUME NEW n \in Nat, n \in ok PROVE n + 1 \in ok
  <2> SUFFICES ASSUME n + 1 <= db_top PROVE Good(F[n + 1])
    OBVIOUS
  <2>1. Good(F[n])
    BY <1>0, <1>4
  <2>2. n \in Objects /\ n + 1 \in 0..db_top /\ n + 1 # 0 /\ (n + 1) - 1 = n
    BY <1>0 DEF Objects
  <2>3. loss[n] \in {0, 1}
    BY <2>2, LossType
  <2>4. F[n + 1] = F[n] \/ F[n + 1] = insert_que(F[n], n, loss[n])
    BY <1>2, <2>2 DEF Restarted
  <2> QED
    BY <2>1, <2>2, <2>3, <2>4, InsertQueGood
<1> HIDE DEF ok
<1>5. Nat \subseteq ok
  BY <1>3, <1>4, NatSetInduction
<1> QED
  BY <1>0, <1>1, <1>5 DEF ok

\* @restart.
LEMMA RestartGood ==
  ASSUME NEW s, Good(s), NEW v, NEW loss \in [Objects -> LossChoices]
  PROVE  Good(do_restart_com(s, v, loss))
BY HaltGood, RawRestartGood DEF do_restart_com

\* @halt, with and without a command.
LEMMA Halt1Good ==
  ASSUME NEW s, Good(s), NEW v \in Objects, NEW ncom, NEW loss \in {0, 1}
  PROVE  Good(do_halt1(s, v, ncom, loss))
<1> DEFINE t == do_halt(s, {v})
<1>1. Good(t)
  BY HaltGood
<1>2. \/ do_halt1(s, v, ncom, loss) = insert_que(t, v, loss)
      \/ do_halt1(s, v, ncom, loss) = [t EXCEPT !.halted = t.halted \cup {v}]
      \/ do_halt1(s, v, ncom, loss) = t
  BY DEF do_halt1
<1> HIDE DEF t
<1>3. t.halted \cup {v} \in SUBSET Objects
  BY <1>1 DEF Good, State
<1>4. Good([t EXCEPT !.halted = t.halted \cup {v}])
  BY <1>1, <1>3, HaltedGood
<1>5. Good(insert_que(t, v, loss))
  BY <1>1, InsertQueGood
<1> QED
  BY <1>1, <1>2, <1>4, <1>5

\* @chown, with and without /preserve.
LEMMA ChownGood ==
  ASSUME NEW s, Good(s), NEW thing \in Objects, NEW new \in Players, NEW preserve
  PROVE  Good(chown_object(s, thing, new, preserve))
<1> DEFINE ow == [s.owner EXCEPT ![thing] = new]
           po == [s.powers EXCEPT ![thing] = {}]
           t == [s EXCEPT !.owner = ow]
           u == [t EXCEPT !.powers = po, !.halted = s.halted \cup {thing}]
<1>1. s \in State
  BY DEF Good
<1>2. /\ ow \in [Objects -> Players] /\ po \in [Objects -> SUBSET Powers]
      /\ s.halted \cup {thing} \in SUBSET Objects
  BY <1>1 DEF State
<1>3. \/ chown_object(s, thing, new, preserve) = t
      \/ chown_object(s, thing, new, preserve) = do_halt(u, {thing})
  BY <1>1 DEF chown_object, State
<1> HIDE DEF ow, po
<1>4. t \in State /\ u \in State
  BY <1>1, <1>2 DEF State
<1>5. Good(t)
  BY <1>1, <1>4, SameLists DEF State
<1>6. Good(u)
  BY <1>1, <1>4, SameLists DEF State
<1> HIDE DEF t, u
<1> QED
  BY <1>3, <1>5, <1>6, HaltGood

\* Destroying an object.
LEMMA FreeObjectGood ==
  ASSUME NEW s, Good(s), NEW thing \in Objects, NEW loss \in {0, 1}
  PROVE  Good(free_object(s, thing, loss))
<1> DEFINE t == DrainAll(do_halt(queue_event(s, loss), {thing}), thing, NULL)
           ow == [t.owner EXCEPT ![thing] = GOD]
           po == [t.powers EXCEPT ![thing] = {}]
           qu == [t.queue EXCEPT ![thing] = 0]
           u == [t EXCEPT !.owner = ow, !.powers = po, !.halted = t.halted \ {thing},
                          !.queue = qu, !.garbage = t.garbage \cup {thing}]
<1>1. Good(t)
  BY QueueEventGood, HaltGood, DrainGood
<1>2. free_object(s, thing, loss) =
        [t EXCEPT !.owner[thing] = GOD, !.powers[thing] = {},
                  !.halted = @ \ {thing}, !.queue[thing] = 0,
                  !.garbage = @ \cup {thing}]
  BY DEF free_object
<1> HIDE DEF t
<1>3. t \in State
  BY <1>1 DEF Good
<1>4. /\ ow \in [Objects -> Players] /\ po \in [Objects -> SUBSET Powers]
      /\ qu \in [Objects -> Int] /\ t.halted \ {thing} \in SUBSET Objects
      /\ t.garbage \cup {thing} \in SUBSET Objects
  <2>1. GOD \in Players
    BY ConfigAssumption
  <2> QED
    BY <1>3, <2>1 DEF State
<1>5. free_object(s, thing, loss) = u
  BY <1>2, <1>3 DEF State
<1> HIDE DEF ow, po, qu
<1>6. u \in State
  BY <1>3, <1>4 DEF State
<1>7. Good(u)
  BY <1>1, <1>3, <1>6, SameLists DEF State
<1> QED
  BY <1>5, <1>7

-----------------------------------------------------------------------------
\* The specification.

\* The links and the order of a state in which no entry dangles.
Ordered(s) == ~Dangles(s) => Linked(s) /\ Sorted(s.qwait, s.queue_map)

\* Types alone do not survive a step: a walk over the wait queue compares the
\* times of allocated entries only if every linked entry is allocated.
IInv ==
  /\ mudtime \in Int /\ last_mudtime \in Int /\ down \in BOOLEAN
  /\ St \in State /\ Ordered(St)

\* St is a State when its fields have their types.
LEMMA RecordOfFields ==
  ASSUME NEW s \in State
  PROVE  s = [qfirst |-> s.qfirst, qwait |-> s.qwait, qsem |-> s.qsem,
              running |-> s.running, queue_map |-> s.queue_map,
              top_pid |-> s.top_pid, queue |-> s.queue, pennies |-> s.pennies,
              sem |-> s.sem, owner |-> s.owner, powers |-> s.powers,
              halted |-> s.halted, garbage |-> s.garbage]
BY DEF State

\* The empty queues that init_queue() sets up satisfy the invariant.
LEMMA InitIInv == Init => IInv
<1> SUFFICES ASSUME Init PROVE IInv
  OBVIOUS
<1>1. << >> \in Seq(PID) /\ Len(<< >>) = 0 /\ Range(<< >>) = {} /\ IsInjective(<< >>)
      /\ DOMAIN << >> = {}
  BY DEF Range, IsInjective
<1>2. << >> \in QMaps
  <2>1. << >> \in [{} -> MQUE]
    BY <1>1
  <2> QED
    BY <1>1, <2>1, QMapFacts
<1>3. 1 \in 1..(MAX_PID + 1)
  BY ConfigAssumption
<1>4. St \in State
  BY <1>1, <1>2, <1>3, ConfigAssumption DEF Init, St, State
<1>5. St.qfirst = << >> /\ St.qwait = << >> /\ St.qsem = << >>
      /\ St.running = << >> /\ St.queue_map = << >>
  BY DEF Init, St
<1>6. Linked(St) /\ Sorted(St.qwait, St.queue_map)
  BY <1>1, <1>5 DEF Linked, Disjoint, Listed, Sorted
<1>7. mudtime \in Int /\ last_mudtime \in Int
  BY DEF Init
<1>8. down \in BOOLEAN
  BY DEF Init
<1>9. Ordered(St)
  BY <1>6 DEF Ordered
<1> QED
  BY <1>4, <1>7, <1>8, <1>9 DEF IInv

\* Every command and every step of the main loop preserves the invariant.
LEMMA NextIInv == IInv /\ [Next]_vars => IInv'
<1> SUFFICES ASSUME IInv, [Next]_vars PROVE IInv'
  OBVIOUS
<1>1. Up => Good(St)
  BY DEF IInv, Up, Dangling, Ordered, Dangles, Good, St
<1>2. \A s \in State : Becomes(s) => St' = s
  BY RecordOfFields DEF Becomes, St
<1>3. ASSUME NEW s \in State, Good(s) \/ Dangles(s), Becomes(s),
             mudtime' \in Int, last_mudtime' \in Int, down' \in BOOLEAN
      PROVE  IInv'
  <2>1. St' = s
    BY <1>2, <1>3
  <2>2. Ordered(s)
    BY <1>3 DEF Ordered, Good
  <2> QED
    BY <1>3, <2>1, <2>2 DEF IInv
<1>4. ASSUME NEW s, Good(s) \/ (s \in State /\ Dangles(s)), Command(s)
      PROVE  IInv'
  <2>1. s \in State /\ (Good(s) \/ Dangles(s))
    BY <1>4 DEF Good
  <2>2. /\ mudtime' \in Int /\ last_mudtime' \in Int /\ down' \in BOOLEAN
        /\ Becomes(s)
    BY <1>4 DEF Command, IInv
  <2> QED
    BY <1>3, <2>1, <2>2
<1>5. \A s : Command(s) => Good(St)
  BY <1>1 DEF Command
<1>6. mudtime \in Int
  BY DEF IInv
<1>7. Real \subseteq Objects /\ Actors \subseteq Objects
      /\ DOMAIN St.queue_map = DOMAIN queue_map
  BY BoundAssumption DEF Real, Actors, St
<1>8. CASE QueueActionList
  <2>1. PICK x \in Real, loss \in LossChoices : Command(insert_que(St, x, loss))
    BY <1>8 DEF QueueActionList
  <2>2. Good(insert_que(St, x, loss))
    BY <1>5, <1>7, <2>1, InsertQueGood, LossType
  <2> QED
    BY <1>4, <2>1, <2>2
<1>9. CASE QueueEvent
  <2>1. PICK loss \in LossChoices : Command(queue_event(St, loss))
    BY <1>9 DEF QueueEvent
  <2>2. Good(queue_event(St, loss))
    BY <1>5, <2>1, QueueEventGood, LossType
  <2> QED
    BY <1>4, <2>1, <2>2
<1>10. CASE Wait
  <2>1. PICK x \in Actors, n \in Delays, until \in BOOLEAN, loss \in LossChoices :
          Command(wait_que(St, x, n, NOTHING, NULL, until, loss))
    BY <1>10 DEF Wait
  <2>2. x \in Objects /\ n \in Int /\ loss \in {0, 1} /\ Good(St)
    BY <1>5, <1>7, <2>1, LossType, BoundAssumption
  <2>3. NOTHING \in Objects \cup {NOTHING} /\ NULL \in Attrs \cup {NULL}
    OBVIOUS
  <2>4. Good(wait_que(St, x, n, NOTHING, NULL, until, loss))
    BY <1>6, <2>2, <2>3, WaitQueGood
  <2> QED
    BY <1>4, <2>1, <2>4
<1>11. CASE SemWait
  <2>1. PICK x \in Actors, obj \in Real, attr \in Attrs, n \in Delays \cup {-1},
             until \in BOOLEAN, loss \in LossChoices :
          Command(do_wait(St, x, obj, attr, n, until, loss))
    BY <1>11 DEF SemWait
  <2>2. x \in Objects /\ obj \in Objects /\ loss \in {0, 1} /\ Good(St)
    BY <1>5, <1>7, <2>1, LossType
  <2>3. n \in Int
    BY BoundAssumption
  <2>4. Good(do_wait(St, x, obj, attr, n, until, loss))
    BY <1>6, <2>2, <2>3, DoWaitGood
  <2> QED
    BY <1>4, <2>1, <2>4
<1>12. CASE WaitPid
  <2>1. PICK pid \in DOMAIN queue_map, mode \in {"until", "adjust", "set"},
             n \in Delays : Command(do_waitpid(St, pid, mode, n))
    BY <1>12 DEF WaitPid
  <2>2. pid \in DOMAIN St.queue_map /\ n \in Int /\ Good(St)
    BY <1>5, <1>7, <2>1, BoundAssumption
  <2>3. Good(do_waitpid(St, pid, mode, n))
    BY <1>6, <2>2, DoWaitPidGood
  <2> QED
    BY <1>4, <2>1, <2>3
<1>13. CASE HaltPid
  <2>1. PICK pid \in DOMAIN queue_map : Command(do_haltpid(St, pid))
    BY <1>13 DEF HaltPid
  <2>2. /\ do_haltpid(St, pid) \in State
        /\ Good(do_haltpid(St, pid)) \/ Dangles(do_haltpid(St, pid))
    BY <1>5, <1>7, <2>1, HaltPidGood
  <2> QED
    BY <1>4, <2>1, <2>2
<1>14. CASE Halt
  <2>1. PICK v \in Real, ncom \in BOOLEAN, loss \in LossChoices :
          Command(do_halt1(St, v, ncom, loss))
    BY <1>14 DEF Halt
  <2>2. v \in Objects /\ loss \in {0, 1} /\ Good(St)
    BY <1>5, <1>7, <2>1, LossType
  <2>3. Good(do_halt1(St, v, ncom, loss))
    BY <2>2, Halt1Good
  <2> QED
    BY <1>4, <2>1, <2>3
<1>15. CASE AllHalt
  <2>1. Command(do_halt(St, Players))
    BY <1>15 DEF AllHalt
  <2>2. Good(do_halt(St, Players))
    BY <1>5, <2>1, HaltGood
  <2> QED
    BY <1>4, <2>1, <2>2
<1>16. CASE Restart
  <2>1. PICK v \in Real, loss \in [Objects -> LossChoices] :
          Command(do_restart_com(St, v, loss))
    BY <1>16 DEF Restart
  <2>2. Good(do_restart_com(St, v, loss))
    BY <1>5, <2>1, RestartGood
  <2> QED
    BY <1>4, <2>1, <2>2
<1>17. CASE Notify
  <2>1. PICK obj \in Real, attr \in Attrs \cup {NULL}, n \in Counts :
          Command(NotifySemaphores(St, obj, attr, n))
    BY <1>17 DEF Notify
  <2>2. obj \in Objects /\ n \in Nat /\ Good(St)
    BY <1>5, <1>7, <2>1, BoundAssumption
  <2>3. Good(NotifySemaphores(St, obj, attr, n))
    BY <2>2, NotifyGood
  <2> QED
    BY <1>4, <2>1, <2>3
<1>18. CASE NotifyEvery
  <2>1. PICK obj \in Real, attr \in Attrs \cup {NULL} :
          Command(NotifyAll(St, obj, attr))
    BY <1>18 DEF NotifyEvery
  <2>2. Good(NotifyAll(St, obj, attr))
    BY <1>5, <1>7, <2>1, NotifyGood
  <2> QED
    BY <1>4, <2>1, <2>2
<1>19. CASE NotifySetq
  <2>1. PICK obj \in Real, attr \in Attrs \cup {NULL} :
          Command(execute_one_semaphore(St, obj, attr))
    BY <1>19 DEF NotifySetq
  <2>2. Good(execute_one_semaphore(St, obj, attr))
    BY <1>5, <1>7, <2>1, NotifyGood
  <2> QED
    BY <1>4, <2>1, <2>2
<1>20. CASE Drain
  <2>1. PICK obj \in Real, attr \in Attrs \cup {NULL}, n \in Counts :
          Command(DrainSome(St, obj, attr, n))
    BY <1>20 DEF Drain
  <2>2. n \in Nat /\ Good(St)
    BY <1>5, <2>1, BoundAssumption
  <2>3. Good(DrainSome(St, obj, attr, n))
    BY <2>2, DrainGood
  <2> QED
    BY <1>4, <2>1, <2>3
<1>21. CASE DrainEvery
  <2>1. PICK obj \in Real, attr \in Attrs \cup {NULL} :
          Command(DrainAll(St, obj, attr))
    BY <1>21 DEF DrainEvery
  <2>2. Good(DrainAll(St, obj, attr))
    BY <1>5, <2>1, DrainGood
  <2> QED
    BY <1>4, <2>1, <2>2
<1>22. CASE SetHalt
  <2>1. PICK x \in Real :
          Command([St EXCEPT !.halted = IF x \in @ THEN @ \ {x} ELSE @ \cup {x}])
    BY <1>22 DEF SetHalt
  <2> DEFINE H == IF x \in St.halted THEN St.halted \ {x} ELSE St.halted \cup {x}
  <2>2. Good(St) /\ x \in Objects /\ St.halted \subseteq Objects
    BY <1>5, <1>7, <2>1 DEF Good, State
  <2>3. H \in SUBSET Objects
    BY <2>2
  <2>4. Command([St EXCEPT !.halted = H])
    BY <2>1
  <2> HIDE DEF H
  <2>5. Good([St EXCEPT !.halted = H])
    BY <2>2, <2>3, HaltedGood
  <2> QED
    BY <1>4, <2>4, <2>5
<1>23. CASE Chown
  <2>1. PICK thing \in Things \ garbage, new \in NewOwners, preserve \in BOOLEAN :
          Command(chown_object(St, thing, new, preserve))
    BY <1>23 DEF Chown
  <2>2. thing \in Objects /\ new \in Players /\ Good(St)
    BY <1>5, <2>1, BoundAssumption DEF Things
  <2>3. Good(chown_object(St, thing, new, preserve))
    BY <2>2, ChownGood
  <2> QED
    BY <1>4, <2>1, <2>3
<1>24. CASE Destroy
  <2>1. PICK thing \in Things \ garbage, loss \in LossChoices :
          Command(free_object(St, thing, loss))
    BY <1>24 DEF Destroy
  <2>2. thing \in Objects /\ loss \in {0, 1} /\ Good(St)
    BY <1>5, <2>1, LossType DEF Things
  <2>3. Good(free_object(St, thing, loss))
    BY <2>2, FreeObjectGood
  <2> QED
    BY <1>4, <2>1, <2>3
<1>25. CASE Tick
  <2>1. PICK t \in 1..MaxTime : mudtime' = t
    BY <1>25 DEF Tick
  <2>2. mudtime' \in Int
    BY <2>1, BoundAssumption
  <2>3. St' = St /\ last_mudtime' = last_mudtime /\ down' = down
    BY <1>25 DEF Tick, St
  <2> QED
    BY <2>2, <2>3 DEF IInv
<1>26. CASE QueueUpdate
  <2>1. Up /\ Becomes(queue_update(St)) /\ last_mudtime' = mudtime
        /\ mudtime' = mudtime /\ down' = down
    BY <1>26 DEF QueueUpdate
  <2>2. Good(queue_update(St))
    BY <1>1, <1>6, <2>1, QueueUpdateGood
  <2>3. queue_update(St) \in State
    BY <2>2 DEF Good
  <2>4. mudtime' \in Int /\ last_mudtime' \in Int /\ down' \in BOOLEAN
    BY <2>1 DEF IInv
  <2> QED
    BY <1>3, <2>1, <2>2, <2>3, <2>4
<1>27. CASE DoTop
  <2>1. Command(do_top(St)) /\ St.qfirst # << >>
    BY <1>27 DEF DoTop, St
  <2>2. Good(do_top(St))
    BY <1>5, <2>1, DoTopGood
  <2> QED
    BY <1>4, <2>1, <2>2
<1>28. CASE EndEntry
  <2>1. Command(EndOfEntry(St)) /\ St.running # << >>
    BY <1>28 DEF EndEntry, St
  <2>2. Good(EndOfEntry(St))
    BY <1>5, <2>1, EndOfEntryGood
  <2> QED
    BY <1>4, <2>1, <2>2
<1>29. CASE Shutdown
  <2>1. Up /\ Becomes(shutdown_queues(St))
    BY <1>29 DEF Shutdown
  <2>2. Good(shutdown_queues(St))
    BY <1>1, <2>1, ShutdownGood
  <2>3. shutdown_queues(St) \in State
    BY <2>2 DEF Good
  <2>4. mudtime' \in Int /\ last_mudtime' \in Int
    BY <1>29 DEF IInv, Shutdown
  <2>5. down' \in BOOLEAN
    BY <1>29 DEF Shutdown
  <2> QED
    BY <1>3, <2>1, <2>2, <2>3, <2>4, <2>5
<1>30. CASE UNCHANGED vars
  <2>1. St' = St /\ mudtime' = mudtime /\ last_mudtime' = last_mudtime
        /\ down' = down
    BY <1>30 DEF vars, St
  <2> QED
    BY <2>1 DEF IInv
<1> QED
  BY <1>8, <1>9, <1>10, <1>11, <1>12, <1>13, <1>14, <1>15, <1>16, <1>17, <1>18,
     <1>19, <1>20, <1>21, <1>22, <1>23, <1>24, <1>25, <1>26, <1>27, <1>28, <1>29,
     <1>30 DEF Next

\* The inductive invariant holds in every reachable state.
THEOREM Invariance == Spec => []IInv
BY InitIInv, NextIInv, PTL DEF Spec

\* Every variable keeps its type, whatever the commands, the database and the
\* configuration: in particular no count or pid leaves its range, and no
\* player's money becomes negative or exceeds MAX_PENNIES.
THEOREM TypeCorrect == Spec => []TypeOK
<1>1. IInv => TypeOK
  <2> SUFFICES ASSUME IInv PROVE TypeOK
    OBVIOUS
  <2>1. queue_map \in QMaps
    BY DEF IInv, St, State
  <2>2. DOMAIN queue_map \subseteq PID /\ queue_map \in [DOMAIN queue_map -> MQUE]
    BY <2>1, QMapFacts
  <2> QED
    BY <2>2 DEF IInv, St, State, TypeOK
<1> QED
  BY <1>1, Invariance, PTL

\* Until @halt/pid leaves a freed entry in a list, every allocated entry is in
\* exactly one place of exactly one list or is running: no operation of cque.c
\* leaks an entry, links one twice or unlinks one it does not free.
THEOREM Partition == Spec => []QueuePartition
<1>1. IInv => QueuePartition
  BY DEF IInv, Ordered, Dangles, Linked, QueuePartition, Dangling, St
<1> QED
  BY <1>1, Invariance, PTL

\* The wait queue is sorted: queue_update() may stop at the first entry that
\* is not due.
THEOREM Sortedness == Spec => []WaitSorted
<1>1. IInv => WaitSorted
  BY DEF IInv, Ordered, Dangles, Sorted, WaitSorted, Dangling, St
<1> QED
  BY <1>1, Invariance, PTL
=============================================================================
