-------------------- MODULE CommandQueueAccountsProofs --------------------
(***************************************************************************)
(* What the entries of the queues stand for: a live executor, a unit of    *)
(* the semaphore they wait on, a count and a deposit.                      *)
(*                                                                         *)
(* Each operation of src/cque.c is shown to keep the books, from what the  *)
(* lemmas of CommandQueueOrderProofs say that it changes.                  *)
(***************************************************************************)
EXTENDS CommandQueueOrderProofs

-----------------------------------------------------------------------------
\* Halting.

\* The entries that do_halt() on V finds, and those of them that it frees.
Mine(s, V) == UNION {EntriesOf(s, v) : v \in V}
Gone(s, V) == Mine(s, V) \ Range(s.qfirst)

\* t is s after do_halt() on V, apart from money and counts.
Halted(s, V, t) ==
  /\ t.qfirst = s.qfirst /\ t.running = s.running /\ Database(t) = Database(s)
  /\ Range(t.qwait) = Range(s.qwait) \ Gone(s, V)
  /\ Range(t.qsem) = Range(s.qsem) \ Gone(s, V)
  /\ DOMAIN t.queue_map = DOMAIN s.queue_map \ Gone(s, V)
  /\ \A p \in DOMAIN s.queue_map \ Mine(s, V) : t.queue_map[p] = s.queue_map[p]
  /\ \A p \in Mine(s, V) \ Gone(s, V) :
       t.queue_map[p] = [s.queue_map[p] EXCEPT !.executor = NOTHING]
  /\ t.sem = Lowered(s, Gone(s, V) \cap Range(s.qsem))

\* This is what do_halt() does.
LEMMA HaltDone ==
  ASSUME NEW s, Good(s), NEW V
  PROVE  Halted(s, V, do_halt(s, V))
<1> DEFINE mine == Mine(s, V)
           gone == Gone(s, V)
           stay == DOMAIN s.queue_map \ gone
           t == do_halt(s, V)
           m == [p \in stay |->
                  IF p \in mine THEN [s.queue_map[p] EXCEPT !.executor = NOTHING]
                  ELSE s.queue_map[p]]
<1>1. s \in State /\ Linked(s)
  BY DEF Good
<1>2. t.qfirst = s.qfirst /\ t.running = s.running /\ Database(t) = Database(s)
  BY <1>1, HaltEffect
<1>3. t.qwait = Keep(s.qwait, stay) /\ t.qsem = Keep(s.qsem, stay)
  BY <1>1 DEF do_halt, State, Mine, Gone
<1>4. t.queue_map = m
  BY <1>1 DEF do_halt, State, Mine, Gone
<1>5. t.sem = Lowered(s, gone \cap Range(s.qsem))
  BY <1>1 DEF do_halt, State, Mine, Gone, Lowered
<1>6. /\ Range(s.qwait) \subseteq DOMAIN s.queue_map
      /\ Range(s.qsem) \subseteq DOMAIN s.queue_map
      /\ Listed(s) \subseteq DOMAIN s.queue_map
  BY <1>1 DEF Linked, Listed
<1>7. mine \subseteq Listed(s)
  BY <1>1, EntriesListed DEF Mine
<1> HIDE DEF t
<1>8. Range(t.qwait) = Range(s.qwait) \ gone /\ Range(t.qsem) = Range(s.qsem) \ gone
  <2>1. s.qwait \in Seq(PID) /\ s.qsem \in Seq(PID)
    BY <1>1 DEF State
  <2>2. /\ Range(Keep(s.qwait, stay)) = Range(s.qwait) \cap stay
        /\ Range(Keep(s.qsem, stay)) = Range(s.qsem) \cap stay
    <3> HIDE DEF stay
    <3> QED
      BY <2>1, KeepFacts
  <2> QED
    BY <1>3, <1>6, <2>2
<1>9. /\ DOMAIN t.queue_map = DOMAIN s.queue_map \ gone
      /\ \A p \in DOMAIN s.queue_map \ mine : t.queue_map[p] = s.queue_map[p]
      /\ \A p \in mine \ gone :
           t.queue_map[p] = [s.queue_map[p] EXCEPT !.executor = NOTHING]
  <2>1. gone \subseteq mine /\ mine \subseteq DOMAIN s.queue_map
    BY <1>6, <1>7 DEF Gone
  <2> HIDE DEF mine, gone
  <2> QED
    BY <1>4, <2>1
<1> QED
  BY <1>2, <1>5, <1>8, <1>9 DEF Halted, t

\* After do_halt() on v no entry is executed by v.
LEMMA HaltedExecutor ==
  ASSUME NEW s, Good(s), NEW V, NEW v \in V, v \in Objects,
         NEW t, Halted(s, V, t), NEW p \in Listed(t)
  PROVE  t.queue_map[p].executor # v
<1>1. Linked(s)
  BY DEF Good
<1>2. p \in Listed(s) /\ p \notin Gone(s, V) /\ p \in DOMAIN s.queue_map
  <2>1. p \in Listed(s)
    BY DEF Halted, Listed
  <2>2. p \in Range(s.qfirst) => p \notin Gone(s, V)
    BY DEF Gone
  <2> QED
    BY <1>1, <2>1, <2>2 DEF Halted, Listed, Linked
<1>3. NOTHING # v
  BY ObjectFacts
<1>4. CASE p \in Mine(s, V)
  <2>1. t.queue_map[p] = [s.queue_map[p] EXCEPT !.executor = NOTHING]
    BY <1>2, <1>4 DEF Halted
  <2>2. s.queue_map[p] \in MQUE
    BY <1>2, QMapFacts DEF Good, State
  <2> QED
    BY <1>3, <2>1, <2>2 DEF MQUE
<1>5. CASE p \notin Mine(s, V)
  <2>1. t.queue_map[p] = s.queue_map[p]
    BY <1>2, <1>5 DEF Halted
  <2>2. p \notin EntriesOf(s, v)
    BY <1>5 DEF Mine
  <2> QED
    BY <1>2, <1>3, <2>1, <2>2 DEF EntriesOf
<1> QED
  BY <1>4, <1>5

-----------------------------------------------------------------------------
\* Counting the waiters of a semaphore.

\* The number of waiters is a natural number.
LEMMA WaitersType ==
  ASSUME NEW s, NEW P \in SUBSET PID, NEW k
  PROVE  /\ Waiters(s, P, k) \in Nat
         /\ IsFiniteSet({p \in P : SemKey(s.queue_map[p]) = k})
<1> DEFINE S == {p \in P : SemKey(s.queue_map[p]) = k}
<1>1. S \subseteq PID
  OBVIOUS
<1> HIDE DEF S
<1>2. Cardinality(S) \in Nat
  BY <1>1, PidCardinality
<1>3. IsFiniteSet(PID)
  BY FS_Interval, ConfigAssumption DEF PID
<1>4. IsFiniteSet(S)
  BY <1>1, <1>3, FS_Subset
<1> QED
  BY <1>2, <1>4 DEF S, Waiters

\* Those who leave are counted off.
LEMMA WaitersLeave ==
  ASSUME NEW s, NEW P \in SUBSET PID, NEW Q \in SUBSET P, NEW k
  PROVE  Waiters(s, P \ Q, k) = Waiters(s, P, k) - Waiters(s, Q, k)
<1> DEFINE S == {p \in P : SemKey(s.queue_map[p]) = k}
           T == {p \in Q : SemKey(s.queue_map[p]) = k}
<1>1. {p \in P \ Q : SemKey(s.queue_map[p]) = k} = S \ T
  OBVIOUS
<1>2. T \in SUBSET S /\ IsFiniteSet(S) /\ Q \in SUBSET PID
  <2>1. T \in SUBSET S /\ Q \in SUBSET PID
    OBVIOUS
  <2>2. IsFiniteSet(PID)
    BY FS_Interval, ConfigAssumption DEF PID
  <2>3. S \in SUBSET PID
    OBVIOUS
  <2> HIDE DEF S
  <2>4. IsFiniteSet(S)
    BY <2>2, <2>3, FS_Subset
  <2> QED
    BY <2>1, <2>4
<1>3. IsFiniteSet(T)
  <2> HIDE DEF S, T
  <2> QED
    BY <1>2, FS_Subset
<1>4. S \cap T = T
  BY <1>2
<1> HIDE DEF S, T
<1>5. Cardinality(S \ T) = Cardinality(S) - Cardinality(S \cap T)
  BY <1>2, <1>3, FS_Difference
<1> QED
  BY <1>1, <1>4, <1>5 DEF S, T, Waiters

\* The count depends on the semaphores that the entries wait on only.
LEMMA WaitersSame ==
  ASSUME NEW s, NEW t, NEW P, NEW k,
         \A p \in P : SemKey(t.queue_map[p]) = SemKey(s.queue_map[p])
  PROVE  Waiters(t, P, k) = Waiters(s, P, k)
<1>1. {p \in P : SemKey(t.queue_map[p]) = k} = {p \in P : SemKey(s.queue_map[p]) = k}
  OBVIOUS
<1> QED
  BY <1>1 DEF Waiters

\* One more waiter counts one more for its semaphore.
LEMMA WaitersJoin ==
  ASSUME NEW s, NEW P \in SUBSET PID, NEW p \in PID \ P, NEW k
  PROVE  Waiters(s, P \cup {p}, k) =
           Waiters(s, P, k) + (IF SemKey(s.queue_map[p]) = k THEN 1 ELSE 0)
<1> DEFINE S == {e \in P : SemKey(s.queue_map[e]) = k}
           T == {e \in P \cup {p} : SemKey(s.queue_map[e]) = k}
<1>1. T = IF SemKey(s.queue_map[p]) = k THEN S \cup {p} ELSE S
  OBVIOUS
<1>2. IsFiniteSet(S) /\ p \notin S
  <2>1. S \subseteq PID /\ p \notin S
    OBVIOUS
  <2>2. IsFiniteSet(PID)
    BY FS_Interval, ConfigAssumption DEF PID
  <2> HIDE DEF S
  <2> QED
    BY <2>1, <2>2, FS_Subset
<1> HIDE DEF S, T
<1>3. Cardinality(S \cup {p}) = Cardinality(S) + 1
  BY <1>2, FS_AddElement
<1>4. Cardinality(S) + 0 = Cardinality(S)
  BY <1>2, FS_CardinalityType
<1> QED
  BY <1>1, <1>3, <1>4 DEF S, T, Waiters

-----------------------------------------------------------------------------
\* Executors and semaphores.

\* No listed entry is executed by garbage, and those that wait on a semaphore
\* have an executor and say which semaphore it is.
Live(s) ==
  /\ \A p \in Listed(s) : s.queue_map[p].executor \notin s.garbage
  /\ \A p \in Range(s.qsem) :
       /\ s.queue_map[p].executor # NOTHING
       /\ s.queue_map[p].semaphore_obj # NOTHING
       /\ s.queue_map[p].semaphore_attr # NULL

\* The semaphore k is at least the number of its waiters.
Covers(s, k) ==
  Waiters(s, Range(s.qsem), k) > 0 => s.sem[k] >= Waiters(s, Range(s.qsem), k)

Sound(s) == Live(s) /\ \A k \in SemKeys : Covers(s, k)

\* A semaphore that loses as much as it loses waiters still covers the others.
LEMMA CoversLeft ==
  ASSUME NEW s \in State, NEW Q \in SUBSET Range(s.qsem), NEW k \in SemKeys,
         Covers(s, k), NEW t,
         Range(t.qsem) = Range(s.qsem) \ Q,
         \A p \in Range(t.qsem) : SemKey(t.queue_map[p]) = SemKey(s.queue_map[p]),
         t.sem[k] = s.sem[k] - Waiters(s, Q, k)
  PROVE  Covers(t, k)
<1> DEFINE P == Range(s.qsem)
           n == Waiters(s, P, k)
           d == Waiters(s, Q, k)
<1>1. P \in SUBSET PID /\ Q \in SUBSET P /\ Q \in SUBSET PID
  BY ListedPids
<1>2. Waiters(t, P \ Q, k) = Waiters(s, P \ Q, k)
  <2> HIDE DEF P
  <2> QED
    BY WaitersSame DEF P
<1>3. s.sem[k] \in Int
  BY DEF State
<1> HIDE DEF P
<1>4. Waiters(s, P \ Q, k) = n - d /\ n \in Nat /\ d \in Nat
  BY <1>1, WaitersLeave, WaitersType
<1>5. Waiters(t, Range(t.qsem), k) = n - d
  BY <1>2, <1>4 DEF P
<1>6. n > 0 => s.sem[k] >= n
  BY DEF Covers, P
<1> HIDE DEF n, d
<1>7. t.sem[k] = s.sem[k] - d
  BY DEF d
<1>8. n - d > 0 => t.sem[k] >= n - d
  BY <1>3, <1>4, <1>6, <1>7
<1> QED
  BY <1>5, <1>8 DEF Covers

\* An operation that unlinks the waiters Q, lowering their semaphores, and may
\* take executors away from other entries.
LEMMA SoundLeft ==
  ASSUME NEW s \in State, Sound(s), NEW Q \in SUBSET Range(s.qsem), NEW t,
         Listed(t) \subseteq Listed(s), t.garbage = s.garbage,
         Range(t.qsem) = Range(s.qsem) \ Q,
         \A p \in Listed(t) : t.queue_map[p].executor
                                \in {s.queue_map[p].executor, NOTHING},
         \A p \in Range(t.qsem) :
            /\ t.queue_map[p].executor = s.queue_map[p].executor
            /\ SemKey(t.queue_map[p]) = SemKey(s.queue_map[p]),
         \A k \in SemKeys : t.sem[k] = s.sem[k] - Waiters(s, Q, k)
  PROVE  Sound(t)
<1>1. NOTHING \notin s.garbage
  BY ObjectFacts DEF State
<1>2. \A k \in SemKeys : Covers(t, k)
  BY CoversLeft DEF Sound
<1>3. Live(t)
  <2>1. \A p \in Listed(t) : t.queue_map[p].executor \notin t.garbage
    BY <1>1 DEF Sound, Live
  <2>2. \A p \in Range(t.qsem) :
          /\ t.queue_map[p].executor = s.queue_map[p].executor
          /\ t.queue_map[p].semaphore_obj = s.queue_map[p].semaphore_obj
          /\ t.queue_map[p].semaphore_attr = s.queue_map[p].semaphore_attr
    BY DEF SemKey
  <2> QED
    BY <2>1, <2>2 DEF Sound, Live
<1> QED
  BY <1>2, <1>3 DEF Sound

\* Nobody waits in no entries.
LEMMA NoWaiters == \A s, k : Waiters(s, {}, k) = 0
<1>1. \A s, k : {p \in {} : SemKey(s.queue_map[p]) = k} = {}
  OBVIOUS
<1> QED
  BY <1>1, FS_EmptySet DEF Waiters

\* An operation that leaves the semaphore queue alone and lists nothing new.
LEMMA SoundSame ==
  ASSUME NEW s \in State, Sound(s), NEW t,
         Listed(t) \subseteq Listed(s), t.garbage = s.garbage,
         Range(t.qsem) = Range(s.qsem), t.sem = s.sem,
         \A p \in Listed(t) : t.queue_map[p].executor
                                \in {s.queue_map[p].executor, NOTHING},
         \A p \in Range(t.qsem) :
            /\ t.queue_map[p].executor = s.queue_map[p].executor
            /\ SemKey(t.queue_map[p]) = SemKey(s.queue_map[p])
  PROVE  Sound(t)
<1>1. \A k \in SemKeys : t.sem[k] = s.sem[k] - Waiters(s, {}, k)
  BY NoWaiters DEF State
<1>2. Range(t.qsem) = Range(s.qsem) \ {} /\ {} \in SUBSET Range(s.qsem)
  OBVIOUS
<1> QED
  BY <1>1, <1>2, SoundLeft

\* Money, counts and flags do not matter.
LEMMA SoundLists ==
  ASSUME NEW s, Good(s), Sound(s), NEW t, Lists(t) = Lists(s),
         t.garbage = s.garbage, t.sem = s.sem
  PROVE  Sound(t)
<1>1. /\ t.qfirst = s.qfirst /\ t.qwait = s.qwait /\ t.qsem = s.qsem
      /\ t.queue_map = s.queue_map /\ Listed(t) = Listed(s)
  BY DEF Lists, Listed
<1> QED
  BY <1>1, SoundSame DEF Good

\* do_halt() keeps the semaphores covered.
LEMMA HaltSound ==
  ASSUME NEW s, Good(s), Sound(s), NEW V
  PROVE  Sound(do_halt(s, V))
<1> DEFINE t == do_halt(s, V)
           Q == Gone(s, V) \cap Range(s.qsem)
<1>1. Halted(s, V, t) /\ s \in State /\ Linked(s)
  BY HaltDone DEF Good
<1> HIDE DEF t
<1>2. Listed(t) \subseteq Listed(s) /\ t.garbage = s.garbage
  BY <1>1 DEF Halted, Listed, Database
<1>3. Range(t.qsem) = Range(s.qsem) \ Q /\ Q \in SUBSET Range(s.qsem)
  BY <1>1 DEF Halted
<1>4. \A p \in Listed(t) : p \in DOMAIN s.queue_map /\ p \notin Gone(s, V)
  BY <1>1 DEF Halted, Listed, Linked, Gone
<1>5. \A p \in Listed(t) : s.queue_map[p] \in MQUE
  BY <1>1, <1>4, QMapFacts DEF State
<1>6. \A p \in Listed(t) : t.queue_map[p].executor
                             \in {s.queue_map[p].executor, NOTHING}
  <2> SUFFICES ASSUME NEW p \in Listed(t)
               PROVE  t.queue_map[p].executor \in {s.queue_map[p].executor, NOTHING}
    OBVIOUS
  <2>1. p \in DOMAIN s.queue_map /\ p \notin Gone(s, V)
    BY <1>4
  <2>2. CASE p \in Mine(s, V)
    <3>1. t.queue_map[p] = [s.queue_map[p] EXCEPT !.executor = NOTHING]
      BY <1>1, <2>1, <2>2 DEF Halted
    <3>2. s.queue_map[p] \in MQUE
      BY <1>5
    <3> QED
      BY <3>1, <3>2 DEF MQUE
  <2>3. CASE p \notin Mine(s, V)
    BY <1>1, <2>1, <2>3 DEF Halted
  <2> QED
    BY <2>2, <2>3
<1>7. \A p \in Range(t.qsem) : t.queue_map[p] = s.queue_map[p]
  <2> SUFFICES ASSUME NEW p \in Range(t.qsem) PROVE t.queue_map[p] = s.queue_map[p]
    OBVIOUS
  <2>1. p \in Range(s.qsem) /\ p \notin Range(s.qfirst) /\ p \notin Gone(s, V)
    BY <1>1 DEF Linked, Disjoint, Halted
  <2>2. p \in DOMAIN s.queue_map \ Mine(s, V)
    BY <1>1, <2>1 DEF Gone, Linked, Listed
  <2> QED
    BY <1>1, <2>2 DEF Halted
<1>8. \A k \in SemKeys : t.sem[k] = s.sem[k] - Waiters(s, Q, k)
  BY <1>1 DEF Halted, Lowered
<1> HIDE DEF Q
<1>9. Sound(t)
  BY <1>1, <1>2, <1>3, <1>6, <1>7, <1>8, SoundLeft
<1> QED
  BY <1>9 DEF t

-----------------------------------------------------------------------------
\* Queueing.

\* The semaphore key of an entry that does not wait on a semaphore.
NoSem == <<NOTHING, NULL>>

\* t is s after x paid for the new entry e, which waits on k unless that is
\* NoSem.
Entered(s, x, loss, k, pid, e, t) ==
  /\ pid \in PID \ DOMAIN s.queue_map /\ e \in MQUE
  /\ e.executor = x /\ SemKey(e) = k
  /\ DOMAIN t.queue_map = DOMAIN s.queue_map \cup {pid} /\ t.queue_map[pid] = e
  /\ \A p \in DOMAIN s.queue_map : t.queue_map[p] = s.queue_map[p]
  /\ Listed(t) = Listed(s) \cup {pid}
  /\ Range(t.qsem) = IF k = NoSem THEN Range(s.qsem) ELSE Range(s.qsem) \cup {pid}
  /\ t.running = s.running /\ Database(t) = Database(s) /\ t.sem = s.sem
  /\ t.queue = [s.queue EXCEPT ![Counter(s, x)] = @ + 1]
  /\ t.pennies = Spent(s, x, QUEUE_COST + loss)

\* The outcomes of queueing an entry for x.
Enters(s, x, loss, k, t) ==
  \/ Paid(s, x, loss, t)
  \/ Refused(s, x, loss, t)
  \/ \E pid, e : Entered(s, x, loss, k, pid, e, t)

\* The state with a new entry before it is linked.
LEMMA InsertEffect ==
  ASSUME NEW s, Good(s), NEW pid \in PID \ DOMAIN s.queue_map, NEW e \in MQUE
  PROVE  LET t == im_insert(s, pid, e)
         IN  /\ t \in State /\ t.qfirst = s.qfirst /\ t.qwait = s.qwait
             /\ t.qsem = s.qsem /\ t.running = s.running
             /\ DOMAIN t.queue_map = DOMAIN s.queue_map \cup {pid}
             /\ t.queue_map[pid] = e
             /\ \A p \in DOMAIN s.queue_map : t.queue_map[p] = s.queue_map[p]
             /\ Database(t) = Database(s) /\ t.sem = s.sem
             /\ t.queue = s.queue /\ t.pennies = s.pennies
<1>1. s \in State
  BY DEF Good
<1>2. /\ Database(im_insert(s, pid, e)) = Database(s)
      /\ im_insert(s, pid, e).sem = s.sem
      /\ im_insert(s, pid, e).queue = s.queue
      /\ im_insert(s, pid, e).pennies = s.pennies
  BY <1>1 DEF im_insert, State, Database
<1> QED
  BY <1>2, InsertedMap

\* Linking it completes the entry.
LEMMA EntersLinked ==
  ASSUME NEW s, Good(s), NEW x \in Objects, NEW loss, NEW k,
         NEW a, Good(a), Paid(s, x, loss, a),
         NEW pid \in PID \ DOMAIN s.queue_map, NEW e \in MQUE,
         e.executor = x, SemKey(e) = k,
         NEW t, t.queue_map = im_insert(a, pid, e).queue_map,
         t.running = a.running, Database(t) = Database(a), t.sem = a.sem,
         t.queue = a.queue, t.pennies = a.pennies,
         Listed(t) = Listed(a) \cup {pid},
         Range(t.qsem) = IF k = NoSem THEN Range(a.qsem) ELSE Range(a.qsem) \cup {pid}
  PROVE  Enters(s, x, loss, k, t)
<1>1. /\ a.queue_map = s.queue_map /\ a.running = s.running
      /\ Listed(a) = Listed(s) /\ a.qsem = s.qsem
      /\ Database(a) = Database(s) /\ a.sem = s.sem
      /\ a.queue = [s.queue EXCEPT ![Counter(s, x)] = @ + 1]
      /\ a.pennies = Spent(s, x, QUEUE_COST + loss)
  BY DEF Paid, Lists, Listed
<1>2. LET i == im_insert(a, pid, e)
      IN  /\ DOMAIN i.queue_map = DOMAIN a.queue_map \cup {pid}
          /\ i.queue_map[pid] = e
          /\ \A p \in DOMAIN a.queue_map : i.queue_map[p] = a.queue_map[p]
  BY <1>1, InsertedMap
<1>3. Entered(s, x, loss, k, pid, e, t)
  BY <1>1, <1>2 DEF Entered
<1> QED
  BY <1>3 DEF Enters

\* A new entry of the command queue.
LEMMA ToCommandQueueEnters ==
  ASSUME NEW s, Good(s), NEW x \in Objects, NEW loss \in {0, 1}
  PROVE  Enters(s, x, loss, NoSem, ToCommandQueue(s, x, loss))
<1> DEFINE a == admit(s, x, loss)
           e == new_queue_entry(x, NOTHING, NULL, 0)
           i == im_insert(a.s, a.pid, e)
           t == [i EXCEPT !.qfirst = Append(@, a.pid)]
<1>1. ToCommandQueue(s, x, loss) = IF a.pid = 0 THEN a.s ELSE t
  BY DEF ToCommandQueue
<1>2. Good(a.s)
  BY AdmitGood
<1>3. e \in MQUE /\ e.executor = x /\ SemKey(e) = NoSem
  BY DEF new_queue_entry, MQUE, SemKey, NoSem
<1>4. \/ a.pid \in PID \ DOMAIN s.queue_map /\ Paid(s, x, loss, a.s)
      \/ a.pid = 0 /\ (Paid(s, x, loss, a.s) \/ Refused(s, x, loss, a.s))
  BY AdmitEffect
<1> HIDE DEF a, e
<1>5. CASE a.pid = 0
  <2>1. 0 \notin PID
    BY DEF PID
  <2> QED
    BY <1>1, <1>4, <1>5, <2>1 DEF Enters
<1>6. CASE a.pid # 0
  <2>1. a.pid \in PID \ DOMAIN s.queue_map /\ Paid(s, x, loss, a.s)
    BY <1>4, <1>6
  <2>2. a.pid \in PID \ DOMAIN a.s.queue_map
    BY <2>1 DEF Paid, Lists
  <2>3. LET r == i
        IN  /\ r \in State /\ r.qfirst = a.s.qfirst /\ r.qwait = a.s.qwait
            /\ r.qsem = a.s.qsem /\ r.running = a.s.running
            /\ Database(r) = Database(a.s) /\ r.sem = a.s.sem
            /\ r.queue = a.s.queue /\ r.pennies = a.s.pennies
    BY <1>2, <1>3, <2>2, InsertEffect
  <2> HIDE DEF i
  <2>4. /\ t.qfirst = Append(a.s.qfirst, a.pid) /\ t.qwait = a.s.qwait
        /\ t.qsem = a.s.qsem /\ t.running = a.s.running
        /\ t.queue_map = i.queue_map
        /\ Database(t) = Database(a.s) /\ t.sem = a.s.sem
        /\ t.queue = a.s.queue /\ t.pennies = a.s.pennies
    BY <2>3 DEF State, Database
  <2> HIDE DEF t
  <2>5. a.s.qfirst \in Seq(PID)
    BY <1>2 DEF Good, State
  <2>6. Listed(t) = Listed(a.s) \cup {a.pid}
    BY <2>1, <2>4, <2>5, AppendFacts DEF Listed
  <2>7. Range(t.qsem) = IF NoSem = NoSem THEN Range(a.s.qsem)
                        ELSE Range(a.s.qsem) \cup {a.pid}
    BY <2>4
  <2>8. Enters(s, x, loss, NoSem, t)
    BY <1>2, <1>3, <2>1, <2>4, <2>6, <2>7, EntersLinked DEF i
  <2> QED
    BY <1>1, <1>6, <2>8
<1> QED
  BY <1>5, <1>6

\* An operation that does nothing is a refusal.
LEMMA EntersNothing == \A s, x, loss, k : Enters(s, x, loss, k, s)
BY DEF Enters, Refused

\* insert_que() queues or does nothing.
LEMMA InsertQueEnters ==
  ASSUME NEW s, Good(s), NEW x \in Objects, NEW loss \in {0, 1}
  PROVE  Enters(s, x, loss, NoSem, insert_que(s, x, loss))
BY ToCommandQueueEnters, EntersNothing DEF insert_que


\* @wait with a time queues in the wait queue or the semaphore queue.
LEMMA WaitQueEnters ==
  ASSUME mudtime \in Int, NEW s, Good(s), NEW x \in Objects, NEW n \in Int, n # 0,
         NEW obj \in Objects \cup {NOTHING}, NEW attr \in Attrs \cup {NULL},
         obj # NOTHING => attr \in Attrs, NEW until, NEW loss \in {0, 1}
  PROVE  Enters(s, x, loss, IF obj = NOTHING THEN NoSem ELSE <<obj, attr>>,
                wait_que(s, x, n, obj, attr, until, loss))
<1> DEFINE a == admit(s, x, loss)
           when == CASE until -> n
                     [] ~until /\ n >= 0 -> mudtime + n
                     [] OTHER -> 0
           e == new_queue_entry(x, obj, IF obj = NOTHING THEN NULL ELSE attr, when)
           i == im_insert(a.s, a.pid, e)
           k == IF obj = NOTHING THEN NoSem ELSE <<obj, attr>>
           t == IF obj = NOTHING THEN LinkByTime(i, a.pid)
                ELSE [i EXCEPT !.qsem = Append(@, a.pid)]
<1>1. wait_que(s, x, n, obj, attr, until, loss) = IF a.pid = 0 THEN a.s ELSE t
  BY DEF wait_que
<1>2. Good(a.s)
  BY AdmitGood
<1>3. when \in Int
  <2>1. until \/ ~until
    OBVIOUS
  <2> QED
    BY <2>1
<1> HIDE DEF when
<1>4. e \in MQUE /\ e.executor = x /\ SemKey(e) = k /\ e.wait_until \in Int
  BY <1>3 DEF new_queue_entry, MQUE, SemKey, NoSem
<1>5. k = NoSem <=> obj = NOTHING
  BY DEF NoSem
<1>6. \/ a.pid \in PID \ DOMAIN s.queue_map /\ Paid(s, x, loss, a.s)
      \/ a.pid = 0 /\ (Paid(s, x, loss, a.s) \/ Refused(s, x, loss, a.s))
  BY AdmitEffect
<1> HIDE DEF a, e, k
<1>7. CASE a.pid = 0
  <2>1. 0 \notin PID
    BY DEF PID
  <2> QED
    BY <1>1, <1>6, <1>7, <2>1 DEF Enters, k
<1>8. CASE a.pid # 0
  <2>1. a.pid \in PID \ DOMAIN s.queue_map /\ Paid(s, x, loss, a.s)
    BY <1>6, <1>8
  <2>2. a.pid \in PID \ DOMAIN a.s.queue_map
    BY <2>1 DEF Paid, Lists
  <2>3. LET r == i
        IN  /\ r \in State /\ r.qfirst = a.s.qfirst /\ r.qwait = a.s.qwait
            /\ r.qsem = a.s.qsem /\ r.running = a.s.running
            /\ DOMAIN r.queue_map = DOMAIN a.s.queue_map \cup {a.pid}
            /\ r.queue_map[a.pid] = e
            /\ \A p \in DOMAIN a.s.queue_map : r.queue_map[p] = a.s.queue_map[p]
            /\ Database(r) = Database(a.s) /\ r.sem = a.s.sem
            /\ r.queue = a.s.queue /\ r.pennies = a.s.pennies
    BY <1>2, <1>4, <2>2, InsertEffect
  <2> HIDE DEF i
  <2>4. /\ t.running = a.s.running /\ t.queue_map = i.queue_map
        /\ Database(t) = Database(a.s) /\ t.sem = a.s.sem
        /\ t.queue = a.s.queue /\ t.pennies = a.s.pennies
        /\ t.qfirst = a.s.qfirst
    <3>1. CASE obj = NOTHING
      <4>1. t = LinkByTime(i, a.pid)
        BY <3>1
      <4> QED
        BY <2>3, <4>1, LinkEffect
    <3>2. CASE obj # NOTHING
      BY <2>3, <3>2 DEF State, Database
    <3> QED
      BY <3>1, <3>2
  <2>5. a.s.qsem \in Seq(PID) /\ a.s.qwait \in Seq(PID)
    BY <1>2 DEF Good, State
  <2>6. CASE obj = NOTHING
    <3>1. t.qsem = a.s.qsem
      BY <2>3, <2>6, LinkEffect
    <3>2. Range(t.qwait) = Range(a.s.qwait) \cup {a.pid}
      <4> DEFINE f == FirstAfter(i.qwait, Until(i), e.wait_until)
      <4>1. t.qwait = Insert(i.qwait, f, a.pid)
        BY <2>3, <2>6 DEF LinkByTime, State
      <4>2. i.queue_map \in QMaps
        BY <2>3 DEF State
      <4>3. \A p \in DOMAIN i.queue_map : Until(i)[p] \in Int
        BY <4>2, QMapFacts DEF Until, MQUE
      <4>4. \A j \in 1..Len(i.qwait) : i.qwait[j] \in DOMAIN i.queue_map
        BY <1>2, <2>3 DEF Good, Linked, Listed, Range
      <4>5. \A j \in 1..Len(i.qwait) : Until(i)[i.qwait[j]] \in Int
        BY <4>3, <4>4
      <4>6. i.qwait \in Seq(PID) /\ a.pid \in PID
        BY <2>1, <2>3, <2>5
      <4>7. f \in 1..(Len(i.qwait) + 1)
        BY <1>4, <4>5, <4>6, FirstAfterFacts
      <4> HIDE DEF f
      <4>8. Range(Insert(i.qwait, f, a.pid)) = Range(i.qwait) \cup {a.pid}
        BY <4>6, <4>7, InsertFacts
      <4> QED
        BY <2>3, <4>1, <4>8
    <3> HIDE DEF t
    <3>3. Listed(t) = Listed(a.s) \cup {a.pid}
      BY <2>4, <3>1, <3>2 DEF Listed
    <3>4. Range(t.qsem) = IF k = NoSem THEN Range(a.s.qsem)
                          ELSE Range(a.s.qsem) \cup {a.pid}
      BY <1>5, <2>6, <3>1
    <3>5. Enters(s, x, loss, k, t)
      BY <1>2, <1>4, <2>1, <2>4, <3>3, <3>4, EntersLinked DEF i
    <3> QED
      BY <1>1, <1>8, <3>5 DEF k
  <2>7. CASE obj # NOTHING
    <3>1. t.qsem = Append(a.s.qsem, a.pid) /\ t.qwait = a.s.qwait
      BY <2>3, <2>7 DEF State
    <3> HIDE DEF t
    <3>2. Range(t.qsem) = Range(a.s.qsem) \cup {a.pid}
      BY <2>1, <2>5, <3>1, AppendFacts
    <3>3. Listed(t) = Listed(a.s) \cup {a.pid}
      BY <2>4, <3>1, <3>2 DEF Listed
    <3>4. Range(t.qsem) = IF k = NoSem THEN Range(a.s.qsem)
                          ELSE Range(a.s.qsem) \cup {a.pid}
      BY <1>5, <2>7, <3>2
    <3>5. Enters(s, x, loss, k, t)
      BY <1>2, <1>4, <2>1, <2>4, <3>3, <3>4, EntersLinked DEF i
    <3> QED
      BY <1>1, <1>8, <3>5 DEF k
  <2> QED
    BY <2>6, <2>7
<1> QED
  BY <1>7, <1>8

\* A refusal keeps the semaphores covered and the garbage.
LEMMA RefusedSound ==
  ASSUME NEW s, Good(s), Sound(s), NEW x, NEW loss, NEW t,
         Refused(s, x, loss, t)
  PROVE  Sound(t) /\ t.garbage = s.garbage
<1>1. CASE t = s
  BY <1>1
<1>2. CASE t # s
  <2>1. PICK u : /\ Good(u) /\ Lists(u) = Lists(s) /\ Database(u) = Database(s)
                 /\ u.sem = s.sem
                 /\ t = [do_halt(u, {x}) EXCEPT !.halted = @ \cup {x}]
    BY <1>2 DEF Refused
  <2> DEFINE h == do_halt(u, {x})
  <2>2. Sound(u)
    BY <2>1, SoundLists DEF Database
  <2>3. Good(h) /\ Sound(h)
    BY <2>1, <2>2, HaltGood, HaltSound
  <2>4. u \in State /\ h \in State /\ h.garbage = u.garbage
    BY <2>1, <2>3, HaltEffect DEF Good, Database
  <2> HIDE DEF h
  <2>5. Lists(t) = Lists(h) /\ t.garbage = h.garbage /\ t.sem = h.sem
    BY <2>1, <2>4 DEF State, Lists, h
  <2> QED
    BY <2>1, <2>3, <2>4, <2>5, SoundLists DEF Database
<1> QED
  BY <1>1, <1>2

\* A live object may queue an entry; if the entry waits on a semaphore, that
\* must have one to spare.
LEMMA EntersSound ==
  ASSUME NEW s, Good(s), Sound(s), NEW x \in Objects \ s.garbage, NEW loss, NEW k,
         \/ k = NoSem
         \/ /\ k \in SemKeys
            /\ s.sem[k] >= Waiters(s, Range(s.qsem), k) + 1,
         NEW t, Enters(s, x, loss, k, t)
  PROVE  Sound(t) /\ t.garbage = s.garbage
<1>1. CASE Paid(s, x, loss, t)
  <2>1. Lists(t) = Lists(s) /\ t.sem = s.sem /\ t.garbage = s.garbage
    BY <1>1 DEF Paid, Database
  <2> QED
    BY <2>1, SoundLists
<1>2. CASE Refused(s, x, loss, t)
  BY <1>2, RefusedSound
<1>3. CASE \E pid, e : Entered(s, x, loss, k, pid, e, t)
  <2>1. PICK pid, e : Entered(s, x, loss, k, pid, e, t)
    BY <1>3
  <2>2. /\ t.garbage = s.garbage /\ Listed(t) = Listed(s) \cup {pid}
        /\ t.queue_map[pid] = e /\ e.executor = x /\ SemKey(e) = k
        /\ pid \in PID \ DOMAIN s.queue_map /\ t.sem = s.sem
        /\ \A p \in DOMAIN s.queue_map : t.queue_map[p] = s.queue_map[p]
    BY <2>1 DEF Entered, Database
  <2>3. s \in State /\ Range(s.qsem) \subseteq Listed(s)
        /\ Listed(s) \subseteq DOMAIN s.queue_map
    BY DEF Good, Linked, Listed
  <2>4. pid \notin Range(s.qsem) /\ Range(s.qsem) \in SUBSET PID
    BY <2>2, <2>3, ListedPids
  <2>5. \A p \in Listed(t) : t.queue_map[p].executor \notin t.garbage
    BY <2>2, <2>3 DEF Sound, Live
  <2>6. \A p \in Range(s.qsem) : t.queue_map[p] = s.queue_map[p]
    BY <2>2, <2>3
  <2>7. \A j : Waiters(t, Range(s.qsem), j) = Waiters(s, Range(s.qsem), j)
    BY <2>6, WaitersSame
  <2>8. CASE k = NoSem
    <3>1. Range(t.qsem) = Range(s.qsem)
      BY <2>1, <2>8 DEF Entered
    <3>2. \A j \in SemKeys : Covers(t, j)
      BY <2>2, <2>7, <3>1 DEF Sound, Covers
    <3> QED
      BY <2>2, <2>5, <2>6, <3>1, <3>2 DEF Sound, Live
  <2>9. CASE k # NoSem
    <3>1. Range(t.qsem) = Range(s.qsem) \cup {pid}
      BY <2>1, <2>9 DEF Entered
    <3>2. k \in SemKeys /\ s.sem[k] >= Waiters(s, Range(s.qsem), k) + 1
      BY <2>9
    <3>3. ASSUME NEW j \in SemKeys PROVE Covers(t, j)
      <4> DEFINE w == Waiters(s, Range(s.qsem), j)
      <4>1. w \in Nat /\ s.sem[j] \in Int
        BY <2>3, <2>4, WaitersType DEF State
      <4>2. Waiters(t, Range(t.qsem), j) = w + (IF k = j THEN 1 ELSE 0)
        BY <2>2, <2>4, <2>7, <3>1, WaitersJoin
      <4>3. w > 0 => s.sem[j] >= w
        BY DEF Sound, Covers
      <4>4. k = j => s.sem[j] >= w + 1
        BY <3>2
      <4> HIDE DEF w
      <4>5. w + (IF k = j THEN 1 ELSE 0) > 0
              => s.sem[j] >= w + (IF k = j THEN 1 ELSE 0)
        BY <4>1, <4>3, <4>4
      <4> QED
        BY <2>2, <4>2, <4>5 DEF Covers
    <3>4. e.executor # NOTHING /\ e.semaphore_obj # NOTHING /\ e.semaphore_attr # NULL
      <4>1. x # NOTHING /\ \A j \in SemKeys : j[1] # NOTHING /\ j[2] # NULL
        BY ObjectFacts, ConfigAssumption DEF SemKeys
      <4>2. k[1] = e.semaphore_obj /\ k[2] = e.semaphore_attr
        BY <2>2 DEF SemKey
      <4> QED
        BY <2>2, <3>2, <4>1, <4>2
    <3>5. Live(t)
      BY <2>2, <2>5, <2>6, <3>1, <3>4 DEF Sound, Live
    <3> QED
      BY <2>2, <3>3, <3>5 DEF Sound
  <2> QED
    BY <2>8, <2>9
<1> QED
  BY <1>1, <1>2, <1>3 DEF Enters


-----------------------------------------------------------------------------
\* The operations keep executors live and semaphores covered.

\* insert_que() for a live object.
LEMMA InsertQueSound ==
  ASSUME NEW s, Good(s), Sound(s), NEW x \in Objects \ s.garbage,
         NEW loss \in {0, 1}
  PROVE  /\ Sound(insert_que(s, x, loss))
         /\ insert_que(s, x, loss).garbage = s.garbage
BY InsertQueEnters, EntersSound

\* The event handler is live when it is asked.
LEMMA QueueEventSound ==
  ASSUME NEW s, Good(s), Sound(s), NEW loss \in {0, 1}
  PROVE  /\ Sound(queue_event(s, loss))
         /\ queue_event(s, loss).garbage = s.garbage
<1>1. CASE EVENT_HANDLER \in {NOTHING} \cup s.garbage \cup s.halted
  BY <1>1 DEF queue_event
<1>2. CASE EVENT_HANDLER \notin {NOTHING} \cup s.garbage \cup s.halted
  <2>1. EVENT_HANDLER \in Objects \ s.garbage
    BY <1>2, ConfigAssumption
  <2>2. queue_event(s, loss) = ToCommandQueue(s, EVENT_HANDLER, loss)
    BY <1>2 DEF queue_event
  <2> QED
    BY <2>1, <2>2, ToCommandQueueEnters, EntersSound
<1> QED
  BY <1>1, <1>2

\* Changing one semaphore.
LEMMA AddToSemSound ==
  ASSUME NEW s, Good(s), Sound(s), NEW k \in SemKeys, NEW am \in Int,
         Waiters(s, Range(s.qsem), k) > 0 =>
            s.sem[k] + am >= Waiters(s, Range(s.qsem), k)
  PROVE  Sound(add_to_sem(s, k, am))
<1> DEFINE t == add_to_sem(s, k, am)
<1>1. s \in State
  BY DEF Good
<1>2. /\ Lists(t) = Lists(s) /\ t.garbage = s.garbage
      /\ t.sem = [s.sem EXCEPT ![k] = @ + am]
  BY <1>1, AddToSemEffect DEF Database
<1> HIDE DEF t
<1>3. t.qsem = s.qsem /\ t.queue_map = s.queue_map /\ Listed(t) = Listed(s)
  BY <1>2 DEF Lists, Listed
<1>4. Live(t)
  BY <1>2, <1>3 DEF Sound, Live
<1>5. \A j : Waiters(t, Range(t.qsem), j) = Waiters(s, Range(s.qsem), j)
  BY <1>3 DEF Waiters
<1>6. \A j \in SemKeys : Covers(t, j)
  <2>1. \A j \in SemKeys : t.sem[j] = IF j = k THEN s.sem[k] + am ELSE s.sem[j]
    BY <1>1, <1>2 DEF State
  <2> QED
    BY <1>5, <2>1 DEF Sound, Covers
<1> QED
  BY <1>4, <1>6 DEF Sound, t

\* @wait without a semaphore, or on one that has one to spare.
LEMMA WaitQueSound ==
  ASSUME mudtime \in Int, NEW s, Good(s), Sound(s),
         NEW x \in Objects \ s.garbage, NEW n \in Int,
         NEW obj \in Objects \cup {NOTHING}, NEW attr \in Attrs \cup {NULL},
         obj # NOTHING =>
           /\ attr \in Attrs
           /\ s.sem[<<obj, attr>>] >= Waiters(s, Range(s.qsem), <<obj, attr>>) + 1,
         NEW until, NEW loss \in {0, 1}
  PROVE  Sound(wait_que(s, x, n, obj, attr, until, loss))
<1> DEFINE k == IF obj = NOTHING THEN NoSem ELSE <<obj, attr>>
<1>1. obj # NOTHING => <<obj, attr>> \in SemKeys
  BY DEF SemKeys
<1>2. CASE n # 0
  <2>1. Enters(s, x, loss, k, wait_que(s, x, n, obj, attr, until, loss))
    BY <1>2, WaitQueEnters
  <2>2. k = NoSem \/ (k \in SemKeys /\ s.sem[k] >= Waiters(s, Range(s.qsem), k) + 1)
    BY <1>1
  <2> HIDE DEF k
  <2> QED
    BY <2>1, <2>2, EntersSound
<1>3. CASE n = 0
  <2> DEFINE low == IF obj = NOTHING THEN s ELSE add_to_sem(s, <<obj, attr>>, -1)
  <2>1. wait_que(s, x, n, obj, attr, until, loss) = insert_que(low, x, loss)
    BY <1>3 DEF wait_que
  <2>2. Good(low) /\ Sound(low) /\ low.garbage = s.garbage
    <3>1. CASE obj = NOTHING
      BY <3>1
    <3>2. CASE obj # NOTHING
      <4> DEFINE w == Waiters(s, Range(s.qsem), <<obj, attr>>)
      <4>1. s \in State /\ -1 \in Int /\ <<obj, attr>> \in SemKeys
        BY <1>1, <3>2 DEF Good
      <4>2. w \in Nat /\ s.sem[<<obj, attr>>] \in Int
            /\ s.sem[<<obj, attr>>] >= w + 1
        BY <3>2, <4>1, ListedPids, WaitersType DEF State
      <4>3. low = add_to_sem(s, <<obj, attr>>, -1)
        BY <3>2
      <4> HIDE DEF w
      <4>4. s.sem[<<obj, attr>>] + (-1) >= w
        BY <4>2
      <4>5. Good(low)
        BY <4>1, <4>3, AddToSemType
      <4>6. Sound(low)
        BY <4>1, <4>3, <4>4, AddToSemSound DEF w
      <4>7. low.garbage = s.garbage
        BY <4>1, <4>3 DEF add_to_sem, State
      <4> QED
        BY <4>5, <4>6, <4>7
    <3> QED
      BY <3>1, <3>2
  <2> HIDE DEF low
  <2> QED
    BY <2>1, <2>2, InsertQueSound
<1> QED
  BY <1>2, <1>3

\* @wait on a semaphore raises it first.
LEMMA DoWaitSound ==
  ASSUME mudtime \in Int, NEW s, Good(s), Sound(s),
         NEW x \in Objects \ s.garbage, NEW n \in Int,
         NEW obj \in Objects, NEW attr \in Attrs, NEW until, NEW loss \in {0, 1}
  PROVE  Sound(do_wait(s, x, obj, attr, n, until, loss))
<1> DEFINE k == <<obj, attr>>
           up == add_to_sem(s, k, 1)
           w == Waiters(s, Range(s.qsem), k)
<1>1. k \in SemKeys /\ 1 \in Int /\ s \in State /\ obj # NOTHING
  BY ObjectFacts DEF SemKeys, Good
<1>2. w \in Nat /\ s.sem[k] \in Int
  BY <1>1, ListedPids, WaitersType DEF State
<1>3. w > 0 => s.sem[k] >= w
  BY <1>1 DEF Sound, Covers
<1>4. do_wait(s, x, obj, attr, n, until, loss) =
        IF up.sem[k] <= 0 THEN wait_que(up, x, -1, NOTHING, NULL, until, loss)
        ELSE wait_que(up, x, n, obj, attr, until, loss)
  BY DEF do_wait
<1> HIDE DEF k
<1>5. /\ Lists(up) = Lists(s) /\ up.garbage = s.garbage
      /\ up.sem = [s.sem EXCEPT ![k] = @ + 1]
  BY <1>1 DEF add_to_sem, State, Lists
<1>6. Good(up)
  BY <1>1, AddToSemType
<1>7. Sound(up)
  <2>1. w > 0 => s.sem[k] + 1 >= w
    BY <1>2, <1>3
  <2> QED
    BY <1>1, <2>1, AddToSemSound
<1> HIDE DEF up
<1>8. up.sem[k] = s.sem[k] + 1
  BY <1>1, <1>5 DEF State
<1>9. Waiters(up, Range(up.qsem), k) = w
  BY <1>5 DEF Waiters, Lists
<1> HIDE DEF w
<1>10. CASE up.sem[k] <= 0
  <2>1. -1 \in Int /\ NOTHING \in Objects \cup {NOTHING}
        /\ NULL \in Attrs \cup {NULL}
    OBVIOUS
  <2>2. Sound(wait_que(up, x, -1, NOTHING, NULL, until, loss))
    BY <1>5, <1>6, <1>7, <2>1, WaitQueSound
  <2> QED
    BY <1>4, <1>10, <2>2
<1>11. CASE ~(up.sem[k] <= 0)
  <2>1. up.sem[k] >= w + 1
    BY <1>2, <1>3, <1>8, <1>11
  <2>2. Sound(wait_que(up, x, n, obj, attr, until, loss))
    BY <1>1, <1>5, <1>6, <1>7, <1>9, <2>1, WaitQueSound DEF k
  <2> QED
    BY <1>4, <1>11, <2>2
<1> QED
  BY <1>10, <1>11

\* @wait/pid changes times only.
LEMMA WaitPidSound ==
  ASSUME mudtime \in Int, NEW s, Good(s), Sound(s), NEW pid \in DOMAIN s.queue_map,
         NEW mode \in {"until", "adjust", "set"}, NEW n \in Int
  PROVE  Sound(do_waitpid(s, pid, mode, n))
<1> DEFINE t == do_waitpid(s, pid, mode, n)
<1>1. /\ t.qfirst = s.qfirst /\ t.qsem = s.qsem /\ t.running = s.running
      /\ t.garbage = s.garbage /\ t.sem = s.sem
      /\ DOMAIN t.queue_map = DOMAIN s.queue_map
      /\ \A p \in DOMAIN s.queue_map :
           /\ t.queue_map[p].executor = s.queue_map[p].executor
           /\ SemKey(t.queue_map[p]) = SemKey(s.queue_map[p])
  BY WaitPidEffect DEF Database
<1>2. Good(t)
  BY DoWaitPidGood
<1> HIDE DEF t
<1>3. /\ Listed(t) \subseteq Listed(s)
      /\ Listed(t) \subseteq DOMAIN s.queue_map /\ Range(t.qsem) \subseteq Listed(t)
  BY <1>1, <1>2 DEF Good, Linked, Listed, Disjoint
<1>4. /\ \A p \in Listed(t) : t.queue_map[p].executor
                                \in {s.queue_map[p].executor, NOTHING}
      /\ \A p \in Range(t.qsem) :
           /\ t.queue_map[p].executor = s.queue_map[p].executor
           /\ SemKey(t.queue_map[p]) = SemKey(s.queue_map[p])
  BY <1>1, <1>3
<1> QED
  BY <1>1, <1>3, <1>4, SoundSame DEF Good, t


\* A single waiter.
LEMMA OneWaiter ==
  ASSUME NEW s, NEW p \in PID, NEW k
  PROVE  Waiters(s, {p}, k) = IF SemKey(s.queue_map[p]) = k THEN 1 ELSE 0
<1>1. {} \in SUBSET PID /\ p \in PID \ {} /\ {} \cup {p} = {p}
  OBVIOUS
<1>2. Waiters(s, {} \cup {p}, k) =
        Waiters(s, {}, k) + (IF SemKey(s.queue_map[p]) = k THEN 1 ELSE 0)
  BY <1>1, WaitersJoin
<1>3. Waiters(s, {}, k) = 0
  BY NoWaiters
<1> QED
  BY <1>1, <1>2, <1>3

\* @halt/pid lowers the semaphore of a waiter; what it frees elsewhere dangles.
LEMMA HaltPidSound ==
  ASSUME NEW s, Good(s), Sound(s), NEW pid \in DOMAIN s.queue_map
  PROVE  Sound(do_haltpid(s, pid)) \/ Dangles(do_haltpid(s, pid))
<1> DEFINE e == s.queue_map[pid]
           t == do_haltpid(s, pid)
<1>0. PidHalted(s, pid, t)
  BY HaltPidEffect
<1>1. /\ t.qfirst = s.qfirst /\ t.qwait = s.qwait /\ t.running = s.running
      /\ t.garbage = s.garbage
      /\ \A p \in DOMAIN s.queue_map \ {pid} : t.queue_map[p] = s.queue_map[p]
  BY <1>0 DEF PidHalted, Database
<1>2. s \in State /\ Linked(s) /\ e \in MQUE /\ pid \in PID
  BY QMapFacts DEF Good, State
<1>3. CASE e.semaphore_attr = NULL
  <2>1. t.qsem = s.qsem /\ t.sem = s.sem
        /\ t.queue_map[pid] = [e EXCEPT !.executor = NOTHING]
    BY <1>0, <1>3 DEF PidHalted
  <2> HIDE DEF t
  <2>2. Listed(t) = Listed(s) /\ Listed(s) \subseteq DOMAIN s.queue_map
    BY <1>1, <1>2, <2>1 DEF Listed, Linked
  <2>3. pid \notin Range(s.qsem)
    BY <1>3 DEF Sound, Live
  <2>4. t.queue_map[pid].executor = NOTHING
    BY <1>2, <2>1 DEF MQUE
  <2>5. \A p \in Listed(t) : t.queue_map[p].executor
                               \in {s.queue_map[p].executor, NOTHING}
    BY <1>1, <2>2, <2>4
  <2>6. \A p \in Range(t.qsem) : t.queue_map[p] = s.queue_map[p]
    BY <1>1, <2>1, <2>2, <2>3 DEF Listed
  <2>7. Sound(t)
    BY <1>1, <1>2, <2>1, <2>2, <2>5, <2>6, SoundSame
  <2> QED
    BY <2>7 DEF t
<1>4. CASE e.semaphore_attr # NULL
  <2>1. /\ Range(t.qsem) = Range(s.qsem) \ {pid}
        /\ DOMAIN t.queue_map = DOMAIN s.queue_map \ {pid}
        /\ t.sem = IF e.semaphore_obj = NOTHING THEN s.sem
                   ELSE [s.sem EXCEPT ![SemKey(e)] = @ - 1]
    BY <1>0, <1>4 DEF PidHalted
  <2> HIDE DEF t
  <2>2. CASE pid \notin Range(s.qsem)
    <3>1. pid \in Listed(t) \cup Range(t.running)
      BY <1>1, <1>2, <2>2 DEF Linked, Listed
    <3> QED
      BY <2>1, <3>1 DEF Dangles, t
  <2>3. CASE pid \in Range(s.qsem)
    <3>1. e.semaphore_obj # NOTHING
      BY <2>3 DEF Sound, Live
    <3>2. SemKey(e) \in SemKeys
      BY <1>2, <1>4, <3>1 DEF SemKey, SemKeys, MQUE
    <3>3. t.sem = [s.sem EXCEPT ![SemKey(e)] = @ - 1]
      BY <2>1, <3>1
    <3> DEFINE Q == {pid}
    <3>4. Q \in SUBSET Range(s.qsem) /\ Range(t.qsem) = Range(s.qsem) \ Q
      BY <2>1, <2>3
    <3>5. ASSUME NEW k \in SemKeys
          PROVE  t.sem[k] = s.sem[k] - Waiters(s, Q, k)
      <4>1. Waiters(s, Q, k) = IF SemKey(e) = k THEN 1 ELSE 0
        BY <1>2, OneWaiter
      <4>2. s.sem[k] \in Int /\ s.sem \in [SemKeys -> Int]
        BY <1>2 DEF State
      <4> HIDE DEF Q, e
      <4> QED
        BY <3>2, <3>3, <4>1, <4>2
    <3>6. pid \notin Listed(t) /\ Listed(t) \subseteq Listed(s)
      BY <1>1, <1>2, <2>1, <2>3 DEF Listed, Linked, Disjoint
    <3>7. \A p \in Listed(t) : t.queue_map[p] = s.queue_map[p]
      BY <1>1, <1>2, <3>6 DEF Linked
    <3> HIDE DEF Q
    <3>8. /\ \A p \in Listed(t) : t.queue_map[p].executor
                                    \in {s.queue_map[p].executor, NOTHING}
          /\ \A p \in Range(t.qsem) :
               /\ t.queue_map[p].executor = s.queue_map[p].executor
               /\ SemKey(t.queue_map[p]) = SemKey(s.queue_map[p])
      BY <3>7 DEF Listed
    <3>9. Sound(t)
      BY <1>1, <1>2, <3>4, <3>5, <3>6, <3>8, SoundLeft
    <3> QED
      BY <3>9 DEF t
  <2> QED
    BY <2>2, <2>3
<1> QED
  BY <1>3, <1>4

\* Nobody is left waiting on obj and attr when all who do have left.
LEMMA NoneLeft ==
  ASSUME NEW s, Good(s), NEW obj, NEW attr, NEW k \in SemKeys, k[1] = obj,
         attr # NULL => k[2] = attr,
         NEW t, Range(t.qsem) = Range(s.qsem) \ Range(WaitingOn(s, obj, attr)),
         \A p \in Range(t.qsem) : SemKey(t.queue_map[p]) = SemKey(s.queue_map[p])
  PROVE  Covers(t, k)
<1> DEFINE S == {p \in DOMAIN s.queue_map :
                   /\ s.queue_map[p].semaphore_obj = obj
                   /\ attr # NULL => s.queue_map[p].semaphore_attr = attr}
<1>1. s.qsem \in Seq(PID) /\ Range(s.qsem) \subseteq DOMAIN s.queue_map
  BY DEF Good, State, Linked, Listed
<1>2. Range(WaitingOn(s, obj, attr)) = Range(s.qsem) \cap S
  <2>1. WaitingOn(s, obj, attr) = Keep(s.qsem, S)
    BY DEF WaitingOn
  <2> HIDE DEF S
  <2> QED
    BY <1>1, <2>1, KeepFacts
<1>3. ASSUME NEW p \in Range(t.qsem), SemKey(t.queue_map[p]) = k PROVE FALSE
  <2>1. SemKey(s.queue_map[p]) = k /\ p \in Range(s.qsem) /\ p \notin S
    BY <1>2, <1>3
  <2>2. s.queue_map[p].semaphore_obj = k[1] /\ s.queue_map[p].semaphore_attr = k[2]
    BY <2>1 DEF SemKey
  <2> QED
    BY <1>1, <2>1, <2>2
<1>4. {p \in Range(t.qsem) : SemKey(t.queue_map[p]) = k} = {}
  BY <1>3
<1>5. Waiters(t, Range(t.qsem), k) = 0
  BY <1>4, FS_EmptySet DEF Waiters
<1> QED
  BY <1>5 DEF Covers

\* @notify lowers the semaphores of those it releases, and stores what is left
\* in a semaphore that nobody waits on.
LEMMA NotifiesSound ==
  ASSUME NEW s, Good(s), Sound(s), NEW obj, NEW attr, NEW t,
         Notifies(s, obj, attr, t)
  PROVE  Sound(t)
<1>1. PICK n \in Nat :
        LET ps == Take(WaitingOn(s, obj, attr), n)
        IN  /\ PartOfSem(s, ps)
            /\ t.qfirst = s.qfirst \o ps
            /\ Range(t.qsem) = Range(s.qsem) \ Range(ps)
            /\ t.qwait = s.qwait /\ t.queue_map = s.queue_map
            /\ Database(t) = Database(s)
            /\ \/ t.sem = Lowered(s, Range(ps))
               \/ /\ attr # NULL /\ ps = WaitingOn(s, obj, attr)
                  /\ \A k \in SemKeys : k # <<obj, attr>> =>
                       t.sem[k] = s.sem[k] - Waiters(s, Range(ps), k)
  BY DEF Notifies
<1> DEFINE ps == Take(WaitingOn(s, obj, attr), n)
           Q == Range(ps)
<1>2. /\ ps \in Seq(PID) /\ Q \in SUBSET Range(s.qsem)
      /\ s.qfirst \in Seq(PID) /\ s \in State
  BY <1>1 DEF PartOfSem, Good, State
<1>3. Range(s.qfirst \o ps) = Range(s.qfirst) \cup Q
  <2> HIDE DEF ps
  <2> QED
    BY <1>2, ConcatFacts
<1>4. /\ Range(t.qsem) = Range(s.qsem) \ Q /\ t.queue_map = s.queue_map
      /\ t.garbage = s.garbage /\ Listed(t) \subseteq Listed(s)
  BY <1>1, <1>2, <1>3 DEF Listed, Database
<1>5. CASE \A k \in SemKeys : t.sem[k] = s.sem[k] - Waiters(s, Q, k)
  <2> HIDE DEF Q, ps
  <2> QED
    BY <1>2, <1>4, <1>5, SoundLeft
<1>6. CASE ~ \A k \in SemKeys : t.sem[k] = s.sem[k] - Waiters(s, Q, k)
  <2>1. t.sem # Lowered(s, Q)
    BY <1>6 DEF Lowered
  <2>2. /\ attr # NULL /\ ps = WaitingOn(s, obj, attr)
        /\ \A k \in SemKeys : k # <<obj, attr>> =>
             t.sem[k] = s.sem[k] - Waiters(s, Q, k)
    BY <1>1, <2>1
  <2>3. Live(t)
    BY <1>4 DEF Sound, Live
  <2> HIDE DEF ps
  <2>4. ASSUME NEW k \in SemKeys PROVE Covers(t, k)
    <3>1. CASE k = <<obj, attr>>
      <4>1. k[1] = obj /\ k[2] = attr
        BY <3>1
      <4> QED
        BY <1>4, <2>2, <4>1, NoneLeft
    <3>2. CASE k # <<obj, attr>>
      <4>1. t.sem[k] = s.sem[k] - Waiters(s, Q, k)
        BY <2>2, <3>2
      <4>2. Covers(s, k)
        BY DEF Sound
      <4> HIDE DEF Q
      <4> QED
        BY <1>2, <1>4, <4>1, <4>2, CoversLeft
    <3> QED
      BY <3>1, <3>2
  <2> QED
    BY <2>3, <2>4 DEF Sound
<1> QED
  BY <1>5, <1>6


\* @drain lowers the semaphores of those it discards.
LEMMA DiscardSound ==
  ASSUME NEW s, Good(s), Sound(s), NEW ps, PartOfSem(s, ps)
  PROVE  LET t == Discard(s, ps)
         IN  /\ Sound(t) /\ t.garbage = s.garbage
             /\ Listed(t) = Listed(s) \ Range(ps)
             /\ \A p \in Listed(t) : t.queue_map[p] = s.queue_map[p]
<1> DEFINE t == Discard(s, ps)
           Q == Range(ps)
<1>1. /\ t.qfirst = s.qfirst /\ t.qwait = s.qwait
      /\ t.running = s.running /\ Database(t) = Database(s)
      /\ Range(t.qsem) = Range(s.qsem) \ Q
      /\ DOMAIN t.queue_map = DOMAIN s.queue_map \ Q
      /\ \A p \in DOMAIN s.queue_map \ Q : t.queue_map[p] = s.queue_map[p]
      /\ t.sem = Lowered(s, Q)
  BY DiscardEffect
<1> HIDE DEF t
<1>2. s \in State /\ Linked(s) /\ Q \in SUBSET Range(s.qsem)
  BY DEF Good, PartOfSem
<1>3. t.garbage = s.garbage /\ Listed(t) = Listed(s) \ Q
  <2>1. Range(s.qfirst) \cap Q = {} /\ Range(s.qwait) \cap Q = {}
    BY <1>2 DEF Linked, Disjoint
  <2> QED
    BY <1>1, <2>1 DEF Listed, Database
<1>4. \A p \in Listed(t) : t.queue_map[p] = s.queue_map[p]
  BY <1>1, <1>2, <1>3 DEF Linked
<1>5. \A k \in SemKeys : t.sem[k] = s.sem[k] - Waiters(s, Q, k)
  BY <1>1 DEF Lowered
<1> HIDE DEF Q
<1>6. Range(t.qsem) \subseteq Listed(t)
  BY DEF Listed
<1>7. Sound(t)
  BY <1>1, <1>2, <1>3, <1>4, <1>5, <1>6, SoundLeft
<1> QED
  BY <1>3, <1>4, <1>7 DEF t, Q

\* @drain/all clears semaphores that nobody waits on any more.
LEMMA DrainAllSound ==
  ASSUME NEW s, Good(s), Sound(s), NEW obj, NEW attr
  PROVE  LET t == DrainAll(s, obj, attr)
         IN  /\ Sound(t) /\ t.garbage = s.garbage
             /\ Listed(t) \subseteq Listed(s)
             /\ \A p \in Listed(t) : t.queue_map[p] = s.queue_map[p]
<1> DEFINE ps == WaitingOn(s, obj, attr)
           d == Discard(s, ps)
           t == DrainAll(s, obj, attr)
<1>1. PartOfSem(s, ps)
  BY WaitingOnPart
<1>2. /\ Sound(d) /\ d.garbage = s.garbage /\ Listed(d) = Listed(s) \ Range(ps)
      /\ \A p \in Listed(d) : d.queue_map[p] = s.queue_map[p]
  <2> HIDE DEF ps
  <2> QED
    BY <1>1, DiscardSound
<1>3. Range(d.qsem) = Range(s.qsem) \ Range(ps)
  <2> HIDE DEF ps
  <2> QED
    BY <1>1, DiscardEffect
<1>4. /\ Lists(t) = Lists(d) /\ Database(t) = Database(d)
      /\ t.sem = Cleared(d.sem, obj, attr)
  BY DrainAllEffect
<1> HIDE DEF d, t
<1>5. /\ t.queue_map = d.queue_map /\ t.qsem = d.qsem /\ Listed(t) = Listed(d)
      /\ t.garbage = s.garbage /\ Range(d.qsem) \subseteq Listed(d)
  BY <1>2, <1>4 DEF Lists, Database, Listed
<1>6. Live(t)
  BY <1>2, <1>5 DEF Sound, Live
<1>7. ASSUME NEW k \in SemKeys PROVE Covers(t, k)
  <2>1. CASE k[1] = obj /\ (attr # NULL => k[2] = attr)
    <3>1. \A p \in Range(t.qsem) : SemKey(t.queue_map[p]) = SemKey(s.queue_map[p])
      BY <1>2, <1>5
    <3>2. Range(t.qsem) = Range(s.qsem) \ Range(WaitingOn(s, obj, attr))
      BY <1>3, <1>5
    <3> QED
      BY <2>1, <3>1, <3>2, NoneLeft
  <2>2. CASE ~(k[1] = obj /\ (attr # NULL => k[2] = attr))
    <3>1. t.sem[k] = d.sem[k]
      BY <1>4, <2>2 DEF Cleared
    <3>2. Waiters(t, Range(t.qsem), k) = Waiters(d, Range(d.qsem), k)
      BY <1>5 DEF Waiters
    <3> QED
      BY <1>2, <3>1, <3>2 DEF Sound, Covers
  <2> QED
    BY <2>1, <2>2
<1> QED
  BY <1>2, <1>5, <1>6, <1>7 DEF Sound, t

\* queue_update() lowers the semaphores of those that timed out.
LEMMA QueueUpdateSound ==
  ASSUME mudtime \in Int, NEW s, Good(s), Sound(s)
  PROVE  Sound(queue_update(s))
<1>1. PICK due \in Seq(PID), late \in Seq(PID) :
        Updated(s, due, late, queue_update(s))
  BY QueueUpdateEffect
<1> DEFINE t == queue_update(s)
           Q == Range(late)
           g == s.qfirst \o due
<1>2. Updated(s, due, late, t) /\ s \in State /\ Linked(s)
  BY <1>1 DEF Good
<1> HIDE DEF t
<1>3. /\ Range(due) \subseteq Range(s.qwait) /\ Q \in SUBSET Range(s.qsem)
      /\ Range(t.qwait) \subseteq Range(s.qwait)
      /\ Range(t.qsem) = Range(s.qsem) \ Q
      /\ t.qfirst = g \o late /\ t.garbage = s.garbage /\ t.sem = Lowered(s, Q)
  BY <1>2 DEF Updated, PartOfSem, Database
<1>4. /\ DOMAIN t.queue_map = DOMAIN s.queue_map
      /\ \A p \in DOMAIN s.queue_map :
           /\ t.queue_map[p].executor = s.queue_map[p].executor
           /\ p \notin Q => SemKey(t.queue_map[p]) = SemKey(s.queue_map[p])
  BY <1>2 DEF Updated
<1>5. g \in Seq(PID) /\ Range(g) = Range(s.qfirst) \cup Range(due)
  BY <1>2, ConcatFacts DEF State
<1> HIDE DEF g
<1>6. Range(g \o late) = Range(g) \cup Q
  BY <1>5, ConcatFacts
<1>7. Listed(t) \subseteq Listed(s)
  BY <1>3, <1>5, <1>6 DEF Listed
<1>8. Listed(s) \subseteq DOMAIN s.queue_map /\ Range(t.qsem) \subseteq Listed(t)
  BY <1>2 DEF Linked, Listed
<1>9. \A k \in SemKeys : t.sem[k] = s.sem[k] - Waiters(s, Q, k)
  BY <1>3 DEF Lowered
<1> HIDE DEF Q
<1>10. /\ \A p \in Listed(t) : t.queue_map[p].executor
                                 \in {s.queue_map[p].executor, NOTHING}
       /\ \A p \in Range(t.qsem) :
            /\ t.queue_map[p].executor = s.queue_map[p].executor
            /\ SemKey(t.queue_map[p]) = SemKey(s.queue_map[p])
  BY <1>3, <1>4, <1>7, <1>8
<1>11. Sound(t)
  BY <1>2, <1>3, <1>7, <1>9, <1>10, SoundLeft
<1> QED
  BY <1>11 DEF t

\* do_top() and the end of an entry leave the semaphores alone.
LEMMA DoTopSound ==
  ASSUME NEW s, Good(s), Sound(s), s.qfirst # << >>
  PROVE  Sound(do_top(s))
<1> DEFINE t == do_top(s)
<1>1. /\ t.qfirst = Tail(s.qfirst) /\ t.qwait = s.qwait /\ t.qsem = s.qsem
      /\ t.garbage = s.garbage /\ t.sem = s.sem
      /\ \A e \in DOMAIN t.queue_map : t.queue_map[e] = s.queue_map[e]
  BY DoTopEffect DEF Database
<1>2. Good(t) /\ s \in State
  BY DoTopGood DEF Good
<1> HIDE DEF t
<1>3. \A q \in Seq(PID) : q # << >> => Range(Tail(q)) \subseteq Range(q)
  BY DEF Range
<1>4. Range(t.qfirst) \subseteq Range(s.qfirst)
  BY <1>1, <1>2, <1>3 DEF State
<1>5. Listed(t) \subseteq Listed(s) /\ Range(t.qsem) \subseteq Listed(t)
      /\ Listed(t) \subseteq DOMAIN t.queue_map
  BY <1>1, <1>2, <1>4 DEF Listed, Good, Linked
<1>6. Sound(t)
  BY <1>1, <1>2, <1>5, SoundSame
<1> QED
  BY <1>6 DEF t

\* The end of an entry.
LEMMA EndOfEntrySound ==
  ASSUME NEW s, Good(s), Sound(s), s.running # << >>
  PROVE  Sound(EndOfEntry(s))
<1> DEFINE t == EndOfEntry(s)
<1>1. /\ t.qfirst = s.qfirst /\ t.qwait = s.qwait /\ t.qsem = s.qsem
      /\ t.garbage = s.garbage /\ t.sem = s.sem
      /\ \A e \in DOMAIN t.queue_map : t.queue_map[e] = s.queue_map[e]
  BY EndOfEntryEffect DEF Database
<1>2. Good(t) /\ s \in State
  BY EndOfEntryGood DEF Good
<1> HIDE DEF t
<1>3. Listed(t) = Listed(s) /\ Range(t.qsem) \subseteq Listed(t)
      /\ Listed(t) \subseteq DOMAIN t.queue_map
  BY <1>1, <1>2 DEF Listed, Good, Linked
<1>4. Sound(t)
  BY <1>1, <1>2, <1>3, SoundSame
<1> QED
  BY <1>4 DEF t

\* Empty queues.
LEMMA EmptySound ==
  ASSUME NEW t, t.qfirst = << >>, t.qwait = << >>, t.qsem = << >>
  PROVE  Sound(t)
<1>1. Range(<< >>) = {}
  BY DEF Range
<1>2. Listed(t) = {} /\ Range(t.qsem) = {}
  BY <1>1 DEF Listed
<1>3. \A k \in SemKeys : Covers(t, k)
  <2>1. \A k : Waiters(t, Range(t.qsem), k) = 0
    BY <1>2, NoWaiters
  <2>2. ~(0 > 0)
    OBVIOUS
  <2> QED
    BY <2>1, <2>2 DEF Covers
<1> QED
  BY <1>2, <1>3 DEF Sound, Live


\* The STARTUPs of live things.
LEMMA RawRestartSound ==
  ASSUME NEW s, Good(s), Sound(s), NEW R, NEW loss \in [Objects -> LossChoices]
  PROVE  Sound(do_raw_restart(s, R, loss))
<1> DEFINE F == Restarts(s, R, loss)
<1>0. db_top \in Nat
  BY ConfigAssumption
<1>1. do_raw_restart(s, R, loss) = F[db_top]
  BY DEF do_raw_restart, Restarted, Restarts
<1>2. F = [i \in 0..db_top |-> Restarted(s, R, loss, F, i)]
  BY RestartsDefined
<1> HIDE DEF F
<1> DEFINE ok == {n \in Nat : n <= db_top => Good(F[n]) /\ Sound(F[n])}
<1>3. 0 \in ok
  BY <1>0, <1>2 DEF Restarted
<1>4. ASSUME NEW n \in Nat, n \in ok PROVE n + 1 \in ok
  <2> SUFFICES ASSUME n + 1 <= db_top
               PROVE  Good(F[n + 1]) /\ Sound(F[n + 1])
    OBVIOUS
  <2>1. Good(F[n]) /\ Sound(F[n])
    BY <1>0, <1>4
  <2>2. n \in Objects /\ n + 1 \in 0..db_top /\ n + 1 # 0 /\ (n + 1) - 1 = n
    BY <1>0 DEF Objects
  <2>3. loss[n] \in {0, 1}
    BY <2>2, LossType
  <2>4. \/ F[n + 1] = F[n]
        \/ n \notin F[n].garbage /\ F[n + 1] = insert_que(F[n], n, loss[n])
    BY <1>2, <2>2 DEF Restarted
  <2> QED
    BY <2>1, <2>2, <2>3, <2>4, InsertQueGood, InsertQueSound
<1> HIDE DEF ok
<1>5. Nat \subseteq ok
  BY <1>3, <1>4, NatSetInduction
<1> QED
  BY <1>0, <1>1, <1>5 DEF ok

\* @restart.
LEMMA RestartSound ==
  ASSUME NEW s, Good(s), Sound(s), NEW v, NEW loss \in [Objects -> LossChoices]
  PROVE  Sound(do_restart_com(s, v, loss))
<1> DEFINE R == IF v \in Players THEN {x \in Objects : s.owner[x] = v} ELSE {v}
           h == do_halt(s, {v})
<1>1. Good(h) /\ Sound(h)
  BY HaltGood, HaltSound
<1>2. do_restart_com(s, v, loss) = do_raw_restart(h, R, loss)
  BY DEF do_restart_com
<1> HIDE DEF h, R
<1> QED
  BY <1>1, <1>2, RawRestartSound

\* Flags do not matter.
LEMMA FlagSound ==
  ASSUME NEW s, Good(s), Sound(s), NEW H
  PROVE  Sound([s EXCEPT !.halted = H])
<1> DEFINE t == [s EXCEPT !.halted = H]
<1>1. Lists(t) = Lists(s) /\ t.garbage = s.garbage /\ t.sem = s.sem
  BY DEF Good, State, Lists
<1> HIDE DEF t
<1>2. Sound(t)
  BY <1>1, SoundLists
<1> QED
  BY <1>2 DEF t

\* @halt.
LEMMA Halt1Sound ==
  ASSUME NEW s, Good(s), Sound(s), NEW v \in Objects \ s.garbage, NEW ncom,
         NEW loss \in {0, 1}
  PROVE  Sound(do_halt1(s, v, ncom, loss))
<1> DEFINE t == do_halt(s, {v})
<1>1. Good(t) /\ Sound(t)
  BY HaltGood, HaltSound
<1>2. t.garbage = s.garbage
  BY HaltEffect DEF Good, Database
<1>3. \/ do_halt1(s, v, ncom, loss) = insert_que(t, v, loss)
      \/ do_halt1(s, v, ncom, loss) = [t EXCEPT !.halted = t.halted \cup {v}]
      \/ do_halt1(s, v, ncom, loss) = t
  BY DEF do_halt1
<1> HIDE DEF t
<1>4. Sound(insert_que(t, v, loss)) /\ Sound([t EXCEPT !.halted = t.halted \cup {v}])
  BY <1>1, <1>2, InsertQueSound, FlagSound
<1> QED
  BY <1>1, <1>3, <1>4

\* @chown: the state that do_halt() starts from.
Chowned(s, thing, new) ==
  [s EXCEPT !.owner = [s.owner EXCEPT ![thing] = new]]
ChownedStripped(s, thing, new) ==
  [Chowned(s, thing, new) EXCEPT !.powers = [s.powers EXCEPT ![thing] = {}],
                                 !.halted = s.halted \cup {thing}]

\* @chown changes the owner, and then halts the object unless it preserves.
LEMMA ChownSteps ==
  ASSUME NEW s, Good(s), NEW thing \in Objects, NEW new \in Players, NEW preserve
  PROVE  LET t == Chowned(s, thing, new)
             u == ChownedStripped(s, thing, new)
         IN  /\ Good(t) /\ Good(u) /\ Lists(t) = Lists(s) /\ Lists(u) = Lists(s)
             /\ t.garbage = s.garbage /\ u.garbage = s.garbage
             /\ t.sem = s.sem /\ u.sem = s.sem
             /\ t.queue = s.queue /\ u.queue = s.queue
             /\ t.pennies = s.pennies /\ u.pennies = s.pennies
             /\ t.powers = s.powers
             /\ u.powers = With(s.powers, thing, {})
             /\ t.owner = With(s.owner, thing, new) /\ u.owner = t.owner
             /\ \/ chown_object(s, thing, new, preserve) = t
                \/ chown_object(s, thing, new, preserve) = do_halt(u, {thing})
<1> DEFINE ow == [s.owner EXCEPT ![thing] = new]
           po == [s.powers EXCEPT ![thing] = {}]
           t == [s EXCEPT !.owner = ow]
           u == [t EXCEPT !.powers = po, !.halted = s.halted \cup {thing}]
<1>1. s \in State
  BY DEF Good
<1>2. /\ ow \in [Objects -> Players] /\ po \in [Objects -> SUBSET Powers]
      /\ s.halted \cup {thing} \in SUBSET Objects
  BY <1>1 DEF State
<1>3. \/ chown_object(s, thing, new, preserve) = t
      \/ chown_object(s, thing, new, preserve) = do_halt(u, {thing})
  BY <1>1 DEF chown_object, State
<1>4. t = Chowned(s, thing, new) /\ u = ChownedStripped(s, thing, new)
  BY DEF Chowned, ChownedStripped
<1> HIDE DEF ow, po
<1>5. t \in State /\ u \in State /\ Lists(t) = Lists(s) /\ Lists(u) = Lists(s)
      /\ t.garbage = s.garbage /\ u.garbage = s.garbage
      /\ t.sem = s.sem /\ u.sem = s.sem
      /\ t.queue = s.queue /\ u.queue = s.queue
      /\ t.pennies = s.pennies /\ u.pennies = s.pennies
      /\ t.powers = s.powers /\ u.powers = po /\ t.owner = ow /\ u.owner = ow
  BY <1>1, <1>2 DEF State, Lists
<1> HIDE DEF t, u
<1>6. Good(t) /\ Good(u)
  BY <1>5, SameLists DEF Lists
<1> QED
  BY <1>3, <1>4, <1>5, <1>6 DEF ow, po, With

\* @chown.
LEMMA ChownSound ==
  ASSUME NEW s, Good(s), Sound(s), NEW thing \in Objects, NEW new \in Players,
         NEW preserve
  PROVE  Sound(chown_object(s, thing, new, preserve))
<1> DEFINE t == Chowned(s, thing, new)
           u == ChownedStripped(s, thing, new)
<1>1. /\ Good(u) /\ Lists(t) = Lists(s) /\ Lists(u) = Lists(s)
      /\ t.garbage = s.garbage /\ u.garbage = s.garbage
      /\ t.sem = s.sem /\ u.sem = s.sem
      /\ \/ chown_object(s, thing, new, preserve) = t
         \/ chown_object(s, thing, new, preserve) = do_halt(u, {thing})
  BY ChownSteps
<1> HIDE DEF t, u
<1>2. Sound(t) /\ Sound(u)
  BY <1>1, SoundLists
<1> QED
  BY <1>1, <1>2, HaltSound

\* u is t after thing became garbage.
Destroyed(t, thing, u) ==
  /\ Lists(u) = Lists(t)
  /\ u.garbage = t.garbage \cup {thing} /\ u.sem = t.sem
  /\ u.owner = With(t.owner, thing, GOD)
  /\ u.powers = With(t.powers, thing, {})
  /\ u.queue = With(t.queue, thing, 0) /\ u.pennies = t.pennies

\* The destruction of an object, up to its becoming garbage: the event is
\* queued, its entries are halted and its semaphores drained.
LEMMA FreeObjectSteps ==
  ASSUME NEW s, Good(s), NEW thing \in Objects, NEW loss \in {0, 1}
  PROVE  LET e == queue_event(s, loss)
             h == do_halt(e, {thing})
             t == DrainAll(h, thing, NULL)
         IN  /\ Good(e) /\ Good(h) /\ Good(t)
             /\ Destroyed(t, thing, free_object(s, thing, loss))
<1> DEFINE e == queue_event(s, loss)
           h == do_halt(e, {thing})
           t == DrainAll(h, thing, NULL)
           u == free_object(s, thing, loss)
<1>1. Good(e)
  BY QueueEventGood
<1>2. u = [t EXCEPT !.owner[thing] = GOD, !.powers[thing] = {},
                    !.halted = @ \ {thing}, !.queue[thing] = 0,
                    !.garbage = @ \cup {thing}]
  BY DEF free_object
<1> HIDE DEF e
<1>3. Good(h)
  BY <1>1, HaltGood
<1> HIDE DEF h
<1>4. Good(t)
  BY <1>3, DrainGood
<1> HIDE DEF t, u
<1>5. t \in State
  BY <1>4 DEF Good
<1>6. Destroyed(t, thing, u)
  BY <1>2, <1>5 DEF State, Lists, With, Destroyed
<1> QED
  BY <1>1, <1>3, <1>4, <1>6 DEF e, h, t, u

\* No entry of a destroyed object is left.
LEMMA FreeObjectSound ==
  ASSUME NEW s, Good(s), Sound(s), NEW thing \in Objects, NEW loss \in {0, 1}
  PROVE  Sound(free_object(s, thing, loss))
<1> DEFINE e == queue_event(s, loss)
           h == do_halt(e, {thing})
           t == DrainAll(h, thing, NULL)
           u == free_object(s, thing, loss)
<1>0. Good(e) /\ Good(h) /\ Good(t) /\ Destroyed(t, thing, u)
  BY FreeObjectSteps
<1>1. /\ Good(e) /\ Good(h) /\ Good(t) /\ Lists(u) = Lists(t)
      /\ u.garbage = t.garbage \cup {thing} /\ u.sem = t.sem
  BY <1>0 DEF Destroyed
<1>2. Sound(e)
  BY QueueEventSound
<1> HIDE DEF e
<1>3. Sound(h) /\ Halted(e, {thing}, h)
  BY <1>1, <1>2, HaltSound, HaltDone
<1> HIDE DEF h
<1>4. /\ Sound(t) /\ Listed(t) \subseteq Listed(h)
      /\ \A p \in Listed(t) : t.queue_map[p] = h.queue_map[p]
  BY <1>1, <1>3, DrainAllSound
<1> HIDE DEF t, u
<1>5. \A p \in Listed(h) : h.queue_map[p].executor # thing
  <2>1. thing \in {thing}
    OBVIOUS
  <2> QED
    BY <1>1, <1>3, <2>1, HaltedExecutor
<1>6. u.qsem = t.qsem /\ u.queue_map = t.queue_map /\ Listed(u) = Listed(t)
  BY <1>1 DEF Lists, Listed
<1>7. \A p \in Listed(t) : t.queue_map[p].executor \notin u.garbage
  BY <1>1, <1>4, <1>5 DEF Sound, Live
<1>8. Live(u)
  BY <1>4, <1>6, <1>7 DEF Sound, Live
<1>9. \A k \in SemKeys : Covers(u, k)
  <2>1. \A k : Waiters(u, Range(u.qsem), k) = Waiters(t, Range(t.qsem), k)
    BY <1>6 DEF Waiters
  <2> QED
    BY <1>1, <1>4, <2>1 DEF Sound, Covers
<1> QED
  BY <1>8, <1>9 DEF Sound, u

-----------------------------------------------------------------------------
\* The steps of the specification.

\* The operation that leads from s to t.
Operation(s, t) ==
  \/ \E x \in Objects \ s.garbage, loss \in {0, 1} : t = insert_que(s, x, loss)
  \/ \E loss \in {0, 1} : t = queue_event(s, loss)
  \/ \E x \in Objects \ s.garbage, n \in Int, until \in BOOLEAN, loss \in {0, 1} :
       t = wait_que(s, x, n, NOTHING, NULL, until, loss)
  \/ \E x \in Objects \ s.garbage, obj \in Objects, attr \in Attrs, n \in Int,
        until \in BOOLEAN, loss \in {0, 1} :
       t = do_wait(s, x, obj, attr, n, until, loss)
  \/ \E pid \in DOMAIN s.queue_map, mode \in {"until", "adjust", "set"}, n \in Int :
       t = do_waitpid(s, pid, mode, n)
  \/ \E pid \in DOMAIN s.queue_map : t = do_haltpid(s, pid)
  \/ \E v \in Objects \ s.garbage, ncom \in BOOLEAN, loss \in {0, 1} :
       t = do_halt1(s, v, ncom, loss)
  \/ t = do_halt(s, Players)
  \/ \E v \in Objects \ s.garbage, loss \in [Objects -> LossChoices] :
       t = do_restart_com(s, v, loss)
  \/ \E obj \in Objects, attr \in Attrs \cup {NULL} : Notifies(s, obj, attr, t)
  \/ \E ps : PartOfSem(s, ps) /\ t = Discard(s, ps)
  \/ \E obj \in Objects, attr \in Attrs \cup {NULL} : t = DrainAll(s, obj, attr)
  \/ \E H \in SUBSET Objects : t = [s EXCEPT !.halted = H]
  \/ \E thing \in Things \ s.garbage, new \in NewOwners, preserve \in BOOLEAN :
       t = chown_object(s, thing, new, preserve)
  \/ \E thing \in Things \ s.garbage, loss \in {0, 1} : t = free_object(s, thing, loss)
  \/ t = s
  \/ t = queue_update(s)
  \/ s.qfirst # << >> /\ t = do_top(s)
  \/ s.running # << >> /\ t = EndOfEntry(s)
  \/ t = shutdown_queues(s)

\* Every step is one of them, from a state in which nothing dangles.
LEMMA NextOperation == IInv /\ Next => Good(St) /\ Operation(St, St')
<1> SUFFICES ASSUME IInv, Next PROVE Good(St) /\ Operation(St, St')
  OBVIOUS
<1> DEFINE s == St
<1>1. Good(s)
  BY NextMoves
<1>2. \A r \in State : Becomes(r) => St' = r
  BY RecordOfFields DEF Becomes, St
<1>3. \A r \in State : Command(r) => St' = r
  BY <1>2 DEF Command
<1>4. mudtime \in Int
  BY DEF IInv
<1>5. /\ Real \subseteq Objects \ s.garbage /\ Actors \subseteq Objects \ s.garbage
      /\ DOMAIN s.queue_map = DOMAIN queue_map /\ s.garbage = garbage
      /\ s.qfirst = qfirst /\ s.running = running /\ s.halted = halted
  BY BoundAssumption DEF Real, Actors, St
<1>6. Delays \subseteq Int /\ Counts \subseteq Nat /\ LossChoices \subseteq {0, 1}
      /\ NewOwners \subseteq Players /\ Things \subseteq Objects
  BY BoundAssumption, LossType DEF Things
<1>7. \A t : Good(t) => t \in State
  BY DEF Good
<1> HIDE DEF s
<1>8. CASE QueueActionList
  <2>1. PICK x \in Real, loss \in LossChoices : Command(insert_que(s, x, loss))
    BY <1>8 DEF QueueActionList, s
  <2>2. x \in Objects \ s.garbage /\ loss \in {0, 1}
    BY <1>5, <1>6
  <2>3. St' = insert_que(s, x, loss)
    BY <1>1, <1>3, <1>7, <2>1, <2>2, InsertQueGood
  <2>4. \E y \in Objects \ s.garbage, l \in {0, 1} : St' = insert_que(s, y, l)
    BY <2>2, <2>3
  <2> QED
    BY <1>1, <2>4 DEF Operation, s
<1>9. CASE QueueEvent
  <2>1. PICK loss \in LossChoices : Command(queue_event(s, loss))
    BY <1>9 DEF QueueEvent, s
  <2>2. \E l \in {0, 1} : St' = queue_event(s, l)
    BY <1>1, <1>3, <1>6, <1>7, <2>1, QueueEventGood
  <2> QED
    BY <1>1, <2>2 DEF Operation, s
<1>10. CASE Wait
  <2>1. PICK x \in Actors, n \in Delays, until \in BOOLEAN, loss \in LossChoices :
          Command(wait_que(s, x, n, NOTHING, NULL, until, loss))
    BY <1>10 DEF Wait, s
  <2>2. x \in Objects \ s.garbage /\ n \in Int /\ loss \in {0, 1}
    BY <1>5, <1>6
  <2>3. NOTHING \in Objects \cup {NOTHING} /\ NULL \in Attrs \cup {NULL}
    OBVIOUS
  <2> DEFINE t == wait_que(s, x, n, NOTHING, NULL, until, loss)
  <2>4. Good(t)
    BY <1>1, <1>4, <2>2, <2>3, WaitQueGood
  <2> HIDE DEF t
  <2>5. St' = t
    BY <1>3, <1>7, <2>1, <2>4 DEF t
  <2> QED
    BY <1>1, <2>2, <2>5 DEF Operation, s, t
<1>11. CASE SemWait
  <2>1. PICK x \in Actors, obj \in Real, attr \in Attrs, n \in Delays \cup {-1},
             until \in BOOLEAN, loss \in LossChoices :
          Command(do_wait(s, x, obj, attr, n, until, loss))
    BY <1>11 DEF SemWait, s
  <2>2. x \in Objects \ s.garbage /\ obj \in Objects /\ n \in Int /\ loss \in {0, 1}
    BY <1>5, <1>6
  <2> DEFINE t == do_wait(s, x, obj, attr, n, until, loss)
  <2>3. Good(t)
    BY <1>1, <1>4, <2>2, DoWaitGood
  <2> HIDE DEF t
  <2>4. St' = t
    BY <1>3, <1>7, <2>1, <2>3 DEF t
  <2> QED
    BY <1>1, <2>2, <2>4 DEF Operation, s, t
<1>12. CASE WaitPid
  <2>1. PICK pid \in DOMAIN queue_map, mode \in {"until", "adjust", "set"},
             n \in Delays : Command(do_waitpid(s, pid, mode, n))
    BY <1>12 DEF WaitPid, s
  <2>2. pid \in DOMAIN s.queue_map /\ n \in Int
    BY <1>5, <1>6
  <2> DEFINE t == do_waitpid(s, pid, mode, n)
  <2>3. Good(t)
    BY <1>1, <1>4, <2>2, DoWaitPidGood
  <2> HIDE DEF t
  <2>4. St' = t
    BY <1>3, <1>7, <2>1, <2>3 DEF t
  <2> QED
    BY <1>1, <2>2, <2>4 DEF Operation, s, t
<1>13. CASE HaltPid
  <2>1. PICK pid \in DOMAIN queue_map : Command(do_haltpid(s, pid))
    BY <1>13 DEF HaltPid, s
  <2>2. pid \in DOMAIN s.queue_map
    BY <1>5
  <2>3. St' = do_haltpid(s, pid)
    BY <1>1, <1>3, <2>1, <2>2, HaltPidGood
  <2> QED
    BY <1>1, <2>2, <2>3 DEF Operation, s
<1>14. CASE Halt
  <2>1. PICK v \in Real, ncom \in BOOLEAN, loss \in LossChoices :
          Command(do_halt1(s, v, ncom, loss))
    BY <1>14 DEF Halt, s
  <2>2. v \in Objects \ s.garbage /\ loss \in {0, 1}
    BY <1>5, <1>6
  <2>3. St' = do_halt1(s, v, ncom, loss)
    BY <1>1, <1>3, <1>7, <2>1, <2>2, Halt1Good
  <2> QED
    BY <1>1, <2>2, <2>3 DEF Operation, s
<1>15. CASE AllHalt
  <2>1. Command(do_halt(s, Players))
    BY <1>15 DEF AllHalt, s
  <2>2. St' = do_halt(s, Players)
    BY <1>1, <1>3, <1>7, <2>1, HaltGood
  <2> QED
    BY <1>1, <2>2 DEF Operation, s
<1>16. CASE Restart
  <2>1. PICK v \in Real, loss \in [Objects -> LossChoices] :
          Command(do_restart_com(s, v, loss))
    BY <1>16 DEF Restart, s
  <2>2. v \in Objects \ s.garbage
    BY <1>5
  <2>3. St' = do_restart_com(s, v, loss)
    BY <1>1, <1>3, <1>7, <2>1, RestartGood
  <2> QED
    BY <1>1, <2>2, <2>3 DEF Operation, s
<1>17. ASSUME NEW obj \in Real, NEW attr \in Attrs \cup {NULL}, NEW t, Command(t),
              Good(t), Notifies(s, obj, attr, t)
       PROVE  Good(St) /\ Operation(St, St')
  <2>1. St' = t /\ obj \in Objects
    BY <1>3, <1>5, <1>7, <1>17
  <2>2. \E o \in Objects, a \in Attrs \cup {NULL} : Notifies(s, o, a, t)
    BY <1>17, <2>1
  <2>3. \E o \in Objects, a \in Attrs \cup {NULL} : Notifies(s, o, a, St')
    BY <2>1, <2>2
  <2> QED
    BY <1>1, <2>3 DEF Operation, s
<1>18. CASE Notify
  <2>1. PICK obj \in Real, attr \in Attrs \cup {NULL}, n \in Counts :
          Command(NotifySemaphores(s, obj, attr, n))
    BY <1>18 DEF Notify, s
  <2>2. obj \in Objects /\ n \in Nat
    BY <1>5, <1>6
  <2> QED
    BY <1>1, <1>17, <2>1, <2>2, NotifyGood, NotifyEffect
<1>19. CASE NotifyEvery
  <2>1. PICK obj \in Real, attr \in Attrs \cup {NULL} : Command(NotifyAll(s, obj, attr))
    BY <1>19 DEF NotifyEvery, s
  <2>2. obj \in Objects
    BY <1>5
  <2> QED
    BY <1>1, <1>17, <2>1, <2>2, NotifyGood, NotifyEffect
<1>20. CASE NotifySetq
  <2>1. PICK obj \in Real, attr \in Attrs \cup {NULL} :
          Command(execute_one_semaphore(s, obj, attr))
    BY <1>20 DEF NotifySetq, s
  <2>2. obj \in Objects
    BY <1>5
  <2> QED
    BY <1>1, <1>17, <2>1, <2>2, NotifyGood, NotifyEffect
<1>21. CASE Drain
  <2>1. PICK obj \in Real, attr \in Attrs \cup {NULL}, n \in Counts :
          Command(DrainSome(s, obj, attr, n))
    BY <1>21 DEF Drain, s
  <2> DEFINE ps == Take(WaitingOn(s, obj, attr), n)
  <2>2. PartOfSem(s, ps) /\ DrainSome(s, obj, attr, n) = Discard(s, ps)
    BY <1>1, <1>6, WaitingOnPart DEF DrainSome
  <2> HIDE DEF ps
  <2>3. St' = Discard(s, ps)
    BY <1>1, <1>3, <1>7, <2>1, <2>2, DiscardGood
  <2> QED
    BY <1>1, <2>2, <2>3 DEF Operation, s
<1>22. CASE DrainEvery
  <2>1. PICK obj \in Real, attr \in Attrs \cup {NULL} : Command(DrainAll(s, obj, attr))
    BY <1>22 DEF DrainEvery, s
  <2>2. St' = DrainAll(s, obj, attr) /\ obj \in Objects
    BY <1>1, <1>3, <1>5, <1>7, <2>1, DrainGood
  <2> QED
    BY <1>1, <2>2 DEF Operation, s
<1>23. CASE SetHalt
  <2>1. PICK x \in Real :
          Command([s EXCEPT !.halted = IF x \in @ THEN @ \ {x} ELSE @ \cup {x}])
    BY <1>23 DEF SetHalt, s
  <2> DEFINE H == IF x \in s.halted THEN s.halted \ {x} ELSE s.halted \cup {x}
             t == [s EXCEPT !.halted = H]
  <2>2. x \in Objects /\ s.halted \subseteq Objects
    BY <1>1, <1>5 DEF Good, State
  <2>3. H \in SUBSET Objects /\ Command(t)
    BY <2>1, <2>2
  <2> HIDE DEF H
  <2>4. t \in State
    BY <1>1, <2>3, HaltedGood DEF Good
  <2>5. St' = t
    BY <1>3, <2>3, <2>4
  <2> QED
    BY <1>1, <2>3, <2>5 DEF Operation, s
<1>24. CASE Chown
  <2>1. PICK thing \in Things \ garbage, new \in NewOwners, preserve \in BOOLEAN :
          Command(chown_object(s, thing, new, preserve))
    BY <1>24 DEF Chown, s
  <2>2. thing \in Objects /\ new \in Players /\ thing \in Things \ s.garbage
    BY <1>5, <1>6
  <2>3. St' = chown_object(s, thing, new, preserve)
    BY <1>1, <1>3, <1>7, <2>1, <2>2, ChownGood
  <2> QED
    BY <1>1, <2>2, <2>3 DEF Operation, s
<1>25. CASE Destroy
  <2>1. PICK thing \in Things \ garbage, loss \in LossChoices :
          Command(free_object(s, thing, loss))
    BY <1>25 DEF Destroy, s
  <2>2. thing \in Objects /\ loss \in {0, 1} /\ thing \in Things \ s.garbage
    BY <1>5, <1>6
  <2>3. St' = free_object(s, thing, loss)
    BY <1>1, <1>3, <1>7, <2>1, <2>2, FreeObjectGood
  <2> QED
    BY <1>1, <2>2, <2>3 DEF Operation, s
<1>26. CASE Tick
  <2>1. St' = s
    BY <1>26 DEF Tick, St, s
  <2> QED
    BY <1>1, <2>1 DEF Operation, s
<1>27. CASE QueueUpdate
  <2>1. Becomes(queue_update(s))
    BY <1>27 DEF QueueUpdate, s
  <2>2. St' = queue_update(s)
    BY <1>1, <1>2, <1>4, <1>7, <2>1, QueueUpdateGood
  <2> QED
    BY <1>1, <2>2 DEF Operation, s
<1>28. CASE DoTop
  <2>1. Command(do_top(s)) /\ s.qfirst # << >>
    BY <1>5, <1>28 DEF DoTop, s
  <2>2. St' = do_top(s)
    BY <1>1, <1>3, <1>7, <2>1, DoTopGood
  <2> QED
    BY <1>1, <2>1, <2>2 DEF Operation, s
<1>29. CASE EndEntry
  <2>1. Command(EndOfEntry(s)) /\ s.running # << >>
    BY <1>5, <1>29 DEF EndEntry, s
  <2>2. St' = EndOfEntry(s)
    BY <1>1, <1>3, <1>7, <2>1, EndOfEntryGood
  <2> QED
    BY <1>1, <2>1, <2>2 DEF Operation, s
<1>30. CASE Shutdown
  <2>1. Becomes(shutdown_queues(s))
    BY <1>30 DEF Shutdown, s
  <2>2. St' = shutdown_queues(s)
    BY <1>1, <1>2, <1>7, <2>1, ShutdownGood
  <2> QED
    BY <1>1, <2>2 DEF Operation, s
<1> QED
  BY <1>8, <1>9, <1>10, <1>11, <1>12, <1>13, <1>14, <1>15, <1>16, <1>18,
     <1>19, <1>20, <1>21, <1>22, <1>23, <1>24, <1>25, <1>26, <1>27, <1>28, <1>29,
     <1>30 DEF Next


\* Each operation keeps executors live and semaphores covered, or leaves an
\* entry dangling.
LEMMA OperationSound ==
  ASSUME mudtime \in Int, NEW s, Good(s), Sound(s), NEW t, Operation(s, t)
  PROVE  Dangles(t) \/ Sound(t)
<1>1. CASE \E x \in Objects \ s.garbage, loss \in {0, 1} : t = insert_que(s, x, loss)
  BY <1>1, InsertQueSound
<1>2. CASE \E loss \in {0, 1} : t = queue_event(s, loss)
  BY <1>2, QueueEventSound
<1>3. CASE \E x \in Objects \ s.garbage, n \in Int, until \in BOOLEAN, loss \in {0, 1} :
             t = wait_que(s, x, n, NOTHING, NULL, until, loss)
  <2>1. NOTHING \in Objects \cup {NOTHING} /\ NULL \in Attrs \cup {NULL}
    OBVIOUS
  <2>2. PICK x \in Objects \ s.garbage, n \in Int, until \in BOOLEAN,
             loss \in {0, 1} : t = wait_que(s, x, n, NOTHING, NULL, until, loss)
    BY <1>3
  <2>3. Sound(wait_que(s, x, n, NOTHING, NULL, until, loss))
    BY <2>1, WaitQueSound
  <2> QED
    BY <2>2, <2>3
<1>4. CASE \E x \in Objects \ s.garbage, obj \in Objects, attr \in Attrs, n \in Int,
              until \in BOOLEAN, loss \in {0, 1} :
             t = do_wait(s, x, obj, attr, n, until, loss)
  BY <1>4, DoWaitSound
<1>5. CASE \E pid \in DOMAIN s.queue_map, mode \in {"until", "adjust", "set"},
              n \in Int : t = do_waitpid(s, pid, mode, n)
  BY <1>5, WaitPidSound
<1>6. CASE \E pid \in DOMAIN s.queue_map : t = do_haltpid(s, pid)
  BY <1>6, HaltPidSound
<1>7. CASE \E v \in Objects \ s.garbage, ncom \in BOOLEAN, loss \in {0, 1} :
             t = do_halt1(s, v, ncom, loss)
  BY <1>7, Halt1Sound
<1>8. CASE t = do_halt(s, Players)
  BY <1>8, HaltSound
<1>9. CASE \E v \in Objects \ s.garbage, loss \in [Objects -> LossChoices] :
             t = do_restart_com(s, v, loss)
  BY <1>9, RestartSound
<1>10. CASE \E obj \in Objects, attr \in Attrs \cup {NULL} : Notifies(s, obj, attr, t)
  BY <1>10, NotifiesSound
<1>11. CASE \E ps : PartOfSem(s, ps) /\ t = Discard(s, ps)
  BY <1>11, DiscardSound
<1>12. CASE \E obj \in Objects, attr \in Attrs \cup {NULL} : t = DrainAll(s, obj, attr)
  BY <1>12, DrainAllSound
<1>13. CASE \E H \in SUBSET Objects : t = [s EXCEPT !.halted = H]
  BY <1>13, FlagSound
<1>14. CASE \E thing \in Things \ s.garbage, new \in NewOwners, preserve \in BOOLEAN :
              t = chown_object(s, thing, new, preserve)
  BY <1>14, ChownSound, BoundAssumption DEF Things
<1>15. CASE \E thing \in Things \ s.garbage, loss \in {0, 1} :
              t = free_object(s, thing, loss)
  BY <1>15, FreeObjectSound DEF Things
<1>16. CASE t = s
  BY <1>16
<1>17. CASE t = queue_update(s)
  BY <1>17, QueueUpdateSound
<1>18. CASE s.qfirst # << >> /\ t = do_top(s)
  BY <1>18, DoTopSound
<1>19. CASE s.running # << >> /\ t = EndOfEntry(s)
  BY <1>19, EndOfEntrySound
<1>20. CASE t = shutdown_queues(s)
  <2>1. t.qfirst = << >> /\ t.qwait = << >> /\ t.qsem = << >>
    BY <1>20, ShutdownEffect
  <2> QED
    BY <2>1, EmptySound
<1> QED
  BY <1>1, <1>2, <1>3, <1>4, <1>5, <1>6, <1>7, <1>8, <1>9, <1>10, <1>11, <1>12,
     <1>13, <1>14, <1>15, <1>16, <1>17, <1>18, <1>19, <1>20 DEF Operation

\* Unless an entry dangles, executors are live and semaphores covered.
SoundInv == ~Dangles(St) => Sound(St)

\* It needs the lists to be in order (IInv): a walk that frees the waiters it
\* counts keeps the sum right only if each is there once.
LEMMA SoundInvariance == Spec => []SoundInv
<1>1. Init => SoundInv
  <2> SUFFICES ASSUME Init PROVE Sound(St)
    BY DEF SoundInv
  <2>1. St.qfirst = << >> /\ St.qwait = << >> /\ St.qsem = << >>
    BY DEF Init, St
  <2> QED
    BY <2>1, EmptySound
<1>2. IInv /\ SoundInv /\ [Next]_vars => SoundInv'
  <2> SUFFICES ASSUME IInv, SoundInv, [Next]_vars PROVE SoundInv'
    OBVIOUS
  <2>1. CASE Next
    <3>1. Good(St) /\ Operation(St, St') /\ mudtime \in Int
      BY <2>1, NextOperation DEF IInv
    <3>2. Sound(St)
      BY <3>1 DEF SoundInv, Dangles, Good, Linked
    <3>3. \A t : Operation(St, t) => Dangles(t) \/ Sound(t)
      BY <3>1, <3>2, OperationSound
    <3>4. Dangles(St') \/ Sound(St')
      BY <3>1, <3>3
    <3> QED
      BY <3>4 DEF SoundInv
  <2>2. CASE UNCHANGED vars
    <3>1. St' = St
      BY <2>2 DEF vars, St
    <3>2. \A s, t : s = t /\ (~Dangles(s) => Sound(s)) => (~Dangles(t) => Sound(t))
      OBVIOUS
    <3> QED
      BY <3>1, <3>2 DEF SoundInv
  <2> QED
    BY <2>1, <2>2
<1> QED
  BY <1>1, <1>2, Invariance, PTL DEF Spec

\* No entry's executor is a destroyed object, and an entry that waits on a
\* semaphore has an executor.
THEOREM Executors == Spec => []LiveExecutors
<1>1. SoundInv => LiveExecutors
  BY DEF SoundInv, LiveExecutors, Dangles, Dangling, Sound, Live, Listed, St
<1> QED
  BY <1>1, SoundInvariance, PTL

\* A semaphore with entries waiting on it is at least their number, so that as
\* many @notify as there are waiters release all of them.
THEOREM Semaphores == Spec => []SemCovered
<1>1. SoundInv => SemCovered
  <2> SUFFICES ASSUME SoundInv, ~Dangling, NEW k \in SemKeys
               PROVE  LET n == Waiters(St, Range(qsem), k) IN n > 0 => sem[k] >= n
    BY DEF SemCovered
  <2>1. Covers(St, k)
    BY DEF SoundInv, Dangles, Dangling, Sound, Listed, St
  <2>2. St.qsem = qsem /\ St.sem = sem
    BY DEF St
  <2> QED
    BY <2>1, <2>2 DEF Covers
<1> QED
  BY <1>1, SoundInvariance, PTL


-----------------------------------------------------------------------------
\* Deposits and counts.

\* The listed entries that have an executor, and those not executed by God.
Charge(s) == {p \in Listed(s) : s.queue_map[p].executor # NOTHING}
Owed(s) == {p \in Charge(s) : s.queue_map[p].executor # GOD}

\* Players own themselves.
SelfOwned(s) == \A pl \in Players : s.owner[pl] = pl

\* With a count per owner, only players have counts, and together they cover
\* the entries.
Counted(s) ==
  /\ \A x \in Things : s.queue[x] = 0
  /\ Cardinality(Charge(s)) <= SumFunction(s.queue)

\* Nobody but God queues for free.
AllPay(s) ==
  /\ \A x \in Objects : "NO_PAY" \notin s.powers[x]
  /\ \A x \in Objects \ (s.garbage \cup {GOD}) : s.owner[x] # GOD

\* The money of the players and the deposits are what there was at first.
Funded(s) ==
  SumFunction(s.pennies) + QUEUE_COST * Cardinality(Owed(s)) <= SumFunction(InitPennies)

Balanced(s) ==
  /\ SelfOwned(s)
  /\ QUEUE_PER_OWNER => Counted(s)
  /\ EveryonePays => AllPay(s) /\ Funded(s)

\* The sets summed over are finite.
LEMMA Finite ==
  /\ IsFiniteSet(Objects) /\ IsFiniteSet(Players) /\ IsFiniteSet(PID)
  /\ Players \subseteq Objects /\ GOD \in Players /\ GOD \in Objects
  /\ QUEUE_COST \in Nat /\ SumFunction(InitPennies) \in Int
<1>1. IsFiniteSet(Objects)
  BY FS_Interval, ConfigAssumption DEF Objects
<1>2. IsFiniteSet(PID)
  BY FS_Interval, ConfigAssumption DEF PID
<1>3. Players \subseteq Objects /\ GOD \in Players /\ QUEUE_COST \in Nat
      /\ InitPennies \in [Players -> Int]
  BY ConfigAssumption
<1>4. IsFiniteSet(Players)
  BY <1>1, <1>3, FS_Subset
<1>5. SumFunction(InitPennies) \in Int
  BY <1>3, <1>4, SumType
<1> QED BY <1>1, <1>2, <1>3, <1>4, <1>5

\* Sets of entries are finite.
LEMMA PidsFinite ==
  ASSUME NEW P \in SUBSET PID
  PROVE  IsFiniteSet(P) /\ Cardinality(P) \in Nat
BY Finite, FS_Subset, FS_CardinalityType

\* The charged entries are pids, and they and the sums are numbers.
LEMMA ChargeFacts ==
  ASSUME NEW s \in State
  PROVE  /\ Charge(s) \in SUBSET PID /\ Owed(s) \in SUBSET Charge(s)
         /\ Owed(s) \in SUBSET PID
         /\ SumFunction(s.queue) \in Int /\ SumFunction(s.pennies) \in Int
<1>1. Listed(s) \subseteq PID
  BY ListedPids DEF Listed
<1>2. s.queue \in [Objects -> Int] /\ s.pennies \in [Players -> Int]
  BY DEF State
<1> QED BY <1>1, <1>2, Finite, SumType DEF Charge, Owed

\* The shares of R that the elements of D get.
Shares(D, R, M) ==
  M \in [D -> SUBSET R] /\ \A x, y \in D : x # y => M[x] \cap M[y] = {}

\* Entries that are given up leave the rest.
LEMMA LeftOver ==
  ASSUME NEW A \in SUBSET PID, NEW R \in SUBSET A, NEW B \in SUBSET (A \ R)
  PROVE  /\ Cardinality(B) + Cardinality(R) <= Cardinality(A)
         /\ IsFiniteSet(R) /\ Cardinality(R) \in Nat
         /\ Cardinality(A) \in Nat /\ Cardinality(B) \in Nat
<1>1. A \ R \in SUBSET PID /\ R \in SUBSET PID /\ B \in SUBSET PID
  OBVIOUS
<1>2. /\ IsFiniteSet(A) /\ IsFiniteSet(R) /\ IsFiniteSet(A \ R)
      /\ Cardinality(A) \in Nat /\ Cardinality(R) \in Nat
      /\ Cardinality(A \ R) \in Nat /\ Cardinality(B) \in Nat
  BY <1>1, PidsFinite
<1>3. Cardinality(B) <= Cardinality(A \ R)
  BY <1>2, FS_Subset
<1>4. Cardinality(A \ R) = Cardinality(A) - Cardinality(R)
  <2>1. A \cap R = R
    OBVIOUS
  <2> QED BY <1>2, <2>1, FS_Difference
<1> QED BY <1>2, <1>3, <1>4

\* Counts that lose at most their shares of the entries that leave.
LEMMA CountedLeft ==
  ASSUME NEW s \in State, NEW t \in State, Counted(s),
         NEW R \in SUBSET Charge(s), Charge(t) \in SUBSET (Charge(s) \ R),
         NEW M, Shares(Objects, R, M),
         \A x \in Objects : s.queue[x] <= t.queue[x] + Cardinality(M[x]),
         \A x \in Things : t.queue[x] = 0
  PROVE  Counted(t)
<1>1. /\ s.queue \in [Objects -> Int] /\ t.queue \in [Objects -> Int]
      /\ SumFunction(s.queue) \in Int /\ SumFunction(t.queue) \in Int
  BY ChargeFacts DEF State
<1>2. /\ Cardinality(Charge(t)) + Cardinality(R) <= Cardinality(Charge(s))
      /\ IsFiniteSet(R) /\ Cardinality(R) \in Nat
      /\ Cardinality(Charge(s)) \in Nat /\ Cardinality(Charge(t)) \in Nat
  BY ChargeFacts, LeftOver
<1>3. M \in [Objects -> SUBSET R] /\ \A x, y \in Objects : x # y => M[x] \cap M[y] = {}
  BY DEF Shares
<1>4. \A x \in Objects : s.queue[x] <= t.queue[x] + 1 * Cardinality(M[x])
  <2> SUFFICES ASSUME NEW x \in Objects
               PROVE  s.queue[x] <= t.queue[x] + 1 * Cardinality(M[x])
    OBVIOUS
  <2>1. M[x] \in SUBSET R
    BY <1>3
  <2>2. Cardinality(M[x]) \in Nat
    BY <1>2, <2>1, FS_Subset, FS_CardinalityType
  <2> QED BY <2>2
<1> DEFINE f == s.queue
           g == t.queue
<1> HIDE DEF f, g
<1>5. SumFunction(f) <= SumFunction(g) + 1 * Cardinality(R)
  <2>1. IsFiniteSet(Objects) /\ 1 \in Nat
    BY Finite
  <2>2. /\ f \in [Objects -> Int] /\ g \in [Objects -> Int]
        /\ \A x \in Objects : f[x] <= g[x] + 1 * Cardinality(M[x])
    BY <1>1, <1>4 DEF f, g
  <2> QED BY <1>2, <1>3, <2>1, <2>2, SumShares
<1>6. Cardinality(Charge(s)) <= SumFunction(s.queue)
  BY DEF Counted
<1>7. Cardinality(Charge(t)) <= SumFunction(t.queue)
  BY <1>1, <1>2, <1>5, <1>6 DEF f, g
<1> QED BY <1>7 DEF Counted

\* Purses that get back at most the deposits of their shares of the entries
\* that leave.
LEMMA FundedLeft ==
  ASSUME NEW s \in State, NEW t \in State, Funded(s),
         NEW R \in SUBSET Owed(s), Owed(t) \in SUBSET (Owed(s) \ R),
         NEW N, Shares(Players, R, N),
         \A pl \in Players :
            t.pennies[pl] <= s.pennies[pl] + QUEUE_COST * Cardinality(N[pl])
  PROVE  Funded(t)
<1>1. /\ s.pennies \in [Players -> Int] /\ t.pennies \in [Players -> Int]
      /\ SumFunction(s.pennies) \in Int /\ SumFunction(t.pennies) \in Int
  <2>1. s.pennies \in [Players -> Int] /\ t.pennies \in [Players -> Int]
    BY DEF State
  <2> QED BY <2>1, ChargeFacts
<1>2. /\ Cardinality(Owed(t)) + Cardinality(R) <= Cardinality(Owed(s))
      /\ IsFiniteSet(R) /\ Cardinality(R) \in Nat
      /\ Cardinality(Owed(s)) \in Nat /\ Cardinality(Owed(t)) \in Nat
  BY ChargeFacts, LeftOver
<1>3. N \in [Players -> SUBSET R] /\ \A x, y \in Players : x # y => N[x] \cap N[y] = {}
  BY DEF Shares
<1> DEFINE f == s.pennies
           g == t.pennies
<1> HIDE DEF f, g
<1>4. SumFunction(g) <= SumFunction(f) + QUEUE_COST * Cardinality(R)
  <2>1. IsFiniteSet(Players) /\ QUEUE_COST \in Nat
    BY Finite
  <2>2. /\ f \in [Players -> Int] /\ g \in [Players -> Int]
        /\ \A x \in Players : g[x] <= f[x] + QUEUE_COST * Cardinality(N[x])
    BY <1>1 DEF f, g
  <2> QED BY <1>2, <1>3, <2>1, <2>2, SumShares
<1> DEFINE a == QUEUE_COST * Cardinality(Owed(s))
           b == QUEUE_COST * Cardinality(Owed(t))
           c == QUEUE_COST * Cardinality(R)
<1>5. b + c <= a /\ a \in Nat /\ b \in Nat /\ c \in Nat
  <2>1. QUEUE_COST \in Nat /\ Cardinality(Owed(t)) + Cardinality(R) \in Nat
    BY <1>2, Finite
  <2>2. QUEUE_COST * (Cardinality(Owed(t)) + Cardinality(R)) <= a
    BY <1>2, <2>1, TimesFacts
  <2>3. QUEUE_COST * (Cardinality(Owed(t)) + Cardinality(R)) = b + c
    BY <1>2, <2>1, TimesFacts
  <2> QED BY <1>2, <2>1, <2>2, <2>3, TimesFacts
<1>6. SumFunction(f) + a <= SumFunction(InitPennies)
  BY DEF Funded, f
<1>7. SumFunction(g) <= SumFunction(f) + c /\ SumFunction(f) \in Int
      /\ SumFunction(g) \in Int /\ SumFunction(InitPennies) \in Int
  BY <1>1, <1>4, Finite DEF f, g
<1> HIDE DEF a, b, c
<1>8. SumFunction(g) + b <= SumFunction(InitPennies)
  BY <1>5, <1>6, <1>7
<1> QED BY <1>8 DEF Funded, b, g

\* Nobody gets anything.
NoShares(D) == [x \in D |-> {}]

\* Purses that get nothing while no more is owed.
LEMMA FundedSame ==
  ASSUME NEW s \in State, NEW t \in State, Funded(s), Owed(t) \in SUBSET Owed(s),
         \A pl \in Players : t.pennies[pl] <= s.pennies[pl]
  PROVE  Funded(t)
<1>1. Shares(Players, {}, NoShares(Players))
  BY DEF Shares, NoShares
<1>2. Cardinality({}) = 0 /\ QUEUE_COST * 0 = 0
  BY FS_EmptySet, Finite, TimesFacts
<1>3. \A pl \in Players :
         t.pennies[pl] <= s.pennies[pl] + QUEUE_COST * Cardinality(NoShares(Players)[pl])
  <2> SUFFICES ASSUME NEW pl \in Players
               PROVE t.pennies[pl] <= s.pennies[pl] + QUEUE_COST * Cardinality(NoShares(Players)[pl])
    OBVIOUS
  <2>1. QUEUE_COST * Cardinality(NoShares(Players)[pl]) = 0
    BY <1>2 DEF NoShares
  <2>2. s.pennies[pl] \in Int
    BY DEF State
  <2> QED BY <2>1, <2>2
<1>4. {} \in SUBSET Owed(s) /\ Owed(t) \in SUBSET (Owed(s) \ {})
  OBVIOUS
<1> QED BY <1>1, <1>3, <1>4, FundedLeft

\* An operation that at most gives entries up.
LEMMA BalancedSame ==
  ASSUME NEW s \in State, NEW t \in State, Balanced(s),
         Charge(t) \in SUBSET Charge(s),
         \A p \in Charge(t) : t.queue_map[p].executor = s.queue_map[p].executor,
         SelfOwned(t), EveryonePays => AllPay(t),
         t.queue = s.queue,
         \A pl \in Players : t.pennies[pl] <= s.pennies[pl]
  PROVE  Balanced(t)
<1>1. Shares(Objects, {}, NoShares(Objects))
  BY DEF Shares, NoShares
<1>2. Cardinality({}) = 0
  BY FS_EmptySet
<1>3. \A x \in Objects : s.queue[x] <= t.queue[x] + Cardinality(NoShares(Objects)[x])
  BY <1>2 DEF NoShares, State
<1>4. Owed(t) \in SUBSET Owed(s)
  BY DEF Owed
<1>5. QUEUE_PER_OWNER => Counted(t)
  <2> SUFFICES ASSUME QUEUE_PER_OWNER PROVE Counted(t)
    OBVIOUS
  <2>1. Counted(s) /\ \A x \in Things : t.queue[x] = 0
    BY DEF Balanced, Counted
  <2>2. {} \in SUBSET Charge(s) /\ Charge(t) \in SUBSET (Charge(s) \ {})
    OBVIOUS
  <2> QED BY <1>1, <1>3, <2>1, <2>2, CountedLeft
<1>6. EveryonePays => Funded(t)
  BY <1>4, FundedSame DEF Balanced
<1> QED BY <1>5, <1>6 DEF Balanced

\* Whether everybody pays depends on the database only.
LEMMA SameDatabase ==
  ASSUME NEW s, Balanced(s), NEW t, t.owner = s.owner, t.powers = s.powers,
         t.garbage = s.garbage
  PROVE  SelfOwned(t) /\ (EveryonePays => AllPay(t))
BY DEF Balanced, SelfOwned, AllPay

\* God never pays; when everybody else does, they do.
LEMMA WhoPays ==
  ASSUME NEW s \in State, Balanced(s)
  PROVE  /\ NoPay(s, GOD)
         /\ EveryonePays =>
              \A x \in Objects \ (s.garbage \cup {GOD}) : ~NoPay(s, x)
<1>1. NoPay(s, GOD)
  BY DEF NoPay, FreeOfCharge
<1>2. ASSUME EveryonePays, NEW x \in Objects \ (s.garbage \cup {GOD})
      PROVE  ~NoPay(s, x)
  <2>1. AllPay(s)
    BY <1>2 DEF Balanced
  <2>2. s.owner[x] \in Objects
    BY ConfigAssumption DEF State
  <2> QED BY <1>2, <2>1, <2>2 DEF AllPay, NoPay, FreeOfCharge
<1> QED BY <1>1, <1>2

\* The cap only takes.
LEMMA CappedBelow == \A n \in Int : Capped(n) <= n
BY ConfigAssumption DEF Capped

\* The entries of the victims W.
Back(s, W) == UNION {EntriesOf(s, v) : v \in W}

\* No two victims have an entry in common.
Separate(s, V) ==
  \A v, w \in V : v # w => EntriesOf(s, v) \cap EntriesOf(s, w) = {}

\* This is so for one victim, and for the players.
LEMMA SeparateVictims ==
  ASSUME NEW s, Good(s), Balanced(s)
  PROVE  (\A v : Separate(s, {v})) /\ Separate(s, Players)
<1>1. \A v : Separate(s, {v})
  BY DEF Separate
<1>2. ASSUME NEW v \in Players, NEW w \in Players, NEW p \in EntriesOf(s, v),
             p \in EntriesOf(s, w)
      PROVE  v = w
  <2>1. \A pl \in Players : s.owner[pl] = pl
    BY DEF Balanced, SelfOwned
  <2> DEFINE x == s.queue_map[p].executor
  <2>2. (x = v \/ s.owner[x] = v) /\ (x = w \/ s.owner[x] = w)
    BY <1>2 DEF EntriesOf
  <2> HIDE DEF x
  <2> QED BY <2>1, <2>2
<1>3. Separate(s, Players)
  BY <1>2 DEF Separate
<1> QED BY <1>1, <1>3

\* What goes back to each of D: the entries of the victims that it stands for.
LEMMA BackShares ==
  ASSUME NEW s, NEW V, Separate(s, V), NEW D, NEW W \in [D -> SUBSET V],
         \A x, y \in D : x # y => W[x] \cap W[y] = {},
         NEW R, \A x \in D : \A v \in W[x] : EntriesOf(s, v) \subseteq R
  PROVE  Shares(D, R, [x \in D |-> Back(s, W[x])])
<1> DEFINE M == [x \in D |-> Back(s, W[x])]
<1>1. M \in [D -> SUBSET R]
  BY DEF Back
<1>2. ASSUME NEW x \in D, NEW y \in D, x # y, NEW p, p \in Back(s, W[x]),
             p \in Back(s, W[y])
      PROVE  FALSE
  <2>1. PICK v \in W[x] : p \in EntriesOf(s, v)
    BY <1>2 DEF Back
  <2>2. PICK w \in W[y] : p \in EntriesOf(s, w)
    BY <1>2 DEF Back
  <2>3. v \in V /\ w \in V /\ v # w
    BY <1>2
  <2> QED BY <2>1, <2>2, <2>3 DEF Separate
<1>3. \A x, y \in D : x # y => M[x] \cap M[y] = {}
  BY <1>2
<1> QED BY <1>1, <1>3 DEF Shares

\* After do_halt() the victims' entries are not charged any more.
LEMMA HaltedCharge ==
  ASSUME NEW s, Good(s), NEW V, NEW t, Halted(s, V, t)
  PROVE  /\ Mine(s, V) \in SUBSET Charge(s)
         /\ Charge(t) \in SUBSET (Charge(s) \ Mine(s, V))
         /\ \A p \in Charge(t) : t.queue_map[p].executor = s.queue_map[p].executor
<1>1. Linked(s) /\ s \in State
  BY DEF Good
<1>2. Mine(s, V) \in SUBSET Charge(s)
  BY DEF Mine, EntriesOf, Charge
<1>3. ASSUME NEW p \in Charge(t)
      PROVE  p \in Charge(s) \ Mine(s, V) /\ t.queue_map[p] = s.queue_map[p]
  <2>1. p \in Listed(s) /\ p \notin Gone(s, V) /\ p \in DOMAIN s.queue_map
        /\ t.queue_map[p].executor # NOTHING
    <3>1. p \in Listed(t) /\ t.queue_map[p].executor # NOTHING
      BY <1>3 DEF Charge
    <3>2. p \in Listed(s)
      BY <3>1 DEF Halted, Listed
    <3>3. p \in Range(s.qfirst) => p \notin Gone(s, V)
      BY DEF Gone
    <3> QED BY <1>1, <3>1, <3>2, <3>3 DEF Halted, Listed, Linked
  <2>2. p \notin Mine(s, V)
    <3> SUFFICES ASSUME p \in Mine(s, V) PROVE FALSE
      OBVIOUS
    <3>1. t.queue_map[p] = [s.queue_map[p] EXCEPT !.executor = NOTHING]
      BY <2>1 DEF Halted
    <3>2. s.queue_map[p] \in MQUE
      BY <1>1, <2>1, QMapFacts DEF State
    <3> QED BY <2>1, <3>1, <3>2 DEF MQUE
  <2>3. t.queue_map[p] = s.queue_map[p]
    BY <2>1, <2>2 DEF Halted
  <2> QED BY <2>1, <2>2, <2>3 DEF Charge
<1> QED BY <1>2, <1>3

\* do_halt() gives nothing back twice.
LEMMA HaltBalanced ==
  ASSUME NEW s, Good(s), Balanced(s), NEW V \in SUBSET Objects, Separate(s, V)
  PROVE  Balanced(do_halt(s, V))
<1> DEFINE t == do_halt(s, V)
           R == Mine(s, V)
           W == [x \in Objects |-> {v \in V : Counter(s, v) = x}]
           X == [pl \in Players |-> {v \in V : s.owner[v] = pl /\ ~NoPay(s, v)}]
           M == [x \in Objects |-> Back(s, W[x])]
           N == [pl \in Players |-> Back(s, X[pl])]
<1>1. s \in State /\ t \in State /\ Halted(s, V, t) /\ Database(t) = Database(s)
  BY HaltDone, HaltGood, HaltEffect DEF Good
<1>2. /\ t.pennies = [pl \in Players |->
                        Capped(s.pennies[pl] + QUEUE_COST * Cardinality(N[pl]))]
      /\ t.queue = [x \in Objects |-> s.queue[x] - Cardinality(M[x])]
  BY <1>1 DEF do_halt, State, Back
<1>3. t.owner = s.owner /\ t.powers = s.powers /\ t.garbage = s.garbage
  BY <1>1 DEF Database
<1>4. \A v \in V : EntriesOf(s, v) \subseteq R
  BY DEF Mine
<1> HIDE DEF t, R
<1>5. /\ R \in SUBSET Charge(s) /\ Charge(t) \in SUBSET (Charge(s) \ R)
      /\ \A p \in Charge(t) : t.queue_map[p].executor = s.queue_map[p].executor
  BY <1>1, HaltedCharge DEF R
<1>6. SelfOwned(t) /\ (EveryonePays => AllPay(t))
  BY <1>3, SameDatabase
<1>7. QUEUE_PER_OWNER => Counted(t)
  <2> SUFFICES ASSUME QUEUE_PER_OWNER PROVE Counted(t)
    OBVIOUS
  <2>1. Shares(Objects, R, M)
    <3>1. /\ W \in [Objects -> SUBSET V]
          /\ \A x, y \in Objects : x # y => W[x] \cap W[y] = {}
          /\ \A x \in Objects : \A v \in W[x] : EntriesOf(s, v) \subseteq R
      BY <1>4
    <3> HIDE DEF W
    <3> QED BY <3>1, BackShares
  <2>2. \A x \in Objects : Cardinality(M[x]) \in Nat /\ s.queue[x] \in Int
    <3>1. \A x \in Objects : M[x] \in SUBSET PID
      BY <1>1, <1>5, <2>1, ChargeFacts DEF Shares
    <3> HIDE DEF M
    <3> QED BY <1>1, <3>1, PidsFinite DEF State
  <2>3. \A x \in Things : M[x] = {}
    <3>1. \A v \in V : Counter(s, v) \in Players
      BY <1>1 DEF Counter, State
    <3> QED BY <3>1 DEF Things, Back
  <2> HIDE DEF M, W
  <2>4. \A x \in Objects : s.queue[x] <= t.queue[x] + Cardinality(M[x])
    BY <1>2, <2>2
  <2>5. Counted(s)
    BY DEF Balanced
  <2>6. \A x \in Things : t.queue[x] = 0
    <3> SUFFICES ASSUME NEW x \in Things PROVE t.queue[x] = 0
      OBVIOUS
    <3>1. x \in Objects /\ Cardinality(M[x]) = 0
      BY <2>3, FS_EmptySet DEF Things
    <3>2. s.queue[x] = 0
      BY <2>5 DEF Counted
    <3> QED BY <1>2, <3>1, <3>2
  <2> QED BY <1>1, <1>5, <2>1, <2>4, <2>5, <2>6, CountedLeft
<1>8. EveryonePays => Funded(t)
  <2> SUFFICES ASSUME EveryonePays PROVE Funded(t)
    OBVIOUS
  <2> DEFINE O == R \cap Owed(s)
  <2>0. \A v \in V : ~NoPay(s, v) => EntriesOf(s, v) \subseteq O
    <3> SUFFICES ASSUME NEW v \in V, ~NoPay(s, v), NEW p \in EntriesOf(s, v)
                 PROVE  p \in O
      OBVIOUS
    <3>1. p \in R /\ p \in Charge(s) /\ v # GOD
      BY <1>1, <1>4, <1>5, WhoPays
    <3>2. s.owner[GOD] = GOD
      BY Finite DEF Balanced, SelfOwned
    <3>3. s.queue_map[p].executor # GOD
      BY <3>1, <3>2 DEF EntriesOf
    <3> QED BY <3>1, <3>3 DEF Owed
  <2>1. Shares(Players, O, N)
    <3>1. /\ X \in [Players -> SUBSET V]
          /\ \A x, y \in Players : x # y => X[x] \cap X[y] = {}
          /\ \A x \in Players : \A v \in X[x] : EntriesOf(s, v) \subseteq O
      <4>1. \A x \in Players : \A v \in X[x] : v \in V /\ s.owner[v] = x /\ ~NoPay(s, v)
        OBVIOUS
      <4>2. X \in [Players -> SUBSET V]
        OBVIOUS
      <4> HIDE DEF X
      <4> QED BY <2>0, <4>1, <4>2
    <3> HIDE DEF X, O
    <3> QED BY <3>1, BackShares
  <2>2. \A pl \in Players : /\ QUEUE_COST * Cardinality(N[pl]) \in Nat
                            /\ s.pennies[pl] \in Int
    <3>1. \A pl \in Players : N[pl] \in SUBSET PID
      BY <1>1, <2>1, ChargeFacts DEF Shares
    <3> HIDE DEF N
    <3>2. \A pl \in Players : Cardinality(N[pl]) \in Nat
      BY <3>1, PidsFinite
    <3>3. \A pl \in Players : s.pennies[pl] \in Int
      BY <1>1 DEF State
    <3>4. \A pl \in Players : QUEUE_COST * Cardinality(N[pl]) \in Nat
      BY <3>2, Finite, TimesFacts
    <3> QED BY <3>3, <3>4
  <2> HIDE DEF N, X
  <2>3. \A pl \in Players :
          t.pennies[pl] <= s.pennies[pl] + QUEUE_COST * Cardinality(N[pl])
    BY <1>2, <2>2, CappedBelow
  <2>4. Owed(t) \in SUBSET (Owed(s) \ O) /\ O \in SUBSET Owed(s)
    BY <1>5 DEF Owed
  <2>5. Funded(s)
    BY DEF Balanced
  <2> HIDE DEF O
  <2> QED BY <1>1, <2>1, <2>3, <2>4, <2>5, FundedLeft
<1>9. Balanced(t)
  BY <1>6, <1>7, <1>8 DEF Balanced
<1> QED BY <1>9 DEF t


\* Refund() gives each entry's deposit and count back once.
LEMMA RefundBalanced ==
  ASSUME NEW s \in State, Balanced(s), NEW P \in SUBSET Charge(s),
         \A p \in P : s.queue_map[p].executor \in Objects,
         NEW t \in State, Charge(t) \in SUBSET (Charge(s) \ P),
         \A p \in Charge(t) : t.queue_map[p].executor = s.queue_map[p].executor,
         t.owner = s.owner, t.powers = s.powers, t.garbage = s.garbage,
         t.queue = Refund(s, P).queue, t.pennies = Refund(s, P).pennies
  PROVE  Balanced(t)
<1> DEFINE x(p) == s.queue_map[p].executor
           M == [y \in Objects |-> {p \in P : Counter(s, x(p)) = y}]
           N == [pl \in Players |-> {p \in P : s.owner[x(p)] = pl /\ ~NoPay(s, x(p))}]
<1>2. /\ t.pennies = [pl \in Players |->
                        Capped(s.pennies[pl] + QUEUE_COST * Cardinality(N[pl]))]
      /\ t.queue = [y \in Objects |-> s.queue[y] - Cardinality(M[y])]
  BY DEF Refund, State
<1>6. SelfOwned(t) /\ (EveryonePays => AllPay(t))
  BY SameDatabase
<1>7. QUEUE_PER_OWNER => Counted(t)
  <2> SUFFICES ASSUME QUEUE_PER_OWNER PROVE Counted(t)
    OBVIOUS
  <2>1. Shares(Objects, P, M)
    BY DEF Shares
  <2>2. \A y \in Objects : Cardinality(M[y]) \in Nat /\ s.queue[y] \in Int
    <3>1. \A y \in Objects : M[y] \in SUBSET PID
      BY ChargeFacts
    <3> HIDE DEF M
    <3> QED BY <3>1, PidsFinite DEF State
  <2>3. \A y \in Things : M[y] = {}
    <3>1. \A p \in P : Counter(s, x(p)) \in Players
      BY DEF Counter, State
    <3> QED BY <3>1 DEF Things
  <2> HIDE DEF M
  <2>4. \A y \in Objects : s.queue[y] <= t.queue[y] + Cardinality(M[y])
    BY <1>2, <2>2
  <2>5. Counted(s)
    BY DEF Balanced
  <2>6. \A y \in Things : t.queue[y] = 0
    <3> SUFFICES ASSUME NEW y \in Things PROVE t.queue[y] = 0
      OBVIOUS
    <3>1. y \in Objects /\ Cardinality(M[y]) = 0
      BY <2>3, FS_EmptySet DEF Things
    <3>2. s.queue[y] = 0
      BY <2>5 DEF Counted
    <3> QED BY <1>2, <3>1, <3>2
  <2> QED BY <2>1, <2>4, <2>5, <2>6, CountedLeft
<1>8. EveryonePays => Funded(t)
  <2> SUFFICES ASSUME EveryonePays PROVE Funded(t)
    OBVIOUS
  <2> DEFINE O == P \cap Owed(s)
  <2>0. \A p \in P : ~NoPay(s, x(p)) => p \in O
    BY WhoPays DEF Owed
  <2>1. Shares(Players, O, N)
    <3>1. \A pl \in Players : \A p \in N[pl] :
            p \in P /\ s.owner[x(p)] = pl /\ ~NoPay(s, x(p))
      OBVIOUS
    <3>2. N \in [Players -> SUBSET P]
      OBVIOUS
    <3> HIDE DEF N, x
    <3> QED BY <2>0, <3>1, <3>2 DEF Shares
  <2>2. \A pl \in Players : /\ QUEUE_COST * Cardinality(N[pl]) \in Nat
                            /\ s.pennies[pl] \in Int
    <3>1. \A pl \in Players : N[pl] \in SUBSET PID
      BY <2>1, ChargeFacts DEF Shares
    <3> HIDE DEF N
    <3>2. \A pl \in Players : Cardinality(N[pl]) \in Nat
      BY <3>1, PidsFinite
    <3>3. \A pl \in Players : s.pennies[pl] \in Int
      BY DEF State
    <3>4. \A pl \in Players : QUEUE_COST * Cardinality(N[pl]) \in Nat
      BY <3>2, Finite, TimesFacts
    <3> QED BY <3>3, <3>4
  <2> HIDE DEF N
  <2>3. \A pl \in Players :
          t.pennies[pl] <= s.pennies[pl] + QUEUE_COST * Cardinality(N[pl])
    BY <1>2, <2>2, CappedBelow
  <2>4. Owed(t) \in SUBSET (Owed(s) \ O) /\ O \in SUBSET Owed(s)
    BY DEF Owed
  <2>5. Funded(s)
    BY DEF Balanced
  <2> HIDE DEF O
  <2> QED BY <2>1, <2>3, <2>4, <2>5, FundedLeft
<1> QED BY <1>6, <1>7, <1>8 DEF Balanced

\* The charged entries depend on the lists and the table only.
LEMMA SameCharge ==
  ASSUME NEW s, NEW t, Lists(t) = Lists(s)
  PROVE  /\ Charge(t) = Charge(s) /\ Owed(t) = Owed(s)
         /\ \A p \in Charge(t) : t.queue_map[p].executor = s.queue_map[p].executor
<1>1. t.queue_map = s.queue_map /\ Listed(t) = Listed(s)
  BY DEF Lists, Listed
<1> QED BY <1>1 DEF Charge, Owed

\* The sum of the counts after one more was counted.
LEMMA CountUp ==
  ASSUME NEW s \in State, NEW x \in Objects, NEW t,
         t.queue = [s.queue EXCEPT ![Counter(s, x)] = @ + 1]
  PROVE  /\ SumFunction(t.queue) = SumFunction(s.queue) + 1
         /\ QUEUE_PER_OWNER => \A y \in Things : t.queue[y] = s.queue[y]
<1> DEFINE c == Counter(s, x)
<1>1. c \in Objects /\ (QUEUE_PER_OWNER => c \in Players)
  BY ConfigAssumption DEF Counter, State
<1> HIDE DEF c
<1>2. s.queue \in [Objects -> Int] /\ s.queue[c] \in Int /\ s.queue[c] + 1 \in Int
  BY <1>1 DEF State
<1>3. t.queue = With(s.queue, c, s.queue[c] + 1)
  BY DEF With, c
<1> DEFINE f == s.queue
           v == s.queue[c] + 1
<1> HIDE DEF f, v
<1>4. SumFunction(With(f, c, v)) = SumFunction(f) - f[c] + v
  BY <1>1, <1>2, Finite, SumWith DEF f, v
<1>5. SumFunction(f) \in Int
  BY ChargeFacts DEF f
<1>6. SumFunction(t.queue) = SumFunction(s.queue) + 1
  BY <1>2, <1>3, <1>4, <1>5 DEF f, v
<1>7. QUEUE_PER_OWNER => \A y \in Things : t.queue[y] = s.queue[y]
  BY <1>1, <1>2, <1>3 DEF With, Things
<1> QED BY <1>6, <1>7

\* The sum of the purses after x paid n.
LEMMA SpendDown ==
  ASSUME NEW s \in State, NEW x \in Objects, NEW n \in Nat, NEW t \in State,
         t.pennies = Spent(s, x, n)
  PROVE  /\ \A pl \in Players : t.pennies[pl] <= s.pennies[pl]
         /\ ~NoPay(s, x) => SumFunction(t.pennies) = SumFunction(s.pennies) - n
<1> DEFINE c == s.owner[x]
<1>1. c \in Players
  BY DEF State
<1>2. s.pennies \in [Players -> Int]
  BY DEF State
<1>3. s.pennies[c] \in Int /\ s.pennies[c] - n \in Int
  BY <1>1, <1>2
<1>4. CASE NoPay(s, x)
  <2>1. t.pennies = s.pennies
    BY <1>4 DEF Spent
  <2> QED BY <1>2, <1>4, <2>1
<1>5. CASE ~NoPay(s, x)
  <2>1. t.pennies = With(s.pennies, c, s.pennies[c] - n)
    BY <1>5 DEF Spent, With
  <2> HIDE DEF c
  <2>2. \A pl \in Players : t.pennies[pl] <= s.pennies[pl]
    BY <1>1, <1>2, <1>3, <2>1 DEF With
  <2> DEFINE f == s.pennies
             v == s.pennies[c] - n
  <2> HIDE DEF f, v
  <2>3. SumFunction(With(f, c, v)) = SumFunction(f) - f[c] + v
    BY <1>1, <1>2, <1>3, Finite, SumWith DEF f, v
  <2>4. SumFunction(f) \in Int
    BY ChargeFacts DEF f
  <2>5. SumFunction(t.pennies) = SumFunction(s.pennies) - n
    BY <1>3, <2>1, <2>3, <2>4 DEF f, v
  <2> QED BY <2>2, <2>5
<1> QED BY <1>4, <1>5


\* One more is counted and at most one entry is added.
LEMMA CountedUp ==
  ASSUME NEW s \in State, NEW t \in State, Counted(s), QUEUE_PER_OWNER,
         NEW x \in Objects, t.queue = [s.queue EXCEPT ![Counter(s, x)] = @ + 1],
         Cardinality(Charge(t)) <= Cardinality(Charge(s)) + 1
  PROVE  Counted(t)
<1>1. /\ SumFunction(t.queue) = SumFunction(s.queue) + 1
      /\ \A y \in Things : t.queue[y] = s.queue[y]
  BY CountUp
<1>2. /\ SumFunction(s.queue) \in Int
      /\ Cardinality(Charge(s)) \in Nat /\ Cardinality(Charge(t)) \in Nat
  BY ChargeFacts, PidsFinite
<1>3. Cardinality(Charge(t)) <= SumFunction(t.queue)
  BY <1>1, <1>2 DEF Counted
<1> QED BY <1>1, <1>3 DEF Counted

\* A payment without an entry, as when the table is full.
LEMMA PaidBalanced ==
  ASSUME NEW s, Good(s), Balanced(s), NEW x \in Objects, NEW loss \in {0, 1},
         NEW t, Good(t), Paid(s, x, loss, t)
  PROVE  Balanced(t)
<1>1. /\ s \in State /\ t \in State /\ Lists(t) = Lists(s) /\ Database(t) = Database(s)
      /\ t.queue = [s.queue EXCEPT ![Counter(s, x)] = @ + 1]
      /\ t.pennies = Spent(s, x, QUEUE_COST + loss)
  BY DEF Good, Paid
<1>2. Charge(t) = Charge(s) /\ Owed(t) = Owed(s)
  BY <1>1, SameCharge
<1>3. SelfOwned(t) /\ (EveryonePays => AllPay(t))
  <2>1. t.owner = s.owner /\ t.powers = s.powers /\ t.garbage = s.garbage
    BY <1>1 DEF Database
  <2> QED BY <2>1, SameDatabase
<1>4. Cardinality(Charge(t)) <= Cardinality(Charge(s)) + 1
  BY <1>1, <1>2, ChargeFacts, PidsFinite
<1>5. QUEUE_PER_OWNER => Counted(t)
  BY <1>1, <1>4, CountedUp DEF Balanced
<1>6. \A pl \in Players : t.pennies[pl] <= s.pennies[pl]
  <2>1. QUEUE_COST + loss \in Nat
    BY Finite
  <2> QED BY <1>1, <2>1, SpendDown
<1>7. EveryonePays => Funded(t)
  BY <1>1, <1>2, <1>6, FundedSame DEF Balanced
<1> QED BY <1>3, <1>5, <1>7 DEF Balanced

\* An entry that was paid for.
LEMMA EnteredBalanced ==
  ASSUME NEW s, Good(s), Balanced(s), NEW x \in Objects \ s.garbage,
         NEW loss \in {0, 1}, NEW t, Good(t), NEW k, NEW pid, NEW e,
         Entered(s, x, loss, k, pid, e, t)
  PROVE  Balanced(t)
<1>1. /\ s \in State /\ t \in State /\ Database(t) = Database(s)
      /\ t.queue = [s.queue EXCEPT ![Counter(s, x)] = @ + 1]
      /\ t.pennies = Spent(s, x, QUEUE_COST + loss)
      /\ pid \in PID \ DOMAIN s.queue_map /\ t.queue_map[pid] = e /\ e.executor = x
      /\ \A p \in DOMAIN s.queue_map : t.queue_map[p] = s.queue_map[p]
      /\ Listed(t) = Listed(s) \cup {pid}
  BY DEF Good, Entered
<1>2. Listed(s) \subseteq DOMAIN s.queue_map /\ pid \notin Listed(s) /\ x # NOTHING
  <2>1. Listed(s) \subseteq DOMAIN s.queue_map
    BY DEF Good, Linked
  <2> QED BY <1>1, <2>1, ObjectFacts
<1>3. /\ Charge(t) = Charge(s) \cup {pid} /\ pid \notin Charge(s)
      /\ Owed(t) = IF x = GOD THEN Owed(s) ELSE Owed(s) \cup {pid}
      /\ pid \notin Owed(s)
  BY <1>1, <1>2 DEF Charge, Owed
<1>4. SelfOwned(t) /\ (EveryonePays => AllPay(t))
  <2>1. t.owner = s.owner /\ t.powers = s.powers /\ t.garbage = s.garbage
    BY <1>1 DEF Database
  <2> QED BY <2>1, SameDatabase
<1>5. /\ IsFiniteSet(Charge(s)) /\ IsFiniteSet(Owed(s))
      /\ Cardinality(Charge(s)) \in Nat /\ Cardinality(Owed(s)) \in Nat
  BY <1>1, ChargeFacts, PidsFinite
<1>6. Cardinality(Charge(t)) = Cardinality(Charge(s)) + 1
  BY <1>3, <1>5, FS_AddElement
<1>7. QUEUE_PER_OWNER => Counted(t)
  BY <1>1, <1>5, <1>6, CountedUp DEF Balanced
<1>8. QUEUE_COST + loss \in Nat /\ QUEUE_COST \in Nat
  BY Finite
<1>9. EveryonePays => Funded(t)
  <2> SUFFICES ASSUME EveryonePays PROVE Funded(t)
    OBVIOUS
  <2>1. Funded(s)
    BY DEF Balanced
  <2>2. CASE x = GOD
    <3>1. \A pl \in Players : t.pennies[pl] <= s.pennies[pl]
      BY <1>1, <1>8, SpendDown
    <3> QED BY <1>1, <1>3, <2>1, <2>2, <3>1, FundedSame
  <2>3. CASE x # GOD
    <3>1. ~NoPay(s, x)
      BY <1>1, <2>3, WhoPays
    <3>2. SumFunction(t.pennies) = SumFunction(s.pennies) - (QUEUE_COST + loss)
          /\ SumFunction(s.pennies) \in Int
      BY <1>1, <1>8, <3>1, SpendDown, ChargeFacts
    <3>3. Cardinality(Owed(t)) = Cardinality(Owed(s)) + 1
      BY <1>3, <1>5, <2>3, FS_AddElement
    <3> DEFINE a == QUEUE_COST * Cardinality(Owed(s))
               b == QUEUE_COST * Cardinality(Owed(t))
    <3>4. b = a + QUEUE_COST /\ a \in Nat
      <4>1. QUEUE_COST * (Cardinality(Owed(s)) + 1)
              = QUEUE_COST * Cardinality(Owed(s)) + QUEUE_COST * 1
        BY <1>5, <1>8, TimesFacts
      <4>2. QUEUE_COST * 1 = QUEUE_COST
        BY <1>8
      <4> QED BY <1>5, <1>8, <3>3, <4>1, <4>2, TimesFacts
    <3>5. SumFunction(s.pennies) + a <= SumFunction(InitPennies)
          /\ SumFunction(InitPennies) \in Int
      BY <2>1, Finite DEF Funded
    <3> HIDE DEF a, b
    <3>6. SumFunction(t.pennies) + b <= SumFunction(InitPennies)
      BY <1>8, <3>2, <3>4, <3>5
    <3> QED BY <3>6 DEF Funded, b
  <2> QED BY <2>2, <2>3
<1> QED BY <1>4, <1>7, <1>9 DEF Balanced

\* A flag changes no account.
LEMMA FlagBalanced ==
  ASSUME NEW s, Good(s), Balanced(s), NEW H \in SUBSET Objects
  PROVE  Balanced([s EXCEPT !.halted = H])
<1> DEFINE t == [s EXCEPT !.halted = H]
<1>1. /\ s \in State /\ t \in State /\ Lists(t) = Lists(s) /\ t.owner = s.owner
      /\ t.powers = s.powers /\ t.garbage = s.garbage /\ t.queue = s.queue
      /\ t.pennies = s.pennies
  BY DEF Good, State, Lists
<1> HIDE DEF t
<1>2. SelfOwned(t) /\ (EveryonePays => AllPay(t))
  BY <1>1, SameDatabase
<1>3. \A pl \in Players : t.pennies[pl] <= s.pennies[pl]
  BY <1>1 DEF State
<1>4. Balanced(t)
  BY <1>1, <1>2, <1>3, SameCharge, BalancedSame
<1> QED BY <1>4 DEF t

\* A refused payment is undone before the payer is halted.
LEMMA RefusedBalanced ==
  ASSUME NEW s, Good(s), Balanced(s), NEW x \in Objects, NEW loss \in {0, 1},
         NEW t, Refused(s, x, loss, t)
  PROVE  Balanced(t)
<1>1. CASE t = s
  BY <1>1
<1>2. CASE t # s
  <2>1. PICK u : /\ Good(u) /\ Lists(u) = Lists(s) /\ Database(u) = Database(s)
                 /\ u.queue = s.queue /\ u.pennies = Spent(s, x, loss)
                 /\ t = [do_halt(u, {x}) EXCEPT !.halted = @ \cup {x}]
    BY <1>2 DEF Refused
  <2>2. /\ s \in State /\ u \in State
        /\ u.owner = s.owner /\ u.powers = s.powers /\ u.garbage = s.garbage
    BY <2>1 DEF Good, Database
  <2>3. SelfOwned(u) /\ (EveryonePays => AllPay(u))
    BY <2>2, SameDatabase
  <2>4. \A pl \in Players : u.pennies[pl] <= s.pennies[pl]
    <3>1. loss \in Nat
      OBVIOUS
    <3> QED BY <2>1, <2>2, <3>1, SpendDown
  <2>5. Balanced(u)
    BY <2>1, <2>2, <2>3, <2>4, SameCharge, BalancedSame
  <2> DEFINE h == do_halt(u, {x})
  <2>6. Good(h) /\ Balanced(h)
    <3>1. {x} \in SUBSET Objects /\ Separate(u, {x})
      BY <2>1, <2>5, SeparateVictims
    <3> QED BY <2>1, <2>5, <3>1, HaltGood, HaltBalanced
  <2> HIDE DEF h
  <2>7. h.halted \cup {x} \in SUBSET Objects
    BY <2>6 DEF Good, State
  <2>8. t = [h EXCEPT !.halted = h.halted \cup {x}]
    BY <2>1, <2>6 DEF h, Good, State
  <2> DEFINE H == h.halted \cup {x}
  <2> HIDE DEF H
  <2>9. Balanced([h EXCEPT !.halted = H])
    BY <2>6, <2>7, FlagBalanced DEF H
  <2> QED BY <2>8, <2>9 DEF H
<1> QED BY <1>1, <1>2

\* However queueing an entry ends, the accounts are right.
LEMMA EntersBalanced ==
  ASSUME NEW s, Good(s), Balanced(s), NEW x \in Objects \ s.garbage,
         NEW loss \in {0, 1}, NEW k, NEW t, Good(t), Enters(s, x, loss, k, t)
  PROVE  Balanced(t)
<1>1. CASE Paid(s, x, loss, t)
  BY <1>1, PaidBalanced
<1>2. CASE Refused(s, x, loss, t)
  BY <1>2, RefusedBalanced
<1>3. CASE \E pid, e : Entered(s, x, loss, k, pid, e, t)
  BY <1>3, EnteredBalanced
<1> QED BY <1>1, <1>2, <1>3 DEF Enters


\* Operations that move entries or take their executors away, without money.
LEMMA BalancedMoves ==
  ASSUME NEW s, Good(s), Balanced(s), NEW t, Good(t), Database(t) = Database(s),
         t.queue = s.queue, t.pennies = s.pennies, Listed(t) \subseteq Listed(s),
         \A p \in Listed(t) :
            t.queue_map[p].executor \in {s.queue_map[p].executor, NOTHING}
  PROVE  Balanced(t)
<1>1. /\ s \in State /\ t \in State /\ t.owner = s.owner /\ t.powers = s.powers
      /\ t.garbage = s.garbage
  BY DEF Good, Database
<1>2. SelfOwned(t) /\ (EveryonePays => AllPay(t))
  BY <1>1, SameDatabase
<1>3. \A pl \in Players : t.pennies[pl] <= s.pennies[pl]
  BY <1>1 DEF State
<1>4. /\ Charge(t) \in SUBSET Charge(s)
      /\ \A p \in Charge(t) : t.queue_map[p].executor = s.queue_map[p].executor
  BY DEF Charge
<1> QED BY <1>1, <1>2, <1>3, <1>4, BalancedSame

\* Queueing.
LEMMA InsertQueBalanced ==
  ASSUME NEW s, Good(s), Balanced(s), NEW x \in Objects \ s.garbage,
         NEW loss \in {0, 1}
  PROVE  Balanced(insert_que(s, x, loss))
BY InsertQueEnters, InsertQueGood, EntersBalanced

\* Events.
LEMMA QueueEventBalanced ==
  ASSUME NEW s, Good(s), Balanced(s), NEW loss \in {0, 1}
  PROVE  Balanced(queue_event(s, loss))
<1>1. CASE EVENT_HANDLER \in {NOTHING} \cup s.garbage \cup s.halted
  BY <1>1 DEF queue_event
<1>2. CASE EVENT_HANDLER \notin {NOTHING} \cup s.garbage \cup s.halted
  <2>1. EVENT_HANDLER \in Objects \ s.garbage
    BY <1>2, ConfigAssumption
  <2>2. queue_event(s, loss) = ToCommandQueue(s, EVENT_HANDLER, loss)
    BY <1>2 DEF queue_event
  <2>3. Good(ToCommandQueue(s, EVENT_HANDLER, loss))
    BY <2>1, ToCommandQueueGood
  <2> QED BY <2>1, <2>2, <2>3, ToCommandQueueEnters, EntersBalanced
<1> QED BY <1>1, <1>2

\* The value of a semaphore is no account.
LEMMA AddToSemBalanced ==
  ASSUME NEW s, Good(s), Balanced(s), NEW k \in SemKeys, NEW am \in Int
  PROVE  /\ Good(add_to_sem(s, k, am)) /\ Balanced(add_to_sem(s, k, am))
         /\ add_to_sem(s, k, am).garbage = s.garbage
<1> DEFINE t == add_to_sem(s, k, am)
<1>1. s \in State /\ Good(t)
  BY AddToSemType DEF Good
<1>2. /\ Lists(t) = Lists(s) /\ Database(t) = Database(s)
      /\ t.queue = s.queue /\ t.pennies = s.pennies
  BY <1>1 DEF add_to_sem, State, Lists, Database
<1> HIDE DEF t
<1>3. Listed(t) = Listed(s) /\ t.queue_map = s.queue_map /\ t.garbage = s.garbage
  BY <1>2 DEF Lists, Listed, Database
<1>4. Balanced(t)
  BY <1>1, <1>2, <1>3, BalancedMoves
<1> QED BY <1>1, <1>3, <1>4 DEF t

\* @wait.
LEMMA WaitQueBalanced ==
  ASSUME mudtime \in Int, NEW s, Good(s), Balanced(s),
         NEW x \in Objects \ s.garbage, NEW n \in Int,
         NEW obj \in Objects \cup {NOTHING}, NEW attr \in Attrs \cup {NULL},
         obj # NOTHING => attr \in Attrs, NEW until, NEW loss \in {0, 1}
  PROVE  Balanced(wait_que(s, x, n, obj, attr, until, loss))
<1> DEFINE k == IF obj = NOTHING THEN NoSem ELSE <<obj, attr>>
<1>1. CASE n # 0
  <2>1. Enters(s, x, loss, k, wait_que(s, x, n, obj, attr, until, loss))
    BY <1>1, WaitQueEnters
  <2>2. Good(wait_que(s, x, n, obj, attr, until, loss))
    BY WaitQueGood
  <2> HIDE DEF k
  <2> QED BY <2>1, <2>2, EntersBalanced
<1>2. CASE n = 0
  <2> DEFINE low == IF obj = NOTHING THEN s ELSE add_to_sem(s, <<obj, attr>>, -1)
  <2>1. wait_que(s, x, n, obj, attr, until, loss) = insert_que(low, x, loss)
    BY <1>2 DEF wait_que
  <2>2. Good(low) /\ Balanced(low) /\ low.garbage = s.garbage
    <3>1. CASE obj = NOTHING
      BY <3>1
    <3>2. CASE obj # NOTHING
      <4>1. -1 \in Int /\ <<obj, attr>> \in SemKeys
        BY <3>2 DEF SemKeys
      <4> QED BY <3>2, <4>1, AddToSemBalanced
    <3> QED BY <3>1, <3>2
  <2> HIDE DEF low
  <2> QED BY <2>1, <2>2, InsertQueBalanced
<1> QED BY <1>1, <1>2

\* @wait on a semaphore.
LEMMA DoWaitBalanced ==
  ASSUME mudtime \in Int, NEW s, Good(s), Balanced(s),
         NEW x \in Objects \ s.garbage, NEW n \in Int,
         NEW obj \in Objects, NEW attr \in Attrs, NEW until, NEW loss \in {0, 1}
  PROVE  Balanced(do_wait(s, x, obj, attr, n, until, loss))
<1> DEFINE k == <<obj, attr>>
           up == add_to_sem(s, k, 1)
<1>1. k \in SemKeys /\ 1 \in Int
  BY DEF SemKeys
<1>2. \/ do_wait(s, x, obj, attr, n, until, loss) =
           wait_que(up, x, -1, NOTHING, NULL, until, loss)
      \/ do_wait(s, x, obj, attr, n, until, loss) =
           wait_que(up, x, n, obj, attr, until, loss)
  BY DEF do_wait
<1>3. Good(up) /\ Balanced(up) /\ up.garbage = s.garbage
  <2> HIDE DEF k
  <2> QED BY <1>1, AddToSemBalanced
<1> HIDE DEF up
<1>4. -1 \in Int /\ NOTHING \in Objects \cup {NOTHING} /\ NULL \in Attrs \cup {NULL}
  OBVIOUS
<1>5. Balanced(wait_que(up, x, -1, NOTHING, NULL, until, loss))
  BY <1>3, <1>4, WaitQueBalanced
<1>6. Balanced(wait_que(up, x, n, obj, attr, until, loss))
  BY <1>3, WaitQueBalanced
<1> QED BY <1>2, <1>5, <1>6

\* @wait/pid.
LEMMA WaitPidBalanced ==
  ASSUME mudtime \in Int, NEW s, Good(s), Balanced(s), NEW pid \in DOMAIN s.queue_map,
         NEW mode \in {"until", "adjust", "set"}, NEW n \in Int
  PROVE  Balanced(do_waitpid(s, pid, mode, n))
<1> DEFINE t == do_waitpid(s, pid, mode, n)
<1>1. /\ t.qfirst = s.qfirst /\ t.qsem = s.qsem /\ t.running = s.running
      /\ Database(t) = Database(s) /\ t.queue = s.queue /\ t.pennies = s.pennies
      /\ DOMAIN t.queue_map = DOMAIN s.queue_map
      /\ \A p \in DOMAIN s.queue_map :
           t.queue_map[p].executor = s.queue_map[p].executor
  BY WaitPidEffect
<1>2. Good(t)
  BY DoWaitPidGood
<1> HIDE DEF t
<1>3. Listed(t) \subseteq Listed(s) /\ Listed(t) \subseteq DOMAIN s.queue_map
  BY <1>1, <1>2 DEF Good, Linked, Listed, Disjoint
<1>4. Balanced(t)
  BY <1>1, <1>2, <1>3, BalancedMoves
<1> QED BY <1>4 DEF t

\* @notify.
LEMMA NotifiesBalanced ==
  ASSUME NEW s, Good(s), Balanced(s), NEW obj, NEW attr, NEW t, Good(t),
         Notifies(s, obj, attr, t)
  PROVE  Balanced(t)
<1>1. PICK n \in Nat :
        LET ps == Take(WaitingOn(s, obj, attr), n)
        IN  /\ PartOfSem(s, ps)
            /\ t.qfirst = s.qfirst \o ps
            /\ Range(t.qsem) = Range(s.qsem) \ Range(ps)
            /\ t.qwait = s.qwait /\ t.queue_map = s.queue_map
            /\ Database(t) = Database(s)
            /\ t.queue = s.queue /\ t.pennies = s.pennies
  BY DEF Notifies
<1> DEFINE ps == Take(WaitingOn(s, obj, attr), n)
           Q == Range(ps)
<1>2. /\ ps \in Seq(PID) /\ Q \in SUBSET Range(s.qsem) /\ s.qfirst \in Seq(PID)
  BY <1>1 DEF PartOfSem, Good, State
<1>3. Range(s.qfirst \o ps) = Range(s.qfirst) \cup Q
  <2> HIDE DEF ps
  <2> QED BY <1>2, ConcatFacts
<1>4. t.queue_map = s.queue_map /\ Listed(t) \subseteq Listed(s)
      /\ Database(t) = Database(s) /\ t.queue = s.queue /\ t.pennies = s.pennies
  BY <1>1, <1>2, <1>3 DEF Listed
<1> QED BY <1>4, BalancedMoves

\* queue_update().
LEMMA QueueUpdateBalanced ==
  ASSUME mudtime \in Int, NEW s, Good(s), Balanced(s)
  PROVE  Balanced(queue_update(s))
<1>1. PICK due \in Seq(PID), late \in Seq(PID) :
        Updated(s, due, late, queue_update(s))
  BY QueueUpdateEffect
<1> DEFINE t == queue_update(s)
           g == s.qfirst \o due
<1>2. Updated(s, due, late, t) /\ s \in State /\ Linked(s) /\ Good(t)
  BY <1>1, QueueUpdateGood DEF Good
<1> HIDE DEF t
<1>3. /\ Range(due) \subseteq Range(s.qwait) /\ Range(late) \in SUBSET Range(s.qsem)
      /\ Range(t.qwait) \subseteq Range(s.qwait)
      /\ Range(t.qsem) \subseteq Range(s.qsem)
      /\ t.qfirst = g \o late /\ Database(t) = Database(s)
      /\ t.queue = s.queue /\ t.pennies = s.pennies
      /\ \A p \in DOMAIN s.queue_map :
           t.queue_map[p].executor = s.queue_map[p].executor
  BY <1>2 DEF Updated, PartOfSem
<1>4. g \in Seq(PID) /\ Range(g) = Range(s.qfirst) \cup Range(due)
  BY <1>2, ConcatFacts DEF State
<1> HIDE DEF g
<1>5. Range(g \o late) = Range(g) \cup Range(late)
  BY <1>4, ConcatFacts
<1>6. Listed(t) \subseteq Listed(s) /\ Listed(s) \subseteq DOMAIN s.queue_map
  BY <1>2, <1>3, <1>4, <1>5 DEF Listed, Linked
<1>7. Balanced(t)
  BY <1>2, <1>3, <1>6, BalancedMoves
<1> QED BY <1>7 DEF t

\* The end of an entry.
LEMMA EndOfEntryBalanced ==
  ASSUME NEW s, Good(s), Balanced(s), s.running # << >>
  PROVE  Balanced(EndOfEntry(s))
<1> DEFINE t == EndOfEntry(s)
<1>1. /\ t.qfirst = s.qfirst /\ t.qwait = s.qwait /\ t.qsem = s.qsem
      /\ Database(t) = Database(s) /\ t.queue = s.queue /\ t.pennies = s.pennies
      /\ \A e \in DOMAIN t.queue_map : t.queue_map[e] = s.queue_map[e]
  BY EndOfEntryEffect
<1>2. Good(t)
  BY EndOfEntryGood
<1> HIDE DEF t
<1>3. Listed(t) = Listed(s) /\ Listed(t) \subseteq DOMAIN t.queue_map
  BY <1>1, <1>2 DEF Listed, Good, Linked
<1>4. Balanced(t)
  BY <1>1, <1>2, <1>3, BalancedMoves
<1> QED BY <1>4 DEF t


\* @drain refunds those it discards.
LEMMA DiscardBalanced ==
  ASSUME NEW s, Good(s), Sound(s), Balanced(s), NEW ps, PartOfSem(s, ps)
  PROVE  Balanced(Discard(s, ps))
<1> DEFINE t == Discard(s, ps)
           P == Range(ps)
<1>1. /\ Database(t) = Database(s)
      /\ t.queue = Refund(s, P).queue /\ t.pennies = Refund(s, P).pennies
  BY DiscardEffect
<1>2. /\ Good(t) /\ Listed(t) = Listed(s) \ P
      /\ \A p \in Listed(t) : t.queue_map[p] = s.queue_map[p]
  BY DiscardGood, DiscardSound
<1> HIDE DEF t
<1>3. s \in State /\ Linked(s) /\ t \in State /\ P \subseteq Range(s.qsem)
  BY <1>2 DEF Good, PartOfSem
<1>4. P \in SUBSET Charge(s) /\ \A p \in P : s.queue_map[p].executor \in Objects
  <2> SUFFICES ASSUME NEW p \in P
               PROVE  p \in Charge(s) /\ s.queue_map[p].executor \in Objects
    OBVIOUS
  <2>1. p \in Range(s.qsem) /\ p \in Listed(s) /\ p \in DOMAIN s.queue_map
    BY <1>3 DEF Linked, Listed
  <2>2. s.queue_map[p].executor # NOTHING
    BY <2>1 DEF Sound, Live
  <2>3. s.queue_map[p] \in MQUE
    BY <1>3, <2>1, QMapFacts DEF State
  <2> QED BY <2>1, <2>2, <2>3 DEF Charge, MQUE
<1>5. /\ Charge(t) \in SUBSET (Charge(s) \ P)
      /\ \A p \in Charge(t) : t.queue_map[p].executor = s.queue_map[p].executor
  BY <1>2 DEF Charge
<1>6. t.owner = s.owner /\ t.powers = s.powers /\ t.garbage = s.garbage
  BY <1>1 DEF Database
<1> HIDE DEF P
<1>7. Balanced(t)
  BY <1>1, <1>3, <1>4, <1>5, <1>6, RefundBalanced
<1> QED BY <1>7 DEF t

\* @drain/all.
LEMMA DrainAllBalanced ==
  ASSUME NEW s, Good(s), Sound(s), Balanced(s), NEW obj, NEW attr
  PROVE  Balanced(DrainAll(s, obj, attr))
<1> DEFINE ps == WaitingOn(s, obj, attr)
           d == Discard(s, ps)
           t == DrainAll(s, obj, attr)
<1>1. PartOfSem(s, ps)
  BY WaitingOnPart
<1>2. Good(d) /\ Balanced(d)
  <2> HIDE DEF ps
  <2> QED BY <1>1, DiscardGood, DiscardBalanced
<1>3. /\ Lists(t) = Lists(d) /\ Database(t) = Database(d)
      /\ t.queue = d.queue /\ t.pennies = d.pennies
  BY DrainAllEffect
<1>4. Good(t)
  BY DrainGood
<1> HIDE DEF d, t
<1>5. t.queue_map = d.queue_map /\ Listed(t) = Listed(d)
  BY <1>3 DEF Lists, Listed
<1>6. Balanced(t)
  BY <1>2, <1>3, <1>4, <1>5, BalancedMoves
<1> QED BY <1>6 DEF t

\* do_top() refunds an entry that has an executor.
LEMMA DoTopBalanced ==
  ASSUME NEW s, Good(s), Sound(s), Balanced(s), s.qfirst # << >>
  PROVE  Balanced(do_top(s))
<1> DEFINE t == do_top(s)
           p == Head(s.qfirst)
<1>1. /\ t.qfirst = Tail(s.qfirst) /\ t.qwait = s.qwait /\ t.qsem = s.qsem
      /\ Database(t) = Database(s)
      /\ \A e \in DOMAIN t.queue_map : t.queue_map[e] = s.queue_map[e]
      /\ RealGood(s, s.queue_map[p].executor) =>
           t.queue = Refund(s, {p}).queue /\ t.pennies = Refund(s, {p}).pennies
      /\ ~RealGood(s, s.queue_map[p].executor) =>
           t.queue = s.queue /\ t.pennies = s.pennies
  BY DoTopEffect
<1>2. Good(t) /\ s \in State /\ t \in State /\ Linked(s)
  BY DoTopGood DEF Good
<1> HIDE DEF t
<1>3. /\ p \in Range(s.qfirst) /\ p \notin Range(Tail(s.qfirst))
      /\ Range(Tail(s.qfirst)) \subseteq Range(s.qfirst)
  <2> DEFINE q == s.qfirst
  <2>1. q \in Seq(PID) /\ q # << >> /\ IsInjective(q)
    BY <1>2 DEF State, Linked, Disjoint
  <2> HIDE DEF q
  <2>2. /\ Len(q) \in Nat /\ Len(q) >= 1 /\ DOMAIN q = 1..Len(q) /\ Head(q) = q[1]
        /\ Len(Tail(q)) = Len(q) - 1
        /\ DOMAIN Tail(q) = 1..(Len(q) - 1)
        /\ \A i \in 1..(Len(q) - 1) : Tail(q)[i] = q[i + 1]
    BY <2>1
  <2>3. Head(q) \in Range(q) /\ Range(Tail(q)) \subseteq Range(q)
    BY <2>2 DEF Range
  <2>4. Head(q) \notin Range(Tail(q))
    BY <2>1, <2>2 DEF Range, IsInjective
  <2> QED BY <2>3, <2>4 DEF q
<1>4. /\ Listed(t) \subseteq Listed(s) \ {p} /\ Listed(t) \subseteq DOMAIN t.queue_map
      /\ p \in Listed(s) /\ p \in DOMAIN s.queue_map
  <2>1. p \notin Range(s.qwait) /\ p \notin Range(s.qsem)
    BY <1>2, <1>3 DEF Linked, Disjoint
  <2>2. Listed(t) \subseteq DOMAIN t.queue_map /\ Listed(s) \subseteq DOMAIN s.queue_map
    BY <1>2 DEF Good, Linked
  <2> QED BY <1>1, <1>3, <2>1, <2>2 DEF Listed
<1>5. \A e \in Listed(t) : t.queue_map[e] = s.queue_map[e]
  BY <1>1, <1>4
<1> HIDE DEF p
<1>6. CASE RealGood(s, s.queue_map[p].executor)
  <2> DEFINE P == {p}
  <2>1. s.queue_map[p].executor \in Objects /\ s.queue_map[p].executor # NOTHING
    BY <1>6, ObjectFacts DEF RealGood
  <2>2. P \in SUBSET Charge(s) /\ \A e \in P : s.queue_map[e].executor \in Objects
    BY <1>4, <2>1 DEF Charge
  <2>3. t.queue = Refund(s, P).queue /\ t.pennies = Refund(s, P).pennies
    BY <1>1, <1>6
  <2>4. /\ Charge(t) \in SUBSET (Charge(s) \ P)
        /\ \A e \in Charge(t) : t.queue_map[e].executor = s.queue_map[e].executor
    BY <1>4, <1>5 DEF Charge
  <2>5. t.owner = s.owner /\ t.powers = s.powers /\ t.garbage = s.garbage
    BY <1>1 DEF Database
  <2> HIDE DEF P
  <2>6. Balanced(t)
    BY <1>2, <2>2, <2>3, <2>4, <2>5, RefundBalanced
  <2> QED BY <2>6 DEF t
<1>7. CASE ~RealGood(s, s.queue_map[p].executor)
  <2>1. Balanced(t)
    BY <1>1, <1>2, <1>4, <1>5, <1>7, BalancedMoves
  <2> QED BY <2>1 DEF t
<1> QED BY <1>6, <1>7

\* shutdown_queues() refunds what has an executor.
LEMMA ShutdownBalanced ==
  ASSUME NEW s, Good(s), Balanced(s)
  PROVE  Balanced(shutdown_queues(s))
<1> DEFINE P == {p \in Listed(s) : RealGood(s, s.queue_map[p].executor)}
           t == shutdown_queues(s)
<1>1. /\ t.qfirst = << >> /\ t.qwait = << >> /\ t.qsem = << >>
      /\ Database(t) = Database(s)
      /\ t.queue = Refund(s, P).queue /\ t.pennies = Refund(s, P).pennies
  BY ShutdownEffect
<1>2. s \in State /\ t \in State
  BY ShutdownGood DEF Good
<1>3. P \in SUBSET Charge(s) /\ \A p \in P : s.queue_map[p].executor \in Objects
  BY ObjectFacts DEF Charge, RealGood
<1> HIDE DEF P, t
<1>4. Listed(t) = {}
  <2>1. Range(<< >>) = {}
    BY DEF Range
  <2> QED BY <1>1, <2>1 DEF Listed
<1>5. /\ Charge(t) \in SUBSET (Charge(s) \ P)
      /\ \A p \in Charge(t) : t.queue_map[p].executor = s.queue_map[p].executor
  BY <1>4 DEF Charge
<1>6. t.owner = s.owner /\ t.powers = s.powers /\ t.garbage = s.garbage
  BY <1>1 DEF Database
<1>7. Balanced(t)
  BY <1>1, <1>2, <1>3, <1>5, <1>6, RefundBalanced
<1> QED BY <1>7 DEF t

\* @halt/pid returns the deposit of a waiter it frees, and no count.
LEMMA HaltPidBalanced ==
  ASSUME NEW s, Good(s), Sound(s), Balanced(s), NEW pid \in DOMAIN s.queue_map,
         Good(do_haltpid(s, pid))
  PROVE  Balanced(do_haltpid(s, pid))
<1> DEFINE e == s.queue_map[pid]
           t == do_haltpid(s, pid)
<1>0. PidHalted(s, pid, t)
  BY HaltPidEffect
<1>1. /\ t.qfirst = s.qfirst /\ t.qwait = s.qwait /\ t.running = s.running
      /\ Database(t) = Database(s) /\ t.queue = s.queue
      /\ \A p \in DOMAIN s.queue_map \ {pid} : t.queue_map[p] = s.queue_map[p]
  BY <1>0 DEF PidHalted
<1>2. /\ s \in State /\ Linked(s) /\ t \in State /\ Linked(t) /\ Good(t)
      /\ e \in MQUE /\ pid \in PID
  BY QMapFacts DEF Good, State
<1>3. CASE e.semaphore_attr = NULL
  <2>1. t.qsem = s.qsem /\ t.pennies = s.pennies
        /\ t.queue_map[pid] = [e EXCEPT !.executor = NOTHING]
    BY <1>0, <1>3 DEF PidHalted
  <2> HIDE DEF t
  <2>2. Listed(t) = Listed(s) /\ Listed(s) \subseteq DOMAIN s.queue_map
    BY <1>1, <1>2, <2>1 DEF Listed, Linked
  <2>3. t.queue_map[pid].executor = NOTHING
    BY <1>2, <2>1 DEF MQUE
  <2>4. \A p \in Listed(t) : t.queue_map[p].executor
                               \in {s.queue_map[p].executor, NOTHING}
    BY <1>1, <2>2, <2>3
  <2>5. Balanced(t)
    BY <1>1, <1>2, <2>1, <2>2, <2>4, BalancedMoves
  <2> QED BY <2>5 DEF t
<1>4. CASE e.semaphore_attr # NULL
  <2>1. /\ Range(t.qsem) = Range(s.qsem) \ {pid}
        /\ DOMAIN t.queue_map = DOMAIN s.queue_map \ {pid}
        /\ t.pennies = IF e.executor = NOTHING THEN s.pennies
                       ELSE giveto(s, e.executor, QUEUE_COST).pennies
    BY <1>0, <1>4 DEF PidHalted
  <2> HIDE DEF t
  <2>2. pid \in Range(s.qsem)
    BY <1>1, <1>2, <2>1 DEF Linked, Listed
  <2>3. /\ e.executor # NOTHING /\ e.executor \in Objects
        /\ pid \in Charge(s) /\ t.pennies = giveto(s, e.executor, QUEUE_COST).pennies
    <3>1. e.executor # NOTHING
      BY <2>2 DEF Sound, Live
    <3> QED BY <1>2, <2>1, <2>2, <3>1 DEF MQUE, Charge, Listed
  <2>4. pid \notin Listed(t) /\ Listed(t) \subseteq Listed(s)
        /\ Listed(t) \subseteq DOMAIN s.queue_map
    BY <1>1, <1>2, <2>1, <2>2 DEF Listed, Linked, Disjoint
  <2>5. /\ Charge(t) \in SUBSET (Charge(s) \ {pid})
        /\ \A p \in Charge(t) : t.queue_map[p].executor = s.queue_map[p].executor
    BY <1>1, <2>4 DEF Charge
  <2>6. t.owner = s.owner /\ t.powers = s.powers /\ t.garbage = s.garbage
    BY <1>1 DEF Database
  <2>7. SelfOwned(t) /\ (EveryonePays => AllPay(t))
    BY <2>6, SameDatabase
  <2>8. QUEUE_PER_OWNER => Counted(t)
    <3> SUFFICES ASSUME QUEUE_PER_OWNER PROVE Counted(t)
      OBVIOUS
    <3>1. Counted(s)
      BY DEF Balanced
    <3>2. Charge(t) \in SUBSET Charge(s) /\ Charge(s) \in SUBSET PID
      BY <1>2, <2>5, ChargeFacts
    <3>3. /\ Cardinality(Charge(t)) <= Cardinality(Charge(s))
          /\ Cardinality(Charge(t)) \in Nat /\ Cardinality(Charge(s)) \in Nat
      BY <3>2, PidsFinite, FS_Subset
    <3>4. SumFunction(s.queue) \in Int
      BY <1>2, ChargeFacts
    <3> QED BY <1>1, <3>1, <3>3, <3>4 DEF Counted
  <2>9. EveryonePays => Funded(t)
    <3> SUFFICES ASSUME EveryonePays PROVE Funded(t)
      OBVIOUS
    <3> DEFINE x == e.executor
               pl == s.owner[x]
    <3>1. Funded(s)
      BY DEF Balanced
    <3>2. pl \in Players /\ s.pennies \in [Players -> Int]
      BY <1>2, <2>3 DEF State
    <3>3. CASE NoPay(s, x)
      <4>1. t.pennies = s.pennies
        BY <2>3, <3>3 DEF giveto
      <4>2. \A q \in Players : t.pennies[q] <= s.pennies[q]
        BY <3>2, <4>1
      <4>3. Owed(t) \in SUBSET Owed(s)
        BY <2>5 DEF Owed
      <4> QED BY <1>2, <3>1, <4>2, <4>3, FundedSame
    <3>4. CASE ~NoPay(s, x)
      <4> DEFINE R == {pid}
                 N == [q \in Players |-> IF q = pl THEN R ELSE {}]
      <4>1. x # GOD
        BY <1>2, <3>4, WhoPays
      <4>2. R \in SUBSET Owed(s) /\ Owed(t) \in SUBSET (Owed(s) \ R)
        BY <2>3, <2>5, <4>1 DEF Owed
      <4>3. Shares(Players, R, N)
        BY DEF Shares
      <4>4. t.pennies = [s.pennies EXCEPT ![pl] = Capped(@ + QUEUE_COST)]
        BY <1>2, <2>3, <3>4 DEF giveto, State
      <4>5. Cardinality(R) = 1 /\ Cardinality({}) = 0
        BY FS_Singleton, FS_EmptySet
      <4>6. QUEUE_COST * 1 = QUEUE_COST /\ QUEUE_COST * 0 = 0 /\ QUEUE_COST \in Nat
        BY Finite
      <4> HIDE DEF pl, R
      <4>7. \A q \in Players : QUEUE_COST * Cardinality(N[q]) =
              IF q = pl THEN QUEUE_COST ELSE 0
        BY <4>5, <4>6
      <4> HIDE DEF N
      <4>8. Capped(s.pennies[pl] + QUEUE_COST) <= s.pennies[pl] + QUEUE_COST
        BY <3>2, <4>6, CappedBelow
      <4>9. \A q \in Players :
              t.pennies[q] <= s.pennies[q] + QUEUE_COST * Cardinality(N[q])
        BY <3>2, <4>4, <4>6, <4>7, <4>8
      <4> QED BY <1>2, <3>1, <4>2, <4>3, <4>9, FundedLeft
    <3> QED BY <3>3, <3>4
  <2>10. Balanced(t)
    BY <2>7, <2>8, <2>9 DEF Balanced
  <2> QED BY <2>10 DEF t
<1> QED BY <1>3, <1>4


\* One object is halted.
LEMMA HaltOneBalanced ==
  ASSUME NEW s, Good(s), Balanced(s), NEW v \in Objects
  PROVE  LET t == do_halt(s, {v})
         IN  Good(t) /\ Balanced(t) /\ t.garbage = s.garbage
<1> DEFINE V == {v}
<1>1. V \in SUBSET Objects /\ Separate(s, V)
  BY SeparateVictims
<1> HIDE DEF V
<1>2. Balanced(do_halt(s, V))
  BY <1>1, HaltBalanced
<1>3. Good(do_halt(s, V))
  BY HaltGood
<1>4. do_halt(s, V).garbage = s.garbage
  BY HaltEffect DEF Good, Database
<1> QED BY <1>2, <1>3, <1>4 DEF V

\* The STARTUPs of live things.
LEMMA RawRestartBalanced ==
  ASSUME NEW s, Good(s), Balanced(s), NEW R, NEW loss \in [Objects -> LossChoices]
  PROVE  Balanced(do_raw_restart(s, R, loss))
<1> DEFINE F == Restarts(s, R, loss)
<1>0. db_top \in Nat
  BY ConfigAssumption
<1>1. do_raw_restart(s, R, loss) = F[db_top]
  BY DEF do_raw_restart, Restarted, Restarts
<1>2. F = [i \in 0..db_top |-> Restarted(s, R, loss, F, i)]
  BY RestartsDefined
<1> HIDE DEF F
<1> DEFINE ok == {n \in Nat : n <= db_top => Good(F[n]) /\ Balanced(F[n])}
<1>3. 0 \in ok
  BY <1>0, <1>2 DEF Restarted
<1>4. ASSUME NEW n \in Nat, n \in ok PROVE n + 1 \in ok
  <2> SUFFICES ASSUME n + 1 <= db_top
               PROVE  Good(F[n + 1]) /\ Balanced(F[n + 1])
    OBVIOUS
  <2>1. Good(F[n]) /\ Balanced(F[n])
    BY <1>0, <1>4
  <2>2. n \in Objects /\ n + 1 \in 0..db_top /\ n + 1 # 0 /\ (n + 1) - 1 = n
    BY <1>0 DEF Objects
  <2>3. loss[n] \in {0, 1}
    BY <2>2, LossType
  <2>4. \/ F[n + 1] = F[n]
        \/ n \notin F[n].garbage /\ F[n + 1] = insert_que(F[n], n, loss[n])
    BY <1>2, <2>2 DEF Restarted
  <2> QED BY <2>1, <2>2, <2>3, <2>4, InsertQueGood, InsertQueBalanced
<1> HIDE DEF ok
<1>5. Nat \subseteq ok
  BY <1>3, <1>4, NatSetInduction
<1> QED BY <1>0, <1>1, <1>5 DEF ok

\* @restart.
LEMMA RestartBalanced ==
  ASSUME NEW s, Good(s), Balanced(s), NEW v \in Objects,
         NEW loss \in [Objects -> LossChoices]
  PROVE  Balanced(do_restart_com(s, v, loss))
<1> DEFINE R == IF v \in Players THEN {x \in Objects : s.owner[x] = v} ELSE {v}
           h == do_halt(s, {v})
<1>1. Good(h) /\ Balanced(h)
  BY HaltOneBalanced
<1>2. do_restart_com(s, v, loss) = do_raw_restart(h, R, loss)
  BY DEF do_restart_com
<1> HIDE DEF h, R
<1> QED BY <1>1, <1>2, RawRestartBalanced

\* @halt.
LEMMA Halt1Balanced ==
  ASSUME NEW s, Good(s), Balanced(s), NEW v \in Objects \ s.garbage, NEW ncom,
         NEW loss \in {0, 1}
  PROVE  Balanced(do_halt1(s, v, ncom, loss))
<1> DEFINE t == do_halt(s, {v})
           H == t.halted \cup {v}
<1>1. Good(t) /\ Balanced(t) /\ t.garbage = s.garbage
  BY HaltOneBalanced
<1>2. \/ do_halt1(s, v, ncom, loss) = insert_que(t, v, loss)
      \/ do_halt1(s, v, ncom, loss) = [t EXCEPT !.halted = H]
      \/ do_halt1(s, v, ncom, loss) = t
  BY DEF do_halt1
<1> HIDE DEF t
<1>3. H \in SUBSET Objects
  BY <1>1 DEF Good, State
<1> HIDE DEF H
<1>4. Balanced(insert_que(t, v, loss)) /\ Balanced([t EXCEPT !.halted = H])
  BY <1>1, <1>3, InsertQueBalanced, FlagBalanced
<1> QED BY <1>1, <1>2, <1>4

\* @chown: the entries stay charged, and the money stays where it is.
LEMMA ChownBalanced ==
  ASSUME NEW s, Good(s), Balanced(s), NEW thing \in Things \ s.garbage,
         NEW new \in NewOwners, NEW preserve
  PROVE  Balanced(chown_object(s, thing, new, preserve))
<1> DEFINE t == Chowned(s, thing, new)
           u == ChownedStripped(s, thing, new)
<1>0. thing \in Objects /\ thing \notin Players /\ new \in Players
      /\ (EveryonePays => new # GOD)
  BY BoundAssumption DEF Things, EveryonePays
<1>1. /\ Good(t) /\ Good(u) /\ Lists(t) = Lists(s) /\ Lists(u) = Lists(s)
      /\ t.garbage = s.garbage /\ u.garbage = s.garbage
      /\ t.queue = s.queue /\ u.queue = s.queue
      /\ t.pennies = s.pennies /\ u.pennies = s.pennies
      /\ t.powers = s.powers
      /\ u.powers = With(s.powers, thing, {})
      /\ t.owner = With(s.owner, thing, new) /\ u.owner = t.owner
      /\ \/ chown_object(s, thing, new, preserve) = t
         \/ chown_object(s, thing, new, preserve) = do_halt(u, {thing})
  BY <1>0, ChownSteps
<1> HIDE DEF t, u
<1>2. s \in State /\ t \in State /\ u \in State
  BY <1>1 DEF Good
<1>3. /\ \A x \in Objects : x # thing => t.owner[x] = s.owner[x]
      /\ t.owner[thing] = new
      /\ \A x \in Objects : u.powers[x] \subseteq s.powers[x]
  BY <1>0, <1>1, <1>2 DEF With, State
<1>4. SelfOwned(t) /\ SelfOwned(u)
  BY <1>0, <1>1, <1>3, Finite DEF Balanced, SelfOwned
<1>5. EveryonePays => AllPay(t) /\ AllPay(u)
  BY <1>0, <1>1, <1>3 DEF Balanced, AllPay
<1>6. \A pl \in Players : t.pennies[pl] <= s.pennies[pl] /\ u.pennies[pl] <= s.pennies[pl]
  BY <1>1, <1>2 DEF State
<1>7. /\ Charge(t) = Charge(s) /\ Charge(u) = Charge(s)
      /\ t.queue_map = s.queue_map /\ u.queue_map = s.queue_map
  BY <1>1, SameCharge DEF Lists
<1>8. Balanced(t)
  BY <1>1, <1>2, <1>4, <1>5, <1>6, <1>7, BalancedSame
<1>9. Balanced(u)
  BY <1>1, <1>2, <1>4, <1>5, <1>6, <1>7, BalancedSame
<1>10. Balanced(do_halt(u, {thing}))
  BY <1>0, <1>1, <1>9, HaltOneBalanced
<1> QED BY <1>1, <1>8, <1>10

\* A destroyed object has no count of its own when counts are per owner.
LEMMA FreeObjectBalanced ==
  ASSUME NEW s, Good(s), Sound(s), Balanced(s), NEW thing \in Things,
         NEW loss \in {0, 1}
  PROVE  Balanced(free_object(s, thing, loss))
<1> DEFINE e == queue_event(s, loss)
           h == do_halt(e, {thing})
           t == DrainAll(h, thing, NULL)
           u == free_object(s, thing, loss)
<1>0. thing \in Objects /\ thing \notin Players
  BY DEF Things
<1>1. Good(e) /\ Good(h) /\ Good(t) /\ Destroyed(t, thing, u) /\ Good(u)
  BY <1>0, FreeObjectSteps, FreeObjectGood
<1>2. Sound(e) /\ Balanced(e)
  BY QueueEventSound, QueueEventBalanced
<1> HIDE DEF e
<1>3. Sound(h) /\ Balanced(h)
  BY <1>0, <1>1, <1>2, HaltSound, HaltOneBalanced
<1> HIDE DEF h
<1>4. Balanced(t)
  BY <1>1, <1>3, DrainAllBalanced
<1> HIDE DEF t, u
<1>5. t \in State /\ u \in State
  BY <1>1 DEF Good
<1>6. /\ Lists(u) = Lists(t) /\ u.garbage = t.garbage \cup {thing}
      /\ u.pennies = t.pennies
      /\ \A x \in Objects : x # thing => u.owner[x] = t.owner[x]
      /\ \A x \in Objects : u.powers[x] \subseteq t.powers[x]
      /\ u.queue = With(t.queue, thing, 0)
  BY <1>0, <1>1, <1>5 DEF Destroyed, With, State
<1>7. Charge(u) = Charge(t) /\ Owed(u) = Owed(t)
  BY <1>6, SameCharge
<1>8. SelfOwned(u)
  BY <1>0, <1>4, <1>6, Finite DEF Balanced, SelfOwned
<1>9. EveryonePays => AllPay(u)
  BY <1>4, <1>6 DEF Balanced, AllPay
<1>10. QUEUE_PER_OWNER => Counted(u)
  <2> SUFFICES ASSUME QUEUE_PER_OWNER PROVE Counted(u)
    OBVIOUS
  <2>1. Counted(t)
    BY <1>4 DEF Balanced
  <2>2. t.queue[thing] = 0 /\ t.queue \in [Objects -> Int]
    BY <1>5, <2>1 DEF Counted, State
  <2>3. With(t.queue, thing, 0) = t.queue
    BY <1>0, <2>2 DEF With
  <2>4. u.queue = t.queue
    BY <1>6, <2>3
  <2> QED BY <1>7, <2>1, <2>4 DEF Counted
<1>11. EveryonePays => Funded(u)
  BY <1>4, <1>6, <1>7 DEF Balanced, Funded
<1> QED BY <1>8, <1>9, <1>10, <1>11 DEF Balanced, u

\* Each operation keeps the accounts right, unless it leaves an entry dangling.
LEMMA OperationBalanced ==
  ASSUME mudtime \in Int, NEW s, Good(s), Sound(s), Balanced(s), NEW t, Good(t),
         Operation(s, t)
  PROVE  Balanced(t)
<1>1. CASE \E x \in Objects \ s.garbage, loss \in {0, 1} : t = insert_que(s, x, loss)
  BY <1>1, InsertQueBalanced
<1>2. CASE \E loss \in {0, 1} : t = queue_event(s, loss)
  BY <1>2, QueueEventBalanced
<1>3. CASE \E x \in Objects \ s.garbage, n \in Int, until \in BOOLEAN, loss \in {0, 1} :
             t = wait_que(s, x, n, NOTHING, NULL, until, loss)
  <2>1. NOTHING \in Objects \cup {NOTHING} /\ NULL \in Attrs \cup {NULL}
    OBVIOUS
  <2>2. PICK x \in Objects \ s.garbage, n \in Int, until \in BOOLEAN,
             loss \in {0, 1} : t = wait_que(s, x, n, NOTHING, NULL, until, loss)
    BY <1>3
  <2>3. Balanced(wait_que(s, x, n, NOTHING, NULL, until, loss))
    BY <2>1, WaitQueBalanced
  <2> QED BY <2>2, <2>3
<1>4. CASE \E x \in Objects \ s.garbage, obj \in Objects, attr \in Attrs, n \in Int,
              until \in BOOLEAN, loss \in {0, 1} :
             t = do_wait(s, x, obj, attr, n, until, loss)
  BY <1>4, DoWaitBalanced
<1>5. CASE \E pid \in DOMAIN s.queue_map, mode \in {"until", "adjust", "set"},
              n \in Int : t = do_waitpid(s, pid, mode, n)
  BY <1>5, WaitPidBalanced
<1>6. CASE \E pid \in DOMAIN s.queue_map : t = do_haltpid(s, pid)
  BY <1>6, HaltPidBalanced
<1>7. CASE \E v \in Objects \ s.garbage, ncom \in BOOLEAN, loss \in {0, 1} :
             t = do_halt1(s, v, ncom, loss)
  BY <1>7, Halt1Balanced
<1>8. CASE t = do_halt(s, Players)
  BY <1>8, Finite, SeparateVictims, HaltBalanced
<1>9. CASE \E v \in Objects \ s.garbage, loss \in [Objects -> LossChoices] :
             t = do_restart_com(s, v, loss)
  BY <1>9, RestartBalanced
<1>10. CASE \E obj \in Objects, attr \in Attrs \cup {NULL} : Notifies(s, obj, attr, t)
  BY <1>10, NotifiesBalanced
<1>11. CASE \E ps : PartOfSem(s, ps) /\ t = Discard(s, ps)
  BY <1>11, DiscardBalanced
<1>12. CASE \E obj \in Objects, attr \in Attrs \cup {NULL} : t = DrainAll(s, obj, attr)
  BY <1>12, DrainAllBalanced
<1>13. CASE \E H \in SUBSET Objects : t = [s EXCEPT !.halted = H]
  BY <1>13, FlagBalanced
<1>14. CASE \E thing \in Things \ s.garbage, new \in NewOwners, preserve \in BOOLEAN :
              t = chown_object(s, thing, new, preserve)
  BY <1>14, ChownBalanced
<1>15. CASE \E thing \in Things \ s.garbage, loss \in {0, 1} :
              t = free_object(s, thing, loss)
  BY <1>15, FreeObjectBalanced
<1>16. CASE t = s
  BY <1>16
<1>17. CASE t = queue_update(s)
  BY <1>17, QueueUpdateBalanced
<1>18. CASE s.qfirst # << >> /\ t = do_top(s)
  BY <1>18, DoTopBalanced
<1>19. CASE s.running # << >> /\ t = EndOfEntry(s)
  BY <1>19, EndOfEntryBalanced
<1>20. CASE t = shutdown_queues(s)
  BY <1>20, ShutdownBalanced
<1> QED
  BY <1>1, <1>2, <1>3, <1>4, <1>5, <1>6, <1>7, <1>8, <1>9, <1>10, <1>11, <1>12,
     <1>13, <1>14, <1>15, <1>16, <1>17, <1>18, <1>19, <1>20 DEF Operation

\* Unless an entry dangles, the accounts are right.
BalanceInv == ~Dangles(St) => Balanced(St)

\* It needs SoundInv: a waiter without an executor would be refunded to
\* nobody, and an entry of a destroyed object to God.
LEMMA BalanceInvariance == Spec => []BalanceInv
<1>1. Init => BalanceInv
  <2> SUFFICES ASSUME Init PROVE Balanced(St)
    BY DEF BalanceInv
  <2>1. /\ St.qfirst = << >> /\ St.qwait = << >> /\ St.qsem = << >>
        /\ St.queue = [x \in Objects |-> 0] /\ St.pennies = InitPennies
        /\ St.owner = InitOwner /\ St.powers = InitPowers
    BY DEF Init, St
  <2>2. Charge(St) = {} /\ Owed(St) = {}
    <3>1. Range(<< >>) = {}
      BY DEF Range
    <3>2. Listed(St) = {}
      BY <2>1, <3>1 DEF Listed
    <3> QED BY <3>2 DEF Charge, Owed
  <2>3. SelfOwned(St)
    BY <2>1, ConfigAssumption DEF SelfOwned
  <2>4. Counted(St)
    <3>1. SumFunction([x \in Objects |-> 0]) = 0
      BY Finite, SumZero
    <3>2. Cardinality(Charge(St)) = 0
      BY <2>2, FS_EmptySet
    <3>3. 0 <= 0
      OBVIOUS
    <3>4. Cardinality(Charge(St)) <= SumFunction(St.queue)
      BY <2>1, <3>1, <3>2, <3>3
    <3>5. \A x \in Things : St.queue[x] = 0
      BY <2>1 DEF Things
    <3> QED BY <3>4, <3>5 DEF Counted
  <2>5. EveryonePays => AllPay(St)
    BY <2>1 DEF EveryonePays, AllPay
  <2>6. Funded(St)
    <3>1. QUEUE_COST * Cardinality(Owed(St)) = 0
      BY <2>2, FS_EmptySet, Finite, TimesFacts
    <3>2. SumFunction(InitPennies) \in Int
      BY Finite
    <3>3. SumFunction(InitPennies) + 0 <= SumFunction(InitPennies)
      BY <3>2
    <3> QED BY <2>1, <3>1, <3>3 DEF Funded
  <2> QED BY <2>3, <2>4, <2>5, <2>6 DEF Balanced
<1>2. IInv /\ IInv' /\ SoundInv /\ BalanceInv /\ [Next]_vars => BalanceInv'
  <2> SUFFICES ASSUME IInv, IInv', SoundInv, BalanceInv, [Next]_vars PROVE BalanceInv'
    OBVIOUS
  <2>1. CASE Next
    <3>1. Good(St) /\ Operation(St, St') /\ mudtime \in Int
      BY <2>1, NextOperation DEF IInv
    <3>2. Sound(St) /\ Balanced(St)
      BY <3>1 DEF SoundInv, BalanceInv, Dangles, Good, Linked
    <3>3. \A t : Good(t) /\ Operation(St, t) => Balanced(t)
      BY <3>1, <3>2, OperationBalanced
    <3>4. Dangles(St') \/ Good(St')
      <4>1. \A t : t \in State /\ Ordered(t) => Dangles(t) \/ Good(t)
        BY DEF Ordered, Good
      <4> QED BY <4>1 DEF IInv
    <3>5. Dangles(St') \/ Balanced(St')
      BY <3>1, <3>3, <3>4
    <3> QED BY <3>5 DEF BalanceInv
  <2>2. CASE UNCHANGED vars
    <3>1. St' = St
      BY <2>2 DEF vars, St
    <3>2. \A s, t : s = t /\ (~Dangles(s) => Balanced(s)) => (~Dangles(t) => Balanced(t))
      OBVIOUS
    <3> QED BY <3>1, <3>2 DEF BalanceInv
  <2> QED BY <2>1, <2>2
<1> QED BY <1>1, <1>2, Invariance, SoundInvariance, PTL DEF Spec

\* With a count per owner, the counts together never fall below the entries
\* they stand for: no path of the queue code gives a count back twice.
THEOREM CountsKept == Spec => []CountCovered
<1>1. BalanceInv => CountCovered
  <2> SUFFICES ASSUME BalanceInv, ~Dangling, QUEUE_PER_OWNER
               PROVE  SumFunction(queue) >= Cardinality(Charged)
    BY DEF CountCovered
  <2>1. Counted(St)
    BY DEF BalanceInv, Dangles, Dangling, Balanced, Listed, St
  <2>2. Charge(St) = Charged /\ St.queue = queue
    BY DEF Charge, Charged, St, Listed
  <2> QED BY <2>1, <2>2 DEF Counted
<1> QED BY <1>1, BalanceInvariance, PTL

\* When everyone pays, the players' money and the deposits of the entries
\* together never exceed what the players started with: no path of the queue
\* code returns a deposit twice.
THEOREM DepositsKept == Spec => []MoneyConserved
<1>1. BalanceInv => MoneyConserved
  <2> SUFFICES ASSUME BalanceInv, ~Dangling, EveryonePays
               PROVE  SumFunction(pennies)
                        + QUEUE_COST * Cardinality({p \in Charged : queue_map[p].executor # GOD})
                        <= SumFunction(InitPennies)
    BY DEF MoneyConserved
  <2>1. Funded(St)
    BY DEF BalanceInv, Dangles, Dangling, Balanced, Listed, St
  <2>2. /\ Owed(St) = {p \in Charged : queue_map[p].executor # GOD}
        /\ St.pennies = pennies
    BY DEF Charge, Owed, Charged, St, Listed
  <2> QED BY <2>1, <2>2 DEF Funded
<1> QED BY <1>1, BalanceInvariance, PTL

=============================================================================
