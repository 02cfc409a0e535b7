---------------------- MODULE CommandQueueOrderProofs ----------------------
(***************************************************************************)
(* What a step may never do to the command queues, for every database and  *)
(* every configuration: the command queue is first in, first out, nothing  *)
(* leaves the wait queue early, and no later waiter of a semaphore is      *)
(* notified before an earlier one.                                         *)
(***************************************************************************)
EXTENDS CommandQueueProofs

\* The lists and the entry table; the fields of the object database.
Lists(s) == <<s.qfirst, s.qwait, s.qsem, s.running, s.queue_map>>
Database(s) == <<s.owner, s.powers, s.halted, s.garbage>>

-----------------------------------------------------------------------------
\* What the operations leave alone.

\* giveto() changes pennies only.
LEMMA GivetoEffect ==
  ASSUME NEW s \in State, NEW x, NEW n
  PROVE  /\ Lists(giveto(s, x, n)) = Lists(s)
         /\ Database(giveto(s, x, n)) = Database(s)
         /\ giveto(s, x, n).sem = s.sem /\ giveto(s, x, n).queue = s.queue
BY DEF giveto, State, Lists, Database

\* add_to() changes one count only.
LEMMA AddToEffect ==
  ASSUME NEW s \in State, NEW x, NEW am
  PROVE  /\ Lists(add_to(s, x, am)) = Lists(s)
         /\ Database(add_to(s, x, am)) = Database(s)
         /\ add_to(s, x, am).sem = s.sem /\ add_to(s, x, am).pennies = s.pennies
         /\ add_to(s, x, am).queue = [s.queue EXCEPT ![Counter(s, x)] = @ + am]
BY DEF add_to, State, Lists, Database

\* add_to_sem() changes one semaphore only.
LEMMA AddToSemEffect ==
  ASSUME NEW s \in State, NEW k, NEW am
  PROVE  /\ Lists(add_to_sem(s, k, am)) = Lists(s)
         /\ Database(add_to_sem(s, k, am)) = Database(s)
         /\ add_to_sem(s, k, am).queue = s.queue
         /\ add_to_sem(s, k, am).pennies = s.pennies
         /\ add_to_sem(s, k, am).sem = [s.sem EXCEPT ![k] = @ + am]
BY DEF add_to_sem, State, Lists, Database

\* do_halt() leaves the command queue and the database alone.
LEMMA HaltEffect ==
  ASSUME NEW s \in State, NEW V
  PROVE  /\ do_halt(s, V).qfirst = s.qfirst
         /\ do_halt(s, V).running = s.running
         /\ Database(do_halt(s, V)) = Database(s)
BY DEF do_halt, State, Database

\* What x has left when it pays n, unless it need not pay.
Spent(s, x, n) ==
  IF NoPay(s, x) THEN s.pennies ELSE [s.pennies EXCEPT ![s.owner[x]] = @ - n]

\* The payment that pay_queue() takes before it counts.
Payed(s, x, n) ==
  IF NoPay(s, x) THEN s ELSE [s EXCEPT !.pennies[s.owner[x]] = @ - n]

\* A payment that x can afford changes pennies only.
LEMMA SpendEffect ==
  ASSUME NEW s, Good(s), NEW x \in Objects, NEW n \in Nat,
         ~NoPay(s, x) => ~(s.pennies[s.owner[x]] < n)
  PROVE  /\ Good(Payed(s, x, n)) /\ Lists(Payed(s, x, n)) = Lists(s)
         /\ Database(Payed(s, x, n)) = Database(s)
         /\ Payed(s, x, n).sem = s.sem /\ Payed(s, x, n).queue = s.queue
         /\ Payed(s, x, n).pennies = Spent(s, x, n)
<1> DEFINE t == Payed(s, x, n)
<1>1. s \in State /\ s.owner[x] \in Players
  BY DEF Good, State
<1>2. CASE NoPay(s, x)
  BY <1>2 DEF Spent, Payed
<1>3. CASE ~NoPay(s, x)
  <2> DEFINE mo == [s.pennies EXCEPT ![s.owner[x]] = @ - n]
  <2>1. s.pennies[s.owner[x]] \in 0..MAX_PENNIES
    BY <1>1 DEF State
  <2>2. s.pennies[s.owner[x]] - n \in 0..MAX_PENNIES
    BY <1>3, <2>1, ConfigAssumption
  <2>3. mo \in [Players -> 0..MAX_PENNIES] /\ t = [s EXCEPT !.pennies = mo]
    BY <1>1, <1>3, <2>2 DEF State, Payed
  <2>4. mo = Spent(s, x, n)
    BY <1>3 DEF Spent
  <2> HIDE DEF mo, t
  <2>5. t \in State
    BY <1>1, <2>3 DEF State
  <2>6. Good(t)
    BY <1>1, <2>3, <2>5, SameLists DEF State
  <2> QED
    BY <1>1, <2>3, <2>4, <2>6 DEF State, Lists, Database, t
<1> QED
  BY <1>2, <1>3

\* Counting an entry and taking it back, in any state of the same database.
LEMMA CountEffect ==
  ASSUME NEW s, Good(s), NEW x \in Objects, NEW am \in Int
  PROVE  /\ Good(add_to(s, x, am)) /\ Lists(add_to(s, x, am)) = Lists(s)
         /\ Database(add_to(s, x, am)) = Database(s)
         /\ add_to(s, x, am).sem = s.sem /\ add_to(s, x, am).pennies = s.pennies
         /\ add_to(s, x, am).queue = [s.queue EXCEPT ![Counter(s, x)] = @ + am]
<1>1. s \in State
  BY DEF Good
<1>2. Good(add_to(s, x, am))
  BY AddToType
<1> QED
  BY <1>1, <1>2, AddToEffect

\* Whether and how much x pays depends on the database only.
LEMMA SamePayer ==
  ASSUME NEW s, NEW t, Database(t) = Database(s), NEW x
  PROVE  /\ NoPay(t, x) = NoPay(s, x) /\ Counter(t, x) = Counter(s, x)
         /\ t.owner = s.owner /\ t.powers = s.powers
         /\ t.halted = s.halted /\ t.garbage = s.garbage
BY DEF Database, NoPay, FreeOfCharge, Counter

\* A payment undone leaves the payer without the queue loss.
LEMMA GiveBack ==
  ASSUME NEW s, Good(s), NEW x \in Objects, NEW loss \in {0, 1},
         ~NoPay(s, x) => ~(s.pennies[s.owner[x]] < QUEUE_COST + loss),
         NEW t, Good(t), Database(t) = Database(s),
         t.pennies = Spent(s, x, QUEUE_COST + loss)
  PROVE  giveto(t, x, QUEUE_COST).pennies = Spent(s, x, loss)
<1>1. s \in State /\ t \in State /\ s.owner[x] \in Players
  BY DEF Good, State
<1>2. t.owner = s.owner /\ NoPay(t, x) = NoPay(s, x)
  BY SamePayer
<1>3. CASE NoPay(s, x)
  BY <1>2, <1>3 DEF giveto, Spent
<1>4. CASE ~NoPay(s, x)
  <2> DEFINE pl == s.owner[x]
  <2>1. t.pennies = [s.pennies EXCEPT ![pl] = @ - (QUEUE_COST + loss)]
    BY <1>4 DEF Spent
  <2>2. /\ s.pennies \in [Players -> 0..MAX_PENNIES]
        /\ s.pennies[pl] \in 0..MAX_PENNIES
    BY <1>1 DEF State
  <2>3. t.pennies[pl] = s.pennies[pl] - (QUEUE_COST + loss)
    BY <1>1, <2>1, <2>2
  <2>4. t.pennies[pl] + QUEUE_COST = s.pennies[pl] - loss
        /\ s.pennies[pl] - loss <= MAX_PENNIES
    BY <2>2, <2>3, ConfigAssumption
  <2>5. Capped(t.pennies[pl] + QUEUE_COST) = s.pennies[pl] - loss
    BY <2>2, <2>4, ConfigAssumption DEF Capped
  <2>6. giveto(t, x, QUEUE_COST).pennies =
          [t.pennies EXCEPT ![pl] = Capped(t.pennies[pl] + QUEUE_COST)]
    BY <1>1, <1>2, <1>4 DEF giveto, State
  <2>7. giveto(t, x, QUEUE_COST).pennies = [t.pennies EXCEPT ![pl] = s.pennies[pl] - loss]
    BY <2>5, <2>6
  <2> QED
    BY <1>1, <1>4, <2>1, <2>2, <2>7 DEF Spent
<1> QED
  BY <1>3, <1>4

\* t is s after x paid for an entry and was counted.
Paid(s, x, loss, t) ==
  /\ Lists(t) = Lists(s) /\ Database(t) = Database(s) /\ t.sem = s.sem
  /\ t.queue = [s.queue EXCEPT ![Counter(s, x)] = @ + 1]
  /\ t.pennies = Spent(s, x, QUEUE_COST + loss)

\* t is s after x was refused an entry: x could not pay, or it was over its
\* limit, lost the queue loss and was halted.
Refused(s, x, loss, t) ==
  \/ t = s
  \/ \E u : /\ Good(u) /\ Lists(u) = Lists(s) /\ Database(u) = Database(s)
            /\ u.sem = s.sem /\ u.queue = s.queue
            /\ u.pennies = Spent(s, x, loss)
            /\ t = [do_halt(u, {x}) EXCEPT !.halted = @ \cup {x}]

\* The outcomes of pay_queue().
LEMMA PayEffect ==
  ASSUME NEW s, Good(s), NEW x \in Objects, NEW loss \in {0, 1}
  PROVE  /\ pay_queue(s, x, loss).ok
              => Paid(s, x, loss, pay_queue(s, x, loss).s)
         /\ ~pay_queue(s, x, loss).ok
              => Refused(s, x, loss, pay_queue(s, x, loss).s)
<1> DEFINE cost == QUEUE_COST + loss
           pl == s.owner[x]
           payed == IF NoPay(s, x) THEN s ELSE [s EXCEPT !.pennies[pl] = @ - cost]
           count == add_to(payed, x, 1)
           g == giveto(count, x, QUEUE_COST)
           u == add_to(g, x, -1)
           poor == ~NoPay(s, x) /\ s.pennies[pl] < cost
           over == count.queue[Counter(s, x)] > QueueLimit(s, x)
<1>0. s \in State /\ pl \in Players
  BY DEF Good, State
<1>1. cost \in Nat /\ QUEUE_COST \in Nat
  BY ConfigAssumption
<1>2. /\ poor => pay_queue(s, x, loss) = [ok |-> FALSE, s |-> s]
      /\ ~poor /\ over => pay_queue(s, x, loss) =
           [ok |-> FALSE, s |-> [do_halt(u, {x}) EXCEPT !.halted = @ \cup {x}]]
      /\ ~poor /\ ~over => pay_queue(s, x, loss) = [ok |-> TRUE, s |-> count]
  BY DEF pay_queue
<1>3. CASE poor
  BY <1>2, <1>3 DEF Refused
<1>4. CASE ~poor
  <2>1. /\ Good(payed) /\ Lists(payed) = Lists(s) /\ Database(payed) = Database(s)
        /\ payed.sem = s.sem /\ payed.queue = s.queue
        /\ payed.pennies = Spent(s, x, cost)
    <3>1. payed = Payed(s, x, cost)
      BY DEF Payed
    <3>2. cost \in Nat /\ (~NoPay(s, x) => ~(s.pennies[s.owner[x]] < cost))
      BY <1>1, <1>4
    <3> HIDE DEF payed, cost
    <3> QED
      BY <3>1, <3>2, SpendEffect
  <2> HIDE DEF payed
  <2>2. Counter(payed, x) = Counter(s, x)
    BY <2>1, SamePayer
  <2>3. /\ Good(count) /\ Lists(count) = Lists(s) /\ Database(count) = Database(s)
        /\ count.sem = s.sem /\ count.pennies = Spent(s, x, cost)
        /\ count.queue = [s.queue EXCEPT ![Counter(s, x)] = @ + 1]
    <3>1. 1 \in Int
      OBVIOUS
    <3> QED
      BY <2>1, <2>2, <3>1, CountEffect
  <2> HIDE DEF count
  <2>4. count \in State
    BY <2>3 DEF Good
  <2>5. Good(g)
    BY <1>1, <2>3, GivetoType
  <2>6. Lists(g) = Lists(s) /\ Database(g) = Database(s)
        /\ g.sem = s.sem /\ g.queue = count.queue
    BY <2>3, <2>4, GivetoEffect
  <2>7. g.pennies = Spent(s, x, loss)
    BY <1>4, <2>3, GiveBack
  <2> HIDE DEF g
  <2>8. Counter(g, x) = Counter(s, x)
    BY <2>6, SamePayer
  <2>9. /\ Good(u) /\ Lists(u) = Lists(s) /\ Database(u) = Database(s)
        /\ u.sem = s.sem /\ u.pennies = Spent(s, x, loss)
        /\ u.queue = [count.queue EXCEPT ![Counter(s, x)] = @ + (-1)]
    <3>1. -1 \in Int
      OBVIOUS
    <3>2. /\ Good(u) /\ Lists(u) = Lists(g) /\ Database(u) = Database(g)
          /\ u.sem = g.sem /\ u.pennies = g.pennies
          /\ u.queue = [g.queue EXCEPT ![Counter(g, x)] = @ + (-1)]
      BY <2>5, <3>1, CountEffect
    <3> QED
      BY <2>6, <2>7, <2>8, <3>2
  <2>10. u.queue = s.queue
    <3>1. s.queue \in [Objects -> Int] /\ Counter(s, x) \in Objects
      BY <1>0, AddToType, 1 \in Int DEF State
    <3> HIDE DEF u
    <3> QED
      BY <2>3, <2>9, <3>1
  <2> HIDE DEF u
  <2>11. CASE over
    <3>1. pay_queue(s, x, loss) =
           [ok |-> FALSE, s |-> [do_halt(u, {x}) EXCEPT !.halted = @ \cup {x}]]
      BY <1>2, <1>4, <2>11
    <3>2. ~pay_queue(s, x, loss).ok
          /\ pay_queue(s, x, loss).s = [do_halt(u, {x}) EXCEPT !.halted = @ \cup {x}]
      BY <3>1
    <3> QED
      BY <2>9, <2>10, <3>2 DEF Refused
  <2>12. CASE ~over
    <3>1. pay_queue(s, x, loss) = [ok |-> TRUE, s |-> count]
      BY <1>2, <1>4, <2>12
    <3>2. pay_queue(s, x, loss).ok /\ pay_queue(s, x, loss).s = count
      BY <3>1
    <3> QED
      BY <2>3, <3>2 DEF Paid
  <2> QED
    BY <2>11, <2>12
<1> QED
  BY <1>3, <1>4

\* The outcomes of a request for a pid: with a pid x has paid, without one it
\* was refused or the table is full.
LEMMA AdmitEffect ==
  ASSUME NEW s, Good(s), NEW x \in Objects, NEW loss \in {0, 1}
  PROVE  LET a == admit(s, x, loss)
         IN  \/ a.pid \in PID \ DOMAIN s.queue_map /\ Paid(s, x, loss, a.s)
             \/ a.pid = 0 /\ (Paid(s, x, loss, a.s) \/ Refused(s, x, loss, a.s))
<1> DEFINE a == admit(s, x, loss)
<1>1. a.s = pay_queue(s, x, loss).s
      /\ a.pid = IF pay_queue(s, x, loss).ok THEN next_pid(a.s) ELSE 0
  BY DEF admit
<1>2. next_pid(a.s) = 0 \/ next_pid(a.s) \in PID \ DOMAIN a.s.queue_map
  BY NextPidFree
<1> HIDE DEF a
<1>3. CASE pay_queue(s, x, loss).ok
  <2>1. Paid(s, x, loss, a.s)
    BY <1>1, <1>3, PayEffect
  <2>2. a.s.queue_map = s.queue_map
    BY <2>1 DEF Paid, Lists
  <2> QED
    BY <1>1, <1>2, <1>3, <2>1, <2>2 DEF a
<1>4. CASE ~pay_queue(s, x, loss).ok
  <2>1. Refused(s, x, loss, a.s) /\ a.pid = 0
    BY <1>1, <1>4, PayEffect
  <2> QED
    BY <2>1 DEF a
<1> QED
  BY <1>3, <1>4

-----------------------------------------------------------------------------
\* How the command queue grows.

\* From s to t the command queue is unchanged or grows by one new entry.
Fresh(s, t) ==
  \/ t.qfirst = s.qfirst
  \/ \E pid \in PID \ DOMAIN s.queue_map : t.qfirst = Append(s.qfirst, pid)

\* A payment, accepted or refused, is no entry yet.
LEMMA PaidQueue ==
  ASSUME NEW s, Good(s), NEW x, NEW loss, NEW t,
         Paid(s, x, loss, t) \/ Refused(s, x, loss, t)
  PROVE  t.qfirst = s.qfirst
<1>1. CASE Paid(s, x, loss, t)
  BY <1>1 DEF Paid, Lists
<1>2. CASE Refused(s, x, loss, t)
  <2>1. CASE t = s
    BY <2>1
  <2>2. CASE t # s
    <3>1. PICK u : Good(u) /\ Lists(u) = Lists(s)
                   /\ t = [do_halt(u, {x}) EXCEPT !.halted = @ \cup {x}]
      BY <1>2, <2>2 DEF Refused
    <3>2. u \in State /\ do_halt(u, {x}) \in State
      BY <3>1, HaltGood DEF Good
    <3>3. t.qfirst = do_halt(u, {x}).qfirst
      BY <3>1, <3>2 DEF State
    <3>4. do_halt(u, {x}).qfirst = u.qfirst
      BY <3>2, HaltEffect
    <3> QED
      BY <3>1, <3>3, <3>4 DEF Lists
  <2> QED
    BY <2>1, <2>2
<1> QED
  BY <1>1, <1>2

\* A new entry goes to the end of the command queue under an unused pid.
LEMMA ToCommandQueueFresh ==
  ASSUME NEW s, Good(s), NEW x \in Objects, NEW loss \in {0, 1}
  PROVE  Fresh(s, ToCommandQueue(s, x, loss))
<1> DEFINE a == admit(s, x, loss)
           e == new_queue_entry(x, NOTHING, NULL, 0)
           i == im_insert(a.s, a.pid, e)
<1>1. ToCommandQueue(s, x, loss) =
        IF a.pid = 0 THEN a.s ELSE [i EXCEPT !.qfirst = Append(@, a.pid)]
  BY DEF ToCommandQueue
<1>2. Good(a.s) /\ (a.pid = 0 \/ a.pid \in PID \ DOMAIN a.s.queue_map)
  BY AdmitGood
<1>3. e \in MQUE
  BY DEF new_queue_entry, MQUE
<1>4. \/ a.pid \in PID \ DOMAIN s.queue_map /\ Paid(s, x, loss, a.s)
      \/ a.pid = 0 /\ (Paid(s, x, loss, a.s) \/ Refused(s, x, loss, a.s))
  BY AdmitEffect
<1>5. a.s.qfirst = s.qfirst
  BY <1>4, PaidQueue
<1> HIDE DEF a, e
<1>6. CASE a.pid = 0
  BY <1>1, <1>5, <1>6 DEF Fresh
<1>7. CASE a.pid # 0
  <2>1. i \in State /\ i.qfirst = a.s.qfirst
    BY <1>2, <1>3, <1>7, InsertedMap
  <2> HIDE DEF i
  <2>2. ToCommandQueue(s, x, loss).qfirst = Append(s.qfirst, a.pid)
    BY <1>1, <1>5, <1>7, <2>1 DEF State
  <2> QED
    BY <1>4, <1>7, <2>2 DEF Fresh
<1> QED
  BY <1>6, <1>7

\* insert_que() and queue_event(), whether or not they queue.
LEMMA InsertQueFresh ==
  ASSUME NEW s, Good(s), NEW x \in Objects, NEW loss \in {0, 1}
  PROVE  Fresh(s, insert_que(s, x, loss))
BY ToCommandQueueFresh DEF insert_que, Fresh

\* An event is one new entry at most.
LEMMA QueueEventFresh ==
  ASSUME NEW s, Good(s), NEW loss \in {0, 1}
  PROVE  Fresh(s, queue_event(s, loss))
<1>1. EVENT_HANDLER # NOTHING => EVENT_HANDLER \in Objects
  BY ConfigAssumption
<1> QED
  BY <1>1, ToCommandQueueFresh DEF queue_event, Fresh

\* @wait queues at once, or leaves the command queue alone.
LEMMA WaitQueFresh ==
  ASSUME mudtime \in Int, NEW s, Good(s), NEW x \in Objects, NEW n \in Int,
         NEW obj \in Objects \cup {NOTHING}, NEW attr \in Attrs \cup {NULL},
         obj # NOTHING => attr \in Attrs, NEW until, NEW loss \in {0, 1}
  PROVE  Fresh(s, wait_que(s, x, n, obj, attr, until, loss))
<1> DEFINE a == admit(s, x, loss)
           when == CASE until -> n
                     [] ~until /\ n >= 0 -> mudtime + n
                     [] OTHER -> 0
           e == new_queue_entry(x, obj, IF obj = NOTHING THEN NULL ELSE attr, when)
           i == im_insert(a.s, a.pid, e)
           low == IF obj = NOTHING THEN s ELSE add_to_sem(s, <<obj, attr>>, -1)
<1>1. wait_que(s, x, n, obj, attr, until, loss) =
        IF n = 0 THEN insert_que(low, x, loss)
        ELSE IF a.pid = 0 THEN a.s
        ELSE IF obj = NOTHING THEN LinkByTime(i, a.pid)
        ELSE [i EXCEPT !.qsem = Append(@, a.pid)]
  BY DEF wait_que
<1>2. Fresh(s, insert_que(low, x, loss))
  <2>1. Good(low) /\ Lists(low) = Lists(s)
    <3>1. CASE obj = NOTHING
      BY <3>1
    <3>2. CASE obj # NOTHING
      <4>1. <<obj, attr>> \in SemKeys /\ -1 \in Int
        BY <3>2 DEF SemKeys
      <4>2. s \in State
        BY DEF Good
      <4>3. Good(low)
        BY <3>2, <4>1, AddToSemType
      <4> QED
        BY <3>2, <4>2, <4>3, AddToSemEffect
    <3> QED
      BY <3>1, <3>2
  <2> HIDE DEF low
  <2>2. Fresh(low, insert_que(low, x, loss))
    BY <2>1, InsertQueFresh
  <2> QED
    BY <2>1, <2>2 DEF Fresh, Lists
<1>3. Good(a.s) /\ (a.pid = 0 \/ a.pid \in PID \ DOMAIN a.s.queue_map)
  BY AdmitGood
<1>4. when \in Int
  <2>1. until \/ ~until
    OBVIOUS
  <2> QED
    BY <2>1
<1> HIDE DEF when
<1>5. e \in MQUE
  BY <1>4 DEF new_queue_entry, MQUE
<1>6. a.s.qfirst = s.qfirst
  BY AdmitEffect, PaidQueue
<1> HIDE DEF a, e, low
<1>7. CASE n = 0
  BY <1>1, <1>2, <1>7
<1>8. CASE n # 0 /\ a.pid = 0
  BY <1>1, <1>6, <1>8 DEF Fresh
<1>9. CASE n # 0 /\ a.pid # 0
  <2>1. i \in State /\ i.qfirst = s.qfirst
    BY <1>3, <1>5, <1>6, <1>9, InsertedMap
  <2> HIDE DEF i
  <2>2. wait_que(s, x, n, obj, attr, until, loss).qfirst = s.qfirst
    BY <1>1, <1>9, <2>1 DEF State, LinkByTime
  <2> QED
    BY <2>2 DEF Fresh
<1> QED
  BY <1>7, <1>8, <1>9

\* @wait on a semaphore.
LEMMA DoWaitFresh ==
  ASSUME mudtime \in Int, NEW s, Good(s), NEW x \in Objects, NEW n \in Int,
         NEW obj \in Objects, NEW attr \in Attrs, NEW until, NEW loss \in {0, 1}
  PROVE  Fresh(s, do_wait(s, x, obj, attr, n, until, loss))
<1> DEFINE up == add_to_sem(s, <<obj, attr>>, 1)
<1>1. <<obj, attr>> \in SemKeys /\ 1 \in Int /\ s \in State
  BY DEF SemKeys, Good
<1>2. Good(up) /\ Lists(up) = Lists(s)
  BY <1>1, AddToSemType, AddToSemEffect
<1>3. \/ do_wait(s, x, obj, attr, n, until, loss) =
           wait_que(up, x, -1, NOTHING, NULL, until, loss)
      \/ do_wait(s, x, obj, attr, n, until, loss) =
           wait_que(up, x, n, obj, attr, until, loss)
  BY DEF do_wait
<1> HIDE DEF up
<1>4. obj # NOTHING
  BY ObjectFacts
<1>5. Fresh(up, wait_que(up, x, -1, NOTHING, NULL, until, loss))
  <2>1. -1 \in Int /\ NOTHING \in Objects \cup {NOTHING}
        /\ NULL \in Attrs \cup {NULL}
    OBVIOUS
  <2> QED
    BY <1>2, <2>1, WaitQueFresh
<1>6. Fresh(up, wait_que(up, x, n, obj, attr, until, loss))
  BY <1>2, <1>4, WaitQueFresh
<1>7. Fresh(up, do_wait(s, x, obj, attr, n, until, loss))
  BY <1>3, <1>5, <1>6
<1> QED
  BY <1>2, <1>7 DEF Fresh, Lists

-----------------------------------------------------------------------------
\* What the other operations change.

\* Refund() changes money and counts only.
LEMMA RefundEffect ==
  ASSUME NEW s \in State, NEW P
  PROVE  /\ Lists(Refund(s, P)) = Lists(s)
         /\ Database(Refund(s, P)) = Database(s) /\ Refund(s, P).sem = s.sem
BY DEF Refund, State, Lists, Database

\* free_qentry() changes the table only.
LEMMA FreeEffect ==
  ASSUME NEW s \in State, NEW P
  PROVE  /\ Database(free_qentry(s, P)) = Database(s)
         /\ free_qentry(s, P).sem = s.sem /\ free_qentry(s, P).queue = s.queue
         /\ free_qentry(s, P).pennies = s.pennies
BY DEF free_qentry, State, Database

\* The semaphores after the waiters P have left.
Lowered(s, P) == [k \in SemKeys |-> s.sem[k] - Waiters(s, P, k)]

\* Leaving the semaphore queue costs nothing.
LEMMA DequeueEffect ==
  ASSUME NEW s \in State, NEW ps
  PROVE  /\ Database(Dequeue(s, ps)) = Database(s)
         /\ Dequeue(s, ps).queue = s.queue /\ Dequeue(s, ps).pennies = s.pennies
         /\ Dequeue(s, ps).sem = Lowered(s, Range(ps))
         /\ Dequeue(s, ps).qsem = Keep(s.qsem, PID \ Range(ps))
BY DEF Dequeue, State, Database, Lowered

\* Released waiters go to the end of the command queue in their order.
LEMMA ReleaseEffect ==
  ASSUME NEW s, Good(s), NEW ps, PartOfSem(s, ps)
  PROVE  LET t == Release(s, ps)
         IN  /\ t.qfirst = s.qfirst \o ps
             /\ Range(t.qsem) = Range(s.qsem) \ Range(ps)
             /\ t.qwait = s.qwait /\ t.running = s.running
             /\ t.queue_map = s.queue_map /\ Database(t) = Database(s)
             /\ t.queue = s.queue /\ t.pennies = s.pennies
             /\ t.sem = Lowered(s, Range(ps))
<1> DEFINE d == Dequeue(s, ps)
           t == [d EXCEPT !.qfirst = @ \o ps]
<1>1. Release(s, ps) = t
  BY DEF Release
<1>2. /\ d \in State /\ Range(d.qsem) = Range(s.qsem) \ Range(ps)
      /\ d.qfirst = s.qfirst /\ d.qwait = s.qwait
      /\ d.running = s.running /\ d.queue_map = s.queue_map
  BY DequeueType
<1>3. s \in State
  BY DEF Good
<1>4. /\ Database(d) = Database(s) /\ d.queue = s.queue /\ d.pennies = s.pennies
      /\ d.sem = Lowered(s, Range(ps))
  BY <1>3, DequeueEffect
<1> HIDE DEF d
<1>5. /\ t.qfirst = d.qfirst \o ps /\ t.qsem = d.qsem /\ t.qwait = d.qwait
      /\ t.running = d.running /\ t.queue_map = d.queue_map
      /\ Database(t) = Database(d) /\ t.queue = d.queue /\ t.pennies = d.pennies
      /\ t.sem = d.sem
  BY <1>2 DEF State, Database
<1> HIDE DEF t
<1> QED
  BY <1>1, <1>2, <1>4, <1>5

\* Drained waiters get their deposits and counts back.
LEMMA DiscardEffect ==
  ASSUME NEW s, Good(s), NEW ps, PartOfSem(s, ps)
  PROVE  LET t == Discard(s, ps)
         IN  /\ t.qfirst = s.qfirst /\ t.qwait = s.qwait
             /\ t.running = s.running /\ Database(t) = Database(s)
             /\ Range(t.qsem) = Range(s.qsem) \ Range(ps)
             /\ DOMAIN t.queue_map = DOMAIN s.queue_map \ Range(ps)
             /\ \A p \in DOMAIN s.queue_map \ Range(ps) :
                  t.queue_map[p] = s.queue_map[p]
             /\ t.sem = Lowered(s, Range(ps))
             /\ t.queue = Refund(s, Range(ps)).queue
             /\ t.pennies = Refund(s, Range(ps)).pennies
<1> DEFINE d == Dequeue(s, ps)
           r == Refund(d, Range(ps))
           t == free_qentry(r, Range(ps))
           r0 == Refund(s, Range(ps))
<1>1. Discard(s, ps) = t
  BY DEF Discard
<1>2. /\ d \in State /\ Range(d.qsem) = Range(s.qsem) \ Range(ps)
      /\ d.qfirst = s.qfirst /\ d.qwait = s.qwait
      /\ d.running = s.running /\ d.queue_map = s.queue_map
  BY DequeueType
<1>3. s \in State
  BY DEF Good
<1>4. /\ Database(d) = Database(s) /\ d.queue = s.queue /\ d.pennies = s.pennies
      /\ d.sem = Lowered(s, Range(ps))
  BY <1>3, DequeueEffect
<1> HIDE DEF d
<1>5. Range(ps) \subseteq PID
  BY <1>3, ListedPids DEF PartOfSem
<1>6. r.queue = r0.queue /\ r.pennies = r0.pennies
  <2>1. d.owner = s.owner /\ d.powers = s.powers
    BY <1>4 DEF Database
  <2> QED
    BY <1>2, <1>3, <1>4, <2>1 DEF Refund, State, NoPay, FreeOfCharge, Counter
<1> HIDE DEF r0
<1>7. /\ r \in State /\ Lists(r) = Lists(d) /\ Database(r) = Database(d)
      /\ r.sem = d.sem
  BY <1>2, <1>5, RefundType, RefundEffect
<1> HIDE DEF r
<1>8. /\ r.qfirst = d.qfirst /\ r.qwait = d.qwait /\ r.qsem = d.qsem
      /\ r.running = d.running /\ r.queue_map = d.queue_map
  BY <1>7 DEF Lists
<1>9. /\ t.qfirst = r.qfirst /\ t.qwait = r.qwait /\ t.qsem = r.qsem
      /\ t.running = r.running
      /\ DOMAIN t.queue_map = DOMAIN r.queue_map \ Range(ps)
      /\ \A p \in DOMAIN r.queue_map \ Range(ps) : t.queue_map[p] = r.queue_map[p]
  BY <1>7, FreeType
<1>10. /\ Database(t) = Database(r) /\ t.sem = r.sem /\ t.queue = r.queue
       /\ t.pennies = r.pennies
  BY <1>7, FreeEffect
<1> HIDE DEF t
<1> QED
  BY <1>1, <1>2, <1>4, <1>6, <1>7, <1>8, <1>9, <1>10 DEF r0

\* The values f of the semaphores with those of obj and attr cleared.
Cleared(f, obj, attr) ==
  [k \in SemKeys |-> IF k[1] = obj /\ (attr # NULL => k[2] = attr) THEN 0 ELSE f[k]]

\* @drain/all also clears the semaphores it drained.
LEMMA DrainAllEffect ==
  ASSUME NEW s, Good(s), NEW obj, NEW attr
  PROVE  LET t == Discard(s, WaitingOn(s, obj, attr))
             u == DrainAll(s, obj, attr)
         IN  /\ Lists(u) = Lists(t) /\ Database(u) = Database(t)
             /\ u.queue = t.queue /\ u.pennies = t.pennies
             /\ u.sem = Cleared(t.sem, obj, attr)
<1> DEFINE t == Discard(s, WaitingOn(s, obj, attr))
           sm == Cleared(t.sem, obj, attr)
<1>1. Good(t)
  BY WaitingOnPart, DiscardGood
<1>2. DrainAll(s, obj, attr) = [t EXCEPT !.sem = sm]
  BY DEF DrainAll, Cleared
<1>3. t \in State
  BY <1>1 DEF Good
<1>4. [t EXCEPT !.sem = sm].sem = sm
  <2> HIDE DEF t, sm
  <2> QED
    BY <1>3 DEF State
<1>5. Lists([t EXCEPT !.sem = sm]) = Lists(t)
      /\ Database([t EXCEPT !.sem = sm]) = Database(t)
      /\ [t EXCEPT !.sem = sm].queue = t.queue
      /\ [t EXCEPT !.sem = sm].pennies = t.pennies
  <2> HIDE DEF t, sm
  <2> QED
    BY <1>3 DEF State, Lists, Database
<1> QED
  BY <1>2, <1>4, <1>5

\* A linked entry changes nothing but the wait queue.
LEMMA LinkEffect ==
  ASSUME NEW s \in State, NEW pid
  PROVE  LET t == LinkByTime(s, pid)
         IN  /\ t.qfirst = s.qfirst /\ t.qsem = s.qsem /\ t.running = s.running
             /\ t.queue_map = s.queue_map /\ Database(t) = Database(s)
             /\ t.sem = s.sem /\ t.queue = s.queue /\ t.pennies = s.pennies
BY DEF LinkByTime, State, Database

\* @wait/pid changes due times and the order of the wait queue only.
LEMMA WaitPidEffect ==
  ASSUME mudtime \in Int, NEW s, Good(s), NEW pid \in DOMAIN s.queue_map,
         NEW mode \in {"until", "adjust", "set"}, NEW n \in Int
  PROVE  LET t == do_waitpid(s, pid, mode, n)
         IN  /\ t.qfirst = s.qfirst /\ t.qsem = s.qsem /\ t.running = s.running
             /\ Database(t) = Database(s)
             /\ t.sem = s.sem /\ t.queue = s.queue /\ t.pennies = s.pennies
             /\ DOMAIN t.queue_map = DOMAIN s.queue_map
             /\ \A p \in DOMAIN s.queue_map :
                  /\ t.queue_map[p].executor = s.queue_map[p].executor
                  /\ SemKey(t.queue_map[p]) = SemKey(s.queue_map[p])
<1> DEFINE e == s.queue_map[pid]
           w == CASE mode = "until" -> n
                  [] mode = "adjust" -> e.wait_until + n
                  [] mode = "set" -> mudtime + n
           v == IF w < 0 THEN 0 ELSE w
           m == [s.queue_map EXCEPT ![pid] = [e EXCEPT !.wait_until = v]]
           t == [s EXCEPT !.queue_map = m]
           u == [t EXCEPT !.qwait = Keep(@, PID \ {pid})]
<1>1. s \in State /\ s.queue_map \in QMaps /\ s.qwait \in Seq(PID)
  BY DEF Good, State
<1>2. e \in MQUE /\ pid \in PID
  BY <1>1, QMapFacts
<1>3. [s EXCEPT !.queue_map[pid].wait_until = v] = t
  BY <1>1, <1>2, QMapFacts DEF State
<1>4. \/ do_waitpid(s, pid, mode, n) = s
      \/ do_waitpid(s, pid, mode, n) = LinkByTime(u, pid)
      \/ do_waitpid(s, pid, mode, n) = t
  BY <1>3 DEF do_waitpid
<1>5. v \in Int
  BY <1>2 DEF MQUE
<1> HIDE DEF v
<1> DEFINE c == [e EXCEPT !.wait_until = v]
<1>6. c \in MQUE /\ c.executor = e.executor /\ SemKey(c) = SemKey(e)
  BY <1>2, <1>5 DEF MQUE, SemKey
<1>7. m \in QMaps /\ t \in State
  BY <1>1, <1>6, ChangedEntry
<1>8. DOMAIN m = DOMAIN s.queue_map
      /\ \A p \in DOMAIN s.queue_map : /\ m[p].executor = s.queue_map[p].executor
                                       /\ SemKey(m[p]) = SemKey(s.queue_map[p])
  <2>1. DOMAIN m = DOMAIN s.queue_map /\ m[pid] = c
        /\ \A p \in DOMAIN s.queue_map : p # pid => m[p] = s.queue_map[p]
    BY <1>1, QMapFacts
  <2> HIDE DEF m, c
  <2> QED
    BY <1>6, <2>1
<1> HIDE DEF m, e
<1>9. /\ t.qfirst = s.qfirst /\ t.qwait = s.qwait /\ t.qsem = s.qsem
      /\ t.running = s.running /\ t.queue_map = m /\ Database(t) = Database(s)
      /\ t.sem = s.sem /\ t.queue = s.queue /\ t.pennies = s.pennies
  BY <1>1 DEF State, Database
<1> HIDE DEF t
<1>10. Keep(s.qwait, PID \ {pid}) \in Seq(PID)
  BY <1>1, KeepFacts
<1>11. /\ u \in State /\ u.qfirst = s.qfirst /\ u.qsem = s.qsem
       /\ u.running = s.running /\ u.queue_map = m /\ Database(u) = Database(s)
       /\ u.sem = s.sem /\ u.queue = s.queue /\ u.pennies = s.pennies
  <2>1. u \in State
    BY <1>7, <1>9, <1>10 DEF State
  <2>2. /\ u.qfirst = t.qfirst /\ u.qsem = t.qsem
        /\ u.running = t.running /\ u.queue_map = t.queue_map
        /\ Database(u) = Database(t)
        /\ u.sem = t.sem /\ u.queue = t.queue /\ u.pennies = t.pennies
    BY <1>7 DEF State, Database
  <2> QED
    BY <1>9, <2>1, <2>2
<1> HIDE DEF u
<1>12. CASE do_waitpid(s, pid, mode, n) = s
  BY <1>12
<1>13. CASE do_waitpid(s, pid, mode, n) = LinkByTime(u, pid)
  BY <1>8, <1>11, <1>13, LinkEffect
<1>14. CASE do_waitpid(s, pid, mode, n) = t
  BY <1>8, <1>9, <1>14
<1> QED
  BY <1>4, <1>12, <1>13, <1>14

\* t is s after @halt/pid marked the entry, or took it off the semaphore queue
\* and freed it.
PidHalted(s, pid, t) ==
  LET e == s.queue_map[pid]
  IN  /\ t.qfirst = s.qfirst /\ t.qwait = s.qwait /\ t.running = s.running
      /\ Database(t) = Database(s) /\ t.queue = s.queue
      /\ \A p \in DOMAIN s.queue_map \ {pid} :
           /\ p \in DOMAIN t.queue_map
           /\ t.queue_map[p] = s.queue_map[p]
      /\ DOMAIN t.queue_map \subseteq DOMAIN s.queue_map
      /\ e.semaphore_attr = NULL =>
           /\ t.qsem = s.qsem /\ t.sem = s.sem /\ t.pennies = s.pennies
           /\ t.queue_map[pid] = [e EXCEPT !.executor = NOTHING]
      /\ e.semaphore_attr # NULL =>
           /\ Range(t.qsem) = Range(s.qsem) \ {pid}
           /\ DOMAIN t.queue_map = DOMAIN s.queue_map \ {pid}
           /\ t.sem = IF e.semaphore_obj = NOTHING THEN s.sem
                      ELSE [s.sem EXCEPT ![SemKey(e)] = @ - 1]
           /\ t.pennies = IF e.executor = NOTHING THEN s.pennies
                          ELSE giveto(s, e.executor, QUEUE_COST).pennies

\* This is what @halt/pid does.
LEMMA HaltPidEffect ==
  ASSUME NEW s, Good(s), NEW pid \in DOMAIN s.queue_map
  PROVE  PidHalted(s, pid, do_haltpid(s, pid))
<1> USE DEF PidHalted
<1> DEFINE e == s.queue_map[pid]
           m == [s.queue_map EXCEPT ![pid] = [e EXCEPT !.executor = NOTHING]]
           t == [s EXCEPT !.queue_map = m]
           u == IF e.executor = NOTHING THEN t ELSE giveto(t, e.executor, QUEUE_COST)
           v == IF e.semaphore_obj = NOTHING THEN u ELSE add_to_sem(u, SemKey(e), -1)
           q == Keep(v.qsem, PID \ {pid})
           w == [v EXCEPT !.qsem = q]
           r == free_qentry(w, {pid})
           mo == IF e.executor = NOTHING THEN s.pennies
                 ELSE giveto(s, e.executor, QUEUE_COST).pennies
           sm == IF e.semaphore_obj = NOTHING THEN s.sem
                 ELSE [s.sem EXCEPT ![SemKey(e)] = @ - 1]
<1>1. s \in State /\ Linked(s) /\ s.queue_map \in QMaps
  BY DEF Good, State
<1>2. e \in MQUE /\ pid \in PID
  BY <1>1, QMapFacts
<1>3. [s EXCEPT !.queue_map[pid].executor = NOTHING] = t
  BY <1>1, <1>2, QMapFacts DEF State
<1>4. do_haltpid(s, pid) = IF e.semaphore_attr = NULL THEN t ELSE r
  BY <1>3 DEF do_haltpid
<1>5. [e EXCEPT !.executor = NOTHING] \in MQUE
  BY <1>2 DEF MQUE
<1>6. t \in State
  BY <1>1, <1>5, ChangedEntry
<1>7. /\ DOMAIN m = DOMAIN s.queue_map /\ m[pid] = [e EXCEPT !.executor = NOTHING]
      /\ \A p \in DOMAIN s.queue_map \ {pid} : m[p] = s.queue_map[p]
  BY <1>1, QMapFacts
<1> HIDE DEF m
<1>8. /\ t.qfirst = s.qfirst /\ t.qwait = s.qwait /\ t.qsem = s.qsem
      /\ t.running = s.running /\ t.queue_map = m /\ Database(t) = Database(s)
      /\ t.sem = s.sem /\ t.queue = s.queue /\ t.pennies = s.pennies
  BY <1>1 DEF State, Database
<1>9. CASE e.semaphore_attr = NULL
  <2> HIDE DEF t, e
  <2>1. do_haltpid(s, pid) = t
    BY <1>4, <1>9
  <2> QED
    BY <1>7, <1>8, <1>9, <2>1 DEF e
<1>10. CASE e.semaphore_attr # NULL
  <2>0. t.owner = s.owner /\ t.powers = s.powers
    BY <1>8 DEF Database
  <2>1. /\ u \in State /\ Lists(u) = Lists(t) /\ Database(u) = Database(s)
        /\ u.sem = s.sem /\ u.queue = s.queue
    <3> HIDE DEF t
    <3>1. CASE e.executor = NOTHING
      BY <1>6, <1>8, <3>1
    <3>2. CASE e.executor # NOTHING
      <4>1. e.executor \in Objects /\ QUEUE_COST \in Nat
        BY <1>2, <3>2, ConfigAssumption DEF MQUE
      <4>21. t.owner[e.executor] \in Players
        BY <1>6, <4>1 DEF State
      <4>22. t.pennies[t.owner[e.executor]] \in 0..MAX_PENNIES
        BY <1>6, <4>21 DEF State
      <4>2. t.owner[e.executor] \in Players
            /\ t.pennies[t.owner[e.executor]] + QUEUE_COST \in Nat
        BY <4>1, <4>21, <4>22, ConfigAssumption
      <4>3. Capped(t.pennies[t.owner[e.executor]] + QUEUE_COST) \in 0..MAX_PENNIES
        BY <4>2, CappedType
      <4>4. giveto(t, e.executor, QUEUE_COST) \in State
        BY <1>6, <4>2, <4>3 DEF giveto, State
      <4> QED
        BY <1>6, <1>8, <3>2, <4>4, GivetoEffect
    <3> QED
      BY <3>1, <3>2
  <2>2. u.pennies = mo
    <3> HIDE DEF t
    <3> QED
      BY <1>1, <1>6, <1>8, <2>0 DEF giveto, State, NoPay, FreeOfCharge
  <2> HIDE DEF u, mo
  <2>3. /\ v \in State /\ Lists(v) = Lists(t) /\ Database(v) = Database(s)
        /\ v.queue = s.queue /\ v.pennies = u.pennies /\ v.sem = sm
    <3>1. CASE e.semaphore_obj = NOTHING
      BY <2>1, <3>1
    <3>2. CASE e.semaphore_obj # NOTHING
      <4>1. SemKey(e) \in SemKeys
        BY <1>2, <1>10, <3>2 DEF MQUE, SemKey, SemKeys
      <4> DEFINE k == SemKey(e)
      <4>2. k \in SemKeys /\ v = add_to_sem(u, k, -1)
        BY <3>2, <4>1
      <4> HIDE DEF k, v
      <4>3. v = [u EXCEPT !.sem = [u.sem EXCEPT ![k] = @ + (-1)]]
        BY <2>1, <4>2 DEF add_to_sem, State
      <4>4. u.sem \in [SemKeys -> Int]
        BY <2>1 DEF State
      <4>5. [u.sem EXCEPT ![k] = @ + (-1)] = [u.sem EXCEPT ![k] = @ - 1]
            /\ [u.sem EXCEPT ![k] = @ + (-1)] \in [SemKeys -> Int]
        BY <4>2, <4>4
      <4> DEFINE f == [u.sem EXCEPT ![k] = @ + (-1)]
      <4> HIDE DEF f
      <4>6. v = [u EXCEPT !.sem = f] /\ f \in [SemKeys -> Int]
            /\ f = [u.sem EXCEPT ![k] = @ - 1]
        BY <4>3, <4>5 DEF f
      <4>7. /\ v \in State /\ Lists(v) = Lists(u) /\ Database(v) = Database(u)
            /\ v.queue = u.queue /\ v.pennies = u.pennies /\ v.sem = f
        BY <2>1, <4>6 DEF State, Lists, Database
      <4>8. sm = f
        BY <2>1, <3>2, <4>6 DEF k
      <4> QED
        BY <2>1, <4>7, <4>8
    <3> QED
      BY <3>1, <3>2
  <2> HIDE DEF v, sm
  <2>4. v.qsem \in Seq(PID) /\ v.qsem = s.qsem
    BY <1>8, <2>3 DEF State, Lists
  <2>5. q \in Seq(PID) /\ Range(q) = Range(s.qsem) \cap (PID \ {pid})
    BY <2>4, KeepFacts
  <2> HIDE DEF q
  <2>6. Range(s.qsem) \subseteq PID
    BY <1>1, ListedPids
  <2>7. Range(q) = Range(s.qsem) \ {pid}
    BY <2>5, <2>6
  <2>8. /\ w \in State /\ w.qfirst = v.qfirst /\ w.qwait = v.qwait
        /\ w.qsem = q /\ w.running = v.running /\ w.queue_map = v.queue_map
        /\ Database(w) = Database(v) /\ w.sem = v.sem /\ w.queue = v.queue
        /\ w.pennies = v.pennies
    BY <2>3, <2>5 DEF State, Database
  <2> HIDE DEF w
  <2>9. /\ r.qfirst = w.qfirst /\ r.qwait = w.qwait /\ r.qsem = w.qsem
        /\ r.running = w.running
        /\ DOMAIN r.queue_map = DOMAIN w.queue_map \ {pid}
        /\ \A p \in DOMAIN w.queue_map \ {pid} : r.queue_map[p] = w.queue_map[p]
    BY <2>8, FreeType
  <2>10. /\ Database(r) = Database(w) /\ r.sem = w.sem /\ r.queue = w.queue
         /\ r.pennies = w.pennies
    BY <2>8, FreeEffect
  <2> HIDE DEF r, t
  <2>11. /\ v.qfirst = s.qfirst /\ v.qwait = s.qwait /\ v.running = s.running
         /\ v.queue_map = m
    BY <1>8, <2>3 DEF Lists
  <2>12. do_haltpid(s, pid) = r
    BY <1>4, <1>10
  <2>13. /\ r.sem = sm /\ r.pennies = mo /\ Range(r.qsem) = Range(s.qsem) \ {pid}
         /\ DOMAIN r.queue_map = DOMAIN s.queue_map \ {pid}
         /\ \A p \in DOMAIN s.queue_map \ {pid} :
              p \in DOMAIN r.queue_map /\ r.queue_map[p] = s.queue_map[p]
         /\ r.qfirst = s.qfirst /\ r.qwait = s.qwait /\ r.running = s.running
         /\ Database(r) = Database(s) /\ r.queue = s.queue
    BY <1>7, <2>2, <2>3, <2>7, <2>8, <2>9, <2>10, <2>11
  <2> QED
    BY <1>10, <2>12, <2>13 DEF mo, sm
<1> QED
  BY <1>9, <1>10

\* The first n elements of a sequence, by position.
LEMMA TakeIndex ==
  ASSUME NEW T, NEW s \in Seq(T), NEW n \in Nat
  PROVE  /\ Take(s, n) \in Seq(T)
         /\ Len(Take(s, n)) = IF n < Len(s) THEN n ELSE Len(s)
         /\ \A j \in 1..Len(Take(s, n)) : Take(s, n)[j] = s[j]
<1>1. Len(s) \in Nat
  OBVIOUS
<1> DEFINE k == IF n < Len(s) THEN n ELSE Len(s)
<1>2. k \in Nat /\ k <= Len(s)
  BY <1>1
<1>3. Take(s, n) = SubSeq(s, 1, k)
  BY DEF Take
<1> HIDE DEF k
<1>4. /\ SubSeq(s, 1, k) \in Seq(T) /\ Len(SubSeq(s, 1, k)) = k
      /\ \A j \in 1..k : SubSeq(s, 1, k)[j] = s[j]
  BY <1>1, <1>2
<1> QED
  BY <1>3, <1>4 DEF k

\* t is s after queue_update() moved the due entries and the timed-out waiters.
Updated(s, due, late, t) ==
  /\ Range(due) \subseteq Range(s.qwait) /\ PartOfSem(s, late)
  /\ \A p \in Range(due) : s.queue_map[p].wait_until <= mudtime
  /\ \A p \in Range(late) : /\ s.queue_map[p].wait_until # 0
                            /\ s.queue_map[p].wait_until <= mudtime
  /\ t.qfirst = s.qfirst \o due \o late
  /\ Range(t.qwait) \subseteq Range(s.qwait)
  /\ Range(t.qsem) = Range(s.qsem) \ Range(late)
  /\ Database(t) = Database(s)
  /\ t.queue = s.queue /\ t.pennies = s.pennies
  /\ t.sem = Lowered(s, Range(late))
  /\ DOMAIN t.queue_map = DOMAIN s.queue_map
  /\ \A p \in DOMAIN s.queue_map :
       /\ t.queue_map[p].executor = s.queue_map[p].executor
       /\ p \notin Range(late) =>
            SemKey(t.queue_map[p]) = SemKey(s.queue_map[p])

\* There are such entries.
LEMMA QueueUpdateEffect ==
  ASSUME mudtime \in Int, NEW s, Good(s)
  PROVE  \E due \in Seq(PID), late \in Seq(PID) :
            Updated(s, due, late, queue_update(s))
<1> DEFINE q == s.qwait
           i == FirstAfter(q, Until(s), mudtime)
           n == i - 1
           due == Take(q, n)
           expired == {p \in Range(s.qsem) : LET w == s.queue_map[p].wait_until
                                             IN  w # 0 /\ w <= mudtime}
           late == Keep(s.qsem, expired)
           d == Dequeue(s, late)
           m == [p \in DOMAIN s.queue_map |->
                  CASE p \in Range(due) -> [s.queue_map[p] EXCEPT !.wait_until = 0]
                    [] p \in expired ->
                         [s.queue_map[p] EXCEPT !.semaphore_obj = NOTHING]
                    [] OTHER -> s.queue_map[p]]
           t == [d EXCEPT !.qwait = Drop(@, n), !.qfirst = @ \o due \o late,
                          !.queue_map = m]
<1>1. queue_update(s) = t
  BY DEF queue_update
<1>2. /\ s \in State /\ Linked(s)
      /\ q \in Seq(PID) /\ Len(q) \in Nat /\ s.qsem \in Seq(PID)
      /\ s.qfirst \in Seq(PID) /\ s.queue_map \in QMaps
  BY DEF Good, State
<1>3. /\ i \in 1..(Len(q) + 1)
      /\ \A j \in 1..(i - 1) : s.queue_map[q[j]].wait_until <= mudtime
  <2>1. \A p \in DOMAIN s.queue_map : Until(s)[p] \in Int
                                      /\ Until(s)[p] = s.queue_map[p].wait_until
    BY <1>2, QMapFacts DEF Until, MQUE
  <2>2. \A j \in 1..Len(q) : q[j] \in DOMAIN s.queue_map
    BY <1>2 DEF Linked, Listed, Range
  <2>3. \A j \in 1..Len(q) : Until(s)[q[j]] \in Int
                             /\ Until(s)[q[j]] = s.queue_map[q[j]].wait_until
    BY <2>1, <2>2
  <2> HIDE DEF q
  <2>4. i \in 1..(Len(q) + 1) /\ \A j \in 1..(i - 1) : Until(s)[q[j]] <= mudtime
    BY <1>2, <2>3, FirstAfterFacts
  <2>5. \A j \in 1..(i - 1) : j \in 1..Len(q)
    BY <1>2, <2>4
  <2> QED
    BY <2>3, <2>4, <2>5
<1> HIDE DEF i
<1>4. n \in Nat /\ n <= Len(q)
      /\ \A j \in 1..n : s.queue_map[q[j]].wait_until <= mudtime
  BY <1>2, <1>3
<1> HIDE DEF n
<1>5. /\ due \in Seq(PID) /\ Range(due) \subseteq Range(q)
      /\ \A p \in Range(due) : \E j \in 1..n : p = q[j]
  <2>1. q \in Seq(PID) /\ n \in Nat /\ n <= Len(q)
    BY <1>2, <1>4
  <2> HIDE DEF q
  <2>2. Take(q, n) \in Seq(PID) /\ Len(Take(q, n)) = n
        /\ \A j \in 1..n : Take(q, n)[j] = q[j]
    BY <2>1, TakeIndex
  <2>3. DOMAIN q = 1..Len(q) /\ DOMAIN Take(q, n) = 1..n
        /\ \A j \in 1..n : j \in 1..Len(q)
    BY <2>1, <2>2
  <2> QED
    BY <2>2, <2>3 DEF Range
<1>6. /\ Drop(q, n) \in Seq(PID) /\ Range(Drop(q, n)) \subseteq Range(q)
  <2> HIDE DEF q
  <2>1. Range(Take(q, n)) \cup Range(Drop(q, n)) = Range(q)
        /\ Drop(q, n) \in Seq(PID)
    BY <1>2, <1>4, DropFacts
  <2> QED
    BY <2>1
<1>7. \A p \in Range(due) : s.queue_map[p].wait_until <= mudtime
  <2> HIDE DEF due, q
  <2> QED
    BY <1>4, <1>5
<1> HIDE DEF due
<1>8. /\ late \in Seq(PID) /\ Range(late) = expired /\ PartOfSem(s, late)
      /\ \A p \in expired : /\ s.queue_map[p].wait_until # 0
                            /\ s.queue_map[p].wait_until <= mudtime
  <2>1. expired \subseteq Range(s.qsem)
        /\ \A p \in expired : /\ s.queue_map[p].wait_until # 0
                              /\ s.queue_map[p].wait_until <= mudtime
    OBVIOUS
  <2> HIDE DEF expired
  <2>2. IsInjective(s.qsem)
    BY <1>2 DEF Linked, Disjoint
  <2>3. /\ late \in Seq(PID) /\ IsInjective(late)
        /\ Range(late) = Range(s.qsem) \cap expired
    BY <1>2, <2>2, KeepFacts
  <2> HIDE DEF late
  <2> QED
    BY <2>1, <2>3 DEF PartOfSem
<1> HIDE DEF expired, late
<1>9. /\ d \in State /\ Range(d.qsem) = Range(s.qsem) \ Range(late)
      /\ d.qfirst = s.qfirst /\ d.qwait = s.qwait
      /\ d.running = s.running /\ d.queue_map = s.queue_map
  BY <1>8, DequeueType
<1>10. /\ Database(d) = Database(s) /\ d.queue = s.queue /\ d.pennies = s.pennies
       /\ d.sem = Lowered(s, Range(late))
  BY <1>2, DequeueEffect
<1> HIDE DEF d
<1>11. DOMAIN m = DOMAIN s.queue_map
       /\ \A p \in DOMAIN s.queue_map :
            /\ m[p].executor = s.queue_map[p].executor
            /\ p \notin expired => SemKey(m[p]) = SemKey(s.queue_map[p])
  <2>1. \A p \in DOMAIN s.queue_map : s.queue_map[p] \in MQUE
    BY <1>2, QMapFacts
  <2>2. \A e \in MQUE : /\ [e EXCEPT !.wait_until = 0].executor = e.executor
                        /\ SemKey([e EXCEPT !.wait_until = 0]) = SemKey(e)
                        /\ [e EXCEPT !.semaphore_obj = NOTHING].executor = e.executor
    BY DEF MQUE, SemKey
  <2> QED
    BY <2>1, <2>2
<1> HIDE DEF m
<1>12. /\ t.qfirst = s.qfirst \o due \o late /\ t.qwait = Drop(q, n)
       /\ t.qsem = d.qsem /\ t.queue_map = m /\ Database(t) = Database(d)
       /\ t.queue = d.queue /\ t.pennies = d.pennies /\ t.sem = d.sem
  BY <1>9 DEF State, Database
<1> HIDE DEF t
<1>13. /\ due \in Seq(PID) /\ late \in Seq(PID)
       /\ Range(due) \subseteq Range(s.qwait) /\ PartOfSem(s, late)
       /\ \A p \in Range(due) : s.queue_map[p].wait_until <= mudtime
       /\ \A p \in Range(late) : /\ s.queue_map[p].wait_until # 0
                                 /\ s.queue_map[p].wait_until <= mudtime
  BY <1>5, <1>7, <1>8
<1>14. /\ t.qfirst = s.qfirst \o due \o late
       /\ Range(t.qwait) \subseteq Range(s.qwait)
       /\ Range(t.qsem) = Range(s.qsem) \ Range(late)
       /\ Database(t) = Database(s)
       /\ t.queue = s.queue /\ t.pennies = s.pennies
       /\ t.sem = Lowered(s, Range(late))
       /\ DOMAIN t.queue_map = DOMAIN s.queue_map
       /\ \A p \in DOMAIN s.queue_map :
            /\ t.queue_map[p].executor = s.queue_map[p].executor
            /\ p \notin Range(late) =>
                 SemKey(t.queue_map[p]) = SemKey(s.queue_map[p])
  BY <1>6, <1>8, <1>9, <1>10, <1>11, <1>12
<1> HIDE DEF q, due, late, t
<1>15. Updated(s, due, late, t)
  BY <1>13, <1>14 DEF Updated
<1>16. due \in Seq(PID) /\ late \in Seq(PID)
  BY <1>13 DEF PartOfSem
<1> QED
  BY <1>1, <1>15, <1>16

\* do_top() takes the first entry off and returns its deposit, if it has an
\* executor to return it to.
LEMMA DoTopEffect ==
  ASSUME NEW s, Good(s), s.qfirst # << >>
  PROVE  LET p == Head(s.qfirst)
             t == do_top(s)
         IN  /\ t.qfirst = Tail(s.qfirst) /\ t.qwait = s.qwait /\ t.qsem = s.qsem
             /\ Database(t) = Database(s) /\ t.sem = s.sem
             /\ DOMAIN s.queue_map \ {p} \subseteq DOMAIN t.queue_map
             /\ DOMAIN t.queue_map \subseteq DOMAIN s.queue_map
             /\ \A e \in DOMAIN t.queue_map : t.queue_map[e] = s.queue_map[e]
             /\ IF RealGood(s, s.queue_map[p].executor)
                THEN /\ t.queue = Refund(s, {p}).queue
                     /\ t.pennies = Refund(s, {p}).pennies
                ELSE t.queue = s.queue /\ t.pennies = s.pennies
<1> DEFINE p == Head(s.qfirst)
           x == s.queue_map[p].executor
           t == [s EXCEPT !.qfirst = Tail(@)]
           r == Refund(t, {p})
           g == [r EXCEPT !.running = Append(@, p)]
           r0 == Refund(s, {p})
<1>1. /\ ~RealGood(s, x) => do_top(s) = free_qentry(t, {p})
      /\ RealGood(s, x) => do_top(s) = free_qentry(r, {p}) \/ do_top(s) = g
  BY DEF do_top
<1>2. s \in State /\ s.qfirst \in Seq(PID)
  BY DEF Good, State
<1>3. p \in PID /\ Tail(s.qfirst) \in Seq(PID)
  BY <1>2
<1>4. /\ t \in State /\ t.qfirst = Tail(s.qfirst) /\ t.qwait = s.qwait
      /\ t.qsem = s.qsem /\ t.running = s.running /\ t.queue_map = s.queue_map
      /\ Database(t) = Database(s) /\ t.sem = s.sem /\ t.queue = s.queue
      /\ t.pennies = s.pennies
  BY <1>2, <1>3 DEF State, Database
<1> HIDE DEF t, p, x
<1>5. r.queue = r0.queue /\ r.pennies = r0.pennies
  <2>1. t.owner = s.owner /\ t.powers = s.powers
    BY <1>4 DEF Database
  <2> QED
    BY <1>2, <1>4, <2>1 DEF Refund, State, NoPay, FreeOfCharge, Counter
<1> HIDE DEF r0
<1>6. /\ r \in State /\ r.qfirst = t.qfirst /\ r.qwait = s.qwait
      /\ r.qsem = s.qsem /\ r.running = s.running /\ r.queue_map = s.queue_map
  BY <1>3, <1>4, RefundType
<1>7. Database(r) = Database(s) /\ r.sem = s.sem
  BY <1>4, RefundEffect
<1> HIDE DEF r
<1>8. ASSUME NEW v \in State, v.qfirst = Tail(s.qfirst), v.qwait = s.qwait,
             v.qsem = s.qsem, v.queue_map = s.queue_map,
             Database(v) = Database(s), v.sem = s.sem
      PROVE  LET f == free_qentry(v, {p})
             IN  /\ f.qfirst = Tail(s.qfirst) /\ f.qwait = s.qwait
                 /\ f.qsem = s.qsem /\ Database(f) = Database(s) /\ f.sem = s.sem
                 /\ DOMAIN f.queue_map = DOMAIN s.queue_map \ {p}
                 /\ \A e \in DOMAIN f.queue_map : f.queue_map[e] = s.queue_map[e]
                 /\ f.queue = v.queue /\ f.pennies = v.pennies
  BY <1>8, FreeType, FreeEffect
<1>9. CASE ~RealGood(s, x)
  <2>1. do_top(s) = free_qentry(t, {p})
    BY <1>1, <1>9
  <2> QED
    BY <1>4, <1>8, <1>9, <2>1 DEF p, x
<1>10. CASE RealGood(s, x) /\ do_top(s) = free_qentry(r, {p})
  <2>1. /\ r \in State /\ r.qfirst = Tail(s.qfirst) /\ r.qwait = s.qwait
        /\ r.qsem = s.qsem /\ r.queue_map = s.queue_map
        /\ Database(r) = Database(s) /\ r.sem = s.sem
    BY <1>4, <1>5, <1>6, <1>7
  <2> DEFINE f == free_qentry(r, {p})
  <2>2. /\ f.qfirst = Tail(s.qfirst) /\ f.qwait = s.qwait
        /\ f.qsem = s.qsem /\ Database(f) = Database(s) /\ f.sem = s.sem
        /\ DOMAIN f.queue_map = DOMAIN s.queue_map \ {p}
        /\ \A e \in DOMAIN f.queue_map : f.queue_map[e] = s.queue_map[e]
        /\ f.queue = r.queue /\ f.pennies = r.pennies
    BY <1>8, <2>1
  <2>3. f.queue = r0.queue /\ f.pennies = r0.pennies /\ do_top(s) = f
    BY <1>5, <1>10, <2>2
  <2> HIDE DEF f
  <2> QED
    BY <1>10, <2>2, <2>3 DEF p, x, r0
<1>11. CASE RealGood(s, x) /\ do_top(s) = g
  <2>1. /\ g.qfirst = r.qfirst /\ g.qwait = r.qwait /\ g.qsem = r.qsem
        /\ g.queue_map = r.queue_map /\ Database(g) = Database(r)
        /\ g.sem = r.sem /\ g.queue = r.queue /\ g.pennies = r.pennies
    BY <1>6 DEF State, Database
  <2> HIDE DEF g
  <2> QED
    BY <1>4, <1>5, <1>6, <1>7, <1>11, <2>1 DEF p, x, r0
<1> QED
  BY <1>1, <1>9, <1>10, <1>11

\* The end of an entry frees it and leaves the three lists alone.
LEMMA EndOfEntryEffect ==
  ASSUME NEW s, Good(s), s.running # << >>
  PROVE  LET t == EndOfEntry(s)
         IN  /\ t.qfirst = s.qfirst /\ t.qwait = s.qwait /\ t.qsem = s.qsem
             /\ Database(t) = Database(s) /\ t.sem = s.sem
             /\ t.queue = s.queue /\ t.pennies = s.pennies
             /\ DOMAIN t.queue_map \subseteq DOMAIN s.queue_map
             /\ \A p \in DOMAIN t.queue_map : t.queue_map[p] = s.queue_map[p]
<1> DEFINE q == s.running
           p == q[Len(q)]
           t == [s EXCEPT !.running = Take(@, Len(q) - 1)]
           f == free_qentry(t, {p})
<1>1. EndOfEntry(s) = f
  BY DEF EndOfEntry
<1>2. s \in State /\ q \in Seq(PID) /\ q # << >>
  BY DEF Good, State
<1> HIDE DEF q
<1>3. Len(q) - 1 \in Nat
  BY <1>2
<1>4. Take(q, Len(q) - 1) \in Seq(PID)
  BY <1>2, <1>3, TakeFacts
<1>5. t \in State /\ Database(t) = Database(s) /\ t.sem = s.sem
      /\ t.queue = s.queue /\ t.pennies = s.pennies /\ t.qfirst = s.qfirst
      /\ t.qwait = s.qwait /\ t.qsem = s.qsem /\ t.queue_map = s.queue_map
  <2>1. t = [s EXCEPT !.running = Take(q, Len(q) - 1)]
    BY <1>2 DEF State, q
  <2> HIDE DEF t
  <2> QED
    BY <1>2, <1>4, <2>1 DEF State, Database
<1> HIDE DEF t
<1>6. /\ f.qfirst = t.qfirst /\ f.qwait = t.qwait /\ f.qsem = t.qsem
      /\ DOMAIN f.queue_map = DOMAIN t.queue_map \ {p}
      /\ \A e \in DOMAIN t.queue_map \ {p} : f.queue_map[e] = t.queue_map[e]
  BY <1>5, FreeType
<1>7. /\ Database(f) = Database(t) /\ f.sem = t.sem /\ f.queue = t.queue
      /\ f.pennies = t.pennies
  BY <1>5, FreeEffect
<1> HIDE DEF f
<1> QED
  BY <1>1, <1>5, <1>6, <1>7

\* shutdown_queues() empties the lists and refunds what has an executor.
LEMMA ShutdownEffect ==
  ASSUME NEW s, Good(s)
  PROVE  LET real == {p \in Listed(s) : RealGood(s, s.queue_map[p].executor)}
             t == shutdown_queues(s)
         IN  /\ t.qfirst = << >> /\ t.qwait = << >> /\ t.qsem = << >>
             /\ Database(t) = Database(s) /\ t.sem = s.sem
             /\ t.queue = Refund(s, real).queue
             /\ t.pennies = Refund(s, real).pennies
<1> DEFINE real == {p \in Listed(s) : RealGood(s, s.queue_map[p].executor)}
           r == Refund(s, real)
           f == free_qentry(r, Listed(s))
           t == [f EXCEPT !.qfirst = << >>, !.qwait = << >>, !.qsem = << >>]
<1>1. shutdown_queues(s) = t
  BY DEF shutdown_queues
<1>2. s \in State
  BY DEF Good
<1>3. real \subseteq PID
  BY <1>2, ListedPids
<1> HIDE DEF real
<1>4. r \in State /\ Database(r) = Database(s) /\ r.sem = s.sem
  BY <1>2, <1>3, RefundType, RefundEffect
<1> HIDE DEF r
<1>5. /\ f \in State /\ Database(f) = Database(r) /\ f.sem = r.sem
      /\ f.queue = r.queue /\ f.pennies = r.pennies
  BY <1>4, FreeType, FreeEffect
<1> HIDE DEF f
<1>6. /\ t.qfirst = << >> /\ t.qwait = << >> /\ t.qsem = << >>
      /\ Database(t) = Database(f) /\ t.sem = f.sem
      /\ t.queue = f.queue /\ t.pennies = f.pennies
  BY <1>5 DEF State, Database
<1> HIDE DEF t
<1> QED
  BY <1>1, <1>4, <1>5, <1>6 DEF r, real

-----------------------------------------------------------------------------
\* The order in which waiters are released.

\* All of a sequence.
LEMMA TakeAll ==
  ASSUME NEW T, NEW s \in Seq(T)
  PROVE  Take(s, Len(s)) = s
<1>1. Len(s) \in Nat
  OBVIOUS
<1>2. Take(s, Len(s)) = SubSeq(s, 1, Len(s))
  BY <1>1 DEF Take
<1> QED
  BY <1>1, <1>2

\* The first waiters of a kind include every earlier waiter of that kind.
LEMMA KeepBefore ==
  ASSUME NEW s \in Seq(PID), IsInjective(s), NEW S, NEW n \in Nat,
         NEW p, NEW q, Before(s, p, q), p \in S,
         q \in Range(Take(Keep(s, S), n))
  PROVE  p \in Range(Take(Keep(s, S), n))
<1> DEFINE w == Keep(s, S)
           t == Take(w, n)
<1>1. Embeds(w, s, Len(s), S, PID)
  BY KeepEmbeds
<1>2. w \in Seq(PID) /\ Range(w) = Range(s) \cap S
  BY KeepFacts
<1> HIDE DEF w
<1>3. t \in Seq(PID) /\ Len(t) <= Len(w) /\ \A j \in 1..Len(t) : t[j] = w[j]
  <2>1. t \in Seq(PID) /\ Len(t) = (IF n < Len(w) THEN n ELSE Len(w))
        /\ \A j \in 1..Len(t) : t[j] = w[j]
    BY <1>2, TakeIndex
  <2> HIDE DEF t
  <2>2. Len(w) \in Nat /\ Len(t) \in Nat
    BY <1>2, <2>1
  <2> QED
    BY <2>1, <2>2
<1> HIDE DEF t
<1>4. /\ Len(t) \in Nat /\ Len(w) \in Nat /\ DOMAIN t = 1..Len(t)
      /\ DOMAIN w = 1..Len(w) /\ DOMAIN s = 1..Len(s)
  BY <1>2, <1>3
<1>5. PICK e \in [1..Len(w) -> 1..Len(s)] :
        /\ \A i \in 1..Len(w) : w[i] = s[e[i]]
        /\ \A i, j \in 1..Len(w) : i < j => e[i] < e[j]
  BY <1>1 DEF Embeds
<1>6. PICK a \in 1..Len(s), b \in 1..Len(s) : a < b /\ s[a] = p /\ s[b] = q
  BY <1>4 DEF Before
<1>7. PICK j \in 1..Len(t) : t[j] = q
  <2>1. q \in Range(t)
    BY DEF t, w
  <2> QED
    BY <1>4, <2>1 DEF Range
<1>8. PICK i \in 1..Len(w) : w[i] = p
  <2>1. p \in Range(w)
    BY <1>2, <1>4, <1>6 DEF Range
  <2> QED
    BY <1>4, <2>1 DEF Range
<1>9. j \in 1..Len(w) /\ w[j] = q
  BY <1>3, <1>4, <1>7
<1>10. e[i] = a /\ e[j] = b
  <2>1. e[i] \in 1..Len(s) /\ e[j] \in 1..Len(s)
    BY <1>5, <1>8, <1>9
  <2>2. s[e[i]] = s[a] /\ s[e[j]] = s[b]
    BY <1>5, <1>6, <1>8, <1>9
  <2>3. \A m, n2 \in 1..Len(s) : s[m] = s[n2] => m = n2
    BY <1>4 DEF IsInjective
  <2> QED
    BY <1>6, <2>1, <2>2, <2>3
<1>11. i < j
  <2>1. ~(e[j] < e[i]) /\ e[i] # e[j]
    BY <1>6, <1>10
  <2> QED
    BY <1>5, <1>8, <1>9, <2>1
<1>12. i \in 1..Len(t) /\ t[i] = p
  BY <1>3, <1>4, <1>7, <1>8, <1>11
<1> QED
  BY <1>4, <1>12 DEF Range, t, w

\* What @notify in its three forms does to the lists: some of the first
\* waiters on obj and attr go to the end of the command queue.
Notifies(s, obj, attr, t) ==
  \E n \in Nat :
    LET ps == Take(WaitingOn(s, obj, attr), n)
    IN  /\ PartOfSem(s, ps)
        /\ t.qfirst = s.qfirst \o ps
        /\ Range(t.qsem) = Range(s.qsem) \ Range(ps)
        /\ t.qwait = s.qwait /\ t.running = s.running
        /\ t.queue_map = s.queue_map /\ Database(t) = Database(s)
        /\ t.queue = s.queue /\ t.pennies = s.pennies
        /\ \/ t.sem = Lowered(s, Range(ps))
           \/ /\ attr # NULL /\ ps = WaitingOn(s, obj, attr)
              /\ \A k \in SemKeys : k # <<obj, attr>> =>
                   t.sem[k] = s.sem[k] - Waiters(s, Range(ps), k)

\* The release of the first n waiters.
LEMMA ReleaseNotifies ==
  ASSUME NEW s, Good(s), NEW obj, NEW attr, NEW n \in Nat
  PROVE  Notifies(s, obj, attr, Release(s, Take(WaitingOn(s, obj, attr), n)))
<1> DEFINE ps == Take(WaitingOn(s, obj, attr), n)
<1>1. PartOfSem(s, ps)
  BY WaitingOnPart
<1> DEFINE t == Release(s, ps)
<1>2. /\ t.qfirst = s.qfirst \o ps
      /\ Range(t.qsem) = Range(s.qsem) \ Range(ps)
      /\ t.qwait = s.qwait /\ t.running = s.running
      /\ t.queue_map = s.queue_map /\ Database(t) = Database(s)
      /\ t.queue = s.queue /\ t.pennies = s.pennies
      /\ t.sem = Lowered(s, Range(ps))
  <2> HIDE DEF ps
  <2> QED
    BY <1>1, ReleaseEffect
<1> HIDE DEF t
<1> QED
  BY <1>1, <1>2 DEF Notifies, t

\* @notify with a count, for all, and with registers.
LEMMA NotifyEffect ==
  ASSUME NEW s, Good(s), NEW obj \in Objects, NEW attr \in Attrs \cup {NULL}
  PROVE  /\ Notifies(s, obj, attr, execute_one_semaphore(s, obj, attr))
         /\ Notifies(s, obj, attr, NotifyAll(s, obj, attr))
         /\ \A n \in Nat :
              Notifies(s, obj, attr, NotifySemaphores(s, obj, attr, n))
<1> DEFINE w == WaitingOn(s, obj, attr)
<1>1. w \in Seq(PID) /\ Len(w) \in Nat
  <2>1. w \in Seq(PID)
    BY WaitingOnPart DEF PartOfSem
  <2> QED
    BY <2>1
<1>2. Notifies(s, obj, attr, execute_one_semaphore(s, obj, attr))
  BY ReleaseNotifies, 1 \in Nat DEF execute_one_semaphore
<1>3. Notifies(s, obj, attr, NotifyAll(s, obj, attr))
  <2>1. Take(w, Len(w)) = w
    <3> HIDE DEF w
    <3> QED
      BY <1>1, TakeAll
  <2>2. Notifies(s, obj, attr, Release(s, Take(w, Len(w))))
    BY <1>1, ReleaseNotifies
  <2>3. NotifyAll(s, obj, attr) = Release(s, w)
    BY DEF NotifyAll
  <2> HIDE DEF w
  <2> QED
    BY <2>1, <2>2, <2>3
<1>4. ASSUME NEW n \in Nat
      PROVE  Notifies(s, obj, attr, NotifySemaphores(s, obj, attr, n))
  <2> DEFINE ps == Take(w, n)
             t == Release(s, ps)
             am == -(n - Len(ps))
             u == add_to_sem(t, <<obj, attr>>, am)
  <2>1. CASE attr # NULL /\ n > Len(ps)
    <3>1. NotifySemaphores(s, obj, attr, n) = u
      BY <2>1 DEF NotifySemaphores
    <3>2. PartOfSem(s, ps)
      BY WaitingOnPart
    <3>3. ps = w
      <4> HIDE DEF w
      <4>1. Len(ps) = IF n < Len(w) THEN n ELSE Len(w)
        BY <1>1, TakeIndex
      <4>2. ~(n < Len(w))
        BY <1>1, <2>1, <4>1
      <4>3. ps = SubSeq(w, 1, Len(w))
        BY <4>2 DEF Take
      <4> QED
        BY <1>1, <4>3
    <3> HIDE DEF ps
    <3>4. Good(t)
      BY <3>2, ReleaseGood
    <3>5. /\ t.qfirst = s.qfirst \o ps
          /\ Range(t.qsem) = Range(s.qsem) \ Range(ps)
          /\ t.qwait = s.qwait /\ t.running = s.running
          /\ t.queue_map = s.queue_map /\ Database(t) = Database(s)
          /\ t.queue = s.queue /\ t.pennies = s.pennies
          /\ t.sem = Lowered(s, Range(ps))
      BY <3>2, ReleaseEffect
    <3> HIDE DEF t, am
    <3>6. t \in State
      BY <3>4 DEF Good
    <3>7. /\ Lists(u) = Lists(t) /\ Database(u) = Database(t)
          /\ u.queue = t.queue /\ u.pennies = t.pennies
          /\ u.sem = [t.sem EXCEPT ![<<obj, attr>>] = @ + am]
      <4> DEFINE k == <<obj, attr>>
      <4> HIDE DEF k
      <4>1. u = add_to_sem(t, k, am)
        BY DEF k
      <4> HIDE DEF u
      <4>2. /\ Lists(u) = Lists(t) /\ Database(u) = Database(t)
            /\ u.queue = t.queue /\ u.pennies = t.pennies
            /\ u.sem = [t.sem EXCEPT ![k] = @ + am]
        BY <3>6, <4>1 DEF add_to_sem, State, Lists, Database
      <4> QED
        BY <4>2 DEF k
    <3>8. \A k \in SemKeys : k # <<obj, attr>> =>
            u.sem[k] = s.sem[k] - Waiters(s, Range(ps), k)
      <4> HIDE DEF u
      <4>1. \A k \in SemKeys : k # <<obj, attr>> => u.sem[k] = t.sem[k]
        BY <3>6, <3>7 DEF State
      <4>2. \A k \in SemKeys : t.sem[k] = s.sem[k] - Waiters(s, Range(ps), k)
        BY <3>5 DEF Lowered
      <4> QED
        BY <4>1, <4>2
    <3> HIDE DEF u
    <3>9. /\ u.qfirst = s.qfirst \o ps
          /\ Range(u.qsem) = Range(s.qsem) \ Range(ps)
          /\ u.qwait = s.qwait /\ u.running = s.running
          /\ u.queue_map = s.queue_map /\ Database(u) = Database(s)
          /\ u.queue = s.queue /\ u.pennies = s.pennies
      BY <3>5, <3>7 DEF Lists
    <3> QED
      BY <2>1, <3>1, <3>2, <3>3, <3>8, <3>9 DEF Notifies, ps, w
  <2>2. CASE ~(attr # NULL /\ n > Len(ps))
    <3>1. NotifySemaphores(s, obj, attr, n) = Release(s, Take(WaitingOn(s, obj, attr), n))
      BY <2>2 DEF NotifySemaphores
    <3> QED
      BY <3>1, ReleaseNotifies
  <2> QED
    BY <2>1, <2>2
<1> QED
  BY <1>2, <1>3, <1>4

-----------------------------------------------------------------------------
\* The command queue is first in, first out.

\* From s to t the command queue grows at its end.
Behind(s, t) ==
  /\ t.qfirst \in Seq(PID) /\ Len(s.qfirst) <= Len(t.qfirst)
  /\ \A i \in 1..Len(s.qfirst) : t.qfirst[i] = s.qfirst[i]

\* What grows at the end keeps its first elements.
LEMMA BehindTakes ==
  ASSUME NEW s, NEW t, s.qfirst \in Seq(PID), Behind(s, t)
  PROVE  Take(t.qfirst, Len(s.qfirst) - 0) = Drop(s.qfirst, 0)
<1> DEFINE q == s.qfirst
           r == t.qfirst
           u == Take(r, Len(q))
<1>1. /\ q \in Seq(PID) /\ r \in Seq(PID) /\ Len(q) <= Len(r)
      /\ \A i \in 1..Len(q) : r[i] = q[i]
  BY DEF Behind
<1> HIDE DEF q, r
<1>2. Len(q) \in Nat /\ Len(r) \in Nat /\ Len(q) - 0 = Len(q) /\ 0 + 1 = 1
  BY <1>1
<1>3. Drop(q, 0) = q
  BY <1>1, <1>2 DEF Drop
<1>4. u \in Seq(PID) /\ Len(u) = Len(q) /\ \A j \in 1..Len(q) : u[j] = r[j]
  <2>1. u \in Seq(PID) /\ Len(u) = (IF Len(q) < Len(r) THEN Len(q) ELSE Len(r))
        /\ \A j \in 1..Len(u) : u[j] = r[j]
    BY <1>1, <1>2, TakeIndex
  <2> HIDE DEF u
  <2> QED
    BY <1>1, <1>2, <2>1
<1> HIDE DEF u
<1>5. u = q
  BY <1>1, <1>4
<1> QED
  BY <1>2, <1>3, <1>5 DEF u, q, r

\* Concatenation grows at the end.
LEMMA ConcatBehind ==
  ASSUME NEW s, NEW t, s.qfirst \in Seq(PID), NEW u \in Seq(PID),
         t.qfirst = s.qfirst \o u
  PROVE  Behind(s, t)
<1> DEFINE q == s.qfirst
<1>1. q \in Seq(PID) /\ t.qfirst = q \o u
  OBVIOUS
<1> HIDE DEF q
<1>2. /\ q \o u \in Seq(PID) /\ Len(q \o u) = Len(q) + Len(u)
      /\ Len(q) \in Nat /\ Len(u) \in Nat
      /\ \A i \in 1..Len(q) : (q \o u)[i] = q[i]
  BY <1>1
<1>3. Len(q) <= Len(q \o u)
  BY <1>2
<1> QED
  BY <1>1, <1>2, <1>3 DEF Behind, q

\* What loses its first element keeps the others.
LEMMA TakeTail ==
  ASSUME NEW q \in Seq(PID), q # << >>
  PROVE  Take(Tail(q), Len(q) - 1) = Drop(q, 1)
<1>1. Len(q) \in Nat /\ Len(q) # 0 /\ 1 + 1 = 2
  OBVIOUS
<1>2. Tail(q) \in Seq(PID) /\ Len(Tail(q)) = Len(q) - 1
  BY <1>1
<1>3. Take(Tail(q), Len(Tail(q))) = Tail(q)
  BY <1>2, TakeAll
<1>4. Drop(q, 1) = Tail(q)
  <2> DEFINE d == SubSeq(q, 2, Len(q))
             t == Tail(q)
  <2>1. d \in Seq(PID) /\ Len(d) = Len(q) - 1
        /\ \A i \in 1..(Len(q) - 1) : d[i] = q[i + 1]
    <3>1. 2 \in Int /\ Len(q) \in Int /\ 1 <= 2 /\ Len(q) <= Len(q) /\ 2 <= Len(q) + 1
      BY <1>1
    <3>2. /\ d \in Seq(PID) /\ Len(d) = Len(q) - 2 + 1
          /\ \A i \in 1..(Len(q) - 2 + 1) : d[i] = q[2 + i - 1]
      <4> DEFINE n == Len(q)
      <4>1. 2 \in Int /\ n \in Int /\ 1 <= 2 /\ n <= Len(q) /\ 2 <= n + 1
        BY <3>1
      <4>2. d = SubSeq(q, 2, n)
        OBVIOUS
      <4> HIDE DEF n, d
      <4>3. /\ SubSeq(q, 2, n) \in Seq(PID) /\ Len(SubSeq(q, 2, n)) = n - 2 + 1
            /\ \A i \in 1..(n - 2 + 1) : SubSeq(q, 2, n)[i] = q[2 + i - 1]
        BY <4>1, SubSeqFacts
      <4> QED
        BY <4>2, <4>3 DEF n
    <3> HIDE DEF d
    <3> QED
      BY <1>1, <3>2
  <2>2. t \in Seq(PID) /\ Len(t) = Len(q) - 1
        /\ \A i \in 1..(Len(q) - 1) : t[i] = q[i + 1]
    BY <1>1
  <2> HIDE DEF d, t
  <2>3. d = t
    BY <2>1, <2>2
  <2> QED
    BY <1>1, <2>3 DEF d, t, Drop
<1> QED
  BY <1>2, <1>3, <1>4

\* A new entry is behind the others.
LEMMA FreshBehind ==
  ASSUME NEW s, Good(s), NEW t, Fresh(s, t)
  PROVE  Behind(s, t)
<1>1. s.qfirst \in Seq(PID)
  BY DEF Good, State
<1>2. CASE t.qfirst = s.qfirst
  BY <1>1, <1>2 DEF Behind
<1>3. CASE t.qfirst # s.qfirst
  <2>1. PICK pid \in PID : t.qfirst = Append(s.qfirst, pid)
    BY <1>3 DEF Fresh
  <2>2. <<pid>> \in Seq(PID) /\ Append(s.qfirst, pid) = s.qfirst \o <<pid>>
    BY <1>1
  <2> QED
    BY <1>1, <2>1, <2>2, ConcatBehind
<1> QED
  BY <1>2, <1>3

\* Growing at the end twice is growing at the end.
LEMMA BehindTrans ==
  ASSUME NEW s, NEW t, NEW u, s.qfirst \in Seq(PID), Behind(s, t), Behind(t, u)
  PROVE  Behind(s, u)
BY DEF Behind

\* do_raw_restart() queues behind what is there, by induction on dbrefs.
LEMMA RawRestartBehind ==
  ASSUME NEW s, Good(s), NEW R, NEW loss \in [Objects -> LossChoices]
  PROVE  Behind(s, do_raw_restart(s, R, loss))
<1> DEFINE F == Restarts(s, R, loss)
<1>0. db_top \in Nat
  BY ConfigAssumption
<1>1. do_raw_restart(s, R, loss) = F[db_top]
  BY DEF do_raw_restart, Restarted, Restarts
<1>2. F = [i \in 0..db_top |-> Restarted(s, R, loss, F, i)]
  BY RestartsDefined
<1> HIDE DEF F
<1> DEFINE ok == {n \in Nat : n <= db_top => Good(F[n]) /\ Behind(s, F[n])}
<1>3. 0 \in ok
  <2>1. F[0] = s
    BY <1>0, <1>2 DEF Restarted
  <2>2. Fresh(s, s)
    BY DEF Fresh
  <2> QED
    BY <2>1, <2>2, FreshBehind
<1>4. ASSUME NEW n \in Nat, n \in ok PROVE n + 1 \in ok
  <2> SUFFICES ASSUME n + 1 <= db_top
               PROVE  Good(F[n + 1]) /\ Behind(s, F[n + 1])
    OBVIOUS
  <2>1. Good(F[n]) /\ Behind(s, F[n])
    BY <1>0, <1>4
  <2>2. n \in Objects /\ n + 1 \in 0..db_top /\ n + 1 # 0 /\ (n + 1) - 1 = n
    BY <1>0 DEF Objects
  <2>3. loss[n] \in {0, 1}
    BY <2>2, LossType
  <2>4. F[n + 1] = F[n] \/ F[n + 1] = insert_que(F[n], n, loss[n])
    BY <1>2, <2>2 DEF Restarted
  <2>5. Good(F[n + 1])
    BY <2>1, <2>2, <2>3, <2>4, InsertQueGood
  <2>6. Fresh(F[n], F[n + 1])
    <3>1. CASE F[n + 1] = F[n]
      BY <3>1 DEF Fresh
    <3>2. CASE F[n + 1] = insert_que(F[n], n, loss[n])
      BY <2>1, <2>2, <2>3, <3>2, InsertQueFresh
    <3> QED
      BY <2>4, <3>1, <3>2
  <2>7. Behind(F[n], F[n + 1])
    BY <2>1, <2>6, FreshBehind
  <2>8. s.qfirst \in Seq(PID)
    BY DEF Good, State
  <2> QED
    BY <2>1, <2>5, <2>7, <2>8, BehindTrans
<1> HIDE DEF ok
<1>5. Nat \subseteq ok
  BY <1>3, <1>4, NatSetInduction
<1> QED
  BY <1>0, <1>1, <1>5 DEF ok

\* @restart: the halt keeps the command queue, the STARTUPs go behind it.
LEMMA RestartBehind ==
  ASSUME NEW s, Good(s), NEW v, NEW loss \in [Objects -> LossChoices]
  PROVE  Behind(s, do_restart_com(s, v, loss))
<1> DEFINE R == IF v \in Players THEN {x \in Objects : s.owner[x] = v} ELSE {v}
           h == do_halt(s, {v})
<1>1. Good(h)
  BY HaltGood
<1>2. h.qfirst = s.qfirst
  BY HaltEffect DEF Good
<1>3. do_restart_com(s, v, loss) = do_raw_restart(h, R, loss)
  BY DEF do_restart_com
<1> HIDE DEF h, R
<1>4. Behind(h, do_raw_restart(h, R, loss))
  BY <1>1, RawRestartBehind
<1> QED
  BY <1>2, <1>3, <1>4 DEF Behind

\* @halt with a command queues it behind what is there.
LEMMA Halt1Behind ==
  ASSUME NEW s, Good(s), NEW v \in Objects, NEW ncom, NEW loss \in {0, 1}
  PROVE  Behind(s, do_halt1(s, v, ncom, loss))
<1> DEFINE t == do_halt(s, {v})
<1>1. Good(t)
  BY HaltGood
<1>2. t.qfirst = s.qfirst
  BY HaltEffect DEF Good
<1>3. \/ do_halt1(s, v, ncom, loss) = insert_que(t, v, loss)
      \/ do_halt1(s, v, ncom, loss) = [t EXCEPT !.halted = t.halted \cup {v}]
      \/ do_halt1(s, v, ncom, loss) = t
  BY DEF do_halt1
<1> HIDE DEF t
<1>4. [t EXCEPT !.halted = t.halted \cup {v}].qfirst = t.qfirst
  BY <1>1 DEF Good, State
<1>5. Fresh(t, insert_que(t, v, loss))
  BY <1>1, InsertQueFresh
<1>6. Fresh(t, do_halt1(s, v, ncom, loss))
  <2>1. \A u : u.qfirst = t.qfirst => Fresh(t, u)
    BY DEF Fresh
  <2> QED
    BY <1>3, <1>4, <1>5, <2>1
<1>7. Behind(t, do_halt1(s, v, ncom, loss))
  BY <1>1, <1>6, FreshBehind
<1> QED
  BY <1>2, <1>7 DEF Behind

\* @chown leaves the command queue alone.
LEMMA ChownQueue ==
  ASSUME NEW s, Good(s), NEW thing \in Objects, NEW new \in Players, NEW preserve
  PROVE  chown_object(s, thing, new, preserve).qfirst = s.qfirst
<1> DEFINE ow == [s.owner EXCEPT ![thing] = new]
           po == [s.powers EXCEPT ![thing] = {}]
           t == [s EXCEPT !.owner = ow]
           u == [t EXCEPT !.powers = po, !.halted = s.halted \cup {thing}]
<1>1. s \in State
  BY DEF Good
<1>2. /\ ow \in [Objects -> Players] /\ po \in [Objects -> SUBSET Powers]
      /\ s.halted \cup {thing} \in SUBSET Objects
  BY <1>1 DEF State
<1>3. \/ chown_object(s, thing, new, preserve) = t
      \/ chown_object(s, thing, new, preserve) = do_halt(u, {thing})
  BY <1>1 DEF chown_object, State
<1> HIDE DEF ow, po
<1>4. t \in State /\ u \in State /\ t.qfirst = s.qfirst /\ u.qfirst = s.qfirst
  BY <1>1, <1>2 DEF State
<1> HIDE DEF t, u
<1>5. do_halt(u, {thing}).qfirst = u.qfirst
  BY <1>4, HaltEffect
<1> QED
  BY <1>3, <1>4, <1>5

\* The destruction of an object queues its event only.
LEMMA FreeObjectFresh ==
  ASSUME NEW s, Good(s), NEW thing \in Objects, NEW loss \in {0, 1}
  PROVE  Fresh(s, free_object(s, thing, loss))
<1> DEFINE e == queue_event(s, loss)
           h == do_halt(e, {thing})
           d == Discard(h, WaitingOn(h, thing, NULL))
           t == DrainAll(h, thing, NULL)
<1>1. Good(e) /\ Fresh(s, e)
  BY QueueEventGood, QueueEventFresh
<1>2. free_object(s, thing, loss) =
        [t EXCEPT !.owner[thing] = GOD, !.powers[thing] = {},
                  !.halted = @ \ {thing}, !.queue[thing] = 0,
                  !.garbage = @ \cup {thing}]
  BY DEF free_object
<1> HIDE DEF e
<1>3. Good(h)
  BY <1>1, HaltGood
<1>4. h.qfirst = e.qfirst
  BY <1>1, HaltEffect DEF Good
<1> HIDE DEF h
<1>5. Good(t)
  BY <1>3, DrainGood
<1>6. Lists(t) = Lists(d)
  BY <1>3, DrainAllEffect
<1>7. d.qfirst = h.qfirst
  BY <1>3, WaitingOnPart, DiscardEffect
<1> HIDE DEF d, t
<1>8. free_object(s, thing, loss).qfirst = t.qfirst
  BY <1>2, <1>5 DEF Good, State
<1>9. free_object(s, thing, loss).qfirst = e.qfirst
  BY <1>4, <1>6, <1>7, <1>8 DEF Lists
<1> QED
  BY <1>1, <1>9 DEF Fresh

-----------------------------------------------------------------------------
\* The steps of the specification.

\* What a step does to the command queue.
Moves ==
  \/ Fresh(St, St')
  \/ \E obj \in Objects, attr \in Attrs \cup {NULL} : Notifies(St, obj, attr, St')
  \/ QueueUpdate /\ St' = queue_update(St)
  \/ St.qfirst # << >> /\ St'.qfirst = Tail(St.qfirst)
  \/ down' /\ St'.qfirst = << >>
  \/ Renews /\ Behind(St, St')

\* Every step is one of these, from a state in which nothing dangles.
LEMMA NextMoves == IInv /\ Next => Good(St) /\ Moves
<1> SUFFICES ASSUME IInv, Next PROVE Good(St) /\ Moves
  OBVIOUS
<1>1. Up => Good(St)
  BY DEF IInv, Up, Dangling, Ordered, Dangles, Good, St
<1>2. \A s \in State : Becomes(s) => St' = s
  BY RecordOfFields DEF Becomes, St
<1>3. ASSUME NEW s, Command(s), s \in State
      PROVE  Good(St) /\ St' = s
  BY <1>1, <1>2, <1>3 DEF Command
<1>4. \A s : Command(s) => Good(St)
  BY <1>1 DEF Command
<1>5. ASSUME NEW s, Command(s), s \in State, Fresh(St, s)
      PROVE  Good(St) /\ Moves
  BY <1>3, <1>5 DEF Moves
<1>6. mudtime \in Int
  BY DEF IInv
<1>7. Real \subseteq Objects /\ Actors \subseteq Objects
      /\ DOMAIN St.queue_map = DOMAIN queue_map
  BY BoundAssumption DEF Real, Actors, St
<1>8. CASE QueueActionList
  <2>1. PICK x \in Real, loss \in LossChoices : Command(insert_que(St, x, loss))
    BY <1>8 DEF QueueActionList
  <2>2. x \in Objects /\ loss \in {0, 1} /\ Good(St)
    BY <1>4, <1>7, <2>1, LossType
  <2>3. insert_que(St, x, loss) \in State /\ Fresh(St, insert_que(St, x, loss))
    BY <2>2, InsertQueGood, InsertQueFresh DEF Good
  <2> QED
    BY <1>5, <2>1, <2>3
<1>9. CASE QueueEvent
  <2>1. PICK loss \in LossChoices : Command(queue_event(St, loss))
    BY <1>9 DEF QueueEvent
  <2>2. loss \in {0, 1} /\ Good(St)
    BY <1>4, <2>1, LossType
  <2>3. queue_event(St, loss) \in State /\ Fresh(St, queue_event(St, loss))
    BY <2>2, QueueEventGood, QueueEventFresh DEF Good
  <2> QED
    BY <1>5, <2>1, <2>3
<1>10. CASE Wait
  <2>1. PICK x \in Actors, n \in Delays, until \in BOOLEAN, loss \in LossChoices :
          Command(wait_que(St, x, n, NOTHING, NULL, until, loss))
    BY <1>10 DEF Wait
  <2>2. x \in Objects /\ n \in Int /\ loss \in {0, 1} /\ Good(St)
    BY <1>4, <1>7, <2>1, LossType, BoundAssumption
  <2>3. NOTHING \in Objects \cup {NOTHING} /\ NULL \in Attrs \cup {NULL}
    OBVIOUS
  <2> DEFINE t == wait_que(St, x, n, NOTHING, NULL, until, loss)
  <2>4. Good(t)
    BY <1>6, <2>2, <2>3, WaitQueGood
  <2>5. Fresh(St, t)
    BY <1>6, <2>2, <2>3, WaitQueFresh
  <2> HIDE DEF t
  <2> QED
    BY <1>5, <2>1, <2>4, <2>5 DEF Good, t
<1>11. CASE SemWait
  <2>1. PICK x \in Actors, obj \in Real, attr \in Attrs, n \in Delays \cup {-1},
             until \in BOOLEAN, loss \in LossChoices :
          Command(do_wait(St, x, obj, attr, n, until, loss))
    BY <1>11 DEF SemWait
  <2>2. x \in Objects /\ obj \in Objects /\ loss \in {0, 1} /\ Good(St)
    BY <1>4, <1>7, <2>1, LossType
  <2>3. n \in Int
    BY BoundAssumption
  <2> DEFINE t == do_wait(St, x, obj, attr, n, until, loss)
  <2>4. Good(t)
    BY <1>6, <2>2, <2>3, DoWaitGood
  <2>5. Fresh(St, t)
    BY <1>6, <2>2, <2>3, DoWaitFresh
  <2> HIDE DEF t
  <2> QED
    BY <1>5, <2>1, <2>4, <2>5 DEF Good, t
<1>12. CASE WaitPid
  <2>1. PICK pid \in DOMAIN queue_map, mode \in {"until", "adjust", "set"},
             n \in Delays : Command(do_waitpid(St, pid, mode, n))
    BY <1>12 DEF WaitPid
  <2>2. pid \in DOMAIN St.queue_map /\ n \in Int /\ Good(St)
    BY <1>4, <1>7, <2>1, BoundAssumption
  <2> DEFINE t == do_waitpid(St, pid, mode, n)
  <2>3. Good(t)
    BY <1>6, <2>2, DoWaitPidGood
  <2>4. t.qfirst = St.qfirst
    BY <1>6, <2>2, WaitPidEffect
  <2> HIDE DEF t
  <2>5. t \in State /\ Fresh(St, t)
    BY <2>3, <2>4 DEF Good, Fresh
  <2> QED
    BY <1>5, <2>1, <2>5 DEF t
<1>13. CASE HaltPid
  <2>1. PICK pid \in DOMAIN queue_map : Command(do_haltpid(St, pid))
    BY <1>13 DEF HaltPid
  <2>2. pid \in DOMAIN St.queue_map /\ Good(St)
    BY <1>4, <1>7, <2>1
  <2>3. do_haltpid(St, pid) \in State
    BY <2>2, HaltPidGood
  <2>4. do_haltpid(St, pid).qfirst = St.qfirst
    BY <2>2, HaltPidEffect DEF PidHalted
  <2> QED
    BY <1>5, <2>1, <2>3, <2>4 DEF Fresh
<1>14. CASE Halt
  <2>1. PICK v \in Real, ncom \in BOOLEAN, loss \in LossChoices :
          Command(do_halt1(St, v, ncom, loss))
    BY <1>14 DEF Halt
  <2>2. v \in Objects /\ loss \in {0, 1} /\ Good(St)
    BY <1>4, <1>7, <2>1, LossType
  <2> DEFINE t == do_halt1(St, v, ncom, loss)
  <2>3. t \in State /\ Behind(St, t)
    BY <2>2, Halt1Good, Halt1Behind DEF Good
  <2> HIDE DEF t
  <2>4. St' = t
    BY <1>3, <2>1, <2>3 DEF t
  <2> QED
    BY <1>14, <2>2, <2>3, <2>4 DEF Moves, Renews
<1>15. CASE AllHalt
  <2>1. Command(do_halt(St, Players))
    BY <1>15 DEF AllHalt
  <2>2. Good(St)
    BY <1>4, <2>1
  <2>3. do_halt(St, Players) \in State
    BY <2>2, HaltGood DEF Good
  <2>4. do_halt(St, Players).qfirst = St.qfirst
    BY <2>2, HaltEffect DEF Good
  <2> QED
    BY <1>5, <2>1, <2>3, <2>4 DEF Fresh
<1>16. CASE Restart
  <2>1. PICK v \in Real, loss \in [Objects -> LossChoices] :
          Command(do_restart_com(St, v, loss))
    BY <1>16 DEF Restart
  <2>2. Good(St)
    BY <1>4, <2>1
  <2> DEFINE t == do_restart_com(St, v, loss)
  <2>3. t \in State /\ Behind(St, t)
    BY <2>2, RestartGood, RestartBehind DEF Good
  <2> HIDE DEF t
  <2>4. St' = t
    BY <1>3, <2>1, <2>3 DEF t
  <2> QED
    BY <1>16, <2>2, <2>3, <2>4 DEF Moves, Renews
<1>17. ASSUME NEW obj \in Real, NEW attr \in Attrs \cup {NULL}, NEW t, Command(t),
              t \in State, Good(St) => Notifies(St, obj, attr, t)
       PROVE  Good(St) /\ Moves
  BY <1>3, <1>7, <1>17 DEF Moves
<1>18. CASE Notify
  <2>1. PICK obj \in Real, attr \in Attrs \cup {NULL}, n \in Counts :
          Command(NotifySemaphores(St, obj, attr, n))
    BY <1>18 DEF Notify
  <2>2. obj \in Objects /\ n \in Nat /\ Good(St)
    BY <1>4, <1>7, <2>1, BoundAssumption
  <2>3. NotifySemaphores(St, obj, attr, n) \in State
        /\ Notifies(St, obj, attr, NotifySemaphores(St, obj, attr, n))
    BY <2>2, NotifyGood, NotifyEffect DEF Good
  <2> QED
    BY <1>17, <2>1, <2>3
<1>19. CASE NotifyEvery
  <2>1. PICK obj \in Real, attr \in Attrs \cup {NULL} :
          Command(NotifyAll(St, obj, attr))
    BY <1>19 DEF NotifyEvery
  <2>2. obj \in Objects /\ Good(St)
    BY <1>4, <1>7, <2>1
  <2>3. NotifyAll(St, obj, attr) \in State
        /\ Notifies(St, obj, attr, NotifyAll(St, obj, attr))
    BY <2>2, NotifyGood, NotifyEffect DEF Good
  <2> QED
    BY <1>17, <2>1, <2>3
<1>20. CASE NotifySetq
  <2>1. PICK obj \in Real, attr \in Attrs \cup {NULL} :
          Command(execute_one_semaphore(St, obj, attr))
    BY <1>20 DEF NotifySetq
  <2>2. obj \in Objects /\ Good(St)
    BY <1>4, <1>7, <2>1
  <2>3. execute_one_semaphore(St, obj, attr) \in State
        /\ Notifies(St, obj, attr, execute_one_semaphore(St, obj, attr))
    BY <2>2, NotifyGood, NotifyEffect DEF Good
  <2> QED
    BY <1>17, <2>1, <2>3
<1>21. CASE Drain
  <2>1. PICK obj \in Real, attr \in Attrs \cup {NULL}, n \in Counts :
          Command(DrainSome(St, obj, attr, n))
    BY <1>21 DEF Drain
  <2>2. n \in Nat /\ Good(St)
    BY <1>4, <2>1, BoundAssumption
  <2> DEFINE ps == Take(WaitingOn(St, obj, attr), n)
  <2>3. DrainSome(St, obj, attr, n) = Discard(St, ps) /\ PartOfSem(St, ps)
    BY <2>2, WaitingOnPart DEF DrainSome
  <2> HIDE DEF ps
  <2>4. Discard(St, ps) \in State /\ Discard(St, ps).qfirst = St.qfirst
    BY <2>2, <2>3, DiscardGood, DiscardEffect DEF Good
  <2> QED
    BY <1>5, <2>1, <2>3, <2>4 DEF Fresh
<1>22. CASE DrainEvery
  <2>1. PICK obj \in Real, attr \in Attrs \cup {NULL} :
          Command(DrainAll(St, obj, attr))
    BY <1>22 DEF DrainEvery
  <2>2. Good(St)
    BY <1>4, <2>1
  <2> DEFINE w == WaitingOn(St, obj, attr)
             t == DrainAll(St, obj, attr)
  <2>3. t \in State
    BY <2>2, DrainGood DEF Good
  <2>4. Lists(t) = Lists(Discard(St, w))
    BY <2>2, DrainAllEffect
  <2>5. Discard(St, w).qfirst = St.qfirst
    BY <2>2, WaitingOnPart, DiscardEffect
  <2> HIDE DEF t, w
  <2>6. Fresh(St, t)
    BY <2>4, <2>5 DEF Fresh, Lists
  <2> QED
    BY <1>5, <2>1, <2>3, <2>6 DEF t
<1>23. CASE SetHalt
  <2>1. PICK x \in Real :
          Command([St EXCEPT !.halted = IF x \in @ THEN @ \ {x} ELSE @ \cup {x}])
    BY <1>23 DEF SetHalt
  <2> DEFINE H == IF x \in St.halted THEN St.halted \ {x} ELSE St.halted \cup {x}
             t == [St EXCEPT !.halted = H]
  <2>2. Good(St) /\ x \in Objects /\ St.halted \subseteq Objects
    BY <1>4, <1>7, <2>1 DEF Good, State
  <2>3. H \in SUBSET Objects
    BY <2>2
  <2>4. Command(t)
    BY <2>1
  <2> HIDE DEF H
  <2>5. t \in State /\ t.qfirst = St.qfirst
    BY <2>2, <2>3 DEF Good, State
  <2> HIDE DEF t
  <2> QED
    BY <1>5, <2>4, <2>5 DEF Fresh
<1>24. CASE Chown
  <2>1. PICK thing \in Things \ garbage, new \in NewOwners, preserve \in BOOLEAN :
          Command(chown_object(St, thing, new, preserve))
    BY <1>24 DEF Chown
  <2>2. thing \in Objects /\ new \in Players /\ Good(St)
    BY <1>4, <2>1, BoundAssumption DEF Things
  <2>3. chown_object(St, thing, new, preserve) \in State
    BY <2>2, ChownGood DEF Good
  <2>4. chown_object(St, thing, new, preserve).qfirst = St.qfirst
    BY <2>2, ChownQueue
  <2> QED
    BY <1>5, <2>1, <2>3, <2>4 DEF Fresh
<1>25. CASE Destroy
  <2>1. PICK thing \in Things \ garbage, loss \in LossChoices :
          Command(free_object(St, thing, loss))
    BY <1>25 DEF Destroy
  <2>2. thing \in Objects /\ loss \in {0, 1} /\ Good(St)
    BY <1>4, <2>1, LossType DEF Things
  <2>3. free_object(St, thing, loss) \in State
        /\ Fresh(St, free_object(St, thing, loss))
    BY <2>2, FreeObjectGood, FreeObjectFresh DEF Good
  <2> QED
    BY <1>5, <2>1, <2>3
<1>26. CASE Tick
  <2>1. St' = St /\ Up
    BY <1>26 DEF Tick, St
  <2> QED
    BY <1>1, <2>1 DEF Moves, Fresh
<1>27. CASE QueueUpdate
  <2>1. Up /\ Becomes(queue_update(St))
    BY <1>27 DEF QueueUpdate
  <2>2. queue_update(St) \in State
    BY <1>1, <1>6, <2>1, QueueUpdateGood DEF Good
  <2> QED
    BY <1>1, <1>2, <1>27, <2>1, <2>2 DEF Moves
<1>28. CASE DoTop
  <2>1. Command(do_top(St)) /\ St.qfirst # << >>
    BY <1>28 DEF DoTop, St
  <2>2. Good(St)
    BY <1>4, <2>1
  <2>3. do_top(St) \in State /\ do_top(St).qfirst = Tail(St.qfirst)
    BY <2>1, <2>2, DoTopGood, DoTopEffect DEF Good
  <2>4. St' = do_top(St)
    BY <1>3, <2>1, <2>3
  <2> QED
    BY <2>1, <2>2, <2>3, <2>4 DEF Moves
<1>29. CASE EndEntry
  <2>1. Command(EndOfEntry(St)) /\ St.running # << >>
    BY <1>29 DEF EndEntry, St
  <2>2. Good(St)
    BY <1>4, <2>1
  <2>3. EndOfEntry(St) \in State /\ EndOfEntry(St).qfirst = St.qfirst
    BY <2>1, <2>2, EndOfEntryGood, EndOfEntryEffect DEF Good
  <2> QED
    BY <1>5, <2>1, <2>3 DEF Fresh
<1>30. CASE Shutdown
  <2>1. Up /\ Becomes(shutdown_queues(St)) /\ down'
    BY <1>30 DEF Shutdown
  <2>2. shutdown_queues(St).qfirst = << >>
    BY <1>1, <2>1, ShutdownEffect
  <2>3. St'.qfirst = << >>
    BY <2>1, <2>2 DEF Becomes, St
  <2> QED
    BY <1>1, <2>1, <2>3 DEF Moves
<1> QED
  BY <1>8, <1>9, <1>10, <1>11, <1>12, <1>13, <1>14, <1>15, <1>16, <1>18,
     <1>19, <1>20, <1>21, <1>22, <1>23, <1>24, <1>25, <1>26, <1>27, <1>28, <1>29,
     <1>30 DEF Next

\* What grows twice at the end keeps its first elements.
LEMMA ConcatTwice ==
  ASSUME NEW s, NEW t, s.qfirst \in Seq(PID), NEW u \in Seq(PID),
         NEW v \in Seq(PID), t.qfirst = s.qfirst \o u \o v
  PROVE  Behind(s, t)
<1> DEFINE g == s.qfirst \o u
           w == [qfirst |-> g]
<1>1. g \in Seq(PID)
  OBVIOUS
<1>2. w.qfirst = g /\ t.qfirst = g \o v /\ g = s.qfirst \o u
  OBVIOUS
<1> HIDE DEF w, g
<1>3. Behind(s, w)
  <2>1. w.qfirst = s.qfirst \o u
    BY <1>2
  <2> QED
    BY <2>1, ConcatBehind
<1>4. Behind(w, t)
  <2>1. w.qfirst \in Seq(PID) /\ t.qfirst = w.qfirst \o v
    BY <1>1, <1>2
  <2> QED
    BY <2>1, ConcatBehind
<1> QED
  BY <1>3, <1>4, BehindTrans

\* The command queue is first in, first out: until the game goes down, a step
\* takes at most its first entry away and only adds behind the others, so no
\* action list overtakes another that was queued before it.
THEOREM FirstInFirstOut == Spec => CommandFIFO
<1> DEFINE A == down' \/ \E n \in {0, 1} :
                  Take(qfirst', Len(qfirst) - n) = Drop(qfirst, n)
<1>1. ASSUME IInv, Next PROVE A
  <2>1. Good(St) /\ Moves
    BY <1>1, NextMoves
  <2>2. St.qfirst = qfirst /\ St'.qfirst = qfirst' /\ qfirst \in Seq(PID)
    BY <2>1 DEF St, Good, State
  <2>3. Behind(St, St') => A
    <3> SUFFICES ASSUME Behind(St, St') PROVE A
      OBVIOUS
    <3>1. St.qfirst \in Seq(PID)
      BY <2>2
    <3>2. \A s, t : s.qfirst \in Seq(PID) /\ Behind(s, t) =>
             Take(t.qfirst, Len(s.qfirst) - 0) = Drop(s.qfirst, 0)
      BY BehindTakes
    <3>3. Take(St'.qfirst, Len(St.qfirst) - 0) = Drop(St.qfirst, 0)
      BY <3>1, <3>2
    <3> QED
      BY <2>2, <3>3
  <2>4. \A s, t : s.qfirst \in Seq(PID) /\ (\E u \in Seq(PID) : t.qfirst = s.qfirst \o u)
           => Behind(s, t)
    BY ConcatBehind
  <2>5. CASE Fresh(St, St')
    <3>1. \A t : Fresh(St, t) => Behind(St, t)
      BY <2>1, FreshBehind
    <3> QED
      BY <2>3, <2>5, <3>1
  <2>6. CASE \E obj \in Objects, attr \in Attrs \cup {NULL} :
                Notifies(St, obj, attr, St')
    <3>1. PICK ps : PartOfSem(St, ps) /\ St'.qfirst = St.qfirst \o ps
      BY <2>6 DEF Notifies
    <3>2. ps \in Seq(PID)
      BY <3>1 DEF PartOfSem
    <3> QED
      BY <2>2, <2>3, <2>4, <3>1, <3>2
  <2>7. CASE QueueUpdate /\ St' = queue_update(St)
    <3>1. mudtime \in Int
      BY <1>1 DEF IInv
    <3>2. PICK due \in Seq(PID), late \in Seq(PID) :
            Updated(St, due, late, queue_update(St))
      BY <2>1, <3>1, QueueUpdateEffect
    <3>3. \A t : t.qfirst = St.qfirst \o due \o late => Behind(St, t)
      BY <2>2, ConcatTwice
    <3>8. Behind(St, St')
      BY <2>7, <3>2, <3>3 DEF Updated
    <3> QED
      BY <2>3, <3>8
  <2>8. CASE St.qfirst # << >> /\ St'.qfirst = Tail(St.qfirst)
    BY <2>2, <2>8, TakeTail
  <2>9. CASE down'
    BY <2>9
  <2>10. CASE Renews /\ Behind(St, St')
    BY <2>3, <2>10
  <2> QED
    BY <2>1, <2>5, <2>6, <2>7, <2>8, <2>9, <2>10 DEF Moves
<1>2. IInv /\ [Next]_vars => [A]_vars
  <2> HIDE DEF A
  <2> QED
    BY <1>1
<1> QED
  BY <1>1, Invariance, PTL DEF Spec, CommandFIFO

-----------------------------------------------------------------------------
\* How an entry comes into the command queue.

\* Why p may join the command queue: it is a new entry, its time has come, or
\* it is the first of those waiting on its semaphore.
Joins(s, t, p) ==
  \/ p \notin DOMAIN s.queue_map
  \/ p \in Range(s.qwait) /\ s.queue_map[p].wait_until <= mudtime
  \/ /\ p \in Range(s.qsem)
     /\ s.queue_map[p].wait_until # 0 /\ s.queue_map[p].wait_until <= mudtime
  \/ /\ p \in Range(s.qsem)
     /\ \A q \in Range(s.qsem) :
          Before(s.qsem, q, p) /\ SemKey(s.queue_map[q]) = SemKey(s.queue_map[p])
            => q \notin Range(t.qsem)

\* A notification releases the first waiters.
LEMMA NotifiesJoins ==
  ASSUME NEW s, Good(s), NEW obj, NEW attr, NEW t, Notifies(s, obj, attr, t),
         NEW p \in Range(t.qfirst) \ Range(s.qfirst)
  PROVE  Joins(s, t, p)
<1>1. PICK n \in Nat :
        LET ps == Take(WaitingOn(s, obj, attr), n)
        IN  /\ PartOfSem(s, ps) /\ t.qfirst = s.qfirst \o ps
            /\ Range(t.qsem) = Range(s.qsem) \ Range(ps)
  BY DEF Notifies
<1> DEFINE S == {e \in DOMAIN s.queue_map :
                  /\ s.queue_map[e].semaphore_obj = obj
                  /\ attr # NULL => s.queue_map[e].semaphore_attr = attr}
           ps == Take(Keep(s.qsem, S), n)
<1>2. /\ ps \in Seq(PID) /\ Range(ps) \subseteq Range(s.qsem)
      /\ t.qfirst = s.qfirst \o ps
      /\ Range(t.qsem) = Range(s.qsem) \ Range(ps)
  BY <1>1 DEF PartOfSem, WaitingOn
<1>3. /\ s.qsem \in Seq(PID) /\ IsInjective(s.qsem) /\ s.qfirst \in Seq(PID)
      /\ Range(s.qsem) \subseteq DOMAIN s.queue_map
  BY DEF Good, State, Linked, Disjoint, Listed
<1>4. p \in Range(ps)
  <2> HIDE DEF ps
  <2> QED
    BY <1>2, <1>3, ConcatFacts
<1>5. p \in S
  <2>1. Keep(s.qsem, S) \in Seq(PID) /\ Range(Keep(s.qsem, S)) = Range(s.qsem) \cap S
    <3> HIDE DEF S
    <3> QED
      BY <1>3, KeepFacts
  <2>2. Range(ps) \subseteq Range(Keep(s.qsem, S))
    <3> HIDE DEF S
    <3> QED
      BY <2>1, TakeFacts
  <2> QED
    BY <1>4, <2>1, <2>2
<1>6. ASSUME NEW q \in Range(s.qsem), Before(s.qsem, q, p),
             SemKey(s.queue_map[q]) = SemKey(s.queue_map[p])
      PROVE  q \notin Range(t.qsem)
  <2>1. /\ s.queue_map[q].semaphore_obj = s.queue_map[p].semaphore_obj
        /\ s.queue_map[q].semaphore_attr = s.queue_map[p].semaphore_attr
    BY <1>6 DEF SemKey
  <2>2. q \in S
    BY <1>3, <1>5, <1>6, <2>1
  <2> HIDE DEF S
  <2>3. q \in Range(ps)
    BY <1>3, <1>4, <1>6, <2>2, KeepBefore
  <2> QED
    BY <1>2, <2>3
<1> QED
  BY <1>2, <1>4, <1>6 DEF Joins

\* Unless entries are renewed, each that joins the command queue may do so.
LEMMA NextJoins ==
  ASSUME IInv, Next, ~Renews, NEW p \in Range(St'.qfirst) \ Range(St.qfirst)
  PROVE  Joins(St, St', p)
<1>1. Good(St) /\ Moves
  BY NextMoves
<1>2. St.qfirst \in Seq(PID) /\ mudtime \in Int
  BY <1>1 DEF Good, State, IInv
<1>3. CASE Fresh(St, St')
  <2>1. PICK pid \in PID \ DOMAIN St.queue_map : St'.qfirst = Append(St.qfirst, pid)
    BY <1>3 DEF Fresh
  <2>2. p = pid
    BY <1>2, <2>1, AppendFacts
  <2> QED
    BY <2>2 DEF Joins
<1>4. CASE \E obj \in Objects, attr \in Attrs \cup {NULL} :
              Notifies(St, obj, attr, St')
  <2>1. PICK obj \in Objects, attr \in Attrs \cup {NULL} :
           Notifies(St, obj, attr, St')
    BY <1>4
  <2>2. \A t : Notifies(St, obj, attr, t) =>
           \A e \in Range(t.qfirst) \ Range(St.qfirst) : Joins(St, t, e)
    BY <1>1, NotifiesJoins
  <2>3. \A t : Notifies(St, obj, attr, t) /\ p \in Range(t.qfirst) \ Range(St.qfirst)
           => Joins(St, t, p)
    BY <2>2
  <2>4. p \in Range(St'.qfirst) \ Range(St.qfirst)
    OBVIOUS
  <2> HIDE DEF Joins
  <2> QED
    BY ONLY <2>1, <2>3, <2>4
<1>5. CASE QueueUpdate /\ St' = queue_update(St)
  <2>1. PICK due \in Seq(PID), late \in Seq(PID) :
          Updated(St, due, late, queue_update(St))
    BY <1>1, <1>2, QueueUpdateEffect
  <2> DEFINE g == St.qfirst \o due
  <2>2. g \in Seq(PID) /\ Range(g) = Range(St.qfirst) \cup Range(due)
    BY <1>2, <2>1, ConcatFacts
  <2>3. St'.qfirst = g \o late
    BY <1>5, <2>1 DEF Updated
  <2> HIDE DEF g
  <2>4. Range(g \o late) = Range(g) \cup Range(late)
    BY <2>1, <2>2, ConcatFacts
  <2>5. p \in Range(due) \/ p \in Range(late)
    BY <2>2, <2>3, <2>4
  <2> QED
    BY <2>1, <2>5 DEF Joins, PartOfSem, Updated
<1>6. CASE St.qfirst # << >> /\ St'.qfirst = Tail(St.qfirst)
  <2>1. \A q \in Seq(PID) : q # << >> => Range(Tail(q)) \subseteq Range(q)
    BY DEF Range
  <2> QED
    BY <1>2, <1>6, <2>1
<1>7. CASE down' /\ St'.qfirst = << >>
  <2>1. Range(<< >>) = {}
    BY DEF Range
  <2> QED
    BY <1>7, <2>1
<1>8. CASE Renews /\ Behind(St, St')
  BY <1>8
<1> QED
  BY <1>1, <1>3, <1>4, <1>5, <1>6, <1>7, <1>8 DEF Moves

\* An entry of the wait queue reaches the command queue only when it is due:
\* queue_update() moves no entry before its time, and no other operation moves
\* entries of the wait queue.
THEOREM DueFirst == Spec => NotEarly
<1> DEFINE A == (\A p \in Range(qwait) : p \in Range(qfirst') =>
                   queue_map[p].wait_until <= mudtime) \/ Renews
<1>1. ASSUME IInv, Next PROVE A
  <2> SUFFICES ASSUME ~Renews, NEW p \in Range(qwait), p \in Range(qfirst')
               PROVE  queue_map[p].wait_until <= mudtime
    OBVIOUS
  <2>1. /\ p \in Range(St.qwait) /\ p \in DOMAIN St.queue_map
        /\ p \notin Range(St.qfirst) /\ p \notin Range(St.qsem)
    <3>1. Good(St)
      BY <1>1, NextMoves
    <3> QED
      BY <3>1 DEF Good, Linked, Disjoint, Listed, St
  <2>2. p \in Range(St'.qfirst) \ Range(St.qfirst)
    BY <2>1 DEF St
  <2>3. Joins(St, St', p)
    BY <1>1, <2>2, NextJoins
  <2> QED
    BY <2>1, <2>3 DEF Joins, St
<1>2. IInv /\ [Next]_vars => [A]_vars
  <2> HIDE DEF A
  <2> QED
    BY <1>1
<1> QED
  BY <1>2, Invariance, PTL DEF Spec, NotEarly

\* Of two entries waiting on one semaphore, the later one is released before
\* the earlier one only by its own timeout: @notify serves the waiters in the
\* order in which they came.
THEOREM FirstWaiterFirst == Spec => SemFIFO
<1> DEFINE A == (\A p, q \in Range(qsem) :
       (/\ Before(qsem, p, q) /\ SemKey(queue_map[p]) = SemKey(queue_map[q])
        /\ q \in Range(qfirst') /\ p \in Range(qsem'))
       => queue_map[q].wait_until # 0 /\ queue_map[q].wait_until <= mudtime)
     \/ Renews
<1>1. ASSUME IInv, Next PROVE A
  <2> SUFFICES ASSUME ~Renews, NEW p \in Range(qsem), NEW q \in Range(qsem),
                      Before(qsem, p, q),
                      SemKey(queue_map[p]) = SemKey(queue_map[q]),
                      q \in Range(qfirst'), p \in Range(qsem')
               PROVE  queue_map[q].wait_until # 0 /\ queue_map[q].wait_until <= mudtime
    OBVIOUS
  <2>1. /\ q \in DOMAIN St.queue_map
        /\ q \notin Range(St.qfirst) /\ q \notin Range(St.qwait)
    <3>1. Good(St)
      BY <1>1, NextMoves
    <3> QED
      BY <3>1 DEF Good, Linked, Disjoint, Listed, St
  <2>2. q \in Range(St'.qfirst) \ Range(St.qfirst)
    BY <2>1 DEF St
  <2>3. Joins(St, St', q)
    BY <1>1, <2>2, NextJoins
  <2> QED
    BY <2>1, <2>3 DEF Joins, St
<1>2. IInv /\ [Next]_vars => [A]_vars
  <2> HIDE DEF A
  <2> QED
    BY <1>1
<1> QED
  BY <1>2, Invariance, PTL DEF Spec, SemFIFO

=============================================================================
