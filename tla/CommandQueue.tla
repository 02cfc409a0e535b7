---------------------------- MODULE CommandQueue ----------------------------
(***************************************************************************)
(* The command queues of PennMUSH (src/cque.c).                            *)
(*                                                                         *)
(* A queue entry (struct mque) is an action list that an object will run.  *)
(* It is in one of three lists: the command queue qfirst, the wait queue   *)
(* qwait sorted by wait_until, or the semaphore queue qsem; do_top() takes *)
(* it off the command queue, runs it and frees it.  queue_map finds an     *)
(* entry by its process id.  Each entry costs its executor's owner a       *)
(* deposit and counts against the executor's queue limit until it runs or  *)
(* is removed.                                                             *)
(*                                                                         *)
(* The C functions call each other (queueing an entry may halt the object  *)
(* that queues it), so each is an operator from a state to a state, with   *)
(* the state as a record of the variables.  An action is one command, or   *)
(* one step of the main loop.  A command refused by a permission check     *)
(* changes nothing; the actor of an action is anyone allowed to do it.     *)
(***************************************************************************)
EXTENDS Integers, Sequences, FiniteSets, Functions, QueueSeqs

CONSTANTS
  db_top,           \* number of objects; their dbrefs are 0..db_top-1
  Players,          \* the objects that are players
  GOD,              \* the player God, who owns garbage and never pays
  Attrs,            \* the attributes used as semaphores
  NULL,             \* no semaphore attribute
  MAX_PID,          \* size of the queue entry table
  QUEUE_COST,       \* deposit per entry (option queue_cost)
  QUEUE_LOSS,       \* 1 entry in QUEUE_LOSS costs one more; 0 for never
  QUEUE_QUOTA,      \* option player_queue_limit
  QUEUE_PER_OWNER,  \* option owner_queues
  MAX_PENNIES,      \* a player's pennies are capped here
  EVENT_HANDLER,    \* the object whose attributes handle events, or NOTHING
  STARTUP,          \* the objects that have a STARTUP attribute
  MISTRUST,         \* the objects that do not inherit their owner's powers
  InitOwner,        \* who owns what when the game starts
  InitPowers,       \* the NO_PAY and QUEUE powers when the game starts
  InitPennies       \* what each player has when the game starts

CONSTANTS           \* bounds of a finite instance
  Commands,         \* the commands that are enabled (@command/disable)
  CountBound,       \* no halt takes a count below -CountBound
  MaxTime,          \* the clock shows 1..MaxTime
  Delays,           \* the numbers given to @wait and @wait/pid
  Counts,           \* the counts given to @notify and @drain
  Active,           \* the objects that act and are acted on
  NewOwners,        \* the players that @chown gives things to
  SemBound,         \* no @wait takes a semaphore above SemBound
  StoredBound,      \* no @notify stores more than StoredBound notifications
  MaxNest           \* depth of @kick within a queue entry

Objects == 0..(db_top - 1)
NOTHING == -1
Things == Objects \ Players
PID == 1..MAX_PID
SemKeys == Objects \X Attrs
Powers == {"NO_PAY", "QUEUE"}

ASSUME ConfigAssumption ==
  /\ db_top \in Nat
  /\ Players \subseteq Objects
  /\ GOD \in Players
  /\ NULL \notin Attrs
  /\ MAX_PID \in Nat \ {0}
  /\ QUEUE_COST \in Nat
  /\ QUEUE_LOSS \in Nat
  /\ QUEUE_QUOTA \in Nat
  /\ QUEUE_PER_OWNER \in BOOLEAN
  /\ MAX_PENNIES \in Nat
  /\ EVENT_HANDLER \in Objects \cup {NOTHING}
  /\ STARTUP \subseteq Objects
  /\ MISTRUST \subseteq Objects
  /\ InitOwner \in [Objects -> Players]
  /\ \A p \in Players : InitOwner[p] = p
  /\ InitPowers \in [Objects -> SUBSET Powers]
  /\ InitPennies \in [Players -> 0..MAX_PENNIES]

ASSUME BoundAssumption ==
  /\ MaxTime \in Nat
  /\ Delays \subseteq Int
  /\ Counts \subseteq Nat
  /\ Active \subseteq Objects
  /\ NewOwners \subseteq Players
  /\ SemBound \in Nat
  /\ StoredBound \in Nat
  /\ MaxNest \in Nat
  /\ CountBound \in Nat

VARIABLES
  mudtime,       \* the clock, set once per iteration of the main loop
  last_mudtime,  \* the clock at the last queue_update
  qfirst,        \* the command queue
  qwait,         \* the wait queue
  qsem,          \* the semaphore queue
  running,       \* the entries do_top is executing, innermost last
  queue_map,     \* the entries that are allocated, by pid
  top_pid,       \* where the search for a free pid starts
  queue,         \* each object's count of queued entries
  pennies,       \* each player's money
  sem,           \* the value of each semaphore attribute, 0 when unset
  owner, powers, halted, garbage,  \* from the object database
  down           \* the game has shut down

vars == <<mudtime, last_mudtime, qfirst, qwait, qsem, running, queue_map,
          top_pid, queue, pennies, sem, owner, powers, halted, garbage, down>>

\* What an operation of the queue code reads and changes.
St == [qfirst |-> qfirst, qwait |-> qwait, qsem |-> qsem, running |-> running,
       queue_map |-> queue_map, top_pid |-> top_pid, queue |-> queue,
       pennies |-> pennies, sem |-> sem, owner |-> owner, powers |-> powers,
       halted |-> halted, garbage |-> garbage]

Becomes(s) ==
  /\ qfirst' = s.qfirst /\ qwait' = s.qwait /\ qsem' = s.qsem
  /\ running' = s.running /\ queue_map' = s.queue_map
  /\ top_pid' = s.top_pid /\ queue' = s.queue /\ pennies' = s.pennies
  /\ sem' = s.sem /\ owner' = s.owner /\ powers' = s.powers
  /\ halted' = s.halted /\ garbage' = s.garbage

MQUE == [executor : Objects \cup {NOTHING},
         semaphore_obj : Objects \cup {NOTHING},
         semaphore_attr : Attrs \cup {NULL},
         wait_until : Int]

-----------------------------------------------------------------------------
\* Money and counters.

FreeOfCharge(s, x) == x = GOD \/ "NO_PAY" \in s.powers[x]

NoPay(s, x) ==
  FreeOfCharge(s, x) \/ (x \notin MISTRUST /\ FreeOfCharge(s, s.owner[x]))

Capped(n) == IF n > MAX_PENNIES THEN MAX_PENNIES ELSE n

giveto(s, x, n) ==
  IF NoPay(s, x) THEN s ELSE [s EXCEPT !.pennies[s.owner[x]] = Capped(@ + n)]

\* The object whose counter an entry of x is counted on.
Counter(s, x) == IF QUEUE_PER_OWNER THEN s.owner[x] ELSE x

add_to(s, x, am) == [s EXCEPT !.queue[Counter(s, x)] = @ + am]

add_to_sem(s, key, am) == [s EXCEPT !.sem[key] = @ + am]

-----------------------------------------------------------------------------
\* Entries.

SemKey(e) == <<e.semaphore_obj, e.semaphore_attr>>

\* The entries that are in one of the three lists.
Listed(s) == Range(s.qfirst) \cup Range(s.qwait) \cup Range(s.qsem)

\* How many of the entries P wait on the semaphore key.
Waiters(s, P, key) == Cardinality({p \in P : SemKey(s.queue_map[p]) = key})

new_queue_entry(x, obj, attr, when) ==
  [executor |-> x, semaphore_obj |-> obj, semaphore_attr |-> attr,
   wait_until |-> when]

\* im_delete(): the entries P are freed.
free_qentry(s, P) ==
  [s EXCEPT !.queue_map = Restrict(@, DOMAIN @ \ P)]

\* im_insert(): e gets the pid that next_pid() found.
im_insert(s, pid, e) ==
  [s EXCEPT !.queue_map = [p \in DOMAIN @ \cup {pid} |->
                             IF p = pid THEN e ELSE s.queue_map[p]],
            !.top_pid = pid + 1]

Smallest(S) == CHOOSE x \in S : \A y \in S : x <= y

\* Mutant of next_pid: the search does not wrap around.
next_pid_no_wrap(s) ==
  Smallest({p \in 1..(MAX_PID + 1) \ DOMAIN s.queue_map : p >= s.top_pid})

\* The first free pid from top_pid on, around the table; 0 when it is full.
next_pid(s) ==
  LET free  == PID \ DOMAIN s.queue_map
      above == {p \in free : p >= s.top_pid}
  IN  IF free = {} THEN 0
      ELSE Smallest(IF above # {} THEN above ELSE free)

-----------------------------------------------------------------------------
\* Halting.

\* The listed entries that do_halt() on v removes.
EntriesOf(s, v) ==
  {p \in Listed(s) : LET x == s.queue_map[p].executor
                     IN  x # NOTHING /\ (x = v \/ s.owner[x] = v)}

\* Mutant of do_halt: the entries of the command queue keep their executor.
do_halt_keeps_executor(s, V) ==
  LET mine == UNION {EntriesOf(s, v) : v \in V}
      stay == DOMAIN s.queue_map \ (mine \ Range(s.qfirst))
      back(W) == Cardinality(UNION {EntriesOf(s, v) : v \in W})
  IN  [s EXCEPT
        !.qwait = Keep(@, stay), !.qsem = Keep(@, stay),
        !.queue_map = Restrict(@, stay),
        !.pennies = [pl \in Players |->
           Capped(s.pennies[pl] + QUEUE_COST *
             back({v \in V : s.owner[v] = pl /\ ~NoPay(s, v)}))],
        !.queue = [x \in Objects |->
           s.queue[x] - back({v \in V : Counter(s, v) = x})]]

\* do_halt() on each object of V; when there are several they are players,
\* and no two of them have an entry in common.  An entry of the command
\* queue stays there with no executor, one that waits is freed.  The
\* deposits and counts go back to the victim, whoever's entry it was.
do_halt(s, V) ==
  LET mine == UNION {EntriesOf(s, v) : v \in V}
      gone == mine \ Range(s.qfirst)
      stay == DOMAIN s.queue_map \ gone
      back(W) == Cardinality(UNION {EntriesOf(s, v) : v \in W})
  IN  [s EXCEPT
        !.qwait = Keep(@, stay),
        !.qsem = Keep(@, stay),
        !.queue_map = [p \in stay |->
           IF p \in mine THEN [s.queue_map[p] EXCEPT !.executor = NOTHING]
           ELSE s.queue_map[p]],
        !.sem = [k \in SemKeys |->
           s.sem[k] - Waiters(s, gone \cap Range(s.qsem), k)],
        !.pennies = [pl \in Players |->
           Capped(s.pennies[pl] + QUEUE_COST *
             back({v \in V : s.owner[v] = pl /\ ~NoPay(s, v)}))],
        !.queue = [x \in Objects |->
           s.queue[x] - back({v \in V : Counter(s, v) = x})]]

-----------------------------------------------------------------------------
\* Queueing.

LossChoices == CASE QUEUE_LOSS = 0 -> {0}
                 [] QUEUE_LOSS = 1 -> {1}
                 [] OTHER -> {0, 1}

\* Power QUEUE stands for the WIZARD flag too, which God always has.
HugeQueue(s, x) == x = GOD \/ "QUEUE" \in s.powers[x]

QueueLimit(s, x) ==
  QUEUE_QUOTA + (IF HugeQueue(s, Counter(s, x)) THEN db_top ELSE 0)

\* Mutant of pay_queue: over the limit, the count is taken back twice.
pay_queue_uncounts_twice(s, x, loss) ==
  LET pl    == s.owner[x]
      count == add_to(s, x, 1)
  IN  IF ~NoPay(s, x) /\ s.pennies[pl] < QUEUE_COST + loss
      THEN [ok |-> FALSE, s |-> s]
      ELSE IF count.queue[Counter(s, x)] > QueueLimit(s, x)
      THEN [ok |-> FALSE,
            s |-> [add_to(s, x, -1) EXCEPT !.halted = @ \cup {x}]]
      ELSE [ok |-> TRUE,
            s |-> [count EXCEPT !.pennies[pl] = @ - QUEUE_COST - loss]]

\* Whether x can afford an entry, and the state after it paid: over the
\* limit the payment is undone, x is halted and set HALT.
pay_queue(s, x, loss) ==
  LET cost  == QUEUE_COST + loss
      pl    == s.owner[x]
      payed == IF NoPay(s, x) THEN s ELSE [s EXCEPT !.pennies[pl] = @ - cost]
      count == add_to(payed, x, 1)
      undo  == do_halt(add_to(giveto(count, x, QUEUE_COST), x, -1), {x})
  IN  IF ~NoPay(s, x) /\ s.pennies[pl] < cost THEN [ok |-> FALSE, s |-> s]
      ELSE IF count.queue[Counter(s, x)] > QueueLimit(s, x)
      THEN [ok |-> FALSE, s |-> [undo EXCEPT !.halted = @ \cup {x}]]
      ELSE [ok |-> TRUE, s |-> count]

\* The pid of a new entry of x, or 0 when x cannot pay or the table is full;
\* in the second case x has paid.
admit(s, x, loss) ==
  LET paid == pay_queue(s, x, loss)
  IN  [pid |-> IF paid.ok THEN next_pid(paid.s) ELSE 0, s |-> paid.s]

\* Mutant of ToCommandQueue: the entry goes ahead of the others.
ToCommandQueue_front(s, x, loss) ==
  LET a == admit(s, x, loss)
      e == new_queue_entry(x, NOTHING, NULL, 0)
  IN  IF a.pid = 0 THEN a.s
      ELSE [im_insert(a.s, a.pid, e) EXCEPT !.qfirst = <<a.pid>> \o @]

\* A new entry of x at the end of the command queue.
ToCommandQueue(s, x, loss) ==
  LET a == admit(s, x, loss)
      e == new_queue_entry(x, NOTHING, NULL, 0)
  IN  IF a.pid = 0 THEN a.s
      ELSE [im_insert(a.s, a.pid, e) EXCEPT !.qfirst = Append(@, a.pid)]

insert_que(s, x, loss) ==
  IF x \in Things /\ x \in s.halted THEN s ELSE ToCommandQueue(s, x, loss)

\* The handler, if there is one, has an attribute for the event.
queue_event(s, loss) ==
  IF EVENT_HANDLER \in {NOTHING} \cup s.garbage \cup s.halted THEN s
  ELSE ToCommandQueue(s, EVENT_HANDLER, loss)

Until(s) == [p \in DOMAIN s.queue_map |-> s.queue_map[p].wait_until]

\* pid linked into the wait queue by its wait_until.
LinkByTime(s, pid) ==
  LET when == s.queue_map[pid].wait_until
  IN  [s EXCEPT !.qwait = Insert(@, FirstAfter(@, Until(s), when), pid)]

wait_que(s, x, waittill, obj, attr, until, loss) ==
  LET a == admit(s, x, loss)
      when == CASE until -> waittill
                [] ~until /\ waittill >= 0 -> mudtime + waittill
                [] OTHER -> 0
      t == im_insert(a.s, a.pid,
             new_queue_entry(x, obj, IF obj = NOTHING THEN NULL ELSE attr, when))
  IN  IF waittill = 0
      THEN insert_que(IF obj = NOTHING THEN s
                      ELSE add_to_sem(s, <<obj, attr>>, -1), x, loss)
      ELSE IF a.pid = 0 THEN a.s
      ELSE IF obj = NOTHING THEN LinkByTime(t, a.pid)
      ELSE [t EXCEPT !.qsem = Append(@, a.pid)]

\* @wait obj/attr/waitfor: raise the semaphore, and wait unless it was
\* negative.  No timeout is -1.
do_wait(s, x, obj, attr, waitfor, until, loss) ==
  LET up == add_to_sem(s, <<obj, attr>>, 1)
  IN  IF up.sem[<<obj, attr>>] <= 0
      THEN wait_que(up, x, -1, NOTHING, NULL, until, loss)
      ELSE wait_que(up, x, waitfor, obj, attr, until, loss)

\* Mutant of do_waitpid: the entry is linked again but not unlinked first.
do_waitpid_links_twice(s, pid, mode, n) ==
  LET t == [s EXCEPT !.queue_map[pid].wait_until = mudtime + n]
  IN  IF pid \in Range(s.qwait) THEN LinkByTime(t, pid) ELSE t

\* Mutant of do_waitpid: the entry stays where it was in the wait queue.
do_waitpid_in_place(s, pid, mode, n) ==
  [s EXCEPT !.queue_map[pid].wait_until = mudtime + n]

\* @wait/pid: set the due time of an entry and, if it is in the wait queue,
\* move it there.  A semaphore wait without a timeout is left alone.
do_waitpid(s, pid, mode, n) ==
  LET e == s.queue_map[pid]
      w == CASE mode = "until" -> n
             [] mode = "adjust" -> e.wait_until + n
             [] mode = "set" -> mudtime + n
      t == [s EXCEPT !.queue_map[pid].wait_until = IF w < 0 THEN 0 ELSE w]
  IN  IF e.semaphore_obj # NOTHING /\ e.wait_until = 0 THEN s
      ELSE IF pid \in Range(s.qwait)
      THEN LinkByTime([t EXCEPT !.qwait = Keep(@, PID \ {pid})], pid)
      ELSE t

-----------------------------------------------------------------------------
\* Removing.

RealGood(s, x) == x \in Objects \ s.garbage

\* The deposits and counts of the entries P go back to their executors.
Refund(s, P) ==
  LET x(p) == s.queue_map[p].executor
      gets(pl) == {p \in P : s.owner[x(p)] = pl /\ ~NoPay(s, x(p))}
      from(y) == {p \in P : Counter(s, x(p)) = y}
  IN  [s EXCEPT
        !.pennies = [pl \in Players |->
           Capped(s.pennies[pl] + QUEUE_COST * Cardinality(gets(pl)))],
        !.queue = [y \in Objects |-> s.queue[y] - Cardinality(from(y))]]

\* @halt/pid.  An entry that never waited on a semaphore is only marked; one
\* that did is freed and its deposit returned, wherever it now is.
do_haltpid(s, pid) ==
  LET e == s.queue_map[pid]
      t == [s EXCEPT !.queue_map[pid].executor = NOTHING]
      u == IF e.executor = NOTHING THEN t ELSE giveto(t, e.executor, QUEUE_COST)
      v == IF e.semaphore_obj = NOTHING THEN u ELSE add_to_sem(u, SemKey(e), -1)
  IN  IF e.semaphore_attr = NULL THEN t
      ELSE free_qentry([v EXCEPT !.qsem = Keep(@, PID \ {pid})], {pid})

\* The waiters on obj and attr, on any attribute of obj when attr is NULL.
WaitingOn(s, obj, attr) ==
  Keep(s.qsem, {p \in DOMAIN s.queue_map :
                  /\ s.queue_map[p].semaphore_obj = obj
                  /\ attr # NULL => s.queue_map[p].semaphore_attr = attr})

\* The waiters ps leave the semaphore queue, each lowering its semaphore.
Dequeue(s, ps) ==
  [s EXCEPT !.qsem = Keep(@, PID \ Range(ps)),
            !.sem = [k \in SemKeys |-> s.sem[k] - Waiters(s, Range(ps), k)]]

Release(s, ps) == [Dequeue(s, ps) EXCEPT !.qfirst = @ \o ps]

\* Mutant of execute_one_semaphore: it takes the last waiter.
execute_one_semaphore_last(s, obj, attr) ==
  LET w == WaitingOn(s, obj, attr)
  IN  IF w = << >> THEN s ELSE Release(s, Drop(w, Len(w) - 1))

execute_one_semaphore(s, obj, attr) ==
  Release(s, Take(WaitingOn(s, obj, attr), 1))

\* @notify: release count waiters; what is left over is stored in a named
\* semaphore.
NotifySemaphores(s, obj, attr, count) ==
  LET ps == Take(WaitingOn(s, obj, attr), count)
      t  == Release(s, ps)
  IN  IF attr # NULL /\ count > Len(ps)
      THEN add_to_sem(t, <<obj, attr>>, -(count - Len(ps)))
      ELSE t

NotifyAll(s, obj, attr) == Release(s, WaitingOn(s, obj, attr))

\* @drain: refund and free the waiters.
Discard(s, ps) == free_qentry(Refund(Dequeue(s, ps), Range(ps)), Range(ps))

\* Mutant of DrainSome: the semaphore is cleared though waiters remain.
DrainSome_clears(s, obj, attr, count) ==
  [Discard(s, Take(WaitingOn(s, obj, attr), count))
     EXCEPT !.sem = [k \in SemKeys |-> 0]]

DrainSome(s, obj, attr, count) ==
  Discard(s, Take(WaitingOn(s, obj, attr), count))

\* @drain/all also clears the semaphores.
DrainAll(s, obj, attr) ==
  LET t == Discard(s, WaitingOn(s, obj, attr))
  IN  [t EXCEPT !.sem = [k \in SemKeys |->
         IF k[1] = obj /\ (attr # NULL => k[2] = attr) THEN 0 ELSE t.sem[k]]]

-----------------------------------------------------------------------------
\* The main loop.

\* Mutant of queue_update: entries are moved with one second to go.
queue_update_early(s) ==
  LET n == FirstAfter(s.qwait, Until(s), mudtime + 1) - 1
  IN  [s EXCEPT !.qwait = Drop(@, n), !.qfirst = @ \o Take(s.qwait, n)]

\* Due entries of the wait queue, then semaphore waits that timed out, go to
\* the end of the command queue.
queue_update(s) ==
  LET n == FirstAfter(s.qwait, Until(s), mudtime) - 1
      due == Take(s.qwait, n)
      expired == {p \in Range(s.qsem) : LET w == s.queue_map[p].wait_until
                                        IN  w # 0 /\ w <= mudtime}
      late == Keep(s.qsem, expired)
      t == Dequeue(s, late)
  IN  [t EXCEPT
        !.qwait = Drop(@, n),
        !.qfirst = @ \o due \o late,
        !.queue_map = [p \in DOMAIN s.queue_map |->
           CASE p \in Range(due) -> [s.queue_map[p] EXCEPT !.wait_until = 0]
             [] p \in expired ->
                  [s.queue_map[p] EXCEPT !.semaphore_obj = NOTHING]
             [] OTHER -> s.queue_map[p]]]

\* Mutant of do_top: a halted entry is skipped but not taken off.
do_top_stuck(s) ==
  LET p == Head(s.qfirst)
      t == [s EXCEPT !.qfirst = Tail(@)]
  IN  IF ~RealGood(s, s.queue_map[p].executor) THEN s
      ELSE [Refund(t, {p}) EXCEPT !.running = Append(@, p)]

\* Take the first entry off the command queue and return its deposit; run it
\* unless its executor is gone or a halted thing.
do_top(s) ==
  LET p == Head(s.qfirst)
      x == s.queue_map[p].executor
      t == [s EXCEPT !.qfirst = Tail(@)]
      r == Refund(t, {p})
  IN  IF ~RealGood(s, x) THEN free_qentry(t, {p})
      ELSE IF x \in Things /\ x \in s.halted THEN free_qentry(r, {p})
      ELSE [r EXCEPT !.running = Append(@, p)]

\* do_entry() returned.
EndOfEntry(s) ==
  LET p == s.running[Len(s.running)]
  IN  free_qentry([s EXCEPT !.running = Take(@, Len(@) - 1)], {p})

\* Mutant of shutdown_queues: entries without an executor are not freed.
shutdown_queues_leaks(s) ==
  LET real == {p \in Listed(s) : RealGood(s, s.queue_map[p].executor)}
  IN  [free_qentry(Refund(s, real), real) EXCEPT
         !.qfirst = << >>, !.qwait = << >>, !.qsem = << >>]

shutdown_queues(s) ==
  LET real == {p \in Listed(s) : RealGood(s, s.queue_map[p].executor)}
  IN  [free_qentry(Refund(s, real), Listed(s)) EXCEPT
         !.qfirst = << >>, !.qwait = << >>, !.qsem = << >>]

-----------------------------------------------------------------------------
\* Other commands that change the queues.

\* The STARTUP attributes of the things R are queued in the order of their
\* dbrefs; loss is the queue loss each one meets.
do_raw_restart(s, R, loss) ==
  LET upto[i \in 0..db_top] ==
        IF i = 0 THEN s
        ELSE LET t == upto[i - 1] IN
             IF i - 1 \in (R \cap STARTUP) \ (t.garbage \cup t.halted)
             THEN insert_que(t, i - 1, loss[i - 1]) ELSE t
  IN  upto[db_top]

\* @restart: a player's objects, or one object.
do_restart_com(s, v, loss) ==
  LET R == IF v \in Players THEN {x \in Objects : s.owner[x] = v} ELSE {v}
  IN  do_raw_restart(do_halt(s, {v}), R, loss)

\* @halt: with a command, queue it; without one, set a thing HALT.
do_halt1(s, v, ncom, loss) ==
  LET t == do_halt(s, {v})
  IN  IF ncom THEN insert_que(t, v, loss)
      ELSE IF v \in Things THEN [t EXCEPT !.halted = @ \cup {v}]
      ELSE t

\* The owner changes first; @chown/preserve does not halt.
chown_object(s, thing, newowner, preserve) ==
  LET t == [s EXCEPT !.owner[thing] = newowner]
  IN  IF preserve THEN t
      ELSE do_halt([t EXCEPT !.powers[thing] = {},
                             !.halted = @ \cup {thing}], {thing})

\* Mutant of free_object: the event is queued after the object was halted.
free_object_event_last(s, thing, loss) ==
  LET t == queue_event(DrainAll(do_halt(s, {thing}), thing, NULL), loss)
  IN  [t EXCEPT !.owner[thing] = GOD, !.powers[thing] = {},
                !.halted = @ \ {thing}, !.queue[thing] = 0,
                !.garbage = @ \cup {thing}]

\* The part of destroying an object that concerns the queues.
free_object(s, thing, loss) ==
  LET t == DrainAll(do_halt(queue_event(s, loss), {thing}), thing, NULL)
  IN  [t EXCEPT !.owner[thing] = GOD, !.powers[thing] = {},
                !.halted = @ \ {thing}, !.queue[thing] = 0,
                !.garbage = @ \cup {thing}]

-----------------------------------------------------------------------------
\* An entry that is linked or running but freed: the next use of it is
\* undefined behaviour, and the model stops there.
Dangling ==
  ~ (Listed(St) \cup Range(running) \subseteq DOMAIN queue_map)

Init ==
  /\ mudtime = 1 /\ last_mudtime = 0
  /\ qfirst = << >> /\ qwait = << >> /\ qsem = << >> /\ running = << >>
  /\ queue_map = << >> /\ top_pid = 1
  /\ queue = [x \in Objects |-> 0] /\ pennies = InitPennies
  /\ sem = [k \in SemKeys |-> 0]
  /\ owner = InitOwner /\ powers = InitPowers
  /\ halted = {} /\ garbage = {} /\ down = FALSE

\* The game runs.
Up == ~down /\ ~Dangling

Command(s) == Up /\ Becomes(s) /\ UNCHANGED <<mudtime, last_mudtime, down>>

Real == Active \ garbage

\* The objects that can run a command: process_command() refuses halted
\* objects, except a player's own input.
Actors == {x \in Real : x \in halted => x \in Players}

On(c) == c \in Commands

\* An action list is queued: @trigger, a $-command, a ^-listen, an action.
QueueActionList == On("queue") /\ \E x \in Real, loss \in LossChoices :
  Command(insert_que(St, x, loss))

QueueEvent == On("event") /\ \E loss \in LossChoices :
  Command(queue_event(St, loss))

Wait ==
  /\ On("wait")
  /\ \E x \in Actors, n \in Delays, until \in BOOLEAN, loss \in LossChoices :
       Command(wait_que(St, x, n, NOTHING, NULL, until, loss))

SemWait ==
  /\ On("semwait")
  /\ \E x \in Actors, obj \in Real, attr \in Attrs, n \in Delays \cup {-1},
        until \in BOOLEAN, loss \in LossChoices :
       /\ sem[<<obj, attr>>] < SemBound
       /\ Command(do_wait(St, x, obj, attr, n, until, loss))

WaitPid ==
  /\ On("waitpid")
  /\ \E pid \in DOMAIN queue_map, mode \in {"until", "adjust", "set"},
        n \in Delays :
       /\ mode = "set" => n >= 0  \* a sign makes it an adjustment
       /\ mode = "adjust" => queue_map[pid].wait_until + n <= MaxTime
       /\ Command(do_waitpid(St, pid, mode, n))

HaltPid == On("haltpid") /\ \E pid \in DOMAIN queue_map :
  Command(do_haltpid(St, pid))

CountsHigh == \A x \in Objects : queue[x] > -CountBound

Halt == On("halt") /\ \E v \in Real, ncom \in BOOLEAN, loss \in LossChoices :
  CountsHigh /\ Command(do_halt1(St, v, ncom, loss))

\* @allhalt.
AllHalt == On("allhalt") /\ CountsHigh /\ Command(do_halt(St, Players))

Restart == On("restart") /\ \E v \in Real, loss \in [Objects -> LossChoices] :
  CountsHigh /\ Command(do_restart_com(St, v, loss))

Notify ==
  /\ On("notify")
  /\ \E obj \in Real, attr \in Attrs \cup {NULL}, n \in Counts :
       /\ attr # NULL => sem[<<obj, attr>>] - n >= -StoredBound
       /\ Command(NotifySemaphores(St, obj, attr, n))

NotifyEvery ==
  /\ On("notify")
  /\ \E obj \in Real, attr \in Attrs \cup {NULL} :
       Command(NotifyAll(St, obj, attr))

NotifySetq == On("notify") /\ \E obj \in Real, attr \in Attrs \cup {NULL} :
  Command(execute_one_semaphore(St, obj, attr))

Drain ==
  /\ On("drain")
  /\ \E obj \in Real, attr \in Attrs \cup {NULL}, n \in Counts :
       Command(DrainSome(St, obj, attr, n))

DrainEvery == On("drain") /\ \E obj \in Real, attr \in Attrs \cup {NULL} :
  Command(DrainAll(St, obj, attr))

\* @set x=HALT and @set x=!HALT.
SetHalt == On("set") /\ \E x \in Real :
  Command([St EXCEPT !.halted = IF x \in @ THEN @ \ {x} ELSE @ \cup {x}])

Chown ==
  /\ On("chown") /\ CountsHigh
  /\ \E thing \in Things \ garbage, new \in NewOwners, preserve \in BOOLEAN :
       Command(chown_object(St, thing, new, preserve))

Destroy == On("destroy") /\ \E thing \in Things \ garbage, loss \in LossChoices :
  Command(free_object(St, thing, loss))

\* The clock may also be set back.
Tick == \E t \in 1..MaxTime :
  /\ Up /\ running = << >>
  /\ mudtime' = t
  /\ UNCHANGED <<last_mudtime, qfirst, qwait, qsem, running, queue_map, top_pid,
                 queue, pennies, sem, owner, powers, halted, garbage, down>>

\* Once per second at most.
QueueUpdate ==
  /\ Up /\ running = << >>
  /\ mudtime # last_mudtime
  /\ last_mudtime' = mudtime
  /\ Becomes(queue_update(St))
  /\ UNCHANGED <<mudtime, down>>

\* An entry starts from the main loop, or from @kick in a running entry.
DoTop ==
  /\ qfirst # << >> /\ Len(running) < MaxNest
  /\ Command(do_top(St))

EndEntry == running # << >> /\ Command(EndOfEntry(St))

Shutdown ==
  /\ On("shutdown")
  /\ Up /\ running = << >>
  /\ Becomes(shutdown_queues(St))
  /\ down' = TRUE
  /\ UNCHANGED <<mudtime, last_mudtime>>

Next ==
  \/ QueueActionList \/ QueueEvent \/ Wait \/ SemWait \/ WaitPid
  \/ HaltPid \/ Halt \/ AllHalt \/ Restart
  \/ Notify \/ NotifyEvery \/ NotifySetq \/ Drain \/ DrainEvery
  \/ SetHalt \/ Chown \/ Destroy
  \/ Tick \/ QueueUpdate \/ DoTop \/ EndEntry \/ Shutdown

Spec == Init /\ [][Next]_vars

\* The main loop calls do_top() in every iteration, and an entry's commands
\* end: the CPU limit of do_entry() stops a long one.
FairSpec == Spec /\ WF_vars(DoTop) /\ WF_vars(EndEntry)

-----------------------------------------------------------------------------
\* Safety.

\* Every variable has its type: pids in the lists, integers in the counters,
\* allocated entries with the fields of struct mque.
TypeOK ==
  /\ mudtime \in Int /\ last_mudtime \in Int
  /\ qfirst \in Seq(PID) /\ qwait \in Seq(PID)
  /\ qsem \in Seq(PID) /\ running \in Seq(PID)
  /\ DOMAIN queue_map \subseteq PID /\ queue_map \in [DOMAIN queue_map -> MQUE]
  /\ top_pid \in 1..(MAX_PID + 1)
  /\ queue \in [Objects -> Int]
  /\ pennies \in [Players -> 0..MAX_PENNIES]
  /\ sem \in [SemKeys -> Int]
  /\ owner \in [Objects -> Players]
  /\ powers \in [Objects -> SUBSET Powers]
  /\ halted \subseteq Objects /\ garbage \subseteq Objects
  /\ down \in BOOLEAN

\* No list holds an entry twice, and no two lists share one.
Disjoint(s) ==
  /\ IsInjective(s.qfirst) /\ IsInjective(s.qwait)
  /\ IsInjective(s.qsem) /\ IsInjective(s.running)
  /\ Range(s.qfirst) \cap Range(s.qwait) = {}
  /\ (Range(s.qfirst) \cup Range(s.qwait)) \cap Range(s.qsem) = {}
  /\ Listed(s) \cap Range(s.running) = {}

\* Unless an entry dangles, every allocated entry is in exactly one place of
\* exactly one list or is running, and nothing else is: no unlinking walk of
\* do_halt, do_haltpid, do_waitpid, queue_update or dequeue_semaphores leaks
\* an entry, links it twice or leaves a freed one behind.
QueuePartition ==
  ~Dangling => /\ Disjoint(St)
               /\ DOMAIN queue_map = Listed(St) \cup Range(running)

\* The wait queue is sorted by wait_until, which queue_update and
\* queue_msecs_till_next rely on when they look at its first entry only.
WaitSorted ==
  ~Dangling => \A i, j \in 1..Len(qwait) : i < j =>
      queue_map[qwait[i]].wait_until <= queue_map[qwait[j]].wait_until

\* A semaphore with entries waiting on it is at least their number, so that
\* as many @notify as there are waiters release all of them.
SemCovered ==
  ~Dangling => \A k \in SemKeys :
      LET n == Waiters(St, Range(qsem), k) IN n > 0 => sem[k] >= n

\* No entry's executor is a destroyed object, and an entry that waits on a
\* semaphore has an executor: do_halt and dequeue_semaphores use it as an
\* index without a check.
LiveExecutors ==
  ~Dangling => /\ \A p \in Listed(St) : queue_map[p].executor \notin garbage
               /\ \A p \in Range(qsem) : queue_map[p].executor # NOTHING

\* The entries that still hold a deposit and a count.
Charged == {p \in Listed(St) : queue_map[p].executor # NOTHING}

\* With a count per owner, the counts together never fall below the entries
\* they stand for: no path gives a count back twice.
CountCovered ==
  ~Dangling /\ QUEUE_PER_OWNER => SumFunction(queue) >= Cardinality(Charged)

\* Only God queues for free, and nothing goes to God or comes from God.
EveryonePays ==
  /\ \A x \in Objects : "NO_PAY" \notin InitPowers[x]
  /\ \A x \in Objects \ {GOD} : InitOwner[x] # GOD
  /\ GOD \notin NewOwners

\* When everyone pays, the players' money and the deposits of the entries
\* together never exceed what the players started with: no path returns a
\* deposit twice.
MoneyConserved ==
  ~Dangling /\ EveryonePays =>
      SumFunction(pennies)
        + QUEUE_COST * Cardinality({p \in Charged : queue_map[p].executor # GOD})
        <= SumFunction(InitPennies)

-----------------------------------------------------------------------------
\* What a step may never do.

\* The command queue is first in, first out: until the game goes down, a step
\* takes at most its first entry away and only adds behind the others.
CommandFIFO ==
  [][down' \/ \E n \in {0, 1} : Take(qfirst', Len(qfirst) - n) = Drop(qfirst, n)]_vars

\* @halt with a command and @restart free entries and queue new ones, which
\* may get the same pids.
Renews == Halt \/ Restart

\* An entry of the wait queue reaches the command queue only when it is due.
NotEarly ==
  [][(\A p \in Range(qwait) : p \in Range(qfirst') =>
        queue_map[p].wait_until <= mudtime) \/ Renews]_vars

Before(s, p, q) == \E i, j \in DOMAIN s : i < j /\ s[i] = p /\ s[j] = q

\* Of two entries waiting on one semaphore, the later one is released before
\* the earlier one only by its own timeout.
SemFIFO ==
  [][(\A p, q \in Range(qsem) :
       (/\ Before(qsem, p, q) /\ SemKey(queue_map[p]) = SemKey(queue_map[q])
        /\ q \in Range(qfirst') /\ p \in Range(qsem'))
       => queue_map[q].wait_until # 0 /\ queue_map[q].wait_until <= mudtime)
     \/ Renews]_vars

-----------------------------------------------------------------------------
\* What must happen.

\* An entry of the command queue leaves it: it is run, or the game goes down.
QueueDrains ==
  \A p \in PID : p \in Range(qfirst) ~> (p \notin Range(qfirst) \/ Dangling)

-----------------------------------------------------------------------------
\* What a comment says, and the code does not do.

\* @halt/pid flags an entry "and just [does] not execute it when its turn
\* comes up" (do_haltpid): the entry stays allocated while it is linked or
\* running.
NoDangling == ~Dangling

=============================================================================
