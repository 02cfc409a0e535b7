------------------------------ MODULE GameLoop ------------------------------
(***************************************************************************)
(* The main loop of PennMUSH (gameloop() in src/bsd.c), the system queue   *)
(* of timed events (src/timer.c), the quotas of connections, the flags of  *)
(* signals, and the poll timeout that the loop computes.                   *)
(*                                                                         *)
(* One iteration goes through the values of pc.  Time passes while the     *)
(* loop sleeps in poll() and while it works; now_msecs(), gettimeofday()   *)
(* and time() read one clock, which is not set back.  Signals arrive at    *)
(* any moment.  Of the queues of src/cque.c (module CommandQueue) the loop *)
(* sees the number of entries ready to run and the due times of the others *)
(* (entries due in the same second move together and count once).          *)
(***************************************************************************)
EXTENDS Integers, Sequences, FiniteSets, FiniteSetsExt, QueueSeqs

CONSTANTS
  MS_PER_SEC,           \* milliseconds per second
  UINT,                 \* the modulus of unsigned arithmetic
  LONG_WAIT,            \* "arbitrarily high" timeout, in milliseconds
  NO_EVENT_WAIT,        \* timeout when the system queue is empty
  queue_chunk,          \* entries run per iteration
  Descs,                \* the connections
  NOQUOTA,              \* the connections whose quota is ignored
  QUOTA_MAX,            \* burst of commands, times MS_PER_SEC
  COMMANDS_PER_SECOND,
  HTTP_SECOND_LIMIT,    \* option http_per_second
  Loops,                \* timers that sq_register_loop() set up
  Optional,             \* timers that @config can turn off
  dbsave,               \* the one of them that dumps the database
  Warnings,             \* the timers that announce a dump
  Lead,                 \* how long before it, in milliseconds
  InitInterval          \* the intervals when the game starts

CONSTANTS               \* bounds of a finite instance
  MaxNow,               \* the clock stops here
  MaxWork,              \* the time that one piece of work takes at most
  Delays,               \* how far from now an entry waits, in seconds; below
                        \* 0 for @wait/until in the past and for a semaphore
                        \* that lets the entry pass
  MaxQueue,             \* entries in the queues
  MaxInput,             \* lines in one read
  MaxHttp,              \* requests that are ready
  MaxSignals,           \* signals of each kind, and how far handling them is
                        \* counted, less one
  Windows,              \* times at which a period of measuring may begin
  Kinds,                \* the signals that are sent
  Intervals             \* values that @config gives an interval

\* The connections that have a quota.
Limited == Descs \ NOQUOTA

Timers == Loops \cup Optional \cup Warnings

\* The flags that check_status() looks at, in its order.
Flags == <<"CHLD", "INT", "HUP", "USR1", "USR2">>

ASSUME ClockAssumption ==
  /\ MS_PER_SEC \in Nat \ {0}
  /\ LONG_WAIT \in Nat /\ NO_EVENT_WAIT \in Nat
  /\ UINT \in Nat /\ UINT > LONG_WAIT /\ UINT > MS_PER_SEC
  /\ queue_chunk \in Nat
  /\ MaxNow \in Nat /\ MaxNow >= MS_PER_SEC
  /\ MaxWork \in Nat /\ Delays \subseteq Int

ASSUME QuotaAssumption ==
  /\ NOQUOTA \subseteq Descs
  /\ QUOTA_MAX \in Nat /\ QUOTA_MAX < UINT /\ COMMANDS_PER_SECOND \in Nat
  /\ HTTP_SECOND_LIMIT \in Nat
  /\ MaxQueue \in Nat /\ MaxInput \in Nat /\ MaxHttp \in Nat
  /\ MaxSignals \in Nat /\ Kinds \subseteq Range(Flags)

ASSUME TimerAssumption ==
  /\ IsFiniteSet(Timers)
  /\ Loops \cap Optional = {} /\ (Loops \cup Optional) \cap Warnings = {}
  /\ InitInterval \in [Loops \cup Optional -> Nat]
  /\ \A t \in Loops : InitInterval[t] > 0
  /\ Lead \in [Warnings -> Nat \ {0}]
  /\ \A t, u \in Warnings : Lead[t] = Lead[u] => t = u
  /\ Warnings # {} => dbsave \in Optional
  /\ Intervals \subseteq Nat

VARIABLES
  now,           \* the clock, in milliseconds
  pc,            \* what the loop does next
  mudtime,       \* the second in which this iteration began
  msec_timeout,  \* how long poll() sleeps
  ready,         \* entries of the command queue
  qwait, qsem,   \* due times in the wait and semaphore queues
  last_mudtime,  \* when queue_update() last looked
  ncom,          \* entries that do_top() has run in this iteration
  sq,            \* the system queue, a list of timers
  when,          \* when a timer is due
  interval,      \* the configured intervals
  input,         \* lines read from each connection and not run
  quota,         \* of each connection
  http,          \* requests that are ready to be served
  http_quota,
  last,          \* when update_quotas() last ran, 0 for never
  flags,         \* set by the signal handlers
  flag           \* which of them check_status() is at

VARIABLES        \* history
  window,        \* when a period began that rates are measured over
  ran,           \* commands run in it for a connection with a quota
  served,        \* requests served in it
  sent,          \* how often each signal was sent
  handled        \* how often check_status() acted on it; for USR1, with an event

queues == <<ready, qwait, qsem>>
timers == <<sq, when, interval>>
lines == <<input, quota, ran>>
requests == <<http, http_quota, served>>
signals == <<flags, sent, handled>>
places == <<mudtime, msec_timeout, last_mudtime, ncom, last, window, flag>>
vars == <<now, pc, places, queues, timers, lines, requests, signals>>

-----------------------------------------------------------------------------
\* The system queue.

\* Timer t is due at time at: linked behind the timers that are not later.
sq_register(r, t, at) ==
  LET due == [r.when EXCEPT ![t] = at]
  IN  [sq |-> Insert(r.sq, FirstAfter(r.sq, due, at), t), when |-> due]

\* The timers of S are registered, t at due[t].
RegisterAll(r, S, due) ==
  LET register(t, acc) == sq_register(acc, t, due[t])
  IN  FoldSet(register, r, S)

\* The warnings of a dump n milliseconds after time at, those that fit.  No
\* two are due at once, so that the order of registration does not matter.
reg_dbsave_warnings(r, at, n) ==
  LET fit == {t \in Warnings : Lead[t] < n}
  IN  RegisterAll(r, fit, [t \in fit |-> at + n - Lead[t]])

\* Mutant of Rerun: an event whose interval became 0 leaves its warnings.
Rerun_warns(r, t, at) ==
  LET warned == reg_dbsave_warnings(r, at, LONG_WAIT)
  IN  IF t \in Warnings THEN r
      ELSE IF interval[t] = 0 THEN warned
      ELSE sq_register(r, t, at + interval[t])

\* What timer t leaves in the system queue when it has run: a loop, and an
\* event whose interval is not 0, registers itself again; so does a dump,
\* after its warnings.  Warnings run once.
Rerun(r, t, at) ==
  IF t \in Warnings \/ (t \in Optional /\ interval[t] = 0) THEN r
  ELSE sq_register(IF t = dbsave THEN reg_dbsave_warnings(r, at, interval[t])
                   ELSE r,
                   t, at + interval[t])

\* init_sys_events(), at time at.
init_sys_events(at) ==
  LET none == [sq |-> << >>, when |-> [t \in Timers |-> 0]]
      on == Loops \cup {t \in Optional : InitInterval[t] > 0}
      warned == IF dbsave \in on
                THEN reg_dbsave_warnings(none, at, InitInterval[dbsave])
                ELSE none
  IN  RegisterAll(warned, on, [t \in on |-> at + InitInterval[t]])

-----------------------------------------------------------------------------
\* The timeout.

\* Unsigned subtraction wraps around.
Unsigned(n) == n % UINT

\* SECS_TO_MSECS(difftime(w, mudtime)) is a double, and negative when w has
\* passed.  What its conversion to uint64_t gives then depends on the machine:
\* some wrap around, others give 0.
MsecsTill(w, wraps) ==
  LET n == (w - mudtime) * MS_PER_SEC
  IN  IF n >= 0 THEN n ELSE IF wraps THEN Unsigned(n) ELSE 0

\* Mutant of queue_msecs_till_next: timeouts of semaphores are not looked at.
queue_msecs_till_next_no_sem(wraps) ==
  IF ready > 0 THEN 0
  ELSE Min({LONG_WAIT} \cup
           (IF qwait = {} THEN {} ELSE {MsecsTill(Min(qwait), wraps)}))

\* 0 when entries are ready; else the time until the first entry of the wait
\* queue, which is sorted, or any entry of the semaphore queue is due.
queue_msecs_till_next(wraps) ==
  IF ready > 0 THEN 0
  ELSE Min({LONG_WAIT} \cup
           (IF qwait = {} THEN {} ELSE {MsecsTill(Min(qwait), wraps)}) \cup
           {MsecsTill(w, wraps) : w \in qsem})

sq_msecs_till_next ==
  IF sq = << >> THEN NO_EVENT_WAIT ELSE Unsigned(when[Head(sq)] - now)

http_msecs_till_next ==
  IF http_quota < MS_PER_SEC /\ HTTP_SECOND_LIMIT > 0
  THEN ((MS_PER_SEC - http_quota) \div HTTP_SECOND_LIMIT) + HTTP_SECOND_LIMIT
  ELSE LONG_WAIT

\* check_sockets() shortens the timeout for connections with lines to run.
Throttled == {d \in Descs : input[d] > 0}

\* How long the loop will sleep.
Timeout ==
  /\ pc = "timeout" /\ pc' = "poll"
  /\ \E wraps \in BOOLEAN :
       msec_timeout' =
         Min({LONG_WAIT, queue_msecs_till_next(wraps), sq_msecs_till_next,
              http_msecs_till_next}
             \cup {Unsigned(MS_PER_SEC - quota[d]) : d \in Throttled})
  /\ UNCHANGED <<now, mudtime, last_mudtime, ncom, last, window, flag,
                 queues, timers, lines, requests, signals>>

-----------------------------------------------------------------------------
\* Sleeping in poll(), until its timeout or earlier; the system may take up
\* to MaxWork longer.  The timeout is not used again.

Sleep ==
  /\ pc = "poll" /\ pc' = "status"
  /\ now' \in now..Min({MaxNow, now + msec_timeout + MaxWork})
  /\ msec_timeout' = 0
  /\ UNCHANGED <<mudtime, flag, last_mudtime, ncom, last, window,
                 queues, timers, signals>>

\* The timeout, a signal, or a descriptor that is no connection.
Wake ==
  /\ Sleep
  /\ UNCHANGED <<lines, requests>>

\* Lines arrive on a connection; one with lines to run is not watched.
ReadLines ==
  /\ Sleep
  /\ \E d \in Descs \ Throttled, n \in 1..MaxInput :
       input' = [input EXCEPT ![d] = n]
  /\ UNCHANGED <<quota, ran, requests>>

ReadRequest ==
  /\ Sleep
  /\ http < MaxHttp /\ http' = http + 1
  /\ UNCHANGED <<http_quota, served, lines>>

\* A signal handler; for CHLD, reaper() when the child was a dump.
Signal(s) ==
  /\ sent[s] < MaxSignals /\ sent' = [sent EXCEPT ![s] = @ + 1]
  /\ pc # "down"
  /\ flags' = flags \cup {s}
  /\ UNCHANGED <<now, pc, places, queues, timers, lines, requests, handled>>

-----------------------------------------------------------------------------
\* check_status().

\* The queues take no more beside n entries that are ready.
Full(n) == n + Cardinality(qwait) + Cardinality(qsem) >= MaxQueue

\* After the last flag the clock is read and commands are run.
NextFlag ==
  IF flag = Len(Flags)
  THEN pc' = "commands" /\ mudtime' = now \div MS_PER_SEC /\ flag' = 1
  ELSE pc' = "status" /\ flag' = flag + 1 /\ UNCHANGED mudtime

SkipFlag ==
  /\ pc = "status" /\ Flags[flag] \notin flags
  /\ NextFlag
  /\ UNCHANGED <<now, msec_timeout, last_mudtime, ncom, last, window,
                 queues, timers, lines, requests, signals>>

\* The intervals after one of them has been set.
Configured == {[interval EXCEPT ![t] = i] : t \in Optional, i \in Intervals}

\* A flag that is set: INT shuts the game down; HUP reads the files again,
\* those with the configuration, too; the others queue an event when there is
\* a handler for it, and else USR1 reboots (which ends this process unless the
\* database cannot be saved) and USR2 dumps.
HandleFlag ==
  LET s == Flags[flag]
  IN  /\ pc = "status" /\ s \in flags
      /\ \E event \in BOOLEAN :
           /\ event => s \in {"CHLD", "USR1", "USR2"} /\ ~Full(ready)
           /\ ready' = IF event THEN ready + 1 ELSE ready
           /\ handled' = IF s = "USR1" /\ ~event THEN handled
                         ELSE [handled EXCEPT ![s] = Min({@ + 1, MaxSignals + 1})]
           /\ \/ s # "INT" /\ pc' = "clear"
              \/ (s = "INT" \/ (s = "USR1" /\ ~event)) /\ pc' = "down"
      /\ now' \in now..Min({MaxNow, now + MaxWork})
      /\ interval' \in {interval} \cup (IF s = "HUP" THEN Configured ELSE {})
      /\ UNCHANGED <<places, qwait, qsem, sq, when, lines, requests, flags, sent>>

\* Mutant of Cleared: every flag is reset.
Cleared_all(s) == {}

\* Mutant of Cleared: USR2 is not reset either.
Cleared_usr2(s) == flags \ ({s} \ {"USR1", "USR2"})

\* The flags after s has been handled.
Cleared(s) == flags \ ({s} \ {"USR1"})

ClearFlag ==
  /\ pc = "clear"
  /\ flags' = Cleared(Flags[flag])
  /\ NextFlag
  /\ UNCHANGED <<now, msec_timeout, last_mudtime, ncom, last, window,
                 queues, timers, lines, requests, sent, handled>>

-----------------------------------------------------------------------------
\* Running commands.

\* What one command does that the loop sees, when n entries are ready as it
\* starts: nothing, queue an entry, wait for a time or on a semaphore with a
\* timeout, release or halt an entry that waits, or set an interval with
\* @config.
Command(n) ==
  /\ now' \in now..Min({MaxNow, now + MaxWork})
  /\ \/ ready' = n /\ UNCHANGED <<qwait, qsem, interval>>
     \/ ~Full(n) /\ ready' = n + 1 /\ UNCHANGED <<qwait, qsem, interval>>
     \/ /\ ~Full(n) /\ ready' = n
        /\ \E delay \in Delays : qwait' = qwait \cup {mudtime + delay}
        /\ UNCHANGED <<qsem, interval>>
     \/ /\ ~Full(n) /\ ready' = n
        /\ \E delay \in Delays \cap Nat : qsem' = qsem \cup {mudtime + delay}
        /\ UNCHANGED <<qwait, interval>>
     \/ /\ ready' = n + 1
        /\ \E w \in qsem : qsem' = qsem \ {w}
        /\ UNCHANGED <<qwait, interval>>
     \/ /\ ready' = n
        /\ \E w \in qwait : qwait' = qwait \ {w}
        /\ UNCHANGED <<qsem, interval>>
     \/ /\ ready' = n
        /\ interval' \in Configured
        /\ UNCHANGED <<qwait, qsem>>
  /\ UNCHANGED <<sq, when>>

\* Mutant of Affordable: any quota that is left pays for a command.
Affordable_any(q) == q > 0

\* The quota pays for a command.
Affordable(q) == q >= MS_PER_SEC

\* process_commands(), for one connection; they take turns in an order that
\* does not matter here.
RunLine ==
  /\ pc = "commands"
  /\ \E d \in Throttled :
       /\ Affordable(quota[d])
       /\ quota' = [quota EXCEPT ![d] = Unsigned(@ - MS_PER_SEC)]
       /\ input' = [input EXCEPT ![d] = @ - 1]
       /\ ran' = [e \in Limited |-> ran[e] + IF e = d THEN 1 ELSE 0]
  /\ Command(ready)
  /\ UNCHANGED <<pc, places, requests, signals>>

\* For one HTTP request.
RunRequest ==
  /\ pc = "commands" /\ http > 0 /\ Affordable(http_quota)
  /\ http' = http - 1
  /\ http_quota' = http_quota - MS_PER_SEC
  /\ served' = served + 1
  /\ Command(ready)
  /\ UNCHANGED <<pc, places, lines, signals>>

\* No connection can run anything; requests are closed when the limit is 0.
CommandsDone ==
  /\ pc = "commands" /\ pc' = "update"
  /\ \A d \in Throttled : ~Affordable(quota[d])
  /\ http = 0 \/ ~Affordable(http_quota)
  /\ http' = IF HTTP_SECOND_LIMIT < 1 THEN 0 ELSE http
  /\ UNCHANGED <<now, places, queues, timers, lines, http_quota, served, signals>>

\* queue_update(): at most once per second.
QueueUpdate ==
  /\ pc = "update" /\ pc' = "top"
  /\ LET due(S) == {w \in S : w <= mudtime /\ mudtime # last_mudtime}
     IN  /\ ready' = ready + Cardinality(due(qwait)) + Cardinality(due(qsem))
         /\ qwait' = qwait \ due(qwait)
         /\ qsem' = qsem \ due(qsem)
  /\ last_mudtime' = mudtime
  /\ UNCHANGED <<now, mudtime, msec_timeout, ncom, last, window, flag,
                 timers, lines, requests, signals>>

\* do_top(): the first entry leaves the queue and runs.
DoTop ==
  /\ pc = "top" /\ ready > 0 /\ ncom < queue_chunk
  /\ ncom' = ncom + 1
  /\ Command(ready - 1)
  /\ UNCHANGED <<pc, mudtime, msec_timeout, last_mudtime, last, window, flag,
                 lines, requests, signals>>

TopDone ==
  /\ pc = "top" /\ pc' = "timers"
  /\ ready = 0 \/ ncom >= queue_chunk
  /\ ncom' = 0
  /\ UNCHANGED <<now, mudtime, msec_timeout, last_mudtime, last, window, flag,
                 queues, timers, lines, requests, signals>>

-----------------------------------------------------------------------------
\* Timers and quotas.

\* sq_run_one(): the first timer leaves the system queue and runs when it is
\* due.  It may queue an event.
RunTimer ==
  /\ pc = "timers" /\ sq # << >> /\ when[Head(sq)] <= now
  /\ \E at \in now..Min({MaxNow, now + MaxWork}) :
       LET r == Rerun([sq |-> Tail(sq), when |-> when], Head(sq), at)
       IN  now' = at /\ sq' = r.sq /\ when' = r.when
  /\ ready' \in {ready} \cup (IF Full(ready) THEN {} ELSE {ready + 1})
  /\ UNCHANGED <<pc, places, interval, qwait, qsem, lines, requests, signals>>

\* sq_run_all() ends, and clean_descriptors() writes output.
CleanDescriptors ==
  /\ pc = "timers" /\ pc' = "quotas"
  /\ sq # << >> => when[Head(sq)] > now
  /\ now' \in now..Min({MaxNow, now + MaxWork})
  /\ UNCHANGED <<places, queues, timers, lines, requests, signals>>

\* Mutant of Refilled: the quota is not capped.
Refilled_uncapped(q, perSecond, most) == q + perSecond * (now - last)

\* A quota that gets perSecond for each millisecond since the last time.
Refilled(q, perSecond, most) == Min({q + perSecond * (now - last), most})

\* update_quotas(), whose first call only looks at the clock.  Rates are
\* measured from the start of the game or from a later call.
UpdateQuotas ==
  /\ pc = "quotas" /\ pc' = "timeout"
  /\ last' = now
  /\ IF last = 0 THEN UNCHANGED <<quota, http_quota>>
     ELSE /\ quota' = [d \in Descs |->
                         IF d \in NOQUOTA THEN QUOTA_MAX
                         ELSE Refilled(quota[d], COMMANDS_PER_SECOND, QUOTA_MAX)]
          /\ http_quota' = Refilled(http_quota, HTTP_SECOND_LIMIT,
                                    HTTP_SECOND_LIMIT * MS_PER_SEC)
  /\ \/ UNCHANGED <<window, ran, served>>
     \/ /\ now \in Windows /\ window' = now
        /\ ran' = [d \in Limited |-> 0] /\ served' = 0
  /\ UNCHANGED <<now, mudtime, msec_timeout, last_mudtime, ncom, flag,
                 queues, timers, input, http, signals>>

-----------------------------------------------------------------------------

\* The second in which the game starts.
Start == MS_PER_SEC

Init ==
  /\ now = Start
  /\ pc = "timeout"
  /\ mudtime = Start \div MS_PER_SEC
  /\ msec_timeout = 0 /\ last_mudtime = 0 /\ ncom = 0 /\ last = 0
  /\ flag = 1 /\ window = now
  /\ ready = 0 /\ qwait = {} /\ qsem = {}
  /\ sq = init_sys_events(Start).sq
  /\ when = init_sys_events(Start).when
  /\ interval = InitInterval
  /\ input = [d \in Descs |-> 0]
  /\ quota = [d \in Descs |-> QUOTA_MAX]
  /\ ran = [d \in Limited |-> 0]
  /\ http = 0 /\ http_quota = 0 /\ served = 0
  /\ flags = {}
  /\ sent = [s \in Kinds |-> 0]
  /\ handled = [s \in Kinds |-> 0]

\* The steps of the loop itself.
Loop ==
  \/ Timeout
  \/ Wake \/ ReadLines \/ ReadRequest
  \/ SkipFlag \/ HandleFlag \/ ClearFlag
  \/ RunLine \/ RunRequest \/ CommandsDone
  \/ QueueUpdate \/ DoTop \/ TopDone
  \/ RunTimer \/ CleanDescriptors \/ UpdateQuotas

Next == Loop \/ \E s \in Kinds : Signal(s)

Spec == Init /\ [][Next]_vars

\* The process is scheduled, poll() returns, and commands end (they have a
\* limit on their time).
FairSpec == Spec /\ WF_vars(Loop)

-----------------------------------------------------------------------------
\* Properties.

\* Every variable has its type; no quota is above its limit, which a quota
\* that wraps around would be (update_quotas(), process_commands()).
TypeOK ==
  /\ now \in Start..MaxNow /\ last \in 0..now
  /\ window \in Start..now
  /\ pc \in {"timeout", "poll", "status", "clear", "commands", "update",
             "top", "timers", "quotas", "down"}
  /\ mudtime \in 1..now /\ last_mudtime \in 0..mudtime
  /\ msec_timeout \in 0..LONG_WAIT
  /\ ready \in 0..MaxQueue
  /\ qwait \subseteq Int /\ qsem \subseteq Nat
  /\ ncom \in 0..queue_chunk /\ flag \in DOMAIN Flags
  /\ sq \in Seq(Timers) /\ when \in [Timers -> Nat]
  /\ interval \in [Loops \cup Optional -> Nat]
  /\ input \in [Descs -> 0..MaxInput] /\ ran \in [Limited -> Nat]
  /\ quota \in [Descs -> 0..QUOTA_MAX]
  /\ http \in 0..MaxHttp /\ served \in Nat
  /\ http_quota \in 0..(HTTP_SECOND_LIMIT * MS_PER_SEC)
  /\ flags \subseteq Kinds
  /\ sent \in [Kinds -> 0..MaxSignals] /\ handled \in [Kinds -> Nat]

\* The system queue of src/timer.c is sorted by due time and holds no timer
\* twice, through timers that register themselves and others while they run
\* and that @config turns off; loops never drop out of it, and no warning
\* stands in it without the dump it announces.
SystemQueue ==
  /\ \A i, j \in DOMAIN sq : i < j => sq[i] # sq[j] /\ when[sq[i]] <= when[sq[j]]
  /\ Loops \subseteq Range(sq)
  /\ Range(sq) \cap Warnings # {} => dbsave \in Range(sq)

\* However the lines of a connection arrive, process_commands() runs no more
\* of them in any period than the burst and COMMANDS_PER_SECOND for its time.
RateLimited ==
  \A d \in Limited :
    MS_PER_SEC * ran[d] <= QUOTA_MAX + COMMANDS_PER_SECOND * (now - window)

\* In any period no more HTTP requests are served than HTTP_SECOND_LIMIT and
\* HTTP_SECOND_LIMIT for each second of it.
HttpLimited ==
  MS_PER_SEC * served <= HTTP_SECOND_LIMIT * (MS_PER_SEC + now - window)

\* The loop sleeps no longer than until an entry is due that waits for a time,
\* on the wait queue or on a semaphore, give or take what its own clock,
\* mudtime, is behind; when one is due already it does not sleep.
NotOverslept ==
  pc = "poll" =>
    \A w \in qwait \cup qsem :
      now + msec_timeout <=
        Max({w * MS_PER_SEC + (now - mudtime * MS_PER_SEC), now})

\* check_status() acts on a signal at most once (USR1 apart).
OncePerSignal == \A s \in Kinds \ {"USR1"} : handled[s] <= sent[s]

\* Whatever else arrives, SIGINT shuts the game down: the loop comes back to
\* check_status(), and no other signal makes it forget the flag.
ShutsDown == "INT" \in flags ~> pc = "down"

=============================================================================
