---------------------------- MODULE Connections ----------------------------
(***************************************************************************)
(* A connection from accept to close (bsd.c, info_master.c, info_slave.c). *)
(* The game accepts a socket and asks a helper process, info_slave, for    *)
(* the name of the peer; a request and its answer carry the number of the  *)
(* socket and nothing else that identifies the connection.  The answer     *)
(* makes a descriptor, which is welcomed by timers, logs a player in and   *)
(* out or serves one HTTP request, and is closed by clean_descriptors.     *)
(*                                                                         *)
(* Everything but the helper, the peers and SIGCHLD happens in the main    *)
(* loop.  The nested loops in which make_info_slave and query_info_slave   *)
(* call each other are the worklist todo: a restart puts every pending     *)
(* socket in front of what the outer loop still has to do.                 *)
(***************************************************************************)
EXTENDS Integers, Sequences, FiniteSets

CONSTANTS
    Fds,                \* numbers of sockets the kernel hands out
    Clients,            \* peers, by address
    NULL,
    avail_descriptors,
    RETRY,              \* seconds after which a lookup is repeated (30)
    WINDOW,             \* seconds over which helper starts are counted (60)
    MAX_ATTEMPTS,       \* helper starts allowed in that time (5)
    SOCKBUF,            \* answers that fit the socket from the helper
    MaxAsked,           \* equal requests the helper works on, a bound
    MAX_LOGINS,
    MaxDeaths,          \* helpers that die by themselves, a bound
    LoginBound,         \* refused logins counted by login_number, a bound
    Requests            \* what peers and players do, see Commands

ASSUME FdsAssumption == Fds \subseteq Nat /\ IsFiniteSet(Fds)
ASSUME ClientsAssumption == NULL \notin Clients
ASSUME LimitAssumption ==
    /\ avail_descriptors \in Nat /\ RETRY \in Nat /\ WINDOW \in Nat
    /\ MAX_ATTEMPTS \in Nat /\ SOCKBUF \in Nat /\ MAX_LOGINS \in Nat
    /\ LoginBound \in Nat /\ MaxAsked \in Nat /\ MaxDeaths \in Nat

VARIABLES
    sock,               \* the peer of an open socket, NULL when closed
    gone,               \* open sockets whose peer has hung up
    info_slave_state, info_slave_pid,
    helper,             \* the process: up, dead (SIGCHLD to come), gone
    deaths,             \* how many helpers have died by themselves
    info_pending, pending_max,
    age,                \* seconds since info_queue_time, at most RETRY + 1
    startup_attempts,
    window,             \* seconds since startup_window, at most WINDOW + 1
    info_slave_halted,
    reqs,               \* requests the helper has not answered, counted
    resps,              \* answers in the socket from the helper
    todo, sent,         \* sockets to query; the first has been sent
    descs,              \* the descriptor of a socket
    sq,                 \* timers of descriptors in the system queue, counted
    ndescriptors, login_number, under_limit

sockVars == <<sock, gone, ndescriptors>>
helperVars == <<info_slave_state, info_slave_pid, helper, deaths,
                startup_attempts, window, info_slave_halted>>
lookupVars == <<info_pending, pending_max, age, reqs, resps, todo, sent>>
loginVars == <<login_number, under_limit>>
vars == <<sockVars, helperVars, lookupVars, descs, sq, loginVars>>

DOWN == "DOWN"
READY == "READY"
PENDING == "PENDING"

\* The functions conn_timer may run.
Funs == {"telnet", "welcome", "http"}

\* A descriptor.
DESC == [addr : Clients, connected : {"SCREEN", "PLAYER", "DENIED"},
         wizard : BOOLEAN,
         conn_flags : SUBSET {"FIRST", "HTTP", "HTTP_READY", "HTTP_CLOSE",
                              "SHUTDOWN"},
         conn_timer : Funs \cup {NULL}]

ASSUME NullAssumption == NULL \notin DESC /\ NULL \notin Funs

\* Datagrams hold the number of the socket and, in effect, the address of
\* the peer it had when the request was made.
Datagrams == Fds \X Clients
NoDatagrams == [m \in Datagrams |-> 0]

Commands == {"line", "quit", "logout", "connect", "boot", "http", "slave"}

ASSUME RequestsAssumption == Requests \subseteq Commands

CONN_CLOSABLES == {"SHUTDOWN", "HTTP_CLOSE"}

Open == {f \in Fds : sock[f] # NULL}
Described == {f \in Fds : descs[f] # NULL}

\* A plausible mistake: one too many.
Room_inclusive == ndescriptors <= avail_descriptors

\* check_sockets looks for new connections.
Room == ndescriptors < avail_descriptors

\* The main loop is not inside query_info_slave.
Idle == todo = <<>>

-----------------------------------------------------------------------------
\* Timers of descriptors.

\* initializesock: a new descriptor and its first timer.
initializesock(f, addr) ==
    /\ descs' = [descs EXCEPT ![f] =
                   [addr |-> addr, connected |-> "SCREEN", wizard |-> FALSE,
                    conn_flags |-> {"FIRST"}, conn_timer |-> "telnet"]]
    /\ sq' = [sq EXCEPT ![<<f, "telnet">>] = @ + 1]

\* A plausible mistake: the timer is not unlinked.
sq_cancel_keeps(S) == sq

\* The system queue after sq_cancel(d->conn_timer) for the descriptors of S.
sq_cancel(S) ==
    [t \in DOMAIN sq |-> IF /\ t[1] \in S
                            /\ descs[t[1]].conn_timer = t[2]
                            /\ sq[t] > 0
                         THEN sq[t] - 1 ELSE sq[t]]

\* The same, with a timer registered for f.
sq_register(q, f, fun) == [q EXCEPT ![<<f, fun>>] = @ + 1]

-----------------------------------------------------------------------------
\* Asking the helper.

\* The numbers of S in the order in which a loop comes to them.
Ascending(S) ==
    CHOOSE s \in [1..Cardinality(S) -> S] :
        \A i, j \in DOMAIN s : i < j => s[i] < s[j]

\* A plausible mistake: the loop ends one socket early.
PendingBelow_short(max) == Ascending({f \in info_pending : f < max - 1})

\* The pending sockets below max, in the order of the loops over them.
PendingBelow(max) == Ascending({f \in info_pending : f < max})

\* pending_max after query_info_slave(f).
PendingMax(f) == IF f > pending_max THEN f + 1 ELSE pending_max

\* A plausible mistake: the state is left as it was.
kill_info_slave_stale ==
    /\ helper' = "gone"
    /\ info_slave_pid' = FALSE
    /\ reqs' = NoDatagrams /\ resps' = <<>>
    /\ UNCHANGED <<info_slave_state, deaths>>

\* kill_info_slave: the process, its socket and all that is in it are gone.
kill_info_slave ==
    /\ info_slave_state' = DOWN
    /\ info_slave_pid' = FALSE
    /\ helper' = "gone"
    /\ reqs' = NoDatagrams /\ resps' = <<>>
    /\ UNCHANGED deaths

\* make_info_slave counts the attempt, the running helper having been killed.
Attempt == startup_attempts + 1
AttemptWindow == IF startup_attempts = 0 THEN 0 ELSE window
TooManyAttempts == Attempt > MAX_ATTEMPTS /\ AttemptWindow <= WINDOW

\* It gives up, or socketpair or fork fails.
MakeFails ==
    /\ kill_info_slave
    /\ \/ /\ TooManyAttempts
          /\ info_slave_halted' = TRUE
          /\ startup_attempts' = Attempt
          /\ window' = AttemptWindow
       \/ /\ ~TooManyAttempts
          /\ startup_attempts' = IF Attempt > MAX_ATTEMPTS THEN 0 ELSE Attempt
          /\ window' = IF Attempt > MAX_ATTEMPTS THEN 0 ELSE AttemptWindow
          /\ UNCHANGED info_slave_halted

\* It starts a helper.  A child that dies before info_slave_pid is assigned
\* is reaped without anybody noticing.
MakeStarts ==
    /\ ~TooManyAttempts
    /\ startup_attempts' = IF Attempt > MAX_ATTEMPTS THEN 0 ELSE Attempt
    /\ window' = IF Attempt > MAX_ATTEMPTS THEN 0 ELSE AttemptWindow
    /\ info_slave_state' = READY
    /\ info_slave_pid' = TRUE
    /\ \/ helper' = "up" /\ UNCHANGED deaths
       \/ deaths < MaxDeaths /\ helper' = "gone" /\ deaths' = deaths + 1
    /\ reqs' = NoDatagrams
    /\ resps' = <<>>
    /\ UNCHANGED info_slave_halted

\* A plausible mistake: FD_CLR is forgotten.
CloseQueried_pending(f) ==
    /\ sock' = [sock EXCEPT ![f] = NULL]
    /\ gone' = gone \ {f}
    /\ UNCHANGED info_pending

\* query_info_slave closes a socket it cannot ask about.
CloseQueried(f) ==
    /\ sock' = [sock EXCEPT ![f] = NULL]
    /\ gone' = gone \ {f}
    /\ info_pending' = info_pending \ {f}

\* A loop meets a socket that is no longer pending.
QuerySkip ==
    /\ todo # <<>> /\ Head(todo) \notin info_pending
    /\ todo' = Tail(todo)
    /\ UNCHANGED <<sockVars, helperVars, info_pending, pending_max, age, reqs,
                   resps, sent, descs, sq, loginVars>>

\* query_info_slave(f) up to the point where it knows the helper's state.
Querying(f) ==
    /\ todo # <<>> /\ ~sent /\ f = Head(todo) /\ f \in info_pending
    /\ pending_max' = PendingMax(f)
    /\ age' = 0
    /\ UNCHANGED <<sent, ndescriptors, descs, sq, loginVars>>

\* The helper is down: start it, which queries every pending socket, this one
\* included, or drop the connection.
QueryDown(f) ==
    /\ Querying(f)
    /\ info_slave_state = DOWN
    /\ \/ /\ MakeStarts
          /\ todo' = Ascending(info_pending) \o Tail(todo)
          /\ UNCHANGED <<sock, gone, info_pending>>
       \/ /\ MakeFails
          /\ CloseQueried(f)
          /\ todo' = Tail(todo)

\* The peer has hung up, or its address is forbidden: sitelock rules may change
\* at any time.
QueryRefused(f) ==
    /\ Querying(f)
    /\ info_slave_state # DOWN
    /\ CloseQueried(f)
    /\ todo' = Tail(todo)
    /\ UNCHANGED <<helperVars, reqs, resps>>

\* The request is sent ...
QuerySend(f) ==
    /\ todo # <<>> /\ ~sent /\ f = Head(todo) /\ f \in info_pending
    /\ info_slave_state # DOWN
    /\ f \notin gone
    /\ helper = "up"
    /\ pending_max' = PendingMax(f)
    /\ age' = 0
    /\ reqs' = [reqs EXCEPT ![<<f, sock[f]>>] =
                               IF @ < MaxAsked THEN @ + 1 ELSE @]
    /\ sent' = TRUE
    /\ UNCHANGED <<sockVars, helperVars, info_pending, resps, todo, descs, sq,
                   loginVars>>

\* ... and the state assigned, whatever SIGCHLD did in between.
QuerySent ==
    /\ sent
    /\ info_slave_state' = PENDING
    /\ sent' = FALSE
    /\ todo' = Tail(todo)
    /\ UNCHANGED <<sockVars, info_slave_pid, helper, deaths, startup_attempts,
                   window, info_slave_halted, info_pending, pending_max, age, reqs,
                   resps, descs, sq, loginVars>>

\* The send fails because the helper is dead: start another one.
QueryFails(f) ==
    /\ Querying(f)
    /\ info_slave_state # DOWN
    /\ f \notin gone
    /\ helper # "up"
    /\ \/ /\ MakeStarts
          /\ todo' = Ascending(info_pending) \o Tail(todo)
       \/ /\ MakeFails
          /\ todo' = Tail(todo)
    /\ UNCHANGED <<sock, gone, info_pending>>

Query ==
    \/ QuerySkip \/ QuerySent
    \/ \E f \in Fds : QueryDown(f) \/ QueryRefused(f) \/ QuerySend(f)
                      \/ QueryFails(f)

-----------------------------------------------------------------------------
\* The main loop and the helper.

\* got_new_connection while the helper is in use.
Accept(f, c) ==
    /\ Idle /\ ~info_slave_halted
    /\ Room
    /\ sock[f] = NULL
    /\ sock' = [sock EXCEPT ![f] = c]
    /\ ndescriptors' = ndescriptors + 1
    /\ info_pending' = info_pending \cup {f}
    /\ todo' = <<f>>
    /\ UNCHANGED <<gone, helperVars, pending_max, age, reqs, resps, sent,
                   descs, sq, loginVars>>

\* setup_desc once the helper has been given up: the lookup blocks.
AcceptDirect(f, c) ==
    /\ Idle /\ info_slave_halted
    /\ Room
    /\ sock[f] = NULL
    /\ sock' = [sock EXCEPT ![f] = c]
    /\ ndescriptors' = ndescriptors + 1
    /\ initializesock(f, c)
    /\ UNCHANGED <<gone, helperVars, lookupVars, loginVars>>

\* update_pending_info_slaves.
Requery ==
    /\ Idle
    /\ info_slave_state = PENDING /\ age > RETRY
    /\ age' = 0
    /\ todo' = PendingBelow(pending_max)
    /\ UNCHANGED <<sockVars, helperVars, info_pending, pending_max, reqs, resps,
                   sent, descs, sq, loginVars>>

\* reap_info_slave reads an answer for a socket that is not pending.
ReapStale ==
    /\ Idle
    /\ info_slave_state = PENDING
    /\ resps # <<>> /\ Head(resps)[1] \notin info_pending
    /\ resps' = Tail(resps)
    /\ UNCHANGED <<sockVars, helperVars, info_pending, pending_max, age, reqs,
                   todo, sent, descs, sq, loginVars>>

\* reap_info_slave reads an answer; the address or the name may be forbidden.
Reap ==
    LET f == Head(resps)[1]
        left == {n \in info_pending \ {f} : n < pending_max}
    IN  /\ Idle
        /\ info_slave_state = PENDING
        /\ resps # <<>> /\ f \in info_pending
        /\ resps' = Tail(resps)
        /\ info_pending' = info_pending \ {f}
        /\ info_slave_state' = IF left = {} THEN READY ELSE PENDING
        /\ pending_max' = IF left = {} THEN 0 ELSE pending_max
        /\ \/ /\ sock' = [sock EXCEPT ![f] = NULL]
              /\ gone' = gone \ {f}
              /\ UNCHANGED <<descs, sq>>
           \/ /\ initializesock(f, Head(resps)[2])
              /\ UNCHANGED <<sock, gone>>
        /\ UNCHANGED <<ndescriptors, info_slave_pid, helper, deaths,
                       startup_attempts, window, info_slave_halted, age, reqs, todo, sent,
                       loginVars>>

\* @slave/restart info: kill_info_slave.
SlaveRestart ==
    /\ Idle /\ "slave" \in Requests
    /\ info_slave_state # DOWN
    /\ kill_info_slave
    /\ UNCHANGED <<sockVars, startup_attempts, window, info_slave_halted,
                   info_pending, pending_max, age, todo, sent, descs, sq,
                   loginVars>>

\* The helper answers a request, in any order, when there is room.
Answer(m) ==
    /\ helper = "up" /\ reqs[m] > 0 /\ Len(resps) < SOCKBUF
    /\ reqs' = [reqs EXCEPT ![m] = @ - 1]
    /\ resps' = Append(resps, m)
    /\ UNCHANGED <<sockVars, helperVars, info_pending, pending_max, age, todo,
                   sent, descs, sq, loginVars>>

\* The helper exits; what it has sent can still be read.
HelperExits ==
    /\ helper = "up" /\ deaths < MaxDeaths
    /\ helper' = "dead" /\ deaths' = deaths + 1
    /\ reqs' = NoDatagrams
    /\ UNCHANGED <<sockVars, info_slave_state, info_slave_pid, startup_attempts,
                   window, info_slave_halted, info_pending, pending_max, age,
                   resps, todo, sent, descs, sq, loginVars>>

\* SIGCHLD: reaper.
Reaper ==
    /\ helper = "dead"
    /\ helper' = "gone"
    /\ info_slave_state' = DOWN
    /\ info_slave_pid' = FALSE
    /\ UNCHANGED <<sockVars, deaths, startup_attempts, window, info_slave_halted,
                   lookupVars, descs, sq, loginVars>>

\* A peer hangs up.
PeerGone(f) ==
    /\ sock[f] # NULL /\ f \notin gone
    /\ gone' = gone \cup {f}
    /\ UNCHANGED <<sock, ndescriptors, helperVars, lookupVars, descs, sq,
                   loginVars>>

\* A second passes.
Tick ==
    /\ Idle
    /\ age <= RETRY \/ window <= WINDOW
    /\ age' = IF age > RETRY THEN age ELSE age + 1
    /\ window' = IF window > WINDOW THEN window ELSE window + 1
    /\ UNCHANGED <<sockVars, info_slave_state, info_slave_pid, helper, deaths,
                   startup_attempts, info_slave_halted, info_pending,
                   pending_max, reqs, resps, todo, sent, descs, sq, loginVars>>

-----------------------------------------------------------------------------
\* Descriptors.

\* A step of the main loop for the descriptor of f, in which its flags, its
\* state and its timer become the given ones.
Becomes(f, d, q) ==
    /\ Idle
    /\ descs' = [descs EXCEPT ![f] = d]
    /\ sq' = q
    /\ UNCHANGED <<sockVars, helperVars, lookupVars>>

\* The descriptor with its timer cancelled (or run) and flags added.
Untimed(f, add) ==
    [descs[f] EXCEPT !.conn_timer = NULL,
                     !.conn_flags = (@ \ {"FIRST"}) \cup add]

\* sq_run_one on a timer: test_telnet_wrapper, welcome_user_wrapper,
\* http_finished_wrapper.
RunTimer(f, fun) ==
    LET q == [sq EXCEPT ![<<f, fun>>] = @ - 1]
    IN  /\ sq[<<f, fun>>] > 0 /\ descs[f] # NULL
        /\ \/ /\ fun = "telnet"
              /\ Becomes(f, [descs[f] EXCEPT !.conn_timer = "welcome"],
                         sq_register(q, f, "welcome"))
           \/ /\ fun = "welcome"
              /\ Becomes(f, [descs[f] EXCEPT !.conn_timer = NULL], q)
           \/ /\ fun = "http"
              /\ Becomes(f, [descs[f] EXCEPT !.conn_timer = NULL,
                                             !.conn_flags = @ \cup {"HTTP_READY"}],
                         q)
        /\ UNCHANGED loginVars

\* process_commands runs a line of a descriptor.
Typing(f) ==
    /\ descs[f] # NULL
    /\ {"SHUTDOWN", "HTTP"} \cap descs[f].conn_flags = {}

\* do_command: any command ends the waiting for the welcome; QUIT.
Line(f) ==
    /\ Typing(f)
    /\ \/ "line" \in Requests /\ Becomes(f, Untimed(f, {}), sq_cancel({f}))
       \/ "quit" \in Requests
          /\ Becomes(f, Untimed(f, {"SHUTDOWN"}), sq_cancel({f}))
    /\ UNCHANGED loginVars

\* A plausible mistake: descriptors that are not connected count, too.
Disconnected_any(n) ==
    /\ login_number' = login_number - 1
    /\ UNCHANGED under_limit

\* disconnect_player for n connected players.
Disconnected(n) ==
    /\ login_number' = login_number - n
    /\ under_limit' = \/ under_limit
                      \/ MAX_LOGINS # 0 /\ n > 0 /\ login_number - n < MAX_LOGINS

\* LOGOUT: logout_sock.
Logout(f) ==
    /\ Typing(f) /\ "logout" \in Requests
    /\ Becomes(f, [Untimed(f, {}) EXCEPT !.connected = "SCREEN",
                                         !.wizard = FALSE], sq_cancel({f}))
    /\ Disconnected(IF descs[f].connected = "PLAYER" THEN 1 ELSE 0)

\* A plausible mistake: the test is made before the player is counted.
StillUnder_before ==
    under_limit /\ (MAX_LOGINS = 0 \/ login_number <= MAX_LOGINS)

\* Whether the player who logs in is within the limit.
StillUnder == under_limit /\ (MAX_LOGINS = 0 \/ login_number + 1 <= MAX_LOGINS)

\* check_connect and dump_messages for a player who may (Can_Login) or may
\* not exceed the limit.
Connect(f, wizard) ==
    /\ Typing(f) /\ "connect" \in Requests
    /\ descs[f].connected = "SCREEN" /\ login_number < LoginBound
    /\ login_number' = login_number + 1
    /\ under_limit' = StillUnder
    /\ LET in == StillUnder \/ wizard
       IN  Becomes(f, [Untimed(f, IF in THEN {} ELSE {"SHUTDOWN"}) EXCEPT
                          !.connected = IF in THEN "PLAYER" ELSE "DENIED",
                          !.wizard = wizard], sq_cancel({f}))

\* boot_desc and inactivity_check.
Boot(f) ==
    /\ descs[f] # NULL /\ "boot" \in Requests
    /\ Becomes(f, [descs[f] EXCEPT !.conn_flags = @ \cup {"SHUTDOWN"}], sq)
    /\ UNCHANGED loginVars

\* check_sockets on a socket whose peer has hung up: the read fails, or poll
\* reports POLLHUP only, which ends a request.
HungUp(f) ==
    /\ descs[f] # NULL /\ f \in gone
    /\ \/ Becomes(f, [descs[f] EXCEPT !.conn_flags = @ \cup {"SHUTDOWN"}], sq)
       \/ Becomes(f, [descs[f] EXCEPT !.conn_timer = NULL,
                                      !.conn_flags = @ \cup {"HTTP_READY"}],
                  sq_cancel({f}))
    /\ UNCHANGED loginVars

\* process_http_start on the first line: a request, or one that is refused.
HttpStart(f) ==
    /\ descs[f] # NULL /\ "FIRST" \in descs[f].conn_flags /\ "http" \in Requests
    /\ \/ Becomes(f, [Untimed(f, {"HTTP"}) EXCEPT !.conn_timer = "http"],
                  sq_register(sq_cancel({f}), f, "http"))
       \/ Becomes(f, Untimed(f, {"HTTP_CLOSE"}), sq_cancel({f}))
    /\ UNCHANGED loginVars

\* process_http_input: the request is complete, or there is more to come.
HttpInput(f) ==
    /\ descs[f] # NULL /\ "HTTP" \in descs[f].conn_flags
    /\ \/ Becomes(f, Untimed(f, {"HTTP_READY"}), sq_cancel({f}))
       \/ Becomes(f, [Untimed(f, {}) EXCEPT !.conn_timer = "http"],
                  sq_register(sq_cancel({f}), f, "http"))
    /\ UNCHANGED loginVars

\* do_http_command.
HttpCommand(f) ==
    /\ descs[f] # NULL
    /\ "HTTP_READY" \in descs[f].conn_flags
    /\ CONN_CLOSABLES \cap descs[f].conn_flags = {}
    /\ Becomes(f, [descs[f] EXCEPT !.conn_timer = NULL,
                                   !.conn_flags = @ \cup {"HTTP_CLOSE"}],
               sq_cancel({f}))
    /\ UNCHANGED loginVars

\* clean_descriptors: disconnect_desc and cleanup_desc for every descriptor
\* that is to be closed.
Closable == {f \in Described : CONN_CLOSABLES \cap descs[f].conn_flags # {}}
CleanDescriptors ==
    /\ Idle
    /\ Closable # {}
    /\ Disconnected(Cardinality({f \in Closable : descs[f].connected = "PLAYER"}))
    /\ sq' = sq_cancel(Closable)
    /\ descs' = [f \in Fds |-> IF f \in Closable THEN NULL ELSE descs[f]]
    /\ sock' = [f \in Fds |-> IF f \in Closable THEN NULL ELSE sock[f]]
    /\ gone' = gone \ Closable
    /\ ndescriptors' = ndescriptors - Cardinality(Closable)
    /\ UNCHANGED <<helperVars, lookupVars>>

-----------------------------------------------------------------------------
\* The game has just started its helper.
Init ==
    /\ sock = [f \in Fds |-> NULL]
    /\ gone = {}
    /\ info_slave_state = READY /\ info_slave_pid = TRUE /\ helper = "up"
    /\ deaths = 0
    /\ info_pending = {} /\ pending_max = 0 /\ age = 0
    /\ startup_attempts = 1 /\ window = 0 /\ info_slave_halted = FALSE
    /\ reqs = NoDatagrams /\ resps = <<>>
    /\ todo = <<>> /\ sent = FALSE
    /\ descs = [f \in Fds |-> NULL]
    /\ sq = [t \in Fds \X Funs |-> 0]
    /\ ndescriptors = 0 /\ login_number = 0 /\ under_limit = TRUE

Next ==
    \/ Query
    \/ \E f \in Fds, c \in Clients : Accept(f, c) \/ AcceptDirect(f, c)
    \/ Requery
    \/ ReapStale \/ Reap
    \/ \E m \in Datagrams : Answer(m)
    \/ SlaveRestart \/ HelperExits \/ Reaper \/ Tick
    \/ \E f \in Fds :
          \/ PeerGone(f) \/ Line(f) \/ Logout(f) \/ Boot(f) \/ HungUp(f)
          \/ HttpStart(f) \/ HttpInput(f) \/ HttpCommand(f)
          \/ \E fun \in Funs : RunTimer(f, fun)
          \/ \E wizard \in BOOLEAN : Connect(f, wizard)
    \/ CleanDescriptors

Spec == Init /\ [][Next]_vars

\* The main loop keeps running and reading, time passes, and a helper that is
\* up answers.
Fairness ==
    /\ WF_vars(Query) /\ WF_vars(Requery) /\ WF_vars(Tick)
    /\ SF_vars(ReapStale \/ Reap)
    /\ \A m \in Datagrams : SF_vars(Answer(m))

FairSpec == Spec /\ Fairness

-----------------------------------------------------------------------------
\* Every variable has a value its C declaration allows; login_number, which is
\* decremented by disconnect_player only, does not fall below 0.
TypeOK ==
    /\ sock \in [Fds -> Clients \cup {NULL}]
    /\ gone \subseteq Open
    /\ info_slave_state \in {DOWN, READY, PENDING}
    /\ info_slave_pid \in BOOLEAN /\ helper \in {"up", "dead", "gone"}
    /\ deaths \in 0..MaxDeaths
    /\ info_pending \subseteq Fds /\ pending_max \in Nat
    /\ age \in 0..RETRY + 1 /\ window \in 0..WINDOW + 1
    /\ startup_attempts \in Nat /\ info_slave_halted \in BOOLEAN
    /\ reqs \in [Datagrams -> Nat] /\ resps \in Seq(Datagrams)
    /\ todo \in Seq(Fds) /\ sent \in BOOLEAN
    /\ descs \in [Fds -> DESC \cup {NULL}]
    /\ sq \in [Fds \X Funs -> Nat]
    /\ ndescriptors \in Nat /\ login_number \in Nat /\ under_limit \in BOOLEAN

\* A socket the game holds open is either waiting for its name or has a
\* descriptor, never both: no answer makes a second descriptor or one for a
\* closed socket, no repeated query closes a socket that is in use, and none
\* is forgotten.
SocketOwned ==
    /\ Open = info_pending \cup Described
    /\ info_pending \cap Described = {}

\* conn_timer of a descriptor is a timer in the system queue that will run on
\* that descriptor, and there is no other: no timer runs on a descriptor that
\* has been freed, and none is left that sq_cancel cannot reach.
TimersOwned ==
    \A f \in Fds, fun \in Funs :
        sq[<<f, fun>>] = IF descs[f] # NULL /\ descs[f].conn_timer = fun
                         THEN 1 ELSE 0

\* No more sockets are open than the game has descriptors for.
NotOverfull ==
    /\ Cardinality(Open) <= ndescriptors
    /\ ndescriptors <= avail_descriptors

\* Players who may not exceed max_logins do not, whoever comes and goes.
LoginLimit ==
    MAX_LOGINS # 0 =>
        Cardinality({f \in Described : descs[f].connected = "PLAYER"
                                       /\ ~descs[f].wizard}) <= MAX_LOGINS

\* The helper is given up for good: after too many starts none is running.
GivenUp == info_slave_halted => info_slave_state = DOWN

\* A connection below pending_max is named, refused or closed, unless the
\* helper goes down: answers that are late or lost with an unnoticed helper
\* are asked for again.
Settled ==
    \A f \in Fds :
        (f \in info_pending /\ f < pending_max)
            ~> (f \notin info_pending \/ info_slave_state = DOWN)

=============================================================================
