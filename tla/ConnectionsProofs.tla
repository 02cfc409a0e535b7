------------------------- MODULE ConnectionsProofs --------------------------
(***************************************************************************)
(* The safety properties of Connections for every value of the constants.  *)
(*                                                                         *)
(* Who owns a socket, which timers are in the system queue, how many       *)
(* descriptors and logins are counted and when the helper is given up are  *)
(* one invariant: a step on a descriptor keeps the timers because only its *)
(* own is touched, an answer finds no descriptor because the socket was    *)
(* pending, and the counts follow the sets they are counts of.             *)
(***************************************************************************)
EXTENDS Connections, QueueSeqsProofs, FiniteSetTheorems

\* The connected players.
Playing == {f \in Described : descs[f].connected = "PLAYER"}

\* The ones who may not exceed max_logins.
Guests == {f \in Described : descs[f].connected = "PLAYER" /\ ~descs[f].wizard}

\* Sockets: typed, owned by one side.
SockInv ==
  /\ sock \in [Fds -> Clients \cup {NULL}]
  /\ gone \subseteq Open
  /\ info_pending \subseteq Fds
  /\ SocketOwned

\* Descriptors and their timers.
TimerInv ==
  /\ descs \in [Fds -> DESC \cup {NULL}]
  /\ sq \in [Fds \X Funs -> Nat]
  /\ TimersOwned

\* ndescriptors counts at least the sockets that are open.
CountInv ==
  /\ ndescriptors \in Nat
  /\ NotOverfull

\* login_number counts at least the connected players, so it is a bound on
\* them while under_limit holds.
LoginInv ==
  /\ login_number \in Nat /\ under_limit \in BOOLEAN
  /\ Cardinality(Playing) <= login_number
  /\ MAX_LOGINS # 0 /\ under_limit => login_number <= MAX_LOGINS
  /\ LoginLimit

\* The helper: once it is given up, what is left of the nested loops finds
\* that there have been too many attempts, because no time passes in them.
HelperInv ==
  /\ info_slave_state \in {DOWN, READY, PENDING}
  /\ info_slave_pid \in BOOLEAN /\ helper \in {"up", "dead", "gone"}
  /\ deaths \in 0..MaxDeaths
  /\ window \in 0..WINDOW + 1
  /\ startup_attempts \in Nat /\ info_slave_halted \in BOOLEAN
  /\ info_slave_halted =>
       /\ info_slave_state = DOWN
       /\ ~sent
       /\ todo # <<>> => startup_attempts > MAX_ATTEMPTS /\ window <= WINDOW

\* What is asked, answered and still to be queried.
LookupInv ==
  /\ pending_max \in Nat /\ age \in 0..RETRY + 1
  /\ reqs \in [Datagrams -> Nat] /\ resps \in Seq(Datagrams)
  /\ todo \in Seq(Fds) /\ sent \in BOOLEAN
  /\ sent => todo # <<>> /\ Head(todo) \in info_pending

IInv == SockInv /\ TimerInv /\ CountInv /\ LoginInv /\ HelperInv /\ LookupInv

-----------------------------------------------------------------------------
\* Operators.

\* A finite set of numbers can be listed in ascending order.
LEMMA AscendingExists ==
  ASSUME NEW S, S \subseteq Nat, IsFiniteSet(S)
  PROVE  \E s \in [1..Cardinality(S) -> S] :
           \A i, j \in DOMAIN s : i < j => s[i] < s[j]
<1> DEFINE Listed(T, n) == \E s \in [1..n -> T] :
                             \A i, j \in 1..n : i < j => s[i] < s[j]
           N == {n \in Nat : \A T \in SUBSET S : Cardinality(T) = n => Listed(T, n)}
<1>1. 0 \in N
  <2> SUFFICES ASSUME NEW T \in SUBSET S PROVE Listed(T, 0)
    OBVIOUS
  <2>1. [i \in 1..0 |-> i] \in [1..0 -> T]
    OBVIOUS
  <2> QED BY <2>1
<1>2. ASSUME NEW n \in Nat, n \in N PROVE n + 1 \in N
  <2> SUFFICES ASSUME NEW T \in SUBSET S, Cardinality(T) = n + 1
               PROVE  Listed(T, n + 1)
    OBVIOUS
  <2>1. IsFiniteSet(T)
    BY FS_Subset
  <2>2. T # {}
    BY FS_EmptySet, <2>1
  <2>3. PICK m \in T : \A y \in T : m <= y
    BY <2>2, LeastElement, T \subseteq Nat
  <2>4. Cardinality(T \ {m}) = n
    <3>1. Cardinality(T \ {m}) = Cardinality(T) - 1
      BY <2>1, FS_RemoveElement
    <3> QED BY <3>1
  <2>5. PICK s \in [1..n -> T \ {m}] : \A i, j \in 1..n : i < j => s[i] < s[j]
    BY <1>2, <2>4
  <2> DEFINE t == [i \in 1..(n + 1) |-> IF i = 1 THEN m ELSE s[i - 1]]
  <2>6. \A i \in 1..(n + 1) : i # 1 => i - 1 \in 1..n
    OBVIOUS
  <2>7. t \in [1..(n + 1) -> T]
    BY <2>6
  <2>8. ASSUME NEW i \in 1..(n + 1), NEW j \in 1..(n + 1), i < j
        PROVE  t[i] < t[j]
    <3>1. j # 1 /\ j - 1 \in 1..n /\ t[j] = s[j - 1]
      BY <2>6, <2>8
    <3>2. CASE i = 1
      <4>1. s[j - 1] \in T /\ s[j - 1] # m
        BY <3>1
      <4>2. m <= s[j - 1] /\ m \in Nat /\ s[j - 1] \in Nat
        BY <2>3, <4>1
      <4> QED BY <3>1, <3>2, <4>1, <4>2
    <3>3. CASE i # 1
      <4>1. i - 1 \in 1..n /\ t[i] = s[i - 1] /\ i - 1 < j - 1
        BY <2>6, <2>8, <3>3
      <4> QED BY <2>5, <3>1, <4>1
    <3> QED BY <3>2, <3>3
  <2> HIDE DEF t
  <2> QED BY <2>7, <2>8
<1> HIDE DEF N
<1>3. Nat \subseteq N
  BY <1>1, <1>2, NatSetInduction
<1>4. Cardinality(S) \in Nat
  BY FS_CardinalityType
<1>5. Listed(S, Cardinality(S))
  BY <1>3, <1>4 DEF N
<1> QED BY <1>5

\* The loops over pending sockets visit sockets.
LEMMA AscendingType ==
  ASSUME NEW S, S \subseteq Fds
  PROVE  Ascending(S) \in Seq(Fds)
<1>1. S \subseteq Nat /\ IsFiniteSet(S)
  BY FdsAssumption, FS_Subset
<1>2. Ascending(S) \in [1..Cardinality(S) -> S]
  BY <1>1, AscendingExists DEF Ascending
<1>3. Cardinality(S) \in Nat
  BY <1>1, FS_CardinalityType
<1> QED BY <1>2, <1>3

\* Sets of sockets can be counted.
LEMMA SocketSets ==
  ASSUME NEW S, S \subseteq Fds
  PROVE  IsFiniteSet(S) /\ Cardinality(S) \in Nat
<1>1. IsFiniteSet(S)
  BY FdsAssumption, FS_Subset
<1> QED BY <1>1, FS_CardinalityType

\* A smaller set of sockets has no more elements.
LEMMA FewerSockets ==
  ASSUME NEW S, NEW T, S \subseteq T, T \subseteq Fds
  PROVE  Cardinality(S) <= Cardinality(T)
BY SocketSets, FS_Subset

-----------------------------------------------------------------------------
\* Steps of query_info_slave, of the helper and of the clock.

\* Descriptors and logins are not their business; a socket may be closed.
LEMMA LookupFrame ==
  ASSUME IInv, UNCHANGED <<descs, sq, ndescriptors, login_number, under_limit>>,
         Open' \subseteq Open
  PROVE  TimerInv' /\ CountInv' /\ LoginInv'
<1> USE DEF IInv
<1>1. TimerInv'
  BY DEF TimerInv, TimersOwned
<1>2. CountInv'
  <2>1. Open \subseteq Fds /\ Open' \subseteq Fds
    BY DEF Open
  <2>2. Cardinality(Open') <= Cardinality(Open)
    BY <2>1, FewerSockets
  <2>3. Cardinality(Open') \in Nat /\ Cardinality(Open) \in Nat
    BY <2>1, SocketSets
  <2>4. Cardinality(Open') = Cardinality(Open)'
    OBVIOUS
  <2> QED BY <2>2, <2>3, LimitAssumption DEF CountInv, NotOverfull
<1>3. Described' = Described
  BY DEF Described
<1>4. Playing' = Playing
  BY <1>3 DEF Playing
<1>5. LoginInv'
  BY <1>3, <1>4 DEF LoginInv, LoginLimit
<1> QED BY <1>1, <1>2, <1>5

\* A socket that was pending is closed: it is nobody's any more.
LEMMA CloseGood ==
  ASSUME IInv, NEW f \in info_pending, UNCHANGED descs,
         sock' = [sock EXCEPT ![f] = NULL], gone' = gone \ {f},
         info_pending' = info_pending \ {f}
  PROVE  SockInv' /\ Open' \subseteq Open
<1> USE DEF IInv, SockInv
<1>1. f \in Fds
  OBVIOUS
<1>2. sock' \in [Fds -> Clients \cup {NULL}]
  BY <1>1
<1>3. Open' = Open \ {f}
  BY <1>1, <1>2 DEF Open
<1>4. Described' = Described
  BY DEF Described
<1>5. SocketOwned'
  BY <1>3, <1>4 DEF SocketOwned
<1> QED BY <1>2, <1>3, <1>5

\* Sockets are left alone.
LEMMA SockFrame ==
  ASSUME IInv, UNCHANGED <<sock, gone, info_pending, descs>>
  PROVE  SockInv' /\ Open' \subseteq Open
<1>1. Open' = Open /\ Described' = Described
  BY DEF Open, Described
<1> QED BY <1>1 DEF IInv, SockInv, SocketOwned

\* make_info_slave gives up or fails: the loops go on without a helper.
LEMMA MakeFailsGood ==
  ASSUME IInv, todo # <<>>, ~sent, MakeFails, todo' = Tail(todo), UNCHANGED sent
  PROVE  /\ HelperInv'
         /\ reqs' \in [Datagrams -> Nat] /\ resps' \in Seq(Datagrams)
<1> USE LimitAssumption DEF IInv
<1>1. /\ info_slave_state' = DOWN /\ info_slave_pid' = FALSE /\ helper' = "gone"
      /\ deaths' = deaths /\ ~sent'
  BY DEF MakeFails, kill_info_slave
<1>2. reqs' \in [Datagrams -> Nat] /\ resps' \in Seq(Datagrams)
  BY DEF MakeFails, kill_info_slave, NoDatagrams
<1>3. CASE TooManyAttempts
  <2>1. /\ info_slave_halted' = TRUE
        /\ startup_attempts' = startup_attempts + 1
        /\ startup_attempts + 1 > MAX_ATTEMPTS
        /\ window' = AttemptWindow /\ AttemptWindow <= WINDOW
    BY <1>3 DEF MakeFails, TooManyAttempts, Attempt
  <2>2. AttemptWindow \in 0..WINDOW + 1 /\ startup_attempts \in Nat
    BY DEF AttemptWindow, HelperInv
  <2>3. window' \in 0..WINDOW + 1 /\ startup_attempts' \in Nat
    BY <2>1, <2>2
  <2>4. startup_attempts' > MAX_ATTEMPTS /\ window' <= WINDOW
    BY <2>1
  <2> QED BY <1>1, <1>2, <2>1, <2>3, <2>4 DEF HelperInv
<1>4. CASE ~TooManyAttempts
  <2>1. /\ info_slave_halted' = info_slave_halted
        /\ startup_attempts' = IF Attempt > MAX_ATTEMPTS THEN 0 ELSE Attempt
        /\ window' = IF Attempt > MAX_ATTEMPTS THEN 0 ELSE AttemptWindow
    BY <1>4 DEF MakeFails
  <2>2. ~info_slave_halted
    BY <1>4 DEF TooManyAttempts, Attempt, AttemptWindow, HelperInv
  <2>3. AttemptWindow \in 0..WINDOW + 1 /\ Attempt \in Nat
    BY DEF AttemptWindow, Attempt, HelperInv
  <2>4. window' \in 0..WINDOW + 1 /\ startup_attempts' \in Nat
    BY <2>1, <2>3
  <2> QED BY <1>1, <1>2, <2>1, <2>2, <2>4 DEF HelperInv
<1> QED BY <1>3, <1>4

\* make_info_slave starts a helper, which it does not once it has given up.
LEMMA MakeStartsGood ==
  ASSUME IInv, todo # <<>>, ~sent, MakeStarts, UNCHANGED sent
  PROVE  /\ HelperInv'
         /\ reqs' \in [Datagrams -> Nat] /\ resps' \in Seq(Datagrams)
<1> USE LimitAssumption DEF IInv
<1>1. ~TooManyAttempts
  BY DEF MakeStarts
<1>2. ~info_slave_halted
  BY <1>1 DEF TooManyAttempts, Attempt, AttemptWindow, HelperInv
<1>3. /\ info_slave_state' = READY /\ info_slave_pid' = TRUE
      /\ info_slave_halted' = info_slave_halted
      /\ startup_attempts' = IF Attempt > MAX_ATTEMPTS THEN 0 ELSE Attempt
      /\ window' = IF Attempt > MAX_ATTEMPTS THEN 0 ELSE AttemptWindow
  BY DEF MakeStarts
<1>4. AttemptWindow \in 0..WINDOW + 1 /\ Attempt \in Nat
  BY DEF AttemptWindow, Attempt, HelperInv
<1>5. window' \in 0..WINDOW + 1 /\ startup_attempts' \in Nat
  BY <1>3, <1>4
<1>6. helper' \in {"up", "dead", "gone"} /\ deaths' \in 0..MaxDeaths
  BY DEF MakeStarts, HelperInv
<1>7. HelperInv'
  BY <1>2, <1>3, <1>5, <1>6 DEF HelperInv
<1>8. reqs' \in [Datagrams -> Nat] /\ resps' \in Seq(Datagrams)
  BY DEF MakeStarts, NoDatagrams
<1> QED BY <1>7, <1>8

\* pending_max and info_queue_time after a query.
LEMMA QueryTypes ==
  ASSUME IInv, NEW f \in Fds
  PROVE  PendingMax(f) \in Nat /\ 0 \in 0..RETRY + 1
BY FdsAssumption, LimitAssumption DEF IInv, LookupInv, PendingMax

\* A socket that is no longer pending is skipped.
LEMMA QuerySkipGood ==
  ASSUME IInv, QuerySkip
  PROVE  IInv'
<1> USE DEF IInv
<1>1. SockInv' /\ Open' \subseteq Open
  BY SockFrame DEF QuerySkip, sockVars
<1>2. TimerInv' /\ CountInv' /\ LoginInv'
  BY <1>1, LookupFrame DEF QuerySkip, sockVars, loginVars
<1>3. ~sent
  BY DEF QuerySkip, SockInv, LookupInv
<1>4. todo' \in Seq(Fds) /\ ~sent'
  BY <1>3 DEF QuerySkip, LookupInv
<1>5. LookupInv'
  BY <1>4 DEF QuerySkip, LookupInv
<1>6. HelperInv'
  BY DEF QuerySkip, HelperInv, helperVars
<1> QED BY <1>1, <1>2, <1>5, <1>6

\* The helper is down.
LEMMA QueryDownGood ==
  ASSUME IInv, NEW f \in Fds, QueryDown(f)
  PROVE  IInv'
<1> USE DEF IInv
<1>1. /\ todo # <<>> /\ ~sent /\ f \in info_pending
      /\ pending_max' = PendingMax(f) /\ age' = 0
      /\ UNCHANGED <<sent, ndescriptors, descs, sq, login_number, under_limit>>
  BY DEF QueryDown, Querying, loginVars
<1>2. pending_max' \in Nat /\ age' \in 0..RETRY + 1
  BY <1>1, QueryTypes
<1>3. ASSUME MakeStarts, todo' = Ascending(info_pending) \o Tail(todo),
             UNCHANGED <<sock, gone, info_pending>>
      PROVE  IInv'
  <2>1. SockInv' /\ Open' \subseteq Open
    BY <1>1, <1>3, SockFrame
  <2>2. TimerInv' /\ CountInv' /\ LoginInv'
    BY <1>1, <2>1, LookupFrame
  <2>3. HelperInv' /\ reqs' \in [Datagrams -> Nat] /\ resps' \in Seq(Datagrams)
    BY <1>1, <1>3, MakeStartsGood
  <2>4. Ascending(info_pending) \in Seq(Fds) /\ Tail(todo) \in Seq(Fds)
    BY <1>1, AscendingType DEF SockInv, LookupInv
  <2>5. LookupInv'
    BY <1>1, <1>2, <1>3, <2>3, <2>4 DEF LookupInv
  <2> QED BY <2>1, <2>2, <2>3, <2>5
<1>4. ASSUME MakeFails, CloseQueried(f), todo' = Tail(todo)
      PROVE  IInv'
  <2>1. SockInv' /\ Open' \subseteq Open
    BY <1>1, <1>4, CloseGood DEF CloseQueried
  <2>2. TimerInv' /\ CountInv' /\ LoginInv'
    BY <1>1, <2>1, LookupFrame
  <2>3. HelperInv' /\ reqs' \in [Datagrams -> Nat] /\ resps' \in Seq(Datagrams)
    BY <1>1, <1>4, MakeFailsGood
  <2>4. LookupInv'
    BY <1>1, <1>2, <1>4, <2>3 DEF LookupInv
  <2> QED BY <2>1, <2>2, <2>3, <2>4
<1> QED BY <1>3, <1>4 DEF QueryDown

\* The connection is refused or gone.
LEMMA QueryRefusedGood ==
  ASSUME IInv, NEW f \in Fds, QueryRefused(f)
  PROVE  IInv'
<1> USE DEF IInv
<1>1. /\ todo # <<>> /\ ~sent /\ f \in info_pending
      /\ pending_max' = PendingMax(f) /\ age' = 0
      /\ UNCHANGED <<sent, ndescriptors, descs, sq, login_number, under_limit>>
      /\ todo' = Tail(todo) /\ CloseQueried(f) /\ UNCHANGED <<reqs, resps>>
  BY DEF QueryRefused, Querying, loginVars
<1>2. pending_max' \in Nat /\ age' \in 0..RETRY + 1
  BY <1>1, QueryTypes
<1>3. SockInv' /\ Open' \subseteq Open
  BY <1>1, CloseGood DEF CloseQueried
<1>4. TimerInv' /\ CountInv' /\ LoginInv'
  BY <1>1, <1>3, LookupFrame
<1>5. LookupInv'
  BY <1>1, <1>2 DEF LookupInv
<1>6. HelperInv'
  BY <1>1 DEF QueryRefused, HelperInv, helperVars
<1> QED BY <1>3, <1>4, <1>5, <1>6

\* The request is sent, which a helper that was given up does not get.
LEMMA QuerySendGood ==
  ASSUME IInv, NEW f \in Fds, QuerySend(f)
  PROVE  IInv'
<1> USE DEF IInv
<1>1. SockInv' /\ Open' \subseteq Open
  BY SockFrame DEF QuerySend, sockVars
<1>2. TimerInv' /\ CountInv' /\ LoginInv'
  BY <1>1, LookupFrame DEF QuerySend, sockVars, loginVars
<1>3. pending_max' \in Nat /\ age' \in 0..RETRY + 1
  BY QueryTypes DEF QuerySend
<1>4. reqs' \in [Datagrams -> Nat]
  <2>1. \A n \in Nat : (IF n < MaxAsked THEN n + 1 ELSE n) \in Nat
    OBVIOUS
  <2> QED BY <2>1 DEF QuerySend, LookupInv
<1>5. LookupInv'
  BY <1>3, <1>4 DEF QuerySend, LookupInv
<1>6. ~info_slave_halted
  BY DEF QuerySend, HelperInv
<1>7. HelperInv'
  BY <1>6 DEF QuerySend, HelperInv, helperVars
<1> QED BY <1>1, <1>2, <1>5, <1>7

\* The state is assigned after the request was sent.
LEMMA QuerySentGood ==
  ASSUME IInv, QuerySent
  PROVE  IInv'
<1> USE DEF IInv
<1>1. SockInv' /\ Open' \subseteq Open
  BY SockFrame DEF QuerySent, sockVars
<1>2. TimerInv' /\ CountInv' /\ LoginInv'
  BY <1>1, LookupFrame DEF QuerySent, sockVars, loginVars
<1>3. todo # <<>> /\ ~info_slave_halted
  BY DEF QuerySent, LookupInv, HelperInv
<1>4. LookupInv'
  <2>1. Tail(todo) \in Seq(Fds)
    BY <1>3 DEF LookupInv
  <2> QED BY <2>1 DEF QuerySent, LookupInv
<1>5. HelperInv'
  BY <1>3 DEF QuerySent, HelperInv
<1> QED BY <1>1, <1>2, <1>4, <1>5

\* The send fails.
LEMMA QueryFailsGood ==
  ASSUME IInv, NEW f \in Fds, QueryFails(f)
  PROVE  IInv'
<1> USE DEF IInv
<1>1. /\ todo # <<>> /\ ~sent /\ f \in info_pending
      /\ pending_max' = PendingMax(f) /\ age' = 0
      /\ UNCHANGED <<sent, ndescriptors, descs, sq, login_number, under_limit>>
      /\ UNCHANGED <<sock, gone, info_pending>>
  BY DEF QueryFails, Querying, loginVars
<1>2. pending_max' \in Nat /\ age' \in 0..RETRY + 1
  BY <1>1, QueryTypes
<1>3. SockInv' /\ Open' \subseteq Open
  BY <1>1, SockFrame
<1>4. TimerInv' /\ CountInv' /\ LoginInv'
  BY <1>1, <1>3, LookupFrame
<1>5. ASSUME MakeStarts, todo' = Ascending(info_pending) \o Tail(todo)
      PROVE  IInv'
  <2>1. HelperInv' /\ reqs' \in [Datagrams -> Nat] /\ resps' \in Seq(Datagrams)
    BY <1>1, <1>5, MakeStartsGood
  <2>2. Ascending(info_pending) \in Seq(Fds) /\ Tail(todo) \in Seq(Fds)
    BY <1>1, AscendingType DEF SockInv, LookupInv
  <2>3. LookupInv'
    BY <1>1, <1>2, <1>5, <2>1, <2>2 DEF LookupInv
  <2> QED BY <1>3, <1>4, <2>1, <2>3
<1>6. ASSUME MakeFails, todo' = Tail(todo)
      PROVE  IInv'
  <2>1. HelperInv' /\ reqs' \in [Datagrams -> Nat] /\ resps' \in Seq(Datagrams)
    BY <1>1, <1>6, MakeFailsGood
  <2>2. LookupInv'
    BY <1>1, <1>2, <1>6, <2>1 DEF LookupInv
  <2> QED BY <1>3, <1>4, <2>1, <2>2
<1> QED BY <1>5, <1>6 DEF QueryFails

-----------------------------------------------------------------------------
\* Connections are accepted and named.

\* Logins stay as they are when no player comes or goes.
LEMMA LoginFrame ==
  ASSUME IInv, UNCHANGED <<login_number, under_limit>>,
         Playing' = Playing, Guests' = Guests
  PROVE  LoginInv'
BY DEF IInv, LoginInv, LoginLimit, Guests

\* A new descriptor has one timer; its socket had none.
LEMMA InitializeGood ==
  ASSUME IInv, NEW f \in Fds, NEW addr \in Clients, descs[f] = NULL,
         initializesock(f, addr)
  PROVE  /\ TimerInv'
         /\ Described' = Described \cup {f}
         /\ Playing' = Playing /\ Guests' = Guests
<1> DEFINE d == [addr |-> addr, connected |-> "SCREEN", wizard |-> FALSE,
                 conn_flags |-> {"FIRST"}, conn_timer |-> "telnet"]
<1>1. d \in DESC
  BY DEF DESC, Funs
<1>2. d # NULL /\ d.connected # "PLAYER" /\ d.conn_timer = "telnet"
  BY <1>1, NullAssumption
<1>3. /\ descs' = [descs EXCEPT ![f] = d]
      /\ sq' = [sq EXCEPT ![<<f, "telnet">>] = @ + 1]
  BY DEF initializesock
<1> HIDE DEF d
<1>4. descs \in [Fds -> DESC \cup {NULL}] /\ sq \in [Fds \X Funs -> Nat] /\ TimersOwned
  BY DEF IInv, TimerInv
<1>5. descs' \in [Fds -> DESC \cup {NULL}]
  BY <1>1, <1>3, <1>4
<1>6. sq' \in [Fds \X Funs -> Nat]
  BY <1>3, <1>4 DEF Funs
<1>7. TimersOwned'
  <2> SUFFICES ASSUME NEW g \in Fds, NEW fun \in Funs
               PROVE  sq'[<<g, fun>>] = IF descs'[g] # NULL /\ descs'[g].conn_timer = fun
                                        THEN 1 ELSE 0
    BY DEF TimersOwned
  <2>1. sq[<<g, fun>>] = IF descs[g] # NULL /\ descs[g].conn_timer = fun THEN 1 ELSE 0
    BY <1>4 DEF TimersOwned
  <2>2. CASE g = f
    <3>1. descs'[g] = d /\ sq[<<g, fun>>] = 0
      BY <1>3, <1>4, <2>1, <2>2
    <3>2. CASE fun = "telnet"
      <4>1. sq'[<<g, fun>>] = sq[<<g, fun>>] + 1
        BY <1>3, <1>4, <2>2, <3>2
      <4> QED BY <1>2, <3>1, <3>2, <4>1
    <3>3. CASE fun # "telnet"
      <4>1. sq'[<<g, fun>>] = sq[<<g, fun>>]
        BY <1>3, <1>4, <3>3
      <4> QED BY <1>2, <3>1, <3>3, <4>1
    <3> QED BY <3>2, <3>3
  <2>3. CASE g # f
    <3>1. descs'[g] = descs[g] /\ sq'[<<g, fun>>] = sq[<<g, fun>>]
      BY <1>3, <1>4, <2>3
    <3> QED BY <2>1, <3>1
  <2> QED BY <2>2, <2>3
<1>8. Described' = Described \cup {f}
  BY <1>2, <1>3, <1>4 DEF Described
<1>9. Playing' = Playing /\ Guests' = Guests
  BY <1>2, <1>3, <1>4, <1>8 DEF Playing, Guests, Described
<1> QED BY <1>5, <1>6, <1>7, <1>8, <1>9 DEF TimerInv

\* One more socket is counted when there is room for it.
LEMMA OpenedGood ==
  ASSUME IInv, Room, NEW f \in Fds, NEW c \in Clients, sock[f] = NULL,
         sock' = [sock EXCEPT ![f] = c], ndescriptors' = ndescriptors + 1
  PROVE  /\ CountInv'
         /\ sock' \in [Fds -> Clients \cup {NULL}]
         /\ Open' = Open \cup {f} /\ f \notin Open
<1> USE DEF IInv, SockInv, CountInv
<1>1. sock' \in [Fds -> Clients \cup {NULL}]
  OBVIOUS
<1>2. Open' = Open \cup {f} /\ f \notin Open
  BY <1>1, ClientsAssumption DEF Open
<1>3. IsFiniteSet(Open) /\ Cardinality(Open) \in Nat
  BY SocketSets DEF Open
<1>4. Cardinality(Open \cup {f}) = Cardinality(Open) + 1
  BY <1>2, <1>3, FS_AddElement
<1>5. Cardinality(Open)' = Cardinality(Open) + 1
  BY <1>2, <1>4
<1>6. CountInv'
  BY <1>3, <1>5, LimitAssumption DEF NotOverfull, Room
<1> QED BY <1>1, <1>2, <1>6

\* got_new_connection asks for the name.
LEMMA AcceptGood ==
  ASSUME IInv, NEW f \in Fds, NEW c \in Clients, Accept(f, c)
  PROVE  IInv'
<1> USE DEF IInv
<1>1. /\ CountInv' /\ sock' \in [Fds -> Clients \cup {NULL}]
      /\ Open' = Open \cup {f} /\ f \notin Open
  BY OpenedGood DEF Accept
<1>2. Described' = Described /\ Playing' = Playing /\ Guests' = Guests
  BY DEF Accept, Described, Playing, Guests
<1>3. SockInv'
  BY <1>1, <1>2 DEF Accept, SockInv, SocketOwned
<1>4. TimerInv'
  BY DEF Accept, TimerInv, TimersOwned
<1>5. LoginInv'
  BY <1>2, LoginFrame DEF Accept, loginVars
<1>6. ~info_slave_halted /\ ~sent
  BY DEF Accept, Idle, LookupInv
<1>7. HelperInv'
  BY <1>6 DEF Accept, HelperInv, helperVars
<1>8. LookupInv'
  BY <1>6 DEF Accept, LookupInv
<1> QED BY <1>1, <1>3, <1>4, <1>5, <1>7, <1>8

\* Without a helper the descriptor is made at once.
LEMMA AcceptDirectGood ==
  ASSUME IInv, NEW f \in Fds, NEW c \in Clients, AcceptDirect(f, c)
  PROVE  IInv'
<1> USE DEF IInv
<1>1. /\ CountInv' /\ sock' \in [Fds -> Clients \cup {NULL}]
      /\ Open' = Open \cup {f} /\ f \notin Open
  BY OpenedGood DEF AcceptDirect
<1>2. descs[f] = NULL
  BY <1>1 DEF SockInv, SocketOwned, Described
<1>3. TimerInv' /\ Described' = Described \cup {f} /\ Playing' = Playing
      /\ Guests' = Guests
  BY <1>2, InitializeGood DEF AcceptDirect
<1>4. SockInv'
  BY <1>1, <1>3 DEF AcceptDirect, lookupVars, SockInv, SocketOwned
<1>5. LoginInv'
  BY <1>3, LoginFrame DEF AcceptDirect, loginVars
<1>6. HelperInv' /\ LookupInv'
  BY DEF AcceptDirect, HelperInv, LookupInv, helperVars, lookupVars
<1> QED BY <1>1, <1>3, <1>4, <1>5, <1>6

\* An answer closes a pending socket or makes its descriptor.
LEMMA ReapGood ==
  ASSUME IInv, Reap
  PROVE  IInv'
<1> USE DEF IInv
<1> DEFINE f == Head(resps)[1]
           addr == Head(resps)[2]
           left == {n \in info_pending \ {f} : n < pending_max}
<1>1. /\ todo = <<>> /\ info_slave_state = PENDING
      /\ resps # <<>> /\ f \in info_pending
      /\ resps' = Tail(resps) /\ info_pending' = info_pending \ {f}
      /\ info_slave_state' = IF left = {} THEN READY ELSE PENDING
      /\ pending_max' = IF left = {} THEN 0 ELSE pending_max
      /\ UNCHANGED <<ndescriptors, info_slave_pid, helper, deaths, startup_attempts,
                     window, info_slave_halted, age, reqs, todo, sent,
                     login_number, under_limit>>
  BY DEF Reap, Idle, loginVars
<1>2. Head(resps) \in Datagrams /\ Tail(resps) \in Seq(Datagrams)
  BY <1>1 DEF LookupInv
<1>3. f \in Fds /\ addr \in Clients
  BY <1>2 DEF Datagrams
<1>4. ~info_slave_halted /\ ~sent
  BY <1>1 DEF HelperInv, LookupInv, DOWN, PENDING
<1>5. info_slave_state' \in {DOWN, READY, PENDING} /\ pending_max' \in Nat
  BY <1>1 DEF LookupInv
<1>6. HelperInv'
  BY <1>1, <1>4, <1>5 DEF HelperInv
<1>7. LookupInv'
  <2>1. resps' \in Seq(Datagrams) /\ ~sent'
    BY <1>1, <1>2, <1>4
  <2> HIDE DEF f, left
  <2> QED BY <1>1, <1>5, <2>1 DEF LookupInv
<1>8. ASSUME sock' = [sock EXCEPT ![f] = NULL], gone' = gone \ {f},
             UNCHANGED <<descs, sq>>
      PROVE  IInv'
  <2>1. SockInv' /\ Open' \subseteq Open
    BY <1>1, <1>8, CloseGood
  <2>2. TimerInv' /\ CountInv' /\ LoginInv'
    BY <1>1, <1>8, <2>1, LookupFrame
  <2> QED BY <1>6, <1>7, <2>1, <2>2
<1>9. ASSUME initializesock(f, addr), UNCHANGED <<sock, gone>>
      PROVE  IInv'
  <2>1. descs[f] = NULL
    BY <1>1, <1>3 DEF SockInv, SocketOwned, Described
  <2>2. TimerInv' /\ Described' = Described \cup {f} /\ Playing' = Playing
        /\ Guests' = Guests
    BY <1>3, <1>9, <2>1, InitializeGood
  <2>3. Open' = Open
    BY <1>9 DEF Open
  <2>4. SockInv'
    BY <1>1, <1>9, <2>2, <2>3 DEF SockInv, SocketOwned
  <2>5. CountInv'
    BY <1>1, <2>3 DEF CountInv, NotOverfull
  <2>6. LoginInv'
    BY <1>1, <2>2, LoginFrame
  <2> QED BY <1>6, <1>7, <2>2, <2>4, <2>5, <2>6
<1> HIDE DEF f, addr
<1>10. \/ sock' = [sock EXCEPT ![f] = NULL] /\ gone' = gone \ {f} /\ UNCHANGED <<descs, sq>>
       \/ initializesock(f, addr) /\ UNCHANGED <<sock, gone>>
  BY DEF Reap, f, addr
<1> QED BY <1>8, <1>9, <1>10

\* The rest of the lookups: repeating them, answers nobody waits for, and what
\* happens to the helper.
LEMMA LookupStepGood ==
  ASSUME IInv,
         \/ Requery \/ ReapStale \/ SlaveRestart \/ HelperExits \/ Reaper \/ Tick
         \/ \E m \in Datagrams : Answer(m)
         \/ \E f \in Fds : PeerGone(f)
  PROVE  IInv'
<1> USE LimitAssumption DEF IInv
<1>1. UNCHANGED <<sock, info_pending, descs, sq, ndescriptors, login_number, under_limit>>
  BY DEF Requery, ReapStale, SlaveRestart, HelperExits, Reaper, Tick, Answer, PeerGone,
         sockVars, lookupVars, loginVars
<1>2. Open' = Open /\ Described' = Described
  BY <1>1 DEF Open, Described
<1>3. TimerInv' /\ CountInv' /\ LoginInv'
  BY <1>1, <1>2, LookupFrame
<1>4. gone' \subseteq Open
  BY DEF Requery, ReapStale, SlaveRestart, HelperExits, Reaper, Tick, Answer, PeerGone,
         sockVars, SockInv, Open
<1>5. SockInv'
  BY <1>1, <1>2, <1>4 DEF SockInv, SocketOwned
<1>6. CASE Requery
  <2>1. todo = <<>> /\ info_slave_state = PENDING
    BY <1>6 DEF Requery, Idle
  <2>2. ~info_slave_halted /\ ~sent
    BY <2>1 DEF HelperInv, LookupInv, DOWN, PENDING
  <2>3. todo' \in Seq(Fds)
    BY <1>6, AscendingType DEF Requery, PendingBelow, SockInv
  <2>4. LookupInv'
    BY <1>6, <2>2, <2>3 DEF Requery, LookupInv
  <2>5. HelperInv'
    BY <1>6, <2>2 DEF Requery, HelperInv, helperVars
  <2> QED BY <1>3, <1>5, <2>4, <2>5
<1>7. CASE ReapStale
  <2>1. HelperInv' /\ LookupInv'
    BY <1>7 DEF ReapStale, HelperInv, LookupInv, helperVars
  <2> QED BY <1>3, <1>5, <2>1
<1>8. CASE SlaveRestart
  <2>1. ~sent /\ todo = <<>>
    BY <1>8 DEF SlaveRestart, Idle, LookupInv
  <2>2. LookupInv'
    BY <1>8, <2>1 DEF SlaveRestart, kill_info_slave, LookupInv, NoDatagrams
  <2>3. HelperInv'
    BY <1>8, <2>1 DEF SlaveRestart, kill_info_slave, HelperInv
  <2> QED BY <1>3, <1>5, <2>2, <2>3
<1>9. CASE HelperExits
  <2>1. LookupInv'
    BY <1>9 DEF HelperExits, LookupInv, NoDatagrams
  <2>2. deaths' \in 0..MaxDeaths
    BY <1>9 DEF HelperExits, HelperInv
  <2>3. HelperInv'
    BY <1>9, <2>2 DEF HelperExits, HelperInv
  <2> QED BY <1>3, <1>5, <2>1, <2>3
<1>10. CASE Reaper
  <2>1. HelperInv' /\ LookupInv'
    BY <1>10 DEF Reaper, HelperInv, LookupInv, lookupVars
  <2> QED BY <1>3, <1>5, <2>1
<1>11. CASE Tick
  <2>1. todo = <<>> /\ ~sent
    BY <1>11 DEF Tick, Idle, LookupInv
  <2>2. age' \in 0..RETRY + 1 /\ window' \in 0..WINDOW + 1
    BY <1>11 DEF Tick, LookupInv, HelperInv
  <2>3. LookupInv'
    BY <1>11, <2>1, <2>2 DEF Tick, LookupInv
  <2>4. HelperInv'
    BY <1>11, <2>1, <2>2 DEF Tick, HelperInv
  <2> QED BY <1>3, <1>5, <2>3, <2>4
<1>12. ASSUME NEW m \in Datagrams, Answer(m) PROVE IInv'
  <2>1. reqs' \in [Datagrams -> Nat]
    BY <1>12 DEF Answer, LookupInv
  <2>2. resps' \in Seq(Datagrams)
    BY <1>12 DEF Answer, LookupInv
  <2>3. HelperInv' /\ LookupInv'
    BY <1>12, <2>1, <2>2 DEF Answer, HelperInv, LookupInv, helperVars
  <2> QED BY <1>3, <1>5, <2>3
<1>13. ASSUME NEW f \in Fds, PeerGone(f) PROVE IInv'
  <2>1. HelperInv' /\ LookupInv'
    BY <1>13 DEF PeerGone, HelperInv, LookupInv, helperVars, lookupVars
  <2> QED BY <1>3, <1>5, <2>1
<1> QED BY <1>6, <1>7, <1>8, <1>9, <1>10, <1>11, <1>12, <1>13

-----------------------------------------------------------------------------
\* Descriptors.

\* A step on one descriptor that leaves exactly its timer in the system queue
\* keeps everything but the logins, which depend on who it is.
LEMMA BecomesGood ==
  ASSUME IInv, NEW f \in Fds, descs[f] # NULL, NEW d \in DESC,
         NEW q \in [Fds \X Funs -> Nat],
         \A g \in Fds, fun \in Funs :
            q[<<g, fun>>] = IF g # f THEN sq[<<g, fun>>]
                            ELSE IF d.conn_timer = fun THEN 1 ELSE 0,
         Becomes(f, d, q)
  PROVE  /\ SockInv' /\ TimerInv' /\ CountInv' /\ HelperInv' /\ LookupInv'
         /\ Described' = Described
         /\ descs' = [descs EXCEPT ![f] = d]
<1> USE DEF IInv
<1>1. descs' = [descs EXCEPT ![f] = d] /\ sq' = q
      /\ UNCHANGED <<sockVars, helperVars, lookupVars>>
  BY DEF Becomes
<1>2. descs \in [Fds -> DESC \cup {NULL}] /\ TimersOwned
  BY DEF TimerInv
<1>3. descs' \in [Fds -> DESC \cup {NULL}]
  BY <1>1, <1>2
<1>4. d # NULL
  BY NullAssumption
<1>5. Described' = Described
  BY <1>1, <1>2, <1>4 DEF Described
<1>6. TimersOwned'
  <2> SUFFICES ASSUME NEW g \in Fds, NEW fun \in Funs
               PROVE  sq'[<<g, fun>>] = IF descs'[g] # NULL /\ descs'[g].conn_timer = fun
                                        THEN 1 ELSE 0
    BY DEF TimersOwned
  <2>1. CASE g = f
    <3>1. descs'[g] = d
      BY <1>1, <1>2, <2>1
    <3> QED BY <1>1, <1>4, <2>1, <3>1
  <2>2. CASE g # f
    <3>1. descs'[g] = descs[g] /\ sq'[<<g, fun>>] = sq[<<g, fun>>]
      BY <1>1, <1>2, <2>2
    <3> QED BY <1>2, <3>1 DEF TimersOwned
  <2> QED BY <2>1, <2>2
<1>7. TimerInv'
  BY <1>1, <1>3, <1>6 DEF TimerInv
<1>8. Open' = Open
  BY <1>1 DEF Open, sockVars
<1>9. SockInv'
  BY <1>1, <1>5, <1>8 DEF SockInv, SocketOwned, sockVars, lookupVars
<1>10. CountInv'
  BY <1>1, <1>8 DEF CountInv, NotOverfull, sockVars
<1>11. HelperInv' /\ LookupInv'
  BY <1>1 DEF HelperInv, LookupInv, helperVars, lookupVars
<1> QED BY <1>1, <1>5, <1>7, <1>9, <1>10, <1>11

\* The same person stays at the descriptor.
LEMMA SamePlayerGood ==
  ASSUME IInv, NEW f \in Fds, descs[f] # NULL, NEW d,
         Described' = Described, descs' = [descs EXCEPT ![f] = d],
         d.connected = descs[f].connected, d.wizard = descs[f].wizard,
         UNCHANGED <<login_number, under_limit>>
  PROVE  LoginInv'
<1>1. descs \in [Fds -> DESC \cup {NULL}]
  BY DEF IInv, TimerInv
<1>2. Playing' = Playing /\ Guests' = Guests
  BY <1>1 DEF Playing, Guests, Described
<1> QED BY <1>2, LoginFrame

\* sq_cancel takes the timers of the descriptors of S out of the queue, all of
\* them and no other.
LEMMA CancelFacts ==
  ASSUME IInv, NEW S \in SUBSET Described
  PROVE  /\ sq_cancel(S) \in [Fds \X Funs -> Nat]
         /\ \A g \in Fds, fun \in Funs :
              sq_cancel(S)[<<g, fun>>] = IF g \in S THEN 0 ELSE sq[<<g, fun>>]
<1>1. sq \in [Fds \X Funs -> Nat] /\ TimersOwned
  BY DEF IInv, TimerInv
<1>2. ASSUME NEW g \in Fds, NEW fun \in Funs
      PROVE  sq_cancel(S)[<<g, fun>>] = IF g \in S THEN 0 ELSE sq[<<g, fun>>]
  <2>1. sq[<<g, fun>>] = IF descs[g] # NULL /\ descs[g].conn_timer = fun THEN 1 ELSE 0
    BY <1>1 DEF TimersOwned
  <2>2. sq_cancel(S)[<<g, fun>>] = IF /\ g \in S /\ descs[g].conn_timer = fun
                                      /\ sq[<<g, fun>>] > 0
                                   THEN sq[<<g, fun>>] - 1 ELSE sq[<<g, fun>>]
    BY <1>1 DEF sq_cancel
  <2>3. g \in S => descs[g] # NULL
    BY DEF Described
  <2> QED BY <2>1, <2>2, <2>3
<1>3. sq_cancel(S) \in [Fds \X Funs -> Nat]
  <2>1. sq_cancel(S) = [t \in Fds \X Funs |-> sq_cancel(S)[t]]
    BY <1>1 DEF sq_cancel
  <2>2. ASSUME NEW t \in Fds \X Funs PROVE sq_cancel(S)[t] \in Nat
    <3>1. PICK g \in Fds, fun \in Funs : t = <<g, fun>>
      OBVIOUS
    <3>2. sq[<<g, fun>>] \in Nat
      BY <1>1
    <3> QED BY <1>2, <3>1, <3>2
  <2> QED BY <2>1, <2>2
<1> QED BY <1>2, <1>3

\* What BecomesGood establishes.
Stepped(f, d) ==
  /\ SockInv' /\ TimerInv' /\ CountInv' /\ HelperInv' /\ LookupInv'
  /\ Described' = Described
  /\ descs' = [descs EXCEPT ![f] = d]

\* The timer is cancelled and forgotten.
LEMMA CancelStep ==
  ASSUME IInv, NEW f \in Fds, descs[f] # NULL, NEW d \in DESC, d.conn_timer = NULL,
         Becomes(f, d, sq_cancel({f}))
  PROVE  Stepped(f, d)
<1>1. {f} \in SUBSET Described
  BY DEF Described
<1>2. /\ sq_cancel({f}) \in [Fds \X Funs -> Nat]
      /\ \A g \in Fds, fun \in Funs :
           sq_cancel({f})[<<g, fun>>] = IF g \in {f} THEN 0 ELSE sq[<<g, fun>>]
  BY <1>1, CancelFacts
<1>3. \A fun \in Funs : d.conn_timer # fun
  BY NullAssumption
<1>4. \A g \in Fds, fun \in Funs :
        sq_cancel({f})[<<g, fun>>] = IF g # f THEN sq[<<g, fun>>]
                                     ELSE IF d.conn_timer = fun THEN 1 ELSE 0
  BY <1>2, <1>3
<1> QED BY <1>2, <1>4, BecomesGood DEF Stepped

\* The timer is replaced by one for HTTP.
LEMMA ReplaceStep ==
  ASSUME IInv, NEW f \in Fds, descs[f] # NULL, NEW d \in DESC, d.conn_timer = "http",
         Becomes(f, d, sq_register(sq_cancel({f}), f, "http"))
  PROVE  Stepped(f, d)
<1>1. {f} \in SUBSET Described
  BY DEF Described
<1>2. /\ sq_cancel({f}) \in [Fds \X Funs -> Nat]
      /\ \A g \in Fds, fun \in Funs :
           sq_cancel({f})[<<g, fun>>] = IF g \in {f} THEN 0 ELSE sq[<<g, fun>>]
  BY <1>1, CancelFacts
<1> DEFINE c == sq_cancel({f})
           q == sq_register(c, f, "http")
<1> HIDE DEF c
<1>3. q = [c EXCEPT ![<<f, "http">>] = @ + 1]
  BY DEF sq_register
<1> HIDE DEF q
<1>4. "http" \in Funs /\ c \in [Fds \X Funs -> Nat]
  BY <1>2 DEF Funs, c
<1>5. q \in [Fds \X Funs -> Nat]
  BY <1>3, <1>4
<1>6. ASSUME NEW g \in Fds, NEW fun \in Funs
      PROVE  q[<<g, fun>>] = IF g # f THEN sq[<<g, fun>>]
                             ELSE IF d.conn_timer = fun THEN 1 ELSE 0
  <2>1. c[<<g, fun>>] = IF g = f THEN 0 ELSE sq[<<g, fun>>]
    BY <1>2 DEF c
  <2>2. q[<<g, fun>>] = IF g = f /\ fun = "http" THEN c[<<g, fun>>] + 1 ELSE c[<<g, fun>>]
    BY <1>3, <1>4
  <2> QED BY <2>1, <2>2
<1>7. Becomes(f, d, q)
  BY DEF q, c
<1> QED BY <1>5, <1>6, <1>7, BecomesGood DEF Stepped

\* The timer stays.
LEMMA KeepStep ==
  ASSUME IInv, NEW f \in Fds, descs[f] # NULL, NEW d \in DESC,
         d.conn_timer = descs[f].conn_timer, Becomes(f, d, sq)
  PROVE  Stepped(f, d)
<1>1. sq \in [Fds \X Funs -> Nat] /\ TimersOwned
  BY DEF IInv, TimerInv
<1>2. \A g \in Fds, fun \in Funs :
        sq[<<g, fun>>] = IF g # f THEN sq[<<g, fun>>]
                         ELSE IF d.conn_timer = fun THEN 1 ELSE 0
  <2>1. ASSUME NEW fun \in Funs
        PROVE  sq[<<f, fun>>] = IF descs[f].conn_timer = fun THEN 1 ELSE 0
    BY <1>1 DEF TimersOwned
  <2> QED BY <2>1
<1> QED BY <1>1, <1>2, BecomesGood DEF Stepped

\* The descriptor of a socket, and what Untimed makes of it.
LEMMA DescFacts ==
  ASSUME IInv, NEW f \in Fds, descs[f] # NULL,
         NEW add, add \subseteq {"HTTP", "HTTP_READY", "HTTP_CLOSE", "SHUTDOWN"}
  PROVE  /\ descs[f] \in DESC
         /\ Untimed(f, add) \in DESC
         /\ Untimed(f, add).conn_timer = NULL
         /\ Untimed(f, add).connected = descs[f].connected
         /\ Untimed(f, add).wizard = descs[f].wizard
<1>1. descs[f] \in DESC
  BY DEF IInv, TimerInv
<1> QED BY <1>1 DEF Untimed, DESC

\* A step on a descriptor that neither logs in nor out.
LEMMA SteppedGood ==
  ASSUME IInv, NEW f \in Fds, descs[f] # NULL, NEW d \in DESC, Stepped(f, d),
         d.connected = descs[f].connected, d.wizard = descs[f].wizard,
         UNCHANGED loginVars
  PROVE  IInv'
<1>1. LoginInv'
  BY SamePlayerGood DEF Stepped, loginVars
<1> QED BY <1>1 DEF Stepped, IInv

\* A timer runs on the descriptor that registered it; the first registers the
\* second.
LEMMA RunTimerGood ==
  ASSUME IInv, NEW f \in Fds, NEW fun \in Funs, RunTimer(f, fun)
  PROVE  IInv'
<1> DEFINE q == [sq EXCEPT ![<<f, fun>>] = @ - 1]
<1>1. sq[<<f, fun>>] > 0 /\ descs[f] # NULL /\ UNCHANGED loginVars
  BY DEF RunTimer
<1>2. sq \in [Fds \X Funs -> Nat] /\ TimersOwned
  BY DEF IInv, TimerInv
<1>3. descs[f].conn_timer = fun /\ sq[<<f, fun>>] = 1
  BY <1>1, <1>2 DEF TimersOwned
<1>4. descs[f] \in DESC
  BY <1>1, DescFacts
<1>5. q \in [Fds \X Funs -> Nat]
  BY <1>2, <1>3
<1>6. ASSUME NEW g \in Fds, NEW h \in Funs
      PROVE  q[<<g, h>>] = IF g = f THEN 0 ELSE sq[<<g, h>>]
  <2>1. CASE g = f /\ h = fun
    BY <1>2, <1>3, <2>1
  <2>2. CASE g = f /\ h # fun
    <3>1. sq[<<g, h>>] = 0
      BY <1>2, <1>3, <2>2 DEF TimersOwned
    <3> QED BY <1>2, <2>2, <3>1
  <2>3. CASE g # f
    BY <1>2, <2>3
  <2> QED BY <2>1, <2>2, <2>3
<1> HIDE DEF q
<1>7. ASSUME NEW d \in DESC, d.conn_timer = NULL, Becomes(f, d, q),
             d.connected = descs[f].connected, d.wizard = descs[f].wizard
      PROVE  IInv'
  <2>1. \A g \in Fds, h \in Funs :
          q[<<g, h>>] = IF g # f THEN sq[<<g, h>>]
                        ELSE IF d.conn_timer = h THEN 1 ELSE 0
    BY <1>6, <1>7, NullAssumption
  <2>2. Stepped(f, d)
    BY <1>1, <1>5, <1>7, <2>1, BecomesGood DEF Stepped
  <2> QED BY <1>1, <1>7, <2>2, SteppedGood
<1>8. ASSUME Becomes(f, [descs[f] EXCEPT !.conn_timer = "welcome"],
                     sq_register(q, f, "welcome"))
      PROVE  IInv'
  <2> DEFINE d == [descs[f] EXCEPT !.conn_timer = "welcome"]
             r == sq_register(q, f, "welcome")
  <2>1. d \in DESC /\ d.conn_timer = "welcome" /\ d.connected = descs[f].connected
        /\ d.wizard = descs[f].wizard
    BY <1>4 DEF DESC, Funs
  <2>2. "welcome" \in Funs /\ r = [q EXCEPT ![<<f, "welcome">>] = @ + 1]
    BY DEF Funs, sq_register
  <2>3. Becomes(f, d, r)
    BY <1>8
  <2> HIDE DEF d, r
  <2>4. r \in [Fds \X Funs -> Nat]
    BY <1>5, <2>2
  <2>5. ASSUME NEW g \in Fds, NEW h \in Funs
        PROVE  r[<<g, h>>] = IF g # f THEN sq[<<g, h>>]
                             ELSE IF d.conn_timer = h THEN 1 ELSE 0
    <3>1. r[<<g, h>>] = IF g = f /\ h = "welcome" THEN q[<<g, h>>] + 1 ELSE q[<<g, h>>]
      BY <1>5, <2>2
    <3> QED BY <1>6, <2>1, <3>1
  <2>6. Stepped(f, d)
    BY <1>1, <2>1, <2>3, <2>4, <2>5, BecomesGood DEF Stepped
  <2> QED BY <1>1, <2>1, <2>6, SteppedGood
<1>9. ASSUME Becomes(f, [descs[f] EXCEPT !.conn_timer = NULL], q)
      PROVE  IInv'
  <2> DEFINE d == [descs[f] EXCEPT !.conn_timer = NULL]
  <2>1. d \in DESC /\ d.conn_timer = NULL
        /\ d.connected = descs[f].connected /\ d.wizard = descs[f].wizard
    BY <1>4 DEF DESC
  <2>2. Becomes(f, d, q)
    BY <1>9
  <2> HIDE DEF d
  <2> QED BY <1>7, <2>1, <2>2
<1>10. ASSUME Becomes(f, [descs[f] EXCEPT !.conn_timer = NULL,
                                          !.conn_flags = @ \cup {"HTTP_READY"}], q)
       PROVE  IInv'
  <2> DEFINE d == [descs[f] EXCEPT !.conn_timer = NULL,
                                   !.conn_flags = @ \cup {"HTTP_READY"}]
  <2>1. d \in DESC /\ d.conn_timer = NULL
        /\ d.connected = descs[f].connected /\ d.wizard = descs[f].wizard
    BY <1>4 DEF DESC
  <2>2. Becomes(f, d, q)
    BY <1>10
  <2> HIDE DEF d
  <2> QED BY <1>7, <2>1, <2>2
<1> QED BY <1>8, <1>9, <1>10 DEF RunTimer, q

\* A line ends the welcome.
LEMMA LineGood ==
  ASSUME IInv, NEW f \in Fds, Line(f)
  PROVE  IInv'
<1>1. descs[f] # NULL /\ UNCHANGED loginVars
  BY DEF Line, Typing
<1>2. ASSUME NEW add, add \subseteq {"HTTP", "HTTP_READY", "HTTP_CLOSE", "SHUTDOWN"},
             Becomes(f, Untimed(f, add), sq_cancel({f}))
      PROVE  IInv'
  <2>1. /\ Untimed(f, add) \in DESC
        /\ Untimed(f, add).conn_timer = NULL
        /\ Untimed(f, add).connected = descs[f].connected
        /\ Untimed(f, add).wizard = descs[f].wizard
    BY <1>1, <1>2, DescFacts
  <2>2. Stepped(f, Untimed(f, add))
    BY <1>1, <1>2, <2>1, CancelStep
  <2> QED BY <1>1, <2>1, <2>2, SteppedGood
<1> QED BY <1>2 DEF Line

\* A descriptor is booted, or its peer has hung up.
LEMMA BootGood ==
  ASSUME IInv, NEW f \in Fds, Boot(f) \/ HungUp(f) \/ HttpCommand(f)
  PROVE  IInv'
<1>1. descs[f] # NULL /\ UNCHANGED loginVars
  BY DEF Boot, HungUp, HttpCommand
<1>2. descs[f] \in DESC
  BY <1>1, DescFacts
<1>3. ASSUME Becomes(f, [descs[f] EXCEPT !.conn_flags = @ \cup {"SHUTDOWN"}], sq)
      PROVE  IInv'
  <2> DEFINE d == [descs[f] EXCEPT !.conn_flags = @ \cup {"SHUTDOWN"}]
  <2>1. d \in DESC /\ d.conn_timer = descs[f].conn_timer
        /\ d.connected = descs[f].connected /\ d.wizard = descs[f].wizard
    BY <1>2 DEF DESC
  <2>2. Stepped(f, d)
    BY <1>1, <1>3, <2>1, KeepStep
  <2> HIDE DEF d
  <2> QED BY <1>1, <2>1, <2>2, SteppedGood
<1>4. ASSUME NEW add, add \subseteq {"HTTP", "HTTP_READY", "HTTP_CLOSE", "SHUTDOWN"},
             Becomes(f, [descs[f] EXCEPT !.conn_timer = NULL, !.conn_flags = @ \cup add],
                     sq_cancel({f}))
      PROVE  IInv'
  <2> DEFINE d == [descs[f] EXCEPT !.conn_timer = NULL, !.conn_flags = @ \cup add]
  <2>1. d \in DESC /\ d.conn_timer = NULL
        /\ d.connected = descs[f].connected /\ d.wizard = descs[f].wizard
    BY <1>2, <1>4 DEF DESC
  <2>2. Stepped(f, d)
    BY <1>1, <1>4, <2>1, CancelStep
  <2> HIDE DEF d
  <2> QED BY <1>1, <2>1, <2>2, SteppedGood
<1> QED BY <1>3, <1>4 DEF Boot, HungUp, HttpCommand

\* A request starts, goes on, is complete or is refused.
LEMMA HttpGood ==
  ASSUME IInv, NEW f \in Fds, HttpStart(f) \/ HttpInput(f)
  PROVE  IInv'
<1>1. descs[f] # NULL /\ UNCHANGED loginVars
  BY DEF HttpStart, HttpInput
<1>2. ASSUME NEW add, add \subseteq {"HTTP", "HTTP_READY", "HTTP_CLOSE", "SHUTDOWN"}
      PROVE  /\ Untimed(f, add) \in DESC
             /\ Untimed(f, add).conn_timer = NULL
             /\ Untimed(f, add).connected = descs[f].connected
             /\ Untimed(f, add).wizard = descs[f].wizard
  BY <1>1, <1>2, DescFacts
<1>3. ASSUME NEW add, add \subseteq {"HTTP", "HTTP_READY", "HTTP_CLOSE", "SHUTDOWN"},
             Becomes(f, Untimed(f, add), sq_cancel({f}))
      PROVE  IInv'
  <2>1. Stepped(f, Untimed(f, add))
    BY <1>1, <1>2, <1>3, CancelStep
  <2> QED BY <1>1, <1>2, <1>3, <2>1, SteppedGood
<1>4. ASSUME NEW add, add \subseteq {"HTTP", "HTTP_READY", "HTTP_CLOSE", "SHUTDOWN"},
             Becomes(f, [Untimed(f, add) EXCEPT !.conn_timer = "http"],
                     sq_register(sq_cancel({f}), f, "http"))
      PROVE  IInv'
  <2> DEFINE d == [Untimed(f, add) EXCEPT !.conn_timer = "http"]
  <2>1. d \in DESC /\ d.conn_timer = "http"
        /\ d.connected = descs[f].connected /\ d.wizard = descs[f].wizard
    BY <1>2, <1>4 DEF DESC, Funs
  <2>2. Stepped(f, d)
    BY <1>1, <1>4, <2>1, ReplaceStep
  <2> HIDE DEF d
  <2> QED BY <1>1, <2>1, <2>2, SteppedGood
<1> QED BY <1>3, <1>4 DEF HttpStart, HttpInput

\* Players leave: disconnect_player counts each of them once, so the number of
\* logins does not fall below the number of those who stay.
LEMMA DisconnectedGood ==
  ASSUME IInv, NEW S, S \subseteq Playing, Disconnected(Cardinality(S)),
         Playing' = Playing \ S, Guests' \subseteq Guests
  PROVE  LoginInv'
<1> USE LimitAssumption
<1> DEFINE n == Cardinality(S)
<1>1. Playing \subseteq Fds /\ S \subseteq Fds /\ Guests \subseteq Fds
  BY DEF Playing, Guests, Described
<1>2. /\ Cardinality(Playing) \in Nat /\ n \in Nat
      /\ Cardinality(Guests) \in Nat /\ Cardinality(Guests') \in Nat
  BY <1>1, SocketSets
<1>3. Cardinality(Playing') = Cardinality(Playing) - n
  <2>1. IsFiniteSet(Playing) /\ Playing \cap S = S
    BY <1>1, SocketSets
  <2>2. Cardinality(Playing \ S) = Cardinality(Playing) - Cardinality(Playing \cap S)
    BY <2>1, FS_Difference
  <2> QED BY <2>1, <2>2
<1>4. Cardinality(Guests') <= Cardinality(Guests)
  BY <1>1, FewerSockets
<1>5. Cardinality(Playing)' = Cardinality(Playing')
  OBVIOUS
<1>6. n <= Cardinality(Playing)
  BY <1>1, FewerSockets
<1>7. /\ login_number \in Nat /\ Cardinality(Playing) <= login_number
      /\ MAX_LOGINS # 0 /\ under_limit => login_number <= MAX_LOGINS
      /\ under_limit \in BOOLEAN
      /\ MAX_LOGINS # 0 => Cardinality(Guests) <= MAX_LOGINS
  BY DEF IInv, LoginInv, LoginLimit, Guests
<1>8. /\ login_number' = login_number - n
      /\ under_limit' = \/ under_limit
                        \/ MAX_LOGINS # 0 /\ n > 0 /\ login_number - n < MAX_LOGINS
  BY DEF Disconnected
<1> HIDE DEF n
<1>9. login_number' \in Nat /\ Cardinality(Playing)' <= login_number'
  BY <1>2, <1>3, <1>5, <1>6, <1>7, <1>8
<1>10. ASSUME MAX_LOGINS # 0, under_limit' PROVE login_number' <= MAX_LOGINS
  <2>1. under_limit \/ login_number - n < MAX_LOGINS
    BY <1>8, <1>10
  <2>2. CASE under_limit
    <3>1. login_number <= MAX_LOGINS
      BY <1>7, <1>10, <2>2
    <3> QED BY <1>2, <1>7, <1>8, <3>1
  <2>3. CASE login_number - n < MAX_LOGINS
    BY <1>2, <1>7, <1>8, <2>3
  <2> QED BY <2>1, <2>2, <2>3
<1>11. under_limit' \in BOOLEAN
  BY <1>7, <1>8
<1>12. MAX_LOGINS # 0 => Cardinality(Guests)' <= MAX_LOGINS
  BY <1>2, <1>4, <1>7
<1>13. LoginLimit'
  BY <1>12 DEF LoginLimit, Guests
<1> QED BY <1>9, <1>10, <1>11, <1>13 DEF LoginInv

\* LOGOUT.
LEMMA LogoutGood ==
  ASSUME IInv, NEW f \in Fds, Logout(f)
  PROVE  IInv'
<1> DEFINE d == [Untimed(f, {}) EXCEPT !.connected = "SCREEN", !.wizard = FALSE]
           S == IF descs[f].connected = "PLAYER" THEN {f} ELSE {}
<1>1. /\ descs[f] # NULL
      /\ Becomes(f, d, sq_cancel({f}))
      /\ Disconnected(IF descs[f].connected = "PLAYER" THEN 1 ELSE 0)
  BY DEF Logout, Typing
<1>2. d \in DESC /\ d.conn_timer = NULL /\ d.connected = "SCREEN"
  <2>1. Untimed(f, {}) \in DESC /\ Untimed(f, {}).conn_timer = NULL
    BY <1>1, DescFacts
  <2> QED BY <2>1 DEF DESC
<1> HIDE DEF d
<1>3. Stepped(f, d)
  BY <1>1, <1>2, CancelStep
<1>4. descs \in [Fds -> DESC \cup {NULL}]
  BY DEF IInv, TimerInv
<1>5. S \subseteq Playing
  BY <1>1 DEF Playing, Described
<1>6. Cardinality(S) = IF descs[f].connected = "PLAYER" THEN 1 ELSE 0
  BY FS_EmptySet, FS_Singleton
<1>7. Playing' = Playing \ S /\ Guests' \subseteq Guests
  BY <1>2, <1>3, <1>4 DEF Stepped, Playing, Guests, Described
<1>8. Disconnected(Cardinality(S))
  BY <1>1, <1>6
<1> HIDE DEF S
<1>9. LoginInv'
  BY <1>5, <1>7, <1>8, DisconnectedGood
<1> QED BY <1>3, <1>9 DEF Stepped, IInv

\* A player logs in, or is refused; the refused are counted, too.
LEMMA ConnectGood ==
  ASSUME IInv, NEW f \in Fds, NEW wizard \in BOOLEAN, Connect(f, wizard)
  PROVE  IInv'
<1> USE LimitAssumption
<1> DEFINE in == StillUnder \/ wizard
           d == [Untimed(f, IF in THEN {} ELSE {"SHUTDOWN"}) EXCEPT
                   !.connected = IF in THEN "PLAYER" ELSE "DENIED", !.wizard = wizard]
<1>1. /\ descs[f] # NULL /\ descs[f].connected = "SCREEN"
      /\ login_number' = login_number + 1
      /\ under_limit' = StillUnder
      /\ Becomes(f, d, sq_cancel({f}))
  BY DEF Connect, Typing
<1>2. /\ d \in DESC /\ d.conn_timer = NULL /\ d.wizard = wizard
      /\ d.connected = IF in THEN "PLAYER" ELSE "DENIED"
  <2> DEFINE add == IF in THEN {} ELSE {"SHUTDOWN"}
  <2>1. add \subseteq {"HTTP", "HTTP_READY", "HTTP_CLOSE", "SHUTDOWN"}
    OBVIOUS
  <2>2. Untimed(f, add) \in DESC /\ Untimed(f, add).conn_timer = NULL
    BY <1>1, <2>1, DescFacts
  <2> HIDE DEF in
  <2> QED BY <2>2 DEF DESC
<1> HIDE DEF d
<1>3. Stepped(f, d)
  BY <1>1, <1>2, CancelStep
<1>4. descs \in [Fds -> DESC \cup {NULL}]
  BY DEF IInv, TimerInv
<1>5. f \notin Playing /\ f \notin Guests
  BY <1>1 DEF Playing, Guests
<1>6. Playing' = IF in THEN Playing \cup {f} ELSE Playing
  <2> HIDE DEF in
  <2> QED BY <1>1, <1>2, <1>3, <1>4 DEF Stepped, Playing, Described
<1>7. Guests' = IF in /\ ~wizard THEN Guests \cup {f} ELSE Guests
  <2> HIDE DEF in
  <2> QED BY <1>1, <1>2, <1>3, <1>4 DEF Stepped, Guests, Described
<1>8. Playing \subseteq Fds /\ Guests \subseteq Playing /\ Guests \subseteq Fds
  BY DEF Playing, Guests, Described
<1>9. IsFiniteSet(Playing) /\ Cardinality(Playing) \in Nat
      /\ IsFiniteSet(Guests) /\ Cardinality(Guests) \in Nat
      /\ Cardinality(Guests) <= Cardinality(Playing)
  BY <1>8, SocketSets, FewerSockets
<1>10. Cardinality(Playing \cup {f}) = Cardinality(Playing) + 1
       /\ Cardinality(Guests \cup {f}) = Cardinality(Guests) + 1
  BY <1>5, <1>9, FS_AddElement
<1>11. /\ login_number \in Nat /\ Cardinality(Playing) <= login_number
       /\ under_limit \in BOOLEAN
       /\ MAX_LOGINS # 0 => Cardinality(Guests) <= MAX_LOGINS
  BY DEF IInv, LoginInv, LoginLimit, Guests
<1>12. login_number' \in Nat /\ Cardinality(Playing)' <= login_number'
  <2>1. Cardinality(Playing)' = Cardinality(Playing')
    OBVIOUS
  <2>2. Cardinality(Playing') <= Cardinality(Playing) + 1 /\ Cardinality(Playing') \in Nat
    BY <1>6, <1>9, <1>10
  <2> QED BY <1>1, <1>9, <1>11, <2>1, <2>2
<1>13. under_limit' \in BOOLEAN
       /\ (MAX_LOGINS # 0 /\ under_limit' => login_number' <= MAX_LOGINS)
  BY <1>1, <1>11 DEF StillUnder
<1>14. MAX_LOGINS # 0 => Cardinality(Guests)' <= MAX_LOGINS
  <2>1. CASE in /\ ~wizard
    <3>1. MAX_LOGINS # 0 => login_number + 1 <= MAX_LOGINS
      BY <2>1 DEF StillUnder
    <3>2. Cardinality(Guests)' = Cardinality(Guests) + 1
      BY <1>7, <1>10, <2>1
    <3> QED BY <1>9, <1>11, <3>1, <3>2
  <2>2. CASE ~(in /\ ~wizard)
    BY <1>7, <1>11, <2>2
  <2> QED BY <2>1, <2>2
<1>15. LoginInv'
  BY <1>12, <1>13, <1>14 DEF LoginInv, LoginLimit, Guests
<1> QED BY <1>3, <1>15 DEF Stepped, IInv

\* Closing descriptors takes their sockets, timers, logins and the count of
\* descriptors along.
LEMMA CleanGood ==
  ASSUME IInv, CleanDescriptors
  PROVE  IInv'
<1> USE LimitAssumption
<1> DEFINE S == {f \in Closable : descs[f].connected = "PLAYER"}
<1>1. /\ Disconnected(Cardinality(S))
      /\ sq' = sq_cancel(Closable)
      /\ descs' = [f \in Fds |-> IF f \in Closable THEN NULL ELSE descs[f]]
      /\ sock' = [f \in Fds |-> IF f \in Closable THEN NULL ELSE sock[f]]
      /\ gone' = gone \ Closable
      /\ ndescriptors' = ndescriptors - Cardinality(Closable)
      /\ UNCHANGED <<helperVars, lookupVars>>
  BY DEF CleanDescriptors
<1>2. /\ sock \in [Fds -> Clients \cup {NULL}] /\ gone \subseteq Open
      /\ info_pending \subseteq Fds /\ SocketOwned
      /\ descs \in [Fds -> DESC \cup {NULL}] /\ TimersOwned
  BY DEF IInv, SockInv, TimerInv
<1>3. Closable \subseteq Described /\ Described \subseteq Fds /\ Described \subseteq Open
      /\ Open \subseteq Fds /\ Closable \cap info_pending = {}
  BY <1>2 DEF Closable, Described, SocketOwned, Open
<1>4. HelperInv' /\ LookupInv'
  BY <1>1 DEF IInv, HelperInv, LookupInv, helperVars, lookupVars
<1>5. Described' = Described \ Closable
  BY <1>1, <1>3 DEF Described
<1>6. Open' = Open \ Closable
  BY <1>1, <1>3 DEF Open
<1>7. SockInv'
  <2>1. sock' \in [Fds -> Clients \cup {NULL}]
    BY <1>1, <1>2
  <2>2. gone' \subseteq Open'
    BY <1>1, <1>2, <1>6
  <2>3. info_pending' = info_pending
    BY <1>1 DEF lookupVars
  <2>4. SocketOwned'
    BY <1>2, <1>3, <1>5, <1>6, <2>3 DEF SocketOwned
  <2> QED BY <1>2, <2>1, <2>2, <2>3, <2>4 DEF SockInv
<1>8. TimerInv'
  <2>1. /\ sq' \in [Fds \X Funs -> Nat]
        /\ \A g \in Fds, fun \in Funs :
             sq'[<<g, fun>>] = IF g \in Closable THEN 0 ELSE sq[<<g, fun>>]
    <3>1. /\ sq_cancel(Closable) \in [Fds \X Funs -> Nat]
          /\ \A g \in Fds, fun \in Funs :
               sq_cancel(Closable)[<<g, fun>>] =
                 IF g \in Closable THEN 0 ELSE sq[<<g, fun>>]
      <4>1. Closable \in SUBSET Described
        BY <1>3
      <4> HIDE DEF S
      <4> QED BY <4>1, CancelFacts, Zenon
    <3> QED BY <1>1, <3>1
  <2>2. descs' \in [Fds -> DESC \cup {NULL}]
    BY <1>1, <1>2
  <2>3. ASSUME NEW g \in Fds, NEW fun \in Funs
        PROVE  sq'[<<g, fun>>] = IF descs'[g] # NULL /\ descs'[g].conn_timer = fun
                                 THEN 1 ELSE 0
    <3>1. CASE g \in Closable
      BY <1>1, <2>1, <3>1
    <3>2. CASE g \notin Closable
      <4>1. descs'[g] = descs[g] /\ sq'[<<g, fun>>] = sq[<<g, fun>>]
        BY <1>1, <2>1, <3>2
      <4> QED BY <1>2, <4>1 DEF TimersOwned
    <3> QED BY <3>1, <3>2
  <2> QED BY <2>1, <2>2, <2>3 DEF TimerInv, TimersOwned
<1>9. CountInv'
  <2>1. Closable \subseteq Fds /\ Closable \subseteq Open /\ Open \cap Closable = Closable
    BY <1>3
  <2>2. /\ Cardinality(Closable) \in Nat /\ Cardinality(Open) \in Nat
        /\ Cardinality(Closable) <= Cardinality(Open) /\ IsFiniteSet(Open)
    BY <1>3, <2>1, SocketSets, FewerSockets
  <2>3. Cardinality(Open \ Closable) = Cardinality(Open) - Cardinality(Open \cap Closable)
    BY <2>2, FS_Difference
  <2>4. Cardinality(Open)' = Cardinality(Open) - Cardinality(Closable)
    BY <1>6, <2>1, <2>3
  <2>5. ndescriptors \in Nat /\ Cardinality(Open) <= ndescriptors
        /\ ndescriptors <= avail_descriptors
    BY DEF IInv, CountInv, NotOverfull
  <2> QED BY <1>1, <2>2, <2>4, <2>5 DEF CountInv, NotOverfull
<1>10. LoginInv'
  <2>1. S \subseteq Playing
    BY <1>3 DEF Playing
  <2>2. Playing' = Playing \ S
    BY <1>1, <1>3, <1>5 DEF Playing
  <2>3. Guests' \subseteq Guests
    BY <1>1, <1>3, <1>5 DEF Guests
  <2> HIDE DEF S
  <2> QED BY <1>1, <2>1, <2>2, <2>3, DisconnectedGood
<1> QED BY <1>4, <1>7, <1>8, <1>9, <1>10 DEF IInv

-----------------------------------------------------------------------------
\* The theorems.

\* The invariant holds when the game has started its helper.
LEMMA InitIInv == Init => IInv
<1> SUFFICES ASSUME Init PROVE IInv
  OBVIOUS
<1> USE LimitAssumption DEF Init
<1>1. Open = {} /\ Described = {} /\ Playing = {} /\ Guests = {}
  BY DEF Open, Described, Playing, Guests
<1>2. Cardinality({}) = 0
  BY FS_EmptySet
<1>3. SockInv
  BY <1>1 DEF SockInv, SocketOwned
<1>4. TimerInv
  BY DEF TimerInv, TimersOwned
<1>5. CountInv
  BY <1>1, <1>2 DEF CountInv, NotOverfull
<1>6. LoginInv
  <2>1. LoginLimit
    BY <1>1, <1>2 DEF LoginLimit, Guests
  <2> QED BY <1>1, <1>2, <2>1 DEF LoginInv
<1>7. HelperInv
  <2>1. 0 \in 0..MaxDeaths /\ 0 \in 0..WINDOW + 1 /\ 1 \in Nat
    OBVIOUS
  <2>2. ~info_slave_halted /\ info_slave_halted \in BOOLEAN /\ info_slave_pid \in BOOLEAN
    OBVIOUS
  <2> QED BY <2>1, <2>2 DEF HelperInv
<1>8. LookupInv
  <2>1. 0 \in 0..RETRY + 1 /\ NoDatagrams \in [Datagrams -> Nat]
        /\ <<>> \in Seq(Datagrams) /\ <<>> \in Seq(Fds)
    BY DEF NoDatagrams
  <2>2. ~sent /\ sent \in BOOLEAN
    OBVIOUS
  <2> QED BY <2>1, <2>2 DEF LookupInv
<1> QED BY <1>3, <1>4, <1>5, <1>6, <1>7, <1>8 DEF IInv

\* Every step keeps it.
LEMMA NextIInv == IInv /\ [Next]_vars => IInv'
<1> SUFFICES ASSUME IInv, [Next]_vars PROVE IInv'
  OBVIOUS
<1>1. CASE Query
  BY <1>1, QuerySkipGood, QuerySentGood, QueryDownGood, QueryRefusedGood, QuerySendGood,
     QueryFailsGood DEF Query
<1>2. ASSUME NEW f \in Fds, NEW c \in Clients, Accept(f, c) \/ AcceptDirect(f, c)
      PROVE  IInv'
  BY <1>2, AcceptGood, AcceptDirectGood
<1>3. CASE Reap
  BY <1>3, ReapGood
<1>4. CASE \/ Requery \/ ReapStale \/ SlaveRestart \/ HelperExits \/ Reaper \/ Tick
           \/ \E m \in Datagrams : Answer(m)
           \/ \E f \in Fds : PeerGone(f)
  BY <1>4, LookupStepGood
<1>5. ASSUME NEW f \in Fds,
             \/ Line(f) \/ Logout(f) \/ Boot(f) \/ HungUp(f)
             \/ HttpStart(f) \/ HttpInput(f) \/ HttpCommand(f)
      PROVE  IInv'
  BY <1>5, LineGood, LogoutGood, BootGood, HttpGood
<1>6. ASSUME NEW f \in Fds, NEW fun \in Funs, RunTimer(f, fun)
      PROVE  IInv'
  BY <1>6, RunTimerGood
<1>7. ASSUME NEW f \in Fds, NEW wizard \in BOOLEAN, Connect(f, wizard)
      PROVE  IInv'
  BY <1>7, ConnectGood
<1>8. CASE CleanDescriptors
  BY <1>8, CleanGood
<1>9. CASE UNCHANGED vars
  <2> USE <1>9 DEF vars, sockVars, helperVars, lookupVars, loginVars, IInv
  <2>1. Open' = Open /\ Described' = Described /\ Playing' = Playing /\ Guests' = Guests
    BY DEF Open, Described, Playing, Guests
  <2>2. SockInv' /\ TimerInv' /\ CountInv'
    BY <2>1 DEF SockInv, SocketOwned, TimerInv, TimersOwned, CountInv, NotOverfull
  <2>3. LoginInv'
    BY <2>1, LoginFrame
  <2>4. HelperInv' /\ LookupInv'
    BY DEF HelperInv, LookupInv
  <2> QED BY <2>2, <2>3, <2>4
<1> QED BY <1>1, <1>2, <1>3, <1>4, <1>5, <1>6, <1>7, <1>8, <1>9 DEF Next

\* The invariant holds in every reachable state.
THEOREM Invariance == Spec => []IInv
<1>1. Init => IInv
  BY InitIInv
<1>2. IInv /\ [Next]_vars => IInv'
  BY NextIInv
<1> QED BY <1>1, <1>2, PTL DEF Spec

\* Every variable keeps its type; login_number, which disconnect_player
\* decrements, never falls below 0.
THEOREM TypeCorrect == Spec => []TypeOK
<1>1. IInv => TypeOK
  BY DEF IInv, TypeOK, SockInv, TimerInv, CountInv, LoginInv, HelperInv, LookupInv
<1> QED BY <1>1, Invariance, PTL

\* A socket is pending or has a descriptor, never both and never neither,
\* whatever answers come late, twice or not at all.
THEOREM Ownership == Spec => []SocketOwned
<1>1. IInv => SocketOwned
  BY DEF IInv, SockInv
<1> QED BY <1>1, Invariance, PTL

\* No timer is left behind by a descriptor and none runs on a freed one.
THEOREM Timers == Spec => []TimersOwned
<1>1. IInv => TimersOwned
  BY DEF IInv, TimerInv
<1> QED BY <1>1, Invariance, PTL

\* The game never holds more sockets than it has room for.
THEOREM SocketsCounted == Spec => []NotOverfull
<1>1. IInv => NotOverfull
  BY DEF IInv, CountInv
<1> QED BY <1>1, Invariance, PTL

\* Players without the power to exceed max_logins never do.
THEOREM Logins == Spec => []LoginLimit
<1>1. IInv => LoginLimit
  BY DEF IInv, LoginInv
<1> QED BY <1>1, Invariance, PTL

\* A helper that was given up is not started again.
THEOREM Abandoned == Spec => []GivenUp
<1>1. IInv => GivenUp
  BY DEF IInv, HelperInv, GivenUp
<1> QED BY <1>1, Invariance, PTL

=============================================================================
