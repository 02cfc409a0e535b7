--------------------------- MODULE GameLoopProofs ---------------------------
(***************************************************************************)
(* The safety properties of GameLoop hold for every value of the           *)
(* constants.  The inductive invariant has one part for each thing that    *)
(* the loop looks after:                                                   *)
(*                                                                         *)
(* - IInv, the quotas.  A quota is what the connection has not used of its *)
(*   burst and of what was refilled until update_quotas() last ran, so     *)
(*   commands run and quota left never add up to more;                     *)
(* - FlagInv, the signals.  A flag that stands and is not just being       *)
(*   cleared has been sent once more than it was acted on;                 *)
(* - EventInv, the system queue.  Warnings are due strictly before their   *)
(*   dump, so that none is left when the dump runs and registers them      *)
(*   again.  What the fold that registers timers does is proved by         *)
(*   induction on the number of timers;                                    *)
(* - PlaceInv and QueueInv, where the loop is and what it has queued;      *)
(* - DueInv, the entries that wait.  Once queue_update() has looked, none  *)
(*   is overdue.                                                           *)
(***************************************************************************)
EXTENDS GameLoop, QueueSeqsProofs, FiniteSetTheorems

\* Min of two numbers is the smaller one (the caps of update_quotas()).
LEMMA MinOfTwo ==
  ASSUME NEW a \in Int, NEW b \in Int
  PROVE  /\ Min({a, b}) \in {a, b}
         /\ Min({a, b}) <= a
         /\ Min({a, b}) <= b
<1>1. \E x \in {a, b} : \A y \in {a, b} : x =< y
  <2>1. CASE a <= b
    BY <2>1
  <2>2. CASE b <= a
    BY <2>2
  <2> QED BY <2>1, <2>2
<1> QED BY <1>1 DEF Min

\* Multiplication by a rate is monotone and distributes over a difference.
LEMMA Growth ==
  ASSUME NEW r \in Nat, NEW a \in Nat, NEW b \in Nat, a <= b
  PROVE  /\ b - a \in Nat
         /\ r * a \in Nat /\ r * b \in Nat
         /\ r * a <= r * b
         /\ r * b = r * a + r * (b - a)
<1>1. b - a \in Nat
  OBVIOUS
<1>2. r * a \in Nat /\ r * b \in Nat /\ r * (b - a) \in Nat
  BY <1>1
<1>3. r * b = r * a + r * (b - a)
  OBVIOUS
<1> QED BY <1>1, <1>2, <1>3

\* What one side gains by d the other may, too.
LEMMA Transfer ==
  ASSUME NEW u \in Int, NEW q \in Int, NEW p \in Int, NEW m \in Int,
         NEW g \in Int, NEW d \in Int,
         u + q <= m + g, p <= q + d
  PROVE  u + p <= m + (g + d)
OBVIOUS

\* The time that quotas have been refilled for since the window opened.
Refreshed == IF last = 0 THEN 0 ELSE last - window

\* The clock and the times taken from it are in order.
ClockInv ==
  /\ now \in Nat /\ last \in Nat /\ window \in Nat
  /\ 0 < now /\ last <= now /\ window <= now
  /\ last # 0 => window <= last

\* A connection has used no more than it got.
LineInv ==
  /\ quota \in [Descs -> 0..QUOTA_MAX]
  /\ ran \in [Limited -> Nat]
  /\ \A d \in Limited :
       MS_PER_SEC * ran[d] + quota[d] <= QUOTA_MAX + COMMANDS_PER_SECOND * Refreshed

\* The same for HTTP requests, which share one quota.
HttpInv ==
  /\ http_quota \in 0..(HTTP_SECOND_LIMIT * MS_PER_SEC)
  /\ served \in Nat
  /\ MS_PER_SEC * served + http_quota <= HTTP_SECOND_LIMIT * (MS_PER_SEC + Refreshed)

IInv == ClockInv /\ LineInv /\ HttpInv

\* It holds when the game starts, with full quotas.
LEMMA InitIInv == Init => IInv
<1> SUFFICES ASSUME Init PROVE IInv
  OBVIOUS
<1> USE ClockAssumption, QuotaAssumption
<1>1. ClockInv
  BY DEF Init, ClockInv, Start
<1>2. Refreshed = 0
  BY DEF Init, Refreshed
<1>3. LineInv
  <2>1. MS_PER_SEC * 0 = 0 /\ COMMANDS_PER_SECOND * 0 = 0
    OBVIOUS
  <2> QED BY <1>2, <2>1 DEF Init, LineInv, Limited
<1>4. HttpInv
  <2>1. HTTP_SECOND_LIMIT * MS_PER_SEC \in Nat
    OBVIOUS
  <2>2. MS_PER_SEC * 0 = 0 /\ MS_PER_SEC + 0 = MS_PER_SEC
    OBVIOUS
  <2> QED BY <1>2, <2>1, <2>2 DEF Init, HttpInv
<1> QED BY <1>1, <1>3, <1>4 DEF IInv

\* Refilling a quota gives at most the rate times the milliseconds since it
\* was last refilled, and never more than the cap (update_quotas()).
LEMMA RefilledBounds ==
  ASSUME ClockInv, NEW q \in Nat, NEW rate \in Nat, NEW most \in Nat
  PROVE  /\ Refilled(q, rate, most) \in 0..most
         /\ Refilled(q, rate, most) <= q + rate * (now - last)
<1>1. now - last \in Nat
  BY DEF ClockInv
<1>2. rate * (now - last) \in Nat
  BY <1>1
<1> DEFINE sum == q + rate * (now - last)
<1>3. sum \in Nat
  BY <1>2
<1>4. Refilled(q, rate, most) = Min({sum, most})
  BY DEF Refilled
<1> HIDE DEF sum
<1>5. /\ Min({sum, most}) \in {sum, most}
      /\ Min({sum, most}) <= sum
      /\ Min({sum, most}) <= most
  BY <1>3, MinOfTwo
<1>6. Refilled(q, rate, most) \in 0..most /\ Refilled(q, rate, most) <= sum
  BY <1>3, <1>4, <1>5
<1> QED BY <1>6 DEF sum

\* A step that touches neither quotas nor counts keeps the invariant: time
\* only passes.
LEMMA IdleStep ==
  ASSUME IInv, now' \in Nat, now <= now',
         UNCHANGED <<last, window>>, UNCHANGED <<quota, ran, http_quota, served>>
  PROVE  IInv'
<1>1. Refreshed' = Refreshed
  BY DEF Refreshed
<1>2. ClockInv'
  BY DEF IInv, ClockInv
<1>3. LineInv'
  BY <1>1 DEF IInv, LineInv
<1>4. HttpInv'
  BY <1>1 DEF IInv, HttpInv
<1> QED BY <1>2, <1>3, <1>4 DEF IInv

\* A line that is run costs the quota what it adds to the count; the guard
\* of process_commands() keeps the unsigned quota from wrapping.
LEMMA LineStep ==
  ASSUME IInv, RunLine
  PROVE  LineInv'
<1> USE ClockAssumption, QuotaAssumption
<1>1. PICK d \in Throttled :
        /\ Affordable(quota[d])
        /\ quota' = [quota EXCEPT ![d] = Unsigned(@ - MS_PER_SEC)]
        /\ ran' = [e \in Limited |-> ran[e] + IF e = d THEN 1 ELSE 0]
  BY DEF RunLine
<1>2. d \in Descs /\ quota[d] \in 0..QUOTA_MAX /\ quota[d] >= MS_PER_SEC
  BY <1>1 DEF Throttled, Affordable, IInv, LineInv
<1>3. Unsigned(quota[d] - MS_PER_SEC) = quota[d] - MS_PER_SEC
  <2>1. quota[d] - MS_PER_SEC \in 0..(UINT - 1)
    BY <1>2
  <2>2. \A n \in 0..(UINT - 1) : n % UINT = n
    OBVIOUS
  <2> QED BY <2>1, <2>2 DEF Unsigned
<1>4. quota' \in [Descs -> 0..QUOTA_MAX]
  BY <1>1, <1>2, <1>3 DEF IInv, LineInv
<1>5. ran' \in [Limited -> Nat]
  BY <1>1 DEF IInv, LineInv
<1>6. Refreshed' = Refreshed
  BY DEF RunLine, places, Refreshed
<1>7. ASSUME NEW e \in Limited
      PROVE  MS_PER_SEC * ran'[e] + quota'[e] = MS_PER_SEC * ran[e] + quota[e]
  <2>1. e \in Descs /\ ran[e] \in Nat /\ quota[e] \in Nat
    BY DEF Limited, IInv, LineInv
  <2>2. CASE e = d
    <3>1. ran'[e] = ran[e] + 1 /\ quota'[e] = quota[e] - MS_PER_SEC
      BY <1>1, <1>3, <2>1, <2>2 DEF IInv, LineInv
    <3>2. MS_PER_SEC * (ran[e] + 1) = MS_PER_SEC * ran[e] + MS_PER_SEC
      BY <2>1
    <3>3. MS_PER_SEC * ran[e] \in Nat
      BY <2>1
    <3> QED BY <2>1, <3>1, <3>2, <3>3
  <2>3. CASE e # d
    <3>1. ran'[e] = ran[e] /\ quota'[e] = quota[e]
      BY <1>1, <2>1, <2>3 DEF IInv, LineInv
    <3> QED BY <3>1
  <2> QED BY <2>2, <2>3
<1> QED BY <1>4, <1>5, <1>6, <1>7 DEF IInv, LineInv

\* The same for a request and the quota that requests share.
LEMMA RequestStep ==
  ASSUME IInv, RunRequest
  PROVE  HttpInv'
<1> USE ClockAssumption, QuotaAssumption
<1> DEFINE most == HTTP_SECOND_LIMIT * MS_PER_SEC
<1>1. most \in Nat
  OBVIOUS
<1>2. /\ http_quota' = http_quota - MS_PER_SEC
      /\ served' = served + 1
      /\ http_quota >= MS_PER_SEC
      /\ http_quota \in 0..most /\ served \in Nat
  BY DEF RunRequest, Affordable, IInv, HttpInv
<1>3. Refreshed' = Refreshed
  BY DEF RunRequest, places, Refreshed
<1>4. MS_PER_SEC * (served + 1) = MS_PER_SEC * served + MS_PER_SEC
      /\ MS_PER_SEC * served \in Nat
  BY <1>2
<1> HIDE DEF most
<1>5. MS_PER_SEC * served' + http_quota' = MS_PER_SEC * served + http_quota
  BY <1>1, <1>2, <1>4
<1>6. http_quota' \in 0..most /\ served' \in Nat
  BY <1>1, <1>2
<1> QED BY <1>3, <1>5, <1>6 DEF IInv, HttpInv, most

\* update_quotas() adds to a quota what the rate allows for the milliseconds
\* since its last call, or starts to measure afresh with quotas that are capped.
LEMMA QuotaStep ==
  ASSUME IInv, UpdateQuotas
  PROVE  IInv'
<1>a. /\ QUOTA_MAX \in Nat /\ MS_PER_SEC \in Nat
      /\ COMMANDS_PER_SECOND \in Nat /\ HTTP_SECOND_LIMIT \in Nat
  BY ClockAssumption, QuotaAssumption
<1> DEFINE most == HTTP_SECOND_LIMIT * MS_PER_SEC
<1>0. most \in Nat
  BY <1>a
<1> HIDE DEF most
<1>1. ClockInv /\ LineInv /\ HttpInv
  BY DEF IInv
<1>2. last' = now /\ now' = now /\ now # 0
  BY <1>1 DEF UpdateQuotas, ClockInv
<1>3. window' \in {window, now}
  BY DEF UpdateQuotas
<1>4. ClockInv'
  BY <1>1, <1>2, <1>3 DEF ClockInv
<1>5. Refreshed' = now - window' /\ now - window' \in Nat
  <2>1. now \in Nat /\ window' \in Nat /\ window' <= now
    BY <1>1, <1>3 DEF ClockInv
  <2>2. Refreshed' = now - window'
    BY <1>2 DEF Refreshed
  <2>3. now - window' \in Nat
    BY <2>1, Growth
  <2> QED BY <2>2, <2>3
<1>6. quota' \in [Descs -> 0..QUOTA_MAX]
  <2>1. CASE last = 0
    BY <1>1, <2>1 DEF UpdateQuotas, LineInv
  <2>2. CASE last # 0
    <3>1. \A d \in Descs : quota[d] \in Nat
      BY <1>1 DEF LineInv
    <3>2. \A d \in Descs :
            Refilled(quota[d], COMMANDS_PER_SECOND, QUOTA_MAX) \in 0..QUOTA_MAX
      BY <1>1, <1>a, <3>1, RefilledBounds
    <3>3. QUOTA_MAX \in 0..QUOTA_MAX
      BY <1>a
    <3> QED BY <2>2, <3>2, <3>3 DEF UpdateQuotas
  <2> QED BY <2>1, <2>2
<1>7. http_quota' \in 0..most
  <2>1. CASE last = 0
    BY <1>1, <2>1 DEF UpdateQuotas, HttpInv, most
  <2>2. CASE last # 0
    <3>1. http_quota \in Nat
      BY <1>1 DEF HttpInv
    <3>2. Refilled(http_quota, HTTP_SECOND_LIMIT, most) \in 0..most
      BY <1>0, <1>1, <1>a, <3>1, RefilledBounds
    <3> QED BY <2>2, <3>2 DEF UpdateQuotas, most
  <2> QED BY <2>1, <2>2
<1>8. CASE UNCHANGED <<window, ran, served>>
  \* What has been refilled grows by as much as the quotas at most.
  <2>1. ASSUME NEW rate \in Nat
        PROVE  /\ rate * Refreshed \in Nat
               /\ rate * Refreshed <= rate * Refreshed'
               /\ last # 0 => rate * Refreshed' = rate * Refreshed + rate * (now - last)
    <3>1. Refreshed \in Nat /\ Refreshed' \in Nat /\ Refreshed <= Refreshed'
      BY <1>1, <1>5, <1>8 DEF Refreshed, ClockInv
    <3>2. last # 0 => Refreshed' - Refreshed = now - last
      BY <1>1, <1>5, <1>8 DEF Refreshed, ClockInv
    <3>3. /\ rate * Refreshed \in Nat
          /\ rate * Refreshed <= rate * Refreshed'
          /\ rate * Refreshed' = rate * Refreshed + rate * (Refreshed' - Refreshed)
      BY <3>1, Growth
    <3> QED BY <3>2, <3>3
  <2>2. LineInv'
    <3>1. ASSUME NEW d \in Limited
          PROVE  MS_PER_SEC * ran[d] + quota'[d]
                   <= QUOTA_MAX + COMMANDS_PER_SECOND * Refreshed'
      <4>1. d \in Descs /\ d \notin NOQUOTA /\ quota[d] \in 0..QUOTA_MAX
            /\ ran[d] \in Nat /\ quota'[d] \in 0..QUOTA_MAX
        BY <1>1, <1>6 DEF Limited, LineInv
      <4>2. MS_PER_SEC * ran[d] \in Nat
        BY <1>a, <4>1
      <4>3. MS_PER_SEC * ran[d] + quota[d] <= QUOTA_MAX + COMMANDS_PER_SECOND * Refreshed
        BY <1>1 DEF LineInv
      <4>4. CASE last = 0
        <5>1. quota'[d] = quota[d]
          BY <4>4 DEF UpdateQuotas
        <5>2. COMMANDS_PER_SECOND * Refreshed \in Nat
              /\ COMMANDS_PER_SECOND * Refreshed' \in Nat
              /\ COMMANDS_PER_SECOND * Refreshed <= COMMANDS_PER_SECOND * Refreshed'
          BY <1>5, <1>a, <2>1, Growth
        <5> QED BY <1>a, <4>1, <4>2, <4>3, <5>1, <5>2
      <4>5. CASE last # 0
        <5>1. quota'[d] = Refilled(quota[d], COMMANDS_PER_SECOND, QUOTA_MAX)
          BY <4>1, <4>5 DEF UpdateQuotas
        <5>2. quota'[d] <= quota[d] + COMMANDS_PER_SECOND * (now - last)
          <6>1. quota[d] \in Nat
            BY <1>a, <4>1
          <6> QED BY <1>1, <1>a, <5>1, <6>1, RefilledBounds
        <5>3. COMMANDS_PER_SECOND * Refreshed' =
                COMMANDS_PER_SECOND * Refreshed + COMMANDS_PER_SECOND * (now - last)
          BY <1>a, <2>1, <4>5
        <5>4. COMMANDS_PER_SECOND * Refreshed \in Nat
          BY <1>a, <2>1
        <5>5. COMMANDS_PER_SECOND * (now - last) \in Int
          BY <1>1, <1>a DEF ClockInv
        <5> QED BY <1>a, <4>1, <4>2, <4>3, <5>2, <5>3, <5>4, <5>5
      <4> QED BY <4>4, <4>5
    <3>2. ran' = ran
      BY <1>8
    <3> QED BY <1>1, <1>6, <3>1, <3>2 DEF LineInv
  <2>3. HttpInv'
    <3>1. /\ HTTP_SECOND_LIMIT * Refreshed \in Nat
          /\ HTTP_SECOND_LIMIT * Refreshed' \in Nat
          /\ HTTP_SECOND_LIMIT * Refreshed <= HTTP_SECOND_LIMIT * Refreshed'
          /\ last # 0 =>
               HTTP_SECOND_LIMIT * Refreshed' =
                 HTTP_SECOND_LIMIT * Refreshed + HTTP_SECOND_LIMIT * (now - last)
      BY <1>5, <1>a, <2>1
    <3>2. HTTP_SECOND_LIMIT * (now - last) \in Int
      BY <1>1, <1>a DEF ClockInv
    <3>3. MS_PER_SEC * served \in Nat
      BY <1>1, <1>a DEF HttpInv
    <3>4. HTTP_SECOND_LIMIT * (MS_PER_SEC + Refreshed) = most + HTTP_SECOND_LIMIT * Refreshed
      BY <1>1, <1>a DEF Refreshed, ClockInv, most
    <3>5. HTTP_SECOND_LIMIT * (MS_PER_SEC + Refreshed') = most + HTTP_SECOND_LIMIT * Refreshed'
      BY <1>5, <1>a DEF most
    <3>6. MS_PER_SEC * served + http_quota <= most + HTTP_SECOND_LIMIT * Refreshed
      BY <1>1, <3>4 DEF HttpInv
    <3>7. http_quota \in Nat /\ http_quota' \in Nat
      BY <1>1, <1>7, <1>0 DEF HttpInv, most
    <3>8. last = 0 => http_quota' = http_quota
      BY DEF UpdateQuotas
    <3>9. last # 0 => http_quota' <= http_quota + HTTP_SECOND_LIMIT * (now - last)
      BY <1>0, <1>1, <1>a, <3>7, RefilledBounds DEF UpdateQuotas, most
    <3>10. MS_PER_SEC * served + http_quota' <= most + HTTP_SECOND_LIMIT * Refreshed'
      <4>1. CASE last = 0
        BY <1>0, <3>1, <3>3, <3>6, <3>7, <3>8, <4>1
      <4>2. CASE last # 0
        <5>1. HTTP_SECOND_LIMIT * Refreshed' =
                HTTP_SECOND_LIMIT * Refreshed + HTTP_SECOND_LIMIT * (now - last)
          BY <3>1, <4>2
        <5>2. http_quota' <= http_quota + HTTP_SECOND_LIMIT * (now - last)
          BY <3>9, <4>2
        <5>3. HTTP_SECOND_LIMIT * Refreshed \in Nat
          BY <3>1
        <5>4. MS_PER_SEC * served + http_quota' <=
                most + (HTTP_SECOND_LIMIT * Refreshed + HTTP_SECOND_LIMIT * (now - last))
          BY <1>0, <3>2, <3>3, <3>6, <3>7, <5>2, <5>3, Transfer
        <5> QED BY <5>1, <5>4
      <4> QED BY <4>1, <4>2
    <3> QED BY <1>1, <1>7, <1>8, <3>5, <3>10 DEF HttpInv, most
  <2> QED BY <1>4, <2>2, <2>3 DEF IInv
<1>9. CASE window' = now /\ ran' = [d \in Limited |-> 0] /\ served' = 0
  <2>1. Refreshed' = 0
    BY <1>1, <1>5, <1>9 DEF ClockInv
  <2>2. MS_PER_SEC * 0 = 0 /\ COMMANDS_PER_SECOND * 0 = 0
        /\ MS_PER_SEC + 0 = MS_PER_SEC
    BY <1>a
  <2>3. LineInv'
    BY <1>6, <1>9, <1>a, <2>1, <2>2 DEF LineInv, Limited
  <2>4. HttpInv'
    <3>1. served' \in Nat /\ MS_PER_SEC * served' = 0
      BY <1>9, <2>2
    <3>2. HTTP_SECOND_LIMIT * (MS_PER_SEC + Refreshed') = most
      BY <2>1, <2>2 DEF most
    <3>3. MS_PER_SEC * served' + http_quota' <= most
      BY <1>0, <1>7, <3>1
    <3> QED BY <1>7, <3>1, <3>2, <3>3 DEF HttpInv, most
  <2> QED BY <1>4, <2>3, <2>4 DEF IInv
<1> QED BY <1>8, <1>9 DEF UpdateQuotas

\* Every step of the loop and every signal keeps the invariant.
LEMMA NextIInv == IInv /\ [Next]_vars => IInv'
<1> SUFFICES ASSUME IInv, [Next]_vars PROVE IInv'
  OBVIOUS
<1> USE DEF queues, lines, requests, places
<1>0. now \in Nat
  BY DEF IInv, ClockInv
<1>1. CASE Timeout
  BY <1>0, <1>1, IdleStep DEF Timeout
<1>2. CASE Wake
  BY <1>0, <1>2, IdleStep DEF Wake, Sleep
<1>3. CASE ReadLines
  BY <1>0, <1>3, IdleStep DEF ReadLines, Sleep
<1>4. CASE ReadRequest
  BY <1>0, <1>4, IdleStep DEF ReadRequest, Sleep
<1>5. ASSUME NEW s \in Kinds, Signal(s) PROVE IInv'
  BY <1>0, <1>5, IdleStep DEF Signal
<1>6. CASE SkipFlag
  BY <1>0, <1>6, IdleStep DEF SkipFlag
<1>7. CASE HandleFlag
  BY <1>0, <1>7, IdleStep DEF HandleFlag
<1>8. CASE ClearFlag
  BY <1>0, <1>8, IdleStep DEF ClearFlag
<1>9. CASE RunLine
  <2>1. now' \in Nat /\ now <= now'
    BY <1>0, <1>9 DEF RunLine, Command
  <2>2. UNCHANGED <<last, window, http_quota, served>>
    BY <1>9 DEF RunLine
  <2>3. Refreshed' = Refreshed
    BY <2>2 DEF Refreshed
  <2>4. ClockInv'
    BY <2>1, <2>2 DEF IInv, ClockInv
  <2>5. HttpInv'
    BY <2>2, <2>3 DEF IInv, HttpInv
  <2> QED BY <1>9, <2>4, <2>5, LineStep DEF IInv
<1>10. CASE RunRequest
  <2>1. now' \in Nat /\ now <= now'
    BY <1>0, <1>10 DEF RunRequest, Command
  <2>2. UNCHANGED <<last, window, quota, ran>>
    BY <1>10 DEF RunRequest
  <2>3. Refreshed' = Refreshed
    BY <2>2 DEF Refreshed
  <2>4. ClockInv'
    BY <2>1, <2>2 DEF IInv, ClockInv
  <2>5. LineInv'
    BY <2>2, <2>3 DEF IInv, LineInv
  <2> QED BY <1>10, <2>4, <2>5, RequestStep DEF IInv
<1>11. CASE CommandsDone
  BY <1>0, <1>11, IdleStep DEF CommandsDone
<1>12. CASE QueueUpdate
  BY <1>0, <1>12, IdleStep DEF QueueUpdate
<1>13. CASE DoTop
  BY <1>0, <1>13, IdleStep DEF DoTop, Command
<1>14. CASE TopDone
  BY <1>0, <1>14, IdleStep DEF TopDone
<1>15. CASE RunTimer
  BY <1>0, <1>15, IdleStep DEF RunTimer
<1>16. CASE CleanDescriptors
  BY <1>0, <1>16, IdleStep DEF CleanDescriptors
<1>17. CASE UpdateQuotas
  BY <1>17, QuotaStep
<1>18. CASE UNCHANGED vars
  BY <1>0, <1>18, IdleStep DEF vars
<1> QED
  BY <1>1, <1>2, <1>3, <1>4, <1>5, <1>6, <1>7, <1>8, <1>9, <1>10, <1>11,
     <1>12, <1>13, <1>14, <1>15, <1>16, <1>17, <1>18 DEF Next, Loop

\* The invariant bounds what has been run by the time that passed.
LEMMA IInvLimits == IInv => RateLimited /\ HttpLimited
<1> SUFFICES ASSUME IInv PROVE RateLimited /\ HttpLimited
  OBVIOUS
<1>1. /\ QUOTA_MAX \in Nat /\ MS_PER_SEC \in Nat
      /\ COMMANDS_PER_SECOND \in Nat /\ HTTP_SECOND_LIMIT \in Nat
  BY ClockAssumption, QuotaAssumption
<1>2. Refreshed \in Nat /\ now - window \in Nat /\ Refreshed <= now - window
  BY DEF IInv, ClockInv, Refreshed
<1>3. ASSUME NEW d \in Limited
      PROVE  MS_PER_SEC * ran[d] <= QUOTA_MAX + COMMANDS_PER_SECOND * (now - window)
  <2>1. ran[d] \in Nat /\ quota[d] \in Nat
    BY <1>1 DEF IInv, LineInv, Limited
  <2>2. MS_PER_SEC * ran[d] + quota[d] <= QUOTA_MAX + COMMANDS_PER_SECOND * Refreshed
    BY DEF IInv, LineInv
  <2>3. /\ COMMANDS_PER_SECOND * Refreshed \in Nat
        /\ COMMANDS_PER_SECOND * (now - window) \in Nat
        /\ COMMANDS_PER_SECOND * Refreshed <= COMMANDS_PER_SECOND * (now - window)
    BY <1>1, <1>2, Growth
  <2>4. MS_PER_SEC * ran[d] \in Nat
    BY <1>1, <2>1
  <2> QED BY <1>1, <2>1, <2>2, <2>3, <2>4
<1>4. HttpLimited
  <2>1. served \in Nat /\ http_quota \in Nat
    BY <1>1 DEF IInv, HttpInv
  <2>2. MS_PER_SEC * served + http_quota <= HTTP_SECOND_LIMIT * (MS_PER_SEC + Refreshed)
    BY DEF IInv, HttpInv
  <2>3. /\ MS_PER_SEC + Refreshed \in Nat /\ MS_PER_SEC + (now - window) \in Nat
        /\ MS_PER_SEC + Refreshed <= MS_PER_SEC + (now - window)
    BY <1>1, <1>2
  <2>4. /\ HTTP_SECOND_LIMIT * (MS_PER_SEC + Refreshed) \in Nat
        /\ HTTP_SECOND_LIMIT * (MS_PER_SEC + (now - window)) \in Nat
        /\ HTTP_SECOND_LIMIT * (MS_PER_SEC + Refreshed)
             <= HTTP_SECOND_LIMIT * (MS_PER_SEC + (now - window))
    BY <1>1, <2>3, Growth
  <2>5. MS_PER_SEC * served \in Nat
    BY <1>1, <2>1
  <2>6. MS_PER_SEC * served <= HTTP_SECOND_LIMIT * (MS_PER_SEC + (now - window))
    BY <2>1, <2>2, <2>4, <2>5
  <2>7. MS_PER_SEC + (now - window) = MS_PER_SEC + now - window
    BY <1>1 DEF IInv, ClockInv
  <2> QED BY <2>6, <2>7 DEF HttpLimited
<1> QED BY <1>3, <1>4 DEF RateLimited

\* In every period that begins with a call of update_quotas(), or with the
\* game, process_commands() runs no more lines of a connection with a quota
\* than the burst and the rate allow, however the connection sends them.
THEOREM LinesLimited == Spec => []RateLimited
<1>1. Init => IInv
  BY InitIInv
<1>2. IInv /\ [Next]_vars => IInv'
  BY NextIInv
<1>3. IInv => RateLimited
  BY IInvLimits
<1> QED BY <1>1, <1>2, <1>3, PTL DEF Spec

\* The same for the HTTP requests of all connections together.
THEOREM RequestsLimited == Spec => []HttpLimited
<1>1. Init => IInv
  BY InitIInv
<1>2. IInv /\ [Next]_vars => IInv'
  BY NextIInv
<1>3. IInv => HttpLimited
  BY IInvLimits
<1> QED BY <1>1, <1>2, <1>3, PTL DEF Spec

-----------------------------------------------------------------------------
\* Signals.

\* A signal other than USR1 whose flag stands and that is not just being
\* cleared has been sent more often than it was acted on.
Pending(s) == s \in flags /\ ~(pc = "clear" /\ s = Flags[flag]) /\ pc # "down"

FlagInv ==
  /\ flag \in DOMAIN Flags
  /\ flags \subseteq Kinds
  /\ sent \in [Kinds -> 0..MaxSignals]
  /\ handled \in [Kinds -> Nat]
  /\ \A s \in Kinds \ {"USR1"} :
       /\ handled[s] <= sent[s]
       /\ Pending(s) => handled[s] < sent[s]

\* No signal has been sent when the game starts.
LEMMA InitFlagInv == Init => FlagInv
<1> SUFFICES ASSUME Init PROVE FlagInv
  OBVIOUS
<1>1. DOMAIN Flags = 1..5
  BY DEF Flags
<1> QED BY <1>1, QuotaAssumption DEF Init, FlagInv, Pending

\* After a flag the next one is looked at, or commands are run.
LEMMA NextFlagFacts ==
  ASSUME flag \in DOMAIN Flags, NextFlag
  PROVE  flag' \in DOMAIN Flags /\ pc' \in {"commands", "status"}
<1>1. DOMAIN Flags = 1..5 /\ Len(Flags) = 5
  BY DEF Flags
<1> QED BY <1>1 DEF NextFlag

\* A step that leaves the flags alone keeps the invariant.
LEMMA NoSignalStep ==
  ASSUME FlagInv, UNCHANGED <<signals, flag>>,
         pc' # "clear", pc # "clear" \/ pc' = "down", pc # "down" \/ pc' = "down"
  PROVE  FlagInv'
BY DEF FlagInv, signals, Pending

\* check_status() acts on a flag that is pending; the flag no longer is when
\* it has, though it stands until the next step.
LEMMA HandleStep ==
  ASSUME FlagInv, HandleFlag
  PROVE  FlagInv'
<1> DEFINE s == Flags[flag]
<1>1. s \in flags /\ pc = "status" /\ s \in Kinds
  BY DEF HandleFlag, FlagInv
<1>2. UNCHANGED <<flag, flags, sent>> /\ pc' \in {"clear", "down"}
  BY DEF HandleFlag, places
<1>3. handled' = handled \/
      handled' = [handled EXCEPT ![s] = Min({handled[s] + 1, MaxSignals + 1})]
  BY DEF HandleFlag
<1>4. /\ handled[s] \in Nat /\ MaxSignals \in Nat
      /\ sent[s] \in 0..MaxSignals
  BY <1>1, QuotaAssumption DEF FlagInv
<1> DEFINE m == Min({handled[s] + 1, MaxSignals + 1})
<1>5. m \in {handled[s] + 1, MaxSignals + 1} /\ m <= handled[s] + 1
  <2> DEFINE a == handled[s] + 1
             b == MaxSignals + 1
  <2>1. a \in Int /\ b \in Int
    BY <1>4
  <2> HIDE DEF a, b
  <2>2. Min({a, b}) \in {a, b} /\ Min({a, b}) <= a
    BY <2>1, MinOfTwo
  <2> QED BY <2>2 DEF a, b
<1> HIDE DEF m
<1>6. m \in Nat /\ m <= handled[s] + 1
  BY <1>4, <1>5
<1>7. s # "USR1" => handled[s] < sent[s]
  BY <1>1 DEF FlagInv, Pending
<1> HIDE DEF s
<1>8. handled' \in [Kinds -> Nat]
  BY <1>1, <1>3, <1>6 DEF FlagInv, m
<1>9. ASSUME NEW t \in Kinds \ {"USR1"}
      PROVE  /\ handled'[t] <= sent'[t]
             /\ Pending(t)' => handled'[t] < sent'[t]
  <2>0. /\ handled[t] \in Nat /\ sent[t] \in Nat /\ sent'[t] = sent[t]
        /\ handled[t] <= sent[t]
        /\ t \in Kinds
    BY <1>2 DEF FlagInv
  <2>1. CASE t = s
    <3>1. ~Pending(t)'
      BY <1>2, <2>1 DEF Pending, s
    <3>2. handled'[t] = handled[t] \/ handled'[t] = m
      BY <1>1, <1>3, <2>1 DEF FlagInv, m
    <3> QED BY <1>6, <1>7, <2>0, <2>1, <3>1, <3>2
  <2>2. CASE t # s
    <3>1. handled'[t] = handled[t]
      BY <1>3, <2>0, <2>2 DEF FlagInv
    <3>2. Pending(t)' => Pending(t)
      BY <1>1, <1>2, <2>2 DEF Pending
    <3>3. Pending(t) => handled[t] < sent[t]
      BY DEF FlagInv
    <3> QED BY <2>0, <3>1, <3>2, <3>3
  <2> QED BY <2>1, <2>2
<1> QED BY <1>2, <1>8, <1>9 DEF FlagInv

\* Every step keeps the invariant of the flags.
LEMMA NextFlagInv == FlagInv /\ [Next]_vars => FlagInv'
<1> SUFFICES ASSUME FlagInv, [Next]_vars PROVE FlagInv'
  OBVIOUS
<1> USE DEF places
<1>1. CASE Timeout
  BY <1>1, NoSignalStep DEF Timeout
<1>2. CASE Wake
  BY <1>2, NoSignalStep DEF Wake, Sleep
<1>3. CASE ReadLines
  BY <1>3, NoSignalStep DEF ReadLines, Sleep
<1>4. CASE ReadRequest
  BY <1>4, NoSignalStep DEF ReadRequest, Sleep
<1>5. ASSUME NEW s \in Kinds, Signal(s) PROVE FlagInv'
  <2>1. /\ sent' = [sent EXCEPT ![s] = @ + 1] /\ sent[s] < MaxSignals
        /\ flags' = flags \cup {s}
        /\ UNCHANGED <<pc, flag, handled>>
    BY <1>5 DEF Signal
  <2>2. sent' \in [Kinds -> 0..MaxSignals]
    BY <2>1, QuotaAssumption DEF FlagInv
  <2>3. ASSUME NEW t \in Kinds \ {"USR1"}
        PROVE  /\ handled'[t] <= sent'[t]
               /\ Pending(t)' => handled'[t] < sent'[t]
    <3>1. handled[t] \in Nat /\ sent[t] \in Nat /\ handled[t] <= sent[t]
          /\ handled' = handled
      BY <2>1 DEF FlagInv
    <3>2. CASE t = s
      BY <2>1, <3>1, <3>2 DEF FlagInv
    <3>3. CASE t # s
      BY <2>1, <3>1, <3>3 DEF FlagInv, Pending
    <3> QED BY <3>2, <3>3
  <2> QED BY <2>1, <2>2, <2>3 DEF FlagInv
<1>6. CASE SkipFlag
  <2>1. flag' \in DOMAIN Flags /\ pc' \in {"commands", "status"}
    BY <1>6, NextFlagFacts DEF SkipFlag, FlagInv
  <2>2. UNCHANGED <<flags, sent, handled>> /\ pc = "status"
    BY <1>6 DEF SkipFlag, signals
  <2>3. \A t \in Kinds : Pending(t)' => Pending(t)
    BY <2>1, <2>2 DEF Pending
  <2> QED BY <2>1, <2>2, <2>3 DEF FlagInv
<1>7. CASE HandleFlag
  BY <1>7, HandleStep
<1>8. CASE ClearFlag
  <2>1. flag' \in DOMAIN Flags /\ pc' \in {"commands", "status"}
    BY <1>8, NextFlagFacts DEF ClearFlag, FlagInv
  <2>2. /\ UNCHANGED <<sent, handled>> /\ pc = "clear"
        /\ flags' = flags \ ({Flags[flag]} \ {"USR1"})
    BY <1>8 DEF ClearFlag, Cleared
  <2>3. \A t \in Kinds \ {"USR1"} : Pending(t)' => Pending(t)
    BY <2>1, <2>2 DEF Pending
  <2> QED BY <2>1, <2>2, <2>3 DEF FlagInv
<1>9. CASE RunLine
  BY <1>9, NoSignalStep DEF RunLine
<1>10. CASE RunRequest
  BY <1>10, NoSignalStep DEF RunRequest
<1>11. CASE CommandsDone
  BY <1>11, NoSignalStep DEF CommandsDone
<1>12. CASE QueueUpdate
  BY <1>12, NoSignalStep DEF QueueUpdate
<1>13. CASE DoTop
  BY <1>13, NoSignalStep DEF DoTop
<1>14. CASE TopDone
  BY <1>14, NoSignalStep DEF TopDone
<1>15. CASE RunTimer
  BY <1>15, NoSignalStep DEF RunTimer
<1>16. CASE CleanDescriptors
  BY <1>16, NoSignalStep DEF CleanDescriptors
<1>17. CASE UpdateQuotas
  BY <1>17, NoSignalStep DEF UpdateQuotas
<1>18. CASE UNCHANGED vars
  BY <1>18 DEF vars, signals, FlagInv, Pending
<1> QED
  BY <1>1, <1>2, <1>3, <1>4, <1>5, <1>6, <1>7, <1>8, <1>9, <1>10, <1>11,
     <1>12, <1>13, <1>14, <1>15, <1>16, <1>17, <1>18 DEF Next, Loop

\* However signals arrive, also between check_status() acting on a flag and
\* its clearing it, no signal but USR1 is acted on more often than it was sent.
THEOREM SignalsOnce == Spec => []OncePerSignal
<1>1. Init => FlagInv
  BY InitFlagInv
<1>2. FlagInv /\ [Next]_vars => FlagInv'
  BY NextFlagInv
<1>3. FlagInv => OncePerSignal
  BY DEF FlagInv, OncePerSignal
<1> QED BY <1>1, <1>2, <1>3, PTL DEF Spec

-----------------------------------------------------------------------------
\* The system queue.

\* A system queue that is well formed: no timer twice, and in order of time.
Sorted(r) ==
  /\ r.sq \in Seq(Timers) /\ r.when \in [Timers -> Nat]
  /\ IsInjective(r.sq)
  /\ \A i, j \in 1..Len(r.sq) : i < j => r.when[r.sq[i]] <= r.when[r.sq[j]]

\* sq_register() links a timer that is not in the queue in its place.
LEMMA RegisterFacts ==
  ASSUME NEW r, Sorted(r), NEW t \in Timers, t \notin Range(r.sq), NEW at \in Nat
  PROVE  LET q == sq_register(r, t, at)
         IN  /\ Sorted(q)
             /\ Range(q.sq) = Range(r.sq) \cup {t}
             /\ q.when = [r.when EXCEPT ![t] = at]
<1> DEFINE s == r.sq
           due == [r.when EXCEPT ![t] = at]
           k == FirstAfter(s, due, at)
           new == Insert(s, k, t)
<1>1. sq_register(r, t, at) = [sq |-> new, when |-> due]
  BY DEF sq_register
<1>2. /\ s \in Seq(Timers) /\ due \in [Timers -> Nat] /\ due[t] = at
      /\ Len(s) \in Nat /\ DOMAIN s = 1..Len(s)
      /\ IsInjective(s)
  BY DEF Sorted
<1>3. \A i \in 1..Len(s) : s[i] \in Timers /\ s[i] # t /\ due[s[i]] = r.when[s[i]]
                           /\ due[s[i]] \in Nat
  <2> SUFFICES ASSUME NEW i \in 1..Len(s)
               PROVE  s[i] \in Timers /\ s[i] # t /\ due[s[i]] = r.when[s[i]]
                      /\ due[s[i]] \in Nat
    OBVIOUS
  <2>1. s[i] \in Timers /\ s[i] # t
    BY <1>2 DEF Range
  <2>2. r.when \in [Timers -> Nat]
    BY DEF Sorted
  <2> QED BY <2>1, <2>2
<1>4. \A i, j \in 1..Len(s) : i < j => due[s[i]] <= due[s[j]]
  BY <1>3 DEF Sorted
<1>5. t \notin Range(s)
  OBVIOUS
<1> HIDE DEF s, due
<1>6. /\ k \in 1..(Len(s) + 1)
      /\ \A j \in 1..(k - 1) : due[s[j]] <= at
      /\ k <= Len(s) => due[s[k]] > at
  <2>1. \A i \in 1..Len(s) : due[s[i]] \in Int
    BY <1>3
  <2>2. at \in Int
    OBVIOUS
  <2> QED BY <1>2, <2>1, <2>2, FirstAfterFacts DEF k
<1> HIDE DEF k
<1>7. /\ new \in Seq(Timers) /\ Len(new) = Len(s) + 1
      /\ \A j \in 1..(k - 1) : new[j] = s[j]
      /\ new[k] = t
      /\ \A j \in (k + 1)..(Len(s) + 1) : new[j] = s[j - 1]
      /\ Range(new) = Range(s) \cup {t}
      /\ IsInjective(new)
  <2>1. k \in 1..(Len(s) + 1) /\ s \in Seq(Timers) /\ t \in Timers
    BY <1>2, <1>6
  <2>2. /\ Insert(s, k, t) \in Seq(Timers)
        /\ Len(Insert(s, k, t)) = Len(s) + 1
        /\ \A j \in 1..(k - 1) : Insert(s, k, t)[j] = s[j]
        /\ Insert(s, k, t)[k] = t
        /\ \A j \in (k + 1)..(Len(s) + 1) : Insert(s, k, t)[j] = s[j - 1]
        /\ Range(Insert(s, k, t)) = Range(s) \cup {t}
        /\ IsInjective(s) /\ t \notin Range(s) => IsInjective(Insert(s, k, t))
    BY <2>1, InsertFacts, Zenon
  <2> QED BY <1>2, <1>5, <2>2
<1> HIDE DEF new
<1>8. ASSUME NEW i \in 1..Len(new), NEW j \in 1..Len(new), i < j
      PROVE  due[new[i]] <= due[new[j]]
  <2>0. i \in 1..(Len(s) + 1) /\ j \in 1..(Len(s) + 1) /\ k \in 1..(Len(s) + 1)
        /\ Len(s) \in Nat /\ i < j
    BY <1>2, <1>6, <1>7, <1>8
  <2>1. CASE i < k /\ j < k
    <3>1. i \in 1..(k - 1) /\ j \in 1..(k - 1) /\ i \in 1..Len(s) /\ j \in 1..Len(s)
      BY <2>0, <2>1
    <3> QED BY <1>4, <1>7, <2>0, <3>1
  <2>2. CASE i < k /\ j = k
    <3>1. i \in 1..(k - 1)
      BY <2>0, <2>2
    <3> QED BY <1>2, <1>6, <1>7, <2>2, <3>1
  <2>3. CASE i < k /\ j > k
    <3>1. i \in 1..(k - 1) /\ j \in (k + 1)..(Len(s) + 1)
          /\ i \in 1..Len(s) /\ j - 1 \in 1..Len(s) /\ i < j - 1
      BY <2>0, <2>3
    <3> QED BY <1>4, <1>7, <3>1
  <2>4. CASE i = k /\ j > k
    <3>1. j \in (k + 1)..(Len(s) + 1) /\ k \in 1..Len(s) /\ j - 1 \in 1..Len(s)
          /\ (k = j - 1 \/ k < j - 1)
      BY <2>0, <2>4
    <3>2. due[s[k]] > at /\ due[s[k]] \in Nat /\ due[s[j - 1]] \in Nat
      BY <1>3, <1>6, <3>1
    <3>3. due[s[k]] <= due[s[j - 1]]
      BY <1>4, <3>1, <3>2
    <3>4. new[i] = t /\ new[j] = s[j - 1]
      BY <1>7, <2>4, <3>1
    <3> QED BY <1>2, <3>2, <3>3, <3>4
  <2>5. CASE i > k
    <3>1. i \in (k + 1)..(Len(s) + 1) /\ j \in (k + 1)..(Len(s) + 1)
          /\ i - 1 \in 1..Len(s) /\ j - 1 \in 1..Len(s) /\ i - 1 < j - 1
      BY <2>0, <2>5
    <3>2. due[s[i - 1]] <= due[s[j - 1]]
      BY <1>4, <3>1
    <3>3. new[i] = s[i - 1] /\ new[j] = s[j - 1]
      BY <1>7, <3>1
    <3> QED BY <3>2, <3>3
  <2> QED BY <2>0, <2>1, <2>2, <2>3, <2>4, <2>5
<1>9. Sorted([sq |-> new, when |-> due])
  BY <1>2, <1>7, <1>8 DEF Sorted
<1> QED BY <1>1, <1>7, <1>9 DEF s, due

\* One step of the fold that registers timers.
Registered(r, due, f, s) ==
  IF s = {} THEN r
  ELSE LET t == CHOOSE x \in s : TRUE IN sq_register(f[s \ {t}], t, due[t])

\* The recursive function of the fold exists.
LEMMA RegisteredExists ==
  ASSUME NEW r, NEW S, IsFiniteSet(S), NEW due
  PROVE  \E f : f = [s \in SUBSET S |-> Registered(r, due, f, s)]
<1> DEFINE ok == {n \in Nat : \E f : f = [s \in Small(S, n) |-> Registered(r, due, f, s)]}
<1>0. \A s \in SUBSET S : IsFiniteSet(s) /\ Cardinality(s) \in Nat
                          /\ (Cardinality(s) = 0 => s = {})
  BY FS_Subset, FS_CardinalityType, FS_EmptySet
<1>1. 0 \in ok
  <2> DEFINE f == [s \in Small(S, 0) |-> r]
  <2>1. ASSUME NEW s \in Small(S, 0) PROVE s = {}
    <3>1. s \in SUBSET S /\ Cardinality(s) <= 0
      BY DEF Small
    <3> QED BY <1>0, <3>1
  <2>2. f = [s \in Small(S, 0) |-> Registered(r, due, f, s)]
    BY <2>1 DEF Registered
  <2> HIDE DEF f
  <2> QED BY <2>2
<1>2. ASSUME NEW n \in Nat, n \in ok PROVE n + 1 \in ok
  <2>1. PICK f : f = [s \in Small(S, n) |-> Registered(r, due, f, s)]
    BY <1>2
  <2> DEFINE g == [s \in Small(S, n + 1) |-> Registered(r, due, f, s)]
  <2>2. ASSUME NEW s \in Small(S, n + 1) PROVE g[s] = Registered(r, due, g, s)
    <3>0. s \in SUBSET S /\ Cardinality(s) <= n + 1
      BY DEF Small
    <3>1. CASE s = {}
      BY <3>1 DEF Registered
    <3>2. CASE s # {}
      <4> DEFINE t == CHOOSE x \in s : TRUE
      <4>1. /\ s \ {t} \in SUBSET S /\ Cardinality(s) \in Nat
            /\ Cardinality(s \ {t}) = Cardinality(s) - 1
        BY <3>0, <3>2, SmallStep
      <4>2. s \ {t} \in Small(S, n) /\ s \ {t} \in Small(S, n + 1)
        BY <3>0, <4>1 DEF Small
      <4>3. f[s \ {t}] = g[s \ {t}]
        BY <2>1, <4>2
      <4>4. /\ Registered(r, due, f, s) = sq_register(f[s \ {t}], t, due[t])
            /\ Registered(r, due, g, s) = sq_register(g[s \ {t}], t, due[t])
        BY <3>2 DEF Registered
      <4> QED BY <4>3, <4>4
    <3> QED BY <3>1, <3>2
  <2>3. g = [s \in Small(S, n + 1) |-> Registered(r, due, g, s)]
    BY <2>2
  <2> HIDE DEF g
  <2> QED BY <2>3
<1> HIDE DEF ok
<1>3. Nat \subseteq ok
  BY <1>1, <1>2, NatSetInduction
<1>4. Cardinality(S) \in Nat
  BY FS_CardinalityType
<1>5. Small(S, Cardinality(S)) = SUBSET S
  <2>1. \A s \in SUBSET S : Cardinality(s) <= Cardinality(S)
    BY FS_Subset
  <2> QED BY <2>1 DEF Small
<1> QED BY <1>3, <1>4, <1>5 DEF ok

\* Timers that are not in the queue are registered one after another.
LEMMA RegisterAllFacts ==
  ASSUME NEW r, Sorted(r), NEW S, IsFiniteSet(S), S \subseteq Timers,
         S \cap Range(r.sq) = {}, NEW due \in [S -> Nat]
  PROVE  LET q == RegisterAll(r, S, due)
         IN  /\ Sorted(q)
             /\ Range(q.sq) = Range(r.sq) \cup S
             /\ q.when = [t \in Timers |-> IF t \in S THEN due[t] ELSE r.when[t]]
<1> DEFINE F == CHOOSE f : f = [s \in SUBSET S |-> Registered(r, due, f, s)]
           Done(q, s) ==
             /\ Sorted(q)
             /\ Range(q.sq) = Range(r.sq) \cup s
             /\ q.when = [t \in Timers |-> IF t \in s THEN due[t] ELSE r.when[t]]
<1>1. RegisterAll(r, S, due) = F[S]
  BY DEF RegisterAll, FoldSet, MapThenFoldSet, Registered
<1>2. F = [s \in SUBSET S |-> Registered(r, due, F, s)]
  BY RegisteredExists
<1> HIDE DEF F
<1> DEFINE ok == {n \in Nat : \A s \in SUBSET S : Cardinality(s) = n => Done(F[s], s)}
<1>3. 0 \in ok
  <2> SUFFICES ASSUME NEW s \in SUBSET S, Cardinality(s) = 0
               PROVE  Done(F[s], s)
    OBVIOUS
  <2>1. s = {}
    BY FS_Subset, FS_EmptySet
  <2>2. F[s] = r
    BY <1>2, <2>1 DEF Registered
  <2>3. r.when = [t \in Timers |-> r.when[t]]
    BY DEF Sorted
  <2> QED BY <2>1, <2>2, <2>3
<1>4. ASSUME NEW n \in Nat, n \in ok PROVE n + 1 \in ok
  <2> SUFFICES ASSUME NEW s \in SUBSET S, Cardinality(s) = n + 1
               PROVE  Done(F[s], s)
    OBVIOUS
  <2> DEFINE t == CHOOSE x \in s : TRUE
             p == F[s \ {t}]
  <2>1. s # {}
    <3>1. Cardinality({}) = 0
      BY FS_EmptySet
    <3> QED BY <3>1
  <2>2. t \in s /\ s \ {t} \in SUBSET S /\ Cardinality(s \ {t}) = n
    <3>1. t \in s /\ s \ {t} \in SUBSET S /\ Cardinality(s \ {t}) = Cardinality(s) - 1
      BY <2>1, SmallStep
    <3>2. (n + 1) - 1 = n
      OBVIOUS
    <3> HIDE DEF t
    <3> QED BY <3>1, <3>2
  <2>3. Done(p, s \ {t})
    BY <1>4, <2>2
  <2>4. F[s] = sq_register(p, t, due[t])
    BY <1>2, <2>1 DEF Registered
  <2> HIDE DEF p, t
  <2>5. t \in Timers /\ due[t] \in Nat /\ t \notin Range(p.sq)
    BY <2>2, <2>3
  <2> DEFINE q == sq_register(p, t, due[t])
  <2>6. Sorted(q) /\ Range(q.sq) = Range(p.sq) \cup {t} /\ q.when = [p.when EXCEPT ![t] = due[t]]
    BY <2>3, <2>5, RegisterFacts
  <2> HIDE DEF q
  <2>7. Range(q.sq) = Range(r.sq) \cup s
    BY <2>2, <2>3, <2>6
  <2>8. q.when = [u \in Timers |-> IF u \in s THEN due[u] ELSE r.when[u]]
    BY <2>2, <2>3, <2>5, <2>6
  <2> QED BY <2>4, <2>6, <2>7, <2>8 DEF q
<1> HIDE DEF ok
<1>5. Nat \subseteq ok
  BY <1>3, <1>4, NatSetInduction
<1>6. Done(F[S], S)
  BY <1>5, FS_CardinalityType DEF ok
<1> QED BY <1>1, <1>6

\* The queue without its first timer.
LEMMA TailFacts ==
  ASSUME NEW T, NEW s \in Seq(T), s # << >>, IsInjective(s)
  PROVE  /\ Tail(s) \in Seq(T) /\ Len(Tail(s)) = Len(s) - 1
         /\ \A i \in 1..(Len(s) - 1) : Tail(s)[i] = s[i + 1]
         /\ Head(s) \in Range(s) /\ Head(s) = s[1]
         /\ Range(Tail(s)) = Range(s) \ {Head(s)}
         /\ IsInjective(Tail(s))
<1>1. /\ Tail(s) \in Seq(T) /\ Len(Tail(s)) = Len(s) - 1
      /\ \A i \in 1..(Len(s) - 1) : Tail(s)[i] = s[i + 1]
      /\ DOMAIN Tail(s) = 1..(Len(s) - 1) /\ DOMAIN s = 1..Len(s)
      /\ Len(s) \in Nat /\ Len(s) # 0 /\ Head(s) = s[1]
  OBVIOUS
<1> DEFINE u == Tail(s)
<1> HIDE DEF u
<1>2. 1 \in DOMAIN s /\ Head(s) \in Range(s)
  BY <1>1 DEF Range
<1>3. IsInjective(u)
  <2> SUFFICES ASSUME NEW i \in DOMAIN u, NEW j \in DOMAIN u, u[i] = u[j]
               PROVE  i = j
    BY DEF IsInjective
  <2>1. i \in 1..(Len(s) - 1) /\ j \in 1..(Len(s) - 1)
    BY <1>1 DEF u
  <2>2. i + 1 \in DOMAIN s /\ j + 1 \in DOMAIN s /\ s[i + 1] = s[j + 1]
    BY <1>1, <2>1 DEF u
  <2>3. i + 1 = j + 1
    BY <2>2 DEF IsInjective
  <2> QED BY <2>1, <2>3
<1>4. ASSUME NEW x \in Range(u) PROVE x \in Range(s) \ {Head(s)}
  <2>1. PICK i \in DOMAIN u : x = u[i]
    BY DEF Range
  <2>2. i \in 1..(Len(s) - 1)
    BY <1>1 DEF u
  <2>3. i + 1 \in DOMAIN s /\ i + 1 # 1 /\ x = s[i + 1]
    BY <1>1, <2>1, <2>2 DEF u
  <2>4. x # s[1]
    BY <1>2, <2>3 DEF IsInjective
  <2> QED BY <1>1, <2>3, <2>4 DEF Range
<1>5. ASSUME NEW x \in Range(s) \ {Head(s)} PROVE x \in Range(u)
  <2>1. PICK i \in DOMAIN s : x = s[i]
    BY DEF Range
  <2>2. i # 1
    BY <1>1, <2>1
  <2>3. i - 1 \in 1..(Len(s) - 1) /\ (i - 1) + 1 = i
    BY <1>1, <2>1, <2>2
  <2>4. u[i - 1] = x /\ i - 1 \in DOMAIN u
    BY <1>1, <2>1, <2>3 DEF u
  <2> QED BY <2>4 DEF Range
<1> QED BY <1>1, <1>2, <1>3, <1>4, <1>5 DEF u

\* The warnings that fit are registered, each before the dump.
LEMMA WarningFacts ==
  ASSUME NEW r, Sorted(r), Warnings \cap Range(r.sq) = {}, NEW at \in Nat, NEW n \in Nat
  PROVE  LET q == reg_dbsave_warnings(r, at, n)
         IN  /\ Sorted(q)
             /\ Range(q.sq) \subseteq Range(r.sq) \cup Warnings
             /\ Range(r.sq) \subseteq Range(q.sq)
             /\ \A t \in Range(q.sq) \cap Warnings : q.when[t] < at + n
<1> DEFINE fit == {t \in Warnings : Lead[t] < n}
           due == [t \in fit |-> at + n - Lead[t]]
           q == RegisterAll(r, fit, due)
<1>1. reg_dbsave_warnings(r, at, n) = q
  BY DEF reg_dbsave_warnings
<1>2. /\ fit \subseteq Timers /\ IsFiniteSet(fit) /\ fit \cap Range(r.sq) = {}
      /\ fit \subseteq Warnings
  BY TimerAssumption, FS_Subset DEF Timers
<1>3. \A t \in fit : at + n - Lead[t] \in Nat /\ at + n - Lead[t] < at + n
  <2>1. \A t \in Warnings : Lead[t] \in Nat \ {0}
    BY TimerAssumption
  <2> QED BY <2>1
<1>4. due \in [fit -> Nat] /\ \A t \in fit : due[t] < at + n
  BY <1>3
<1> HIDE DEF fit, due
<1>5. /\ Sorted(q) /\ Range(q.sq) = Range(r.sq) \cup fit
      /\ q.when = [t \in Timers |-> IF t \in fit THEN due[t] ELSE r.when[t]]
  BY <1>2, <1>4, RegisterAllFacts
<1> HIDE DEF q
<1>6. \A t \in Range(q.sq) \cap Warnings : q.when[t] < at + n
  <2>1. \A t \in Range(q.sq) \cap Warnings : t \in fit /\ t \in Timers
    BY <1>2, <1>5
  <2> QED BY <1>4, <1>5, <2>1
<1> QED BY <1>1, <1>2, <1>5, <1>6

\* The system queue is well formed, loops are in it, and warnings only before
\* the dump that they announce.
Events(r) ==
  /\ Sorted(r)
  /\ \A t \in Range(r.sq) \cap Warnings :
       dbsave \in Range(r.sq) /\ r.when[t] < r.when[dbsave]

EventInv ==
  /\ Events([sq |-> sq, when |-> when])
  /\ Loops \subseteq Range(sq)
  /\ interval \in [Loops \cup Optional -> Nat]

\* A timer that is no warning is registered; the dump, after its warnings.
LEMMA RegisterEvents ==
  ASSUME NEW r, Sorted(r), NEW t \in Loops \cup Optional, t \notin Range(r.sq), NEW at \in Nat,
         \A u \in Range(r.sq) \cap Warnings :
           (dbsave \in Range(r.sq) /\ r.when[u] < r.when[dbsave])
             \/ (t = dbsave /\ r.when[u] < at)
  PROVE  LET q == sq_register(r, t, at)
         IN  Events(q) /\ Range(q.sq) = Range(r.sq) \cup {t}
<1> DEFINE q == sq_register(r, t, at)
<1>1. t \in Timers /\ t \notin Warnings
  BY TimerAssumption DEF Timers
<1>2. Sorted(q) /\ Range(q.sq) = Range(r.sq) \cup {t} /\ q.when = [r.when EXCEPT ![t] = at]
  BY <1>1, RegisterFacts
<1> HIDE DEF q
<1>3. ASSUME NEW u \in Range(q.sq) \cap Warnings
      PROVE  dbsave \in Range(q.sq) /\ q.when[u] < q.when[dbsave]
  <2>1. u \in Range(r.sq) \cap Warnings /\ u # t /\ q.when[u] = r.when[u]
    BY <1>1, <1>2 DEF Sorted
  <2>2. r.when \in [Timers -> Nat]
    BY DEF Sorted
  <2>3. CASE dbsave \in Range(r.sq) /\ r.when[u] < r.when[dbsave]
    <3>1. dbsave # t
      BY <2>3
    <3>2. q.when[dbsave] = r.when[dbsave]
      BY <1>2, <3>1, <2>2
    <3> QED BY <1>2, <2>1, <2>3, <3>2
  <2>4. CASE t = dbsave /\ r.when[u] < at
    <3>1. q.when[dbsave] = at
      BY <1>1, <1>2, <2>2, <2>4
    <3> QED BY <1>2, <2>1, <2>4, <3>1
  <2> QED BY <2>1, <2>3, <2>4
<1> QED BY <1>2, <1>3 DEF q, Events

\* A timer that runs leaves the queue in order; a loop registers itself again.
LEMMA RerunFacts ==
  ASSUME EventInv, sq # << >>, NEW at \in Nat
  PROVE  LET r == Rerun([sq |-> Tail(sq), when |-> when], Head(sq), at)
         IN  Events(r) /\ Loops \subseteq Range(r.sq)
<1> DEFINE r == [sq |-> Tail(sq), when |-> when]
           t == Head(sq)
<1>1. /\ sq \in Seq(Timers) /\ when \in [Timers -> Nat] /\ IsInjective(sq)
      /\ \A i, j \in 1..Len(sq) : i < j => when[sq[i]] <= when[sq[j]]
      /\ Len(sq) \in Nat
  BY DEF EventInv, Events, Sorted
<1>2. /\ Tail(sq) \in Seq(Timers) /\ Len(Tail(sq)) = Len(sq) - 1
      /\ \A i \in 1..(Len(sq) - 1) : Tail(sq)[i] = sq[i + 1]
      /\ Head(sq) \in Range(sq) /\ Head(sq) = sq[1]
      /\ Range(Tail(sq)) = Range(sq) \ {Head(sq)}
      /\ IsInjective(Tail(sq))
  BY <1>1, TailFacts
<1>3. Sorted(r)
  <2>1. ASSUME NEW i \in 1..Len(Tail(sq)), NEW j \in 1..Len(Tail(sq)), i < j
        PROVE  when[Tail(sq)[i]] <= when[Tail(sq)[j]]
    <3>1. i + 1 \in 1..Len(sq) /\ j + 1 \in 1..Len(sq) /\ i + 1 < j + 1
          /\ i \in 1..(Len(sq) - 1) /\ j \in 1..(Len(sq) - 1)
      BY <1>1, <1>2, <2>1
    <3> QED BY <1>1, <1>2, <3>1
  <2> QED BY <1>1, <1>2, <2>1 DEF Sorted
<1>4. t \in Timers /\ t \notin Range(r.sq) /\ Range(r.sq) = Range(sq) \ {t}
  <2>1. \A u \in Range(sq) : u \in Timers
    BY <1>1 DEF Range
  <2> QED BY <1>2, <2>1
<1>5. \A u \in Range(sq) : when[t] <= when[u] /\ when[t] \in Nat /\ when[u] \in Nat
  <2> SUFFICES ASSUME NEW u \in Range(sq)
               PROVE  when[t] <= when[u] /\ when[t] \in Nat /\ when[u] \in Nat
    OBVIOUS
  <2>1. PICK i \in 1..Len(sq) : u = sq[i]
    BY <1>1 DEF Range
  <2>2. 1 \in 1..Len(sq) /\ (i = 1 \/ 1 < i)
    BY <1>1, <2>1
  <2>3. u \in Timers /\ when[t] \in Nat /\ when[u] \in Nat
    BY <1>1, <1>4, <2>1
  <2> QED BY <1>1, <1>2, <2>1, <2>2, <2>3
<1>6. \A u \in Range(sq) \cap Warnings : dbsave \in Range(sq) /\ when[u] < when[dbsave]
  BY DEF EventInv, Events
<1>7. Loops \subseteq Range(r.sq) \cup {t}
  BY <1>4 DEF EventInv
<1>8. r.when = when
  OBVIOUS
<1> HIDE DEF r, t
\* The dump is the last of its warnings.
<1>9. t = dbsave => Range(sq) \cap Warnings = {}
  BY <1>5, <1>6
<1>10. t # dbsave => Events(r)
  BY <1>3, <1>4, <1>6, <1>8 DEF Events
<1>11. t = dbsave => Warnings \cap Range(r.sq) = {}
  BY <1>4, <1>9
<1>12. Events(r)
  BY <1>3, <1>10, <1>11 DEF Events
<1>13. CASE t \in Warnings \/ (t \in Optional /\ interval[t] = 0)
  <2>1. t \notin Loops
    BY <1>13, TimerAssumption
  <2>2. Rerun(r, t, at) = r
    BY <1>13 DEF Rerun
  <2> QED BY <1>7, <1>12, <2>1, <2>2 DEF r, t
<1>14. CASE ~(t \in Warnings \/ (t \in Optional /\ interval[t] = 0))
  <2>1. t \in Loops \cup Optional /\ interval[t] \in Nat
    BY <1>4, <1>14 DEF Timers, EventInv
  <2> DEFINE n == interval[t]
             p == IF t = dbsave THEN reg_dbsave_warnings(r, at, n) ELSE r
             q == sq_register(p, t, at + n)
  <2>2. Rerun(r, t, at) = q
    BY <1>14 DEF Rerun
  <2>3. at + n \in Nat
    BY <2>1
  <2> HIDE DEF n
  <2>4. /\ Sorted(p) /\ t \notin Range(p.sq) /\ Range(r.sq) \subseteq Range(p.sq)
        /\ \A u \in Range(p.sq) \cap Warnings :
             (dbsave \in Range(p.sq) /\ p.when[u] < p.when[dbsave])
               \/ (t = dbsave /\ p.when[u] < at + n)
    <3>1. CASE t = dbsave
      <4>1. t \notin Warnings
        BY <1>14
      <4>2. p = reg_dbsave_warnings(r, at, n)
        BY <3>1
      <4> HIDE DEF p
      <4>3. /\ Sorted(p) /\ Range(p.sq) \subseteq Range(r.sq) \cup Warnings
            /\ Range(r.sq) \subseteq Range(p.sq)
            /\ \A u \in Range(p.sq) \cap Warnings : p.when[u] < at + n
        BY <1>3, <1>11, <2>1, <3>1, <4>2, WarningFacts DEF n
      <4> QED BY <1>4, <3>1, <4>1, <4>3
    <3>2. CASE t # dbsave
      BY <1>4, <1>12, <3>2 DEF Events
    <3> QED BY <3>1, <3>2
  <2> HIDE DEF p
  <2>5. Events(q) /\ Range(q.sq) = Range(p.sq) \cup {t}
    BY <2>1, <2>3, <2>4, RegisterEvents
  <2> HIDE DEF q
  <2>6. Loops \subseteq Range(q.sq)
    BY <1>7, <2>4, <2>5
  <2> QED BY <2>2, <2>5, <2>6 DEF r, t
<1> QED BY <1>13, <1>14

\* A step that leaves the system queue alone keeps the invariant.
LEMMA NoEventStep ==
  ASSUME EventInv, UNCHANGED <<sq, when>>, interval' \in {interval} \cup Configured
  PROVE  EventInv'
<1>1. interval' \in [Loops \cup Optional -> Nat]
  BY TimerAssumption DEF EventInv, Configured
<1> QED BY <1>1 DEF EventInv, Events, Sorted

\* init_sys_events() sets up a queue that is well formed.
LEMMA InitEventInv == Init => EventInv
<1> SUFFICES ASSUME Init PROVE EventInv
  OBVIOUS
<1> DEFINE at == Start
           none == [sq |-> << >>, when |-> [t \in Timers |-> 0]]
           on == Loops \cup {t \in Optional : InitInterval[t] > 0}
           warned == IF dbsave \in on
                     THEN reg_dbsave_warnings(none, at, InitInterval[dbsave])
                     ELSE none
           due == [t \in on |-> at + InitInterval[t]]
           q == RegisterAll(warned, on, due)
<1>1. init_sys_events(Start) = q
  BY DEF init_sys_events
<1>2. at \in Nat
  BY ClockAssumption DEF Start
<1> HIDE DEF at
<1>3. /\ on \subseteq Timers /\ on \cap Warnings = {} /\ IsFiniteSet(on)
      /\ Loops \subseteq on
      /\ \A t \in on : InitInterval[t] \in Nat
  <2>1. on \subseteq Loops \cup Optional /\ on \subseteq Timers
    BY DEF Timers
  <2>2. IsFiniteSet(on)
    BY <2>1, TimerAssumption, FS_Subset
  <2> QED BY <2>1, <2>2, TimerAssumption
<1>4. due \in [on -> Nat] /\ \A t \in on : due[t] = at + InitInterval[t]
  BY <1>2, <1>3
<1> HIDE DEF on, due
<1>5. Sorted(none) /\ Range(none.sq) = {}
  <2>1. << >> \in Seq(Timers) /\ Len(<< >>) = 0 /\ DOMAIN << >> = {}
    OBVIOUS
  <2>2. IsInjective(<< >>) /\ Range(<< >>) = {}
    BY <2>1 DEF IsInjective, Range
  <2>3. [t \in Timers |-> 0] \in [Timers -> Nat]
    OBVIOUS
  <2> QED BY <2>1, <2>2, <2>3 DEF Sorted
<1> HIDE DEF none
<1>6. /\ Sorted(warned) /\ Range(warned.sq) \subseteq Warnings
      /\ \A t \in Range(warned.sq) \cap Warnings :
           dbsave \in on /\ warned.when[t] < at + InitInterval[dbsave]
  <2>1. CASE dbsave \in on
    <3>1. warned = reg_dbsave_warnings(none, at, InitInterval[dbsave])
      BY <2>1
    <3> HIDE DEF warned
    <3>2. Warnings \cap Range(none.sq) = {} /\ InitInterval[dbsave] \in Nat
      BY <1>3, <1>5, <2>1
    <3>3. /\ Sorted(warned) /\ Range(warned.sq) \subseteq Range(none.sq) \cup Warnings
          /\ \A t \in Range(warned.sq) \cap Warnings :
               warned.when[t] < at + InitInterval[dbsave]
      BY <1>2, <1>5, <3>1, <3>2, WarningFacts
    <3> QED BY <1>5, <2>1, <3>3
  <2>2. CASE dbsave \notin on
    BY <1>5, <2>2
  <2> QED BY <2>1, <2>2
<1> HIDE DEF warned
<1>7. on \cap Range(warned.sq) = {}
  BY <1>3, <1>6
<1>8. /\ Sorted(q) /\ Range(q.sq) = Range(warned.sq) \cup on
      /\ q.when = [t \in Timers |-> IF t \in on THEN due[t] ELSE warned.when[t]]
  BY <1>3, <1>4, <1>6, <1>7, RegisterAllFacts
<1> HIDE DEF q
<1>9. ASSUME NEW t \in Range(q.sq) \cap Warnings
      PROVE  dbsave \in Range(q.sq) /\ q.when[t] < q.when[dbsave]
  <2>1. t \in Range(warned.sq) \cap Warnings /\ t \notin on
    BY <1>3, <1>8
  <2>2. dbsave \in on /\ warned.when[t] < at + InitInterval[dbsave]
    BY <1>6, <2>1
  <2>3. dbsave \in Timers /\ t \in Timers
    BY <1>3, <2>2 DEF Timers
  <2>4. q.when[dbsave] = at + InitInterval[dbsave] /\ q.when[t] = warned.when[t]
    BY <1>4, <1>8, <2>1, <2>2, <2>3
  <2> QED BY <1>8, <2>2, <2>4
<1>10. Events(q)
  BY <1>8, <1>9 DEF Events
<1>11. sq = q.sq /\ when = q.when /\ interval = InitInterval
  BY <1>1 DEF Init
<1>12. Events([sq |-> sq, when |-> when])
  BY <1>10, <1>11 DEF Events, Sorted
<1> QED BY <1>3, <1>8, <1>11, <1>12, TimerAssumption DEF EventInv

\* Every step keeps the invariant of the system queue.
LEMMA NextEventInv == IInv /\ EventInv /\ [Next]_vars => EventInv'
<1> SUFFICES ASSUME IInv, EventInv, [Next]_vars PROVE EventInv'
  OBVIOUS
<1> USE DEF timers
<1>1. CASE Timeout
  BY <1>1, NoEventStep DEF Timeout
<1>2. CASE Wake
  BY <1>2, NoEventStep DEF Wake, Sleep
<1>3. CASE ReadLines
  BY <1>3, NoEventStep DEF ReadLines, Sleep
<1>4. CASE ReadRequest
  BY <1>4, NoEventStep DEF ReadRequest, Sleep
<1>5. ASSUME NEW s \in Kinds, Signal(s) PROVE EventInv'
  BY <1>5, NoEventStep DEF Signal
<1>6. CASE SkipFlag
  BY <1>6, NoEventStep DEF SkipFlag
<1>7. CASE HandleFlag
  BY <1>7, NoEventStep DEF HandleFlag
<1>8. CASE ClearFlag
  BY <1>8, NoEventStep DEF ClearFlag
<1>9. CASE RunLine
  BY <1>9, NoEventStep DEF RunLine, Command
<1>10. CASE RunRequest
  BY <1>10, NoEventStep DEF RunRequest, Command
<1>11. CASE CommandsDone
  BY <1>11, NoEventStep DEF CommandsDone
<1>12. CASE QueueUpdate
  BY <1>12, NoEventStep DEF QueueUpdate
<1>13. CASE DoTop
  BY <1>13, NoEventStep DEF DoTop, Command
<1>14. CASE TopDone
  BY <1>14, NoEventStep DEF TopDone
<1>15. CASE RunTimer
  <2> DEFINE r(at) == Rerun([sq |-> Tail(sq), when |-> when], Head(sq), at)
  <2>1. sq # << >> /\ interval' = interval
    BY <1>15 DEF RunTimer
  <2>2. PICK at \in now..Min({MaxNow, now + MaxWork}) : sq' = r(at).sq /\ when' = r(at).when
    BY <1>15 DEF RunTimer
  <2>3. at \in Nat
    BY <2>2 DEF IInv, ClockInv
  <2>4. Events(r(at)) /\ Loops \subseteq Range(r(at).sq)
    BY <2>1, <2>3, RerunFacts
  <2> HIDE DEF r
  <2>5. Events([sq |-> sq', when |-> when'])
    BY <2>2, <2>4 DEF Events, Sorted
  <2> QED BY <2>1, <2>2, <2>4, <2>5 DEF EventInv, Events, Sorted
<1>16. CASE CleanDescriptors
  BY <1>16, NoEventStep DEF CleanDescriptors
<1>17. CASE UpdateQuotas
  BY <1>17, NoEventStep DEF UpdateQuotas
<1>18. CASE UNCHANGED vars
  BY <1>18, NoEventStep DEF vars
<1> QED
  BY <1>1, <1>2, <1>3, <1>4, <1>5, <1>6, <1>7, <1>8, <1>9, <1>10, <1>11,
     <1>12, <1>13, <1>14, <1>15, <1>16, <1>17, <1>18 DEF Next, Loop

\* The system queue stays sorted and free of duplicates, however timers
\* register themselves and others while they run and @config turns them off;
\* loops never drop out, and a warning is never left without its dump.
THEOREM Timetable == Spec => []SystemQueue
<1>1. Init => IInv /\ EventInv
  BY InitIInv, InitEventInv
<1>2. IInv /\ EventInv /\ [Next]_vars => (IInv /\ EventInv)'
  BY NextIInv, NextEventInv
<1>3. EventInv => SystemQueue
  <2> SUFFICES ASSUME EventInv PROVE SystemQueue
    OBVIOUS
  <2>1. /\ sq \in Seq(Timers) /\ IsInjective(sq)
        /\ \A i, j \in 1..Len(sq) : i < j => when[sq[i]] <= when[sq[j]]
        /\ \A t \in Range(sq) \cap Warnings : dbsave \in Range(sq)
        /\ Loops \subseteq Range(sq)
    BY DEF EventInv, Events, Sorted
  <2>2. DOMAIN sq = 1..Len(sq)
    BY <2>1
  <2>3. \A i, j \in DOMAIN sq : i < j => sq[i] # sq[j]
    BY <2>1, <2>2 DEF IsInjective
  <2> QED BY <2>1, <2>2, <2>3 DEF SystemQueue
<1> QED BY <1>1, <1>2, <1>3, PTL DEF Spec

-----------------------------------------------------------------------------
\* The queues of entries, and the timeout.

\* Whole seconds grow with milliseconds.
LEMMA DivFacts ==
  ASSUME NEW a \in Nat, NEW b \in Nat, NEW m \in Nat \ {0}, a <= b
  PROVE  /\ a \div m \in Nat
         /\ a \div m <= b \div m
         /\ a \div m <= a
         /\ m <= a => 1 <= a \div m
OBVIOUS

\* Min of numbers that are not negative is the least of them.
LEMMA MinOfNats ==
  ASSUME NEW S \in SUBSET Nat, S # {}
  PROVE  Min(S) \in S /\ \A x \in S : Min(S) <= x
<1>1. \E x \in S : \A y \in S : x <= y
  BY LeastElement
<1> QED BY <1>1 DEF Min

\* A finite set of integers has a least one.
LEMMA MinOfInts ==
  ASSUME NEW S \in SUBSET Int, IsFiniteSet(S), S # {}
  PROVE  Min(S) \in S /\ \A x \in S : Min(S) <= x
<1> DEFINE has(T) == \E x \in T : \A y \in T : x <= y
           ok == {n \in Nat : \A T \in SUBSET S : Cardinality(T) = n + 1 => has(T)}
<1>0. \A T \in SUBSET S : IsFiniteSet(T) /\ Cardinality(T) \in Nat
                          /\ (Cardinality(T) = 0 <=> T = {})
  BY FS_Subset, FS_CardinalityType, FS_EmptySet
<1>1. ASSUME NEW n \in Nat, NEW T \in SUBSET S, Cardinality(T) = n + 1,
             \A U \in SUBSET S : n # 0 /\ Cardinality(U) = n => has(U)
      PROVE  has(T)
  <2>1. T # {}
    <3>1. Cardinality({}) = 0
      BY FS_EmptySet
    <3> QED BY <1>1, <3>1
  <2>2. PICK x \in T : TRUE
    BY <2>1
  <2> DEFINE U == T \ {x}
  <2>3. Cardinality(U) = n /\ U \in SUBSET S
    <3>1. IsFiniteSet(T) /\ x \in T
      BY <1>0
    <3>2. Cardinality(U) = Cardinality(T) - 1
      BY <3>1, FS_RemoveElement
    <3>3. (n + 1) - 1 = n
      OBVIOUS
    <3> QED BY <1>1, <3>2, <3>3
  <2>4. CASE n = 0
    <3>1. U = {}
      BY <1>0, <2>3, <2>4
    <3>2. \A y \in T : y = x
      BY <3>1
    <3> QED BY <3>2
  <2>5. CASE n # 0
    <3>1. PICK z \in U : \A y \in U : z <= y
      BY <1>1, <2>3, <2>5
    <3>2. x \in Int /\ z \in Int /\ \A y \in T : y \in Int
      OBVIOUS
    <3>3. CASE x <= z
      <4>1. \A y \in T : x <= y
        BY <3>1, <3>2, <3>3
      <4> QED BY <4>1
    <3>4. CASE z <= x
      <4>1. \A y \in T : z <= y
        BY <3>1, <3>2, <3>4
      <4> QED BY <4>1
    <3> QED BY <3>2, <3>3, <3>4
  <2> QED BY <2>4, <2>5
<1> HIDE DEF has
<1>2. 0 \in ok
  BY <1>1
<1>3. ASSUME NEW n \in Nat, n \in ok PROVE n + 1 \in ok
  <2>1. n + 1 \in Nat
    OBVIOUS
  <2>2. \A U \in SUBSET S : Cardinality(U) = n + 1 => has(U)
    BY <1>3
  <2>3. \A T \in SUBSET S : Cardinality(T) = (n + 1) + 1 => has(T)
    BY <1>1, <2>1, <2>2
  <2> QED BY <2>1, <2>3
<1> HIDE DEF ok
<1>4. Nat \subseteq ok
  BY <1>2, <1>3, NatSetInduction
<1>5. has(S)
  <2>1. Cardinality(S) \in Nat /\ Cardinality(S) # 0
    BY <1>0
  <2>2. Cardinality(S) - 1 \in Nat /\ (Cardinality(S) - 1) + 1 = Cardinality(S)
    BY <2>1
  <2>3. Cardinality(S) - 1 \in ok
    BY <1>4, <2>2
  <2> QED BY <2>2, <2>3 DEF ok
<1> QED BY <1>5 DEF has, Min

\* Where the loop is, and what it has read.
PlaceInv ==
  /\ now \in Start..MaxNow /\ window \in Start..now
  /\ pc \in {"timeout", "poll", "status", "clear", "commands", "update",
             "top", "timers", "quotas", "down"}
  /\ mudtime \in Nat /\ 1 <= mudtime /\ mudtime <= now \div MS_PER_SEC
  /\ last_mudtime \in 0..mudtime
  /\ msec_timeout \in 0..LONG_WAIT
  /\ ncom \in 0..queue_chunk
  /\ input \in [Descs -> 0..MaxInput]
  /\ http \in 0..MaxHttp

\* The queues are finite, and together not over their limit.
QueueInv ==
  /\ ready \in Nat
  /\ qwait \in SUBSET Int /\ IsFiniteSet(qwait)
  /\ qsem \in SUBSET Nat /\ IsFiniteSet(qsem)
  /\ ready + Cardinality(qwait) + Cardinality(qsem) <= MaxQueue

\* A step in which time passes, and commands or requests may be read.
LEMMA PlaceStep ==
  ASSUME PlaceInv, now' \in now..MaxNow,
         window' \in {window, now},
         pc' \in {"timeout", "poll", "status", "clear", "commands", "update",
                  "top", "timers", "quotas", "down"},
         mudtime' \in {mudtime, now \div MS_PER_SEC},
         last_mudtime' \in {last_mudtime, mudtime},
         msec_timeout' \in 0..LONG_WAIT, ncom' \in 0..queue_chunk,
         input' \in [Descs -> 0..MaxInput], http' \in 0..MaxHttp
  PROVE  PlaceInv'
<1>1. now \in Nat /\ now' \in Nat /\ now <= now' /\ MS_PER_SEC \in Nat \ {0}
      /\ MS_PER_SEC <= now /\ now' \in Start..MaxNow
  BY ClockAssumption DEF PlaceInv, Start
<1>2. /\ now \div MS_PER_SEC \in Nat /\ now \div MS_PER_SEC <= now' \div MS_PER_SEC
      /\ 1 <= now \div MS_PER_SEC /\ now' \div MS_PER_SEC \in Nat
  <2>1. ASSUME NEW t \in Nat, now <= t
        PROVE  now \div MS_PER_SEC <= t \div MS_PER_SEC /\ t \div MS_PER_SEC \in Nat
    BY <1>1, <2>1, DivFacts
  <2>2. now \div MS_PER_SEC \in Nat /\ 1 <= now \div MS_PER_SEC
    BY <1>1, DivFacts
  <2> QED BY <1>1, <2>1, <2>2
<1> DEFINE a == now \div MS_PER_SEC
           b == now' \div MS_PER_SEC
<1>3. a \in Nat /\ b \in Nat /\ a <= b /\ 1 <= a /\ mudtime \in Nat /\ mudtime <= a
      /\ 1 <= mudtime /\ last_mudtime \in 0..mudtime /\ mudtime' \in {mudtime, a}
  BY <1>2 DEF PlaceInv
<1> HIDE DEF a, b
<1>4. mudtime' \in Nat /\ 1 <= mudtime' /\ mudtime' <= b /\ mudtime <= mudtime'
  BY <1>3
<1>5. last_mudtime' \in 0..mudtime'
  BY <1>3, <1>4
<1>6. window' \in Start..now'
  BY <1>1, ClockAssumption DEF PlaceInv, Start
<1> QED BY <1>1, <1>4, <1>5, <1>6 DEF PlaceInv, b

\* Work takes time, but the clock stops at its bound.
LEMMA WorkTime ==
  ASSUME PlaceInv, NEW b \in Int, NEW t \in now..Min({MaxNow, b})
  PROVE  t \in now..MaxNow
<1>1. now \in Nat /\ MaxNow \in Int
  BY ClockAssumption DEF PlaceInv, Start
<1> DEFINE m == Min({MaxNow, b})
<1>2. m \in {MaxNow, b} /\ m <= MaxNow
  BY <1>1, MinOfTwo
<1> HIDE DEF m
<1>3. t \in now..m
  BY DEF m
<1> QED BY <1>1, <1>2, <1>3

\* A command queues, delays, releases or halts one entry at most.
LEMMA CommandQueues ==
  ASSUME QueueInv, mudtime \in Nat, NEW n \in Nat, n <= ready, Command(n)
  PROVE  QueueInv'
<1> DEFINE a == Cardinality(qwait)
           b == Cardinality(qsem)
<1>1. a \in Nat /\ b \in Nat /\ ready \in Nat /\ ready + a + b <= MaxQueue /\ MaxQueue \in Nat
  BY FS_CardinalityType, QuotaAssumption DEF QueueInv
<1>2. n + a + b <= MaxQueue
  BY <1>1
<1>3. ~Full(n) => n + a + b < MaxQueue
  BY <1>1 DEF Full
<1>4. Delays \subseteq Int
  BY ClockAssumption
<1> HIDE DEF a, b
<1>5. CASE ready' \in {n, n + 1} /\ (ready' = n + 1 => ~Full(n)) /\ UNCHANGED <<qwait, qsem>>
  <2>1. ready' \in Nat /\ ready' + a + b <= MaxQueue
    <3>1. CASE ready' = n
      BY <1>1, <1>2, <3>1
    <3>2. CASE ready' = n + 1
      <4>1. n + a + b < MaxQueue
        BY <1>3, <1>5, <3>2
      <4> QED BY <1>1, <3>2, <4>1
    <3> QED BY <1>5, <3>1, <3>2
  <2> QED BY <1>5, <2>1 DEF QueueInv, a, b
<1>6. ASSUME NEW delay \in Delays, ~Full(n), ready' = n,
             qwait' = qwait \cup {mudtime + delay}, qsem' = qsem
      PROVE  QueueInv'
  <2>1. mudtime + delay \in Int
    BY <1>4
  <2>2. IsFiniteSet(qwait') /\ Cardinality(qwait') \in {a, a + 1}
    BY <1>6, FS_AddElement DEF QueueInv, a
  <2>3. ready' + Cardinality(qwait') + b <= MaxQueue
    BY <1>1, <1>3, <1>6, <2>2
  <2> QED BY <1>6, <2>1, <2>2, <2>3 DEF QueueInv, b
<1>7. ASSUME NEW delay \in Delays \cap Nat, ~Full(n), ready' = n,
             qsem' = qsem \cup {mudtime + delay}, qwait' = qwait
      PROVE  QueueInv'
  <2>1. mudtime + delay \in Nat
    OBVIOUS
  <2>2. IsFiniteSet(qsem') /\ Cardinality(qsem') \in {b, b + 1}
    BY <1>7, FS_AddElement DEF QueueInv, b
  <2>3. ready' + a + Cardinality(qsem') <= MaxQueue
    BY <1>1, <1>3, <1>7, <2>2
  <2> QED BY <1>7, <2>1, <2>2, <2>3 DEF QueueInv, a
<1>8. ASSUME NEW w \in qsem, ready' = n + 1, qsem' = qsem \ {w}, qwait' = qwait
      PROVE  QueueInv'
  <2>2. IsFiniteSet(qsem') /\ Cardinality(qsem') = b - 1
    BY <1>8, FS_RemoveElement DEF QueueInv, b
  <2>3. ready' + a + Cardinality(qsem') <= MaxQueue
    BY <1>1, <1>2, <1>8, <2>2
  <2> QED BY <1>8, <2>2, <2>3 DEF QueueInv, a
<1>9. ASSUME NEW w \in qwait, ready' = n, qwait' = qwait \ {w}, qsem' = qsem
      PROVE  QueueInv'
  <2>2. IsFiniteSet(qwait') /\ Cardinality(qwait') = a - 1
    BY <1>9, FS_RemoveElement DEF QueueInv, a
  <2>3. ready' + Cardinality(qwait') + b <= MaxQueue
    BY <1>1, <1>2, <1>9, <2>2
  <2> QED BY <1>9, <2>2, <2>3 DEF QueueInv, b
<1>10. n # n + 1
  OBVIOUS
<1> QED BY <1>5, <1>6, <1>7, <1>8, <1>9, <1>10 DEF Command

\* queue_update() moves the entries that are due.
LEMMA UpdateQueues ==
  ASSUME QueueInv, QueueUpdate
  PROVE  QueueInv'
<1> DEFINE due(S) == {w \in S : w <= mudtime /\ mudtime # last_mudtime}
           A == due(qwait)
           B == due(qsem)
<1>1. /\ ready' = ready + Cardinality(A) + Cardinality(B)
      /\ qwait' = qwait \ A /\ qsem' = qsem \ B
  BY DEF QueueUpdate
<1>2. /\ A \in SUBSET qwait /\ B \in SUBSET qsem
      /\ qwait \cap A = A /\ qsem \cap B = B
  OBVIOUS
<1> HIDE DEF A, B
<1>3. IsFiniteSet(A) /\ IsFiniteSet(B)
  BY <1>2, FS_Subset DEF QueueInv
<1>4. /\ IsFiniteSet(qwait \ A) /\ Cardinality(qwait \ A) = Cardinality(qwait) - Cardinality(A)
      /\ IsFiniteSet(qsem \ B) /\ Cardinality(qsem \ B) = Cardinality(qsem) - Cardinality(B)
  <2>1. IsFiniteSet(qwait) /\ IsFiniteSet(qsem)
    BY DEF QueueInv
  <2>2. /\ IsFiniteSet(qwait \ A)
        /\ Cardinality(qwait \ A) = Cardinality(qwait) - Cardinality(qwait \cap A)
    BY <2>1, FS_Difference
  <2>3. /\ IsFiniteSet(qsem \ B)
        /\ Cardinality(qsem \ B) = Cardinality(qsem) - Cardinality(qsem \cap B)
    BY <2>1, FS_Difference
  <2> QED BY <1>2, <2>2, <2>3
<1>5. /\ Cardinality(A) \in Nat /\ Cardinality(B) \in Nat
      /\ Cardinality(qwait) \in Nat /\ Cardinality(qsem) \in Nat
  BY <1>3, FS_CardinalityType DEF QueueInv
<1>6. ready' \in Nat /\ ready' + Cardinality(qwait') + Cardinality(qsem') <= MaxQueue
  <2> HIDE DEF QueueInv
  <2>1. ready \in Nat /\ ready + Cardinality(qwait) + Cardinality(qsem) <= MaxQueue /\ MaxQueue \in Nat
    BY QuotaAssumption DEF QueueInv
  <2> QED BY <1>1, <1>4, <1>5, <2>1
<1> QED BY <1>1, <1>4, <1>6 DEF QueueInv

\* The time until an entry is due is not negative, and exact when it has not
\* passed.
LEMMA MsecsTillFacts ==
  ASSUME NEW w \in Int, mudtime \in Nat, NEW wraps \in BOOLEAN
  PROVE  /\ MsecsTill(w, wraps) \in Nat
         /\ w >= mudtime => MsecsTill(w, wraps) = (w - mudtime) * MS_PER_SEC
<1> DEFINE n == (w - mudtime) * MS_PER_SEC
<1>1. n \in Int /\ MS_PER_SEC \in Nat /\ UINT \in Nat /\ UINT > 0
  BY ClockAssumption
<1>2. w >= mudtime => n >= 0
  <2> SUFFICES ASSUME w >= mudtime PROVE n >= 0
    OBVIOUS
  <2>1. w - mudtime \in Nat
    OBVIOUS
  <2> QED BY <1>1, <2>1
<1> HIDE DEF n
<1>3. n % UINT \in Nat
  BY <1>1
<1>4. MsecsTill(w, wraps) = IF n >= 0 THEN n ELSE IF wraps THEN n % UINT ELSE 0
  BY DEF MsecsTill, Unsigned, n
<1>5. MsecsTill(w, wraps) \in Nat
  BY <1>1, <1>3, <1>4
<1>6. w >= mudtime => MsecsTill(w, wraps) = n
  BY <1>2, <1>4
<1> QED BY <1>5, <1>6 DEF n

\* queue_msecs_till_next() is not later than any entry, if none is overdue.
LEMMA QueueMsecsFacts ==
  ASSUME mudtime \in Nat, QueueInv, NEW wraps \in BOOLEAN
  PROVE  /\ queue_msecs_till_next(wraps) \in Nat
         /\ (\A v \in qwait \cup qsem : v >= mudtime) =>
              \A w \in qwait \cup qsem :
                queue_msecs_till_next(wraps) <= (w - mudtime) * MS_PER_SEC
<1> DEFINE W == IF qwait = {} THEN {} ELSE {MsecsTill(Min(qwait), wraps)}
           V == {MsecsTill(w, wraps) : w \in qsem}
           S == {LONG_WAIT} \cup W \cup V
           q == queue_msecs_till_next(wraps)
<1>1. q = IF ready > 0 THEN 0 ELSE Min(S)
  BY DEF queue_msecs_till_next
<1>2. qwait # {} => Min(qwait) \in qwait /\ \A x \in qwait : Min(qwait) <= x
  BY MinOfInts DEF QueueInv
<1>3. \A w \in qwait \cup qsem : w \in Int
  BY DEF QueueInv
<1>4. qwait # {} => Min(qwait) \in Int /\ MsecsTill(Min(qwait), wraps) \in Nat
  <2> SUFFICES ASSUME qwait # {} PROVE Min(qwait) \in Int /\ MsecsTill(Min(qwait), wraps) \in Nat
    OBVIOUS
  <2> DEFINE m == Min(qwait)
  <2>1. m \in Int
    BY <1>2, <1>3
  <2> HIDE DEF m
  <2>2. MsecsTill(m, wraps) \in Nat
    BY <2>1, MsecsTillFacts
  <2> QED BY <2>1, <2>2 DEF m
<1>5. W \in SUBSET Nat
  BY <1>4
<1>6. \A w \in qsem : MsecsTill(w, wraps) \in Nat
  <2>1. \A w \in qsem : w \in Int
    BY <1>3
  <2> QED BY <2>1, MsecsTillFacts
<1>7. V \in SUBSET Nat
  BY <1>6
<1> HIDE DEF W, V
<1>8. S \in SUBSET Nat /\ S # {}
  BY <1>5, <1>7, ClockAssumption
<1> HIDE DEF S
<1>9. Min(S) \in S /\ \A x \in S : Min(S) <= x
  BY <1>8, MinOfNats
<1>10. q \in Nat
  <2>1. Min(S) \in Nat
    BY <1>8, <1>9
  <2> QED BY <1>1, <2>1
<1>11. ASSUME \A v \in qwait \cup qsem : v >= mudtime, NEW w \in qwait \cup qsem
       PROVE  q <= (w - mudtime) * MS_PER_SEC
  <2>0. w \in Int /\ w >= mudtime /\ w - mudtime \in Nat /\ MS_PER_SEC \in Nat
    <3>1. w \in Int /\ w >= mudtime /\ MS_PER_SEC \in Nat
      BY <1>3, <1>11, ClockAssumption
    <3> QED BY <3>1
  <2>1. (w - mudtime) * MS_PER_SEC \in Nat
    BY <2>0
  <2>2. CASE ready > 0
    BY <1>1, <2>1, <2>2
  <2>3. CASE ~(ready > 0) /\ w \in qsem
    <3>1. MsecsTill(w, wraps) \in S
      BY <2>3 DEF S, V
    <3>2. MsecsTill(w, wraps) = (w - mudtime) * MS_PER_SEC
      BY <2>0, MsecsTillFacts
    <3> QED BY <1>1, <1>9, <2>3, <3>1, <3>2
  <2>4. CASE ~(ready > 0) /\ w \in qwait
    <3> DEFINE m == Min(qwait)
    <3>1. m \in Int /\ m >= mudtime /\ m <= w
      BY <1>2, <1>4, <1>11, <2>4
    <3>2. MsecsTill(m, wraps) \in S
      BY <2>4 DEF S, W
    <3> HIDE DEF m
    <3>3. MsecsTill(m, wraps) = (m - mudtime) * MS_PER_SEC
      BY <3>1, MsecsTillFacts
    <3>4. m - mudtime \in Nat /\ m - mudtime <= w - mudtime
      BY <2>0, <3>1
    <3>5. MS_PER_SEC * (m - mudtime) <= MS_PER_SEC * (w - mudtime)
      BY <2>0, <3>4, Growth
    <3>6. (m - mudtime) * MS_PER_SEC <= (w - mudtime) * MS_PER_SEC
      BY <2>0, <3>4, <3>5
    <3>7. (m - mudtime) * MS_PER_SEC \in Nat
      BY <2>0, <3>4
    <3> DEFINE x == (m - mudtime) * MS_PER_SEC
               y == (w - mudtime) * MS_PER_SEC
    <3>8. Min(S) <= x /\ q = Min(S)
      BY <1>1, <1>9, <2>4, <3>2, <3>3
    <3>9. x \in Nat /\ y \in Nat /\ x <= y
      BY <2>1, <3>6, <3>7
    <3> HIDE DEF x, y
    <3>10. q <= y
      BY <1>10, <3>8, <3>9
    <3> QED BY <3>10 DEF y
  <2> QED BY <2>2, <2>3, <2>4
<1> QED BY <1>10, <1>11

\* The loop's timeout has its limit, and is not later than an entry is due.
LEMMA TimeoutFacts ==
  ASSUME IInv, EventInv, PlaceInv, QueueInv, Timeout
  PROVE  /\ msec_timeout' \in 0..LONG_WAIT
         /\ (\A v \in qwait \cup qsem : v >= mudtime) =>
              \A w \in qwait \cup qsem : msec_timeout' <= (w - mudtime) * MS_PER_SEC
<1> DEFINE D == {Unsigned(MS_PER_SEC - quota[d]) : d \in Throttled}
           S(wraps) == {LONG_WAIT, queue_msecs_till_next(wraps), sq_msecs_till_next,
                        http_msecs_till_next} \cup D
<1>1. PICK wraps \in BOOLEAN : msec_timeout' = Min(S(wraps))
  BY DEF Timeout
<1>2. /\ MS_PER_SEC \in Nat /\ LONG_WAIT \in Nat /\ NO_EVENT_WAIT \in Nat
      /\ UINT \in Nat /\ UINT > 0 /\ HTTP_SECOND_LIMIT \in Nat /\ QUOTA_MAX \in Nat
      /\ mudtime \in Nat /\ now \in Nat
  BY ClockAssumption, QuotaAssumption DEF PlaceInv, Start
<1>3. \A n \in Int : Unsigned(n) \in Nat
  BY <1>2 DEF Unsigned
<1> DEFINE q == queue_msecs_till_next(wraps)
<1>4. /\ q \in Nat
      /\ (\A v \in qwait \cup qsem : v >= mudtime) =>
           \A w \in qwait \cup qsem : q <= (w - mudtime) * MS_PER_SEC
  BY <1>2, QueueMsecsFacts
<1>5. sq_msecs_till_next \in Nat
  <2>1. CASE sq = << >>
    BY <1>2, <2>1 DEF sq_msecs_till_next
  <2>2. CASE sq # << >>
    <3>1. sq \in Seq(Timers) /\ when \in [Timers -> Nat]
      BY DEF EventInv, Events, Sorted
    <3>2. Head(sq) \in Timers
      BY <2>2, <3>1
    <3>3. when[Head(sq)] - now \in Int
      BY <1>2, <3>1, <3>2
    <3> QED BY <1>3, <2>2, <3>3 DEF sq_msecs_till_next
  <2> QED BY <2>1, <2>2
<1>6. http_msecs_till_next \in Nat
  <2>1. http_quota \in Nat
    <3>1. HTTP_SECOND_LIMIT * MS_PER_SEC \in Nat
      BY <1>2
    <3> QED BY <3>1 DEF IInv, HttpInv
  <2>2. CASE http_quota < MS_PER_SEC /\ HTTP_SECOND_LIMIT > 0
    <3>1. MS_PER_SEC - http_quota \in Nat /\ HTTP_SECOND_LIMIT \in Nat \ {0}
      BY <1>2, <2>1, <2>2
    <3>2. (MS_PER_SEC - http_quota) \div HTTP_SECOND_LIMIT \in Nat
      BY <3>1
    <3> QED BY <1>2, <2>2, <3>2 DEF http_msecs_till_next
  <2>3. CASE ~(http_quota < MS_PER_SEC /\ HTTP_SECOND_LIMIT > 0)
    BY <1>2, <2>3 DEF http_msecs_till_next
  <2> QED BY <2>2, <2>3
<1>7. D \in SUBSET Nat
  <2>1. \A d \in Throttled : MS_PER_SEC - quota[d] \in Int
    BY <1>2 DEF Throttled, IInv, LineInv
  <2> QED BY <1>3, <2>1
<1>8. S(wraps) \in SUBSET Nat /\ S(wraps) # {} /\ LONG_WAIT \in S(wraps) /\ q \in S(wraps)
  BY <1>2, <1>4, <1>5, <1>6, <1>7
<1> HIDE DEF S
<1>9. Min(S(wraps)) \in S(wraps) /\ \A x \in S(wraps) : Min(S(wraps)) <= x
  BY <1>8, MinOfNats
<1>10. msec_timeout' \in Nat /\ msec_timeout' <= LONG_WAIT /\ msec_timeout' <= q
  BY <1>1, <1>8, <1>9
<1>11. msec_timeout' \in 0..LONG_WAIT
  BY <1>2, <1>10
<1> HIDE DEF q
<1>12. ASSUME \A v \in qwait \cup qsem : v >= mudtime, NEW w \in qwait \cup qsem
       PROVE  msec_timeout' <= (w - mudtime) * MS_PER_SEC
  <2>1. q <= (w - mudtime) * MS_PER_SEC
    BY <1>4, <1>12
  <2>2. w \in Int
    BY DEF QueueInv
  <2>3. (w - mudtime) * MS_PER_SEC \in Int
    BY <1>2, <2>2
  <2> QED BY <1>4, <1>10, <2>1, <2>3
<1> QED BY <1>11, <1>12

\* The queues are empty, and the clock is at its first second, in the beginning.
LEMMA InitPlaceInv == Init => PlaceInv /\ QueueInv
<1> SUFFICES ASSUME Init PROVE PlaceInv /\ QueueInv
  OBVIOUS
<1> USE ClockAssumption, QuotaAssumption DEF Init, Start
<1>1. PlaceInv
  <2>1. MS_PER_SEC \div MS_PER_SEC \in Nat /\ 1 <= MS_PER_SEC \div MS_PER_SEC
    BY DivFacts
  <2>2. /\ now \in Start..MaxNow /\ window \in Start..now
        /\ mudtime \in Nat /\ 1 <= mudtime /\ mudtime <= now \div MS_PER_SEC
    BY <2>1
  <2>3. /\ last_mudtime \in 0..mudtime /\ msec_timeout \in 0..LONG_WAIT
        /\ ncom \in 0..queue_chunk /\ http \in 0..MaxHttp
    BY <2>2
  <2>4. input \in [Descs -> 0..MaxInput]
    OBVIOUS
  <2> QED BY <2>2, <2>3, <2>4 DEF PlaceInv
<1>2. QueueInv
  <2>1. IsFiniteSet({}) /\ Cardinality({}) = 0
    BY FS_EmptySet
  <2> QED BY <2>1 DEF QueueInv
<1> QED BY <1>1, <1>2

\* A step that leaves the queues alone keeps their invariant, and so does one
\* that queues an entry when they are not full.
LEMMA QueueStep ==
  ASSUME QueueInv, UNCHANGED <<qwait, qsem>>,
         ready' = ready \/ (ready' = ready + 1 /\ ~Full(ready))
  PROVE  QueueInv'
<1>1. /\ Cardinality(qwait) \in Nat /\ Cardinality(qsem) \in Nat
      /\ ready \in Nat /\ MaxQueue \in Nat
  BY FS_CardinalityType, QuotaAssumption DEF QueueInv
<1>2. CASE ready' = ready
  BY <1>2 DEF QueueInv
<1>3. CASE ready' = ready + 1 /\ ~Full(ready)
  <2>1. ready + Cardinality(qwait) + Cardinality(qsem) < MaxQueue
    BY <1>1, <1>3 DEF Full
  <2>2. (ready + 1) + Cardinality(qwait) + Cardinality(qsem) <= MaxQueue
    BY <1>1, <2>1
  <2> QED BY <1>1, <1>3, <2>2 DEF QueueInv
<1> QED BY <1>2, <1>3

\* Every step keeps the invariants of places and of queues.
LEMMA NextPlaceInv ==
  IInv /\ EventInv /\ PlaceInv /\ QueueInv /\ [Next]_vars => (PlaceInv /\ QueueInv)'
<1> SUFFICES ASSUME IInv, EventInv, PlaceInv, QueueInv, [Next]_vars
             PROVE  PlaceInv' /\ QueueInv'
  OBVIOUS
<1> USE DEF places, queues, lines, requests
<1>a. /\ now \in Nat /\ now \in now..MaxNow /\ MaxNow \in Nat
      /\ LONG_WAIT \in Nat /\ MaxWork \in Nat /\ queue_chunk \in Nat
      /\ mudtime \in Nat /\ msec_timeout \in 0..LONG_WAIT /\ msec_timeout \in Nat
      /\ MaxInput \in Nat /\ MaxHttp \in Nat
      /\ ncom \in 0..queue_chunk /\ input \in [Descs -> 0..MaxInput] /\ http \in 0..MaxHttp
  BY ClockAssumption, QuotaAssumption DEF PlaceInv, Start
<1>b. \A t \in now..Min({MaxNow, now + MaxWork}) : t \in now..MaxNow
  <2> DEFINE b == now + MaxWork
  <2>1. b \in Int
    BY <1>a
  <2> HIDE DEF b
  <2>2. \A t \in now..Min({MaxNow, b}) : t \in now..MaxNow
    BY <2>1, WorkTime
  <2> QED BY <2>2 DEF b
<1>c. \A t \in now..Min({MaxNow, now + msec_timeout + MaxWork}) : t \in now..MaxNow
  <2> DEFINE b == now + msec_timeout + MaxWork
  <2>1. b \in Int
    BY <1>a
  <2> HIDE DEF b
  <2>2. \A t \in now..Min({MaxNow, b}) : t \in now..MaxNow
    BY <2>1, WorkTime
  <2> QED BY <2>2 DEF b
<1>d. 0 \in 0..LONG_WAIT
  BY <1>a
<1>e. pc \in {"timeout", "poll", "status", "clear", "commands", "update",
              "top", "timers", "quotas", "down"}
  BY DEF PlaceInv
<1>1. CASE Timeout
  <2>1. msec_timeout' \in 0..LONG_WAIT
    BY <1>1, TimeoutFacts
  <2>2. PlaceInv'
    BY <1>1, <1>a, <2>1, PlaceStep DEF Timeout
  <2> QED BY <1>1, <2>2, QueueStep DEF Timeout
<1>2. ASSUME Sleep, input' \in [Descs -> 0..MaxInput], http' \in 0..MaxHttp
      PROVE  PlaceInv' /\ QueueInv'
  <2>1. now' \in now..MaxNow
    BY <1>2, <1>c DEF Sleep
  <2>2. PlaceInv'
    BY <1>2, <1>a, <1>d, <2>1, PlaceStep DEF Sleep
  <2> QED BY <1>2, <2>2, QueueStep DEF Sleep
<1>3. CASE Wake
  BY <1>2, <1>3, <1>a DEF Wake
<1>4. CASE ReadLines
  <2>1. PICK d \in Descs, n \in 1..MaxInput : input' = [input EXCEPT ![d] = n]
    BY <1>4 DEF ReadLines
  <2>2. input' \in [Descs -> 0..MaxInput]
    BY <1>a, <2>1
  <2> QED BY <1>2, <1>4, <1>a, <2>2 DEF ReadLines
<1>5. CASE ReadRequest
  <2>1. http' \in 0..MaxHttp
    BY <1>5, <1>a DEF ReadRequest
  <2> QED BY <1>2, <1>5, <1>a, <2>1 DEF ReadRequest
<1>6. ASSUME NEW s \in Kinds, Signal(s) PROVE PlaceInv' /\ QueueInv'
  <2>1. PlaceInv'
    BY <1>6, <1>a, <1>e, PlaceStep DEF Signal
  <2> QED BY <1>6, <2>1, QueueStep DEF Signal
<1>7. CASE SkipFlag
  <2>1. PlaceInv'
    BY <1>7, <1>a, PlaceStep DEF SkipFlag, NextFlag
  <2> QED BY <1>7, <2>1, QueueStep DEF SkipFlag
<1>8. CASE HandleFlag
  <2>1. PlaceInv'
    BY <1>8, <1>a, <1>b, PlaceStep DEF HandleFlag
  <2>2. ready' = ready \/ (ready' = ready + 1 /\ ~Full(ready))
    BY <1>8 DEF HandleFlag
  <2> QED BY <1>8, <2>1, <2>2, QueueStep DEF HandleFlag
<1>9. CASE ClearFlag
  <2>1. PlaceInv'
    BY <1>9, <1>a, PlaceStep DEF ClearFlag, NextFlag
  <2> QED BY <1>9, <2>1, QueueStep DEF ClearFlag
<1>10. CASE RunLine
  <2>1. now' \in now..MaxNow
    BY <1>10, <1>b DEF RunLine, Command
  <2>2. input' \in [Descs -> 0..MaxInput]
    <3>1. PICK d \in Throttled : input' = [input EXCEPT ![d] = @ - 1]
      BY <1>10 DEF RunLine
    <3>2. d \in Descs /\ input[d] > 0 /\ input[d] \in 0..MaxInput
      BY <1>a, <3>1 DEF Throttled
    <3> QED BY <1>a, <3>1, <3>2
  <2>3. PlaceInv'
    BY <1>10, <1>a, <1>e, <2>1, <2>2, PlaceStep DEF RunLine
  <2>4. ready \in Nat /\ ready <= ready
    BY DEF QueueInv
  <2> QED BY <1>10, <1>a, <2>3, <2>4, CommandQueues DEF RunLine
<1>11. CASE RunRequest
  <2>1. now' \in now..MaxNow
    BY <1>11, <1>b DEF RunRequest, Command
  <2>2. http' \in 0..MaxHttp
    BY <1>11, <1>a DEF RunRequest
  <2>3. PlaceInv'
    BY <1>11, <1>a, <1>e, <2>1, <2>2, PlaceStep DEF RunRequest
  <2>4. ready \in Nat /\ ready <= ready
    BY DEF QueueInv
  <2> QED BY <1>11, <1>a, <2>3, <2>4, CommandQueues DEF RunRequest
<1>12. CASE CommandsDone
  <2>1. http' \in 0..MaxHttp
    BY <1>12, <1>a DEF CommandsDone
  <2>2. PlaceInv'
    BY <1>12, <1>a, <2>1, PlaceStep DEF CommandsDone
  <2> QED BY <1>12, <2>2, QueueStep DEF CommandsDone
<1>13. CASE QueueUpdate
  <2>1. PlaceInv'
    BY <1>13, <1>a, PlaceStep DEF QueueUpdate
  <2> QED BY <1>13, <2>1, UpdateQueues
<1>14. CASE DoTop
  <2>1. now' \in now..MaxNow
    BY <1>14, <1>b DEF DoTop, Command
  <2>2. ncom' \in 0..queue_chunk
    BY <1>14, <1>a DEF DoTop
  <2>3. PlaceInv'
    BY <1>14, <1>a, <1>e, <2>1, <2>2, PlaceStep DEF DoTop
  <2>4. ready - 1 \in Nat /\ ready - 1 <= ready
    BY <1>14 DEF QueueInv, DoTop
  <2>5. Command(ready - 1)
    BY <1>14 DEF DoTop
  <2> QED BY <1>a, <2>3, <2>4, <2>5, CommandQueues
<1>15. CASE TopDone
  <2>0. 0 \in 0..queue_chunk
    BY <1>a
  <2>1. PlaceInv'
    BY <1>15, <1>a, <2>0, PlaceStep DEF TopDone
  <2> QED BY <1>15, <2>1, QueueStep DEF TopDone
<1>16. CASE RunTimer
  <2>1. PlaceInv'
    BY <1>16, <1>a, <1>b, <1>e, PlaceStep DEF RunTimer
  <2>2. ready' = ready \/ (ready' = ready + 1 /\ ~Full(ready))
    BY <1>16 DEF RunTimer
  <2> QED BY <1>16, <2>1, <2>2, QueueStep DEF RunTimer
<1>17. CASE CleanDescriptors
  <2>1. PlaceInv'
    BY <1>17, <1>a, <1>b, PlaceStep DEF CleanDescriptors
  <2> QED BY <1>17, <2>1, QueueStep DEF CleanDescriptors
<1>18. CASE UpdateQuotas
  <2>1. PlaceInv'
    BY <1>18, <1>a, PlaceStep DEF UpdateQuotas
  <2> QED BY <1>18, <2>1, QueueStep DEF UpdateQuotas
<1>19. CASE UNCHANGED vars
  <2>1. PlaceInv'
    BY <1>19, <1>a, <1>e, PlaceStep DEF vars
  <2> QED BY <1>19, <2>1, QueueStep DEF vars
<1> QED
  BY <1>1, <1>3, <1>4, <1>5, <1>6, <1>7, <1>8, <1>9, <1>10, <1>11,
     <1>12, <1>13, <1>14, <1>15, <1>16, <1>17, <1>18, <1>19 DEF Next, Loop

\* What all parts of the loop keep together.
LoopInv == IInv /\ FlagInv /\ EventInv /\ PlaceInv /\ QueueInv

\* It is an invariant of the loop.
LEMMA LoopInvariance == Spec => []LoopInv
<1>1. Init => LoopInv
  BY InitIInv, InitFlagInv, InitEventInv, InitPlaceInv DEF LoopInv
<1>2. LoopInv /\ [Next]_vars => LoopInv'
  BY NextIInv, NextFlagInv, NextEventInv, NextPlaceInv DEF LoopInv
<1> QED BY <1>1, <1>2, PTL DEF Spec

\* The parts give every variable its type.
LEMMA LoopTypes == LoopInv => TypeOK
<1> SUFFICES ASSUME LoopInv PROVE TypeOK
  OBVIOUS
<1> USE DEF LoopInv
<1>1. last \in 0..now
  BY DEF IInv, ClockInv
<1>2. mudtime \in 1..now
  <2>1. now \in Nat /\ MS_PER_SEC \in Nat \ {0}
    BY ClockAssumption DEF PlaceInv, Start
  <2>2. now \div MS_PER_SEC \in Nat /\ now \div MS_PER_SEC <= now
    BY <2>1, DivFacts
  <2> QED BY <2>1, <2>2 DEF PlaceInv
<1>3. ready \in 0..MaxQueue
  <2>1. /\ Cardinality(qwait) \in Nat /\ Cardinality(qsem) \in Nat
        /\ ready \in Nat /\ MaxQueue \in Nat
        /\ ready + Cardinality(qwait) + Cardinality(qsem) <= MaxQueue
    BY FS_CardinalityType, QuotaAssumption DEF QueueInv
  <2> QED BY <2>1
<1>4. /\ sq \in Seq(Timers) /\ when \in [Timers -> Nat]
      /\ interval \in [Loops \cup Optional -> Nat]
  BY DEF EventInv, Events, Sorted
<1>5. /\ quota \in [Descs -> 0..QUOTA_MAX] /\ ran \in [Limited -> Nat]
      /\ http_quota \in 0..(HTTP_SECOND_LIMIT * MS_PER_SEC) /\ served \in Nat
  BY DEF IInv, LineInv, HttpInv
<1>6. /\ flag \in DOMAIN Flags /\ flags \subseteq Kinds
      /\ sent \in [Kinds -> 0..MaxSignals] /\ handled \in [Kinds -> Nat]
  BY DEF FlagInv
<1>7. /\ now \in Start..MaxNow /\ window \in Start..now
      /\ pc \in {"timeout", "poll", "status", "clear", "commands", "update",
                 "top", "timers", "quotas", "down"}
      /\ last_mudtime \in 0..mudtime /\ msec_timeout \in 0..LONG_WAIT
      /\ ncom \in 0..queue_chunk /\ input \in [Descs -> 0..MaxInput]
      /\ http \in 0..MaxHttp
  BY DEF PlaceInv
<1>8. qwait \subseteq Int /\ qsem \subseteq Nat
  BY DEF QueueInv
<1> QED BY <1>1, <1>2, <1>3, <1>4, <1>5, <1>6, <1>7, <1>8 DEF TypeOK

\* Every variable keeps its type: no quota wraps around, the queues keep to
\* their limit, and the timeout of poll() to its own.
THEOREM TypeCorrect == Spec => []TypeOK
BY LoopInvariance, LoopTypes, PTL

\* No entry is due before queue_update() last looked, nor, once it has looked
\* in this iteration, before now; the loop then does not sleep beyond any.
DueInv ==
  /\ \A w \in qwait \cup qsem :
       /\ last_mudtime <= w
       /\ pc \notin {"commands", "update"} => mudtime <= w
  /\ pc = "poll" =>
       \A w \in qwait \cup qsem : msec_timeout <= (w - mudtime) * MS_PER_SEC

\* A step that adds no entry and leaves the clock of the loop alone.
LEMMA DueStep ==
  ASSUME DueInv, qwait' \subseteq qwait, qsem' \subseteq qsem,
         UNCHANGED <<mudtime, last_mudtime>>,
         pc' \notin {"commands", "update"} => pc \notin {"commands", "update"},
         pc' = "poll" => pc = "poll" /\ UNCHANGED msec_timeout
  PROVE  DueInv'
<1>1. \A w \in qwait' \cup qsem' : w \in qwait \cup qsem
  OBVIOUS
<1> QED BY <1>1 DEF DueInv

\* A command adds an entry that is not overdue, if its delay is not negative.
LEMMA DueCommand ==
  ASSUME Delays \subseteq Nat, PlaceInv, DueInv, NEW n, Command(n),
         UNCHANGED <<pc, mudtime, last_mudtime>>, pc # "poll"
  PROVE  DueInv'
<1>1. ASSUME NEW w \in qwait' \cup qsem'
      PROVE  w \in qwait \cup qsem \/ mudtime <= w
  <2>1. w \in qwait \cup qsem \/ \E delay \in Delays : w = mudtime + delay
    BY DEF Command
  <2>2. ASSUME NEW delay \in Delays, w = mudtime + delay PROVE mudtime <= w
    <3>1. mudtime \in Nat /\ delay \in Nat
      BY DEF PlaceInv
    <3> QED BY <2>2, <3>1
  <2> QED BY <2>1, <2>2
<1>2. ASSUME NEW w \in qwait' \cup qsem'
      PROVE  last_mudtime <= w /\ (pc \notin {"commands", "update"} => mudtime <= w)
  <2>1. CASE w \in qwait \cup qsem
    BY <2>1 DEF DueInv
  <2>2. CASE w \notin qwait \cup qsem
    <3>1. mudtime <= w /\ \E delay \in Delays : w = mudtime + delay
      BY <1>1, <2>2 DEF Command
    <3>2. w \in Nat /\ mudtime \in Nat /\ last_mudtime \in Nat /\ last_mudtime <= mudtime
      BY <3>1 DEF PlaceInv
    <3> QED BY <3>1, <3>2
  <2> QED BY <2>1, <2>2
<1> QED BY <1>2 DEF DueInv

\* When check_status() is done, the loop reads its clock, which does not go back.
LEMMA DueFlag ==
  ASSUME PlaceInv, QueueInv, DueInv, NextFlag, pc \in {"status", "clear"},
         UNCHANGED <<qwait, qsem, last_mudtime>>
  PROVE  DueInv'
<1>1. pc' \in {"commands", "status"} /\ (pc' = "status" => UNCHANGED mudtime)
  BY DEF NextFlag
<1>2. \A w \in qwait \cup qsem : last_mudtime <= w /\ mudtime <= w
  BY DEF DueInv
<1> QED BY <1>1, <1>2 DEF DueInv

\* Every step keeps it, if no delay is negative.
LEMMA NextDueInv ==
  ASSUME Delays \subseteq Nat
  PROVE  LoopInv /\ DueInv /\ [Next]_vars => DueInv'
<1> SUFFICES ASSUME LoopInv, DueInv, [Next]_vars PROVE DueInv'
  OBVIOUS
<1>a. IInv /\ EventInv /\ PlaceInv /\ QueueInv
  BY DEF LoopInv
<1> USE DEF places, queues
<1>1. CASE Timeout
  <2>1. /\ pc = "timeout" /\ pc' = "poll"
        /\ UNCHANGED <<qwait, qsem, mudtime, last_mudtime>>
    BY <1>1 DEF Timeout
  <2>2. \A w \in qwait \cup qsem : last_mudtime <= w /\ mudtime <= w
    BY <2>1 DEF DueInv
  <2>3. \A w \in qwait \cup qsem : w >= mudtime
    <3>1. \A w \in qwait \cup qsem : w \in Int /\ mudtime \in Int
      BY <1>a DEF QueueInv, PlaceInv
    <3> QED BY <2>2, <3>1
  <2>4. \A w \in qwait \cup qsem : msec_timeout' <= (w - mudtime) * MS_PER_SEC
    BY <1>1, <1>a, <2>3, TimeoutFacts
  <2> QED BY <2>1, <2>2, <2>4 DEF DueInv
<1>2. CASE Wake
  BY <1>2, DueStep DEF Wake, Sleep
<1>3. CASE ReadLines
  BY <1>3, DueStep DEF ReadLines, Sleep
<1>4. CASE ReadRequest
  BY <1>4, DueStep DEF ReadRequest, Sleep
<1>5. ASSUME NEW s \in Kinds, Signal(s) PROVE DueInv'
  BY <1>5, DueStep DEF Signal
<1>6. CASE SkipFlag
  BY <1>6, <1>a, DueFlag DEF SkipFlag
<1>7. CASE HandleFlag
  BY <1>7, DueStep DEF HandleFlag
<1>8. CASE ClearFlag
  BY <1>8, <1>a, DueFlag DEF ClearFlag
<1>9. CASE RunLine
  BY <1>9, <1>a, DueCommand DEF RunLine
<1>10. CASE RunRequest
  BY <1>10, <1>a, DueCommand DEF RunRequest
<1>11. CASE CommandsDone
  BY <1>11, DueStep DEF CommandsDone
<1>12. CASE QueueUpdate
  <2>1. /\ pc' = "top" /\ mudtime' = mudtime /\ last_mudtime' = mudtime
        /\ \A w \in qwait' \cup qsem' :
             w \in qwait \cup qsem /\ ~(w <= mudtime /\ mudtime # last_mudtime)
    BY <1>12 DEF QueueUpdate
  <2>2. ASSUME NEW w \in qwait' \cup qsem' PROVE mudtime <= w
    <3>0. w \in qwait \cup qsem
      BY <2>1
    <3>1. w \in Int /\ mudtime \in Int
      BY <1>a, <3>0 DEF QueueInv, PlaceInv
    <3>4. last_mudtime <= w
      BY <3>0 DEF DueInv
    <3>2. CASE mudtime = last_mudtime
      BY <3>2, <3>4
    <3>3. CASE ~(w <= mudtime)
      BY <3>1, <3>3
    <3> QED BY <2>1, <3>2, <3>3
  <2> QED BY <2>1, <2>2 DEF DueInv
<1>13. CASE DoTop
  BY <1>13, <1>a, DueCommand DEF DoTop
<1>14. CASE TopDone
  BY <1>14, DueStep DEF TopDone
<1>15. CASE RunTimer
  BY <1>15, DueStep DEF RunTimer
<1>16. CASE CleanDescriptors
  BY <1>16, DueStep DEF CleanDescriptors
<1>17. CASE UpdateQuotas
  BY <1>17, DueStep DEF UpdateQuotas
<1>18. CASE UNCHANGED vars
  BY <1>18, DueStep DEF vars
<1> QED
  BY <1>1, <1>2, <1>3, <1>4, <1>5, <1>6, <1>7, <1>8, <1>9, <1>10, <1>11,
     <1>12, <1>13, <1>14, <1>15, <1>16, <1>17, <1>18 DEF Next, Loop

\* A timeout that is not beyond an entry on the loop's clock is not beyond it,
\* but for what that clock is behind.
LEMMA DueSlept == LoopInv /\ DueInv => NotOverslept
<1> SUFFICES ASSUME LoopInv, DueInv, pc = "poll", NEW w \in qwait \cup qsem
             PROVE  now + msec_timeout <=
                      Max({w * MS_PER_SEC + (now - mudtime * MS_PER_SEC), now})
  BY DEF NotOverslept
<1>1. /\ now \in Nat /\ mudtime \in Nat /\ MS_PER_SEC \in Nat
      /\ msec_timeout \in 0..LONG_WAIT /\ w \in Int
  BY ClockAssumption DEF LoopInv, PlaceInv, QueueInv, Start
<1>2. msec_timeout <= (w - mudtime) * MS_PER_SEC
  BY DEF DueInv
<1> DEFINE a == w * MS_PER_SEC
           b == mudtime * MS_PER_SEC
           m == a + (now - b)
<1>3. (w - mudtime) * MS_PER_SEC = a - b /\ a \in Int /\ b \in Int
  BY <1>1
<1> HIDE DEF a, b
<1>4. msec_timeout <= a - b /\ m \in Int
  BY <1>1, <1>2, <1>3
<1>5. now + msec_timeout <= m
  BY <1>1, <1>3, <1>4
<1> HIDE DEF m
<1>6. Max({m, now}) \in {m, now} /\ Max({m, now}) >= m
  <2>1. \E x \in {m, now} : \A y \in {m, now} : x >= y
    <3>1. CASE m <= now
      BY <1>1, <1>4, <3>1
    <3>2. CASE now <= m
      BY <1>1, <1>4, <3>2
    <3> QED BY <1>1, <1>4, <3>1, <3>2
  <2> QED BY <2>1 DEF Max
<1>7. now + msec_timeout <= Max({m, now})
  BY <1>1, <1>4, <1>5, <1>6
<1> QED BY <1>7 DEF m, a, b

\* As long as no command waits for a time that has passed, the loop never
\* sleeps beyond the time at which an entry is due, on the wait queue or with
\* the timeout of a semaphore, through all the ways in which the minimum of
\* the four timeouts comes about.
THEOREM WakesInTime ==
  ASSUME Delays \subseteq Nat
  PROVE  Spec => []NotOverslept
<1>1. Init => DueInv
  BY DEF Init, DueInv
<1>2. LoopInv /\ DueInv /\ [Next]_vars => DueInv'
  BY NextDueInv
<1>3. LoopInv /\ DueInv => NotOverslept
  BY DueSlept
<1> QED BY <1>1, <1>2, <1>3, LoopInvariance, PTL DEF Spec

=============================================================================
