---------------------------- MODULE WorldProofs -----------------------------
(***************************************************************************)
(* Proofs about World.                                                     *)
(*                                                                         *)
(* The invariant InOrder says that the database is sound, that exits are   *)
(* marked with their rooms and that who is connected is not marked.  A     *)
(* function of the source that works on a memory has a lemma: from a sound *)
(* one it gives a sound one, and this is what it changes.  Objects that a  *)
(* function has taken out of their place and not put back yet are in       *)
(* limbo: Sound(m, K) asks less of the objects in K.  So moveit brings an  *)
(* object out of limbo, Blasted and Shut put a whole list there, and the   *)
(* loops that follow empty it again.                                       *)
(*                                                                         *)
(* Homely and NoneLost are the assumptions on the behaviour: the code can  *)
(* lose a STICKY object whose home is inside what it leaves, and those who *)
(* are behind a player on a contents list when he is destroyed.            *)
(***************************************************************************)
EXTENDS World, QueueSeqsProofs

-----------------------------------------------------------------------------
\* Memories.

\* What the assumptions say of the names.
LEMMA Names ==
  /\ DbTop \in Nat /\ DbTop >= 1 /\ Objects = 0..(DbTop - 1)
  /\ \A n \in 1..DbTop : n - 1 \in Objects
  /\ GOD \in Objects /\ DEFAULT_HOME \in Objects
  /\ NOTHING \notin Objects
  /\ \A x \in Objects : x # NOTHING
BY DbAssumption DEF Objects, NOTHING

\* The fields of an object.
LEMMA Fields ==
  ASSUME NEW m \in Memories, NEW x \in Objects
  PROVE  /\ m.db[x] \in ObjectRecords
         /\ m.db[x].type \in {"ROOM", "THING", "EXIT", "PLAYER", "GARBAGE"}
         /\ m.db[x].owner \in Objects
         /\ m.db[x].location \in Objects \cup {NOTHING}
         /\ m.db[x].home \in Objects \cup {NOTHING}
         /\ m.db[x].going \in 0..2
         /\ m.db[x].contents \in Seq(Objects)
         /\ m.db[x].exits \in Seq(Objects)
         /\ m.free \in Seq(Objects)
         /\ m.db \in [Objects -> ObjectRecords]
<1>1. m.db \in [Objects -> ObjectRecords] /\ m.free \in Seq(Objects)
  BY DEF Memories
<1>2. m.db[x] \in ObjectRecords
  BY <1>1
<1> QED BY <1>1, <1>2 DEF ObjectRecords

\* One object of a memory is written.
LEMMA Written ==
  ASSUME NEW m \in Memories, NEW x \in Objects, NEW r \in ObjectRecords
  PROVE  LET n == [m EXCEPT !.db[x] = r]
         IN /\ n \in Memories /\ n.free = m.free
            /\ n.db[x] = r
            /\ \A o \in Objects : o # x => n.db[o] = m.db[o]
<1>1. m.db \in [Objects -> ObjectRecords] /\ m = [db |-> m.db, free |-> m.free]
      /\ m.free \in Seq(Objects)
  BY DEF Memories
<1> DEFINE d == [m.db EXCEPT ![x] = r]
           n == [m EXCEPT !.db[x] = r]
<1>2. d \in [Objects -> ObjectRecords] /\ d[x] = r /\ \A o \in Objects : o # x => d[o] = m.db[o]
  BY <1>1
<1>3. n = [m EXCEPT !.db = d]
  OBVIOUS
<1> HIDE DEF d
<1>4. n = [db |-> d, free |-> m.free]
  BY <1>1, <1>3
<1> QED BY <1>1, <1>2, <1>4 DEF Memories

\* A field of an object is written.
LEMMA FieldWritten ==
  ASSUME NEW r \in ObjectRecords
  PROVE  /\ \A v \in Objects :
              LET q == [r EXCEPT !.owner = v]
              IN /\ q \in ObjectRecords
                 /\ q.type = r.type /\ q.owner = v /\ q.location = r.location /\ q.home = r.home
                 /\ q.going = r.going /\ q.contents = r.contents /\ q.exits = r.exits
         /\ \A v \in 0..2 :
              LET q == [r EXCEPT !.going = v]
              IN /\ q \in ObjectRecords
                 /\ q.type = r.type /\ q.owner = r.owner /\ q.location = r.location
                 /\ q.home = r.home
                 /\ q.going = v /\ q.contents = r.contents /\ q.exits = r.exits
         /\ \A v \in Seq(Objects) :
              LET q == [r EXCEPT !.contents = v]
              IN /\ q \in ObjectRecords
                 /\ q.type = r.type /\ q.owner = r.owner /\ q.location = r.location
                 /\ q.home = r.home
                 /\ q.going = r.going /\ q.contents = v /\ q.exits = r.exits
         /\ \A v \in Seq(Objects) :
              LET q == [r EXCEPT !.exits = v]
              IN /\ q \in ObjectRecords
                 /\ q.type = r.type /\ q.owner = r.owner /\ q.location = r.location
                 /\ q.home = r.home
                 /\ q.going = r.going /\ q.contents = r.contents /\ q.exits = v
BY DEF ObjectRecords

\* Its location is.
LEMMA LocationWritten ==
  ASSUME NEW r \in ObjectRecords, NEW v \in Objects \cup {NOTHING}
  PROVE  LET q == [r EXCEPT !.location = v]
         IN /\ q \in ObjectRecords
            /\ q.type = r.type /\ q.owner = r.owner /\ q.location = v /\ q.home = r.home
            /\ q.going = r.going /\ q.contents = r.contents /\ q.exits = r.exits
BY DEF ObjectRecords

\* An object with another location.
WithLocation(m, x, v) == [m EXCEPT !.db[x].location = v]

\* Setting the location of an object.
LEMMA SetLocation ==
  ASSUME NEW m \in Memories, NEW x \in Objects, NEW v \in Objects \cup {NOTHING}
  PROVE  LET n == WithLocation(m, x, v)
         IN /\ n \in Memories /\ n.free = m.free
            /\ \A o \in Objects :
                 /\ n.db[o].type = m.db[o].type
                 /\ n.db[o].owner = m.db[o].owner
                 /\ n.db[o].going = m.db[o].going
                 /\ n.db[o].home = m.db[o].home
                 /\ n.db[o].contents = m.db[o].contents
                 /\ n.db[o].exits = m.db[o].exits
                 /\ o # x => n.db[o] = m.db[o]
            /\ n.db[x].location = v
<1> DEFINE r == [m.db[x] EXCEPT !.location = v]
           n == WithLocation(m, x, v)
<1>1. m.db[x] \in ObjectRecords
  BY Fields
<1>2. /\ r \in ObjectRecords /\ r.location = v
      /\ r.type = m.db[x].type /\ r.owner = m.db[x].owner /\ r.going = m.db[x].going
      /\ r.home = m.db[x].home /\ r.contents = m.db[x].contents /\ r.exits = m.db[x].exits
  <2> DEFINE u == m.db[x]
             q == [u EXCEPT !.location = v]
  <2>1. u \in ObjectRecords
    BY <1>1
  <2> HIDE DEF u
  <2>2. /\ q \in ObjectRecords /\ q.type = u.type /\ q.owner = u.owner /\ q.location = v
        /\ q.home = u.home /\ q.going = u.going /\ q.contents = u.contents /\ q.exits = u.exits
    BY <2>1 DEF ObjectRecords
  <2> QED BY <2>2 DEF u
<1>3. n = [m EXCEPT !.db[x] = r]
  BY DEF r, WithLocation
<1> HIDE DEF r, n
<1>4. /\ n \in Memories /\ n.free = m.free /\ n.db[x] = r
      /\ \A o \in Objects : o # x => n.db[o] = m.db[o]
  BY <1>2, <1>3, Written
<1> QED BY <1>2, <1>4 DEF n

\* An object with another home.
WithHome(m, x, v) == [m EXCEPT !.db[x].home = v]

\* Setting the home of an object.
LEMMA SetHome ==
  ASSUME NEW m \in Memories, NEW x \in Objects, NEW v \in Objects \cup {NOTHING}
  PROVE  LET n == WithHome(m, x, v)
         IN /\ n \in Memories /\ n.free = m.free
            /\ \A o \in Objects :
                 /\ n.db[o].type = m.db[o].type
                 /\ n.db[o].owner = m.db[o].owner
                 /\ n.db[o].going = m.db[o].going
                 /\ n.db[o].location = m.db[o].location
                 /\ n.db[o].contents = m.db[o].contents
                 /\ n.db[o].exits = m.db[o].exits
                 /\ o # x => n.db[o] = m.db[o]
            /\ n.db[x].home = v
<1> DEFINE r == [m.db[x] EXCEPT !.home = v]
           n == WithHome(m, x, v)
<1>1. m.db[x] \in ObjectRecords
  BY Fields
<1>2. /\ r \in ObjectRecords /\ r.home = v
      /\ r.type = m.db[x].type /\ r.owner = m.db[x].owner /\ r.going = m.db[x].going
      /\ r.location = m.db[x].location /\ r.contents = m.db[x].contents /\ r.exits = m.db[x].exits
  <2> DEFINE u == m.db[x]
             q == [u EXCEPT !.home = v]
  <2>1. u \in ObjectRecords
    BY <1>1
  <2> HIDE DEF u
  <2>2. /\ q \in ObjectRecords /\ q.type = u.type /\ q.owner = u.owner /\ q.home = v
        /\ q.location = u.location /\ q.going = u.going /\ q.contents = u.contents /\ q.exits = u.exits
    BY <2>1 DEF ObjectRecords
  <2> QED BY <2>2 DEF u
<1>3. n = [m EXCEPT !.db[x] = r]
  BY DEF r, WithHome
<1> HIDE DEF r, n
<1>4. /\ n \in Memories /\ n.free = m.free /\ n.db[x] = r
      /\ \A o \in Objects : o # x => n.db[o] = m.db[o]
  BY <1>2, <1>3, Written
<1> QED BY <1>2, <1>4 DEF n

\* An object with another owner.
WithOwner(m, x, v) == [m EXCEPT !.db[x].owner = v]

\* Setting the owner of an object.
LEMMA SetOwner ==
  ASSUME NEW m \in Memories, NEW x \in Objects, NEW v \in Objects
  PROVE  LET n == WithOwner(m, x, v)
         IN /\ n \in Memories /\ n.free = m.free
            /\ \A o \in Objects :
                 /\ n.db[o].type = m.db[o].type
                 /\ n.db[o].going = m.db[o].going
                 /\ n.db[o].home = m.db[o].home
                 /\ n.db[o].location = m.db[o].location
                 /\ n.db[o].contents = m.db[o].contents
                 /\ n.db[o].exits = m.db[o].exits
                 /\ o # x => n.db[o] = m.db[o]
            /\ n.db[x].owner = v
<1> DEFINE r == [m.db[x] EXCEPT !.owner = v]
           n == WithOwner(m, x, v)
<1>1. m.db[x] \in ObjectRecords
  BY Fields
<1>2. /\ r \in ObjectRecords /\ r.owner = v
      /\ r.type = m.db[x].type /\ r.going = m.db[x].going /\ r.home = m.db[x].home
      /\ r.location = m.db[x].location /\ r.contents = m.db[x].contents /\ r.exits = m.db[x].exits
  BY <1>1, FieldWritten
<1>3. n = [m EXCEPT !.db[x] = r]
  BY DEF r, WithOwner
<1> HIDE DEF r, n
<1>4. /\ n \in Memories /\ n.free = m.free /\ n.db[x] = r
      /\ \A o \in Objects : o # x => n.db[o] = m.db[o]
  BY <1>2, <1>3, Written
<1> QED BY <1>2, <1>4 DEF n

\* An object with another going.
WithGoing(m, x, v) == [m EXCEPT !.db[x].going = v]

\* Setting the going of an object.
LEMMA SetGoing ==
  ASSUME NEW m \in Memories, NEW x \in Objects, NEW v \in 0..2
  PROVE  LET n == WithGoing(m, x, v)
         IN /\ n \in Memories /\ n.free = m.free
            /\ \A o \in Objects :
                 /\ n.db[o].type = m.db[o].type
                 /\ n.db[o].owner = m.db[o].owner
                 /\ n.db[o].home = m.db[o].home
                 /\ n.db[o].location = m.db[o].location
                 /\ n.db[o].contents = m.db[o].contents
                 /\ n.db[o].exits = m.db[o].exits
                 /\ o # x => n.db[o] = m.db[o]
            /\ n.db[x].going = v
<1> DEFINE r == [m.db[x] EXCEPT !.going = v]
           n == WithGoing(m, x, v)
<1>1. m.db[x] \in ObjectRecords
  BY Fields
<1>2. /\ r \in ObjectRecords /\ r.going = v
      /\ r.type = m.db[x].type /\ r.owner = m.db[x].owner /\ r.home = m.db[x].home
      /\ r.location = m.db[x].location /\ r.contents = m.db[x].contents /\ r.exits = m.db[x].exits
  BY <1>1, FieldWritten
<1>3. n = [m EXCEPT !.db[x] = r]
  BY DEF r, WithGoing
<1> HIDE DEF r, n
<1>4. /\ n \in Memories /\ n.free = m.free /\ n.db[x] = r
      /\ \A o \in Objects : o # x => n.db[o] = m.db[o]
  BY <1>2, <1>3, Written
<1> QED BY <1>2, <1>4 DEF n

\* An object with another contents.
WithContents(m, x, v) == [m EXCEPT !.db[x].contents = v]

\* Setting the contents of an object.
LEMMA SetContents ==
  ASSUME NEW m \in Memories, NEW x \in Objects, NEW v \in Seq(Objects)
  PROVE  LET n == WithContents(m, x, v)
         IN /\ n \in Memories /\ n.free = m.free
            /\ \A o \in Objects :
                 /\ n.db[o].type = m.db[o].type
                 /\ n.db[o].owner = m.db[o].owner
                 /\ n.db[o].going = m.db[o].going
                 /\ n.db[o].home = m.db[o].home
                 /\ n.db[o].location = m.db[o].location
                 /\ n.db[o].exits = m.db[o].exits
                 /\ o # x => n.db[o] = m.db[o]
            /\ n.db[x].contents = v
<1> DEFINE r == [m.db[x] EXCEPT !.contents = v]
           n == WithContents(m, x, v)
<1>1. m.db[x] \in ObjectRecords
  BY Fields
<1>2. /\ r \in ObjectRecords /\ r.contents = v
      /\ r.type = m.db[x].type /\ r.owner = m.db[x].owner /\ r.going = m.db[x].going
      /\ r.home = m.db[x].home /\ r.location = m.db[x].location /\ r.exits = m.db[x].exits
  BY <1>1, FieldWritten
<1>3. n = [m EXCEPT !.db[x] = r]
  BY DEF r, WithContents
<1> HIDE DEF r, n
<1>4. /\ n \in Memories /\ n.free = m.free /\ n.db[x] = r
      /\ \A o \in Objects : o # x => n.db[o] = m.db[o]
  BY <1>2, <1>3, Written
<1> QED BY <1>2, <1>4 DEF n

\* An object with another exits.
WithExits(m, x, v) == [m EXCEPT !.db[x].exits = v]

\* Setting the exits of an object.
LEMMA SetExits ==
  ASSUME NEW m \in Memories, NEW x \in Objects, NEW v \in Seq(Objects)
  PROVE  LET n == WithExits(m, x, v)
         IN /\ n \in Memories /\ n.free = m.free
            /\ \A o \in Objects :
                 /\ n.db[o].type = m.db[o].type
                 /\ n.db[o].owner = m.db[o].owner
                 /\ n.db[o].going = m.db[o].going
                 /\ n.db[o].home = m.db[o].home
                 /\ n.db[o].location = m.db[o].location
                 /\ n.db[o].contents = m.db[o].contents
                 /\ o # x => n.db[o] = m.db[o]
            /\ n.db[x].exits = v
<1> DEFINE r == [m.db[x] EXCEPT !.exits = v]
           n == WithExits(m, x, v)
<1>1. m.db[x] \in ObjectRecords
  BY Fields
<1>2. /\ r \in ObjectRecords /\ r.exits = v
      /\ r.type = m.db[x].type /\ r.owner = m.db[x].owner /\ r.going = m.db[x].going
      /\ r.home = m.db[x].home /\ r.location = m.db[x].location /\ r.contents = m.db[x].contents
  BY <1>1, FieldWritten
<1>3. n = [m EXCEPT !.db[x] = r]
  BY DEF r, WithExits
<1> HIDE DEF r, n
<1>4. /\ n \in Memories /\ n.free = m.free /\ n.db[x] = r
      /\ \A o \in Objects : o # x => n.db[o] = m.db[o]
  BY <1>2, <1>3, Written
<1> QED BY <1>2, <1>4 DEF n

-----------------------------------------------------------------------------
\* Locations.

\* The value of the recursive function in Around at n.
Up(m, x, up, n) ==
  IF n = 0 THEN x
  ELSE IF up[n - 1] = NOTHING \/ IsRoom(m, up[n - 1]) THEN NOTHING
  ELSE m.db[up[n - 1]].location

\* The recursion of Around defines a function.
LEMMA AroundExists ==
  ASSUME NEW m, NEW x
  PROVE  \A k \in Nat : \E up : up = [n \in 0..k |-> Up(m, x, up, n)]
<1> DEFINE ok == {k \in Nat : \E up : up = [n \in 0..k |-> Up(m, x, up, n)]}
<1>1. 0 \in ok
  <2> DEFINE f == [n \in 0..0 |-> x]
  <2>1. f = [n \in 0..0 |-> Up(m, x, f, n)]
    BY DEF Up
  <2> QED BY <2>1
<1>2. ASSUME NEW k \in Nat, k \in ok PROVE k + 1 \in ok
  <2>1. PICK f : f = [n \in 0..k |-> Up(m, x, f, n)]
    BY <1>2
  <2> DEFINE g == [n \in 0..(k + 1) |-> IF n = k + 1 THEN Up(m, x, f, n) ELSE f[n]]
  <2>2. ASSUME NEW n \in 0..(k + 1) PROVE g[n] = Up(m, x, g, n)
    <3>1. n = 0 \/ (n - 1 \in 0..k /\ n - 1 \in 0..(k + 1) /\ n - 1 # k + 1)
      OBVIOUS
    <3>2. n = 0 \/ g[n - 1] = f[n - 1]
      BY <3>1
    <3>3. Up(m, x, g, n) = Up(m, x, f, n)
      BY <3>2 DEF Up
    <3>4. n # k + 1 => f[n] = Up(m, x, f, n)
      BY <2>1
    <3> QED BY <3>3, <3>4
  <2>3. g = [n \in 0..(k + 1) |-> Up(m, x, g, n)]
    BY <2>2
  <2> HIDE DEF g
  <2> QED BY <2>3
<1> HIDE DEF ok
<1>3. Nat \subseteq ok
  BY <1>1, <1>2, NatSetInduction
<1> QED BY <1>3 DEF ok

\* The chain of locations, step by step.
LEMMA AroundFacts ==
  ASSUME NEW m, NEW x
  PROVE  /\ Around(m, x)[0] = x
         /\ \A n \in 1..DbTop :
              Around(m, x)[n] =
                IF Around(m, x)[n - 1] = NOTHING \/ IsRoom(m, Around(m, x)[n - 1]) THEN NOTHING
                ELSE m.db[Around(m, x)[n - 1]].location
<1> DEFINE up == Around(m, x)
<1>1. up = CHOOSE f : f = [n \in 0..DbTop |-> Up(m, x, f, n)]
  BY DEF Around, Up
<1>2. \E f : f = [n \in 0..DbTop |-> Up(m, x, f, n)]
  BY AroundExists, Names
<1> HIDE DEF up
<1>3. up = [n \in 0..DbTop |-> Up(m, x, up, n)]
  BY <1>1, <1>2
<1>4. \A n \in 0..DbTop : up[n] = Up(m, x, up, n)
  BY <1>3
<1>5. up[0] = x
  BY <1>4, Names DEF Up
<1>6. \A n \in 1..DbTop : n \in 0..DbTop /\ n # 0
  BY Names
<1>7. \A n \in 1..DbTop : up[n] = IF up[n - 1] = NOTHING \/ IsRoom(m, up[n - 1]) THEN NOTHING
                                  ELSE m.db[up[n - 1]].location
  BY <1>4, <1>6 DEF Up
<1> QED BY <1>5, <1>7 DEF up

\* A chain stays in a set that holds the locations of its members.
LEMMA ChainWithin ==
  ASSUME NEW m, NEW x, NEW U, x \in U,
         \A y \in U : y # NOTHING /\ ~IsRoom(m, y) => m.db[y].location \in U \cup {NOTHING}
  PROVE  \A n \in 0..DbTop : Around(m, x)[n] \in U \cup {NOTHING}
<1> DEFINE up == Around(m, x)
           W == {n \in 0..DbTop : up[n] \in U \cup {NOTHING}}
<1>1. /\ up[0] = x
      /\ \A n \in 1..DbTop : up[n] = IF up[n - 1] = NOTHING \/ IsRoom(m, up[n - 1]) THEN NOTHING
                                      ELSE m.db[up[n - 1]].location
  BY AroundFacts
<1> HIDE DEF up
<1>2. 0 \in W
  BY <1>1, Names
<1>3. ASSUME NEW n \in 1..DbTop, n - 1 \in W PROVE n \in W
  <2>1. up[n - 1] \in U \cup {NOTHING} /\ n \in 0..DbTop
    BY <1>3, Names
  <2>2. up[n] \in U \cup {NOTHING}
    BY <1>1, <2>1
  <2> QED BY <2>1, <2>2
<1> HIDE DEF W
<1>4. \A n \in 0..DbTop : n \in W
  BY <1>2, <1>3, UpTo, Names
<1> QED BY <1>4 DEF W, up

\* Every field is right.
AllLinked(m, limbo) == \A x \in Objects : Linked(m, x, limbo)

\* Where a chain of locations from an object that is not an exit goes.
LEMMA ChainObjects ==
  ASSUME NEW m \in Memories, NEW limbo, AllLinked(m, limbo),
         NEW x \in Objects, ~IsExit(m, x)
  PROVE  \A n \in 0..DbTop : \/ Around(m, x)[n] = NOTHING
                             \/ /\ Around(m, x)[n] \in Objects
                                /\ ~IsExit(m, Around(m, x)[n])
<1> DEFINE U == {o \in Objects : ~IsExit(m, o)}
<1>1. ASSUME NEW y \in U, ~IsRoom(m, y) PROVE m.db[y].location \in U \cup {NOTHING}
  <2>1. m.db[y].location \in Objects \cup {NOTHING}
    BY Fields
  <2>2. CASE IsGarbage(m, y)
    <3>1. m.db[y] = Garbage
      BY <2>2 DEF AllLinked, Linked
    <3> QED BY <3>1 DEF Garbage
  <2>3. CASE ~IsGarbage(m, y)
    <3>1. Mobile(m, y)
      BY <1>1, <2>3, Fields DEF Mobile, IsGarbage, IsRoom, IsExit
    <3>2. m.db[y].location # NOTHING => ~IsExit(m, m.db[y].location)
      BY <3>1 DEF AllLinked, Linked
    <3> QED BY <2>1, <3>2
  <2> QED BY <2>2, <2>3
<1>2. x \in U
  OBVIOUS
<1> HIDE DEF U
<1>3. \A n \in 0..DbTop : Around(m, x)[n] \in U \cup {NOTHING}
  BY <1>1, <1>2, ChainWithin
<1> QED BY <1>3 DEF U

\* More than DbTop objects in a row are not all different.
LEMMA Repeated ==
  ASSUME NEW a \in Int, NEW b \in Int, b - a + 1 > DbTop, NEW f \in [a..b -> Objects]
  PROVE  \E i, j \in a..b : i # j /\ f[i] = f[j]
<1> DEFINE I == a..b
<1>1. DbTop \in Nat /\ DbTop >= 1 /\ DbTop - 1 \in Int /\ 0 \in Int /\ Objects = 0..(DbTop - 1)
  BY Names
<1>2. /\ IsFiniteSet(I) /\ IsFiniteSet(Objects)
      /\ Cardinality(I) = IF a > b THEN 0 ELSE b - a + 1
      /\ Cardinality(Objects) = IF 0 > DbTop - 1 THEN 0 ELSE (DbTop - 1) - 0 + 1
  BY <1>1, FS_Interval
<1>3. Cardinality(Objects) < Cardinality(I)
  BY <1>1, <1>2
<1> HIDE DEF I
<1>4. f \in [I -> Objects]
  BY DEF I
<1>5. \E i, j \in I : i # j /\ f[i] = f[j]
  BY <1>2, <1>3, <1>4, FS_PigeonHole
<1> QED BY <1>5 DEF I

\* Nothing is inside itself, so a chain of locations ends.
LEMMA ChainEnds ==
  ASSUME NEW m \in Memories, NEW limbo, AllLinked(m, limbo), Rooted(m),
         NEW x \in Objects, ~IsExit(m, x)
  PROVE  Around(m, x)[DbTop] = NOTHING
<1> DEFINE up == Around(m, x)
<1>1. \A n \in 1..DbTop : up[n] = IF up[n - 1] = NOTHING \/ IsRoom(m, up[n - 1]) THEN NOTHING
                                  ELSE m.db[up[n - 1]].location
  BY AroundFacts
<1>2. \A n \in 0..DbTop : up[n] = NOTHING \/ (up[n] \in Objects /\ ~IsExit(m, up[n]))
  BY ChainObjects
<1> HIDE DEF up
<1> SUFFICES ASSUME up[DbTop] # NOTHING PROVE FALSE
  BY DEF up
<1>3. \A n \in 0..DbTop : up[n] # NOTHING
  <2> DEFINE W == {n \in 0..DbTop : up[DbTop - n] # NOTHING}
  <2>1. 0 \in W
    BY Names
  <2>2. ASSUME NEW n \in 1..DbTop, n - 1 \in W PROVE n \in W
    <3>1. DbTop - (n - 1) \in 1..DbTop /\ (DbTop - (n - 1)) - 1 = DbTop - n /\ n \in 0..DbTop
      BY Names
    <3> QED BY <1>1, <2>2, <3>1
  <2>3. \A n \in 0..DbTop : n \in W
    <3> HIDE DEF W
    <3> QED BY <2>1, <2>2, UpTo, Names
  <2>4. \A n \in 0..DbTop : DbTop - n \in 0..DbTop /\ DbTop - (DbTop - n) = n
    BY Names
  <2> QED BY <2>3, <2>4
<1>4. PICK a \in 0..DbTop, b \in 0..DbTop : a # b /\ up[a] = up[b]
  <2> DEFINE f == [n \in 0..DbTop |-> up[n]]
  <2>1. f \in [0..DbTop -> Objects]
    BY <1>2, <1>3
  <2>2. 0 \in Int /\ DbTop \in Int /\ DbTop - 0 + 1 > DbTop
    BY Names
  <2> HIDE DEF f
  <2>3. \E a, b \in 0..DbTop : a # b /\ f[a] = f[b]
    BY <2>1, <2>2, Repeated
  <2> QED BY <2>3 DEF f
<1>5. ASSUME NEW c \in 0..DbTop, NEW d \in 0..DbTop, c < d, up[c] = up[d] PROVE FALSE
  <2> DEFINE S == {up[k] : k \in c..(d - 1)}
  <2>1. ASSUME NEW k \in c..(d - 1)
        PROVE  /\ up[k] \in Objects /\ Mobile(m, up[k])
               /\ m.db[up[k]].location \in S
    <3>1. k \in 0..DbTop /\ k + 1 \in 1..DbTop /\ k + 1 \in 0..DbTop /\ (k + 1) - 1 = k
      BY <1>5, Names
    <3>2. up[k] \in Objects /\ ~IsExit(m, up[k]) /\ up[k + 1] # NOTHING
      BY <1>2, <1>3, <3>1
    <3>3. ~IsRoom(m, up[k]) /\ up[k + 1] = m.db[up[k]].location
      BY <1>1, <3>1, <3>2
    <3>4. ~IsGarbage(m, up[k])
      <4>1. IsGarbage(m, up[k]) => m.db[up[k]] = Garbage
        BY <3>2 DEF AllLinked, Linked
      <4> QED BY <4>1, <3>2, <3>3 DEF Garbage
    <3>5. Mobile(m, up[k])
      BY <3>2, <3>3, <3>4, Fields DEF Mobile, IsGarbage, IsRoom, IsExit
    <3>6. up[k + 1] \in S
      <4>1. CASE k = d - 1
        <5>1. k + 1 = d /\ c \in c..(d - 1)
          BY <1>5, <4>1
        <5> QED BY <1>5, <5>1
      <4>2. CASE k # d - 1
        <5>1. k + 1 \in c..(d - 1)
          BY <1>5, <4>2
        <5> QED BY <5>1
      <4> QED BY <4>1, <4>2
    <3> QED BY <3>2, <3>3, <3>5, <3>6
  <2>2. c \in c..(d - 1)
    BY <1>5
  <2>3. S # {} /\ S \in SUBSET Objects
    BY <2>1, <2>2
  <2>4. \A y \in S : Mobile(m, y) /\ m.db[y].location \in S
    <3> HIDE DEF S
    <3>1. ASSUME NEW y \in S PROVE \E k \in c..(d - 1) : y = up[k]
      BY DEF S
    <3> QED BY <2>1, <3>1
  <2> HIDE DEF S
  <2> QED BY <2>3, <2>4 DEF Rooted
<1>6. a < b \/ b < a
  BY <1>4
<1> QED BY <1>4, <1>5, <1>6

\* When x can be put in loc.
LEMMA CanEnterFacts ==
  ASSUME NEW m \in Memories, NEW limbo, AllLinked(m, limbo), Rooted(m),
         NEW x \in Objects, NEW loc \in Objects, Mobile(m, x), ~IsExit(m, loc), loc # x
  PROVE  /\ recursive_member(m, loc, x) <=> \E n \in 0..DbTop : Around(m, loc)[n] = x
         /\ CanEnter(m, x, loc) <=> \A n \in 0..DbTop : Around(m, loc)[n] # x
<1>1. Around(m, loc)[DbTop] = NOTHING
  BY ChainEnds
<1>2. ~IsRoom(m, x)
  BY DEF Mobile, IsRoom
<1> QED BY <1>1, <1>2 DEF CanEnter, recursive_member

\* A set without x that holds the locations of its members has none of them in x.
LEMMA Outside ==
  ASSUME NEW m \in Memories, NEW limbo, AllLinked(m, limbo), Rooted(m),
         NEW x \in Objects, NEW loc \in Objects, Mobile(m, x), ~IsExit(m, loc),
         NEW U, loc \in U, x \notin U,
         \A y \in U : y # NOTHING /\ ~IsRoom(m, y) => m.db[y].location \in U \cup {NOTHING}
  PROVE  CanEnter(m, x, loc) /\ ~recursive_member(m, loc, x)
<1>1. \A n \in 0..DbTop : Around(m, loc)[n] \in U \cup {NOTHING}
  BY ChainWithin
<1>2. \A n \in 0..DbTop : Around(m, loc)[n] # x
  BY <1>1, Names
<1>3. loc # x
  OBVIOUS
<1> QED BY <1>2, <1>3, CanEnterFacts

\* Everyone can go to a room.
LEMMA RoomOpen ==
  ASSUME NEW m \in Memories, NEW limbo, AllLinked(m, limbo), Rooted(m),
         NEW x \in Objects, NEW loc \in Objects, Mobile(m, x), IsRoom(m, loc)
  PROVE  CanEnter(m, x, loc) /\ ~recursive_member(m, loc, x)
<1> DEFINE U == {loc}
<1>1. ~IsExit(m, loc) /\ x \notin U
  BY DEF IsExit, IsRoom, Mobile
<1>2. \A y \in U : y # NOTHING /\ ~IsRoom(m, y) => m.db[y].location \in U \cup {NOTHING}
  OBVIOUS
<1> HIDE DEF U
<1>3. loc \in U
  BY DEF U
<1> QED BY <1>1, <1>2, <1>3, Outside

-----------------------------------------------------------------------------
\* Moving.

\* What stays the same of object o wherever things go.
Alike(m, n, o) ==
  /\ n.db[o].type = m.db[o].type
  /\ n.db[o].owner = m.db[o].owner
  /\ n.db[o].going = m.db[o].going
  /\ n.db[o].home = m.db[o].home
  /\ n.db[o].exits = m.db[o].exits

\* The contents lists have nothing twice, and x nowhere but in where.
OnlyIn(m, x, where) ==
  \A o \in Objects : /\ IsInjective(m.db[o].contents)
                     /\ x \in Range(m.db[o].contents) => o = where

\* x is taken off the list it is on.
LEMMA DetachedFacts ==
  ASSUME NEW m \in Memories, NEW x \in Objects, NEW where \in Objects \cup {NOTHING},
         OnlyIn(m, x, where)
  PROVE  LET n == Detached(m, x, where)
         IN /\ n \in Memories /\ n.free = m.free
            /\ \A o \in Objects :
                 /\ Alike(m, n, o)
                 /\ n.db[o].location = m.db[o].location
                 /\ IsInjective(n.db[o].contents)
                 /\ Range(n.db[o].contents) = Range(m.db[o].contents) \ {x}
<1> DEFINE n == Detached(m, x, where)
<1>1. CASE where = NOTHING
  <2>1. n = m
    BY <1>1 DEF Detached
  <2>2. \A o \in Objects : x \notin Range(m.db[o].contents) /\ IsInjective(m.db[o].contents)
    BY <1>1, Names DEF OnlyIn
  <2>3. \A o \in Objects : Range(m.db[o].contents) = Range(m.db[o].contents) \ {x}
    BY <2>2
  <2> QED BY <2>1, <2>2, <2>3 DEF Alike
<1>2. CASE where # NOTHING
  <2> DEFINE c == RemoveFirst(m.db[where].contents, x)
             w == WithContents(m, where, c)
  <2>1. where \in Objects /\ IsInjective(m.db[where].contents) /\ m.db[where].contents \in Seq(Objects)
    BY <1>2, Fields DEF OnlyIn
  <2>2. /\ c \in Seq(Objects) /\ IsInjective(c)
        /\ Range(c) = Range(m.db[where].contents) \ {x}
    BY <2>1, RemoveFirstFacts
  <2>3. n = w
    BY <1>2 DEF Detached, WithContents
  <2> HIDE DEF c
  <2>4. /\ w \in Memories /\ w.free = m.free /\ w.db[where].contents = c
        /\ \A o \in Objects : o # where => w.db[o] = m.db[o]
    BY <2>1, <2>2, SetContents
  <2>5. ASSUME NEW o \in Objects PROVE Alike(m, w, o) /\ w.db[o].location = m.db[o].location
    BY <2>1, <2>2, SetContents DEF Alike
  <2> HIDE DEF w
  <2>6. ASSUME NEW o \in Objects
        PROVE  /\ IsInjective(w.db[o].contents)
               /\ Range(w.db[o].contents) = Range(m.db[o].contents) \ {x}
    <3>1. CASE o = where
      BY <3>1, <2>2, <2>4
    <3>2. CASE o # where
      <4>1. w.db[o].contents = m.db[o].contents /\ x \notin Range(m.db[o].contents)
        BY <3>2, <2>4 DEF OnlyIn
      <4>2. Range(m.db[o].contents) \ {x} = Range(m.db[o].contents)
        BY <4>1
      <4> QED BY <4>1, <4>2 DEF OnlyIn
    <3> QED BY <3>1, <3>2
  <2> QED BY <2>3, <2>4, <2>5, <2>6
<1> QED BY <1>1, <1>2

\* PUSH.
LEMMA PushFacts ==
  ASSUME NEW T, NEW s \in Seq(T), NEW e \in T
  PROVE  /\ <<e>> \o s \in Seq(T)
         /\ Range(<<e>> \o s) = Range(s) \cup {e}
         /\ IsInjective(s) /\ e \notin Range(s) => IsInjective(<<e>> \o s)
<1> DEFINE u == <<e>>
<1>1. u \in Seq(T) /\ Range(u) = {e} /\ IsInjective(u)
  BY DEF Range, IsInjective
<1> HIDE DEF u
<1>2. /\ u \o s \in Seq(T)
      /\ Range(u \o s) = Range(u) \cup Range(s)
      /\ IsInjective(u) /\ IsInjective(s) /\ Range(u) \cap Range(s) = {} => IsInjective(u \o s)
  BY <1>1, ConcatFacts
<1>3. e \notin Range(s) => Range(u) \cap Range(s) = {}
  BY <1>1
<1>4. Range(u) \cup Range(s) = Range(s) \cup {e}
  BY <1>1
<1>5. /\ u \o s \in Seq(T)
      /\ Range(u \o s) = Range(s) \cup {e}
      /\ IsInjective(s) /\ e \notin Range(s) => IsInjective(u \o s)
  BY <1>1, <1>2, <1>3, <1>4
<1> QED BY <1>5 DEF u

\* n is m with x in loc, where it was not.
Put(m, n, x, loc) ==
  /\ n \in Memories /\ n.free = m.free
  /\ \A o \in Objects : Alike(m, n, o) /\ IsInjective(n.db[o].contents)
  /\ n.db[x].location = loc
  /\ \A o \in Objects : o # x => n.db[o].location = m.db[o].location
  /\ Range(n.db[loc].contents) = Range(m.db[loc].contents) \cup {x}
  /\ \A o \in Objects : o # loc => n.db[o].contents = m.db[o].contents

\* x is put in front of the list of loc.
LEMMA PlacedFacts ==
  ASSUME NEW m \in Memories, NEW x \in Objects, NEW loc \in Objects,
         \A o \in Objects : IsInjective(m.db[o].contents),
         x \notin Range(m.db[loc].contents)
  PROVE  Put(m, Placed(m, x, loc), x, loc)
<1> DEFINE c == <<x>> \o m.db[loc].contents
           a == WithContents(m, loc, c)
           n == WithLocation(a, x, loc)
<1>1. m.db[loc].contents \in Seq(Objects) /\ IsInjective(m.db[loc].contents)
  BY Fields
<1>2. c \in Seq(Objects) /\ IsInjective(c) /\ Range(c) = Range(m.db[loc].contents) \cup {x}
  BY <1>1, PushFacts
<1>3. Placed(m, x, loc) = n
  BY DEF Placed, WithLocation, WithContents
<1> HIDE DEF c
<1>4. /\ a \in Memories /\ a.free = m.free /\ a.db[loc].contents = c
      /\ \A o \in Objects : o # loc => a.db[o] = m.db[o]
  BY <1>2, SetContents
<1>5. ASSUME NEW o \in Objects PROVE Alike(m, a, o) /\ a.db[o].location = m.db[o].location
  BY <1>2, SetContents DEF Alike
<1> HIDE DEF a
<1>6. /\ n \in Memories /\ n.free = a.free /\ n.db[x].location = loc
      /\ \A o \in Objects : o # x => n.db[o] = a.db[o]
  BY <1>4, SetLocation
<1>7. ASSUME NEW o \in Objects PROVE Alike(a, n, o) /\ n.db[o].contents = a.db[o].contents
  BY <1>4, SetLocation DEF Alike
<1> HIDE DEF n
<1>8. ASSUME NEW o \in Objects PROVE Alike(m, n, o) /\ IsInjective(n.db[o].contents)
  <2>1. Alike(m, n, o)
    BY <1>5, <1>7 DEF Alike
  <2>2. CASE o = loc
    BY <1>2, <1>4, <1>7, <2>1, <2>2
  <2>3. CASE o # loc
    BY <1>4, <1>7, <2>1, <2>3
  <2> QED BY <2>2, <2>3
<1>9. \A o \in Objects : o # x => n.db[o].location = m.db[o].location
  BY <1>5, <1>6
<1>10. Range(n.db[loc].contents) = Range(m.db[loc].contents) \cup {x}
  BY <1>2, <1>4, <1>7
<1>11. \A o \in Objects : o # loc => n.db[o].contents = m.db[o].contents
  BY <1>4, <1>7
<1> QED BY <1>3, <1>4, <1>6, <1>8, <1>9, <1>10, <1>11 DEF Put

\* What is asked of an object's type.
Kinds(m, n, o) ==
  /\ IsRoom(n, o) <=> IsRoom(m, o)
  /\ IsExit(n, o) <=> IsExit(m, o)
  /\ IsPlayer(n, o) <=> IsPlayer(m, o)
  /\ IsThing(n, o) <=> IsThing(m, o)
  /\ IsGarbage(n, o) <=> IsGarbage(m, o)
  /\ Mobile(n, o) <=> Mobile(m, o)
  /\ Holds(n, o) <=> Holds(m, o)

\* The type decides them.
LEMMA SameKinds ==
  ASSUME NEW m, NEW n, NEW o, n.db[o].type = m.db[o].type
  PROVE  Kinds(m, n, o)
BY DEF Kinds, IsRoom, IsExit, IsPlayer, IsThing, IsGarbage, Mobile, Holds

\* An object is of one type.
LEMMA OneKind ==
  ASSUME NEW m \in Memories, NEW o \in Objects
  PROVE  /\ IsRoom(m, o) \/ IsExit(m, o) \/ Mobile(m, o) \/ IsGarbage(m, o)
         /\ IsRoom(m, o) => ~IsExit(m, o) /\ ~Mobile(m, o) /\ ~IsGarbage(m, o)
         /\ IsExit(m, o) => ~Mobile(m, o) /\ ~IsGarbage(m, o)
         /\ Mobile(m, o) => ~IsGarbage(m, o)
         /\ Mobile(m, o) <=> IsPlayer(m, o) \/ IsThing(m, o)
         /\ IsPlayer(m, o) => ~IsThing(m, o)
         /\ Holds(m, o) <=> IsRoom(m, o) \/ Mobile(m, o)
         /\ Holds(m, o) <=> ~IsExit(m, o) /\ ~IsGarbage(m, o)
BY Fields DEF IsRoom, IsExit, IsPlayer, IsThing, IsGarbage, Mobile, Holds

\* The parts of a memory in order.
LEMMA SoundParts ==
  ASSUME NEW m, NEW K, Sound(m, K)
  PROVE  /\ m \in Memories /\ Rooted(m) /\ AllLinked(m, K)
         /\ IsPlayer(m, GOD) /\ IsRoom(m, DEFAULT_HOME)
         /\ \A x \in Objects : Linked(m, x, K) /\ Listed(m, x, K)
         /\ IsInjective(m.free) /\ Range(m.free) = {x \in Objects : IsGarbage(m, x)}
BY DEF Sound, AllLinked

\* Being in order is monotonic in what is in limbo.
LEMMA SoundMonotonic ==
  ASSUME NEW m, NEW K, NEW L, Sound(m, K), K \subseteq L
  PROVE  Sound(m, L)
<1>1. \A x \in Objects : x \notin L => x \notin K
  OBVIOUS
<1>2. \A x \in Objects : Linked(m, x, L)
  BY <1>1 DEF Sound, Linked
<1>3. \A x \in Objects : Listed(m, x, L)
  BY <1>1 DEF Sound, Listed
<1> QED BY <1>2, <1>3 DEF Sound

\* What is known of the fields of an object.
LEMMA SoundLinked ==
  ASSUME NEW m, NEW K, Sound(m, K), NEW x \in Objects
  PROVE  /\ IsGarbage(m, x) => m.db[x] = Garbage
         /\ ~IsGarbage(m, x) => IsPlayer(m, m.db[x].owner)
         /\ IsPlayer(m, x) => m.db[x].owner = x
         /\ Mobile(m, x) =>
              /\ Holds(m, m.db[x].home) /\ m.db[x].home \in Objects /\ m.db[x].home # x
              /\ m.db[x].location # NOTHING => ~IsExit(m, m.db[x].location)
              /\ x \notin K => Holds(m, m.db[x].location) /\ m.db[x].location \in Objects
         /\ IsExit(m, x) =>
              /\ m.db[x].home \in Objects /\ IsRoom(m, m.db[x].home)
              /\ m.db[x].location # NOTHING => ~IsGarbage(m, m.db[x].location)
         /\ IsRoom(m, x) /\ m.db[x].location # NOTHING => IsRoom(m, m.db[x].location)
<1>1. m \in Memories /\ Linked(m, x, K)
  BY SoundParts
<1>2. m.db[x].home \in Objects \cup {NOTHING}
  BY <1>1, Fields
<1> QED BY <1>1, <1>2 DEF Linked, Holds

\* What is known of the lists of an object.
LEMMA SoundListed ==
  ASSUME NEW m, NEW K, Sound(m, K), NEW x \in Objects
  PROVE  /\ IsInjective(m.db[x].contents) /\ IsInjective(m.db[x].exits)
         /\ \A y \in Range(m.db[x].contents) :
              y \in Objects /\ Mobile(m, y) /\ m.db[y].location = x
         /\ \A y \in Range(m.db[x].exits) : y \in Objects /\ IsExit(m, y) /\ m.db[y].home = x
         /\ x \notin K =>
              /\ Mobile(m, x) => x \in Range(m.db[m.db[x].location].contents)
              /\ IsExit(m, x) => x \in Range(m.db[m.db[x].home].exits)
<1>1. m \in Memories /\ Listed(m, x, K)
  BY SoundParts
<1>2. m.db[x].contents \in Seq(Objects) /\ m.db[x].exits \in Seq(Objects)
  BY <1>1, Fields
<1>3. Range(m.db[x].contents) \subseteq Objects /\ Range(m.db[x].exits) \subseteq Objects
  BY <1>2 DEF Range
<1> QED BY <1>1, <1>3 DEF Listed

\* n is m with x moved to loc.
Moved(m, n, x, loc) ==
  /\ n \in Memories /\ n.free = m.free
  /\ \A o \in Objects : Alike(m, n, o) /\ IsInjective(n.db[o].contents)
  /\ n.db[x].location = loc
  /\ \A o \in Objects : o # x => n.db[o].location = m.db[o].location
  /\ Range(n.db[loc].contents) = Range(m.db[loc].contents) \cup {x}
  /\ \A o \in Objects : o # loc => Range(n.db[o].contents) = Range(m.db[o].contents) \ {x}

\* What is on a list is where it says.
LEMMA SoundOnlyIn ==
  ASSUME NEW m, NEW K, Sound(m, K), NEW x \in Objects
  PROVE  OnlyIn(m, x, m.db[x].location)
BY SoundListed DEF OnlyIn

\* moveit() puts x in loc.
LEMMA MoveitMoved ==
  ASSUME NEW m, NEW K, Sound(m, K), NEW x \in Objects, NEW loc \in Objects
  PROVE  Moved(m, moveit(m, x, loc), x, loc)
<1> DEFINE d == Detached(m, x, m.db[x].location)
           n == moveit(m, x, loc)
<1>1. m \in Memories
  BY DEF Sound
<1>2. m.db[x].location \in Objects \cup {NOTHING}
  BY <1>1, Fields
<1>3. /\ d \in Memories /\ d.free = m.free
      /\ \A o \in Objects :
           /\ Alike(m, d, o)
           /\ d.db[o].location = m.db[o].location
           /\ IsInjective(d.db[o].contents)
           /\ Range(d.db[o].contents) = Range(m.db[o].contents) \ {x}
  BY <1>1, <1>2, SoundOnlyIn, DetachedFacts
<1>4. n = Placed(d, x, loc)
  BY DEF moveit
<1> HIDE DEF d, n
<1>5. d \in Memories /\ x \notin Range(d.db[loc].contents)
      /\ \A o \in Objects : IsInjective(d.db[o].contents)
  BY <1>3
<1>6. Put(d, n, x, loc)
  BY <1>4, <1>5, PlacedFacts
<1>7. ASSUME NEW o \in Objects PROVE Alike(m, n, o) /\ IsInjective(n.db[o].contents)
  BY <1>3, <1>6 DEF Put, Alike
<1>8. \A o \in Objects : o # x => n.db[o].location = m.db[o].location
  BY <1>3, <1>6 DEF Put
<1>9. Range(n.db[loc].contents) = Range(m.db[loc].contents) \cup {x}
  BY <1>3, <1>6 DEF Put
<1>10. \A o \in Objects : o # loc => Range(n.db[o].contents) = Range(m.db[o].contents) \ {x}
  BY <1>3, <1>6 DEF Put
<1>11. n \in Memories /\ n.free = m.free /\ n.db[x].location = loc
  BY <1>3, <1>6 DEF Put
<1> QED BY <1>7, <1>8, <1>9, <1>10, <1>11 DEF Moved, n

\* An object that x is not in can be entered without making a circle.
LEMMA EnterRooted ==
  ASSUME NEW m \in Memories, Rooted(m), NEW n,
         NEW x \in Objects, NEW loc \in Objects, CanEnter(m, x, loc),
         \A o \in Objects : Mobile(n, o) => Mobile(m, o),
         n.db[x].location = loc,
         \A o \in Objects : o # x => n.db[o].location = m.db[o].location
  PROVE  Rooted(n)
<1> SUFFICES ASSUME NEW S \in SUBSET Objects, S # {}, \A y \in S : Mobile(n, y),
                    \A y \in S : n.db[y].location \in S
             PROVE  FALSE
  BY DEF Rooted
<1>1. \A y \in S : Mobile(m, y)
  OBVIOUS
<1>2. CASE x \notin S
  <2>1. \A y \in S : m.db[y].location \in S
    BY <1>2
  <2> QED BY <1>1, <2>1 DEF Rooted
<1>3. CASE x \in S
  <2> DEFINE up == Around(m, loc)
             W == {k \in 0..DbTop : up[k] \in S}
  <2>1. loc \in S
    BY <1>3
  <2>2. /\ up[0] = loc
        /\ \A k \in 1..DbTop : up[k] = IF up[k - 1] = NOTHING \/ IsRoom(m, up[k - 1]) THEN NOTHING
                                       ELSE m.db[up[k - 1]].location
    BY AroundFacts
  <2>3. up[DbTop] = NOTHING /\ \A k \in 0..DbTop : up[k] # x
    BY <1>1, <1>3 DEF CanEnter, recursive_member, Mobile, IsRoom
  <2> HIDE DEF up
  <2>4. 0 \in W
    BY <2>1, <2>2, Names
  <2>5. ASSUME NEW k \in 1..DbTop, k - 1 \in W PROVE k \in W
    <3>1. k \in 0..DbTop /\ k - 1 \in 0..DbTop
      BY Names
    <3>2. up[k - 1] \in S /\ up[k - 1] # x
      BY <2>3, <2>5, <3>1
    <3>3. ~IsRoom(m, up[k - 1]) /\ up[k - 1] # NOTHING
      BY <3>2, <1>1, OneKind, Names
    <3>4. n.db[up[k - 1]].location = m.db[up[k - 1]].location
      BY <3>2
    <3> QED BY <2>2, <3>1, <3>2, <3>3, <3>4
  <2>6. \A k \in 0..DbTop : k \in W
    <3> HIDE DEF W
    <3> QED BY <2>4, <2>5, UpTo, Names
  <2>7. up[DbTop] \in S
    BY <2>6, Names
  <2> QED BY <2>3, <2>7, Names
<1> QED BY <1>2, <1>3

\* An empty list.
LEMMA EmptyRange ==
  ASSUME NEW T, NEW s \in Seq(T)
  PROVE  Range(s) = {} <=> s = <<>>
<1>1. DOMAIN s = 1..Len(s) /\ Len(s) \in Nat
  OBVIOUS
<1>2. Range(s) = {} => Len(s) = 0
  <2> SUFFICES ASSUME Range(s) = {}, Len(s) # 0 PROVE FALSE
    OBVIOUS
  <2>1. 1 \in DOMAIN s
    BY <1>1
  <2> QED BY <2>1 DEF Range
<1>3. Len(s) = 0 => s = <<>>
  OBVIOUS
<1>4. Range(<<>>) = {}
  BY DEF Range
<1> QED BY <1>2, <1>3, <1>4

\* A destroyed object that keeps its fields stays one.
LEMMA StaysGarbage ==
  ASSUME NEW n \in Memories, NEW y \in Objects,
         n.db[y].type = "GARBAGE", n.db[y].owner = GOD, n.db[y].going = 0,
         n.db[y].home = NOTHING, n.db[y].exits = <<>>, n.db[y].location = NOTHING,
         Range(n.db[y].contents) = {}
  PROVE  n.db[y] = Garbage
<1>1. n.db[y].contents = <<>>
  BY Fields, EmptyRange
<1>2. n.db[y] \in ObjectRecords
  BY Fields
<1> QED BY <1>1, <1>2 DEF Garbage, ObjectRecords

\* Once x is in loc, x is in order.
LEMMA MovedSound ==
  ASSUME NEW m, NEW n, NEW K, NEW x \in Objects, NEW loc \in Objects,
         Sound(m, K \cup {x}), CanEnter(m, x, loc), Holds(m, loc), Moved(m, n, x, loc)
  PROVE  Sound(n, K \ {x})
<1>1. m \in Memories /\ Rooted(m) /\ Mobile(m, x)
  BY SoundParts DEF CanEnter
<1>2. /\ n \in Memories /\ n.free = m.free
      /\ \A o \in Objects :
           /\ n.db[o].type = m.db[o].type
           /\ n.db[o].owner = m.db[o].owner
           /\ n.db[o].going = m.db[o].going
           /\ n.db[o].home = m.db[o].home
           /\ n.db[o].exits = m.db[o].exits
           /\ IsInjective(n.db[o].contents)
      /\ n.db[x].location = loc
      /\ \A o \in Objects : o # x => n.db[o].location = m.db[o].location
      /\ Range(n.db[loc].contents) = Range(m.db[loc].contents) \cup {x}
      /\ \A o \in Objects : o # loc => Range(n.db[o].contents) = Range(m.db[o].contents) \ {x}
  BY DEF Moved, Alike
<1>3. \A o \in Objects :
        /\ IsRoom(n, o) <=> IsRoom(m, o)
        /\ IsExit(n, o) <=> IsExit(m, o)
        /\ IsPlayer(n, o) <=> IsPlayer(m, o)
        /\ IsGarbage(n, o) <=> IsGarbage(m, o)
        /\ Mobile(n, o) <=> Mobile(m, o)
        /\ Holds(n, o) <=> Holds(m, o)
  BY <1>2, SameKinds DEF Kinds
<1>4. IsPlayer(n, GOD) /\ IsRoom(n, DEFAULT_HOME)
  BY <1>3, Names, SoundParts
<1>5. ASSUME NEW y \in Objects PROVE Linked(n, y, K \ {x})
  <2>0. /\ IsGarbage(m, y) => m.db[y] = Garbage
        /\ ~IsGarbage(m, y) => IsPlayer(m, m.db[y].owner)
        /\ IsPlayer(m, y) => m.db[y].owner = y
        /\ Mobile(m, y) =>
             /\ Holds(m, m.db[y].home) /\ m.db[y].home \in Objects /\ m.db[y].home # y
             /\ m.db[y].location # NOTHING => ~IsExit(m, m.db[y].location)
             /\ y \notin K \cup {x} => Holds(m, m.db[y].location) /\ m.db[y].location \in Objects
        /\ IsExit(m, y) =>
             /\ m.db[y].home \in Objects /\ IsRoom(m, m.db[y].home)
             /\ m.db[y].location # NOTHING => ~IsGarbage(m, m.db[y].location)
        /\ IsRoom(m, y) /\ m.db[y].location # NOTHING => IsRoom(m, m.db[y].location)
    BY SoundLinked
  <2>1. m.db[y].owner \in Objects /\ m.db[y].location \in Objects \cup {NOTHING}
    BY <1>1, Fields
  <2>2. IsGarbage(n, y) => n.db[y] = Garbage
    <3> SUFFICES ASSUME IsGarbage(n, y) PROVE n.db[y] = Garbage
      OBVIOUS
    <3>1. m.db[y] = Garbage /\ y # x /\ y # loc
      BY <1>1, <1>3, <2>0, OneKind
    <3>2. /\ n.db[y].type = "GARBAGE" /\ n.db[y].owner = GOD /\ n.db[y].going = 0
          /\ n.db[y].home = NOTHING /\ n.db[y].exits = <<>> /\ n.db[y].location = NOTHING
      <4>1. /\ m.db[y].type = "GARBAGE" /\ m.db[y].owner = GOD /\ m.db[y].going = 0
            /\ m.db[y].home = NOTHING /\ m.db[y].exits = <<>> /\ m.db[y].location = NOTHING
        BY <3>1 DEF Garbage
      <4> QED BY <1>2, <3>1, <4>1
    <3>3. Range(m.db[y].contents) = {}
      BY <3>1 DEF Garbage, Range
    <3>4. Range(n.db[y].contents) = {}
      BY <1>2, <3>1, <3>3
    <3> QED BY <1>2, <3>2, <3>4, StaysGarbage
  <2>3. ~IsGarbage(n, y) => IsPlayer(n, n.db[y].owner)
    BY <1>2, <1>3, <2>0, <2>1
  <2>4. IsPlayer(n, y) => n.db[y].owner = y
    BY <1>2, <1>3, <2>0
  <2>5. Mobile(n, y) => Holds(n, n.db[y].home) /\ n.db[y].home # y
    BY <1>2, <1>3, <2>0
  <2>a. ~IsExit(m, loc) /\ ~IsGarbage(m, loc)
    BY <1>1, OneKind
  <2>6. Mobile(n, y) /\ n.db[y].location # NOTHING => ~IsExit(n, n.db[y].location)
    <3>1. CASE y = x
      BY <3>1, <1>2, <1>3, <2>a
    <3>2. CASE y # x
      BY <3>2, <1>2, <1>3, <2>0, <2>1
    <3> QED BY <3>1, <3>2
  <2>7. Mobile(n, y) /\ y \notin K \ {x} => Holds(n, n.db[y].location)
    <3>1. CASE y = x
      BY <3>1, <1>2, <1>3
    <3>2. CASE y # x
      BY <3>2, <1>2, <1>3, <2>0, <2>1
    <3> QED BY <3>1, <3>2
  <2>8. IsExit(n, y) => /\ n.db[y].home # NOTHING /\ IsRoom(n, n.db[y].home)
                        /\ n.db[y].location # NOTHING => ~IsGarbage(n, n.db[y].location)
    <3>1. IsExit(n, y) => y # x
      BY <1>1, <1>3, OneKind
    <3> QED BY <3>1, <1>2, <1>3, <2>0, <2>1, Names
  <2>9. IsRoom(n, y) /\ n.db[y].location # NOTHING => IsRoom(n, n.db[y].location)
    <3>1. IsRoom(n, y) => y # x
      BY <1>1, <1>3, OneKind
    <3> QED BY <3>1, <1>2, <1>3, <2>0, <2>1
  <2> QED BY <2>2, <2>3, <2>4, <2>5, <2>6, <2>7, <2>8, <2>9 DEF Linked
<1>7. ASSUME NEW y \in Objects PROVE Listed(n, y, K \ {x})
  <2>1. /\ IsInjective(m.db[y].contents) /\ IsInjective(m.db[y].exits)
        /\ \A z \in Range(m.db[y].contents) : z \in Objects /\ Mobile(m, z) /\ m.db[z].location = y
        /\ \A z \in Range(m.db[y].exits) : z \in Objects /\ IsExit(m, z) /\ m.db[z].home = y
        /\ y \notin K \cup {x} =>
             /\ Mobile(m, y) => y \in Range(m.db[m.db[y].location].contents)
             /\ IsExit(m, y) => y \in Range(m.db[m.db[y].home].exits)
    BY SoundListed
  <2>2. ASSUME NEW z \in Range(n.db[y].contents) PROVE Mobile(n, z) /\ n.db[z].location = y
    <3>1. CASE z = x
      BY <3>1, <1>1, <1>2, <1>3, <2>2
    <3>2. CASE z # x
      <4>1. z \in Range(m.db[y].contents)
        BY <3>2, <1>2, <2>2
      <4> QED BY <4>1, <3>2, <1>2, <1>3, <2>1
    <3> QED BY <3>1, <3>2
  <2>3. ASSUME NEW z \in Range(n.db[y].exits) PROVE IsExit(n, z) /\ n.db[z].home = y
    BY <1>2, <1>3, <2>1, <2>3
  <2>4. ASSUME y \notin K \ {x}, Mobile(n, y)
        PROVE  y \in Range(n.db[n.db[y].location].contents)
    <3>1. CASE y = x
      BY <3>1, <1>2
    <3>2. CASE y # x
      <4>1. /\ y \in Range(m.db[m.db[y].location].contents) /\ m.db[y].location \in Objects
        BY <3>2, <1>3, <2>1, <2>4, SoundLinked
      <4> QED BY <4>1, <3>2, <1>2
    <3> QED BY <3>1, <3>2
  <2>5. ASSUME y \notin K \ {x}, IsExit(n, y)
        PROVE  y \in Range(n.db[n.db[y].home].exits)
    <3>1. IsExit(m, y) /\ y # x
      BY <1>1, <1>3, <2>5, OneKind
    <3>2. m.db[y].home \in Objects /\ y \in Range(m.db[m.db[y].home].exits)
      BY <3>1, <2>1, <2>5, SoundLinked
    <3> QED BY <3>2, <1>2
  <2> QED BY <1>2, <2>1, <2>2, <2>3, <2>4, <2>5 DEF Listed
<1>9. Rooted(n)
  <2>1. \A o \in Objects : Mobile(n, o) => Mobile(m, o)
    BY <1>3
  <2> QED BY <1>1, <1>2, <2>1, EnterRooted
<1>10. IsInjective(n.free) /\ Range(n.free) = {y \in Objects : IsGarbage(n, y)}
  BY <1>2, <1>3, SoundParts
<1> QED BY <1>2, <1>4, <1>5, <1>7, <1>9, <1>10 DEF Sound

\* The loop of send_contents(), step by step.
LEMMA SendSteps ==
  ASSUME NEW m \in Memories, NEW loc \in Objects, NEW dest
  PROVE  \E f : /\ f[0] = m
                /\ \A n \in 1..Len(m.db[loc].contents) : f[n] = Sent(f[n - 1], m.db[loc].contents[n], dest)
                /\ send_contents(m, loc, dest) = f[Len(m.db[loc].contents)]
<1> DEFINE V(f, n) == IF n = 0 THEN m
                      ELSE Sent(f[n - 1], m.db[loc].contents[n], dest)
           ok == {k \in Nat : \E f : f = [n \in 0..k |-> V(f, n)]}
<1>1. 0 \in ok
  <2> DEFINE g == [n \in 0..0 |-> m]
  <2>1. g = [n \in 0..0 |-> V(g, n)]
    OBVIOUS
  <2> QED BY <2>1
<1>2. ASSUME NEW k \in Nat, k \in ok PROVE k + 1 \in ok
  <2>1. PICK f : f = [n \in 0..k |-> V(f, n)]
    BY <1>2
  <2> DEFINE g == [n \in 0..(k + 1) |-> IF n = k + 1 THEN V(f, n) ELSE f[n]]
  <2>2. ASSUME NEW n \in 0..(k + 1) PROVE g[n] = V(g, n)
    <3>1. n = 0 \/ (n - 1 \in 0..k /\ n - 1 \in 0..(k + 1) /\ n - 1 # k + 1)
      OBVIOUS
    <3>2. n = 0 \/ g[n - 1] = f[n - 1]
      BY <3>1
    <3>5. g[n] = IF n = k + 1 THEN V(f, n) ELSE f[n]
      OBVIOUS
    <3>4. n # k + 1 => f[n] = V(f, n)
      BY <2>1
    <3> HIDE DEF g
    <3>3. V(g, n) = V(f, n)
      BY <3>2
    <3> HIDE DEF V
    <3> QED BY <3>3, <3>4, <3>5
  <2>3. g = [n \in 0..(k + 1) |-> V(g, n)]
    BY <2>2
  <2> HIDE DEF g
  <2> QED BY <2>3
<1>3. Len(m.db[loc].contents) \in Nat
  BY Fields
<1>4. Len(m.db[loc].contents) \in ok
  <2> HIDE DEF ok
  <2>1. Nat \subseteq ok
    BY <1>1, <1>2, NatSetInduction
  <2> QED BY <1>3, <2>1
<1> DEFINE f == CHOOSE g : g = [n \in 0..Len(m.db[loc].contents) |-> V(g, n)]
<1>5. send_contents(m, loc, dest) = f[Len(m.db[loc].contents)]
  BY DEF send_contents
<1>6. f = [n \in 0..Len(m.db[loc].contents) |-> V(f, n)]
  <2>1. \E g : g = [n \in 0..Len(m.db[loc].contents) |-> V(g, n)]
    BY <1>4
  <2> QED BY <2>1
<1> HIDE DEF f
<1>7. 0 \in 0..Len(m.db[loc].contents) /\ \A n \in 1..Len(m.db[loc].contents) : n \in 0..Len(m.db[loc].contents) /\ n # 0
  BY <1>3
<1>8. \A n \in 0..Len(m.db[loc].contents) : f[n] = V(f, n)
  BY <1>6
<1>9. f[0] = m /\ \A n \in 1..Len(m.db[loc].contents) : f[n] = Sent(f[n - 1], m.db[loc].contents[n], dest)
  BY <1>7, <1>8
<1> QED BY <1>5, <1>9

\* The loop over the database in free_object(), step by step.
LEMMA UnlinkSteps ==
  ASSUME NEW m, NEW x
  PROVE  \E f : /\ f[0] = m
                /\ \A n \in 1..DbTop : f[n] = Unlinked(f[n - 1], n - 1, x)
                /\ AllUnlinked(m, x) = f[DbTop]
<1> DEFINE V(f, n) == IF n = 0 THEN m
                      ELSE Unlinked(f[n - 1], n - 1, x)
           ok == {k \in Nat : \E f : f = [n \in 0..k |-> V(f, n)]}
<1>1. 0 \in ok
  <2> DEFINE g == [n \in 0..0 |-> m]
  <2>1. g = [n \in 0..0 |-> V(g, n)]
    OBVIOUS
  <2> QED BY <2>1
<1>2. ASSUME NEW k \in Nat, k \in ok PROVE k + 1 \in ok
  <2>1. PICK f : f = [n \in 0..k |-> V(f, n)]
    BY <1>2
  <2> DEFINE g == [n \in 0..(k + 1) |-> IF n = k + 1 THEN V(f, n) ELSE f[n]]
  <2>2. ASSUME NEW n \in 0..(k + 1) PROVE g[n] = V(g, n)
    <3>1. n = 0 \/ (n - 1 \in 0..k /\ n - 1 \in 0..(k + 1) /\ n - 1 # k + 1)
      OBVIOUS
    <3>2. n = 0 \/ g[n - 1] = f[n - 1]
      BY <3>1
    <3>5. g[n] = IF n = k + 1 THEN V(f, n) ELSE f[n]
      OBVIOUS
    <3>4. n # k + 1 => f[n] = V(f, n)
      BY <2>1
    <3> HIDE DEF g
    <3>3. V(g, n) = V(f, n)
      BY <3>2
    <3> HIDE DEF V
    <3> QED BY <3>3, <3>4, <3>5
  <2>3. g = [n \in 0..(k + 1) |-> V(g, n)]
    BY <2>2
  <2> HIDE DEF g
  <2> QED BY <2>3
<1>3. DbTop \in Nat
  BY Names
<1>4. DbTop \in ok
  <2> HIDE DEF ok
  <2>1. Nat \subseteq ok
    BY <1>1, <1>2, NatSetInduction
  <2> QED BY <1>3, <2>1
<1> DEFINE f == CHOOSE g : g = [n \in 0..DbTop |-> V(g, n)]
<1>5. AllUnlinked(m, x) = f[DbTop]
  BY DEF AllUnlinked
<1>6. f = [n \in 0..DbTop |-> V(f, n)]
  <2>1. \E g : g = [n \in 0..DbTop |-> V(g, n)]
    BY <1>4
  <2> QED BY <2>1
<1> HIDE DEF f
<1>7. 0 \in 0..DbTop /\ \A n \in 1..DbTop : n \in 0..DbTop /\ n # 0
  BY <1>3
<1>8. \A n \in 0..DbTop : f[n] = V(f, n)
  BY <1>6
<1>9. f[0] = m /\ \A n \in 1..DbTop : f[n] = Unlinked(f[n - 1], n - 1, x)
  BY <1>7, <1>8
<1> QED BY <1>5, <1>9

\* The loop over the database in free_object() without the cut of Severed.
AllRehoused(m, x) ==
    LET rehoused[n \in 0..DbTop] ==
            IF n = 0 THEN m ELSE Rehoused(rehoused[n - 1], n - 1, x)
    IN rehoused[DbTop]

\* That loop, step by step.
LEMMA RehouseSteps ==
  ASSUME NEW m, NEW x
  PROVE  \E f : /\ f[0] = m
                /\ \A n \in 1..DbTop : f[n] = Rehoused(f[n - 1], n - 1, x)
                /\ AllRehoused(m, x) = f[DbTop]
<1> DEFINE V(f, n) == IF n = 0 THEN m
                      ELSE Rehoused(f[n - 1], n - 1, x)
           ok == {k \in Nat : \E f : f = [n \in 0..k |-> V(f, n)]}
<1>1. 0 \in ok
  <2> DEFINE g == [n \in 0..0 |-> m]
  <2>1. g = [n \in 0..0 |-> V(g, n)]
    OBVIOUS
  <2> QED BY <2>1
<1>2. ASSUME NEW k \in Nat, k \in ok PROVE k + 1 \in ok
  <2>1. PICK f : f = [n \in 0..k |-> V(f, n)]
    BY <1>2
  <2> DEFINE g == [n \in 0..(k + 1) |-> IF n = k + 1 THEN V(f, n) ELSE f[n]]
  <2>2. ASSUME NEW n \in 0..(k + 1) PROVE g[n] = V(g, n)
    <3>1. n = 0 \/ (n - 1 \in 0..k /\ n - 1 \in 0..(k + 1) /\ n - 1 # k + 1)
      OBVIOUS
    <3>2. n = 0 \/ g[n - 1] = f[n - 1]
      BY <3>1
    <3>5. g[n] = IF n = k + 1 THEN V(f, n) ELSE f[n]
      OBVIOUS
    <3>4. n # k + 1 => f[n] = V(f, n)
      BY <2>1
    <3> HIDE DEF g
    <3>3. V(g, n) = V(f, n)
      BY <3>2
    <3> HIDE DEF V
    <3> QED BY <3>3, <3>4, <3>5
  <2>3. g = [n \in 0..(k + 1) |-> V(g, n)]
    BY <2>2
  <2> HIDE DEF g
  <2> QED BY <2>3
<1>3. DbTop \in Nat
  BY Names
<1>4. DbTop \in ok
  <2> HIDE DEF ok
  <2>1. Nat \subseteq ok
    BY <1>1, <1>2, NatSetInduction
  <2> QED BY <1>3, <2>1
<1> DEFINE f == CHOOSE g : g = [n \in 0..DbTop |-> V(g, n)]
<1>5. AllRehoused(m, x) = f[DbTop]
  BY DEF AllRehoused
<1>6. f = [n \in 0..DbTop |-> V(f, n)]
  <2>1. \E g : g = [n \in 0..DbTop |-> V(g, n)]
    BY <1>4
  <2> QED BY <2>1
<1> HIDE DEF f
<1>7. 0 \in 0..DbTop /\ \A n \in 1..DbTop : n \in 0..DbTop /\ n # 0
  BY <1>3
<1>8. \A n \in 0..DbTop : f[n] = V(f, n)
  BY <1>6
<1>9. f[0] = m /\ \A n \in 1..DbTop : f[n] = Rehoused(f[n - 1], n - 1, x)
  BY <1>7, <1>8
<1> QED BY <1>5, <1>9

\* The loop of safe_tel(), step by step.
LEMMA CarrySteps ==
  ASSUME NEW m \in Memories, NEW x \in Objects, NEW dest
  PROVE  \E f : /\ f[0] = Blasted(m, x)
                /\ \A n \in 1..Len(m.db[x].contents) : f[n] = Carried(f[n - 1], m.db[x].contents[n], x)
                /\ safe_tel(m, x, dest) =
                     IF m.db[x].location # NOTHING /\ m.db[m.db[x].location].owner = m.db[dest].owner
                     THEN enter_room(m, x, dest)
                     ELSE enter_room(f[Len(m.db[x].contents)], x, dest)
<1> DEFINE V(f, n) == IF n = 0 THEN Blasted(m, x)
                      ELSE Carried(f[n - 1], m.db[x].contents[n], x)
           ok == {k \in Nat : \E f : f = [n \in 0..k |-> V(f, n)]}
<1>1. 0 \in ok
  <2> DEFINE g == [n \in 0..0 |-> Blasted(m, x)]
  <2>1. g = [n \in 0..0 |-> V(g, n)]
    OBVIOUS
  <2> QED BY <2>1
<1>2. ASSUME NEW k \in Nat, k \in ok PROVE k + 1 \in ok
  <2>1. PICK f : f = [n \in 0..k |-> V(f, n)]
    BY <1>2
  <2> DEFINE g == [n \in 0..(k + 1) |-> IF n = k + 1 THEN V(f, n) ELSE f[n]]
  <2>2. ASSUME NEW n \in 0..(k + 1) PROVE g[n] = V(g, n)
    <3>1. n = 0 \/ (n - 1 \in 0..k /\ n - 1 \in 0..(k + 1) /\ n - 1 # k + 1)
      OBVIOUS
    <3>2. n = 0 \/ g[n - 1] = f[n - 1]
      BY <3>1
    <3>5. g[n] = IF n = k + 1 THEN V(f, n) ELSE f[n]
      OBVIOUS
    <3>4. n # k + 1 => f[n] = V(f, n)
      BY <2>1
    <3> HIDE DEF g
    <3>3. V(g, n) = V(f, n)
      BY <3>2
    <3> HIDE DEF V
    <3> QED BY <3>3, <3>4, <3>5
  <2>3. g = [n \in 0..(k + 1) |-> V(g, n)]
    BY <2>2
  <2> HIDE DEF g
  <2> QED BY <2>3
<1>3. Len(m.db[x].contents) \in Nat
  BY Fields
<1>4. Len(m.db[x].contents) \in ok
  <2> HIDE DEF ok
  <2>1. Nat \subseteq ok
    BY <1>1, <1>2, NatSetInduction
  <2> QED BY <1>3, <2>1
<1> DEFINE f == CHOOSE g : g = [n \in 0..Len(m.db[x].contents) |-> V(g, n)]
<1>5. safe_tel(m, x, dest) =
                     IF m.db[x].location # NOTHING /\ m.db[m.db[x].location].owner = m.db[dest].owner
                     THEN enter_room(m, x, dest)
                     ELSE enter_room(f[Len(m.db[x].contents)], x, dest)
  BY DEF safe_tel
<1>6. f = [n \in 0..Len(m.db[x].contents) |-> V(f, n)]
  <2>1. \E g : g = [n \in 0..Len(m.db[x].contents) |-> V(g, n)]
    BY <1>4
  <2> QED BY <2>1
<1> HIDE DEF f
<1>7. 0 \in 0..Len(m.db[x].contents) /\ \A n \in 1..Len(m.db[x].contents) : n \in 0..Len(m.db[x].contents) /\ n # 0
  BY <1>3
<1>8. \A n \in 0..Len(m.db[x].contents) : f[n] = V(f, n)
  BY <1>6
<1>9. f[0] = Blasted(m, x) /\ \A n \in 1..Len(m.db[x].contents) : f[n] = Carried(f[n - 1], m.db[x].contents[n], x)
  BY <1>7, <1>8
<1> QED BY <1>5, <1>9

\* The loop of empty_contents(), step by step.
LEMMA EmptySteps ==
  ASSUME NEW m \in Memories, NEW x \in Objects
  PROVE  \E f : /\ f[0] = Blasted(m, x)
                /\ \A n \in 1..Len(m.db[x].contents) : f[n] = Evicted(f[n - 1], m.db[x].contents[n], x)
                /\ empty_contents(m, x) = f[Len(m.db[x].contents)]
<1> DEFINE V(f, n) == IF n = 0 THEN Blasted(m, x)
                      ELSE Evicted(f[n - 1], m.db[x].contents[n], x)
           ok == {k \in Nat : \E f : f = [n \in 0..k |-> V(f, n)]}
<1>1. 0 \in ok
  <2> DEFINE g == [n \in 0..0 |-> Blasted(m, x)]
  <2>1. g = [n \in 0..0 |-> V(g, n)]
    OBVIOUS
  <2> QED BY <2>1
<1>2. ASSUME NEW k \in Nat, k \in ok PROVE k + 1 \in ok
  <2>1. PICK f : f = [n \in 0..k |-> V(f, n)]
    BY <1>2
  <2> DEFINE g == [n \in 0..(k + 1) |-> IF n = k + 1 THEN V(f, n) ELSE f[n]]
  <2>2. ASSUME NEW n \in 0..(k + 1) PROVE g[n] = V(g, n)
    <3>1. n = 0 \/ (n - 1 \in 0..k /\ n - 1 \in 0..(k + 1) /\ n - 1 # k + 1)
      OBVIOUS
    <3>2. n = 0 \/ g[n - 1] = f[n - 1]
      BY <3>1
    <3>5. g[n] = IF n = k + 1 THEN V(f, n) ELSE f[n]
      OBVIOUS
    <3>4. n # k + 1 => f[n] = V(f, n)
      BY <2>1
    <3> HIDE DEF g
    <3>3. V(g, n) = V(f, n)
      BY <3>2
    <3> HIDE DEF V
    <3> QED BY <3>3, <3>4, <3>5
  <2>3. g = [n \in 0..(k + 1) |-> V(g, n)]
    BY <2>2
  <2> HIDE DEF g
  <2> QED BY <2>3
<1>3. Len(m.db[x].contents) \in Nat
  BY Fields
<1>4. Len(m.db[x].contents) \in ok
  <2> HIDE DEF ok
  <2>1. Nat \subseteq ok
    BY <1>1, <1>2, NatSetInduction
  <2> QED BY <1>3, <2>1
<1> DEFINE f == CHOOSE g : g = [n \in 0..Len(m.db[x].contents) |-> V(g, n)]
<1>5. empty_contents(m, x) = f[Len(m.db[x].contents)]
  BY DEF empty_contents
<1>6. f = [n \in 0..Len(m.db[x].contents) |-> V(f, n)]
  <2>1. \E g : g = [n \in 0..Len(m.db[x].contents) |-> V(g, n)]
    BY <1>4
  <2> QED BY <2>1
<1> HIDE DEF f
<1>7. 0 \in 0..Len(m.db[x].contents) /\ \A n \in 1..Len(m.db[x].contents) : n \in 0..Len(m.db[x].contents) /\ n # 0
  BY <1>3
<1>8. \A n \in 0..Len(m.db[x].contents) : f[n] = V(f, n)
  BY <1>6
<1>9. f[0] = Blasted(m, x) /\ \A n \in 1..Len(m.db[x].contents) : f[n] = Evicted(f[n - 1], m.db[x].contents[n], x)
  BY <1>7, <1>8
<1> QED BY <1>5, <1>9

\* The loop of clear_room(), step by step.
LEMMA RoomSteps ==
  ASSUME NEW m, NEW x \in Objects, NEW a \in Memories, a = empty_contents(m, x)
  PROVE  \E f : /\ f[0] = Shut(a, x)
                /\ \A n \in 1..Len(a.db[x].exits) : f[n] = Reclaimed(clear_exit(f[n - 1], a.db[x].exits[n]), a.db[x].exits[n])
                /\ clear_room(m, x) = f[Len(a.db[x].exits)]
<1> DEFINE V(f, n) == IF n = 0 THEN Shut(a, x)
                      ELSE Reclaimed(clear_exit(f[n - 1], a.db[x].exits[n]), a.db[x].exits[n])
           ok == {k \in Nat : \E f : f = [n \in 0..k |-> V(f, n)]}
<1>1. 0 \in ok
  <2> DEFINE g == [n \in 0..0 |-> Shut(a, x)]
  <2>1. g = [n \in 0..0 |-> V(g, n)]
    OBVIOUS
  <2> QED BY <2>1
<1>2. ASSUME NEW k \in Nat, k \in ok PROVE k + 1 \in ok
  <2>1. PICK f : f = [n \in 0..k |-> V(f, n)]
    BY <1>2
  <2> DEFINE g == [n \in 0..(k + 1) |-> IF n = k + 1 THEN V(f, n) ELSE f[n]]
  <2>2. ASSUME NEW n \in 0..(k + 1) PROVE g[n] = V(g, n)
    <3>1. n = 0 \/ (n - 1 \in 0..k /\ n - 1 \in 0..(k + 1) /\ n - 1 # k + 1)
      OBVIOUS
    <3>2. n = 0 \/ g[n - 1] = f[n - 1]
      BY <3>1
    <3>5. g[n] = IF n = k + 1 THEN V(f, n) ELSE f[n]
      OBVIOUS
    <3>4. n # k + 1 => f[n] = V(f, n)
      BY <2>1
    <3> HIDE DEF g
    <3>3. V(g, n) = V(f, n)
      BY <3>2
    <3> HIDE DEF V
    <3> QED BY <3>3, <3>4, <3>5
  <2>3. g = [n \in 0..(k + 1) |-> V(g, n)]
    BY <2>2
  <2> HIDE DEF g
  <2> QED BY <2>3
<1>3. Len(a.db[x].exits) \in Nat
  BY Fields
<1>4. Len(a.db[x].exits) \in ok
  <2> HIDE DEF ok
  <2>1. Nat \subseteq ok
    BY <1>1, <1>2, NatSetInduction
  <2> QED BY <1>3, <2>1
<1> DEFINE f == CHOOSE g : g = [n \in 0..Len(a.db[x].exits) |-> V(g, n)]
<1>5. clear_room(m, x) = f[Len(a.db[x].exits)]
  BY DEF clear_room
<1>6. f = [n \in 0..Len(a.db[x].exits) |-> V(f, n)]
  <2>1. \E g : g = [n \in 0..Len(a.db[x].exits) |-> V(g, n)]
    BY <1>4
  <2> QED BY <2>1
<1> HIDE DEF f
<1>7. 0 \in 0..Len(a.db[x].exits) /\ \A n \in 1..Len(a.db[x].exits) : n \in 0..Len(a.db[x].exits) /\ n # 0
  BY <1>3
<1>8. \A n \in 0..Len(a.db[x].exits) : f[n] = V(f, n)
  BY <1>6
<1>9. f[0] = Shut(a, x) /\ \A n \in 1..Len(a.db[x].exits) : f[n] = Reclaimed(clear_exit(f[n - 1], a.db[x].exits[n]), a.db[x].exits[n])
  BY <1>7, <1>8
<1> QED BY <1>5, <1>9

\* The loop of clear_player(), step by step.
LEMMA PlayerSteps ==
  ASSUME NEW m, NEW x
  PROVE  \E f : /\ f[0] = clear_thing(m, x)
                /\ \A n \in 1..DbTop : f[n] = Bequeathed(f[n - 1], n - 1, x)
                /\ clear_player(m, x) = f[DbTop]
<1> DEFINE V(f, n) == IF n = 0 THEN clear_thing(m, x)
                      ELSE Bequeathed(f[n - 1], n - 1, x)
           ok == {k \in Nat : \E f : f = [n \in 0..k |-> V(f, n)]}
<1>1. 0 \in ok
  <2> DEFINE g == [n \in 0..0 |-> clear_thing(m, x)]
  <2>1. g = [n \in 0..0 |-> V(g, n)]
    OBVIOUS
  <2> QED BY <2>1
<1>2. ASSUME NEW k \in Nat, k \in ok PROVE k + 1 \in ok
  <2>1. PICK f : f = [n \in 0..k |-> V(f, n)]
    BY <1>2
  <2> DEFINE g == [n \in 0..(k + 1) |-> IF n = k + 1 THEN V(f, n) ELSE f[n]]
  <2>2. ASSUME NEW n \in 0..(k + 1) PROVE g[n] = V(g, n)
    <3>1. n = 0 \/ (n - 1 \in 0..k /\ n - 1 \in 0..(k + 1) /\ n - 1 # k + 1)
      OBVIOUS
    <3>2. n = 0 \/ g[n - 1] = f[n - 1]
      BY <3>1
    <3>5. g[n] = IF n = k + 1 THEN V(f, n) ELSE f[n]
      OBVIOUS
    <3>4. n # k + 1 => f[n] = V(f, n)
      BY <2>1
    <3> HIDE DEF g
    <3>3. V(g, n) = V(f, n)
      BY <3>2
    <3> HIDE DEF V
    <3> QED BY <3>3, <3>4, <3>5
  <2>3. g = [n \in 0..(k + 1) |-> V(g, n)]
    BY <2>2
  <2> HIDE DEF g
  <2> QED BY <2>3
<1>3. DbTop \in Nat
  BY Names
<1>4. DbTop \in ok
  <2> HIDE DEF ok
  <2>1. Nat \subseteq ok
    BY <1>1, <1>2, NatSetInduction
  <2> QED BY <1>3, <2>1
<1> DEFINE f == CHOOSE g : g = [n \in 0..DbTop |-> V(g, n)]
<1>5. clear_player(m, x) = f[DbTop]
  BY DEF clear_player
<1>6. f = [n \in 0..DbTop |-> V(f, n)]
  <2>1. \E g : g = [n \in 0..DbTop |-> V(g, n)]
    BY <1>4
  <2> QED BY <2>1
<1> HIDE DEF f
<1>7. 0 \in 0..DbTop /\ \A n \in 1..DbTop : n \in 0..DbTop /\ n # 0
  BY <1>3
<1>8. \A n \in 0..DbTop : f[n] = V(f, n)
  BY <1>6
<1>9. f[0] = clear_thing(m, x) /\ \A n \in 1..DbTop : f[n] = Bequeathed(f[n - 1], n - 1, x)
  BY <1>7, <1>8
<1> QED BY <1>5, <1>9

\* The loop of purge(), step by step.
LEMMA PurgeSteps ==
  ASSUME NEW m
  PROVE  \E f : /\ f[0] = m
                /\ \A n \in 1..DbTop : f[n] = PurgeOne(f[n - 1], n - 1)
                /\ PurgedTo(m) = f /\ Purged(m) = f[DbTop]
<1> DEFINE V(f, n) == IF n = 0 THEN m
                      ELSE PurgeOne(f[n - 1], n - 1)
           ok == {k \in Nat : \E f : f = [n \in 0..k |-> V(f, n)]}
<1>1. 0 \in ok
  <2> DEFINE g == [n \in 0..0 |-> m]
  <2>1. g = [n \in 0..0 |-> V(g, n)]
    OBVIOUS
  <2> QED BY <2>1
<1>2. ASSUME NEW k \in Nat, k \in ok PROVE k + 1 \in ok
  <2>1. PICK f : f = [n \in 0..k |-> V(f, n)]
    BY <1>2
  <2> DEFINE g == [n \in 0..(k + 1) |-> IF n = k + 1 THEN V(f, n) ELSE f[n]]
  <2>2. ASSUME NEW n \in 0..(k + 1) PROVE g[n] = V(g, n)
    <3>1. n = 0 \/ (n - 1 \in 0..k /\ n - 1 \in 0..(k + 1) /\ n - 1 # k + 1)
      OBVIOUS
    <3>2. n = 0 \/ g[n - 1] = f[n - 1]
      BY <3>1
    <3>5. g[n] = IF n = k + 1 THEN V(f, n) ELSE f[n]
      OBVIOUS
    <3>4. n # k + 1 => f[n] = V(f, n)
      BY <2>1
    <3> HIDE DEF g
    <3>3. V(g, n) = V(f, n)
      BY <3>2
    <3> HIDE DEF V
    <3> QED BY <3>3, <3>4, <3>5
  <2>3. g = [n \in 0..(k + 1) |-> V(g, n)]
    BY <2>2
  <2> HIDE DEF g
  <2> QED BY <2>3
<1>3. DbTop \in Nat
  BY Names
<1>4. DbTop \in ok
  <2> HIDE DEF ok
  <2>1. Nat \subseteq ok
    BY <1>1, <1>2, NatSetInduction
  <2> QED BY <1>3, <2>1
<1> DEFINE f == CHOOSE g : g = [n \in 0..DbTop |-> V(g, n)]
<1>5. PurgedTo(m) = f /\ Purged(m) = f[DbTop]
  BY DEF Purged, PurgedTo
<1>6. f = [n \in 0..DbTop |-> V(f, n)]
  <2>1. \E g : g = [n \in 0..DbTop |-> V(g, n)]
    BY <1>4
  <2> QED BY <2>1
<1> HIDE DEF f
<1>7. 0 \in 0..DbTop /\ \A n \in 1..DbTop : n \in 0..DbTop /\ n # 0
  BY <1>3
<1>8. \A n \in 0..DbTop : f[n] = V(f, n)
  BY <1>6
<1>9. f[0] = m /\ \A n \in 1..DbTop : f[n] = PurgeOne(f[n - 1], n - 1)
  BY <1>7, <1>8
<1> QED BY <1>5, <1>9

-----------------------------------------------------------------------------
\* Where things are may change, nothing else.

\* n differs from m only in where things are.
Rearranged(m, n) == n.free = m.free /\ \A o \in Objects : Alike(m, n, o)

\* What that leaves of the types.
LEMMA RearrangedKinds ==
  ASSUME NEW m, NEW n, Rearranged(m, n)
  PROVE  \A o \in Objects :
           /\ n.db[o].type = m.db[o].type /\ n.db[o].owner = m.db[o].owner
           /\ n.db[o].going = m.db[o].going /\ n.db[o].home = m.db[o].home
           /\ n.db[o].exits = m.db[o].exits
           /\ IsRoom(n, o) <=> IsRoom(m, o)
           /\ IsExit(n, o) <=> IsExit(m, o)
           /\ IsPlayer(n, o) <=> IsPlayer(m, o)
           /\ IsGarbage(n, o) <=> IsGarbage(m, o)
           /\ Mobile(n, o) <=> Mobile(m, o)
           /\ Holds(n, o) <=> Holds(m, o)
<1>1. \A o \in Objects : n.db[o].type = m.db[o].type /\ n.db[o].owner = m.db[o].owner
        /\ n.db[o].going = m.db[o].going /\ n.db[o].home = m.db[o].home
        /\ n.db[o].exits = m.db[o].exits
  BY DEF Rearranged, Alike
<1> QED BY <1>1, SameKinds DEF Kinds

\* One rearrangement after another.
LEMMA RearrangedTwice ==
  ASSUME NEW m, NEW n, NEW k, Rearranged(m, n), Rearranged(n, k)
  PROVE  Rearranged(m, k)
BY DEF Rearranged, Alike

\* No rearrangement.
LEMMA RearrangedSame ==
  ASSUME NEW m
  PROVE  Rearranged(m, m)
BY DEF Rearranged, Alike

\* Entering what can hold things.
LEMMA EnteredFacts ==
  ASSUME NEW m, NEW K, Sound(m, K), NEW x \in Objects, NEW loc \in Objects, Holds(m, loc)
  PROVE  /\ Sound(Entered(m, x, loc), K)
         /\ Rearranged(m, Entered(m, x, loc))
         /\ CanEnter(m, x, loc) =>
              Sound(Entered(m, x, loc), K \ {x}) /\ Moved(m, Entered(m, x, loc), x, loc)
         /\ ~CanEnter(m, x, loc) => Entered(m, x, loc) = m
<1> DEFINE n == Entered(m, x, loc)
<1>1. CASE ~CanEnter(m, x, loc)
  BY <1>1, RearrangedSame DEF Entered
<1>2. CASE CanEnter(m, x, loc)
  <2>1. n = moveit(m, x, loc)
    BY <1>2 DEF Entered
  <2>2. Moved(m, n, x, loc)
    BY <2>1, MoveitMoved
  <2> HIDE DEF n
  <2>3. K \subseteq K \cup {x} /\ K \ {x} \subseteq K
    OBVIOUS
  <2>4. Sound(m, K \cup {x})
    BY <2>3, SoundMonotonic
  <2>5. Sound(n, K \ {x})
    BY <1>2, <2>2, <2>4, MovedSound
  <2>6. Sound(n, K)
    BY <2>3, <2>5, SoundMonotonic
  <2>7. Rearranged(m, n)
    BY <2>2 DEF Moved, Rearranged
  <2> QED BY <1>2, <2>2, <2>5, <2>6, <2>7 DEF n
<1> QED BY <1>1, <1>2

\* send_contents() keeps everything in order.
LEMMA SendSound ==
  ASSUME NEW m, NEW K, Sound(m, K), NEW loc \in Objects, NEW dest \in Objects, Holds(m, dest)
  PROVE  /\ Sound(send_contents(m, loc, dest), K)
         /\ Rearranged(m, send_contents(m, loc, dest))
<1> DEFINE s == m.db[loc].contents
           N == Len(s)
<1>1. m \in Memories /\ s \in Seq(Objects) /\ N \in Nat
  BY SoundParts, Fields
<1>2. \A n \in 1..N : s[n] \in Objects /\ Mobile(m, s[n])
  <2>1. \A n \in 1..N : s[n] \in Range(s)
    BY <1>1 DEF Range
  <2> QED BY <2>1, SoundListed
<1>3. PICK f : /\ f[0] = m
               /\ \A n \in 1..N : f[n] = Sent(f[n - 1], s[n], dest)
               /\ send_contents(m, loc, dest) = f[N]
  BY <1>1, SendSteps
<1> HIDE DEF N, s
<1> DEFINE W == {n \in 0..N : Sound(f[n], K) /\ Rearranged(m, f[n])}
<1>4. 0 \in W
  BY <1>1, <1>3, RearrangedSame
<1>5. ASSUME NEW n \in 1..N, n - 1 \in W PROVE n \in W
  <2> DEFINE a == f[n - 1]
             i == s[n]
             to == IF i \in Sticky THEN a.db[i].home ELSE dest
  <2>1. Sound(a, K) /\ Rearranged(m, a) /\ f[n] = Sent(a, i, dest) /\ i \in Objects /\ Mobile(m, i)
    BY <1>2, <1>3, <1>5
  <2> HIDE DEF a, i
  <2>2. Mobile(a, i) /\ Holds(a, dest)
    BY <2>1, RearrangedKinds
  <2>3. to \in Objects /\ Holds(a, to)
    <3>1. a.db[i].home \in Objects /\ Holds(a, a.db[i].home)
      BY <2>1, <2>2, SoundLinked
    <3> QED BY <2>2, <3>1
  <2>4. f[n] = a \/ f[n] = Entered(a, i, to)
    BY <2>1 DEF Sent
  <2> HIDE DEF to
  <2>e. Sound(Entered(a, i, to), K) /\ Rearranged(a, Entered(a, i, to))
    BY <2>1, <2>3, EnteredFacts
  <2>s. Rearranged(a, a)
    BY RearrangedSame
  <2>5. Sound(f[n], K) /\ Rearranged(a, f[n])
    <3>1. CASE f[n] = a
      BY <2>1, <2>s, <3>1
    <3>2. CASE f[n] = Entered(a, i, to)
      BY <2>e, <3>2
    <3> QED BY <2>4, <3>1, <3>2
  <2>6. Rearranged(m, f[n])
    BY <2>1, <2>5, RearrangedTwice
  <2> QED BY <2>5, <2>6, <1>1
<1>6. \A n \in 0..N : n \in W
  <2> HIDE DEF W
  <2> QED BY <1>1, <1>4, <1>5, UpTo
<1>7. N \in 0..N
  BY <1>1
<1> QED BY <1>3, <1>6, <1>7

\* enter_room() keeps everything in order, the dropto it triggers included.
LEMMA EnterRoomSound ==
  ASSUME NEW m, NEW K, Sound(m, K), NEW x \in Objects, NEW loc \in Objects, Holds(m, loc)
  PROVE  /\ Sound(enter_room(m, x, loc), K)
         /\ Rearranged(m, enter_room(m, x, loc))
<1> DEFINE old == m.db[x].location
           moved == Entered(m, x, loc)
           n == enter_room(m, x, loc)
<1>1. Sound(moved, K) /\ Rearranged(m, moved)
  BY EnteredFacts
<1>2. m \in Memories /\ old \in Objects \cup {NOTHING}
  BY SoundParts, Fields
<1>3. n = moved \/ (/\ old # NOTHING /\ IsRoom(m, old) /\ m.db[old].location # NOTHING
                    /\ n = maybe_dropto(moved, old, m.db[old].location))
  BY DEF enter_room
<1> HIDE DEF old, moved, n
<1>4. CASE n = moved
  BY <1>1, <1>4 DEF n
<1>5. CASE /\ old # NOTHING /\ IsRoom(m, old) /\ m.db[old].location # NOTHING
           /\ n = maybe_dropto(moved, old, m.db[old].location)
  <2> DEFINE to == m.db[old].location
  <2>1. old \in Objects /\ to \in Objects /\ IsRoom(m, to)
    BY <1>2, <1>5, SoundLinked, Fields
  <2>2. Holds(moved, to)
    BY <1>1, <1>2, <2>1, RearrangedKinds, OneKind
  <2>3. n = moved \/ n = send_contents(moved, old, to)
    BY <1>5 DEF maybe_dropto
  <2> HIDE DEF to
  <2>4. Sound(n, K) /\ Rearranged(moved, n)
    BY <1>1, <2>1, <2>2, <2>3, SendSound, RearrangedSame
  <2> QED BY <1>1, <2>4, RearrangedTwice DEF n
<1> QED BY <1>3, <1>4, <1>5

\* Without a dropto it only moves.
LEMMA EnterRoomEntered ==
  ASSUME NEW m, NEW x, NEW loc,
         ~(Dropper(m, x) /\ m.db[x].location # NOTHING /\ IsRoom(m, m.db[x].location))
  PROVE  enter_room(m, x, loc) = Entered(m, x, loc)
BY DEF enter_room

-----------------------------------------------------------------------------
\* Changes that move nobody.

\* Object o is of the same type in n as in m and its fields still suit it:
\* of its lists some may be gone, and a player or thing may be nowhere now.
Fit(m, n, o) ==
  /\ n.db[o].type = m.db[o].type
  /\ IsGarbage(m, o) => n.db[o] = m.db[o]
  /\ n.db[o].owner = m.db[o].owner \/ (IsPlayer(m, n.db[o].owner) /\ ~IsPlayer(m, o))
  /\ Mobile(m, o) => /\ Holds(m, n.db[o].home) /\ n.db[o].home # o
                     /\ n.db[o].location \in {m.db[o].location, NOTHING}
  /\ ~Mobile(m, o) => n.db[o].home = m.db[o].home
  /\ IsExit(m, o) /\ n.db[o].location # NOTHING => ~IsGarbage(m, n.db[o].location)
  /\ IsRoom(m, o) /\ n.db[o].location # NOTHING => IsRoom(m, n.db[o].location)
  /\ IsInjective(n.db[o].contents) /\ Range(n.db[o].contents) \subseteq Range(m.db[o].contents)
  /\ IsInjective(n.db[o].exits) /\ Range(n.db[o].exits) \subseteq Range(m.db[o].exits)

\* An object outside of limbo is still on its list.
StillListed(m, n, o) ==
  /\ Mobile(m, o) => /\ n.db[o].location = m.db[o].location
                     /\ o \in Range(n.db[m.db[o].location].contents)
  /\ IsExit(m, o) => o \in Range(n.db[m.db[o].home].exits)

\* Such a change: who is on a list is still there.
Refitted(m, n) ==
  /\ n \in Memories /\ n.free = m.free
  /\ \A o \in Objects : Fit(m, n, o)
  /\ \A o \in Objects : \A y \in Range(n.db[o].contents) : n.db[y].location = m.db[y].location

\* An object nobody has changed.
LEMMA FitSame ==
  ASSUME NEW m, NEW K, Sound(m, K), NEW n, NEW o \in Objects, n.db[o] = m.db[o]
  PROVE  Fit(m, n, o)
BY SoundLinked, SoundListed DEF Fit

\* Changes like these keep everything in order.
LEMMA SoundRefitted ==
  ASSUME NEW m, NEW K, Sound(m, K), NEW n, NEW L, Refitted(m, n),
         \A o \in Objects : o \notin L => o \notin K /\ StillListed(m, n, o)
  PROVE  Sound(n, L)
<1>1. m \in Memories /\ n \in Memories /\ n.free = m.free
  BY SoundParts DEF Refitted
<1>2. \A o \in Objects : n.db[o].type = m.db[o].type
  BY DEF Refitted, Fit
<1>3. \A o \in Objects :
        /\ IsRoom(n, o) <=> IsRoom(m, o)
        /\ IsExit(n, o) <=> IsExit(m, o)
        /\ IsPlayer(n, o) <=> IsPlayer(m, o)
        /\ IsGarbage(n, o) <=> IsGarbage(m, o)
        /\ Mobile(n, o) <=> Mobile(m, o)
        /\ Holds(n, o) <=> Holds(m, o)
  BY <1>2, SameKinds DEF Kinds
<1>4. IsPlayer(n, GOD) /\ IsRoom(n, DEFAULT_HOME)
  BY <1>3, Names, SoundParts
<1>5. ASSUME NEW y \in Objects PROVE Linked(n, y, L)
  <2>1. /\ n.db[y].owner \in Objects /\ n.db[y].location \in Objects \cup {NOTHING}
        /\ n.db[y].home \in Objects \cup {NOTHING}
    BY <1>1, Fields
  <2>2. Fit(m, n, y) /\ (y \notin L => y \notin K /\ StillListed(m, n, y))
    BY DEF Refitted
  <2>3. /\ IsGarbage(m, y) => m.db[y] = Garbage
        /\ ~IsGarbage(m, y) => IsPlayer(m, m.db[y].owner)
        /\ IsPlayer(m, y) => m.db[y].owner = y
        /\ Mobile(m, y) =>
             /\ Holds(m, m.db[y].home) /\ m.db[y].home \in Objects /\ m.db[y].home # y
             /\ m.db[y].location # NOTHING => ~IsExit(m, m.db[y].location)
             /\ y \notin K => Holds(m, m.db[y].location) /\ m.db[y].location \in Objects
        /\ IsExit(m, y) =>
             /\ m.db[y].home \in Objects /\ IsRoom(m, m.db[y].home)
             /\ m.db[y].location # NOTHING => ~IsGarbage(m, m.db[y].location)
        /\ IsRoom(m, y) /\ m.db[y].location # NOTHING => IsRoom(m, m.db[y].location)
    BY SoundLinked
  <2>4. IsGarbage(n, y) => n.db[y] = Garbage
    BY <1>3, <2>2, <2>3 DEF Fit
  <2>5. n.db[y].owner = m.db[y].owner \/ (IsPlayer(m, n.db[y].owner) /\ ~IsPlayer(m, y))
    BY <2>2 DEF Fit
  <2>6. ~IsGarbage(n, y) => IsPlayer(n, n.db[y].owner)
    BY <1>3, <2>1, <2>3, <2>5
  <2>7. IsPlayer(n, y) => n.db[y].owner = y
    BY <1>3, <2>3, <2>5
  <2>8. Mobile(m, y) => /\ Holds(m, n.db[y].home) /\ n.db[y].home # y
                        /\ n.db[y].location \in {m.db[y].location, NOTHING}
    BY <2>2 DEF Fit
  <2>9. Mobile(n, y) => Holds(n, n.db[y].home) /\ n.db[y].home # y
    <3>1. Holds(m, n.db[y].home) => n.db[y].home \in Objects
      BY DEF Holds
    <3> QED BY <1>3, <2>8, <3>1
  <2>10. Mobile(n, y) /\ n.db[y].location # NOTHING => ~IsExit(n, n.db[y].location)
    BY <1>3, <2>1, <2>3, <2>8
  <2>11. Mobile(n, y) /\ y \notin L => Holds(n, n.db[y].location)
    <3>1. Mobile(m, y) /\ y \notin L => n.db[y].location = m.db[y].location
      BY <2>2 DEF StillListed
    <3> QED BY <1>3, <2>2, <2>3, <3>1
  <2>12. IsExit(n, y) => /\ n.db[y].home # NOTHING /\ IsRoom(n, n.db[y].home)
                         /\ n.db[y].location # NOTHING => ~IsGarbage(n, n.db[y].location)
    <3>1. IsExit(m, y) => ~Mobile(m, y)
      BY <1>1, OneKind
    <3>2. IsExit(m, y) => /\ n.db[y].home = m.db[y].home
                          /\ n.db[y].location # NOTHING => ~IsGarbage(m, n.db[y].location)
      BY <2>2, <3>1 DEF Fit
    <3> QED BY <1>3, <2>1, <2>3, <3>2, Names
  <2>13. IsRoom(n, y) /\ n.db[y].location # NOTHING => IsRoom(n, n.db[y].location)
    <3>1. IsRoom(m, y) /\ n.db[y].location # NOTHING => IsRoom(m, n.db[y].location)
      BY <2>2 DEF Fit
    <3> QED BY <1>3, <2>1, <3>1
  <2> QED BY <2>4, <2>6, <2>7, <2>9, <2>10, <2>11, <2>12, <2>13 DEF Linked
<1>6. ASSUME NEW y \in Objects PROVE Listed(n, y, L)
  <2>1. Fit(m, n, y) /\ (y \notin L => y \notin K /\ StillListed(m, n, y))
    BY DEF Refitted
  <2>2. /\ \A z \in Range(m.db[y].contents) : z \in Objects /\ Mobile(m, z) /\ m.db[z].location = y
        /\ \A z \in Range(m.db[y].exits) : z \in Objects /\ IsExit(m, z) /\ m.db[z].home = y
    BY SoundListed
  <2>3. /\ IsInjective(n.db[y].contents) /\ Range(n.db[y].contents) \subseteq Range(m.db[y].contents)
        /\ IsInjective(n.db[y].exits) /\ Range(n.db[y].exits) \subseteq Range(m.db[y].exits)
    BY <2>1 DEF Fit
  <2>4. ASSUME NEW z \in Range(n.db[y].contents) PROVE Mobile(n, z) /\ n.db[z].location = y
    <3>1. n.db[z].location = m.db[z].location
      BY DEF Refitted
    <3> QED BY <1>3, <2>2, <2>3, <3>1
  <2>5. ASSUME NEW z \in Range(n.db[y].exits) PROVE IsExit(n, z) /\ n.db[z].home = y
    <3>1. z \in Objects /\ IsExit(m, z) /\ m.db[z].home = y
      BY <2>2, <2>3
    <3>2. ~Mobile(m, z)
      BY <1>1, <3>1, OneKind
    <3>3. n.db[z].home = m.db[z].home
      BY <3>1, <3>2 DEF Refitted, Fit
    <3> QED BY <1>3, <3>1, <3>3
  <2>6. ASSUME y \notin L PROVE /\ Mobile(n, y) => y \in Range(n.db[n.db[y].location].contents)
                                /\ IsExit(n, y) => y \in Range(n.db[n.db[y].home].exits)
    <3>1. /\ Mobile(m, y) => /\ n.db[y].location = m.db[y].location
                             /\ y \in Range(n.db[m.db[y].location].contents)
          /\ IsExit(m, y) => y \in Range(n.db[m.db[y].home].exits)
      BY <2>1, <2>6 DEF StillListed
    <3>2. IsExit(m, y) => ~Mobile(m, y)
      BY <1>1, OneKind
    <3>3. IsExit(m, y) => n.db[y].home = m.db[y].home
      BY <2>1, <3>2 DEF Fit
    <3> QED BY <1>3, <3>1, <3>3
  <2> QED BY <2>3, <2>4, <2>5, <2>6 DEF Listed
<1>7. Rooted(n)
  <2> SUFFICES ASSUME NEW S \in SUBSET Objects, S # {}, \A y \in S : Mobile(n, y)
               PROVE  \E y \in S : n.db[y].location \notin S
    BY DEF Rooted
  <2>1. \A y \in S : Mobile(m, y)
    BY <1>3
  <2>2. PICK y \in S : m.db[y].location \notin S
    BY <2>1, SoundParts DEF Rooted
  <2>3. n.db[y].location \in {m.db[y].location, NOTHING}
    BY <2>1 DEF Refitted, Fit
  <2> QED BY <2>2, <2>3, Names
<1>8. IsInjective(n.free) /\ Range(n.free) = {y \in Objects : IsGarbage(n, y)}
  BY <1>1, <1>3, SoundParts
<1> QED BY <1>1, <1>4, <1>5, <1>6, <1>7, <1>8 DEF Sound

\* All objects are written.
LEMMA Rewritten ==
  ASSUME NEW m \in Memories, NEW d \in [Objects -> ObjectRecords]
  PROVE  LET n == [m EXCEPT !.db = d] IN n \in Memories /\ n.free = m.free /\ n.db = d
<1>1. m = [db |-> m.db, free |-> m.free] /\ m.free \in Seq(Objects)
  BY DEF Memories
<1>2. [m EXCEPT !.db = d] = [db |-> d, free |-> m.free]
  BY <1>1
<1> QED BY <1>1, <1>2 DEF Memories

\* What stays the same when things are taken out, relinked and put elsewhere.
Similar(m, n) ==
  /\ n.free = m.free
  /\ \A o \in Objects :
       /\ n.db[o].type = m.db[o].type /\ n.db[o].owner = m.db[o].owner
       /\ n.db[o].going = m.db[o].going
       /\ ~Mobile(m, o) => n.db[o].home = m.db[o].home

\* What that leaves of the types.
LEMMA SimilarKinds ==
  ASSUME NEW m, NEW n, Similar(m, n)
  PROVE  \A o \in Objects :
           /\ IsRoom(n, o) <=> IsRoom(m, o)
           /\ IsExit(n, o) <=> IsExit(m, o)
           /\ IsPlayer(n, o) <=> IsPlayer(m, o)
           /\ IsThing(n, o) <=> IsThing(m, o)
           /\ IsGarbage(n, o) <=> IsGarbage(m, o)
           /\ Mobile(n, o) <=> Mobile(m, o)
           /\ Holds(n, o) <=> Holds(m, o)
<1>1. \A o \in Objects : n.db[o].type = m.db[o].type
  BY DEF Similar
<1> QED BY <1>1, SameKinds DEF Kinds

\* One after the other.
LEMMA SimilarTwice ==
  ASSUME NEW m, NEW n, NEW k, Similar(m, n), Similar(n, k)
  PROVE  Similar(m, k)
<1>1. \A o \in Objects : Mobile(n, o) <=> Mobile(m, o)
  BY SimilarKinds
<1> QED BY <1>1 DEF Similar

\* Rearranging is one way.
LEMMA SimilarAlike ==
  ASSUME NEW m, NEW n, Rearranged(m, n)
  PROVE  Similar(m, n)
BY DEF Rearranged, Alike, Similar

\* The dying: a player who is not connected, with what is at home in him.
Dying(m, K) ==
  \A k \in K :
    /\ k \in Objects /\ ~special_object(k)
    /\ IsPlayer(m, k) => k \notin connected
    /\ \A y \in Range(m.db[k].contents) : m.db[y].home = k

\* In b nothing is in x any more, and what was is nowhere.
Turned(m, b, x) ==
  /\ Rearranged(m, b)
  /\ b.db[x].contents = <<>>
  /\ \A o \in Objects : o # x => b.db[o].contents = m.db[o].contents
  /\ \A o \in Range(m.db[x].contents) : b.db[o].location = NOTHING
  /\ \A o \in Objects \ Range(m.db[x].contents) : b.db[o].location = m.db[o].location

\* Emptying x leaves its items in limbo.
LEMMA BlastedFacts ==
  ASSUME NEW m, NEW K, Sound(m, K), NEW x \in Objects
  PROVE  /\ Sound(Blasted(m, x), K \cup Range(m.db[x].contents))
         /\ Turned(m, Blasted(m, x), x)
<1> DEFINE items == Range(m.db[x].contents)
           At(o) == IF o = x THEN [m.db[o] EXCEPT !.contents = <<>>]
                    ELSE IF o \in items THEN [m.db[o] EXCEPT !.location = NOTHING]
                    ELSE m.db[o]
           d == [o \in Objects |-> At(o)]
           b == Blasted(m, x)
           L == K \cup items
<1>1. b = [m EXCEPT !.db = d]
  BY DEF Blasted
<1>2. m \in Memories /\ \A o \in Objects : m.db[o] \in ObjectRecords
  BY SoundParts, Fields
<1>3. \A y \in items : y \in Objects /\ Mobile(m, y) /\ m.db[y].location = x
  BY SoundListed
<1>4. x \notin items
  <2>1. ASSUME x \in items PROVE FALSE
    <3>1. \A y \in {x} : Mobile(m, y)
      BY <1>3, <2>1
    <3>2. {x} \in SUBSET Objects /\ {x} # {}
      OBVIOUS
    <3>3. \E y \in {x} : m.db[y].location \notin {x}
      BY <3>1, <3>2, SoundParts DEF Rooted
    <3> QED BY <1>3, <2>1, <3>3
  <2> QED BY <2>1
<1> HIDE DEF items
<1>5. ASSUME NEW o \in Objects
      PROVE  /\ At(o) \in ObjectRecords
             /\ At(o).type = m.db[o].type /\ At(o).owner = m.db[o].owner
             /\ At(o).going = m.db[o].going /\ At(o).home = m.db[o].home
             /\ At(o).exits = m.db[o].exits
             /\ o = x => At(o).contents = <<>>
             /\ o # x => At(o).contents = m.db[o].contents
             /\ o \in items => At(o).location = NOTHING
             /\ o \notin items => At(o).location = m.db[o].location
             /\ o # x /\ o \notin items => At(o) = m.db[o]
  <2>1. <<>> \in Seq(Objects)
    OBVIOUS
  <2>2. CASE o = x
    <3> DEFINE r == m.db[o]
               q == [r EXCEPT !.contents = <<>>]
    <3>1. At(o) = q /\ o \notin items
      BY <1>4, <2>2
    <3>2. r \in ObjectRecords
      BY <1>2
    <3> HIDE DEF r
    <3>3. /\ q \in ObjectRecords
          /\ q.type = r.type /\ q.owner = r.owner /\ q.location = r.location /\ q.home = r.home
          /\ q.going = r.going /\ q.contents = <<>> /\ q.exits = r.exits
      BY <2>1, <3>2, FieldWritten
    <3> HIDE DEF q, At
    <3> QED BY <2>2, <3>1, <3>3 DEF r
  <2>3. CASE o # x /\ o \in items
    <3> DEFINE r == m.db[o]
               q == [r EXCEPT !.location = NOTHING]
    <3>1. At(o) = q
      BY <2>3
    <3>2. r \in ObjectRecords
      BY <1>2
    <3> HIDE DEF r
    <3>3. /\ q \in ObjectRecords
          /\ q.type = r.type /\ q.owner = r.owner /\ q.location = NOTHING /\ q.home = r.home
          /\ q.going = r.going /\ q.contents = r.contents /\ q.exits = r.exits
      <4> DEFINE none == NOTHING
      <4>1. none \in Objects \cup {NOTHING}
        OBVIOUS
      <4> HIDE DEF none
      <4>2. LET p == [r EXCEPT !.location = none]
            IN /\ p \in ObjectRecords
               /\ p.type = r.type /\ p.owner = r.owner /\ p.location = none /\ p.home = r.home
               /\ p.going = r.going /\ p.contents = r.contents /\ p.exits = r.exits
        BY <3>2, <4>1, LocationWritten
      <4> QED BY <4>2 DEF none
    <3> HIDE DEF q, At
    <3>4. /\ At(o) \in ObjectRecords
          /\ At(o).type = m.db[o].type /\ At(o).owner = m.db[o].owner
          /\ At(o).location = NOTHING /\ At(o).home = m.db[o].home
          /\ At(o).going = m.db[o].going /\ At(o).contents = m.db[o].contents
          /\ At(o).exits = m.db[o].exits
      BY <3>1, <3>3 DEF r
    <3> QED BY <2>3, <3>4
  <2>4. CASE o # x /\ o \notin items
    BY <1>2, <2>4
  <2> QED BY <2>2, <2>3, <2>4
<1> HIDE DEF At
<1>6. d \in [Objects -> ObjectRecords] /\ \A o \in Objects : d[o] = At(o)
  BY <1>5
<1> HIDE DEF d
<1>7. b \in Memories /\ b.free = m.free /\ b.db = d
  BY <1>1, <1>2, <1>6, Rewritten
<1> HIDE DEF b
<1>8. \A o \in Objects :
        /\ b.db[o].type = m.db[o].type /\ b.db[o].owner = m.db[o].owner
        /\ b.db[o].going = m.db[o].going /\ b.db[o].home = m.db[o].home
        /\ b.db[o].exits = m.db[o].exits
        /\ o # x => b.db[o].contents = m.db[o].contents
        /\ o \in items => b.db[o].location = NOTHING
        /\ o \notin items => b.db[o].location = m.db[o].location
        /\ o # x /\ o \notin items => b.db[o] = m.db[o]
  BY <1>5, <1>6, <1>7
<1>9. b.db[x].contents = <<>>
  BY <1>5, <1>6, <1>7
<1>10. Rearranged(m, b)
  BY <1>7, <1>8 DEF Rearranged, Alike
<1>11. \A o \in Objects : \A y \in Range(b.db[o].contents) : y \in Range(m.db[o].contents) /\ o # x
  BY <1>8, <1>9 DEF Range
<1>12. Refitted(m, b)
  <2>1. ASSUME NEW o \in Objects PROVE Fit(m, b, o)
    <3>0. /\ m.db[o].type \in {"ROOM", "THING", "EXIT", "PLAYER", "GARBAGE"}
          /\ IsGarbage(m, o) => m.db[o] = Garbage
          /\ Mobile(m, o) => Holds(m, m.db[o].home) /\ m.db[o].home # o
          /\ IsExit(m, o) /\ m.db[o].location # NOTHING => ~IsGarbage(m, m.db[o].location)
          /\ IsRoom(m, o) /\ m.db[o].location # NOTHING => IsRoom(m, m.db[o].location)
          /\ IsInjective(m.db[o].contents) /\ IsInjective(m.db[o].exits)
      BY <1>2, Fields, SoundLinked, SoundListed
    <3>1. Mobile(m, o) => ~IsExit(m, o) /\ ~IsRoom(m, o) /\ ~IsGarbage(m, o)
      BY <1>2, OneKind
    <3>2. IsGarbage(m, o) => b.db[o] = m.db[o]
      <4>1. ASSUME IsGarbage(m, o), o = x PROVE b.db[o] = m.db[o]
        <5>1. m.db[o].contents = <<>> /\ m.db[o] = Garbage
          BY <3>0, <4>1 DEF Garbage
        <5>2. [Garbage EXCEPT !.contents = <<>>] = Garbage
          BY DEF Garbage
        <5> QED BY <1>6, <1>7, <4>1, <5>1, <5>2 DEF At
      <4> QED BY <1>3, <1>8, <3>1, <4>1
    <3>3. IsInjective(b.db[o].contents) /\ Range(b.db[o].contents) \subseteq Range(m.db[o].contents)
      <4>1. CASE o = x
        BY <4>1, <1>9 DEF IsInjective, Range
      <4>2. CASE o # x
        BY <4>2, <1>8, <3>0
      <4> QED BY <4>1, <4>2
    <3>4. /\ IsExit(m, o) /\ b.db[o].location # NOTHING => ~IsGarbage(m, b.db[o].location)
          /\ IsRoom(m, o) /\ b.db[o].location # NOTHING => IsRoom(m, b.db[o].location)
          /\ b.db[o].location \in {m.db[o].location, NOTHING}
      BY <1>8, <3>0
    <3> QED BY <1>8, <3>0, <3>2, <3>3, <3>4 DEF Fit
  <2>2. ASSUME NEW o \in Objects, NEW y \in Range(b.db[o].contents)
        PROVE  b.db[y].location = m.db[y].location
    <3>1. y \in Range(m.db[o].contents) /\ o # x
      BY <1>11
    <3>2. y \in Objects /\ m.db[y].location = o
      BY <3>1, SoundListed
    <3>3. y \notin items
      BY <1>3, <3>1, <3>2
    <3> QED BY <1>8, <3>2, <3>3
  <2> QED BY <1>7, <2>1, <2>2 DEF Refitted
<1>13. ASSUME NEW o \in Objects, o \notin L PROVE o \notin K /\ StillListed(m, b, o)
  <2>1. o \notin K /\ o \notin items
    BY <1>13
  <2>2. ASSUME Mobile(m, o) PROVE /\ b.db[o].location = m.db[o].location
                                  /\ o \in Range(b.db[m.db[o].location].contents)
    <3>1. o \in Range(m.db[m.db[o].location].contents) /\ m.db[o].location \in Objects
      BY <2>1, <2>2, SoundListed, SoundLinked
    <3>2. m.db[o].location # x
      BY <2>1, <3>1 DEF items
    <3> QED BY <1>8, <2>1, <3>1, <3>2
  <2>3. IsExit(m, o) => o \in Range(b.db[m.db[o].home].exits)
    BY <1>8, <2>1, SoundListed, SoundLinked
  <2> QED BY <2>1, <2>2, <2>3 DEF StillListed
<1>14. Sound(b, L)
  BY <1>12, <1>13, SoundRefitted
<1> QED BY <1>3, <1>8, <1>9, <1>10, <1>14 DEF Turned, items, b

\* Nothing is on a list in itself.
LEMMA NotInItself ==
  ASSUME NEW m, NEW K, Sound(m, K), NEW x \in Objects, Mobile(m, x)
  PROVE  m.db[x].location # x /\ x \notin Range(m.db[x].contents)
<1>1. \A y \in {x} : Mobile(m, y)
  OBVIOUS
<1>2. {x} \in SUBSET Objects /\ {x} # {}
  OBVIOUS
<1>3. \E y \in {x} : m.db[y].location \notin {x}
  BY <1>1, <1>2, SoundParts DEF Rooted
<1> QED BY <1>3, SoundListed

\* A home that suits it.
LEMMA HomeSound ==
  ASSUME NEW m, NEW K, Sound(m, K), NEW x \in Objects, Mobile(m, x),
         NEW h \in Objects, Holds(m, h), h # x
  PROVE  LET n == WithHome(m, x, h)
         IN /\ Sound(n, K) /\ Similar(m, n)
            /\ \A o \in Objects :
                 /\ n.db[o].location = m.db[o].location
                 /\ n.db[o].contents = m.db[o].contents
                 /\ n.db[o].exits = m.db[o].exits
                 /\ o # x => n.db[o].home = m.db[o].home
            /\ n.db[x].home = h
<1> DEFINE n == WithHome(m, x, h)
<1>1. m \in Memories
  BY SoundParts
<1>2. h \in Objects \cup {NOTHING}
  OBVIOUS
<1>3. /\ n \in Memories /\ n.free = m.free
      /\ \A o \in Objects :
           /\ n.db[o].type = m.db[o].type
           /\ n.db[o].owner = m.db[o].owner
           /\ n.db[o].going = m.db[o].going
           /\ n.db[o].location = m.db[o].location
           /\ n.db[o].contents = m.db[o].contents
           /\ n.db[o].exits = m.db[o].exits
           /\ o # x => n.db[o] = m.db[o]
      /\ n.db[x].home = h
  BY <1>1, <1>2, SetHome
<1> HIDE DEF n
<1>4. Fit(m, n, x)
  <2>1. ~IsExit(m, x) /\ ~IsRoom(m, x) /\ ~IsGarbage(m, x)
    BY <1>1, OneKind
  <2>2. IsInjective(m.db[x].contents) /\ IsInjective(m.db[x].exits)
    BY SoundListed
  <2> QED BY <1>3, <2>1, <2>2 DEF Fit
<1>5. \A o \in Objects : Fit(m, n, o)
  <2>1. ASSUME NEW o \in Objects, o # x PROVE Fit(m, n, o)
    BY <1>3, <2>1, FitSame
  <2> QED BY <1>4, <2>1
<1>6. Refitted(m, n)
  <2>1. ASSUME NEW o \in Objects, NEW y \in Range(n.db[o].contents)
        PROVE  n.db[y].location = m.db[y].location
    <3>1. y \in Objects
      BY <1>3, SoundListed
    <3> QED BY <1>3, <3>1
  <2> QED BY <1>3, <1>5, <2>1 DEF Refitted
<1>7. ASSUME NEW o \in Objects, o \notin K PROVE o \notin K /\ StillListed(m, n, o)
  <2>1. Mobile(m, o) => o \in Range(n.db[m.db[o].location].contents)
    BY <1>3, <1>7, SoundListed, SoundLinked
  <2>2. IsExit(m, o) => o \in Range(n.db[m.db[o].home].exits)
    BY <1>3, <1>7, SoundListed, SoundLinked
  <2> QED BY <1>3, <1>7, <2>1, <2>2 DEF StillListed
<1>8. Sound(n, K)
  BY <1>6, <1>7, SoundRefitted
<1>9. \A o \in Objects : o # x => n.db[o].home = m.db[o].home
  BY <1>3
<1>10. Similar(m, n)
  BY <1>3, <1>9 DEF Similar
<1> QED BY <1>3, <1>8, <1>9, <1>10 DEF n

\* The chain of locations is a set of the kind Outside asks for.
LEMMA ChainClosed ==
  ASSUME NEW m \in Memories, NEW limbo, AllLinked(m, limbo), Rooted(m),
         NEW x \in Objects, ~IsExit(m, x)
  PROVE  LET U == {Around(m, x)[n] : n \in 0..DbTop}
         IN /\ x \in U
            /\ \A y \in U : y # NOTHING /\ ~IsRoom(m, y) => m.db[y].location \in U
<1> DEFINE up == Around(m, x)
           U == {up[n] : n \in 0..DbTop}
<1>1. /\ up[0] = x
      /\ \A n \in 1..DbTop :
           up[n] = IF up[n - 1] = NOTHING \/ IsRoom(m, up[n - 1]) THEN NOTHING
                   ELSE m.db[up[n - 1]].location
  BY AroundFacts
<1>2. up[DbTop] = NOTHING
  BY ChainEnds
<1> HIDE DEF up
<1>3. x \in U
  BY <1>1, Names
<1>4. ASSUME NEW y \in U, y # NOTHING, ~IsRoom(m, y) PROVE m.db[y].location \in U
  <2>1. PICK n \in 0..DbTop : y = up[n]
    OBVIOUS
  <2>2. n # DbTop
    BY <1>2, <1>4, <2>1
  <2>3. n + 1 \in 1..DbTop /\ (n + 1) - 1 = n /\ n + 1 \in 0..DbTop
    <3>1. DbTop \in Nat /\ n \in Int /\ 0 <= n /\ n <= DbTop
      BY DbAssumption
    <3> QED BY <2>2, <3>1
  <2>4. up[n + 1] = m.db[y].location
    BY <1>1, <1>4, <2>1, <2>3
  <2> QED BY <2>3, <2>4
<1> QED BY <1>3, <1>4 DEF up

\* In n item i of x has gone home from m, or to DEFAULT_HOME.
GoneHome(m, n, i, x) ==
  /\ \A o \in Objects : o # i => /\ n.db[o].location = m.db[o].location
                                 /\ n.db[o].home = m.db[o].home
  /\ Range(n.db[x].contents) \subseteq Range(m.db[x].contents)
  /\ \A o \in Objects : Range(n.db[o].contents) \subseteq Range(m.db[o].contents) \cup {i}
  /\ \A k \in Objects \ {DEFAULT_HOME} : \A y \in Range(n.db[k].contents) :
       n.db[y].home = k \/ (y \in Range(m.db[k].contents) /\ y # i)

\* One item that empty_contents(x) has taken out goes to its new home.
LEMMA EvictedFacts ==
  ASSUME NEW m, NEW K, Sound(m, K), NEW i \in Objects, NEW x \in Objects,
         Mobile(m, i), m.db[i].location = NOTHING, x # DEFAULT_HOME
  PROVE  /\ Sound(Evicted(m, i, x), K \ {i}) /\ Similar(m, Evicted(m, i, x))
         /\ GoneHome(m, Evicted(m, i, x), i, x)
<1> DEFINE h == Refuge(m, i, x)
           a == WithHome(m, i, h)
           to == IF recursive_member(a, h, i) THEN DEFAULT_HOME ELSE h
           n == Evicted(m, i, x)
<1>0. m \in Memories /\ IsRoom(m, DEFAULT_HOME) /\ DEFAULT_HOME \in Objects
  BY SoundParts, Names
<1>1. h \in Objects /\ Holds(m, h) /\ h # i /\ h # x
  <2>1. m.db[i].home \in Objects /\ Holds(m, m.db[i].home) /\ m.db[i].home # i
    BY SoundLinked
  <2>2. Holds(m, DEFAULT_HOME) /\ DEFAULT_HOME # i
    BY <1>0, OneKind
  <2> QED BY <1>0, <2>1, <2>2 DEF Refuge
<1>2. n = enter_room(a, i, to)
  BY DEF Evicted, WithHome
<1> HIDE DEF h
<1>3. /\ Sound(a, K) /\ Similar(m, a)
      /\ \A o \in Objects :
           /\ a.db[o].location = m.db[o].location
           /\ a.db[o].contents = m.db[o].contents
           /\ a.db[o].exits = m.db[o].exits
           /\ o # i => a.db[o].home = m.db[o].home
      /\ a.db[i].home = h
  BY <1>1, HomeSound
<1> HIDE DEF a, n
<1>4. /\ Mobile(a, i) /\ Holds(a, h) /\ ~IsExit(a, h) /\ IsRoom(a, DEFAULT_HOME)
      /\ Holds(a, DEFAULT_HOME) /\ a \in Memories
  <2>1. Mobile(a, i) /\ Holds(a, h) /\ IsRoom(a, DEFAULT_HOME) /\ a \in Memories
    BY <1>0, <1>1, <1>3, SimilarKinds, SoundParts
  <2> QED BY <1>0, <1>1, <2>1, OneKind
<1>5. CanEnter(a, i, DEFAULT_HOME)
  BY <1>0, <1>3, <1>4, RoomOpen, SoundParts
<1>6. ~recursive_member(a, h, i) => CanEnter(a, i, h)
  BY <1>1, <1>4 DEF CanEnter
<1>7. to \in Objects /\ Holds(a, to) /\ CanEnter(a, i, to) /\ to # x /\ to \in {h, DEFAULT_HOME}
  BY <1>0, <1>1, <1>4, <1>5, <1>6
<1> HIDE DEF to
<1>8. n = Entered(a, i, to)
  BY <1>2, <1>3, EnterRoomEntered
<1>9. Sound(n, K \ {i}) /\ Moved(a, n, i, to) /\ Rearranged(a, n)
  BY <1>3, <1>7, <1>8, EnteredFacts
<1>10. Similar(m, n)
  BY <1>3, <1>9, SimilarAlike, SimilarTwice
<1>11. /\ \A o \in Objects : n.db[o].home = a.db[o].home
       /\ \A o \in Objects : o # i => n.db[o].location = a.db[o].location
       /\ Range(n.db[to].contents) = Range(a.db[to].contents) \cup {i}
       /\ \A o \in Objects : o # to => Range(n.db[o].contents) = Range(a.db[o].contents) \ {i}
  BY <1>9 DEF Moved, Alike
<1>12. \A o \in Objects : o # i => /\ n.db[o].location = m.db[o].location
                                   /\ n.db[o].home = m.db[o].home
  BY <1>3, <1>11
<1>13. Range(n.db[x].contents) \subseteq Range(m.db[x].contents)
  BY <1>3, <1>7, <1>11
<1>14. ASSUME NEW k \in Objects \ {DEFAULT_HOME}, NEW y \in Range(n.db[k].contents)
       PROVE  n.db[y].home = k \/ (y \in Range(m.db[k].contents) /\ y # i)
  <2>1. CASE k = to
    <3>1. k = h
      BY <1>7, <1>14, <2>1
    <3>2. CASE y = i
      BY <1>3, <1>11, <3>1, <3>2
    <3>3. CASE y # i
      BY <1>3, <1>11, <2>1, <3>3
    <3> QED BY <3>2, <3>3
  <2>2. CASE k # to
    BY <1>3, <1>11, <2>2
  <2> QED BY <2>1, <2>2
<1>15. ASSUME NEW o \in Objects
       PROVE  Range(n.db[o].contents) \subseteq Range(m.db[o].contents) \cup {i}
  BY <1>3, <1>11
<1>16. GoneHome(m, n, i, x)
  BY <1>12, <1>13, <1>14, <1>15 DEF GoneHome
<1> QED BY <1>9, <1>10, <1>16 DEF n

\* The dying are as before when only their contents go.
LEMMA DyingRearranged ==
  ASSUME NEW m, NEW n, NEW D, Dying(m, D), Similar(m, n),
         \A k \in D : \A y \in Range(n.db[k].contents) :
            n.db[y].home = k \/ (y \in Range(m.db[k].contents) /\ n.db[y].home = m.db[y].home)
  PROVE  Dying(n, D)
<1>1. \A k \in D : k \in Objects /\ ~special_object(k) /\ (IsPlayer(n, k) => k \notin connected)
  BY SimilarKinds DEF Dying
<1>2. ASSUME NEW k \in D, NEW y \in Range(n.db[k].contents) PROVE n.db[y].home = k
  BY DEF Dying
<1> QED BY <1>1, <1>2 DEF Dying

\* x is on no contents list.
Absent(m, x) == \A o \in Objects : x \notin Range(m.db[o].contents)

\* empty_contents() keeps everything in order and leaves x empty.
LEMMA EmptySound ==
  ASSUME NEW m, NEW K, Sound(m, K), NEW x \in Objects, x # DEFAULT_HOME,
         NEW D, Dying(m, D)
  PROVE  LET e == empty_contents(m, x)
         IN /\ Sound(e, K) /\ Similar(m, e) /\ Dying(e, D)
            /\ e.db[x].contents = <<>>
            /\ Mobile(m, x) /\ Absent(m, x) => Absent(e, x)
<1> DEFINE s == m.db[x].contents
           N == Len(s)
           L(n) == K \cup {s[j] : j \in (n + 1)..N}
           e == empty_contents(m, x)
<1>1. m \in Memories /\ s \in Seq(Objects) /\ N \in Nat /\ IsInjective(s)
  BY SoundParts, Fields, SoundListed
<1>2. \A n \in 1..N : s[n] \in Range(s)
  BY <1>1 DEF Range
<1>3. \A n \in 1..N : s[n] \in Objects /\ Mobile(m, s[n])
  BY <1>2, SoundListed
<1>4. \A j, n \in 1..N : j # n => s[j] # s[n]
  BY <1>1 DEF IsInjective
<1>5. PICK f : /\ f[0] = Blasted(m, x)
               /\ \A n \in 1..N : f[n] = Evicted(f[n - 1], s[n], x)
               /\ e = f[N]
  BY <1>1, EmptySteps
<1>6. /\ Sound(f[0], K \cup Range(s))
      /\ Rearranged(m, f[0])
      /\ f[0].db[x].contents = <<>>
      /\ \A o \in Objects : o # x => f[0].db[o].contents = m.db[o].contents
      /\ \A o \in Range(s) : f[0].db[o].location = NOTHING
  <2> DEFINE b == Blasted(m, x)
  <2>1. Sound(b, K \cup Range(s)) /\ Turned(m, b, x)
    BY BlastedFacts
  <2>2. f[0] = b
    BY <1>5
  <2> HIDE DEF b
  <2> QED BY <2>1, <2>2 DEF Turned
<1>7. Range(s) = {s[j] : j \in 1..N}
  BY <1>1 DEF Range
<1>a. DEFAULT_HOME \notin D /\ \A k \in D : k \in Objects
  BY DEF Dying, special_object
<1>b. Mobile(m, x) => x \notin Range(s)
  BY NotInItself
<1> HIDE DEF N, s, e
<1> DEFINE W == {n \in 0..N : /\ Sound(f[n], L(n)) /\ Similar(m, f[n]) /\ Dying(f[n], D)
                              /\ Range(f[n].db[x].contents) = {}
                              /\ \A j \in (n + 1)..N : f[n].db[s[j]].location = NOTHING
                              /\ Mobile(m, x) /\ Absent(m, x) => Absent(f[n], x)}
<1>8. 0 \in W
  <2>1. L(0) = K \cup Range(s)
    BY <1>1, <1>7
  <2>2. Similar(m, f[0])
    BY <1>6, SimilarAlike
  <2>3. Range(f[0].db[x].contents) = {}
    BY <1>6 DEF Range
  <2>4. Dying(f[0], D)
    <3>1. ASSUME NEW k \in D, NEW y \in Range(f[0].db[k].contents)
          PROVE  y \in Range(m.db[k].contents) /\ f[0].db[y].home = m.db[y].home
      <4>1. k \in Objects /\ k # x
        BY <1>a, <2>3, <3>1
      <4>2. y \in Range(m.db[k].contents)
        BY <1>6, <3>1, <4>1
      <4>3. y \in Objects
        BY <4>1, <4>2, SoundListed
      <4> QED BY <1>6, <4>2, <4>3, RearrangedKinds
    <3> QED BY <2>2, <3>1, DyingRearranged
  <2>5. \A j \in 1..N : f[0].db[s[j]].location = NOTHING
    BY <1>2, <1>3, <1>6
  <2>6. 0 \in 0..N /\ (0 + 1)..N = 1..N
    BY <1>1
  <2> HIDE DEF L
  <2>7. Sound(f[0], L(0))
    BY <1>6, <2>1
  <2>8. Absent(m, x) => Absent(f[0], x)
    BY <1>6, <2>3 DEF Absent
  <2> QED BY <2>2, <2>3, <2>4, <2>5, <2>6, <2>7, <2>8
<1>9. ASSUME NEW n \in 1..N, n - 1 \in W PROVE n \in W
  <2> DEFINE a == f[n - 1]
             b == f[n]
             i == s[n]
  <2>0. (n - 1) + 1 = n /\ n \in n..N /\ n \in 0..N
    BY <1>1
  <2>1. /\ Sound(a, L(n - 1)) /\ Similar(m, a) /\ Dying(a, D)
        /\ Range(a.db[x].contents) = {}
        /\ \A j \in n..N : a.db[s[j]].location = NOTHING
        /\ Mobile(m, x) /\ Absent(m, x) => Absent(a, x)
    BY <1>9, <2>0
  <2>2. i \in Objects /\ Mobile(m, i) /\ b = Evicted(a, i, x)
    BY <1>3, <1>5
  <2>3. L(n - 1) \ {i} \subseteq L(n)
    <3>1. ASSUME NEW j \in n..N, s[j] # i PROVE s[j] \in L(n)
      <4>1. j # n
        BY <3>1
      <4>2. j \in (n + 1)..N
        BY <4>1
      <4> QED BY <4>2
    <3> QED BY <2>0, <3>1
  <2>4. a.db[i].location = NOTHING
    BY <2>0, <2>1
  <2>5. \A j \in (n + 1)..N : j \in n..N /\ s[j] # i /\ s[j] \in Objects
    BY <1>1, <1>3, <1>4
  <2>a. Mobile(m, x) => x # i
    BY <1>2, <1>b
  <2> HIDE DEF a, b, i, L
  <2>6. Mobile(a, i)
    BY <2>1, <2>2, SimilarKinds
  <2>7. /\ Sound(b, L(n - 1) \ {i}) /\ Similar(a, b)
        /\ \A o \in Objects : o # i => /\ b.db[o].location = a.db[o].location
                                       /\ b.db[o].home = a.db[o].home
        /\ Range(b.db[x].contents) \subseteq Range(a.db[x].contents)
        /\ \A o \in Objects : Range(b.db[o].contents) \subseteq Range(a.db[o].contents) \cup {i}
        /\ \A k \in Objects \ {DEFAULT_HOME} : \A y \in Range(b.db[k].contents) :
             b.db[y].home = k \/ (y \in Range(a.db[k].contents) /\ y # i)
    <3>1. Sound(b, L(n - 1) \ {i}) /\ Similar(a, b) /\ GoneHome(a, b, i, x)
      BY <2>1, <2>2, <2>4, <2>6, EvictedFacts
    <3> QED BY <3>1 DEF GoneHome
  <2>8. Sound(b, L(n))
    BY <2>3, <2>7, SoundMonotonic
  <2>9. Similar(m, b)
    BY <2>1, <2>7, SimilarTwice
  <2>10. Dying(b, D)
    <3>1. ASSUME NEW k \in D, NEW y \in Range(b.db[k].contents)
          PROVE  b.db[y].home = k \/ (y \in Range(a.db[k].contents) /\ b.db[y].home = a.db[y].home)
      <4>1. k \in Objects \ {DEFAULT_HOME}
        BY <1>a
      <4>2. b.db[y].home = k \/ (y \in Range(a.db[k].contents) /\ y # i)
        BY <2>7, <4>1
      <4>3. y \in Range(a.db[k].contents) => y \in Objects
        BY <2>1, <4>1, SoundListed
      <4> QED BY <2>7, <4>2, <4>3
    <3> QED BY <2>1, <2>7, <3>1, DyingRearranged
  <2>11. Range(b.db[x].contents) = {}
    BY <2>1, <2>7
  <2>12. \A j \in (n + 1)..N : b.db[s[j]].location = NOTHING
    BY <2>1, <2>5, <2>7
  <2>13. Mobile(m, x) /\ Absent(m, x) => Absent(b, x)
    <3>1. ASSUME Mobile(m, x), Absent(a, x) PROVE Absent(b, x)
      BY <2>7, <2>a, <3>1 DEF Absent
    <3> QED BY <2>1, <3>1
  <2> QED BY <2>0, <2>8, <2>9, <2>10, <2>11, <2>12, <2>13 DEF b
<1>10. \A n \in 0..N : n \in W
  <2> HIDE DEF W, L
  <2> QED BY <1>1, <1>8, <1>9, UpTo
<1>11. N \in W /\ N + 1 > N
  <2>1. N \in 0..N /\ N + 1 > N
    BY <1>1
  <2> HIDE DEF W
  <2> QED BY <1>10, <2>1
<1>12. L(N) = K
  BY <1>1, <1>11
<1>13. e = f[N]
  BY <1>5
<1>14. /\ Sound(e, K) /\ Similar(m, e) /\ Dying(e, D) /\ Range(e.db[x].contents) = {}
       /\ Mobile(m, x) /\ Absent(m, x) => Absent(e, x)
  BY <1>11, <1>12, <1>13
<1>15. e.db[x].contents \in Seq(Objects)
  BY <1>14, SoundParts, Fields
<1>16. e.db[x].contents = <<>>
  BY <1>14, <1>15, EmptyRange
<1> QED BY <1>14, <1>16 DEF e

\* An object of which only the lists are shorter.
LEMMA FitShorter ==
  ASSUME NEW m, NEW K, Sound(m, K), NEW n \in Memories, NEW o \in Objects,
         n.db[o].type = m.db[o].type, n.db[o].owner = m.db[o].owner,
         n.db[o].going = m.db[o].going, n.db[o].home = m.db[o].home,
         n.db[o].location = m.db[o].location,
         IsInjective(n.db[o].contents), Range(n.db[o].contents) \subseteq Range(m.db[o].contents),
         IsInjective(n.db[o].exits), Range(n.db[o].exits) \subseteq Range(m.db[o].exits)
  PROVE  Fit(m, n, o)
<1>1. IsGarbage(m, o) => n.db[o] = m.db[o]
  <2> SUFFICES ASSUME IsGarbage(m, o) PROVE n.db[o] = m.db[o]
    OBVIOUS
  <2>1. m.db[o] = Garbage
    BY SoundLinked
  <2>2. /\ m.db[o].type = "GARBAGE" /\ m.db[o].owner = GOD /\ m.db[o].going = 0
        /\ m.db[o].home = NOTHING /\ m.db[o].exits = <<>> /\ m.db[o].location = NOTHING
        /\ m.db[o].contents = <<>>
    BY <2>1 DEF Garbage
  <2>3. Range(m.db[o].contents) = {} /\ Range(m.db[o].exits) = {}
    BY <2>2 DEF Range
  <2>4. n.db[o].exits \in Seq(Objects)
    BY Fields
  <2>5. n.db[o].exits = <<>>
    BY <2>3, <2>4, EmptyRange
  <2>6. n.db[o] = Garbage
    BY <2>2, <2>3, <2>5, StaysGarbage
  <2> QED BY <2>1, <2>6
<1>2. /\ Mobile(m, o) => Holds(m, m.db[o].home) /\ m.db[o].home # o
      /\ IsExit(m, o) /\ m.db[o].location # NOTHING => ~IsGarbage(m, m.db[o].location)
      /\ IsRoom(m, o) /\ m.db[o].location # NOTHING => IsRoom(m, m.db[o].location)
  BY SoundLinked
<1> QED BY <1>1, <1>2 DEF Fit

\* Taking x off the contents list it is on leaves it in limbo.
LEMMA DetachedSound ==
  ASSUME NEW m, NEW K, Sound(m, K), NEW x \in Objects, NEW D, Dying(m, D)
  PROVE  /\ Sound(Detached(m, x, m.db[x].location), K \cup {x})
         /\ Similar(m, Detached(m, x, m.db[x].location))
         /\ Dying(Detached(m, x, m.db[x].location), D)
<1> DEFINE n == Detached(m, x, m.db[x].location)
<1>1. m \in Memories /\ OnlyIn(m, x, m.db[x].location)
      /\ m.db[x].location \in Objects \cup {NOTHING}
  BY SoundParts, SoundOnlyIn, Fields
<1>2. /\ n \in Memories /\ n.free = m.free
      /\ \A o \in Objects :
           /\ Alike(m, n, o)
           /\ n.db[o].location = m.db[o].location
           /\ IsInjective(n.db[o].contents)
           /\ Range(n.db[o].contents) = Range(m.db[o].contents) \ {x}
  BY <1>1, DetachedFacts
<1> HIDE DEF n
<1>3. \A o \in Objects : /\ n.db[o].type = m.db[o].type /\ n.db[o].owner = m.db[o].owner
                         /\ n.db[o].going = m.db[o].going /\ n.db[o].home = m.db[o].home
                         /\ n.db[o].exits = m.db[o].exits
  BY <1>2 DEF Alike
<1>4. ASSUME NEW o \in Objects PROVE Fit(m, n, o)
  <2>1. IsInjective(n.db[o].exits) /\ Range(n.db[o].exits) \subseteq Range(m.db[o].exits)
    BY <1>3, SoundListed
  <2> QED BY <1>2, <1>3, <2>1, FitShorter
<1>5. Refitted(m, n)
  <2>1. ASSUME NEW o \in Objects, NEW y \in Range(n.db[o].contents)
        PROVE  n.db[y].location = m.db[y].location
    <3>1. y \in Objects
      BY <1>2, SoundListed
    <3> QED BY <1>2, <3>1
  <2> QED BY <1>2, <1>4, <2>1 DEF Refitted
<1>6. ASSUME NEW o \in Objects, o \notin K \cup {x} PROVE o \notin K /\ StillListed(m, n, o)
  <2>1. ASSUME Mobile(m, o) PROVE /\ n.db[o].location = m.db[o].location
                                  /\ o \in Range(n.db[m.db[o].location].contents)
    <3>1. m.db[o].location \in Objects /\ o \in Range(m.db[m.db[o].location].contents)
      BY <1>6, <2>1, SoundListed, SoundLinked
    <3> QED BY <1>2, <1>6, <3>1
  <2>2. IsExit(m, o) => o \in Range(n.db[m.db[o].home].exits)
    BY <1>3, <1>6, SoundListed, SoundLinked
  <2> QED BY <1>6, <2>1, <2>2 DEF StillListed
<1>7. Sound(n, K \cup {x})
  BY <1>5, <1>6, SoundRefitted
<1>8. Similar(m, n)
  BY <1>2, <1>3 DEF Similar
<1>9. Dying(n, D)
  <2>1. ASSUME NEW k \in D, NEW y \in Range(n.db[k].contents)
        PROVE  y \in Range(m.db[k].contents) /\ n.db[y].home = m.db[y].home
    <3>1. k \in Objects
      BY DEF Dying
    <3>2. y \in Range(m.db[k].contents)
      BY <1>2, <3>1, <2>1
    <3>3. y \in Objects
      BY <3>1, <3>2, SoundListed
    <3> QED BY <1>3, <3>2, <3>3
  <2> QED BY <1>8, <2>1, DyingRearranged
<1> QED BY <1>7, <1>8, <1>9 DEF n

\* In n as in m but for lists of exits.
Indoors(m, n) ==
  /\ n \in Memories /\ n.free = m.free
  /\ \A o \in Objects :
       /\ n.db[o].type = m.db[o].type /\ n.db[o].owner = m.db[o].owner
       /\ n.db[o].going = m.db[o].going /\ n.db[o].home = m.db[o].home
       /\ n.db[o].contents = m.db[o].contents

\* That leaves the dying as they are.
LEMMA IndoorsDying ==
  ASSUME NEW m, NEW K, Sound(m, K), NEW n, Indoors(m, n)
  PROVE  Similar(m, n) /\ \A D : Dying(m, D) => Dying(n, D)
<1>1. Similar(m, n)
  BY DEF Indoors, Similar
<1>2. ASSUME NEW D, Dying(m, D) PROVE Dying(n, D)
  <2>1. ASSUME NEW k \in D, NEW y \in Range(n.db[k].contents)
        PROVE  y \in Range(m.db[k].contents) /\ n.db[y].home = m.db[y].home
    <3>1. k \in Objects
      BY <1>2 DEF Dying
    <3>2. y \in Range(m.db[k].contents)
      BY <3>1, <2>1 DEF Indoors
    <3>3. y \in Objects
      BY <3>1, <3>2, SoundListed
    <3> QED BY <3>2, <3>3 DEF Indoors
  <2> QED BY <1>1, <1>2, <2>1, DyingRearranged
<1> QED BY <1>1, <1>2

\* Exit x is on no list in n.
Unhung(m, n, x) ==
  \A o \in Objects : /\ n.db[o].location = m.db[o].location
                     /\ Range(n.db[o].exits) = Range(m.db[o].exits) \ {x}

\* Taking an exit off the list of its source leaves it in limbo.
LEMMA ClearExitSound ==
  ASSUME NEW m, NEW K, Sound(m, K), NEW x \in Objects, IsExit(m, x)
  PROVE  /\ Sound(clear_exit(m, x), K \cup {x}) /\ Indoors(m, clear_exit(m, x))
         /\ Unhung(m, clear_exit(m, x), x)
<1> DEFINE h == m.db[x].home
           c == RemoveFirst(m.db[h].exits, x)
           n == WithExits(m, h, c)
<1>1. m \in Memories /\ h \in Objects /\ IsRoom(m, h)
  BY SoundParts, SoundLinked
<1>2. m.db[h].exits \in Seq(Objects) /\ IsInjective(m.db[h].exits)
  BY <1>1, Fields, SoundListed
<1>3. c \in Seq(Objects) /\ IsInjective(c) /\ Range(c) = Range(m.db[h].exits) \ {x}
  BY <1>2, RemoveFirstFacts
<1>4. clear_exit(m, x) = n
  BY DEF clear_exit, WithExits
<1> HIDE DEF c, h
<1>5. /\ n \in Memories /\ n.free = m.free
      /\ \A o \in Objects :
           /\ n.db[o].type = m.db[o].type
           /\ n.db[o].owner = m.db[o].owner
           /\ n.db[o].going = m.db[o].going
           /\ n.db[o].home = m.db[o].home
           /\ n.db[o].location = m.db[o].location
           /\ n.db[o].contents = m.db[o].contents
           /\ o # h => n.db[o] = m.db[o]
      /\ n.db[h].exits = c
  BY <1>1, <1>3, SetExits
<1> HIDE DEF n
<1>6. ASSUME NEW o \in Objects PROVE Fit(m, n, o)
  <2>1. CASE o = h
    <3>1. IsInjective(n.db[h].exits) /\ Range(n.db[h].exits) \subseteq Range(m.db[h].exits)
      BY <1>3, <1>5
    <3>2. IsInjective(n.db[h].contents) /\ Range(n.db[h].contents) \subseteq Range(m.db[h].contents)
      BY <1>1, <1>5, SoundListed
    <3> QED BY <1>1, <1>5, <2>1, <3>1, <3>2, FitShorter
  <2>2. CASE o # h
    BY <1>5, <2>2, FitSame
  <2> QED BY <2>1, <2>2
<1>7. Refitted(m, n)
  <2>1. ASSUME NEW o \in Objects, NEW y \in Range(n.db[o].contents)
        PROVE  n.db[y].location = m.db[y].location
    <3>1. y \in Objects
      BY <1>5, SoundListed
    <3> QED BY <1>5, <3>1
  <2> QED BY <1>5, <1>6, <2>1 DEF Refitted
<1>8. ASSUME NEW o \in Objects, o \notin K \cup {x} PROVE o \notin K /\ StillListed(m, n, o)
  <2>1. Mobile(m, o) => o \in Range(n.db[m.db[o].location].contents)
    BY <1>5, <1>8, SoundListed, SoundLinked
  <2>2. ASSUME IsExit(m, o) PROVE o \in Range(n.db[m.db[o].home].exits)
    <3>1. m.db[o].home \in Objects /\ o \in Range(m.db[m.db[o].home].exits)
      BY <1>8, <2>2, SoundListed, SoundLinked
    <3>2. CASE m.db[o].home = h
      BY <1>3, <1>5, <1>8, <3>1, <3>2
    <3>3. CASE m.db[o].home # h
      BY <1>5, <3>1, <3>3
    <3> QED BY <3>2, <3>3
  <2> QED BY <1>5, <1>8, <2>1, <2>2 DEF StillListed
<1>9. Sound(n, K \cup {x})
  BY <1>7, <1>8, SoundRefitted
<1>10. Indoors(m, n)
  BY <1>5 DEF Indoors
<1>11. ASSUME NEW o \in Objects PROVE Range(n.db[o].exits) = Range(m.db[o].exits) \ {x}
  <2>1. CASE o = h
    BY <1>3, <1>5, <2>1
  <2>2. CASE o # h
    <3>1. x \notin Range(m.db[o].exits)
      BY <2>2, SoundListed DEF h
    <3>2. Range(m.db[o].exits) = Range(m.db[o].exits) \ {x}
      BY <3>1
    <3> QED BY <1>5, <2>2, <3>2
  <2> QED BY <2>1, <2>2
<1>12. Unhung(m, n, x)
  BY <1>5, <1>11 DEF Unhung
<1> QED BY <1>4, <1>9, <1>10, <1>12

\* An exit or a room is linked to something that suits it, or to nothing.
LEMMA LocationSound ==
  ASSUME NEW m, NEW K, Sound(m, K), NEW x \in Objects, ~Mobile(m, x), ~IsGarbage(m, x),
         NEW v \in Objects \cup {NOTHING},
         IsExit(m, x) /\ v # NOTHING => ~IsGarbage(m, v),
         IsRoom(m, x) /\ v # NOTHING => IsRoom(m, v)
  PROVE  LET n == WithLocation(m, x, v)
         IN /\ Sound(n, K) /\ Indoors(m, n)
            /\ \A o \in Objects : n.db[o].exits = m.db[o].exits
            /\ \A o \in Objects : o # x => n.db[o].location = m.db[o].location
            /\ n.db[x].location = v
<1> DEFINE n == WithLocation(m, x, v)
<1>1. m \in Memories
  BY SoundParts
<1>2. /\ n \in Memories /\ n.free = m.free
      /\ \A o \in Objects :
           /\ n.db[o].type = m.db[o].type
           /\ n.db[o].owner = m.db[o].owner
           /\ n.db[o].going = m.db[o].going
           /\ n.db[o].home = m.db[o].home
           /\ n.db[o].contents = m.db[o].contents
           /\ n.db[o].exits = m.db[o].exits
           /\ o # x => n.db[o] = m.db[o]
      /\ n.db[x].location = v
  BY <1>1, SetLocation
<1> HIDE DEF n
<1>3. ASSUME NEW o \in Objects PROVE Fit(m, n, o)
  <2>1. CASE o = x
    <3>1. IsInjective(m.db[x].contents) /\ IsInjective(m.db[x].exits)
      BY SoundListed
    <3> QED BY <1>2, <2>1, <3>1 DEF Fit
  <2>2. CASE o # x
    BY <1>2, <2>2, FitSame
  <2> QED BY <2>1, <2>2
<1>4. Refitted(m, n)
  <2>1. ASSUME NEW o \in Objects, NEW y \in Range(n.db[o].contents)
        PROVE  n.db[y].location = m.db[y].location
    <3>1. y \in Objects /\ Mobile(m, y)
      BY <1>2, SoundListed
    <3>2. y # x
      BY <3>1
    <3> QED BY <1>2, <3>1, <3>2
  <2> QED BY <1>2, <1>3, <2>1 DEF Refitted
<1>5. ASSUME NEW o \in Objects, o \notin K PROVE o \notin K /\ StillListed(m, n, o)
  <2>1. ASSUME Mobile(m, o) PROVE /\ n.db[o].location = m.db[o].location
                                  /\ o \in Range(n.db[m.db[o].location].contents)
    <3>1. m.db[o].location \in Objects /\ o \in Range(m.db[m.db[o].location].contents) /\ o # x
      BY <1>5, <2>1, SoundListed, SoundLinked
    <3> QED BY <1>2, <3>1
  <2>2. IsExit(m, o) => o \in Range(n.db[m.db[o].home].exits)
    BY <1>2, <1>5, SoundListed, SoundLinked
  <2> QED BY <1>5, <2>1, <2>2 DEF StillListed
<1>6. Sound(n, K)
  BY <1>4, <1>5, SoundRefitted
<1>7. Indoors(m, n)
  BY <1>2 DEF Indoors
<1>8. \A o \in Objects : o # x => n.db[o].location = m.db[o].location
  BY <1>2
<1> QED BY <1>2, <1>6, <1>7, <1>8 DEF n

\* Nothing leads out of x any more in n.
Bricked(m, n, x) ==
  /\ n.db[x].exits = <<>>
  /\ \A o \in Objects : o # x => n.db[o].exits = m.db[o].exits

\* clear_room() takes all exits of x off its list.
LEMMA ShutSound ==
  ASSUME NEW m, NEW K, Sound(m, K), NEW x \in Objects, ~IsGarbage(m, x)
  PROVE  /\ Sound(Shut(m, x), K \cup Range(m.db[x].exits))
         /\ Indoors(m, Shut(m, x)) /\ Bricked(m, Shut(m, x), x)
<1> DEFINE doors == Range(m.db[x].exits)
           At(o) == IF o = x THEN [m.db[o] EXCEPT !.exits = <<>>]
                    ELSE IF o \in doors THEN [m.db[o] EXCEPT !.location = NOTHING]
                    ELSE m.db[o]
           d == [o \in Objects |-> At(o)]
           b == Shut(m, x)
           L == K \cup doors
<1>1. b = [m EXCEPT !.db = d]
  BY DEF Shut
<1>2. m \in Memories /\ \A o \in Objects : m.db[o] \in ObjectRecords
  BY SoundParts, Fields
<1>3. \A y \in doors : y \in Objects /\ IsExit(m, y) /\ m.db[y].home = x
  BY SoundListed
<1>4. \A y \in doors : IsRoom(m, x) /\ y # x
  <2>1. \A y \in doors : IsRoom(m, x)
    BY <1>3, SoundLinked
  <2> QED BY <1>2, <1>3, <2>1, OneKind
<1> HIDE DEF doors
<1>5. ASSUME NEW o \in Objects
      PROVE  /\ At(o) \in ObjectRecords
             /\ At(o).type = m.db[o].type /\ At(o).owner = m.db[o].owner
             /\ At(o).going = m.db[o].going /\ At(o).home = m.db[o].home
             /\ At(o).contents = m.db[o].contents
             /\ o = x => At(o).exits = <<>>
             /\ o # x => At(o).exits = m.db[o].exits
             /\ o \in doors => At(o).location = NOTHING
             /\ o \notin doors => At(o).location = m.db[o].location
             /\ o # x /\ o \notin doors => At(o) = m.db[o]
  <2>1. <<>> \in Seq(Objects)
    OBVIOUS
  <2>2. CASE o = x
    <3> DEFINE r == m.db[o]
               q == [r EXCEPT !.exits = <<>>]
    <3>1. At(o) = q /\ o \notin doors
      BY <1>4, <2>2
    <3>2. r \in ObjectRecords
      BY <1>2
    <3> HIDE DEF r
    <3>3. /\ q \in ObjectRecords
          /\ q.type = r.type /\ q.owner = r.owner /\ q.location = r.location /\ q.home = r.home
          /\ q.going = r.going /\ q.contents = r.contents /\ q.exits = <<>>
      BY <2>1, <3>2, FieldWritten
    <3> HIDE DEF q, At
    <3>4. /\ At(o) \in ObjectRecords
          /\ At(o).type = m.db[o].type /\ At(o).owner = m.db[o].owner
          /\ At(o).location = m.db[o].location /\ At(o).home = m.db[o].home
          /\ At(o).going = m.db[o].going /\ At(o).contents = m.db[o].contents
          /\ At(o).exits = <<>>
      BY <3>1, <3>3 DEF r
    <3> QED BY <2>2, <3>1, <3>4
  <2>3. CASE o # x /\ o \in doors
    <3> DEFINE r == m.db[o]
               q == [r EXCEPT !.location = NOTHING]
    <3>1. At(o) = q
      BY <2>3
    <3>2. r \in ObjectRecords
      BY <1>2
    <3> HIDE DEF r
    <3>3. /\ q \in ObjectRecords
          /\ q.type = r.type /\ q.owner = r.owner /\ q.location = NOTHING /\ q.home = r.home
          /\ q.going = r.going /\ q.contents = r.contents /\ q.exits = r.exits
      <4> DEFINE none == NOTHING
      <4>1. none \in Objects \cup {NOTHING}
        OBVIOUS
      <4> HIDE DEF none
      <4>2. LET p == [r EXCEPT !.location = none]
            IN /\ p \in ObjectRecords
               /\ p.type = r.type /\ p.owner = r.owner /\ p.location = none /\ p.home = r.home
               /\ p.going = r.going /\ p.contents = r.contents /\ p.exits = r.exits
        BY <3>2, <4>1, LocationWritten
      <4> QED BY <4>2 DEF none
    <3> HIDE DEF q, At
    <3>4. /\ At(o) \in ObjectRecords
          /\ At(o).type = m.db[o].type /\ At(o).owner = m.db[o].owner
          /\ At(o).location = NOTHING /\ At(o).home = m.db[o].home
          /\ At(o).going = m.db[o].going /\ At(o).contents = m.db[o].contents
          /\ At(o).exits = m.db[o].exits
      BY <3>1, <3>3 DEF r
    <3> QED BY <2>3, <3>4
  <2>4. CASE o # x /\ o \notin doors
    BY <1>2, <2>4
  <2> QED BY <2>2, <2>3, <2>4
<1> HIDE DEF At
<1>6. d \in [Objects -> ObjectRecords] /\ \A o \in Objects : d[o] = At(o)
  BY <1>5
<1> HIDE DEF d
<1>7. b \in Memories /\ b.free = m.free /\ b.db = d
  BY <1>1, <1>2, <1>6, Rewritten
<1> HIDE DEF b
<1>8. \A o \in Objects :
        /\ b.db[o].type = m.db[o].type /\ b.db[o].owner = m.db[o].owner
        /\ b.db[o].going = m.db[o].going /\ b.db[o].home = m.db[o].home
        /\ b.db[o].contents = m.db[o].contents
        /\ o # x => b.db[o].exits = m.db[o].exits
        /\ o \in doors => b.db[o].location = NOTHING
        /\ o \notin doors => b.db[o].location = m.db[o].location
        /\ o # x /\ o \notin doors => b.db[o] = m.db[o]
  BY <1>5, <1>6, <1>7
<1>9. b.db[x].exits = <<>>
  BY <1>5, <1>6, <1>7
<1>10. Indoors(m, b) /\ Bricked(m, b, x)
  BY <1>7, <1>8, <1>9 DEF Indoors, Bricked
<1>11. Refitted(m, b)
  <2>1. ASSUME NEW o \in Objects PROVE Fit(m, b, o)
    <3>1. CASE o # x /\ o \notin doors
      BY <1>8, <3>1, FitSame
    <3>2. CASE o = x \/ o \in doors
      <4>1. (~IsGarbage(m, o) /\ ~Mobile(m, o)) \/ (o = x /\ o \notin doors /\ ~IsGarbage(m, o))
        BY <1>2, <1>3, <1>4, <3>2, OneKind
      <4>2. /\ Mobile(m, o) => Holds(m, m.db[o].home) /\ m.db[o].home # o
            /\ IsExit(m, o) /\ m.db[o].location # NOTHING => ~IsGarbage(m, m.db[o].location)
            /\ IsRoom(m, o) /\ m.db[o].location # NOTHING => IsRoom(m, m.db[o].location)
            /\ IsInjective(m.db[o].contents) /\ IsInjective(m.db[o].exits)
        BY SoundLinked, SoundListed
      <4>3. IsInjective(b.db[o].exits) /\ Range(b.db[o].exits) \subseteq Range(m.db[o].exits)
        <5>1. CASE o = x
          BY <5>1, <1>9 DEF IsInjective, Range
        <5>2. CASE o # x
          BY <5>2, <1>8, <4>2
        <5> QED BY <5>1, <5>2
      <4>4. /\ IsExit(m, o) /\ b.db[o].location # NOTHING => ~IsGarbage(m, b.db[o].location)
            /\ IsRoom(m, o) /\ b.db[o].location # NOTHING => IsRoom(m, b.db[o].location)
            /\ b.db[o].location \in {m.db[o].location, NOTHING}
        BY <1>8, <4>2
      <4> QED BY <1>8, <4>1, <4>2, <4>3, <4>4 DEF Fit
    <3> QED BY <3>1, <3>2
  <2>2. ASSUME NEW o \in Objects, NEW y \in Range(b.db[o].contents)
        PROVE  b.db[y].location = m.db[y].location
    <3>1. y \in Objects /\ Mobile(m, y)
      BY <1>8, SoundListed
    <3>2. y \notin doors
      BY <1>2, <1>3, <3>1, OneKind
    <3> QED BY <1>8, <3>1, <3>2
  <2> QED BY <1>7, <2>1, <2>2 DEF Refitted
<1>12. ASSUME NEW o \in Objects, o \notin L PROVE o \notin K /\ StillListed(m, b, o)
  <2>1. o \notin K /\ o \notin doors
    BY <1>12
  <2>2. ASSUME Mobile(m, o) PROVE /\ b.db[o].location = m.db[o].location
                                  /\ o \in Range(b.db[m.db[o].location].contents)
    <3>1. o \in Range(m.db[m.db[o].location].contents) /\ m.db[o].location \in Objects
      BY <2>1, <2>2, SoundListed, SoundLinked
    <3> QED BY <1>8, <2>1, <3>1
  <2>3. ASSUME IsExit(m, o) PROVE o \in Range(b.db[m.db[o].home].exits)
    <3>1. o \in Range(m.db[m.db[o].home].exits) /\ m.db[o].home \in Objects
      BY <2>1, <2>3, SoundListed, SoundLinked
    <3>2. m.db[o].home # x
      BY <2>1, <3>1 DEF doors
    <3> QED BY <1>8, <3>1, <3>2
  <2> QED BY <2>1, <2>2, <2>3 DEF StillListed
<1>13. Sound(b, L)
  BY <1>11, <1>12, SoundRefitted
<1> QED BY <1>10, <1>13 DEF doors, b

\* What free_object(x) leaves of the references of i to x: i may still be in x
\* when it is in limbo, but then on no list.
RehousedFrom(u, v, i, x, K) ==
  /\ \A o \in Objects : v.db[o].exits = u.db[o].exits
  /\ \A o \in Objects : o # i => /\ v.db[o].location = u.db[o].location
                                 /\ v.db[o].home = u.db[o].home
  /\ Mobile(u, i) => v.db[i].home # x
  /\ v.db[i].location = x => i \in K /\ Mobile(u, i) /\ i \notin Range(v.db[x].contents)
  /\ Range(v.db[x].contents) \subseteq Range(u.db[x].contents)
  /\ IsExit(u, x) => \A o \in Objects : v.db[o].contents = u.db[o].contents

\* Step i of the loop of free_object(x).
LEMMA RehousedFacts ==
  ASSUME NEW u, NEW K, NEW x \in Objects, Sound(u, K \cup {x}), Dying(u, K \cup {x}),
         NEW i \in Objects,
         IsRoom(u, x) => Range(u.db[x].contents) = {},
         \A e \in Objects : IsExit(u, e) => u.db[e].home # x
  PROVE  /\ Sound(Rehoused(u, i, x), K \cup {x}) /\ Similar(u, Rehoused(u, i, x))
         /\ Dying(Rehoused(u, i, x), K \cup {x})
         /\ RehousedFrom(u, Rehoused(u, i, x), i, x, K)
<1> DEFINE L == K \cup {x}
           v == Rehoused(u, i, x)
           a == IF Mobile(u, i) /\ u.db[i].home = x THEN WithHome(u, i, DEFAULT_HOME) ELSE u
           h == a.db[i].home
<1>0. u \in Memories /\ IsRoom(u, DEFAULT_HOME) /\ DEFAULT_HOME \in Objects
      /\ x # DEFAULT_HOME /\ x # NOTHING
  BY SoundParts, Names DEF Dying, special_object
<1>1. v = IF a.db[i].location # x THEN a
          ELSE IF Mobile(a, i) THEN enter_room(a, i, h)
          ELSE IF IsExit(a, i) THEN WithLocation(a, i, h)
          ELSE WithLocation(a, i, NOTHING)
  BY DEF Rehoused, WithHome, WithLocation
<1>2. /\ Sound(a, L) /\ Similar(u, a)
      /\ \A o \in Objects : /\ a.db[o].location = u.db[o].location
                            /\ a.db[o].contents = u.db[o].contents
                            /\ a.db[o].exits = u.db[o].exits
      /\ \A o \in Objects : o # i => a.db[o].home = u.db[o].home
      /\ Mobile(u, i) => a.db[i].home # x
      /\ Mobile(u, i) /\ u.db[i].home = x => a.db[i].home = DEFAULT_HOME
      /\ u.db[i].home # x => a.db[i].home = u.db[i].home
  <2>1. CASE Mobile(u, i) /\ u.db[i].home = x
    <3>1. a = WithHome(u, i, DEFAULT_HOME)
      BY <2>1
    <3>2. Holds(u, DEFAULT_HOME) /\ DEFAULT_HOME # i
      BY <1>0, <2>1, OneKind
    <3>3. /\ Sound(a, L) /\ Similar(u, a)
          /\ \A o \in Objects :
               /\ a.db[o].location = u.db[o].location
               /\ a.db[o].contents = u.db[o].contents
               /\ a.db[o].exits = u.db[o].exits
               /\ o # i => a.db[o].home = u.db[o].home
          /\ a.db[i].home = DEFAULT_HOME
      BY <1>0, <2>1, <3>1, <3>2, HomeSound
    <3> QED BY <1>0, <2>1, <3>3
  <2>2. CASE ~(Mobile(u, i) /\ u.db[i].home = x)
    <3>1. a = u
      BY <2>2
    <3>2. Similar(u, u)
      BY DEF Similar
    <3> QED BY <2>2, <3>1, <3>2
  <2> QED BY <2>1, <2>2
<1> HIDE DEF a, h
<1>3. /\ \A o \in Objects : (IsExit(a, o) <=> IsExit(u, o)) /\ (Mobile(a, o) <=> Mobile(u, o))
                            /\ (IsRoom(a, o) <=> IsRoom(u, o)) /\ (IsPlayer(a, o) <=> IsPlayer(u, o))
                            /\ (IsGarbage(a, o) <=> IsGarbage(u, o))
      /\ a \in Memories
  BY <1>2, SimilarKinds, SoundParts
<1>4. /\ \A k \in L : /\ k \in Objects /\ k # DEFAULT_HOME
                      /\ \A y \in Range(u.db[k].contents) : u.db[y].home = k
      /\ \A k \in L : IsPlayer(u, k) => k \notin connected
  BY DEF Dying, special_object
<1>5. i \in Range(u.db[x].contents) =>
        a.db[i].home = DEFAULT_HOME /\ u.db[i].location = x /\ Mobile(u, i)
  BY <1>2, <1>4, SoundListed
<1>6. ASSUME i \notin Range(u.db[x].contents) PROVE Dying(a, L)
  <2>1. ASSUME NEW k \in L, NEW y \in Range(a.db[k].contents) PROVE a.db[y].home = k
    <3>1. k \in Objects /\ y \in Range(u.db[k].contents) /\ u.db[y].home = k
      BY <1>2, <1>4, <2>1
    <3>2. y \in Objects
      BY <3>1, SoundListed
    <3>3. y = i => k # x
      BY <1>6, <3>1
    <3> QED BY <1>2, <3>1, <3>2, <3>3
  <2> QED BY <1>2, <2>1, DyingRearranged
<1>7. CASE u.db[i].location # x
  <2>1. v = a
    BY <1>1, <1>2, <1>7
  <2>2. i \notin Range(u.db[x].contents)
    BY <1>5, <1>7
  <2>3. RehousedFrom(u, a, i, x, K)
    BY <1>2, <1>7 DEF RehousedFrom
  <2> QED BY <1>2, <1>6, <2>1, <2>2, <2>3
<1>8. CASE u.db[i].location = x /\ Mobile(u, i)
  <2>1. v = enter_room(a, i, h) /\ a.db[i].location = x /\ Mobile(a, i)
    BY <1>1, <1>2, <1>3, <1>8
  <2>2. h \in Objects /\ Holds(a, h) /\ h # i /\ h # x
    BY <1>2, <1>8, <2>1, SoundLinked DEF h
  <2>3. i # x
    BY <1>8, NotInItself
  <2>4. i \notin Range(u.db[x].contents) => i \in K
    <3>1. i \notin L => i \in Range(u.db[u.db[i].location].contents)
      BY <1>8, SoundListed
    <3> QED BY <1>8, <2>3, <3>1
  <2>5. ~(Dropper(a, i) /\ a.db[i].location # NOTHING /\ IsRoom(a, a.db[i].location))
    <3>1. CASE IsRoom(u, x)
      <4>1. i \in K
        BY <2>4, <3>1
      <4> QED BY <1>3, <1>4, <4>1 DEF Dropper
    <3>2. CASE ~IsRoom(u, x)
      BY <1>3, <2>1, <3>2
    <3> QED BY <3>1, <3>2
  <2>6. v = Entered(a, i, h)
    BY <2>1, <2>5, EnterRoomEntered
  <2>e. ~IsExit(u, x)
    BY <1>0, <1>8, SoundLinked
  <2>7. CASE CanEnter(a, i, h)
    <3>1. Sound(v, L) /\ Moved(a, v, i, h) /\ Rearranged(a, v)
      <4> DEFINE w == Entered(a, i, h)
      <4> HIDE DEF L, v
      <4>1. Sound(w, L) /\ Moved(a, w, i, h) /\ Rearranged(a, w)
        BY <1>2, <2>2, <2>7, EnteredFacts
      <4> QED BY <2>6, <4>1
    <3>2. /\ \A o \in Objects : v.db[o].home = a.db[o].home /\ v.db[o].exits = a.db[o].exits
          /\ \A o \in Objects : o # i => v.db[o].location = a.db[o].location
          /\ v.db[i].location = h
          /\ Range(v.db[h].contents) = Range(a.db[h].contents) \cup {i}
          /\ \A o \in Objects : o # h => Range(v.db[o].contents) = Range(a.db[o].contents) \ {i}
      BY <3>1 DEF Moved, Alike
    <3>3. Similar(u, v)
      BY <1>2, <3>1, SimilarAlike, SimilarTwice
    <3>4. Dying(v, L)
      <4>1. ASSUME NEW k \in L, NEW y \in Range(v.db[k].contents)
            PROVE  v.db[y].home = k \/ (y \in Range(u.db[k].contents) /\ v.db[y].home = u.db[y].home)
        <5>1. CASE y = i /\ k = h
          BY <3>2, <5>1 DEF h
        <5>2. CASE y = i /\ k # h
          <6>1. k \in Objects /\ i \notin Range(v.db[k].contents)
            BY <1>4, <3>2, <5>2
          <6> QED BY <4>1, <5>2, <6>1
        <5>3. CASE y # i
          <6>1. k \in Objects /\ y \in Range(a.db[k].contents)
            BY <1>4, <3>2, <4>1, <5>3
          <6>2. y \in Range(u.db[k].contents) /\ y \in Objects
            BY <1>2, <6>1, SoundListed
          <6> QED BY <1>2, <3>2, <5>3, <6>2
        <5> QED BY <5>1, <5>2, <5>3
      <4> QED BY <3>3, <4>1, DyingRearranged
    <3>5. RehousedFrom(u, v, i, x, K)
      <4>1. /\ \A o \in Objects : v.db[o].exits = u.db[o].exits
            /\ \A o \in Objects : o # i => /\ v.db[o].location = u.db[o].location
                                           /\ v.db[o].home = u.db[o].home
        BY <1>2, <3>2
      <4>2. Mobile(u, i) => v.db[i].home # x
        BY <1>2, <3>2
      <4>3. v.db[i].location # x
        BY <2>2, <3>2
      <4>4. Range(v.db[x].contents) \subseteq Range(u.db[x].contents)
        BY <1>2, <2>2, <3>2
      <4> QED BY <2>e, <4>1, <4>2, <4>3, <4>4 DEF RehousedFrom
    <3> QED BY <3>1, <3>3, <3>4, <3>5
  <2>8. CASE ~CanEnter(a, i, h)
    <3>1. v = a
      BY <1>2, <2>2, <2>6, <2>8, EnteredFacts
    <3>2. i \notin Range(u.db[x].contents)
      <4>1. ASSUME i \in Range(u.db[x].contents) PROVE FALSE
        <5>1. h = DEFAULT_HOME
          BY <1>5, <4>1 DEF h
        <5>2. CanEnter(a, i, h)
          BY <1>0, <1>2, <1>3, <2>1, <5>1, RoomOpen, SoundParts
        <5> QED BY <2>8, <5>2
      <4> QED BY <4>1
    <3>3. RehousedFrom(u, a, i, x, K)
      BY <1>2, <1>8, <2>4, <3>2 DEF RehousedFrom
    <3> QED BY <1>2, <1>6, <3>1, <3>2, <3>3
  <2> QED BY <2>7, <2>8
<1>9. CASE u.db[i].location = x /\ ~Mobile(u, i)
  <2> DEFINE to == IF IsExit(a, i) THEN h ELSE NOTHING
  <2>1. v = WithLocation(a, i, to)
    BY <1>1, <1>2, <1>3, <1>9
  <2>2. i \notin Range(u.db[x].contents)
    BY <1>5, <1>9
  <2>3. ~IsGarbage(a, i) /\ ~Mobile(a, i)
    <3>1. IsGarbage(u, i) => u.db[i] = Garbage
      BY SoundLinked
    <3>2. IsGarbage(u, i) => u.db[i].location = NOTHING
      BY <3>1 DEF Garbage
    <3> QED BY <1>0, <1>3, <1>9, <3>2
  <2>4. IsExit(a, i) => to \in Objects /\ IsRoom(a, to) /\ ~IsGarbage(a, to) /\ to # x
    <3> SUFFICES ASSUME IsExit(a, i) PROVE to \in Objects /\ IsRoom(a, to) /\ ~IsGarbage(a, to) /\ to # x
      OBVIOUS
    <3>1. to = a.db[i].home
      BY DEF h
    <3>2. a.db[i].home \in Objects /\ IsRoom(a, a.db[i].home)
      BY <1>2, SoundLinked
    <3>3. a.db[i].home = u.db[i].home /\ u.db[i].home # x
      BY <1>2, <1>3
    <3> QED BY <1>3, <3>1, <3>2, <3>3, OneKind
  <2>5. ~IsExit(a, i) => to = NOTHING
    OBVIOUS
  <2>6. to \in Objects \cup {NOTHING} /\ to # x
    BY <1>0, <2>4, <2>5
  <2>7. IsExit(a, i) => ~IsRoom(a, i)
    BY <1>3, OneKind
  <2> HIDE DEF to
  <2>8. /\ Sound(v, L) /\ Indoors(a, v)
        /\ \A o \in Objects : v.db[o].exits = a.db[o].exits
        /\ \A o \in Objects : o # i => v.db[o].location = a.db[o].location
        /\ v.db[i].location = to
    BY <1>2, <2>1, <2>3, <2>4, <2>5, <2>6, <2>7, LocationSound
  <2>9. Similar(a, v) /\ Dying(v, L)
    BY <1>2, <1>6, <2>2, <2>8, IndoorsDying
  <2>10. Similar(u, v)
    BY <1>2, <2>9, SimilarTwice
  <2>11. RehousedFrom(u, v, i, x, K)
    <3>1. \A o \in Objects : v.db[o].home = a.db[o].home /\ v.db[o].contents = a.db[o].contents
      BY <2>8 DEF Indoors
    <3>2. /\ \A o \in Objects : v.db[o].exits = u.db[o].exits
          /\ \A o \in Objects : o # i => /\ v.db[o].location = u.db[o].location
                                         /\ v.db[o].home = u.db[o].home
          /\ \A o \in Objects : v.db[o].contents = u.db[o].contents
      BY <1>2, <2>8, <3>1
    <3>3. v.db[i].location # x
      BY <2>6, <2>8
    <3> QED BY <1>9, <3>2, <3>3 DEF RehousedFrom
  <2> QED BY <2>8, <2>9, <2>10, <2>11
<1> QED BY <1>7, <1>8, <1>9

-----------------------------------------------------------------------------
\* Destroying one object.

\* Nothing but players and things in limbo refers to x.
Forgotten(m, x, K) ==
  /\ m.db[x].contents = <<>>
  /\ \A o \in Objects : x \notin Range(m.db[o].contents) /\ x \notin Range(m.db[o].exits)
  /\ \A o \in Objects : o # x =>
       /\ ~IsGarbage(m, o) => m.db[o].owner # x
       /\ Mobile(m, o) \/ IsExit(m, o) => m.db[o].home # x
       /\ m.db[o].location = x => Mobile(m, o) /\ o \in K

\* What free_object(x) writes last.
Thrown(m, x) ==
  [db |-> [m.db EXCEPT ![x] = [Garbage EXCEPT !.contents = m.db[x].contents]],
   free |-> <<x>> \o m.free]

\* An object that is forgotten can be thrown away.
LEMMA ThrownSound ==
  ASSUME NEW m, NEW K, NEW x \in Objects, Sound(m, K \cup {x}), Forgotten(m, x, K),
         ~IsGarbage(m, x), ~special_object(x)
  PROVE  /\ Sound(Thrown(m, x), K)
         /\ Thrown(m, x).db[x] = Garbage
         /\ \A o \in Objects : o # x => Thrown(m, x).db[o] = m.db[o]
<1> DEFINE n == Thrown(m, x)
           d == [m.db EXCEPT ![x] = Garbage]
           g == <<x>> \o m.free
<1>1. /\ m \in Memories /\ Rooted(m) /\ IsPlayer(m, GOD) /\ IsRoom(m, DEFAULT_HOME)
      /\ IsInjective(m.free) /\ Range(m.free) = {o \in Objects : IsGarbage(m, o)}
      /\ m.db \in [Objects -> ObjectRecords] /\ m.free \in Seq(Objects)
  <2>1. m \in Memories
    BY SoundParts
  <2> QED BY <2>1, SoundParts, Fields
<1>2. Garbage \in ObjectRecords
  <2>1. <<>> \in Seq(Objects) /\ GOD \in Objects /\ 0 \in 0..2
    BY Names
  <2> QED BY <2>1 DEF Garbage, ObjectRecords
<1>3. [Garbage EXCEPT !.contents = m.db[x].contents] = Garbage
  BY DEF Forgotten, Garbage
<1>4. n = [db |-> d, free |-> g]
  BY <1>3 DEF Thrown
<1>5. d \in [Objects -> ObjectRecords] /\ d[x] = Garbage /\ \A o \in Objects : o # x => d[o] = m.db[o]
  BY <1>1, <1>2
<1>6. /\ g \in Seq(Objects) /\ Range(g) = Range(m.free) \cup {x} /\ IsInjective(g)
  <2>1. x \notin Range(m.free)
    BY <1>1
  <2> QED BY <1>1, <2>1, PushFacts
<1> HIDE DEF d, g
<1>7. n \in Memories /\ n.free = g /\ n.db[x] = Garbage
      /\ \A o \in Objects : o # x => n.db[o] = m.db[o]
  BY <1>4, <1>5, <1>6 DEF Memories
<1> HIDE DEF n
<1>8. /\ \A o \in Objects : o # x =>
           /\ IsRoom(n, o) <=> IsRoom(m, o)
           /\ IsExit(n, o) <=> IsExit(m, o)
           /\ IsPlayer(n, o) <=> IsPlayer(m, o)
           /\ IsGarbage(n, o) <=> IsGarbage(m, o)
           /\ Mobile(n, o) <=> Mobile(m, o)
           /\ Holds(n, o) <=> Holds(m, o)
      /\ IsGarbage(n, x) /\ ~IsRoom(n, x) /\ ~IsExit(n, x) /\ ~IsPlayer(n, x) /\ ~Mobile(n, x)
  <2>1. ASSUME NEW o \in Objects, o # x PROVE Kinds(m, n, o)
    <3>1. n.db[o].type = m.db[o].type
      BY <1>7, <2>1
    <3> QED BY <3>1, SameKinds
  <2>2. n.db[x].type = "GARBAGE"
    BY <1>7 DEF Garbage
  <2> QED BY <2>1, <2>2 DEF Kinds, IsGarbage, IsRoom, IsExit, IsPlayer, Mobile
<1>9. IsPlayer(n, GOD) /\ IsRoom(n, DEFAULT_HOME)
  BY <1>1, <1>8, Names DEF special_object
<1>10. ASSUME NEW y \in Objects PROVE Linked(n, y, K)
  <2>1. CASE y = x
    BY <1>7, <1>8, <2>1 DEF Linked
  <2>2. CASE y # x
    <3>0. n.db[y] = m.db[y]
      BY <1>7, <2>2
    <3>1. /\ IsGarbage(m, y) => m.db[y] = Garbage
          /\ ~IsGarbage(m, y) => IsPlayer(m, m.db[y].owner)
          /\ IsPlayer(m, y) => m.db[y].owner = y
          /\ Mobile(m, y) =>
               /\ Holds(m, m.db[y].home) /\ m.db[y].home \in Objects /\ m.db[y].home # y
               /\ m.db[y].location # NOTHING => ~IsExit(m, m.db[y].location)
               /\ y \notin K \cup {x} => Holds(m, m.db[y].location) /\ m.db[y].location \in Objects
          /\ IsExit(m, y) =>
               /\ m.db[y].home \in Objects /\ IsRoom(m, m.db[y].home)
               /\ m.db[y].location # NOTHING => ~IsGarbage(m, m.db[y].location)
          /\ IsRoom(m, y) /\ m.db[y].location # NOTHING => IsRoom(m, m.db[y].location)
      BY SoundLinked
    <3>2. m.db[y].owner \in Objects /\ m.db[y].location \in Objects \cup {NOTHING}
      BY <1>1, Fields
    <3>3. /\ ~IsGarbage(m, y) => m.db[y].owner # x
          /\ Mobile(m, y) \/ IsExit(m, y) => m.db[y].home # x
          /\ m.db[y].location = x => Mobile(m, y) /\ y \in K
      BY <2>2 DEF Forgotten
    <3>4. Mobile(m, y) => ~IsExit(m, y) /\ ~IsRoom(m, y)
      BY <1>1, OneKind
    <3>5. IsGarbage(n, y) => n.db[y] = Garbage
      BY <1>8, <2>2, <3>0, <3>1
    <3>6. ~IsGarbage(n, y) => IsPlayer(n, n.db[y].owner)
      BY <1>8, <2>2, <3>0, <3>1, <3>2, <3>3
    <3>7. IsPlayer(n, y) => n.db[y].owner = y
      BY <1>8, <2>2, <3>0, <3>1
    <3>8. Mobile(n, y) => /\ Holds(n, n.db[y].home) /\ n.db[y].home # y
      BY <1>8, <2>2, <3>0, <3>1, <3>3
    <3>9. Mobile(n, y) /\ n.db[y].location # NOTHING => ~IsExit(n, n.db[y].location)
      BY <1>8, <2>2, <3>0, <3>1, <3>2
    <3>10. Mobile(n, y) /\ y \notin K => Holds(n, n.db[y].location)
      BY <1>8, <2>2, <3>0, <3>1, <3>3
    <3>11. IsExit(n, y) => /\ n.db[y].home # NOTHING /\ IsRoom(n, n.db[y].home)
                           /\ n.db[y].location # NOTHING => ~IsGarbage(n, n.db[y].location)
      BY <1>8, <2>2, <3>0, <3>1, <3>2, <3>3, <3>4, Names
    <3>12. IsRoom(n, y) /\ n.db[y].location # NOTHING => IsRoom(n, n.db[y].location)
      BY <1>8, <2>2, <3>0, <3>1, <3>2, <3>3, <3>4
    <3> QED BY <3>5, <3>6, <3>7, <3>8, <3>9, <3>10, <3>11, <3>12 DEF Linked
  <2> QED BY <2>1, <2>2
<1>11. ASSUME NEW y \in Objects PROVE Listed(n, y, K)
  <2>1. CASE y = x
    <3>1. n.db[y].contents = <<>> /\ n.db[y].exits = <<>>
      BY <1>7, <2>1 DEF Garbage
    <3>2. IsInjective(<<>>) /\ Range(<<>>) = {}
      BY DEF IsInjective, Range
    <3> QED BY <1>8, <2>1, <3>1, <3>2 DEF Listed
  <2>2. CASE y # x
    <3>0. n.db[y] = m.db[y]
      BY <1>7, <2>2
    <3>1. /\ IsInjective(m.db[y].contents) /\ IsInjective(m.db[y].exits)
          /\ \A z \in Range(m.db[y].contents) : z \in Objects /\ Mobile(m, z) /\ m.db[z].location = y
          /\ \A z \in Range(m.db[y].exits) : z \in Objects /\ IsExit(m, z) /\ m.db[z].home = y
          /\ y \notin K \cup {x} =>
               /\ Mobile(m, y) => y \in Range(m.db[m.db[y].location].contents)
               /\ IsExit(m, y) => y \in Range(m.db[m.db[y].home].exits)
      BY SoundListed
    <3>2. ASSUME NEW z \in Range(n.db[y].contents) PROVE Mobile(n, z) /\ n.db[z].location = y
      <4>1. z # x /\ z \in Range(m.db[y].contents)
        BY <3>0, <3>2 DEF Forgotten
      <4> QED BY <1>7, <1>8, <3>1, <4>1
    <3>3. ASSUME NEW z \in Range(n.db[y].exits) PROVE IsExit(n, z) /\ n.db[z].home = y
      <4>1. z # x /\ z \in Range(m.db[y].exits)
        BY <3>0, <3>3 DEF Forgotten
      <4> QED BY <1>7, <1>8, <3>1, <4>1
    <3>4. ASSUME y \notin K, Mobile(n, y) PROVE y \in Range(n.db[n.db[y].location].contents)
      <4>1. Mobile(m, y) /\ m.db[y].location # x
        BY <1>8, <2>2, <3>4 DEF Forgotten
      <4>2. m.db[y].location \in Objects /\ y \in Range(m.db[m.db[y].location].contents)
        BY <2>2, <3>1, <3>4, <4>1, SoundLinked
      <4> QED BY <1>7, <3>0, <4>1, <4>2
    <3>5. ASSUME y \notin K, IsExit(n, y) PROVE y \in Range(n.db[n.db[y].home].exits)
      <4>1. IsExit(m, y) /\ m.db[y].home # x
        BY <1>8, <2>2, <3>5 DEF Forgotten
      <4>2. m.db[y].home \in Objects /\ y \in Range(m.db[m.db[y].home].exits)
        BY <2>2, <3>1, <3>5, <4>1, SoundLinked
      <4> QED BY <1>7, <3>0, <4>1, <4>2
    <3> QED BY <3>0, <3>1, <3>2, <3>3, <3>4, <3>5 DEF Listed
  <2> QED BY <2>1, <2>2
<1>12. Rooted(n)
  <2> SUFFICES ASSUME NEW S \in SUBSET Objects, S # {}, \A y \in S : Mobile(n, y)
               PROVE  \E y \in S : n.db[y].location \notin S
    BY DEF Rooted
  <2>1. \A y \in S : y # x /\ Mobile(m, y)
    BY <1>8
  <2>2. PICK y \in S : m.db[y].location \notin S
    BY <1>1, <2>1 DEF Rooted
  <2> QED BY <1>7, <2>1, <2>2
<1>13. IsInjective(n.free) /\ Range(n.free) = {o \in Objects : IsGarbage(n, o)}
  <2>1. {o \in Objects : IsGarbage(n, o)} = {o \in Objects : IsGarbage(m, o)} \cup {x}
    BY <1>8
  <2> QED BY <1>1, <1>6, <1>7, <2>1
<1> QED BY <1>7, <1>9, <1>10, <1>11, <1>12, <1>13 DEF Sound, n

\* What has been forgotten of x before the loop of free_object(x) comes to
\* object number n.
Rehousing(m, u, x, K, n) ==
  /\ Sound(u, K \cup {x}) /\ Similar(m, u) /\ Dying(u, K \cup {x})
  /\ \A o \in Objects : u.db[o].exits = m.db[o].exits
  /\ \A o \in Objects : o < n /\ Mobile(m, o) => u.db[o].home # x
  /\ \A o \in Objects : o < n /\ u.db[o].location = x =>
       o \in K /\ Mobile(m, o) /\ o \notin Range(u.db[x].contents)
  /\ Range(u.db[x].contents) \subseteq Range(m.db[x].contents)
  /\ IsExit(m, x) => \A o \in Objects : u.db[o].contents = m.db[o].contents

\* x can be freed: nobody is in the room, it has no exits, it owns nothing.
Freeable(m, x) ==
  /\ IsRoom(m, x) => Range(m.db[x].contents) = {}
  /\ \A e \in Objects : IsExit(m, e) => m.db[e].home # x
  /\ \A o \in Objects : o # x /\ ~IsGarbage(m, o) => m.db[o].owner # x
  /\ ~IsGarbage(m, x)

\* One step.
LEMMA RehousingStep ==
  ASSUME NEW m, NEW u, NEW K, NEW x \in Objects, NEW i \in Objects, Freeable(m, x),
         Rehousing(m, u, x, K, i)
  PROVE  Rehousing(m, Rehoused(u, i, x), x, K, i + 1)
<1> DEFINE v == Rehoused(u, i, x)
<1>1. Sound(u, K \cup {x}) /\ Similar(m, u) /\ Dying(u, K \cup {x})
  BY DEF Rehousing
<1>2. \A o \in Objects : (IsRoom(u, o) <=> IsRoom(m, o)) /\ (IsExit(u, o) <=> IsExit(m, o))
                         /\ (Mobile(u, o) <=> Mobile(m, o))
  BY <1>1, SimilarKinds
<1>3. /\ IsRoom(u, x) => Range(u.db[x].contents) = {}
      /\ \A e \in Objects : IsExit(u, e) => u.db[e].home # x
  <2>1. IsRoom(u, x) => Range(u.db[x].contents) = {}
    BY <1>2 DEF Rehousing, Freeable
  <2>2. ASSUME NEW e \in Objects, IsExit(u, e) PROVE u.db[e].home # x
    <3>1. IsExit(m, e) /\ ~Mobile(m, e)
      BY <1>2, <2>2 DEF IsExit, Mobile
    <3> QED BY <1>1, <3>1 DEF Similar, Freeable
  <2> QED BY <2>1, <2>2
<1>4. /\ Sound(v, K \cup {x}) /\ Similar(u, v) /\ Dying(v, K \cup {x})
      /\ RehousedFrom(u, v, i, x, K)
  BY <1>1, <1>3, RehousedFacts
<1> HIDE DEF v
<1>5. Similar(m, v)
  BY <1>1, <1>4, SimilarTwice
<1>6. \A o \in Objects : o < i + 1 => o = i \/ (o < i /\ o # i)
  BY DbAssumption DEF Objects
<1>7. \A o \in Objects : v.db[o].exits = m.db[o].exits
  BY <1>4 DEF RehousedFrom, Rehousing
<1>8. ASSUME NEW o \in Objects, o < i + 1, Mobile(m, o) PROVE v.db[o].home # x
  <2>1. CASE o = i
    BY <1>2, <1>4, <1>8, <2>1 DEF RehousedFrom
  <2>2. CASE o < i /\ o # i
    BY <1>4, <1>8, <2>2 DEF RehousedFrom, Rehousing
  <2> QED BY <1>6, <1>8, <2>1, <2>2
<1>9. ASSUME NEW o \in Objects, o < i + 1, v.db[o].location = x
      PROVE  o \in K /\ Mobile(m, o) /\ o \notin Range(v.db[x].contents)
  <2>1. CASE o = i
    BY <1>2, <1>4, <1>9, <2>1 DEF RehousedFrom
  <2>2. CASE o < i /\ o # i
    <3>1. u.db[o].location = x /\ Range(v.db[x].contents) \subseteq Range(u.db[x].contents)
      BY <1>4, <1>9, <2>2 DEF RehousedFrom
    <3> QED BY <2>2, <3>1 DEF Rehousing
  <2> QED BY <1>6, <1>9, <2>1, <2>2
<1>10. Range(v.db[x].contents) \subseteq Range(m.db[x].contents)
  BY <1>4 DEF RehousedFrom, Rehousing
<1>11. IsExit(m, x) => \A o \in Objects : v.db[o].contents = m.db[o].contents
  BY <1>2, <1>4 DEF RehousedFrom, Rehousing
<1> QED BY <1>4, <1>5, <1>7, <1>8, <1>9, <1>10, <1>11 DEF Rehousing, v

\* The whole loop, step by step.
LEMMA RehousedOneByOne ==
  ASSUME NEW m, NEW K, NEW x \in Objects, Sound(m, K \cup {x}), Dying(m, K \cup {x}),
         Freeable(m, x)
  PROVE  \E f : /\ f[0] = m
                /\ \A n \in 1..DbTop : f[n] = Rehoused(f[n - 1], n - 1, x)
                /\ AllRehoused(m, x) = f[DbTop]
                /\ \A n \in 0..DbTop : Rehousing(m, f[n], x, K, n)
<1>1. PICK f : /\ f[0] = m
               /\ \A n \in 1..DbTop : f[n] = Rehoused(f[n - 1], n - 1, x)
               /\ AllRehoused(m, x) = f[DbTop]
  BY RehouseSteps
<1> DEFINE W == {n \in 0..DbTop : Rehousing(m, f[n], x, K, n)}
<1>2. DbTop \in Nat
  BY DbAssumption
<1>3. 0 \in W
  <2>1. Similar(m, m)
    BY DEF Similar
  <2>2. \A o \in Objects : ~(o < 0)
    BY DEF Objects
  <2>3. Rehousing(m, m, x, K, 0)
    BY <2>1, <2>2 DEF Rehousing
  <2> QED BY <1>1, <1>2, <2>3
<1>4. ASSUME NEW n \in 1..DbTop, n - 1 \in W PROVE n \in W
  <2>1. Rehousing(m, f[n - 1], x, K, n - 1) /\ n - 1 \in Objects
    BY <1>4, Names
  <2>2. (n - 1) + 1 = n /\ n \in 0..DbTop
    OBVIOUS
  <2>3. Rehousing(m, Rehoused(f[n - 1], n - 1, x), x, K, (n - 1) + 1)
    BY <2>1, RehousingStep
  <2> QED BY <1>1, <2>2, <2>3
<1>5. \A n \in 0..DbTop : n \in W
  <2> HIDE DEF W
  <2> QED BY <1>2, <1>3, <1>4, UpTo
<1> QED BY <1>1, <1>5

\* The whole loop.
LEMMA AllRehousedFacts ==
  ASSUME NEW m, NEW K, NEW x \in Objects, Sound(m, K \cup {x}), Dying(m, K \cup {x}),
         Freeable(m, x)
  PROVE  Rehousing(m, AllRehoused(m, x), x, K, DbTop)
<1>1. PICK f : /\ AllRehoused(m, x) = f[DbTop]
               /\ \A n \in 0..DbTop : Rehousing(m, f[n], x, K, n)
  BY RehousedOneByOne
<1>2. DbTop \in 0..DbTop
  BY DbAssumption
<1> QED BY <1>1, <1>2

\* The cut loses nobody: what free_object(x) leaves is the same without it.
Lossless(m, x) == Reclaimed(m, x) = Discarded(AllRehoused(m, x), x)

\* Nothing but players and things is on a contents list.
LEMMA Immobile ==
  ASSUME NEW m, NEW K, Sound(m, K), NEW x \in Objects, ~Mobile(m, x)
  PROVE  Absent(m, x)
BY SoundListed DEF Absent

\* What is on no list is on none after one step.
LEMMA RehousedAbsent ==
  ASSUME NEW u, NEW K, Sound(u, K), NEW x \in Objects, Mobile(u, x), Absent(u, x),
         x # DEFAULT_HOME, NEW i \in Objects
  PROVE  Absent(Rehoused(u, i, x), x)
<1> DEFINE v == Rehoused(u, i, x)
           a == IF Mobile(u, i) /\ u.db[i].home = x THEN WithHome(u, i, DEFAULT_HOME) ELSE u
           h == a.db[i].home
<1>0. u \in Memories /\ IsRoom(u, DEFAULT_HOME) /\ DEFAULT_HOME \in Objects /\ x # NOTHING
  BY SoundParts, Names
<1>1. v = IF a.db[i].location # x THEN a
          ELSE IF Mobile(a, i) THEN enter_room(a, i, h)
          ELSE IF IsExit(a, i) THEN WithLocation(a, i, h)
          ELSE WithLocation(a, i, NOTHING)
  BY DEF Rehoused, WithHome, WithLocation
<1>2. /\ Sound(a, K) /\ Similar(u, a)
      /\ \A o \in Objects : /\ a.db[o].location = u.db[o].location
                            /\ a.db[o].contents = u.db[o].contents
  <2>1. CASE Mobile(u, i) /\ u.db[i].home = x
    <3>1. a = WithHome(u, i, DEFAULT_HOME)
      BY <2>1
    <3>2. Holds(u, DEFAULT_HOME) /\ DEFAULT_HOME # i
      BY <1>0, <2>1, OneKind
    <3> QED BY <1>0, <2>1, <3>1, <3>2, HomeSound
  <2>2. CASE ~(Mobile(u, i) /\ u.db[i].home = x)
    <3>1. a = u /\ Similar(u, u)
      BY <2>2 DEF Similar
    <3> QED BY <3>1
  <2> QED BY <2>1, <2>2
<1> HIDE DEF a, h
<1>3. a \in Memories /\ Mobile(a, x) /\ ~IsRoom(a, x) /\ Absent(a, x)
  <2>1. a \in Memories /\ Mobile(a, x)
    BY <1>2, SimilarKinds, SoundParts
  <2>2. Absent(a, x)
    BY <1>2 DEF Absent
  <2> QED BY <2>1, <2>2, OneKind
<1>4. CASE a.db[i].location # x
  BY <1>1, <1>3, <1>4
<1>5. CASE a.db[i].location = x /\ Mobile(a, i)
  <2>1. v = enter_room(a, i, h)
    BY <1>1, <1>5
  <2>2. v = Entered(a, i, h)
    BY <1>3, <1>5, <2>1, EnterRoomEntered
  <2>3. i # x
    BY <1>2, <1>3, <1>5, NotInItself
  <2>4. h \in Objects /\ Holds(a, h)
    BY <1>2, <1>5, SoundLinked DEF h
  <2> HIDE DEF v
  <2>5. v = a \/ Moved(a, v, i, h)
    <3> DEFINE e == Entered(a, i, h)
    <3>1. e = a \/ Moved(a, e, i, h)
      BY <1>2, <2>4, EnteredFacts
    <3> QED BY <2>2, <3>1
  <2>6. CASE v = a
    BY <1>3, <2>6 DEF v
  <2>7. CASE Moved(a, v, i, h)
    <3>1. ASSUME NEW o \in Objects PROVE x \notin Range(v.db[o].contents)
      <4>1. Range(v.db[o].contents) \subseteq Range(a.db[o].contents) \cup {i}
        <5>1. CASE o = h
          BY <2>7, <5>1 DEF Moved
        <5>2. CASE o # h
          BY <2>7, <5>2 DEF Moved
        <5> QED BY <5>1, <5>2
      <4> QED BY <1>3, <2>3, <4>1 DEF Absent
    <3>2. Absent(v, x)
      BY <3>1 DEF Absent
    <3> QED BY <3>2 DEF v
  <2> QED BY <2>5, <2>6, <2>7 DEF v
<1>6. CASE a.db[i].location = x /\ ~Mobile(a, i)
  <2>1. h \in Objects \cup {NOTHING}
    BY <1>3, Fields DEF h
  <2>2. \E d \in Objects \cup {NOTHING} : v = WithLocation(a, i, d)
    BY <1>1, <1>6, <2>1
  <2>3. PICK d \in Objects \cup {NOTHING} : v = WithLocation(a, i, d)
    BY <2>2
  <2> HIDE DEF v
  <2>4. \A o \in Objects : v.db[o].contents = a.db[o].contents
    <3> DEFINE w == WithLocation(a, i, d)
    <3>1. /\ w \in Memories /\ w.free = a.free
          /\ \A o \in Objects :
               /\ w.db[o].type = a.db[o].type
               /\ w.db[o].owner = a.db[o].owner
               /\ w.db[o].going = a.db[o].going
               /\ w.db[o].home = a.db[o].home
               /\ w.db[o].contents = a.db[o].contents
               /\ w.db[o].exits = a.db[o].exits
               /\ o # i => w.db[o] = a.db[o]
          /\ w.db[i].location = d
      BY <1>3, SetLocation
    <3> HIDE DEF w
    <3> QED BY <2>3, <3>1 DEF w
  <2>5. Absent(v, x)
    BY <1>3, <2>4 DEF Absent
  <2> QED BY <2>5 DEF v
<1> QED BY <1>4, <1>5, <1>6

\* Nobody is behind what is on no list.
LEMMA SeveredAbsent ==
  ASSUME NEW m \in Memories, NEW x \in Objects, NEW i \in Objects, Absent(m, x)
  PROVE  Severed(m, i, x) = m
<1> DEFINE at == m.db[i].location
           list == m.db[at].contents
<1>1. at \in Objects \cup {NOTHING}
  BY Fields
<1> HIDE DEF at
<1>2. ASSUME at # NOTHING, NEW n \in 2..Len(list), list[n] = x PROVE FALSE
  <2>1. at \in Objects /\ list \in Seq(Objects)
    BY <1>1, <1>2, Fields
  <2>2. x \in Range(list)
    BY <1>2, <2>1 DEF Range
  <2> QED BY <2>1, <2>2 DEF Absent
<1> QED BY <1>2 DEF Severed, at

\* free_object() of what is on no list loses nobody.
LEMMA AbsentLossless ==
  ASSUME NEW m, NEW K, NEW x \in Objects, Sound(m, K \cup {x}), Dying(m, K \cup {x}),
         Freeable(m, x), Absent(m, x)
  PROVE  Lossless(m, x)
<1>1. PICK f : /\ f[0] = m
               /\ \A n \in 1..DbTop : f[n] = Rehoused(f[n - 1], n - 1, x)
               /\ AllRehoused(m, x) = f[DbTop]
               /\ \A n \in 0..DbTop : Rehousing(m, f[n], x, K, n)
  BY RehousedOneByOne
<1>2. PICK g : /\ g[0] = m
               /\ \A n \in 1..DbTop : g[n] = Unlinked(g[n - 1], n - 1, x)
               /\ AllUnlinked(m, x) = g[DbTop]
  BY UnlinkSteps
<1>3. DbTop \in Nat /\ DbTop \in 0..DbTop
  BY DbAssumption
<1> DEFINE W == {n \in 0..DbTop : g[n] = f[n] /\ Absent(f[n], x)}
<1>4. 0 \in W
  BY <1>1, <1>2, <1>3
<1>5. ASSUME NEW n \in 1..DbTop, n - 1 \in W PROVE n \in W
  <2> DEFINE a == f[n - 1]
             b == f[n]
  <2>1. n - 1 \in Objects /\ n - 1 \in 0..DbTop /\ n \in 0..DbTop
    BY <1>5, Names
  <2>2. g[n - 1] = a /\ Absent(a, x) /\ b = Rehoused(a, n - 1, x)
        /\ Rehousing(m, a, x, K, n - 1) /\ Rehousing(m, b, x, K, n)
    BY <1>1, <1>5, <2>1
  <2>3. g[n] = Severed(b, n - 1, x)
    BY <1>2, <2>2 DEF Unlinked
  <2> HIDE DEF a, b
  <2>4. /\ Sound(a, K \cup {x}) /\ Similar(m, a) /\ Dying(a, K \cup {x})
        /\ Sound(b, K \cup {x}) /\ b \in Memories
    BY <2>2, SoundParts DEF Rehousing
  <2>5. Absent(b, x)
    <3>1. CASE Mobile(a, x)
      <4>1. x # DEFAULT_HOME
        BY <2>4 DEF Dying, special_object
      <4> QED BY <2>1, <2>2, <2>4, <3>1, <4>1, RehousedAbsent
    <3>2. CASE ~Mobile(a, x)
      <4>1. Similar(m, b)
        BY <2>2 DEF Rehousing
      <4>2. ~Mobile(b, x)
        BY <2>4, <3>2, <4>1, SimilarKinds
      <4> QED BY <2>4, <4>2, Immobile
    <3> QED BY <3>1, <3>2
  <2>6. g[n] = b
    BY <2>1, <2>3, <2>4, <2>5, SeveredAbsent
  <2> QED BY <2>1, <2>5, <2>6 DEF b
<1>6. \A n \in 0..DbTop : n \in W
  <2> HIDE DEF W
  <2> QED BY <1>3, <1>4, <1>5, UpTo
<1>7. AllUnlinked(m, x) = AllRehoused(m, x)
  BY <1>1, <1>2, <1>3, <1>6
<1> QED BY <1>7 DEF Lossless, Reclaimed

\* What destruction changes of what is left: it may free the objects of F,
\* spare objects and give them to God, but an exit only with its source.
Ebbs(m, n, F) ==
  \A o \in Objects :
    /\ n.db[o].type = m.db[o].type \/ (o \in F /\ IsGarbage(n, o))
    /\ n.db[o].going \in {0, m.db[o].going}
    /\ ~IsGarbage(n, o) => n.db[o].owner \in {m.db[o].owner, GOD}
    /\ IsExit(n, o) => /\ n.db[o].home = m.db[o].home
                       /\ n.db[o].going = m.db[o].going \/ n.db[n.db[o].home].going = 0

\* Nothing changes.
LEMMA EbbsSimilar ==
  ASSUME NEW m, NEW n, Similar(m, n)
  PROVE  Ebbs(m, n, {})
<1>1. ASSUME NEW o \in Objects, IsExit(n, o) PROVE n.db[o].home = m.db[o].home
  <2>1. ~Mobile(m, o)
    BY <1>1, SimilarKinds DEF IsExit, Mobile
  <2> QED BY <2>1 DEF Similar
<1> QED BY <1>1 DEF Ebbs, Similar

\* One destruction after another.
LEMMA EbbsTwice ==
  ASSUME NEW m, NEW n, NEW k, NEW F, NEW G, Ebbs(m, n, F), Ebbs(n, k, G),
         \A o \in Objects : IsExit(k, o) => k.db[o].home \in Objects
  PROVE  Ebbs(m, k, F \cup G)
<1> SUFFICES ASSUME NEW o \in Objects
             PROVE  /\ k.db[o].type = m.db[o].type \/ (o \in F \cup G /\ IsGarbage(k, o))
                    /\ k.db[o].going \in {0, m.db[o].going}
                    /\ ~IsGarbage(k, o) => k.db[o].owner \in {m.db[o].owner, GOD}
                    /\ IsExit(k, o) => /\ k.db[o].home = m.db[o].home
                                       /\ \/ k.db[o].going = m.db[o].going
                                          \/ k.db[k.db[o].home].going = 0
  BY DEF Ebbs
<1>1. /\ n.db[o].type = m.db[o].type \/ (o \in F /\ IsGarbage(n, o))
      /\ n.db[o].going \in {0, m.db[o].going}
      /\ ~IsGarbage(n, o) => n.db[o].owner \in {m.db[o].owner, GOD}
      /\ IsExit(n, o) => /\ n.db[o].home = m.db[o].home
                         /\ n.db[o].going = m.db[o].going \/ n.db[n.db[o].home].going = 0
  BY DEF Ebbs
<1>2. /\ k.db[o].type = n.db[o].type \/ (o \in G /\ IsGarbage(k, o))
      /\ k.db[o].going \in {0, n.db[o].going}
      /\ ~IsGarbage(k, o) => k.db[o].owner \in {n.db[o].owner, GOD}
      /\ IsExit(k, o) => /\ k.db[o].home = n.db[o].home
                         /\ k.db[o].going = n.db[o].going \/ k.db[k.db[o].home].going = 0
  BY DEF Ebbs
<1>3. k.db[o].type = m.db[o].type \/ (o \in F \cup G /\ IsGarbage(k, o))
  BY <1>1, <1>2 DEF IsGarbage
<1>4. ~IsGarbage(k, o) => ~IsGarbage(n, o)
  BY <1>2 DEF IsGarbage
<1>5. IsExit(k, o) => /\ k.db[o].home = m.db[o].home
                      /\ k.db[o].going = m.db[o].going \/ k.db[k.db[o].home].going = 0
  <2> SUFFICES ASSUME IsExit(k, o) PROVE /\ k.db[o].home = m.db[o].home
                                         /\ \/ k.db[o].going = m.db[o].going
                                            \/ k.db[k.db[o].home].going = 0
    OBVIOUS
  <2>1. IsExit(n, o)
    BY <1>2 DEF IsExit, IsGarbage
  <2>2. k.db[o].home = n.db[o].home /\ n.db[o].home = m.db[o].home /\ k.db[o].home \in Objects
    BY <1>1, <1>2, <2>1
  <2>3. k.db[k.db[o].home].going \in {0, n.db[k.db[o].home].going}
    BY <2>2 DEF Ebbs
  <2> QED BY <1>1, <1>2, <2>1, <2>2, <2>3
<1> QED BY <1>1, <1>2, <1>3, <1>4, <1>5

\* x is on no list in v, and that is all the difference.
Delisted(u, v, x) ==
  /\ \A o \in Objects :
       /\ v.db[o].type = u.db[o].type /\ v.db[o].owner = u.db[o].owner
       /\ v.db[o].going = u.db[o].going /\ v.db[o].home = u.db[o].home
       /\ v.db[o].location = u.db[o].location
       /\ Range(v.db[o].contents) = Range(u.db[o].contents) \ {x}
       /\ Range(v.db[o].exits) = Range(u.db[o].exits) \ {x}
  /\ IsExit(u, x) => \A o \in Objects : v.db[o].contents = u.db[o].contents

\* free_object(x) takes x off the list it is on.
LEMMA DelistedFacts ==
  ASSUME NEW u, NEW L, Sound(u, L), NEW x \in Objects, x \in L, NEW D, Dying(u, D), NEW v,
         v = IF Mobile(u, x) THEN Detached(u, x, u.db[x].location)
             ELSE IF IsExit(u, x) /\ u.db[x].home # NOTHING THEN clear_exit(u, x) ELSE u
  PROVE  Sound(v, L) /\ Similar(u, v) /\ Dying(v, D) /\ Delisted(u, v, x)
<1>0. L \cup {x} = L /\ u \in Memories
  BY SoundParts
<1>1. \A o \in Objects : /\ x \in Range(u.db[o].contents) => Mobile(u, x)
                         /\ x \in Range(u.db[o].exits) => IsExit(u, x)
  BY SoundListed
<1>2. CASE Mobile(u, x)
  <2>1. v = Detached(u, x, u.db[x].location) /\ ~IsExit(u, x)
    BY <1>0, <1>2, OneKind
  <2>2. Sound(v, L) /\ Similar(u, v) /\ Dying(v, D)
    BY <1>0, <2>1, DetachedSound
  <2>3. OnlyIn(u, x, u.db[x].location) /\ u.db[x].location \in Objects \cup {NOTHING}
    BY <1>0, SoundOnlyIn, Fields
  <2>4. \A o \in Objects :
          /\ Alike(u, v, o)
          /\ v.db[o].location = u.db[o].location
          /\ Range(v.db[o].contents) = Range(u.db[o].contents) \ {x}
    <3> DEFINE where == u.db[x].location
               w == Detached(u, x, where)
    <3>1. where \in Objects \cup {NOTHING} /\ OnlyIn(u, x, where) /\ v = w
      BY <2>1, <2>3
    <3> HIDE DEF where
    <3>2. /\ w \in Memories /\ w.free = u.free
          /\ \A o \in Objects :
               /\ Alike(u, w, o)
               /\ w.db[o].location = u.db[o].location
               /\ IsInjective(w.db[o].contents)
               /\ Range(w.db[o].contents) = Range(u.db[o].contents) \ {x}
      <4>1. u \in Memories /\ x \in Objects
        BY <1>0
      <4> QED BY <3>1, <4>1, DetachedFacts
    <3> QED BY <3>1, <3>2
  <2>5. ASSUME NEW o \in Objects PROVE Range(v.db[o].exits) = Range(u.db[o].exits) \ {x}
    <3>1. v.db[o].exits = u.db[o].exits
      BY <2>4 DEF Alike
    <3>2. x \notin Range(u.db[o].exits)
      BY <1>1, <2>1
    <3> QED BY <3>1, <3>2
  <2>6. \A o \in Objects :
          /\ v.db[o].type = u.db[o].type /\ v.db[o].owner = u.db[o].owner
          /\ v.db[o].going = u.db[o].going /\ v.db[o].home = u.db[o].home
    BY <2>4 DEF Alike
  <2>7. Delisted(u, v, x)
    BY <2>1, <2>4, <2>5, <2>6 DEF Delisted
  <2> QED BY <2>2, <2>7
<1>3. CASE ~Mobile(u, x) /\ IsExit(u, x)
  <2>1. v = clear_exit(u, x)
    BY <1>3, SoundLinked, Names
  <2>2. Sound(v, L) /\ Indoors(u, v) /\ Unhung(u, v, x)
    BY <1>0, <1>3, <2>1, ClearExitSound
  <2>3. Similar(u, v) /\ Dying(v, D)
    BY <2>2, IndoorsDying
  <2>4. \A o \in Objects : Range(u.db[o].contents) = Range(u.db[o].contents) \ {x}
    BY <1>1, <1>3
  <2>5. Delisted(u, v, x)
    BY <2>2, <2>4 DEF Delisted, Indoors, Unhung
  <2> QED BY <2>2, <2>3, <2>5
<1>4. CASE ~Mobile(u, x) /\ ~IsExit(u, x)
  <2>1. v = u
    BY <1>4
  <2>2. \A o \in Objects : /\ Range(u.db[o].contents) = Range(u.db[o].contents) \ {x}
                           /\ Range(u.db[o].exits) = Range(u.db[o].exits) \ {x}
    BY <1>1, <1>4
  <2>3. Delisted(u, u, x) /\ Similar(u, u)
    BY <2>2 DEF Delisted, Similar
  <2> QED BY <2>1, <2>3
<1> QED BY <1>2, <1>3, <1>4

\* What free_object(x) does besides: exits lists may be shorter, and nobody
\* moves for an exit.
Razed(m, n, x) ==
  /\ Ebbs(m, n, {x}) /\ n.db[x] = Garbage
  /\ \A o \in Objects : Range(n.db[o].exits) \subseteq Range(m.db[o].exits)
  /\ IsExit(m, x) => \A o \in Objects : o # x => n.db[o].contents = m.db[o].contents

\* free_object() keeps everything in order once nothing depends on x.
LEMMA ReclaimedSound ==
  ASSUME NEW m, NEW K, NEW x \in Objects, Sound(m, K \cup {x}), Dying(m, K \cup {x}),
         Freeable(m, x), Lossless(m, x)
  PROVE  /\ Sound(Reclaimed(m, x), K) /\ Dying(Reclaimed(m, x), K)
         /\ Razed(m, Reclaimed(m, x), x)
<1> DEFINE L == K \cup {x}
           u == AllRehoused(m, x)
           v == IF Mobile(u, x) THEN Detached(u, x, u.db[x].location)
                ELSE IF IsExit(u, x) /\ u.db[x].home # NOTHING THEN clear_exit(u, x) ELSE u
           n == Reclaimed(m, x)
<1>1. n = Thrown(v, x)
  BY DEF Lossless, Discarded, Thrown, clear_exit
<1>2. Rehousing(m, u, x, K, DbTop)
  BY AllRehousedFacts
<1>3. Sound(u, L) /\ Similar(m, u) /\ Dying(u, L)
  BY <1>2 DEF Rehousing
<1>4. Sound(v, L) /\ Similar(u, v) /\ Dying(v, L) /\ Delisted(u, v, x)
  BY <1>3, DelistedFacts
<1> HIDE DEF u, v, n
<1>5. Similar(m, v)
  BY <1>3, <1>4, SimilarTwice
<1>6. /\ \A o \in Objects : /\ (IsGarbage(v, o) <=> IsGarbage(m, o)) /\ (IsExit(v, o) <=> IsExit(m, o))
                            /\ (Mobile(v, o) <=> Mobile(m, o)) /\ (IsPlayer(v, o) <=> IsPlayer(m, o))
      /\ \A o \in Objects : IsExit(u, o) <=> IsExit(m, o)
  BY <1>3, <1>5, SimilarKinds
<1>7. ~special_object(x) /\ ~IsGarbage(v, x) /\ v \in Memories /\ x # NOTHING
  BY <1>4, <1>6, SoundParts, Names DEF Freeable, Dying
<1>8. \A o \in Objects : o < DbTop
  BY DbAssumption DEF Objects
<1>9. Forgotten(v, x, K)
  <2>1. \A o \in Objects : x \notin Range(v.db[o].contents) /\ x \notin Range(v.db[o].exits)
    BY <1>4 DEF Delisted
  <2>2. v.db[x].contents = <<>>
    <3>1. ASSUME NEW y \in Range(v.db[x].contents) PROVE FALSE
      <4>1. y \in Range(u.db[x].contents)
        BY <1>4, <3>1 DEF Delisted
      <4>2. y \in Objects /\ u.db[y].location = x
        BY <1>3, <4>1, SoundListed
      <4> QED BY <1>2, <1>8, <4>1, <4>2 DEF Rehousing
    <3>2. v.db[x].contents \in Seq(Objects)
      BY <1>7, Fields
    <3> QED BY <3>1, <3>2, EmptyRange
  <2>3. ASSUME NEW o \in Objects, o # x
        PROVE  /\ ~IsGarbage(v, o) => v.db[o].owner # x
               /\ Mobile(v, o) \/ IsExit(v, o) => v.db[o].home # x
               /\ v.db[o].location = x => Mobile(v, o) /\ o \in K
    <3>1. ~IsGarbage(v, o) => v.db[o].owner # x
      BY <1>5, <1>6, <2>3 DEF Similar, Freeable
    <3>2. Mobile(v, o) => v.db[o].home # x
      BY <1>2, <1>4, <1>6, <1>8 DEF Rehousing, Delisted
    <3>3. ASSUME IsExit(v, o) PROVE v.db[o].home # x
      <4>1. IsExit(m, o) /\ ~Mobile(m, o)
        BY <1>6, <3>3 DEF IsExit, Mobile
      <4> QED BY <1>5, <4>1 DEF Similar, Freeable
    <3>4. v.db[o].location = x => Mobile(v, o) /\ o \in K
      BY <1>2, <1>4, <1>6, <1>8 DEF Rehousing, Delisted
    <3> QED BY <3>1, <3>2, <3>3, <3>4
  <2> QED BY <2>1, <2>2, <2>3 DEF Forgotten
<1>10. Sound(n, K) /\ n.db[x] = Garbage /\ \A o \in Objects : o # x => n.db[o] = v.db[o]
  BY <1>1, <1>4, <1>7, <1>9, ThrownSound
<1>11. IsGarbage(n, x) /\ ~IsPlayer(n, x) /\ ~IsExit(n, x) /\ n.db[x].going = 0
       /\ Range(n.db[x].contents) = {} /\ Range(n.db[x].exits) = {}
  BY <1>10 DEF Garbage, IsGarbage, IsPlayer, IsExit, Range
<1>12. Dying(n, K)
  <2>1. ASSUME NEW k \in K PROVE /\ k \in Objects /\ ~special_object(k)
                                 /\ IsPlayer(n, k) => k \notin connected
                                 /\ \A y \in Range(n.db[k].contents) : n.db[y].home = k
    <3>0. /\ k \in Objects /\ ~special_object(k)
          /\ IsPlayer(v, k) => k \notin connected
          /\ \A y \in Range(v.db[k].contents) : v.db[y].home = k
      BY <1>4 DEF Dying
    <3>1. CASE k = x
      BY <1>11, <3>0, <3>1
    <3>2. CASE k # x
      <4>1. n.db[k] = v.db[k] /\ (IsPlayer(n, k) <=> IsPlayer(v, k))
        BY <1>10, <3>0, <3>2 DEF IsPlayer
      <4>2. \A y \in Range(v.db[k].contents) : y \in Objects /\ y # x
        BY <1>4, <1>9, <3>0, SoundListed DEF Forgotten
      <4> QED BY <1>10, <3>0, <4>1, <4>2
    <3> QED BY <3>1, <3>2
  <2> QED BY <2>1 DEF Dying
<1>13. Ebbs(m, n, {x})
  <2>1. ASSUME NEW o \in Objects
        PROVE  /\ n.db[o].type = m.db[o].type \/ (o \in {x} /\ IsGarbage(n, o))
               /\ n.db[o].going \in {0, m.db[o].going}
               /\ ~IsGarbage(n, o) => n.db[o].owner \in {m.db[o].owner, GOD}
               /\ IsExit(n, o) => /\ n.db[o].home = m.db[o].home
                                  /\ n.db[o].going = m.db[o].going \/ n.db[n.db[o].home].going = 0
    <3>1. CASE o = x
      BY <1>11, <3>1
    <3>2. CASE o # x
      <4>1. n.db[o] = v.db[o]
        BY <1>10, <3>2
      <4>2. /\ v.db[o].type = m.db[o].type /\ v.db[o].owner = m.db[o].owner
            /\ v.db[o].going = m.db[o].going
            /\ ~Mobile(m, o) => v.db[o].home = m.db[o].home
        BY <1>5 DEF Similar
      <4>3. IsExit(n, o) => ~Mobile(m, o)
        BY <4>1, <4>2 DEF IsExit, Mobile
      <4> QED BY <4>1, <4>2, <4>3
    <3> QED BY <3>1, <3>2
  <2> QED BY <2>1 DEF Ebbs
<1>14. ASSUME NEW o \in Objects PROVE Range(n.db[o].exits) \subseteq Range(m.db[o].exits)
  <2>1. CASE o = x
    BY <1>11, <2>1
  <2>2. CASE o # x
    <3>1. n.db[o].exits = v.db[o].exits
      BY <1>10, <2>2
    <3> QED BY <1>2, <1>4, <3>1 DEF Rehousing, Delisted
  <2> QED BY <2>1, <2>2
<1>15. ASSUME IsExit(m, x), NEW o \in Objects, o # x PROVE n.db[o].contents = m.db[o].contents
  <2>1. n.db[o].contents = v.db[o].contents
    BY <1>10, <1>15
  <2> QED BY <1>2, <1>4, <1>6, <1>15, <2>1 DEF Rehousing, Delisted
<1> QED BY <1>10, <1>12, <1>13, <1>14, <1>15 DEF Razed, n

\* The doomed: x and its exits.
Along(m, x) == {x} \cup {e \in Objects : IsExit(m, e) /\ m.db[e].home = x}

\* What freeing an object leaves.
Cleaned(m, n, K, F) == Sound(n, K) /\ Dying(n, K) /\ Ebbs(m, n, F)

\* What else may be in limbo when a possession is freed: no exits.
NoExits(m, K) == \A k \in K : ~IsExit(m, k)

\* clear_thing() leaves x empty and in limbo.
LEMMA ClearThingSound ==
  ASSUME NEW m, NEW K, Sound(m, K), Dying(m, K), NEW x \in Objects, Mobile(m, x),
         ~special_object(x), IsPlayer(m, x) => x \notin connected
  PROVE  /\ Sound(clear_thing(m, x), K \cup {x}) /\ Similar(m, clear_thing(m, x))
         /\ Dying(clear_thing(m, x), K \cup {x})
         /\ clear_thing(m, x).db[x].contents = <<>>
         /\ Absent(clear_thing(m, x), x)
<1> DEFINE d == Detached(m, x, m.db[x].location)
           c == clear_thing(m, x)
<1>1. Sound(d, K \cup {x}) /\ Similar(m, d) /\ Dying(d, K)
  BY DetachedSound
<1>2. c = empty_contents(d, x)
  BY DEF clear_thing
<1>a. Absent(d, x)
  <2> DEFINE where == m.db[x].location
             w == Detached(m, x, where)
  <2>1. m \in Memories /\ where \in Objects \cup {NOTHING}
    BY SoundParts, Fields
  <2>2. OnlyIn(m, x, where) /\ d = w
    BY SoundOnlyIn
  <2> HIDE DEF where
  <2>3. /\ w \in Memories /\ w.free = m.free
        /\ \A o \in Objects :
             /\ Alike(m, w, o)
             /\ w.db[o].location = m.db[o].location
             /\ IsInjective(w.db[o].contents)
             /\ Range(w.db[o].contents) = Range(m.db[o].contents) \ {x}
    BY <2>1, <2>2, DetachedFacts
  <2> HIDE DEF w
  <2>4. Absent(w, x)
    BY <2>3 DEF Absent
  <2> QED BY <2>2, <2>4
<1> HIDE DEF d, c
<1>3. x # DEFAULT_HOME
  BY DEF special_object
<1>4. /\ Sound(c, K \cup {x}) /\ Similar(d, c) /\ Dying(c, K) /\ c.db[x].contents = <<>>
      /\ Absent(c, x)
  <2>1. Mobile(d, x)
    BY <1>1, SimilarKinds
  <2> QED BY <1>1, <1>2, <1>3, <1>a, <2>1, EmptySound
<1>5. Similar(m, c)
  BY <1>1, <1>4, SimilarTwice
<1>6. Dying(c, K \cup {x})
  <2>1. IsPlayer(c, x) => x \notin connected
    BY <1>5, SimilarKinds
  <2>2. Range(c.db[x].contents) = {}
    BY <1>4 DEF Range
  <2> QED BY <1>4, <2>1, <2>2 DEF Dying
<1> QED BY <1>4, <1>5, <1>6 DEF c

\* A thing is freed.
LEMMA FreedThing ==
  ASSUME NEW m, NEW K, Sound(m, K), Dying(m, K), NEW x \in Objects, IsThing(m, x),
         ~special_object(x)
  PROVE  /\ Cleaned(m, Reclaimed(clear_thing(m, x), x), K, {x})
         /\ IsGarbage(Reclaimed(clear_thing(m, x), x), x)
<1> DEFINE c == clear_thing(m, x)
           n == Reclaimed(c, x)
<1>1. Mobile(m, x) /\ ~IsPlayer(m, x) /\ m \in Memories
  BY SoundParts, OneKind
<1>2. Sound(c, K \cup {x}) /\ Similar(m, c) /\ Dying(c, K \cup {x}) /\ Absent(c, x)
  BY <1>1, ClearThingSound
<1> HIDE DEF c
<1>3. IsThing(c, x) /\ Mobile(c, x) /\ ~IsPlayer(c, x) /\ ~IsRoom(c, x) /\ ~IsGarbage(c, x)
      /\ c \in Memories
  BY <1>1, <1>2, SimilarKinds, SoundParts, OneKind
<1>4. Freeable(c, x)
  <2>1. \A e \in Objects : IsExit(c, e) => c.db[e].home # x
    BY <1>2, <1>3, SoundLinked
  <2>2. \A o \in Objects : ~IsGarbage(c, o) => c.db[o].owner # x
    BY <1>2, <1>3, SoundLinked
  <2> QED BY <1>3, <2>1, <2>2 DEF Freeable
<1>5. Sound(n, K) /\ Dying(n, K) /\ Razed(c, n, x)
  BY <1>2, <1>4, AbsentLossless, ReclaimedSound
<1> HIDE DEF n
<1>6. Ebbs(m, c, {}) /\ Ebbs(c, n, {x})
  BY <1>2, <1>5, EbbsSimilar DEF Razed
<1>7. \A o \in Objects : IsExit(n, o) => n.db[o].home \in Objects
  BY <1>5, SoundLinked
<1>8. Ebbs(m, n, {} \cup {x})
  BY <1>6, <1>7, EbbsTwice
<1>9. {} \cup {x} = {x}
  OBVIOUS
<1>10. IsGarbage(n, x)
  BY <1>5 DEF Razed, Garbage, IsGarbage
<1> QED BY <1>5, <1>8, <1>9, <1>10 DEF Cleaned, n, c

\* Nobody moves when exit x goes, and no exit comes.
Unmoved(m, n, x) ==
  /\ \A o \in Objects : Range(n.db[o].exits) \subseteq Range(m.db[o].exits)
  /\ \A o \in Objects : o # x => n.db[o].contents = m.db[o].contents

\* An exit is freed.
LEMMA FreedExit ==
  ASSUME NEW m, NEW K, NEW x \in Objects, Sound(m, K \cup {x}), Dying(m, K \cup {x}),
         IsExit(m, x)
  PROVE  /\ Cleaned(m, Reclaimed(clear_exit(m, x), x), K, {x})
         /\ IsGarbage(Reclaimed(clear_exit(m, x), x), x)
         /\ Unmoved(m, Reclaimed(clear_exit(m, x), x), x)
<1> DEFINE c == clear_exit(m, x)
           n == Reclaimed(c, x)
           L == K \cup {x}
<1>0. L \cup {x} = L
  OBVIOUS
<1> HIDE DEF L
<1>1. Sound(m, L) /\ Dying(m, L)
  BY DEF L
<1>2. Sound(c, L) /\ Indoors(m, c) /\ Unhung(m, c, x)
  BY <1>0, <1>1, ClearExitSound
<1> HIDE DEF c
<1>3. Similar(m, c) /\ Dying(c, L)
  BY <1>1, <1>2, IndoorsDying
<1>4. IsExit(c, x) /\ ~Mobile(c, x) /\ ~IsPlayer(c, x) /\ ~IsRoom(c, x) /\ ~IsGarbage(c, x)
  <2>1. IsExit(c, x) /\ c \in Memories
    BY <1>2, <1>3, SimilarKinds, SoundParts
  <2> QED BY <2>1, OneKind
<1>5. Freeable(c, x)
  <2>1. \A e \in Objects : IsExit(c, e) => c.db[e].home # x
    BY <1>2, <1>4, SoundLinked
  <2>2. \A o \in Objects : ~IsGarbage(c, o) => c.db[o].owner # x
    BY <1>2, <1>4, SoundLinked
  <2> QED BY <1>4, <2>1, <2>2 DEF Freeable
<1>6. Sound(n, K) /\ Dying(n, K) /\ Razed(c, n, x)
  <2>1. Absent(c, x)
    BY <1>2, <1>4, Immobile
  <2> QED BY <1>2, <1>3, <1>5, <2>1, AbsentLossless, ReclaimedSound DEF L
<1> HIDE DEF n
<1>7. Ebbs(m, c, {}) /\ Ebbs(c, n, {x})
  BY <1>3, <1>6, EbbsSimilar DEF Razed
<1>8. \A o \in Objects : IsExit(n, o) => n.db[o].home \in Objects
  BY <1>6, SoundLinked
<1>9. Ebbs(m, n, {} \cup {x})
  BY <1>7, <1>8, EbbsTwice
<1>10. {} \cup {x} = {x}
  OBVIOUS
<1>11. IsGarbage(n, x)
  BY <1>6 DEF Razed, Garbage, IsGarbage
<1>12. \A o \in Objects : Range(n.db[o].exits) \subseteq Range(m.db[o].exits)
  BY <1>2, <1>6 DEF Razed, Unhung
<1>13. \A o \in Objects : o # x => n.db[o].contents = m.db[o].contents
  BY <1>2, <1>4, <1>6 DEF Razed, Indoors
<1>14. Unmoved(m, n, x)
  BY <1>12, <1>13 DEF Unmoved
<1> QED BY <1>6, <1>9, <1>10, <1>11, <1>14 DEF Cleaned, n, c

\* The exits of x that are to go are dying as well.
LEMMA DoorsDying ==
  ASSUME NEW m, NEW L, Sound(m, L), NEW K, Dying(m, K),
         NEW E, \A e \in E : e \in Objects /\ IsExit(m, e)
  PROVE  Dying(m, K \cup E)
<1>1. ASSUME NEW e \in E PROVE /\ e \in Objects /\ ~special_object(e) /\ ~IsPlayer(m, e)
                               /\ Range(m.db[e].contents) = {}
  <2>1. e \in Objects /\ IsExit(m, e) /\ m \in Memories /\ IsPlayer(m, GOD) /\ IsRoom(m, DEFAULT_HOME)
    BY SoundParts
  <2>2. ~IsPlayer(m, e) /\ ~IsRoom(m, e)
    BY <2>1, OneKind
  <2>3. ASSUME NEW y \in Range(m.db[e].contents) PROVE FALSE
    <3>1. y \in Objects /\ Mobile(m, y) /\ m.db[y].location = e
      BY <2>1, SoundListed
    <3>2. e # NOTHING
      BY <2>1, Names
    <3> QED BY <2>1, <3>1, <3>2, SoundLinked
  <2> QED BY <2>1, <2>2, <2>3 DEF special_object
<1> QED BY <1>1 DEF Dying

\* The rest of clear_room() before its loop comes to exit number n + 1: x is
\* empty and closed, its exits s[n + 1] to s[N] are in limbo.
Clearing(m, a, x, K, s, n, N) ==
  /\ Sound(a, K \cup {s[j] : j \in (n + 1)..N}) /\ Dying(a, K \cup {s[j] : j \in (n + 1)..N})
  /\ Ebbs(m, a, {s[j] : j \in 1..n})
  /\ \A j \in (n + 1)..N : IsExit(a, s[j])
  /\ IsRoom(a, x) /\ Range(a.db[x].contents) = {} /\ Range(a.db[x].exits) = {}

\* One step.
LEMMA ClearingStep ==
  ASSUME NEW m, NEW a, NEW x \in Objects, NEW K, NEW s, NEW N \in Nat, NEW n \in 1..N,
         \A j \in 1..N : s[j] \in Objects,
         \A i, j \in 1..N : i # j => s[i] # s[j],
         Clearing(m, a, x, K, s, n - 1, N)
  PROVE  Clearing(m, Reclaimed(clear_exit(a, s[n]), s[n]), x, K, s, n, N)
<1> DEFINE e == s[n]
           b == Reclaimed(clear_exit(a, e), e)
           J == K \cup {s[j] : j \in (n + 1)..N}
<1>1. (n - 1) + 1 = n /\ n \in n..N
  OBVIOUS
<1>2. K \cup {s[j] : j \in n..N} = J \cup {e}
  <2>1. \A j \in n..N : j = n \/ j \in (n + 1)..N
    OBVIOUS
  <2>2. \A j \in (n + 1)..N : j \in n..N
    OBVIOUS
  <2> QED BY <1>1, <2>1, <2>2
<1>3. {s[j] : j \in 1..(n - 1)} \cup {e} = {s[j] : j \in 1..n}
  <2>1. \A j \in 1..n : j = n \/ j \in 1..(n - 1)
    OBVIOUS
  <2>2. n \in 1..n /\ \A j \in 1..(n - 1) : j \in 1..n
    OBVIOUS
  <2> QED BY <2>1, <2>2
<1>4. /\ Sound(a, J \cup {e}) /\ Dying(a, J \cup {e}) /\ Ebbs(m, a, {s[j] : j \in 1..(n - 1)})
      /\ \A j \in n..N : IsExit(a, s[j])
      /\ IsRoom(a, x) /\ Range(a.db[x].contents) = {} /\ Range(a.db[x].exits) = {}
  BY <1>1, <1>2 DEF Clearing
<1>5. e \in Objects /\ IsExit(a, e) /\ e # x
  BY <1>1, <1>4 DEF IsExit, IsRoom
<1> DEFINE F == {s[j] : j \in 1..(n - 1)}
           G == {s[j] : j \in 1..n}
<1>a. \A j \in (n + 1)..N : j \in n..N /\ s[j] # e /\ s[j] \in Objects
  OBVIOUS
<1> HIDE DEF J, F, G, e
<1>6. Cleaned(a, b, J, {e}) /\ Unmoved(a, b, e)
  BY <1>4, <1>5, FreedExit
<1> HIDE DEF b
<1>b. /\ Range(b.db[x].exits) \subseteq Range(a.db[x].exits)
      /\ b.db[x].contents = a.db[x].contents
  BY <1>5, <1>6 DEF Unmoved
<1>7. Sound(b, J) /\ Dying(b, J) /\ Ebbs(a, b, {e})
  BY <1>6 DEF Cleaned
<1>8. \A o \in Objects : IsExit(b, o) => b.db[o].home \in Objects
  BY <1>7, SoundLinked
<1>9. Ebbs(m, b, F \cup {e})
  BY <1>4, <1>7, <1>8, EbbsTwice DEF F
<1>10. F \cup {e} = G
  BY <1>3 DEF F, G
<1>11. \A j \in (n + 1)..N : IsExit(b, s[j])
  <2>1. ASSUME NEW j \in (n + 1)..N PROVE IsExit(b, s[j])
    <3>1. b.db[s[j]].type = a.db[s[j]].type
      BY <1>7, <1>a DEF Ebbs
    <3> QED BY <1>4, <1>a, <3>1 DEF IsExit
  <2> QED BY <2>1
<1>12. IsRoom(b, x)
  <2>1. b.db[x].type = a.db[x].type
    BY <1>5, <1>7 DEF Ebbs
  <2> QED BY <1>4, <2>1 DEF IsRoom
<1>13. Range(b.db[x].contents) = {} /\ Range(b.db[x].exits) = {}
  BY <1>4, <1>b
<1> QED BY <1>7, <1>9, <1>10, <1>11, <1>12, <1>13 DEF Clearing, J, G, b, e

\* A room is freed, its exits with it.
LEMMA FreedRoom ==
  ASSUME NEW m, NEW K, Sound(m, K), Dying(m, K), NoExits(m, K),
         NEW x \in Objects, IsRoom(m, x), ~special_object(x)
  PROVE  /\ Cleaned(m, Reclaimed(clear_room(m, x), x), K, Along(m, x))
         /\ IsGarbage(Reclaimed(clear_room(m, x), x), x)
<1> DEFINE a == empty_contents(m, x)
           s == a.db[x].exits
           N == Len(s)
           b == Shut(a, x)
           c == clear_room(m, x)
           n == Reclaimed(c, x)
<1>0. x # DEFAULT_HOME
  BY DEF special_object
<1>1. Sound(a, K) /\ Similar(m, a) /\ Dying(a, K) /\ a.db[x].contents = <<>>
  BY <1>0, EmptySound
<1>2. a \in Memories
  BY <1>1, SoundParts
<1>3. PICK f : /\ f[0] = b
               /\ \A k \in 1..N : f[k] = Reclaimed(clear_exit(f[k - 1], s[k]), s[k])
               /\ c = f[N]
  BY <1>2, RoomSteps
<1> HIDE DEF a, c
<1>4. s \in Seq(Objects) /\ N \in Nat /\ IsInjective(s)
  BY <1>1, <1>2, Fields, SoundListed
<1>5. \A j \in 1..N : s[j] \in Range(s)
  BY <1>4 DEF Range
<1>6. Range(s) = {s[j] : j \in 1..N}
  BY <1>4 DEF Range
<1>7. \A i, j \in 1..N : i # j => s[i] # s[j]
  BY <1>4 DEF IsInjective
<1>8. \A e \in Range(s) : e \in Objects /\ IsExit(a, e) /\ a.db[e].home = x
  BY <1>1, SoundListed
<1> HIDE DEF N, s
<1>9. ~IsGarbage(a, x) /\ IsRoom(a, x)
  BY <1>1, <1>2, SimilarKinds, OneKind
<1>10. Sound(b, K \cup Range(s)) /\ Indoors(a, b) /\ Bricked(a, b, x)
  BY <1>1, <1>9, ShutSound DEF s
<1> HIDE DEF b
<1>11. Similar(a, b) /\ Dying(b, K)
  BY <1>1, <1>10, IndoorsDying
<1>12. Dying(b, K \cup Range(s))
  <2> DEFINE E == Range(s)
           L == K \cup Range(s)
  <2>1. \A e \in E : e \in Objects /\ IsExit(b, e)
    BY <1>8, <1>11, SimilarKinds
  <2>2. Sound(b, L)
    BY <1>10
  <2> HIDE DEF E, L
  <2>3. Dying(b, K \cup E)
    BY <1>11, <2>1, <2>2, DoorsDying
  <2> QED BY <2>3 DEF E
<1> DEFINE W == {k \in 0..N : Clearing(m, f[k], x, K, s, k, N)}
<1>13. 0 \in W
  <2>1. (0 + 1)..N = 1..N /\ 1..0 = {} /\ 0 \in 0..N
    BY <1>4
  <2>2. Ebbs(m, b, {})
    BY <1>1, <1>11, SimilarTwice, EbbsSimilar
  <2>3. {s[j] : j \in {}} = {}
    OBVIOUS
  <2>4. \A j \in 1..N : IsExit(b, s[j])
    BY <1>5, <1>8, <1>11, SimilarKinds
  <2>5. IsRoom(b, x)
    BY <1>9, <1>11, SimilarKinds
  <2>6. Range(b.db[x].contents) = {} /\ Range(b.db[x].exits) = {}
    <3>1. b.db[x].contents = <<>> /\ b.db[x].exits = <<>>
      BY <1>1, <1>10 DEF Indoors, Bricked
    <3> QED BY <3>1 DEF Range
  <2>7. Clearing(m, b, x, K, s, 0, N)
    BY <1>6, <1>10, <1>12, <2>1, <2>2, <2>3, <2>4, <2>5, <2>6 DEF Clearing
  <2> QED BY <1>3, <2>1, <2>7
<1>14. ASSUME NEW k \in 1..N, k - 1 \in W PROVE k \in W
  <2>1. Clearing(m, f[k - 1], x, K, s, k - 1, N) /\ k \in 0..N
    BY <1>14
  <2>2. \A j \in 1..N : s[j] \in Objects
    BY <1>5, <1>8
  <2>3. Clearing(m, Reclaimed(clear_exit(f[k - 1], s[k]), s[k]), x, K, s, k, N)
    BY <1>4, <1>7, <2>1, <2>2, ClearingStep
  <2> QED BY <1>3, <2>1, <2>3
<1>15. N \in W
  <2>1. N \in 0..N
    BY <1>4
  <2> HIDE DEF W
  <2>2. \A k \in 0..N : k \in W
    BY <1>4, <1>13, <1>14, UpTo
  <2> QED BY <2>1, <2>2
<1>16. /\ Sound(c, K) /\ Dying(c, K) /\ Ebbs(m, c, Range(s))
       /\ IsRoom(c, x) /\ Range(c.db[x].contents) = {} /\ Range(c.db[x].exits) = {}
  <2>1. Clearing(m, c, x, K, s, N, N)
    BY <1>3, <1>15
  <2>2. (N + 1)..N = {}
    BY <1>4
  <2>3. K \cup {s[j] : j \in (N + 1)..N} = K
    BY <2>2
  <2> QED BY <1>6, <2>1, <2>3 DEF Clearing
<1>17. ~IsPlayer(c, x) /\ ~IsGarbage(c, x)
  BY <1>16, SoundParts, OneKind
<1>18. Freeable(c, x)
  <2>1. ASSUME NEW e \in Objects, IsExit(c, e) PROVE c.db[e].home # x
    <3>1. e \notin K
      <4>1. c.db[e].type = m.db[e].type \/ IsGarbage(c, e)
        BY <1>16 DEF Ebbs
      <4>2. IsExit(m, e)
        BY <2>1, <4>1 DEF IsExit, IsGarbage
      <4> QED BY <4>2 DEF NoExits
    <3>2. e \in Range(c.db[c.db[e].home].exits)
      BY <1>16, <2>1, <3>1, SoundListed
    <3> QED BY <1>16, <3>2
  <2>2. \A o \in Objects : ~IsGarbage(c, o) => c.db[o].owner # x
    BY <1>16, <1>17, SoundLinked
  <2> QED BY <1>16, <1>17, <2>1, <2>2 DEF Freeable
<1>19. Sound(c, K \cup {x})
  <2>1. K \subseteq K \cup {x}
    OBVIOUS
  <2> QED BY <1>16, <2>1, SoundMonotonic
<1>20. Dying(c, K \cup {x})
  BY <1>16, <1>17 DEF Dying
<1>21. Sound(n, K) /\ Dying(n, K) /\ Razed(c, n, x)
  <2>1. ~Mobile(c, x)
    BY <1>16 DEF IsRoom, Mobile
  <2>2. Absent(c, x)
    BY <1>16, <2>1, Immobile
  <2> QED BY <1>18, <1>19, <1>20, <2>2, AbsentLossless, ReclaimedSound
<1> HIDE DEF n
<1>22. \A o \in Objects : IsExit(n, o) => n.db[o].home \in Objects
  BY <1>21, SoundLinked
<1>23. Ebbs(m, n, Range(s) \cup {x})
  BY <1>16, <1>21, <1>22, EbbsTwice DEF Razed
<1>24. Range(s) \cup {x} \subseteq Along(m, x)
  <2>1. ASSUME NEW e \in Range(s) PROVE IsExit(m, e) /\ m.db[e].home = x /\ e \in Objects
    <3>1. e \in Objects /\ IsExit(m, e)
      BY <1>1, <1>8, SimilarKinds
    <3>2. ~Mobile(m, e)
      BY <3>1 DEF IsExit, Mobile
    <3> QED BY <1>1, <1>8, <3>1, <3>2 DEF Similar
  <2> QED BY <2>1 DEF Along
<1>25. Ebbs(m, n, Along(m, x))
  BY <1>23, <1>24 DEF Ebbs
<1>26. IsGarbage(n, x)
  BY <1>21 DEF Razed, Garbage, IsGarbage
<1> QED BY <1>21, <1>25, <1>26 DEF Cleaned, n, c

\* A thing, exit or room is freed.
LEMMA FreedPossessionSound ==
  ASSUME NEW m, NEW K, Sound(m, K), Dying(m, K), NoExits(m, K), NEW x \in Objects,
         ~special_object(x), ~IsGarbage(m, x), ~IsPlayer(m, x)
  PROVE  /\ Cleaned(m, FreedPossession(m, x), K, Along(m, x))
         /\ IsGarbage(FreedPossession(m, x), x)
<1> DEFINE n == FreedPossession(m, x)
<1>0. m \in Memories /\ {x} \subseteq Along(m, x)
  BY SoundParts DEF Along
<1>1. IsThing(m, x) \/ IsExit(m, x) \/ IsRoom(m, x)
  BY <1>0, OneKind
<1>2. CASE IsThing(m, x)
  <2>1. n = Reclaimed(clear_thing(m, x), x)
    BY <1>2 DEF FreedPossession, IsThing, IsExit, IsRoom
  <2>2. Cleaned(m, n, K, {x}) /\ IsGarbage(n, x)
    BY <1>2, <2>1, FreedThing
  <2> HIDE DEF n
  <2>3. Cleaned(m, n, K, Along(m, x))
    BY <1>0, <2>2 DEF Cleaned, Ebbs
  <2> QED BY <2>2, <2>3 DEF n
<1>3. CASE IsExit(m, x)
  <2>1. n = Reclaimed(clear_exit(m, x), x)
    BY <1>3 DEF FreedPossession, IsThing, IsExit, IsRoom
  <2>2. Sound(m, K \cup {x}) /\ Dying(m, K \cup {x})
    <3>1. K \subseteq K \cup {x}
      OBVIOUS
    <3>2. Sound(m, K \cup {x})
      BY <3>1, SoundMonotonic
    <3> DEFINE E == {x}
    <3>3. \A e \in E : e \in Objects /\ IsExit(m, e)
      BY <1>3
    <3> HIDE DEF E
    <3>4. Dying(m, K \cup E)
      BY <3>3, DoorsDying
    <3> QED BY <3>2, <3>4 DEF E
  <2>3. Cleaned(m, n, K, {x}) /\ IsGarbage(n, x)
    BY <1>3, <2>1, <2>2, FreedExit
  <2> HIDE DEF n
  <2>4. Cleaned(m, n, K, Along(m, x))
    BY <1>0, <2>3 DEF Cleaned, Ebbs
  <2> QED BY <2>3, <2>4 DEF n
<1>4. CASE IsRoom(m, x)
  <2>1. n = Reclaimed(clear_room(m, x), x)
    BY <1>4 DEF FreedPossession, IsThing, IsExit, IsRoom
  <2> QED BY <1>4, <2>1, FreedRoom
<1> QED BY <1>1, <1>2, <1>3, <1>4

-----------------------------------------------------------------------------
\* Marking, sparing and giving away.

\* Only owners and GOING differ, and those who are given things are players.
Relabelled(m, n) ==
  /\ n \in Memories /\ n.free = m.free
  /\ \A o \in Objects :
       /\ n.db[o].type = m.db[o].type /\ n.db[o].location = m.db[o].location
       /\ n.db[o].home = m.db[o].home
       /\ n.db[o].contents = m.db[o].contents /\ n.db[o].exits = m.db[o].exits
       /\ n.db[o].owner = m.db[o].owner \/ (IsPlayer(m, n.db[o].owner) /\ ~IsPlayer(m, o))
       /\ IsGarbage(m, o) => n.db[o] = m.db[o]

\* That keeps everything in order.
LEMMA RelabelledSound ==
  ASSUME NEW m, NEW K, Sound(m, K), NEW n, Relabelled(m, n)
  PROVE  Sound(n, K) /\ \A D : Dying(m, D) => Dying(n, D)
<1>1. \A o \in Objects :
        /\ n.db[o].type = m.db[o].type /\ n.db[o].location = m.db[o].location
        /\ n.db[o].home = m.db[o].home
        /\ n.db[o].contents = m.db[o].contents /\ n.db[o].exits = m.db[o].exits
        /\ n.db[o].owner = m.db[o].owner \/ (IsPlayer(m, n.db[o].owner) /\ ~IsPlayer(m, o))
        /\ IsGarbage(m, o) => n.db[o] = m.db[o]
  BY DEF Relabelled
<1>2. ASSUME NEW o \in Objects PROVE Fit(m, n, o)
  <2>1. Fit(m, m, o)
    BY FitSame
  <2> QED BY <1>1, <2>1 DEF Fit
<1>3. ASSUME NEW o \in Objects, NEW y \in Range(n.db[o].contents)
      PROVE  n.db[y].location = m.db[y].location
  <2>1. y \in Objects
    BY <1>1, <1>3, SoundListed
  <2> QED BY <1>1, <2>1
<1>4. Refitted(m, n)
  BY <1>2, <1>3 DEF Refitted, Relabelled
<1>5. ASSUME NEW o \in Objects, o \notin K PROVE o \notin K /\ StillListed(m, n, o)
  <2>1. Mobile(m, o) => o \in Range(n.db[m.db[o].location].contents)
    BY <1>1, <1>5, SoundListed, SoundLinked
  <2>2. IsExit(m, o) => o \in Range(n.db[m.db[o].home].exits)
    BY <1>1, <1>5, SoundListed, SoundLinked
  <2> QED BY <1>1, <1>5, <2>1, <2>2 DEF StillListed
<1>6. Sound(n, K)
  BY <1>4, <1>5, SoundRefitted
<1>7. ASSUME NEW D, Dying(m, D) PROVE Dying(n, D)
  <2>1. ASSUME NEW k \in D PROVE /\ k \in Objects /\ ~special_object(k)
                                 /\ IsPlayer(n, k) => k \notin connected
                                 /\ \A y \in Range(n.db[k].contents) : n.db[y].home = k
    <3>1. /\ k \in Objects /\ ~special_object(k)
          /\ IsPlayer(m, k) => k \notin connected
          /\ \A y \in Range(m.db[k].contents) : m.db[y].home = k
      BY <1>7 DEF Dying
    <3>2. \A y \in Range(m.db[k].contents) : y \in Objects
      BY <3>1, SoundListed
    <3> QED BY <1>1, <3>1, <3>2 DEF IsPlayer
  <2> QED BY <2>1 DEF Dying
<1> QED BY <1>6, <1>7

\* The objects of S get going v.
Regoing(m, S, v) ==
  [m EXCEPT !.db = [o \in Objects |-> IF o \in S THEN [@[o] EXCEPT !.going = v] ELSE @[o]]]

\* Nothing else changes.
Regone(m, n, S, v) ==
  /\ Relabelled(m, n)
  /\ \A o \in Objects :
       /\ n.db[o].owner = m.db[o].owner
       /\ o \in S => n.db[o].going = v
       /\ o \notin S => n.db[o].going = m.db[o].going

\* What marking does.
LEMMA RegoingFacts ==
  ASSUME NEW m \in Memories, NEW S, NEW v \in 0..2,
         \A o \in Objects : o \in S => ~IsGarbage(m, o)
  PROVE  Regone(m, Regoing(m, S, v), S, v)
<1> DEFINE d == [o \in Objects |-> IF o \in S THEN [m.db[o] EXCEPT !.going = v] ELSE m.db[o]]
           n == Regoing(m, S, v)
<1>1. n = [m EXCEPT !.db = d]
  BY DEF Regoing
<1>2. ASSUME NEW o \in Objects
      PROVE  /\ d[o] \in ObjectRecords
             /\ o \in S => d[o] = [m.db[o] EXCEPT !.going = v]
             /\ o \notin S => d[o] = m.db[o]
  <2>1. m.db[o] \in ObjectRecords
    BY Fields
  <2>2. [m.db[o] EXCEPT !.going = v] \in ObjectRecords
    BY <2>1 DEF ObjectRecords
  <2> QED BY <2>1, <2>2
<1>3. d \in [Objects -> ObjectRecords]
  BY <1>2
<1> HIDE DEF d
<1>4. n \in Memories /\ n.free = m.free /\ n.db = d
  BY <1>1, <1>3, Rewritten
<1> HIDE DEF n
<1>5. ASSUME NEW o \in Objects
      PROVE  /\ n.db[o].type = m.db[o].type /\ n.db[o].location = m.db[o].location
             /\ n.db[o].home = m.db[o].home /\ n.db[o].owner = m.db[o].owner
             /\ n.db[o].contents = m.db[o].contents /\ n.db[o].exits = m.db[o].exits
             /\ o \in S => n.db[o].going = v
             /\ o \notin S => n.db[o] = m.db[o]
  <2>1. m.db[o] \in ObjectRecords
    BY Fields
  <2>2. CASE o \in S
    <3>1. n.db[o] = [m.db[o] EXCEPT !.going = v]
      BY <1>2, <1>4, <2>2
    <3> QED BY <2>1, <2>2, <3>1 DEF ObjectRecords
  <2>3. CASE o \notin S
    BY <1>2, <1>4, <2>3
  <2> QED BY <2>2, <2>3
<1>6. Relabelled(m, n)
  BY <1>4, <1>5 DEF Relabelled
<1> QED BY <1>5, <1>6 DEF Regone, n

\* What undestroy(x) spares.
SparedOf(m, x) == IF Going(m, x) THEN Spared(m, x) ELSE {}

\* Only what is GOING is spared, and a source with its exit.
LEMMA SparedFacts ==
  ASSUME NEW m, NEW x \in Objects
  PROVE  /\ \A o \in SparedOf(m, x) : o \in Objects /\ ~IsGarbage(m, o) /\ Going(m, o)
         /\ \A o \in SparedOf(m, x) :
              IsExit(m, o) /\ m.db[o].home \in Objects /\ ~IsGarbage(m, m.db[o].home)
                /\ Going(m, m.db[o].home)
              => m.db[o].home \in SparedOf(m, x)
<1>1. CASE ~Going(m, x)
  BY <1>1 DEF SparedOf
<1>2. CASE Going(m, x)
  <2> DEFINE Marked == {o \in Objects : ~IsGarbage(m, o) /\ Going(m, o)}
             Owner2(o) == m.db[o].owner
             Source(o) == m.db[o].home
             Saves(o, S) ==
               {Owner2(o)} \cup
               CASE IsPlayer(m, o) /\ DESTROY_POSSESSIONS ->
                        {p \in Objects : Owner2(p) = o /\
                            (IsExit(m, p) /\ Owner2(Source(p)) # o => Source(p) \notin Marked \ S)}
                 [] IsExit(m, o) -> {Source(o)}
                 [] IsRoom(m, o) ->
                        {e \in Range(m.db[o].exits) :
                            DESTROY_POSSESSIONS => (Owner2(e) \notin Marked \ S \/ e \in Safe)}
                 [] OTHER -> {}
             Closed(S) == \A o \in S : Saves(o, S) \cap Marked \subseteq S
  <2>1. SparedOf(m, x) = {o \in Marked : \A S \in SUBSET Marked : x \in S /\ Closed(S) => o \in S}
    BY <1>2 DEF SparedOf, Spared
  <2>2. ASSUME NEW o, IsExit(m, o), NEW S PROVE Source(o) \in Saves(o, S)
    <3>1. ~IsPlayer(m, o) /\ ~IsRoom(m, o)
      BY <2>2 DEF IsPlayer, IsExit, IsRoom
    <3> QED BY <2>2, <3>1
  <2> HIDE DEF Saves
  <2>3. ASSUME NEW o \in SparedOf(m, x), IsExit(m, o), Source(o) \in Marked
        PROVE  Source(o) \in SparedOf(m, x)
    <3>1. ASSUME NEW S \in SUBSET Marked, x \in S, Closed(S) PROVE Source(o) \in S
      <4>1. o \in S
        BY <2>1, <2>3, <3>1
      <4>2. Saves(o, S) \cap Marked \subseteq S
        BY <3>1, <4>1
      <4> QED BY <2>2, <2>3, <4>2
    <3> QED BY <2>1, <2>3, <3>1
  <2> QED BY <2>1, <2>3
<1> QED BY <1>1, <1>2

\* undestroy() spares: it keeps everything in order.
LEMMA UndestroyFacts ==
  ASSUME NEW m, NEW K, Sound(m, K), NEW x \in Objects
  PROVE  /\ Relabelled(m, undestroy(m, x)) /\ Ebbs(m, undestroy(m, x), {})
         /\ Sound(undestroy(m, x), K)
         /\ \A o \in Objects : undestroy(m, x).db[o].owner = m.db[o].owner
<1> DEFINE S == SparedOf(m, x)
           n == undestroy(m, x)
<1>1. n = Regoing(m, S, 0)
  BY DEF undestroy, Regoing, SparedOf
<1>2. /\ \A o \in S : o \in Objects /\ ~IsGarbage(m, o) /\ Going(m, o)
      /\ \A o \in S : IsExit(m, o) /\ m.db[o].home \in Objects /\ ~IsGarbage(m, m.db[o].home)
                        /\ Going(m, m.db[o].home)
                      => m.db[o].home \in S
  BY SparedFacts
<1> HIDE DEF S
<1>3. m \in Memories /\ 0 \in 0..2
  BY SoundParts
<1>4. Regone(m, n, S, 0)
  BY <1>1, <1>2, <1>3, RegoingFacts
<1> HIDE DEF n
<1>5. Relabelled(m, n)
  BY <1>4 DEF Regone
<1>6. \A o \in Objects : /\ n.db[o].type = m.db[o].type /\ n.db[o].home = m.db[o].home
                         /\ n.db[o].owner = m.db[o].owner
                         /\ o \in S => n.db[o].going = 0
                         /\ o \notin S => n.db[o].going = m.db[o].going
  BY <1>4 DEF Regone, Relabelled
<1>7. ASSUME NEW o \in Objects, IsExit(n, o)
      PROVE  n.db[o].going = m.db[o].going \/ n.db[n.db[o].home].going = 0
  <2> DEFINE h == m.db[o].home
  <2>1. IsExit(m, o) /\ n.db[o].home = h
    BY <1>6, <1>7 DEF IsExit
  <2>2. h \in Objects /\ IsRoom(m, h) /\ ~IsGarbage(m, h)
    BY <1>3, <2>1, SoundLinked, OneKind
  <2>3. m.db[h].going \in 0..2
    BY <1>3, <2>2, Fields
  <2> HIDE DEF h
  <2>4. CASE o \notin S
    BY <1>6, <2>4
  <2>5. CASE o \in S /\ Going(m, h)
    BY <1>2, <1>6, <2>1, <2>2, <2>5 DEF h
  <2>6. CASE ~Going(m, h)
    <3>1. m.db[h].going = 0
      BY <2>3, <2>6 DEF Going
    <3> QED BY <1>6, <2>1, <2>2, <3>1
  <2> QED BY <2>4, <2>5, <2>6
<1>8. Ebbs(m, n, {})
  BY <1>6, <1>7 DEF Ebbs
<1> QED BY <1>5, <1>6, <1>8, RelabelledSound DEF n

\* x gets another owner.
LEMMA OwnerFacts ==
  ASSUME NEW m, NEW K, Sound(m, K), NEW x \in Objects, ~IsPlayer(m, x), ~IsGarbage(m, x),
         NEW w \in Objects, IsPlayer(m, w)
  PROVE  /\ Relabelled(m, WithOwner(m, x, w)) /\ Sound(WithOwner(m, x, w), K)
         /\ \A o \in Objects : /\ WithOwner(m, x, w).db[o].going = m.db[o].going
                               /\ o # x => WithOwner(m, x, w).db[o].owner = m.db[o].owner
         /\ WithOwner(m, x, w).db[x].owner = w
<1> DEFINE n == WithOwner(m, x, w)
<1>1. m \in Memories
  BY SoundParts
<1>2. /\ n \in Memories /\ n.free = m.free
      /\ \A o \in Objects :
           /\ n.db[o].type = m.db[o].type
           /\ n.db[o].going = m.db[o].going
           /\ n.db[o].location = m.db[o].location
           /\ n.db[o].home = m.db[o].home
           /\ n.db[o].contents = m.db[o].contents
           /\ n.db[o].exits = m.db[o].exits
           /\ o # x => n.db[o] = m.db[o]
      /\ n.db[x].owner = w
  BY <1>1, SetOwner
<1> HIDE DEF n
<1>3. ASSUME NEW o \in Objects
      PROVE  /\ n.db[o].owner = m.db[o].owner \/ (IsPlayer(m, n.db[o].owner) /\ ~IsPlayer(m, o))
             /\ IsGarbage(m, o) => n.db[o] = m.db[o]
  BY <1>2
<1>4. Relabelled(m, n)
  BY <1>2, <1>3 DEF Relabelled
<1> QED BY <1>2, <1>4, RelabelledSound DEF n

\* Given w, x is w's; besides, objects may have been spared.
Given(m, n, x, w) ==
  /\ Relabelled(m, n)
  /\ \A o \in Objects : o # x => n.db[o].owner = m.db[o].owner
  /\ n.db[x].owner = w
  /\ \A o \in Objects : n.db[o].going = undestroy(m, x).db[o].going

\* chown_object() spares x and gives it to w.
LEMMA ChownFacts ==
  ASSUME NEW m, NEW K, Sound(m, K), NEW x \in Objects, ~IsPlayer(m, x), ~IsGarbage(m, x),
         NEW w \in Objects, IsPlayer(m, w)
  PROVE  /\ Sound(chown_object(m, x, w), K) /\ Given(m, chown_object(m, x, w), x, w)
         /\ w = GOD => Ebbs(m, chown_object(m, x, w), {})
<1> DEFINE a == undestroy(m, x)
           n == chown_object(m, x, w)
<1>1. /\ Relabelled(m, a) /\ Ebbs(m, a, {}) /\ Sound(a, K)
      /\ \A o \in Objects : a.db[o].owner = m.db[o].owner
  BY UndestroyFacts
<1>2. n = WithOwner(a, x, w)
  BY DEF chown_object, WithOwner
<1> HIDE DEF n, a
<1>3. \A o \in Objects : (IsPlayer(a, o) <=> IsPlayer(m, o)) /\ (IsGarbage(a, o) <=> IsGarbage(m, o))
  BY <1>1, SameKinds DEF Relabelled, Kinds
<1>4. /\ Relabelled(a, n) /\ Sound(n, K)
      /\ \A o \in Objects : /\ n.db[o].going = a.db[o].going
                            /\ o # x => n.db[o].owner = a.db[o].owner
      /\ n.db[x].owner = w
  BY <1>1, <1>2, <1>3, OwnerFacts
<1>5. Relabelled(m, n)
  BY <1>1, <1>3, <1>4 DEF Relabelled
<1>6. Given(m, n, x, w)
  BY <1>1, <1>4, <1>5 DEF Given, a
<1>7. ASSUME w = GOD PROVE Ebbs(m, n, {})
  <2>1. \A o \in Objects : /\ n.db[o].type = a.db[o].type /\ n.db[o].home = a.db[o].home
                           /\ n.db[o].going = a.db[o].going
                           /\ n.db[o].owner \in {a.db[o].owner, GOD}
    BY <1>4, <1>7 DEF Relabelled
  <2>2. ASSUME NEW o \in Objects
        PROVE  /\ n.db[o].type = m.db[o].type
               /\ n.db[o].going \in {0, m.db[o].going}
               /\ n.db[o].owner \in {m.db[o].owner, GOD}
               /\ IsExit(n, o) => /\ n.db[o].home = m.db[o].home
                                  /\ n.db[o].going = m.db[o].going \/ n.db[n.db[o].home].going = 0
    <3>1. /\ a.db[o].type = m.db[o].type
          /\ a.db[o].going \in {0, m.db[o].going}
          /\ a.db[o].owner = m.db[o].owner
          /\ IsExit(a, o) => /\ a.db[o].home = m.db[o].home
                             /\ a.db[o].going = m.db[o].going \/ a.db[a.db[o].home].going = 0
      BY <1>1 DEF Ebbs
    <3>2. IsExit(n, o) => IsExit(a, o) /\ a.db[o].home \in Objects
      BY <1>1, <2>1, SoundLinked DEF IsExit
    <3> QED BY <2>1, <3>1, <3>2
  <2> QED BY <2>2 DEF Ebbs
<1> QED BY <1>4, <1>6, <1>7 DEF n

-----------------------------------------------------------------------------
\* Destroying an object.

\* What goes with x: what it owns, and the exits of x and of its rooms.
Estate(m, x) ==
  Along(m, x) \cup {o \in Objects : /\ ~IsGarbage(m, o) /\ IsPlayer(m, x)
                                    /\ \/ m.db[o].owner = x
                                       \/ IsExit(m, o) /\ m.db[m.db[o].home].owner = x}

\* clear_player(x) comes to object n: what comes before it is not x's.
Bequeathing(m, a, x, n) ==
  /\ Cleaned(m, a, {x}, Estate(m, x) \ {x})
  /\ \A o \in Objects : o < n /\ o # x /\ ~IsGarbage(a, o) => a.db[o].owner # x

\* One step.
LEMMA BequeathingStep ==
  ASSUME NEW m, Sound(m, {}), NEW x \in Objects, IsPlayer(m, x), ~special_object(x),
         NEW a, NEW i \in Objects, Bequeathing(m, a, x, i)
  PROVE  Bequeathing(m, Bequeathed(a, i, x), x, i + 1)
<1> DEFINE K == {x}
           E == Estate(m, x) \ {x}
           n == Bequeathed(a, i, x)
<1>1. Sound(a, K) /\ Dying(a, K) /\ Ebbs(m, a, E)
      /\ \A o \in Objects : o < i /\ o # x /\ ~IsGarbage(a, o) => a.db[o].owner # x
  BY DEF Bequeathing, Cleaned
<1>2. \A o \in Objects : o < i + 1 => o = i \/ o < i
  BY DbAssumption DEF Objects
<1>3. x \notin E /\ x # GOD
  BY DEF special_object
<1>4. m \in Memories /\ a \in Memories
  BY <1>1, SoundParts
<1>5. IsPlayer(a, x) /\ ~IsGarbage(a, x)
  <2>1. a.db[x].type = m.db[x].type
    BY <1>1, <1>3 DEF Ebbs
  <2>2. IsPlayer(a, x)
    BY <2>1 DEF IsPlayer
  <2> QED BY <1>4, <2>2, OneKind
<1>6. K = {x}
  OBVIOUS
<1> HIDE DEF K, E, n
<1>7. CASE a.db[i].owner # x \/ i = x
  <2>1. n = a
    BY <1>7 DEF n, Bequeathed
  <2>2. \A o \in Objects : o < i + 1 /\ o # x /\ ~IsGarbage(a, o) => a.db[o].owner # x
    BY <1>1, <1>2, <1>7
  <2> QED BY <1>1, <2>1, <2>2 DEF Bequeathing, Cleaned, K, E, n
<1>8. CASE a.db[i].owner = x /\ i # x
  <2>1. ~IsGarbage(a, i)
    <3>1. IsGarbage(a, i) => a.db[i].owner = GOD
      BY <1>1, SoundLinked DEF Garbage
    <3> QED BY <1>3, <1>8, <3>1
  <2>2. ~IsPlayer(a, i)
    BY <1>1, <1>8, SoundLinked
  <2>3. m.db[i].owner = x /\ m.db[i].type = a.db[i].type
    BY <1>1, <1>3, <1>8, <2>1 DEF Ebbs
  <2>4. \E F \in SUBSET E : /\ Sound(n, K) /\ Dying(n, K) /\ Ebbs(a, n, F)
                            /\ IsGarbage(n, i) \/ n.db[i].owner # x
    <3>1. CASE Probated(i)
      <4>1. n = chown_object(a, i, GOD)
        BY <1>8, <3>1 DEF n, Bequeathed
      <4>2. IsPlayer(a, GOD) /\ GOD \in Objects
        BY <1>1, SoundParts, Names
      <4>3. Sound(n, K) /\ Given(a, n, i, GOD) /\ Ebbs(a, n, {})
        BY <1>1, <2>1, <2>2, <4>1, <4>2, ChownFacts
      <4>4. Dying(n, K)
        BY <1>1, <4>3, RelabelledSound DEF Given
      <4>5. n.db[i].owner # x
        BY <1>3, <4>3 DEF Given
      <4>6. {} \in SUBSET E
        OBVIOUS
      <4> QED BY <4>3, <4>4, <4>5, <4>6
    <3>2. CASE ~Probated(i)
      <4>1. n = FreedPossession(a, i)
        BY <1>8, <3>2 DEF n, Bequeathed
      <4>2. ~special_object(i)
        BY <3>2 DEF Probated
      <4>3. NoExits(a, K)
        <5>1. ~IsExit(a, x)
          BY <1>4, <1>5, OneKind
        <5> QED BY <5>1 DEF NoExits, K
      <4>4. Cleaned(a, n, K, Along(a, i)) /\ IsGarbage(n, i)
        BY <1>1, <2>1, <2>2, <4>1, <4>2, <4>3, FreedPossessionSound
      <4>5. ASSUME NEW e \in Along(a, i) PROVE e \in E
        <5>1. CASE e = i
          <6>1. ~IsGarbage(m, i)
            BY <2>1, <2>3 DEF IsGarbage
          <6> QED BY <1>8, <2>3, <5>1, <6>1 DEF E, Estate
        <5>2. CASE e # i
          <6>1. e \in Objects /\ IsExit(a, e) /\ a.db[e].home = i
            BY <4>5, <5>2 DEF Along
          <6>2. m.db[e].type = a.db[e].type /\ m.db[e].home = i
            BY <1>1, <6>1 DEF Ebbs, IsExit, IsGarbage
          <6>3. IsExit(m, e)
            BY <6>1, <6>2 DEF IsExit
          <6>4. ~IsGarbage(m, e) /\ ~IsPlayer(m, e)
            BY <6>3 DEF IsExit, IsGarbage, IsPlayer
          <6>5. e # x
            BY <6>4
          <6> QED BY <2>3, <6>1, <6>2, <6>3, <6>4, <6>5 DEF E, Estate
        <5> QED BY <5>1, <5>2
      <4>6. Along(a, i) \in SUBSET E
        BY <4>5
      <4> QED BY <4>4, <4>6 DEF Cleaned
    <3> QED BY <3>1, <3>2
  <2>5. PICK F \in SUBSET E : /\ Sound(n, K) /\ Dying(n, K) /\ Ebbs(a, n, F)
                              /\ IsGarbage(n, i) \/ n.db[i].owner # x
    BY <2>4
  <2>6. \A o \in Objects : IsExit(n, o) => n.db[o].home \in Objects
    BY <2>5, SoundLinked
  <2>7. Ebbs(m, n, E \cup F)
    BY <1>1, <2>5, <2>6, EbbsTwice
  <2>8. E \cup F = E
    BY <2>5
  <2>9. ASSUME NEW o \in Objects, o < i + 1, o # x, ~IsGarbage(n, o) PROVE n.db[o].owner # x
    <3>1. CASE o = i
      BY <2>5, <2>9, <3>1
    <3>2. CASE o < i
      <4>1. ~IsGarbage(a, o) /\ n.db[o].owner \in {a.db[o].owner, GOD}
        BY <2>5, <2>9 DEF Ebbs, IsGarbage
      <4> QED BY <1>1, <1>3, <2>9, <3>2, <4>1
    <3> QED BY <1>2, <2>9, <3>1, <3>2
  <2> QED BY <2>5, <2>7, <2>8, <2>9 DEF Bequeathing, Cleaned, K, E, n
<1> QED BY <1>7, <1>8

\* Without DESTROY_POSSESSIONS everything x owns is given away and nobody moves.
LEMMA KeptAbsent ==
  ASSUME NEW a, NEW K, Sound(a, K), NEW i \in Objects, NEW x \in Objects, x # GOD,
         ~DESTROY_POSSESSIONS, Absent(a, x)
  PROVE  Absent(Bequeathed(a, i, x), x)
<1> DEFINE n == Bequeathed(a, i, x)
<1>1. CASE a.db[i].owner # x \/ i = x
  BY <1>1 DEF Bequeathed
<1>2. CASE a.db[i].owner = x /\ i # x
  <2>1. n = chown_object(a, i, GOD)
    BY <1>2 DEF Bequeathed, Probated
  <2>2. ~IsGarbage(a, i)
    <3>1. IsGarbage(a, i) => a.db[i].owner = GOD
      BY SoundLinked DEF Garbage
    <3> QED BY <1>2, <3>1
  <2>3. ~IsPlayer(a, i)
    BY <1>2, SoundLinked
  <2>4. IsPlayer(a, GOD) /\ GOD \in Objects
    BY SoundParts, Names
  <2>5. Given(a, n, i, GOD)
    BY <2>1, <2>2, <2>3, <2>4, ChownFacts
  <2> HIDE DEF n
  <2>6. \A o \in Objects : n.db[o].contents = a.db[o].contents
    BY <2>5 DEF Given, Relabelled
  <2>7. Absent(n, x)
    BY <2>6 DEF Absent
  <2> QED BY <2>7 DEF n
<1> QED BY <1>1, <1>2

\* Freeing x keeps everything in order.
Freed(m, n, x) ==
  /\ Sound(n, {}) /\ Ebbs(m, n, Estate(m, x)) /\ IsGarbage(n, x)

\* If x is a player who can be destroyed, free_object(x) loses nobody.
LosslessPlayer(m, x) ==
  IsPlayer(m, x) /\ ~special_object(x) /\ x \notin connected => Lossless(clear_player(m, x), x)

\* free_object() of a player.
LEMMA FreedPlayer ==
  ASSUME NEW m, Sound(m, {}), NEW x \in Objects, IsPlayer(m, x), ~special_object(x),
         x \notin connected, DESTROY_POSSESSIONS => LosslessPlayer(m, x)
  PROVE  Freed(m, free_object(m, x), x)
<1> DEFINE a == clear_thing(m, x)
           c == clear_player(m, x)
           n == free_object(m, x)
           K == {}
           L == {x}
           E == Estate(m, x)
           D == E \ {x}
<1>0. n = Reclaimed(c, x) /\ K \cup {x} = L /\ L = {x}
  BY DEF free_object
<1>1. PICK f : /\ f[0] = a
               /\ \A k \in 1..DbTop : f[k] = Bequeathed(f[k - 1], k - 1, x)
               /\ c = f[DbTop]
  BY PlayerSteps
<1>2. m \in Memories /\ Mobile(m, x) /\ ~IsRoom(m, x) /\ ~IsExit(m, x)
  BY SoundParts, OneKind
<1>3. Dying(m, K) /\ Sound(m, K)
  BY DEF Dying
<1> HIDE DEF K, a, c, n
<1>4. Sound(a, K \cup {x}) /\ Similar(m, a) /\ Dying(a, K \cup {x}) /\ Absent(a, x)
  BY <1>2, <1>3, ClearThingSound DEF a
<1>5. Ebbs(m, a, D)
  BY <1>4, EbbsSimilar DEF Ebbs
<1> DEFINE W == {k \in 0..DbTop : /\ Bequeathing(m, f[k], x, k)
                                  /\ ~DESTROY_POSSESSIONS => Absent(f[k], x)}
<1>6. DbTop \in Nat
  BY DbAssumption
<1>7. 0 \in W
  <2>1. \A o \in Objects : ~(o < 0)
    BY DEF Objects
  <2>2. Sound(a, {x}) /\ Dying(a, {x})
    BY <1>0, <1>4
  <2>3. Bequeathing(m, a, x, 0)
    BY <1>5, <2>1, <2>2 DEF Bequeathing, Cleaned
  <2> QED BY <1>1, <1>4, <1>6, <2>3
<1>8. ASSUME NEW k \in 1..DbTop, k - 1 \in W PROVE k \in W
  <2>1. Bequeathing(m, f[k - 1], x, k - 1) /\ k - 1 \in Objects
    BY <1>8, Names
  <2>2. (k - 1) + 1 = k /\ k \in 0..DbTop
    OBVIOUS
  <2>3. Bequeathing(m, Bequeathed(f[k - 1], k - 1, x), x, (k - 1) + 1)
    BY <2>1, BequeathingStep
  <2>4. ~DESTROY_POSSESSIONS => Absent(Bequeathed(f[k - 1], k - 1, x), x)
    <3>1. Sound(f[k - 1], {x}) /\ x # GOD
      BY <2>1 DEF Bequeathing, Cleaned, special_object
    <3> QED BY <1>8, <2>1, <3>1, KeptAbsent
  <2> QED BY <1>1, <2>2, <2>3, <2>4
<1>9. DbTop \in W
  <2>1. DbTop \in 0..DbTop
    BY <1>6
  <2> HIDE DEF W
  <2>2. \A k \in 0..DbTop : k \in W
    BY <1>6, <1>7, <1>8, UpTo
  <2> QED BY <2>1, <2>2
<1>10. /\ Sound(c, L) /\ Dying(c, L) /\ Ebbs(m, c, D)
       /\ \A o \in Objects : o < DbTop /\ o # x /\ ~IsGarbage(c, o) => c.db[o].owner # x
       /\ ~DESTROY_POSSESSIONS => Absent(c, x)
  BY <1>1, <1>9 DEF Bequeathing, Cleaned
<1>11. \A o \in Objects : o < DbTop
  BY DbAssumption DEF Objects
<1>12. IsPlayer(c, x) /\ ~IsRoom(c, x) /\ ~IsGarbage(c, x)
  <2>1. c.db[x].type = m.db[x].type
    BY <1>10 DEF Ebbs
  <2> QED BY <2>1 DEF IsPlayer, IsRoom, IsGarbage
<1>13. Freeable(c, x)
  <2>1. \A e \in Objects : IsExit(c, e) => c.db[e].home # x
    BY <1>10, <1>12, SoundLinked
  <2> QED BY <1>10, <1>11, <1>12, <2>1 DEF Freeable
<1> HIDE DEF L, D, E
<1>19. Lossless(c, x)
  <2>1. CASE DESTROY_POSSESSIONS
    BY <2>1 DEF LosslessPlayer, c
  <2>2. CASE ~DESTROY_POSSESSIONS
    BY <1>0, <1>10, <1>13, <2>2, AbsentLossless
  <2> QED BY <2>1, <2>2
<1>14. Sound(n, K) /\ Razed(c, n, x)
  BY <1>0, <1>10, <1>13, <1>19, ReclaimedSound
<1>15. \A o \in Objects : IsExit(n, o) => n.db[o].home \in Objects
  BY <1>14, SoundLinked
<1>16. Ebbs(m, n, D \cup {x})
  BY <1>10, <1>14, <1>15, EbbsTwice DEF Razed
<1>17. D \cup {x} = E
  BY DEF D, E, Estate, Along
<1>18. IsGarbage(n, x)
  BY <1>14 DEF Razed, Garbage, IsGarbage
<1> QED BY <1>14, <1>16, <1>17, <1>18 DEF Freed, K, E, n

\* free_object() of anything.
LEMMA FreeObjectSound ==
  ASSUME NEW m, Sound(m, {}), NEW x \in Objects, ~IsGarbage(m, x), ~special_object(x),
         IsPlayer(m, x) => x \notin connected, DESTROY_POSSESSIONS => LosslessPlayer(m, x)
  PROVE  Freed(m, free_object(m, x), x)
<1> DEFINE n == free_object(m, x)
           K == {}
<1>1. CASE IsPlayer(m, x)
  BY <1>1, FreedPlayer
<1>2. CASE ~IsPlayer(m, x)
  <2>1. n = FreedPossession(m, x)
    BY <1>2 DEF free_object
  <2>2. Sound(m, K) /\ Dying(m, K) /\ NoExits(m, K)
    BY DEF Dying, NoExits
  <2> HIDE DEF K, n
  <2>3. Cleaned(m, n, K, Along(m, x)) /\ IsGarbage(n, x)
    BY <1>2, <2>1, <2>2, FreedPossessionSound
  <2>4. Along(m, x) \subseteq Estate(m, x)
    BY DEF Estate
  <2>5. Ebbs(m, n, Estate(m, x))
    BY <2>3, <2>4 DEF Cleaned, Ebbs
  <2> QED BY <2>3, <2>5 DEF Freed, Cleaned, K, n
<1> QED BY <1>1, <1>2

-----------------------------------------------------------------------------
\* Who is connected, and what is GOING.

\* The connected are players who are not GOING.
Online(m) == \A p \in connected : p \in Objects /\ IsPlayer(m, p) /\ ~Going(m, p)

\* No other player goes with x.
LEMMA EstatePlayers ==
  ASSUME NEW m, NEW K, Sound(m, K), NEW x \in Objects, NEW o \in Estate(m, x), IsPlayer(m, o)
  PROVE  o = x
<1>1. ~IsExit(m, o)
  BY DEF IsPlayer, IsExit
<1>2. o \in Objects /\ m.db[o].owner = o
  BY <1>1, SoundLinked DEF Estate, Along
<1> QED BY <1>1, <1>2 DEF Estate, Along

\* Destroying x leaves the connected alone.
LEMMA EbbsOnline ==
  ASSUME NEW m, NEW F, \A o \in F : ~(IsPlayer(m, o) /\ o \in connected), Online(m),
         NEW n, Ebbs(m, n, F)
  PROVE  Online(n)
<1>1. ASSUME NEW p \in connected PROVE p \in Objects /\ IsPlayer(n, p) /\ ~Going(n, p)
  <2>1. p \in Objects /\ IsPlayer(m, p) /\ ~Going(m, p) /\ p \notin F
    BY DEF Online
  <2>2. n.db[p].type = m.db[p].type /\ n.db[p].going \in {0, m.db[p].going}
    BY <2>1 DEF Ebbs
  <2> QED BY <2>1, <2>2 DEF IsPlayer, Going
<1> QED BY <1>1 DEF Online

\* Exits go with their sources: destroying keeps it so.
LEMMA EbbsDoors ==
  ASSUME NEW m, NEW n, NEW F, NEW K, Sound(n, K), m \in Memories, Ebbs(m, n, F), DoorsDoomed(m)
  PROVE  DoorsDoomed(n)
<1> SUFFICES ASSUME NEW e \in Objects, IsExit(n, e)
             PROVE  n.db[e].going >= n.db[n.db[e].home].going
  BY DEF DoorsDoomed
<1> DEFINE h == n.db[e].home
<1>1. h \in Objects /\ n \in Memories
  BY SoundLinked, SoundParts
<1>2. m.db[e].home = h /\ IsExit(m, e)
  BY DEF Ebbs, IsExit, IsGarbage
<1>3. n.db[e].going = m.db[e].going \/ n.db[h].going = 0
  BY DEF Ebbs
<1>4. n.db[h].going \in {0, m.db[h].going}
  BY <1>1 DEF Ebbs
<1>5. n.db[e].going \in 0..2 /\ n.db[h].going \in 0..2
  BY <1>1, Fields
<1>6. m.db[e].going >= m.db[h].going
  BY <1>2 DEF DoorsDoomed
<1> HIDE DEF h
<1>7. n.db[e].going >= n.db[h].going
  BY <1>3, <1>4, <1>5, <1>6
<1> QED BY <1>7 DEF h

\* In the course of a purge that has come to object n: the source of an exit
\* may have had its turn before the exit.
DoorsInTurn(a, n) ==
  \A e \in Objects : IsExit(a, e) =>
    \/ a.db[e].going >= a.db[a.db[e].home].going
    \/ /\ a.db[a.db[e].home].going = 2 /\ a.db[e].going = 1
       /\ a.db[e].home < n /\ n <= e

\* x is to be destroyed by a purge of m.
DueIn(m, x) ==
  \/ m.db[x].going = 2
  \/ m.db[m.db[x].owner].going = 2
  \/ IsExit(m, x) /\ m.db[m.db[m.db[x].home].owner].going = 2

\* What the purge of m has made of it when it comes to object n.
LateSoFar(m, a, n) ==
  \A o \in Objects :
    /\ a.db[o].type = m.db[o].type \/ (IsGarbage(a, o) /\ DueIn(m, o))
    /\ ~IsGarbage(a, o) => a.db[o].owner \in {m.db[o].owner, GOD}
    /\ IsExit(a, o) => a.db[o].home = m.db[o].home
    /\ o >= n => a.db[o].going \in {0, m.db[o].going}

Purging(m, a, n) ==
  /\ Sound(a, {}) /\ Online(a) /\ DoorsInTurn(a, n) /\ LateSoFar(m, a, n)
  /\ \A o \in Objects : o < n => a.db[o].going # 1

\* The turn of an object that is not GOING_TWICE.
LEMMA PurgeMarks ==
  ASSUME NEW m, m \in Memories, NEW a, NEW x \in Objects, Purging(m, a, x), a.db[x].going = 1
  PROVE  Purging(m, WithGoing(a, x, 2), x + 1)
<1> DEFINE n == WithGoing(a, x, 2)
<1>1. Sound(a, {}) /\ a \in Memories /\ 2 \in 0..2
  BY SoundParts DEF Purging
<1>2. /\ n \in Memories /\ n.free = a.free
      /\ \A o \in Objects :
           /\ n.db[o].type = a.db[o].type
           /\ n.db[o].owner = a.db[o].owner
           /\ n.db[o].location = a.db[o].location
           /\ n.db[o].home = a.db[o].home
           /\ n.db[o].contents = a.db[o].contents
           /\ n.db[o].exits = a.db[o].exits
           /\ o # x => n.db[o] = a.db[o]
      /\ n.db[x].going = 2
  BY <1>1, SetGoing
<1> HIDE DEF n
<1>3. ~IsGarbage(a, x)
  <2>1. IsGarbage(a, x) => a.db[x].going = 0
    BY <1>1, SoundLinked DEF Garbage
  <2> QED BY <2>1
<1>4. Relabelled(a, n)
  BY <1>2, <1>3 DEF Relabelled
<1>5. Sound(n, {})
  BY <1>1, <1>4, RelabelledSound
<1>6. ASSUME NEW p \in connected PROVE p \in Objects /\ IsPlayer(n, p) /\ ~Going(n, p)
  <2>1. p \in Objects /\ IsPlayer(a, p) /\ ~Going(a, p)
    BY DEF Purging, Online
  <2>2. p # x
    BY <2>1 DEF Going
  <2> QED BY <1>2, <2>1, <2>2 DEF IsPlayer, Going
<1>7. \A o \in Objects : /\ o < x + 1 => o = x \/ o < x
                         /\ o >= x + 1 => o >= x /\ o # x
                         /\ o >= x /\ o # x => x + 1 <= o
                         /\ o < x => o < x + 1
  BY DbAssumption DEF Objects
<1>8. \A o \in Objects : o < x + 1 => n.db[o].going # 1
  BY <1>2, <1>7 DEF Purging
<1>9. ASSUME NEW o \in Objects
      PROVE  /\ n.db[o].type = m.db[o].type \/ (IsGarbage(n, o) /\ DueIn(m, o))
             /\ ~IsGarbage(n, o) => n.db[o].owner \in {m.db[o].owner, GOD}
             /\ IsExit(n, o) => n.db[o].home = m.db[o].home
             /\ o >= x + 1 => n.db[o].going \in {0, m.db[o].going}
  <2>1. /\ a.db[o].type = m.db[o].type \/ (IsGarbage(a, o) /\ DueIn(m, o))
        /\ ~IsGarbage(a, o) => a.db[o].owner \in {m.db[o].owner, GOD}
        /\ IsExit(a, o) => a.db[o].home = m.db[o].home
        /\ o >= x => a.db[o].going \in {0, m.db[o].going}
    BY DEF Purging, LateSoFar
  <2>2. (IsGarbage(n, o) <=> IsGarbage(a, o)) /\ (IsExit(n, o) <=> IsExit(a, o))
    BY <1>2 DEF IsGarbage, IsExit
  <2> QED BY <1>2, <1>7, <2>1, <2>2
<1>10. ASSUME NEW e \in Objects, IsExit(n, e)
       PROVE  \/ n.db[e].going >= n.db[n.db[e].home].going
              \/ /\ n.db[n.db[e].home].going = 2 /\ n.db[e].going = 1
                 /\ n.db[e].home < x + 1 /\ x + 1 <= e
  <2> DEFINE h == a.db[e].home
  <2>1. IsExit(a, e) /\ n.db[e].home = h
    BY <1>2, <1>10 DEF IsExit
  <2>2. h \in Objects /\ IsRoom(a, h) /\ ~IsRoom(a, e)
    BY <1>1, <2>1, SoundLinked, OneKind
  <2>3. h # e
    BY <2>2
  <2>4. \/ a.db[e].going >= a.db[h].going
        \/ /\ a.db[h].going = 2 /\ a.db[e].going = 1
           /\ h < x /\ x <= e
    BY <2>1 DEF Purging, DoorsInTurn
  <2>5. a.db[e].going \in 0..2 /\ a.db[h].going \in 0..2 /\ n.db[e].going \in 0..2
        /\ n.db[h].going \in 0..2
    BY <1>1, <1>2, <2>2, Fields
  <2> HIDE DEF h
  <2>6. CASE e = x
    BY <1>2, <2>1, <2>5, <2>6
  <2>7. CASE e # x /\ h = x
    <3>1. n.db[e].going = a.db[e].going /\ n.db[h].going = 2
      BY <1>2, <2>7
    <3>2. ~(h < x)
      BY <2>2, <2>7, DbAssumption DEF Objects
    <3>3. a.db[e].going >= 1
      BY <2>4, <2>7, <3>2
    <3>4. CASE a.db[e].going = 2
      BY <2>1, <3>1, <3>4
    <3>5. CASE a.db[e].going = 1
      <4>1. ~(e < x)
        BY <3>5 DEF Purging
      <4>2. x + 1 <= e /\ h < x + 1
        <5>1. e \in Int /\ x \in Int
          BY DbAssumption DEF Objects
        <5> QED BY <2>7, <4>1, <5>1
      <4> QED BY <2>1, <3>1, <3>5, <4>2
    <3> QED BY <2>5, <3>3, <3>4, <3>5
  <2>8. CASE e # x /\ h # x
    <3>1. n.db[e].going = a.db[e].going /\ n.db[h].going = a.db[h].going
      BY <1>2, <2>2, <2>8
    <3>2. h < x => h < x + 1
      BY <1>7, <2>2
    <3>3. x <= e => x + 1 <= e
      <4>1. e \in Int /\ x \in Int
        BY DbAssumption DEF Objects
      <4> QED BY <2>8, <4>1
    <3> QED BY <2>1, <2>4, <3>1, <3>2, <3>3
  <2> QED BY <2>6, <2>7, <2>8
<1> QED BY <1>5, <1>6, <1>8, <1>9, <1>10 DEF Purging, Online, LateSoFar, DoorsInTurn, n

\* The turn of an object that was GOING_TWICE.
LEMMA PurgeEbbs ==
  ASSUME NEW m, m \in Memories, NEW a, NEW x \in Objects, Purging(m, a, x), a.db[x].going # 1,
         NEW n, NEW F, Sound(n, {}), Ebbs(a, n, F),
         \A o \in F : DueIn(m, o) /\ ~(IsPlayer(a, o) /\ o \in connected)
  PROVE  Purging(m, n, x + 1)
<1>1. Sound(a, {}) /\ a \in Memories /\ Online(a) /\ n \in Memories
  BY SoundParts DEF Purging
<1>2. Online(n)
  BY <1>1, EbbsOnline
<1>3. \A o \in Objects : /\ o < x + 1 => o = x \/ o < x
                         /\ o >= x + 1 => o >= x
                         /\ o < x => o < x + 1
                         /\ x <= o /\ o # x => x + 1 <= o
  BY DbAssumption DEF Objects
<1>4. ASSUME NEW o \in Objects
      PROVE  /\ n.db[o].type = a.db[o].type \/ (o \in F /\ IsGarbage(n, o))
             /\ n.db[o].going \in {0, a.db[o].going}
             /\ ~IsGarbage(n, o) => n.db[o].owner \in {a.db[o].owner, GOD}
             /\ IsExit(n, o) => /\ n.db[o].home = a.db[o].home
                                /\ n.db[o].going = a.db[o].going \/ n.db[n.db[o].home].going = 0
  BY DEF Ebbs
<1>5. ASSUME NEW o \in Objects, o < x + 1 PROVE n.db[o].going # 1
  <2>1. a.db[o].going # 1
    BY <1>3, <1>5 DEF Purging
  <2> QED BY <1>4, <2>1
<1>6. ASSUME NEW o \in Objects
      PROVE  /\ n.db[o].type = m.db[o].type \/ (IsGarbage(n, o) /\ DueIn(m, o))
             /\ ~IsGarbage(n, o) => n.db[o].owner \in {m.db[o].owner, GOD}
             /\ IsExit(n, o) => n.db[o].home = m.db[o].home
             /\ o >= x + 1 => n.db[o].going \in {0, m.db[o].going}
  <2>1. /\ a.db[o].type = m.db[o].type \/ (IsGarbage(a, o) /\ DueIn(m, o))
        /\ ~IsGarbage(a, o) => a.db[o].owner \in {m.db[o].owner, GOD}
        /\ IsExit(a, o) => a.db[o].home = m.db[o].home
        /\ o >= x => a.db[o].going \in {0, m.db[o].going}
    BY DEF Purging, LateSoFar
  <2>2. (IsGarbage(a, o) => IsGarbage(n, o)) /\ (IsExit(n, o) => IsExit(a, o))
    BY <1>4 DEF IsGarbage, IsExit
  <2>3. n.db[o].type = m.db[o].type \/ (IsGarbage(n, o) /\ DueIn(m, o))
    BY <1>4, <2>1, <2>2
  <2> QED BY <1>3, <1>4, <2>1, <2>2, <2>3
<1>7. ASSUME NEW e \in Objects, IsExit(n, e)
      PROVE  \/ n.db[e].going >= n.db[n.db[e].home].going
             \/ /\ n.db[n.db[e].home].going = 2 /\ n.db[e].going = 1
                /\ n.db[e].home < x + 1 /\ x + 1 <= e
  <2> DEFINE h == a.db[e].home
  <2>1. IsExit(a, e) /\ n.db[e].home = h
    BY <1>4, <1>7 DEF IsExit, IsGarbage
  <2>2. h \in Objects
    BY <1>1, <2>1, SoundLinked
  <2>3. \/ a.db[e].going >= a.db[h].going
        \/ /\ a.db[h].going = 2 /\ a.db[e].going = 1
           /\ h < x /\ x <= e
    BY <2>1 DEF Purging, DoorsInTurn
  <2>4. a.db[e].going \in 0..2 /\ a.db[h].going \in 0..2 /\ n.db[e].going \in 0..2
        /\ n.db[h].going \in 0..2
    BY <1>1, <2>2, Fields
  <2>5. (n.db[e].going = a.db[e].going \/ n.db[h].going = 0) /\ n.db[h].going \in {0, a.db[h].going}
    BY <1>4, <1>7, <2>1, <2>2
  <2> HIDE DEF h
  <2>6. CASE n.db[h].going = 0
    BY <2>1, <2>4, <2>6
  <2>7. CASE n.db[h].going # 0
    <3>1. n.db[e].going = a.db[e].going /\ n.db[h].going = a.db[h].going
      BY <2>5, <2>7
    <3>2. a.db[e].going = 1 => e # x
      OBVIOUS
    <3> QED BY <1>3, <2>1, <2>2, <2>3, <3>1, <3>2
  <2> QED BY <2>6, <2>7
<1> QED BY <1>2, <1>5, <1>6, <1>7 DEF Purging, LateSoFar, DoorsInTurn

\* What goes with x was to go.
LEMMA EstateDue ==
  ASSUME NEW m, Sound(m, {}), DoorsDoomed(m), NEW a, NEW x \in Objects, Sound(a, {}),
         LateSoFar(m, a, x), a.db[x].going = 2, x # GOD, NEW o \in Estate(a, x)
  PROVE  DueIn(m, o)
<1>1. m \in Memories /\ a \in Memories
  BY SoundParts
<1>2. \A y \in Objects :
        /\ a.db[y].type = m.db[y].type \/ (IsGarbage(a, y) /\ DueIn(m, y))
        /\ ~IsGarbage(a, y) => a.db[y].owner \in {m.db[y].owner, GOD}
        /\ IsExit(a, y) => a.db[y].home = m.db[y].home
        /\ y >= x => a.db[y].going \in {0, m.db[y].going}
  BY DEF LateSoFar
<1>3. x >= x
  BY DbAssumption DEF Objects
<1>4. m.db[x].going = 2
  BY <1>2, <1>3
<1>5. \/ o = x
      \/ o \in Objects /\ IsExit(a, o) /\ a.db[o].home = x
      \/ o \in Objects /\ ~IsGarbage(a, o) /\ a.db[o].owner = x
      \/ o \in Objects /\ IsExit(a, o) /\ a.db[a.db[o].home].owner = x
  BY DEF Estate, Along
<1>6. CASE o = x
  BY <1>4, <1>6 DEF DueIn
<1>7. CASE o \in Objects /\ IsExit(a, o) /\ a.db[o].home = x
  <2>1. IsExit(m, o) /\ m.db[o].home = x
    BY <1>2, <1>7 DEF IsExit, IsGarbage
  <2>2. m.db[o].going >= 2 /\ m.db[o].going \in 0..2
    BY <1>1, <1>4, <1>7, <2>1, Fields DEF DoorsDoomed
  <2> QED BY <2>2 DEF DueIn
<1>8. CASE o \in Objects /\ ~IsGarbage(a, o) /\ a.db[o].owner = x
  <2>1. m.db[o].owner = x
    BY <1>2, <1>8
  <2> QED BY <1>4, <2>1 DEF DueIn
<1>9. CASE o \in Objects /\ IsExit(a, o) /\ a.db[a.db[o].home].owner = x
  <2>1. IsExit(m, o) /\ m.db[o].home = a.db[o].home
    BY <1>2, <1>9 DEF IsExit, IsGarbage
  <2>2. a.db[o].home \in Objects /\ ~IsGarbage(a, a.db[o].home)
    BY <1>1, <1>9, SoundLinked, OneKind
  <2>3. m.db[m.db[o].home].owner = x
    BY <1>2, <1>9, <2>1, <2>2
  <2> QED BY <1>4, <2>1, <2>3 DEF DueIn
<1> QED BY <1>5, <1>6, <1>7, <1>8, <1>9

\* One turn.
LEMMA PurgingStep ==
  ASSUME NEW m, Sound(m, {}), DoorsDoomed(m), NEW a, NEW x \in Objects, Purging(m, a, x),
         DESTROY_POSSESSIONS /\ a.db[x].going = 2 => LosslessPlayer(a, x)
  PROVE  Purging(m, PurgeOne(a, x), x + 1)
<1> DEFINE n == PurgeOne(a, x)
           N == {}
<1>1. Sound(a, {}) /\ Online(a) /\ LateSoFar(m, a, x) /\ m \in Memories /\ a \in Memories
  BY SoundParts DEF Purging
<1>2. a.db[x].going \in 0..2
  BY <1>1, Fields
<1>3. CASE a.db[x].going = 0
  <2>1. ~Going(a, x)
    BY <1>3 DEF Going
  <2>2. n = a
    BY <1>3, <2>1 DEF PurgeOne
  <2>3. Similar(a, a)
    BY DEF Similar
  <2>4. Ebbs(a, a, N)
    BY <2>3, EbbsSimilar
  <2>5. \A o \in N : DueIn(m, o) /\ ~(IsPlayer(a, o) /\ o \in connected)
    OBVIOUS
  <2> HIDE DEF N, n
  <2>6. Purging(m, a, x + 1)
    BY <1>1, <1>3, <2>4, <2>5, PurgeEbbs
  <2> QED BY <2>2, <2>6 DEF n
<1>4. CASE a.db[x].going = 1
  <2>1. Going(a, x)
    BY <1>4 DEF Going
  <2>2. n = WithGoing(a, x, 2)
    BY <1>4, <2>1 DEF PurgeOne, WithGoing
  <2> QED BY <1>1, <1>4, <2>2, PurgeMarks
<1>5. CASE a.db[x].going = 2 /\ special_object(x)
  <2>1. Going(a, x)
    BY <1>5 DEF Going
  <2>2. n = undestroy(a, x)
    BY <1>5, <2>1 DEF PurgeOne
  <2>3. Ebbs(a, n, N) /\ Sound(n, {})
    BY <1>1, <2>2, UndestroyFacts
  <2>4. \A o \in N : DueIn(m, o) /\ ~(IsPlayer(a, o) /\ o \in connected)
    OBVIOUS
  <2> HIDE DEF N, n
  <2>5. Purging(m, n, x + 1)
    BY <1>1, <1>5, <2>3, <2>4, PurgeEbbs
  <2> QED BY <2>5 DEF n
<1>6. CASE a.db[x].going = 2 /\ ~special_object(x)
  <2>1. Going(a, x) /\ x # GOD /\ x \notin connected
    BY <1>1, <1>6 DEF Going, special_object, Online
  <2>2. n = free_object(a, x)
    BY <1>6, <2>1 DEF PurgeOne
  <2>3. ~IsGarbage(a, x)
    <3>1. IsGarbage(a, x) => a.db[x].going = 0
      BY <1>1, SoundLinked DEF Garbage
    <3> QED BY <1>6, <3>1
  <2>4. Freed(a, n, x)
    BY <1>1, <1>6, <2>1, <2>2, <2>3, FreeObjectSound
  <2> HIDE DEF n
  <2>5. Sound(n, {}) /\ Ebbs(a, n, Estate(a, x))
    BY <2>4 DEF Freed
  <2>6. ASSUME NEW o \in Estate(a, x)
        PROVE  DueIn(m, o) /\ ~(IsPlayer(a, o) /\ o \in connected)
    <3>1. DueIn(m, o)
      BY <1>1, <1>6, <2>1, EstateDue
    <3>2. IsPlayer(a, o) => o = x
      BY <1>1, EstatePlayers
    <3> QED BY <2>1, <3>1, <3>2
  <2>7. Purging(m, n, x + 1)
    BY <1>1, <1>6, <2>5, <2>6, PurgeEbbs
  <2> QED BY <2>7 DEF n
<1> QED BY <1>2, <1>3, <1>4, <1>5, <1>6

\* A purge of m loses nobody.
LosslessPurge(m) ==
  \A x \in Objects :
    LET a == PurgedTo(m)[x]
    IN DESTROY_POSSESSIONS /\ a.db[x].going = 2 => LosslessPlayer(a, x)

\* purge() keeps everything in order and destroys what is due.
LEMMA PurgedFacts ==
  ASSUME NEW m, Sound(m, {}), DoorsDoomed(m), Online(m), LosslessPurge(m)
  PROVE  /\ Sound(Purged(m), {}) /\ DoorsDoomed(Purged(m)) /\ Online(Purged(m))
         /\ \A o \in Objects : IsGarbage(Purged(m), o) => IsGarbage(m, o) \/ DueIn(m, o)
<1> DEFINE n == Purged(m)
<1>1. PICK f : /\ f[0] = m
               /\ \A k \in 1..DbTop : f[k] = PurgeOne(f[k - 1], k - 1)
               /\ PurgedTo(m) = f /\ n = f[DbTop]
  BY PurgeSteps
<1> HIDE DEF n
<1>2. DbTop \in Nat
  BY DbAssumption
<1> DEFINE W == {k \in 0..DbTop : Purging(m, f[k], k)}
<1>3. 0 \in W
  <2>1. \A o \in Objects : ~(o < 0)
    BY DEF Objects
  <2>2. DoorsInTurn(m, 0)
    BY DEF DoorsInTurn, DoorsDoomed
  <2>3. LateSoFar(m, m, 0)
    BY DEF LateSoFar
  <2>4. Purging(m, m, 0)
    BY <2>1, <2>2, <2>3 DEF Purging
  <2> QED BY <1>1, <1>2, <2>4
<1>4. ASSUME NEW k \in 1..DbTop, k - 1 \in W PROVE k \in W
  <2>1. Purging(m, f[k - 1], k - 1) /\ k - 1 \in Objects
    BY <1>4, Names
  <2>2. (k - 1) + 1 = k /\ k \in 0..DbTop
    OBVIOUS
  <2>a. DESTROY_POSSESSIONS /\ f[k - 1].db[k - 1].going = 2 => LosslessPlayer(f[k - 1], k - 1)
    BY <1>1, <2>1 DEF LosslessPurge
  <2>3. Purging(m, PurgeOne(f[k - 1], k - 1), (k - 1) + 1)
    BY <2>1, <2>a, PurgingStep
  <2> QED BY <1>1, <2>2, <2>3
<1>5. DbTop \in W
  <2>1. DbTop \in 0..DbTop
    BY <1>2
  <2> HIDE DEF W
  <2>2. \A k \in 0..DbTop : k \in W
    BY <1>2, <1>3, <1>4, UpTo
  <2> QED BY <2>1, <2>2
<1>6. Purging(m, n, DbTop)
  BY <1>1, <1>5
<1>7. DoorsDoomed(n)
  <2>1. \A e \in Objects : ~(DbTop <= e)
    BY DbAssumption DEF Objects
  <2> QED BY <1>6, <2>1 DEF Purging, DoorsInTurn, DoorsDoomed
<1>8. ASSUME NEW o \in Objects, IsGarbage(n, o) PROVE IsGarbage(m, o) \/ DueIn(m, o)
  <2>1. n.db[o].type = m.db[o].type \/ (IsGarbage(n, o) /\ DueIn(m, o))
    BY <1>6 DEF Purging, LateSoFar
  <2> QED BY <1>8, <2>1 DEF IsGarbage
<1> QED BY <1>6, <1>7, <1>8 DEF Purging, n

-----------------------------------------------------------------------------
\* Marking for destruction.

\* Only what is not GOING yet is marked, the exits of a room with it, and of
\* the players at most x.
LEMMA DoomedFacts ==
  ASSUME NEW m, NEW K, Sound(m, K), NEW x \in Objects, ~IsGarbage(m, x), ~Going(m, x)
  PROVE  /\ \A o \in Doomed(m, x) : o \in Objects /\ ~IsGarbage(m, o) /\ ~Going(m, o)
         /\ \A o \in Doomed(m, x) : \A e \in Range(m.db[o].exits) :
              IsRoom(m, o) /\ ~IsGarbage(m, e) /\ ~Going(m, e) => e \in Doomed(m, x)
         /\ \A o \in Doomed(m, x) : IsPlayer(m, o) => o = x
<1> DEFINE Fresh == {o \in Objects : ~IsGarbage(m, o) /\ ~Going(m, o)}
           Drags(o) ==
             CASE IsRoom(m, o) -> Range(m.db[o].exits)
               [] IsPlayer(m, o) /\ DESTROY_POSSESSIONS /\ (REALLY_SAFE => o \notin Safe) ->
                      {p \in Objects : m.db[p].owner = o}
               [] OTHER -> {}
           Closed(S) == \A o \in S : Drags(o) \cap Fresh \subseteq S
<1>1. Doomed(m, x) = {o \in Fresh : \A S \in SUBSET Fresh : x \in S /\ Closed(S) => o \in S}
  BY DEF Doomed
<1>2. ASSUME NEW o, IsRoom(m, o) PROVE Drags(o) = Range(m.db[o].exits)
  <2>1. ~IsPlayer(m, o)
    BY <1>2 DEF IsRoom, IsPlayer
  <2> QED BY <1>2, <2>1
<1>3. ASSUME NEW o, NEW p \in Drags(o)
      PROVE  \/ IsRoom(m, o) /\ p \in Range(m.db[o].exits)
             \/ IsPlayer(m, o) /\ m.db[p].owner = o
  <2>1. CASE IsRoom(m, o)
    BY <1>2, <1>3, <2>1
  <2>2. CASE ~IsRoom(m, o) /\ IsPlayer(m, o) /\ DESTROY_POSSESSIONS /\ (REALLY_SAFE => o \notin Safe)
    BY <1>3, <2>2
  <2>3. CASE ~IsRoom(m, o) /\ ~(IsPlayer(m, o) /\ DESTROY_POSSESSIONS /\ (REALLY_SAFE => o \notin Safe))
    <3> DEFINE A == IsRoom(m, o)
               B == IsPlayer(m, o) /\ DESTROY_POSSESSIONS /\ (REALLY_SAFE => o \notin Safe)
               C == Range(m.db[o].exits)
               D == {q \in Objects : m.db[q].owner = o}
    <3>1. Drags(o) = CASE A -> C [] B -> D [] OTHER -> {}
      OBVIOUS
    <3>2. ~A /\ ~B
      BY <2>3
    <3> HIDE DEF A, B, C, D
    <3>3. (CASE A -> C [] B -> D [] OTHER -> {}) = {}
      BY <3>2
    <3> HIDE DEF Drags
    <3> QED BY <1>3, <3>1, <3>3
  <2> QED BY <2>1, <2>2, <2>3
<1> HIDE DEF Drags
<1>4. ASSUME NEW o \in Doomed(m, x), NEW e \in Range(m.db[o].exits), IsRoom(m, o), e \in Fresh
      PROVE  e \in Doomed(m, x)
  <2>1. ASSUME NEW S \in SUBSET Fresh, x \in S, Closed(S) PROVE e \in S
    <3>1. o \in S
      BY <1>1, <2>1
    <3> QED BY <1>2, <1>4, <2>1, <3>1
  <2> QED BY <1>1, <1>4, <2>1
<1>5. ASSUME NEW o \in Doomed(m, x), IsPlayer(m, o), o # x PROVE FALSE
  <2> DEFINE S == {p \in Fresh : IsPlayer(m, p) => p = x}
  <2>1. x \in S /\ S \in SUBSET Fresh
    OBVIOUS
  <2>2. ASSUME NEW q \in S, NEW p \in Drags(q), p \in Fresh, IsPlayer(m, p) PROVE p = x
    <3>1. q \in Objects /\ p \in Objects
      BY <2>2
    <3>2. CASE IsRoom(m, q) /\ p \in Range(m.db[q].exits)
      <4>1. IsExit(m, p)
        BY <3>1, <3>2, SoundListed
      <4> QED BY <2>2, <4>1 DEF IsExit, IsPlayer
    <3>3. CASE IsPlayer(m, q) /\ m.db[p].owner = q
      <4>1. m.db[p].owner = p
        BY <2>2, <3>1, SoundLinked
      <4> QED BY <3>3, <4>1
    <3> QED BY <1>3, <2>2, <3>2, <3>3
  <2>3. Closed(S)
    BY <2>2
  <2>4. o \in S
    BY <1>1, <2>1, <2>3
  <2> QED BY <1>5, <2>4
<1>6. \A e : ~IsGarbage(m, e) /\ ~Going(m, e) /\ e \in Objects => e \in Fresh
  OBVIOUS
<1>7. \A o \in Doomed(m, x) : o \in Objects /\ ~IsGarbage(m, o) /\ ~Going(m, o)
  BY <1>1
<1>8. ASSUME NEW o \in Doomed(m, x), NEW e \in Range(m.db[o].exits), IsRoom(m, o),
             ~IsGarbage(m, e), ~Going(m, e)
      PROVE  e \in Doomed(m, x)
  <2>1. e \in Objects
    BY <1>7, SoundListed
  <2> QED BY <1>4, <1>8, <2>1
<1> QED BY <1>5, <1>7, <1>8

\* A database in order between two commands.
InOrder(m) == Sound(m, {}) /\ DoorsDoomed(m) /\ Online(m)

\* pre_destroy() keeps it so.
LEMMA PreDestroyFacts ==
  ASSUME NEW m, InOrder(m), NEW x \in Objects, ~IsGarbage(m, x), ~Going(m, x),
         x \notin connected
  PROVE  InOrder(pre_destroy(m, x)) /\ Relabelled(m, pre_destroy(m, x))
<1> DEFINE S == Doomed(m, x)
           n == pre_destroy(m, x)
<1>1. n = Regoing(m, S, 1)
  BY DEF pre_destroy, Regoing
<1>2. /\ \A o \in S : o \in Objects /\ ~IsGarbage(m, o) /\ ~Going(m, o)
      /\ \A o \in S : \A e \in Range(m.db[o].exits) :
           IsRoom(m, o) /\ ~IsGarbage(m, e) /\ ~Going(m, e) => e \in S
      /\ \A o \in S : IsPlayer(m, o) => o = x
  BY DoomedFacts DEF InOrder
<1> HIDE DEF S, n
<1>3. Sound(m, {}) /\ m \in Memories /\ 1 \in 0..2
  BY SoundParts DEF InOrder
<1>4. Regone(m, n, S, 1)
  BY <1>1, <1>2, <1>3, RegoingFacts
<1>5. Relabelled(m, n) /\ Sound(n, {})
  BY <1>3, <1>4, RelabelledSound DEF Regone
<1>6. \A o \in Objects : /\ n.db[o].type = m.db[o].type /\ n.db[o].home = m.db[o].home
                         /\ o \in S => n.db[o].going = 1
                         /\ o \notin S => n.db[o].going = m.db[o].going
  BY <1>4 DEF Regone, Relabelled
<1>7. ASSUME NEW p \in connected PROVE p \in Objects /\ IsPlayer(n, p) /\ ~Going(n, p)
  <2>1. p \in Objects /\ IsPlayer(m, p) /\ ~Going(m, p)
    BY DEF InOrder, Online
  <2>2. p \notin S
    BY <1>2, <2>1
  <2> QED BY <1>6, <2>1, <2>2 DEF IsPlayer, Going
<1>8. ASSUME NEW e \in Objects, IsExit(n, e)
      PROVE  n.db[e].going >= n.db[n.db[e].home].going
  <2> DEFINE h == m.db[e].home
  <2>1. IsExit(m, e) /\ n.db[e].home = h /\ ~IsGarbage(m, e)
    BY <1>6, <1>8 DEF IsExit, IsGarbage
  <2>2. h \in Objects /\ IsRoom(m, h) /\ e \in Range(m.db[h].exits)
    BY <1>3, <2>1, SoundLinked, SoundListed
  <2>3. m.db[e].going >= m.db[h].going
    BY <2>1 DEF InOrder, DoorsDoomed
  <2>4. m.db[e].going \in 0..2 /\ m.db[h].going \in 0..2
    BY <1>3, <2>2, Fields
  <2> HIDE DEF h
  <2>5. CASE h \in S
    <3>1. n.db[h].going = 1
      BY <1>6, <2>2, <2>5
    <3>2. CASE Going(m, e)
      <4>1. e \notin S
        BY <1>2, <3>2
      <4>2. n.db[e].going = m.db[e].going /\ m.db[e].going > 0
        BY <1>6, <3>2, <4>1 DEF Going
      <4> QED BY <2>1, <2>4, <3>1, <4>2
    <3>3. CASE ~Going(m, e)
      <4>1. e \in S
        BY <1>2, <2>1, <2>2, <2>5, <3>3
      <4>2. n.db[e].going = 1
        BY <1>6, <4>1
      <4> QED BY <2>1, <3>1, <4>2
    <3> QED BY <3>2, <3>3
  <2>6. CASE h \notin S
    <3>1. n.db[h].going = m.db[h].going
      BY <1>6, <2>2, <2>6
    <3>2. CASE e \in S
      <4>1. n.db[e].going = 1 /\ ~Going(m, e)
        BY <1>2, <1>6, <3>2
      <4>2. m.db[e].going = 0
        BY <2>4, <4>1 DEF Going
      <4> QED BY <2>1, <2>3, <2>4, <3>1, <4>1, <4>2
    <3>3. CASE e \notin S
      <4>1. n.db[e].going = m.db[e].going
        BY <1>6, <3>3
      <4> QED BY <2>1, <2>3, <3>1, <4>1
    <3> QED BY <3>2, <3>3
  <2> QED BY <2>5, <2>6
<1> QED BY <1>5, <1>7, <1>8 DEF InOrder, Online, DoorsDoomed, n

\* So does everything that only destroys and spares.
LEMMA EbbsInOrder ==
  ASSUME NEW m, InOrder(m), NEW n, NEW F, Sound(n, {}), Ebbs(m, n, F),
         \A o \in F : ~(IsPlayer(m, o) /\ o \in connected)
  PROVE  InOrder(n)
<1>1. m \in Memories
  BY SoundParts DEF InOrder
<1>2. Online(n)
  BY EbbsOnline DEF InOrder
<1>3. DoorsDoomed(n)
  BY <1>1, EbbsDoors DEF InOrder
<1> QED BY <1>2, <1>3 DEF InOrder

\* Sparing.
LEMMA UndestroyInOrder ==
  ASSUME NEW m, InOrder(m), NEW x \in Objects
  PROVE  InOrder(undestroy(m, x))
<1> DEFINE n == undestroy(m, x)
           N == {}
<1>1. Sound(n, {}) /\ Ebbs(m, n, N)
  BY UndestroyFacts DEF InOrder
<1>2. \A o \in N : ~(IsPlayer(m, o) /\ o \in connected)
  OBVIOUS
<1> HIDE DEF N, n
<1>3. InOrder(n)
  BY <1>1, <1>2, EbbsInOrder
<1> QED BY <1>3 DEF n

\* Destroying at once.
LEMMA FreeInOrder ==
  ASSUME NEW m, InOrder(m), NEW x \in Objects, ~IsGarbage(m, x), ~special_object(x),
         x \notin connected, DESTROY_POSSESSIONS => LosslessPlayer(m, x)
  PROVE  InOrder(free_object(m, x))
<1> DEFINE n == free_object(m, x)
<1>1. Freed(m, n, x)
  BY FreeObjectSound DEF InOrder
<1> HIDE DEF n
<1>2. \A o \in Estate(m, x) : ~(IsPlayer(m, o) /\ o \in connected)
  BY EstatePlayers DEF InOrder
<1>3. InOrder(n)
  BY <1>1, <1>2, EbbsInOrder DEF Freed
<1> QED BY <1>3 DEF n

\* Moving objects about.
LEMMA RearrangedInOrder ==
  ASSUME NEW m, InOrder(m), NEW n, Sound(n, {}), Rearranged(m, n)
  PROVE  InOrder(n)
<1> DEFINE N == {}
<1>1. \A o \in Objects : /\ n.db[o].type = m.db[o].type /\ n.db[o].owner = m.db[o].owner
                         /\ n.db[o].going = m.db[o].going /\ n.db[o].home = m.db[o].home
  BY DEF Rearranged, Alike
<1>2. Ebbs(m, n, N)
  BY <1>1 DEF Ebbs
<1>3. \A o \in N : ~(IsPlayer(m, o) /\ o \in connected)
  OBVIOUS
<1> HIDE DEF N
<1> QED BY <1>2, <1>3, EbbsInOrder

\* Giving away: as sparing, for what is asked of owners.
LEMMA ChownInOrder ==
  ASSUME NEW m, InOrder(m), NEW x \in Objects, ~IsPlayer(m, x), ~IsGarbage(m, x),
         NEW w \in Objects, IsPlayer(m, w)
  PROVE  InOrder(chown_object(m, x, w))
<1> DEFINE a == undestroy(m, x)
           n == chown_object(m, x, w)
<1>1. InOrder(a) /\ Relabelled(m, a)
  BY UndestroyInOrder, UndestroyFacts DEF InOrder
<1>2. Sound(n, {}) /\ Given(m, n, x, w)
  BY ChownFacts DEF InOrder
<1>3. \A o \in Objects : n.db[o].going = a.db[o].going
  BY <1>2 DEF Given
<1> HIDE DEF a, n
<1>4. \A o \in Objects : /\ n.db[o].type = a.db[o].type /\ n.db[o].home = a.db[o].home
  BY <1>1, <1>2 DEF Given, Relabelled
<1>5. Online(n)
  BY <1>1, <1>3, <1>4 DEF InOrder, Online, IsPlayer, Going
<1>6. \A o \in Objects : IsExit(n, o) => n.db[o].home \in Objects
  BY <1>2, SoundLinked
<1>7. ASSUME NEW e \in Objects, IsExit(n, e) PROVE n.db[e].going >= n.db[n.db[e].home].going
  <2>1. IsExit(a, e) /\ a.db[e].home \in Objects
    BY <1>4, <1>6, <1>7 DEF IsExit
  <2>2. a.db[e].going >= a.db[a.db[e].home].going
    BY <1>1, <2>1 DEF InOrder, DoorsDoomed
  <2> QED BY <1>3, <1>4, <2>1, <2>2
<1> QED BY <1>2, <1>5, <1>7 DEF InOrder, DoorsDoomed, n

-----------------------------------------------------------------------------
\* Carrying things along.

\* Nobody is inside himself.
LEMMA NoCircle ==
  ASSUME NEW m, NEW K, Sound(m, K), NEW x \in Objects, Mobile(m, x)
  PROVE  \A n \in 1..DbTop : Around(m, x)[n] # x
<1> DEFINE up == Around(m, x)
<1>0. m \in Memories /\ AllLinked(m, K) /\ Rooted(m) /\ ~IsExit(m, x) /\ DbTop \in Nat
  BY SoundParts, OneKind, DbAssumption
<1>1. /\ up[0] = x
      /\ \A n \in 1..DbTop : up[n] = IF up[n - 1] = NOTHING \/ IsRoom(m, up[n - 1]) THEN NOTHING
                                     ELSE m.db[up[n - 1]].location
  BY AroundFacts
<1>2. \A n \in 0..DbTop : up[n] = NOTHING \/ (up[n] \in Objects /\ ~IsExit(m, up[n]))
  BY <1>0, ChainObjects
<1> HIDE DEF up
<1>3. ASSUME NEW n \in 1..DbTop, up[n] = x PROVE FALSE
  <2>0. n \in Nat /\ n >= 1 /\ n <= DbTop
    BY <1>0
  <2> DEFINE W == {k \in 0..n : up[n - k] # NOTHING}
             S == {up[k] : k \in 0..(n - 1)}
  <2>1. 0 \in W
    <3>1. n - 0 = n /\ 0 \in 0..n
      BY <2>0
    <3> QED BY <1>3, <3>1, Names
  <2>2. ASSUME NEW k \in 1..n, k - 1 \in W PROVE k \in W
    <3>1. n - (k - 1) \in 1..DbTop /\ (n - (k - 1)) - 1 = n - k /\ k \in 0..n
      BY <1>0, <2>0
    <3> QED BY <1>1, <2>2, <3>1
  <2>3. \A k \in 0..n : up[n - k] # NOTHING
    <3>1. \A k \in 0..n : k \in W
      <4> HIDE DEF W
      <4> QED BY <2>0, <2>1, <2>2, UpTo
    <3> QED BY <3>1
  <2>4. \A k \in 0..n : up[k] # NOTHING
    <3>1. \A k \in 0..n : n - k \in 0..n /\ n - (n - k) = k
      BY <2>0
    <3> QED BY <2>3, <3>1
  <2>5. ASSUME NEW k \in 0..(n - 1)
        PROVE  up[k] \in Objects /\ Mobile(m, up[k]) /\ m.db[up[k]].location \in S
    <3>1. k \in 0..DbTop /\ k + 1 \in 1..DbTop /\ (k + 1) - 1 = k /\ k \in 0..n /\ k + 1 \in 0..n
      BY <1>0, <2>0
    <3>2. up[k] \in Objects /\ ~IsExit(m, up[k]) /\ up[k] # NOTHING /\ up[k + 1] # NOTHING
      BY <1>2, <2>4, <3>1
    <3>3. ~IsRoom(m, up[k]) /\ up[k + 1] = m.db[up[k]].location
      BY <1>1, <3>1, <3>2
    <3>4. ~IsGarbage(m, up[k])
      <4>1. IsGarbage(m, up[k]) => m.db[up[k]] = Garbage
        BY <3>2, SoundLinked
      <4> QED BY <4>1, <3>2, <3>3 DEF Garbage
    <3>5. Mobile(m, up[k])
      BY <1>0, <3>2, <3>3, <3>4, OneKind
    <3>6. up[k + 1] \in S
      <4>1. CASE k = n - 1
        <5>1. k + 1 = n /\ 0 \in 0..(n - 1)
          BY <2>0, <4>1
        <5> QED BY <1>1, <1>3, <5>1
      <4>2. CASE k # n - 1
        <5>1. k + 1 \in 0..(n - 1)
          BY <2>0, <4>2
        <5> QED BY <5>1
      <4> QED BY <4>1, <4>2
    <3> QED BY <3>2, <3>3, <3>5, <3>6
  <2>6. 0 \in 0..(n - 1)
    BY <2>0
  <2>7. S # {} /\ S \in SUBSET Objects
    BY <2>5, <2>6
  <2>8. \A y \in S : Mobile(m, y) /\ m.db[y].location \in S
    <3> HIDE DEF S
    <3>1. ASSUME NEW y \in S PROVE \E k \in 0..(n - 1) : y = up[k]
      BY DEF S
    <3> QED BY <2>5, <3>1
  <2> HIDE DEF S
  <2> QED BY <1>0, <2>7, <2>8 DEF Rooted
<1> QED BY <1>3 DEF up

\* What x carries is not around x.
LEMMA ItemsNotAround ==
  ASSUME NEW m, NEW K, Sound(m, K), NEW x \in Objects, Mobile(m, x),
         NEW y \in Range(m.db[x].contents)
  PROVE  y \notin {Around(m, x)[n] : n \in 0..DbTop}
<1> DEFINE up == Around(m, x)
<1>1. /\ up[0] = x
      /\ \A n \in 1..DbTop : up[n] = IF up[n - 1] = NOTHING \/ IsRoom(m, up[n - 1]) THEN NOTHING
                                     ELSE m.db[up[n - 1]].location
  BY AroundFacts
<1>2. \A n \in 1..DbTop : up[n] # x
  BY NoCircle
<1>3. m \in Memories /\ AllLinked(m, K) /\ Rooted(m) /\ ~IsExit(m, x)
  BY SoundParts, OneKind
<1>4. up[DbTop] = NOTHING
  BY <1>3, ChainEnds
<1>5. y \in Objects /\ Mobile(m, y) /\ m.db[y].location = x /\ y # x
  BY SoundListed, NotInItself
<1>6. ~IsRoom(m, y) /\ y # NOTHING
  BY <1>3, <1>5, OneKind, Names
<1> HIDE DEF up
<1>7. ASSUME NEW n \in 0..DbTop, up[n] = y PROVE FALSE
  <2>1. n # DbTop
    BY <1>4, <1>6, <1>7
  <2>2. n + 1 \in 1..DbTop /\ (n + 1) - 1 = n
    <3>1. DbTop \in Nat /\ n \in Int /\ 0 <= n /\ n <= DbTop
      BY DbAssumption
    <3> QED BY <2>1, <3>1
  <2>3. up[n + 1] = x
    BY <1>1, <1>5, <1>6, <1>7, <2>2
  <2> QED BY <1>2, <2>2, <2>3
<1> QED BY <1>7 DEF up

\* i is put at the end of the list of x.
Appended(m, i, x) == [m EXCEPT !.db[x].contents = Append(@, i), !.db[i].location = x]

\* It is in x then.
LEMMA AppendedPut ==
  ASSUME NEW m \in Memories, NEW x \in Objects, NEW loc \in Objects,
         \A o \in Objects : IsInjective(m.db[o].contents),
         x \notin Range(m.db[loc].contents)
  PROVE  Put(m, Appended(m, x, loc), x, loc)
<1> DEFINE c == Append(m.db[loc].contents, x)
           a == WithContents(m, loc, c)
           n == WithLocation(a, x, loc)
<1>1. m.db[loc].contents \in Seq(Objects) /\ IsInjective(m.db[loc].contents)
  BY Fields
<1>2. c \in Seq(Objects) /\ IsInjective(c) /\ Range(c) = Range(m.db[loc].contents) \cup {x}
  BY <1>1, AppendFacts
<1>3. Appended(m, x, loc) = n
  BY DEF Appended, WithLocation, WithContents
<1> HIDE DEF c
<1>4. /\ a \in Memories /\ a.free = m.free /\ a.db[loc].contents = c
      /\ \A o \in Objects : o # loc => a.db[o] = m.db[o]
  BY <1>2, SetContents
<1>5. ASSUME NEW o \in Objects PROVE Alike(m, a, o) /\ a.db[o].location = m.db[o].location
  BY <1>2, SetContents DEF Alike
<1> HIDE DEF a
<1>6. /\ n \in Memories /\ n.free = a.free /\ n.db[x].location = loc
      /\ \A o \in Objects : o # x => n.db[o] = a.db[o]
  BY <1>4, SetLocation
<1>7. ASSUME NEW o \in Objects PROVE Alike(a, n, o) /\ n.db[o].contents = a.db[o].contents
  BY <1>4, SetLocation DEF Alike
<1> HIDE DEF n
<1>8. ASSUME NEW o \in Objects PROVE Alike(m, n, o) /\ IsInjective(n.db[o].contents)
  <2>1. Alike(m, n, o)
    BY <1>5, <1>7 DEF Alike
  <2>2. CASE o = loc
    BY <1>2, <1>4, <1>7, <2>1, <2>2
  <2>3. CASE o # loc
    BY <1>4, <1>7, <2>1, <2>3
  <2> QED BY <2>2, <2>3
<1>9. \A o \in Objects : o # x => n.db[o].location = m.db[o].location
  BY <1>5, <1>6
<1>10. Range(n.db[loc].contents) = Range(m.db[loc].contents) \cup {x}
  BY <1>2, <1>4, <1>7
<1>11. \A o \in Objects : o # loc => n.db[o].contents = m.db[o].contents
  BY <1>4, <1>7
<1> QED BY <1>3, <1>4, <1>6, <1>8, <1>9, <1>10, <1>11 DEF Put

\* What x carries and would go home is at home outside of x, or with x.
HomelyAt(x) ==
  \A i \in Range(Memory.db[x].contents) :
    i \in Sticky /\ ~controls(x, i) =>
      Memory.db[i].home = x \/ ~recursive_member(Memory, Memory.db[i].home, x)

\* safe_tel(x) has put back or sent home the first n items.
Carrying(a, x, s, n) ==
  /\ Sound(a, {s[j] : j \in (n + 1)..Len(s)}) /\ Rearranged(Memory, a)
  /\ \A o \in Objects \ Range(s) : a.db[o].location = Memory.db[o].location
  /\ \A j \in (n + 1)..Len(s) : a.db[s[j]].location = NOTHING

\* One item: the chains of locations in Memory that its way depends on have no
\* item of x, so they are as they were.
LEMMA CarriedFacts ==
  ASSUME Sound(Memory, {}), NEW x \in Objects, Mobile(Memory, x), HomelyAt(x),
         NEW a, NEW K, Sound(a, K), Rearranged(Memory, a), NEW i \in K,
         i \in Range(Memory.db[x].contents),
         \A o \in Objects \ Range(Memory.db[x].contents) :
            a.db[o].location = Memory.db[o].location,
         a.db[i].location = NOTHING
  PROVE  /\ Sound(Carried(a, i, x), K \ {i}) /\ Rearranged(Memory, Carried(a, i, x))
         /\ \A o \in Objects : o # i => Carried(a, i, x).db[o].location = a.db[o].location
<1> DEFINE m == Memory
           s == m.db[x].contents
           n == Carried(a, i, x)
           h == m.db[i].home
<1>1. m \in Memories /\ AllLinked(m, {}) /\ Rooted(m)
      /\ a \in Memories /\ AllLinked(a, K) /\ Rooted(a)
  BY SoundParts
<1>2. i \in Objects /\ Mobile(m, i) /\ m.db[i].location = x
  BY SoundListed
<1>3. \A o \in Objects : /\ a.db[o].home = m.db[o].home
                         /\ IsRoom(a, o) <=> IsRoom(m, o)
                         /\ IsExit(a, o) <=> IsExit(m, o)
                         /\ Mobile(a, o) <=> Mobile(m, o)
                         /\ Holds(a, o) <=> Holds(m, o)
  BY RearrangedKinds
<1>4. \A y \in Range(s) : y \in Objects /\ Mobile(m, y) /\ m.db[y].location = x
  BY SoundListed
<1>5. \A o \in Objects \ Range(s) : a.db[o].location = m.db[o].location
  OBVIOUS
<1>6. i \in Range(s) /\ a.db[i].location = NOTHING /\ a.db[i].home = h
  BY <1>2, <1>3
<1>h. HomelyAt(x) => h = x \/ ~(i \in Sticky /\ ~controls(x, i)) \/ ~recursive_member(m, h, x)
  BY <1>6 DEF HomelyAt
<1>7. h \in Objects /\ Holds(m, h) /\ Holds(a, h) /\ ~IsExit(m, h) /\ ~IsExit(a, h)
  <2>1. h \in Objects /\ Holds(m, h)
    BY <1>2, SoundLinked
  <2> QED BY <1>1, <1>3, <2>1, OneKind
<1>8. n = Appended(a, i, x) \/ /\ i \in Sticky /\ ~controls(x, i) /\ h # x
                               /\ n = enter_room(a, i, h)
  BY <1>6 DEF Carried, Appended
<1> HIDE DEF n, s, h, m
<1>9. ASSUME NEW loc \in Objects, ~IsExit(m, loc), NEW U, U = {Around(m, loc)[k] : k \in 0..DbTop},
             U \cap Range(s) = {}
      PROVE  CanEnter(a, i, loc)
  <2>1. loc \in U /\ \A y \in U : y # NOTHING /\ ~IsRoom(m, y) => m.db[y].location \in U
    BY <1>1, <1>9, ChainClosed
  <2>2. \A y \in U : y = NOTHING \/ y \in Objects
    <3>1. \A k \in 0..DbTop : Around(m, loc)[k] = NOTHING \/ Around(m, loc)[k] \in Objects
      BY <1>1, <1>9, ChainObjects
    <3> QED BY <1>9, <3>1
  <2>3. i \notin U
    BY <1>6, <1>9
  <2>4. \A y \in U : y # NOTHING /\ ~IsRoom(a, y) => a.db[y].location \in U \cup {NOTHING}
    BY <1>3, <1>5, <1>9, <2>1, <2>2
  <2>5. Mobile(a, i) /\ ~IsExit(a, loc)
    BY <1>2, <1>3, <1>9
  <2> QED BY <1>1, <1>2, <2>1, <2>3, <2>4, <2>5, Outside
<1>10. CASE n = Appended(a, i, x)
  <2> DEFINE U == {Around(m, x)[k] : k \in 0..DbTop}
  <2>1. U \cap Range(s) = {}
    <3>1. ASSUME NEW y \in Range(s) PROVE y \notin U
      BY ItemsNotAround DEF s, m
    <3> QED BY <3>1
  <2>2. ~IsExit(m, x) /\ Holds(m, x)
    BY <1>1, OneKind DEF m
  <2> HIDE DEF U
  <2>3. CanEnter(a, i, x)
    BY <1>9, <2>1, <2>2 DEF U
  <2>4. \A o \in Objects : IsInjective(a.db[o].contents) /\ i \notin Range(a.db[o].contents)
    BY <1>6, SoundListed, Names
  <2>5. Put(a, n, i, x)
    BY <1>1, <1>2, <1>10, <2>4, AppendedPut
  <2>6. \A o \in Objects : o # x => Range(n.db[o].contents) = Range(a.db[o].contents) \ {i}
    BY <2>4, <2>5 DEF Put
  <2>7. Moved(a, n, i, x)
    BY <2>5, <2>6 DEF Put, Moved
  <2>8. K \cup {i} = K
    OBVIOUS
  <2>9. Sound(n, K \ {i})
    BY <1>2, <1>3, <2>2, <2>3, <2>7, <2>8, MovedSound
  <2>10. Rearranged(a, n)
    BY <2>7 DEF Moved, Rearranged
  <2>11. Rearranged(m, n)
    BY <2>10, RearrangedTwice DEF m
  <2> QED BY <2>7, <2>9, <2>11 DEF Moved, n, m
<1>11. CASE i \in Sticky /\ ~controls(x, i) /\ h # x /\ n = enter_room(a, i, h)
  <2> DEFINE U == {Around(m, h)[k] : k \in 0..DbTop}
  <2>1. ~recursive_member(m, h, x)
    BY <1>h, <1>11
  <2>2. \A k \in 0..DbTop : Around(m, h)[k] # x
    BY <1>1, <1>7, <1>11, <2>1, CanEnterFacts DEF m
  <2>3. \A y \in U : y # NOTHING /\ ~IsRoom(m, y) => m.db[y].location \in U
    BY <1>1, <1>7, ChainClosed
  <2>4. U \cap Range(s) = {}
    <3>1. ASSUME NEW y \in Range(s), y \in U PROVE FALSE
      <4>1. y \in Objects /\ Mobile(m, y) /\ m.db[y].location = x /\ ~IsRoom(m, y) /\ y # NOTHING
        BY <1>1, <1>4, <3>1, OneKind, Names
      <4>2. x \in U
        BY <2>3, <3>1, <4>1
      <4> QED BY <2>2, <4>2
    <3> QED BY <3>1
  <2> HIDE DEF U
  <2>5. CanEnter(a, i, h)
    BY <1>7, <1>9, <2>4 DEF U
  <2>6. n = Entered(a, i, h)
    BY <1>6, <1>11, EnterRoomEntered
  <2>7. Sound(n, K \ {i}) /\ Rearranged(a, n) /\ Moved(a, n, i, h)
    BY <1>2, <1>7, <2>5, <2>6, EnteredFacts
  <2>8. Rearranged(m, n)
    BY <2>7, RearrangedTwice DEF m
  <2> QED BY <2>7, <2>8 DEF Moved, n, m
<1> QED BY <1>8, <1>10, <1>11

\* safe_tel() keeps everything in order.
LEMMA SafeTelSound ==
  ASSUME Sound(Memory, {}), NEW x \in Objects, Mobile(Memory, x), HomelyAt(x),
         NEW dest \in Objects, Holds(Memory, dest)
  PROVE  Sound(safe_tel(Memory, x, dest), {}) /\ Rearranged(Memory, safe_tel(Memory, x, dest))
<1> DEFINE m == Memory
           s == m.db[x].contents
           N == Len(s)
           n == safe_tel(m, x, dest)
<1>1. m \in Memories /\ s \in Seq(Objects) /\ N \in Nat /\ IsInjective(s)
  BY SoundParts, Fields, SoundListed
<1>2. \A k \in 1..N : s[k] \in Range(s)
  BY <1>1 DEF Range
<1>3. \A j, k \in 1..N : j # k => s[j] # s[k]
  BY <1>1 DEF IsInjective
<1>4. PICK f : /\ f[0] = Blasted(m, x)
               /\ \A k \in 1..N : f[k] = Carried(f[k - 1], s[k], x)
               /\ n = IF m.db[x].location # NOTHING /\ m.db[m.db[x].location].owner = m.db[dest].owner
                      THEN enter_room(m, x, dest) ELSE enter_room(f[N], x, dest)
  BY <1>1, CarrySteps
<1>5. /\ Sound(f[0], Range(s)) /\ Rearranged(m, f[0])
      /\ \A o \in Range(s) : f[0].db[o].location = NOTHING
      /\ \A o \in Objects \ Range(s) : f[0].db[o].location = m.db[o].location
  <2> DEFINE b == Blasted(m, x)
             O == {}
  <2>1. Sound(m, O)
    OBVIOUS
  <2>2. O \cup Range(s) = Range(s)
    OBVIOUS
  <2> HIDE DEF O
  <2>3. /\ Sound(b, O \cup Range(s))
        /\ Turned(m, b, x)
    BY <2>1, BlastedFacts
  <2> HIDE DEF b
  <2> QED BY <1>4, <2>2, <2>3 DEF b, Turned
<1>6. Range(s) = {s[j] : j \in 1..N}
  BY <1>1 DEF Range
<1>7. Sound(m, {}) /\ Mobile(m, x) /\ Holds(m, dest)
  OBVIOUS
<1> DEFINE W == {k \in 0..N : Carrying(f[k], x, s, k)}
<1>8. 0 \in W
  <2>1. (0 + 1)..N = 1..N /\ 0 \in 0..N
    BY <1>1
  <2>2. Carrying(f[0], x, s, 0)
    BY <1>2, <1>5, <1>6, <2>1 DEF Carrying
  <2> QED BY <2>1, <2>2
<1>9. ASSUME NEW k \in 1..N, k - 1 \in W PROVE k \in W
  <2> DEFINE a == f[k - 1]
             i == s[k]
             K == {s[j] : j \in k..N}
             b == Carried(a, i, x)
  <2>0. f[k] = b
    BY <1>4
  <2>1. (k - 1) + 1 = k /\ k \in k..N /\ k \in 0..N
    BY <1>1
  <2>2. /\ Sound(a, K) /\ Rearranged(m, a)
        /\ \A o \in Objects \ Range(s) : a.db[o].location = m.db[o].location
        /\ \A j \in k..N : a.db[s[j]].location = NOTHING
    BY <1>9, <2>1 DEF Carrying
  <2>3. i \in K /\ i \in Range(s) /\ a.db[i].location = NOTHING
    BY <1>2, <2>1, <2>2
  <2>4. K \ {i} = {s[j] : j \in (k + 1)..N}
    <3>1. \A j \in k..N : j = k \/ j \in (k + 1)..N
      BY <1>1
    <3>2. \A j \in (k + 1)..N : j \in k..N /\ j \in 1..N /\ j # k
      BY <1>1
    <3> QED BY <1>3, <3>1, <3>2
  <2>5. \A j \in (k + 1)..N : j \in k..N /\ s[j] # i /\ s[j] \in Range(s)
    <3>1. \A j \in (k + 1)..N : j \in k..N /\ j \in 1..N /\ j # k
      BY <1>1
    <3> QED BY <1>2, <1>3, <3>1
  <2>6. Range(s) \subseteq Objects
    BY <1>1 DEF Range
  <2> HIDE DEF K, a, i
  <2>7. /\ Sound(b, K \ {i}) /\ Rearranged(m, b)
        /\ \A o \in Objects : o # i => b.db[o].location = a.db[o].location
    <3>1. /\ Sound(Memory, {}) /\ Mobile(Memory, x) /\ HomelyAt(x)
          /\ Rearranged(Memory, a)
          /\ i \in Range(Memory.db[x].contents)
          /\ \A o \in Objects \ Range(Memory.db[x].contents) :
               a.db[o].location = Memory.db[o].location
      BY <1>7, <2>2, <2>3
    <3> HIDE DEF m, s
    <3>2. /\ Sound(b, K \ {i}) /\ Rearranged(Memory, b)
          /\ \A o \in Objects : o # i => b.db[o].location = a.db[o].location
      BY <2>2, <2>3, <3>1, CarriedFacts
    <3> QED BY <3>2 DEF m
  <2> HIDE DEF b
  <2>8. \A o \in Objects \ Range(s) : b.db[o].location = m.db[o].location
    BY <2>2, <2>3, <2>7
  <2>9. \A j \in (k + 1)..N : b.db[s[j]].location = NOTHING
    BY <2>2, <2>5, <2>6, <2>7
  <2>10. Carrying(b, x, s, k)
    BY <2>4, <2>7, <2>8, <2>9 DEF Carrying
  <2> QED BY <2>0, <2>1, <2>10
<1>10. Sound(f[N], {}) /\ Rearranged(m, f[N])
  <2>1. N \in 0..N /\ (N + 1)..N = {}
    BY <1>1
  <2>2. N \in W
    <3> HIDE DEF W
    <3>1. \A k \in 0..N : k \in W
      BY <1>1, <1>8, <1>9, UpTo
    <3> QED BY <2>1, <3>1
  <2>3. {s[j] : j \in (N + 1)..N} = {}
    BY <2>1
  <2>4. Carrying(f[N], x, s, N)
    BY <2>2
  <2> QED BY <2>3, <2>4 DEF Carrying
<1> DEFINE c == f[N]
<1> HIDE DEF n, m, N, s
<1>11. CASE n = enter_room(m, x, dest)
  BY <1>7, <1>11, EnterRoomSound DEF n, m
<1>12. CASE n = enter_room(c, x, dest)
  <2>1. Sound(c, {}) /\ Rearranged(m, c)
    BY <1>10
  <2> HIDE DEF c
  <2>2. Holds(c, dest)
    BY <1>7, <2>1, RearrangedKinds
  <2>3. Sound(n, {}) /\ Rearranged(c, n)
    BY <1>12, <2>1, <2>2, EnterRoomSound
  <2>4. Rearranged(m, n)
    BY <2>1, <2>3, RearrangedTwice
  <2> QED BY <2>3, <2>4 DEF n, m
<1>13. n = enter_room(m, x, dest) \/ n = enter_room(c, x, dest)
  BY <1>4
<1> QED BY <1>11, <1>12, <1>13

-----------------------------------------------------------------------------
\* New objects.

\* a is m with x made into r, and no longer free.
Created(m, a, x, r) ==
  /\ a \in Memories /\ a.db[x] = r
  /\ \A o \in Objects : o # x => a.db[o] = m.db[o]
  /\ IsInjective(a.free) /\ Range(a.free) = Range(m.free) \ {x}

\* A new object that refers to nothing it may not refer to.
Suited(m, x, r) ==
  /\ r \in ObjectRecords /\ r.type # "GARBAGE" /\ r.going = 0
  /\ r.contents = <<>> /\ r.exits = <<>>
  /\ r.type = "PLAYER" => r.owner = x
  /\ r.type # "PLAYER" => IsPlayer(m, r.owner)
  /\ r.type \in {"PLAYER", "THING"} =>
       /\ Holds(m, r.home)
       /\ r.location # NOTHING => Holds(m, r.location)
  /\ r.type = "EXIT" => r.home \in Objects /\ IsRoom(m, r.home)
  /\ r.type \in {"ROOM", "EXIT"} => r.location = NOTHING

\* new_object() takes x off the free list.
LEMMA AllocatedFacts ==
  ASSUME Sound(Memory, {}), NEW x \in Objects, NEW r \in ObjectRecords
  PROVE  Created(Memory, Allocated(x, r), x, r)
<1> DEFINE m == Memory
           g == RemoveFirst(m.free, x)
           d == [m.db EXCEPT ![x] = r]
           a == Allocated(x, r)
<1>1. m \in Memories /\ IsInjective(m.free)
  BY SoundParts
<1>2. m.free \in Seq(Objects) /\ m.db \in [Objects -> ObjectRecords]
  BY <1>1 DEF Memories
<1>3. g \in Seq(Objects) /\ IsInjective(g) /\ Range(g) = Range(m.free) \ {x}
  BY <1>1, <1>2, RemoveFirstFacts
<1>4. d \in [Objects -> ObjectRecords] /\ d[x] = r /\ \A o \in Objects : o # x => d[o] = m.db[o]
  BY <1>2
<1>5. a = [db |-> d, free |-> g]
  BY DEF Allocated, Memory
<1> HIDE DEF d, g, m
<1>6. a \in Memories
  BY <1>3, <1>4, <1>5 DEF Memories
<1> QED BY <1>3, <1>4, <1>5, <1>6 DEF Created, m

\* Nothing refers to an object that is free.
LEMMA Unreferred ==
  ASSUME NEW m, Sound(m, {}), NEW x \in Objects, IsGarbage(m, x), NEW o \in Objects
  PROVE  /\ m.db[o].location # x /\ (~IsRoom(m, o) => m.db[o].home # x)
         /\ x \notin Range(m.db[o].contents) /\ x \notin Range(m.db[o].exits)
<1>1. m \in Memories /\ ~IsRoom(m, x) /\ ~IsExit(m, x) /\ ~Mobile(m, x) /\ ~Holds(m, x)
      /\ x # NOTHING
  BY SoundParts, OneKind, Names
<1>2. x \notin Range(m.db[o].contents) /\ x \notin Range(m.db[o].exits)
  BY <1>1, SoundListed
<1>3. CASE IsGarbage(m, o)
  <2>1. m.db[o] = Garbage
    BY <1>3, SoundLinked
  <2>2. m.db[o].location = NOTHING /\ m.db[o].home = NOTHING
    BY <2>1 DEF Garbage
  <2> QED BY <1>1, <1>2, <2>2
<1>4. CASE Mobile(m, o)
  <2>1. Holds(m, m.db[o].home) /\ Holds(m, m.db[o].location)
    BY <1>4, SoundLinked
  <2> QED BY <1>1, <1>2, <2>1
<1>5. CASE IsExit(m, o)
  <2>1. IsRoom(m, m.db[o].home) /\ (m.db[o].location # NOTHING => ~IsGarbage(m, m.db[o].location))
    BY <1>5, SoundLinked
  <2> QED BY <1>1, <1>2, <2>1
<1>6. CASE IsRoom(m, o)
  <2>1. m.db[o].location # NOTHING => IsRoom(m, m.db[o].location)
    BY <1>6, SoundLinked
  <2> QED BY <1>1, <1>2, <1>6, <2>1
<1> QED BY <1>1, <1>3, <1>4, <1>5, <1>6, OneKind

\* A new object is in order, but on no list yet.
LEMMA CreatedSound ==
  ASSUME NEW m, NEW a, NEW x \in Objects, NEW r, NEW L,
         Sound(m, {}), IsGarbage(m, x), Suited(m, x, r), Created(m, a, x, r),
         r.type # "ROOM" => x \in L
  PROVE  Sound(a, L)
<1>1. m \in Memories /\ Rooted(m) /\ a \in Memories
  BY SoundParts DEF Created
<1>2. \A o \in Objects : o # x => a.db[o] = m.db[o] /\ Kinds(m, a, o)
  BY SameKinds DEF Created
<1>3. ~IsRoom(m, x) /\ ~IsExit(m, x) /\ ~Mobile(m, x) /\ ~Holds(m, x) /\ ~IsPlayer(m, x)
  BY <1>1, OneKind
<1>4. \A o \in Objects :
        /\ m.db[o].location # x /\ (~IsRoom(m, o) => m.db[o].home # x)
        /\ x \notin Range(m.db[o].contents) /\ x \notin Range(m.db[o].exits)
  BY Unreferred
<1>5. a.db[x] = r /\ ~IsGarbage(a, x)
  BY DEF Created, Suited, IsGarbage
<1>6. IsPlayer(a, GOD) /\ IsRoom(a, DEFAULT_HOME)
  BY <1>2, <1>3, SoundParts, Names DEF Kinds
<1>7. \A o \in Objects : o # x =>
        /\ IsRoom(a, o) <=> IsRoom(m, o)
        /\ IsExit(a, o) <=> IsExit(m, o)
        /\ IsPlayer(a, o) <=> IsPlayer(m, o)
        /\ IsGarbage(a, o) <=> IsGarbage(m, o)
        /\ Mobile(a, o) <=> Mobile(m, o)
        /\ Holds(a, o) <=> Holds(m, o)
  BY <1>2 DEF Kinds
<1>8. ASSUME NEW y \in Objects PROVE Linked(a, y, L)
  <2>1. CASE y # x
    <3>1. /\ IsGarbage(m, y) => m.db[y] = Garbage
          /\ ~IsGarbage(m, y) => IsPlayer(m, m.db[y].owner)
          /\ IsPlayer(m, y) => m.db[y].owner = y
          /\ Mobile(m, y) =>
               /\ Holds(m, m.db[y].home) /\ m.db[y].home \in Objects /\ m.db[y].home # y
               /\ m.db[y].location # NOTHING => ~IsExit(m, m.db[y].location)
               /\ Holds(m, m.db[y].location) /\ m.db[y].location \in Objects
          /\ IsExit(m, y) =>
               /\ m.db[y].home \in Objects /\ IsRoom(m, m.db[y].home)
               /\ m.db[y].location # NOTHING => ~IsGarbage(m, m.db[y].location)
          /\ IsRoom(m, y) /\ m.db[y].location # NOTHING => IsRoom(m, m.db[y].location)
      BY SoundLinked
    <3>2. m.db[y].owner \in Objects /\ m.db[y].location \in Objects \cup {NOTHING}
          /\ m.db[y].location # x /\ a.db[y] = m.db[y]
      BY <1>1, <1>2, <1>4, <2>1, Fields
    <3>3. IsGarbage(a, y) => a.db[y] = Garbage
      BY <1>7, <2>1, <3>1, <3>2
    <3>4. ~IsGarbage(a, y) => IsPlayer(a, a.db[y].owner)
      BY <1>3, <1>7, <2>1, <3>1, <3>2
    <3>5. IsPlayer(a, y) => a.db[y].owner = y
      BY <1>7, <2>1, <3>1, <3>2
    <3>6. Mobile(a, y) =>
            /\ Holds(a, a.db[y].home) /\ a.db[y].home # y
            /\ a.db[y].location # NOTHING => ~IsExit(a, a.db[y].location)
            /\ y \notin L => Holds(a, a.db[y].location)
      BY <1>3, <1>7, <2>1, <3>1, <3>2
    <3>7. IsExit(a, y) =>
            /\ a.db[y].home # NOTHING /\ IsRoom(a, a.db[y].home)
            /\ a.db[y].location # NOTHING => ~IsGarbage(a, a.db[y].location)
      BY <1>3, <1>7, <2>1, <3>1, <3>2, Names
    <3>8. IsRoom(a, y) /\ a.db[y].location # NOTHING => IsRoom(a, a.db[y].location)
      BY <1>3, <1>7, <2>1, <3>1, <3>2
    <3> QED BY <3>3, <3>4, <3>5, <3>6, <3>7, <3>8 DEF Linked
  <2>2. CASE y = x
    <3>1. /\ r.type = "PLAYER" => r.owner = x
          /\ r.type # "PLAYER" => r.owner \in Objects /\ IsPlayer(m, r.owner)
      BY DEF Suited, ObjectRecords
    <3>2. IsPlayer(a, x) <=> r.type = "PLAYER"
      BY <1>5 DEF IsPlayer
    <3>3. IsPlayer(a, a.db[x].owner)
      BY <1>3, <1>5, <1>7, <3>1, <3>2
    <3>4. Mobile(a, x) =>
            /\ Holds(a, a.db[x].home) /\ a.db[x].home # x
            /\ a.db[x].location # NOTHING => ~IsExit(a, a.db[x].location)
      <4> SUFFICES ASSUME Mobile(a, x)
                   PROVE  /\ Holds(a, a.db[x].home) /\ a.db[x].home # x
                          /\ a.db[x].location # NOTHING => ~IsExit(a, a.db[x].location)
        OBVIOUS
      <4>1. Holds(m, r.home) /\ (r.location # NOTHING => Holds(m, r.location))
        BY <1>5 DEF Suited, Mobile
      <4>2. r.home \in Objects /\ (r.location # NOTHING => r.location \in Objects)
        BY <4>1 DEF Holds
      <4>3. r.home # x /\ r.location # x
        BY <1>3, <4>1, Names
      <4>4. Holds(a, r.home) /\ (r.location # NOTHING => ~IsExit(m, r.location))
        BY <1>1, <1>7, <4>1, <4>2, <4>3, OneKind
      <4> QED BY <1>5, <1>7, <4>2, <4>3, <4>4
    <3>5. x \notin L => ~Mobile(a, x)
      BY <1>5 DEF Mobile
    <3>6. IsExit(a, x) =>
            /\ a.db[x].home # NOTHING /\ IsRoom(a, a.db[x].home) /\ a.db[x].location = NOTHING
      <4> SUFFICES ASSUME IsExit(a, x)
                   PROVE  /\ a.db[x].home # NOTHING /\ IsRoom(a, a.db[x].home)
                          /\ a.db[x].location = NOTHING
        OBVIOUS
      <4>1. r.home \in Objects /\ IsRoom(m, r.home) /\ r.location = NOTHING
        BY <1>5 DEF Suited, IsExit
      <4> QED BY <1>3, <1>5, <1>7, <4>1, Names
    <3>7. IsRoom(a, x) => a.db[x].location = NOTHING
      BY <1>5 DEF Suited, IsRoom
    <3>8. IsPlayer(a, x) => a.db[x].owner = x
      BY <1>5, <3>1, <3>2
    <3> QED BY <1>5, <2>2, <3>3, <3>4, <3>5, <3>6, <3>7, <3>8 DEF Linked
  <2> QED BY <2>1, <2>2
<1>9. ASSUME NEW y \in Objects PROVE Listed(a, y, L)
  <2>1. CASE y # x
    <3>1. /\ IsInjective(m.db[y].contents) /\ IsInjective(m.db[y].exits)
          /\ \A z \in Range(m.db[y].contents) : z \in Objects /\ Mobile(m, z) /\ m.db[z].location = y
          /\ \A z \in Range(m.db[y].exits) : z \in Objects /\ IsExit(m, z) /\ m.db[z].home = y
          /\ Mobile(m, y) => y \in Range(m.db[m.db[y].location].contents)
          /\ IsExit(m, y) => y \in Range(m.db[m.db[y].home].exits)
      BY SoundListed
    <3>2. a.db[y] = m.db[y]
      BY <1>2, <2>1
    <3>3. ASSUME NEW z \in Range(a.db[y].contents) PROVE Mobile(a, z) /\ a.db[z].location = y
      <4>1. z \in Objects /\ z # x /\ Mobile(m, z) /\ m.db[z].location = y
        BY <1>4, <3>1, <3>2, <3>3
      <4> QED BY <1>2, <1>7, <4>1
    <3>4. ASSUME NEW z \in Range(a.db[y].exits) PROVE IsExit(a, z) /\ a.db[z].home = y
      <4>1. z \in Objects /\ z # x /\ IsExit(m, z) /\ m.db[z].home = y
        BY <1>4, <3>1, <3>2, <3>4
      <4> QED BY <1>2, <1>7, <4>1
    <3>5. Mobile(a, y) => y \in Range(a.db[a.db[y].location].contents)
      <4> SUFFICES ASSUME Mobile(a, y) PROVE y \in Range(a.db[a.db[y].location].contents)
        OBVIOUS
      <4>1. Mobile(m, y) /\ m.db[y].location # x
        BY <1>4, <1>7, <2>1
      <4>2. m.db[y].location \in Objects
        BY <4>1, SoundLinked
      <4> QED BY <1>2, <3>1, <3>2, <4>1, <4>2
    <3>6. IsExit(a, y) => y \in Range(a.db[a.db[y].home].exits)
      <4> SUFFICES ASSUME IsExit(a, y) PROVE y \in Range(a.db[a.db[y].home].exits)
        OBVIOUS
      <4>1. IsExit(m, y)
        BY <1>7, <2>1
      <4>2. m.db[y].home \in Objects /\ m.db[y].home # x
        BY <1>3, <4>1, SoundLinked
      <4> QED BY <1>2, <3>1, <3>2, <4>1, <4>2
    <3> QED BY <3>1, <3>2, <3>3, <3>4, <3>5, <3>6 DEF Listed
  <2>2. CASE y = x
    <3>1. a.db[x].contents = <<>> /\ a.db[x].exits = <<>>
      BY <1>5 DEF Suited
    <3>2. Range(<<>>) = {} /\ IsInjective(<<>>)
      BY DEF Range, IsInjective
    <3>3. x \notin L => ~Mobile(a, x) /\ ~IsExit(a, x)
      BY <1>5 DEF Mobile, IsExit
    <3> QED BY <2>2, <3>1, <3>2, <3>3 DEF Listed
  <2> QED BY <2>1, <2>2
<1>10. Rooted(a)
  <2> SUFFICES ASSUME NEW S \in SUBSET Objects, S # {}, \A y \in S : Mobile(a, y),
                      \A y \in S : a.db[y].location \in S
               PROVE  FALSE
    BY DEF Rooted
  <2> DEFINE T == S \ {x}
  <2>1. \A y \in T : Mobile(m, y) /\ m.db[y].location \in T
    <3> SUFFICES ASSUME NEW y \in T PROVE Mobile(m, y) /\ m.db[y].location \in T
      OBVIOUS
    <3>1. y \in Objects /\ y # x /\ Mobile(a, y) /\ a.db[y].location \in S
      OBVIOUS
    <3> QED BY <1>2, <1>4, <1>7, <3>1
  <2>2. T # {}
    <3> SUFFICES ASSUME S = {x} PROVE FALSE
      OBVIOUS
    <3>1. r.location = x /\ Mobile(a, x)
      BY <1>5
    <3>2. Holds(m, r.location)
      BY <1>5, <3>1, Names DEF Suited, Mobile
    <3> QED BY <1>3, <3>1, <3>2
  <2>3. T \in SUBSET Objects
    OBVIOUS
  <2> HIDE DEF T
  <2> QED BY <1>1, <2>1, <2>2, <2>3 DEF Rooted
<1>11. IsInjective(a.free) /\ Range(a.free) = {y \in Objects : IsGarbage(a, y)}
  <2>1. Range(m.free) = {y \in Objects : IsGarbage(m, y)} /\ Range(a.free) = Range(m.free) \ {x}
        /\ IsInjective(a.free)
    BY SoundParts DEF Created
  <2>2. \A y \in Objects : IsGarbage(a, y) <=> y # x /\ IsGarbage(m, y)
    BY <1>5, <1>7
  <2> QED BY <2>1, <2>2
<1> QED BY <1>1, <1>6, <1>8, <1>9, <1>10, <1>11 DEF Sound

\* n is m with exit x hung in room dest, and nothing else changed.
Hung(m, n, x, dest) ==
  /\ n \in Memories /\ n.free = m.free
  /\ \A o \in Objects :
       /\ n.db[o].type = m.db[o].type /\ n.db[o].owner = m.db[o].owner
       /\ n.db[o].going = m.db[o].going /\ n.db[o].location = m.db[o].location
       /\ n.db[o].contents = m.db[o].contents
       /\ o # x => n.db[o].home = m.db[o].home
       /\ o # dest => n.db[o].exits = m.db[o].exits
       /\ IsInjective(n.db[o].exits)
  /\ n.db[x].home = dest
  /\ Range(n.db[dest].exits) = Range(m.db[dest].exits) \cup {x}

\* PUSH(x, Exits(dest))
LEMMA PushedHung ==
  ASSUME NEW m, NEW K, Sound(m, K), NEW x \in Objects, NEW dest \in Objects,
         m.db[x].home = dest, x \notin Range(m.db[dest].exits)
  PROVE  Hung(m, [m EXCEPT !.db[dest].exits = <<x>> \o @], x, dest)
<1> DEFINE c == <<x>> \o m.db[dest].exits
           n == WithExits(m, dest, c)
<1>1. m \in Memories /\ \A o \in Objects : IsInjective(m.db[o].exits)
  BY SoundParts, SoundListed
<1>2. m.db[dest].exits \in Seq(Objects)
  BY <1>1, Fields
<1>3. c \in Seq(Objects) /\ IsInjective(c) /\ Range(c) = Range(m.db[dest].exits) \cup {x}
  BY <1>1, <1>2, PushFacts
<1>4. [m EXCEPT !.db[dest].exits = <<x>> \o @] = n
  BY DEF WithExits
<1> HIDE DEF c
<1>5. /\ n \in Memories /\ n.free = m.free
      /\ \A o \in Objects :
           /\ n.db[o].type = m.db[o].type
           /\ n.db[o].owner = m.db[o].owner
           /\ n.db[o].going = m.db[o].going
           /\ n.db[o].home = m.db[o].home
           /\ n.db[o].location = m.db[o].location
           /\ n.db[o].contents = m.db[o].contents
           /\ o # dest => n.db[o] = m.db[o]
      /\ n.db[dest].exits = c
  BY <1>1, <1>3, SetExits
<1> HIDE DEF n
<1>6. \A o \in Objects : o # dest => n.db[o].exits = m.db[o].exits
  BY <1>5
<1>7. \A o \in Objects : IsInjective(n.db[o].exits)
  BY <1>1, <1>3, <1>5
<1>8. Range(n.db[dest].exits) = Range(m.db[dest].exits) \cup {x} /\ n.db[x].home = dest
  BY <1>3, <1>5
<1>9. Hung(m, n, x, dest)
  BY <1>5, <1>6, <1>7, <1>8 DEF Hung
<1> QED BY <1>4, <1>9

\* Source(x) = dest and PUSH(x, Exits(dest))
LEMMA RelinkedHung ==
  ASSUME NEW m, NEW K, Sound(m, K), NEW x \in Objects, NEW dest \in Objects, x # dest,
         x \notin Range(m.db[dest].exits)
  PROVE  Hung(m, [m EXCEPT !.db[x].home = dest, !.db[dest].exits = <<x>> \o @], x, dest)
<1> DEFINE a == WithHome(m, x, dest)
           c == <<x>> \o m.db[dest].exits
           n == WithExits(a, dest, c)
<1>1. m \in Memories /\ \A o \in Objects : IsInjective(m.db[o].exits)
  BY SoundParts, SoundListed
<1>2. m.db[dest].exits \in Seq(Objects)
  BY <1>1, Fields
<1>3. c \in Seq(Objects) /\ IsInjective(c) /\ Range(c) = Range(m.db[dest].exits) \cup {x}
  BY <1>1, <1>2, PushFacts
<1>4. /\ a \in Memories /\ a.free = m.free
      /\ \A o \in Objects :
           /\ a.db[o].type = m.db[o].type
           /\ a.db[o].owner = m.db[o].owner
           /\ a.db[o].going = m.db[o].going
           /\ a.db[o].location = m.db[o].location
           /\ a.db[o].contents = m.db[o].contents
           /\ a.db[o].exits = m.db[o].exits
           /\ o # x => a.db[o] = m.db[o]
      /\ a.db[x].home = dest
  BY <1>1, SetHome
<1>5. [m EXCEPT !.db[x].home = dest, !.db[dest].exits = <<x>> \o @]
        = WithExits(a, dest, <<x>> \o a.db[dest].exits)
  BY DEF WithExits, WithHome
<1> HIDE DEF a
<1>6. [m EXCEPT !.db[x].home = dest, !.db[dest].exits = <<x>> \o @] = n
  BY <1>4, <1>5
<1> HIDE DEF c
<1>7. /\ n \in Memories /\ n.free = a.free
      /\ \A o \in Objects :
           /\ n.db[o].type = a.db[o].type
           /\ n.db[o].owner = a.db[o].owner
           /\ n.db[o].going = a.db[o].going
           /\ n.db[o].home = a.db[o].home
           /\ n.db[o].location = a.db[o].location
           /\ n.db[o].contents = a.db[o].contents
           /\ o # dest => n.db[o] = a.db[o]
      /\ n.db[dest].exits = c
  BY <1>3, <1>4, SetExits
<1> HIDE DEF n
<1>8. ASSUME NEW o \in Objects
      PROVE  /\ n.db[o].type = m.db[o].type /\ n.db[o].owner = m.db[o].owner
             /\ n.db[o].going = m.db[o].going /\ n.db[o].location = m.db[o].location
             /\ n.db[o].contents = m.db[o].contents
             /\ o # x => n.db[o].home = m.db[o].home
             /\ o # dest => n.db[o].exits = m.db[o].exits
             /\ IsInjective(n.db[o].exits)
  <2>1. /\ n.db[o].type = m.db[o].type /\ n.db[o].owner = m.db[o].owner
        /\ n.db[o].going = m.db[o].going /\ n.db[o].location = m.db[o].location
        /\ n.db[o].contents = m.db[o].contents
    BY <1>4, <1>7
  <2>2. o # x => n.db[o].home = m.db[o].home
    BY <1>4, <1>7
  <2>3. o # dest => n.db[o].exits = m.db[o].exits
    BY <1>4, <1>7
  <2>4. IsInjective(n.db[o].exits)
    BY <1>1, <1>3, <1>7, <2>3
  <2> QED BY <2>1, <2>2, <2>3, <2>4
<1>9. Range(n.db[dest].exits) = Range(m.db[dest].exits) \cup {x} /\ n.db[x].home = dest
  BY <1>3, <1>4, <1>7
<1>10. Hung(m, n, x, dest)
  BY <1>4, <1>7, <1>8, <1>9 DEF Hung
<1> QED BY <1>6, <1>10

\* An exit that was on no list is in order once it is on that of its source.
LEMMA HungSound ==
  ASSUME NEW m, NEW n, NEW x \in Objects, NEW dest \in Objects, Sound(m, {x}),
         IsExit(m, x), IsRoom(m, dest), Hung(m, n, x, dest),
         \A o \in Objects : x \notin Range(m.db[o].exits)
  PROVE  Sound(n, {})
<1>1. m \in Memories /\ Rooted(m)
  BY SoundParts
<1>2. /\ n \in Memories /\ n.free = m.free
      /\ \A o \in Objects :
           /\ n.db[o].type = m.db[o].type /\ n.db[o].owner = m.db[o].owner
           /\ n.db[o].going = m.db[o].going /\ n.db[o].location = m.db[o].location
           /\ n.db[o].contents = m.db[o].contents
           /\ o # x => n.db[o].home = m.db[o].home
           /\ o # dest => n.db[o].exits = m.db[o].exits
           /\ IsInjective(n.db[o].exits)
      /\ n.db[x].home = dest
      /\ Range(n.db[dest].exits) = Range(m.db[dest].exits) \cup {x}
  BY DEF Hung
<1>3. \A o \in Objects :
        /\ IsRoom(n, o) <=> IsRoom(m, o)
        /\ IsExit(n, o) <=> IsExit(m, o)
        /\ IsPlayer(n, o) <=> IsPlayer(m, o)
        /\ IsGarbage(n, o) <=> IsGarbage(m, o)
        /\ Mobile(n, o) <=> Mobile(m, o)
        /\ Holds(n, o) <=> Holds(m, o)
  BY <1>2, SameKinds DEF Kinds
<1>4. IsPlayer(n, GOD) /\ IsRoom(n, DEFAULT_HOME)
  BY <1>3, Names, SoundParts
<1>5. ~Mobile(m, x) /\ ~IsGarbage(m, x) /\ ~IsPlayer(m, x) /\ ~IsRoom(m, x) /\ ~IsGarbage(m, dest)
  BY <1>1, OneKind
<1>6. ASSUME NEW y \in Objects PROVE Linked(n, y, {})
  <2>1. /\ IsGarbage(m, y) => m.db[y] = Garbage
        /\ ~IsGarbage(m, y) => IsPlayer(m, m.db[y].owner)
        /\ IsPlayer(m, y) => m.db[y].owner = y
        /\ Mobile(m, y) =>
             /\ Holds(m, m.db[y].home) /\ m.db[y].home \in Objects /\ m.db[y].home # y
             /\ m.db[y].location # NOTHING => ~IsExit(m, m.db[y].location)
             /\ y \notin {x} => Holds(m, m.db[y].location) /\ m.db[y].location \in Objects
        /\ IsExit(m, y) =>
             /\ m.db[y].home \in Objects /\ IsRoom(m, m.db[y].home)
             /\ m.db[y].location # NOTHING => ~IsGarbage(m, m.db[y].location)
        /\ IsRoom(m, y) /\ m.db[y].location # NOTHING => IsRoom(m, m.db[y].location)
    BY SoundLinked
  <2>2. m.db[y].owner \in Objects /\ m.db[y].location \in Objects \cup {NOTHING}
    BY <1>1, Fields
  <2>3. IsGarbage(n, y) => n.db[y] = Garbage
    <3> SUFFICES ASSUME IsGarbage(n, y) PROVE n.db[y] = Garbage
      OBVIOUS
    <3>1. IsGarbage(m, y) /\ y # x /\ y # dest
      BY <1>3, <1>5
    <3>2. m.db[y] = Garbage
      BY <2>1, <3>1
    <3>3. /\ m.db[y].type = "GARBAGE" /\ m.db[y].owner = GOD /\ m.db[y].going = 0
          /\ m.db[y].home = NOTHING /\ m.db[y].exits = <<>> /\ m.db[y].location = NOTHING
          /\ Range(m.db[y].contents) = {}
      BY <3>2 DEF Garbage, Range
    <3>4. /\ n.db[y].type = "GARBAGE" /\ n.db[y].owner = GOD /\ n.db[y].going = 0
          /\ n.db[y].home = NOTHING /\ n.db[y].exits = <<>> /\ n.db[y].location = NOTHING
          /\ Range(n.db[y].contents) = {}
      BY <1>2, <3>1, <3>3
    <3> QED BY <1>2, <3>4, StaysGarbage
  <2>4. ~IsGarbage(n, y) => IsPlayer(n, n.db[y].owner)
    BY <1>2, <1>3, <2>1, <2>2
  <2>5. IsPlayer(n, y) => n.db[y].owner = y
    BY <1>2, <1>3, <2>1
  <2>6. Mobile(n, y) =>
          /\ Holds(n, n.db[y].home) /\ n.db[y].home # y
          /\ n.db[y].location # NOTHING => ~IsExit(n, n.db[y].location)
          /\ Holds(n, n.db[y].location)
    <3> SUFFICES ASSUME Mobile(n, y)
                 PROVE  /\ Holds(n, n.db[y].home) /\ n.db[y].home # y
                        /\ n.db[y].location # NOTHING => ~IsExit(n, n.db[y].location)
                        /\ Holds(n, n.db[y].location)
      OBVIOUS
    <3>1. Mobile(m, y) /\ y # x
      BY <1>3, <1>5
    <3>2. n.db[y].home = m.db[y].home /\ n.db[y].location = m.db[y].location
      BY <1>2, <3>1
    <3> QED BY <1>3, <2>1, <3>1, <3>2
  <2>7. IsExit(n, y) =>
          /\ n.db[y].home # NOTHING /\ IsRoom(n, n.db[y].home)
          /\ n.db[y].location # NOTHING => ~IsGarbage(n, n.db[y].location)
    <3> SUFFICES ASSUME IsExit(n, y)
                 PROVE  /\ n.db[y].home # NOTHING /\ IsRoom(n, n.db[y].home)
                        /\ n.db[y].location # NOTHING => ~IsGarbage(n, n.db[y].location)
      OBVIOUS
    <3>1. IsExit(m, y)
      BY <1>3
    <3>2. n.db[y].location # NOTHING => ~IsGarbage(n, n.db[y].location)
      BY <1>2, <1>3, <2>1, <2>2, <3>1
    <3>3. n.db[y].home \in Objects /\ IsRoom(n, n.db[y].home)
      BY <1>2, <1>3, <2>1, <3>1
    <3> QED BY <3>2, <3>3, Names
  <2>8. IsRoom(n, y) /\ n.db[y].location # NOTHING => IsRoom(n, n.db[y].location)
    BY <1>2, <1>3, <2>1, <2>2
  <2> QED BY <2>3, <2>4, <2>5, <2>6, <2>7, <2>8 DEF Linked
<1>7. ASSUME NEW y \in Objects PROVE Listed(n, y, {})
  <2>1. /\ IsInjective(m.db[y].contents)
        /\ \A z \in Range(m.db[y].contents) : z \in Objects /\ Mobile(m, z) /\ m.db[z].location = y
        /\ \A z \in Range(m.db[y].exits) : z \in Objects /\ IsExit(m, z) /\ m.db[z].home = y
        /\ y \notin {x} =>
             /\ Mobile(m, y) => y \in Range(m.db[m.db[y].location].contents)
             /\ IsExit(m, y) => y \in Range(m.db[m.db[y].home].exits)
    BY SoundListed
  <2>2. \A z \in Range(n.db[y].contents) : Mobile(n, z) /\ n.db[z].location = y
    BY <1>2, <1>3, <2>1
  <2>3. ASSUME NEW z \in Range(n.db[y].exits) PROVE IsExit(n, z) /\ n.db[z].home = y
    <3>1. CASE z = x
      <4>1. y = dest
        BY <1>2, <2>3, <3>1
      <4> QED BY <1>2, <1>3, <3>1, <4>1
    <3>2. CASE z # x
      <4>1. z \in Range(m.db[y].exits)
        BY <1>2, <2>3, <3>2
      <4> QED BY <1>2, <1>3, <2>1, <3>2, <4>1
    <3> QED BY <3>1, <3>2
  <2>4. Mobile(n, y) => y \in Range(n.db[n.db[y].location].contents)
    <3> SUFFICES ASSUME Mobile(n, y) PROVE y \in Range(n.db[n.db[y].location].contents)
      OBVIOUS
    <3>1. Mobile(m, y) /\ y # x
      BY <1>3, <1>5
    <3>2. m.db[y].location \in Objects
      BY <3>1, SoundLinked
    <3> QED BY <1>2, <2>1, <3>1, <3>2
  <2>5. IsExit(n, y) => y \in Range(n.db[n.db[y].home].exits)
    <3>1. CASE y = x
      BY <1>2, <3>1
    <3>2. CASE y # x
      <4> SUFFICES ASSUME IsExit(n, y) PROVE y \in Range(n.db[n.db[y].home].exits)
        OBVIOUS
      <4>1. IsExit(m, y) /\ n.db[y].home = m.db[y].home
        BY <1>2, <1>3, <3>2
      <4>2. m.db[y].home \in Objects /\ y \in Range(m.db[m.db[y].home].exits)
        BY <2>1, <3>2, <4>1, SoundLinked
      <4>3. Range(m.db[m.db[y].home].exits) \subseteq Range(n.db[m.db[y].home].exits)
        BY <1>2, <4>2
      <4> QED BY <4>1, <4>2, <4>3
    <3> QED BY <3>1, <3>2
  <2> QED BY <1>2, <2>1, <2>2, <2>3, <2>4, <2>5 DEF Listed
<1>8. Rooted(n)
  <2> SUFFICES ASSUME NEW S \in SUBSET Objects, S # {}, \A y \in S : Mobile(n, y)
               PROVE  \E y \in S : n.db[y].location \notin S
    BY DEF Rooted
  <2>1. \A y \in S : Mobile(m, y)
    BY <1>3
  <2>2. PICK y \in S : m.db[y].location \notin S
    BY <1>1, <2>1 DEF Rooted
  <2> QED BY <1>2, <2>2
<1>9. IsInjective(n.free) /\ Range(n.free) = {y \in Objects : IsGarbage(n, y)}
  BY <1>2, <1>3, SoundParts
<1> QED BY <1>2, <1>4, <1>6, <1>7, <1>8, <1>9 DEF Sound

-----------------------------------------------------------------------------
\* The commands.

\* What a command leaves is the next memory.
LEMMA BecomesInOrder ==
  ASSUME NEW STATE m, InOrder(m), Becomes(m)
  PROVE  InOrder(Memory)'
<1>1. m \in Memories
  BY SoundParts DEF InOrder
<1>2. m = [db |-> m.db, free |-> m.free]
  BY <1>1 DEF Memories
<1>3. Memory' = m /\ connected' = connected
  BY <1>2 DEF Becomes, Memory
<1>4. Sound(Memory', {}) /\ DoorsDoomed(Memory')
  BY <1>3 DEF InOrder
<1>5. Online(Memory)'
  BY <1>3 DEF InOrder, Online
<1> QED BY <1>4, <1>5 DEF InOrder, Sound, DoorsDoomed
\* One object, which was not a room or player, has been made or put elsewhere.
LEMMA ChangedInOrder ==
  ASSUME NEW m, InOrder(m), NEW n, Sound(n, {}), NEW x \in Objects,
         ~IsPlayer(m, x), ~IsRoom(m, x),
         \A o \in Objects : o # x => /\ n.db[o].type = m.db[o].type
                                     /\ n.db[o].going = m.db[o].going
                                     /\ IsExit(m, o) => n.db[o].home = m.db[o].home,
         IsExit(n, x) => ~Going(m, n.db[x].home)
  PROVE  InOrder(n)
<1> DEFINE N == {}
<1> HIDE DEF N
<1>0. Sound(m, N) /\ Sound(n, N) /\ DoorsDoomed(m) /\ Online(m)
  BY DEF InOrder, N
<1>1. m \in Memories /\ n \in Memories
  BY <1>0, SoundParts
<1>2. \A o \in Objects : o # x => /\ IsExit(n, o) <=> IsExit(m, o)
                                  /\ IsPlayer(n, o) <=> IsPlayer(m, o)
                                  /\ IsRoom(n, o) <=> IsRoom(m, o)
  BY SameKinds DEF Kinds
<1>3. ASSUME NEW e \in Objects, IsExit(n, e)
      PROVE  n.db[e].going >= n.db[n.db[e].home].going
  <2>1. CASE e = x
    <3>1. n.db[x].home \in Objects /\ IsRoom(n, n.db[x].home)
      BY <1>0, <1>3, <2>1, SoundLinked
    <3>2. n.db[x].home # x
      BY <1>1, <1>3, <2>1, <3>1, OneKind
    <3>3. n.db[n.db[x].home].going = m.db[n.db[x].home].going /\ ~Going(m, n.db[x].home)
      BY <1>3, <2>1, <3>1, <3>2
    <3>4. m.db[n.db[x].home].going \in 0..2 /\ n.db[x].going \in 0..2
      BY <1>1, <3>1, Fields
    <3> QED BY <2>1, <3>3, <3>4 DEF Going
  <2>2. CASE e # x
    <3>1. IsExit(m, e) /\ n.db[e].home = m.db[e].home /\ n.db[e].going = m.db[e].going
      BY <1>2, <1>3, <2>2
    <3>2. m.db[e].home \in Objects /\ IsRoom(m, m.db[e].home)
      BY <1>0, <3>1, SoundLinked
    <3>3. m.db[e].home # x
      BY <3>2
    <3>4. n.db[m.db[e].home].going = m.db[m.db[e].home].going
      BY <3>2, <3>3
    <3> QED BY <1>0, <3>1, <3>4 DEF DoorsDoomed
  <2> QED BY <2>1, <2>2
<1>4. DoorsDoomed(n)
  BY <1>3 DEF DoorsDoomed
<1>5. ASSUME NEW p \in connected PROVE p \in Objects /\ IsPlayer(n, p) /\ ~Going(n, p)
  <2>1. p \in Objects /\ IsPlayer(m, p) /\ ~Going(m, p)
    BY <1>0 DEF Online
  <2>2. p # x
    BY <2>1
  <2> QED BY <1>2, <2>1, <2>2 DEF Going
<1> QED BY <1>4, <1>5 DEF InOrder, Online

\* A free dbref is a destroyed object.
LEMMA FreeRef ==
  ASSUME Sound(Memory, {}), NEW p, NEW type, NEW x \in make_first_free(p, type)
  PROVE  x \in Objects /\ IsGarbage(Memory, x)
<1>1. x \in Range(Memory.free)
  BY DEF make_first_free, Memory
<1> QED BY <1>1, SoundParts

\* A player or thing is made.
LEMMA BornInOrder ==
  ASSUME InOrder(Memory), NEW x \in Objects, IsGarbage(Memory, x),
         NEW r, Suited(Memory, x, r), r.type \in {"PLAYER", "THING"},
         NEW loc \in Objects, Holds(Memory, loc)
  PROVE  InOrder(Placed(Allocated(x, r), x, loc))
<1> DEFINE m == Memory
           a == Allocated(x, r)
           n == Placed(a, x, loc)
           L == {x}
           N == {}
           U == Objects \ {x}
<1> HIDE DEF N
<1>1. Sound(Memory, N)
  BY DEF InOrder, N
<1>2. Created(Memory, a, x, r)
  BY <1>1, AllocatedFacts DEF N, Suited
<1> HIDE DEF m, a, L
<1>3. x \in L /\ L = N \cup {x} /\ L \ {x} = N
  BY DEF L, N
<1>4. Sound(a, L)
  BY <1>1, <1>2, <1>3, CreatedSound DEF N, m
<1>5. m \in Memories /\ a \in Memories /\ Rooted(a) /\ AllLinked(a, L)
  BY <1>1, <1>4, SoundParts DEF m
<1>6. \A o \in Objects : o # x => a.db[o] = m.db[o] /\ Kinds(m, a, o)
  BY <1>2, SameKinds DEF Created, m
<1>7. a.db[x] = r /\ Mobile(a, x) /\ ~IsExit(a, x)
  BY <1>2 DEF Created, Mobile, IsExit
<1>8. loc # x /\ Holds(a, loc) /\ ~IsExit(a, loc)
  <2>1. loc # x
    BY <1>5, OneKind DEF m
  <2>2. Holds(a, loc)
    BY <1>6, <2>1 DEF Kinds, m
  <2> QED BY <1>5, <2>1, <2>2, OneKind
<1>9. \A o \in Objects : m.db[o].location # x /\ x \notin Range(m.db[o].contents)
  BY <1>1, Unreferred DEF N, m
<1>10. CanEnter(a, x, loc)
  <2>1. ASSUME NEW y \in U PROVE a.db[y].location \in U \cup {NOTHING}
    <3>1. y \in Objects /\ y # x
      OBVIOUS
    <3>2. m.db[y].location \in Objects \cup {NOTHING} /\ m.db[y].location # x
      BY <1>5, <1>9, <3>1, Fields
    <3> QED BY <1>6, <3>1, <3>2
  <2>2. loc \in U /\ x \notin U
    BY <1>8
  <2> HIDE DEF U
  <2>3. \A y \in U : y # NOTHING /\ ~IsRoom(a, y) => a.db[y].location \in U \cup {NOTHING}
    BY <2>1
  <2> QED BY <1>5, <1>7, <1>8, <2>2, <2>3, Outside
<1>11. \A o \in Objects : x \notin Range(a.db[o].contents)
  <2>1. Range(<<>>) = {} /\ r.contents = <<>>
    BY DEF Range, Suited
  <2> QED BY <1>6, <1>7, <1>9, <2>1
<1>12. \A o \in Objects : IsInjective(a.db[o].contents)
  BY <1>4, SoundListed
<1>13. Put(a, n, x, loc)
  BY <1>5, <1>11, <1>12, PlacedFacts
<1> HIDE DEF n
<1>14. Moved(a, n, x, loc)
  <2>1. \A o \in Objects : o # loc => n.db[o].contents = a.db[o].contents
    BY <1>13 DEF Put
  <2>2. \A o \in Objects : o # loc => Range(n.db[o].contents) = Range(a.db[o].contents) \ {x}
    BY <1>11, <2>1
  <2> QED BY <1>13, <2>2 DEF Put, Moved
<1>15. Sound(n, N)
  <2>1. Sound(a, N \cup {x}) /\ N \ {x} = N
    BY <1>3, <1>4 DEF N
  <2>2. Sound(n, N \ {x})
    BY <1>8, <1>10, <1>14, <2>1, MovedSound
  <2> QED BY <2>1, <2>2
<1>16. \A o \in Objects : n.db[o].type = a.db[o].type /\ n.db[o].going = a.db[o].going
                          /\ n.db[o].home = a.db[o].home
  BY <1>14 DEF Moved, Alike
<1>17. ~IsPlayer(m, x) /\ ~IsRoom(m, x)
  BY <1>5, OneKind DEF m
<1>18. ~IsExit(n, x)
  BY <1>7, <1>16 DEF IsExit
<1>19. \A o \in Objects : o # x => /\ n.db[o].type = m.db[o].type
                                   /\ n.db[o].going = m.db[o].going
                                   /\ IsExit(m, o) => n.db[o].home = m.db[o].home
  BY <1>6, <1>16
<1> QED BY <1>15, <1>17, <1>18, <1>19, ChangedInOrder DEF n, a, m, N

\* A room is made.
LEMMA DugInOrder ==
  ASSUME InOrder(Memory), NEW x \in Objects, IsGarbage(Memory, x),
         NEW r, Suited(Memory, x, r), r.type = "ROOM"
  PROVE  InOrder(Allocated(x, r))
<1> DEFINE a == Allocated(x, r)
           N == {}
<1> HIDE DEF N
<1>1. Sound(Memory, N)
  BY DEF InOrder, N
<1>2. Created(Memory, a, x, r)
  BY <1>1, AllocatedFacts DEF N, Suited
<1> HIDE DEF a
<1>3. Sound(a, N)
  BY <1>1, <1>2, CreatedSound DEF N
<1>4. a.db[x] = r /\ \A o \in Objects : o # x => a.db[o] = Memory.db[o]
  BY <1>2 DEF Created
<1>5. ~IsExit(a, x)
  BY <1>4 DEF IsExit
<1>6. ~IsPlayer(Memory, x) /\ ~IsRoom(Memory, x)
  BY <1>1, SoundParts, OneKind
<1>7. \A o \in Objects : o # x => /\ a.db[o].type = Memory.db[o].type
                                  /\ a.db[o].going = Memory.db[o].going
                                  /\ IsExit(Memory, o) => a.db[o].home = Memory.db[o].home
  BY <1>4
<1> QED BY <1>3, <1>5, <1>6, <1>7, ChangedInOrder DEF a, N

\* An exit is made.
LEMMA OpenedInOrder ==
  ASSUME InOrder(Memory), NEW x \in Objects, IsGarbage(Memory, x),
         NEW r, Suited(Memory, x, r), r.type = "EXIT", NEW loc \in Objects, r.home = loc,
         ~Going(Memory, loc)
  PROVE  InOrder([Allocated(x, r) EXCEPT !.db[loc].exits = <<x>> \o @])
<1> DEFINE a == Allocated(x, r)
           n == [a EXCEPT !.db[loc].exits = <<x>> \o @]
           L == {x}
           N == {}
<1> HIDE DEF N
<1>1. Sound(Memory, N)
  BY DEF InOrder, N
<1>2. Created(Memory, a, x, r)
  BY <1>1, AllocatedFacts DEF N, Suited
<1> HIDE DEF a, L
<1>3. x \in L
  BY DEF L
<1>4. Sound(a, L)
  BY <1>1, <1>2, <1>3, CreatedSound DEF N
<1>5. a.db[x] = r /\ \A o \in Objects : o # x => a.db[o] = Memory.db[o]
  BY <1>2 DEF Created
<1>6. Memory \in Memories /\ a \in Memories
  BY <1>1, <1>4, SoundParts
<1>7. \A o \in Objects : x \notin Range(a.db[o].exits)
  <2>1. Range(<<>>) = {} /\ r.exits = <<>>
    BY DEF Range, Suited
  <2>2. \A o \in Objects : x \notin Range(Memory.db[o].exits)
    BY <1>1, Unreferred DEF N
  <2> QED BY <1>5, <2>1, <2>2
<1>8. Hung(a, n, x, loc)
  BY <1>4, <1>5, <1>7, PushedHung
<1> HIDE DEF n
<1>9. IsExit(a, x) /\ IsRoom(Memory, loc) /\ loc # x
  <2>1. IsRoom(Memory, loc)
    BY DEF Suited
  <2>2. loc # x
    BY <1>6, <2>1, OneKind
  <2> QED BY <1>5, <2>1, <2>2 DEF IsExit
<1>10. IsRoom(a, loc)
  BY <1>5, <1>9 DEF IsRoom
<1>11. Sound(n, N)
  BY <1>4, <1>7, <1>8, <1>9, <1>10, HungSound DEF L, N
<1>12. \A o \in Objects : /\ n.db[o].type = a.db[o].type /\ n.db[o].going = a.db[o].going
                          /\ o # x => n.db[o].home = a.db[o].home
  BY <1>8 DEF Hung
<1>13. n.db[x].home = loc
  BY <1>8 DEF Hung
<1>14. ~IsPlayer(Memory, x) /\ ~IsRoom(Memory, x)
  BY <1>6, OneKind
<1>15. \A o \in Objects : o # x => /\ n.db[o].type = Memory.db[o].type
                                   /\ n.db[o].going = Memory.db[o].going
                                   /\ IsExit(Memory, o) => n.db[o].home = Memory.db[o].home
  BY <1>5, <1>12
<1>16. ~Going(Memory, n.db[x].home)
  BY <1>13
<1> QED BY <1>11, <1>14, <1>15, <1>16, ChangedInOrder DEF n, a, N

\* What the fields of an enactor, or of anything that can move, are.
LEMMA MobileFields ==
  ASSUME Sound(Memory, {}), NEW p \in Objects, Mobile(Memory, p)
  PROVE  /\ Owner(p) \in Objects /\ IsPlayer(Memory, Owner(p))
         /\ Location(p) \in Objects /\ Holds(Memory, Location(p))
         /\ db[p].home \in Objects /\ Holds(Memory, db[p].home) /\ db[p].home # p
<1> DEFINE m == Memory
           N == {}
<1> HIDE DEF N
<1>0. Sound(m, N)
  BY DEF N
<1>1. m.db = db /\ m \in Memories
  BY <1>0, SoundParts DEF Memory
<1> HIDE DEF m
<1>2. Mobile(m, p) /\ ~IsGarbage(m, p)
  BY <1>1, OneKind DEF m
<1>3. p \notin N
  BY DEF N
<1>4. m.db[p].owner \in Objects
  BY <1>1, Fields
<1>5. /\ IsPlayer(m, m.db[p].owner)
      /\ Holds(m, m.db[p].home) /\ m.db[p].home \in Objects /\ m.db[p].home # p
      /\ Holds(m, m.db[p].location) /\ m.db[p].location \in Objects
  BY <1>0, <1>2, <1>3, SoundLinked
<1> QED BY <1>1, <1>4, <1>5 DEF Owner, Location, m

\* Who gives commands.
LEMMA EnactorFacts ==
  ASSUME NEW p \in Enactors
  PROVE  p \in Objects /\ Mobile(Memory, p) /\ p \in Live
BY DEF Enactors, Live

\* What a new object is before it is put anywhere.
Made(type, owner, location, home) ==
  [type |-> type, owner |-> owner, location |-> location, home |-> home,
   going |-> 0, contents |-> <<>>, exits |-> <<>>]

\* Its fields, one by one.
IsMade(r, type, owner, location, home) ==
  /\ r \in ObjectRecords
  /\ r.type = type /\ r.owner = owner /\ r.location = location /\ r.home = home
  /\ r.going = 0 /\ r.contents = <<>> /\ r.exits = <<>>

\* It is an object.
LEMMA MadeFacts ==
  ASSUME NEW type \in {"ROOM", "THING", "EXIT", "PLAYER"}, NEW owner \in Objects,
         NEW location \in Objects \cup {NOTHING}, NEW home \in Objects \cup {NOTHING},
         NEW r, r = Made(type, owner, location, home)
  PROVE  IsMade(r, type, owner, location, home)
BY DEF Made, ObjectRecords, IsMade

\* How the commands make it of a destroyed object.
Owned(t, o) == [Garbage EXCEPT !.type = t, !.owner = o]
Homed(t, o, h) == [Garbage EXCEPT !.type = t, !.owner = o, !.home = h]
Housed(t, o, l, h) == [Garbage EXCEPT !.type = t, !.owner = o, !.location = l, !.home = h]

\* That is what it is.
LEMMA MadeOf ==
  ASSUME NEW t, NEW o, NEW l, NEW h
  PROVE  /\ Owned(t, o) = Made(t, o, NOTHING, NOTHING)
         /\ Homed(t, o, h) = Made(t, o, NOTHING, h)
         /\ Housed(t, o, l, h) = Made(t, o, l, h)
<1> DEFINE a == [Garbage EXCEPT !.type = t]
           b == [a EXCEPT !.owner = o]
           c == [b EXCEPT !.location = l]
<1>1. a = Made(t, GOD, NOTHING, NOTHING)
  BY DEF Garbage, Made
<1>2. b = Made(t, o, NOTHING, NOTHING)
  <2> HIDE DEF a
  <2> QED BY <1>1 DEF Made
<1>3. c = Made(t, o, l, NOTHING)
  <2> HIDE DEF b
  <2> QED BY <1>2 DEF Made
<1>4. [b EXCEPT !.home = h] = Made(t, o, NOTHING, h)
  <2> HIDE DEF b
  <2> QED BY <1>2 DEF Made
<1>5. [c EXCEPT !.home = h] = Made(t, o, l, h)
  <2> HIDE DEF c
  <2> QED BY <1>3 DEF Made
<1>6. Owned(t, o) = b
  BY DEF Owned
<1>7. Homed(t, o, h) = [b EXCEPT !.home = h]
  BY DEF Homed
<1>8. Housed(t, o, l, h) = [c EXCEPT !.home = h]
  BY DEF Housed
<1> HIDE DEF b, c
<1> QED BY <1>2, <1>4, <1>5, <1>6, <1>7, <1>8

\* @create
LEMMA CreateInOrder ==
  ASSUME InOrder(Memory), NEW p \in Enactors, do_create(p)
  PROVE  InOrder(Memory)'
<1>1. Sound(Memory, {})
  BY DEF InOrder
<1>2. p \in Objects /\ Mobile(Memory, p)
  BY EnactorFacts
<1> DEFINE loc == Location(p)
           home == IF loc # NOTHING /\ controls(p, loc) THEN loc ELSE db[p].home
           r == [Garbage EXCEPT !.type = "THING", !.owner = Owner(p),
                                !.location = p, !.home = home]
<1>3. PICK x \in make_first_free(p, "THING") : Becomes(Placed(Allocated(x, r), x, p))
  BY DEF do_create
<1>4. x \in Objects /\ IsGarbage(Memory, x)
  BY <1>1, FreeRef
<1>5. home \in Objects /\ Holds(Memory, home)
  BY <1>1, <1>2, MobileFields
<1>6. Owner(p) \in Objects /\ IsPlayer(Memory, Owner(p))
  BY <1>1, <1>2, MobileFields
<1> HIDE DEF home
<1>d. r = Housed("THING", Owner(p), p, home)
  BY DEF Housed
<1>e. r = Made("THING", Owner(p), p, home)
  <2> HIDE DEF r
  <2> QED BY <1>d, MadeOf
<1>7. /\ r.type = "THING" /\ r.owner = Owner(p) /\ r.location = p /\ r.home = home
      /\ r.going = 0 /\ r.contents = <<>> /\ r.exits = <<>> /\ r \in ObjectRecords
  <2> HIDE DEF r
  <2>1. IsMade(r, "THING", Owner(p), p, home)
    BY <1>2, <1>5, <1>6, <1>e, MadeFacts
  <2> QED BY <2>1 DEF IsMade
<1>9. Holds(Memory, p)
  BY <1>1, <1>2, SoundParts, OneKind
<1> HIDE DEF r
<1>10. Suited(Memory, x, r) /\ r.type \in {"PLAYER", "THING"}
  BY <1>5, <1>6, <1>7, <1>9 DEF Suited
<1>11. InOrder(Placed(Allocated(x, r), x, p))
  BY <1>2, <1>4, <1>9, <1>10, BornInOrder
<1> QED BY <1>3, <1>11, BecomesInOrder

\* @dig
LEMMA DigInOrder ==
  ASSUME InOrder(Memory), NEW p \in Enactors, do_dig(p)
  PROVE  InOrder(Memory)'
<1>1. Sound(Memory, {})
  BY DEF InOrder
<1>2. p \in Objects /\ Mobile(Memory, p)
  BY EnactorFacts
<1> DEFINE r == [Garbage EXCEPT !.type = "ROOM", !.owner = Owner(p)]
<1>3. PICK x \in make_first_free(p, "ROOM") : Becomes(Allocated(x, r))
  BY DEF do_dig
<1>4. x \in Objects /\ IsGarbage(Memory, x)
  BY <1>1, FreeRef
<1>5. Owner(p) \in Objects /\ IsPlayer(Memory, Owner(p))
  BY <1>1, <1>2, MobileFields
<1>d. r = Owned("ROOM", Owner(p))
  BY DEF Owned
<1>e. r = Made("ROOM", Owner(p), NOTHING, NOTHING)
  <2> HIDE DEF r
  <2> QED BY <1>d, MadeOf
<1>6. /\ r.type = "ROOM" /\ r.owner = Owner(p) /\ r.location = NOTHING
      /\ r.going = 0 /\ r.contents = <<>> /\ r.exits = <<>> /\ r \in ObjectRecords
  <2> HIDE DEF r
  <2>1. IsMade(r, "ROOM", Owner(p), NOTHING, NOTHING)
    BY <1>5, <1>e, MadeFacts
  <2> QED BY <2>1 DEF IsMade
<1> HIDE DEF r
<1>8. Suited(Memory, x, r)
  BY <1>5, <1>6 DEF Suited
<1>9. InOrder(Allocated(x, r))
  BY <1>4, <1>6, <1>8, DugInOrder
<1> QED BY <1>3, <1>9, BecomesInOrder

\* @open
LEMMA OpenInOrder ==
  ASSUME InOrder(Memory), NEW p \in Enactors, do_real_open(p)
  PROVE  InOrder(Memory)'
<1>1. Sound(Memory, {})
  BY DEF InOrder
<1>2. p \in Objects /\ Mobile(Memory, p)
  BY EnactorFacts
<1> DEFINE loc == Location(p)
           r == [Garbage EXCEPT !.type = "EXIT", !.owner = Owner(p), !.home = loc]
<1>3. IsRoom(Memory, loc) /\ ~Going(Memory, loc)
  BY DEF do_real_open
<1>4. PICK x \in make_first_free(p, "EXIT") :
        Becomes([Allocated(x, r) EXCEPT !.db[loc].exits = <<x>> \o @])
  BY DEF do_real_open
<1>5. x \in Objects /\ IsGarbage(Memory, x)
  BY <1>1, FreeRef
<1>6. Owner(p) \in Objects /\ IsPlayer(Memory, Owner(p)) /\ loc \in Objects
  BY <1>1, <1>2, MobileFields
<1> HIDE DEF loc
<1>d. r = Homed("EXIT", Owner(p), loc)
  BY DEF Homed
<1>e. r = Made("EXIT", Owner(p), NOTHING, loc)
  <2> HIDE DEF r
  <2> QED BY <1>d, MadeOf
<1>7. /\ r.type = "EXIT" /\ r.owner = Owner(p) /\ r.location = NOTHING /\ r.home = loc
      /\ r.going = 0 /\ r.contents = <<>> /\ r.exits = <<>> /\ r \in ObjectRecords
  <2> HIDE DEF r
  <2>1. IsMade(r, "EXIT", Owner(p), NOTHING, loc)
    BY <1>6, <1>e, MadeFacts
  <2> QED BY <2>1 DEF IsMade
<1> HIDE DEF r
<1>9. Suited(Memory, x, r)
  BY <1>3, <1>6, <1>7 DEF Suited
<1>10. InOrder([Allocated(x, r) EXCEPT !.db[loc].exits = <<x>> \o @])
  BY <1>3, <1>5, <1>6, <1>7, <1>9, OpenedInOrder
<1> QED BY <1>4, <1>10, BecomesInOrder

\* @pcreate
LEMMA MakePlayerInOrder ==
  ASSUME InOrder(Memory), NEW p \in Enactors, make_player(p)
  PROVE  InOrder(Memory)'
<1>1. Sound(Memory, {})
  BY DEF InOrder
<1>2. PICK x \in make_first_free(p, "PLAYER") :
        Becomes(Placed(Allocated(x, [Garbage EXCEPT !.type = "PLAYER", !.owner = x,
                                                    !.home = DEFAULT_HOME]),
                       x, DEFAULT_HOME))
  BY DEF make_player
<1> DEFINE r == [Garbage EXCEPT !.type = "PLAYER", !.owner = x, !.home = DEFAULT_HOME]
<1>3. x \in Objects /\ IsGarbage(Memory, x)
  BY <1>1, FreeRef
<1>4. DEFAULT_HOME \in Objects /\ Holds(Memory, DEFAULT_HOME)
  BY <1>1, SoundParts, OneKind, Names
<1>d. r = Homed("PLAYER", x, DEFAULT_HOME)
  BY DEF Homed
<1>e. r = Made("PLAYER", x, NOTHING, DEFAULT_HOME)
  <2> HIDE DEF r
  <2> QED BY <1>d, MadeOf
<1>5. /\ r.type = "PLAYER" /\ r.owner = x /\ r.location = NOTHING /\ r.home = DEFAULT_HOME
      /\ r.going = 0 /\ r.contents = <<>> /\ r.exits = <<>> /\ r \in ObjectRecords
  <2> HIDE DEF r
  <2>1. IsMade(r, "PLAYER", x, NOTHING, DEFAULT_HOME)
    BY <1>3, <1>4, <1>e, MadeFacts
  <2> QED BY <2>1 DEF IsMade
<1>7. Becomes(Placed(Allocated(x, r), x, DEFAULT_HOME))
  BY <1>2
<1> HIDE DEF r
<1>8. Suited(Memory, x, r) /\ r.type \in {"PLAYER", "THING"}
  BY <1>4, <1>5 DEF Suited
<1>9. InOrder(Placed(Allocated(x, r), x, DEFAULT_HOME))
  BY <1>3, <1>4, <1>8, BornInOrder
<1> QED BY <1>7, <1>9, BecomesInOrder

\* What is moved, taken out or relinked is no more or less marked.
LEMMA SimilarInOrder ==
  ASSUME NEW m, InOrder(m), NEW n, Sound(n, {}), Similar(m, n)
  PROVE  InOrder(n)
<1> DEFINE N == {}
<1>1. m \in Memories
  BY SoundParts DEF InOrder
<1>2. \A o \in Objects : IsExit(n, o) <=> IsExit(m, o)
  BY SimilarKinds
<1>3. \A o \in Objects :
        /\ n.db[o].type = m.db[o].type /\ n.db[o].owner = m.db[o].owner
        /\ n.db[o].going = m.db[o].going
        /\ IsExit(n, o) => n.db[o].home = m.db[o].home
  BY <1>1, <1>2, OneKind DEF Similar
<1>4. Ebbs(m, n, N)
  BY <1>3 DEF Ebbs
<1>5. \A o \in N : ~(IsPlayer(m, o) /\ o \in connected)
  OBVIOUS
<1> HIDE DEF N
<1> QED BY <1>4, <1>5, EbbsInOrder

\* Linking an exit or a room, or unlinking it.
LEMMA LocationInOrder ==
  ASSUME NEW m, InOrder(m), NEW x \in Objects, ~Mobile(m, x), ~IsGarbage(m, x),
         NEW v \in Objects \cup {NOTHING},
         IsExit(m, x) /\ v # NOTHING => ~IsGarbage(m, v),
         IsRoom(m, x) /\ v # NOTHING => IsRoom(m, v)
  PROVE  InOrder([m EXCEPT !.db[x].location = v])
<1> DEFINE N == {}
           n == WithLocation(m, x, v)
<1> HIDE DEF N
<1>1. Sound(m, N)
  BY DEF InOrder, N
<1>2. Sound(n, N) /\ Indoors(m, n)
  BY <1>1, LocationSound
<1> HIDE DEF n
<1>3. Similar(m, n)
  BY <1>1, <1>2, IndoorsDying
<1>4. InOrder(n)
  BY <1>2, <1>3, SimilarInOrder DEF N
<1> QED BY <1>4 DEF n, WithLocation

\* Memory by name.
LEMMA MemoryFields ==
  Memory.db = db /\ Memory.free = first_free
BY DEF Memory

\* What is in use is not destroyed.
LEMMA LiveFacts ==
  ASSUME NEW x \in Live
  PROVE  x \in Objects /\ ~IsGarbage(Memory, x)
BY DEF Live

\* @link of an exit
LEMMA LinkExitInOrder ==
  ASSUME InOrder(Memory), NEW p \in Enactors, NEW x \in Live, NEW dest \in Live,
         LinkExit(p, x, dest)
  PROVE  InOrder(Memory)'
<1> DEFINE m == Memory
           N == {}
           g == chown_object(m, x, Owner(p))
           taken == IF Owner(x) = Owner(p) THEN m ELSE g
<1> HIDE DEF N
<1>1. Sound(m, N) /\ InOrder(m)
  BY DEF InOrder, N
<1>2. p \in Objects /\ Mobile(m, p) /\ x \in Objects /\ ~IsGarbage(m, x)
      /\ dest \in Objects /\ ~IsGarbage(m, dest)
  BY EnactorFacts, LiveFacts
<1>3. Owner(p) \in Objects /\ IsPlayer(m, Owner(p))
  BY <1>1, <1>2, MobileFields DEF N
<1>4. IsExit(m, x) /\ Becomes([taken EXCEPT !.db[x].location = dest])
  BY DEF LinkExit
<1> HIDE DEF m
<1>5. ~IsPlayer(m, x) /\ ~Mobile(m, x) /\ ~IsRoom(m, x)
  BY <1>1, <1>2, <1>4, SoundParts, OneKind
<1>6. InOrder(g) /\ Given(m, g, x, Owner(p))
  BY <1>1, <1>2, <1>3, <1>5, ChownInOrder, ChownFacts
<1> HIDE DEF g
<1>7. \A o \in Objects : g.db[o].type = m.db[o].type
  BY <1>6 DEF Given, Relabelled
<1>8. InOrder(taken) /\ \A o \in Objects : taken.db[o].type = m.db[o].type
  <2>1. CASE Owner(x) = Owner(p)
    BY <1>1, <2>1
  <2>2. CASE Owner(x) # Owner(p)
    BY <1>6, <1>7, <2>2
  <2> QED BY <2>1, <2>2
<1> HIDE DEF taken
<1>9. ~Mobile(taken, x) /\ ~IsGarbage(taken, x) /\ ~IsRoom(taken, x) /\ ~IsGarbage(taken, dest)
  BY <1>2, <1>5, <1>8, SameKinds DEF Kinds
<1>10. InOrder([taken EXCEPT !.db[x].location = dest])
  BY <1>2, <1>8, <1>9, LocationInOrder
<1> QED BY <1>4, <1>10, BecomesInOrder

\* @link of a player or thing
LEMMA LinkHomeInOrder ==
  ASSUME InOrder(Memory), NEW p, NEW x \in Live, NEW home \in Live, LinkHome(p, x, home)
  PROVE  InOrder(Memory)'
<1> DEFINE m == Memory
           N == {}
           n == WithHome(m, x, home)
<1> HIDE DEF N
<1>1. Sound(m, N) /\ InOrder(m) /\ m \in Memories
  BY SoundParts DEF InOrder, N
<1>2. x \in Objects /\ home \in Objects /\ ~IsGarbage(m, home)
  BY LiveFacts
<1>3. Mobile(m, x) /\ ~IsExit(m, home) /\ home # x
  BY DEF LinkHome
<1>4. Becomes(n)
  BY DEF LinkHome, WithHome
<1> HIDE DEF m
<1>5. Holds(m, home)
  BY <1>1, <1>2, <1>3, OneKind
<1>6. Sound(n, N) /\ Similar(m, n)
  BY <1>1, <1>2, <1>3, <1>5, HomeSound
<1> HIDE DEF n
<1>7. InOrder(n)
  BY <1>1, <1>6, SimilarInOrder DEF N
<1> QED BY <1>4, <1>7, BecomesInOrder

\* @link
LEMMA LinkInOrder ==
  ASSUME InOrder(Memory), NEW p \in Enactors, NEW x \in Live, NEW y \in Live, do_link(p, x, y)
  PROVE  InOrder(Memory)'
<1>1. CASE LinkExit(p, x, y)
  BY <1>1, LinkExitInOrder
<1>2. CASE LinkHome(p, x, y)
  BY <1>2, LinkHomeInOrder
<1>3. CASE LinkDropto(p, x, y)
  <2>1. /\ IsRoom(Memory, x) /\ IsRoom(Memory, y)
        /\ Becomes([Memory EXCEPT !.db[x].location = y])
    BY <1>3 DEF LinkDropto
  <2>2. x \in Objects /\ y \in Objects /\ ~IsGarbage(Memory, x) /\ Memory \in Memories
    BY LiveFacts, SoundParts DEF InOrder
  <2>3. ~Mobile(Memory, x) /\ ~IsExit(Memory, x)
    BY <2>1, <2>2, OneKind
  <2>4. InOrder([Memory EXCEPT !.db[x].location = y])
    BY <2>1, <2>2, <2>3, LocationInOrder
  <2> QED BY <2>1, <2>4, BecomesInOrder
<1> QED BY <1>1, <1>2, <1>3 DEF do_link

\* @unlink
LEMMA UnlinkInOrder ==
  ASSUME InOrder(Memory), NEW p \in Enactors, NEW x \in Live, do_unlink(p, x)
  PROVE  InOrder(Memory)'
<1>1. ~Mobile(Memory, x) /\ Becomes([Memory EXCEPT !.db[x].location = NOTHING])
  BY DEF do_unlink
<1>2. x \in Objects /\ ~IsGarbage(Memory, x)
  BY LiveFacts
<1>3. NOTHING \in Objects \cup {NOTHING}
  OBVIOUS
<1>4. InOrder([Memory EXCEPT !.db[x].location = NOTHING])
  BY <1>1, <1>2, <1>3, LocationInOrder
<1> QED BY <1>1, <1>4, BecomesInOrder

\* @chown
LEMMA ChownCommandInOrder ==
  ASSUME InOrder(Memory), NEW p \in Enactors, NEW x \in Live, NEW y \in Live, do_chown(p, x, y)
  PROVE  InOrder(Memory)'
<1>1. ~IsPlayer(Memory, x) /\ IsPlayer(Memory, y) /\ Becomes(chown_object(Memory, x, y))
  BY DEF do_chown
<1>2. x \in Objects /\ ~IsGarbage(Memory, x) /\ y \in Objects
  BY LiveFacts
<1>3. InOrder(chown_object(Memory, x, y))
  BY <1>1, <1>2, ChownInOrder
<1> QED BY <1>1, <1>3, BecomesInOrder

\* Nobody is lost: when free_object(x) takes a player x it does not cut others
\* off.  destroy.c:701 sets Next(i) to NOTHING where it is x, and a player who
\* was in a room of his own has been sent home with that room by then: who is
\* behind him on the list of his home is on no list any more.
NoneLost ==
  /\ \A x \in Objects :
       DESTROY_POSSESSIONS /\ Going(Memory, x) => LosslessPlayer(Memory, x)
  /\ LosslessPurge(Memory)

\* @destroy and @nuke: no player who is connected is named, and nothing else is connected.
LEMMA DestroyInOrder ==
  ASSUME InOrder(Memory), NoneLost, NEW p \in Enactors, NEW x \in Live, do_destroy(p, x)
  PROVE  InOrder(Memory)'
<1>1. x \in Objects /\ ~IsGarbage(Memory, x)
  BY LiveFacts
<1>2. x \in what_to_destroy(p)
      /\ Becomes(IF Going(Memory, x) THEN free_object(Memory, x) ELSE pre_destroy(Memory, x))
  BY DEF do_destroy
<1>3. ~special_object(x) /\ x \notin connected
  <2>1. ~special_object(x) /\ (IsPlayer(Memory, x) => x \notin connected)
    BY <1>2 DEF what_to_destroy
  <2>2. x \in connected => IsPlayer(Memory, x)
    BY DEF InOrder, Online
  <2> QED BY <2>1, <2>2
<1>4. CASE Going(Memory, x)
  <2>1. InOrder(free_object(Memory, x))
    BY <1>1, <1>3, <1>4, FreeInOrder DEF NoneLost
  <2>2. Becomes(free_object(Memory, x))
    BY <1>2, <1>4
  <2> QED BY <2>1, <2>2, BecomesInOrder
<1>5. CASE ~Going(Memory, x)
  <2>1. InOrder(pre_destroy(Memory, x))
    BY <1>1, <1>3, <1>5, PreDestroyFacts
  <2>2. Becomes(pre_destroy(Memory, x))
    BY <1>2, <1>5
  <2> QED BY <2>1, <2>2, BecomesInOrder
<1> QED BY <1>4, <1>5

\* @undestroy
LEMMA UndestroyCommandInOrder ==
  ASSUME InOrder(Memory), NEW p \in Enactors, NEW x \in Live, do_undestroy(p, x)
  PROVE  InOrder(Memory)'
<1>1. x \in Objects /\ Becomes(undestroy(Memory, x))
  BY LiveFacts DEF do_undestroy
<1>2. InOrder(undestroy(Memory, x))
  BY <1>1, UndestroyInOrder
<1> QED BY <1>1, <1>2, BecomesInOrder

\* purge()
LEMMA PurgeInOrder ==
  ASSUME InOrder(Memory), NoneLost, purge
  PROVE  InOrder(Memory)'
<1>1. Becomes(Purged(Memory))
  BY DEF purge
<1>2. InOrder(Purged(Memory))
  BY PurgedFacts DEF InOrder, NoneLost
<1> QED BY <1>1, <1>2, BecomesInOrder

\* Logging in and out changes no object.
LEMMA LoginInOrder ==
  ASSUME InOrder(Memory), NEW x \in Live, Login(x) \/ Logout(x)
  PROVE  InOrder(Memory)'
<1>1. Memory' = Memory
  BY DEF Login, Logout, Memory
<1>2. Sound(Memory', {}) /\ DoorsDoomed(Memory')
  BY <1>1 DEF InOrder
<1>3. \A p \in connected' : p \in Objects /\ IsPlayer(Memory, p) /\ ~Going(Memory, p)
  BY LiveFacts DEF Login, Logout, InOrder, Online
<1>4. Online(Memory)'
  BY <1>1, <1>3 DEF Online
<1> QED BY <1>2, <1>4 DEF InOrder, Sound, DoorsDoomed

\* Nobody carries a STICKY object he does not control whose home is in something
\* he carries.  safe_tel sends such an object home when he moves; if home is
\* inside the object itself, enter_room refuses and it is left nowhere.
Homely == \A x \in Objects : Mobile(Memory, x) => HomelyAt(x)

\* Going from place to place.
LEMMA EnterInOrder ==
  ASSUME InOrder(Memory), NEW x \in Objects, NEW loc \in Objects, Holds(Memory, loc)
  PROVE  InOrder(enter_room(Memory, x, loc))
<1> DEFINE N == {}
           n == enter_room(Memory, x, loc)
<1> HIDE DEF N
<1>1. Sound(Memory, N)
  BY DEF InOrder, N
<1>2. Sound(n, N) /\ Rearranged(Memory, n)
  BY <1>1, EnterRoomSound
<1> HIDE DEF n
<1> QED BY <1>2, RearrangedInOrder DEF N, n

\* Going with everything one carries.
LEMMA TelInOrder ==
  ASSUME InOrder(Memory), Homely, NEW x \in Objects, Mobile(Memory, x),
         NEW dest \in Objects, Holds(Memory, dest)
  PROVE  InOrder(safe_tel(Memory, x, dest))
<1> DEFINE N == {}
           n == safe_tel(Memory, x, dest)
<1>1. Sound(Memory, N) /\ HomelyAt(x)
  BY DEF InOrder, Homely
<1>2. Sound(n, N) /\ Rearranged(Memory, n)
  BY <1>1, SafeTelSound
<1> HIDE DEF n, N
<1> QED BY <1>2, RearrangedInOrder DEF N, n

\* Who moves.
LEMMA MovableFacts ==
  ASSUME NEW x \in Live, Movable(x)
  PROVE  x \in Objects /\ Mobile(Memory, x)
BY LiveFacts DEF Movable

\* home
LEMMA GoHomeInOrder ==
  ASSUME InOrder(Memory), Homely, NEW p \in Enactors, GoHome(p)
  PROVE  InOrder(Memory)'
<1>1. p \in Objects /\ Mobile(Memory, p) /\ Sound(Memory, {})
  BY EnactorFacts DEF InOrder
<1>2. Becomes(safe_tel(Memory, p, db[p].home))
  BY DEF GoHome
<1>3. db[p].home \in Objects /\ Holds(Memory, db[p].home)
  BY <1>1, MobileFields
<1>4. InOrder(safe_tel(Memory, p, db[p].home))
  BY <1>1, <1>3, TelInOrder
<1> QED BY <1>2, <1>4, BecomesInOrder

\* Where exits and droptos lead.
LEMMA LeadsSomewhere ==
  ASSUME InOrder(Memory), NEW x \in Objects, Location(x) # NOTHING, ~IsGarbage(Memory, x)
  PROVE  /\ Location(x) \in Objects
         /\ ~IsExit(Memory, Location(x)) => Holds(Memory, Location(x))
<1> DEFINE m == Memory
           N == {}
<1> HIDE DEF N
<1>0. Sound(m, N)
  BY DEF InOrder, N
<1>1. m.db = db /\ m \in Memories
  BY <1>0, SoundParts DEF Memory
<1> HIDE DEF m
<1>2. m.db[x].location \in Objects
  BY <1>1, Fields DEF Location
<1>3. ~IsGarbage(m, m.db[x].location)
  <2>1. m.db[x].location # NOTHING /\ ~IsGarbage(m, x)
    BY <1>1 DEF Location, m
  <2>2. CASE Mobile(m, x)
    <3>1. x \notin N
      BY DEF N
    <3>2. Holds(m, m.db[x].location)
      BY <1>0, <2>2, <3>1, SoundLinked
    <3> QED BY <1>1, <1>2, <3>2, OneKind
  <2>3. CASE IsExit(m, x)
    BY <1>0, <2>1, <2>3, SoundLinked
  <2>4. CASE IsRoom(m, x)
    <3>1. IsRoom(m, m.db[x].location)
      BY <1>0, <2>1, <2>4, SoundLinked
    <3> QED BY <1>1, <1>2, <3>1, OneKind
  <2> QED BY <1>1, <2>1, <2>2, <2>3, <2>4, OneKind
<1>4. Location(x) = m.db[x].location
  BY <1>1 DEF Location
<1>5. ~IsExit(m, m.db[x].location) => Holds(m, m.db[x].location)
  BY <1>1, <1>2, <1>3, OneKind
<1> QED BY <1>2, <1>4, <1>5 DEF m

\* Through an exit.
LEMMA MoveInOrder ==
  ASSUME InOrder(Memory), Homely, NEW p \in Enactors, NEW x \in Live, do_move(p, x)
  PROVE  InOrder(Memory)'
<1> DEFINE dest == Location(x)
<1>1. p \in Objects /\ Mobile(Memory, p)
  BY EnactorFacts
<1>2. /\ dest # NOTHING /\ ~IsExit(Memory, dest)
      /\ Becomes(IF IsRoom(Memory, dest) THEN enter_room(Memory, p, dest)
                 ELSE safe_tel(Memory, p, dest))
  BY DEF do_move
<1>3. x \in Objects /\ ~IsGarbage(Memory, x)
  BY LiveFacts
<1>4. dest \in Objects /\ Holds(Memory, dest)
  BY <1>2, <1>3, LeadsSomewhere
<1> HIDE DEF dest
<1>5. InOrder(enter_room(Memory, p, dest)) /\ InOrder(safe_tel(Memory, p, dest))
  BY <1>1, <1>4, EnterInOrder, TelInOrder
<1>6. CASE IsRoom(Memory, dest)
  <2>1. Becomes(enter_room(Memory, p, dest))
    BY <1>2, <1>6
  <2> QED BY <1>5, <2>1, BecomesInOrder
<1>7. CASE ~IsRoom(Memory, dest)
  <2>1. Becomes(safe_tel(Memory, p, dest))
    BY <1>2, <1>7
  <2> QED BY <1>5, <2>1, BecomesInOrder
<1> QED BY <1>6, <1>7

\* get
LEMMA GetInOrder ==
  ASSUME InOrder(Memory), NEW p \in Enactors, NEW x \in Live, do_get(p, x)
  PROVE  InOrder(Memory)'
<1>1. p \in Objects /\ Mobile(Memory, p) /\ Memory \in Memories
  BY EnactorFacts, SoundParts DEF InOrder
<1>2. x \in Objects /\ Becomes(enter_room(Memory, x, p))
  BY MovableFacts DEF do_get
<1>3. Holds(Memory, p)
  BY <1>1, OneKind
<1>4. InOrder(enter_room(Memory, x, p))
  BY <1>1, <1>2, <1>3, EnterInOrder
<1> QED BY <1>2, <1>4, BecomesInOrder

\* drop
LEMMA DropInOrder ==
  ASSUME InOrder(Memory), Homely, NEW p \in Enactors, NEW x \in Live, do_drop(p, x)
  PROVE  InOrder(Memory)'
<1> DEFINE loc == Location(p)
           drop == Location(loc)
           S == x \in Sticky
           D == drop # NOTHING /\ IsRoom(Memory, loc) /\ loc \notin Sticky
           a == safe_tel(Memory, x, db[x].home)
           b == enter_room(Memory, x, drop)
           c == enter_room(Memory, x, loc)
<1>1. p \in Objects /\ Mobile(Memory, p) /\ Sound(Memory, {}) /\ Memory \in Memories
  BY EnactorFacts, SoundParts DEF InOrder
<1>2. /\ x \in Objects /\ Mobile(Memory, x)
      /\ Becomes(IF S THEN a ELSE IF D THEN b ELSE c)
  BY MovableFacts DEF do_drop
<1>3. InOrder(a)
  <2>1. db[x].home \in Objects /\ Holds(Memory, db[x].home)
    BY <1>1, <1>2, MobileFields
  <2> QED BY <1>2, <2>1, TelInOrder
<1>4. loc \in Objects /\ Holds(Memory, loc)
  BY <1>1, MobileFields
<1>5. InOrder(c)
  BY <1>2, <1>4, EnterInOrder
<1>6. ASSUME D PROVE InOrder(b)
  <2>1. ~IsGarbage(Memory, loc)
    BY <1>1, <1>4, OneKind
  <2>2. drop \in Objects
    BY <1>4, <1>6, <2>1, LeadsSomewhere
  <2>3. IsRoom(Memory, drop)
    BY <1>1, <1>4, <1>6, SoundLinked, MemoryFields DEF Location
  <2>4. Holds(Memory, drop)
    BY <1>1, <2>2, <2>3, OneKind
  <2> QED BY <1>2, <2>2, <2>4, EnterInOrder
<1> HIDE DEF a, b, c, S, D
<1>7. CASE S
  <2>1. Becomes(a)
    BY <1>2, <1>7
  <2> QED BY <1>3, <2>1, BecomesInOrder
<1>8. CASE ~S /\ D
  <2>1. Becomes(b)
    BY <1>2, <1>8
  <2> QED BY <1>6, <1>8, <2>1, BecomesInOrder
<1>9. CASE ~S /\ ~D
  <2>1. Becomes(c)
    BY <1>2, <1>9
  <2> QED BY <1>5, <2>1, BecomesInOrder
<1> QED BY <1>7, <1>8, <1>9

\* enter
LEMMA EnterCommandInOrder ==
  ASSUME InOrder(Memory), Homely, NEW p \in Enactors, NEW x \in Live, do_enter(p, x)
  PROVE  InOrder(Memory)'
<1>1. p \in Objects /\ Mobile(Memory, p) /\ Memory \in Memories
  BY EnactorFacts, SoundParts DEF InOrder
<1>2. x \in Objects /\ Mobile(Memory, x) /\ Becomes(safe_tel(Memory, p, x))
  BY LiveFacts DEF do_enter
<1>3. Holds(Memory, x)
  BY <1>1, <1>2, OneKind
<1>4. InOrder(safe_tel(Memory, p, x))
  BY <1>1, <1>2, <1>3, TelInOrder
<1> QED BY <1>2, <1>4, BecomesInOrder

\* leave
LEMMA LeaveInOrder ==
  ASSUME InOrder(Memory), NEW p \in Enactors, do_leave(p)
  PROVE  InOrder(Memory)'
<1> DEFINE loc == Location(p)
           out == Location(loc)
<1>1. p \in Objects /\ Mobile(Memory, p) /\ Sound(Memory, {}) /\ Memory \in Memories
  BY EnactorFacts, SoundParts DEF InOrder
<1>2. ~IsRoom(Memory, loc) /\ Becomes(enter_room(Memory, p, out))
  BY DEF do_leave
<1>3. loc \in Objects /\ Holds(Memory, loc)
  BY <1>1, MobileFields
<1>4. Mobile(Memory, loc)
  BY <1>1, <1>2, <1>3, OneKind
<1>5. out \in Objects /\ Holds(Memory, out)
  BY <1>1, <1>3, <1>4, MobileFields
<1>6. InOrder(enter_room(Memory, p, out))
  BY <1>1, <1>5, EnterInOrder
<1> QED BY <1>2, <1>6, BecomesInOrder

\* An exit gets another source.
LEMMA RelinkInOrder ==
  ASSUME InOrder(Memory), NEW x \in Objects, IsExit(Memory, x),
         NEW dest \in Objects, IsRoom(Memory, dest), ~Going(Memory, dest)
  PROVE  InOrder([clear_exit(Memory, x) EXCEPT !.db[x].home = dest,
                                               !.db[dest].exits = <<x>> \o @])
<1> DEFINE m == Memory
           N == {}
           K == {x}
           a == clear_exit(m, x)
           n == [a EXCEPT !.db[x].home = dest, !.db[dest].exits = <<x>> \o @]
<1> HIDE DEF N
<1>1. Sound(m, N) /\ InOrder(m) /\ m \in Memories
  BY SoundParts DEF InOrder, N
<1>2. K = N \cup {x}
  BY DEF N
<1> HIDE DEF m, K
<1>3. IsExit(m, x) /\ IsRoom(m, dest) /\ ~Going(m, dest)
  BY DEF m
<1>4. Sound(a, K) /\ Indoors(m, a) /\ Unhung(m, a, x)
  BY <1>1, <1>2, <1>3, ClearExitSound
<1> HIDE DEF a
<1>5. x # dest /\ ~IsPlayer(m, x) /\ ~IsRoom(m, x)
  BY <1>1, <1>3, OneKind
<1>6. \A o \in Objects : x \notin Range(a.db[o].exits)
  BY <1>4 DEF Unhung
<1>7. Hung(a, n, x, dest)
  BY <1>4, <1>5, <1>6, RelinkedHung
<1> HIDE DEF n
<1>8. \A o \in Objects : a.db[o].type = m.db[o].type /\ a.db[o].going = m.db[o].going
                         /\ a.db[o].home = m.db[o].home
  BY <1>4 DEF Indoors
<1>9. IsExit(a, x) /\ IsRoom(a, dest)
  BY <1>3, <1>8 DEF IsExit, IsRoom
<1>10. Sound(n, N)
  BY <1>4, <1>6, <1>7, <1>9, HungSound DEF K, N
<1>11. \A o \in Objects : o # x => /\ n.db[o].type = m.db[o].type
                                   /\ n.db[o].going = m.db[o].going
                                   /\ IsExit(m, o) => n.db[o].home = m.db[o].home
  BY <1>7, <1>8 DEF Hung
<1>12. ~Going(m, n.db[x].home)
  BY <1>3, <1>7 DEF Hung
<1> QED BY <1>1, <1>5, <1>10, <1>11, <1>12, ChangedInOrder DEF n, a, m, N

\* @tel
LEMMA TeleportInOrder ==
  ASSUME InOrder(Memory), Homely, NEW p \in Enactors, NEW x \in Live, NEW y \in Live,
         do_teleport_one(p, x, y)
  PROVE  InOrder(Memory)'
<1>0. x \in Objects /\ y \in Objects /\ ~IsGarbage(Memory, y) /\ Memory \in Memories
  BY LiveFacts, SoundParts DEF InOrder
<1>1. CASE /\ Movable(x) /\ ~IsExit(Memory, y)
           /\ Becomes(safe_tel(Memory, x, y))
  <2>1. Mobile(Memory, x) /\ Holds(Memory, y)
    BY <1>0, <1>1, MovableFacts, OneKind
  <2>2. InOrder(safe_tel(Memory, x, y))
    BY <1>0, <2>1, TelInOrder
  <2> QED BY <1>1, <2>2, BecomesInOrder
<1>2. CASE /\ IsExit(Memory, x) /\ IsRoom(Memory, y) /\ ~Going(Memory, y)
           /\ Becomes([clear_exit(Memory, x) EXCEPT !.db[x].home = y,
                                                    !.db[y].exits = <<x>> \o @])
  <2>1. InOrder([clear_exit(Memory, x) EXCEPT !.db[x].home = y, !.db[y].exits = <<x>> \o @])
    BY <1>0, <1>2, RelinkInOrder
  <2> QED BY <1>2, <2>1, BecomesInOrder
<1> QED BY <1>1, <1>2 DEF do_teleport_one

\* No command leaves the database in disorder.
LEMMA NextInOrder ==
  ASSUME InOrder(Memory), Homely, NoneLost, Next
  PROVE  InOrder(Memory)'
<1>1. CASE purge
  BY <1>1, PurgeInOrder
<1>2. CASE \E x \in Live : Login(x) \/ Logout(x)
  BY <1>2, LoginInOrder
<1>3. ASSUME NEW p \in Enactors,
             do_create(p) \/ do_dig(p) \/ do_real_open(p) \/ make_player(p)
             \/ GoHome(p) \/ do_leave(p)
      PROVE  InOrder(Memory)'
  BY <1>3, CreateInOrder, DigInOrder, OpenInOrder, MakePlayerInOrder, GoHomeInOrder, LeaveInOrder
<1>4. ASSUME NEW p \in Enactors, NEW x \in Live,
             do_destroy(p, x) \/ do_undestroy(p, x) \/ do_unlink(p, x)
             \/ do_move(p, x) \/ do_get(p, x) \/ do_drop(p, x) \/ do_enter(p, x)
      PROVE  InOrder(Memory)'
  BY <1>4, DestroyInOrder, UndestroyCommandInOrder, UnlinkInOrder, MoveInOrder, GetInOrder,
     DropInOrder, EnterCommandInOrder
<1>5. ASSUME NEW p \in Enactors, NEW l \in Live \X Live,
             do_link(p, l[1], l[2]) \/ do_chown(p, l[1], l[2]) \/ do_teleport_one(p, l[1], l[2])
      PROVE  InOrder(Memory)'
  <2>1. l[1] \in Live /\ l[2] \in Live
    OBVIOUS
  <2> QED BY <1>5, <2>1, LinkInOrder, ChownCommandInOrder, TeleportInOrder
<1> QED BY <1>1, <1>2, <1>3, <1>4, <1>5 DEF Next

\* The database the game starts with is in order.
LEMMA InitInOrder ==
  ASSUME Init
  PROVE  InOrder(Memory)
<1> DEFINE m == [db |-> Start, free |-> fix_free_list(Start)]
<1>1. Sound(m, {}) /\ DoorsDoomed(m) /\ ~Going(m, GOD)
  BY StartAssumption
<1>2. Memory = m
  BY DEF Init, Memory
<1> HIDE DEF m
<1>3. IsPlayer(m, GOD)
  BY <1>1, SoundParts
<1>4. Online(m)
  BY <1>1, <1>3, Names DEF Init, Online
<1> QED BY <1>1, <1>2, <1>4 DEF InOrder

\* A step that is no step.
LEMMA StutterInOrder ==
  ASSUME InOrder(Memory), UNCHANGED vars
  PROVE  InOrder(Memory)'
BY DEF vars, Memory, InOrder, Online, Sound, DoorsDoomed

\* Whatever is made, moved, linked, given away and destroyed, in whatever order:
\* the database stays in order while it is Homely and nobody is lost.
THEOREM AlwaysInOrder == Spec /\ []Homely /\ []NoneLost => []InOrder(Memory)
<1>1. Init => InOrder(Memory)
  BY InitInOrder
<1>2. InOrder(Memory) /\ Homely /\ NoneLost /\ [Next]_vars => InOrder(Memory)'
  BY NextInOrder, StutterInOrder
<1> QED BY <1>1, <1>2, PTL DEF Spec

-----------------------------------------------------------------------------
\* What that means.

\* Every field has a value of its type and only players are connected.
THEOREM AlwaysTypeOK == Spec /\ []Homely /\ []NoneLost => []TypeOK
<1>1. ASSUME InOrder(Memory) PROVE TypeOK
  <2>1. Memory \in Memories /\ \A x \in connected : IsPlayer(Memory, x)
    BY <1>1, SoundParts DEF InOrder, Online
  <2>2. db \in [Objects -> ObjectRecords] /\ first_free \in Seq(Objects)
    BY <2>1, MemoryFields DEF Memories
  <2> QED BY <2>1, <2>2 DEF TypeOK
<1> QED BY <1>1, AlwaysInOrder, PTL

\* No field names a destroyed object or one of a wrong type.
THEOREM AlwaysFieldsValid == Spec /\ []Homely /\ []NoneLost => []FieldsValid
<1>1. ASSUME InOrder(Memory) PROVE FieldsValid
  <2> DEFINE m == Memory
             N == {}
  <2> HIDE DEF N
  <2>0. Sound(m, N) /\ m \in Memories /\ m.db = db
    BY <1>1, SoundParts, MemoryFields DEF InOrder, N
  <2>1. Live = {o \in Objects : ~IsGarbage(m, o)}
    BY DEF Live
  <2> SUFFICES ASSUME NEW x \in Live
               PROVE  /\ IsPlayer(m, db[x].owner)
                      /\ Mobile(m, x) =>
                           db[x].location \in Live /\ db[x].home \in Live
                           /\ ~IsExit(m, db[x].location) /\ ~IsExit(m, db[x].home)
                      /\ IsExit(m, x) =>
                           db[x].location \in Live \cup {NOTHING} /\ IsRoom(m, db[x].home)
                      /\ IsRoom(m, x) =>
                           db[x].location = NOTHING \/ IsRoom(m, db[x].location)
    BY DEF FieldsValid
  <2> HIDE DEF m
  <2>2. x \in Objects /\ ~IsGarbage(m, x) /\ x \notin N
    BY <2>1 DEF N
  <2>3. db[x].location \in Objects \cup {NOTHING}
    BY <2>0, <2>2, Fields
  <2>4. IsPlayer(m, db[x].owner)
    BY <2>0, <2>2, SoundLinked
  <2>5. ASSUME Mobile(m, x)
        PROVE  /\ db[x].location \in Live /\ db[x].home \in Live
               /\ ~IsExit(m, db[x].location) /\ ~IsExit(m, db[x].home)
    <3>1. /\ db[x].location \in Objects /\ Holds(m, db[x].location)
          /\ db[x].home \in Objects /\ Holds(m, db[x].home)
      BY <2>0, <2>2, <2>5, SoundLinked
    <3> QED BY <2>0, <2>1, <3>1, OneKind
  <2>6. IsExit(m, x) => db[x].location \in Live \cup {NOTHING} /\ IsRoom(m, db[x].home)
    BY <2>0, <2>1, <2>2, <2>3, SoundLinked
  <2>7. IsRoom(m, x) => db[x].location = NOTHING \/ IsRoom(m, db[x].location)
    BY <2>0, <2>2, SoundLinked
  <2> QED BY <2>4, <2>5, <2>6, <2>7
<1> QED BY <1>1, AlwaysInOrder, PTL

\* The free list holds every destroyed object once and nothing else.
THEOREM AlwaysFreeListExact == Spec /\ []Homely /\ []NoneLost => []FreeListExact
<1>1. ASSUME InOrder(Memory) PROVE FreeListExact
  <2>1. IsInjective(Memory.free) /\ Range(Memory.free) = {x \in Objects : IsGarbage(Memory, x)}
    BY <1>1, SoundParts DEF InOrder
  <2>2. Objects \ Live = {x \in Objects : IsGarbage(Memory, x)}
    BY DEF Live
  <2> QED BY <2>1, <2>2, MemoryFields DEF FreeListExact
<1> QED BY <1>1, AlwaysInOrder, PTL

\* An exit of a room that is GOING is GOING too, at least as far.
THEOREM AlwaysExitsDoomed == Spec /\ []Homely /\ []NoneLost => []ExitsDoomed
<1>1. ASSUME InOrder(Memory) PROVE ExitsDoomed
  <2>1. \A x \in Objects : IsExit(Memory, x) => db[x].going >= db[db[x].home].going
    BY <1>1, MemoryFields DEF InOrder, DoorsDoomed
  <2> QED BY <2>1, LiveFacts DEF ExitsDoomed
<1> QED BY <1>1, AlwaysInOrder, PTL

\* A purge destroys only what it found GOING_TWICE, what a GOING_TWICE player
\* owned, and the exits of his rooms.
THEOREM OnlyLatePurged == Spec /\ []Homely /\ []NoneLost => PurgedLate
<1>1. ASSUME InOrder(Memory), NoneLost, purge, NEW x \in Live, db'[x].type = "GARBAGE"
      PROVE  Due(x)
  <2> DEFINE n == Purged(Memory)
  <2>1. db' = n.db
    BY <1>1 DEF purge, Becomes
  <2>2. \A o \in Objects : IsGarbage(n, o) => IsGarbage(Memory, o) \/ DueIn(Memory, o)
    BY <1>1, PurgedFacts DEF InOrder, NoneLost
  <2> HIDE DEF n
  <2>3. x \in Objects /\ ~IsGarbage(Memory, x)
    BY LiveFacts
  <2>4. IsGarbage(n, x)
    BY <1>1, <2>1 DEF IsGarbage
  <2>5. DueIn(Memory, x)
    BY <2>2, <2>3, <2>4
  <2> QED BY <2>5, MemoryFields DEF DueIn, Due, Owner
<1>2. InOrder(Memory) /\ NoneLost =>
        [(\E x \in Live : db'[x].type = "GARBAGE" /\ ~Due(x)) => ~purge]_vars
  BY <1>1
<1> QED BY <1>2, AlwaysInOrder, PTL DEF PurgedLate

\* It stands once on one list, and on no other.
LEMMA StandsOnce ==
  ASSUME NEW list \in [Objects -> Seq(Objects)], \A o \in Objects : IsInjective(list[o]),
         NEW x, NEW at \in Objects, x \in Range(list[at]),
         \A o \in Objects : x \in Range(list[o]) => o = at
  PROVE  Cardinality(Standing(list, x)) = 1
<1>1. PICK k \in DOMAIN list[at] : list[at][k] = x
  BY DEF Range
<1>2. Standing(list, x) = {<<at, k>>}
  <2>1. <<at, k>> \in Standing(list, x)
    BY <1>1 DEF Standing
  <2>2. ASSUME NEW p \in Standing(list, x) PROVE p = <<at, k>>
    <3>1. PICK o \in Objects : \E n \in DOMAIN list[o] : list[o][n] = x /\ p = <<o, n>>
      BY DEF Standing
    <3>2. PICK n \in DOMAIN list[o] : list[o][n] = x /\ p = <<o, n>>
      BY <3>1
    <3>3. o = at
      BY <3>2 DEF Range
    <3>4. n = k
      BY <1>1, <3>2, <3>3 DEF IsInjective
    <3> QED BY <3>2, <3>3, <3>4
  <2> QED BY <2>1, <2>2
<1> QED BY <1>2, FS_Singleton

\* It stands on no list.
LEMMA StandsNowhere ==
  ASSUME NEW list \in [Objects -> Seq(Objects)], NEW x,
         \A o \in Objects : x \notin Range(list[o])
  PROVE  Cardinality(Standing(list, x)) = 0
<1>1. ASSUME NEW p \in Standing(list, x) PROVE FALSE
  <2>1. \E o \in Objects : \E n \in DOMAIN list[o] : list[o][n] = x
    BY DEF Standing
  <2> QED BY <2>1 DEF Range
<1>2. Standing(list, x) = {}
  BY <1>1
<1> QED BY <1>2, FS_EmptySet

\* "For every thing, player, and exit, you can trace exactly one path to that
\* object from a room": each is on one list, that of where it says it is, and
\* following locations ends in a room; nothing else is on any list.
THEOREM AlwaysTraceable == Spec /\ []Homely /\ []NoneLost => []Traceable
<1>1. ASSUME InOrder(Memory) PROVE Traceable
  <2> DEFINE m == Memory
             N == {}
             C == [o \in Objects |-> db[o].contents]
             E == [o \in Objects |-> db[o].exits]
  <2> HIDE DEF N
  <2>0. Sound(m, N) /\ m \in Memories /\ m.db = db /\ Rooted(m) /\ AllLinked(m, N)
    BY <1>1, SoundParts, MemoryFields DEF InOrder, N
  <2>1. ASSUME NEW x \in Objects
        PROVE  Listings(x) = Cardinality(Standing(C, x)) + Cardinality(Standing(E, x))
    BY DEF Listings
  <2> HIDE DEF m
  <2>2. /\ C \in [Objects -> Seq(Objects)] /\ \A o \in Objects : IsInjective(C[o])
        /\ E \in [Objects -> Seq(Objects)] /\ \A o \in Objects : IsInjective(E[o])
    BY <2>0, Fields, SoundListed
  <2>3. \A o \in Objects : /\ C[o] = db[o].contents /\ E[o] = db[o].exits
                           /\ \A y \in Range(C[o]) : Mobile(m, y) /\ db[y].location = o
                           /\ \A y \in Range(E[o]) : IsExit(m, y) /\ db[y].home = o
    BY <2>0, SoundListed
  <2> HIDE DEF C, E
  <2>4. ASSUME NEW x \in Objects, Mobile(m, x)
        PROVE  /\ Listings(x) = 1 /\ Location(x) # NOTHING
               /\ x \in Range(db[Location(x)].contents)
               /\ Around(m, x)[DbTop] = NOTHING
    <3>1. ~IsExit(m, x) /\ x \notin N
      BY <2>0, <2>4, OneKind DEF N
    <3>2. Location(x) \in Objects /\ x \in Range(db[Location(x)].contents)
      BY <2>0, <2>4, <3>1, SoundLinked, SoundListed DEF Location
    <3>3. Cardinality(Standing(C, x)) = 1
      <4>1. x \in Range(C[Location(x)]) /\ \A o \in Objects : x \in Range(C[o]) => o = Location(x)
        BY <2>3, <3>2 DEF Location
      <4> QED BY <2>2, <3>2, <4>1, StandsOnce
    <3>4. Cardinality(Standing(E, x)) = 0
      BY <2>2, <2>3, <3>1, StandsNowhere
    <3>5. Around(m, x)[DbTop] = NOTHING
      BY <2>0, <3>1, ChainEnds
    <3> QED BY <2>1, <3>2, <3>3, <3>4, <3>5, Names
  <2>5. ASSUME NEW x \in Objects, IsExit(m, x)
        PROVE  Listings(x) = 1 /\ x \in Range(db[db[x].home].exits)
    <3>1. ~Mobile(m, x) /\ x \notin N
      BY <2>0, <2>5, OneKind DEF N
    <3>2. db[x].home \in Objects /\ x \in Range(db[db[x].home].exits)
      BY <2>0, <2>5, <3>1, SoundLinked, SoundListed
    <3>3. Cardinality(Standing(E, x)) = 1
      <4>1. x \in Range(E[db[x].home]) /\ \A o \in Objects : x \in Range(E[o]) => o = db[x].home
        BY <2>3, <3>2
      <4> QED BY <2>2, <3>2, <4>1, StandsOnce
    <3>4. Cardinality(Standing(C, x)) = 0
      BY <2>2, <2>3, <3>1, StandsNowhere
    <3> QED BY <2>1, <3>2, <3>3, <3>4
  <2>6. ASSUME NEW x \in Objects, ~Mobile(m, x), ~IsExit(m, x) PROVE Listings(x) = 0
    <3>1. Cardinality(Standing(C, x)) = 0
      BY <2>2, <2>3, <2>6, StandsNowhere
    <3>2. Cardinality(Standing(E, x)) = 0
      BY <2>2, <2>3, <2>6, StandsNowhere
    <3> QED BY <2>1, <3>1, <3>2
  <2>7. \A x \in Objects : Mobile(m, x) => ~IsExit(m, x)
    BY <2>0, OneKind
  <2> QED BY <2>4, <2>5, <2>6, <2>7 DEF Traceable, m
<1> QED BY <1>1, AlwaysInOrder, PTL

\* Without STICKY objects, and when possessions are given away, there is nothing
\* to assume.
THEOREM NothingAssumed ==
  ASSUME Sticky = {}, ~DESTROY_POSSESSIONS
  PROVE  Spec => []InOrder(Memory)
<1>1. Homely
  BY DEF Homely, HomelyAt
<1>2. NoneLost
  BY DEF NoneLost, LosslessPurge
<1> QED BY <1>1, <1>2, AlwaysInOrder, PTL

=============================================================================
