------------------------------- MODULE World --------------------------------
(***************************************************************************)
(* The object database: how objects are made, moved, linked, given away    *)
(* and destroyed (src/destroy.c, move.c, create.c, set.c, wiz.c).          *)
(*                                                                         *)
(* Where an object is, is kept twice: in its location field and on the     *)
(* contents list of that location (an exit: in its source and on the exits *)
(* list of that room), and destroying one object moves, relinks, gives     *)
(* away or destroys others.  The operators that follow the functions of    *)
(* the source take the memory m, the objects and the free list, and return *)
(* what the function leaves; a list threaded through next is a sequence.   *)
(*                                                                         *)
(* Locks, power and flags that only say who may do something pass; the     *)
(* flags SAFE and STICKY stay as the constants give them.  Money, quotas,  *)
(* zones, parents, attributes and messages are left out.                   *)
(***************************************************************************)
EXTENDS Integers, SequencesExt, FiniteSetsExt

CONSTANTS
    DbTop,                  \* objects in the database, a bound
    GOD,                    \* also the probate judge
    DEFAULT_HOME,           \* also the player start
    Start,                  \* the objects of the database the game is given
    Safe, Sticky,           \* objects with that flag
    Acting, Settled,        \* who gives commands and whom nobody moves,
    Links, Gifts, Tels,     \* pairs @link, @chown and @tel are given, and
    Makes,                  \* what a free dbref is made into: bounds
    DESTROY_POSSESSIONS, REALLY_SAFE

NOTHING == -1
Objects == 0..(DbTop - 1)

ASSUME DbAssumption ==
    DbTop \in Nat /\ GOD \in Objects /\ DEFAULT_HOME \in Objects
ASSUME FlagsAssumption ==
    /\ Safe \subseteq Objects /\ Sticky \subseteq Objects
    /\ Acting \subseteq Objects /\ Settled \subseteq Objects
    /\ Links \cup Gifts \cup Tels \subseteq Objects \X Objects
    /\ Makes \subseteq Objects \X {"ROOM", "THING", "EXIT", "PLAYER"}
    /\ {DESTROY_POSSESSIONS, REALLY_SAFE} \subseteq BOOLEAN

\* home is the source of an exit, location its destination or the dropto of
\* a room; going is 1 with GOING and 2 with GOING_TWICE.
ObjectRecords ==
    [type : {"ROOM", "THING", "EXIT", "PLAYER", "GARBAGE"},
     owner : Objects, location : Objects \cup {NOTHING},
     home : Objects \cup {NOTHING}, going : 0..2,
     contents : Seq(Objects), exits : Seq(Objects)]

Garbage == [type |-> "GARBAGE", owner |-> GOD, location |-> NOTHING, home |-> NOTHING,
            going |-> 0, contents |-> <<>>, exits |-> <<>>]

\* What the functions of the source work on.
Memories == [db : [Objects -> ObjectRecords], free : Seq(Objects)]

VARIABLES
    db,
    first_free,             \* the free list
    connected               \* players who are connected, God always is

vars == <<db, first_free, connected>>

Memory == [db |-> db, free |-> first_free]

IsRoom(m, x) == m.db[x].type = "ROOM"
IsExit(m, x) == m.db[x].type = "EXIT"
IsPlayer(m, x) == m.db[x].type = "PLAYER"
IsThing(m, x) == m.db[x].type = "THING"
IsGarbage(m, x) == m.db[x].type = "GARBAGE"
Mobile(m, x) == m.db[x].type \in {"PLAYER", "THING"}
Going(m, x) == m.db[x].going > 0

special_object(x) == x \in {GOD, DEFAULT_HOME}

\* Does who control what, no zones, control locks or wizards besides God.
controls(who, what) ==
    /\ what \in Objects
    /\ what # who =>
         /\ what # GOD
         /\ who # GOD => /\ db[who].owner = db[what].owner
                         /\ IsPlayer(Memory, what) => IsPlayer(Memory, who)

----------------------------------------------------------------------------
\* Moving.

\* The location of x, that location's location and so on, to a room.
Around(m, x) ==
    LET up[n \in 0..DbTop] ==
            IF n = 0 THEN x
            ELSE LET at == up[n - 1]
                 IN IF at = NOTHING \/ IsRoom(m, at) THEN NOTHING ELSE m.db[at].location
    IN up

\* Is x inside from?  The code gives up, and says yes, after 50 levels.
recursive_member(m, x, from) ==
    LET up == Around(m, x)
    IN up[DbTop] # NOTHING \/ (~IsRoom(m, from) /\ \E n \in 0..DbTop : up[n] = from)

\* Contents(where) without what.
Detached(m, what, where) ==
    IF where = NOTHING THEN m ELSE [m EXCEPT !.db[where].contents = RemoveFirst(@, what)]

\* PUSH(what, Contents(where)) and Location(what) = where
Placed(m, what, where) ==
    [m EXCEPT !.db[where].contents = <<what>> \o @, !.db[what].location = where]

moveit(m, what, where) == Placed(Detached(m, what, m.db[what].location), what, where)

CanEnter(m, x, loc) ==
    /\ Mobile(m, x)
    /\ ~IsExit(m, loc)
    /\ loc # x
    /\ ~recursive_member(m, loc, x)

\* enter_room when the mover leaves no STICKY dropto behind.
Entered(m, x, loc) == IF CanEnter(m, x, loc) THEN moveit(m, x, loc) ELSE m

\* Only players listen here.
Dropper(m, x) == IsPlayer(m, x) /\ x \in connected

\* STICKY items go home, the others to dest.
Sent(m, first, dest) ==
    IF Dropper(m, first) THEN m
    ELSE Entered(m, first, IF first \in Sticky THEN m.db[first].home ELSE dest)

send_contents(m, loc, dest) ==
    LET items == m.db[loc].contents
        sent[n \in 0..Len(items)] ==
            IF n = 0 THEN m ELSE Sent(sent[n - 1], items[n], dest)
    IN sent[Len(items)]

maybe_dropto(m, loc, dropto) ==
    IF loc = dropto \/ \E x \in Range(m.db[loc].contents) : Dropper(m, x) THEN m
    ELSE send_contents(m, loc, dropto)

enter_room(m, x, loc) ==
    LET old == m.db[x].location
        moved == Entered(m, x, loc)
    IN IF /\ CanEnter(m, x, loc) /\ loc # old /\ Dropper(m, x)
          /\ old # NOTHING /\ IsRoom(m, old)
          /\ m.db[old].location # NOTHING /\ old \in Sticky
       THEN maybe_dropto(moved, old, m.db[old].location)
       ELSE moved

\* Take every item out of x: Contents(x) = NOTHING, Location(item) = NOTHING
Blasted(m, x) ==
    LET items == Range(m.db[x].contents)
    IN [m EXCEPT !.db = [o \in Objects |->
            IF o = x THEN [@[o] EXCEPT !.contents = <<>>]
            ELSE IF o \in items THEN [@[o] EXCEPT !.location = NOTHING]
            ELSE @[o]]]

\* Items that are STICKY and not x's own go home.
Carried(m, i, x) ==
    IF ~controls(x, i) /\ i \in Sticky /\ m.db[i].home # x
    THEN enter_room(m, i, m.db[i].home)
    ELSE [m EXCEPT !.db[x].contents = Append(@, i), !.db[i].location = x]

safe_tel(m, x, dest) ==
    LET items == m.db[x].contents
        carried[n \in 0..Len(items)] ==
            IF n = 0 THEN Blasted(m, x) ELSE Carried(carried[n - 1], items[n], x)
        loc == m.db[x].location
    IN IF loc # NOTHING /\ m.db[loc].owner = m.db[dest].owner
       THEN enter_room(m, x, dest)
       ELSE enter_room(carried[Len(items)], x, dest)

----------------------------------------------------------------------------
\* Marking for destruction and sparing.

\* What pre_destroy(x) sets GOING: a room takes its exits along, a player his
\* possessions (the loop asks whether the player himself is SAFE), unless
\* they are GOING already.
Doomed(m, x) ==
    LET Fresh == {o \in Objects : ~IsGarbage(m, o) /\ ~Going(m, o)}
        Drags(o) ==
            CASE IsRoom(m, o) -> Range(m.db[o].exits)
              [] IsPlayer(m, o) /\ DESTROY_POSSESSIONS /\ (REALLY_SAFE => o \notin Safe) ->
                     {p \in Objects : m.db[p].owner = o}
              [] OTHER -> {}
        Closed(S) == \A o \in S : Drags(o) \cap Fresh \subseteq S
    IN {o \in Fresh : \A S \in SUBSET Fresh : x \in S /\ o \notin S => ~Closed(S)}

pre_destroy(m, x) ==
    LET doomed == Doomed(m, x)
    IN [m EXCEPT !.db = [o \in Objects |->
            IF o \in doomed THEN [@[o] EXCEPT !.going = 1] ELSE @[o]]]

\* What undestroy(x) spares: the owner; of a player what he owns, but not an
\* exit of someone else's GOING room; the room of an exit; of a room the exits
\* that no GOING player owns.
Spared(m, x) ==
    LET Marked == {o \in Objects : ~IsGarbage(m, o) /\ Going(m, o)}
        Owner(o) == m.db[o].owner
        Source(o) == m.db[o].home
        Saves(o, S) ==
            {Owner(o)} \cup
            CASE IsPlayer(m, o) /\ DESTROY_POSSESSIONS ->
                     {p \in Objects : Owner(p) = o /\
                         (IsExit(m, p) /\ Owner(Source(p)) # o => Source(p) \notin Marked \ S)}
              [] IsExit(m, o) -> {Source(o)}
              [] IsRoom(m, o) ->
                     {e \in Range(m.db[o].exits) :
                         DESTROY_POSSESSIONS => (Owner(e) \notin Marked \ S \/ e \in Safe)}
              [] OTHER -> {}
        Closed(S) == \A o \in S : Saves(o, S) \cap Marked \subseteq S
    IN {o \in Marked : \A S \in SUBSET Marked : x \in S /\ o \notin S => ~Closed(S)}

undestroy(m, x) ==
    LET spared == IF Going(m, x) THEN Spared(m, x) ELSE {}
    IN [m EXCEPT !.db = [o \in Objects |->
            IF o \in spared THEN [@[o] EXCEPT !.going = 0] ELSE @[o]]]

chown_object(m, x, newowner) == [undestroy(m, x) EXCEPT !.db[x].owner = newowner]

----------------------------------------------------------------------------
\* Destroying.

\* Mutant: homes in a destroyed object are left alone.
Rehoused_home(m, i, x) ==
    IF m.db[i].location # x THEN m
    ELSE IF Mobile(m, i) THEN enter_room(m, i, DEFAULT_HOME)
    ELSE IF IsExit(m, i) THEN [m EXCEPT !.db[i].location = m.db[i].home]
    ELSE [m EXCEPT !.db[i].location = NOTHING]

\* The fields of i that refer to x when free_object comes to it.
Rehoused(m, i, x) ==
    LET h == IF Mobile(m, i) /\ m.db[i].home = x
             THEN [m EXCEPT !.db[i].home = DEFAULT_HOME] ELSE m
    IN IF h.db[i].location # x THEN h
       ELSE IF Mobile(h, i) THEN enter_room(h, i, h.db[i].home)
       ELSE IF IsExit(h, i) THEN [h EXCEPT !.db[i].location = h.db[i].home]
       ELSE [h EXCEPT !.db[i].location = NOTHING]

\* Next(i) = NOTHING when it is x: a contents list that has x behind i ends with
\* i.  Only a player who was in something of his own is on a list by then.
Severed(m, i, x) ==
    LET at == m.db[i].location
        list == m.db[at].contents
    IN IF /\ Mobile(m, i) /\ at # NOTHING
          /\ \E n \in 2..Len(list) : list[n - 1] = i /\ list[n] = x
       THEN [m EXCEPT !.db[at].contents = SubSeq(@, 1, CHOOSE n \in DOMAIN @ : @[n] = i)]
       ELSE m

\* What still refers to x when free_object comes to object i.
Unlinked(m, i, x) == Severed(Rehoused(m, i, x), i, x)

\* The loop over the database, in the order of the dbrefs.
AllUnlinked(m, x) ==
    LET unlinked[n \in 0..DbTop] ==
            IF n = 0 THEN m ELSE Unlinked(unlinked[n - 1], n - 1, x)
    IN unlinked[DbTop]

\* Mutant: trusts that the clear functions have taken x off every list.
Reclaimed_once(m, x) ==
    LET u == AllUnlinked(m, x)
    IN [db |-> [u.db EXCEPT ![x] = [Garbage EXCEPT !.contents = u.db[x].contents]],
        free |-> <<x>> \o u.free]

\* What free_object does when nothing refers to x any more.
Discarded(m, x) ==
    LET o == m.db[x]
        v == IF Mobile(m, x) THEN Detached(m, x, o.location)
             ELSE IF IsExit(m, x) /\ o.home # NOTHING
             THEN [m EXCEPT !.db[o.home].exits = RemoveFirst(@, x)]
             ELSE m
    IN [db |-> [v.db EXCEPT ![x] = [Garbage EXCEPT !.contents = v.db[x].contents]],
        free |-> <<x>> \o v.free]

\* The rest of free_object once the type's clear function has run.
Reclaimed(m, x) == Discarded(AllUnlinked(m, x), x)

\* Where i goes when x is emptied, its home from then on.
Refuge(m, i, x) ==
    LET h == m.db[i].home
    IN IF h = NOTHING \/ h = x THEN DEFAULT_HOME
       ELSE IF IsExit(m, h) THEN DEFAULT_HOME ELSE h

Evicted(m, i, x) ==
    LET h == Refuge(m, i, x)
        a == [m EXCEPT !.db[i].home = h]
    IN enter_room(a, i, IF recursive_member(a, h, i) THEN DEFAULT_HOME ELSE h)

\* Everything in x goes home, or to DEFAULT_HOME when it cannot.
empty_contents(m, x) ==
    LET items == m.db[x].contents
        emptied[n \in 0..Len(items)] ==
            IF n = 0 THEN Blasted(m, x) ELSE Evicted(emptied[n - 1], items[n], x)
    IN emptied[Len(items)]

clear_thing(m, x) == empty_contents(Detached(m, x, m.db[x].location), x)

clear_exit(m, x) == [m EXCEPT !.db[m.db[x].home].exits = RemoveFirst(@, x)]

\* Exits(x) = NOTHING, and the exits lead nowhere.
Shut(m, x) ==
    LET doors == Range(m.db[x].exits)
    IN [m EXCEPT !.db = [o \in Objects |->
            IF o = x THEN [@[o] EXCEPT !.exits = <<>>]
            ELSE IF o \in doors THEN [@[o] EXCEPT !.location = NOTHING]
            ELSE @[o]]]

clear_room(m, x) ==
    LET emptied == empty_contents(m, x)
        doors == emptied.db[x].exits
        freed[n \in 0..Len(doors)] ==
            IF n = 0 THEN Shut(emptied, x)
            ELSE Reclaimed(clear_exit(freed[n - 1], doors[n]), doors[n])
    IN freed[Len(doors)]

\* free_object for what a player can own.
FreedPossession(m, x) ==
    Reclaimed(CASE IsThing(m, x) -> clear_thing(m, x)
                [] IsExit(m, x) -> clear_exit(m, x)
                [] IsRoom(m, x) -> clear_room(m, x), x)

\* SAFE and special possessions go to the probate judge.
Probated(x) == special_object(x) \/ (DESTROY_POSSESSIONS => REALLY_SAFE /\ x \in Safe)

\* Object i when the possessions of x are handled.
Bequeathed(m, i, x) ==
    IF m.db[i].owner # x \/ i = x THEN m
    ELSE IF Probated(i) THEN chown_object(m, i, GOD)
    ELSE FreedPossession(m, i)

clear_player(m, x) ==
    LET left[n \in 0..DbTop] ==
            IF n = 0 THEN clear_thing(m, x) ELSE Bequeathed(left[n - 1], n - 1, x)
    IN left[DbTop]

free_object(m, x) ==
    IF IsPlayer(m, x) THEN Reclaimed(clear_player(m, x), x) ELSE FreedPossession(m, x)

\* Mutant: the first purge destroys.
PurgeOne_first(m, x) ==
    CASE ~Going(m, x) -> m
      [] Going(m, x) /\ special_object(x) -> undestroy(m, x)
      [] OTHER -> free_object(m, x)

\* One object's turn in purge().
PurgeOne(m, x) ==
    CASE ~Going(m, x) -> m
      [] m.db[x].going = 1 -> [m EXCEPT !.db[x].going = 2]
      [] m.db[x].going = 2 /\ special_object(x) -> undestroy(m, x)
      [] OTHER -> free_object(m, x)

\* purge() goes through the database: what it has made of it at object n.
PurgedTo(m) ==
    LET purged[n \in 0..DbTop] == IF n = 0 THEN m ELSE PurgeOne(purged[n - 1], n - 1)
    IN purged

Purged(m) == PurgedTo(m)[DbTop]

----------------------------------------------------------------------------
\* A database in order.

\* An object that can have contents.
Holds(m, x) == x \in Objects /\ m.db[x].type \in {"ROOM", "THING", "PLAYER"}

\* Only players own, and themselves; fields name objects of the right type.
\* Objects in limbo may be on no list, and a player or thing there nowhere.
Linked(m, x, limbo) ==
    LET o == m.db[x]
    IN /\ IsGarbage(m, x) => o = Garbage
       /\ ~IsGarbage(m, x) => IsPlayer(m, o.owner)
       /\ IsPlayer(m, x) => o.owner = x
       /\ Mobile(m, x) =>
            /\ Holds(m, o.home) /\ o.home # x
            /\ o.location # NOTHING => ~IsExit(m, o.location)
            /\ x \notin limbo => Holds(m, o.location)
       /\ IsExit(m, x) =>
            /\ o.home # NOTHING /\ IsRoom(m, o.home)
            /\ o.location # NOTHING => ~IsGarbage(m, o.location)
       /\ IsRoom(m, x) /\ o.location # NOTHING => IsRoom(m, o.location)

\* What is on a list says that it is there, and the other way round.
Listed(m, x, limbo) ==
    LET o == m.db[x]
    IN /\ IsInjective(o.contents) /\ IsInjective(o.exits)
       /\ \A y \in Range(o.contents) : Mobile(m, y) /\ m.db[y].location = x
       /\ \A y \in Range(o.exits) : IsExit(m, y) /\ m.db[y].home = x
       /\ x \notin limbo =>
            /\ Mobile(m, x) => x \in Range(m.db[o.location].contents)
            /\ IsExit(m, x) => x \in Range(m.db[o.home].exits)

\* Nothing is inside itself: no players and things are all inside each other.
Rooted(m) ==
    \A S \in SUBSET Objects :
        S # {} /\ (\A y \in S : Mobile(m, y)) => \E y \in S : m.db[y].location \notin S

Sound(m, limbo) ==
    /\ m \in Memories
    /\ IsPlayer(m, GOD) /\ IsRoom(m, DEFAULT_HOME)
    /\ \A x \in Objects : Linked(m, x, limbo) /\ Listed(m, x, limbo)
    /\ Rooted(m)
    /\ IsInjective(m.free)
    /\ Range(m.free) = {x \in Objects : IsGarbage(m, x)}

\* An exit of a room that is GOING is GOING too, at least as far.
DoorsDoomed(m) ==
    \A x \in Objects : IsExit(m, x) => m.db[x].going >= m.db[m.db[x].home].going

\* Next(x) = first_free for a destroyed object.
Threaded(objects, list, x) == IF objects[x].type = "GARBAGE" THEN <<x>> \o list ELSE list

\* The free list of a database that has been read, the last object first.
fix_free_list(objects) ==
    LET list[n \in 0..DbTop] ==
            IF n = 0 THEN <<>> ELSE Threaded(objects, list[n - 1], n - 1)
    IN list[DbTop]

\* The database is one the game has saved, and after it has read it, it runs
\* fix_free_list() and dbck(), which repairs what is not in order.
ASSUME StartAssumption ==
    LET start == [db |-> Start, free |-> fix_free_list(Start)]
    IN /\ Sound(start, {})
       /\ DoorsDoomed(start)
       /\ ~Going(start, GOD)

----------------------------------------------------------------------------
\* Commands.  The enactor may be any object that can move, a thing runs its
\* queue entries too.

Becomes(m) == db' = m.db /\ first_free' = m.free /\ UNCHANGED connected

Live == {x \in Objects : ~IsGarbage(Memory, x)}
Enactors == {x \in Live \cap Acting : Mobile(Memory, x)}
Location(x) == db[x].location
Owner(x) == db[x].owner

\* Mutant: a player who is connected can be destroyed.
what_to_destroy_connected(player) ==
    {x \in Live :
        /\ \/ controls(player, x)
           \/ /\ IsExit(Memory, x)
              /\ controls(player, Location(x)) \/ controls(player, db[x].home)
        /\ ~special_object(x)
        /\ REALLY_SAFE => x \notin Safe
        /\ IsPlayer(Memory, x) => player = GOD}

\* @nuke: anything that is not SAFE, a player only when God says so and he
\* is not connected.
what_to_destroy(player) ==
    {x \in Live :
        /\ \/ controls(player, x)
           \/ /\ IsExit(Memory, x)
              /\ controls(player, Location(x)) \/ controls(player, db[x].home)
        /\ ~special_object(x)
        /\ REALLY_SAFE => x \notin Safe
        /\ IsPlayer(Memory, x) => player = GOD /\ x \notin connected}

do_destroy(player, x) ==
    /\ x \in what_to_destroy(player)
    /\ Becomes(IF Going(Memory, x) THEN free_object(Memory, x) ELSE pre_destroy(Memory, x))

do_undestroy(player, x) ==
    /\ controls(player, x)
    /\ Going(Memory, x)
    /\ Becomes(undestroy(Memory, x))

purge == Becomes(Purged(Memory))

\* God may ask for one of the free dbrefs.
make_first_free(player, type) ==
    {x \in Range(first_free) :
        <<x, type>> \in Makes /\ (x = Head(first_free) \/ player = GOD)}

\* Mutant: the first free object is dropped from the list, not the one asked for.
Allocated_head(x, o) == [db |-> [db EXCEPT ![x] = o], free |-> Tail(first_free)]

\* new_object() for x once it is first, and what its caller sets.
Allocated(x, o) == [db |-> [db EXCEPT ![x] = o], free |-> RemoveFirst(first_free, x)]

do_create(player) ==
    \E x \in make_first_free(player, "THING") :
        LET loc == Location(player)
            home == IF loc # NOTHING /\ controls(player, loc) THEN loc ELSE db[player].home
            thing == [Garbage EXCEPT !.type = "THING", !.owner = Owner(player),
                                     !.location = player, !.home = home]
        IN Becomes(Placed(Allocated(x, thing), x, player))

do_dig(player) ==
    \E x \in make_first_free(player, "ROOM") :
        Becomes(Allocated(x, [Garbage EXCEPT !.type = "ROOM", !.owner = Owner(player)]))

\* Mutant: opens exits in a room that is being destroyed.
do_real_open_going(player) ==
    LET loc == Location(player)
    IN /\ loc # NOTHING /\ IsRoom(Memory, loc)
       /\ controls(player, loc)
       /\ \E x \in make_first_free(player, "EXIT") :
            LET door == [Garbage EXCEPT !.type = "EXIT", !.owner = Owner(player), !.home = loc]
                made == Allocated(x, door)
            IN Becomes([made EXCEPT !.db[loc].exits = <<x>> \o @])

\* An exit of the room the enactor is in, unlinked.
do_real_open(player) ==
    LET loc == Location(player)
    IN /\ loc # NOTHING /\ IsRoom(Memory, loc)
       /\ ~Going(Memory, loc)
       /\ controls(player, loc)
       /\ \E x \in make_first_free(player, "EXIT") :
            LET door == [Garbage EXCEPT !.type = "EXIT", !.owner = Owner(player), !.home = loc]
                made == Allocated(x, door)
            IN Becomes([made EXCEPT !.db[loc].exits = <<x>> \o @])

make_player(player) ==
    \E x \in make_first_free(player, "PLAYER") :
        LET p == [Garbage EXCEPT !.type = "PLAYER", !.owner = x, !.home = DEFAULT_HOME]
        IN Becomes(Placed(Allocated(x, p), x, DEFAULT_HOME))

\* @link of an exit: anyone takes over one that is unlinked.
LinkExit(player, x, dest) ==
    /\ IsExit(Memory, x)
    /\ controls(player, dest) /\ ~Going(Memory, dest)
    /\ ~controls(player, x) => Location(x) = NOTHING
    /\ LET taken == IF Owner(x) = Owner(player) THEN Memory
                    ELSE chown_object(Memory, x, Owner(player))
       IN Becomes([taken EXCEPT !.db[x].location = dest])

\* @link of a player or thing sets its home.
LinkHome(player, x, home) ==
    /\ Mobile(Memory, x)
    /\ ~IsExit(Memory, home) /\ home # x
    /\ controls(player, home) /\ controls(player, x)
    /\ Becomes([Memory EXCEPT !.db[x].home = home])

\* @link of a room sets its dropto.
LinkDropto(player, x, dropto) ==
    /\ IsRoom(Memory, x) /\ IsRoom(Memory, dropto)
    /\ controls(player, dropto) /\ ~Going(Memory, dropto)
    /\ controls(player, x)
    /\ Becomes([Memory EXCEPT !.db[x].location = dropto])

do_link(player, x, dest) ==
    LinkExit(player, x, dest) \/ LinkHome(player, x, dest) \/ LinkDropto(player, x, dest)

do_unlink(player, x) ==
    /\ ~Mobile(Memory, x)
    /\ controls(player, x)
    /\ Becomes([Memory EXCEPT !.db[x].location = NOTHING])

\* God gives to anyone, others take again what they own (and hold).
do_chown(player, x, newowner) ==
    /\ ~IsPlayer(Memory, x) /\ IsPlayer(Memory, newowner)
    /\ player # GOD =>
          /\ controls(player, newowner) /\ Owner(x) = Owner(player)
          /\ IsThing(Memory, x) => Location(x) = player
    /\ Becomes(chown_object(Memory, x, newowner))

Movable(x) == Mobile(Memory, x) /\ x \notin Settled

GoHome(player) ==
    /\ Movable(player)
    /\ ~recursive_member(Memory, db[player].home, player)
    /\ Becomes(safe_tel(Memory, player, db[player].home))

\* Through an exit of the room the enactor is in.
do_move(player, door) ==
    /\ Movable(player)
    /\ IsExit(Memory, door) /\ db[door].home = Location(player)
    /\ LET dest == Location(door)
       IN /\ dest # NOTHING
          /\ ~IsExit(Memory, dest)
          /\ ~recursive_member(Memory, dest, player)
          /\ Becomes(IF IsRoom(Memory, dest) THEN enter_room(Memory, player, dest)
                     ELSE safe_tel(Memory, player, dest))

do_get(player, x) ==
    LET loc == Location(player)
    IN /\ Movable(x) /\ x # player
       /\ Location(x) = loc
       /\ ~IsRoom(Memory, loc) => controls(player, loc)
       /\ ~recursive_member(Memory, player, x)
       /\ Becomes(enter_room(Memory, x, player))

do_drop(player, x) ==
    LET loc == Location(player)
    IN /\ Movable(x) /\ Location(x) = player /\ loc # NOTHING
       /\ Becomes(IF x \in Sticky THEN safe_tel(Memory, x, db[x].home)
                  ELSE IF Location(loc) # NOTHING /\ IsRoom(Memory, loc) /\ loc \notin Sticky
                  THEN enter_room(Memory, x, Location(loc))
                  ELSE enter_room(Memory, x, loc))

do_enter(player, x) ==
    /\ Movable(player) /\ Mobile(Memory, x) /\ x # player
    /\ player # GOD => Location(x) = Location(player)
    /\ controls(player, x)
    /\ Becomes(safe_tel(Memory, player, x))

do_leave(player) ==
    LET loc == Location(player)
    IN /\ Movable(player) /\ ~IsRoom(Memory, loc)
       /\ Becomes(enter_room(Memory, player, Location(loc)))

tport_control_ok(player, victim, loc) ==
    {victim, loc} \cap {x \in Objects : player = GOD \/ controls(player, x)} # {}

\* Rooms are JUMP_OK, but an exit is moved to a room one controls.
tport_dest_ok(player, victim, dest) ==
    dest \in {x \in Objects : player = GOD \/ controls(player, x)
                              \/ (IsRoom(Memory, x) /\ ~IsExit(Memory, victim))}

\* @tel of anything that can move, but not of a player to a player, which is
\* to where that one is; of an exit it moves the source.
do_teleport_one(player, victim, dest) ==
    /\ ~recursive_member(Memory, dest, victim)
    /\ victim # dest
    /\ ~(IsPlayer(Memory, victim) /\ IsPlayer(Memory, dest))
    /\ tport_dest_ok(player, victim, dest)
    /\ \/ /\ Movable(victim) /\ ~IsExit(Memory, dest)
          /\ tport_control_ok(player, victim, Location(victim))
          /\ Becomes(safe_tel(Memory, victim, dest))
       \/ /\ IsExit(Memory, victim) /\ IsRoom(Memory, dest) /\ ~Going(Memory, dest)
          /\ tport_control_ok(player, victim, db[victim].home)
          /\ LET out == clear_exit(Memory, victim)
             IN Becomes([out EXCEPT !.db[victim].home = dest,
                                    !.db[dest].exits = <<victim>> \o @])

\* A player marked for destruction cannot log in.
Login(x) ==
    /\ IsPlayer(Memory, x) /\ ~Going(Memory, x)
    /\ x \notin connected
    /\ connected' = connected \cup {x}
    /\ UNCHANGED <<db, first_free>>

Logout(x) ==
    /\ x \in connected \ {GOD}
    /\ connected' = connected \ {x}
    /\ UNCHANGED <<db, first_free>>

Init ==
    /\ db = Start
    /\ first_free = fix_free_list(Start)
    /\ connected = {GOD}

Next ==
    \/ purge
    \/ \E x \in Live : Login(x) \/ Logout(x)
    \/ \E p \in Enactors :
        \/ do_create(p) \/ do_dig(p) \/ do_real_open(p) \/ make_player(p)
        \/ GoHome(p) \/ do_leave(p)
        \/ \E x \in Live :
            \/ do_destroy(p, x) \/ do_undestroy(p, x)
            \/ do_unlink(p, x)
            \/ do_move(p, x) \/ do_get(p, x) \/ do_drop(p, x) \/ do_enter(p, x)
        \/ \E l \in Links \cap (Live \X Live) : do_link(p, l[1], l[2])
        \/ \E l \in Gifts \cap (Live \X Live) : do_chown(p, l[1], l[2])
        \/ \E l \in Tels \cap (Live \X Live) : do_teleport_one(p, l[1], l[2])

Spec == Init /\ [][Next]_vars

----------------------------------------------------------------------------
\* Properties.

\* Every field has a value of its type and only players are connected.
TypeOK ==
    /\ db \in [Objects -> ObjectRecords]
    /\ first_free \in Seq(Objects)
    /\ \A x \in connected : IsPlayer(Memory, x)

\* No field names a destroyed object or one of a wrong type, what check_fields
\* (destroy.c) would have to repair: destroying an object relinks, moves or
\* gives away everything that refers to it, whatever that drags along.
FieldsValid ==
    \A x \in Live :
        LET o == db[x]
        IN /\ IsPlayer(Memory, o.owner)
           /\ Mobile(Memory, x) =>
                o.location \in Live /\ o.home \in Live
                /\ ~IsExit(Memory, o.location) /\ ~IsExit(Memory, o.home)
           /\ IsExit(Memory, x) =>
                o.location \in Live \cup {NOTHING} /\ IsRoom(Memory, o.home)
           /\ IsRoom(Memory, x) =>
                o.location = NOTHING \/ IsRoom(Memory, o.location)

\* Where x stands on the lists of the objects.
Standing(lists, x) ==
    UNION {{<<o, n>> : n \in {k \in DOMAIN lists[o] : lists[o][k] = x}} : o \in Objects}

\* How often x is on a contents or exits list.
Listings(x) ==
    Cardinality(Standing([o \in Objects |-> db[o].contents], x)) +
    Cardinality(Standing([o \in Objects |-> db[o].exits], x))

\* "for every thing, player, and exit, you can trace exactly one path to that
\* object from a room" (check_contents): it is on one list, that of where it
\* says it is, and following locations ends in a room; nothing else is on
\* any list.
Traceable ==
    \A x \in Objects :
        CASE Mobile(Memory, x) ->
                 /\ Listings(x) = 1 /\ Location(x) # NOTHING
                 /\ x \in Range(db[Location(x)].contents)
                 /\ Around(Memory, x)[DbTop] = NOTHING
          [] IsExit(Memory, x) -> Listings(x) = 1 /\ x \in Range(db[db[x].home].exits)
          [] OTHER -> Listings(x) = 0

\* The free list holds every destroyed object once and nothing else, so
\* new_object never hands out an object in use and never forgets one.
FreeListExact ==
    /\ IsInjective(first_free)
    /\ Range(first_free) = Objects \ Live

\* "pre-destroying a room pre-destroys all its exits", "undestroying an exit
\* undestroys its source room": an exit of a room that is GOING is GOING too,
\* at least as far, whatever is spared, given away, opened or moved between.
ExitsDoomed ==
    \A x \in Live : IsExit(Memory, x) => db[x].going >= db[db[x].home].going

\* x is GOING_TWICE itself or goes with a player who is.
Due(x) ==
    \/ db[x].going = 2
    \/ db[Owner(x)].going = 2
    \/ IsExit(Memory, x) /\ db[Owner(db[x].home)].going = 2

\* "Everything is finally destroyed on the second purge": a purge destroys
\* only what it found GOING_TWICE, what a GOING_TWICE player owned, and the
\* exits of his rooms.
PurgedLate ==
    [][(\E x \in Live : db'[x].type = "GARBAGE" /\ ~Due(x)) => ~purge]_vars

=============================================================================
