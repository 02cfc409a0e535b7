-------------------------------- MODULE Chat --------------------------------
(***************************************************************************)
(* The chat system (src/extchat.c): channels with their members, owners,   *)
(* deposits, mogrifiers and scroll-back buffers, as commands, softcode and *)
(* the destruction of objects change them.                                 *)
(*                                                                         *)
(* A channel knows its members (ChanUsers, ChanNumUsers) and an object its *)
(* channels (Chanlist); both are kept by hand.  Locks and privileges are   *)
(* abstracted: they can be set to anything, so a command they guard may    *)
(* succeed.  Sending a message runs softcode (the channel's mogrifier, the *)
(* @chatformat of each member) which may send another one before the first *)
(* is done: stack holds the calls of channel_send that have not returned,  *)
(* and message the static buffers they all use.                            *)
(***************************************************************************)
EXTENDS BufferQ, QueueSeqs, SequencesExt

CONSTANTS
    Players, Things,    \* dbrefs
    God,                \* a player; probate_judge too
    ObjName,            \* names of objects, as numbers that sort like them
    Chans,              \* addresses of CHAN structures
    ChanNames,          \* numbers that sort like the names
    Types,              \* values of ChanType, sets of flags
    Lens,               \* lengths of messages
    BufferLines,        \* sizes @channel/buffer is given, a bound
    MAX_CHANNELS, MAX_PLAYER_CHANS, CHANNEL_COST,
    InitPennies,
    Mogrifiers,         \* objects made mogrifiers, a bound
    Watched,            \* any one channel, see KeepsScrollback
    MaxDepth,           \* channel_send calls that can be nested, a bound
    NOTHING

Objects == Players \cup Things

ASSUME ObjectsAssumption ==
    God \in Players /\ IsFiniteSet(Chans) /\ Players \cap Things = {}
    /\ NOTHING \notin Objects \cup Chans
ASSUME ChoiceAssumption == Mogrifiers \subseteq Objects /\ Watched \in Chans
ASSUME NamesAssumption == ObjName \in [Objects -> Nat] /\ ChanNames \subseteq Nat
ASSUME TypesAssumption == Types \subseteq SUBSET {"player", "object", "disabled"}
ASSUME BoundsAssumption ==
    /\ Lens \subseteq 0..(BUFFER_LEN - 1) /\ BufferLines \subseteq Nat
    /\ MAX_CHANNELS \in Nat /\ MAX_PLAYER_CHANS \in Nat
    /\ CHANNEL_COST \in Nat /\ InitPennies \in Nat /\ MaxDepth \in Nat

VARIABLES
    owner,              \* the owner of an object, NOTHING for garbage
    pennies,
    chan,               \* the CHAN at an address, NOTHING when free
    channels,           \* the list of channels
    num_channels,
    Chanlist,           \* the list of channels of an object
    stack, message

vars == <<owner, pennies, chan, channels, num_channels, Chanlist, stack, message>>

Texts == [on : Chans, len : Lens]

Buffers == [mem : Seq(Texts \cup {PAD}), buffer_size : Nat, num_buffered : Nat]

Channel ==
    [name : ChanNames, type : Types \cup {{"player"}}, creator : Players,
     cost : {0, CHANNEL_COST}, mogrifier : Objects \cup {NOTHING},
     users : Seq(Objects), num_users : Nat, bufferq : Buffers \cup {NOTHING}]

ASSUME NullAssumption ==
    NOTHING \notin Channel \cup Buffers \cup Seq(Texts) /\ PAD \notin Texts

IsLive(o) == owner[o] # NOTHING

\* Chan_Ok_Type
ChanOkType(ch, o) ==
    IsLive(o) /\ IF o \in Players THEN "player" \in ch.type ELSE "object" \in ch.type

onchannel(o, ch) == o \in Range(ch.users)

\* NoPay: God neither pays nor is paid.
giveto(purse, p, amount) == IF p = God THEN purse ELSE [purse EXCEPT ![p] = @ + amount]

\* Mutant of CanPay: nobody is refused.
CanPay_any(p, amount) == p \in Players /\ amount \in Nat

CanPay(p, amount) == p = God \/ pennies[p] >= amount

payfor(p, amount) == IF p = God THEN pennies ELSE [pennies EXCEPT ![p] = @ - amount]

-----------------------------------------------------------------------------
\* Lists kept sorted by insertion.

\* The place before the first entry in stops, where the walk ends.
Place(list, stops) ==
    Min({i \in DOMAIN list : list[i] \in stops} \cup {Len(list) + 1})

\* A member is linked in unless the entry before its place is itself.
insert_user(users, o) ==
    LET i == Place(users, {u \in Objects : ObjName[u] > ObjName[o]})
    IN  IF i > 1 /\ users[i - 1] = o THEN users ELSE InsertAt(users, i, o)

\* name gives the name of every channel on the list, and of c.
insert_obj_chan(list, c, name) ==
    LET i == Place(list, {d \in DOMAIN name : name[d] >= name[c]})
    IN  IF i <= Len(list) /\ name[list[i]] = name[c] THEN list
        ELSE InsertAt(list, i, c)

\* Mutant of insert_channel: a channel goes to the end of the list.
insert_channel_last(list, c, name) == Append(list, c)

insert_channel(list, c, name) ==
    InsertAt(list, Place(list, {d \in DOMAIN name : name[d] > name[c]}), c)

remove_channel(list, c) == RemoveFirst(list, c)

remove_obj_chan(list, c) == RemoveFirst(list, c)

remove_user(ch, o) ==
    [ch EXCEPT !.users = RemoveFirst(@, o), !.num_users = @ - 1]

ChanName == [c \in Range(channels) |-> chan[c].name]

-----------------------------------------------------------------------------
\* Sending.  ch is the channel as the caller leaves it.

\* Nothing is sent on a disabled channel.  The mogrifier is used when there
\* is one and its lock lets the speaker.
channel_send(c, ch, len) ==
    IF "disabled" \in ch.type THEN UNCHANGED <<stack, message>>
    ELSE /\ message' = [on |-> c, len |-> len]
         /\ \E phase \in {"notify"} \cup (IF ch.mogrifier = NOTHING THEN {}
                                          ELSE {"mogrify"}) :
              stack' = Append(stack, [chan |-> c, text |-> [on |-> c, len |-> len],
                                      phase |-> phase, rest |-> Len(ch.users),
                                      skip_buffer |-> FALSE])

\* A command that changed c also announces it, unless the channel is quiet
\* or the subject is dark.
Announces(c, ch) ==
    \/ \E len \in Lens : channel_send(c, ch, len)
    \/ UNCHANGED <<stack, message>>

Idle == stack = <<>>

top == stack[Len(stack)]

Top(frame) == [stack EXCEPT ![Len(stack)] = frame]

chanVars == <<owner, pennies, chan, channels, num_channels, Chanlist>>

\* do_chat, do_cemit
Say(c, len) ==
    /\ Idle /\ chan[c] # NOTHING
    /\ channel_send(c, chan[c], len)
    /\ UNCHANGED chanVars

\* Softcode run by a send that is under way, the mogrifier's or the
\* @chatformat of the member to be notified, calls cemit().
Cemit(c, len) ==
    /\ ~Idle /\ Len(stack) < MaxDepth /\ chan[c] # NOTHING
    /\ IF top.phase = "mogrify" THEN IsLive(chan[top.chan].mogrifier)
                                ELSE top.rest > 0
    /\ channel_send(c, chan[c], len)
    /\ UNCHANGED chanVars

\* MOGRIFY`BLOCK gave a reason: the speaker is told and nobody else.
MogrifyBlocks ==
    /\ ~Idle /\ top.phase = "mogrify"
    /\ IsLive(chan[top.chan].mogrifier)
    /\ stack' = Front(stack)
    /\ UNCHANGED <<chanVars, message>>

\* MOGRIFY`NOBUFFER decides on the buffer; the text is left as it is.
Mogrify ==
    /\ ~Idle /\ top.phase = "mogrify"
    /\ \E skip \in BOOLEAN :
         /\ skip => IsLive(chan[top.chan].mogrifier)
         /\ stack' = Top([top EXCEPT !.phase = "notify", !.skip_buffer = skip])
    /\ UNCHANGED <<chanVars, message>>

\* notify_anything, for one member after the other
Notify ==
    /\ ~Idle /\ top.phase = "notify" /\ top.rest > 0
    /\ stack' = Top([top EXCEPT !.rest = @ - 1])
    /\ UNCHANGED <<chanVars, message>>

\* The end of channel_send: what is in the static buffer is buffered.
Buffer ==
    /\ ~Idle /\ top.phase = "notify" /\ top.rest = 0
    /\ chan' = IF chan[top.chan].bufferq = NOTHING \/ top.skip_buffer THEN chan
               ELSE [chan EXCEPT ![top.chan].bufferq = add_to_bufferq(@, message)]
    /\ stack' = Front(stack)
    /\ UNCHANGED <<owner, pennies, channels, num_channels, Chanlist, message>>

\* fun_cbufferadd
BufferAdd(c, len) ==
    /\ Idle /\ chan[c] # NOTHING /\ chan[c].bufferq # NOTHING
    /\ chan' = [chan EXCEPT ![c].bufferq = add_to_bufferq(@, [on |-> c, len |-> len])]
    /\ UNCHANGED <<owner, pennies, channels, num_channels, Chanlist, stack, message>>

-----------------------------------------------------------------------------
\* Members.

\* do_channel and channel_join_self, "on"
Join(o, c) ==
    LET ch == [chan[c] EXCEPT !.users = insert_user(@, o), !.num_users = @ + 1]
    IN  /\ Idle /\ chan[c] # NOTHING
        /\ ChanOkType(chan[c], o) /\ ~onchannel(o, chan[c])
        /\ chan' = [chan EXCEPT ![c] = ch]
        /\ Chanlist' = [Chanlist EXCEPT ![o] = insert_obj_chan(@, c, ChanName)]
        /\ Announces(c, ch)
        /\ UNCHANGED <<owner, pennies, channels, num_channels>>

\* do_channel and channel_leave_self, "off"
Leave(o, c) ==
    /\ Idle /\ chan[c] # NOTHING /\ onchannel(o, chan[c])
    /\ chan' = [chan EXCEPT ![c] = remove_user(@, o)]
    /\ Chanlist' = [Chanlist EXCEPT ![o] = remove_obj_chan(@, c)]
    /\ Announces(c, remove_user(chan[c], o))
    /\ UNCHANGED <<owner, pennies, channels, num_channels>>

channel_wipe(ch) == [ch EXCEPT !.users = <<>>, !.num_users = 0]

\* Mutant of WipedLists: the members keep the channel on their lists.
WipedLists_kept(c) == Chanlist

WipedLists(c) ==
    [o \in Objects |-> IF onchannel(o, chan[c]) THEN remove_obj_chan(Chanlist[o], c)
                                                ELSE Chanlist[o]]

Wipe(c) ==
    /\ Idle /\ chan[c] # NOTHING
    /\ chan' = [chan EXCEPT ![c] = channel_wipe(@)]
    /\ Chanlist' = WipedLists(c)
    /\ UNCHANGED <<owner, pennies, channels, num_channels, stack, message>>

-----------------------------------------------------------------------------
\* do_chan_admin and its like.

canstilladd(o) ==
    Cardinality({c \in Range(channels) : chan[c].creator = o}) < MAX_PLAYER_CHANS

\* ok_channel_name, for a channel that is renamed or for none
NameOk(n, unless) == \A d \in Range(channels) \ {unless} : chan[d].name # n

new_channel == [name |-> 0, type |-> {"player"}, creator |-> NOTHING, cost |-> CHANNEL_COST,
                mogrifier |-> NOTHING, users |-> <<>>, num_users |-> 0, bufferq |-> NOTHING]

Add(o, c, n, type) ==
    LET ch == [new_channel EXCEPT !.name = n, !.creator = owner[o],
                                  !.type = IF type = {} THEN @ ELSE type]
    IN  /\ Idle /\ IsLive(o) /\ chan[c] = NOTHING
        /\ num_channels # MAX_CHANNELS
        /\ NameOk(n, NOTHING)
        /\ o = God \/ canstilladd(o)
        /\ "disabled" \notin type
        /\ CanPay(owner[o], CHANNEL_COST)
        /\ pennies' = payfor(owner[o], CHANNEL_COST)
        /\ chan' = [chan EXCEPT ![c] = ch]
        /\ channels' = insert_channel(channels, c, [d \in Range(channels) \cup {c} |->
                                                     IF d = c THEN n ELSE chan[d].name])
        /\ num_channels' = num_channels + 1
        /\ UNCHANGED <<owner, Chanlist, stack, message>>

Delete(c) ==
    /\ Idle /\ chan[c] # NOTHING
    /\ Chanlist' = WipedLists(c)
    /\ pennies' = giveto(pennies, chan[c].creator, chan[c].cost)
    /\ channels' = remove_channel(channels, c)
    /\ chan' = [chan EXCEPT ![c] = NOTHING]
    /\ num_channels' = num_channels - 1
    /\ UNCHANGED <<owner, stack, message>>

\* The lists of the members keep the place of the old name.
Rename(c, n) ==
    LET ch == [chan[c] EXCEPT !.name = n]
    IN  /\ Idle /\ chan[c] # NOTHING /\ NameOk(n, c)
        /\ chan' = [chan EXCEPT ![c] = ch]
        /\ channels' = insert_channel(remove_channel(channels, c), c, [ChanName EXCEPT ![c] = n])
        /\ \E len \in Lens : channel_send(c, ch, len)
        /\ UNCHANGED <<owner, pennies, num_channels, Chanlist>>

\* Members of a type that is no longer allowed stay.
Priv(c, type) ==
    /\ Idle /\ chan[c] # NOTHING
    /\ chan' = [chan EXCEPT ![c].type = type]
    /\ UNCHANGED <<owner, pennies, channels, num_channels, Chanlist, stack, message>>

\* Mutant of chan_chown: the price that was given back is kept on record.
chan_chown_priced(ch, victim) == [ch EXCEPT !.creator = victim]

chan_chown(ch, victim) == [ch EXCEPT !.creator = victim, !.cost = 0]

do_chan_chown(c, victim) ==
    /\ Idle /\ chan[c] # NOTHING /\ IsLive(victim)
    /\ pennies' = giveto(pennies, chan[c].creator, chan[c].cost)
    /\ chan' = [chan EXCEPT ![c] = chan_chown(@, victim)]
    /\ UNCHANGED <<owner, channels, num_channels, Chanlist, stack, message>>

\* it is NOTHING when the mogrifier is taken away.
do_chan_set_mogrifier(c, it) ==
    /\ Idle /\ chan[c] # NOTHING /\ (it # NOTHING => IsLive(it))
    /\ chan' = [chan EXCEPT ![c].mogrifier = it]
    /\ UNCHANGED <<owner, pennies, channels, num_channels, Chanlist, stack, message>>

do_chan_buffer(c, lines) ==
    /\ Idle /\ chan[c] # NOTHING
    /\ chan' = [chan EXCEPT ![c].bufferq =
                  IF lines = 0 THEN NOTHING
                  ELSE IF @ = NOTHING THEN allocate_bufferq(lines)
                  ELSE reallocate_bufferq(@, lines)]
    /\ UNCHANGED <<owner, pennies, channels, num_channels, Chanlist, stack, message>>

-----------------------------------------------------------------------------
\* Objects come and go (free_object in destroy.c, as far as it concerns chat).

\* remove_all_obj_chan, for the objects of gone: only channels on an
\* object's own list are looked at, for its mogrifier as for its membership.
remove_all_obj_chan(chans, gone) ==
    [c \in Chans |->
      IF chans[c] = NOTHING THEN NOTHING
      ELSE LET left == {o \in gone : c \in Range(Chanlist[o]) /\ onchannel(o, chans[c])}
               told == {o \in gone : c \in Range(Chanlist[o])}
           IN  [chans[c] EXCEPT !.users = Keep(@, Objects \ left),
                                !.num_users = @ - Cardinality(left),
                                !.mogrifier = IF @ \in told THEN NOTHING ELSE @]]

ListsWithout(gone) ==
    [o \in Objects |->
      IF o \in gone THEN Keep(Chanlist[o], {c \in Range(channels) : ~onchannel(o, chan[c])})
      ELSE Chanlist[o]]

DestroyThing(t) ==
    /\ Idle /\ IsLive(t)
    /\ chan' = remove_all_obj_chan(chan, {t})
    /\ Chanlist' = ListsWithout({t})
    /\ owner' = [owner EXCEPT ![t] = NOTHING]
    /\ UNCHANGED <<pennies, channels, num_channels, stack, message>>

\* chan_chownall
chan_chownall(chans, old, newowner) ==
    [c \in Chans |-> IF chans[c] # NOTHING /\ chans[c].creator = old
                     THEN chan_chown(chans[c], newowner) ELSE chans[c]]

\* clear_player: channels go to the probate judge, possessions go with the
\* player or, when spared, to the judge.
DestroyPlayer(p, spared) ==
    LET gone == {p} \cup ({t \in Things : owner[t] = p} \ spared)
    IN  /\ Idle /\ IsLive(p) /\ p # God
        /\ chan' = remove_all_obj_chan(chan_chownall(chan, p, God), gone)
        /\ Chanlist' = ListsWithout(gone)
        /\ owner' = [o \in Objects |-> IF o \in gone THEN NOTHING
                                       ELSE IF owner[o] = p THEN God ELSE owner[o]]
        /\ pennies' = [pennies EXCEPT ![p] = 0]
        /\ UNCHANGED <<channels, num_channels, stack, message>>

\* free_get gives the dbref of a destroyed thing to a new one.
CreateThing(t, p) ==
    /\ Idle /\ ~IsLive(t) /\ IsLive(p)
    /\ owner' = [owner EXCEPT ![t] = p]
    /\ UNCHANGED <<pennies, chan, channels, num_channels, Chanlist, stack, message>>

-----------------------------------------------------------------------------
\* save_chatdb and load_chatdb: the game is shut down and started again.

\* load_labeled_chanusers: members in the order they were saved, without
\* the ones whose type the channel no longer allows.
LoadedUsers(ch) ==
    LET saved == Keep(ch.users, {o \in Objects : ChanOkType(ch, o)})
        loaded[i \in 0..Len(saved)] ==
            IF i = 0 THEN <<>> ELSE insert_user(loaded[i - 1], saved[i])
    IN  loaded[Len(saved)]

\* load_labeled_channel: the size of the buffer is saved, not its lines.
LoadedChannel(ch) ==
    [ch EXCEPT !.users = LoadedUsers(ch), !.num_users = Len(LoadedUsers(ch)),
               !.bufferq = IF @ = NOTHING THEN NOTHING
                           ELSE allocate_bufferq(bufferq_blocks(@))]

\* The channels, linked in one after the other.
LoadedChannels ==
    LET loaded[i \in 0..Len(channels)] ==
            IF i = 0 THEN <<>> ELSE insert_channel(loaded[i - 1], channels[i], ChanName)
    IN  loaded[Len(channels)]

\* The list of an object: every channel links itself in as it is loaded.
LoadedList(o, chans) ==
    LET linked[i \in 0..Len(channels)] ==
            IF i = 0 THEN <<>>
            ELSE IF onchannel(o, chans[channels[i]])
            THEN insert_obj_chan(linked[i - 1], channels[i], ChanName)
            ELSE linked[i - 1]
    IN  linked[Len(channels)]

Restart ==
    /\ Idle
    /\ chan' = [c \in Chans |-> IF chan[c] = NOTHING THEN NOTHING ELSE LoadedChannel(chan[c])]
    /\ channels' = LoadedChannels
    /\ num_channels' = Len(channels)
    /\ Chanlist' = [o \in Objects |-> LoadedList(o, chan')]
    /\ UNCHANGED <<owner, pennies, stack, message>>

-----------------------------------------------------------------------------
Init ==
    /\ owner \in [Objects -> Players] /\ \A p \in Players : owner[p] = p
    /\ pennies = [p \in Players |-> InitPennies]
    /\ chan = [c \in Chans |-> NOTHING]
    /\ channels = <<>> /\ num_channels = 0
    /\ Chanlist = [o \in Objects |-> <<>>]
    /\ stack = <<>>
    /\ message \in Texts

Sending ==
    \/ \E c \in Chans, len \in Lens : Say(c, len) \/ Cemit(c, len) \/ BufferAdd(c, len)
    \/ MogrifyBlocks \/ Mogrify \/ Notify \/ Buffer

Admin ==
    \E c \in Chans :
      \/ \E o \in Objects, n \in ChanNames, type \in Types : Add(o, c, n, type)
      \/ \E n \in ChanNames : Rename(c, n)
      \/ \E type \in Types : Priv(c, type)
      \/ \E p \in Players : do_chan_chown(c, p)
      \/ \E it \in Mogrifiers \cup {NOTHING} : do_chan_set_mogrifier(c, it)
      \/ \E lines \in BufferLines : do_chan_buffer(c, lines)
      \/ Delete(c) \/ Wipe(c)

Membership ==
    \E o \in Objects, c \in Chans : Join(o, c) \/ Leave(o, c)

World ==
    \/ \E t \in Things : DestroyThing(t) \/ \E p \in Players : CreateThing(t, p)
    \/ \E p \in Players, spared \in SUBSET Things : DestroyPlayer(p, spared)

Next == Sending \/ Admin \/ Membership \/ World \/ Restart

Spec == Init /\ [][Next]_vars

-----------------------------------------------------------------------------
\* Every variable has the values the C declarations and the module allow.
TypeOK ==
    /\ owner \in [Objects -> Players \cup {NOTHING}]
    /\ pennies \in [Players -> Nat]
    /\ chan \in [Chans -> Channel \cup {NOTHING}]
    /\ channels \in Seq(Chans) /\ num_channels \in Nat
    /\ Chanlist \in [Objects -> Seq(Chans)]
    /\ stack \in Seq([chan : Chans, text : Texts, phase : {"mogrify", "notify"},
                      rest : Nat, skip_buffer : BOOLEAN])
    /\ message \in Texts

\* A channel lists an object exactly when the object lists the channel, no
\* list has anything twice, and ChanNumUsers is the number of members.  The
\* two lists are changed by joins, departures, wipes, deletions, renames,
\* the destruction of objects and a restart; destroyed objects are on no
\* list, so a recycled dbref does not inherit channels.
MembersAgree ==
    /\ \A c \in Chans, o \in Objects :
         (chan[c] # NOTHING /\ onchannel(o, chan[c])) <=> (c \in Range(Chanlist[o]))
    /\ \A o \in Objects : IsInjective(Chanlist[o]) /\ (Chanlist[o] # <<>> => IsLive(o))
    /\ \A c \in Range(channels) : /\ IsInjective(chan[c].users)
                                  /\ chan[c].num_users = Len(chan[c].users)

\* The list of channels holds every channel once, in the order of the names,
\* no two of which are equal, also after renames; num_channels counts them
\* and stays within MAX_CHANNELS.
ChannelsListed ==
    /\ Range(channels) = {c \in Chans : chan[c] # NOTHING}
    /\ \A i, j \in DOMAIN channels : i < j => chan[channels[i]].name < chan[channels[j]].name
    /\ num_channels = Len(channels) /\ num_channels <= MAX_CHANNELS

\* What p paid for a channel and has not been given back.
Paid(p) ==
    [c \in Chans |-> IF chan[c] # NOTHING /\ chan[c].creator = p THEN chan[c].cost ELSE 0]

Deposit(p) == SumFunction(Paid(p))

\* The price of a channel is given back once: whatever changes of owner and
\* deletions follow, a player's money and the price of the channels he paid
\* for and still owns add up to what he had; and the owner of a channel is
\* a player that exists.
DepositsHeld ==
    /\ \A p \in Players \ {God} : IsLive(p) => pennies[p] + Deposit(p) = InitPennies
    /\ \A c \in Range(channels) : IsLive(chan[c].creator)

\* A buffer stays within its allocation, num_buffered is the number of its
\* lines, and a recall of n lines shows the last n, after any sequence of
\* sends and resizes.
BuffersExact ==
    \A c \in Range(channels) : chan[c].bufferq # NOTHING =>
        LET bq == chan[c].bufferq
            lines == Lines(bq)
        IN  /\ Len(bq.mem) <= bq.buffer_size
            /\ bq.num_buffered = Len(lines)
            /\ \A n \in 1..bq.buffer_size :
                 /\ Len(Recalled(bq, n)) = (IF n < Len(lines) THEN n ELSE Len(lines))
                 /\ IsSuffix(Recalled(bq, n), lines)

Recall == INSTANCE Scrollback WITH
    Off <- NOTHING,
    lines <- IF chan[Watched] = NOTHING \/ chan[Watched].bufferq = NOTHING THEN NOTHING
             ELSE Lines(chan[Watched].bufferq)

\* The bytes of a channel's buffer implement Scrollback: lines in the order
\* they were sent, the oldest forgotten first, the newest always kept.
KeepsScrollback == Recall!Spec

=============================================================================
