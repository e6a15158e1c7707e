------------------------------- MODULE Ledger -------------------------------
(***************************************************************************)
(* The outcome ledger and the owner fences of the agent channel            *)
(* (src/cli/src/native/agent_channel/ledger.rs).                           *)
(*                                                                         *)
(* The ledger answers what became of each sequence frame a host sent, and  *)
(* fences the older owners of an Action.  Every operation takes the        *)
(* ledger's lock once, changes the state, applies the bounds and releases  *)
(* the lock, so every operation is one action here, its bounding included. *)
(*                                                                         *)
(* An absent map key is an ordinary value: a channel the ledger does not   *)
(* know is "unknown", a frame it does not hold is "none", and generation 0 *)
(* (owners start at 1) is an Action not carried, or one with no fence.     *)
(***************************************************************************)
EXTENDS Integers, Sequences, FiniteSets, FiniteSetsExt

CONSTANTS
    Channels,            \* channel ids a host may open
    Ids,                 \* frame ids, increasing on each channel
    Actions,             \* Actions that own frames
    Generations,         \* ownership generations of an Action
    Sizes,               \* bytes a recorded result may take
    NoAction,            \* the Action of a frame without an owner
    ENTRIES,             \* frames whose outcome is held
    BYTES,               \* bytes of outcomes held
    FENCES,              \* Actions whose fence is remembered
    STOPPED_CHANNELS     \* stopped channels whose record is remembered

ASSUME ChannelsAssumption    == IsFiniteSet(Channels)
ASSUME IdsAssumption         == Ids \subseteq Nat \ {0} /\ IsFiniteSet(Ids)
ASSUME ActionsAssumption     == IsFiniteSet(Actions)
ASSUME GenerationsAssumption == Generations \subseteq Nat \ {0}
ASSUME SizesAssumption       == Sizes \subseteq Nat
ASSUME NoActionAssumption    == NoAction \notin Actions
ASSUME BoundsAssumption ==
    /\ ENTRIES \in Nat
    /\ BYTES \in Nat
    /\ FENCES \in Nat \ {0}
    /\ STOPPED_CHANNELS \in Nat

VARIABLES
    entries,    \* entries[f]: what the ledger holds of frame f
    bytes,      \* the bytes of every result held, kept as a running sum
    channels,   \* channels[c]: the record of channel c
    stopped,    \* the stopped channels on record, in the order they stopped
    fences      \* fences[a]: the newest generation seen for Action a

ledgerVars == <<entries, bytes, channels, stopped, fences>>

-----------------------------------------------------------------------------
(* The data.                                                               *)

Frames == Channels \X Ids
Owners == [action : Actions, generation : Generations]

(* place is the entry's position in the queue of entries, oldest first.    *)
Entry == [state  : {"none", "queued", "running", "settled", "not_started"},
          action : Actions \cup {NoAction},
          bytes  : Nat,
          place  : Nat]

Channel == [state         : {"unknown", "live", "stopped"},
            last_received : Ids \cup {0},
            carried       : [Actions -> Generations \cup {0}]]

(* touched ranks the remembered fences, the least recently touched first:  *)
(* the code's clock is only ever compared.                                 *)
Fence == [generation : Generations \cup {0}, touched : Nat]

NoEntry == [state |-> "none", action |-> NoAction, bytes |-> 0, place |-> 0]
UnknownChannel == [state |-> "unknown", last_received |-> 0,
                   carried |-> [a \in Actions |-> 0]]
NoFence == [generation |-> 0, touched |-> 0]

(* Entry::settled: nothing about the frame may change any more.            *)
Final(entry) == entry.state \in {"settled", "not_started"}

HeldIn(es) == {f \in Frames : es[f].state # "none"}
FencesIn(fs) == {a \in Actions : fs[a].generation > 0}
Live(c) == channels[c].state = "live"

-----------------------------------------------------------------------------
(* What a caller reads.                                                    *)

(* Status of a frame: its entry's, or what its channel's record still says *)
(* of a frame that has none.                                               *)
Status(f) ==
    LET c == f[1]
    IN  CASE entries[f].state \in {"queued", "running"} -> "running"
          [] entries[f].state \in {"settled", "not_started"} -> entries[f].state
          [] /\ entries[f].state = "none"
             /\ \/ channels[c].state = "unknown"
                \/ f[2] <= channels[c].last_received -> "unknown"
          [] OTHER -> IF Live(c) THEN "running" ELSE "not_started"

(* A frame another Action sent is not told of.                             *)
OtherAction(a, f) == entries[f].state # "none" /\ entries[f].action # a

(* The frames an Action may list.                                          *)
EntriesOf(a) == {f \in HeldIn(entries) : entries[f].action = a}

(* An owner older than the newest one the daemon remembers for its Action. *)
Fenced(owner) == owner.generation < fences[owner.action].generation

(* Whether the next step of a running frame may start.                     *)
MayContinue(c) == Live(c)

-----------------------------------------------------------------------------
(* The bounds, applied at the end of every operation (State::bound).       *)

BytesIn(es, fs) == MapThenSumSet(LAMBDA f : es[f].bytes, fs)

(* Mutants: one outcome too many is held; the newest goes first.           *)
EvictedOneMore(es) ==
    LET final == {f \in HeldIn(es) : Final(es[f])}
        before(f) == {g \in final : es[g].place < es[f].place}
        left(f) == HeldIn(es) \ before(f)
    IN  {f \in final : \/ Cardinality(left(f)) > ENTRIES + 1
                       \/ BytesIn(es, left(f)) > BYTES}

EvictedNewestFirst(es) ==
    LET final == {f \in HeldIn(es) : Final(es[f])}
        left(f) == HeldIn(es) \ {g \in final : es[g].place > es[f].place}
    IN  {f \in final : \/ Cardinality(left(f)) > ENTRIES
                       \/ BytesIn(es, left(f)) > BYTES}

(* The final entries are removed oldest first until what is left fits: one *)
(* goes if the ledger is still over a bound once every older one is gone.  *)
Evicted(es) ==
    LET final == {f \in HeldIn(es) : Final(es[f])}
        before(f) == {g \in final : es[g].place < es[f].place}
        left(f) == HeldIn(es) \ before(f)
    IN  {f \in final : \/ Cardinality(left(f)) > ENTRIES
                       \/ BytesIn(es, left(f)) > BYTES}

(* How many of the oldest stopped channels are forgotten.                  *)
Excess(order) == IF Len(order) > STOPPED_CHANNELS
                   THEN Len(order) - STOPPED_CHANNELS ELSE 0

Forgotten(order) == {order[k] : k \in 1 .. Excess(order)}

(* The FENCES most recently touched fences stay.                           *)
Remembered(fs) ==
    {a \in FencesIn(fs) :
        Cardinality({b \in FencesIn(fs) : fs[b].touched > fs[a].touched}) < FENCES}

(* Removing entries moves the later ones up.                               *)
BoundEntries(es, sum) ==
    LET gone == Evicted(es)
        kept == HeldIn(es) \ gone
        place(f) == Cardinality({g \in kept : es[g].place <= es[f].place})
    IN  /\ entries' = [f \in Frames |->
                          IF f \in kept THEN [es[f] EXCEPT !.place = place(f)]
                                        ELSE NoEntry]
        /\ bytes' = sum - BytesIn(es, gone)

BoundChannels(cs, order) ==
    /\ channels' = [c \in Channels |->
                        IF c \in Forgotten(order) THEN UnknownChannel ELSE cs[c]]
    /\ stopped' = SubSeq(order, Excess(order) + 1, Len(order))

BoundFences(fs) ==
    LET kept == Remembered(fs)
        rank(a) == Cardinality({b \in kept : fs[b].touched <= fs[a].touched})
    IN  fences' = [a \in Actions |->
                      IF a \in kept THEN [fs[a] EXCEPT !.touched = rank(a)]
                                    ELSE NoFence]

-----------------------------------------------------------------------------
(* Two changes several operations make (State::put and State::stop).       *)

(* Sets a frame's state, making its entry when it has none.                *)
Put(f, action, state) ==
    [entries EXCEPT ![f] =
        IF @.state = "none"
          THEN [state |-> state, action |-> action, bytes |-> 0,
                place |-> Cardinality(HeldIn(entries)) + 1]
          ELSE [@ EXCEPT !.state = state]]

(* Mutant: a channel that stopped before stops again.                      *)
StoppingAgain(cs) == {c \in cs : channels[c].state # "unknown"}

(* Stops the live channels of cs: frames waiting their turn never start.   *)
Stopping(cs) == {c \in cs : Live(c)}

(* Mutants: waiting frames are left alone; running ones are stopped too.   *)
StopNoEntries(cs) == entries

StopOpenEntries(cs) ==
    [f \in Frames |->
        IF entries[f].state \in {"queued", "running"} /\ f[1] \in Stopping(cs)
          THEN [entries[f] EXCEPT !.state = "not_started"]
          ELSE entries[f]]

StopEntries(cs) ==
    [f \in Frames |->
        IF entries[f].state = "queued" /\ f[1] \in Stopping(cs)
          THEN [entries[f] EXCEPT !.state = "not_started"]
          ELSE entries[f]]

StopChannels(cs) ==
    [c \in Channels |->
        IF c \in Stopping(cs) THEN [channels[c] EXCEPT !.state = "stopped"]
                              ELSE channels[c]]

(* The orders in which they may join the queue of stopped channels: they   *)
(* are found in the arbitrary order of a hash map.                         *)
StopOrders(cs) ==
    {stopped \o q : q \in {r \in [1 .. Cardinality(Stopping(cs)) -> Stopping(cs)] :
                              \A c \in Stopping(cs) : \E k \in DOMAIN r : r[k] = c}}

-----------------------------------------------------------------------------
(* The operations.                                                         *)

(* Mutant: an id is refused only while its channel is live.                *)
ReopenChannel(c) ==
    /\ channels[c].state # "live"
    /\ BoundChannels([channels EXCEPT ![c].state = "live"], stopped)
    /\ UNCHANGED <<entries, bytes, fences>>

(* Opens a channel under an id the daemon does not know.                   *)
OpenChannel(c) ==
    /\ channels[c].state = "unknown"
    /\ BoundChannels([channels EXCEPT ![c].state = "live"], stopped)
    /\ UNCHANGED <<entries, bytes, fences>>

RaiseReceived(c, i) ==
    BoundChannels([channels EXCEPT ![c].last_received = IF @ < i THEN i ELSE @], stopped)

(* Records the arrival of a hello or an op_status: only its id.            *)
ReceiveOther(c, i) ==
    /\ IF channels[c].state = "unknown"
         THEN UNCHANGED <<channels, stopped>>
         ELSE RaiseReceived(c, i)
    /\ UNCHANGED <<entries, bytes, fences>>

(* Records the arrival of a sequence: it waits its turn, unless it was     *)
(* refused on arrival or its channel stopped.                              *)
ReceiveSequence(c, i, action, refused) ==
    IF channels[c].state = "unknown"
      THEN UNCHANGED ledgerVars
      ELSE /\ RaiseReceived(c, i)
           /\ BoundEntries(
                  Put(<<c, i>>, action,
                      IF refused \/ ~Live(c) THEN "not_started" ELSE "queued"),
                  bytes)
           /\ UNCHANGED fences

(* Later than every rank a remembered fence has.                           *)
Latest == Cardinality(FencesIn(fences)) + 1

(* Mutant: the channels of the remembered fence stop, though older ones    *)
(* may outlive a fence the daemon forgot.                                  *)
OlderByFence(c, owner) ==
    IF owner.generation > fences[owner.action].generation
      THEN {d \in Channels \ {c} :
               /\ channels[d].state # "unknown"
               /\ fences[owner.action].generation > 0
               /\ channels[d].carried[owner.action] = fences[owner.action].generation}
      ELSE {}

(* The older channels of an Action whose fence the owner raises.           *)
Older(c, owner) ==
    IF owner.generation > fences[owner.action].generation
      THEN {d \in Channels \ {c} :
               /\ channels[d].state # "unknown"
               /\ channels[d].carried[owner.action] \in 1 .. owner.generation - 1}
      ELSE {}

(* An older owner is refused; asking still keeps the fence remembered.     *)
RegisterFenced(c, owner) ==
    /\ Fenced(owner)
    /\ BoundFences([fences EXCEPT ![owner.action].touched = Latest])
    /\ UNCHANGED <<entries, bytes, channels, stopped>>

(* Any other owner is admitted.  A newer generation becomes the fence, and *)
(* every other channel that carried the Action under an older one stops.   *)
RegisterAdmitted(c, owner) ==
    LET a == owner.action
        halted == StopChannels(Older(c, owner))
    IN  /\ ~Fenced(owner)
        /\ BoundFences([fences EXCEPT ![a] = [generation |-> owner.generation,
                                              touched |-> Latest]])
        /\ BoundEntries(StopEntries(Older(c, owner)), bytes)
        /\ \E order \in StopOrders(Older(c, owner)) :
              BoundChannels(
                  IF channels[c].state = "unknown"
                    THEN halted
                    ELSE [halted EXCEPT ![c].carried[a] =
                             IF @ < owner.generation THEN owner.generation ELSE @],
                  order)

Register(c, owner) == RegisterFenced(c, owner) \/ RegisterAdmitted(c, owner)

(* Mutant: a frame starts though its channel stopped while it waited.      *)
StartAnyway(c, i, action) ==
    /\ BoundEntries(Put(<<c, i>>, action, "running"), bytes)
    /\ UNCHANGED <<channels, stopped, fences>>

(* Starts a frame, or records that its stopped channel never will.         *)
Start(c, i, action) ==
    /\ BoundEntries(
           Put(<<c, i>>, action, IF Live(c) THEN "running" ELSE "not_started"),
           bytes)
    /\ UNCHANGED <<channels, stopped, fences>>

(* Records nothing of a frame ran: it was refused before any step.         *)
NotStarted(c, i, action) ==
    /\ BoundEntries(Put(<<c, i>>, action, "not_started"), bytes)
    /\ UNCHANGED <<channels, stopped, fences>>

(* Mutant: the sum keeps the bytes of a result that was replaced.          *)
SetResultAddingBytes(f, size) ==
    /\ BoundEntries([entries EXCEPT ![f].state = "settled", ![f].bytes = size],
                    bytes + size)
    /\ UNCHANGED <<channels, stopped, fences>>

(* Replaces the result of a held frame, keeping the sum of bytes.          *)
SetResult(f, size) ==
    /\ BoundEntries([entries EXCEPT ![f].state = "settled", ![f].bytes = size],
                    bytes - entries[f].bytes + size)
    /\ UNCHANGED <<channels, stopped, fences>>

(* Records what a frame did; a frame the ledger does not hold is dropped.  *)
Settle(c, i, size) ==
    IF entries[<<c, i>>].state = "none" THEN UNCHANGED ledgerVars
                                        ELSE SetResult(<<c, i>>, size)

(* Keeps a reference in place of one result of a settled frame.            *)
Retain(c, i, size) ==
    /\ entries[<<c, i>>].state = "settled"
    /\ SetResult(<<c, i>>, size)

(* The connection of the channel ended: nothing more starts on it.         *)
EndChannel(c) ==
    /\ BoundEntries(StopEntries({c}), bytes)
    /\ \E order \in StopOrders({c}) : BoundChannels(StopChannels({c}), order)
    /\ UNCHANGED fences

-----------------------------------------------------------------------------
(* The ledger on its own: any caller may use any operation at any time.    *)

LedgerInit ==
    /\ entries = [f \in Frames |-> NoEntry]
    /\ bytes = 0
    /\ channels = [c \in Channels |-> UnknownChannel]
    /\ stopped = <<>>
    /\ fences = [a \in Actions |-> NoFence]

FrameOperation(c, i) ==
    \/ ReceiveOther(c, i)
    \/ \E action \in Actions \cup {NoAction} :
          \/ \E refused \in BOOLEAN : ReceiveSequence(c, i, action, refused)
          \/ Start(c, i, action)
          \/ NotStarted(c, i, action)
    \/ \E size \in Sizes : Settle(c, i, size) \/ Retain(c, i, size)

LedgerNext ==
    \E c \in Channels :
        \/ OpenChannel(c)
        \/ EndChannel(c)
        \/ \E owner \in Owners : Register(c, owner)
        \/ \E i \in Ids : FrameOperation(c, i)

LedgerSpec == LedgerInit /\ [][LedgerNext]_ledgerVars

-----------------------------------------------------------------------------
(* Properties.                                                             *)

(* Every variable has the shape the code gives it.                         *)
RecordsTypeOK ==
    /\ entries \in [Frames -> Entry]
    /\ channels \in [Channels -> Channel]
    /\ stopped \in Seq(Channels)
    /\ fences \in [Actions -> Fence]

LedgerTypeOK == RecordsTypeOK /\ bytes \in Nat

(* A frame that waits its turn can still start: its channel is on record   *)
(* and live.  State::stop turns every waiting frame of a channel, and no   *)
(* later arrival waits behind a stopped one, so no asker is ever told      *)
(* "running" of a frame that nothing can run any more.                     *)
QueuedFramesCanStart ==
    \A f \in Frames : entries[f].state = "queued" => Live(f[1])

(* A channel that may start something carries every Action it registered   *)
(* under the remembered generation or a newer one: register stops every    *)
(* other channel it leaves behind, whatever was evicted in between.        *)
LiveChannelsHoldTheFence ==
    \A c \in Channels, a \in Actions :
        Live(c) /\ channels[c].carried[a] > 0
            => channels[c].carried[a] >= fences[a].generation

(* The queue of stopped channels names each stopped channel on record once *)
(* and nothing else, so none is remembered for ever and none is forgotten  *)
(* while it is live.                                                       *)
QueueIsExact(order, cs) ==
    /\ {order[k] : k \in DOMAIN order} = {c \in Channels : cs[c].state = "stopped"}
    /\ \A j, k \in DOMAIN order : order[j] = order[k] => j = k

StoppedQueueIsExact == QueueIsExact(stopped, channels)

(* Nothing is left on record of a channel the ledger forgot, so the id can *)
(* be opened again as if it were new.                                      *)
ForgottenChannelsAreBlank ==
    \A c \in Channels : channels[c].state = "unknown" => channels[c] = UnknownChannel

(* The inductive invariant: each part needs the others.  A waiting frame   *)
(* keeps its live channel because only stopped ones are forgotten, which   *)
(* the queue of stopped channels decides; a channel keeps the fence        *)
(* because a forgotten one carries nothing into its next life.             *)
LedgerInvariant ==
    /\ RecordsTypeOK
    /\ ForgottenChannelsAreBlank
    /\ StoppedQueueIsExact
    /\ QueuedFramesCanStart
    /\ LiveChannelsHoldTheFence

(* The running sum State::bytes is the bytes of the results held.          *)
BytesAreExact == bytes = BytesIn(entries, HeldIn(entries))

(* The ledger is over a bound only when every entry may still change.      *)
Bounded ==
    /\ \/ Cardinality(HeldIn(entries)) <= ENTRIES /\ bytes <= BYTES
       \/ \A f \in HeldIn(entries) : ~Final(entries[f])
    /\ Len(stopped) <= STOPPED_CHANNELS
    /\ Cardinality(FencesIn(fences)) <= FENCES

(* A channel that stopped never starts anything again: it stays stopped    *)
(* until the ledger forgets it, and a stopped record never turns live.     *)
StopIsFinal ==
    [][\A c \in Channels :
           channels[c].state = "stopped" => channels'[c].state # "live"]_ledgerVars

(* Outcomes leave oldest first: when a bound drops an entry, no older      *)
(* outcome that could go stays behind.  A host that asks in the order it   *)
(* sent never finds a gap it cannot explain by age.                        *)
OldestFinalLeaveFirst ==
    [][\A f, g \in Frames :
           ( /\ entries[f].state # "none"
             /\ entries'[f].state = "none"
             /\ entries[g].state # "none"
             /\ entries[g].place < entries[f].place
             /\ entries'[g].state # "none" )
           => ~Final(entries'[g])]_ledgerVars
=============================================================================
