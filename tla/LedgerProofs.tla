---------------------------- MODULE LedgerProofs ----------------------------
(***************************************************************************)
(* Proofs about the ledger, for every set of channels, frames, Actions and *)
(* generations and every value of its bounds.                              *)
(*                                                                         *)
(* Every operation computes new entries, channels, a queue of stopped      *)
(* channels and fences, and then bounds them.  So the proof has two        *)
(* halves: what an operation hands to the bounds is Sound, and bounding    *)
(* what is Sound leaves the ledger invariant.  That the ledger keeps       *)
(* within its bounds comes last: it needs the sum of bytes to be exact.    *)
(***************************************************************************)
EXTENDS Ledger, FiniteSetTheorems, SequenceTheorems, WellFoundedInduction, TLAPS

(* LedgerInvariant, of the values an operation computes before it bounds   *)
(* them.                                                                   *)
Sound(es, cs, order, fs) ==
    /\ es \in [Frames -> Entry]
    /\ cs \in [Channels -> Channel]
    /\ order \in Seq(Channels)
    /\ fs \in [Actions -> Fence]
    /\ \A c \in Channels : cs[c].state = "unknown" => cs[c] = UnknownChannel
    /\ QueueIsExact(order, cs)
    /\ \A f \in Frames : es[f].state = "queued" => cs[f[1]].state = "live"
    /\ \A c \in Channels, a \in Actions :
          cs[c].state = "live" /\ cs[c].carried[a] > 0
              => cs[c].carried[a] >= fs[a].generation

(* What the bounds do to each part: an entry or a fence stays as it is or  *)
(* goes, a channel stays as it is or is forgotten once it stopped.         *)
EntriesBounded(es) ==
    /\ entries' \in [Frames -> Entry]
    /\ \A f \in Frames : entries'[f].state \in {es[f].state, "none"}

ChannelsBounded(cs) ==
    /\ channels' \in [Channels -> Channel]
    /\ stopped' \in Seq(Channels)
    /\ QueueIsExact(stopped', channels')
    /\ \A c \in Channels :
          \/ channels'[c] = cs[c]
          \/ cs[c].state = "stopped" /\ channels'[c] = UnknownChannel

FencesBounded(fs) ==
    /\ fences' \in [Actions -> Fence]
    /\ \A a \in Actions : fences'[a].generation \in {fs[a].generation, 0}

(* What a step may do to a channel that stopped.                           *)
StopStays ==
    \A c \in Channels : channels[c].state = "stopped" => channels'[c].state # "live"

-----------------------------------------------------------------------------
(* Lemmas on the data.                                                     *)

(* The sets the ledger counts are finite, so a count is a natural number.  *)
LEMMA FramesFinite ==
    ASSUME NEW S \in SUBSET Frames
    PROVE  Cardinality(S) \in Nat
<1>1. IsFiniteSet(Frames)
  BY FS_Product, ChannelsAssumption, IdsAssumption DEF Frames
<1> QED
  BY <1>1, FS_Subset, FS_CardinalityType

LEMMA ActionsFinite ==
    ASSUME NEW S \in SUBSET Actions
    PROVE  Cardinality(S) \in Nat
BY ActionsAssumption, FS_Subset, FS_CardinalityType

(* The blank records have the types of their maps.                         *)
LEMMA BlankRecords ==
    /\ NoEntry \in Entry
    /\ UnknownChannel \in Channel
    /\ NoFence \in Fence
BY DEF NoEntry, Entry, UnknownChannel, Channel, NoFence, Fence

(* A frame is a channel and an id.                                         *)
LEMMA FrameParts ==
    /\ \A c \in Channels, i \in Ids : <<c, i>> \in Frames
    /\ \A f \in Frames : f[1] \in Channels /\ f[2] \in Ids
BY DEF Frames

(* Dropping the first n elements of a sequence.                            *)
LEMMA SubSeqDrops ==
    ASSUME NEW S, NEW s \in Seq(S), NEW n \in Nat, n <= Len(s), NEW t,
           t = SubSeq(s, n + 1, Len(s))
    PROVE  /\ t \in Seq(S)
           /\ DOMAIN t = 1 .. (Len(s) - n)
           /\ \A k \in 1 .. (Len(s) - n) : n + k \in DOMAIN s /\ t[k] = s[n + k]
<1>1. Len(s) \in Nat /\ DOMAIN s = 1 .. Len(s) /\ \A k \in 1 .. Len(s) : s[k] \in S
  BY LenProperties, ElementOfSeq
<1>2. \A k \in n + 1 .. Len(s) : s[k] \in S
  BY <1>1
<1>3. /\ t \in Seq(S)
      /\ Len(t) = IF n + 1 <= Len(s) THEN Len(s) - (n + 1) + 1 ELSE 0
      /\ \A k \in 1 .. (Len(s) - (n + 1) + 1) : t[k] = s[(n + 1) + k - 1]
  BY <1>1, <1>2, SubSeqProperties
<1>4. Len(t) = Len(s) - n
  <2>1. \A m, l \in Nat : (n <= l /\ m = IF n + 1 <= l THEN l - (n + 1) + 1 ELSE 0)
                              => m = l - n
    OBVIOUS
  <2>2. Len(t) \in Nat
    BY <1>3, LenProperties
  <2> QED
    BY <1>1, <1>3, <2>1, <2>2
<1>5. DOMAIN t = 1 .. (Len(s) - n)
  BY <1>3, <1>4, LenProperties
<1>6. ASSUME NEW k \in 1 .. (Len(s) - n)
      PROVE  n + k \in DOMAIN s /\ t[k] = s[n + k]
  <2>1. k \in 1 .. (Len(s) - (n + 1) + 1) /\ (n + 1) + k - 1 = n + k
    BY <1>1
  <2> QED
    BY <1>1, <1>3, <2>1
<1> QED
  BY <1>3, <1>5, <1>6

-----------------------------------------------------------------------------
(* Bounding.                                                               *)

(* Bounding the entries drops some and renumbers the rest.                 *)
LEMMA BoundEntriesLemma ==
    ASSUME NEW es \in [Frames -> Entry], NEW sum, BoundEntries(es, sum)
    PROVE  EntriesBounded(es)
<1> DEFINE kept == HeldIn(es) \ Evicted(es)
           place(f) == Cardinality({g \in kept : es[g].place <= es[f].place})
<1>1. entries' = [f \in Frames |->
                     IF f \in kept THEN [es[f] EXCEPT !.place = place(f)] ELSE NoEntry]
  BY DEF BoundEntries
<1>2. ASSUME NEW f \in Frames
      PROVE  /\ place(f) \in Nat
             /\ [es[f] EXCEPT !.place = place(f)] \in Entry
             /\ [es[f] EXCEPT !.place = place(f)].state = es[f].state
  <2>1. {g \in kept : es[g].place <= es[f].place} \in SUBSET Frames
    BY DEF HeldIn
  <2>2. place(f) \in Nat
    BY <2>1, FramesFinite
  <2> HIDE DEF place
  <2> QED
    BY <2>2 DEF Entry
<1> HIDE DEF kept, place
<1> QED
  BY <1>1, <1>2, BlankRecords DEF EntriesBounded, NoEntry

(* Bounding the fences drops some and ranks the rest.                      *)
LEMMA BoundFencesLemma ==
    ASSUME NEW fs \in [Actions -> Fence], BoundFences(fs)
    PROVE  FencesBounded(fs)
<1> DEFINE kept == Remembered(fs)
           rank(a) == Cardinality({b \in kept : fs[b].touched <= fs[a].touched})
<1>1. fences' = [a \in Actions |->
                    IF a \in kept THEN [fs[a] EXCEPT !.touched = rank(a)] ELSE NoFence]
  BY DEF BoundFences
<1>2. ASSUME NEW a \in Actions
      PROVE  /\ [fs[a] EXCEPT !.touched = rank(a)] \in Fence
             /\ [fs[a] EXCEPT !.touched = rank(a)].generation = fs[a].generation
  <2>1. {b \in kept : fs[b].touched <= fs[a].touched} \in SUBSET Actions
    BY DEF Remembered, FencesIn
  <2>2. rank(a) \in Nat
    BY <2>1, ActionsFinite
  <2> HIDE DEF rank
  <2> QED
    BY <2>2 DEF Fence
<1> HIDE DEF kept, rank
<1> QED
  BY <1>1, <1>2, BlankRecords DEF FencesBounded, NoFence

(* Forgetting the head of an exact queue leaves an exact queue.            *)
LEMMA BoundChannelsLemma ==
    ASSUME NEW cs \in [Channels -> Channel], NEW order \in Seq(Channels),
           QueueIsExact(order, cs), BoundChannels(cs, order)
    PROVE  ChannelsBounded(cs)
<1> DEFINE n == Excess(order)
<1>1. Len(order) \in Nat /\ DOMAIN order = 1 .. Len(order)
      /\ \A k \in 1 .. Len(order) : order[k] \in Channels
  BY LenProperties, ElementOfSeq
<1>2. n \in Nat /\ n <= Len(order)
  BY <1>1, BoundsAssumption DEF Excess
<1>3. channels' = [c \in Channels |->
                      IF \E k \in 1 .. n : order[k] = c THEN UnknownChannel ELSE cs[c]]
  BY DEF BoundChannels, Forgotten
<1>4. stopped' = SubSeq(order, n + 1, Len(order))
  BY DEF BoundChannels
<1> HIDE DEF n
<1>5. /\ stopped' \in Seq(Channels)
      /\ DOMAIN stopped' = 1 .. (Len(order) - n)
      /\ \A k \in 1 .. (Len(order) - n) :
            n + k \in DOMAIN order /\ stopped'[k] = order[n + k]
  BY <1>2, <1>4, SubSeqDrops
<1>6. \A c \in Channels : channels'[c] \in Channel
  BY <1>3, BlankRecords
<1>7. \A c \in Channels :
         \/ channels'[c] = cs[c]
         \/ cs[c].state = "stopped" /\ channels'[c] = UnknownChannel
  BY <1>1, <1>2, <1>3 DEF QueueIsExact
<1>8. QueueIsExact(stopped', channels')
  <2>1. ASSUME NEW j \in DOMAIN stopped', NEW k \in DOMAIN stopped',
               stopped'[j] = stopped'[k]
        PROVE  j = k
    <3>1. j \in Int /\ k \in Int
      BY <1>1, <1>2, <1>5
    <3>2. n + j = n + k
      BY <1>5, <2>1 DEF QueueIsExact
    <3> QED
      BY <3>1, <3>2, <1>2
  <2>2. ASSUME NEW k \in DOMAIN stopped'
        PROVE  stopped'[k] \in Channels /\ channels'[stopped'[k]].state = "stopped"
    <3>1. n + k \in DOMAIN order /\ stopped'[k] = order[n + k]
      BY <1>1, <1>2, <1>5
    <3>2. order[n + k] \in Channels /\ cs[order[n + k]].state = "stopped"
      BY <3>1, <1>1 DEF QueueIsExact
    <3>3. ASSUME NEW j \in 1 .. n, order[j] = order[n + k]
          PROVE  FALSE
      <4>1. j \in DOMAIN order
        BY <1>1, <1>2
      <4>2. j = n + k
        BY <4>1, <3>1, <3>3 DEF QueueIsExact
      <4>3. k \in Int /\ k > 0
        BY <1>1, <1>2, <1>5
      <4> QED
        BY <4>2, <4>3, <1>2
    <3> QED
      BY <3>1, <3>2, <3>3, <1>3
  <2>3. ASSUME NEW c \in Channels, channels'[c].state = "stopped"
        PROVE  \E k \in DOMAIN stopped' : stopped'[k] = c
    <3>1. cs[c].state = "stopped" /\ ~ \E k \in 1 .. n : order[k] = c
      BY <2>3, <1>3 DEF UnknownChannel
    <3>2. PICK j \in DOMAIN order : order[j] = c
      BY <3>1 DEF QueueIsExact
    <3>3. j \in n + 1 .. Len(order)
      BY <3>1, <3>2, <1>1, <1>2
    <3>4. j - n \in DOMAIN stopped' /\ stopped'[j - n] = order[j]
      BY <3>3, <1>1, <1>2, <1>5
    <3> QED
      BY <3>2, <3>4
  <2> QED
    BY <2>1, <2>2, <2>3 DEF QueueIsExact
<1> QED
  BY <1>3, <1>5, <1>6, <1>7, <1>8 DEF ChannelsBounded

-----------------------------------------------------------------------------
(* Stopping.                                                               *)

(* Whether a queue is exact depends on the states of the channels only.    *)
LEMMA QueueDependsOnStates ==
    ASSUME NEW order, NEW cs, NEW ds, QueueIsExact(order, cs),
           \A c \in Channels : ds[c].state = cs[c].state
    PROVE  QueueIsExact(order, ds)
BY DEF QueueIsExact

(* What a queue holds, and that it holds nothing twice.                    *)
Occurs(x, s) == \E k \in DOMAIN s : s[k] = x
NoRepeats(s) == \A j, k \in DOMAIN s : s[j] = s[k] => j = k

LEMMA ExactQueues ==
    ASSUME NEW order, NEW cs
    PROVE  QueueIsExact(order, cs) <=>
              /\ \A c : Occurs(c, order) <=> c \in {d \in Channels : cs[d].state = "stopped"}
              /\ NoRepeats(order)
BY DEF QueueIsExact, Occurs, NoRepeats

(* Joining two sequences without a common element or a repetition.         *)
LEMMA JoinDistinct ==
    ASSUME NEW S, NEW s \in Seq(S), NEW t \in Seq(S),
           NoRepeats(s), NoRepeats(t), \A x : ~(Occurs(x, s) /\ Occurs(x, t)),
           NEW u, u = s \o t
    PROVE  /\ u \in Seq(S)
           /\ \A x : Occurs(x, u) <=> Occurs(x, s) \/ Occurs(x, t)
           /\ NoRepeats(u)
<1> DEFINE m == Len(s)
           n == Len(t)
<1>1. /\ m \in Nat /\ DOMAIN s = 1 .. m
      /\ n \in Nat /\ DOMAIN t = 1 .. n
  BY LenProperties
<1>2. /\ u \in Seq(S)
      /\ DOMAIN u = 1 .. (m + n)
      /\ \A k \in 1 .. m + n : u[k] = IF k <= m THEN s[k] ELSE t[k - m]
  BY ConcatProperties, LenProperties
<1> HIDE DEF m, n
<1>3. ASSUME NEW k \in DOMAIN u
      PROVE  \/ k \in DOMAIN s /\ u[k] = s[k]
             \/ k \in Int /\ k - m \in DOMAIN t /\ u[k] = t[k - m]
  BY <1>1, <1>2
<1>4. \A k \in DOMAIN s : k \in DOMAIN u /\ u[k] = s[k]
  BY <1>1, <1>2
<1>5. ASSUME NEW k \in DOMAIN t
      PROVE  m + k \in DOMAIN u /\ u[m + k] = t[k]
  <2>1. /\ m + k \in 1 .. m + n
        /\ ~(m + k <= m)
        /\ (m + k) - m = k
    BY <1>1
  <2> QED
    BY <1>2, <2>1
<1>6. ASSUME NEW x
      PROVE  Occurs(x, u) <=> Occurs(x, s) \/ Occurs(x, t)
  <2>1. CASE Occurs(x, u)
    <3>1. PICK k \in DOMAIN u : u[k] = x
      BY <2>1 DEF Occurs
    <3>2. CASE k \in DOMAIN s /\ u[k] = s[k]
      BY <3>1, <3>2, <2>1 DEF Occurs
    <3>3. CASE k - m \in DOMAIN t /\ u[k] = t[k - m]
      BY <3>1, <3>3, <2>1 DEF Occurs
    <3> QED
      BY <1>3, <3>2, <3>3
  <2>2. Occurs(x, s) => Occurs(x, u)
    BY <1>4 DEF Occurs
  <2>3. Occurs(x, t) => Occurs(x, u)
    BY <1>5 DEF Occurs
  <2> QED
    BY <2>1, <2>2, <2>3
<1>7. ASSUME NEW j \in DOMAIN u, NEW k \in DOMAIN u, u[j] = u[k]
      PROVE  j = k
  <2>1. CASE j \in DOMAIN s /\ u[j] = s[j] /\ k \in DOMAIN s /\ u[k] = s[k]
    BY <1>7, <2>1 DEF NoRepeats
  <2>2. CASE /\ j \in Int /\ j - m \in DOMAIN t /\ u[j] = t[j - m]
             /\ k \in Int /\ k - m \in DOMAIN t /\ u[k] = t[k - m]
    <3>1. j - m = k - m
      BY <1>7, <2>2 DEF NoRepeats
    <3> QED
      BY <1>1, <2>2, <3>1
  <2>3. ASSUME NEW i \in DOMAIN s, NEW l \in DOMAIN t
        PROVE  s[i] # t[l]
    BY DEF Occurs
  <2> QED
    BY <1>3, <1>7, <2>1, <2>2, <2>3
<1> QED
  BY <1>2, <1>6, <1>7 DEF NoRepeats

(* Stopping channels, in any order, leaves the queue exact.                *)
LEMMA StoppingLemma ==
    ASSUME LedgerInvariant, NEW cs \in SUBSET Channels, NEW order \in StopOrders(cs)
    PROVE  /\ order \in Seq(Channels)
           /\ StopChannels(cs) \in [Channels -> Channel]
           /\ QueueIsExact(order, StopChannels(cs))
<1> DEFINE T == Stopping(cs)
           n == Cardinality(T)
<1>1. T \in SUBSET Channels /\ IsFiniteSet(T) /\ n \in Nat
  BY ChannelsAssumption, FS_Subset, FS_CardinalityType DEF Stopping
<1>2. PICK r \in [1 .. n -> T] :
         order = stopped \o r /\ \A c \in T : \E k \in DOMAIN r : r[k] = c
  BY DEF StopOrders
<1> HIDE DEF n
<1>3. DOMAIN r = 1 .. n /\ \A c : Occurs(c, r) <=> c \in T
  BY <1>2 DEF Occurs
<1>4. r \in Seq(Channels)
  BY <1>1, <1>2, SeqDef
<1>5. NoRepeats(r)
  <2>1. r \in Surjection(1 .. n, T)
    BY <1>2, <1>3 DEF Surjection
  <2>2. IsFiniteSet(1 .. n) /\ Cardinality(1 .. n) = n
    BY <1>1, FS_Interval
  <2>3. r \in Injection(1 .. n, T)
    BY <2>1, <2>2, FS_SurjSameCardinalityImpliesInj DEF n
  <2> QED
    BY <2>3, <1>3 DEF Injection, IsInjective, NoRepeats
<1>6. /\ stopped \in Seq(Channels)
      /\ channels \in [Channels -> Channel]
      /\ \A c : Occurs(c, stopped) <=> c \in {d \in Channels : channels[d].state = "stopped"}
      /\ NoRepeats(stopped)
  BY ExactQueues DEF LedgerInvariant, RecordsTypeOK, StoppedQueueIsExact
<1>7. \A c : ~(Occurs(c, stopped) /\ Occurs(c, r))
  BY <1>3, <1>6 DEF Stopping, Live
<1>8. /\ order \in Seq(Channels)
      /\ \A c : Occurs(c, order) <=> Occurs(c, stopped) \/ Occurs(c, r)
      /\ NoRepeats(order)
  BY <1>2, <1>4, <1>5, <1>6, <1>7, JoinDistinct
<1>9. StopChannels(cs) \in [Channels -> Channel]
  BY <1>6 DEF StopChannels, Channel
<1>10. {d \in Channels : StopChannels(cs)[d].state = "stopped"}
          = {d \in Channels : channels[d].state = "stopped"} \cup T
  BY <1>1, <1>6 DEF StopChannels, Channel, Stopping
<1>11. ASSUME NEW c
       PROVE  Occurs(c, order)
                 <=> c \in {d \in Channels : StopChannels(cs)[d].state = "stopped"}
  BY <1>3, <1>6, <1>8, <1>10
<1> QED
  BY <1>8, <1>9, <1>11, ExactQueues

-----------------------------------------------------------------------------
(* Bounding what is sound.                                                 *)

(* The invariant is the soundness of what the ledger holds.                *)
LEMMA InvariantIsSound ==
    LedgerInvariant <=> Sound(entries, channels, stopped, fences)
BY DEF LedgerInvariant, Sound, RecordsTypeOK, ForgottenChannelsAreBlank,
       StoppedQueueIsExact, QueuedFramesCanStart, LiveChannelsHoldTheFence, Live

LEMMA BoundingPreserves ==
    ASSUME NEW es, NEW cs, NEW order, NEW fs, Sound(es, cs, order, fs),
           EntriesBounded(es), ChannelsBounded(cs), FencesBounded(fs)
    PROVE  LedgerInvariant'
<1>1. RecordsTypeOK'
  BY DEF EntriesBounded, ChannelsBounded, FencesBounded, RecordsTypeOK
<1>2. ForgottenChannelsAreBlank'
  BY DEF Sound, ChannelsBounded, ForgottenChannelsAreBlank
<1>3. StoppedQueueIsExact'
  BY DEF ChannelsBounded, StoppedQueueIsExact
<1>4. QueuedFramesCanStart'
  <2>1. ASSUME NEW f \in Frames, entries'[f].state = "queued"
        PROVE  channels'[f[1]].state = "live"
    <3>1. es[f].state = "queued"
      BY <2>1 DEF EntriesBounded
    <3> QED
      BY <3>1, FrameParts DEF Sound, ChannelsBounded
  <2> QED
    BY <2>1 DEF QueuedFramesCanStart, Live
<1>5. LiveChannelsHoldTheFence'
  <2>1. ASSUME NEW c \in Channels, NEW a \in Actions,
               channels'[c].state = "live", channels'[c].carried[a] > 0
        PROVE  channels'[c].carried[a] >= fences'[a].generation
    <3>1. channels'[c] = cs[c]
      BY <2>1 DEF ChannelsBounded, UnknownChannel
    <3>2. cs[c].carried[a] >= fs[a].generation
      BY <2>1, <3>1 DEF Sound
    <3>3. fences'[a].generation \in {fs[a].generation, 0}
      BY DEF FencesBounded
    <3>4. cs[c].carried[a] \in Nat
      <4>1. cs[c] \in Channel
        BY DEF Sound
      <4>2. cs[c].carried \in [Actions -> Generations \cup {0}]
        BY <4>1 DEF Channel
      <4>3. cs[c].carried[a] \in Generations \cup {0}
        BY <4>2
      <4>4. Generations \cup {0} \subseteq Nat
        BY GenerationsAssumption
      <4> QED
        BY <4>3, <4>4
    <3> QED
      BY <2>1, <3>1, <3>2, <3>3, <3>4
  <2> QED
    BY <2>1 DEF LiveChannelsHoldTheFence, Live
<1> QED
  BY <1>1, <1>2, <1>3, <1>4, <1>5 DEF LedgerInvariant

(* A part an operation leaves alone is bounded already.                    *)
LEMMA UnchangedIsBounded ==
    ASSUME LedgerInvariant
    PROVE  /\ UNCHANGED entries => EntriesBounded(entries)
           /\ UNCHANGED <<channels, stopped>> => ChannelsBounded(channels)
           /\ UNCHANGED fences => FencesBounded(fences)
BY DEF LedgerInvariant, RecordsTypeOK, StoppedQueueIsExact, QueueIsExact,
       EntriesBounded, ChannelsBounded, FencesBounded

-----------------------------------------------------------------------------
(* What each operation hands to the bounds is sound, and none of it brings *)
(* a stopped channel back.                                                 *)

(* The conclusion of every step, from what is bounded.                     *)
LEMMA StepFromSound ==
    ASSUME NEW es, NEW cs, NEW order, NEW fs, Sound(es, cs, order, fs),
           EntriesBounded(es), ChannelsBounded(cs), FencesBounded(fs),
           \A c \in Channels : channels[c].state = "stopped" => cs[c].state = "stopped"
    PROVE  LedgerInvariant' /\ StopStays
<1>1. LedgerInvariant'
  BY BoundingPreserves
<1>2. StopStays
  BY DEF ChannelsBounded, StopStays, UnknownChannel
<1> QED
  BY <1>1, <1>2

(* Put sets one state and leaves the others.                               *)
LEMMA PutLemma ==
    ASSUME entries \in [Frames -> Entry], NEW f \in Frames,
           NEW action \in Actions \cup {NoAction},
           NEW state \in {"queued", "running", "settled", "not_started"}
    PROVE  /\ Put(f, action, state) \in [Frames -> Entry]
           /\ Put(f, action, state)[f].state = state
           /\ \A g \in Frames : g # f => Put(f, action, state)[g] = entries[g]
<1> DEFINE place == Cardinality(HeldIn(entries)) + 1
           new == [state |-> state, action |-> action, bytes |-> 0, place |-> place]
<1>1. place \in Nat
  <2>1. HeldIn(entries) \in SUBSET Frames
    BY DEF HeldIn
  <2>2. Cardinality(HeldIn(entries)) \in Nat
    BY <2>1, FramesFinite
  <2> QED
    BY <2>2
<1> HIDE DEF place
<1>2. new \in Entry /\ new.state = state
  BY <1>1 DEF Entry
<1>3. [entries[f] EXCEPT !.state = state] \in Entry
      /\ [entries[f] EXCEPT !.state = state].state = state
  BY DEF Entry
<1>4. Put(f, action, state) =
         [entries EXCEPT ![f] = IF entries[f].state = "none" THEN new
                                ELSE [entries[f] EXCEPT !.state = state]]
  BY DEF Put, place
<1> HIDE DEF new
<1> QED
  BY <1>2, <1>3, <1>4

LEMMA OpenChannelStep ==
    ASSUME LedgerInvariant, NEW c \in Channels, OpenChannel(c)
    PROVE  LedgerInvariant' /\ StopStays
<1> DEFINE cs == [channels EXCEPT ![c].state = "live"]
<1>1. Sound(entries, channels, stopped, fences) /\ channels[c] = UnknownChannel
  BY InvariantIsSound DEF Sound, OpenChannel
<1>2. /\ cs \in [Channels -> Channel]
      /\ cs[c].state = "live" /\ cs[c].carried = UnknownChannel.carried
      /\ \A d \in Channels \ {c} : cs[d] = channels[d]
  BY <1>1 DEF Sound, Channel
<1>3. BoundChannels(cs, stopped) /\ UNCHANGED <<entries, fences>>
  BY DEF OpenChannel
<1> HIDE DEF cs
<1>4. QueueIsExact(stopped, cs)
  <2>1. {d \in Channels : cs[d].state = "stopped"}
           = {d \in Channels : channels[d].state = "stopped"}
    BY <1>1, <1>2 DEF UnknownChannel
  <2> QED
    BY <1>1, <2>1 DEF Sound, QueueIsExact
<1>5. Sound(entries, cs, stopped, fences)
  <2>1. \A f \in Frames : entries[f].state = "queued" => cs[f[1]].state = "live"
    BY <1>1, <1>2, FrameParts DEF Sound
  <2>2. \A d \in Channels, a \in Actions :
           cs[d].state = "live" /\ cs[d].carried[a] > 0
               => cs[d].carried[a] >= fences[a].generation
    BY <1>1, <1>2 DEF Sound, UnknownChannel
  <2> QED
    BY <1>1, <1>2, <1>4, <2>1, <2>2 DEF Sound
<1>6. ChannelsBounded(cs)
  BY <1>1, <1>2, <1>3, <1>4, BoundChannelsLemma DEF Sound
<1>7. EntriesBounded(entries) /\ FencesBounded(fences)
  BY <1>3, UnchangedIsBounded
<1>8. \A d \in Channels : channels[d].state = "stopped" => cs[d].state = "stopped"
  BY <1>1, <1>2 DEF UnknownChannel
<1> QED
  BY <1>5, <1>6, <1>7, <1>8, StepFromSound

(* An arrival on a channel on record: its states and what it carried stay. *)
LEMMA RaiseReceivedLemma ==
    ASSUME LedgerInvariant, NEW c \in Channels, NEW i \in Ids,
           channels[c].state # "unknown", RaiseReceived(c, i)
    PROVE  \E cs : /\ Sound(entries, cs, stopped, fences)
                   /\ ChannelsBounded(cs)
                   /\ \A d \in Channels : cs[d].state = channels[d].state
<1> DEFINE cs == [channels EXCEPT ![c].last_received = IF @ < i THEN i ELSE @]
<1>1. Sound(entries, channels, stopped, fences)
  BY InvariantIsSound
<1>2. /\ cs \in [Channels -> Channel]
      /\ \A d \in Channels : /\ cs[d].state = channels[d].state
                             /\ cs[d].carried = channels[d].carried
                             /\ d # c => cs[d] = channels[d]
  BY <1>1 DEF Sound, Channel
<1>3. BoundChannels(cs, stopped)
  BY DEF RaiseReceived
<1> HIDE DEF cs
<1>4. QueueIsExact(stopped, cs)
  BY <1>1, <1>2, QueueDependsOnStates DEF Sound
<1>5. Sound(entries, cs, stopped, fences)
  <2>1. \A f \in Frames : entries[f].state = "queued" => cs[f[1]].state = "live"
    BY <1>1, <1>2, FrameParts DEF Sound
  <2> QED
    BY <1>1, <1>2, <1>4, <2>1 DEF Sound
<1>6. ChannelsBounded(cs)
  BY <1>1, <1>2, <1>3, <1>4, BoundChannelsLemma DEF Sound
<1> QED
  BY <1>2, <1>5, <1>6

LEMMA ReceiveOtherStep ==
    ASSUME LedgerInvariant, NEW c \in Channels, NEW i \in Ids, ReceiveOther(c, i)
    PROVE  LedgerInvariant' /\ StopStays
<1>1. UNCHANGED <<entries, fences>>
  BY DEF ReceiveOther
<1>2. EntriesBounded(entries) /\ FencesBounded(fences)
  BY <1>1, UnchangedIsBounded
<1>3. CASE channels[c].state = "unknown"
  <2>1. UNCHANGED <<channels, stopped>>
    BY <1>3 DEF ReceiveOther
  <2> QED
    BY <1>2, <2>1, UnchangedIsBounded, InvariantIsSound, StepFromSound
<1>4. CASE channels[c].state # "unknown"
  <2>1. RaiseReceived(c, i)
    BY <1>4 DEF ReceiveOther
  <2> QED
    BY <1>2, <1>4, <2>1, RaiseReceivedLemma, StepFromSound
<1> QED
  BY <1>3, <1>4

LEMMA ReceiveSequenceStep ==
    ASSUME LedgerInvariant, NEW c \in Channels, NEW i \in Ids,
           NEW action \in Actions \cup {NoAction}, NEW refused \in BOOLEAN,
           ReceiveSequence(c, i, action, refused)
    PROVE  LedgerInvariant' /\ StopStays
<1>1. CASE channels[c].state = "unknown"
  <2>1. UNCHANGED ledgerVars
    BY <1>1 DEF ReceiveSequence
  <2> QED
    BY <2>1, UnchangedIsBounded, InvariantIsSound, StepFromSound DEF ledgerVars
<1>2. CASE channels[c].state # "unknown"
  <2> DEFINE f == <<c, i>>
             state == IF refused \/ ~Live(c) THEN "not_started" ELSE "queued"
             es == Put(f, action, state)
  <2>1. RaiseReceived(c, i) /\ BoundEntries(es, bytes) /\ UNCHANGED fences
    BY <1>2 DEF ReceiveSequence
  <2>2. PICK cs : /\ Sound(entries, cs, stopped, fences)
                  /\ ChannelsBounded(cs)
                  /\ \A d \in Channels : cs[d].state = channels[d].state
    BY <1>2, <2>1, RaiseReceivedLemma
  <2>3. f \in Frames /\ f[1] = c
    BY FrameParts
  <2>4. /\ state \in {"queued", "not_started"}
        /\ state = "queued" => cs[c].state = "live"
    BY <2>2 DEF Live
  <2> HIDE DEF f, state
  <2>5. /\ es \in [Frames -> Entry]
        /\ es[f].state = state
        /\ \A g \in Frames : g # f => es[g] = entries[g]
    <3>1. entries \in [Frames -> Entry]
      BY <2>2 DEF Sound
    <3> QED
      BY <3>1, <2>3, <2>4, PutLemma
  <2> HIDE DEF es
  <2>6. Sound(es, cs, stopped, fences)
    BY <2>2, <2>3, <2>4, <2>5 DEF Sound
  <2>7. EntriesBounded(es) /\ FencesBounded(fences)
    BY <2>1, <2>5, BoundEntriesLemma, UnchangedIsBounded
  <2> QED
    BY <2>2, <2>6, <2>7, StepFromSound
<1> QED
  BY <1>1, <1>2

(* A frame whose entry is put in a state the channel allows.               *)
LEMMA PutStep ==
    ASSUME LedgerInvariant, NEW f \in Frames, NEW action \in Actions \cup {NoAction},
           NEW state \in {"running", "not_started"},
           BoundEntries(Put(f, action, state), bytes),
           UNCHANGED <<channels, stopped, fences>>
    PROVE  LedgerInvariant' /\ StopStays
<1> DEFINE es == Put(f, action, state)
<1>1. Sound(entries, channels, stopped, fences)
  BY InvariantIsSound
<1>2. /\ es \in [Frames -> Entry]
      /\ es[f].state = state
      /\ \A g \in Frames : g # f => es[g] = entries[g]
  <2>1. entries \in [Frames -> Entry]
    BY <1>1 DEF Sound
  <2> QED
    BY <2>1, PutLemma
<1>3. EntriesBounded(es) /\ ChannelsBounded(channels) /\ FencesBounded(fences)
  BY <1>2, BoundEntriesLemma, UnchangedIsBounded
<1> HIDE DEF es
<1>4. Sound(es, channels, stopped, fences)
  BY <1>1, <1>2 DEF Sound
<1> QED
  BY <1>3, <1>4, StepFromSound

LEMMA StartStep ==
    ASSUME LedgerInvariant, NEW c \in Channels, NEW i \in Ids,
           NEW action \in Actions \cup {NoAction}, Start(c, i, action)
    PROVE  LedgerInvariant' /\ StopStays
<1> DEFINE state == IF Live(c) THEN "running" ELSE "not_started"
<1>1. <<c, i>> \in Frames /\ state \in {"running", "not_started"}
  BY FrameParts
<1>2. /\ BoundEntries(Put(<<c, i>>, action, state), bytes)
      /\ UNCHANGED <<channels, stopped, fences>>
  BY DEF Start
<1> QED
  BY <1>1, <1>2, PutStep

LEMMA NotStartedStep ==
    ASSUME LedgerInvariant, NEW c \in Channels, NEW i \in Ids,
           NEW action \in Actions \cup {NoAction}, NotStarted(c, i, action)
    PROVE  LedgerInvariant' /\ StopStays
BY FrameParts, PutStep DEF NotStarted

LEMMA SetResultStep ==
    ASSUME LedgerInvariant, NEW f \in Frames, NEW size \in Sizes, SetResult(f, size)
    PROVE  LedgerInvariant' /\ StopStays
<1> DEFINE es == [entries EXCEPT ![f].state = "settled", ![f].bytes = size]
<1>1. Sound(entries, channels, stopped, fences)
  BY InvariantIsSound
<1>2. /\ es \in [Frames -> Entry]
      /\ es[f].state = "settled"
      /\ \A g \in Frames : g # f => es[g] = entries[g]
  BY <1>1, SizesAssumption DEF Sound, Entry
<1>3. EntriesBounded(es) /\ ChannelsBounded(channels) /\ FencesBounded(fences)
  BY <1>2, BoundEntriesLemma, UnchangedIsBounded DEF SetResult
<1> HIDE DEF es
<1>4. Sound(es, channels, stopped, fences)
  BY <1>1, <1>2 DEF Sound
<1> QED
  BY <1>3, <1>4, StepFromSound

LEMMA SettleStep ==
    ASSUME LedgerInvariant, NEW c \in Channels, NEW i \in Ids, NEW size \in Sizes,
           Settle(c, i, size)
    PROVE  LedgerInvariant' /\ StopStays
<1>1. CASE UNCHANGED ledgerVars
  BY <1>1, UnchangedIsBounded, InvariantIsSound, StepFromSound DEF ledgerVars
<1>2. CASE SetResult(<<c, i>>, size)
  BY <1>2, FrameParts, SetResultStep
<1> QED
  BY <1>1, <1>2 DEF Settle

LEMMA RetainStep ==
    ASSUME LedgerInvariant, NEW c \in Channels, NEW i \in Ids, NEW size \in Sizes,
           Retain(c, i, size)
    PROVE  LedgerInvariant' /\ StopStays
BY FrameParts, SetResultStep DEF Retain

(* Stopping channels leaves what is sound sound: what waits on them turns. *)
LEMMA StoppingIsSound ==
    ASSUME LedgerInvariant, NEW cs \in SUBSET Channels, NEW order \in StopOrders(cs)
    PROVE  /\ Sound(StopEntries(cs), StopChannels(cs), order, fences)
           /\ \A d \in Channels : /\ StopChannels(cs)[d].carried = channels[d].carried
                                  /\ d \notin cs => StopChannels(cs)[d] = channels[d]
                                  /\ channels[d].state = "stopped"
                                        => StopChannels(cs)[d].state = "stopped"
<1> DEFINE es == StopEntries(cs)
           ds == StopChannels(cs)
<1>1. Sound(entries, channels, stopped, fences)
  BY InvariantIsSound
<1>2. /\ order \in Seq(Channels)
      /\ ds \in [Channels -> Channel]
      /\ QueueIsExact(order, ds)
  BY StoppingLemma
<1>3. /\ es \in [Frames -> Entry]
      /\ \A f \in Frames : es[f].state =
            IF entries[f].state = "queued" /\ f[1] \in Stopping(cs)
              THEN "not_started" ELSE entries[f].state
  BY <1>1 DEF Sound, StopEntries, Entry
<1>4. \A d \in Channels :
         /\ d \in Stopping(cs) => ds[d].state = "stopped"
         /\ d \notin Stopping(cs) => ds[d] = channels[d]
         /\ ds[d].carried = channels[d].carried
  BY <1>1 DEF Sound, StopChannels, Channel
<1> HIDE DEF es, ds
<1>5. \A d \in Channels : ds[d].state = "unknown" => ds[d] = UnknownChannel
  BY <1>1, <1>4 DEF Sound
<1>6. \A f \in Frames : es[f].state = "queued" => ds[f[1]].state = "live"
  BY <1>1, <1>3, <1>4, FrameParts DEF Sound
<1>7. \A d \in Channels, a \in Actions :
         ds[d].state = "live" /\ ds[d].carried[a] > 0
             => ds[d].carried[a] >= fences[a].generation
  BY <1>1, <1>4 DEF Sound
<1>8. Sound(es, ds, order, fences)
  BY <1>1, <1>2, <1>3, <1>5, <1>6, <1>7 DEF Sound
<1>9. \A d \in Channels : /\ d \notin cs => ds[d] = channels[d]
                          /\ channels[d].state = "stopped" => ds[d].state = "stopped"
  BY <1>4 DEF Stopping, Live
<1> QED
  BY <1>4, <1>8, <1>9 DEF es, ds

LEMMA EndChannelStep ==
    ASSUME LedgerInvariant, NEW c \in Channels, EndChannel(c)
    PROVE  LedgerInvariant' /\ StopStays
<1> DEFINE es == StopEntries({c})
           ds == StopChannels({c})
<1>1. PICK order \in StopOrders({c}) : BoundChannels(ds, order)
  BY DEF EndChannel
<1>2. /\ Sound(es, ds, order, fences)
      /\ \A d \in Channels : channels[d].state = "stopped" => ds[d].state = "stopped"
  BY StoppingIsSound
<1>3. BoundEntries(es, bytes) /\ UNCHANGED fences
  BY DEF EndChannel
<1> HIDE DEF es, ds
<1>4. EntriesBounded(es) /\ ChannelsBounded(ds) /\ FencesBounded(fences)
  BY <1>1, <1>2, <1>3, BoundEntriesLemma, BoundChannelsLemma, UnchangedIsBounded DEF Sound
<1> QED
  BY <1>2, <1>4, StepFromSound

LEMMA LatestIsANumber == Latest \in Nat
<1>1. FencesIn(fences) \in SUBSET Actions
  BY DEF FencesIn
<1> QED
  BY <1>1, ActionsFinite DEF Latest

(* The generations of an owner, a fence and a channel are numbers.         *)
LEMMA GenerationsAreNumbers ==
    /\ \A g \in Generations : g \in Nat /\ g > 0
    /\ \A g \in Generations \cup {0} : g \in Nat
BY GenerationsAssumption

LEMMA RegisterFencedStep ==
    ASSUME LedgerInvariant, NEW c \in Channels, NEW owner \in Owners,
           RegisterFenced(c, owner)
    PROVE  LedgerInvariant' /\ StopStays
<1> DEFINE a == owner.action
           fs == [fences EXCEPT ![a].touched = Latest]
<1>1. Sound(entries, channels, stopped, fences) /\ a \in Actions
  BY InvariantIsSound DEF Owners
<1>2. /\ fs \in [Actions -> Fence]
      /\ \A b \in Actions : fs[b].generation = fences[b].generation
  BY <1>1, LatestIsANumber DEF Sound, Fence
<1>3. BoundFences(fs) /\ UNCHANGED <<entries, channels, stopped>>
  BY DEF RegisterFenced
<1> HIDE DEF fs
<1>4. Sound(entries, channels, stopped, fs)
  BY <1>1, <1>2 DEF Sound
<1>5. EntriesBounded(entries) /\ ChannelsBounded(channels) /\ FencesBounded(fs)
  BY <1>2, <1>3, BoundFencesLemma, UnchangedIsBounded
<1> QED
  BY <1>4, <1>5, StepFromSound

(* The one operation that touches every part: the newer owner becomes the  *)
(* fence, the channels it leaves behind stop, and its own carries it.      *)
LEMMA RegisterAdmittedStep ==
    ASSUME LedgerInvariant, NEW c \in Channels, NEW owner \in Owners,
           RegisterAdmitted(c, owner)
    PROVE  LedgerInvariant' /\ StopStays
<1> DEFINE a == owner.action
           g == owner.generation
           older == Older(c, owner)
           es == StopEntries(older)
           halted == StopChannels(older)
           cs == IF channels[c].state = "unknown" THEN halted
                 ELSE [halted EXCEPT ![c].carried[a] = IF @ < g THEN g ELSE @]
           fs == [fences EXCEPT ![a] = [generation |-> g, touched |-> Latest]]
<1>1. /\ Sound(entries, channels, stopped, fences)
      /\ a \in Actions /\ g \in Generations /\ older \in SUBSET Channels
  BY InvariantIsSound DEF Owners, Older
<1>2. PICK order \in StopOrders(older) : BoundChannels(cs, order)
  BY DEF RegisterAdmitted
<1>3. BoundEntries(es, bytes) /\ BoundFences(fs) /\ ~Fenced(owner)
  BY DEF RegisterAdmitted
<1>4. /\ Sound(es, halted, order, fences)
      /\ \A d \in Channels : /\ halted[d].carried = channels[d].carried
                             /\ d \notin older => halted[d] = channels[d]
                             /\ channels[d].state = "stopped" => halted[d].state = "stopped"
  BY <1>1, StoppingIsSound
<1>5. \A d \in Channels : d \in older <=>
         /\ g > fences[a].generation
         /\ d # c
         /\ channels[d].state # "unknown"
         /\ channels[d].carried[a] \in 1 .. g - 1
  BY DEF Older
<1>6. g >= fences[a].generation
  <2>1. fences[a].generation \in Nat
    BY <1>1, GenerationsAreNumbers DEF Sound, Fence
  <2>2. ~(g < fences[a].generation)
    BY <1>3 DEF Fenced
  <2> QED
    BY <2>1, <2>2, <1>1, GenerationsAreNumbers
<1>7. /\ fs \in [Actions -> Fence]
      /\ fs[a].generation = g
      /\ \A b \in Actions : b # a => fs[b] = fences[b]
  BY <1>1, LatestIsANumber DEF Sound, Fence
<1> HIDE DEF es, halted, fs, older
<1>8. /\ cs \in [Channels -> Channel]
      /\ \A d \in Channels : cs[d].state = halted[d].state
      /\ \A d \in Channels : d # c \/ channels[c].state = "unknown" => cs[d] = halted[d]
      /\ channels[c].state # "unknown" =>
            /\ \A b \in Actions : b # a => cs[c].carried[b] = halted[c].carried[b]
            /\ cs[c].carried[a] = IF halted[c].carried[a] < g THEN g ELSE halted[c].carried[a]
  <2> DEFINE raised == IF halted[c].carried[a] < g THEN g ELSE halted[c].carried[a]
  <2>1. halted \in [Channels -> Channel]
    BY <1>4 DEF Sound
  <2>2. CASE channels[c].state = "unknown"
    BY <2>1, <2>2
  <2>3. CASE channels[c].state # "unknown"
    <3>1. /\ halted[c] \in Channel
          /\ halted[c].carried \in [Actions -> Generations \cup {0}]
          /\ raised \in Generations \cup {0}
      BY <1>1, <2>1 DEF Channel
    <3>2. cs = [halted EXCEPT ![c].carried[a] = raised]
      BY <2>3
    <3> HIDE DEF cs, raised
    <3>3. [halted[c] EXCEPT !.carried[a] = raised] \in Channel
      BY <1>1, <3>1 DEF Channel
    <3>4. /\ cs \in [Channels -> Channel]
          /\ cs[c] = [halted[c] EXCEPT !.carried[a] = raised]
          /\ \A d \in Channels : d # c => cs[d] = halted[d]
      BY <2>1, <3>2, <3>3
    <3>5. /\ cs[c].state = halted[c].state
          /\ cs[c].carried = [halted[c].carried EXCEPT ![a] = raised]
      BY <3>1, <3>4 DEF Channel
    <3>6. /\ cs[c].carried[a] = raised
          /\ \A b \in Actions : b # a => cs[c].carried[b] = halted[c].carried[b]
      BY <1>1, <3>1, <3>5
    <3> QED
      BY <2>3, <3>4, <3>5, <3>6 DEF raised
  <2> QED
    BY <2>2, <2>3
<1> HIDE DEF cs
<1>9. QueueIsExact(order, cs)
  BY <1>4, <1>8, QueueDependsOnStates DEF Sound
<1>10. ASSUME NEW d \in Channels, NEW b \in Actions, cs[d].state = "live", cs[d].carried[b] > 0
       PROVE  cs[d].carried[b] >= fs[b].generation
  <2>1. /\ halted[d].state = "live"
        /\ halted[d].carried[b] \in Nat
        /\ halted[d].carried[b] > 0 => halted[d].carried[b] >= fences[b].generation
    BY <1>4, <1>8, <1>10, GenerationsAreNumbers DEF Sound, Channel
  <2>2. CASE b # a
    <3>1. cs[d].carried[b] = halted[d].carried[b]
      BY <1>8, <2>2
    <3> QED
      BY <1>7, <1>10, <2>1, <2>2, <3>1
  <2>3. CASE b = a /\ d = c
    <3>1. channels[c].state # "unknown"
      BY <1>1, <1>4, <1>5, <2>1, <2>3
    <3>2. cs[c].carried[a] = IF halted[c].carried[a] < g THEN g ELSE halted[c].carried[a]
      BY <1>8, <3>1
    <3> QED
      BY <1>1, <1>7, <2>1, <2>3, <3>2, GenerationsAreNumbers
  <2>4. CASE b = a /\ d # c
    <3>1. cs[d] = halted[d] /\ halted[d].carried[a] > 0
      BY <1>8, <1>10, <2>4
    <3>2. d \notin older
      <4>1. d \in older => channels[d].state = "unknown" \/ halted[d].state = "stopped"
        BY <1>1, <1>4 DEF halted, StopChannels, Stopping, Live, Sound, Channel
      <4> QED
        BY <4>1, <1>5, <2>1
    <3>3. channels[d].state = "live" /\ channels[d].carried[a] = halted[d].carried[a]
      BY <1>4, <2>1, <3>2
    <3>4. CASE g > fences[a].generation
      <4>1. channels[d].carried[a] \notin 1 .. g - 1
        BY <1>5, <2>4, <3>2, <3>3, <3>4
      <4> QED
        BY <1>1, <1>7, <2>1, <2>4, <3>1, <3>3, <4>1, GenerationsAreNumbers
    <3>5. CASE ~(g > fences[a].generation)
      <4>1. fences[a].generation \in Nat
        BY <1>1, GenerationsAreNumbers DEF Sound, Fence
      <4>2. g = fences[a].generation
        BY <1>1, <1>6, <3>5, <4>1, GenerationsAreNumbers
      <4> QED
        BY <1>7, <2>1, <2>4, <3>1, <4>2
    <3> QED
      BY <3>4, <3>5
  <2> QED
    BY <2>2, <2>3, <2>4
<1>11. Sound(es, cs, order, fs)
  <2>1. \A d \in Channels : cs[d].state = "unknown" => cs[d] = UnknownChannel
    <3>1. ASSUME NEW d \in Channels, cs[d].state = "unknown"
          PROVE  d # c \/ channels[c].state = "unknown"
      BY <1>4, <1>5, <1>8, <3>1
    <3> QED
      BY <1>4, <1>8, <3>1 DEF Sound
  <2>2. \A f \in Frames : es[f].state = "queued" => cs[f[1]].state = "live"
    BY <1>4, <1>8, FrameParts DEF Sound
  <2> QED
    BY <1>4, <1>7, <1>8, <1>9, <1>10, <2>1, <2>2 DEF Sound
<1>12. EntriesBounded(es) /\ ChannelsBounded(cs) /\ FencesBounded(fs)
  BY <1>2, <1>3, <1>11, BoundEntriesLemma, BoundChannelsLemma, BoundFencesLemma DEF Sound
<1> QED
  BY <1>4, <1>8, <1>11, <1>12, StepFromSound

-----------------------------------------------------------------------------
(* The theorems.                                                           *)

LEMMA InitInvariant == LedgerInit => LedgerInvariant
<1> SUFFICES ASSUME LedgerInit
             PROVE  LedgerInvariant
  OBVIOUS
<1>1. RecordsTypeOK
  BY BlankRecords, EmptySeq DEF LedgerInit, RecordsTypeOK
<1>2. ForgottenChannelsAreBlank
  BY DEF LedgerInit, ForgottenChannelsAreBlank
<1>3. StoppedQueueIsExact
  <2>1. DOMAIN stopped = {}
    BY DEF LedgerInit
  <2>2. {c \in Channels : channels[c].state = "stopped"} = {}
    BY DEF LedgerInit, UnknownChannel
  <2> QED
    BY <2>1, <2>2 DEF StoppedQueueIsExact, QueueIsExact
<1>4. QueuedFramesCanStart
  BY DEF LedgerInit, QueuedFramesCanStart, NoEntry
<1>5. LiveChannelsHoldTheFence
  BY DEF LedgerInit, LiveChannelsHoldTheFence, Live, UnknownChannel
<1> QED
  BY <1>1, <1>2, <1>3, <1>4, <1>5 DEF LedgerInvariant

LEMMA NextInvariant ==
    ASSUME LedgerInvariant, LedgerNext
    PROVE  LedgerInvariant' /\ StopStays
<1> SUFFICES ASSUME NEW c \in Channels,
                    \/ OpenChannel(c)
                    \/ EndChannel(c)
                    \/ \E owner \in Owners : Register(c, owner)
                    \/ \E i \in Ids : FrameOperation(c, i)
             PROVE  LedgerInvariant' /\ StopStays
  BY DEF LedgerNext
<1>1. CASE OpenChannel(c)
  BY <1>1, OpenChannelStep
<1>2. CASE EndChannel(c)
  BY <1>2, EndChannelStep
<1>3. CASE \E owner \in Owners : Register(c, owner)
  <2>1. PICK owner \in Owners : Register(c, owner)
    BY <1>3
  <2> QED
    BY <2>1, RegisterFencedStep, RegisterAdmittedStep DEF Register
<1>4. CASE \E i \in Ids : FrameOperation(c, i)
  <2>1. PICK i \in Ids : FrameOperation(c, i)
    BY <1>4
  <2>2. CASE ReceiveOther(c, i)
    BY <2>2, ReceiveOtherStep
  <2>3. ASSUME NEW action \in Actions \cup {NoAction}, NEW refused \in BOOLEAN,
               ReceiveSequence(c, i, action, refused)
        PROVE  LedgerInvariant' /\ StopStays
    BY <2>3, ReceiveSequenceStep
  <2>4. ASSUME NEW action \in Actions \cup {NoAction}, Start(c, i, action)
        PROVE  LedgerInvariant' /\ StopStays
    BY <2>4, StartStep
  <2>5. ASSUME NEW action \in Actions \cup {NoAction}, NotStarted(c, i, action)
        PROVE  LedgerInvariant' /\ StopStays
    BY <2>5, NotStartedStep
  <2>6. ASSUME NEW size \in Sizes, Settle(c, i, size) \/ Retain(c, i, size)
        PROVE  LedgerInvariant' /\ StopStays
    BY <2>6, SettleStep, RetainStep
  <2> QED
    BY <2>1, <2>2, <2>3, <2>4, <2>5, <2>6 DEF FrameOperation
<1> QED
  BY <1>1, <1>2, <1>3, <1>4

(* The inductive invariant holds of every behaviour of the ledger.         *)
THEOREM LedgerIsSound == LedgerSpec => []LedgerInvariant
<1>1. LedgerInit => LedgerInvariant
  BY InitInvariant
<1>2. LedgerInvariant /\ [LedgerNext]_ledgerVars => LedgerInvariant'
  <2>1. LedgerInvariant /\ UNCHANGED ledgerVars => LedgerInvariant'
    BY UnchangedIsBounded, InvariantIsSound, StepFromSound DEF ledgerVars
  <2> QED
    BY <2>1, NextInvariant
<1> QED
  BY <1>1, <1>2, PTL DEF LedgerSpec

(* No asker is told "running" of a waiting frame that nothing can run any  *)
(* more: the channel of a frame that waits its turn is live.               *)
THEOREM QueuedFramesAlwaysCanStart == LedgerSpec => []QueuedFramesCanStart
<1>1. LedgerInvariant => QueuedFramesCanStart
  BY DEF LedgerInvariant
<1> QED
  BY <1>1, LedgerIsSound, PTL

(* Fencing: a channel that may start a frame carries every Action it       *)
(* registered under the remembered generation or a newer one.              *)
THEOREM LiveChannelsAlwaysHoldTheFence == LedgerSpec => []LiveChannelsHoldTheFence
<1>1. LedgerInvariant => LiveChannelsHoldTheFence
  BY DEF LedgerInvariant
<1> QED
  BY <1>1, LedgerIsSound, PTL

(* The queue that bounds the stopped channels names exactly these, so a    *)
(* live channel is never forgotten and a stopped one never kept for ever.  *)
THEOREM StoppedQueueIsAlwaysExact == LedgerSpec => []StoppedQueueIsExact
<1>1. LedgerInvariant => StoppedQueueIsExact
  BY DEF LedgerInvariant
<1> QED
  BY <1>1, LedgerIsSound, PTL

(* A stopped channel never turns live.                                     *)
THEOREM StoppedChannelsStayStopped == LedgerSpec => StopIsFinal
<1>1. LedgerInvariant /\ [LedgerNext]_ledgerVars => [StopStays]_ledgerVars
  BY NextInvariant
<1>2. [][StopStays]_ledgerVars <=> StopIsFinal
  BY PTL DEF StopIsFinal, StopStays
<1> QED
  BY <1>1, <1>2, LedgerIsSound, PTL DEF LedgerSpec

-----------------------------------------------------------------------------
(* What an operation does to the frames it is not about.                   *)

(* An outcome stays or is dropped, a waiting frame stays or will never     *)
(* start: its channel stopped.                                             *)
Ages(f) ==
    \/ entries'[f].state = entries[f].state
    \/ Final(entries[f]) /\ entries'[f].state = "none"
    \/ /\ entries[f].state = "queued" /\ entries'[f].state \in {"not_started", "none"}
       /\ channels'[f[1]].state # "live"

OthersAge(f) == \A g \in Frames \ {f} : Ages(g)

(* What an operation says of the frame it is about, unless it was dropped. *)
Becomes(f, state) == entries'[f].state \in {state, "none"}

(* The last id received stays on record, or the channel is forgotten.      *)
Recalls(d) ==
    \/ channels'[d].state = "unknown"
    \/ /\ channels[d].state # "unknown"
       /\ channels[d].last_received <= channels'[d].last_received

(* The arrival of a frame is on record, unless its channel was forgotten.  *)
OnRecord(f) ==
    channels[f[1]].state = "unknown" \/ f[2] <= channels[f[1]].last_received

(* It is on record after the step.                                         *)
IsRecorded(f) ==
    channels'[f[1]].state = "unknown" \/ f[2] <= channels'[f[1]].last_received

(* Bounding keeps the state of an entry or drops one that is final.        *)
LEMMA BoundingDropsOutcomes ==
    ASSUME NEW es \in [Frames -> Entry], NEW sum, BoundEntries(es, sum), NEW f \in Frames
    PROVE  \/ entries'[f].state = es[f].state
           \/ Final(es[f]) /\ entries'[f].state = "none"
<1> DEFINE kept == HeldIn(es) \ Evicted(es)
           place(g) == Cardinality({h \in kept : es[h].place <= es[g].place})
<1>1. entries' = [g \in Frames |->
                     IF g \in kept THEN [es[g] EXCEPT !.place = place(g)] ELSE NoEntry]
  BY DEF BoundEntries
<1>2. [es[f] EXCEPT !.place = place(f)].state = es[f].state
  BY DEF Entry
<1>3. f \in kept \/ es[f].state = "none" \/ Final(es[f])
  BY DEF HeldIn, Evicted
<1>4. NoEntry.state = "none"
  BY DEF NoEntry
<1> HIDE DEF kept, place
<1> QED
  BY <1>1, <1>2, <1>3, <1>4

(* An operation that leaves the entries alone lets no frame change.        *)
LEMMA QuietEntriesAge ==
    /\ UNCHANGED entries => \A g \in Frames : Ages(g)
    /\ UNCHANGED ledgerVars => \A g \in Frames : Ages(g)
BY DEF Ages, ledgerVars

(* Setting one entry, and bounding.                                        *)
LEMMA PutAges ==
    ASSUME RecordsTypeOK, NEW f \in Frames, NEW action \in Actions \cup {NoAction},
           NEW state \in {"queued", "running", "settled", "not_started"},
           BoundEntries(Put(f, action, state), bytes)
    PROVE  /\ OthersAge(f)
           /\ Becomes(f, state)
           /\ state \in {"queued", "running"} => entries'[f].state = state
<1> DEFINE es == Put(f, action, state)
<1>1. /\ es \in [Frames -> Entry]
      /\ es[f].state = state
      /\ \A g \in Frames : g # f => es[g] = entries[g]
  BY PutLemma DEF RecordsTypeOK
<1> HIDE DEF es
<1>2. \A g \in Frames : \/ entries'[g].state = es[g].state
                        \/ Final(es[g]) /\ entries'[g].state = "none"
  BY <1>1, BoundingDropsOutcomes DEF es
<1> QED
  BY <1>1, <1>2 DEF OthersAge, Ages, Becomes, Final

(* A result is set on one entry, and the others are bounded.               *)
LEMMA SetResultAges ==
    ASSUME RecordsTypeOK, NEW f \in Frames, NEW size \in Sizes, SetResult(f, size)
    PROVE  OthersAge(f) /\ Becomes(f, "settled")
<1> DEFINE es == [entries EXCEPT ![f].state = "settled", ![f].bytes = size]
<1>1. size \in Nat
  BY SizesAssumption
<1>2. /\ es \in [Frames -> Entry]
      /\ es[f].state = "settled"
      /\ \A g \in Frames : g # f => es[g] = entries[g]
  BY <1>1 DEF RecordsTypeOK, Entry
<1>3. BoundEntries(es, bytes - entries[f].bytes + size)
  BY DEF SetResult
<1> HIDE DEF es
<1>4. \A g \in Frames : \/ entries'[g].state = es[g].state
                        \/ Final(es[g]) /\ entries'[g].state = "none"
  BY <1>2, <1>3, BoundingDropsOutcomes
<1> QED
  BY <1>2, <1>4 DEF OthersAge, Ages, Becomes

(* Stopping channels turns what waits on them, and bounding.               *)
LEMMA StopAges ==
    ASSUME RecordsTypeOK, NEW cs, NEW sum, BoundEntries(StopEntries(cs), sum),
           \A d \in Stopping(cs) : channels'[d].state # "live", NEW f \in Frames
    PROVE  Ages(f)
<1> DEFINE es == StopEntries(cs)
<1>1. /\ es \in [Frames -> Entry]
      /\ \/ es[f] = entries[f]
         \/ /\ entries[f].state = "queued" /\ f[1] \in Stopping(cs)
            /\ es[f].state = "not_started"
  BY DEF StopEntries, RecordsTypeOK, Entry
<1> HIDE DEF es
<1>2. \/ entries'[f].state = es[f].state
      \/ Final(es[f]) /\ entries'[f].state = "none"
  BY <1>1, BoundingDropsOutcomes DEF es
<1> QED
  BY <1>1, <1>2 DEF Ages, Final

(* What StopChannels makes of a channel is not live.                       *)
LEMMA StoppedAreNotLive ==
    ASSUME RecordsTypeOK, NEW cs, NEW d \in Stopping(cs), d \in Channels
    PROVE  StopChannels(cs)[d].state = "stopped"
BY DEF StopChannels, RecordsTypeOK, Channel

(* The end of a channel, and a fence, turn the frames that wait on the     *)
(* channels they stop.                                                     *)
LEMMA EndingAges ==
    ASSUME RecordsTypeOK, NEW c \in Channels, EndChannel(c)
    PROVE  \A g \in Frames : Ages(g)
<1>1. PICK order \in StopOrders({c}) : BoundChannels(StopChannels({c}), order)
  BY DEF EndChannel
<1>2. \A d \in Stopping({c}) : d \in Channels
  BY DEF Stopping
<1>3. \A d \in Stopping({c}) : channels'[d].state # "live"
  BY <1>1, <1>2, StoppedAreNotLive DEF BoundChannels, UnknownChannel
<1>4. BoundEntries(StopEntries({c}), bytes)
  BY DEF EndChannel
<1> QED
  BY <1>3, <1>4, StopAges

(* A fence stops every older channel, and what waits on them never         *)
(* starts.                                                                 *)
LEMMA RegisteringAges ==
    ASSUME RecordsTypeOK, NEW c \in Channels, NEW owner \in Owners, Register(c, owner)
    PROVE  \A g \in Frames : Ages(g)
<1>1. CASE RegisterFenced(c, owner)
  BY <1>1, QuietEntriesAge DEF RegisterFenced
<1>2. CASE RegisterAdmitted(c, owner)
  <2> DEFINE a == owner.action
             older == Older(c, owner)
             halted == StopChannels(older)
             cs == IF channels[c].state = "unknown"
                     THEN halted
                     ELSE [halted EXCEPT ![c].carried[a] =
                              IF @ < owner.generation THEN owner.generation ELSE @]
  <2>1. PICK order \in StopOrders(older) : BoundChannels(cs, order)
    BY <1>2 DEF RegisterAdmitted
  <2>2. BoundEntries(StopEntries(older), bytes)
    BY <1>2 DEF RegisterAdmitted
  <2>3. \A d \in Stopping(older) : d \in Channels \ {c}
    BY DEF Stopping, Older
  <2> HIDE DEF older
  <2>4. \A d \in Stopping(older) : halted[d].state = "stopped"
    BY <2>3, StoppedAreNotLive
  <2>5. \A d \in Channels \ {c} : cs[d] = halted[d]
    BY DEF StopChannels
  <2> HIDE DEF cs, halted
  <2>6. \A d \in Stopping(older) : channels'[d].state # "live"
    BY <2>1, <2>3, <2>4, <2>5 DEF BoundChannels, UnknownChannel
  <2> QED
    BY <2>2, <2>6, StopAges
<1> QED
  BY <1>1, <1>2 DEF Register

(* The other operations.                                                   *)
LEMMA ReceivingAges ==
    ASSUME RecordsTypeOK, NEW c \in Channels, NEW i \in Ids,
           NEW action \in Actions \cup {NoAction}, NEW refused,
           ReceiveSequence(c, i, action, refused)
    PROVE  /\ OthersAge(<<c, i>>)
           /\ \/ Ages(<<c, i>>)
              \/ entries'[<<c, i>>].state = "queued" /\ ~refused /\ Live(c)
              \/ Becomes(<<c, i>>, "not_started") /\ (refused \/ ~Live(c))
<1>1. <<c, i>> \in Frames
  BY FrameParts
<1>2. CASE channels[c].state = "unknown"
  BY <1>1, <1>2, QuietEntriesAge DEF ReceiveSequence, OthersAge
<1>3. CASE channels[c].state # "unknown"
  <2> DEFINE state == IF refused \/ ~Live(c) THEN "not_started" ELSE "queued"
  <2>1. BoundEntries(Put(<<c, i>>, action, state), bytes)
    BY <1>3 DEF ReceiveSequence
  <2>2. state \in {"queued", "running", "settled", "not_started"}
    OBVIOUS
  <2>3. /\ OthersAge(<<c, i>>)
        /\ Becomes(<<c, i>>, state)
        /\ state \in {"queued", "running"} => entries'[<<c, i>>].state = state
    BY <1>1, <2>1, <2>2, PutAges
  <2> QED
    BY <2>3
<1> QED
  BY <1>2, <1>3

(* A start makes a frame run, or not start once its channel stopped.       *)
LEMMA StartingAges ==
    ASSUME RecordsTypeOK, NEW c \in Channels, NEW i \in Ids,
           NEW action \in Actions \cup {NoAction}, Start(c, i, action)
    PROVE  /\ OthersAge(<<c, i>>)
           /\ Live(c) => entries'[<<c, i>>].state = "running"
           /\ ~Live(c) => Becomes(<<c, i>>, "not_started")
<1>1. <<c, i>> \in Frames
  BY FrameParts
<1> DEFINE state == IF Live(c) THEN "running" ELSE "not_started"
<1>2. BoundEntries(Put(<<c, i>>, action, state), bytes)
  BY DEF Start
<1>3. state \in {"queued", "running", "settled", "not_started"}
  OBVIOUS
<1>4. /\ OthersAge(<<c, i>>)
      /\ Becomes(<<c, i>>, state)
      /\ state \in {"queued", "running"} => entries'[<<c, i>>].state = state
  BY <1>1, <1>2, <1>3, PutAges
<1> QED
  BY <1>4

(* A frame is recorded as not started.                                     *)
LEMMA NotStartingAges ==
    ASSUME RecordsTypeOK, NEW c \in Channels, NEW i \in Ids,
           NEW action \in Actions \cup {NoAction}, NotStarted(c, i, action)
    PROVE  OthersAge(<<c, i>>) /\ Becomes(<<c, i>>, "not_started")
BY FrameParts, PutAges DEF NotStarted

(* A result is given to the frame that ran.                                *)
LEMMA SettlingAges ==
    ASSUME RecordsTypeOK, NEW c \in Channels, NEW i \in Ids, NEW size \in Sizes,
           Settle(c, i, size)
    PROVE  /\ OthersAge(<<c, i>>)
           /\ entries[<<c, i>>].state # "none" => Becomes(<<c, i>>, "settled")
<1>1. <<c, i>> \in Frames
  BY FrameParts
<1> QED
  BY <1>1, SetResultAges, QuietEntriesAge DEF Settle, OthersAge

(* A larger result is retained under a reference; no state changes.        *)
LEMMA RetainingAges ==
    ASSUME RecordsTypeOK, NEW f \in Frames, NEW size \in Sizes, Retain(f[1], f[2], size)
    PROVE  \A g \in Frames : Ages(g)
<1>1. f = <<f[1], f[2]>>
  BY DEF Frames
<1>2. entries[f].state = "settled" /\ SetResult(f, size)
  BY <1>1 DEF Retain
<1> QED
  BY <1>2, SetResultAges DEF OthersAge, Becomes, Ages, Final

-----------------------------------------------------------------------------
(* What is on record of the channels.                                      *)

LEMMA RecordedIdsAreNumbers ==
    ASSUME RecordsTypeOK
    PROVE  \A d \in Channels : channels[d].last_received \in Nat
<1>1. \A d \in Channels : channels[d].last_received \in Ids \cup {0}
  BY DEF RecordsTypeOK, Channel
<1>2. \A i \in Ids \cup {0} : i \in Nat
  BY IdsAssumption
<1> QED
  BY <1>1, <1>2

(* Bounding the channels forgets one or keeps its last id.                 *)
LEMMA BoundingRecalls ==
    ASSUME NEW cs, NEW order, BoundChannels(cs, order), NEW d \in Channels,
           \/ cs[d].state = "unknown"
           \/ /\ channels[d].state # "unknown"
              /\ channels[d].last_received <= cs[d].last_received
    PROVE  Recalls(d)
<1>1. channels'[d] = cs[d] \/ channels'[d] = UnknownChannel
  BY DEF BoundChannels
<1> QED
  BY <1>1 DEF Recalls, UnknownChannel

(* A frame that arrives raises the last id received, never lowers it.      *)
LEMMA RaisingRecalls ==
    ASSUME RecordsTypeOK, NEW c \in Channels, NEW i \in Ids,
           channels[c].state # "unknown", RaiseReceived(c, i)
    PROVE  /\ \A d \in Channels : Recalls(d)
           /\ IsRecorded(<<c, i>>)
<1> DEFINE cs == [channels EXCEPT ![c].last_received = IF @ < i THEN i ELSE @]
<1>1. BoundChannels(cs, stopped)
  BY DEF RaiseReceived
<1>2. i \in Nat /\ channels[c].last_received \in Nat
  BY RecordedIdsAreNumbers, IdsAssumption
<1>3. /\ cs[c].last_received = IF channels[c].last_received < i THEN i
                               ELSE channels[c].last_received
      /\ cs[c].state = channels[c].state
      /\ \A d \in Channels : d # c => cs[d] = channels[d]
  BY DEF RecordsTypeOK, Channel
<1> HIDE DEF cs
<1>4. channels[c].last_received <= cs[c].last_received /\ i <= cs[c].last_received
  BY <1>2, <1>3
<1>5. \A d \in Channels : Recalls(d)
  <2>1. \A d \in Channels \ {c} : \/ cs[d].state = "unknown"
                                  \/ /\ channels[d].state # "unknown"
                                     /\ channels[d].last_received <= cs[d].last_received
    BY <1>3, RecordedIdsAreNumbers
  <2> QED
    BY <1>1, <1>4, <2>1, BoundingRecalls
<1>6. channels'[c] = cs[c] \/ channels'[c] = UnknownChannel
  BY <1>1 DEF BoundChannels
<1> QED
  BY <1>4, <1>5, <1>6 DEF IsRecorded, UnknownChannel

(* An operation that leaves the channels alone keeps what is on record.    *)
LEMMA QuietChannelsRecall ==
    ASSUME RecordsTypeOK, UNCHANGED channels
    PROVE  \A d \in Channels : Recalls(d)
BY RecordedIdsAreNumbers DEF Recalls

(* A channel that is stopped keeps its last id.                            *)
LEMMA StoppingRecalls ==
    ASSUME RecordsTypeOK, NEW cs
    PROVE  \A d \in Channels :
              /\ StopChannels(cs)[d].last_received = channels[d].last_received
              /\ StopChannels(cs)[d].state = "unknown" <=> channels[d].state = "unknown"
BY DEF StopChannels, Stopping, Live, RecordsTypeOK, Channel

(* Every operation but the opening of a channel.                           *)
LEMMA ChannelOperationsRecall ==
    ASSUME RecordsTypeOK, NEW c \in Channels
    PROVE  /\ EndChannel(c) => \A d \in Channels : Recalls(d)
           /\ \A owner \in Owners : Register(c, owner) => \A d \in Channels : Recalls(d)
<1>1. ASSUME EndChannel(c), NEW d \in Channels
      PROVE  Recalls(d)
  <2>1. PICK order : BoundChannels(StopChannels({c}), order)
    BY <1>1 DEF EndChannel
  <2> QED
    BY <2>1, StoppingRecalls, BoundingRecalls, RecordedIdsAreNumbers
<1>2. ASSUME NEW owner \in Owners, Register(c, owner), NEW d \in Channels
      PROVE  Recalls(d)
  <2>1. CASE RegisterFenced(c, owner)
    BY <2>1, QuietChannelsRecall DEF RegisterFenced
  <2>2. CASE RegisterAdmitted(c, owner)
    <3> DEFINE halted == StopChannels(Older(c, owner))
               cs == IF channels[c].state = "unknown"
                       THEN halted
                       ELSE [halted EXCEPT ![c].carried[owner.action] =
                                IF @ < owner.generation THEN owner.generation ELSE @]
    <3>1. PICK order \in StopOrders(Older(c, owner)) : BoundChannels(cs, order)
      BY <2>2 DEF RegisterAdmitted
    <3>2. \A e \in Channels : halted[e] \in Channel
      BY DEF StopChannels, RecordsTypeOK, Channel
    <3>3. halted \in [Channels -> Channel]
      BY <3>2 DEF StopChannels
    <3>4. /\ halted[d].last_received = channels[d].last_received
          /\ halted[d].state = "unknown" <=> channels[d].state = "unknown"
      BY StoppingRecalls
    <3> HIDE DEF halted
    <3>5. cs[d].last_received = halted[d].last_received /\ cs[d].state = halted[d].state
      BY <3>3 DEF Channel
    <3> HIDE DEF cs
    <3> QED
      BY <3>1, <3>4, <3>5, BoundingRecalls, RecordedIdsAreNumbers
  <2> QED
    BY <1>2, <2>1, <2>2 DEF Register
<1> QED
  BY <1>1, <1>2

(* The operations on frames keep what is on record of every channel.       *)
LEMMA FrameOperationsRecall ==
    ASSUME RecordsTypeOK, NEW c \in Channels, NEW i \in Ids
    PROVE  /\ ReceiveOther(c, i) => IsRecorded(<<c, i>>) /\ \A d \in Channels : Recalls(d)
           /\ FrameOperation(c, i) => \A d \in Channels : Recalls(d)
<1>1. ASSUME ReceiveOther(c, i)
      PROVE  IsRecorded(<<c, i>>) /\ \A d \in Channels : Recalls(d)
  <2>1. CASE channels[c].state = "unknown"
    BY <1>1, <2>1, QuietChannelsRecall DEF ReceiveOther, IsRecorded
  <2>2. CASE channels[c].state # "unknown"
    BY <1>1, <2>2, RaisingRecalls DEF ReceiveOther
  <2> QED
    BY <2>1, <2>2
<1>2. ASSUME FrameOperation(c, i), NEW d \in Channels
      PROVE  Recalls(d)
  <2>1. CASE UNCHANGED channels
    BY <2>1, QuietChannelsRecall
  <2>2. CASE channels[c].state # "unknown" /\ RaiseReceived(c, i)
    BY <2>2, RaisingRecalls
  <2> QED
    BY <1>2, <2>1, <2>2 DEF FrameOperation, ReceiveOther, ReceiveSequence, Start, NotStarted,
       Settle, Retain, SetResult, ledgerVars
<1> QED
  BY <1>1, <1>2

(* A channel that is not opened keeps what is on record of it.             *)
LEMMA LedgerStepsRecall ==
    ASSUME RecordsTypeOK, [LedgerNext]_ledgerVars, NEW d \in Channels
    PROVE  \/ Recalls(d)
           \/ channels[d].state = "unknown" /\ channels'[d].state = "live"
<1>1. CASE UNCHANGED ledgerVars
  BY <1>1, QuietChannelsRecall DEF ledgerVars
<1>2. CASE LedgerNext
  <2>1. PICK c \in Channels :
           \/ OpenChannel(c)
           \/ EndChannel(c)
           \/ \E owner \in Owners : Register(c, owner)
           \/ \E i \in Ids : FrameOperation(c, i)
    BY <1>2 DEF LedgerNext
  <2>2. CASE OpenChannel(c)
    <3> DEFINE cs == [channels EXCEPT ![c].state = "live"]
    <3>1. BoundChannels(cs, stopped) /\ channels[c].state = "unknown"
      BY <2>2 DEF OpenChannel
    <3>2. channels'[d] = cs[d] \/ channels'[d] = UnknownChannel
      BY <3>1 DEF BoundChannels
    <3>3. cs[c].state = "live" /\ (d # c => cs[d] = channels[d])
      BY DEF RecordsTypeOK, Channel
    <3> HIDE DEF cs
    <3> QED
      BY <3>1, <3>2, <3>3, RecordedIdsAreNumbers DEF Recalls, UnknownChannel
  <2>3. CASE ~OpenChannel(c)
    BY <2>1, <2>3, ChannelOperationsRecall, FrameOperationsRecall
  <2> QED
    BY <2>2, <2>3
<1> QED
  BY <1>1, <1>2

-----------------------------------------------------------------------------
(* Sums.  The bytes held are a sum over a set, which the community modules *)
(* define by recursion.  What it computes is proved by induction on a set  *)
(* with the least element: the numbers that are no counterexample are all. *)

(* Induction on the numbers, on a set in the place of a predicate.         *)
LEMMA EveryNumber ==
    ASSUME NEW G, 0 \in G, \A n \in Nat : n \in G => n + 1 \in G
    PROVE  Nat \subseteq G
<1> DEFINE R == {ss \in Nat \X Nat : ss[1] < ss[2]}
           T == Nat \ G
<1>1. IsWellFoundedOn(R, Nat)
  BY NatLessThanWellFounded DEF OpToRel
<1> SUFFICES ASSUME T # {} PROVE FALSE
  OBVIOUS
<1>2. PICK x \in T : \A y \in T : ~ (<<y, x>> \in R)
  <2>1. T \subseteq Nat
    OBVIOUS
  <2> HIDE DEF T, R
  <2> QED
    BY <1>1, <2>1, WFMin
<1>3. x \in Nat /\ x # 0
  OBVIOUS
<1>4. x - 1 \in Nat /\ x - 1 < x /\ (x - 1) + 1 = x
  BY <1>3
<1>5. x - 1 \notin G
  BY <1>4
<1>6. <<x - 1, x>> \in R
  BY <1>3, <1>4
<1> QED
  BY <1>2, <1>4, <1>5, <1>6

(* The subsets of a finite set, each from those with one element less.     *)
LEMMA EverySubset ==
    ASSUME NEW S, IsFiniteSet(S), NEW G,
           \A T \in SUBSET S : (\A x \in T : T \ {x} \in G) => T \in G
    PROVE  SUBSET S \subseteq G
<1> DEFINE N == {n \in Nat : \A T \in SUBSET S : Cardinality(T) <= n => T \in G}
<1>1. \A T \in SUBSET S : IsFiniteSet(T) /\ Cardinality(T) \in Nat
  BY FS_Subset, FS_CardinalityType
<1>2. 0 \in N
  <2> SUFFICES ASSUME NEW T \in SUBSET S, Cardinality(T) <= 0 PROVE T \in G
    OBVIOUS
  <2>1. T = {}
    BY <1>1, FS_EmptySet
  <2> QED
    BY <2>1
<1>3. ASSUME NEW n \in Nat, n \in N
      PROVE  n + 1 \in N
  <2> SUFFICES ASSUME NEW T \in SUBSET S, Cardinality(T) <= n + 1 PROVE T \in G
    OBVIOUS
  <2>1. ASSUME NEW x \in T
        PROVE  T \ {x} \in G
    <3>1. Cardinality(T \ {x}) = Cardinality(T) - 1
      BY <1>1, FS_RemoveElement
    <3>2. Cardinality(T \ {x}) <= n
      BY <1>1, <3>1
    <3> QED
      BY <1>3, <3>2
  <2> QED
    BY <2>1
<1> HIDE DEF N
<1>4. Nat \subseteq N
  BY <1>2, <1>3, EveryNumber
<1> QED
  BY <1>1, <1>4 DEF N

(* The bytes of a set, the element first that MapThenSumSet takes first.   *)
First(T) == CHOOSE x \in T : TRUE

SumsOn(es, T, g) ==
    g = [s \in SUBSET T |-> IF s = {} THEN 0 ELSE es[First(s)].bytes + g[s \ {First(s)}]]

SumOn(es, T) ==
    CHOOSE g : g = [s \in SUBSET T |->
                       IF s = {} THEN 0 ELSE es[First(s)].bytes + g[s \ {First(s)}]]

(* A set that is not empty has a first element.                            *)
LEMMA FirstIsIn == ASSUME NEW T, T # {} PROVE First(T) \in T
BY DEF First

(* The recursion that defines a sum has a solution, found number by        *)
(* number.                                                                 *)
LEMMA SumExists ==
    ASSUME NEW es, NEW T, IsFiniteSet(T)
    PROVE  \E g : SumsOn(es, T, g)
<1> DEFINE Step(g, s) == IF s = {} THEN 0 ELSE es[First(s)].bytes + g[s \ {First(s)}]
           UpTo(g, n) == \A s \in SUBSET T : Cardinality(s) <= n => g[s] = Step(g, s)
           N == {n \in Nat : \E g : UpTo(g, n)}
<1>1. \A s \in SUBSET T : IsFiniteSet(s) /\ Cardinality(s) \in Nat
  BY FS_Subset, FS_CardinalityType
<1>2. ASSUME NEW s \in SUBSET T, s # {}
      PROVE  s \ {First(s)} \in SUBSET T /\ Cardinality(s \ {First(s)}) = Cardinality(s) - 1
  BY <1>1, <1>2, FirstIsIn, FS_RemoveElement
<1>3. ASSUME NEW g, NEW n \in Nat, UpTo(g, n)
      PROVE  UpTo([s \in SUBSET T |-> IF Cardinality(s) <= n THEN g[s] ELSE Step(g, s)], n + 1)
  <2> DEFINE h == [s \in SUBSET T |-> IF Cardinality(s) <= n THEN g[s] ELSE Step(g, s)]
  <2> SUFFICES ASSUME NEW s \in SUBSET T, Cardinality(s) <= n + 1 PROVE h[s] = Step(h, s)
    OBVIOUS
  <2>1. h[s] = Step(g, s)
    BY <1>3
  <2>2. CASE s = {}
    BY <2>1, <2>2
  <2>3. CASE s # {}
    <3>1. s \ {First(s)} \in SUBSET T /\ Cardinality(s \ {First(s)}) <= n
      BY <1>1, <1>2, <2>3
    <3>2. h[s \ {First(s)}] = g[s \ {First(s)}]
      BY <3>1
    <3> QED
      BY <2>1, <2>3, <3>2
  <2> QED
    BY <2>2, <2>3
<1>4. 0 \in N
  <2> DEFINE h == [s \in SUBSET T |-> 0]
  <2>1. UpTo(h, 0)
    <3> SUFFICES ASSUME NEW s \in SUBSET T, Cardinality(s) <= 0 PROVE h[s] = Step(h, s)
      OBVIOUS
    <3>1. s = {}
      BY <1>1, FS_EmptySet
    <3> QED
      BY <3>1
  <2> HIDE DEF UpTo
  <2> QED
    BY <2>1
<1>5. ASSUME NEW n \in Nat, n \in N
      PROVE  n + 1 \in N
  <2> HIDE DEF UpTo, Step
  <2>1. PICK g : UpTo(g, n)
    BY <1>5
  <2>2. UpTo([s \in SUBSET T |-> IF Cardinality(s) <= n THEN g[s] ELSE Step(g, s)], n + 1)
    BY <1>3, <2>1
  <2>3. n + 1 \in Nat
    OBVIOUS
  <2> QED
    BY <2>2, <2>3
<1> HIDE DEF N
<1>6. Cardinality(T) \in N
  BY <1>1, <1>4, <1>5, EveryNumber
<1>7. PICK g : UpTo(g, Cardinality(T))
  BY <1>6 DEF N
<1> DEFINE h == [s \in SUBSET T |-> g[s]]
<1>8. \A s \in SUBSET T : h[s] = Step(h, s)
  <2> SUFFICES ASSUME NEW s \in SUBSET T PROVE h[s] = Step(h, s)
    OBVIOUS
  <2>1. Cardinality(s) <= Cardinality(T)
    BY FS_Subset
  <2>2. h[s] = Step(g, s)
    BY <1>7, <2>1
  <2>3. s # {} => h[s \ {First(s)}] = g[s \ {First(s)}]
    BY <1>2
  <2> QED
    BY <2>2, <2>3
<1>9. SumsOn(es, T, h)
  <2>1. h = [s \in SUBSET T |-> h[s]]
    OBVIOUS
  <2>2. h = [s \in SUBSET T |-> Step(h, s)]
    BY <1>8
  <2> HIDE DEF h
  <2> QED
    BY <2>2 DEF SumsOn
<1> QED
  BY <1>9

(* So the bytes of a set are the value of a function that solves it.       *)
LEMMA SumOnSums ==
    ASSUME NEW es, NEW T, IsFiniteSet(T)
    PROVE  /\ BytesIn(es, T) = SumOn(es, T)[T]
           /\ \A s \in SUBSET T :
                 SumOn(es, T)[s] = IF s = {} THEN 0
                                   ELSE es[First(s)].bytes + SumOn(es, T)[s \ {First(s)}]
<1>1. BytesIn(es, T) = SumOn(es, T)[T]
  BY DEF BytesIn, MapThenSumSet, MapThenFoldSet, SumOn, First
<1>2. SumsOn(es, T, SumOn(es, T))
  <2>1. \E g : SumsOn(es, T, g)
    BY SumExists
  <2>2. \E g : g = [s \in SUBSET T |->
                      IF s = {} THEN 0 ELSE es[First(s)].bytes + g[s \ {First(s)}]]
    BY <2>1 DEF SumsOn
  <2> QED
    BY <2>2 DEF SumsOn, SumOn
<1> QED
  BY <1>1, <1>2 DEF SumsOn

(* Whatever set it was computed for, a sum is the same.                    *)
LEMMA SumsAgree ==
    ASSUME NEW es, NEW T, IsFiniteSet(T), NEW S \in SUBSET T
    PROVE  \A s \in SUBSET S : SumOn(es, T)[s] = SumOn(es, S)[s]
<1> DEFINE G == {s \in SUBSET S : SumOn(es, T)[s] = SumOn(es, S)[s]}
<1>1. IsFiniteSet(S)
  BY FS_Subset
<1>2. ASSUME NEW s \in SUBSET S, \A x \in s : s \ {x} \in G
      PROVE  s \in G
  <2>1. /\ SumOn(es, T)[s] = IF s = {} THEN 0
                             ELSE es[First(s)].bytes + SumOn(es, T)[s \ {First(s)}]
        /\ SumOn(es, S)[s] = IF s = {} THEN 0
                             ELSE es[First(s)].bytes + SumOn(es, S)[s \ {First(s)}]
    <3>1. \A t \in SUBSET T :
             SumOn(es, T)[t] = IF t = {} THEN 0
                               ELSE es[First(t)].bytes + SumOn(es, T)[t \ {First(t)}]
      BY SumOnSums
    <3>2. \A t \in SUBSET S :
             SumOn(es, S)[t] = IF t = {} THEN 0
                               ELSE es[First(t)].bytes + SumOn(es, S)[t \ {First(t)}]
      BY <1>1, SumOnSums
    <3> QED
      BY <3>1, <3>2
  <2>2. s # {} => s \ {First(s)} \in G
    BY <1>2, FirstIsIn
  <2> QED
    BY <2>1, <2>2
<1> HIDE DEF G
<1>3. SUBSET S \subseteq G
  BY <1>1, <1>2, EverySubset
<1> QED
  BY <1>3 DEF G

(* The bytes of a set, from those of the set without its first element.    *)
LEMMA BytesFromFirst ==
    ASSUME NEW es, NEW T, IsFiniteSet(T)
    PROVE  BytesIn(es, T) = IF T = {} THEN 0
                            ELSE es[First(T)].bytes + BytesIn(es, T \ {First(T)})
<1> DEFINE rest == T \ {First(T)}
<1>1. rest \in SUBSET T /\ IsFiniteSet(rest)
  BY FS_Subset
<1>2. SumOn(es, T)[rest] = SumOn(es, rest)[rest]
  BY <1>1, SumsAgree
<1>3. BytesIn(es, rest) = SumOn(es, rest)[rest]
  BY <1>1, SumOnSums
<1>4. BytesIn(es, T) = SumOn(es, T)[T]
  BY SumOnSums
<1>5. SumOn(es, T)[T] = IF T = {} THEN 0
                        ELSE es[First(T)].bytes + SumOn(es, T)[rest]
  BY SumOnSums
<1> HIDE DEF rest
<1>6. BytesIn(es, T) = IF T = {} THEN 0 ELSE es[First(T)].bytes + BytesIn(es, rest)
  BY <1>2, <1>3, <1>4, <1>5
<1> QED
  BY <1>6 DEF rest

(* Nothing weighs nothing.                                                 *)
LEMMA BytesOfNothing == \A es : BytesIn(es, {}) = 0
BY FS_EmptySet, BytesFromFirst

(* Entries whose bytes are numbers.                                        *)
Weighed(es, T) == IsFiniteSet(T) /\ \A f \in T : es[f].bytes \in Nat

(* A sum of numbers is a number.                                           *)
LEMMA BytesAreNumbers ==
    ASSUME NEW es, NEW T, Weighed(es, T)
    PROVE  BytesIn(es, T) \in Nat
<1> DEFINE G == {s \in SUBSET T : BytesIn(es, s) \in Nat}
<1>1. ASSUME NEW s \in SUBSET T, \A x \in s : s \ {x} \in G
      PROVE  s \in G
  <2>1. IsFiniteSet(s)
    BY FS_Subset DEF Weighed
  <2>2. CASE s = {}
    BY <2>2, BytesOfNothing
  <2>3. CASE s # {}
    <3>1. First(s) \in s /\ es[First(s)].bytes \in Nat
      BY <2>3, FirstIsIn DEF Weighed
    <3>2. BytesIn(es, s \ {First(s)}) \in Nat
      BY <1>1, <3>1
    <3>3. BytesIn(es, s) = es[First(s)].bytes + BytesIn(es, s \ {First(s)})
      BY <2>1, <2>3, BytesFromFirst
    <3> QED
      BY <3>1, <3>2, <3>3
  <2> QED
    BY <2>2, <2>3
<1> HIDE DEF G
<1>2. SUBSET T \subseteq G
  BY <1>1, EverySubset DEF Weighed
<1> QED
  BY <1>2 DEF G

(* Any element may be taken first.                                         *)
LEMMA BytesFromAny ==
    ASSUME NEW es, NEW T, Weighed(es, T)
    PROVE  \A x \in T : BytesIn(es, T) = es[x].bytes + BytesIn(es, T \ {x})
<1> DEFINE Splits(s) == \A x \in s : BytesIn(es, s) = es[x].bytes + BytesIn(es, s \ {x})
           G == {s \in SUBSET T : Splits(s)}
<1>1. \A s \in SUBSET T : IsFiniteSet(s) /\ BytesIn(es, s) \in Nat
  <2> SUFFICES ASSUME NEW s \in SUBSET T PROVE Weighed(es, s)
    BY BytesAreNumbers DEF Weighed
  <2> QED
    BY FS_Subset DEF Weighed
<1>2. \A x \in T : es[x].bytes \in Nat
  BY DEF Weighed
<1>3. ASSUME NEW s \in SUBSET T, \A x \in s : s \ {x} \in G
      PROVE  s \in G
  <2> SUFFICES ASSUME NEW x \in s PROVE BytesIn(es, s) = es[x].bytes + BytesIn(es, s \ {x})
    OBVIOUS
  <2> DEFINE c == First(s)
             both == s \ {c, x}
  <2>1. c \in s
    BY FirstIsIn
  <2>2. BytesIn(es, s) = es[c].bytes + BytesIn(es, s \ {c})
    BY <1>1, BytesFromFirst
  <2> HIDE DEF c
  <2>3. CASE c = x
    BY <2>2, <2>3
  <2>4. CASE c # x
    <3>1. /\ x \in s \ {c} /\ (s \ {c}) \ {x} = both
          /\ c \in s \ {x} /\ (s \ {x}) \ {c} = both
      BY <2>1, <2>4
    <3>2. s \ {c} \in G /\ s \ {x} \in G
      BY <1>3, <2>1
    <3>3. BytesIn(es, s \ {c}) = es[x].bytes + BytesIn(es, both)
      BY <3>1, <3>2
    <3>4. BytesIn(es, s \ {x}) = es[c].bytes + BytesIn(es, both)
      BY <3>1, <3>2
    <3>5. es[c].bytes \in Nat /\ es[x].bytes \in Nat /\ BytesIn(es, both) \in Nat
      BY <1>1, <1>2, <2>1
    <3> HIDE DEF both
    <3> QED
      BY <2>2, <3>3, <3>4, <3>5
  <2> QED
    BY <2>3, <2>4
<1> HIDE DEF G
<1>4. SUBSET T \subseteq G
  BY <1>3, EverySubset DEF Weighed
<1> QED
  BY <1>4 DEF G

(* The bytes of a set, and of a part of it.                                *)
LEMMA BytesOfPart ==
    ASSUME NEW es, NEW T, Weighed(es, T), NEW A \in SUBSET T
    PROVE  BytesIn(es, T) = BytesIn(es, A) + BytesIn(es, T \ A)
<1> DEFINE G == {s \in SUBSET T : BytesIn(es, T) = BytesIn(es, s) + BytesIn(es, T \ s)}
<1>1. \A s \in SUBSET T : Weighed(es, s)
  BY FS_Subset DEF Weighed
<1>2. \A s \in SUBSET T : BytesIn(es, s) \in Nat
  BY <1>1, BytesAreNumbers
<1>3. ASSUME NEW s \in SUBSET T, \A x \in s : s \ {x} \in G
      PROVE  s \in G
  <2>1. CASE s = {}
    <3>1. T \ s = T /\ BytesIn(es, s) = 0 /\ BytesIn(es, T) \in Nat
      BY <1>2, <2>1, BytesOfNothing
    <3> QED
      BY <3>1
  <2>2. CASE s # {}
    <3>1. PICK x \in s : TRUE
      BY <2>2
    <3> DEFINE rest == s \ {x}
               more == T \ rest
    <3>2. BytesIn(es, s) = es[x].bytes + BytesIn(es, rest)
      BY <1>1, BytesFromAny
    <3>3. x \in more /\ more \ {x} = T \ s /\ more \in SUBSET T /\ rest \in SUBSET T
      OBVIOUS
    <3>4. BytesIn(es, more) = es[x].bytes + BytesIn(es, T \ s)
      BY <1>1, <3>3, BytesFromAny
    <3>5. BytesIn(es, T) = BytesIn(es, rest) + BytesIn(es, more)
      BY <1>3
    <3>6. /\ es[x].bytes \in Nat /\ BytesIn(es, rest) \in Nat /\ BytesIn(es, T \ s) \in Nat
          /\ BytesIn(es, s) \in Nat
      BY <1>2 DEF Weighed
    <3> HIDE DEF rest, more
    <3> QED
      BY <3>2, <3>4, <3>5, <3>6
  <2> QED
    BY <2>1, <2>2
<1> HIDE DEF G
<1>4. SUBSET T \subseteq G
  BY <1>3, EverySubset DEF Weighed
<1> QED
  BY <1>4 DEF G

(* Equal results have equal sums.                                          *)
LEMMA BytesOfEquals ==
    ASSUME NEW es, NEW ds, NEW T, IsFiniteSet(T), \A f \in T : es[f].bytes = ds[f].bytes
    PROVE  BytesIn(es, T) = BytesIn(ds, T)
<1> DEFINE G == {s \in SUBSET T : BytesIn(es, s) = BytesIn(ds, s)}
<1>1. ASSUME NEW s \in SUBSET T, \A x \in s : s \ {x} \in G
      PROVE  s \in G
  <2>1. /\ BytesIn(es, s) = IF s = {} THEN 0
                            ELSE es[First(s)].bytes + BytesIn(es, s \ {First(s)})
        /\ BytesIn(ds, s) = IF s = {} THEN 0
                            ELSE ds[First(s)].bytes + BytesIn(ds, s \ {First(s)})
    BY FS_Subset, BytesFromFirst
  <2>2. s # {} => First(s) \in s /\ s \ {First(s)} \in G
    BY <1>1, FirstIsIn
  <2> QED
    BY <2>1, <2>2
<1> HIDE DEF G
<1>2. SUBSET T \subseteq G
  BY <1>1, EverySubset
<1> QED
  BY <1>2 DEF G

-----------------------------------------------------------------------------
(* Weighing: an operation hands to the bounds the bytes of what it holds.  *)

Weighs(es, sum) ==
    /\ es \in [Frames -> Entry]
    /\ sum = BytesIn(es, HeldIn(es))
    /\ \A f \in Frames :
          entries[f].state # "none"
              => es[f].state # "none" /\ es[f].place = entries[f].place

(* An operation leaves the entries and their sum alone, or bounds what it  *)
(* weighed.                                                                *)
Rebounds ==
    \/ UNCHANGED <<entries, bytes>>
    \/ \E es, sum : Weighs(es, sum) /\ BoundEntries(es, sum)

(* Only finite sets are weighed.                                           *)
LEMMA FramesAreFinite == \A S \in SUBSET Frames : IsFiniteSet(S)
<1>1. IsFiniteSet(Frames)
  BY FS_Product, ChannelsAssumption, IdsAssumption DEF Frames
<1> QED
  BY <1>1, FS_Subset

(* Entries weigh a number of bytes.                                        *)
LEMMA EntriesWeighed ==
    ASSUME NEW es \in [Frames -> Entry], NEW T \in SUBSET Frames
    PROVE  Weighed(es, T) /\ BytesIn(es, T) \in Nat
<1>1. \A f \in Frames : es[f].bytes \in Nat
  BY DEF Entry
<1>2. Weighed(es, T)
  BY <1>1, FramesAreFinite DEF Weighed
<1> QED
  BY <1>2, BytesAreNumbers

(* A new entry weighs nothing, and the state of an old one is no weight.   *)
LEMMA PutWeighs ==
    ASSUME RecordsTypeOK, BytesAreExact, NEW f \in Frames,
           NEW action \in Actions \cup {NoAction},
           NEW state \in {"queued", "running", "settled", "not_started"}
    PROVE  Weighs(Put(f, action, state), bytes)
<1> DEFINE es == Put(f, action, state)
<1>1. /\ es \in [Frames -> Entry]
      /\ es[f].state = state
      /\ \A g \in Frames : g # f => es[g] = entries[g]
  BY PutLemma DEF RecordsTypeOK
<1>2. /\ entries \in [Frames -> Entry]
      /\ bytes = BytesIn(entries, HeldIn(entries))
  BY DEF RecordsTypeOK, BytesAreExact
<1>3. /\ entries[f].state = "none" => es[f].bytes = 0
      /\ entries[f].state # "none" => /\ es[f].bytes = entries[f].bytes
                                      /\ es[f].place = entries[f].place
  BY <1>2 DEF Put, Entry
<1>4. HeldIn(es) = HeldIn(entries) \cup {f}
  BY <1>1 DEF HeldIn
<1> HIDE DEF es
<1> DEFINE H == HeldIn(entries)
<1>5. H \in SUBSET Frames /\ H \cup {f} \in SUBSET Frames /\ IsFiniteSet(H)
  BY FramesAreFinite DEF HeldIn
<1>6. (f \in H) <=> entries[f].state # "none"
  BY DEF HeldIn
<1> HIDE DEF H
<1>7. BytesIn(es, HeldIn(es)) = BytesIn(entries, H)
  <2>1. CASE entries[f].state = "none"
    <3>1. BytesIn(es, H \cup {f}) = es[f].bytes + BytesIn(es, (H \cup {f}) \ {f})
      BY <1>1, <1>5, EntriesWeighed, BytesFromAny
    <3>2. (H \cup {f}) \ {f} = H /\ es[f].bytes = 0
      BY <1>3, <1>6, <2>1
    <3>3. BytesIn(es, H) = BytesIn(entries, H)
      <4>1. \A g \in H : es[g].bytes = entries[g].bytes
        BY <1>1, <1>5, <1>6, <2>1
      <4> QED
        BY <1>5, <4>1, BytesOfEquals
    <3>4. BytesIn(es, H) \in Nat
      BY <1>1, <1>5, EntriesWeighed
    <3> QED
      BY <1>4, <3>1, <3>2, <3>3, <3>4 DEF H
  <2>2. CASE entries[f].state # "none"
    <3>1. H \cup {f} = H
      BY <1>6, <2>2
    <3>2. \A g \in H : es[g].bytes = entries[g].bytes
      BY <1>1, <1>3, <1>5, <2>2
    <3>3. BytesIn(es, H) = BytesIn(entries, H)
      BY <1>5, <3>2, BytesOfEquals
    <3>4. HeldIn(es) = H
      BY <1>4, <3>1 DEF H
    <3> QED
      BY <3>3, <3>4
  <2> QED
    BY <2>1, <2>2
<1>8. \A g \in Frames :
         entries[g].state # "none"
             => es[g].state # "none" /\ es[g].place = entries[g].place
  BY <1>1, <1>3
<1> QED
  BY <1>1, <1>2, <1>7, <1>8 DEF Weighs, H, es

(* Stopping changes states only.                                           *)
LEMMA StopWeighs ==
    ASSUME RecordsTypeOK, BytesAreExact, NEW cs
    PROVE  Weighs(StopEntries(cs), bytes)
<1> DEFINE es == StopEntries(cs)
           H == HeldIn(entries)
<1>1. /\ es \in [Frames -> Entry]
      /\ \A g \in Frames : /\ es[g].bytes = entries[g].bytes
                           /\ es[g].place = entries[g].place
                           /\ (es[g].state = "none") <=> (entries[g].state = "none")
  BY DEF StopEntries, RecordsTypeOK, Entry
<1> HIDE DEF es
<1>2. HeldIn(es) = H /\ H \in SUBSET Frames
  BY <1>1 DEF HeldIn
<1>3. BytesIn(es, H) = BytesIn(entries, H)
  <2>1. IsFiniteSet(H) /\ \A g \in H : es[g].bytes = entries[g].bytes
    BY <1>1, <1>2, FramesAreFinite
  <2> HIDE DEF H
  <2> QED
    BY <2>1, BytesOfEquals
<1> QED
  BY <1>1, <1>2, <1>3 DEF Weighs, BytesAreExact, es

(* A result takes the place of the one before in the sum.                  *)
LEMMA SetResultWeighs ==
    ASSUME RecordsTypeOK, BytesAreExact, NEW f \in Frames, NEW size \in Sizes,
           entries[f].state # "none"
    PROVE  Weighs([entries EXCEPT ![f].state = "settled", ![f].bytes = size],
                  bytes - entries[f].bytes + size)
<1> DEFINE es == [entries EXCEPT ![f].state = "settled", ![f].bytes = size]
           H == HeldIn(entries)
<1>1. size \in Nat
  BY SizesAssumption
<1>2. /\ entries \in [Frames -> Entry]
      /\ bytes = BytesIn(entries, H)
  BY DEF RecordsTypeOK, BytesAreExact
<1>3. /\ es \in [Frames -> Entry]
      /\ es[f].state = "settled"
      /\ es[f].bytes = size
      /\ es[f].place = entries[f].place
      /\ \A g \in Frames : g # f => es[g] = entries[g]
  BY <1>1, <1>2 DEF Entry
<1> HIDE DEF es
<1>4. HeldIn(es) = H /\ H \in SUBSET Frames /\ f \in H
  BY <1>3 DEF HeldIn
<1> HIDE DEF H
<1>5. BytesIn(es, H) = es[f].bytes + BytesIn(es, H \ {f})
  BY <1>3, <1>4, EntriesWeighed, BytesFromAny
<1>6. BytesIn(entries, H) = entries[f].bytes + BytesIn(entries, H \ {f})
  BY <1>2, <1>4, EntriesWeighed, BytesFromAny
<1>7. BytesIn(es, H \ {f}) = BytesIn(entries, H \ {f})
  <2>1. IsFiniteSet(H \ {f}) /\ \A g \in H \ {f} : es[g].bytes = entries[g].bytes
    BY <1>3, <1>4, FramesAreFinite
  <2> QED
    BY <2>1, BytesOfEquals
<1>8. BytesIn(entries, H \ {f}) \in Nat /\ entries[f].bytes \in Nat
  <2>1. BytesIn(entries, H \ {f}) \in Nat
    BY <1>2, <1>4, EntriesWeighed
  <2>2. entries[f].bytes \in Nat
    BY <1>2 DEF Entry
  <2> QED
    BY <2>1, <2>2
<1>9. bytes - entries[f].bytes + size = BytesIn(es, H)
  BY <1>1, <1>2, <1>3, <1>5, <1>6, <1>7, <1>8
<1>10. \A g \in Frames :
         entries[g].state # "none"
             => es[g].state # "none" /\ es[g].place = entries[g].place
  BY <1>3
<1>11. Weighs(es, bytes - entries[f].bytes + size)
  BY <1>3, <1>4, <1>9, <1>10 DEF Weighs
<1> QED
  BY <1>11 DEF es

-----------------------------------------------------------------------------
(* What bounding leaves of what was weighed.                               *)

(* The outcomes older than another one, and what is held without them.     *)
FinalIn(es) == {f \in HeldIn(es) : Final(es[f])}
OlderThan(es, f) == {g \in FinalIn(es) : es[g].place < es[f].place}
Without(es, f) == HeldIn(es) \ OlderThan(es, f)
Kept(es) == HeldIn(es) \ Evicted(es)

(* An outcome goes if the rest is too much without every older one.        *)
LEMMA EvictedOnes ==
    ASSUME NEW es, NEW f
    PROVE  f \in Evicted(es) <=>
              /\ f \in FinalIn(es)
              /\ \/ Cardinality(Without(es, f)) > ENTRIES
                 \/ BytesIn(es, Without(es, f)) > BYTES
BY DEF Evicted, FinalIn, OlderThan, Without

(* What bounding keeps weighs no more than what it started from.           *)
LEMMA PartsWeighLess ==
    ASSUME NEW es \in [Frames -> Entry], NEW T \in SUBSET Frames, NEW A \in SUBSET T
    PROVE  /\ Cardinality(A) \in Nat /\ Cardinality(T) \in Nat
           /\ Cardinality(A) <= Cardinality(T)
           /\ BytesIn(es, A) \in Nat /\ BytesIn(es, T) \in Nat
           /\ BytesIn(es, A) <= BytesIn(es, T)
           /\ BytesIn(es, A) = BytesIn(es, T) - BytesIn(es, T \ A)
<1>1. IsFiniteSet(T) /\ A \in SUBSET Frames /\ T \ A \in SUBSET Frames
  BY FramesAreFinite
<1>2. Cardinality(A) <= Cardinality(T)
  BY <1>1, FS_Subset
<1>3. BytesIn(es, T) = BytesIn(es, A) + BytesIn(es, T \ A)
  BY EntriesWeighed, BytesOfPart
<1>4. BytesIn(es, A) \in Nat /\ BytesIn(es, T) \in Nat /\ BytesIn(es, T \ A) \in Nat
  BY <1>1, EntriesWeighed
<1>5. Cardinality(A) \in Nat /\ Cardinality(T) \in Nat
  BY <1>1, FramesFinite
<1> QED
  BY <1>2, <1>3, <1>4, <1>5

(* What is held after bounding is what was kept, with what it weighed.     *)
LEMMA BoundingKeeps ==
    ASSUME NEW es, NEW sum, Weighs(es, sum), BoundEntries(es, sum)
    PROVE  /\ entries' \in [Frames -> Entry]
           /\ HeldIn(entries)' = Kept(es)
           /\ \A f \in Kept(es) : /\ entries'[f].state = es[f].state
                                  /\ entries'[f].bytes = es[f].bytes
           /\ bytes' = BytesIn(es, Kept(es))
           /\ bytes' \in Nat
           /\ BytesAreExact'
<1> DEFINE kept == HeldIn(es) \ Evicted(es)
           place(f) == Cardinality({g \in kept : es[g].place <= es[f].place})
<1>1. /\ entries' = [f \in Frames |->
                     IF f \in kept THEN [es[f] EXCEPT !.place = place(f)] ELSE NoEntry]
      /\ bytes' = sum - BytesIn(es, Evicted(es))
  BY DEF BoundEntries
<1>2. /\ es \in [Frames -> Entry]
      /\ sum = BytesIn(es, HeldIn(es))
  BY DEF Weighs
<1>3. entries' \in [Frames -> Entry]
  BY <1>2, BoundEntriesLemma DEF EntriesBounded
<1>4. \A f \in Frames : /\ [es[f] EXCEPT !.place = place(f)].state = es[f].state
                        /\ [es[f] EXCEPT !.place = place(f)].bytes = es[f].bytes
  <2> HIDE DEF place
  <2> QED
    BY <1>2 DEF Entry
<1>5. kept \in SUBSET Frames /\ \A f \in kept : es[f].state # "none"
  BY DEF HeldIn
<1>6. HeldIn(es) \in SUBSET Frames /\ Evicted(es) \in SUBSET HeldIn(es)
      /\ HeldIn(es) \ kept = Evicted(es)
  BY DEF HeldIn, Evicted
<1> HIDE DEF kept, place
<1>7. \A f \in kept : /\ entries'[f].state = es[f].state
                      /\ entries'[f].bytes = es[f].bytes
  BY <1>1, <1>4, <1>5
<1>8. HeldIn(entries)' = kept
  <2>1. \A f \in Frames : entries'[f].state # "none" <=> f \in kept
    BY <1>1, <1>5, <1>7 DEF NoEntry
  <2> QED
    BY <1>5, <2>1 DEF HeldIn
<1>9. bytes' = BytesIn(es, kept)
  <2>1. kept \in SUBSET HeldIn(es)
    BY DEF kept
  <2>2. BytesIn(es, kept) = BytesIn(es, HeldIn(es)) - BytesIn(es, HeldIn(es) \ kept)
    BY <1>2, <1>6, <2>1, PartsWeighLess
  <2> QED
    BY <1>1, <1>2, <1>6, <2>2
<1>10. BytesIn(es, kept) \in Nat
  BY <1>2, <1>5, EntriesWeighed
<1>11. BytesIn(es, kept) = BytesIn(entries', kept)
  <2>1. IsFiniteSet(kept)
    BY <1>5, FramesAreFinite
  <2> QED
    BY <1>7, <2>1, BytesOfEquals
<1>12. BytesAreExact'
  <2>1. BytesAreExact' <=> bytes' = BytesIn(entries', HeldIn(entries)')
    BY DEF BytesAreExact
  <2> QED
    BY <1>8, <1>9, <1>11, <2>1
<1>13. Kept(es) = kept
  BY DEF Kept, kept
<1> QED
  BY <1>3, <1>7, <1>8, <1>9, <1>10, <1>12, <1>13

(* The oldest of some frames.                                              *)
LEMMA SomeIsOldest ==
    ASSUME NEW es \in [Frames -> Entry], NEW S \in SUBSET Frames, S # {}
    PROVE  \E f \in S : \A g \in S : ~(es[g].place < es[f].place)
<1> DEFINE R == {ss \in Nat \X Nat : ss[1] < ss[2]}
           P == {es[f].place : f \in S}
<1>1. IsWellFoundedOn(R, Nat)
  BY NatLessThanWellFounded DEF OpToRel
<1>2. \A f \in S : es[f].place \in Nat
  BY DEF Entry
<1>3. P \subseteq Nat /\ P # {}
  BY <1>2
<1>4. PICK p \in P : \A q \in P : ~(<<q, p>> \in R)
  <2> HIDE DEF P, R
  <2>1. PICK x \in P : TRUE
    BY <1>3
  <2> QED
    BY <1>1, <1>3, <2>1, WFMin
<1>5. PICK f \in S : p = es[f].place
  OBVIOUS
<1>6. \A g \in S : ~(es[g].place < es[f].place)
  BY <1>2, <1>4, <1>5
<1> QED
  BY <1>6

(* Unless nothing can go, what is kept fits: the oldest outcome kept stayed *)
(* because the rest fits once every older one is gone.                     *)
LEMMA BoundingFits ==
    ASSUME NEW es, NEW sum, Weighs(es, sum), BoundEntries(es, sum)
    PROVE  \/ Cardinality(HeldIn(entries))' <= ENTRIES /\ bytes' <= BYTES
           \/ \A f \in HeldIn(entries)' : ~Final(entries'[f])
<1> DEFINE K == {f \in Kept(es) : Final(es[f])}
<1>1. es \in [Frames -> Entry]
  BY DEF Weighs
<1>2. /\ HeldIn(entries)' = Kept(es)
      /\ \A f \in Kept(es) : entries'[f].state = es[f].state
      /\ bytes' = BytesIn(es, Kept(es))
  BY BoundingKeeps
<1>3. Cardinality(HeldIn(entries))' = Cardinality(HeldIn(entries)')
  OBVIOUS
<1>4. CASE K = {}
  BY <1>2, <1>4 DEF Final
<1>5. CASE K # {}
  <2>1. K \in SUBSET Frames /\ K \in SUBSET FinalIn(es)
    BY DEF Kept, HeldIn, FinalIn
  <2>2. PICK f \in K : \A g \in K : ~(es[g].place < es[f].place)
    <3> HIDE DEF K
    <3> QED
      BY <1>1, <1>5, <2>1, SomeIsOldest
  <2>3. f \notin Evicted(es) /\ f \in FinalIn(es)
    BY <2>1 DEF Kept
  <2>4. ~(Cardinality(Without(es, f)) > ENTRIES) /\ ~(BytesIn(es, Without(es, f)) > BYTES)
    BY <2>3, EvictedOnes
  <2>5. OlderThan(es, f) \subseteq Evicted(es)
    BY <2>2 DEF OlderThan, FinalIn, Kept
  <2>6. Kept(es) \in SUBSET Without(es, f) /\ Without(es, f) \in SUBSET Frames
    BY <2>5 DEF Without, Kept, HeldIn
  <2>7. /\ Cardinality(Kept(es)) \in Nat /\ Cardinality(Without(es, f)) \in Nat
        /\ Cardinality(Kept(es)) <= Cardinality(Without(es, f))
        /\ BytesIn(es, Kept(es)) \in Nat /\ BytesIn(es, Without(es, f)) \in Nat
        /\ BytesIn(es, Kept(es)) <= BytesIn(es, Without(es, f))
    BY <1>1, <2>6, PartsWeighLess
  <2>8. Cardinality(Kept(es)) <= ENTRIES /\ BytesIn(es, Kept(es)) <= BYTES
    BY <2>4, <2>7, BoundsAssumption
  <2> QED
    BY <1>2, <1>3, <2>8
<1> QED
  BY <1>4, <1>5

(* An outcome that goes takes every older one with it.                     *)
LEMMA OldestGoFirst ==
    ASSUME NEW es, NEW sum, Weighs(es, sum), BoundEntries(es, sum),
           NEW f \in Frames, NEW g \in Frames,
           entries[f].state # "none", entries'[f].state = "none",
           entries[g].state # "none", entries[g].place < entries[f].place,
           entries'[g].state # "none"
    PROVE  ~Final(entries'[g])
<1> SUFFICES ASSUME Final(entries'[g]) PROVE FALSE
  OBVIOUS
<1>1. /\ es \in [Frames -> Entry]
      /\ es[f].state # "none" /\ es[f].place = entries[f].place
      /\ es[g].state # "none" /\ es[g].place = entries[g].place
  BY DEF Weighs
<1>2. /\ HeldIn(entries)' = Kept(es)
      /\ \A h \in Kept(es) : entries'[h].state = es[h].state
  BY BoundingKeeps
<1>3. f \notin Kept(es) /\ g \in Kept(es)
  BY <1>2 DEF HeldIn
<1>4. Final(es[g])
  BY <1>2, <1>3 DEF Final
<1>5. f \in Evicted(es) /\ g \notin Evicted(es) /\ g \in FinalIn(es)
  BY <1>1, <1>3, <1>4 DEF Kept, HeldIn, FinalIn
<1>6. OlderThan(es, g) \subseteq OlderThan(es, f)
  <2>1. \A h \in Frames : es[h].place \in Nat
    BY <1>1 DEF Entry
  <2>2. FinalIn(es) \subseteq Frames
    BY DEF FinalIn, HeldIn
  <2> QED
    BY <1>1, <2>1, <2>2 DEF OlderThan
<1>7. Without(es, f) \in SUBSET Without(es, g) /\ Without(es, g) \in SUBSET Frames
  BY <1>6 DEF Without, HeldIn
<1>8. /\ Cardinality(Without(es, f)) \in Nat /\ Cardinality(Without(es, g)) \in Nat
      /\ Cardinality(Without(es, f)) <= Cardinality(Without(es, g))
      /\ BytesIn(es, Without(es, f)) \in Nat /\ BytesIn(es, Without(es, g)) \in Nat
      /\ BytesIn(es, Without(es, f)) <= BytesIn(es, Without(es, g))
  BY <1>1, <1>7, PartsWeighLess
<1>9. \/ Cardinality(Without(es, f)) > ENTRIES
      \/ BytesIn(es, Without(es, f)) > BYTES
  BY <1>5, EvictedOnes
<1>10. ~(Cardinality(Without(es, g)) > ENTRIES) /\ ~(BytesIn(es, Without(es, g)) > BYTES)
  BY <1>5, EvictedOnes
<1> QED
  BY <1>8, <1>9, <1>10, BoundsAssumption

-----------------------------------------------------------------------------
(* The other bounds.                                                       *)

(* The fences are ranked: no two have the same rank, and none has a rank   *)
(* above their number.                                                     *)
RanksDiffer(fs) ==
    \A a, b \in FencesIn(fs) : fs[a].touched = fs[b].touched => a = b

FencesRanked ==
    /\ RanksDiffer(fences)
    /\ \A a \in FencesIn(fences) : fences[a].touched <= Cardinality(FencesIn(fences))

(* What an operation hands to the other bounds: a queue, and fences of     *)
(* which one was just touched.                                             *)
Restops ==
    \/ UNCHANGED stopped
    \/ \E cs, order : order \in Seq(Channels) /\ BoundChannels(cs, order)

TouchedLast(a, fs) ==
    /\ fs \in [Actions -> Fence]
    /\ fs[a].touched = Latest
    /\ \A b \in Actions : b # a => fs[b] = fences[b]

Refences ==
    \/ UNCHANGED fences
    \/ \E a \in Actions : \E fs : TouchedLast(a, fs) /\ BoundFences(fs)

(* No more stopped channels are remembered than the bound.                 *)
LEMMA StoppedIsBounded ==
    ASSUME NEW cs, NEW order \in Seq(Channels), BoundChannels(cs, order)
    PROVE  Len(stopped)' <= STOPPED_CHANNELS
<1> DEFINE n == Excess(order)
<1>1. stopped' = SubSeq(order, n + 1, Len(order)) /\ Len(stopped)' = Len(stopped')
  BY DEF BoundChannels
<1>2. Len(order) \in Nat
  BY LenProperties
<1>3. n \in Nat /\ n <= Len(order) /\ Len(order) - n <= STOPPED_CHANNELS
  BY <1>2, BoundsAssumption DEF Excess
<1> HIDE DEF n
<1>4. stopped' \in Seq(Channels) /\ DOMAIN stopped' = 1 .. (Len(order) - n)
  BY <1>1, <1>3, SubSeqDrops
<1>5. Len(stopped') \in Nat /\ DOMAIN stopped' = 1 .. Len(stopped')
  BY <1>4, LenProperties
<1>6. Len(stopped') <= Len(order) - n
  <2>1. CASE Len(stopped') = 0
    BY <1>2, <1>3, <2>1
  <2>2. CASE Len(stopped') # 0
    <3>1. Len(stopped') \in 1 .. Len(stopped')
      BY <1>5, <2>2
    <3>2. Len(stopped') \in 1 .. (Len(order) - n)
      BY <1>4, <1>5, <3>1
    <3> QED
      BY <3>2
  <2> QED
    BY <2>1, <2>2
<1> QED
  BY <1>1, <1>2, <1>3, <1>5, <1>6, BoundsAssumption

(* Only finite sets of fences are counted.                                 *)
LEMMA ActionsAreFinite == \A S \in SUBSET Actions : IsFiniteSet(S)
BY ActionsAssumption, FS_Subset

(* The one just touched ranks above every other one.                       *)
LEMMA TouchingRanks ==
    ASSUME FencesRanked, fences \in [Actions -> Fence], NEW a \in Actions, NEW fs,
           TouchedLast(a, fs)
    PROVE  RanksDiffer(fs)
<1>1. Cardinality(FencesIn(fences)) \in Nat
  <2>1. FencesIn(fences) \in SUBSET Actions
    BY DEF FencesIn
  <2> QED
    BY <2>1, ActionsFinite
<1>2. ASSUME NEW b \in FencesIn(fs), b # a
      PROVE  /\ b \in FencesIn(fences)
             /\ fs[b].touched = fences[b].touched
             /\ fs[b].touched \in Nat
             /\ fs[b].touched < Latest
  <2>1. b \in Actions /\ fs[b] = fences[b] /\ fs[b].generation > 0
    BY <1>2 DEF FencesIn, TouchedLast
  <2>2. b \in FencesIn(fences)
    BY <2>1 DEF FencesIn
  <2>3. fences[b].touched \in Nat /\ fences[b].touched <= Cardinality(FencesIn(fences))
    BY <2>1, <2>2 DEF FencesRanked, Fence
  <2> QED
    BY <1>1, <2>1, <2>2, <2>3 DEF Latest
<1>3. fs[a].touched = Latest
  BY DEF TouchedLast
<1> SUFFICES ASSUME NEW b \in FencesIn(fs), NEW d \in FencesIn(fs),
                    fs[b].touched = fs[d].touched
             PROVE  b = d
  BY DEF RanksDiffer
<1>4. Latest \in Nat
  BY LatestIsANumber
<1>5. CASE b = a /\ d # a
  BY <1>2, <1>3, <1>4, <1>5
<1>6. CASE b # a /\ d = a
  BY <1>2, <1>3, <1>4, <1>6
<1>7. CASE b # a /\ d # a
  BY <1>2, <1>7 DEF FencesRanked, RanksDiffer
<1> QED
  BY <1>5, <1>6, <1>7

(* Of fences whose ranks differ, no more than the bound are remembered:    *)
(* every other one is above the lowest of them.                            *)
LEMMA FewAreRemembered ==
    ASSUME NEW fs \in [Actions -> Fence], RanksDiffer(fs)
    PROVE  Cardinality(Remembered(fs)) <= FENCES
<1> DEFINE K == Remembered(fs)
           above(a) == {b \in FencesIn(fs) : fs[b].touched > fs[a].touched}
           R == {ss \in Nat \X Nat : ss[1] < ss[2]}
           P == {fs[a].touched : a \in K}
<1>1. IsWellFoundedOn(R, Nat)
  BY NatLessThanWellFounded DEF OpToRel
<1>2. K \in SUBSET FencesIn(fs) /\ FencesIn(fs) \in SUBSET Actions
  BY DEF Remembered, FencesIn
<1>3. \A a \in Actions : fs[a].touched \in Nat
  BY DEF Fence
<1>4. \A a \in K : Cardinality(above(a)) < FENCES
  BY DEF Remembered
<1> HIDE DEF K
<1>5. CASE K = {}
  BY <1>5, FS_EmptySet, BoundsAssumption DEF K
<1>6. CASE K # {}
  <2>1. P \subseteq Nat /\ \E p \in P : TRUE
    BY <1>2, <1>3, <1>6
  <2>2. PICK p \in P : \A q \in P : ~(<<q, p>> \in R)
    <3> HIDE DEF P, R
    <3> QED
      BY <1>1, <2>1, WFMin
  <2>3. PICK a \in K : p = fs[a].touched
    OBVIOUS
  <2>4. \A b \in K \ {a} : fs[b].touched > fs[a].touched
    <3> SUFFICES ASSUME NEW b \in K, b # a PROVE fs[b].touched > fs[a].touched
      OBVIOUS
    <3>1. fs[b].touched # fs[a].touched
      BY <1>2 DEF RanksDiffer
    <3>2. ~(fs[b].touched < fs[a].touched)
      BY <1>2, <1>3, <2>2, <2>3
    <3>3. fs[b].touched \in Nat /\ fs[a].touched \in Nat
      BY <1>2, <1>3
    <3> QED
      BY <3>1, <3>2, <3>3
  <2>5. K \ {a} \in SUBSET above(a) /\ above(a) \in SUBSET Actions /\ K \in SUBSET Actions
    BY <1>2, <2>4
  <2> HIDE DEF above
  <2>6. IsFiniteSet(K) /\ IsFiniteSet(above(a))
    BY <2>5, ActionsAreFinite
  <2>7. Cardinality(K \ {a}) = Cardinality(K) - 1
    BY <2>3, <2>6, FS_RemoveElement
  <2>8. Cardinality(K \ {a}) <= Cardinality(above(a))
    BY <2>5, <2>6, FS_Subset
  <2>9. Cardinality(K) \in Nat /\ Cardinality(above(a)) \in Nat /\ Cardinality(above(a)) < FENCES
    BY <1>4, <2>5, <2>3, ActionsFinite
  <2> QED
    BY <2>7, <2>8, <2>9, BoundsAssumption DEF K
<1> QED
  BY <1>5, <1>6

(* Bounding remembers few enough, and ranks them anew.                     *)
LEMMA FencesAreBounded ==
    ASSUME NEW fs \in [Actions -> Fence], RanksDiffer(fs), BoundFences(fs)
    PROVE  Cardinality(FencesIn(fences))' <= FENCES /\ FencesRanked'
<1> DEFINE K == Remembered(fs)
           upTo(a) == {b \in K : fs[b].touched <= fs[a].touched}
<1>1. fences' = [a \in Actions |->
                    IF a \in K THEN [fs[a] EXCEPT !.touched = Cardinality(upTo(a))]
                               ELSE NoFence]
  BY DEF BoundFences
<1>2. /\ K \in SUBSET FencesIn(fs) /\ K \in SUBSET Actions
      /\ \A a \in K : fs[a].generation > 0
  BY DEF Remembered, FencesIn
<1>3. Cardinality(K) <= FENCES
  BY FewAreRemembered
<1>4. \A a \in Actions : fs[a].touched \in Nat
  BY DEF Fence
<1> HIDE DEF K
<1>5. \A a \in K : /\ fences'[a].generation = fs[a].generation
                   /\ fences'[a].touched = Cardinality(upTo(a))
  <2> HIDE DEF upTo
  <2> QED
    BY <1>1, <1>2 DEF Fence
<1>6. FencesIn(fences') = K
  BY <1>1, <1>2, <1>5 DEF FencesIn, NoFence
<1>7. \A a \in K : upTo(a) \in SUBSET K /\ IsFiniteSet(upTo(a))
  BY <1>2, ActionsAreFinite
<1>8. \A a \in K : Cardinality(upTo(a)) <= Cardinality(K)
  <2>1. IsFiniteSet(K)
    BY <1>2, ActionsAreFinite
  <2> HIDE DEF upTo
  <2> QED
    BY <1>7, <2>1, FS_Subset
<1>9. ASSUME NEW a \in K, NEW b \in K, fs[a].touched < fs[b].touched
      PROVE  Cardinality(upTo(a)) # Cardinality(upTo(b))
  <2>1. upTo(a) \in SUBSET upTo(b) /\ b \notin upTo(a) /\ b \in upTo(b)
    BY <1>2, <1>4, <1>9
  <2> HIDE DEF upTo
  <2>2. Cardinality(upTo(b)) = Cardinality(upTo(a)) => upTo(b) = upTo(a)
    BY <1>7, <2>1, FS_Subset
  <2> QED
    BY <2>1, <2>2
<1>10. RanksDiffer(fences')
  <2> SUFFICES ASSUME NEW a \in K, NEW b \in K, fences'[a].touched = fences'[b].touched
               PROVE  a = b
    BY <1>6 DEF RanksDiffer
  <2>1. Cardinality(upTo(a)) = Cardinality(upTo(b))
    BY <1>5
  <2>2. fs[a].touched \in Nat /\ fs[b].touched \in Nat
    BY <1>2, <1>4
  <2>3. ~(fs[a].touched < fs[b].touched) /\ ~(fs[b].touched < fs[a].touched)
    BY <1>9, <2>1
  <2>4. fs[a].touched = fs[b].touched
    BY <2>2, <2>3
  <2> QED
    BY <1>2, <2>4 DEF RanksDiffer
<1>11. /\ FencesIn(fences)' = FencesIn(fences')
       /\ RanksDiffer(fences)' <=> RanksDiffer(fences')
  OBVIOUS
<1>12. Cardinality(FencesIn(fences))' = Cardinality(FencesIn(fences'))
  OBVIOUS
<1>13. \A a \in K : fences'[a].touched <= Cardinality(K)
  BY <1>5, <1>8
<1>14. FencesRanked'
  BY <1>6, <1>10, <1>11, <1>12, <1>13 DEF FencesRanked
<1> QED
  BY <1>3, <1>6, <1>12, <1>14

-----------------------------------------------------------------------------
(* Every operation hands the bounds what they keep.                        *)

(* The operations on a frame.                                              *)
LEMMA FrameOperationRebounds ==
    ASSUME RecordsTypeOK, BytesAreExact, NEW c \in Channels, NEW i \in Ids,
           FrameOperation(c, i)
    PROVE  Rebounds /\ Restops /\ Refences
<1>1. <<c, i>> \in Frames /\ stopped \in Seq(Channels)
  BY FrameParts DEF RecordsTypeOK
<1>2. ASSUME NEW action \in Actions \cup {NoAction},
             NEW state \in {"queued", "running", "settled", "not_started"},
             BoundEntries(Put(<<c, i>>, action, state), bytes)
      PROVE  Rebounds
  BY <1>1, <1>2, PutWeighs DEF Rebounds
<1>3. ASSUME NEW size \in Sizes, entries[<<c, i>>].state # "none", SetResult(<<c, i>>, size)
      PROVE  Rebounds /\ Restops /\ Refences
  <2> DEFINE f == <<c, i>>
             es == [entries EXCEPT ![f].state = "settled", ![f].bytes = size]
             sum == bytes - entries[f].bytes + size
  <2>1. BoundEntries(es, sum) /\ UNCHANGED <<channels, stopped, fences>>
    BY <1>3 DEF SetResult
  <2>2. Weighs(es, sum)
    <3> HIDE DEF f
    <3> QED
      BY <1>1, <1>3, SetResultWeighs DEF f
  <2> HIDE DEF es, sum
  <2> QED
    BY <2>1, <2>2 DEF Rebounds, Restops, Refences
<1>4. CASE ReceiveOther(c, i)
  BY <1>1, <1>4 DEF ReceiveOther, RaiseReceived, Rebounds, Restops, Refences
<1>5. ASSUME NEW action \in Actions \cup {NoAction}, NEW refused \in BOOLEAN,
             ReceiveSequence(c, i, action, refused)
      PROVE  Rebounds /\ Restops /\ Refences
  <2>1. CASE channels[c].state = "unknown"
    BY <1>5, <2>1 DEF ReceiveSequence, ledgerVars, Rebounds, Restops, Refences
  <2>2. CASE channels[c].state # "unknown"
    <3> DEFINE state == IF refused \/ ~Live(c) THEN "not_started" ELSE "queued"
    <3>1. /\ RaiseReceived(c, i)
          /\ BoundEntries(Put(<<c, i>>, action, state), bytes)
          /\ UNCHANGED fences
      BY <1>5, <2>2 DEF ReceiveSequence
    <3>2. state \in {"queued", "running", "settled", "not_started"}
      OBVIOUS
    <3> HIDE DEF state
    <3>3. Rebounds
      BY <1>2, <3>1, <3>2
    <3>4. Restops
      BY <1>1, <3>1 DEF RaiseReceived, Restops
    <3> QED
      BY <3>1, <3>3, <3>4 DEF Refences
  <2> QED
    BY <2>1, <2>2
<1>6. ASSUME NEW action \in Actions \cup {NoAction}, Start(c, i, action)
      PROVE  Rebounds /\ Restops /\ Refences
  <2> DEFINE state == IF Live(c) THEN "running" ELSE "not_started"
  <2>1. /\ BoundEntries(Put(<<c, i>>, action, state), bytes)
        /\ UNCHANGED <<channels, stopped, fences>>
    BY <1>6 DEF Start
  <2>2. state \in {"queued", "running", "settled", "not_started"}
    OBVIOUS
  <2> HIDE DEF state
  <2>3. Rebounds
    BY <1>2, <2>1, <2>2
  <2> QED
    BY <2>1, <2>3 DEF Restops, Refences
<1>7. ASSUME NEW action \in Actions \cup {NoAction}, NotStarted(c, i, action)
      PROVE  Rebounds /\ Restops /\ Refences
  <2>1. /\ BoundEntries(Put(<<c, i>>, action, "not_started"), bytes)
        /\ UNCHANGED <<channels, stopped, fences>>
    BY <1>7 DEF NotStarted
  <2>2. Rebounds
    BY <1>2, <2>1
  <2> QED
    BY <2>1, <2>2 DEF Restops, Refences
<1>8. ASSUME NEW size \in Sizes, Settle(c, i, size)
      PROVE  Rebounds /\ Restops /\ Refences
  <2>1. CASE entries[<<c, i>>].state = "none"
    BY <1>8, <2>1 DEF Settle, ledgerVars, Rebounds, Restops, Refences
  <2>2. CASE entries[<<c, i>>].state # "none"
    BY <1>3, <1>8, <2>2 DEF Settle
  <2> QED
    BY <2>1, <2>2
<1>9. ASSUME NEW size \in Sizes, Retain(c, i, size)
      PROVE  Rebounds /\ Restops /\ Refences
  BY <1>3, <1>9 DEF Retain
<1> QED
  BY <1>4, <1>5, <1>6, <1>7, <1>8, <1>9 DEF FrameOperation

(* An owner touches its fence last and stops what it leaves behind.        *)
LEMMA RegisterRebounds ==
    ASSUME LedgerInvariant, BytesAreExact, NEW c \in Channels, NEW owner \in Owners,
           Register(c, owner)
    PROVE  Rebounds /\ Restops /\ Refences
<1> DEFINE a == owner.action
<1>1. /\ RecordsTypeOK
      /\ fences \in [Actions -> Fence] /\ stopped \in Seq(Channels)
      /\ a \in Actions /\ owner.generation \in Generations
      /\ Latest \in Nat
  BY LatestIsANumber DEF LedgerInvariant, RecordsTypeOK, Owners
<1>2. CASE RegisterFenced(c, owner)
  <2> DEFINE fs == [fences EXCEPT ![a].touched = Latest]
  <2>1. BoundFences(fs) /\ UNCHANGED <<entries, bytes, stopped>>
    BY <1>2 DEF RegisterFenced
  <2>2. TouchedLast(a, fs)
    BY <1>1 DEF TouchedLast, Fence
  <2> HIDE DEF fs
  <2> QED
    BY <1>1, <2>1, <2>2 DEF Rebounds, Restops, Refences
<1>3. CASE RegisterAdmitted(c, owner)
  <2> DEFINE fs == [fences EXCEPT ![a] = [generation |-> owner.generation,
                                          touched |-> Latest]]
             cs == IF channels[c].state = "unknown"
                     THEN StopChannels(Older(c, owner))
                     ELSE [StopChannels(Older(c, owner)) EXCEPT ![c].carried[a] =
                              IF @ < owner.generation THEN owner.generation ELSE @]
  <2>1. BoundFences(fs) /\ BoundEntries(StopEntries(Older(c, owner)), bytes)
    BY <1>3 DEF RegisterAdmitted
  <2>2. PICK order \in StopOrders(Older(c, owner)) : BoundChannels(cs, order)
    BY <1>3 DEF RegisterAdmitted
  <2>3. TouchedLast(a, fs)
    <3>1. [generation |-> owner.generation, touched |-> Latest] \in Fence
      BY <1>1 DEF Fence
    <3> QED
      BY <1>1, <3>1 DEF TouchedLast
  <2> HIDE DEF fs, cs
  <2>4. order \in Seq(Channels)
    <3>1. Older(c, owner) \in SUBSET Channels
      BY DEF Older
    <3> QED
      BY <3>1, StoppingLemma
  <2>5. Weighs(StopEntries(Older(c, owner)), bytes)
    BY <1>1, StopWeighs
  <2> QED
    BY <1>1, <2>1, <2>2, <2>3, <2>4, <2>5 DEF Rebounds, Restops, Refences
<1> QED
  BY <1>2, <1>3 DEF Register

(* And so does every operation.                                            *)
LEMMA OperationsRebound ==
    ASSUME LedgerInvariant, BytesAreExact, [LedgerNext]_ledgerVars
    PROVE  Rebounds /\ Restops /\ Refences
<1>1. RecordsTypeOK /\ stopped \in Seq(Channels)
  BY DEF LedgerInvariant, RecordsTypeOK
<1>2. CASE UNCHANGED ledgerVars
  BY <1>2 DEF ledgerVars, Rebounds, Restops, Refences
<1>3. CASE LedgerNext
  <2>1. PICK c \in Channels :
           \/ OpenChannel(c)
           \/ EndChannel(c)
           \/ \E owner \in Owners : Register(c, owner)
           \/ \E i \in Ids : FrameOperation(c, i)
    BY <1>3 DEF LedgerNext
  <2>2. CASE OpenChannel(c)
    BY <1>1, <2>2 DEF OpenChannel, Rebounds, Restops, Refences
  <2>3. CASE EndChannel(c)
    <3>1. BoundEntries(StopEntries({c}), bytes) /\ UNCHANGED fences
      BY <2>3 DEF EndChannel
    <3>2. PICK order \in StopOrders({c}) : BoundChannels(StopChannels({c}), order)
      BY <2>3 DEF EndChannel
    <3>3. order \in Seq(Channels)
      BY StoppingLemma
    <3>4. Weighs(StopEntries({c}), bytes)
      BY <1>1, StopWeighs
    <3> QED
      BY <3>1, <3>2, <3>3, <3>4 DEF Rebounds, Restops, Refences
  <2>4. CASE \E owner \in Owners : Register(c, owner)
    BY <2>4, RegisterRebounds
  <2>5. CASE \E i \in Ids : FrameOperation(c, i)
    BY <1>1, <2>5, FrameOperationRebounds
  <2> QED
    BY <2>1, <2>2, <2>3, <2>4, <2>5
<1> QED
  BY <1>2, <1>3

-----------------------------------------------------------------------------
(* The theorems of the bounds.                                             *)

(* The inductive invariant of the bounds: the count that ranks the fences  *)
(* is what keeps their number within its bound.                            *)
LedgerFits ==
    /\ LedgerInvariant
    /\ LedgerTypeOK
    /\ BytesAreExact
    /\ FencesRanked
    /\ Bounded

(* What a step may do to the outcomes a bound drops.                       *)
OldestLeave ==
    \A f, g \in Frames :
        ( /\ entries[f].state # "none"
          /\ entries'[f].state = "none"
          /\ entries[g].state # "none"
          /\ entries[g].place < entries[f].place
          /\ entries'[g].state # "none" )
        => ~Final(entries'[g])

(* An empty ledger fits.                                                   *)
LEMMA LedgerInitFits == LedgerInit => LedgerFits
<1> SUFFICES ASSUME LedgerInit PROVE LedgerFits
  OBVIOUS
<1>1. LedgerInvariant /\ LedgerTypeOK
  <2>1. LedgerInvariant /\ bytes = 0
    BY InitInvariant DEF LedgerInit
  <2> QED
    BY <2>1 DEF LedgerInvariant, LedgerTypeOK
<1>2. HeldIn(entries) = {} /\ FencesIn(fences) = {} /\ Len(stopped) = 0 /\ bytes = 0
  BY DEF LedgerInit, HeldIn, FencesIn, NoEntry, NoFence
<1>3. BytesAreExact
  BY <1>2, BytesOfNothing DEF BytesAreExact
<1>4. Cardinality({}) = 0
  BY FS_EmptySet
<1>5. FencesRanked
  BY <1>2 DEF FencesRanked, RanksDiffer
<1>6. Bounded
  BY <1>2, <1>4, BoundsAssumption DEF Bounded
<1> QED
  BY <1>1, <1>3, <1>5, <1>6 DEF LedgerFits

(* Every operation keeps the ledger within its bounds.                     *)
LEMMA LedgerNextFits ==
    ASSUME LedgerFits, [LedgerNext]_ledgerVars
    PROVE  LedgerFits' /\ OldestLeave
<1>1. /\ LedgerInvariant /\ RecordsTypeOK /\ bytes \in Nat
      /\ BytesAreExact /\ FencesRanked /\ Bounded
      /\ fences \in [Actions -> Fence]
  BY DEF LedgerFits, LedgerTypeOK, RecordsTypeOK
<1>2. Rebounds /\ Restops /\ Refences
  BY <1>1, OperationsRebound
<1>3. LedgerInvariant'
  <2>1. LedgerInvariant /\ UNCHANGED ledgerVars => LedgerInvariant'
    BY UnchangedIsBounded, InvariantIsSound, StepFromSound DEF ledgerVars
  <2> QED
    BY <1>1, <2>1, NextInvariant
<1>4. /\ bytes' \in Nat /\ BytesAreExact' /\ OldestLeave
      /\ \/ Cardinality(HeldIn(entries))' <= ENTRIES /\ bytes' <= BYTES
         \/ \A f \in HeldIn(entries)' : ~Final(entries'[f])
  <2>1. CASE UNCHANGED <<entries, bytes>>
    <3>1. bytes' \in Nat /\ OldestLeave
      BY <1>1, <2>1 DEF OldestLeave
    <3>2. BytesAreExact'
      BY <1>1, <2>1 DEF BytesAreExact
    <3>3. \/ Cardinality(HeldIn(entries)) <= ENTRIES /\ bytes <= BYTES
          \/ \A f \in HeldIn(entries) : ~Final(entries[f])
      BY <1>1 DEF Bounded
    <3> QED
      BY <2>1, <3>1, <3>2, <3>3
  <2>2. CASE \E es, sum : Weighs(es, sum) /\ BoundEntries(es, sum)
    <3>1. PICK es, sum : Weighs(es, sum) /\ BoundEntries(es, sum)
      BY <2>2
    <3>2. bytes' \in Nat /\ BytesAreExact'
      BY <3>1, BoundingKeeps
    <3>3. OldestLeave
      BY <3>1, OldestGoFirst DEF OldestLeave
    <3> QED
      BY <3>1, <3>2, <3>3, BoundingFits
  <2> QED
    BY <1>2, <2>1, <2>2 DEF Rebounds
<1>5. Len(stopped)' <= STOPPED_CHANNELS
  <2>1. CASE UNCHANGED stopped
    BY <1>1, <2>1 DEF Bounded
  <2>2. CASE \E cs, order : order \in Seq(Channels) /\ BoundChannels(cs, order)
    BY <2>2, StoppedIsBounded
  <2> QED
    BY <1>2, <2>1, <2>2 DEF Restops
<1>6. FencesRanked' /\ Cardinality(FencesIn(fences))' <= FENCES
  <2>1. CASE UNCHANGED fences
    BY <1>1, <2>1 DEF FencesRanked, RanksDiffer, Bounded
  <2>2. CASE \E a \in Actions : \E fs : TouchedLast(a, fs) /\ BoundFences(fs)
    <3>1. PICK a \in Actions : \E fs : TouchedLast(a, fs) /\ BoundFences(fs)
      BY <2>2
    <3>2. PICK fs : TouchedLast(a, fs) /\ BoundFences(fs)
      BY <3>1
    <3>3. RanksDiffer(fs) /\ fs \in [Actions -> Fence]
      BY <1>1, <3>2, TouchingRanks DEF TouchedLast
    <3> QED
      BY <3>2, <3>3, FencesAreBounded
  <2> QED
    BY <1>2, <2>1, <2>2 DEF Refences
<1>7. Bounded'
  BY <1>4, <1>5, <1>6 DEF Bounded
<1>8. LedgerTypeOK'
  BY <1>3, <1>4 DEF LedgerInvariant, LedgerTypeOK
<1>9. LedgerFits'
  BY <1>3, <1>4, <1>6, <1>7, <1>8 DEF LedgerFits
<1> QED
  BY <1>4, <1>9

(* The inductive invariant of the bounds holds of every behaviour, whatever *)
(* is asked of the ledger and in whatever order.                           *)
THEOREM LedgerAlwaysFits == LedgerSpec => []LedgerFits
<1>1. LedgerInit => LedgerFits
  BY LedgerInitFits
<1>2. LedgerFits /\ [LedgerNext]_ledgerVars => LedgerFits'
  BY LedgerNextFits
<1> QED
  BY <1>1, <1>2, PTL DEF LedgerSpec

(* Every variable keeps its shape: the sum of bytes, unsigned in the code, *)
(* that operations add to and subtract from is a number after each.        *)
THEOREM LedgerIsTyped == LedgerSpec => []LedgerTypeOK
<1>1. LedgerFits => LedgerTypeOK
  BY DEF LedgerFits
<1> QED
  BY <1>1, LedgerAlwaysFits, PTL

(* The running sum is the bytes of the results held, through every         *)
(* replacement, every eviction and every retained reference.               *)
THEOREM BytesAreAlwaysExact == LedgerSpec => []BytesAreExact
<1>1. LedgerFits => BytesAreExact
  BY DEF LedgerFits
<1> QED
  BY <1>1, LedgerAlwaysFits, PTL

(* The ledger is over a bound only when every entry may still change, and  *)
(* it never remembers more stopped channels or fences than it may.         *)
THEOREM TheBoundsAlwaysHold == LedgerSpec => []Bounded
<1>1. LedgerFits => Bounded
  BY DEF LedgerFits
<1> QED
  BY <1>1, LedgerAlwaysFits, PTL

(* No outcome is dropped while an older one that could go stays.           *)
THEOREM OldestAlwaysLeaveFirst == LedgerSpec => OldestFinalLeaveFirst
<1>1. LedgerFits /\ [LedgerNext]_ledgerVars => [OldestLeave]_ledgerVars
  BY LedgerNextFits
<1>2. [][OldestLeave]_ledgerVars <=> OldestFinalLeaveFirst
  BY PTL DEF OldestFinalLeaveFirst, OldestLeave
<1> QED
  BY <1>1, <1>2, LedgerAlwaysFits, PTL DEF LedgerSpec
=============================================================================
