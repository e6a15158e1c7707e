---------------------------- MODULE AgentChannel ----------------------------
(***************************************************************************)
(* The daemon's agent channels: the connections hosts open, the endpoint   *)
(* task that serves each (src/cli/src/native/agent_channel/mod.rs), the    *)
(* ledger they share and the command custody their steps wait for          *)
(* (src/cli/src/native/agent_channel/dispatch.rs).                         *)
(*                                                                         *)
(* A connection and the channel id its hello opens are one value here: a   *)
(* host makes a fresh id for every open.  The endpoint tasks run on several *)
(* threads, so an action takes the ledger's lock at most once and an await *)
(* always ends one.                                                        *)
(***************************************************************************)
EXTENDS Ledger

CONSTANTS
    Requests,    \* Requests[c][n]: what host c may send as its n-th frame
    NoChannel    \* no channel: nobody acted, no input is held

(* A request: its kind, its owner (NoOwner without one), the steps of a    *)
(* sequence and the frame an op_status asks about.  A "garbled" line is no *)
(* JSON, so it has no id to answer under; an "invalid" one is a sequence   *)
(* refused by its form.                                                    *)
NoOwner == [action |-> NoAction, generation |-> 0]
Kinds == {"hello", "sequence", "invalid", "op_status", "garbled"}
Request == [kind : Kinds, owner : Owners \cup {NoOwner}, steps : Nat, of : Frames]

ASSUME NoChannelAssumption == NoChannel \notin Channels
ASSUME FirstIdAssumption == 1 \in Ids
ASSUME RequestsAssumption ==
    \A c \in Channels, n \in Ids : \A r \in Requests[c][n] :
        /\ r \in Request
        /\ r.kind = "op_status" => r.owner # NoOwner

VARIABLES
    phase,         \* phase[c]: where the endpoint task of c is
    inbox,         \* inbox[c]: frames read ahead, waiting their turn
    frame,         \* frame[c]: the frame being processed
    sent,          \* sent[c]: the last frame id the host used
    session,       \* session[c]: its hello was accepted
    closed,        \* closed[c]: nothing more is read from the connection
    unanswered,    \* unanswered[c]: the sequences read and not answered
    custody,       \* who holds command custody, and who waits for it
    actor,         \* the channel of the last step that held custody
    held,          \* the channel whose step left a key or button down
    begun,         \* history: the frames of which a step began
    late,          \* history: late[c], steps c began once it was stopped
    acted,         \* history: the channel of the last step that acted
    told,          \* history: the frames an asker was told are unknown
    leftover       \* history: whether the last actor ended without releasing
                   \* the input that is held now

channelVars == <<phase, inbox, frame, sent, session, closed, unanswered>>
browserVars == <<custody, actor, held>>
history == <<begun, late, acted, told, leftover>>
vars == <<ledgerVars, channelVars, browserVars, history>>

(* A frame is being processed.                                             *)
HelloPhases == {"hello", "hello_receives", "hello_registers", "hello_ends", "hello_done"}
StepPhases == {"stepping", "waiting", "running", "landing", "landed", "finishing",
               "settling"}
SequencePhases == {"admitting", "fenced", "preparing"} \cup StepPhases
AskPhases == {"ask_receives", "ask_registers", "asking", "retaining"}
Working == HelloPhases \cup SequencePhases \cup AskPhases
(* Of these, the phases in which the task awaits something else than the   *)
(* connection: only then does it read ahead.                               *)
Awaiting == {"hello", "hello_done", "preparing", "waiting", "running", "landing",
             "landed", "finishing", "ask_receives", "asking"}
Phases == Working \cup {"accepted", "idle", "replying", "ending", "ended", "releasing", "gone"}

IsSequence(r) == r.kind \in {"sequence", "invalid"}
Current(c) == <<c, frame[c].id>>
Holder == IF custody = <<>> THEN NoChannel ELSE Head(custody)

(* The frames of c the endpoint has and has not answered.                  *)
Unserved(c) ==
    {inbox[c][k] : k \in DOMAIN inbox[c]}
        \cup (IF phase[c] \in Working \cup {"replying"} THEN {frame[c]} ELSE {})

Received(r, id, refused) ==
    [id |-> id, kind |-> r.kind, owner |-> r.owner, steps |-> r.steps,
     of |-> r.of, refused |-> refused]

FrameRecord ==
    [id : Ids \cup {0}, kind : Kinds, owner : Owners \cup {NoOwner}, steps : Nat,
     of : Frames, refused : BOOLEAN]

NoFrame(c) ==
    [id |-> 0, kind |-> "garbled", owner |-> NoOwner, steps |-> 0,
     of |-> CHOOSE f \in Frames : TRUE, refused |-> FALSE]

Init ==
    /\ LedgerInit
    /\ phase = [c \in Channels |-> "accepted"]
    /\ inbox = [c \in Channels |-> <<>>]
    /\ frame = [c \in Channels |-> NoFrame(c)]
    /\ sent = [c \in Channels |-> 0]
    /\ session = [c \in Channels |-> FALSE]
    /\ closed = [c \in Channels |-> FALSE]
    /\ unanswered = [c \in Channels |-> 0]
    /\ custody = <<>>
    /\ actor = NoChannel
    /\ held = NoChannel
    /\ begun = {}
    /\ late = [c \in Channels |-> 0]
    /\ acted = NoChannel
    /\ told = {}
    /\ leftover = FALSE

Go(c, next) == phase' = [phase EXCEPT ![c] = next]

-----------------------------------------------------------------------------
(* The read side: Inbox::receive and Inbox::close.                         *)

(* A connection is read before its first frame is taken, when nothing      *)
(* waits, and while a frame's work awaits; never while a reply is written. *)
Reading(c) ==
    /\ ~closed[c]
    /\ \/ phase[c] \in {"accepted"} \cup Awaiting
       \/ phase[c] = "idle" /\ inbox[c] = <<>>

(* Mutant: a sequence refused on arrival is not counted as unanswered.     *)
ArriveUncounted(c) ==
    \E id \in Ids : \E r \in Requests[c][id] :
        LET refused == IsSequence(r) /\ unanswered[c] > 0
        IN  /\ Reading(c)
            /\ r.kind # "garbled"
            /\ id = sent[c] + 1
            /\ sent' = [sent EXCEPT ![c] = id]
            /\ inbox' = [inbox EXCEPT ![c] = Append(@, Received(r, id, refused))]
            /\ unanswered' = [unanswered EXCEPT
                                 ![c] = IF IsSequence(r) /\ ~refused THEN @ + 1 ELSE @]
            /\ IF ~session[c] THEN UNCHANGED ledgerVars
               ELSE IF IsSequence(r) THEN ReceiveSequence(c, id, r.owner.action, refused)
               ELSE ReceiveOther(c, id)
            /\ UNCHANGED <<phase, frame, session, closed, browserVars, history>>

(* A line with an id arrives.  A second unanswered sequence is refused now *)
(* and, once the hello was accepted, the ledger records the arrival.       *)
Arrive(c) ==
    \E id \in Ids : \E r \in Requests[c][id] :
        LET refused == IsSequence(r) /\ unanswered[c] > 0
        IN  /\ Reading(c)
            /\ r.kind # "garbled"
            /\ id = sent[c] + 1
            /\ sent' = [sent EXCEPT ![c] = id]
            /\ inbox' = [inbox EXCEPT ![c] = Append(@, Received(r, id, refused))]
            /\ unanswered' = [unanswered EXCEPT ![c] = IF IsSequence(r) THEN @ + 1 ELSE @]
            /\ IF ~session[c] THEN UNCHANGED ledgerVars
               ELSE IF IsSequence(r) THEN ReceiveSequence(c, id, r.owner.action, refused)
               ELSE ReceiveOther(c, id)
            /\ UNCHANGED <<phase, frame, session, closed, browserVars, history>>

(* A line without a usable id cannot be answered or recorded.              *)
ArriveGarbled(c) ==
    \E id \in Ids : \E r \in Requests[c][id] :
        /\ Reading(c)
        /\ r.kind = "garbled"
        /\ id = sent[c] + 1
        /\ \A k \in DOMAIN inbox[c] : inbox[c][k].kind # "garbled"
        /\ inbox' = [inbox EXCEPT ![c] = Append(@, Received(r, 0, FALSE))]
        /\ UNCHANGED <<ledgerVars, phase, frame, sent, session, closed,
                       unanswered, browserVars, history>>

(* The connection ended, or what was read ahead passed its bound.          *)
Close(c) ==
    /\ ~closed[c]
    /\ phase[c] \in {"accepted", "idle"} \cup Awaiting
    /\ closed' = [closed EXCEPT ![c] = TRUE]
    /\ IF session[c] THEN EndChannel(c) ELSE UNCHANGED ledgerVars
    /\ UNCHANGED <<phase, inbox, frame, sent, session, unanswered,
                   browserVars, history>>

-----------------------------------------------------------------------------
(* Taking the next frame: Endpoint::serve and the dispatch of process.     *)

(* Takes the first waiting frame; next is where its processing starts.     *)
Taking(c) == phase[c] \in {"accepted", "idle"} /\ inbox[c] # <<>>

Take(c, next) ==
    /\ Go(c, next)
    /\ frame' = [frame EXCEPT ![c] = Head(inbox[c])]
    /\ inbox' = [inbox EXCEPT ![c] = Tail(@)]
    /\ UNCHANGED <<sent, session, closed, unanswered, browserVars, history>>

TakeGarbled(c) ==
    /\ Taking(c) /\ Head(inbox[c]).kind = "garbled"
    /\ Take(c, "ending")
    /\ UNCHANGED ledgerVars

(* A frame before the hello, a second hello, or a sequence refused by its  *)
(* form: refused at once, and the last is recorded once there is a session.*)
TakeRefused(c) ==
    LET r == Head(inbox[c])
    IN  /\ Taking(c)
        /\ \/ r.kind = "hello" /\ session[c]
           \/ r.kind \in {"sequence", "op_status"} /\ ~session[c]
           \/ r.kind = "invalid"
        /\ Take(c, "replying")
        /\ IF r.kind = "invalid" /\ session[c]
             THEN NotStarted(c, r.id, r.owner.action)
             ELSE UNCHANGED ledgerVars

TakeHello(c) ==
    /\ Taking(c) /\ Head(inbox[c]).kind = "hello" /\ ~session[c]
    /\ Take(c, "hello")
    /\ UNCHANGED ledgerVars

TakeSequence(c) ==
    /\ Taking(c) /\ Head(inbox[c]).kind = "sequence" /\ session[c]
    /\ Take(c, "admitting")
    /\ ReceiveOther(c, Head(inbox[c]).id)

TakeOpStatus(c) ==
    /\ Taking(c) /\ Head(inbox[c]).kind = "op_status" /\ session[c]
    /\ Take(c, "ask_receives")
    /\ Register(c, Head(inbox[c]).owner)

(* A step of processing that moves only the phase and the ledger.          *)
Process(c, from, next) ==
    /\ phase[c] = from
    /\ Go(c, next)
    /\ UNCHANGED <<inbox, frame, sent, session, closed, unanswered,
                   browserVars, history>>

-----------------------------------------------------------------------------
(* A hello: Endpoint::hello.                                               *)

(* The binding is another browser's, the digest cannot be stated, or the   *)
(* channel id was used before.                                             *)
RefuseHello(c) == Process(c, "hello", "replying") /\ UNCHANGED ledgerVars

OpenHello(c) == Process(c, "hello", "hello_receives") /\ OpenChannel(c)

ReceiveHello(c) ==
    /\ Process(c, "hello_receives",
               IF frame[c].owner = NoOwner THEN "hello_done" ELSE "hello_registers")
    /\ ReceiveOther(c, frame[c].id)

RegisterHello(c) ==
    /\ Process(c, "hello_registers",
               IF Fenced(frame[c].owner) THEN "hello_ends" ELSE "hello_done")
    /\ Register(c, frame[c].owner)

EndFencedHello(c) == Process(c, "hello_ends", "replying") /\ EndChannel(c)

(* The hello was accepted: from now on arrivals are recorded.              *)
Establish(c) ==
    /\ phase[c] = "hello_done"
    /\ Go(c, "replying")
    /\ session' = [session EXCEPT ![c] = TRUE]
    /\ UNCHANGED <<ledgerVars, inbox, frame, sent, closed, unanswered,
                   browserVars, history>>

-----------------------------------------------------------------------------
(* A sequence: Endpoint::sequence.                                         *)

RecordNotStarted(c) == NotStarted(c, frame[c].id, frame[c].owner.action)

RefuseSecondSequence(c) ==
    /\ frame[c].refused
    /\ Process(c, "admitting", "replying")
    /\ RecordNotStarted(c)

(* The owner is admitted or fenced; a frame without one passes.            *)
AdmitSequence(c) ==
    /\ ~frame[c].refused
    /\ IF frame[c].owner = NoOwner
         THEN Process(c, "admitting", "preparing") /\ UNCHANGED ledgerVars
         ELSE /\ Process(c, "admitting",
                         IF Fenced(frame[c].owner) THEN "fenced" ELSE "preparing")
              /\ Register(c, frame[c].owner)

RefuseFencedSequence(c) == Process(c, "fenced", "replying") /\ RecordNotStarted(c)

(* One of its steps is rejected before any runs.                           *)
RejectSteps(c) == Process(c, "preparing", "replying") /\ RecordNotStarted(c)

(* Mutant: the answer of the ledger is not looked at.                      *)
StartUnasked(c) ==
    /\ Process(c, "preparing", "stepping")
    /\ Start(c, frame[c].id, frame[c].owner.action)

StartSequence(c) ==
    /\ Process(c, "preparing", IF Live(c) THEN "stepping" ELSE "replying")
    /\ Start(c, frame[c].id, frame[c].owner.action)

(* Joins the queue for command custody, which is granted in order.         *)
Queue(c, from, next) ==
    /\ phase[c] = from
    /\ Go(c, next)
    /\ custody' = Append(custody, c)
    /\ UNCHANGED <<inbox, frame, sent, unanswered, session, closed, actor, held, history>>

(* Mutant: a step left is taken whatever became of the channel.            *)
NextStepUnasked(c) ==
    /\ frame[c].steps > 0
    /\ Queue(c, "stepping", "waiting")
    /\ UNCHANGED ledgerVars

(* The next step may start: it waits for custody.                          *)
NextStep(c) ==
    /\ MayContinue(c) /\ frame[c].steps > 0
    /\ Queue(c, "stepping", "waiting")
    /\ UNCHANGED ledgerVars

(* No step is left, or the channel stopped: what the frame ends with is    *)
(* read under custody too.                                                 *)
LastStep(c) ==
    /\ ~(MayContinue(c) /\ frame[c].steps > 0)
    /\ Queue(c, "stepping", "finishing")
    /\ UNCHANGED ledgerVars

(* Custody is granted: the step runs, whatever became of its channel.      *)
BeginStep(c) ==
    /\ phase[c] = "waiting" /\ Holder = c
    /\ Go(c, "running")
    /\ actor' = c
    /\ begun' = begun \cup {Current(c)}
    /\ late' = [late EXCEPT ![c] = IF Live(c) THEN @ ELSE @ + 1]
    /\ UNCHANGED <<ledgerVars, inbox, frame, sent, session, closed, unanswered,
                   custody, held, acted, told, leftover>>

(* Mutant: custody is kept until the next step, which waits for it.        *)
EndStepKeepingCustody(c) ==
    /\ phase[c] = "running"
    /\ Go(c, "stepping")
    /\ \E left \in {0, frame[c].steps - 1} :
          frame' = [frame EXCEPT ![c].steps = left]
    /\ \/ UNCHANGED <<held, acted>>
       \/ acted' = c /\ held' \in {held, c, NoChannel}
    /\ leftover' = (leftover /\ held' = held)
    /\ UNCHANGED <<ledgerVars, inbox, sent, session, closed, unanswered,
                   custody, actor, begun, late, told>>

(* The step ends: it was refused or only read, or it acted, left input as  *)
(* it was, held or released, and has a landing to wait for.  A step that   *)
(* failed is the frame's last.                                             *)
EndStep(c) ==
    /\ phase[c] = "running"
    /\ custody' = Tail(custody)
    /\ \E left \in {0, frame[c].steps - 1} :
          frame' = [frame EXCEPT ![c].steps = left]
    /\ \/ Go(c, "stepping") /\ UNCHANGED <<held, acted>>
       \/ Go(c, "landing") /\ acted' = c /\ held' \in {held, c, NoChannel}
    /\ leftover' = (leftover /\ held' = held)
    /\ UNCHANGED <<ledgerVars, inbox, sent, session, closed, unanswered,
                   actor, begun, late, told>>

(* The page settled or the deadline passed: its last read needs custody    *)
(* again.                                                                  *)
QueueLandingRead(c) == Queue(c, "landing", "landed") /\ UNCHANGED ledgerVars

(* A person holds the browser: the landing is answered without a read.     *)
LandWithoutRead(c) == Process(c, "landing", "stepping") /\ UNCHANGED ledgerVars

(* Custody is given back by whoever has it for reading only.               *)
GiveBack(c, from, next) ==
    /\ phase[c] = from /\ Holder = c
    /\ Go(c, next)
    /\ custody' = Tail(custody)
    /\ UNCHANGED <<ledgerVars, inbox, frame, sent, session, closed, unanswered,
                   actor, held, history>>

ReadLanding(c) == GiveBack(c, "landed", "stepping")

FinishSequence(c) == GiveBack(c, "finishing", "settling")

(* Mutant: what a stopped channel did is recorded as nothing.              *)
SettleUnlessStopped(c) ==
    /\ Process(c, "settling", "replying")
    /\ IF Live(c) THEN \E size \in Sizes : Settle(c, frame[c].id, size)
                  ELSE RecordNotStarted(c)

SettleSequence(c) ==
    /\ Process(c, "settling", "replying")
    /\ \E size \in Sizes : Settle(c, frame[c].id, size)

-----------------------------------------------------------------------------
(* An op_status: Endpoint::op_status.                                      *)

ReceiveOpStatus(c) ==
    /\ Process(c, "ask_receives", "ask_registers")
    /\ ReceiveOther(c, frame[c].id)

RegisterAsker(c) ==
    /\ Process(c, "ask_registers",
               IF Fenced(frame[c].owner) THEN "replying" ELSE "asking")
    /\ Register(c, frame[c].owner)

(* It is answered once the frame it asks about no longer runs, or when its *)
(* wait is over.  A host asks about frames it sent.  A result the answer   *)
(* has no room for is written away first.                                  *)
AnswerOpStatus(c) ==
    LET f == frame[c].of
        mine == ~OtherAction(frame[c].owner.action, f)
    IN  /\ phase[c] = "asking"
        /\ \/ Go(c, "replying")
           \/ mine /\ Status(f) = "settled" /\ Go(c, "retaining")
        /\ told' = IF mine /\ Status(f) = "unknown" /\ f[2] <= sent[f[1]]
                   THEN told \cup {f} ELSE told
        /\ UNCHANGED <<ledgerVars, inbox, frame, sent, session, closed, unanswered,
                       browserVars, begun, late, acted, leftover>>

(* The ledger keeps the reference, if it still holds the result.           *)
RetainResult(c) ==
    LET f == frame[c].of
    IN  /\ Process(c, "retaining", "replying")
        /\ IF entries[f].state = "settled"
             THEN \E size \in Sizes : Retain(f[1], f[2], size)
             ELSE UNCHANGED ledgerVars

-----------------------------------------------------------------------------
(* The reply, and the end of the connection.                               *)

(* Mutant: every reply counts as one to a sequence.                        *)
ReplyCounted(c) ==
    /\ phase[c] = "replying"
    /\ unanswered' = [unanswered EXCEPT ![c] = @ - 1]
    /\ Go(c, IF closed[c] THEN "ending" ELSE "idle")
    /\ UNCHANGED <<ledgerVars, inbox, frame, sent, session, closed,
                   browserVars, history>>

(* The reply is written.  The code's count saturates at zero; TypeOK shows *)
(* that it never needs to.                                                 *)
Reply(c) ==
    /\ phase[c] = "replying"
    /\ unanswered' = [unanswered EXCEPT ![c] = IF IsSequence(frame[c]) THEN @ - 1 ELSE @]
    /\ Go(c, IF closed[c] THEN "ending" ELSE "idle")
    /\ UNCHANGED <<ledgerVars, inbox, frame, sent, session, closed,
                   browserVars, history>>

(* The reply cannot be written: the serve loop ends.                       *)
ReplyFails(c) ==
    /\ phase[c] = "replying"
    /\ Go(c, "ending")
    /\ UNCHANGED <<ledgerVars, inbox, frame, sent, session, closed, unanswered,
                   browserVars, history>>

(* Mutant: a connection that never said hello is waited for.               *)
DrainedSession(c) ==
    /\ phase[c] \in {"accepted", "idle"} /\ closed[c] /\ inbox[c] = <<>> /\ session[c]
    /\ Go(c, "ending")
    /\ UNCHANGED <<ledgerVars, inbox, frame, sent, session, closed, unanswered,
                   browserVars, history>>

(* Nothing waits and nothing more arrives.                                 *)
Drained(c) ==
    /\ phase[c] \in {"accepted", "idle"} /\ closed[c] /\ inbox[c] = <<>>
    /\ Go(c, "ending")
    /\ UNCHANGED <<ledgerVars, inbox, frame, sent, session, closed, unanswered,
                   browserVars, history>>

(* The channel ends; then what it left held is settled under custody.      *)
EndSession(c) ==
    /\ session[c]
    /\ Process(c, "ending", "ended")
    /\ EndChannel(c)

QueueRelease(c) == Queue(c, "ended", "releasing") /\ UNCHANGED ledgerVars

EndUnopened(c) ==
    /\ ~session[c]
    /\ Process(c, "ending", "gone")
    /\ UNCHANGED ledgerVars

(* What the last actor's end does to the input that is held, all of it:    *)
(* finish_agent_channel releases it, or it stays because there is no       *)
(* browser, a person has or asked for the browser, or the release failed;  *)
(* its answer is not looked at.                                            *)
FinishInput ==
    /\ held' \in {held, NoChannel}
    /\ leftover' = (held' # NoChannel)

(* Mutant: the last actor is forgotten whoever ends.                       *)
ReleaseForgetting(c) ==
    /\ phase[c] = "releasing" /\ Holder = c
    /\ Go(c, "gone")
    /\ custody' = Tail(custody)
    /\ actor' = NoChannel
    /\ IF actor = c THEN FinishInput ELSE UNCHANGED <<held, leftover>>
    /\ UNCHANGED <<ledgerVars, inbox, frame, sent, session, closed, unanswered,
                   begun, late, acted, told>>

(* The end of a channel whose step was the last to hold custody: first it  *)
(* is the actor no more, then the input is released, or is not.            *)
Release(c) ==
    /\ phase[c] = "releasing" /\ Holder = c
    /\ Go(c, "gone")
    /\ custody' = Tail(custody)
    /\ IF actor = c THEN actor' = NoChannel /\ FinishInput
                    ELSE UNCHANGED <<actor, held, leftover>>
    /\ UNCHANGED <<ledgerVars, inbox, frame, sent, session, closed, unanswered,
                   begun, late, acted, told>>

-----------------------------------------------------------------------------
(* The host and the network: nothing obliges them to act.                  *)
Environment(c) == Arrive(c) \/ ArriveGarbled(c) \/ Close(c) \/ ReplyFails(c)

(* The endpoint task of c.                                                 *)
TakeFrame(c) ==
    TakeGarbled(c) \/ TakeRefused(c) \/ TakeHello(c) \/ TakeSequence(c) \/ TakeOpStatus(c)

Hello(c) ==
    \/ RefuseHello(c) \/ OpenHello(c) \/ ReceiveHello(c) \/ RegisterHello(c)
    \/ EndFencedHello(c) \/ Establish(c)

Sequence(c) ==
    \/ RefuseSecondSequence(c) \/ AdmitSequence(c) \/ RefuseFencedSequence(c)
    \/ RejectSteps(c) \/ StartSequence(c) \/ NextStep(c) \/ LastStep(c)
    \/ BeginStep(c) \/ EndStep(c) \/ QueueLandingRead(c) \/ LandWithoutRead(c)
    \/ ReadLanding(c) \/ FinishSequence(c) \/ SettleSequence(c)

OpStatus(c) == ReceiveOpStatus(c) \/ RegisterAsker(c) \/ AnswerOpStatus(c) \/ RetainResult(c)

EndOfConnection(c) ==
    Drained(c) \/ EndSession(c) \/ EndUnopened(c) \/ QueueRelease(c) \/ Release(c)

Endpoint(c) ==
    TakeFrame(c) \/ Hello(c) \/ Sequence(c) \/ OpStatus(c) \/ Reply(c) \/ EndOfConnection(c)

Next == \E c \in Channels : Environment(c) \/ Endpoint(c)

Spec == Init /\ [][Next]_vars

(* Every endpoint task keeps running: a step ends within its time limit, a *)
(* reply is written or fails, an asker's wait is over at its deadline.     *)
FairSpec == Spec /\ \A c \in Channels : WF_vars(Endpoint(c))

-----------------------------------------------------------------------------
(* Properties.                                                             *)

TypeOK ==
    /\ LedgerTypeOK
    /\ phase \in [Channels -> Phases]
    /\ \A c \in Channels : inbox[c] \in Seq(FrameRecord)
    /\ frame \in [Channels -> FrameRecord]
    /\ sent \in [Channels -> Ids \cup {0}]
    /\ session \in [Channels -> BOOLEAN]
    /\ closed \in [Channels -> BOOLEAN]
    /\ unanswered \in [Channels -> Nat]
    /\ custody \in Seq(Channels)
    /\ actor \in Channels \cup {NoChannel}
    /\ held \in Channels \cup {NoChannel}
    /\ begun \subseteq Frames
    /\ late \in [Channels -> Nat]
    /\ acted \in Channels \cup {NoChannel}
    /\ told \subseteq Frames
    /\ leftover \in BOOLEAN

(* An entry made though its frame's arrival never was recorded.            *)
Unrecorded(f) == entries[f].state # "none" /\ f[2] > channels[f[1]].last_received

(* The ledger and the endpoints agree on what is open: an entry runs if    *)
(* and only if its connection is running that frame, and one that waits    *)
(* its turn is still with its connection.  No close, refusal or eviction   *)
(* leaves a frame "running" for ever or drops one that runs.               *)
OpenEntriesAreServed ==
    \A f \in Frames :
        /\ (entries[f].state = "running") <=>
              (phase[f[1]] \in StepPhases /\ Current(f[1]) = f)
        /\ entries[f].state = "queued" =>
              \E r \in Unserved(f[1]) : r.id = f[2] /\ IsSequence(r) /\ ~r.refused

(* "Nothing of it ran, and nothing ever will": a frame the ledger answers  *)
(* not started for has begun no step, whether it has an entry or its       *)
(* channel stopped before it arrived.                                      *)
NothingOfNotStartedRan ==
    \A f \in Frames : Status(f) = "not_started" => f \notin begun

(* A final answer stands: what is settled or not started is answered so    *)
(* while the ledger holds it, and unknown from then on or the same again.  *)
(* Left out is a sequence refused by its form that was sent ahead of its   *)
(* hello's answer: its arrival is not recorded, so once its entry is       *)
(* evicted it may be answered running (mod.rs:469).                        *)
FinalAnswersStand ==
    [][\A f \in Frames :
           Status(f) \in {"settled", "not_started"} /\ ~Unrecorded(f)
               => Status(f)' \in {Status(f), "unknown"}]_vars

(* At most one sequence of a connection is answered at a time: every other *)
(* one it has read was refused on arrival, and the count that refuses them *)
(* is exact.                                                               *)
OneSequenceAtATime ==
    \A c \in Channels : phase[c] \notin {"ending", "ended", "releasing", "gone"} =>
        LET sequences == {r \in Unserved(c) : IsSequence(r)}
        IN  /\ unanswered[c] = Cardinality(sequences)
            /\ Cardinality({r \in sequences : ~r.refused}) <= 1

(* Fencing, as far as the frame: no sequence starts under an owner older   *)
(* than one the daemon has seen, though its owner was registered, the lock *)
(* released and a step prepared in between.                                *)
FencedFramesDoNotStart ==
    [][\A c \in Channels :
           ( /\ phase[c] = "preparing" /\ phase'[c] = "stepping"
             /\ frame[c].owner # NoOwner )
           => ~Fenced(frame[c].owner)]_vars

(* Fencing, as far as the step: once its channel stopped a frame begins at *)
(* most the one step that already waits for custody.                       *)
AtMostOneLateStep == \A c \in Channels : late[c] <= 1

(* Input a step left held is somebody's to release, though the channel of  *)
(* that step ended or others read since: the channel whose step had        *)
(* custody last is still to end, or it did end and could not release it.   *)
HeldInputHasAReleaser ==
    held # NoChannel =>
        IF actor = NoChannel THEN leftover ELSE session[actor] /\ phase[actor] # "gone"

(* Every open frame is resolved: it settles or is recorded not started.    *)
OpenFramesResolve ==
    \A f \in Frames :
        entries[f].state \in {"queued", "running"}
            ~> entries[f].state \notin {"queued", "running"}

(* A connection that closed lets go of everything: its task ends.          *)
ClosedConnectionsEnd ==
    \A c \in Channels : closed[c] ~> phase[c] = "gone"

-----------------------------------------------------------------------------
(* What the documentation says and the code does not do.                   *)

(* ledger.rs:3-6 says an Action's older owner never starts anything once a *)
(* newer one reached the daemon.                                           *)
FencedOwnersStartNothing ==
    [][\A c \in Channels :
           ( /\ phase[c] = "waiting" /\ phase'[c] = "running"
             /\ frame[c].owner # NoOwner )
           => ~Fenced(frame[c].owner)]_vars

(* ledger.rs:10-11 and 120 say unknown is an answer that can never change. *)
UnknownNeverChanges ==
    [][\A f \in told : Status(f)' = "unknown"]_vars

(* dispatch.rs:46-47 and mod.rs:213-214 say the input a channel's steps    *)
(* left held is released when it ends, unless another channel's step acted *)
(* since.  A release that was tried and declined is not what this is about.*)
EndedChannelsHoldNothing ==
    \A c \in Channels : phase[c] = "gone" /\ held = c /\ ~leftover => acted # c
=============================================================================
