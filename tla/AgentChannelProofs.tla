-------------------------- MODULE AgentChannelProofs -------------------------
(***************************************************************************)
(* Proofs about the agent channels, for every number of hosts and every    *)
(* frame they may send: the endpoint tasks use the ledger as its own       *)
(* specification allows, so its theorems hold in the daemon.               *)
(***************************************************************************)
EXTENDS AgentChannel, LedgerProofs

(* A frame that can be processed has an id, and an asker has an owner.     *)
Usable ==
    {r \in FrameRecord :
        /\ r.kind # "garbled" => r.id \in Ids
        /\ r.kind = "op_status" => r.owner # NoOwner}

(* What a phase demands of the frame it processes.                         *)
Fits(p, r) ==
    /\ p \in Working => r.kind # "garbled"
    /\ p \in AskPhases => r.kind = "op_status"
    /\ p = "hello_registers" => r.owner # NoOwner
    /\ p \in {"waiting", "running"} => r.steps > 0

(* Every task has the frame its phase needs.                               *)
FramesFit ==
    /\ phase \in [Channels -> Phases]
    /\ inbox \in [Channels -> Seq(Usable)]
    /\ frame \in [Channels -> Usable]
    /\ \A c \in Channels : Fits(phase[c], frame[c])

(* What every step of the daemon is, to the frames and to the ledger.      *)
Regular == FramesFit' /\ [LedgerNext]_ledgerVars

-----------------------------------------------------------------------------
(* The ways a step touches the frames.                                     *)

(* A task moves on with its frame.                                         *)
LEMMA MoveFits ==
    ASSUME FramesFit, NEW c \in Channels, NEW next \in Phases,
           Go(c, next), UNCHANGED <<inbox, frame>>, Fits(next, frame[c])
    PROVE  FramesFit'
<1>1. phase' = [phase EXCEPT ![c] = next] /\ inbox' = inbox /\ frame' = frame
  BY DEF Go
<1>2. phase' \in [Channels -> Phases]
  BY <1>1 DEF FramesFit
<1>3. \A d \in Channels : Fits(phase'[d], frame'[d])
  <2> TAKE d \in Channels
  <2>1. CASE d = c
    BY <1>1, <2>1 DEF FramesFit
  <2>2. CASE d # c
    BY <1>1, <2>2 DEF FramesFit
  <2> QED
    BY <2>1, <2>2
<1> QED
  BY <1>1, <1>2, <1>3 DEF FramesFit

(* A task leaves its frame behind: nothing is demanded of it then.         *)
LEMMA RestFits ==
    ASSUME NEW p \in Phases \ Working, NEW r
    PROVE  Fits(p, r)
BY DEF Fits, Working, HelloPhases, SequencePhases, StepPhases, AskPhases

(* Nothing of the frames changes.                                          *)
LEMMA StillFits ==
    ASSUME FramesFit, UNCHANGED <<phase, inbox, frame>>
    PROVE  FramesFit'
BY DEF FramesFit

(* A line arrives.                                                         *)
LEMMA ArrivalFits ==
    ASSUME FramesFit, NEW c \in Channels, NEW r \in Usable,
           inbox' = [inbox EXCEPT ![c] = Append(@, r)], UNCHANGED <<phase, frame>>
    PROVE  FramesFit'
<1>1. Append(inbox[c], r) \in Seq(Usable)
  BY AppendProperties DEF FramesFit
<1> QED
  BY <1>1 DEF FramesFit

(* A task takes its next frame.                                            *)
LEMMA TakingFits ==
    ASSUME FramesFit, NEW c \in Channels, NEW next \in Phases, Taking(c),
           Take(c, next), Fits(next, Head(inbox[c]))
    PROVE  FramesFit'
<1>1. /\ phase' = [phase EXCEPT ![c] = next]
      /\ frame' = [frame EXCEPT ![c] = Head(inbox[c])]
      /\ inbox' = [inbox EXCEPT ![c] = Tail(inbox[c])]
  BY DEF Take, Go
<1>2. Head(inbox[c]) \in Usable /\ Tail(inbox[c]) \in Seq(Usable)
  BY HeadTailProperties DEF FramesFit, Taking
<1>3. phase' \in [Channels -> Phases] /\ inbox' \in [Channels -> Seq(Usable)]
      /\ frame' \in [Channels -> Usable]
  BY <1>1, <1>2 DEF FramesFit
<1>4. \A d \in Channels : Fits(phase'[d], frame'[d])
  <2> TAKE d \in Channels
  <2>1. CASE d = c
    BY <1>1, <2>1 DEF FramesFit
  <2>2. CASE d # c
    BY <1>1, <2>2 DEF FramesFit
  <2> QED
    BY <2>1, <2>2
<1> QED
  BY <1>3, <1>4 DEF FramesFit

(* A step of a task that keeps its frame and leaves it behind.             *)
LEMMA RestRegular ==
    ASSUME FramesFit, NEW c \in Channels, NEW next \in Phases \ Working,
           Go(c, next), UNCHANGED <<inbox, frame>>, [LedgerNext]_ledgerVars
    PROVE  Regular
<1>1. Fits(next, frame[c])
  BY RestFits
<1> QED
  BY <1>1, MoveFits DEF Regular

(* Who a frame speaks for.                                                 *)
LEMMA OwnerOfAFrame ==
    ASSUME NEW r \in Usable
    PROVE  /\ r.owner.action \in Actions \cup {NoAction}
           /\ r.owner # NoOwner => r.owner \in Owners
<1>1. r.owner \in Owners \cup {NoOwner}
  BY DEF Usable, FrameRecord
<1>2. \A o \in Owners : o.action \in Actions
  BY DEF Owners
<1>3. NoOwner.action = NoAction
  BY DEF NoOwner
<1> QED
  BY <1>1, <1>2, <1>3

-----------------------------------------------------------------------------
(* The operations a step may use of the ledger.                            *)

LEMMA ChannelOperations ==
    ASSUME NEW c \in Channels
    PROVE  /\ OpenChannel(c) => LedgerNext
           /\ EndChannel(c) => LedgerNext
           /\ \A owner \in Owners : Register(c, owner) => LedgerNext
BY DEF LedgerNext

LEMMA FrameOperations ==
    ASSUME NEW c \in Channels, NEW i \in Ids
    PROVE  /\ ReceiveOther(c, i) => LedgerNext
           /\ \A a \in Actions \cup {NoAction} :
                 /\ \A refused \in BOOLEAN :
                        ReceiveSequence(c, i, a, refused) => LedgerNext
                 /\ Start(c, i, a) => LedgerNext
                 /\ NotStarted(c, i, a) => LedgerNext
           /\ \A size \in Sizes :
                 (Settle(c, i, size) => LedgerNext) /\ (Retain(c, i, size) => LedgerNext)
<1>1. FrameOperation(c, i) => LedgerNext
  BY DEF LedgerNext
<1>2. ReceiveOther(c, i) => FrameOperation(c, i)
  BY DEF FrameOperation
<1>3. ASSUME NEW a \in Actions \cup {NoAction}
      PROVE  /\ \A refused \in BOOLEAN :
                   ReceiveSequence(c, i, a, refused) => FrameOperation(c, i)
             /\ Start(c, i, a) => FrameOperation(c, i)
             /\ NotStarted(c, i, a) => FrameOperation(c, i)
  BY DEF FrameOperation
<1>4. ASSUME NEW size \in Sizes
      PROVE  /\ Settle(c, i, size) => FrameOperation(c, i)
             /\ Retain(c, i, size) => FrameOperation(c, i)
  BY DEF FrameOperation
<1> QED
  BY <1>1, <1>2, <1>3, <1>4

-----------------------------------------------------------------------------
(* The host and the network.                                               *)

LEMMA ReceivedIsUsable ==
    ASSUME NEW r \in Request, NEW id \in Ids, NEW refused \in BOOLEAN,
           r.kind = "op_status" => r.owner # NoOwner
    PROVE  /\ Received(r, id, refused) \in Usable
           /\ r.kind = "garbled" => Received(r, 0, refused) \in Usable
BY DEF Received, Usable, FrameRecord, Request

LEMMA ArriveRegular ==
    ASSUME FramesFit, NEW c \in Channels, Arrive(c)
    PROVE  Regular
<1>0. PICK id \in Ids : \E r \in Requests[c][id] :
         LET refused == IsSequence(r) /\ unanswered[c] > 0
         IN  /\ inbox' = [inbox EXCEPT ![c] = Append(@, Received(r, id, refused))]
             /\ UNCHANGED <<phase, frame>>
             /\ IF ~session[c] THEN UNCHANGED ledgerVars
                ELSE IF IsSequence(r) THEN ReceiveSequence(c, id, r.owner.action, refused)
                ELSE ReceiveOther(c, id)
  BY DEF Arrive
<1>1. PICK r \in Requests[c][id] :
         LET refused == IsSequence(r) /\ unanswered[c] > 0
         IN  /\ inbox' = [inbox EXCEPT ![c] = Append(@, Received(r, id, refused))]
             /\ UNCHANGED <<phase, frame>>
             /\ IF ~session[c] THEN UNCHANGED ledgerVars
                ELSE IF IsSequence(r) THEN ReceiveSequence(c, id, r.owner.action, refused)
                ELSE ReceiveOther(c, id)
  BY <1>0
<1> DEFINE refused == IsSequence(r) /\ unanswered[c] > 0
<1>2. r \in Request /\ (r.kind = "op_status" => r.owner # NoOwner)
  BY RequestsAssumption
<1>3. refused \in BOOLEAN
  OBVIOUS
<1>4. Received(r, id, refused) \in Usable
  BY <1>2, <1>3, ReceivedIsUsable
<1>5. FramesFit'
  BY <1>1, <1>4, ArrivalFits
<1>6. r.owner.action \in Actions \cup {NoAction}
  <2>1. r.owner \in Owners \cup {NoOwner}
    BY <1>2 DEF Request
  <2> QED
    BY <2>1 DEF Owners, NoOwner
<1> HIDE DEF refused
<1>7. UNCHANGED ledgerVars \/ ReceiveSequence(c, id, r.owner.action, refused)
        \/ ReceiveOther(c, id)
  BY <1>1 DEF refused
<1>8. [LedgerNext]_ledgerVars
  BY <1>3, <1>6, <1>7, FrameOperations
<1> QED
  BY <1>5, <1>8 DEF Regular

LEMMA ArriveGarbledRegular ==
    ASSUME FramesFit, NEW c \in Channels, ArriveGarbled(c)
    PROVE  Regular
<1>0. PICK id \in Ids : \E r \in Requests[c][id] :
         /\ r.kind = "garbled"
         /\ inbox' = [inbox EXCEPT ![c] = Append(@, Received(r, 0, FALSE))]
         /\ UNCHANGED <<ledgerVars, phase, frame>>
  BY DEF ArriveGarbled
<1>1. PICK r \in Requests[c][id] :
         /\ r.kind = "garbled"
         /\ inbox' = [inbox EXCEPT ![c] = Append(@, Received(r, 0, FALSE))]
         /\ UNCHANGED <<ledgerVars, phase, frame>>
  BY <1>0
<1>2. r \in Request /\ (r.kind = "op_status" => r.owner # NoOwner)
  BY RequestsAssumption
<1>3. Received(r, 0, FALSE) \in Usable
  BY <1>1, <1>2, ReceivedIsUsable
<1> QED
  BY <1>1, <1>3, ArrivalFits DEF Regular

LEMMA EnvironmentRegular ==
    ASSUME FramesFit, NEW c \in Channels, Environment(c)
    PROVE  Regular
<1>1. CASE Close(c)
  <2>1. UNCHANGED <<phase, inbox, frame>> /\ (EndChannel(c) \/ UNCHANGED ledgerVars)
    BY <1>1 DEF Close
  <2> QED
    BY <2>1, StillFits, ChannelOperations DEF Regular
<1>2. CASE ReplyFails(c)
  <2>1. Go(c, "ending") /\ UNCHANGED <<inbox, frame, ledgerVars>>
    BY <1>2 DEF ReplyFails
  <2>2. "ending" \in Phases \ Working
    BY DEF Phases, Working, HelloPhases, SequencePhases, StepPhases, AskPhases
  <2> QED
    BY <2>1, <2>2, RestRegular
<1> QED
  BY <1>1, <1>2, ArriveRegular, ArriveGarbledRegular DEF Environment

-----------------------------------------------------------------------------
(* Taking a frame.                                                         *)

LEMMA TakeRegular ==
    ASSUME FramesFit, NEW c \in Channels, TakeFrame(c)
    PROVE  Regular
<1> DEFINE r == Head(inbox[c])
<1>1. Taking(c)
  BY DEF TakeFrame, TakeGarbled, TakeRefused, TakeHello, TakeSequence, TakeOpStatus
<1>2. r \in Usable
  BY <1>1, HeadTailProperties DEF Taking, FramesFit
<1>3. r.kind # "garbled" => r.id \in Ids
  BY <1>2 DEF Usable
<1>4. /\ r.owner.action \in Actions \cup {NoAction}
      /\ r.kind = "op_status" => r.owner \in Owners
  BY <1>2, OwnerOfAFrame DEF Usable
<1> HIDE DEF r
<1>5. CASE TakeGarbled(c)
  <2>1. Take(c, "ending") /\ UNCHANGED ledgerVars
    BY <1>5 DEF TakeGarbled
  <2>2. "ending" \in Phases \ Working
    BY DEF Phases, Working, HelloPhases, SequencePhases, StepPhases, AskPhases
  <2>3. FramesFit'
    BY <1>1, <2>1, <2>2, RestFits, TakingFits
  <2> QED
    BY <2>1, <2>3 DEF Regular
<1>6. CASE TakeRefused(c)
  <2>1. /\ Take(c, "replying")
        /\ \/ UNCHANGED ledgerVars
           \/ r.kind = "invalid" /\ NotStarted(c, r.id, r.owner.action)
    BY <1>6 DEF TakeRefused, r
  <2>2. "replying" \in Phases \ Working
    BY DEF Phases, Working, HelloPhases, SequencePhases, StepPhases, AskPhases
  <2>3. FramesFit'
    BY <1>1, <2>1, <2>2, RestFits, TakingFits
  <2>4. [LedgerNext]_ledgerVars
    BY <1>3, <1>4, <2>1, FrameOperations
  <2> QED
    BY <2>3, <2>4 DEF Regular
<1>7. CASE TakeHello(c)
  <2>1. Take(c, "hello") /\ UNCHANGED ledgerVars /\ r.kind = "hello"
    BY <1>7 DEF TakeHello, r
  <2>2. "hello" \in Phases /\ Fits("hello", r)
    BY <2>1 DEF Fits, Phases, Working, HelloPhases, AskPhases
  <2>3. FramesFit'
    BY <1>1, <2>1, <2>2, TakingFits DEF r
  <2> QED
    BY <2>1, <2>3 DEF Regular
<1>8. CASE TakeSequence(c)
  <2>1. Take(c, "admitting") /\ ReceiveOther(c, r.id) /\ r.kind = "sequence"
    BY <1>8 DEF TakeSequence, r
  <2>2. "admitting" \in Phases /\ Fits("admitting", r)
    BY <2>1 DEF Fits, Phases, Working, SequencePhases, AskPhases
  <2>3. FramesFit'
    BY <1>1, <2>1, <2>2, TakingFits DEF r
  <2>4. LedgerNext
    BY <1>3, <2>1, FrameOperations
  <2> QED
    BY <2>3, <2>4 DEF Regular
<1>9. CASE TakeOpStatus(c)
  <2>1. Take(c, "ask_receives") /\ Register(c, r.owner) /\ r.kind = "op_status"
    BY <1>9 DEF TakeOpStatus, r
  <2>2. "ask_receives" \in Phases /\ Fits("ask_receives", r)
    BY <2>1 DEF Fits, Phases, Working, AskPhases
  <2>3. FramesFit'
    BY <1>1, <2>1, <2>2, TakingFits DEF r
  <2>4. LedgerNext
    BY <1>4, <2>1, ChannelOperations
  <2> QED
    BY <2>3, <2>4 DEF Regular
<1> QED
  BY <1>5, <1>6, <1>7, <1>8, <1>9 DEF TakeFrame

-----------------------------------------------------------------------------
(* Processing a frame.                                                     *)

(* What is known of the frame in turn.                                     *)
LEMMA FrameInTurn ==
    ASSUME FramesFit, NEW c \in Channels, phase[c] \in Working
    PROVE  /\ frame[c].id \in Ids
           /\ frame[c].owner.action \in Actions \cup {NoAction}
           /\ frame[c].owner # NoOwner => frame[c].owner \in Owners
           /\ phase[c] \in AskPhases => frame[c].owner \in Owners
           /\ frame[c].kind # "garbled"
           /\ frame[c].of \in Frames
<1>1. frame[c] \in Usable /\ Fits(phase[c], frame[c])
  BY DEF FramesFit
<1>2. frame[c].kind # "garbled" /\ (phase[c] \in AskPhases => frame[c].kind = "op_status")
  BY <1>1 DEF Fits
<1>3. /\ frame[c].id \in Ids
      /\ phase[c] \in AskPhases => frame[c].owner # NoOwner
  BY <1>1, <1>2 DEF Usable
<1>4. frame[c].of \in Frames
  BY <1>1 DEF Usable, FrameRecord
<1> QED
  BY <1>1, <1>2, <1>3, <1>4, OwnerOfAFrame

(* The phases of a task that only works on, with any frame but a garbled   *)
(* one.                                                                    *)
LEMMA OtherPhasesFit ==
    ASSUME NEW r, r.kind # "garbled",
           NEW p \in {"hello_receives", "hello_ends", "hello_done", "fenced", "preparing",
                      "stepping", "landing", "landed", "finishing", "settling",
                      "replying", "ending", "ended", "releasing", "gone", "idle"}
    PROVE  Fits(p, r) /\ p \in Phases
BY DEF Fits, Phases, Working, HelloPhases, SequencePhases, StepPhases, AskPhases

LEMMA HelloRegular ==
    ASSUME FramesFit, NEW c \in Channels, Hello(c)
    PROVE  Regular
<1>1. phase[c] \in Working
  BY DEF Hello, RefuseHello, OpenHello, ReceiveHello, RegisterHello, EndFencedHello,
         Establish, Process, Working, HelloPhases
<1>2. frame[c].id \in Ids /\ frame[c].kind # "garbled"
      /\ (frame[c].owner # NoOwner => frame[c].owner \in Owners)
  BY <1>1, FrameInTurn
<1>3. ASSUME NEW next \in {"hello_receives", "hello_ends", "hello_done", "replying"},
             Go(c, next), UNCHANGED <<inbox, frame>>, [LedgerNext]_ledgerVars
      PROVE  Regular
  BY <1>2, <1>3, OtherPhasesFit, MoveFits DEF Regular
<1>4. CASE RefuseHello(c)
  BY <1>3, <1>4 DEF RefuseHello, Process
<1>5. CASE OpenHello(c)
  <2>1. Go(c, "hello_receives") /\ UNCHANGED <<inbox, frame>> /\ OpenChannel(c)
    BY <1>5 DEF OpenHello, Process
  <2> QED
    BY <1>3, <2>1, ChannelOperations
<1>6. CASE ReceiveHello(c)
  <2>1. /\ Go(c, IF frame[c].owner = NoOwner THEN "hello_done" ELSE "hello_registers")
        /\ UNCHANGED <<inbox, frame>> /\ ReceiveOther(c, frame[c].id)
    BY <1>6 DEF ReceiveHello, Process
  <2>2. LedgerNext
    BY <1>2, <2>1, FrameOperations
  <2>3. CASE frame[c].owner = NoOwner
    BY <1>3, <2>1, <2>2, <2>3
  <2>4. CASE frame[c].owner # NoOwner
    <3>1. Fits("hello_registers", frame[c]) /\ "hello_registers" \in Phases
      BY <1>2, <2>4 DEF Fits, Phases, Working, HelloPhases, AskPhases
    <3> QED
      BY <2>1, <2>2, <2>4, <3>1, MoveFits DEF Regular
  <2> QED
    BY <2>3, <2>4
<1>7. CASE RegisterHello(c)
  <2>1. /\ Go(c, IF Fenced(frame[c].owner) THEN "hello_ends" ELSE "hello_done")
        /\ UNCHANGED <<inbox, frame>> /\ Register(c, frame[c].owner)
        /\ phase[c] = "hello_registers"
    BY <1>7 DEF RegisterHello, Process
  <2>2. frame[c].owner # NoOwner
    BY <2>1 DEF FramesFit, Fits
  <2>3. LedgerNext
    BY <1>2, <2>1, <2>2, ChannelOperations
  <2> QED
    BY <1>3, <2>1, <2>3
<1>8. CASE EndFencedHello(c)
  <2>1. Go(c, "replying") /\ UNCHANGED <<inbox, frame>> /\ EndChannel(c)
    BY <1>8 DEF EndFencedHello, Process
  <2> QED
    BY <1>3, <2>1, ChannelOperations
<1>9. CASE Establish(c)
  BY <1>3, <1>9 DEF Establish
<1> QED
  BY <1>4, <1>5, <1>6, <1>7, <1>8, <1>9 DEF Hello

(* A step that ended leaves fewer steps, or none.                          *)
LEMMA EndStepFits ==
    ASSUME FramesFit, NEW c \in Channels, EndStep(c)
    PROVE  FramesFit'
<1>1. /\ phase[c] = "running"
      /\ inbox' = inbox
      /\ \/ phase' = [phase EXCEPT ![c] = "stepping"]
         \/ phase' = [phase EXCEPT ![c] = "landing"]
  BY DEF EndStep, Go
<1>2. PICK left \in {0, frame[c].steps - 1} :
         frame' = [frame EXCEPT ![c].steps = left]
  BY DEF EndStep
<1>3. frame[c] \in Usable /\ frame[c].steps \in Nat /\ frame[c].steps > 0
  BY <1>1 DEF FramesFit, Fits, Usable, FrameRecord
<1>4. left \in Nat
  BY <1>3
<1> DEFINE shorter == [frame[c] EXCEPT !.steps = left]
<1>5. shorter \in Usable /\ shorter.kind = frame[c].kind
  <2>1. shorter \in FrameRecord
    BY <1>3, <1>4 DEF Usable, FrameRecord
  <2>2. shorter.id = frame[c].id /\ shorter.kind = frame[c].kind
        /\ shorter.owner = frame[c].owner
    BY <1>3 DEF Usable, FrameRecord
  <2> QED
    BY <1>3, <2>1, <2>2 DEF Usable
<1>6. frame' = [frame EXCEPT ![c] = shorter]
  BY <1>2 DEF FramesFit
<1>7. frame[c].kind # "garbled"
  BY <1>1 DEF FramesFit, Fits, Working, SequencePhases, StepPhases
<1> HIDE DEF shorter
<1>8. phase' \in [Channels -> Phases] /\ frame' \in [Channels -> Usable]
  BY <1>1, <1>5, <1>6 DEF FramesFit, Phases, Working, SequencePhases, StepPhases
<1>9. \A d \in Channels : Fits(phase'[d], frame'[d])
  <2> TAKE d \in Channels
  <2>1. CASE d = c
    <3>1. frame'[c] = shorter /\ phase'[c] \in {"stepping", "landing"}
      BY <1>1, <1>6 DEF FramesFit
    <3>2. Fits(phase'[c], shorter)
      BY <1>5, <1>7, <3>1, OtherPhasesFit
    <3> QED
      BY <2>1, <3>1, <3>2
  <2>2. CASE d # c
    BY <1>1, <1>6, <2>2 DEF FramesFit
  <2> QED
    BY <2>1, <2>2
<1> QED
  BY <1>1, <1>8, <1>9 DEF FramesFit

LEMMA SequenceRegular ==
    ASSUME FramesFit, NEW c \in Channels, Sequence(c)
    PROVE  Regular
<1>1. phase[c] \in Working
  BY DEF Sequence, RefuseSecondSequence, AdmitSequence, RefuseFencedSequence, RejectSteps,
         StartSequence, NextStep, LastStep, BeginStep, EndStep, QueueLandingRead,
         LandWithoutRead, ReadLanding, FinishSequence, SettleSequence, GiveBack, Queue,
         Process, Working, SequencePhases, StepPhases
<1>2. /\ frame[c].id \in Ids /\ frame[c].kind # "garbled"
      /\ frame[c].owner.action \in Actions \cup {NoAction}
      /\ frame[c].owner # NoOwner => frame[c].owner \in Owners
  BY <1>1, FrameInTurn
<1>3. ASSUME NEW next \in {"fenced", "preparing", "stepping", "landing", "landed",
                           "finishing", "settling", "replying"},
             Go(c, next), UNCHANGED <<inbox, frame>>, [LedgerNext]_ledgerVars
      PROVE  Regular
  BY <1>2, <1>3, OtherPhasesFit, MoveFits DEF Regular
<1>4. RecordNotStarted(c) => LedgerNext
  BY <1>2, FrameOperations DEF RecordNotStarted
<1>5. CASE RefuseSecondSequence(c) \/ RefuseFencedSequence(c) \/ RejectSteps(c)
  <2>1. Go(c, "replying") /\ UNCHANGED <<inbox, frame>> /\ RecordNotStarted(c)
    BY <1>5 DEF RefuseSecondSequence, RefuseFencedSequence, RejectSteps, Process
  <2> QED
    BY <1>3, <1>4, <2>1
<1>6. CASE AdmitSequence(c)
  <2>1. UNCHANGED <<inbox, frame>> /\ (Go(c, "fenced") \/ Go(c, "preparing"))
    BY <1>6 DEF AdmitSequence, Process
  <2>2. UNCHANGED ledgerVars
          \/ (frame[c].owner # NoOwner /\ Register(c, frame[c].owner))
    BY <1>6 DEF AdmitSequence
  <2>3. [LedgerNext]_ledgerVars
    BY <1>2, <2>2, ChannelOperations
  <2> QED
    BY <1>3, <2>1, <2>3
<1>7. CASE StartSequence(c)
  <2>1. UNCHANGED <<inbox, frame>> /\ (Go(c, "stepping") \/ Go(c, "replying"))
    BY <1>7 DEF StartSequence, Process
  <2>2. LedgerNext
    BY <1>2, <1>7, FrameOperations DEF StartSequence
  <2> QED
    BY <1>3, <2>1, <2>2
<1>8. CASE NextStep(c)
  <2>1. /\ Go(c, "waiting") /\ UNCHANGED <<inbox, frame>> /\ UNCHANGED ledgerVars
        /\ frame[c].steps > 0
    BY <1>8 DEF NextStep, Queue
  <2>2. Fits("waiting", frame[c]) /\ "waiting" \in Phases
    BY <1>2, <2>1 DEF Fits, Phases, Working, SequencePhases, StepPhases, AskPhases
  <2> QED
    BY <2>1, <2>2, MoveFits DEF Regular
<1>9. CASE BeginStep(c)
  <2>1. /\ Go(c, "running") /\ UNCHANGED <<inbox, frame>> /\ UNCHANGED ledgerVars
        /\ phase[c] = "waiting"
    BY <1>9 DEF BeginStep
  <2>2. Fits("running", frame[c]) /\ "running" \in Phases
    BY <1>2, <2>1 DEF FramesFit, Fits, Phases, Working, SequencePhases, StepPhases, AskPhases
  <2> QED
    BY <2>1, <2>2, MoveFits DEF Regular
<1>10. CASE EndStep(c)
  BY <1>10, EndStepFits DEF EndStep, Regular
<1>11. CASE LastStep(c) \/ QueueLandingRead(c) \/ LandWithoutRead(c)
  <2>1. /\ Go(c, "finishing") \/ Go(c, "landed") \/ Go(c, "stepping")
        /\ UNCHANGED <<inbox, frame>> /\ UNCHANGED ledgerVars
    BY <1>11 DEF LastStep, QueueLandingRead, LandWithoutRead, Queue, Process
  <2> QED
    BY <1>3, <2>1
<1>12. CASE ReadLanding(c) \/ FinishSequence(c)
  <2>1. /\ Go(c, "stepping") \/ Go(c, "settling")
        /\ UNCHANGED <<inbox, frame>> /\ UNCHANGED ledgerVars
    BY <1>12 DEF ReadLanding, FinishSequence, GiveBack
  <2> QED
    BY <1>3, <2>1
<1>13. CASE SettleSequence(c)
  <2>1. Go(c, "replying") /\ UNCHANGED <<inbox, frame>>
    BY <1>13 DEF SettleSequence, Process
  <2>2. LedgerNext
    BY <1>2, <1>13, FrameOperations DEF SettleSequence
  <2> QED
    BY <1>3, <2>1, <2>2
<1> QED
  BY <1>5, <1>6, <1>7, <1>8, <1>9, <1>10, <1>11, <1>12, <1>13 DEF Sequence

LEMMA OpStatusRegular ==
    ASSUME FramesFit, NEW c \in Channels, OpStatus(c)
    PROVE  Regular
<1>1. phase[c] \in AskPhases /\ phase[c] \in Working
  BY DEF OpStatus, ReceiveOpStatus, RegisterAsker, AnswerOpStatus, RetainResult, Process,
         AskPhases, Working
<1>2. /\ frame[c].id \in Ids /\ frame[c].owner \in Owners /\ frame[c].of \in Frames
  BY <1>1, FrameInTurn
<1>3. frame[c].kind = "op_status"
  BY <1>1 DEF FramesFit, Fits
<1>4. ASSUME NEW next \in {"ask_registers", "asking", "retaining", "replying"},
             Go(c, next), UNCHANGED <<inbox, frame>>, [LedgerNext]_ledgerVars
      PROVE  Regular
  <2>1. Fits(next, frame[c]) /\ next \in Phases
    BY <1>3 DEF Fits, Phases, Working, HelloPhases, SequencePhases, StepPhases, AskPhases
  <2> QED
    BY <1>4, <2>1, MoveFits DEF Regular
<1>5. CASE ReceiveOpStatus(c)
  <2>1. Go(c, "ask_registers") /\ UNCHANGED <<inbox, frame>> /\ ReceiveOther(c, frame[c].id)
    BY <1>5 DEF ReceiveOpStatus, Process
  <2> QED
    BY <1>2, <1>4, <2>1, FrameOperations
<1>6. CASE RegisterAsker(c)
  <2>1. /\ Go(c, "replying") \/ Go(c, "asking")
        /\ UNCHANGED <<inbox, frame>> /\ Register(c, frame[c].owner)
    BY <1>6 DEF RegisterAsker, Process
  <2>2. LedgerNext
    BY <1>2, <2>1, ChannelOperations
  <2> QED
    BY <1>4, <2>1, <2>2
<1>7. CASE AnswerOpStatus(c)
  <2>1. /\ Go(c, "replying") \/ Go(c, "retaining")
        /\ UNCHANGED <<inbox, frame>> /\ UNCHANGED ledgerVars
    BY <1>7 DEF AnswerOpStatus
  <2> QED
    BY <1>4, <2>1
<1>8. CASE RetainResult(c)
  <2>1. Go(c, "replying") /\ UNCHANGED <<inbox, frame>>
    BY <1>8 DEF RetainResult, Process
  <2>2. frame[c].of[1] \in Channels /\ frame[c].of[2] \in Ids
    BY <1>2, FrameParts
  <2>3. UNCHANGED ledgerVars
          \/ \E size \in Sizes : Retain(frame[c].of[1], frame[c].of[2], size)
    BY <1>8 DEF RetainResult
  <2>4. [LedgerNext]_ledgerVars
    BY <2>2, <2>3, FrameOperations
  <2> QED
    BY <1>4, <2>1, <2>4
<1> QED
  BY <1>5, <1>6, <1>7, <1>8 DEF OpStatus

-----------------------------------------------------------------------------
(* The reply, and the end of the connection.                               *)

LEMMA EndRegular ==
    ASSUME FramesFit, NEW c \in Channels, Reply(c) \/ EndOfConnection(c)
    PROVE  Regular
<1>1. {"idle", "ending", "ended", "releasing", "gone"} \subseteq Phases \ Working
  BY DEF Phases, Working, HelloPhases, SequencePhases, StepPhases, AskPhases
<1>2. ASSUME NEW next \in {"idle", "ending", "ended", "releasing", "gone"},
             Go(c, next), UNCHANGED <<inbox, frame>>, [LedgerNext]_ledgerVars
      PROVE  Regular
  BY <1>1, <1>2, RestRegular
<1>3. CASE Reply(c)
  <2>1. /\ Go(c, "ending") \/ Go(c, "idle")
        /\ UNCHANGED <<inbox, frame>> /\ UNCHANGED ledgerVars
    BY <1>3 DEF Reply
  <2> QED
    BY <1>2, <2>1
<1>4. CASE Drained(c)
  BY <1>2, <1>4 DEF Drained
<1>5. CASE EndSession(c)
  <2>1. Go(c, "ended") /\ UNCHANGED <<inbox, frame>> /\ EndChannel(c)
    BY <1>5 DEF EndSession, Process
  <2> QED
    BY <1>2, <2>1, ChannelOperations
<1>6. CASE EndUnopened(c)
  BY <1>2, <1>6 DEF EndUnopened, Process
<1>7. CASE QueueRelease(c)
  BY <1>2, <1>7 DEF QueueRelease, Queue
<1>8. CASE Release(c)
  BY <1>2, <1>8 DEF Release
<1> QED
  BY <1>3, <1>4, <1>5, <1>6, <1>7, <1>8 DEF EndOfConnection

-----------------------------------------------------------------------------
(* The daemon uses the ledger as its specification allows.                 *)

LEMMA NextRegular ==
    ASSUME FramesFit, Next
    PROVE  Regular
<1>1. PICK c \in Channels : Environment(c) \/ Endpoint(c)
  BY DEF Next
<1> QED
  BY <1>1, EnvironmentRegular, TakeRegular, HelloRegular, SequenceRegular, OpStatusRegular,
     EndRegular DEF Endpoint

LEMMA InitFits == Init => FramesFit
<1> SUFFICES ASSUME Init
             PROVE  FramesFit
  OBVIOUS
<1>1. phase \in [Channels -> Phases]
  BY DEF Init, Phases
<1>2. inbox \in [Channels -> Seq(Usable)]
  BY EmptySeq DEF Init
<1>3. ASSUME NEW c \in Channels
      PROVE  NoFrame(c) \in Usable
  <2>1. <<c, 1>> \in Frames
    BY FirstIdAssumption DEF Frames
  <2>2. (CHOOSE f \in Frames : TRUE) \in Frames
    BY <2>1
  <2> QED
    BY <2>2 DEF NoFrame, Usable, FrameRecord, Kinds
<1>4. \A c \in Channels : Fits(phase[c], frame[c])
  <2>1. "accepted" \in Phases \ Working
    BY DEF Phases, Working, HelloPhases, SequencePhases, StepPhases, AskPhases
  <2> QED
    BY <2>1, RestFits DEF Init
<1> QED
  BY <1>1, <1>2, <1>3, <1>4 DEF Init, FramesFit

(* The frames in turn are always what the phases of their tasks need.      *)
THEOREM FramesAlwaysFit == Spec => []FramesFit
<1>1. FramesFit /\ [Next]_vars => FramesFit'
  <2>1. FramesFit /\ UNCHANGED vars => FramesFit'
    BY StillFits DEF vars, channelVars
  <2> QED
    BY <2>1, NextRegular DEF Regular
<1> QED
  BY <1>1, InitFits, PTL DEF Spec

(* The daemon's channels implement the ledger's specification: whatever    *)
(* hosts send and however their tasks interleave, each step is one         *)
(* operation of the ledger or leaves it alone.                             *)
THEOREM ChannelsUseTheLedger == Spec => LedgerSpec
<1>1. Init => LedgerInit
  BY DEF Init
<1>2. FramesFit /\ [Next]_vars => [LedgerNext]_ledgerVars
  <2>1. UNCHANGED vars => UNCHANGED ledgerVars
    BY DEF vars
  <2> QED
    BY <2>1, NextRegular DEF Regular
<1> QED
  BY <1>1, <1>2, FramesAlwaysFit, PTL DEF Spec, LedgerSpec

(* So what is proved of the ledger holds in the daemon: a frame that waits *)
(* its turn can start, and no live channel is left behind by its fence.    *)
THEOREM TheLedgerIsSoundInTheDaemon == Spec => []LedgerInvariant
BY ChannelsUseTheLedger, LedgerIsSound, PTL

(* The daemon's ledger is within its bounds and its sum of bytes is exact, *)
(* whatever hosts send and whenever they ask.                              *)
THEOREM TheLedgerFitsInTheDaemon == Spec => []LedgerFits
BY ChannelsUseTheLedger, LedgerAlwaysFits, PTL

(* Over a bound only when every entry may still change.                    *)
THEOREM TheBoundsHoldInTheDaemon == Spec => []Bounded
<1>1. LedgerFits => Bounded
  BY DEF LedgerFits
<1> QED
  BY <1>1, TheLedgerFitsInTheDaemon, PTL

(* And a channel of the daemon that stopped stays stopped.                 *)
THEOREM StopIsFinalInTheDaemon == Spec => StopIsFinal
BY ChannelsUseTheLedger, StoppedChannelsStayStopped, PTL

-----------------------------------------------------------------------------
(* What a step is to the lines of its connection.                          *)

EndPhases == {"ending", "ended", "releasing", "gone"}
BusyPhases == Working \cup {"replying"}

(* The frame in turn, whatever is left of its steps.                       *)
KeepsFrame(c) ==
    /\ frame'[c].id = frame[c].id
    /\ frame'[c].kind = frame[c].kind
    /\ frame'[c].owner = frame[c].owner
    /\ frame'[c].refused = frame[c].refused

(* A line joins those that wait.                                           *)
Receives(c, r) ==
    /\ inbox' = [inbox EXCEPT ![c] = Append(@, r)]
    /\ UNCHANGED <<phase, frame>>

LineArrives(c) ==
    \E r \in Usable :
        /\ Receives(c, r)
        /\ \/ r.kind = "garbled" /\ r.id = 0 /\ UNCHANGED <<sent, unanswered>>
           \/ /\ r.kind # "garbled" /\ r.id = sent[c] + 1
              /\ sent' = [sent EXCEPT ![c] = r.id]
              /\ phase[c] \notin EndPhases
              /\ r.refused = (IsSequence(r) /\ unanswered[c] > 0)
              /\ unanswered' = [unanswered EXCEPT ![c] = IF IsSequence(r) THEN @ + 1 ELSE @]

LineIsTaken(c) ==
    /\ Taking(c)
    /\ \E next \in BusyPhases \cup EndPhases : Take(c, next)

LineIsAnswered(c) ==
    /\ phase[c] = "replying"
    /\ unanswered' = [unanswered EXCEPT ![c] = IF IsSequence(frame[c]) THEN @ - 1 ELSE @]
    /\ \E next \in {"idle"} \cup EndPhases : Go(c, next)
    /\ UNCHANGED <<inbox, frame, sent>>

(* A task works on, or its connection ends.                                *)
LinesRest(c) ==
    /\ UNCHANGED <<inbox, sent, unanswered>>
    /\ KeepsFrame(c)
    /\ \/ phase' = phase
       \/ phase[c] \in BusyPhases /\ \E next \in BusyPhases : Go(c, next)
       \/ \E next \in EndPhases : Go(c, next)

(* No other connection has part in a step.                                 *)
LinesOf(d) == <<phase[d], frame[d], inbox[d], sent[d], session[d], unanswered[d]>>

LinesTyped ==
    /\ sent \in [Channels -> Ids \cup {0}]
    /\ session \in [Channels -> BOOLEAN]
    /\ unanswered \in [Channels -> Nat]

(* The phases in which a frame is in turn, and those of the end.           *)
LEMMA PhasesApart ==
    /\ EndPhases \cap BusyPhases = {}
    /\ "idle" \notin EndPhases \cup BusyPhases
    /\ "accepted" \notin EndPhases \cup BusyPhases
    /\ \A p \in Awaiting : p \notin EndPhases
    /\ HelloPhases \cup SequencePhases \cup AskPhases \subseteq BusyPhases
    /\ "replying" \in BusyPhases
BY DEF EndPhases, BusyPhases, Working, HelloPhases, SequencePhases, StepPhases, AskPhases,
   Awaiting

(* Reading a line, whole or garbled, is an arrival.                        *)
LEMMA ArrivalArrives ==
    ASSUME FramesFit, NEW c \in Channels, Arrive(c) \/ ArriveGarbled(c)
    PROVE  LineArrives(c)
<1>1. CASE Arrive(c)
  <2>0. PICK id \in Ids : \E r \in Requests[c][id] :
           LET refused == IsSequence(r) /\ unanswered[c] > 0
           IN  /\ Reading(c)
               /\ r.kind # "garbled"
               /\ id = sent[c] + 1
               /\ sent' = [sent EXCEPT ![c] = id]
               /\ inbox' = [inbox EXCEPT ![c] = Append(@, Received(r, id, refused))]
               /\ unanswered' = [unanswered EXCEPT ![c] = IF IsSequence(r) THEN @ + 1 ELSE @]
               /\ UNCHANGED <<phase, frame>>
    BY <1>1 DEF Arrive
  <2>1. PICK r \in Requests[c][id] :
           LET refused == IsSequence(r) /\ unanswered[c] > 0
           IN  /\ Reading(c)
               /\ r.kind # "garbled"
               /\ id = sent[c] + 1
               /\ sent' = [sent EXCEPT ![c] = id]
               /\ inbox' = [inbox EXCEPT ![c] = Append(@, Received(r, id, refused))]
               /\ unanswered' = [unanswered EXCEPT ![c] = IF IsSequence(r) THEN @ + 1 ELSE @]
               /\ UNCHANGED <<phase, frame>>
    BY <2>0
  <2> DEFINE refused == IsSequence(r) /\ unanswered[c] > 0
             line == Received(r, id, refused)
  <2>2. r \in Request /\ (r.kind = "op_status" => r.owner # NoOwner)
    BY RequestsAssumption
  <2>3. line \in Usable
    BY <2>2, ReceivedIsUsable
  <2>4. line.id = id /\ line.kind = r.kind /\ line.refused = refused
    BY DEF Received
  <2>5. IsSequence(line) = IsSequence(r)
    BY <2>4 DEF IsSequence
  <2>6. phase[c] \notin EndPhases
    BY <2>1, PhasesApart DEF Reading
  <2>7. Receives(c, line)
    BY <2>1 DEF Receives
  <2>8. /\ line.kind # "garbled" /\ line.id = sent[c] + 1
        /\ sent' = [sent EXCEPT ![c] = line.id]
        /\ line.refused = (IsSequence(line) /\ unanswered[c] > 0)
        /\ unanswered' = [unanswered EXCEPT ![c] = IF IsSequence(line) THEN @ + 1 ELSE @]
    BY <2>1, <2>4, <2>5
  <2> HIDE DEF line
  <2> QED
    BY <2>3, <2>6, <2>7, <2>8 DEF LineArrives
<1>2. CASE ArriveGarbled(c)
  <2>0. PICK id \in Ids : \E r \in Requests[c][id] :
           /\ r.kind = "garbled"
           /\ inbox' = [inbox EXCEPT ![c] = Append(@, Received(r, 0, FALSE))]
           /\ UNCHANGED <<phase, frame, sent, unanswered>>
    BY <1>2 DEF ArriveGarbled
  <2>1. PICK r \in Requests[c][id] :
           /\ r.kind = "garbled"
           /\ inbox' = [inbox EXCEPT ![c] = Append(@, Received(r, 0, FALSE))]
           /\ UNCHANGED <<phase, frame, sent, unanswered>>
    BY <2>0
  <2> DEFINE line == Received(r, 0, FALSE)
  <2>2. r \in Request /\ (r.kind = "op_status" => r.owner # NoOwner)
    BY RequestsAssumption
  <2>3. line \in Usable
    BY <2>1, <2>2, ReceivedIsUsable
  <2>4. line.id = 0 /\ line.kind = "garbled"
    BY <2>1 DEF Received
  <2>5. Receives(c, line)
    BY <2>1 DEF Receives
  <2> HIDE DEF line
  <2> QED
    BY <2>1, <2>3, <2>4, <2>5 DEF LineArrives
<1> QED
  BY <1>1, <1>2

(* A step that works on with the frame it has.                             *)
LEMMA WorkingRests ==
    ASSUME NEW c \in Channels, UNCHANGED <<inbox, frame, sent, unanswered>>,
           NEW next, Go(c, next),
           next \in EndPhases \/ (phase[c] \in BusyPhases /\ next \in BusyPhases)
    PROVE  LinesRest(c)
BY DEF LinesRest, KeepsFrame

(* A task that works on leaves the lines of its connection at rest.        *)
LEMMA ProcessRests ==
    ASSUME NEW c \in Channels, NEW from \in BusyPhases, NEW next \in BusyPhases,
           Process(c, from, next) \/ GiveBack(c, from, next) \/ Queue(c, from, next)
    PROVE  LinesRest(c)
BY WorkingRests DEF Process, GiveBack, Queue

(* So does every step of a hello.                                          *)
LEMMA HelloRests ==
    ASSUME NEW c \in Channels, Hello(c)
    PROVE  LinesRest(c)
<1>1. \A p \in HelloPhases \cup {"replying"} : p \in BusyPhases
  BY PhasesApart
<1>2. {"hello", "hello_receives", "hello_registers", "hello_ends", "hello_done"} = HelloPhases
  BY DEF HelloPhases
<1>3. CASE Establish(c)
  BY <1>1, <1>2, <1>3, WorkingRests DEF Establish
<1>4. CASE ~Establish(c)
  BY <1>1, <1>2, <1>4, ProcessRests DEF Hello, RefuseHello, OpenHello, ReceiveHello, RegisterHello,
     EndFencedHello
<1> QED
  BY <1>3, <1>4

(* So does every step of a sequence that does not answer it.               *)
LEMMA SequenceRests ==
    ASSUME FramesFit, NEW c \in Channels, Sequence(c)
    PROVE  LinesRest(c)
<1>1. \A p \in SequencePhases \cup {"replying"} : p \in BusyPhases
  BY PhasesApart
<1>2. {"admitting", "fenced", "preparing", "stepping", "waiting", "running", "landing",
       "landed", "finishing", "settling"} = SequencePhases
  BY DEF SequencePhases, StepPhases
<1>3. CASE BeginStep(c)
  BY <1>1, <1>2, <1>3, WorkingRests DEF BeginStep
<1>4. CASE EndStep(c)
  <2>1. PICK left \in {0, frame[c].steps - 1} : frame' = [frame EXCEPT ![c].steps = left]
    BY <1>4 DEF EndStep
  <2>2. frame[c] \in FrameRecord /\ frame \in [Channels -> Usable]
    BY DEF FramesFit, Usable
  <2>3. KeepsFrame(c)
    BY <2>1, <2>2 DEF KeepsFrame, FrameRecord
  <2>4. phase[c] \in BusyPhases /\ \E next \in BusyPhases : Go(c, next)
    BY <1>1, <1>2, <1>4 DEF EndStep
  <2> QED
    BY <1>4, <2>3, <2>4 DEF EndStep, LinesRest
<1>5. CASE /\ ~BeginStep(c) /\ ~EndStep(c)
  <2>1. \E from, next \in SequencePhases \cup {"replying"} :
            Process(c, from, next) \/ GiveBack(c, from, next) \/ Queue(c, from, next)
    <3>1. CASE RefuseSecondSequence(c) \/ RefuseFencedSequence(c) \/ RejectSteps(c)
                 \/ AdmitSequence(c) \/ StartSequence(c) \/ SettleSequence(c)
      BY <1>2, <3>1 DEF RefuseSecondSequence, RefuseFencedSequence, RejectSteps, AdmitSequence,
         StartSequence, SettleSequence
    <3>2. CASE NextStep(c) \/ LastStep(c) \/ QueueLandingRead(c) \/ LandWithoutRead(c)
                 \/ ReadLanding(c) \/ FinishSequence(c)
      BY <1>2, <3>2 DEF NextStep, LastStep, QueueLandingRead, LandWithoutRead, ReadLanding,
         FinishSequence
    <3> QED
      BY <1>5, <3>1, <3>2 DEF Sequence
  <2> QED
    BY <1>1, <2>1, ProcessRests
<1> QED
  BY <1>3, <1>4, <1>5

(* So does every step of a status request.                                 *)
LEMMA OpStatusRests ==
    ASSUME NEW c \in Channels, OpStatus(c)
    PROVE  LinesRest(c)
<1>1. \A p \in AskPhases \cup {"replying"} : p \in BusyPhases
  BY PhasesApart
<1>2. {"ask_receives", "ask_registers", "asking", "retaining"} = AskPhases
  BY DEF AskPhases
<1>3. CASE AnswerOpStatus(c)
  BY <1>1, <1>2, <1>3, WorkingRests DEF AnswerOpStatus
<1>4. CASE ~AnswerOpStatus(c)
  BY <1>1, <1>2, <1>4, ProcessRests DEF OpStatus, ReceiveOpStatus, RegisterAsker, RetainResult
<1> QED
  BY <1>3, <1>4

(* So does every step of the end of a connection.                          *)
LEMMA EndRests ==
    ASSUME NEW c \in Channels, EndOfConnection(c) \/ ReplyFails(c)
    PROVE  LinesRest(c)
<1>1. {"ending", "ended", "releasing", "gone"} = EndPhases
  BY DEF EndPhases
<1> QED
  BY <1>1, WorkingRests DEF EndOfConnection, ReplyFails, Drained, EndSession, EndUnopened,
     QueueRelease, Release, Process, Queue

(* Every step is one of these to the connection it is a step of.           *)
LEMMA StepsOfLines ==
    ASSUME FramesFit, NEW c \in Channels, Environment(c) \/ Endpoint(c)
    PROVE  LineArrives(c) \/ LineIsTaken(c) \/ LineIsAnswered(c) \/ LinesRest(c)
<1>1. CASE Environment(c)
  <2>1. CASE Close(c)
    BY <2>1 DEF Close, LinesRest, KeepsFrame
  <2> QED
    BY <1>1, <2>1, ArrivalArrives, EndRests DEF Environment
<1>2. CASE TakeFrame(c)
  <2>1. {"ending", "replying", "hello", "admitting", "ask_receives"} \subseteq BusyPhases \cup EndPhases
    BY DEF BusyPhases, EndPhases, Working, HelloPhases, SequencePhases, AskPhases
  <2> QED
    BY <1>2, <2>1 DEF TakeFrame, TakeGarbled, TakeRefused, TakeHello, TakeSequence,
       TakeOpStatus, LineIsTaken
<1>3. CASE Reply(c)
  BY <1>3 DEF Reply, LineIsAnswered, EndPhases
<1> QED
  BY <1>1, <1>2, <1>3, HelloRests, SequenceRests, OpStatusRests, EndRests DEF Endpoint

(* A step of one connection leaves the lines of every other alone.         *)
LEMMA OthersRest ==
    ASSUME FramesFit, LinesTyped, NEW c \in Channels, Environment(c) \/ Endpoint(c),
           NEW d \in Channels \ {c}
    PROVE  LinesOf(d)' = LinesOf(d)
<1>1. session'[d] = session[d]
  <2>1. \/ session' = [session EXCEPT ![c] = TRUE]
        \/ session' = session
    BY DEF Environment, Arrive, ArriveGarbled, Close, ReplyFails, Endpoint, TakeFrame,
       TakeGarbled, TakeRefused, TakeHello, TakeSequence, TakeOpStatus, Take, Hello, RefuseHello,
       OpenHello, ReceiveHello, RegisterHello, EndFencedHello, Establish, Sequence,
       RefuseSecondSequence, AdmitSequence, RefuseFencedSequence, RejectSteps, StartSequence,
       NextStep, LastStep, BeginStep, EndStep, QueueLandingRead, LandWithoutRead, ReadLanding,
       FinishSequence, SettleSequence, OpStatus, ReceiveOpStatus, RegisterAsker, AnswerOpStatus,
       RetainResult, Reply, EndOfConnection, Drained, EndSession, EndUnopened, QueueRelease,
       Release, GiveBack, Queue, Process
  <2> QED
    BY <2>1 DEF LinesTyped
<1>2. frame'[d] = frame[d]
  <2>1. \/ \E r : frame' = [frame EXCEPT ![c] = r]
        \/ \E left : frame' = [frame EXCEPT ![c].steps = left]
        \/ frame' = frame
    BY DEF Environment, Arrive, ArriveGarbled, Close, ReplyFails, Endpoint, TakeFrame,
       TakeGarbled, TakeRefused, TakeHello, TakeSequence, TakeOpStatus, Take, Hello, RefuseHello,
       OpenHello, ReceiveHello, RegisterHello, EndFencedHello, Establish, Sequence,
       RefuseSecondSequence, AdmitSequence, RefuseFencedSequence, RejectSteps, StartSequence,
       NextStep, LastStep, BeginStep, EndStep, QueueLandingRead, LandWithoutRead, ReadLanding,
       FinishSequence, SettleSequence, OpStatus, ReceiveOpStatus, RegisterAsker, AnswerOpStatus,
       RetainResult, Reply, EndOfConnection, Drained, EndSession, EndUnopened, QueueRelease,
       Release, GiveBack, Queue, Process
  <2> QED
    BY <2>1 DEF FramesFit
<1>3. phase'[d] = phase[d] /\ inbox'[d] = inbox[d] /\ sent'[d] = sent[d]
      /\ unanswered'[d] = unanswered[d]
  BY StepsOfLines DEF LineArrives, Receives, LineIsTaken, Take, LineIsAnswered, LinesRest,
     Go, FramesFit, LinesTyped
<1> QED
  BY <1>1, <1>2, <1>3 DEF LinesOf

-----------------------------------------------------------------------------
(* One sequence at a time.                                                 *)

(* The lines of a connection are numbered as they came: one with an id has *)
(* a higher one than every line before it and than the frame in turn.      *)
Numbered(c) ==
    /\ frame[c].id <= sent[c]
    /\ \A k \in DOMAIN inbox[c] :
          /\ inbox[c][k].id <= sent[c]
          /\ inbox[c][k].kind # "garbled" =>
                /\ frame[c].id < inbox[c][k].id
                /\ \A j \in 1 .. k - 1 : inbox[c][j].id < inbox[c][k].id

SequencesOf(c) == {r \in Unserved(c) : IsSequence(r)}

(* The sequences are counted, and all but one were refused on arrival.     *)
Counted(c) ==
    phase[c] \notin EndPhases =>
        /\ IsFiniteSet(SequencesOf(c))
        /\ unanswered[c] = Cardinality(SequencesOf(c))
        /\ \A r, s \in SequencesOf(c) : ~r.refused /\ ~s.refused => r = s

LinesInOrder ==
    /\ LinesTyped
    /\ \A c \in Channels : Numbered(c) /\ Counted(c)

(* The first line and the others.                                          *)
LEMMA FirstLine ==
    ASSUME FramesFit, NEW c \in Channels, inbox[c] # <<>>
    PROVE  /\ Len(inbox[c]) \in Nat /\ Len(inbox[c]) > 0
           /\ DOMAIN inbox[c] = 1 .. Len(inbox[c])
           /\ Head(inbox[c]) = inbox[c][1]
           /\ Head(inbox[c]) \in Usable
           /\ DOMAIN Tail(inbox[c]) = 1 .. Len(inbox[c]) - 1
           /\ \A k \in 1 .. Len(inbox[c]) - 1 : Tail(inbox[c])[k] = inbox[c][k + 1]
BY HeadTailProperties DEF FramesFit

(* The lines before the one that arrives last.                             *)
LEMMA LastLine ==
    ASSUME FramesFit, NEW c \in Channels, NEW r \in Usable
    PROVE  /\ Len(inbox[c]) \in Nat
           /\ DOMAIN inbox[c] = 1 .. Len(inbox[c])
           /\ DOMAIN Append(inbox[c], r) = 1 .. Len(inbox[c]) + 1
           /\ \A k \in 1 .. Len(inbox[c]) : Append(inbox[c], r)[k] = inbox[c][k]
           /\ Append(inbox[c], r)[Len(inbox[c]) + 1] = r
BY AppendProperties DEF FramesFit

(* Ids are positive numbers, and only a garbled line has none.             *)
LEMMA IdsAreNumbers ==
    /\ \A i \in Ids : i \in Nat /\ i > 0
    /\ \A i \in Ids \cup {0} : i \in Nat
    /\ \A r \in Usable : r.id \in Nat /\ (r.kind # "garbled" => r.id > 0 /\ r.id \in Ids)
<1>1. \A i \in Ids : i \in Nat /\ i > 0
  BY IdsAssumption
<1>2. \A i \in Ids \cup {0} : i \in Nat
  BY <1>1
<1>3. \A r \in Usable : r.id \in Ids \cup {0} /\ (r.kind # "garbled" => r.id \in Ids)
  BY DEF Usable, FrameRecord
<1> QED
  BY <1>1, <1>2, <1>3

(* A connection whose lines did not change stays numbered and counted.     *)
LEMMA NumberedStays ==
    ASSUME NEW d \in Channels, LinesOf(d)' = LinesOf(d), Numbered(d), Counted(d)
    PROVE  Numbered(d)' /\ Counted(d)'
<1>1. /\ phase'[d] = phase[d] /\ frame'[d] = frame[d] /\ inbox'[d] = inbox[d]
      /\ sent'[d] = sent[d] /\ unanswered'[d] = unanswered[d]
  BY DEF LinesOf
<1>2. SequencesOf(d)' = SequencesOf(d)
  BY <1>1 DEF SequencesOf, Unserved
<1> QED
  BY <1>1, <1>2 DEF Numbered, Counted

(* A line arrives under the next number.                                   *)
LEMMA ArrivalIsNumbered ==
    ASSUME FramesFit, LinesInOrder, NEW c \in Channels, LineArrives(c)
    PROVE  Numbered(c)' /\ sent' \in [Channels -> Ids \cup {0}]
<1>1. PICK r \in Usable :
         /\ Receives(c, r)
         /\ \/ r.kind = "garbled" /\ r.id = 0 /\ sent' = sent
            \/ r.kind # "garbled" /\ r.id = sent[c] + 1 /\ sent' = [sent EXCEPT ![c] = r.id]
  BY DEF LineArrives
<1>2. sent \in [Channels -> Ids \cup {0}] /\ sent[c] \in Nat
  BY IdsAreNumbers DEF LinesInOrder, LinesTyped
<1>3. r.id \in Nat /\ (r.kind # "garbled" => r.id \in Ids)
  BY IdsAreNumbers
<1>4. /\ sent' \in [Channels -> Ids \cup {0}]
      /\ sent'[c] \in Nat /\ sent[c] <= sent'[c] /\ r.id <= sent'[c]
      /\ r.kind # "garbled" => sent[c] < r.id
  BY <1>1, <1>2, <1>3
<1>5. frame'[c] = frame[c] /\ inbox'[c] = Append(inbox[c], r)
  BY <1>1 DEF Receives, FramesFit
<1>6. /\ DOMAIN inbox'[c] = 1 .. Len(inbox[c]) + 1
      /\ Len(inbox[c]) \in Nat
      /\ DOMAIN inbox[c] = 1 .. Len(inbox[c])
      /\ \A k \in 1 .. Len(inbox[c]) : inbox'[c][k] = inbox[c][k]
      /\ inbox'[c][Len(inbox[c]) + 1] = r
  BY <1>5, LastLine
<1>7. Numbered(c)
  BY DEF LinesInOrder
<1>8. frame[c].id \in Nat /\ \A k \in DOMAIN inbox[c] : inbox[c][k] \in Usable
  BY <1>6, IdsAreNumbers, ElementOfSeq DEF FramesFit
<1>9. \A k \in DOMAIN inbox[c] : inbox[c][k].id \in Nat /\ inbox[c][k].id <= sent[c]
  BY <1>7, <1>8, IdsAreNumbers DEF Numbered
<1>10. frame[c].id <= sent[c]
  BY <1>7 DEF Numbered
<1>11. ASSUME NEW k \in DOMAIN inbox'[c]
       PROVE  /\ inbox'[c][k].id <= sent'[c]
              /\ inbox'[c][k].kind # "garbled" =>
                    /\ frame'[c].id < inbox'[c][k].id
                    /\ \A j \in 1 .. k - 1 : inbox'[c][j].id < inbox'[c][k].id
  <2>1. CASE k = Len(inbox[c]) + 1
    BY <1>2, <1>3, <1>4, <1>5, <1>6, <1>8, <1>9, <1>10, <2>1
  <2>2. CASE k # Len(inbox[c]) + 1
    <3>1. k \in 1 .. Len(inbox[c])
      BY <1>6, <2>2
    <3>2. \A j \in 1 .. k - 1 : inbox'[c][j] = inbox[c][j]
      BY <1>6, <3>1
    <3>3. inbox[c][k].kind # "garbled" =>
             /\ frame[c].id < inbox[c][k].id
             /\ \A j \in 1 .. k - 1 : inbox[c][j].id < inbox[c][k].id
      BY <1>6, <1>7, <3>1 DEF Numbered
    <3>4. inbox'[c][k].id <= sent'[c]
      BY <1>2, <1>4, <1>6, <1>9, <3>1
    <3> QED
      BY <1>5, <1>6, <3>1, <3>2, <3>3, <3>4
  <2> QED
    BY <2>1, <2>2
<1>12. frame'[c].id <= sent'[c]
  BY <1>2, <1>4, <1>5, <1>8, <1>10
<1> QED
  BY <1>4, <1>11, <1>12 DEF Numbered

(* The line in turn had the lowest number of those that wait.              *)
LEMMA TakingIsNumbered ==
    ASSUME FramesFit, LinesInOrder, NEW c \in Channels, LineIsTaken(c)
    PROVE  Numbered(c)'
<1>1. inbox[c] # <<>> /\ \E next : Take(c, next)
  BY DEF LineIsTaken, Taking
<1>2. frame'[c] = Head(inbox[c]) /\ inbox'[c] = Tail(inbox[c]) /\ sent' = sent
  BY <1>1 DEF Take, FramesFit
<1> DEFINE n == Len(inbox[c])
<1>3. /\ n \in Nat /\ n > 0 /\ DOMAIN inbox[c] = 1 .. n
      /\ frame'[c] = inbox[c][1]
      /\ DOMAIN inbox'[c] = 1 .. n - 1
      /\ \A k \in 1 .. n - 1 : inbox'[c][k] = inbox[c][k + 1]
  BY <1>1, <1>2, FirstLine
<1> HIDE DEF n
<1>4. Numbered(c)
  BY DEF LinesInOrder
<1>5. frame'[c].id <= sent'[c]
  BY <1>2, <1>3, <1>4 DEF Numbered
<1>6. ASSUME NEW k \in 1 .. n - 1
      PROVE  /\ inbox'[c][k].id <= sent'[c]
             /\ inbox'[c][k].kind # "garbled" =>
                   /\ frame'[c].id < inbox'[c][k].id
                   /\ \A j \in 1 .. k - 1 : inbox'[c][j].id < inbox'[c][k].id
  <2>1. k + 1 \in DOMAIN inbox[c] /\ inbox'[c][k] = inbox[c][k + 1]
    BY <1>3
  <2>2. \A j \in 1 .. k - 1 : j + 1 \in 1 .. (k + 1) - 1 /\ inbox'[c][j] = inbox[c][j + 1]
    BY <1>3
  <2>3. 1 \in 1 .. (k + 1) - 1
    OBVIOUS
  <2>4. /\ inbox[c][k + 1].id <= sent[c]
        /\ inbox[c][k + 1].kind # "garbled" =>
              \A j \in 1 .. (k + 1) - 1 : inbox[c][j].id < inbox[c][k + 1].id
    BY <1>4, <2>1 DEF Numbered
  <2> QED
    BY <1>2, <1>3, <2>1, <2>2, <2>3, <2>4
<1> QED
  BY <1>3, <1>5, <1>6 DEF Numbered

(* Lines that rest stay numbered.                                          *)
LEMMA NumberedLinesStay ==
    ASSUME FramesFit, LinesInOrder, NEW c \in Channels, LineIsAnswered(c) \/ LinesRest(c)
    PROVE  Numbered(c)'
<1>1. inbox' = inbox /\ sent' = sent /\ frame'[c].id = frame[c].id
  BY DEF LineIsAnswered, LinesRest, KeepsFrame
<1>2. Numbered(c)
  BY DEF LinesInOrder
<1> QED
  BY <1>1, <1>2 DEF Numbered

(* The lines that wait, and the one in turn.                               *)
LEMMA UnservedLines ==
    ASSUME NEW c \in Channels
    PROVE  \A r : r \in SequencesOf(c) <=>
               /\ IsSequence(r)
               /\ \/ \E k \in DOMAIN inbox[c] : inbox[c][k] = r
                  \/ phase[c] \in BusyPhases /\ r = frame[c]
BY DEF SequencesOf, Unserved, BusyPhases

(* The same after a step.                                                  *)
LEMMA UnservedLinesNext ==
    ASSUME NEW c \in Channels
    PROVE  \A r : r \in SequencesOf(c)' <=>
               /\ IsSequence(r)
               /\ \/ \E k \in DOMAIN inbox'[c] : inbox'[c][k] = r
                  \/ phase'[c] \in BusyPhases /\ r = frame'[c]
BY DEF SequencesOf, Unserved, BusyPhases, IsSequence

(* A sequence is not garbled, so it has an id.                             *)
LEMMA SequencesHaveIds ==
    /\ \A r : IsSequence(r) => r.kind # "garbled"
    /\ \A r, s : r.kind = s.kind => IsSequence(r) = IsSequence(s)
BY DEF IsSequence

(* A sequence is counted as it arrives, and refused if another is.         *)
LEMMA ArrivalIsCounted ==
    ASSUME FramesFit, LinesInOrder, NEW c \in Channels, LineArrives(c)
    PROVE  Counted(c)' /\ unanswered' \in [Channels -> Nat]
<1>1. PICK r \in Usable :
         /\ Receives(c, r)
         /\ \/ r.kind = "garbled" /\ unanswered' = unanswered
            \/ /\ r.kind # "garbled" /\ r.id = sent[c] + 1
               /\ phase[c] \notin EndPhases
               /\ r.refused = (IsSequence(r) /\ unanswered[c] > 0)
               /\ unanswered' = [unanswered EXCEPT ![c] = IF IsSequence(r) THEN @ + 1 ELSE @]
  BY DEF LineArrives
<1>2. /\ phase' = phase /\ frame' = frame /\ inbox'[c] = Append(inbox[c], r)
  BY <1>1 DEF Receives, FramesFit
<1>3. /\ Len(inbox[c]) \in Nat
      /\ DOMAIN inbox[c] = 1 .. Len(inbox[c])
      /\ DOMAIN inbox'[c] = 1 .. Len(inbox[c]) + 1
      /\ \A k \in 1 .. Len(inbox[c]) : inbox'[c][k] = inbox[c][k]
      /\ inbox'[c][Len(inbox[c]) + 1] = r
  BY <1>2, LastLine
<1>4. \A s : (\E k \in DOMAIN inbox'[c] : inbox'[c][k] = s)
               <=> s = r \/ \E k \in DOMAIN inbox[c] : inbox[c][k] = s
  <2>1. DOMAIN inbox'[c] = DOMAIN inbox[c] \cup {Len(inbox[c]) + 1}
    BY <1>3
  <2> QED
    BY <1>3, <2>1
<1>5. unanswered \in [Channels -> Nat]
  BY DEF LinesInOrder, LinesTyped
<1>6. CASE ~IsSequence(r)
  <2>1. \A s : s \in SequencesOf(c)' <=> s \in SequencesOf(c)
    BY <1>2, <1>4, <1>6, UnservedLines, UnservedLinesNext
  <2>2. SequencesOf(c)' = SequencesOf(c)
    BY <2>1
  <2>3. unanswered' = unanswered
    BY <1>1, <1>5, <1>6
  <2> QED
    BY <1>2, <1>5, <2>2, <2>3 DEF Counted, LinesInOrder
<1>7. CASE IsSequence(r)
  <2>1. /\ r.id = sent[c] + 1
        /\ phase[c] \notin EndPhases
        /\ r.refused = (unanswered[c] > 0)
        /\ unanswered' = [unanswered EXCEPT ![c] = @ + 1]
    BY <1>1, <1>7, SequencesHaveIds
  <2>2. unanswered' \in [Channels -> Nat] /\ unanswered'[c] = unanswered[c] + 1
    BY <1>5, <2>1
  <2>3. \A s : s \in SequencesOf(c)' <=> s \in SequencesOf(c) \cup {r}
    BY <1>2, <1>4, <1>7, UnservedLines, UnservedLinesNext
  <2>4. SequencesOf(c)' = SequencesOf(c) \cup {r}
    BY <2>3
  <2>5. Numbered(c) /\ Counted(c)
    BY DEF LinesInOrder
  <2>6. r \notin SequencesOf(c)
    <3>1. \A s \in SequencesOf(c) : s.id <= sent[c]
      BY <2>5, UnservedLines DEF Numbered
    <3>2. sent[c] \in Nat
      BY IdsAreNumbers DEF LinesInOrder, LinesTyped
    <3> QED
      BY <2>1, <3>1, <3>2
  <2>7. /\ IsFiniteSet(SequencesOf(c))
        /\ unanswered[c] = Cardinality(SequencesOf(c))
        /\ \A s, t \in SequencesOf(c) : ~s.refused /\ ~t.refused => s = t
    BY <2>1, <2>5 DEF Counted
  <2>8. /\ IsFiniteSet(SequencesOf(c)')
        /\ unanswered'[c] = Cardinality(SequencesOf(c)')
    BY <2>2, <2>4, <2>6, <2>7, FS_AddElement
  <2>9. \A s, t \in SequencesOf(c)' : ~s.refused /\ ~t.refused => s = t
    <3>1. CASE unanswered[c] > 0
      <4>1. r.refused
        BY <2>1, <3>1
      <4> QED
        BY <2>4, <2>7, <4>1
    <3>2. CASE ~(unanswered[c] > 0)
      <4>1. unanswered[c] = 0
        BY <1>5, <3>2
      <4>2. SequencesOf(c) = {}
        BY <2>7, <4>1, FS_EmptySet
      <4> QED
        BY <2>4, <4>2
    <3> QED
      BY <3>1, <3>2
  <2> QED
    BY <2>2, <2>8, <2>9 DEF Counted
<1> QED
  BY <1>6, <1>7

(* Taking a line changes neither the count nor what is counted.            *)
LEMMA TakingIsCounted ==
    ASSUME FramesFit, LinesInOrder, NEW c \in Channels, LineIsTaken(c)
    PROVE  Counted(c)' /\ unanswered' \in [Channels -> Nat]
<1>1. PICK next \in BusyPhases \cup EndPhases : Take(c, next)
  BY DEF LineIsTaken
<1>2. /\ phase'[c] = next /\ frame'[c] = Head(inbox[c]) /\ inbox'[c] = Tail(inbox[c])
      /\ unanswered' = unanswered /\ phase[c] \in {"accepted", "idle"} /\ inbox[c] # <<>>
  BY <1>1 DEF Take, FramesFit, Go, LineIsTaken, Taking
<1> DEFINE n == Len(inbox[c])
<1>3. /\ n \in Nat /\ n > 0 /\ DOMAIN inbox[c] = 1 .. n
      /\ frame'[c] = inbox[c][1]
      /\ DOMAIN inbox'[c] = 1 .. n - 1
      /\ \A k \in 1 .. n - 1 : inbox'[c][k] = inbox[c][k + 1]
  BY <1>2, FirstLine
<1> HIDE DEF n
<1>4. unanswered' \in [Channels -> Nat]
  BY <1>2 DEF LinesInOrder, LinesTyped
<1>5. CASE next \in EndPhases
  BY <1>2, <1>4, <1>5 DEF Counted
<1>6. CASE next \in BusyPhases
  <2>1. \A s : (\E k \in DOMAIN inbox[c] : inbox[c][k] = s)
                 <=> s = frame'[c] \/ \E k \in DOMAIN inbox'[c] : inbox'[c][k] = s
    <3>1. \A k \in 1 .. n : k = 1 \/ (k - 1 \in 1 .. n - 1 /\ inbox'[c][k - 1] = inbox[c][k])
      BY <1>3
    <3>2. \A k \in 1 .. n - 1 : k + 1 \in 1 .. n
      BY <1>3
    <3>3. 1 \in 1 .. n
      BY <1>3
    <3> QED
      BY <1>3, <3>1, <3>2, <3>3
  <2>2. phase[c] \notin EndPhases \cup BusyPhases
    BY <1>2, PhasesApart
  <2>3. \A s : s \in SequencesOf(c)' <=> s \in SequencesOf(c)
    BY <1>2, <1>6, <2>1, <2>2, UnservedLines, UnservedLinesNext
  <2>4. SequencesOf(c)' = SequencesOf(c)
    BY <2>3
  <2>5. Counted(c)
    BY DEF LinesInOrder
  <2> QED
    BY <1>2, <1>4, <2>2, <2>4, <2>5 DEF Counted
<1> QED
  BY <1>5, <1>6

(* The sequence in turn is none of those that wait.                        *)
LEMMA FrameIsNoneWaiting ==
    ASSUME FramesFit, LinesInOrder, NEW c \in Channels, NEW k \in DOMAIN inbox[c],
           inbox[c][k].kind # "garbled"
    PROVE  inbox[c][k].id # frame[c].id
<1>1. frame[c].id < inbox[c][k].id
  BY DEF LinesInOrder, Numbered
<1>2. frame[c].id \in Nat
  BY IdsAreNumbers DEF FramesFit
<1> QED
  BY <1>1, <1>2

(* A sequence stops being counted as it is answered.                       *)
LEMMA AnswerIsCounted ==
    ASSUME FramesFit, LinesInOrder, NEW c \in Channels, LineIsAnswered(c)
    PROVE  Counted(c)' /\ unanswered' \in [Channels -> Nat]
<1>1. PICK next \in {"idle"} \cup EndPhases : Go(c, next)
  BY DEF LineIsAnswered
<1>2. /\ phase[c] = "replying" /\ phase'[c] = next
      /\ inbox' = inbox /\ frame' = frame
      /\ unanswered' = [unanswered EXCEPT ![c] = IF IsSequence(frame[c]) THEN @ - 1 ELSE @]
  BY <1>1 DEF LineIsAnswered, Go, FramesFit
<1>3. /\ unanswered \in [Channels -> Nat]
      /\ IsFiniteSet(SequencesOf(c))
      /\ unanswered[c] = Cardinality(SequencesOf(c))
      /\ \A r, s \in SequencesOf(c) : ~r.refused /\ ~s.refused => r = s
  BY <1>2, PhasesApart DEF LinesInOrder, LinesTyped, Counted
<1>4. phase[c] \in BusyPhases /\ phase'[c] \notin BusyPhases
  BY <1>1, <1>2, PhasesApart
<1>5. \A k \in DOMAIN inbox[c] : IsSequence(inbox[c][k]) => inbox[c][k] # frame[c]
  BY FrameIsNoneWaiting, SequencesHaveIds
<1>6. \A s : s \in SequencesOf(c)' <=> s \in SequencesOf(c) \ {frame[c]}
  BY <1>2, <1>4, <1>5, UnservedLines, UnservedLinesNext
<1>7. SequencesOf(c)' = SequencesOf(c) \ {frame[c]}
  BY <1>6
<1>8. \A r, s \in SequencesOf(c)' : ~r.refused /\ ~s.refused => r = s
  BY <1>3, <1>7
<1>9. CASE IsSequence(frame[c])
  <2>1. frame[c] \in SequencesOf(c)
    BY <1>4, <1>9, UnservedLines
  <2>2. /\ IsFiniteSet(SequencesOf(c)')
        /\ Cardinality(SequencesOf(c)') = Cardinality(SequencesOf(c)) - 1
        /\ Cardinality(SequencesOf(c)') \in Nat
    BY <1>3, <1>7, <2>1, FS_RemoveElement, FS_CardinalityType
  <2>3. unanswered'[c] = unanswered[c] - 1
    BY <1>2, <1>3, <1>9
  <2>4. unanswered' \in [Channels -> Nat]
    BY <1>2, <1>3, <1>9, <2>2
  <2> QED
    BY <1>3, <1>8, <2>2, <2>3, <2>4 DEF Counted
<1>10. CASE ~IsSequence(frame[c])
  <2>1. frame[c] \notin SequencesOf(c)
    BY <1>10, UnservedLines
  <2>2. SequencesOf(c)' = SequencesOf(c) /\ unanswered' = unanswered
    BY <1>2, <1>3, <1>7, <1>10, <2>1
  <2> QED
    BY <1>3, <2>2 DEF Counted
<1> QED
  BY <1>9, <1>10

(* A frame in turn may lose steps; it counts all the same.                 *)
LEMMA RestIsCounted ==
    ASSUME FramesFit, LinesInOrder, NEW c \in Channels, LinesRest(c)
    PROVE  Counted(c)' /\ unanswered' \in [Channels -> Nat]
<1>1. unanswered' \in [Channels -> Nat] /\ unanswered' = unanswered /\ inbox' = inbox
  BY DEF LinesRest, LinesInOrder, LinesTyped
<1>2. KeepsFrame(c)
  BY DEF LinesRest
<1>3. \/ phase'[c] \in EndPhases
      \/ phase'[c] \notin EndPhases /\ phase[c] \notin EndPhases
           /\ (phase'[c] \in BusyPhases <=> phase[c] \in BusyPhases)
  BY PhasesApart DEF LinesRest, Go, FramesFit
<1>4. CASE phase'[c] \in EndPhases
  BY <1>1, <1>4 DEF Counted
<1>5. CASE phase'[c] \notin EndPhases
  <2>1. /\ IsFiniteSet(SequencesOf(c))
        /\ unanswered[c] = Cardinality(SequencesOf(c))
        /\ \A r, s \in SequencesOf(c) : ~r.refused /\ ~s.refused => r = s
    BY <1>3, <1>5 DEF LinesInOrder, Counted
  <2>2. IsSequence(frame'[c]) = IsSequence(frame[c])
    BY <1>2 DEF KeepsFrame, IsSequence
  <2>3. CASE phase[c] \in BusyPhases /\ IsSequence(frame[c])
    <3>1. \A k \in DOMAIN inbox[c] : IsSequence(inbox[c][k])
             => inbox[c][k] # frame[c] /\ inbox[c][k] # frame'[c]
      BY <1>2, FrameIsNoneWaiting, SequencesHaveIds DEF KeepsFrame
    <3> DEFINE others == SequencesOf(c) \ {frame[c]}
    <3>2. \A s : s \in others <=> IsSequence(s) /\ \E k \in DOMAIN inbox[c] : inbox[c][k] = s
      BY <3>1, UnservedLines
    <3>3. \A s : s \in SequencesOf(c)' <=> s \in others \cup {frame'[c]}
      BY <1>1, <1>3, <1>5, <2>2, <2>3, <3>2, UnservedLinesNext
    <3>4. SequencesOf(c)' = others \cup {frame'[c]}
      BY <3>3
    <3>5. frame'[c] \notin others
      BY <3>1, <3>2
    <3>6. frame[c] \in SequencesOf(c)
      BY <2>3, UnservedLines
    <3>7. /\ IsFiniteSet(others)
          /\ Cardinality(others) = Cardinality(SequencesOf(c)) - 1
      BY <2>1, <3>6, FS_RemoveElement
    <3>8. /\ IsFiniteSet(others \cup {frame'[c]})
          /\ Cardinality(others \cup {frame'[c]}) = Cardinality(others) + 1
      BY <3>5, <3>7, FS_AddElement
    <3>9. Cardinality(others) \in Nat /\ Cardinality(SequencesOf(c)) \in Nat
      BY <2>1, <3>7, FS_CardinalityType
    <3>10. /\ IsFiniteSet(SequencesOf(c)')
           /\ unanswered'[c] = Cardinality(SequencesOf(c)')
      BY <1>1, <2>1, <3>4, <3>7, <3>8, <3>9
    <3>11. frame'[c].refused = frame[c].refused
      BY <1>2 DEF KeepsFrame
    <3>12. \A r, s \in SequencesOf(c)' : ~r.refused /\ ~s.refused => r = s
      <4>1. \A r \in others : ~r.refused => frame[c].refused
        BY <2>1, <3>1, <3>2, <3>6
      <4>2. \A r, s \in others : ~r.refused /\ ~s.refused => r = s
        BY <2>1
      <4> HIDE DEF others
      <4> QED
        BY <3>4, <3>11, <4>1, <4>2
    <3> QED
      BY <1>1, <3>10, <3>12 DEF Counted
  <2>4. CASE ~(phase[c] \in BusyPhases /\ IsSequence(frame[c]))
    <3>1. \A s : s \in SequencesOf(c)' <=> s \in SequencesOf(c)
      BY <1>1, <1>3, <1>5, <2>2, <2>4, UnservedLines, UnservedLinesNext
    <3>2. SequencesOf(c)' = SequencesOf(c)
      BY <3>1
    <3> QED
      BY <1>1, <2>1, <3>2 DEF Counted
  <2> QED
    BY <2>3, <2>4
<1> QED
  BY <1>4, <1>5

(* A session is there or is not.                                           *)
LEMMA SessionStaysTyped ==
    ASSUME FramesFit, LinesTyped, NEW c \in Channels, Environment(c) \/ Endpoint(c)
    PROVE  session' \in [Channels -> BOOLEAN]
<1>1. \/ session' = [session EXCEPT ![c] = TRUE]
      \/ session' = session
  BY DEF Environment, Arrive, ArriveGarbled, Close, ReplyFails, Endpoint, TakeFrame,
     TakeGarbled, TakeRefused, TakeHello, TakeSequence, TakeOpStatus, Take, Hello, RefuseHello,
     OpenHello, ReceiveHello, RegisterHello, EndFencedHello, Establish, Sequence,
     RefuseSecondSequence, AdmitSequence, RefuseFencedSequence, RejectSteps, StartSequence,
     NextStep, LastStep, BeginStep, EndStep, QueueLandingRead, LandWithoutRead, ReadLanding,
     FinishSequence, SettleSequence, OpStatus, ReceiveOpStatus, RegisterAsker, AnswerOpStatus,
     RetainResult, Reply, EndOfConnection, Drained, EndSession, EndUnopened, QueueRelease,
     Release, GiveBack, Queue, Process
<1> QED
  BY <1>1 DEF LinesTyped

(* Every step keeps the lines of every connection in order.                *)
LEMMA StepsKeepLinesInOrder ==
    ASSUME FramesFit, LinesInOrder, NEW c \in Channels, Environment(c) \/ Endpoint(c)
    PROVE  LinesInOrder'
<1>1. LinesTyped
  BY DEF LinesInOrder
<1>2. Numbered(c)' /\ Counted(c)' /\ sent' \in [Channels -> Ids \cup {0}]
      /\ unanswered' \in [Channels -> Nat]
  <2>1. CASE LineArrives(c)
    BY <2>1, ArrivalIsNumbered, ArrivalIsCounted
  <2>2. LineIsTaken(c) \/ LineIsAnswered(c) \/ LinesRest(c) => sent' = sent
    BY DEF LineIsTaken, Take, LineIsAnswered, LinesRest
  <2>3. CASE LineIsTaken(c)
    BY <1>1, <2>2, <2>3, TakingIsNumbered, TakingIsCounted DEF LinesTyped
  <2>4. CASE LineIsAnswered(c)
    BY <1>1, <2>2, <2>4, NumberedLinesStay, AnswerIsCounted DEF LinesTyped
  <2>5. CASE LinesRest(c)
    BY <1>1, <2>2, <2>5, NumberedLinesStay, RestIsCounted DEF LinesTyped
  <2> QED
    BY <2>1, <2>3, <2>4, <2>5, StepsOfLines
<1>3. \A d \in Channels \ {c} : Numbered(d)' /\ Counted(d)'
  BY <1>1, OthersRest, NumberedStays DEF LinesInOrder
<1>4. LinesTyped'
  BY <1>1, <1>2, SessionStaysTyped DEF LinesTyped
<1>5. \A d \in Channels : Numbered(d)' /\ Counted(d)'
  BY <1>2, <1>3
<1> QED
  BY <1>4, <1>5 DEF LinesInOrder

(* No line has arrived at first.                                           *)
LEMMA InitLinesInOrder == Init => LinesInOrder
<1> SUFFICES ASSUME Init
             PROVE  LinesInOrder
  OBVIOUS
<1>1. LinesTyped
  BY DEF Init, LinesTyped
<1>2. ASSUME NEW c \in Channels
      PROVE  Numbered(c) /\ Counted(c)
  <2>1. inbox[c] = <<>> /\ DOMAIN inbox[c] = {} /\ frame[c].id = 0 /\ sent[c] = 0
        /\ unanswered[c] = 0 /\ phase[c] = "accepted"
    BY DEF Init, NoFrame
  <2>2. \A s : s \notin SequencesOf(c)
    BY <2>1, UnservedLines, PhasesApart
  <2>3. SequencesOf(c) = {}
    BY <2>2
  <2> QED
    BY <2>1, <2>3, FS_EmptySet DEF Numbered, Counted
<1> QED
  BY <1>1, <1>2 DEF LinesInOrder

(* Lines in order are answered one sequence at a time.                     *)
LEMMA CountedIsOneAtATime == LinesInOrder => OneSequenceAtATime
<1> SUFFICES ASSUME LinesInOrder, NEW c \in Channels, phase[c] \notin EndPhases
             PROVE  /\ unanswered[c] = Cardinality(SequencesOf(c))
                    /\ Cardinality({r \in SequencesOf(c) : ~r.refused}) <= 1
  BY DEF OneSequenceAtATime, SequencesOf, EndPhases
<1>1. /\ unanswered[c] = Cardinality(SequencesOf(c))
      /\ \A r, s \in SequencesOf(c) : ~r.refused /\ ~s.refused => r = s
  BY DEF LinesInOrder, Counted
<1> DEFINE admitted == {r \in SequencesOf(c) : ~r.refused}
<1>2. CASE admitted = {}
  BY <1>1, <1>2, FS_EmptySet
<1>3. CASE admitted # {}
  <2>1. PICK r : r \in admitted
    BY <1>3
  <2>2. admitted = {r}
    BY <1>1, <2>1
  <2>3. Cardinality({r}) = 1
    BY FS_Singleton
  <2> QED
    BY <1>1, <2>2, <2>3
<1> QED
  BY <1>2, <1>3

(* The lines of every connection are answered in the order they came, and  *)
(* the count of unanswered sequences that an arrival reads is the number   *)
(* of sequences that wait or are in turn.                                  *)
THEOREM LinesAreAlwaysInOrder == Spec => []LinesInOrder
<1>1. FramesFit /\ LinesInOrder /\ [Next]_vars => LinesInOrder'
  <2>1. LinesInOrder /\ UNCHANGED vars => LinesInOrder'
    <3> SUFFICES ASSUME LinesInOrder, UNCHANGED vars
                 PROVE  LinesInOrder'
      OBVIOUS
    <3>1. UNCHANGED <<sent, session, unanswered>> /\ \A d \in Channels : LinesOf(d)' = LinesOf(d)
      BY DEF vars, channelVars, LinesOf
    <3> QED
      BY <3>1, NumberedStays DEF LinesInOrder, LinesTyped
  <2> QED
    BY <2>1, StepsKeepLinesInOrder DEF Next
<1> QED
  BY <1>1, InitLinesInOrder, FramesAlwaysFit, PTL DEF Spec

(* At most one sequence of a connection is answered at a time, and the     *)
(* count that refuses the others is exact, whatever arrives in whatever    *)
(* state of the task.                                                      *)
THEOREM SequencesAreAnsweredOneAtATime == Spec => []OneSequenceAtATime
BY LinesAreAlwaysInOrder, CountedIsOneAtATime, PTL
=============================================================================
