---------------------------- MODULE EndpointProofs --------------------------
(***************************************************************************)
(* Proofs about the endpoint tasks and the ledger together, for every      *)
(* number of hosts: what a stop and a release can still let through (a     *)
(* channel that stopped begins at most one step, input left held has a     *)
(* channel that will release it), and what becomes of every frame (the     *)
(* ledger says of it what its connection does with it, and a final answer  *)
(* is never taken back).                                                   *)
(***************************************************************************)
EXTENDS AgentChannelProofs

-----------------------------------------------------------------------------
(* Which steps make a channel live, or change what it carries.             *)

NoneRevived ==
    \A d \in Channels : channels'[d].state = "live" => channels[d].state = "live"

(* A channel is forgotten, or carries what it did and is not live anew.    *)
Stays(d) ==
    \/ channels'[d] = UnknownChannel
    \/ /\ channels'[d].carried = channels[d].carried
       /\ channels'[d].state = "live" => channels[d].state = "live"

Steady == \A d \in Channels : Stays(d)

(* A step of c alone may change what c carries.                            *)
SteadyBut(c) == NoneRevived /\ \A d \in Channels \ {c} : Stays(d)

LEMMA SteadyIsSteadyBut ==
    ASSUME Steady, NEW c
    PROVE  NoneRevived /\ SteadyBut(c)
BY DEF Steady, Stays, SteadyBut, NoneRevived, UnknownChannel

(* Bounding forgets stopped channels and changes no other.                 *)
LEMMA BoundingIsSteady ==
    ASSUME NEW cs, NEW order, BoundChannels(cs, order), NEW d \in Channels,
           cs[d].carried = channels[d].carried,
           cs[d].state = "live" => channels[d].state = "live"
    PROVE  Stays(d)
<1>1. channels'[d] = cs[d] \/ channels'[d] = UnknownChannel
  BY DEF BoundChannels
<1>2. UnknownChannel.state # "live"
  BY DEF UnknownChannel
<1> QED
  BY <1>1, <1>2 DEF Stays

(* Raising the last id received leaves the rest of every channel.          *)
LEMMA RaisingIsSteady ==
    ASSUME RecordsTypeOK, NEW c \in Channels, NEW i, RaiseReceived(c, i)
    PROVE  Steady
<1> DEFINE cs == [channels EXCEPT ![c].last_received = IF @ < i THEN i ELSE @]
<1>1. \A d \in Channels : cs[d].state = channels[d].state /\ cs[d].carried = channels[d].carried
  BY DEF RecordsTypeOK, Channel
<1>2. BoundChannels(cs, stopped)
  BY DEF RaiseReceived
<1> HIDE DEF cs
<1> QED
  BY <1>1, <1>2, BoundingIsSteady DEF Steady

(* Stopping channels makes none live and leaves what each carries.         *)
LEMMA StoppingIsSteady ==
    ASSUME RecordsTypeOK, NEW cs
    PROVE  \A d \in Channels :
              /\ StopChannels(cs)[d] \in Channel
              /\ StopChannels(cs)[d].carried = channels[d].carried
              /\ StopChannels(cs)[d].state = "live" => channels[d].state = "live"
BY DEF StopChannels, Stopping, Live, RecordsTypeOK, Channel

LEMMA RegisterIsSteadyBut ==
    ASSUME RecordsTypeOK, NEW c \in Channels, NEW owner \in Owners, Register(c, owner)
    PROVE  SteadyBut(c)
<1>1. CASE RegisterFenced(c, owner)
  BY <1>1 DEF RegisterFenced, SteadyBut, NoneRevived, Stays
<1>2. CASE RegisterAdmitted(c, owner)
  <2> DEFINE halted == StopChannels(Older(c, owner))
             cs == IF channels[c].state = "unknown"
                     THEN halted
                     ELSE [halted EXCEPT ![c].carried[owner.action] =
                              IF @ < owner.generation THEN owner.generation ELSE @]
  <2>1. PICK order \in StopOrders(Older(c, owner)) : BoundChannels(cs, order)
    BY <1>2 DEF RegisterAdmitted
  <2>2. \A d \in Channels : /\ halted[d] \in Channel
                            /\ halted[d].carried = channels[d].carried
                            /\ halted[d].state = "live" => channels[d].state = "live"
    BY StoppingIsSteady
  <2>3. halted \in [Channels -> Channel]
    BY <2>2 DEF StopChannels
  <2> HIDE DEF halted
  <2>4. \A d \in Channels : cs[d].state = halted[d].state /\ (d # c => cs[d] = halted[d])
    BY <2>3 DEF Channel
  <2> HIDE DEF cs
  <2>5. \A d \in Channels \ {c} : Stays(d)
    BY <2>1, <2>2, <2>4, BoundingIsSteady
  <2>6. NoneRevived
    <3>1. \A d \in Channels : channels'[d] = cs[d] \/ channels'[d] = UnknownChannel
      BY <2>1 DEF BoundChannels
    <3> QED
      BY <2>2, <2>4, <3>1 DEF NoneRevived, UnknownChannel
  <2> QED
    BY <2>5, <2>6 DEF SteadyBut
<1> QED
  BY <1>1, <1>2 DEF Register

(* Every operation but the opening of a channel and its registration.      *)
LEMMA OperationsAreSteady ==
    ASSUME RecordsTypeOK, NEW c \in Channels, NEW i
    PROVE  /\ ReceiveOther(c, i) => Steady
           /\ EndChannel(c) => Steady
           /\ \A a, refused : ReceiveSequence(c, i, a, refused) => Steady
           /\ \A a : Start(c, i, a) => Steady
           /\ \A a : NotStarted(c, i, a) => Steady
           /\ \A size : Settle(c, i, size) => Steady
           /\ \A size : Retain(c, i, size) => Steady
           /\ UNCHANGED ledgerVars => Steady
<1>1. UNCHANGED channels => Steady
  BY DEF Steady, Stays
<1>2. UNCHANGED ledgerVars => Steady
  BY <1>1 DEF ledgerVars
<1>3. ReceiveOther(c, i) => Steady
  BY <1>1, RaisingIsSteady DEF ReceiveOther
<1>4. ASSUME NEW a, NEW refused, ReceiveSequence(c, i, a, refused)
      PROVE  Steady
  BY <1>2, <1>4, RaisingIsSteady DEF ReceiveSequence
<1>5. ASSUME EndChannel(c)
      PROVE  Steady
  <2>1. PICK order : BoundChannels(StopChannels({c}), order)
    BY <1>5 DEF EndChannel
  <2> QED
    BY <2>1, StoppingIsSteady, BoundingIsSteady DEF Steady
<1>6. /\ \A a : Start(c, i, a) => Steady
      /\ \A a : NotStarted(c, i, a) => Steady
  BY <1>1 DEF Start, NotStarted
<1>7. /\ \A size : Settle(c, i, size) => Steady
      /\ \A size : Retain(c, i, size) => Steady
  BY <1>1, <1>2 DEF Settle, Retain, SetResult
<1> QED
  BY <1>2, <1>3, <1>4, <1>5, <1>6, <1>7

(* What arrives and what closes moves no task and leaves what channels     *)
(* carry.                                                                  *)
LEMMA ArrivalsAreSteady ==
    ASSUME RecordsTypeOK, NEW c \in Channels, Arrive(c) \/ ArriveGarbled(c) \/ Close(c)
    PROVE  Steady
<1>1. CASE Arrive(c)
  <2>1. \/ UNCHANGED ledgerVars
        \/ \E i, a, refused : ReceiveSequence(c, i, a, refused)
        \/ \E i : ReceiveOther(c, i)
    BY <1>1 DEF Arrive
  <2> QED
    BY <2>1, OperationsAreSteady
<1>2. CASE Close(c)
  BY <1>2, OperationsAreSteady DEF Close
<1>3. CASE ArriveGarbled(c)
  BY <1>3, OperationsAreSteady DEF ArriveGarbled
<1> QED
  BY <1>1, <1>2, <1>3

(* Every step of the daemon but an opening hello.                          *)
LEMMA StepsAreSteadyBut ==
    ASSUME FramesFit, RecordsTypeOK, NEW c \in Channels, Environment(c) \/ Endpoint(c),
           ~OpenHello(c)
    PROVE  SteadyBut(c)
<1>1. UNCHANGED ledgerVars => SteadyBut(c)
  BY OperationsAreSteady, SteadyIsSteadyBut
<1>2. CASE Environment(c)
  <2>1. CASE Arrive(c) \/ ArriveGarbled(c) \/ Close(c)
    BY <2>1, ArrivalsAreSteady, SteadyIsSteadyBut
  <2>2. CASE ReplyFails(c)
    BY <1>1, <2>2 DEF ReplyFails
  <2> QED
    BY <1>2, <2>1, <2>2 DEF Environment
<1>3. CASE TakeFrame(c)
  <2>1. /\ Head(inbox[c]) \in Usable
    BY <1>3, HeadTailProperties DEF TakeFrame, TakeGarbled, TakeRefused, TakeHello,
       TakeSequence, TakeOpStatus, Taking, FramesFit
  <2>2. Head(inbox[c]).kind = "op_status" => Head(inbox[c]).owner \in Owners
    BY <2>1, OwnerOfAFrame DEF Usable
  <2>3. CASE TakeOpStatus(c)
    BY <2>2, <2>3, RegisterIsSteadyBut DEF TakeOpStatus
  <2>4. CASE TakeSequence(c)
    BY <2>4, OperationsAreSteady, SteadyIsSteadyBut DEF TakeSequence
  <2>5. CASE TakeRefused(c)
    <3>1. UNCHANGED ledgerVars \/ \E i, a : NotStarted(c, i, a)
      BY <2>5 DEF TakeRefused
    <3> QED
      BY <1>1, <3>1, OperationsAreSteady, SteadyIsSteadyBut
  <2>6. CASE TakeGarbled(c) \/ TakeHello(c)
    BY <1>1, <2>6 DEF TakeGarbled, TakeHello
  <2> QED
    BY <1>3, <2>3, <2>4, <2>5, <2>6 DEF TakeFrame
<1>4. CASE Hello(c)
  <2>1. CASE RegisterHello(c)
    <3>1. phase[c] = "hello_registers" /\ Register(c, frame[c].owner)
      BY <2>1 DEF RegisterHello, Process
    <3>2. frame[c].owner \in Owners
      BY <3>1, FrameInTurn DEF FramesFit, Fits, Working, HelloPhases
    <3> QED
      BY <3>1, <3>2, RegisterIsSteadyBut
  <2>2. CASE ReceiveHello(c) \/ EndFencedHello(c)
    BY <2>2, OperationsAreSteady, SteadyIsSteadyBut DEF ReceiveHello, EndFencedHello
  <2>3. CASE RefuseHello(c) \/ Establish(c)
    BY <1>1, <2>3 DEF RefuseHello, Establish
  <2> QED
    BY <1>4, <2>1, <2>2, <2>3 DEF Hello
<1>5. CASE Sequence(c)
  <2>1. RecordNotStarted(c) => SteadyBut(c)
    BY OperationsAreSteady, SteadyIsSteadyBut DEF RecordNotStarted
  <2>2. CASE RefuseSecondSequence(c) \/ RefuseFencedSequence(c) \/ RejectSteps(c)
    BY <2>1, <2>2 DEF RefuseSecondSequence, RefuseFencedSequence, RejectSteps
  <2>3. CASE AdmitSequence(c)
    <3>1. phase[c] \in Working
      BY <2>3 DEF AdmitSequence, Process, Working, SequencePhases
    <3>2. UNCHANGED ledgerVars
            \/ (frame[c].owner \in Owners /\ Register(c, frame[c].owner))
      BY <2>3, <3>1, FrameInTurn DEF AdmitSequence
    <3> QED
      BY <1>1, <3>2, RegisterIsSteadyBut
  <2>4. CASE StartSequence(c) \/ SettleSequence(c)
    BY <2>4, OperationsAreSteady, SteadyIsSteadyBut DEF StartSequence, SettleSequence
  <2>5. CASE \/ NextStep(c) \/ LastStep(c) \/ BeginStep(c) \/ EndStep(c)
             \/ QueueLandingRead(c) \/ LandWithoutRead(c) \/ ReadLanding(c)
             \/ FinishSequence(c)
    BY <1>1, <2>5 DEF NextStep, LastStep, BeginStep, EndStep, QueueLandingRead,
       LandWithoutRead, ReadLanding, FinishSequence, GiveBack
  <2> QED
    BY <1>5, <2>2, <2>3, <2>4, <2>5 DEF Sequence
<1>6. CASE OpStatus(c)
  <2>1. CASE RegisterAsker(c)
    <3>1. phase[c] \in Working /\ phase[c] \in AskPhases /\ Register(c, frame[c].owner)
      BY <2>1 DEF RegisterAsker, Process, Working, AskPhases
    <3> QED
      BY <3>1, FrameInTurn, RegisterIsSteadyBut
  <2>2. CASE ReceiveOpStatus(c)
    BY <2>2, OperationsAreSteady, SteadyIsSteadyBut DEF ReceiveOpStatus
  <2>3. CASE AnswerOpStatus(c)
    BY <1>1, <2>3 DEF AnswerOpStatus
  <2>4. CASE RetainResult(c)
    <3>1. phase[c] \in Working
      BY <2>4 DEF RetainResult, Process, Working, AskPhases
    <3>2. frame[c].of[1] \in Channels
      BY <3>1, FrameInTurn, FrameParts
    <3>3. UNCHANGED ledgerVars \/ \E i, size : Retain(frame[c].of[1], i, size)
      BY <2>4 DEF RetainResult
    <3> QED
      BY <1>1, <3>2, <3>3, OperationsAreSteady, SteadyIsSteadyBut
  <2> QED
    BY <1>6, <2>1, <2>2, <2>3, <2>4 DEF OpStatus
<1>7. CASE Reply(c)
  BY <1>1, <1>7 DEF Reply
<1>8. CASE EndOfConnection(c)
  BY <1>1, <1>8, OperationsAreSteady, SteadyIsSteadyBut DEF EndOfConnection, Drained, EndSession, EndUnopened,
     QueueRelease, Release
<1> QED
  BY <1>2, <1>3, <1>4, <1>5, <1>6, <1>7, <1>8 DEF Endpoint

-----------------------------------------------------------------------------
(* A step begins late at most once.                                        *)

(* A session outlives every hello, a sequence needs one, and a channel     *)
(* that began a step late stays stopped and waits for no other.            *)
Discipline ==
    /\ session \in [Channels -> BOOLEAN]
    /\ late \in [Channels -> Nat]
    /\ \A c \in Channels :
          /\ phase[c] \in HelloPhases => ~session[c]
          /\ phase[c] \in SequencePhases => session[c]
          /\ \/ late[c] = 0
             \/ late[c] = 1 /\ session[c] /\ ~Live(c) /\ phase[c] # "waiting"

(* A step that only moves a task on, and makes no channel live.            *)
LEMMA QuietStep ==
    ASSUME FramesFit, Discipline, NEW c \in Channels, NEW next, Go(c, next),
           UNCHANGED <<session, late>>, NoneRevived,
           next \in HelloPhases => ~session[c],
           next \in SequencePhases => session[c],
           next = "waiting" => Live(c)
    PROVE  Discipline'
<1>1. phase' = [phase EXCEPT ![c] = next] /\ phase \in [Channels -> Phases]
  BY DEF Go, FramesFit
<1>2. \A d \in Channels : Live(d)' => Live(d)
  BY DEF NoneRevived, Live
<1>3. ASSUME NEW d \in Channels
      PROVE  /\ phase'[d] \in HelloPhases => ~session[d]
             /\ phase'[d] \in SequencePhases => session[d]
             /\ \/ late[d] = 0
                \/ late[d] = 1 /\ session[d] /\ ~Live(d)' /\ phase'[d] # "waiting"
  <2>1. CASE d = c
    BY <1>1, <1>2, <2>1 DEF Discipline
  <2>2. CASE d # c
    BY <1>1, <1>2, <2>2 DEF Discipline
  <2> QED
    BY <2>1, <2>2
<1> QED
  BY <1>3 DEF Discipline

(* A step that moves no task, and makes no channel live.                   *)
LEMMA StillStep ==
    ASSUME Discipline, UNCHANGED <<phase, session, late>>, NoneRevived
    PROVE  Discipline'
<1>1. \A d \in Channels : Live(d)' => Live(d)
  BY DEF NoneRevived, Live
<1> QED
  BY <1>1 DEF Discipline

(* The phases in which a task is neither in a hello nor in a sequence.     *)
OtherPhases == AskPhases \cup {"replying", "idle", "ending", "ended", "releasing", "gone"}

LEMMA PhaseKinds ==
    /\ \A p \in OtherPhases :
          p \notin HelloPhases /\ p \notin SequencePhases /\ p # "waiting"
    /\ \A p \in HelloPhases : p \notin SequencePhases /\ p # "waiting"
    /\ \A p \in SequencePhases : p \notin HelloPhases
BY DEF OtherPhases, HelloPhases, SequencePhases, StepPhases, AskPhases

(* An opening hello makes its own channel live, which began nothing.       *)
LEMMA OpeningDiscipline ==
    ASSUME FramesFit, RecordsTypeOK, Discipline, NEW c \in Channels, OpenHello(c)
    PROVE  Discipline'
<1>1. /\ phase[c] = "hello" /\ phase' = [phase EXCEPT ![c] = "hello_receives"]
      /\ UNCHANGED <<session, late>> /\ OpenChannel(c)
  BY DEF OpenHello, Process, Go, history
<1>2. \A d \in Channels \ {c} : Live(d)' => Live(d)
  <2>1. \A d \in Channels \ {c} :
            channels'[d] = channels[d] \/ channels'[d] = UnknownChannel
    BY <1>1 DEF OpenChannel, BoundChannels, RecordsTypeOK
  <2> QED
    BY <2>1 DEF Live, UnknownChannel
<1>3. ~session[c] /\ late[c] = 0
  BY <1>1 DEF Discipline, HelloPhases
<1>4. ASSUME NEW d \in Channels
      PROVE  /\ phase'[d] \in HelloPhases => ~session[d]
             /\ phase'[d] \in SequencePhases => session[d]
             /\ \/ late[d] = 0
                \/ late[d] = 1 /\ session[d] /\ ~Live(d)' /\ phase'[d] # "waiting"
  <2>1. CASE d = c
    BY <1>1, <1>3, <2>1, PhaseKinds DEF FramesFit, HelloPhases
  <2>2. CASE d # c
    BY <1>1, <1>2, <2>2 DEF Discipline, FramesFit
  <2> QED
    BY <2>1, <2>2
<1> QED
  BY <1>1, <1>4 DEF Discipline

(* A step that begins counts when its channel is stopped, and none waits   *)
(* for custody after it.                                                   *)
LEMMA BeginningDiscipline ==
    ASSUME FramesFit, Discipline, NEW c \in Channels, BeginStep(c)
    PROVE  Discipline'
<1>1. /\ phase[c] = "waiting" /\ phase' = [phase EXCEPT ![c] = "running"]
      /\ late' = [late EXCEPT ![c] = IF Live(c) THEN @ ELSE @ + 1]
      /\ UNCHANGED <<session, channels>>
  BY DEF BeginStep, Go, ledgerVars
<1>2. session[c] /\ late[c] = 0
  BY <1>1 DEF Discipline, SequencePhases, StepPhases
<1>3. late' \in [Channels -> Nat]
  BY <1>1 DEF Discipline
<1>4. ASSUME NEW d \in Channels
      PROVE  /\ phase'[d] \in HelloPhases => ~session[d]
             /\ phase'[d] \in SequencePhases => session[d]
             /\ \/ late'[d] = 0
                \/ late'[d] = 1 /\ session[d] /\ ~Live(d) /\ phase'[d] # "waiting"
  <2>1. CASE d = c
    <3>1. late'[c] = (IF Live(c) THEN 0 ELSE 1) /\ phase'[c] = "running"
      BY <1>1, <1>2 DEF Discipline, FramesFit
    <3>2. "running" \notin HelloPhases
      BY DEF HelloPhases
    <3> QED
      BY <1>2, <2>1, <3>1, <3>2
  <2>2. CASE d # c
    BY <1>1, <2>2 DEF Discipline, FramesFit
  <2> QED
    BY <2>1, <2>2
<1>5. \A d \in Channels : Live(d)' <=> Live(d)
  BY <1>1 DEF Live
<1> QED
  BY <1>1, <1>3, <1>4, <1>5 DEF Discipline

(* The hello is over once there is a session.                              *)
LEMMA EstablishedDiscipline ==
    ASSUME FramesFit, Discipline, NEW c \in Channels, Establish(c)
    PROVE  Discipline'
<1>1. /\ phase[c] = "hello_done" /\ phase' = [phase EXCEPT ![c] = "replying"]
      /\ session' = [session EXCEPT ![c] = TRUE]
      /\ UNCHANGED <<late, channels>>
  BY DEF Establish, Go, ledgerVars, history
<1>2. ~session[c] /\ late[c] = 0
  BY <1>1 DEF Discipline, HelloPhases
<1>3. session' \in [Channels -> BOOLEAN]
  BY <1>1 DEF Discipline
<1>4. ASSUME NEW d \in Channels
      PROVE  /\ phase'[d] \in HelloPhases => ~session'[d]
             /\ phase'[d] \in SequencePhases => session'[d]
             /\ \/ late[d] = 0
                \/ late[d] = 1 /\ session'[d] /\ ~Live(d) /\ phase'[d] # "waiting"
  <2>1. CASE d = c
    BY <1>1, <1>2, <2>1, PhaseKinds DEF FramesFit, OtherPhases
  <2>2. CASE d # c
    BY <1>1, <2>2 DEF Discipline, FramesFit
  <2> QED
    BY <2>1, <2>2
<1>5. \A d \in Channels : Live(d)' <=> Live(d)
  BY <1>1 DEF Live
<1> QED
  BY <1>1, <1>3, <1>4, <1>5 DEF Discipline

LEMMA EnvironmentDiscipline ==
    ASSUME FramesFit, RecordsTypeOK, Discipline, NEW c \in Channels, Environment(c)
    PROVE  Discipline'
<1>1. CASE OpenHello(c)
  BY <1>1, OpeningDiscipline
<1>2. CASE ~OpenHello(c)
  <2>1. NoneRevived
    BY <1>2, StepsAreSteadyBut DEF SteadyBut
  <2>2. CASE Arrive(c) \/ ArriveGarbled(c) \/ Close(c)
    BY <2>1, <2>2, StillStep DEF Arrive, ArriveGarbled, Close, history
  <2>3. CASE ReplyFails(c)
    <3>1. Go(c, "ending") /\ UNCHANGED <<session, late>>
      BY <2>3 DEF ReplyFails, history
    <3> QED
      BY <2>1, <3>1, QuietStep, PhaseKinds DEF OtherPhases
  <2> QED
    BY <2>2, <2>3 DEF Environment
<1> QED
  BY <1>1, <1>2

LEMMA EndpointDiscipline ==
    ASSUME FramesFit, RecordsTypeOK, Discipline, NEW c \in Channels, Endpoint(c)
    PROVE  Discipline'
<1>1. CASE OpenHello(c)
  BY <1>1, OpeningDiscipline
<1>2. CASE BeginStep(c)
  BY <1>2, BeginningDiscipline
<1>3. CASE Establish(c)
  BY <1>3, EstablishedDiscipline
<1>4. CASE ~OpenHello(c) /\ ~BeginStep(c) /\ ~Establish(c)
  <2>0. NoneRevived
    BY <1>4, StepsAreSteadyBut DEF SteadyBut
  <2>1. ASSUME NEW next \in OtherPhases, Go(c, next), UNCHANGED <<session, late>>
        PROVE  Discipline'
    BY <2>0, <2>1, QuietStep, PhaseKinds
  <2>2. ASSUME NEW next \in HelloPhases, ~session[c], Go(c, next),
               UNCHANGED <<session, late>>
        PROVE  Discipline'
    BY <2>0, <2>2, QuietStep, PhaseKinds
  <2>3. ASSUME NEW next \in SequencePhases, next = "waiting" => Live(c), session[c],
               Go(c, next), UNCHANGED <<session, late>>
        PROVE  Discipline'
    BY <2>0, <2>3, QuietStep, PhaseKinds
  <2>4. CASE TakeFrame(c)
    <3>1. UNCHANGED <<session, late>>
      BY <2>4 DEF TakeFrame, TakeGarbled, TakeRefused, TakeHello, TakeSequence, TakeOpStatus,
         Take, history
    <3>2. \/ Go(c, "ending") \/ Go(c, "replying") \/ Go(c, "ask_receives")
          \/ Go(c, "hello") /\ ~session[c]
          \/ Go(c, "admitting") /\ session[c]
      BY <2>4 DEF TakeFrame, TakeGarbled, TakeRefused, TakeHello, TakeSequence, TakeOpStatus,
         Take
    <3> QED
      BY <2>1, <2>2, <2>3, <3>1, <3>2 DEF OtherPhases, AskPhases, HelloPhases, SequencePhases
  <2>5. CASE Hello(c)
    <3>1. ~session[c]
      BY <2>5 DEF Discipline, Hello, RefuseHello, OpenHello, ReceiveHello, RegisterHello,
         EndFencedHello, Establish, Process, HelloPhases
    <3>2. UNCHANGED <<session, late>>
      BY <1>4, <2>5 DEF Hello, RefuseHello, ReceiveHello, RegisterHello, EndFencedHello,
         Process, history
    <3>3. \/ Go(c, "replying") \/ Go(c, "hello_done") \/ Go(c, "hello_registers")
          \/ Go(c, "hello_ends")
      BY <1>4, <2>5 DEF Hello, RefuseHello, ReceiveHello, RegisterHello, EndFencedHello,
         Process
    <3> QED
      BY <2>1, <2>2, <3>1, <3>2, <3>3 DEF OtherPhases, HelloPhases
  <2>6. CASE Sequence(c)
    <3>1. session[c]
      BY <2>6 DEF Discipline, Sequence, RefuseSecondSequence, AdmitSequence,
         RefuseFencedSequence, RejectSteps, StartSequence, NextStep, LastStep, BeginStep,
         EndStep, QueueLandingRead, LandWithoutRead, ReadLanding, FinishSequence,
         SettleSequence, GiveBack, Queue, Process, SequencePhases, StepPhases
    <3>2. UNCHANGED <<session, late>>
      BY <1>4, <2>6 DEF Sequence, RefuseSecondSequence, AdmitSequence,
         RefuseFencedSequence, RejectSteps, StartSequence, NextStep, LastStep,
         EndStep, QueueLandingRead, LandWithoutRead, ReadLanding, FinishSequence,
         SettleSequence, GiveBack, Queue, Process, history
    <3>3. \/ Go(c, "replying") \/ Go(c, "fenced") \/ Go(c, "preparing")
          \/ Go(c, "stepping") \/ Go(c, "finishing") \/ Go(c, "landing")
          \/ Go(c, "landed") \/ Go(c, "settling")
          \/ Go(c, "waiting") /\ Live(c)
      BY <1>4, <2>6 DEF Sequence, RefuseSecondSequence, AdmitSequence,
         RefuseFencedSequence, RejectSteps, StartSequence, NextStep, LastStep,
         EndStep, QueueLandingRead, LandWithoutRead, ReadLanding, FinishSequence,
         SettleSequence, GiveBack, Queue, Process, MayContinue
    <3> QED
      BY <2>1, <2>3, <3>1, <3>2, <3>3 DEF OtherPhases, SequencePhases, StepPhases
  <2>7. CASE OpStatus(c)
    <3>1. UNCHANGED <<session, late>>
      BY <2>7 DEF OpStatus, ReceiveOpStatus, RegisterAsker, AnswerOpStatus, RetainResult,
         Process, history
    <3>2. \/ Go(c, "ask_registers") \/ Go(c, "asking") \/ Go(c, "retaining")
          \/ Go(c, "replying")
      BY <2>7 DEF OpStatus, ReceiveOpStatus, RegisterAsker, AnswerOpStatus, RetainResult,
         Process
    <3> QED
      BY <2>1, <3>1, <3>2 DEF OtherPhases, AskPhases
  <2>8. CASE Reply(c) \/ EndOfConnection(c)
    <3>1. UNCHANGED <<session, late>>
      BY <2>8 DEF Reply, EndOfConnection, Drained, EndSession, EndUnopened, QueueRelease,
         Release, Queue, Process, history
    <3>2. \/ Go(c, "idle") \/ Go(c, "ending") \/ Go(c, "ended") \/ Go(c, "gone")
          \/ Go(c, "releasing")
      BY <2>8 DEF Reply, EndOfConnection, Drained, EndSession, EndUnopened, QueueRelease,
         Release, Queue, Process
    <3> QED
      BY <2>1, <3>1, <3>2 DEF OtherPhases
  <2> QED
    BY <2>4, <2>5, <2>6, <2>7, <2>8 DEF Endpoint
<1> QED
  BY <1>1, <1>2, <1>3, <1>4

LEMMA StepsKeepDiscipline ==
    FramesFit /\ RecordsTypeOK /\ Discipline /\ [Next]_vars => Discipline'
<1> SUFFICES ASSUME FramesFit, RecordsTypeOK, Discipline, [Next]_vars
             PROVE  Discipline'
  OBVIOUS
<1>1. CASE Next
  BY <1>1, EnvironmentDiscipline, EndpointDiscipline DEF Next
<1>2. CASE UNCHANGED vars
  BY <1>2, StillStep DEF vars, channelVars, history, ledgerVars, NoneRevived
<1> QED
  BY <1>1, <1>2

(* Fencing, as far as the step: however long a step waits for custody and  *)
(* whatever stopped its channel meanwhile, it is the only one the channel  *)
(* begins after it stopped.                                                *)
THEOREM StoppedChannelsBeginOneStep == Spec => []AtMostOneLateStep
<1>1. Init => Discipline
  BY DEF Init, Discipline, HelloPhases, SequencePhases, StepPhases
<1>2. LedgerInvariant => RecordsTypeOK
  BY DEF LedgerInvariant
<1>3. Discipline => AtMostOneLateStep
  BY DEF Discipline, AtMostOneLateStep
<1> QED
  BY <1>1, <1>2, <1>3, FramesAlwaysFit, TheLedgerIsSoundInTheDaemon, StepsKeepDiscipline, PTL
     DEF Spec

-----------------------------------------------------------------------------
(* Input left held has a releaser.                                         *)

(* A step runs only under custody and is then the last actor; an actor is  *)
(* still there to release what it holds, and with no actor input is held   *)
(* only when the end of the last one came to its release and kept it.      *)
Releaser ==
    /\ custody \in Seq(Channels)
    /\ \A c \in Channels : phase[c] = "running" => Holder = c /\ actor = c
    /\ actor = NoChannel => held = NoChannel \/ leftover
    /\ actor # NoChannel => actor \in Channels /\ session[actor] /\ phase[actor] # "gone"

LEMMA HeldCustody ==
    ASSUME custody \in Seq(Channels), NEW c \in Channels, Holder = c
    PROVE  custody # <<>> /\ Head(custody) = c /\ Tail(custody) \in Seq(Channels)
<1>1. custody # <<>> /\ Head(custody) = c
  BY NoChannelAssumption DEF Holder
<1> QED
  BY <1>1, HeadTailProperties

(* A step that leaves custody and what is held alone.                      *)
LEMMA IdleRelease ==
    ASSUME Releaser, UNCHANGED <<browserVars, leftover>>,
           \A d \in Channels : session[d] => session'[d],
           \A d \in Channels : phase'[d] = "running" => phase[d] = "running",
           \A d \in Channels : phase'[d] = "gone" => phase[d] = "gone" \/ ~session[d]
    PROVE  Releaser'
BY DEF Releaser, browserVars, Holder

(* A task joins the queue for custody.                                     *)
LEMMA QueueingRelease ==
    ASSUME FramesFit, Releaser, NEW c \in Channels, NEW from, NEW next, Queue(c, from, next),
           next \notin {"running", "gone"}
    PROVE  Releaser'
<1>1. /\ phase' = [phase EXCEPT ![c] = next] /\ phase \in [Channels -> Phases]
      /\ custody' = Append(custody, c) /\ UNCHANGED <<actor, held, session, leftover>>
  BY DEF Queue, Go, FramesFit, history
<1>2. custody' \in Seq(Channels)
  BY <1>1, AppendProperties DEF Releaser
<1>3. ASSUME NEW d \in Channels, phase'[d] = "running"
      PROVE  Holder' = d /\ actor' = d
  <2>1. phase[d] = "running"
    BY <1>1, <1>3
  <2>2. Holder = d /\ actor = d
    BY <2>1 DEF Releaser
  <2>3. custody # <<>> /\ Head(custody) = d
    BY <2>2, HeldCustody DEF Releaser
  <2>4. custody' # <<>> /\ Head(custody') = d
    BY <1>1, <2>3, AppendProperties DEF Releaser
  <2> QED
    BY <1>1, <2>2, <2>4 DEF Holder
<1>4. \A d \in Channels : phase'[d] = "gone" => phase[d] = "gone"
  BY <1>1
<1> QED
  BY <1>1, <1>2, <1>3, <1>4 DEF Releaser

(* The holder gives custody back: nobody runs a step then.                 *)
LEMMA GivingBack ==
    ASSUME FramesFit, Releaser, NEW c \in Channels, Holder = c,
           NEW next, next # "running", Go(c, next), custody' = Tail(custody)
    PROVE  /\ custody' \in Seq(Channels)
           /\ \A d \in Channels : phase'[d] # "running"
<1>1. phase' = [phase EXCEPT ![c] = next] /\ phase \in [Channels -> Phases]
  BY DEF Go, FramesFit
<1>2. custody' \in Seq(Channels)
  BY HeldCustody DEF Releaser
<1>3. ASSUME NEW d \in Channels
      PROVE  phase'[d] # "running"
  BY <1>1 DEF Releaser
<1> QED
  BY <1>2, <1>3

(* Only the holder's own step ends, and it was the last actor.             *)
LEMMA EndStepRelease ==
    ASSUME FramesFit, Releaser, NEW c \in Channels, EndStep(c)
    PROVE  Releaser'
<1>1. phase[c] = "running" /\ custody' = Tail(custody) /\ UNCHANGED <<actor, session>>
  BY DEF EndStep
<1>2. Holder = c /\ actor = c
  BY <1>1 DEF Releaser
<1>3. PICK next \in {"stepping", "landing"} : Go(c, next)
  BY DEF EndStep
<1>4. custody' \in Seq(Channels) /\ \A d \in Channels : phase'[d] # "running"
  BY <1>1, <1>2, <1>3, GivingBack
<1>5. phase'[c] # "gone"
  BY <1>3 DEF Go, FramesFit
<1>6. actor' # NoChannel /\ actor' \in Channels /\ session'[actor'] /\ phase'[actor'] # "gone"
  BY <1>1, <1>2, <1>5, NoChannelAssumption DEF Releaser
<1> QED
  BY <1>4, <1>6 DEF Releaser

LEMMA GiveBackRelease ==
    ASSUME FramesFit, Releaser, NEW c \in Channels, NEW from, NEW next,
           GiveBack(c, from, next), next \notin {"running", "gone"}
    PROVE  Releaser'
<1>1. /\ Holder = c /\ Go(c, next) /\ custody' = Tail(custody)
      /\ UNCHANGED <<actor, held, session, leftover>>
  BY DEF GiveBack, history
<1>2. custody' \in Seq(Channels) /\ \A d \in Channels : phase'[d] # "running"
  BY <1>1, GivingBack
<1>3. \A d \in Channels : phase'[d] = "gone" => phase[d] = "gone"
  BY <1>1 DEF Go, FramesFit
<1> QED
  BY <1>1, <1>2, <1>3 DEF Releaser

(* A step begins under custody; its session is there to release for it.    *)
LEMMA BeginStepRelease ==
    ASSUME FramesFit, Discipline, Releaser, NEW c \in Channels, BeginStep(c)
    PROVE  Releaser'
<1>1. /\ phase[c] = "waiting" /\ Holder = c /\ actor' = c
      /\ phase' = [phase EXCEPT ![c] = "running"] /\ phase \in [Channels -> Phases]
      /\ UNCHANGED <<custody, session>>
  BY DEF BeginStep, Go, FramesFit
<1>2. session[c]
  BY <1>1 DEF Discipline, SequencePhases, StepPhases
<1>3. ASSUME NEW d \in Channels, phase'[d] = "running"
      PROVE  d = c
  BY <1>1, <1>3 DEF Releaser
<1>4. Holder' = Holder
  BY <1>1 DEF Holder
<1>5. c # NoChannel /\ phase'[c] # "gone"
  BY <1>1, NoChannelAssumption
<1> QED
  BY <1>1, <1>2, <1>3, <1>4, <1>5 DEF Releaser

(* A channel that was the last actor releases before it is gone.           *)
LEMMA ReleasingRelease ==
    ASSUME FramesFit, Releaser, NEW c \in Channels, Release(c)
    PROVE  Releaser'
<1>1. /\ Holder = c /\ Go(c, "gone") /\ custody' = Tail(custody)
      /\ UNCHANGED session
      /\ IF actor = c THEN actor' = NoChannel /\ (held' = NoChannel \/ leftover')
                      ELSE UNCHANGED <<actor, held, leftover>>
  BY DEF Release, FinishInput
<1>2. custody' \in Seq(Channels) /\ \A d \in Channels : phase'[d] # "running"
  BY <1>1, GivingBack
<1>3. \A d \in Channels \ {c} : phase'[d] = phase[d]
  BY <1>1 DEF Go, FramesFit
<1> QED
  BY <1>1, <1>2, <1>3 DEF Releaser

(* Every other step leaves custody and what is held alone.                 *)
LEMMA OtherRelease ==
    ASSUME FramesFit, Discipline, Releaser, NEW c \in Channels, NEW next, Go(c, next),
           UNCHANGED <<browserVars, leftover>>,
           \A d \in Channels : session[d] => session'[d],
           next # "running", next = "gone" => ~session[c]
    PROVE  Releaser'
<1>1. phase' = [phase EXCEPT ![c] = next] /\ phase \in [Channels -> Phases]
  BY DEF Go, FramesFit
<1> QED
  BY <1>1, IdleRelease

LEMMA StepsKeepReleaser ==
    ASSUME FramesFit, Discipline, Releaser, NEW c \in Channels, Environment(c) \/ Endpoint(c)
    PROVE  Releaser'
<1>1. CASE Arrive(c) \/ ArriveGarbled(c) \/ Close(c)
  BY <1>1, IdleRelease DEF Arrive, ArriveGarbled, Close, history
<1>2. CASE BeginStep(c) \/ EndStep(c) \/ Release(c)
  BY <1>2, BeginStepRelease, EndStepRelease, ReleasingRelease
<1>3. CASE \/ NextStep(c) \/ LastStep(c) \/ QueueLandingRead(c) \/ QueueRelease(c)
  <2>1. \E from : \E next \in {"waiting", "finishing", "landed", "releasing"} :
            Queue(c, from, next)
    BY <1>3 DEF NextStep, LastStep, QueueLandingRead, QueueRelease
  <2> QED
    BY <2>1, QueueingRelease
<1>4. CASE ReadLanding(c) \/ FinishSequence(c)
  <2>1. \E from : \E next \in {"stepping", "settling"} : GiveBack(c, from, next)
    BY <1>4 DEF ReadLanding, FinishSequence
  <2> QED
    BY <2>1, GiveBackRelease
<1>5. CASE Establish(c)
  <2>1. /\ Go(c, "replying") /\ UNCHANGED <<browserVars, leftover>>
        /\ session' = [session EXCEPT ![c] = TRUE]
    BY <1>5 DEF Establish, history
  <2>2. \A d \in Channels : session[d] => session'[d]
    BY <2>1 DEF Discipline
  <2> QED
    BY <2>1, <2>2, OtherRelease
<1>6. CASE EndUnopened(c)
  <2>1. Go(c, "gone") /\ UNCHANGED <<browserVars, session, leftover>> /\ ~session[c]
    BY <1>6 DEF EndUnopened, Process, history
  <2> QED
    BY <2>1, OtherRelease
<1>7. ASSUME NEW next, next \notin {"running", "gone"}, Go(c, next),
             UNCHANGED <<browserVars, session, leftover>>
      PROVE  Releaser'
  BY <1>7, OtherRelease
<1>8. CASE TakeFrame(c)
  <2>1. \E next \in {"ending", "replying", "hello", "admitting", "ask_receives"} :
            Take(c, next)
    BY <1>8 DEF TakeFrame, TakeGarbled, TakeRefused, TakeHello, TakeSequence, TakeOpStatus
  <2> QED
    BY <1>7, <2>1 DEF Take, history
<1>9. ASSUME NEW from, NEW next, Process(c, from, next), next \notin {"running", "gone"}
      PROVE  Releaser'
  BY <1>7, <1>9 DEF Process, history
<1>10. CASE Hello(c) /\ ~Establish(c)
  <2>1. \E from : \E next \in {"replying", "hello_receives", "hello_done",
                               "hello_registers", "hello_ends"} : Process(c, from, next)
    BY <1>10 DEF Hello, RefuseHello, OpenHello, ReceiveHello, RegisterHello, EndFencedHello
  <2> QED
    BY <1>9, <2>1
<1>11. CASE \/ RefuseSecondSequence(c) \/ AdmitSequence(c) \/ RefuseFencedSequence(c)
            \/ RejectSteps(c) \/ StartSequence(c) \/ LandWithoutRead(c)
            \/ SettleSequence(c)
  <2>1. \E from : \E next \in {"replying", "preparing", "fenced", "stepping"} :
            Process(c, from, next)
    BY <1>11 DEF RefuseSecondSequence, AdmitSequence, RefuseFencedSequence, RejectSteps,
       StartSequence, LandWithoutRead, SettleSequence
  <2> QED
    BY <1>9, <2>1
<1>12. CASE OpStatus(c)
  <2>1. /\ UNCHANGED <<browserVars, session, leftover>>
        /\ \/ Go(c, "ask_registers") \/ Go(c, "replying") \/ Go(c, "asking")
           \/ Go(c, "retaining")
    BY <1>12 DEF OpStatus, ReceiveOpStatus, RegisterAsker, AnswerOpStatus, RetainResult,
       Process, history
  <2> QED
    BY <1>7, <2>1
<1>13. CASE Reply(c) \/ ReplyFails(c) \/ Drained(c) \/ EndSession(c)
  <2>1. /\ UNCHANGED <<browserVars, session, leftover>>
        /\ Go(c, "ending") \/ Go(c, "idle") \/ Go(c, "ended")
    BY <1>13 DEF Reply, ReplyFails, Drained, EndSession, Process, history
  <2> QED
    BY <1>7, <2>1
<1> QED
  BY <1>1, <1>2, <1>3, <1>4, <1>5, <1>6, <1>8, <1>10, <1>11, <1>12, <1>13
     DEF Environment, Endpoint, Sequence, EndOfConnection

(* The queue for custody is in order, and a step runs only at its head,    *)
(* over every order in which tasks get custody and connections end.        *)
THEOREM StepsRunUnderCustody == Spec => []Releaser
<1>1. Init => Discipline
  BY DEF Init, Discipline, HelloPhases, SequencePhases, StepPhases
<1>2. Init => Releaser
  BY EmptySeq DEF Init, Releaser
<1>3. LedgerInvariant => RecordsTypeOK
  BY DEF LedgerInvariant
<1>4. FramesFit /\ Discipline /\ Releaser /\ [Next]_vars => Releaser'
  <2>1. UNCHANGED vars /\ Releaser => Releaser'
    BY IdleRelease DEF vars, channelVars, history
  <2> QED
    BY <2>1, StepsKeepReleaser DEF Next
<1> QED
  BY <1>1, <1>2, <1>3, <1>4, FramesAlwaysFit, TheLedgerIsSoundInTheDaemon,
     StepsKeepDiscipline, PTL DEF Spec

(* Input a step left held has a live channel that will come to release it  *)
(* at its end, or is what the end of the last actor came to and could not  *)
(* or may not release: no end, fence or eviction loses the actor in        *)
(* between, over every order in which connections end.                     *)
THEOREM HeldInputIsReleasable == Spec => []HeldInputHasAReleaser
<1>1. Releaser => HeldInputHasAReleaser
  BY DEF Releaser, HeldInputHasAReleaser
<1> QED
  BY <1>1, StepsRunUnderCustody, PTL

-----------------------------------------------------------------------------
(* Fencing, as far as the frame.                                           *)

(* The daemon has room for the fence of every Action.                      *)
FencesSuffice == Cardinality(Actions) <= FENCES

(* No channel carries an Action under a newer generation than its fence.   *)
FenceLeads ==
    \A c \in Channels, a \in Actions : channels[c].carried[a] <= fences[a].generation

LEMMA NoFenceForgotten ==
    ASSUME FencesSuffice, NEW fs \in [Actions -> Fence], BoundFences(fs)
    PROVE  \A a \in Actions : fences'[a].generation = fs[a].generation
<1> SUFFICES ASSUME NEW a \in Actions
             PROVE  fences'[a].generation = fs[a].generation
  OBVIOUS
<1>1. fs[a] \in Fence /\ fs[a].generation \in Nat
  BY GenerationsAreNumbers DEF Fence
<1>2. CASE fs[a].generation > 0
  <2> DEFINE later == {b \in FencesIn(fs) : fs[b].touched > fs[a].touched}
  <2>1. later \subseteq Actions \ {a}
    BY <1>1 DEF FencesIn, Fence
  <2>2. /\ IsFiniteSet(Actions \ {a})
        /\ Cardinality(Actions \ {a}) = Cardinality(Actions) - 1
    BY ActionsAssumption, FS_RemoveElement
  <2>3. IsFiniteSet(later) /\ Cardinality(later) <= Cardinality(Actions \ {a})
    BY <2>1, <2>2, FS_Subset
  <2>4. Cardinality(later) \in Nat /\ Cardinality(Actions) \in Nat
    BY <2>3, ActionsAssumption, FS_CardinalityType
  <2>5. Cardinality(later) < FENCES
    BY <2>2, <2>3, <2>4, BoundsAssumption DEF FencesSuffice
  <2>6. a \in Remembered(fs)
    BY <1>2, <2>5 DEF Remembered, FencesIn
  <2>7. \E rank : fences'[a] = [fs[a] EXCEPT !.touched = rank]
    BY <2>6 DEF BoundFences
  <2> QED
    BY <1>1, <2>7 DEF Fence
<1>3. CASE ~(fs[a].generation > 0)
  <2>1. fences'[a] = NoFence
    BY <1>3 DEF BoundFences, Remembered, FencesIn
  <2> QED
    BY <1>1, <1>3, <2>1 DEF NoFence
<1> QED
  BY <1>2, <1>3

(* A registered owner becomes the fence, and its channel carries it.       *)
LEMMA RegisterLeads ==
    ASSUME RecordsTypeOK, FencesSuffice, FenceLeads,
           NEW c \in Channels, NEW owner \in Owners, Register(c, owner)
    PROVE  /\ FenceLeads'
           /\ ~Fenced(owner) /\ Live(c)' => channels'[c].carried[owner.action] = owner.generation
<1> DEFINE a == owner.action
           g == owner.generation
<1>1. /\ a \in Actions /\ g \in Generations /\ g \in Nat \ {0}
      /\ fences \in [Actions -> Fence] /\ fences[a] \in Fence
      /\ \A b \in Actions : fences[b].generation \in Nat
      /\ \A d \in Channels, b \in Actions : channels[d].carried[b] \in Nat
  BY GenerationsAreNumbers DEF Owners, RecordsTypeOK, Fence, Channel
<1>2. \A b \in Actions : UnknownChannel.carried[b] = 0
  BY DEF UnknownChannel
<1> HIDE DEF a, g
<1>3. CASE RegisterFenced(c, owner)
  <2> DEFINE fs == [fences EXCEPT ![a].touched = Latest]
  <2>1. BoundFences(fs) /\ UNCHANGED channels /\ Fenced(owner)
    BY <1>3 DEF RegisterFenced, a
  <2>2. fs \in [Actions -> Fence] /\ \A b \in Actions : fs[b].generation = fences[b].generation
    BY <1>1, LatestIsANumber DEF Fence
  <2> HIDE DEF fs
  <2>3. \A b \in Actions : fences'[b].generation = fences[b].generation
    BY <2>1, <2>2, NoFenceForgotten
  <2> QED
    BY <2>1, <2>3 DEF FenceLeads
<1>4. CASE RegisterAdmitted(c, owner)
  <2> DEFINE fs == [fences EXCEPT ![a] = [generation |-> g, touched |-> Latest]]
  <2>1. BoundFences(fs) /\ ~(g < fences[a].generation)
    BY <1>4 DEF RegisterAdmitted, Fenced, a, g
  <2>2. /\ fs \in [Actions -> Fence]
        /\ fs[a].generation = g
        /\ \A b \in Actions \ {a} : fs[b].generation = fences[b].generation
    BY <1>1, LatestIsANumber DEF Fence
  <2> HIDE DEF fs
  <2>3. /\ fences'[a].generation = g
        /\ \A b \in Actions \ {a} : fences'[b].generation = fences[b].generation
    BY <1>1, <2>1, <2>2, NoFenceForgotten
  <2>4. \A b \in Actions : fences[b].generation <= fences'[b].generation
    BY <1>1, <2>1, <2>3
  <2>5. \A d \in Channels \ {c}, b \in Actions :
            channels'[d].carried[b] \in {channels[d].carried[b], 0}
    BY <1>2, RegisterIsSteadyBut DEF SteadyBut, Stays
  <2> DEFINE halted == StopChannels(Older(c, owner))
             cs == IF channels[c].state = "unknown"
                     THEN halted
                     ELSE [halted EXCEPT ![c].carried[a] = IF @ < g THEN g ELSE @]
  <2>6. PICK order \in StopOrders(Older(c, owner)) : BoundChannels(cs, order)
    BY <1>4 DEF RegisterAdmitted, a, g
  <2>7. /\ halted \in [Channels -> Channel]
        /\ halted[c].carried = channels[c].carried
    BY StoppingIsSteady DEF StopChannels
  <2> HIDE DEF halted
  <2>8. CASE channels[c].state = "unknown"
    <3>1. cs[c] = halted[c]
      BY <2>8
    <3>2. NoneRevived
      BY RegisterIsSteadyBut DEF SteadyBut
    <3>3. ~Live(c)'
      BY <2>8, <3>2 DEF NoneRevived, Live
    <3> HIDE DEF cs
    <3>4. \A b \in Actions : channels'[c].carried[b] \in {channels[c].carried[b], 0}
      BY <1>2, <2>6, <2>7, <3>1 DEF BoundChannels
    <3> QED
      BY <1>1, <2>4, <2>3, <2>5, <3>3, <3>4 DEF FenceLeads
  <2>9. CASE channels[c].state # "unknown"
    <3>1. /\ cs[c].carried[a] = g
          /\ \A b \in Actions \ {a} : cs[c].carried[b] = channels[c].carried[b]
      <4>1. channels[c].carried[a] <= g
        BY <1>1, <2>1 DEF FenceLeads
      <4>2. halted[c] \in Channel /\ halted[c].carried \in [Actions -> Generations \cup {0}]
        BY <2>7 DEF Channel
      <4> DEFINE newer == IF halted[c].carried[a] < g THEN g ELSE halted[c].carried[a]
      <4>3. cs[c].carried = [halted[c].carried EXCEPT ![a] = newer]
        BY <2>7, <2>9, <4>2 DEF Channel
      <4>4. newer = g
        BY <1>1, <2>7, <4>1
      <4> QED
        BY <1>1, <2>7, <4>2, <4>3, <4>4
    <3>2. channels'[c] = cs[c] \/ channels'[c] = UnknownChannel
      BY <2>6 DEF BoundChannels
    <3> HIDE DEF cs
    <3>3. Live(c)' => channels'[c].carried[a] = g
      BY <3>1, <3>2 DEF Live, UnknownChannel
    <3>4. \A b \in Actions : channels'[c].carried[b] <= fences'[b].generation
      BY <1>1, <1>2, <2>3, <2>4, <3>1, <3>2 DEF FenceLeads
    <3> QED
      BY <1>1, <2>4, <2>3, <2>5, <3>3, <3>4 DEF FenceLeads, a, g
  <2> QED
    BY <2>8, <2>9
<1> QED
  BY <1>3, <1>4 DEF Register

(* Every other operation leaves the fences and only forgets.               *)
LEMMA OpeningIsCarried ==
    ASSUME RecordsTypeOK, NEW c \in Channels, OpenChannel(c)
    PROVE  /\ UNCHANGED fences
           /\ \A d \in Channels : \/ channels'[d].carried = channels[d].carried
                                 \/ channels'[d] = UnknownChannel
<1> DEFINE cs == [channels EXCEPT ![c].state = "live"]
<1>1. BoundChannels(cs, stopped) /\ UNCHANGED fences
  BY DEF OpenChannel
<1>2. \A d \in Channels : cs[d].carried = channels[d].carried
  BY DEF RecordsTypeOK, Channel
<1> HIDE DEF cs
<1> QED
  BY <1>1, <1>2 DEF BoundChannels

LEMMA LedgerStepLeads ==
    ASSUME RecordsTypeOK, FencesSuffice, FenceLeads, [LedgerNext]_ledgerVars
    PROVE  FenceLeads'
<1>1. ASSUME UNCHANGED fences,
             \A d \in Channels : \/ channels'[d].carried = channels[d].carried
                               \/ channels'[d] = UnknownChannel
      PROVE  FenceLeads'
  <2>1. \A a \in Actions : fences[a].generation \in Nat /\ UnknownChannel.carried[a] = 0
    BY GenerationsAreNumbers DEF RecordsTypeOK, Fence, UnknownChannel
  <2> QED
    BY <1>1, <2>1 DEF FenceLeads
<1>2. Steady /\ UNCHANGED fences => FenceLeads'
  BY <1>1 DEF Steady, Stays
<1>3. CASE UNCHANGED ledgerVars
  BY <1>3 DEF ledgerVars, FenceLeads
<1>4. CASE LedgerNext
  <2>1. PICK c \in Channels :
           \/ OpenChannel(c)
           \/ EndChannel(c)
           \/ \E owner \in Owners : Register(c, owner)
           \/ \E i \in Ids : FrameOperation(c, i)
    BY <1>4 DEF LedgerNext
  <2>2. CASE OpenChannel(c)
    BY <1>1, <2>2, OpeningIsCarried
  <2>3. CASE EndChannel(c)
    BY <1>2, <2>3, OperationsAreSteady DEF EndChannel
  <2>4. CASE \E owner \in Owners : Register(c, owner)
    BY <2>4, RegisterLeads
  <2>5. CASE \E i \in Ids : FrameOperation(c, i)
    <3>1. PICK i \in Ids : FrameOperation(c, i)
      BY <2>5
    <3>2. Steady
      BY <3>1, OperationsAreSteady DEF FrameOperation
    <3>3. UNCHANGED fences
      BY <3>1 DEF FrameOperation, ReceiveOther, ReceiveSequence, Start, NotStarted, Settle,
         Retain, SetResult, ledgerVars
    <3> QED
      BY <1>2, <3>2, <3>3
  <2> QED
    BY <2>1, <2>2, <2>3, <2>4, <2>5
<1> QED
  BY <1>3, <1>4

(* A frame that is prepared on a live channel is one whose owner the       *)
(* channel carries: any newer owner would have stopped the channel.        *)
Admitted ==
    \A c \in Channels :
        phase[c] = "preparing" /\ Live(c) /\ frame[c].owner # NoOwner
            => channels[c].carried[frame[c].owner.action] = frame[c].owner.generation

LEMMA AdmittedStays ==
    ASSUME Admitted, NEW d \in Channels, Stays(d),
           phase'[d] = "preparing", phase[d] = "preparing", frame'[d] = frame[d],
           Live(d)', frame'[d].owner # NoOwner
    PROVE  channels'[d].carried[frame'[d].owner.action] = frame'[d].owner.generation
<1>1. /\ channels'[d].carried = channels[d].carried
      /\ Live(d)
  BY DEF Stays, Live, UnknownChannel
<1> QED
  BY <1>1 DEF Admitted

(* Each step of a task is its own: no other task or frame moves.           *)
LEMMA OthersKeepTheirFrames ==
    ASSUME FramesFit, NEW c \in Channels, Environment(c) \/ Endpoint(c), NEW d \in Channels \ {c}
    PROVE  phase'[d] = phase[d] /\ frame'[d] = frame[d]
<1>1. \/ \E next : phase' = [phase EXCEPT ![c] = next]
      \/ phase' = phase
  BY DEF Environment, Arrive, ArriveGarbled, Close, ReplyFails, Endpoint, TakeFrame,
     TakeGarbled, TakeRefused, TakeHello, TakeSequence, TakeOpStatus, Take, Hello, RefuseHello,
     OpenHello, ReceiveHello, RegisterHello, EndFencedHello, Establish, Sequence,
     RefuseSecondSequence, AdmitSequence, RefuseFencedSequence, RejectSteps, StartSequence,
     NextStep, LastStep, BeginStep, EndStep, QueueLandingRead, LandWithoutRead, ReadLanding,
     FinishSequence, SettleSequence, OpStatus, ReceiveOpStatus, RegisterAsker, AnswerOpStatus,
     RetainResult, Reply, EndOfConnection, Drained, EndSession, EndUnopened, QueueRelease,
     Release, GiveBack, Queue, Process, Go
<1>2. \/ \E r : frame' = [frame EXCEPT ![c] = r]
      \/ \E left : frame' = [frame EXCEPT ![c].steps = left]
      \/ frame' = frame
  BY DEF Environment, Arrive, ArriveGarbled, Close, ReplyFails, Endpoint, TakeFrame,
     TakeGarbled, TakeRefused, TakeHello, TakeSequence, TakeOpStatus, Take, Hello, RefuseHello,
     OpenHello, ReceiveHello, RegisterHello, EndFencedHello, Establish, Sequence,
     RefuseSecondSequence, AdmitSequence, RefuseFencedSequence, RejectSteps, StartSequence,
     NextStep, LastStep, BeginStep, EndStep, QueueLandingRead, LandWithoutRead, ReadLanding,
     FinishSequence, SettleSequence, OpStatus, ReceiveOpStatus, RegisterAsker, AnswerOpStatus,
     RetainResult, Reply, EndOfConnection, Drained, EndSession, EndUnopened, QueueRelease,
     Release, GiveBack, Queue, Process
<1> QED
  BY <1>1, <1>2 DEF FramesFit

(* Only an admission begins a preparation.                                 *)
LEMMA OnlyAdmissionPrepares ==
    ASSUME FramesFit, NEW c \in Channels, Environment(c) \/ Endpoint(c), ~AdmitSequence(c),
           phase'[c] = "preparing"
    PROVE  /\ Arrive(c) \/ ArriveGarbled(c) \/ Close(c)
           /\ phase[c] = "preparing" /\ frame'[c] = frame[c]
<1>1. \A next : Go(c, next) => next = "preparing"
  BY DEF Go, FramesFit
<1>2. ~ReplyFails(c) /\ ~TakeFrame(c) /\ ~Hello(c)
  BY <1>1 DEF ReplyFails, TakeFrame, TakeGarbled, TakeRefused, TakeHello, TakeSequence,
     TakeOpStatus, Take, Hello, RefuseHello, OpenHello, ReceiveHello, RegisterHello,
     EndFencedHello, Establish, Process
<1>3. ~Sequence(c)
  BY <1>1 DEF Sequence, RefuseSecondSequence, RefuseFencedSequence, RejectSteps, StartSequence,
     NextStep, LastStep, BeginStep, EndStep, QueueLandingRead, LandWithoutRead, ReadLanding,
     FinishSequence, SettleSequence, GiveBack, Queue, Process
<1>4. ~OpStatus(c) /\ ~Reply(c) /\ ~EndOfConnection(c)
  BY <1>1 DEF OpStatus, ReceiveOpStatus, RegisterAsker, AnswerOpStatus, RetainResult, Reply,
     EndOfConnection, Drained, EndSession, EndUnopened, QueueRelease, Release, Queue, Process
<1>5. Arrive(c) \/ ArriveGarbled(c) \/ Close(c)
  BY <1>2, <1>3, <1>4 DEF Environment, Endpoint
<1> QED
  BY <1>5 DEF Arrive, ArriveGarbled, Close

(* An admitted owner is what its channel carries.                          *)
LEMMA AdmissionAdmits ==
    ASSUME FramesFit, RecordsTypeOK, FencesSuffice, FenceLeads, NEW c \in Channels,
           AdmitSequence(c), phase'[c] = "preparing", frame[c].owner # NoOwner, Live(c)'
    PROVE  /\ frame'[c] = frame[c]
           /\ channels'[c].carried[frame[c].owner.action] = frame[c].owner.generation
<1>1. /\ Process(c, "admitting", IF Fenced(frame[c].owner) THEN "fenced" ELSE "preparing")
      /\ Register(c, frame[c].owner)
  BY DEF AdmitSequence
<1>2. phase[c] = "admitting" /\ frame' = frame
      /\ phase' = [phase EXCEPT ![c] = IF Fenced(frame[c].owner) THEN "fenced" ELSE "preparing"]
  BY <1>1 DEF Process, Go
<1>3. ~Fenced(frame[c].owner)
  BY <1>2 DEF FramesFit
<1>4. frame[c].owner \in Owners
  BY <1>2, FrameInTurn DEF Working, SequencePhases
<1> QED
  BY <1>1, <1>2, <1>3, <1>4, RegisterLeads

LEMMA StepsKeepAdmitted ==
    ASSUME FramesFit, RecordsTypeOK, FencesSuffice, FenceLeads, Admitted,
           NEW c \in Channels, Environment(c) \/ Endpoint(c)
    PROVE  Admitted'
<1> SUFFICES ASSUME NEW d \in Channels, phase'[d] = "preparing", Live(d)',
                    frame'[d].owner # NoOwner
             PROVE  channels'[d].carried[frame'[d].owner.action] = frame'[d].owner.generation
  BY DEF Admitted
<1>1. CASE d # c
  <2>1. phase'[d] = phase[d] /\ frame'[d] = frame[d]
    BY <1>1, OthersKeepTheirFrames
  <2>2. CASE OpenHello(c)
    <3>1. \/ channels'[d] = channels[d]
          \/ channels'[d] = UnknownChannel
      BY <1>1, <2>2 DEF OpenHello, OpenChannel, BoundChannels, RecordsTypeOK
    <3> QED
      BY <2>1, <3>1, AdmittedStays DEF Stays
  <2>3. CASE ~OpenHello(c)
    BY <1>1, <2>1, <2>3, StepsAreSteadyBut, AdmittedStays DEF SteadyBut
  <2> QED
    BY <2>2, <2>3
<1>2. CASE d = c /\ AdmitSequence(c)
  <2>1. frame' = frame
    BY <1>2 DEF AdmitSequence, Process
  <2> QED
    BY <1>2, <2>1, AdmissionAdmits
<1>3. CASE d = c /\ ~AdmitSequence(c)
  <2>1. /\ Arrive(c) \/ ArriveGarbled(c) \/ Close(c)
        /\ phase[c] = "preparing" /\ frame'[c] = frame[c]
    BY <1>3, OnlyAdmissionPrepares
  <2> QED
    BY <1>3, <2>1, ArrivalsAreSteady, AdmittedStays DEF Steady
<1> QED
  BY <1>1, <1>2, <1>3

(* Fencing, as far as the frame, with room for every fence: no sequence    *)
(* starts under an owner older than one the daemon has seen, whatever is   *)
(* registered while its steps are prepared.                                *)
THEOREM FencedFramesNeverStart == FencesSuffice => (Spec => FencedFramesDoNotStart)
<1> SUFFICES ASSUME FencesSuffice
             PROVE  Spec => FencedFramesDoNotStart
  OBVIOUS
<1>1. Init => FenceLeads /\ Admitted
  BY DEF Init, LedgerInit, FenceLeads, Admitted, UnknownChannel, NoFence
<1>2. LedgerInvariant => RecordsTypeOK
  BY DEF LedgerInvariant
<1>3. FramesFit /\ RecordsTypeOK /\ FenceLeads /\ Admitted /\ [Next]_vars
        => FenceLeads' /\ Admitted'
  <2> SUFFICES ASSUME FramesFit, RecordsTypeOK, FenceLeads, Admitted, [Next]_vars
               PROVE  FenceLeads' /\ Admitted'
    OBVIOUS
  <2>1. CASE UNCHANGED vars
    BY <2>1 DEF vars, channelVars, ledgerVars, FenceLeads, Admitted, Live
  <2>2. CASE Next
    <3>1. FenceLeads'
      BY <2>2, NextRegular, LedgerStepLeads DEF Regular
    <3> QED
      BY <2>2, <3>1, StepsKeepAdmitted DEF Next
  <2> QED
    BY <2>1, <2>2
<1>4. LedgerInvariant /\ FramesFit /\ Admitted /\ [Next]_vars
        => [\A c \in Channels :
               ( /\ phase[c] = "preparing" /\ phase'[c] = "stepping"
                 /\ frame[c].owner # NoOwner )
               => ~Fenced(frame[c].owner)]_vars
  <2> SUFFICES ASSUME LedgerInvariant, FramesFit, Admitted, Next,
                      NEW c \in Channels, phase[c] = "preparing", phase'[c] = "stepping",
                      frame[c].owner # NoOwner
               PROVE  ~Fenced(frame[c].owner)
    OBVIOUS
  <2>1. Live(c)
    <3>1. PICK d \in Channels : Environment(d) \/ Endpoint(d)
      BY DEF Next
    <3>2. d = c
      BY <3>1, OthersKeepTheirFrames
    <3>3. \A next : Go(c, next) => next = "stepping"
      BY DEF Go, FramesFit
    <3>4. StartSequence(c)
      BY <3>1, <3>2, <3>3 DEF Environment, Arrive, ArriveGarbled, Close, ReplyFails, Endpoint,
         TakeFrame, TakeGarbled, TakeRefused, TakeHello, TakeSequence, TakeOpStatus, Taking,
         Hello, RefuseHello, OpenHello, ReceiveHello, RegisterHello, EndFencedHello, Establish,
         Sequence, RefuseSecondSequence, AdmitSequence, RefuseFencedSequence, RejectSteps,
         NextStep, LastStep, BeginStep, EndStep, QueueLandingRead, LandWithoutRead, ReadLanding,
         FinishSequence, SettleSequence, OpStatus, ReceiveOpStatus, RegisterAsker,
         AnswerOpStatus, RetainResult, Reply, EndOfConnection, Drained, EndSession, EndUnopened,
         QueueRelease, Release, GiveBack, Queue, Process
    <3> QED
      BY <3>3, <3>4 DEF StartSequence, Process
  <2>2. frame[c].owner \in Owners
    BY FrameInTurn DEF Working, SequencePhases
  <2> DEFINE o == frame[c].owner
  <2>3. channels[c].carried[o.action] = o.generation
    BY <2>1 DEF Admitted
  <2>4. o.action \in Actions /\ o.generation \in Nat /\ o.generation > 0
    BY <2>2, GenerationsAreNumbers DEF Owners
  <2>5. o.generation >= fences[o.action].generation
    BY <2>1, <2>3, <2>4 DEF LedgerInvariant, LiveChannelsHoldTheFence
  <2>6. fences[o.action].generation \in Nat
    BY <2>4, GenerationsAreNumbers DEF LedgerInvariant, RecordsTypeOK, Fence
  <2> QED
    BY <2>4, <2>5, <2>6 DEF Fenced
<1> QED
  BY <1>1, <1>2, <1>3, <1>4, FramesAlwaysFit, TheLedgerIsSoundInTheDaemon, PTL
     DEF Spec, FencedFramesDoNotStart

-----------------------------------------------------------------------------
(* What a step is to the frames of the ledger.                             *)

EarlyPhases == {"admitting", "fenced", "preparing"}

(* A frame is neither taken up nor let go of by a step between these.      *)
SameStage(p, q) ==
    /\ p \in EarlyPhases <=> q \in EarlyPhases
    /\ p \in StepPhases <=> q \in StepPhases

LineIsRecorded(c) ==
    \E r \in Usable :
        /\ Receives(c, r)
        /\ UNCHANGED <<session, begun>>
        /\ \/ r.kind = "garbled" /\ sent' = sent /\ \A f \in Frames : Ages(f)
           \/ /\ r.kind # "garbled" /\ r.id = sent[c] + 1
              /\ sent' = [sent EXCEPT ![c] = r.id]
              /\ OthersAge(<<c, r.id>>)
              /\ \/ Ages(<<c, r.id>>)
                 \/ /\ session[c] /\ IsSequence(r)
                    /\ \/ entries'[<<c, r.id>>].state = "queued" /\ ~r.refused /\ Live(c)
                       \/ Becomes(<<c, r.id>>, "not_started") /\ (r.refused \/ ~Live(c))

FrameIsTaken(c) ==
    LET r == Head(inbox[c])
    IN  /\ Taking(c)
        /\ \E next :
              /\ Take(c, next)
              /\ \/ /\ next \notin EarlyPhases \cup StepPhases
                    /\ IsSequence(r) => ~session[c]
                    /\ \A f \in Frames : Ages(f)
                 \/ /\ next \notin EarlyPhases \cup StepPhases
                    /\ IsSequence(r) /\ session[c]
                    /\ OthersAge(<<c, r.id>>) /\ Becomes(<<c, r.id>>, "not_started")
                 \/ /\ next = "admitting" /\ r.kind = "sequence" /\ session[c]
                    /\ IsRecorded(<<c, r.id>>)
                    /\ \A f \in Frames : Ages(f)

(* The frame in turn is refused before any step, starts, or is settled.    *)
Moves(c, next) ==
    Go(c, next) /\ UNCHANGED <<inbox, frame, sent, session, begun>>

FrameIsTurnedAway(c) ==
    /\ phase[c] \in EarlyPhases /\ Moves(c, "replying")
    /\ OthersAge(Current(c)) /\ Becomes(Current(c), "not_started")

FrameIsStarted(c) ==
    /\ phase[c] = "preparing" /\ Live(c) /\ Moves(c, "stepping")
    /\ OthersAge(Current(c)) /\ entries'[Current(c)].state = "running"

FrameIsSettled(c) ==
    /\ phase[c] = "settling" /\ Moves(c, "replying")
    /\ OthersAge(Current(c))
    /\ entries[Current(c)].state # "none" => Becomes(Current(c), "settled")

(* Everything else: frames only age, and a step may begin.                 *)
FramesRest(c) ==
    /\ UNCHANGED <<inbox, sent>>
    /\ KeepsFrame(c)
    /\ session' \in {session, [session EXCEPT ![c] = TRUE]}
    /\ \/ phase' = phase
       \/ \E next : /\ Go(c, next) /\ SameStage(phase[c], next)
                    /\ next \in {"fenced", "preparing"} => ~frame[c].refused
    /\ begun' = begun \/ (phase[c] = "waiting" /\ begun' = begun \cup {Current(c)})
    /\ \A f \in Frames : Ages(f)

(* The stages of a sequence.                                               *)
LEMMA StagesApart ==
    /\ EarlyPhases \cap StepPhases = {}
    /\ SequencePhases = EarlyPhases \cup StepPhases
    /\ \A p \in HelloPhases \cup AskPhases \cup EndPhases \cup {"replying", "idle", "accepted"} :
          p \notin EarlyPhases \cup StepPhases
BY DEF EarlyPhases, StepPhases, SequencePhases, HelloPhases, AskPhases, EndPhases

(* The arrival of a line reaches the ledger as it is read.                 *)
LEMMA ArrivalIsRecorded ==
    ASSUME FramesFit, RecordsTypeOK, NEW c \in Channels, Arrive(c) \/ ArriveGarbled(c)
    PROVE  LineIsRecorded(c)
<1>1. CASE Arrive(c)
  <2>0. PICK id \in Ids : \E r \in Requests[c][id] :
         LET refused == IsSequence(r) /\ unanswered[c] > 0
         IN  /\ r.kind # "garbled"
             /\ id = sent[c] + 1
             /\ sent' = [sent EXCEPT ![c] = id]
             /\ inbox' = [inbox EXCEPT ![c] = Append(@, Received(r, id, refused))]
             /\ UNCHANGED <<phase, frame, session, begun>>
             /\ IF ~session[c] THEN UNCHANGED ledgerVars
                ELSE IF IsSequence(r) THEN ReceiveSequence(c, id, r.owner.action, refused)
                ELSE ReceiveOther(c, id)
    BY <1>1 DEF Arrive, history
  <2>1. PICK r \in Requests[c][id] :
         LET refused == IsSequence(r) /\ unanswered[c] > 0
         IN  /\ r.kind # "garbled"
             /\ id = sent[c] + 1
             /\ sent' = [sent EXCEPT ![c] = id]
             /\ inbox' = [inbox EXCEPT ![c] = Append(@, Received(r, id, refused))]
             /\ UNCHANGED <<phase, frame, session, begun>>
             /\ IF ~session[c] THEN UNCHANGED ledgerVars
                ELSE IF IsSequence(r) THEN ReceiveSequence(c, id, r.owner.action, refused)
                ELSE ReceiveOther(c, id)
    BY <2>0
  <2> DEFINE refused == IsSequence(r) /\ unanswered[c] > 0
             line == Received(r, id, refused)
  <2>2. r \in Request /\ (r.kind = "op_status" => r.owner # NoOwner)
    BY RequestsAssumption
  <2>3. line \in Usable
    BY <2>2, ReceivedIsUsable
  <2>4. line.id = id /\ line.kind = r.kind /\ line.refused = refused
    BY DEF Received
  <2>5. IsSequence(line) = IsSequence(r)
    BY <2>4 DEF IsSequence
  <2>6. /\ Receives(c, line) /\ UNCHANGED <<session, begun>>
        /\ line.kind # "garbled" /\ line.id = sent[c] + 1
        /\ sent' = [sent EXCEPT ![c] = line.id]
    BY <2>1, <2>4 DEF Receives
  <2>7. r.owner.action \in Actions \cup {NoAction}
    <3>1. r.owner \in Owners \cup {NoOwner}
      BY <2>2 DEF Request
    <3> QED
      BY <3>1 DEF Owners, NoOwner
  <2> HIDE DEF line, refused
  <2>8. \/ UNCHANGED entries
        \/ /\ session[c] /\ IsSequence(r)
           /\ ReceiveSequence(c, id, r.owner.action, refused)
    BY <2>1 DEF refused, ledgerVars, ReceiveOther
  <2>9. CASE UNCHANGED entries
    <3>1. OthersAge(<<c, line.id>>) /\ Ages(<<c, line.id>>)
      BY <2>9 DEF OthersAge, Ages
    <3> QED
      BY <2>3, <2>6, <3>1 DEF LineIsRecorded
  <2>10. CASE /\ session[c] /\ IsSequence(r)
              /\ ReceiveSequence(c, id, r.owner.action, refused)
    <3>1. /\ OthersAge(<<c, line.id>>)
          /\ \/ Ages(<<c, line.id>>)
             \/ entries'[<<c, line.id>>].state = "queued" /\ ~line.refused /\ Live(c)
             \/ Becomes(<<c, line.id>>, "not_started") /\ (line.refused \/ ~Live(c))
      BY <2>4, <2>7, <2>10, ReceivingAges
    <3> QED
      BY <2>3, <2>5, <2>6, <2>10, <3>1 DEF LineIsRecorded
  <2> QED
    BY <2>8, <2>9, <2>10
<1>2. CASE ArriveGarbled(c)
  <2>0. PICK id \in Ids : \E r \in Requests[c][id] :
           /\ r.kind = "garbled"
           /\ inbox' = [inbox EXCEPT ![c] = Append(@, Received(r, 0, FALSE))]
           /\ UNCHANGED <<ledgerVars, phase, frame, sent, session, begun>>
    BY <1>2 DEF ArriveGarbled, history
  <2>1. PICK r \in Requests[c][id] :
           /\ r.kind = "garbled"
           /\ inbox' = [inbox EXCEPT ![c] = Append(@, Received(r, 0, FALSE))]
           /\ UNCHANGED <<ledgerVars, phase, frame, sent, session, begun>>
    BY <2>0
  <2> DEFINE line == Received(r, 0, FALSE)
  <2>2. r \in Request /\ (r.kind = "op_status" => r.owner # NoOwner)
    BY RequestsAssumption
  <2>3. line \in Usable
    BY <2>1, <2>2, ReceivedIsUsable
  <2>4. line.kind = "garbled"
    BY <2>1 DEF Received
  <2>5. Receives(c, line)
    BY <2>1 DEF Receives
  <2>6. \A f \in Frames : Ages(f)
    BY <2>1, QuietEntriesAge
  <2> HIDE DEF line
  <2> QED
    BY <2>1, <2>3, <2>4, <2>5, <2>6 DEF LineIsRecorded
<1> QED
  BY <1>1, <1>2

(* A line that is taken is refused, or is admitted with its arrival on     *)
(* record.                                                                 *)
LEMMA TakingTakes ==
    ASSUME FramesFit, RecordsTypeOK, NEW c \in Channels, TakeFrame(c)
    PROVE  FrameIsTaken(c)
<1> DEFINE r == Head(inbox[c])
<1>1. Taking(c)
  BY DEF TakeFrame, TakeGarbled, TakeRefused, TakeHello, TakeSequence, TakeOpStatus
<1>2. r \in Usable
  BY <1>1, HeadTailProperties DEF Taking, FramesFit
<1>3. /\ r.kind # "garbled" => r.id \in Ids
      /\ r.owner.action \in Actions \cup {NoAction}
      /\ r.kind = "op_status" => r.owner \in Owners
  BY <1>2, OwnerOfAFrame DEF Usable
<1>4. \A p \in {"ending", "replying", "hello", "ask_receives"} :
          p \notin EarlyPhases \cup StepPhases
  BY DEF EarlyPhases, StepPhases
<1> HIDE DEF r
<1>5. ASSUME NEW next \in {"ending", "replying", "hello", "ask_receives"}, Take(c, next),
             IsSequence(r) => ~session[c], \A f \in Frames : Ages(f)
      PROVE  FrameIsTaken(c)
  BY <1>1, <1>4, <1>5 DEF FrameIsTaken, r
<1>6. CASE TakeGarbled(c) \/ TakeHello(c)
  <2>1. r.kind \in {"garbled", "hello"} /\ UNCHANGED ledgerVars
        /\ (Take(c, "ending") \/ Take(c, "hello"))
    BY <1>6 DEF TakeGarbled, TakeHello, r
  <2> QED
    BY <1>5, <2>1, QuietEntriesAge DEF IsSequence
<1>7. CASE TakeOpStatus(c)
  <2>1. r.kind = "op_status" /\ Take(c, "ask_receives") /\ Register(c, r.owner)
    BY <1>7 DEF TakeOpStatus, r
  <2> QED
    BY <1>3, <1>5, <2>1, RegisteringAges DEF IsSequence
<1>8. CASE TakeSequence(c)
  <2>1. r.kind = "sequence" /\ session[c] /\ Take(c, "admitting") /\ ReceiveOther(c, r.id)
    BY <1>8 DEF TakeSequence, r
  <2>2. IsRecorded(<<c, r.id>>)
    <3>1. r.id \in Ids /\ ReceiveOther(c, r.id)
      BY <1>3, <2>1
    <3> QED
      BY <3>1, FrameOperationsRecall
  <2>3. \A f \in Frames : Ages(f)
    BY <2>1, QuietEntriesAge DEF ReceiveOther
  <2> QED
    BY <1>1, <2>1, <2>2, <2>3 DEF FrameIsTaken, r
<1>9. CASE TakeRefused(c)
  <2>1. /\ Take(c, "replying")
        /\ \/ r.kind = "hello" /\ session[c]
           \/ r.kind \in {"sequence", "op_status"} /\ ~session[c]
           \/ r.kind = "invalid"
        /\ IF r.kind = "invalid" /\ session[c]
             THEN NotStarted(c, r.id, r.owner.action)
             ELSE UNCHANGED ledgerVars
    BY <1>9 DEF TakeRefused, r
  <2>2. CASE r.kind = "invalid" /\ session[c]
    <3>1. OthersAge(<<c, r.id>>) /\ Becomes(<<c, r.id>>, "not_started")
      BY <1>3, <2>1, <2>2, NotStartingAges
    <3>2. IsSequence(r)
      BY <2>2 DEF IsSequence
    <3> QED
      BY <1>1, <1>4, <2>1, <2>2, <3>1, <3>2 DEF FrameIsTaken, r
  <2>3. CASE ~(r.kind = "invalid" /\ session[c])
    <3>1. UNCHANGED ledgerVars /\ (IsSequence(r) => ~session[c])
      BY <2>1, <2>3 DEF IsSequence
    <3> QED
      BY <1>5, <2>1, <3>1, QuietEntriesAge
  <2> QED
    BY <2>2, <2>3
<1> QED
  BY <1>6, <1>7, <1>8, <1>9 DEF TakeFrame

(* A task works on in the same stage.                                      *)
LEMMA WorkRests ==
    ASSUME NEW c \in Channels, NEW next, Go(c, next), SameStage(phase[c], next),
           next \notin {"fenced", "preparing"} \/ ~frame[c].refused,
           UNCHANGED <<inbox, frame, sent, session, begun>>, \A f \in Frames : Ages(f)
    PROVE  FramesRest(c)
BY DEF FramesRest, KeepsFrame

(* A task that works on within a stage leaves the frames at rest.          *)
LEMMA ProcessStaysInStage ==
    ASSUME NEW c \in Channels, NEW from, NEW next, SameStage(from, next),
           next \notin {"fenced", "preparing"} \/ ~frame[c].refused,
           Process(c, from, next) \/ GiveBack(c, from, next) \/ Queue(c, from, next),
           \A f \in Frames : Ages(f)
    PROVE  FramesRest(c)
BY WorkRests DEF Process, GiveBack, Queue, history

(* The phases no frame starts or ends between.                             *)
LEMMA SameStages ==
    /\ \A p, q \in HelloPhases \cup AskPhases \cup EndPhases \cup {"replying", "idle", "accepted"} :
          SameStage(p, q) /\ q \notin {"fenced", "preparing"}
    /\ \A p, q \in StepPhases : SameStage(p, q) /\ q \notin {"fenced", "preparing"}
    /\ \A p, q \in EarlyPhases : SameStage(p, q)
BY StagesApart DEF SameStage, EarlyPhases

(* A hello starts and ends no frame.                                       *)
LEMMA HelloRestsFrames ==
    ASSUME FramesFit, RecordsTypeOK, NEW c \in Channels, Hello(c)
    PROVE  FramesRest(c)
<1>1. {"hello", "hello_receives", "hello_registers", "hello_ends", "hello_done"} = HelloPhases
  BY DEF HelloPhases
<1>2. \A p, q \in HelloPhases \cup {"replying"} :
          SameStage(p, q) /\ q \notin {"fenced", "preparing"}
  BY SameStages
<1>3. CASE Establish(c)
  <2>1. /\ phase[c] = "hello_done" /\ Go(c, "replying")
        /\ session' = [session EXCEPT ![c] = TRUE]
        /\ UNCHANGED <<ledgerVars, inbox, frame, sent, begun>>
    BY <1>3 DEF Establish, history
  <2>2. SameStage(phase[c], "replying") /\ "replying" \notin {"fenced", "preparing"}
    BY <1>1, <1>2, <2>1
  <2>3. \A f \in Frames : Ages(f)
    BY <2>1, QuietEntriesAge
  <2> QED
    BY <2>1, <2>2, <2>3 DEF FramesRest, KeepsFrame
<1>4. CASE ~Establish(c)
  <2>1. \E from, next \in HelloPhases \cup {"replying"} : Process(c, from, next)
    BY <1>1, <1>4 DEF Hello, RefuseHello, OpenHello, ReceiveHello, RegisterHello,
       EndFencedHello
  <2>2. \A f \in Frames : Ages(f)
    <3>1. CASE RefuseHello(c) \/ OpenHello(c) \/ ReceiveHello(c)
      BY <3>1, QuietEntriesAge DEF RefuseHello, OpenHello, OpenChannel, ReceiveHello, ReceiveOther
    <3>2. CASE RegisterHello(c)
      <4>1. phase[c] = "hello_registers" /\ Register(c, frame[c].owner)
        BY <3>2 DEF RegisterHello, Process
      <4>2. frame[c].owner \in Owners
        BY <4>1, FrameInTurn DEF FramesFit, Fits, Working, HelloPhases
      <4> QED
        BY <4>1, <4>2, RegisteringAges
    <3>3. CASE EndFencedHello(c)
      BY <3>3, EndingAges DEF EndFencedHello
    <3> QED
      BY <1>4, <3>1, <3>2, <3>3 DEF Hello
  <2> QED
    BY <1>2, <2>1, <2>2, ProcessStaysInStage
<1> QED
  BY <1>3, <1>4

(* A status request starts and ends no frame.                              *)
LEMMA OpStatusRestsFrames ==
    ASSUME FramesFit, RecordsTypeOK, NEW c \in Channels, OpStatus(c)
    PROVE  FramesRest(c)
<1>1. {"ask_receives", "ask_registers", "asking", "retaining"} = AskPhases
  BY DEF AskPhases
<1>2. \A p, q \in AskPhases \cup {"replying"} :
          SameStage(p, q) /\ q \notin {"fenced", "preparing"}
  BY SameStages
<1>3. phase[c] \in AskPhases /\ phase[c] \in Working
  BY DEF OpStatus, ReceiveOpStatus, RegisterAsker, AnswerOpStatus, RetainResult, Process,
         AskPhases, Working
<1>4. frame[c].owner \in Owners /\ frame[c].of \in Frames
  BY <1>3, FrameInTurn
<1>5. CASE AnswerOpStatus(c)
  <2>1. /\ phase[c] = "asking" /\ (Go(c, "replying") \/ Go(c, "retaining"))
        /\ UNCHANGED <<ledgerVars, inbox, frame, sent, session, begun>>
    BY <1>5 DEF AnswerOpStatus
  <2> QED
    BY <1>1, <1>2, <2>1, QuietEntriesAge, WorkRests
<1>6. CASE ~AnswerOpStatus(c)
  <2>1. \E from, next \in AskPhases \cup {"replying"} : Process(c, from, next)
    BY <1>1, <1>6 DEF OpStatus, ReceiveOpStatus, RegisterAsker, RetainResult
  <2>2. \A f \in Frames : Ages(f)
    <3>1. CASE ReceiveOpStatus(c)
      BY <3>1, QuietEntriesAge DEF ReceiveOpStatus, ReceiveOther
    <3>2. CASE RegisterAsker(c)
      BY <1>4, <3>2, RegisteringAges DEF RegisterAsker
    <3>3. CASE RetainResult(c)
      BY <1>4, <3>3, RetainingAges, QuietEntriesAge DEF RetainResult
    <3> QED
      BY <1>6, <3>1, <3>2, <3>3 DEF OpStatus
  <2> QED
    BY <1>2, <2>1, <2>2, ProcessStaysInStage
<1> QED
  BY <1>5, <1>6

(* The end of a connection starts no frame; what waits is turned by the    *)
(* ledger.                                                                 *)
LEMMA EndRestsFrames ==
    ASSUME RecordsTypeOK, NEW c \in Channels,
           EndOfConnection(c) \/ Reply(c) \/ ReplyFails(c) \/ Close(c)
    PROVE  FramesRest(c)
<1>1. {"ending", "ended", "releasing", "gone"} = EndPhases
  BY DEF EndPhases
<1>2. \A p, q \in EndPhases \cup {"replying", "idle", "accepted"} :
          SameStage(p, q) /\ q \notin {"fenced", "preparing"}
  BY SameStages
<1>3. \A f \in Frames : Ages(f)
  BY QuietEntriesAge, EndingAges DEF EndOfConnection, Drained, EndSession, EndUnopened,
     QueueRelease, Release, Reply, ReplyFails, Close
<1>4. CASE Close(c)
  BY <1>3, <1>4 DEF Close, FramesRest, KeepsFrame, history
<1>5. CASE EndOfConnection(c) \/ Reply(c) \/ ReplyFails(c)
  <2>1. /\ phase[c] \in EndPhases \cup {"replying", "idle", "accepted"}
        /\ \E next \in EndPhases \cup {"idle"} : Go(c, next)
        /\ UNCHANGED <<inbox, frame, sent, session, begun>>
    BY <1>1, <1>5 DEF EndOfConnection, Drained, EndSession, EndUnopened, QueueRelease, Release,
       Reply, ReplyFails, Process, Queue, history
  <2> QED
    BY <1>2, <1>3, <2>1, WorkRests
<1> QED
  BY <1>4, <1>5

(* A step of a sequence turns it away, starts it, settles it or works on.  *)
LEMMA SequenceFrames ==
    ASSUME FramesFit, RecordsTypeOK, NEW c \in Channels, Sequence(c)
    PROVE  \/ FrameIsTurnedAway(c) \/ FrameIsStarted(c) \/ FrameIsSettled(c)
           \/ FramesRest(c)
<1>1. phase[c] \in Working
  BY DEF Sequence, RefuseSecondSequence, AdmitSequence, RefuseFencedSequence, RejectSteps,
         StartSequence, NextStep, LastStep, BeginStep, EndStep, QueueLandingRead,
         LandWithoutRead, ReadLanding, FinishSequence, SettleSequence, GiveBack, Queue,
         Process, Working, SequencePhases, StepPhases
<1>2. /\ frame[c].id \in Ids
      /\ frame[c].owner.action \in Actions \cup {NoAction}
      /\ frame[c].owner # NoOwner => frame[c].owner \in Owners
  BY <1>1, FrameInTurn
<1>3. \A from, next : Process(c, from, next) => phase[c] = from /\ Moves(c, next)
  BY DEF Process, Moves, history
<1>4. CASE RefuseSecondSequence(c) \/ RefuseFencedSequence(c) \/ RejectSteps(c)
  <2>1. RecordNotStarted(c) /\ \E from \in EarlyPhases : Process(c, from, "replying")
    BY <1>4 DEF RefuseSecondSequence, RefuseFencedSequence, RejectSteps, EarlyPhases
  <2>2. OthersAge(Current(c)) /\ Becomes(Current(c), "not_started")
    BY <1>2, <2>1, NotStartingAges DEF RecordNotStarted, Current
  <2> QED
    BY <1>3, <2>1, <2>2 DEF FrameIsTurnedAway
<1>5. CASE AdmitSequence(c)
  <2>1. ~frame[c].refused /\ \E next \in {"fenced", "preparing"} : Process(c, "admitting", next)
    BY <1>5 DEF AdmitSequence
  <2>2. \A next \in {"fenced", "preparing"} : SameStage("admitting", next)
    BY SameStages DEF EarlyPhases
  <2>3. UNCHANGED ledgerVars \/ (frame[c].owner # NoOwner /\ Register(c, frame[c].owner))
    BY <1>5 DEF AdmitSequence
  <2>4. \A f \in Frames : Ages(f)
    BY <1>2, <2>3, QuietEntriesAge, RegisteringAges
  <2> QED
    BY <2>1, <2>2, <2>4, ProcessStaysInStage
<1>6. CASE StartSequence(c)
  <2>1. /\ phase[c] = "preparing"
        /\ Moves(c, IF Live(c) THEN "stepping" ELSE "replying")
        /\ Start(c, frame[c].id, frame[c].owner.action)
    BY <1>3, <1>6 DEF StartSequence
  <2>2. /\ OthersAge(Current(c))
        /\ Live(c) => entries'[Current(c)].state = "running"
        /\ ~Live(c) => Becomes(Current(c), "not_started")
    BY <1>2, <2>1, StartingAges DEF Current
  <2>3. "preparing" \in EarlyPhases
    BY DEF EarlyPhases
  <2>4. CASE Live(c)
    BY <2>1, <2>2, <2>4 DEF FrameIsStarted
  <2>5. CASE ~Live(c)
    BY <2>1, <2>2, <2>3, <2>5 DEF FrameIsTurnedAway
  <2> QED
    BY <2>4, <2>5
<1>7. CASE SettleSequence(c)
  <2>1. /\ phase[c] = "settling" /\ Moves(c, "replying")
        /\ \E size \in Sizes : Settle(c, frame[c].id, size)
    BY <1>3, <1>7 DEF SettleSequence
  <2>2. /\ OthersAge(Current(c))
        /\ entries[Current(c)].state # "none" => Becomes(Current(c), "settled")
    BY <1>2, <2>1, SettlingAges DEF Current
  <2> QED
    BY <2>1, <2>2 DEF FrameIsSettled
<1>8. \A p, q \in StepPhases : SameStage(p, q) /\ q \notin {"fenced", "preparing"}
  BY SameStages
<1>9. {"stepping", "waiting", "running", "landing", "landed", "finishing", "settling"}
        = StepPhases
  BY DEF StepPhases
<1>10. CASE NextStep(c) \/ LastStep(c) \/ QueueLandingRead(c) \/ LandWithoutRead(c)
              \/ ReadLanding(c) \/ FinishSequence(c)
  <2>1. \E from, next \in StepPhases :
            Process(c, from, next) \/ GiveBack(c, from, next) \/ Queue(c, from, next)
    BY <1>9, <1>10 DEF NextStep, LastStep, QueueLandingRead, LandWithoutRead, ReadLanding,
       FinishSequence
  <2>2. \A f \in Frames : Ages(f)
    BY <1>10, QuietEntriesAge DEF NextStep, LastStep, QueueLandingRead, LandWithoutRead,
       ReadLanding, FinishSequence, GiveBack
  <2> QED
    BY <1>8, <2>1, <2>2, ProcessStaysInStage
<1>11. CASE BeginStep(c)
  <2>1. /\ phase[c] = "waiting" /\ Go(c, "running")
        /\ begun' = begun \cup {Current(c)}
        /\ UNCHANGED <<ledgerVars, inbox, frame, sent, session>>
    BY <1>11 DEF BeginStep
  <2>2. SameStage(phase[c], "running") /\ "running" \notin {"fenced", "preparing"}
    BY <1>8, <1>9, <2>1
  <2>3. \A f \in Frames : Ages(f)
    BY <2>1, QuietEntriesAge
  <2> QED
    BY <2>1, <2>2, <2>3 DEF FramesRest, KeepsFrame
<1>12. CASE EndStep(c)
  <2>1. /\ phase[c] = "running" /\ (Go(c, "stepping") \/ Go(c, "landing"))
        /\ UNCHANGED <<ledgerVars, inbox, sent, session, begun>>
    BY <1>12 DEF EndStep
  <2>2. \E next \in StepPhases : Go(c, next) /\ SameStage(phase[c], next)
    BY <1>8, <1>9, <2>1
  <2>3. PICK left \in {0, frame[c].steps - 1} : frame' = [frame EXCEPT ![c].steps = left]
    BY <1>12 DEF EndStep
  <2>4. frame[c] \in FrameRecord /\ frame \in [Channels -> Usable]
    BY DEF FramesFit, Usable
  <2>5. KeepsFrame(c)
    BY <2>3, <2>4 DEF KeepsFrame, FrameRecord
  <2>6. \A f \in Frames : Ages(f)
    BY <2>1, QuietEntriesAge
  <2> QED
    BY <1>8, <2>1, <2>2, <2>5, <2>6 DEF FramesRest
<1> QED
  BY <1>4, <1>5, <1>6, <1>7, <1>10, <1>11, <1>12 DEF Sequence

(* Every step is one of these to the frames of the ledger.                 *)
LEMMA StepsOfFrames ==
    ASSUME FramesFit, RecordsTypeOK, NEW c \in Channels, Environment(c) \/ Endpoint(c)
    PROVE  \/ LineIsRecorded(c) \/ FrameIsTaken(c) \/ FrameIsTurnedAway(c)
           \/ FrameIsStarted(c) \/ FrameIsSettled(c) \/ FramesRest(c)
BY ArrivalIsRecorded, TakingTakes, HelloRestsFrames, SequenceFrames, OpStatusRestsFrames,
   EndRestsFrames DEF Environment, Endpoint

-----------------------------------------------------------------------------
(* What the ledger holds of a frame and where its connection is with it.   *)

(* The frame runs.                                                         *)
Runs(f) == phase[f[1]] \in StepPhases /\ frame[f[1]].id = f[2]

(* It was read and has not started: it waits, or is being prepared.        *)
IsPending(f) ==
    \/ \E k \in DOMAIN inbox[f[1]] : IsSequence(inbox[f[1]][k]) /\ inbox[f[1]][k].id = f[2]
    \/ phase[f[1]] \in EarlyPhases /\ frame[f[1]].id = f[2]

(* And it was not refused on arrival.                                      *)
IsAdmissible(f) ==
    \/ \E k \in DOMAIN inbox[f[1]] : /\ IsSequence(inbox[f[1]][k]) /\ inbox[f[1]][k].id = f[2]
                                     /\ ~inbox[f[1]][k].refused
    \/ phase[f[1]] \in EarlyPhases /\ frame[f[1]].id = f[2] /\ ~frame[f[1]].refused

(* An entry is of a frame that was read, running while the frame runs,     *)
(* queued while it may still start and final once it may not; and a frame  *)
(* of which a step began is over, or runs, and its arrival is on record.   *)
Outcome(f) ==
    /\ entries[f].state # "none" => session[f[1]] /\ f[2] <= sent[f[1]]
    /\ entries[f].state = "running" <=> Runs(f)
    /\ entries[f].state = "queued" => IsAdmissible(f)
    /\ entries[f].state = "settled" => ~IsPending(f)
    /\ entries[f].state = "not_started" /\ Live(f[1]) => ~IsAdmissible(f)
    /\ f \in begun =>
          /\ session[f[1]] /\ f[2] <= sent[f[1]] /\ ~IsPending(f)
          /\ entries[f].state \in {"running", "settled", "none"}
          /\ OnRecord(f)

(* A sequence in turn is one, was admitted unless it is just being, and    *)
(* its arrival is on record.                                               *)
Staged(c) ==
    phase[c] \in SequencePhases =>
        /\ frame[c].kind = "sequence"
        /\ phase[c] # "admitting" => ~frame[c].refused
        /\ OnRecord(Current(c))

OutcomesHold ==
    /\ \A c \in Channels : Staged(c)
    /\ \A f \in Frames : Outcome(f)

(* The parts of the daemon's invariant the outcomes rest on.               *)
Ground == FramesFit /\ RecordsTypeOK /\ Discipline /\ LinesInOrder

(* How a step may change what the ledger holds of a frame.                 *)
Turns(f) ==
    \/ Ages(f)
    \/ entries[f].state \in {"none", "queued", "not_started"} /\ Becomes(f, "not_started")
    \/ /\ entries[f].state \in {"none", "queued"} /\ Live(f[1])
       /\ entries'[f].state \in {"queued", "running"}
    \/ entries[f].state = "running" /\ Becomes(f, "settled")

(* A step leaves where the connection is with a frame.                     *)
LeavesAlone(f) ==
    /\ IsPending(f)' <=> IsPending(f)
    /\ IsAdmissible(f)' <=> IsAdmissible(f)
    /\ Runs(f)' <=> Runs(f)
    /\ sent[f[1]] <= sent'[f[1]]
    /\ session[f[1]] => session'[f[1]]

(* A channel with a session is not opened.                                 *)
KeepsRecord(d) ==
    session[d] => Recalls(d) /\ (channels'[d].state = "live" => Live(d))

(* Only a hello that is accepted opens a channel, and there is one hello   *)
(* in a session.                                                           *)
LEMMA StepsKeepRecords ==
    ASSUME Ground, NEW c \in Channels, Environment(c) \/ Endpoint(c), NEW d \in Channels
    PROVE  KeepsRecord(d)
<1>1. CASE OpenHello(c) /\ d = c
  BY <1>1 DEF OpenHello, Process, Ground, Discipline, HelloPhases, KeepsRecord
<1>2. CASE OpenHello(c) /\ d # c
  <2>1. channels'[d] = channels[d] \/ channels'[d] = UnknownChannel
    BY <1>2 DEF OpenHello, OpenChannel, BoundChannels, Ground, RecordsTypeOK
  <2> QED
    BY <2>1, RecordedIdsAreNumbers DEF Ground, KeepsRecord, Recalls, UnknownChannel, Live
<1>3. CASE ~OpenHello(c)
  <2>1. NoneRevived
    BY <1>3, StepsAreSteadyBut DEF Ground, SteadyBut
  <2>2. [LedgerNext]_ledgerVars
    BY NextRegular DEF Ground, Next, Regular
  <2>3. \/ Recalls(d)
        \/ channels[d].state = "unknown" /\ channels'[d].state = "live"
    BY <2>2, LedgerStepsRecall DEF Ground
  <2> QED
    BY <2>1, <2>3 DEF NoneRevived, KeepsRecord, Live
<1> QED
  BY <1>1, <1>2, <1>3

(* What is on record of a frame stays on record.                           *)
LEMMA RecordsStay ==
    ASSUME NEW f \in Frames, KeepsRecord(f[1]), session[f[1]], OnRecord(f), RecordsTypeOK,
           RecordsTypeOK'
    PROVE  OnRecord(f)' /\ IsRecorded(f)
<1>1. f[1] \in Channels /\ f[2] \in Nat
  BY FrameParts, IdsAreNumbers
<1>2. channels[f[1]].last_received \in Nat /\ channels'[f[1]].last_received \in Nat
  <2>1. channels[f[1]].last_received \in Ids \cup {0}
        /\ channels'[f[1]].last_received \in Ids \cup {0}
    BY <1>1 DEF RecordsTypeOK, Channel
  <2> QED
    BY <2>1, IdsAreNumbers
<1> QED
  BY <1>1, <1>2 DEF KeepsRecord, Recalls, OnRecord, IsRecorded

(* A frame that only ages keeps what is known of it.                       *)
LEMMA AgingKeepsOutcome ==
    ASSUME NEW f \in Frames, Outcome(f), Ages(f), LeavesAlone(f), KeepsRecord(f[1]),
           RecordsTypeOK, RecordsTypeOK', LinesTyped, LinesTyped', f \in begun' => f \in begun
    PROVE  Outcome(f)' /\ Turns(f)
<1>1. f[1] \in Channels /\ f[2] \in Nat
  BY FrameParts, IdsAreNumbers
<1>2. sent[f[1]] \in Nat /\ sent'[f[1]] \in Nat
  BY <1>1, IdsAreNumbers DEF LinesTyped
<1>3. f[2] <= sent[f[1]] => f[2] <= sent'[f[1]]
  BY <1>1, <1>2 DEF LeavesAlone
<1>4. entries'[f].state # "none" => session'[f[1]] /\ f[2] <= sent'[f[1]]
  BY <1>3 DEF Outcome, Ages, LeavesAlone, Final
<1>5. entries'[f].state = "running" <=> Runs(f)'
  BY DEF Outcome, Ages, LeavesAlone, Final
<1>6. /\ entries'[f].state = "queued" => IsAdmissible(f)'
      /\ entries'[f].state = "settled" => ~IsPending(f)'
  BY DEF Outcome, Ages, LeavesAlone
<1>7. entries'[f].state = "not_started" /\ Live(f[1])' => ~IsAdmissible(f)'
  BY DEF Outcome, Ages, LeavesAlone, KeepsRecord, Live
<1>8. ASSUME f \in begun'
      PROVE  /\ session'[f[1]] /\ f[2] <= sent'[f[1]] /\ ~IsPending(f)'
             /\ entries'[f].state \in {"running", "settled", "none"}
             /\ OnRecord(f)'
  <2>1. /\ session[f[1]] /\ f[2] <= sent[f[1]] /\ ~IsPending(f)
        /\ entries[f].state \in {"running", "settled", "none"}
        /\ OnRecord(f)
    BY <1>8 DEF Outcome
  <2>2. OnRecord(f)'
    BY <2>1, RecordsStay
  <2>3. entries'[f].state \in {"running", "settled", "none"}
    BY <2>1 DEF Ages, Final
  <2> QED
    BY <1>3, <2>1, <2>2, <2>3 DEF LeavesAlone
<1> QED
  BY <1>4, <1>5, <1>6, <1>7, <1>8 DEF Outcome, Turns

(* The frames of another connection.                                       *)
LEMMA OthersAreLeftAlone ==
    ASSUME FramesFit, LinesTyped, NEW c \in Channels, Environment(c) \/ Endpoint(c),
           NEW f \in Frames, f[1] # c
    PROVE  LeavesAlone(f)
<1>1. f[1] \in Channels \ {c}
  BY FrameParts
<1>2. /\ phase'[f[1]] = phase[f[1]] /\ frame'[f[1]] = frame[f[1]] /\ inbox'[f[1]] = inbox[f[1]]
      /\ sent'[f[1]] = sent[f[1]] /\ session'[f[1]] = session[f[1]]
  BY <1>1, OthersRest DEF LinesOf
<1>3. sent[f[1]] \in Nat
  BY <1>1, IdsAreNumbers DEF LinesTyped
<1> QED
  BY <1>2, <1>3 DEF LeavesAlone, IsPending, IsAdmissible, Runs, IsSequence

(* What a step may do to each frame and to the sequence in turn.           *)
Good(c) ==
    /\ Staged(c)'
    /\ \A f \in Frames : f[1] = c => Outcome(f)' /\ Turns(f)

(* The sequences that wait are not the one in turn, and each has its own   *)
(* number.                                                                 *)
LEMMA WaitingIds ==
    ASSUME FramesFit, LinesInOrder, NEW c \in Channels
    PROVE  /\ \A k \in DOMAIN inbox[c] : IsSequence(inbox[c][k]) =>
                 inbox[c][k].id # frame[c].id /\ inbox[c][k].id <= sent[c]
           /\ \A j, k \in DOMAIN inbox[c] :
                 /\ IsSequence(inbox[c][j]) /\ IsSequence(inbox[c][k])
                 /\ inbox[c][j].id = inbox[c][k].id
                 => j = k
<1>1. Numbered(c)
  BY DEF LinesInOrder
<1>2. \A k \in DOMAIN inbox[c] : IsSequence(inbox[c][k]) =>
                 inbox[c][k].id # frame[c].id /\ inbox[c][k].id <= sent[c]
  BY <1>1, FrameIsNoneWaiting, SequencesHaveIds DEF Numbered
<1>3. ASSUME NEW j \in DOMAIN inbox[c], NEW k \in DOMAIN inbox[c], j < k,
             IsSequence(inbox[c][k])
      PROVE  inbox[c][j].id # inbox[c][k].id
  <2>1. DOMAIN inbox[c] = 1 .. Len(inbox[c]) /\ Len(inbox[c]) \in Nat
        /\ inbox[c][j] \in Usable /\ inbox[c][k] \in Usable
    BY ElementOfSeq DEF FramesFit
  <2>2. j \in 1 .. k - 1 /\ inbox[c][k].kind # "garbled"
    BY <1>3, <2>1, SequencesHaveIds
  <2>3. inbox[c][j].id < inbox[c][k].id
    BY <1>1, <2>2 DEF Numbered
  <2>4. inbox[c][j].id \in Nat /\ inbox[c][k].id \in Nat
    BY <2>1, IdsAreNumbers
  <2> QED
    BY <2>3, <2>4
<1>4. \A k \in DOMAIN inbox[c] : k \in Nat
  BY DEF FramesFit
<1>5. \A j, k \in DOMAIN inbox[c] : j < k \/ k < j \/ j = k
  BY <1>4
<1> QED
  BY <1>2, <1>3, <1>5

(* A step that neither takes, starts nor ends a frame.                     *)
LEMMA RestIsGood ==
    ASSUME Ground, Ground', OutcomesHold, NEW c \in Channels,
           KeepsRecord(c), FramesRest(c)
    PROVE  Good(c)
<1>1. /\ inbox' = inbox /\ sent' = sent /\ KeepsFrame(c)
      /\ session[c] => session'[c]
      /\ \A f \in Frames : Ages(f)
  BY DEF FramesRest, Ground, LinesInOrder, LinesTyped
<1>2. /\ phase'[c] \in EarlyPhases <=> phase[c] \in EarlyPhases
      /\ phase'[c] \in StepPhases <=> phase[c] \in StepPhases
      /\ phase'[c] \in {"fenced", "preparing"} => phase'[c] = phase[c] \/ ~frame[c].refused
  BY DEF FramesRest, SameStage, Go, Ground, FramesFit
<1>3. sent[c] \in Nat
  BY IdsAreNumbers DEF Ground, LinesInOrder, LinesTyped
<1>4. ASSUME NEW f \in Frames, f[1] = c
      PROVE  LeavesAlone(f)
  BY <1>1, <1>2, <1>3, <1>4 DEF LeavesAlone, IsPending, IsAdmissible, Runs, KeepsFrame,
     IsSequence
<1>5. Staged(c)'
  <2> SUFFICES ASSUME phase'[c] \in SequencePhases
               PROVE  /\ frame'[c].kind = "sequence"
                      /\ phase'[c] # "admitting" => ~frame'[c].refused
                      /\ OnRecord(Current(c))'
    BY DEF Staged
  <2>1. phase[c] \in SequencePhases
    BY <1>2, StagesApart
  <2>2. /\ frame[c].kind = "sequence"
        /\ phase[c] # "admitting" => ~frame[c].refused
        /\ OnRecord(Current(c))
    BY <2>1 DEF OutcomesHold, Staged
  <2>3. session[c]
    BY <2>1 DEF Ground, Discipline
  <2>4. frame[c].id \in Ids
    BY <2>1, FrameInTurn DEF Ground, Working
  <2>5. <<c, frame[c].id>> \in Frames /\ <<c, frame[c].id>>[1] = c
    BY <2>4, FrameParts
  <2>6. IsRecorded(<<c, frame[c].id>>)
    BY <2>2, <2>3, <2>5, RecordsStay DEF Ground, Current
  <2>7. OnRecord(Current(c))'
    BY <1>1, <2>6 DEF IsRecorded, OnRecord, Current, KeepsFrame
  <2>8. phase'[c] # "admitting" => ~frame[c].refused
    <3>1. phase'[c] \in StepPhases => phase[c] # "admitting"
      BY <1>2 DEF StepPhases
    <3>2. phase'[c] \in StepPhases \/ phase'[c] \in {"admitting", "fenced", "preparing"}
      BY StagesApart DEF EarlyPhases
    <3> QED
      BY <1>2, <2>2, <3>1, <3>2
  <2> QED
    BY <1>1, <2>2, <2>7, <2>8 DEF KeepsFrame
<1>6. ASSUME NEW f \in Frames, f[1] = c
      PROVE  Outcome(f)' /\ Turns(f)
  <2>1. Outcome(f) /\ LeavesAlone(f) /\ Ages(f)
    BY <1>1, <1>4, <1>6 DEF OutcomesHold
  <2>2. CASE f \in begun' => f \in begun
    BY <1>6, <2>1, <2>2, AgingKeepsOutcome DEF Ground, LinesInOrder
  <2>3. CASE f \in begun' /\ f \notin begun
    <3>1. phase[c] = "waiting" /\ f = Current(c)
      BY <2>3 DEF FramesRest
    <3>2. phase[c] \in StepPhases /\ phase[c] \in SequencePhases /\ phase[c] \notin EarlyPhases
      BY <3>1, StagesApart DEF StepPhases
    <3>3. f[2] = frame[c].id /\ Runs(f)
      BY <1>6, <3>1, <3>2 DEF Current, Runs
    <3>4. entries[f].state = "running"
      BY <2>1, <3>3 DEF Outcome
    <3>5. ~IsPending(f)
      BY <1>6, <3>2, <3>3, WaitingIds DEF IsPending, Ground
    <3>6. session[c] /\ f[2] <= sent[c] /\ OnRecord(f)
      BY <1>6, <2>1, <3>1, <3>2, <3>4 DEF Outcome, OutcomesHold, Staged
    <3>7. OnRecord(f)'
      BY <1>6, <3>6, RecordsStay DEF Ground
    <3>8. entries'[f].state = "running"
      BY <2>1, <3>4 DEF Ages, Final
    <3>9. Runs(f)' /\ ~IsPending(f)' /\ session'[c] /\ f[2] <= sent'[c]
      BY <1>1, <2>1, <3>3, <3>5, <3>6 DEF LeavesAlone
    <3>10. Turns(f)
      BY <2>1 DEF Turns
    <3>11. Outcome(f)'
      BY <1>6, <3>7, <3>8, <3>9 DEF Outcome
    <3> QED
      BY <3>10, <3>11
  <2> QED
    BY <2>2, <2>3
<1> QED
  BY <1>5, <1>6 DEF Good

(* The frame in turn moves on; every other frame of its connection is left *)
(* alone and ages.                                                         *)
LEMMA MovesLeaveOthers ==
    ASSUME Ground, Ground', OutcomesHold, NEW c \in Channels, KeepsRecord(c),
           NEW next, Moves(c, next), OthersAge(Current(c)),
           NEW f \in Frames, f[1] = c, f # Current(c)
    PROVE  Outcome(f)' /\ Turns(f)
<1>1. f[2] # frame[c].id
  BY DEF Current, Frames
<1>2. inbox' = inbox /\ frame' = frame /\ sent' = sent /\ session' = session /\ begun' = begun
  BY DEF Moves
<1>3. sent[c] \in Nat
  BY IdsAreNumbers DEF Ground, LinesInOrder, LinesTyped
<1>4. LeavesAlone(f)
  BY <1>1, <1>2, <1>3 DEF LeavesAlone, IsPending, IsAdmissible, Runs, IsSequence
<1>5. Ages(f) /\ Outcome(f)
  BY DEF OthersAge, OutcomesHold
<1> QED
  BY <1>2, <1>4, <1>5, AgingKeepsOutcome DEF Ground, LinesInOrder

(* What is known of the sequence in turn.                                  *)
LEMMA FrameInTurnIsKnown ==
    ASSUME Ground, OutcomesHold, NEW c \in Channels, phase[c] \in SequencePhases
    PROVE  /\ Current(c) \in Frames /\ Current(c)[1] = c /\ Current(c)[2] = frame[c].id
           /\ session[c] /\ frame[c].id <= sent[c]
           /\ ~\E k \in DOMAIN inbox[c] : IsSequence(inbox[c][k]) /\ inbox[c][k].id = frame[c].id
           /\ Outcome(Current(c)) /\ Staged(c)
<1>1. frame[c].id \in Ids
  BY FrameInTurn DEF Ground, Working
<1>2. Current(c) \in Frames /\ Current(c)[1] = c /\ Current(c)[2] = frame[c].id
  BY <1>1, FrameParts DEF Current
<1>3. session[c] /\ frame[c].id <= sent[c]
  BY DEF Ground, Discipline, LinesInOrder, Numbered
<1>4. ~\E k \in DOMAIN inbox[c] : IsSequence(inbox[c][k]) /\ inbox[c][k].id = frame[c].id
  BY WaitingIds DEF Ground
<1> QED
  BY <1>2, <1>3, <1>4 DEF OutcomesHold

(* The sequence in turn is refused before its first step.                  *)
LEMMA TurningAwayIsGood ==
    ASSUME Ground, Ground', OutcomesHold, NEW c \in Channels, KeepsRecord(c),
           FrameIsTurnedAway(c)
    PROVE  Good(c)
<1>1. /\ phase[c] \in EarlyPhases /\ Moves(c, "replying")
      /\ OthersAge(Current(c)) /\ Becomes(Current(c), "not_started")
  BY DEF FrameIsTurnedAway
<1>2. phase'[c] = "replying" /\ phase'[c] \notin SequencePhases
      /\ inbox' = inbox /\ frame' = frame /\ sent' = sent /\ session' = session /\ begun' = begun
  BY <1>1, StagesApart DEF Moves, Go, Ground, FramesFit
<1>3. Staged(c)'
  BY <1>2 DEF Staged
<1>f. PICK f : f = Current(c)
  OBVIOUS
<1>4. /\ f \in Frames /\ f[1] = c /\ f[2] = frame[c].id
      /\ session[c] /\ f[2] <= sent[c]
      /\ ~\E k \in DOMAIN inbox[c] : IsSequence(inbox[c][k]) /\ inbox[c][k].id = f[2]
      /\ Outcome(f)
  BY <1>f, <1>1, FrameInTurnIsKnown, StagesApart
<1>5. IsPending(f)
  BY <1>1, <1>4 DEF IsPending
<1>6. ~Runs(f)
  BY <1>1, <1>4, StagesApart DEF Runs
<1>7. f \notin begun /\ entries[f].state \notin {"running", "settled"}
  BY <1>4, <1>5, <1>6 DEF Outcome
<1>8. entries[f].state \in {"none", "queued", "not_started"}
  BY <1>4, <1>7 DEF Ground, RecordsTypeOK, Entry
<1>9. entries'[f].state \in {"not_started", "none"}
  BY <1>f, <1>1 DEF Becomes
<1>10. ASSUME NEW g \in Frames, g = f
       PROVE  Outcome(g)' /\ Turns(g)
  <2>1. g[1] = c /\ g[2] = frame[c].id /\ entries'[g].state \in {"not_started", "none"}
        /\ g \notin begun /\ session[c] /\ g[2] <= sent[c]
        /\ ~\E k \in DOMAIN inbox[c] : IsSequence(inbox[c][k]) /\ inbox[c][k].id = g[2]
    BY <1>4, <1>7, <1>9, <1>10
  <2>2. ~IsPending(g)' /\ ~IsAdmissible(g)' /\ ~Runs(g)'
    BY <1>2, <2>1, StagesApart DEF IsPending, IsAdmissible, Runs, IsSequence
  <2>3. Outcome(g)'
    BY <1>2, <2>1, <2>2 DEF Outcome
  <2>4. Turns(g)
    BY <1>8, <1>9, <1>10 DEF Turns, Becomes
  <2> QED
    BY <2>3, <2>4
<1>11. \A g \in Frames : g[1] = c /\ g # f => Outcome(g)' /\ Turns(g)
  BY <1>f, <1>1, MovesLeaveOthers
<1> QED
  BY <1>3, <1>10, <1>11 DEF Good

(* The sequence in turn starts, which the ledger knows before any step of  *)
(* it begins.                                                              *)
LEMMA StartingIsGood ==
    ASSUME Ground, Ground', OutcomesHold, NEW c \in Channels, KeepsRecord(c),
           FrameIsStarted(c)
    PROVE  Good(c)
<1>1. /\ phase[c] = "preparing" /\ Live(c) /\ Moves(c, "stepping")
      /\ OthersAge(Current(c)) /\ entries'[Current(c)].state = "running"
  BY DEF FrameIsStarted
<1>2. phase[c] \in EarlyPhases /\ phase[c] \in SequencePhases
      /\ "stepping" \in StepPhases /\ "stepping" \notin EarlyPhases
  BY <1>1, StagesApart DEF EarlyPhases, StepPhases
<1>3. phase'[c] = "stepping"
      /\ inbox' = inbox /\ frame' = frame /\ sent' = sent /\ session' = session /\ begun' = begun
  BY <1>1 DEF Moves, Go, Ground, FramesFit
<1>f. PICK f : f = Current(c)
  OBVIOUS
<1>4. /\ f \in Frames /\ f[1] = c /\ f[2] = frame[c].id
      /\ session[c] /\ f[2] <= sent[c]
      /\ ~\E k \in DOMAIN inbox[c] : IsSequence(inbox[c][k]) /\ inbox[c][k].id = f[2]
      /\ Outcome(f) /\ Staged(c)
  BY <1>f, <1>2, FrameInTurnIsKnown
<1>5. frame[c].kind = "sequence" /\ ~frame[c].refused /\ OnRecord(f)
  BY <1>f, <1>1, <1>2, <1>4 DEF Staged
<1>6. OnRecord(f)'
  BY <1>4, <1>5, RecordsStay DEF Ground
<1>7. Staged(c)'
  <2>1. Current(c)' = f
    BY <1>f, <1>3 DEF Current
  <2>2. OnRecord(Current(c))'
    BY <1>6, <2>1 DEF OnRecord
  <2> QED
    BY <1>3, <1>5, <2>2 DEF Staged
<1>8. IsPending(f) /\ IsAdmissible(f) /\ ~Runs(f)
  BY <1>2, <1>1, <1>4, <1>5, StagesApart DEF IsPending, IsAdmissible, Runs
<1>9. f \notin begun /\ entries[f].state \notin {"running", "settled", "not_started"}
  BY <1>1, <1>4, <1>8 DEF Outcome
<1>10. entries[f].state \in {"none", "queued"}
  BY <1>4, <1>9 DEF Ground, RecordsTypeOK, Entry
<1>11. ASSUME NEW g \in Frames, g = f
       PROVE  Outcome(g)' /\ Turns(g)
  <2>1. g[1] = c /\ g[2] = frame[c].id /\ entries'[g].state = "running"
        /\ g \notin begun /\ session[c] /\ g[2] <= sent[c]
    BY <1>f, <1>1, <1>4, <1>9, <1>11
  <2>2. Runs(g)'
    BY <1>2, <1>3, <2>1 DEF Runs
  <2>3. Outcome(g)'
    BY <1>3, <2>1, <2>2 DEF Outcome
  <2>4. Turns(g)
    BY <1>1, <1>10, <1>11, <2>1 DEF Turns
  <2> QED
    BY <2>3, <2>4
<1>12. \A g \in Frames : g[1] = c /\ g # f => Outcome(g)' /\ Turns(g)
  BY <1>f, <1>1, MovesLeaveOthers
<1> QED
  BY <1>7, <1>11, <1>12 DEF Good

(* The sequence in turn is settled.                                        *)
LEMMA SettlingIsGood ==
    ASSUME Ground, Ground', OutcomesHold, NEW c \in Channels, KeepsRecord(c),
           FrameIsSettled(c)
    PROVE  Good(c)
<1>1. /\ phase[c] = "settling" /\ Moves(c, "replying")
      /\ OthersAge(Current(c))
      /\ entries[Current(c)].state # "none" => Becomes(Current(c), "settled")
  BY DEF FrameIsSettled
<1>2. phase[c] \in StepPhases /\ phase[c] \in SequencePhases
  BY <1>1, StagesApart DEF StepPhases
<1>3. phase'[c] = "replying" /\ phase'[c] \notin SequencePhases
      /\ inbox' = inbox /\ frame' = frame /\ sent' = sent /\ session' = session /\ begun' = begun
  BY <1>1, StagesApart DEF Moves, Go, Ground, FramesFit
<1>4. Staged(c)'
  BY <1>3 DEF Staged
<1>f. PICK f : f = Current(c)
  OBVIOUS
<1>5. /\ f \in Frames /\ f[1] = c /\ f[2] = frame[c].id
      /\ session[c] /\ f[2] <= sent[c]
      /\ ~\E k \in DOMAIN inbox[c] : IsSequence(inbox[c][k]) /\ inbox[c][k].id = f[2]
      /\ Outcome(f)
  BY <1>f, <1>2, FrameInTurnIsKnown
<1>6. entries[f].state = "running"
  BY <1>2, <1>5 DEF Outcome, Runs
<1>7. entries'[f].state \in {"settled", "none"}
  BY <1>f, <1>1, <1>6 DEF Becomes
<1>8. f \in begun => OnRecord(f)'
  BY <1>5, RecordsStay DEF Outcome, Ground
<1>9. ASSUME NEW g \in Frames, g = f
      PROVE  Outcome(g)' /\ Turns(g)
  <2>1. g[1] = c /\ g[2] = frame[c].id /\ entries'[g].state \in {"settled", "none"}
        /\ session[c] /\ g[2] <= sent[c]
        /\ ~\E k \in DOMAIN inbox[c] : IsSequence(inbox[c][k]) /\ inbox[c][k].id = g[2]
    BY <1>5, <1>7, <1>9
  <2>5. g \in begun => OnRecord(g)'
    BY <1>8, <1>9
  <2>2. ~IsPending(g)' /\ ~IsAdmissible(g)' /\ ~Runs(g)'
    BY <1>3, <2>1, StagesApart DEF IsPending, IsAdmissible, Runs, IsSequence
  <2>3. Outcome(g)'
    BY <1>3, <2>1, <2>2, <2>5 DEF Outcome
  <2>4. Turns(g)
    BY <1>6, <1>7, <1>9 DEF Turns, Becomes
  <2> QED
    BY <2>3, <2>4
<1>10. \A g \in Frames : g[1] = c /\ g # f => Outcome(g)' /\ Turns(g)
  BY <1>f, <1>1, MovesLeaveOthers
<1> QED
  BY <1>4, <1>9, <1>10 DEF Good

(* A line that arrives is recorded by the ledger under an id no earlier    *)
(* line had.                                                               *)
LEMMA RecordingIsGood ==
    ASSUME Ground, Ground', OutcomesHold, NEW c \in Channels, KeepsRecord(c),
           LineIsRecorded(c)
    PROVE  Good(c)
<1>1. PICK r \in Usable :
        /\ Receives(c, r)
        /\ UNCHANGED <<session, begun>>
        /\ \/ r.kind = "garbled" /\ sent' = sent /\ \A f \in Frames : Ages(f)
           \/ /\ r.kind # "garbled" /\ r.id = sent[c] + 1
              /\ sent' = [sent EXCEPT ![c] = r.id]
              /\ OthersAge(<<c, r.id>>)
              /\ \/ Ages(<<c, r.id>>)
                 \/ /\ session[c] /\ IsSequence(r)
                    /\ \/ entries'[<<c, r.id>>].state = "queued" /\ ~r.refused /\ Live(c)
                       \/ Becomes(<<c, r.id>>, "not_started") /\ (r.refused \/ ~Live(c))
  BY DEF LineIsRecorded
<1>2. phase' = phase /\ frame' = frame /\ inbox'[c] = Append(inbox[c], r)
  BY <1>1 DEF Receives, Ground, FramesFit
<1>3. /\ Len(inbox[c]) \in Nat
      /\ DOMAIN inbox[c] = 1 .. Len(inbox[c])
      /\ DOMAIN inbox'[c] = 1 .. Len(inbox[c]) + 1
      /\ \A k \in 1 .. Len(inbox[c]) : inbox'[c][k] = inbox[c][k]
      /\ inbox'[c][Len(inbox[c]) + 1] = r
  BY <1>2, LastLine DEF Ground
<1>4. /\ DOMAIN inbox'[c] = DOMAIN inbox[c] \cup {Len(inbox[c]) + 1}
      /\ \A k \in DOMAIN inbox[c] : inbox'[c][k] = inbox[c][k]
  BY <1>3
<1>5. sent[c] \in Nat /\ r.id \in Nat /\ sent'[c] \in Nat /\ sent[c] <= sent'[c]
  <2>1. sent \in [Channels -> Ids \cup {0}] /\ sent' \in [Channels -> Ids \cup {0}]
    BY DEF Ground, LinesInOrder, LinesTyped
  <2>2. sent[c] \in Nat /\ r.id \in Nat /\ sent'[c] \in Nat
    BY <2>1, IdsAreNumbers
  <2> QED
    BY <1>1, <2>1, <2>2
<1>6. Staged(c)'
  <2> SUFFICES ASSUME phase'[c] \in SequencePhases
               PROVE  /\ frame'[c].kind = "sequence"
                      /\ phase'[c] # "admitting" => ~frame'[c].refused
                      /\ OnRecord(Current(c))'
    BY DEF Staged
  <2>1. phase[c] \in SequencePhases
    BY <1>2
  <2>f. PICK f : f = Current(c)
    OBVIOUS
  <2>2. f \in Frames /\ f[1] = c /\ session[c] /\ OnRecord(f) /\ Staged(c)
    BY <2>1, <2>f, FrameInTurnIsKnown DEF Staged
  <2>3. OnRecord(f)'
    BY <2>2, RecordsStay DEF Ground
  <2>4. Current(c)' = f
    BY <1>2, <2>f DEF Current
  <2>5. OnRecord(Current(c))'
    BY <2>3, <2>4 DEF OnRecord
  <2> QED
    BY <1>2, <2>1, <2>2, <2>5 DEF Staged
<1>7. ASSUME NEW f \in Frames, f[1] = c, ~IsSequence(r) \/ f[2] # r.id, Ages(f)
      PROVE  Outcome(f)' /\ Turns(f)
  <2>1. IsPending(f)' <=> IsPending(f)
    BY <1>2, <1>3, <1>4, <1>7 DEF IsPending, IsSequence
  <2>2. IsAdmissible(f)' <=> IsAdmissible(f)
    BY <1>2, <1>3, <1>4, <1>7 DEF IsAdmissible, IsSequence
  <2>3. LeavesAlone(f)
    BY <1>1, <1>2, <1>5, <1>7, <2>1, <2>2 DEF LeavesAlone, Runs
  <2> QED
    BY <1>1, <1>7, <2>3, AgingKeepsOutcome DEF OutcomesHold, Ground, LinesInOrder
<1>8. ASSUME NEW f \in Frames, f[1] = c, r.kind # "garbled", f[2] = r.id
      PROVE  Outcome(f)' /\ Turns(f)
  <2>1. f = <<c, r.id>>
    BY <1>8 DEF Frames
  <2>2. /\ r.id = sent[c] + 1 /\ sent'[c] = r.id /\ session' = session /\ begun' = begun
        /\ \/ Ages(f)
           \/ /\ session[c] /\ IsSequence(r)
              /\ \/ entries'[f].state = "queued" /\ ~r.refused /\ Live(c)
                 \/ Becomes(f, "not_started") /\ (r.refused \/ ~Live(c))
    BY <1>1, <1>8, <2>1 DEF Ground, LinesInOrder, LinesTyped
  <2>3. entries[f].state = "none" /\ f \notin begun
    <3>1. ~(f[2] <= sent[c])
      BY <1>5, <1>8, <2>2
    <3> QED
      BY <1>8, <3>1 DEF OutcomesHold, Outcome
  <2>4. frame[c].id # r.id /\ \A k \in DOMAIN inbox[c] : IsSequence(inbox[c][k])
           => inbox[c][k].id # r.id
    <3>1. frame[c].id <= sent[c] /\ frame[c].id \in Nat
      BY IdsAreNumbers DEF Ground, LinesInOrder, Numbered, FramesFit
    <3>2. \A k \in DOMAIN inbox[c] : inbox[c][k].id <= sent[c]
      BY DEF Ground, LinesInOrder, Numbered
    <3> QED
      BY <1>5, <2>2, <3>1, <3>2
  <2>5. ~Runs(f)'
    BY <1>2, <1>8, <2>4 DEF Runs
  <2>6. IsAdmissible(f)' <=> IsSequence(r) /\ ~r.refused
    BY <1>2, <1>3, <1>4, <1>8, <2>4 DEF IsAdmissible, IsSequence
  <2>7. CASE Ages(f)
    <3>1. entries'[f].state = "none"
      BY <2>3, <2>7 DEF Ages, Final
    <3> QED
      BY <2>2, <2>3, <2>5, <2>7, <3>1 DEF Outcome, Turns
  <2>8. CASE session[c] /\ IsSequence(r) /\ entries'[f].state = "queued" /\ ~r.refused /\ Live(c)
    <3>1. session'[f[1]] /\ f[2] <= sent'[f[1]]
      BY <1>5, <1>8, <2>2, <2>8
    <3> QED
      BY <1>8, <2>2, <2>3, <2>5, <2>6, <2>8, <3>1 DEF Outcome, Turns
  <2>9. CASE session[c] /\ IsSequence(r) /\ Becomes(f, "not_started") /\ (r.refused \/ ~Live(c))
    <3>1. session'[f[1]] /\ f[2] <= sent'[f[1]]
      BY <1>5, <1>8, <2>2, <2>9
    <3>2. Live(c)' => Live(c)
      BY <2>9 DEF KeepsRecord, Live
    <3>3. entries'[f].state = "not_started" /\ Live(f[1])' => ~IsAdmissible(f)'
      BY <1>8, <2>6, <2>9, <3>2 DEF Live
    <3>4. Outcome(f)'
      BY <2>2, <2>3, <2>5, <2>9, <3>1, <3>3 DEF Outcome, Becomes
    <3>5. Turns(f)
      BY <2>3, <2>9 DEF Turns
    <3> QED
      BY <3>4, <3>5
  <2> QED
    BY <2>2, <2>7, <2>8, <2>9
<1>9. ASSUME NEW f \in Frames, f[1] = c
      PROVE  Outcome(f)' /\ Turns(f)
  <2>1. CASE r.kind = "garbled"
    BY <1>1, <1>7, <1>9, <2>1, SequencesHaveIds
  <2>2. CASE r.kind # "garbled" /\ f[2] # r.id
    <3>1. f \in Frames \ {<<c, r.id>>}
      BY <2>2
    <3> QED
      BY <1>1, <1>7, <1>9, <2>2, <3>1 DEF OthersAge
  <2>3. CASE r.kind # "garbled" /\ f[2] = r.id
    BY <1>8, <1>9, <2>3
  <2> QED
    BY <2>1, <2>2, <2>3
<1> QED
  BY <1>6, <1>9 DEF Good

(* A line is taken: a sequence refused, or admitted while it waits in the  *)
(* ledger.                                                                 *)
LEMMA TakingIsGood ==
    ASSUME Ground, Ground', OutcomesHold, NEW c \in Channels, KeepsRecord(c),
           FrameIsTaken(c)
    PROVE  Good(c)
<1>r. PICK r : r = Head(inbox[c])
  OBVIOUS
<1>1. PICK next :
        /\ Take(c, next)
        /\ \/ /\ next \notin EarlyPhases \cup StepPhases
              /\ IsSequence(r) => ~session[c]
              /\ \A f \in Frames : Ages(f)
           \/ /\ next \notin EarlyPhases \cup StepPhases
              /\ IsSequence(r) /\ session[c]
              /\ OthersAge(<<c, r.id>>) /\ Becomes(<<c, r.id>>, "not_started")
           \/ /\ next = "admitting" /\ r.kind = "sequence" /\ session[c]
              /\ IsRecorded(<<c, r.id>>)
              /\ \A f \in Frames : Ages(f)
  BY <1>r DEF FrameIsTaken
<1>2. /\ phase[c] \in {"accepted", "idle"} /\ inbox[c] # <<>>
      /\ phase'[c] = next /\ frame'[c] = r /\ inbox'[c] = Tail(inbox[c])
      /\ sent' = sent /\ session' = session /\ begun' = begun
  BY <1>1, <1>r DEF FrameIsTaken, Taking, Take, Go, Ground, FramesFit, history
<1> DEFINE n == Len(inbox[c])
<1>3. /\ n \in Nat /\ n > 0 /\ DOMAIN inbox[c] = 1 .. n
      /\ r = inbox[c][1] /\ r \in Usable
      /\ DOMAIN inbox'[c] = 1 .. n - 1
      /\ \A k \in 1 .. n - 1 : inbox'[c][k] = inbox[c][k + 1]
  BY <1>2, <1>r, FirstLine DEF Ground
<1> HIDE DEF n
<1>4. phase[c] \notin EarlyPhases \cup StepPhases
  BY <1>2, StagesApart
<1>5. sent[c] \in Nat
  BY IdsAreNumbers DEF Ground, LinesInOrder, LinesTyped
(* The waiting lines are the first and those that wait still. *)
<1>6. /\ \A k \in DOMAIN inbox[c] : k = 1 \/ \E j \in DOMAIN inbox'[c] : inbox'[c][j] = inbox[c][k]
      /\ \A j \in DOMAIN inbox'[c] : \E k \in DOMAIN inbox[c] : k # 1 /\ inbox'[c][j] = inbox[c][k]
      /\ 1 \in DOMAIN inbox[c]
  <2>1. \A k \in 1 .. n : k = 1 \/ (k - 1 \in 1 .. n - 1 /\ inbox'[c][k - 1] = inbox[c][k])
    BY <1>3
  <2>2. \A j \in 1 .. n - 1 : j + 1 \in 1 .. n /\ j + 1 # 1 /\ inbox'[c][j] = inbox[c][j + 1]
    BY <1>3
  <2>3. 1 \in 1 .. n
    BY <1>3
  <2> QED
    BY <1>3, <2>1, <2>2, <2>3
<1>7. \A j \in DOMAIN inbox'[c] : IsSequence(inbox'[c][j]) /\ IsSequence(r)
          => inbox'[c][j].id # r.id
  <2> SUFFICES ASSUME NEW j \in DOMAIN inbox'[c], IsSequence(inbox'[c][j]), IsSequence(r),
                      inbox'[c][j].id = r.id
               PROVE  FALSE
    OBVIOUS
  <2>1. PICK k \in DOMAIN inbox[c] : k # 1 /\ inbox'[c][j] = inbox[c][k]
    BY <1>6
  <2>2. \A i, l \in DOMAIN inbox[c] :
                 /\ IsSequence(inbox[c][i]) /\ IsSequence(inbox[c][l])
                 /\ inbox[c][i].id = inbox[c][l].id
                 => i = l
    BY WaitingIds DEF Ground
  <2>3. 1 = k
    BY <1>3, <1>6, <2>1, <2>2
  <2> QED
    BY <2>1, <2>3
<1>8. ASSUME NEW f \in Frames, f[1] = c, f[2] # r.id \/ ~IsSequence(r), Ages(f),
             next \notin EarlyPhases \cup StepPhases \/ f[2] # r.id
      PROVE  Outcome(f)' /\ Turns(f)
  <2>1. (phase'[c] \in EarlyPhases /\ frame'[c].id = f[2]) = FALSE
        /\ (phase[c] \in EarlyPhases /\ frame[c].id = f[2]) = FALSE
        /\ ~(phase'[c] \in StepPhases /\ frame'[c].id = f[2])
        /\ ~(phase[c] \in StepPhases /\ frame[c].id = f[2])
    BY <1>2, <1>4, <1>8
  <2>2. ~(IsSequence(inbox[c][1]) /\ inbox[c][1].id = f[2])
    BY <1>3, <1>8
  <2>3. IsPending(f)' <=> IsPending(f)
    BY <1>6, <1>8, <2>1, <2>2 DEF IsPending, IsSequence
  <2>4. IsAdmissible(f)' <=> IsAdmissible(f)
    BY <1>6, <1>8, <2>1, <2>2 DEF IsAdmissible, IsSequence
  <2>5. LeavesAlone(f)
    BY <1>2, <1>5, <1>8, <2>1, <2>3, <2>4 DEF LeavesAlone, Runs
  <2> QED
    BY <1>2, <1>8, <2>5, AgingKeepsOutcome DEF OutcomesHold, Ground, LinesInOrder
(* The frame that is taken. *)
<1>9. ASSUME NEW f \in Frames, f[1] = c, f[2] = r.id, IsSequence(r)
      PROVE  Outcome(f)' /\ Turns(f)
  <2>1. f = <<c, r.id>>
    BY <1>9 DEF Frames
  <2>2. Outcome(f) /\ IsPending(f) /\ (IsAdmissible(f) <=> ~r.refused)
    <3>1. IsPending(f)
      BY <1>3, <1>6, <1>9 DEF IsPending
    <3>2. \A k \in DOMAIN inbox[c] : IsSequence(inbox[c][k]) /\ inbox[c][k].id = f[2] => k = 1
      <4>1. \A i, l \in DOMAIN inbox[c] :
                 /\ IsSequence(inbox[c][i]) /\ IsSequence(inbox[c][l])
                 /\ inbox[c][i].id = inbox[c][l].id
                 => i = l
        BY WaitingIds DEF Ground
      <4>2. 1 \in DOMAIN inbox[c] /\ IsSequence(inbox[c][1]) /\ inbox[c][1].id = f[2]
        BY <1>3, <1>6, <1>9
      <4> HIDE DEF n
      <4> QED
        BY <4>1, <4>2
    <3>3. IsAdmissible(f) <=> ~r.refused
      BY <1>3, <1>4, <1>6, <1>9, <3>2 DEF IsAdmissible
    <3> QED
      BY <3>1, <3>3 DEF OutcomesHold
  <2>3. /\ ~Runs(f) /\ f \notin begun
        /\ entries[f].state \notin {"running", "settled"}
    BY <1>4, <1>9, <2>2 DEF Runs, Outcome
  <2>4. entries[f].state \in {"none", "queued", "not_started"}
    BY <2>3 DEF Ground, RecordsTypeOK, Entry
  <2>5. f[2] <= sent[c]
    BY <1>3, <1>6, <1>9 DEF Ground, LinesInOrder, Numbered
  <2>6. ~\E j \in DOMAIN inbox'[c] : IsSequence(inbox'[c][j]) /\ inbox'[c][j].id = f[2]
    BY <1>7, <1>9
  <2>7. CASE ~session[c]
    <3>1. entries[f].state = "none" /\ Ages(f) /\ next \notin EarlyPhases \cup StepPhases
      BY <1>1, <1>9, <2>2, <2>7 DEF Outcome
    <3>2. entries'[f].state = "none"
      BY <3>1 DEF Ages, Final
    <3>3. ~Runs(f)'
      BY <1>2, <1>9, <3>1 DEF Runs
    <3> QED
      BY <1>2, <2>3, <3>1, <3>2, <3>3 DEF Outcome, Turns
  <2>8. CASE session[c] /\ next \notin EarlyPhases \cup StepPhases
    <3>1. Becomes(f, "not_started")
      BY <1>1, <1>9, <2>1, <2>8, StagesApart DEF EarlyPhases
    <3>2. ~IsAdmissible(f)' /\ ~IsPending(f)' /\ ~Runs(f)'
      BY <1>2, <1>9, <2>6, <2>8 DEF IsAdmissible, IsPending, Runs, IsSequence
    <3>3. Outcome(f)'
      BY <1>2, <1>9, <2>3, <2>5, <2>8, <3>1, <3>2 DEF Outcome, Becomes
    <3> QED
      BY <2>4, <3>1, <3>3 DEF Turns
  <2>9. CASE session[c] /\ ~(next \notin EarlyPhases \cup StepPhases)
    <3>1. next = "admitting" /\ Ages(f)
      BY <1>1, <2>9
    <3>2. "admitting" \in EarlyPhases /\ "admitting" \notin StepPhases
      BY DEF EarlyPhases, StepPhases
    <3>3. IsPending(f)' /\ (IsAdmissible(f)' <=> ~r.refused) /\ ~Runs(f)'
      BY <1>2, <1>9, <2>6, <3>1, <3>2 DEF IsPending, IsAdmissible, Runs, IsSequence
    <3>4. LeavesAlone(f)
      BY <1>2, <1>5, <1>9, <2>2, <2>3, <3>3 DEF LeavesAlone
    <3> QED
      BY <1>2, <1>9, <2>2, <3>1, <3>4, AgingKeepsOutcome DEF Ground, LinesInOrder
  <2> QED
    BY <2>7, <2>8, <2>9
<1>10. Staged(c)'
  <2>1. CASE next \notin EarlyPhases \cup StepPhases
    BY <1>2, <2>1, StagesApart DEF Staged
  <2>2. CASE next = "admitting" /\ r.kind = "sequence" /\ IsRecorded(<<c, r.id>>)
    <3>1. Current(c)' = <<c, r.id>>
      BY <1>2 DEF Current
    <3>2. OnRecord(Current(c))'
      BY <2>2, <3>1 DEF OnRecord, IsRecorded
    <3> QED
      BY <1>2, <2>2, <3>2 DEF Staged
  <2> QED
    BY <1>1, <2>1, <2>2
<1>11. ASSUME NEW f \in Frames, f[1] = c
       PROVE  Outcome(f)' /\ Turns(f)
  <2>1. CASE f[2] = r.id /\ IsSequence(r)
    BY <1>9, <1>11, <2>1
  <2>2. CASE f[2] # r.id
    <3>1. f \in Frames \ {<<c, r.id>>}
      BY <2>2
    <3> QED
      BY <1>1, <1>8, <1>11, <2>2, <3>1 DEF OthersAge
  <2>3. CASE ~IsSequence(r)
    <3>1. next \notin EarlyPhases \cup StepPhases /\ Ages(f)
      BY <1>1, <2>3 DEF IsSequence
    <3> QED
      BY <1>8, <1>11, <2>3, <3>1
  <2> QED
    BY <2>1, <2>2, <2>3
<1> QED
  BY <1>10, <1>11 DEF Good

(* A step of one connection only ages the frames of the others.            *)
LEMMA OthersOnlyAge ==
    ASSUME Ground, Ground', OutcomesHold, NEW c \in Channels, Environment(c) \/ Endpoint(c),
           NEW f \in Frames, f[1] # c
    PROVE  Outcome(f)' /\ Turns(f)
<1>1. LeavesAlone(f)
  BY OthersAreLeftAlone DEF Ground, LinesInOrder
<1>2. \A i : f # <<c, i>>
  OBVIOUS
<1>3. f # Current(c)
  BY <1>2 DEF Current
<1>4. ASSUME NEW g, OthersAge(g), f # g
      PROVE  Ages(f)
  BY <1>4 DEF OthersAge
<1>5. Ages(f) /\ (f \in begun' => f \in begun)
  <2>1. CASE LineIsRecorded(c)
    BY <1>2, <1>4, <2>1 DEF LineIsRecorded
  <2>2. CASE FrameIsTaken(c)
    <3>1. begun' = begun
      BY <2>2 DEF FrameIsTaken, Taking, Take, history
    <3>2. (\A g \in Frames : Ages(g)) \/ \E i : OthersAge(<<c, i>>)
      BY <2>2 DEF FrameIsTaken
    <3> QED
      BY <1>2, <1>4, <3>1, <3>2
  <2>3. CASE FrameIsTurnedAway(c) \/ FrameIsStarted(c) \/ FrameIsSettled(c)
    BY <1>3, <1>4, <2>3 DEF FrameIsTurnedAway, FrameIsStarted, FrameIsSettled, Moves
  <2>4. CASE FramesRest(c)
    BY <1>3, <2>4 DEF FramesRest
  <2> QED
    BY <2>1, <2>2, <2>3, <2>4, StepsOfFrames DEF Ground
<1>6. f[1] \in Channels
  BY FrameParts
<1>7. KeepsRecord(f[1])
  BY <1>6, StepsKeepRecords
<1> QED
  BY <1>1, <1>5, <1>7, AgingKeepsOutcome DEF Ground, LinesInOrder, OutcomesHold

(* Nor does it touch the sequence another connection has in turn.          *)
LEMMA OthersStayStaged ==
    ASSUME Ground, Ground', OutcomesHold, NEW c \in Channels, Environment(c) \/ Endpoint(c),
           NEW d \in Channels \ {c}
    PROVE  Staged(d)'
<1>1. phase'[d] = phase[d] /\ frame'[d] = frame[d]
  BY OthersRest DEF LinesOf, Ground, LinesInOrder
<1>2. SUFFICES ASSUME phase[d] \in SequencePhases
               PROVE  OnRecord(Current(d))'
  BY <1>1 DEF Staged, OutcomesHold
<1>3. PICK f : f = Current(d)
  OBVIOUS
<1>4. f \in Frames /\ f[1] = d
  BY <1>2, <1>3, FrameInTurn, FrameParts DEF Ground, Working, Current
<1>5. OnRecord(f) /\ session[d]
  BY <1>2, <1>3 DEF OutcomesHold, Staged, Ground, Discipline
<1>6. OnRecord(f)'
  BY <1>4, <1>5, StepsKeepRecords, RecordsStay DEF Ground
<1> QED
  BY <1>1, <1>3, <1>6 DEF Current

(* Every step keeps the outcomes of all frames.                            *)
LEMMA StepsKeepOutcomes ==
    ASSUME Ground, Ground', OutcomesHold, NEW c \in Channels, Environment(c) \/ Endpoint(c)
    PROVE  OutcomesHold' /\ \A f \in Frames : Turns(f)
<1>1. KeepsRecord(c)
  BY StepsKeepRecords
<1>2. Good(c)
  BY <1>1, StepsOfFrames, RecordingIsGood, TakingIsGood, TurningAwayIsGood, StartingIsGood,
     SettlingIsGood, RestIsGood DEF Ground
<1>3. \A d \in Channels : Staged(d)'
  BY <1>2, OthersStayStaged DEF Good
<1>4. \A f \in Frames : Outcome(f)' /\ Turns(f)
  BY <1>2, OthersOnlyAge DEF Good
<1> QED
  BY <1>3, <1>4 DEF OutcomesHold

(* A step of something else changes no frame.                              *)
LEMMA StillKeepsOutcomes ==
    ASSUME OutcomesHold, UNCHANGED vars
    PROVE  OutcomesHold' /\ \A f \in Frames : Turns(f)
<1>1. UNCHANGED <<entries, channels, phase, frame, inbox, session, sent, begun>>
  BY DEF vars, ledgerVars, channelVars, history
<1>2. OutcomesHold'
  BY <1>1 DEF OutcomesHold, Staged, Outcome, Live, OnRecord, Runs, IsPending, IsAdmissible,
     IsSequence, Current
<1>3. \A f \in Frames : Ages(f)
  BY <1>1 DEF Ages
<1> QED
  BY <1>2, <1>3 DEF Turns

(* No frame has an outcome at first.                                       *)
LEMMA InitOutcomes == Init => OutcomesHold
<1> SUFFICES ASSUME Init
             PROVE  OutcomesHold
  OBVIOUS
<1>1. \A c \in Channels : Staged(c)
  BY DEF Init, Staged, SequencePhases, StepPhases
<1>2. ASSUME NEW f \in Frames
      PROVE  Outcome(f)
  <2>1. f[1] \in Channels
    BY FrameParts
  <2>2. entries[f].state = "none" /\ begun = {}
    BY DEF Init, LedgerInit, NoEntry
  <2>3. ~Runs(f)
    BY <2>1 DEF Init, Runs, StepPhases
  <2> QED
    BY <2>2, <2>3 DEF Outcome
<1> QED
  BY <1>1, <1>2 DEF OutcomesHold

(* The parts of the daemon's invariant hold together.                      *)
THEOREM TheGroundHolds == Spec => []Ground
<1>1. LedgerInvariant => RecordsTypeOK
  BY DEF LedgerInvariant
<1>2. Init => Discipline
  BY DEF Init, Discipline, HelloPhases, SequencePhases, StepPhases
<1>3. FramesFit /\ RecordsTypeOK /\ Discipline /\ LinesInOrder => Ground
  BY DEF Ground
<1> QED
  BY <1>1, <1>2, <1>3, FramesAlwaysFit, TheLedgerIsSoundInTheDaemon, LinesAreAlwaysInOrder,
     StepsKeepDiscipline, PTL DEF Spec

(* So the outcomes are inductive.                                          *)
LEMMA AnyStepKeepsOutcomes ==
    Ground /\ Ground' /\ OutcomesHold /\ [Next]_vars
        => OutcomesHold' /\ \A f \in Frames : Turns(f)
BY StepsKeepOutcomes, StillKeepsOutcomes DEF Next

(* The ledger and the endpoint tasks agree on every frame, whatever hosts  *)
(* send and however their tasks, a take over and an eviction interleave.   *)
THEOREM OutcomesAlwaysHold == Spec => []OutcomesHold
BY InitOutcomes, AnyStepKeepsOutcomes, TheGroundHolds, PTL DEF Spec

(* No close, refusal or eviction leaves a frame "running" for ever or      *)
(* drops one that runs: an entry runs if and only if its connection is     *)
(* running that frame, and one that waits is still with its connection.    *)
THEOREM OpenFramesAreServed == Spec => []OpenEntriesAreServed
<1>1. Ground /\ OutcomesHold => OpenEntriesAreServed
  <2> SUFFICES ASSUME Ground, OutcomesHold, NEW f \in Frames
               PROVE  /\ (entries[f].state = "running") <=>
                            (phase[f[1]] \in StepPhases /\ Current(f[1]) = f)
                      /\ entries[f].state = "queued" =>
                            \E r \in Unserved(f[1]) :
                                r.id = f[2] /\ IsSequence(r) /\ ~r.refused
    BY DEF OpenEntriesAreServed
  <2>1. f[1] \in Channels /\ f = <<f[1], f[2]>>
    BY FrameParts DEF Frames
  <2>2. Outcome(f) /\ Staged(f[1])
    BY <2>1 DEF OutcomesHold
  <2>3. Current(f[1]) = f <=> frame[f[1]].id = f[2]
    BY <2>1 DEF Current
  <2>4. (entries[f].state = "running") <=> (phase[f[1]] \in StepPhases /\ Current(f[1]) = f)
    BY <2>2, <2>3 DEF Outcome, Runs
  <2>5. ASSUME entries[f].state = "queued"
        PROVE  \E r \in Unserved(f[1]) : r.id = f[2] /\ IsSequence(r) /\ ~r.refused
    <3>1. IsAdmissible(f)
      BY <2>2, <2>5 DEF Outcome
    <3>2. CASE phase[f[1]] \in EarlyPhases /\ frame[f[1]].id = f[2] /\ ~frame[f[1]].refused
      <4>1. frame[f[1]].kind = "sequence" /\ frame[f[1]] \in Unserved(f[1])
        BY <2>2, <3>2 DEF Staged, SequencePhases, EarlyPhases, Unserved, Working
      <4> QED
        BY <3>2, <4>1 DEF IsSequence
    <3>3. ASSUME NEW k \in DOMAIN inbox[f[1]], IsSequence(inbox[f[1]][k]),
                 inbox[f[1]][k].id = f[2], ~inbox[f[1]][k].refused
          PROVE  \E r \in Unserved(f[1]) : r.id = f[2] /\ IsSequence(r) /\ ~r.refused
      <4>1. inbox[f[1]][k] \in Unserved(f[1])
        BY DEF Unserved
      <4> QED
        BY <3>3, <4>1
    <3> QED
      BY <3>1, <3>2, <3>3 DEF IsAdmissible
  <2> QED
    BY <2>4, <2>5
<1> QED
  BY <1>1, TheGroundHolds, OutcomesAlwaysHold, PTL

(* "Nothing of it ran, and nothing ever will": of a frame the ledger       *)
(* answers not started for, by its entry or by the record of its stopped   *)
(* channel, no step has begun.                                             *)
THEOREM WhatDidNotStartNeverRan == Spec => []NothingOfNotStartedRan
<1>1. Ground /\ OutcomesHold => NothingOfNotStartedRan
  <2> SUFFICES ASSUME Ground, OutcomesHold, NEW f \in Frames, Status(f) = "not_started",
                      f \in begun
               PROVE  FALSE
    BY DEF NothingOfNotStartedRan
  <2>1. entries[f].state \in {"running", "settled", "none"} /\ OnRecord(f)
    BY DEF OutcomesHold, Outcome
  <2> QED
    BY <2>1 DEF Status, OnRecord
<1> QED
  BY <1>1, TheGroundHolds, OutcomesAlwaysHold, PTL

(* A final answer that is on record stays, or is forgotten with its        *)
(* record.                                                                 *)
LEMMA FinalAnswerStays ==
    ASSUME Ground, Ground', OutcomesHold, NEW f \in Frames, Turns(f), KeepsRecord(f[1]),
           channels[f[1]].state = "stopped" => ~Live(f[1])',
           Status(f) \in {"settled", "not_started"}, ~Unrecorded(f)
    PROVE  Status(f)' \in {Status(f), "unknown"}
<1>1. f[1] \in Channels /\ f[2] \in Nat
  BY FrameParts, IdsAreNumbers
<1>2. Outcome(f)
  BY DEF OutcomesHold
<1>3. entries[f].state \in {"none", "queued", "running", "settled", "not_started"}
      /\ channels[f[1]].state \in {"unknown", "live", "stopped"}
      /\ entries'[f].state \in {"none", "queued", "running", "settled", "not_started"}
      /\ channels'[f[1]].state \in {"unknown", "live", "stopped"}
  BY <1>1 DEF Ground, RecordsTypeOK, Entry, Channel
<1>4. CASE entries[f].state # "none"
  <2>1. entries[f].state = Status(f) /\ entries[f].state \in {"settled", "not_started"}
    BY <1>3, <1>4 DEF Status
  <2>2. entries'[f].state \in {entries[f].state, "none"}
    BY <2>1 DEF Turns, Ages, Becomes, Final
  <2>3. OnRecord(f)
    <3>1. channels[f[1]].last_received \in Nat
      <4>1. channels[f[1]].last_received \in Ids \cup {0}
        BY <1>1 DEF Ground, RecordsTypeOK, Channel
      <4> QED
        BY <4>1, IdsAreNumbers
    <3> QED
      BY <1>1, <1>4, <3>1 DEF Unrecorded, OnRecord
  <2>4. OnRecord(f)'
    BY <1>2, <1>4, <2>3, RecordsStay DEF Ground, Outcome
  <2>5. CASE entries'[f].state = entries[f].state
    BY <2>1, <2>5 DEF Status
  <2>6. CASE entries'[f].state = "none"
    BY <2>4, <2>6 DEF Status, OnRecord
  <2> QED
    BY <2>2, <2>5, <2>6
<1>5. CASE entries[f].state = "none"
  <2>1. Status(f) = "not_started" /\ channels[f[1]].state = "stopped"
    BY <1>3, <1>5 DEF Status, Live
  <2>2. entries'[f].state \in {"none", "not_started"}
    BY <1>5, <2>1 DEF Turns, Ages, Becomes, Final, Live
  <2> QED
    BY <2>1, <2>2 DEF Status, Live
<1> QED
  BY <1>4, <1>5

(* An answer that a frame is settled or did not start is never taken       *)
(* back: a later one says the same, or that it is no longer known.         *)
THEOREM FinalAnswersAlwaysStand == Spec => FinalAnswersStand
<1>1. ASSUME Ground, Ground', OutcomesHold, LedgerInvariant, [Next]_vars, NEW f \in Frames,
             Status(f) \in {"settled", "not_started"}, ~Unrecorded(f)
      PROVE  Status(f)' \in {Status(f), "unknown"} \/ UNCHANGED vars
  <2>1. CASE Next
    <3>1. PICK c \in Channels : Environment(c) \/ Endpoint(c)
      BY <2>1 DEF Next
    <3>2. f[1] \in Channels
      BY FrameParts
    <3>3. KeepsRecord(f[1])
      BY <1>1, <3>1, <3>2, StepsKeepRecords
    <3>4. Turns(f)
      BY <1>1, AnyStepKeepsOutcomes
    <3>5. channels[f[1]].state = "stopped" => ~Live(f[1])'
      <4>1. [LedgerNext]_ledgerVars
        BY <1>1, <2>1, NextRegular DEF Ground, Regular
      <4>2. CASE LedgerNext
        BY <1>1, <3>2, <4>2, NextInvariant DEF StopStays, Live
      <4>3. CASE UNCHANGED ledgerVars
        BY <4>3 DEF ledgerVars, Live
      <4> QED
        BY <4>1, <4>2, <4>3
    <3> QED
      BY <1>1, <3>3, <3>4, <3>5, FinalAnswerStays
  <2> QED
    BY <1>1, <2>1
<1>2. Ground /\ Ground' /\ OutcomesHold /\ LedgerInvariant /\ [Next]_vars
          => [\A f \in Frames :
                 Status(f) \in {"settled", "not_started"} /\ ~Unrecorded(f)
                     => Status(f)' \in {Status(f), "unknown"}]_vars
  BY <1>1
<1> QED
  BY <1>2, TheGroundHolds, OutcomesAlwaysHold, TheLedgerIsSoundInTheDaemon, PTL
     DEF Spec, FinalAnswersStand

-----------------------------------------------------------------------------
(* Every variable of the daemon keeps its shape.                           *)

(* What no other invariant says: who acted, what is held, and the history. *)
TracesTyped ==
    /\ closed \in [Channels -> BOOLEAN]
    /\ actor \in Channels \cup {NoChannel}
    /\ held \in Channels \cup {NoChannel}
    /\ acted \in Channels \cup {NoChannel}
    /\ begun \subseteq Frames
    /\ told \subseteq Frames
    /\ leftover \in BOOLEAN

(* Few steps change any of it.                                             *)
LEMMA StepsLeaveTraces ==
    ASSUME NEW c \in Channels, Environment(c) \/ Endpoint(c)
    PROVE  /\ closed' = closed \/ closed' = [closed EXCEPT ![c] = TRUE]
           /\ actor' \in {actor, c, NoChannel}
           /\ held' \in {held, c, NoChannel}
           /\ acted' \in {acted, c}
           /\ \/ begun' = begun
              \/ phase[c] = "waiting" /\ begun' = begun \cup {Current(c)}
           /\ told' = told \/ told' = told \cup {frame[c].of}
           /\ leftover' = leftover \/ leftover' \in BOOLEAN
<1>1. CASE Close(c)
  BY <1>1 DEF Close, browserVars, history
<1>2. CASE BeginStep(c)
  BY <1>2 DEF BeginStep
<1>3. CASE EndStep(c)
  BY <1>3 DEF EndStep
<1>4. CASE Release(c)
  BY <1>4 DEF Release, FinishInput, history
<1>5. CASE AnswerOpStatus(c)
  BY <1>5 DEF AnswerOpStatus, browserVars
<1>6. CASE Arrive(c) \/ ArriveGarbled(c) \/ ReplyFails(c)
  BY <1>6 DEF Arrive, ArriveGarbled, ReplyFails, browserVars, history
<1>7. CASE TakeFrame(c)
  BY <1>7 DEF TakeFrame, TakeGarbled, TakeRefused, TakeHello, TakeSequence, TakeOpStatus, Take,
     browserVars, history
<1>8. CASE Hello(c)
  BY <1>8 DEF Hello, RefuseHello, OpenHello, ReceiveHello, RegisterHello, EndFencedHello,
     Establish, Process, browserVars, history
<1>9. CASE Sequence(c) /\ ~BeginStep(c) /\ ~EndStep(c)
  BY <1>9 DEF Sequence, RefuseSecondSequence, AdmitSequence, RefuseFencedSequence, RejectSteps,
     StartSequence, NextStep, LastStep, QueueLandingRead, LandWithoutRead, ReadLanding,
     FinishSequence, SettleSequence, Process, Queue, GiveBack, browserVars, history
<1>10. CASE OpStatus(c) /\ ~AnswerOpStatus(c)
  BY <1>10 DEF OpStatus, ReceiveOpStatus, RegisterAsker, RetainResult, Process, browserVars,
     history
<1>11. CASE Reply(c) \/ (EndOfConnection(c) /\ ~Release(c))
  BY <1>11 DEF Reply, EndOfConnection, Drained, EndSession, EndUnopened, QueueRelease, Process,
     Queue, browserVars, history
<1> QED
  BY <1>1, <1>2, <1>3, <1>4, <1>5, <1>6, <1>7, <1>8, <1>9, <1>10, <1>11
     DEF Environment, Endpoint

(* So it keeps its shape: the frame of a step that begins has an id.       *)
LEMMA StepsKeepTraces ==
    ASSUME FramesFit, TracesTyped, NEW c \in Channels, Environment(c) \/ Endpoint(c)
    PROVE  TracesTyped'
<1>1. frame[c].of \in Frames
  BY DEF FramesFit, Usable, FrameRecord
<1>2. ASSUME phase[c] = "waiting"
      PROVE  Current(c) \in Frames
  <2>1. frame[c].kind # "garbled" /\ frame[c] \in Usable
    BY <1>2 DEF FramesFit, Fits, Working, SequencePhases, StepPhases
  <2>2. frame[c].id \in Ids
    BY <2>1 DEF Usable
  <2> QED
    BY <2>2, FrameParts DEF Current
<1>3. closed' \in [Channels -> BOOLEAN]
  BY StepsLeaveTraces DEF TracesTyped
<1>4. /\ actor' \in Channels \cup {NoChannel}
      /\ held' \in Channels \cup {NoChannel}
      /\ acted' \in Channels \cup {NoChannel}
  BY StepsLeaveTraces DEF TracesTyped
<1>5. begun' \subseteq Frames /\ told' \subseteq Frames
  BY <1>1, <1>2, StepsLeaveTraces DEF TracesTyped
<1>6. leftover' \in BOOLEAN
  BY StepsLeaveTraces DEF TracesTyped
<1> QED
  BY <1>3, <1>4, <1>5, <1>6 DEF TracesTyped

(* Every variable of the daemon's channels keeps the shape the code gives  *)
(* it: the count of unanswered sequences never falls below zero, so the    *)
(* saturating subtraction of the code never has to, and custody is only    *)
(* ever given back by a task that has it.                                  *)
THEOREM ChannelsAreTyped == Spec => []TypeOK
<1>1. Init => TracesTyped
  BY DEF Init, TracesTyped
<1>2. FramesFit /\ TracesTyped /\ [Next]_vars => TracesTyped'
  <2>1. TracesTyped /\ UNCHANGED vars => TracesTyped'
    BY DEF TracesTyped, vars, channelVars, browserVars, history
  <2> QED
    BY <2>1, StepsKeepTraces DEF Next
<1>3. ASSUME Ground, LedgerFits, Releaser, TracesTyped
      PROVE  TypeOK
  <2>1. LedgerTypeOK
    BY <1>3 DEF LedgerFits
  <2>2. Usable \subseteq FrameRecord
    BY DEF Usable
  <2>3. /\ phase \in [Channels -> Phases]
        /\ frame \in [Channels -> FrameRecord]
    BY <1>3, <2>2 DEF Ground, FramesFit
  <2>4. \A c \in Channels : inbox[c] \in Seq(FrameRecord)
    <3> TAKE c \in Channels
    <3>1. inbox[c] \in Seq(Usable)
      BY <1>3 DEF Ground, FramesFit
    <3> QED
      BY <2>2, <3>1, ElementOfSeq, LenProperties, SeqDef
  <2>5. /\ sent \in [Channels -> Ids \cup {0}]
        /\ session \in [Channels -> BOOLEAN]
        /\ unanswered \in [Channels -> Nat]
        /\ late \in [Channels -> Nat]
    BY <1>3 DEF Ground, Discipline, LinesInOrder, LinesTyped
  <2>6. custody \in Seq(Channels)
    BY <1>3 DEF Releaser
  <2> QED
    BY <1>3, <2>1, <2>3, <2>4, <2>5, <2>6 DEF TracesTyped, TypeOK
<1> QED
  BY <1>1, <1>2, <1>3, FramesAlwaysFit, TheGroundHolds, TheLedgerFitsInTheDaemon,
     StepsRunUnderCustody, PTL DEF Spec
=============================================================================
