--------------------------- MODULE BrowserControl ---------------------------
(***************************************************************************)
(* Who may act on the browser: the leases of the people who take it over,  *)
(* the agent's commands and the input either leaves down                   *)
(* (src/cli/src/native/browser_control.rs), with the sign-in mode that     *)
(* relaunches the browser under a lease (src/cli/src/native/sign_in.rs)    *)
(* and the daemon's takeover requests (src/cli/src/native/daemon.rs).      *)
(*                                                                         *)
(* The browser owns a native window: a display helper performs input and   *)
(* releases what is down.  An action is one hold of command custody, or of *)
(* the control gate alone; only an agent's command, a launch of the        *)
(* sign-in browser and a hand-back keep custody over several.              *)
(***************************************************************************)
EXTENDS Naturals

CONSTANTS
    Agent,          \* the agent
    Controllers,    \* the controller ids people acquire under
    Nobody,         \* no controller
    MaxSequence,    \* the bound on input sequence numbers
    Eager,          \* controllers that send input after asking for release
    Returning       \* controllers that acquire once another replaced them

ASSUME ActorsAssumption == Agent \notin Controllers /\ Nobody \notin Controllers \cup {Agent}
ASSUME SequenceAssumption == MaxSequence \in Nat
ASSUME HabitsAssumption == Eager \subseteq Controllers /\ Returning \subseteq Controllers

VARIABLES
    lease,          \* the person's lease
    lastReleased,   \* the controller of the last lease that was ended
    owes,           \* needs_observation: the agent must look before it acts
    uncertain,      \* stream_outcome_unknown: a takeover's reset is unproven
    mouse,          \* what the agent's own devices remember of its input
    display,        \* the window's display helper
    hands,          \* whose keys or buttons the helper may hold down
    browser,        \* which browser runs
    custody,        \* the work that keeps command custody
    waiting,        \* the takeovers asked for and not yet answered
    channel,        \* the agent channel whose steps act
    controlled,     \* history: the controllers that ever got a lease
    sent,           \* history: sent[c][n], the times batch n of c had effect
    unseen          \* history: the agent has not seen the latest effects

agentVars == <<owes, mouse, channel>>
deviceVars == <<display, hands, browser>>
personVars == <<lease, lastReleased, uncertain, waiting>>
historyVars == <<controlled, sent, unseen>>
vars == <<personVars, agentVars, deviceVars, custody, historyVars>>

NoLease == [owner |-> Nobody, live |-> FALSE, last |-> 0, unknown |-> FALSE,
            pending |-> FALSE, signIn |-> "no"]

Lease == [owner : Controllers \cup {Nobody}, live : BOOLEAN, last : 0 .. MaxSequence,
          unknown : BOOLEAN, pending : BOOLEAN, signIn : {"no", "active", "idle"}]

(* An agent's command is an observation, one that names its target, or     *)
(* input to wherever focus and the pointer are.                            *)
Commands == {"observe", "named", "blind"}
Relaunches == {"signIn", "handBack", "handedBack"}

Init ==
    /\ lease = NoLease /\ lastReleased = Nobody
    /\ owes = FALSE /\ uncertain = FALSE
    /\ mouse = "clear" /\ hands = {}
    /\ display = "up" /\ browser = "automation"
    /\ custody = "free" /\ waiting = {} /\ channel = "open"
    /\ controlled = {} /\ unseen = FALSE
    /\ sent = [c \in Controllers |-> [n \in 1 .. MaxSequence |-> 0]]

-----------------------------------------------------------------------------
(* What the code reads.                                                    *)

SigningIn == lease.signIn # "no"

HoldsCustody == SigningIn \/ lease.live \/ lease.pending

AgentError == HoldsCustody \/ waiting # {}

(* Mutant: only an idle person's sign-in is ended.                         *)
SignInIdle == lease.signIn = "idle"
SignInDue == SigningIn /\ (~lease.live \/ lease.signIn = "idle")

(* What every command runs first, and the maintenance tick: a sign-in that *)
(* is due is handed back, and a lapsed lease neutralises its input.        *)
Maintained == custody = "free" /\ ~SignInDue
Settled == lease.live \/ ~lease.pending

-----------------------------------------------------------------------------
(* The display helper.                                                     *)

(* A reset releases every key and button, or its outcome is unknown: the   *)
(* helper refused it, or its connection broke and it released them then.   *)
ResetConfirmed ==
    /\ display = "up"
    /\ hands' = {}
    /\ UNCHANGED <<display, browser>>

DisplayBroken ==
    /\ display # "none"
    /\ display' = "failed"
    /\ hands' = {}
    /\ UNCHANGED browser

ResetUnconfirmed == DisplayBroken \/ (display = "up" /\ UNCHANGED deviceVars)

(* Its connection breaks at any other request.                             *)
DisplayFails ==
    /\ display = "up"
    /\ DisplayBroken
    /\ UNCHANGED <<personVars, agentVars, custody, historyVars>>

(* A browser launched over a new display: nothing is down there.           *)
Launched(which) ==
    /\ browser' = which
    /\ display' = "up"
    /\ hands' = {}
    /\ mouse' = "clear"

(* Mutant: a browser that goes keeps its person's lease.                   *)
GoneUnderLease ==
    /\ browser' = "none" /\ display' = "none" /\ hands' = {}
    /\ mouse' = "clear" /\ uncertain' = FALSE
    /\ UNCHANGED <<lease, lastReleased>>

(* No browser is left: reset_browser forgets its input and its lease.      *)
Gone ==
    /\ browser' = "none" /\ display' = "none" /\ hands' = {}
    /\ mouse' = "clear" /\ uncertain' = FALSE
    /\ lease' = NoLease
    /\ lastReleased' = IF lease.owner # Nobody THEN lease.owner ELSE lastReleased

-----------------------------------------------------------------------------
(* Takeovers.                                                              *)

(* A person asks for the browser: the agent learns of it before the        *)
(* request has command custody.                                            *)
Ask(c) ==
    /\ c \notin waiting
    /\ waiting' = waiting \cup {c}
    /\ UNCHANGED <<lease, lastReleased, uncertain, agentVars, deviceVars, custody, historyVars>>

(* Custody did not come within two seconds.                                *)
GiveUp(c) ==
    /\ c \in waiting
    /\ waiting' = waiting \ {c}
    /\ UNCHANGED <<lease, lastReleased, uncertain, agentVars, deviceVars, custody, historyVars>>

(* Why a request with custody is answered without a new lease.             *)
Refused(c) == lease.owner = c \/ HoldsCustody \/ lastReleased = c \/ browser = "none" \/ uncertain

AcquireRefused(c) ==
    /\ c \in waiting
    /\ Maintained
    /\ Refused(c)
    /\ waiting' = waiting \ {c}
    /\ UNCHANGED <<lease, lastReleased, uncertain, agentVars, deviceVars, custody, historyVars>>

(* Only the last released controller is remembered: an older one that asks *)
(* again, or whose first request comes again late, gets the browser again. *)
(* Only those Returning do so.                                             *)
Acquiring(c) ==
    /\ c \in waiting
    /\ Maintained
    /\ Settled
    /\ ~Refused(c)
    /\ c \in controlled => c \in Returning
    /\ waiting' = waiting \ {c}

(* What the agent holds down is not proven released; no lease is granted,  *)
(* now or later, until the browser is replaced.                            *)
AcquireFails(c) ==
    /\ Acquiring(c)
    /\ ResetUnconfirmed
    /\ uncertain' = TRUE
    /\ UNCHANGED <<lease, lastReleased, agentVars, custody, historyVars>>

(* The reset took longer than the lease was to last.                       *)
AcquireLate(c) ==
    /\ Acquiring(c)
    /\ ResetConfirmed
    /\ mouse' = "clear"
    /\ lease' \in {lease, NoLease}
    /\ UNCHANGED <<lastReleased, uncertain, owes, channel, custody, historyVars>>

Grant(c) ==
    /\ Acquiring(c)
    /\ mouse' = "clear"
    /\ lease' = [NoLease EXCEPT !.owner = c, !.live = TRUE]
    /\ controlled' = controlled \cup {c}
    /\ UNCHANGED <<lastReleased, uncertain, channel, custody, sent, unseen>>

(* Mutant: what the agent holds down is not reset.                         *)
AcquireUnreset(c) == Grant(c) /\ UNCHANGED deviceVars /\ owes' = TRUE

(* Mutant: the agent need not look again.                                  *)
AcquireUnseen(c) == Grant(c) /\ ResetConfirmed /\ UNCHANGED owes

(* The person gets a lease; the agent must look again after it.            *)
Acquire(c) == Grant(c) /\ ResetConfirmed /\ owes' = TRUE

-----------------------------------------------------------------------------
(* A lease runs out, or is released.                                       *)

(* Its deadline passes (a renewal only moves the deadline).                *)
Lapse ==
    /\ lease.live
    /\ lease' = [lease EXCEPT !.live = FALSE]
    /\ UNCHANGED <<lastReleased, uncertain, waiting, agentVars, deviceVars, custody, historyVars>>

(* The person signing in sends nothing for the idle timeout.               *)
IdleTooLong ==
    /\ lease.signIn = "active"
    /\ lease' = [lease EXCEPT !.signIn = "idle"]
    /\ UNCHANGED <<lastReleased, uncertain, waiting, agentVars, deviceVars, custody, historyVars>>

(* Input of a lapsed lease is neutralised; until that is proven the lease  *)
(* keeps the browser.                                                      *)
Expire ==
    /\ Maintained
    /\ ~Settled
    /\ \/ ResetConfirmed /\ lease' = [lease EXCEPT !.pending = FALSE]
       \/ ResetUnconfirmed /\ lease' = [lease EXCEPT !.unknown = TRUE]
    /\ UNCHANGED <<lastReleased, uncertain, waiting, agentVars, custody, historyVars>>

Release(c) ==
    /\ Maintained
    /\ lease.owner = c
    /\ ~SigningIn
    /\ \/ /\ IF lease.pending THEN ResetConfirmed ELSE UNCHANGED deviceVars
          /\ lease' = NoLease
          /\ lastReleased' = c
       \/ /\ lease.pending
          /\ ResetUnconfirmed
          /\ lease' = [lease EXCEPT !.unknown = TRUE]
          /\ UNCHANGED lastReleased
    /\ UNCHANGED <<uncertain, waiting, agentVars, custody, historyVars>>

-----------------------------------------------------------------------------
(* A person's input.                                                       *)

Had(c, n) == sent' = [sent EXCEPT ![c][n] = @ + 1]
PerhapsHad(c, n) == Had(c, n) \/ UNCHANGED sent

(* Batch n is the next of a lease whose outcomes are all known.  An older  *)
(* one is acknowledged again and a later one refused; neither has effect.  *)
(* While its sign-in starts the person's next number is that request's,    *)
(* and only the Eager send anything after they asked for release.          *)
NextInLine(c, n) ==
    /\ lease.owner = c
    /\ lease.live
    /\ n = lease.last + 1
    /\ n <= MaxSequence
    /\ custody # "signIn"
    /\ custody \in {"handBack", "handedBack"} => c \in Eager

(* Mutant: an unknown outcome does not stop the next batch.                *)
NextThoughUnknown(c, n) == NextInLine(c, n)
NextBatch(c, n) == NextInLine(c, n) /\ ~lease.unknown

(* A batch that had effect consumes its number.                            *)
Applied(n) ==
    [lease EXCEPT !.last = n, !.signIn = IF SigningIn THEN "active" ELSE "no"]

(* Mouse and keyboard batches need the gate only.  The helper performs one *)
(* (a refusal leaves everything as it was).                                *)
InputApplied(c, n) ==
    /\ NextBatch(c, n)
    /\ display = "up"
    /\ ~SignInDue
    /\ hands' \in {hands \cup {c}, hands \ {c}}
    /\ lease' = [Applied(n) EXCEPT !.pending = TRUE]
    /\ Had(c, n)
    /\ unseen' = TRUE
    /\ UNCHANGED <<lastReleased, uncertain, waiting, agentVars, display, browser, custody,
                   controlled>>

(* Or it may have performed it: it failed midway, answered too late or     *)
(* broke.  With a broken display the batch waits for custody and fails.    *)
InputUncertain(c, n) ==
    /\ NextBatch(c, n)
    /\ display # "none"
    /\ IF display = "up" THEN ~SignInDue ELSE Maintained
    /\ \/ DisplayBroken
       \/ /\ display = "up"
          /\ hands' \in {hands, hands \cup {c}}
          /\ UNCHANGED <<display, browser>>
    /\ lease' = [lease EXCEPT !.unknown = TRUE, !.pending = TRUE]
    /\ IF display = "up" THEN PerhapsHad(c, n) ELSE UNCHANGED sent
    /\ unseen' = TRUE
    /\ UNCHANGED <<lastReleased, uncertain, waiting, agentVars, custody, controlled>>

(* A viewport batch needs custody: it resets the helper before the layout. *)
Resize(c, n) ==
    /\ Maintained
    /\ NextBatch(c, n)
    /\ \/ /\ ResetConfirmed
          /\ \/ lease' = [Applied(n) EXCEPT !.pending = FALSE] /\ Had(c, n)
             \/ /\ lease' = [lease EXCEPT !.unknown = TRUE, !.pending = FALSE]
                /\ PerhapsHad(c, n)
       \/ /\ ResetUnconfirmed
          /\ lease' = [lease EXCEPT !.unknown = TRUE]
          /\ UNCHANGED sent
    /\ unseen' = TRUE
    /\ UNCHANGED <<lastReleased, uncertain, waiting, agentVars, custody, controlled>>

(* A navigation goes through DevTools, which a sign-in browser lacks.      *)
Navigate(c, n) ==
    /\ Maintained
    /\ NextBatch(c, n)
    /\ ~SigningIn
    /\ \/ lease' = Applied(n) /\ Had(c, n)
       \/ lease' = [lease EXCEPT !.unknown = TRUE] /\ PerhapsHad(c, n)
    /\ unseen' = TRUE
    /\ UNCHANGED <<lastReleased, uncertain, waiting, agentVars, deviceVars, custody, controlled>>

-----------------------------------------------------------------------------
(* Sign-in: the browser runs without DevTools under the same lease.        *)

SignInBegins(c) ==
    /\ Maintained
    /\ NextBatch(c, lease.last + 1)
    /\ ~SigningIn
    /\ browser = "automation"
    /\ browser' = "changing"
    /\ custody' = "signIn"
    /\ UNCHANGED <<personVars, agentVars, display, hands, historyVars>>

(* begin_sign_in: the lease may have lapsed meanwhile; it keeps the        *)
(* browser until it is handed back.                                        *)
SignInStarts ==
    /\ custody = "signIn"
    /\ custody' = "free"
    /\ Launched("signIn")
    /\ lease' = [lease EXCEPT !.signIn = "active", !.last = @ + 1, !.pending = FALSE]
    /\ owes' = TRUE
    /\ Had(lease.owner, lease.last + 1)
    /\ unseen' = TRUE
    /\ UNCHANGED <<lastReleased, uncertain, waiting, channel, controlled>>

(* The sign-in window did not come up: automation relaunches, if it can,   *)
(* and the lease ends.                                                     *)
SignInFails ==
    /\ custody = "signIn"
    /\ custody' = "free"
    /\ \/ /\ Launched("automation")
          /\ lease' = NoLease
          /\ lastReleased' = lease.owner
          /\ UNCHANGED uncertain
       \/ Gone
    /\ owes' = TRUE
    /\ unseen' = TRUE
    /\ UNCHANGED <<waiting, channel, controlled, sent>>

HandBackBegins ==
    /\ custody = "free"
    /\ browser = "signIn"
    /\ SigningIn
    /\ browser' = "changing"
    /\ custody' = "handBack"
    /\ UNCHANGED <<personVars, agentVars, display, hands, historyVars>>

(* The watchdog hands a due sign-in back, and its owner's release does.    *)
HandBackDue == SignInDue /\ HandBackBegins
HandBackAsked(c) == ~SignInDue /\ lease.owner = c /\ HandBackBegins

(* The sign-in browser has closed and automation runs, or nothing does.    *)
Relaunch ==
    /\ custody = "handBack"
    /\ custody' = "handedBack"
    /\ \/ Launched("automation") /\ UNCHANGED <<lease, lastReleased, uncertain>>
       \/ Gone
    /\ unseen' = TRUE
    /\ UNCHANGED <<waiting, owes, channel, controlled, sent>>

EndLease ==
    /\ custody = "handedBack"
    /\ custody' = "free"
    /\ lease' = NoLease
    /\ lastReleased' = IF lease.owner # Nobody THEN lease.owner ELSE lastReleased
    /\ owes' = TRUE
    /\ UNCHANGED <<uncertain, waiting, mouse, channel, deviceVars, historyVars>>

(* The browser exits by itself: a person closed it, or it crashed.         *)
BrowserExits ==
    /\ custody = "free"
    /\ browser \in {"automation", "signIn"}
    /\ Gone
    /\ UNCHANGED <<waiting, owes, channel, custody, historyVars>>

(* A person restarts it: the agent keeps custody and must look again.      *)
Restart ==
    /\ custody = "free"
    /\ browser = "none"
    /\ Launched("automation")
    /\ owes' = TRUE
    /\ unseen' = TRUE
    /\ UNCHANGED <<personVars, channel, custody, controlled, sent>>

-----------------------------------------------------------------------------
(* The agent.                                                              *)

(* A command passes the gates of run_host_command.                         *)
AgentBegins(kind) ==
    /\ Maintained
    /\ Settled
    /\ channel = "open"
    /\ ~AgentError
    /\ kind = "blind" => ~owes
    /\ custody' = kind
    /\ UNCHANGED <<personVars, agentVars, deviceVars, historyVars>>

AgentLaunches ==
    /\ custody \in Commands
    /\ browser = "none"
    /\ Launched("automation")
    /\ UNCHANGED <<personVars, owes, channel, custody, historyVars>>

AgentCloses ==
    /\ custody = "named"
    /\ browser = "automation"
    /\ Gone
    /\ UNCHANGED <<waiting, owes, channel, custody, historyVars>>

Sending ==
    /\ custody \in {"named", "blind"}
    /\ display # "none"
    /\ ~AgentError
    /\ mouse # "unknown"

AgentInput ==
    /\ Sending
    /\ display = "up"
    /\ \/ mouse' = "held" /\ hands' = hands \cup {Agent}
       \/ mouse' = "clear" /\ hands' = hands \ {Agent}
    /\ UNCHANGED <<personVars, owes, channel, display, browser, custody, historyVars>>

(* What the agent holds down is released, or cannot be proven to be.       *)
AgentReleases ==
    \/ ResetConfirmed /\ mouse' = "clear"
    \/ ResetUnconfirmed /\ mouse' = "unknown"

(* Input that may have happened: the agent releases what it holds and must *)
(* look again.                                                             *)
AgentInputUncertain ==
    /\ Sending
    /\ AgentReleases
    /\ owes' = TRUE
    /\ unseen' = TRUE
    /\ UNCHANGED <<personVars, channel, custody, controlled, sent>>

(* The command exceeds its host's deadline and is dropped: a request it    *)
(* had sent breaks the helper's connection.                                *)
AgentDeadline ==
    /\ custody \in Commands
    /\ custody' = "free"
    /\ owes' = TRUE
    /\ unseen' = TRUE
    /\ IF mouse = "clear" \/ display = "none"
       THEN \/ UNCHANGED <<mouse, deviceVars>>
            \/ DisplayBroken /\ mouse' \in {mouse, "unknown"}
       ELSE AgentReleases
    /\ UNCHANGED <<personVars, channel, controlled, sent>>

(* A snapshot or screenshot that succeeds is the observation owed.         *)
AgentEnds ==
    /\ custody \in Commands
    /\ custody' = "free"
    /\ \/ UNCHANGED <<owes, unseen>>
       \/ custody = "observe" /\ owes' = FALSE /\ unseen' = FALSE
    /\ UNCHANGED <<personVars, mouse, channel, deviceVars, controlled, sent>>

(* The agent's channel ends between two of its steps.                      *)
EndChannel ==
    /\ channel = "open"
    /\ custody \notin Commands
    /\ channel' = "ended"
    /\ UNCHANGED <<personVars, owes, mouse, deviceVars, custody, historyVars>>

(* finish_agent_channel, under custody: what its steps left down is        *)
(* released, but not while a person holds the browser or asks for it.      *)
SettleChannel ==
    /\ channel = "ended"
    /\ custody = "free"
    /\ channel' = "settled"
    /\ IF mouse = "clear" \/ AgentError \/ uncertain \/ browser # "automation"
       THEN UNCHANGED <<mouse, owes, deviceVars>>
       ELSE AgentReleases /\ owes' = (owes \/ mouse' = "unknown")
    /\ UNCHANGED <<personVars, custody, historyVars>>

OpenChannel ==
    /\ channel = "settled"
    /\ channel' = "open"
    /\ UNCHANGED <<personVars, owes, mouse, deviceVars, custody, historyVars>>

-----------------------------------------------------------------------------
PersonSteps(c) ==
    \/ Ask(c) \/ GiveUp(c)
    \/ AcquireRefused(c) \/ AcquireFails(c) \/ AcquireLate(c) \/ Acquire(c)
    \/ Release(c) \/ SignInBegins(c) \/ HandBackAsked(c)
    \/ \E n \in 1 .. MaxSequence :
          InputApplied(c, n) \/ InputUncertain(c, n) \/ Resize(c, n) \/ Navigate(c, n)

AgentSteps ==
    \/ \E kind \in Commands : AgentBegins(kind)
    \/ AgentLaunches \/ AgentCloses \/ AgentInput \/ AgentInputUncertain
    \/ AgentDeadline \/ AgentEnds
    \/ EndChannel \/ SettleChannel \/ OpenChannel

DaemonSteps ==
    \/ DisplayFails \/ Lapse \/ IdleTooLong \/ Expire
    \/ SignInStarts \/ SignInFails \/ HandBackDue \/ Relaunch \/ EndLease
    \/ BrowserExits \/ Restart

Next == (\E c \in Controllers : PersonSteps(c)) \/ AgentSteps \/ DaemonSteps

Spec == Init /\ [][Next]_vars

(* The maintenance tick comes again, and a relaunch is bounded by its      *)
(* deadline.                                                               *)
Fairness == WF_vars(HandBackDue) /\ WF_vars(Relaunch) /\ WF_vars(EndLease)
FairSpec == Spec /\ Fairness

-----------------------------------------------------------------------------
(* The types of the variables; a batch has effect at most twice here only  *)
(* so that a second time can be seen.                                      *)
TypeOK ==
    /\ lease \in Lease
    /\ lastReleased \in Controllers \cup {Nobody}
    /\ owes \in BOOLEAN /\ uncertain \in BOOLEAN /\ unseen \in BOOLEAN
    /\ mouse \in {"clear", "held", "unknown"}
    /\ display \in {"none", "up", "failed"}
    /\ hands \subseteq Controllers \cup {Agent}
    /\ browser \in {"automation", "signIn", "changing", "none"}
    /\ custody \in {"free"} \cup Commands \cup Relaunches
    /\ waiting \subseteq Controllers
    /\ channel \in {"open", "ended", "settled"}
    /\ controlled \subseteq Controllers
    /\ sent \in [Controllers -> [1 .. MaxSequence -> Nat]]

(* Whose browser it is: a person's while their lease holds it, whatever    *)
(* still waits to be neutralised, and the agent's otherwise.               *)
Holder == IF HoldsCustody THEN lease.owner ELSE Agent

Control == INSTANCE ExclusiveControl WITH holder <- Holder

(* Browser control is exclusive: only the holder's keys and buttons can be *)
(* down, nobody takes the browser from a person, and it changes hands with *)
(* nothing down, whatever lapses, is lost, relaunches or fails meanwhile   *)
(* (Operation::Acquire, expire, release_held, reset_browser, sign_in.rs).  *)
ControlIsExclusive == Control!ControlSpec

(* No input batch has effect twice, however often the person repeats it    *)
(* and whatever reply is lost (the reservation in Operation::Input).       *)
EachBatchOnce == \A c \in Controllers, n \in 1 .. MaxSequence : sent[c][n] <= 1

(* A sign-in lease lasts exactly as long as the browser without DevTools   *)
(* does, so every agent command is refused until it is handed back         *)
(* (begin_sign_in, end_lease, reset_browser).                              *)
SignInMatchesBrowser == custody = "free" => (SigningIn <=> browser = "signIn")

(* The agent never sends input to wherever focus or the pointer is when a  *)
(* person, a relaunch or its own uncertain input changed the page since it *)
(* last looked (needs_observation).                                        *)
NothingIsActedOnBlind ==
    [][custody # "blind" /\ custody' = "blind" => ~unseen]_vars

(* A sign-in whose lease lapsed is handed back to the agent, whoever else  *)
(* asks for the browser meanwhile (maintain, hand_back).                   *)
SignInIsHandedBack == SigningIn /\ ~lease.live ~> ~SigningIn

(* When an agent channel has ended and custody was taken to settle it,     *)
(* nothing its steps pressed is still down, unless a person holds the      *)
(* browser or is asking for it.                                            *)
EndedChannelsHoldNothing ==
    channel = "settled" /\ ~AgentError /\ ~uncertain => mouse # "held"
=============================================================================
