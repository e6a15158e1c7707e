--------------------------- MODULE ScriptEmulation --------------------------
(***************************************************************************)
(* What the daemon knows of a page's script execution, and what the page   *)
(* really has (src/cli/src/native/cdp/client.rs).                          *)
(*                                                                         *)
(* One page, and the DevTools sessions attached to it through several      *)
(* WebSocket connections to the browser that share what they know.  Each   *)
(* connection runs its commands in the order they were written; between    *)
(* connections there is no order.  Replies and events are read in any      *)
(* order.  The browser's side is external: a session's setter does nothing *)
(* unless it changes that session's own override, and a detached session's *)
(* override is taken back.                                                 *)
(***************************************************************************)
EXTENDS Naturals

CONSTANTS
    Connections,    \* connections to the browser
    Sessions,       \* session ids, each attached once at most
    Through,        \* Through[s]: the connection session s belongs to
    Inspected,      \* sessions a DevTools frontend sends raw messages to
    Unknown,        \* no answer
    MaxChanges      \* bound on the changes issued to the page

ASSUME ThroughAssumption == Through \in [Sessions -> Connections]
ASSUME InspectedAssumption == Inspected \subseteq Sessions
ASSUME UnknownAssumption == Unknown \notin BOOLEAN \cup Sessions
ASSUME ChangesAssumption == MaxChanges \in Nat

VARIABLES
    attached,       \* target_sessions: the sessions mapped to the page
    reading,        \* connections whose reader runs
    disabled,       \* what is confirmed of the page, or Unknown
    issued,         \* the number of the last change issued
    confirmed,      \* the number disabled was confirmed at
    pending,        \* issued changes without a settled reply
    sessions,       \* what is known of each session's own override
    change,         \* change[o]: the change issued under number o
    tracked,        \* changes whose pending command still awaits its reply
    page,           \* the browser: script execution is disabled on the page
    override,       \* the browser: each session's own override
    live,           \* the browser: the sessions attached to the page
    open,           \* the browser: the connections it serves
    at,             \* the browser: where each change is
    unseen          \* history: the page may have changed behind the daemon

known == <<disabled, issued, confirmed, pending, sessions>>
browser == <<page, override, live, open>>
vars == <<attached, reading, known, change, tracked, browser, at, unseen>>

Orders == 1 .. MaxChanges
Answers == BOOLEAN \cup {Unknown}

(* A session of which nothing is recorded has no entry: number 0.          *)
Actor == [order : Orders \cup {0}, disabled : Answers]
NoActor == [order |-> 0, disabled |-> Unknown]

Change == [session : Sessions, disabled : BOOLEAN, actor : Answers, page : Answers]
NoChange == [session |-> Unknown, disabled |-> Unknown, actor |-> Unknown, page |-> Unknown]

Changes(s) == {o \in pending : change[o].session = s}
Outstanding == {o \in pending : o > confirmed}

-----------------------------------------------------------------------------
(* What the code reads.                                                    *)

(* script_execution_disabled.                                              *)
Answer(s) == IF s \in attached /\ Outstanding = {} THEN disabled ELSE Unknown

(* Mutant: the session's own unsettled changes are not looked at.          *)
LatestActor(s) == sessions[s].disabled

(* What a new change of session s finds: its own override and the page's,  *)
(* unless something later than their confirmation has not settled.         *)
PreviousActor(s) ==
    IF \E o \in Changes(s) : o > sessions[s].order THEN Unknown ELSE sessions[s].disabled
PreviousPage == IF Outstanding = {} THEN disabled ELSE Unknown

(* Mutant: only a change later than what is confirmed of the page counts.  *)
OverlapsOutstanding(c) == \E o \in Outstanding : Through[change[o].session] # c

(* Another connection's change is unsettled: no order between the two is   *)
(* known.                                                                  *)
Overlaps(c) == \E o \in pending : Through[change[o].session] # c

(* Mutant: replies settle in the order they are read.                      *)
ConfirmsUnordered(o) == o \in Orders

(* ScriptChange::complete raises the page's confirmation.                  *)
Confirms(o) == o > confirmed

(* What an accepted change proves of the page: only a change of the        *)
(* session's own override is certain to have reached it.                   *)
Proves(o) ==
    CASE change[o].actor = Unknown -> Unknown
      [] change[o].actor = change[o].disabled -> change[o].page
      [] OTHER -> change[o].disabled

(* script_detached, of every session in ended.                             *)
Detached(ended) ==
    /\ sessions' = [s \in Sessions |-> IF s \in ended THEN NoActor ELSE sessions[s]]
    /\ IF \E s \in ended : sessions[s].disabled = TRUE \/ Changes(s) # {}
       THEN disabled' = Unknown /\ confirmed' = issued
       ELSE UNCHANGED <<disabled, confirmed>>
    /\ UNCHANGED <<issued, pending>>

Of(c) == {s \in Sessions : Through[s] = c}

-----------------------------------------------------------------------------
Init ==
    /\ attached = {} /\ live = {}
    /\ reading = Connections /\ open = Connections
    /\ disabled = Unknown /\ issued = 0 /\ confirmed = 0 /\ pending = {}
    /\ sessions = [s \in Sessions |-> NoActor]
    /\ change = [o \in Orders |-> NoChange]
    /\ tracked = {}
    /\ page \in BOOLEAN
    /\ override = [s \in Sessions |-> FALSE]
    /\ at = [o \in Orders |-> "none"]
    /\ unseen = FALSE

-----------------------------------------------------------------------------
(* The daemon.                                                             *)

(* A reply that created the page proves that its scripts run, unless a     *)
(* change was issued since.                                                *)
Seed ==
    /\ issued = 0 /\ ~page
    /\ disabled' = FALSE
    /\ UNCHANGED <<attached, reading, issued, confirmed, pending, sessions, change, tracked,
                   browser, at, unseen>>

(* The next number is given to a change of session s, and the browser is   *)
(* sent it unless its connection is gone.                                  *)
Write(s, record) ==
    /\ issued < MaxChanges
    /\ issued' = issued + 1
    /\ change' = [change EXCEPT ![issued + 1] = record]
    /\ at' = [at EXCEPT ![issued + 1] = IF Through[s] \in open THEN "sent" ELSE "lost"]

(* script_change, under the writer's lock: a command that is awaited, or   *)
(* with no wait one that leaves nothing to settle it.                      *)
ChangeScripts(s, v, awaited) ==
    /\ s \in attached
    /\ Write(s, [session |-> s, disabled |-> v, actor |-> PreviousActor(s),
                 page |-> PreviousPage])
    /\ IF Overlaps(Through[s])
       THEN confirmed' = issued + 1 /\ disabled' = Unknown
       ELSE UNCHANGED <<confirmed, disabled>>
    /\ pending' = pending \cup {issued + 1}
    /\ tracked' = IF awaited THEN tracked \cup {issued + 1} ELSE tracked
    /\ UNCHANGED <<attached, reading, sessions, browser, unseen>>

(* The frontend's raw message: script_unobserved.                          *)
ChangeRaw(s, v) ==
    /\ s \in Inspected \cap attached
    /\ Write(s, [session |-> s, disabled |-> v, actor |-> Unknown, page |-> Unknown])
    /\ confirmed' = issued + 1 /\ disabled' = Unknown
    /\ sessions' = [sessions EXCEPT ![s] = NoActor]
    /\ unseen' = TRUE
    /\ UNCHANGED <<attached, reading, pending, tracked, browser>>

(* The caller gave up: PendingGuard drops the pending command, and its     *)
(* change with it.                                                         *)
Cancel(o) ==
    /\ o \in tracked
    /\ tracked' = tracked \ {o}
    /\ UNCHANGED <<attached, reading, known, change, browser, at, unseen>>

(* The reply is read: ScriptChange::complete.                              *)
Reply(o) ==
    LET s == change[o].session
        current == at[o] = "accepted" /\ s \in attached
    IN  /\ o \in tracked /\ at[o] \in {"accepted", "refused"} /\ Through[s] \in reading
        /\ tracked' = tracked \ {o}
        /\ pending' = pending \ {o}
        /\ sessions' = IF current /\ sessions[s].order < o
                       THEN [sessions EXCEPT ![s] = [order |-> o, disabled |-> change[o].disabled]]
                       ELSE sessions
        /\ IF current /\ Confirms(o)
           THEN confirmed' = o /\ disabled' = Proves(o)
           ELSE UNCHANGED <<confirmed, disabled>>
        /\ UNCHANGED <<attached, reading, issued, change, browser, at, unseen>>

(* The event that a session was detached, or that its page is gone.        *)
ReadDetached(s) ==
    /\ s \in attached \ live /\ Through[s] \in reading
    /\ attached' = attached \ {s}
    /\ Detached({s})
    /\ UNCHANGED <<reading, change, tracked, browser, at, unseen>>

(* The reader ends with its connection: the map keeps the sessions, and    *)
(* the pending commands are dropped.                                       *)
ReadClosed(c) ==
    /\ c \in reading \ open
    /\ reading' = reading \ {c}
    /\ Detached(attached \cap Of(c))
    /\ tracked' = {o \in tracked : Through[change[o].session] # c}
    /\ UNCHANGED <<attached, change, browser, at, unseen>>

(* A temporary attachment is ended.  Its socket closes later, with its     *)
(* last handle.                                                            *)
Disconnect(c) ==
    /\ c \in reading
    /\ reading' = reading \ {c}
    /\ Detached(attached \cap Of(c))
    /\ unseen' = \/ unseen
                 \/ \E s \in live \cap Of(c) :
                        \/ override[s]
                        \/ \E o \in Orders : at[o] = "sent" /\ change[o].session = s
    /\ UNCHANGED <<attached, change, tracked, browser, at>>

-----------------------------------------------------------------------------
(* The browser.                                                            *)

(* A session is attached, and the event or the reply that says so is read: *)
(* until then no command names it.                                         *)
Attach(s) ==
    /\ s \notin attached \cup live /\ sessions[s] = NoActor
    /\ \A o \in Orders : change[o].session # s
    /\ Through[s] \in reading \cap open
    /\ attached' = attached \cup {s} /\ live' = live \cup {s}
    /\ sessions' = [sessions EXCEPT ![s] = [order |-> issued, disabled |-> FALSE]]
    /\ UNCHANGED <<reading, disabled, issued, confirmed, pending, change, tracked,
                   page, override, open, at, unseen>>

(* The next command of its connection.                                     *)
NextInLine(o) ==
    /\ at[o] = "sent"
    /\ \A p \in Orders : p < o /\ at[p] = "sent" =>
          Through[change[p].session] # Through[change[o].session]

Accept(o) ==
    LET s == change[o].session
        v == change[o].disabled
    IN  /\ NextInLine(o) /\ s \in live
        /\ page' = IF override[s] # v THEN v ELSE page
        /\ override' = [override EXCEPT ![s] = v]
        /\ at' = [at EXCEPT ![o] = "accepted"]
        /\ UNCHANGED <<attached, reading, known, change, tracked, live, open, unseen>>

Refuse(o) ==
    /\ NextInLine(o)
    /\ at' = [at EXCEPT ![o] = "refused"]
    /\ UNCHANGED <<attached, reading, known, change, tracked, browser, unseen>>

(* Sessions end, by themselves or with their connection.                   *)
End(ended) ==
    /\ live' = live \ ended
    /\ page' = IF \E s \in ended \cap live : override[s] THEN FALSE ELSE page

Detach(s) ==
    /\ s \in live
    /\ End({s})
    /\ UNCHANGED <<attached, reading, known, change, tracked, override, open, at, unseen>>

Close(c) ==
    /\ c \in open
    /\ open' = open \ {c}
    /\ End(Of(c))
    /\ at' = [o \in Orders |-> IF at[o] = "sent" /\ Through[change[o].session] = c
                               THEN "lost" ELSE at[o]]
    /\ UNCHANGED <<attached, reading, known, change, tracked, override, unseen>>

Next ==
    \/ Seed
    \/ \E s \in Sessions : Attach(s) \/ Detach(s) \/ ReadDetached(s)
    \/ \E s \in Sessions, v \in BOOLEAN :
          ChangeRaw(s, v) \/ \E awaited \in BOOLEAN : ChangeScripts(s, v, awaited)
    \/ \E o \in Orders : Cancel(o) \/ Reply(o) \/ Accept(o) \/ Refuse(o)
    \/ \E c \in Connections : Close(c) \/ ReadClosed(c) \/ Disconnect(c)

Spec == Init /\ [][Next]_vars

-----------------------------------------------------------------------------
TypeOK ==
    /\ attached \subseteq Sessions /\ live \subseteq Sessions
    /\ reading \subseteq Connections /\ open \subseteq Connections
    /\ disabled \in Answers
    /\ issued \in 0 .. MaxChanges /\ confirmed \in 0 .. issued
    /\ pending \subseteq 1 .. issued /\ tracked \subseteq pending
    /\ sessions \in [Sessions -> Actor]
    /\ change \in [Orders -> Change \cup {NoChange}]
    /\ \A o \in Orders : change[o] = NoChange <=> o > issued
    /\ page \in BOOLEAN
    /\ override \in [Sessions -> BOOLEAN]
    /\ at \in [Orders -> {"none", "sent", "accepted", "refused", "lost"}]
    /\ unseen \in BOOLEAN

(* A session has been detached in the browser, with an override that is    *)
(* taken back, and the daemon did not read it yet.                         *)
Late == \E s \in attached \ live : Through[s] \in reading /\ override[s]

(* "Outstanding or unobserved changes are unknown, never an enabled        *)
(* default" (client.rs:18): an answer is what the page has, however the    *)
(* changes of several connections, their replies, detaches and failures    *)
(* interleave.                                                             *)
KnownIsTrue ==
    ~Late => \A s \in Sessions : Answer(s) # Unknown => Answer(s) = page

(* The same while nothing changed the page behind the daemon.              *)
ObservedIsTrue == ~unseen => KnownIsTrue

(* What a change takes for its session's own override is that override,    *)
(* whatever another session's changes did (PreviousActor decides whether   *)
(* an accepted change proves anything), unless raw messages reach it.      *)
ActorsAreTrue ==
    \A s \in attached \ (IF unseen THEN Inspected ELSE {}) :
        PreviousActor(s) # Unknown => PreviousActor(s) = override[s]

(* "Overlapping overrides stay unknown" (client.rs:1409): while changes of *)
(* two connections are unsettled nothing is known of the page, whichever   *)
(* reply is read first.                                                    *)
OverlapsAreUnknown ==
    \A o, p \in pending :
        Through[change[o].session] # Through[change[p].session] => disabled = Unknown
=============================================================================
