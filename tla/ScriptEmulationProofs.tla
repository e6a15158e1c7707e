------------------------- MODULE ScriptEmulationProofs ------------------------
(***************************************************************************)
(* Proofs about ScriptEmulation.  Its invariants are not inductive: what   *)
(* the daemon knows is true because of where every change is, so Invariant *)
(* relates the numbers that are confirmed and pending to the changes the   *)
(* browser has carried out.  Execution says what carrying out in order     *)
(* gives, Actors what is known of a session's own override, and Pages what *)
(* is known of the page while no raw message or dropped connection hides a *)
(* change.  The steps are first reduced to what they do to the page        *)
(* (Issues, Settles, Arrives, Reads, Departs, Rests), and each part of     *)
(* Pages is then shown to survive each of them.                            *)
(***************************************************************************)
EXTENDS ScriptEmulation, TLAPS

-----------------------------------------------------------------------------
(* How changes are carried out.                                            *)

Issued == 1 .. issued
Session(o) == change[o].session
Connection(o) == Through[change[o].session]

(* Commands of one connection are carried out in their order.              *)
InOrder ==
    \A p, q \in Issued :
        p < q /\ at[p] = "sent" /\ Connection(p) = Connection(q) =>
            at[q] \notin {"accepted", "refused"}

(* A session's override is the value of its last accepted change.          *)
LastAccepted ==
    /\ \A s \in Sessions :
          (\A o \in Issued : at[o] = "accepted" => Session(o) # s) => override[s] = FALSE
    /\ \A o \in Issued :
          /\ at[o] = "accepted"
          /\ \A p \in Issued : at[p] = "accepted" /\ Session(p) = Session(o) => p <= o
          => override[Session(o)] = change[o].disabled

SessionsFit ==
    /\ live \subseteq attached
    /\ \A s \in live : Through[s] \in open
    /\ \A s \in Sessions : sessions[s].order <= issued
    /\ \A o \in Issued : at[o] = "sent" => o > sessions[Session(o)].order

Execution == InOrder /\ LastAccepted /\ SessionsFit

-----------------------------------------------------------------------------
(* What is known of a session's own override.                              *)

Observed == attached \ (IF unseen THEN Inspected ELSE {})
Known(s) == sessions[s].disabled # Unknown

ReadersKnow == \A s \in Observed : Through[s] \in reading => Known(s)

(* What was, or may yet be, accepted after what is known is pending.       *)
LaterArePending ==
    \A s \in Observed : Known(s) =>
        \A o \in Issued :
            Session(o) = s /\ at[o] \in {"sent", "accepted"} /\ o > sessions[s].order =>
                o \in pending

OverridesAreKnown ==
    \A s \in Observed :
        /\ Known(s)
        /\ \A o \in Issued : Session(o) = s /\ at[o] = "accepted" => o <= sessions[s].order
        => override[s] = sessions[s].disabled

Actors == ReadersKnow /\ LaterArePending /\ OverridesAreKnown

-----------------------------------------------------------------------------
(* What is known of the page.                                              *)

(* Of two unsettled changes of different connections the later one was     *)
(* never, and will never be, taken for the last.                           *)
OverlapsAreConfirmed ==
    \A p, q \in pending :
        p < q /\ Connection(p) # Connection(q) => confirmed >= q /\ disabled = Unknown

(* Everything under way is pending.                                        *)
NothingIsMissed ==
    /\ \A o \in Issued : at[o] = "sent" => o \in pending
    /\ \A o \in Issued : at[o] = "accepted" /\ o > confirmed => o \in pending
    /\ \A o \in pending : Session(o) \notin attached => o <= confirmed
    /\ disabled # Unknown => \A o \in Issued : at[o] = "sent" => o > confirmed

(* What is known of a dropped connection's session.                        *)
NothingIsDropped ==
    /\ \A s \in live : Through[s] \notin reading /\ override[s] =>
          \E o \in pending : at[o] = "accepted" /\ Session(o) = s
    /\ \A o \in pending :
          Connection(o) \notin reading /\ Session(o) \in attached =>
              o > confirmed \/ disabled = Unknown

(* A change that may still be taken for the last found its session's own   *)
(* override as it is, and the page too.                                    *)
SentFindActors ==
    \A o \in Issued : at[o] = "sent" /\ change[o].actor # Unknown =>
        /\ override[Session(o)] = change[o].actor
        /\ \A q \in Issued : q < o /\ Session(q) = Session(o) => at[q] # "sent"

Confirmable(o) == o \in pending /\ o > confirmed /\ Connection(o) \in reading

SentFindPages ==
    \A o \in Issued : at[o] = "sent" /\ Confirmable(o) /\ change[o].page # Unknown =>
        /\ \A q \in Issued : q < o => at[q] # "sent"
        /\ ~Late => page = change[o].page

IsLast(o) == \A p \in Issued : at[p] = "accepted" => p <= o

AcceptedProve ==
    \A o \in Issued : at[o] = "accepted" /\ Confirmable(o) /\ IsLast(o) /\ ~Late =>
        Proves(o) \in {Unknown, page}

ConfirmedIsTrue ==
    /\ disabled # Unknown /\ ~Late
    /\ \A o \in Issued : at[o] = "accepted" => o <= confirmed
    => disabled = page

Pages ==
    ~unseen =>
        /\ NothingIsMissed /\ NothingIsDropped
        /\ SentFindActors /\ SentFindPages
        /\ AcceptedProve /\ ConfirmedIsTrue

Invariant == TypeOK /\ Execution /\ Actors /\ OverlapsAreConfirmed /\ Pages

-----------------------------------------------------------------------------
LEMMA InitTypes == Init => TypeOK
<1> SUFFICES ASSUME Init PROVE TypeOK
  OBVIOUS
<1>1. \A o \in Orders : change[o] = NoChange /\ o > issued
  BY ChangesAssumption DEF Init, Orders
<1>2. change \in [Orders -> Change \cup {NoChange}] /\ issued \in 0 .. MaxChanges
  BY ChangesAssumption DEF Init
<1>3. sessions \in [Sessions -> Actor]
  BY DEF Init, Actor, NoActor, Answers
<1>4. confirmed \in 0 .. issued /\ pending \subseteq 1 .. issued /\ tracked \subseteq pending
  BY DEF Init
<1>5. /\ override \in [Sessions -> BOOLEAN] /\ page \in BOOLEAN
      /\ at \in [Orders -> {"none", "sent", "accepted", "refused", "lost"}]
  BY DEF Init
<1>6. /\ attached \subseteq Sessions /\ live \subseteq Sessions
      /\ reading \subseteq Connections /\ open \subseteq Connections
      /\ disabled \in Answers /\ unseen \in BOOLEAN
  BY DEF Init, Answers
<1> QED
  BY <1>1, <1>2, <1>3, <1>4, <1>5, <1>6 DEF TypeOK

LEMMA DetachedTypes ==
    ASSUME TypeOK, NEW ended \in SUBSET Sessions, Detached(ended)
    PROVE  /\ disabled' \in Answers /\ issued' = issued /\ pending' = pending
           /\ confirmed' \in 0 .. issued
           /\ sessions' \in [Sessions -> Actor]
<1>1. sessions' \in [Sessions -> Actor]
  BY DEF TypeOK, Detached, Actor, NoActor, Answers
<1> QED
  BY <1>1, ChangesAssumption DEF TypeOK, Detached, Answers

LEMMA TypesAreKept ==
    ASSUME TypeOK, [Next]_vars
    PROVE  TypeOK'
<1> USE DEF known, browser
<1>1. CASE Seed
  BY <1>1, ThroughAssumption, UnknownAssumption, ChangesAssumption
  DEF TypeOK, Orders, Answers, Actor, NoActor, Change, NoChange, Seed
<1>2. ASSUME NEW s \in Sessions, Attach(s) PROVE TypeOK'
  BY <1>2, ThroughAssumption, UnknownAssumption, ChangesAssumption
  DEF TypeOK, Orders, Answers, Actor, NoActor, Change, NoChange, Attach
<1>3. ASSUME NEW s \in Sessions, Detach(s) PROVE TypeOK'
  BY <1>3, ThroughAssumption, UnknownAssumption, ChangesAssumption
  DEF TypeOK, Orders, Answers, Actor, NoActor, Change, NoChange, Detach, End
<1>4. ASSUME NEW s \in Sessions, ReadDetached(s) PROVE TypeOK'
  BY <1>4, ThroughAssumption, UnknownAssumption, ChangesAssumption
  DEF TypeOK, Orders, Answers, Actor, NoActor, Change, NoChange, ReadDetached, Detached,
      Changes
<1>5. ASSUME NEW s \in Sessions, NEW v \in BOOLEAN, ChangeRaw(s, v) PROVE TypeOK'
  BY <1>5, ThroughAssumption, UnknownAssumption, ChangesAssumption
  DEF TypeOK, Orders, Answers, Actor, NoActor, Change, NoChange, ChangeRaw, Write
<1>6. ASSUME NEW s \in Sessions, NEW v \in BOOLEAN, NEW w \in BOOLEAN,
             ChangeScripts(s, v, w)
      PROVE  TypeOK'
  BY <1>6, ThroughAssumption, UnknownAssumption, ChangesAssumption
  DEF TypeOK, Orders, Answers, Actor, NoActor, Change, NoChange, ChangeScripts, Write,
      Overlaps, Outstanding, PreviousActor, PreviousPage, Changes
<1>7. ASSUME NEW o \in Orders, Cancel(o) PROVE TypeOK'
  BY <1>7, ThroughAssumption, UnknownAssumption, ChangesAssumption
  DEF TypeOK, Orders, Answers, Actor, NoActor, Change, NoChange, Cancel
<1>8. ASSUME NEW o \in Orders, Reply(o) PROVE TypeOK'
  BY <1>8, ThroughAssumption, UnknownAssumption, ChangesAssumption
  DEF TypeOK, Orders, Answers, Actor, NoActor, Change, NoChange, Reply, Confirms, Proves
<1>9. ASSUME NEW o \in Orders, Accept(o) PROVE TypeOK'
  BY <1>9, ThroughAssumption, UnknownAssumption, ChangesAssumption
  DEF TypeOK, Orders, Answers, Actor, NoActor, Change, NoChange, Accept, NextInLine
<1>10. ASSUME NEW o \in Orders, Refuse(o) PROVE TypeOK'
  BY <1>10, ThroughAssumption, UnknownAssumption, ChangesAssumption
  DEF TypeOK, Orders, Answers, Actor, NoActor, Change, NoChange, Refuse, NextInLine
<1>11. ASSUME NEW c \in Connections, Close(c) PROVE TypeOK'
  <2>1. at' \in [Orders -> {"none", "sent", "accepted", "refused", "lost"}]
    BY <1>11 DEF TypeOK, Close
  <2>2. page' \in BOOLEAN /\ live' \subseteq Sessions /\ open' \subseteq Connections
    BY <1>11 DEF TypeOK, Close, End
  <2> QED
    BY <1>11, <2>1, <2>2 DEF TypeOK, Close
<1>12. ASSUME NEW c \in Connections, ReadClosed(c) PROVE TypeOK'
  <2>1. Detached(attached \cap Of(c))
    BY <1>12 DEF ReadClosed
  <2>2. attached \cap Of(c) \in SUBSET Sessions
    BY DEF TypeOK
  <2> QED
    BY <1>12, <2>1, <2>2, DetachedTypes DEF TypeOK, ReadClosed
<1>13. ASSUME NEW c \in Connections, Disconnect(c) PROVE TypeOK'
  <2>1. Detached(attached \cap Of(c))
    BY <1>13 DEF Disconnect
  <2>2. attached \cap Of(c) \in SUBSET Sessions
    BY DEF TypeOK
  <2> QED
    BY <1>13, <2>1, <2>2, DetachedTypes DEF TypeOK, Disconnect
<1>14. CASE UNCHANGED vars
  BY <1>14, ThroughAssumption, UnknownAssumption, ChangesAssumption
  DEF TypeOK, Orders, Answers, Actor, NoActor, Change, NoChange, vars
<1> QED
  BY <1>1, <1>2, <1>3, <1>4, <1>5, <1>6, <1>7, <1>8, <1>9, <1>10, <1>11, <1>12, <1>13, <1>14
  DEF Next

(* A change that was issued is one of a session of some connection.        *)
LEMMA ChangesFit ==
    ASSUME TypeOK, NEW o \in Issued
    PROVE  /\ o \in Orders /\ o \in Nat
           /\ Session(o) \in Sessions /\ Connection(o) \in Connections
           /\ change[o].disabled \in BOOLEAN
  BY ThroughAssumption, ChangesAssumption
  DEF TypeOK, Issued, Session, Connection, Orders, Change


-----------------------------------------------------------------------------
(* What the actions do to the changes.                                     *)

Adds(s, v) ==
    LET new == issued + 1
    IN  /\ issued' = new /\ issued \in Nat
        /\ Issued' = Issued \cup {new} /\ new \notin Issued /\ new \in Nat
        /\ \A o \in Issued : /\ o \in Nat /\ o < new /\ o <= issued
                             /\ at'[o] = at[o] /\ change'[o] = change[o]
                             /\ Session(o)' = Session(o) /\ Connection(o)' = Connection(o)
        /\ \A o : o = new => Session(o)' = s /\ Connection(o)' = Through[s]
        /\ at'[new] = (IF Through[s] \in open THEN "sent" ELSE "lost")
        /\ change'[new].disabled = v

Cuts(c) ==
    /\ Issued' = Issued /\ change' = change
    /\ \A o \in Issued :
          /\ Session(o)' = Session(o) /\ Connection(o)' = Connection(o)
          /\ at'[o] = (IF at[o] = "sent" /\ Connection(o) = c THEN "lost" ELSE at[o])

Carries(o) ==
    /\ o \in Issued /\ Issued' = Issued /\ change' = change /\ at[o] = "sent"
    /\ Session(o) \in Sessions /\ Session(o) \in live
    /\ change[o].disabled \in BOOLEAN
    /\ override' = [override EXCEPT ![Session(o)] = change[o].disabled]
    /\ at'[o] = "accepted"
    /\ \A p \in Issued :
          /\ Session(p)' = Session(p) /\ Connection(p)' = Connection(p)
          /\ p # o => at'[p] = at[p]
          /\ p < o /\ at[p] = "sent" => Connection(p) # Connection(o)

LEMMA OneMore ==
    ASSUME NEW n \in Nat
    PROVE  1 .. (n + 1) = (1 .. n) \cup {n + 1} /\ n + 1 \notin 1 .. n
<1>1. \A x : x \in 1 .. (n + 1) <=> x \in 1 .. n \/ x = n + 1
  OBVIOUS
<1> QED
  BY <1>1

LEMMA Added ==
    ASSUME TypeOK, NEW s \in Sessions, NEW v \in BOOLEAN,
           ChangeRaw(s, v) \/ \E w \in BOOLEAN : ChangeScripts(s, v, w)
    PROVE  Adds(s, v)
<1> DEFINE new == issued + 1
<1>1. new \in Orders /\ issued \in Nat /\ Issued \subseteq Orders /\ issued < MaxChanges
  BY ChangesAssumption DEF TypeOK, Orders, Issued, ChangeRaw, ChangeScripts, Write
<1>2. PICK record : /\ Write(s, record)
                    /\ record.session = s /\ record.disabled = v
  BY DEF ChangeRaw, ChangeScripts
<1>3. /\ issued' = new /\ change' = [change EXCEPT ![new] = record]
      /\ at' = [at EXCEPT ![new] = IF Through[s] \in open THEN "sent" ELSE "lost"]
  BY <1>2 DEF Write
<1>4. change'[new] = record /\ at'[new] = (IF Through[s] \in open THEN "sent" ELSE "lost")
  BY <1>1, <1>3 DEF TypeOK
<1>5. \A o \in Issued : /\ o \in Nat /\ o < new /\ o <= issued
                        /\ at'[o] = at[o] /\ change'[o] = change[o]
  BY <1>1, <1>3 DEF TypeOK, Issued
<1>6. Issued' = Issued \cup {new} /\ new \notin Issued
  <2>1. Issued' = 1 .. (issued + 1)
    BY <1>3 DEF Issued
  <2>2. /\ 1 .. (issued + 1) = (1 .. issued) \cup {issued + 1}
        /\ issued + 1 \notin 1 .. issued
    <3>1. issued \in Nat
      BY <1>1
    <3> HIDE DEF new
    <3> QED
      BY <3>1, OneMore
  <2> QED
    BY <2>1, <2>2 DEF Issued
<1>7. \A o \in Issued : Session(o)' = Session(o) /\ Connection(o)' = Connection(o)
  BY <1>5 DEF Session, Connection
<1>8. /\ \A o : o = new => Session(o)' = s /\ Connection(o)' = Through[s]
      /\ change'[new].disabled = v
  BY <1>2, <1>3, <1>4 DEF Session, Connection
<1>9. new \in Nat
  BY <1>1
<1> HIDE DEF new
<1> QED
  BY <1>1, <1>3, <1>4, <1>5, <1>6, <1>7, <1>8, <1>9 DEF Adds, new

LEMMA Cut ==
    ASSUME TypeOK, NEW c \in Connections, Close(c)
    PROVE  Cuts(c)
  BY ChangesAssumption
  DEF TypeOK, Issued, Orders, Session, Connection, Close, known, Cuts

LEMMA Carried ==
    ASSUME TypeOK, NEW o \in Orders, Accept(o)
    PROVE  Carries(o)
<1>1. Session(o) \in live /\ Session(o) \in Sessions
  BY DEF TypeOK, Accept, Session
<1>2. change[o] # NoChange
  BY <1>1, UnknownAssumption DEF Session, NoChange
<1>3. o \in Issued /\ Issued \subseteq Orders
  BY <1>2, ChangesAssumption DEF TypeOK, Issued, Orders
<1>4. change[o].disabled \in BOOLEAN
  BY <1>2 DEF TypeOK, Change
<1> QED
  BY <1>1, <1>3, <1>4
  DEF TypeOK, Issued, Session, Connection, Accept, NextInLine, known, Carries

LEMMA OrderIsKept ==
    ASSUME TypeOK, InOrder, [Next]_vars
    PROVE  InOrder'
<1> USE DEF known, browser
<1>1. CASE Seed
  BY <1>1, ThroughAssumption, ChangesAssumption
  DEF TypeOK, InOrder, Orders, Issued, Session, Connection, Seed
<1>2. ASSUME NEW s \in Sessions, Attach(s) PROVE InOrder'
  BY <1>2, ThroughAssumption, ChangesAssumption
  DEF TypeOK, InOrder, Orders, Issued, Session, Connection, Attach
<1>3. ASSUME NEW s \in Sessions, Detach(s) PROVE InOrder'
  BY <1>3, ThroughAssumption, ChangesAssumption
  DEF TypeOK, InOrder, Orders, Issued, Session, Connection, Detach, End
<1>4. ASSUME NEW s \in Sessions, ReadDetached(s) PROVE InOrder'
  BY <1>4, ThroughAssumption, ChangesAssumption
  DEF TypeOK, InOrder, Orders, Issued, Session, Connection, ReadDetached, Detached, Changes
<1>5. ASSUME NEW s \in Sessions, NEW v \in BOOLEAN, ChangeRaw(s, v) PROVE InOrder'
  <2>1. Adds(s, v)
    BY <1>5, Added
  <2> QED
    BY <1>5, <2>1
    DEF InOrder, Adds, ChangeRaw
<1>6. ASSUME NEW s \in Sessions, NEW v \in BOOLEAN, NEW w \in BOOLEAN,
             ChangeScripts(s, v, w)
      PROVE  InOrder'
  <2>1. Adds(s, v)
    BY <1>6, Added
  <2> QED
    BY <1>6, <2>1
    DEF InOrder, Adds, ChangeScripts
<1>7. ASSUME NEW o \in Orders, Cancel(o) PROVE InOrder'
  BY <1>7, ThroughAssumption, ChangesAssumption
  DEF TypeOK, InOrder, Orders, Issued, Session, Connection, Cancel
<1>8. ASSUME NEW o \in Orders, Reply(o) PROVE InOrder'
  BY <1>8, ThroughAssumption, ChangesAssumption
  DEF TypeOK, InOrder, Orders, Issued, Session, Connection, Reply
<1>9. ASSUME NEW o \in Orders, Accept(o) PROVE InOrder'
  BY <1>9, ThroughAssumption, ChangesAssumption
  DEF TypeOK, InOrder, Orders, Issued, Session, Connection, Accept, NextInLine
<1>10. ASSUME NEW o \in Orders, Refuse(o) PROVE InOrder'
  BY <1>10, ThroughAssumption, ChangesAssumption
  DEF TypeOK, InOrder, Orders, Issued, Session, Connection, Refuse, NextInLine
<1>11. ASSUME NEW c \in Connections, Close(c) PROVE InOrder'
  BY <1>11, ThroughAssumption, ChangesAssumption
  DEF TypeOK, InOrder, Orders, Issued, Session, Connection, Close, End, Of
<1>12. ASSUME NEW c \in Connections, ReadClosed(c) PROVE InOrder'
  BY <1>12, ThroughAssumption, ChangesAssumption
  DEF TypeOK, InOrder, Orders, Issued, Session, Connection, ReadClosed, Detached, Changes,
      Of
<1>13. ASSUME NEW c \in Connections, Disconnect(c) PROVE InOrder'
  BY <1>13, ThroughAssumption, ChangesAssumption
  DEF TypeOK, InOrder, Orders, Issued, Session, Connection, Disconnect, Detached, Changes,
      Of
<1>14. CASE UNCHANGED vars
  BY <1>14, ThroughAssumption, ChangesAssumption
  DEF TypeOK, InOrder, Orders, Issued, Session, Connection, vars
<1> QED
  BY <1>1, <1>2, <1>3, <1>4, <1>5, <1>6, <1>7, <1>8, <1>9, <1>10, <1>11, <1>12, <1>13, <1>14
  DEF Next

LEMMA LastIsKept ==
    ASSUME TypeOK, InOrder, LastAccepted, [Next]_vars
    PROVE  LastAccepted'
<1> USE DEF known, browser
<1>1. CASE Seed
  BY <1>1, ThroughAssumption, ChangesAssumption
  DEF TypeOK, InOrder, LastAccepted, Orders, Issued, Session, Connection, Seed
<1>2. ASSUME NEW s \in Sessions, Attach(s) PROVE LastAccepted'
  BY <1>2, ThroughAssumption, ChangesAssumption
  DEF TypeOK, InOrder, LastAccepted, Orders, Issued, Session, Connection, Attach
<1>3. ASSUME NEW s \in Sessions, Detach(s) PROVE LastAccepted'
  BY <1>3, ThroughAssumption, ChangesAssumption
  DEF TypeOK, InOrder, LastAccepted, Orders, Issued, Session, Connection, Detach, End
<1>4. ASSUME NEW s \in Sessions, ReadDetached(s) PROVE LastAccepted'
  BY <1>4, ThroughAssumption, ChangesAssumption
  DEF TypeOK, InOrder, LastAccepted, Orders, Issued, Session, Connection, ReadDetached,
      Detached, Changes
<1>5. ASSUME NEW s \in Sessions, NEW v \in BOOLEAN, ChangeRaw(s, v) PROVE LastAccepted'
  <2>1. Adds(s, v)
    BY <1>5, Added
  <2> QED
    BY <1>5, <2>1
    DEF TypeOK, InOrder, LastAccepted, Adds, ChangeRaw
<1>6. ASSUME NEW s \in Sessions, NEW v \in BOOLEAN, NEW w \in BOOLEAN,
             ChangeScripts(s, v, w)
      PROVE  LastAccepted'
  <2>1. Adds(s, v)
    BY <1>6, Added
  <2> QED
    BY <1>6, <2>1
    DEF TypeOK, InOrder, LastAccepted, Adds, ChangeScripts
<1>7. ASSUME NEW o \in Orders, Cancel(o) PROVE LastAccepted'
  BY <1>7, ThroughAssumption, ChangesAssumption
  DEF TypeOK, InOrder, LastAccepted, Orders, Issued, Session, Connection, Cancel
<1>8. ASSUME NEW o \in Orders, Reply(o) PROVE LastAccepted'
  BY <1>8, ThroughAssumption, ChangesAssumption
  DEF TypeOK, InOrder, LastAccepted, Orders, Issued, Session, Connection, Reply
<1>9. ASSUME NEW o \in Orders, Accept(o) PROVE LastAccepted'
  <2>1. Carries(o)
    BY <1>9, Carried
  <2>2. \A s \in Sessions : s # Session(o) => override'[s] = override[s]
    BY <2>1 DEF TypeOK, Carries
  <2>3. override'[Session(o)] = change[o].disabled
    BY <2>1 DEF TypeOK, Carries
  <2>4. ASSUME NEW s \in Sessions, \A p \in Issued' : at'[p] = "accepted" => Session(p)' # s
        PROVE  override'[s] = FALSE
    BY <2>1, <2>2, <2>4 DEF LastAccepted, Carries
  <2>5. ASSUME NEW p \in Issued', at'[p] = "accepted",
               \A q \in Issued' : at'[q] = "accepted" /\ Session(q)' = Session(p)' => q <= p
        PROVE  override'[Session(p)'] = change'[p].disabled
    <3>1. CASE p = o
      BY <2>1, <2>3, <3>1 DEF Carries
    <3>2. CASE p # o /\ Session(p) # Session(o)
      BY <2>1, <2>2, <2>5, <3>2, ChangesFit DEF LastAccepted, Carries
    <3>3. CASE p # o /\ Session(p) = Session(o)
      <4>1. p \in Issued /\ at[p] = "accepted" /\ Connection(p) = Connection(o) /\ o <= p
        BY <2>1, <2>5, <3>3 DEF Carries, Session, Connection
      <4>2. p \in Nat /\ o \in Nat
        BY <2>1, <4>1, ChangesFit DEF Carries
      <4> QED
        BY <2>1, <3>3, <4>1, <4>2 DEF InOrder, Carries
    <3> QED
      BY <3>1, <3>2, <3>3
  <2> QED
    BY <2>4, <2>5 DEF LastAccepted
<1>10. ASSUME NEW o \in Orders, Refuse(o) PROVE LastAccepted'
  BY <1>10, ThroughAssumption, ChangesAssumption
  DEF TypeOK, InOrder, LastAccepted, Orders, Issued, Session, Connection, Refuse, NextInLine
<1>11. ASSUME NEW c \in Connections, Close(c) PROVE LastAccepted'
  <2>1. Cuts(c)
    BY <1>11, Cut
  <2>2. \A p \in Issued : at'[p] = "accepted" <=> at[p] = "accepted"
    BY <2>1 DEF Cuts
  <2> QED
    BY <1>11, <2>1, <2>2 DEF LastAccepted, Cuts, Close
<1>12. ASSUME NEW c \in Connections, ReadClosed(c) PROVE LastAccepted'
  BY <1>12, ThroughAssumption, ChangesAssumption
  DEF TypeOK, InOrder, LastAccepted, Orders, Issued, Session, Connection, ReadClosed,
      Detached, Changes, Of
<1>13. ASSUME NEW c \in Connections, Disconnect(c) PROVE LastAccepted'
  BY <1>13, ThroughAssumption, ChangesAssumption
  DEF TypeOK, InOrder, LastAccepted, Orders, Issued, Session, Connection, Disconnect,
      Detached, Changes, Of
<1>14. CASE UNCHANGED vars
  BY <1>14, ThroughAssumption, ChangesAssumption
  DEF TypeOK, InOrder, LastAccepted, Orders, Issued, Session, Connection, vars
<1> QED
  BY <1>1, <1>2, <1>3, <1>4, <1>5, <1>6, <1>7, <1>8, <1>9, <1>10, <1>11, <1>12, <1>13, <1>14
  DEF Next

LEMMA SessionsKeepFitting ==
    ASSUME TypeOK, InOrder, SessionsFit, [Next]_vars
    PROVE  SessionsFit'
<1> USE DEF known, browser
<1>1. CASE Seed
  BY <1>1, ThroughAssumption, ChangesAssumption
  DEF TypeOK, InOrder, SessionsFit, NoActor, Orders, Issued, Session, Connection, Seed
<1>2. ASSUME NEW s \in Sessions, Attach(s) PROVE SessionsFit'
  BY <1>2, ThroughAssumption, ChangesAssumption
  DEF TypeOK, InOrder, SessionsFit, NoActor, Orders, Issued, Session, Connection, Attach
<1>3. ASSUME NEW s \in Sessions, Detach(s) PROVE SessionsFit'
  BY <1>3, ThroughAssumption, ChangesAssumption
  DEF TypeOK, InOrder, SessionsFit, NoActor, Orders, Issued, Session, Connection, Detach,
      End
<1>4. ASSUME NEW s \in Sessions, ReadDetached(s) PROVE SessionsFit'
  <2>1. \A q \in Sessions : /\ sessions[q].order \in Nat /\ sessions'[q].order \in Nat
                           /\ sessions'[q].order <= sessions[q].order
    BY <1>4 DEF TypeOK, ReadDetached, Detached, Actor, NoActor, Orders
  <2>2. \A o \in Issued : Session(o) \in Sessions /\ o \in Nat
    BY ChangesFit
  <2>3. /\ Issued' = Issued /\ at' = at /\ issued' = issued /\ issued \in Nat
        /\ live' = live /\ open' = open /\ live' \subseteq attached'
        /\ \A o \in Issued : Session(o)' = Session(o)
    BY <1>4, ChangesAssumption DEF TypeOK, SessionsFit, ReadDetached, Detached, Issued, Session
  <2> QED
    BY <2>1, <2>2, <2>3 DEF SessionsFit
<1>5. ASSUME NEW s \in Sessions, NEW v \in BOOLEAN, ChangeRaw(s, v) PROVE SessionsFit'
  <2>1. Adds(s, v)
    BY <1>5, Added
  <2>2. \A q \in Sessions : /\ sessions[q].order \in Nat /\ sessions'[q].order \in Nat
                           /\ sessions'[q].order <= sessions[q].order
    BY <1>5 DEF TypeOK, ChangeRaw, Actor, NoActor, Orders
  <2>3. \A o \in Issued : Session(o) \in Sessions /\ o \in Nat
    BY ChangesFit
  <2>4. live' = live /\ open' = open /\ attached' = attached
    BY <1>5 DEF ChangeRaw, Write, known, browser
  <2>5. \A q \in Sessions : sessions'[q].order <= issued /\ issued \in Nat
    BY <2>1, <2>2 DEF SessionsFit, Adds
  <2>6. \A q \in Sessions : sessions'[q].order <= issued'
    BY <2>1, <2>2, <2>5 DEF Adds
  <2>7. ASSUME NEW o \in Issued', at'[o] = "sent"
        PROVE  o > sessions'[Session(o)'].order
    <3>1. CASE o \in Issued
      BY <2>1, <2>2, <2>3, <2>7, <3>1 DEF SessionsFit, Adds
    <3>2. CASE o = issued + 1
      BY <2>1, <2>2, <2>5, <3>2 DEF Adds
    <3> QED
      BY <2>1, <2>7, <3>1, <3>2 DEF Adds
  <2> QED
    BY <2>4, <2>6, <2>7 DEF SessionsFit
<1>6. ASSUME NEW s \in Sessions, NEW v \in BOOLEAN, NEW w \in BOOLEAN,
             ChangeScripts(s, v, w)
      PROVE  SessionsFit'
  <2>1. Adds(s, v)
    BY <1>6, Added
  <2>2. \A q \in Sessions : /\ sessions[q].order \in Nat /\ sessions'[q].order \in Nat
                           /\ sessions'[q].order <= sessions[q].order
    BY <1>6 DEF TypeOK, ChangeScripts, Actor, NoActor, Orders
  <2>3. \A o \in Issued : Session(o) \in Sessions /\ o \in Nat
    BY ChangesFit
  <2>4. live' = live /\ open' = open /\ attached' = attached
    BY <1>6 DEF ChangeScripts, Write, known, browser
  <2>5. \A q \in Sessions : sessions'[q].order <= issued /\ issued \in Nat
    BY <2>1, <2>2 DEF SessionsFit, Adds
  <2>6. \A q \in Sessions : sessions'[q].order <= issued'
    BY <2>1, <2>2, <2>5 DEF Adds
  <2>7. ASSUME NEW o \in Issued', at'[o] = "sent"
        PROVE  o > sessions'[Session(o)'].order
    <3>1. CASE o \in Issued
      BY <2>1, <2>2, <2>3, <2>7, <3>1 DEF SessionsFit, Adds
    <3>2. CASE o = issued + 1
      BY <2>1, <2>2, <2>5, <3>2 DEF Adds
    <3> QED
      BY <2>1, <2>7, <3>1, <3>2 DEF Adds
  <2> QED
    BY <2>4, <2>6, <2>7 DEF SessionsFit
<1>7. ASSUME NEW o \in Orders, Cancel(o) PROVE SessionsFit'
  BY <1>7, ThroughAssumption, ChangesAssumption
  DEF TypeOK, InOrder, SessionsFit, NoActor, Orders, Issued, Session, Connection, Cancel
<1>8. ASSUME NEW o \in Orders, Reply(o) PROVE SessionsFit'
  BY <1>8, ThroughAssumption, ChangesAssumption
  DEF TypeOK, InOrder, SessionsFit, NoActor, Orders, Issued, Session, Connection, Reply
<1>9. ASSUME NEW o \in Orders, Accept(o) PROVE SessionsFit'
  BY <1>9, ThroughAssumption, ChangesAssumption
  DEF TypeOK, InOrder, SessionsFit, NoActor, Orders, Issued, Session, Connection, Accept,
      NextInLine
<1>10. ASSUME NEW o \in Orders, Refuse(o) PROVE SessionsFit'
  BY <1>10, ThroughAssumption, ChangesAssumption
  DEF TypeOK, InOrder, SessionsFit, NoActor, Orders, Issued, Session, Connection, Refuse,
      NextInLine
<1>11. ASSUME NEW c \in Connections, Close(c) PROVE SessionsFit'
  BY <1>11, ThroughAssumption, ChangesAssumption
  DEF TypeOK, InOrder, SessionsFit, NoActor, Orders, Issued, Session, Connection, Close,
      End, Of
<1>12. ASSUME NEW c \in Connections, ReadClosed(c) PROVE SessionsFit'
  <2>1. \A q \in Sessions : /\ sessions[q].order \in Nat /\ sessions'[q].order \in Nat
                           /\ sessions'[q].order <= sessions[q].order
    BY <1>12 DEF TypeOK, ReadClosed, Detached, Actor, NoActor, Orders
  <2>2. \A o \in Issued : Session(o) \in Sessions /\ o \in Nat
    BY ChangesFit
  <2>3. /\ Issued' = Issued /\ at' = at /\ issued' = issued /\ issued \in Nat
        /\ live' = live /\ open' = open /\ live' \subseteq attached'
        /\ \A o \in Issued : Session(o)' = Session(o)
    BY <1>12, ChangesAssumption DEF TypeOK, SessionsFit, ReadClosed, Detached, Issued, Session
  <2> QED
    BY <2>1, <2>2, <2>3 DEF SessionsFit
<1>13. ASSUME NEW c \in Connections, Disconnect(c) PROVE SessionsFit'
  <2>1. \A q \in Sessions : /\ sessions[q].order \in Nat /\ sessions'[q].order \in Nat
                           /\ sessions'[q].order <= sessions[q].order
    BY <1>13 DEF TypeOK, Disconnect, Detached, Actor, NoActor, Orders
  <2>2. \A o \in Issued : Session(o) \in Sessions /\ o \in Nat
    BY ChangesFit
  <2>3. /\ Issued' = Issued /\ at' = at /\ issued' = issued /\ issued \in Nat
        /\ live' = live /\ open' = open /\ live' \subseteq attached'
        /\ \A o \in Issued : Session(o)' = Session(o)
    BY <1>13, ChangesAssumption DEF TypeOK, SessionsFit, Disconnect, Detached, Issued, Session
  <2> QED
    BY <2>1, <2>2, <2>3 DEF SessionsFit
<1>14. CASE UNCHANGED vars
  BY <1>14, ThroughAssumption, ChangesAssumption
  DEF TypeOK, InOrder, SessionsFit, NoActor, Orders, Issued, Session, Connection, vars
<1> QED
  BY <1>1, <1>2, <1>3, <1>4, <1>5, <1>6, <1>7, <1>8, <1>9, <1>10, <1>11, <1>12, <1>13, <1>14
  DEF Next

LEMMA ReadersKeepKnowing ==
    ASSUME TypeOK, ReadersKnow, [Next]_vars
    PROVE  ReadersKnow'
<1> USE DEF known, browser
<1>1. CASE Seed
  BY <1>1, ThroughAssumption, UnknownAssumption
  DEF TypeOK, ReadersKnow, Observed, Known, Orders, Change, Issued, Session, Connection,
      Seed
<1>2. ASSUME NEW s \in Sessions, Attach(s) PROVE ReadersKnow'
  BY <1>2, ThroughAssumption, UnknownAssumption
  DEF TypeOK, ReadersKnow, Observed, Known, Orders, Change, Issued, Session, Connection,
      Attach
<1>3. ASSUME NEW s \in Sessions, Detach(s) PROVE ReadersKnow'
  BY <1>3, ThroughAssumption, UnknownAssumption
  DEF TypeOK, ReadersKnow, Observed, Known, Orders, Change, Issued, Session, Connection,
      Detach, End
<1>4. ASSUME NEW s \in Sessions, ReadDetached(s) PROVE ReadersKnow'
  BY <1>4, ThroughAssumption, UnknownAssumption
  DEF TypeOK, ReadersKnow, Observed, Known, Orders, Change, Issued, Session, Connection,
      ReadDetached, Detached, Changes
<1>5. ASSUME NEW s \in Sessions, NEW v \in BOOLEAN, ChangeRaw(s, v) PROVE ReadersKnow'
  BY <1>5, ThroughAssumption, UnknownAssumption
  DEF TypeOK, ReadersKnow, Observed, Known, Orders, Change, Issued, Session, Connection,
      ChangeRaw, Write
<1>6. ASSUME NEW s \in Sessions, NEW v \in BOOLEAN, NEW w \in BOOLEAN,
             ChangeScripts(s, v, w)
      PROVE  ReadersKnow'
  BY <1>6, ThroughAssumption, UnknownAssumption
  DEF TypeOK, ReadersKnow, Observed, Known, Orders, Change, Issued, Session, Connection,
      ChangeScripts, Write
<1>7. ASSUME NEW o \in Orders, Cancel(o) PROVE ReadersKnow'
  BY <1>7, ThroughAssumption, UnknownAssumption
  DEF TypeOK, ReadersKnow, Observed, Known, Orders, Change, Issued, Session, Connection,
      Cancel
<1>8. ASSUME NEW o \in Orders, Reply(o) PROVE ReadersKnow'
  BY <1>8, ThroughAssumption, UnknownAssumption
  DEF TypeOK, ReadersKnow, Observed, Known, Orders, Change, Issued, Session, Connection,
      Reply
<1>9. ASSUME NEW o \in Orders, Accept(o) PROVE ReadersKnow'
  BY <1>9, ThroughAssumption, UnknownAssumption
  DEF TypeOK, ReadersKnow, Observed, Known, Orders, Change, Issued, Session, Connection,
      Accept, NextInLine
<1>10. ASSUME NEW o \in Orders, Refuse(o) PROVE ReadersKnow'
  BY <1>10, ThroughAssumption, UnknownAssumption
  DEF TypeOK, ReadersKnow, Observed, Known, Orders, Change, Issued, Session, Connection,
      Refuse, NextInLine
<1>11. ASSUME NEW c \in Connections, Close(c) PROVE ReadersKnow'
  BY <1>11, ThroughAssumption, UnknownAssumption
  DEF TypeOK, ReadersKnow, Observed, Known, Orders, Change, Issued, Session, Connection,
      Close, End, Of
<1>12. ASSUME NEW c \in Connections, ReadClosed(c) PROVE ReadersKnow'
  BY <1>12, ThroughAssumption, UnknownAssumption
  DEF TypeOK, ReadersKnow, Observed, Known, Orders, Change, Issued, Session, Connection,
      ReadClosed, Detached, Changes, Of
<1>13. ASSUME NEW c \in Connections, Disconnect(c) PROVE ReadersKnow'
  BY <1>13, ThroughAssumption, UnknownAssumption
  DEF TypeOK, ReadersKnow, Observed, Known, Orders, Change, Issued, Session, Connection,
      Disconnect, Detached, Changes, Of
<1>14. CASE UNCHANGED vars
  BY <1>14, ThroughAssumption, UnknownAssumption
  DEF TypeOK, ReadersKnow, Observed, Known, Orders, Change, Issued, Session, Connection,
      vars
<1> QED
  BY <1>1, <1>2, <1>3, <1>4, <1>5, <1>6, <1>7, <1>8, <1>9, <1>10, <1>11, <1>12, <1>13, <1>14
  DEF Next

LEMMA LaterStayPending ==
    ASSUME TypeOK, ReadersKnow, LaterArePending, [Next]_vars
    PROVE  LaterArePending'
<1> USE DEF known, browser
<1>1. CASE Seed
  BY <1>1, ThroughAssumption, UnknownAssumption
  DEF TypeOK, ReadersKnow, LaterArePending, Observed, Known, NoActor, Orders, Issued,
      Session, Connection, Seed
<1>2. ASSUME NEW s \in Sessions, Attach(s) PROVE LaterArePending'
  <2>1. /\ Issued' = Issued /\ at' = at /\ pending' = pending
        /\ \A o \in Issued : Session(o)' = Session(o) /\ Session(o) # s
    BY <1>2, ChangesAssumption DEF TypeOK, Attach, Issued, Session, Orders
  <2>2. \A q \in Sessions \ {s} : sessions'[q] = sessions[q]
    BY <1>2 DEF TypeOK, Attach
  <2>3. Observed' \subseteq Observed \cup {s} /\ Observed' \subseteq Sessions
    BY <1>2 DEF TypeOK, Attach, Observed
  <2> QED
    BY <2>1, <2>2, <2>3 DEF LaterArePending, Known
<1>3. ASSUME NEW s \in Sessions, Detach(s) PROVE LaterArePending'
  BY <1>3, ThroughAssumption, UnknownAssumption
  DEF TypeOK, ReadersKnow, LaterArePending, Observed, Known, NoActor, Orders, Issued,
      Session, Connection, Detach, End
<1>4. ASSUME NEW s \in Sessions, ReadDetached(s) PROVE LaterArePending'
  BY <1>4, ThroughAssumption, UnknownAssumption
  DEF TypeOK, ReadersKnow, LaterArePending, Observed, Known, NoActor, Orders, Issued,
      Session, Connection, ReadDetached, Detached, Changes
<1>5. ASSUME NEW s \in Sessions, NEW v \in BOOLEAN, ChangeRaw(s, v) PROVE LaterArePending'
  <2>1. Adds(s, v)
    BY <1>5, Added
  <2>2. /\ unseen' /\ s \notin Observed'
        /\ Observed' \subseteq Observed /\ Observed' \subseteq Sessions
    BY <1>5 DEF TypeOK, ChangeRaw, Observed
  <2>3. \A q \in Sessions \ {s} : sessions'[q] = sessions[q]
    BY <1>5 DEF TypeOK, ChangeRaw
  <2>4. pending' = pending
    BY <1>5 DEF ChangeRaw, Write
  <2>5. ASSUME NEW q \in Observed', Known(q)', NEW o \in Issued', Session(o)' = q,
               at'[o] \in {"sent", "accepted"}, o > sessions'[q].order
        PROVE  o \in pending
    <3>1. q # s /\ q \in Observed /\ Known(q) /\ sessions'[q] = sessions[q]
      BY <2>2, <2>3, <2>5 DEF Known
    <3>2. o \in Issued
      BY <2>1, <2>5, <3>1 DEF Adds
    <3>3. Session(o) = q /\ at[o] = at'[o]
      BY <2>1, <2>5, <3>2 DEF Adds
    <3> QED
      BY <2>5, <3>1, <3>2, <3>3 DEF LaterArePending
  <2> QED
    BY <2>4, <2>5 DEF LaterArePending
<1>6. ASSUME NEW s \in Sessions, NEW v \in BOOLEAN, NEW w \in BOOLEAN,
             ChangeScripts(s, v, w)
      PROVE  LaterArePending'
  BY <1>6, ThroughAssumption, UnknownAssumption
  DEF TypeOK, ReadersKnow, LaterArePending, Observed, Known, NoActor, Orders, Issued,
      Session, Connection, ChangeScripts, Write
<1>7. ASSUME NEW o \in Orders, Cancel(o) PROVE LaterArePending'
  BY <1>7, ThroughAssumption, UnknownAssumption
  DEF TypeOK, ReadersKnow, LaterArePending, Observed, Known, NoActor, Orders, Issued,
      Session, Connection, Cancel
<1>8. ASSUME NEW o \in Orders, Reply(o) PROVE LaterArePending'
  <2>1. /\ Issued' = Issued /\ at' = at /\ pending' = pending \ {o} /\ Observed' = Observed
        /\ \A p \in Issued : Session(p)' = Session(p) /\ p \in Nat
        /\ Observed \subseteq attached /\ o \in Issued
    BY <1>8, ChangesFit DEF TypeOK, Reply, Observed, Issued, Session
  <2>2. Session(o) \in Sessions /\ sessions[Session(o)].order \in Nat /\ o \in Nat
    BY <2>1, ChangesFit DEF TypeOK, Actor, Orders
  <2>3. \A q \in Sessions \ {Session(o)} : sessions'[q] = sessions[q]
    BY <1>8 DEF TypeOK, Reply, Session
  <2>4. ASSUME NEW p \in Issued, Session(o) \in Observed, Session(p) = Session(o),
               at[p] \in {"sent", "accepted"}, p > sessions'[Session(o)].order
        PROVE  p \in pending \ {o}
    <3>1. Known(Session(o))
      BY <1>8, <2>4 DEF ReadersKnow, Reply, Session
    <3>2. CASE at[o] = "accepted" /\ sessions[Session(o)].order < o
      <4>1. sessions'[Session(o)].order = o
        BY <1>8, <2>1, <2>2, <2>4, <3>2 DEF TypeOK, Reply, Session
      <4> QED
        <5>0. p \in Nat /\ p > o
          BY <2>1, <2>4, <4>1
        <5>1. p > o /\ p > sessions[Session(o)].order /\ p \in Nat
          BY <2>2, <3>2, <5>0
        <5> QED
          BY <2>2, <2>4, <3>1, <5>1 DEF LaterArePending
    <3>3. CASE ~(at[o] = "accepted" /\ sessions[Session(o)].order < o)
      <4>1. sessions' = sessions
        BY <1>8, <3>3 DEF Reply, Session
      <4>2. at[o] = "refused" \/ o <= sessions[Session(o)].order
        BY <1>8, <2>2, <3>3 DEF Reply
      <4> QED
        <5>0. p \in Nat /\ p > sessions[Session(o)].order
          BY <2>1, <2>4, <4>1
        <5>1. p > sessions[Session(o)].order /\ p \in Nat /\ p # o
          BY <2>2, <2>4, <4>2, <5>0
        <5> QED
          BY <2>4, <3>1, <5>1 DEF LaterArePending
    <3> QED
      BY <3>2, <3>3
  <2>5. Session(o) \in Observed => Known(Session(o))
    BY <1>8 DEF ReadersKnow, Reply, Session
  <2>6. Observed \subseteq Sessions
    BY DEF TypeOK, Observed
  <2> QED
    BY <2>1, <2>2, <2>3, <2>4, <2>5, <2>6 DEF LaterArePending, Known
<1>9. ASSUME NEW o \in Orders, Accept(o) PROVE LaterArePending'
  BY <1>9, ThroughAssumption, UnknownAssumption
  DEF TypeOK, ReadersKnow, LaterArePending, Observed, Known, NoActor, Orders, Issued,
      Session, Connection, Accept, NextInLine
<1>10. ASSUME NEW o \in Orders, Refuse(o) PROVE LaterArePending'
  BY <1>10, ThroughAssumption, UnknownAssumption
  DEF TypeOK, ReadersKnow, LaterArePending, Observed, Known, NoActor, Orders, Issued,
      Session, Connection, Refuse, NextInLine
<1>11. ASSUME NEW c \in Connections, Close(c) PROVE LaterArePending'
  <2>1. Cuts(c)
    BY <1>11, Cut
  <2> QED
    BY <1>11, <2>1, UnknownAssumption
    DEF TypeOK, LaterArePending, Observed, Known, NoActor, Cuts, Close
<1>12. ASSUME NEW c \in Connections, ReadClosed(c) PROVE LaterArePending'
  BY <1>12, ThroughAssumption, UnknownAssumption
  DEF TypeOK, ReadersKnow, LaterArePending, Observed, Known, NoActor, Orders, Issued,
      Session, Connection, ReadClosed, Detached, Changes, Of
<1>13. ASSUME NEW c \in Connections, Disconnect(c) PROVE LaterArePending'
  BY <1>13, ThroughAssumption, UnknownAssumption
  DEF TypeOK, ReadersKnow, LaterArePending, Observed, Known, NoActor, Orders, Issued,
      Session, Connection, Disconnect, Detached, Changes, Of
<1>14. CASE UNCHANGED vars
  BY <1>14, ThroughAssumption, UnknownAssumption
  DEF TypeOK, ReadersKnow, LaterArePending, Observed, Known, NoActor, Orders, Issued,
      Session, Connection, vars
<1> QED
  BY <1>1, <1>2, <1>3, <1>4, <1>5, <1>6, <1>7, <1>8, <1>9, <1>10, <1>11, <1>12, <1>13, <1>14
  DEF Next

LEMMA OverridesStayKnown ==
    ASSUME TypeOK, Execution, Actors, [Next]_vars
    PROVE  OverridesAreKnown'
<1> USE DEF known, browser
<1>1. CASE Seed
  BY <1>1, ThroughAssumption, UnknownAssumption
  DEF TypeOK, Execution, InOrder, LastAccepted, SessionsFit, Actors, ReadersKnow,
      LaterArePending, OverridesAreKnown, Observed, Known, NoActor, Orders, Issued, Session,
      Connection, Seed
<1>2. ASSUME NEW s \in Sessions, Attach(s) PROVE OverridesAreKnown'
  <2>1. /\ Issued' = Issued /\ at' = at /\ override' = override
        /\ \A o \in Issued : Session(o)' = Session(o) /\ Session(o) # s
    BY <1>2, ChangesAssumption DEF TypeOK, Attach, Issued, Session, Orders
  <2>2. override[s] = FALSE /\ sessions'[s].disabled = FALSE
    BY <1>2, <2>1 DEF TypeOK, Attach, Execution, LastAccepted
  <2>3. \A q \in Sessions \ {s} : sessions'[q] = sessions[q]
    BY <1>2 DEF TypeOK, Attach
  <2>4. Observed' \subseteq Observed \cup {s} /\ Observed' \subseteq Sessions
    BY <1>2 DEF TypeOK, Attach, Observed
  <2> QED
    BY <2>1, <2>2, <2>3, <2>4 DEF Actors, OverridesAreKnown, Known
<1>3. ASSUME NEW s \in Sessions, Detach(s) PROVE OverridesAreKnown'
  BY <1>3, ThroughAssumption, UnknownAssumption
  DEF TypeOK, Execution, InOrder, LastAccepted, SessionsFit, Actors, ReadersKnow,
      LaterArePending, OverridesAreKnown, Observed, Known, NoActor, Orders, Issued, Session,
      Connection, Detach, End
<1>4. ASSUME NEW s \in Sessions, ReadDetached(s) PROVE OverridesAreKnown'
  BY <1>4, ThroughAssumption, UnknownAssumption
  DEF TypeOK, Execution, InOrder, LastAccepted, SessionsFit, Actors, ReadersKnow,
      LaterArePending, OverridesAreKnown, Observed, Known, NoActor, Orders, Issued, Session,
      Connection, ReadDetached, Detached, Changes
<1>5. ASSUME NEW s \in Sessions, NEW v \in BOOLEAN, ChangeRaw(s, v) PROVE OverridesAreKnown'
  BY <1>5, ThroughAssumption, UnknownAssumption
  DEF TypeOK, Execution, InOrder, LastAccepted, SessionsFit, Actors, ReadersKnow,
      LaterArePending, OverridesAreKnown, Observed, Known, NoActor, Orders, Issued, Session,
      Connection, ChangeRaw, Write
<1>6. ASSUME NEW s \in Sessions, NEW v \in BOOLEAN, NEW w \in BOOLEAN,
             ChangeScripts(s, v, w)
      PROVE  OverridesAreKnown'
  <2>1. Adds(s, v)
    BY <1>6, Added
  <2> QED
    BY <1>6, <2>1, UnknownAssumption
    DEF TypeOK, Actors, OverridesAreKnown, Observed, Known, Adds, ChangeScripts
<1>7. ASSUME NEW o \in Orders, Cancel(o) PROVE OverridesAreKnown'
  BY <1>7, ThroughAssumption, UnknownAssumption
  DEF TypeOK, Execution, InOrder, LastAccepted, SessionsFit, Actors, ReadersKnow,
      LaterArePending, OverridesAreKnown, Observed, Known, NoActor, Orders, Issued, Session,
      Connection, Cancel
<1>8. ASSUME NEW o \in Orders, Reply(o) PROVE OverridesAreKnown'
  BY <1>8, ThroughAssumption, UnknownAssumption
  DEF TypeOK, Execution, InOrder, LastAccepted, SessionsFit, Actors, ReadersKnow,
      LaterArePending, OverridesAreKnown, Observed, Known, NoActor, Orders, Issued, Session,
      Connection, Reply
<1>9. ASSUME NEW o \in Orders, Accept(o) PROVE OverridesAreKnown'
  <2>1. Carries(o)
    BY <1>9, Carried
  <2>2. Observed' = Observed /\ sessions' = sessions /\ Observed \subseteq Sessions
    BY <1>9 DEF TypeOK, Accept, Observed
  <2>3. \A s \in Sessions : s # Session(o) => override'[s] = override[s]
    BY <2>1 DEF TypeOK, Carries
  <2>4. o > sessions[Session(o)].order /\ o \in Nat /\ sessions[Session(o)].order \in Nat
    BY <2>1, ChangesFit DEF TypeOK, Execution, SessionsFit, Carries, Actor, Orders
  <2>5. ASSUME NEW s \in Observed, Known(s)',
               \A p \in Issued' : Session(p)' = s /\ at'[p] = "accepted" => p <= sessions'[s].order
        PROVE  override'[s] = sessions'[s].disabled
    <3>1. s # Session(o)
      BY <2>1, <2>2, <2>4, <2>5 DEF Carries
    <3> QED
      BY <2>1, <2>2, <2>3, <2>5, <3>1 DEF Actors, OverridesAreKnown, Known, Carries
  <2> QED
    BY <2>2, <2>5 DEF OverridesAreKnown
<1>10. ASSUME NEW o \in Orders, Refuse(o) PROVE OverridesAreKnown'
  BY <1>10, ThroughAssumption, UnknownAssumption
  DEF TypeOK, Execution, InOrder, LastAccepted, SessionsFit, Actors, ReadersKnow,
      LaterArePending, OverridesAreKnown, Observed, Known, NoActor, Orders, Issued, Session,
      Connection, Refuse, NextInLine
<1>11. ASSUME NEW c \in Connections, Close(c) PROVE OverridesAreKnown'
  <2>1. Cuts(c)
    BY <1>11, Cut
  <2>2. \A p \in Issued : at'[p] = "accepted" <=> at[p] = "accepted"
    BY <2>1 DEF Cuts
  <2> QED
    BY <1>11, <2>1, <2>2 DEF Actors, OverridesAreKnown, Observed, Known, Cuts, Close
<1>12. ASSUME NEW c \in Connections, ReadClosed(c) PROVE OverridesAreKnown'
  BY <1>12, ThroughAssumption, UnknownAssumption
  DEF TypeOK, Execution, InOrder, LastAccepted, SessionsFit, Actors, ReadersKnow,
      LaterArePending, OverridesAreKnown, Observed, Known, NoActor, Orders, Issued, Session,
      Connection, ReadClosed, Detached, Changes, Of
<1>13. ASSUME NEW c \in Connections, Disconnect(c) PROVE OverridesAreKnown'
  BY <1>13, ThroughAssumption, UnknownAssumption
  DEF TypeOK, Execution, InOrder, LastAccepted, SessionsFit, Actors, ReadersKnow,
      LaterArePending, OverridesAreKnown, Observed, Known, NoActor, Orders, Issued, Session,
      Connection, Disconnect, Detached, Changes, Of
<1>14. CASE UNCHANGED vars
  BY <1>14, ThroughAssumption, UnknownAssumption
  DEF TypeOK, Execution, InOrder, LastAccepted, SessionsFit, Actors, ReadersKnow,
      LaterArePending, OverridesAreKnown, Observed, Known, NoActor, Orders, Issued, Session,
      Connection, vars
<1> QED
  BY <1>1, <1>2, <1>3, <1>4, <1>5, <1>6, <1>7, <1>8, <1>9, <1>10, <1>11, <1>12, <1>13, <1>14
  DEF Next

LEMMA OverlapsStayConfirmed ==
    ASSUME TypeOK, OverlapsAreConfirmed, [Next]_vars
    PROVE  OverlapsAreConfirmed'
<1> USE DEF known, browser
<1>1. CASE Seed
  BY <1>1, ThroughAssumption, UnknownAssumption, ChangesAssumption
  DEF TypeOK, OverlapsAreConfirmed, Orders, Issued, Session, Connection, Seed
<1>2. ASSUME NEW s \in Sessions, Attach(s) PROVE OverlapsAreConfirmed'
  BY <1>2, ThroughAssumption, UnknownAssumption, ChangesAssumption
  DEF TypeOK, OverlapsAreConfirmed, Orders, Issued, Session, Connection, Attach
<1>3. ASSUME NEW s \in Sessions, Detach(s) PROVE OverlapsAreConfirmed'
  BY <1>3, ThroughAssumption, UnknownAssumption, ChangesAssumption
  DEF TypeOK, OverlapsAreConfirmed, Orders, Issued, Session, Connection, Detach, End
<1>4. ASSUME NEW s \in Sessions, ReadDetached(s) PROVE OverlapsAreConfirmed'
  BY <1>4, ThroughAssumption, UnknownAssumption, ChangesAssumption
  DEF TypeOK, OverlapsAreConfirmed, Orders, Issued, Session, Connection, ReadDetached,
      Detached, Changes
<1>5. ASSUME NEW s \in Sessions, NEW v \in BOOLEAN, ChangeRaw(s, v) PROVE OverlapsAreConfirmed'
  BY <1>5, ThroughAssumption, UnknownAssumption, ChangesAssumption
  DEF TypeOK, OverlapsAreConfirmed, Orders, Issued, Session, Connection, ChangeRaw, Write
<1>6. ASSUME NEW s \in Sessions, NEW v \in BOOLEAN, NEW w \in BOOLEAN,
             ChangeScripts(s, v, w)
      PROVE  OverlapsAreConfirmed'
  BY <1>6, ThroughAssumption, UnknownAssumption, ChangesAssumption
  DEF TypeOK, OverlapsAreConfirmed, Orders, Issued, Session, Connection, ChangeScripts,
      Write, Overlaps
<1>7. ASSUME NEW o \in Orders, Cancel(o) PROVE OverlapsAreConfirmed'
  BY <1>7, ThroughAssumption, UnknownAssumption, ChangesAssumption
  DEF TypeOK, OverlapsAreConfirmed, Orders, Issued, Session, Connection, Cancel
<1>8. ASSUME NEW o \in Orders, Reply(o) PROVE OverlapsAreConfirmed'
  BY <1>8, ThroughAssumption, UnknownAssumption, ChangesAssumption
  DEF TypeOK, OverlapsAreConfirmed, Orders, Issued, Session, Connection, Reply, Confirms
<1>9. ASSUME NEW o \in Orders, Accept(o) PROVE OverlapsAreConfirmed'
  BY <1>9, ThroughAssumption, UnknownAssumption, ChangesAssumption
  DEF TypeOK, OverlapsAreConfirmed, Orders, Issued, Session, Connection, Accept, NextInLine
<1>10. ASSUME NEW o \in Orders, Refuse(o) PROVE OverlapsAreConfirmed'
  BY <1>10, ThroughAssumption, UnknownAssumption, ChangesAssumption
  DEF TypeOK, OverlapsAreConfirmed, Orders, Issued, Session, Connection, Refuse, NextInLine
<1>11. ASSUME NEW c \in Connections, Close(c) PROVE OverlapsAreConfirmed'
  BY <1>11, ThroughAssumption, UnknownAssumption, ChangesAssumption
  DEF TypeOK, OverlapsAreConfirmed, Orders, Issued, Session, Connection, Close, End, Of
<1>12. ASSUME NEW c \in Connections, ReadClosed(c) PROVE OverlapsAreConfirmed'
  BY <1>12, ThroughAssumption, UnknownAssumption, ChangesAssumption
  DEF TypeOK, OverlapsAreConfirmed, Orders, Issued, Session, Connection, ReadClosed,
      Detached, Changes, Of
<1>13. ASSUME NEW c \in Connections, Disconnect(c) PROVE OverlapsAreConfirmed'
  BY <1>13, ThroughAssumption, UnknownAssumption, ChangesAssumption
  DEF TypeOK, OverlapsAreConfirmed, Orders, Issued, Session, Connection, Disconnect,
      Detached, Changes, Of
<1>14. CASE UNCHANGED vars
  BY <1>14, ThroughAssumption, UnknownAssumption, ChangesAssumption
  DEF TypeOK, OverlapsAreConfirmed, Orders, Issued, Session, Connection, vars
<1> QED
  BY <1>1, <1>2, <1>3, <1>4, <1>5, <1>6, <1>7, <1>8, <1>9, <1>10, <1>11, <1>12, <1>13, <1>14
  DEF Next

-----------------------------------------------------------------------------
(* What is known of the page.                                              *)

(* Unsettled changes of two connections are confirmed already.             *)
LEMMA Apart ==
    ASSUME TypeOK, OverlapsAreConfirmed, NEW p \in pending, NEW q \in pending,
           Connection(p) # Connection(q)
    PROVE  p <= confirmed /\ q <= confirmed
<1>1. p \in Nat /\ q \in Nat /\ confirmed \in Nat
  BY ChangesAssumption DEF TypeOK
<1>2. CASE p < q
  BY <1>1, <1>2 DEF OverlapsAreConfirmed
<1>3. CASE q < p
  BY <1>1, <1>3 DEF OverlapsAreConfirmed
<1>4. p # q
  OBVIOUS
<1> QED
  BY <1>1, <1>2, <1>3, <1>4

LEMMA PendingFit ==
    ASSUME TypeOK
    PROVE  /\ pending \subseteq Issued /\ issued \in Nat /\ confirmed \in Nat
           /\ confirmed <= issued
  BY ChangesAssumption DEF TypeOK, Issued

(* The daemon reads that a session it observed has ended.                  *)
LEMMA LateIsUnknown ==
    ASSUME TypeOK, Actors, ~unseen, NEW ended \in SUBSET Sessions, Detached(ended),
           NEW s \in ended, s \in attached, Through[s] \in reading, override[s]
    PROVE  disabled' = Unknown /\ confirmed' = issued
<1>1. s \in Observed /\ Known(s)
  BY DEF Observed, Actors, ReadersKnow
<1>2. CASE sessions[s].disabled = TRUE
  BY <1>2 DEF Detached
<1>3. CASE sessions[s].disabled # TRUE
  <2>1. override[s] # sessions[s].disabled
    BY <1>3 DEF TypeOK
  <2>2. PICK o \in Issued : /\ Session(o) = s /\ at[o] = "accepted"
                            /\ ~(o <= sessions[s].order)
    BY <1>1, <2>1 DEF Actors, OverridesAreKnown
  <2>3. o \in Nat /\ sessions[s].order \in Nat
    BY <2>2, ChangesFit DEF TypeOK, Actor, Orders
  <2>4. o \in pending
    BY <1>1, <2>2, <2>3 DEF Actors, LaterArePending
  <2> QED
    BY <2>2, <2>4 DEF Detached, Changes, Session
<1> QED
  BY <1>2, <1>3

LateRead == Late => Late' \/ (disabled' = Unknown /\ confirmed' = issued)

LEMMA LateReadDetached ==
    ASSUME TypeOK, Actors, ~unseen, NEW s \in Sessions, ReadDetached(s)
    PROVE  LateRead
<1> SUFFICES ASSUME Late PROVE Late' \/ (disabled' = Unknown /\ confirmed' = issued)
  BY DEF LateRead
<1>1. PICK q \in attached \ live : Through[q] \in reading /\ override[q]
  BY DEF Late
<1>2. CASE q = s
  BY <1>1, <1>2, LateIsUnknown DEF ReadDetached
<1>3. CASE q # s
  <2>1. q \in attached' /\ q \notin live' /\ Through[q] \in reading' /\ override'[q]
    BY <1>1, <1>3 DEF ReadDetached, browser
  <2> QED
    BY <2>1 DEF Late
<1> QED
  BY <1>2, <1>3

LEMMA LateReadClosed ==
    ASSUME TypeOK, Actors, ~unseen, NEW c \in Connections, ReadClosed(c) \/ Disconnect(c)
    PROVE  LateRead
<1> SUFFICES ASSUME Late PROVE Late' \/ (disabled' = Unknown /\ confirmed' = issued)
  BY DEF LateRead
<1>1. PICK q \in attached \ live : Through[q] \in reading /\ override[q]
  BY DEF Late
<1>2. CASE Through[q] = c
  <2>1. q \in attached \cap Of(c) /\ attached \cap Of(c) \in SUBSET Sessions
    BY <1>1, <1>2 DEF TypeOK, Of
  <2>2. Detached(attached \cap Of(c))
    BY DEF ReadClosed, Disconnect
  <2> QED
    BY <1>1, <2>1, <2>2, LateIsUnknown
<1>3. CASE Through[q] # c
  <2>1. q \in attached' /\ q \notin live' /\ Through[q] \in reading' /\ override'[q]
    BY <1>1, <1>3, ThroughAssumption DEF TypeOK, ReadClosed, Disconnect, browser
  <2> QED
    BY <2>1 DEF Late
<1> QED
  BY <1>2, <1>3

(* A session that ends in the browser changes the page as it is read, or   *)
(* because of a change that is still pending.                              *)
Leaves ==
    ~Late' =>
        /\ ~Late
        /\ \/ page' = page
           \/ \E q \in pending : /\ at[q] = "accepted" /\ Connection(q) \notin reading
                                 /\ Session(q) \in attached

LEMMA EndsLeave ==
    ASSUME TypeOK, SessionsFit, NothingIsDropped, NEW ended \in SUBSET Sessions, End(ended),
           attached' = attached, reading' = reading, override' = override
    PROVE  Leaves
<1> SUFFICES ASSUME ~Late'
             PROVE  /\ ~Late
                    /\ \/ page' = page
                       \/ \E q \in pending : /\ at[q] = "accepted" /\ Connection(q) \notin reading
                                             /\ Session(q) \in attached
  BY DEF Leaves
<1>1. live' = live \ ended /\ live \subseteq attached
  BY DEF End, SessionsFit
<1>2. ~Late
  BY <1>1 DEF Late
<1>3. CASE \E s \in ended \cap live : override[s]
  <2>1. PICK s \in ended \cap live : override[s]
    BY <1>3
  <2>2. s \in attached' \ live'
    BY <1>1, <2>1
  <2>3. Through[s] \notin reading
    BY <2>1, <2>2 DEF Late
  <2>4. PICK q \in pending : at[q] = "accepted" /\ Session(q) = s
    BY <2>1, <2>3 DEF NothingIsDropped
  <2> QED
    BY <1>1, <1>2, <2>1, <2>3, <2>4 DEF Session, Connection
<1>4. CASE ~ \E s \in ended \cap live : override[s]
  BY <1>2, <1>4 DEF End
<1> QED
  BY <1>3, <1>4

LEMMA DetachLeaves ==
    ASSUME TypeOK, SessionsFit, NothingIsDropped, NEW s \in Sessions, Detach(s)
    PROVE  Leaves
  BY EndsLeave DEF Detach

LEMMA CloseLeaves ==
    ASSUME TypeOK, SessionsFit, NothingIsDropped, NEW c \in Connections, Close(c)
    PROVE  Leaves
<1>1. Of(c) \in SUBSET Sessions
  BY DEF Of
<1> QED
  BY <1>1, EndsLeave DEF Close

(* What an action does, as far as the page is concerned.                   *)
Same ==
    /\ Issued' = Issued /\ issued' = issued
    /\ \A o \in Issued : /\ change'[o] = change[o]
                         /\ Session(o)' = Session(o) /\ Connection(o)' = Connection(o)

Told == disabled' = disabled /\ confirmed' = confirmed
Forgotten == disabled' = Unknown /\ confirmed' = issued'

(* A new number is given to a change of session s.                         *)
Issues(s, v) ==
    /\ Adds(s, v)
    /\ change'[issued + 1].actor = PreviousActor(s)
    /\ change'[issued + 1].page = PreviousPage
    /\ pending' = pending \cup {issued + 1} /\ s \in attached
    /\ \/ Forgotten
       \/ Told /\ \A p \in pending : Connection(p) = Through[s]
    /\ UNCHANGED <<attached, reading, live, page, override, sessions>> /\ (Late' <=> Late)

(* A reply is read.                                                        *)
Settles(o) ==
    /\ Same /\ at' = at /\ o \in pending /\ o \in Issued
    /\ at[o] \in {"accepted", "refused"} /\ Connection(o) \in reading
    /\ pending' = pending \ {o}
    /\ \/ Told /\ (at[o] = "refused" \/ Session(o) \notin attached \/ o <= confirmed)
       \/ /\ at[o] = "accepted" /\ o > confirmed
          /\ confirmed' = o /\ disabled' = Proves(o)
    /\ UNCHANGED <<attached, reading, live, page, override>> /\ (Late' <=> Late)

(* The browser carries out a change.                                       *)
Arrives(o) ==
    /\ Carries(o) /\ Same /\ pending' = pending /\ Told
    /\ page' = (IF override[Session(o)] # change[o].disabled THEN change[o].disabled ELSE page)
    /\ UNCHANGED <<attached, reading, live>> /\ (Late' <=> Late)

(* The end of a session, or of a connection, is read.                      *)
Reads ==
    /\ Same /\ at' = at /\ pending' = pending
    /\ Told \/ Forgotten
    /\ UNCHANGED <<page, override, live>>
    /\ attached' \subseteq attached /\ reading' \subseteq reading
    /\ (Late => Late' \/ Forgotten)
    /\ \A o \in pending : Session(o) \notin attached' => Session(o) \notin attached \/ Forgotten
    /\ \A o \in pending : Session(o) \in attached /\ Connection(o) \in reading \ reading' =>
          Forgotten
    /\ \A s \in live : Through[s] \in reading \ reading' => ~override[s]

(* Sessions end in the browser.                                            *)
Departs ==
    /\ Same /\ pending' = pending /\ Told
    /\ \A o \in Issued : at'[o] = at[o] \/ (at[o] = "sent" /\ at'[o] = "lost")
    /\ UNCHANGED <<attached, reading, override>> /\ live' \subseteq live
    /\ Leaves

(* Nothing happens to the page.                                            *)
Rests ==
    /\ Same /\ pending' = pending /\ Told
    /\ \A o \in Issued : at'[o] = at[o] \/ (at[o] = "sent" /\ at'[o] = "refused")
    /\ UNCHANGED <<reading, override, page>> /\ (Late' <=> Late)
    /\ attached \subseteq attached'
    /\ \A o \in Issued : Session(o) \in attached' => Session(o) \in attached
    /\ \A s \in live' : s \in live \/ Through[s] \in reading

Starts ==
    /\ Same /\ Issued = {} /\ pending = {} /\ pending' = {} /\ page = FALSE /\ disabled' = FALSE
    /\ UNCHANGED <<attached, reading, live, page, override, at, confirmed>>

LEMMA StartEffect ==
    ASSUME TypeOK, Seed
    PROVE  Starts
<1>1. issued = 0 /\ Issued = {} /\ pending = {}
  BY DEF TypeOK, Seed, Issued
<1> QED
  BY <1>1 DEF TypeOK, Seed, Starts, Same, Issued, Session, Connection, browser

LEMMA IssueEffect ==
    ASSUME TypeOK, NEW s \in Sessions, NEW v \in BOOLEAN, NEW w \in BOOLEAN,
           ChangeScripts(s, v, w)
    PROVE  Issues(s, v)
<1>1. issued + 1 \in Orders
  BY ChangesAssumption DEF TypeOK, ChangeScripts, Write, Orders
<1>2. /\ change'[issued + 1].actor = PreviousActor(s)
      /\ change'[issued + 1].page = PreviousPage
  BY <1>1 DEF TypeOK, ChangeScripts, Write
<1>3. Adds(s, v)
  BY Added
<1>4. \/ Forgotten
      \/ Told /\ \A p \in pending : Connection(p) = Through[s]
  BY DEF ChangeScripts, Write, Forgotten, Told, Overlaps, Connection
<1>5. /\ pending' = pending \cup {issued + 1} /\ s \in attached
      /\ UNCHANGED <<attached, reading, live, page, override, sessions>>
  BY DEF ChangeScripts, browser
<1>6. Late' <=> Late
  BY <1>5 DEF Late
<1> QED
  BY <1>2, <1>3, <1>4, <1>5, <1>6 DEF Issues

LEMMA SettleEffect ==
    ASSUME TypeOK, NEW o \in Orders, Reply(o)
    PROVE  Settles(o)
<1>1. o \in pending /\ o \in Issued /\ o \in Nat /\ confirmed \in Nat
  BY ChangesAssumption DEF TypeOK, Reply, Issued
<1>2. /\ change' = change /\ issued' = issued /\ at' = at
      /\ UNCHANGED <<attached, reading, live, page, override>>
  BY DEF Reply, browser
<1>3. Same
  BY <1>2 DEF Same, Issued, Session, Connection
<1>4. Late' <=> Late
  BY <1>2 DEF Late
<1>5. \/ Told /\ (at[o] = "refused" \/ Session(o) \notin attached \/ o <= confirmed)
      \/ /\ at[o] = "accepted" /\ o > confirmed
         /\ confirmed' = o /\ disabled' = Proves(o)
  BY <1>1 DEF Reply, Told, Confirms, Session
<1>6. /\ at[o] \in {"accepted", "refused"} /\ Connection(o) \in reading
      /\ pending' = pending \ {o}
  BY DEF Reply, Connection
<1> QED
  BY <1>1, <1>2, <1>3, <1>4, <1>5, <1>6 DEF Settles

LEMMA ArriveEffect ==
    ASSUME TypeOK, NEW o \in Orders, Accept(o)
    PROVE  Arrives(o)
<1>1. Carries(o)
  BY Carried
<1>2. /\ change' = change /\ issued' = issued /\ pending' = pending /\ Told
      /\ UNCHANGED <<attached, reading, live>>
      /\ page' = (IF override[Session(o)] # change[o].disabled THEN change[o].disabled ELSE page)
  BY DEF Accept, known, Told, Session
<1>3. Same
  BY <1>2 DEF Same, Issued, Session, Connection
<1>4. \A s \in Sessions : s \notin live => override'[s] = override[s]
  BY <1>1 DEF TypeOK, Carries
<1>5. attached \ live \subseteq Sessions
  BY DEF TypeOK
<1>6. Late' <=> Late
  BY <1>2, <1>4, <1>5 DEF Late
<1> QED
  BY <1>1, <1>2, <1>3, <1>6 DEF Arrives

LEMMA ReadEffect ==
    ASSUME TypeOK, SessionsFit, Actors, ~unseen, ~unseen',
           \/ \E s \in Sessions : ReadDetached(s)
           \/ \E c \in Connections : ReadClosed(c) \/ Disconnect(c)
    PROVE  Reads
<1>1. CASE \E s \in Sessions : ReadDetached(s)
  <2>1. PICK s \in Sessions : ReadDetached(s)
    BY <1>1
  <2>2. /\ change' = change /\ issued' = issued /\ at' = at /\ pending' = pending
        /\ UNCHANGED <<page, override, live, reading>> /\ attached' = attached \ {s}
        /\ Detached({s})
    BY <2>1 DEF ReadDetached, Detached, browser
  <2>3. Same
    BY <2>2 DEF Same, Issued, Session, Connection
  <2>4. Told \/ Forgotten
    BY <2>2 DEF Detached, Told, Forgotten
  <2>5. Late => Late' \/ Forgotten
    BY <2>1, <2>2, LateReadDetached DEF LateRead, Forgotten
  <2>6. \A o \in pending : Session(o) = s => Forgotten
    BY <2>2 DEF Detached, Forgotten, Changes, Session
  <2> QED
    BY <2>2, <2>3, <2>4, <2>5, <2>6 DEF Reads
<1>2. CASE \E c \in Connections : ReadClosed(c) \/ Disconnect(c)
  <2>1. PICK c \in Connections : ReadClosed(c) \/ Disconnect(c)
    BY <1>2
  <2>2. /\ change' = change /\ issued' = issued /\ at' = at /\ pending' = pending
        /\ UNCHANGED <<page, override, live, attached>> /\ reading' = reading \ {c}
        /\ Detached(attached \cap Of(c))
    BY <2>1 DEF ReadClosed, Disconnect, Detached, browser
  <2>3. Same
    BY <2>2 DEF Same, Issued, Session, Connection
  <2>4. Told \/ Forgotten
    BY <2>2 DEF Detached, Told, Forgotten
  <2>5. Late => Late' \/ Forgotten
    BY <2>1, <2>2, LateReadClosed DEF LateRead, Forgotten
  <2>6. \A o \in pending : Session(o) \in attached /\ Connection(o) = c => Forgotten
    BY <2>2 DEF TypeOK, Detached, Forgotten, Changes, Of, Session, Connection
  <2>7. \A s \in live : Through[s] = c => ~override[s]
    BY <2>1 DEF TypeOK, SessionsFit, ReadClosed, Disconnect, Of
  <2> QED
    BY <2>2, <2>3, <2>4, <2>5, <2>6, <2>7 DEF Reads
<1> QED
  BY <1>1, <1>2

LEMMA DepartEffect ==
    ASSUME TypeOK, SessionsFit, NothingIsDropped,
           (\E s \in Sessions : Detach(s)) \/ (\E c \in Connections : Close(c))
    PROVE  Departs
<1>1. CASE \E s \in Sessions : Detach(s)
  <2>1. PICK s \in Sessions : Detach(s)
    BY <1>1
  <2>2. /\ change' = change /\ issued' = issued /\ at' = at /\ pending' = pending /\ Told
        /\ UNCHANGED <<attached, reading, override>> /\ live' \subseteq live
    BY <2>1 DEF Detach, End, known, Told
  <2>3. Same
    BY <2>2 DEF Same, Issued, Session, Connection
  <2>4. Leaves
    BY <2>1, DetachLeaves
  <2> QED
    BY <2>2, <2>3, <2>4 DEF Departs
<1>2. CASE \E c \in Connections : Close(c)
  <2>1. PICK c \in Connections : Close(c)
    BY <1>2
  <2>2. /\ change' = change /\ issued' = issued /\ pending' = pending /\ Told
        /\ UNCHANGED <<attached, reading, override>> /\ live' \subseteq live
    BY <2>1 DEF Close, End, known, Told
  <2>3. Same
    BY <2>2 DEF Same, Issued, Session, Connection
  <2>4. \A o \in Issued : at'[o] = at[o] \/ (at[o] = "sent" /\ at'[o] = "lost")
    <3>1. Cuts(c)
      BY <2>1, Cut
    <3> QED
      BY <3>1 DEF Cuts
  <2>5. Leaves
    BY <2>1, CloseLeaves
  <2> QED
    BY <2>2, <2>3, <2>4, <2>5 DEF Departs
<1> QED
  BY <1>1, <1>2

LEMMA RestEffect ==
    ASSUME TypeOK, Execution,
           \/ \E s \in Sessions : Attach(s)
           \/ \E o \in Orders : Cancel(o) \/ Refuse(o)
           \/ UNCHANGED vars
    PROVE  Rests
<1>1. CASE \E s \in Sessions : Attach(s)
  <2>1. PICK s \in Sessions : Attach(s)
    BY <1>1
  <2>2. /\ change' = change /\ issued' = issued /\ at' = at /\ pending' = pending /\ Told
        /\ UNCHANGED <<reading, override, page>>
        /\ attached' = attached \cup {s} /\ live' = live \cup {s} /\ Through[s] \in reading
    BY <2>1 DEF Attach, Told
  <2>3. Same
    BY <2>2 DEF Same, Issued, Session, Connection
  <2>4. Late' <=> Late
    BY <2>1, <2>2 DEF Late, Attach
  <2>5. \A o \in Issued : Session(o) # s
    BY <2>1, ChangesFit DEF Attach, Session
  <2>6. /\ \A o \in Issued : Session(o) \in attached' => Session(o) \in attached
        /\ \A q \in live' : q \in live \/ Through[q] \in reading
        /\ attached \subseteq attached'
    BY <2>2, <2>5
  <2> QED
    BY <2>2, <2>3, <2>4, <2>6 DEF Rests
<1>2. CASE \/ \E o \in Orders : Cancel(o) \/ Refuse(o)
           \/ UNCHANGED vars
  <2>1. /\ change' = change /\ issued' = issued /\ pending' = pending /\ Told
        /\ UNCHANGED <<reading, override, page, attached, live>>
    BY <1>2 DEF Cancel, Refuse, vars, known, browser, Told
  <2>2. \A o \in Issued : at'[o] = at[o] \/ (at[o] = "sent" /\ at'[o] = "refused")
    <3>1. CASE \E o \in Orders : Cancel(o)
      BY <3>1 DEF Cancel
    <3>2. CASE \E o \in Orders : Refuse(o)
      <4>1. PICK o \in Orders : Refuse(o)
        BY <3>2
      <4>2. at' = [at EXCEPT ![o] = "refused"] /\ at[o] = "sent"
        BY <4>1 DEF Refuse, NextInLine
      <4>3. Issued \subseteq Orders
        BY ChangesFit
      <4> QED
        BY <4>2, <4>3 DEF TypeOK
    <3>3. CASE UNCHANGED vars
      BY <3>3 DEF vars
    <3> QED
      BY <1>2, <3>1, <3>2, <3>3
  <2>3. Same
    BY <2>1 DEF Same, Issued, Session, Connection
  <2>4. Late' <=> Late
    BY <2>1 DEF Late
  <2> QED
    BY <2>1, <2>2, <2>3, <2>4 DEF Rests
<1> QED
  BY <1>1, <1>2

LEMMA Effects ==
    ASSUME TypeOK, Execution, Actors, NothingIsDropped, ~unseen, ~unseen', [Next]_vars
    PROVE  \/ Starts
           \/ \E s \in Sessions, v \in BOOLEAN : Issues(s, v)
           \/ \E o \in Orders : Settles(o) \/ Arrives(o)
           \/ Reads \/ Departs \/ Rests
<1>1. CASE Seed
  BY <1>1, StartEffect
<1>2. CASE \E s \in Sessions, v \in BOOLEAN, w \in BOOLEAN : ChangeScripts(s, v, w)
  BY <1>2, IssueEffect
<1>3. CASE \E o \in Orders : Reply(o)
  BY <1>3, SettleEffect
<1>4. CASE \E o \in Orders : Accept(o)
  BY <1>4, ArriveEffect
<1>5. CASE \/ \E s \in Sessions : ReadDetached(s)
           \/ \E c \in Connections : ReadClosed(c) \/ Disconnect(c)
  BY <1>5, ReadEffect DEF Execution
<1>6. CASE (\E s \in Sessions : Detach(s)) \/ (\E c \in Connections : Close(c))
  BY <1>6, DepartEffect DEF Execution
<1>7. CASE \/ \E s \in Sessions : Attach(s)
           \/ \E o \in Orders : Cancel(o) \/ Refuse(o)
           \/ UNCHANGED vars
  BY <1>7, RestEffect
<1>8. ASSUME NEW s \in Sessions, NEW v \in BOOLEAN, ChangeRaw(s, v) PROVE FALSE
  BY <1>8 DEF ChangeRaw
<1> QED
  BY <1>1, <1>2, <1>3, <1>4, <1>5, <1>6, <1>7, <1>8 DEF Next

LEMMA NothingStaysMissed ==
    ASSUME TypeOK, Execution, Actors, OverlapsAreConfirmed, NothingIsDropped,
           ~unseen, ~unseen', [Next]_vars, NothingIsMissed
    PROVE  NothingIsMissed'
<1>0. /\ pending \subseteq Issued /\ issued \in Nat /\ confirmed \in Nat /\ confirmed <= issued
      /\ \A o \in Issued : o \in Nat /\ o <= issued
  BY PendingFit DEF Issued
<1>1. CASE Starts
  BY <1>0, <1>1
  DEF NothingIsMissed, Starts, Same, Told, Forgotten
<1>2. ASSUME NEW s \in Sessions, NEW v \in BOOLEAN, Issues(s, v) PROVE NothingIsMissed'
  BY <1>0, <1>2
  DEF NothingIsMissed, Issues, Same, Told, Forgotten, Adds
<1>3. ASSUME NEW o \in Orders, Settles(o) PROVE NothingIsMissed'
  <2>1. /\ Same /\ at' = at /\ pending' = pending \ {o} /\ o \in pending /\ o \in Issued
        /\ attached' = attached /\ at[o] \in {"accepted", "refused"}
    BY <1>3 DEF Settles
  <2>2. confirmed' >= confirmed /\ confirmed' \in Nat
    BY <1>0, <1>3 DEF Settles, Told
  <2>3. at[o] = "accepted" => o <= confirmed'
    BY <1>0, <1>3 DEF Settles, Told, NothingIsMissed
  <2>4. ASSUME disabled' # Unknown, NEW p \in Issued, at[p] = "sent"
        PROVE  p > confirmed'
    <3>1. CASE Told
      BY <2>4, <3>1 DEF Told, NothingIsMissed
    <3>2. CASE at[o] = "accepted" /\ o > confirmed /\ confirmed' = o
      <4>1. p \in pending /\ p # o
        BY <2>4, <3>2 DEF NothingIsMissed
      <4>2. Connection(p) = Connection(o)
        BY <1>0, <2>1, <3>2, <4>1, Apart
      <4>3. ~(p < o)
        BY <2>1, <2>4, <3>2, <4>2 DEF Execution, InOrder
      <4> QED
        BY <1>0, <2>1, <3>2, <4>1, <4>3
    <3> QED
      BY <1>3, <3>1, <3>2 DEF Settles
  <2>5. \A p \in Issued : at[p] = "sent" => p \in pending'
    BY <2>1 DEF NothingIsMissed
  <2>6. \A p \in Issued : at[p] = "accepted" /\ p > confirmed' => p \in pending'
    BY <1>0, <2>1, <2>2, <2>3 DEF NothingIsMissed
  <2>7. \A p \in pending' : Session(p) \notin attached => p <= confirmed'
    BY <1>0, <2>1, <2>2 DEF NothingIsMissed
  <2> QED
    BY <1>0, <2>1, <2>4, <2>5, <2>6, <2>7 DEF NothingIsMissed, Same
<1>4. ASSUME NEW o \in Orders, Arrives(o) PROVE NothingIsMissed'
  BY <1>0, <1>4
  DEF NothingIsMissed, Arrives, Same, Told, Forgotten, Carries
<1>5. CASE Reads
  BY <1>0, <1>5
  DEF NothingIsMissed, Reads, Same, Told, Forgotten
<1>6. CASE Departs
  BY <1>0, <1>6
  DEF NothingIsMissed, Departs, Same, Told, Forgotten
<1>7. CASE Rests
  BY <1>0, <1>7
  DEF NothingIsMissed, Rests, Same, Told, Forgotten
<1> QED
  BY <1>1, <1>2, <1>3, <1>4, <1>5, <1>6, <1>7, Effects

LEMMA NothingStaysDropped ==
    ASSUME TypeOK, Execution, Actors, OverlapsAreConfirmed, NothingIsDropped,
           ~unseen, ~unseen', [Next]_vars, NothingIsMissed
    PROVE  NothingIsDropped'
<1>0. /\ pending \subseteq Issued /\ issued \in Nat /\ confirmed \in Nat /\ confirmed <= issued
      /\ \A o \in Issued : o \in Nat /\ o <= issued
  BY PendingFit DEF Issued
<1>1. CASE Starts
  BY <1>0, <1>1
  DEF NothingIsDropped, Starts, Same, Told, Forgotten
<1>2. ASSUME NEW s \in Sessions, NEW v \in BOOLEAN, Issues(s, v) PROVE NothingIsDropped'
  BY <1>0, <1>2
  DEF NothingIsDropped, Issues, Same, Told, Forgotten, Adds
<1>3. ASSUME NEW o \in Orders, Settles(o) PROVE NothingIsDropped'
  <2>1. /\ Same /\ at' = at /\ pending' = pending \ {o} /\ o \in pending /\ o \in Issued
        /\ UNCHANGED <<attached, reading, live, override>> /\ Connection(o) \in reading
    BY <1>3 DEF Settles
  <2>2. ASSUME NEW s \in live, Through[s] \notin reading, override[s]
        PROVE  \E p \in pending' : at[p] = "accepted" /\ Session(p) = s
    <3>1. PICK p \in pending : at[p] = "accepted" /\ Session(p) = s
      BY <2>2 DEF NothingIsDropped
    <3>2. p # o
      BY <2>1, <2>2, <3>1 DEF Connection, Session
    <3> QED
      BY <2>1, <3>1, <3>2
  <2>3. ASSUME NEW p \in pending', Connection(p) \notin reading, Session(p) \in attached
        PROVE  p > confirmed' \/ disabled' = Unknown
    <3>1. CASE Told
      BY <2>1, <2>3, <3>1 DEF Told, NothingIsDropped
    <3>2. CASE o > confirmed /\ confirmed' = o
      BY <1>0, <2>1, <2>3, <3>2, Apart
    <3> QED
      BY <1>3, <3>1, <3>2 DEF Settles
  <2> QED
    BY <1>0, <2>1, <2>2, <2>3 DEF NothingIsDropped, Same
<1>4. ASSUME NEW o \in Orders, Arrives(o) PROVE NothingIsDropped'
  <2>1. /\ Carries(o) /\ Same /\ pending' = pending /\ Told /\ o \in pending
        /\ UNCHANGED <<attached, reading, live>>
    BY <1>4 DEF Arrives, Carries, NothingIsMissed
  <2>2. ASSUME NEW s \in live, Through[s] \notin reading, override'[s]
        PROVE  \E p \in pending : at'[p] = "accepted" /\ Session(p) = s
    <3>1. CASE s = Session(o)
      BY <2>1, <3>1 DEF Carries
    <3>2. CASE s # Session(o)
      <4>1. override[s]
        BY <2>1, <2>2, <3>2 DEF TypeOK, Carries
      <4>2. PICK p \in pending : at[p] = "accepted" /\ Session(p) = s
        BY <2>2, <4>1 DEF NothingIsDropped
      <4> QED
        BY <1>0, <2>1, <4>2 DEF Carries
    <3> QED
      BY <3>1, <3>2
  <2>3. \A p \in pending : Session(p)' = Session(p) /\ Connection(p)' = Connection(p)
    BY <1>0, <2>1 DEF Same
  <2> QED
    BY <2>1, <2>2, <2>3 DEF NothingIsDropped, Told
<1>5. CASE Reads
  BY <1>0, <1>5
  DEF NothingIsDropped, Reads, Same, Told, Forgotten
<1>6. CASE Departs
  BY <1>0, <1>6
  DEF NothingIsDropped, Departs, Same, Told, Forgotten
<1>7. CASE Rests
  BY <1>0, <1>7
  DEF NothingIsDropped, Rests, Same, Told, Forgotten
<1> QED
  BY <1>1, <1>2, <1>3, <1>4, <1>5, <1>6, <1>7, Effects

LEMMA SentKeepActors ==
    ASSUME TypeOK, Execution, Actors, OverlapsAreConfirmed, NothingIsDropped,
           ~unseen, ~unseen', [Next]_vars, NothingIsMissed, SentFindActors
    PROVE  SentFindActors'
<1>0. /\ pending \subseteq Issued /\ issued \in Nat /\ confirmed \in Nat /\ confirmed <= issued
      /\ \A o \in Issued : o \in Nat /\ o <= issued
  BY PendingFit DEF Issued
<1>1. CASE Starts
  BY <1>0, <1>1
  DEF SentFindActors, Starts, Same, Told, Forgotten
<1>2. ASSUME NEW s \in Sessions, NEW v \in BOOLEAN, Issues(s, v) PROVE SentFindActors'
  <2>1. Adds(s, v) /\ pending' = pending \cup {issued + 1} /\ UNCHANGED override
    BY <1>2 DEF Issues
  <2>2. ASSUME NEW o \in Issued, at[o] = "sent", change[o].actor # Unknown
        PROVE  /\ override[Session(o)] = change[o].actor
               /\ \A q \in Issued' : q < o /\ Session(q)' = Session(o) => at'[q] # "sent"
    BY <1>0, <2>1, <2>2 DEF SentFindActors, Adds
  <2>3. ASSUME PreviousActor(s) # Unknown
        PROVE  /\ override[s] = PreviousActor(s)
               /\ \A q \in Issued : Session(q) = s => at[q] # "sent"
    <3>1. s \in Observed /\ s \in Sessions
      BY <1>2 DEF Issues, Observed
    <3>2. /\ \A o \in pending : Session(o) = s => ~(o > sessions[s].order)
          /\ sessions[s].disabled # Unknown /\ PreviousActor(s) = sessions[s].disabled
      BY <2>3 DEF PreviousActor, Changes, Session
    <3>3. sessions[s].order \in Nat
      BY <3>1 DEF TypeOK, Actor, Orders
    <3>4. \A o \in Issued : Session(o) = s /\ at[o] \in {"sent", "accepted"} =>
                               o <= sessions[s].order
      BY <1>0, <3>1, <3>2, <3>3 DEF Actors, LaterArePending, Known
    <3>5. override[s] = sessions[s].disabled
      BY <3>1, <3>2, <3>4 DEF Actors, OverridesAreKnown, Known
    <3>6. \A q \in Issued : Session(q) = s => at[q] # "sent"
      BY <1>0, <3>3, <3>4 DEF Execution, SessionsFit
    <3> QED
      BY <3>2, <3>5, <3>6
  <2>4. ASSUME NEW o, o = issued + 1, change'[o].actor # Unknown
        PROVE  /\ override[s] = change'[o].actor
               /\ \A q \in Issued' : q < o /\ Session(q)' = s => at'[q] # "sent"
    <3>1. change'[o].actor = PreviousActor(s)
      BY <1>2, <2>4 DEF Issues
    <3> QED
      BY <1>0, <2>1, <2>3, <2>4, <3>1 DEF Adds
  <2>5. ASSUME NEW o \in Issued', at'[o] = "sent", change'[o].actor # Unknown
        PROVE  /\ override'[Session(o)'] = change'[o].actor
               /\ \A q \in Issued' : q < o /\ Session(q)' = Session(o)' => at'[q] # "sent"
    <3>1. CASE o \in Issued
      BY <2>1, <2>2, <2>5, <3>1 DEF Adds
    <3>2. CASE o = issued + 1
      BY <2>1, <2>4, <2>5, <3>2 DEF Adds
    <3> QED
      BY <2>1, <2>5, <3>1, <3>2 DEF Adds
  <2> QED
    BY <2>5 DEF SentFindActors
<1>3. ASSUME NEW o \in Orders, Settles(o) PROVE SentFindActors'
  BY <1>0, <1>3
  DEF SentFindActors, Settles, Same, Told, Forgotten
<1>4. ASSUME NEW o \in Orders, Arrives(o) PROVE SentFindActors'
  <2>1. Carries(o) /\ Same
    BY <1>4 DEF Arrives
  <2>2. ASSUME NEW p \in Issued, at'[p] = "sent", change[p].actor # Unknown
        PROVE  /\ override'[Session(p)] = change[p].actor
               /\ \A q \in Issued : q < p /\ Session(q) = Session(p) => at'[q] # "sent"
    <3>1. p # o /\ at[p] = "sent" /\ o \in Issued
      BY <2>1, <2>2 DEF Carries
    <3>2. Session(p) # Session(o)
      <4>1. CASE p < o
        BY <2>1, <3>1, <4>1 DEF Carries, Session, Connection
      <4>2. CASE o < p
        BY <2>1, <2>2, <3>1, <4>2 DEF SentFindActors, Carries
      <4> QED
        BY <1>0, <3>1, <4>1, <4>2
    <3>3. override'[Session(p)] = override[Session(p)]
      BY <2>1, <3>2, ChangesFit DEF TypeOK, Carries
    <3>4. \A q \in Issued : at'[q] = "sent" => at[q] = "sent"
      BY <2>1 DEF Carries
    <3> QED
      BY <2>2, <3>1, <3>3, <3>4 DEF SentFindActors
  <2> QED
    BY <2>1, <2>2 DEF SentFindActors, Same
<1>5. CASE Reads
  BY <1>0, <1>5
  DEF SentFindActors, Reads, Same, Told, Forgotten
<1>6. CASE Departs
  BY <1>0, <1>6
  DEF SentFindActors, Departs, Same, Told, Forgotten
<1>7. CASE Rests
  BY <1>0, <1>7
  DEF SentFindActors, Rests, Same, Told, Forgotten
<1> QED
  BY <1>1, <1>2, <1>3, <1>4, <1>5, <1>6, <1>7, Effects

LEMMA SentKeepPages ==
    ASSUME TypeOK, Execution, Actors, OverlapsAreConfirmed, NothingIsDropped,
           ~unseen, ~unseen', [Next]_vars, NothingIsMissed, SentFindPages, ConfirmedIsTrue
    PROVE  SentFindPages'
<1>0. /\ pending \subseteq Issued /\ issued \in Nat /\ confirmed \in Nat /\ confirmed <= issued
      /\ \A o \in Issued : o \in Nat /\ o <= issued
  BY PendingFit DEF Issued
<1>1. CASE Starts
  BY <1>0, <1>1
  DEF SentFindPages, Confirmable, Starts, Same, Told, Forgotten
<1>2. ASSUME NEW s \in Sessions, NEW v \in BOOLEAN, Issues(s, v) PROVE SentFindPages'
  <2>1. /\ Adds(s, v) /\ pending' = pending \cup {issued + 1}
        /\ UNCHANGED <<page, reading>> /\ (Late' <=> Late)
    BY <1>2 DEF Issues
  <2>2. ASSUME NEW o \in Issued', at'[o] = "sent", Confirmable(o)', change'[o].page # Unknown
        PROVE  /\ \A q \in Issued' : q < o => at'[q] # "sent"
               /\ ~Late => page = change'[o].page
    <3>1. Told
      BY <1>0, <1>2, <2>1, <2>2 DEF Issues, Forgotten, Confirmable, Adds
    <3>2. CASE o \in Issued
      <4>1. Confirmable(o) /\ at[o] = "sent" /\ change'[o] = change[o]
        BY <1>0, <2>1, <2>2, <3>1, <3>2 DEF Confirmable, Told, Adds
      <4> QED
        BY <1>0, <2>1, <2>2, <3>2, <4>1 DEF SentFindPages, Adds
    <3>3. CASE o = issued + 1
      <4>1. Outstanding = {} /\ disabled # Unknown /\ change'[o].page = disabled
        BY <1>2, <2>2, <3>3 DEF Issues, PreviousPage
      <4>2. \A q \in Issued : at[q] # "sent"
        BY <4>1 DEF NothingIsMissed, Outstanding
      <4>3. \A q \in Issued : at[q] = "accepted" => q <= confirmed
        BY <1>0, <4>1 DEF NothingIsMissed, Outstanding
      <4>4. ~Late => disabled = page
        BY <4>1, <4>3 DEF ConfirmedIsTrue
      <4> QED
        BY <1>0, <2>1, <3>3, <4>1, <4>2, <4>4 DEF Adds
    <3> QED
      BY <2>1, <2>2, <3>2, <3>3 DEF Adds
  <2> QED
    BY <2>1, <2>2 DEF SentFindPages
<1>3. ASSUME NEW o \in Orders, Settles(o) PROVE SentFindPages'
  BY <1>0, <1>3
  DEF SentFindPages, Confirmable, Settles, Same, Told, Forgotten
<1>4. ASSUME NEW o \in Orders, Arrives(o) PROVE SentFindPages'
  <2>1. /\ Carries(o) /\ Same /\ pending' = pending /\ Told /\ o \in pending /\ reading' = reading
    BY <1>4 DEF Arrives, Carries, NothingIsMissed
  <2>2. ASSUME NEW p \in Issued, at'[p] = "sent", Confirmable(p), change[p].page # Unknown
        PROVE  FALSE
    <3>1. p # o /\ at[p] = "sent" /\ o \in Issued /\ at[o] = "sent" /\ p \in pending
      BY <2>1, <2>2 DEF Carries, Confirmable
    <3>2. CASE o < p
      BY <2>2, <3>1, <3>2 DEF SentFindPages
    <3>3. CASE p < o
      <4>1. Connection(p) # Connection(o)
        BY <2>1, <3>1, <3>3 DEF Carries
      <4> QED
        BY <1>0, <2>1, <2>2, <3>1, <4>1, Apart DEF Confirmable
    <3> QED
      BY <1>0, <3>1, <3>2, <3>3
  <2>3. \A p \in Issued : Confirmable(p)' <=> Confirmable(p)
    BY <2>1 DEF Confirmable, Same, Told
  <2> QED
    BY <2>1, <2>2, <2>3 DEF SentFindPages, Same
<1>5. CASE Reads
  BY <1>0, <1>5
  DEF SentFindPages, Confirmable, Reads, Same, Told, Forgotten
<1>6. CASE Departs
  <2>1. /\ Same /\ Told /\ Leaves /\ pending' = pending /\ reading' = reading
        /\ \A p \in Issued : /\ at'[p] = "sent" => at[p] = "sent"
                             /\ at'[p] = "accepted" <=> at[p] = "accepted"
    BY <1>6 DEF Departs
  <2>2. \A p \in Issued : Confirmable(p)' <=> Confirmable(p)
    BY <2>1 DEF Confirmable, Same, Told
  <2>3. ASSUME NEW p \in Issued, Confirmable(p), ~Late'
        PROVE  ~Late /\ page' = page
    <3>1. ASSUME NEW q \in pending, Connection(q) \notin reading
          PROVE  FALSE
      BY <1>0, <2>3, <3>1, Apart DEF Confirmable
    <3> QED
      BY <2>1, <2>3, <3>1 DEF Leaves
  <2> QED
    BY <2>1, <2>2, <2>3 DEF SentFindPages, Same
<1>7. CASE Rests
  BY <1>0, <1>7
  DEF SentFindPages, Confirmable, Rests, Same, Told, Forgotten
<1> QED
  BY <1>1, <1>2, <1>3, <1>4, <1>5, <1>6, <1>7, Effects

LEMMA AcceptedKeepProving ==
    ASSUME TypeOK, Execution, Actors, OverlapsAreConfirmed, NothingIsDropped,
           ~unseen, ~unseen', [Next]_vars, NothingIsMissed, SentFindActors, SentFindPages,
           AcceptedProve
    PROVE  AcceptedProve'
<1>0. /\ pending \subseteq Issued /\ issued \in Nat /\ confirmed \in Nat /\ confirmed <= issued
      /\ \A o \in Issued : o \in Nat /\ o <= issued
  BY PendingFit DEF Issued
<1>1. CASE Starts
  BY <1>0, <1>1
  DEF AcceptedProve, Confirmable, IsLast, Proves, Starts, Same, Told, Forgotten
<1>2. ASSUME NEW s \in Sessions, NEW v \in BOOLEAN, Issues(s, v) PROVE AcceptedProve'
  BY <1>0, <1>2
  DEF AcceptedProve, Confirmable, IsLast, Proves, Issues, Same, Told, Forgotten, Adds
<1>3. ASSUME NEW o \in Orders, Settles(o) PROVE AcceptedProve'
  BY <1>0, <1>3
  DEF AcceptedProve, Confirmable, IsLast, Proves, Settles, Same, Told, Forgotten
<1>4. ASSUME NEW o \in Orders, Arrives(o) PROVE AcceptedProve'
  <2>1. /\ Carries(o) /\ Same /\ pending' = pending /\ Told /\ o \in pending /\ o \in Issued
        /\ reading' = reading /\ (Late' <=> Late) /\ at[o] = "sent"
    BY <1>4 DEF Arrives, Carries, NothingIsMissed
  <2>2. \A p \in Issued : /\ Confirmable(p)' <=> Confirmable(p)
                          /\ Proves(p)' = Proves(p)
    BY <2>1 DEF Confirmable, Same, Told, Proves
  <2>3. ASSUME Confirmable(o), ~Late
        PROVE  Proves(o) \in {Unknown, page'}
    <3>1. CASE change[o].actor = Unknown
      <4>1. Proves(o) = Unknown
        BY <2>1, <3>1, UnknownAssumption DEF Proves, Carries
      <4> QED
        BY <4>1
    <3>2. CASE change[o].actor # Unknown /\ change[o].actor = change[o].disabled
      <4>1. page' = page
        BY <1>4, <2>1, <3>2 DEF Arrives, SentFindActors
      <4>2. change[o].page # Unknown => page = change[o].page
        BY <2>1, <2>3 DEF SentFindPages
      <4> QED
        BY <3>2, <4>1, <4>2 DEF Proves
    <3>3. CASE change[o].actor # Unknown /\ change[o].actor # change[o].disabled
      <4>1. page' = change[o].disabled
        BY <1>4, <2>1, <3>3 DEF Arrives, SentFindActors
      <4> QED
        BY <3>3, <4>1 DEF Proves
    <3> QED
      BY <3>1, <3>2, <3>3
  <2>4. ASSUME NEW p \in Issued, p # o, at'[p] = "accepted", Confirmable(p), o <= p
        PROVE  FALSE
    <3>1. p \in pending /\ at[p] = "accepted" /\ o < p
      BY <1>0, <2>1, <2>4 DEF Confirmable, Carries
    <3>2. Connection(p) = Connection(o)
      BY <1>0, <2>1, <2>4, <3>1, Apart DEF Confirmable
    <3> QED
      BY <2>1, <3>1, <3>2 DEF Execution, InOrder
  <2>5. at'[o] = "accepted"
    BY <2>1 DEF Carries
  <2>6. ASSUME NEW p \in Issued, at'[p] = "accepted", Confirmable(p), IsLast(p)', ~Late
        PROVE  Proves(p) \in {Unknown, page'}
    <3>1. o <= p
      BY <2>1, <2>5, <2>6 DEF IsLast, Same
    <3> QED
      BY <2>3, <2>4, <2>6, <3>1
  <2> QED
    BY <2>1, <2>2, <2>6 DEF AcceptedProve, Same
<1>5. CASE Reads
  BY <1>0, <1>5
  DEF AcceptedProve, Confirmable, IsLast, Proves, Reads, Same, Told, Forgotten
<1>6. CASE Departs
  <2>1. /\ Same /\ Told /\ Leaves /\ pending' = pending /\ reading' = reading
        /\ \A p \in Issued : /\ at'[p] = "sent" => at[p] = "sent"
                             /\ at'[p] = "accepted" <=> at[p] = "accepted"
    BY <1>6 DEF Departs
  <2>2. \A p \in Issued : Confirmable(p)' <=> Confirmable(p)
    BY <2>1 DEF Confirmable, Same, Told
  <2>3. ASSUME NEW p \in Issued, Confirmable(p), ~Late'
        PROVE  ~Late /\ page' = page
    <3>1. ASSUME NEW q \in pending, Connection(q) \notin reading
          PROVE  FALSE
      BY <1>0, <2>3, <3>1, Apart DEF Confirmable
    <3> QED
      BY <2>1, <2>3, <3>1 DEF Leaves
  <2>4. \A p \in Issued : /\ IsLast(p)' <=> IsLast(p)
                          /\ Proves(p)' = Proves(p)
    BY <2>1 DEF IsLast, Proves, Same
  <2> QED
    BY <2>1, <2>2, <2>3, <2>4 DEF AcceptedProve, Same
<1>7. CASE Rests
  BY <1>0, <1>7
  DEF AcceptedProve, Confirmable, IsLast, Proves, Rests, Same, Told, Forgotten
<1> QED
  BY <1>1, <1>2, <1>3, <1>4, <1>5, <1>6, <1>7, Effects

LEMMA ConfirmedStaysTrue ==
    ASSUME TypeOK, Execution, Actors, OverlapsAreConfirmed, NothingIsDropped,
           ~unseen, ~unseen', [Next]_vars, NothingIsMissed, AcceptedProve, ConfirmedIsTrue
    PROVE  ConfirmedIsTrue'
<1>0. /\ pending \subseteq Issued /\ issued \in Nat /\ confirmed \in Nat /\ confirmed <= issued
      /\ \A o \in Issued : o \in Nat /\ o <= issued
  BY PendingFit DEF Issued
<1>1. CASE Starts
  BY <1>0, <1>1
  DEF ConfirmedIsTrue, Starts, Same, Told, Forgotten
<1>2. ASSUME NEW s \in Sessions, NEW v \in BOOLEAN, Issues(s, v) PROVE ConfirmedIsTrue'
  BY <1>0, <1>2
  DEF ConfirmedIsTrue, Issues, Same, Told, Forgotten, Adds
<1>3. ASSUME NEW o \in Orders, Settles(o) PROVE ConfirmedIsTrue'
  <2>1. /\ Same /\ at' = at /\ o \in pending /\ o \in Issued /\ Connection(o) \in reading
        /\ page' = page /\ (Late' <=> Late)
    BY <1>3 DEF Settles
  <2>2. CASE Told
    BY <2>1, <2>2 DEF ConfirmedIsTrue, Same, Told
  <2>3. CASE /\ at[o] = "accepted" /\ o > confirmed
             /\ confirmed' = o /\ disabled' = Proves(o)
    <3>1. Confirmable(o)
      BY <2>1, <2>3 DEF Confirmable
    <3>2. ASSUME ~Late, \A p \in Issued : at[p] = "accepted" => p <= o
          PROVE  Proves(o) \in {Unknown, page}
      BY <2>1, <2>3, <3>1, <3>2 DEF AcceptedProve, IsLast
    <3> QED
      BY <2>1, <2>3, <3>2 DEF ConfirmedIsTrue, Same
  <2> QED
    BY <1>3, <2>2, <2>3 DEF Settles
<1>4. ASSUME NEW o \in Orders, Arrives(o) PROVE ConfirmedIsTrue'
  <2>1. /\ Carries(o) /\ Same /\ Told /\ o \in Issued /\ at[o] = "sent" /\ at'[o] = "accepted"
    BY <1>4 DEF Arrives, Carries
  <2>2. disabled # Unknown => ~(o <= confirmed)
    BY <1>0, <2>1 DEF NothingIsMissed
  <2> QED
    BY <2>1, <2>2 DEF ConfirmedIsTrue, Same, Told
<1>5. CASE Reads
  BY <1>0, <1>5
  DEF ConfirmedIsTrue, Reads, Same, Told, Forgotten
<1>6. CASE Departs
  <2>1. /\ Same /\ Told /\ Leaves
        /\ \A o \in Issued : at'[o] = "accepted" <=> at[o] = "accepted"
    BY <1>6 DEF Departs
  <2>2. ASSUME ~Late', disabled # Unknown, \A o \in Issued : at[o] = "accepted" => o <= confirmed
        PROVE  disabled = page'
    <3>1. ASSUME NEW q \in pending, at[q] = "accepted", Connection(q) \notin reading,
                 Session(q) \in attached
          PROVE  FALSE
      BY <1>0, <2>2, <3>1 DEF NothingIsDropped
    <3>2. ~Late /\ page' = page
      BY <2>1, <2>2, <3>1 DEF Leaves
    <3> QED
      BY <2>2, <3>2 DEF ConfirmedIsTrue
  <2> QED
    BY <2>1, <2>2 DEF ConfirmedIsTrue, Same, Told
<1>7. CASE Rests
  BY <1>0, <1>7
  DEF ConfirmedIsTrue, Rests, Same, Told, Forgotten
<1> QED
  BY <1>1, <1>2, <1>3, <1>4, <1>5, <1>6, <1>7, Effects

-----------------------------------------------------------------------------
LEMMA UnseenStays ==
    ASSUME TypeOK, [Next]_vars, ~unseen'
    PROVE  ~unseen
  BY DEF TypeOK, Next, vars, Seed, Attach, Detach, ReadDetached, ChangeRaw, ChangeScripts,
         Cancel, Reply, Accept, Refuse, Close, ReadClosed, Disconnect

LEMMA Starting == Init => Invariant
<1> SUFFICES ASSUME Init PROVE Invariant
  OBVIOUS
<1>1. TypeOK
  BY InitTypes
<1>2. /\ Issued = {} /\ pending = {} /\ attached = {} /\ live = {} /\ disabled = Unknown
      /\ \A s \in Sessions : override[s] = FALSE /\ sessions[s].order = 0 /\ issued = 0
  BY DEF Init, Issued, NoActor
<1>3. Execution
  BY <1>2 DEF Execution, InOrder, LastAccepted, SessionsFit
<1>4. Actors /\ OverlapsAreConfirmed
  BY <1>2 DEF Actors, ReadersKnow, LaterArePending, OverridesAreKnown, Observed,
              OverlapsAreConfirmed
<1>5. NothingIsMissed /\ NothingIsDropped
  BY <1>2 DEF NothingIsMissed, NothingIsDropped
<1>6. SentFindActors /\ SentFindPages /\ AcceptedProve /\ ConfirmedIsTrue
  BY <1>2 DEF SentFindActors, SentFindPages, AcceptedProve, ConfirmedIsTrue
<1> QED
  BY <1>1, <1>3, <1>4, <1>5, <1>6 DEF Invariant, Pages

LEMMA PagesStay ==
    ASSUME Invariant, [Next]_vars
    PROVE  Pages'
<1> USE DEF Invariant
<1> SUFFICES ASSUME ~unseen'
             PROVE  /\ NothingIsMissed' /\ NothingIsDropped'
                    /\ SentFindActors' /\ SentFindPages'
                    /\ AcceptedProve' /\ ConfirmedIsTrue'
  BY DEF Pages
<1>1. ~unseen
  BY UnseenStays
<1>2. /\ NothingIsMissed /\ NothingIsDropped /\ SentFindActors /\ SentFindPages
      /\ AcceptedProve /\ ConfirmedIsTrue
  BY <1>1 DEF Pages
<1>3. TypeOK /\ Execution /\ Actors /\ OverlapsAreConfirmed
  OBVIOUS
<1> HIDE DEF Invariant
<1>4. NothingIsMissed' /\ NothingIsDropped'
  BY <1>1, <1>2, <1>3, NothingStaysMissed, NothingStaysDropped
<1>5. SentFindActors' /\ SentFindPages'
  BY <1>1, <1>2, <1>3, SentKeepActors, SentKeepPages
<1>6. AcceptedProve' /\ ConfirmedIsTrue'
  BY <1>1, <1>2, <1>3, AcceptedKeepProving, ConfirmedStaysTrue
<1> QED
  BY <1>4, <1>5, <1>6

LEMMA Keeping == Invariant /\ [Next]_vars => Invariant'
<1> SUFFICES ASSUME Invariant, [Next]_vars PROVE Invariant'
  OBVIOUS
<1>1. /\ TypeOK /\ InOrder /\ LastAccepted /\ SessionsFit /\ ReadersKnow /\ LaterArePending
      /\ Execution /\ Actors /\ OverlapsAreConfirmed
  BY DEF Invariant, Execution, Actors
<1>2. TypeOK'
  BY <1>1, TypesAreKept
<1>3. Execution'
  BY <1>1, OrderIsKept, LastIsKept, SessionsKeepFitting DEF Execution
<1>4. Actors'
  BY <1>1, ReadersKeepKnowing, LaterStayPending, OverridesStayKnown DEF Actors
<1>5. OverlapsAreConfirmed'
  BY <1>1, OverlapsStayConfirmed
<1> QED
  BY <1>2, <1>3, <1>4, <1>5, PagesStay DEF Invariant

LEMMA InvariantHolds == Spec => []Invariant
  BY Starting, Keeping, PTL DEF Spec

(* The state has its types: an issued change is recorded, nothing is       *)
(* confirmed past the last number issued, and a command that is awaited is *)
(* an unsettled change.                                                    *)
THEOREM TypesAreCorrect == Spec => []TypeOK
<1>1. Invariant => TypeOK
  BY DEF Invariant
<1> QED
  BY <1>1, InvariantHolds, PTL

(* While changes of two connections are unsettled nothing is known of the  *)
(* page, for any number of connections, sessions and changes               *)
(* (client.rs:1409).                                                       *)
THEOREM OverlapsStayUnknown == Spec => []OverlapsAreUnknown
<1>1. Invariant => OverlapsAreUnknown
  <2> SUFFICES ASSUME Invariant, NEW o \in pending, NEW p \in pending,
                      Connection(o) # Connection(p)
               PROVE  disabled = Unknown
    BY DEF OverlapsAreUnknown, Connection
  <2>1. TypeOK /\ OverlapsAreConfirmed
    BY DEF Invariant
  <2>2. o \in Nat /\ p \in Nat /\ o # p
    BY <2>1, ChangesAssumption DEF TypeOK
  <2>3. CASE o < p
    BY <2>1, <2>3 DEF OverlapsAreConfirmed
  <2>4. CASE p < o
    BY <2>1, <2>4 DEF OverlapsAreConfirmed
  <2> QED
    BY <2>2, <2>3, <2>4
<1> QED
  BY <1>1, InvariantHolds, PTL

(* What a change takes for its session's own override is that override     *)
(* (client.rs, script_change), unless raw messages reach the session.      *)
THEOREM ActorsStayTrue == Spec => []ActorsAreTrue
<1>1. Invariant => ActorsAreTrue
  <2> SUFFICES ASSUME Invariant, NEW s \in Observed, PreviousActor(s) # Unknown
               PROVE  PreviousActor(s) = override[s]
    BY DEF ActorsAreTrue, Observed
  <2>1. /\ TypeOK /\ LaterArePending /\ OverridesAreKnown
        /\ s \in Sessions
    BY DEF Invariant, Actors, TypeOK, Observed
  <2>2. /\ \A o \in pending : Session(o) = s => ~(o > sessions[s].order)
        /\ Known(s) /\ PreviousActor(s) = sessions[s].disabled
    BY DEF PreviousActor, Changes, Session, Known
  <2>3. sessions[s].order \in Nat /\ \A o \in Issued : o \in Nat
    BY <2>1, ChangesFit DEF TypeOK, Actor, Orders
  <2>4. \A o \in Issued : Session(o) = s /\ at[o] = "accepted" => o <= sessions[s].order
    BY <2>1, <2>2, <2>3 DEF LaterArePending
  <2> QED
    BY <2>1, <2>2, <2>4 DEF OverridesAreKnown
<1> QED
  BY <1>1, InvariantHolds, PTL

(* An answer is what the page has, however the changes of any number of    *)
(* connections, their replies, the detaches and the closed connections     *)
(* interleave, while nothing changes the page behind the daemon            *)
(* (client.rs:18).                                                         *)
THEOREM AnswersAreTrue == Spec => []ObservedIsTrue
<1>1. Invariant => ObservedIsTrue
  <2> SUFFICES ASSUME Invariant, ~unseen, ~Late, NEW s \in Sessions, Answer(s) # Unknown
               PROVE  Answer(s) = page
    BY DEF ObservedIsTrue, KnownIsTrue
  <2>1. TypeOK /\ NothingIsMissed /\ ConfirmedIsTrue
    BY DEF Invariant, Pages
  <2>2. Outstanding = {} /\ Answer(s) = disabled /\ disabled # Unknown
    BY DEF Answer
  <2>3. \A o \in Issued : o \in Nat /\ confirmed \in Nat
    BY <2>1, ChangesFit, PendingFit
  <2>4. \A o \in Issued : at[o] = "accepted" => o <= confirmed
    BY <2>1, <2>2, <2>3 DEF NothingIsMissed, Outstanding
  <2> QED
    BY <2>1, <2>2, <2>4 DEF ConfirmedIsTrue
<1> QED
  BY <1>1, InvariantHolds, PTL

=============================================================================
