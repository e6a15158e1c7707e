------------------------ MODULE BrowserControlProofs ------------------------
(***************************************************************************)
(* Proofs about browser control, for every set of people and every number  *)
(* of batches: what command custody keeps over several actions, that the   *)
(* agent owes an observation of all it has not seen, that control is       *)
(* exclusive, and that no batch has effect twice.                          *)
(***************************************************************************)
EXTENDS BrowserControl, TLAPS

-----------------------------------------------------------------------------
(* The inductive invariant, in parts.                                      *)

(* A lease has an owner, or it is no lease.                                *)
LeaseHasOwner == lease.owner = Nobody => lease = NoLease

(* What command custody lasting over several actions relies on: nobody     *)
(* takes the browser from under it.                                        *)
CustodyIsKept ==
    /\ custody = "free" => browser # "changing" /\ (SigningIn <=> browser = "signIn")
    /\ custody \in Commands => ~HoldsCustody /\ browser \in {"automation", "none"}
    /\ custody = "signIn" =>
          /\ ~SigningIn /\ browser = "changing"
          /\ lease.owner # Nobody /\ ~lease.unknown /\ lease.last < MaxSequence
    /\ custody = "handBack" => SigningIn /\ browser = "changing"
    /\ custody = "handedBack" =>
          /\ browser \in {"automation", "none"}
          /\ SigningIn \/ lease = NoLease

BaseInv == TypeOK /\ LeaseHasOwner /\ CustodyIsKept

(* Whatever the agent has not seen, it owes an observation of; a person    *)
(* who holds the browser may add to it at any moment.                      *)
UnseenIsOwed == unseen \/ lease.live \/ SigningIn => owes

(* Only the holder's input is down, and a person's only while their lease  *)
(* is known to need a reset.                                               *)
HandsAreTheHolders ==
    /\ hands \subseteq {Holder}
    /\ hands \cap Controllers # {} => lease.pending
    /\ custody = "handedBack" => hands = {}

(* Batches not yet consumed have had no effect, unless the outcome of the  *)
(* last one is unknown, which stops the lease.                             *)
UnusedNumbers ==
    /\ \A c \in Controllers \ controlled, n \in 1 .. MaxSequence : sent[c][n] = 0
    /\ lease.owner \in Controllers => lease.owner \in controlled
    /\ \A c \in Controllers, n \in 1 .. MaxSequence :
          lease.owner = c /\ ~lease.unknown /\ lease.last < n => sent[c][n] = 0
-----------------------------------------------------------------------------
(* Types, leases and custody.                                              *)

USE DEF Commands, Relaunches, SigningIn, HoldsCustody

(* What no lease is.                                                       *)
LEMMA NoLeaseIsALease ==
    /\ NoLease \in Lease
    /\ NoLease.owner = Nobody /\ NoLease.signIn = "no" /\ NoLease.last = 0
    /\ ~NoLease.live /\ ~NoLease.pending /\ ~NoLease.unknown
BY SequenceAssumption DEF NoLease, Lease

LEMMA BaseHolds == ASSUME Init PROVE BaseInv
<1>1. sent \in [Controllers -> [1 .. MaxSequence -> Nat]]
  BY DEF Init
<1>2. TypeOK
  BY <1>1, NoLeaseIsALease DEF Init, TypeOK
<1>3. LeaseHasOwner /\ CustodyIsKept
  BY NoLeaseIsALease DEF Init, LeaseHasOwner, CustodyIsKept
<1> QED
  BY <1>2, <1>3 DEF BaseInv

(* A step that leaves the lease, custody, the browser and the history      *)
(* alone.                                                                  *)
LEMMA BaseStays ==
    ASSUME BaseInv, UNCHANGED <<lease, lastReleased, custody, browser, controlled, sent>>,
           owes' \in BOOLEAN, uncertain' \in BOOLEAN, unseen' \in BOOLEAN,
           mouse' \in {"clear", "held", "unknown"}, display' \in {"none", "up", "failed"},
           hands' \subseteq Controllers \cup {Agent}, waiting' \subseteq Controllers,
           channel' \in {"open", "ended", "settled"}
    PROVE  BaseInv'
BY DEF BaseInv, TypeOK, LeaseHasOwner, CustodyIsKept

(* The helper's answer to a reset changes only the helper.                 *)
LEMMA ResetsKeepTypes ==
    ASSUME BaseInv, ResetConfirmed \/ ResetUnconfirmed
    PROVE  /\ browser' = browser
           /\ display' \in {"none", "up", "failed"}
           /\ hands' \subseteq hands
BY DEF BaseInv, TypeOK, ResetConfirmed, ResetUnconfirmed, DisplayBroken, deviceVars

(* A browser that goes takes its lease and its display along.              *)
LEMMA GoneKeepsTypes ==
    ASSUME BaseInv, Gone
    PROVE  /\ browser' = "none" /\ display' = "none" /\ hands' = {}
           /\ mouse' = "clear" /\ uncertain' = FALSE /\ lease' = NoLease
           /\ lastReleased' \in Controllers \cup {Nobody}
BY DEF BaseInv, TypeOK, Lease, Gone

(* The effects of a batch are counted.                                     *)
LEMMA CountsKeepTypes ==
    ASSUME BaseInv, NEW c \in Controllers, NEW n \in 1 .. MaxSequence,
           PerhapsHad(c, n)
    PROVE  sent' \in [Controllers -> [1 .. MaxSequence -> Nat]]
<1>1. sent \in [Controllers -> [1 .. MaxSequence -> Nat]]
  BY DEF BaseInv, TypeOK
<1>2. CASE Had(c, n)
  <2> DEFINE counted == [sent[c] EXCEPT ![n] = sent[c][n] + 1]
  <2>1. sent[c] \in [1 .. MaxSequence -> Nat]
    BY <1>1
  <2>2. sent[c][n] \in Nat
    BY <2>1
  <2>3. counted \in [1 .. MaxSequence -> Nat]
    BY <2>1, <2>2
  <2>4. sent' = [sent EXCEPT ![c] = counted]
    BY <1>2 DEF Had
  <2> HIDE DEF counted
  <2> QED
    BY <1>1, <2>3, <2>4
<1>3. CASE UNCHANGED sent
  BY <1>1, <1>3
<1> QED
  BY <1>2, <1>3 DEF PerhapsHad

(* A batch of the lease that was applied.                                  *)
LEMMA AppliedIsALease ==
    ASSUME lease \in Lease, NEW n \in 1 .. MaxSequence,
           \/ lease' = Applied(n)
           \/ lease' = [Applied(n) EXCEPT !.pending = TRUE]
           \/ lease' = [Applied(n) EXCEPT !.pending = FALSE]
    PROVE  /\ lease' \in Lease
           /\ lease'.owner = lease.owner /\ lease'.live = lease.live /\ lease'.last = n
           /\ lease'.unknown = lease.unknown
           /\ SigningIn' <=> SigningIn
<1>1. n \in 0 .. MaxSequence
  BY SequenceAssumption
<1>2. /\ Applied(n) \in Lease
      /\ Applied(n).owner = lease.owner /\ Applied(n).live = lease.live
      /\ Applied(n).last = n /\ Applied(n).unknown = lease.unknown
      /\ Applied(n).signIn # "no" <=> SigningIn
  BY <1>1 DEF Applied, Lease
<1> QED
  BY <1>2 DEF Lease


LEMMA PersonKeepsBase ==
    ASSUME BaseInv, NEW c \in Controllers, PersonSteps(c)
    PROVE  BaseInv'
<1> USE ActorsAssumption, SequenceAssumption
<1>1. ASSUME Ask(c) PROVE BaseInv'
  BY <1>1, BaseStays DEF Ask, BaseInv, TypeOK, agentVars, deviceVars, historyVars
<1>2. ASSUME GiveUp(c) PROVE BaseInv'
  BY <1>2, BaseStays DEF GiveUp, BaseInv, TypeOK, agentVars, deviceVars, historyVars
<1>3. ASSUME AcquireRefused(c) PROVE BaseInv'
  BY <1>3, BaseStays DEF AcquireRefused, BaseInv, TypeOK, agentVars, deviceVars, historyVars
<1>4. ASSUME AcquireFails(c) PROVE BaseInv'
  BY <1>4, BaseStays, ResetsKeepTypes
     DEF AcquireFails, Acquiring, BaseInv, TypeOK, agentVars, historyVars
<1>5. ASSUME AcquireLate(c) PROVE BaseInv'
  <2>1. lease' = lease \/ lease' = NoLease
    BY <1>5 DEF AcquireLate
  <2>2. browser' = browser /\ custody' = "free" /\ custody = "free" /\ ~SigningIn
    BY <1>5, ResetsKeepTypes DEF AcquireLate, Acquiring, Maintained, Refused
  <2>3. TypeOK'
    BY <1>5, <2>1, NoLeaseIsALease, ResetsKeepTypes
       DEF AcquireLate, Acquiring, BaseInv, TypeOK, historyVars
  <2> QED
    BY <2>1, <2>2, <2>3, NoLeaseIsALease DEF BaseInv, LeaseHasOwner, CustodyIsKept
<1>6. ASSUME Acquire(c) PROVE BaseInv'
  <2>1. /\ lease' \in Lease
        /\ lease'.owner = c /\ lease'.signIn = "no"
    BY <1>6, NoLeaseIsALease DEF Acquire, Grant, NoLease, Lease
  <2>2. browser' = browser /\ custody' = "free" /\ custody = "free" /\ ~SigningIn
    BY <1>6, ResetsKeepTypes DEF Acquire, Grant, Acquiring, Maintained, Refused
  <2>3. TypeOK'
    BY <1>6, <2>1, ResetsKeepTypes DEF Acquire, Grant, Acquiring, BaseInv, TypeOK
  <2> QED
    BY <2>1, <2>2, <2>3 DEF BaseInv, LeaseHasOwner, CustodyIsKept
<1>7. ASSUME Release(c) PROVE BaseInv'
  <2>1. /\ browser' = browser
        /\ display' \in {"none", "up", "failed"}
        /\ hands' \subseteq Controllers \cup {Agent}
    BY <1>7, ResetsKeepTypes DEF Release, BaseInv, TypeOK, deviceVars
  <2>2. \/ lease' = NoLease
        \/ /\ lease' \in Lease
           /\ lease'.owner = c /\ lease'.signIn = "no"
    BY <1>7 DEF Release, BaseInv, TypeOK, Lease
  <2>3. custody' = "free" /\ custody = "free" /\ ~SigningIn
    BY <1>7 DEF Release, Maintained
  <2>4. TypeOK'
    BY <1>7, <2>1, <2>2, NoLeaseIsALease DEF Release, BaseInv, TypeOK, agentVars, historyVars
  <2> QED
    BY <2>1, <2>2, <2>3, <2>4, NoLeaseIsALease DEF BaseInv, LeaseHasOwner, CustodyIsKept
<1>8. ASSUME SignInBegins(c) PROVE BaseInv'
  <2>1. TypeOK' /\ LeaseHasOwner'
    BY <1>8 DEF SignInBegins, BaseInv, TypeOK, LeaseHasOwner, personVars, agentVars, historyVars
  <2>2. lease.last \in Nat
    BY DEF BaseInv, TypeOK, Lease
  <2>3. lease.owner # Nobody /\ ~lease.unknown /\ lease.last < MaxSequence
    BY <1>8, <2>2 DEF SignInBegins, NextBatch, NextInLine
  <2> QED
    BY <1>8, <2>1, <2>3 DEF SignInBegins, BaseInv, CustodyIsKept, personVars
<1>9. ASSUME HandBackAsked(c) PROVE BaseInv'
  BY <1>9 DEF HandBackAsked, HandBackBegins, BaseInv, TypeOK, LeaseHasOwner, CustodyIsKept,
              personVars, agentVars, historyVars
<1>10. ASSUME NEW n \in 1 .. MaxSequence, InputApplied(c, n) PROVE BaseInv'
  <2>1. sent' \in [Controllers -> [1 .. MaxSequence -> Nat]]
    BY <1>10, CountsKeepTypes DEF InputApplied, PerhapsHad
  <2>2. lease \in Lease /\ lease' = [Applied(n) EXCEPT !.pending = TRUE]
    BY <1>10 DEF InputApplied, BaseInv, TypeOK
  <2>3. lease' \in Lease /\ lease'.owner = c
    BY <1>10, <2>2, AppliedIsALease DEF InputApplied, NextBatch, NextInLine
  <2>4. (SigningIn' <=> SigningIn) /\ lease.live
    BY <1>10, <2>2, AppliedIsALease DEF InputApplied, NextBatch, NextInLine
  <2>5. TypeOK'
    BY <1>10, <2>1, <2>3 DEF InputApplied, BaseInv, TypeOK, agentVars, deviceVars
  <2>6. lease # NoLease /\ lease' # NoLease
    BY <2>3, <2>4, NoLeaseIsALease
  <2>7. custody' = custody /\ custody # "signIn"
    BY <1>10 DEF InputApplied, NextBatch, NextInLine
  <2> QED
    BY <1>10, <2>3, <2>4, <2>5, <2>6, <2>7 DEF BaseInv, LeaseHasOwner, CustodyIsKept, InputApplied
<1>11. ASSUME NEW n \in 1 .. MaxSequence, InputUncertain(c, n) PROVE BaseInv'
  <2>1. sent' \in [Controllers -> [1 .. MaxSequence -> Nat]]
    BY <1>11, CountsKeepTypes DEF InputUncertain, PerhapsHad
  <2>2. browser' = browser /\ display' \in {"none", "up", "failed"}
    BY <1>11 DEF InputUncertain, DisplayBroken, BaseInv, TypeOK
  <2>3. hands' \subseteq Controllers \cup {Agent}
    BY <1>11 DEF InputUncertain, DisplayBroken, BaseInv, TypeOK
  <2>4. lease' \in Lease /\ lease'.owner = c
    BY <1>11 DEF InputUncertain, NextBatch, NextInLine, Applied, BaseInv, TypeOK, Lease
  <2>5. (SigningIn' <=> SigningIn) /\ lease.live
    BY <1>11 DEF InputUncertain, NextBatch, NextInLine, Applied, BaseInv, TypeOK, Lease
  <2>6. TypeOK'
    BY <1>11, <2>1, <2>2, <2>3, <2>4 DEF InputUncertain, BaseInv, TypeOK, agentVars, deviceVars
  <2>7. lease # NoLease /\ lease' # NoLease
    BY <2>4, <2>5, NoLeaseIsALease
  <2>8. custody' = custody /\ custody # "signIn"
    BY <1>11 DEF InputUncertain, NextBatch, NextInLine
  <2> QED
    BY <2>2, <2>4, <2>5, <2>6, <2>7, <2>8 DEF BaseInv, LeaseHasOwner, CustodyIsKept
<1>12. ASSUME NEW n \in 1 .. MaxSequence, Resize(c, n) PROVE BaseInv'
  <2>1. sent' \in [Controllers -> [1 .. MaxSequence -> Nat]]
    BY <1>12, CountsKeepTypes DEF Resize, PerhapsHad
  <2>2. /\ browser' = browser
        /\ display' \in {"none", "up", "failed"}
        /\ hands' \subseteq Controllers \cup {Agent}
    BY <1>12, ResetsKeepTypes DEF Resize, BaseInv, TypeOK
  <2>3. /\ lease \in Lease
        /\ \/ lease' = [Applied(n) EXCEPT !.pending = FALSE]
           \/ lease' = [lease EXCEPT !.unknown = TRUE, !.pending = FALSE]
           \/ lease' = [lease EXCEPT !.unknown = TRUE]
    BY <1>12 DEF Resize, BaseInv, TypeOK
  <2>4. lease' \in Lease /\ lease'.owner = c /\ (SigningIn' <=> SigningIn)
    <3>1. CASE lease' = [Applied(n) EXCEPT !.pending = FALSE]
      BY <1>12, <2>3, <3>1, AppliedIsALease DEF Resize, NextBatch, NextInLine
    <3>2. CASE \/ lease' = [lease EXCEPT !.unknown = TRUE, !.pending = FALSE]
               \/ lease' = [lease EXCEPT !.unknown = TRUE]
      BY <1>12, <2>3, <3>2 DEF Resize, NextBatch, NextInLine, Lease
    <3> QED
      BY <2>3, <3>1, <3>2
  <2>5. (SigningIn' <=> SigningIn) /\ lease.live
    BY <1>12, <2>4 DEF Resize, NextBatch, NextInLine
  <2>6. TypeOK'
    BY <1>12, <2>1, <2>2, <2>4 DEF Resize, BaseInv, TypeOK, agentVars, deviceVars
  <2>7. lease # NoLease /\ lease' # NoLease
    BY <2>4, <2>5, NoLeaseIsALease
  <2>8. custody' = custody /\ custody # "signIn"
    BY <1>12 DEF Resize, NextBatch, NextInLine
  <2> QED
    BY <2>2, <2>4, <2>5, <2>6, <2>7, <2>8 DEF BaseInv, LeaseHasOwner, CustodyIsKept
<1>13. ASSUME NEW n \in 1 .. MaxSequence, Navigate(c, n) PROVE BaseInv'
  <2>1. sent' \in [Controllers -> [1 .. MaxSequence -> Nat]]
    BY <1>13, CountsKeepTypes DEF Navigate, PerhapsHad
  <2>2. lease \in Lease /\ (lease' = Applied(n) \/ lease' = [lease EXCEPT !.unknown = TRUE])
    BY <1>13 DEF Navigate, BaseInv, TypeOK
  <2>3. lease' \in Lease /\ lease'.owner = c /\ (SigningIn' <=> SigningIn)
    <3>1. CASE lease' = Applied(n)
      BY <1>13, <2>2, <3>1, AppliedIsALease DEF Navigate, NextBatch, NextInLine
    <3>2. CASE lease' = [lease EXCEPT !.unknown = TRUE]
      BY <1>13, <2>2, <3>2 DEF Navigate, NextBatch, NextInLine, Lease
    <3> QED
      BY <2>2, <3>1, <3>2
  <2>4. (SigningIn' <=> SigningIn) /\ lease.live
    BY <1>13, <2>3 DEF Navigate, NextBatch, NextInLine
  <2>5. TypeOK'
    BY <1>13, <2>1, <2>3 DEF Navigate, BaseInv, TypeOK, agentVars, deviceVars
  <2>6. lease # NoLease /\ lease' # NoLease
    BY <2>3, <2>4, NoLeaseIsALease
  <2>7. custody' = custody /\ custody # "signIn"
    BY <1>13 DEF Navigate, NextBatch, NextInLine
  <2> QED
    BY <1>13, <2>3, <2>4, <2>5, <2>6, <2>7
       DEF BaseInv, LeaseHasOwner, CustodyIsKept, Navigate, deviceVars
<1> QED
  BY <1>1, <1>2, <1>3, <1>4, <1>5, <1>6, <1>7, <1>8, <1>9, <1>10, <1>11, <1>12, <1>13
     DEF PersonSteps


LEMMA AgentKeepsBase ==
    ASSUME BaseInv, AgentSteps
    PROVE  BaseInv'
<1>1. ASSUME NEW kind \in Commands, AgentBegins(kind) PROVE BaseInv'
  <2>1. TypeOK' /\ LeaseHasOwner'
    BY <1>1 DEF AgentBegins, BaseInv, TypeOK, LeaseHasOwner, personVars, agentVars, deviceVars,
                historyVars
  <2>2. browser \in {"automation", "none"}
    BY <1>1 DEF AgentBegins, Maintained, AgentError, BaseInv, TypeOK, CustodyIsKept
  <2> QED
    BY <1>1, <2>1, <2>2
       DEF AgentBegins, AgentError, BaseInv, CustodyIsKept, personVars, deviceVars
<1>2. ASSUME AgentLaunches PROVE BaseInv'
  BY <1>2 DEF AgentLaunches, Launched, BaseInv, TypeOK, LeaseHasOwner, CustodyIsKept,
              personVars, historyVars
<1>3. ASSUME AgentCloses PROVE BaseInv'
  BY <1>3, GoneKeepsTypes, NoLeaseIsALease
     DEF AgentCloses, BaseInv, TypeOK, LeaseHasOwner, CustodyIsKept, historyVars
<1>4. ASSUME AgentInput PROVE BaseInv'
  BY <1>4, BaseStays DEF AgentInput, BaseInv, TypeOK, personVars, historyVars
<1>5. ASSUME AgentReleases
      PROVE  /\ browser' = browser
             /\ display' \in {"none", "up", "failed"}
             /\ hands' \subseteq Controllers \cup {Agent}
             /\ mouse' \in {"clear", "held", "unknown"}
  BY <1>5, ResetsKeepTypes DEF AgentReleases, BaseInv, TypeOK
<1>6. ASSUME AgentInputUncertain PROVE BaseInv'
  BY <1>6, <1>5, BaseStays DEF AgentInputUncertain, BaseInv, TypeOK, personVars
<1>7. ASSUME AgentDeadline PROVE BaseInv'
  <2>1. /\ browser' = browser
        /\ display' \in {"none", "up", "failed"}
        /\ hands' \subseteq Controllers \cup {Agent}
        /\ mouse' \in {"clear", "held", "unknown"}
    BY <1>7, <1>5 DEF AgentDeadline, DisplayBroken, BaseInv, TypeOK, deviceVars
  <2> QED
    BY <1>7, <2>1 DEF AgentDeadline, BaseInv, TypeOK, LeaseHasOwner, CustodyIsKept, personVars
<1>8. ASSUME AgentEnds PROVE BaseInv'
  <2>1. TypeOK' /\ LeaseHasOwner'
    BY <1>8 DEF AgentEnds, BaseInv, TypeOK, LeaseHasOwner, personVars, deviceVars
  <2>2. custody \in Commands /\ custody' = "free" /\ browser' = browser /\ lease' = lease
    BY <1>8 DEF AgentEnds, personVars, deviceVars
  <2> QED
    BY <2>1, <2>2 DEF BaseInv, CustodyIsKept
<1>9. ASSUME EndChannel PROVE BaseInv'
  BY <1>9, BaseStays DEF EndChannel, BaseInv, TypeOK, personVars, deviceVars, historyVars
<1>10. ASSUME SettleChannel PROVE BaseInv'
  <2>1. /\ browser' = browser
        /\ display' \in {"none", "up", "failed"}
        /\ hands' \subseteq Controllers \cup {Agent}
        /\ mouse' \in {"clear", "held", "unknown"}
        /\ owes' \in BOOLEAN
    BY <1>10, <1>5 DEF SettleChannel, BaseInv, TypeOK, deviceVars
  <2> QED
    BY <1>10, <2>1, BaseStays DEF SettleChannel, BaseInv, TypeOK, personVars, historyVars
<1>11. ASSUME OpenChannel PROVE BaseInv'
  BY <1>11, BaseStays DEF OpenChannel, BaseInv, TypeOK, personVars, deviceVars, historyVars
<1> QED
  BY <1>1, <1>2, <1>3, <1>4, <1>6, <1>7, <1>8, <1>9, <1>10, <1>11 DEF AgentSteps


LEMMA DaemonKeepsBase ==
    ASSUME BaseInv, DaemonSteps
    PROVE  BaseInv'
<1> USE ActorsAssumption, SequenceAssumption, NoLeaseIsALease
<1>1. ASSUME DisplayFails PROVE BaseInv'
  BY <1>1, BaseStays DEF DisplayFails, DisplayBroken, BaseInv, TypeOK, personVars, agentVars,
                         historyVars
<1>2. ASSUME Lapse PROVE BaseInv'
  <2>1. /\ lease' \in Lease /\ lease # NoLease
        /\ lease'.owner = lease.owner /\ lease'.last = lease.last
        /\ lease'.unknown = lease.unknown /\ lease'.pending = lease.pending
        /\ ~lease'.live /\ (SigningIn' <=> SigningIn)
    BY <1>2 DEF Lapse, BaseInv, TypeOK, Lease
  <2> QED
    BY <1>2, <2>1 DEF Lapse, BaseInv, TypeOK, LeaseHasOwner, CustodyIsKept, agentVars,
                      deviceVars, historyVars
<1>3. ASSUME IdleTooLong PROVE BaseInv'
  <2>1. lease' \in Lease /\ lease'.owner = lease.owner /\ SigningIn /\ SigningIn'
    BY <1>3 DEF IdleTooLong, BaseInv, TypeOK, Lease
  <2> QED
    BY <1>3, <2>1 DEF IdleTooLong, BaseInv, TypeOK, LeaseHasOwner, CustodyIsKept, agentVars,
                      deviceVars, historyVars
<1>4. ASSUME Expire PROVE BaseInv'
  <2>1. /\ lease' \in Lease /\ lease # NoLease
        /\ lease'.owner = lease.owner /\ (SigningIn' <=> SigningIn)
    BY <1>4 DEF Expire, Settled, BaseInv, TypeOK, Lease
  <2> QED
    BY <1>4, <2>1, ResetsKeepTypes
       DEF Expire, Maintained, BaseInv, TypeOK, LeaseHasOwner, CustodyIsKept, agentVars,
           historyVars
<1>5. ASSUME SignInStarts PROVE BaseInv'
  <2>1. /\ lease \in Lease /\ lease.owner # Nobody /\ lease.last < MaxSequence
        /\ lease' = [lease EXCEPT !.signIn = "active", !.last = @ + 1, !.pending = FALSE]
    BY <1>5 DEF SignInStarts, BaseInv, TypeOK, CustodyIsKept
  <2>2. /\ lease.owner \in Controllers
        /\ lease.last + 1 \in 1 .. MaxSequence /\ lease.last + 1 \in 0 .. MaxSequence
    BY <2>1 DEF Lease
  <2>3. sent' \in [Controllers -> [1 .. MaxSequence -> Nat]]
    BY <1>5, <2>2, CountsKeepTypes DEF SignInStarts, PerhapsHad
  <2>4. lease' \in Lease /\ lease'.owner = lease.owner /\ SigningIn'
    BY <2>1, <2>2 DEF Lease
  <2> QED
    BY <1>5, <2>2, <2>3, <2>4
       DEF SignInStarts, Launched, BaseInv, TypeOK, LeaseHasOwner, CustodyIsKept
<1>6. ASSUME SignInFails PROVE BaseInv'
  <2>1. lease.owner \in Controllers \cup {Nobody}
    BY DEF BaseInv, TypeOK, Lease
  <2> QED
    BY <1>6, <2>1, GoneKeepsTypes
       DEF SignInFails, Launched, BaseInv, TypeOK, LeaseHasOwner, CustodyIsKept
<1>7. ASSUME HandBackDue PROVE BaseInv'
  BY <1>7 DEF HandBackDue, HandBackBegins, BaseInv, TypeOK, LeaseHasOwner, CustodyIsKept,
              personVars, agentVars, historyVars
<1>8. ASSUME Relaunch PROVE BaseInv'
  BY <1>8, GoneKeepsTypes
     DEF Relaunch, Launched, BaseInv, TypeOK, LeaseHasOwner, CustodyIsKept
<1>9. ASSUME EndLease PROVE BaseInv'
  <2>1. lease.owner \in Controllers \cup {Nobody}
    BY DEF BaseInv, TypeOK, Lease
  <2> QED
    BY <1>9, <2>1
       DEF EndLease, BaseInv, TypeOK, LeaseHasOwner, CustodyIsKept, deviceVars, historyVars
<1>10. ASSUME BrowserExits PROVE BaseInv'
  BY <1>10, GoneKeepsTypes
     DEF BrowserExits, BaseInv, TypeOK, LeaseHasOwner, CustodyIsKept, historyVars
<1>11. ASSUME Restart PROVE BaseInv'
  BY <1>11 DEF Restart, Launched, BaseInv, TypeOK, LeaseHasOwner, CustodyIsKept, personVars
<1> QED
  BY <1>1, <1>2, <1>3, <1>4, <1>5, <1>6, <1>7, <1>8, <1>9, <1>10, <1>11 DEF DaemonSteps

LEMMA StepsKeepBase ==
    ASSUME BaseInv, [Next]_vars
    PROVE  BaseInv'
<1>1. CASE UNCHANGED vars
  BY <1>1, BaseStays DEF BaseInv, TypeOK, vars, personVars, agentVars, deviceVars, historyVars
<1> QED
  BY <1>1, PersonKeepsBase, AgentKeepsBase, DaemonKeepsBase DEF Next

(* Whoever takes over, lapses, signs in or fails, the lease, the browser   *)
(* and whoever has command custody stay consistent (enter, hand_back,      *)
(* begin_sign_in, end_lease, reset_browser).                               *)
THEOREM CustodyIsConsistent == Spec => []BaseInv
<1> QED
  BY BaseHolds, StepsKeepBase, PTL DEF Spec

(* The types of the variables.                                             *)
THEOREM TypesAreCorrect == Spec => []TypeOK
<1>1. BaseInv => TypeOK
  BY DEF BaseInv
<1> QED
  BY <1>1, CustodyIsConsistent, PTL

(* While custody is free the browser runs without DevTools exactly when a  *)
(* lease signs in, for every number of people (begin_sign_in, end_lease,   *)
(* reset_browser).                                                         *)
THEOREM SignInAlwaysMatchesTheBrowser == Spec => []SignInMatchesBrowser
<1>1. BaseInv => SignInMatchesBrowser
  BY DEF BaseInv, CustodyIsKept, SignInMatchesBrowser
<1> QED
  BY <1>1, CustodyIsConsistent, PTL

-----------------------------------------------------------------------------
(* What the agent owes an observation of.                                  *)

(* A step that adds nothing to what the agent has not seen, unless a       *)
(* person holds the browser and it is owed already.                        *)
NothingNewIsUnseen ==
    /\ owes' = owes
    /\ unseen' => unseen \/ lease.live \/ SigningIn
    /\ lease'.live => lease.live
    /\ SigningIn' => SigningIn

LEMMA PersonLeavesOwed ==
    ASSUME BaseInv, NEW c \in Controllers, PersonSteps(c)
    PROVE  NothingNewIsUnseen \/ owes'
<1> USE DEF NothingNewIsUnseen
<1>1. CASE Ask(c) \/ GiveUp(c) \/ AcquireRefused(c) \/ AcquireFails(c)
  BY <1>1 DEF Ask, GiveUp, AcquireRefused, AcquireFails, agentVars, historyVars
<1>2. CASE AcquireLate(c)
  BY <1>2, NoLeaseIsALease DEF AcquireLate, historyVars
<1>3. CASE Acquire(c)
  BY <1>3 DEF Acquire
<1>4. CASE Release(c)
  <2>1. lease'.live => lease.live
    BY <1>4, NoLeaseIsALease DEF Release, BaseInv, TypeOK, Lease
  <2>2. ~SigningIn'
    BY <1>4, NoLeaseIsALease DEF Release, BaseInv, TypeOK, Lease
  <2> QED
    BY <1>4, <2>1, <2>2 DEF Release, agentVars, historyVars
<1>5. CASE SignInBegins(c) \/ HandBackAsked(c)
  BY <1>5 DEF SignInBegins, HandBackAsked, HandBackBegins, personVars, agentVars, historyVars
<1>6. ASSUME NEW n \in 1 .. MaxSequence,
             InputApplied(c, n) \/ InputUncertain(c, n) \/ Resize(c, n) \/ Navigate(c, n)
      PROVE  NothingNewIsUnseen
  <2>1. lease.live
    BY <1>6 DEF InputApplied, InputUncertain, Resize, Navigate, NextBatch, NextInLine
  <2>2. owes' = owes
    BY <1>6 DEF InputApplied, InputUncertain, Resize, Navigate, agentVars
  <2>3. SigningIn' => SigningIn
    <3>1. CASE \/ lease' = Applied(n)
               \/ lease' = [Applied(n) EXCEPT !.pending = TRUE]
               \/ lease' = [Applied(n) EXCEPT !.pending = FALSE]
      BY <3>1, AppliedIsALease DEF BaseInv, TypeOK
    <3>2. CASE \/ lease' = [lease EXCEPT !.unknown = TRUE]
               \/ lease' = [lease EXCEPT !.unknown = TRUE, !.pending = TRUE]
               \/ lease' = [lease EXCEPT !.unknown = TRUE, !.pending = FALSE]
      BY <3>2 DEF BaseInv, TypeOK, Lease
    <3> QED
      BY <1>6, <3>1, <3>2 DEF InputApplied, InputUncertain, Resize, Navigate
  <2> QED
    BY <2>1, <2>2, <2>3
<1> QED
  BY <1>1, <1>2, <1>3, <1>4, <1>5, <1>6 DEF PersonSteps

LEMMA AgentLeavesOwed ==
    ASSUME BaseInv, AgentSteps
    PROVE  NothingNewIsUnseen \/ owes' \/ AgentEnds
<1> USE DEF NothingNewIsUnseen
<1>1. CASE \E kind \in Commands : AgentBegins(kind)
  BY <1>1 DEF AgentBegins, personVars, agentVars, historyVars
<1>2. CASE AgentLaunches \/ AgentInput
  BY <1>2 DEF AgentLaunches, AgentInput, personVars, historyVars
<1>3. CASE AgentCloses
  BY <1>3, GoneKeepsTypes, NoLeaseIsALease DEF AgentCloses, historyVars
<1>4. CASE AgentInputUncertain \/ AgentDeadline
  BY <1>4 DEF AgentInputUncertain, AgentDeadline
<1>5. CASE EndChannel \/ OpenChannel
  BY <1>5 DEF EndChannel, OpenChannel, personVars, historyVars
<1>6. CASE SettleChannel
  BY <1>6 DEF SettleChannel, BaseInv, TypeOK, personVars, historyVars
<1> QED
  BY <1>1, <1>2, <1>3, <1>4, <1>5, <1>6 DEF AgentSteps

LEMMA DaemonLeavesOwed ==
    ASSUME BaseInv, DaemonSteps
    PROVE  NothingNewIsUnseen \/ owes'
<1> USE DEF NothingNewIsUnseen
<1>1. CASE DisplayFails \/ HandBackDue
  BY <1>1 DEF DisplayFails, HandBackDue, HandBackBegins, personVars, agentVars, historyVars
<1>2. CASE Lapse \/ IdleTooLong \/ Expire
  <2>1. (lease'.live => lease.live) /\ (SigningIn' => SigningIn)
    BY <1>2 DEF Lapse, IdleTooLong, Expire, BaseInv, TypeOK, Lease
  <2> QED
    BY <1>2, <2>1 DEF Lapse, IdleTooLong, Expire, agentVars, historyVars
<1>3. CASE SignInStarts \/ SignInFails \/ EndLease \/ Restart
  BY <1>3 DEF SignInStarts, SignInFails, EndLease, Restart
<1>4. CASE Relaunch
  <2>1. lease' = lease \/ lease' = NoLease
    BY <1>4, GoneKeepsTypes DEF Relaunch
  <2>2. SigningIn /\ owes' = owes
    BY <1>4 DEF Relaunch, BaseInv, CustodyIsKept
  <2> QED
    BY <2>1, <2>2, NoLeaseIsALease
<1>5. CASE BrowserExits
  BY <1>5, GoneKeepsTypes, NoLeaseIsALease DEF BrowserExits, historyVars
<1> QED
  BY <1>1, <1>2, <1>3, <1>4, <1>5 DEF DaemonSteps

LEMMA StepsKeepOwed ==
    ASSUME BaseInv, UnseenIsOwed, [Next]_vars
    PROVE  UnseenIsOwed'
<1>1. CASE NothingNewIsUnseen \/ owes'
  BY <1>1 DEF UnseenIsOwed, NothingNewIsUnseen
<1>2. CASE AgentEnds
  <2>1. ~lease.live /\ ~SigningIn /\ lease' = lease
    BY <1>2 DEF AgentEnds, BaseInv, CustodyIsKept, personVars
  <2> QED
    BY <1>2, <2>1 DEF AgentEnds, UnseenIsOwed
<1>3. CASE UNCHANGED vars
  BY <1>3 DEF UnseenIsOwed, vars, personVars, agentVars, historyVars
<1> QED
  BY <1>1, <1>2, <1>3, PersonLeavesOwed, AgentLeavesOwed, DaemonLeavesOwed DEF Next

(* Only a command that begins is a blind one.                              *)
LEMMA BlindStepsBegin ==
    ASSUME [Next]_vars, custody # "blind", custody' = "blind"
    PROVE  AgentBegins("blind")
<1>1. ASSUME NEW c \in Controllers, PersonSteps(c) PROVE FALSE
  BY <1>1 DEF PersonSteps, Ask, GiveUp, AcquireRefused, AcquireFails, AcquireLate, Acquire, Grant,
              Release, SignInBegins, HandBackAsked, HandBackBegins, InputApplied,
              InputUncertain, Resize, Navigate
<1>2. ASSUME AgentSteps PROVE AgentBegins("blind")
  BY <1>2 DEF AgentSteps, AgentBegins, AgentLaunches, AgentCloses, AgentInput,
              AgentInputUncertain, AgentDeadline, AgentEnds, EndChannel, SettleChannel,
              OpenChannel
<1>3. ASSUME DaemonSteps PROVE FALSE
  BY <1>3 DEF DaemonSteps, DisplayFails, Lapse, IdleTooLong, Expire, SignInStarts, SignInFails,
              HandBackDue, HandBackBegins, Relaunch, EndLease, BrowserExits, Restart
<1> QED
  BY <1>1, <1>2, <1>3 DEF Next, vars

(* The agent never sends input to wherever focus or the pointer is while   *)
(* it owes an observation of what changed (needs_observation), whoever     *)
(* changed it and whenever, also during the command that looks.            *)
THEOREM NothingIsEverActedOnBlind == Spec => NothingIsActedOnBlind
<1>1. Init => UnseenIsOwed
  BY NoLeaseIsALease DEF Init, UnseenIsOwed
<1>2. BaseInv /\ UnseenIsOwed /\ [Next]_vars
      => [custody # "blind" /\ custody' = "blind" => ~unseen]_vars
  BY BlindStepsBegin DEF AgentBegins, UnseenIsOwed
<1> QED
  BY <1>1, <1>2, StepsKeepOwed, CustodyIsConsistent, PTL DEF Spec, NothingIsActedOnBlind

-----------------------------------------------------------------------------
(* Whose input is down.                                                    *)

(* The browser stays with its holder, or changes hands with nothing down.  *)
Handover ==
    /\ hands' \subseteq {Holder'}
    /\ \/ Holder' = Holder
       \/ hands' = {} /\ (Holder = Agent \/ Holder' = Agent)

HandsStay == HandsAreTheHolders' /\ Handover

LEMMA HolderIsAnActor ==
    ASSUME BaseInv
    PROVE  /\ HoldsCustody => lease.owner \in Controllers
           /\ Holder \in Controllers \cup {Agent}
BY NoLeaseIsALease DEF BaseInv, TypeOK, LeaseHasOwner, Lease, Holder

(* A step that keeps the lease and puts nothing new down.                  *)
LEMMA NothingNewIsDown ==
    ASSUME HandsAreTheHolders, lease' = lease, hands' \subseteq hands,
           custody' = "handedBack" => custody = "handedBack"
    PROVE  HandsStay
BY DEF HandsStay, Handover, HandsAreTheHolders, Holder

(* A step that ends a lease with nothing down.                             *)
LEMMA EndsWithNothingDown ==
    ASSUME lease' = NoLease, hands' = {}
    PROVE  HandsStay
BY NoLeaseIsALease DEF HandsStay, Handover, HandsAreTheHolders, Holder

LEMMA ResetsPutNothingDown ==
    ASSUME ResetConfirmed \/ ResetUnconfirmed
    PROVE  hands' \subseteq hands /\ (ResetConfirmed => hands' = {})
BY DEF ResetConfirmed, ResetUnconfirmed, DisplayBroken, deviceVars

LEMMA PersonKeepsHands ==
    ASSUME BaseInv, HandsAreTheHolders, Eager = {}, NEW c \in Controllers, PersonSteps(c)
    PROVE  HandsStay
<1> USE ActorsAssumption
<1>1. CASE Ask(c) \/ GiveUp(c) \/ AcquireRefused(c) \/ SignInBegins(c) \/ HandBackAsked(c)
  <2>1. lease' = lease /\ hands' = hands /\ (custody' = "handedBack" => custody = "handedBack")
    BY <1>1 DEF Ask, GiveUp, AcquireRefused, SignInBegins, HandBackAsked, HandBackBegins,
                personVars, deviceVars
  <2> QED
    BY <2>1, NothingNewIsDown
<1>2. CASE AcquireFails(c)
  <2>1. lease' = lease /\ custody' = custody /\ hands' \subseteq hands
    BY <1>2, ResetsPutNothingDown DEF AcquireFails
  <2> QED
    BY <2>1, NothingNewIsDown
<1>3. CASE AcquireLate(c)
  <2>1. /\ lease' = lease \/ lease' = NoLease
        /\ custody' = custody /\ hands' = {}
    BY <1>3, ResetsPutNothingDown DEF AcquireLate
  <2> QED
    BY <2>1, NothingNewIsDown, EndsWithNothingDown
<1>4. CASE Acquire(c)
  <2>1. hands' = {} /\ ~HoldsCustody
    BY <1>4, ResetsPutNothingDown DEF Acquire, Grant, Acquiring, Refused
  <2> QED
    BY <2>1 DEF HandsStay, Handover, HandsAreTheHolders, Holder
<1>5. CASE Release(c)
  <2>1. CASE lease.pending /\ ResetConfirmed /\ lease' = NoLease
    BY <2>1, ResetsPutNothingDown, EndsWithNothingDown
  <2>2. CASE ~lease.pending /\ UNCHANGED deviceVars /\ lease' = NoLease
    <3>1. hands' = hands /\ hands \cap Controllers = {}
      BY <2>2 DEF deviceVars, HandsAreTheHolders
    <3>2. Holder' = Agent /\ hands \subseteq {Agent} /\ (Holder = Agent \/ hands = {})
      BY <2>2, <3>1, NoLeaseIsALease, HolderIsAnActor DEF Holder, HandsAreTheHolders
    <3>3. custody' = custody
      BY <1>5 DEF Release
    <3> QED
      BY <3>1, <3>2, <3>3 DEF HandsStay, Handover, HandsAreTheHolders
  <2>3. CASE lease.pending /\ ResetUnconfirmed /\ lease' = [lease EXCEPT !.unknown = TRUE]
    <3>1. hands' \subseteq hands
      BY <2>3, ResetsPutNothingDown
    <3>2. Holder' = Holder /\ lease'.pending
      BY <2>3 DEF Holder, BaseInv, TypeOK, Lease
    <3>3. custody' = custody
      BY <1>5 DEF Release
    <3> QED
      BY <3>1, <3>2, <3>3 DEF HandsStay, Handover, HandsAreTheHolders
  <2> QED
    BY <1>5, <2>1, <2>2, <2>3 DEF Release
<1>6. ASSUME NEW n \in 1 .. MaxSequence, InputApplied(c, n) PROVE HandsStay
  <2>1. /\ lease.live /\ lease.owner = c /\ lease \in Lease
        /\ lease' = [Applied(n) EXCEPT !.pending = TRUE]
        /\ custody' = custody /\ custody # "handedBack"
        /\ hands' \subseteq hands \cup {c}
    BY <1>6 DEF InputApplied, NextBatch, NextInLine, BaseInv, TypeOK
  <2>2. lease'.owner = c /\ lease'.live /\ lease'.pending
    BY <2>1, AppliedIsALease DEF Applied, Lease
  <2> QED
    BY <2>1, <2>2 DEF HandsStay, Handover, HandsAreTheHolders, Holder
<1>7. ASSUME NEW n \in 1 .. MaxSequence, InputUncertain(c, n) PROVE HandsStay
  <2>1. /\ lease.live /\ lease.owner = c /\ lease \in Lease
        /\ lease' = [lease EXCEPT !.unknown = TRUE, !.pending = TRUE]
        /\ custody' = custody /\ custody # "handedBack"
        /\ hands' \subseteq hands \cup {c}
    BY <1>7 DEF InputUncertain, NextBatch, NextInLine, DisplayBroken, BaseInv, TypeOK
  <2>2. lease'.owner = c /\ lease'.live /\ lease'.pending
    BY <2>1 DEF Lease
  <2> QED
    BY <2>1, <2>2 DEF HandsStay, Handover, HandsAreTheHolders, Holder
<1>8. ASSUME NEW n \in 1 .. MaxSequence, Resize(c, n) PROVE HandsStay
  <2>1. /\ lease.live /\ lease.owner = c /\ lease \in Lease /\ custody' = custody
        /\ hands' \subseteq hands
        /\ \/ hands' = {} /\ lease' = [Applied(n) EXCEPT !.pending = FALSE]
           \/ hands' = {} /\ lease' = [lease EXCEPT !.unknown = TRUE, !.pending = FALSE]
           \/ lease' = [lease EXCEPT !.unknown = TRUE]
    BY <1>8, ResetsPutNothingDown DEF Resize, NextBatch, NextInLine, BaseInv, TypeOK
  <2>2. /\ lease'.owner = c /\ lease'.live
        /\ hands' = {} \/ lease'.pending = lease.pending
    BY <2>1, AppliedIsALease DEF Lease
  <2> QED
    BY <2>1, <2>2 DEF HandsStay, Handover, HandsAreTheHolders, Holder
<1>9. ASSUME NEW n \in 1 .. MaxSequence, Navigate(c, n) PROVE HandsStay
  <2>1. /\ lease.live /\ lease.owner = c /\ lease \in Lease /\ custody' = custody
        /\ hands' = hands
        /\ lease' = Applied(n) \/ lease' = [lease EXCEPT !.unknown = TRUE]
    BY <1>9 DEF Navigate, NextBatch, NextInLine, BaseInv, TypeOK, deviceVars
  <2>2. lease'.owner = c /\ lease'.live /\ lease'.pending = lease.pending
    BY <2>1, AppliedIsALease DEF Applied, Lease
  <2> QED
    BY <2>1, <2>2 DEF HandsStay, Handover, HandsAreTheHolders, Holder
<1> QED
  BY <1>1, <1>2, <1>3, <1>4, <1>5, <1>6, <1>7, <1>8, <1>9 DEF PersonSteps

LEMMA AgentKeepsHands ==
    ASSUME BaseInv, HandsAreTheHolders, AgentSteps
    PROVE  HandsStay
<1> USE ActorsAssumption
<1>1. ASSUME AgentReleases PROVE hands' \subseteq hands
  BY <1>1, ResetsPutNothingDown DEF AgentReleases
<1>2. CASE \/ \E kind \in Commands : AgentBegins(kind)
           \/ AgentEnds \/ EndChannel \/ OpenChannel
  <2>1. /\ lease' = lease /\ hands' = hands
        /\ custody' = "handedBack" => custody = "handedBack"
    BY <1>2 DEF AgentBegins, AgentEnds, EndChannel, OpenChannel, personVars, deviceVars
  <2> QED
    BY <2>1, NothingNewIsDown
<1>3. CASE AgentLaunches
  <2>1. lease' = lease /\ hands' = {} /\ custody' = custody
    BY <1>3 DEF AgentLaunches, Launched, personVars
  <2> QED
    BY <2>1, NothingNewIsDown
<1>4. CASE AgentCloses
  BY <1>4, GoneKeepsTypes, EndsWithNothingDown DEF AgentCloses
<1>5. CASE AgentInput
  <2>1. /\ lease' = lease /\ custody' = custody /\ custody # "handedBack"
        /\ hands' \subseteq hands \cup {Agent} /\ ~HoldsCustody
    BY <1>5 DEF AgentInput, Sending, AgentError, personVars
  <2> QED
    BY <2>1 DEF HandsStay, Handover, HandsAreTheHolders, Holder
<1>6. CASE AgentInputUncertain
  <2>1. lease' = lease /\ hands' \subseteq hands /\ custody' = custody
    BY <1>1, <1>6 DEF AgentInputUncertain, personVars
  <2> QED
    BY <2>1, NothingNewIsDown
<1>7. CASE AgentDeadline
  <2>1. lease' = lease /\ hands' \subseteq hands /\ custody' = "free"
    BY <1>1, <1>7 DEF AgentDeadline, DisplayBroken, personVars, deviceVars
  <2> QED
    BY <2>1, NothingNewIsDown
<1>8. CASE SettleChannel
  <2>1. lease' = lease /\ hands' \subseteq hands /\ custody' = custody
    BY <1>1, <1>8 DEF SettleChannel, personVars, deviceVars
  <2> QED
    BY <2>1, NothingNewIsDown
<1> QED
  BY <1>2, <1>3, <1>4, <1>5, <1>6, <1>7, <1>8 DEF AgentSteps

LEMMA DaemonKeepsHands ==
    ASSUME BaseInv, HandsAreTheHolders, DaemonSteps
    PROVE  HandsStay
<1> USE ActorsAssumption
<1>1. CASE DisplayFails \/ HandBackDue
  <2>1. /\ lease' = lease /\ hands' \subseteq hands
        /\ custody' = "handedBack" => custody = "handedBack"
    BY <1>1 DEF DisplayFails, DisplayBroken, HandBackDue, HandBackBegins, personVars
  <2> QED
    BY <2>1, NothingNewIsDown
<1>2. CASE Lapse
  <2>1. /\ lease \in Lease /\ lease' = [lease EXCEPT !.live = FALSE]
        /\ hands' = hands /\ custody' = custody /\ lease.live
    BY <1>2 DEF Lapse, BaseInv, TypeOK, deviceVars
  <2>2. lease'.owner = lease.owner /\ lease'.pending = lease.pending
    BY <2>1 DEF Lease
  <2>3. Holder' = Holder \/ (Holder' = Agent /\ ~lease.pending)
    BY <2>1, <2>2 DEF Holder, Lease
  <2>4. ~lease.pending => hands = {}
    BY <2>1, HolderIsAnActor DEF HandsAreTheHolders, Holder
  <2> QED
    BY <2>1, <2>2, <2>3, <2>4 DEF HandsStay, Handover, HandsAreTheHolders
<1>3. CASE IdleTooLong
  <2>1. /\ lease \in Lease /\ lease' = [lease EXCEPT !.signIn = "idle"]
        /\ hands' = hands /\ custody' = custody /\ SigningIn
    BY <1>3 DEF IdleTooLong, BaseInv, TypeOK, deviceVars
  <2>2. Holder' = Holder /\ lease'.pending = lease.pending
    BY <2>1 DEF Holder, Lease
  <2> QED
    BY <2>1, <2>2 DEF HandsStay, Handover, HandsAreTheHolders
<1>4. CASE Expire
  <2>1. /\ lease \in Lease /\ lease.pending /\ custody' = custody
        /\ \/ hands' = {} /\ lease' = [lease EXCEPT !.pending = FALSE]
           \/ hands' \subseteq hands /\ lease' = [lease EXCEPT !.unknown = TRUE]
    BY <1>4, ResetsPutNothingDown DEF Expire, Settled, BaseInv, TypeOK
  <2>2. \/ hands' = {} /\ (Holder' = Holder \/ Holder' = Agent)
        \/ hands' \subseteq hands /\ Holder' = Holder /\ lease'.pending
    BY <2>1 DEF Holder, Lease
  <2> QED
    BY <2>1, <2>2 DEF HandsStay, Handover, HandsAreTheHolders
<1>5. CASE SignInStarts
  <2>1. /\ lease \in Lease /\ hands' = {} /\ custody' = "free"
        /\ lease' = [lease EXCEPT !.signIn = "active", !.last = @ + 1, !.pending = FALSE]
    BY <1>5 DEF SignInStarts, Launched, BaseInv, TypeOK
  <2>2. Holder' = Holder \/ Holder = Agent
    BY <2>1 DEF Holder, Lease
  <2> QED
    BY <2>1, <2>2 DEF HandsStay, Handover, HandsAreTheHolders
<1>6. CASE SignInFails
  BY <1>6, GoneKeepsTypes, EndsWithNothingDown DEF SignInFails, Launched
<1>7. CASE Relaunch
  <2>1. hands' = {} /\ (lease' = lease \/ lease' = NoLease)
    BY <1>7, GoneKeepsTypes DEF Relaunch, Launched
  <2>2. CASE lease' = lease
    BY <2>1, <2>2 DEF HandsStay, Handover, HandsAreTheHolders, Holder
  <2> QED
    BY <2>1, <2>2, EndsWithNothingDown
<1>8. CASE EndLease
  <2>1. hands' = {} /\ lease' = NoLease
    BY <1>8 DEF EndLease, HandsAreTheHolders, deviceVars
  <2> QED
    BY <2>1, EndsWithNothingDown
<1>9. CASE BrowserExits
  BY <1>9, GoneKeepsTypes, EndsWithNothingDown DEF BrowserExits
<1>10. CASE Restart
  <2>1. lease' = lease /\ hands' = {} /\ custody' = custody
    BY <1>10 DEF Restart, Launched, personVars
  <2> QED
    BY <2>1, NothingNewIsDown
<1> QED
  BY <1>1, <1>2, <1>3, <1>4, <1>5, <1>6, <1>7, <1>8, <1>9, <1>10 DEF DaemonSteps

LEMMA StepsKeepHands ==
    ASSUME BaseInv, HandsAreTheHolders, Eager = {}, [Next]_vars
    PROVE  HandsStay
<1>1. CASE UNCHANGED vars
  <2>1. lease' = lease /\ hands' = hands /\ custody' = custody
    BY <1>1 DEF vars, personVars, deviceVars
  <2> QED
    BY <2>1, NothingNewIsDown
<1> QED
  BY <1>1, PersonKeepsHands, AgentKeepsHands, DaemonKeepsHands DEF Next

LEMMA HandsStart == ASSUME Init PROVE HandsAreTheHolders /\ Holder = Agent
BY NoLeaseIsALease DEF Init, HandsAreTheHolders, Holder

(* Only the holder's input is ever down, a person's only while their lease *)
(* is known to need a reset, provided a person who asked for release sends *)
(* nothing until it is answered (native_input_pending, release_held).      *)
THEOREM OnlyTheHoldersInputIsDown ==
    ASSUME Eager = {}
    PROVE  Spec => []HandsAreTheHolders
<1>1. BaseInv /\ HandsAreTheHolders /\ [Next]_vars => HandsAreTheHolders'
  BY StepsKeepHands DEF HandsStay
<1>2. Init => HandsAreTheHolders
  BY HandsStart
<1> QED
  BY <1>1, <1>2, CustodyIsConsistent, PTL DEF Spec

(* Browser control implements ExclusiveControl for every set of people, on *)
(* the same condition: it changes hands only between the agent and one     *)
(* person and with nothing down (Acquire, expire, release_held, sign_in.rs).*)
THEOREM ControlIsAlwaysExclusive ==
    ASSUME Eager = {}
    PROVE  Spec => ControlIsExclusive
<1>1. Init => Control!ControlInit
  BY HandsStart DEF Control!ControlInit, Init
<1>2. BaseInv /\ BaseInv' /\ HandsAreTheHolders /\ [Next]_vars
      => [Control!ControlNext]_(Control!controlVars)
  <2> SUFFICES ASSUME BaseInv, BaseInv', HandsAreTheHolders, [Next]_vars
               PROVE  Control!ControlNext
    OBVIOUS
  <2>1. Handover
    BY StepsKeepHands DEF HandsStay
  <2>2. Holder \in Controllers \cup {Agent}
    BY HolderIsAnActor
  <2>3. Holder' \in Controllers \cup {Agent}
    BY NoLeaseIsALease DEF BaseInv, TypeOK, LeaseHasOwner, Lease, Holder
  <2> QED
    BY <2>1, <2>2, <2>3, ActorsAssumption
       DEF Handover, Control!ControlNext, Control!Act, Control!Take, Control!GiveBack
<1> QED
  BY <1>1, <1>2, OnlyTheHoldersInputIsDown, CustodyIsConsistent, PTL
     DEF Spec, ControlIsExclusive, Control!ControlSpec

-----------------------------------------------------------------------------
(* Batches have effect once.                                               *)

Counted == UnusedNumbers /\ EachBatchOnce

(* A step that leaves the batches alone and keeps the lease, or ends it.   *)
LEMMA LeavesTheBatches ==
    ASSUME BaseInv, Counted, UNCHANGED <<controlled, sent>>,
           \/ lease' = NoLease
           \/ /\ lease'.owner = lease.owner /\ lease'.last = lease.last
              /\ lease.unknown => lease'.unknown
    PROVE  Counted'
BY NoLeaseIsALease, ActorsAssumption DEF Counted, UnusedNumbers, EachBatchOnce

(* The next batch of the lease has had no effect yet.                      *)
LEMMA NextIsUnused ==
    ASSUME BaseInv, Counted, NEW c \in Controllers, lease.owner = c, ~lease.unknown,
           NEW n \in 1 .. MaxSequence, n = lease.last + 1
    PROVE  sent[c][n] = 0 /\ c \in controlled
<1>1. lease.last \in Nat
  BY SequenceAssumption DEF BaseInv, TypeOK, Lease
<1> QED
  BY <1>1 DEF Counted, UnusedNumbers

(* A step that performs it, and consumes it or stops the lease.            *)
LEMMA ConsumesTheNext ==
    ASSUME BaseInv, Counted, NEW c \in Controllers, lease.owner = c, ~lease.unknown,
           NEW n \in 1 .. MaxSequence, n = lease.last + 1,
           UNCHANGED controlled, PerhapsHad(c, n),
           lease'.owner = c, lease'.last = n \/ lease'.unknown
    PROVE  Counted'
<1>1. sent \in [Controllers -> [1 .. MaxSequence -> Nat]] /\ lease.last \in Nat
  BY SequenceAssumption DEF BaseInv, TypeOK, Lease
<1>2. sent[c][n] = 0 /\ c \in controlled
  BY NextIsUnused
<1>3. /\ sent'[c][n] \in {0, 1}
      /\ \A d \in Controllers, m \in 1 .. MaxSequence :
            d # c \/ m # n => sent'[d][m] = sent[d][m]
  <2>1. CASE UNCHANGED sent
    BY <1>2, <2>1
  <2>2. CASE Had(c, n)
    <3> DEFINE counted == [sent[c] EXCEPT ![n] = 1]
    <3>1. sent[c] \in [1 .. MaxSequence -> Nat] /\ sent[c][n] + 1 = 1
      BY <1>1, <1>2
    <3>2. counted[n] = 1
      BY <3>1
    <3>3. \A m \in 1 .. MaxSequence : m # n => counted[m] = sent[c][m]
      BY <3>1
    <3>4. sent' = [sent EXCEPT ![c] = counted]
      BY <2>2, <3>1 DEF Had
    <3> HIDE DEF counted
    <3>5. sent'[c] = counted /\ \A d \in Controllers : d # c => sent'[d] = sent[d]
      BY <1>1, <3>4
    <3> QED
      BY <3>2, <3>3, <3>5
  <2> QED
    BY <2>1, <2>2 DEF PerhapsHad
<1>4. EachBatchOnce'
  BY <1>3 DEF Counted, EachBatchOnce
<1>5. \A d \in Controllers \ controlled', m \in 1 .. MaxSequence : sent'[d][m] = 0
  BY <1>2, <1>3 DEF Counted, UnusedNumbers
<1>6. ASSUME ~lease'.unknown, NEW m \in 1 .. MaxSequence, lease'.last < m
      PROVE  sent'[c][m] = 0
  <2>1. m # n /\ lease.last < m
    BY <1>1, <1>6
  <2> QED
    BY <1>3, <2>1 DEF Counted, UnusedNumbers
<1> QED
  BY <1>2, <1>4, <1>5, <1>6 DEF Counted, UnusedNumbers

LEMMA PersonCounts ==
    ASSUME BaseInv, Counted, Returning = {}, NEW c \in Controllers, PersonSteps(c)
    PROVE  Counted'
<1>1. CASE \/ Ask(c) \/ GiveUp(c) \/ AcquireRefused(c) \/ AcquireFails(c)
           \/ SignInBegins(c) \/ HandBackAsked(c)
  <2>1. lease' = lease /\ UNCHANGED <<controlled, sent>>
    BY <1>1 DEF Ask, GiveUp, AcquireRefused, AcquireFails, SignInBegins, HandBackAsked,
                HandBackBegins, personVars, historyVars
  <2> QED
    BY <2>1, LeavesTheBatches
<1>2. CASE AcquireLate(c)
  <2>1. (lease' = lease \/ lease' = NoLease) /\ UNCHANGED <<controlled, sent>>
    BY <1>2 DEF AcquireLate, historyVars
  <2> QED
    BY <2>1, LeavesTheBatches
<1>3. CASE Acquire(c)
  <2>1. c \notin controlled /\ controlled' = controlled \cup {c} /\ sent' = sent
    BY <1>3 DEF Acquire, Grant, Acquiring
  <2>2. lease'.owner = c
    BY <1>3 DEF Acquire, Grant, NoLease
  <2>3. \A n \in 1 .. MaxSequence : sent[c][n] = 0
    BY <2>1 DEF Counted, UnusedNumbers
  <2> QED
    BY <2>1, <2>2, <2>3 DEF Counted, UnusedNumbers, EachBatchOnce
<1>4. CASE Release(c)
  <2>1. UNCHANGED <<controlled, sent>>
    BY <1>4 DEF Release, historyVars
  <2>2. \/ lease' = NoLease
        \/ lease \in Lease /\ lease' = [lease EXCEPT !.unknown = TRUE]
    BY <1>4 DEF Release, BaseInv, TypeOK
  <2>3. \/ lease' = NoLease
        \/ lease'.owner = lease.owner /\ lease'.last = lease.last /\ lease'.unknown
    BY <2>2 DEF Lease
  <2> QED
    BY <2>1, <2>3, LeavesTheBatches
<1>5. ASSUME NEW n \in 1 .. MaxSequence,
             InputApplied(c, n) \/ InputUncertain(c, n) \/ Resize(c, n) \/ Navigate(c, n)
      PROVE  Counted'
  <2>1. /\ lease \in Lease /\ lease.owner = c /\ n = lease.last + 1 /\ ~lease.unknown
        /\ controlled' = controlled /\ PerhapsHad(c, n)
    BY <1>5 DEF InputApplied, InputUncertain, Resize, Navigate, NextBatch, NextInLine,
                PerhapsHad, BaseInv, TypeOK
  <2>2. \/ lease' = Applied(n)
        \/ lease' = [Applied(n) EXCEPT !.pending = TRUE]
        \/ lease' = [Applied(n) EXCEPT !.pending = FALSE]
        \/ lease' = [lease EXCEPT !.unknown = TRUE]
        \/ lease' = [lease EXCEPT !.unknown = TRUE, !.pending = TRUE]
        \/ lease' = [lease EXCEPT !.unknown = TRUE, !.pending = FALSE]
    BY <1>5 DEF InputApplied, InputUncertain, Resize, Navigate
  <2>3. lease'.owner = c /\ (lease'.last = n \/ lease'.unknown)
    BY <2>1, <2>2, AppliedIsALease DEF Lease
  <2> QED
    BY <2>1, <2>3, ConsumesTheNext
<1> QED
  BY <1>1, <1>2, <1>3, <1>4, <1>5 DEF PersonSteps

LEMMA AgentCounts ==
    ASSUME BaseInv, Counted, AgentSteps
    PROVE  Counted'
<1>1. (lease' = lease \/ lease' = NoLease) /\ UNCHANGED <<controlled, sent>>
  BY GoneKeepsTypes
     DEF AgentSteps, AgentBegins, AgentLaunches, AgentCloses, AgentInput, AgentInputUncertain,
         AgentDeadline, AgentEnds, EndChannel, SettleChannel, OpenChannel, personVars,
         historyVars
<1> QED
  BY <1>1, LeavesTheBatches

LEMMA DaemonCounts ==
    ASSUME BaseInv, Counted, DaemonSteps
    PROVE  Counted'
<1>1. CASE \/ DisplayFails \/ SignInFails \/ HandBackDue \/ Relaunch \/ EndLease
           \/ BrowserExits \/ Restart
  <2>1. (lease' = lease \/ lease' = NoLease) /\ UNCHANGED <<controlled, sent>>
    BY <1>1, GoneKeepsTypes
       DEF DisplayFails, SignInFails, HandBackDue, HandBackBegins, Relaunch, EndLease,
           BrowserExits, Restart, personVars, historyVars
  <2> QED
    BY <2>1, LeavesTheBatches
<1>2. CASE Lapse \/ IdleTooLong \/ Expire
  <2>1. /\ lease \in Lease /\ UNCHANGED <<controlled, sent>>
        /\ \/ lease' = [lease EXCEPT !.live = FALSE]
           \/ lease' = [lease EXCEPT !.signIn = "idle"]
           \/ lease' = [lease EXCEPT !.pending = FALSE]
           \/ lease' = [lease EXCEPT !.unknown = TRUE]
    BY <1>2 DEF Lapse, IdleTooLong, Expire, BaseInv, TypeOK, historyVars
  <2>2. /\ lease'.owner = lease.owner /\ lease'.last = lease.last
        /\ lease.unknown => lease'.unknown
    BY <2>1 DEF Lease
  <2> QED
    BY <2>1, <2>2, LeavesTheBatches
<1>3. CASE SignInStarts
  <2>1. /\ lease \in Lease /\ lease.owner # Nobody /\ ~lease.unknown
        /\ lease.last < MaxSequence
        /\ lease' = [lease EXCEPT !.signIn = "active", !.last = @ + 1, !.pending = FALSE]
        /\ PerhapsHad(lease.owner, lease.last + 1) /\ controlled' = controlled
    BY <1>3 DEF SignInStarts, PerhapsHad, BaseInv, TypeOK, CustodyIsKept
  <2>2. lease.owner \in Controllers /\ lease.last + 1 \in 1 .. MaxSequence
    BY <2>1, SequenceAssumption DEF Lease
  <2>3. lease'.owner = lease.owner /\ lease'.last = lease.last + 1
    BY <2>1 DEF Lease
  <2> QED
    BY <2>1, <2>2, <2>3, ConsumesTheNext
<1> QED
  BY <1>1, <1>2, <1>3 DEF DaemonSteps

LEMMA StepsCount ==
    ASSUME BaseInv, Counted, Returning = {}, [Next]_vars
    PROVE  Counted'
<1>1. CASE UNCHANGED vars
  BY <1>1, LeavesTheBatches DEF vars, personVars, historyVars
<1> QED
  BY <1>1, PersonCounts, AgentCounts, DaemonCounts DEF Next

LEMMA CountsStart == ASSUME Init PROVE Counted
BY NoLeaseIsALease, ActorsAssumption DEF Init, Counted, UnusedNumbers, EachBatchOnce

(* No batch of a person's input has effect twice, for every number of      *)
(* people and batches, provided nobody acquires again under an id that     *)
(* another lease has replaced (the reservation in Operation::Input).       *)
THEOREM EachBatchHasEffectOnce ==
    ASSUME Returning = {}
    PROVE  Spec => []EachBatchOnce
<1>1. BaseInv /\ Counted /\ [Next]_vars => Counted'
  BY StepsCount
<1>2. Init => Counted
  BY CountsStart
<1>3. Counted => EachBatchOnce
  BY DEF Counted
<1> QED
  BY <1>1, <1>2, <1>3, CustodyIsConsistent, PTL DEF Spec
=============================================================================
