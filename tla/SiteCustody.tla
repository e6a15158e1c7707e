---------------------------- MODULE SiteCustody -----------------------------
(***************************************************************************)
(* Custody of one site's saved state in a dedicated browser host: a page   *)
(* that needs the site pauses, the host sends the state of one use of a    *)
(* grant, and the state is taken back when the use ends                    *)
(* (src/cli/src/native/site_sessions/custody.rs and transfer.rs).          *)
(*                                                                         *)
(* Every table is behind one mutex, so what runs between two awaits is one *)
(* action.  A job that touches the browser holds `effects` as well, and is *)
(* cut where the tables may change under it.  The browser is external:     *)
(* `data` is what it stores for the site, `frozen` what stopped documents  *)
(* of the site that do not run yet.  A need is answered with at most one   *)
(* transfer, so a transfer and the use it brings go by the name of the     *)
(* need.                                                                   *)
(***************************************************************************)
EXTENDS Naturals

CONSTANTS
    Channels,       \* the host's agent channels
    Needs,          \* paused documents, the needs they raise and their uses
    NoChannel, NoUse,
    AnyUse,         \* a detach that names no use
    MaxOffers,      \* bound on the offers the host makes
    MaxConnections  \* bound on the connections made to the browser

ASSUME NamesAssumption == NoChannel \notin Channels /\ {NoUse, AnyUse} \cap Needs = {}
ASSUME DistinctAssumption == NoUse # AnyUse
ASSUME KeysAssumption == (Channels \cup Needs) \cap {"host", "expiry"} = {}
ASSUME SeparateAssumption == Channels \cap Needs = {}
ASSUME BoundsAssumption == MaxOffers \in Nat /\ MaxConnections \in Nat

VARIABLES
    host,           \* where each channel is, from its opening to its end
    channel,        \* the channel whose offer stands
    offered,        \* whether the site is among its offers
    generation,     \* offer_generation
    lapsed,         \* whether the term of the offer and of the held use is over
    resolved,       \* whether the site's documents pass without a need
    held,           \* the use the tables say the browser holds
    offering,       \* each channel's Offer request, while it is served
    awaits,         \* the needs each channel's Offer or end waits for
    page,           \* where each document is
    need,           \* its pending entry
    transfer,       \* the transfer begun for a need
    releasing,      \* needs a release_pending runs for
    retiring,       \* how far a retire_transfer of each need's transfer is
    detach,         \* the detaches in progress, by who asked
    applying,       \* the transfer whose job holds `effects`
    connections,    \* connections made to the browser after the first
    uncleared,      \* whether the profile is marked uncleared for the site
    data,           \* browser: the uses whose state it stores
    frozen          \* browser: what stopped documents of the site, if any are

tables == <<channel, offered, generation, lapsed, resolved, held>>
pauses == <<page, need>>
requests == <<offering, awaits>>
browser == <<uncleared, data, frozen>>
vars == <<host, tables, requests, pauses, transfer, releasing, retiring, detach, applying,
          connections, browser>>

NoNeed == [channel |-> NoChannel, generation |-> 0, expected |-> NoUse,
           admitted |-> FALSE, expired |-> FALSE, moved |-> FALSE]
NoTransfer == [at |-> "none", channel |-> NoChannel, generation |-> 0, expected |-> NoUse,
               cancelled |-> FALSE, late |-> FALSE, watched |-> FALSE]
NoOffer == [at |-> "idle", keeps |-> NoUse, lists |-> FALSE, generation |-> 0]
NoDetach == [at |-> "idle", expected |-> AnyUse, channel |-> NoChannel, awaits |-> {}]

(* Who detaches: an Offer that discards, a page that finds the offer       *)
(* lapsed, the host's Detach request, the timer of a held use's expiry.    *)
Detachers == Channels \cup Needs \cup {"host", "expiry"}

Init ==
    /\ host = [c \in Channels |-> "new"]
    /\ channel = NoChannel /\ generation = 0 /\ held = NoUse
    /\ offered = FALSE /\ lapsed = FALSE /\ resolved = FALSE
    /\ offering = [c \in Channels |-> NoOffer]
    /\ awaits = [c \in Channels |-> {}]
    /\ page = [n \in Needs |-> "new"]
    /\ need = [n \in Needs |-> NoNeed]
    /\ transfer = [n \in Needs |-> NoTransfer]
    /\ releasing = {}
    /\ retiring = [n \in Needs |-> "no"]
    /\ detach = [w \in Detachers |-> NoDetach]
    /\ applying = NoUse
    /\ connections = 0
    /\ uncleared = FALSE /\ data = {} /\ frozen = "no"

-----------------------------------------------------------------------------
(* What the handlers are built from.                                       *)

(* Nobody holds `effects`.  The jobs that hold it in a single action here  *)
(* are at work only in that action.                                        *)
Free == applying = NoUse

Held(n) == page[n] = "held"
Raised == {n \in Needs : Held(n)}

(* pause.ready.send(ok) for the pending needs of N and what joined them.   *)
Fate(ok) == IF ok THEN "passed" ELSE "stopped"
Answered(N, ok) == [n \in Needs |->
    IF n \in N \/ (N # {} /\ page[n] = "joined") THEN Fate(ok) ELSE page[n]]
Removed(N) == [n \in Needs |-> IF n \in N THEN NoNeed ELSE need[n]]
Answer(N, ok) == page' = Answered(N, ok) /\ need' = Removed(N)

(* clear_documents: the documents retire to blank pages, which resumes     *)
(* them, and the site's storage is erased.  On failure, mark_uncleared.    *)
ClearSite == data' = {} /\ frozen' = "no" /\ UNCHANGED uncleared
LeaveUncleared == uncleared' = TRUE /\ UNCHANGED <<data, frozen>>

Exists(n) == transfer[n].at # "none"
Transferring == {n \in Needs : Exists(n)}

(* current: a transfer still stands on its channel, offer, use and page.   *)
Current(n) ==
    /\ Exists(n) /\ ~transfer[n].cancelled /\ ~transfer[n].late
    /\ ~uncleared
    /\ channel = transfer[n].channel
    /\ host[transfer[n].channel] = "live"
    /\ generation = transfer[n].generation
    /\ held = transfer[n].expected
    /\ Held(n)
    /\ need[n].channel = channel /\ need[n].generation = generation /\ ~need[n].moved
    /\ offered /\ ~lapsed

(* retire_transfer of the transfers of N: each is cancelled, then a job    *)
(* waits for what applies it and releases its need.                        *)
Cancelled(N) == [n \in Needs |->
    IF n \in N THEN [transfer[n] EXCEPT !.cancelled = TRUE] ELSE transfer[n]]
Retirements(N) == [n \in Needs |->
    IF n \in N /\ retiring[n] = "no" THEN "waiting" ELSE retiring[n]]
Retire(N) == transfer' = Cancelled(N) /\ retiring' = Retirements(N)
Retired(N) == \A n \in N : retiring[n] = "no"

-----------------------------------------------------------------------------
(* The channel: it opens, its ledger stops it, its end is handled.         *)

Open(c) ==
    /\ host[c] = "new"
    /\ host' = [host EXCEPT ![c] = "live"]
    /\ UNCHANGED <<tables, requests, pauses, transfer, releasing, retiring, detach, applying,
                   connections, browser>>

(* The connection ends or a newer owner fences it: may_continue is over.   *)
Stop(c) ==
    /\ host[c] = "live"
    /\ host' = [host EXCEPT ![c] = "stopped"]
    /\ UNCHANGED <<tables, requests, pauses, transfer, releasing, retiring, detach, applying,
                   connections, browser>>

(* channel_closed: no offer stands and nothing of it may be applied.       *)
ChannelClosed(c) ==
    /\ host[c] = "stopped"
    /\ host' = [host EXCEPT ![c] = "closed"]
    /\ IF channel = c THEN channel' = NoChannel /\ offered' = FALSE
                      ELSE UNCHANGED <<channel, offered>>
    /\ transfer' = Cancelled({n \in Transferring : transfer[n].channel = c})
    /\ UNCHANGED <<generation, lapsed, resolved, held, requests, pauses, releasing, retiring,
                   detach, applying, connections, browser>>

(* end, once the channel's own requests are answered: retire_stale ...     *)
EndRetires(c) ==
    /\ host[c] = "closed" /\ offering[c].at = "idle"
    /\ host' = [host EXCEPT ![c] = "retiring"]
    /\ LET stale == {n \in Transferring : ~Current(n)}
       IN Retire(stale) /\ awaits' = [awaits EXCEPT ![c] = stale]
    /\ UNCHANGED <<tables, offering, pauses, releasing, detach, applying, connections, browser>>

(* ... then every need it was sent is released ...                         *)
EndReleases(c) ==
    /\ host[c] = "retiring" /\ Retired(awaits[c])
    /\ host' = [host EXCEPT ![c] = "releasing"]
    /\ LET sent == {n \in Raised : need[n].channel = c}
       IN releasing' = releasing \cup sent /\ awaits' = [awaits EXCEPT ![c] = sent]
    /\ UNCHANGED <<tables, offering, pauses, transfer, retiring, detach, applying, connections,
                   browser>>

(* ... and, unless a newer channel has offered, the tables are emptied.    *)
Ended(c) ==
    /\ host[c] = "releasing" /\ awaits[c] \cap releasing = {}
    /\ host' = [host EXCEPT ![c] = "ended"]
    /\ awaits' = [awaits EXCEPT ![c] = {}]
    /\ IF channel = NoChannel THEN offered' = FALSE /\ resolved' = FALSE
                              ELSE UNCHANGED <<offered, resolved>>
    /\ UNCHANGED <<channel, generation, lapsed, held, offering, pauses, transfer, releasing,
                   retiring, detach, applying, connections, browser>>

-----------------------------------------------------------------------------
(* Detach: cancel and settle the site's transfers, then clear the site.    *)

(* ExpectedHeld::matches; only a detach for an expiry carries the term.    *)
Expects(w, job) ==
    /\ job.channel = NoChannel \/ channel = job.channel
    /\ job.expected = AnyUse \/ held = job.expected
    /\ w = "expiry" => lapsed

DetachJob(use, c) ==
    [at |-> "retiring", expected |-> use, channel |-> c, awaits |-> Transferring]

(* detach_expected: refused at once, or started.                           *)
StartDetach(w, use, c) ==
    /\ detach[w].at = "idle"
    /\ Expects(w, DetachJob(use, c))
    /\ detach' = [detach EXCEPT ![w] = DetachJob(use, c)]
    /\ Retire(Transferring)

(* What whoever waits for it does with the answer: an Offer reads it, a    *)
(* page proceeds or not, the others only report it.                        *)
Detached(w, ok) ==
    detach' = [detach EXCEPT ![w] =
        IF w \in Channels THEN [NoDetach EXCEPT !.at = IF ok THEN "done" ELSE "failed"]
        ELSE NoDetach]
Proceeding(w, ok, pages) ==
    IF w \in Needs THEN [pages EXCEPT ![w] = Fate(ok)] ELSE pages

DetachRefused(w) ==
    /\ detach[w].at = "retiring" /\ Retired(detach[w].awaits)
    /\ \/ detach[w].awaits \cap Transferring # {}   \* a retirement failed
       \/ Free /\ (uncleared \/ ~Expects(w, detach[w]))
    /\ Detached(w, FALSE) /\ page' = Proceeding(w, FALSE, page)
    /\ UNCHANGED <<host, tables, requests, need, transfer, releasing, retiring, applying,
                   connections, browser>>

(* Mutant: the expectation is not checked again under `effects`.           *)
DetachClearsUnchecked(w) ==
    /\ detach[w].at = "retiring" /\ Retired(detach[w].awaits)
    /\ detach[w].awaits \cap Transferring = {}
    /\ Free /\ ~uncleared
    /\ ClearSite
    /\ offered' = FALSE /\ held' = NoUse /\ resolved' = TRUE
    /\ page' = Proceeding(w, TRUE, Answered(Raised, FALSE))
    /\ need' = Removed(Raised)
    /\ Detached(w, TRUE)
    /\ UNCHANGED <<host, channel, generation, lapsed, requests, transfer, releasing, retiring,
                   connections, applying>>

(* Under `effects`, checked again: nothing the check reads or the commit   *)
(* writes changes meanwhile but by `effects` or in a way that commutes.    *)
DetachClears(w) ==
    /\ detach[w].at = "retiring" /\ Retired(detach[w].awaits)
    /\ detach[w].awaits \cap Transferring = {}
    /\ Free /\ ~uncleared /\ Expects(w, detach[w])
    /\ \/ /\ ClearSite
          /\ offered' = FALSE /\ held' = NoUse /\ resolved' = TRUE
          /\ page' = Proceeding(w, TRUE, Answered(Raised, FALSE))
          /\ need' = Removed(Raised)
          /\ Detached(w, TRUE)
       \/ /\ LeaveUncleared
          /\ Detached(w, FALSE) /\ page' = Proceeding(w, FALSE, page)
          /\ UNCHANGED <<offered, held, resolved, need>>
    /\ UNCHANGED <<host, channel, generation, lapsed, requests, transfer, releasing, retiring,
                   connections, applying>>

(* The host's Detach, with the use it expects, or v3's, which names none.  *)
HostDetaches(c, use) ==
    /\ host[c] = "live"
    /\ StartDetach("host", use, IF use = AnyUse THEN NoChannel ELSE c)
    /\ UNCHANGED <<host, tables, requests, pauses, releasing, applying, connections, browser>>

(* schedule_expiry and expire_due: the held use's term is over.            *)
Expiry ==
    /\ held # NoUse
    /\ StartDetach("expiry", held, NoChannel)
    /\ UNCHANGED <<host, tables, requests, pauses, releasing, applying, connections, browser>>

Lapse ==
    /\ ~lapsed /\ (offered \/ held # NoUse)
    /\ lapsed' = TRUE
    /\ UNCHANGED <<host, channel, offered, generation, resolved, held, requests, pauses,
                   transfer, releasing, retiring, detach, applying, connections, browser>>

-----------------------------------------------------------------------------
(* Offer: the grants of a channel replace all that stood before.           *)

(* The generation moves first, so no transfer is current: retire_stale.    *)
OfferBegins(c, lists, keeps) ==
    /\ host[c] = "live" /\ offering[c].at = "idle"
    /\ ~uncleared                                   \* recover_cleanup first
    /\ generation < MaxOffers
    /\ generation' = generation + 1
    /\ offering' = [offering EXCEPT ![c] = [at |-> "retiring", keeps |-> keeps,
                                            lists |-> lists, generation |-> generation + 1]]
    /\ Retire(Transferring) /\ awaits' = [awaits EXCEPT ![c] = Transferring]
    /\ UNCHANGED <<host, channel, offered, lapsed, resolved, held, pauses, releasing, detach,
                   applying, connections, browser>>

OfferReleases(c) ==
    /\ offering[c].at = "retiring" /\ Retired(awaits[c])
    /\ offering' = [offering EXCEPT ![c].at = "releasing"]
    /\ awaits' = [awaits EXCEPT ![c] = Raised]
    /\ releasing' = releasing \cup Raised
    /\ UNCHANGED <<host, tables, pauses, transfer, retiring, detach, applying, connections,
                   browser>>

(* A held use that is not offered again is discarded, by name.             *)
OfferDiscards(c) ==
    /\ offering[c].at = "releasing" /\ awaits[c] \cap releasing = {}
    /\ awaits' = [awaits EXCEPT ![c] = {}]
    /\ \/ /\ held \in {NoUse, offering[c].keeps}
          /\ offering' = [offering EXCEPT ![c].at = "committing"]
          /\ UNCHANGED <<detach, transfer, retiring>>
       \/ /\ held \notin {NoUse, offering[c].keeps}
          /\ offering' = [offering EXCEPT ![c].at = "discarding"]
          /\ StartDetach(c, held, NoChannel)
    /\ UNCHANGED <<host, tables, pauses, releasing, applying, connections, browser>>

OfferDiscarded(c) ==
    /\ offering[c].at = "discarding" /\ detach[c].at \in {"done", "failed"}
    /\ offering' = [offering EXCEPT ![c] =
           IF detach[c].at = "done" THEN [@ EXCEPT !.at = "committing"] ELSE NoOffer]
    /\ detach' = [detach EXCEPT ![c] = NoDetach]
    /\ UNCHANGED <<host, tables, awaits, pauses, transfer, releasing, retiring, applying,
                   connections, browser>>

(* Under `effects`: refused when a later offer began or the channel ended. *)
OfferCommits(c) ==
    /\ offering[c].at = "committing" /\ Free
    /\ offering' = [offering EXCEPT ![c] = NoOffer]
    /\ IF generation = offering[c].generation /\ host[c] = "live"
       THEN /\ channel' = c
            /\ offered' = offering[c].lists
            /\ resolved' = (held # NoUse)
            /\ lapsed' = (lapsed /\ ~offering[c].lists /\ held # NoUse)
       ELSE UNCHANGED <<channel, offered, resolved, lapsed>>
    /\ UNCHANGED <<host, generation, held, awaits, pauses, transfer, releasing, retiring,
                   detach, applying, connections, browser>>

-----------------------------------------------------------------------------
(* The documents: `paused` in the canonical Fetch resolver.                *)

(* The wait on effect_site only delays a document: an effect may begin     *)
(* between it and the look at the tables, which takes their mutex only.    *)
Undecided(n) == page[n] = "new" /\ offered /\ ~resolved /\ ~uncleared

PassOrStop(n) ==
    /\ page[n] = "new"
    /\ uncleared \/ ~offered \/ resolved
    /\ page' = [page EXCEPT ![n] = IF uncleared THEN "stopped" ELSE "passed"]
    /\ UNCHANGED <<host, tables, requests, need, transfer, releasing, retiring, detach, applying,
                   connections, browser>>

PauseLapsed(n) ==
    /\ Undecided(n) /\ lapsed
    /\ page' = [page EXCEPT ![n] = "lapsed"]
    /\ StartDetach(n, AnyUse, NoChannel)
    /\ UNCHANGED <<host, tables, requests, need, releasing, applying, connections, browser>>

Join(n) ==
    /\ Undecided(n) /\ ~lapsed /\ Raised # {}
    /\ page' = [page EXCEPT ![n] = "joined"]
    /\ UNCHANGED <<host, tables, requests, need, transfer, releasing, retiring, detach, applying,
                   connections, browser>>

(* Mutant: every document raises a need of its own.                        *)
RaiseNeedEach(n) ==
    /\ Undecided(n) /\ ~lapsed
    /\ page' = [page EXCEPT ![n] = "held"]
    /\ need' = [need EXCEPT ![n] = [NoNeed EXCEPT !.channel = channel,
                                    !.generation = generation, !.expected = held]]
    /\ UNCHANGED <<host, tables, requests, transfer, releasing, retiring, detach, applying,
                   connections, browser>>

RaiseNeed(n) ==
    /\ Undecided(n) /\ ~lapsed /\ Raised = {}
    /\ page' = [page EXCEPT ![n] = "held"]
    /\ need' = [need EXCEPT ![n] = [NoNeed EXCEPT !.channel = channel,
                                    !.generation = generation, !.expected = held]]
    /\ UNCHANGED <<host, tables, requests, transfer, releasing, retiring, detach, applying,
                   connections, browser>>

(* A document that waits on need n navigates away: its generation moves,   *)
(* which matters while a transfer may begin or is current.                 *)
Move(n) ==
    /\ Held(n) /\ ~need[n].moved /\ (Exists(n) => Current(n))
    /\ need' = [need EXCEPT ![n].moved = TRUE]
    /\ UNCHANGED <<host, tables, requests, page, transfer, releasing, retiring, detach, applying,
                   connections, browser>>

(* Two seconds passed and the host did not begin to answer.                *)
Timeout(n) ==
    /\ Held(n) /\ ~need[n].admitted /\ ~need[n].expired
    /\ need' = [need EXCEPT ![n].expired = TRUE]
    /\ releasing' = releasing \cup {n}
    /\ UNCHANGED <<host, tables, requests, page, transfer, retiring, detach, applying,
                   connections, browser>>

(* The host has nothing to attach: Refuse.                                 *)
Refuse(n) ==
    /\ Held(n) /\ channel = need[n].channel /\ host[need[n].channel] = "live"
    /\ releasing' = releasing \cup {n}
    /\ UNCHANGED <<host, tables, requests, pauses, transfer, retiring, detach, applying,
                   connections, browser>>

-----------------------------------------------------------------------------
(* Transfers: the host begins one for a need, sends it and finishes it.    *)

(* Mutant: the transfer has no watch of its own.                           *)
BeginUnwatched(n) ==
    /\ Held(n) /\ ~need[n].admitted /\ ~need[n].expired /\ ~need[n].moved
    /\ channel = need[n].channel /\ host[need[n].channel] = "live"
    /\ generation = need[n].generation
    /\ offered /\ ~lapsed /\ ~uncleared
    /\ need' = [need EXCEPT ![n].admitted = TRUE]
    /\ transfer' = [transfer EXCEPT ![n] =
           [NoTransfer EXCEPT !.at = "loading", !.channel = channel,
                              !.generation = generation, !.expected = held]]
    /\ UNCHANGED <<host, tables, requests, page, releasing, retiring, detach, applying,
                   connections, browser>>

Begin(n) ==
    /\ Held(n) /\ ~need[n].admitted /\ ~need[n].expired /\ ~need[n].moved
    /\ channel = need[n].channel /\ host[need[n].channel] = "live"
    /\ generation = need[n].generation
    /\ offered /\ ~lapsed /\ ~uncleared
    /\ need' = [need EXCEPT ![n].admitted = TRUE]
    /\ transfer' = [transfer EXCEPT ![n] =
           [NoTransfer EXCEPT !.at = "loading", !.channel = channel, !.watched = TRUE,
                              !.generation = generation, !.expected = held]]
    /\ UNCHANGED <<host, tables, requests, page, releasing, retiring, detach, applying,
                   connections, browser>>

(* Every part arrived and the digest is right: a job applies the state.    *)
Finish(n) ==
    /\ transfer[n].at = "loading" /\ Current(n)
    /\ transfer' = [transfer EXCEPT ![n].at = "queued"]
    /\ UNCHANGED <<host, tables, requests, pauses, releasing, retiring, detach, applying,
                   connections, browser>>

(* The deadline passed, or eight seconds without a part, of a transfer     *)
(* that nothing else ended before.                                         *)
Late(n) ==
    /\ Current(n)
    /\ transfer' = [transfer EXCEPT ![n].late = TRUE]
    /\ UNCHANGED <<host, tables, requests, pauses, releasing, retiring, detach, applying,
                   connections, browser>>

(* The host closes it, or its bytes were not the announced ones.           *)
Close(n) ==
    /\ Exists(n) /\ host[transfer[n].channel] = "live"
    /\ Retire({n})
    /\ UNCHANGED <<host, tables, requests, pauses, releasing, detach, applying, connections,
                   browser>>

(* watch_transfer: found not current, it is retired, and the watch ends.   *)
Watch(n) ==
    /\ transfer[n].watched /\ ~Current(n)
    /\ transfer' = [Cancelled({n}) EXCEPT ![n].watched = FALSE]
    /\ retiring' = Retirements({n})
    /\ UNCHANGED <<host, tables, requests, pauses, releasing, detach, applying, connections,
                   browser>>

-----------------------------------------------------------------------------
(* The job that applies a finished transfer, under `effects`.              *)

(* settled.complete(clean), the effect is over and the transfer retires.   *)
Settle(n, clean) ==
    /\ applying' = NoUse
    /\ transfer' = [Cancelled({n}) EXCEPT ![n].at = IF clean THEN "clean" ELSE "unclean"]
    /\ retiring' = Retirements({n})

(* Nothing was written: no longer current, or the documents did not freeze *)
(* and resume.                                                             *)
ApplyRefused(n) ==
    /\ transfer[n].at = "queued" /\ Free
    /\ \/ Settle(n, TRUE) /\ UNCHANGED browser
       \/ /\ Current(n) /\ Settle(n, FALSE)
          /\ uncleared' = TRUE /\ frozen' \in {frozen, "transfer"} /\ UNCHANGED data
    /\ UNCHANGED <<host, tables, requests, pauses, releasing, detach, connections>>

ApplyFreezes(n) ==
    /\ transfer[n].at = "queued" /\ Free /\ Current(n)
    /\ applying' = n
    /\ transfer' = [transfer EXCEPT ![n].at = "frozen"]
    /\ frozen' = "transfer"
    /\ UNCHANGED <<host, tables, requests, pauses, releasing, retiring, detach, connections,
                   uncleared, data>>

(* The state is written: wholly, in part, or with the importer left open.  *)
ApplyImports(n) ==
    /\ applying = n /\ transfer[n].at = "frozen" /\ Current(n)
    /\ \/ /\ transfer' = [transfer EXCEPT ![n].at = "imported"]
          /\ data' = data \cup {n}
          /\ UNCHANGED <<applying, retiring, uncleared>>
       \/ /\ transfer' = [transfer EXCEPT ![n].at = "failed"]
          /\ data' \in {data, data \cup {n}}
          /\ UNCHANGED <<applying, retiring, uncleared>>
       \/ /\ Settle(n, FALSE) /\ uncleared' = TRUE
          /\ data' = data \cup {n}
    /\ UNCHANGED <<host, tables, requests, pauses, releasing, detach, connections, frozen>>

(* Not current any more before anything was written: resume and leave.     *)
ApplyAbandons(n) ==
    /\ applying = n /\ transfer[n].at = "frozen" /\ ~Current(n)
    /\ \/ Settle(n, TRUE) /\ frozen' = "no" /\ UNCHANGED <<uncleared, data>>
       \/ Settle(n, FALSE) /\ LeaveUncleared
    /\ UNCHANGED <<host, tables, requests, pauses, releasing, detach, connections>>

ApplyResumes(n) ==
    /\ applying = n /\ transfer[n].at = "imported"
    /\ \/ /\ Current(n)
          /\ transfer' = [transfer EXCEPT ![n].at = "resumed"]
          /\ frozen' = "no"
          /\ UNCHANGED <<applying, retiring, uncleared, data>>
       \/ Current(n) /\ Settle(n, FALSE) /\ LeaveUncleared
       \/ /\ ~Current(n)
          /\ transfer' = [transfer EXCEPT ![n].at = "failed"]
          /\ UNCHANGED <<applying, retiring, browser>>
    /\ UNCHANGED <<host, tables, requests, pauses, releasing, detach, connections>>

(* Still current: the use is held, and the documents of its need proceed.  *)
ApplyCommits(n) ==
    /\ applying = n /\ transfer[n].at = "resumed" /\ Current(n)
    /\ transfer' = [transfer EXCEPT ![n] = NoTransfer]
    /\ resolved' = TRUE /\ held' = n
    /\ Answer({n}, TRUE)
    /\ applying' = NoUse
    /\ UNCHANGED <<host, channel, offered, generation, lapsed, requests, releasing, retiring,
                   detach, connections, browser>>

(* Mutant: a job that is no longer current leaves what it wrote.           *)
ApplyUndoesNothing(n) ==
    /\ applying = n
    /\ transfer[n].at = "failed" \/ (transfer[n].at = "resumed" /\ ~Current(n))
    /\ Settle(n, TRUE)
    /\ UNCHANGED <<host, tables, requests, pauses, releasing, detach, connections, browser>>

(* What was written, wholly or in part, is cleared again.                  *)
ApplyUndoes(n) ==
    /\ applying = n
    /\ transfer[n].at = "failed" \/ (transfer[n].at = "resumed" /\ ~Current(n))
    /\ \/ ClearSite /\ Settle(n, TRUE)
       \/ LeaveUncleared /\ Settle(n, FALSE)
    /\ UNCHANGED <<host, tables, requests, pauses, releasing, detach, connections>>

-----------------------------------------------------------------------------
(* retire_transfer's job, after the cancellation.                          *)

(* It waits for the applying job; an unclean one keeps entry and pause.    *)
RetireReleases(n) ==
    /\ retiring[n] = "waiting"
    /\ \/ /\ transfer[n].at \in {"none", "unclean"}
          /\ retiring' = [retiring EXCEPT ![n] = "no"]
          /\ UNCHANGED releasing
       \/ /\ transfer[n].at \in {"loading", "clean"}
          /\ retiring' = [retiring EXCEPT ![n] = "releasing"]
          /\ releasing' = releasing \cup {n}
    /\ UNCHANGED <<host, tables, requests, pauses, transfer, detach, applying, connections,
                   browser>>

(* The entry goes with its need; a need that could not be released stays.  *)
RetireEnds(n) ==
    /\ retiring[n] = "releasing" /\ n \notin releasing
    /\ retiring' = [retiring EXCEPT ![n] = "no"]
    /\ transfer' = IF Held(n) THEN transfer ELSE [transfer EXCEPT ![n] = NoTransfer]
    /\ UNCHANGED <<host, tables, requests, pauses, releasing, detach, applying, connections,
                   browser>>

-----------------------------------------------------------------------------
(* release_pending: a need ends without an attach.                         *)

(* Nothing to release, an unsettled profile, or a use that replaced the    *)
(* one the need was raised under: its document stops, nothing is erased.   *)
ReleaseReturns(n) ==
    /\ n \in releasing
    /\ releasing' = releasing \ {n}
    /\ \/ ~Held(n) /\ UNCHANGED pauses
       \/ Held(n) /\ Free /\ uncleared /\ UNCHANGED pauses
       \/ Held(n) /\ Free /\ ~uncleared /\ held # need[n].expected /\ Answer({n}, FALSE)
    /\ UNCHANGED <<host, tables, requests, transfer, retiring, detach, applying, connections,
                   browser>>

(* Mutant: a need is released without waiting for `effects`.               *)
ReleaseClearsAnyTime(n) ==
    /\ n \in releasing /\ Held(n) /\ ~uncleared
    /\ held = need[n].expected
    /\ releasing' = releasing \ {n}
    /\ IF held # NoUse THEN ClearSite ELSE UNCHANGED browser
    /\ held' = NoUse /\ resolved' = TRUE
    /\ Answer({n}, held = NoUse)
    /\ UNCHANGED <<host, channel, offered, generation, lapsed, requests, transfer, retiring,
                   detach, connections, applying>>

(* Under `effects`: with state held, the site is cleared and the document  *)
(* stops; without, it proceeds.                                            *)
ReleaseClears(n) ==
    /\ n \in releasing /\ Held(n) /\ Free /\ ~uncleared
    /\ held = need[n].expected
    /\ releasing' = releasing \ {n}
    /\ \/ /\ IF held # NoUse THEN ClearSite ELSE UNCHANGED browser
          /\ held' = NoUse /\ resolved' = TRUE
          /\ Answer({n}, held = NoUse)
       \/ held # NoUse /\ LeaveUncleared /\ UNCHANGED <<held, resolved, pauses>>
    /\ UNCHANGED <<host, channel, offered, generation, lapsed, requests, transfer, retiring,
                   detach, connections, applying>>

-----------------------------------------------------------------------------
(* Capture, recovery and a new connection to the browser.                  *)

(* A capture, for an Export or as a transfer, freezes the documents, reads *)
(* them and resumes them under `effects`, and writes no table.             *)
Export ==
    /\ Free /\ ~uncleared /\ \E c \in Channels : host[c] = "live"
    /\ \/ uncleared' \in BOOLEAN /\ frozen' = "no"      \* read, or a transfer could not
       \/ uncleared' = TRUE /\ frozen' = "capture"      \* read, not resumed
       \* Not frozen, or in part and not resumed: only a transfer marks it.
       \/ uncleared' \in BOOLEAN /\ frozen' \in {frozen, "capture"}
    /\ UNCHANGED <<host, tables, requests, pauses, transfer, releasing, retiring, detach,
                   connections, data, applying>>

(* recover_cleanup, before an offer or a command, while a finished         *)
(* transfer waits to be applied: it is cancelled, with the settled ones    *)
(* met before it, and the profile stays uncleared.                         *)
RecoverWaits(n) ==
    /\ uncleared /\ Free /\ transfer[n].at = "queued"
    /\ ClearSite
    /\ \E met \in SUBSET {m \in Transferring : transfer[m].at # "queued"} :
           transfer' = [m \in Needs |->
               IF m \in met /\ transfer[m].at = "unclean"
               THEN [transfer[m] EXCEPT !.cancelled = TRUE, !.at = "clean"]
               ELSE Cancelled(met \cup {n})[m]]
    /\ UNCHANGED <<host, tables, requests, pauses, releasing, retiring, detach, connections,
                   applying>>

(* The site is clear: nothing is held, no transfer remains, pages proceed. *)
RecoverClears ==
    /\ uncleared /\ Free /\ \A n \in Needs : transfer[n].at # "queued"
    /\ data' = {} /\ frozen' = "no" /\ uncleared' = FALSE
    /\ transfer' = [n \in Needs |-> NoTransfer]
    /\ held' = NoUse /\ offered' = FALSE /\ resolved' = TRUE
    /\ Answer(Raised, TRUE)
    /\ UNCHANGED <<host, channel, generation, lapsed, requests, releasing, retiring, detach,
                   connections, applying>>

(* browser_ready with a new client of the same profile: the transfers of   *)
(* the old client are stale, and no document passes without a need.        *)
Reconnect ==
    /\ connections < MaxConnections /\ ~uncleared
    /\ connections' = connections + 1
    /\ resolved' = FALSE
    /\ Retire(Transferring)
    /\ UNCHANGED <<host, channel, offered, generation, lapsed, held, requests, pauses,
                   releasing, detach, applying, browser>>

-----------------------------------------------------------------------------
ChannelNext(c) ==
    \/ Open(c) \/ Stop(c) \/ ChannelClosed(c) \/ EndRetires(c) \/ EndReleases(c) \/ Ended(c)
    \/ OfferBegins(c, FALSE, NoUse)
    \/ \E use \in {NoUse} \cup Needs : OfferBegins(c, TRUE, use)
    \/ OfferReleases(c) \/ OfferDiscards(c) \/ OfferDiscarded(c) \/ OfferCommits(c)
    \/ \E use \in {AnyUse, NoUse} \cup Needs : HostDetaches(c, use)

PageNext(n) ==
    \/ PassOrStop(n) \/ PauseLapsed(n) \/ Join(n) \/ RaiseNeed(n) \/ Move(n)
    \/ Timeout(n) \/ Refuse(n) \/ Begin(n) \/ Finish(n) \/ Late(n) \/ Close(n) \/ Watch(n)

Applies(n) ==
    \/ ApplyRefused(n) \/ ApplyFreezes(n) \/ ApplyImports(n) \/ ApplyAbandons(n)
    \/ ApplyResumes(n) \/ ApplyCommits(n) \/ ApplyUndoes(n)

JobNext(n) ==
    Applies(n) \/ RetireReleases(n) \/ RetireEnds(n)
    \/ ReleaseReturns(n) \/ ReleaseClears(n)

Detaches(w) == DetachRefused(w) \/ DetachClears(w)
Recovers == RecoverClears \/ \E n \in Needs : RecoverWaits(n)

Next ==
    \/ \E c \in Channels : ChannelNext(c)
    \/ \E n \in Needs : PageNext(n) \/ JobNext(n)
    \/ \E w \in Detachers : Detaches(w)
    \/ Expiry \/ Lapse \/ Export \/ Recovers \/ Reconnect

Spec == Init /\ [][Next]_vars

-----------------------------------------------------------------------------
Uses == Needs \cup {NoUse}
Generations == 0 .. MaxOffers
HostStages == {"new", "live", "stopped", "closed", "retiring", "releasing", "ended"}
OfferStages == {"idle", "retiring", "releasing", "discarding", "committing"}
TransferStages == {"none", "loading", "queued", "frozen", "imported", "resumed", "failed",
                   "clean", "unclean"}

(* Type invariant, with the shape of the pending table: an entry for each  *)
(* document that raised a need, and one for the site at a time.            *)
TypeOK ==
    /\ host \in [Channels -> HostStages]
    /\ channel \in Channels \cup {NoChannel}
    /\ generation \in Generations
    /\ {offered, lapsed, resolved, uncleared} \subseteq BOOLEAN
    /\ frozen \in {"no", "transfer", "capture"}
    /\ held \in Uses /\ data \in SUBSET Needs
    /\ offering \in [Channels -> [at : OfferStages, keeps : Uses, lists : BOOLEAN,
                                  generation : Generations]]
    /\ awaits \in [Channels -> SUBSET Needs]
    /\ page \in [Needs -> {"new", "held", "joined", "lapsed", "passed", "stopped"}]
    /\ need \in [Needs -> [channel : Channels \cup {NoChannel}, generation : Generations,
                           expected : Uses, admitted : BOOLEAN, expired : BOOLEAN,
                           moved : BOOLEAN]]
    /\ transfer \in [Needs -> [at : TransferStages, channel : Channels \cup {NoChannel},
                               generation : Generations, expected : Uses,
                               cancelled : BOOLEAN, late : BOOLEAN, watched : BOOLEAN]]
    /\ releasing \in SUBSET Needs
    /\ retiring \in [Needs -> {"no", "waiting", "releasing"}]
    /\ detach \in [Detachers -> [at : {"idle", "retiring", "clearing", "done", "failed"},
                                 expected : Uses \cup {AnyUse},
                                 channel : Channels \cup {NoChannel},
                                 awaits : SUBSET Needs]]
    /\ applying \in Uses
    /\ connections \in 0 .. MaxConnections
    /\ \A n \in Needs : Held(n) <=> need[n] # NoNeed
    /\ \A m, n \in Raised : m = n

(* Whenever no job is at work on the browser and the profile is not marked *)
(* uncleared, it stores nothing of the site unless a use is held, and no   *)
(* document is stopped by an import: no import, failure or late            *)
(* cancellation leaves state or a page it froze behind.                    *)
NothingIsLeftBehind ==
    Free /\ ~uncleared => frozen # "transfer" /\ (held = NoUse => data = {})

(* A held use ends or is replaced only by a job that expected that use, by *)
(* a detach of whatever is held, or by a recovery: a stale need, receipt   *)
(* or timer never erases the use that replaced the one it was about.       *)
ErasedByName ==
    [][held # NoUse /\ held' # held =>
        \/ uncleared
        \/ \E n \in Needs :
               n \in releasing \ releasing' /\ Held(n) /\ ~Held(n)' /\ need[n].expected = held
        \/ held' \in Needs /\ transfer[held'].expected = held
        \/ \E w \in Detachers : /\ detach[w].at = "retiring" /\ detach'[w].at # "retiring"
                                /\ detach[w].expected \in {held, AnyUse}]_vars

(* A paused document proceeds with the use that answered its need, or      *)
(* without any state of the site, on a profile that is clear and once the  *)
(* documents an import stopped run again.                                  *)
ProceedsSettled ==
    [][\A n \in Needs :
        Held(n) /\ page'[n] = "passed" =>
            /\ frozen' # "transfer" /\ ~uncleared' /\ held' \in {n, NoUse}
            /\ held' = NoUse => data' = {}]_vars

(* Unless the profile is marked uncleared, a paused document has somebody  *)
(* who will answer it: a release at work, the job that applies or retires  *)
(* its transfer, the watch on it, or the timer of its two seconds.         *)
PausesHaveAnAnswerer ==
    \A n \in Needs : Held(n) /\ ~uncleared =>
        \/ n \in releasing
        \/ retiring[n] # "no"
        \/ transfer[n].at \in {"queued", "frozen", "imported", "resumed", "failed"}
        \/ transfer[n].watched
        \/ ~need[n].admitted /\ ~need[n].expired
=============================================================================
