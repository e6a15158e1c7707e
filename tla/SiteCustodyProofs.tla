------------------------- MODULE SiteCustodyProofs --------------------------
(***************************************************************************)
(* Proofs about the custody of a site's saved state, for every set of      *)
(* channels and paused documents and every number of offers and            *)
(* connections.                                                            *)
(***************************************************************************)
EXTENDS SiteCustody, TLAPS

-----------------------------------------------------------------------------
(* The type invariant, by the parts of the state.                          *)

Transfer == [at : TransferStages, channel : Channels \cup {NoChannel},
             generation : Generations, expected : Uses,
             cancelled : BOOLEAN, late : BOOLEAN, watched : BOOLEAN]
Need == [channel : Channels \cup {NoChannel}, generation : Generations, expected : Uses,
         admitted : BOOLEAN, expired : BOOLEAN, moved : BOOLEAN]
Offering == [at : OfferStages, keeps : Uses, lists : BOOLEAN, generation : Generations]
Detach == [at : {"idle", "retiring", "clearing", "done", "failed"},
           expected : Uses \cup {AnyUse}, channel : Channels \cup {NoChannel},
           awaits : SUBSET Needs]
PageStages == {"new", "held", "joined", "lapsed", "passed", "stopped"}

TablesTyped ==
    /\ channel \in Channels \cup {NoChannel}
    /\ generation \in Generations
    /\ offered \in BOOLEAN /\ lapsed \in BOOLEAN /\ resolved \in BOOLEAN
    /\ held \in Uses
    /\ connections \in 0 .. MaxConnections
    /\ applying \in Uses
    /\ uncleared \in BOOLEAN /\ data \in SUBSET Needs
    /\ frozen \in {"no", "transfer", "capture"}

RequestsTyped ==
    /\ host \in [Channels -> HostStages]
    /\ offering \in [Channels -> Offering]
    /\ awaits \in [Channels -> SUBSET Needs]
    /\ detach \in [Detachers -> Detach]

TransfersTyped ==
    /\ transfer \in [Needs -> Transfer]
    /\ retiring \in [Needs -> {"no", "waiting", "releasing"}]
    /\ releasing \in SUBSET Needs

PagesTyped ==
    /\ page \in [Needs -> PageStages]
    /\ need \in [Needs -> Need]
    /\ \A n \in Needs : Held(n) <=> need[n] # NoNeed
    /\ \A m, n \in Raised : m = n

Typed == TablesTyped /\ RequestsTyped /\ TransfersTyped /\ PagesTyped

LEMMA TypedIsTypeOK == Typed <=> TypeOK
BY DEF Typed, TablesTyped, RequestsTyped, TransfersTyped, PagesTyped, TypeOK, Transfer, Need,
       Offering, Detach, PageStages

(* What is needed of the documents: only a channel has an offer, a page    *)
(* that detaches waits for that alone, and a need has its transfer from    *)
(* its admission until it is answered.                                     *)
Pausing ==
    /\ offered => channel \in Channels
    /\ \A n \in Needs : detach[n].at # "idle" => page[n] = "lapsed"
    /\ \A n \in Needs : page[n] = "new" => ~Exists(n) /\ retiring[n] = "no"
    /\ \A n \in Needs : Held(n) /\ ~need[n].admitted => ~Exists(n)

(* What is needed of the jobs: an unclean transfer marks the profile, a    *)
(* watch has its transfer, and a retirement leaves alone what is applied   *)
(* and waits for its release.                                              *)
Retiring(n) ==
    /\ transfer[n].at = "unclean" => uncleared
    /\ transfer[n].watched => Exists(n)
    /\ retiring[n] # "no" /\ Held(n) => Exists(n)
    /\ retiring[n] # "no" /\ transfer[n].at = "loading" => transfer[n].cancelled
    /\ retiring[n] = "releasing" =>
          /\ transfer[n].at \in {"none", "loading", "clean"}
          /\ Held(n) /\ ~uncleared => n \in releasing

(* What the job that holds `effects` may rely on until its next step.      *)
Applying ==
    ~Free =>
        /\ ~uncleared
        /\ transfer[applying].at \in {"frozen", "imported", "resumed", "failed"}
        /\ transfer[applying].at = "frozen" /\ held = NoUse => data = {}
        /\ transfer[applying].at = "resumed" => frozen # "transfer"

-----------------------------------------------------------------------------
(* The operators the steps are made of.                                    *)

LEMMA CancelledKeeps ==
    ASSUME transfer \in [Needs -> Transfer], NEW N, NEW t, t = Cancelled(N)
    PROVE  /\ t \in [Needs -> Transfer]
           /\ \A n \in Needs : /\ t[n].at = transfer[n].at
                               /\ t[n].watched = transfer[n].watched
                               /\ n \in N => t[n].cancelled
                               /\ transfer[n].cancelled => t[n].cancelled
                               /\ n \notin N => t[n] = transfer[n]
BY DEF Cancelled, Transfer

LEMMA RetirementsKeep ==
    ASSUME retiring \in [Needs -> {"no", "waiting", "releasing"}], NEW N, NEW r,
           r = Retirements(N)
    PROVE  /\ r \in [Needs -> {"no", "waiting", "releasing"}]
           /\ \A n \in Needs : /\ n \in N => r[n] # "no"
                               /\ n \notin N => r[n] = retiring[n]
                               /\ retiring[n] # "no" => r[n] = retiring[n]
                               /\ r[n] = "releasing" => retiring[n] = "releasing"
BY DEF Retirements

LEMMA AnsweredKeeps ==
    ASSUME page \in [Needs -> PageStages], NEW N, NEW ok \in BOOLEAN, NEW p,
           p = Answered(N, ok)
    PROVE  /\ p \in [Needs -> PageStages]
           /\ \A n \in Needs : /\ n \in N => p[n] = Fate(ok)
                               /\ p[n] = page[n] \/ (p[n] = Fate(ok) /\ (n \in N \/ page[n] = "joined"))
BY DEF Answered, Fate, PageStages

LEMMA FateIsAnAnswer == \A ok \in BOOLEAN : Fate(ok) = IF ok THEN "passed" ELSE "stopped"
BY DEF Fate

LEMMA RemovedKeeps ==
    ASSUME need \in [Needs -> Need], NEW N, NEW d, d = Removed(N)
    PROVE  /\ d \in [Needs -> Need]
           /\ \A n \in Needs : d[n] = IF n \in N THEN NoNeed ELSE need[n]
BY BoundsAssumption DEF Removed, Need, NoNeed, Generations, Uses

LEMMA BlanksAreTyped ==
    /\ NoNeed \in Need /\ NoTransfer \in Transfer /\ NoOffer \in Offering /\ NoDetach \in Detach
BY BoundsAssumption DEF NoNeed, NoTransfer, NoOffer, NoDetach, Need, Transfer, Offering, Detach,
   Generations, Uses, TransferStages, OfferStages

LEMMA InitTyped == Init => Typed
<1> SUFFICES ASSUME Init PROVE Typed
  OBVIOUS
<1>1. TablesTyped
  <2>1. 0 \in Generations /\ 0 \in 0 .. MaxConnections
    BY BoundsAssumption DEF Generations
  <2>2. /\ channel = NoChannel /\ generation = 0 /\ held = NoUse /\ connections = 0
        /\ offered = FALSE /\ lapsed = FALSE /\ resolved = FALSE /\ applying = NoUse
        /\ uncleared = FALSE /\ data = {} /\ frozen = "no"
    BY DEF Init
  <2> QED
    BY <2>1, <2>2 DEF TablesTyped, Uses
<1>2. RequestsTyped
  BY BlanksAreTyped DEF Init, RequestsTyped, HostStages
<1>3. TransfersTyped
  BY BlanksAreTyped DEF Init, TransfersTyped
<1>4. PagesTyped
  BY BlanksAreTyped DEF Init, PagesTyped, PageStages, Held, Raised
<1> QED
  BY <1>1, <1>2, <1>3, <1>4 DEF Typed

-----------------------------------------------------------------------------
(* The types survive every step.                                           *)

LEMMA TablesStayTyped == Typed /\ [Next]_vars => TablesTyped'
<1> SUFFICES ASSUME Typed, [Next]_vars PROVE TablesTyped'
  OBVIOUS
<1> USE DEF tables
<1>0. TablesTyped
  BY DEF Typed
<1>1. ASSUME UNCHANGED <<tables, connections, applying, browser>>
      PROVE  TablesTyped'
  BY <1>0, <1>1 DEF TablesTyped, browser
<1>2. ASSUME NEW c \in Channels, ChannelNext(c)
      PROVE  TablesTyped'
  <2>1. CASE ChannelClosed(c) \/ Ended(c) \/ OfferCommits(c)
    BY <1>0, <2>1 DEF TablesTyped, ChannelClosed, Ended, OfferCommits, browser, Typed, RequestsTyped, Offering
  <2>2. ASSUME NEW l, NEW k, OfferBegins(c, l, k)
        PROVE  TablesTyped'
    BY <1>0, <2>2, BoundsAssumption DEF TablesTyped, OfferBegins, browser, Generations
  <2>3. CASE Open(c) \/ Stop(c) \/ EndRetires(c) \/ EndReleases(c) \/ OfferReleases(c)
             \/ OfferDiscards(c) \/ OfferDiscarded(c)
    BY <1>1, <2>3 DEF Open, Stop, EndRetires, EndReleases, OfferReleases, OfferDiscards, OfferDiscarded
  <2>4. ASSUME NEW u, HostDetaches(c, u)
        PROVE  TablesTyped'
    BY <1>1, <2>4 DEF HostDetaches
  <2> QED
    BY <1>2, <2>1, <2>2, <2>3, <2>4 DEF ChannelNext
<1>3. ASSUME NEW n \in Needs, PageNext(n)
      PROVE  TablesTyped'
  BY <1>1, <1>3 DEF PageNext, PassOrStop, PauseLapsed, Join, RaiseNeed, Move, Timeout, Refuse,
     Begin, Finish, Late, Close, Watch
<1>4. ASSUME NEW n \in Needs, JobNext(n)
      PROVE  TablesTyped'
  <2>1. CASE Applies(n)
    BY <1>0, <2>1 DEF TablesTyped, Applies, ApplyRefused, ApplyFreezes, ApplyImports, ApplyAbandons,
       ApplyResumes, ApplyCommits, ApplyUndoes, Settle, LeaveUncleared, ClearSite, browser, Uses
  <2>2. CASE RetireReleases(n) \/ RetireEnds(n) \/ ReleaseReturns(n)
    BY <1>1, <2>2 DEF RetireReleases, RetireEnds, ReleaseReturns
  <2>3. CASE ReleaseClears(n)
    BY <1>0, <2>3 DEF TablesTyped, ReleaseClears, LeaveUncleared, ClearSite, browser, Uses
  <2> QED
    BY <1>4, <2>1, <2>2, <2>3 DEF JobNext
<1>5. ASSUME NEW w \in Detachers, Detaches(w)
      PROVE  TablesTyped'
  BY <1>0, <1>5 DEF TablesTyped, Detaches, DetachRefused, DetachClears, LeaveUncleared, ClearSite,
     browser, Uses
<1>6. CASE Expiry \/ Lapse \/ Export \/ Recovers \/ Reconnect
  <2>1. CASE Expiry
    BY <1>1, <2>1 DEF Expiry
  <2>2. CASE Lapse \/ Export
    BY <1>0, <2>2 DEF TablesTyped, Lapse, Export, browser
  <2>3. CASE RecoverClears
    BY <1>0, <2>3 DEF TablesTyped, RecoverClears, Uses
  <2>4. ASSUME NEW n \in Needs, RecoverWaits(n)
        PROVE  TablesTyped'
    BY <1>0, <2>4 DEF TablesTyped, RecoverWaits, ClearSite
  <2>5. CASE Reconnect
    <3>1. connections' \in 0 .. MaxConnections
      BY <1>0, <2>5, BoundsAssumption DEF TablesTyped, Reconnect
    <3> QED
      BY <1>0, <2>5, <3>1 DEF TablesTyped, Reconnect, browser
  <2> QED
    BY <1>6, <2>1, <2>2, <2>3, <2>4, <2>5 DEF Recovers
<1>7. CASE UNCHANGED vars
  BY <1>1, <1>7 DEF vars
<1> QED
  BY <1>2, <1>3, <1>4, <1>5, <1>6, <1>7 DEF Next

LEMMA RequestsStayTyped == Typed /\ [Next]_vars => RequestsTyped'
<1> SUFFICES ASSUME Typed, [Next]_vars PROVE RequestsTyped'
  OBVIOUS
<1> USE DEF requests
<1>0. TablesTyped /\ RequestsTyped
  BY DEF Typed
<1>1. Transferring \subseteq Needs /\ Raised \subseteq Needs
  BY DEF Transferring, Raised
<1>2. ASSUME UNCHANGED <<host, requests, detach>>
      PROVE  RequestsTyped'
  BY <1>0, <1>2 DEF RequestsTyped
<1>3. ASSUME NEW w \in Detachers, NEW use \in Uses \cup {AnyUse}, NEW c \in Channels \cup {NoChannel},
             StartDetach(w, use, c)
      PROVE  detach' \in [Detachers -> Detach]
  <2>1. DetachJob(use, c) \in Detach
    BY <1>1, <1>3 DEF DetachJob, Detach
  <2> QED
    BY <1>0, <1>3, <2>1 DEF RequestsTyped, StartDetach
<1>4. ASSUME NEW w \in Detachers, NEW ok \in BOOLEAN, Detached(w, ok)
      PROVE  detach' \in [Detachers -> Detach]
  <2>1. NoDetach \in Detach /\ [NoDetach EXCEPT !.at = IF ok THEN "done" ELSE "failed"] \in Detach
    BY BlanksAreTyped DEF Detach
  <2> QED
    BY <1>0, <1>4, <2>1 DEF RequestsTyped, Detached
<1>5. ASSUME NEW c \in Channels, ChannelNext(c)
      PROVE  RequestsTyped'
  <2>0. c \in Detachers
    BY DEF Detachers
  <2>1. CASE Open(c) \/ Stop(c) \/ ChannelClosed(c) \/ EndRetires(c) \/ EndReleases(c) \/ Ended(c)
    BY <1>0, <1>1, <2>1 DEF RequestsTyped, Open, Stop, ChannelClosed, EndRetires, EndReleases,
       Ended, HostStages
  <2>2. ASSUME NEW l \in BOOLEAN, NEW k \in Uses, OfferBegins(c, l, k)
        PROVE  RequestsTyped'
    <3>1. generation + 1 \in Generations
      BY <1>0, <2>2, BoundsAssumption DEF TablesTyped, OfferBegins, Generations
    <3>2. [at |-> "retiring", keeps |-> k, lists |-> l, generation |-> generation + 1] \in Offering
      BY <3>1 DEF Offering, OfferStages
    <3> QED
      BY <1>0, <1>1, <2>2, <3>2 DEF RequestsTyped, OfferBegins
  <2>3. CASE OfferReleases(c) \/ OfferCommits(c)
    BY <1>0, <1>1, <2>3, BlanksAreTyped DEF RequestsTyped, OfferReleases, OfferCommits, Offering,
       OfferStages
  <2>4. CASE OfferDiscards(c)
    <3>1. detach' \in [Detachers -> Detach]
      BY <1>0, <1>3, <2>0, <2>4 DEF OfferDiscards, TablesTyped, RequestsTyped
    <3> QED
      BY <1>0, <2>4, <3>1 DEF RequestsTyped, OfferDiscards, Offering, OfferStages
  <2>5. CASE OfferDiscarded(c)
    BY <1>0, <2>0, <2>5, BlanksAreTyped DEF RequestsTyped, OfferDiscarded, Offering, OfferStages
  <2>6. ASSUME NEW u \in Uses \cup {AnyUse}, HostDetaches(c, u)
        PROVE  RequestsTyped'
    <3>1. detach' \in [Detachers -> Detach]
      BY <1>3, <2>6 DEF HostDetaches, Detachers
    <3> QED
      BY <1>0, <2>6, <3>1 DEF RequestsTyped, HostDetaches
  <2> QED
    BY <1>5, <2>1, <2>2, <2>3, <2>4, <2>5, <2>6 DEF ChannelNext, Uses
<1>6. ASSUME NEW n \in Needs, PageNext(n)
      PROVE  RequestsTyped'
  <2>1. CASE PauseLapsed(n)
    <3>1. detach' \in [Detachers -> Detach]
      BY <1>3, <2>1 DEF PauseLapsed, Detachers
    <3> QED
      BY <1>0, <2>1, <3>1 DEF RequestsTyped, PauseLapsed
  <2> QED
    BY <1>2, <1>6, <2>1 DEF PageNext, PassOrStop, Join, RaiseNeed, Move, Timeout, Refuse,
       Begin, Finish, Late, Close, Watch
<1>7. ASSUME NEW n \in Needs, JobNext(n)
      PROVE  RequestsTyped'
  BY <1>2, <1>7 DEF JobNext, Applies, ApplyRefused, ApplyFreezes, ApplyImports, ApplyAbandons,
     ApplyResumes, ApplyCommits, ApplyUndoes, RetireReleases, RetireEnds, ReleaseReturns, ReleaseClears
<1>8. ASSUME NEW w \in Detachers, Detaches(w)
      PROVE  RequestsTyped'
  <2>1. detach' \in [Detachers -> Detach]
    BY <1>4, <1>8 DEF Detaches, DetachRefused, DetachClears
  <2> QED
    BY <1>0, <1>8, <2>1 DEF RequestsTyped, Detaches, DetachRefused, DetachClears
<1>9. CASE Expiry
  <2>1. detach' \in [Detachers -> Detach]
    BY <1>0, <1>3, <1>9 DEF Expiry, Detachers, TablesTyped
  <2> QED
    BY <1>0, <1>9, <2>1 DEF RequestsTyped, Expiry
<1>10. CASE Lapse \/ Export \/ Recovers \/ Reconnect \/ UNCHANGED vars
  BY <1>2, <1>10 DEF Lapse, Export, Recovers, RecoverClears, RecoverWaits, Reconnect, vars
<1> QED
  BY <1>5, <1>6, <1>7, <1>8, <1>9, <1>10 DEF Next

(* What a retirement does to a transfer, whoever asks for it.              *)
LEMMA RetireKeeps ==
    ASSUME TransfersTyped, NEW N, Retire(N)
    PROVE  /\ transfer' \in [Needs -> Transfer]
           /\ retiring' \in [Needs -> {"no", "waiting", "releasing"}]
           /\ \A n \in Needs : /\ transfer'[n].at = transfer[n].at
                               /\ transfer'[n].watched = transfer[n].watched
                               /\ transfer[n].cancelled => transfer'[n].cancelled
                               /\ n \in N => retiring'[n] # "no" /\ transfer'[n].cancelled
                               /\ n \notin N => retiring'[n] = retiring[n]
                               /\ retiring[n] # "no" => retiring'[n] = retiring[n]
                               /\ retiring'[n] = "releasing" => retiring[n] = "releasing"
BY CancelledKeeps, RetirementsKeep DEF TransfersTyped, Retire

(* What the end of a job does to the transfers.                            *)
LEMMA SettleKeeps ==
    ASSUME TransfersTyped, NEW n \in Needs, NEW clean \in BOOLEAN, Settle(n, clean)
    PROVE  /\ applying' = NoUse
           /\ transfer' \in [Needs -> Transfer]
           /\ retiring' \in [Needs -> {"no", "waiting", "releasing"}]
           /\ transfer'[n].at = IF clean THEN "clean" ELSE "unclean"
           /\ transfer'[n].watched = transfer[n].watched
           /\ retiring'[n] # "no"
           /\ retiring'[n] = "releasing" => retiring[n] = "releasing"
           /\ \A m \in Needs \ {n} : transfer'[m] = transfer[m] /\ retiring'[m] = retiring[m]
<1> DEFINE c == Cancelled({n})
<1>1. /\ c \in [Needs -> Transfer]
      /\ \A m \in Needs : c[m].watched = transfer[m].watched /\ (m # n => c[m] = transfer[m])
  BY CancelledKeeps DEF TransfersTyped
<1>2. transfer' = [c EXCEPT ![n].at = IF clean THEN "clean" ELSE "unclean"] /\ applying' = NoUse
  BY DEF Settle
<1>3. /\ transfer' \in [Needs -> Transfer]
      /\ transfer'[n].at = IF clean THEN "clean" ELSE "unclean"
      /\ transfer'[n].watched = transfer[n].watched
      /\ \A m \in Needs \ {n} : transfer'[m] = transfer[m]
  <2> HIDE DEF c
  <2> QED
    BY <1>1, <1>2 DEF Transfer, TransferStages
<1>4. /\ retiring' \in [Needs -> {"no", "waiting", "releasing"}]
      /\ retiring'[n] # "no"
      /\ retiring'[n] = "releasing" => retiring[n] = "releasing"
      /\ \A m \in Needs \ {n} : retiring'[m] = retiring[m]
  <2>1. retiring' = Retirements({n}) /\ retiring \in [Needs -> {"no", "waiting", "releasing"}]
    BY DEF Settle, TransfersTyped
  <2> QED
    BY <2>1, RetirementsKeep
<1> QED
  BY <1>2, <1>3, <1>4

(* A watch that ends retires its transfer.                                 *)
LEMMA WatchKeeps ==
    ASSUME TransfersTyped, NEW n \in Needs, Watch(n)
    PROVE  /\ transfer' \in [Needs -> Transfer]
           /\ retiring' \in [Needs -> {"no", "waiting", "releasing"}]
           /\ transfer'[n].at = transfer[n].at /\ ~transfer'[n].watched
           /\ transfer'[n].cancelled
           /\ retiring'[n] # "no"
           /\ retiring[n] # "no" => retiring'[n] = retiring[n]
           /\ retiring'[n] = "releasing" => retiring[n] = "releasing"
           /\ \A m \in Needs \ {n} : transfer'[m] = transfer[m] /\ retiring'[m] = retiring[m]
<1> DEFINE c == Cancelled({n})
<1>1. /\ c \in [Needs -> Transfer]
      /\ \A m \in Needs : /\ c[m].at = transfer[m].at /\ (m # n => c[m] = transfer[m])
                          /\ m = n => c[m].cancelled
  BY CancelledKeeps DEF TransfersTyped
<1>2. transfer' = [c EXCEPT ![n].watched = FALSE]
  BY DEF Watch
<1>3. /\ transfer' \in [Needs -> Transfer]
      /\ transfer'[n].at = transfer[n].at /\ ~transfer'[n].watched
      /\ transfer'[n].cancelled
      /\ \A m \in Needs \ {n} : transfer'[m] = transfer[m]
  <2> HIDE DEF c
  <2> QED
    BY <1>1, <1>2 DEF Transfer
<1>4. /\ retiring' \in [Needs -> {"no", "waiting", "releasing"}]
      /\ retiring'[n] # "no"
      /\ retiring[n] # "no" => retiring'[n] = retiring[n]
      /\ retiring'[n] = "releasing" => retiring[n] = "releasing"
      /\ \A m \in Needs \ {n} : retiring'[m] = retiring[m]
  <2>1. retiring' = Retirements({n}) /\ retiring \in [Needs -> {"no", "waiting", "releasing"}]
    BY DEF Watch, TransfersTyped
  <2> QED
    BY <2>1, RetirementsKeep
<1> QED
  BY <1>3, <1>4

(* A recovery that meets a finished transfer cancels it and those before.  *)
LEMMA RecoverKeeps ==
    ASSUME TransfersTyped, NEW n \in Needs, RecoverWaits(n)
    PROVE  /\ transfer' \in [Needs -> Transfer]
           /\ \A m \in Needs : /\ transfer'[m].watched = transfer[m].watched
                               /\ transfer[m].cancelled => transfer'[m].cancelled
                               /\ \/ transfer'[m].at = transfer[m].at
                                  \/ transfer[m].at = "unclean" /\ transfer'[m].at = "clean"
<1>1. PICK met \in SUBSET {m \in Transferring : transfer[m].at # "queued"} :
          transfer' = [m \in Needs |->
              IF m \in met /\ transfer[m].at = "unclean"
              THEN [transfer[m] EXCEPT !.cancelled = TRUE, !.at = "clean"]
              ELSE Cancelled(met \cup {n})[m]]
  BY DEF RecoverWaits
<1> DEFINE c == Cancelled(met \cup {n})
<1>2. /\ c \in [Needs -> Transfer]
      /\ \A m \in Needs : /\ c[m].at = transfer[m].at /\ c[m].watched = transfer[m].watched
                          /\ transfer[m].cancelled => c[m].cancelled
  BY CancelledKeeps DEF TransfersTyped
<1>3. transfer' = [m \in Needs |->
          IF m \in met /\ transfer[m].at = "unclean"
          THEN [transfer[m] EXCEPT !.cancelled = TRUE, !.at = "clean"]
          ELSE c[m]]
  BY <1>1
<1>4. transfer \in [Needs -> Transfer]
  BY DEF TransfersTyped
<1> HIDE DEF c
<1>5. ASSUME NEW m \in Needs
      PROVE  /\ transfer'[m] \in Transfer
             /\ transfer'[m].watched = transfer[m].watched
             /\ transfer[m].cancelled => transfer'[m].cancelled
             /\ \/ transfer'[m].at = transfer[m].at
                \/ transfer[m].at = "unclean" /\ transfer'[m].at = "clean"
  <2>1. CASE m \in met /\ transfer[m].at = "unclean"
    BY <1>3, <1>4, <2>1 DEF Transfer, TransferStages
  <2>2. CASE ~(m \in met /\ transfer[m].at = "unclean")
    BY <1>2, <1>3, <2>2
  <2> QED
    BY <2>1, <2>2
<1> QED
  BY <1>3, <1>5

LEMMA TransfersStayTyped == Typed /\ [Next]_vars => TransfersTyped'
<1> SUFFICES ASSUME Typed, [Next]_vars PROVE TransfersTyped'
  OBVIOUS
<1>0. TablesTyped /\ RequestsTyped /\ TransfersTyped
  BY DEF Typed
<1>1. Transferring \subseteq Needs /\ Raised \subseteq Needs
  BY DEF Transferring, Raised
<1>2. ASSUME UNCHANGED <<transfer, retiring, releasing>>
      PROVE  TransfersTyped'
  BY <1>0, <1>2 DEF TransfersTyped
<1>3. ASSUME NEW N, Retire(N), UNCHANGED releasing
      PROVE  TransfersTyped'
  BY <1>0, <1>3, RetireKeeps DEF TransfersTyped
<1>4. ASSUME NEW c \in Channels, ChannelNext(c)
      PROVE  TransfersTyped'
  <2>1. CASE Open(c) \/ Stop(c) \/ Ended(c) \/ OfferDiscarded(c) \/ OfferCommits(c)
    BY <1>2, <2>1 DEF Open, Stop, Ended, OfferDiscarded, OfferCommits
  <2>2. CASE ChannelClosed(c)
    BY <1>0, <2>2, CancelledKeeps DEF TransfersTyped, ChannelClosed
  <2>3. CASE EndRetires(c)
    BY <1>3, <2>3 DEF EndRetires
  <2>4. CASE EndReleases(c) \/ OfferReleases(c)
    BY <1>0, <1>1, <2>4 DEF TransfersTyped, EndReleases, OfferReleases
  <2>5. ASSUME NEW l, NEW k, OfferBegins(c, l, k)
        PROVE  TransfersTyped'
    BY <1>3, <2>5 DEF OfferBegins
  <2>6. CASE OfferDiscards(c)
    BY <1>2, <1>3, <2>6 DEF OfferDiscards, StartDetach
  <2>7. ASSUME NEW u, HostDetaches(c, u)
        PROVE  TransfersTyped'
    BY <1>3, <2>7 DEF HostDetaches, StartDetach
  <2> QED
    BY <1>4, <2>1, <2>2, <2>3, <2>4, <2>5, <2>6, <2>7 DEF ChannelNext
<1>5. ASSUME NEW n \in Needs, PageNext(n)
      PROVE  TransfersTyped'
  <2>1. CASE PassOrStop(n) \/ Join(n) \/ RaiseNeed(n) \/ Move(n)
    BY <1>2, <2>1 DEF PassOrStop, Join, RaiseNeed, Move
  <2>2. CASE PauseLapsed(n) \/ Close(n)
    BY <1>3, <2>2 DEF PauseLapsed, Close, StartDetach
  <2>3. CASE Timeout(n) \/ Refuse(n)
    BY <1>0, <2>3 DEF TransfersTyped, Timeout, Refuse
  <2>4. CASE Begin(n)
    <3>1. [NoTransfer EXCEPT !.at = "loading", !.channel = channel, !.watched = TRUE,
                             !.generation = generation, !.expected = held] \in Transfer
      BY <1>0, BlanksAreTyped DEF TablesTyped, Transfer, TransferStages
    <3> QED
      BY <1>0, <2>4, <3>1 DEF TransfersTyped, Begin
  <2>5. CASE Finish(n) \/ Late(n)
    <3>1. /\ [transfer[n] EXCEPT !.at = "queued"] \in Transfer
          /\ [transfer[n] EXCEPT !.late = TRUE] \in Transfer
      BY <1>0 DEF TransfersTyped, Transfer, TransferStages
    <3> QED
      BY <1>0, <2>5, <3>1 DEF TransfersTyped, Finish, Late
  <2>6. CASE Watch(n)
    BY <1>0, <2>6, WatchKeeps DEF TransfersTyped, Watch
  <2> QED
    BY <1>5, <2>1, <2>2, <2>3, <2>4, <2>5, <2>6 DEF PageNext
<1>6. ASSUME NEW n \in Needs, JobNext(n)
      PROVE  TransfersTyped'
  <2>1. ASSUME NEW clean \in BOOLEAN, Settle(n, clean), UNCHANGED releasing
        PROVE  TransfersTyped'
    BY <1>0, <2>1, SettleKeeps DEF TransfersTyped
  <2>2. CASE ApplyRefused(n) \/ ApplyAbandons(n) \/ ApplyUndoes(n)
    BY <2>1, <2>2 DEF ApplyRefused, ApplyAbandons, ApplyUndoes
  <2>3. CASE ApplyFreezes(n) \/ ApplyImports(n) \/ ApplyResumes(n)
    <3>1. \A at \in TransferStages : [transfer[n] EXCEPT !.at = at] \in Transfer
      BY <1>0 DEF TransfersTyped, Transfer
    <3>2. {"frozen", "imported", "resumed", "failed"} \subseteq TransferStages
      BY DEF TransferStages
    <3>3. UNCHANGED releasing
      BY <2>3 DEF ApplyFreezes, ApplyImports, ApplyResumes
    <3>4. ASSUME NEW at \in TransferStages, transfer' = [transfer EXCEPT ![n].at = at],
                 UNCHANGED retiring
          PROVE  TransfersTyped'
      BY <1>0, <3>1, <3>3, <3>4 DEF TransfersTyped
    <3>5. CASE ApplyFreezes(n)
      BY <3>2, <3>4, <3>5 DEF ApplyFreezes
    <3>6. CASE ApplyImports(n)
      BY <2>1, <3>2, <3>3, <3>4, <3>6 DEF ApplyImports
    <3>7. CASE ApplyResumes(n)
      BY <2>1, <3>2, <3>3, <3>4, <3>7 DEF ApplyResumes
    <3> QED
      BY <2>3, <3>5, <3>6, <3>7
  <2>4. CASE ApplyCommits(n) \/ RetireEnds(n)
    BY <1>0, <2>4, BlanksAreTyped DEF TransfersTyped, ApplyCommits, RetireEnds
  <2>5. CASE RetireReleases(n) \/ ReleaseReturns(n) \/ ReleaseClears(n)
    BY <1>0, <2>5 DEF TransfersTyped, RetireReleases, ReleaseReturns, ReleaseClears
  <2> QED
    BY <1>6, <2>2, <2>3, <2>4, <2>5 DEF JobNext, Applies
<1>7. ASSUME NEW w \in Detachers, Detaches(w)
      PROVE  TransfersTyped'
  BY <1>2, <1>7 DEF Detaches, DetachRefused, DetachClears
<1>8. CASE Expiry \/ Reconnect
  BY <1>3, <1>8 DEF Expiry, Reconnect, StartDetach
<1>9. CASE Recovers
  <2>1. CASE RecoverClears
    BY <1>0, <2>1, BlanksAreTyped DEF TransfersTyped, RecoverClears
  <2>2. ASSUME NEW n \in Needs, RecoverWaits(n)
        PROVE  TransfersTyped'
    BY <1>0, <2>2, RecoverKeeps DEF TransfersTyped, RecoverWaits
  <2> QED
    BY <1>9, <2>1, <2>2 DEF Recovers
<1>10. CASE Lapse \/ Export \/ UNCHANGED vars
  BY <1>2, <1>10 DEF Lapse, Export, vars
<1> QED
  BY <1>4, <1>5, <1>6, <1>7, <1>8, <1>9, <1>10 DEF Next

(* An answer ends the needs of N and only those.                           *)
LEMMA AnswerKeeps ==
    ASSUME PagesTyped, NEW N \in SUBSET Raised, NEW ok \in BOOLEAN,
           page' = Answered(N, ok), need' = Removed(N)
    PROVE  /\ PagesTyped'
           /\ \A m \in Needs : /\ Held(m)' <=> Held(m) /\ m \notin N
                               /\ page'[m] = "new" => page[m] = "new"
                               /\ page[m] = "lapsed" => page'[m] = "lapsed"
                               /\ m \notin N => need'[m] = need[m]
<1>1. /\ page' \in [Needs -> PageStages]
      /\ \A m \in Needs : /\ m \in N => page'[m] = Fate(ok)
                          /\ \/ page'[m] = page[m]
                             \/ page'[m] = Fate(ok) /\ (m \in N \/ page[m] = "joined")
  BY AnsweredKeeps DEF PagesTyped
<1>2. need' \in [Needs -> Need] /\ \A m \in Needs : need'[m] = IF m \in N THEN NoNeed ELSE need[m]
  BY RemovedKeeps DEF PagesTyped
<1>3. Fate(ok) \in {"passed", "stopped"}
  BY DEF Fate
<1>4. \A m \in N : m \in Needs /\ page[m] = "held"
  BY DEF Raised, Held
<1>5. \A m \in Needs : /\ Held(m)' <=> Held(m) /\ m \notin N
                       /\ page'[m] = "new" => page[m] = "new"
                       /\ page[m] = "lapsed" => page'[m] = "lapsed"
                       /\ m \notin N => need'[m] = need[m]
  BY <1>1, <1>2, <1>3, <1>4 DEF Held
<1> QED
  BY <1>1, <1>2, <1>5 DEF PagesTyped, Raised

(* A detach ends all needs or none, and its page lapsed before.            *)
LEMMA DetachKeeps ==
    ASSUME Typed, Pausing, NEW w \in Detachers, Detaches(w)
    PROVE  /\ PagesTyped'
           /\ detach'[w].at \in {"idle", "done", "failed"}
           /\ \A m \in Needs : /\ Held(m)' => Held(m) /\ need'[m] = need[m]
                               /\ page'[m] = "new" => page[m] = "new"
                               /\ m = w => detach'[m].at = "idle"
                               /\ m # w => /\ page[m] = "lapsed" => page'[m] = "lapsed"
                                           /\ detach'[m] = detach[m]
<1>0. /\ PagesTyped /\ detach \in [Detachers -> Detach] /\ Needs \subseteq Detachers
      /\ Needs \cap Channels = {}
  BY SeparateAssumption DEF Typed, RequestsTyped, Detachers
<1>1. PICK ok \in BOOLEAN : Detached(w, ok)
  BY DEF Detaches, DetachRefused, DetachClears
<1>2. /\ detach'[w].at \in {"idle", "done", "failed"}
      /\ \A m \in Needs : IF m = w THEN detach'[m].at = "idle" ELSE detach'[m] = detach[m]
  BY <1>0, <1>1 DEF Detached, NoDetach
<1>3. w \in Needs => page[w] = "lapsed"
  BY DEF Pausing, Detaches, DetachRefused, DetachClears
<1>4. ASSUME NEW N \in SUBSET Raised, NEW answer \in BOOLEAN, NEW good \in BOOLEAN,
             page' = Proceeding(w, good, Answered(N, answer)), need' = Removed(N)
      PROVE  /\ PagesTyped'
             /\ \A m \in Needs : /\ Held(m)' => Held(m) /\ need'[m] = need[m]
                                 /\ page'[m] = "new" => page[m] = "new"
                                 /\ m # w /\ page[m] = "lapsed" => page'[m] = "lapsed"
  <2> DEFINE p == Answered(N, answer)
  <2>1. /\ p \in [Needs -> PageStages]
        /\ \A m \in Needs : /\ m \in N => p[m] = Fate(answer)
                            /\ \/ p[m] = page[m]
                               \/ p[m] = Fate(answer) /\ (m \in N \/ page[m] = "joined")
    BY <1>0, AnsweredKeeps DEF PagesTyped
  <2>2. need' \in [Needs -> Need] /\ \A m \in Needs : need'[m] = IF m \in N THEN NoNeed ELSE need[m]
    BY <1>0, <1>4, RemovedKeeps DEF PagesTyped
  <2>3. Fate(answer) \in {"passed", "stopped"} /\ Fate(good) \in {"passed", "stopped"}
    BY DEF Fate
  <2>4. \A m \in N : m \in Needs /\ page[m] = "held"
    BY DEF Raised, Held
  <2>5. page' = IF w \in Needs THEN [p EXCEPT ![w] = Fate(good)] ELSE p
    BY <1>4 DEF Proceeding
  <2> HIDE DEF p
  <2>6. /\ page' \in [Needs -> PageStages]
        /\ \A m \in Needs : page'[m] = IF m = w THEN Fate(good) ELSE p[m]
    BY <2>1, <2>3, <2>5 DEF PageStages
  <2>7. \A m \in Needs : /\ Held(m)' <=> Held(m) /\ m \notin N
                         /\ page'[m] = "new" => page[m] = "new"
                         /\ m # w /\ page[m] = "lapsed" => page'[m] = "lapsed"
    BY <1>3, <2>1, <2>3, <2>4, <2>6 DEF Held
  <2>8. PagesTyped'
    BY <1>0, <2>2, <2>4, <2>6, <2>7 DEF PagesTyped, Raised, Held
  <2> QED
    BY <2>2, <2>7, <2>8
<1>5. CASE page' = Proceeding(w, FALSE, page) /\ UNCHANGED need
  <2>1. page = Answered({}, FALSE) /\ need = Removed({})
    BY <1>0 DEF Answered, Removed, PagesTyped
  <2>2. page' = Proceeding(w, FALSE, Answered({}, FALSE)) /\ need' = Removed({})
    BY <1>5, <2>1
  <2> QED
    BY <1>2, <1>4, <2>2
<1>6. CASE page' = Proceeding(w, TRUE, Answered(Raised, FALSE)) /\ need' = Removed(Raised)
  BY <1>2, <1>4, <1>6
<1> QED
  BY <1>5, <1>6 DEF Detaches, DetachRefused, DetachClears

LEMMA PagesStayTyped == Typed /\ Pausing /\ [Next]_vars => PagesTyped'
<1> SUFFICES ASSUME Typed, Pausing, [Next]_vars PROVE PagesTyped'
  OBVIOUS
<1> USE DEF pauses
<1>0. TablesTyped /\ PagesTyped
  BY DEF Typed
<1>1. ASSUME UNCHANGED pauses
      PROVE  PagesTyped'
  BY <1>0, <1>1 DEF PagesTyped, Held, Raised
<1>2. ASSUME NEW N \in SUBSET Raised, NEW ok \in BOOLEAN, Answer(N, ok)
      PROVE  PagesTyped'
  BY <1>0, <1>2, AnswerKeeps DEF Answer
<1>3. ASSUME NEW n \in Needs, NEW d \in Need, d # NoNeed, need' = [need EXCEPT ![n] = d],
             \/ Held(n) /\ UNCHANGED page
             \/ Raised = {} /\ page' = [page EXCEPT ![n] = "held"]
      PROVE  PagesTyped'
  BY <1>0, <1>3 DEF PagesTyped, Held, Raised, PageStages
<1>4. ASSUME NEW n \in Needs, NEW at \in PageStages, at # "held", page[n] # "held",
             page' = [page EXCEPT ![n] = at], UNCHANGED need
      PROVE  PagesTyped'
  BY <1>0, <1>4 DEF PagesTyped, Held, Raised
<1>5. ASSUME NEW c \in Channels, ChannelNext(c)
      PROVE  PagesTyped'
  BY <1>1, <1>5 DEF ChannelNext, Open, Stop, ChannelClosed, EndRetires, EndReleases, Ended,
     OfferBegins, OfferReleases, OfferDiscards, OfferDiscarded, OfferCommits, HostDetaches
<1>6. ASSUME NEW n \in Needs, PageNext(n)
      PROVE  PagesTyped'
  <2>0. need[n] \in Need
    BY <1>0 DEF PagesTyped
  <2>1. CASE PassOrStop(n) \/ PauseLapsed(n) \/ Join(n)
    BY <1>4, <2>1 DEF PassOrStop, PauseLapsed, Join, Undecided, PageStages
  <2>2. CASE RaiseNeed(n)
    <3> DEFINE d == [NoNeed EXCEPT !.channel = channel, !.generation = generation, !.expected = held]
    <3>1. d \in Need
      BY <1>0, BlanksAreTyped DEF Need, TablesTyped
    <3>2. channel # NoChannel
      BY <2>2, NamesAssumption DEF Pausing, RaiseNeed, Undecided
    <3>3. d # NoNeed
      BY <3>2 DEF NoNeed
    <3>4. /\ Raised = {} /\ page' = [page EXCEPT ![n] = "held"]
          /\ need' = [need EXCEPT ![n] = d]
      BY <2>2 DEF RaiseNeed
    <3> HIDE DEF d
    <3> QED
      BY <1>3, <3>1, <3>3, <3>4
  <2>3. CASE Move(n)
    <3>1. [need[n] EXCEPT !.moved = TRUE] \in Need \ {NoNeed}
      BY <2>0 DEF Need, NoNeed
    <3> QED
      BY <1>3, <2>3, <3>1 DEF Move
  <2>4. CASE Timeout(n)
    <3>1. [need[n] EXCEPT !.expired = TRUE] \in Need \ {NoNeed}
      BY <2>0 DEF Need, NoNeed
    <3> QED
      BY <1>3, <2>4, <3>1 DEF Timeout
  <2>5. CASE Begin(n)
    <3>1. [need[n] EXCEPT !.admitted = TRUE] \in Need \ {NoNeed}
      BY <2>0 DEF Need, NoNeed
    <3> QED
      BY <1>3, <2>5, <3>1 DEF Begin
  <2> QED
    BY <1>1, <1>6, <2>1, <2>2, <2>3, <2>4, <2>5 DEF PageNext, Refuse, Finish, Late, Close, Watch
<1>7. ASSUME NEW n \in Needs, JobNext(n)
      PROVE  PagesTyped'
  <2>1. CASE ApplyCommits(n)
    <3>1. Held(n) /\ {n} \in SUBSET Raised
      BY <2>1 DEF ApplyCommits, Current, Raised
    <3> QED
      BY <1>2, <2>1, <3>1 DEF ApplyCommits
  <2>2. CASE ReleaseReturns(n)
    <3>1. Held(n) => {n} \in SUBSET Raised
      BY DEF Raised
    <3> QED
      BY <1>1, <1>2, <2>2, <3>1 DEF ReleaseReturns
  <2>3. CASE ReleaseClears(n)
    <3>1. {n} \in SUBSET Raised /\ (held = NoUse) \in BOOLEAN
      BY <2>3 DEF ReleaseClears, Raised
    <3> QED
      BY <1>1, <1>2, <2>3, <3>1 DEF ReleaseClears
  <2> QED
    BY <1>1, <1>7, <2>1, <2>2, <2>3 DEF JobNext, Applies, ApplyRefused, ApplyFreezes, ApplyImports,
       ApplyAbandons, ApplyResumes, ApplyUndoes, RetireReleases, RetireEnds
<1>8. ASSUME NEW w \in Detachers, Detaches(w)
      PROVE  PagesTyped'
  BY <1>8, DetachKeeps
<1>9. CASE RecoverClears
  BY <1>2, <1>9 DEF RecoverClears
<1>10. CASE Expiry \/ Lapse \/ Export \/ (\E n \in Needs : RecoverWaits(n)) \/ Reconnect
            \/ UNCHANGED vars
  BY <1>1, <1>10 DEF Expiry, Lapse, Export, RecoverWaits, Reconnect, vars
<1> QED
  BY <1>5, <1>6, <1>7, <1>8, <1>9, <1>10 DEF Next, Recovers

-----------------------------------------------------------------------------
(* What a step can do to one document and its transfer.                    *)

(* A transfer is left alone, or is cancelled and begins to retire.         *)
Kept(n) ==
    /\ transfer'[n].at = transfer[n].at
    /\ \/ transfer'[n].watched = transfer[n].watched
       \/ ~transfer'[n].watched /\ retiring'[n] # "no"
    /\ transfer[n].cancelled => transfer'[n].cancelled
    /\ \/ retiring'[n] = retiring[n]
       \/ retiring[n] = "no" /\ retiring'[n] = "waiting" /\ Exists(n) /\ transfer'[n].cancelled

LEMMA RetireIsKept ==
    ASSUME TransfersTyped, NEW N \in SUBSET Transferring, Retire(N)
    PROVE  \A n \in Needs : Kept(n)
<1> SUFFICES ASSUME NEW n \in Needs PROVE Kept(n)
  OBVIOUS
<1>1. /\ transfer'[n].at = transfer[n].at
      /\ transfer'[n].watched = transfer[n].watched
      /\ transfer[n].cancelled => transfer'[n].cancelled
      /\ n \in N => retiring'[n] # "no" /\ transfer'[n].cancelled
      /\ n \notin N => retiring'[n] = retiring[n]
      /\ retiring[n] # "no" => retiring'[n] = retiring[n]
      /\ retiring'[n] = "releasing" => retiring[n] = "releasing"
      /\ retiring'[n] \in {"no", "waiting", "releasing"}
  BY RetireKeeps
<1>2. n \in N => Exists(n)
  BY DEF Transferring
<1> QED
  BY <1>1, <1>2 DEF Kept

LEMMA TransferSteps ==
    ASSUME Typed, NEW n \in Needs, Retiring(n), [Next]_vars
    PROVE  \/ Kept(n) \/ Begin(n) \/ Finish(n) \/ Applies(n) \/ RetireReleases(n) \/ RetireEnds(n)
           \/ RecoverClears \/ \E m \in Needs : RecoverWaits(m)
<1>0. TransfersTyped /\ Transferring \in SUBSET Transferring
  BY DEF Typed
<1>1. ASSUME UNCHANGED <<transfer, retiring>>
      PROVE  Kept(n)
  BY <1>1 DEF Kept
<1>2. ASSUME NEW N \in SUBSET Transferring, Retire(N)
      PROVE  Kept(n)
  BY <1>0, <1>2, RetireIsKept
<1>3. ASSUME NEW w, NEW use, NEW c, StartDetach(w, use, c)
      PROVE  Kept(n)
  BY <1>0, <1>2, <1>3 DEF StartDetach
<1>4. ASSUME transfer'[n] = transfer[n], retiring'[n] = retiring[n]
      PROVE  Kept(n)
  BY <1>4 DEF Kept
<1>5. ASSUME NEW c \in Channels, ChannelNext(c)
      PROVE  Kept(n)
  <2>1. CASE ChannelClosed(c)
    <3> DEFINE N == {m \in Transferring : transfer[m].channel = c}
    <3>1. transfer' = Cancelled(N) /\ UNCHANGED retiring
      BY <2>1 DEF ChannelClosed
    <3> QED
      BY <1>0, <3>1, CancelledKeeps DEF Kept, TransfersTyped
  <2>2. CASE EndRetires(c)
    BY <1>2, <2>2 DEF EndRetires
  <2>3. ASSUME NEW l, NEW k, OfferBegins(c, l, k)
        PROVE  Kept(n)
    BY <1>0, <1>2, <2>3 DEF OfferBegins
  <2>4. CASE OfferDiscards(c)
    BY <1>1, <1>3, <2>4 DEF OfferDiscards
  <2>5. ASSUME NEW u, HostDetaches(c, u)
        PROVE  Kept(n)
    BY <1>3, <2>5 DEF HostDetaches
  <2> QED
    BY <1>1, <1>5, <2>1, <2>2, <2>3, <2>4, <2>5 DEF ChannelNext, Open, Stop, EndReleases, Ended,
       OfferReleases, OfferDiscarded, OfferCommits
<1>6. ASSUME NEW m \in Needs, PageNext(m)
      PROVE  Kept(n) \/ Begin(n) \/ Finish(n)
  <2>1. CASE PauseLapsed(m)
    BY <1>3, <2>1 DEF PauseLapsed
  <2>2. CASE Begin(m)
    BY <1>0, <1>4, <2>2 DEF Begin, TransfersTyped
  <2>3. CASE Finish(m)
    BY <1>0, <1>4, <2>3 DEF Finish, TransfersTyped
  <2>4. CASE Late(m)
    BY <1>0, <2>4 DEF Late, TransfersTyped, Kept, Transfer
  <2>5. CASE Close(m)
    <3>1. {m} \in SUBSET Transferring
      BY <2>5 DEF Close, Transferring
    <3> QED
      BY <1>2, <2>5, <3>1 DEF Close
  <2>6. CASE Watch(m)
    <3>1. CASE m = n
      <4>1. /\ transfer'[n].at = transfer[n].at /\ ~transfer'[n].watched
            /\ transfer'[n].cancelled
            /\ retiring'[n] \in {"no", "waiting", "releasing"} \ {"no"}
            /\ retiring[n] # "no" => retiring'[n] = retiring[n]
            /\ retiring'[n] = "releasing" => retiring[n] = "releasing"
        BY <1>0, <2>6, <3>1, WatchKeeps
      <4>2. Exists(n)
        BY <2>6, <3>1 DEF Watch, Retiring
      <4> QED
        BY <4>1, <4>2 DEF Kept
    <3>2. CASE m # n
      BY <1>0, <1>4, <2>6, <3>2, WatchKeeps
    <3> QED
      BY <3>1, <3>2
  <2> QED
    BY <1>1, <1>6, <2>1, <2>2, <2>3, <2>4, <2>5, <2>6 DEF PageNext, PassOrStop, Join, RaiseNeed, Move,
       Timeout, Refuse
<1>7. ASSUME NEW m \in Needs, JobNext(m)
      PROVE  Kept(n) \/ Applies(n) \/ RetireReleases(n) \/ RetireEnds(n)
  <2>1. CASE Applies(m) /\ m # n
    <3>1. ASSUME NEW clean \in BOOLEAN, Settle(m, clean)
          PROVE  Kept(n)
      BY <1>0, <1>4, <2>1, <3>1, SettleKeeps
    <3>2. ASSUME NEW t, transfer' = [transfer EXCEPT ![m] = t], UNCHANGED retiring
          PROVE  Kept(n)
      BY <1>0, <1>4, <2>1, <3>2 DEF TransfersTyped
    <3>3. CASE ApplyRefused(m) \/ ApplyAbandons(m) \/ ApplyUndoes(m)
      BY <3>1, <3>3 DEF ApplyRefused, ApplyAbandons, ApplyUndoes
    <3>4. CASE ApplyFreezes(m) \/ ApplyCommits(m)
      BY <3>2, <3>4 DEF ApplyFreezes, ApplyCommits
    <3>5. CASE ApplyImports(m)
      BY <3>1, <3>2, <3>5 DEF ApplyImports
    <3>6. CASE ApplyResumes(m)
      BY <3>1, <3>2, <3>6 DEF ApplyResumes
    <3> QED
      BY <2>1, <3>3, <3>4, <3>5, <3>6 DEF Applies
  <2>2. CASE RetireReleases(m) \/ RetireEnds(m)
    BY <1>0, <1>4, <2>2 DEF RetireReleases, RetireEnds, TransfersTyped
  <2> QED
    BY <1>1, <1>7, <2>1, <2>2 DEF JobNext, ReleaseReturns, ReleaseClears
<1>8. ASSUME NEW w \in Detachers, Detaches(w)
      PROVE  Kept(n)
  BY <1>1, <1>8 DEF Detaches, DetachRefused, DetachClears
<1>9. CASE Expiry \/ Reconnect
  BY <1>0, <1>2, <1>3, <1>9 DEF Expiry, Reconnect
<1>10. CASE Lapse \/ Export \/ UNCHANGED vars
  BY <1>1, <1>10 DEF Lapse, Export, vars
<1> QED
  BY <1>5, <1>6, <1>7, <1>8, <1>9, <1>10 DEF Next, Recovers

(* A document starts to wait when it raises its need; what it waits for is *)
(* begun once.                                                             *)
LEMMA PageSteps ==
    ASSUME Typed, Pausing, NEW n \in Needs, [Next]_vars
    PROVE  /\ page'[n] = "new" => page[n] = "new"
           /\ page[n] = "lapsed" => page'[n] = "lapsed" \/ Detaches(n)
           /\ Held(n)' => \/ RaiseNeed(n)
                          \/ Held(n) /\ (need'[n].admitted = need[n].admitted \/ Begin(n))
           /\ Held(n)' /\ Held(n) => need'[n].expired = need[n].expired \/ Timeout(n)
<1>0. PagesTyped
  BY DEF Typed
<1> DEFINE Goal == /\ page'[n] = "new" => page[n] = "new"
                   /\ page[n] = "lapsed" => page'[n] = "lapsed" \/ Detaches(n)
                   /\ Held(n)' => \/ RaiseNeed(n)
                                  \/ Held(n) /\ (need'[n].admitted = need[n].admitted \/ Begin(n))
                   /\ Held(n)' /\ Held(n) => need'[n].expired = need[n].expired \/ Timeout(n)
<1> SUFFICES Goal
  OBVIOUS
<1>1. ASSUME page'[n] = page[n], need'[n] = need[n]
      PROVE  Goal
  BY <1>1 DEF Held
<1>2. ASSUME NEW N \in SUBSET Raised, NEW ok \in BOOLEAN, Answer(N, ok)
      PROVE  Goal
  BY <1>0, <1>2, AnswerKeeps DEF Answer
<1>3. ASSUME NEW c \in Channels, ChannelNext(c)
      PROVE  Goal
  BY <1>1, <1>3 DEF ChannelNext, Open, Stop, ChannelClosed, EndRetires, EndReleases, Ended, pauses,
     OfferBegins, OfferReleases, OfferDiscards, OfferDiscarded, OfferCommits, HostDetaches
<1>4. ASSUME NEW m \in Needs, PageNext(m)
      PROVE  Goal
  <2>1. CASE PassOrStop(m) \/ PauseLapsed(m) \/ Join(m)
    <3>1. /\ page[m] = "new" /\ need' = need
          /\ page' = [page EXCEPT ![m] = "stopped"] \/ page' = [page EXCEPT ![m] = "passed"]
             \/ page' = [page EXCEPT ![m] = "lapsed"] \/ page' = [page EXCEPT ![m] = "joined"]
      BY <2>1 DEF PassOrStop, PauseLapsed, Join, Undecided
    <3> QED
      BY <1>0, <3>1 DEF Held, PagesTyped
  <2>2. CASE RaiseNeed(m)
    <3>1. CASE m = n
      BY <1>0, <2>2, <3>1 DEF RaiseNeed, PagesTyped, Undecided, Held
    <3>2. CASE m # n
      BY <1>0, <1>1, <2>2, <3>2 DEF RaiseNeed, PagesTyped
    <3> QED
      BY <3>1, <3>2
  <2>3. CASE Move(m) \/ Timeout(m)
    BY <1>0, <2>3 DEF Move, Timeout, PagesTyped, Held, Need
  <2>4. CASE Begin(m)
    <3>1. /\ page' = page /\ need' = [need EXCEPT ![m].admitted = TRUE]
          /\ need \in [Needs -> Need]
      BY <1>0, <2>4 DEF Begin, PagesTyped
    <3>2. m = n => need'[n].expired = need[n].expired
      BY <3>1 DEF Need
    <3>3. m # n => need'[n] = need[n]
      BY <3>1
    <3> QED
      BY <1>1, <2>4, <3>1, <3>2, <3>3 DEF Held
  <2> QED
    BY <1>1, <1>4, <2>1, <2>2, <2>3, <2>4 DEF PageNext, Refuse, Finish, Late, Close, Watch, pauses
<1>5. ASSUME NEW m \in Needs, JobNext(m)
      PROVE  Goal
  <2>1. CASE ApplyCommits(m)
    <3>1. {m} \in SUBSET Raised
      BY <2>1 DEF ApplyCommits, Current, Raised
    <3> QED
      BY <1>2, <2>1, <3>1 DEF ApplyCommits
  <2>2. CASE ReleaseReturns(m)
    <3>1. Held(m) => {m} \in SUBSET Raised
      BY DEF Raised
    <3> QED
      BY <1>1, <1>2, <2>2, <3>1 DEF ReleaseReturns, pauses
  <2>3. CASE ReleaseClears(m)
    <3>1. {m} \in SUBSET Raised /\ (held = NoUse) \in BOOLEAN
      BY <2>3 DEF ReleaseClears, Raised
    <3> QED
      BY <1>1, <1>2, <2>3, <3>1 DEF ReleaseClears, pauses
  <2> QED
    BY <1>1, <1>5, <2>1, <2>2, <2>3 DEF JobNext, Applies, ApplyRefused, ApplyFreezes, ApplyImports,
       ApplyAbandons, ApplyResumes, ApplyUndoes, RetireReleases, RetireEnds, pauses
<1>6. ASSUME NEW w \in Detachers, Detaches(w)
      PROVE  Goal
  <2>1. /\ Held(n)' => Held(n) /\ need'[n] = need[n]
        /\ page'[n] = "new" => page[n] = "new"
        /\ n # w => (page[n] = "lapsed" => page'[n] = "lapsed")
    BY <1>6, DetachKeeps
  <2> QED
    BY <1>6, <2>1
<1>7. CASE RecoverClears
  BY <1>2, <1>7 DEF RecoverClears
<1>8. CASE Expiry \/ Lapse \/ Export \/ (\E m \in Needs : RecoverWaits(m)) \/ Reconnect
           \/ UNCHANGED vars
  BY <1>1, <1>8 DEF Expiry, Lapse, Export, RecoverWaits, Reconnect, vars, pauses
<1> HIDE DEF Goal
<1> QED
  BY <1>3, <1>4, <1>5, <1>6, <1>7, <1>8 DEF Next, Recovers

LEMMA TransfersBegin ==
    ASSUME Typed, NEW n \in Needs, Retiring(n), [Next]_vars
    PROVE  /\ Exists(n)' => Exists(n) \/ Begin(n)
           /\ retiring'[n] # "no" => retiring[n] # "no" \/ Exists(n)
<1>0. TransfersTyped
  BY DEF Typed
<1>1. CASE Kept(n)
  BY <1>1 DEF Kept, Exists
<1>2. CASE Begin(n) \/ Finish(n)
  BY <1>2 DEF Begin, Finish, Exists
<1>3. CASE Applies(n)
  <2>1. Exists(n)
    BY <1>3 DEF Applies, ApplyRefused, ApplyFreezes, ApplyImports, ApplyAbandons, ApplyResumes,
       ApplyCommits, ApplyUndoes, Exists
  <2> QED
    BY <2>1
<1>4. CASE RetireReleases(n) \/ RetireEnds(n)
  BY <1>0, <1>4 DEF RetireReleases, RetireEnds, TransfersTyped, Exists, NoTransfer
<1>5. CASE RecoverClears
  BY <1>5 DEF RecoverClears, NoTransfer, Exists
<1>6. ASSUME NEW m \in Needs, RecoverWaits(m)
      PROVE  (Exists(n)' => Exists(n)) /\ UNCHANGED retiring
  <2>1. transfer'[n].at = transfer[n].at \/ (transfer[n].at = "unclean" /\ transfer'[n].at = "clean")
    BY <1>0, <1>6, RecoverKeeps
  <2> QED
    BY <1>6, <2>1 DEF RecoverWaits, Exists
<1> QED
  BY <1>1, <1>2, <1>3, <1>4, <1>5, <1>6, TransferSteps

(* Only a page that finds the offer lapsed starts the detach of its name.  *)
LEMMA DetachesOfPages ==
    ASSUME Typed, NEW n \in Needs, [Next]_vars
    PROVE  detach'[n] = detach[n] \/ PauseLapsed(n) \/ Detaches(n)
<1>0. /\ detach \in [Detachers -> Detach] /\ Needs \subseteq Detachers
      /\ \A c \in Channels : c # n
      /\ n # "host" /\ n # "expiry"
  BY SeparateAssumption, KeysAssumption DEF Typed, RequestsTyped, Detachers
<1>1. ASSUME NEW w, w # n, NEW use, NEW c, StartDetach(w, use, c)
      PROVE  detach'[n] = detach[n]
  BY <1>0, <1>1 DEF StartDetach
<1>2. ASSUME NEW c \in Channels, ChannelNext(c)
      PROVE  detach'[n] = detach[n]
  <2>1. CASE OfferDiscards(c)
    BY <1>0, <1>1, <2>1 DEF OfferDiscards
  <2>2. ASSUME NEW u, HostDetaches(c, u)
        PROVE  detach'[n] = detach[n]
    BY <1>0, <1>1, <2>2 DEF HostDetaches
  <2>3. CASE OfferDiscarded(c)
    BY <1>0, <2>3 DEF OfferDiscarded
  <2> QED
    BY <1>2, <2>1, <2>2, <2>3 DEF ChannelNext, Open, Stop, ChannelClosed, EndRetires, EndReleases, Ended,
       OfferBegins, OfferReleases, OfferCommits
<1>3. ASSUME NEW m \in Needs, PageNext(m)
      PROVE  detach'[n] = detach[n] \/ PauseLapsed(n)
  <2>1. CASE PauseLapsed(m) /\ m # n
    BY <1>1, <2>1 DEF PauseLapsed
  <2> QED
    BY <1>3, <2>1 DEF PageNext, PassOrStop, Join, RaiseNeed, Move, Timeout, Refuse, Begin, Finish,
       Late, Close, Watch
<1>4. ASSUME NEW m \in Needs, JobNext(m)
      PROVE  detach'[n] = detach[n]
  BY <1>4 DEF JobNext, Applies, ApplyRefused, ApplyFreezes, ApplyImports, ApplyAbandons,
     ApplyResumes, ApplyCommits, ApplyUndoes, RetireReleases, RetireEnds, ReleaseReturns, ReleaseClears
<1>5. ASSUME NEW w \in Detachers, Detaches(w)
      PROVE  detach'[n] = detach[n] \/ Detaches(n)
  <2>1. PICK ok : Detached(w, ok)
    BY <1>5 DEF Detaches, DetachRefused, DetachClears
  <2> QED
    BY <1>0, <1>5, <2>1 DEF Detached
<1>6. CASE Expiry
  BY <1>0, <1>1, <1>6 DEF Expiry
<1>7. CASE Lapse \/ Export \/ Recovers \/ Reconnect \/ UNCHANGED vars
  BY <1>7 DEF Lapse, Export, Recovers, RecoverClears, RecoverWaits, Reconnect, vars
<1> QED
  BY <1>2, <1>3, <1>4, <1>5, <1>6, <1>7 DEF Next

(* An offer stands on a channel until the channel closes.                  *)
LEMMA OffersHaveAChannel ==
    ASSUME offered => channel \in Channels, [Next]_vars
    PROVE  offered' => channel' \in Channels
<1> USE DEF tables
<1>1. ASSUME NEW c \in Channels, ChannelNext(c)
      PROVE  offered' => channel' \in Channels
  BY <1>1 DEF ChannelNext, Open, Stop, ChannelClosed, EndRetires, EndReleases, Ended,
     OfferBegins, OfferReleases, OfferDiscards, OfferDiscarded, OfferCommits, HostDetaches
<1>2. ASSUME NEW n \in Needs, PageNext(n)
      PROVE  UNCHANGED <<offered, channel>>
  BY <1>2 DEF PageNext, PassOrStop, PauseLapsed, Join, RaiseNeed, Move, Timeout, Refuse,
     Begin, Finish, Late, Close, Watch
<1>3. ASSUME NEW n \in Needs, JobNext(n)
      PROVE  UNCHANGED <<offered, channel>>
  BY <1>3 DEF JobNext, Applies, ApplyRefused, ApplyFreezes, ApplyImports, ApplyAbandons,
     ApplyResumes, ApplyCommits, ApplyUndoes, RetireReleases, RetireEnds, ReleaseReturns, ReleaseClears
<1>4. ASSUME NEW w \in Detachers, Detaches(w)
      PROVE  offered' => channel' \in Channels
  BY <1>4 DEF Detaches, DetachRefused, DetachClears
<1>5. CASE Expiry \/ Lapse \/ Export \/ Recovers \/ Reconnect \/ UNCHANGED vars
  BY <1>5 DEF Expiry, Lapse, Export, Recovers, RecoverClears, RecoverWaits, Reconnect, vars
<1> QED
  BY <1>1, <1>2, <1>3, <1>4, <1>5 DEF Next

LEMMA PausingStays ==
    ASSUME Typed, Pausing, \A n \in Needs : Retiring(n), [Next]_vars
    PROVE  Pausing'
<1>1. offered' => channel' \in Channels
  BY OffersHaveAChannel DEF Pausing
<1>2. ASSUME NEW n \in Needs, detach'[n].at # "idle"
      PROVE  page'[n] = "lapsed"
  <2>1. CASE PauseLapsed(n)
    BY <2>1 DEF PauseLapsed, Typed, PagesTyped
  <2>2. n \in Detachers
    BY DEF Detachers
  <2>3. ~Detaches(n)
    BY <1>2, <2>2, DetachKeeps
  <2>4. CASE detach'[n] = detach[n]
    BY <1>2, <2>3, <2>4, PageSteps DEF Pausing
  <2> QED
    BY <2>1, <2>3, <2>4, DetachesOfPages
<1>3. ASSUME NEW n \in Needs, page'[n] = "new"
      PROVE  ~Exists(n)' /\ retiring'[n] = "no"
  <2>1. page[n] = "new" /\ ~Exists(n) /\ retiring[n] = "no"
    BY <1>3, PageSteps DEF Pausing
  <2>2. ~Begin(n)
    BY <2>1 DEF Begin, Held
  <2> QED
    BY <2>1, <2>2, TransfersBegin
<1>4. ASSUME NEW n \in Needs, Held(n)', ~need'[n].admitted
      PROVE  ~Exists(n)'
  <2>1. ~Begin(n)
    BY <1>4 DEF Begin, Typed, PagesTyped, Need
  <2>2. ~Exists(n)
    BY <1>4, <2>1, PageSteps DEF Pausing, RaiseNeed, Undecided
  <2> QED
    BY <2>1, <2>2, TransfersBegin
<1> QED
  BY <1>1, <1>2, <1>3, <1>4 DEF Pausing

-----------------------------------------------------------------------------
(* What a step can do to a release at work and to the profile's mark.      *)

LEMMA MarksStay ==
    ASSUME [Next]_vars
    PROVE  uncleared => uncleared' \/ RecoverClears
<1> USE DEF browser, LeaveUncleared, ClearSite
<1>1. ASSUME NEW c \in Channels, ChannelNext(c)
      PROVE  UNCHANGED uncleared
  BY <1>1 DEF ChannelNext, Open, Stop, ChannelClosed, EndRetires, EndReleases, Ended,
     OfferBegins, OfferReleases, OfferDiscards, OfferDiscarded, OfferCommits, HostDetaches
<1>2. ASSUME NEW n \in Needs, PageNext(n)
      PROVE  UNCHANGED uncleared
  BY <1>2 DEF PageNext, PassOrStop, PauseLapsed, Join, RaiseNeed, Move, Timeout, Refuse,
     Begin, Finish, Late, Close, Watch
<1>3. ASSUME NEW n \in Needs, JobNext(n)
      PROVE  uncleared => uncleared'
  BY <1>3 DEF JobNext, Applies, ApplyRefused, ApplyFreezes, ApplyImports, ApplyAbandons,
     ApplyResumes, ApplyCommits, ApplyUndoes, RetireReleases, RetireEnds, ReleaseReturns, ReleaseClears
<1>4. ASSUME NEW w \in Detachers, Detaches(w)
      PROVE  uncleared => uncleared'
  BY <1>4 DEF Detaches, DetachRefused, DetachClears
<1>5. CASE Expiry \/ Lapse \/ Export \/ Reconnect \/ UNCHANGED vars
  BY <1>5 DEF Expiry, Lapse, Export, Reconnect, vars
<1>6. ASSUME NEW n \in Needs, RecoverWaits(n)
      PROVE  UNCHANGED uncleared
  BY <1>6 DEF RecoverWaits
<1> QED
  BY <1>1, <1>2, <1>3, <1>4, <1>5, <1>6 DEF Next, Recovers

LEMMA ReleasesStay ==
    ASSUME NEW n \in Needs, n \in releasing, [Next]_vars
    PROVE  n \in releasing' \/ ReleaseReturns(n) \/ ReleaseClears(n)
<1>1. ASSUME NEW c \in Channels, ChannelNext(c)
      PROVE  n \in releasing'
  BY <1>1 DEF ChannelNext, Open, Stop, ChannelClosed, EndRetires, EndReleases, Ended,
     OfferBegins, OfferReleases, OfferDiscards, OfferDiscarded, OfferCommits, HostDetaches
<1>2. ASSUME NEW m \in Needs, PageNext(m)
      PROVE  n \in releasing'
  BY <1>2 DEF PageNext, PassOrStop, PauseLapsed, Join, RaiseNeed, Move, Timeout, Refuse,
     Begin, Finish, Late, Close, Watch
<1>3. ASSUME NEW m \in Needs, JobNext(m)
      PROVE  n \in releasing' \/ ReleaseReturns(n) \/ ReleaseClears(n)
  <2>1. CASE Applies(m) \/ RetireReleases(m) \/ RetireEnds(m)
    BY <2>1 DEF Applies, ApplyRefused, ApplyFreezes, ApplyImports, ApplyAbandons,
       ApplyResumes, ApplyCommits, ApplyUndoes, RetireReleases, RetireEnds
  <2>2. CASE (ReleaseReturns(m) \/ ReleaseClears(m)) /\ m # n
    BY <2>2 DEF ReleaseReturns, ReleaseClears
  <2> QED
    BY <1>3, <2>1, <2>2 DEF JobNext
<1>4. ASSUME NEW w \in Detachers, Detaches(w)
      PROVE  n \in releasing'
  BY <1>4 DEF Detaches, DetachRefused, DetachClears
<1>5. CASE Expiry \/ Lapse \/ Export \/ Reconnect \/ RecoverClears \/ UNCHANGED vars
  BY <1>5 DEF Expiry, Lapse, Export, RecoverClears, Reconnect, vars
<1>6. ASSUME NEW m \in Needs, RecoverWaits(m)
      PROVE  n \in releasing'
  BY <1>6 DEF RecoverWaits
<1> QED
  BY <1>1, <1>2, <1>3, <1>4, <1>5, <1>6 DEF Next, Recovers

(* A release that ends, ends its need or finds or leaves the mark.         *)
LEMMA ReleasesAnswer ==
    ASSUME PagesTyped, NEW n \in Needs, ReleaseReturns(n) \/ ReleaseClears(n)
    PROVE  ~Held(n)' \/ uncleared'
<1>1. ASSUME Held(n), NEW ok \in BOOLEAN, Answer({n}, ok)
      PROVE  ~Held(n)'
  <2>1. {n} \in SUBSET Raised
    BY <1>1 DEF Raised
  <2> QED
    BY <1>1, <2>1, AnswerKeeps DEF Answer
<1>2. (held = NoUse) \in BOOLEAN
  OBVIOUS
<1>3. CASE ReleaseReturns(n)
  <2>1. \/ ~Held(n) /\ page' = page
        \/ uncleared' = uncleared /\ uncleared
        \/ Held(n) /\ Answer({n}, FALSE)
    BY <1>3 DEF ReleaseReturns, browser, pauses
  <2> QED
    BY <1>1, <2>1 DEF Held
<1>4. CASE ReleaseClears(n)
  <2>1. Held(n) /\ (Answer({n}, held = NoUse) \/ uncleared' = TRUE)
    BY <1>4 DEF ReleaseClears, LeaveUncleared
  <2> QED
    BY <1>1, <1>2, <2>1
<1> QED
  BY <1>3, <1>4

(* A recovery answers every need.                                          *)
LEMMA RecoveryAnswers ==
    ASSUME PagesTyped, RecoverClears, NEW n \in Needs
    PROVE  ~Held(n)' /\ transfer'[n] = NoTransfer /\ retiring' = retiring /\ ~uncleared'
<1>1. Raised \in SUBSET Raised /\ Answer(Raised, TRUE)
  BY DEF RecoverClears
<1>2. Held(n)' <=> Held(n) /\ n \notin Raised
  BY <1>1, AnswerKeeps DEF Answer
<1> QED
  BY <1>2 DEF RecoverClears, Raised

(* A job that commits answers its need.                                    *)
LEMMA CommitsAnswer ==
    ASSUME PagesTyped, NEW n \in Needs, ApplyCommits(n)
    PROVE  ~Held(n)'
<1>1. {n} \in SUBSET Raised /\ Answer({n}, TRUE)
  BY DEF ApplyCommits, Current, Raised
<1> QED
  BY <1>1, AnswerKeeps DEF Answer

(* What the job of a transfer does to it.                                  *)
LEMMA AppliesSteps ==
    ASSUME Typed, NEW n \in Needs, Applies(n)
    PROVE  /\ transfer[n].at \in {"queued", "frozen", "imported", "resumed", "failed"}
           /\ \/ /\ transfer'[n].at \in {"frozen", "imported", "resumed", "failed"}
                 /\ applying' = n /\ retiring'[n] = retiring[n]
                 /\ transfer'[n].watched = transfer[n].watched
              \/ /\ transfer'[n].at = "clean" /\ retiring'[n] # "no" /\ Free'
                 /\ transfer'[n].watched = transfer[n].watched
              \/ /\ transfer'[n].at = "unclean" /\ retiring'[n] # "no" /\ Free' /\ uncleared'
                 /\ transfer'[n].watched = transfer[n].watched
              \/ /\ transfer'[n] = NoTransfer /\ Free' /\ retiring'[n] = retiring[n]
                 /\ ApplyCommits(n)
           /\ retiring'[n] = "releasing" => retiring[n] = "releasing"
<1>0. TransfersTyped /\ transfer[n] \in Transfer
  BY DEF Typed, TransfersTyped
<1>1. ASSUME NEW clean \in BOOLEAN, Settle(n, clean)
      PROVE  /\ transfer'[n].at = IF clean THEN "clean" ELSE "unclean"
             /\ retiring'[n] # "no" /\ Free' /\ transfer'[n].watched = transfer[n].watched
             /\ retiring'[n] = "releasing" => retiring[n] = "releasing"
  BY <1>0, <1>1, SettleKeeps DEF Free
<1>2. ASSUME NEW at \in TransferStages, transfer' = [transfer EXCEPT ![n].at = at]
      PROVE  transfer'[n].at = at /\ transfer'[n].watched = transfer[n].watched
  BY <1>0, <1>2 DEF TransfersTyped, Transfer
<1>3. {"frozen", "imported", "resumed", "failed"} \subseteq TransferStages
  BY DEF TransferStages
<1>4. CASE ApplyRefused(n) \/ ApplyAbandons(n) \/ ApplyUndoes(n)
  BY <1>1, <1>4 DEF ApplyRefused, ApplyAbandons, ApplyUndoes, LeaveUncleared
<1>5. CASE ApplyFreezes(n)
  BY <1>2, <1>3, <1>5 DEF ApplyFreezes
<1>6. CASE ApplyImports(n)
  BY <1>1, <1>2, <1>3, <1>6 DEF ApplyImports
<1>7. CASE ApplyResumes(n)
  BY <1>1, <1>2, <1>3, <1>7 DEF ApplyResumes, LeaveUncleared
<1>8. CASE ApplyCommits(n)
  BY <1>0, <1>8 DEF ApplyCommits, Free, TransfersTyped
<1> QED
  BY <1>4, <1>5, <1>6, <1>7, <1>8 DEF Applies

LEMMA RetiringStays ==
    ASSUME Typed, Pausing, NEW n \in Needs, Retiring(n), [Next]_vars
    PROVE  Retiring(n)'
<1> USE DEF Exists
<1>0. TransfersTyped /\ PagesTyped /\ retiring[n] \in {"no", "waiting", "releasing"}
  BY DEF Typed, TransfersTyped
<1>1. /\ uncleared => uncleared' \/ RecoverClears
      /\ n \in releasing => n \in releasing' \/ ReleaseReturns(n) \/ ReleaseClears(n)
  BY MarksStay, ReleasesStay
<1>2. Held(n)' => Held(n) \/ (RaiseNeed(n) /\ retiring[n] = "no" /\ UNCHANGED retiring)
  BY PageSteps DEF RaiseNeed, Undecided, Pausing
<1>3. CASE RecoverClears
  BY <1>0, <1>3, RecoveryAnswers DEF Retiring, NoTransfer
<1>4. ASSUME ~RecoverClears, retiring[n] = "releasing", Held(n)', ~uncleared'
      PROVE  n \in releasing'
  <2>1. Held(n) /\ ~uncleared
    BY <1>1, <1>2, <1>4
  <2>2. n \in releasing
    BY <1>4, <2>1 DEF Retiring
  <2> QED
    BY <1>0, <1>1, <1>4, <2>2, ReleasesAnswer
<1>5. CASE Kept(n) /\ ~RecoverClears
  <2>1. /\ transfer[n].at = "unclean" => uncleared'
    BY <1>1, <1>5 DEF Retiring
  <2>2. retiring'[n] # "no" /\ Held(n)' => Exists(n)
    BY <1>2, <1>5 DEF Kept, Retiring
  <2>3. retiring'[n] # "no" /\ transfer[n].at = "loading" => transfer'[n].cancelled
    BY <1>5 DEF Kept, Retiring
  <2>4. retiring'[n] = "releasing" => retiring[n] = "releasing"
    BY <1>5 DEF Kept
  <2> QED
    BY <1>4, <1>5, <2>1, <2>2, <2>3, <2>4 DEF Kept, Retiring
<1>6. CASE Begin(n)
  <2>1. /\ transfer'[n] = [NoTransfer EXCEPT !.at = "loading", !.channel = channel, !.watched = TRUE,
                                             !.generation = generation, !.expected = held]
        /\ Held(n) /\ ~need[n].admitted /\ UNCHANGED retiring
    BY <1>0, <1>6 DEF Begin, TransfersTyped
  <2>2. transfer'[n].at = "loading"
    BY <2>1 DEF NoTransfer
  <2>3. retiring'[n] = "no"
    BY <2>1 DEF Retiring, Pausing
  <2> QED
    BY <2>2, <2>3 DEF Retiring
<1>7. CASE Finish(n)
  <2>1. /\ transfer'[n].at = "queued" /\ UNCHANGED retiring /\ transfer'[n].watched = transfer[n].watched
        /\ transfer[n].at = "loading" /\ ~transfer[n].cancelled
    BY <1>0, <1>7 DEF Finish, TransfersTyped, Transfer, Current
  <2>2. retiring'[n] = "no"
    BY <2>1 DEF Retiring
  <2> QED
    BY <2>1, <2>2 DEF Retiring
<1>8. CASE Applies(n)
  <2>1. retiring[n] # "releasing"
    BY <1>8, AppliesSteps DEF Retiring
  <2>2. CASE ApplyCommits(n)
    <3>1. transfer'[n] = NoTransfer /\ ~Held(n)'
      BY <1>0, <2>2, CommitsAnswer DEF ApplyCommits, TransfersTyped
    <3>2. retiring' = retiring
      BY <2>2 DEF ApplyCommits
    <3> QED
      BY <2>1, <3>1, <3>2 DEF Retiring, NoTransfer
  <2>3. CASE ~ApplyCommits(n)
    BY <1>8, <2>1, <2>3, AppliesSteps DEF Retiring
  <2> QED
    BY <2>2, <2>3
<1>9. CASE RetireReleases(n)
  <2>1. /\ UNCHANGED <<transfer, page, uncleared>> /\ retiring[n] = "waiting"
        /\ \/ retiring'[n] = "no"
           \/ /\ retiring'[n] = "releasing" /\ n \in releasing'
              /\ transfer[n].at \in {"loading", "clean"}
    BY <1>0, <1>9 DEF RetireReleases, TransfersTyped, pauses, browser
  <2> QED
    BY <2>1 DEF Retiring, Held
<1>10. CASE RetireEnds(n)
  <2>1. /\ UNCHANGED <<page, uncleared>> /\ retiring'[n] = "no"
        /\ transfer'[n] = transfer[n] \/ transfer'[n] = NoTransfer
    BY <1>0, <1>10 DEF RetireEnds, TransfersTyped, pauses, browser
  <2> QED
    BY <2>1 DEF Retiring, NoTransfer
<1>11. ASSUME NEW m \in Needs, RecoverWaits(m), ~RecoverClears
       PROVE  Retiring(n)'
  <2>1. /\ transfer'[n].watched = transfer[n].watched
        /\ transfer[n].cancelled => transfer'[n].cancelled
        /\ transfer'[n].at = transfer[n].at \/ (transfer[n].at = "unclean" /\ transfer'[n].at = "clean")
    BY <1>0, <1>11, RecoverKeeps
  <2>2. UNCHANGED <<retiring, page>>
    BY <1>11 DEF RecoverWaits, pauses
  <2> QED
    BY <1>1, <1>4, <1>11, <2>1, <2>2 DEF Retiring, Held
<1> QED
  BY <1>3, <1>5, <1>6, <1>7, <1>8, <1>9, <1>10, <1>11, TransferSteps

-----------------------------------------------------------------------------
(* The job that holds `effects`.                                           *)

(* While a job holds it, only that job touches the browser and the use.    *)
LEMMA OthersWait ==
    ASSUME Typed, ~Free, [Next]_vars
    PROVE  \/ UNCHANGED <<held, browser, applying>>
           \/ \E n \in Needs : Applies(n)
<1> USE DEF tables
<1>1. ASSUME NEW c \in Channels, ChannelNext(c)
      PROVE  UNCHANGED <<held, browser, applying>>
  BY <1>1 DEF ChannelNext, Open, Stop, ChannelClosed, EndRetires, EndReleases, Ended,
     OfferBegins, OfferReleases, OfferDiscards, OfferDiscarded, OfferCommits, HostDetaches
<1>2. ASSUME NEW n \in Needs, PageNext(n)
      PROVE  UNCHANGED <<held, browser, applying>>
  BY <1>2 DEF PageNext, PassOrStop, PauseLapsed, Join, RaiseNeed, Move, Timeout, Refuse,
     Begin, Finish, Late, Close, Watch
<1>3. ASSUME NEW n \in Needs, JobNext(n), ~Applies(n)
      PROVE  UNCHANGED <<held, browser, applying>>
  BY <1>3 DEF JobNext, RetireReleases, RetireEnds, ReleaseReturns, ReleaseClears
<1>4. ASSUME NEW w \in Detachers, Detaches(w)
      PROVE  UNCHANGED <<held, browser, applying>>
  BY <1>4 DEF Detaches, DetachRefused, DetachClears
<1>5. CASE Expiry \/ Lapse \/ Export \/ Reconnect \/ Recovers \/ UNCHANGED vars
  BY <1>5 DEF Expiry, Lapse, Export, Recovers, RecoverClears, RecoverWaits, Reconnect, vars
<1> QED
  BY <1>1, <1>2, <1>3, <1>4, <1>5 DEF Next

(* A need has one job: a step of it by another leaves an applied transfer. *)
LEMMA AppliedIsLeftAlone ==
    ASSUME Typed, Pausing, Applying, NEW n \in Needs, Retiring(n), ~Free, n = applying, [Next]_vars,
           UNCHANGED applying
    PROVE  transfer'[n].at = transfer[n].at \/ Applies(n)
<1>0. TransfersTyped
  BY DEF Typed
<1>1. transfer[n].at \in {"frozen", "imported", "resumed", "failed"}
  BY DEF Applying
<1>2. ~Begin(n)
  BY <1>1 DEF Begin, Pausing, Exists
<1>3. ~Finish(n)
  BY <1>1 DEF Finish
<1>4. RetireReleases(n) => transfer' = transfer
  BY DEF RetireReleases
<1>5. ~RetireEnds(n)
  BY <1>1 DEF RetireEnds, Retiring
<1>6. ~RecoverClears
  BY DEF RecoverClears
<1>7. ~(\E m \in Needs : RecoverWaits(m))
  BY DEF RecoverWaits
<1>8. Kept(n) => transfer'[n].at = transfer[n].at
  BY DEF Kept
<1> QED
  BY <1>2, <1>3, <1>4, <1>5, <1>6, <1>7, <1>8, TransferSteps

(* The job's own steps, and what they do to the browser.                   *)
LEMMA ApplyingSteps ==
    ASSUME Typed, Applying, NothingIsLeftBehind, NEW n \in Needs, Applies(n)
    PROVE  Applying' /\ NothingIsLeftBehind'
<1> USE DEF browser, tables, Free, LeaveUncleared, ClearSite
<1>0. /\ TransfersTyped /\ transfer[n] \in Transfer /\ n # NoUse
      /\ uncleared \in BOOLEAN /\ frozen \in {"no", "transfer", "capture"}
  BY NamesAssumption DEF Typed, TransfersTyped, TablesTyped
<1>1. ASSUME NEW at \in TransferStages, transfer' = [transfer EXCEPT ![n].at = at]
      PROVE  transfer'[n].at = at
  BY <1>0, <1>1 DEF TransfersTyped, Transfer
<1>2. {"frozen", "imported", "resumed", "failed"} \subseteq TransferStages
  BY DEF TransferStages
<1>3. CASE ApplyRefused(n)
  BY <1>3 DEF ApplyRefused, Settle, Applying, NothingIsLeftBehind
<1>4. CASE ApplyFreezes(n)
  <2>1. transfer'[n].at = "frozen" /\ applying' = n /\ ~uncleared' /\ data' = data /\ held' = held
    BY <1>1, <1>2, <1>4 DEF ApplyFreezes, Current
  <2>2. held = NoUse => data = {}
    BY <1>4 DEF ApplyFreezes, Current, NothingIsLeftBehind
  <2> QED
    BY <1>0, <2>1, <2>2 DEF Applying, NothingIsLeftBehind
<1>5. CASE ApplyImports(n)
  <2>1. CASE Settle(n, FALSE) /\ uncleared' = TRUE
    BY <2>1 DEF Settle, Applying, NothingIsLeftBehind
  <2>2. CASE /\ transfer' = [transfer EXCEPT ![n].at = "imported"]
                \/ transfer' = [transfer EXCEPT ![n].at = "failed"]
             /\ UNCHANGED <<applying, uncleared>>
    <3>1. transfer'[n].at \in {"imported", "failed"}
      BY <1>1, <1>2, <2>2
    <3> QED
      BY <1>0, <1>5, <2>2, <3>1 DEF ApplyImports, Applying, NothingIsLeftBehind
  <2> QED
    BY <1>5, <2>1, <2>2 DEF ApplyImports
<1>6. CASE ApplyAbandons(n)
  <2>1. applying = n /\ transfer[n].at = "frozen" /\ applying' = NoUse /\ UNCHANGED held
    BY <1>6 DEF ApplyAbandons, Settle
  <2>2. held = NoUse => data = {}
    BY <1>0, <2>1 DEF Applying
  <2> QED
    BY <1>6, <2>1, <2>2 DEF ApplyAbandons, Applying, NothingIsLeftBehind
<1>7. CASE ApplyResumes(n)
  <2>1. CASE Settle(n, FALSE) /\ LeaveUncleared
    BY <2>1 DEF Settle, Applying, NothingIsLeftBehind
  <2>2. CASE transfer' = [transfer EXCEPT ![n].at = "resumed"] /\ frozen' = "no"
             /\ UNCHANGED <<applying, uncleared>>
    <3>1. transfer'[n].at = "resumed"
      BY <1>1, <1>2, <2>2
    <3> QED
      BY <1>0, <1>7, <2>2, <3>1 DEF ApplyResumes, Applying, NothingIsLeftBehind
  <2>3. CASE transfer' = [transfer EXCEPT ![n].at = "failed"] /\ UNCHANGED <<applying, uncleared>>
    <3>1. transfer'[n].at = "failed"
      BY <1>1, <1>2, <2>3
    <3> QED
      BY <1>0, <1>7, <2>3, <3>1 DEF ApplyResumes, Applying, NothingIsLeftBehind
  <2> QED
    BY <1>7, <2>1, <2>2, <2>3 DEF ApplyResumes
<1>8. CASE ApplyCommits(n)
  <2>1. applying = n /\ transfer[n].at = "resumed" /\ applying' = NoUse /\ held' = n /\ frozen' = frozen
    BY <1>8 DEF ApplyCommits
  <2> QED
    BY <1>0, <2>1 DEF Applying, NothingIsLeftBehind
<1>9. CASE ApplyUndoes(n)
  BY <1>9 DEF ApplyUndoes, Settle, Applying, NothingIsLeftBehind
<1> QED
  BY <1>3, <1>4, <1>5, <1>6, <1>7, <1>8, <1>9 DEF Applies

(* Nobody else takes `effects` for longer than a step.                     *)
LEMMA OnlyJobsApply ==
    ASSUME [Next]_vars
    PROVE  UNCHANGED applying \/ \E n \in Needs : Applies(n)
<1>1. ASSUME NEW c \in Channels, ChannelNext(c)
      PROVE  UNCHANGED applying
  BY <1>1 DEF ChannelNext, Open, Stop, ChannelClosed, EndRetires, EndReleases, Ended,
     OfferBegins, OfferReleases, OfferDiscards, OfferDiscarded, OfferCommits, HostDetaches
<1>2. ASSUME NEW n \in Needs, PageNext(n)
      PROVE  UNCHANGED applying
  BY <1>2 DEF PageNext, PassOrStop, PauseLapsed, Join, RaiseNeed, Move, Timeout, Refuse,
     Begin, Finish, Late, Close, Watch
<1>3. ASSUME NEW n \in Needs, JobNext(n), ~Applies(n)
      PROVE  UNCHANGED applying
  BY <1>3 DEF JobNext, RetireReleases, RetireEnds, ReleaseReturns, ReleaseClears
<1>4. ASSUME NEW w \in Detachers, Detaches(w)
      PROVE  UNCHANGED applying
  BY <1>4 DEF Detaches, DetachRefused, DetachClears
<1>5. CASE Expiry \/ Lapse \/ Export \/ Reconnect \/ Recovers \/ UNCHANGED vars
  BY <1>5 DEF Expiry, Lapse, Export, Recovers, RecoverClears, RecoverWaits, Reconnect, vars
<1> QED
  BY <1>1, <1>2, <1>3, <1>4, <1>5 DEF Next

LEMMA ApplyingStays ==
    ASSUME Typed, Pausing, Applying, NothingIsLeftBehind, \A n \in Needs : Retiring(n), [Next]_vars
    PROVE  Applying'
<1>1. CASE \E n \in Needs : Applies(n)
  BY <1>1, ApplyingSteps
<1>2. CASE ~(\E n \in Needs : Applies(n)) /\ ~Free
  <2>1. UNCHANGED <<held, uncleared, data, frozen, applying>>
    BY <1>2, OthersWait DEF browser
  <2>2. applying \in Needs
    BY <1>2 DEF Typed, TablesTyped, Uses, Free
  <2>3. transfer'[applying].at = transfer[applying].at
    BY <1>2, <2>1, <2>2, AppliedIsLeftAlone
  <2> QED
    BY <1>2, <2>1, <2>3 DEF Applying, Free
<1>3. CASE ~(\E n \in Needs : Applies(n)) /\ Free
  BY <1>3, OnlyJobsApply DEF Applying, Free
<1> QED
  BY <1>1, <1>2, <1>3

(* Every job that touches the browser leaves it as it says.                *)
LEMMA NothingStaysBehind ==
    ASSUME Typed, Applying, NothingIsLeftBehind, [Next]_vars
    PROVE  NothingIsLeftBehind'
<1> USE DEF tables, browser, ClearSite, LeaveUncleared, Free
<1>0. NoUse \notin Needs /\ uncleared \in BOOLEAN
  BY NamesAssumption DEF Typed, TablesTyped
<1>1. ASSUME UNCHANGED <<held, uncleared, data, frozen, applying>>
      PROVE  NothingIsLeftBehind'
  BY <1>1 DEF NothingIsLeftBehind
<1>2. ASSUME NEW n \in Needs, Applies(n)
      PROVE  NothingIsLeftBehind'
  BY <1>2, ApplyingSteps
<1>3. CASE ~Free /\ ~(\E n \in Needs : Applies(n))
  BY <1>1, <1>3, OthersWait
<1>4. ASSUME NEW c \in Channels, ChannelNext(c)
      PROVE  NothingIsLeftBehind'
  BY <1>1, <1>4 DEF ChannelNext, Open, Stop, ChannelClosed, EndRetires, EndReleases, Ended,
     OfferBegins, OfferReleases, OfferDiscards, OfferDiscarded, OfferCommits, HostDetaches
<1>5. ASSUME NEW n \in Needs, PageNext(n)
      PROVE  NothingIsLeftBehind'
  BY <1>1, <1>5 DEF PageNext, PassOrStop, PauseLapsed, Join, RaiseNeed, Move, Timeout, Refuse,
     Begin, Finish, Late, Close, Watch
<1>6. ASSUME NEW n \in Needs, JobNext(n), Free
      PROVE  NothingIsLeftBehind'
  <2>1. CASE ReleaseClears(n)
    BY <2>1 DEF ReleaseClears, NothingIsLeftBehind
  <2> QED
    BY <1>1, <1>2, <1>6, <2>1 DEF JobNext, RetireReleases, RetireEnds, ReleaseReturns
<1>7. ASSUME NEW w \in Detachers, Detaches(w)
      PROVE  NothingIsLeftBehind'
  BY <1>1, <1>7 DEF Detaches, DetachRefused, DetachClears, NothingIsLeftBehind
<1>8. CASE Expiry \/ Lapse \/ Reconnect \/ UNCHANGED vars
  BY <1>1, <1>8 DEF Expiry, Lapse, Reconnect, vars
<1>9. CASE Export
  BY <1>9 DEF Export, NothingIsLeftBehind
<1>10. CASE Recovers
  BY <1>10 DEF Recovers, RecoverClears, RecoverWaits, NothingIsLeftBehind
<1> QED
  BY <1>2, <1>3, <1>4, <1>5, <1>6, <1>7, <1>8, <1>9, <1>10 DEF Next

-----------------------------------------------------------------------------
(* Somebody answers every need.                                            *)

(* A retirement ends by its own two steps.                                 *)
LEMMA RetirementsStay ==
    ASSUME Typed, NEW n \in Needs, Retiring(n), retiring[n] # "no", [Next]_vars
    PROVE  retiring'[n] # "no" \/ RetireReleases(n) \/ RetireEnds(n)
<1>1. CASE Kept(n)
  BY <1>1 DEF Kept
<1>2. CASE Begin(n) \/ Finish(n)
  BY <1>2 DEF Begin, Finish
<1>3. CASE Applies(n)
  BY <1>3, AppliesSteps
<1>4. CASE RecoverClears \/ \E m \in Needs : RecoverWaits(m)
  BY <1>4 DEF RecoverClears, RecoverWaits
<1> QED
  BY <1>1, <1>2, <1>3, <1>4, TransferSteps

(* A retirement does not end while its need waits for a settled profile.   *)
LEMMA RetirementsRelease ==
    ASSUME NEW n \in Needs, Retiring(n), Held(n), ~uncleared, TransfersTyped,
           RetireReleases(n) \/ RetireEnds(n)
    PROVE  retiring'[n] # "no"
<1>1. CASE RetireReleases(n)
  BY <1>1 DEF RetireReleases, Retiring, Exists, TransfersTyped
<1>2. ~RetireEnds(n)
  BY DEF RetireEnds, Retiring
<1> QED
  BY <1>1, <1>2

(* A job keeps its transfer or hands it to a retirement.                   *)
LEMMA JobsStay ==
    ASSUME Typed, NEW n \in Needs, Retiring(n), Held(n), Held(n)', ~uncleared, [Next]_vars
    PROVE  /\ transfer[n].at \in {"queued", "frozen", "imported", "resumed", "failed"} =>
                 \/ transfer'[n].at \in {"queued", "frozen", "imported", "resumed", "failed"}
                 \/ retiring'[n] # "no" \/ transfer'[n].watched
           /\ transfer[n].watched =>
                 transfer'[n].watched \/ retiring'[n] # "no"
<1>0. TransfersTyped /\ PagesTyped
  BY DEF Typed
<1>1. CASE Kept(n)
  BY <1>1 DEF Kept
<1>2. CASE Begin(n)
  <2>1. transfer'[n] = [NoTransfer EXCEPT !.at = "loading", !.channel = channel, !.watched = TRUE,
                                          !.generation = generation, !.expected = held]
    BY <1>0, <1>2 DEF Begin, TransfersTyped
  <2> QED
    BY <2>1 DEF NoTransfer
<1>3. CASE Finish(n)
  BY <1>0, <1>3 DEF Finish, TransfersTyped, Transfer
<1>4. CASE Applies(n)
  <2>1. ~ApplyCommits(n)
    BY <1>0, CommitsAnswer
  <2> QED
    BY <1>4, <2>1, AppliesSteps
<1>5. CASE RetireReleases(n) \/ RetireEnds(n)
  BY <1>5 DEF RetireReleases, RetireEnds
<1>6. ~RecoverClears /\ ~(\E m \in Needs : RecoverWaits(m))
  BY DEF RecoverClears, RecoverWaits
<1> QED
  BY <1>1, <1>2, <1>3, <1>4, <1>5, <1>6, TransferSteps

LEMMA AnswerersStay ==
    ASSUME Typed, Pausing, \A n \in Needs : Retiring(n), PausesHaveAnAnswerer, [Next]_vars
    PROVE  PausesHaveAnAnswerer'
<1> DEFINE Applied == {"queued", "frozen", "imported", "resumed", "failed"}
<1> SUFFICES ASSUME NEW n \in Needs, Held(n)', ~uncleared'
             PROVE  \/ n \in releasing' \/ retiring'[n] # "no"
                    \/ transfer'[n].at \in Applied \/ transfer'[n].watched
                    \/ ~need'[n].admitted /\ ~need'[n].expired
  BY DEF PausesHaveAnAnswerer
<1>0. TransfersTyped /\ PagesTyped /\ TablesTyped
  BY DEF Typed
<1>1. CASE RaiseNeed(n)
  BY <1>0, <1>1 DEF RaiseNeed, NoNeed, PagesTyped
<1>2. CASE Held(n)
  <2>1. ~uncleared
    BY <1>0, MarksStay, RecoveryAnswers
  <2>2. CASE n \in releasing
    BY <1>0, <2>2, ReleasesStay, ReleasesAnswer
  <2>3. CASE retiring[n] # "no"
    BY <1>0, <1>2, <2>1, <2>3, RetirementsStay, RetirementsRelease
  <2>4. CASE transfer[n].at \in Applied \/ transfer[n].watched
    BY <1>2, <2>1, <2>4, JobsStay
  <2>5. CASE ~need[n].admitted /\ ~need[n].expired
    <3>1. CASE Begin(n)
      BY <1>0, <3>1 DEF Begin, TransfersTyped, NoTransfer
    <3>2. CASE Timeout(n)
      BY <3>2 DEF Timeout
    <3> QED
      BY <1>2, <2>5, <3>1, <3>2, PageSteps DEF RaiseNeed, Undecided, Held
  <2> QED
    BY <1>2, <2>1, <2>2, <2>3, <2>4, <2>5 DEF PausesHaveAnAnswerer
<1> QED
  BY <1>1, <1>2, PageSteps

-----------------------------------------------------------------------------
(* The invariant, and the theorems it gives.                               *)

CustodyInvariant ==
    /\ Typed /\ Pausing /\ (\A n \in Needs : Retiring(n))
    /\ Applying /\ NothingIsLeftBehind /\ PausesHaveAnAnswerer

LEMMA CustodyStarts == Init => CustodyInvariant
<1> SUFFICES ASSUME Init PROVE CustodyInvariant
  OBVIOUS
<1>1. Typed
  BY InitTyped
<1>2. /\ offered = FALSE /\ applying = NoUse /\ frozen = "no" /\ data = {}
      /\ \A n \in Needs : /\ page[n] = "new" /\ retiring[n] = "no" /\ transfer[n] = NoTransfer
                          /\ n \in Detachers /\ detach[n] = NoDetach
  BY DEF Init, Detachers
<1>3. Pausing /\ (\A n \in Needs : Retiring(n)) /\ Applying
  BY <1>2 DEF Pausing, Retiring, Applying, Free, Held, Exists, NoTransfer, NoDetach
<1>4. NothingIsLeftBehind /\ PausesHaveAnAnswerer
  BY <1>2 DEF NothingIsLeftBehind, PausesHaveAnAnswerer, Held
<1> QED
  BY <1>1, <1>3, <1>4 DEF CustodyInvariant

LEMMA CustodyStays == CustodyInvariant /\ [Next]_vars => CustodyInvariant'
<1> SUFFICES ASSUME CustodyInvariant, [Next]_vars PROVE CustodyInvariant'
  OBVIOUS
<1>0. /\ Typed /\ Pausing /\ (\A n \in Needs : Retiring(n))
      /\ Applying /\ NothingIsLeftBehind /\ PausesHaveAnAnswerer
  BY DEF CustodyInvariant
<1>1. Typed'
  BY <1>0, TablesStayTyped, RequestsStayTyped, TransfersStayTyped, PagesStayTyped DEF Typed
<1>2. Pausing'
  BY <1>0, PausingStays
<1>3. ASSUME NEW n \in Needs
      PROVE  Retiring(n)'
  BY <1>0, RetiringStays
<1>4. Applying' /\ NothingIsLeftBehind' /\ PausesHaveAnAnswerer'
  BY <1>0, ApplyingStays, NothingStaysBehind, AnswerersStay
<1> QED
  BY <1>1, <1>2, <1>3, <1>4 DEF CustodyInvariant

LEMMA CustodyHolds == Spec => []CustodyInvariant
BY CustodyStarts, CustodyStays, PTL DEF Spec

(* The tables of the site sessions keep their types, and the pending table *)
(* has an entry for exactly the documents that wait, one at a time.        *)
THEOREM CustodyIsTyped == Spec => []TypeOK
<1>1. CustodyInvariant => TypeOK
  BY TypedIsTypeOK DEF CustodyInvariant
<1> QED
  BY <1>1, CustodyHolds, PTL

(* Whenever no job of the transfers is at work on the browser and the      *)
(* profile is not marked uncleared, no document an import froze is left so,*)
(* and the browser stores nothing of the site unless a use is held.        *)
THEOREM NothingIsEverLeftBehind == Spec => []NothingIsLeftBehind
<1>1. CustodyInvariant => NothingIsLeftBehind
  BY DEF CustodyInvariant
<1> QED
  BY <1>1, CustodyHolds, PTL

(* Unless the profile is marked uncleared, a paused document always has a  *)
(* job, a watch or a timer that will answer it.                            *)
THEOREM PausesAlwaysHaveAnAnswerer == Spec => []PausesHaveAnAnswerer
<1>1. CustodyInvariant => PausesHaveAnAnswerer
  BY DEF CustodyInvariant
<1> QED
  BY <1>1, CustodyHolds, PTL

-----------------------------------------------------------------------------
(* What a step may never do.                                               *)

(* The four steps that end or replace the held use.                        *)
LEMMA HeldChanges ==
    ASSUME [Next]_vars, held' # held
    PROVE  \/ \E n \in Needs : ApplyCommits(n) \/ ReleaseClears(n)
           \/ \E w \in Detachers : DetachClears(w)
           \/ RecoverClears
<1> USE DEF tables
<1>1. ASSUME NEW c \in Channels, ChannelNext(c)
      PROVE  UNCHANGED held
  BY <1>1 DEF ChannelNext, Open, Stop, ChannelClosed, EndRetires, EndReleases, Ended,
     OfferBegins, OfferReleases, OfferDiscards, OfferDiscarded, OfferCommits, HostDetaches
<1>2. ASSUME NEW n \in Needs, PageNext(n)
      PROVE  UNCHANGED held
  BY <1>2 DEF PageNext, PassOrStop, PauseLapsed, Join, RaiseNeed, Move, Timeout, Refuse,
     Begin, Finish, Late, Close, Watch
<1>3. ASSUME NEW n \in Needs, JobNext(n)
      PROVE  UNCHANGED held \/ ApplyCommits(n) \/ ReleaseClears(n)
  BY <1>3 DEF JobNext, Applies, ApplyRefused, ApplyFreezes, ApplyImports, ApplyAbandons,
     ApplyResumes, ApplyUndoes, RetireReleases, RetireEnds, ReleaseReturns
<1>4. ASSUME NEW w \in Detachers, Detaches(w)
      PROVE  UNCHANGED held \/ DetachClears(w)
  BY <1>4 DEF Detaches, DetachRefused
<1>5. CASE Expiry \/ Lapse \/ Export \/ Reconnect \/ (\E n \in Needs : RecoverWaits(n))
           \/ UNCHANGED vars
  BY <1>5 DEF Expiry, Lapse, Export, RecoverWaits, Reconnect, vars
<1> QED
  BY <1>1, <1>2, <1>3, <1>4, <1>5 DEF Next, Recovers

Erased ==
    held # NoUse /\ held' # held =>
        \/ uncleared
        \/ \E n \in Needs :
               n \in releasing \ releasing' /\ Held(n) /\ ~Held(n)' /\ need[n].expected = held
        \/ held' \in Needs /\ transfer[held'].expected = held
        \/ \E w \in Detachers : /\ detach[w].at = "retiring" /\ detach'[w].at # "retiring"
                                /\ detach[w].expected \in {held, AnyUse}

LEMMA ErasesByName == CustodyInvariant /\ [Next]_vars => Erased
<1> SUFFICES ASSUME CustodyInvariant, [Next]_vars, held # NoUse, held' # held
             PROVE  Erased
  BY DEF Erased
<1>0. Typed /\ Pausing /\ PagesTyped
  BY DEF CustodyInvariant, Typed
<1>1. ASSUME NEW n \in Needs, ApplyCommits(n)
      PROVE  Erased
  BY <1>1 DEF ApplyCommits, Current, Erased
<1>2. ASSUME NEW n \in Needs, ReleaseClears(n)
      PROVE  Erased
  <2>1. Answer({n}, FALSE) /\ {n} \in SUBSET Raised
    BY <1>2 DEF ReleaseClears, Raised
  <2>2. ~Held(n)'
    BY <1>0, <2>1, AnswerKeeps DEF Answer
  <2>3. n \in releasing \ releasing' /\ Held(n) /\ need[n].expected = held
    BY <1>2 DEF ReleaseClears
  <2> QED
    BY <2>2, <2>3 DEF Erased
<1>3. ASSUME NEW w \in Detachers, DetachClears(w)
      PROVE  Erased
  <2>1. detach'[w].at # "retiring"
    BY <1>0, <1>3, DetachKeeps DEF Detaches
  <2> QED
    BY <1>3, <2>1 DEF DetachClears, Expects, Erased
<1>4. CASE RecoverClears
  BY <1>4 DEF RecoverClears, Erased
<1> QED
  BY <1>1, <1>2, <1>3, <1>4, HeldChanges

(* A held use ends or is replaced by a job that expected that very use, by *)
(* a detach of whatever is held, or by a recovery: a stale need, receipt   *)
(* or timer never erases the use that came after the one it was about.     *)
THEOREM UsesAreErasedByName == Spec => ErasedByName
<1>1. CustodyInvariant /\ [Next]_vars => [Erased]_vars
  BY ErasesByName
<1> QED
  BY <1>1, CustodyHolds, PTL DEF Spec, ErasedByName, Erased

(* What an answer does to a document that waits.                           *)
LEMMA AnswersExactly ==
    ASSUME NEW n \in Needs, Held(n), NEW N, NEW ok, page' = Answered(N, ok)
    PROVE  page'[n] = IF n \in N THEN Fate(ok) ELSE "held"
BY DEF Answered, Held

Settled ==
    \A n \in Needs :
        Held(n) /\ page'[n] = "passed" =>
            /\ frozen' # "transfer" /\ ~uncleared' /\ held' \in {n, NoUse}
            /\ held' = NoUse => data' = {}

LEMMA ProceedingSettles == CustodyInvariant /\ [Next]_vars => Settled
<1> SUFFICES ASSUME CustodyInvariant, [Next]_vars, NEW n \in Needs, Held(n), page'[n] = "passed"
             PROVE  /\ frozen' # "transfer" /\ ~uncleared' /\ held' \in {n, NoUse}
                    /\ held' = NoUse => data' = {}
  BY DEF Settled
<1> DEFINE Goal == /\ frozen' # "transfer" /\ ~uncleared' /\ held' \in {n, NoUse}
                   /\ held' = NoUse => data' = {}
<1> USE DEF pauses
<1>0. /\ PagesTyped /\ Pausing /\ Applying /\ NothingIsLeftBehind /\ NoUse \notin Needs
      /\ page[n] = "held"
  BY NamesAssumption DEF CustodyInvariant, Typed, Held
<1>1. page'[n] # page[n]
  BY <1>0
<1>2. ASSUME NEW c \in Channels, ChannelNext(c)
      PROVE  FALSE
  BY <1>1, <1>2 DEF ChannelNext, Open, Stop, ChannelClosed, EndRetires, EndReleases, Ended,
     OfferBegins, OfferReleases, OfferDiscards, OfferDiscarded, OfferCommits, HostDetaches
<1>3. ASSUME NEW m \in Needs, PageNext(m)
      PROVE  FALSE
  <2>1. ASSUME NEW at, page[m] = "new", page' = [page EXCEPT ![m] = at]
        PROVE  FALSE
    BY <1>0, <1>1, <2>1 DEF PagesTyped
  <2> QED
    BY <1>1, <1>3, <2>1 DEF PageNext, PassOrStop, PauseLapsed, Join, RaiseNeed, Undecided, Move,
       Timeout, Refuse, Begin, Finish, Late, Close, Watch
<1>4. ASSUME NEW m \in Needs, ApplyCommits(m)
      PROVE  Goal
  <2>1. n = m
    BY <1>0, <1>1, <1>4, AnswersExactly DEF ApplyCommits, Answer
  <2>2. /\ frozen # "transfer" /\ ~uncleared /\ UNCHANGED <<frozen, uncleared>> /\ held' = m
    BY <1>0, <1>4 DEF ApplyCommits, Applying, Free, browser
  <2> QED
    BY <1>0, <2>1, <2>2
<1>5. ASSUME NEW m \in Needs, ReleaseReturns(m)
      PROVE  FALSE
  BY <1>0, <1>1, <1>5, AnswersExactly DEF ReleaseReturns, Answer, Fate
<1>6. ASSUME NEW m \in Needs, ReleaseClears(m)
      PROVE  Goal
  <2>1. page' = Answered({m}, held = NoUse) /\ held' = NoUse
        /\ (IF held # NoUse THEN ClearSite ELSE UNCHANGED browser)
    BY <1>1, <1>6 DEF ReleaseClears, Answer
  <2>2. held = NoUse
    BY <1>1, <1>0, <2>1, AnswersExactly DEF Fate
  <2>3. frozen # "transfer" /\ ~uncleared /\ data = {}
    BY <1>0, <1>6, <2>2 DEF ReleaseClears, NothingIsLeftBehind
  <2> QED
    BY <2>1, <2>2, <2>3 DEF browser
<1>7. ASSUME NEW w \in Detachers, Detaches(w)
      PROVE  FALSE
  <2>1. n # w
    BY <1>0, <1>7 DEF Pausing, Detaches, DetachRefused, DetachClears
  <2>2. page' = Proceeding(w, FALSE, page) \/ page' = Proceeding(w, TRUE, Answered(Raised, FALSE))
    BY <1>7 DEF Detaches, DetachRefused, DetachClears
  <2>3. page'[n] = page[n] \/ page'[n] = Answered(Raised, FALSE)[n]
    <3>1. Answered(Raised, FALSE) \in [Needs -> PageStages] /\ page \in [Needs -> PageStages]
      BY <1>0, AnsweredKeeps DEF PagesTyped
    <3> QED
      BY <2>1, <2>2, <3>1 DEF Proceeding
  <2> QED
    BY <1>0, <1>1, <2>3 DEF Answered, Fate
<1>8. CASE RecoverClears
  BY <1>8 DEF RecoverClears
<1>9. CASE Expiry \/ Lapse \/ Export \/ Reconnect \/ (\E m \in Needs : RecoverWaits(m))
           \/ UNCHANGED vars
  BY <1>1, <1>9 DEF Expiry, Lapse, Export, RecoverWaits, Reconnect, vars
<1>10. ASSUME NEW m \in Needs, JobNext(m)
       PROVE  Goal
  <2>1. ASSUME UNCHANGED page
        PROVE  FALSE
    BY <1>1, <2>1
  <2> QED
    BY <1>4, <1>5, <1>6, <1>10, <2>1 DEF JobNext, Applies, ApplyRefused, ApplyFreezes, ApplyImports,
       ApplyAbandons, ApplyResumes, ApplyUndoes, RetireReleases, RetireEnds
<1> HIDE DEF Goal
<1> QED
  BY <1>2, <1>3, <1>7, <1>8, <1>9, <1>10 DEF Next, Recovers, Goal

(* A document that waited proceeds with the use that answered its need or  *)
(* with nothing of the site, once the documents an import froze run again  *)
(* and the profile is not marked uncleared.                                *)
THEOREM ProceedingIsSettled == Spec => ProceedsSettled
<1>1. CustodyInvariant /\ [Next]_vars => [Settled]_vars
  BY ProceedingSettles
<1> QED
  BY <1>1, CustodyHolds, PTL DEF Spec, ProceedsSettled, Settled
=============================================================================
