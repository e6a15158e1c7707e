-------------------------- MODULE TabBindingProofs --------------------------
(***************************************************************************)
(* Theorems about TabBinding, for every number of tabs ever opened.        *)
(*                                                                         *)
(* The manager keeps its binding by name and its active page by position.  *)
(* Each operation on it keeps the two together (the lemmas on Holds), and  *)
(* every step of the daemon is made of those operations.  A tab is known   *)
(* to be open, or a session's own, by invariants of the same kind: Known   *)
(* for the list of pages, Owning for the pin, the file and the promise.    *)
(***************************************************************************)
EXTENDS TabBinding, FiniteSetTheorems, SequenceTheorems, TLAPS

(* A manager whose binding, if it has one, is its active page.             *)
Holds(m) ==
    /\ m \in Manager
    /\ m.bound # NoTab => /\ m.active \in DOMAIN m.pages
                          /\ m.pages[m.active] = m.bound

Inv ==
    /\ Holds(manager)
    /\ targets \subseteq Tabs
    /\ events \subseteq Event
    /\ batch \subseteq Event
    /\ file.target \in Tabs \cup {NoTab}
    /\ file.pinned \in BOOLEAN
    /\ pin \in BOOLEAN

LEMMA NoTabIsNone == NoTab \notin Tabs
BY DEF NoTab, Tabs

-----------------------------------------------------------------------------
(* What each operation of the manager does to a manager that Holds.        *)

LEMMA NewHolds == Holds(NewManager)
BY DEF Holds, Manager, NewManager

LEMMA BindHolds ==
    ASSUME NEW m \in Manager
    PROVE  Holds(BindActiveTarget(m))
<1>1. CASE m.active \in DOMAIN m.pages
  <2>1. m.pages[m.active] \in Tabs
    BY <1>1, ElementOfSeq, LenProperties DEF Manager
  <2> QED
    BY <1>1, <2>1 DEF Holds, Manager, BindActiveTarget, ActivePage
<1>2. CASE m.active \notin DOMAIN m.pages
  BY <1>2 DEF Holds, Manager, BindActiveTarget, ActivePage
<1> QED
  BY <1>1, <1>2

LEMMA SetPinHolds ==
    ASSUME NEW m, Holds(m), NEW p \in BOOLEAN
    PROVE  Holds(SetPinTab(m, p))
<1>1. [m EXCEPT !.pin = TRUE] \in Manager
  BY DEF Holds, Manager
<1>2. Holds([m EXCEPT !.pin = FALSE, !.gone = NoTab])
  BY DEF Holds, Manager
<1> QED
  BY <1>1, <1>2, BindHolds DEF SetPinTab

LEMMA IndexIsAPage ==
    ASSUME NEW m \in Manager, NEW t, Has(m, t)
    PROVE  /\ IndexOf(m, t) \in DOMAIN m.pages
           /\ m.pages[IndexOf(m, t)] = t
           /\ IndexOf(m, t) \in Nat \ {0}
<1>1. PICK k \in DOMAIN m.pages : m.pages[k] = t
  BY DEF Has
<1>2. /\ IndexOf(m, t) \in DOMAIN m.pages
      /\ m.pages[IndexOf(m, t)] = t
  BY <1>1 DEF IndexOf
<1> QED
  BY <1>2 DEF Manager

LEMMA RestoreHolds ==
    ASSUME NEW m, Holds(m), NEW t \in Tabs \cup {NoTab}
    PROVE  Holds(RestoreTargetBinding(m, t))
<1>1. CASE Has(m, t)
  BY <1>1, IndexIsAPage DEF Holds, Manager, RestoreTargetBinding
<1>2. CASE ~Has(m, t)
  BY <1>2 DEF Holds, Manager, RestoreTargetBinding
<1> QED
  BY <1>1, <1>2

LEMMA AppendIsPages ==
    ASSUME NEW m \in Manager, NEW t \in Tabs
    PROVE  /\ Append(m.pages, t) \in Seq(Tabs)
           /\ Len(m.pages) + 1 \in Nat \ {0}
           /\ DOMAIN m.pages \subseteq DOMAIN Append(m.pages, t)
           /\ \A k \in DOMAIN m.pages : Append(m.pages, t)[k] = m.pages[k]
BY AppendProperties, LenProperties DEF Manager

LEMMA AddPageHolds ==
    ASSUME NEW m, Holds(m), NEW t \in Tabs
    PROVE  Holds(AddPage(m, t))
<1>1. [m EXCEPT !.pages = Append(@, t), !.active = Len(m.pages) + 1] \in Manager
  BY AppendIsPages DEF Holds, Manager
<1> QED
  BY <1>1, BindHolds DEF AddPage

LEMMA AddQuietlyHolds ==
    ASSUME NEW m, Holds(m), NEW t \in Tabs
    PROVE  Holds(AddPageQuietly(m, t))
BY AppendIsPages DEF Holds, Manager, AddPageQuietly

LEMMA RegisterHolds ==
    ASSUME NEW m, Holds(m), NEW t \in Tabs
    PROVE  Holds(RegisterDiscoveredPage(m, t))
BY AddPageHolds, AddQuietlyHolds DEF RegisterDiscoveredPage

(* The pages left when one goes keep their order.                          *)
LEMMA RemovalShifts ==
    ASSUME NEW s \in Seq(Tabs), NEW k \in DOMAIN s
    PROVE  /\ RemoveAt(s, k) \in Seq(Tabs)
           /\ Len(RemoveAt(s, k)) = Len(s) - 1
           /\ \A j \in 1..(k - 1) : RemoveAt(s, k)[j] = s[j]
           /\ \A j \in k..(Len(s) - 1) : RemoveAt(s, k)[j] = s[j + 1]
<1> DEFINE a == SubSeq(s, 1, k - 1)
           b == SubSeq(s, k + 1, Len(s))
<1>1. k \in 1..Len(s) /\ Len(s) \in Nat
  BY LenProperties
<1>2. a \in Seq(Tabs) /\ Len(a) = k - 1 /\ \A j \in 1..(k - 1) : a[j] = s[j]
  BY <1>1, SubSeqProperties
<1>3. b \in Seq(Tabs) /\ Len(b) = Len(s) - k /\ \A j \in 1..(Len(s) - k) : b[j] = s[j + k]
  BY <1>1, SubSeqProperties
<1>4. RemoveAt(s, k) = a \o b
  BY DEF RemoveAt
<1> HIDE DEF a, b
<1>5. a \o b \in Seq(Tabs) /\ Len(a \o b) = Len(s) - 1
  BY <1>1, <1>2, <1>3, ConcatProperties
<1>6. \A j \in 1..(k - 1) : (a \o b)[j] = s[j]
  BY <1>1, <1>2, <1>3, ConcatProperties
<1>7. ASSUME NEW j \in k..(Len(s) - 1)
      PROVE  (a \o b)[j] = s[j + 1]
  <2>1. (a \o b)[j] = b[j - (k - 1)]
    BY <1>1, <1>2, <1>3, <1>7, ConcatProperties
  <2>2. j - (k - 1) \in 1..(Len(s) - k)
    BY <1>1, <1>7
  <2> QED
    BY <1>1, <1>3, <1>7, <2>1, <2>2
<1> QED
  BY <1>4, <1>5, <1>6, <1>7

LEMMA RemoveHolds ==
    ASSUME NEW m, Holds(m), NEW t \in Tabs, Has(m, t)
    PROVE  Holds(RemovePage(m, t))
<1> DEFINE k == IndexOf(m, t)
           rest == RemoveAt(m.pages, k)
           n == Len(m.pages) - 1
           next == ActivePageIndexAfterRemoval(m.active, k, n)
           left == [m EXCEPT !.pages = rest, !.active = next]
<1>1. /\ m \in Manager
      /\ m.pages \in Seq(Tabs)
      /\ m.active \in Nat \ {0}
  BY DEF Holds, Manager
<1>2. /\ k \in DOMAIN m.pages
      /\ m.pages[k] = t
      /\ k \in 1..Len(m.pages)
  BY <1>1, IndexIsAPage
<1> HIDE DEF k
<1>3. /\ rest \in Seq(Tabs)
      /\ Len(rest) = n
      /\ \A j \in 1..(k - 1) : rest[j] = m.pages[j]
      /\ \A j \in k..n : rest[j] = m.pages[j + 1]
  BY <1>1, <1>2, RemovalShifts
<1> HIDE DEF rest
<1>4. n \in Nat /\ k \in Nat \ {0}
  BY <1>1, <1>2
<1>5. next \in Nat \ {0}
  BY <1>1, <1>4 DEF ActivePageIndexAfterRemoval
<1>6. left \in Manager /\ left.bound = m.bound /\ left.pages = rest /\ left.active = next
  BY <1>1, <1>3, <1>5 DEF Manager
<1>7. RemovePage(m, t) = HandleBoundTargetRemoved(left, t)
  BY DEF RemovePage, k, rest
<1>8. CASE m.bound = t \/ m.bound = NoTab
  BY <1>6, <1>7, <1>8 DEF HandleBoundTargetRemoved, Holds, Manager
<1>9. CASE m.bound # t /\ m.bound # NoTab
  <2>1. /\ m.active \in 1..Len(m.pages)
        /\ m.pages[m.active] = m.bound
        /\ m.active # k
    BY <1>1, <1>2, <1>9 DEF Holds
  <2>2. next \in 1..n /\ rest[next] = m.bound
    <3>1. CASE k < m.active
      <4>1. next = m.active - 1 /\ next \in k..n
        BY <1>1, <1>4, <2>1, <3>1 DEF ActivePageIndexAfterRemoval
      <4> QED
        BY <1>1, <1>3, <1>4, <2>1, <4>1
    <3>2. CASE m.active < k
      <4>1. next = m.active /\ next \in 1..(k - 1) /\ next \in 1..n
        BY <1>1, <1>2, <1>4, <2>1, <3>2 DEF ActivePageIndexAfterRemoval
      <4> QED
        BY <1>3, <2>1, <4>1
    <3> QED
      BY <1>1, <1>4, <2>1, <3>1, <3>2
  <2>3. DOMAIN rest = 1..n
    BY <1>3
  <2>4. HandleBoundTargetRemoved(left, t) = left
    BY <1>6, <1>9 DEF HandleBoundTargetRemoved
  <2> HIDE DEF next, n, left
  <2> QED
    BY <1>6, <1>7, <2>2, <2>3, <2>4 DEF Holds
<1> QED
  BY <1>8, <1>9

-----------------------------------------------------------------------------
(* What a step does to the tabs, the events and the file.                  *)

LEMMA NoFileIsBlank == NoFile.target = NoTab /\ NoFile.pinned = FALSE
BY DEF NoFile

LEMMA SentIsEvents ==
    ASSUME Inv, NEW t \in Tabs, NEW kind \in {"opened", "closed"}
    PROVE  Sent(kind, t) \subseteq Event
BY DEF Inv, Sent, Event

LEMMA CreateKeeps ==
    ASSUME Inv, NEW t \in Tabs, Create(t)
    PROVE  targets' \subseteq Tabs /\ events' \subseteq Event
BY SentIsEvents DEF Inv, Create

LEMMA CloseKeeps ==
    ASSUME Inv, NEW t \in Tabs, Close(t)
    PROVE  targets' \subseteq Tabs /\ events' \subseteq Event
BY SentIsEvents DEF Inv, Close

LEMMA FreshTabKeeps ==
    ASSUME Inv, NEW m, Holds(m), NEW t \in Tabs, FreshTab(m, t)
    PROVE  Holds(manager') /\ targets' \subseteq Tabs /\ events' \subseteq Event
BY AddPageHolds, CreateKeeps DEF FreshTab

LEMMA SnapshotIsBinding ==
    ASSUME NEW m, Holds(m), NEW p \in BOOLEAN
    PROVE  Snapshot(m, p) \in Binding
<1>1. NoFile \in Binding
  BY DEF NoFile, Binding
<1>2. ActivePage(m) \in Tabs \cup {NoTab}
  BY ElementOfSeq, LenProperties DEF Holds, Manager, ActivePage
<1> QED
  BY <1>1, <1>2 DEF Snapshot, Binding

LEMMA SaveKeeps ==
    ASSUME Inv, NEW m, Holds(m), NEW p \in BOOLEAN, Save(m, p) \/ SaveFails(m, p)
    PROVE  file'.target \in Tabs \cup {NoTab} /\ file'.pinned \in BOOLEAN
<1>1. Snapshot(m, p) \in Binding
  BY SnapshotIsBinding
<1> QED
  BY <1>1 DEF Inv, Save, SaveFails, Binding

LEMMA AttachmentHolds ==
    ASSUME Inv
    PROVE  Holds(Attachment) /\ Strict \in BOOLEAN
<1>1. Strict \in BOOLEAN
  BY DEF Inv, Strict
<1> QED
  BY <1>1, SetPinHolds DEF Inv, Attachment

(* The order of the tabs a connection finds is a list of open tabs.        *)
LEMMA ListsAreSequences ==
    ASSUME NEW T \in SUBSET Tabs, NEW s \in SetToSeqs(T)
    PROVE  s \in Seq(Tabs)
<1>1. IsFiniteSet(Tabs)
  BY MaxTabsAssumption, FS_Interval DEF Tabs
<1>2. IsFiniteSet(T)
  BY <1>1, FS_Subset
<1>3. Cardinality(T) \in Nat
  BY <1>2, FS_CardinalityType
<1>4. s \in [1..Cardinality(T) -> T]
  BY DEF SetToSeqs
<1>5. s \in [1..Cardinality(T) -> Tabs]
  BY <1>4
<1> QED
  BY <1>3, <1>5, SeqDef

LEMMA DiscoveredHolds ==
    ASSUME Inv, Discovered(manager')
    PROVE  Holds(manager') /\ targets' \subseteq Tabs
<1>1. CASE \E t \in Tabs : /\ targets' = {t}
                           /\ manager' = AddPage(NewManager, t)
  BY <1>1, NewHolds, AddPageHolds
<1>2. CASE \E s \in SetToSeqs(targets), k \in Tabs :
              /\ manager' = [NewManager EXCEPT !.pages = s, !.active = k]
              /\ UNCHANGED browser
  <2>1. PICK s \in SetToSeqs(targets), k \in Tabs :
            /\ manager' = [NewManager EXCEPT !.pages = s, !.active = k]
            /\ UNCHANGED browser
    BY <1>2
  <2>2. s \in Seq(Tabs) /\ k \in Nat \ {0}
    BY <2>1, ListsAreSequences DEF Inv, Tabs
  <2>3. manager' \in Manager /\ manager'.bound = NoTab
    BY <2>1, <2>2 DEF Manager, NewManager
  <2> QED
    BY <2>1, <2>3 DEF Inv, Holds, browser
<1> QED
  BY <1>1, <1>2 DEF Discovered

-----------------------------------------------------------------------------
LEMMA InitHolds == Init => Inv
BY NewHolds, NoFileIsBlank DEF Init, Inv

LEMMA OthersKeep == Inv /\ Others => Inv'
<1> SUFFICES ASSUME Inv, Others PROVE Inv'
  OBVIOUS
<1>1. ASSUME NEW t \in Tabs, OthersOpen(t)
      PROVE  Inv'
  BY <1>1, CreateKeeps DEF Inv, OthersOpen, settings
<1>2. ASSUME NEW t \in Tabs, OthersClose(t)
      PROVE  Inv'
  BY <1>2, CloseKeeps DEF Inv, OthersClose, settings
<1>3. ASSUME NEW t \in Tabs, Announce(t)
      PROVE  Inv'
  BY <1>3, SentIsEvents DEF Inv, Announce, settings, browser
<1>4. ASSUME NEW e \in events, Overflow(e)
      PROVE  Inv'
  BY <1>4 DEF Inv, Overflow, settings, browser
<1>5. ASSUME LinkLost
      PROVE  Inv'
  BY <1>5 DEF Inv, LinkLost, settings, browser
<1> QED
  BY <1>1, <1>2, <1>3, <1>4, <1>5 DEF Others

LEMMA ApplyKeeps == Inv /\ Apply => Inv'
<1> SUFFICES ASSUME Inv, Apply PROVE Inv'
  OBVIOUS
<1>1. PICK e \in batch :
        /\ RemoveDestroyed(e) \/ AdoptDiscovered(e)
        /\ batch' = batch \ {e}
        /\ UNCHANGED <<browser, connection, settings, up, command, promised>>
  BY DEF Apply
<1>2. e.tab \in Tabs
  BY DEF Inv, Event
<1>3. Holds(manager')
  <2>1. CASE RemoveDestroyed(e)
    BY <1>2, <2>1, RemoveHolds DEF Inv, RemoveDestroyed
  <2>2. CASE AdoptDiscovered(e)
    BY <1>2, <2>2, RegisterHolds DEF Inv, AdoptDiscovered
  <2> QED
    BY <1>1, <2>1, <2>2
<1> QED
  BY <1>1, <1>3 DEF Inv, browser, connection, settings

LEMMA ProcessKeeps == Inv /\ Process => Inv'
<1> SUFFICES ASSUME Inv, Process PROVE Inv'
  OBVIOUS
<1>1. ASSUME NEW flag \in BOOLEAN, NEW readable \in BOOLEAN, Start(flag, readable)
      PROVE  Inv'
  BY <1>1 DEF Inv, Start, browser, connection
<1>2. ASSUME Crash
      PROVE  Inv'
  BY <1>2, NewHolds DEF Inv, Crash, browser
<1>3. ASSUME Tick \/ Refresh
      PROVE  Inv'
  BY <1>3 DEF Inv, Tick, Refresh, Take, browser, settings
<1> QED
  BY <1>1, <1>2, <1>3, ApplyKeeps DEF Process

LEMMA OpeningKeeps == Inv /\ Opening => Inv'
<1> SUFFICES ASSUME Inv, Opening PROVE Inv'
  OBVIOUS
<1>1. ASSUME NEW flag \in {"keep", "pin", "unpin"}, NEW skip \in BOOLEAN, Begin(flag, skip)
      PROVE  Inv'
  BY <1>1 DEF Inv, Begin, Take, browser, settings
<1>2. ASSUME KeepPin \/ ToggleFails
      PROVE  Inv'
  BY <1>2 DEF Inv, KeepPin, ToggleFails, browser, connection, settings
<1>3. ASSUME TogglePin
      PROVE  Inv'
  <2>1. Asked \in BOOLEAN
    BY DEF Asked
  <2>2. Holds(manager')
    BY <1>3, <2>1, SetPinHolds DEF Inv, TogglePin
  <2>3. file'.target = file.target /\ file'.pinned \in BOOLEAN
    <3>1. CASE file = NoFile
      BY <1>3, <3>1 DEF Inv, TogglePin
    <3>2. CASE file # NoFile
      BY <1>3, <2>1, <3>2 DEF Inv, TogglePin
    <3> QED
      BY <3>1, <3>2
  <2> QED
    BY <1>3, <2>1, <2>2, <2>3 DEF Inv, TogglePin, browser, connection
<1> QED
  BY <1>1, <1>2, <1>3 DEF Opening

LEMMA AttachKeeps == Inv /\ Attach => Inv'
<1> SUFFICES ASSUME Inv, Attach PROVE Inv'
  OBVIOUS
<1> USE AttachmentHolds
<1>1. ASSUME NEW how, Connect(how)
      PROVE  Inv'
  BY <1>1, DiscoveredHolds DEF Inv, Connect, settings
<1>2. ASSUME ConnectFails
      PROVE  Inv'
  BY <1>2, NewHolds DEF Inv, ConnectFails, Disconnect, browser, settings
<1>3. ASSUME Subscribe
      PROVE  Inv'
  BY <1>3 DEF Inv, Subscribe, browser, settings
<1>4. ASSUME Restore
      PROVE  Inv'
  <2>1. Holds(manager')
    BY <1>4, RestoreHolds DEF Inv, Restore
  <2>2. file'.target \in Tabs \cup {NoTab} /\ file'.pinned \in BOOLEAN
    BY <1>4, <2>1, SaveKeeps DEF Restore
  <2> QED
    BY <1>4, <2>1, <2>2 DEF Inv, Restore, browser, connection
<1>5. ASSUME KeepDiscovered
      PROVE  Inv'
  <2>1. Holds(manager')
    BY <1>5, RestoreHolds DEF Inv, KeepDiscovered
  <2> QED
    BY <1>5, <2>1 DEF Inv, KeepDiscovered, NoFile, browser, connection
<1>6. ASSUME RestoreFails
      PROVE  Inv'
  <2>1. file' \in {file, NoFile} /\ pin' \in BOOLEAN
    BY <1>6 DEF Inv, RestoreFails
  <2>2. file'.target \in Tabs \cup {NoTab} /\ file'.pinned \in BOOLEAN
    BY <2>1, NoFileIsBlank DEF Inv
  <2> QED
    BY <1>6, <2>1, <2>2, NewHolds DEF Inv, RestoreFails, Disconnect, browser
<1>7. ASSUME NEW t \in Tabs, OpenOnAttach(t)
      PROVE  Inv'
  <2>1. Holds(manager') /\ targets' \subseteq Tabs /\ events' \subseteq Event
    BY <1>7, FreshTabKeeps DEF OpenOnAttach
  <2>2. Snapshot(manager', Strict) \in Binding /\ NoFile \in Binding
    BY <2>1, SnapshotIsBinding DEF NoFile, Binding
  <2>3. file' \in Binding
    BY <1>7, <2>2 DEF OpenOnAttach
  <2> QED
    BY <1>7, <2>1, <2>3 DEF Inv, OpenOnAttach, Binding
<1> QED
  BY <1>1, <1>2, <1>3, <1>4, <1>5, <1>6, <1>7 DEF Attach

LEMMA BodyKeeps == Inv /\ Body => Inv'
<1> SUFFICES ASSUME Inv, Body PROVE Inv'
  OBVIOUS
<1>1. ASSUME EnsurePage
      PROVE  Inv'
  <2>1. CASE \E t \in Tabs : FreshTab(manager, t)
    BY <1>1, <2>1, FreshTabKeeps DEF Inv, EnsurePage, settings
  <2>2. CASE UNCHANGED <<browser, events, manager, mine>>
    BY <1>1, <2>2 DEF Inv, EnsurePage, browser, settings
  <2> QED
    BY <1>1, <2>1, <2>2 DEF EnsurePage
<1>2. ASSUME Refuse \/ Admit \/ Act
      PROVE  Inv'
  BY <1>2 DEF Inv, Refuse, Admit, Act, browser, connection, settings
<1>3. ASSUME NEW clean \in BOOLEAN, EndUse(clean) \/ ListOrFail(clean)
      PROVE  Inv'
  BY <1>3 DEF Inv, EndUse, ListOrFail, browser, connection, settings
<1>4. ASSUME NEW t \in Tabs, NEW clean \in BOOLEAN, OpenTab(t, clean)
      PROVE  Inv'
  BY <1>4, FreshTabKeeps DEF Inv, OpenTab, settings
<1>5. ASSUME NEW t \in Tabs, NEW clean \in BOOLEAN, SwitchTab(t, clean)
      PROVE  Inv'
  <2>1. [manager EXCEPT !.active = IndexOf(manager, t)] \in Manager
    BY <1>5, IndexIsAPage DEF Inv, Holds, Manager, SwitchTab
  <2>2. Holds(manager')
    BY <1>5, <2>1, BindHolds DEF SwitchTab
  <2> QED
    BY <1>5, <2>2 DEF Inv, SwitchTab, browser, connection, settings
<1>6. ASSUME NEW t \in Tabs, OpenBackgroundTab(t)
      PROVE  Inv'
  BY <1>6, AddQuietlyHolds, CreateKeeps DEF Inv, OpenBackgroundTab, settings
<1>7. ASSUME NEW t \in Tabs, CloseTab(t)
      PROVE  Inv'
  <2>1. Holds(manager')
    BY <1>7, RemoveHolds DEF Inv, CloseTab
  <2>2. targets' \subseteq Tabs /\ events' \subseteq Event
    BY <1>7, CloseKeeps DEF Inv, CloseTab, browser
  <2> QED
    BY <1>7, <2>1, <2>2 DEF Inv, CloseTab, settings
<1>8. ASSUME Skip
      PROVE  Inv'
  BY <1>8 DEF Inv, Skip, Take, browser, settings
<1>9. ASSUME Persist
      PROVE  Inv'
  <2>1. file'.target \in Tabs \cup {NoTab} /\ file'.pinned \in BOOLEAN
    BY <1>9, SaveKeeps DEF Inv, Persist
  <2> QED
    BY <1>9, <2>1 DEF Inv, Persist, Take, browser
<1>10. ASSUME Reply
       PROVE  Inv'
  BY <1>10 DEF Inv, Reply, browser, connection, settings
<1> QED
  BY <1>1, <1>2, <1>3, <1>4, <1>5, <1>6, <1>7, <1>8, <1>9, <1>10 DEF Body

(* Whatever closes, opens, fails or restarts in whatever order, the active *)
(* page of a session that is bound is the tab it is bound to.              *)
THEOREM TheActivePageIsTheBoundTab == Spec => []ActiveIsBound
<1>1. Inv /\ UNCHANGED vars => Inv'
  BY DEF Inv, vars, browser, settings, connection
<1>2. Inv /\ [Next]_vars => Inv'
  BY <1>1, OthersKeep, ProcessKeeps, OpeningKeeps, AttachKeeps, BodyKeeps DEF Next
<1>3. Inv => ActiveIsBound
  BY DEF Inv, Holds, ActiveIsBound, ActivePage
<1> QED
  BY InitHolds, <1>2, <1>3, PTL DEF Spec

-----------------------------------------------------------------------------
(* The file, and the copy of it that decides whether to write.             *)

LEMMA SaveMatches ==
    ASSUME CacheMatchesFile, NEW m, NEW p, Save(m, p) \/ SaveFails(m, p)
    PROVE  CacheMatchesFile'
BY DEF CacheMatchesFile, Save, SaveFails

LEMMA FileUntouched ==
    ASSUME CacheMatchesFile, UNCHANGED file, persisted' \in {persisted, NoFile}
    PROVE  CacheMatchesFile'
BY DEF CacheMatchesFile

(* A drop of the file takes the copy with it or finds neither.             *)
LEMMA DropMatches ==
    ASSUME CacheMatchesFile, file = NoFile \/ Stale, file' = NoFile,
           persisted' = IF Stale THEN NoFile ELSE persisted
    PROVE  CacheMatchesFile'
BY DEF CacheMatchesFile

LEMMA OpeningMatches == CacheMatchesFile /\ Opening => CacheMatchesFile'
<1> SUFFICES ASSUME CacheMatchesFile, Opening PROVE CacheMatchesFile'
  OBVIOUS
<1>1. ASSUME NEW flag, NEW skip, Begin(flag, skip)
      PROVE  CacheMatchesFile'
  BY <1>1, FileUntouched DEF Begin, settings
<1>2. ASSUME KeepPin \/ ToggleFails
      PROVE  CacheMatchesFile'
  BY <1>2, FileUntouched DEF KeepPin, ToggleFails, settings
<1>3. ASSUME TogglePin
      PROVE  CacheMatchesFile'
  BY <1>3 DEF CacheMatchesFile, TogglePin
<1> QED
  BY <1>1, <1>2, <1>3 DEF Opening

LEMMA AttachMatches == CacheMatchesFile /\ Attach => CacheMatchesFile'
<1> SUFFICES ASSUME CacheMatchesFile, Attach PROVE CacheMatchesFile'
  OBVIOUS
<1>1. ASSUME NEW how, Connect(how)
      PROVE  CacheMatchesFile'
  BY <1>1, FileUntouched DEF Connect, settings
<1>2. ASSUME ConnectFails \/ Subscribe
      PROVE  CacheMatchesFile'
  BY <1>2, FileUntouched DEF ConnectFails, Subscribe, settings
<1>3. ASSUME Restore
      PROVE  CacheMatchesFile'
  BY <1>3, SaveMatches DEF Restore
<1>4. ASSUME KeepDiscovered
      PROVE  CacheMatchesFile'
  BY <1>4, DropMatches DEF KeepDiscovered
<1>5. ASSUME RestoreFails
      PROVE  CacheMatchesFile'
  BY <1>5 DEF CacheMatchesFile, RestoreFails
<1>6. ASSUME NEW t \in Tabs, OpenOnAttach(t)
      PROVE  CacheMatchesFile'
  <2>1. CASE file' = persisted'
    BY <2>1 DEF CacheMatchesFile
  <2>2. CASE file' = NoFile /\ persisted' = IF Stale THEN NoFile ELSE persisted
    BY <1>6, <2>2, DropMatches DEF OpenOnAttach
  <2> QED
    BY <1>6, <2>1, <2>2 DEF OpenOnAttach
<1> QED
  BY <1>1, <1>2, <1>3, <1>4, <1>5, <1>6 DEF Attach

LEMMA BodyMatches == CacheMatchesFile /\ Body => CacheMatchesFile'
<1> SUFFICES ASSUME CacheMatchesFile, Body PROVE CacheMatchesFile'
  OBVIOUS
<1>1. ASSUME EnsurePage \/ Refuse \/ Admit \/ Act \/ Skip \/ Reply
      PROVE  CacheMatchesFile'
  BY <1>1, FileUntouched DEF EnsurePage, Refuse, Admit, Act, Skip, Reply, settings
<1>2. ASSUME NEW clean \in BOOLEAN, EndUse(clean) \/ ListOrFail(clean)
      PROVE  CacheMatchesFile'
  BY <1>2, FileUntouched DEF EndUse, ListOrFail, settings
<1>3. ASSUME NEW t \in Tabs, NEW clean \in BOOLEAN, OpenTab(t, clean) \/ SwitchTab(t, clean)
      PROVE  CacheMatchesFile'
  BY <1>3, FileUntouched DEF OpenTab, SwitchTab, settings
<1>4. ASSUME NEW t \in Tabs, OpenBackgroundTab(t) \/ CloseTab(t)
      PROVE  CacheMatchesFile'
  BY <1>4, FileUntouched DEF OpenBackgroundTab, CloseTab, settings
<1>5. ASSUME Persist
      PROVE  CacheMatchesFile'
  BY <1>5, SaveMatches DEF Persist
<1> QED
  BY <1>1, <1>2, <1>3, <1>4, <1>5 DEF Body

LEMMA ElsewhereMatches == CacheMatchesFile /\ (Others \/ Process) => CacheMatchesFile'
<1> SUFFICES ASSUME CacheMatchesFile, Others \/ Process PROVE CacheMatchesFile'
  OBVIOUS
<1>1. ASSUME Others
      PROVE  CacheMatchesFile'
  BY <1>1, FileUntouched
     DEF Others, OthersOpen, OthersClose, Announce, Overflow, LinkLost, settings
<1>2. ASSUME Process
      PROVE  CacheMatchesFile'
  BY <1>2, FileUntouched DEF Process, Start, Crash, Tick, Refresh, Apply, settings
<1> QED
  BY <1>1, <1>2

(* The write the daemon leaves out would have changed nothing: what it     *)
(* remembers to have persisted is in the file, whatever failed between.    *)
THEOREM TheCacheIsTheFile == Spec => []CacheMatchesFile
<1>1. Init => CacheMatchesFile
  BY DEF Init, CacheMatchesFile
<1>2. CacheMatchesFile /\ UNCHANGED vars => CacheMatchesFile'
  BY DEF CacheMatchesFile, vars, settings
<1>3. CacheMatchesFile /\ [Next]_vars => CacheMatchesFile'
  BY <1>2, ElsewhereMatches, OpeningMatches, AttachMatches, BodyMatches DEF Next
<1> QED
  BY <1>1, <1>3, PTL DEF Spec

-----------------------------------------------------------------------------
(* The pages listed, and what becomes of the tabs behind them.             *)

Listed(m) == {m.pages[k] : k \in DOMAIN m.pages}

(* A listed tab is open, or its end is on its way, or it was lost.         *)
Tracked(t) ==
    \/ t \in targets \cup missed
    \/ subscribed /\ [kind |-> "closed", tab |-> t] \in events \cup batch

(* Only born tabs are listed, each once: so a new tab is not yet listed,   *)
(* and one removal is enough.                                              *)
Known ==
    /\ born \in Nat
    /\ targets \subseteq 1..born
    /\ Listed(manager) \subseteq 1..born
    /\ Distinct(manager.pages)
    /\ subscribed \in BOOLEAN
    /\ subscribed => Connected
    /\ Connected => \A t \in Listed(manager) : Tracked(t)

LEMMA AppendLists ==
    ASSUME NEW s \in Seq(Tabs), NEW t \in Tabs
    PROVE  LET a == Append(s, t)
           IN  /\ {a[k] : k \in DOMAIN a} = {s[k] : k \in DOMAIN s} \cup {t}
               /\ Distinct(s) /\ t \notin {s[k] : k \in DOMAIN s} => Distinct(a)
<1> DEFINE a == Append(s, t)
           n == Len(s)
<1>1. /\ n \in Nat
      /\ DOMAIN s = 1..n
      /\ DOMAIN a = 1..(n + 1)
      /\ a[n + 1] = t
      /\ \A k \in 1..n : a[k] = s[k]
  BY AppendProperties, LenProperties
<1> HIDE DEF a, n
<1>2. {a[k] : k \in DOMAIN a} = {s[k] : k \in DOMAIN s} \cup {t}
  <2>1. \A k \in 1..(n + 1) : k \in 1..n \/ k = n + 1
    BY <1>1
  <2>2. \A k \in 1..n : k \in 1..(n + 1)
    BY <1>1
  <2>3. n + 1 \in 1..(n + 1)
    BY <1>1
  <2> QED
    BY <1>1, <2>1, <2>2, <2>3
<1>3. ASSUME Distinct(s), t \notin {s[k] : k \in DOMAIN s}
      PROVE  Distinct(a)
  <2> SUFFICES ASSUME NEW j \in DOMAIN a, NEW k \in DOMAIN a, a[j] = a[k]
               PROVE  j = k
    BY DEF Distinct
  <2>1. (j \in 1..n \/ j = n + 1) /\ (k \in 1..n \/ k = n + 1)
    BY <1>1
  <2> QED
    BY <1>1, <1>3, <2>1 DEF Distinct
<1> QED
  BY <1>2, <1>3 DEF a

LEMMA RemovalUnlists ==
    ASSUME NEW s \in Seq(Tabs), NEW k \in DOMAIN s, Distinct(s)
    PROVE  LET r == RemoveAt(s, k)
           IN  /\ {r[j] : j \in DOMAIN r} = {s[j] : j \in DOMAIN s} \ {s[k]}
               /\ Distinct(r)
<1> DEFINE r == RemoveAt(s, k)
           n == Len(s)
<1>1. /\ n \in Nat
      /\ k \in 1..n
      /\ DOMAIN s = 1..n
      /\ DOMAIN r = 1..(n - 1)
      /\ \A j \in 1..(k - 1) : r[j] = s[j]
      /\ \A j \in k..(n - 1) : r[j] = s[j + 1]
  BY RemovalShifts, LenProperties
<1> HIDE DEF r, n
<1>2. \A j \in 1..(n - 1) : \/ j \in 1..(k - 1) /\ j \in 1..n /\ j # k /\ r[j] = s[j]
                            \/ j \in k..(n - 1) /\ j + 1 \in 1..n /\ j + 1 # k /\ r[j] = s[j + 1]
  BY <1>1
<1>3. Distinct(r)
  <2> SUFFICES ASSUME NEW i \in DOMAIN r, NEW j \in DOMAIN r, r[i] = r[j]
               PROVE  i = j
    BY DEF Distinct
  <2> QED
    BY <1>1, <1>2 DEF Distinct
<1>4. ASSUME NEW j \in DOMAIN r
      PROVE  r[j] \in {s[i] : i \in DOMAIN s} \ {s[k]}
  BY <1>1, <1>2 DEF Distinct
<1>5. ASSUME NEW j \in DOMAIN s, s[j] # s[k]
      PROVE  s[j] \in {r[i] : i \in DOMAIN r}
  <2>1. CASE j < k
    <3>1. j \in 1..(k - 1) /\ j \in 1..(n - 1)
      BY <1>1, <2>1
    <3> QED
      BY <1>1, <3>1
  <2>2. CASE j > k
    <3>1. j - 1 \in k..(n - 1) /\ j - 1 \in 1..(n - 1) /\ (j - 1) + 1 = j
      BY <1>1, <2>2
    <3> QED
      BY <1>1, <3>1
  <2> QED
    BY <1>1, <1>5, <2>1, <2>2
<1> QED
  BY <1>3, <1>4, <1>5 DEF r

(* What each operation of the manager does to the list.                    *)
LEMMA SettingsListNothing ==
    ASSUME NEW m \in Manager
    PROVE  /\ BindActiveTarget(m).pages = m.pages
           /\ \A p : SetPinTab(m, p).pages = m.pages
           /\ \A t : RestoreTargetBinding(m, t).pages = m.pages
           /\ \A t : HandleBoundTargetRemoved(m, t).pages = m.pages
BY DEF Manager, BindActiveTarget, SetPinTab, RestoreTargetBinding, HandleBoundTargetRemoved

LEMMA AddLists ==
    ASSUME NEW m, Holds(m), NEW t \in Tabs, NEW a \in {AddPage(m, t), AddPageQuietly(m, t)}
    PROVE  /\ Listed(a) = Listed(m) \cup {t}
           /\ Distinct(m.pages) /\ t \notin Listed(m) => Distinct(a.pages)
<1>1. m \in Manager /\ m.pages \in Seq(Tabs)
  BY DEF Holds, Manager
<1>2. a.pages = Append(m.pages, t)
  <2>1. [m EXCEPT !.pages = Append(@, t), !.active = Len(m.pages) + 1] \in Manager
    BY <1>1, AppendIsPages DEF Manager
  <2>2. AddPage(m, t).pages = Append(m.pages, t)
    BY <1>1, <2>1, SettingsListNothing DEF AddPage, Manager
  <2> QED
    BY <1>1, <2>2 DEF AddPageQuietly, Manager
<1> QED
  BY <1>1, <1>2, AppendLists DEF Listed

LEMMA RemoveUnlists ==
    ASSUME NEW m, Holds(m), NEW t \in Tabs, Has(m, t), Distinct(m.pages)
    PROVE  /\ Listed(RemovePage(m, t)) = Listed(m) \ {t}
           /\ Distinct(RemovePage(m, t).pages)
<1> DEFINE k == IndexOf(m, t)
           left == [m EXCEPT !.pages = RemoveAt(@, k),
                             !.active = ActivePageIndexAfterRemoval(@, k, Len(m.pages) - 1)]
<1>1. m \in Manager /\ m.pages \in Seq(Tabs)
  BY DEF Holds, Manager
<1>2. k \in DOMAIN m.pages /\ m.pages[k] = t
  BY <1>1, IndexIsAPage
<1>3. left.pages = RemoveAt(m.pages, k)
  BY <1>1 DEF Manager
<1>4. HandleBoundTargetRemoved(left, t).pages = left.pages
  BY <1>1 DEF HandleBoundTargetRemoved, Manager
<1>5. RemovePage(m, t).pages = RemoveAt(m.pages, k)
  BY <1>3, <1>4 DEF RemovePage
<1> HIDE DEF k, left
<1>6. LET r == RemoveAt(m.pages, k)
      IN  /\ {r[j] : j \in DOMAIN r} = {m.pages[j] : j \in DOMAIN m.pages} \ {m.pages[k]}
          /\ Distinct(r)
  BY <1>1, <1>2, RemovalUnlists
<1> QED
  BY <1>2, <1>5, <1>6 DEF Listed

-----------------------------------------------------------------------------
(* What a step does to the tabs that are tracked.                          *)

LEMMA NothingListed == ASSUME NEW m, m.pages = <<>> PROVE Listed(m) = {} /\ Distinct(m.pages)
BY DEF Listed, Distinct

LEMMA StillListed ==
    ASSUME Known, manager'.pages = manager.pages, UNCHANGED <<browser, connection, batch>>
    PROVE  Known'
BY DEF Known, Listed, Tracked, Connected, browser, connection

(* A drain moves what was received.                                        *)
LEMMA TakenIsTracked ==
    ASSUME Known, Free, Take, manager'.pages = manager.pages,
           UNCHANGED <<browser, link, subscribed, missed>>
    PROVE  Known'
BY DEF Known, Listed, Tracked, Connected, Free, Take, browser

LEMMA UnlinkedIsKnown ==
    ASSUME Known, link' # "open", subscribed' = FALSE, UNCHANGED browser,
           manager'.pages \in {manager.pages, <<>>}
    PROVE  Known'
<1>1. Listed(manager') \subseteq Listed(manager) /\ Distinct(manager'.pages)
  <2>1. CASE manager'.pages = manager.pages
    BY <2>1 DEF Known, Listed
  <2>2. CASE manager'.pages = <<>>
    BY <2>2, NothingListed
  <2> QED
    BY <2>1, <2>2
<1> QED
  BY <1>1 DEF Known, Connected, browser

LEMMA BirthIsTracked ==
    ASSUME Known, NEW t, Create(t), UNCHANGED <<link, subscribed, missed, batch>>,
           \/ manager'.pages = manager.pages
           \/ Listed(manager') = Listed(manager) \cup {t} /\ Distinct(manager'.pages)
    PROVE  Known'
<1>1. born' = born + 1 /\ born' \in Nat /\ t = born' /\ targets' = targets \cup {t}
  BY DEF Known, Create
<1>2. 1..born \subseteq 1..born' /\ t \in 1..born'
  BY <1>1 DEF Known
<1>3. Listed(manager') \subseteq Listed(manager) \cup {t} /\ Distinct(manager'.pages)
  BY DEF Known, Listed
<1>4. events \subseteq events'
  BY DEF Create, Sent
<1> QED
  BY <1>1, <1>2, <1>3, <1>4 DEF Known, Tracked, Connected

LEMMA NewTabIsUnlisted ==
    ASSUME Known, NEW t, Create(t)
    PROVE  t \notin Listed(manager)
BY DEF Known, Create

LEMMA EndIsTracked ==
    ASSUME Known, NEW t \in Tabs, Close(t), UNCHANGED <<link, subscribed, batch>>,
           \/ manager'.pages = manager.pages
           \/ Listed(manager') = Listed(manager) \ {t} /\ Distinct(manager'.pages)
    PROVE  Known'
<1>1. /\ targets' = targets \ {t}
      /\ UNCHANGED born
      /\ missed \subseteq missed'
      /\ events \subseteq events'
  BY DEF Close, Sent
<1>2. Listed(manager') \subseteq Listed(manager) /\ Distinct(manager'.pages)
  BY DEF Known, Listed
<1>3. ASSUME Connected, t \in Listed(manager)
      PROVE  \/ t \in missed'
             \/ subscribed /\ [kind |-> "closed", tab |-> t] \in events'
  <2>1. Has(manager, t)
    BY <1>3 DEF Listed, Has
  <2> QED
    BY <1>3, <2>1 DEF Known, Close, Sent
<1> QED
  BY <1>1, <1>2, <1>3 DEF Known, Tracked, Connected

LEMMA FreshTabIsTracked ==
    ASSUME Known, NEW m, Holds(m), m.pages = manager.pages, NEW t \in Tabs, FreshTab(m, t),
           UNCHANGED <<link, subscribed, missed, batch>>
    PROVE  Known'
<1>1. t \notin Listed(m) /\ Distinct(m.pages) /\ Listed(m) = Listed(manager)
  BY NewTabIsUnlisted DEF FreshTab, Known, Listed
<1>2. Listed(manager') = Listed(manager) \cup {t} /\ Distinct(manager'.pages)
  BY <1>1, AddLists DEF FreshTab
<1> QED
  BY <1>2, BirthIsTracked DEF FreshTab

(* What a connection lists is what is open, each tab once.                 *)
LEMMA DiscoveredIsTracked ==
    ASSUME Inv, Known, Discovered(manager'), link' = "open", subscribed' = FALSE
    PROVE  Known'
<1>1. ASSUME NEW t \in Tabs, targets = {}, t = born + 1, born' = t, targets' = {t},
             manager' = AddPage(NewManager, t)
      PROVE  Known'
  <2>1. Listed(NewManager) = {} /\ Distinct(NewManager.pages)
    BY DEF Listed, NewManager, Distinct
  <2>2. Listed(manager') = {t} /\ Distinct(manager'.pages)
    BY <1>1, <2>1, NewHolds, AddLists
  <2>3. born' \in Nat /\ t \in 1..born'
    BY <1>1 DEF Known
  <2> QED
    BY <1>1, <2>2, <2>3 DEF Known, Tracked, Connected
<1>2. ASSUME NEW s \in SetToSeqs(targets), NEW k \in Tabs,
             manager' = [NewManager EXCEPT !.pages = s, !.active = k],
             UNCHANGED browser
      PROVE  Known'
  <2>1. manager'.pages = s
    BY <1>2 DEF NewManager
  <2>3. /\ s \in [1..Cardinality(targets) -> targets]
        /\ \A i, j \in 1..Cardinality(targets) : i # j => s[i] # s[j]
    BY <1>2 DEF SetToSeqs
  <2>4. Distinct(s)
    BY <2>3 DEF Distinct
  <2>5. Listed(manager') \subseteq targets
    BY <2>1, <2>3 DEF Listed
  <2> QED
    BY <1>2, <2>1, <2>4, <2>5 DEF Known, Tracked, Connected, browser
<1> QED
  BY <1>1, <1>2 DEF Discovered

-----------------------------------------------------------------------------
LEMMA ElsewhereKnows == Inv /\ Known /\ (Others \/ Process) => Known'
<1> SUFFICES ASSUME Inv, Known, Others \/ Process PROVE Known'
  OBVIOUS
<1>1. ASSUME NEW t \in Tabs, OthersOpen(t)
      PROVE  Known'
  BY <1>1, BirthIsTracked DEF OthersOpen
<1>2. ASSUME NEW t \in Tabs, OthersClose(t)
      PROVE  Known'
  BY <1>2, EndIsTracked DEF OthersClose
<1>3. ASSUME NEW t \in Tabs, Announce(t)
      PROVE  Known'
  BY <1>3 DEF Known, Listed, Tracked, Connected, Announce, Sent, browser
<1>4. ASSUME NEW e \in events, Overflow(e)
      PROVE  Known'
  <2>1. ASSUME NEW t \in Listed(manager), Connected, Tracked(t)
        PROVE  Tracked(t)'
    <3>1. Has(manager, t)
      BY DEF Listed, Has
    <3> QED
      BY <1>4, <2>1, <3>1 DEF Tracked, Overflow, browser
  <2> QED
    BY <1>4, <2>1 DEF Known, Listed, Connected, Overflow, browser
<1>5. ASSUME LinkLost
      PROVE  Known'
  BY <1>5, UnlinkedIsKnown DEF LinkLost
<1>6. ASSUME NEW flag, NEW readable, Start(flag, readable)
      PROVE  Known'
  BY <1>6, StillListed DEF Start
<1>7. ASSUME Crash
      PROVE  Known'
  BY <1>7, UnlinkedIsKnown DEF Crash, NewManager
<1>8. ASSUME Tick \/ Refresh
      PROVE  Known'
  BY <1>8, TakenIsTracked DEF Tick, Refresh
<1>9. ASSUME Apply
      PROVE  Known'
  <2>1. PICK e \in batch :
          /\ RemoveDestroyed(e) \/ AdoptDiscovered(e)
          /\ batch' = batch \ {e}
          /\ UNCHANGED <<browser, connection, settings, up, command, promised>>
    BY <1>9 DEF Apply
  <2>2. e.tab \in Tabs /\ e = [kind |-> e.kind, tab |-> e.tab]
    BY DEF Inv, Event
  <2>3. CASE RemoveDestroyed(e)
    <3>1. e.tab \notin Listed(manager') /\ Listed(manager') \subseteq Listed(manager)
      <4>1. CASE Has(manager, e.tab)
        BY <2>2, <2>3, <4>1, RemoveUnlists DEF Inv, Known, RemoveDestroyed
      <4>2. CASE ~Has(manager, e.tab)
        BY <2>3, <4>2 DEF RemoveDestroyed, Listed, Has
      <4> QED
        BY <4>1, <4>2
    <3>2. Distinct(manager'.pages)
      BY <2>2, <2>3, RemoveUnlists DEF Inv, Known, RemoveDestroyed
    <3> QED
      BY <2>1, <3>1, <3>2 DEF Known, Tracked, Connected, browser, connection
  <2>4. CASE AdoptDiscovered(e)
    <3>1. e.kind = "opened"
      BY <2>4 DEF AdoptDiscovered
    <3>2. /\ Distinct(manager'.pages)
          /\ \/ Listed(manager') = Listed(manager)
             \/ Listed(manager') = Listed(manager) \cup {e.tab} /\ e.tab \in targets
      <4>1. CASE UNCHANGED manager
        BY <4>1 DEF Known
      <4>2. CASE /\ e.tab \in targets /\ ~Has(manager, e.tab)
                 /\ manager' = RegisterDiscoveredPage(manager, e.tab)
        <5>1. e.tab \notin Listed(manager)
          BY <4>2 DEF Listed, Has
        <5> QED
          BY <2>2, <4>2, <5>1, AddLists DEF Inv, Known, RegisterDiscoveredPage
      <4> QED
        BY <2>4, <4>1, <4>2 DEF AdoptDiscovered
    <3>3. \A t : [kind |-> "closed", tab |-> t] # e
      BY <3>1
    <3> QED
      BY <2>1, <3>2, <3>3 DEF Known, Tracked, Connected, browser, connection
  <2> QED
    BY <2>1, <2>3, <2>4
<1> QED
  BY <1>1, <1>2, <1>3, <1>4, <1>5, <1>6, <1>7, <1>8, <1>9 DEF Others, Process

LEMMA OpeningKnows == Inv /\ Known /\ Opening => Known'
<1> SUFFICES ASSUME Inv, Known, Opening PROVE Known'
  OBVIOUS
<1>1. ASSUME NEW flag, NEW skip, Begin(flag, skip)
      PROVE  Known'
  BY <1>1, TakenIsTracked DEF Begin
<1>2. ASSUME KeepPin \/ ToggleFails
      PROVE  Known'
  BY <1>2, StillListed DEF KeepPin, ToggleFails
<1>3. ASSUME TogglePin
      PROVE  Known'
  <2>1. manager'.pages = manager.pages
    BY <1>3, SettingsListNothing DEF Inv, Holds, TogglePin
  <2> QED
    BY <1>3, <2>1, StillListed DEF TogglePin
<1> QED
  BY <1>1, <1>2, <1>3 DEF Opening

LEMMA AttachKnows == Inv /\ Known /\ Attach => Known'
<1> SUFFICES ASSUME Inv, Known, Attach PROVE Known'
  OBVIOUS
<1>1. Holds(Attachment) /\ Attachment.pages = manager.pages
  BY AttachmentHolds, SettingsListNothing DEF Inv, Holds, Attachment
<1>2. \A t : RestoreTargetBinding(Attachment, t).pages = manager.pages
  BY <1>1, SettingsListNothing DEF Holds
<1>3. ASSUME NEW how, Connect(how)
      PROVE  Known'
  BY <1>3, DiscoveredIsTracked DEF Connect
<1>4. ASSUME ConnectFails \/ RestoreFails
      PROVE  Known'
  <2>1. link' # "open" /\ subscribed' = FALSE /\ UNCHANGED browser /\ manager' = NewManager
    BY <1>4 DEF ConnectFails, RestoreFails, Disconnect
  <2>2. manager'.pages = <<>>
    BY <2>1 DEF NewManager
  <2> QED
    BY <2>1, <2>2, UnlinkedIsKnown
<1>5. ASSUME Subscribe
      PROVE  Known'
  BY <1>5 DEF Known, Listed, Tracked, Connected, Subscribe, browser
<1>6. ASSUME Restore \/ KeepDiscovered
      PROVE  Known'
  <2>1. manager'.pages = manager.pages
    BY <1>1, <1>2, <1>6 DEF Restore, KeepDiscovered
  <2> QED
    BY <1>6, <2>1, StillListed DEF Restore, KeepDiscovered
<1>7. ASSUME NEW t \in Tabs, OpenOnAttach(t)
      PROVE  Known'
  BY <1>1, <1>7, FreshTabIsTracked DEF OpenOnAttach
<1> QED
  BY <1>3, <1>4, <1>5, <1>6, <1>7 DEF Attach

LEMMA BodyKnows == Inv /\ Known /\ Body => Known'
<1> SUFFICES ASSUME Inv, Known, Body PROVE Known'
  OBVIOUS
<1> USE DEF Inv
<1>1. ASSUME EnsurePage
      PROVE  Known'
  <2>1. CASE \E t \in Tabs : FreshTab(manager, t)
    BY <1>1, <2>1, FreshTabIsTracked DEF EnsurePage
  <2>2. CASE UNCHANGED <<browser, events, manager, mine>>
    BY <1>1, <2>2, StillListed DEF EnsurePage, connection
  <2> QED
    BY <1>1, <2>1, <2>2 DEF EnsurePage
<1>2. ASSUME Refuse \/ Admit \/ Act \/ Reply
      PROVE  Known'
  BY <1>2, StillListed DEF Refuse, Admit, Act, Reply
<1>3. ASSUME NEW clean \in BOOLEAN, EndUse(clean) \/ ListOrFail(clean)
      PROVE  Known'
  BY <1>3, StillListed DEF EndUse, ListOrFail
<1>4. ASSUME NEW t \in Tabs, NEW clean \in BOOLEAN, OpenTab(t, clean)
      PROVE  Known'
  BY <1>4, FreshTabIsTracked DEF OpenTab
<1>5. ASSUME NEW t \in Tabs, NEW clean \in BOOLEAN, SwitchTab(t, clean)
      PROVE  Known'
  <2>1. [manager EXCEPT !.active = IndexOf(manager, t)] \in Manager
    BY <1>5, IndexIsAPage DEF Holds, Manager, SwitchTab
  <2>2. manager'.pages = manager.pages
    BY <1>5, <2>1, SettingsListNothing DEF SwitchTab, Holds, Manager
  <2> QED
    BY <1>5, <2>2, StillListed DEF SwitchTab
<1>6. ASSUME NEW t \in Tabs, OpenBackgroundTab(t)
      PROVE  Known'
  <2>1. Listed(manager') = Listed(manager) \cup {t} /\ Distinct(manager'.pages)
    BY <1>6, AddLists, NewTabIsUnlisted DEF OpenBackgroundTab, Known
  <2> QED
    BY <1>6, <2>1, BirthIsTracked DEF OpenBackgroundTab
<1>7. ASSUME NEW t \in Tabs, CloseTab(t)
      PROVE  Known'
  <2>1. Listed(manager') = Listed(manager) \ {t} /\ Distinct(manager'.pages)
    BY <1>7, RemoveUnlists DEF CloseTab, Known
  <2>2. CASE Close(t)
    BY <1>7, <2>1, <2>2, EndIsTracked DEF CloseTab
  <2>3. CASE UNCHANGED <<browser, events, missed>>
    BY <1>7, <2>1, <2>3 DEF CloseTab, Known, Tracked, Connected, browser
  <2> QED
    BY <1>7, <2>2, <2>3 DEF CloseTab
<1>8. ASSUME Skip \/ Persist
      PROVE  Known'
  BY <1>8, TakenIsTracked DEF Skip, Persist, At
<1> QED
  BY <1>1, <1>2, <1>3, <1>4, <1>5, <1>6, <1>7, <1>8 DEF Body

(* In the first state nothing is listed.                                   *)
LEMMA InitKnows == Init => Known
<1> SUFFICES ASSUME Init PROVE Known
  OBVIOUS
<1>1. manager.pages = <<>>
  BY DEF Init, NewManager
<1>2. Listed(manager) = {} /\ Distinct(manager.pages)
  BY <1>1, NothingListed
<1>3. ~Connected /\ ~subscribed /\ born = 0 /\ targets = {} /\ subscribed \in BOOLEAN
  BY DEF Init, Connected
<1> QED
  BY <1>2, <1>3 DEF Known

(* A page the manager lists is open, or its end is on its way to it, or    *)
(* was lost where the code can lose it, whatever drains, adoptions, tabs   *)
(* of others and reconnections come in between.                            *)
THEOREM ListedTabsAreOpen == Spec => []KnownTabsAreOpen
<1>1. Init => Known
  BY InitKnows
<1>2. /\ Inv /\ UNCHANGED vars => Inv'
      /\ Known /\ UNCHANGED vars => Known'
  <2>1. Inv /\ UNCHANGED vars => Inv'
    BY DEF Inv, vars, browser, settings, connection
  <2>2. Known /\ UNCHANGED vars => Known'
    BY StillListed DEF vars
  <2> QED
    BY <2>1, <2>2
<1>3. Inv /\ Known /\ [Next]_vars => Inv' /\ Known'
  BY <1>2, OthersKeep, ProcessKeeps, OpeningKeeps, AttachKeeps, BodyKeeps,
     ElsewhereKnows, OpeningKnows, AttachKnows, BodyKnows DEF Next
<1>4. Known => KnownTabsAreOpen
  BY DEF Known, Tracked, Listed, KnownTabsAreOpen
<1> QED
  BY InitHolds, <1>1, <1>3, <1>4, PTL DEF Spec

-----------------------------------------------------------------------------
(* What each operation of the manager does to its pin, its binding and the *)
(* place of the active page.                                               *)

(* The active page is one of the pages, or the first when there is none.   *)
ActiveFits(m) == m.active > 1 => m.active \in DOMAIN m.pages

(* A new manager has no page, no binding and no pin.                       *)
LEMMA NewIsBlank ==
    /\ NewManager.pin = FALSE /\ NewManager.bound = NoTab /\ NewManager.gone = NoTab
    /\ NewManager.pages = <<>> /\ NewManager.active = 1
    /\ ActiveFits(NewManager)
BY DEF NewManager, ActiveFits

(* Binding takes the active page and forgets what was lost.                *)
LEMMA BindingBinds ==
    ASSUME NEW m \in Manager
    PROVE  LET b == BindActiveTarget(m)
           IN  /\ b.pin = m.pin /\ b.bound = ActivePage(m) /\ b.gone = NoTab
               /\ b.active = m.active /\ b.pages = m.pages
               /\ ActivePage(b) = ActivePage(m)
BY DEF Manager, BindActiveTarget, ActivePage

(* A pin binds the active page; taking it off leaves the binding.          *)
LEMMA SettingPins ==
    ASSUME NEW m \in Manager, NEW p \in BOOLEAN
    PROVE  LET s == SetPinTab(m, p)
           IN  /\ s.pin = p /\ s.gone = NoTab
               /\ s.bound = IF p THEN ActivePage(m) ELSE m.bound
               /\ s.active = m.active /\ s.pages = m.pages
               /\ ActivePage(s) = ActivePage(m)
<1>1. CASE p = TRUE
  <2> DEFINE q == [m EXCEPT !.pin = TRUE]
  <2>1. q \in Manager /\ q.pin = TRUE /\ q.active = m.active /\ q.pages = m.pages
    BY DEF Manager
  <2>2. ActivePage(q) = ActivePage(m)
    BY <2>1 DEF ActivePage
  <2>3. SetPinTab(m, p) = BindActiveTarget(q)
    BY <1>1 DEF SetPinTab
  <2> HIDE DEF q
  <2> QED
    BY <1>1, <2>1, <2>2, <2>3, BindingBinds
<1>2. CASE p = FALSE
  BY <1>2 DEF SetPinTab, Manager, ActivePage
<1> QED
  BY <1>1, <1>2

(* Restoring finds the tab, or remembers under the pin that it is lost.    *)
LEMMA RestoringBinds ==
    ASSUME NEW m, Holds(m), NEW t
    PROVE  LET r == RestoreTargetBinding(m, t)
           IN  /\ r.pin = m.pin /\ r.pages = m.pages
               /\ Has(m, t) => r.bound = t /\ r.gone = NoTab /\ ActivePage(r) = t
               /\ ~Has(m, t) => /\ r.bound = NoTab /\ r.active = m.active
                                /\ r.gone = IF m.pin THEN t ELSE m.gone
               /\ ActiveFits(m) => ActiveFits(r)
<1>1. m \in Manager
  BY DEF Holds
<1>2. CASE Has(m, t)
  BY <1>1, <1>2, IndexIsAPage DEF RestoreTargetBinding, Manager, ActivePage, ActiveFits
<1>3. CASE ~Has(m, t)
  BY <1>1, <1>3 DEF RestoreTargetBinding, Manager, ActiveFits
<1> QED
  BY <1>2, <1>3

(* A page that is added is active and bound.                               *)
LEMMA AddingBinds ==
    ASSUME NEW m, Holds(m), NEW t \in Tabs
    PROVE  LET a == AddPage(m, t)
           IN  /\ a.pin = m.pin /\ a.bound = t /\ a.gone = NoTab
               /\ ActivePage(a) = t /\ ActiveFits(a)
<1>1. m \in Manager /\ m.pages \in Seq(Tabs) /\ Len(m.pages) \in Nat
  BY LenProperties DEF Holds, Manager
<1> DEFINE n == Len(m.pages) + 1
           q == [m EXCEPT !.pages = Append(@, t), !.active = n]
<1>2. /\ q \in Manager /\ q.pin = m.pin /\ q.active = n /\ q.pages = Append(m.pages, t)
  BY <1>1, AppendIsPages DEF Manager
<1>3. n \in DOMAIN Append(m.pages, t) /\ Append(m.pages, t)[n] = t
  BY <1>1, AppendProperties
<1>4. AddPage(m, t) = BindActiveTarget(q)
  BY DEF AddPage
<1> HIDE DEF q, n
<1>5. ActivePage(q) = t
  BY <1>2, <1>3 DEF ActivePage
<1> QED
  BY <1>2, <1>3, <1>4, <1>5, BindingBinds DEF ActiveFits

(* A page that is added quietly changes no binding.                        *)
LEMMA AddingQuietlyBinds ==
    ASSUME NEW m, Holds(m), NEW t \in Tabs
    PROVE  LET a == AddPageQuietly(m, t)
           IN  /\ a.pin = m.pin /\ a.bound = m.bound /\ a.gone = m.gone
               /\ ActiveFits(m) => ActiveFits(a)
<1>1. DOMAIN m.pages \subseteq DOMAIN Append(m.pages, t)
  BY AppendIsPages DEF Holds
<1> QED
  BY <1>1 DEF AddPageQuietly, Holds, Manager, ActiveFits

(* A discovered page is bound only where it is adopted.                    *)
LEMMA RegisteringBinds ==
    ASSUME NEW m, Holds(m), NEW t \in Tabs
    PROVE  LET a == RegisterDiscoveredPage(m, t)
           IN  /\ a.pin = m.pin
               /\ \/ a.bound = m.bound /\ a.gone = m.gone
                  \/ a.bound = t /\ a.gone = NoTab /\ Adopts(m)
               /\ ActiveFits(m) => ActiveFits(a)
BY AddingBinds, AddingQuietlyBinds DEF RegisterDiscoveredPage

(* A removal unbinds the tab it removes and remembers it under the pin.    *)
LEMMA RemovingBinds ==
    ASSUME NEW m, Holds(m), NEW t \in Tabs, Has(m, t)
    PROVE  LET r == RemovePage(m, t)
           IN  /\ r.pin = m.pin
               /\ r.bound = IF m.bound = t THEN NoTab ELSE m.bound
               /\ r.gone = IF m.bound = t /\ m.pin THEN t ELSE m.gone
               /\ ActiveFits(m) => ActiveFits(r)
<1>1. m \in Manager /\ m.pages \in Seq(Tabs)
  BY DEF Holds, Manager
<1> DEFINE k == IndexOf(m, t)
           a == ActivePageIndexAfterRemoval(m.active, k, Len(m.pages) - 1)
           q == [m EXCEPT !.pages = RemoveAt(@, k), !.active = a]
<1>2. k \in DOMAIN m.pages /\ k \in Nat \ {0}
  BY <1>1, IndexIsAPage
<1>3. RemoveAt(m.pages, k) \in Seq(Tabs) /\ Len(RemoveAt(m.pages, k)) = Len(m.pages) - 1
  BY <1>1, <1>2, RemovalShifts
<1>4. Len(m.pages) \in Nat /\ DOMAIN m.pages = 1..Len(m.pages)
      /\ DOMAIN RemoveAt(m.pages, k) = 1..(Len(m.pages) - 1)
  BY <1>1, <1>3, LenProperties
<1>5. m.active \in Nat \ {0}
  BY <1>1 DEF Manager
<1>6. ActiveFits(m) => (a > 1 => a \in 1..(Len(m.pages) - 1))
  BY <1>2, <1>4, <1>5 DEF ActiveFits, ActivePageIndexAfterRemoval
<1>7. RemovePage(m, t) = HandleBoundTargetRemoved(q, t)
  BY DEF RemovePage
<1>8. LET r == HandleBoundTargetRemoved(q, t)
      IN  /\ r.pin = m.pin
          /\ r.bound = IF m.bound = t THEN NoTab ELSE m.bound
          /\ r.gone = IF m.bound = t /\ m.pin THEN t ELSE m.gone
          /\ r.active = a /\ r.pages = RemoveAt(m.pages, k)
  BY <1>1 DEF HandleBoundTargetRemoved, Manager
<1> HIDE DEF q, k, a
<1> QED
  BY <1>4, <1>6, <1>7, <1>8 DEF ActiveFits

-----------------------------------------------------------------------------
(* Types: everything a step leaves has its shape, and only tabs that were  *)
(* opened are remembered.                                                  *)

Commands == [phase : Phases, flag : {"keep", "pin", "unpin"}, skip : BOOLEAN,
             acted : Tabs \cup {NoTab}, chose : Tabs \cup {NoTab}, clean : BOOLEAN]

(* The shape of what the invariant Inv leaves open.                        *)
Sorts ==
    /\ command \in Commands
    /\ file \in Binding /\ persisted \in Binding
    /\ up \in BOOLEAN /\ promised \in BOOLEAN /\ link \in {"none", "open", "lost"}
    /\ ActiveFits(manager)
    /\ born \in 0..MaxTabs

(* Only tabs that were opened are taken for the session's own or missed.   *)
Births ==
    /\ mine \subseteq 0..born /\ missed \subseteq 1..born
    /\ file.target \in 0..born

LEMMA IdleIsACommand == Idle \in Commands
BY DEF Idle, Commands, Phases

(* What is saved is a binding.                                             *)
LEMMA SaveSorts ==
    ASSUME Sorts, NEW m, Holds(m), NEW p \in BOOLEAN, Save(m, p) \/ SaveFails(m, p)
    PROVE  file' \in Binding /\ persisted' \in Binding
BY SnapshotIsBinding DEF Sorts, Save, SaveFails

(* What a connection finds is not pinned and has an active page.           *)
LEMMA DiscoveredSorts ==
    ASSUME Inv, Discovered(manager')
    PROVE  ActiveFits(manager') /\ manager'.pin = FALSE /\ (born \in Nat => born' \in Nat)
           /\ (manager'.bound # NoTab => manager'.gone = NoTab)
           /\ (born \in 0..MaxTabs => born' \in 0..MaxTabs)
<1>1. CASE \E t \in Tabs : t = born + 1 /\ born' = t /\ manager' = AddPage(NewManager, t)
  <2>1. PICK t \in Tabs : t = born + 1 /\ born' = t /\ manager' = AddPage(NewManager, t)
    BY <1>1
  <2>2. ActiveFits(manager') /\ manager'.pin = FALSE /\ manager'.gone = NoTab
    BY <2>1, NewHolds, NewIsBlank, AddingBinds
  <2> QED
    BY <2>1, <2>2 DEF Tabs
<1>2. CASE \E s \in SetToSeqs(targets), k \in Tabs :
              /\ k \in DOMAIN s
              /\ manager' = [NewManager EXCEPT !.pages = s, !.active = k]
              /\ UNCHANGED browser
  BY <1>2 DEF NewManager, ActiveFits, browser
<1> QED
  BY <1>1, <1>2 DEF Discovered

(* A step that leaves the type of the manager's part alone.                *)
LEMMA PlainSorts ==
    ASSUME Sorts, ActiveFits(manager'), command' \in Commands,
           UNCHANGED <<file, persisted, up, promised, link, born>>
    PROVE  Sorts'
BY DEF Sorts, ActiveFits

(* Each group of actions keeps the shapes.                                 *)
LEMMA OthersSort == Inv /\ Sorts /\ Others => Sorts'
<1> SUFFICES ASSUME Inv, Sorts, Others PROVE Sorts'
  OBVIOUS
<1>1. ASSUME NEW t \in Tabs, OthersOpen(t)
      PROVE  Sorts'
  <2>1. born' = born + 1 /\ born' \in 0..MaxTabs
    BY <1>1, MaxTabsAssumption DEF OthersOpen, Create, Tabs, Sorts
  <2> QED
    BY <1>1, <2>1 DEF Sorts, OthersOpen, settings, history, ActiveFits
<1>2. ASSUME NEW t \in Tabs, OthersClose(t) \/ Announce(t)
      PROVE  Sorts'
  BY <1>2, PlainSorts DEF Sorts, OthersClose, Close, Announce, settings, history, browser
<1>3. ASSUME NEW e, Overflow(e)
      PROVE  Sorts'
  BY <1>3, PlainSorts DEF Sorts, Overflow, settings, history, browser
<1>4. ASSUME LinkLost
      PROVE  Sorts'
  BY <1>4 DEF Sorts, LinkLost, settings, history, browser, ActiveFits
<1> QED
  BY <1>1, <1>2, <1>3, <1>4 DEF Others

LEMMA ProcessSorts == Inv /\ Sorts /\ Process => Sorts'
<1> SUFFICES ASSUME Inv, Sorts, Process PROVE Sorts'
  OBVIOUS
<1>1. ASSUME NEW flag \in BOOLEAN, NEW readable \in BOOLEAN, Start(flag, readable)
      PROVE  Sorts'
  BY <1>1 DEF Sorts, Start, browser, connection, ActiveFits
<1>2. ASSUME Crash
      PROVE  Sorts'
  BY <1>2, NewIsBlank, IdleIsACommand DEF Sorts, Crash, browser, history, ActiveFits, NoFile,
     Binding
<1>3. ASSUME Tick \/ Refresh
      PROVE  Sorts'
  BY <1>3, PlainSorts DEF Sorts, Tick, Refresh, browser, settings, history
<1>4. ASSUME NEW e \in batch, RemoveDestroyed(e) \/ AdoptDiscovered(e),
             UNCHANGED <<browser, connection, settings, up, command, promised>>
      PROVE  Sorts'
  <2>1. e.tab \in Tabs
    BY <1>4 DEF Inv, Event
  <2>2. ActiveFits(manager')
    BY <1>4, <2>1, RemovingBinds, RegisteringBinds DEF Inv, Sorts, RemoveDestroyed,
       AdoptDiscovered
  <2> QED
    BY <1>4, <2>2, PlainSorts DEF Sorts, browser, connection, settings
<1> QED
  BY <1>1, <1>2, <1>3, <1>4 DEF Process, Apply

LEMMA OpeningSorts == Inv /\ Sorts /\ Opening => Sorts'
<1> SUFFICES ASSUME Inv, Sorts, Opening PROVE Sorts'
  OBVIOUS
<1>1. ASSUME NEW flag \in {"keep", "pin", "unpin"}, NEW skip \in BOOLEAN, Begin(flag, skip)
      PROVE  Sorts'
  <2>1. command' \in Commands
    BY <1>1 DEF Begin, Idle, Commands, Phases
  <2> QED
    BY <1>1, <2>1, PlainSorts DEF Sorts, Begin, browser, settings, history
<1>2. ASSUME KeepPin \/ ToggleFails
      PROVE  Sorts'
  <2>1. command' \in Commands
    BY <1>2, IdleIsACommand DEF Sorts, Commands, Phases, KeepPin, ToggleFails, Answer
  <2> QED
    BY <1>2, <2>1, PlainSorts DEF Sorts, KeepPin, ToggleFails, browser, connection, settings,
       history
<1>3. ASSUME TogglePin
      PROVE  Sorts'
  <2>1. command' \in Commands
    BY <1>3 DEF Sorts, Commands, Phases, TogglePin
  <2>2. Asked \in BOOLEAN /\ manager \in Manager
    BY DEF Asked, Inv, Holds
  <2>3. ActiveFits(manager')
    BY <1>3, <2>2, SettingPins DEF Sorts, TogglePin, ActiveFits
  <2>4. file' \in Binding /\ persisted' \in Binding
    BY <1>3, <2>2 DEF Sorts, TogglePin, Binding, NoFile
  <2>5. promised' \in BOOLEAN
    BY <1>3, <2>2 DEF Sorts, TogglePin
  <2> QED
    BY <1>3, <2>1, <2>3, <2>4, <2>5 DEF Sorts, TogglePin, browser, connection
<1> QED
  BY <1>1, <1>2, <1>3 DEF Opening

LEMMA FreshTabSorts ==
    ASSUME Inv, Sorts, NEW m, Holds(m), NEW t \in Tabs, FreshTab(m, t)
    PROVE  ActiveFits(manager') /\ born' \in 0..MaxTabs
BY AddingBinds, MaxTabsAssumption DEF FreshTab, Create, Tabs, Sorts

LEMMA AttachSorts == Inv /\ Sorts /\ Attach => Sorts'
<1> SUFFICES ASSUME Inv, Sorts, Attach PROVE Sorts'
  OBVIOUS
<1>1. Holds(Attachment) /\ Strict \in BOOLEAN /\ ActiveFits(Attachment)
  BY AttachmentHolds, SettingPins DEF Inv, Holds, Attachment, Sorts, ActiveFits
<1>2. NoFile \in Binding
  BY DEF NoFile, Binding
<1>3. ASSUME NEW how \in {"cdp", "auto"}, Connect(how)
      PROVE  Sorts'
  <2>1. command' \in Commands
    BY <1>3 DEF Sorts, Commands, Phases, Connect
  <2>2. ActiveFits(manager') /\ born' \in 0..MaxTabs
    BY <1>3, DiscoveredSorts DEF Connect, Sorts
  <2> QED
    BY <1>3, <2>1, <2>2 DEF Sorts, Connect, settings, history
<1>4. ASSUME ConnectFails \/ RestoreFails
      PROVE  Sorts'
  <2>1. file' \in Binding /\ persisted' \in Binding /\ command' \in Commands
    BY <1>2, <1>4, IdleIsACommand DEF Sorts, ConnectFails, RestoreFails, Answer, settings
  <2>2. manager' = NewManager /\ link' = "none" /\ UNCHANGED <<up, promised, born>>
    BY <1>4 DEF ConnectFails, RestoreFails, Disconnect, history, browser
  <2> QED
    BY <2>1, <2>2, NewIsBlank DEF Sorts
<1>5. ASSUME Subscribe
      PROVE  Sorts'
  <2>1. command' \in Commands
    BY <1>5 DEF Sorts, Commands, Phases, Subscribe
  <2> QED
    BY <1>5, <2>1, PlainSorts DEF Sorts, Subscribe, browser, settings, history
<1>6. Attached => command' \in Commands
  BY DEF Attached, Sorts, Commands, Phases
<1>7. ASSUME Restore
      PROVE  Sorts'
  <2>1. ActiveFits(manager') /\ Holds(manager')
    BY <1>1, <1>7, RestoringBinds, RestoreHolds DEF Restore, Inv
  <2>2. file' \in Binding /\ persisted' \in Binding
    BY <1>1, <1>7, <2>1, SaveSorts DEF Restore
  <2> QED
    BY <1>6, <1>7, <2>1, <2>2 DEF Sorts, Restore, browser, connection, history
<1>8. ASSUME KeepDiscovered
      PROVE  Sorts'
  <2>1. ActiveFits(manager')
    BY <1>1, <1>8, RestoringBinds DEF KeepDiscovered
  <2>2. file' \in Binding /\ persisted' \in Binding
    BY <1>2, <1>8 DEF KeepDiscovered, Sorts
  <2> QED
    BY <1>6, <1>8, <2>1, <2>2 DEF Sorts, KeepDiscovered, browser, connection, history
<1>9. ASSUME NEW t \in Tabs, OpenOnAttach(t)
      PROVE  Sorts'
  <2>1. ActiveFits(manager') /\ born' \in 0..MaxTabs
    BY <1>1, <1>9, FreshTabSorts DEF OpenOnAttach
  <2>2. Snapshot(manager', Strict) \in Binding
    BY <1>1, <1>9, FreshTabKeeps, SnapshotIsBinding DEF OpenOnAttach
  <2>3. file' \in Binding /\ persisted' \in Binding
    BY <1>2, <1>9, <2>2 DEF OpenOnAttach, Sorts
  <2> QED
    BY <1>6, <1>9, <2>1, <2>3 DEF Sorts, OpenOnAttach
<1> QED
  BY <1>3, <1>4, <1>5, <1>7, <1>8, <1>9 DEF Attach

LEMMA BodySorts == Inv /\ Sorts /\ Body => Sorts'
<1> SUFFICES ASSUME Inv, Sorts, Body PROVE Sorts'
  OBVIOUS
<1>1. \A clean \in BOOLEAN, t \in Tabs \cup {NoTab} : Ends(clean, t) => command' \in Commands
  BY DEF Ends, Sorts, Commands, Phases, NoTab
<1>2. ASSUME EnsurePage
      PROVE  Sorts'
  <2>1. ActiveFits(manager') /\ born' \in 0..MaxTabs
    <3>1. CASE \E t \in Tabs : FreshTab(manager, t)
      BY <3>1, FreshTabSorts DEF Inv
    <3>2. CASE UNCHANGED <<browser, events, manager, mine>>
      BY <3>2 DEF Sorts, browser
    <3> QED
      BY <1>2, <3>1, <3>2 DEF EnsurePage
  <2>2. command' \in Commands
    BY <1>2 DEF EnsurePage, Sorts, Commands, Phases
  <2> QED
    BY <1>2, <2>1, <2>2 DEF Sorts, EnsurePage, settings
<1>3. ASSUME Refuse \/ Admit \/ Act
      PROVE  Sorts'
  <2>1. command' \in Commands
    <3>1. ActivePage(manager) \in Tabs \cup {NoTab}
      BY ElementOfSeq, LenProperties DEF Inv, Holds, Manager, ActivePage
    <3> QED
      BY <1>3, <3>1, IdleIsACommand DEF Refuse, Admit, Act, Answer, Sorts, Commands, Phases
  <2> QED
    BY <1>3, <2>1, PlainSorts DEF Sorts, Refuse, Admit, Act, browser, connection, settings,
       history
<1>4. ASSUME NEW clean \in BOOLEAN, EndUse(clean) \/ ListOrFail(clean)
      PROVE  Sorts'
  BY <1>1, <1>4, PlainSorts DEF Sorts, EndUse, ListOrFail, browser, connection, settings, history
<1>5. ASSUME NEW t \in Tabs, NEW clean \in BOOLEAN, OpenTab(t, clean)
      PROVE  Sorts'
  <2>1. ActiveFits(manager') /\ born' \in 0..MaxTabs
    BY <1>5, FreshTabSorts DEF OpenTab, Inv
  <2> QED
    BY <1>1, <1>5, <2>1 DEF Sorts, OpenTab, settings
<1>6. ASSUME NEW t \in Tabs, NEW clean \in BOOLEAN, SwitchTab(t, clean)
      PROVE  Sorts'
  <2> DEFINE q == [manager EXCEPT !.active = IndexOf(manager, t)]
  <2>1. q \in Manager /\ ActiveFits(q)
    BY <1>6, IndexIsAPage DEF Inv, Holds, Manager, SwitchTab, ActiveFits
  <2>2. ActiveFits(manager')
    BY <1>6, <2>1, BindingBinds DEF SwitchTab, ActiveFits
  <2> QED
    BY <1>1, <1>6, <2>2, PlainSorts DEF Sorts, SwitchTab, browser, connection, settings
<1>7. ASSUME NEW t \in Tabs, OpenBackgroundTab(t)
      PROVE  Sorts'
  <2>1. ActiveFits(manager')
    BY <1>7, AddingQuietlyBinds DEF OpenBackgroundTab, Inv, Sorts
  <2>2. born' \in 0..MaxTabs
    BY <1>7, MaxTabsAssumption DEF OpenBackgroundTab, Create, Tabs, Sorts
  <2> QED
    BY <1>1, <1>7, <2>1, <2>2 DEF Sorts, OpenBackgroundTab, settings
<1>8. ASSUME NEW t \in Tabs, CloseTab(t)
      PROVE  Sorts'
  <2>1. ActiveFits(manager')
    BY <1>8, RemovingBinds DEF CloseTab, Inv, Sorts
  <2>2. born' = born
    BY <1>8 DEF CloseTab, Close, browser
  <2> QED
    BY <1>1, <1>8, <2>1, <2>2, PlainSorts DEF CloseTab, settings, history
<1>9. ASSUME Skip
      PROVE  Sorts'
  <2>1. command' \in Commands
    BY <1>9 DEF Skip, Sorts, Commands, Phases
  <2> QED
    BY <1>9, <2>1, PlainSorts DEF Sorts, Skip, browser, settings, history
<1>10. ASSUME Persist
       PROVE  Sorts'
  <2>1. file' \in Binding /\ persisted' \in Binding
    BY <1>10, SaveSorts DEF Persist, Inv
  <2>2. \A clean \in BOOLEAN : Persisted(clean) => command' \in Commands
    BY DEF Persisted, Sorts, Commands, Phases
  <2>3. (command.clean /\ manager.bound # NoTab) \in BOOLEAN
    OBVIOUS
  <2>4. command' \in Commands
    BY <1>10, <2>2, <2>3 DEF Persist
  <2> QED
    BY <1>10, <2>1, <2>4 DEF Sorts, Persist, browser, ActiveFits
<1>11. ASSUME Reply
       PROVE  Sorts'
  <2>1. promised' \in BOOLEAN
    BY <1>11 DEF Reply, Sorts
  <2>2. command' \in Commands
    BY <1>11, IdleIsACommand DEF Reply, Answer
  <2> QED
    BY <1>11, <2>1, <2>2 DEF Sorts, Reply, browser, connection, settings, ActiveFits
<1> QED
  BY <1>2, <1>3, <1>4, <1>5, <1>6, <1>7, <1>8, <1>9, <1>10, <1>11 DEF Body

(* What is bound, and what is active, is listed.                           *)
LEMMA BoundIsListed ==
    ASSUME NEW m, Holds(m)
    PROVE  /\ m.bound \in Listed(m) \cup {NoTab}
           /\ ActivePage(m) \in Listed(m) \cup {NoTab}
BY DEF Holds, Listed, ActivePage

(* The file names the tab it named, a listed one or none.                  *)
LEMMA SaveNames ==
    ASSUME NEW m, Holds(m), NEW p, Save(m, p) \/ SaveFails(m, p)
    PROVE  file'.target \in {file.target, NoTab} \cup Listed(m)
<1>1. Snapshot(m, p).target \in {NoTab} \cup Listed(m)
  BY BoundIsListed DEF Snapshot, NoFile
<1> QED
  BY <1>1 DEF Save, SaveFails

(* A tab of its own is born and listed.                                    *)
LEMMA FreshTabIsListed ==
    ASSUME Known, NEW m, Holds(m), NEW t \in Tabs, FreshTab(m, t)
    PROVE  /\ born' = born + 1
           /\ mine' \subseteq mine \cup {t}
           /\ t \in Listed(manager')
<1>1. Listed(manager') = Listed(m) \cup {t}
  BY AddLists DEF FreshTab
<1> QED
  BY <1>1 DEF FreshTab, Create, Own

(* A step that takes for the session's own, misses and saves only tabs     *)
(* that are listed.                                                        *)
LEMMA ListedIsBorn ==
    ASSUME Births, Known, Known', born' \in {born, born + 1},
           mine' \subseteq mine \cup Listed(manager) \cup Listed(manager')
                           \cup {NoTab, file.target, file'.target},
           missed' \subseteq missed \cup Listed(manager),
           file'.target \in {file.target, NoTab} \cup Listed(manager) \cup Listed(manager')
    PROVE  Births'
<1>1. born \in Nat /\ born' \in Nat /\ 1..born \subseteq 0..born' /\ 0..born \subseteq 0..born'
      /\ 1..born \subseteq 1..born' /\ 0 \in 0..born' /\ 1..born' \subseteq 0..born'
  BY DEF Known
<1>2. Listed(manager) \subseteq 1..born /\ Listed(manager') \subseteq 1..born'
  BY DEF Known
<1>3. file'.target \in 0..born'
  BY <1>1, <1>2 DEF Births, NoTab
<1>4. missed' \subseteq 1..born'
  BY <1>1, <1>2 DEF Births
<1>5. mine' \subseteq 0..born'
  BY <1>1, <1>2, <1>3 DEF Births, NoTab
<1> QED
  BY <1>3, <1>4, <1>5 DEF Births

(* A step that opens nothing and takes nothing for its own.                *)
LEMMA BornAgain ==
    ASSUME Births, Known, Known', UNCHANGED <<born, mine, file>>,
           missed' \subseteq missed \cup Listed(manager)
    PROVE  Births'
BY ListedIsBorn

(* Each group of actions takes, misses and saves only tabs that were       *)
(* born.                                                                   *)
LEMMA ElsewhereBorn == Births /\ Inv /\ Known /\ Known' /\ (Others \/ Process) => Births'
<1> SUFFICES ASSUME Births, Inv, Known, Known', Others \/ Process PROVE Births'
  OBVIOUS
<1>1. ASSUME NEW t \in Tabs, OthersOpen(t)
      PROVE  Births'
  <2>1. born' = born + 1 /\ UNCHANGED <<missed, mine, file>>
    BY <1>1 DEF OthersOpen, Create, settings, history
  <2> QED
    BY <2>1, ListedIsBorn
<1>2. ASSUME NEW t \in Tabs, OthersClose(t) \/ Announce(t)
      PROVE  Births'
  <2>1. missed' \subseteq missed \cup Listed(manager)
    BY <1>2 DEF OthersClose, Announce, Close, Has, Listed
  <2>2. UNCHANGED <<born, mine, file>>
    BY <1>2 DEF OthersClose, Announce, Close, browser, settings, history
  <2> QED
    BY <2>1, <2>2, BornAgain
<1>3. ASSUME NEW e, Overflow(e)
      PROVE  Births'
  <2>1. missed' \subseteq missed \cup Listed(manager)
    BY <1>3 DEF Overflow, Has, Listed
  <2> QED
    BY <1>3, <2>1, BornAgain DEF Overflow, browser, settings, history
<1>4. ASSUME LinkLost \/ Crash \/ Tick \/ Refresh
      PROVE  Births'
  <2>1. missed' \subseteq missed /\ UNCHANGED <<born, mine, file>>
    BY <1>4 DEF LinkLost, Crash, Tick, Refresh, browser, settings, history
  <2> QED
    BY <2>1, BornAgain
<1>5. ASSUME NEW flag \in BOOLEAN, NEW readable \in BOOLEAN, Start(flag, readable)
      PROVE  Births'
  BY <1>5, ListedIsBorn DEF Start, browser, connection
<1>6. ASSUME NEW e \in batch, RemoveDestroyed(e) \/ AdoptDiscovered(e),
             UNCHANGED <<browser, connection, settings, up, command, promised>>
      PROVE  Births'
  <2>1. manager'.bound \in Listed(manager') \cup {NoTab}
    <3>1. CASE RemoveDestroyed(e)
      BY <1>6, <3>1, RemoveHolds, BoundIsListed DEF Inv, RemoveDestroyed, Event
    <3>2. CASE AdoptDiscovered(e)
      BY <1>6, <3>2, RegisterHolds, BoundIsListed DEF Inv, AdoptDiscovered, Event
    <3> QED
      BY <1>6, <3>1, <3>2
  <2>2. mine' \subseteq mine \cup Listed(manager') \cup {NoTab}
    BY <1>6, <2>1 DEF RemoveDestroyed, AdoptDiscovered, Own
  <2> QED
    BY <1>6, <2>2, ListedIsBorn DEF browser, connection, settings
<1> QED
  BY <1>1, <1>2, <1>3, <1>4, <1>5, <1>6 DEF Others, Process, Apply

LEMMA OpeningBorn == Births /\ Inv /\ Known /\ Known' /\ Opening => Births'
<1> SUFFICES ASSUME Births, Inv, Known, Known', Opening PROVE Births'
  OBVIOUS
<1>1. ASSUME NEW flag, NEW skip, Begin(flag, skip)
      PROVE  Births'
  BY <1>1, BornAgain DEF Begin, browser, settings, history
<1>2. ASSUME KeepPin \/ ToggleFails
      PROVE  Births'
  BY <1>2, BornAgain DEF KeepPin, ToggleFails, browser, connection, settings, history
<1>3. ASSUME TogglePin
      PROVE  Births'
  <2>1. ActivePage(manager) \in Listed(manager) \cup {NoTab}
    BY BoundIsListed DEF Inv
  <2>2. file'.target = file.target
    <3>1. [file EXCEPT !.pinned = Asked].target = file.target
      OBVIOUS
    <3> QED
      BY <1>3, <3>1 DEF TogglePin
  <2>3. mine' \subseteq mine \cup Listed(manager) \cup {NoTab, file.target}
    BY <1>3, <2>1 DEF TogglePin
  <2>4. UNCHANGED <<born, missed>>
    BY <1>3 DEF TogglePin, browser, connection
  <2> QED
    BY <2>2, <2>3, <2>4, ListedIsBorn
<1> QED
  BY <1>1, <1>2, <1>3 DEF Opening

LEMMA AttachBorn == Births /\ Inv /\ Known /\ Known' /\ Attach => Births'
<1> SUFFICES ASSUME Births, Inv, Known, Known', Attach PROVE Births'
  OBVIOUS
<1>1. Holds(Attachment) /\ NoFile.target = NoTab
  BY AttachmentHolds DEF NoFile
<1>2. ASSUME NEW how, Connect(how)
      PROVE  Births'
  <2>1. born' \in {born, born + 1}
    BY <1>2 DEF Connect, Discovered, browser
  <2> QED
    BY <1>2, <2>1, ListedIsBorn DEF Connect, settings, history
<1>3. ASSUME ConnectFails \/ RestoreFails
      PROVE  Births'
  <2>1. file' \in {file, NoFile} /\ missed' = {} /\ UNCHANGED <<mine, born>>
    BY <1>3 DEF ConnectFails, RestoreFails, Disconnect, settings, history, browser
  <2> QED
    BY <1>1, <2>1, ListedIsBorn
<1>4. ASSUME Subscribe
      PROVE  Births'
  BY <1>4, BornAgain DEF Subscribe, browser, settings, history
<1>5. ASSUME Restore
      PROVE  Births'
  <2>1. Holds(manager')
    BY <1>1, <1>5, RestoreHolds DEF Restore, Inv
  <2>2. file'.target \in {file.target, NoTab} \cup Listed(manager')
    BY <1>5, <2>1, SaveNames DEF Restore
  <2> QED
    BY <1>5, <2>2, ListedIsBorn DEF Restore, browser, connection, history
<1>6. ASSUME KeepDiscovered
      PROVE  Births'
  BY <1>1, <1>6, ListedIsBorn DEF KeepDiscovered, browser, connection, history
<1>7. ASSUME NEW t \in Tabs, OpenOnAttach(t)
      PROVE  Births'
  <2>1. Holds(manager') /\ FreshTab(Attachment, t)
    BY <1>1, <1>7, FreshTabKeeps DEF OpenOnAttach
  <2>2. /\ born' = born + 1
        /\ mine' \subseteq mine \cup {t}
        /\ t \in Listed(manager')
    BY <1>1, <2>1, FreshTabIsListed
  <2>3. Snapshot(manager', Strict).target \in {NoTab} \cup Listed(manager')
    BY <1>1, <2>1, BoundIsListed DEF Snapshot
  <2>4. file'.target \in {NoTab} \cup Listed(manager')
    BY <1>1, <1>7, <2>3 DEF OpenOnAttach
  <2> QED
    BY <1>7, <2>2, <2>4, ListedIsBorn DEF OpenOnAttach
<1> QED
  BY <1>2, <1>3, <1>4, <1>5, <1>6, <1>7 DEF Attach

LEMMA BodyBorn == Births /\ Inv /\ Known /\ Known' /\ Body => Births'
<1> SUFFICES ASSUME Births, Inv, Known, Known', Body PROVE Births'
  OBVIOUS
<1>0. Holds(manager)
  BY DEF Inv
<1>1. ASSUME EnsurePage
      PROVE  Births'
  <2>1. ASSUME NEW t \in Tabs, FreshTab(manager, t)
        PROVE  Births'
    <3>1. born' = born + 1 /\ mine' \subseteq mine \cup {t} /\ t \in Listed(manager')
      BY <1>0, <2>1, FreshTabIsListed
    <3> QED
      BY <1>1, <3>1, ListedIsBorn DEF EnsurePage, settings
  <2>2. CASE UNCHANGED <<browser, events, manager, mine>>
    BY <1>1, <2>2, BornAgain DEF EnsurePage, settings, browser
  <2> QED
    BY <1>1, <2>1, <2>2 DEF EnsurePage
<1>2. ASSUME Refuse \/ Admit \/ Act
      PROVE  Births'
  BY <1>2, BornAgain DEF Refuse, Admit, Act, browser, connection, settings, history
<1>3. ASSUME NEW clean, EndUse(clean) \/ ListOrFail(clean)
      PROVE  Births'
  BY <1>3, BornAgain DEF EndUse, ListOrFail, browser, connection, settings, history
<1>4. ASSUME NEW t \in Tabs, NEW clean, OpenTab(t, clean)
      PROVE  Births'
  <2>1. born' = born + 1 /\ mine' \subseteq mine \cup {t} /\ t \in Listed(manager')
    BY <1>0, <1>4, FreshTabIsListed DEF OpenTab
  <2> QED
    BY <1>4, <2>1, ListedIsBorn DEF OpenTab, settings
<1>5. ASSUME NEW t \in Tabs, NEW clean, SwitchTab(t, clean)
      PROVE  Births'
  <2>1. mine' \subseteq mine \cup {t} /\ t \in Listed(manager)
    BY <1>5 DEF SwitchTab, Own, Has, Listed
  <2> QED
    BY <1>5, <2>1, ListedIsBorn DEF SwitchTab, browser, connection, settings
<1>6. ASSUME NEW t \in Tabs, OpenBackgroundTab(t)
      PROVE  Births'
  <2>1. t \in Listed(manager') /\ born' = born + 1
    BY <1>0, <1>6, AddLists DEF OpenBackgroundTab, Create
  <2>2. mine' \subseteq mine \cup {t}
    BY <1>6 DEF OpenBackgroundTab, Own
  <2> QED
    BY <1>6, <2>1, <2>2, ListedIsBorn DEF OpenBackgroundTab, settings
<1>7. ASSUME NEW t \in Tabs, CloseTab(t)
      PROVE  Births'
  <2>1. missed' \subseteq missed \cup Listed(manager)
    BY <1>7 DEF CloseTab, Close, Has, Listed
  <2>2. UNCHANGED <<born, mine, file>>
    BY <1>7 DEF CloseTab, Close, settings, history, browser
  <2> QED
    BY <2>1, <2>2, BornAgain
<1>8. ASSUME Skip
      PROVE  Births'
  BY <1>8, BornAgain DEF Skip, browser, settings, history
<1>9. ASSUME Persist
      PROVE  Births'
  <2>1. file'.target \in {file.target, NoTab} \cup Listed(manager)
    BY <1>0, <1>9, SaveNames DEF Persist
  <2>2. mine' \subseteq mine \cup {file'.target}
    BY <1>9 DEF Persist, Own
  <2> QED
    BY <1>9, <2>1, <2>2, ListedIsBorn DEF Persist, browser
<1>10. ASSUME Reply
       PROVE  Births'
  <2>1. mine' \subseteq mine \cup Listed(manager) \cup {NoTab}
    BY <1>0, <1>10, BoundIsListed DEF Reply
  <2> QED
    BY <1>10, <2>1, ListedIsBorn DEF Reply, browser, connection, settings
<1> QED
  BY <1>1, <1>2, <1>3, <1>4, <1>5, <1>6, <1>7, <1>8, <1>9, <1>10 DEF Body

-----------------------------------------------------------------------------
(* The first state has the shapes.                                         *)
LEMMA InitSorts == Init => Sorts /\ Births
<1> SUFFICES ASSUME Init PROVE Sorts /\ Births
  OBVIOUS
<1>1. NoFile \in Binding /\ NoFile.target = 0
  BY DEF NoFile, Binding, NoTab
<1>2. Sorts
  <2>1. command \in Commands /\ ActiveFits(manager)
    BY IdleIsACommand, NewIsBlank DEF Init
  <2>2. born \in 0..MaxTabs
    BY MaxTabsAssumption DEF Init
  <2> QED
    BY <1>1, <2>1, <2>2 DEF Init, Sorts
<1>3. Births
  BY <1>1 DEF Init, Births
<1> QED
  BY <1>2, <1>3

(* The shapes of every variable, with what makes them last.                *)
Shaped == Inv /\ Known /\ Sorts /\ Births

(* The shapes, the list and the births are kept together by every step.    *)
LEMMA ShapedKeeps == Shaped /\ [Next]_vars => Shaped'
<1> SUFFICES ASSUME Shaped, [Next]_vars PROVE Shaped'
  OBVIOUS
<1> USE DEF Shaped
<1>1. CASE UNCHANGED vars
  <2>1. UNCHANGED <<browser, connection, settings, history>>
        /\ UNCHANGED <<manager, batch, up, command>>
    BY <1>1 DEF vars
  <2>2. Inv'
    BY <2>1 DEF Inv, browser, settings, connection
  <2>3. Known'
    BY <2>1, StillListed
  <2>4. Sorts' /\ Births'
    BY <2>1 DEF Sorts, Births, ActiveFits, browser, settings, connection, history
  <2> QED
    BY <2>2, <2>3, <2>4
<1>2. CASE Next
  <2>1. Inv'
    BY <1>2, OthersKeep, ProcessKeeps, OpeningKeeps, AttachKeeps, BodyKeeps DEF Next
  <2>2. Known'
    BY <1>2, ElsewhereKnows, OpeningKnows, AttachKnows, BodyKnows DEF Next
  <2>3. Sorts'
    BY <1>2, OthersSort, ProcessSorts, OpeningSorts, AttachSorts, BodySorts DEF Next
  <2>4. Births'
    BY <1>2, <2>2, ElsewhereBorn, OpeningBorn, AttachBorn, BodyBorn DEF Next
  <2> QED
    BY <2>1, <2>2, <2>3, <2>4
<1> QED
  BY <1>1, <1>2

(* Every variable keeps its type for every number of tabs: the active      *)
(* index never leaves the list, no page is listed twice, and the session   *)
(* calls its own, and misses, only tabs that were opened.                  *)
THEOREM TabsAreTyped == Spec => []TypeOK
<1>1. Init => Shaped
  BY InitHolds, InitKnows, InitSorts DEF Shaped
<1>2. Shaped => TypeOK
  <2> SUFFICES ASSUME Shaped PROVE TypeOK
    OBVIOUS
  <2>1. manager \in Manager /\ Distinct(manager.pages)
        /\ (manager.active > 1 => manager.active \in DOMAIN manager.pages)
    BY DEF Shaped, Inv, Known, Holds, Sorts, ActiveFits
  <2>2. command.phase \in Phases
    BY DEF Shaped, Sorts, Commands
  <2> QED
    BY <2>1, <2>2 DEF Shaped, Inv, Known, Sorts, Births, TypeOK
<1> QED
  BY <1>1, <1>2, ShapedKeeps, PTL DEF Spec

AttachPhases == {"cdp", "auto", "listening"}
InUse == command.phase \in {"cdp", "auto", "listening", "restored", "ready", "ensured",
                            "using", "done"}

(* A manager the session's commands use: connected, and past its binding.  *)
Managed == link # "none" /\ command.phase \notin AttachPhases

(* A binding, or the memory of the tab that was lost.                      *)
Kept(m) == m.bound # NoTab \/ m.gone # NoTab

(* The tab a pinned manager is bound to is the session's own.              *)
BoundIsOwn == (Connected \/ InUse) /\ manager.pin /\ manager.bound # NoTab => manager.bound \in mine

(* So is the one a pin would restore.                                      *)
FileIsOwn == pin \/ file.pinned => file.target \in mine \cup {NoTab}

FileIsNamed == file # NoFile => file.target # NoTab

(* The process holds its connection, and a command the connection it uses. *)
LinkIsHeld == (InUse => link # "none") /\ (~up => link = "none" /\ command.phase = "idle")

PinsAgree == Managed => manager.pin = pin /\ (file.pinned => pin)

BoundIsThere == manager.bound # NoTab => manager.gone = NoTab

(* A promise is in the file, and the manager under it never forgets.       *)
PromiseIsKept == promised => file.pinned /\ (Managed => Kept(manager))

(* What a clean reply is about to promise already holds.                   *)
ReplyIsKept ==
    command.phase = "replying" /\ command.clean /\ pin =>
        /\ file.pinned /\ link # "none" /\ Kept(manager)
        /\ manager.bound # NoTab => file.target = manager.bound

NotYetClean == command.phase \in {"toggle", "begun"} => ~command.clean

Owning == /\ BoundIsOwn /\ FileIsOwn /\ FileIsNamed /\ LinkIsHeld /\ PinsAgree
          /\ BoundIsThere /\ PromiseIsKept /\ ReplyIsKept /\ NotYetClean

(* A step that moves the manager and the command but not the link, the     *)
(* pin, the file or the promise.                                           *)
LEMMA ManagerOwns ==
    ASSUME Owning, UNCHANGED <<file, pin, up, link, promised>>,
           mine \subseteq mine',
           up \/ UNCHANGED command,
           InUse' => InUse \/ Connected,
           Managed' => Managed,
           command'.phase = "replying" /\ command'.clean => UNCHANGED command,
           command'.phase \in {"toggle", "begun"} => ~command'.clean,
           manager'.pin = manager.pin,
           manager'.bound # NoTab => manager'.gone = NoTab,
           manager.pin /\ Kept(manager) => Kept(manager'),
           manager.pin /\ manager'.bound \notin {NoTab, manager.bound} => manager'.bound \in mine',
           command'.phase = "replying" /\ manager.pin /\ Kept(manager)
               => manager'.bound \in {NoTab, manager.bound}
    PROVE  Owning'
<1> USE DEF Owning
<1>1. Connected' = Connected
  BY DEF Connected
<1>2. BoundIsOwn'
  BY <1>1 DEF BoundIsOwn
<1>3. FileIsOwn' /\ FileIsNamed'
  BY DEF FileIsOwn, FileIsNamed
<1>4. LinkIsHeld'
  BY DEF LinkIsHeld, Connected
<1>5. PinsAgree'
  BY DEF PinsAgree
<1>6. BoundIsThere'
  BY DEF BoundIsThere
<1>7. PromiseIsKept'
  <2> SUFFICES ASSUME promised', Managed' PROVE Kept(manager')
    BY DEF PromiseIsKept
  <2>1. file.pinned /\ Managed /\ Kept(manager)
    BY DEF PromiseIsKept
  <2>2. manager.pin
    BY <2>1 DEF PinsAgree
  <2> QED
    BY <2>1, <2>2
<1>8. ReplyIsKept'
  <2> SUFFICES ASSUME command'.phase = "replying", command'.clean, pin
               PROVE  /\ file.pinned /\ link # "none" /\ Kept(manager')
                      /\ manager'.bound # NoTab => file.target = manager'.bound
    BY DEF ReplyIsKept
  <2>1. command.phase = "replying" /\ command.clean
    OBVIOUS
  <2>2. /\ file.pinned /\ link # "none" /\ Kept(manager)
        /\ manager.bound # NoTab => file.target = manager.bound
    BY <2>1 DEF ReplyIsKept
  <2>3. Managed
    BY <2>1, <2>2 DEF Managed, AttachPhases
  <2>4. manager.pin
    BY <2>3 DEF PinsAgree
  <2> QED
    BY <2>2, <2>4
<1>9. NotYetClean'
  BY DEF NotYetClean
<1> QED
  BY <1>2, <1>3, <1>4, <1>5, <1>6, <1>7, <1>8, <1>9

(* A step of the command alone.                                            *)
LEMMA CommandOwns ==
    ASSUME Owning, UNCHANGED <<file, pin, up, link, promised, manager, mine>>,
           up \/ UNCHANGED command,
           InUse' => InUse \/ Connected,
           Managed' => Managed,
           command'.phase = "replying" /\ command'.clean => UNCHANGED command,
           command'.phase \in {"toggle", "begun"} => ~command'.clean
    PROVE  Owning'
BY ManagerOwns DEF Owning, BoundIsThere

(* Others' tabs, drains, starts and crashes leave the session what it      *)
(* owns.                                                                   *)
LEMMA ElsewhereOwns == Inv /\ Owning /\ (Others \/ Process) => Owning'
<1> SUFFICES ASSUME Inv, Owning, Others \/ Process PROVE Owning'
  OBVIOUS
<1>1. ASSUME UNCHANGED <<file, pin, up, link, promised, mine, command>>
      PROVE  /\ (InUse' => InUse) /\ (Managed' => Managed)
             /\ (command'.phase \in {"toggle", "begun"} => ~command'.clean)
  BY <1>1 DEF InUse, Managed, Owning, NotYetClean
<1>2. ASSUME UNCHANGED <<file, pin, up, link, promised, mine, command, manager>>
      PROVE  Owning'
  BY <1>1, <1>2, CommandOwns
<1>3. ASSUME NEW t \in Tabs, OthersOpen(t) \/ OthersClose(t) \/ Announce(t)
      PROVE  Owning'
  BY <1>2, <1>3 DEF OthersOpen, OthersClose, Announce, settings, history
<1>4. ASSUME NEW e, Overflow(e)
      PROVE  Owning'
  BY <1>2, <1>4 DEF Overflow, settings, history
<1>5. ASSUME LinkLost
      PROVE  Owning'
  <2>1. /\ link # "none" /\ link' # "none" /\ ~Connected' /\ Connected
        /\ UNCHANGED <<file, pin, up, promised, mine, command, manager>>
    BY <1>5 DEF LinkLost, Connected, settings, history
  <2> QED
    BY <2>1 DEF Owning, BoundIsOwn, FileIsOwn, FileIsNamed, LinkIsHeld, PinsAgree, BoundIsThere,
       PromiseIsKept, ReplyIsKept, NotYetClean, InUse, Managed
<1>6. ASSUME NEW flag \in BOOLEAN, NEW readable \in BOOLEAN, Start(flag, readable)
      PROVE  Owning'
  <2>1. /\ UNCHANGED <<file, link, promised, command, manager>>
        /\ link = "none" /\ command.phase = "idle" /\ up' = TRUE
    BY <1>6 DEF Start, connection, Owning, LinkIsHeld
  <2>2. ~InUse' /\ ~Managed' /\ ~Connected' /\ command'.phase = "idle"
    BY <2>1 DEF InUse, Managed, Connected
  <2>3. FileIsOwn'
    <3>1. CASE file.pinned
      BY <1>6, <2>1, <3>1 DEF Start, Owning, FileIsOwn
    <3>2. CASE ~file.pinned
      BY <1>6, <2>1, <3>2 DEF Start, Owning, FileIsOwn
    <3> QED
      BY <3>1, <3>2
  <2>4. file'.pinned = file.pinned /\ promised' = promised
    BY <2>1
  <2> QED
    BY <2>1, <2>2, <2>3, <2>4 DEF Owning, BoundIsOwn, FileIsNamed, LinkIsHeld, PinsAgree, BoundIsThere,
       PromiseIsKept, ReplyIsKept, NotYetClean
<1>7. ASSUME Crash
      PROVE  Owning'
  <2>1. /\ UNCHANGED <<file, promised, mine>>
        /\ link' = "none" /\ command'.phase = "idle" /\ pin' = FALSE /\ manager'.bound = NoTab
    BY <1>7, NewIsBlank DEF Crash, history, Idle
  <2>2. ~InUse' /\ ~Managed' /\ ~Connected'
    BY <2>1 DEF InUse, Managed, Connected
  <2> QED
    BY <2>1, <2>2 DEF Owning, BoundIsOwn, FileIsOwn, FileIsNamed, LinkIsHeld, PinsAgree, BoundIsThere,
       PromiseIsKept, ReplyIsKept, NotYetClean
<1>8. ASSUME Tick \/ Refresh
      PROVE  Owning'
  BY <1>2, <1>8 DEF Tick, Refresh, settings, history
<1>9. ASSUME NEW e \in batch, RemoveDestroyed(e) \/ AdoptDiscovered(e),
             UNCHANGED <<browser, connection, settings, up, command, promised>>
      PROVE  Owning'
  <2>1. e.tab \in Tabs /\ e.tab # NoTab /\ Holds(manager)
    BY <1>9, NoTabIsNone DEF Inv, Event
  <2>2. UNCHANGED <<file, pin, up, link, promised, command>>
    BY <1>9 DEF connection, settings
  <2>3. BoundIsThere
    BY DEF Owning
  <2>4. /\ (InUse' => InUse) /\ (Managed' => Managed)
        /\ (command'.phase \in {"toggle", "begun"} => ~command'.clean)
    BY <2>2 DEF InUse, Managed, Owning, NotYetClean
  <2>5. CASE RemoveDestroyed(e)
    <3>1. CASE Has(manager, e.tab)
      <4>1. /\ manager'.pin = manager.pin
            /\ manager'.bound = IF manager.bound = e.tab THEN NoTab ELSE manager.bound
            /\ manager'.gone = IF manager.bound = e.tab /\ manager.pin THEN e.tab ELSE manager.gone
        BY <2>1, <2>5, <3>1, RemovingBinds DEF RemoveDestroyed
      <4>2. manager.pin /\ Kept(manager) => Kept(manager')
        BY <2>1, <4>1 DEF Kept
      <4>3. manager'.bound # NoTab => manager'.gone = NoTab
        BY <2>3, <4>1 DEF BoundIsThere
      <4>4. manager'.bound \in {NoTab, manager.bound} /\ mine' = mine
        BY <2>5, <4>1 DEF RemoveDestroyed
      <4> QED
        BY <2>2, <2>4, <4>1, <4>2, <4>3, <4>4, ManagerOwns
    <3>2. CASE ~Has(manager, e.tab)
      BY <1>2, <2>2, <2>5, <3>2 DEF RemoveDestroyed
    <3> QED
      BY <3>1, <3>2
  <2>6. CASE AdoptDiscovered(e)
    <3>1. mine \subseteq mine'
      BY <2>6 DEF AdoptDiscovered, Own
    <3>2. CASE UNCHANGED manager
      BY <2>2, <2>3, <2>4, <3>1, <3>2, ManagerOwns DEF BoundIsThere
    <3>3. CASE manager' = RegisterDiscoveredPage(manager, e.tab)
      <4>1. /\ manager'.pin = manager.pin
            /\ \/ manager'.bound = manager.bound /\ manager'.gone = manager.gone
               \/ manager'.bound = e.tab /\ manager'.gone = NoTab /\ Adopts(manager)
        BY <2>1, <3>3, RegisteringBinds
      <4>2. CASE manager'.bound = manager.bound /\ manager'.gone = manager.gone
        BY <2>2, <2>3, <2>4, <3>1, <4>1, <4>2, ManagerOwns DEF BoundIsThere, Kept
      <4>3. CASE manager'.bound = e.tab /\ manager'.gone = NoTab /\ Adopts(manager)
        <5>1. manager.pin => manager.gone = NoTab /\ manager.bound = NoTab
          BY <2>1, <4>3 DEF Adopts, Holds
        <5>2. manager.pin => e.tab \in mine'
          BY <2>6, <4>3, <5>1 DEF AdoptDiscovered, Own
        <5>3. ~(manager.pin /\ Kept(manager))
          BY <5>1 DEF Kept
        <5> QED
          BY <2>2, <2>4, <3>1, <4>1, <4>3, <5>2, <5>3, ManagerOwns
      <4> QED
        BY <4>1, <4>2, <4>3
    <3> QED
      BY <2>6, <3>2, <3>3 DEF AdoptDiscovered
  <2> QED
    BY <1>9, <2>5, <2>6
<1> QED
  BY <1>3, <1>4, <1>5, <1>6, <1>7, <1>8, <1>9 DEF Others, Process, Apply

(* So does a toggle of the pin: it writes the file before it pins.         *)
LEMMA OpeningOwns == Inv /\ Owning /\ Sorts /\ Opening => Owning'
<1> SUFFICES ASSUME Inv, Owning, Sorts, Opening PROVE Owning'
  OBVIOUS
<1>1. ASSUME NEW flag \in {"keep", "pin", "unpin"}, NEW skip \in BOOLEAN, Begin(flag, skip)
      PROVE  Owning'
  <2>1. /\ UNCHANGED <<file, pin, up, link, promised, manager, mine>>
        /\ up /\ command.phase = "idle"
        /\ command'.phase = "toggle" /\ ~command'.clean
    BY <1>1 DEF Begin, Free, Idle, settings, history
  <2>2. ~InUse' /\ (Managed' => Managed)
    BY <2>1 DEF InUse, Managed, AttachPhases
  <2> QED
    BY <2>1, <2>2, CommandOwns
<1>2. ASSUME ToggleFails
      PROVE  Owning'
  <2>1. /\ UNCHANGED <<file, pin, up, link, promised, manager, mine>>
        /\ up /\ command.phase = "toggle"
        /\ command'.phase = "idle"
    BY <1>2 DEF ToggleFails, Answer, At, Free, Idle, settings, history, connection
  <2>2. ~InUse' /\ (Managed' => Managed)
    BY <2>1 DEF InUse, Managed, AttachPhases
  <2> QED
    BY <2>1, <2>2, CommandOwns
<1>3. ASSUME KeepPin
      PROVE  Owning'
  <2>1. /\ UNCHANGED <<file, pin, up, link, promised, manager, mine>>
        /\ up /\ command.phase = "toggle"
        /\ command'.phase = "begun" /\ command'.clean = command.clean
    BY <1>3 DEF KeepPin, At, Free, settings, history, connection, Sorts, Commands
  <2>2. ~InUse' /\ (Managed' => Managed)
    BY <2>1 DEF InUse, Managed, AttachPhases
  <2>3. ~command.clean
    BY <2>1 DEF Owning, NotYetClean
  <2> QED
    BY <2>1, <2>2, <2>3, CommandOwns
<1>4. ASSUME TogglePin
      PROVE  Owning'
  <2>1. /\ up /\ command.phase = "toggle" /\ Asked # pin /\ Asked \in BOOLEAN /\ pin \in BOOLEAN
        /\ UNCHANGED <<up, link>>
        /\ pin' = Asked
        /\ command'.phase = "begun" /\ command'.clean = command.clean
    BY <1>4 DEF TogglePin, Toggles, Asked, At, Free, connection, Sorts, Commands, Inv
  <2>2. ~command'.clean /\ ~InUse' /\ (Managed <=> link # "none") /\ (Managed' <=> link # "none")
    BY <2>1 DEF Owning, NotYetClean, InUse, Managed, AttachPhases
  <2>3. /\ file'.target = file.target
        /\ file'.pinned = (file # NoFile /\ Asked)
        /\ (file' # NoFile => file # NoFile)
    <3>1. CASE file = NoFile
      BY <1>4, <3>1 DEF TogglePin, NoFile
    <3>2. CASE file # NoFile
      BY <1>4, <2>1, <3>2 DEF TogglePin, Sorts, Binding
    <3> QED
      BY <3>1, <3>2
  <2>4. /\ link # "none" => /\ manager'.pin = Asked /\ manager'.gone = NoTab
                            /\ Asked => manager'.bound = ActivePage(manager)
        /\ link = "none" => UNCHANGED manager
    BY <1>4, <2>1, SettingPins DEF TogglePin, Inv, Holds
  <2>5. BoundIsOwn'
    <3>1. CASE Connected' /\ Asked
      <4>1. Connected /\ link # "none"
        BY <2>1, <3>1 DEF Connected
      <4>2. ActivePage(manager) \in mine'
        BY <1>4, <3>1, <4>1 DEF TogglePin
      <4> QED
        BY <2>4, <3>1, <4>1, <4>2 DEF BoundIsOwn
    <3>2. CASE Connected' /\ ~Asked
      <4>1. link # "none"
        BY <2>1, <3>2 DEF Connected
      <4> QED
        BY <2>4, <3>2, <4>1 DEF BoundIsOwn
    <3> QED
      BY <2>1, <2>2, <3>1, <3>2 DEF BoundIsOwn
  <2>6. FileIsOwn'
    <3>1. Asked => file.target \in mine'
      BY <1>4 DEF TogglePin
    <3>2. pin' \/ file'.pinned => Asked
      BY <2>1, <2>3
    <3> QED
      BY <2>3, <3>1, <3>2 DEF FileIsOwn
  <2>7. FileIsNamed'
    BY <2>3 DEF Owning, FileIsNamed
  <2>8. LinkIsHeld'
    BY <2>1, <2>2 DEF Owning, LinkIsHeld
  <2>9. PinsAgree'
    BY <2>1, <2>2, <2>3, <2>4 DEF PinsAgree
  <2>10. BoundIsThere'
    BY <2>4 DEF Owning, BoundIsThere
  <2>11. PromiseIsKept'
    <3> SUFFICES ASSUME promised' PROVE file'.pinned /\ link = "none"
      BY <2>2 DEF PromiseIsKept
    <3>1. promised /\ Asked
      BY <1>4 DEF TogglePin
    <3>2. file.pinned
      BY <3>1 DEF Owning, PromiseIsKept
    <3>3. file # NoFile
      BY <3>2 DEF NoFile
    <3>4. ~pin
      BY <2>1, <3>1
    <3>5. ~Managed
      BY <3>2, <3>4 DEF Owning, PinsAgree
    <3> QED
      BY <2>2, <2>3, <3>1, <3>3, <3>5
  <2>12. ReplyIsKept' /\ NotYetClean'
    BY <2>1, <2>2 DEF ReplyIsKept, NotYetClean
  <2> QED
    BY <2>5, <2>6, <2>7, <2>8, <2>9, <2>10, <2>11, <2>12 DEF Owning
<1> QED
  BY <1>1, <1>2, <1>3, <1>4 DEF Opening

(* Where a restored binding leaves the daemon.                             *)
LEMMA AttachedIsManaged ==
    ASSUME Owning, Sorts, Attaching, Attached, UNCHANGED <<up, link>>
    PROVE  /\ Managed' /\ up /\ link # "none" /\ LinkIsHeld'
           /\ NotYetClean' /\ ReplyIsKept'
           /\ command'.phase \in {"restored", "ready"}
<1>1. up /\ command.phase \in {"listening", "auto"}
  BY DEF Attaching, At, Free
<1>2. link # "none"
  BY <1>1 DEF Owning, LinkIsHeld, InUse
<1>3. command'.phase \in {"restored", "ready"}
  BY DEF Attached, Sorts, Commands
<1> QED
  BY <1>1, <1>2, <1>3 DEF Managed, AttachPhases, LinkIsHeld, NotYetClean, ReplyIsKept

(* A connection restores, keeps or opens a tab of its own, or is undone.   *)
LEMMA AttachOwns == Inv /\ Owning /\ Sorts /\ Attach => Owning'
<1> SUFFICES ASSUME Inv, Owning, Sorts, Attach PROVE Owning'
  OBVIOUS
<1>1. /\ Holds(Attachment) /\ Strict \in BOOLEAN /\ Attachment.pin = Strict
      /\ (~Strict => Attachment.gone = NoTab)
  BY AttachmentHolds, SettingPins DEF Inv, Holds, Attachment
<1>2. NoFile.target = NoTab /\ NoFile.pinned = FALSE
  BY NoFileIsBlank
<1>3. promised => Strict
  BY DEF Owning, PromiseIsKept, Strict
<1>4. ASSUME NEW how \in {"cdp", "auto"}, Connect(how)
      PROVE  Owning'
  <2>1. /\ UNCHANGED <<file, pin, up, promised, mine>>
        /\ up /\ link' = "open" /\ command'.phase = how
    BY <1>4 DEF Connect, At, Free, settings, history, Sorts, Commands
  <2>2. manager'.pin = FALSE /\ (manager'.bound # NoTab => manager'.gone = NoTab)
    BY <1>4, DiscoveredSorts DEF Connect
  <2>3. ~Managed' /\ command'.phase \notin {"replying", "toggle", "begun"}
    BY <2>1 DEF Managed, AttachPhases
  <2> QED
    BY <2>1, <2>2, <2>3 DEF Owning, BoundIsOwn, FileIsOwn, FileIsNamed, LinkIsHeld, PinsAgree,
       BoundIsThere, PromiseIsKept, ReplyIsKept, NotYetClean
<1>5. ASSUME ConnectFails \/ RestoreFails
      PROVE  Owning'
  <2>1. /\ manager'.bound = NoTab /\ link' = "none" /\ command'.phase = "idle"
        /\ UNCHANGED <<mine, promised>>
    BY <1>5, NewIsBlank DEF ConnectFails, RestoreFails, Disconnect, Answer, Idle, history
  <2>2. /\ file' = file \/ (file' = NoFile /\ ~Strict)
        /\ pin' \in {pin, Strict}
    BY <1>5 DEF ConnectFails, RestoreFails, settings, Stale
  <2>3. FileIsOwn'
    <3>1. CASE file' = NoFile
      BY <1>2, <3>1 DEF FileIsOwn
    <3>2. CASE file' = file
      <4>1. pin' \/ file'.pinned => pin \/ file.pinned
        BY <2>2, <3>2 DEF Strict
      <4> QED
        BY <2>1, <3>2, <4>1 DEF Owning, FileIsOwn
    <3> QED
      BY <2>2, <3>1, <3>2
  <2>4. PromiseIsKept'
    <3>1. promised' => file'.pinned
      BY <1>3, <2>1, <2>2 DEF Owning, PromiseIsKept
    <3> QED
      BY <2>1, <3>1 DEF PromiseIsKept, Managed
  <2>5. ~InUse' /\ ~Managed' /\ ~Connected' /\ FileIsNamed'
    BY <2>1, <2>2 DEF InUse, Managed, Connected, FileIsNamed, Owning
  <2> QED
    BY <2>1, <2>3, <2>4, <2>5 DEF Owning, BoundIsOwn, LinkIsHeld, PinsAgree,
       BoundIsThere, ReplyIsKept, NotYetClean
<1>6. ASSUME Subscribe
      PROVE  Owning'
  <2>1. /\ UNCHANGED <<file, pin, up, link, promised, manager, mine>>
        /\ up
        /\ \/ command.phase = "cdp" /\ command'.phase = "listening"
           \/ command.phase = "restored" /\ command'.phase = "ready"
    BY <1>6 DEF Subscribe, At, Free, settings, history, Sorts, Commands
  <2>2. InUse /\ (Managed' => Managed)
    BY <2>1 DEF InUse, Managed, AttachPhases
  <2>3. command'.phase \notin {"replying", "toggle", "begun"}
    BY <2>1
  <2> QED
    BY <2>1, <2>2, <2>3, CommandOwns
<1>7. ASSUME Restore
      PROVE  Owning'
  <2> DEFINE t == file.target
  <2>1. /\ file # NoFile /\ pin' = Strict /\ (Strict \/ Has(manager, t))
        /\ manager' = RestoreTargetBinding(Attachment, t)
        /\ Save(manager', Strict) \/ (~Strict /\ SaveFails(manager', Strict))
        /\ Attaching /\ Attached /\ UNCHANGED <<up, link, promised, mine>>
    BY <1>7 DEF Restore, connection, history
  <2>2. t # NoTab /\ t \in Tabs
    BY <2>1 DEF Owning, FileIsNamed, Inv
  <2>3. Attachment.pages = manager.pages
    BY SettingPins, <1>1 DEF Attachment, Inv, Holds
  <2>4. Has(Attachment, t) <=> Has(manager, t)
    BY <2>3 DEF Has
  <2>5. /\ manager'.pin = Strict
        /\ Has(manager, t) => manager'.bound = t /\ manager'.gone = NoTab /\ ActivePage(manager') = t
        /\ ~Has(manager, t) => manager'.bound = NoTab /\ manager'.gone = t
    BY <1>1, <2>1, <2>4, RestoringBinds
  <2>6. Strict => t \in mine
    BY <2>2 DEF Owning, FileIsOwn, Strict
  <2>7. file' = file \/ file' = [target |-> t, pinned |-> Strict]
    BY <2>1, <2>2, <2>5 DEF Save, SaveFails, Snapshot
  <2>8. file'.target = t /\ file'.pinned \in {file.pinned, Strict}
    BY <2>7
  <2>9. file.pinned => Strict
    BY DEF Strict
  <2>10. BoundIsOwn'
    BY <2>1, <2>2, <2>5, <2>6 DEF BoundIsOwn
  <2>11. FileIsOwn' /\ FileIsNamed'
    BY <2>1, <2>2, <2>6, <2>8, <2>9 DEF FileIsOwn, FileIsNamed
  <2>12. PinsAgree'
    BY <2>1, <2>5, <2>8, <2>9 DEF PinsAgree
  <2>13. BoundIsThere' /\ Kept(manager')
    BY <2>2, <2>5 DEF BoundIsThere, Kept
  <2>14. PromiseIsKept'
    <3>1. promised => file'.pinned
      <4>1. promised => file.pinned
        BY DEF Owning, PromiseIsKept
      <4>2. CASE file' = file
        BY <4>1, <4>2
      <4>3. CASE file' = [target |-> t, pinned |-> Strict]
        BY <1>3, <4>3
      <4> QED
        BY <2>7, <4>2, <4>3
    <3> QED
      BY <2>1, <2>13, <3>1 DEF PromiseIsKept
  <2> QED
    BY <2>1, <2>10, <2>11, <2>12, <2>13, <2>14, AttachedIsManaged DEF Owning
<1>8. ASSUME KeepDiscovered
      PROVE  Owning'
  <2>1. /\ ~Strict /\ file' = NoFile
        /\ Attaching /\ Attached /\ UNCHANGED <<pin, up, link, promised, mine>>
        /\ Stale => ~Has(manager, file.target)
    BY <1>8 DEF KeepDiscovered, Attaching, connection, history, Stale
  <2>2. pin' = FALSE /\ ~promised
    BY <1>3, <2>1 DEF Strict, Inv
  <2>3. Attachment.pages = manager.pages
    BY SettingPins, <1>1 DEF Attachment, Inv, Holds
  <2>4. manager'.pin = FALSE /\ manager'.gone = NoTab
    <3>1. CASE Stale
      <4>1. ~Has(Attachment, file.target)
        BY <2>1, <2>3, <3>1 DEF Has
      <4> QED
        BY <1>1, <1>8, <2>1, <3>1, <4>1, RestoringBinds DEF KeepDiscovered
    <3>2. CASE ~Stale
      BY <1>1, <1>8, <2>1, <3>2 DEF KeepDiscovered
    <3> QED
      BY <3>1, <3>2
  <2>5. BoundIsOwn' /\ FileIsOwn' /\ FileIsNamed' /\ PinsAgree' /\ BoundIsThere' /\ PromiseIsKept'
    BY <1>2, <2>1, <2>2, <2>4 DEF BoundIsOwn, FileIsOwn, FileIsNamed, PinsAgree, BoundIsThere,
       PromiseIsKept
  <2> QED
    BY <2>1, <2>5, AttachedIsManaged DEF Owning
<1>9. ASSUME NEW t \in Tabs, OpenOnAttach(t)
      PROVE  Owning'
  <2>1. /\ Attaching /\ Attached /\ UNCHANGED <<pin, up, link, promised>>
        /\ (file = NoFile \/ ~Strict)
        /\ manager' = AddPage(Attachment, t) /\ mine' = Own(Attachment, t)
        /\ \/ file' = Snapshot(manager', Strict)
           \/ ~Strict /\ file' = NoFile
    BY <1>9 DEF OpenOnAttach, FreshTab, Stale
  <2>2. t # NoTab
    BY NoTabIsNone
  <2>3. manager'.pin = Strict /\ manager'.bound = t /\ manager'.gone = NoTab /\ ActivePage(manager') = t
    BY <1>1, <2>1, AddingBinds
  <2>4. file' = [target |-> t, pinned |-> Strict] \/ (~Strict /\ file' = NoFile)
    BY <2>1, <2>2, <2>3 DEF Snapshot
  <2>5. pin = Strict /\ ~promised
    <3>1. ~file.pinned
      BY <1>2, <2>1 DEF Strict
    <3> QED
      BY <3>1 DEF Strict, Inv, Owning, PromiseIsKept
  <2>6. Strict => t \in mine'
    BY <1>1, <2>1 DEF Own
  <2>7. BoundIsOwn' /\ BoundIsThere'
    BY <2>3, <2>6 DEF BoundIsOwn, BoundIsThere
  <2>8. FileIsOwn' /\ FileIsNamed' /\ (file'.pinned => Strict)
    <3>1. CASE file' = [target |-> t, pinned |-> Strict]
      BY <2>1, <2>2, <2>5, <2>6, <3>1 DEF FileIsOwn, FileIsNamed
    <3>2. CASE ~Strict /\ file' = NoFile
      BY <1>2, <3>2 DEF FileIsOwn, FileIsNamed
    <3> QED
      BY <2>4, <3>1, <3>2
  <2>9. PinsAgree' /\ PromiseIsKept'
    BY <2>1, <2>3, <2>5, <2>8 DEF PinsAgree, PromiseIsKept
  <2> QED
    BY <2>1, <2>7, <2>8, <2>9, AttachedIsManaged DEF Owning
<1> QED
  BY <1>4, <1>5, <1>6, <1>7, <1>8, <1>9 DEF Attach

(* A tab of its own, whatever made the command open it.                    *)
LEMMA FreshTabOwns ==
    ASSUME Inv, Owning, NEW t \in Tabs, FreshTab(manager, t),
           UNCHANGED <<file, pin, up, link, promised>>, up,
           command'.phase \in {"ensured", "done"},
           InUse' => InUse \/ Connected, Managed' => Managed
    PROVE  Owning'
<1>1. /\ manager'.pin = manager.pin /\ manager'.bound = t /\ manager'.gone = NoTab
      /\ t # NoTab
  BY AddingBinds, NoTabIsNone DEF Inv, FreshTab
<1>2. mine \subseteq mine' /\ (manager.pin => t \in mine')
  BY DEF FreshTab, Own
<1>3. Kept(manager')
  BY <1>1 DEF Kept
<1>4. command'.phase \notin {"replying", "toggle", "begun"}
  OBVIOUS
<1> QED
  BY <1>1, <1>2, <1>3, <1>4, ManagerOwns

(* A command is dispatched under the connection it found.                  *)
LEMMA DispatchIsUsed ==
    ASSUME Dispatches \/ Ready \/ At("using")
    PROVE  /\ up /\ command.phase \notin AttachPhases
           /\ InUse \/ Connected
BY DEF Dispatches, Ready, At, Free, AttachPhases, InUse

LEMMA DispatchIsManaged ==
    ASSUME Dispatches \/ Ready \/ At("using"), UNCHANGED link
    PROVE  /\ up /\ (Managed' => Managed)
           /\ (InUse' => InUse \/ Connected)
BY DispatchIsUsed DEF Managed

(* What is saved is the tab that is bound; a session pinned without one    *)
(* takes it.                                                               *)
LEMMA PersistOwns == Inv /\ Owning /\ Sorts /\ CacheMatchesFile /\ Persist => Owning'
<1> SUFFICES ASSUME Inv, Owning, Sorts, CacheMatchesFile, Persist PROVE Owning'
  OBVIOUS
<1> DEFINE b == [target |-> ActivePage(manager), pinned |-> pin]
<1>1. /\ up /\ command.phase = "done"
      /\ UNCHANGED <<link, pin, manager, up, promised>>
      /\ Save(manager, pin) \/ SaveFails(manager, pin)
      /\ mine' = IF manager.bound = NoTab THEN Own(manager, file'.target) ELSE mine
  BY DEF Persist, At, Free
<1>2. command'.phase = "replying"
      /\ (command'.clean => manager.bound # NoTab /\ Save(manager, pin))
  BY DEF Persist, Persisted, Sorts, Commands
<1>3. link # "none" /\ Managed /\ manager.pin = pin /\ (file.pinned => pin)
  BY <1>1 DEF Owning, LinkIsHeld, InUse, Managed, AttachPhases, PinsAgree
<1>4. \/ file' = file
      \/ file' = b /\ ActivePage(manager) # NoTab
  BY <1>1 DEF Save, SaveFails, Snapshot
<1>5. manager.bound # NoTab => manager.gone = NoTab /\ ActivePage(manager) = manager.bound
  BY DEF Owning, BoundIsThere, Inv, Holds, ActivePage
<1>6. command'.clean => file' = [target |-> manager.bound, pinned |-> pin]
  <2> SUFFICES ASSUME command'.clean PROVE file' = [target |-> manager.bound, pinned |-> pin]
    OBVIOUS
  <2>1. Save(manager, pin) /\ manager.bound # NoTab
    BY <1>2
  <2>2. Snapshot(manager, pin) = [target |-> manager.bound, pinned |-> pin]
    BY <1>5, <2>1 DEF Snapshot
  <2>3. Snapshot(manager, pin) # NoFile
    BY <2>1, <2>2 DEF NoFile
  <2>4. file' = Snapshot(manager, pin)
    BY <2>1, <2>3 DEF Save, CacheMatchesFile
  <2> QED
    BY <2>2, <2>4
<1>7. mine \subseteq mine'
  BY <1>1 DEF Own
<1>8. BoundIsOwn' /\ BoundIsThere'
  BY <1>1, <1>3, <1>7 DEF Owning, BoundIsOwn, BoundIsThere, Connected, InUse
<1>9. FileIsNamed' /\ (file'.pinned => pin)
  BY <1>3, <1>4 DEF Owning, FileIsNamed
<1>10. FileIsOwn'
  <2> SUFFICES ASSUME pin PROVE file'.target \in mine' \cup {NoTab}
    BY <1>1, <1>9 DEF FileIsOwn
  <2>1. manager.pin
    BY <1>3
  <2>2. CASE manager.bound = NoTab
    BY <1>1, <2>1, <2>2 DEF Own
  <2>3. CASE manager.bound # NoTab
    <3>1. manager.bound \in mine
      BY <1>1, <2>1, <2>3 DEF Owning, BoundIsOwn, InUse
    <3>2. file.target \in mine \cup {NoTab}
      BY DEF Owning, FileIsOwn
    <3> QED
      BY <1>4, <1>5, <1>7, <2>3, <3>1, <3>2
  <2> QED
    BY <2>2, <2>3
<1>11. LinkIsHeld' /\ NotYetClean'
  BY <1>1, <1>2, <1>3 DEF LinkIsHeld, NotYetClean
<1>12. PinsAgree'
  BY <1>1, <1>3, <1>9 DEF PinsAgree
<1>13. PromiseIsKept'
  <2> SUFFICES ASSUME promised PROVE file'.pinned /\ Kept(manager)
    BY <1>1 DEF PromiseIsKept
  <2>1. file.pinned /\ Kept(manager)
    BY <1>3 DEF Owning, PromiseIsKept
  <2>2. pin
    BY <1>3, <2>1
  <2>3. CASE file' = file
    BY <2>1, <2>3
  <2>4. CASE file' = b
    BY <2>1, <2>2, <2>4
  <2> QED
    BY <1>4, <2>3, <2>4
<1>14. ReplyIsKept'
  <2> SUFFICES ASSUME command'.clean, pin
               PROVE  /\ file'.pinned /\ Kept(manager)
                      /\ file'.target = manager.bound
    BY <1>1, <1>3 DEF ReplyIsKept
  <2> QED
    BY <1>2, <1>6 DEF Kept
<1> QED
  BY <1>8, <1>9, <1>10, <1>11, <1>12, <1>13, <1>14 DEF Owning

(* A clean reply promises what the save before it made true.               *)
LEMMA ReplyOwns == Inv /\ Owning /\ Reply => Owning'
<1> SUFFICES ASSUME Inv, Owning, Reply PROVE Owning'
  OBVIOUS
<1>1. /\ up /\ command.phase = "replying" /\ command'.phase = "idle"
      /\ UNCHANGED <<file, pin, up, link, manager>>
  BY DEF Reply, At, Free, Answer, Idle, settings, connection
<1>2. ~InUse /\ ~InUse' /\ (Managed <=> link # "none") /\ (Managed' <=> link # "none")
      /\ Connected' = Connected
  BY <1>1 DEF InUse, Managed, AttachPhases, Connected
<1> DEFINE Owned == pin /\ command.clean /\ manager.bound \in {command.chose} \ {NoTab}
<1>3. /\ Owned => mine' = {command.chose} /\ manager.bound = command.chose
      /\ ~Owned => mine' = mine
  BY DEF Reply
<1>4. Owned => file.target = command.chose
  BY <1>1 DEF Owning, ReplyIsKept
<1> HIDE DEF Owned
<1>5. BoundIsOwn'
  <2>1. CASE Owned
    BY <1>1, <1>3, <2>1 DEF BoundIsOwn
  <2>2. CASE ~Owned
    BY <1>1, <1>2, <1>3, <2>2 DEF Owning, BoundIsOwn
  <2> QED
    BY <2>1, <2>2
<1>6. FileIsOwn'
  <2>1. CASE Owned
    BY <1>1, <1>3, <1>4, <2>1 DEF FileIsOwn
  <2>2. CASE ~Owned
    BY <1>1, <1>3, <2>2 DEF Owning, FileIsOwn
  <2> QED
    BY <2>1, <2>2
<1>7. PromiseIsKept'
  <2> SUFFICES ASSUME promised' PROVE file.pinned /\ (link # "none" => Kept(manager))
    BY <1>1, <1>2 DEF PromiseIsKept
  <2>1. CASE promised
    BY <1>2, <2>1 DEF Owning, PromiseIsKept
  <2>2. CASE command.clean /\ pin
    BY <1>1, <2>2 DEF Owning, ReplyIsKept
  <2> QED
    BY <2>1, <2>2 DEF Reply
<1>8. FileIsNamed' /\ LinkIsHeld' /\ PinsAgree' /\ BoundIsThere'
  BY <1>1, <1>2 DEF Owning, FileIsNamed, LinkIsHeld, PinsAgree, BoundIsThere
<1>9. ReplyIsKept' /\ NotYetClean'
  BY <1>1 DEF ReplyIsKept, NotYetClean
<1> QED
  BY <1>5, <1>6, <1>7, <1>8, <1>9 DEF Owning

(* A command acts on the session's tabs or changes them for its own.       *)
LEMMA BodyOwns == Inv /\ Owning /\ Sorts /\ CacheMatchesFile /\ Body => Owning'
<1> SUFFICES ASSUME Inv, Owning, Sorts, CacheMatchesFile, Body PROVE Owning'
  OBVIOUS
<1>1. BoundIsThere
  BY DEF Owning
<1>2. \A clean, t : Ends(clean, t) => command'.phase = "done"
  BY DEF Ends, Sorts, Commands
<1>3. ASSUME EnsurePage
      PROVE  Owning'
  <2>1. UNCHANGED <<file, pin, up, link, promised>> /\ Ready /\ command'.phase = "ensured"
    BY <1>3 DEF EnsurePage, settings, Sorts, Commands
  <2>2. CASE \E t \in Tabs : FreshTab(manager, t)
    BY <2>1, <2>2, DispatchIsManaged, FreshTabOwns
  <2>3. CASE UNCHANGED <<manager, mine>>
    BY <2>1, <2>3, DispatchIsManaged, CommandOwns
  <2> QED
    BY <1>3, <2>2, <2>3 DEF EnsurePage
<1>4. ASSUME Refuse \/ Admit \/ Act
      PROVE  Owning'
  <2>1. /\ UNCHANGED <<file, pin, up, link, promised, manager, mine>>
        /\ Dispatches \/ At("using")
        /\ command'.phase \in {"idle", "using"}
    BY <1>4 DEF Refuse, Admit, Act, Answer, Idle, connection, settings, history, Sorts, Commands,
       At
  <2>2. command'.phase \notin {"replying", "toggle", "begun"}
    BY <2>1
  <2> QED
    BY <2>1, <2>2, DispatchIsManaged, CommandOwns
<1>5. ASSUME NEW clean \in BOOLEAN, EndUse(clean) \/ ListOrFail(clean)
      PROVE  Owning'
  <2>1. /\ UNCHANGED <<file, pin, up, link, promised, manager, mine>>
        /\ Dispatches \/ At("using")
        /\ command'.phase = "done"
    BY <1>2, <1>5 DEF EndUse, ListOrFail, connection, settings, history
  <2> QED
    BY <2>1, DispatchIsManaged, CommandOwns
<1>6. ASSUME NEW t \in Tabs, NEW clean \in BOOLEAN, OpenTab(t, clean)
      PROVE  Owning'
  <2>1. UNCHANGED <<file, pin, up, link, promised>> /\ Dispatches /\ command'.phase = "done"
        /\ FreshTab(manager, t)
    BY <1>2, <1>6 DEF OpenTab, settings
  <2> QED
    BY <2>1, DispatchIsManaged, FreshTabOwns
<1>7. ASSUME NEW t \in Tabs, NEW clean \in BOOLEAN, SwitchTab(t, clean)
      PROVE  Owning'
  <2> DEFINE q == [manager EXCEPT !.active = IndexOf(manager, t)]
  <2>1. UNCHANGED <<file, pin, up, link, promised>> /\ Dispatches /\ command'.phase = "done"
        /\ Has(manager, t) /\ manager' = BindActiveTarget(q) /\ mine' = Own(manager, t)
    BY <1>2, <1>7 DEF SwitchTab, connection, settings
  <2>2. IndexOf(manager, t) \in DOMAIN manager.pages
        /\ manager.pages[IndexOf(manager, t)] = t /\ IndexOf(manager, t) \in Nat \ {0}
    BY <2>1, IndexIsAPage DEF Inv, Holds
  <2>3. q \in Manager /\ q.pin = manager.pin /\ q.active = IndexOf(manager, t)
        /\ q.pages = manager.pages
    BY <2>2 DEF Inv, Holds, Manager
  <2>4. ActivePage(q) = t
    BY <2>2, <2>3 DEF ActivePage
  <2> HIDE DEF q
  <2>5. manager'.pin = manager.pin /\ manager'.bound = t /\ manager'.gone = NoTab
    BY <2>1, <2>3, <2>4, BindingBinds
  <2>6. mine \subseteq mine' /\ (manager.pin => t \in mine')
    BY <2>1 DEF Own
  <2>7. Kept(manager')
    BY <2>5, NoTabIsNone DEF Kept
  <2> QED
    BY <2>1, <2>5, <2>6, <2>7, DispatchIsManaged, ManagerOwns
<1>8. ASSUME NEW t \in Tabs, OpenBackgroundTab(t)
      PROVE  Owning'
  <2>1. UNCHANGED <<file, pin, up, link, promised>> /\ Dispatches /\ command'.phase = "done"
    BY <1>2, <1>8 DEF OpenBackgroundTab, settings
  <2>2. manager'.pin = manager.pin /\ manager'.bound = manager.bound /\ manager'.gone = manager.gone
    BY <1>8, AddingQuietlyBinds DEF OpenBackgroundTab, Inv
  <2>3. mine \subseteq mine'
    BY <1>8 DEF OpenBackgroundTab, Own
  <2> QED
    BY <1>1, <2>1, <2>2, <2>3, DispatchIsManaged, ManagerOwns DEF BoundIsThere, Kept
<1>9. ASSUME NEW t \in Tabs, CloseTab(t)
      PROVE  Owning'
  <2>1. UNCHANGED <<file, pin, up, link, promised, mine>> /\ Dispatches /\ command'.phase = "done"
    BY <1>2, <1>9 DEF CloseTab, settings, history
  <2>2. /\ manager'.pin = manager.pin
        /\ manager'.bound = IF manager.bound = t THEN NoTab ELSE manager.bound
        /\ manager'.gone = IF manager.bound = t /\ manager.pin THEN t ELSE manager.gone
    BY <1>9, RemovingBinds DEF CloseTab, Inv
  <2>3. manager.pin /\ Kept(manager) => Kept(manager')
    BY <2>2, NoTabIsNone DEF Kept
  <2>4. manager'.bound # NoTab => manager'.gone = NoTab
    BY <1>1, <2>2 DEF BoundIsThere
  <2>5. manager'.bound \in {NoTab, manager.bound}
    BY <2>2
  <2> QED
    BY <2>1, <2>2, <2>3, <2>4, <2>5, DispatchIsManaged, ManagerOwns
<1>10. ASSUME Skip
       PROVE  Owning'
  <2>1. /\ UNCHANGED <<file, pin, up, link, promised, manager, mine>>
        /\ up /\ command.phase = "begun"
        /\ command'.phase = "replying" /\ command'.clean = command.clean
    BY <1>10 DEF Skip, At, Free, settings, history, Sorts, Commands
  <2>2. ~command'.clean /\ ~InUse' /\ (Managed' => Managed)
    BY <2>1 DEF Owning, NotYetClean, InUse, Managed, AttachPhases
  <2> QED
    BY <2>1, <2>2, CommandOwns
<1> QED
  BY <1>3, <1>4, <1>5, <1>6, <1>7, <1>8, <1>9, <1>10, PersistOwns, ReplyOwns DEF Body

-----------------------------------------------------------------------------
(* In the first state nothing is pinned, bound, saved or promised.         *)
LEMMA InitOwns == Init => Owning
<1> SUFFICES ASSUME Init PROVE Owning
  OBVIOUS
<1>1. /\ link = "none" /\ command.phase = "idle" /\ ~promised /\ ~pin /\ file = NoFile
      /\ manager.bound = NoTab /\ NoFile.target = NoTab /\ NoFile.pinned = FALSE
  BY NewIsBlank, NoFileIsBlank DEF Init, Idle
<1> QED
  BY <1>1 DEF Owning, BoundIsOwn, FileIsOwn, FileIsNamed, LinkIsHeld, PinsAgree, BoundIsThere,
     PromiseIsKept, ReplyIsKept, NotYetClean, InUse, Managed, Connected

(* The inductive invariant: the save that is left out needs the cache.     *)
Owns == Shaped /\ CacheMatchesFile /\ Owning

(* The inductive invariant of the promise is kept by every step.           *)
LEMMA OwnsKeeps == Owns /\ [Next]_vars => Owns'
<1> SUFFICES ASSUME Owns, [Next]_vars PROVE Owns'
  OBVIOUS
<1>1. Shaped'
  BY ShapedKeeps DEF Owns
<1>2. Inv /\ Sorts /\ CacheMatchesFile /\ Owning
  BY DEF Owns, Shaped
<1>3. CASE UNCHANGED vars
  <2>1. UNCHANGED <<browser, connection, settings, history>>
        /\ UNCHANGED <<manager, batch, up, command>>
    BY <1>3 DEF vars
  <2>2. CacheMatchesFile'
    BY <1>2, <2>1 DEF CacheMatchesFile, settings
  <2>3. UNCHANGED <<file, pin, up, link, promised, manager, mine, command>>
    BY <2>1 DEF connection, settings, history
  <2>4. (InUse' => InUse) /\ (Managed' => Managed)
        /\ (command'.phase \in {"toggle", "begun"} => ~command'.clean)
    BY <1>2, <2>3 DEF InUse, Managed, Owning, NotYetClean
  <2>5. Owning'
    BY <1>2, <2>3, <2>4, CommandOwns
  <2> QED
    BY <1>1, <2>2, <2>5 DEF Owns
<1>4. CASE Next
  <2>1. CacheMatchesFile'
    BY <1>2, <1>4, ElsewhereMatches, OpeningMatches, AttachMatches, BodyMatches DEF Next
  <2>2. Owning'
    BY <1>2, <1>4, ElsewhereOwns, OpeningOwns, AttachOwns, BodyOwns DEF Next
  <2> QED
    BY <1>1, <2>1, <2>2 DEF Owns
<1> QED
  BY <1>3, <1>4

(* Only a use of the active tab is an act on a tab it did not act on yet.  *)
LEMMA OnlyActActs ==
    ASSUME Sorts, Next, NEW t \in Tabs, command'.acted = t, command.acted # t
    PROVE  Act
<1>1. t # NoTab /\ Idle.acted = NoTab /\ command \in Commands
  BY NoTabIsNone DEF Idle, Sorts
<1>2. UNCHANGED command => FALSE
  OBVIOUS
<1>3. \A p : command' = [command EXCEPT !.phase = p] => FALSE
  BY <1>1 DEF Commands
<1>4. \A clean, u : Ends(clean, u) => FALSE
  BY <1>1 DEF Commands, Ends
<1>5. command' # Idle
  BY <1>1
<1>6. CASE Others \/ Process
  BY <1>2, <1>5, <1>6 DEF Others, OthersOpen, OthersClose, Announce, Overflow, LinkLost, Process,
     Start, Crash, Tick, Refresh, Apply
<1>7. CASE Opening
  <2>1. ASSUME NEW flag, NEW skip, Begin(flag, skip)
        PROVE  FALSE
    BY <1>1, <2>1 DEF Begin, Idle
  <2>2. ASSUME KeepPin \/ TogglePin
        PROVE  FALSE
    BY <1>1, <2>2 DEF KeepPin, TogglePin, Commands
  <2> QED
    BY <1>5, <1>7, <2>1, <2>2 DEF Opening, ToggleFails, Answer
<1>8. CASE Attach
  BY <1>3, <1>5, <1>8 DEF Attach, Connect, ConnectFails, Subscribe, Restore, KeepDiscovered,
     RestoreFails, OpenOnAttach, Attached, Answer
<1>9. CASE Body
  <2>1. \A clean : Persisted(clean) => FALSE
    BY <1>1 DEF Commands, Persisted
  <2>2. EnsurePage \/ Refuse \/ Admit \/ Skip \/ Reply => FALSE
    BY <1>3, <1>5 DEF EnsurePage, Refuse, Admit, Skip, Reply, Answer
  <2>3. \A clean : EndUse(clean) \/ ListOrFail(clean) => FALSE
    BY <1>4 DEF EndUse, ListOrFail
  <2>4. \A u, clean : OpenTab(u, clean) \/ SwitchTab(u, clean) => FALSE
    BY <1>4 DEF OpenTab, SwitchTab
  <2>5. \A u : OpenBackgroundTab(u) \/ CloseTab(u) => FALSE
    BY <1>4 DEF OpenBackgroundTab, CloseTab
  <2>6. Persist => FALSE
    BY <2>1 DEF Persist
  <2> QED
    BY <1>9, <2>2, <2>3, <2>4, <2>5, <2>6 DEF Body
<1> QED
  BY <1>6, <1>7, <1>8, <1>9 DEF Next

(* A pinned session acts only on a tab it opened or chose: once a command  *)
(* succeeded under the pin, through closed tabs, late events, lost links,  *)
(* failed saves, crashes and restarts, until the pin is taken off.         *)
THEOREM PinnedSessionsActOnTheirOwn == Spec => PinnedActsOnItsOwn
<1> DEFINE Rule == \A t \in Tabs :
                      /\ command'.acted = t /\ command.acted # t
                      /\ promised \/ (manager.pin /\ manager.bound # NoTab)
                      => t \in mine
<1>1. Init => Owns
  <2>1. Init => CacheMatchesFile
    BY DEF Init, CacheMatchesFile
  <2> QED
    BY <2>1, InitHolds, InitKnows, InitSorts, InitOwns DEF Owns, Shaped
<1>2. Owns /\ [Next]_vars => [Rule]_vars
  <2> SUFFICES ASSUME Owns, Next, NEW t \in Tabs, command'.acted = t, command.acted # t,
                      promised \/ (manager.pin /\ manager.bound # NoTab)
               PROVE  t \in mine
    OBVIOUS
  <2>1. Inv /\ Sorts /\ Owning
    BY DEF Owns, Shaped
  <2>2. Act
    BY <2>1, OnlyActActs
  <2>3. command.phase = "using" /\ manager.gone = NoTab /\ Connected /\ t = ActivePage(manager)
    BY <2>1, <2>2 DEF Act, At, Gone, Sorts, Commands
  <2>4. Managed
    BY <2>3 DEF Managed, AttachPhases, Connected
  <2>5. manager.pin /\ manager.bound # NoTab
    <3>1. CASE promised
      <4>1. file.pinned /\ Kept(manager)
        BY <2>1, <2>4, <3>1 DEF Owning, PromiseIsKept
      <4>2. manager.pin
        BY <2>1, <2>4, <4>1 DEF Owning, PinsAgree
      <4> QED
        BY <2>3, <4>1, <4>2 DEF Kept
    <3> QED
      BY <3>1
  <2>6. ActivePage(manager) = manager.bound
    BY <2>1, <2>5 DEF Inv, Holds, ActivePage
  <2>7. manager.bound \in mine
    BY <2>1, <2>3, <2>5 DEF Owning, BoundIsOwn
  <2> QED
    BY <2>3, <2>6, <2>7
<1> QED
  BY <1>1, <1>2, OwnsKeeps, PTL DEF Spec, PinnedActsOnItsOwn
=============================================================================
