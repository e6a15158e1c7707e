----------------------------- MODULE TabBinding -----------------------------
(***************************************************************************)
(* Which tab a session's commands act on: a daemon attached over CDP to a  *)
(* browser it shares with people and other sessions, the events that tell  *)
(* it of their tabs, and the binding file that outlives the daemon         *)
(* (src/cli/src/native/{browser,actions,tab_binding}.rs).                  *)
(*                                                                         *)
(* Tabs are numbered by birth: a target id is never used again.  The       *)
(* browser, the other users of its tabs and the file system are external.  *)
(* A command holds the daemon's state from its first step to its reply;    *)
(* only the browser moves meanwhile.                                       *)
(***************************************************************************)
EXTENDS Integers, Sequences, SequencesExt

CONSTANT MaxTabs            \* bound on the tabs ever opened

ASSUME MaxTabsAssumption == MaxTabs \in Nat

VARIABLES
    targets,        \* the tabs open in the browser
    born,           \* tabs opened so far
    file,           \* the session's binding file
    up,             \* the daemon process runs
    pin,            \* DaemonState.pin_tab
    persisted,      \* DaemonState.last_persisted_binding
    link,           \* the connection of DaemonState.browser
    manager,        \* the BrowserManager's pages, active page and binding
    subscribed,     \* event_rx receives this connection's events
    events,         \* what it received and no drain took yet, as a set
    batch,          \* what a drain took and has not applied
    command,        \* the command under way
    mine,           \* history: the tabs the session opened or chose last
    promised,       \* history: a command succeeded on the bound tab under the pin
    missed          \* history: tabs that closed while nothing was subscribed

browser == <<targets, born>>
connection == <<link, subscribed, events, missed>>
settings == <<file, pin, persisted>>
history == <<mine, promised>>
vars == <<browser, connection, settings, manager, batch, up, command, history>>

NoTab == 0
Tabs == 1..MaxTabs
NoFile == [target |-> NoTab, pinned |-> FALSE]
Binding == [target : Tabs \cup {NoTab}, pinned : BOOLEAN]
Event == [kind : {"opened", "closed"}, tab : Tabs]

Manager == [pages : Seq(Tabs), active : Nat \ {0}, bound : Tabs \cup {NoTab},
            gone : Tabs \cup {NoTab}, pin : BOOLEAN]

NewManager == [pages |-> <<>>, active |-> 1, bound |-> NoTab, gone |-> NoTab, pin |-> FALSE]

(* The steps of one command.  `skip`: skip_launch_action, a command that   *)
(* needs no browser.  `cdp` and `auto` have attached to the targets;       *)
(* `listening` is also subscribed; `restored` has applied the binding.     *)
(* `acted`: the tab it acted on last.  `chose`: the tab it bound.          *)
(* `clean`: it succeeded, and what it bound could be saved.                *)
Phases == {"idle", "toggle", "begun", "cdp", "auto", "listening", "restored",
           "ready", "ensured", "using", "done", "replying"}

Idle == [phase |-> "idle", flag |-> "keep", skip |-> FALSE, acted |-> NoTab,
         chose |-> NoTab, clean |-> FALSE]

-----------------------------------------------------------------------------
(* The pages of a BrowserManager.                                          *)

Has(m, t) == \E k \in DOMAIN m.pages : m.pages[k] = t
IndexOf(m, t) == CHOOSE k \in DOMAIN m.pages : m.pages[k] = t

ActivePage(m) == IF m.active \in DOMAIN m.pages THEN m.pages[m.active] ELSE NoTab

BindActiveTarget(m) == [m EXCEPT !.bound = ActivePage(m), !.gone = NoTab]

SetPinTab(m, p) ==
    IF p THEN BindActiveTarget([m EXCEPT !.pin = TRUE])
         ELSE [m EXCEPT !.pin = FALSE, !.gone = NoTab]

(* Mutant: the loss of a pinned session's tab is not remembered.           *)
HandleBoundTargetDropped(m, t) ==
    IF m.bound # t THEN m ELSE [m EXCEPT !.bound = NoTab]

HandleBoundTargetRemoved(m, t) ==
    IF m.bound # t THEN m
    ELSE [m EXCEPT !.bound = NoTab, !.gone = IF m.pin THEN t ELSE @]

RestoreTargetBinding(m, t) ==
    IF Has(m, t) THEN [m EXCEPT !.active = IndexOf(m, t), !.bound = t, !.gone = NoTab]
    ELSE [m EXCEPT !.bound = NoTab, !.gone = IF m.pin THEN t ELSE @]

(* Mutants: the index stays when a page before it goes; the index stays    *)
(* when it was the last page's.                                            *)
ActivePageIndexUnshifted(active, removed, remaining) ==
    IF remaining = 0 THEN 1 ELSE IF active > remaining THEN remaining ELSE active

ActivePageIndexUnclamped(active, removed, remaining) ==
    IF remaining = 0 THEN 1 ELSE IF removed < active THEN active - 1 ELSE active

ActivePageIndexAfterRemoval(active, removed, remaining) ==
    IF remaining = 0 THEN 1
    ELSE IF removed < active THEN active - 1
    ELSE IF active > remaining THEN remaining
    ELSE active

RemovePage(m, t) ==
    LET k == IndexOf(m, t)
    IN  HandleBoundTargetRemoved(
            [m EXCEPT !.pages = RemoveAt(@, k),
                      !.active = ActivePageIndexAfterRemoval(@, k, Len(m.pages) - 1)], t)

(* A page known to the manager and nothing more.                           *)
AddPageQuietly(m, t) == [m EXCEPT !.pages = Append(@, t)]

(* A page that becomes the active one and the session's binding.           *)
AddPage(m, t) ==
    BindActiveTarget([m EXCEPT !.pages = Append(@, t), !.active = Len(m.pages) + 1])

(* register_discovered_page: a pinned session never activates a tab it did *)
(* not open, unless it has no page at all and misses none.                 *)
Adopts(m) == \/ ~m.pin
             \/ m.gone = NoTab /\ m.pages = <<>>

RegisterDiscoveredPage(m, t) == IF Adopts(m) THEN AddPage(m, t) ELSE AddPageQuietly(m, t)

(* binding_snapshot, or NoFile when there is nothing to persist.           *)
Snapshot(m, p) ==
    IF m.gone # NoTab \/ ActivePage(m) = NoTab THEN NoFile
    ELSE [target |-> ActivePage(m), pinned |-> p]

-----------------------------------------------------------------------------
(* The browser, whoever moves it.                                          *)

Connected == link = "open"

(* An event of the browser reaches the receiver, if there is one.          *)
Sent(kind, t) ==
    IF Connected /\ subscribed THEN events \cup {[kind |-> kind, tab |-> t]} ELSE events

(* Target.createTarget                                                     *)
Create(t) ==
    /\ t = born + 1
    /\ born' = t
    /\ targets' = targets \cup {t}
    /\ events' = Sent("opened", t)

Close(t) ==
    /\ t \in targets
    /\ targets' = targets \ {t}
    /\ events' = Sent("closed", t)
    /\ missed' = IF Connected /\ ~subscribed /\ Has(manager, t) THEN missed \cup {t} ELSE missed
    /\ UNCHANGED born

OthersOpen(t) ==
    /\ Create(t)
    /\ UNCHANGED <<link, subscribed, missed, settings, manager, batch, up, command, history>>

OthersClose(t) ==
    /\ Close(t)
    /\ UNCHANGED <<link, subscribed, settings, manager, batch, up, command, history>>

(* Target.targetInfoChanged promotes a tab the session does not track.     *)
Announce(t) ==
    /\ t \in targets
    /\ Connected /\ subscribed
    /\ ~Has(manager, t)
    /\ events' = Sent("opened", t)
    /\ UNCHANGED <<browser, link, subscribed, missed, settings, manager, batch, up, command,
                   history>>

(* The websocket breaks, with or without the browser behind it.            *)
LinkLost ==
    /\ Connected
    /\ link' = "lost"
    /\ subscribed' = FALSE
    /\ events' = {}
    /\ missed' = {}
    /\ UNCHANGED <<browser, settings, manager, batch, up, command, history>>

(* The receiver's buffer overflows: what was not drained in time is lost.  *)
Overflow(e) ==
    /\ e \in events
    /\ events' = events \ {e}
    /\ missed' = IF e.kind = "closed" /\ Has(manager, e.tab) THEN missed \cup {e.tab} ELSE missed
    /\ UNCHANGED <<browser, link, subscribed, settings, manager, batch, up, command, history>>

-----------------------------------------------------------------------------
(* Drains: drain_cdp_events takes what arrived, apply_drained_events       *)
(* removes the closed tabs and then adopts the opened ones.                *)

Free == up /\ batch = {}

Take ==
    /\ batch' = events
    /\ events' = {}

Tick ==
    /\ Free
    /\ command.phase = "idle"
    /\ Take
    /\ UNCHANGED <<browser, link, subscribed, missed, settings, manager, up, command, history>>

(* A handler that drains again while its command runs.                     *)
Refresh ==
    /\ Free
    /\ command.phase \in {"using", "done"}
    /\ Take
    /\ UNCHANGED <<browser, link, subscribed, missed, settings, manager, up, command, history>>

RemoveDestroyed(e) ==
    /\ e.kind = "closed"
    /\ manager' = IF Has(manager, e.tab) THEN RemovePage(manager, e.tab) ELSE manager
    /\ UNCHANGED mine

(* A tab the session opened or chose; without a pin nothing depends on it. *)
Own(m, t) == IF m.pin THEN mine \cup {t} ELSE mine

(* Mutant: a discovered tab is registered before it is attached.           *)
AdoptUnattached(e) ==
    /\ \A other \in batch : other.kind = "opened"
    /\ manager' = IF Has(manager, e.tab) THEN manager
                  ELSE RegisterDiscoveredPage(manager, e.tab)
    /\ mine' = IF manager.gone = NoTab /\ manager'.bound = e.tab
               THEN Own(manager, e.tab)
               ELSE mine

(* A tab that cannot be attached or prepared is not registered.            *)
AdoptDiscovered(e) ==
    /\ \A other \in batch : other.kind = "opened"
    /\ \/ /\ e.tab \in targets /\ Connected /\ ~Has(manager, e.tab)
          /\ manager' = RegisterDiscoveredPage(manager, e.tab)
       \/ UNCHANGED manager
    /\ mine' = IF manager.gone = NoTab /\ manager'.bound = e.tab THEN Own(manager, e.tab) ELSE mine

Apply ==
    \E e \in batch :
        /\ RemoveDestroyed(e) \/ AdoptDiscovered(e)
        /\ batch' = batch \ {e}
        /\ UNCHANGED <<browser, connection, settings, up, command, promised>>

-----------------------------------------------------------------------------
(* The daemon and the head of a command.                                   *)

(* DaemonState::new: the flag of the client that spawns the daemon, or the *)
(* pin in a file that can be read.                                         *)
Start(flag, readable) ==
    /\ ~up
    /\ up' = TRUE
    /\ pin' = (flag \/ (readable /\ file.pinned))
    /\ mine' = IF pin' /\ ~file.pinned THEN {file.target} ELSE mine
    /\ UNCHANGED <<browser, connection, file, persisted, manager, batch, command, promised>>

Crash ==
    /\ up
    /\ up' = FALSE
    /\ pin' = FALSE
    /\ persisted' = NoFile
    /\ link' = "none"
    /\ subscribed' = FALSE
    /\ events' = {}
    /\ missed' = {}
    /\ manager' = NewManager
    /\ batch' = {}
    /\ command' = Idle
    /\ UNCHANGED <<browser, file, history>>

(* A command arrives: the drain before anything else of it.                *)
Begin(flag, skip) ==
    /\ Free
    /\ command.phase = "idle"
    /\ Take
    /\ command' = [Idle EXCEPT !.phase = "toggle", !.flag = flag, !.skip = skip]
    /\ UNCHANGED <<browser, link, subscribed, missed, settings, manager, up, history>>

At(phase) == Free /\ command.phase = phase

Asked == command.flag = "pin"
Toggles == command.flag # "keep" /\ Asked # pin

KeepPin ==
    /\ At("toggle")
    /\ ~Toggles
    /\ command' = [command EXCEPT !.phase = "begun", !.flag = "keep"]
    /\ UNCHANGED <<browser, connection, settings, manager, batch, up, history>>

(* Mutant: what was persisted under the other pin stands.                  *)
ToggleKeepingPersisted ==
    /\ At("toggle")
    /\ Toggles
    /\ file' = IF file # NoFile THEN [file EXCEPT !.pinned = Asked] ELSE file
    /\ pin' = Asked
    /\ manager' = IF link # "none" THEN SetPinTab(manager, Asked) ELSE manager
    /\ mine' = IF Asked THEN {file.target} ELSE {}
    /\ promised' = (promised /\ Asked)
    /\ command' = [command EXCEPT !.phase = "begun", !.flag = "keep"]
    /\ UNCHANGED <<browser, connection, persisted, batch, up>>

(* The file first, so that a failure leaves the pin as it was.             *)
TogglePin ==
    /\ At("toggle")
    /\ Toggles
    /\ file' = IF file # NoFile THEN [file EXCEPT !.pinned = Asked] ELSE file
    /\ pin' = Asked
    /\ manager' = IF link # "none" THEN SetPinTab(manager, Asked) ELSE manager
    /\ persisted' = NoFile
    /\ mine' = IF Asked THEN ({file.target} \cup IF Connected THEN {ActivePage(manager)} ELSE {})
                        ELSE {}
    /\ promised' = (promised /\ Asked)
    /\ command' = [command EXCEPT !.phase = "begun", !.flag = "keep"]
    /\ UNCHANGED <<browser, connection, batch, up>>

(* The early return of a refused or failed command.                        *)
Answer == command' = Idle

ToggleFails ==
    /\ At("toggle")
    /\ Toggles
    /\ file # NoFile
    /\ Answer
    /\ UNCHANGED <<browser, connection, settings, manager, batch, up, history>>

-----------------------------------------------------------------------------
(* Attaching: a command that needs a browser finds no live connection.     *)

Disconnect ==
    /\ link' = "none"
    /\ manager' = NewManager
    /\ subscribed' = FALSE
    /\ events' = {}
    /\ missed' = {}

(* discover_and_attach_targets: every tab in the order the browser lists   *)
(* them, a live one active, or a tab of its own in an empty browser.       *)
Discovered(m) ==
    \/ \E t \in Tabs : /\ targets = {}
                       /\ t = born + 1
                       /\ born' = t
                       /\ targets' = {t}
                       /\ m = AddPage(NewManager, t)
    \/ \E s \in SetToSeqs(targets), k \in Tabs :
            /\ k \in DOMAIN s
            /\ m = [NewManager EXCEPT !.pages = s, !.active = k]
            /\ UNCHANGED browser

Connect(how) ==
    /\ At("begun")
    /\ ~command.skip
    /\ ~Connected
    /\ Discovered(manager')
    /\ link' = "open"
    /\ subscribed' = FALSE
    /\ events' = {}
    /\ missed' = {}
    /\ command' = [command EXCEPT !.phase = how]
    /\ UNCHANGED <<settings, batch, up, history>>

ConnectFails ==
    /\ At("begun")
    /\ ~command.skip
    /\ ~Connected
    /\ Disconnect
    /\ Answer
    /\ UNCHANGED <<browser, settings, batch, up, history>>

(* Before the binding is applied over --cdp, after it over --auto-connect. *)
Subscribe ==
    /\ \/ At("cdp") /\ command' = [command EXCEPT !.phase = "listening"]
       \/ At("restored") /\ command' = [command EXCEPT !.phase = "ready"]
    /\ subscribed' = Connected
    /\ UNCHANGED <<browser, link, events, missed, settings, manager, batch, up, history>>

Automatic == command.phase = "auto"
Attaching == At("listening") \/ At("auto")
Attached == command' = [command EXCEPT !.phase = IF Automatic THEN "restored" ELSE "ready"]

(* A pinned file pins the daemon whatever it was started with.             *)
Strict == pin \/ file.pinned
Attachment == SetPinTab(manager, Strict)

(* maybe_persist_tab_binding.  The binding's URL is left out: a write for  *)
(* the URL alone leaves the file with the target and the pin it had.       *)
Save(m, p) ==
    LET b == Snapshot(m, p)
    IN  IF b \in {NoFile, persisted} THEN UNCHANGED <<file, persisted>>
                                    ELSE file' = b /\ persisted' = b

SaveFails(m, p) ==
    /\ Snapshot(m, p) \notin {NoFile, persisted}
    /\ UNCHANGED <<file, persisted>>

(* A tab of its own: made, attached, active and bound.                     *)
FreshTab(m, t) ==
    /\ Connected
    /\ Create(t)
    /\ manager' = AddPage(m, t)
    /\ mine' = Own(m, t)

Restore ==
    /\ Attaching
    /\ file # NoFile
    /\ file.target \in targets \/ ~Has(manager, file.target)
    /\ Connected \/ ~Has(manager, file.target)
    /\ Strict \/ Has(manager, file.target)
    /\ pin' = Strict
    /\ manager' = RestoreTargetBinding(Attachment, file.target)
    /\ Save(manager', Strict) \/ (~Strict /\ SaveFails(manager', Strict))
    /\ Attached
    /\ UNCHANGED <<browser, connection, batch, up, history>>

(* The tab of a session that is not pinned is gone: so is its binding.     *)
Stale == file # NoFile /\ ~Strict /\ ~Has(manager, file.target)

(* Nothing to restore over --cdp: the tab discovery found live stays.      *)
KeepDiscovered ==
    /\ At("listening")
    /\ ~Strict
    /\ file = NoFile \/ Stale
    /\ file' = NoFile
    /\ persisted' = IF Stale THEN NoFile ELSE persisted
    /\ manager' = IF Stale THEN RestoreTargetBinding(Attachment, file.target) ELSE Attachment
    /\ Attached
    /\ UNCHANGED <<browser, connection, pin, batch, up, history>>

(* A pinned session without a binding, or an automatic connection.         *)
OpenOnAttach(t) ==
    /\ Attaching
    /\ file = NoFile \/ Stale
    /\ Strict \/ Automatic
    /\ FreshTab(Attachment, t)
    /\ LET b == Snapshot(manager', Strict)
       IN  \/ /\ file' = b
              /\ persisted' = b
           \/ /\ ~Strict
              /\ file' = NoFile
              /\ persisted' = IF Stale THEN NoFile ELSE persisted
    /\ Attached
    /\ UNCHANGED <<link, subscribed, missed, pin, batch, up, promised>>

(* apply_tab_binding_on_attach_or_rollback: an unreadable file, a tab that *)
(* cannot be revived or opened, or a pin that cannot be saved.             *)
RestoreFails ==
    /\ Attaching
    /\ file # NoFile \/ Strict \/ Automatic
    /\ pin' \in {pin, Strict}
    /\ \/ UNCHANGED <<file, persisted>>
       \/ Automatic /\ Stale /\ file' = NoFile /\ persisted' = NoFile
    /\ Disconnect
    /\ Answer
    /\ UNCHANGED <<browser, batch, up, history>>

-----------------------------------------------------------------------------
(* The command itself.                                                     *)

Gone == manager.gone # NoTab

Ready == At("ready") \/ (At("begun") /\ ~command.skip /\ Connected)

(* ensure_page: no blank tab in the place of one a pinned session lost.    *)
NeedsPage == manager.pages = <<>> /\ ~(manager.pin /\ Gone)

EnsurePage ==
    /\ Ready
    /\ NeedsPage
    /\ \/ \E t \in Tabs : FreshTab(manager, t)
       \/ UNCHANGED <<browser, events, manager, mine>>
    /\ command' = [command EXCEPT !.phase = "ensured"]
    /\ UNCHANGED <<link, subscribed, missed, settings, batch, up, promised>>

Dispatches == At("ensured") \/ (Ready /\ ~NeedsPage)

Ends(clean, t) ==
    command' = [command EXCEPT !.phase = "done", !.acted = NoTab, !.clean = clean, !.chose = t]

(* admit_active_tab: refused before it acts.                               *)
Refuse ==
    /\ Dispatches
    /\ Gone
    /\ Answer
    /\ UNCHANGED <<browser, connection, settings, manager, batch, up, history>>

Admit ==
    /\ Dispatches
    /\ ~Gone
    /\ command' = [command EXCEPT !.phase = "using"]
    /\ UNCHANGED <<browser, connection, settings, manager, batch, up, history>>

(* active_session_id, with check_bound before every use of the tab.        *)
Act ==
    /\ At("using")
    /\ ~Gone
    /\ Connected
    /\ ActivePage(manager) \in targets
    /\ command' = [command EXCEPT !.acted = ActivePage(manager)]
    /\ UNCHANGED <<browser, connection, settings, manager, batch, up, history>>

EndUse(clean) ==
    /\ At("using")
    /\ Ends(clean, NoTab)
    /\ UNCHANGED <<browser, connection, settings, manager, batch, up, history>>

(* `tab list`, and every command that fails before it changes a thing.     *)
ListOrFail(clean) ==
    /\ Dispatches
    /\ Ends(clean, NoTab)
    /\ UNCHANGED <<browser, connection, settings, manager, batch, up, history>>

(* `tab new` and `window new`; the new tab's setup may fail after it.      *)
OpenTab(t, clean) ==
    /\ Dispatches
    /\ FreshTab(manager, t)
    /\ Ends(clean, t)
    /\ UNCHANGED <<link, subscribed, missed, settings, batch, up, promised>>

OpenBackgroundTab(t) ==
    /\ Dispatches
    /\ Connected
    /\ Create(t)
    /\ manager' = AddPageQuietly(manager, t)
    /\ mine' = IF ActivePage(manager') = t THEN Own(manager, t) ELSE mine
    /\ Ends(TRUE, NoTab)
    /\ UNCHANGED <<link, subscribed, missed, settings, batch, up, promised>>

SwitchTab(t, clean) ==
    /\ Dispatches
    /\ Connected
    /\ Has(manager, t)
    /\ t \in targets
    /\ manager' = BindActiveTarget([manager EXCEPT !.active = IndexOf(manager, t)])
    /\ mine' = Own(manager, t)
    /\ Ends(clean, t)
    /\ UNCHANGED <<browser, connection, settings, batch, up, promised>>

(* The page goes first; whether the browser closed the tab changes nothing.*)
CloseTab(t) ==
    /\ Dispatches
    /\ Has(manager, t)
    /\ Len(manager.pages) > 1
    /\ manager' = RemovePage(manager, t)
    /\ \/ Connected /\ Close(t)
       \/ UNCHANGED <<browser, events, missed>>
    /\ Ends(TRUE, NoTab)
    /\ UNCHANGED <<link, subscribed, settings, batch, up, history>>

(* A command that needs no browser persists nothing.                       *)
Skip ==
    /\ At("begun")
    /\ command.skip
    /\ Take
    /\ command' = [command EXCEPT !.phase = "replying"]
    /\ UNCHANGED <<browser, link, subscribed, missed, settings, manager, up, history>>

(* A session pinned while it had no tab is bound to none: the tab it saves *)
(* then is taken for its own.                                              *)
Persisted(clean) == command' = [command EXCEPT !.phase = "replying", !.clean = clean]

Persist ==
    /\ At("done")
    /\ \/ Save(manager, pin) /\ Persisted(command.clean /\ manager.bound # NoTab)
       \/ SaveFails(manager, pin) /\ Persisted(FALSE)
    /\ Take
    /\ mine' = IF manager.bound = NoTab THEN Own(manager, file'.target) ELSE mine
    /\ UNCHANGED <<browser, link, subscribed, missed, pin, manager, up, promised>>

(* What a reply without an error or a warning tells the user: the pin      *)
(* holds, and the tab the command bound is the session's only one.         *)
Reply ==
    /\ At("replying")
    /\ Answer
    /\ promised' = (promised \/ (command.clean /\ pin))
    /\ mine' = IF pin /\ command.clean /\ manager.bound \in {command.chose} \ {NoTab}
               THEN {command.chose} ELSE mine
    /\ UNCHANGED <<browser, connection, settings, manager, batch, up>>

-----------------------------------------------------------------------------
Init ==
    /\ targets = {}
    /\ born = 0
    /\ file = NoFile
    /\ up = FALSE
    /\ pin = FALSE
    /\ persisted = NoFile
    /\ link = "none"
    /\ manager = NewManager
    /\ subscribed = FALSE
    /\ events = {}
    /\ batch = {}
    /\ command = Idle
    /\ mine = {}
    /\ promised = FALSE
    /\ missed = {}

Others ==
    \/ \E t \in Tabs : OthersOpen(t) \/ OthersClose(t) \/ Announce(t)
    \/ \E e \in events : Overflow(e)
    \/ LinkLost

Process ==
    \/ \E flag, readable \in BOOLEAN : Start(flag, readable)
    \/ Crash
    \/ Tick \/ Refresh \/ Apply

Opening ==
    \/ \E flag \in {"keep", "pin", "unpin"}, skip \in BOOLEAN : Begin(flag, skip)
    \/ KeepPin \/ TogglePin \/ ToggleFails

Attach ==
    \/ \E how \in {"cdp", "auto"} : Connect(how)
    \/ ConnectFails \/ Subscribe \/ Restore \/ KeepDiscovered \/ RestoreFails
    \/ \E t \in Tabs : OpenOnAttach(t)

Body ==
    \/ EnsurePage \/ Refuse \/ Admit \/ Act
    \/ \E clean \in BOOLEAN : EndUse(clean) \/ ListOrFail(clean)
    \/ \E t \in Tabs, clean \in BOOLEAN : OpenTab(t, clean) \/ SwitchTab(t, clean)
    \/ \E t \in Tabs : OpenBackgroundTab(t) \/ CloseTab(t)
    \/ Skip \/ Persist \/ Reply

Next == Others \/ Process \/ Opening \/ Attach \/ Body

Spec == Init /\ [][Next]_vars

-----------------------------------------------------------------------------
Distinct(s) == \A j, k \in DOMAIN s : s[j] = s[k] => j = k

(* The shape of every variable; the active index is one of the pages, or   *)
(* the first when there is none.                                           *)
TypeOK ==
    /\ born \in 0..MaxTabs
    /\ targets \subseteq 1..born
    /\ file \in Binding /\ persisted \in Binding
    /\ up \in BOOLEAN /\ pin \in BOOLEAN
    /\ link \in {"none", "open", "lost"} /\ subscribed \in BOOLEAN
    /\ manager \in Manager /\ Distinct(manager.pages)
    /\ manager.active > 1 => manager.active \in DOMAIN manager.pages
    /\ events \subseteq Event /\ batch \subseteq Event
    /\ command.phase \in Phases
    /\ mine \subseteq 0..born /\ promised \in BOOLEAN /\ missed \subseteq 1..born

(* The tab a session is bound to is its active one.  The binding names a   *)
(* tab and the pages are a list: no removal before or behind the active    *)
(* page, in any order with drains, switches and reconnections, may leave   *)
(* the index on a neighbour.                                               *)
ActiveIsBound == manager.bound # NoTab => ActivePage(manager) = manager.bound

(* A page the manager lists is open, or its end is on its way: unless its  *)
(* end was lost before the receiver existed or when its buffer overflowed. *)
(* A drain takes ends and births at once and attaches late; none of that   *)
(* leaves a page nobody will ever remove.                                  *)
KnownTabsAreOpen ==
    subscribed => \A k \in DOMAIN manager.pages :
        LET t == manager.pages[k]
        IN  \/ t \in targets \cup missed
            \/ [kind |-> "closed", tab |-> t] \in events \cup batch

(* What the daemon believes it persisted is what the file holds, so the    *)
(* write it leaves out is one that would change nothing.                   *)
CacheMatchesFile == persisted # NoFile => file = persisted

(* A pinned session acts on a tab it opened or chose, or on none.  Once a  *)
(* command that left it bound to a tab succeeded under the pin, that holds *)
(* across drains, lost links, restarts and other sessions' tabs until the  *)
(* pin is taken off; before, it holds of the daemon's own pin while it is  *)
(* bound.                                                                  *)
PinnedActsOnItsOwn ==
    [][\A t \in Tabs :
          /\ command'.acted = t /\ command.acted # t
          /\ promised \/ (manager.pin /\ manager.bound # NoTab)
          => t \in mine]_vars
=============================================================================
