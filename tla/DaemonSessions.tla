--------------------------- MODULE DaemonSessions ---------------------------
(***************************************************************************)
(* Who owns a session: command-line processes that find, restart and start *)
(* its daemon through the files of one directory, and the daemon processes *)
(* that contend for its lock, serve commands and leave                     *)
(* (src/cli/src/connection.rs, src/cli/src/native/daemon.rs).              *)
(*                                                                         *)
(* The file system, processes and sockets are external.  A socket file     *)
(* answers while the daemon that bound it listens; a lock is let go with   *)
(* its process.  The pid, version and config files are one: `published`.   *)
(***************************************************************************)
EXTENDS Naturals

CONSTANTS
    Clients,        \* command-line processes, one command each
    Daemons,        \* process ids, each used once
    Configs,        \* daemon configurations (with the version)
    IdleTimeout,    \* IdleTimeout[k]: what configuration k says of idle expiry
    Wants,          \* Wants[c]: the configuration client c asks for
    Closers,        \* the clients whose command is `close`
    Requiring,      \* the clients that may only use a daemon that is there
    Walkers,        \* the clients that may only list the sessions
    Nobody,
    MaxCrashes      \* bound on the processes killed from outside

ASSUME WantsAssumption == Wants \in [Clients -> Configs]
ASSUME IdleAssumption == IdleTimeout \in [Configs -> {"off", "default", "explicit"}]
ASSUME RolesAssumption ==
    /\ Closers \subseteq Clients /\ Requiring \subseteq Clients /\ Walkers \subseteq Clients
ASSUME NobodyAssumption == Nobody \notin Daemons
ASSUME CrashAssumption == MaxCrashes \in Nat

VARIABLES
    lock,           \* the daemon that holds the session's lock file
    published,      \* the daemon the pid, version and config files name
    sock,           \* the daemon that bound the socket file
    stage,          \* where each daemon process is
    config,         \* the configuration a daemon was started with
    supervised,     \* daemons started in the foreground by a supervisor
    asked,          \* daemons told to stop: by a close, or by a signal
    quiet,          \* daemons whose idle timeout passed since the last activity
    due,            \* daemons whose idle timer expired: they wait for the state
    personal,       \* daemons whose browser a person may be using: a window, a
                    \* browser they attached, a sign-in
    requests,       \* requests written to a daemon and not finished there
    pc,             \* where each client is
    prey,           \* the process a client is killing
    again,          \* clients whose first attempt could not connect
    executed,       \* history: how often a client's command began
    swept,          \* history: daemons that lost a file to a client
    crashes         \* processes killed from outside so far

files == <<lock, published, sock>>
origin == <<config, supervised>>
idle == <<quiet, due, personal>>
stops == <<asked, idle>>
processes == <<stage, origin, stops>>
clients == <<pc, prey, again>>
history == <<executed, swept, crashes>>
vars == <<files, processes, requests, clients, history>>

Request == [client : Clients, kind : {"command", "shutdown"}, daemon : Daemons,
            at : {"sent", "read", "running"}]

Listening(d) == stage[d] = "serving"
Alive(d) == stage[d] \notin {"unused", "dead"}

(* The tasks that serve connections of d run.                              *)
Working(d) == stage[d] \in {"serving", "stopping"}

Of(d) == {r \in requests : r.daemon = d}

(* The mutex of d's state is free.                                         *)
Free(d) == \A r \in Of(d) : r.at # "running"

(* daemon_ready: the socket can be connected to.                           *)
Ready == sock # Nobody /\ Listening(sock)

(* The published version and configuration are those the client wants.     *)
Matches(c) == published # Nobody /\ config[published] = Wants[c]

(* resolve_idle_timeout: 0 disables idle expiry, an unset value is the      *)
(* default, which spares a browser a person may be using.                  *)
Expires(d) == IdleTimeout[config[d]] # "off"
Spared(d) == IdleTimeout[config[d]] = "default" /\ d \in personal

(* A file taken from a process that still runs.                            *)
Taken(owner) == {d \in {owner} \ {Nobody} : Alive(d)}

-----------------------------------------------------------------------------
Init ==
    /\ lock \in {Nobody} \cup Daemons
    /\ published = lock /\ sock = lock
    /\ stage = [d \in Daemons |-> IF d = lock THEN "serving" ELSE "unused"]
    /\ \E k \in Configs : config = [d \in Daemons |-> k]
    /\ supervised \in SUBSET ({lock} \ {Nobody})
    /\ asked = {} /\ quiet = {} /\ due = {} /\ requests = {}
    /\ personal \in SUBSET ({lock} \ {Nobody})
    /\ \E walking \in SUBSET Walkers :
          pc = [c \in Clients |-> IF c \in walking THEN "walk" ELSE "ensure"]
    /\ prey = [c \in Clients |-> Nobody]
    /\ again = {}
    /\ executed = [c \in Clients |-> 0]
    /\ swept = {} /\ crashes = 0

-----------------------------------------------------------------------------
(* The daemon.                                                             *)

(* The process is no more: its memory, its connections and its lock.       *)
Ends(d) ==
    /\ stage' = [stage EXCEPT ![d] = "dead"]
    /\ lock' = IF lock = d THEN Nobody ELSE lock
    /\ requests' = requests \ Of(d)
    /\ supervised' = supervised \ {d}
    /\ asked' = asked \ {d} /\ quiet' = quiet \ {d} /\ due' = due \ {d}
    /\ personal' = personal \ {d} /\ swept' = swept \ {d}

(* Mutant: only the socket decides, as before there was a lock.            *)
AcquireUnlocked(d) ==
    /\ stage[d] = "spawned"
    /\ IF ~Ready
       THEN /\ lock' = d /\ published' = Nobody /\ sock' = Nobody
            /\ stage' = [stage EXCEPT ![d] = "owning"]
            /\ UNCHANGED <<supervised, stops, requests, swept>>
       ELSE Ends(d) /\ UNCHANGED <<published, sock>>
    /\ UNCHANGED <<config, clients, executed, crashes>>

(* DaemonSession::acquire: the lock, or the end of the process; then what  *)
(* an earlier owner left is removed.  A socket that answers belongs to a   *)
(* daemon older than the lock.                                             *)
Acquire(d) ==
    /\ stage[d] = "spawned"
    /\ IF lock = Nobody /\ ~Ready
       THEN /\ lock' = d /\ published' = Nobody /\ sock' = Nobody
            /\ stage' = [stage EXCEPT ![d] = "owning"]
            /\ UNCHANGED <<supervised, stops, requests, swept>>
       ELSE Ends(d) /\ UNCHANGED <<published, sock>>
    /\ UNCHANGED <<config, clients, executed, crashes>>

(* Publish all startup metadata before opening the command listener.       *)
Publish(d) ==
    /\ stage[d] = "owning"
    /\ published' = d
    /\ stage' = [stage EXCEPT ![d] = "published"]
    /\ UNCHANGED <<lock, sock, origin, stops, requests, clients, history>>

(* run_socket_server: signals are handled from here on.                    *)
Bind(d) ==
    /\ stage[d] = "published"
    /\ sock' = d
    /\ stage' = [stage EXCEPT ![d] = "serving"]
    /\ UNCHANGED <<lock, published, origin, stops, requests, clients, history>>

(* Activity marks the idle clock.                                          *)
Marked(d) == quiet' = quiet \ {d}

(* handle_connection reads a request.                                      *)
ReadRequest(r) ==
    /\ r \in requests /\ r.at = "sent" /\ Working(r.daemon)
    /\ requests' = (requests \ {r}) \cup {[r EXCEPT !.at = "read"]}
    /\ Marked(r.daemon)
    /\ UNCHANGED <<files, stage, origin, asked, due, personal, clients, history>>

(* command_state grants the state, and the command begins.                 *)
BeginRequest(r) ==
    /\ r \in requests /\ r.at = "read" /\ Working(r.daemon) /\ Free(r.daemon)
    /\ requests' = (requests \ {r}) \cup {[r EXCEPT !.at = "running"]}
    /\ executed' = IF r.kind = "command"
                   THEN [executed EXCEPT ![r.client] = @ + 1]
                   ELSE executed
    /\ UNCHANGED <<files, processes, clients, swept, crashes>>

(* Its client, if it still waits for this reply, gets it.                  *)
Answered(r, pcOfCommand, pcOfShutdown) ==
    pc' = [c \in Clients |->
             IF c # r.client THEN pc[c]
             ELSE CASE r.kind = "command" /\ pc[c] = "reply" -> pcOfCommand
                    [] r.kind = "shutdown" /\ pc[c] = "stopreply" -> pcOfShutdown
                    [] OTHER -> pc[c]]

(* The command, which may have opened or closed a browser, is over, and    *)
(* the response is written.  A completed close also stops the loop, a      *)
(* moment later.                                                           *)
EndRequest(r) ==
    /\ r \in requests /\ r.at = "running" /\ Working(r.daemon)
    /\ requests' = requests \ {r}
    /\ Marked(r.daemon)
    /\ IF r.kind = "shutdown" \/ r.client \in Closers
       THEN asked' = asked \cup {r.daemon} /\ personal' = personal \ {r.daemon}
       ELSE /\ personal' \in {personal \ {r.daemon}, personal \cup {r.daemon}}
            /\ UNCHANGED asked
    /\ Answered(r, "done", "exit")
    /\ UNCHANGED <<files, stage, origin, due, prey, again, history>>

(* A shutdown or a close is refused while a program does not settle.       *)
RefuseRequest(r) ==
    /\ r \in requests /\ r.at = "read" /\ Working(r.daemon)
    /\ r.kind = "shutdown" \/ r.client \in Closers
    /\ requests' = requests \ {r}
    /\ Answered(r, "failed", "kill")
    /\ UNCHANGED <<files, processes, prey, again, history>>

(* maintain_browser: the browser exited, or a sign-in's time is over.      *)
BrowserLeaves(d) ==
    /\ Listening(d) /\ Free(d) /\ d \in personal
    /\ personal' = personal \ {d}
    /\ UNCHANGED <<files, stage, origin, asked, quiet, due, requests, clients, history>>

(* The timeout is far longer than granting the state to the next command.  *)
IdleTimer(d) ==
    /\ Listening(d) /\ d \notin due /\ Expires(d)
    /\ Free(d) => \A r \in Of(d) : r.at # "read"
    /\ quiet' = quiet \cup {d} /\ due' = due \cup {d}
    /\ UNCHANGED <<files, stage, origin, asked, personal, requests, clients, history>>

(* Mutant: after activity the timer is not armed again.                    *)
IdleLeftUnarmed(d) ==
    /\ Listening(d) /\ d \in due /\ d \notin quiet
    /\ UNCHANGED vars

(* Woken by activity, or with the state in hand: the timeout did not pass  *)
(* since the last activity, or it is the default and the browser is spared.*)
IdleRearmed(d) ==
    /\ Listening(d) /\ d \in due
    /\ d \notin quiet \/ (Free(d) /\ Spared(d))
    /\ due' = due \ {d}
    /\ UNCHANGED <<files, stage, origin, asked, quiet, personal, requests, clients, history>>

(* Mutant: the clock is not read again once the state is free.             *)
MayStopUnchecked(d) == d \in due /\ Free(d) /\ ~Spared(d)

(* The state is free, the timeout did pass, and nothing spares the browser.*)
MayStopIdle(d) == d \in due /\ d \in quiet /\ Free(d) /\ ~Spared(d)

(* The loop ends: the listener is dropped, work goes on for a while.       *)
StopServing(d) ==
    /\ Listening(d)
    /\ d \in asked \/ MayStopIdle(d)
    /\ stage' = [stage EXCEPT ![d] = "stopping"]
    /\ UNCHANGED <<files, origin, stops, requests, clients, history>>

(* Every task is cancelled, and with it what was not answered.             *)
CancelTasks(d) ==
    /\ stage[d] = "stopping"
    /\ stage' = [stage EXCEPT ![d] = "leaving"]
    /\ requests' = requests \ Of(d)
    /\ UNCHANGED <<files, origin, stops, clients, history>>

(* Nobody has the state any more: it is saved, the browser is closed and   *)
(* DaemonSession is dropped.                                               *)
Leave(d) ==
    /\ stage[d] = "leaving" /\ Free(d)
    /\ published' = Nobody /\ sock' = Nobody
    /\ Ends(d)
    /\ UNCHANGED <<config, clients, executed, crashes>>

(* Killed from outside: its files stay.                                    *)
Crash(d) ==
    /\ Alive(d) /\ crashes < MaxCrashes
    /\ crashes' = crashes + 1
    /\ Ends(d)
    /\ UNCHANGED <<published, sock, config, clients, executed>>

-----------------------------------------------------------------------------
(* The supervisor of foreground daemons.                                   *)

Supervise(d) ==
    /\ stage[d] = "unused"
    /\ stage' = [stage EXCEPT ![d] = "spawned"]
    /\ \E k \in Configs : config' = [config EXCEPT ![d] = k]
    /\ supervised' = supervised \cup {d}
    /\ UNCHANGED <<files, stops, requests, clients, history>>

Terminate(d) ==
    /\ d \in supervised /\ Listening(d)
    /\ asked' = asked \cup {d}
    /\ UNCHANGED <<files, stage, origin, idle, requests, clients, history>>

-----------------------------------------------------------------------------
(* The client.                                                             *)

Goto(c, place) == pc' = [pc EXCEPT ![c] = place]

(* ensure_daemon: is there a daemon, and does a supervisor own it?         *)
Look(c) ==
    /\ pc[c] = "ensure"
    /\ Goto(c, CASE c \in Requiring -> "require"
                 [] c \notin Requiring /\ ~Ready -> "spawn"
                 [] c \notin Requiring /\ Ready /\ sock \in supervised -> "require"
                 [] OTHER -> "compare")
    /\ UNCHANGED <<files, processes, requests, prey, again, history>>

(* require_existing_daemon.                                                *)
Require(c) ==
    /\ pc[c] = "require"
    /\ Goto(c, IF Ready /\ Matches(c) THEN "connect" ELSE "failed")
    /\ UNCHANGED <<files, processes, requests, prey, again, history>>

Compare(c) ==
    /\ pc[c] = "compare"
    /\ Goto(c, IF Matches(c) THEN "connect" ELSE "restart")
    /\ UNCHANGED <<files, processes, requests, prey, again, history>>

(* The request is written; from here on its outcome may be unknown.        *)
Send(c, kind) ==
    requests' = requests \cup {[client |-> c, kind |-> kind, daemon |-> sock, at |-> "sent"]}

(* request_graceful_daemon_shutdown.                                       *)
AskToStop(c) ==
    /\ pc[c] = "restart"
    /\ IF Ready THEN Send(c, "shutdown") /\ Goto(c, "stopreply")
                ELSE Goto(c, "kill") /\ UNCHANGED requests
    /\ UNCHANGED <<files, processes, prey, again, history>>

(* wait_for_daemon_exit: until nothing answers, or in vain.                *)
AwaitExit(c) ==
    /\ pc[c] = "exit"
    /\ Goto(c, IF Ready THEN "kill" ELSE "spawn")
    /\ UNCHANGED <<files, processes, requests, prey, again, history>>

(* kill_stale_daemon: the socket first, so no new connections reach it.    *)
RemoveSocket(c) ==
    /\ pc[c] = "kill"
    /\ sock' = Nobody /\ swept' = swept \cup Taken(sock)
    /\ Goto(c, "signal")
    /\ UNCHANGED <<lock, published, processes, requests, prey, again, executed, crashes>>

(* The process the pid file names is sent a signal.  It stops if it        *)
(* handles signals already, and dies if not.                               *)
Signal(c) ==
    /\ pc[c] = "signal"
    /\ prey' = [prey EXCEPT ![c] = published]
    /\ Goto(c, IF published = Nobody THEN "sweep" ELSE "reap")
    /\ IF published # Nobody /\ stage[published] = "published"
       THEN Ends(published)
       ELSE /\ asked' = IF published # Nobody /\ Listening(published)
                        THEN asked \cup {published} ELSE asked
            /\ UNCHANGED <<lock, stage, supervised, idle, requests, swept>>
    /\ UNCHANGED <<published, sock, config, again, executed, crashes>>

(* It is gone, or after a second it is killed.                             *)
Reap(c) ==
    /\ pc[c] = "reap"
    /\ IF Alive(prey[c]) THEN Ends(prey[c])
       ELSE UNCHANGED <<lock, stage, supervised, stops, requests, swept>>
    /\ prey' = [prey EXCEPT ![c] = Nobody]
    /\ Goto(c, "sweep")
    /\ UNCHANGED <<published, sock, config, again, executed, crashes>>

(* cleanup_stale_files, without the lock.                                  *)
Sweep(c) ==
    /\ pc[c] \in {"sweep", "clear"}
    /\ published' = Nobody /\ swept' = swept \cup Taken(published)
    /\ Goto(c, IF pc[c] = "sweep" THEN "sweepsock" ELSE "clearsock")
    /\ UNCHANGED <<lock, sock, processes, requests, prey, again, executed, crashes>>

SweepSocket(c) ==
    /\ pc[c] \in {"sweepsock", "clearsock"}
    /\ sock' = Nobody /\ swept' = swept \cup Taken(sock)
    /\ Goto(c, IF pc[c] = "sweepsock" THEN "spawn" ELSE "listed")
    /\ UNCHANGED <<lock, published, processes, requests, prey, again, executed, crashes>>

(* walk_daemons: the files of a process that is gone, and a socket without *)
(* a process, are removed.                                                 *)
Walk(c) ==
    /\ pc[c] = "walk"
    /\ Goto(c, IF IF published # Nobody THEN ~Alive(published) ELSE sock # Nobody
               THEN "clear" ELSE "listed")
    /\ UNCHANGED <<files, processes, requests, prey, again, history>>

Spawn(c) ==
    /\ pc[c] = "spawn"
    /\ \/ \E d \in Daemons :
             /\ stage[d] = "unused"
             /\ stage' = [stage EXCEPT ![d] = "spawned"]
             /\ config' = [config EXCEPT ![d] = Wants[c]]
             /\ Goto(c, "wait")
       \/ Goto(c, "failed") /\ UNCHANGED <<stage, config>>
    /\ UNCHANGED <<files, supervised, stops, requests, prey, again, history>>

(* A daemon answers with the wanted configuration: its own, or the winner  *)
(* of a concurrent start.                                                  *)
FindDaemon(c) ==
    /\ pc[c] = "wait" /\ Ready /\ Matches(c)
    /\ Goto(c, "connect")
    /\ UNCHANGED <<files, processes, requests, prey, again, history>>

(* Its daemon ended and none answers, none answered in five seconds, or    *)
(* one answers with another configuration.                                 *)
FindNone(c) ==
    /\ pc[c] = "wait" /\ ~(Ready /\ Matches(c))
    /\ Goto(c, "failed")
    /\ UNCHANGED <<files, processes, requests, prey, again, history>>

(* send_command_with_respawn: only a failed connection is tried again, and *)
(* once.                                                                   *)
MayRespawn(c) == pc[c] = "connect" /\ c \notin again \cup Requiring

Connect(c) ==
    /\ pc[c] = "connect" /\ Ready
    /\ Send(c, "command")
    /\ Goto(c, "reply")
    /\ UNCHANGED <<files, processes, prey, again, history>>

ConnectFails(c) ==
    /\ pc[c] = "connect" /\ ~Ready /\ ~MayRespawn(c)
    /\ Goto(c, "failed")
    /\ UNCHANGED <<files, processes, requests, prey, again, history>>

Respawn(c) ==
    /\ MayRespawn(c) /\ ~Ready
    /\ again' = again \cup {c}
    /\ Goto(c, "ensure")
    /\ UNCHANGED <<files, processes, requests, prey, history>>

(* Mutant: a lost response is taken for a lost connection.                 *)
NoReplyRetried(c) ==
    /\ pc[c] \in {"reply", "stopreply"}
    /\ Goto(c, IF pc[c] = "reply" THEN "ensure" ELSE "kill")
    /\ UNCHANGED <<files, processes, requests, prey, again, history>>

(* Mutant: the request to stop has no deadline.                            *)
NoReplyToCommand(c) ==
    /\ pc[c] = "reply"
    /\ Goto(c, "unknown")
    /\ UNCHANGED <<files, processes, requests, prey, again, history>>

(* The connection ended without a response, or the read timed out.         *)
NoReply(c) ==
    /\ pc[c] \in {"reply", "stopreply"}
    /\ Goto(c, IF pc[c] = "reply" THEN "unknown" ELSE "kill")
    /\ UNCHANGED <<files, processes, requests, prey, again, history>>

-----------------------------------------------------------------------------
ClientStep(c) ==
    \/ Look(c) \/ Require(c) \/ Compare(c) \/ Walk(c)
    \/ AskToStop(c) \/ AwaitExit(c)
    \/ RemoveSocket(c) \/ Signal(c) \/ Reap(c) \/ Sweep(c) \/ SweepSocket(c)
    \/ Spawn(c) \/ FindDaemon(c) \/ FindNone(c)
    \/ Connect(c) \/ ConnectFails(c) \/ Respawn(c) \/ NoReply(c)

ServeRequest(r) == ReadRequest(r) \/ BeginRequest(r) \/ EndRequest(r) \/ RefuseRequest(r)

DaemonStep(d) ==
    \/ Acquire(d) \/ Publish(d) \/ Bind(d)
    \/ StopServing(d) \/ CancelTasks(d) \/ Leave(d)
    \/ \E r \in Of(d) : ServeRequest(r)

Next ==
    \/ \E c \in Clients : ClientStep(c)
    \/ \E d \in Daemons :
          \/ DaemonStep(d) \/ IdleTimer(d) \/ IdleRearmed(d) \/ BrowserLeaves(d)
          \/ Crash(d) \/ Supervise(d) \/ Terminate(d)

Spec == Init /\ [][Next]_vars

(* Every process is scheduled, every wait of a client has a deadline, and  *)
(* time passes.                                                            *)
Fairness ==
    /\ \A c \in Clients : WF_vars(ClientStep(c))
    /\ \A d \in Daemons : /\ WF_vars(DaemonStep(d))
                          /\ WF_vars(IdleTimer(d)) /\ WF_vars(IdleRearmed(d))

FairSpec == Spec /\ Fairness

-----------------------------------------------------------------------------
Places == {"ensure", "require", "compare", "restart", "stopreply", "exit", "kill", "signal",
           "reap", "sweep", "sweepsock", "spawn", "wait", "connect", "reply", "done", "failed",
           "unknown", "walk", "clear", "clearsock", "listed"}

TypeOK ==
    /\ lock \in Daemons \cup {Nobody}
    /\ published \in Daemons \cup {Nobody} /\ sock \in Daemons \cup {Nobody}
    /\ stage \in [Daemons -> {"unused", "spawned", "owning", "published", "serving", "stopping",
                              "leaving", "dead"}]
    /\ config \in [Daemons -> Configs]
    /\ supervised \subseteq Daemons
    /\ asked \subseteq Daemons /\ quiet \subseteq Daemons /\ due \subseteq Daemons
    /\ personal \subseteq Daemons
    /\ requests \subseteq Request
    /\ pc \in [Clients -> Places]
    /\ prey \in [Clients -> Daemons \cup {Nobody}]
    /\ again \subseteq Clients
    /\ executed \in [Clients -> Nat]
    /\ swept \subseteq Daemons
    /\ crashes \in 0 .. MaxCrashes

(* "Holds exclusive ownership of a session's socket and metadata until     *)
(* shutdown" (connection.rs:169): only the holder of the lock serves or    *)
(* may still run a command, no file names another process that runs, and   *)
(* the files of a daemon that listens are its own unless a client took     *)
(* one from it, which clients do without the lock.                         *)
OwnerIsAlone ==
    /\ \A d \in Daemons :
          /\ stage[d] \in {"owning", "published", "serving", "stopping", "leaving"} => lock = d
          /\ Listening(d) /\ d \notin swept => sock = d /\ published = d
    /\ \A d \in {published, sock} \ {Nobody} : Alive(d) => d = lock

(* "A lost response never triggers automatic replay" (connection.rs:1194): *)
(* over both attempts a command begins once at most, one reported as not   *)
(* done never began and never will, and one that was answered did.         *)
AtMostOnce ==
    \A c \in Clients :
        /\ executed[c] <= 1
        /\ pc[c] = "failed" => /\ executed[c] = 0
                               /\ \A r \in requests : r.client = c => r.kind # "command"
        /\ pc[c] = "done" => executed[c] = 1

(* "Command completion refreshes the shared activity clock" (daemon.rs:278)*)
(* : a daemon nobody told to stop never cuts off a command it has read.    *)
IdleCutsNothing ==
    [][\A d \in Daemons :
          Listening(d) /\ d \notin asked /\ stage'[d] = "stopping" =>
              \A r \in Of(d) : r.at = "sent"]_vars

(* Every invocation comes to an end, whoever restarts, kills or crashes.   *)
ClientsReturn == \A c \in Clients : <>(pc[c] \in {"done", "failed", "unknown", "listed"})

(* The default timeout is there "so an integration that dies without       *)
(* calling close cannot leak the daemon" (daemon.rs:126): a daemon that    *)
(* lost its socket gives the session up, unless idle expiry is disabled or *)
(* spares the browser a person may be using.                               *)
UnreachableDaemonsLeave ==
    \A d \in Daemons :
        lock = d /\ sock # d ~> lock # d \/ ~Expires(d) \/ Spared(d)
=============================================================================
