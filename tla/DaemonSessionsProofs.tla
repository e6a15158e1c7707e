------------------------- MODULE DaemonSessionsProofs ------------------------
(***************************************************************************)
(* Theorems about DaemonSessions, for every number of clients, daemons,    *)
(* configurations and crashes.                                             *)
(*                                                                         *)
(* Ownership follows from three facts: a daemon past its start holds the   *)
(* lock, what the files name was started, and what a listening daemon lost *)
(* a client took (Ownership).  That a command begins once at most needs to *)
(* know where its request can still be (Delivery).  That idle expiry cuts  *)
(* nothing off needs that a daemon that was quiet for its timeout has no   *)
(* request waiting for its state unless one holds it (Quietness).          *)
(***************************************************************************)
EXTENDS DaemonSessions, TLAPS

(* A daemon that holds the session, by the stages it goes through.         *)
Owning(d) == stage[d] \in {"owning", "published", "serving", "stopping", "leaving"}

Ownership ==
    /\ \A d \in Daemons : Owning(d) => lock = d
    /\ \A d \in Daemons : stage[d] \in {"published", "serving"} /\ d \notin swept => published = d
    /\ \A d \in Daemons : stage[d] = "serving" /\ d \notin swept => sock = d
    /\ \A d \in Daemons : d \in {published, sock} => stage[d] \notin {"unused", "spawned"}

(* Where client c is before its command was written, and after.            *)
Unsent(c) == pc[c] \notin {"reply", "done", "unknown"}
Commands(c) == {r \in requests : r.client = c /\ r.kind = "command"}

Delivery ==
    \A c \in Clients :
        /\ Unsent(c) => Commands(c) = {} /\ executed[c] = 0
        /\ \A r, q \in Commands(c) : r = q
        /\ \A r \in Commands(c) : executed[c] = (IF r.at = "running" THEN 1 ELSE 0)
        /\ executed[c] \in {0, 1}
        /\ pc[c] = "done" => executed[c] = 1

Quietness == \A d \in quiet : Free(d) => \A r \in Of(d) : r.at # "read"

-----------------------------------------------------------------------------
LEMMA InitTypes == Init => TypeOK
  BY WantsAssumption, NobodyAssumption, CrashAssumption DEF Init, TypeOK, Places, Request

LEMMA SpawnTypes ==
    ASSUME TypeOK, NEW c \in Clients, Spawn(c)
    PROVE  TypeOK'
<1>1. stage' \in [Daemons -> {"unused", "spawned", "owning", "published", "serving", "stopping",
                             "leaving", "dead"}] /\ config' \in [Daemons -> Configs]
  BY WantsAssumption DEF TypeOK, Spawn
<1>2. pc' \in [Clients -> Places]
  BY DEF TypeOK, Spawn, Goto, Places
<1> QED
  BY <1>1, <1>2 DEF TypeOK, Spawn, files, stops, idle, history

LEMMA TypesAreKept ==
    ASSUME TypeOK, [Next]_vars
    PROVE  TypeOK'
<1> USE DEF files, processes, origin, idle, stops, clients, history
<1>1. ASSUME NEW c \in Clients, Look(c) PROVE TypeOK'
  BY <1>1, CrashAssumption
  DEF TypeOK, Look, Goto, Places
<1>2. ASSUME NEW c \in Clients, Require(c) PROVE TypeOK'
  BY <1>2, CrashAssumption
  DEF TypeOK, Require, Goto, Places
<1>3. ASSUME NEW c \in Clients, Compare(c) PROVE TypeOK'
  BY <1>3, CrashAssumption
  DEF TypeOK, Compare, Goto, Places
<1>4. ASSUME NEW c \in Clients, Walk(c) PROVE TypeOK'
  BY <1>4, CrashAssumption
  DEF TypeOK, Walk, Goto, Places
<1>5. ASSUME NEW c \in Clients, AskToStop(c) PROVE TypeOK'
  BY <1>5, CrashAssumption
  DEF TypeOK, AskToStop, Send, Goto, Ready, Request, Places
<1>6. ASSUME NEW c \in Clients, AwaitExit(c) PROVE TypeOK'
  BY <1>6, CrashAssumption
  DEF TypeOK, AwaitExit, Goto, Places
<1>7. ASSUME NEW c \in Clients, RemoveSocket(c) PROVE TypeOK'
  BY <1>7, CrashAssumption
  DEF TypeOK, RemoveSocket, Taken, Goto, Places
<1>8. ASSUME NEW c \in Clients, Signal(c) PROVE TypeOK'
  BY <1>8, CrashAssumption
  DEF TypeOK, Signal, Ends, Goto, Listening, Places, Of
<1>9. ASSUME NEW c \in Clients, Reap(c) PROVE TypeOK'
  BY <1>9, CrashAssumption
  DEF TypeOK, Reap, Ends, Goto, Alive, Places, Of
<1>10. ASSUME NEW c \in Clients, Sweep(c) PROVE TypeOK'
  BY <1>10, CrashAssumption
  DEF TypeOK, Sweep, Taken, Goto, Places
<1>11. ASSUME NEW c \in Clients, SweepSocket(c) PROVE TypeOK'
  BY <1>11, CrashAssumption
  DEF TypeOK, SweepSocket, Taken, Goto, Places
<1>12. ASSUME NEW c \in Clients, Spawn(c) PROVE TypeOK'
  BY SpawnTypes, <1>12
<1>13. ASSUME NEW c \in Clients, FindDaemon(c) PROVE TypeOK'
  BY <1>13, CrashAssumption
  DEF TypeOK, FindDaemon, Goto, Places
<1>14. ASSUME NEW c \in Clients, FindNone(c) PROVE TypeOK'
  BY <1>14, CrashAssumption
  DEF TypeOK, FindNone, Goto, Places
<1>15. ASSUME NEW c \in Clients, Connect(c) PROVE TypeOK'
  BY <1>15, CrashAssumption
  DEF TypeOK, Connect, Send, Goto, Ready, Request, Places
<1>16. ASSUME NEW c \in Clients, ConnectFails(c) PROVE TypeOK'
  BY <1>16, CrashAssumption
  DEF TypeOK, ConnectFails, Goto, Places
<1>17. ASSUME NEW c \in Clients, Respawn(c) PROVE TypeOK'
  BY <1>17, CrashAssumption
  DEF TypeOK, Respawn, Goto, Places
<1>18. ASSUME NEW c \in Clients, NoReply(c) PROVE TypeOK'
  BY <1>18, CrashAssumption
  DEF TypeOK, NoReply, Goto, Places
<1>19. ASSUME NEW d \in Daemons, Acquire(d) PROVE TypeOK'
  BY <1>19, CrashAssumption
  DEF TypeOK, Acquire, Ends, Ready, Listening, Of
<1>20. ASSUME NEW d \in Daemons, Publish(d) PROVE TypeOK'
  BY <1>20, CrashAssumption
  DEF TypeOK, Publish
<1>21. ASSUME NEW d \in Daemons, Bind(d) PROVE TypeOK'
  BY <1>21, CrashAssumption
  DEF TypeOK, Bind
<1>22. ASSUME NEW d \in Daemons, StopServing(d) PROVE TypeOK'
  BY <1>22, CrashAssumption
  DEF TypeOK, StopServing, Listening
<1>23. ASSUME NEW d \in Daemons, CancelTasks(d) PROVE TypeOK'
  BY <1>23, CrashAssumption
  DEF TypeOK, CancelTasks, Of
<1>24. ASSUME NEW d \in Daemons, Leave(d) PROVE TypeOK'
  BY <1>24, CrashAssumption
  DEF TypeOK, Leave, Ends, Of
<1>25. ASSUME NEW d \in Daemons, IdleTimer(d) PROVE TypeOK'
  BY <1>25, CrashAssumption
  DEF TypeOK, IdleTimer, Listening
<1>26. ASSUME NEW d \in Daemons, IdleRearmed(d) PROVE TypeOK'
  BY <1>26, CrashAssumption
  DEF TypeOK, IdleRearmed, Listening
<1>27. ASSUME NEW d \in Daemons, Crash(d) PROVE TypeOK'
  BY <1>27, CrashAssumption
  DEF TypeOK, Crash, Ends, Alive, Of
<1>28. ASSUME NEW d \in Daemons, Supervise(d) PROVE TypeOK'
  BY <1>28, CrashAssumption
  DEF TypeOK, Supervise
<1>29. ASSUME NEW d \in Daemons, Terminate(d) PROVE TypeOK'
  BY <1>29, CrashAssumption
  DEF TypeOK, Terminate, Listening
<1>30. ASSUME NEW r \in requests, ReadRequest(r) PROVE TypeOK'
  BY <1>30, CrashAssumption
  DEF TypeOK, ReadRequest, Marked, Request
<1>31. ASSUME NEW r \in requests, BeginRequest(r) PROVE TypeOK'
  BY <1>31, CrashAssumption
  DEF TypeOK, BeginRequest, Request
<1>32. ASSUME NEW r \in requests, EndRequest(r) PROVE TypeOK'
  BY <1>32, CrashAssumption
  DEF TypeOK, EndRequest, Marked, Answered, Places, Request
<1>33. ASSUME NEW r \in requests, RefuseRequest(r) PROVE TypeOK'
  BY <1>33, CrashAssumption
  DEF TypeOK, RefuseRequest, Answered, Places, Request
<1>35. ASSUME NEW d \in Daemons, BrowserLeaves(d) PROVE TypeOK'
  BY <1>35, CrashAssumption
  DEF TypeOK, BrowserLeaves
<1>34. CASE UNCHANGED vars
  BY <1>34 DEF TypeOK, vars
<1> QED
  BY <1>1, <1>2, <1>3, <1>4, <1>5, <1>6, <1>7, <1>8, <1>9, <1>10, <1>11,
     <1>12, <1>13, <1>14, <1>15, <1>16, <1>17, <1>18, <1>19, <1>20, <1>21,
     <1>22, <1>23, <1>24, <1>25, <1>26, <1>27, <1>28, <1>29, <1>30, <1>31,
     <1>32, <1>33, <1>34, <1>35
  DEF Next, ClientStep, DaemonStep, ServeRequest, Of

LEMMA OwnershipIsKept ==
    ASSUME TypeOK, Ownership, [Next]_vars
    PROVE  Ownership'
<1> USE DEF files, processes, origin, idle, stops, clients, history
<1>1. ASSUME NEW c \in Clients, Look(c) PROVE Ownership'
  BY <1>1, NobodyAssumption
  DEF TypeOK, Ownership, Owning, Listening, Alive, Look, Goto
<1>2. ASSUME NEW c \in Clients, Require(c) PROVE Ownership'
  BY <1>2, NobodyAssumption
  DEF TypeOK, Ownership, Owning, Listening, Alive, Require, Goto
<1>3. ASSUME NEW c \in Clients, Compare(c) PROVE Ownership'
  BY <1>3, NobodyAssumption
  DEF TypeOK, Ownership, Owning, Listening, Alive, Compare, Goto
<1>4. ASSUME NEW c \in Clients, Walk(c) PROVE Ownership'
  BY <1>4, NobodyAssumption
  DEF TypeOK, Ownership, Owning, Listening, Alive, Walk, Goto
<1>5. ASSUME NEW c \in Clients, AskToStop(c) PROVE Ownership'
  BY <1>5, NobodyAssumption
  DEF TypeOK, Ownership, Owning, Listening, Alive, AskToStop, Send, Goto, Ready
<1>6. ASSUME NEW c \in Clients, AwaitExit(c) PROVE Ownership'
  BY <1>6, NobodyAssumption
  DEF TypeOK, Ownership, Owning, Listening, Alive, AwaitExit, Goto
<1>7. ASSUME NEW c \in Clients, RemoveSocket(c) PROVE Ownership'
  BY <1>7, NobodyAssumption
  DEF TypeOK, Ownership, Owning, Listening, Alive, RemoveSocket, Taken, Goto
<1>8. ASSUME NEW c \in Clients, Signal(c) PROVE Ownership'
  BY <1>8, NobodyAssumption
  DEF TypeOK, Ownership, Owning, Listening, Alive, Signal, Ends, Goto
<1>9. ASSUME NEW c \in Clients, Reap(c) PROVE Ownership'
  BY <1>9, NobodyAssumption
  DEF TypeOK, Ownership, Owning, Listening, Alive, Reap, Ends, Goto
<1>10. ASSUME NEW c \in Clients, Sweep(c) PROVE Ownership'
  BY <1>10, NobodyAssumption
  DEF TypeOK, Ownership, Owning, Listening, Alive, Sweep, Taken, Goto
<1>11. ASSUME NEW c \in Clients, SweepSocket(c) PROVE Ownership'
  BY <1>11, NobodyAssumption
  DEF TypeOK, Ownership, Owning, Listening, Alive, SweepSocket, Taken, Goto
<1>12. ASSUME NEW c \in Clients, Spawn(c) PROVE Ownership'
  BY <1>12, NobodyAssumption
  DEF TypeOK, Ownership, Owning, Listening, Alive, Spawn, Goto
<1>13. ASSUME NEW c \in Clients, FindDaemon(c) PROVE Ownership'
  BY <1>13, NobodyAssumption
  DEF TypeOK, Ownership, Owning, Listening, Alive, FindDaemon, Goto
<1>14. ASSUME NEW c \in Clients, FindNone(c) PROVE Ownership'
  BY <1>14, NobodyAssumption
  DEF TypeOK, Ownership, Owning, Listening, Alive, FindNone, Goto
<1>15. ASSUME NEW c \in Clients, Connect(c) PROVE Ownership'
  BY <1>15, NobodyAssumption
  DEF TypeOK, Ownership, Owning, Listening, Alive, Connect, Send, Goto, Ready
<1>16. ASSUME NEW c \in Clients, ConnectFails(c) PROVE Ownership'
  BY <1>16, NobodyAssumption
  DEF TypeOK, Ownership, Owning, Listening, Alive, ConnectFails, Goto
<1>17. ASSUME NEW c \in Clients, Respawn(c) PROVE Ownership'
  BY <1>17, NobodyAssumption
  DEF TypeOK, Ownership, Owning, Listening, Alive, Respawn, Goto
<1>18. ASSUME NEW c \in Clients, NoReply(c) PROVE Ownership'
  BY <1>18, NobodyAssumption
  DEF TypeOK, Ownership, Owning, Listening, Alive, NoReply, Goto
<1>19. ASSUME NEW d \in Daemons, Acquire(d) PROVE Ownership'
  BY <1>19, NobodyAssumption
  DEF TypeOK, Ownership, Owning, Listening, Alive, Acquire, Ends, Ready
<1>20. ASSUME NEW d \in Daemons, Publish(d) PROVE Ownership'
  BY <1>20, NobodyAssumption
  DEF TypeOK, Ownership, Owning, Listening, Alive, Publish
<1>21. ASSUME NEW d \in Daemons, Bind(d) PROVE Ownership'
  BY <1>21, NobodyAssumption
  DEF TypeOK, Ownership, Owning, Listening, Alive, Bind
<1>22. ASSUME NEW d \in Daemons, StopServing(d) PROVE Ownership'
  BY <1>22, NobodyAssumption
  DEF TypeOK, Ownership, Owning, Listening, Alive, StopServing
<1>23. ASSUME NEW d \in Daemons, CancelTasks(d) PROVE Ownership'
  BY <1>23, NobodyAssumption
  DEF TypeOK, Ownership, Owning, Listening, Alive, CancelTasks, Of
<1>24. ASSUME NEW d \in Daemons, Leave(d) PROVE Ownership'
  BY <1>24, NobodyAssumption
  DEF TypeOK, Ownership, Owning, Listening, Alive, Leave, Ends
<1>25. ASSUME NEW d \in Daemons, IdleTimer(d) PROVE Ownership'
  BY <1>25, NobodyAssumption
  DEF TypeOK, Ownership, Owning, Listening, Alive, IdleTimer
<1>26. ASSUME NEW d \in Daemons, IdleRearmed(d) PROVE Ownership'
  BY <1>26, NobodyAssumption
  DEF TypeOK, Ownership, Owning, Listening, Alive, IdleRearmed
<1>27. ASSUME NEW d \in Daemons, Crash(d) PROVE Ownership'
  BY <1>27, NobodyAssumption
  DEF TypeOK, Ownership, Owning, Listening, Alive, Crash, Ends
<1>28. ASSUME NEW d \in Daemons, Supervise(d) PROVE Ownership'
  BY <1>28, NobodyAssumption
  DEF TypeOK, Ownership, Owning, Listening, Alive, Supervise
<1>29. ASSUME NEW d \in Daemons, Terminate(d) PROVE Ownership'
  BY <1>29, NobodyAssumption
  DEF TypeOK, Ownership, Owning, Listening, Alive, Terminate
<1>30. ASSUME NEW r \in requests, ReadRequest(r) PROVE Ownership'
  BY <1>30, NobodyAssumption
  DEF TypeOK, Ownership, Owning, Listening, Alive, ReadRequest, Marked
<1>31. ASSUME NEW r \in requests, BeginRequest(r) PROVE Ownership'
  BY <1>31, NobodyAssumption
  DEF TypeOK, Ownership, Owning, Listening, Alive, BeginRequest
<1>32. ASSUME NEW r \in requests, EndRequest(r) PROVE Ownership'
  BY <1>32, NobodyAssumption
  DEF TypeOK, Ownership, Owning, Listening, Alive, EndRequest, Marked, Answered
<1>33. ASSUME NEW r \in requests, RefuseRequest(r) PROVE Ownership'
  BY <1>33, NobodyAssumption
  DEF TypeOK, Ownership, Owning, Listening, Alive, RefuseRequest, Answered
<1>35. ASSUME NEW d \in Daemons, BrowserLeaves(d) PROVE Ownership'
  BY <1>35, NobodyAssumption
  DEF TypeOK, Ownership, Owning, Listening, Alive, BrowserLeaves
<1>34. CASE UNCHANGED vars
  BY <1>34 DEF TypeOK, Ownership, Owning, Listening, Alive, vars
<1> QED
  BY <1>1, <1>2, <1>3, <1>4, <1>5, <1>6, <1>7, <1>8, <1>9, <1>10, <1>11,
     <1>12, <1>13, <1>14, <1>15, <1>16, <1>17, <1>18, <1>19, <1>20, <1>21,
     <1>22, <1>23, <1>24, <1>25, <1>26, <1>27, <1>28, <1>29, <1>30, <1>31,
     <1>32, <1>33, <1>34, <1>35
  DEF Next, ClientStep, DaemonStep, ServeRequest, Of

LEMMA DeliveryIsKept ==
    ASSUME TypeOK, Delivery, [Next]_vars
    PROVE  Delivery'
<1> USE DEF files, processes, origin, idle, stops, clients, history
<1>1. ASSUME NEW c \in Clients, Look(c) PROVE Delivery'
  BY <1>1, NobodyAssumption
  DEF TypeOK, Delivery, Unsent, Commands, Request, Look, Goto
<1>2. ASSUME NEW c \in Clients, Require(c) PROVE Delivery'
  BY <1>2, NobodyAssumption
  DEF TypeOK, Delivery, Unsent, Commands, Request, Require, Goto
<1>3. ASSUME NEW c \in Clients, Compare(c) PROVE Delivery'
  BY <1>3, NobodyAssumption
  DEF TypeOK, Delivery, Unsent, Commands, Request, Compare, Goto
<1>4. ASSUME NEW c \in Clients, Walk(c) PROVE Delivery'
  BY <1>4, NobodyAssumption
  DEF TypeOK, Delivery, Unsent, Commands, Request, Walk, Goto
<1>5. ASSUME NEW c \in Clients, AskToStop(c) PROVE Delivery'
  BY <1>5, NobodyAssumption
  DEF TypeOK, Delivery, Unsent, Commands, Request, AskToStop, Send, Goto, Ready
<1>6. ASSUME NEW c \in Clients, AwaitExit(c) PROVE Delivery'
  BY <1>6, NobodyAssumption
  DEF TypeOK, Delivery, Unsent, Commands, Request, AwaitExit, Goto
<1>7. ASSUME NEW c \in Clients, RemoveSocket(c) PROVE Delivery'
  BY <1>7, NobodyAssumption
  DEF TypeOK, Delivery, Unsent, Commands, Request, RemoveSocket, Taken, Goto
<1>8. ASSUME NEW c \in Clients, Signal(c) PROVE Delivery'
  BY <1>8, NobodyAssumption
  DEF TypeOK, Delivery, Unsent, Commands, Request, Signal, Ends, Goto, Listening
<1>9. ASSUME NEW c \in Clients, Reap(c) PROVE Delivery'
  BY <1>9, NobodyAssumption
  DEF TypeOK, Delivery, Unsent, Commands, Request, Reap, Ends, Goto, Alive
<1>10. ASSUME NEW c \in Clients, Sweep(c) PROVE Delivery'
  BY <1>10, NobodyAssumption
  DEF TypeOK, Delivery, Unsent, Commands, Request, Sweep, Taken, Goto
<1>11. ASSUME NEW c \in Clients, SweepSocket(c) PROVE Delivery'
  BY <1>11, NobodyAssumption
  DEF TypeOK, Delivery, Unsent, Commands, Request, SweepSocket, Taken, Goto
<1>12. ASSUME NEW c \in Clients, Spawn(c) PROVE Delivery'
  BY <1>12, NobodyAssumption
  DEF TypeOK, Delivery, Unsent, Commands, Request, Spawn, Goto
<1>13. ASSUME NEW c \in Clients, FindDaemon(c) PROVE Delivery'
  BY <1>13, NobodyAssumption
  DEF TypeOK, Delivery, Unsent, Commands, Request, FindDaemon, Goto
<1>14. ASSUME NEW c \in Clients, FindNone(c) PROVE Delivery'
  BY <1>14, NobodyAssumption
  DEF TypeOK, Delivery, Unsent, Commands, Request, FindNone, Goto
<1>15. ASSUME NEW c \in Clients, Connect(c) PROVE Delivery'
  BY <1>15, NobodyAssumption
  DEF TypeOK, Delivery, Unsent, Commands, Request, Connect, Send, Goto, Ready
<1>16. ASSUME NEW c \in Clients, ConnectFails(c) PROVE Delivery'
  BY <1>16, NobodyAssumption
  DEF TypeOK, Delivery, Unsent, Commands, Request, ConnectFails, Goto, MayRespawn, Ready
<1>17. ASSUME NEW c \in Clients, Respawn(c) PROVE Delivery'
  BY <1>17, NobodyAssumption
  DEF TypeOK, Delivery, Unsent, Commands, Request, Respawn, Goto, MayRespawn
<1>18. ASSUME NEW c \in Clients, NoReply(c) PROVE Delivery'
  BY <1>18, NobodyAssumption
  DEF TypeOK, Delivery, Unsent, Commands, Request, NoReply, Goto
<1>19. ASSUME NEW d \in Daemons, Acquire(d) PROVE Delivery'
  BY <1>19, NobodyAssumption
  DEF TypeOK, Delivery, Unsent, Commands, Request, Acquire, Ends, Ready, Listening
<1>20. ASSUME NEW d \in Daemons, Publish(d) PROVE Delivery'
  BY <1>20, NobodyAssumption
  DEF TypeOK, Delivery, Unsent, Commands, Request, Publish
<1>21. ASSUME NEW d \in Daemons, Bind(d) PROVE Delivery'
  BY <1>21, NobodyAssumption
  DEF TypeOK, Delivery, Unsent, Commands, Request, Bind
<1>22. ASSUME NEW d \in Daemons, StopServing(d) PROVE Delivery'
  BY <1>22, NobodyAssumption
  DEF TypeOK, Delivery, Unsent, Commands, Request, StopServing, Listening
<1>23. ASSUME NEW d \in Daemons, CancelTasks(d) PROVE Delivery'
  BY <1>23, NobodyAssumption
  DEF TypeOK, Delivery, Unsent, Commands, Request, CancelTasks, Of
<1>24. ASSUME NEW d \in Daemons, Leave(d) PROVE Delivery'
  BY <1>24, NobodyAssumption
  DEF TypeOK, Delivery, Unsent, Commands, Request, Leave, Ends
<1>25. ASSUME NEW d \in Daemons, IdleTimer(d) PROVE Delivery'
  BY <1>25, NobodyAssumption
  DEF TypeOK, Delivery, Unsent, Commands, Request, IdleTimer, Listening
<1>26. ASSUME NEW d \in Daemons, IdleRearmed(d) PROVE Delivery'
  BY <1>26, NobodyAssumption
  DEF TypeOK, Delivery, Unsent, Commands, Request, IdleRearmed, Listening
<1>27. ASSUME NEW d \in Daemons, Crash(d) PROVE Delivery'
  BY <1>27, NobodyAssumption
  DEF TypeOK, Delivery, Unsent, Commands, Request, Crash, Ends, Alive
<1>28. ASSUME NEW d \in Daemons, Supervise(d) PROVE Delivery'
  BY <1>28, NobodyAssumption
  DEF TypeOK, Delivery, Unsent, Commands, Request, Supervise
<1>29. ASSUME NEW d \in Daemons, Terminate(d) PROVE Delivery'
  BY <1>29, NobodyAssumption
  DEF TypeOK, Delivery, Unsent, Commands, Request, Terminate, Listening
<1>30. ASSUME NEW r \in requests, ReadRequest(r) PROVE Delivery'
  BY <1>30, NobodyAssumption
  DEF TypeOK, Delivery, Unsent, Commands, Request, ReadRequest, Marked
<1>31. ASSUME NEW r \in requests, BeginRequest(r) PROVE Delivery'
  BY <1>31, NobodyAssumption
  DEF TypeOK, Delivery, Unsent, Commands, Request, BeginRequest
<1>32. ASSUME NEW r \in requests, EndRequest(r) PROVE Delivery'
  BY <1>32, NobodyAssumption
  DEF TypeOK, Delivery, Unsent, Commands, Request, EndRequest, Marked, Answered
<1>33. ASSUME NEW r \in requests, RefuseRequest(r) PROVE Delivery'
  BY <1>33, NobodyAssumption
  DEF TypeOK, Delivery, Unsent, Commands, Request, RefuseRequest, Answered
<1>35. ASSUME NEW d \in Daemons, BrowserLeaves(d) PROVE Delivery'
  BY <1>35, NobodyAssumption
  DEF TypeOK, Delivery, Unsent, Commands, Request, BrowserLeaves
<1>34. CASE UNCHANGED vars
  BY <1>34 DEF TypeOK, Delivery, Unsent, Commands, Request, vars
<1> QED
  BY <1>1, <1>2, <1>3, <1>4, <1>5, <1>6, <1>7, <1>8, <1>9, <1>10, <1>11,
     <1>12, <1>13, <1>14, <1>15, <1>16, <1>17, <1>18, <1>19, <1>20, <1>21,
     <1>22, <1>23, <1>24, <1>25, <1>26, <1>27, <1>28, <1>29, <1>30, <1>31,
     <1>32, <1>33, <1>34, <1>35
  DEF Next, ClientStep, DaemonStep, ServeRequest, Of

LEMMA QuietnessIsKept ==
    ASSUME TypeOK, Quietness, [Next]_vars
    PROVE  Quietness'
<1> USE DEF files, processes, origin, idle, stops, clients, history
<1>1. ASSUME NEW c \in Clients, Look(c) PROVE Quietness'
  BY <1>1, NobodyAssumption
  DEF TypeOK, Quietness, Free, Of, Request, Look, Goto
<1>2. ASSUME NEW c \in Clients, Require(c) PROVE Quietness'
  BY <1>2, NobodyAssumption
  DEF TypeOK, Quietness, Free, Of, Request, Require, Goto
<1>3. ASSUME NEW c \in Clients, Compare(c) PROVE Quietness'
  BY <1>3, NobodyAssumption
  DEF TypeOK, Quietness, Free, Of, Request, Compare, Goto
<1>4. ASSUME NEW c \in Clients, Walk(c) PROVE Quietness'
  BY <1>4, NobodyAssumption
  DEF TypeOK, Quietness, Free, Of, Request, Walk, Goto
<1>5. ASSUME NEW c \in Clients, AskToStop(c) PROVE Quietness'
  BY <1>5, NobodyAssumption
  DEF TypeOK, Quietness, Free, Of, Request, AskToStop, Send, Goto, Ready
<1>6. ASSUME NEW c \in Clients, AwaitExit(c) PROVE Quietness'
  BY <1>6, NobodyAssumption
  DEF TypeOK, Quietness, Free, Of, Request, AwaitExit, Goto
<1>7. ASSUME NEW c \in Clients, RemoveSocket(c) PROVE Quietness'
  BY <1>7, NobodyAssumption
  DEF TypeOK, Quietness, Free, Of, Request, RemoveSocket, Taken, Goto
<1>8. ASSUME NEW c \in Clients, Signal(c) PROVE Quietness'
  BY <1>8, NobodyAssumption
  DEF TypeOK, Quietness, Free, Of, Request, Signal, Ends, Goto, Listening
<1>9. ASSUME NEW c \in Clients, Reap(c) PROVE Quietness'
  BY <1>9, NobodyAssumption
  DEF TypeOK, Quietness, Free, Of, Request, Reap, Ends, Goto, Alive
<1>10. ASSUME NEW c \in Clients, Sweep(c) PROVE Quietness'
  BY <1>10, NobodyAssumption
  DEF TypeOK, Quietness, Free, Of, Request, Sweep, Taken, Goto
<1>11. ASSUME NEW c \in Clients, SweepSocket(c) PROVE Quietness'
  BY <1>11, NobodyAssumption
  DEF TypeOK, Quietness, Free, Of, Request, SweepSocket, Taken, Goto
<1>12. ASSUME NEW c \in Clients, Spawn(c) PROVE Quietness'
  BY <1>12, NobodyAssumption
  DEF TypeOK, Quietness, Free, Of, Request, Spawn, Goto
<1>13. ASSUME NEW c \in Clients, FindDaemon(c) PROVE Quietness'
  BY <1>13, NobodyAssumption
  DEF TypeOK, Quietness, Free, Of, Request, FindDaemon, Goto
<1>14. ASSUME NEW c \in Clients, FindNone(c) PROVE Quietness'
  BY <1>14, NobodyAssumption
  DEF TypeOK, Quietness, Free, Of, Request, FindNone, Goto
<1>15. ASSUME NEW c \in Clients, Connect(c) PROVE Quietness'
  BY <1>15, NobodyAssumption
  DEF TypeOK, Quietness, Free, Of, Request, Connect, Send, Goto, Ready
<1>16. ASSUME NEW c \in Clients, ConnectFails(c) PROVE Quietness'
  BY <1>16, NobodyAssumption
  DEF TypeOK, Quietness, Free, Of, Request, ConnectFails, Goto
<1>17. ASSUME NEW c \in Clients, Respawn(c) PROVE Quietness'
  BY <1>17, NobodyAssumption
  DEF TypeOK, Quietness, Free, Of, Request, Respawn, Goto
<1>18. ASSUME NEW c \in Clients, NoReply(c) PROVE Quietness'
  BY <1>18, NobodyAssumption
  DEF TypeOK, Quietness, Free, Of, Request, NoReply, Goto
<1>19. ASSUME NEW d \in Daemons, Acquire(d) PROVE Quietness'
  BY <1>19, NobodyAssumption
  DEF TypeOK, Quietness, Free, Of, Request, Acquire, Ends, Ready, Listening
<1>20. ASSUME NEW d \in Daemons, Publish(d) PROVE Quietness'
  BY <1>20, NobodyAssumption
  DEF TypeOK, Quietness, Free, Of, Request, Publish
<1>21. ASSUME NEW d \in Daemons, Bind(d) PROVE Quietness'
  BY <1>21, NobodyAssumption
  DEF TypeOK, Quietness, Free, Of, Request, Bind
<1>22. ASSUME NEW d \in Daemons, StopServing(d) PROVE Quietness'
  BY <1>22, NobodyAssumption
  DEF TypeOK, Quietness, Free, Of, Request, StopServing, Listening
<1>23. ASSUME NEW d \in Daemons, CancelTasks(d) PROVE Quietness'
  BY <1>23, NobodyAssumption
  DEF TypeOK, Quietness, Free, Of, Request, CancelTasks
<1>24. ASSUME NEW d \in Daemons, Leave(d) PROVE Quietness'
  BY <1>24, NobodyAssumption
  DEF TypeOK, Quietness, Free, Of, Request, Leave, Ends
<1>25. ASSUME NEW d \in Daemons, IdleTimer(d) PROVE Quietness'
  BY <1>25, NobodyAssumption
  DEF TypeOK, Quietness, Free, Of, Request, IdleTimer, Listening
<1>26. ASSUME NEW d \in Daemons, IdleRearmed(d) PROVE Quietness'
  BY <1>26, NobodyAssumption
  DEF TypeOK, Quietness, Free, Of, Request, IdleRearmed, Listening
<1>27. ASSUME NEW d \in Daemons, Crash(d) PROVE Quietness'
  BY <1>27, NobodyAssumption
  DEF TypeOK, Quietness, Free, Of, Request, Crash, Ends, Alive
<1>28. ASSUME NEW d \in Daemons, Supervise(d) PROVE Quietness'
  BY <1>28, NobodyAssumption
  DEF TypeOK, Quietness, Free, Of, Request, Supervise
<1>29. ASSUME NEW d \in Daemons, Terminate(d) PROVE Quietness'
  BY <1>29, NobodyAssumption
  DEF TypeOK, Quietness, Free, Of, Request, Terminate, Listening
<1>30. ASSUME NEW r \in requests, ReadRequest(r) PROVE Quietness'
  BY <1>30, NobodyAssumption
  DEF TypeOK, Quietness, Free, Of, Request, ReadRequest, Marked
<1>31. ASSUME NEW r \in requests, BeginRequest(r) PROVE Quietness'
  BY <1>31, NobodyAssumption
  DEF TypeOK, Quietness, Free, Of, Request, BeginRequest
<1>32. ASSUME NEW r \in requests, EndRequest(r) PROVE Quietness'
  BY <1>32, NobodyAssumption
  DEF TypeOK, Quietness, Free, Of, Request, EndRequest, Marked, Answered
<1>33. ASSUME NEW r \in requests, RefuseRequest(r) PROVE Quietness'
  BY <1>33, NobodyAssumption
  DEF TypeOK, Quietness, Free, Of, Request, RefuseRequest, Answered
<1>35. ASSUME NEW d \in Daemons, BrowserLeaves(d) PROVE Quietness'
  BY <1>35, NobodyAssumption
  DEF TypeOK, Quietness, Free, Of, Request, BrowserLeaves
<1>34. CASE UNCHANGED vars
  BY <1>34 DEF TypeOK, Quietness, Free, Of, Request, vars
<1> QED
  BY <1>1, <1>2, <1>3, <1>4, <1>5, <1>6, <1>7, <1>8, <1>9, <1>10, <1>11,
     <1>12, <1>13, <1>14, <1>15, <1>16, <1>17, <1>18, <1>19, <1>20, <1>21,
     <1>22, <1>23, <1>24, <1>25, <1>26, <1>27, <1>28, <1>29, <1>30, <1>31,
     <1>32, <1>33, <1>34, <1>35
  DEF Next, ClientStep, DaemonStep, ServeRequest, Of

-----------------------------------------------------------------------------
Invariant == TypeOK /\ Ownership /\ Delivery /\ Quietness

LEMMA InitInvariant == Init => Invariant
<1> SUFFICES ASSUME Init PROVE Invariant
  OBVIOUS
<1>1. TypeOK
  BY InitTypes
<1>2. Ownership
  BY NobodyAssumption DEF Init, Ownership, Owning
<1>3. Delivery
  <2>1. \A c \in Clients : pc[c] \in {"walk", "ensure"}
    BY DEF Init
  <2>2. requests = {} /\ executed = [c \in Clients |-> 0]
    BY DEF Init
  <2>3. \A c \in Clients : Unsent(c) /\ pc[c] # "done"
    BY <2>1 DEF Unsent
  <2>4. \A c \in Clients : Commands(c) = {} /\ executed[c] = 0
    BY <2>2 DEF Commands
  <2> QED
    BY <2>3, <2>4 DEF Delivery
<1>4. Quietness
  BY DEF Init, Quietness
<1> QED
  BY <1>1, <1>2, <1>3, <1>4 DEF Invariant

LEMMA InvariantHolds == Spec => []Invariant
<1>1. Invariant /\ [Next]_vars => Invariant'
  BY TypesAreKept, OwnershipIsKept, DeliveryIsKept, QuietnessIsKept DEF Invariant
<1> QED
  BY InitInvariant, <1>1, PTL DEF Spec

(* The types of the variables, in every reachable state.                   *)
THEOREM TypesAreCorrect == Spec => []TypeOK
<1>1. Invariant => TypeOK
  BY DEF Invariant
<1> QED
  BY InvariantHolds, <1>1, PTL

(* "Holds exclusive ownership of a session's socket and metadata until     *)
(* shutdown" (connection.rs:169), however many processes contend for the   *)
(* session, kill its daemon or remove its files.                           *)
THEOREM OwnersAreAlone == Spec => []OwnerIsAlone
<1>1. Invariant => OwnerIsAlone
  BY DEF Invariant, Ownership, Owning, OwnerIsAlone, TypeOK, Listening, Alive
<1> QED
  BY InvariantHolds, <1>1, PTL

(* A command begins once at most, and one reported as not done never did   *)
(* and never will (send_command_with_respawn).                             *)
THEOREM CommandsBeginOnce == Spec => []AtMostOnce
<1>1. ASSUME Invariant, NEW c \in Clients
      PROVE  /\ executed[c] <= 1
             /\ pc[c] = "failed" => /\ executed[c] = 0
                                    /\ \A r \in requests : r.client = c => r.kind # "command"
             /\ pc[c] = "done" => executed[c] = 1
  <2>1. executed[c] <= 1
    BY <1>1 DEF Invariant, Delivery
  <2>2. pc[c] = "failed" => Commands(c) = {} /\ executed[c] = 0
    BY <1>1 DEF Invariant, Delivery, Unsent
  <2>3. pc[c] = "done" => executed[c] = 1
    BY <1>1 DEF Invariant, Delivery
  <2> QED
    BY <2>1, <2>2, <2>3 DEF Commands
<1>2. Invariant => AtMostOnce
  BY <1>1 DEF AtMostOnce
<1> QED
  BY InvariantHolds, <1>2, PTL

(* What stops a daemon nobody told to stop.                                *)
LEMMA IdleStopIsQuiet ==
    ASSUME TypeOK, Quietness, Next,
           NEW d \in Daemons, Listening(d), d \notin asked, stage'[d] = "stopping"
    PROVE  \A r \in Of(d) : r.at = "sent"
<1>1. StopServing(d)
  <2> USE DEF files, processes, origin, idle, stops, clients, history, TypeOK, Listening
  <2>1. ASSUME NEW c \in Clients, ClientStep(c), ~(Signal(c) \/ Reap(c) \/ Spawn(c))
        PROVE  stage' = stage
    BY <2>1
    DEF ClientStep, Look, Require, Compare, Walk, AskToStop, AwaitExit, RemoveSocket, Sweep,
        SweepSocket, FindDaemon, FindNone, Connect, ConnectFails, Respawn, NoReply
  <2>2. ASSUME NEW c \in Clients, Signal(c) \/ Reap(c) \/ Spawn(c)
        PROVE  stage'[d] # "stopping"
    BY <2>2 DEF Signal, Reap, Spawn, Ends
  <2>3. ASSUME NEW e \in Daemons, NEW r \in requests, ServeRequest(r)
        PROVE  stage' = stage
    BY <2>3 DEF ServeRequest, ReadRequest, BeginRequest, EndRequest, RefuseRequest
  <2>4. ASSUME NEW e \in Daemons, IdleTimer(e) \/ IdleRearmed(e) \/ BrowserLeaves(e) \/ Terminate(e)
        PROVE  stage' = stage
    BY <2>4 DEF IdleTimer, IdleRearmed, BrowserLeaves, Terminate
  <2>5. ASSUME NEW e \in Daemons,
               \/ Acquire(e) \/ Publish(e) \/ Bind(e) \/ CancelTasks(e) \/ Leave(e)
               \/ Crash(e) \/ Supervise(e)
        PROVE  stage'[d] # "stopping"
    BY <2>5 DEF Acquire, Publish, Bind, CancelTasks, Leave, Crash, Supervise, Ends
  <2>6. ASSUME NEW e \in Daemons, StopServing(e) PROVE e = d
    BY <2>6 DEF StopServing
  <2> QED
    BY <2>1, <2>2, <2>3, <2>4, <2>5, <2>6 DEF Next, DaemonStep, Of
<1>2. d \in quiet /\ Free(d)
  BY <1>1 DEF StopServing, MayStopIdle
<1> QED
  BY <1>2 DEF Quietness, Free, Of, TypeOK, Request

(* A daemon nobody told to stop cuts off no command it has read, however   *)
(* its idle timer and the ends of commands interleave (daemon.rs:278).     *)
THEOREM IdleNeverCuts == Spec => IdleCutsNothing
<1>1. ASSUME Invariant, [Next]_vars
      PROVE  [\A d \in Daemons :
                Listening(d) /\ d \notin asked /\ stage'[d] = "stopping" =>
                    \A r \in Of(d) : r.at = "sent"]_vars
  BY <1>1, IdleStopIsQuiet DEF Invariant
<1> QED
  BY InvariantHolds, <1>1, PTL DEF Spec, IdleCutsNothing
=============================================================================
