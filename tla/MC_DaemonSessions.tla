-------------------------- MODULE MC_DaemonSessions -------------------------
(***************************************************************************)
(* Two clients with different configurations.  The first closes; the       *)
(* second may be one that only lists the sessions.                         *)
(***************************************************************************)
EXTENDS DaemonSessions, TLC

CONSTANTS first, second, old, new, d1, d2

(* Process ids are interchangeable: the first is used first.               *)
InOrder == stage[d1] = "unused" => stage[d2] = "unused"

Preferences == first :> old @@ second :> new

(* One asks for no expiry, one for the default.  An explicit timeout acts  *)
(* as the default does for a browser that is not spared.                   *)
Timeouts == old :> "off" @@ new :> "default"
=============================================================================
