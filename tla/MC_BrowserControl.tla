-------------------------- MODULE MC_BrowserControl -------------------------
(***************************************************************************)
(* A small instance of browser control: two people, who take the browser   *)
(* over from the agent and from each other's lapsed leases, and send up to *)
(* two batches each.                                                       *)
(***************************************************************************)
EXTENDS BrowserControl, TLC

(* They are interchangeable, for runs that check invariants only.          *)
People == Permutations(Controllers)
=============================================================================
