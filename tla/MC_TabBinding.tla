----------------------------- MODULE MC_TabBinding ---------------------------
(***************************************************************************)
(* A session in a shared browser in which three tabs are ever opened.      *)
(***************************************************************************)
EXTENDS TabBinding, FiniteSets

(* Nothing is cut while the third tab is still to come.  Once it is open,  *)
(* what goes on is: attaching over --cdp, commands that need the browser,  *)
(* pins put on, a link that ends with its daemon only, no end lost and one *)
(* event at a time on its way.                                             *)
Small ==
    \/ born < MaxTabs
    \/ /\ missed = {}
       /\ command.phase # "auto"
       /\ command.flag # "unpin"
       /\ ~command.skip
       /\ link # "lost"
       /\ Cardinality(events \cup batch) <= 1
=============================================================================
