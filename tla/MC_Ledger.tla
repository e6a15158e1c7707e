------------------------------ MODULE MC_Ledger -----------------------------
(***************************************************************************)
(* The ledger on its own, every operation called in every order by small   *)
(* sets of channels, frames and owners.                                    *)
(***************************************************************************)
EXTENDS Ledger, TLC

(* No operation reads the owner an entry keeps, so one owner is enough.    *)
Ownerless == \A f \in Frames : entries[f].action = NoAction

Symmetry == Permutations(Channels) \cup Permutations(Actions)
=============================================================================
