------------------------- MODULE MC_ScriptEmulation -------------------------
(***************************************************************************)
(* One session of the daemon's own connection and one of a program's       *)
(* connection on the same page, and three changes.                         *)
(***************************************************************************)
EXTENDS ScriptEmulation, TLC

CONSTANTS daemon, program, tab, guest

Attachments == tab :> daemon @@ guest :> program

(* Once the page may have changed behind the daemon nothing more is        *)
(* claimed of its answers: such a state is checked and not continued.      *)
Seen == ~unseen

(* Only the program's connection is a temporary attachment.                *)
Temporary == daemon \in reading \cup (Connections \ open)

(* States that differ only in what no action reads any more are one.       *)
Relevant(o) ==
    CASE o \in tracked -> <<change[o], at[o]>>
      [] o \in pending -> <<change[o].session, change[o].disabled, at[o] = "sent">>
      [] at[o] = "sent" -> <<change[o].session, change[o].disabled>>
      [] OTHER -> <<change[o].session>>
View == <<attached, reading, known, tracked, browser, unseen,
          [o \in 1 .. issued |-> Relevant(o)]>>
=============================================================================
