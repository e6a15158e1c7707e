--------------------------- MODULE MC_SiteCustody ---------------------------
(* SiteCustody on small instances.                                         *)
EXTENDS SiteCustody, TLC

(* Needs, and channels, are interchangeable.                               *)
Alike == Permutations(Needs) \cup Permutations(Channels)

(* No guard asks how a document was answered.                              *)
Decided == [n \in Needs |-> IF page[n] = "stopped" THEN "passed" ELSE page[n]]
View == <<host, tables, requests, Decided, need, transfer, releasing, retiring, detach, applying,
          connections, browser>>

(* A second offer or a second connection, but not both, and then no detach *)
(* but the offer's own and a page's; a second channel opens when the first *)
(* has stopped, and then no other connection and no failed clear.  A       *)
(* document that a capture left stopped, which no guard asks about, is     *)
(* followed under the first offer or connection only, not when marked.     *)
Live == {c \in Channels : host[c] = "live"}
Handover == \A c \in Channels : host[c] # "new"
Undetached == detach["host"].at = "idle" /\ detach["expiry"].at = "idle"
Together ==
    /\ generation + connections <= 2
    /\ \A c, d \in Live : c = d
    /\ generation + connections = 2 => Undetached
    /\ Handover => Undetached /\ connections = 0 /\ ~uncleared
    /\ frozen = "capture" =>
        generation + connections <= 1 /\ ~Handover /\ ~uncleared
=============================================================================
