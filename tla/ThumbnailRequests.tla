--------------------------- MODULE ThumbnailRequests ---------------------------
(***************************************************************************)
(* What ThumbnailService promises a caller of GetThumbnailDetailed: a      *)
(* request waits until it is answered, once and for all, or dropped        *)
(* without an answer because its element was invalidated.                  *)
(***************************************************************************)
CONSTANT Requests

VARIABLE status

Waiting == {r \in Requests : status[r] = "waiting"}

Init == status = [r \in Requests |-> "idle"]

Move(S, to) == status' = [r \in Requests |-> IF r \in S THEN to ELSE status[r]]

Ask(r)    == status[r] = "idle" /\ Move({r}, "waiting")
AskHit(r) == status[r] = "idle" /\ Move({r}, "answered")
Answer(S) == S \subseteq Waiting /\ Move(S, "answered")
Drop(S)   == S \subseteq Waiting /\ Move(S, "dropped")

Next ==
    \/ \E r \in Requests : Ask(r) \/ AskHit(r)
    \/ \E S \in SUBSET Requests : Answer(S) \/ Drop(S)

Spec == Init /\ [][Next]_status
================================================================================
