----------------------------- MODULE EventPipe -----------------------------
(***************************************************************************)
(* What WaylandDisplay promises the rest of the nested compositor about    *)
(* the host's events: each is handed to its listener exactly once, in the  *)
(* order the host sent it, for as long as the display is open; and no      *)
(* event waits forever in a display that stays open.                       *)
(*                                                                         *)
(* An event is its sequence number, so "once and in order" is a pair of    *)
(* counters of which the second only advances and never passes the first.  *)
(***************************************************************************)
EXTENDS Naturals

VARIABLES
  sent,        \* how many events the host has written
  dispatched,  \* how many of them have been handed to their listeners
  open         \* FALSE once the display is being torn down

vars == <<sent, dispatched, open>>

Init == sent = 0 /\ dispatched = 0 /\ open = TRUE

Send == sent' = sent + 1 /\ UNCHANGED <<dispatched, open>>

Deliver ==
  /\ open
  /\ dispatched' \in (dispatched + 1) .. sent
  /\ UNCHANGED <<sent, open>>

Close == open /\ open' = FALSE /\ UNCHANGED <<sent, dispatched>>

Next == Send \/ Deliver \/ Close

SafeSpec == Init /\ [][Next]_vars

Spec == SafeSpec /\ WF_vars(Deliver)
=============================================================================
