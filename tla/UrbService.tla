----------------------------- MODULE UrbService -----------------------------
(***************************************************************************)
(* What a host controller promises the USB drivers above it: an URB handed *)
(* to it comes back exactly once per submission, and comes back at all     *)
(* once the driver has asked for it (usb_kill_urb waits for that).         *)
(***************************************************************************)
CONSTANT Urbs

VARIABLES
  inflight,    \* handed over and not given back yet
  cancelled    \* of those, the ones whose return has been asked for

vars == <<inflight, cancelled>>

Init == inflight = {} /\ cancelled = {}

HandOver(u) ==
  /\ u \notin inflight
  /\ inflight' = inflight \cup {u} /\ UNCHANGED cancelled

Cancel(u) ==
  /\ u \in inflight \ cancelled
  /\ cancelled' = cancelled \cup {u} /\ UNCHANGED inflight

Return(u) ==
  /\ u \in inflight
  /\ inflight' = inflight \ {u} /\ cancelled' = cancelled \ {u}

Next == \E u \in Urbs : HandOver(u) \/ Cancel(u) \/ Return(u)

Spec == Init /\ [][Next]_vars

(* The service never loses a cancelled URB.                                 *)
CancelledReturn == \A u \in Urbs : u \in cancelled ~> u \notin cancelled
=============================================================================
