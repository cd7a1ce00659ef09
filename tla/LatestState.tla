---------------------------- MODULE LatestState ----------------------------
(***************************************************************************)
(* What one HID report promises to the host, whatever else travels on the  *)
(* same interface: the device has a current state, at most one copy of it  *)
(* is on the wire, and the host sees the copies one at a time.  A copy     *)
(* taken onto the wire is the state of that moment; the states between two *)
(* copies may be skipped, but nothing else is ever seen and nothing is     *)
(* seen out of order.  A bus reset empties the wire and makes the host     *)
(* forget.                                                                 *)
(***************************************************************************)
CONSTANTS
  State,     \* the states the device can report
  Initial    \* the state both sides start from

VARIABLES
  current,   \* the device's state
  wire,      \* {} or the one copy {s} on its way to the host
  seen       \* the state the host last received

channel == <<current, wire, seen>>

Init == current = Initial /\ wire = {} /\ seen = Initial

Change ==
  /\ current' \in State
  /\ UNCHANGED <<wire, seen>>

Offer ==
  /\ wire = {}
  /\ current' \in State
  /\ wire' = {current'}
  /\ UNCHANGED seen

Deliver ==
  /\ seen' \in wire
  /\ wire' = {}
  /\ UNCHANGED current

Reset ==
  /\ wire' = {}
  /\ seen' = Initial
  /\ UNCHANGED current

Next == Change \/ Offer \/ Deliver \/ Reset

Spec == Init /\ [][Next]_channel

(* A state the device keeps is, from some point on, what the host sees.    *)
Converges ==
  \A s \in State : <>[](current = s) => <>[](seen = s)
=============================================================================
