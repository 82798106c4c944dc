--------------------------- MODULE BookingLifecycle ---------------------------
(***************************************************************************)
(* What the booking store promises about an intake request, with neither   *)
(* tokens, clocks nor handlers: a request is queued once, decided at most  *)
(* once while it is still open, and whoever asks is told where it stands.  *)
(* BookingStore is shown to implement this module when no two resolutions  *)
(* of one request overlap.                                                 *)
(***************************************************************************)
CONSTANT Requests        \* identities of intake requests

VARIABLES
  status,                \* status[r]: where the request stands
  open,                  \* pending requests that may still be decided
  told                   \* told[r]: the last answer a status check gave

vars == <<status, open, told>>

Decision == {"confirmed", "denied"}

Init ==
  /\ status = [r \in Requests |-> "absent"]
  /\ open = {}
  /\ told = [r \in Requests |-> "nothing"]

\* A request is queued; if queueing was slow it may have lapsed on arrival.
Submit(r) ==
  /\ status[r] = "absent"
  /\ status' = [status EXCEPT ![r] = "pending"]
  /\ open' \in {open, open \cup {r}}
  /\ UNCHANGED told

\* The provider decides an open request, once.
Resolve(r, d) ==
  /\ r \in open
  /\ status[r] = "pending"
  /\ status' = [status EXCEPT ![r] = d]
  /\ open' = open \ {r}
  /\ UNCHANGED told

\* Time runs out for some requests: they stay pending for ever.
Lapse ==
  /\ open' \in SUBSET open
  /\ UNCHANGED <<status, told>>

\* The requester asks, and is told the current status.
Ask(r) ==
  /\ status[r] # "absent"
  /\ told' = [told EXCEPT ![r] = status[r]]
  /\ UNCHANGED <<status, open>>

Next ==
  \/ \E r \in Requests : Submit(r) \/ Ask(r)
  \/ \E r \in Requests, d \in Decision : Resolve(r, d)
  \/ Lapse

Spec == Init /\ [][Next]_vars
=============================================================================
