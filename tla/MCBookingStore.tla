---------------------------- MODULE MCBookingStore ----------------------------
(* Instances of BookingStore for TLC: one or two requests, two handlers, and *)
(* a clock that runs past the expiry of a request.  Requests and handlers    *)
(* are interchangeable, so the safety runs may use Symmetry.                 *)
EXTENDS BookingStore, TLC

CONSTANTS r1, r2, h1, h2

TwoRequests == {r1, r2}
OneRequest == {r1}
TwoHandlers == {h1, h2}

Symmetry == Permutations(TwoRequests) \cup Permutations(TwoHandlers)
=============================================================================
