---------------------------- MODULE MCBookingIntake ----------------------------
(* An instance of BookingIntake for TLC: one intake, and around it an admin  *)
(* who changes both channels and a provider who decides while it runs.       *)
EXTENDS BookingIntake

CONSTANTS r1, h1, m1, w1, w2

OneRequest == {r1}
OneHandler == {h1}
OneMailbox == {m1}
TwoHooks == {w1, w2}
=============================================================================
