------------------------------- MODULE MCStartup -------------------------------
(* An instance of Startup for TLC: two email columns come in either order.  *)
EXTENDS Startup

CONSTANTS p1, p2, r1, r2, file, form

TwoProcesses == {p1, p2}
TwoColumns == {"email_smtp_host", "email_to"}
OneFile == {file}
OneForm == {form}
TwoRequests == {r1, r2}
=============================================================================
