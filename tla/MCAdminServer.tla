----------------------------- MODULE MCAdminServer -----------------------------
(* Instances of AdminServer for TLC: each run picks the parts of the          *)
(* configuration, the actors and the faults its question needs.               *)
EXTENDS AdminServer, TLC

CONSTANTS u1, u2, w1, w2, m1, m2, p1, h1, h2, g1, g2

NoSetting == {}
OneLink == {u1}
TwoLinks == {u1, u2}
OneHook == {w1}
TwoHooks == {w1, w2}
TwoMails == {m1, m2}
OnePassword == {p1}
OneHandler == {h1}
TwoHandlers == {h1, h2}
OneRefresher == {g1}
TwoRefreshers == {g1, g2}

\* Links, handlers and refreshers are interchangeable in the safety runs.
Symmetry == Permutations(TwoLinks) \cup Permutations(TwoHandlers)
              \cup Permutations(TwoRefreshers)
=============================================================================
