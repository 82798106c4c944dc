----------------------------- MODULE BookingStore -----------------------------
(***************************************************************************)
(* internal/booking/store.go: the queue of intake requests in SQLite, with *)
(* every HTTP handler that calls it running concurrently.  Confirm and     *)
(* Deny read the row, check it and update it in three steps that are not   *)
(* one transaction, so resolutions of the same token can interleave.       *)
(*                                                                         *)
(* A request is identified with the one Enqueue call that creates it: a    *)
(* requester who submits again makes another request.  The random tokens   *)
(* are modelled as distinct values nobody can guess.                       *)
(***************************************************************************)
EXTENDS Naturals

CONSTANTS
  Requests,   \* Enqueue calls, each with its own row
  Handlers,   \* concurrent handlers of a confirm or deny POST
  TTL,        \* tokenTTL, in clock ticks
  Horizon,    \* bound: the clock stops here
  Overlap     \* may two resolutions of one token be in flight together?

ASSUME StoreAssumption ==
  /\ TTL \in Nat \ {0}
  /\ Horizon \in Nat
  /\ Overlap \in BOOLEAN

VARIABLES
  now,        \* the clock nowFunc reads
  status,     \* status[r]: the row's status column, "absent" without a row
  expires,    \* expires[r]: ExpiresAt as Enqueue computed it
  enqueue,    \* enqueue[r]: how far the Enqueue call got
  told,       \* told[r]: what the last lookup by status token answered
  job         \* job[h]: the resolution handler h is running or ran last

vars == <<now, status, expires, enqueue, told, job>>

Decision == {"confirmed", "denied"}
Status == {"pending"} \cup Decision

\* Row identities in the two token columns.
Token(r) == [column |-> "token", row |-> r]
StatusToken(r) == [column |-> "status_token", row |-> r]
NoToken == [column |-> "none"]
Tokens == [column : {"token", "status_token"}, row : Requests] \cup {NoToken}

Result == {"none", "ok", "unknown token", "token already used",
           "token expired", "store error"}

\* seen and limit are the row as the SELECT returned it.  before and lapsed
\* are history: the row's true status and expiry when the POST arrived.
Job == [at : {"idle", "called", "read", "checked", "done"},
        token : Tokens, next : Decision, seen : Status, limit : Nat,
        result : Result, before : Status, lapsed : BOOLEAN]

IdleJob == [at |-> "idle", token |-> NoToken, next |-> "denied",
            seen |-> "pending", limit |-> 0, result |-> "none",
            before |-> "pending", lapsed |-> FALSE]

Active == {"called", "read", "checked"}

TypeOK ==
  /\ now \in Nat
  /\ status \in [Requests -> Status \cup {"absent"}]
  /\ expires \in [Requests -> Nat]
  /\ enqueue \in [Requests -> {"new", "stamped", "stored", "failed", "lost"}]
  /\ told \in [Requests -> Status \cup {"nothing"}]
  /\ job \in [Handlers -> Job]

Init ==
  /\ now = 0
  /\ status = [r \in Requests |-> "absent"]
  /\ expires = [r \in Requests |-> 0]
  /\ enqueue = [r \in Requests |-> "new"]
  /\ told = [r \in Requests |-> "nothing"]
  /\ job = [h \in Handlers |-> IdleJob]
-----------------------------------------------------------------------------
(* Enqueue *)

\* Ids and tokens are drawn, and the clock is read, before the INSERT.
Stamp(r) ==
  /\ enqueue[r] = "new"
  /\ enqueue' = [enqueue EXCEPT ![r] = "stamped"]
  /\ expires' = [expires EXCEPT ![r] = now + TTL]
  /\ UNCHANGED <<now, status, told, job>>

\* MUTANT: the INSERT leaves the status column empty.
InsertWithoutStatus(r) ==
  /\ enqueue[r] = "stamped"
  /\ enqueue' = [enqueue EXCEPT ![r] = "stored"]
  /\ status' = [status EXCEPT ![r] = ""]
  /\ UNCHANGED <<now, expires, told, job>>

\* MUTANT: an INSERT OR REPLACE that is retried after it succeeded.
InsertRetried(r) ==
  /\ enqueue[r] \in {"stamped", "stored"}
  /\ enqueue' = [enqueue EXCEPT ![r] = "stored"]
  /\ status' = [status EXCEPT ![r] = "pending"]
  /\ UNCHANGED <<now, expires, told, job>>

Insert(r) ==
  /\ enqueue[r] = "stamped"
  /\ enqueue' = [enqueue EXCEPT ![r] = "stored"]
  /\ status' = [status EXCEPT ![r] = "pending"]
  /\ UNCHANGED <<now, expires, told, job>>

\* The INSERT returns an error (another connection holds the database lock).
InsertFails(r) ==
  /\ enqueue[r] = "stamped"
  /\ enqueue' = [enqueue EXCEPT ![r] = "failed"]
  /\ UNCHANGED <<now, status, expires, told, job>>
-----------------------------------------------------------------------------
(* Confirm and Deny: resolve(token, next) *)

\* MUTANT: the lookup matches either token column.
RowsWithEitherToken(t) ==
  {r \in Requests : status[r] # "absent" /\ t \in {Token(r), StatusToken(r)}}

RowsWithToken(t) == {r \in Requests : status[r] # "absent" /\ Token(r) = t}

\* A POST arrives with a token somebody was handed: the confirm/deny token of
\* a stored row, or its status token used in the wrong place.
Call(h, r, t, d) ==
  /\ job[h].at \notin Active
  /\ status[r] # "absent"
  /\ t \in {Token(r), StatusToken(r)}
  /\ Overlap \/ \A g \in Handlers : job[g].at \in Active => job[g].token # t
  /\ job' = [job EXCEPT ![h] =
               [IdleJob EXCEPT
                         !.at = "called", !.token = t, !.next = d,
                         !.before = status[r], !.lapsed = now > expires[r]]]
  /\ UNCHANGED <<now, status, expires, enqueue, told>>

\* The handler answers; the row it had read goes out of scope.
Answer(h, result) ==
  /\ job' = [job EXCEPT ![h] = [@ EXCEPT !.at = "done", !.result = result,
                                         !.seen = "pending", !.limit = 0]]
  /\ UNCHANGED <<now, expires, enqueue, told>>

\* The SELECT.
ReadRow(h) ==
  /\ job[h].at = "called"
  /\ \E r \in RowsWithToken(job[h].token) :
       job' = [job EXCEPT ![h] =
                 [@ EXCEPT !.at = "read", !.seen = status[r],
                           !.limit = expires[r]]]
  /\ UNCHANGED <<now, status, expires, enqueue, told>>

ReadNothing(h) ==
  /\ job[h].at = "called"
  /\ RowsWithToken(job[h].token) = {}
  /\ Answer(h, "unknown token")
  /\ UNCHANGED status

ReadFails(h) ==
  /\ job[h].at = "called"
  /\ Answer(h, "store error")
  /\ UNCHANGED status

\* The checks on the row that was read, against the clock as it is now.
CheckUsed(h) ==
  /\ job[h].at = "read"
  /\ job[h].seen # "pending"
  /\ Answer(h, "token already used")
  /\ UNCHANGED status

CheckExpired(h) ==
  /\ job[h].at = "read"
  /\ job[h].seen = "pending"
  /\ now > job[h].limit
  /\ Answer(h, "token expired")
  /\ UNCHANGED status

\* MUTANT: the status the SELECT returned is not checked.
CheckPassesUsed(h) ==
  /\ job[h].at = "read"
  /\ now <= job[h].limit
  /\ job' = [job EXCEPT ![h] = [@ EXCEPT !.at = "checked"]]
  /\ UNCHANGED <<now, status, expires, enqueue, told>>

\* MUTANT: the expiry comparison is off by one tick.
CheckPassesLate(h) ==
  /\ job[h].at = "read"
  /\ job[h].seen = "pending"
  /\ now <= job[h].limit + 1
  /\ job' = [job EXCEPT ![h] = [@ EXCEPT !.at = "checked"]]
  /\ UNCHANGED <<now, status, expires, enqueue, told>>

CheckPasses(h) ==
  /\ job[h].at = "read"
  /\ job[h].seen = "pending"
  /\ now <= job[h].limit
  /\ job' = [job EXCEPT ![h] = [@ EXCEPT !.at = "checked"]]
  /\ UNCHANGED <<now, status, expires, enqueue, told>>

\* The UPDATE, whose WHERE clause names the token and not the status.
\* MUTANT: the handler answers before the UPDATE, which is then lost.
UpdateForgotten(h) ==
  /\ job[h].at = "checked"
  /\ UNCHANGED status
  /\ Answer(h, "ok")

Update(h) ==
  /\ job[h].at = "checked"
  /\ status' = [r \in Requests |-> IF r \in RowsWithToken(job[h].token)
                                   THEN job[h].next ELSE status[r]]
  /\ Answer(h, "ok")

UpdateFails(h) ==
  /\ job[h].at = "checked"
  /\ Answer(h, "store error")
  /\ UNCHANGED status

\* MUTANT: a used token gets no answer.
ResolveStepSilent(h) ==
  \/ ReadRow(h) \/ ReadNothing(h) \/ ReadFails(h)
  \/ CheckExpired(h) \/ CheckPasses(h)
  \/ Update(h) \/ UpdateFails(h)

ResolveStep(h) ==
  \/ ReadRow(h) \/ ReadNothing(h) \/ ReadFails(h)
  \/ CheckUsed(h) \/ CheckExpired(h) \/ CheckPasses(h)
  \/ Update(h) \/ UpdateFails(h)
-----------------------------------------------------------------------------
\* Status(statusToken): one SELECT, by whoever holds the status token.
CheckStatus(r) ==
  /\ status[r] # "absent"
  /\ told' = [told EXCEPT ![r] = status[r]]
  /\ UNCHANGED <<now, status, expires, enqueue, job>>

Tick ==
  /\ now < Horizon
  /\ now' = now + 1
  /\ UNCHANGED <<status, expires, enqueue, told, job>>

\* The process stops and starts again: rows survive, calls in flight do not.
Restart ==
  /\ enqueue' = [r \in Requests |-> IF enqueue[r] = "stamped" THEN "lost"
                                    ELSE enqueue[r]]
  /\ job' = [h \in Handlers |-> IdleJob]
  /\ UNCHANGED <<now, status, expires, told>>

Next ==
  \/ \E r \in Requests : Stamp(r) \/ Insert(r) \/ InsertFails(r)
  \/ \E r \in Requests : CheckStatus(r)
  \/ \E h \in Handlers, r \in Requests, d \in Decision :
       Call(h, r, Token(r), d) \/ Call(h, r, StatusToken(r), d)
  \/ \E h \in Handlers : ResolveStep(h)
  \/ Tick
  \/ Restart

Spec == Init /\ [][Next]_vars

\* A handler the Go scheduler runs reaches its end: SQLite answers or errs.
FairSpec == Spec /\ \A h \in Handlers : WF_vars(ResolveStep(h))
-----------------------------------------------------------------------------
(* Properties *)

Ok(h) == job[h].at = "done" /\ job[h].result = "ok"

(* A confirm or deny POST that arrives after its request was decided never  *)
(* succeeds, whatever runs beside it: only resolutions already in flight    *)
(* can get past the status check of resolve.                                *)
UsedTokenStaysUsed ==
  \A h \in Handlers : Ok(h) => job[h].before = "pending"

(* A POST that arrives after its token expired never succeeds, even though *)
(* the clock is read once more after the SELECT and never at the UPDATE.   *)
ExpiredTokenStaysExpired ==
  \A h \in Handlers : Ok(h) => ~job[h].lapsed

(* The identifier the requester holds never resolves the request: a status *)
(* token posted to /confirm or /deny matches no row's token column.        *)
StatusTokenNeverResolves ==
  \A h \in Handlers : Ok(h) => job[h].token.column = "token"

(* A requester once told that the request was decided is never again told  *)
(* that it is pending, across restarts and overlapping resolutions.        *)
ToldNeverReopens ==
  [][\A r \in Requests : told[r] \in Decision => told'[r] \in Decision]_vars

(* What the provider was told is what the row says, from then on: after    *)
(* "Request confirmed." the row is confirmed.  Holds without overlap.      *)
ReplyMatchesRow ==
  \A h \in Handlers : Ok(h) =>
    \E r \in Requests : job[h].token = Token(r) /\ status[r] = job[h].next

(* A confirm/deny token works once: no two calls with one token succeed.   *)
SingleUse ==
  \A g, h \in Handlers :
    g # h /\ Ok(g) /\ Ok(h) => job[g].token # job[h].token

(* Every resolution that starts is answered, unless the process stops.     *)
ResolutionAnswered ==
  \A h \in Handlers :
    job[h].at \in Active ~> job[h].at \notin Active

\* A pending request may be decided until the clock passes its expiry, and by
\* a handler that checked the clock before that.
Open ==
  {r \in Requests :
     /\ status[r] = "pending"
     /\ \/ now <= expires[r]
        \/ \E h \in Handlers : job[h].at = "checked" /\ job[h].token = Token(r)}

Lifecycle == INSTANCE BookingLifecycle WITH open <- Open

(* Without overlap the store implements BookingLifecycle: one decision per *)
(* request, only while it is open, and truthful status answers.            *)
ImplementsLifecycle == Lifecycle!Spec
=============================================================================
