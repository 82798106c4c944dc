------------------------------- MODULE RateLimit -------------------------------
(***************************************************************************)
(* internal/endpoint/ratelimit.go: one token bucket per client, filled     *)
(* lazily when its client asks, and dropped by a sweep when its client has *)
(* not asked for a while.  A handler reads the clock before it takes the   *)
(* limiter's lock.  One process: a restart starts with no buckets.         *)
(*                                                                         *)
(* The bucket itself is golang.org/x/time/rate.Limiter.  Its tokens are    *)
(* fractions; here they are counted in units, of which a request costs     *)
(* Cost, so that rates below one request per tick are whole numbers.       *)
(***************************************************************************)
EXTENDS Naturals, FiniteSetsExt

CONSTANTS
  Clients,    \* the keys clientIP yields
  Handlers,   \* concurrent requests
  Rates,      \* the values of rps: units per clock tick; 0 disables limiting
  Cost,       \* units per request
  Burst,      \* burst, in requests
  TTL,        \* rateLimitVisitorTTL, in ticks
  Horizon     \* bound: the clock stops here

ASSUME RateAssumption ==
  /\ Rates \subseteq Nat /\ Cost \in Nat \ {0} /\ Burst \in Nat
  /\ TTL \in Nat /\ Horizon \in Nat

VARIABLES
  rps,        \* chosen at start
  clock,      \* what now reads
  visitors,   \* visitors[c]: c's bucket, or Absent
  lastSweep,  \* when the sweep last ran; swept is lastSweep.IsZero's negation
  swept,
  job,        \* job[h]: the request in allow, between the clock and the lock
  latest,     \* history: the latest clock reading that was decided
  late,       \* history: by how much c's requests were overtaken, in all
  refused,    \* history: the reading of c's last request, if it was refused
  allowed     \* history: allowed[c][t], requests of c allowed by reading t or before

limiter == <<visitors, lastSweep, swept>>
history == <<latest, late, refused, allowed>>
vars == <<rps, clock, limiter, job, history>>

Full == Burst * Cost
Visitor == [there : {TRUE}, tokens : 0 .. Full, last : 0 .. Horizon,
            lastSeen : 0 .. Horizon]
Absent == [there |-> FALSE]
NoJob == [at |-> "idle"]
Job == [at : {"stamped"}, client : Clients, now : 0 .. Horizon]

TypeOK ==
  /\ rps \in Rates
  /\ clock \in 0 .. Horizon
  /\ visitors \in [Clients -> Visitor \cup {Absent}]
  /\ lastSweep \in 0 .. Horizon /\ swept \in BOOLEAN
  /\ job \in [Handlers -> Job \cup {NoJob}]
  /\ latest \in 0 .. Horizon
  /\ late \in [Clients -> Nat]
  /\ refused \in [Clients -> SUBSET (0 .. Horizon)]
  /\ allowed \in [Clients -> [0 .. Horizon -> Nat]]

Init ==
  /\ rps \in Rates
  /\ clock = 0
  /\ visitors = [c \in Clients |-> Absent]
  /\ lastSweep = 0 /\ swept = FALSE
  /\ job = [h \in Handlers |-> NoJob]
  /\ latest = 0
  /\ late = [c \in Clients |-> 0]
  /\ refused = [c \in Clients |-> {}]
  /\ allowed = [c \in Clients |-> [t \in 0 .. Horizon |-> 0]]
-----------------------------------------------------------------------------
(* rate.Limiter, and the map of them *)

\* advance: the tokens with those of the time since last, none if now is
\* before it.
Refilled(v, now) ==
  Min({Full, v.tokens + (IF now > v.last THEN rps * (now - v.last) ELSE 0)})

\* MUTANT: the sweep empties the map.
KeptNone(now) ==
  [c \in Clients |-> IF swept /\ now > lastSweep + TTL THEN Absent
                     ELSE visitors[c]]

\* The sweep drops the buckets of clients not seen for longer than ttl.
Kept(now) ==
  [c \in Clients |-> IF /\ swept /\ now > lastSweep + TTL
                        /\ visitors[c].there /\ now > visitors[c].lastSeen + TTL
                     THEN Absent
                     ELSE visitors[c]]

\* The client's bucket, or a new one, full.
Bucket(c, now) ==
  IF Kept(now)[c].there THEN Kept(now)[c]
  ELSE [there |-> TRUE, tokens |-> Full, last |-> now, lastSeen |-> now]
-----------------------------------------------------------------------------
(* allow *)

\* The handler reads the clock, and then waits for the lock.
Arrive(h, c) ==
  /\ job[h] = NoJob
  /\ job' = [job EXCEPT ![h] = [at |-> "stamped", client |-> c, now |-> clock]]
  /\ UNCHANGED <<rps, clock, limiter, history>>

\* The locked section: sweep if one is due, leave v as c's bucket.
Decide(h, c, now, v) ==
  /\ job[h] = [at |-> "stamped", client |-> c, now |-> now]
  /\ job' = [job EXCEPT ![h] = NoJob]
  /\ visitors' = [Kept(now) EXCEPT ![c] = [v EXCEPT !.lastSeen = now]]
  /\ lastSweep' = IF ~swept \/ now > lastSweep + TTL THEN now ELSE lastSweep
  /\ swept' = TRUE
  /\ latest' = IF now > latest THEN now ELSE latest
  /\ late' = [late EXCEPT ![c] = @ + (IF now < latest THEN latest - now ELSE 0)]
  /\ UNCHANGED <<rps, clock>>

\* History of a request that the limiter let through.
Record(c, now) ==
  /\ allowed' = [allowed EXCEPT ![c] = [t \in 0 .. Horizon |->
                                          IF t >= now THEN @[t] + 1 ELSE @[t]]]
  /\ refused' = [refused EXCEPT ![c] = {}]

\* MUTANT: a request is let through while there is any token left at all.
AllowLastDrop(h, c, now) ==
  LET v == Bucket(c, now)
      tokens == Refilled(v, now)
  IN  /\ rps > 0 /\ tokens > 0
      /\ Decide(h, c, now, [v EXCEPT !.tokens = tokens - Cost, !.last = now])
      /\ Record(c, now)

\* last becomes now even if now is the earlier one.
Allow(h, c, now) ==
  LET v == Bucket(c, now)
      tokens == Refilled(v, now)
  IN  /\ rps > 0 /\ tokens >= Cost
      /\ Decide(h, c, now, [v EXCEPT !.tokens = tokens - Cost, !.last = now])
      /\ Record(c, now)

\* rate.Inf: the bucket's tokens are neither read nor changed.
AllowUnlimited(h, c, now) ==
  /\ rps = 0
  /\ Decide(h, c, now, Bucket(c, now))
  /\ UNCHANGED <<allowed, refused>>

\* MUTANT: a refused request starts the wait for the next token over.
RefuseRestarts(h, c, now) ==
  LET v == Bucket(c, now)
  IN  /\ rps > 0 /\ Refilled(v, now) < Cost
      /\ Decide(h, c, now, [v EXCEPT !.last = now])
      /\ refused' = [refused EXCEPT ![c] = {now}]
      /\ UNCHANGED allowed

\* 429: the bucket keeps its tokens and the time they are from.
Refuse(h, c, now) ==
  LET v == Bucket(c, now)
  IN  /\ rps > 0 /\ Refilled(v, now) < Cost
      /\ Decide(h, c, now, v)
      /\ refused' = [refused EXCEPT ![c] = {now}]
      /\ UNCHANGED allowed

Tick ==
  /\ clock < Horizon
  /\ clock' = clock + 1
  /\ UNCHANGED <<rps, limiter, job, history>>

Next ==
  \/ \E h \in Handlers, c \in Clients : Arrive(h, c)
  \/ \E h \in Handlers, c \in Clients, now \in 0 .. Horizon :
       Allow(h, c, now) \/ AllowUnlimited(h, c, now) \/ Refuse(h, c, now)
  \/ Tick

Spec == Init /\ [][Next]_vars
-----------------------------------------------------------------------------
(* Properties *)

\* Requests of c allowed by readings s to t.
AllowedIn(c, s, t) == allowed[c][t] - (IF s = 0 THEN 0 ELSE allowed[c][s - 1])

(* Over no stretch of time is a client allowed more than burst requests and *)
(* what the rate adds in that time, buckets dropped and made anew included, *)
(* if the ttl is long enough to fill a bucket.  A request that waits for    *)
(* the lock while later ones are decided turns its bucket's clock back, and *)
(* the client earns that time twice: no more than that is lost.             *)
RateHolds ==
  rps > 0 /\ rps * TTL >= Full =>
    \A c \in Clients : \A s, t \in 0 .. latest : s <= t =>
      Cost * AllowedIn(c, s, t) <= Full + rps * (t - s + late[c])

(* A client none of whose requests was overtaken is only refused when one   *)
(* more would have broken that bound for its own requests: neither other    *)
(* clients nor the client's own refused requests use up what it may send.   *)
NoUnfairRefusal ==
  \A c \in Clients : \A r \in refused[c] : late[c] = 0 =>
    \E s \in 0 .. r :
      Cost * (AllowedIn(c, s, r) + 1) > Full + rps * (r - s)
=============================================================================
