---------------------------- MODULE RateLimitProofs ----------------------------
(***************************************************************************)
(* TLAPS proofs about RateLimit, for any clients, handlers, rates, burst,  *)
(* ttl and length of time: its types, that no client gets more than its    *)
(* rate, and that none is refused within it.                               *)
(***************************************************************************)
EXTENDS RateLimit, Integers, TLAPS

(* Arithmetic.  Products stay closed: only their sums matter.               *)
Price(n) == Cost * n
Earned(n) == rps * n
Capped(n) == IF n < Full THEN n ELSE Full

LEMMA FullType == Full \in Nat /\ Cost \in Nat /\ Cost > 0 /\ Horizon \in Nat /\ TTL \in Nat
BY RateAssumption DEF Full

LEMMA PriceIs ==
  /\ \A n \in Int : Price(n) \in Int
  /\ \A m, n \in Int : Price(m + n) = Price(m) + Price(n) /\ (m <= n => Price(m) <= Price(n))
  /\ Price(0) = 0 /\ Price(1) = Cost
<1>1. \A n \in Int : Price(n) \in Int
  BY FullType DEF Price
<1>2. \A m, n \in Int : Price(m + n) = Price(m) + Price(n)
  BY FullType DEF Price
<1>3. \A m, n \in Int : m <= n => Price(m) <= Price(n)
  BY FullType DEF Price
<1>4. Price(0) = 0 /\ Price(1) = Cost
  BY FullType DEF Price
<1> QED BY <1>1, <1>2, <1>3, <1>4

LEMMA EarnedIs ==
  ASSUME rps \in Nat
  PROVE  /\ \A n \in Int : Earned(n) \in Int
         /\ \A m, n \in Int : Earned(m + n) = Earned(m) + Earned(n)
         /\ \A m, n \in Int : m <= n => Earned(m) <= Earned(n)
         /\ Earned(0) = 0
<1>1. \A n \in Int : Earned(n) \in Int
  BY DEF Earned
<1>2. \A m, n \in Int : Earned(m + n) = Earned(m) + Earned(n)
  BY DEF Earned
<1>3. \A m, n \in Int : m <= n => Earned(m) <= Earned(n)
  BY DEF Earned
<1>4. Earned(0) = 0
  BY DEF Earned
<1> QED BY <1>1, <1>2, <1>3, <1>4

LEMMA LesserIs == \A m, n \in Int : Min({m, n}) = IF n < m THEN n ELSE m
<1> SUFFICES ASSUME NEW m \in Int, NEW n \in Int
             PROVE  Min({m, n}) = IF n < m THEN n ELSE m
  OBVIOUS
<1> DEFINE l == IF n < m THEN n ELSE m
<1>1. l \in {m, n} /\ \A y \in {m, n} : l <= y
  OBVIOUS
<1>2. \A x \in {m, n} : (\A y \in {m, n} : x <= y) => x = l
  OBVIOUS
<1> QED BY <1>1, <1>2 DEF Min

LEMMA GapIs == \A m, n \in Int : m <= n => n - m \in Nat
OBVIOUS
-----------------------------------------------------------------------------
(* Types *)

LEMMA RpsType == ASSUME TypeOK PROVE rps \in Nat
BY RateAssumption DEF TypeOK

LEMMA RefilledIs ==
  ASSUME TypeOK, NEW v \in Visitor, NEW now \in 0 .. Horizon
  PROVE  /\ Refilled(v, now) \in 0 .. Full
         /\ Refilled(v, now) =
              Capped(v.tokens + (IF now > v.last THEN Earned(now - v.last) ELSE 0))
<1> DEFINE n == IF now > v.last THEN Earned(now - v.last) ELSE 0
           m == v.tokens + n
<1>1. v.tokens \in 0 .. Full /\ v.last \in 0 .. Horizon
  BY DEF Visitor
<1>2. n \in Int /\ n >= 0
  <2> DEFINE gap == now - v.last
  <2>1. gap \in Int /\ (now > v.last => 0 <= gap)
    BY <1>1, FullType
  <2> HIDE DEF gap
  <2>2. Earned(gap) \in Int /\ (now > v.last => Earned(0) <= Earned(gap)) /\ Earned(0) = 0
    <3>1. rps \in Nat /\ 0 \in Int
      BY RpsType
    <3>2. Earned(gap) \in Int /\ Earned(0) = 0
      BY <2>1, <3>1, EarnedIs
    <3>3. 0 <= gap => Earned(0) <= Earned(gap)
      BY <2>1, <3>1, EarnedIs
    <3> QED BY <2>1, <3>2, <3>3
  <2>3. n = IF now > v.last THEN Earned(gap) ELSE 0
    BY DEF gap
  <2> HIDE DEF n
  <2> QED BY <2>2, <2>3
<1>3. Refilled(v, now) = Min({Full, m})
  BY DEF Refilled, Earned
<1> HIDE DEF n
<1>4. m \in Int /\ m >= 0
  BY <1>1, <1>2, FullType
<1> HIDE DEF m
<1>5. Min({Full, m}) = IF m < Full THEN m ELSE Full
  BY <1>4, FullType, LesserIs
<1> QED BY <1>3, <1>4, <1>5, FullType DEF Capped, m, n

LEMMA KeptType ==
  ASSUME TypeOK, NEW now
  PROVE  /\ Kept(now) \in [Clients -> Visitor \cup {Absent}]
         /\ \A c \in Clients :
              \/ Kept(now)[c] = visitors[c]
              \/ /\ Kept(now)[c] = Absent
                 /\ visitors[c].there /\ now > visitors[c].lastSeen + TTL
BY DEF TypeOK, Kept

LEMMA ThereIs ==
  /\ \A v \in Visitor \cup {Absent} : v.there <=> v \in Visitor
  /\ \A v \in Visitor \cup {Absent} : ~v.there => v = Absent
<1>1. \A v \in Visitor : v.there = TRUE
  BY DEF Visitor
<1>2. Absent.there = FALSE
  BY DEF Absent
<1>3. Absent \notin Visitor
  BY <1>1, <1>2
<1> QED BY <1>1, <1>2, <1>3

LEMMA BucketIs ==
  ASSUME TypeOK, NEW c \in Clients, NEW now \in 0 .. Horizon
  PROVE  /\ Bucket(c, now) \in Visitor
         /\ \/ visitors[c].there /\ Bucket(c, now) = visitors[c]
            \/ /\ ~visitors[c].there \/ now > visitors[c].lastSeen + TTL
               /\ Bucket(c, now).tokens = Full
               /\ Bucket(c, now).last = now /\ Bucket(c, now).lastSeen = now
<1> DEFINE new == [there |-> TRUE, tokens |-> Full, last |-> now, lastSeen |-> now]
<1>1. new \in Visitor
  BY FullType DEF Visitor
<1>2. Kept(now)[c] \in Visitor \cup {Absent}
  BY KeptType
<1>3. CASE Kept(now)[c].there
  <2>1. Bucket(c, now) = Kept(now)[c] /\ Kept(now)[c] \in Visitor
    BY <1>2, <1>3, ThereIs DEF Bucket
  <2>2. Kept(now)[c] = visitors[c]
    BY <1>3, KeptType, ThereIs DEF Absent
  <2> QED BY <1>3, <2>1, <2>2
<1>4. CASE ~Kept(now)[c].there
  <2>1. Bucket(c, now) = new
    BY <1>4 DEF Bucket
  <2>2. ~visitors[c].there \/ now > visitors[c].lastSeen + TTL
    BY <1>4, KeptType
  <2>3. new.tokens = Full /\ new.last = now /\ new.lastSeen = now
    OBVIOUS
  <2> HIDE DEF new
  <2> QED BY <1>1, <2>1, <2>2, <2>3
<1> QED BY <1>3, <1>4

(* The locked section, for the bucket it leaves.                            *)
LEMMA DecideIs ==
  ASSUME TypeOK, NEW h \in Handlers, NEW c \in Clients, NEW now \in 0 .. Horizon,
         NEW v \in Visitor, Decide(h, c, now, v)
  PROVE  /\ visitors' \in [Clients -> Visitor \cup {Absent}]
         /\ visitors'[c].there /\ visitors'[c].tokens = v.tokens
         /\ visitors'[c].last = v.last /\ visitors'[c].lastSeen = now
         /\ \A d \in Clients \ {c} :
              \/ visitors'[d] = visitors[d]
              \/ /\ visitors'[d] = Absent
                 /\ visitors[d].there /\ now > visitors[d].lastSeen + TTL
         /\ latest' \in latest .. Horizon /\ now <= latest' /\ latest' \in {now, latest}
         /\ late' \in [Clients -> Nat] /\ late'[c] = late[c] + (latest' - now)
         /\ \A d \in Clients \ {c} : late'[d] = late[d]
         /\ rps' = rps /\ clock' = clock
         /\ job' \in [Handlers -> Job \cup {NoJob}]
         /\ lastSweep' \in 0 .. Horizon /\ swept' \in BOOLEAN
<1> DEFINE w == [v EXCEPT !.lastSeen = now]
<1>1. /\ w \in Visitor /\ w.tokens = v.tokens /\ w.last = v.last /\ w.lastSeen = now
  BY DEF Visitor
<1>2. w.there
  BY <1>1, ThereIs
<1> HIDE DEF w
<1>3. visitors' = [Kept(now) EXCEPT ![c] = w]
  BY DEF Decide, w
<1>4. visitors' \in [Clients -> Visitor \cup {Absent}] /\ visitors'[c] = w
      /\ \A d \in Clients \ {c} : visitors'[d] = Kept(now)[d]
  BY <1>1, <1>3, KeptType
<1>5. /\ latest' \in latest .. Horizon /\ now <= latest' /\ latest' \in {now, latest}
  BY FullType DEF Decide, TypeOK
<1>6. /\ late' \in [Clients -> Nat] /\ late'[c] = late[c] + (latest' - now)
      /\ \A d \in Clients \ {c} : late'[d] = late[d]
  <2> DEFINE more == IF now < latest THEN latest - now ELSE 0
  <2>1. late' = [late EXCEPT ![c] = @ + more] /\ late \in [Clients -> Nat]
    BY DEF Decide, TypeOK
  <2>2. more \in Nat /\ more = latest' - now
    BY FullType DEF Decide, TypeOK
  <2> HIDE DEF more
  <2> QED BY <2>1, <2>2
<1>7. job' \in [Handlers -> Job \cup {NoJob}]
  BY DEF Decide, TypeOK
<1>8. /\ rps' = rps /\ clock' = clock /\ lastSweep' \in 0 .. Horizon /\ swept' \in BOOLEAN
  BY DEF Decide, TypeOK
<1> QED BY <1>1, <1>2, <1>4, <1>5, <1>6, <1>7, <1>8, KeptType

LEMMA RecordIs ==
  ASSUME TypeOK, NEW c \in Clients, NEW now \in 0 .. Horizon, Record(c, now)
  PROVE  /\ allowed' \in [Clients -> [0 .. Horizon -> Nat]]
         /\ refused' \in [Clients -> SUBSET (0 .. Horizon)] /\ refused'[c] = {}
         /\ \A t \in 0 .. Horizon :
              allowed'[c][t] = IF t >= now THEN allowed[c][t] + 1 ELSE allowed[c][t]
         /\ \A d \in Clients \ {c} : allowed'[d] = allowed[d] /\ refused'[d] = refused[d]
<1> DEFINE more == [t \in 0 .. Horizon |-> IF t >= now THEN allowed[c][t] + 1 ELSE allowed[c][t]]
<1>1. allowed \in [Clients -> [0 .. Horizon -> Nat]] /\ refused \in [Clients -> SUBSET (0 .. Horizon)]
  BY DEF TypeOK
<1>2. allowed' = [allowed EXCEPT ![c] = more] /\ refused' = [refused EXCEPT ![c] = {}]
  BY <1>1 DEF Record
<1>3. more \in [0 .. Horizon -> Nat]
  <2> SUFFICES ASSUME NEW t \in 0 .. Horizon
               PROVE  (IF t >= now THEN allowed[c][t] + 1 ELSE allowed[c][t]) \in Nat
    OBVIOUS
  <2>1. allowed[c][t] \in Nat
    BY <1>1
  <2> QED BY <2>1
<1>4. \A t \in 0 .. Horizon : more[t] = IF t >= now THEN allowed[c][t] + 1 ELSE allowed[c][t]
  OBVIOUS
<1> HIDE DEF more
<1> QED BY <1>1, <1>2, <1>3, <1>4
-----------------------------------------------------------------------------
(* Every variable keeps its type: a bucket never holds more than Full or     *)
(* less than nothing, and neither its stamps nor the history run past the    *)
(* clock's end.                                                              *)

LEMMA InitType == Init => TypeOK
<1> SUFFICES ASSUME Init PROVE TypeOK
  OBVIOUS
<1> USE DEF Init
<1>1. rps \in Rates /\ clock \in 0 .. Horizon /\ latest \in 0 .. Horizon
  BY FullType
<1>6. lastSweep \in 0 .. Horizon /\ swept \in BOOLEAN
  <2>1. lastSweep \in 0 .. Horizon
    BY FullType
  <2>2. swept \in BOOLEAN
    OBVIOUS
  <2> QED BY <2>1, <2>2
<1>2. visitors \in [Clients -> Visitor \cup {Absent}] /\ job \in [Handlers -> Job \cup {NoJob}]
  OBVIOUS
<1>3. late \in [Clients -> Nat] /\ refused \in [Clients -> SUBSET (0 .. Horizon)]
  OBVIOUS
<1>4. [t \in 0 .. Horizon |-> 0] \in [0 .. Horizon -> Nat]
  OBVIOUS
<1>5. allowed \in [Clients -> [0 .. Horizon -> Nat]]
  BY <1>4
<1> QED BY <1>1, <1>2, <1>3, <1>5, <1>6 DEF TypeOK

LEMMA ArriveType ==
  ASSUME TypeOK, NEW h \in Handlers, NEW c \in Clients, Arrive(h, c)
  PROVE  TypeOK'
<1> DEFINE new == [at |-> "stamped", client |-> c, now |-> clock]
<1>1. new \in Job
  BY DEF Job, TypeOK
<1>2. job' = [job EXCEPT ![h] = new] /\ job \in [Handlers -> Job \cup {NoJob}]
  BY DEF Arrive, TypeOK
<1> HIDE DEF new
<1>3. job' \in [Handlers -> Job \cup {NoJob}]
  BY <1>1, <1>2
<1> QED BY <1>3 DEF Arrive, TypeOK, limiter, history

\* The bucket that an allowed request leaves.
Spent(v, now) == [v EXCEPT !.tokens = Refilled(v, now) - Cost, !.last = now]

LEMMA SpentIs ==
  ASSUME TypeOK, NEW v \in Visitor, NEW now \in 0 .. Horizon, Refilled(v, now) >= Cost
  PROVE  /\ Spent(v, now) \in Visitor
         /\ Spent(v, now).tokens = Refilled(v, now) - Cost
         /\ Spent(v, now).last = now
<1> DEFINE k == Refilled(v, now) - Cost
<1>1. k \in 0 .. Full
  <2> DEFINE r == Refilled(v, now)
  <2>1. r \in 0 .. Full /\ r >= Cost
    BY RefilledIs
  <2> HIDE DEF r
  <2>2. r - Cost \in 0 .. Full
    BY <2>1, FullType
  <2> QED BY <2>2 DEF r
<1>2. Spent(v, now) = [v EXCEPT !.tokens = k, !.last = now]
  BY DEF Spent
<1> HIDE DEF k
<1>3. Spent(v, now) \in Visitor /\ Spent(v, now).tokens = k /\ Spent(v, now).last = now
  BY <1>1, <1>2 DEF Visitor
<1> QED BY <1>3 DEF k

LEMMA DecideType ==
  ASSUME TypeOK, NEW h \in Handlers, NEW c \in Clients, NEW now \in 0 .. Horizon,
         NEW v \in Visitor, Decide(h, c, now, v),
         allowed' \in [Clients -> [0 .. Horizon -> Nat]],
         refused' \in [Clients -> SUBSET (0 .. Horizon)]
  PROVE  TypeOK'
<1>1. /\ visitors' \in [Clients -> Visitor \cup {Absent}]
      /\ latest' \in latest .. Horizon /\ late' \in [Clients -> Nat]
      /\ rps' = rps /\ clock' = clock /\ job' \in [Handlers -> Job \cup {NoJob}]
      /\ lastSweep' \in 0 .. Horizon /\ swept' \in BOOLEAN
  BY DecideIs
<1>2. rps \in Rates /\ clock \in 0 .. Horizon /\ latest \in 0 .. Horizon
  BY DEF TypeOK
<1>3. latest' \in 0 .. Horizon
  BY <1>1, <1>2, FullType
<1> QED BY <1>1, <1>2, <1>3 DEF TypeOK

LEMMA NextType == TypeOK /\ [Next]_vars => TypeOK'
<1> SUFFICES ASSUME TypeOK, [Next]_vars PROVE TypeOK'
  OBVIOUS
<1>1. ASSUME NEW h \in Handlers, NEW c \in Clients, Arrive(h, c)
      PROVE  TypeOK'
  BY <1>1, ArriveType
<1>2. ASSUME NEW h \in Handlers, NEW c \in Clients, NEW now \in 0 .. Horizon, Allow(h, c, now)
      PROVE  TypeOK'
  <2> DEFINE v == Bucket(c, now)
  <2>1. v \in Visitor /\ Refilled(v, now) >= Cost
        /\ Decide(h, c, now, Spent(v, now)) /\ Record(c, now)
    BY <1>2, BucketIs DEF Allow, Spent
  <2> HIDE DEF v
  <2>2. Spent(v, now) \in Visitor
    BY <2>1, SpentIs
  <2>3. allowed' \in [Clients -> [0 .. Horizon -> Nat]] /\ refused' \in [Clients -> SUBSET (0 .. Horizon)]
    BY <2>1, RecordIs
  <2> DEFINE w == Spent(v, now)
  <2>4. w \in Visitor /\ Decide(h, c, now, w)
    BY <2>1, <2>2
  <2> HIDE DEF w
  <2> QED BY <2>3, <2>4, DecideType
<1>3. ASSUME NEW h \in Handlers, NEW c \in Clients, NEW now \in 0 .. Horizon,
             AllowUnlimited(h, c, now)
      PROVE  TypeOK'
  <2> DEFINE v == Bucket(c, now)
  <2>1. v \in Visitor /\ Decide(h, c, now, v) /\ allowed' = allowed /\ refused' = refused
    BY <1>3, BucketIs DEF AllowUnlimited
  <2> HIDE DEF v
  <2>2. allowed' \in [Clients -> [0 .. Horizon -> Nat]] /\ refused' \in [Clients -> SUBSET (0 .. Horizon)]
    BY <2>1 DEF TypeOK
  <2> QED BY <2>1, <2>2, DecideType
<1>4. ASSUME NEW h \in Handlers, NEW c \in Clients, NEW now \in 0 .. Horizon, Refuse(h, c, now)
      PROVE  TypeOK'
  <2> DEFINE v == Bucket(c, now)
  <2>1. v \in Visitor /\ Decide(h, c, now, v) /\ allowed' = allowed
        /\ refused' = [refused EXCEPT ![c] = {now}]
    BY <1>4, BucketIs DEF Refuse
  <2> HIDE DEF v
  <2>2. allowed' \in [Clients -> [0 .. Horizon -> Nat]] /\ refused' \in [Clients -> SUBSET (0 .. Horizon)]
    BY <2>1 DEF TypeOK
  <2> QED BY <2>1, <2>2, DecideType
<1>5. CASE Tick
  BY <1>5, FullType DEF Tick, TypeOK, limiter, history
<1>6. CASE UNCHANGED vars
  BY <1>6 DEF vars, TypeOK, limiter, history
<1> QED BY <1>1, <1>2, <1>3, <1>4, <1>5, <1>6 DEF Next

THEOREM TypeCorrect == Spec => []TypeOK
<1>1. Init => TypeOK
  BY InitType
<1>2. TypeOK /\ [Next]_vars => TypeOK'
  BY NextType
<1> QED BY <1>1, <1>2, PTL DEF Spec
-----------------------------------------------------------------------------
(* The inductive invariant, in two halves that rest on the same ground.     *)
(* The ground: the history is a ledger that grows with the reading, and the *)
(* stamps of a bucket are readings that were decided.  On it RateInv says   *)
(* that what a client was allowed and what its bucket is worth are paid for *)
(* by one bucket and the rate; NoneLost, that its bucket still has what was *)
(* not spent.                                                               *)

\* Requests of c allowed by any reading.
Total(c) == allowed[c][Horizon]

\* allowed[c] grows with the reading, up to the latest decided.
Ledger ==
  \A c \in Clients :
    /\ \A s, t \in 0 .. Horizon : s <= t => allowed[c][s] <= allowed[c][t]
    /\ \A t \in latest .. Horizon : allowed[c][t] = Total(c)

Present(c) == visitors[c].there

\* Buckets are no younger than the latest decision.
Stamped ==
  \A c \in Clients : Present(c) => visitors[c].last <= latest /\ visitors[c].lastSeen <= latest

\* What a decision does: nothing else touches buckets or history.
Decided(h, c, now) ==
  \/ Allow(h, c, now)
  \/ AllowUnlimited(h, c, now)
  \/ Refuse(h, c, now)

LEMMA StepIs ==
  ASSUME [Next]_vars
  PROVE  \/ UNCHANGED <<rps, limiter, history>>
         \/ \E h \in Handlers, c \in Clients, now \in 0 .. Horizon : Decided(h, c, now)
BY DEF Next, vars, limiter, history, Arrive, Tick, Decided

\* The bucket and the clocks after a decision: v is what the client's bucket was.
LEMMA DecidedIs ==
  ASSUME TypeOK, NEW h \in Handlers, NEW c \in Clients, NEW now \in 0 .. Horizon,
         Decided(h, c, now)
  PROVE  /\ Present(c)' /\ visitors'[c].lastSeen = now
         /\ visitors'[c].last \in {now, Bucket(c, now).last}
         /\ \A d \in Clients \ {c} :
              \/ visitors'[d] = visitors[d]
              \/ ~Present(d)' /\ Present(d) /\ now > visitors[d].lastSeen + TTL
         /\ latest' \in latest .. Horizon /\ now <= latest' /\ latest' \in {now, latest}
         /\ late' \in [Clients -> Nat] /\ late'[c] = late[c] + (latest' - now)
         /\ \A d \in Clients \ {c} :
              late'[d] = late[d] /\ allowed'[d] = allowed[d] /\ refused'[d] = refused[d]
         /\ rps' = rps
<1> DEFINE v == Bucket(c, now)
<1>1. v \in Visitor
  BY BucketIs
<1> HIDE DEF v
<1>2. \E w \in Visitor :
        Decide(h, c, now, w) /\ w.last \in {now, v.last}
  <2>1. CASE Allow(h, c, now)
    <3>1. Refilled(v, now) >= Cost /\ Decide(h, c, now, Spent(v, now))
      BY <2>1 DEF Allow, Spent, v
    <3>2. Spent(v, now) \in Visitor /\ Spent(v, now).last = now
      BY <1>1, <3>1, SpentIs
    <3> QED BY <3>1, <3>2
  <2>2. CASE AllowUnlimited(h, c, now)
    BY <1>1, <2>2 DEF AllowUnlimited, v
  <2>3. CASE Refuse(h, c, now)
    BY <1>1, <2>3 DEF Refuse, v
  <2> QED BY <2>1, <2>2, <2>3 DEF Decided
<1>3. \A d \in Clients \ {c} : allowed'[d] = allowed[d] /\ refused'[d] = refused[d]
  BY DEF Decided, Allow, AllowUnlimited, Refuse, Record, TypeOK
<1>4. PICK w \in Visitor : Decide(h, c, now, w) /\ w.last \in {now, v.last}
  BY <1>2
<1>5. Absent.there = FALSE
  BY DEF Absent
<1>6. /\ visitors'[c].there
      /\ visitors'[c].last = w.last /\ visitors'[c].lastSeen = now
      /\ \A d \in Clients \ {c} :
           \/ visitors'[d] = visitors[d]
           \/ /\ visitors'[d] = Absent
              /\ visitors[d].there /\ now > visitors[d].lastSeen + TTL
      /\ latest' \in latest .. Horizon /\ now <= latest' /\ latest' \in {now, latest}
      /\ late' \in [Clients -> Nat] /\ late'[c] = late[c] + (latest' - now)
      /\ \A d \in Clients \ {c} : late'[d] = late[d]
      /\ rps' = rps
  BY <1>4, DecideIs
<1> HIDE DEF v
<1>7. visitors'[c].last \in {now, v.last}
  BY <1>4, <1>6
<1>8. \A d \in Clients \ {c} :
        \/ visitors'[d] = visitors[d]
        \/ ~Present(d)' /\ Present(d) /\ now > visitors[d].lastSeen + TTL
  BY <1>5, <1>6 DEF Present
<1> QED BY <1>3, <1>6, <1>7, <1>8 DEF Present, v

LEMMA VisitorIs ==
  ASSUME TypeOK, NEW c \in Clients, Present(c)
  PROVE  /\ visitors[c] \in Visitor
         /\ visitors[c].tokens \in 0 .. Full
         /\ visitors[c].last \in 0 .. Horizon /\ visitors[c].lastSeen \in 0 .. Horizon
<1>1. visitors[c] \in Visitor
  BY ThereIs DEF TypeOK, Present
<1> QED BY <1>1 DEF Visitor

LEMMA StampedStep == TypeOK /\ Stamped /\ [Next]_vars => Stamped'
<1> SUFFICES ASSUME TypeOK, Stamped, [Next]_vars, NEW d \in Clients, Present(d)'
             PROVE  visitors'[d].last <= latest' /\ visitors'[d].lastSeen <= latest'
  BY DEF Stamped, Present
<1>1. CASE UNCHANGED <<rps, limiter, history>>
  BY <1>1 DEF Stamped, Present, limiter, history
<1>2. ASSUME NEW h \in Handlers, NEW c \in Clients, NEW now \in 0 .. Horizon, Decided(h, c, now)
      PROVE  visitors'[d].last <= latest' /\ visitors'[d].lastSeen <= latest'
  <2>1. latest' \in latest .. Horizon /\ now <= latest' /\ latest \in 0 .. Horizon
    BY <1>2, DecidedIs DEF TypeOK
  <2>2. CASE d = c
    <3>1. visitors'[c].lastSeen = now /\ visitors'[c].last \in {now, Bucket(c, now).last}
      BY <1>2, DecidedIs
    <3>2. Bucket(c, now).last <= latest'
      <4>1. CASE visitors[c].there /\ Bucket(c, now) = visitors[c]
        <5>1. visitors[c].last <= latest /\ visitors[c].last \in 0 .. Horizon
          BY <4>1, VisitorIs DEF Stamped, Present
        <5> QED BY <4>1, <5>1, <2>1, FullType
      <4>2. CASE Bucket(c, now).last = now
        BY <4>2, <2>1
      <4> QED BY <4>1, <4>2, BucketIs
    <3> QED BY <2>1, <2>2, <3>1, <3>2
  <2>3. CASE d # c
    <3>1. visitors'[d] = visitors[d] /\ Present(d)
      BY <1>2, <2>3, DecidedIs DEF Present
    <3>2. visitors[d].last <= latest /\ visitors[d].lastSeen <= latest
          /\ visitors[d].last \in 0 .. Horizon /\ visitors[d].lastSeen \in 0 .. Horizon
      BY <3>1, VisitorIs DEF Stamped
    <3> QED BY <2>1, <3>1, <3>2, FullType
  <2> QED BY <2>2, <2>3
<1> QED BY <1>1, <1>2, StepIs

LEMMA RecordedIs ==
  ASSUME TypeOK, NEW h \in Handlers, NEW c \in Clients, NEW now \in 0 .. Horizon,
         Decided(h, c, now)
  PROVE  \/ UNCHANGED allowed
         \/ \A t \in 0 .. Horizon :
              allowed'[c][t] = IF t >= now THEN allowed[c][t] + 1 ELSE allowed[c][t]
BY RecordIs DEF Decided, Allow, AllowUnlimited, Refuse

LEMMA LedgerStep == TypeOK /\ Ledger /\ [Next]_vars => Ledger'
<1> SUFFICES ASSUME TypeOK, Ledger, [Next]_vars, NEW d \in Clients
             PROVE  /\ \A s, t \in 0 .. Horizon : s <= t => allowed'[d][s] <= allowed'[d][t]
                    /\ \A t \in latest' .. Horizon : allowed'[d][t] = allowed'[d][Horizon]
  BY DEF Ledger, Total
<1>1. CASE UNCHANGED <<rps, limiter, history>>
  BY <1>1 DEF Ledger, Total, limiter, history
<1>2. ASSUME NEW h \in Handlers, NEW c \in Clients, NEW now \in 0 .. Horizon, Decided(h, c, now)
      PROVE  /\ \A s, t \in 0 .. Horizon : s <= t => allowed'[d][s] <= allowed'[d][t]
             /\ \A t \in latest' .. Horizon : allowed'[d][t] = allowed'[d][Horizon]
  <2>1. latest' \in latest .. Horizon /\ now <= latest' /\ latest \in 0 .. Horizon
    BY <1>2, DecidedIs DEF TypeOK
  <2>2. /\ \A s, t \in 0 .. Horizon : s <= t => allowed[d][s] <= allowed[d][t]
        /\ \A t \in latest' .. Horizon : allowed[d][t] = allowed[d][Horizon]
    BY <2>1, FullType DEF Ledger, Total
  <2>3. CASE allowed'[d] = allowed[d]
    BY <2>2, <2>3
  <2>4. CASE \A t \in 0 .. Horizon :
               allowed'[d][t] = IF t >= now THEN allowed[d][t] + 1 ELSE allowed[d][t]
    <3>1. \A t \in 0 .. Horizon : allowed[d][t] \in Nat
      BY DEF TypeOK
    <3>2. ASSUME NEW s \in 0 .. Horizon, NEW t \in 0 .. Horizon, s <= t
          PROVE  allowed'[d][s] <= allowed'[d][t]
      <4>1. allowed[d][s] \in Nat /\ allowed[d][t] \in Nat /\ allowed[d][s] <= allowed[d][t]
        BY <2>2, <3>1, <3>2
      <4>2. s \in Int /\ t \in Int /\ now \in Int
        BY FullType
      <4>3. /\ allowed'[d][s] = IF s >= now THEN allowed[d][s] + 1 ELSE allowed[d][s]
            /\ allowed'[d][t] = IF t >= now THEN allowed[d][t] + 1 ELSE allowed[d][t]
        BY <2>4
      <4> QED BY <3>2, <4>1, <4>2, <4>3
    <3>3. ASSUME NEW t \in latest' .. Horizon
          PROVE  allowed'[d][t] = allowed'[d][Horizon]
      <4>1. t \in 0 .. Horizon /\ t >= now /\ Horizon \in 0 .. Horizon /\ Horizon >= now
        BY <2>1, FullType
      <4> QED BY <2>2, <2>4, <4>1
    <3> QED BY <3>2, <3>3
  <2> QED BY <1>2, <2>3, <2>4, RecordedIs, DecidedIs
<1> QED BY <1>1, <1>2, StepIs

LEMMA LedgerInit == Init => Ledger /\ Stamped
<1> SUFFICES ASSUME Init PROVE Ledger /\ Stamped
  OBVIOUS
<1>1. \A c \in Clients : \A t \in 0 .. Horizon : allowed[c][t] = 0
  BY DEF Init
<1>2. latest = 0 /\ Horizon \in 0 .. Horizon
  BY FullType DEF Init
<1>3. Ledger
  BY <1>1, <1>2, FullType DEF Ledger, Total
<1>4. \A c \in Clients : visitors[c].there = FALSE
  BY DEF Init, Absent
<1> QED BY <1>3, <1>4 DEF Stamped, Present
-----------------------------------------------------------------------------
(* What a bucket is worth *)

\* The earliest time from which c's bucket may count as filling up.
Since(c) ==
  IF visitors[c].lastSeen < visitors[c].last THEN visitors[c].lastSeen ELSE visitors[c].last

\* What c could be allowed at once at the latest reading, the full bucket that
\* it has after a sweep included.
Worth(c) ==
  IF Present(c) THEN Capped(visitors[c].tokens + Earned(latest - Since(c))) ELSE Full

LEMMA CappedIs ==
  /\ \A n \in Int : Capped(n) \in Int /\ Capped(n) <= n /\ Capped(n) <= Full
  /\ \A n \in Int : n >= Full => Capped(n) = Full
  /\ \A n \in Nat : Capped(n) \in 0 .. Full
  /\ \A m, n \in Int : m <= n => Capped(m) <= Capped(n)
  /\ \A n \in Int, e \in Nat : Capped(n + e) <= Capped(n) + e
BY FullType DEF Capped

LEMMA SinceIs ==
  ASSUME TypeOK, Stamped, NEW c \in Clients, Present(c)
  PROVE  /\ Since(c) \in 0 .. latest /\ Since(c) <= visitors[c].last
         /\ Since(c) <= visitors[c].lastSeen
<1>1. /\ visitors[c].last \in 0 .. Horizon /\ visitors[c].lastSeen \in 0 .. Horizon
      /\ visitors[c].last <= latest /\ visitors[c].lastSeen <= latest /\ latest \in 0 .. Horizon
  BY VisitorIs DEF Stamped, TypeOK
<1> QED BY <1>1, FullType DEF Since

\* What a bucket earns in x ticks, if x is at most e more than the time that its
\* worth counts already.
LEMMA EarnsAtMost ==
  ASSUME TypeOK, Stamped, NEW c \in Clients, Present(c), NEW x \in Int, NEW e \in Nat,
         x <= latest - Since(c) + e
  PROVE  Capped(visitors[c].tokens + Earned(x)) <= Worth(c) + Earned(e)
<1> DEFINE k == visitors[c].tokens
           g == latest - Since(c)
<1>1. k \in Nat /\ g \in Nat
  <2>1. k \in 0 .. Full
    BY VisitorIs
  <2>2. Since(c) \in 0 .. latest /\ latest \in 0 .. Horizon
    BY SinceIs DEF TypeOK
  <2> HIDE DEF k
  <2> QED BY <2>1, <2>2, FullType
<1>2. Worth(c) = Capped(k + Earned(g))
  BY DEF Worth
<1>3. x <= g + e
  OBVIOUS
<1> HIDE DEF k, g
<1>4. rps \in Nat /\ 0 \in Int /\ g \in Int /\ e \in Int /\ g + e \in Int
  BY <1>1, RpsType
<1>5. /\ Earned(x) \in Int /\ Earned(g) \in Int /\ Earned(e) \in Int
      /\ Earned(g + e) = Earned(g) + Earned(e)
      /\ Earned(x) <= Earned(g + e) /\ Earned(0) = 0
  <2> DEFINE y == g + e
  <2>1. y \in Int /\ x <= y
    BY <1>3, <1>4
  <2>2. Earned(y) = Earned(g) + Earned(e)
    BY <1>4, EarnedIs
  <2> HIDE DEF y
  <2>3. Earned(x) <= Earned(y)
    BY <1>4, <2>1, EarnedIs
  <2>4. Earned(x) \in Int /\ Earned(g) \in Int /\ Earned(e) \in Int /\ Earned(0) = 0
    BY <1>4, EarnedIs
  <2> QED BY <2>2, <2>3, <2>4 DEF y
<1>6. Earned(0) <= Earned(e)
  BY <1>4, EarnedIs
<1> DEFINE ex == k + Earned(x)
           eg == k + Earned(g)
           ee == Earned(e)
<1>7. ex \in Int /\ eg \in Int /\ ee \in Nat /\ ex <= eg + ee
  BY <1>1, <1>5, <1>6
<1>8. Worth(c) = Capped(eg)
  BY <1>2
<1> HIDE DEF ex, eg, ee
<1>9. Capped(ex) <= Capped(eg + ee) /\ Capped(eg + ee) <= Capped(eg) + ee
      /\ Capped(ex) \in Int /\ Capped(eg) \in Int /\ Capped(eg + ee) \in Int
  <2> DEFINE z == eg + ee
  <2>1. z \in Int /\ ex <= z
    BY <1>7
  <2>2. Capped(z) <= Capped(eg) + ee
    BY <1>7, CappedIs
  <2> HIDE DEF z
  <2>3. Capped(ex) <= Capped(z)
    BY <1>7, <2>1, CappedIs
  <2>4. Capped(ex) \in Int /\ Capped(eg) \in Int /\ Capped(z) \in Int
    BY <1>7, <2>1, CappedIs
  <2> QED BY <2>2, <2>3, <2>4 DEF z
<1>10. Capped(ex) <= Worth(c) + ee
  BY <1>7, <1>8, <1>9
<1> QED BY <1>10 DEF ex, ee, k

LEMMA WorthType ==
  ASSUME TypeOK, Stamped, NEW c \in Clients
  PROVE  Worth(c) \in 0 .. Full
<1>1. CASE ~Present(c)
  BY <1>1, FullType DEF Worth
<1>2. CASE Present(c)
  <2> DEFINE k == visitors[c].tokens
             g == latest - Since(c)
  <2>1. k \in Nat /\ g \in Int /\ 0 <= g
    <3>1. k \in 0 .. Full
      BY <1>2, VisitorIs
    <3>2. Since(c) \in 0 .. latest /\ latest \in 0 .. Horizon
      BY <1>2, SinceIs DEF TypeOK
    <3> HIDE DEF k
    <3> QED BY <3>1, <3>2, FullType
  <2>2. Worth(c) = Capped(k + Earned(g))
    BY <1>2 DEF Worth
  <2> HIDE DEF k, g
  <2>3. rps \in Nat /\ 0 \in Int
    BY RpsType
  <2>4. Earned(g) \in Int /\ Earned(0) <= Earned(g) /\ Earned(0) = 0
    BY <2>1, <2>3, EarnedIs
  <2>5. k + Earned(g) \in Nat
    BY <2>1, <2>4
  <2> QED BY <2>2, <2>5, CappedIs
<1> QED BY <1>1, <1>2

\* The ttl is long enough to fill a bucket.
LongTTL == rps > 0 /\ Earned(TTL) >= Full

\* A bucket that the sweep may drop at a time decided by l is worth a full one
\* by then.
LEMMA DroppedFull ==
  ASSUME TypeOK, Stamped, LongTTL, NEW c \in Clients, Present(c), NEW l \in latest .. Horizon,
         NEW now \in 0 .. l, now > visitors[c].lastSeen + TTL
  PROVE  Full <= Worth(c) + Earned(l - latest)
<1> DEFINE e == l - latest
           k == visitors[c].tokens
<1>1. e \in Nat /\ TTL \in Int /\ TTL <= latest - Since(c) + e
  <2>1. Since(c) \in 0 .. latest /\ Since(c) <= visitors[c].lastSeen /\ latest \in 0 .. Horizon
        /\ visitors[c].lastSeen \in 0 .. Horizon
    BY SinceIs, VisitorIs DEF TypeOK
  <2> QED BY <2>1, FullType
<1>2. k \in 0 .. Full
  BY VisitorIs
<1> HIDE DEF e
<1>3. Capped(visitors[c].tokens + Earned(TTL)) <= Worth(c) + Earned(e)
  BY <1>1, EarnsAtMost
<1>4. Capped(k + Earned(TTL)) <= Worth(c) + Earned(e)
  BY <1>3 DEF k
<1> HIDE DEF k
<1>5. rps \in Nat
  BY RpsType
<1>6. Earned(TTL) \in Int /\ Earned(TTL) >= Full
  BY <1>1, <1>5, EarnedIs DEF LongTTL
<1> DEFINE n == k + Earned(TTL)
<1>7. n \in Int /\ n >= Full
  BY <1>2, <1>6, FullType
<1>8. Capped(n) <= Worth(c) + Earned(e)
  BY <1>4
<1> HIDE DEF n
<1>9. Capped(n) = Full
  BY <1>7, CappedIs
<1> QED BY <1>8, <1>9 DEF e
-----------------------------------------------------------------------------
(* What a decision does to the worth of a bucket *)

LEMMA WorthTyped == TypeOK /\ Stamped => \A c \in Clients : Worth(c) \in 0 .. Full
BY WorthType

LEMMA WorthTypeNext == TypeOK' /\ Stamped' => \A c \in Clients : Worth(c)' \in 0 .. Full
<1>1. (TypeOK /\ Stamped => \A c \in Clients : Worth(c) \in 0 .. Full)'
  BY WorthTyped, PTL
<1> QED BY <1>1

LEMMA WorthNext ==
  ASSUME rps' = rps, NEW c \in Clients
  PROVE  /\ Worth(c)' = IF Present(c)'
                        THEN Capped(visitors'[c].tokens + Earned(latest' - Since(c)'))
                        ELSE Full
         /\ Since(c)' = IF visitors'[c].lastSeen < visitors'[c].last
                        THEN visitors'[c].lastSeen ELSE visitors'[c].last
<1>1. Worth(c)' = IF Present(c)'
                  THEN Capped(visitors'[c].tokens + Earned(latest' - Since(c)'))
                  ELSE Full
  BY DEF Worth, Capped, Earned, Present
<1>2. Since(c)' = IF visitors'[c].lastSeen < visitors'[c].last
                  THEN visitors'[c].lastSeen ELSE visitors'[c].last
  BY DEF Since
<1> QED BY <1>1, <1>2

\* Another client's bucket earns what the rate adds, dropped or not.
LEMMA WorthOther ==
  ASSUME TypeOK, Stamped, LongTTL, TypeOK', Stamped',
         NEW h \in Handlers, NEW c \in Clients, NEW now \in 0 .. Horizon,
         Decided(h, c, now), NEW d \in Clients \ {c}
  PROVE  Worth(d)' <= Worth(d) + Earned(latest' - latest)
<1>0. \E m \in Int : m = latest'
  BY FullType, DecidedIs DEF TypeOK
<1> PICK l \in Int : l = latest'
  BY <1>0
<1> DEFINE e == l - latest
<1>1. rps' = rps /\ l \in latest .. Horizon /\ now <= l /\ latest \in 0 .. Horizon
  BY DecidedIs DEF TypeOK
<1>2. e \in Nat
  <2>1. latest \in Int /\ latest <= l
    BY <1>1, FullType
  <2> QED BY <2>1, GapIs
<1>3. Worth(d)' \in 0 .. Full /\ Worth(d) \in 0 .. Full
  BY WorthType, WorthTypeNext
<1>4. Earned(e) \in Int /\ 0 <= Earned(e)
  <2>1. rps \in Nat /\ 0 \in Int /\ e \in Int /\ 0 <= e
    BY <1>2, RpsType
  <2> HIDE DEF e
  <2> QED BY <2>1, EarnedIs
<1>5. CASE visitors'[d] = visitors[d] /\ ~Present(d)
  <2>1. Worth(d) = Full
    BY <1>5 DEF Worth
  <2> HIDE DEF e
  <2>2. Worth(d)' <= Worth(d) + Earned(e)
    BY <1>3, <1>4, <2>1, FullType
  <2> QED BY <2>2 DEF e
<1>6. CASE visitors'[d] = visitors[d] /\ Present(d)
  <2>1. Since(d)' = Since(d)
    BY <1>6 DEF Since
  <2>2. Worth(d)' = Capped(visitors[d].tokens + Earned(l - Since(d)))
    BY <1>1, <1>6, <2>1, WorthNext DEF Present
  <2> DEFINE x == l - Since(d)
  <2>3. x \in Int /\ x <= latest - Since(d) + e
    <3>1. Since(d) \in 0 .. latest
      BY <1>6, SinceIs
    <3> QED BY <1>1, <3>1, FullType
  <2> HIDE DEF x, e
  <2>4. Capped(visitors[d].tokens + Earned(x)) <= Worth(d) + Earned(e)
    BY <1>2, <1>6, <2>3, EarnsAtMost
  <2> QED BY <2>2, <2>4 DEF x, e
<1>7. CASE ~Present(d)' /\ Present(d) /\ now > visitors[d].lastSeen + TTL
  <2>1. now \in 0 .. l
    BY <1>1, FullType
  <2>2. Full <= Worth(d) + Earned(e)
    BY <1>1, <1>7, <2>1, DroppedFull
  <2> HIDE DEF e
  <2>3. Worth(d)' <= Worth(d) + Earned(e)
    BY <1>3, <1>4, <2>2, FullType
  <2> QED BY <2>3 DEF e
<1> QED BY <1>5, <1>6, <1>7, DecidedIs

\* A refused client's bucket earns that too, and twice the time by which the
\* request was overtaken.
LEMMA WorthRefused ==
  ASSUME TypeOK, Stamped, LongTTL, TypeOK', Stamped',
         NEW h \in Handlers, NEW c \in Clients, NEW now \in 0 .. Horizon,
         Refuse(h, c, now)
  PROVE  Worth(c)' <= Worth(c) + Earned((latest' - latest) + (latest' - now))
<1>0. \E m \in Int : m = latest'
  BY FullType, DecidedIs DEF TypeOK, Decided
<1> PICK l \in Int : l = latest'
  BY <1>0
<1> DEFINE b == l - latest
           e == b + (l - now)
           v == Bucket(c, now)
<1>1. rps' = rps /\ l \in latest .. Horizon /\ now <= l /\ latest \in 0 .. Horizon
      /\ Present(c)'
  BY DecidedIs DEF TypeOK, Decided
<1>2. e \in Nat /\ b \in Nat /\ b <= e
  <2>1. latest \in Int /\ now \in Int /\ latest <= l /\ now <= l
    BY <1>1, FullType
  <2>2. b \in Nat /\ l - now \in Nat
    BY <2>1, GapIs
  <2> DEFINE k == l - now
  <2>3. k \in Nat /\ e = b + k
    BY <2>2
  <2> HIDE DEF b, k, e
  <2> QED BY <2>2, <2>3
<1>3. Worth(c)' \in 0 .. Full /\ Worth(c) \in 0 .. Full
  BY WorthType, WorthTypeNext
<1>4. Earned(e) \in Int /\ 0 <= Earned(e) /\ Earned(b) \in Int /\ Earned(b) <= Earned(e)
  <2>1. rps \in Nat /\ 0 \in Int /\ e \in Int /\ 0 <= e /\ b \in Int /\ b <= e
    BY <1>2, RpsType
  <2> HIDE DEF e, b
  <2> QED BY <2>1, EarnedIs
<1>5. CASE visitors[c].there /\ v = visitors[c]
  <2>1. Decide(h, c, now, v) /\ v \in Visitor
    BY BucketIs DEF Refuse
  <2> HIDE DEF v
  <2>2. /\ visitors'[c].tokens = v.tokens
        /\ visitors'[c].last = v.last /\ visitors'[c].lastSeen = now
    BY <2>1, DecideIs
  <2> DEFINE x == l - Since(c)'
  <2>3. Worth(c)' = Capped(visitors[c].tokens + Earned(x))
    BY <1>1, <1>5, <2>2, WorthNext
  <2>4. x \in Int /\ x <= latest - Since(c) + e
    <3>1. Since(c) \in 0 .. latest /\ Since(c) <= visitors[c].last
          /\ visitors[c].last \in 0 .. Horizon
      BY <1>5, SinceIs, VisitorIs DEF Present
    <3>2. Since(c)' = IF now < visitors[c].last THEN now ELSE visitors[c].last
      BY <1>1, <1>5, <2>2, WorthNext
    <3> QED BY <1>1, <3>1, <3>2, FullType
  <2> HIDE DEF x, e
  <2>5. Capped(visitors[c].tokens + Earned(x)) <= Worth(c) + Earned(e)
    BY <1>2, <1>5, <2>4, EarnsAtMost DEF Present
  <2> QED BY <2>3, <2>5 DEF e
<1>6. CASE ~visitors[c].there
  <2>1. Worth(c) = Full
    BY <1>6 DEF Worth, Present
  <2> HIDE DEF e
  <2>2. Worth(c)' <= Worth(c) + Earned(e)
    BY <1>3, <1>4, <2>1, FullType
  <2> QED BY <2>2 DEF e
<1>7. CASE visitors[c].there /\ now > visitors[c].lastSeen + TTL
  <2>1. now \in 0 .. l
    BY <1>1, FullType
  <2>2. Full <= Worth(c) + Earned(b)
    BY <1>1, <1>7, <2>1, DroppedFull DEF Present
  <2> HIDE DEF e, b
  <2>3. Worth(c)' <= Worth(c) + Earned(e)
    BY <1>3, <1>4, <2>2, FullType
  <2> QED BY <2>3 DEF e, b
<1> QED BY <1>5, <1>6, <1>7, BucketIs

\* An allowed request is paid for out of what the bucket was worth and has
\* earned; what is left earns only what was overtaken.
LEMMA WorthAllowed ==
  ASSUME TypeOK, Stamped, LongTTL, TypeOK', Stamped',
         NEW h \in Handlers, NEW c \in Clients, NEW now \in 0 .. Horizon,
         Allow(h, c, now)
  PROVE  \E r \in Cost .. Full :
           /\ r <= Worth(c) + Earned(latest' - latest)
           /\ Worth(c)' <= (r - Cost) + Earned(latest' - now)
<1>0. \E m \in Int : m = latest'
  BY FullType, DecidedIs DEF TypeOK, Decided
<1> PICK l \in Int : l = latest'
  BY <1>0
<1> DEFINE b == l - latest
           e == l - now
           v == Bucket(c, now)
           r == Refilled(v, now)
<1>1. rps' = rps /\ l \in latest .. Horizon /\ now <= l /\ latest \in 0 .. Horizon
      /\ Present(c)'
  BY DecidedIs DEF TypeOK, Decided
<1>2. e \in Nat /\ b \in Nat
  <2>1. latest \in Int /\ now \in Int /\ latest <= l /\ now <= l
    BY <1>1, FullType
  <2>2. b \in Nat /\ l - now \in Nat
    BY <2>1, GapIs
  <2> HIDE DEF b
  <2> QED BY <2>2
<1>3. Worth(c) \in 0 .. Full
  BY WorthType
<1>4. /\ Earned(e) \in Int /\ 0 <= Earned(e) /\ Earned(b) \in Int /\ 0 <= Earned(b)
      /\ Earned(0) = 0
  <2> HIDE DEF e, b
  <2>1. rps \in Nat /\ 0 \in Int /\ e \in Int /\ 0 <= e /\ b \in Int /\ 0 <= b
    BY <1>2, RpsType
  <2> QED BY <2>1, EarnedIs
<1>5. v \in Visitor
  BY BucketIs
<1>6. Decide(h, c, now, Spent(v, now)) /\ r >= Cost
  BY DEF Allow, Spent
<1>7. /\ r \in 0 .. Full
      /\ r = Capped(v.tokens + (IF now > v.last THEN Earned(now - v.last) ELSE 0))
  <2> HIDE DEF v
  <2> QED BY <1>5, RefilledIs
<1>8. r <= Worth(c) + Earned(b)
  <2>1. CASE visitors[c].there /\ v = visitors[c]
    <3> DEFINE x == IF now > v.last THEN now - v.last ELSE 0
    <3>1. v.last \in 0 .. Horizon
      BY <1>5 DEF Visitor
    <3>2. r = Capped(visitors[c].tokens + Earned(x))
      BY <1>4, <1>7, <2>1
    <3>3. x \in Int /\ x <= latest - Since(c) + b
      <4>1. Since(c) \in 0 .. latest /\ Since(c) <= v.last
        BY <2>1, SinceIs DEF Present
      <4> HIDE DEF v
      <4> QED BY <1>1, <3>1, <4>1, FullType
    <3> HIDE DEF x, b, r
    <3>4. Capped(visitors[c].tokens + Earned(x)) <= Worth(c) + Earned(b)
      BY <1>2, <2>1, <3>3, EarnsAtMost DEF Present
    <3> QED BY <3>2, <3>4
  <2>2. CASE ~visitors[c].there
    <3>1. Worth(c) = Full
      BY <2>2 DEF Worth, Present
    <3> HIDE DEF b, r
    <3> QED BY <1>4, <1>7, <3>1, FullType
  <2>3. CASE visitors[c].there /\ now > visitors[c].lastSeen + TTL
    <3>1. now \in 0 .. l
      BY <1>1, FullType
    <3>2. Full <= Worth(c) + Earned(b)
      BY <1>1, <2>3, <3>1, DroppedFull DEF Present
    <3> HIDE DEF b, r
    <3> QED BY <1>3, <1>4, <1>7, <3>2, FullType
  <2> QED BY <2>1, <2>2, <2>3, BucketIs
<1>9. Worth(c)' <= (r - Cost) + Earned(e)
  <2> HIDE DEF v
  <2>1. Spent(v, now) \in Visitor /\ Spent(v, now).tokens = r - Cost /\ Spent(v, now).last = now
    BY <1>5, <1>6, SpentIs
  <2> DEFINE w == Spent(v, now)
  <2>2. w \in Visitor /\ w.tokens = r - Cost /\ w.last = now /\ Decide(h, c, now, w)
    BY <1>6, <2>1
  <2> HIDE DEF w
  <2>3. /\ visitors'[c].tokens = r - Cost
        /\ visitors'[c].last = now /\ visitors'[c].lastSeen = now
    BY <2>2, DecideIs
  <2>4. Since(c)' = now
    BY <1>1, <2>3, WorthNext
  <2>5. Worth(c)' = Capped((r - Cost) + Earned(e))
    BY <1>1, <2>3, <2>4, WorthNext
  <2> DEFINE n == (r - Cost) + Earned(e)
  <2>6. n \in Int
    <3> HIDE DEF r, e
    <3> QED BY <1>4, <1>7, FullType
  <2> HIDE DEF n
  <2>7. Capped(n) <= n
    BY <2>6, CappedIs
  <2> QED BY <2>5, <2>7 DEF n
<1>10. r \in Cost .. Full
  <2> HIDE DEF r
  <2> QED BY <1>6, <1>7, FullType
<1> QED BY <1>8, <1>9, <1>10
-----------------------------------------------------------------------------
(* The balance, for any history a, worth w, latest reading l and lateness g  *)

BeforeIn(a, s) == IF s = 0 THEN 0 ELSE a[s - 1]

\* What was allowed since s and what the bucket is worth come out of one bucket
\* and what the rate has added.
PaidIn(a, w, l, g) ==
  \A s \in 0 .. l : Price(a[Horizon] - BeforeIn(a, s)) + w <= Full + Earned(l - s + g)

\* RateHolds, for one client.
HoldsIn(a, l, g) ==
  \A s, t \in 0 .. l : s <= t => Price(a[t] - BeforeIn(a, s)) <= Full + Earned(t - s + g)

\* Ledger, for one client.
GrowsTo(a, l) ==
  /\ a \in [0 .. Horizon -> Nat]
  /\ \A s, t \in 0 .. Horizon : s <= t => a[s] <= a[t]
  /\ \A t \in l .. Horizon : a[t] = a[Horizon]

LEMMA EarnedSum ==
  ASSUME rps \in Nat, NEW m \in Int, NEW n \in Int, NEW p \in Int, p = m + n
  PROVE  /\ Earned(m) \in Int /\ Earned(n) \in Int /\ Earned(p) \in Int
         /\ Earned(p) = Earned(m) + Earned(n)
BY EarnedIs

LEMMA EarnedMore ==
  ASSUME rps \in Nat, NEW m \in Int, NEW n \in Int, m <= n
  PROVE  Earned(m) \in Int /\ Earned(n) \in Int /\ Earned(m) <= Earned(n)
BY EarnedIs

LEMMA EarnedType ==
  ASSUME rps \in Nat, NEW n \in Nat
  PROVE  Earned(n) \in Int /\ 0 <= Earned(n)
<1>1. 0 \in Int /\ 0 <= n /\ n \in Int
  OBVIOUS
<1>2. Earned(0) <= Earned(n) /\ Earned(0) = 0 /\ Earned(n) \in Int
  BY <1>1, EarnedIs
<1> QED BY <1>2

LEMMA BeforeType ==
  ASSUME NEW l \in 0 .. Horizon, NEW a, GrowsTo(a, l), NEW s \in 0 .. Horizon,
         NEW t \in 0 .. Horizon
  PROVE  /\ a[t] \in Nat /\ BeforeIn(a, s) \in Nat
         /\ s <= t => BeforeIn(a, s) <= a[t]
         /\ t >= l => a[t] = a[Horizon]
         /\ s > l => BeforeIn(a, s) = a[Horizon]
<1>1. a[t] \in Nat
  BY DEF GrowsTo
<1>2. CASE s = 0
  <2>1. BeforeIn(a, s) = 0
    BY <1>2 DEF BeforeIn
  <2>2. t >= l => a[t] = a[Horizon]
    BY FullType DEF GrowsTo
  <2> QED BY <1>1, <1>2, <2>1, <2>2, FullType
<1>3. CASE s # 0
  <2> DEFINE r == s - 1
  <2>1. r \in 0 .. Horizon /\ (s <= t => r <= t) /\ (s > l => r >= l)
    BY <1>3, FullType
  <2>2. BeforeIn(a, s) = a[r]
    BY <1>3 DEF BeforeIn
  <2> HIDE DEF r
  <2>3. a[r] \in Nat /\ (r <= t => a[r] <= a[t]) /\ (r >= l => a[r] = a[Horizon])
        /\ (t >= l => a[t] = a[Horizon])
    BY <2>1, FullType DEF GrowsTo
  <2> QED BY <1>1, <2>1, <2>2, <2>3
<1> QED BY <1>2, <1>3

\* What the balance says of any s.
LEMMA OwedIs ==
  ASSUME rps \in Nat, NEW l \in 0 .. Horizon, NEW a, GrowsTo(a, l), NEW w \in 0 .. Full,
         NEW g \in Nat, PaidIn(a, w, l, g), NEW s \in 0 .. Horizon
  PROVE  \E d \in Nat :
           /\ d = a[Horizon] - BeforeIn(a, s)
           /\ s <= l => Price(d) + w <= Full + Earned(l - s + g)
           /\ s > l => d = 0
<1>1. Horizon \in 0 .. Horizon /\ s <= Horizon
  BY FullType
<1>2. a[Horizon] \in Nat /\ BeforeIn(a, s) \in Nat /\ BeforeIn(a, s) <= a[Horizon]
      /\ (s > l => BeforeIn(a, s) = a[Horizon])
  BY <1>1, BeforeType
<1> DEFINE d == a[Horizon] - BeforeIn(a, s)
<1>3. d \in Nat /\ (s > l => d = 0)
  BY <1>2
<1>4. s <= l => Price(d) + w <= Full + Earned(l - s + g)
  <2>1. s <= l => s \in 0 .. l
    BY FullType
  <2> QED BY <2>1 DEF PaidIn
<1> QED BY <1>3, <1>4

\* Time passes, the client's requests are overtaken by k, and its bucket earns no
\* more than that.
LEMMA BalanceKept ==
  ASSUME rps \in Nat, NEW l \in 0 .. Horizon, NEW a, GrowsTo(a, l), NEW w \in 0 .. Full,
         NEW g \in Nat, PaidIn(a, w, l, g), HoldsIn(a, l, g),
         NEW m \in l .. Horizon, NEW k \in Nat, NEW v \in 0 .. Full,
         v <= w + Earned((m - l) + k)
  PROVE  PaidIn(a, v, m, g + k) /\ HoldsIn(a, m, g + k)
<1> DEFINE e == (m - l) + k
<1>1. e \in Nat /\ m \in 0 .. Horizon /\ v <= w + Earned(e)
  BY FullType
<1>2. Full \in Nat /\ w \in Nat /\ v \in Nat /\ v <= Full /\ w <= Full
  BY FullType
<1>3. ASSUME NEW s \in 0 .. m
      PROVE  Price(a[Horizon] - BeforeIn(a, s)) + v <= Full + Earned(m - s + (g + k))
  <2>1. s \in 0 .. Horizon
    BY FullType
  <2>2. PICK d \in Nat :
           /\ d = a[Horizon] - BeforeIn(a, s)
           /\ s <= l => Price(d) + w <= Full + Earned(l - s + g)
           /\ s > l => d = 0
    BY <2>1, OwedIs
  <2> DEFINE y == m - s + (g + k)
             x == l - s + g
  <2>3. y \in Nat /\ x \in Int /\ y = x + e
    BY FullType
  <2> HIDE DEF e, x, y
  <2>4. Earned(y) = Earned(x) + Earned(e) /\ Earned(y) \in Int /\ Earned(x) \in Int
        /\ Earned(e) \in Int /\ 0 <= Earned(y)
    <3>1. x \in Int /\ e \in Int /\ y \in Int /\ y = x + e
      BY <1>1, <2>3
    <3>2. Earned(y) = Earned(x) + Earned(e) /\ Earned(y) \in Int /\ Earned(x) \in Int
          /\ Earned(e) \in Int
      BY <3>1, EarnedSum
    <3>3. 0 <= Earned(y)
      BY <2>3, EarnedType
    <3> QED BY <3>2, <3>3
  <2>5. Price(d) \in Int /\ Price(0) = 0
    BY PriceIs
  <2>6. CASE s <= l
    <3>1. Price(d) + w <= Full + Earned(x)
      BY <2>2, <2>6 DEF x
    <3>2. Price(d) + v <= Full + Earned(y)
      BY <1>1, <1>2, <2>4, <2>5, <3>1
    <3> QED BY <2>2, <3>2 DEF y
  <2>7. CASE s > l
    <3>1. Price(d) = 0
      BY <2>2, <2>5, <2>7
    <3>2. Price(d) + v <= Full + Earned(y)
      BY <1>2, <2>4, <3>1
    <3> QED BY <2>2, <3>2 DEF y
  <2> QED BY <2>1, <2>6, <2>7, FullType
<1>4. ASSUME NEW s \in 0 .. m, NEW t \in 0 .. m, s <= t
      PROVE  Price(a[t] - BeforeIn(a, s)) <= Full + Earned(t - s + (g + k))
  <2> DEFINE y == t - s + (g + k)
  <2>1. s \in 0 .. Horizon /\ t \in 0 .. Horizon /\ y \in Nat
    BY <1>4, FullType
  <2>2. CASE t <= l
    <3> DEFINE x == t - s + g
               n == a[t] - BeforeIn(a, s)
    <3>1. s \in 0 .. l /\ t \in 0 .. l
      BY <1>4, <2>2, FullType
    <3>2. Price(n) <= Full + Earned(x)
      BY <1>4, <3>1 DEF HoldsIn
    <3>3. x \in Int /\ y \in Int /\ x <= y
      BY <1>4, FullType
    <3>4. n \in Int
      BY <2>1, BeforeType
    <3> HIDE DEF n, x, y
    <3>5. Earned(x) <= Earned(y) /\ Earned(x) \in Int /\ Earned(y) \in Int /\ Price(n) \in Int
      BY <3>3, <3>4, EarnedMore, PriceIs
    <3>6. Price(n) <= Full + Earned(y)
      BY <1>2, <3>2, <3>5
    <3> QED BY <3>6 DEF n, y
  <2>3. CASE t > l
    <3>1. PICK d \in Nat :
            /\ d = a[Horizon] - BeforeIn(a, s)
            /\ s <= l => Price(d) + w <= Full + Earned(l - s + g)
            /\ s > l => d = 0
      BY <2>1, OwedIs
    <3>2. a[t] = a[Horizon]
      BY <2>1, <2>3, BeforeType
    <3>3. Price(d) \in Int /\ Price(0) = 0
      BY PriceIs
    <3> DEFINE x == l - s + g
    <3>4. x \in Int /\ y \in Int /\ x <= y
      BY <2>3, FullType
    <3> HIDE DEF x, y
    <3>5. Earned(x) <= Earned(y) /\ Earned(x) \in Int /\ Earned(y) \in Int /\ 0 <= Earned(y)
      BY <2>1, <3>4, EarnedMore, EarnedType
    <3>6. Price(d) <= Full + Earned(y)
      <4>1. CASE s <= l
        <5>1. Price(d) + w <= Full + Earned(x)
          BY <3>1, <4>1 DEF x
        <5> QED BY <1>2, <3>3, <3>5, <5>1
      <4>2. CASE s > l
        <5>1. Price(d) = 0
          BY <3>1, <3>3, <4>2
        <5> QED BY <1>2, <3>5, <5>1
      <4> QED BY <2>1, <4>1, <4>2, FullType
    <3> QED BY <3>1, <3>2, <3>6 DEF y
  <2> QED BY <2>1, <2>2, <2>3, FullType
<1> QED BY <1>3, <1>4 DEF PaidIn, HoldsIn

\* The counts after one more at now.
LEMMA BeforeMore ==
  ASSUME NEW now \in 0 .. Horizon, NEW a, NEW b, NEW s \in 0 .. Horizon,
         \A t \in 0 .. Horizon : b[t] = IF t >= now THEN a[t] + 1 ELSE a[t]
  PROVE  BeforeIn(b, s) = IF s > now THEN BeforeIn(a, s) + 1 ELSE BeforeIn(a, s)
<1>1. CASE s = 0
  BY <1>1, FullType DEF BeforeIn
<1>2. CASE s # 0
  <2> DEFINE z == s - 1
  <2>1. z \in 0 .. Horizon /\ (z >= now <=> s > now)
    BY <1>2, FullType
  <2>2. BeforeIn(b, s) = b[z] /\ BeforeIn(a, s) = a[z]
    BY <1>2 DEF BeforeIn
  <2> HIDE DEF z
  <2> QED BY <2>1, <2>2
<1> QED BY <1>1, <1>2

LEMMA PriceMore == \A d \in Nat : Price(d) \in Int /\ Price(d + 1) = Price(d) + Cost
<1> SUFFICES ASSUME NEW d \in Nat PROVE Price(d) \in Int /\ Price(d + 1) = Price(d) + Cost
  OBVIOUS
<1> DEFINE one == 1
<1>1. one \in Int /\ d \in Int /\ Price(one) = Cost
  BY PriceIs
<1> HIDE DEF one
<1>2. Price(d + one) = Price(d) + Price(one) /\ Price(d) \in Int
  BY <1>1, PriceIs
<1> QED BY <1>1, <1>2 DEF one

\* One more is allowed at now, for r of which the bucket was worth all but what it
\* has earned since l; what is left earns again the time from now to m.
LEMMA BalanceSpent ==
  ASSUME rps \in Nat, NEW l \in 0 .. Horizon, NEW a, GrowsTo(a, l), NEW w \in 0 .. Full,
         NEW g \in Nat, PaidIn(a, w, l, g), HoldsIn(a, l, g),
         NEW m \in l .. Horizon, NEW now \in 0 .. m, m \in {now, l},
         NEW r \in Cost .. Full, r <= w + Earned(m - l),
         NEW v \in 0 .. Full, v <= (r - Cost) + Earned(m - now),
         NEW b, \A t \in 0 .. Horizon : b[t] = IF t >= now THEN a[t] + 1 ELSE a[t]
  PROVE  PaidIn(b, v, m, g + (m - now)) /\ HoldsIn(b, m, g + (m - now))
<1> DEFINE k == m - now
           j == m - l
<1>1. k \in Nat /\ j \in Nat /\ m \in 0 .. Horizon /\ now \in 0 .. Horizon /\ Horizon \in 0 .. Horizon
      /\ now <= Horizon
  BY FullType
<1>2. Full \in Nat /\ w \in Nat /\ v \in Nat /\ v <= Full /\ w <= Full /\ Cost \in Nat
      /\ r \in Nat /\ Cost <= r /\ r <= Full
  BY FullType
<1>3. r <= w + Earned(j) /\ v <= (r - Cost) + Earned(k)
  OBVIOUS
<1> HIDE DEF k, j
<1>4. Earned(j) \in Int /\ 0 <= Earned(j) /\ Earned(k) \in Int /\ 0 <= Earned(k)
  BY <1>1, EarnedType
<1>5. \A s \in 0 .. Horizon :
        BeforeIn(b, s) = IF s > now THEN BeforeIn(a, s) + 1 ELSE BeforeIn(a, s)
  BY <1>1, BeforeMore
<1>6. b[Horizon] = a[Horizon] + 1
  BY <1>1
<1>7. \A d \in Nat : Price(d) \in Int /\ Price(d + 1) = Price(d) + Cost
  BY PriceMore
<1>8. Price(0) = 0
  BY PriceIs
\* What was owed since s, with the request's own price added.
<1>9. ASSUME NEW s \in 0 .. m
      PROVE  \E d \in Nat :
               /\ d = a[Horizon] - BeforeIn(a, s)
               /\ Price(d) + r <= Full + Earned(m - s + g)
  <2>1. s \in 0 .. Horizon
    BY <1>1, FullType
  <2>2. PICK d \in Nat :
           /\ d = a[Horizon] - BeforeIn(a, s)
           /\ s <= l => Price(d) + w <= Full + Earned(l - s + g)
           /\ s > l => d = 0
    BY <2>1, OwedIs
  <2> DEFINE x == l - s + g
             y == m - s + g
  <2>3. x \in Int /\ y \in Nat /\ y = x + j
    BY FullType DEF j
  <2> HIDE DEF x, y
  <2>4. Earned(y) = Earned(x) + Earned(j) /\ Earned(y) \in Int /\ Earned(x) \in Int
        /\ 0 <= Earned(y)
    <3>1. x \in Int /\ j \in Int /\ y \in Int /\ y = x + j
      BY <1>1, <2>3
    <3>2. Earned(y) = Earned(x) + Earned(j) /\ Earned(y) \in Int /\ Earned(x) \in Int
      BY <3>1, EarnedSum
    <3>3. 0 <= Earned(y)
      BY <2>3, EarnedType
    <3> QED BY <3>2, <3>3
  <2>5. Price(d) \in Int
    BY <1>7
  <2>6. CASE s <= l
    <3>1. Price(d) + w <= Full + Earned(x)
      BY <2>2, <2>6 DEF x
    <3>2. Price(d) + r <= Full + Earned(y)
      BY <1>2, <1>3, <1>4, <2>4, <2>5, <3>1
    <3> QED BY <2>2, <3>2 DEF y
  <2>7. CASE s > l
    <3>1. Price(d) = 0
      BY <1>8, <2>2, <2>7
    <3>2. Price(d) + r <= Full + Earned(y)
      BY <1>2, <2>4, <3>1
    <3> QED BY <2>2, <3>2 DEF y
  <2> QED BY <2>1, <2>6, <2>7, FullType
<1>10. ASSUME NEW s \in 0 .. m
       PROVE  Price(b[Horizon] - BeforeIn(b, s)) + v <= Full + Earned(m - s + (g + k))
  <2>1. s \in 0 .. Horizon
    BY <1>1, FullType
  <2>2. PICK d \in Nat :
          /\ d = a[Horizon] - BeforeIn(a, s)
          /\ Price(d) + r <= Full + Earned(m - s + g)
    BY <1>9
  <2> DEFINE x == m - s + g
             y == m - s + (g + k)
  <2>3. x \in Int /\ y \in Int /\ y = x + k /\ k \in Int
    BY <1>1, FullType
  <2>4. Price(d) + r <= Full + Earned(x)
    BY <2>2
  <2> HIDE DEF x, y
  <2>5. Earned(y) = Earned(x) + Earned(k) /\ Earned(y) \in Int /\ Earned(x) \in Int
    BY <2>3, EarnedSum
  <2>6. Price(d) \in Int /\ Price(d + 1) = Price(d) + Cost
    BY <1>7
  <2>7. a[Horizon] \in Int /\ BeforeIn(a, s) \in Int
    BY <1>1, <2>1, BeforeType
  <2>8. CASE s <= now
    <3>1. b[Horizon] - BeforeIn(b, s) = d + 1
      BY <1>1, <1>5, <1>6, <2>1, <2>2, <2>7, <2>8
    <3>2. Price(d + 1) + v <= Full + Earned(y)
      BY <1>2, <1>3, <1>4, <2>4, <2>5, <2>6
    <3> QED BY <3>1, <3>2 DEF y
  <2>9. CASE s > now
    <3>1. b[Horizon] - BeforeIn(b, s) = d
      BY <1>1, <1>5, <1>6, <2>1, <2>2, <2>7, <2>9
    <3>2. Price(d) + v <= Full + Earned(y)
      BY <1>2, <1>3, <1>4, <2>4, <2>5, <2>6
    <3> QED BY <3>1, <3>2 DEF y
  <2> QED BY <1>1, <2>1, <2>8, <2>9
<1>11. ASSUME NEW s \in 0 .. m, NEW t \in 0 .. m, s <= t
       PROVE  Price(b[t] - BeforeIn(b, s)) <= Full + Earned(t - s + (g + k))
  <2> DEFINE y == t - s + (g + k)
  <2>1. s \in 0 .. Horizon /\ t \in 0 .. Horizon /\ y \in Nat
    BY <1>1, <1>11, FullType
  <2>2. a[t] \in Nat /\ BeforeIn(a, s) \in Nat /\ a[Horizon] \in Nat
        /\ BeforeIn(a, s) <= a[t] /\ a[t] <= a[Horizon]
    <3>1. a[t] \in Nat /\ BeforeIn(a, s) \in Nat /\ BeforeIn(a, s) <= a[t]
      BY <1>11, <2>1, BeforeType
    <3>2. t <= Horizon
      BY <2>1, FullType
    <3>3. a[Horizon] \in Nat /\ a[t] <= a[Horizon]
      BY <1>1, <2>1, <3>2 DEF GrowsTo
    <3> QED BY <3>1, <3>3
  <2> DEFINE n == a[t] - BeforeIn(a, s)
  <2>3. n \in Nat
    BY <2>2
  <2>4. \* Both counts are from before now, or both from after it.
        CASE t < now \/ s > now
    <3>1. b[t] - BeforeIn(b, s) = n
      BY <1>1, <1>5, <1>11, <2>1, <2>2, <2>4
    <3>2. Price(n) <= Full + Earned(y)
      <4>1. HoldsIn(a, m, g + k)
        <5>1. w <= w + Earned(m - l + k)
          <6> DEFINE e == m - l + k
          <6>1. e \in Nat
            BY <1>1 DEF j
          <6> HIDE DEF e
          <6>2. Earned(e) \in Int /\ 0 <= Earned(e)
            BY <6>1, EarnedType
          <6>3. w <= w + Earned(e)
            BY <1>2, <6>2
          <6> QED BY <6>3 DEF e
        <5> QED BY <1>1, <5>1, BalanceKept
      <4> QED BY <1>11, <4>1 DEF HoldsIn
    <3> QED BY <3>1, <3>2
  <2>5. CASE s <= now /\ now <= t
    <3>1. b[t] - BeforeIn(b, s) = n + 1
      BY <1>1, <1>5, <1>11, <2>1, <2>2, <2>5
    <3>2. PICK d \in Nat :
            /\ d = a[Horizon] - BeforeIn(a, s)
            /\ Price(d) + r <= Full + Earned(m - s + g)
      BY <1>9
    <3> DEFINE x == m - s + g
               d1 == d + 1
               n1 == n + 1
    <3>3. x \in Int /\ y \in Int /\ x <= y
      BY <1>1, <2>5, FullType DEF k
    <3>4. Price(d) + r <= Full + Earned(x)
      BY <3>2
    <3>5. n1 \in Int /\ d1 \in Int /\ n1 <= d1
      BY <2>2, <3>2
    <3>6. Price(d) \in Int /\ Price(d1) = Price(d) + Cost
      BY <1>7
    <3> HIDE DEF x, y, n, d1, n1
    <3>7. Earned(x) <= Earned(y) /\ Earned(x) \in Int /\ Earned(y) \in Int
      BY <3>3, EarnedMore
    <3>8. Price(n1) <= Price(d1) /\ Price(n1) \in Int
      BY <3>5, PriceIs
    <3>9. Price(n1) <= Full + Earned(y)
      BY <1>2, <3>4, <3>6, <3>7, <3>8
    <3> QED BY <3>1, <3>9 DEF y, n1, n
  <2> QED BY <1>1, <2>1, <2>4, <2>5
<1> QED BY <1>10, <1>11 DEF PaidIn, HoldsIn, k
-----------------------------------------------------------------------------
(* RateHolds *)

\* The client's balance.
Balanced(c) ==
  /\ PaidIn(allowed[c], Worth(c), latest, late[c])
  /\ HoldsIn(allowed[c], latest, late[c])

RateInv == LongTTL => \A c \in Clients : Balanced(c)

LEMMA BalancedNext ==
  ASSUME rps' = rps, NEW c \in Clients,
         NEW b, b = allowed'[c], NEW v, v = Worth(c)', NEW m, m = latest', NEW g, g = late'[c],
         PaidIn(b, v, m, g), HoldsIn(b, m, g)
  PROVE  Balanced(c)'
BY DEF Balanced, PaidIn, HoldsIn, BeforeIn, Price, Earned

LEMMA GrowsNow ==
  ASSUME TypeOK, Ledger, NEW c \in Clients
  PROVE  GrowsTo(allowed[c], latest) /\ latest \in 0 .. Horizon /\ late[c] \in Nat
         /\ rps \in Nat
BY RpsType DEF TypeOK, Ledger, Total, GrowsTo

\* A step that gives a client nothing keeps its balance.
LEMMA BalancedUnspent ==
  ASSUME TypeOK, Ledger, Stamped, TypeOK', Stamped', NEW c \in Clients, Balanced(c),
         rps' = rps, allowed'[c] = allowed[c],
         NEW m \in latest .. Horizon, m = latest', NEW k \in Nat, late'[c] = late[c] + k,
         Worth(c)' <= Worth(c) + Earned((m - latest) + k)
  PROVE  Balanced(c)'
<1> DEFINE a == allowed[c]
           w == Worth(c)
           g == late[c]
           l == latest
           h == g + k
<1>1. /\ rps \in Nat /\ l \in 0 .. Horizon /\ GrowsTo(a, l) /\ w \in 0 .. Full
      /\ g \in Nat /\ PaidIn(a, w, l, g) /\ HoldsIn(a, l, g) /\ m \in l .. Horizon
  BY GrowsNow, WorthType DEF Balanced
<1>2. PICK v \in 0 .. Full : v = Worth(c)'
  BY WorthTypeNext
<1>3. v <= w + Earned((m - l) + k)
  BY <1>2
<1>4. h = late'[c] /\ a = allowed'[c]
  OBVIOUS
<1> HIDE DEF a, w, g, l
<1>5. PaidIn(a, v, m, h) /\ HoldsIn(a, m, h)
  BY <1>1, <1>3, BalanceKept
<1> HIDE DEF h
<1> QED BY <1>2, <1>4, <1>5, BalancedNext

\* An allowed request does too.
LEMMA BalancedSpent ==
  ASSUME TypeOK, Ledger, Stamped, TypeOK', Stamped', LongTTL,
         NEW h \in Handlers, NEW c \in Clients, NEW now \in 0 .. Horizon,
         Balanced(c), Allow(h, c, now)
  PROVE  Balanced(c)'
<1> DEFINE a == allowed[c]
           b == allowed'[c]
           w == Worth(c)
           g == late[c]
           l == latest
<1>1. /\ rps \in Nat /\ l \in 0 .. Horizon /\ GrowsTo(a, l) /\ w \in 0 .. Full
      /\ g \in Nat /\ PaidIn(a, w, l, g) /\ HoldsIn(a, l, g)
  BY GrowsNow, WorthType DEF Balanced
<1>2. /\ rps' = rps /\ latest' \in latest .. Horizon /\ now <= latest' /\ latest' \in {now, latest}
      /\ late'[c] = late[c] + (latest' - now)
  BY DecidedIs DEF Decided
<1>3. PICK m \in l .. Horizon : m = latest'
  BY <1>2
<1>4. PICK r \in Cost .. Full :
        /\ r <= Worth(c) + Earned(latest' - latest)
        /\ Worth(c)' <= (r - Cost) + Earned(latest' - now)
  BY WorthAllowed
<1>5. PICK v \in 0 .. Full : v = Worth(c)'
  BY WorthTypeNext
<1>6. \A t \in 0 .. Horizon : b[t] = IF t >= now THEN a[t] + 1 ELSE a[t]
  BY RecordIs DEF Allow
<1>7. now \in 0 .. m /\ m \in {now, l}
  <2>1. m \in Int /\ now <= m
    BY <1>1, <1>2, <1>3, FullType
  <2> QED BY <1>2, <1>3, <2>1, FullType
<1>8. r <= w + Earned(m - l) /\ v <= (r - Cost) + Earned(m - now)
  BY <1>3, <1>4, <1>5
<1> DEFINE e == g + (m - now)
<1>9. e = late'[c] /\ b = allowed'[c]
  BY <1>2, <1>3
<1> HIDE DEF a, w, g, l, b
<1>10. PaidIn(b, v, m, e) /\ HoldsIn(b, m, e)
  BY <1>1, <1>3, <1>6, <1>7, <1>8, BalanceSpent
<1> HIDE DEF e
<1> QED BY <1>2, <1>3, <1>5, <1>9, <1>10, BalancedNext

LEMMA RateStep ==
  ASSUME TypeOK, Ledger, Stamped, TypeOK', Stamped', RateInv, [Next]_vars
  PROVE  RateInv'
<1> SUFFICES ASSUME LongTTL', NEW d \in Clients
             PROVE  Balanced(d)'
  BY DEF RateInv
<1>1. CASE UNCHANGED <<rps, limiter, history>>
  <2>1. rps' = rps /\ visitors' = visitors /\ latest' = latest /\ late' = late /\ allowed' = allowed
    BY <1>1 DEF limiter, history
  <2>2. LongTTL
    BY <2>1 DEF LongTTL, Earned
  <2>3. Balanced(d)
    BY <2>2 DEF RateInv
  <2> QED BY <2>1, <2>3
          DEF Balanced, PaidIn, HoldsIn, BeforeIn, Price, Earned, Worth, Capped, Since, Present
<1>2. ASSUME NEW h \in Handlers, NEW c \in Clients, NEW now \in 0 .. Horizon, Decided(h, c, now)
      PROVE  Balanced(d)'
  <2>1. /\ rps' = rps /\ latest' \in latest .. Horizon /\ now <= latest'
        /\ latest \in 0 .. Horizon
    BY <1>2, DecidedIs DEF TypeOK
  <2>2. LongTTL
    BY <2>1 DEF LongTTL, Earned
  <2>3. Balanced(d)
    BY <2>2 DEF RateInv
  <2>4. PICK m \in latest .. Horizon : m = latest'
    BY <2>1
  <2>5. CASE d # c
    <3> DEFINE k == 0
    <3>1. k \in Nat /\ late'[d] = late[d] + k /\ allowed'[d] = allowed[d]
      <4>1. late[d] \in Nat
        BY DEF TypeOK
      <4> QED BY <1>2, <2>5, <4>1, DecidedIs
    <3>2. Worth(d)' <= Worth(d) + Earned(m - latest)
      BY <1>2, <2>2, <2>4, <2>5, WorthOther
    <3>3. (m - latest) + k = m - latest
      BY <2>1, FullType
    <3> HIDE DEF k
    <3>4. Worth(d)' <= Worth(d) + Earned((m - latest) + k)
      BY <3>2, <3>3
    <3> QED BY <2>1, <2>3, <2>4, <3>1, <3>4, BalancedUnspent
  <2>6. CASE d = c /\ Refuse(h, c, now)
    <3>1. PICK k \in Nat : k = m - now
      <4>1. now \in Int /\ m \in Int /\ now <= m
        BY <2>1, <2>4, FullType
      <4> QED BY <4>1, GapIs
    <3>2. late'[c] = late[c] + k /\ allowed'[c] = allowed[c]
      BY <1>2, <2>4, <2>6, <3>1, DecidedIs DEF Refuse
    <3>3. Worth(c)' <= Worth(c) + Earned((m - latest) + k)
      BY <2>2, <2>4, <2>6, <3>1, WorthRefused
    <3> QED BY <2>1, <2>3, <2>4, <2>6, <3>2, <3>3, BalancedUnspent
  <2>7. CASE d = c /\ Allow(h, c, now)
    BY <2>2, <2>3, <2>7, BalancedSpent
  <2>8. CASE AllowUnlimited(h, c, now)
    BY <2>2, <2>8 DEF AllowUnlimited, LongTTL
  <2> QED BY <1>2, <2>5, <2>6, <2>7, <2>8 DEF Decided
<1> QED BY <1>1, <1>2, StepIs

LEMMA RateInit == Init => RateInv
<1> SUFFICES ASSUME Init, NEW c \in Clients PROVE Balanced(c)
  BY DEF RateInv
<1>1. latest = 0 /\ late[c] = 0 /\ Worth(c) = Full /\ rps \in Nat
  BY RateAssumption DEF Init, Worth, Present, Absent
<1>2. \A t \in 0 .. Horizon : allowed[c][t] = 0
  BY DEF Init
<1>3. 0 \in 0 .. Horizon /\ Horizon \in 0 .. Horizon /\ \A s \in 0 .. 0 : s = 0
  BY FullType
<1>4. Price(0) = 0 /\ Earned(0) = 0
  BY <1>1, PriceIs, EarnedIs
<1> HIDE DEF Balanced
<1>5. PaidIn(allowed[c], Full, 0, 0)
  <2> SUFFICES ASSUME NEW s \in 0 .. 0
               PROVE  Price(allowed[c][Horizon] - BeforeIn(allowed[c], s)) + Full
                        <= Full + Earned(0 - s + 0)
    BY DEF PaidIn
  <2>1. s = 0 /\ BeforeIn(allowed[c], s) = 0 /\ allowed[c][Horizon] = 0
    BY <1>2, <1>3 DEF BeforeIn
  <2>2. Price(0 - 0) = 0 /\ Earned(0 - 0 + 0) = 0
    BY <1>4
  <2> QED BY <2>1, <2>2, FullType
<1>6. HoldsIn(allowed[c], 0, 0)
  <2> SUFFICES ASSUME NEW s \in 0 .. 0, NEW t \in 0 .. 0
               PROVE  Price(allowed[c][t] - BeforeIn(allowed[c], s)) <= Full + Earned(t - s + 0)
    BY DEF HoldsIn
  <2>1. s = 0 /\ t = 0 /\ BeforeIn(allowed[c], s) = 0 /\ allowed[c][t] = 0
    BY <1>2, <1>3 DEF BeforeIn
  <2>2. Price(0 - 0) = 0 /\ Earned(0 - 0 + 0) = 0
    BY <1>4
  <2> QED BY <2>1, <2>2, FullType
<1> QED BY <1>1, <1>5, <1>6 DEF Balanced

LimiterInv == TypeOK /\ Ledger /\ Stamped

LEMMA LimiterInvariant == Spec => []LimiterInv
<1>1. Init => LimiterInv
  BY InitType, LedgerInit DEF LimiterInv
<1>2. LimiterInv /\ [Next]_vars => LimiterInv'
  BY NextType, LedgerStep, StampedStep DEF LimiterInv
<1> QED BY <1>1, <1>2, PTL DEF Spec

\* Over any stretch of time no client is allowed more than a bucket and what the
\* rate adds meanwhile, the time by which its requests were overtaken counted
\* twice: the limiter's allow, with its sweep, for any number of clients and
\* handlers.
THEOREM RateIsHeld == Spec => []RateHolds
<1>1. Init => RateInv
  BY RateInit
<1>2. LimiterInv /\ LimiterInv' /\ RateInv /\ [Next]_vars => RateInv'
  BY RateStep DEF LimiterInv
<1>3. RateInv => RateHolds
  BY DEF RateInv, RateHolds, LongTTL, Balanced, HoldsIn, BeforeIn, AllowedIn, Earned, Price
<1> QED BY <1>1, <1>2, <1>3, LimiterInvariant, PTL DEF Spec
-----------------------------------------------------------------------------
(* NoUnfairRefusal *)

\* The k tokens of time l are at least those of a bucket that was full at some
\* reading s and paid for every request since.
WasFull(a, k, l) ==
  \E s \in 0 .. l : Full + Earned(l - s) <= k + Price(a[Horizon] - BeforeIn(a, s))

\* One more by now would have broken the bound for the client's own requests.
TooMany(a, now) ==
  \E s \in 0 .. now : Price((a[now] - BeforeIn(a, s)) + 1) > Full + Earned(now - s)

LEMMA FullNow ==
  ASSUME rps \in Nat, NEW l \in 0 .. Horizon, NEW a, GrowsTo(a, l), NEW now \in 0 .. Horizon
  PROVE  WasFull(a, Full, now)
<1> DEFINE d == a[Horizon] - BeforeIn(a, now)
<1>1. d \in Nat
  <2>1. Horizon \in 0 .. Horizon /\ now <= Horizon
    BY FullType
  <2>2. a[Horizon] \in Nat /\ BeforeIn(a, now) \in Nat /\ BeforeIn(a, now) <= a[Horizon]
    BY <2>1, BeforeType
  <2> QED BY <2>2
<1>2. now \in 0 .. now /\ now - now = 0
  BY FullType
<1>3. Earned(now - now) = 0
  BY <1>2, EarnedIs
<1> HIDE DEF d
<1>4. Price(d) \in Int /\ 0 <= Price(d)
  <2>1. 0 \in Int /\ d \in Int /\ 0 <= d
    BY <1>1
  <2>2. Price(0) <= Price(d) /\ Price(d) \in Int /\ Price(0) = 0
    BY <2>1, PriceIs
  <2> QED BY <2>2
<1>5. Full + Earned(now - now) <= Full + Price(d)
  BY <1>3, <1>4, FullType
<1> QED BY <1>2, <1>5 DEF WasFull, d

\* A bucket that was full is still accounted for after one more request: its
\* tokens have grown to n since last, and that request has taken its own.
LEMMA WasFullSpent ==
  ASSUME rps \in Nat, NEW l \in 0 .. Horizon, NEW a, GrowsTo(a, l),
         NEW last \in 0 .. Horizon, NEW now \in last .. Horizon,
         NEW k \in Int, WasFull(a, k, last),
         NEW b, \A t \in 0 .. Horizon : b[t] = IF t >= now THEN a[t] + 1 ELSE a[t]
  PROVE  WasFull(b, (k + Earned(now - last)) - Cost, now)
<1>1. PICK s \in 0 .. last : Full + Earned(last - s) <= k + Price(a[Horizon] - BeforeIn(a, s))
  BY DEF WasFull
<1>2. s \in 0 .. now /\ s \in 0 .. Horizon /\ Horizon \in 0 .. Horizon /\ s <= Horizon
      /\ now <= Horizon /\ now \in 0 .. Horizon
  BY FullType
<1> DEFINE d == a[Horizon] - BeforeIn(a, s)
           x == last - s
           e == now - last
           y == now - s
<1>3. d \in Nat /\ b[Horizon] - BeforeIn(b, s) = d + 1
  <2>1. a[Horizon] \in Nat /\ BeforeIn(a, s) \in Nat /\ BeforeIn(a, s) <= a[Horizon]
    BY <1>2, BeforeType
  <2>2. b[Horizon] = a[Horizon] + 1
    BY <1>2
  <2>3. BeforeIn(b, s) = BeforeIn(a, s)
    <3>1. ~(s > now)
      BY <1>2, FullType
    <3> QED BY <1>2, <3>1, BeforeMore
  <2> QED BY <2>1, <2>2, <2>3
<1>4. x \in Int /\ e \in Int /\ y \in Int /\ y = x + e
  BY <1>2, FullType
<1>5. Full + Earned(x) <= k + Price(d)
  BY <1>1
<1> HIDE DEF d, x, e, y
<1>6. Earned(y) = Earned(x) + Earned(e) /\ Earned(y) \in Int /\ Earned(x) \in Int
      /\ Earned(e) \in Int
  BY <1>4, EarnedSum
<1>7. Price(d) \in Int /\ Price(d + 1) = Price(d) + Cost
  BY <1>3, PriceMore
<1>8. Full + Earned(y) <= ((k + Earned(e)) - Cost) + Price(d + 1)
  BY <1>5, <1>6, <1>7, FullType
<1> QED BY <1>2, <1>3, <1>8 DEF WasFull, y, e

\* If it has less than one request by now, the client has had its share.
LEMMA WasFullTooMany ==
  ASSUME rps \in Nat, NEW l \in 0 .. Horizon, NEW a, GrowsTo(a, l),
         NEW last \in 0 .. Horizon, NEW now \in last .. Horizon, now >= l,
         NEW k \in Int, WasFull(a, k, last), k + Earned(now - last) < Cost
  PROVE  TooMany(a, now)
<1>1. PICK s \in 0 .. last : Full + Earned(last - s) <= k + Price(a[Horizon] - BeforeIn(a, s))
  BY DEF WasFull
<1>2. s \in 0 .. now /\ s \in 0 .. Horizon /\ Horizon \in 0 .. Horizon /\ s <= Horizon
      /\ now \in 0 .. Horizon
  BY FullType
<1> DEFINE d == a[Horizon] - BeforeIn(a, s)
           x == last - s
           e == now - last
           y == now - s
<1>3. d \in Nat /\ a[now] - BeforeIn(a, s) = d
  <2>1. a[Horizon] \in Nat /\ BeforeIn(a, s) \in Nat /\ BeforeIn(a, s) <= a[Horizon]
    BY <1>2, BeforeType
  <2>2. a[now] = a[Horizon]
    BY <1>2, BeforeType
  <2> QED BY <2>1, <2>2
<1>4. x \in Int /\ e \in Int /\ y \in Int /\ y = x + e
  BY <1>2, FullType
<1>5. Full + Earned(x) <= k + Price(d) /\ k + Earned(e) < Cost
  BY <1>1
<1> HIDE DEF d, x, e, y
<1>6. Earned(y) = Earned(x) + Earned(e) /\ Earned(y) \in Int /\ Earned(x) \in Int
      /\ Earned(e) \in Int
  BY <1>4, EarnedSum
<1>7. Price(d) \in Int /\ Price(d + 1) = Price(d) + Cost
  BY <1>3, PriceMore
<1>8. Price(d + 1) > Full + Earned(y)
  BY <1>5, <1>6, <1>7, FullType
<1> QED BY <1>2, <1>3, <1>8 DEF TooMany, y

\* No token is lost: neither to other clients, nor to refused requests, nor to
\* the sweep.
NoneLost ==
  \A c \in Clients : Present(c) /\ late[c] = 0 =>
    WasFull(allowed[c], visitors[c].tokens, visitors[c].last)

Fair == \A c \in Clients : \A r \in refused[c] : late[c] = 0 => TooMany(allowed[c], r)

\* What a bucket is refilled to is accounted for.
LEMMA RefilledWasFull ==
  ASSUME TypeOK, Ledger, Stamped, NoneLost, NEW c \in Clients, NEW now \in 0 .. Horizon,
         latest <= now, late[c] = 0
  PROVE  \E last \in 0 .. now, k \in Int :
           /\ WasFull(allowed[c], k, last)
           /\ Refilled(Bucket(c, now), now) = k + Earned(now - last)
<1> DEFINE v == Bucket(c, now)
           r == Refilled(v, now)
           a == allowed[c]
<1>1. v \in Visitor
  BY BucketIs
<1>2. rps \in Nat /\ latest \in 0 .. Horizon /\ GrowsTo(a, latest)
  BY GrowsNow
<1>3. r = Capped(v.tokens + (IF now > v.last THEN Earned(now - v.last) ELSE 0))
  <2> HIDE DEF v
  <2> QED BY <1>1, RefilledIs
<1>4. now - now = 0 /\ now \in 0 .. now /\ Full \in Int
  BY FullType
<1>5. Earned(now - now) = 0
  BY <1>2, <1>4, EarnedIs
<1>6. WasFull(a, Full, now)
  BY <1>2, FullNow
<1>7. CASE r = Full
  <2>1. r = Full + Earned(now - now)
    BY <1>4, <1>5, <1>7
  <2> QED BY <1>4, <1>6, <2>1
<1>8. CASE r # Full
  <2>1. v.tokens \in 0 .. Full /\ v.last \in 0 .. Horizon
    BY <1>1 DEF Visitor
  <2>2. ~(v.tokens = Full /\ v.last = now)
    <3>1. SUFFICES ASSUME v.tokens = Full, v.last = now PROVE FALSE
      OBVIOUS
    <3>2. r = Capped(Full)
      <4>1. ~(now > v.last)
        BY <3>1, FullType
      <4>2. r = Capped(Full + 0)
        BY <1>3, <3>1, <4>1
      <4> QED BY <4>2, FullType
    <3>3. Capped(Full) = Full
      BY FullType DEF Capped
    <3> QED BY <1>8, <3>2, <3>3
  <2>3. visitors[c].there /\ v = visitors[c]
    BY <2>2, BucketIs
  <2>4. v.last <= latest
    BY <2>3 DEF Stamped, Present
  <2>5. v.last \in 0 .. now /\ v.last <= now
    BY <1>2, <2>1, <2>4, FullType
  <2>6. WasFull(a, v.tokens, v.last)
    BY <2>3 DEF NoneLost, Present
  <2> DEFINE e == now - v.last
             n == v.tokens + Earned(e)
  <2>7. r = Capped(n)
    <3>1. CASE now > v.last
      BY <1>3, <3>1
    <3>2. CASE ~(now > v.last)
      <4>1. e = 0
        <5>1. now = v.last
          BY <2>1, <2>5, <3>2, FullType
        <5> QED BY <1>4, <5>1
      <4>2. Earned(e) = 0
        BY <1>2, <4>1, EarnedIs
      <4> QED BY <1>3, <3>2, <4>2
    <3> QED BY <3>1, <3>2
  <2>8. n \in Int
    <3>1. e \in Int /\ v.tokens \in Int
      BY <2>1, FullType
    <3> HIDE DEF e, v
    <3>2. Earned(e) \in Int
      BY <1>2, <3>1, EarnedIs
    <3> QED BY <3>1, <3>2
  <2>9. Capped(n) = n
    <3> HIDE DEF n, r
    <3> QED BY <1>8, <2>7, <2>8 DEF Capped
  <2>10. v.tokens \in Int
    BY <2>1, FullType
  <2>11. r = v.tokens + Earned(now - v.last)
    BY <2>7, <2>9
  <2> HIDE DEF r, v, a
  <2> QED BY <2>5, <2>6, <2>10, <2>11 DEF r, v, a
<1> QED BY <1>7, <1>8

\* A bucket whose tokens and time a decision leaves alone, or makes anew.
LEMMA UntouchedWasFull ==
  ASSUME TypeOK, Ledger, Stamped, NoneLost, NEW c \in Clients, NEW now \in 0 .. Horizon,
         late[c] = 0
  PROVE  WasFull(allowed[c], Bucket(c, now).tokens, Bucket(c, now).last)
<1>1. rps \in Nat /\ latest \in 0 .. Horizon /\ GrowsTo(allowed[c], latest)
  BY GrowsNow
<1>2. CASE visitors[c].there /\ Bucket(c, now) = visitors[c]
  BY <1>2 DEF NoneLost, Present
<1>3. CASE Bucket(c, now).tokens = Full /\ Bucket(c, now).last = now
  <2> DEFINE a == allowed[c]
  <2>1. GrowsTo(a, latest)
    BY <1>1
  <2> HIDE DEF a
  <2>2. WasFull(a, Full, now)
    BY <1>1, <2>1, FullNow
  <2> QED BY <1>3, <2>2 DEF a
<1> QED BY <1>2, <1>3, BucketIs

LEMMA FairNext ==
  ASSUME rps' = rps, NEW c \in Clients
  PROVE  /\ \A k, l : WasFull(allowed'[c], k, l) /\ k = visitors'[c].tokens /\ l = visitors'[c].last
                        => (WasFull(allowed[c], visitors[c].tokens, visitors[c].last))'
         /\ \A r : TooMany(allowed'[c], r) => (TooMany(allowed[c], r))'
BY DEF WasFull, TooMany, BeforeIn, Price, Earned

LEMMA FairStep ==
  ASSUME TypeOK, Ledger, Stamped, NoneLost, Fair, [Next]_vars
  PROVE  NoneLost' /\ Fair'
<1> DEFINE Kept1(d) == Present(d)' => (WasFull(allowed[d], visitors[d].tokens, visitors[d].last))'
           Fair1(d) == \A r \in refused'[d] : (TooMany(allowed[d], r))'
<1> SUFFICES ASSUME NEW d \in Clients, late'[d] = 0
             PROVE  Kept1(d) /\ Fair1(d)
  BY DEF NoneLost, Fair
<1>1. CASE UNCHANGED <<rps, limiter, history>>
  <2>1. rps' = rps /\ visitors' = visitors /\ allowed' = allowed /\ late' = late
        /\ refused' = refused
    BY <1>1 DEF limiter, history
  <2>2. Kept1(d)
    BY <2>1, FairNext DEF NoneLost, Present
  <2>3. Fair1(d)
    BY <2>1, FairNext DEF Fair
  <2> QED BY <2>2, <2>3
<1>2. ASSUME NEW h \in Handlers, NEW c \in Clients, NEW now \in 0 .. Horizon, Decided(h, c, now)
      PROVE  Kept1(d) /\ Fair1(d)
  <2>1. /\ rps' = rps /\ latest' \in latest .. Horizon /\ now <= latest'
        /\ latest \in 0 .. Horizon
    BY <1>2, DecidedIs DEF TypeOK
  <2>2. CASE d # c
    <3>1. /\ late'[d] = late[d] /\ allowed'[d] = allowed[d] /\ refused'[d] = refused[d]
          /\ (Present(d)' => visitors'[d] = visitors[d])
      BY <1>2, <2>2, DecidedIs
    <3>2. Kept1(d)
      BY <2>1, <3>1, FairNext DEF NoneLost, Present
    <3>3. Fair1(d)
      BY <2>1, <3>1, FairNext DEF Fair
    <3> QED BY <3>2, <3>3
  <2>3. ASSUME d = c
        PROVE  late[c] = 0 /\ latest <= now
    <3>1. PICK m \in latest .. Horizon : m = latest'
      BY <2>1
    <3>2. late[c] \in Nat /\ late'[c] = late[c] + (m - now) /\ late'[c] = 0
      BY <1>2, <2>3, <3>1, DecidedIs DEF TypeOK
    <3>3. now \in Int /\ m \in Int /\ now <= m /\ latest <= m
      BY <2>1, <3>1, FullType
    <3> DEFINE k == m - now
    <3>4. k \in Nat
      BY <3>3, GapIs
    <3>5. late[c] + k = 0
      BY <3>2
    <3>6. k = 0 => m = now
      BY <3>3
    <3> HIDE DEF k
    <3>7. late[c] = 0 /\ k = 0
      BY <3>2, <3>4, <3>5
    <3> QED BY <3>3, <3>6, <3>7
  <2> DEFINE v == Bucket(c, now)
             a == allowed[c]
             r == Refilled(v, now)
  <2>4. v \in Visitor
    BY BucketIs
  <2>5. rps \in Nat /\ latest \in 0 .. Horizon /\ GrowsTo(a, latest)
    BY GrowsNow
  <2>6. ASSUME d = c
        PROVE  \E last \in 0 .. now, k \in Int :
                 WasFull(a, k, last) /\ r = k + Earned(now - last)
    BY <2>3, <2>6, RefilledWasFull
  <2>7. CASE d = c /\ Allow(h, c, now)
    <3> DEFINE b == allowed'[c]
    <3>1. r >= Cost /\ Decide(h, c, now, Spent(v, now)) /\ Record(c, now)
      BY <2>7 DEF Allow, Spent
    <3> HIDE DEF v
    <3>2. Spent(v, now) \in Visitor /\ Spent(v, now).tokens = r - Cost /\ Spent(v, now).last = now
      BY <2>4, <3>1, SpentIs
    <3> DEFINE w == Spent(v, now)
    <3>3. w \in Visitor /\ w.tokens = r - Cost /\ w.last = now /\ Decide(h, c, now, w)
      BY <3>1, <3>2
    <3> HIDE DEF w
    <3>4. visitors'[c].tokens = r - Cost /\ visitors'[c].last = now
      BY <3>3, DecideIs
    <3>5. \A t \in 0 .. Horizon : b[t] = IF t >= now THEN a[t] + 1 ELSE a[t]
      BY <3>1, RecordIs
    <3>6. refused'[c] = {}
      BY <3>1, RecordIs
    <3>7. PICK last \in 0 .. now, k \in Int :
            WasFull(a, k, last) /\ r = k + Earned(now - last)
      BY <2>6, <2>7
    <3>8. last \in 0 .. Horizon /\ now \in last .. Horizon
      BY FullType
    <3> HIDE DEF a, b, r
    <3>9. WasFull(b, (k + Earned(now - last)) - Cost, now)
      BY <2>5, <3>5, <3>7, <3>8, WasFullSpent
    <3>10. WasFull(b, r - Cost, now)
      BY <3>7, <3>9
    <3>11. Kept1(d)
      BY <2>1, <2>7, <3>4, <3>10, FairNext DEF b
    <3>12. Fair1(d)
      BY <2>7, <3>6
    <3> QED BY <3>11, <3>12
  <2>8. ASSUME d = c, Decide(h, c, now, v), allowed' = allowed
        PROVE  Kept1(d)
    <3>1. WasFull(a, v.tokens, v.last)
      BY <2>3, <2>8, UntouchedWasFull
    <3> HIDE DEF v
    <3>2. visitors'[c].tokens = v.tokens /\ visitors'[c].last = v.last
      BY <2>4, <2>8, DecideIs
    <3>3. WasFull(allowed'[c], v.tokens, v.last)
      BY <2>8, <3>1
    <3> QED BY <2>1, <2>8, <3>2, <3>3, FairNext
  <2>9. CASE d = c /\ AllowUnlimited(h, c, now)
    <3>1. Kept1(d)
      BY <2>8, <2>9 DEF AllowUnlimited
    <3>2. allowed' = allowed /\ refused' = refused
      BY <2>9 DEF AllowUnlimited
    <3>3. Fair1(d)
      BY <2>1, <2>3, <2>9, <3>2, FairNext DEF Fair
    <3> QED BY <3>1, <3>3
  <2>10. CASE d = c /\ Refuse(h, c, now)
    <3>1. Kept1(d)
      BY <2>8, <2>10 DEF Refuse
    <3>2. allowed' = allowed /\ refused'[c] = {now} /\ r < Cost
      BY <2>10 DEF Refuse, TypeOK
    <3>3. PICK last \in 0 .. now, k \in Int :
            WasFull(a, k, last) /\ r = k + Earned(now - last)
      BY <2>6, <2>10
    <3>4. last \in 0 .. Horizon /\ now \in last .. Horizon /\ now >= latest
      BY <2>3, <2>5, <2>10, FullType
    <3>5. k + Earned(now - last) < Cost
      BY <3>2, <3>3
    <3> HIDE DEF a, r, v
    <3>6. TooMany(a, now)
      BY <2>5, <3>3, <3>4, <3>5, WasFullTooMany
    <3>7. TooMany(allowed'[c], now)
      BY <3>2, <3>6 DEF a
    <3>8. Fair1(d)
      BY <2>1, <2>10, <3>2, <3>7, FairNext
    <3> QED BY <3>1, <3>8
  <2> QED BY <1>2, <2>2, <2>7, <2>9, <2>10 DEF Decided
<1> QED BY <1>1, <1>2, StepIs

LEMMA FairInit == Init => NoneLost /\ Fair
<1> SUFFICES ASSUME Init PROVE NoneLost /\ Fair
  OBVIOUS
<1>1. \A c \in Clients : visitors[c].there = FALSE
  BY DEF Init, Absent
<1>2. \A c \in Clients : refused[c] = {}
  BY DEF Init
<1> QED BY <1>1, <1>2 DEF NoneLost, Fair, Present

\* A client none of whose requests was overtaken is refused only when its own
\* requests have used up its share: the handler's allow and x/time's bucket, with
\* the sweep and the requests of all other clients in between.
THEOREM RefusalsAreFair == Spec => []NoUnfairRefusal
<1>1. Init => NoneLost /\ Fair
  BY FairInit
<1>2. LimiterInv /\ NoneLost /\ Fair /\ [Next]_vars => (NoneLost /\ Fair)'
  BY FairStep DEF LimiterInv
<1>3. Fair => NoUnfairRefusal
  BY DEF Fair, NoUnfairRefusal, TooMany, BeforeIn, AllowedIn, Earned, Price
<1> QED BY <1>1, <1>2, <1>3, LimiterInvariant, PTL DEF Spec
=============================================================================
