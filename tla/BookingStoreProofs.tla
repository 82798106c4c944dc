-------------------------- MODULE BookingStoreProofs --------------------------
(***************************************************************************)
(* Proofs about BookingStore, for any set of requests and handlers, any    *)
(* TTL and any horizon of the clock.  The first part holds however the     *)
(* handlers interleave.  The second is that BookingStore implements        *)
(* BookingLifecycle when no two resolutions of one token are in flight     *)
(* together.  The assumption is needed: SingleUse, which the lifecycle     *)
(* implies, fails without it.                                              *)
(***************************************************************************)
EXTENDS BookingStore, TLAPS

(* Tokens of different rows and of different columns never coincide: the   *)
(* abstraction of 32 random bytes.                                         *)
LEMMA TokensDiffer ==
  /\ \A r, q : Token(r) = Token(q) => r = q
  /\ \A r, q : Token(r) # StatusToken(q)
  /\ \A r : Token(r) # NoToken
  /\ \A r : Token(r).column = "token" /\ StatusToken(r).column = "status_token"
BY DEF Token, StatusToken, NoToken

LEMMA TokensType ==
  /\ NoToken \in Tokens
  /\ \A r \in Requests : Token(r) \in Tokens /\ StatusToken(r) \in Tokens
BY DEF Token, StatusToken, NoToken, Tokens

LEMMA IdleJobType == IdleJob \in Job
BY TokensType DEF IdleJob, Job, Decision, Status, Result

(* An answer keeps the type of the jobs. *)
LEMMA AnswerType ==
  ASSUME TypeOK, NEW h \in Handlers, NEW result \in Result, Answer(h, result)
  PROVE  /\ now' \in Nat
         /\ expires' \in [Requests -> Nat]
         /\ enqueue' = enqueue
         /\ told' = told
         /\ job' \in [Handlers -> Job]
<1>1. job[h] \in Job
  BY DEF TypeOK
<1>2. [job[h] EXCEPT !.at = "done", !.result = result,
                     !.seen = "pending", !.limit = 0] \in Job
  BY <1>1 DEF Job, Status
<1>. QED
  BY <1>2 DEF TypeOK, Answer

LEMMA TypeCorrectInit == Init => TypeOK
BY IdleJobType DEF Init, TypeOK

(* Every reachable state of the store is well typed: in particular a row's *)
(* status column only ever holds one of the three values of type Status.   *)
THEOREM TypeCorrect == Spec => []TypeOK
<1>1. Init => TypeOK
  BY TypeCorrectInit
<1>2. TypeOK /\ [Next]_vars => TypeOK'
  <2> SUFFICES ASSUME TypeOK, [Next]_vars PROVE TypeOK'
    OBVIOUS
  <2> USE StoreAssumption
  <2>1. ASSUME NEW r \in Requests, Stamp(r) PROVE TypeOK'
    BY <2>1 DEF Stamp, TypeOK
  <2>2. ASSUME NEW r \in Requests, Insert(r) PROVE TypeOK'
    BY <2>2 DEF Insert, TypeOK, Status
  <2>3. ASSUME NEW r \in Requests, InsertFails(r) PROVE TypeOK'
    BY <2>3 DEF InsertFails, TypeOK
  <2>4. ASSUME NEW r \in Requests, CheckStatus(r) PROVE TypeOK'
    BY <2>4 DEF CheckStatus, TypeOK
  <2>5. ASSUME NEW h \in Handlers, NEW r \in Requests, NEW d \in Decision,
               NEW t \in Tokens, Call(h, r, t, d)
        PROVE  TypeOK'
    <3>1. status[r] \in Status
      BY <2>5 DEF Call, TypeOK
    <3>2. (now > expires[r]) \in BOOLEAN
      OBVIOUS
    <3>3. [IdleJob EXCEPT !.at = "called", !.token = t, !.next = d,
                          !.before = status[r], !.lapsed = now > expires[r]]
            \in Job
      BY <3>1, <3>2, IdleJobType DEF Job
    <3>. QED
      BY <2>5, <3>3 DEF Call, TypeOK
  <2>6. ASSUME NEW h \in Handlers, ReadRow(h) PROVE TypeOK'
    <3>1. PICK r \in RowsWithToken(job[h].token) :
            job' = [job EXCEPT ![h] = [@ EXCEPT !.at = "read",
                      !.seen = status[r], !.limit = expires[r]]]
      BY <2>6 DEF ReadRow
    <3>2. r \in Requests /\ status[r] \in Status /\ expires[r] \in Nat
      BY DEF RowsWithToken, TypeOK
    <3>3. [job[h] EXCEPT !.at = "read", !.seen = status[r],
                         !.limit = expires[r]] \in Job
      <4>1. job[h] \in Job
        BY DEF TypeOK
      <4>. HIDE DEF TypeOK
      <4>. QED
        BY <3>2, <4>1 DEF Job
    <3>. QED
      BY <2>6, <3>1, <3>3 DEF ReadRow, TypeOK
  <2>7. ASSUME NEW h \in Handlers, CheckPasses(h) PROVE TypeOK'
    BY <2>7 DEF CheckPasses, TypeOK, Job
  <2>8. ASSUME NEW h \in Handlers, NEW result \in Result,
               Answer(h, result), UNCHANGED status
        PROVE  TypeOK'
    BY <2>8, AnswerType DEF TypeOK
  <2>9. ASSUME NEW h \in Handlers, Update(h) PROVE TypeOK'
    <3>1. Answer(h, "ok") /\ "ok" \in Result
      BY <2>9 DEF Update, Result
    <3>2. job[h].next \in Status
      BY DEF TypeOK, Job, Status
    <3>3. status' \in [Requests -> Status \cup {"absent"}]
      BY <2>9, <3>2 DEF Update, TypeOK
    <3>. QED
      BY <3>1, <3>3, AnswerType DEF TypeOK
  <2>10. CASE Tick
    BY <2>10 DEF Tick, TypeOK
  <2>11. CASE Restart
    BY <2>11, IdleJobType DEF Restart, TypeOK
  <2>12. CASE UNCHANGED vars
    BY <2>12 DEF vars, TypeOK
  <2>13. ASSUME NEW h \in Handlers, ResolveStep(h) PROVE TypeOK'
    BY <2>13, <2>6, <2>7, <2>8, <2>9
       DEF ResolveStep, ReadNothing, ReadFails, CheckUsed, CheckExpired,
           UpdateFails, Result
  <2>. QED
    BY <2>1, <2>2, <2>3, <2>4, <2>5, <2>10, <2>11, <2>12, <2>13, TokensType
       DEF Next
<1>. QED
  BY <1>1, <1>2, PTL DEF Spec
-----------------------------------------------------------------------------
(* The invariant behind the safety properties.  A job remembers the row as   *)
(* its SELECT returned it; what it remembers may be stale, but a row is only *)
(* ever decided further and time only passes, so a row that was decided or   *)
(* expired when the POST arrived looks so to the checks.                     *)

RowInv == \A r \in Requests : status[r] # "absent" => enqueue[r] = "stored"

ToldInv == \A r \in Requests : told[r] \in Decision => status[r] \in Decision

RowOfJob(h, r) ==
  /\ status[r] # "absent"
  /\ job[h].before # "pending" => status[r] # "pending"
  /\ job[h].lapsed => now > expires[r]
  /\ job[h].at \in {"read", "checked"} =>
       /\ job[h].limit = expires[r]
       /\ job[h].before # "pending" => job[h].seen # "pending"

JobInv(h) ==
  /\ job[h].at \in {"read", "checked"} =>
       \E r \in Requests : job[h].token = Token(r)
  /\ job[h].at = "checked" => job[h].seen = "pending" /\ ~job[h].lapsed
  /\ \A r \in Requests :
       job[h].at \in Active /\ job[h].token = Token(r) => RowOfJob(h, r)
  /\ Ok(h) => /\ job[h].before = "pending"
              /\ ~job[h].lapsed
              /\ job[h].token.column = "token"

SafeInv == TypeOK /\ RowInv /\ ToldInv /\ \A h \in Handlers : JobInv(h)

(* A job that does not move keeps its invariant while rows only come into    *)
(* being or get decided, and the clock only moves on.                        *)
LEMMA JobUndisturbed ==
  ASSUME TypeOK, TypeOK', NEW h \in Handlers, JobInv(h), job'[h] = job[h],
         \A r \in Requests :
           status[r] # "absent" => /\ status'[r] # "absent"
                                   /\ expires'[r] = expires[r]
                                   /\ status[r] # "pending" => status'[r] # "pending",
         now' >= now
  PROVE  JobInv(h)'
<1>1. ASSUME NEW r \in Requests, job[h].at \in Active, job[h].token = Token(r)
      PROVE  RowOfJob(h, r)'
  <2>1. RowOfJob(h, r)
    BY <1>1 DEF JobInv
  <2>2. now \in Nat /\ now' \in Nat /\ expires[r] \in Nat
    BY DEF TypeOK
  <2>. QED
    BY <2>1, <2>2 DEF RowOfJob
<1>. QED
  BY <1>1 DEF JobInv, Ok, Token

(* A handler that answers with anything but success leaves nothing behind.   *)
LEMMA AnswerWithoutSuccess ==
  ASSUME SafeInv, TypeOK', NEW h \in Handlers, NEW result \in Result,
         result # "ok", Answer(h, result), UNCHANGED status
  PROVE  SafeInv'
<1>1. ASSUME NEW g \in Handlers PROVE JobInv(g)'
  <2>1. CASE g # h
    BY <2>1, JobUndisturbed DEF SafeInv, TypeOK, Answer
  <2>2. CASE g = h
    <3>1. job'[h].at = "done" /\ job'[h].result # "ok"
      BY DEF Answer, SafeInv, TypeOK, Job
    <3>. QED
      BY <2>2, <3>1 DEF JobInv, Ok, Active
  <2>. QED
    BY <2>1, <2>2
<1>. QED
  BY <1>1 DEF SafeInv, RowInv, ToldInv, Answer

LEMMA SafeStep == SafeInv /\ TypeOK' /\ [Next]_vars => SafeInv'
<1> SUFFICES ASSUME SafeInv, TypeOK', [Next]_vars PROVE SafeInv'
  OBVIOUS
<1>1. ASSUME NEW r \in Requests, Stamp(r) PROVE SafeInv'
  <2>1. status[r] = "absent"
    BY <1>1 DEF Stamp, SafeInv, RowInv
  <2>2. \A h \in Handlers : JobInv(h)'
    BY <1>1, <2>1, JobUndisturbed DEF Stamp, SafeInv, TypeOK
  <2>. QED
    BY <1>1, <2>1, <2>2 DEF Stamp, SafeInv, TypeOK, RowInv, ToldInv
<1>2. ASSUME NEW r \in Requests, Insert(r) PROVE SafeInv'
  <2>1. status[r] = "absent"
    BY <1>2 DEF Insert, SafeInv, RowInv
  <2>2. \A h \in Handlers : JobInv(h)'
    BY <1>2, <2>1, JobUndisturbed DEF Insert, SafeInv, TypeOK
  <2>. QED
    BY <1>2, <2>1, <2>2
       DEF Insert, SafeInv, TypeOK, RowInv, ToldInv, Decision
<1>3. ASSUME NEW r \in Requests, InsertFails(r) PROVE SafeInv'
  <2>1. status[r] = "absent"
    BY <1>3 DEF InsertFails, SafeInv, RowInv
  <2>2. \A h \in Handlers : JobInv(h)'
    BY <1>3, JobUndisturbed DEF InsertFails, SafeInv, TypeOK
  <2>. QED
    BY <1>3, <2>1, <2>2 DEF InsertFails, SafeInv, TypeOK, RowInv, ToldInv
<1>4. ASSUME NEW r \in Requests, CheckStatus(r) PROVE SafeInv'
  <2>1. \A h \in Handlers : JobInv(h)'
    BY <1>4, JobUndisturbed DEF CheckStatus, SafeInv, TypeOK
  <2>. QED
    BY <1>4, <2>1 DEF CheckStatus, SafeInv, TypeOK, RowInv, ToldInv
<1>5. ASSUME NEW h \in Handlers, NEW r \in Requests, NEW d \in Decision,
             NEW t \in {Token(r), StatusToken(r)}, Call(h, r, t, d)
      PROVE  SafeInv'
  <2>1. ASSUME NEW g \in Handlers, g # h PROVE JobInv(g)'
    BY <1>5, <2>1, JobUndisturbed DEF Call, SafeInv, TypeOK
  <2>2. /\ job'[h].at = "called" /\ job'[h].token = t
        /\ job'[h].before = status[r] /\ job'[h].lapsed = (now > expires[r])
    BY <1>5 DEF Call, SafeInv, TypeOK, IdleJob
  <2>3. ASSUME NEW q \in Requests, t = Token(q) PROVE q = r
    BY <2>3, TokensDiffer
  <2>4. JobInv(h)'
    BY <1>5, <2>2, <2>3 DEF JobInv, RowOfJob, Ok, Call, Token
  <2>. QED
    BY <1>5, <2>1, <2>4 DEF Call, SafeInv, RowInv, ToldInv
<1>6. ASSUME NEW h \in Handlers, ReadRow(h) PROVE SafeInv'
  <2>1. PICK r \in RowsWithToken(job[h].token) :
          job' = [job EXCEPT ![h] = [@ EXCEPT !.at = "read",
                    !.seen = status[r], !.limit = expires[r]]]
    BY <1>6 DEF ReadRow
  <2>2. r \in Requests /\ job[h].token = Token(r)
    BY DEF RowsWithToken
  <2>3. ASSUME NEW g \in Handlers, g # h PROVE JobInv(g)'
    BY <1>6, <2>1, <2>3, JobUndisturbed DEF ReadRow, SafeInv, TypeOK
  <2>4. RowOfJob(h, r)
    BY <1>6, <2>2 DEF ReadRow, SafeInv, JobInv, Active
  <2>5. /\ job'[h].at = "read" /\ job'[h].token = job[h].token
        /\ job'[h].before = job[h].before /\ job'[h].lapsed = job[h].lapsed
        /\ job'[h].seen = status[r] /\ job'[h].limit = expires[r]
    BY <2>1 DEF SafeInv, TypeOK, Job
  <2>6. RowOfJob(h, r)'
    BY <1>6, <2>4, <2>5 DEF RowOfJob, ReadRow
  <2>7. \A q \in Requests : job[h].token = Token(q) => q = r
    BY <2>2, TokensDiffer
  <2>8. \E q \in Requests : job'[h].token = Token(q)
    BY <2>2, <2>5
  <2>9. JobInv(h)'
    BY <2>5, <2>6, <2>7, <2>8 DEF JobInv, Ok, Token
  <2>. QED
    BY <1>6, <2>3, <2>9 DEF ReadRow, SafeInv, RowInv, ToldInv
<1>7. ASSUME NEW h \in Handlers, CheckPasses(h) PROVE SafeInv'
  <2>1. ASSUME NEW g \in Handlers, g # h PROVE JobInv(g)'
    BY <1>7, <2>1, JobUndisturbed DEF CheckPasses, SafeInv, TypeOK
  <2>2. PICK r \in Requests : job[h].token = Token(r)
    BY <1>7 DEF CheckPasses, SafeInv, JobInv
  <2>3. RowOfJob(h, r)
    BY <1>7, <2>2 DEF CheckPasses, SafeInv, JobInv, Active
  <2>4. ~job[h].lapsed
    BY <1>7, <2>3 DEF CheckPasses, RowOfJob, SafeInv, TypeOK
  <2>5. /\ job'[h].at = "checked" /\ job'[h].token = job[h].token
        /\ job'[h].before = job[h].before /\ job'[h].lapsed = job[h].lapsed
        /\ job'[h].seen = job[h].seen /\ job'[h].limit = job[h].limit
    BY <1>7 DEF CheckPasses, SafeInv, TypeOK, Job
  <2>6. RowOfJob(h, r)'
    BY <1>7, <2>3, <2>5 DEF RowOfJob, CheckPasses
  <2>7. \A q \in Requests : job[h].token = Token(q) => q = r
    BY <2>2, TokensDiffer
  <2>8. JobInv(h)'
    BY <1>7, <2>2, <2>4, <2>5, <2>6, <2>7 DEF CheckPasses, JobInv, Ok, Token
  <2>. QED
    BY <1>7, <2>1, <2>8 DEF CheckPasses, SafeInv, RowInv, ToldInv
<1>8. ASSUME NEW h \in Handlers, Update(h) PROVE SafeInv'
  <2>1. job[h].next \in Decision
    BY DEF SafeInv, TypeOK, Job
  <2>2. \A r \in Requests :
          /\ status'[r] = "absent" <=> status[r] = "absent"
          /\ status'[r] = status[r] \/ status'[r] \in Decision
    BY <1>8, <2>1 DEF Update, RowsWithToken, Decision
  <2>3. ASSUME NEW g \in Handlers, g # h PROVE JobInv(g)'
    BY <1>8, <2>2, <2>3, JobUndisturbed
       DEF Update, Answer, SafeInv, TypeOK, Decision
  <2>4. PICK r \in Requests : job[h].token = Token(r) /\ RowOfJob(h, r)
    BY <1>8 DEF Update, SafeInv, JobInv, Active
  <2>5. job[h].before = "pending" /\ ~job[h].lapsed
    BY <1>8, <2>4 DEF Update, SafeInv, JobInv, RowOfJob
  <2>6. /\ job'[h].at = "done" /\ job'[h].token = job[h].token
        /\ job'[h].before = job[h].before /\ job'[h].lapsed = job[h].lapsed
    BY <1>8 DEF Update, Answer, SafeInv, TypeOK, Job
  <2>7. JobInv(h)'
    BY <2>4, <2>5, <2>6 DEF JobInv, Active, Token
  <2>. QED
    BY <1>8, <2>2, <2>3, <2>7
       DEF Update, Answer, SafeInv, RowInv, ToldInv
<1>9. CASE Tick
  <2>1. \A h \in Handlers : JobInv(h)'
    BY <1>9, JobUndisturbed DEF Tick, SafeInv, TypeOK
  <2>. QED
    BY <1>9, <2>1 DEF Tick, SafeInv, RowInv, ToldInv
<1>10. CASE Restart
  <2>1. \A h \in Handlers : job'[h] = IdleJob
    BY <1>10 DEF Restart
  <2>2. \A h \in Handlers : JobInv(h)'
    BY <2>1 DEF JobInv, IdleJob, Active, Ok
  <2>. QED
    BY <1>10, <2>2 DEF Restart, SafeInv, TypeOK, RowInv, ToldInv
<1>11. CASE UNCHANGED vars
  <2>1. \A h \in Handlers : JobInv(h)'
    BY <1>11, JobUndisturbed DEF vars, SafeInv, TypeOK
  <2>. QED
    BY <1>11, <2>1 DEF vars, SafeInv, RowInv, ToldInv
<1>12. ASSUME NEW h \in Handlers, ResolveStep(h) PROVE SafeInv'
  BY <1>12, <1>6, <1>7, <1>8, AnswerWithoutSuccess
     DEF ResolveStep, ReadNothing, ReadFails, CheckUsed, CheckExpired,
         UpdateFails, Result
<1>. QED
  BY <1>1, <1>2, <1>3, <1>4, <1>5, <1>9, <1>10, <1>11, <1>12 DEF Next

LEMMA SafeInit == Init => SafeInv
BY TypeCorrectInit DEF Init, SafeInv, RowInv, ToldInv, JobInv, IdleJob, Ok,
                       Active, Decision

LEMMA SafeAlways == Spec => []SafeInv
<1>. QED
  BY SafeInit, SafeStep, TypeCorrect, PTL DEF Spec

(* A confirm or deny that arrives after the decision is never answered with  *)
(* success: the status check of resolve, although it looks at a row that may *)
(* have changed since.                                                       *)
THEOREM UsedTokens == Spec => []UsedTokenStaysUsed
<1>1. SafeInv => UsedTokenStaysUsed
  BY DEF SafeInv, JobInv, UsedTokenStaysUsed
<1>. QED
  BY <1>1, SafeAlways, PTL

(* Nor is one that arrives after the token expired, wherever the clock moves *)
(* between the SELECT and the UPDATE.                                        *)
THEOREM ExpiredTokens == Spec => []ExpiredTokenStaysExpired
<1>1. SafeInv => ExpiredTokenStaysExpired
  BY DEF SafeInv, JobInv, ExpiredTokenStaysExpired
<1>. QED
  BY <1>1, SafeAlways, PTL

(* A status token, which the requester holds, never decides a request.       *)
THEOREM StatusTokens == Spec => []StatusTokenNeverResolves
<1>1. SafeInv => StatusTokenNeverResolves
  BY DEF SafeInv, JobInv, StatusTokenNeverResolves
<1>. QED
  BY <1>1, SafeAlways, PTL

(* No step of the store takes a decision back from a requester who has been  *)
(* told of it: Enqueue only creates rows, and resolve only decides them.     *)
THEOREM ToldDecisions == Spec => ToldNeverReopens
<1>1. SafeInv /\ SafeInv' /\ [Next]_vars =>
        [\A r \in Requests : told[r] \in Decision => told'[r] \in Decision]_vars
  <2> SUFFICES ASSUME SafeInv, Next, NEW r \in Requests, told[r] \in Decision
               PROVE  told'[r] \in Decision
    OBVIOUS
  <2>1. status[r] \in Decision
    <3>1. ToldInv
      BY DEF SafeInv
    <3>. QED
      BY <3>1 DEF ToldInv
  <2>2. told'[r] \in {told[r], status[r]}
    BY DEF SafeInv, TypeOK, Next, Stamp, Insert, InsertFails, CheckStatus,
           Call, ResolveStep, ReadRow, ReadNothing, ReadFails, CheckUsed,
           CheckExpired, CheckPasses, Update, UpdateFails, Answer, Tick, Restart
  <2>. QED
    BY <2>1, <2>2
<1>. QED
  BY <1>1, SafeAlways, PTL DEF Spec, ToldNeverReopens
-----------------------------------------------------------------------------
(* One resolution of a token at a time *)

(* The invariant that serial resolutions keep: what a handler read of its   *)
(* row is still so when it updates it, and what it wrote is still there.    *)
AloneInv ==
  \A g, h \in Handlers :
    g # h /\ job[g].at \in Active /\ job[h].at \in Active =>
      job[g].token # job[h].token

FreshInv(h) ==
  \A r \in Requests : job[h].token = Token(r) =>
    /\ job[h].at \in {"read", "checked"} => status[r] = job[h].seen
    /\ Ok(h) => status[r] = job[h].next

SerialInv == AloneInv /\ \A h \in Handlers : FreshInv(h)

LEMMA SerialInit == Init => SerialInv
BY DEF Init, SerialInv, AloneInv, FreshInv, IdleJob, Active, Ok

(* A job that does not move stays fresh if its row does not change. *)
LEMMA StaysFresh ==
  ASSUME NEW h \in Handlers, FreshInv(h), job'[h] = job[h],
         \A r \in Requests : job[h].token = Token(r) => status'[r] = status[r]
  PROVE  FreshInv(h)'
BY DEF FreshInv, Ok, Token

(* Ending a job, or answering with an error, keeps the invariant. *)
LEMMA AnswerSerial ==
  ASSUME SafeInv, SerialInv, NEW h \in Handlers, NEW result \in Result,
         result # "ok", Answer(h, result), UNCHANGED status
  PROVE  SerialInv'
<1>1. job'[h].at = "done" /\ job'[h].result # "ok"
  BY DEF Answer, SafeInv, TypeOK, Job
<1>2. \A g \in Handlers : g # h => job'[g] = job[g]
  BY DEF Answer, SafeInv, TypeOK
<1>3. AloneInv'
  BY <1>1, <1>2 DEF SerialInv, AloneInv, Active
<1>4. ASSUME NEW g \in Handlers PROVE FreshInv(g)'
  <2>1. CASE g # h
    BY <2>1, <1>2, StaysFresh DEF SerialInv
  <2>2. CASE g = h
    BY <2>2, <1>1 DEF FreshInv, Ok
  <2>. QED
    BY <2>1, <2>2
<1>. QED
  BY <1>3, <1>4 DEF SerialInv

(* A row with a job on it exists already, so creating one disturbs no job. *)
LEMMA NewRowHasNoJob ==
  ASSUME SafeInv, SerialInv, NEW h \in Handlers, NEW r \in Requests,
         status[r] = "absent", job[h].token = Token(r)
  PROVE  job[h].at \notin Active /\ ~Ok(h)
<1>1. job[h].next \in Decision
  BY DEF SafeInv, TypeOK, Job
<1>2. status[r] \notin Decision
  BY DEF Decision
<1>. QED
  BY <1>1, <1>2
     DEF SafeInv, JobInv, RowOfJob, SerialInv, FreshInv

(* Without overlap every step keeps SerialInv. *)
LEMMA SerialStep ==
  ASSUME Overlap = FALSE
  PROVE  SafeInv /\ SerialInv /\ [Next]_vars => SerialInv'
<1> SUFFICES ASSUME SafeInv, SerialInv, [Next]_vars PROVE SerialInv'
  OBVIOUS
<1>1. ASSUME UNCHANGED <<status, job>> PROVE SerialInv'
  BY <1>1 DEF SerialInv, AloneInv, FreshInv, Ok, Token, Active
<1>2. ASSUME NEW r \in Requests, Insert(r) PROVE SerialInv'
  <2>1. status[r] = "absent" /\ job' = job
    BY <1>2 DEF Insert, SafeInv, RowInv
  <2>2. AloneInv'
    BY <2>1 DEF SerialInv, AloneInv, Active
  <2>3. ASSUME NEW h \in Handlers PROVE FreshInv(h)'
    <3>1. CASE job[h].token = Token(r)
      <4>1. job[h].at \notin Active /\ ~Ok(h)
        BY <2>1, <3>1, NewRowHasNoJob
      <4>. QED
        BY <2>1, <4>1 DEF FreshInv, Active, Ok
    <3>2. CASE job[h].token # Token(r)
      BY <1>2, <2>1, <3>2, StaysFresh DEF Insert, SerialInv, SafeInv, TypeOK
    <3>. QED
      BY <3>1, <3>2
  <2>. QED
    BY <2>2, <2>3 DEF SerialInv
<1>3. ASSUME NEW h \in Handlers, NEW r \in Requests, NEW d \in Decision,
             NEW t \in {Token(r), StatusToken(r)}, Call(h, r, t, d)
      PROVE  SerialInv'
  <2>1. /\ job'[h].at = "called" /\ job'[h].token = t
        /\ \A g \in Handlers : g # h => job'[g] = job[g]
        /\ \A g \in Handlers : job[g].at \in Active => job[g].token # t
    BY <1>3 DEF Call, SafeInv, TypeOK, IdleJob
  <2>2. AloneInv'
    BY <2>1 DEF SerialInv, AloneInv
  <2>3. FreshInv(h)'
    BY <2>1 DEF FreshInv, Ok
  <2>4. ASSUME NEW g \in Handlers, g # h PROVE FreshInv(g)'
    BY <1>3, <2>1, <2>4, StaysFresh DEF Call, SerialInv
  <2>. QED
    BY <2>2, <2>3, <2>4 DEF SerialInv
<1>4. ASSUME NEW h \in Handlers, ReadRow(h) PROVE SerialInv'
  <2>1. PICK r \in RowsWithToken(job[h].token) :
          job' = [job EXCEPT ![h] = [@ EXCEPT !.at = "read",
                    !.seen = status[r], !.limit = expires[r]]]
    BY <1>4 DEF ReadRow
  <2>2. /\ job'[h].at = "read" /\ job'[h].token = job[h].token
        /\ job'[h].seen = status[r] /\ job[h].at = "called"
        /\ \A g \in Handlers : g # h => job'[g] = job[g]
    BY <1>4, <2>1 DEF ReadRow, SafeInv, TypeOK, Job
  <2>3. AloneInv'
    BY <2>2 DEF SerialInv, AloneInv, Active
  <2>4. \A q \in Requests : job[h].token = Token(q) => q = r
    BY <2>1, TokensDiffer DEF RowsWithToken
  <2>5. FreshInv(h)'
    BY <1>4, <2>2, <2>4 DEF FreshInv, Ok, ReadRow, Token
  <2>6. ASSUME NEW g \in Handlers, g # h PROVE FreshInv(g)'
    BY <1>4, <2>2, <2>6, StaysFresh DEF ReadRow, SerialInv
  <2>. QED
    BY <2>3, <2>5, <2>6 DEF SerialInv
<1>5. ASSUME NEW h \in Handlers, CheckPasses(h) PROVE SerialInv'
  <2>1. /\ job'[h].at = "checked" /\ job'[h].token = job[h].token
        /\ job'[h].seen = job[h].seen /\ job[h].at = "read"
        /\ \A g \in Handlers : g # h => job'[g] = job[g]
    BY <1>5 DEF CheckPasses, SafeInv, TypeOK, Job
  <2>2. AloneInv'
    BY <2>1 DEF SerialInv, AloneInv, Active
  <2>3. FreshInv(h)'
    BY <1>5, <2>1 DEF FreshInv, Ok, CheckPasses, SerialInv, Token
  <2>4. ASSUME NEW g \in Handlers, g # h PROVE FreshInv(g)'
    BY <1>5, <2>1, <2>4, StaysFresh DEF CheckPasses, SerialInv
  <2>. QED
    BY <2>2, <2>3, <2>4 DEF SerialInv
<1>6. ASSUME NEW h \in Handlers, Update(h) PROVE SerialInv'
  <2>1. /\ job'[h].at = "done" /\ job'[h].token = job[h].token
        /\ job'[h].next = job[h].next /\ job[h].at = "checked"
        /\ \A g \in Handlers : g # h => job'[g] = job[g]
    BY <1>6 DEF Update, Answer, SafeInv, TypeOK, Job
  <2>2. \A q \in Requests : status'[q] = IF q \in RowsWithToken(job[h].token)
                                         THEN job[h].next ELSE status[q]
    BY <1>6 DEF Update
  <2>3. PICK r \in Requests : job[h].token = Token(r) /\ status[r] = "pending"
    BY <2>1 DEF SafeInv, JobInv, SerialInv, FreshInv
  <2>4. RowsWithToken(job[h].token) = {r}
    BY <2>3, TokensDiffer DEF RowsWithToken
  <2>5. AloneInv'
    BY <2>1 DEF SerialInv, AloneInv, Active
  <2>6. FreshInv(h)'
    <3>1. \A q \in Requests : job[h].token = Token(q) => q = r
      BY <2>3, TokensDiffer
    <3>. QED
      BY <2>1, <2>2, <2>4, <3>1 DEF FreshInv, Token
  <2>7. ASSUME NEW g \in Handlers, g # h PROVE FreshInv(g)'
    <3>1. CASE job[g].token = Token(r)
      <4>1. job[g].at \notin Active
        BY <2>1, <2>3, <2>7, <3>1 DEF SerialInv, AloneInv, Active
      <4>2. job[g].next \in Decision
        BY DEF SafeInv, TypeOK, Job
      <4>3. ~Ok(g)
        BY <2>3, <3>1, <4>2 DEF SerialInv, FreshInv, Decision
      <4>. QED
        BY <2>1, <2>7, <4>1, <4>3 DEF FreshInv, Active, Ok
    <3>2. CASE job[g].token # Token(r)
      BY <2>1, <2>2, <2>4, <2>7, <3>2, StaysFresh DEF SerialInv
    <3>. QED
      BY <3>1, <3>2
  <2>. QED
    BY <2>5, <2>6, <2>7 DEF SerialInv
<1>7. CASE Restart
  BY <1>7 DEF Restart, SerialInv, AloneInv, FreshInv, IdleJob, Active, Ok
<1>8. ASSUME NEW h \in Handlers, ResolveStep(h) PROVE SerialInv'
  BY <1>8, <1>4, <1>5, <1>6, AnswerSerial
     DEF ResolveStep, ReadNothing, ReadFails, CheckUsed, CheckExpired,
         UpdateFails, Result
<1>. QED
  BY <1>1, <1>2, <1>3, <1>7, <1>8
     DEF Next, vars, Stamp, InsertFails, CheckStatus, Tick

LEMMA SerialAlways ==
  ASSUME Overlap = FALSE
  PROVE  Spec => []SerialInv
<1>. QED
  BY SerialInit, SerialStep, SafeAlways, PTL DEF Spec

(* Without overlap, what the provider was told of a confirm or deny is what *)
(* the row says from then on.                                               *)
THEOREM RepliesMatchRows ==
  ASSUME Overlap = FALSE
  PROVE  Spec => []ReplyMatchesRow
<1>1. SafeInv /\ SerialInv => ReplyMatchesRow
  <2> SUFFICES ASSUME SafeInv, SerialInv, NEW h \in Handlers, Ok(h)
               PROVE  \E r \in Requests :
                        job[h].token = Token(r) /\ status[r] = job[h].next
    BY DEF ReplyMatchesRow
  <2>1. job[h].token \in Tokens /\ job[h].token.column = "token"
    BY DEF SafeInv, TypeOK, Job, JobInv
  <2>2. \E r \in Requests : job[h].token = Token(r)
    BY <2>1 DEF Tokens, Token, NoToken
  <2>. QED
    BY <2>2 DEF SerialInv, FreshInv
<1>. QED
  BY <1>1, SafeAlways, SerialAlways, PTL

(* Without overlap a confirm or deny token works once: the first success is *)
(* in the row when the status of a second call is checked.  With it, the    *)
(* second call can be past that check, which is how SingleUse fails.        *)
THEOREM WorksOnceAlone ==
  ASSUME Overlap = FALSE
  PROVE  Spec => []SingleUse
<1>1. Init => SingleUse
  BY DEF Init, SingleUse, IdleJob, Ok
<1>2. SafeInv /\ SerialInv /\ SingleUse /\ [Next]_vars => SingleUse'
  <2> SUFFICES ASSUME SafeInv, SerialInv, SingleUse, [Next]_vars PROVE SingleUse'
    OBVIOUS
  <2>1. ASSUME NEW h \in Handlers, \A g \in Handlers : g # h => job'[g] = job[g], ~Ok(h)'
        PROVE  SingleUse'
    BY <2>1 DEF SingleUse, Ok
  <2>2. ASSUME NEW h \in Handlers, NEW r \in Requests, NEW d \in Decision,
               NEW t \in {Token(r), StatusToken(r)}, Call(h, r, t, d)
        PROVE  SingleUse'
    BY <2>1, <2>2 DEF Call, SafeInv, TypeOK, IdleJob, Ok
  <2>3. ASSUME NEW h \in Handlers, ReadRow(h) PROVE SingleUse'
    BY <2>1, <2>3 DEF ReadRow, SafeInv, TypeOK, Job, Ok
  <2>4. ASSUME NEW h \in Handlers, CheckPasses(h) PROVE SingleUse'
    BY <2>1, <2>4 DEF CheckPasses, SafeInv, TypeOK, Job, Ok
  <2>5. ASSUME NEW h \in Handlers, NEW result \in Result, result # "ok", Answer(h, result)
        PROVE  SingleUse'
    BY <2>1, <2>5 DEF Answer, SafeInv, TypeOK, Job, Ok
  <2>6. ASSUME NEW h \in Handlers, Update(h) PROVE SingleUse'
    <3>1. PICK r \in Requests : job[h].token = Token(r) /\ status[r] = "pending"
      BY <2>6 DEF Update, SafeInv, JobInv, SerialInv, FreshInv
    <3>2. ASSUME NEW g \in Handlers, Ok(g) PROVE job[g].token # job[h].token
      <4>1. job[g].next # "pending"
        BY DEF SafeInv, TypeOK, Job, Decision
      <4>. QED
        BY <3>1, <3>2, <4>1 DEF SerialInv, FreshInv
    <3>3. job'[h].token = job[h].token /\ \A g \in Handlers : g # h => job'[g] = job[g]
      BY <2>6 DEF Update, Answer, SafeInv, TypeOK, Job
    <3>. QED
      BY <3>2, <3>3 DEF SingleUse, Ok
  <2>7. CASE Restart
    BY <2>7 DEF Restart, SingleUse, IdleJob, Ok
  <2>8. ASSUME NEW h \in Handlers, ResolveStep(h) PROVE SingleUse'
    BY <2>8, <2>3, <2>4, <2>5, <2>6
       DEF ResolveStep, ReadNothing, ReadFails, CheckUsed, CheckExpired, UpdateFails, Result
  <2>9. CASE UNCHANGED job
    BY <2>9 DEF SingleUse, Ok
  <2>. QED
    BY <2>2, <2>7, <2>8, <2>9
       DEF Next, vars, Stamp, Insert, InsertFails, CheckStatus, Tick
<1>. QED
  BY <1>1, <1>2, SafeAlways, SerialAlways, PTL DEF Spec
-----------------------------------------------------------------------------
(* The refinement.  A step of the store is a step of the lifecycle, or only *)
(* closes requests (Lapse), or changes nothing the lifecycle sees.          *)

LEMMA OnlyCloses ==
  ASSUME UNCHANGED <<status, told>>, Open' \subseteq Open
  PROVE  Lifecycle!Next
BY DEF Lifecycle!Next, Lifecycle!Lapse

(* A step that moves no job towards its UPDATE opens nothing. *)
LEMMA OpenShrinks ==
  ASSUME TypeOK, TypeOK', UNCHANGED <<status, expires>>, now' >= now,
         \A h \in Handlers : job'[h].at = "checked" =>
           job[h].at = "checked" /\ job'[h].token = job[h].token
  PROVE  Open' \subseteq Open
<1> SUFFICES ASSUME NEW r \in Requests, r \in Open' PROVE r \in Open
  BY DEF Open
<1>1. now \in Nat /\ now' \in Nat /\ expires[r] \in Nat
  BY DEF TypeOK
<1>. QED
  BY <1>1 DEF Open, Token

LEMMA LifecycleInit == Init => Lifecycle!Init
BY DEF Init, Lifecycle!Init, Open

(* Answering without an UPDATE closes at most the row that was checked. *)
LEMMA AnswerCloses ==
  ASSUME SafeInv, TypeOK', NEW h \in Handlers, NEW result, Answer(h, result),
         UNCHANGED status
  PROVE  Lifecycle!Next
<1>1. \A g \in Handlers : job'[g].at = "checked" =>
        job[g].at = "checked" /\ job'[g].token = job[g].token
  BY DEF Answer, SafeInv, TypeOK, Job
<1>. QED
  BY <1>1, OpenShrinks, OnlyCloses DEF Answer, SafeInv, TypeOK

LEMMA LifecycleStep ==
  SafeInv /\ SerialInv /\ TypeOK' /\ [Next]_vars
    => [Lifecycle!Next]_(Lifecycle!vars)
<1> SUFFICES ASSUME SafeInv, SerialInv, TypeOK', [Next]_vars
             PROVE  Lifecycle!Next \/ UNCHANGED <<status, Open, told>>
  BY DEF Lifecycle!vars
<1>1. ASSUME NEW r \in Requests, Stamp(r) PROVE Lifecycle!Next
  <2>1. status[r] = "absent"
    BY <1>1 DEF Stamp, SafeInv, RowInv
  <2>2. Open' \subseteq Open
    BY <1>1, <2>1 DEF Open, Stamp, SafeInv, TypeOK, Token
  <2>. QED
    BY <1>1, <2>2, OnlyCloses DEF Stamp
<1>2. ASSUME NEW r \in Requests, Insert(r) PROVE Lifecycle!Next
  <2>1. status[r] = "absent" /\ status' = [status EXCEPT ![r] = "pending"]
    BY <1>2 DEF Insert, SafeInv, RowInv
  <2>2. r \notin Open
    BY <2>1 DEF Open
  <2>3. \A q \in Requests : q # r => (q \in Open' <=> q \in Open)
    BY <1>2, <2>1 DEF Open, Insert, SafeInv, TypeOK, Token
  <2>4. Open' \in {Open, Open \cup {r}}
    <3>1. CASE r \in Open'
      <4>1. Open' = Open \cup {r}
        BY <2>3, <3>1 DEF Open
      <4>. QED
        BY <4>1
    <3>2. CASE r \notin Open'
      <4>1. Open' = Open
        BY <2>2, <2>3, <3>2 DEF Open
      <4>. QED
        BY <4>1
    <3>. QED
      BY <3>1, <3>2
  <2>5. Lifecycle!Submit(r)
    BY <1>2, <2>1, <2>4 DEF Lifecycle!Submit, Insert
  <2>. QED
    BY <2>5 DEF Lifecycle!Next
<1>3. ASSUME NEW r \in Requests, InsertFails(r) PROVE Lifecycle!Next
  BY <1>3, OpenShrinks, OnlyCloses DEF InsertFails, SafeInv, TypeOK
<1>4. ASSUME NEW r \in Requests, CheckStatus(r) PROVE Lifecycle!Next
  <2>1. Open' = Open
    BY <1>4 DEF CheckStatus, Open, Token
  <2>2. Lifecycle!Ask(r)
    BY <1>4, <2>1 DEF Lifecycle!Ask, CheckStatus
  <2>. QED
    BY <2>2 DEF Lifecycle!Next
<1>5. ASSUME NEW h \in Handlers, NEW r \in Requests, NEW d \in Decision,
             NEW t \in {Token(r), StatusToken(r)}, Call(h, r, t, d)
      PROVE  Lifecycle!Next
  <2>1. \A g \in Handlers : job'[g].at = "checked" =>
          job[g].at = "checked" /\ job'[g].token = job[g].token
    BY <1>5 DEF Call, IdleJob, SafeInv, TypeOK
  <2>. QED
    BY <1>5, <2>1, OpenShrinks, OnlyCloses DEF Call, SafeInv, TypeOK
<1>6. ASSUME NEW h \in Handlers, ReadRow(h) PROVE Lifecycle!Next
  <2>1. \A g \in Handlers : job'[g].at = "checked" =>
          job[g].at = "checked" /\ job'[g].token = job[g].token
    BY <1>6 DEF ReadRow, SafeInv, TypeOK, Job
  <2>. QED
    BY <1>6, <2>1, OpenShrinks, OnlyCloses DEF ReadRow, SafeInv, TypeOK
<1>7. ASSUME NEW h \in Handlers, CheckPasses(h) PROVE Lifecycle!Next
  <2>1. PICK r \in Requests : job[h].token = Token(r) /\ RowOfJob(h, r)
    BY <1>7 DEF CheckPasses, SafeInv, JobInv, Active
  <2>2. now <= expires[r]
    BY <1>7, <2>1 DEF CheckPasses, RowOfJob
  <2>3. \A g \in Handlers : g # h => job'[g] = job[g]
    BY <1>7 DEF CheckPasses, SafeInv, TypeOK
  <2>4. job'[h].token = Token(r)
    BY <1>7, <2>1 DEF CheckPasses, SafeInv, TypeOK, Job
  <2>5. ASSUME NEW q \in Requests, q \in Open' PROVE q \in Open
    <3>1. status[q] = "pending" /\ now' = now /\ expires' = expires
      BY <1>7, <2>5 DEF Open, CheckPasses
    <3>2. CASE q = r
      BY <2>2, <3>1, <3>2 DEF Open
    <3>3. CASE q # r
      <4>1. job'[h].token # Token(q)
        BY <2>4, <3>3, TokensDiffer
      <4>. QED
        BY <2>3, <2>5, <3>1, <4>1 DEF Open, Token
    <3>. QED
      BY <3>2, <3>3
  <2>6. Open' \subseteq Open
    BY <2>5 DEF Open
  <2>. QED
    BY <1>7, <2>6, OnlyCloses DEF CheckPasses
<1>8. ASSUME NEW h \in Handlers, Update(h) PROVE Lifecycle!Next
  <2>1. PICK r \in Requests : job[h].token = Token(r) /\ status[r] = "pending"
    BY <1>8 DEF Update, SafeInv, JobInv, SerialInv, FreshInv
  <2>2. RowsWithToken(job[h].token) = {r}
    BY <2>1, TokensDiffer DEF RowsWithToken
  <2>3. job[h].next \in Decision
    BY DEF SafeInv, TypeOK, Job
  <2>4. status' = [status EXCEPT ![r] = job[h].next]
    BY <1>8, <2>2 DEF Update, SafeInv, TypeOK
  <2>5. r \in Open
    BY <1>8, <2>1 DEF Open, Update
  <2>6. r \notin Open'
    BY <2>3, <2>4 DEF Open, Decision, SafeInv, TypeOK
  <2>7. job'[h].at = "done" /\ \A g \in Handlers : g # h => job'[g] = job[g]
    BY <1>8 DEF Update, Answer, SafeInv, TypeOK, Job
  <2>8. ASSUME NEW q \in Requests, q # r PROVE q \in Open' <=> q \in Open
    <3>1. job[h].token # Token(q)
      BY <2>1, <2>8, TokensDiffer
    <3>2. status'[q] = status[q] /\ now' = now /\ expires' = expires
      BY <1>8, <2>4, <2>8 DEF Update, Answer, SafeInv, TypeOK
    <3>3. (\E g \in Handlers : job'[g].at = "checked" /\ job'[g].token = Token(q))
            <=> (\E g \in Handlers : job[g].at = "checked" /\ job[g].token = Token(q))
      BY <2>7, <3>1
    <3>. QED
      BY <3>2, <3>3 DEF Open, Token
  <2>9. Open' = Open \ {r}
    BY <2>6, <2>8 DEF Open
  <2>10. Lifecycle!Resolve(r, job[h].next)
    BY <1>8, <2>1, <2>4, <2>5, <2>9 DEF Lifecycle!Resolve, Update, Answer
  <2>. QED
    BY <2>3, <2>10 DEF Lifecycle!Next, Lifecycle!Decision, Decision
<1>9. CASE Tick
  BY <1>9, OpenShrinks, OnlyCloses DEF Tick, SafeInv, TypeOK
<1>10. CASE Restart
  <2>1. \A h \in Handlers : job'[h].at # "checked"
    BY <1>10 DEF Restart, IdleJob
  <2>. QED
    BY <1>10, <2>1, OpenShrinks, OnlyCloses DEF Restart, SafeInv, TypeOK
<1>11. CASE UNCHANGED vars
  BY <1>11 DEF vars, Open, Token
<1>12. ASSUME NEW h \in Handlers, ResolveStep(h) PROVE Lifecycle!Next
  BY <1>12, <1>6, <1>7, <1>8, AnswerCloses
     DEF ResolveStep, ReadNothing, ReadFails, CheckUsed, CheckExpired,
         UpdateFails
<1>. QED
  BY <1>1, <1>2, <1>3, <1>4, <1>5, <1>9, <1>10, <1>11, <1>12 DEF Next

(* When resolutions of one token do not overlap, the three separate         *)
(* statements of resolve and the clock between them are as good as one      *)
(* atomic decision of an open request: the store implements the lifecycle.  *)
THEOREM Refinement ==
  ASSUME Overlap = FALSE
  PROVE  Spec => ImplementsLifecycle
<1>. QED
  BY LifecycleInit, LifecycleStep, SafeAlways, SerialAlways, TypeCorrect, PTL
     DEF Spec, ImplementsLifecycle, Lifecycle!Spec
=============================================================================
