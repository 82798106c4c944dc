--------------------------- MODULE AdminServerProofs ---------------------------
(***************************************************************************)
(* Proofs about AdminServer, for any sets of links, settings and actors,   *)
(* any number of edits and restarts.  The first part holds for overlapping *)
(* requests and any failure.  The second is about requests and refreshes   *)
(* that run one at a time: what settles then, and what a failing Save      *)
(* leaves.                                                                 *)
(***************************************************************************)
EXTENDS AdminServer, TLAPS

(* What a job carries fits its operation: a form only reaches the locked   *)
(* section with a valid value, and the facts it publishes were parsed.     *)
Carries(j) ==
  /\ j.at \in {"write", "writing"} => j.facts \in Facts
  /\ j.at = "password" => j.op = "email"
  /\ j.at \in {"apply", "save", "publish"} /\ j.op \in {"source", "refresh"} =>
       j.facts \in Facts
  /\ j.at # "idle" =>
       /\ j.op = "source" => j.value \in Sources
       /\ j.op = "webhook" => j.value \in Hooks
       /\ j.op = "email" => j.value \in Emails

CarryInv == \A a \in Actors : Carries(job[a])

TypeInv == TypeOK /\ CarryInv

LEMMA IdleType == Unconfigured \in Config /\ Idle \in Job /\ Carries(Idle)
BY DEF Unconfigured, Config, Idle, Job, Carries

LEMMA TornType == Torn \in Editions /\ \A n \in 0 .. MaxEdits : n \in Editions
BY AdminAssumption DEF Torn, Editions

(* Giving one actor another job keeps the jobs well typed if that job is.  *)
LEMMA JobReplaced ==
  ASSUME TypeInv, NEW a \in Actors, NEW j \in Job, Carries(j), Begin(a, j)
  PROVE  job' \in [Actors -> Job] /\ CarryInv'
BY DEF TypeInv, TypeOK, CarryInv, Begin

LEMMA JobFinished ==
  ASSUME TypeInv, NEW a \in Actors, Finish(a)
  PROVE  job' \in [Actors -> Job] /\ CarryInv'
BY JobReplaced, IdleType DEF Finish, Begin

LEMMA JobMoved ==
  ASSUME TypeInv, NEW a \in Actors, NEW at \in {"writing", "apply", "publish"},
         Carries([job[a] EXCEPT !.at = at]), Goto(a, at)
  PROVE  job' \in [Actors -> Job] /\ CarryInv'
<1>1. [job[a] EXCEPT !.at = at] \in Job
  <2>1. job[a] \in Job
    BY DEF TypeInv, TypeOK
  <2>. QED
    BY <2>1 DEF Job
<1>2. Begin(a, [job[a] EXCEPT !.at = at])
  BY DEF Goto, Begin
<1>. QED
  BY <1>1, <1>2, JobReplaced

LEMMA JobCopied ==
  ASSUME TypeInv, NEW a \in Actors, NEW c \in Config, job[a].at = "apply", Copy(a, c)
  PROVE  job' \in [Actors -> Job] /\ CarryInv'
<1>. DEFINE j == [job[a] EXCEPT !.at = "save", !.copy = c]
<1>1. j \in Job
  <2>1. job[a] \in Job
    BY DEF TypeInv, TypeOK
  <2>. QED
    BY <2>1 DEF Job
<1>2. Carries(j)
  BY DEF TypeInv, TypeOK, CarryInv, Carries, Job
<1>3. Begin(a, j)
  BY DEF Copy, Begin
<1>. QED
  BY <1>1, <1>2, <1>3, JobReplaced

LEMMA StartRefresherType ==
  ASSUME TypeInv, NEW c \in Config, StartRefresher(c)
  PROVE  /\ refresher' \in Refreshers \cup {None}
         /\ loop' \in [Refreshers -> {"free", "parked", "on", "stopping", "leaving"}]
<1>1. Stopped \in [Refreshers -> {"free", "parked", "on", "stopping", "leaving"}]
  BY DEF TypeInv, TypeOK, Stopped
<1>. QED
  BY <1>1 DEF StartRefresher

LEMMA TypeInvInit == Init => TypeInv
<1>. SUFFICES ASSUME Init PROVE TypeInv
  OBVIOUS
<1>1. edition \in [Sources -> Editions]
  BY TornType, AdminAssumption DEF Init
<1>2. job \in [Actors -> Job] /\ CarryInv
  BY IdleType DEF Init, CarryInv
<1>3. cfg \in Config /\ boots \in 0 .. MaxBoots
  BY IdleType, AdminAssumption DEF Init
<1>4. loop \in [Refreshers -> {"free", "parked", "on", "stopping", "leaving"}]
  BY DEF Init
<1>. QED
  BY <1>1, <1>2, <1>3, <1>4 DEF Init, TypeInv, TypeOK

(* A restart: whatever Boot begins with is well typed.                     *)
LEMMA BootType ==
  ASSUME TypeInv, NEW row \in {None, disk}, Boot(row)
  PROVE  /\ cfg' \in Config /\ disk' = disk /\ edition' = edition
         /\ onboardingActive' \in BOOLEAN /\ unread' \in BOOLEAN
         /\ boots' \in 0 .. MaxBoots
         /\ job' \in [Actors -> Job] /\ CarryInv'
<1>1. cfg' \in Config
  BY IdleType DEF Boot, TypeInv, TypeOK
<1>2. boots' \in 0 .. MaxBoots
  BY AdminAssumption DEF Boot, TypeInv, TypeOK
<1>3. job' \in [Actors -> Job] /\ CarryInv'
  BY IdleType DEF Boot, CarryInv
<1>. QED
  BY <1>1, <1>2, <1>3 DEF Boot

LEMMA NothingRestoredType ==
  ASSUME TypeInv, NEW row \in {None, disk}, Boot(row), NEW err \in BOOLEAN,
         NothingRestored(err)
  PROVE  TypeInv'
BY BootType, AdminAssumption DEF NothingRestored, TypeInv, TypeOK

(* The type invariant and CarryInv together are inductive.                 *)
LEMMA TypeInvStep == TypeInv /\ [Next]_vars => TypeInv'
<1>. SUFFICES ASSUME TypeInv, [Next]_vars PROVE TypeInv'
  OBVIOUS
<1>. USE DEF memory, endpoint
<1>1. ASSUME NEW a \in Handlers, NEW u \in Urls, NEW refresh \in BOOLEAN,
             PostLink(a, u, refresh)
      PROVE  TypeInv'
  <2>. DEFINE j == [Idle EXCEPT !.at = "load", !.op = "source", !.value = u,
                                !.Refresh = refresh]
  <2>1. j \in Job /\ Carries(j)
    BY IdleType DEF Job, Carries, Idle, Sources
  <2>2. job' \in [Actors -> Job] /\ CarryInv'
    BY <1>1, <2>1, JobReplaced DEF PostLink, Actors
  <2>. QED
    BY <1>1, <2>2 DEF PostLink, TypeInv, TypeOK
<1>2. ASSUME NEW a \in Handlers, NEW n \in 0 .. MaxEdits, PostFile(a, n)
      PROVE  TypeInv'
  <2>. DEFINE j == [Idle EXCEPT !.at = "write", !.op = "source", !.value = File,
                                !.facts = [source |-> File, edition |-> n]]
  <2>1. [source |-> File, edition |-> n] \in Facts
    BY TornType DEF Facts, Sources
  <2>2. j \in Job /\ Carries(j)
    BY <2>1, IdleType DEF Job, Carries, Idle, Sources
  <2>3. job' \in [Actors -> Job] /\ CarryInv'
    BY <1>2, <2>2, JobReplaced DEF PostFile, Actors
  <2>. QED
    BY <1>2, <2>3 DEF PostFile, TypeInv, TypeOK
<1>3. ASSUME NEW a \in Handlers, NEW w \in Hooks, PostWebhook(a, w) PROVE TypeInv'
  <2>. DEFINE j == [Idle EXCEPT !.at = "apply", !.op = "webhook", !.value = w]
  <2>1. j \in Job /\ Carries(j)
    BY IdleType DEF Job, Carries, Idle
  <2>2. job' \in [Actors -> Job] /\ CarryInv'
    BY <1>3, <2>1, JobReplaced DEF PostWebhook, Actors
  <2>. QED
    BY <1>3, <2>2 DEF PostWebhook, TypeInv, TypeOK
<1>4. ASSUME NEW a \in Handlers, NEW e \in Emails, PostEmail(a, e) PROVE TypeInv'
  <2>. DEFINE j == [Idle EXCEPT !.at = "password", !.op = "email", !.value = e]
  <2>1. j \in Job /\ Carries(j)
    BY IdleType DEF Job, Carries, Idle
  <2>2. job' \in [Actors -> Job] /\ CarryInv'
    BY <1>4, <2>1, JobReplaced DEF PostEmail, Actors
  <2>. QED
    BY <1>4, <2>2 DEF PostEmail, TypeInv, TypeOK
<1>5. ASSUME NEW a \in Handlers, Skip(a) PROVE TypeInv'
  BY <1>5 DEF Skip, TypeInv, TypeOK, CarryInv
<1>6. ASSUME NEW a \in Actors, BeginRefresh(a) 
      PROVE  job' \in [Actors -> Job] /\ CarryInv'
  <2>. DEFINE j == [Idle EXCEPT !.at = "load", !.value = cfg.Source]
  <2>1. j \in Job /\ Carries(j)
    BY IdleType DEF Job, Carries, Idle, TypeInv, TypeOK, Config
  <2>. QED
    BY <1>6, <2>1, JobReplaced DEF BeginRefresh
<1>7. ASSUME NEW a \in Handlers, PostRefresh(a) PROVE TypeInv'
  BY <1>6, <1>7 DEF PostRefresh, BeginRefresh, TypeInv, TypeOK, Actors
<1>8. ASSUME NEW g \in Refreshers, Park(g) \/ Exit(g) PROVE TypeInv'
  BY <1>8 DEF Park, Exit, TypeInv, TypeOK, CarryInv
<1>9. ASSUME NEW g \in Refreshers, Tick(g) PROVE TypeInv'
  <2>1. loop' \in [Refreshers -> {"free", "parked", "on", "stopping", "leaving"}]
    BY <1>9 DEF Tick, TypeInv, TypeOK
  <2>2. BeginRefresh(g) /\ g \in Actors
    BY <1>9 DEF Tick, Actors
  <2>. QED
    BY <1>6, <2>1, <2>2 DEF BeginRefresh, TypeInv, TypeOK
<1>10. ASSUME NEW a \in Actors, Load(a) PROVE TypeInv'
  <2>. DEFINE f == [source |-> job[a].value, edition |-> edition[job[a].value]]
              j == [job[a] EXCEPT !.at = "apply", !.facts = f]
  <2>1. f \in Facts
    BY <1>10 DEF Load, TypeInv, TypeOK, Facts
  <2>2. j \in Job
    <3>1. job[a] \in Job
      BY DEF TypeInv, TypeOK
    <3>. HIDE DEF f
    <3>. QED
      BY <2>1, <3>1 DEF Job
  <2>3. Carries(j)
    BY <1>10, <2>1 DEF Load, TypeInv, TypeOK, CarryInv, Carries, Job
  <2>4. Begin(a, j)
    BY <1>10 DEF Load, Begin
  <2>. HIDE DEF j
  <2>5. job' \in [Actors -> Job] /\ CarryInv'
    BY <2>2, <2>3, <2>4, JobReplaced
  <2>. QED
    BY <1>10, <2>5 DEF Load, TypeInv, TypeOK
<1>11. ASSUME NEW a \in Actors, LoadErr(a) PROVE TypeInv'
  <2>1. lastErr' \in BOOLEAN
    BY <1>11 DEF LoadErr, TypeInv, TypeOK
  <2>2. job' \in [Actors -> Job] /\ CarryInv'
    BY <1>11, JobFinished DEF LoadErr
  <2>. QED
    BY <1>11, <2>1, <2>2 DEF LoadErr, TypeInv, TypeOK
<1>12. ASSUME NEW a \in Actors, Truncate(a) PROVE TypeInv'
  <2>1. Carries([job[a] EXCEPT !.at = "writing"])
    BY <1>12 DEF Truncate, TypeInv, TypeOK, CarryInv, Carries, Job
  <2>2. job' \in [Actors -> Job] /\ CarryInv'
    BY <1>12, <2>1, JobMoved DEF Truncate
  <2>3. edition' \in [Sources -> Editions]
    BY <1>12, TornType DEF Truncate, TypeInv, TypeOK
  <2>. QED
    BY <1>12, <2>2, <2>3 DEF Truncate, TypeInv, TypeOK
<1>13. ASSUME NEW a \in Actors, Fill(a) PROVE TypeInv'
  <2>1. job[a].facts \in Facts
    BY <1>13 DEF Fill, TypeInv, CarryInv, Carries
  <2>2. Carries([job[a] EXCEPT !.at = "apply"])
    BY <1>13, <2>1 DEF Fill, TypeInv, TypeOK, CarryInv, Carries, Job
  <2>3. job' \in [Actors -> Job] /\ CarryInv'
    BY <1>13, <2>2, JobMoved DEF Fill
  <2>4. edition' \in [Sources -> Editions]
    BY <1>13, <2>1 DEF Fill, Facts, TypeInv, TypeOK
  <2>. QED
    BY <1>13, <2>3, <2>4 DEF Fill, TypeInv, TypeOK
<1>14. ASSUME NEW a \in Actors, WriteErr(a) PROVE TypeInv'
  BY <1>14, JobFinished DEF WriteErr, TypeInv, TypeOK
<1>15. ASSUME NEW a \in Actors, ApplySource(a) PROVE TypeInv'
  <2>. DEFINE c == [cfg EXCEPT !.Source = job[a].value, !.Refresh = job[a].Refresh]
  <2>1. job[a].value \in Sources /\ job[a].facts \in Facts /\ job[a].Refresh \in BOOLEAN
    BY <1>15 DEF ApplySource, TypeInv, TypeOK, CarryInv, Carries, Job
  <2>2. c \in Config
    BY <2>1 DEF TypeInv, TypeOK, Config
  <2>3. StartRefresher(c) /\ Copy(a, c) /\ cfg' = c
    BY <1>15 DEF ApplySource
  <2>. HIDE DEF c
  <2>4. /\ job' \in [Actors -> Job] /\ CarryInv'
        /\ refresher' \in Refreshers \cup {None}
        /\ loop' \in [Refreshers -> {"free", "parked", "on", "stopping", "leaving"}]
    BY <1>15, <2>2, <2>3, JobCopied, StartRefresherType DEF ApplySource
  <2>. QED
    BY <1>15, <2>1, <2>2, <2>3, <2>4 DEF ApplySource, TypeInv, TypeOK
<1>16. ASSUME NEW a \in Actors, ApplyRefresh(a) PROVE TypeInv'
  <2>1. job[a].facts \in Facts
    BY <1>16 DEF ApplyRefresh, TypeInv, CarryInv, Carries
  <2>2. job' \in [Actors -> Job] /\ CarryInv'
    BY <1>16, JobCopied DEF ApplyRefresh, TypeInv, TypeOK
  <2>. QED
    BY <1>16, <2>1, <2>2 DEF ApplyRefresh, TypeInv, TypeOK
<1>17. ASSUME NEW a \in Actors, ApplyDelivery(a) PROVE TypeInv'
  <2>1. /\ job[a].op = "webhook" => job[a].value \in Hooks
        /\ job[a].op = "email" => job[a].value \in Emails
    BY <1>17 DEF ApplyDelivery, TypeInv, CarryInv, Carries
  <2>2. cfg' \in Config
    BY <1>17, <2>1 DEF ApplyDelivery, TypeInv, TypeOK, Config
  <2>3. job' \in [Actors -> Job] /\ CarryInv'
    BY <1>17, <2>2, JobCopied DEF ApplyDelivery
  <2>. QED
    BY <1>17, <2>2, <2>3 DEF ApplyDelivery, TypeInv, TypeOK
<1>28. ASSUME NEW a \in Actors, FillPassword(a) PROVE TypeInv'
  <2>. DEFINE e == IF job[a].value.password = None /\ cfg.Email # None
                   THEN [job[a].value EXCEPT !.password = cfg.Email.password]
                   ELSE job[a].value
              j == [job[a] EXCEPT !.at = "apply", !.value = e]
  <2>1. job[a] \in Job /\ job[a].op = "email" /\ job[a].value \in Emails
    BY <1>28 DEF FillPassword, TypeInv, TypeOK, CarryInv, Carries
  <2>2. cfg.Email # None => cfg.Email.password \in Passwords \cup {None}
    BY DEF TypeInv, TypeOK, Config, Emails
  <2>3. e \in Emails
    BY <2>1, <2>2 DEF Emails
  <2>4. Begin(a, j)
    BY <1>28 DEF FillPassword, Begin
  <2>. HIDE DEF e
  <2>5. j \in Job /\ Carries(j)
    BY <2>1, <2>3 DEF Job, Carries
  <2>. HIDE DEF j
  <2>6. job' \in [Actors -> Job] /\ CarryInv'
    BY <2>4, <2>5, JobReplaced
  <2>. QED
    BY <1>28, <2>6 DEF FillPassword, TypeInv, TypeOK
<1>18. ASSUME NEW a \in Actors, job[a].at = "save", Goto(a, "publish")
       PROVE  job' \in [Actors -> Job] /\ CarryInv'
  <2>1. Carries([job[a] EXCEPT !.at = "publish"])
    BY <1>18 DEF TypeInv, TypeOK, CarryInv, Carries, Job
  <2>. QED
    BY <1>18, <2>1, JobMoved
<1>19. ASSUME NEW a \in Actors, Save(a) PROVE TypeInv'
  <2>1. job[a].copy \in Config
    BY DEF TypeInv, TypeOK, Job
  <2>. QED
    BY <1>18, <1>19, <2>1 DEF Save, TypeInv, TypeOK
<1>20. ASSUME NEW a \in Actors, SaveErr(a) PROVE TypeInv'
  BY <1>18, <1>20, JobFinished DEF SaveErr, TypeInv, TypeOK
<1>21. ASSUME NEW a \in Actors, PublishProvider(a) PROVE TypeInv'
  <2>1. job[a].facts \in Facts
    BY <1>21 DEF PublishProvider, TypeInv, CarryInv, Carries
  <2>. QED
    BY <1>21, <2>1, JobFinished DEF PublishProvider, TypeInv, TypeOK
<1>22. ASSUME NEW a \in Actors, PublishDelivery(a) PROVE TypeInv'
  <2>1. /\ job[a].op = "webhook" => job[a].value \in Hooks
        /\ job[a].op = "email" => job[a].value \in Emails
    BY <1>22 DEF PublishDelivery, TypeInv, CarryInv, Carries
  <2>2. epWebhook' \in Hooks \cup {None} /\ epEmail' \in Emails \cup {None}
    BY <1>22, <2>1 DEF PublishDelivery, TypeInv, TypeOK
  <2>. QED
    BY <1>22, <2>2, JobFinished DEF PublishDelivery, TypeInv, TypeOK
<1>23. ASSUME NEW u \in Urls, Edit(u) PROVE TypeInv'
  <2>1. edition[u] + 1 \in Editions
    BY <1>23, AdminAssumption DEF Edit, TypeInv, TypeOK, Editions, Torn, Sources
  <2>. QED
    BY <1>23, <2>1 DEF Edit, TypeInv, TypeOK, CarryInv
<1>24. CASE BootFirst \/ BootUnread \/ BootFails
  BY <1>24, NothingRestoredType DEF BootFirst, BootUnread, BootFails
<1>25. CASE BootRestores
  <2>1. provider' \in Facts
    BY <1>25 DEF BootRestores, TypeInv, TypeOK, Facts
  <2>2. epWebhook' \in Hooks \cup {None} /\ epEmail' \in Emails \cup {None}
    BY <1>25 DEF BootRestores, TypeInv, TypeOK, Config
  <2>3. /\ refresher' \in Refreshers \cup {None}
        /\ loop' \in [Refreshers -> {"free", "parked", "on", "stopping", "leaving"}]
    BY <1>25 DEF BootRestores
  <2>. QED
    BY <1>25, <2>1, <2>2, <2>3, BootType DEF BootRestores, TypeInv, TypeOK
<1>26. CASE UNCHANGED vars
  BY <1>26 DEF vars, TypeInv, TypeOK, CarryInv
<1>27. ASSUME NEW a \in Actors, Step(a) PROVE TypeInv'
  BY <1>27, <1>10, <1>11, <1>12, <1>13, <1>14, <1>15, <1>16, <1>17, <1>19, <1>20,
     <1>21, <1>22, <1>28 DEF Step
<1>. QED
  BY <1>1, <1>2, <1>3, <1>4, <1>5, <1>7, <1>8, <1>9, <1>23, <1>24, <1>25, <1>26,
     <1>27 DEF Next

LEMMA TypeInvAlways == Spec => []TypeInv
BY TypeInvInit, TypeInvStep, PTL DEF Spec

(* Every reachable state of the admin server is well typed: the row, memory *)
(* and the endpoint only ever hold configurations a form can make.          *)
THEOREM TypeCorrect == Spec => []TypeOK
<1>1. TypeInv => TypeOK
  BY DEF TypeInv
<1>. QED
  BY <1>1, TypeInvAlways, PTL
-----------------------------------------------------------------------------
(* The refresher.                                                            *)

(* Replacing the refresher stops the old one and starts at most one.         *)
LEMMA StartRefresherTicks ==
  ASSUME TypeInv, TicksAlone, NEW c \in Config, StartRefresher(c)
  PROVE  /\ TicksAlone'
         /\ refresher' # None => WantsRefresh(c)
<1>1. /\ loop \in [Refreshers -> {"free", "parked", "on", "stopping", "leaving"}]
      /\ \A g \in Refreshers : loop[g] \in {"parked", "on"} <=> refresher = g
  BY DEF TypeInv, TypeOK, TicksAlone
<1>2. /\ Stopped \in [Refreshers -> {"free", "parked", "on", "stopping", "leaving"}]
      /\ \A g \in Refreshers : Stopped[g] \notin {"parked", "on"}
  BY <1>1 DEF Stopped
<1>3. CASE ~WantsRefresh(c)
  <2>1. refresher' = None /\ loop' = Stopped
    BY <1>3 DEF StartRefresher
  <2>. QED
    BY <1>2, <2>1, AdminAssumption DEF TicksAlone
<1>4. CASE WantsRefresh(c)
  <2>1. PICK g \in Refreshers :
          refresher' = g /\ loop' = [Stopped EXCEPT ![g] = "parked"]
    BY <1>4 DEF StartRefresher
  <2>. QED
    BY <1>2, <1>4, <2>1 DEF TicksAlone
<1>. QED
  BY <1>3, <1>4

LEMMA OneRefresherStep == TypeInv /\ OneRefresherTicks /\ [Next]_vars => OneRefresherTicks'
<1>. SUFFICES ASSUME TypeInv, OneRefresherTicks, [Next]_vars PROVE OneRefresherTicks'
  OBVIOUS
<1>. USE DEF memory, endpoint
<1>1. CASE UNCHANGED <<cfg, refresher, loop>>
  BY <1>1 DEF OneRefresherTicks, TicksAlone, IsWanted
<1>2. ASSUME NEW a \in Actors, ApplySource(a) PROVE OneRefresherTicks'
  <2>. DEFINE c == [cfg EXCEPT !.Source = job[a].value, !.Refresh = job[a].Refresh]
  <2>1. StartRefresher(c) /\ cfg' = c
    BY <1>2 DEF ApplySource
  <2>2. job[a].value \in Sources /\ job[a].Refresh \in BOOLEAN
    BY <1>2 DEF ApplySource, TypeInv, TypeOK, CarryInv, Carries, Job
  <2>3. c \in Config
    BY <2>2 DEF TypeInv, TypeOK, Config
  <2>. HIDE DEF c
  <2>. QED
    BY <2>1, <2>3, StartRefresherTicks DEF OneRefresherTicks, IsWanted
<1>3. ASSUME NEW a \in Actors, ApplyDelivery(a) PROVE OneRefresherTicks'
  <2>1. cfg'.Source = cfg.Source /\ cfg'.Refresh = cfg.Refresh
    BY <1>3 DEF ApplyDelivery, TypeInv, TypeOK, Config
  <2>. QED
    BY <1>3, <2>1
       DEF ApplyDelivery, OneRefresherTicks, TicksAlone, IsWanted,
           WantsRefresh
<1>4. ASSUME NEW g \in Refreshers, Park(g) \/ Tick(g) \/ Exit(g)
      PROVE  OneRefresherTicks'
  BY <1>4 DEF Park, Tick, BeginRefresh, Exit, OneRefresherTicks, TicksAlone,
              IsWanted, TypeInv, TypeOK
<1>5. CASE BootFirst \/ BootUnread \/ BootFails
  BY <1>5, AdminAssumption
     DEF BootFirst, BootUnread, BootFails, NothingRestored, OneRefresherTicks, TicksAlone,
         IsWanted
<1>6. CASE BootRestores
  <2>1. cfg' = disk /\ (refresher' # None => WantsRefresh(disk))
    BY <1>6 DEF BootRestores, Boot
  <2>2. TicksAlone'
    BY <1>6 DEF BootRestores, TicksAlone
  <2>. QED
    BY <2>1, <2>2 DEF OneRefresherTicks, IsWanted
<1>7. ASSUME NEW a \in Actors, Step(a) PROVE OneRefresherTicks'
  BY <1>1, <1>2, <1>3, <1>7
     DEF Step, Load, LoadErr, Truncate, Fill, WriteErr, ApplyRefresh, FillPassword, Save,
         SaveErr, PublishProvider, PublishDelivery
<1>8. ASSUME NEW a \in Handlers,
             \/ \E u \in Urls, refresh \in BOOLEAN : PostLink(a, u, refresh)
             \/ \E n \in 0 .. MaxEdits : PostFile(a, n)
             \/ \E w \in Hooks : PostWebhook(a, w)
             \/ \E e \in Emails : PostEmail(a, e)
             \/ Skip(a) \/ PostRefresh(a)
      PROVE  OneRefresherTicks'
  BY <1>1, <1>8 DEF PostLink, PostFile, PostWebhook, PostEmail, Skip,
                    PostRefresh, BeginRefresh
<1>9. CASE UNCHANGED vars \/ \E u \in Urls : Edit(u)
  BY <1>1, <1>9 DEF vars, Edit
<1>. QED
  BY <1>4, <1>5, <1>6, <1>7, <1>8, <1>9 DEF Next

(* However many requests replace the source, and whenever they overlap, the  *)
(* goroutines not yet stopped are exactly the current refresher, and there   *)
(* is one only while the configuration in memory asks for it.                *)
THEOREM OneTicks == Spec => []OneRefresherTicks
<1>1. Init => OneRefresherTicks
  BY AdminAssumption DEF Init, OneRefresherTicks, TicksAlone, IsWanted
<1>. QED
  BY <1>1, OneRefresherStep, TypeInvAlways, PTL DEF Spec
-----------------------------------------------------------------------------
(* The served facts *)

LEMMA KeepsServing ==
  TypeInv /\ [Next]_vars =>
    (epProvider # None => epProvider' # None \/ boots' # boots)
<1>. SUFFICES ASSUME TypeInv, [Next]_vars, epProvider # None,
                     UNCHANGED boots
              PROVE  epProvider' # None
  OBVIOUS
<1>. USE DEF memory, endpoint
<1>1. ASSUME NEW a \in Actors, PublishProvider(a) PROVE epProvider' # None
  <2>1. job[a].facts \in Facts /\ epProvider' = job[a].facts
    BY <1>1 DEF PublishProvider, TypeInv, CarryInv, Carries
  <2>. QED
    BY <2>1, AdminAssumption
<1>2. ASSUME NEW a \in Actors, Step(a) PROVE epProvider' # None
  BY <1>1, <1>2
     DEF Step, Load, LoadErr, Truncate, Fill, WriteErr, ApplySource,
         ApplyRefresh, FillPassword, ApplyDelivery, Save, SaveErr, PublishDelivery
<1>3. CASE BootFirst \/ BootUnread \/ BootRestores \/ BootFails
  <2>1. boots \in 0 .. MaxBoots
    BY DEF TypeInv, TypeOK
  <2>2. boots' = boots + 1
    BY <1>3 DEF BootFirst, BootUnread, BootRestores, BootFails, Boot
  <2>. QED
    BY <2>1, <2>2, AdminAssumption
<1>4. ASSUME NEW a \in Handlers,
             \/ \E u \in Urls, refresh \in BOOLEAN : PostLink(a, u, refresh)
             \/ \E n \in 0 .. MaxEdits : PostFile(a, n)
             \/ \E w \in Hooks : PostWebhook(a, w)
             \/ \E e \in Emails : PostEmail(a, e)
             \/ Skip(a) \/ PostRefresh(a)
      PROVE  epProvider' # None
  BY <1>4 DEF PostLink, PostFile, PostWebhook, PostEmail, Skip, PostRefresh,
              BeginRefresh
<1>5. ASSUME NEW g \in Refreshers, Park(g) \/ Tick(g) \/ Exit(g)
      PROVE  epProvider' # None
  BY <1>5 DEF Park, Tick, BeginRefresh, Exit
<1>6. CASE UNCHANGED vars \/ \E u \in Urls : Edit(u)
  BY <1>6 DEF vars, Edit
<1>. QED
  BY <1>2, <1>3, <1>4, <1>5, <1>6 DEF Next

(* Between restarts the endpoint never goes from serving facts to serving   *)
(* none, whatever fails and whatever overlaps.                              *)
THEOREM KeepsLastKnownGood == Spec => LastKnownGoodStays
<1>1. TypeInv /\ [Next]_vars =>
        [epProvider # None => epProvider' # None \/ boots' # boots]_vars
  BY KeepsServing
<1>. QED
  BY <1>1, TypeInvAlways, PTL DEF Spec, LastKnownGoodStays
-----------------------------------------------------------------------------
(* One request or refresh at a time *)

(* At most one request or refresh is under way.                            *)
Alone(a) == \A b \in Actors \ {a} : job[b].at = "idle"
AloneInv == \A a \in Actors : job[a].at # "idle" => Alone(a)

(* What a job carries is about the source it names, which for a refresh is *)
(* still the current one.                                                  *)
AboutSource(j) ==
  /\ j.at \in {"write", "writing"} => j.op = "source"
  /\ j.op \in {"source", "refresh"} /\ j.at \in {"write", "writing", "apply"} =>
       j.facts.source = j.value
  /\ j.op = "refresh" /\ j.at \in {"load", "apply"} => j.value = cfg.Source

RowAgrees == unread \/ disk = IF cfg = Unconfigured THEN None ELSE cfg
ProviderFits == IF provider = None THEN cfg.Source = None
                ELSE provider.source = cfg.Source

(* The four places agree, but for what job j has changed in memory and     *)
(* still has to save or to publish.                                        *)
Publishes(j, ops) == j.at \in {"save", "publish"} /\ j.op \in ops

Agree(j) ==
  /\ IF j.at = "save" THEN j.copy = cfg /\ cfg # Unconfigured ELSE RowAgrees
  /\ IF Publishes(j, {"source", "refresh"}) THEN provider = j.facts
     ELSE epProvider = provider
  /\ IF Publishes(j, {"webhook"}) THEN cfg.WebhookURL = j.value
     ELSE epWebhook = cfg.WebhookURL
  /\ IF Publishes(j, {"email"}) THEN cfg.Email = j.value
     ELSE epEmail = cfg.Email
  /\ ProviderFits

SettledInv ==
  /\ AloneInv
  /\ \A a \in Actors : job[a].at # "idle" => AboutSource(job[a])
  /\ ~blind => /\ Quiet => Agree(Idle)
               /\ \A a \in Actors : job[a].at # "idle" => Agree(job[a])

LEMMA SettledInvSettles == SettledInv => Settled
BY DEF SettledInv, Settled, Agree, Publishes, Idle, RowAgrees, ProviderFits

LEMMA SettledInvInit == Init => SettledInv
<1>. SUFFICES ASSUME Init PROVE SettledInv
  OBVIOUS
<1>1. \A a \in Actors : job[a].at = "idle"
  BY DEF Init, Idle
<1>2. Agree(Idle)
  BY DEF Init, Agree, Publishes, RowAgrees, ProviderFits, Idle, Unconfigured
<1>. QED
  BY <1>1, <1>2 DEF SettledInv, AloneInv

(* A step of the one actor that is not idle, or that was the first to begin: *)
(* what is left to show is about the job it has then.                        *)
LEMMA OneJob ==
  ASSUME TypeInv, NEW a \in Actors, Alone(a), NEW j, Begin(a, j),
         j.at # "idle" => AboutSource(j)', ~blind' => Agree(j)',
         j.at = "idle" => j = Idle
  PROVE  SettledInv'
<1>1. job'[a] = j /\ \A b \in Actors \ {a} : job'[b] = job[b]
  BY DEF Begin, TypeInv, TypeOK
<1>2. \A b \in Actors \ {a} : job'[b].at = "idle"
  BY <1>1 DEF Alone
<1>3. AloneInv'
  BY <1>2 DEF AloneInv, Alone
<1>4. \A b \in Actors : job'[b].at # "idle" => b = a /\ job'[b] = j
  BY <1>1, <1>2
<1>5. Quiet' => j = Idle
  BY <1>1 DEF Quiet
<1>6. \A b \in Actors : job'[b].at # "idle" => AboutSource(job[b])'
  BY <1>4 DEF AboutSource
<1>7. ~blind' => \A b \in Actors : job'[b].at # "idle" => Agree(job[b])'
  BY <1>4 DEF Agree, Publishes, RowAgrees, ProviderFits
<1>8. ~blind' => (Quiet' => Agree(Idle)')
  BY <1>5 DEF Agree, Publishes, RowAgrees, ProviderFits
<1>. QED
  BY <1>3, <1>6, <1>7, <1>8 DEF SettledInv

LEMMA SettledUndisturbed ==
  ASSUME SettledInv,
         UNCHANGED <<cfg, provider, disk, endpoint, job, blind, unread>>
  PROVE  SettledInv'
BY DEF SettledInv, AloneInv, Alone, AboutSource, Quiet, Agree, Publishes,
       RowAgrees, ProviderFits, endpoint

(* Beginning: nothing else is under way.                                    *)
LEMMA BeginSettled ==
  ASSUME TypeInv, SettledInv, ~Overlap, NEW a \in Actors, Ready(a),
         NEW j, Begin(a, j), j.at \in {"load", "write", "password", "apply"},
         AboutSource(j),
         UNCHANGED <<cfg, provider, disk, endpoint, blind, unread>>
  PROVE  SettledInv'
<1>1. Quiet /\ Alone(a)
  BY DEF Ready, Quiet, Alone
<1>2. ~blind => Agree(j)
  BY <1>1 DEF SettledInv, Agree, Publishes, Idle
<1>3. AboutSource(j)'
  BY DEF AboutSource
<1>4. ~blind' => Agree(j)'
  BY <1>2 DEF Agree, Publishes, RowAgrees, ProviderFits, endpoint
<1>. QED
  BY <1>1, <1>3, <1>4, OneJob

(* After a restart nothing is under way.                                    *)
LEMMA BootSettled ==
  ASSUME NEW row, Boot(row), ~blind' => Agree(Idle)'
  PROVE  SettledInv'
<1>1. \A a \in Actors : job'[a].at = "idle"
  BY DEF Boot, Idle
<1>. QED
  BY <1>1 DEF SettledInv, AloneInv

LEMMA SettledInvStep ==
  ASSUME ~Overlap, ~SaveFails, TypeInv, SettledInv, [Next]_vars
  PROVE  SettledInv'
<1>. USE DEF memory, endpoint
<1>1. ASSUME NEW a \in Handlers, NEW u \in Urls, NEW refresh \in BOOLEAN,
             PostLink(a, u, refresh)
      PROVE  SettledInv'
  <2>. DEFINE j == [Idle EXCEPT !.at = "load", !.op = "source", !.value = u,
                                !.Refresh = refresh]
  <2>1. Ready(a) /\ Begin(a, j) /\ a \in Actors
    BY <1>1 DEF PostLink, Actors
  <2>2. j.at = "load" /\ AboutSource(j)
    BY DEF AboutSource, Idle
  <2>. HIDE DEF j
  <2>. QED
    BY <1>1, <2>1, <2>2, BeginSettled DEF PostLink
<1>2. ASSUME NEW a \in Handlers, NEW n \in 0 .. MaxEdits, PostFile(a, n)
      PROVE  SettledInv'
  <2>. DEFINE j == [Idle EXCEPT !.at = "write", !.op = "source", !.value = File,
                                !.facts = [source |-> File, edition |-> n]]
  <2>1. Ready(a) /\ Begin(a, j) /\ a \in Actors
    BY <1>2 DEF PostFile, Actors
  <2>2. j.at = "write" /\ AboutSource(j)
    BY DEF AboutSource, Idle
  <2>. HIDE DEF j
  <2>. QED
    BY <1>2, <2>1, <2>2, BeginSettled DEF PostFile
<1>3. ASSUME NEW a \in Handlers, NEW w \in Hooks, PostWebhook(a, w)
      PROVE  SettledInv'
  <2>. DEFINE j == [Idle EXCEPT !.at = "apply", !.op = "webhook", !.value = w]
  <2>1. Ready(a) /\ Begin(a, j) /\ a \in Actors
    BY <1>3 DEF PostWebhook, Actors
  <2>2. j.at = "apply" /\ AboutSource(j)
    BY DEF AboutSource, Idle
  <2>. HIDE DEF j
  <2>. QED
    BY <1>3, <2>1, <2>2, BeginSettled DEF PostWebhook
<1>4. ASSUME NEW a \in Handlers, NEW e \in Emails, PostEmail(a, e)
      PROVE  SettledInv'
  <2>. DEFINE j == [Idle EXCEPT !.at = "password", !.op = "email", !.value = e]
  <2>1. Ready(a) /\ Begin(a, j) /\ a \in Actors
    BY <1>4 DEF PostEmail, Actors
  <2>2. j.at = "password" /\ AboutSource(j)
    BY DEF AboutSource, Idle
  <2>. HIDE DEF j
  <2>. QED
    BY <1>4, <2>1, <2>2, BeginSettled DEF PostEmail
<1>5. ASSUME NEW a \in Actors, BeginRefresh(a) PROVE SettledInv'
  <2>. DEFINE j == [Idle EXCEPT !.at = "load", !.value = cfg.Source]
  <2>1. Ready(a) /\ Begin(a, j)
    BY <1>5 DEF BeginRefresh
  <2>2. j.at = "load" /\ AboutSource(j)
    BY DEF AboutSource, Idle
  <2>3. UNCHANGED <<cfg, provider, disk, endpoint, blind, unread>>
    BY <1>5 DEF BeginRefresh
  <2>. HIDE DEF j
  <2>. QED
    BY <2>1, <2>2, <2>3, BeginSettled
<1>6. ASSUME NEW a \in Actors, job[a].at # "idle"
      PROVE  /\ Alone(a) /\ AboutSource(job[a]) /\ (~blind => Agree(job[a]))
             /\ job[a] \in Job /\ Carries(job[a])
  BY <1>6 DEF SettledInv, AloneInv, TypeInv, TypeOK, CarryInv
<1>7. ASSUME NEW a \in Actors, Load(a) PROVE SettledInv'
  <2>1. PICK j : j = [job[a] EXCEPT !.at = "apply",
                        !.facts = [source |-> job[a].value,
                                   edition |-> edition[job[a].value]]]
    OBVIOUS
  <2>2. Begin(a, j) /\ job[a].at = "load"
    BY <1>7, <2>1 DEF Load, Begin
  <2>3. /\ j.at = "apply" /\ j.op = job[a].op /\ j.value = job[a].value
        /\ j.facts.source = j.value
    BY <1>6, <2>1, <2>2 DEF Job
  <2>4. AboutSource(j)'
    BY <1>6, <1>7, <2>2, <2>3 DEF Load, AboutSource
  <2>5. ~blind' => Agree(j)'
    BY <1>6, <1>7, <2>2, <2>3
       DEF Load, Agree, Publishes, RowAgrees, ProviderFits
  <2>. QED
    BY <1>6, <2>2, <2>3, <2>4, <2>5, OneJob
<1>8. ASSUME NEW a \in Actors, LoadErr(a) PROVE SettledInv'
  <2>1. Begin(a, Idle) /\ job[a].at = "load" /\ Idle.at = "idle"
    BY <1>8 DEF LoadErr, Finish, Begin, Idle
  <2>2. ~blind' => Agree(Idle)'
    BY <1>6, <1>8, <2>1
       DEF LoadErr, Agree, Publishes, RowAgrees, ProviderFits, Idle
  <2>. QED
    BY <1>6, <2>1, <2>2, OneJob
<1>9. ASSUME NEW a \in Actors, Truncate(a) \/ Fill(a) PROVE SettledInv'
  <2>1. PICK j : j = [job[a] EXCEPT !.at = IF @ = "write" THEN "writing" ELSE "apply"]
    OBVIOUS
  <2>2. job[a].at \in {"write", "writing"}
    BY <1>9 DEF Truncate, Fill
  <2>3. /\ j.at = IF job[a].at = "write" THEN "writing" ELSE "apply"
        /\ j.op = job[a].op /\ j.value = job[a].value /\ j.facts = job[a].facts
    BY <1>6, <2>1, <2>2 DEF Job
  <2>4. Begin(a, j)
    BY <1>9, <2>1 DEF Truncate, Fill, Goto, Begin
  <2>5. UNCHANGED <<cfg, provider, disk, endpoint, blind, unread>>
    BY <1>9 DEF Truncate, Fill
  <2>6. AboutSource(j)'
    BY <1>6, <2>2, <2>3, <2>5 DEF AboutSource
  <2>7. ~blind' => Agree(j)'
    BY <1>6, <2>2, <2>3, <2>5 DEF Agree, Publishes, RowAgrees, ProviderFits
  <2>. QED
    BY <1>6, <2>2, <2>3, <2>4, <2>6, <2>7, OneJob
<1>10. ASSUME NEW a \in Actors, ApplySource(a) PROVE SettledInv'
  <2>1. PICK c : c = [cfg EXCEPT !.Source = job[a].value, !.Refresh = job[a].Refresh]
    OBVIOUS
  <2>2. PICK j : j = [job[a] EXCEPT !.at = "save", !.copy = c]
    OBVIOUS
  <2>3. /\ job[a].at = "apply" /\ job[a].op = "source"
        /\ cfg' = c /\ provider' = job[a].facts /\ Begin(a, j)
        /\ UNCHANGED <<disk, endpoint, blind, unread>>
    BY <1>10, <2>1, <2>2 DEF ApplySource, Copy, Begin
  <2>4. /\ j.at = "save" /\ j.op = "source" /\ j.copy = c
        /\ j.facts = job[a].facts
    BY <1>6, <2>2, <2>3 DEF Job
  <2>5. /\ job[a].value \in Sources /\ job[a].facts \in Facts
        /\ job[a].facts.source = job[a].value
    BY <1>6, <2>3 DEF Carries, AboutSource
  <2>6. /\ c.Source = job[a].value /\ c.WebhookURL = cfg.WebhookURL
        /\ c.Email = cfg.Email
    BY <2>1 DEF TypeInv, TypeOK, Config
  <2>7. c # Unconfigured /\ provider' # None
    BY <2>3, <2>5, <2>6, AdminAssumption DEF Unconfigured
  <2>8. AboutSource(j)'
    BY <2>4 DEF AboutSource
  <2>9. ~blind' => Agree(j)'
    BY <1>6, <2>3, <2>4, <2>5, <2>6, <2>7 DEF Agree, Publishes, ProviderFits
  <2>. QED
    BY <1>6, <2>3, <2>4, <2>8, <2>9, OneJob
<1>11. ASSUME NEW a \in Actors, ApplyRefresh(a) PROVE SettledInv'
  <2>1. PICK j : j = [job[a] EXCEPT !.at = "save", !.copy = cfg]
    OBVIOUS
  <2>2. /\ job[a].at = "apply" /\ job[a].op = "refresh"
        /\ provider' = job[a].facts /\ Begin(a, j)
        /\ UNCHANGED <<cfg, disk, endpoint, blind, unread>>
    BY <1>11, <2>1 DEF ApplyRefresh, Copy, Begin
  <2>3. /\ j.at = "save" /\ j.op = "refresh" /\ j.copy = cfg
        /\ j.facts = job[a].facts
    BY <1>6, <2>1, <2>2 DEF Job
  <2>4. job[a].facts \in Facts /\ job[a].facts.source = cfg.Source
    BY <1>6, <2>2 DEF Carries, AboutSource
  <2>5. cfg.Source # None /\ provider' # None
    BY <2>2, <2>4, AdminAssumption DEF Facts
  <2>6. cfg # Unconfigured
    BY <2>5 DEF Unconfigured
  <2>7. AboutSource(j)'
    BY <2>3 DEF AboutSource
  <2>8. ~blind' => Agree(j)'
    BY <1>6, <2>2, <2>3, <2>4, <2>5, <2>6 DEF Agree, Publishes, ProviderFits
  <2>. QED
    BY <1>6, <2>2, <2>3, <2>7, <2>8, OneJob
<1>12. ASSUME NEW a \in Actors, ApplyDelivery(a) PROVE SettledInv'
  <2>1. PICK c : c = IF job[a].op = "webhook"
                     THEN [cfg EXCEPT !.WebhookURL = job[a].value]
                     ELSE [cfg EXCEPT !.Email = job[a].value]
    OBVIOUS
  <2>2. PICK j : j = [job[a] EXCEPT !.at = "save", !.copy = c]
    OBVIOUS
  <2>3. /\ job[a].at = "apply" /\ job[a].op \in {"webhook", "email"}
        /\ cfg' = c /\ Begin(a, j)
        /\ UNCHANGED <<provider, disk, endpoint, blind, unread>>
    BY <1>12, <2>1, <2>2 DEF ApplyDelivery, Copy, Begin
  <2>4. /\ j.at = "save" /\ j.op = job[a].op /\ j.copy = c
        /\ j.value = job[a].value
    BY <1>6, <2>2, <2>3 DEF Job
  <2>5. job[a].value # None
    BY <1>6, <2>3, AdminAssumption DEF Carries
  <2>6. /\ c.Source = cfg.Source
        /\ job[a].op = "webhook" => c.WebhookURL = job[a].value /\ c.Email = cfg.Email
        /\ job[a].op = "email" => c.Email = job[a].value /\ c.WebhookURL = cfg.WebhookURL
    BY <2>1, <2>3 DEF TypeInv, TypeOK, Config
  <2>7. c # Unconfigured
    BY <2>3, <2>5, <2>6 DEF Unconfigured
  <2>8. AboutSource(j)'
    BY <2>3, <2>4 DEF AboutSource
  <2>9. ~blind' => Agree(j)'
    BY <1>6, <2>3, <2>4, <2>6, <2>7 DEF Agree, Publishes, ProviderFits
  <2>. QED
    BY <1>6, <2>3, <2>4, <2>8, <2>9, OneJob
<1>21. ASSUME NEW a \in Actors, FillPassword(a) PROVE SettledInv'
  <2>1. PICK e : e = IF job[a].value.password = None /\ cfg.Email # None
                     THEN [job[a].value EXCEPT !.password = cfg.Email.password]
                     ELSE job[a].value
    OBVIOUS
  <2>2. PICK j : j = [job[a] EXCEPT !.at = "apply", !.value = e]
    OBVIOUS
  <2>3. /\ job[a].at = "password" /\ Begin(a, j)
        /\ UNCHANGED <<cfg, provider, disk, endpoint, blind, unread>>
    BY <1>21, <2>1, <2>2 DEF FillPassword, Begin
  <2>4. j.at = "apply" /\ j.op = "email"
    BY <1>6, <2>2, <2>3 DEF Job, Carries
  <2>5. AboutSource(j)'
    BY <2>4 DEF AboutSource
  <2>6. ~blind' => Agree(j)'
    BY <1>6, <2>3, <2>4 DEF Agree, Publishes, RowAgrees, ProviderFits, Carries
  <2>. QED
    BY <1>6, <2>3, <2>4, <2>5, <2>6, OneJob
<1>13. ASSUME NEW a \in Actors, Save(a) PROVE SettledInv'
  <2>1. PICK j : j = [job[a] EXCEPT !.at = "publish"]
    OBVIOUS
  <2>2. /\ job[a].at = "save" /\ disk' = job[a].copy /\ Begin(a, j)
        /\ UNCHANGED <<cfg, provider, endpoint, blind>>
    BY <1>13, <2>1 DEF Save, Goto, Begin
  <2>3. /\ j.at = "publish" /\ j.op = job[a].op /\ j.value = job[a].value
        /\ j.facts = job[a].facts
    BY <1>6, <2>1, <2>2 DEF Job
  <2>4. AboutSource(j)'
    BY <2>3 DEF AboutSource
  <2>5. ~blind' => Agree(j)'
    BY <1>6, <2>2, <2>3 DEF Agree, Publishes, RowAgrees, ProviderFits
  <2>. QED
    BY <1>6, <2>2, <2>3, <2>4, <2>5, OneJob
<1>14. ASSUME NEW a \in Actors, PublishProvider(a) \/ PublishDelivery(a)
       PROVE  SettledInv'
  <2>1. /\ Begin(a, Idle) /\ job[a].at = "publish" /\ Idle.at = "idle"
        /\ UNCHANGED <<cfg, provider, disk, blind, unread>>
    BY <1>14 DEF PublishProvider, PublishDelivery, Finish, Begin, Idle
  <2>2. /\ job[a].op \in {"source", "refresh"} =>
             epProvider' = job[a].facts /\ UNCHANGED <<epWebhook, epEmail>>
        /\ job[a].op = "webhook" =>
             epWebhook' = job[a].value /\ UNCHANGED <<epProvider, epEmail>>
        /\ job[a].op = "email" =>
             epEmail' = job[a].value /\ UNCHANGED <<epProvider, epWebhook>>
        /\ job[a].op \in {"source", "refresh", "webhook", "email"}
    BY <1>14 DEF PublishProvider, PublishDelivery
  <2>3. ~blind' => Agree(Idle)'
    BY <1>6, <2>1, <2>2 DEF Agree, Publishes, RowAgrees, ProviderFits, Idle
  <2>. QED
    BY <1>6, <2>1, <2>3, OneJob
<1>15. CASE BootFirst \/ BootUnread \/ BootFails
  <2>1. ~blind' => /\ cfg' = Unconfigured /\ (unread' \/ disk' = None) /\ provider' = None
                   /\ epProvider' = None /\ epWebhook' = None /\ epEmail' = None
    BY <1>15 DEF BootFirst, BootUnread, BootFails, Boot, NothingRestored
  <2>2. ~blind' => Agree(Idle)'
    BY <2>1 DEF Agree, Publishes, RowAgrees, ProviderFits, Idle, Unconfigured
  <2>. QED
    BY <1>15, <2>2, BootSettled DEF BootFirst, BootUnread, BootFails
<1>16. CASE BootRestores
  <2>1. /\ cfg' = disk /\ disk' = disk /\ disk.Source \in Sources
        /\ provider' = [source |-> disk.Source, edition |-> edition[disk.Source]]
        /\ epProvider' = provider'
        /\ epWebhook' = disk.WebhookURL /\ epEmail' = disk.Email
    BY <1>16 DEF BootRestores, Boot
  <2>2. disk.Source # None /\ provider' \in Facts
    BY <2>1, AdminAssumption DEF Facts, TypeInv, TypeOK
  <2>3. disk # Unconfigured /\ provider' # None
    BY <2>2, AdminAssumption DEF Unconfigured
  <2>4. Agree(Idle)'
    BY <2>1, <2>3 DEF Agree, Publishes, RowAgrees, ProviderFits, Idle
  <2>. QED
    BY <1>16, <2>4, BootSettled DEF BootRestores
<1>17. ASSUME NEW a \in Actors, Step(a) PROVE SettledInv'
  BY <1>7, <1>8, <1>9, <1>10, <1>11, <1>12, <1>13, <1>14, <1>17, <1>21
     DEF Step, WriteErr, SaveErr
<1>18. ASSUME NEW a \in Handlers, Skip(a) \/ PostRefresh(a) PROVE SettledInv'
  BY <1>5, <1>18, SettledUndisturbed DEF Skip, PostRefresh, Actors
<1>19. ASSUME NEW g \in Refreshers, Park(g) \/ Tick(g) \/ Exit(g) PROVE SettledInv'
  BY <1>5, <1>19, SettledUndisturbed DEF Park, Tick, Exit, Actors
<1>20. CASE UNCHANGED vars \/ \E u \in Urls : Edit(u)
  BY <1>20, SettledUndisturbed DEF vars, Edit
<1>. QED
  BY <1>1, <1>2, <1>3, <1>4, <1>15, <1>16, <1>17, <1>18, <1>19, <1>20 DEF Next

(* One at a time, and while Saves succeed, requests and refreshes leave row, *)
(* memory and endpoint in agreement, also after every restart whose restore  *)
(* did not give up; the row's part waits for the first Save of a process that *)
(* could not read it.                                                        *)
THEOREM Settles == ~Overlap /\ ~SaveFails => (Spec => []Settled)
<1>1. SUFFICES ASSUME ~Overlap, ~SaveFails PROVE Spec => []Settled
  OBVIOUS
<1>2. TypeInv /\ SettledInv /\ [Next]_vars => SettledInv'
  BY <1>1, SettledInvStep
<1>. QED
  BY <1>2, SettledInvInit, SettledInvSettles, TypeInvAlways, PTL DEF Spec
-----------------------------------------------------------------------------
(* The current source, one at a time.  Saves and sources may fail here, and  *)
(* restores may give up.                                                     *)

Current == provider # None => provider.source = cfg.Source

CurrentInv ==
  /\ AloneInv
  /\ \A a \in Actors : job[a].at # "idle" => AboutSource(job[a])
  /\ Current

(* A step of the one actor that is not idle.                                 *)
LEMMA OneCurrentJob ==
  ASSUME CurrentInv, NEW a \in Actors, Alone(a),
         \A b \in Actors \ {a} : job'[b] = job[b],
         job'[a].at # "idle" => AboutSource(job[a])', Current'
  PROVE  CurrentInv'
BY DEF CurrentInv, AloneInv, Alone, AboutSource

(* One that begins a job, or goes on with it, and leaves memory alone.       *)
LEMMA CurrentMoves ==
  ASSUME CurrentInv, NEW a \in Actors, Alone(a),
         \A b \in Actors \ {a} : job'[b] = job[b],
         job'[a].at # "idle" => AboutSource(job'[a]),
         UNCHANGED <<cfg, provider>>
  PROVE  CurrentInv'
BY OneCurrentJob DEF Current, CurrentInv, AboutSource

LEMMA CurrentBegins ==
  ASSUME TypeInv, CurrentInv, ~Overlap, NEW a \in Actors, Ready(a), NEW j, Begin(a, j),
         AboutSource(j), UNCHANGED <<cfg, provider>>
  PROVE  CurrentInv'
<1>1. job'[a] = j /\ \A b \in Actors \ {a} : job'[b] = job[b]
  BY DEF Begin, TypeInv, TypeOK
<1>2. Alone(a)
  BY DEF Ready, Alone
<1>. QED
  BY <1>1, <1>2, CurrentMoves

LEMMA CurrentInvStep ==
  ASSUME ~Overlap, TypeInv, CurrentInv, [Next]_vars
  PROVE  CurrentInv'
<1>. USE DEF memory, endpoint
<1>1. ASSUME NEW a \in Handlers,
             \/ \E u \in Urls, refresh \in BOOLEAN : PostLink(a, u, refresh)
             \/ \E n \in 0 .. MaxEdits : PostFile(a, n)
             \/ \E w \in Hooks : PostWebhook(a, w)
             \/ \E e \in Emails : PostEmail(a, e)
      PROVE  CurrentInv'
  <2>1. Ready(a) /\ UNCHANGED <<cfg, provider>> /\ a \in Actors
    BY <1>1 DEF PostLink, PostFile, PostWebhook, PostEmail, Actors
  <2>2. PICK j : Begin(a, j) /\ AboutSource(j)
    <3>1. \A u, refresh : AboutSource([Idle EXCEPT !.at = "load", !.op = "source", !.value = u,
                                                  !.Refresh = refresh])
      BY DEF AboutSource, Idle
    <3>2. \A n : AboutSource([Idle EXCEPT !.at = "write", !.op = "source", !.value = File,
                                         !.facts = [source |-> File, edition |-> n]])
      BY DEF AboutSource, Idle
    <3>3. \A w : AboutSource([Idle EXCEPT !.at = "apply", !.op = "webhook", !.value = w])
      BY DEF AboutSource, Idle
    <3>4. \A e : AboutSource([Idle EXCEPT !.at = "password", !.op = "email", !.value = e])
      BY DEF AboutSource, Idle
    <3>. QED
      BY <1>1, <3>1, <3>2, <3>3, <3>4 DEF PostLink, PostFile, PostWebhook, PostEmail
  <2>. QED
    BY <2>1, <2>2, CurrentBegins
<1>2. ASSUME NEW a \in Actors, BeginRefresh(a) PROVE CurrentInv'
  <2>1. PICK j : j = [Idle EXCEPT !.at = "load", !.value = cfg.Source]
    OBVIOUS
  <2>2. j.at = "load" /\ j.value = cfg.Source
    BY <2>1 DEF Idle
  <2>3. Ready(a) /\ Begin(a, j) /\ AboutSource(j) /\ UNCHANGED <<cfg, provider>>
    BY <1>2, <2>1, <2>2 DEF BeginRefresh, AboutSource
  <2>. QED
    BY <2>3, CurrentBegins
<1>3. ASSUME NEW a \in Actors, job[a].at # "idle"
      PROVE  /\ Alone(a) /\ AboutSource(job[a])
             /\ job[a] \in Job /\ Carries(job[a])
  BY <1>3 DEF CurrentInv, AloneInv, TypeInv, TypeOK, CarryInv
<1>4. ASSUME NEW a \in Actors, Load(a) PROVE CurrentInv'
  <2>1. /\ job'[a].at = "apply" /\ job'[a].op = job[a].op /\ job'[a].value = job[a].value
        /\ job'[a].facts.source = job[a].value /\ job[a].at = "load"
        /\ \A b \in Actors \ {a} : job'[b] = job[b]
    BY <1>4 DEF Load, TypeInv, TypeOK, Job
  <2>2. AboutSource(job'[a])
    BY <1>3, <2>1 DEF AboutSource
  <2>. QED
    BY <1>3, <1>4, <2>1, <2>2, CurrentMoves DEF Load
<1>5. ASSUME NEW a \in Actors, Truncate(a) \/ Fill(a) PROVE CurrentInv'
  <2>1. /\ job[a].at \in {"write", "writing"}
        /\ job'[a].at = IF job[a].at = "write" THEN "writing" ELSE "apply"
        /\ job'[a].op = job[a].op /\ job'[a].value = job[a].value /\ job'[a].facts = job[a].facts
        /\ \A b \in Actors \ {a} : job'[b] = job[b]
    BY <1>5 DEF Truncate, Fill, Goto, TypeInv, TypeOK, Job
  <2>2. AboutSource(job'[a])
    BY <1>3, <2>1 DEF AboutSource
  <2>. QED
    BY <1>3, <1>5, <2>1, <2>2, CurrentMoves DEF Truncate, Fill
<1>6. ASSUME NEW a \in Actors, FillPassword(a) PROVE CurrentInv'
  <2>1. /\ job[a].at = "password" /\ job'[a].at = "apply" /\ job'[a].op = job[a].op
        /\ \A b \in Actors \ {a} : job'[b] = job[b]
    BY <1>6 DEF FillPassword, TypeInv, TypeOK, Job
  <2>2. AboutSource(job'[a])
    BY <1>3, <2>1 DEF AboutSource, Carries
  <2>. QED
    BY <1>3, <1>6, <2>1, <2>2, CurrentMoves DEF FillPassword
<1>7. ASSUME NEW a \in Actors, LoadErr(a) \/ WriteErr(a) \/ PublishProvider(a) \/ PublishDelivery(a)
      PROVE  CurrentInv'
  <2>1. /\ job[a].at # "idle" /\ job'[a].at = "idle" /\ UNCHANGED <<cfg, provider>>
        /\ \A b \in Actors \ {a} : job'[b] = job[b]
    BY <1>7 DEF LoadErr, WriteErr, PublishProvider, PublishDelivery, Finish, Idle, TypeInv, TypeOK
  <2>. QED
    BY <1>3, <2>1, CurrentMoves
<1>8. ASSUME NEW a \in Actors, Save(a) \/ SaveErr(a) PROVE CurrentInv'
  <2>1. /\ job[a].at = "save" /\ job'[a].at \in {"publish", "idle"} /\ UNCHANGED <<cfg, provider>>
        /\ \A b \in Actors \ {a} : job'[b] = job[b]
    BY <1>8 DEF Save, SaveErr, Goto, Finish, Idle, TypeInv, TypeOK, Job
  <2>2. AboutSource(job'[a]) \/ job'[a].at = "idle"
    BY <2>1 DEF AboutSource
  <2>. QED
    BY <1>3, <2>1, <2>2, CurrentMoves
<1>9. ASSUME NEW a \in Actors, ApplySource(a) \/ ApplyRefresh(a) \/ ApplyDelivery(a)
      PROVE  CurrentInv'
  <2>1. /\ job[a].at = "apply" /\ job'[a].at = "save"
        /\ \A b \in Actors \ {a} : job'[b] = job[b]
    BY <1>9 DEF ApplySource, ApplyRefresh, ApplyDelivery, Copy, TypeInv, TypeOK, Job
  <2>2. AboutSource(job[a])'
    BY <2>1 DEF AboutSource
  <2>3. CASE ApplySource(a)
    <3>1. cfg'.Source = job[a].value /\ provider' = job[a].facts /\ job[a].op = "source"
      BY <2>3 DEF ApplySource, TypeInv, TypeOK, Config
    <3>2. Current'
      BY <1>3, <2>1, <3>1 DEF AboutSource, Current
    <3>. QED
      BY <1>3, <2>1, <2>2, <3>2, OneCurrentJob
  <2>4. CASE ApplyRefresh(a)
    <3>1. cfg' = cfg /\ provider' = job[a].facts /\ job[a].op = "refresh"
      BY <2>4 DEF ApplyRefresh
    <3>2. Current'
      BY <1>3, <2>1, <3>1 DEF AboutSource, Current
    <3>. QED
      BY <1>3, <2>1, <2>2, <3>2, OneCurrentJob
  <2>5. CASE ApplyDelivery(a)
    <3>1. cfg'.Source = cfg.Source /\ provider' = provider
      BY <2>5 DEF ApplyDelivery, TypeInv, TypeOK, Config
    <3>2. Current'
      BY <3>1 DEF Current, CurrentInv
    <3>. QED
      BY <1>3, <2>1, <2>2, <3>2, OneCurrentJob
  <2>. QED
    BY <1>9, <2>3, <2>4, <2>5
<1>10. ASSUME NEW a \in Actors, Step(a) PROVE CurrentInv'
  BY <1>4, <1>5, <1>6, <1>7, <1>8, <1>9, <1>10 DEF Step
<1>11. CASE BootFirst \/ BootUnread \/ BootRestores \/ BootFails
  <2>0. PICK row : Boot(row)
    BY <1>11 DEF BootFirst, BootUnread, BootRestores, BootFails
  <2>1. \A a \in Actors : job'[a].at = "idle"
    BY <2>0 DEF Boot, Idle
  <2>2. Current'
    BY <1>11 DEF BootFirst, BootUnread, BootRestores, BootFails, Boot, NothingRestored, Current
  <2>. QED
    BY <2>1, <2>2 DEF CurrentInv, AloneInv
<1>12. ASSUME UNCHANGED <<cfg, provider, job>> PROVE CurrentInv'
  BY <1>12 DEF CurrentInv, AloneInv, Alone, AboutSource, Current
<1>13. ASSUME NEW a \in Handlers, Skip(a) \/ PostRefresh(a) PROVE CurrentInv'
  BY <1>2, <1>12, <1>13 DEF Skip, PostRefresh, Actors
<1>14. ASSUME NEW g \in Refreshers, Park(g) \/ Tick(g) \/ Exit(g) PROVE CurrentInv'
  BY <1>2, <1>12, <1>14 DEF Park, Tick, Exit, Actors
<1>15. CASE UNCHANGED vars \/ \E u \in Urls : Edit(u)
  BY <1>12, <1>15 DEF vars, Edit
<1>. QED
  BY <1>1, <1>10, <1>11, <1>13, <1>14, <1>15 DEF Next

(* One at a time, the facts in memory are always the current source's, when *)
(* Saves and sources fail and whichever restore gave up: it takes a refresh *)
(* that overlaps a change of source to bring an old source's facts back.    *)
THEOREM ServesItsSource == ~Overlap => (Spec => []ServesCurrentSource)
<1>1. SUFFICES ASSUME ~Overlap PROVE Spec => []ServesCurrentSource
  OBVIOUS
<1>2. Init => CurrentInv
  BY DEF Init, CurrentInv, AloneInv, Idle, Current
<1>3. TypeInv /\ CurrentInv /\ [Next]_vars => CurrentInv'
  BY <1>1, CurrentInvStep
<1>4. CurrentInv => ServesCurrentSource
  BY DEF CurrentInv, Current, ServesCurrentSource
<1>. QED
  BY <1>2, <1>3, <1>4, TypeInvAlways, PTL DEF Spec
-----------------------------------------------------------------------------
(* The error on the dashboard *)

LEMMA ErrorStep ==
  ASSUME TypeInv, SettledInv, ~blind => ErrorKeepsLive, [Next]_vars, ~blind'
  PROVE  ErrorKeepsLive'
<1>. USE DEF memory, endpoint
<1>1. ASSUME lastErr' => lastErr, UNCHANGED <<cfg, blind>>, epProvider # None => epProvider' # None
      PROVE  ErrorKeepsLive'
  BY <1>1 DEF ErrorKeepsLive
<1>2. ASSUME NEW a \in Actors, LoadErr(a) PROVE ErrorKeepsLive'
  <2>1. job[a].at = "load" /\ UNCHANGED <<cfg, epProvider, blind>>
    BY <1>2 DEF LoadErr
  <2>2. cfg.Source # None => provider # None /\ epProvider = provider
    BY <2>1 DEF SettledInv, Agree, Publishes, ProviderFits
  <2>. QED
    BY <2>1, <2>2 DEF ErrorKeepsLive
<1>3. ASSUME NEW a \in Actors, ApplySource(a) \/ ApplyRefresh(a) PROVE ErrorKeepsLive'
  BY <1>3 DEF ApplySource, ApplyRefresh, ErrorKeepsLive
<1>4. ASSUME NEW a \in Actors, ApplyDelivery(a) PROVE ErrorKeepsLive'
  <2>1. cfg'.Source = cfg.Source /\ UNCHANGED <<lastErr, epProvider, blind>>
    BY <1>4 DEF ApplyDelivery, TypeInv, TypeOK, Config
  <2>. QED
    BY <2>1 DEF ErrorKeepsLive
<1>5. ASSUME NEW a \in Actors, PublishProvider(a) PROVE ErrorKeepsLive'
  <2>1. epProvider' \in Facts
    BY <1>5 DEF PublishProvider, TypeInv, CarryInv, Carries
  <2>. QED
    BY <2>1, AdminAssumption DEF ErrorKeepsLive
<1>6. ASSUME NEW a \in Actors, Step(a) PROVE ErrorKeepsLive'
  BY <1>1, <1>2, <1>3, <1>4, <1>5, <1>6
     DEF Step, Load, Truncate, Fill, WriteErr, FillPassword, Save, SaveErr, PublishDelivery
<1>7. CASE BootFirst \/ BootUnread \/ BootRestores \/ BootFails
  BY <1>7 DEF BootFirst, BootUnread, BootRestores, BootFails, NothingRestored, ErrorKeepsLive
<1>8. ASSUME UNCHANGED <<cfg, lastErr, epProvider, blind>> PROVE ErrorKeepsLive'
  BY <1>8 DEF ErrorKeepsLive
<1>9. ASSUME NEW a \in Handlers,
             \/ \E u \in Urls, refresh \in BOOLEAN : PostLink(a, u, refresh)
             \/ \E n \in 0 .. MaxEdits : PostFile(a, n)
             \/ \E w \in Hooks : PostWebhook(a, w)
             \/ \E e \in Emails : PostEmail(a, e)
             \/ Skip(a) \/ PostRefresh(a)
      PROVE  ErrorKeepsLive'
  BY <1>8, <1>9 DEF PostLink, PostFile, PostWebhook, PostEmail, Skip, PostRefresh, BeginRefresh
<1>10. ASSUME NEW g \in Refreshers, Park(g) \/ Tick(g) \/ Exit(g) PROVE ErrorKeepsLive'
  BY <1>8, <1>10 DEF Park, Tick, BeginRefresh, Exit
<1>11. CASE UNCHANGED vars \/ \E u \in Urls : Edit(u)
  BY <1>8, <1>11 DEF vars, Edit
<1>. QED
  BY <1>6, <1>7, <1>9, <1>10, <1>11 DEF Next

(* One at a time and with Saves that succeed, what the dashboard says with   *)
(* an error is true until a restore gives up: while lastErr is shown, the    *)
(* last known-good facts of a configured source are at the endpoint.         *)
THEOREM ErrorIsNotBlind ==
  ~Overlap /\ ~SaveFails => (Spec => [](~blind => ErrorKeepsLive))
<1>1. SUFFICES ASSUME ~Overlap, ~SaveFails PROVE Spec => [](~blind => ErrorKeepsLive)
  OBVIOUS
<1>2. Init => (~blind => ErrorKeepsLive)
  BY DEF Init, ErrorKeepsLive
<1>3. TypeInv /\ SettledInv /\ [Next]_vars => SettledInv'
  BY <1>1, SettledInvStep
<1>4. TypeInv /\ SettledInv /\ (~blind => ErrorKeepsLive) /\ [Next]_vars
        => (~blind => ErrorKeepsLive)'
  BY ErrorStep
<1>. QED
  BY <1>2, <1>3, <1>4, SettledInvInit, TypeInvAlways, PTL DEF Spec
-----------------------------------------------------------------------------
(* The saved password, one request at a time.  Saves may fail here.         *)

(* The row has no password that memory has not, unless it could not be      *)
(* read; what will be saved is the configuration in memory; and a form that  *)
(* was filled in carries a password if memory has one.                      *)
KeepsPassword(j) ==
  /\ j.at \in {"load", "write", "writing"} => j.op # "email"
  /\ j.at = "save" => j.copy = cfg
  /\ j.at = "apply" /\ j.op = "email" /\ HasPassword(cfg) => j.value.password # None

PasswordInv ==
  /\ AloneInv
  /\ HasPassword(disk) => HasPassword(cfg) \/ unread
  /\ \A a \in Actors : job[a].at # "idle" => KeepsPassword(job[a])

LEMMA PasswordInvInit == Init => PasswordInv
BY DEF Init, PasswordInv, AloneInv, HasPassword, Idle

(* A step of the one actor that is not idle, or that was the first to begin. *)
LEMMA OnePasswordJob ==
  ASSUME TypeInv, NEW a \in Actors, Alone(a), NEW j, Begin(a, j),
         HasPassword(disk') => HasPassword(cfg') \/ unread',
         j.at # "idle" => KeepsPassword(j)'
  PROVE  PasswordInv'
<1>1. job'[a] = j /\ \A b \in Actors \ {a} : job'[b] = job[b]
  BY DEF Begin, TypeInv, TypeOK
<1>2. \A b \in Actors \ {a} : job'[b].at = "idle"
  BY <1>1 DEF Alone
<1>3. AloneInv'
  BY <1>2 DEF AloneInv, Alone
<1>4. \A b \in Actors : job'[b].at # "idle" => KeepsPassword(job[b])'
  BY <1>1, <1>2 DEF KeepsPassword
<1>. QED
  BY <1>3, <1>4 DEF PasswordInv, HasPassword

LEMMA PasswordUndisturbed ==
  ASSUME PasswordInv, UNCHANGED <<cfg, disk, job, unread>>
  PROVE  PasswordInv'
BY DEF PasswordInv, AloneInv, Alone, KeepsPassword, HasPassword

LEMMA PasswordInvStep ==
  ASSUME ~Overlap, TypeInv, PasswordInv, [Next]_vars
  PROVE  PasswordInv' /\ (HasPassword(disk) => HasPassword(disk') \/ unread)
<1>. DEFINE Kept == PasswordInv' /\ (HasPassword(disk) => HasPassword(disk') \/ unread)
<1>. USE DEF memory, endpoint
<1>1. ASSUME NEW a \in Actors, Ready(a), NEW j, Begin(a, j),
             j.at \in {"load", "write", "password", "apply"}, j.op = "email" => j.at = "password",
             UNCHANGED <<cfg, disk, unread>>
      PROVE  Kept
  <2>1. Alone(a) /\ KeepsPassword(j)'
    BY <1>1 DEF Ready, Alone, KeepsPassword
  <2>. QED
    BY <1>1, <2>1, OnePasswordJob DEF PasswordInv, HasPassword
<1>2. ASSUME NEW a \in Handlers, NEW u \in Urls, NEW refresh \in BOOLEAN,
             PostLink(a, u, refresh)
      PROVE  Kept
  <2>1. PICK j : j = [Idle EXCEPT !.at = "load", !.op = "source", !.value = u,
                                  !.Refresh = refresh]
    OBVIOUS
  <2>2. j.at = "load" /\ j.op = "source"
    BY <2>1 DEF Idle
  <2>. QED
    BY <1>1, <1>2, <2>1, <2>2 DEF PostLink, Actors
<1>3. ASSUME NEW a \in Handlers, NEW n \in 0 .. MaxEdits, PostFile(a, n) PROVE Kept
  <2>1. PICK j : j = [Idle EXCEPT !.at = "write", !.op = "source", !.value = File,
                                  !.facts = [source |-> File, edition |-> n]]
    OBVIOUS
  <2>2. j.at = "write" /\ j.op = "source"
    BY <2>1 DEF Idle
  <2>. QED
    BY <1>1, <1>3, <2>1, <2>2 DEF PostFile, Actors
<1>4. ASSUME NEW a \in Handlers, NEW w \in Hooks, PostWebhook(a, w) PROVE Kept
  <2>1. PICK j : j = [Idle EXCEPT !.at = "apply", !.op = "webhook", !.value = w]
    OBVIOUS
  <2>2. j.at = "apply" /\ j.op = "webhook"
    BY <2>1 DEF Idle
  <2>. QED
    BY <1>1, <1>4, <2>1, <2>2 DEF PostWebhook, Actors
<1>5. ASSUME NEW a \in Handlers, NEW e \in Emails, PostEmail(a, e) PROVE Kept
  <2>1. PICK j : j = [Idle EXCEPT !.at = "password", !.op = "email", !.value = e]
    OBVIOUS
  <2>2. j.at = "password" /\ j.op = "email"
    BY <2>1 DEF Idle
  <2>. QED
    BY <1>1, <1>5, <2>1, <2>2 DEF PostEmail, Actors
<1>6. ASSUME NEW a \in Actors, BeginRefresh(a) PROVE Kept
  <2>1. PICK j : j = [Idle EXCEPT !.at = "load", !.value = cfg.Source]
    OBVIOUS
  <2>2. j.at = "load" /\ j.op = "refresh"
    BY <2>1 DEF Idle
  <2>. QED
    BY <1>1, <1>6, <2>1, <2>2 DEF BeginRefresh
<1>7. ASSUME NEW a \in Actors, job[a].at # "idle"
      PROVE  Alone(a) /\ KeepsPassword(job[a]) /\ job[a] \in Job /\ Carries(job[a])
  BY <1>7 DEF PasswordInv, AloneInv, TypeInv, TypeOK, CarryInv
<1>8. ASSUME NEW a \in Actors, job[a].at # "idle", Finish(a), UNCHANGED <<cfg, disk, unread>>
      PROVE  Kept
  <2>1. Begin(a, Idle) /\ Idle.at = "idle"
    BY <1>8 DEF Finish, Begin, Idle
  <2>. QED
    BY <1>7, <1>8, <2>1, OnePasswordJob DEF PasswordInv, HasPassword
<1>9. ASSUME NEW a \in Actors, Load(a) \/ Truncate(a) \/ Fill(a) PROVE Kept
  <2>1. PICK j : Begin(a, j) /\ j = job'[a]
    BY <1>9 DEF Load, Truncate, Fill, Goto, Begin, TypeInv, TypeOK
  <2>2. /\ job[a].at \in {"load", "write", "writing"} /\ job[a].op # "email"
        /\ j.at \in {"writing", "apply"} /\ j.op = job[a].op
    BY <1>7, <1>9, <2>1 DEF Load, Truncate, Fill, Goto, Job, KeepsPassword, TypeInv, TypeOK
  <2>3. KeepsPassword(j)'
    BY <2>2 DEF KeepsPassword
  <2>. QED
    BY <1>7, <1>9, <2>1, <2>2, <2>3, OnePasswordJob
       DEF Load, Truncate, Fill, PasswordInv, HasPassword
<1>10. ASSUME NEW a \in Actors, NEW c, job[a].at = "apply", Copy(a, c), cfg' = c,
              HasPassword(cfg) => HasPassword(c), UNCHANGED <<disk, unread>>
       PROVE  Kept
  <2>1. PICK j : j = [job[a] EXCEPT !.at = "save", !.copy = c]
    OBVIOUS
  <2>2. Begin(a, j) /\ j.at = "save" /\ j.copy = c
    BY <1>7, <1>10, <2>1 DEF Copy, Begin, Job
  <2>3. KeepsPassword(j)'
    BY <1>10, <2>2 DEF KeepsPassword
  <2>4. HasPassword(disk') => HasPassword(cfg') \/ unread'
    BY <1>10 DEF PasswordInv
  <2>. QED
    BY <1>7, <1>10, <2>2, <2>3, <2>4, OnePasswordJob
<1>11. ASSUME NEW a \in Actors, ApplySource(a) PROVE Kept
  <2>1. PICK c : c = [cfg EXCEPT !.Source = job[a].value, !.Refresh = job[a].Refresh]
    OBVIOUS
  <2>2. job[a].value \in Sources /\ job[a].Refresh \in BOOLEAN
    BY <1>7, <1>11 DEF ApplySource, Job, Carries
  <2>3. c.Email = cfg.Email /\ c \in Config
    BY <2>1, <2>2 DEF TypeInv, TypeOK, Config
  <2>. QED
    BY <1>10, <1>11, <2>1, <2>3, AdminAssumption DEF ApplySource, HasPassword
<1>12. ASSUME NEW a \in Actors, ApplyRefresh(a) PROVE Kept
  BY <1>10, <1>12 DEF ApplyRefresh
<1>13. ASSUME NEW a \in Actors, FillPassword(a) PROVE Kept
  <2>1. PICK e : e = IF job[a].value.password = None /\ cfg.Email # None
                     THEN [job[a].value EXCEPT !.password = cfg.Email.password]
                     ELSE job[a].value
    OBVIOUS
  <2>2. PICK j : j = [job[a] EXCEPT !.at = "apply", !.value = e]
    OBVIOUS
  <2>3. job[a].at = "password" /\ Begin(a, j) /\ UNCHANGED <<cfg, disk, unread>>
    BY <1>13, <2>1, <2>2 DEF FillPassword, Begin
  <2>4. j.at = "apply" /\ j.value = e /\ job[a].value \in Emails
    BY <1>7, <2>2, <2>3 DEF Job, Carries
  <2>5. HasPassword(cfg) => e.password # None
    BY <2>1, <2>4 DEF HasPassword, Emails
  <2>6. KeepsPassword(j)'
    BY <2>3, <2>4, <2>5 DEF KeepsPassword, HasPassword
  <2>. QED
    BY <1>7, <2>3, <2>6, OnePasswordJob DEF PasswordInv, HasPassword
<1>14. ASSUME NEW a \in Actors, ApplyDelivery(a) PROVE Kept
  <2>1. PICK c : c = IF job[a].op = "webhook"
                     THEN [cfg EXCEPT !.WebhookURL = job[a].value]
                     ELSE [cfg EXCEPT !.Email = job[a].value]
    OBVIOUS
  <2>2. /\ job[a].at = "apply" /\ job[a].op \in {"webhook", "email"}
        /\ cfg' = c /\ Copy(a, c) /\ UNCHANGED <<disk, unread>>
    BY <1>14, <2>1 DEF ApplyDelivery, Copy
  <2>3. /\ job[a].op = "webhook" => job[a].value \in Hooks
        /\ job[a].op = "email" => job[a].value \in Emails
    BY <1>7, <2>2 DEF Carries
  <2>4. /\ job[a].op = "webhook" => c.Email = cfg.Email
        /\ job[a].op = "email" => c.Email = job[a].value
        /\ c \in Config
    BY <2>1, <2>2, <2>3 DEF TypeInv, TypeOK, Config
  <2>5. HasPassword(cfg) => HasPassword(c)
    BY <1>7, <2>2, <2>3, <2>4, AdminAssumption DEF HasPassword, KeepsPassword
  <2>. QED
    BY <1>10, <2>2, <2>5
<1>15. ASSUME NEW a \in Actors, Save(a) PROVE Kept
  <2>1. PICK j : j = [job[a] EXCEPT !.at = "publish"]
    OBVIOUS
  <2>2. /\ job[a].at = "save" /\ disk' = job[a].copy /\ Begin(a, j) /\ cfg' = cfg
    BY <1>15, <2>1 DEF Save, Goto, Begin
  <2>3. j.at = "publish" /\ disk' = cfg
    BY <1>7, <2>1, <2>2 DEF Job, KeepsPassword
  <2>4. KeepsPassword(j)'
    BY <2>3 DEF KeepsPassword
  <2>. QED
    BY <1>7, <2>2, <2>3, <2>4, OnePasswordJob DEF PasswordInv, HasPassword
<1>16. ASSUME NEW a \in Actors, SaveErr(a) PROVE Kept
  <2>1. PICK j : j = [job[a] EXCEPT !.at = "publish"]
    OBVIOUS
  <2>2. CASE job[a].op = "refresh"
    <3>1. j.at = "publish" /\ Begin(a, j) /\ job[a].at = "save" /\ UNCHANGED <<cfg, disk, unread>>
      BY <1>7, <1>16, <2>1, <2>2 DEF SaveErr, Goto, Begin, Job
    <3>2. KeepsPassword(j)'
      BY <3>1 DEF KeepsPassword
    <3>. QED
      BY <1>7, <3>1, <3>2, OnePasswordJob DEF PasswordInv, HasPassword
  <2>3. CASE job[a].op # "refresh"
    BY <1>8, <1>16, <2>3 DEF SaveErr
  <2>. QED
    BY <2>2, <2>3
<1>17. ASSUME NEW a \in Actors, LoadErr(a) \/ WriteErr(a) \/ PublishProvider(a)
                                \/ PublishDelivery(a)
       PROVE  Kept
  BY <1>8, <1>17 DEF LoadErr, WriteErr, PublishProvider, PublishDelivery
<1>18. CASE BootFirst \/ BootUnread \/ BootRestores \/ BootFails
  <2>1. PICK row \in {None, disk} : Boot(row)
    BY <1>18 DEF BootFirst, BootUnread, BootRestores, BootFails
  <2>2. disk' = disk /\ \A a \in Actors : job'[a].at = "idle"
    BY <2>1 DEF Boot, Idle
  <2>3. HasPassword(disk') => HasPassword(cfg') \/ unread'
    BY <2>1, <2>2 DEF Boot, HasPassword
  <2>. QED
    BY <2>1, <2>2, <2>3 DEF PasswordInv, AloneInv, HasPassword
<1>19. ASSUME UNCHANGED <<cfg, disk, job, unread>> PROVE Kept
  BY <1>19, PasswordUndisturbed DEF HasPassword
<1>20. ASSUME NEW a \in Handlers, Skip(a) \/ PostRefresh(a) PROVE Kept
  BY <1>6, <1>19, <1>20 DEF Skip, PostRefresh, Actors
<1>21. ASSUME NEW g \in Refreshers, Park(g) \/ Tick(g) \/ Exit(g) PROVE Kept
  BY <1>6, <1>19, <1>21 DEF Park, Tick, Exit, Actors
<1>22. CASE UNCHANGED vars \/ \E u \in Urls : Edit(u)
  BY <1>19, <1>22 DEF vars, Edit
<1>23. ASSUME NEW a \in Actors, Step(a) PROVE Kept
  BY <1>9, <1>11, <1>12, <1>13, <1>14, <1>15, <1>16, <1>17, <1>23 DEF Step
<1>. QED
  BY <1>2, <1>3, <1>4, <1>5, <1>18, <1>20, <1>21, <1>22, <1>23 DEF Next

(* One request at a time, a form that leaves the password blank never loses *)
(* the saved one, through failing Saves, other forms and restarts, but for   *)
(* one case: the first Save of a process whose start could not read the row. *)
THEOREM PasswordIsKept == ~Overlap => (Spec => PasswordStays)
<1>1. SUFFICES ASSUME ~Overlap PROVE Spec => PasswordStays
  OBVIOUS
<1>2. TypeInv /\ PasswordInv /\ [Next]_vars => PasswordInv'
  BY <1>1, PasswordInvStep
<1>3. TypeInv /\ PasswordInv /\ [Next]_vars =>
        [HasPassword(disk) => HasPassword(disk') \/ unread]_vars
  BY <1>1, PasswordInvStep
<1>. QED
  BY <1>2, <1>3, PasswordInvInit, TypeInvAlways, PTL DEF Spec, PasswordStays
=============================================================================
