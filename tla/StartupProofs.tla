----------------------------- MODULE StartupProofs -----------------------------
(***************************************************************************)
(* TLAPS proofs about Startup: its types, that a serving process finds     *)
(* every column, that -file is ignored once there is a configuration, and  *)
(* that a status lookup shows a request to its requester only.             *)
(***************************************************************************)
EXTENDS Startup, TLAPS

LEMMA TypeInit == Init => TypeOK
<1> SUFFICES ASSUME Init PROVE TypeOK
  OBVIOUS
<1>1. [at |-> "down"] \in Job
  BY DEF Job
<1>2. job \in [Processes -> Job]
  BY <1>1 DEF Init
<1>3. token \in [Requests -> {"absent", "unknown", "blank", "own"}]
  BY DEF Init
<1> QED BY <1>2, <1>3 DEF Init, TypeOK, Tables, Columns, Later, Created

(* What the types say of one process's job.                                 *)
LEMMA JobParts ==
  ASSUME TypeOK, NEW p \in Processes
  PROVE  /\ job[p] \in Job
         /\ ~At(p, "down") => job[p].configured \in BOOLEAN
         /\ job[p].at \in {"create", "columns", "alter"} => job[p].table \in Tables
         /\ job[p].at \in {"columns", "alter"} => job[p].todo \subseteq Columns
         /\ At(p, "alter") => job[p].column \in Columns
         /\ job[p].at \in {"read", "save"} => job[p].file \in Files
<1>1. job[p] \in Job
  BY DEF TypeOK
<1> QED BY <1>1 DEF Job, At

(* A process's new job keeps the types if it is one.                         *)
LEMMA BecomeType ==
  ASSUME TypeOK, NEW p \in Processes, NEW j \in Job, Become(p, j)
  PROVE  job' \in [Processes -> Job]
BY DEF TypeOK, Become

LEMMA ReachType ==
  ASSUME TypeOK, NEW p \in Processes, ~At(p, "down"),
         NEW s \in {"seed", "new", "auth", "listen", "serving"}, Reach(p, s)
  PROVE  job' \in [Processes -> Job]
<1>1. [at |-> s, configured |-> job[p].configured] \in Job
  BY JobParts DEF Job
<1> QED BY <1>1, BecomeType DEF Reach

LEMMA DownType ==
  ASSUME TypeOK, NEW p \in Processes, Become(p, [at |-> "down"])
  PROVE  job' \in [Processes -> Job]
<1>1. [at |-> "down"] \in Job
  BY DEF Job
<1> QED BY <1>1, BecomeType

LEMMA LaterType == \A t : Later(t) \subseteq Columns /\ Created(t) \subseteq Columns
BY DEF Later, Created, Columns

LEMMA TodoExcept ==
  ASSUME NEW j \in Job, j.at = "columns", NEW d \in SUBSET Columns
  PROVE  [j EXCEPT !.todo = d] \in Job
<1>1. j \in [at : {"columns"}, table : Tables, todo : SUBSET Columns,
             configured : BOOLEAN]
  BY DEF Job
<1>2. [j EXCEPT !.todo = d] \in [at : {"columns"}, table : Tables, todo : SUBSET Columns,
                                 configured : BOOLEAN]
  BY <1>1
<1> QED BY <1>2 DEF Job

LEMMA AtExcept ==
  ASSUME NEW j \in Job, j.at = "read"
  PROVE  [j EXCEPT !.at = "save"] \in Job
<1>1. j \in [at : {"read"}, file : Files, configured : BOOLEAN]
  BY DEF Job
<1>2. [j EXCEPT !.at = "save"] \in [at : {"save"}, file : Files, configured : BOOLEAN]
  BY <1>1
<1> QED BY <1>2 DEF Job

(* The steps of one process, one by one.                                    *)
LEMMA StepCases ==
  ASSUME NEW p, Boot(p) \/ Stop(p) \/ OpenStep(p) \/ MainStep(p) \/ Run(p)
  PROVE  \/ Boot(p)
         \/ Stop(p)
         \/ CreateTable(p)
         \/ \E c \in Columns : ColumnThere(p, c)
         \/ \E c \in Columns : ColumnMissing(p, c)
         \/ AddColumn(p)
         \/ OpenFails(p)
         \/ Opened(p)
         \/ SeedNothing(p)
         \/ SeedFails(p)
         \/ New(p)
         \/ Listen(p)
         \/ SeedRead(p)
         \/ SeedSave(p)
         \/ \E f \in Files : SeedLoad(p, f)
         \/ ListenFails(p)
         \/ \E loopback, password \in BOOLEAN : RequireAuth(p, loopback, password)
         \/ Run(p)
BY DEF OpenStep, MainStep

LEMMA TypeStep ==
  ASSUME TypeOK, NEW p \in Processes,
         Boot(p) \/ Stop(p) \/ OpenStep(p) \/ MainStep(p) \/ Run(p)
  PROVE  TypeOK'
<1>1. CASE Boot(p)
  <2>1. [at |-> "create", table |-> "provider_config", configured |-> row # None] \in Job
    BY DEF Job, Tables
  <2> QED BY <2>1, <1>1, BecomeType DEF Boot, database, TypeOK
<1>2. CASE Stop(p)
  BY <1>2, DownType DEF Stop, database, TypeOK
<1>3. CASE CreateTable(p)
  <2> DEFINE t == job[p].table
  <2>1. t \in Tables /\ job[p].configured \in BOOLEAN
    BY <1>3, JobParts DEF CreateTable, At
  <2>2. [at |-> "columns", table |-> t, todo |-> Later(t),
         configured |-> job[p].configured] \in Job
    BY <2>1, LaterType DEF Job
  <2>3. job' \in [Processes -> Job]
    BY <2>2, <1>3, BecomeType DEF CreateTable
  <2>4. columns' \in [Tables -> SUBSET Columns] /\ table' \subseteq Tables
    BY <2>1, <1>3, LaterType DEF CreateTable, TypeOK
  <2> QED BY <2>3, <2>4, <1>3 DEF CreateTable, TypeOK
<1>4. CASE \E c \in Columns : ColumnThere(p, c)
  <2> PICK c \in Columns : ColumnThere(p, c)
    BY <1>4
  <2>1. job[p].todo \ {c} \in SUBSET Columns
    BY JobParts DEF ColumnThere, At
  <2>2. [job[p] EXCEPT !.todo = @ \ {c}] \in Job
    BY <2>1, JobParts, TodoExcept DEF ColumnThere, At
  <2>3. job' \in [Processes -> Job]
    BY <2>2, BecomeType DEF ColumnThere
  <2> QED BY <2>3 DEF ColumnThere, database, TypeOK
<1>5. CASE \E c \in Columns : ColumnMissing(p, c)
  <2> PICK c \in Columns : ColumnMissing(p, c)
    BY <1>5
  <2>1. [at |-> "alter", table |-> job[p].table, todo |-> job[p].todo \ {c},
         column |-> c, configured |-> job[p].configured] \in Job
    BY JobParts DEF ColumnMissing, Job, At
  <2>2. job' \in [Processes -> Job]
    BY <2>1, BecomeType DEF ColumnMissing
  <2> QED BY <2>2 DEF ColumnMissing, database, TypeOK
<1>6. CASE AddColumn(p)
  <2>1. [at |-> "columns", table |-> job[p].table, todo |-> job[p].todo,
         configured |-> job[p].configured] \in Job
    BY <1>6, JobParts DEF AddColumn, Job, At
  <2>2. job' \in [Processes -> Job]
    BY <1>6, <2>1, BecomeType DEF AddColumn
  <2>3. columns' \in [Tables -> SUBSET Columns]
    BY <1>6, JobParts DEF AddColumn, TypeOK, At
  <2>4. token' \in [Requests -> {"absent", "unknown", "blank", "own"}]
    BY <1>6 DEF AddColumn, TypeOK
  <2> QED BY <1>6, <2>2, <2>3, <2>4 DEF AddColumn, TypeOK
<1>7. CASE OpenFails(p)
  BY <1>7, DownType DEF OpenFails, database, TypeOK
<1>8. CASE Opened(p)
  <2>1. [at |-> "create", table |-> "booking_requests",
         configured |-> job[p].configured] \in Job
    BY <1>8, JobParts DEF Opened, Job, At, Tables
  <2>2. job' \in [Processes -> Job]
    BY <1>8, <2>1, BecomeType, ReachType DEF Opened, At
  <2> QED BY <1>8, <2>2 DEF Opened, database, TypeOK
<1>9. CASE SeedNothing(p)
  <2>1. job' \in [Processes -> Job]
    BY <1>9, ReachType DEF SeedNothing, At
  <2> QED BY <1>9, <2>1 DEF SeedNothing, database, TypeOK
<1>10. CASE SeedFails(p)
  <2>1. job' \in [Processes -> Job]
    BY <1>10, ReachType DEF SeedFails, At
  <2> QED BY <1>10, <2>1 DEF SeedFails, database, TypeOK
<1>11. CASE New(p)
  <2>1. job' \in [Processes -> Job]
    BY <1>11, ReachType DEF New, At
  <2> QED BY <1>11, <2>1 DEF New, database, TypeOK
<1>12. CASE Listen(p)
  <2>1. job' \in [Processes -> Job]
    BY <1>12, ReachType DEF Listen, At
  <2> QED BY <1>12, <2>1 DEF Listen, database, TypeOK
<1>13. CASE SeedRead(p)
  <2>1. [job[p] EXCEPT !.at = "save"] \in Job
    BY <1>13, JobParts, AtExcept DEF SeedRead, At
  <2>3. job' \in [Processes -> Job]
    BY <1>13, <2>1, BecomeType DEF SeedRead
  <2> QED BY <1>13, <2>3 DEF SeedRead, database, TypeOK
<1>14. CASE SeedSave(p)
  <2>1. job' \in [Processes -> Job]
    BY <1>14, ReachType DEF SeedSave, At
  <2>2. job[p].file \in Files
    BY <1>14, JobParts DEF SeedSave, At
  <2> QED BY <1>14, <2>1, <2>2 DEF SeedSave, TypeOK
<1>15. CASE \E f \in Files : SeedLoad(p, f)
  <2> PICK f \in Files : SeedLoad(p, f)
    BY <1>15
  <2>1. [at |-> "read", file |-> f, configured |-> job[p].configured] \in Job
    BY JobParts DEF SeedLoad, Job, At
  <2>2. job' \in [Processes -> Job]
    BY <2>1, BecomeType DEF SeedLoad
  <2> QED BY <2>2 DEF SeedLoad, database, TypeOK
<1>16. CASE ListenFails(p)
  BY <1>16, DownType DEF ListenFails, database, TypeOK
<1>17. CASE \E loopback, password \in BOOLEAN : RequireAuth(p, loopback, password)
  <2>1. job' \in [Processes -> Job]
    BY <1>17, ReachType, DownType DEF RequireAuth, At
  <2> QED BY <1>17, <2>1 DEF RequireAuth, database, TypeOK
<1>18. CASE Run(p)
  BY <1>18 DEF Run, SaveForm, Enqueue, CheckStatus, Matching, database, TypeOK
<1> QED BY StepCases, <1>1, <1>2, <1>3, <1>4, <1>5, <1>6, <1>7, <1>8, <1>9, <1>10, <1>11, <1>12, <1>13, <1>14, <1>15, <1>16, <1>17, <1>18

(* Tables, columns, configurations and jobs are of their types, and the      *)
(* same for the rows' status tokens.                                        *)
THEOREM TypeCorrect == Spec => []TypeOK
<1>1. TypeOK /\ [Next]_vars => TypeOK'
  <2>1. ASSUME TypeOK, UNCHANGED vars PROVE TypeOK'
    BY <2>1 DEF vars, database, TypeOK
  <2> QED BY <2>1, TypeStep DEF Next
<1> QED BY TypeInit, <1>1, PTL DEF Spec
-----------------------------------------------------------------------------
(* Migration *)

Migrated(t) == t \in table /\ Later(t) \subseteq columns[t]

(* How far p has brought the tables: the columns it no longer looks for are *)
(* there, and the tables it has left behind are up to date.                 *)
Progress(p) ==
  /\ job[p].at \in {"create", "columns", "alter"} /\ job[p].table = "booking_requests" =>
       Migrated("provider_config")
  /\ At(p, "columns") =>
       /\ job[p].table \in table
       /\ Later(job[p].table) \ job[p].todo \subseteq columns[job[p].table]
  /\ At(p, "alter") =>
       /\ job[p].table \in table
       /\ Later(job[p].table) \ (job[p].todo \cup {job[p].column})
            \subseteq columns[job[p].table]
  /\ job[p].at \in {"seed", "read", "save", "new", "auth", "listen", "serving"} =>
       \A t \in Tables : Migrated(t)

MigrationInv == \A p \in Processes : Progress(p)

(* No step takes away a table or a column.                                   *)
LEMMA ColumnsStay ==
  ASSUME TypeOK, NEW p \in Processes,
         Boot(p) \/ Stop(p) \/ OpenStep(p) \/ MainStep(p) \/ Run(p)
  PROVE  /\ table \subseteq table'
         /\ \A t \in table : columns[t] \subseteq columns'[t]
         /\ \A q \in Processes : q # p => job'[q] = job[q]
<1>1. CASE CreateTable(p)
  BY <1>1 DEF CreateTable, Become, TypeOK
<1>2. CASE AddColumn(p)
  BY <1>2 DEF AddColumn, Become, TypeOK
<1>3. CASE ~CreateTable(p) /\ ~AddColumn(p)
  <2>1. UNCHANGED <<table, columns>>
    BY <1>3, StepCases DEF Boot, Stop, ColumnThere, ColumnMissing, OpenFails, Opened,
       SeedNothing, SeedLoad, SeedRead, SeedFails, SeedSave, New, Listen, ListenFails,
       RequireAuth, Run, SaveForm, Enqueue, CheckStatus, database
  <2>2. \A q \in Processes : q # p => job'[q] = job[q]
    BY <1>3, StepCases DEF Boot, Stop, ColumnThere, ColumnMissing, OpenFails, Opened,
       SeedNothing, SeedLoad, SeedRead, SeedFails, SeedSave, New, Listen, ListenFails,
       RequireAuth, Run, SaveForm, Enqueue, CheckStatus, Become, Reach, TypeOK
  <2> QED BY <2>1, <2>2
<1> QED BY <1>1, <1>2, <1>3

(* So the progress of the other processes is not lost.                       *)
LEMMA ProgressStays ==
  ASSUME TypeOK, MigrationInv, NEW q \in Processes, job'[q] = job[q],
         table \subseteq table', \A t \in table : columns[t] \subseteq columns'[t]
  PROVE  Progress(q)'
<1>1. \A t : Migrated(t) => Migrated(t)'
  BY DEF Migrated
<1>2. Progress(q)
  BY DEF MigrationInv
<1> QED BY <1>1, <1>2, Zenon DEF Progress, At

LEMMA NewJob ==
  ASSUME TypeOK, NEW p \in Processes, NEW j, Become(p, j)
  PROVE  job'[p] = j
BY DEF TypeOK, Become

LEMMA NewStage ==
  ASSUME TypeOK, NEW p \in Processes, NEW s, Reach(p, s)
  PROVE  job'[p].at = s /\ job'[p].configured = job[p].configured
<1>1. job'[p] = [at |-> s, configured |-> job[p].configured]
  BY DEF TypeOK, Reach, Become
<1> QED BY <1>1

LEMMA NewDown ==
  ASSUME TypeOK, NEW p \in Processes, Become(p, [at |-> "down"])
  PROVE  job'[p].at = "down"
BY NewJob

LEMMA MigrationStep ==
  ASSUME TypeOK, MigrationInv, NEW p \in Processes,
         Boot(p) \/ Stop(p) \/ OpenStep(p) \/ MainStep(p) \/ Run(p)
  PROVE  MigrationInv'
<1> DEFINE t == job[p].table
<1>0. Progress(p)
  BY DEF MigrationInv
<1>1. SUFFICES Progress(p)'
  BY ColumnsStay, ProgressStays DEF MigrationInv
<1>2. CASE Boot(p)
  <2>1. job'[p].at = "create" /\ job'[p].table = "provider_config"
    BY <1>2, NewJob DEF Boot
  <2> QED BY <2>1 DEF Progress, At
<1>3. CASE Stop(p) \/ OpenFails(p) \/ ListenFails(p)
  <2>1. job'[p].at = "down"
    BY <1>3, NewJob DEF Stop, OpenFails, ListenFails
  <2> QED BY <2>1 DEF Progress, At
<1>4. CASE CreateTable(p)
  <2>1. job'[p].at = "columns" /\ job'[p].table = t /\ job'[p].todo = Later(t)
    BY <1>4, NewJob DEF CreateTable
  <2>2. t \in table'
    BY <1>4 DEF CreateTable
  <2>3. t = "booking_requests" => Migrated("provider_config")'
    BY <1>0, <1>4, ColumnsStay DEF Progress, Migrated, CreateTable, At
  <2> QED BY <2>1, <2>2, <2>3 DEF Progress, At
<1>5. CASE \E c \in Columns : ColumnThere(p, c)
  <2> PICK c \in Columns : ColumnThere(p, c)
    BY <1>5
  <2>1. job'[p] = [job[p] EXCEPT !.todo = @ \ {c}]
    BY NewJob DEF ColumnThere
  <2>2. job'[p].at = "columns" /\ job'[p].table = t /\ job'[p].todo = job[p].todo \ {c}
    BY <2>1, JobParts DEF ColumnThere, At, Job
  <2>3. Later(t) \ (job[p].todo \ {c}) \subseteq columns[t]
    BY <1>0 DEF ColumnThere, Progress, At
  <2> QED BY <1>0, <2>2, <2>3 DEF ColumnThere, database, Progress, Migrated, At
<1>6. CASE \E c \in Columns : ColumnMissing(p, c)
  <2> PICK c \in Columns : ColumnMissing(p, c)
    BY <1>6
  <2>1. /\ job'[p].at = "alter" /\ job'[p].table = t
        /\ job'[p].todo = job[p].todo \ {c} /\ job'[p].column = c
    BY NewJob DEF ColumnMissing
  <2>2. Later(t) \ ((job[p].todo \ {c}) \cup {c}) \subseteq columns[t]
    BY <1>0 DEF ColumnMissing, Progress, At
  <2> QED BY <1>0, <2>1, <2>2 DEF ColumnMissing, database, Progress, Migrated, At
<1>7. CASE AddColumn(p)
  <2>1. job'[p].at = "columns" /\ job'[p].table = t /\ job'[p].todo = job[p].todo
    BY <1>7, NewJob DEF AddColumn
  <2>2. columns'[t] = columns[t] \cup {job[p].column} /\ table' = table
    BY <1>7, JobParts DEF AddColumn, At, TypeOK
  <2>3. t \in table' /\ Later(t) \ job[p].todo \subseteq columns'[t]
    BY <1>0, <1>7, <2>2 DEF AddColumn, Progress, At
  <2>4. t = "booking_requests" => Migrated("provider_config")'
    BY <1>0, <1>7, ColumnsStay DEF Progress, Migrated, AddColumn, At
  <2> QED BY <2>1, <2>3, <2>4 DEF Progress, At
<1>8. CASE Opened(p)
  <2>1. Migrated(t) /\ UNCHANGED <<table, columns>>
    BY <1>0, <1>8 DEF Opened, Progress, Migrated, database, At
  <2>2. CASE t = "provider_config"
    <3>1. job'[p].at = "create" /\ job'[p].table = "booking_requests"
      BY <1>8, <2>2, NewJob DEF Opened
    <3> QED BY <2>1, <2>2, <3>1 DEF Progress, Migrated, At
  <2>3. CASE t = "booking_requests"
    <3>1. job'[p].at = "seed"
      BY <1>8, <2>3, NewJob DEF Opened, Reach
    <3>2. Migrated("provider_config")
      BY <1>0, <1>8, <2>3 DEF Opened, Progress, At
    <3> QED BY <2>1, <2>3, <3>1, <3>2 DEF Progress, Migrated, Tables, At
  <2> QED BY <1>8, <2>2, <2>3 DEF Opened
<1>9. CASE \/ SeedNothing(p) \/ SeedFails(p) \/ New(p) \/ Listen(p) \/ SeedSave(p)
           \/ SeedRead(p) \/ \E f \in Files : SeedLoad(p, f)
           \/ \E loopback, password \in BOOLEAN : RequireAuth(p, loopback, password)
           \/ Run(p)
  <2>1. (\A s \in Tables : Migrated(s)) /\ UNCHANGED <<table, columns>>
    BY <1>0, <1>9 DEF SeedNothing, SeedFails, New, Listen, SeedSave, SeedRead, SeedLoad,
       RequireAuth, Run, SaveForm, Enqueue, CheckStatus, database, Progress, At
  <2>2. job'[p].at \notin {"create", "columns", "alter"}
    <3>1. CASE SeedRead(p)
      <4>1. job'[p] \in Job /\ job'[p] = [job[p] EXCEPT !.at = "save"]
        BY <3>1, NewJob, TypeStep DEF SeedRead, TypeOK
      <4>2. job'[p].at = "save"
        BY <3>1, <4>1, JobParts DEF SeedRead, At, Job
      <4> QED BY <4>2
    <3>2. CASE Run(p)
      BY <3>2 DEF Run, SaveForm, Enqueue, CheckStatus, At
    <3>3. CASE ~SeedRead(p) /\ ~Run(p)
      <4>1. CASE \E f \in Files : SeedLoad(p, f)
        BY <4>1, NewJob DEF SeedLoad
      <4>2. CASE ~(\E f \in Files : SeedLoad(p, f))
        BY <1>9, <3>3, <4>2, NewStage, NewDown DEF SeedNothing, SeedFails, New, Listen,
           SeedSave, RequireAuth
      <4> QED BY <4>1, <4>2
    <3> QED BY <3>1, <3>2, <3>3
  <2> QED BY <2>1, <2>2 DEF Progress, Migrated, At
<1> QED BY <1>2, <1>3, <1>4, <1>5, <1>6, <1>7, <1>8, <1>9, StepCases

(* Whatever version left the database, wherever starts were interrupted and *)
(* whatever another process does, a serving process finds every column.     *)
THEOREM ServesMigrated == Spec => []ServingIsMigrated
<1>1. Init => MigrationInv
  BY DEF Init, MigrationInv, Progress, At
<1>2. TypeOK /\ MigrationInv /\ [Next]_vars => MigrationInv'
  <2>1. ASSUME TypeOK, MigrationInv, UNCHANGED vars PROVE MigrationInv'
    BY <2>1 DEF vars, database, MigrationInv, Progress, Migrated, At
  <2> QED BY <2>1, MigrationStep DEF Next
<1>3. MigrationInv => ServingIsMigrated
  BY DEF MigrationInv, Progress, Migrated, ServingIsMigrated, At
<1> QED BY <1>1, <1>2, <1>3, TypeCorrect, PTL DEF Spec
-----------------------------------------------------------------------------
(* Seeding *)

(* A row that was there when a process started is there still.              *)
SeedInv ==
  \A p \in Processes :
    /\ ~At(p, "down") /\ job[p].configured => row # None
    /\ job[p].at \in {"read", "save"} => ~job[p].configured

LEMMA SeedStep ==
  ASSUME TypeOK, SeedInv, NEW p \in Processes,
         Boot(p) \/ Stop(p) \/ OpenStep(p) \/ MainStep(p) \/ Run(p)
  PROVE  SeedInv'
<1>1. row # None => row' # None
  <2>1. CASE SeedSave(p)
    BY <2>1, JobParts, StartupAssumption DEF SeedSave, At
  <2>2. CASE Run(p)
    BY <2>2, StartupAssumption DEF Run, SaveForm, Enqueue, CheckStatus, database
  <2>3. CASE ~SeedSave(p) /\ ~Run(p)
    BY <2>3, StepCases DEF Boot, Stop, CreateTable, ColumnThere, ColumnMissing, AddColumn,
       OpenFails, Opened, SeedNothing, SeedLoad, SeedRead, SeedFails, New, Listen,
       ListenFails, RequireAuth, database
  <2> QED BY <2>1, <2>2, <2>3
<1>2. /\ job'[p].at # "down" /\ job'[p].configured => row' # None
      /\ job'[p].at \in {"read", "save"} => ~job'[p].configured
  <2>0. /\ job[p].at # "down" /\ job[p].configured => row # None
        /\ job[p].at \in {"read", "save"} => ~job[p].configured
    BY DEF SeedInv, At
  <2>1. CASE Boot(p)
    <3>1. job'[p] = [at |-> "create", table |-> "provider_config", configured |-> row # None]
      BY <2>1, NewJob DEF Boot
    <3>2. job'[p].at = "create" /\ job'[p].configured = (row # None)
      BY <3>1
    <3> QED BY <2>1, <3>2 DEF Boot, database
  <2>2. CASE Stop(p) \/ OpenFails(p) \/ ListenFails(p)
    BY <2>2, NewJob DEF Stop, OpenFails, ListenFails
  <2>3. CASE \E c \in Columns : ColumnThere(p, c)
    <3> PICK c \in Columns : ColumnThere(p, c)
      BY <2>3
    <3>1. job'[p] = [job[p] EXCEPT !.todo = @ \ {c}]
      BY NewJob DEF ColumnThere
    <3>2. job'[p].at = "columns" /\ job'[p].configured = job[p].configured
      BY <3>1, JobParts DEF ColumnThere, At, Job
    <3> QED BY <1>1, <2>0, <3>2 DEF ColumnThere, At
  <2>4. CASE SeedRead(p)
    <3>1. job'[p] = [job[p] EXCEPT !.at = "save"]
      BY <2>4, NewJob DEF SeedRead
    <3>2. job'[p].configured = job[p].configured
      BY <2>4, <3>1, JobParts DEF SeedRead, At, Job
    <3> QED BY <2>0, <2>4, <3>2 DEF SeedRead, At
  <2>5. CASE \E f \in Files : SeedLoad(p, f)
    <3> PICK f \in Files : SeedLoad(p, f)
      BY <2>5
    <3>1. job'[p].at = "read" /\ job'[p].configured = job[p].configured
      BY NewJob DEF SeedLoad
    <3>2. job[p].configured \in BOOLEAN /\ ~job[p].configured
      BY <2>0, JobParts DEF SeedLoad, At
    <3> QED BY <3>1, <3>2
  <2>6. CASE Run(p)
    BY <1>1, <2>0, <2>6 DEF Run, SaveForm, Enqueue, CheckStatus
  <2>7. CASE \/ CreateTable(p) \/ (\E c \in Columns : ColumnMissing(p, c))
             \/ AddColumn(p) \/ Opened(p)
             \/ SeedNothing(p) \/ SeedFails(p) \/ SeedSave(p) \/ New(p) \/ Listen(p)
             \/ \E loopback, password \in BOOLEAN : RequireAuth(p, loopback, password)
    <3>1. job[p].at # "down"
      BY <2>7 DEF CreateTable, ColumnMissing, AddColumn, Opened, SeedNothing, SeedFails,
         SeedSave, New, Listen, RequireAuth, At
    <3>2. \/ job'[p].at = "down"
          \/ /\ job'[p].configured = job[p].configured
             /\ job'[p].at \notin {"read", "save"}
      <4>1. CASE CreateTable(p)
        BY <4>1, NewJob DEF CreateTable
      <4>2. CASE \E c \in Columns : ColumnMissing(p, c)
        BY <4>2, NewJob DEF ColumnMissing
      <4>3. CASE AddColumn(p)
        BY <4>3, NewJob DEF AddColumn
      <4>4. CASE Opened(p)
        BY <4>4, NewJob, NewStage DEF Opened
      <4>5. CASE \/ SeedNothing(p) \/ SeedFails(p) \/ SeedSave(p) \/ New(p) \/ Listen(p)
                 \/ \E loopback, password \in BOOLEAN : RequireAuth(p, loopback, password)
        BY <4>5, NewStage, NewDown DEF SeedNothing, SeedFails, SeedSave, New, Listen,
           RequireAuth
      <4> QED BY <2>7, <4>1, <4>2, <4>3, <4>4, <4>5
    <3> QED BY <1>1, <2>0, <3>1, <3>2
  <2> QED BY <2>1, <2>2, <2>3, <2>4, <2>5, <2>6, <2>7, StepCases
<1> QED BY <1>1, <1>2, ColumnsStay DEF SeedInv, At

(* Once a configuration exists, no later start seeds another.                *)
THEOREM SeedsOnlyUnconfigured == Spec => []ConfiguredIsNotSeeded
<1>1. Init => SeedInv
  BY DEF Init, SeedInv, At
<1>2. TypeOK /\ SeedInv /\ [Next]_vars => SeedInv'
  <2>1. ASSUME SeedInv, UNCHANGED vars PROVE SeedInv'
    BY <2>1 DEF vars, database, SeedInv, At
  <2> QED BY <2>1, SeedStep DEF Next
<1>3. SeedInv => ConfiguredIsNotSeeded
  BY DEF SeedInv, ConfiguredIsNotSeeded
<1> QED BY <1>1, <1>2, <1>3, TypeCorrect, PTL DEF Spec
-----------------------------------------------------------------------------
(* A status lookup shows a request to who holds its token, and a request of *)
(* an old version to nobody.                                                *)
THEOREM LookupsAreOwn == Spec => []StatusFindsItsOwn
<1>1. Init => StatusFindsItsOwn
  BY DEF Init, StatusFindsItsOwn
<1>2. StatusFindsItsOwn /\ [Next]_vars => StatusFindsItsOwn'
  <2> SUFFICES ASSUME StatusFindsItsOwn, [Next]_vars PROVE StatusFindsItsOwn'
    OBVIOUS
  <2>1. CASE \E p \in Processes, asked \in Tokens : CheckStatus(p, asked)
    BY <2>1 DEF CheckStatus, Matching, StatusFindsItsOwn
  <2>2. CASE UNCHANGED shown
    BY <2>2 DEF StatusFindsItsOwn
  <2>3. UNCHANGED shown \/ \E p \in Processes, asked \in Tokens : CheckStatus(p, asked)
    BY StepCases DEF Next, vars, Boot, Stop, CreateTable, ColumnThere, ColumnMissing,
       AddColumn, OpenFails, Opened, SeedNothing, SeedLoad, SeedRead, SeedFails, SeedSave,
       New, Listen, ListenFails, RequireAuth, Run, SaveForm, Enqueue
  <2> QED BY <2>1, <2>2, <2>3
<1> QED BY <1>1, <1>2, PTL DEF Spec
=============================================================================
