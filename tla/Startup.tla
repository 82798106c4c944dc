-------------------------------- MODULE Startup --------------------------------
(***************************************************************************)
(* cmd/answerable/main.go from the start of a process to its listening:    *)
(* config.Open and booking.Open bring a database of any earlier version up *)
(* to date, one statement at a time; -file seeds the configuration; the    *)
(* admin server restores it.  A process may stop between any two           *)
(* statements, and nothing keeps two processes from starting on one file.  *)
(* The last three operations are what a running process does to the two    *)
(* tables, as far as it depends on their columns.                          *)
(***************************************************************************)
EXTENDS FiniteSets

CONSTANTS
  Processes,
  EmailColumns,   \* the email_* columns of provider_config
  Files,          \* configurations that -file can seed
  Forms,          \* configurations that the admin forms save
  Requests,       \* rows of booking_requests
  None

ASSUME StartupAssumption == None \notin Files \cup Forms /\ "blank" \notin Requests

VARIABLES
  table,     \* the tables that exist
  columns,   \* columns[t]: the columns t has besides those of its first version
  row,       \* the row of provider_config, or None
  token,     \* token[r]: what the status_token of r is
  job,       \* job[p]: how far process p has come
  shown      \* history: the last status lookup that found a row, and the row

database == <<table, columns, row, token>>
vars == <<database, job, shown>>

Tables == {"provider_config", "booking_requests"}

\* Columns that were added after a table's first version.
Later(t) ==
  IF t = "provider_config"
  THEN {"source_label", "source_updated_at_unix"} \cup EmailColumns
  ELSE {"status_token"}

\* Those of them that CREATE TABLE names.
Created(t) ==
  IF t = "provider_config" THEN {"source_label", "source_updated_at_unix"} ELSE {}

Columns == Later("provider_config") \cup Later("booking_requests")
Tokens == {"blank"} \cup Requests

\* configured is history: whether there was a row when p was started.
Job ==
       [at : {"down"}]
  \cup [at : {"create"}, table : Tables, configured : BOOLEAN]
  \cup [at : {"columns"}, table : Tables, todo : SUBSET Columns, configured : BOOLEAN]
  \cup [at : {"alter"}, table : Tables, todo : SUBSET Columns, column : Columns,
        configured : BOOLEAN]
  \cup [at : {"seed", "new", "auth", "listen", "serving"}, configured : BOOLEAN]
  \cup [at : {"read", "save"}, file : Files, configured : BOOLEAN]

TypeOK ==
  /\ table \subseteq Tables
  /\ columns \in [Tables -> SUBSET Columns]
  /\ row \in {None} \cup Files \cup Forms
  /\ token \in [Requests -> {"absent", "unknown", "blank", "own"}]
  /\ job \in [Processes -> Job]
  /\ shown \in {None} \cup [asked : Tokens, row : Requests]

\* No database, or one that some earlier version left.
Init ==
  /\ table \in SUBSET Tables
  /\ columns \in [Tables -> SUBSET Columns]
  /\ columns["provider_config"] \in
       IF "provider_config" \in table
       THEN {{}, Created("provider_config"), Later("provider_config")}
       ELSE {{}}
  /\ columns["booking_requests"] \in
       IF "booking_requests" \in table THEN {{}, Later("booking_requests")} ELSE {{}}
  /\ row \in IF "provider_config" \in table THEN {None} \cup Files \cup Forms
                ELSE {None}
  /\ token \in [Requests -> CASE "booking_requests" \notin table -> {"absent"}
                              [] columns["booking_requests"] = {} -> {"absent", "unknown"}
                              [] OTHER -> {"absent", "blank", "own"}]
  /\ job = [p \in Processes |-> [at |-> "down"]]
  /\ shown = None

At(p, stage) == job[p].at = stage
Become(p, j) == job' = [job EXCEPT ![p] = j]
Reach(p, stage) == Become(p, [at |-> stage, configured |-> job[p].configured])
-----------------------------------------------------------------------------
(* config.Open and booking.Open *)

Boot(p) ==
  /\ At(p, "down")
  /\ Become(p, [at |-> "create", table |-> "provider_config", configured |-> row # None])
  /\ UNCHANGED <<database, shown>>

\* log.Fatal, or any other end of the process.
Stop(p) ==
  /\ ~At(p, "down")
  /\ Become(p, [at |-> "down"])
  /\ UNCHANGED <<database, shown>>

\* CREATE TABLE IF NOT EXISTS.
CreateTable(p) ==
  LET t == job[p].table IN
  /\ At(p, "create")
  /\ table' = table \cup {t}
  /\ columns' = IF t \in table THEN columns ELSE [columns EXCEPT ![t] = Created(t)]
  /\ Become(p, [at |-> "columns", table |-> t, todo |-> Later(t),
                configured |-> job[p].configured])
  /\ UNCHANGED <<row, token, shown>>

\* The next columns to look for: the email columns come in map order.
Due(todo) ==
  CASE "source_label" \in todo -> {"source_label"}
    [] "source_label" \notin todo /\ "source_updated_at_unix" \in todo ->
         {"source_updated_at_unix"}
    [] OTHER -> todo

\* MUTANT: a column that is there stands for all the others.
ColumnThereDone(p, c) ==
  /\ At(p, "columns") /\ c \in Due(job[p].todo)
  /\ c \in columns[job[p].table]
  /\ Become(p, [job[p] EXCEPT !.todo = {}])
  /\ UNCHANGED <<database, shown>>

\* addColumnIfMissing finds the column in PRAGMA table_info.
ColumnThere(p, c) ==
  /\ At(p, "columns") /\ c \in Due(job[p].todo)
  /\ c \in columns[job[p].table]
  /\ Become(p, [job[p] EXCEPT !.todo = @ \ {c}])
  /\ UNCHANGED <<database, shown>>

\* It does not.
ColumnMissing(p, c) ==
  /\ At(p, "columns") /\ c \in Due(job[p].todo)
  /\ c \notin columns[job[p].table]
  /\ Become(p, [at |-> "alter", table |-> job[p].table, todo |-> job[p].todo \ {c},
                column |-> c, configured |-> job[p].configured])
  /\ UNCHANGED <<database, shown>>

\* MUTANT: the column has no default.
AddColumnNull(p) ==
  LET t == job[p].table IN
  /\ At(p, "alter")
  /\ job[p].column \notin columns[t]
  /\ columns' = [columns EXCEPT ![t] = @ \cup {job[p].column}]
  /\ token' = IF t = "booking_requests"
              THEN [r \in Requests |-> IF token[r] = "unknown" THEN "null" ELSE token[r]]
              ELSE token
  /\ Become(p, [at |-> "columns", table |-> t, todo |-> job[p].todo,
                configured |-> job[p].configured])
  /\ UNCHANGED <<table, row, shown>>

\* ALTER TABLE ADD COLUMN, with '' in the rows there are.
AddColumn(p) ==
  LET t == job[p].table IN
  /\ At(p, "alter")
  /\ job[p].column \notin columns[t]
  /\ columns' = [columns EXCEPT ![t] = @ \cup {job[p].column}]
  /\ token' = IF t = "booking_requests"
              THEN [r \in Requests |-> IF token[r] = "unknown" THEN "blank" ELSE token[r]]
              ELSE token
  /\ Become(p, [at |-> "columns", table |-> t, todo |-> job[p].todo,
                configured |-> job[p].configured])
  /\ UNCHANGED <<table, row, shown>>

\* MUTANT: the error of ALTER is not returned.
OpenFailsBefore(p) ==
  /\ job[p].at \in {"create", "columns"}
  /\ Become(p, [at |-> "down"])
  /\ UNCHANGED <<database, shown>>

\* A statement fails: ALTER always does if the other process was faster.
OpenFails(p) ==
  /\ job[p].at \in {"create", "columns", "alter"}
  /\ Become(p, [at |-> "down"])
  /\ UNCHANGED <<database, shown>>

\* One store is open; the other is opened, or main goes on.
Opened(p) ==
  /\ At(p, "columns") /\ job[p].todo = {}
  /\ \/ /\ job[p].table = "provider_config"
        /\ Become(p, [at |-> "create", table |-> "booking_requests",
                      configured |-> job[p].configured])
     \/ /\ job[p].table = "booking_requests"
        /\ Reach(p, "seed")
  /\ UNCHANGED <<database, shown>>
-----------------------------------------------------------------------------
(* seedIfUnconfigured, admin.New and the listeners *)

\* No -file, a row, or a Load that fails.
SeedNothing(p) ==
  /\ At(p, "seed")
  /\ Reach(p, "new")
  /\ UNCHANGED <<database, shown>>

\* MUTANT: the flag wins over the row.
SeedLoadAnyway(p, f) ==
  /\ At(p, "seed")
  /\ Become(p, [at |-> "read", file |-> f, configured |-> job[p].configured])
  /\ UNCHANGED <<database, shown>>

\* -file f, and Load finds no row.
SeedLoad(p, f) ==
  /\ At(p, "seed")
  /\ row = None
  /\ Become(p, [at |-> "read", file |-> f, configured |-> job[p].configured])
  /\ UNCHANGED <<database, shown>>

\* The file is opened, parsed and turned into facts.
SeedRead(p) ==
  /\ At(p, "read")
  /\ Become(p, [job[p] EXCEPT !.at = "save"])
  /\ UNCHANGED <<database, shown>>

\* A warning: the file cannot be read, or Save fails.
SeedFails(p) ==
  /\ job[p].at \in {"read", "save"}
  /\ Reach(p, "new")
  /\ UNCHANGED <<database, shown>>

\* Save inserts the row or replaces the one that has come meanwhile.
SeedSave(p) ==
  /\ At(p, "save")
  /\ row' = job[p].file
  /\ Reach(p, "new")
  /\ UNCHANGED <<table, columns, token, shown>>

\* admin.New: what it restores is AdminServer's Boot.
New(p) ==
  /\ At(p, "new")
  /\ Reach(p, "auth")
  /\ UNCHANGED <<database, shown>>

\* RequireAuthForBind: an address off loopback needs a password.
RequireAuth(p, loopback, password) ==
  /\ At(p, "auth")
  /\ IF loopback \/ password THEN Reach(p, "listen") ELSE Become(p, [at |-> "down"])
  /\ UNCHANGED <<database, shown>>

Listen(p) ==
  /\ At(p, "listen")
  /\ Reach(p, "serving")
  /\ UNCHANGED <<database, shown>>

\* The port is taken.
ListenFails(p) ==
  /\ At(p, "listen")
  /\ Become(p, [at |-> "down"])
  /\ UNCHANGED <<database, shown>>
-----------------------------------------------------------------------------
(* A running process *)

\* Save on behalf of a form: the admin listener comes up first.
SaveForm(p, s) ==
  /\ job[p].at \in {"listen", "serving"}
  /\ row' = s
  /\ UNCHANGED <<table, columns, token, job, shown>>

Enqueue(p, r) ==
  /\ At(p, "serving")
  /\ token[r] = "absent"
  /\ token' = [token EXCEPT ![r] = "own"]
  /\ UNCHANGED <<table, columns, row, job, shown>>

\* The rows WHERE status_token = asked.
Matching(asked) ==
  {r \in Requests : IF asked = "blank" THEN token[r] = "blank"
                    ELSE token[r] = "own" /\ r = asked}

\* MUTANT: a lookup without a token reaches the table.
CheckStatusBlank(p, asked) ==
  /\ At(p, "serving")
  /\ \E r \in Matching(asked) : shown' = [asked |-> asked, row |-> r]
  /\ UNCHANGED <<database, job>>

\* Status: unknown if blank, else the row that has the token.
CheckStatus(p, asked) ==
  /\ At(p, "serving")
  /\ asked # "blank"
  /\ \E r \in Matching(asked) : shown' = [asked |-> asked, row |-> r]
  /\ UNCHANGED <<database, job>>
-----------------------------------------------------------------------------
OpenStep(p) ==
  \/ CreateTable(p)
  \/ \E c \in Columns : ColumnThere(p, c) \/ ColumnMissing(p, c)
  \/ AddColumn(p) \/ OpenFails(p) \/ Opened(p)

MainStep(p) ==
  \/ SeedNothing(p) \/ SeedRead(p) \/ SeedFails(p) \/ SeedSave(p)
  \/ \E f \in Files : SeedLoad(p, f)
  \/ New(p) \/ Listen(p) \/ ListenFails(p)
  \/ \E loopback, password \in BOOLEAN : RequireAuth(p, loopback, password)

Run(p) ==
  \/ \E s \in Forms : SaveForm(p, s)
  \/ \E r \in Requests : Enqueue(p, r)
  \/ \E asked \in Tokens : CheckStatus(p, asked)

Next == \E p \in Processes : Boot(p) \/ Stop(p) \/ OpenStep(p) \/ MainStep(p) \/ Run(p)

Spec == Init /\ [][Next]_vars

\* main is scheduled, and SQLite answers or returns an error.
Fairness == \A p \in Processes : WF_vars(OpenStep(p) \/ MainStep(p))

FairSpec == Spec /\ Fairness
-----------------------------------------------------------------------------
(* Properties *)

(* A process that serves has every column that Load, Save, Enqueue and       *)
(* Status name, whatever version left the database, wherever earlier        *)
(* startups stopped, and whatever another process adds at the same time.    *)
ServingIsMigrated ==
  \A p \in Processes : job[p].at \in {"listen", "serving"} =>
    \A t \in Tables : t \in table /\ Later(t) \subseteq columns[t]

(* Once a configuration exists, -file is ignored by every later start, one   *)
(* that comes after an interrupted start included.                          *)
ConfiguredIsNotSeeded ==
  \A p \in Processes : job[p].at \in {"read", "save"} => ~job[p].configured

(* A status lookup shows a request only to who holds the token it was given *)
(* when it was queued; requests from before there were status tokens, which *)
(* all have the same blank, are shown to nobody.                            *)
StatusFindsItsOwn ==
  shown # None => shown.asked = shown.row

(* A start ends, with a serving process or with an error, even if another    *)
(* process adds the columns first.                                          *)
StartEnds ==
  \A p \in Processes : ~At(p, "down") ~> At(p, "serving") \/ At(p, "down")
=============================================================================
