# Answerable: a TLA+ verification of the facts, the intake queue and the admin server

Answerable is a single Go process that ingests a small provider's facts from a
file or a link, publishes them in machine-readable form, and queues intake
requests that the provider confirms or denies.  This directory holds TLA+
specifications of the parts of it that keep state and of the functions between
them, TLC runs that model-check them on small instances, and TLAPS proofs of
their safety properties.  All paths
below are relative to the repository root.

## 1. The system

Two HTTP servers share one process and one SQLite file (`cmd/answerable/main.go`):

* the **public endpoint** (`internal/endpoint`) serves the facts in several
  formats, takes intake requests at `/book` and over MCP, answers `/status`,
  and lets the provider POST `/confirm` and `/deny`;
* the **admin server** (`internal/admin`) has the onboarding pages, the
  dashboard, the settings forms and the queue page.

Every HTTP request runs on a goroutine of its own, and each configured link adds
one goroutine that refreshes it (`internal/ingest/refresher.go`).

| component | state it keeps | operations | interacts with |
|---|---|---|---|
| booking store `internal/booking/store.go` | rows of `requests`: status, two tokens, expiry | Enqueue, Confirm, Deny, Status, List | called by the endpoint and the queue page |
| intake endpoint `internal/endpoint/booking.go`, `mcp.go` | none of its own | bookIntake and the HTTP and MCP handlers around it | booking store; email or webhook; the endpoint's settings |
| notification `internal/webhook`, `internal/email` | none | Notify, Send | the provider's chat channel or SMTP server |
| endpoint settings `internal/endpoint/server.go` | provider, webhookURL, emailCfg under an RWMutex | UpdateProvider, UpdateWebhook, UpdateEmail, current* | set by the admin server through callbacks |
| admin server `internal/admin/server.go`, `onboarding.go`, `queue.go` | cfg, provider, lastErr, refresher, onboardingActive under a mutex | restore, source/webhook/email/skip/refresh handlers, refreshFromSource | config store, fetcher, refresher, endpoint callbacks |
| config store `internal/config/store.go` | the one row of `provider_config` | Open (with migrations), Save, Load | admin server, main |
| refresher and fetcher `internal/ingest` | a ticker, a stop channel | Start, Stop; Fetch | calls refreshFromSource |
| rate limiter `internal/endpoint/ratelimit.go` | a token bucket per client | allow, sweep | wraps the public handler |
| response pipeline `internal/endpoint/server.go`, `internal/siteproxy` | per request: two writers that may hold an answer back | the routes, discovery links, 404 hint, link injection | wraps every handler; a directory or an upstream is behind it |
| startup `cmd/answerable/main.go` | flags | seeding the config row, wiring | everything |
| URL handling `internal/ingest/url.go`, parsers `internal/parser`, facts `internal/facts` | none: functions of their inputs | ValidateURL, DetectFormat, NormalizeSourceURL, ten parsers, FromRecord | source form, fetcher and main call them; their result is the endpoint's provider |
| renderers, auth | none: functions of their inputs | Render, the basic-auth comparison | called by the above |
| WordPress plugin, deploy scripts, site, fixtures | none shared with the process | | |

### What is hard about it

1. **Check-then-act on a row.** `resolve` reads a request, checks its status and
   expiry, and updates it with three statements outside any transaction; the
   `UPDATE` names only the token (`store.go:185`).
2. **Values carried past an unlock.** Admin handlers and refreshes change memory
   under a mutex, release it, and then `Save` a copy of the configuration and
   call back into the endpoint (`onboarding.go:299-`, `server.go:155-`).  Whoever is last
   wins, which need not be whoever changed memory last.
3. **State read before a long fetch and used after it.** `refreshFromSource`
   reads the source, fetches it unlocked, and applies the result.
4. **A stop channel next to a ticker.** A refresher that is out refreshing when
   it is stopped finds both ready.
5. **Partial failure.** `Save`, the `INSERT`, `os.WriteFile`, a send or a read of
   the source can each fail between two other steps; a send may arrive although
   it reported an error.
6. **Restarts.** Rows survive, handlers and tokens in flight do not,
   `restore` gives up on everything when the source cannot be read, and a row
   that cannot be read is taken for a first run.
7. **Time.** Tokens expire; the webhook client has a timeout and SMTP has none.
8. **Writers around writers.** An answer passes up to three `ResponseWriter`s.
   Each may pass a call on, hold it back or rewrite it, while `Unwrap` lets a flush
   reach past them, a timer flushes from another goroutine, an upstream may send
   a 103 first, which empties the header map they share, and may break off anywhere.
9. **Many spellings of one table.** Ten formats must give the same record,
   over key normalisation, markup, cells without references and JSON objects
   that Go walks in random order; and a document may be served as another format
   than it was written in, which few of the readers notice.

### What makes each component correct

* booking store: one decision per request, taken with the right token before it
  expires, never taken back; truthful replies; every call answered.
* intake: an accepted request is stored, a refused one leaves nothing, the
  message to the requester is true, the provider's links work.
* admin server: memory, row and endpoint agree when nothing is under way; what was
  saved is not lost by forms that do not mention it; a failing refresh leaves the last facts up; one refresher, only when wanted; an
  edited source is served in the end.
* rate limiter: nobody exceeds burst + rate, whether or not buckets are swept, or is refused for others.
* pipeline: the status and body are those of the inner handler plus the links or
  the hint, the declared length is the real one, a stream is not held back, and
  every answer of the inner handlers has the Link header, except after a 103.
* documents: a table is understood in every format, or refused; a parser may lose
  a field but never puts a value under another field's key; a document that is taken
  for another format is refused rather than published, as far as that goes; a pasted
  link goes on naming the same sheet.
* endpoint settings: an edit is seen by every request that comes after it.
* startup: flags seed a first run only; migrations can be interrupted.

`PROJECT.json` lists every hazard at its line with the properties that watch it.  A hazard
without a property has a note that says why: mostly that no text of the repository says which outcome is right.

## 2. Modules

| module | models | extends / instantiates |
|---|---|---|
| `BookingLifecycle` | what the queue promises: absent, pending, decided at most once while open, truthful status answers | |
| `BookingStore` | `internal/booking/store.go` with concurrent handlers, the clock, SQLite errors, restarts | INSTANCE `BookingLifecycle` |
| `BookingStoreProofs` | TLAPS: types and the safety properties that hold under overlap; without overlap, replies stay true, a token works once and the store implements the lifecycle | EXTENDS `BookingStore` |
| `BookingIntake` | `bookIntake`, its HTTP and MCP handlers, the notification channels and the settings they read | EXTENDS `BookingStore` |
| `AdminServer` | `internal/admin`, the config row, the refresher, the endpoint's copies, restore | |
| `BookingIntakeProofs` | TLAPS: the server implements the store, and its answers and notifications are true | EXTENDS `BookingIntake`, `BookingStoreProofs` |
| `AdminServerProofs` | TLAPS: types, the refresher, the served facts, under any overlap; when nothing overlaps, the four places agree, a blank form keeps the password unless the row was not read, and the facts are the current source's | EXTENDS `AdminServer` |
| `RateLimit` | `internal/endpoint/ratelimit.go`: buckets, sweep, clock readings that wait for the lock | |
| `RateLimitProofs` | TLAPS: types, no client above its rate, none refused within it | EXTENDS `RateLimit` |
| `Startup` | `main.go` from its start to listening, both `Open`s with their migrations, what a running process needs of the columns | |
| `StartupProofs` | TLAPS: types, migration, seeding, lookups of migrated rows | EXTENDS `Startup` |
| `SourceFormats` | `internal/ingest/url.go`, `internal/parser`, `internal/facts`: operators, no state | |
| `ResponsePipeline` | `internal/endpoint/server.go` and `internal/siteproxy`: one answer on its way through the writers, while facts change and a timer runs | |
| `Discovery` | a document on its way in and answers on their way out, which meet in `Server.provider` | EXTENDS `SourceFormats`, `ResponsePipeline` |
| `SourceFormatsProofs` | TLAPS: what the operators on text return, and the folds over lines, columns, pieces and paths | EXTENDS `SourceFormats` |
| `TableProofs` | TLAPS: a table is understood in every format, and no value of any table gets under another key; what every parser returns | EXTENDS `Discovery`, `SourceFormatsProofs` |
| `DiscoveryProofs` | TLAPS: `InjectLinks`, every invariant of the pipeline, with and without documents coming in, share links, the types of `Discovery` | EXTENDS `TableProofs` |
| `MCBookingStore`, `MCBookingIntake`, `MCAdminServer`, `MCRateLimit`, `MCStartup`, `MCDiscovery` | the instances TLC checks | EXTEND the above |

### BookingStore

`status`, `expires` are the row's columns, `now` is `nowFunc`.  A request is
identified with the `Enqueue` call that creates it and its tokens with the pair
(column, row), so tokens are distinct and not guessable: the 128-bit random
values are not modelled further.

`Enqueue` is `Stamp` (ids, tokens and `ExpiresAt` computed before the statement)
then `Insert` or `InsertFails`.  `resolve` is `Call`, the `SELECT`
(`ReadRow`, `ReadNothing`, `ReadFails`), the checks (`CheckUsed`, `CheckExpired`,
`CheckPasses`, which read the clock once, after the SELECT) and the `UPDATE`
(`Update`, `UpdateFails`); other handlers run between any two.  `Status` is
`CheckStatus`.  `Restart` drops every call in flight and keeps every row.
`job[h].before` and `job[h].lapsed` are history: whether the request was decided
or expired when the POST arrived.  `told` is history too: the last answer of
`Status`.

`Overlap` says whether two resolutions of one token may be in flight together.
The HTTP server allows it; some promises only hold without it, and the runs and
theorems say which.

### BookingIntake

`stage[r]` is the line of `bookIntake` that request `r` has reached.  The switch
reads the settings once to choose a channel (`UseEmail`, `NoEmail`, `UseWebhook`,
`NoChannel`) and again to send (`SendEmail`, `PostWebhook`), as the code does, and
the admin may save other settings in between (`UpdateEmail`, `UpdateWebhook`; no
form turns a channel off).  Delivery is external: a message may arrive or not,
and may be reported as failed in either case.  `emailCfg` and `webhookURL` start
with any values, because a restart may have restored them.  Texts are reduced to
blank, fitting or too long.

### AdminServer

`cfg`, `provider`, `lastErr`, `refresher`, `onboardingActive` are the mutex's
fields; `disk` is the row; `epProvider`, `epWebhook`, `epEmail` are the endpoint's copies.
Facts are named by the source and the edition of it they were parsed from.
`job[a]` is what a handler or a refresh carries in local variables: `load` (fetch
or read), `write`/`writing` (`os.WriteFile` truncates, then fills), `password`
(`handleEmail` fills in the stored one for a blank), `apply` (the locked section), `save`, `publish` (the callback).  `loop[g]` is a refresh
goroutine: `parked` in its select, `on` (back from a tick), `stopping` (stopped
while out of the select, where a tick and the closed channel may both be ready),
`leaving` (stopped while parked: only the stop channel can be ready), `free`.
`Boot(row)` is a stop and `New` with what `Load` gave it: nothing on a first run
(`BootFirst`) and also when `Load` fails (`BootUnread`), since `server.go:67` takes its error for a
first run while the row stays where it is; otherwise the row, from which `restore` brings everything
back (`BootRestores`) or nothing (`BootFails`).  `RowFails` says whether `Load` may fail.
`blind` and `unread` are history: the last restore gave up; the last start could not read the
row, and nothing was saved since.  Uploads are written to one path per file extension; the model has one
path, the case where an upload overwrites the one before.

`StartRefresher` needs a free goroutine name, so a state where more than
`Refreshers` goroutines are alive is outside the instance: `Refreshers` is a
bound on goroutines that have been stopped and not yet returned.

### RateLimit

`Arrive` is the clock reading before the lock; `Allow`, `AllowUnlimited` and `Refuse` are the locked
section by its outcome: `Kept` is the sweep, `Bucket` the lookup or a new full bucket, `Refilled` what
`rate.Limiter` adds lazily (golang.org/x/time v0.15.0: a time before `last` adds nothing but still
becomes `last`).  Tokens are fractions in the code; here a request costs `Cost` units, so that
`Rates = 1`, `Cost = 2` is half a request per tick.  `latest`, `late`, `refused` and `allowed` are history.

The properties make two things precise that the code leaves to its user.  `RateHolds` needs the TTL to
be long enough to fill a bucket: true of the defaults (600 s at 15/s fill 120), false of a low
`-rate-limit-rps` with a large `-rate-limit-burst`, where the sweep hands out a new burst early.  And it
allows for `late`: a request that was overtaken between the clock and the lock turns its bucket's time back.

### Startup

`table`, `columns`, `row` and `token` are the database file; `Init` is any version of it that an earlier release
left.  `job[p].at` is where `main` is: `create`, `columns` and `alter` are `CREATE TABLE`, `PRAGMA table_info`
and `ALTER TABLE` of the two `Open`s, `seed`, `read` and `save` are `seedIfUnconfigured`, `new` is `admin.New`
(what that restores is `AdminServer`'s `Boot`), `auth` the bind check, `listen` and `serving` the two listeners.
`Stop` may come anywhere.  Two processes may be started on one file, since nothing prevents it.
`job[p].configured` is history: whether there was a row when `p` was started.  `token[r]` is `unknown` while the
column is missing and `blank` once a migration has filled it with `''`.

### SourceFormats

Text is a sequence of words and marks; the marks are what the parsers look at
(space, `_`, `*`, `:`, `#`, `-`, `.`, newline, the entity `&#58;`, and `64K` for a line
that is too long for `bufio.Scanner`).  `LowerCase` maps the words that have a capital to
words that have none.  The
readers below the parsers (`encoding/csv`, `encoding/json`, `encoding/xml`, `archive/zip`,
`zlib`) are external: a document is given by the cells, members, elements or strings they
deliver.  `ParseText`, `ParseMarkup`, `ParseDOCX`, `ParsePPTX`, `ParsePDF`, `ParseCSV`,
`ParseXLSX` and `ParseJSON` follow the code from there.  `ParseJSON` gives a set of records, because
`flattenJSON` ranges over a map and the order decides which of two colliding keys is
kept.  `Parse` is the dispatch of `Fetch` and `ParseByExtension`.  A link is a record of the parts
`url.go` looks at.

A server may also send a document as a format it is not in, and most readers do not notice
(`Misread`).  CSV and text are then read character by character: `CSVText` is the file that a program
writes for rows of cells, quotes included, and `ReadCSV` what `encoding/csv` makes of characters.  So a CSV served
as `text/plain` gives the line `Ada,9:30` the key `ada,9`, and a text served as CSV has
`name: Ada` for a column.  JSON, archives and unknown formats give an error.  The
bytes of a page, a PDF, JSON or an archive are not modelled: read by one of the line or PDF readers, they give an
error, nothing, or any record of the constant `Misreadings`.

### ResponsePipeline

The writers are operators on one record `w`: `w.page` is `bufferingResponseWriter` (only
around a directory), `w.hint` is `notFoundHintWriter`, `w.wire` is what net/http has sent, `w.header`
the shared header map.  `PageHeader` calls `HintHeader`, which calls `SendHeader`, as the
methods call each other; `PageFlush` and `HintFlush` are what happens when the handler returns.
A body is a sequence of pieces: a `<head>` tag, a `</body>` tag, anything else.

`at` is where the request's goroutine is: the limiter (`Refuse`, `Allow`), its route
(`ServeFacts`, `ServeOwn`, `RedirectIndex`, `ReadName`/`ReadDescription` for the JSON index, which reads
the facts twice, `ServeMCP`, `ServeNotFound`, `ServeDir`, `ServeUpstream`, `UpstreamFails`), then the calls it
makes on the writers (`WriteEarly` for a 103, `WriteStatus`, `WritePiece`, `Return`, `Abort`).
After a 103 `httputil.ReverseProxy` clears the header map, in which `withDiscoveryLinks` has put the Link header, and
waits for the answer itself (`at = "early"`), which may still turn into a 502; `answer.early` records it.
`TimerFires` is the flush timer that `httputil.ReverseProxy` starts for an answer of unknown
length, on a goroutine of its own, and `UpdateProvider` the admin server's callback; both may come between any two.  What
`http.FileServer`, the upstream, the MCP SDK and net/http do is external, taken
from how the code uses them.  `published` and `since` are history: the facts handed
over last, and those a request may see.

`PagesCarryLinks` says where things are: `Arrives` maps the positions of the site's body one to one and in
order onto the positions of what was sent that are not an addition, `LinksPlaced` and `FooterPlaced` put
the additions next to the first `<head>` and the first `</body>`.

### Discovery

`Written(layout, table)` is how a provider's program writes a table: 19 layouts over the ten
formats, such as a CSV file with a further row, a workbook with shared strings whose cells come in
the opposite order, Word runs that cut a line, JSON with nested objects.  `SubmitFile`, `SubmitLink`, `Fetch`,
`FetchFails`, `RefuseRecord` and `Publish` take it to `UpdateProvider`, the action of
`ResponsePipeline` where the two meet.  Documents are followed while no request is in flight, which loses
nothing: parsing reads no state, and a request in flight meets `UpdateProvider` with any of `Served` at every step.

Two assumptions tie the constants together, and TLC evaluates both.  `DiscoveryAssumption` has the links
among `URLs`: the path of a sheet, which `googleSheetsPath` must match, has no dot and so no extension.  Its other
parts say that keys and values are texts and that no value is JSON's null.
`ReadingAssumption` has in `Facts` every provider that a reading of one of the documents gives, misread ones included: `Facts` stands for all the
values of `facts.Provider`, and the bound must not be narrower than what the parsers return.

## 3. Runs

All passing runs check deadlock as well: none of these systems may stop.

| run | bounds | what it shows |
|---|---|---|
| `store_overlap` | 1 request, 2 handlers, clock to 3, TTL 1, overlap | A used, expired or wrong token never succeeds; a decision a requester was told of is never reopened; every call is answered. |
| `store_serial` | 2 requests, 2 handlers, clock to 2, no overlap of one token | The store implements `BookingLifecycle`, and a successful reply is what the row says from then on. |
| `intake` | 1 intake, 1 decision handler, 1 mailbox, 2 webhooks, clock to 2 | Accepted means stored, refused leaves nothing, "sent" means delivered, the links resolve, settings never blank at the send, an answer unless SMTP hangs. |
| `admin_serial` | 1 link and the file, 1 webhook, 2 email settings with or without a password, 1 edit, 2 restarts, one job at a time, unreadable sources, an unreadable row | `Settled`: row, memory and endpoint agree whenever nothing is under way. `PasswordStays`: a form that leaves the password blank never loses the saved one, but for the first Save of a process that could not read the row. |
| `admin_overlap` | 1 link and the file, 1 handler, 2 refreshers, 1 restart, everything overlapping, failing Saves | No goroutine ticks unless it is the current refresher, a refresher runs only when wanted, and the facts once up stay up. |
| `admin_fair` | 1 link and the file, 1 handler, 1 refresher, 1 edit | A stopped refresher returns; the last edition of a refreshed link is served in the end. |
| `rate_limit` | 2 clients, 2 concurrent requests, no limit or half a request per tick, burst 1, TTL 2, clock to 4 | No client gets more than burst and rate allow, whatever is swept; none is refused for what others do. |
| `startup` | 2 processes, 2 email columns, 1 file, 1 form, 2 requests, any number of starts and stops | Who serves has every column; a configuration is not seeded over; migrated requests are shown to nobody; a start ends. |
| `discovery` | tables of 1 or 2 fields over 4 keys and up to 8 values, 4 of them behind links, 19 layouts, 73 links, 5 media types, three kinds of site, bodies of up to 3 pieces, 1 request at a time | Every layout of a table that suits its format gives the same facts and none mixes two fields; CSV and text taken for each other are refused unless they hold commas, quotes or colons in the wrong places; share links keep their sheet; status, body, length, links, hint and flushes of every answer are right; an edit is seen by the next request. |
| `store_single_use` | as `store_overlap`, clock to 2 | **violated**: `SingleUse` |
| `admin_stale` | 1 link and the file, 1 handler, 2 refreshers | **violated**: `ServesCurrentSource` |
| `admin_blind_error` | 1 link and the file, 1 restart | **violated**: `ErrorKeepsLive` |

**Why the bounds are enough to be interesting.**  Store rows interact only through
tokens, so one request shows every interleaving of two resolutions and two
requests show that a token touches no other row.  With TTL 1, the clock at 2 is
past the expiry of a request queued at 0, and at 3 there is time on both sides
of it.  An intake meets others only in the store, so one is enough, and the
second webhook is what lets a setting change under it.  In `AdminServer` the
file and one link give every change of kind of source; two goroutines give one
stopped and one started; with one edit an old fetch and a new one can be applied
in either order; two restarts let one restore follow another that gave up, or a start that
could not read the row.
In `RateLimit` a TTL of 2 is just what fills a bucket, and by tick 4 the sweep has
run and dropped one; two concurrent requests are one that overtakes another.  In `Startup` two email
columns come in either order, and one process can be between `PRAGMA` and `ALTER` while the other adds the column.
In `Discovery` two fields are what it takes to mix two up, to collide in a key and to leave a gap; the
keys are one name in two spellings and another key in two, the values have a colon, a comma, a mark, a space in front, nothing, or a
line too long.  A single field may also have a key that is blank, starts like a list item or a heading, or has a colon in it:
the keys that `OneLine` tells from the rest.  Bodies of three pieces have every order of `<head>`, `</body>` and text, with two of a kind.
Requests share nothing but the facts, so one at a time against any update is enough.  `Served` bounds the facts a request is followed for to two, since the writers do not look into them; `Online` the
tables behind links to four: two whose fields stay apart when they are misread, one whose title holds a colon and is
published when the CSV is read as text, and one with a comma that becomes a column.
`MaxEdits` and `MaxBoots` bound counters the code does not have.

### Fairness

* `WF(ResolveStep(h))`, `WF(OwnStep(r))`: a goroutine in a handler is scheduled,
  and SQLite answers or returns an error (no busy timeout is set: a locked database is an error at once).  The webhook
  POST is among these because its client has a 10 s timeout
  (`internal/webhook/notify.go:11`).  `SendEmail` is not: `smtp.SendMail` has no
  deadline, and `IntakeAnswered` says so.
* `WF(Step(a))` in `AdminServer`: fetches (15 s timeout, `internal/ingest/fetch.go:14`), writes and Saves end.
* `WF(Tick(g))`: a ticker keeps ticking while its loop is at the select.
* `SF(Exit(g))`: Go's `select` picks among ready cases at random
  (`internal/ingest/refresher.go:38`), so a loop that keeps coming back to a
  select with a tick and a closed channel does not take the tick for ever.
  Weak fairness would not do: `Exit` is disabled during each extra refresh.

* `WF(OpenStep(p) \/ MainStep(p))` in `Startup`: `main` is scheduled, and each statement succeeds or fails.

No fairness is assumed of people, of restarts or of the clock.

### Findings

* `store_single_use`.  Two overlapping POSTs with one token can both succeed
  (both read "pending", and the `UPDATE` at `store.go:185` does not name the
  status), the second overwriting the first's decision.  A provider who confirms
  in one tab and denies in another is told twice that it worked.  `UsedTokens` below is
  what remains true: a POST that arrives after the decision never succeeds.  `WorksOnceAlone` shows that
  nothing but the overlap is at fault: without it a token works once.
* `admin_stale`.  A refresh that began before the source was replaced puts the
  old source's facts back, in memory and at the endpoint.  With an interval the
  next tick repairs it (`RefreshCatchesUp`); with a file or without an interval
  it lasts until someone acts.  One request at a time it cannot happen (`ServesItsSource`), even when Saves and
  sources fail.
* `admin_blind_error`.  After a restart with an unreadable source the dashboard
  promises that the last known-good facts are live while none are served.
  The same early return leaves the refresher, the webhook and the email settings
  unrestored.  Until a restore gives up the promise is kept, one request at a time and with Saves that succeed
  (`ErrorIsNotBlind`).

Two more are written into passing properties as their exact exceptions; without the exception TLC finds each in
a few steps.

* **A row that cannot be read** (`PasswordStays`, `Settled`: `unread`).  When `Load` fails at a start, because the
  database is locked or damaged, `New` drops the error (`server.go:67`, `err == nil && ok`) and comes up as on a first run, with
  the configuration still in the row.  The next accepted form writes the blank one over it: a blank email form loses the password that
  its page offers to keep (`email.html:22`), and a webhook form the source and the email settings as well, although
  "the persisted config and the admin webui take over" once there is one (`main.go:118`).  One request at a
  time this is the only way to lose a password.
* **A 103 from the upstream** (`HeadKept`: `answer.early`).  The Link header is set before the inner handler runs
  (`server.go:120`), and `httputil.ReverseProxy` clears the header map after it has passed on an upstream's early hints: the page
  that follows has no Link header, nor has the 502 of an upstream that breaks off then, although the comment says
  "every response".  Every other answer past the limiter has it.

Smaller disagreements, read from the code and not kept as runs: the intake prefers
email when both channels are set while the dashboard names the webhook
(`booking.go:57`, `dashboard.html:40`); a goroutine stopped during a refresh may
refresh once more (`refresher.go:38`); two forms that overlap can `Save` in the
other order than they were applied, leaving the older copy in the row
(`onboarding.go:306`), and an email form left blank that overlaps another can lose the password just typed in
that one (`onboarding.go:289`: `Settled` and `PasswordStays` need one request at a time); `-webhook` without `-file` seeds nothing, though its help says "webhook URL to
pre-seed on first run" (`main.go:26`, `main.go:120`); a failing `Save` of a webhook leaves it shown as connected
though the endpoint was not told (`onboarding.go:222`).

On the public side: a 404 that is not HTML and comes from an upstream without its length is flushed
past the writer that holds it back, and arrives as a 200 with the hint (`server.go:130` says "rewrites any
404 response body"); `HeadKept` excepts exactly this case.  A 429 has no Link header, because the
limiter is outside `withDiscoveryLinks` (`server.go:114`, "every response").
`If-Match` is left in a request for a page and can give a 412 (`fileserver.go:11`, "fresh, full 200").  The
answer to HEAD for a page declares length 0.  `Range` is passed on to an upstream, and a part of a page is
rewritten like a whole one.  `headOpenTag` matches `<header>` too.  CSV headers, unlike those of
every other format, are not normalised, and a byte-order mark stays in the first; an inline
workbook text in several runs keeps its last run; a table whose keys and values are on lines of their own (HTML cells,
PDF strings) is not understood.

## 4. Proofs

TLAPS proves the following for every value of the constants (sets of requests,
handlers, links and settings, TTL, horizon, bounds), from the named assumptions
`StoreAssumption`, `IntakeAssumption`, `AdminAssumption`, `StartupAssumption`, `RateAssumption`,
`PipelineAssumption`, `FormatAssumption`, `DiscoveryAssumption` and `ReadingAssumption` of the modules that declare them, and from what the second column says.

| theorem | statement |
|---|---|
| `TypeCorrect` | `Spec => []TypeOK` |
| `UsedTokens` | `Spec => []UsedTokenStaysUsed` |
| `ExpiredTokens` | `Spec => []ExpiredTokenStaysExpired` |
| `StatusTokens` | `Spec => []StatusTokenNeverResolves` |
| `ToldDecisions` | `Spec => ToldNeverReopens` |
| `RepliesMatchRows` | `~Overlap` gives `Spec => []ReplyMatchesRow` |
| `Refinement` | `~Overlap` gives `Spec => ImplementsLifecycle` |
| `WorksOnceAlone` | `~Overlap` gives `Spec => []SingleUse` |
| `StoreInside` | `IntakeSpec => Spec` of the store: all of the above holds below the intake |
| `IntakeTypeCorrect` | `IntakeSpec => []IntakeTypeOK` |
| `AnswersAreTrue` | `IntakeSpec => []AnswerMatchesQueue` |
| `SentIsDelivered`, `SendsHaveTargets` | `IntakeSpec => []SentWasDelivered`, `[]SendHasTarget` |
| `NotificationsAreSound` | `IntakeSpec => []LinksResolve` |
| `TypeCorrect` (of `AdminServerProofs`) | `Spec => []TypeOK` |
| `OneTicks` | `Spec => []OneRefresherTicks` |
| `KeepsLastKnownGood` | `Spec => LastKnownGoodStays` |
| `TypeCorrect` (of `StartupProofs`) | `Spec => []TypeOK` |
| `ServesMigrated` | `Spec => []ServingIsMigrated` |
| `SeedsOnlyUnconfigured`, `LookupsAreOwn` | `Spec => []ConfiguredIsNotSeeded`, `[]StatusFindsItsOwn` |
| `Settles` | `~Overlap /\ ~SaveFails` gives `Spec => []Settled` |
| `PasswordIsKept` | `~Overlap` gives `Spec => PasswordStays`, whether or not rows can be read |
| `ServesItsSource` | `~Overlap` gives `Spec => []ServesCurrentSource` |
| `ErrorIsNotBlind` | `~Overlap /\ ~SaveFails` gives `Spec => [](~blind => ErrorKeepsLive)` |
| `TypeCorrect` (of `RateLimitProofs`) | `Spec => []TypeOK` |
| `RateIsHeld`, `RefusalsAreFair` | `Spec => []RateHolds`, `[]NoUnfairRefusal` |
| `InjectLinksIsSound` | `Arrives`, `LinksPlaced` and `FooterPlaced` of any page and `InjectLinks` of it |
| `TypeCorrect` (of `DiscoveryProofs`) | `Spec => []TypeOK`, `Spec` being that of `ResponsePipeline` |
| `KeepsHead` (with the Link header, lost exactly after a 103), `HintStaysAlone`, `KeepsLength` | `Spec => []HeadKept`, `[]HintIsAlone`, `[]LengthKept` |
| `PagesAreSound`, `StreamsFlow` | `Spec => []PagesCarryLinks`, `[]StreamFlows` |
| `FactsStayCurrent` | `Spec => []FactsAreCurrent` |
| `PipelineInside`, `ServedSoundly` | `DiscoverySpec => Spec`, and hence all of the above under `DiscoverySpec` |
| `ShareLinksAreKept` | `DiscoverySpec => []ShareLinkKept` |
| `SourceTypes` | `DiscoverySpec => []DiscoveryTypeOK` |
| `TablesAreUnderstood` | `DiscoverySpec => []TableUnderstood` |
| `NothingIsMixedUp` | `DiscoverySpec => []NothingMixedUp`, of documents read as what they were written as, or texts as pages |

**The argument under overlap.**  None of the properties is inductive: they speak of
finished calls, and what makes them true is what the call saw on the way.
`SafeInv` therefore says of a call past its `SELECT` that the row it saw was the
row as it was when the call arrived or later; in particular, a request decided
before the call is seen decided, and a limit that had passed is still past.  The
step lemmas treat `Answer` once (`AnswerWithoutSuccess`) and other handlers' steps once
(`JobUndisturbed`); `SafeStep` has a case per action.  `ToldDecisions` needs that
a decided row never becomes pending again, which holds because `Insert` starts from
an absent row and `Update` writes decisions only.

**Without overlap.**  `AloneInv` says that no two active calls hold one token, and
`FreshInv` that a call which has read "pending" still finds it pending.  Together they turn
`Update` into the lifecycle's `Resolve`.  The refinement mapping sets `open` to the
pending requests whose limit has not passed or which a handler has already
checked: a request checked just before its expiry may still be decided after it.
Ticks and failing calls map to `Lapse`, reads and checks to stuttering.

With overlap both are false, and `store_single_use` shows the behaviour.

**The intake.**  `StoreStep` maps every step of the server to a step or a stutter
of the store, so the store's invariants need no second proof.  `Consistent(r)` then
relates where `bookIntake` is, the row, the messages delivered and the answer: for
example, no message exists before the row does.  It is needed because each property
speaks of the end of a path (an answer, a delivered message) whose truth was
settled several steps earlier.

**The admin server under overlap.**  `CarryInv` says that what a handler carries past the
unlock fits its operation: settings are the form's, facts were parsed.  It makes the types
inductive and is why publishing never blanks the endpoint.  For the refresher,
`StartRefresherTicks` shows that replacing it stops exactly the goroutine that
was current.

**The admin server without overlap.**  `Settled` says nothing while a job is under way, so
`SettledInv` says it of every state, up to what the one job in progress has changed in memory
and still has to save or publish (`Agree`), and that a refresh's source is still the current
one (`AboutSource`).  Neither hypothesis can be dropped: with overlap `admin_stale` shows old
facts put back, and a failing `Save` leaves memory ahead of the row.  `PasswordIsKept` needs no such
thing of Saves: memory may be ahead of the row, and `PasswordInv` says that it is never behind in
what matters, unless the row was not read, that a copy on its way to the row is memory itself, and that a form past
`FillPassword` carries a password if memory has one.  `RowAgrees`, a part of `SettledInv`, makes the same
exception: memory and row part when a start cannot read the row, and the next Save joins them again.

**Startup.**  `ServingIsMigrated` only speaks of the end, so `Progress(p)` says how far each process has come:
the columns it no longer looks for are there.  `ColumnsStay` (no step takes a column away) is what lets
another process, or an earlier interrupted start, do part of the work.  `SeedInv` adds that a row that was
there at the start is still there when `Load` looks for it.

**The rate limiter.**  Neither property is inductive: `RateHolds` speaks of what was allowed, and says
nothing of what the bucket would allow next.  `Worth(c)` is that: what `c` could be allowed at once at the latest
reading, where a bucket that is not there counts as full, because that is what the client gets.  `PaidIn` says that
for every `s` what was allowed from `s` on and `Worth` together are within one bucket and what the rate has added
since `s`, the lateness counted.  A sweep keeps this because a bucket it may drop is worth `Full` by then
(`DroppedFull`, the one place where the TTL has to be long enough); another client's step because `Worth` earns no
more than the rate (`WorthOther`); a refused request because turning `lastSeen` back costs at most its lateness
(`WorthRefused`); an allowed one because what it takes was worth it, and turning `last` back costs its
lateness once more (`WorthAllowed`).  `RateInv` has `HoldsIn`, the property itself, beside it.  The other way round,
`NoneLost` says that a bucket has at least the tokens it would have if it had last been full at some reading and had
paid for every request since.  A refusal then gives the `s` that `NoUnfairRefusal` asks for.  Products stay
closed throughout (`Price`, `Earned`): only that they add up and grow is used.

**The pipeline.**  The properties speak of answers that are done, and `w` is where the history is: `PipelineInv` says
for each place `at` what of the body has been passed on and where it is (`Sofar`).  `Writing` has the three cases: the page
writer holds it (`WithPage`), the hint's writer does (`WithHint`), or it has gone out (`WithWire`); `Answered` says
what has arrived in the end.  `Timed` is what makes the timer harmless: it runs only for what comes from an upstream, is
no page and has no length, so a flush past the writers can only harm a 404, the case `HeadKept`
excepts.  The lemmas about the writers say what each does to a body passed down to it, so the step lemmas
need not open them again.  `InjectLinksIsSound` rests on what one `InsertAt` does to positions,
twice over.  `FactsInv` is the invariant behind `FactsAreCurrent`: what a request has read, and the facts it would read
now, are among those handed over since it came.  `SourceInv` says that a document in `Discovery` that has a name is one
of `Facts`; with it `Publish` is one more `UpdateProvider`, and `PipelineInside` follows.

**The documents.**  `TableUnderstood` is a claim about folds: over the words of a text, its lines, the columns of a row,
the pieces of a page, the names of a path.  The library's folds are `CHOOSE`s of a recursive function over sets of
indices.  `IterExists` and `FoldIsLastStage` show that such a function exists and that its value is the last of the fold's
*stages*, the values along `1 .. k`; from then on a fold is a sequence of stages, and a claim about it an induction on
`k`.  Induction is over the set of numbers, or of texts, for which the claim holds (`Inductive`, `SeqInductive`), and each
folded operation has a lemma of its own that it has stages (`RowRecordStages`, `ReadLinesStages`, `LinesStages`,
`ShownStages`, `FlatKeyStages`, `PlaceStages`): that is how the provers get by without theorems that have operators as parameters.

`StripPlain`, `StripBold` and `TextFieldIs` say what one line gives, `LineReads` and `PartsRead` that a text made of
lines is read line by line.  The formats that are scanned meet in `Lays`: a text that is read as the lines of the
fields, one to each.  What is left to each format is that its tags, runs, slides or strings come to such a text
(`TextLaid`, `HTMLLaid`, `DOCXLaid`, `PPTXLaid`, `PDFLaid`).  Lines that say their fields (`Speaks`) give the record of
the fields.  CSV and workbooks meet in the record of a row (`RowMeans`, `SpreadMeans`, where a gap is a blank title), and
`LatestCounts` is what `encoding/json` and the tables agree on when a key comes twice.

`NothingIsMixedUp` is about the tables that do not suit their format.  Keys and values are compared without emphasis
and the blanks around them (`Bare`), since that is what a scanned format loses; the hard part is a line with `*`, `_`
and blanks anywhere in it.  `StripKeeps` shows that `stripMarkdownNoise` leaves a line's `Bare` text alone, unless the key
starts like a list item or a heading; `FieldTold` that the first colon of what is left is still the one after the key,
so that the line is lost or read as its own field (`Tells`, `Tied`).  The proof found the limits of the claim: as first stated it
covered every key, and a key with a colon, a newline or a `#` in front (`OneLine`) refutes it, which TLC's keys had not
shown; they include such keys now.  For CSV, JSON and workbooks it needs no condition: `RowHolds`, `SpreadApart`
and `JSONApart` are about any table.  `LowerCase` must not give a word that it changes again: a published key
is looked up as it is, and `KeyedBare` compares it with its own normal form.

`SourceTypes` goes the same way for any table and for any document that is misread: `CSVRows` says that `ReadCSV` gives
rows of texts whatever the characters, `MisreadReadable` that every reader then gives an error or a record.

TLC checked `PipelineInv` and `FactsInv` on the instance of `discovery`, and the ledger, `PaidIn` and `NoneLost` on
that of `rate_limit` and on a larger one (burst 2, TTL 4, clock to 6), before they were proved.

**Only model-checked:** `MisreadRefused`, not proved yet, and all liveness (`ResolutionAnswered`, `IntakeAnswered`,
`StoppedRefresherExits`, `RefreshCatchesUp`, `StartEnds`), since liveness under fairness and ENABLED are out
of the prover's reach.

## 5. Not modelled

Pure formatting (agent card, llms.txt, JSON-LD, templates), the reading of XML, CSV,
JSON, zip and zlib done by libraries, `List` and `check_availability` (reads), the queue page's
rendering, the WordPress plugin, and the deployment files keep no state of this
process.  In the parsers: entities other than the colon's, byte-order marks, number
formatting, PDF string escapes, and documents cut at 16 MiB.  In the pipeline: protocol upgrades
(101), `Accept-Encoding`, and what the routes render.  Also the form of the refresh interval,
the source's label and the basic-auth comparison.
The reasons are per component in `PROJECT.json`.

## 6. Plan

Done: the booking store with its abstract lifecycle, proofs and refinement; the
intake on top of it and its proofs; the admin server with the refresher and restore,
and its safety proofs; the rate limiter and its proofs; startup with its migrations, and its proofs;
the formats and the response pipeline, composed, and the proofs about the pipeline and the links.
Every safety property of every passing run but `MisreadRefused` is now a theorem.  Next: that one; an abstract specification of
the rate limiter, the bucket of real time that `late` measures the distance to.
