------------------------------ MODULE AdminServer ------------------------------
(***************************************************************************)
(* internal/admin: the provider's configuration and the facts parsed from  *)
(* its source, which live in four places: the admin server's memory (under *)
(* a mutex), the one row of the config store, the public endpoint, and the *)
(* handlers and refresh goroutines that carry values between them after    *)
(* the mutex is released.                                                  *)
(*                                                                         *)
(* A source is a URL, whose page is edited by others, or the one file that *)
(* uploads overwrite.  Facts are named by the source and the edition they  *)
(* were parsed from.                                                       *)
(***************************************************************************)
EXTENDS Naturals

CONSTANTS
  Urls, File,     \* URL sources, and the path every upload is written to
  Hooks, Mails,   \* webhook URLs and email settings an admin may enter
  Passwords,      \* passwords to go with email settings
  None,           \* nothing configured
  Handlers,       \* concurrent admin requests
  Refreshers,     \* bound: refresh goroutines alive at one time
  MaxEdits,       \* bound: editions of a page or of the uploaded file
  MaxBoots,       \* bound: restarts
  Overlap,        \* may admin requests and refreshes run together?
  SaveFails,      \* may a Save return an error?
  RowFails,       \* may the row be unreadable when a process starts?
  LoadFails       \* may a source be unreachable or unparseable?

Sources == Urls \cup {File}
Actors == Handlers \cup Refreshers

VARIABLES
  cfg, provider, lastErr, refresher, onboardingActive,  \* admin.Server
  disk,                              \* the row of provider_config, or None
  epProvider, epWebhook, epEmail,    \* endpoint.Server
  edition,                           \* edition[s]: what reading s would give
  loop,                              \* loop[g]: a refresh goroutine's state
  job,                               \* job[a]: what an actor is in the middle of
  boots,                             \* restarts so far
  blind,                             \* history: the last restore gave up
  unread                             \* history: the last start could not read the
                                     \* row, and nothing was saved since

memory == <<cfg, provider, lastErr, refresher, onboardingActive>>
endpoint == <<epProvider, epWebhook, epEmail>>
vars == <<memory, disk, endpoint, edition, loop, job, boots, blind, unread>>

Torn == MaxEdits + 1        \* a file that is cut short, or not there yet
Editions == 0 .. Torn
Facts == [source : Sources, edition : Editions]

\* config.Email: password is None for a form left blank, or where there is none.
Emails == [settings : Mails, password : Passwords \cup {None}]

Config == [Source : Sources \cup {None}, Refresh : BOOLEAN,
           WebhookURL : Hooks \cup {None}, Email : Emails \cup {None}]
\* None stands for nil and for the empty string: nothing else equals it.
ASSUME AdminAssumption ==
  /\ File \notin Urls /\ None \notin Sources \cup Hooks \cup Passwords \cup Refreshers
  /\ None \notin Facts \cup Emails \cup Config
  /\ Handlers \cap Refreshers = {}
  /\ MaxEdits \in Nat /\ MaxBoots \in Nat
  /\ {Overlap, SaveFails, RowFails, LoadFails} \subseteq BOOLEAN

Unconfigured == [Source |-> None, Refresh |-> FALSE,
                 WebhookURL |-> None, Email |-> None]

\* value is the form's or the current source's; copy is what Save will write.
Job == [at : {"idle", "load", "write", "writing", "password", "apply", "save", "publish"},
        op : {"source", "webhook", "email", "refresh"},
        value : Sources \cup Hooks \cup Emails \cup {None}, Refresh : BOOLEAN,
        facts : Facts \cup {None}, copy : Config]

Idle == [at |-> "idle", op |-> "refresh", value |-> None, Refresh |-> FALSE,
         facts |-> None, copy |-> Unconfigured]

TypeOK ==
  /\ cfg \in Config /\ disk \in Config \cup {None}
  /\ provider \in Facts \cup {None} /\ epProvider \in Facts \cup {None}
  /\ epWebhook \in Hooks \cup {None} /\ epEmail \in Emails \cup {None}
  /\ lastErr \in BOOLEAN /\ onboardingActive \in BOOLEAN
  /\ refresher \in Refreshers \cup {None}
  /\ edition \in [Sources -> Editions]
  /\ loop \in [Refreshers -> {"free", "parked", "on", "stopping", "leaving"}]
  /\ job \in [Actors -> Job]
  /\ boots \in 0 .. MaxBoots /\ {blind, unread} \subseteq BOOLEAN

\* First run: no row, nothing restored, the onboarding pages.
Init ==
  /\ cfg = Unconfigured /\ disk = None
  /\ provider = None /\ lastErr = FALSE /\ refresher = None
  /\ onboardingActive = TRUE
  /\ epProvider = None /\ epWebhook = None /\ epEmail = None
  /\ edition = [s \in Sources |-> IF s = File THEN Torn ELSE 0]
  /\ loop = [g \in Refreshers |-> "free"]
  /\ job = [a \in Actors |-> Idle]
  /\ boots = 0 /\ blind = FALSE /\ unread = FALSE

Ready(a) ==
  /\ job[a].at = "idle"
  /\ Overlap \/ \A b \in Actors : job[b].at = "idle"

Begin(a, j) == job' = [job EXCEPT ![a] = j]
Goto(a, at) == job' = [job EXCEPT ![a].at = at]
Finish(a) == job' = [job EXCEPT ![a] = Idle]
-----------------------------------------------------------------------------
(* startRefresherLocked: stop the old goroutine, start one if configured *)

WantsRefresh(c) == c.Source \in Urls /\ c.Refresh

\* Closing stop wakes a goroutine parked in its select, which then returns; one
\* that is out refreshing finds stop closed, and perhaps a tick, at its select.
Stopped == [g \in Refreshers |-> CASE g # refresher -> loop[g]
                                   [] g = refresher /\ loop[g] = "parked" -> "leaving"
                                   [] OTHER -> "stopping"]

\* MUTANT: the old refresher is replaced without being stopped.
StartRefresherUnstopped(c) ==
  \/ ~WantsRefresh(c) /\ refresher' = None /\ loop' = Stopped
  \/ \E g \in Refreshers :
       /\ WantsRefresh(c) /\ loop[g] = "free"
       /\ refresher' = g /\ loop' = [loop EXCEPT ![g] = "parked"]

StartRefresher(c) ==
  \/ ~WantsRefresh(c) /\ refresher' = None /\ loop' = Stopped
  \/ \E g \in Refreshers :
       /\ WantsRefresh(c) /\ loop[g] = "free"
       /\ refresher' = g /\ loop' = [Stopped EXCEPT ![g] = "parked"]
-----------------------------------------------------------------------------
(* Requests and ticks begin *)

\* handleSource with a link, which is fetched before anything is locked.
PostLink(a, u, refresh) ==
  /\ Ready(a)
  /\ Begin(a, [Idle EXCEPT !.at = "load", !.op = "source", !.value = u,
                           !.Refresh = refresh])
  /\ UNCHANGED <<memory, disk, endpoint, edition, loop, boots, blind, unread>>

\* handleSource with a file, parsed from the form before it is written.
PostFile(a, n) ==
  /\ Ready(a)
  /\ Begin(a, [Idle EXCEPT !.at = "write", !.op = "source", !.value = File,
                           !.facts = [source |-> File, edition |-> n]])
  /\ UNCHANGED <<memory, disk, endpoint, edition, loop, boots, blind, unread>>

PostWebhook(a, w) ==
  /\ Ready(a)
  /\ Begin(a, [Idle EXCEPT !.at = "apply", !.op = "webhook", !.value = w])
  /\ UNCHANGED <<memory, disk, endpoint, edition, loop, boots, blind, unread>>

PostEmail(a, e) ==
  /\ Ready(a)
  /\ Begin(a, [Idle EXCEPT !.at = "password", !.op = "email", !.value = e])
  /\ UNCHANGED <<memory, disk, endpoint, edition, loop, boots, blind, unread>>

\* The skip buttons, and a webhook or email form left blank.
Skip(a) ==
  /\ Ready(a)
  /\ onboardingActive' = FALSE
  /\ UNCHANGED <<cfg, provider, lastErr, refresher, disk, endpoint, edition,
                 loop, job, boots, blind, unread>>

\* refreshFromSource reads the source under the mutex, and unlocks.
BeginRefresh(a) ==
  /\ Ready(a)
  /\ Begin(a, [Idle EXCEPT !.at = "load", !.value = cfg.Source])
  /\ UNCHANGED <<memory, disk, endpoint, edition, boots, blind, unread>>

\* handleRefresh
PostRefresh(a) == BeginRefresh(a) /\ UNCHANGED loop

\* The goroutine waits in its select with neither a tick nor stop ready.  A
\* new one gets there long before its first tick.
Park(g) ==
  /\ loop[g] = "on" /\ job[g].at = "idle"
  /\ loop' = [loop EXCEPT ![g] = "parked"]
  /\ UNCHANGED <<memory, disk, endpoint, edition, job, boots, blind, unread>>

\* A tick is taken; when stop is closed as well, the select takes either.
Tick(g) ==
  /\ loop[g] \in {"parked", "on", "stopping"}
  /\ BeginRefresh(g)
  /\ loop' = [loop EXCEPT ![g] = IF @ = "parked" THEN "on" ELSE @]

\* MUTANT: a tick that is due always goes before a closed stop.
ExitOnlyParked(g) ==
  /\ loop[g] = "leaving" /\ job[g].at = "idle"
  /\ loop' = [loop EXCEPT ![g] = "free"]
  /\ UNCHANGED <<memory, disk, endpoint, edition, job, boots, blind, unread>>

Exit(g) ==
  /\ loop[g] \in {"stopping", "leaving"} /\ job[g].at = "idle"
  /\ loop' = [loop EXCEPT ![g] = "free"]
  /\ UNCHANGED <<memory, disk, endpoint, edition, job, boots, blind, unread>>
-----------------------------------------------------------------------------
(* Reading and writing sources *)

\* A file caught in the middle of being overwritten may parse, or may not.
Load(a) ==
  /\ job[a].at = "load" /\ job[a].value \in Sources
  /\ job' = [job EXCEPT ![a].at = "apply",
               ![a].facts = [source |-> job[a].value,
                             edition |-> edition[job[a].value]]]
  /\ UNCHANGED <<memory, disk, endpoint, edition, loop, boots, blind, unread>>

Unreadable(s) == LoadFails \/ s = None \/ (s = File /\ edition[File] = Torn)

\* MUTANT: a failed refresh takes the provider down.
LoadErrBlanks(a) ==
  /\ job[a].at = "load" /\ Unreadable(job[a].value)
  /\ Finish(a)
  /\ lastErr' = (lastErr \/ job[a].op = "refresh")
  /\ epProvider' = None
  /\ UNCHANGED <<cfg, provider, refresher, onboardingActive, disk, epWebhook,
                 epEmail, edition, loop, boots, blind, unread>>

\* A refresh records the error; the source form only shows it.
LoadErr(a) ==
  /\ job[a].at = "load" /\ Unreadable(job[a].value)
  /\ Finish(a)
  /\ lastErr' = (lastErr \/ job[a].op = "refresh")
  /\ UNCHANGED <<cfg, provider, refresher, onboardingActive, disk, endpoint,
                 edition, loop, boots, blind, unread>>

\* os.WriteFile truncates the file and then fills it, or fails half way.
Truncate(a) ==
  /\ job[a].at = "write"
  /\ edition' = [edition EXCEPT ![File] = Torn]
  /\ Goto(a, "writing")
  /\ UNCHANGED <<memory, disk, endpoint, loop, boots, blind, unread>>

Fill(a) ==
  /\ job[a].at = "writing"
  /\ edition' = [edition EXCEPT ![File] = job[a].facts.edition]
  /\ Goto(a, "apply")
  /\ UNCHANGED <<memory, disk, endpoint, loop, boots, blind, unread>>

WriteErr(a) ==
  /\ SaveFails
  /\ job[a].at \in {"write", "writing"}
  /\ Finish(a)
  /\ UNCHANGED <<memory, disk, endpoint, edition, loop, boots, blind, unread>>
-----------------------------------------------------------------------------
(* The locked section, the Save after it, and the callback after that *)

\* MUTANT: a password is only filled in when the other settings are unchanged.
FillPasswordUnchanged(a) ==
  /\ job[a].at = "password"
  /\ job' = [job EXCEPT ![a].at = "apply",
               ![a].value = IF @.password = None /\ cfg.Email # None
                              /\ cfg.Email.settings = @.settings
                            THEN cfg.Email ELSE @]
  /\ UNCHANGED <<memory, disk, endpoint, edition, loop, boots, blind, unread>>

\* handleEmail: a password left blank is the stored one, which is read under
\* the mutex; the form is validated before the mutex is taken again.
FillPassword(a) ==
  /\ job[a].at = "password"
  /\ job' = [job EXCEPT ![a].at = "apply",
               ![a].value = IF @.password = None /\ cfg.Email # None
                            THEN [@ EXCEPT !.password = cfg.Email.password] ELSE @]
  /\ UNCHANGED <<memory, disk, endpoint, edition, loop, boots, blind, unread>>

Copy(a, c) == job' = [job EXCEPT ![a].at = "save", ![a].copy = c]

ApplySource(a) ==
  LET c == [cfg EXCEPT !.Source = job[a].value, !.Refresh = job[a].Refresh] IN
  /\ job[a].at = "apply" /\ job[a].op = "source"
  /\ cfg' = c
  /\ provider' = job[a].facts
  /\ lastErr' = FALSE
  /\ StartRefresher(c)
  /\ Copy(a, c)
  /\ UNCHANGED <<onboardingActive, disk, endpoint, edition, boots, blind, unread>>

\* The provider is replaced whatever the source is by now.
ApplyRefresh(a) ==
  /\ job[a].at = "apply" /\ job[a].op = "refresh"
  /\ provider' = job[a].facts
  /\ lastErr' = FALSE
  /\ Copy(a, cfg)
  /\ UNCHANGED <<cfg, refresher, onboardingActive, disk, endpoint, edition,
                 loop, boots, blind, unread>>

\* MUTANT: each delivery form stores its value in the other one's field.
ApplyDeliverySwapped(a) ==
  /\ job[a].at = "apply" /\ job[a].op \in {"webhook", "email"}
  /\ cfg' = IF job[a].op = "email"
            THEN [cfg EXCEPT !.WebhookURL = job[a].value]
            ELSE [cfg EXCEPT !.Email = job[a].value]
  /\ Copy(a, cfg')
  /\ UNCHANGED <<provider, lastErr, refresher, onboardingActive, disk,
                 endpoint, edition, loop, boots, blind, unread>>

ApplyDelivery(a) ==
  /\ job[a].at = "apply" /\ job[a].op \in {"webhook", "email"}
  /\ cfg' = IF job[a].op = "webhook"
            THEN [cfg EXCEPT !.WebhookURL = job[a].value]
            ELSE [cfg EXCEPT !.Email = job[a].value]
  /\ Copy(a, cfg')
  /\ UNCHANGED <<provider, lastErr, refresher, onboardingActive, disk,
                 endpoint, edition, loop, boots, blind, unread>>

\* MUTANT: the row keeps the source columns of the first Save.
SaveKeepsSource(a) ==
  /\ job[a].at = "save"
  /\ disk' = IF disk = None THEN job[a].copy
             ELSE [job[a].copy EXCEPT !.Source = disk.Source]
  /\ Goto(a, "publish") /\ unread' = FALSE
  /\ UNCHANGED <<memory, endpoint, edition, loop, boots, blind>>

Save(a) ==
  /\ job[a].at = "save"
  /\ disk' = job[a].copy
  /\ Goto(a, "publish") /\ unread' = FALSE
  /\ UNCHANGED <<memory, endpoint, edition, loop, boots, blind>>

\* A form answers 500 and returns early; a refresh logs and goes on.
SaveErr(a) ==
  /\ SaveFails
  /\ job[a].at = "save"
  /\ IF job[a].op = "refresh" THEN Goto(a, "publish") ELSE Finish(a)
  /\ UNCHANGED <<memory, disk, endpoint, edition, loop, boots, blind, unread>>

\* MUTANT: a refresh updates the dashboard and forgets the endpoint.
PublishFormOnly(a) ==
  /\ job[a].at = "publish" /\ job[a].op \in {"source", "refresh"}
  /\ epProvider' = IF job[a].op = "source" THEN job[a].facts ELSE epProvider
  /\ Finish(a)
  /\ UNCHANGED <<memory, disk, epWebhook, epEmail, edition, loop, boots, blind, unread>>

PublishProvider(a) ==
  /\ job[a].at = "publish" /\ job[a].op \in {"source", "refresh"}
  /\ epProvider' = job[a].facts
  /\ Finish(a)
  /\ UNCHANGED <<memory, disk, epWebhook, epEmail, edition, loop, boots, blind, unread>>

PublishDelivery(a) ==
  /\ job[a].at = "publish" /\ job[a].op \in {"webhook", "email"}
  /\ IF job[a].op = "webhook"
     THEN epWebhook' = job[a].value /\ UNCHANGED epEmail
     ELSE epEmail' = job[a].value /\ UNCHANGED epWebhook
  /\ onboardingActive' = FALSE
  /\ Finish(a)
  /\ UNCHANGED <<cfg, provider, lastErr, refresher, disk, epProvider, edition,
                 loop, boots, blind, unread>>

Step(a) ==
  \/ Load(a) \/ LoadErr(a) \/ Truncate(a) \/ Fill(a) \/ WriteErr(a)
  \/ ApplySource(a) \/ ApplyRefresh(a) \/ FillPassword(a) \/ ApplyDelivery(a)
  \/ Save(a) \/ SaveErr(a) \/ PublishProvider(a) \/ PublishDelivery(a)
-----------------------------------------------------------------------------
(* The outside world, and the process *)

Edit(u) ==
  /\ edition[u] < MaxEdits
  /\ edition' = [edition EXCEPT ![u] = @ + 1]
  /\ UNCHANGED <<memory, disk, endpoint, loop, job, boots, blind, unread>>

\* New, with what Load gave it: the row, or None.  Everything but the row and
\* the file is gone.
Boot(row) ==
  /\ boots < MaxBoots
  /\ boots' = boots + 1
  /\ job' = [a \in Actors |-> Idle]
  /\ onboardingActive' = (row = None)
  /\ cfg' = IF row = None THEN Unconfigured ELSE row
  /\ unread' = (row # disk)
  /\ UNCHANGED <<disk, edition>>

NothingRestored(err) ==
  /\ provider' = None /\ lastErr' = err /\ refresher' = None
  /\ epProvider' = None /\ epWebhook' = None /\ epEmail' = None
  /\ loop' = [g \in Refreshers |-> "free"]
  /\ blind' = err

BootFirst == disk = None /\ Boot(None) /\ NothingRestored(FALSE)

\* An error of Load is taken for a first run: onboarding, with the row in place.
BootUnread == RowFails /\ disk # None /\ Boot(None) /\ NothingRestored(FALSE)

\* restore: the source is read once, and the rest only follows if it parses.
BootRestores ==
  /\ disk # None
  /\ Boot(disk)
  /\ disk.Source \in Sources
  /\ provider' = [source |-> disk.Source, edition |-> edition[disk.Source]]
  /\ lastErr' = FALSE
  /\ epProvider' = provider'
  /\ epWebhook' = disk.WebhookURL /\ epEmail' = disk.Email
  /\ \/ ~WantsRefresh(disk) /\ refresher' = None
     \/ WantsRefresh(disk) /\ refresher' \in Refreshers
  /\ loop' = [g \in Refreshers |-> IF g = refresher' THEN "parked" ELSE "free"]
  /\ blind' = FALSE

BootFails == disk # None /\ Unreadable(disk.Source) /\ Boot(disk) /\ NothingRestored(TRUE)

Next ==
  \/ \E a \in Handlers :
       \/ \E u \in Urls, refresh \in BOOLEAN : PostLink(a, u, refresh)
       \/ \E n \in 0 .. MaxEdits : PostFile(a, n)
       \/ \E w \in Hooks : PostWebhook(a, w)
       \/ \E e \in Emails : PostEmail(a, e)
       \/ Skip(a) \/ PostRefresh(a)
  \/ \E g \in Refreshers : Park(g) \/ Tick(g) \/ Exit(g)
  \/ \E a \in Actors : Step(a)
  \/ \E u \in Urls : Edit(u)
  \/ BootFirst \/ BootUnread \/ BootRestores \/ BootFails

Spec == Init /\ [][Next]_vars

\* Fetches, writes and Saves end (the fetch client has a timeout); tickers
\* tick; and a select with two ready cases does not for ever pick the first.
FairSpec ==
  /\ Spec
  /\ \A a \in Actors : WF_vars(Step(a))
  /\ \A g \in Refreshers : WF_vars(Tick(g)) /\ SF_vars(Exit(g))
-----------------------------------------------------------------------------
(* Properties *)

Quiet == \A a \in Actors : job[a].at = "idle"

(* Until the process restarts, the endpoint never goes from serving facts   *)
(* to serving none: failed refreshes, rejected forms and racing handlers    *)
(* leave the last known-good facts up.                                      *)
LastKnownGoodStays ==
  [][epProvider # None => epProvider' # None \/ boots' # boots]_vars

TicksAlone == \A g \in Refreshers : loop[g] \in {"parked", "on"} <=> refresher = g
IsWanted == refresher # None => WantsRefresh(cfg)

(* Exactly the current refresher runs unstopped, and only while the          *)
(* configuration in memory asks for one: replacing the source again and      *)
(* again, from concurrent requests, leaks no ticking goroutine.              *)
OneRefresherTicks == TicksAlone /\ IsWanted

(* One at a time, requests and refreshes leave the four places in agreement *)
(* once they are done, through any restart that restored: memory and        *)
(* endpoint hold one configuration, the facts are of its source, and the    *)
(* row holds it as well, unless no process since has read or replaced it.   *)
Settled ==
  Quiet /\ ~blind =>
    /\ unread \/ disk = IF cfg = Unconfigured THEN None ELSE cfg
    /\ epProvider = provider
    /\ epWebhook = cfg.WebhookURL /\ epEmail = cfg.Email
    /\ IF provider = None THEN cfg.Source = None
       ELSE provider.source = cfg.Source

(* One at a time, forms that leave the password blank, as the page tells     *)
(* them to, do not lose the saved one: not when the other settings change,   *)
(* when other forms and refreshes save, or over restarts, blind ones too.    *)
(* The exception is exact: the first Save of a process that could not read   *)
(* the row when it started.                                                  *)
HasPassword(c) == c # None /\ c.Email # None /\ c.Email.password # None
PasswordStays == [][HasPassword(disk) => HasPassword(disk') \/ unread]_vars

(* A refresher that was replaced stops for good, even if each tick comes    *)
(* before its select looks at the stop channel.                             *)
StoppedRefresherExits ==
  \A g \in Refreshers : loop[g] \in {"stopping", "leaving"} ~> loop[g] = "free"

(* While a link is refreshed and can be read, its last edition is served in *)
(* the end, whatever older fetch was applied after a newer one.             *)
RefreshCatchesUp ==
  \A u \in Urls :
    WantsRefresh(cfg) /\ cfg.Source = u /\ edition[u] = MaxEdits ~>
      \/ epProvider = [source |-> u, edition |-> MaxEdits]
      \/ ~(WantsRefresh(cfg) /\ cfg.Source = u)
-----------------------------------------------------------------------------
(* What the repository says and the code does not do *)

(* The provider served is that of the current source once nothing is under  *)
(* way: refreshFromSource "re-fetches and re-parses the current source".    *)
ServesCurrentSource ==
  Quiet /\ provider # None => provider.source = cfg.Source

(* With an error on the dashboard, facts are still live.                    *)
ErrorKeepsLive == lastErr /\ cfg.Source # None => epProvider # None
=============================================================================
