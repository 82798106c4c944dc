---------------------------- MODULE BookingIntake ----------------------------
(***************************************************************************)
(* internal/endpoint/booking.go: the intake flow shared by POST /book and  *)
(* the MCP tool book_intake, on top of the booking store.  A request is    *)
(* validated, queued, announced to the provider through the one channel    *)
(* that is configured, and answered.  Every step is a place where another  *)
(* handler can run, where the admin can save another configuration, and    *)
(* where the process can stop.                                             *)
(***************************************************************************)
EXTENDS BookingStore

CONSTANTS
  Mailboxes,  \* email configurations an admin may save
  Hooks,      \* webhook URLs an admin may save
  None        \* "not configured"

ASSUME IntakeAssumption == None \notin Mailboxes /\ None \notin Hooks

VARIABLES
  stage,      \* stage[r]: where bookIntake is for request r
  reply,      \* reply[r]: what the requester was answered
  delivered,  \* delivered[r]: channels that did reach the provider (external)
  emailCfg,   \* Server.emailCfg, the email settings the endpoint uses
  webhookURL  \* Server.webhookURL

flow == <<stage, reply, delivered>>
settings == <<emailCfg, webhookURL>>
store == <<now, status, expires, enqueue, told, job>>
allVars == <<store, flow, settings>>

Stages == {"new", "queueing", "queued", "no email", "emailing", "posting",
           "sent", "silent", "answered", "lost"}
Underway == Stages \ {"new", "answered", "lost"}
Replies == {"none", "bad request", "server error", "queued", "sent"}
HasStatusToken(r) == reply[r] \in {"queued", "sent"}

IntakeTypeOK ==
  /\ TypeOK
  /\ stage \in [Requests -> Stages]
  /\ reply \in [Requests -> Replies]
  /\ delivered \in [Requests -> SUBSET {"email", "webhook"}]
  /\ emailCfg \in Mailboxes \cup {None}
  /\ webhookURL \in Hooks \cup {None}

IntakeInit ==
  /\ Init
  /\ stage = [r \in Requests |-> "new"]
  /\ reply = [r \in Requests |-> "none"]
  /\ delivered = [r \in Requests |-> {}]
  /\ emailCfg \in Mailboxes \cup {None}
  /\ webhookURL \in Hooks \cup {None}

Goto(r, to) == stage' = [stage EXCEPT ![r] = to]

ReplyWith(r, answer) ==
  /\ Goto(r, "answered")
  /\ reply' = [reply EXCEPT ![r] = answer]
-----------------------------------------------------------------------------
(* Validation and queueing *)

\* Length of a trimmed field: empty, within maxFieldLen, or over it.  A body
\* that does not decode is refused the same way as blank fields.
Form == [{"name", "contact", "need"} -> {"blank", "fits", "long"}]

Valid(form) ==
  /\ form["name"] # "blank" /\ form["need"] # "blank"
  /\ \A field \in DOMAIN form : form[field] # "long"

Refuse(r, form) ==
  /\ stage[r] = "new"
  /\ ~Valid(form)
  /\ ReplyWith(r, "bad request")
  /\ UNCHANGED <<store, delivered, settings>>

\* A valid form reaches Enqueue, which reads the clock.
Accept(r, form) ==
  /\ stage[r] = "new"
  /\ Valid(form)
  /\ Stamp(r)
  /\ Goto(r, "queueing")
  /\ UNCHANGED <<reply, delivered, settings>>

Queue(r) ==
  /\ stage[r] = "queueing"
  /\ Insert(r)
  /\ Goto(r, "queued")
  /\ UNCHANGED <<reply, delivered, settings>>

\* MUTANT: a failed INSERT is logged, and the requester is answered as usual.
QueueFailsSilently(r) ==
  /\ stage[r] = "queueing"
  /\ InsertFails(r)
  /\ Goto(r, "silent")
  /\ UNCHANGED <<reply, delivered, settings>>

QueueFails(r) ==
  /\ stage[r] = "queueing"
  /\ InsertFails(r)
  /\ ReplyWith(r, "server error")
  /\ UNCHANGED <<delivered, settings>>
-----------------------------------------------------------------------------
(* Telling the provider *)

\* MUTANT: the provider is notified while the INSERT is still running.
UseEmailEarly(r) ==
  /\ stage[r] \in {"queueing", "queued"}
  /\ emailCfg # None
  /\ Goto(r, "emailing")
  /\ UNCHANGED <<store, reply, delivered, settings>>

\* First case of the switch: currentEmail().To != "".
UseEmail(r) ==
  /\ stage[r] = "queued"
  /\ emailCfg # None
  /\ Goto(r, "emailing")
  /\ UNCHANGED <<store, reply, delivered, settings>>

NoEmail(r) ==
  /\ stage[r] = "queued"
  /\ emailCfg = None
  /\ Goto(r, "no email")
  /\ UNCHANGED <<store, reply, delivered, settings>>

\* Second case, read later: currentWebhook() != "".
UseWebhook(r) ==
  /\ stage[r] = "no email"
  /\ webhookURL # None
  /\ Goto(r, "posting")
  /\ UNCHANGED <<store, reply, delivered, settings>>

NoChannel(r) ==
  /\ stage[r] = "no email"
  /\ webhookURL = None
  /\ Goto(r, "silent")
  /\ UNCHANGED <<store, reply, delivered, settings>>

\* email.Send and webhook.Notify read the settings again, and refuse an empty
\* one.  They may report an error for a message that did arrive: SMTP fails
\* at QUIT, or the webhook answers after the client gave up on it.
Reached(r, channel, target, errors) ==
  /\ target # None
  /\ delivered' = [delivered EXCEPT ![r] = @ \cup {channel}]
  /\ Goto(r, IF errors THEN "silent" ELSE "sent")

NotReached(r) == UNCHANGED delivered /\ Goto(r, "silent")

SendEmail(r) ==
  /\ stage[r] = "emailing"
  /\ \/ \E errors \in BOOLEAN : Reached(r, "email", emailCfg, errors)
     \/ NotReached(r)
  /\ UNCHANGED <<store, reply, settings>>

\* MUTANT: the message changes before the webhook's answer is looked at.
PostWebhookOptimistic(r) ==
  /\ stage[r] = "posting"
  /\ \/ Reached(r, "webhook", webhookURL, FALSE)
     \/ UNCHANGED delivered /\ Goto(r, "sent")
  /\ UNCHANGED <<store, reply, settings>>

PostWebhook(r) ==
  /\ stage[r] = "posting"
  /\ \/ \E errors \in BOOLEAN : Reached(r, "webhook", webhookURL, errors)
     \/ NotReached(r)
  /\ UNCHANGED <<store, reply, settings>>

\* 202 with the status token; the message tells whether the provider knows.
Respond(r) ==
  /\ \/ stage[r] = "sent" /\ ReplyWith(r, "sent")
     \/ stage[r] = "silent" /\ ReplyWith(r, "queued")
  /\ UNCHANGED <<store, delivered, settings>>

\* MUTANT: without a channel the intake waits until one is configured.
OwnStepWaitsForChannel(r) ==
  \/ Queue(r) \/ QueueFails(r) \/ UseEmail(r) \/ NoEmail(r)
  \/ UseWebhook(r) \/ PostWebhook(r) \/ Respond(r)

\* Steps of bookIntake that end by themselves; the webhook client has a
\* timeout, the SMTP client has none.
OwnStep(r) ==
  \/ Queue(r) \/ QueueFails(r) \/ UseEmail(r) \/ NoEmail(r)
  \/ UseWebhook(r) \/ NoChannel(r) \/ PostWebhook(r) \/ Respond(r)
-----------------------------------------------------------------------------
(* The rest of the server *)

\* The requester asks with the status token it was answered with.
AskStatus(r) ==
  /\ HasStatusToken(r)
  /\ CheckStatus(r)
  /\ UNCHANGED <<flow, settings>>

\* The provider's links and the admin queue post the confirm/deny token.
PostDecision(h, r, d) ==
  /\ \/ Call(h, r, Token(r), d)
     \/ HasStatusToken(r) /\ Call(h, r, StatusToken(r), d)
  /\ UNCHANGED <<flow, settings>>

DecisionStep(h) == ResolveStep(h) /\ UNCHANGED <<flow, settings>>

\* MUTANT: an email form left blank turns email off.
UpdateEmailOrClear ==
  /\ emailCfg' \in Mailboxes \cup {None}
  /\ UNCHANGED <<store, flow, webhookURL>>

\* The admin's forms reject or skip a blank value: nothing turns a channel off.
UpdateEmail ==
  /\ emailCfg' \in Mailboxes
  /\ UNCHANGED <<store, flow, webhookURL>>

UpdateWebhook ==
  /\ webhookURL' \in Hooks
  /\ UNCHANGED <<store, flow, emailCfg>>

Passes == Tick /\ UNCHANGED <<flow, settings>>

\* Intakes in progress are cut off.  The settings come back from the database,
\* or not at all when the source cannot be read at startup (restore's early
\* return).
RestartServer ==
  /\ Restart
  /\ stage' = [r \in Requests |-> IF stage[r] \in Underway THEN "lost"
                                  ELSE stage[r]]
  /\ \/ UNCHANGED settings
     \/ emailCfg' = None /\ webhookURL' = None
  /\ UNCHANGED <<reply, delivered>>

IntakeNext ==
  \/ \E r \in Requests, form \in Form : Refuse(r, form) \/ Accept(r, form)
  \/ \E r \in Requests : OwnStep(r) \/ SendEmail(r)
  \/ \E r \in Requests : AskStatus(r)
  \/ \E h \in Handlers, r \in Requests, d \in Decision : PostDecision(h, r, d)
  \/ \E h \in Handlers : DecisionStep(h)
  \/ UpdateEmail \/ UpdateWebhook \/ Passes \/ RestartServer

IntakeSpec == IntakeInit /\ [][IntakeNext]_allVars

FairIntakeSpec == IntakeSpec /\ \A r \in Requests : WF_allVars(OwnStep(r))
-----------------------------------------------------------------------------
(* Properties *)

(* The answer agrees with the queue, whatever was restarted since: a 202 and *)
(* its status token have a row behind them, and "bad request" or "failed to  *)
(* queue request" left nothing, neither a row for the provider to decide nor *)
(* a message with dead links.                                                *)
AnswerMatchesQueue ==
  \A r \in Requests :
    /\ HasStatusToken(r) => status[r] # "absent"
    /\ reply[r] \in {"bad request", "server error"} =>
         status[r] = "absent" /\ delivered[r] = {}

(* "Your request has been sent to the provider" is only said of a request   *)
(* that did reach the provider, while settings change and channels fail.    *)
SentWasDelivered ==
  \A r \in Requests : reply[r] = "sent" => delivered[r] # {}

(* The confirm and deny links of a delivered message find their row, so a   *)
(* provider quicker than the intake handler is not told "unknown token".    *)
LinksResolve ==
  \A r \in Requests : delivered[r] # {} => status[r] # "absent"

(* The second read of the settings, at the send, finds the channel chosen   *)
(* by the first read still configured: an intake is never lost to a blank.  *)
SendHasTarget ==
  \A r \in Requests :
    /\ stage[r] = "emailing" => emailCfg # None
    /\ stage[r] = "posting" => webhookURL # None

(* An intake is answered unless the process stops or it waits for SMTP,     *)
(* which has no timeout: a webhook that never answers does not hold it.     *)
IntakeAnswered ==
  \A r \in Requests :
    stage[r] \in Underway ~> stage[r] \in {"emailing", "answered", "lost"}
=============================================================================
