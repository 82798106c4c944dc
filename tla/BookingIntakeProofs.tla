-------------------------- MODULE BookingIntakeProofs --------------------------
(***************************************************************************)
(* Proofs about BookingIntake, for any sets of requests, handlers and      *)
(* settings: the intake only ever uses the store through its operations,   *)
(* and what it answers is true of the queue and of the provider's inbox.   *)
(***************************************************************************)
EXTENDS BookingIntake, BookingStoreProofs

(* Every step of the server is a step of the store, or leaves it alone.    *)
LEMMA StoreStep == [IntakeNext]_allVars => [Next]_vars
<1>. SUFFICES ASSUME [IntakeNext]_allVars PROVE [Next]_vars
  OBVIOUS
<1>1. CASE UNCHANGED store
  BY <1>1 DEF store, vars
<1>2. ASSUME NEW r \in Requests, NEW form \in Form, Refuse(r, form) \/ Accept(r, form)
      PROVE  [Next]_vars
  BY <1>1, <1>2 DEF Refuse, Accept, Next
<1>3. ASSUME NEW r \in Requests, OwnStep(r) \/ SendEmail(r) PROVE [Next]_vars
  BY <1>1, <1>3
     DEF OwnStep, Queue, QueueFails, UseEmail, NoEmail, UseWebhook, NoChannel,
         PostWebhook, Respond, SendEmail, Next
<1>4. ASSUME NEW r \in Requests, AskStatus(r) PROVE [Next]_vars
  BY <1>4 DEF AskStatus, Next
<1>5. ASSUME NEW h \in Handlers, NEW r \in Requests, NEW d \in Decision,
             PostDecision(h, r, d)
      PROVE  [Next]_vars
  BY <1>5 DEF PostDecision, Next
<1>6. ASSUME NEW h \in Handlers, DecisionStep(h) PROVE [Next]_vars
  BY <1>6 DEF DecisionStep, Next
<1>7. CASE UpdateEmail \/ UpdateWebhook
  BY <1>1, <1>7 DEF UpdateEmail, UpdateWebhook
<1>8. CASE Passes \/ RestartServer
  BY <1>8 DEF Passes, RestartServer, Next
<1>9. CASE UNCHANGED allVars
  BY <1>1, <1>9 DEF allVars
<1>. QED
  BY <1>2, <1>3, <1>4, <1>5, <1>6, <1>7, <1>8, <1>9 DEF IntakeNext

(* Seen from the queue, the server is the booking store: whatever is proved *)
(* of BookingStore holds below the intake, settings and notifications.      *)
THEOREM StoreInside == IntakeSpec => Spec
<1>1. IntakeInit => Init
  BY DEF IntakeInit
<1>. QED
  BY <1>1, StoreStep, PTL DEF IntakeSpec, Spec
-----------------------------------------------------------------------------
(* Where an intake stands, what is stored, what was delivered and what the   *)
(* requester was answered, related to each other.                            *)

FlowType ==
  /\ stage \in [Requests -> Stages]
  /\ reply \in [Requests -> Replies]
  /\ delivered \in [Requests -> SUBSET {"email", "webhook"}]
  /\ emailCfg \in Mailboxes \cup {None}
  /\ webhookURL \in Hooks \cup {None}

\* Where a request stands, its answer, what was sent for it and its row agree.
Agree(at, answer, sent, row) ==
  /\ at \in {"new", "queueing"} \/ answer \in {"bad request", "server error"} =>
       row = "absent" /\ sent = {}
  /\ at \in {"queued", "no email", "emailing", "posting", "sent", "silent"}
       \/ answer \in {"queued", "sent"} \/ sent # {} =>
       row # "absent"
  /\ answer # "none" => at = "answered"
  /\ at \in {"queued", "no email", "emailing", "posting"} => sent = {}
  /\ at = "sent" \/ answer = "sent" => sent # {}
  /\ sent # {"email", "webhook"}

Consistent(r) == Agree(stage[r], reply[r], delivered[r], status[r])

IntakeInv ==
  /\ FlowType
  /\ \A r \in Requests : Consistent(r)
  /\ SendHasTarget

LEMMA IntakeInvInit == IntakeInit => IntakeInv
BY DEF IntakeInit, Init, IntakeInv, FlowType, Stages, Replies, Consistent, Agree,
       HasStatusToken, SendHasTarget

(* A step of a confirm or deny neither makes a row nor removes one.         *)
LEMMA RowsStay ==
  ASSUME TypeOK, NEW h \in Handlers, ResolveStep(h), NEW r \in Requests
  PROVE  status'[r] = "absent" <=> status[r] = "absent"
<1>1. CASE Update(h)
  <2>1. job[h].next \in Decision
    BY DEF TypeOK, Job
  <2>2. status'[r] = IF r \in RowsWithToken(job[h].token) THEN job[h].next
                     ELSE status[r]
    BY <1>1 DEF Update
  <2>. QED
    BY <2>1, <2>2 DEF RowsWithToken, Decision
<1>2. CASE UNCHANGED status
  BY <1>2
<1>. QED
  BY <1>1, <1>2
     DEF ResolveStep, ReadRow, ReadNothing, ReadFails, CheckUsed, CheckExpired,
         CheckPasses, UpdateFails

(* A step of one intake that leaves the store and the settings alone: what   *)
(* is left to show is about that request.                                    *)
LEMMA OneFlow ==
  ASSUME IntakeInv, NEW r \in Requests, NEW to \in Stages, Goto(r, to),
         UNCHANGED <<status, settings>>,
         reply' \in [Requests -> Replies],
         delivered' \in [Requests -> SUBSET {"email", "webhook"}],
         \A q \in Requests \ {r} : reply'[q] = reply[q] /\ delivered'[q] = delivered[q],
         Consistent(r)',
         to = "emailing" => emailCfg # None, to = "posting" => webhookURL # None
  PROVE  IntakeInv'
<1>1. stage' \in [Requests -> Stages] /\ stage'[r] = to
      /\ \A q \in Requests \ {r} : stage'[q] = stage[q]
  BY DEF Goto, IntakeInv, FlowType
<1>2. FlowType'
  BY <1>1 DEF IntakeInv, FlowType, settings
<1>3. ASSUME NEW q \in Requests \ {r} PROVE Consistent(q)'
  <2>1. Consistent(q)
    BY DEF IntakeInv
  <2>2. /\ stage'[q] = stage[q] /\ reply'[q] = reply[q] /\ delivered'[q] = delivered[q]
        /\ status'[q] = status[q]
    BY <1>1
  <2>. QED
    BY <2>1, <2>2 DEF Consistent
<1>4. SendHasTarget'
  BY <1>1 DEF IntakeInv, SendHasTarget, settings
<1>. QED
  BY <1>2, <1>3, <1>4 DEF IntakeInv

LEMMA IntakeInvStep ==
  ASSUME TypeOK, IntakeInv, [IntakeNext]_allVars
  PROVE  IntakeInv'
<1>. USE DEF store, flow, settings, Goto, ReplyWith
<1>1. ASSUME NEW r \in Requests, NEW form \in Form, Refuse(r, form) PROVE IntakeInv'
  BY <1>1 DEF Refuse, IntakeInv, FlowType, Consistent, Agree, HasStatusToken, SendHasTarget,
              Stages, Replies
<1>2. ASSUME NEW r \in Requests, NEW form \in Form, Accept(r, form) PROVE IntakeInv'
  BY <1>2 DEF Accept, Stamp, IntakeInv, FlowType, Consistent, Agree, HasStatusToken,
              SendHasTarget, Stages, Replies
<1>3. ASSUME NEW r \in Requests, Queue(r) PROVE IntakeInv'
  <2>1. /\ stage[r] = "queueing" /\ stage' = [stage EXCEPT ![r] = "queued"]
        /\ status' = [status EXCEPT ![r] = "pending"]
        /\ UNCHANGED <<reply, delivered, settings>>
    BY <1>3 DEF Queue, Insert
  <2>2. ASSUME NEW q \in Requests PROVE Consistent(q)'
    <3>1. Consistent(q)
      BY DEF IntakeInv
    <3>2. reply'[q] = reply[q] /\ delivered'[q] = delivered[q]
      BY <2>1
    <3>3. CASE q = r
      <4>1. stage[q] = "queueing" /\ stage'[q] = "queued" /\ status'[q] = "pending"
        BY <2>1, <3>3 DEF IntakeInv, FlowType, TypeOK
      <4>. QED
        BY <3>1, <3>2, <4>1 DEF Consistent, Agree
    <3>4. CASE q # r
      <4>1. stage'[q] = stage[q] /\ status'[q] = status[q]
        BY <2>1, <3>4 DEF IntakeInv, FlowType, TypeOK
      <4>. QED
        BY <3>1, <3>2, <4>1 DEF Consistent
    <3>. QED
      BY <3>3, <3>4
  <2>3. FlowType'
    BY <2>1 DEF IntakeInv, FlowType, Stages
  <2>4. SendHasTarget'
    BY <2>1 DEF IntakeInv, FlowType, SendHasTarget
  <2>. QED
    BY <2>2, <2>3, <2>4 DEF IntakeInv
<1>4. ASSUME NEW r \in Requests, QueueFails(r) PROVE IntakeInv'
  BY <1>4 DEF QueueFails, InsertFails, IntakeInv, FlowType, Consistent, Agree,
              HasStatusToken, SendHasTarget, Stages, Replies
<1>5. ASSUME NEW r \in Requests,
             UseEmail(r) \/ NoEmail(r) \/ UseWebhook(r) \/ NoChannel(r)
      PROVE  IntakeInv'
  <2>1. PICK to \in {"no email", "emailing", "posting", "silent"} :
          /\ Goto(r, to)
          /\ to = "emailing" => emailCfg # None
          /\ to = "posting" => webhookURL # None
    BY <1>5 DEF UseEmail, NoEmail, UseWebhook, NoChannel
  <2>2. /\ stage[r] \in {"queued", "no email"}
        /\ UNCHANGED <<status, reply, delivered, settings>>
    BY <1>5 DEF UseEmail, NoEmail, UseWebhook, NoChannel
  <2>3. stage'[r] = to
    BY <2>1 DEF IntakeInv, FlowType
  <2>4. Consistent(r)'
    BY <2>2, <2>3 DEF IntakeInv, Consistent, Agree, HasStatusToken
  <2>. QED
    BY <2>1, <2>2, <2>4, OneFlow DEF Stages, IntakeInv, FlowType
<1>6. ASSUME NEW r \in Requests, SendEmail(r) \/ PostWebhook(r) PROVE IntakeInv'
  <2>1. PICK to \in {"sent", "silent"}, channel \in {"email", "webhook"} :
          /\ Goto(r, to)
          /\ \/ delivered' = [delivered EXCEPT ![r] = @ \cup {channel}]
             \/ delivered' = delivered /\ to = "silent"
    BY <1>6 DEF SendEmail, PostWebhook, Reached, NotReached
  <2>2. stage[r] \in {"emailing", "posting"} /\ UNCHANGED <<status, reply, settings>>
    BY <1>6 DEF SendEmail, PostWebhook
  <2>3. /\ delivered[r] = {} /\ reply[r] = "none" /\ status[r] # "absent"
        /\ reply \in [Requests -> Replies]
        /\ delivered \in [Requests -> SUBSET {"email", "webhook"}]
    BY <2>2 DEF IntakeInv, Consistent, Agree, FlowType
  <2>4. /\ delivered' \in [Requests -> SUBSET {"email", "webhook"}]
        /\ delivered'[r] \in {{}, {channel}}
        /\ to = "sent" => delivered'[r] # {}
        /\ \A q \in Requests \ {r} : delivered'[q] = delivered[q]
    BY <2>1, <2>3
  <2>5. stage'[r] = to /\ to \in Stages /\ delivered'[r] # {"email", "webhook"}
    <3>1. {channel} # {"email", "webhook"} /\ {} # {"email", "webhook"}
      OBVIOUS
    <3>2. delivered'[r] # {"email", "webhook"}
      BY <2>4, <3>1
    <3>. QED
      BY <2>1, <3>2 DEF IntakeInv, FlowType, Stages
  <2>6. Consistent(r)'
    BY <2>1, <2>2, <2>3, <2>4, <2>5 DEF Consistent, Agree, HasStatusToken
  <2>7. reply' \in [Requests -> Replies]
        /\ \A q \in Requests \ {r} : reply'[q] = reply[q]
    BY <2>2, <2>3
  <2>. QED
    BY <2>1, <2>2, <2>4, <2>5, <2>6, <2>7, OneFlow
<1>7. ASSUME NEW r \in Requests, Respond(r) PROVE IntakeInv'
  <2>1. PICK answer \in {"sent", "queued"} :
          /\ Goto(r, "answered") /\ reply' = [reply EXCEPT ![r] = answer]
          /\ stage[r] = IF answer = "sent" THEN "sent" ELSE "silent"
    BY <1>7 DEF Respond
  <2>2. UNCHANGED <<status, delivered, settings>>
    BY <1>7 DEF Respond
  <2>3. /\ stage'[r] = "answered" /\ reply'[r] = answer
        /\ reply' \in [Requests -> Replies]
        /\ \A q \in Requests \ {r} : reply'[q] = reply[q]
    BY <2>1 DEF IntakeInv, FlowType, Replies
  <2>4. Consistent(r)'
    BY <2>1, <2>2, <2>3 DEF IntakeInv, Consistent, Agree, HasStatusToken
  <2>5. "answered" \in Stages /\ delivered' \in [Requests -> SUBSET {"email", "webhook"}]
    BY <2>2 DEF Stages, IntakeInv, FlowType
  <2>. QED
    BY <2>1, <2>2, <2>3, <2>4, <2>5, OneFlow
<1>8. CASE UNCHANGED <<status, flow, settings>>
  BY <1>8 DEF IntakeInv, FlowType, Consistent, Agree, HasStatusToken, SendHasTarget
<1>9. ASSUME NEW h \in Handlers, DecisionStep(h) PROVE IntakeInv'
  <2>1. \A r \in Requests : status'[r] = "absent" <=> status[r] = "absent"
    BY <1>9, RowsStay DEF DecisionStep
  <2>2. UNCHANGED <<stage, reply, delivered, emailCfg, webhookURL>>
    BY <1>9 DEF DecisionStep
  <2>. QED
    BY <2>1, <2>2 DEF IntakeInv, FlowType, Consistent, Agree, HasStatusToken, SendHasTarget
<1>10. CASE UpdateEmail \/ UpdateWebhook
  BY <1>10, IntakeAssumption
     DEF UpdateEmail, UpdateWebhook, IntakeInv, FlowType, Consistent, Agree,
         HasStatusToken, SendHasTarget
<1>11. CASE RestartServer
  <2>1. /\ UNCHANGED <<status, reply, delivered>>
        /\ emailCfg' \in {emailCfg, None} /\ webhookURL' \in {webhookURL, None}
        /\ stage' = [r \in Requests |-> IF stage[r] \in Underway THEN "lost"
                                        ELSE stage[r]]
    BY <1>11 DEF RestartServer, Restart
  <2>2. \A r \in Requests : stage'[r] \in {"lost", stage[r]} \cap
                              {"new", "answered", "lost"}
    BY <2>1 DEF IntakeInv, FlowType, Underway, Stages
  <2>3. FlowType'
    BY <2>1, <2>2 DEF IntakeInv, FlowType, Stages
  <2>4. \A r \in Requests : Consistent(r)'
    BY <2>1, <2>2 DEF IntakeInv, FlowType, Consistent, Agree, HasStatusToken, Underway
  <2>. QED
    BY <2>2, <2>3, <2>4 DEF IntakeInv, SendHasTarget
<1>12. CASE UNCHANGED allVars
  BY <1>8, <1>12 DEF allVars
<1>. QED
  BY <1>1, <1>2, <1>3, <1>4, <1>5, <1>6, <1>7, <1>8, <1>9, <1>10, <1>11, <1>12
     DEF IntakeNext, OwnStep, AskStatus, CheckStatus, PostDecision, Call, Passes, Tick

LEMMA IntakeInvAlways == IntakeSpec => [](TypeOK /\ IntakeInv)
<1>1. IntakeSpec => []TypeOK
  BY StoreInside, TypeCorrect, PTL
<1>2. TypeOK /\ IntakeInv /\ [IntakeNext]_allVars => IntakeInv'
  BY IntakeInvStep
<1>. QED
  BY <1>1, <1>2, IntakeInvInit, PTL DEF IntakeSpec
-----------------------------------------------------------------------------
(* Every reachable state of the server is well typed, the queue's included. *)
THEOREM IntakeTypeCorrect == IntakeSpec => []IntakeTypeOK
<1>1. TypeOK /\ IntakeInv => IntakeTypeOK
  BY DEF IntakeInv, FlowType, IntakeTypeOK
<1>. QED
  BY <1>1, IntakeInvAlways, PTL

(* A requester who was given a status token has a row, and one who was       *)
(* refused left none: the answer is true of the queue for ever.              *)
THEOREM AnswersAreTrue == IntakeSpec => []AnswerMatchesQueue
<1>1. ASSUME IntakeInv PROVE AnswerMatchesQueue
  <2>1. ASSUME NEW r \in Requests
        PROVE  /\ HasStatusToken(r) => status[r] # "absent"
               /\ reply[r] \in {"bad request", "server error"} =>
                    status[r] = "absent" /\ delivered[r] = {}
    <3>1. Agree(stage[r], reply[r], delivered[r], status[r])
      BY <1>1 DEF IntakeInv, Consistent
    <3>. QED
      BY <3>1 DEF Agree, HasStatusToken
  <2>. QED
    BY <2>1 DEF AnswerMatchesQueue
<1>. QED
  BY <1>1, IntakeInvAlways, PTL

(* "Sent to the provider" is only said of a request that reached the        *)
(* provider, whatever the channels report.                                  *)
THEOREM SentIsDelivered == IntakeSpec => []SentWasDelivered
<1>1. IntakeInv => SentWasDelivered
  BY DEF IntakeInv, Consistent, Agree, SentWasDelivered
<1>. QED
  BY <1>1, IntakeInvAlways, PTL

(* The links of a delivered message find the row they are about.            *)
THEOREM NotificationsAreSound == IntakeSpec => []LinksResolve
<1>1. IntakeInv => LinksResolve
  BY DEF IntakeInv, Consistent, Agree, LinksResolve
<1>. QED
  BY <1>1, IntakeInvAlways, PTL

(* The settings read at the send are never blank, though they may differ    *)
(* from those the channel was chosen by.                                    *)
THEOREM SendsHaveTargets == IntakeSpec => []SendHasTarget
<1>1. IntakeInv => SendHasTarget
  BY DEF IntakeInv
<1>. QED
  BY <1>1, IntakeInvAlways, PTL
=============================================================================
