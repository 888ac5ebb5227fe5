---------------------------- MODULE Submissions ----------------------------
(***************************************************************************)
(* The approval cards of one application and everything that may send it:  *)
(* the execute endpoint, the apply sweep, the autonomous path behind the   *)
(* Apply button.  A card is approved once, claimed by a compare-and-set on *)
(* executedAt, executed (an e-mail, or the Submit control of the           *)
(* employer's site), then completed or released.  A site submission counts *)
(* only when the employer's receipt is in the mailbox; until then the      *)
(* application is stamped siteSubmittedAt and polled for.                  *)
(*                                                                         *)
(* One action is one committed transaction or one act on the outside       *)
(* world.  The module follows a single application: no statement here      *)
(* touches two.  A write that fails is rolled back.                        *)
(***************************************************************************)
EXTENDS Integers, FiniteSets

CONSTANTS
    NumCards,      \* ApprovalRequest ids are 1..NumCards, in order of createdAt
    Kinds,         \* kinds of card raised in this instance
    Channels,      \* what the channel resolver may answer
    Columns,       \* columns of the board the user drags the card to
    Requests,      \* handlers of HTTP requests and agent runs
    Sweepers,      \* apply_sweep_user passes
    AutoApply,     \* agentConfig: agents may approve what they queue
    ApprovalGate,  \* agentConfig: nothing is sent without a human
    Faults,        \* subset of {"process", "database", "gmail", "document", "browser", "mailbox"}
    MaxFaults,     \* bound: faults in a behaviour
    MaxSends       \* bound: e-mails, and clicks on Submit, under one card

Cards == 1..NumCards
Executors == Requests \cup Sweepers

ASSUME CardAssumption == NumCards \in Nat \ {0}
                        /\ Kinds \subseteq {"email_send", "email", "site", "letter"}
ASSUME ChannelAssumption == Channels \subseteq {"email", "site", "none"}
ASSUME ColumnAssumption == Columns \subseteq {"draft", "submitted", "later"}
ASSUME BoundAssumption == MaxFaults \in Nat /\ MaxSends \in Nat
ASSUME ConfigAssumption == AutoApply \in BOOLEAN /\ ApprovalGate \in BOOLEAN

VARIABLES
    kind, status, age, stamp,          \* ApprovalRequest rows
    stage, truth, manual,              \* Application: status, submissionTruthState, manualStepReason
    siteSubmittedAt, transmittedAt,    \* Application: are they set
    pc, goal, on,                      \* executors: next step, handler, card in hand
    mailed, clicked, receipt,          \* the outside world
    faults,
    interrupted, reopened, unmarked    \* history

cardVars  == <<kind, status, age, stamp>>
appVars   == <<stage, truth, manual, siteSubmittedAt, transmittedAt>>
procVars  == <<pc, goal, on>>
worldVars == <<mailed, clicked, receipt>>
histVars  == <<interrupted, reopened, unmarked>>
vars == <<cardVars, appVars, procVars, worldVars, faults, histVars>>

\* Mutant: a receipt that has not come yet is no reason to look again.
RetryableWithoutReceipt == {"retry"}

\* RETRYABLE_MANUAL_REASONS: a miss to try again, a receipt to poll for again.
Retryable == {"retry", "awaiting_receipt"}
Reasons   == {"none", "retry", "awaiting_receipt", "needs_user", "approval_expired"}

\* Steps that come after a won claim; the executor still owes its end.
Sending    == {"mail", "click", "clicked", "poll", "pollNew"}
Recording  == {"recordMail", "recordSite", "complete"}
HeldManual == {"blockHeld", "retryHeld", "pendHeld"}
Releasing  == {"release", "releaseAgain", "releaseBlock", "releaseRetry", "releasePend"}
Holding    == Sending \cup Recording \cup HeldManual \cup Releasing
Claiming   == {"toMail", "toClick", "toPoll", "toRecord"}
Marking    == {"mark", "markFirst"}
Free       == {"idle", "decide", "rearm", "queue", "judge", "load", "move",
               "block", "retry", "pend"} \cup Claiming \cup Marking

Goals == {"none", "approve", "reject", "request", "reconfirm", "apply", "record", "move",
          "execute", "attempt", "digest"}

(***************************************************************************)
(* The type invariant; only an approved row carries an executedAt.         *)
(***************************************************************************)
TypeOK ==
    /\ kind \in [Cards -> {"email_send", "email", "site", "letter"}]
    /\ status \in [Cards -> {"absent", "pending", "approved", "rejected", "deleted"}]
    /\ age \in [Cards -> 0..2]
    /\ stamp \in [Cards -> {"none", "claimed", "completed"}]
    /\ \A c \in Cards : stamp[c] # "none" => status[c] = "approved"
    /\ stage \in {"draft", "submitted", "later", "rejected"}
    /\ truth \in BOOLEAN /\ manual \in Reasons
    /\ siteSubmittedAt \in BOOLEAN /\ transmittedAt \in BOOLEAN
    /\ pc \in [Executors -> Free \cup Holding]
    /\ goal \in [Executors -> Goals]
    /\ on \in [Executors -> Cards]
    /\ mailed \in [Cards -> 0..MaxSends] /\ clicked \in [Cards -> 0..MaxSends]
    /\ receipt \in BOOLEAN
    /\ faults \in 0..MaxFaults
    /\ interrupted \subseteq Cards
    /\ reopened \subseteq Cards
    /\ unmarked \in BOOLEAN

Init ==
    /\ kind = [c \in Cards |-> "email"]
    /\ status = [c \in Cards |-> "absent"]
    /\ age = [c \in Cards |-> 0]
    /\ stamp = [c \in Cards |-> "none"]
    /\ stage = "draft" /\ truth = FALSE /\ manual = "none"
    /\ siteSubmittedAt = FALSE /\ transmittedAt = FALSE
    /\ pc = [p \in Executors |-> "idle"]
    /\ goal = [p \in Executors |-> "none"]
    /\ on = [p \in Executors |-> 1]
    /\ mailed = [c \in Cards |-> 0] /\ clicked = [c \in Cards |-> 0]
    /\ receipt = FALSE
    /\ faults = 0
    /\ interrupted = {}
    /\ reopened = {}
    /\ unmarked = FALSE

At(p, step) == pc[p] = step

\* The next step; a handler that returns forgets its card.
Go(p, step) ==
    /\ pc' = [pc EXCEPT ![p] = step]
    /\ goal' = [goal EXCEPT ![p] = IF step = "idle" THEN "none" ELSE @]
    /\ on' = [on EXCEPT ![p] = IF step = "idle" THEN 1 ELSE @]

\* A handler g begins, with card c in hand.
Begin(p, g, c, step) ==
    /\ At(p, "idle")
    /\ pc' = [pc EXCEPT ![p] = step]
    /\ goal' = [goal EXCEPT ![p] = g]
    /\ on' = [on EXCEPT ![p] = c]

Fault(f) == f \in Faults /\ faults < MaxFaults /\ faults' = faults + 1

\* A message left under card c, and its claim is about to be given back.
Reopen(c) == reopened' = reopened \cup {c}

(***************************************************************************)
(* ApprovalRepository.create: a pending card of the same kind is refreshed *)
(* (its payload is not modelled), otherwise a card is inserted.            *)
(***************************************************************************)
PendingOf(k) == {c \in Cards : status[c] = "pending" /\ kind[c] = k}

Insert(c, k) ==
    /\ k = "email_send" \/ PendingOf(k) = {}
    /\ status[c] = "absent"
    /\ \A d \in Cards : d < c => status[d] # "absent"
    /\ kind' = [kind EXCEPT ![c] = k]
    /\ status' = [status EXCEPT ![c] = "pending"]
    /\ UNCHANGED <<age, stamp>>

Refresh(c, k) == k # "email_send" /\ c \in PendingOf(k) /\ UNCHANGED cardVars

Create(c, k) == Insert(c, k) \/ Refresh(c, k)

\* An agent, or POST /approvals, raises a card for a human.
Raise(c, k) ==
    /\ Insert(c, k)
    /\ UNCHANGED <<appVars, procVars, worldVars, faults, histVars>>

(***************************************************************************)
(* Handlers that decide a card.                                            *)
(***************************************************************************)
\* POST /approvals/{id}/approve and /reject read the card; the decision is a later
\* compare-and-set.
ReadToDecide(p, c, g) ==
    /\ status[c] = "pending" /\ age[c] = 0
    /\ Begin(p, g, c, "decide")
    /\ UNCHANGED <<cardVars, appVars, worldVars, faults, histVars>>

\* POST /applications/{id}/request-submission: the click raises and approves a card.
RequestSubmission(p, c, k) ==
    /\ stage = "draft" /\ ~transmittedAt /\ manual = "none"
    /\ k \in Channels \ {"none"}
    /\ Create(c, k)
    /\ Begin(p, "request", c, "decide")
    /\ UNCHANGED <<appVars, worldVars, faults, histVars>>

\* SubmissionAgent with auto-apply on grants the card it queued.
AgentGrants(p, c, k) ==
    /\ AutoApply
    /\ stage \in {"draft", "submitted"} /\ ~transmittedAt
    /\ manual \in Retryable \cup {"none"}
    /\ k \in Channels \ {"none"}
    /\ Create(c, k)
    /\ Begin(p, "request", c, "decide")
    /\ UNCHANGED <<appVars, worldVars, faults, histVars>>

\* POST /applications/{id}/reconfirm-submission: a card like the newest one.
Reconfirm(p, c) ==
    /\ manual = "approval_expired"
    /\ \E d \in Cards :
         /\ status[d] \notin {"absent", "deleted"} /\ kind[d] # "email_send"
         /\ \A e \in Cards : e > d /\ kind[e] # "email_send" => status[e] \in {"absent", "deleted"}
         /\ Create(c, kind[d])
    /\ Begin(p, "reconfirm", c, "decide")
    /\ UNCHANGED <<appVars, worldVars, faults, histVars>>

\* auto_execute_notification_digest approves and sends the digest it has just queued.
Digest(p, c) ==
    /\ kind[c] = "email_send" /\ status[c] = "pending" /\ age[c] = 0
    /\ Begin(p, "digest", c, "decide")
    /\ UNCHANGED <<cardVars, appVars, worldVars, faults, histVars>>

\* The compare-and-set of _resolve.
Resolve(p, c) ==
    /\ status[c] = "pending"
    /\ status' = [status EXCEPT ![c] = IF goal[p] = "reject" THEN "rejected" ELSE "approved"]
    /\ UNCHANGED <<kind, age, stamp>>

\* _sync_application moves a draft, but a site card promises nothing when approved.
Promotes(p, c) == goal[p] # "reject" /\ kind[c] \in {"email", "letter"} /\ stage = "draft"
Closes(p, c)   == goal[p] = "reject" /\ kind[c] # "email_send" /\ stage = "draft"

\* What the handler that decided does next.
AfterDecision(p) ==
    IF goal[p] \in {"apply", "digest"} THEN "toMail"
    ELSE IF goal[p] = "reconfirm" THEN "rearm" ELSE "idle"

\* Mutant: the promoted row gets no marker.
PromotionUnmarked(p) == stage' = "submitted" /\ Go(p, AfterDecision(p))

Promotion(p) == stage' = "submitted" /\ Go(p, "mark")

\* ApprovalRepository._resolve, whatever handler called it.
Decide(p) ==
    LET c == on[p] IN
    /\ At(p, "decide")
    /\ \/ /\ Resolve(p, c)
          /\ \/ Promotes(p, c) /\ Promotion(p)
             \/ Closes(p, c) /\ stage' = "rejected" /\ Go(p, "idle")
             \/ ~Promotes(p, c) /\ ~Closes(p, c) /\ UNCHANGED stage /\ Go(p, AfterDecision(p))
       \/ status[c] # "pending" /\ Go(p, "idle") /\ UNCHANGED <<cardVars, stage>>
    /\ UNCHANGED <<truth, manual, siteSubmittedAt, transmittedAt, worldVars, faults, histVars>>

\* Mutant: the marker is written whatever evidence the row carries.
MarksAnyRow == truth' = TRUE

\* mark_recorded_not_transmitted: only a row without evidence.
MarksUnsent == truth' = (truth \/ ~transmittedAt)

AfterMark(p) == IF At(p, "markFirst") THEN "queue" ELSE AfterDecision(p)

\* After the transaction that promoted the application.
Mark(p) ==
    /\ pc[p] \in Marking
    /\ MarksUnsent
    /\ Go(p, AfterMark(p))
    /\ UNCHANGED <<cardVars, stage, manual, siteSubmittedAt, transmittedAt, worldVars,
                   faults, histVars>>

\* The end of reconfirm_submission.
Rearm(p) ==
    /\ At(p, "rearm")
    /\ manual' = IF manual = "approval_expired" THEN "none" ELSE manual
    /\ Go(p, "idle")
    /\ UNCHANGED <<cardVars, stage, truth, siteSubmittedAt, transmittedAt, worldVars,
                   faults, histVars>>

(***************************************************************************)
(* The tracker: what the user says about the application.                  *)
(***************************************************************************)
\* POST /applications/{id}/submit: "I applied there myself".
RecordSubmission(p) ==
    /\ stage = "draft"
    /\ stage' = "submitted"
    /\ Begin(p, "record", 1, "mark")
    /\ UNCHANGED <<cardVars, truth, manual, siteSubmittedAt, transmittedAt, worldVars,
                   faults, histVars>>

\* move_application_stage reads the row, then writes the column the card was dragged to.
ReadToMove(p) ==
    /\ stage # "rejected" /\ Columns # {}
    /\ Begin(p, "move", 1, "move")
    /\ UNCHANGED <<cardVars, appVars, worldVars, faults, histVars>>

Move(p) ==
    /\ At(p, "move")
    /\ stage' \in Columns
    /\ unmarked' = (unmarked \/ (stage \in {"draft", "rejected"} /\ stage' # "draft"))
    /\ Go(p, "idle")
    /\ UNCHANGED <<cardVars, truth, manual, siteSubmittedAt, transmittedAt, worldVars,
                   faults, interrupted, reopened>>

\* promote_application_to_interview, from the mailbox.
InterviewInvite ==
    /\ stage = "submitted"
    /\ stage' = "later"
    /\ UNCHANGED <<cardVars, truth, manual, siteSubmittedAt, transmittedAt, procVars,
                   worldVars, faults, histVars>>

(***************************************************************************)
(* POST /jobs/{id}/apply: bookkeeping, then a card, then perhaps a send.   *)
(***************************************************************************)
Apply(p) ==
    /\ \/ stage = "draft" /\ stage' = "submitted" /\ Begin(p, "apply", 1, "markFirst")
       \/ stage # "draft" /\ UNCHANGED stage /\ Begin(p, "apply", 1, "queue")
    /\ UNCHANGED <<cardVars, truth, manual, siteSubmittedAt, transmittedAt, worldVars,
                   faults, histVars>>

\* _queue_or_report_submission and the gates of maybe_autonomous_transmit.  A posting
\* without an address queues nothing; NumCards bounds the cards.
Queue(p) ==
    /\ At(p, "queue")
    /\ \/ \E c \in Cards :
            /\ "email" \in Kinds \cap Channels
            /\ Create(c, "email")
            /\ \/ Go(p, "idle")
               \/ /\ AutoApply /\ ~ApprovalGate
                  /\ pc' = [pc EXCEPT ![p] = "decide"]
                  /\ on' = [on EXCEPT ![p] = c]
                  /\ UNCHANGED goal
       \/ /\ "email" \notin Kinds \cap Channels \/ \A c \in Cards : status[c] # "absent"
          /\ Go(p, "idle") /\ UNCHANGED cardVars
    /\ UNCHANGED <<appVars, worldVars, faults, histVars>>

(***************************************************************************)
(* The two ways to an execution.                                           *)
(***************************************************************************)
\* assert_action_allowed: approved, and younger than EXPIRY_HOURS.
ActionAllowed(c) == status[c] = "approved" /\ age[c] = 0

\* POST /approvals/{id}/execute.  A site card goes to the executor's own claim.
Execute(p, c) ==
    /\ ActionAllowed(c)
    /\ \/ kind[c] = "site" /\ Begin(p, "attempt", c, "load")
       \/ kind[c] \in {"email", "email_send"} /\ Begin(p, "execute", c, "toMail")
       \/ kind[c] = "letter" /\ Begin(p, "execute", c, "toRecord")
    /\ UNCHANGED <<cardVars, appVars, worldVars, faults, histVars>>

\* _PENDING_SELECT: the newest approved card of an unfinished application.
Newest(c) ==
    /\ status[c] = "approved" /\ kind[c] # "email_send"
    /\ \A d \in Cards : d > c => status[d] # "approved" \/ kind[d] = "email_send"

SweepSelect(p, c) ==
    /\ Newest(c) /\ ~transmittedAt /\ manual \in Retryable \cup {"none"}
    /\ Begin(p, "attempt", c, IF siteSubmittedAt THEN "load" ELSE "judge")
    /\ UNCHANGED <<cardVars, appVars, worldVars, faults, histVars>>

TooOld(c) == age[c] = 2

\* _expire_stale_approval, the match threshold, or on to the attempt.
Judge(p) ==
    /\ At(p, "judge")
    /\ \/ TooOld(on[p]) /\ manual' = "approval_expired" /\ Go(p, "idle")
       \/ ~TooOld(on[p]) /\ UNCHANGED manual /\ \E step \in {"idle", "load"} : Go(p, step)
    /\ UNCHANGED <<cardVars, stage, truth, siteSubmittedAt, transmittedAt, worldVars,
                   faults, histVars>>

\* _attempt_transmission reads the application and resolves its channel.
Load(p) ==
    /\ At(p, "load")
    /\ \/ siteSubmittedAt /\ ~transmittedAt /\ Go(p, "toPoll")
       \/ /\ ~siteSubmittedAt \/ transmittedAt
          /\ \/ "email" \in Channels /\ Go(p, "toMail")
             \/ "site" \in Channels /\ Go(p, "toClick")
             \/ "none" \in Channels /\ Go(p, "block")
    /\ UNCHANGED <<cardVars, appVars, worldVars, faults, histVars>>

\* What the winner of a claim does with it; a letter has nothing to send.
AfterClaim(step) ==
    IF step = "toMail" THEN "mail"
    ELSE IF step = "toClick" THEN "click"
    ELSE IF step = "toPoll" THEN "poll" ELSE "release"

\* Mutant: the claim does not look at executedAt.
ClaimsAgain(c) ==
    /\ status[c] = "approved"
    /\ stamp' = [stamp EXCEPT ![c] = "claimed"]

\* Mutant: the claim takes over a card that was claimed and never completed.
ClaimsUnfinished(c) ==
    /\ status[c] = "approved" /\ stamp[c] # "completed"
    /\ stamp' = [stamp EXCEPT ![c] = "claimed"]

\* claim_execution.
ClaimExecution(c) ==
    /\ status[c] = "approved" /\ stamp[c] = "none"
    /\ stamp' = [stamp EXCEPT ![c] = "claimed"]

Claim(p) ==
    /\ pc[p] \in Claiming
    /\ \/ ClaimExecution(on[p]) /\ Go(p, AfterClaim(pc[p]))
       \/ /\ ~(status[on[p]] = "approved" /\ stamp[on[p]] = "none")
          /\ Go(p, "idle") /\ UNCHANGED stamp
    /\ UNCHANGED <<kind, status, age, appVars, worldVars, faults, histVars>>

(***************************************************************************)
(* By e-mail: _execute_email_send and transmit_application.                *)
(***************************************************************************)
Mailed(c) == mailed[c] < MaxSends /\ mailed' = [mailed EXCEPT ![c] = @ + 1]

\* A refusal sends nothing; the sweep also records it as a manual step.
MailRefused(p) ==
    /\ At(p, "mail")
    /\ \/ goal[p] = "attempt" /\ \E step \in {"releaseBlock", "release"} : Go(p, step)
       \/ goal[p] # "attempt" /\ Go(p, "release")
    /\ UNCHANGED <<cardVars, appVars, worldVars, faults, histVars>>

\* Rendering the attachments raises: an exception transmit_application's callers do
\* not expect.  Only those that catch Exception release the claim.
Catches(p) == goal[p] \in {"execute", "digest"}

DocumentFails(p) ==
    /\ At(p, "mail")
    /\ Fault("document")
    /\ \/ Catches(p) /\ Go(p, "release") /\ UNCHANGED interrupted
       \/ ~Catches(p) /\ Go(p, "idle") /\ interrupted' = interrupted \cup {on[p]}
    /\ UNCHANGED <<cardVars, appVars, worldVars, reopened, unmarked>>

MailSent(p) ==
    /\ At(p, "mail")
    /\ Mailed(on[p])
    /\ \/ kind[on[p]] = "email_send" /\ Go(p, "complete")
       \/ kind[on[p]] # "email_send" /\ Go(p, "recordMail")
    /\ UNCHANGED <<cardVars, appVars, clicked, receipt, faults, histVars>>

\* Gmail took the message, its answer was lost: GmailError, "no email was sent".
MailReplyLost(p) ==
    /\ At(p, "mail")
    /\ Fault("gmail")
    /\ Mailed(on[p])
    /\ Reopen(on[p])
    /\ Go(p, "release")
    /\ UNCHANGED <<cardVars, appVars, clicked, receipt, interrupted, unmarked>>

(***************************************************************************)
(* On the employer's site: execute_site_application.                       *)
(***************************************************************************)
\* Nothing was clicked: an obstacle (recorded, then released), a transport failure, or
\* a Submit control that could not be used (released, then recorded).
ClickRefused(p) ==
    /\ At(p, "click")
    /\ \E step \in {"blockHeld", "retryHeld", "release", "releaseBlock", "releaseRetry"} : Go(p, step)
    /\ UNCHANGED <<cardVars, appVars, worldVars, faults, histVars>>

Click(p) ==
    /\ At(p, "click")
    /\ clicked[on[p]] < MaxSends
    /\ clicked' = [clicked EXCEPT ![on[p]] = @ + 1]
    /\ Go(p, "clicked")
    /\ UNCHANGED <<cardVars, appVars, mailed, receipt, faults, histVars>>

\* classify_post_submit: confirmed, or rejected or unconfirmed.
Classify(p) ==
    /\ At(p, "clicked")
    /\ \E step \in {"pollNew", "blockHeld"} : Go(p, step)
    /\ UNCHANGED <<cardVars, appVars, worldVars, faults, histVars>>

\* The browser fails after the click: "browser_failed ... nothing was submitted".
BrowserLost(p) ==
    /\ At(p, "clicked")
    /\ Fault("browser")
    /\ Go(p, "release")
    /\ UNCHANGED <<cardVars, appVars, worldVars, histVars>>

\* Mutant: the confirmation page counts as the receipt.
ReceiptAssumed == TRUE

ReceiptFound == receipt

\* poll_application_receipt, after a click or in finish_pending_receipt, which release
\* and record in opposite orders.
Poll(p) ==
    /\ pc[p] \in {"poll", "pollNew"}
    /\ \/ ReceiptFound /\ Go(p, "recordSite")
       \/ ~receipt /\ At(p, "poll") /\ Go(p, "releasePend")
       \/ ~receipt /\ At(p, "pollNew") /\ Go(p, "pendHeld")
    /\ UNCHANGED <<cardVars, appVars, worldVars, faults, histVars>>

\* The mailbox cannot be read (ReceiptMailboxUnavailable), or the poll raises.
PollFails(p) ==
    /\ pc[p] \in {"poll", "pollNew"}
    /\ Fault("mailbox")
    /\ \/ At(p, "poll") /\ \E step \in {"releasePend", "release"} : Go(p, step) /\ UNCHANGED interrupted
       \/ At(p, "pollNew") /\ Go(p, "pendHeld") /\ UNCHANGED interrupted
       \/ At(p, "pollNew") /\ Go(p, "idle") /\ interrupted' = interrupted \cup {on[p]}
    /\ UNCHANGED <<cardVars, appVars, worldVars, reopened, unmarked>>

(***************************************************************************)
(* The writes that end an attempt.                                         *)
(***************************************************************************)
Transmitted ==
    /\ transmittedAt' = TRUE
    /\ truth' = FALSE
    /\ stage' = IF stage = "draft" THEN "submitted" ELSE stage

\* record_transmission leaves the manual step alone.
RecordMail(p) ==
    /\ At(p, "recordMail")
    /\ Transmitted
    /\ Go(p, "complete")
    /\ UNCHANGED <<cardVars, manual, siteSubmittedAt, worldVars, faults, histVars>>

\* _record_site_transmission clears it.
RecordSite(p) ==
    /\ At(p, "recordSite")
    /\ Transmitted
    /\ manual' = "none"
    /\ siteSubmittedAt' = TRUE
    /\ Go(p, "complete")
    /\ UNCHANGED <<cardVars, worldVars, faults, histVars>>

\* complete_execution: a claimed row that has no completion yet.
Complete(p) ==
    /\ At(p, "complete")
    /\ stamp' = [stamp EXCEPT ![on[p]] = IF @ = "claimed" THEN "completed" ELSE @]
    /\ Go(p, "idle")
    /\ UNCHANGED <<kind, status, age, appVars, worldVars, faults, histVars>>

\* record_manual_step, unconditional, before or after the release.
RecordManual(p) ==
    /\ \/ At(p, "blockHeld") /\ manual' = "needs_user" /\ Go(p, "release")
       \/ At(p, "retryHeld") /\ manual' = "retry" /\ Go(p, "release")
       \/ At(p, "block") /\ manual' = "needs_user" /\ Go(p, "idle")
       \/ At(p, "retry") /\ manual' = "retry" /\ Go(p, "idle")
    /\ UNCHANGED <<cardVars, stage, truth, siteSubmittedAt, transmittedAt, worldVars,
                   faults, histVars>>

\* _record_site_pending_receipt, only WHERE "transmittedAt" IS NULL.
RecordPending(p) ==
    /\ \/ At(p, "pendHeld") /\ Go(p, "release")
       \/ At(p, "pend") /\ Go(p, "idle")
    /\ siteSubmittedAt' = (siteSubmittedAt \/ ~transmittedAt)
    /\ manual' = IF transmittedAt THEN manual ELSE "awaiting_receipt"
    /\ UNCHANGED <<cardVars, stage, truth, transmittedAt, worldVars, faults, histVars>>

AfterRelease(step) ==
    IF step = "releaseBlock" THEN "block"
    ELSE IF step = "releaseRetry" THEN "retry"
    ELSE IF step = "releasePend" THEN "pend" ELSE "idle"

\* release_execution: no condition but the id.
Release(p) ==
    /\ pc[p] \in Releasing
    /\ stamp' = [stamp EXCEPT ![on[p]] = "none"]
    /\ Go(p, AfterRelease(pc[p]))
    /\ UNCHANGED <<kind, status, age, appVars, worldVars, faults, histVars>>

(***************************************************************************)
(* Failures.                                                               *)
(***************************************************************************)
\* A write of an executor that holds a claim raises.  The execute endpoint releases on
\* any exception, a raised complete_execution included; the others leave the claim.
WriteFails(p) ==
    LET c == on[p] IN
    /\ pc[p] \in Recording \cup HeldManual \cup Releasing
    /\ Fault("database")
    /\ \/ /\ goal[p] = "execute" /\ pc[p] \in Recording
          /\ Reopen(c) /\ Go(p, "release")
          /\ UNCHANGED interrupted
       \/ /\ goal[p] = "execute" /\ kind[c] = "letter" /\ At(p, "release")
          /\ Go(p, "releaseAgain")
          /\ UNCHANGED <<interrupted, reopened>>
       \/ /\ goal[p] # "execute" \/ (pc[p] \in Releasing /\ ~(kind[c] = "letter" /\ At(p, "release")))
          /\ interrupted' = interrupted \cup {c} /\ Go(p, "idle")
          /\ UNCHANGED reopened
    /\ UNCHANGED <<cardVars, appVars, worldVars, unmarked>>

\* The process dies; a new one starts idle.  Nothing releases what it had claimed.
Dies(p) ==
    /\ ~At(p, "idle")
    /\ Fault("process")
    /\ interrupted' = IF pc[p] \in Holding THEN interrupted \cup {on[p]} ELSE interrupted
    /\ unmarked' = (unmarked \/ pc[p] \in Marking)
    /\ Go(p, "idle")
    /\ UNCHANGED <<cardVars, appVars, worldVars, reopened>>

\* mark_recorded_not_transmitted swallows its own failure.
MarkFails(p) ==
    /\ pc[p] \in Marking
    /\ Fault("database")
    /\ unmarked' = TRUE
    /\ Go(p, AfterMark(p))
    /\ UNCHANGED <<cardVars, appVars, worldVars, interrupted, reopened>>

(***************************************************************************)
(* The clock, the mailbox and the user.                                    *)
(***************************************************************************)
\* age 1: past EXPIRY_HOURS; age 2: approved and past AETHER_APPROVAL_MAX_AGE_DAYS.
Elapse(c) ==
    /\ \/ status[c] = "pending" /\ age[c] = 0
       \/ status[c] = "approved" /\ age[c] < 2
    /\ age' = [age EXCEPT ![c] = @ + 1]
    /\ UNCHANGED <<kind, status, stamp, appVars, procVars, worldVars, faults, histVars>>

\* DELETE /approvals/{id} and purge_expired: a resolved or an expired pending row.
Delete(c) ==
    /\ \/ status[c] \in {"approved", "rejected"}
       \/ status[c] = "pending" /\ age[c] = 1
    /\ status' = [status EXCEPT ![c] = "deleted"]
    /\ stamp' = [stamp EXCEPT ![c] = "none"]
    /\ age' = [age EXCEPT ![c] = 0]
    /\ UNCHANGED <<kind, appVars, procVars, worldVars, faults, histVars>>

\* POST /applications/{id}/answer-questions with nothing left to answer.
Answer ==
    /\ manual # "none"
    /\ manual' = "none"
    /\ UNCHANGED <<cardVars, stage, truth, siteSubmittedAt, transmittedAt, procVars,
                   worldVars, faults, histVars>>

\* The employer's acknowledgement of a site submission.
ReceiptArrives ==
    /\ ~receipt /\ \E c \in Cards : clicked[c] > 0
    /\ receipt' = TRUE
    /\ UNCHANGED <<cardVars, appVars, procVars, mailed, clicked, faults, histVars>>

Step(p) ==
    \/ Decide(p) \/ Mark(p) \/ Rearm(p) \/ Move(p) \/ Queue(p) \/ Judge(p) \/ Load(p) \/ Claim(p)
    \/ MailRefused(p) \/ MailSent(p) \/ ClickRefused(p) \/ Click(p) \/ Classify(p) \/ Poll(p)
    \/ RecordMail(p) \/ RecordSite(p) \/ Complete(p)
    \/ RecordManual(p) \/ RecordPending(p) \/ Release(p)

Fails(p) ==
    \/ MailReplyLost(p) \/ DocumentFails(p) \/ BrowserLost(p) \/ PollFails(p)
    \/ WriteFails(p) \/ MarkFails(p) \/ Dies(p)

Handle(p) ==
    \/ Apply(p) \/ RecordSubmission(p) \/ ReadToMove(p)
    \/ \E c \in Cards :
         \/ ReadToDecide(p, c, "approve") \/ ReadToDecide(p, c, "reject")
         \/ Reconfirm(p, c) \/ Digest(p, c) \/ Execute(p, c)
         \/ \E k \in Kinds : RequestSubmission(p, c, k) \/ AgentGrants(p, c, k)

World ==
    \/ \E c \in Cards : Elapse(c) \/ Delete(c) \/ \E k \in Kinds : Raise(c, k)
    \/ Answer \/ ReceiptArrives \/ InterviewInvite

\* Everybody may rest; a busy executor without a step is a deadlock.
Resting == (\A p \in Executors : At(p, "idle")) /\ UNCHANGED vars

Next ==
    \/ \E p \in Executors : Step(p) \/ Fails(p)
    \/ \E p \in Requests : Handle(p)
    \/ \E p \in Sweepers, c \in Cards : SweepSelect(p, c)
    \/ World \/ Resting

Spec == Init /\ [][Next]_vars

(***************************************************************************)
(* Safety.                                                                 *)
(***************************************************************************)
Holds(p, c) == pc[p] \in Holding /\ on[p] = c

\* A card is executed by one actor at a time, whatever the endpoint, the sweep and the
\* autonomous path do, although release_execution asks nobody whose claim it releases.
OneExecutor == \A c \in Cards : \A p, q \in Executors : Holds(p, c) /\ Holds(q, c) => p = q

\* "Deliberately does not release": whoever died with a claim, or abandoned it on an
\* exception, nobody executes that card again.
InterruptedStaysClaimed ==
    \A c \in interrupted :
        /\ status[c] = "deleted" \/ stamp[c] = "claimed"
        /\ \A p \in Executors : ~Holds(p, c)

\* One approval sends one message, through crashes and races; the exceptions are a lost
\* Gmail answer and an endpoint that releases because recording the send failed.
MailedOnce == \A c \in Cards : c \notin reopened => mailed[c] <= 1

\* What was sent had been approved and was never rejected.
SentWasApproved ==
    \A c \in Cards : mailed[c] + clicked[c] > 0 => status[c] \in {"approved", "deleted"}

\* transmittedAt is evidence: an e-mail left for this application, or the Submit
\* control was used and the employer's receipt came back.
TransmissionHasEvidence ==
    transmittedAt =>
        \/ \E c \in Cards : kind[c] # "email_send" /\ mailed[c] > 0
        \/ receipt /\ \E c \in Cards : clicked[c] > 0

\* A completed card did what it was approved for.
CompletedIsProof ==
    \A c \in Cards : stamp[c] = "completed" =>
        IF kind[c] = "email_send" THEN mailed[c] > 0 ELSE transmittedAt

\* The marker "recorded, not transmitted" and the evidence exclude each other, although
\* the marker is written by a later transaction of another handler.
MarkerExcludesEvidence == ~(truth /\ transmittedAt)

\* A row that claims a submission carries the evidence or the marker, or the handler that
\* owes the marker is at it, whatever the decision, the Apply button, the tracker and a
\* send do to it at once.  The exceptions are a marker whose write failed and a card
\* dragged out of "draft".
SubmittedIsExplained ==
    stage \in {"submitted", "later"} =>
        transmittedAt \/ truth \/ unmarked \/ \E p \in Executors : pc[p] \in Marking

\* "Does not submit an approval older than ... days without a fresh confirmation": once
\* an approval is too old nobody sets out to send under it, whatever brings the row back
\* (a deleted newer card, an answer, a reconfirmation).  Who had set out before may
\* finish, and a site submission that awaits its receipt is still polled for.
SetOut(c) == \E p \in Executors :
    /\ on[p] = c
    /\ \/ pc[p] \in {"load"} \cup Claiming \cup Sending
       \/ At(p, "mark") /\ AfterDecision(p) = "toMail"
StaleIsNotTakenUp ==
    [][~siteSubmittedAt => \A c \in Cards : age[c] = 2 /\ ~SetOut(c) => ~SetOut(c)']_vars

(***************************************************************************)
(* The abstract promise of a card, where no claim is given back on a send. *)
(***************************************************************************)
Hand(c) ==
    IF \E p \in Executors : Holds(p, c) THEN "taken"
    ELSE IF stamp[c] # "none" THEN "kept" ELSE "free"
Hands == [c \in Cards |-> Hand(c)]

Approval == INSTANCE ApprovalCards WITH word <- status, hand <- Hands, sent <- mailed

ImplementsApproval == [](reopened = {}) => Approval!Spec

(***************************************************************************)
(* Liveness: sweeps are scheduled, a started handler runs to its end.      *)
(***************************************************************************)
FairSpec ==
    /\ Spec
    /\ \A p \in Executors : WF_vars(Step(p))
    /\ \A p \in Sweepers : WF_vars(\E c \in Cards : SweepSelect(p, c))

\* A submission whose receipt is in the mailbox ends up transmitted, unless the row has
\* left the sweep's queue: an obstacle only the user can clear, no approved card, or a
\* newest card whose execution was interrupted or completed.
InQueue(c) == Newest(c) /\ stamp[c] # "completed" /\ c \notin interrupted
ReceiptIsRecorded ==
    siteSubmittedAt /\ receipt ~>
        \/ transmittedAt
        \/ manual \in {"needs_user", "approval_expired"}
        \/ ~ \E c \in Cards : InQueue(c)

(***************************************************************************)
(* Claims the code does not keep; one violation run for each.              *)
(***************************************************************************)
\* routers/jobs.py: with the approval gate off, "the single-shot executedAt claim still
\* makes a double-send impossible".
DoubleSendImpossible ==
    [][transmittedAt => \A p \in Executors : goal[p] = "apply" => ~MailSent(p)]_vars

\* services/apply_executor.py: once awaiting its receipt, an application's "Submit control
\* is never clicked a second time".
SubmitNeverClickedAgain == [][siteSubmittedAt => clicked' = clicked]_vars
=============================================================================
