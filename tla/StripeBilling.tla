---------------------------- MODULE StripeBilling ----------------------------
(***************************************************************************)
(* The local copy of a customer's Stripe subscription.                     *)
(*                                                                         *)
(* Stripe owns the subscriptions and tells of their changes by events that *)
(* it delivers at least once and in no particular order                    *)
(* (routers/billing.py, stripe_webhook).  The server keeps one             *)
(* Subscription row and one UsageQuota row per user.  Besides the webhook  *)
(* the rows are written by the checkout endpoint, which switches the price *)
(* of a subscription in place, and by the administrator's handlers         *)
(* (routers/admin.py), all of which call Stripe first and write afterwards *)
(* in a transaction of their own.                                          *)
(*                                                                         *)
(* One user.  The user is found from the metadata of the subscription, or  *)
(* from the customer, which the checkout stores before it opens a session: *)
(* the lookups always succeed here.  Periods, intervals, amounts and the   *)
(* mails sent after the commit are left out.                               *)
(***************************************************************************)
EXTENDS Naturals, FiniteSets, Sequences, SequencesExt

CONSTANTS Subs,       \* subscriptions: each is a Checkout session until it is paid
          Plans,      \* the plans on sale
          Free,       \* the plan of a user who pays nothing
          None,
          Workers,    \* requests that the server handles at a time
          MaxEvents   \* Stripe reports at most this many events

ASSUME BillingAssumption == /\ Free \notin Plans
                            /\ None \notin Subs \cup Plans \cup {Free}
                            /\ MaxEvents \in Nat

VARIABLES stripe,    \* stripe[s]: the truth at Stripe
          events,    \* the events of the account, oldest first; an event's place is its id
          row,       \* the Subscription row
          ceiling,   \* the plans whose runs and whose spend UsageQuota allows, and
                     \* (observation) whether the runs are those of a grant
          override,  \* UserEntitlementOverride: the plan granted, or None
          seen,      \* StripeEvent: the ids of the events already processed
          task,      \* task[w]: what the handler w has asked of Stripe and not yet written
          slips      \* observation: what has happened that no handler defends against

vars == <<stripe, events, row, ceiling, override, seen, task, slips>>

(* The slips:                                                              *)
(*   overtaken  an event was processed after a later one                   *)
(*   refused    Stripe refused a cancellation that the server asked for    *)
(*   raced      the row was written while another handler was between its  *)
(*              call to Stripe and its write                               *)
(*   doubled    a second session was paid while a subscription was live    *)
(*   unread     a reconciliation could not read a subscription that is live *)
Slips == {"overtaken", "refused", "raced", "doubled", "unread"}

Slip(name, happened) == slips' = IF happened THEN slips \cup {name} ELSE slips

\* The statuses under which Stripe still bills, and the server still serves.
Billable == {"active", "past_due"}

Live(s) == s \in Subs /\ stripe[s].status \in Billable

Idle == [kind |-> "idle", sub |-> None, plan |-> None, event |-> 0]
Task(kind, sub, plan, event) ==
    [kind |-> kind, sub |-> sub, plan |-> plan, event |-> event]

AllPlans == Plans \cup {Free}

\* _plan_limits: the two limits of a plan, which are written together.
Limits(plan) == [runs |-> plan, spend |-> plan, granted |-> FALSE]
Granted(plan) == [Limits(plan) EXCEPT !.granted = TRUE]

EventTypes == {"checkout", "updated", "deleted", "failed", "paid", "refunded"}

Event == [type: EventTypes, sub: Subs, plan: Plans, status: Billable \cup {"canceled"}]

TypeOK ==
    /\ stripe \in [Subs -> [status: Billable \cup {"none", "open", "canceled"},
                            plan: Plans \cup {None}, refunded: BOOLEAN]]
    /\ events \in Seq(Event) /\ Len(events) <= MaxEvents
    /\ row \in [plan: AllPlans, status: Billable \cup {"canceled"},
                sub: Subs \cup {None}]
    /\ ceiling \in [runs: AllPlans, spend: AllPlans \cup {None}, granted: BOOLEAN]
    /\ override \in Plans \cup {None}
    /\ seen \subseteq DOMAIN events
    /\ task \in [Workers -> [kind: {"idle", "switch", "sync", "refunded", "revoke", "clear"},
                             sub: Subs \cup {None}, plan: Plans \cup {None},
                             event: 0..MaxEvents]]
    /\ slips \subseteq Slips

\* ensure_user_billing: a free row and its quota exist from the first access.
Init ==
    /\ stripe = [s \in Subs |-> [status |-> "none", plan |-> None, refunded |-> FALSE]]
    /\ events = <<>>
    /\ row = [plan |-> Free, status |-> "active", sub |-> None]
    /\ ceiling = Limits(Free)
    /\ override = None
    /\ seen = {}
    /\ task = [w \in Workers |-> Idle]
    /\ slips = {}

-----------------------------------------------------------------------------
(* Stripe. *)

\* The event of the given type about s as it is after the change.
About(type, s, sub) ==
    [type |-> type, sub |-> s, plan |-> sub.plan, status |-> sub.status]

\* Stripe changes s into sub and reports it by events of these types.
Changes(s, sub, types) ==
    /\ Len(events) + Len(types) <= MaxEvents
    /\ stripe' = [stripe EXCEPT ![s] = sub]
    /\ events' = events \o [i \in DOMAIN types |-> About(types[i], s, sub)]

LocalUnchanged == UNCHANGED <<row, ceiling, override, seen, task>>

Refunds(s) ==
    /\ stripe[s].status \in Billable \cup {"canceled"}
    /\ ~stripe[s].refunded
    /\ Changes(s, [stripe[s] EXCEPT !.refunded = TRUE], <<"refunded">>)

\* The customer pays an open session: a subscription starts.
Pay(s) ==
    /\ stripe[s].status = "open"
    /\ Changes(s, [stripe[s] EXCEPT !.status = "active"], <<"checkout", "paid">>)
    /\ Slip("doubled", \E t \in Subs : Live(t))
    /\ LocalUnchanged

\* A renewal fails; a retry of the charge succeeds; the customer changes the
\* plan in Stripe's own portal; the subscription ends; its charge is refunded
\* in full at Stripe's dashboard, or disputed (the handlers of the two do the same).
Evolves(s) ==
    /\ \/ /\ stripe[s].status = "active"
          /\ Changes(s, [stripe[s] EXCEPT !.status = "past_due"], <<"failed", "updated">>)
       \/ /\ stripe[s].status = "past_due"
          /\ Changes(s, [stripe[s] EXCEPT !.status = "active"], <<"paid", "updated">>)
       \/ /\ Live(s)
          /\ \E p \in Plans \ {stripe[s].plan} :
                Changes(s, [stripe[s] EXCEPT !.plan = p], <<"updated">>)
       \/ /\ Live(s)
          /\ Changes(s, [stripe[s] EXCEPT !.status = "canceled"], <<"deleted">>)
       \/ Refunds(s)
    /\ UNCHANGED slips
    /\ LocalUnchanged

-----------------------------------------------------------------------------
(* The rows. *)

\* reapply_override_limits: the ceiling of a live grant, else the plan's own.
Ceiling(plan) == IF override = None THEN Limits(plan) ELSE Granted(override)

\* Mutant: the subscription is forgotten and the plan is not.
RevokedKeepsPlan == [row EXCEPT !.sub = None]

\* _revoke_to_free: the row it writes, after any call to Stripe.
Revoked == [plan |-> Free, status |-> "canceled", sub |-> None]

\* A transaction of the handler w writes the row, and records the event i as
\* processed (0: it processes none).
Commits(w, r, i) ==
    /\ row' = r
    /\ seen' = seen \cup ({i} \ {0})
    /\ slips' = slips \cup (IF \E v \in Workers \ {w} : task[v] # Idle THEN {"raced"} ELSE {})
                     \cup (IF i # 0 /\ \E j \in seen : j > i THEN {"overtaken"} ELSE {})

Unseen == DOMAIN events \ (seen \cup {task[w].event : w \in Workers})

\* Mutant: the id of the subscription that was paid is not stored.
CheckoutKeepsSub(e) == [row EXCEPT !.plan = e.plan, !.status = "active"]

\* checkout.session.completed
CheckoutCompleted(e) ==
    [plan |-> e.plan, status |-> "active", sub |-> e.sub]

\* customer.subscription.updated: the plan is that of the price, or of the
\* metadata when the price is none of the catalogue's.
SubscriptionUpdated(e) ==
    [plan |-> e.plan, status |-> e.status, sub |-> e.sub]

\* One delivery of an event that its handler processes without calling Stripe:
\* all in one transaction, so a handler that raises leaves no trace and Stripe
\* delivers the event again.
Deliver(w, i) ==
    LET e == events[i] IN
    /\ task[w] = Idle
    /\ i \in Unseen
    /\ \/ /\ e.type = "checkout"
          /\ Commits(w, CheckoutCompleted(e), i)
          /\ ceiling' = Ceiling(e.plan)
       \/ /\ e.type = "updated"
          /\ Commits(w, SubscriptionUpdated(e), i)
          /\ ceiling' = Limits(e.plan)
       \/ /\ e.type = "deleted"
          /\ Commits(w, Revoked, i)
          /\ ceiling' = Ceiling(Free)
       \/ /\ e.type = "failed"
          /\ Commits(w, [row EXCEPT !.status = "past_due"], i)
          /\ UNCHANGED ceiling
       \/ /\ e.type = "paid"
          /\ Commits(w, [row EXCEPT !.status = "active"], i)
          /\ UNCHANGED ceiling
    /\ UNCHANGED <<stripe, events, override, task>>

-----------------------------------------------------------------------------
(* Revocation: the webhook of a refund or dispute, and the administrator. *)

\* _revoke_to_free(cancel_stripe=True) reads the subscription that the row
\* names and cancels it; a failure of that call is swallowed.  The write comes
\* in Revoke, in the transaction that processes the event i.
CancelThenRevoke(w, i) ==
    /\ \/ /\ Live(row.sub)
          /\ Changes(row.sub, [stripe[row.sub] EXCEPT !.status = "canceled"], <<"deleted">>)
          /\ UNCHANGED slips
       \/ /\ Live(row.sub)
          /\ Slip("refused", TRUE)
          /\ UNCHANGED <<stripe, events>>
       \/ /\ ~Live(row.sub)
          /\ UNCHANGED <<stripe, events, slips>>
    /\ task' = [task EXCEPT ![w] = Task("revoke", row.sub, None, i)]
    /\ UNCHANGED <<row, ceiling, override, seen>>

\* Mutant: the event is acknowledged and nothing is revoked.
AcknowledgeRefund(w, i) ==
    /\ task[w] = Idle
    /\ i \in Unseen
    /\ events[i].type = "refunded"
    /\ Commits(w, row, i)
    /\ UNCHANGED <<stripe, events, ceiling, override, task>>

\* charge.refunded or charge.dispute.created is delivered.
DeliverRefund(w, i) ==
    /\ task[w] = Idle
    /\ i \in Unseen
    /\ events[i].type = "refunded"
    /\ CancelThenRevoke(w, i)

\* perform_admin_refund refunds a charge of the customer, and then revokes.
AdminRefund(w, s) ==
    /\ task[w] = Idle
    /\ Refunds(s)
    /\ task' = [task EXCEPT ![w] = Task("refunded", None, None, 0)]
    /\ UNCHANGED <<row, ceiling, override, seen, slips>>

\* perform_admin_cancel(at_period_end=False), and the rest of an admin refund.
AdminRevoke(w) ==
    /\ \/ task[w].kind = "refunded"
       \/ task[w] = Idle /\ row.sub # None
    /\ CancelThenRevoke(w, 0)

\* admin_reconcile_local_billing: Stripe shows no live subscription, so the
\* stale row is cleared, later and without asking again.  retrieve_customer
\* answers None also when the call to Stripe raises, and then no subscription
\* is looked for.
Reconcile(w) ==
    /\ task[w] = Idle
    /\ row.plan # Free \/ row.sub # None
    /\ Slip("unread", \E s \in Subs : Live(s))
    /\ task' = [task EXCEPT ![w] = Task("revoke", None, None, 0)]
    /\ UNCHANGED <<stripe, events, row, ceiling, override, seen>>

\* The transaction of a revocation commits, with the event that asked for it.
Revoke(w) ==
    /\ task[w].kind = "revoke"
    /\ Commits(w, Revoked, task[w].event)
    /\ ceiling' = Ceiling(Free)
    /\ task' = [task EXCEPT ![w] = Idle]
    /\ UNCHANGED <<stripe, events, override>>

-----------------------------------------------------------------------------
(* create_checkout. *)

\* A user without a billable subscription gets a Checkout session.
OpenSession(s, p) ==
    /\ row.sub = None \/ row.status \notin Billable
    /\ stripe[s].status = "none"
    /\ stripe' = [stripe EXCEPT ![s].status = "open", ![s].plan = p]
    /\ UNCHANGED <<events, slips>>
    /\ LocalUnchanged

\* A subscriber who asks for another plan has the subscription's price switched.
AskSwitch(w, p) ==
    /\ task[w] = Idle
    /\ row.sub # None /\ row.status \in Billable
    /\ row.plan # p
    /\ task' = [task EXCEPT ![w] = Task("switch", row.sub, p, 0)]
    /\ UNCHANGED <<stripe, events, row, ceiling, override, seen, slips>>

SwitchPrice(w) ==
    LET s == task[w].sub IN
    /\ task[w].kind = "switch"
    /\ \/ /\ Live(s)
          /\ Changes(s, [stripe[s] EXCEPT !.plan = task[w].plan], <<"updated">>)
          /\ task' = [task EXCEPT ![w].kind = "sync"]
       \/ /\ ~Live(s)                     \* Stripe refuses: the request fails
          /\ task' = [task EXCEPT ![w] = Idle]
          /\ UNCHANGED <<stripe, events>>
    /\ UNCHANGED <<row, ceiling, override, seen, slips>>

\* Mutant: the quota is left at the limits of the old plan.
SyncRowOnly(w) ==
    /\ task[w].kind = "sync"
    /\ Commits(w, [row EXCEPT !.plan = task[w].plan], 0)
    /\ task' = [task EXCEPT ![w] = Idle]
    /\ UNCHANGED <<stripe, events, ceiling, override>>

\* _sync_plan_and_quota
Sync(w) ==
    /\ task[w].kind = "sync"
    /\ Commits(w, [row EXCEPT !.plan = task[w].plan], 0)
    /\ ceiling' = Ceiling(task[w].plan)
    /\ task' = [task EXCEPT ![w] = Idle]
    /\ UNCHANGED <<stripe, events, override>>

-----------------------------------------------------------------------------
(* Grants, caps and failures. *)

\* admin_set_entitlement: the grant and its ceiling in one transaction.
Grant(p) ==
    /\ override' = p
    /\ ceiling' = Granted(p)
    /\ UNCHANGED <<stripe, events, row, seen, task, slips>>

\* Clearing the grant leaves the ceiling as it is.
ClearGrant ==
    /\ override # None
    /\ override' = None
    /\ UNCHANGED <<stripe, events, row, ceiling, seen, task, slips>>

\* admin_set_spend_cap: an amount of the administrator's (None) takes the place of
\* the plan's, until the next write of both limits.
SetSpendCap ==
    /\ ceiling' = [ceiling EXCEPT !.spend = None]
    /\ UNCHANGED <<stripe, events, row, override, seen, task, slips>>

\* A handler dies, or its transaction is rolled back, after it called Stripe.
Fail(w) ==
    /\ task[w] # Idle
    /\ task' = [task EXCEPT ![w] = Idle]
    /\ UNCHANGED <<stripe, events, row, ceiling, override, seen, slips>>

-----------------------------------------------------------------------------
StripeNext == \E s \in Subs : Pay(s) \/ Evolves(s)

WebhookNext(w) == \/ \E i \in DOMAIN events : Deliver(w, i) \/ DeliverRefund(w, i)
                  \/ Revoke(w)

AdminNext == \/ \E w \in Workers : \/ \E s \in Subs : AdminRefund(w, s)
                                   \/ AdminRevoke(w) \/ Reconcile(w)
             \/ \E p \in Plans : Grant(p)
             \/ ClearGrant \/ SetSpendCap

CheckoutNext == \/ \E s \in Subs, p \in Plans : OpenSession(s, p)
                \/ \E w \in Workers : \/ \E p \in Plans : AskSwitch(w, p)
                                      \/ SwitchPrice(w) \/ Sync(w)

Next == \/ StripeNext \/ AdminNext \/ CheckoutNext
        \/ \E w \in Workers : WebhookNext(w) \/ Fail(w)

Spec == Init /\ [][Next]_vars

-----------------------------------------------------------------------------
(* Properties. *)

\* has_active_paid_subscription
Entitled == row.plan # Free /\ row.status \in Billable

\* Nothing is on its way to the rows.
Quiet == /\ seen = DOMAIN events
         /\ \A w \in Workers : task[w] = Idle

\* Only an event that is overtaken by a later one can give paid access away:
\* otherwise, whatever handlers race and whatever cancellation Stripe refuses,
\* a user with paid access has a subscription that Stripe bills, or the event
\* that ends the access is still to be processed.
AccessIsCharged ==
    Entitled /\ "overtaken" \notin slips =>
        \/ \E s \in Subs : Live(s)
        \/ \E i \in DOMAIN events \ seen : events[i].type = "deleted"

\* A customer whom Stripe bills has the plan that Stripe bills for, once
\* everything is processed, unless one of five things happened: events out of
\* order, a refused cancellation, handlers that raced, two sessions paid, or a
\* reconciliation that took an answer it could not read for "no subscription".
ChargedHasAccess ==
    Quiet /\ slips \cap {"overtaken", "refused", "raced", "doubled", "unread"} = {} =>
        \A s \in Subs : Live(s) => /\ Entitled
                                  /\ row.sub = s
                                  /\ row.plan = stripe[s].plan

\* A subscription whose charge was refunded or disputed gives no access once
\* everything is processed, also when the administrator's handler died between
\* the refund and the revocation.  Of two paid sessions, the one that the row
\* names is cancelled, whichever was refunded: hence the fourth exception.
RefundedHasNoAccess ==
    Quiet /\ slips \cap {"overtaken", "refused", "raced", "doubled", "unread"} = {} =>
        ~(Entitled /\ row.sub \in Subs /\ stripe[row.sub].refunded)

\* The quota and the subscription row are two tables that seven handlers write:
\* the runs that the quota allows are those of the row's plan, or of the grant in
\* force when they were written last, which no later grant has replaced; and the
\* spend is that of the same plan unless an administrator has set it since.
QuotaFollowsPlan ==
    /\ ~ceiling.granted => ceiling.runs = row.plan
    /\ ceiling.granted /\ override # None => ceiling.runs = override
    /\ ceiling.spend \in {ceiling.runs, None}

\* routers/billing.py says of a live grant that "a period reset never silently
\* revokes it" and that it "must survive a plan re-sync".
GrantSurvives == override # None => ceiling.runs = override

\* routers/admin.py: "only when Stripe genuinely shows no live subscription ... is
\* the local row cleared".
ReconcileClearsStaleRows == "unread" \notin slips

\* routers/billing.py: "NEVER create a SECOND live subscription".
OneSubscription == \A s, t \in Subs : Live(s) /\ Live(t) => s = t
=============================================================================
