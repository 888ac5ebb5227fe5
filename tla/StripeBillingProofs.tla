------------------------- MODULE StripeBillingProofs -------------------------
(***************************************************************************)
(* What holds of the local copy of a subscription for any number of        *)
(* subscriptions, plans, handlers and events.                              *)
(*                                                                         *)
(* Paid access without a bill is excluded by the order of the events: an   *)
(* event of a subscription that Stripe bills no more is followed by a      *)
(* "deleted" one (Followed), and a row that says billable again after a    *)
(* "deleted" event was processed owes it to a later event (Reopened).  The *)
(* last "deleted" event can then not have been processed.                  *)
(*                                                                         *)
(* That what is billed is in force, and a refunded bill is not, is a second *)
(* invariant (Answers) over what the events still have to say.             *)
(***************************************************************************)
EXTENDS StripeBilling, SequenceTheorems, WellFoundedInduction, TLAPS

(***************************************************************************)
(* The inductive invariant.                                                *)
(***************************************************************************)
Billing(i) == events[i].type \in {"checkout", "updated", "failed", "paid"}
Ending(i)  == events[i].type = "deleted"

\* Every event of a bill is about a subscription that is still live, or a later
\* event says that one has ended.
Followed ==
    \A i \in DOMAIN events : Billing(i) =>
        Live(events[i].sub) \/ \E j \in DOMAIN events : j > i /\ Ending(j)

\* A row that is billable although an end was processed, owes it to a later event.
Reopened ==
    "overtaken" \notin slips /\ row.status \in Billable =>
        \A k \in seen : Ending(k) => \E i \in seen : i > k /\ Billing(i)

\* Nobody has, or is about to be given, a paid plan before Stripe has billed.
Paid ==
    (row.plan # Free \/ \E w \in Workers : task[w].kind = "sync") =>
        \E i \in DOMAIN events : Billing(i)

\* What is sold, and what is switched to, is a plan; what is being processed
\* exists.
Sold ==
    /\ \A s \in Subs : stripe[s].status # "none" => stripe[s].plan \in Plans
    /\ \A w \in Workers : /\ task[w].kind \in {"switch", "sync"} => task[w].plan \in Plans
                          /\ task[w].event \in {0} \cup DOMAIN events

BillingInv == TypeOK /\ Sold /\ Followed /\ Reopened /\ Paid /\ QuotaFollowsPlan

(***************************************************************************)
(* Stripe reports.                                                         *)
(***************************************************************************)
Reports == {<<"checkout", "paid">>, <<"failed", "updated">>, <<"paid", "updated">>,
            <<"updated">>, <<"deleted">>, <<"refunded">>}

LEMMA Appends ==
    ASSUME TypeOK, NEW s \in Subs, NEW sub, NEW types \in Reports, Changes(s, sub, types),
           sub.status \in Billable \cup {"canceled"}, sub.plan \in Plans
    PROVE  /\ events' \in Seq(Event) /\ Len(events') <= MaxEvents
           /\ Len(events) \in Nat /\ Len(types) \in {1, 2}
           /\ DOMAIN events = 1..Len(events) /\ DOMAIN events' = 1..(Len(events) + Len(types))
           /\ \A i \in DOMAIN events : events'[i] = events[i]
           /\ \A k \in 1..Len(types) : events'[Len(events) + k] = About(types[k], s, sub)
<1> DEFINE more == [i \in DOMAIN types |-> About(types[i], s, sub)]
<1>1. \A k \in DOMAIN types : About(types[k], s, sub) \in Event
  BY DEF Reports, About, Event, EventTypes
<1>2. Len(types) \in {1, 2} /\ DOMAIN types = 1..Len(types)
  BY DEF Reports
<1>3. more \in Seq(Event) /\ Len(more) = Len(types)
  BY <1>1, <1>2
<1>4. /\ events \in Seq(Event) /\ Len(events) \in Nat /\ DOMAIN events = 1..Len(events)
      /\ events' = events \o more /\ Len(events) + Len(types) <= MaxEvents
  BY LenProperties DEF TypeOK, Changes
<1>5. \A k \in 1..Len(types) : more[k] = About(types[k], s, sub)
  BY <1>2
<1> HIDE DEF more
<1>6. /\ events \o more \in Seq(Event) /\ Len(events \o more) = Len(events) + Len(more)
      /\ \A i \in 1..Len(events) + Len(more) :
             (events \o more)[i] = IF i <= Len(events) THEN events[i] ELSE more[i - Len(events)]
  BY <1>3, <1>4, ConcatProperties
<1>7. /\ events' \in Seq(Event) /\ Len(events') = Len(events) + Len(types)
      /\ \A i \in 1..Len(events') : events'[i] = IF i <= Len(events) THEN events[i]
                                                 ELSE more[i - Len(events)]
  BY <1>3, <1>4, <1>6
<1>8. DOMAIN events' = 1..Len(events')
  BY <1>7, LenProperties
<1>9. \A k \in 1..Len(types) : events'[Len(events) + k] = more[k]
  BY <1>2, <1>4, <1>7
<1>10. Len(events') <= MaxEvents /\ \A i \in DOMAIN events : events'[i] = events[i]
  BY <1>2, <1>4, <1>7
<1> QED
  BY <1>2, <1>4, <1>5, <1>7, <1>8, <1>9, <1>10

LEMMA Reported ==
    ASSUME TypeOK, NEW s \in Subs, NEW sub, NEW types \in Reports, Changes(s, sub, types),
           sub.status \in Billable \cup {"canceled"}, sub.plan \in Plans
    PROVE  /\ events' \in Seq(Event) /\ Len(events') <= MaxEvents
           /\ DOMAIN events = 1..Len(events) /\ DOMAIN events \subseteq DOMAIN events'
           /\ \A i \in DOMAIN events : events'[i] = events[i]
           /\ \A i \in DOMAIN events' \ DOMAIN events :
                 events'[i].sub = s /\ events'[i].type \in {types[k] : k \in DOMAIN types}
           /\ Len(events) + 1 \in DOMAIN events'
           /\ events'[Len(events) + 1].type = types[1]
<1>1. /\ events' \in Seq(Event) /\ Len(events') <= MaxEvents
      /\ Len(events) \in Nat /\ Len(types) \in {1, 2}
      /\ DOMAIN events = 1..Len(events) /\ DOMAIN events' = 1..(Len(events) + Len(types))
      /\ \A i \in DOMAIN events : events'[i] = events[i]
      /\ \A k \in 1..Len(types) : events'[Len(events) + k] = About(types[k], s, sub)
  BY Appends
<1>2. DOMAIN types = 1..Len(types)
  BY DEF Reports
<1>3. ASSUME NEW i \in DOMAIN events' \ DOMAIN events
      PROVE  \E k \in 1..Len(types) : i = Len(events) + k
  <2>1. i - Len(events) \in 1..Len(types) /\ i = Len(events) + (i - Len(events))
    BY <1>1
  <2> QED
    BY <2>1
<1>4. ASSUME NEW i \in DOMAIN events' \ DOMAIN events
      PROVE  events'[i].sub = s /\ events'[i].type \in {types[k] : k \in DOMAIN types}
  <2>1. PICK k \in 1..Len(types) : i = Len(events) + k
    BY <1>3
  <2>2. events'[i] = About(types[k], s, sub)
    BY <1>1, <2>1
  <2> QED
    BY <1>2, <2>2 DEF About
<1>l. Len(events) \in Nat /\ Len(types) \in Nat /\ Len(types) >= 1
  BY <1>1
<1>5. 1 \in 1..Len(types) /\ Len(events) + 1 \in 1..(Len(events) + Len(types))
  BY <1>l
<1>6. 1..Len(events) \subseteq 1..(Len(events) + Len(types))
  BY <1>l
<1>7. events'[Len(events) + 1] = About(types[1], s, sub)
  BY <1>1, <1>5
<1>8. events'[Len(events) + 1].type = types[1]
  BY <1>7 DEF About
<1> QED
  BY <1>1, <1>4, <1>5, <1>6, <1>8

SubState == [status: Billable \cup {"none", "open", "canceled"},
             plan: Plans \cup {None}, refunded: BOOLEAN]

\* A subscription that was opened changes, and is still billed, ends, or is refunded.
Changed(s, sub, types) ==
    /\ Changes(s, sub, types) /\ types \in Reports
    /\ stripe[s].status \in Billable \cup {"open", "canceled"}
    /\ sub \in SubState /\ sub.plan \in Plans
    /\ \/ sub.status \in Billable /\ types # <<"deleted">>
       \/ sub.status = "canceled" /\ types = <<"deleted">>
       \/ /\ sub.status = stripe[s].status /\ sub.status \in Billable \cup {"canceled"}
          /\ types = <<"refunded">>

EventsGrow ==
    /\ stripe' \in [Subs -> SubState]
    /\ events' \in Seq(Event) /\ Len(events') <= MaxEvents
    /\ DOMAIN events \subseteq DOMAIN events'
    /\ \A i \in DOMAIN events : events'[i] = events[i]
    /\ \A s \in Subs : stripe'[s].status # "none" => stripe'[s].plan \in Plans
    /\ Followed'

LEMMA ChangedKeeps ==
    ASSUME TypeOK, Sold, Followed, NEW s \in Subs, NEW sub, NEW types, Changed(s, sub, types)
    PROVE  EventsGrow
<1>1. sub.status \in Billable \cup {"canceled"}
  BY DEF Changed
<1>2. /\ events' \in Seq(Event) /\ Len(events') <= MaxEvents
      /\ DOMAIN events = 1..Len(events) /\ DOMAIN events \subseteq DOMAIN events'
      /\ \A i \in DOMAIN events : events'[i] = events[i]
      /\ \A i \in DOMAIN events' \ DOMAIN events :
            events'[i].sub = s /\ events'[i].type \in {types[k] : k \in DOMAIN types}
      /\ Len(events) + 1 \in DOMAIN events'
      /\ events'[Len(events) + 1].type = types[1]
  <2>1. /\ Changes(s, sub, types) /\ types \in Reports /\ sub.plan \in Plans
    BY DEF Changed
  <2> QED
    BY <1>1, <2>1, Reported
<1>3. /\ stripe' = [stripe EXCEPT ![s] = sub] /\ stripe \in [Subs -> SubState]
      /\ sub \in SubState /\ sub.plan \in Plans
  BY DEF Changed, Changes, TypeOK, SubState
<1>4. stripe' \in [Subs -> SubState]
  BY <1>3
<1>5. \A t \in Subs : stripe'[t].status # "none" => stripe'[t].plan \in Plans
  BY <1>3 DEF Sold
<1>6. \A t \in Subs : stripe'[t] = IF t = s THEN sub ELSE stripe[t]
  BY <1>3
<1>7. \A i \in DOMAIN events : i \in Nat /\ Len(events) + 1 > i
  BY <1>2, LenProperties DEF TypeOK
<1>8. \A i \in DOMAIN events : events[i].sub \in Subs
  <2>1. \A i \in DOMAIN events : events[i] \in Event
    BY <1>2, ElementOfSeq DEF TypeOK
  <2> QED
    BY <2>1 DEF Event
<1>9. Followed'
  <2> SUFFICES ASSUME NEW i \in DOMAIN events', Billing(i)'
               PROVE  \/ Live(events[i].sub)'
                      \/ \E j \in DOMAIN events' : j > i /\ Ending(j)'
    BY DEF Followed
  <2>1. CASE types = <<"deleted">>
    <3>1. i \in DOMAIN events
      BY <1>2, <2>1 DEF Billing
    <3>2. PICK n \in DOMAIN events' : n = Len(events) + 1 /\ events'[n].type = "deleted"
      BY <1>2, <2>1
    <3> QED
      BY <1>7, <3>1, <3>2 DEF Ending
  <2>2. CASE types # <<"deleted">>
    <3>1. \A t \in Subs : Live(t) => Live(t)'
      BY <1>6, <2>2 DEF Live, Changed
    <3>2. CASE i \in DOMAIN events
      <4>1. Billing(i)
        BY <1>2, <3>2 DEF Billing
      <4>2. Live(events[i].sub) \/ \E j \in DOMAIN events : j > i /\ Ending(j)
        BY <3>2, <4>1 DEF Followed
      <4> QED
        BY <1>2, <1>8, <3>1, <3>2, <4>2 DEF Ending
    <3>3. CASE i \notin DOMAIN events
      <4>1. events'[i].sub = s /\ types # <<"refunded">>
        BY <1>2, <3>3 DEF Billing
      <4> QED
        BY <1>6, <2>2, <4>1 DEF Live, Changed
    <3> QED
      BY <3>2, <3>3
  <2> QED
    BY <2>1, <2>2
<1> QED
  BY <1>2, <1>4, <1>5, <1>9 DEF EventsGrow

LEMMA NothingChanged ==
    ASSUME TypeOK, Sold, Followed, UNCHANGED <<stripe, events>>
    PROVE  EventsGrow
<1>1. Followed'
  BY DEF Followed, Billing, Ending, Live
<1> QED
  BY <1>1 DEF EventsGrow, TypeOK, SubState, Sold

LEMMA StripeStep ==
    ASSUME BillingInv, [Next]_vars
    PROVE  EventsGrow
<1>0. TypeOK /\ Sold /\ Followed /\ stripe \in [Subs -> SubState]
      /\ \A s \in Subs : stripe[s].status # "none" => stripe[s].plan \in Plans
  BY DEF BillingInv, TypeOK, SubState, Sold
<1>n. \A s \in Subs : \A sub, types : Changed(s, sub, types) => EventsGrow
  BY <1>0, ChangedKeeps
<1>r. ASSUME NEW s \in Subs, Refunds(s) PROVE EventsGrow
  <2>1. Changed(s, [stripe[s] EXCEPT !.refunded = TRUE], <<"refunded">>)
    BY <1>0, <1>r DEF Refunds, Changed, Reports, Billable, SubState
  <2> QED
    BY <1>n, <2>1
<1>c. ASSUME NEW s \in Subs, Live(s),
             Changes(s, [stripe[s] EXCEPT !.status = "canceled"], <<"deleted">>)
      PROVE  EventsGrow
  <2>1. Changed(s, [stripe[s] EXCEPT !.status = "canceled"], <<"deleted">>)
    BY <1>0, <1>c DEF Live, Changed, Reports, Billable, SubState
  <2> QED
    BY <1>n, <2>1
<1>p. ASSUME NEW s \in Subs, Live(s), NEW p \in Plans,
             Changes(s, [stripe[s] EXCEPT !.plan = p], <<"updated">>)
      PROVE  EventsGrow
  <2>1. Changed(s, [stripe[s] EXCEPT !.plan = p], <<"updated">>)
    BY <1>0, <1>p DEF Live, Changed, Reports, Billable, SubState
  <2> QED
    BY <1>n, <2>1
<1>1. ASSUME NEW s \in Subs, Pay(s) PROVE EventsGrow
  <2>1. Changed(s, [stripe[s] EXCEPT !.status = "active"], <<"checkout", "paid">>)
    BY <1>0, <1>1 DEF Pay, Changed, Reports, Billable, SubState
  <2> QED
    BY <1>n, <2>1
<1>2. ASSUME NEW s \in Subs, Evolves(s) PROVE EventsGrow
  <2>1. CASE /\ stripe[s].status = "active"
             /\ Changes(s, [stripe[s] EXCEPT !.status = "past_due"], <<"failed", "updated">>)
    <3>1. Changed(s, [stripe[s] EXCEPT !.status = "past_due"], <<"failed", "updated">>)
      BY <1>0, <2>1 DEF Changed, Reports, Billable, SubState
    <3> QED
      BY <1>n, <3>1
  <2>2. CASE /\ stripe[s].status = "past_due"
             /\ Changes(s, [stripe[s] EXCEPT !.status = "active"], <<"paid", "updated">>)
    <3>1. Changed(s, [stripe[s] EXCEPT !.status = "active"], <<"paid", "updated">>)
      BY <1>0, <2>2 DEF Changed, Reports, Billable, SubState
    <3> QED
      BY <1>n, <3>1
  <2> QED
    BY <1>2, <1>r, <1>c, <1>p, <2>1, <2>2 DEF Evolves
<1>3. ASSUME NEW w \in Workers, NEW i \in Nat, CancelThenRevoke(w, i) PROVE EventsGrow
  BY <1>0, <1>3, <1>c, NothingChanged DEF CancelThenRevoke, Live
<1>4. ASSUME NEW w \in Workers, SwitchPrice(w) PROVE EventsGrow
  BY <1>0, <1>4, <1>p, NothingChanged DEF SwitchPrice, Live, Sold
<1>5. ASSUME NEW s \in Subs, NEW p \in Plans, OpenSession(s, p) PROVE EventsGrow
  <2>1. /\ events' = events
        /\ \A t \in Subs : stripe'[t] = IF t = s THEN [stripe[s] EXCEPT !.status = "open", !.plan = p]
                                        ELSE stripe[t]
        /\ stripe' \in [Subs -> SubState]
    BY <1>0, <1>5 DEF OpenSession, SubState
  <2>2. \A t \in Subs : stripe'[t].status # "none" => stripe'[t].plan \in Plans
    BY <1>0, <2>1 DEF SubState
  <2>3. \A t : Live(t) => Live(t)'
    BY <1>5, <2>1 DEF OpenSession, Live, Billable
  <2>4. Followed'
    BY <1>0, <2>1, <2>3 DEF Followed, Billing, Ending
  <2> QED
    BY <1>0, <2>1, <2>2, <2>4 DEF EventsGrow, TypeOK
<1>6. ASSUME NEW w \in Workers, NEW i \in DOMAIN events, Deliver(w, i) PROVE EventsGrow
  BY <1>0, <1>6, NothingChanged DEF Deliver
<1>7. ASSUME NEW w \in Workers, NEW i \in DOMAIN events, DeliverRefund(w, i) PROVE EventsGrow
  <2>1. i \in Nat
    BY LenProperties DEF BillingInv, TypeOK
  <2> QED
    BY <1>7, <1>3, <2>1 DEF DeliverRefund
<1>8. ASSUME NEW w \in Workers,
             Revoke(w) \/ Reconcile(w) \/ Sync(w) \/ Fail(w) \/ (\E p \in Plans : AskSwitch(w, p))
      PROVE  EventsGrow
  BY <1>0, <1>8, NothingChanged DEF Revoke, Reconcile, Sync, Fail, AskSwitch
<1>9. CASE ClearGrant \/ SetSpendCap \/ (\E p \in Plans : Grant(p)) \/ UNCHANGED vars
  BY <1>0, <1>9, NothingChanged DEF ClearGrant, SetSpendCap, Grant, vars
<1> QED
  BY <1>1, <1>2, <1>3, <1>4, <1>5, <1>6, <1>7, <1>8, <1>9, <1>r
  DEF Next, StripeNext, WebhookNext, AdminNext, CheckoutNext, AdminRefund, AdminRevoke

(***************************************************************************)
(* The handlers write.                                                     *)
(***************************************************************************)
RowState == [plan: AllPlans, status: Billable \cup {"canceled"}, sub: Subs \cup {None}]
TaskState == [kind: {"idle", "switch", "sync", "refunded", "revoke", "clear"},
              sub: Subs \cup {None}, plan: Plans \cup {None}, event: 0..MaxEvents]

CeilingState == [runs: AllPlans, spend: AllPlans \cup {None}, granted: BOOLEAN]

\* What is known of the handlers and of the rows, apart from what Stripe reports.
RowsKept ==
    /\ row \in RowState /\ ceiling \in CeilingState /\ override \in Plans \cup {None}
    /\ seen \subseteq DOMAIN events /\ slips \subseteq Slips
    /\ Reopened /\ QuotaFollowsPlan

TasksKept ==
    /\ task \in [Workers -> TaskState]
    /\ \A w \in Workers : /\ task[w].kind \in {"switch", "sync"} => task[w].plan \in Plans
                          /\ task[w].event \in {0} \cup DOMAIN events
    /\ Paid

LEMMA InvIsKept ==
    BillingInv <=>
        /\ stripe \in [Subs -> SubState] /\ events \in Seq(Event) /\ Len(events) <= MaxEvents
        /\ \A s \in Subs : stripe[s].status # "none" => stripe[s].plan \in Plans
        /\ Followed /\ RowsKept /\ TasksKept
BY DEF BillingInv, TypeOK, Sold, RowsKept, TasksKept, RowState, TaskState, SubState, CeilingState

LEMMA RowsFrame ==
    ASSUME BillingInv, EventsGrow, UNCHANGED <<row, ceiling, override, seen>>,
           \E n \in {"refused", "doubled", "unread"} : slips' \in {slips, slips \cup {n}}
    PROVE  RowsKept'
<1>1. RowsKept
  BY InvIsKept
<1>2. /\ DOMAIN events \subseteq DOMAIN events' /\ seen \subseteq DOMAIN events
      /\ \A i \in DOMAIN events : events'[i] = events[i]
  BY <1>1 DEF EventsGrow, RowsKept
<1>3. Reopened'
  BY <1>1, <1>2 DEF RowsKept, Reopened, Billing, Ending
<1> QED
  BY <1>1, <1>2, <1>3 DEF RowsKept, QuotaFollowsPlan, Slips

LEMMA TasksFrame ==
    ASSUME BillingInv, EventsGrow, task' \in [Workers -> TaskState], row'.plan = row.plan,
           \A w \in Workers :
               \/ task'[w] = task[w]
               \/ task'[w].kind \in {"idle", "revoke", "refunded"} /\ task'[w].event \in {0} \cup DOMAIN events
               \/ task'[w].kind = "switch" /\ task'[w].plan \in Plans /\ task'[w].event = 0
    PROVE  TasksKept'
<1>1. TasksKept
  BY InvIsKept
<1>2. /\ DOMAIN events \subseteq DOMAIN events'
      /\ \A i \in DOMAIN events : events'[i] = events[i]
  BY DEF EventsGrow
<1>3. Paid'
  BY <1>1, <1>2 DEF TasksKept, Paid, Billing
<1> QED
  BY <1>1, <1>2, <1>3 DEF TasksKept

LEMMA Committed ==
    ASSUME BillingInv, NEW w \in Workers, NEW r \in RowState, NEW i \in {0} \cup DOMAIN events,
           Commits(w, r, i), UNCHANGED <<events, override>>,
           ceiling' \in {Limits(r.plan), Ceiling(r.plan)} \/ (ceiling' = ceiling /\ r.plan = row.plan),
           \/ r.status = "canceled"
           \/ i = 0 /\ r.status = row.status
           \/ i # 0 /\ Billing(i)
    PROVE  RowsKept'
<1>1. RowsKept
  BY InvIsKept
<1>2. /\ row' = r /\ seen' = seen \cup ({i} \ {0}) /\ slips \subseteq slips'
      /\ slips' \subseteq slips \cup {"raced", "overtaken"}
      /\ (i # 0 /\ \E j \in seen : j > i) => "overtaken" \in slips'
  BY DEF Commits
<1>3. Reopened'
  <2> SUFFICES ASSUME "overtaken" \notin slips', r.status \in Billable,
                      NEW k \in seen', Ending(k)
               PROVE  \E j \in seen' : j > k /\ Billing(j)
    BY <1>2 DEF Reopened, Ending, Billing
  <2>1. CASE i = 0 /\ r.status = row.status
    BY <1>1, <1>2, <2>1 DEF RowsKept, Reopened
  <2>2. CASE i # 0 /\ Billing(i)
    <3>1. k \in seen /\ k # i
      BY <1>2, <2>2 DEF Billing, Ending
    <3>2. i \in Nat /\ k \in Nat
      BY <1>1, <2>2, <3>1, LenProperties DEF RowsKept, BillingInv, TypeOK
    <3> QED
      BY <1>2, <2>2, <3>1, <3>2
  <2> QED
    BY <2>1, <2>2 DEF Billable
<1>4. ceiling' \in CeilingState /\ QuotaFollowsPlan'
  <2>1. Limits(r.plan) \in CeilingState /\ Ceiling(r.plan) \in CeilingState
    BY <1>1 DEF RowsKept, Ceiling, Limits, Granted, CeilingState, RowState, AllPlans
  <2>2. /\ Limits(r.plan).runs = r.plan /\ Limits(r.plan).spend = r.plan
        /\ Limits(r.plan).granted = FALSE
        /\ override = None => Ceiling(r.plan) = Limits(r.plan)
        /\ override # None => /\ Ceiling(r.plan).runs = override
                             /\ Ceiling(r.plan).spend = override
                             /\ Ceiling(r.plan).granted = TRUE
    BY DEF Ceiling, Limits, Granted
  <2> QED
    BY <1>1, <1>2, <2>1, <2>2 DEF RowsKept, QuotaFollowsPlan
<1> QED
  BY <1>1, <1>2, <1>3, <1>4 DEF RowsKept, Slips

LEMMA DeliverStep ==
    ASSUME BillingInv, EventsGrow, NEW w \in Workers, NEW i \in DOMAIN events, Deliver(w, i)
    PROVE  RowsKept' /\ TasksKept'
<1> DEFINE e == events[i]
<1>1. /\ RowsKept /\ TasksKept /\ e \in Event /\ i # 0 /\ Followed
      /\ events' = events /\ task' = task /\ override' = override
  BY InvIsKept, ElementOfSeq, LenProperties DEF Deliver
<1>2. CASE e.type \in {"checkout", "updated", "failed", "paid"}
  <2>1. \E r \in RowState : /\ Commits(w, r, i)
                            /\ ceiling' \in {Limits(r.plan), Ceiling(r.plan)} \/ (ceiling' = ceiling /\ r.plan = row.plan)
    BY <1>1, <1>2 DEF Deliver, CheckoutCompleted, SubscriptionUpdated, RowsKept, RowState,
                      Event, AllPlans, Billable
  <2>2. Billing(i)
    BY <1>2 DEF Billing
  <2>3. RowsKept'
    BY <1>1, <2>1, <2>2, Committed
  <2>4. Paid'
    BY <1>1, <2>2 DEF Paid, Billing
  <2> QED
    BY <1>1, <2>3, <2>4 DEF TasksKept
<1>3. CASE e.type = "deleted"
  <2>1. /\ Commits(w, Revoked, i) /\ ceiling' = Ceiling(Revoked.plan)
        /\ Revoked \in RowState /\ Revoked.status = "canceled" /\ Revoked.plan = Free
    BY <1>3 DEF Deliver, Revoked, RowState, AllPlans
  <2>2. RowsKept'
    BY <1>1, <2>1, Committed
  <2>3. Paid'
    BY <1>1, <2>1 DEF TasksKept, Paid, Billing, Commits
  <2> QED
    BY <1>1, <2>2, <2>3 DEF TasksKept
<1> QED
  BY <1>2, <1>3 DEF Deliver

LEMMA RevokeStep ==
    ASSUME BillingInv, EventsGrow, NEW w \in Workers, Revoke(w)
    PROVE  RowsKept' /\ TasksKept'
<1>1. /\ TasksKept /\ events' = events /\ override' = override
      /\ task' = [task EXCEPT ![w] = Idle]
      /\ task[w].event \in {0} \cup DOMAIN events
  BY InvIsKept DEF Revoke, TasksKept
<1>2. /\ Commits(w, Revoked, task[w].event) /\ ceiling' = Ceiling(Revoked.plan)
      /\ Revoked \in RowState /\ Revoked.status = "canceled" /\ Revoked.plan = Free
  BY DEF Revoke, Revoked, RowState, AllPlans
<1>3. RowsKept'
  BY <1>1, <1>2, Committed
<1>4. task' \in [Workers -> TaskState] /\ \A v \in Workers : task'[v] = IF v = w THEN Idle ELSE task[v]
  BY <1>1, BillingAssumption DEF TasksKept, TaskState, Idle
<1>5. Paid'
  BY <1>1, <1>2, <1>4 DEF TasksKept, Paid, Billing, Commits, Idle
<1> QED
  BY <1>1, <1>3, <1>4, <1>5 DEF TasksKept, Idle

LEMMA SyncStep ==
    ASSUME BillingInv, EventsGrow, NEW w \in Workers, Sync(w)
    PROVE  RowsKept' /\ TasksKept'
<1> DEFINE r == [row EXCEPT !.plan = task[w].plan]
<1>1. /\ RowsKept /\ TasksKept /\ events' = events /\ override' = override
      /\ task' = [task EXCEPT ![w] = Idle] /\ task[w].kind = "sync" /\ task[w].plan \in Plans
  BY InvIsKept DEF Sync, TasksKept
<1>2. /\ Commits(w, r, 0) /\ ceiling' = Ceiling(r.plan)
      /\ r \in RowState /\ r.status = row.status
  BY <1>1 DEF Sync, RowsKept, RowState, AllPlans
<1>3. RowsKept'
  <2> HIDE DEF r
  <2> QED
    BY <1>1, <1>2, Committed
<1>4. task' \in [Workers -> TaskState] /\ \A v \in Workers : task'[v] = IF v = w THEN Idle ELSE task[v]
  BY <1>1, BillingAssumption DEF TasksKept, TaskState, Idle
<1>5. Paid'
  BY <1>1 DEF TasksKept, Paid, Billing
<1> QED
  BY <1>1, <1>3, <1>4, <1>5 DEF TasksKept, Idle

LEMMA SwitchStep ==
    ASSUME BillingInv, EventsGrow, NEW w \in Workers, SwitchPrice(w)
    PROVE  RowsKept' /\ TasksKept'
<1> DEFINE s == task[w].sub
<1>1. /\ RowsKept /\ TasksKept /\ TypeOK /\ Sold /\ task[w].kind = "switch" /\ task[w].plan \in Plans
      /\ UNCHANGED <<row, ceiling, override, seen, slips>>
  BY InvIsKept DEF SwitchPrice, TasksKept, BillingInv
<1>2. RowsKept'
  BY <1>1, RowsFrame
<1>3. CASE task' = [task EXCEPT ![w] = Idle]
  <2>1. task' \in [Workers -> TaskState] /\ \A v \in Workers : task'[v] = IF v = w THEN Idle ELSE task[v]
    BY <1>1, <1>3, BillingAssumption DEF TasksKept, TaskState, Idle
  <2> QED
    BY <1>1, <1>2, <2>1, TasksFrame DEF Idle
<1>4. CASE /\ Live(s) /\ task' = [task EXCEPT ![w].kind = "sync"]
           /\ Changes(s, [stripe[s] EXCEPT !.plan = task[w].plan], <<"updated">>)
  <2>1. /\ task' \in [Workers -> TaskState]
        /\ \A v \in Workers : /\ v # w => task'[v] = task[v]
                              /\ task'[v].plan = task[v].plan /\ task'[v].event = task[v].event
    BY <1>1, <1>4 DEF TasksKept, TaskState
  <2>2. \E i \in DOMAIN events' : events'[i].type = "updated"
    <3> DEFINE sub == [stripe[s] EXCEPT !.plan = task[w].plan]
    <3>1. /\ s \in Subs /\ sub.status \in Billable \cup {"canceled"} /\ sub.plan \in Plans
          /\ <<"updated">> \in Reports /\ <<"updated">>[1] = "updated"
      BY <1>1, <1>4 DEF Live, Reports, TypeOK
    <3>2. Changes(s, sub, <<"updated">>)
      BY <1>4
    <3> HIDE DEF s, sub
    <3> QED
      BY <1>1, <3>1, <3>2, Reported
  <2>3. Paid'
    BY <2>2 DEF Paid, Billing
  <2> QED
    BY <1>1, <1>2, <2>1, <2>3 DEF TasksKept, EventsGrow
<1> QED
  BY <1>3, <1>4 DEF SwitchPrice

LEMMA CancelStep ==
    ASSUME BillingInv, EventsGrow, NEW w \in Workers, NEW i \in {0} \cup DOMAIN events,
           CancelThenRevoke(w, i)
    PROVE  RowsKept' /\ TasksKept'
<1>1. /\ RowsKept /\ TasksKept /\ i \in 0..MaxEvents /\ DOMAIN events \subseteq DOMAIN events'
      /\ UNCHANGED <<row, ceiling, override, seen>>
      /\ task' = [task EXCEPT ![w] = Task("revoke", row.sub, None, i)]
  BY InvIsKept, LenProperties, BillingAssumption DEF CancelThenRevoke, EventsGrow
<1>2. RowsKept'
  BY <1>1, RowsFrame DEF CancelThenRevoke, Slip
<1>3. /\ task' \in [Workers -> TaskState]
      /\ \A v \in Workers : task'[v] = IF v = w THEN Task("revoke", row.sub, None, i) ELSE task[v]
  BY <1>1 DEF TasksKept, RowsKept, RowState, TaskState, Task
<1> QED
  BY <1>1, <1>2, <1>3, TasksFrame DEF Task

LEMMA GrantStep ==
    ASSUME BillingInv, EventsGrow, ClearGrant \/ SetSpendCap \/ (\E p \in Plans : Grant(p))
    PROVE  RowsKept' /\ TasksKept'
<1>1. RowsKept /\ TasksKept /\ UNCHANGED <<row, seen, task, events, slips>>
  BY InvIsKept DEF ClearGrant, SetSpendCap, Grant
<1>2. /\ ceiling' \in CeilingState /\ override' \in Plans \cup {None}
      /\ QuotaFollowsPlan'
  <2>1. CASE ClearGrant
    BY <1>1, <2>1 DEF ClearGrant, RowsKept, QuotaFollowsPlan
  <2>2. CASE SetSpendCap
    <3>1. ceiling' = [ceiling EXCEPT !.spend = None] /\ override' = override
      BY <2>2 DEF SetSpendCap
    <3>2. /\ ceiling' \in CeilingState /\ ceiling'.spend = None
          /\ ceiling'.runs = ceiling.runs /\ ceiling'.granted = ceiling.granted
      BY <1>1, <3>1 DEF RowsKept, CeilingState
    <3> QED
      BY <1>1, <3>1, <3>2 DEF RowsKept, QuotaFollowsPlan
  <2>3. ASSUME NEW p \in Plans, Grant(p)
        PROVE  /\ ceiling' \in CeilingState /\ override' \in Plans \cup {None}
               /\ QuotaFollowsPlan'
    <3>1. ceiling' = Granted(p) /\ override' = p
      BY <2>3 DEF Grant
    <3>2. /\ Granted(p) \in CeilingState /\ Granted(p).runs = p
          /\ Granted(p).spend = p /\ Granted(p).granted = TRUE
      BY DEF Granted, Limits, CeilingState, AllPlans
    <3> QED
      BY <3>1, <3>2 DEF QuotaFollowsPlan
  <2> QED
    BY <2>1, <2>2, <2>3
<1>3. Reopened'
  BY <1>1 DEF RowsKept, Reopened, Billing, Ending
<1>4. Paid'
  BY <1>1 DEF TasksKept, Paid, Billing
<1> QED
  BY <1>1, <1>2, <1>3, <1>4 DEF RowsKept, TasksKept

\* The steps that only put a handler to work, or let it fail.
LEMMA HandlerStep ==
    ASSUME BillingInv, EventsGrow, NEW w \in Workers,
           \/ Reconcile(w) \/ Fail(w)
           \/ \E p \in Plans : AskSwitch(w, p)
           \/ \E s \in Subs : AdminRefund(w, s)
    PROVE  RowsKept' /\ TasksKept'
<1>1. /\ RowsKept /\ TasksKept /\ UNCHANGED <<row, ceiling, override, seen>>
      /\ slips' \in {slips, slips \cup {"unread"}}
  BY InvIsKept DEF Reconcile, Fail, AskSwitch, AdminRefund, Slip
<1>2. \E t \in TaskState :
          /\ task' = [task EXCEPT ![w] = t] /\ t.event = 0
          /\ \/ t.kind \in {"idle", "revoke", "refunded"}
             \/ t.kind = "switch" /\ t.plan \in Plans
  <2>1. Idle \in TaskState /\ Idle.event = 0 /\ Idle.kind = "idle"
    BY BillingAssumption DEF Idle, TaskState
  <2>2. \A k \in {"revoke", "refunded"} : LET t == Task(k, None, None, 0) IN
            t \in TaskState /\ t.event = 0 /\ t.kind = k
    BY BillingAssumption DEF Task, TaskState
  <2>3. \A p \in Plans : LET t == Task("switch", row.sub, p, 0) IN
            t \in TaskState /\ t.event = 0 /\ t.kind = "switch" /\ t.plan = p
    BY <1>1, BillingAssumption DEF Task, TaskState, RowsKept, RowState
  <2>4. CASE Reconcile(w) \/ \E s \in Subs : AdminRefund(w, s)
    <3>1. \E k \in {"revoke", "refunded"} : task' = [task EXCEPT ![w] = Task(k, None, None, 0)]
      BY <2>4 DEF Reconcile, AdminRefund
    <3> QED
      BY <2>2, <3>1
  <2> QED
    BY <2>1, <2>3, <2>4 DEF Fail, AskSwitch
<1>3. PICK t \in TaskState :
          /\ task' = [task EXCEPT ![w] = t] /\ t.event = 0
          /\ \/ t.kind \in {"idle", "revoke", "refunded"}
             \/ t.kind = "switch" /\ t.plan \in Plans
  BY <1>2
<1>4. /\ task' \in [Workers -> TaskState]
      /\ \A v \in Workers : task'[v] = IF v = w THEN t ELSE task[v]
  BY <1>1, <1>3 DEF TasksKept
<1>5. RowsKept'
  BY <1>1, RowsFrame
<1> QED
  BY <1>1, <1>3, <1>4, <1>5, TasksFrame

LEMMA StripeAlone ==
    ASSUME BillingInv, EventsGrow, LocalUnchanged,
           slips' = slips \/ slips' = slips \cup {"doubled"}
    PROVE  RowsKept' /\ TasksKept'
<1>1. TasksKept
  BY InvIsKept
<1>2. RowsKept'
  BY RowsFrame DEF LocalUnchanged
<1> QED
  BY <1>1, <1>2, TasksFrame DEF TasksKept, LocalUnchanged

LEMMA BillingStep ==
    ASSUME BillingInv, [Next]_vars
    PROVE  BillingInv'
<1>e. EventsGrow
  BY StripeStep
<1> SUFFICES RowsKept' /\ TasksKept'
  <2>1. /\ stripe' \in [Subs -> SubState] /\ events' \in Seq(Event) /\ Len(events') <= MaxEvents
        /\ \A s \in Subs : stripe'[s].status # "none" => stripe'[s].plan \in Plans
        /\ Followed'
    BY <1>e DEF EventsGrow
  <2> QED
    BY <2>1 DEF BillingInv, TypeOK, Sold, RowsKept, TasksKept, RowState, TaskState, SubState,
                CeilingState
<1>1. ASSUME NEW s \in Subs, Pay(s) \/ Evolves(s) \/ (\E p \in Plans : OpenSession(s, p))
      PROVE  RowsKept' /\ TasksKept'
  BY <1>e, <1>1, StripeAlone DEF Pay, Evolves, OpenSession, Slip
<1>2. ASSUME NEW w \in Workers, NEW i \in DOMAIN events, Deliver(w, i) \/ DeliverRefund(w, i)
      PROVE  RowsKept' /\ TasksKept'
  BY <1>e, <1>2, DeliverStep, CancelStep DEF DeliverRefund
<1>3. ASSUME NEW w \in Workers, Revoke(w) \/ Sync(w) \/ SwitchPrice(w) \/ AdminRevoke(w)
      PROVE  RowsKept' /\ TasksKept'
  BY <1>e, <1>3, RevokeStep, SyncStep, SwitchStep, CancelStep DEF AdminRevoke
<1>4. ASSUME NEW w \in Workers,
             \/ Reconcile(w) \/ Fail(w)
             \/ \E p \in Plans : AskSwitch(w, p)
             \/ \E s \in Subs : AdminRefund(w, s)
      PROVE  RowsKept' /\ TasksKept'
  BY <1>e, <1>4, HandlerStep
<1>5. CASE ClearGrant \/ SetSpendCap \/ (\E p \in Plans : Grant(p))
  BY <1>e, <1>5, GrantStep
<1>6. CASE UNCHANGED vars
  BY <1>e, <1>6, StripeAlone DEF vars, LocalUnchanged
<1> QED
  BY <1>1, <1>2, <1>3, <1>4, <1>5, <1>6
  DEF Next, StripeNext, WebhookNext, AdminNext, CheckoutNext

LEMMA BillingInit == Init => BillingInv
<1> SUFFICES ASSUME Init PROVE BillingInv
  OBVIOUS
<1> USE BillingAssumption DEF Init
<1>1. /\ events \in Seq(Event) /\ Len(events) = 0 /\ DOMAIN events = {}
  OBVIOUS
<1>2. TypeOK
  BY <1>1 DEF TypeOK, AllPlans, Limits, Billable, Idle, Slips
<1>3. Sold /\ Followed /\ Reopened /\ Paid /\ QuotaFollowsPlan
  BY <1>1 DEF Sold, Followed, Reopened, Paid, QuotaFollowsPlan, Limits, Idle
<1> QED
  BY <1>2, <1>3 DEF BillingInv

(***************************************************************************)
(* The theorems.                                                           *)
(***************************************************************************)
\* The invariant that the rest is read off: what the rows owe to which event.
THEOREM BillingInvariant == Spec => []BillingInv
BY BillingInit, BillingStep, PTL DEF Spec

\* Every variable keeps its type: only events that exist were processed, and the
\* row never names a plan that is not on sale.
THEOREM TypeCorrect == Spec => []TypeOK
<1>1. BillingInv => TypeOK
  BY DEF BillingInv
<1> QED
  BY <1>1, BillingInvariant, PTL

LEMMA LatestIs ==
    ASSUME NEW n \in Nat, NEW S, S \subseteq 0..n, S # {}
    PROVE  \E x \in S : \A y \in S : y <= x
<1> DEFINE R == OpToRel(<, Nat)
           T == {n - y : y \in S}
<1>1. IsWellFoundedOn(R, Nat)
  BY NatLessThanWellFounded
<1>2. \A x, y \in Nat : y < x => <<y, x>> \in R
  BY DEF OpToRel
<1>0. \A y \in S : y \in Nat /\ y <= n /\ n - y \in Nat
  OBVIOUS
<1>3. T \subseteq Nat /\ T # {}
  BY <1>0
<1> HIDE DEF R
<1>4. PICK x \in T : \A y \in T : <<y, x>> \notin R
  BY <1>1, <1>3, WFMin
<1>5. PICK m \in S : x = n - m
  BY <1>4
<1>6. ASSUME NEW y \in S PROVE y <= m
  <2>1. n - y \in T /\ n - y \in Nat /\ n - m \in Nat /\ y \in Nat /\ m \in Nat
    OBVIOUS
  <2>2. ~(n - y < n - m)
    BY <1>2, <1>4, <1>5, <2>1
  <2> QED
    BY <2>1, <2>2
<1> QED
  BY <1>6

\* The webhook, the revocations and the checkout against the order of the events:
\* a user has paid access only while Stripe bills, or until the event that ends
\* it is processed, unless an event was overtaken.
THEOREM AccessCharged == Spec => []AccessIsCharged
<1>1. BillingInv => AccessIsCharged
  <2> SUFFICES ASSUME BillingInv, Entitled, "overtaken" \notin slips,
                      \A s \in Subs : ~Live(s),
                      \A i \in DOMAIN events : Ending(i) => i \in seen
               PROVE  FALSE
    BY DEF AccessIsCharged, Ending
  <2> DEFINE ends == {i \in DOMAIN events : Ending(i)}
  <2>1. /\ Followed /\ Reopened /\ Paid /\ TypeOK
        /\ Len(events) \in Nat /\ DOMAIN events = 1..Len(events)
    BY LenProperties DEF BillingInv, TypeOK
  <2>2. \A i \in DOMAIN events : Billing(i) => \E j \in ends : j > i
    BY <2>1 DEF Followed, Live
  <2>3. ends # {} /\ ends \subseteq 0..Len(events)
    BY <2>1, <2>2 DEF Paid, Entitled
  <2>4. PICK k \in ends : \A j \in ends : j <= k
    BY <2>1, <2>3, LatestIs
  <2>5. PICK i \in seen : i > k /\ Billing(i)
    BY <2>1, <2>4 DEF Reopened, Entitled
  <2>6. PICK j \in ends : j > i
    BY <2>1, <2>2, <2>5 DEF TypeOK
  <2> QED
    BY <2>1, <2>3, <2>4, <2>5, <2>6 DEF TypeOK
<1> QED
  BY <1>1, BillingInvariant, PTL

\* Whoever writes the row writes the quota's limits: they are those of the row's
\* plan or of the grant in force, but for the spend that an administrator sets.
THEOREM QuotaFollows == Spec => []QuotaFollowsPlan
<1>1. BillingInv => QuotaFollowsPlan
  BY DEF BillingInv
<1> QED
  BY <1>1, BillingInvariant, PTL

(***************************************************************************)
(* What Stripe bills is in force.                                          *)
(*                                                                         *)
(* The last event that sets a plan is about the subscription that is live, *)
(* and names its plan (Told).  As long as the events are processed in      *)
(* order, that event is still to come or the row says what it said         *)
(* (Heard); a handler that is about to write anything else has read a row  *)
(* that some write has overtaken, or is itself overtaken by the event.     *)
(***************************************************************************)
Setter(i) == events[i].type \in {"checkout", "updated"}

\* The first event about s, and the refund of s.
Opening(i, s)   == events[i].type = "checkout" /\ events[i].sub = s
Refunding(i, s) == events[i].type = "refunded" /\ events[i].sub = s

\* The customer has paid s at some time.
Begun(s) == stripe[s].status \in Billable \cup {"canceled"}

LastWord(i, s) ==
    /\ Setter(i) /\ events[i].sub = s /\ events[i].plan = stripe[s].plan
    /\ \A j \in DOMAIN events : j > i => ~Setter(j)

Logged ==
    /\ \A i \in DOMAIN events :
          /\ Begun(events[i].sub)
          /\ Setter(i) => events[i].status \in Billable
          /\ events[i].type = "refunded" =>
                \E c \in DOMAIN events : c < i /\ Opening(c, events[i].sub)
    /\ \A s \in Subs : /\ stripe[s].refunded => Begun(s)
                       /\ Begun(s) => \E c \in DOMAIN events : Opening(c, s)

\* Of one subscription that is live at a time, the events are together.
Told ==
    "doubled" \notin slips => \A s \in Subs : Live(s) =>
        /\ \A t \in Subs : Live(t) => t = s
        /\ \E i \in DOMAIN events : LastWord(i, s)
        /\ \A i \in DOMAIN events : Setter(i) /\ events[i].sub = s =>
              \A j \in DOMAIN events : j > i => ~Ending(j) /\ (Setter(j) => events[j].sub = s)

\* None of the five exceptions has happened, and none has become inevitable.
Calm == /\ slips \cap {"overtaken", "refused", "raced", "doubled", "unread"} = {}
        /\ \A j \in seen : \A i \in DOMAIN events : i < j => i \in seen

Heard ==
    Calm => \A s \in Subs : Live(s) => \A i \in seen : LastWord(i, s) =>
        /\ row.sub = s /\ row.plan = stripe[s].plan /\ row.status \in Billable
        /\ \A w \in Workers : task[w].kind \notin {"sync", "revoke"}

Linked ==
    Calm => \A s \in Subs : Live(s) => \A i \in seen : Opening(i, s) =>
        row.sub = s /\ \A w \in Workers : task[w].kind # "revoke"

\* A refund of a live subscription has not been processed.
Due ==
    Calm => \A s \in Subs : Live(s) /\ stripe[s].refunded =>
        \E i \in DOMAIN events \ seen : Refunding(i, s)

\* The handler of a refund has seen to it that the subscription is not live,
\* if everything before the refund was processed.
Revoking ==
    \A w \in Workers, i \in DOMAIN events : task[w].kind = "revoke" /\ task[w].event = i =>
        /\ events[i].type = "refunded"
        /\ Calm /\ (\A k \in DOMAIN events : k < i => k \in seen) => ~Live(events[i].sub)

Answers == Logged /\ Told /\ Heard /\ Linked /\ Due /\ Revoking

LEMMA EventsTyped ==
    ASSUME TypeOK
    PROVE  /\ Len(events) \in Nat /\ DOMAIN events = 1..Len(events)
           /\ \A i \in DOMAIN events : i \in Nat /\ i > 0 /\ events[i] \in Event /\ events[i].sub \in Subs
<1>1. /\ events \in Seq(Event) /\ Len(events) \in Nat /\ DOMAIN events = 1..Len(events)
  BY LenProperties DEF TypeOK
<1>2. \A i \in DOMAIN events : events[i] \in Event
  BY <1>1, ElementOfSeq
<1>3. \A i \in DOMAIN events : i \in Nat /\ i > 0
  BY <1>1
<1> QED
  BY <1>1, <1>2, <1>3 DEF Event

(***************************************************************************)
(* The events, step by step.                                               *)
(***************************************************************************)
\* What a step of Stripe leaves of the past.
Onward ==
    /\ DOMAIN events \subseteq DOMAIN events'
    /\ \A i \in DOMAIN events : events'[i] = events[i]
    /\ \A s \in Subs : Begun(s) => Begun(s)' /\ (Live(s)' => Live(s))
    /\ \A s \in Subs : Live(s)' /\ Live(s) =>
          \/ stripe'[s].plan = stripe[s].plan
          \/ \E j \in DOMAIN events' \ DOMAIN events : Setter(j)'
    /\ \A s \in Subs : stripe'[s].refunded =>
          stripe[s].refunded \/ \E i \in DOMAIN events' \ DOMAIN events : Refunding(i, s)'

\* s becomes billed, or is billed in another way.
Bills(s, sub, types) ==
    /\ Changes(s, sub, types)
    /\ sub.status \in Billable /\ sub.plan \in Plans /\ sub.refunded = stripe[s].refunded
    /\ \/ /\ types = <<"checkout", "paid">>
          /\ stripe[s].status = "open" /\ ((\E t \in Subs : Live(t)) => "doubled" \in slips')
       \/ /\ types \in {<<"failed", "updated">>, <<"paid", "updated">>, <<"updated">>}
          /\ Live(s)

\* The event among them that sets the plan.
LEMMA Announced ==
    ASSUME TypeOK, NEW s \in Subs, NEW sub, NEW types, Bills(s, sub, types)
    PROVE  /\ DOMAIN events \subseteq DOMAIN events'
           /\ \A i \in DOMAIN events : events'[i] = events[i]
           /\ \A i \in DOMAIN events' \ DOMAIN events :
                 /\ \A j \in DOMAIN events : j < i
                 /\ events'[i].sub = s /\ events'[i].plan = sub.plan /\ events'[i].status \in Billable
                 /\ events'[i].type \in {"checkout", "updated", "failed", "paid"}
           /\ \E i \in DOMAIN events' \ DOMAIN events :
                 /\ Setter(i)' /\ (types[1] = "checkout" => Opening(i, s)')
                 /\ \A j \in DOMAIN events' : j > i => ~Setter(j)'
<1> DEFINE n == Len(events)
<1>1. /\ types \in Reports /\ types \in {<<"checkout", "paid">>, <<"failed", "updated">>,
                                         <<"paid", "updated">>, <<"updated">>}
      /\ sub.status \in Billable /\ Changes(s, sub, types) /\ sub.plan \in Plans
  BY DEF Bills, Reports
<1>2. /\ n \in Nat /\ Len(types) \in {1, 2}
      /\ DOMAIN events = 1..n /\ DOMAIN events' = 1..(n + Len(types))
      /\ \A i \in DOMAIN events : events'[i] = events[i]
      /\ \A k \in 1..Len(types) : events'[n + k] = About(types[k], s, sub)
  BY <1>1, Appends
<1> HIDE DEF n
<1>3. ASSUME NEW i \in DOMAIN events' \ DOMAIN events
      PROVE  /\ \A j \in DOMAIN events : j < i
             /\ \E k \in 1..Len(types) : i = n + k
  <2>1. i - n \in 1..Len(types) /\ i = n + (i - n) /\ i > n
    BY <1>2
  <2> QED
    BY <1>2, <2>1
<1>4. \A k \in 1..Len(types) : types[k] \in {"checkout", "updated", "failed", "paid"}
  BY <1>1
<1>5. ASSUME NEW i \in DOMAIN events' \ DOMAIN events
      PROVE  /\ events'[i].sub = s /\ events'[i].plan = sub.plan /\ events'[i].status \in Billable
             /\ events'[i].type \in {"checkout", "updated", "failed", "paid"}
  <2>1. PICK k \in 1..Len(types) : i = n + k
    BY <1>3
  <2>2. events'[i] = About(types[k], s, sub)
    BY <1>2, <2>1
  <2> QED
    BY <1>1, <1>4, <2>2 DEF About
<1>9. DOMAIN events \subseteq DOMAIN events'
  BY <1>2
<1> SUFFICES \E i \in DOMAIN events' \ DOMAIN events :
                 /\ Setter(i)' /\ (types[1] = "checkout" => Opening(i, s)')
                 /\ \A j \in DOMAIN events' : j > i => ~Setter(j)'
  BY <1>2, <1>3, <1>5, <1>9
<1>6. CASE types = <<"checkout", "paid">>
  <2>1. Len(types) = 2 /\ types[1] = "checkout" /\ types[2] = "paid"
    BY <1>6
  <2>2. /\ DOMAIN events' = 1..(n + 2) /\ n + 1 \in DOMAIN events' \ DOMAIN events
        /\ \A j \in DOMAIN events' : j > n + 1 => j = n + 2
        /\ 1 \in 1..Len(types) /\ Len(types) \in 1..Len(types)
    BY <1>2, <2>1
  <2>3. /\ events'[n + 1] = About(types[1], s, sub)
        /\ events'[n + Len(types)] = About(types[Len(types)], s, sub)
    BY <1>2, <2>2
  <2>4. events'[n + 1].type = types[1] /\ events'[n + 2].type = types[2]
    BY <2>1, <2>3 DEF About
  <2> QED
    BY <1>5, <2>1, <2>2, <2>4 DEF Setter, Opening
<1>7. CASE types \in {<<"failed", "updated">>, <<"paid", "updated">>}
  <2>1. Len(types) = 2 /\ types[1] # "checkout" /\ types[2] = "updated"
    BY <1>7
  <2>2. /\ DOMAIN events' = 1..(n + 2) /\ n + 2 \in DOMAIN events' \ DOMAIN events
        /\ ~\E j \in DOMAIN events' : j > n + 2
        /\ 2 \in 1..Len(types) /\ Len(types) \in 1..Len(types)
    BY <1>2, <2>1
  <2>3. /\ events'[n + 2] = About(types[2], s, sub)
        /\ events'[n + Len(types)] = About(types[Len(types)], s, sub)
    BY <1>2, <2>2
  <2>4. events'[n + 2].type = types[2] /\ events'[n + 2].type = types[2]
    BY <2>1, <2>3 DEF About
  <2> QED
    BY <1>5, <2>1, <2>2, <2>4 DEF Setter
<1>8. CASE types = <<"updated">>
  <2>1. Len(types) = 1 /\ types[1] = "updated"
    BY <1>8
  <2>2. /\ DOMAIN events' = 1..(n + 1) /\ n + 1 \in DOMAIN events' \ DOMAIN events
        /\ ~\E j \in DOMAIN events' : j > n + 1
        /\ 1 \in 1..Len(types) /\ Len(types) \in 1..Len(types)
    BY <1>2, <2>1
  <2>3. /\ events'[n + 1] = About(types[1], s, sub)
        /\ events'[n + Len(types)] = About(types[Len(types)], s, sub)
    BY <1>2, <2>2
  <2>4. events'[n + 1].type = types[1] /\ events'[n + 1].type = types[1]
    BY <2>1, <2>3 DEF About
  <2> QED
    BY <1>5, <2>1, <2>2, <2>4 DEF Setter
<1> QED
  BY <1>1, <1>6, <1>7, <1>8

LEMMA BillsKept ==
    ASSUME TypeOK, Logged, Told, NEW s \in Subs, NEW sub, NEW types, Bills(s, sub, types),
           slips \subseteq slips'
    PROVE  /\ Onward /\ Logged' /\ Told'
           /\ \E j \in DOMAIN events' \ DOMAIN events : Setter(j)'
<1>1. /\ DOMAIN events \subseteq DOMAIN events'
      /\ \A i \in DOMAIN events : events'[i] = events[i]
      /\ \A i \in DOMAIN events' \ DOMAIN events :
            /\ \A j \in DOMAIN events : j < i
            /\ events'[i].sub = s /\ events'[i].plan = sub.plan /\ events'[i].status \in Billable
            /\ events'[i].type \in {"checkout", "updated", "failed", "paid"}
  BY Announced
<1>2. PICK n \in DOMAIN events' \ DOMAIN events :
          /\ Setter(n)' /\ (types[1] = "checkout" => Opening(n, s)')
          /\ \A j \in DOMAIN events' : j > n => ~Setter(j)'
  BY Announced
<1>3. /\ \A t \in Subs : stripe'[t] = IF t = s THEN sub ELSE stripe[t]
      /\ sub.status \in Billable /\ sub.refunded = stripe[s].refunded
  BY DEF Bills, Changes, TypeOK
<1>4. Live(s) \/ (stripe[s].status = "open" /\ types[1] = "checkout")
  BY DEF Bills
<1>5. /\ Live(s)' /\ Begun(s)' /\ (Begun(s) => Live(s))
      /\ \A t \in Subs : t # s => (Live(t)' <=> Live(t)) /\ (Begun(t)' <=> Begun(t))
  BY <1>3, <1>4 DEF Live, Begun, Billable
<1>6. /\ \A i \in DOMAIN events : i \in Nat /\ events[i].sub \in Subs
      /\ \A i \in DOMAIN events' \ DOMAIN events : \A j \in DOMAIN events : ~(j > i)
  <2>1. \A i \in DOMAIN events : i \in Nat /\ events[i].sub \in Subs
    BY EventsTyped
  <2>2. \A i \in DOMAIN events' : i \in Nat
    BY Appends DEF Bills, Reports
  <2>3. ASSUME NEW i \in DOMAIN events' \ DOMAIN events, NEW j \in DOMAIN events
        PROVE  ~(j > i)
    <3>1. i \in Nat /\ j \in Nat /\ j < i
      BY <1>1, <2>1, <2>2
    <3> QED
      BY <3>1
  <2> QED
    BY <2>1, <2>3
<1>7. Onward
  BY <1>1, <1>2, <1>3, <1>5 DEF Onward
<1>8. Logged'
  <2>1. ASSUME NEW i \in DOMAIN events'
        PROVE  /\ Begun(events[i].sub)'
               /\ Setter(i)' => events'[i].status \in Billable
               /\ events'[i].type = "refunded" =>
                     \E c \in DOMAIN events' : c < i /\ Opening(c, events[i].sub)'
    <3>1. CASE i \in DOMAIN events
      BY <1>1, <1>5, <1>6, <3>1 DEF Logged, Setter, Opening
    <3>2. CASE i \notin DOMAIN events
      BY <1>1, <1>5, <3>2
    <3> QED
      BY <3>1, <3>2
  <2>2. ASSUME NEW t \in Subs
        PROVE  /\ stripe'[t].refunded => Begun(t)'
               /\ Begun(t)' => \E c \in DOMAIN events' : Opening(c, t)'
    <3>1. CASE Begun(t)
      BY <1>1, <1>3, <1>5, <3>1 DEF Logged, Opening
    <3>2. CASE ~Begun(t)
      BY <1>2, <1>3, <1>4, <1>5, <3>2 DEF Logged, Begun, Live
    <3> QED
      BY <3>1, <3>2
  <2> QED
    BY <2>1, <2>2 DEF Logged
<1>9. Told'
  <2> SUFFICES ASSUME "doubled" \notin slips'
               PROVE  \A u \in Subs : Live(u)' =>
                         /\ \A t \in Subs : Live(t)' => t = u
                         /\ \E i \in DOMAIN events' : LastWord(i, u)'
                         /\ \A i \in DOMAIN events' : Setter(i)' /\ events'[i].sub = u =>
                               \A j \in DOMAIN events' : j > i =>
                                   ~Ending(j)' /\ (Setter(j)' => events'[j].sub = u)
    BY DEF Told
  <2>1. \A t \in Subs : Live(t)' => t = s
    BY <1>3, <1>5 DEF Told, Bills
  <2>2. LastWord(n, s)'
    BY <1>1, <1>2, <1>3 DEF LastWord
  <2>3. ASSUME NEW i \in DOMAIN events', Setter(i)', events'[i].sub = s,
               NEW j \in DOMAIN events', j > i
        PROVE  ~Ending(j)' /\ (Setter(j)' => events'[j].sub = s)
    <3>1. CASE j \notin DOMAIN events
      BY <1>1, <3>1 DEF Ending
    <3>2. CASE j \in DOMAIN events
      <4>1. i \in DOMAIN events
        BY <1>6, <2>3, <3>2
      <4>2. Live(s)
        BY <1>1, <1>5, <2>3, <4>1 DEF Logged
      <4>3. Setter(i) /\ events[i].sub = s
        BY <1>1, <2>3, <4>1 DEF Setter
      <4>4. ~Ending(j) /\ (Setter(j) => events[j].sub = s)
        BY <2>3, <3>2, <4>1, <4>2, <4>3 DEF Told
      <4> QED
        BY <1>1, <3>2, <4>4 DEF Ending, Setter
    <3> QED
      BY <3>1, <3>2
  <2> QED
    BY <2>1, <2>2, <2>3
<1> QED
  BY <1>2, <1>7, <1>8, <1>9

\* The steps of Stripe that report one event and no plan.
LEMMA EndsKept ==
    ASSUME TypeOK, Sold, Logged, Told, NEW s \in Subs, slips \subseteq slips',
           \/ /\ Live(s)
              /\ Changes(s, [stripe[s] EXCEPT !.status = "canceled"], <<"deleted">>)
           \/ Refunds(s)
    PROVE  Onward /\ Logged' /\ Told'
<1>1. PICK sub, types :
          /\ Changes(s, sub, types) /\ sub.plan = stripe[s].plan
          /\ \/ /\ Live(s) /\ sub.status = "canceled" /\ sub.refunded = stripe[s].refunded
                /\ types = <<"deleted">>
             \/ /\ Begun(s) /\ sub.status = stripe[s].status /\ types = <<"refunded">>
  <2>1. stripe[s] \in SubState
    BY DEF TypeOK, SubState
  <2>2. ASSUME Live(s), Changes(s, [stripe[s] EXCEPT !.status = "canceled"], <<"deleted">>)
        PROVE  \E sub, types :
                  /\ Changes(s, sub, types) /\ sub.plan = stripe[s].plan
                  /\ Live(s) /\ sub.status = "canceled" /\ sub.refunded = stripe[s].refunded
                  /\ types = <<"deleted">>
    <3>1. LET sub == [stripe[s] EXCEPT !.status = "canceled"] IN
              /\ sub.plan = stripe[s].plan
              /\ sub.status = "canceled" /\ sub.refunded = stripe[s].refunded
      BY <2>1 DEF SubState
    <3> QED
      BY <2>2, <3>1
  <2>3. ASSUME Refunds(s)
        PROVE  \E sub, types :
                  /\ Changes(s, sub, types) /\ sub.plan = stripe[s].plan
                  /\ Begun(s) /\ sub.status = stripe[s].status /\ types = <<"refunded">>
    <3>1. LET sub == [stripe[s] EXCEPT !.refunded = TRUE] IN
              sub.plan = stripe[s].plan /\ sub.status = stripe[s].status
      BY <2>1 DEF SubState
    <3> QED
      BY <2>3, <3>1 DEF Refunds, Begun
  <2> QED
    BY <2>2, <2>3
<1>2. /\ types \in Reports /\ sub.status \in Billable \cup {"canceled"} /\ sub.plan \in Plans
      /\ Len(types) = 1 /\ 1 \in 1..Len(types) /\ types[1] \in {"deleted", "refunded"}
      /\ types = <<types[1]>> /\ Begun(s)
  BY <1>1 DEF Reports, Live, Sold, Begun, Billable
<1>3. /\ Len(events) \in Nat
      /\ DOMAIN events = 1..Len(events) /\ DOMAIN events' = 1..(Len(events) + Len(types))
      /\ \A i \in DOMAIN events : events'[i] = events[i]
      /\ \A k \in 1..Len(types) : events'[Len(events) + k] = About(types[k], s, sub)
  BY <1>1, <1>2, Appends
<1>n. PICK n \in Nat : n = Len(events) + 1
  BY <1>3
<1>4. events'[n] = About(types[1], s, sub)
  BY <1>2, <1>3, <1>n
<1>5. events'[n].type = types[1] /\ events'[n].sub = s
  BY <1>4 DEF About
<1>6. /\ DOMAIN events' = DOMAIN events \cup {n} /\ n \notin DOMAIN events
      /\ \A i \in DOMAIN events : i < n /\ ~(i > n) /\ i # n
      /\ ~(n > n)
  BY <1>2, <1>3, <1>n
<1>7. \A t \in Subs : stripe'[t] = IF t = s THEN sub ELSE stripe[t]
  BY <1>1 DEF Changes, TypeOK
<1>8. \A t \in Subs : /\ Begun(t)' <=> Begun(t)
                      /\ Live(t)' => Live(t) /\ stripe'[t].plan = stripe[t].plan
  BY <1>1, <1>2, <1>7 DEF Begun, Live, Billable
<1>9. \A i \in DOMAIN events : events[i].sub \in Subs
  BY EventsTyped
<1>10. Onward
  <2>1. sub.refunded = stripe[s].refunded \/ types[1] = "refunded"
    BY <1>1
  <2>2. ASSUME NEW t \in Subs, stripe'[t].refunded
        PROVE  stripe[t].refunded \/ \E i \in DOMAIN events' \ DOMAIN events : Refunding(i, t)'
    BY <1>5, <1>6, <1>7, <2>1, <2>2 DEF Refunding
  <2> QED
    BY <1>3, <1>6, <1>8, <2>2 DEF Onward
<1>11. Logged'
  <2>1. PICK c \in DOMAIN events : Opening(c, s)
    BY <1>2 DEF Logged
  <2>2. /\ Begun(events[n].sub)' /\ ~Setter(n)'
        /\ \E k \in DOMAIN events' : k < n /\ Opening(k, events[n].sub)'
    BY <1>2, <1>3, <1>5, <1>6, <1>8, <2>1 DEF Setter, Opening
  <2>3. ASSUME NEW i \in DOMAIN events
        PROVE  /\ Begun(events[i].sub)'
               /\ Setter(i)' => events'[i].status \in Billable
               /\ events'[i].type = "refunded" =>
                     \E k \in DOMAIN events' : k < i /\ Opening(k, events[i].sub)'
    BY <1>3, <1>6, <1>8, <1>9 DEF Logged, Setter, Opening
  <2>4. ASSUME NEW t \in Subs
        PROVE  /\ stripe'[t].refunded => Begun(t)'
               /\ Begun(t)' => \E k \in DOMAIN events' : Opening(k, t)'
    BY <1>2, <1>3, <1>6, <1>7, <1>8 DEF Logged, Opening
  <2> QED
    BY <1>6, <2>2, <2>3, <2>4 DEF Logged
<1>12. Told'
  <2> SUFFICES ASSUME "doubled" \notin slips', NEW u \in Subs, Live(u)'
               PROVE  /\ \A t \in Subs : Live(t)' => t = u
                      /\ \E i \in DOMAIN events' : LastWord(i, u)'
                      /\ \A i \in DOMAIN events' : Setter(i)' /\ events'[i].sub = u =>
                            \A j \in DOMAIN events' : j > i =>
                                ~Ending(j)' /\ (Setter(j)' => events'[j].sub = u)
    BY DEF Told
  <2>1. /\ Live(u) /\ stripe'[u].plan = stripe[u].plan
        /\ \A t \in Subs : Live(t)' => t = u
    BY <1>8 DEF Told
  <2>2. ~Setter(n)' /\ ~Ending(n)'
    <3>1. types[1] # "deleted"
      BY <1>1, <1>7, <2>1 DEF Live, Billable, Told
    <3> QED
      BY <1>2, <1>5, <3>1 DEF Setter, Ending
  <2>3. PICK i \in DOMAIN events : LastWord(i, u)
    BY <2>1 DEF Told
  <2>4. LastWord(i, u)'
    BY <1>3, <1>6, <2>1, <2>2, <2>3 DEF LastWord, Setter
  <2>5. \A k \in DOMAIN events : Setter(k) /\ events[k].sub = u =>
            \A j \in DOMAIN events : j > k => ~Ending(j) /\ (Setter(j) => events[j].sub = u)
    BY <2>1 DEF Told
  <2> QED
    BY <1>3, <1>6, <2>1, <2>2, <2>4, <2>5 DEF Setter, Ending
<1> QED
  BY <1>10, <1>11, <1>12

\* A session is opened, or nothing happens at Stripe.
LEMMA OpensKept ==
    ASSUME TypeOK, Logged, Told, slips \subseteq slips', UNCHANGED events,
           \/ UNCHANGED stripe
           \/ \E s \in Subs, p \in Plans :
                 /\ stripe[s].status = "none"
                 /\ stripe' = [stripe EXCEPT ![s].status = "open", ![s].plan = p]
    PROVE  Onward /\ Logged' /\ Told'
<1>1. \A t \in Subs : /\ Begun(t)' <=> Begun(t)
                      /\ Live(t)' <=> Live(t)
                      /\ Begun(t) => stripe'[t].plan = stripe[t].plan
                      /\ stripe'[t].refunded = stripe[t].refunded
  <2>1. CASE UNCHANGED stripe
    BY <2>1 DEF Begun, Live
  <2>2. ASSUME NEW s \in Subs, NEW p \in Plans, stripe[s].status = "none",
               stripe' = [stripe EXCEPT ![s].status = "open", ![s].plan = p],
               NEW t \in Subs
        PROVE  /\ stripe'[t].refunded = stripe[t].refunded
               /\ IF t = s THEN stripe'[t].status = "open" ELSE stripe'[t] = stripe[t]
    BY <2>2 DEF TypeOK
  <2> QED
    BY <2>1, <2>2 DEF Begun, Live, Billable
<1>2. \A t \in Subs : Live(t) => Begun(t)
  BY DEF Live, Begun
<1>3. \A i \in DOMAIN events : events[i].sub \in Subs
  BY EventsTyped
<1>4. Onward
  BY <1>1, <1>2 DEF Onward
<1>5. Logged'
  BY <1>1, <1>3 DEF Logged, Setter, Opening
<1>6. Told'
  BY <1>1, <1>2 DEF Told, LastWord, Setter, Ending
<1> QED
  BY <1>4, <1>5, <1>6

(***************************************************************************)
(* The rows, step by step.                                                 *)
(***************************************************************************)
\* What the handlers take up while none writes: a revocation only of what is not
\* live, a switch only with its event.
Asks ==
    \A w \in Workers :
        \/ task'[w] = task[w]
        \/ task'[w].kind \in {"idle", "switch", "refunded"}
        \/ task'[w].kind = "sync" /\ \E j \in DOMAIN events' \ DOMAIN events : Setter(j)'
        \/ /\ task'[w].kind = "revoke"
           /\ ~Live(row.sub)' \/ "refused" \in slips' \/ "unread" \in slips'
           /\ \/ task'[w].event = 0
              \/ task'[w].event \in DOMAIN events /\ events[task'[w].event].type = "refunded"

LEMMA AsksKept ==
    ASSUME BillingInv, Answers, Onward, Asks, UNCHANGED <<row, seen>>, slips \subseteq slips',
           events' \in Seq(Event)
    PROVE  Heard' /\ Linked' /\ Due' /\ Revoking'
<1>1. /\ DOMAIN events \subseteq DOMAIN events' /\ seen \subseteq DOMAIN events
      /\ \A i \in DOMAIN events : events'[i] = events[i]
      /\ Logged /\ Told /\ Heard /\ Linked /\ Due /\ Revoking
      /\ Len(events) \in Nat /\ DOMAIN events = 1..Len(events)
      /\ \A i \in DOMAIN events : i \in Nat /\ events[i].sub \in Subs
      /\ \A w \in Workers : task[w].event \in {0} \cup DOMAIN events
  BY EventsTyped DEF Onward, BillingInv, TypeOK, Answers, Sold
<1>2. Calm' => Calm /\ "refused" \notin slips' /\ "unread" \notin slips'
  BY <1>1 DEF Calm
<1>3. \A i \in DOMAIN events : Live(events[i].sub)' => Live(events[i].sub)
  BY <1>1 DEF Logged, Onward
<1>5. \A j \in DOMAIN events' : j \in Nat /\ j > 0
  BY LenProperties
<1>4. Heard'
  <2> SUFFICES ASSUME Calm', NEW s \in Subs, Live(s)', NEW i \in seen, LastWord(i, s)'
               PROVE  /\ row.sub = s /\ row.plan = stripe'[s].plan /\ row.status \in Billable
                      /\ \A w \in Workers : task'[w].kind \notin {"sync", "revoke"}
    BY DEF Heard
  <2>1. i \in DOMAIN events /\ Setter(i) /\ events[i].sub = s /\ Live(s)
    BY <1>1, <1>3 DEF LastWord, Setter
  <2>2. ~\E j \in DOMAIN events' \ DOMAIN events : Setter(j)'
    <3> SUFFICES ASSUME NEW j \in DOMAIN events' \ DOMAIN events, Setter(j)' PROVE FALSE
      OBVIOUS
    <3>1. j > i
      <4>1. j \in Nat /\ j > 0 /\ ~(j \in 1..Len(events)) /\ i \in 1..Len(events)
        BY <1>1, <1>5, <2>1
      <4> QED
        BY <1>1, <4>1
    <3> QED
      BY <3>1 DEF LastWord
  <2>3. stripe'[s].plan = stripe[s].plan
    BY <2>1, <2>2 DEF Onward
  <2>4. LastWord(i, s)
    BY <1>1, <2>1, <2>3 DEF LastWord, Setter
  <2>5. /\ row.sub = s /\ row.plan = stripe[s].plan /\ row.status \in Billable
        /\ \A w \in Workers : task[w].kind \notin {"sync", "revoke"}
    BY <1>1, <1>2, <2>1, <2>4 DEF Heard
  <2>6. \A w \in Workers : task'[w].kind \notin {"sync", "revoke"}
    BY <1>2, <2>2, <2>5 DEF Asks
  <2> QED
    BY <2>3, <2>5, <2>6
<1>6. Linked'
  <2> SUFFICES ASSUME Calm', NEW s \in Subs, Live(s)', NEW i \in seen, Opening(i, s)'
               PROVE  row.sub = s /\ \A w \in Workers : task'[w].kind # "revoke"
    BY DEF Linked
  <2>1. i \in DOMAIN events /\ Opening(i, s) /\ Live(s)
    BY <1>1, <1>3 DEF Opening
  <2>2. row.sub = s /\ \A w \in Workers : task[w].kind # "revoke"
    BY <1>1, <1>2, <2>1 DEF Linked
  <2> QED
    BY <1>2, <2>2 DEF Asks
<1>7. Due'
  <2> SUFFICES ASSUME Calm', NEW s \in Subs, Live(s)', stripe'[s].refunded
               PROVE  \E i \in DOMAIN events' \ seen : Refunding(i, s)'
    BY DEF Due
  <2>1. CASE \E i \in DOMAIN events' \ DOMAIN events : Refunding(i, s)'
    BY <1>1, <2>1
  <2>2. CASE stripe[s].refunded
    <3>1. Live(s)
      BY <1>1, <2>2 DEF Logged, Onward
    <3>2. PICK i \in DOMAIN events \ seen : Refunding(i, s)
      BY <1>1, <1>2, <2>2, <3>1 DEF Due
    <3> QED
      BY <1>1, <3>2 DEF Refunding
  <2> QED
    BY <2>1, <2>2 DEF Onward
<1>8. Revoking'
  <2> SUFFICES ASSUME NEW w \in Workers, NEW i \in DOMAIN events',
                      task'[w].kind = "revoke", task'[w].event = i
               PROVE  /\ events'[i].type = "refunded"
                      /\ Calm' /\ (\A k \in DOMAIN events' : k < i => k \in seen')
                            => ~Live(events[i].sub)'
    BY DEF Revoking
  <2>1. i \in DOMAIN events /\ events[i].type = "refunded"
    BY <1>1, <1>5 DEF Asks, Revoking
  <2>2. ASSUME Calm', \A k \in DOMAIN events' : k < i => k \in seen, Live(events[i].sub)'
        PROVE  FALSE
    <3>1. /\ Calm /\ (\A k \in DOMAIN events : k < i => k \in seen) /\ Live(events[i].sub)
          /\ events'[i] = events[i] /\ events[i].sub \in Subs
      BY <1>1, <1>2, <1>3, <2>1, <2>2
    <3>2. task'[w] # task[w]
      BY <1>1, <2>1, <3>1 DEF Revoking
    <3>3. ~Live(row.sub)'
      BY <1>2, <2>2, <3>2 DEF Asks
    <3>4. PICK c \in DOMAIN events : c < i /\ Opening(c, events[i].sub)
      BY <1>1, <2>1 DEF Logged
    <3>5. row.sub = events[i].sub
      BY <1>1, <3>1, <3>4 DEF Linked
    <3> QED
      BY <2>2, <3>1, <3>3, <3>5
  <2> QED
    BY <1>1, <2>1, <2>2
<1> QED
  BY <1>4, <1>6, <1>7, <1>8

\* A write of the event i by the webhook.
Heeds(r, i) ==
    /\ i \in DOMAIN events \ seen
    /\ \/ Setter(i) /\ r.sub = events[i].sub /\ r.plan = events[i].plan /\ r.status \in Billable
       \/ Ending(i)
       \/ /\ events[i].type \in {"failed", "paid"}
          /\ r.sub = row.sub /\ r.plan = row.plan /\ r.status \in Billable

LEMMA WritesKept ==
    ASSUME BillingInv, Answers, UNCHANGED <<stripe, events>>,
           NEW w \in Workers, NEW r, NEW i, Commits(w, r, i), task' = [task EXCEPT ![w] = Idle],
           \/ Heeds(r, i)
           \/ task[w].kind = "revoke" /\ i = task[w].event
           \/ task[w].kind = "sync" /\ i = 0 /\ r.sub = row.sub
    PROVE  Answers'
<1>1. /\ Logged /\ Told /\ Heard /\ Linked /\ Due /\ Revoking /\ seen \subseteq DOMAIN events
      /\ Len(events) \in Nat /\ DOMAIN events = 1..Len(events)
      /\ \A k \in DOMAIN events : k \in Nat /\ events[k].sub \in Subs
      /\ task \in [Workers -> TaskState] /\ i \in {0} \cup DOMAIN events
  BY EventsTyped DEF BillingInv, TypeOK, Answers, Sold, TaskState, Heeds
<1>2. /\ row' = r /\ seen' = seen \cup ({i} \ {0}) /\ slips \subseteq slips'
      /\ (\E v \in Workers \ {w} : task[v] # Idle) => "raced" \in slips'
      /\ (i # 0 /\ \E j \in seen : j > i) => "overtaken" \in slips'
  BY DEF Commits
<1>3. ASSUME Calm'
      PROVE  /\ Calm
             /\ \A v \in Workers : task'[v] = Idle
             /\ \A k \in DOMAIN events : i # 0 /\ k < i => k \in seen
  <2>1. \A v \in Workers : task'[v] = Idle
    BY <1>1, <1>2, <1>3 DEF Calm
  <2>2. \A k \in DOMAIN events : i # 0 /\ k < i => k \in seen
    BY <1>1, <1>2, <1>3 DEF Calm
  <2>3. ASSUME NEW j \in seen, NEW k \in DOMAIN events, k < j PROVE k \in seen
    BY <1>1, <1>2, <1>3, <2>3 DEF Calm
  <2> QED
    BY <1>2, <1>3, <2>1, <2>2, <2>3 DEF Calm
<1>4. Logged' /\ Told'
  BY <1>1, <1>2 DEF Logged, Told, Begun, Live, LastWord, Setter, Ending, Opening
<1>5. Heard'
  <2> SUFFICES ASSUME Calm', NEW s \in Subs, Live(s), NEW k \in seen', LastWord(k, s)
               PROVE  /\ row'.sub = s /\ row'.plan = stripe[s].plan /\ row'.status \in Billable
                      /\ \A v \in Workers : task'[v].kind \notin {"sync", "revoke"}
    BY DEF Heard, Live, LastWord, Setter
  <2>1. \A v \in Workers : task'[v].kind \notin {"sync", "revoke"}
    BY <1>3 DEF Idle
  <2>2. CASE k \in seen
    <3>1. /\ row.sub = s /\ row.plan = stripe[s].plan /\ row.status \in Billable
          /\ \A v \in Workers : task[v].kind \notin {"sync", "revoke"}
      BY <1>1, <1>3, <2>2 DEF Heard
    <3>2. Heeds(r, i)
      BY <3>1
    <3>3. i > k
      <4>1. i \in Nat /\ k \in Nat /\ i # k /\ ~(i < k)
        BY <1>1, <1>3, <2>2, <3>2 DEF Heeds, Calm
      <4> QED
        BY <4>1
    <3>4. ~Setter(i) /\ ~Ending(i)
      BY <1>1, <1>2, <2>2, <3>2, <3>3 DEF LastWord, Heeds, Told, Calm
    <3> QED
      BY <1>2, <2>1, <3>1, <3>2, <3>4 DEF Heeds
  <2>3. CASE k \notin seen
    <3>1. k = i /\ i # 0 /\ Setter(i)
      BY <1>2, <2>3 DEF LastWord
    <3>2. Heeds(r, i) /\ ~Ending(i)
      BY <1>1, <3>1 DEF Revoking, Setter, Ending
    <3> QED
      BY <1>2, <2>1, <3>1, <3>2 DEF Heeds, LastWord, Setter
  <2> QED
    BY <2>2, <2>3
<1>6. Linked'
  <2> SUFFICES ASSUME Calm', NEW s \in Subs, Live(s), NEW k \in seen', Opening(k, s)
               PROVE  row'.sub = s /\ \A v \in Workers : task'[v].kind # "revoke"
    BY DEF Linked, Live, Opening
  <2>1. \A v \in Workers : task'[v].kind # "revoke"
    BY <1>3 DEF Idle
  <2>2. CASE k \in seen
    <3>1. row.sub = s /\ \A v \in Workers : task[v].kind # "revoke"
      BY <1>1, <1>3, <2>2 DEF Linked
    <3>2. CASE Heeds(r, i)
      <4>1. i > k
        <5>1. i \in Nat /\ k \in Nat /\ i # k /\ ~(i < k)
          BY <1>1, <1>3, <2>2, <3>2 DEF Heeds, Calm
        <5> QED
          BY <5>1
      <4>2. Setter(k) /\ events[k].sub = s /\ k \in DOMAIN events /\ i \in DOMAIN events
        BY <1>1, <2>2, <3>2 DEF Opening, Setter, Heeds
      <4>3. ~Ending(i) /\ (Setter(i) => events[i].sub = s)
        BY <1>1, <1>2, <4>1, <4>2 DEF Told, Calm
      <4> QED
        BY <1>2, <2>1, <3>1, <3>2, <4>3 DEF Heeds
    <3> QED
      BY <1>2, <2>1, <3>1, <3>2
  <2>3. CASE k \notin seen
    <3>1. k = i /\ i # 0 /\ Setter(i) /\ events[i].sub = s
      BY <1>2, <2>3 DEF Opening, Setter
    <3>2. Heeds(r, i) /\ ~Ending(i)
      BY <1>1, <3>1 DEF Revoking, Setter, Ending
    <3> QED
      BY <1>2, <2>1, <3>1, <3>2 DEF Heeds, Setter
  <2> QED
    BY <2>2, <2>3
<1>7. Due'
  <2> SUFFICES ASSUME Calm', NEW s \in Subs, Live(s), stripe[s].refunded
               PROVE  \E k \in DOMAIN events \ seen' : Refunding(k, s)
    BY DEF Due, Live, Refunding
  <2>1. PICK k \in DOMAIN events \ seen : Refunding(k, s)
    BY <1>1, <1>3 DEF Due
  <2>2. ASSUME k = i PROVE FALSE
    <3>1. task[w].kind = "revoke" /\ i = task[w].event /\ i \in DOMAIN events
      BY <1>1, <2>1, <2>2 DEF Heeds, Refunding, Setter, Ending
    <3>2. \A j \in DOMAIN events : j < i => j \in seen
      BY <1>1, <1>3, <3>1
    <3>3. ~Live(events[i].sub)
      BY <1>1, <1>3, <3>1, <3>2 DEF Revoking
    <3> QED
      BY <2>1, <2>2, <3>3 DEF Refunding
  <2> QED
    BY <1>2, <2>1, <2>2
<1>8. Revoking'
  <2> SUFFICES ASSUME NEW v \in Workers, NEW k \in DOMAIN events,
                      task'[v].kind = "revoke", task'[v].event = k
               PROVE  /\ events[k].type = "refunded"
                      /\ Calm' /\ (\A j \in DOMAIN events : j < k => j \in seen')
                            => ~Live(events[k].sub)
    BY DEF Revoking, Live
  <2>1. task[v].kind = "revoke" /\ task[v].event = k
    BY <1>1 DEF Idle
  <2> QED
    BY <1>1, <1>3, <2>1 DEF Revoking, Idle
<1> QED
  BY <1>4, <1>5, <1>6, <1>7, <1>8 DEF Answers

LEMMA RevocationStep ==
    ASSUME BillingInv, Answers, events' \in Seq(Event), NEW w \in Workers,
           NEW i, i = 0 \/ (i \in DOMAIN events /\ events[i].type = "refunded"),
           CancelThenRevoke(w, i)
    PROVE  Answers'
<1>1. /\ TypeOK /\ Sold /\ Logged /\ Told /\ slips \subseteq slips' /\ UNCHANGED <<row, seen>>
      /\ task' = [task EXCEPT ![w] = Task("revoke", row.sub, None, i)]
  BY DEF BillingInv, Answers, CancelThenRevoke, Slip
<1>2. Onward /\ Logged' /\ Told' /\ (~Live(row.sub)' \/ "refused" \in slips')
  <2>1. CASE /\ Live(row.sub)
             /\ Changes(row.sub, [stripe[row.sub] EXCEPT !.status = "canceled"], <<"deleted">>)
    <3>1. PICK s \in Subs : s = row.sub
      BY <2>1 DEF Live
    <3>2. stripe'[s].status = "canceled"
      BY <1>1, <2>1, <3>1 DEF Changes, TypeOK
    <3>3. ~Live(row.sub)'
      BY <1>1, <3>1, <3>2 DEF Live, Billable
    <3>4. Onward /\ Logged' /\ Told'
      BY <1>1, <2>1, <3>1, EndsKept
    <3> QED
      BY <3>3, <3>4
  <2>2. CASE Slip("refused", TRUE) /\ UNCHANGED <<stripe, events>>
    BY <1>1, <2>2, OpensKept DEF Slip
  <2>3. CASE ~Live(row.sub) /\ UNCHANGED <<stripe, events, slips>>
    <3>1. ~Live(row.sub)'
      BY <1>1, <2>3 DEF Live
    <3> QED
      BY <1>1, <2>3, <3>1, OpensKept
  <2> QED
    BY <2>1, <2>2, <2>3 DEF CancelThenRevoke
<1>3. Asks
  <2>1. ASSUME NEW v \in Workers
        PROVE  task'[v] = IF v = w THEN Task("revoke", row.sub, None, i) ELSE task[v]
    BY <1>1 DEF TypeOK
  <2> QED
    BY <1>2, <2>1 DEF Asks, Task
<1> QED
  BY <1>1, <1>2, <1>3, AsksKept DEF Answers

LEMMA SwitchAnswers ==
    ASSUME BillingInv, Answers, events' \in Seq(Event), NEW w \in Workers, SwitchPrice(w)
    PROVE  Answers'
<1>1. /\ TypeOK /\ Sold /\ Logged /\ Told /\ UNCHANGED <<row, seen, slips>>
      /\ task[w].kind = "switch" /\ task[w].plan \in Plans /\ task \in [Workers -> TaskState]
  BY DEF BillingInv, Answers, SwitchPrice, Sold, TypeOK, TaskState
<1>2. CASE /\ Live(task[w].sub) /\ task' = [task EXCEPT ![w].kind = "sync"]
           /\ Changes(task[w].sub, [stripe[task[w].sub] EXCEPT !.plan = task[w].plan], <<"updated">>)
  <2>1. PICK s \in Subs : s = task[w].sub
    BY <1>2 DEF Live
  <2>2. Bills(s, [stripe[s] EXCEPT !.plan = task[w].plan], <<"updated">>)
    BY <1>1, <1>2, <2>1 DEF Bills, Live, TypeOK
  <2>3. /\ Onward /\ Logged' /\ Told'
        /\ \E j \in DOMAIN events' \ DOMAIN events : Setter(j)'
    BY <1>1, <2>2, BillsKept
  <2>4. \A v \in Workers : task'[v] = task[v] \/ task'[v].kind = "sync"
    BY <1>1, <1>2 DEF TaskState
  <2>5. Asks
    BY <2>3, <2>4 DEF Asks
  <2> QED
    BY <1>1, <2>3, <2>5, AsksKept DEF Answers
<1>3. CASE task' = [task EXCEPT ![w] = Idle] /\ UNCHANGED <<stripe, events>>
  <2>1. Onward /\ Logged' /\ Told'
    BY <1>1, <1>3, OpensKept
  <2>2. Asks
    BY <1>1, <1>3 DEF Asks, Idle
  <2> QED
    BY <1>1, <2>1, <2>2, AsksKept DEF Answers
<1> QED
  BY <1>2, <1>3 DEF SwitchPrice

LEMMA StripeAnswers ==
    ASSUME BillingInv, Answers, events' \in Seq(Event), NEW s \in Subs,
           Pay(s) \/ Evolves(s) \/ (\E p \in Plans : OpenSession(s, p))
    PROVE  Answers'
<1>1. /\ TypeOK /\ Sold /\ Logged /\ Told /\ slips \subseteq slips' /\ UNCHANGED <<row, seen, task>>
      /\ stripe[s] \in SubState
  BY DEF BillingInv, Answers, Pay, Evolves, OpenSession, LocalUnchanged, Slip, TypeOK, SubState
<1>b. ASSUME NEW sub, NEW types, Bills(s, sub, types) PROVE Onward /\ Logged' /\ Told'
  BY <1>1, <1>b, BillsKept
<1>2. CASE Pay(s)
  <2>1. Bills(s, [stripe[s] EXCEPT !.status = "active"], <<"checkout", "paid">>)
    BY <1>1, <1>2 DEF Pay, Bills, Slip, Sold, SubState, Billable
  <2> QED
    BY <1>1, <1>b, <2>1, AsksKept DEF Asks, Answers
<1>3. CASE Evolves(s)
  <2> SUFFICES Onward /\ Logged' /\ Told'
    BY <1>1, AsksKept DEF Asks, Answers
  <2>1. CASE /\ stripe[s].status = "active"
             /\ Changes(s, [stripe[s] EXCEPT !.status = "past_due"], <<"failed", "updated">>)
    <3>1. Bills(s, [stripe[s] EXCEPT !.status = "past_due"], <<"failed", "updated">>)
      BY <1>1, <2>1 DEF Bills, Sold, SubState, Live, Billable
    <3> QED
      BY <1>b, <3>1
  <2>2. CASE /\ stripe[s].status = "past_due"
             /\ Changes(s, [stripe[s] EXCEPT !.status = "active"], <<"paid", "updated">>)
    <3>1. Bills(s, [stripe[s] EXCEPT !.status = "active"], <<"paid", "updated">>)
      BY <1>1, <2>2 DEF Bills, Sold, SubState, Live, Billable
    <3> QED
      BY <1>b, <3>1
  <2>3. ASSUME NEW p \in Plans, Live(s), Changes(s, [stripe[s] EXCEPT !.plan = p], <<"updated">>)
        PROVE  Onward /\ Logged' /\ Told'
    <3>1. Bills(s, [stripe[s] EXCEPT !.plan = p], <<"updated">>)
      BY <1>1, <2>3 DEF Bills, SubState, Live
    <3> QED
      BY <1>b, <3>1
  <2>4. CASE \/ /\ Live(s)
                /\ Changes(s, [stripe[s] EXCEPT !.status = "canceled"], <<"deleted">>)
             \/ Refunds(s)
    BY <1>1, <2>4, EndsKept
  <2> QED
    BY <1>3, <2>1, <2>2, <2>3, <2>4 DEF Evolves
<1>4. ASSUME NEW p \in Plans, OpenSession(s, p) PROVE Answers'
  <2>1. Onward /\ Logged' /\ Told'
    BY <1>1, <1>4, OpensKept DEF OpenSession
  <2> QED
    BY <1>1, <2>1, AsksKept DEF Asks, Answers
<1> QED
  BY <1>2, <1>3, <1>4

LEMMA WriteAnswers ==
    ASSUME BillingInv, Answers, NEW w \in Workers,
           Revoke(w) \/ Sync(w) \/ \E i \in DOMAIN events : Deliver(w, i)
    PROVE  Answers'
<1>1. TypeOK /\ Logged /\ row \in RowState /\ task \in [Workers -> TaskState]
  BY DEF BillingInv, Answers, TypeOK, RowState, TaskState
<1>2. CASE Revoke(w)
  <2>1. /\ Commits(w, Revoked, task[w].event) /\ task[w].kind = "revoke"
        /\ task' = [task EXCEPT ![w] = Idle] /\ UNCHANGED <<stripe, events>>
    BY <1>2 DEF Revoke
  <2> QED
    BY <2>1, WritesKept
<1>3. CASE Sync(w)
  <2> DEFINE r == [row EXCEPT !.plan = task[w].plan]
  <2>1. /\ Commits(w, r, 0) /\ task[w].kind = "sync" /\ r.sub = row.sub
        /\ task' = [task EXCEPT ![w] = Idle] /\ UNCHANGED <<stripe, events>>
    BY <1>1, <1>3 DEF Sync, RowState
  <2> HIDE DEF r
  <2> QED
    BY <2>1, WritesKept
<1>4. ASSUME NEW i \in DOMAIN events, Deliver(w, i) PROVE Answers'
  <2>1. /\ i \in DOMAIN events \ seen /\ UNCHANGED <<stripe, events>>
        /\ task' = [task EXCEPT ![w] = Idle]
    BY <1>1, <1>4 DEF Deliver, Unseen
  <2>2. \E r : Commits(w, r, i) /\ Heeds(r, i)
    <3>1. CASE events[i].type = "checkout" /\ Commits(w, CheckoutCompleted(events[i]), i)
      BY <2>1, <3>1 DEF Heeds, CheckoutCompleted, Setter, Billable
    <3>2. CASE events[i].type = "updated" /\ Commits(w, SubscriptionUpdated(events[i]), i)
      BY <1>1, <2>1, <3>2 DEF Heeds, SubscriptionUpdated, Setter, Logged
    <3>3. CASE events[i].type = "deleted" /\ Commits(w, Revoked, i)
      BY <2>1, <3>3 DEF Heeds, Ending
    <3>4. CASE events[i].type = "failed" /\ Commits(w, [row EXCEPT !.status = "past_due"], i)
      <4>1. Heeds([row EXCEPT !.status = "past_due"], i)
        BY <1>1, <2>1, <3>4 DEF Heeds, RowState, Billable
      <4> QED
        BY <3>4, <4>1
    <3>5. CASE events[i].type = "paid" /\ Commits(w, [row EXCEPT !.status = "active"], i)
      <4>1. Heeds([row EXCEPT !.status = "active"], i)
        BY <1>1, <2>1, <3>5 DEF Heeds, RowState, Billable
      <4> QED
        BY <3>5, <4>1
    <3> QED
      BY <1>4, <3>1, <3>2, <3>3, <3>4, <3>5 DEF Deliver
  <2> QED
    BY <2>1, <2>2, WritesKept
<1> QED
  BY <1>2, <1>3, <1>4

\* The steps of an administrator, a failure, and a switch that is asked for.
LEMMA OtherAnswers ==
    ASSUME BillingInv, Answers, events' \in Seq(Event),
           \/ \E w \in Workers : \/ Reconcile(w) \/ Fail(w)
                                 \/ \E p \in Plans : AskSwitch(w, p)
                                 \/ \E s \in Subs : AdminRefund(w, s)
           \/ ClearGrant \/ SetSpendCap \/ (\E p \in Plans : Grant(p)) \/ UNCHANGED vars
    PROVE  Answers'
<1>1. /\ TypeOK /\ Sold /\ Logged /\ Told /\ UNCHANGED <<row, seen>> /\ slips \subseteq slips'
      /\ task \in [Workers -> TaskState] /\ row.sub \in Subs \cup {None}
  BY DEF BillingInv, Answers, TypeOK, TaskState,
         Reconcile, Fail, AskSwitch, AdminRefund, ClearGrant, SetSpendCap, Grant, Slip, vars
<1>2. Onward /\ Logged' /\ Told'
  <2>1. CASE UNCHANGED <<stripe, events>>
    BY <1>1, <2>1, OpensKept
  <2>2. CASE \E s \in Subs : Refunds(s)
    BY <1>1, <2>2, EndsKept
  <2> QED
    BY <2>1, <2>2 DEF Reconcile, Fail, AskSwitch, AdminRefund, ClearGrant, SetSpendCap, Grant, vars
<1>3. Asks
  <2>1. ASSUME NEW w \in Workers, Reconcile(w) PROVE Asks
    <3>1. ~Live(row.sub)' \/ "unread" \in slips'
      BY <1>1, <2>1, BillingAssumption DEF Reconcile, Slip, Live
    <3> QED
      BY <1>1, <2>1, <3>1 DEF Asks, Reconcile, Task
  <2>2. ASSUME NEW w \in Workers,
               Fail(w) \/ (\E p \in Plans : AskSwitch(w, p)) \/ (\E s \in Subs : AdminRefund(w, s))
        PROVE  Asks
    BY <1>1, <2>2 DEF Asks, Fail, AskSwitch, AdminRefund, Task, Idle
  <2> QED
    BY <2>1, <2>2 DEF Asks, ClearGrant, SetSpendCap, Grant, vars
<1> QED
  BY <1>1, <1>2, <1>3, AsksKept DEF Answers

LEMMA AnswersStep ==
    ASSUME BillingInv, Answers, [Next]_vars
    PROVE  Answers'
<1>1. events' \in Seq(Event)
  BY StripeStep DEF EventsGrow
<1>2. ASSUME NEW w \in Workers, AdminRevoke(w) \/ \E i \in DOMAIN events : DeliverRefund(w, i)
      PROVE  Answers'
  BY <1>1, <1>2, RevocationStep DEF AdminRevoke, DeliverRefund
<1> QED
  BY <1>1, <1>2, StripeAnswers, SwitchAnswers, WriteAnswers, OtherAnswers
  DEF Next, StripeNext, WebhookNext, AdminNext, CheckoutNext

LEMMA AnswersInit == Init => Answers
<1> SUFFICES ASSUME Init PROVE Answers
  OBVIOUS
<1>1. /\ DOMAIN events = {} /\ seen = {}
      /\ \A s \in Subs : stripe[s].status = "none" /\ stripe[s].refunded = FALSE
      /\ \A w \in Workers : task[w].kind = "idle"
  BY DEF Init, Idle
<1> QED
  BY <1>1 DEF Answers, Logged, Told, Heard, Linked, Due, Revoking, Live, Begun, Billable

\* What the events still have to say, in every state.
THEOREM AnswersInvariant == Spec => [](BillingInv /\ Answers)
<1>1. Init => BillingInv /\ Answers
  BY BillingInit, AnswersInit
<1>2. BillingInv /\ Answers /\ [Next]_vars => (BillingInv /\ Answers)'
  BY BillingStep, AnswersStep
<1> QED
  BY <1>1, <1>2, PTL DEF Spec

\* Stripe's bill against the row, through whatever handlers ran: a customer who is
\* billed has the plan that is billed for, once everything is processed.
THEOREM ChargedAccess == Spec => []ChargedHasAccess
<1>1. BillingInv /\ Answers => ChargedHasAccess
  <2> SUFFICES ASSUME BillingInv, Answers, Quiet, NEW s \in Subs, Live(s),
                      slips \cap {"overtaken", "refused", "raced", "doubled", "unread"} = {}
               PROVE  Entitled /\ row.sub = s /\ row.plan = stripe[s].plan
    BY DEF ChargedHasAccess
  <2>1. Calm /\ seen = DOMAIN events
    BY DEF Calm, Quiet
  <2>2. PICK i \in seen : LastWord(i, s)
    BY <2>1 DEF Answers, Told, Calm
  <2>3. row.sub = s /\ row.plan = stripe[s].plan /\ row.status \in Billable
    BY <2>1, <2>2 DEF Answers, Heard
  <2>4. stripe[s].plan \in Plans
    BY DEF BillingInv, Sold, Live, Billable
  <2> QED
    BY <2>3, <2>4, BillingAssumption DEF Entitled
<1> QED
  BY <1>1, AnswersInvariant, PTL

\* A refund or dispute against the row: the subscription whose charge was given
\* back gives no access, once everything is processed.
THEOREM RefundedAccess == Spec => []RefundedHasNoAccess
<1>1. BillingInv /\ Answers /\ ChargedHasAccess /\ AccessIsCharged => RefundedHasNoAccess
  <2> SUFFICES ASSUME BillingInv, Answers, ChargedHasAccess, AccessIsCharged, Quiet, Entitled,
                      slips \cap {"overtaken", "refused", "raced", "doubled", "unread"} = {},
                      row.sub \in Subs, stripe[row.sub].refunded
               PROVE  FALSE
    BY DEF RefundedHasNoAccess
  <2>1. Calm /\ seen = DOMAIN events
    BY DEF Calm, Quiet
  <2>2. PICK s \in Subs : Live(s)
    BY <2>1 DEF AccessIsCharged, Calm
  <2>3. row.sub = s
    BY <2>2 DEF ChargedHasAccess
  <2> QED
    BY <2>1, <2>2, <2>3 DEF Answers, Due
<1> QED
  BY <1>1, AnswersInvariant, AccessCharged, ChargedAccess, PTL

===============================================================================
