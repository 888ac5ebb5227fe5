----------------------------- MODULE EventStreams -----------------------------
(***************************************************************************)
(* The server-sent event streams: one follows an AgentRun row until it     *)
(* ends (services/agent_run_stream.py), the other tells a dashboard which  *)
(* tables of its user have changed (services/workspace_event_stream.py).   *)
(* Both are admitted by one StreamSlots object, poll the database, and     *)
(* close themselves at a deadline.                                         *)
(*                                                                         *)
(* A change of a table is noticed by its row count and by the largest of   *)
(* the watched timestamps of its rows, and a timestamp is NOW(), the time  *)
(* at which its transaction began.  One watched table, that of the         *)
(* approval cards: it has no "updatedAt", and what writes it may set a     *)
(* watched timestamp, clear one, or touch none.  The rows that are written *)
(* are those of the user of the workspace streams.                         *)
(*                                                                         *)
(* Every await of a stream may take any number of ticks.  Keep-alive       *)
(* comments and the contents of the frames are left out.                   *)
(***************************************************************************)
EXTENDS Naturals, FiniteSets, FiniteSetsExt

CONSTANTS RunStreams, WorkspaceStreams,   \* the connections that clients open
          Users, UserOf,                  \* UserOf[s]: the user of the connection s
          GlobalLimit, UserLimit,
          Lifetime,                       \* max_stream_seconds, in ticks
          Grace,                          \* SLOT_LEAK_GRACE_SECONDS, in ticks
          Rows,                           \* of the watched table
          MaxTxns                         \* transactions that write to it

Streams == RunStreams \cup WorkspaceStreams

ASSUME EventStreamsAssumption ==
    /\ RunStreams \cap WorkspaceStreams = {}
    /\ IsFiniteSet(Streams) /\ IsFiniteSet(Rows)
    /\ UserOf \in [Streams -> Users]
    /\ GlobalLimit \in Nat /\ UserLimit \in Nat
    /\ Lifetime \in Nat /\ Grace \in Nat \ {0}
    /\ MaxTxns \in Nat

VARIABLES pc,        \* pc[s]: where the handler or the generator of s is
          held,      \* StreamSlots: the streams whose token is not released
          age,       \* age[s]: ticks since s took its slot
          left,      \* left[s]: ticks until the generator's deadline
          rows,      \* rows[a]: a row's timestamps, and the time of its last writer
          now,       \* the time of the last transaction that began
          txns,      \* the times of the transactions that have not committed
          observed,  \* observed[s]: the row count and watermark last read
          actual     \* observation: the rows that it read

streamVars == <<pc, held, age, left>>
tableVars  == <<rows, txns, now>>
readVars   == <<observed, actual>>
vars == <<streamVars, tableVars, readVars>>

Live(s) == pc[s] \in {"lookup", "ready", "check", "reload"}
Open(s) == pc[s] \in {"check", "reload"}

Stamps == 1..(MaxTxns + 1)

\* A row: the later of "createdAt" and "resolvedAt"; "executedAt", 0 when it is
\* NULL; and, observed, the time of the transaction that wrote it last.
Present == [fixed: Stamps, executed: {0} \cup Stamps, written: Stamps]
Gone    == [fixed |-> 0, executed |-> 0, written |-> 0]

\* GREATEST, which ignores NULL
Stamp(row) == IF row.executed > row.fixed THEN row.executed ELSE row.fixed

Count     == Cardinality({a \in Rows : rows[a] # Gone})
Watermark == Max({Stamp(rows[a]) : a \in Rows} \cup {0})

\* read_watermarks: one query
Reading == [count |-> Count, mark |-> Watermark]

TypeOK ==
    /\ pc \in [Streams -> {"new", "lookup", "ready", "check", "reload",
                           "closed", "dropped"}]
    /\ held \subseteq Streams
    /\ age \in [Streams -> 0..(Lifetime + Grace)]
    /\ left \in [Streams -> 0..Lifetime]
    /\ rows \in [Rows -> Present \cup {Gone}]
    /\ now \in 1..(MaxTxns + 1) /\ txns \subseteq 2..(MaxTxns + 1)
    /\ observed \in [Streams -> [count: 0..Cardinality(Rows), mark: 0..(MaxTxns + 1)]]
    /\ actual \in [Streams -> [Rows -> Present \cup {Gone}]]

Init ==
    /\ pc = [s \in Streams |-> "new"]
    /\ held = {}
    /\ age = [s \in Streams |-> 0]
    /\ left = [s \in Streams |-> Lifetime]
    /\ rows = [a \in Rows |-> [fixed |-> 1, executed |-> 0, written |-> 1]]
    /\ now = 1 /\ txns = {}
    /\ observed = [s \in Streams |-> [count |-> 0, mark |-> 0]]
    /\ actual = [s \in Streams |-> [a \in Rows |-> Gone]]

-----------------------------------------------------------------------------
(* StreamSlots. *)

\* Mutant: the slot expires with the stream's lifetime, without the grace.
ExpiredAtDeadline(s) == age[s] >= Lifetime

\* A slot has outlived its stream's lifetime by the grace.
Expired(s) == age[s] >= Lifetime + Grace

\* _reap_locked
Kept == {s \in held : ~Expired(s)}

\* acquire reaps first, and then admits a stream below both limits.
Acquire(s) ==
    /\ pc[s] = "new"
    /\ \/ /\ Cardinality(Kept) < GlobalLimit
          /\ Cardinality({t \in Kept : UserOf[t] = UserOf[s]}) < UserLimit
          /\ held' = Kept \cup {s}
          /\ pc' = [pc EXCEPT ![s] = "lookup"]
       \/ /\ \/ Cardinality(Kept) >= GlobalLimit
             \/ Cardinality({t \in Kept : UserOf[t] = UserOf[s]}) >= UserLimit
          /\ held' = Kept
          /\ pc' = [pc EXCEPT ![s] = "closed"]    \* 429 or 503
    /\ UNCHANGED <<age, left, tableVars, readVars>>

\* A stream ends, with or without a closing frame, and its finally releases
\* the slot; the generator's variables are gone.
Closes(s) ==
    /\ pc' = [pc EXCEPT ![s] = "closed"]
    /\ held' = held \ {s}
    /\ age' = [age EXCEPT ![s] = 0]
    /\ left' = [left EXCEPT ![s] = Lifetime]
    /\ observed' = [observed EXCEPT ![s] = [count |-> 0, mark |-> 0]]
    /\ actual' = [actual EXCEPT ![s] = [a \in Rows |-> Gone]]

GoesOn(s, label) ==
    /\ pc' = [pc EXCEPT ![s] = label]
    /\ UNCHANGED <<held, age, left, observed, actual>>

-----------------------------------------------------------------------------
(* stream_run and stream_workspace_events. *)

Reads(s) ==
    /\ observed' = [observed EXCEPT ![s] = Reading]
    /\ actual' = [actual EXCEPT ![s] = rows]

\* The owner's run, or the first watermarks, are read.
LookUp(s) ==
    /\ pc[s] = "lookup"
    /\ pc' = [pc EXCEPT ![s] = "ready"]
    /\ IF s \in WorkspaceStreams THEN Reads(s) ELSE UNCHANGED readVars
    /\ UNCHANGED <<held, age, left, tableVars>>

\* Mutant: a failed lookup answers without releasing the slot.
LookUpFailsKeepingSlot(s) ==
    /\ pc[s] = "lookup"
    /\ pc' = [pc EXCEPT ![s] = "closed"]
    /\ UNCHANGED <<held, age, left, tableVars, readVars>>

\* No such run of this user, a read that raises, a cancelled request: all release the slot.
LookUpFails(s) ==
    /\ pc[s] = "lookup"
    /\ Closes(s)
    /\ UNCHANGED tableVars

\* The client is gone before the body is iterated: no finally ever runs.
DropUnstarted(s) ==
    /\ pc[s] = "ready"
    /\ pc' = [pc EXCEPT ![s] = "dropped"]
    /\ UNCHANGED <<held, age, left, tableVars, readVars>>

\* The generator starts: snapshot or hello.
Iterate(s) ==
    /\ pc[s] = "ready"
    /\ pc' = [pc EXCEPT ![s] = "check"]
    /\ left' = [left EXCEPT ![s] = Lifetime]
    /\ UNCHANGED <<held, age, tableVars, readVars>>

\* The client disconnects: noticed by the check, or thrown into the generator.
Disconnect(s) ==
    /\ Open(s)
    /\ Closes(s)
    /\ UNCHANGED tableVars

\* Mutant: the loop does not look at its deadline.
CheckForever(s) ==
    /\ pc[s] = "check"
    /\ pc' = [pc EXCEPT ![s] = "reload"]
    /\ UNCHANGED <<held, age, left, tableVars, readVars>>

\* The deadline is looked at between two polls; a run may have ended before the first.
Check(s) ==
    /\ pc[s] = "check"
    /\ \/ (left[s] = 0 \/ s \in RunStreams) /\ Closes(s)
       \/ left[s] > 0 /\ GoesOn(s, "reload")
    /\ UNCHANGED tableVars

\* iter_agent_run_events: the row is read again, and may have ended.
ReloadRun(s) ==
    /\ pc[s] = "reload" /\ s \in RunStreams
    /\ GoesOn(s, "check") \/ Closes(s)
    /\ UNCHANGED tableVars

\* Mutant: only the row counts are compared.
CountChanged(s) == observed[s].count # Reading.count

\* diff_watermarks
Changed(s) == observed[s] # Reading

\* iter_workspace_events: resource_changed, or nothing.
ReloadWorkspace(s) ==
    /\ pc[s] = "reload" /\ s \in WorkspaceStreams
    /\ Reads(s)
    /\ pc' = [pc EXCEPT ![s] = "check"]
    /\ UNCHANGED <<held, age, left, tableVars>>

\* The read raises, or the run's row is gone: stream_error.
ReloadFails(s) ==
    /\ pc[s] = "reload"
    /\ Closes(s)
    /\ UNCHANGED tableVars

Serve(s) == \/ LookUp(s) \/ LookUpFails(s) \/ Iterate(s)
            \/ Check(s) \/ ReloadRun(s) \/ ReloadWorkspace(s)

StreamNext(s) == Acquire(s) \/ Serve(s) \/ DropUnstarted(s) \/ Disconnect(s) \/ ReloadFails(s)

-----------------------------------------------------------------------------
(* What the streams watch. *)

\* A transaction begins: NOW() is fixed.
Begin ==
    /\ now <= MaxTxns
    /\ now' = now + 1
    /\ txns' = txns \cup {now + 1}
    /\ UNCHANGED <<streamVars, rows, readVars>>

\* create raises a card, and resolve decides it.
Stamped(row, t) == [row EXCEPT !.fixed = t, !.written = t]

\* claim_execution
Claimed(row, t) == [row EXCEPT !.executed = t, !.written = t]

\* release_execution withdraws the claim's timestamp.
Released(row, t) == [row EXCEPT !.executed = 0, !.written = t]

\* create refreshes a pending card, complete_execution sets "executionCompletedAt":
\* no column that is watched.
Refreshed(row, t) == [row EXCEPT !.written = t]

\* What a transaction of time t may leave of a row: a new card is only stamped.
Writes(row, t) ==
    {Stamped(row, t)} \cup
    {new \in {Claimed(row, t), Released(row, t), Refreshed(row, t), Gone} :
        /\ row # Gone
        /\ new = Claimed(row, t) => row.executed = 0}

\* It inserts, updates or deletes a row, and commits.
Commit(t) ==
    /\ txns' = txns \ {t}
    /\ \E a \in Rows : \E row \in Writes(rows[a], t) : rows' = [rows EXCEPT ![a] = row]
    /\ UNCHANGED <<streamVars, now, readVars>>

Tick ==
    /\ age' = [s \in Streams |->
                 IF (Live(s) \/ s \in held) /\ ~Expired(s) THEN age[s] + 1 ELSE age[s]]
    /\ left' = [s \in Streams |-> IF Open(s) /\ left[s] > 0 THEN left[s] - 1 ELSE left[s]]
    /\ UNCHANGED <<pc, held, tableVars, readVars>>

Next == \/ \E s \in Streams : StreamNext(s)
        \/ Begin \/ \E t \in txns : Commit(t)
        \/ Tick

Spec == Init /\ [][Next]_vars

\* The event loop and the thread pool serve every stream; time passes.
Fairness == WF_vars(Tick) /\ \A s \in Streams : WF_vars(Serve(s))

FairSpec == Spec /\ Fairness

-----------------------------------------------------------------------------
(* Properties. *)

\* A stream whose awaits have used up its lifetime and the grace.
Outlived(s) == age[s] >= Lifetime + Grace

\* The limits protect the database: whatever was reaped and leaked, no more
\* streams run at a time than they allow, those aside that outlived their slot.
CapHolds ==
    LET running == {s \in Streams : Live(s) /\ ~Outlived(s)} IN
    /\ Cardinality(running) <= GlobalLimit
    /\ \A u \in Users : Cardinality({s \in running : UserOf[s] = u}) <= UserLimit

\* Every way out gives the slot back, but for the response that was never
\* started, which only the reaping can recover.
SlotsAreReturned == \A s \in held : Live(s) \/ pc[s] = "dropped"

\* The dashboard's stream polls, the rows have changed since it last read
\* them, and it reports nothing.
Misses(s) == ReloadWorkspace(s) /\ actual[s] # rows /\ ~Changed(s)

\* A change can only be missed when a transaction committed after a later one
\* had been read, so that what it wrote is stamped below the watermark, or when
\* the last writer of the row left no timestamp of its own.
MissesAreLateOrUnstamped ==
    [][\A s \in WorkspaceStreams : Misses(s) =>
          \E a \in Rows : /\ rows[a] \notin {Gone, actual[s][a]}
                         /\ \/ Stamp(rows[a]) < observed[s].mark
                            \/ Stamp(rows[a]) # rows[a].written]_vars

\* Every stream comes to an end, also the dashboard's, which has no last event:
\* there is always a later time at which none of those admitted still runs.
EveryStreamCloses == []<>(\A s \in Streams : ~Live(s))

\* services/workspace_event_stream.py: "a mutation that neither changes the row
\* count nor advances any of a table's timestamp columns is NOT observed", but
\* every UPDATE sets "updatedAt" = NOW(), and the tables without one "have their
\* transition timestamps watched instead": all that the program does is observed.
ChangeIsReported == [][\A s \in WorkspaceStreams : ~Misses(s)]_vars

=============================================================================
