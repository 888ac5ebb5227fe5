------------------------------- MODULE DbPool -------------------------------
(***************************************************************************)
(* The process-wide pool of database connections, db.py: threads lease     *)
(* connections through get_connection(), may lease another one while they  *)
(* hold one, and wait for a slot until their deadline.                     *)
(*                                                                         *)
(* One action is one section under the pool's lock, or one step outside it:*)
(* dialling, validating, rolling back and closing all happen outside.      *)
(* Condition.wait leaves a waiter that timed out in the list of waiters    *)
(* until it has the lock again, so that notify() may still pick it.        *)
(*                                                                         *)
(* The age of an idle connection, and whether the server has hung up on it,*)
(* are left out: any may be handed out as it is or be recycled, any may be *)
(* dropped when its borrower leaves.  Left out as well are the pools of    *)
(* other DSNs and of forked processes, and close_all (tests).              *)
(***************************************************************************)
EXTENDS Naturals, Sequences, FiniteSets, SequencesExt

CONSTANTS Threads,
          MaxSize, MaxIdle,
          Depth,             \* bound: Depth[t], the connections t holds at a time
          MaxConn            \* connections are named 1..MaxConn, and names reused

Conns == 1..MaxConn

ASSUME PoolAssumption ==
    /\ IsFiniteSet(Threads)
    /\ MaxSize \in Nat \ {0} /\ MaxIdle \in Nat /\ Depth \in [Threads -> Nat]
    /\ MaxConn \in Nat /\ MaxConn >= MaxSize + Cardinality(Threads)

VARIABLES idle, open, leased,   \* _ConnectionPool
          waiters,              \* the waiters of its Condition
          pc, due,              \* a thread's place; its deadline has passed
          mine,                 \* mine[t]: what it holds, the innermost last
          cand,                 \* cand[t]: what it is taking or giving back, or 0
          sock,                 \* the connections themselves
          wasted                \* history: a notify went to a thread that gave up

poolVars == <<idle, open, leased>>
vars == <<poolVars, waiters, pc, due, mine, cand, sock, wasted>>

Asking(t)  == pc[t] \in {"ask", "wait", "woken", "late", "check", "dial"}
Leasing(t) == pc[t] \in {"check", "dial", "return", "drop"}

TypeOK ==
    /\ idle \in Seq(Conns) /\ Len(idle) <= MaxIdle
    /\ open \in 0..MaxSize /\ leased \in 0..MaxSize
    /\ waiters \subseteq Threads
    /\ pc \in [Threads -> {"run", "ask", "wait", "woken", "late", "check",
                           "dial", "return", "drop", "close"}]
    /\ due \in [Threads -> BOOLEAN]
    /\ mine \in [Threads -> Seq(Conns)]
    /\ \A t \in Threads : Len(mine[t]) <= Depth[t]
    /\ cand \in [Threads -> 0..MaxConn]
    /\ sock \in [Conns -> {"none", "clean", "dirty"}]
    /\ wasted \in BOOLEAN

Init ==
    /\ idle = <<>> /\ open = 0 /\ leased = 0
    /\ waiters = {}
    /\ pc = [t \in Threads |-> "run"] /\ due = [t \in Threads |-> FALSE]
    /\ mine = [t \in Threads |-> <<>>] /\ cand = [t \in Threads |-> 0]
    /\ sock = [c \in Conns |-> "none"]
    /\ wasted = FALSE

Goto(t, label) == pc' = [pc EXCEPT ![t] = label]

\* notify(): one waiter, if there is one, which may have timed out already.
Notify(t, label) ==
    \/ waiters = {} /\ Goto(t, label) /\ UNCHANGED waiters
    \/ \E w \in waiters :
         /\ waiters' = waiters \ {w}
         /\ pc' = [pc EXCEPT ![t] = label, ![w] = IF @ = "wait" THEN "woken" ELSE @]

-----------------------------------------------------------------------------
(* acquire *)

Ask(t) ==
    /\ pc[t] = "run" /\ Len(mine[t]) < Depth[t]
    /\ Goto(t, "ask")
    /\ due' = [due EXCEPT ![t] = FALSE]
    /\ UNCHANGED <<poolVars, waiters, mine, cand, sock, wasted>>

\* Time passes.
DeadlinePasses(t) ==
    /\ pc[t] \in {"ask", "wait", "woken"} /\ ~due[t]
    /\ due' = [due EXCEPT ![t] = TRUE]
    /\ UNCHANGED <<poolVars, waiters, pc, mine, cand, sock, wasted>>

Looks(t) == pc[t] \in {"ask", "woken"}
Full == idle = <<>> /\ open >= MaxSize

TakeIdle(t) ==
    /\ Looks(t) /\ idle # <<>>
    /\ cand' = [cand EXCEPT ![t] = Last(idle)]
    /\ idle' = Front(idle)
    /\ leased' = leased + 1
    /\ Goto(t, "check")
    /\ UNCHANGED <<open, waiters, due, mine, sock, wasted>>

Grow(t) ==
    /\ Looks(t) /\ idle = <<>> /\ open < MaxSize
    /\ open' = open + 1 /\ leased' = leased + 1
    /\ Goto(t, "dial")
    /\ UNCHANGED <<idle, waiters, due, mine, cand, sock, wasted>>

Wait(t) ==
    /\ Looks(t) /\ Full /\ ~due[t]
    /\ Goto(t, "wait")
    /\ waiters' = waiters \cup {t}
    /\ UNCHANGED <<poolVars, due, mine, cand, sock, wasted>>

\* wait() returns False to a thread that is still to get the lock.
WaitTimesOut(t) ==
    /\ pc[t] = "wait" /\ due[t]
    /\ Goto(t, "late")
    /\ UNCHANGED <<poolVars, waiters, due, mine, cand, sock, wasted>>

\* Mutant: a waiter that timed out goes back to waiting.
RefuseNever(t) ==
    /\ pc[t] = "late" \/ (Looks(t) /\ Full /\ due[t])
    /\ waiters' = waiters \cup {t}
    /\ Goto(t, "wait")
    /\ UNCHANGED <<poolVars, due, mine, cand, sock, wasted>>

\* PoolExhaustedError: the pool is looked at again only by a thread that was woken.
Refuse(t) ==
    /\ \/ pc[t] = "late"
       \/ Looks(t) /\ Full /\ due[t]
    /\ waiters' = waiters \ {t}
    /\ wasted' = (wasted \/ (pc[t] = "late" /\ t \notin waiters))
    /\ Goto(t, "run")
    /\ UNCHANGED <<poolVars, due, mine, cand, sock>>

\* _is_usable: young enough (dead or not), or the ping went well.
HandOut(t) ==
    /\ pc[t] = "check"
    /\ mine' = [mine EXCEPT ![t] = Append(@, cand[t])]
    /\ cand' = [cand EXCEPT ![t] = 0]
    /\ Goto(t, "run")
    /\ UNCHANGED <<poolVars, waiters, due, sock, wasted>>

\* Too old, or the ping failed: closed and dialled again.
Recycle(t) ==
    /\ pc[t] = "check"
    /\ sock' = [sock EXCEPT ![cand[t]] = "none"]
    /\ cand' = [cand EXCEPT ![t] = 0]
    /\ Goto(t, "dial")
    /\ UNCHANGED <<poolVars, waiters, due, mine, wasted>>

\* The name of a new connection: the first that is not in use.
IsNew(c) == sock[c] = "none" /\ \A d \in 1..(c - 1) : sock[d] # "none"

Dial(t) ==
    /\ pc[t] = "dial"
    /\ \E c \in Conns : /\ IsNew(c)
                        /\ sock' = [sock EXCEPT ![c] = "clean"]
                        /\ mine' = [mine EXCEPT ![t] = Append(@, c)]
    /\ Goto(t, "run")
    /\ UNCHANGED <<poolVars, waiters, due, cand, wasted>>

\* Mutant: the slot of a failed dial is given up, and nobody is told.
DialFailsSilently(t) ==
    /\ pc[t] = "dial"
    /\ open' = open - 1 /\ leased' = leased - 1
    /\ Goto(t, "run")
    /\ UNCHANGED <<idle, waiters, due, mine, cand, sock, wasted>>

DialFails(t) ==
    /\ pc[t] = "dial"
    /\ open' = open - 1 /\ leased' = leased - 1
    /\ Notify(t, "run")
    /\ UNCHANGED <<idle, due, mine, cand, sock, wasted>>

-----------------------------------------------------------------------------
(* release, when the borrower's context ends *)

\* Mutant: the connection goes back as it is.
RollBackNothing(state) == state

\* Nothing that was left uncommitted is visible to the next borrower.
RollBack(state) == IF state = "dirty" THEN "clean" ELSE state

\* The context ends, with everything committed or not: the connection is rolled
\* back and kept, or it failed its borrower or its rollback and is dropped.
Leave(t) ==
    /\ pc[t] = "run" /\ mine[t] # <<>>
    /\ LET c == Last(mine[t]) IN
       /\ cand' = [cand EXCEPT ![t] = c]
       /\ \/ /\ Goto(t, "return")
             /\ \E state \in {"clean", "dirty"} : sock' = [sock EXCEPT ![c] = RollBack(state)]
          \/ Goto(t, "drop") /\ UNCHANGED sock
    /\ mine' = [mine EXCEPT ![t] = Front(@)]
    /\ UNCHANGED <<poolVars, waiters, due, wasted>>

\* Mutant: an idle set that is full drops the connection and keeps its slot.
GiveBackKeepingSlot(t) ==
    /\ pc[t] = "return"
    /\ leased' = leased - 1
    /\ UNCHANGED open
    /\ IF Len(idle) < MaxIdle
       THEN idle' = Append(idle, cand[t]) /\ cand' = [cand EXCEPT ![t] = 0] /\ Notify(t, "run")
       ELSE UNCHANGED <<idle, cand>> /\ Notify(t, "close")
    /\ UNCHANGED <<due, mine, sock, wasted>>

GiveBack(t) ==
    /\ pc[t] = "return"
    /\ leased' = leased - 1
    /\ \/ /\ Len(idle) < MaxIdle
          /\ idle' = Append(idle, cand[t])
          /\ cand' = [cand EXCEPT ![t] = 0]
          /\ Notify(t, "run")
          /\ UNCHANGED open
       \/ /\ Len(idle) >= MaxIdle
          /\ open' = open - 1
          /\ Notify(t, "close")
          /\ UNCHANGED <<idle, cand>>
    /\ UNCHANGED <<due, mine, sock, wasted>>

Drop(t) ==
    /\ pc[t] = "drop"
    /\ leased' = leased - 1 /\ open' = open - 1
    /\ Notify(t, "close")
    /\ UNCHANGED <<idle, due, mine, cand, sock, wasted>>

\* The slot is free before the socket is closed.
Close(t) ==
    /\ pc[t] = "close"
    /\ sock' = [sock EXCEPT ![cand[t]] = "none"]
    /\ cand' = [cand EXCEPT ![t] = 0]
    /\ Goto(t, "run")
    /\ UNCHANGED <<poolVars, waiters, due, mine, wasted>>

Acquires(t) == \/ TakeIdle(t) \/ Grow(t) \/ Wait(t) \/ WaitTimesOut(t) \/ Refuse(t)
               \/ HandOut(t) \/ Recycle(t) \/ Dial(t) \/ DialFails(t)

Thread(t) == Ask(t) \/ Acquires(t) \/ Leave(t) \/ GiveBack(t) \/ Drop(t) \/ Close(t)

Next == \E t \in Threads : Thread(t) \/ DeadlinePasses(t)

Spec == Init /\ [][Next]_vars

\* Time passes, and a thread that waits for no other gets the lock and an answer.
Fairness == \A t \in Threads : WF_vars(Acquires(t)) /\ WF_vars(DeadlinePasses(t))

FairSpec == Spec /\ Fairness

-----------------------------------------------------------------------------
(* Properties. *)

\* What thread t has, or is between having and not having.
Has(t) == ToSet(mine[t]) \cup ({cand[t]} \ {0})

\* The slots that each thread has taken: for what it holds, and for what it is
\* taking or giving back.
Taken == [t \in Threads |-> Len(mine[t]) + (IF Leasing(t) THEN 1 ELSE 0)]
Slots == UNION {{t} \X (1..Taken[t]) : t \in Threads}

\* The counters say what they stand for: whatever failed, no slot is lost.
SlotsAreExact ==
    /\ leased = Cardinality(Slots)
    /\ open = leased + Len(idle)

\* A connection is in one place, and none is lost; the next borrower never
\* finds what the last one left uncommitted.
ConnectionsAreExclusive ==
    /\ {c \in Conns : sock[c] # "none"} = ToSet(idle) \cup UNION {Has(t) : t \in Threads}
    /\ \A t, u \in Threads : t # u => Has(t) \cap Has(u) = {}
    /\ \A t \in Threads : Has(t) \cap ToSet(idle) = {}
    /\ \A c \in ToSet(idle) : sock[c] # "dirty"

\* As long as every notify has gone to a thread that still wanted it, each free
\* slot or idle connection has a thread on its way when others wait.
NoStrandedWaiter ==
    LET coming == {t \in Threads : pc[t] = "woken" \/ (pc[t] = "late" /\ t \notin waiters)} IN
    (~wasted /\ \E t \in Threads : pc[t] = "wait") =>
        Len(idle) + (MaxSize - open) <= Cardinality(coming)

\* The pool is a lender: a thread that waits has nothing to show for it, and what
\* is dialled, validated, idle or about to be closed is lent to nobody.
Lending == INSTANCE Leases WITH
    Borrowers <- Threads, Things <- Conns, Capacity <- MaxSize, held <- mine

ImplementsLeases == Lending!Spec

\* However long the others hold theirs, and also for a connection at a time in
\* which the thread holds one: it gets a connection or is refused.
EveryAcquireEnds == \A t \in Threads : Asking(t) ~> ~Asking(t)

\* db.py: "Connections that EXIST right now (idle + leased). Never > max_size."
SocketsWithinMax == Cardinality({c \in Conns : sock[c] # "none"}) <= MaxSize

\* db.py: "When every slot is busy for longer than the acquire timeout the
\* caller gets an honest 503"; "all connections are busy", says the error.
RefusalIsHonest == [][\A t \in Threads : Refuse(t) => Full]_vars

=============================================================================
