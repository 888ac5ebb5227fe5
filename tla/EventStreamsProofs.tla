-------------------------- MODULE EventStreamsProofs --------------------------
(***************************************************************************)
(* What holds of the event streams for any connections of any users, any   *)
(* limits and lifetimes, and any table and transactions.                   *)
(***************************************************************************)
EXTENDS EventStreams, FiniteSetTheorems, WellFoundedInduction, TLAPS

(***************************************************************************)
(* The row count and the watermark of a table.                             *)
(***************************************************************************)
LEMMA SmallestIs ==
    ASSUME NEW T, T \subseteq Nat, T # {}
    PROVE  \E x \in T : \A y \in T : x <= y
<1> DEFINE R == OpToRel(<, Nat)
<1>1. IsWellFoundedOn(R, Nat)
  BY NatLessThanWellFounded
<1>2. \A x, y \in Nat : y < x => <<y, x>> \in R
  BY DEF OpToRel
<1> HIDE DEF R
<1>3. \E x \in T : \A y \in T : <<y, x>> \notin R
  BY <1>1, WFMin
<1>4. \A x, y \in Nat : ~(y < x) => x <= y
  OBVIOUS
<1> QED
  BY <1>2, <1>3, <1>4

LEMMA MaxIs ==
    ASSUME NEW n \in Nat, NEW S, S \subseteq 0..n, S # {}
    PROVE  Max(S) \in S /\ \A y \in S : y <= Max(S)
<1> DEFINE T == {n - y : y \in S}
<1>1. \A y \in S : y \in Nat /\ y <= n /\ n - y \in Nat
  OBVIOUS
<1>2. T \subseteq Nat /\ T # {}
  BY <1>1
<1>3. PICK x \in T : \A y \in T : x <= y
  BY <1>2, SmallestIs
<1>4. PICK m \in S : x = n - m
  BY <1>3
<1>5. ASSUME NEW y \in S PROVE m >= y
  <2>1. n - m <= n - y
    BY <1>3, <1>4
  <2> QED
    BY <1>1, <2>1
<1>6. \E z \in S : \A y \in S : z >= y
  BY <1>5
<1>7. Max(S) \in S /\ \A y \in S : Max(S) >= y
  BY <1>6 DEF Max
<1> QED
  BY <1>1, <1>7

Versions == Present \cup {Gone}

LEMMA StampIs ==
    /\ \A row \in Versions : Stamp(row) \in 0..(MaxTxns + 1)
    /\ \A row \in Present : Stamp(row) # 0 /\ row.written \in Stamps
    /\ Gone \notin Present /\ Stamp(Gone) = 0
<1>1. \A row \in Present : Stamp(row) \in Stamps /\ row.written \in Stamps /\ row.fixed # 0
  BY EventStreamsAssumption DEF Present, Stamp, Stamps
<1>2. Gone.fixed = 0 /\ Stamp(Gone) = 0
  BY DEF Gone, Stamp
<1>3. \A n \in Stamps : n \in 0..(MaxTxns + 1) /\ n # 0
  BY EventStreamsAssumption DEF Stamps
<1> QED
  BY <1>1, <1>2, <1>3, EventStreamsAssumption DEF Versions

CountOf(f) == Cardinality({a \in Rows : f[a] # Gone})
MarkOf(f)  == Max({Stamp(f[a]) : a \in Rows} \cup {0})
ReadingOf(f) == [count |-> CountOf(f), mark |-> MarkOf(f)]

LEMMA ReadingIs ==
    ASSUME NEW f \in [Rows -> Versions]
    PROVE  /\ CountOf(f) \in 0..Cardinality(Rows) /\ MarkOf(f) \in 0..(MaxTxns + 1)
           /\ IsFiniteSet({a \in Rows : f[a] # Gone})
           /\ \A a \in Rows : Stamp(f[a]) <= MarkOf(f)
           /\ MarkOf(f) # 0 => \E a \in Rows : Stamp(f[a]) = MarkOf(f)
<1>1. {a \in Rows : f[a] # Gone} \in SUBSET Rows
  OBVIOUS
<1>2. /\ IsFiniteSet({a \in Rows : f[a] # Gone})
      /\ Cardinality({a \in Rows : f[a] # Gone}) <= Cardinality(Rows)
  BY <1>1, FS_Subset, EventStreamsAssumption
<1>3. CountOf(f) \in 0..Cardinality(Rows)
  BY <1>2, FS_CardinalityType, EventStreamsAssumption DEF CountOf
<1> DEFINE S == {Stamp(f[a]) : a \in Rows} \cup {0}
<1>4. MaxTxns + 1 \in Nat /\ S \subseteq 0..(MaxTxns + 1) /\ S # {}
  BY StampIs, EventStreamsAssumption
<1>5. Max(S) \in S /\ \A y \in S : y <= Max(S)
  BY <1>4, MaxIs
<1>6. MarkOf(f) = Max(S)
  BY DEF MarkOf
<1> QED
  BY <1>2, <1>3, <1>4, <1>5, <1>6

(***************************************************************************)
(* Types.                                                                  *)
(***************************************************************************)
Readings == [count: 0..Cardinality(Rows), mark: 0..(MaxTxns + 1)]

LEMMA ReadingType ==
    ASSUME TypeOK
    PROVE  Reading = ReadingOf(rows) /\ Reading \in Readings
<1>1. Reading = ReadingOf(rows)
  BY DEF Reading, Count, Watermark, ReadingOf, CountOf, MarkOf
<1>2. CountOf(rows) \in 0..Cardinality(Rows) /\ MarkOf(rows) \in 0..(MaxTxns + 1)
  BY ReadingIs DEF TypeOK, Versions
<1> QED
  BY <1>1, <1>2 DEF ReadingOf, Readings

LEMMA ZeroType ==
    /\ [a \in Rows |-> Gone] \in [Rows -> Versions]
    /\ [count |-> 0, mark |-> 0] \in Readings
    /\ [count |-> 0, mark |-> 0] = ReadingOf([a \in Rows |-> Gone])
<1> DEFINE f == [a \in Rows |-> Gone]
<1>1. f \in [Rows -> Versions]
  BY DEF Versions
<1>2. MarkOf(f) \in 0..(MaxTxns + 1) /\ (MarkOf(f) # 0 => \E a \in Rows : Stamp(f[a]) = MarkOf(f))
  BY <1>1, ReadingIs
<1>3. MarkOf(f) = 0
  BY <1>2, StampIs
<1>4. {a \in Rows : f[a] # Gone} = {}
  OBVIOUS
<1>5. CountOf(f) = 0
  BY <1>4, FS_EmptySet DEF CountOf
<1>6. 0 \in 0..Cardinality(Rows)
  BY FS_CardinalityType, EventStreamsAssumption
<1> QED
  BY <1>1, <1>2, <1>3, <1>5, <1>6 DEF ReadingOf, Readings

\* The times of a row.
TimesOf(row) == {row.fixed, row.executed, row.written}

\* What a transaction leaves of a row bears its time, or is nothing.
LEMMA WritesAre ==
    ASSUME NEW row \in Versions, NEW t \in Stamps, NEW new \in Writes(row, t)
    PROVE  /\ new \in Versions
           /\ new # Gone => new.written = t
           /\ TimesOf(new) \subseteq {0, t} \cup TimesOf(row)
<1>1. /\ row.fixed \in {0} \cup Stamps /\ row.executed \in {0} \cup Stamps
      /\ row = [fixed |-> row.fixed, executed |-> row.executed, written |-> row.written]
      /\ row # Gone => row.fixed \in Stamps
  BY DEF Versions, Present, Gone
<1>2. CASE new = Stamped(row, t)
  <2>1. new = [fixed |-> t, executed |-> row.executed, written |-> t]
    BY <1>1, <1>2 DEF Stamped
  <2> QED
    BY <1>1, <2>1 DEF Versions, Present, TimesOf
<1>3. CASE row # Gone /\ new = Claimed(row, t)
  <2>1. new = [fixed |-> row.fixed, executed |-> t, written |-> t]
    BY <1>1, <1>3 DEF Claimed
  <2> QED
    BY <1>1, <1>3, <2>1 DEF Versions, Present, TimesOf
<1>4. CASE row # Gone /\ new = Released(row, t)
  <2>1. new = [fixed |-> row.fixed, executed |-> 0, written |-> t]
    BY <1>1, <1>4 DEF Released
  <2> QED
    BY <1>1, <1>4, <2>1 DEF Versions, Present, TimesOf
<1>5. CASE row # Gone /\ new = Refreshed(row, t)
  <2>1. new = [fixed |-> row.fixed, executed |-> row.executed, written |-> t]
    BY <1>1, <1>5 DEF Refreshed
  <2> QED
    BY <1>1, <1>5, <2>1 DEF Versions, Present, TimesOf
<1>6. CASE new = Gone
  BY <1>6 DEF Versions, Gone, TimesOf
<1> QED
  BY <1>2, <1>3, <1>4, <1>5, <1>6 DEF Writes

LEMMA TimesAre ==
    ASSUME NEW row \in Versions
    PROVE  TimesOf(row) \subseteq 0..(MaxTxns + 1) /\ Stamp(row) \in TimesOf(row)
BY EventStreamsAssumption DEF Versions, Present, Gone, Stamps, Stamp, TimesOf

LEMMA TypeStep ==
    ASSUME TypeOK, [Next]_vars
    PROVE  TypeOK'
<1> USE EventStreamsAssumption
<1>t. /\ held \subseteq Streams /\ age \in [Streams -> 0..(Lifetime + Grace)]
      /\ pc \in [Streams -> {"new", "lookup", "ready", "check", "reload", "closed", "dropped"}]
      /\ left \in [Streams -> 0..Lifetime] /\ 0 \in 0..(Lifetime + Grace) /\ Lifetime \in 0..Lifetime
      /\ observed \in [Streams -> Readings]
      /\ actual \in [Streams -> [Rows -> Versions]] /\ rows \in [Rows -> Versions]
  BY DEF TypeOK, Versions, Readings
<1>z. /\ [a \in Rows |-> Gone] \in [Rows -> Versions]
      /\ [count |-> 0, mark |-> 0] \in Readings
  BY ZeroType
<1>r. Reading \in Readings
  BY ReadingType
<1>c. ASSUME NEW s \in Streams, Closes(s), UNCHANGED tableVars PROVE TypeOK'
  BY <1>c, <1>t, <1>z DEF Closes, tableVars, TypeOK, Versions, Readings
<1>d. ASSUME NEW s \in Streams, Reads(s)
      PROVE  /\ observed' \in [Streams -> Readings]
             /\ actual' \in [Streams -> [Rows -> Versions]]
  BY <1>d, <1>t, <1>r DEF Reads
<1>1. ASSUME NEW s \in Streams, StreamNext(s) PROVE TypeOK'
  <2>1. CASE Acquire(s)
    BY <2>1, <1>t DEF Acquire, Kept, TypeOK, tableVars, readVars
  <2>2. CASE LookUp(s)
    BY <2>2, <1>t, <1>d DEF LookUp, TypeOK, tableVars, readVars, Versions, Readings
  <2>3. CASE LookUpFails(s) \/ Disconnect(s) \/ ReloadFails(s)
    BY <2>3, <1>c DEF LookUpFails, Disconnect, ReloadFails
  <2>4. CASE DropUnstarted(s)
    BY <2>4, <1>t DEF DropUnstarted, TypeOK, tableVars, readVars
  <2>5. CASE Iterate(s)
    BY <2>5, <1>t DEF Iterate, TypeOK, tableVars, readVars
  <2>6. ASSUME NEW label \in {"check", "reload"}, GoesOn(s, label), UNCHANGED tableVars PROVE TypeOK'
    BY <2>6, <1>t DEF GoesOn, TypeOK, tableVars
  <2>7. CASE Check(s) \/ ReloadRun(s)
    BY <2>6, <2>7, <1>c DEF Check, ReloadRun
  <2>8. CASE ReloadWorkspace(s)
    BY <2>8, <1>t, <1>d DEF ReloadWorkspace, TypeOK, tableVars, Versions, Readings
  <2> QED
    BY <1>1, <2>1, <2>2, <2>3, <2>4, <2>5, <2>7, <2>8 DEF StreamNext, Serve
<1>2. CASE Begin
  BY <1>2 DEF Begin, TypeOK, streamVars, readVars
<1>3. ASSUME NEW t \in txns, Commit(t) PROVE TypeOK'
  <2>1. t \in Stamps
    BY DEF TypeOK, Stamps
  <2>2. PICK a \in Rows : \E row \in Writes(rows[a], t) : rows' = [rows EXCEPT ![a] = row]
    BY <1>3 DEF Commit
  <2>3. PICK row \in Writes(rows[a], t) : rows' = [rows EXCEPT ![a] = row]
    BY <2>2
  <2>4. row \in Versions
    BY <1>t, <2>1, <2>3, WritesAre
  <2>5. rows' \in [Rows -> Versions]
    BY <1>t, <2>3, <2>4
  <2> QED
    BY <1>3, <2>5 DEF Commit, TypeOK, streamVars, readVars, Versions
<1>4. CASE Tick
  <2>1. age' \in [Streams -> 0..(Lifetime + Grace)]
    BY <1>4, <1>t DEF Tick, Expired
  <2>2. left' \in [Streams -> 0..Lifetime]
    BY <1>4, <1>t DEF Tick
  <2> QED
    BY <1>4, <2>1, <2>2 DEF Tick, TypeOK, tableVars, readVars
<1>5. CASE UNCHANGED vars
  BY <1>5 DEF vars, streamVars, tableVars, readVars, TypeOK
<1> QED
  BY <1>1, <1>2, <1>3, <1>4, <1>5 DEF Next

(***************************************************************************)
(* Slots.                                                                  *)
(***************************************************************************)
KeptOf(u) == {s \in Kept : UserOf[s] = u}

\* A stream that runs and has not outlived its slot holds one, and the limits
\* hold of the slots.
SlotInv ==
    /\ \A s \in Streams : Live(s) /\ ~Expired(s) => s \in held
    /\ SlotsAreReturned
    /\ Cardinality(Kept) <= GlobalLimit
    /\ \A u \in Users : Cardinality(KeptOf(u)) <= UserLimit

\* Counting the slots after a step that keeps no more of them, or one more.
LEMMA FewerKept ==
    ASSUME TypeOK, SlotInv, Kept' \subseteq Kept
    PROVE  /\ Cardinality(Kept') <= GlobalLimit
           /\ \A u \in Users : Cardinality(KeptOf(u)') <= UserLimit
<1> USE EventStreamsAssumption
<1>1. Kept \in SUBSET Streams
  BY DEF Kept, TypeOK
<1>2. IsFiniteSet(Kept) /\ IsFiniteSet(Kept')
  BY <1>1, FS_Subset
<1>3. Cardinality(Kept') <= Cardinality(Kept)
  BY <1>2, FS_Subset
<1>4. ASSUME NEW u \in Users PROVE Cardinality(KeptOf(u)') <= UserLimit
  <2>1. KeptOf(u)' \in SUBSET KeptOf(u) /\ KeptOf(u) \in SUBSET Kept
    BY DEF KeptOf
  <2>2. IsFiniteSet(KeptOf(u))
    BY <1>2, <2>1, FS_Subset
  <2>3. /\ Cardinality(KeptOf(u)') <= Cardinality(KeptOf(u))
        /\ Cardinality(KeptOf(u)') \in Nat /\ Cardinality(KeptOf(u)) \in Nat
    BY <2>1, <2>2, FS_Subset, FS_CardinalityType
  <2> QED
    BY <2>3 DEF SlotInv
<1>5. Cardinality(Kept') \in Nat /\ Cardinality(Kept) \in Nat
  BY <1>2, FS_CardinalityType
<1> QED
  BY <1>3, <1>4, <1>5 DEF SlotInv

LEMMA OneMoreKept ==
    ASSUME TypeOK, NEW s \in Streams, Kept' \subseteq Kept \cup {s},
           Cardinality(Kept) < GlobalLimit,
           Cardinality(KeptOf(UserOf[s])) < UserLimit, SlotInv
    PROVE  /\ Cardinality(Kept') <= GlobalLimit
           /\ \A u \in Users : Cardinality(KeptOf(u)') <= UserLimit
<1> USE EventStreamsAssumption
<1>1. Kept \in SUBSET Streams
  BY DEF Kept, TypeOK
<1>2. IsFiniteSet(Kept) /\ Cardinality(Kept) \in Nat
  BY <1>1, FS_Subset, FS_CardinalityType
<1>3. ASSUME NEW A, NEW B, IsFiniteSet(A), B \in SUBSET (A \cup {s})
      PROVE  Cardinality(B) <= Cardinality(A) + 1 /\ Cardinality(B) \in Nat /\ Cardinality(A) \in Nat
  <2>1. /\ IsFiniteSet(A \cup {s}) /\ Cardinality(A) \in Nat
        /\ Cardinality(A \cup {s}) = IF s \in A THEN Cardinality(A) ELSE Cardinality(A) + 1
    BY <1>3, FS_AddElement, FS_CardinalityType
  <2>2. /\ IsFiniteSet(B) /\ Cardinality(B) <= Cardinality(A \cup {s})
        /\ Cardinality(B) \in Nat
    BY <1>3, <2>1, FS_Subset, FS_CardinalityType
  <2> QED
    BY <2>1, <2>2
<1>4. Cardinality(Kept') <= GlobalLimit
  <2>1. Cardinality(Kept') <= Cardinality(Kept) + 1 /\ Cardinality(Kept') \in Nat
    BY <1>2, <1>3
  <2> QED
    BY <1>2, <2>1
<1>5. ASSUME NEW u \in Users PROVE Cardinality(KeptOf(u)') <= UserLimit
  <2>1. KeptOf(u) \in SUBSET Kept
    BY DEF KeptOf
  <2>2. IsFiniteSet(KeptOf(u)) /\ Cardinality(KeptOf(u)) \in Nat
    BY <1>2, <2>1, FS_Subset, FS_CardinalityType
  <2>3. CASE UserOf[s] = u
    <3>1. KeptOf(u)' \in SUBSET (KeptOf(u) \cup {s})
      BY DEF KeptOf
    <3>2. Cardinality(KeptOf(u)') <= Cardinality(KeptOf(u)) + 1 /\ Cardinality(KeptOf(u)') \in Nat
      BY <1>3, <2>2, <3>1
    <3> QED
      BY <2>2, <2>3, <3>2
  <2>4. CASE UserOf[s] # u
    <3>1. KeptOf(u)' \in SUBSET KeptOf(u)
      BY <2>4 DEF KeptOf
    <3>2. Cardinality(KeptOf(u)') <= Cardinality(KeptOf(u)) /\ Cardinality(KeptOf(u)') \in Nat
      BY <2>2, <3>1, FS_Subset, FS_CardinalityType
    <3> QED
      BY <2>2, <3>2 DEF SlotInv
  <2> QED
    BY <2>3, <2>4
<1> QED
  BY <1>4, <1>5

LEMMA SlotStep ==
    ASSUME TypeOK, SlotInv, [Next]_vars
    PROVE  SlotInv'
<1> USE EventStreamsAssumption
<1>t. /\ held \subseteq Streams /\ age \in [Streams -> 0..(Lifetime + Grace)]
      /\ pc \in [Streams -> {"new", "lookup", "ready", "check", "reload", "closed", "dropped"}]
  BY DEF TypeOK
<1>s. /\ \A s \in Streams : Live(s) /\ ~Expired(s) => s \in held
      /\ \A s \in held : Live(s) \/ pc[s] = "dropped"
  BY DEF SlotInv, SlotsAreReturned
<1>c. ASSUME NEW s \in Streams, Closes(s), Live(s) PROVE SlotInv'
  <2>1. Kept' \subseteq Kept
    BY <1>c, <1>t DEF Closes, Kept, Expired
  <2>2. /\ pc'[s] = "closed" /\ s \notin held'
        /\ \A q \in Streams \ {s} : pc'[q] = pc[q] /\ age'[q] = age[q] /\ (q \in held' <=> q \in held)
    BY <1>c, <1>t DEF Closes
  <2>3. /\ \A q \in Streams : Live(q)' /\ ~Expired(q)' => q \in held'
        /\ \A q \in held' : Live(q)' \/ pc'[q] = "dropped"
    BY <1>c, <1>s, <1>t, <2>2 DEF Live, Expired, Closes
  <2> QED
    BY <2>1, <2>3, FewerKept DEF SlotInv, SlotsAreReturned
\* A step of a live stream that stays alive, or is dropped, and keeps its slot.
<1>g. ASSUME NEW s \in Streams, Live(s), UNCHANGED <<held, age>>,
             NEW label \in {"ready", "check", "reload", "dropped"}, pc' = [pc EXCEPT ![s] = label]
      PROVE  SlotInv'
  <2>1. Kept' = Kept
    BY <1>g DEF Kept, Expired
  <2>2. /\ \A q \in Streams : Live(q)' /\ ~Expired(q)' => q \in held'
        /\ \A q \in held' : Live(q)' \/ pc'[q] = "dropped"
    BY <1>g, <1>s, <1>t DEF Live, Expired
  <2> QED
    BY <2>1, <2>2, FewerKept DEF SlotInv, SlotsAreReturned
<1>u. ASSUME UNCHANGED streamVars PROVE SlotInv'
  <2>1. Kept' = Kept
    BY <1>u DEF streamVars, Kept, Expired
  <2> QED
    BY <1>u, <2>1, FewerKept DEF SlotInv, SlotsAreReturned, streamVars, Live, Expired
<1>1. ASSUME NEW s \in Streams, StreamNext(s) PROVE SlotInv'
  <2>1. CASE Acquire(s)
    <3>1. pc[s] = "new" /\ s \notin held /\ age' = age
      BY <2>1, <1>s DEF Acquire, Live
    <3>2. CASE /\ held' = Kept \cup {s} /\ pc' = [pc EXCEPT ![s] = "lookup"]
               /\ Cardinality(Kept) < GlobalLimit
               /\ Cardinality({t \in Kept : UserOf[t] = UserOf[s]}) < UserLimit
      <4>1. Kept' \subseteq Kept \cup {s}
        BY <3>1, <3>2 DEF Kept, Expired
      <4>2. /\ \A q \in Streams : Live(q)' /\ ~Expired(q)' => q \in held'
            /\ \A q \in held' : Live(q)' \/ pc'[q] = "dropped"
        BY <3>1, <3>2, <1>s, <1>t DEF Live, Expired, Kept
      <4> QED
        BY <3>2, <4>1, <4>2, OneMoreKept DEF SlotInv, SlotsAreReturned, KeptOf
    <3>3. CASE held' = Kept /\ pc' = [pc EXCEPT ![s] = "closed"]
      <4>1. Kept' \subseteq Kept
        BY <3>1, <3>3 DEF Kept, Expired
      <4>2. /\ \A q \in Streams : Live(q)' /\ ~Expired(q)' => q \in held'
            /\ \A q \in held' : Live(q)' \/ pc'[q] = "dropped"
        BY <3>1, <3>3, <1>s, <1>t DEF Live, Expired, Kept
      <4> QED
        BY <4>1, <4>2, FewerKept DEF SlotInv, SlotsAreReturned
    <3> QED
      BY <2>1, <3>2, <3>3 DEF Acquire
  <2>2. CASE LookUp(s)
    BY <2>2, <1>g DEF LookUp, Live
  <2>3. CASE LookUpFails(s) \/ Disconnect(s) \/ ReloadFails(s)
    BY <2>3, <1>c DEF LookUpFails, Disconnect, ReloadFails, Open, Live
  <2>4. CASE DropUnstarted(s) \/ Iterate(s) \/ ReloadWorkspace(s)
    BY <2>4, <1>g DEF DropUnstarted, Iterate, ReloadWorkspace, Live
  <2>5. CASE Check(s) \/ ReloadRun(s)
    BY <2>5, <1>c, <1>g DEF Check, ReloadRun, GoesOn, Live
  <2> QED
    BY <1>1, <2>1, <2>2, <2>3, <2>4, <2>5 DEF StreamNext, Serve
<1>2. CASE Begin \/ (\E t \in txns : Commit(t)) \/ UNCHANGED vars
  BY <1>2, <1>u DEF Begin, Commit, vars
<1>3. CASE Tick
  <2>1. \A q \in Streams : Expired(q) => Expired(q)'
    BY <1>3, <1>t DEF Tick, Expired
  <2>2. UNCHANGED <<pc, held>>
    BY <1>3 DEF Tick
  <2>3. Kept' \subseteq Kept
    BY <1>t, <2>1, <2>2 DEF Kept
  <2> QED
    BY <1>s, <2>1, <2>2, <2>3, FewerKept DEF SlotInv, SlotsAreReturned, Live
<1> QED
  BY <1>1, <1>2, <1>3 DEF Next

(***************************************************************************)
(* Readings.                                                               *)
(***************************************************************************)
\* A stream keeps the reading of the rows it read.
ReadingKept == \A s \in Streams : observed[s] = ReadingOf(actual[s])

\* No uncommitted time has been written or read.
Uncommitted ==
    \A t \in txns : /\ t <= now
                    /\ \A a \in Rows : t \notin TimesOf(rows[a])
                    /\ \A s \in Streams : \A a \in Rows : t \notin TimesOf(actual[s][a])

Past == /\ \A a \in Rows : \A n \in TimesOf(rows[a]) : n <= now
        /\ \A s \in Streams : \A a \in Rows : \A n \in TimesOf(actual[s][a]) : n <= now

\* The last writer of a row that has changed is not one whose timestamp was read.
ChangedIsUnread ==
    \A s \in Streams : \A a, b \in Rows :
        rows[a] \notin {Gone, actual[s][a]} => Stamp(actual[s][b]) # rows[a].written

ReadInv == ReadingKept /\ Uncommitted /\ Past /\ ChangedIsUnread

LEMMA ReadStep ==
    ASSUME TypeOK, ReadInv, [Next]_vars
    PROVE  ReadInv'
<1> USE EventStreamsAssumption
<1>t. /\ observed \in [Streams -> Readings]
      /\ actual \in [Streams -> [Rows -> Versions]] /\ rows \in [Rows -> Versions]
      /\ now \in Nat /\ now >= 1 /\ txns \subseteq Stamps
  BY DEF TypeOK, Versions, Readings, Stamps
<1>x. 0 <= now /\ \A t \in txns : t # 0 /\ t \in Nat
  BY <1>t DEF Stamps
<1>y. /\ \A a \in Rows : TimesOf(rows[a]) \subseteq Nat
      /\ \A s \in Streams : \A a \in Rows :
            TimesOf(actual[s][a]) \subseteq Nat /\ Stamp(actual[s][a]) \in TimesOf(actual[s][a])
  BY <1>t, TimesAre
<1>w. \A a \in Rows : rows[a] # Gone => rows[a].written # 0
  BY <1>t DEF Versions, Present, Stamps
<1>0. TimesOf(Gone) = {0} /\ Stamp(Gone) = 0
  BY DEF TimesOf, Gone, Stamp
<1>r. Reading = ReadingOf(rows)
  BY ReadingType
<1>z. [count |-> 0, mark |-> 0] = ReadingOf([a \in Rows |-> Gone])
  BY ZeroType
<1> HIDE DEF Gone
<1>u. ASSUME UNCHANGED <<tableVars, readVars>> PROVE ReadInv'
  BY <1>u DEF ReadInv, ReadingKept, Uncommitted, Past, ChangedIsUnread, tableVars, readVars
<1>c. ASSUME NEW s \in Streams, Closes(s), UNCHANGED tableVars PROVE ReadInv'
  <2>1. /\ observed'[s] = ReadingOf(actual'[s]) /\ \A a \in Rows : actual'[s][a] = Gone
        /\ \A q \in Streams \ {s} : observed'[q] = observed[q] /\ actual'[q] = actual[q]
        /\ UNCHANGED <<rows, now, txns>>
    BY <1>c, <1>t, <1>z DEF Closes, tableVars
  <2>5. ReadingKept'
    BY <1>t, <2>1 DEF ReadInv, ReadingKept
  <2>6. Uncommitted'
    BY <1>0, <1>x, <2>1 DEF ReadInv, Uncommitted
  <2>7. Past'
    BY <1>0, <1>x, <2>1 DEF ReadInv, Past
  <2>8. ChangedIsUnread'
    BY <1>0, <1>w, <2>1 DEF ReadInv, ChangedIsUnread
  <2> QED
    BY <2>5, <2>6, <2>7, <2>8 DEF ReadInv
<1>d. ASSUME NEW s \in Streams, Reads(s), UNCHANGED tableVars PROVE ReadInv'
  <2>1. /\ observed'[s] = ReadingOf(actual'[s]) /\ actual'[s] = rows
        /\ \A q \in Streams \ {s} : observed'[q] = observed[q] /\ actual'[q] = actual[q]
        /\ UNCHANGED <<rows, now, txns>>
    BY <1>d, <1>t, <1>r DEF Reads, tableVars
  <2>5. ReadingKept'
    BY <1>t, <2>1 DEF ReadInv, ReadingKept
  <2>6. Uncommitted'
    BY <2>1 DEF ReadInv, Uncommitted
  <2>7. Past'
    BY <2>1 DEF ReadInv, Past
  <2>8. ChangedIsUnread'
    BY <2>1 DEF ReadInv, ChangedIsUnread
  <2> QED
    BY <2>5, <2>6, <2>7, <2>8 DEF ReadInv
<1>1. ASSUME NEW s \in Streams, StreamNext(s) PROVE ReadInv'
  <2>1. CASE Acquire(s) \/ DropUnstarted(s) \/ Iterate(s)
    BY <2>1, <1>u DEF Acquire, DropUnstarted, Iterate
  <2>2. CASE LookUp(s) \/ ReloadWorkspace(s)
    BY <2>2, <1>u, <1>d DEF LookUp, ReloadWorkspace
  <2>3. CASE LookUpFails(s) \/ Disconnect(s) \/ ReloadFails(s)
    BY <2>3, <1>c DEF LookUpFails, Disconnect, ReloadFails
  <2>4. CASE Check(s) \/ ReloadRun(s)
    BY <2>4, <1>c, <1>u DEF Check, ReloadRun, GoesOn, readVars
  <2> QED
    BY <1>1, <2>1, <2>2, <2>3, <2>4 DEF StreamNext, Serve
<1>2. CASE Begin
  <2>1. now' = now + 1 /\ txns' = txns \cup {now + 1} /\ UNCHANGED <<rows, observed, actual>>
    BY <1>2 DEF Begin, streamVars, readVars
  <2>2. \A n \in Nat : n <= now => n # now + 1 /\ n <= now + 1
    BY <1>t
  <2>5. ReadingKept'
    BY <2>1 DEF ReadInv, ReadingKept
  <2>6. Uncommitted'
    <3>1. ASSUME NEW t \in txns
          PROVE  /\ t <= now' /\ \A a \in Rows : t \notin TimesOf(rows[a])
                 /\ \A s \in Streams : \A a \in Rows : t \notin TimesOf(actual[s][a])
      BY <1>x, <2>1, <2>2 DEF ReadInv, Uncommitted
    <3>2. now + 1 <= now'
      BY <1>t, <2>1
    <3>3. /\ \A a \in Rows : now + 1 \notin TimesOf(rows[a])
          /\ \A s \in Streams : \A a \in Rows : now + 1 \notin TimesOf(actual[s][a])
      BY <1>y, <2>2 DEF ReadInv, Past
    <3> QED
      BY <2>1, <3>1, <3>2, <3>3 DEF Uncommitted
  <2>7. Past'
    BY <1>y, <2>1, <2>2 DEF ReadInv, Past
  <2>8. ChangedIsUnread'
    BY <2>1 DEF ReadInv, ChangedIsUnread
  <2> QED
    BY <2>5, <2>6, <2>7, <2>8 DEF ReadInv
<1>3. ASSUME NEW t \in txns, Commit(t) PROVE ReadInv'
  <2>1. txns' = txns \ {t} /\ UNCHANGED <<now, observed, actual>>
    BY <1>3 DEF Commit, streamVars, readVars
  <2>2. PICK a \in Rows : \E row \in Writes(rows[a], t) : rows' = [rows EXCEPT ![a] = row]
    BY <1>3 DEF Commit
  <2>3. PICK row \in Writes(rows[a], t) : rows' = [rows EXCEPT ![a] = row]
    BY <2>2
  <2>4. rows'[a] = row /\ \A b \in Rows \ {a} : rows'[b] = rows[b]
    BY <1>t, <2>3
  <2>w. (row # Gone => row.written = t) /\ TimesOf(row) \subseteq {0, t} \cup TimesOf(rows[a])
    BY <1>t, WritesAre
  <2>5. ReadingKept'
    BY <2>1 DEF ReadInv, ReadingKept
  <2>6. Uncommitted'
    <3>1. ASSUME NEW u \in txns \ {t}, NEW b \in Rows PROVE u \notin TimesOf(rows'[b])
      BY <1>x, <2>4, <2>w DEF ReadInv, Uncommitted
    <3> QED
      BY <2>1, <3>1 DEF ReadInv, Uncommitted
  <2>7. Past'
    <3>1. ASSUME NEW b \in Rows, NEW n \in TimesOf(rows'[b]) PROVE n <= now
      BY <1>x, <2>4, <2>w DEF ReadInv, Uncommitted, Past
    <3> QED
      BY <2>1, <3>1 DEF ReadInv, Past
  <2>8. ChangedIsUnread'
    <3>1. ASSUME NEW s \in Streams, NEW b \in Rows, NEW c \in Rows,
                 rows'[b] \notin {Gone, actual[s][b]}
          PROVE  Stamp(actual[s][c]) # rows'[b].written
      <4>1. CASE b = a
        BY <1>y, <2>4, <2>w, <3>1, <4>1 DEF ReadInv, Uncommitted
      <4>2. CASE b # a
        BY <2>4, <3>1, <4>2 DEF ReadInv, ChangedIsUnread
      <4> QED
        BY <4>1, <4>2
    <3> QED
      BY <2>1, <3>1 DEF ChangedIsUnread
  <2> QED
    BY <2>5, <2>6, <2>7, <2>8 DEF ReadInv
<1>4. CASE Tick \/ UNCHANGED vars
  BY <1>4, <1>u DEF Tick, vars
<1> QED
  BY <1>1, <1>2, <1>3, <1>4 DEF Next

\* Only a row stamped below the watermark, or not stamped by its last writer,
\* can change without being noticed.
LEMMA MissesHaveCause ==
    ASSUME TypeOK, ReadInv, NEW s \in WorkspaceStreams, actual[s] # rows, ~Changed(s)
    PROVE  \E a \in Rows : /\ rows[a] \notin {Gone, actual[s][a]}
                          /\ \/ Stamp(rows[a]) < observed[s].mark
                             \/ Stamp(rows[a]) # rows[a].written
<1> USE EventStreamsAssumption
<1>t. /\ rows \in [Rows -> Versions] /\ actual[s] \in [Rows -> Versions] /\ s \in Streams
  BY DEF TypeOK, Streams, Versions
<1>1. ReadingOf(actual[s]) = ReadingOf(rows) /\ observed[s] = ReadingOf(rows)
  BY <1>t, ReadingType DEF ReadInv, ReadingKept, Changed
<1>2. CountOf(actual[s]) = CountOf(rows) /\ MarkOf(actual[s]) = MarkOf(rows) /\ observed[s].mark = MarkOf(rows)
  BY <1>1 DEF ReadingOf
<1> SUFFICES ASSUME \A a \in Rows : rows[a] \notin {Gone, actual[s][a]} =>
                        ~(Stamp(rows[a]) < MarkOf(rows)) /\ Stamp(rows[a]) = rows[a].written
             PROVE  FALSE
  BY <1>2
<1>3. ASSUME NEW a \in Rows, rows[a] \notin {Gone, actual[s][a]} PROVE FALSE
  <2>1. Stamp(rows[a]) <= MarkOf(rows) /\ MarkOf(rows) \in 0..(MaxTxns + 1)
    BY <1>t, ReadingIs
  <2>2. Stamp(rows[a]) \in 0..(MaxTxns + 1) /\ Stamp(rows[a]) # 0
    BY <1>t, <1>3, StampIs DEF Versions
  <2>3. Stamp(rows[a]) = MarkOf(rows)
    BY <1>3, <2>1, <2>2
  <2>4. rows[a].written = MarkOf(actual[s]) /\ MarkOf(actual[s]) # 0
    BY <1>2, <1>3, <2>2, <2>3
  <2>5. PICK b \in Rows : Stamp(actual[s][b]) = MarkOf(actual[s])
    BY <1>t, <2>4, ReadingIs
  <2> QED
    BY <1>3, <1>t, <2>4, <2>5 DEF ReadInv, ChangedIsUnread
<1> DEFINE Now  == {a \in Rows : rows[a] # Gone}
           Then == {a \in Rows : actual[s][a] # Gone}
<1>4. Now \in SUBSET Then
  BY <1>3
<1>5. IsFiniteSet(Then) /\ Cardinality(Now) = Cardinality(Then)
  BY <1>t, <1>2, ReadingIs DEF CountOf
<1>6. Now = Then
  BY <1>4, <1>5, FS_Subset
<1>7. \A a \in Rows : rows[a] = actual[s][a]
  BY <1>3, <1>6
<1> QED
  BY <1>t, <1>7

(***************************************************************************)
(* The invariant holds.                                                    *)
(***************************************************************************)
StreamsInv == TypeOK /\ SlotInv /\ ReadInv

LEMMA InitInv == Init => StreamsInv
<1> USE EventStreamsAssumption
<1> SUFFICES ASSUME Init PROVE StreamsInv
  OBVIOUS
<1>1. TypeOK
  <2>1. [fixed |-> 1, executed |-> 0, written |-> 1] \in Present
    BY DEF Present, Stamps
  <2>2. /\ [a \in Rows |-> Gone] \in [Rows -> Present \cup {Gone}]
        /\ [count |-> 0, mark |-> 0] \in [count: 0..Cardinality(Rows), mark: 0..(MaxTxns + 1)]
    BY ZeroType DEF Versions, Readings
  <2> QED
    BY <2>1, <2>2 DEF Init, TypeOK
<1>2. SlotInv
  <2>1. Kept = {} /\ \A u \in Users : KeptOf(u) = {}
    BY DEF Init, Kept, KeptOf
  <2>2. Cardinality(Kept) = 0 /\ \A u \in Users : Cardinality(KeptOf(u)) = 0
    BY <2>1, FS_EmptySet
  <2> QED
    BY <2>2 DEF Init, SlotInv, SlotsAreReturned, Live
<1>3. ReadInv
  <2>1. /\ TimesOf(Gone) = {0} /\ Stamp(Gone) = 0
        /\ TimesOf([fixed |-> 1, executed |-> 0, written |-> 1]) = {0, 1}
    BY DEF TimesOf, Gone, Stamp
  <2>2. /\ \A s \in Streams : \A a \in Rows : actual[s][a] = Gone
        /\ \A a \in Rows : rows[a] = [fixed |-> 1, executed |-> 0, written |-> 1]
        /\ now = 1 /\ txns = {}
    BY DEF Init
  <2>3. ReadingKept
    BY ZeroType DEF Init, ReadingKept
  <2>4. Uncommitted /\ Past
    BY <2>1, <2>2 DEF Uncommitted, Past
  <2>5. ChangedIsUnread
    BY <2>1, <2>2 DEF ChangedIsUnread
  <2> QED
    BY <2>3, <2>4, <2>5 DEF ReadInv
<1> QED
  BY <1>1, <1>2, <1>3 DEF StreamsInv

\* The inductive invariant of the streams, from which the theorems below follow.
THEOREM StreamsInvariant == Spec => []StreamsInv
<1>1. StreamsInv /\ [Next]_vars => StreamsInv'
  BY TypeStep, SlotStep, ReadStep DEF StreamsInv
<1> QED
  BY <1>1, InitInv, PTL DEF Spec

\* The streams, their slots and what they have read have the types of TypeOK.
THEOREM TypeCorrect == Spec => []TypeOK
<1>1. StreamsInv => TypeOK
  BY DEF StreamsInv
<1> QED
  BY <1>1, StreamsInvariant, PTL

\* StreamSlots keeps both limits, reaping or not.
THEOREM LimitsHold == Spec => []CapHolds
<1>1. StreamsInv => CapHolds
  <2> SUFFICES ASSUME StreamsInv PROVE CapHolds
    OBVIOUS
  <2> USE EventStreamsAssumption
  <2> DEFINE running == {s \in Streams : Live(s) /\ ~Outlived(s)}
  <2>1. running \in SUBSET Kept /\ Kept \in SUBSET Streams
    BY DEF StreamsInv, SlotInv, TypeOK, Kept, Expired, Outlived
  <2>2. IsFiniteSet(Kept) /\ Cardinality(Kept) \in Nat
    BY <2>1, FS_Subset, FS_CardinalityType
  <2>3. Cardinality(running) <= Cardinality(Kept) /\ Cardinality(running) \in Nat
    BY <2>1, <2>2, FS_Subset, FS_CardinalityType
  <2>4. ASSUME NEW u \in Users PROVE Cardinality({s \in running : UserOf[s] = u}) <= UserLimit
    <3>1. {s \in running : UserOf[s] = u} \in SUBSET KeptOf(u) /\ KeptOf(u) \in SUBSET Kept
      BY <2>1 DEF KeptOf
    <3>2. IsFiniteSet(KeptOf(u)) /\ Cardinality(KeptOf(u)) \in Nat
      BY <2>2, <3>1, FS_Subset, FS_CardinalityType
    <3>3. /\ Cardinality({s \in running : UserOf[s] = u}) <= Cardinality(KeptOf(u))
          /\ Cardinality({s \in running : UserOf[s] = u}) \in Nat
      BY <3>1, <3>2, FS_Subset, FS_CardinalityType
    <3> QED
      BY <3>2, <3>3 DEF StreamsInv, SlotInv
  <2> QED
    BY <2>2, <2>3, <2>4 DEF StreamsInv, SlotInv, CapHolds
<1> QED
  BY <1>1, StreamsInvariant, PTL

\* Only a response that was never started keeps the slot of a stream that is over.
THEOREM SlotsReturn == Spec => []SlotsAreReturned
<1>1. StreamsInv => SlotsAreReturned
  BY DEF StreamsInv, SlotInv
<1> QED
  BY <1>1, StreamsInvariant, PTL

\* What a dashboard misses was written by a transaction that committed late, or by
\* one that moved no timestamp of the row.
THEOREM MissesExplained == Spec => MissesAreLateOrUnstamped
<1>1. StreamsInv /\ [Next]_vars =>
          [\A s \in WorkspaceStreams : Misses(s) =>
              \E a \in Rows : /\ rows[a] \notin {Gone, actual[s][a]}
                             /\ \/ Stamp(rows[a]) < observed[s].mark
                                \/ Stamp(rows[a]) # rows[a].written]_vars
  BY MissesHaveCause DEF StreamsInv, Misses
<1> QED
  BY <1>1, StreamsInvariant, PTL DEF Spec, MissesAreLateOrUnstamped

=============================================================================
