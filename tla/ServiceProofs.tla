---------------------------- MODULE ServiceProofs ----------------------------
(***************************************************************************)
(* What the two services under every agent run keep.  The first part is    *)
(* about the connection pool, for every number of threads, every size of   *)
(* the pool and of its idle set, and every depth of nested leases.  The    *)
(* second is about the language-model client, for all runs, models, chains *)
(* and roles, and any number of calls.  Neither part uses the other.       *)
(***************************************************************************)
EXTENDS DbPool, LlmClient, FiniteSetTheorems, SequenceTheorems, WellFoundedInduction, TLAPS

(***************************************************************************)
(* Sequences of connections, used as stacks.                               *)
(***************************************************************************)
LEMMA Pushed ==
    ASSUME NEW s \in Seq(Conns), NEW c \in Conns
    PROVE  /\ Append(s, c) \in Seq(Conns)
           /\ Len(Append(s, c)) = Len(s) + 1
           /\ ToSet(Append(s, c)) = ToSet(s) \cup {c}
           /\ IsInjective(s) /\ c \notin ToSet(s) => IsInjective(Append(s, c))
<1> DEFINE a == Append(s, c)
<1>1. /\ a \in Seq(Conns) /\ Len(a) = Len(s) + 1
      /\ \A i \in 1..Len(s) : a[i] = s[i]
      /\ a[Len(s) + 1] = c
  BY AppendProperties
<1>2. /\ DOMAIN a = 1..(Len(s) + 1) /\ DOMAIN s = 1..Len(s) /\ Len(s) \in Nat
  BY <1>1, LenProperties
<1> HIDE DEF a
<1>3. ToSet(a) = ToSet(s) \cup {c}
  BY <1>1, <1>2 DEF ToSet
<1>4. IsInjective(s) /\ c \notin ToSet(s) => IsInjective(a)
  BY <1>1, <1>2 DEF ToSet, IsInjective
<1> QED
  BY <1>1, <1>3, <1>4 DEF a

LEMMA Popped ==
    ASSUME NEW s \in Seq(Conns), s # <<>>
    PROVE  /\ Front(s) \in Seq(Conns) /\ Last(s) \in Conns
           /\ Len(s) \in Nat \ {0} /\ Len(Front(s)) = Len(s) - 1
           /\ ToSet(s) = ToSet(Front(s)) \cup {Last(s)}
           /\ IsInjective(s) => IsInjective(Front(s)) /\ Last(s) \notin ToSet(Front(s))
<1> DEFINE f == Front(s)
<1>1. Len(s) \in Nat \ {0} /\ DOMAIN s = 1..Len(s)
  BY EmptySeq, LenProperties
<1>2. \A i \in 1..Len(s) : s[i] \in Conns
  BY ElementOfSeq
<1>3. /\ f \in Seq(Conns) /\ Len(f) = Len(s) - 1
      /\ \A i \in 1..(Len(s) - 1) : f[i] = s[i]
  <2>1. \A i \in 1..(Len(s) - 1) : s[i] \in Conns
    BY <1>1, <1>2
  <2>2. /\ f \in Seq(Conns)
        /\ Len(f) = IF 1 <= Len(s) - 1 THEN Len(s) - 1 - 1 + 1 ELSE 0
        /\ \A i \in 1..(Len(s) - 1 - 1 + 1) : f[i] = s[1 + i - 1]
    BY <1>1, <2>1, SubSeqProperties DEF Front
  <2> HIDE DEF f
  <2>3. Len(f) = Len(s) - 1
    <3>1. \A n \in Nat \ {0} : (IF 1 <= n - 1 THEN n - 1 - 1 + 1 ELSE 0) = n - 1
      OBVIOUS
    <3> QED
      BY <1>1, <2>2, <3>1
  <2>4. ASSUME NEW i \in 1..(Len(s) - 1)
        PROVE  f[i] = s[i]
    <3>1. i \in 1..(Len(s) - 1 - 1 + 1) /\ 1 + i - 1 = i
      BY <1>1
    <3> QED
      BY <2>2, <3>1
  <2> QED
    BY <2>2, <2>3, <2>4
<1>4. DOMAIN f = 1..(Len(s) - 1)
  BY <1>1, <1>3, LenProperties
<1> HIDE DEF f
<1>5. ToSet(s) = ToSet(f) \cup {Last(s)}
  BY <1>1, <1>3, <1>4 DEF ToSet, Last
<1>6. IsInjective(s) => IsInjective(f) /\ Last(s) \notin ToSet(f)
  BY <1>1, <1>3, <1>4 DEF ToSet, Last, IsInjective
<1> QED
  BY <1>1, <1>2, <1>3, <1>5, <1>6 DEF f, Last

(***************************************************************************)
(* Counting slots.                                                         *)
(***************************************************************************)
\* A finite set with one element more.
LEMMA OneMore ==
    ASSUME NEW S, NEW T, NEW x, x \notin S, T = S \cup {x}
    PROVE  /\ IsFiniteSet(S) <=> IsFiniteSet(T)
           /\ IsFiniteSet(S) => Cardinality(T) = Cardinality(S) + 1
           /\ IsFiniteSet(T) => Cardinality(S) = Cardinality(T) - 1
<1>1. S = T \ {x} /\ x \in T
  OBVIOUS
<1>2. ASSUME IsFiniteSet(S)
      PROVE  IsFiniteSet(T) /\ Cardinality(T) = Cardinality(S) + 1
  <2>1. /\ IsFiniteSet(S \cup {x})
        /\ Cardinality(S \cup {x}) = IF x \in S THEN Cardinality(S) ELSE Cardinality(S) + 1
    BY <1>2, FS_AddElement
  <2> QED
    BY <2>1
<1>3. ASSUME IsFiniteSet(T)
      PROVE  IsFiniteSet(S) /\ Cardinality(S) = Cardinality(T) - 1
  <2>1. /\ IsFiniteSet(T \ {x})
        /\ Cardinality(T \ {x}) = IF x \in T THEN Cardinality(T) - 1 ELSE Cardinality(T)
    BY <1>3, FS_RemoveElement
  <2> QED
    BY <1>1, <2>1
<1> QED
  BY <1>2, <1>3

SlotsOf(f) == UNION {{t} \X (1..f[t]) : t \in Threads}

LEMMA SlotMember ==
    ASSUME NEW f \in [Threads -> Nat], NEW x
    PROVE  x \in SlotsOf(f) <=> \E t \in Threads : \E i \in 1..f[t] : x = <<t, i>>
  BY DEF SlotsOf

\* One thread takes one slot more.
LEMMA SlotAdded ==
    ASSUME NEW f \in [Threads -> Nat], NEW t \in Threads,
           NEW g \in [Threads -> Nat], g = [f EXCEPT ![t] = f[t] + 1]
    PROVE  /\ IsFiniteSet(SlotsOf(f)) => /\ IsFiniteSet(SlotsOf(g))
                                        /\ Cardinality(SlotsOf(g)) = Cardinality(SlotsOf(f)) + 1
           /\ IsFiniteSet(SlotsOf(g)) => /\ IsFiniteSet(SlotsOf(f))
                                        /\ Cardinality(SlotsOf(f)) = Cardinality(SlotsOf(g)) - 1
                                        /\ Cardinality(SlotsOf(g)) \in Nat \ {0}
<1> DEFINE x == <<t, f[t] + 1>>
<1>1. x \notin SlotsOf(f)
  <2>1. \A u \in Threads : \A i \in 1..f[u] : x # <<u, i>>
    OBVIOUS
  <2> QED
    BY <2>1, SlotMember
<1>2. SlotsOf(g) = SlotsOf(f) \cup {x}
  <2>1. ASSUME NEW y \in SlotsOf(g) PROVE y \in SlotsOf(f) \cup {x}
    <3>1. PICK u \in Threads : \E i \in 1..g[u] : y = <<u, i>>
      BY <2>1, SlotMember
    <3>2. PICK i \in 1..g[u] : y = <<u, i>>
      BY <3>1
    <3>3. i \in 1..f[u] \/ (u = t /\ i = f[t] + 1)
      BY <3>2
    <3> QED
      BY <3>2, <3>3, SlotMember
  <2>2. ASSUME NEW y \in SlotsOf(f) PROVE y \in SlotsOf(g)
    <3>1. PICK u \in Threads : \E i \in 1..f[u] : y = <<u, i>>
      BY <2>2, SlotMember
    <3>2. PICK i \in 1..f[u] : y = <<u, i>>
      BY <3>1
    <3>3. i \in 1..g[u]
      BY <3>2
    <3> QED
      BY <3>2, <3>3, SlotMember
  <2>3. x \in SlotsOf(g)
    <3>1. f[t] + 1 \in 1..g[t]
      OBVIOUS
    <3> QED
      BY <3>1, SlotMember
  <2> QED
    BY <2>1, <2>2, <2>3
<1> HIDE DEF x, SlotsOf
<1>3. /\ IsFiniteSet(SlotsOf(f)) <=> IsFiniteSet(SlotsOf(g))
      /\ IsFiniteSet(SlotsOf(f)) => Cardinality(SlotsOf(g)) = Cardinality(SlotsOf(f)) + 1
      /\ IsFiniteSet(SlotsOf(g)) => Cardinality(SlotsOf(f)) = Cardinality(SlotsOf(g)) - 1
  BY <1>1, <1>2, OneMore
<1>4. ASSUME IsFiniteSet(SlotsOf(g)) PROVE Cardinality(SlotsOf(g)) \in Nat \ {0}
  <2>1. Cardinality(SlotsOf(g)) \in Nat /\ (Cardinality(SlotsOf(g)) = 0 <=> SlotsOf(g) = {})
    BY <1>4, FS_CardinalityType, FS_EmptySet
  <2> QED
    BY <1>2, <2>1
<1> QED
  BY <1>3, <1>4

(***************************************************************************)
(* The inductive invariant.                                                *)
(***************************************************************************)
PCs == {"run", "ask", "wait", "woken", "late", "check", "dial", "return", "drop", "close"}
Handling == {"check", "return", "drop", "close"}

\* What a thread's place says of what it has in hand and of the waiters.
Shape ==
    /\ \A t \in Threads : cand[t] # 0 <=> pc[t] \in Handling
    /\ \A t \in Threads : Asking(t) => Len(mine[t]) < Depth[t]
    /\ \A t \in Threads : pc[t] = "wait" => t \in waiters
    /\ \A t \in waiters : pc[t] \in {"wait", "late"}

Counted == IsFiniteSet(Slots) /\ SlotsAreExact

\* No connection is twice in one place, and one on its way back is rolled back.
Placed ==
    /\ IsInjective(idle)
    /\ \A t \in Threads : IsInjective(mine[t]) /\ cand[t] \notin ToSet(mine[t])
    /\ \A t \in Threads : pc[t] = "return" => sock[cand[t]] # "dirty"
    /\ ConnectionsAreExclusive

PoolInv == TypeOK /\ Shape /\ Counted /\ Placed /\ NoStrandedWaiter

LEMMA SlotsIsSlotsOf == Slots = SlotsOf(Taken)
  BY DEF Slots, SlotsOf

(***************************************************************************)
(* Who a notify reaches.                                                   *)
(***************************************************************************)
LEMMA Notified ==
    ASSUME TypeOK, Shape, NEW t \in Threads, pc[t] \notin {"wait", "late"},
           NEW label \in PCs, Notify(t, label)
    PROVE  /\ pc' \in [Threads -> PCs] /\ pc'[t] = label
           /\ waiters' \subseteq waiters
           /\ \A u \in Threads \ {t} : \/ pc'[u] = pc[u]
                                       \/ pc[u] = "wait" /\ pc'[u] = "woken"
           /\ \A u \in Threads \ {t} : pc'[u] = "wait" => u \in waiters'
           /\ \A u \in waiters' : u # t /\ pc'[u] = pc[u]
<1>1. t \notin waiters
  BY DEF Shape
<1>2. pc \in [Threads -> PCs] /\ waiters \subseteq Threads
  BY DEF TypeOK, PCs
<1>3. CASE waiters = {} /\ Goto(t, label) /\ UNCHANGED waiters
  BY <1>1, <1>2, <1>3 DEF Goto, Shape
<1>4. ASSUME NEW w \in waiters,
             waiters' = waiters \ {w},
             pc' = [pc EXCEPT ![t] = label, ![w] = IF @ = "wait" THEN "woken" ELSE @]
      PROVE  /\ pc' \in [Threads -> PCs] /\ pc'[t] = label
             /\ \A u \in Threads \ {t} : \/ pc'[u] = pc[u]
                                         \/ pc[u] = "wait" /\ pc'[u] = "woken"
             /\ \A u \in Threads \ {t} : pc'[u] = "wait" => u \in waiters'
             /\ \A u \in waiters' : u # t /\ pc'[u] = pc[u]
  <2>1. w # t /\ w \in Threads
    BY <1>1, <1>2
  <2>2. /\ pc'[t] = label
        /\ pc'[w] = IF pc[w] = "wait" THEN "woken" ELSE pc[w]
        /\ \A u \in Threads \ {t, w} : pc'[u] = pc[u]
    BY <1>2, <1>4, <2>1
  <2>3. pc' \in [Threads -> PCs]
    BY <1>2, <1>4, <2>1 DEF PCs
  <2> QED
    BY <1>1, <1>2, <1>4, <2>1, <2>2, <2>3 DEF Shape
<1> QED
  BY <1>3, <1>4 DEF Notify

(***************************************************************************)
(* The counters in terms of the slots.                                     *)
(***************************************************************************)
LEMMA TakenType == TypeOK => Taken \in [Threads -> Nat]
<1>1. ASSUME TypeOK, NEW t \in Threads PROVE Len(mine[t]) + (IF Leasing(t) THEN 1 ELSE 0) \in Nat
  <2>1. Len(mine[t]) \in Nat
    BY <1>1, LenProperties DEF TypeOK
  <2>2. \A n \in Nat : n + 1 \in Nat /\ n + 0 \in Nat
    OBVIOUS
  <2> QED
    BY <2>1, <2>2
<1> QED
  BY <1>1 DEF Taken

LEMMA Counters ==
    ASSUME TypeOK, Counted
    PROVE  /\ leased \in Nat /\ Len(idle) \in Nat /\ open = leased + Len(idle)
           /\ \A t \in Threads : Leasing(t) => leased # 0
<1>1. Taken \in [Threads -> Nat]
  BY TakenType
<1>2. leased = Cardinality(SlotsOf(Taken)) /\ IsFiniteSet(SlotsOf(Taken))
  BY SlotsIsSlotsOf DEF Counted, SlotsAreExact
<1>3. leased \in Nat /\ (leased = 0 <=> SlotsOf(Taken) = {})
  BY <1>2, FS_CardinalityType, FS_EmptySet
<1>4. ASSUME NEW t \in Threads, Leasing(t) PROVE leased # 0
  <2>1. Taken[t] \in Nat \ {0}
    <3>1. Len(mine[t]) \in Nat
      BY LenProperties DEF TypeOK
    <3> QED
      BY <3>1, <1>4 DEF Taken
  <2>2. <<t, 1>> \in SlotsOf(Taken)
    <3>1. 1 \in 1..Taken[t]
      BY <2>1
    <3> QED
      BY <1>1, <3>1, SlotMember
  <2> QED
    BY <1>3, <2>2
<1>5. Len(idle) \in Nat /\ open = leased + Len(idle)
  BY LenProperties DEF TypeOK, Counted, SlotsAreExact
<1> QED
  BY <1>3, <1>4, <1>5

(***************************************************************************)
(* Types and shapes are kept.                                              *)
(***************************************************************************)
LEMMA TypeStep ==
    ASSUME TypeOK, Shape, Counted, NEW t \in Threads, Thread(t) \/ DeadlinePasses(t)
    PROVE  TypeOK' /\ Shape'
<1> USE PoolAssumption
<1>c. /\ leased \in Nat /\ Len(idle) \in Nat /\ open = leased + Len(idle)
      /\ (Leasing(t) => leased # 0)
  BY Counters
<1>t. /\ pc \in [Threads -> PCs] /\ idle \in Seq(Conns) /\ mine \in [Threads -> Seq(Conns)]
      /\ waiters \subseteq Threads /\ \A u \in Threads : Len(mine[u]) \in Nat
      /\ cand \in [Threads -> 0..MaxConn] /\ Conns = 1..MaxConn /\ open \in 0..MaxSize
  BY LenProperties DEF TypeOK, PCs, Conns
<1>1. CASE Ask(t)
  BY <1>1, <1>t DEF Ask, TypeOK, Shape, Handling, Asking, Goto, poolVars
<1>2. CASE DeadlinePasses(t)
  BY <1>2, <1>t DEF DeadlinePasses, TypeOK, Shape, Handling, Asking, poolVars
<1>3. CASE TakeIdle(t)
  <2>1. Front(idle) \in Seq(Conns) /\ Last(idle) \in Conns /\ Len(Front(idle)) = Len(idle) - 1 /\ Len(idle) # 0
    BY <1>3, <1>t, Popped DEF TakeIdle
  <2>2. idle' \in Seq(Conns) /\ Len(idle') <= MaxIdle /\ leased' \in 0..MaxSize
    BY <1>3, <1>c, <1>t, <2>1 DEF TakeIdle, TypeOK
  <2>3. cand' \in [Threads -> 0..MaxConn] /\ cand'[t] # 0
    BY <1>3, <1>t, <2>1 DEF TakeIdle
  <2> QED
    BY <1>3, <1>t, <2>2, <2>3 DEF TakeIdle, TypeOK, Shape, Handling, Asking, Looks, Goto
<1>4. CASE Grow(t)
  <2>1. open' \in 0..MaxSize /\ leased' \in 0..MaxSize
    BY <1>4, <1>c, <1>t DEF Grow
  <2> QED
    BY <1>4, <1>t, <2>1 DEF Grow, TypeOK, Shape, Handling, Asking, Looks, Goto
<1>5. CASE Wait(t)
  BY <1>5, <1>t DEF Wait, TypeOK, Shape, Handling, Asking, Looks, Goto, poolVars
<1>6. CASE WaitTimesOut(t)
  BY <1>6, <1>t DEF WaitTimesOut, TypeOK, Shape, Handling, Asking, Goto, poolVars
<1>7. CASE Refuse(t)
  BY <1>7, <1>t DEF Refuse, TypeOK, Shape, Handling, Asking, Looks, Goto, poolVars
<1>8. CASE HandOut(t)
  <2>1. cand[t] \in Conns /\ Len(mine[t]) < Depth[t]
    BY <1>8, <1>t DEF HandOut, Shape, Handling, Asking
  <2>2. Append(mine[t], cand[t]) \in Seq(Conns) /\ Len(Append(mine[t], cand[t])) = Len(mine[t]) + 1
    BY <1>t, <2>1, Pushed
  <2>3. mine' \in [Threads -> Seq(Conns)] /\ \A u \in Threads : Len(mine'[u]) <= Depth[u]
    BY <1>8, <1>t, <2>1, <2>2 DEF HandOut, TypeOK
  <2> QED
    BY <1>8, <1>t, <2>3 DEF HandOut, TypeOK, Shape, Handling, Asking, Goto, poolVars
<1>9. CASE Recycle(t)
  BY <1>9, <1>t DEF Recycle, TypeOK, Shape, Handling, Asking, Goto, poolVars
<1>10. CASE Dial(t)
  <2>1. PICK c \in Conns : /\ sock' = [sock EXCEPT ![c] = "clean"]
                           /\ mine' = [mine EXCEPT ![t] = Append(@, c)]
    BY <1>10 DEF Dial
  <2>2. Append(mine[t], c) \in Seq(Conns) /\ Len(Append(mine[t], c)) = Len(mine[t]) + 1
    BY <1>t, Pushed
  <2>3. mine' \in [Threads -> Seq(Conns)] /\ \A u \in Threads : Len(mine'[u]) <= Depth[u]
    BY <1>10, <1>t, <2>1, <2>2 DEF Dial, TypeOK, Shape, Asking
  <2> QED
    BY <1>10, <1>t, <2>1, <2>3 DEF Dial, TypeOK, Shape, Handling, Asking, Goto, poolVars
<1>n. ASSUME NEW label \in {"run", "close"}, Notify(t, label), pc[t] \in {"dial", "return", "drop"}
      PROVE  /\ pc' \in [Threads -> PCs] /\ pc'[t] = label /\ waiters' \subseteq Threads
             /\ \A u \in Threads \ {t} : Asking(u)' = Asking(u) /\ (pc'[u] \in Handling <=> pc[u] \in Handling)
             /\ \A u \in Threads : pc'[u] = "wait" => u \in waiters'
             /\ \A u \in waiters' : pc'[u] \in {"wait", "late"}
  <2>1. label \in PCs /\ pc[t] \notin {"wait", "late"}
    BY <1>n DEF PCs
  <2> QED
    BY <1>n, <1>t, <2>1, Notified DEF Asking, Handling, Shape
<1>11. CASE DialFails(t)
  <2>1. leased # 0 /\ open' \in 0..MaxSize /\ leased' \in 0..MaxSize
    BY <1>11, <1>c, <1>t DEF DialFails, Leasing, TypeOK
  <2> QED
    BY <1>11, <1>t, <1>n, <2>1 DEF DialFails, TypeOK, Shape, Handling, Asking, PCs
<1>12. CASE Leave(t)
  <2>1. /\ Front(mine[t]) \in Seq(Conns) /\ Last(mine[t]) \in Conns
        /\ Len(Front(mine[t])) = Len(mine[t]) - 1
    BY <1>12, <1>t, Popped DEF Leave
  <2>2. /\ cand' = [cand EXCEPT ![t] = Last(mine[t])]
        /\ mine' = [mine EXCEPT ![t] = Front(@)]
        /\ pc' = [pc EXCEPT ![t] = pc'[t]] /\ pc'[t] \in {"return", "drop"}
    BY <1>12, <1>t DEF Leave, Goto
  <2>3. sock' \in [Conns -> {"none", "clean", "dirty"}]
    BY <1>12 DEF Leave, TypeOK, RollBack
  <2>4. mine' \in [Threads -> Seq(Conns)] /\ \A u \in Threads : Len(mine'[u]) <= Depth[u]
    BY <1>t, <2>1, <2>2 DEF TypeOK
  <2>5. /\ pc' \in [Threads -> PCs] /\ cand' \in [Threads -> 0..MaxConn] /\ cand'[t] # 0
        /\ pc'[t] \in {"return", "drop"} /\ pc[t] = "run"
        /\ \A u \in Threads \ {t} : pc'[u] = pc[u] /\ cand'[u] = cand[u] /\ mine'[u] = mine[u]
    <3>1. Goto(t, "return") \/ Goto(t, "drop")
      BY <1>12 DEF Leave
    <3>2. /\ pc' \in [Threads -> PCs] /\ pc'[t] \in {"return", "drop"}
          /\ \A u \in Threads \ {t} : pc'[u] = pc[u]
      BY <1>t, <3>1 DEF Goto, PCs
    <3>3. cand' \in [Threads -> 0..MaxConn] /\ cand'[t] # 0
      BY <1>t, <2>1, <2>2
    <3>4. \A u \in Threads \ {t} : cand'[u] = cand[u] /\ mine'[u] = mine[u]
      BY <1>t, <2>2
    <3> QED
      BY <1>12, <3>2, <3>3, <3>4 DEF Leave
  <2>6. TypeOK'
    BY <1>12, <2>3, <2>4, <2>5 DEF Leave, TypeOK, poolVars, PCs
  <2>7. Shape'
    BY <1>12, <1>t, <2>5 DEF Leave, Shape, Handling, Asking
  <2> QED
    BY <2>6, <2>7
<1>13. CASE GiveBack(t)
  <2>1. leased # 0 /\ leased' \in 0..MaxSize /\ cand[t] \in Conns
    BY <1>13, <1>c, <1>t DEF GiveBack, Leasing, TypeOK, Shape, Handling
  <2>2. CASE Len(idle) < MaxIdle /\ idle' = Append(idle, cand[t]) /\ cand' = [cand EXCEPT ![t] = 0]
             /\ Notify(t, "run") /\ UNCHANGED open
    <3>1. idle' \in Seq(Conns) /\ Len(idle') <= MaxIdle
      BY <1>t, <1>c, <2>1, <2>2, Pushed
    <3>2. /\ pc' \in [Threads -> PCs] /\ pc'[t] = "run" /\ waiters' \subseteq Threads
          /\ \A u \in Threads \ {t} : Asking(u)' = Asking(u) /\ (pc'[u] \in Handling <=> pc[u] \in Handling)
          /\ \A u \in Threads : pc'[u] = "wait" => u \in waiters'
          /\ \A u \in waiters' : pc'[u] \in {"wait", "late"}
      BY <1>13, <1>n, <2>2 DEF GiveBack
    <3>5. cand' \in [Threads -> 0..MaxConn] /\ open' = open
      BY <1>t, <2>2
    <3>6. UNCHANGED <<due, mine, sock, wasted>>
      BY <1>13 DEF GiveBack
    <3>3. TypeOK'
      BY <2>1, <3>1, <3>2, <3>5, <3>6 DEF TypeOK, PCs
    <3>4. Shape'
      BY <1>13, <1>t, <2>2, <3>2 DEF GiveBack, Shape, Handling, Asking
    <3> QED
      BY <3>3, <3>4
  <2>3. CASE open' = open - 1 /\ Notify(t, "close") /\ UNCHANGED <<idle, cand>>
    <3>1. open' \in 0..MaxSize
      BY <1>t, <1>c, <2>1, <2>3
    <3> QED
      BY <1>13, <1>t, <1>n, <2>1, <2>3, <3>1 DEF GiveBack, TypeOK, Shape, Handling, Asking, PCs
  <2> QED
    BY <1>13, <2>2, <2>3 DEF GiveBack
<1>14. CASE Drop(t)
  <2>1. leased # 0 /\ open' \in 0..MaxSize /\ leased' \in 0..MaxSize
    BY <1>14, <1>c, <1>t DEF Drop, Leasing, TypeOK
  <2> QED
    BY <1>14, <1>t, <1>n, <2>1 DEF Drop, TypeOK, Shape, Handling, Asking, PCs
<1>15. CASE Close(t)
  BY <1>15, <1>t DEF Close, TypeOK, Shape, Handling, Asking, Goto, poolVars
<1> QED
  BY <1>1, <1>2, <1>3, <1>4, <1>5, <1>6, <1>7, <1>8, <1>9, <1>10, <1>11, <1>12, <1>13, <1>14, <1>15
     DEF Thread, Acquires

(***************************************************************************)
(* Slots are counted right.                                                *)
(***************************************************************************)
LEMMA CountKept ==
    ASSUME Counted, Taken' = Taken, leased' = leased, open' = leased' + Len(idle')
    PROVE  Counted'
<1>1. Slots' = Slots
  BY DEF Slots
<1> QED
  BY <1>1 DEF Counted, SlotsAreExact

LEMMA CountUp ==
    ASSUME TypeOK, TypeOK', Counted, NEW t \in Threads, Taken' = [Taken EXCEPT ![t] = Taken[t] + 1],
           leased' = leased + 1, open' = leased' + Len(idle')
    PROVE  Counted'
<1>0. (TypeOK => Taken \in [Threads -> Nat])'
  BY TakenType, PTL
<1>1. Taken \in [Threads -> Nat] /\ Taken' \in [Threads -> Nat]
  BY <1>0, TakenType
<1>2. IsFiniteSet(SlotsOf(Taken)) /\ leased = Cardinality(SlotsOf(Taken))
  BY SlotsIsSlotsOf DEF Counted, SlotsAreExact
<1>3. IsFiniteSet(SlotsOf(Taken')) /\ leased' = Cardinality(SlotsOf(Taken'))
  BY <1>1, <1>2, SlotAdded
<1>4. Slots' = SlotsOf(Taken')
  BY DEF Slots, SlotsOf
<1> QED
  BY <1>3, <1>4 DEF Counted, SlotsAreExact

LEMMA CountDown ==
    ASSUME TypeOK, TypeOK', Counted, NEW t \in Threads, Taken = [Taken' EXCEPT ![t] = Taken'[t] + 1],
           leased' = leased - 1, open' = leased' + Len(idle')
    PROVE  Counted'
<1>0. (TypeOK => Taken \in [Threads -> Nat])'
  BY TakenType, PTL
<1>1. Taken \in [Threads -> Nat] /\ Taken' \in [Threads -> Nat]
  BY <1>0, TakenType
<1>2. IsFiniteSet(SlotsOf(Taken)) /\ leased = Cardinality(SlotsOf(Taken))
  BY SlotsIsSlotsOf DEF Counted, SlotsAreExact
<1>3. IsFiniteSet(SlotsOf(Taken')) /\ leased' = Cardinality(SlotsOf(Taken'))
  BY <1>1, <1>2, SlotAdded
<1>4. Slots' = SlotsOf(Taken')
  BY DEF Slots, SlotsOf
<1> QED
  BY <1>3, <1>4 DEF Counted, SlotsAreExact

LEMMA CountStep ==
    ASSUME TypeOK, TypeOK', Shape, Counted, NEW t \in Threads, Thread(t) \/ DeadlinePasses(t)
    PROVE  Counted'
<1>c. /\ leased \in Nat /\ Len(idle) \in Nat /\ open = leased + Len(idle)
  BY Counters
<1>t. /\ pc \in [Threads -> PCs] /\ idle \in Seq(Conns) /\ mine \in [Threads -> Seq(Conns)]
      /\ cand \in [Threads -> 0..MaxConn] /\ Conns = 1..MaxConn
      /\ \A u \in Threads : Len(mine[u]) \in Nat
  BY LenProperties DEF TypeOK, PCs, Conns
<1> DEFINE
      Apart == \A u \in Threads \ {t} : mine'[u] = mine[u] /\ Leasing(u)' = Leasing(u)
<1>kept. ASSUME Apart, UNCHANGED poolVars,
                Len(mine'[t]) + (IF Leasing(t)' THEN 1 ELSE 0) = Len(mine[t]) + (IF Leasing(t) THEN 1 ELSE 0)
         PROVE  Counted'
  <2>1. Taken' = Taken
    BY <1>kept DEF Taken
  <2> QED
    BY <1>kept, <1>c, <2>1, CountKept DEF poolVars
<1>up. ASSUME Apart, mine'[t] = mine[t], ~Leasing(t), Leasing(t)',
              leased' = leased + 1, open' = leased' + Len(idle')
       PROVE  Counted'
  <2>1. \A u \in Threads \ {t} : Taken'[u] = Taken[u]
    BY <1>up DEF Taken
  <2>2. Taken'[t] = Taken[t] + 1
    <3>1. Taken[t] = Len(mine[t]) + 0 /\ Taken'[t] = Len(mine[t]) + 1
      BY <1>up DEF Taken
    <3> QED
      BY <1>t, <3>1
  <2>3. Taken' = [Taken EXCEPT ![t] = Taken[t] + 1]
    BY <2>1, <2>2 DEF Taken
  <2> QED
    BY <1>up, <2>3, CountUp
<1>down. ASSUME Apart, mine'[t] = mine[t], Leasing(t), ~Leasing(t)',
                leased' = leased - 1, open' = leased' + Len(idle')
         PROVE  Counted'
  <2>1. \A u \in Threads \ {t} : Taken[u] = Taken'[u]
    BY <1>down DEF Taken
  <2>2. Taken[t] = Taken'[t] + 1
    <3>1. Taken[t] = Len(mine[t]) + 1 /\ Taken'[t] = Len(mine[t]) + 0
      BY <1>down DEF Taken
    <3> QED
      BY <1>t, <3>1
  <2>3. Taken = [Taken' EXCEPT ![t] = Taken'[t] + 1]
    BY <2>1, <2>2 DEF Taken
  <2> QED
    BY <1>down, <2>3, CountDown
<1>n. ASSUME NEW label \in {"run", "close"}, Notify(t, label), pc[t] \in {"dial", "return", "drop"},
             UNCHANGED mine
      PROVE  Apart /\ Leasing(t) /\ ~Leasing(t)'
  <2>1. label \in PCs /\ pc[t] \notin {"wait", "late"}
    BY <1>n DEF PCs
  <2> QED
    BY <1>n, <1>t, <2>1, Notified DEF Leasing
<1>1. CASE Ask(t) \/ DeadlinePasses(t) \/ Wait(t) \/ WaitTimesOut(t) \/ Refuse(t) \/ Recycle(t) \/ Close(t)
  <2>1. UNCHANGED <<poolVars, mine>>
    BY <1>1 DEF Ask, DeadlinePasses, Wait, WaitTimesOut, Refuse, Recycle, Close
  <2>2. \A u \in Threads : Leasing(u)' = Leasing(u)
    BY <1>1, <1>t DEF Ask, DeadlinePasses, Wait, WaitTimesOut, Refuse, Recycle, Close,
                     Leasing, Goto, Looks
  <2> QED
    BY <1>kept, <2>1, <2>2
<1>2. CASE TakeIdle(t)
  <2>1. Len(Front(idle)) = Len(idle) - 1
    BY <1>2, <1>t, Popped DEF TakeIdle
  <2>2. Apart /\ mine'[t] = mine[t] /\ ~Leasing(t) /\ Leasing(t)'
    BY <1>2, <1>t DEF TakeIdle, Leasing, Goto, Looks
  <2> QED
    BY <1>2, <1>c, <1>up, <2>1, <2>2 DEF TakeIdle
<1>3. CASE Grow(t)
  <2>1. Apart /\ mine'[t] = mine[t] /\ ~Leasing(t) /\ Leasing(t)'
    BY <1>3, <1>t DEF Grow, Leasing, Goto, Looks
  <2> QED
    BY <1>3, <1>c, <1>up, <2>1 DEF Grow
<1>4. CASE HandOut(t)
  <2>1. Len(Append(mine[t], cand[t])) = Len(mine[t]) + 1
    BY <1>4, <1>t, Pushed DEF HandOut, Shape, Handling
  <2>2. Apart /\ mine'[t] = Append(mine[t], cand[t]) /\ Leasing(t) /\ ~Leasing(t)'
    BY <1>4, <1>t DEF HandOut, Leasing, Goto
  <2> QED
    BY <1>4, <1>t, <1>kept, <2>1, <2>2 DEF HandOut
<1>5. CASE Dial(t)
  <2>1. PICK c \in Conns : mine' = [mine EXCEPT ![t] = Append(@, c)]
    BY <1>5 DEF Dial
  <2>2. Len(Append(mine[t], c)) = Len(mine[t]) + 1
    BY <1>t, Pushed
  <2>3. Apart /\ mine'[t] = Append(mine[t], c) /\ Leasing(t) /\ ~Leasing(t)'
    BY <1>5, <1>t, <2>1 DEF Dial, Leasing, Goto
  <2> QED
    BY <1>5, <1>t, <1>kept, <2>2, <2>3 DEF Dial
<1>6. CASE Leave(t)
  <2>1. Len(Front(mine[t])) = Len(mine[t]) - 1
    BY <1>6, <1>t, Popped DEF Leave
  <2>2. Goto(t, "return") \/ Goto(t, "drop")
    BY <1>6 DEF Leave
  <2>3. Apart /\ mine'[t] = Front(mine[t]) /\ ~Leasing(t) /\ Leasing(t)'
    BY <1>6, <1>t, <2>2 DEF Leave, Leasing, Goto
  <2> QED
    BY <1>6, <1>t, <1>kept, <2>1, <2>3 DEF Leave
<1>7. CASE DialFails(t)
  BY <1>7, <1>c, <1>n, <1>down DEF DialFails
<1>8. CASE GiveBack(t)
  <2>1. cand[t] \in Conns /\ Len(Append(idle, cand[t])) = Len(idle) + 1
    BY <1>8, <1>t, Pushed DEF GiveBack, Shape, Handling
  <2>2. open' = leased' + Len(idle') /\ leased' = leased - 1
    BY <1>8, <1>c, <2>1 DEF GiveBack
  <2>3. Notify(t, "run") \/ Notify(t, "close")
    BY <1>8 DEF GiveBack
  <2> QED
    BY <1>8, <1>n, <1>down, <2>2, <2>3 DEF GiveBack
<1>9. CASE Drop(t)
  BY <1>9, <1>c, <1>n, <1>down DEF Drop
<1> QED
  BY <1>1, <1>2, <1>3, <1>4, <1>5, <1>6, <1>7, <1>8, <1>9 DEF Thread, Acquires

(***************************************************************************)
(* Every connection has one place.                                         *)
(***************************************************************************)
\* ConnectionsAreExclusive, element by element.
LEMMA Exclusive ==
    ConnectionsAreExclusive <=>
      /\ \A c \in ToSet(idle) : c \in Conns /\ sock[c] \notin {"none", "dirty"}
      /\ \A t \in Threads : \A c \in Has(t) : c \in Conns /\ sock[c] # "none" /\ c \notin ToSet(idle)
      /\ \A t, u \in Threads : \A c \in Has(t) : t # u => c \notin Has(u)
      /\ \A c \in Conns : sock[c] # "none" => c \in ToSet(idle) \/ \E t \in Threads : c \in Has(t)
  BY DEF ConnectionsAreExclusive

LEMMA PlaceStep ==
    ASSUME TypeOK, Shape, Placed, NEW t \in Threads, Thread(t) \/ DeadlinePasses(t)
    PROVE  Placed'
<1>t. /\ pc \in [Threads -> PCs] /\ idle \in Seq(Conns) /\ mine \in [Threads -> Seq(Conns)]
      /\ cand \in [Threads -> 0..MaxConn] /\ Conns = 1..MaxConn
      /\ sock \in [Conns -> {"none", "clean", "dirty"}]
  BY DEF TypeOK, PCs, Conns
<1>e. /\ \A c \in ToSet(idle) : c \in Conns /\ sock[c] \notin {"none", "dirty"}
      /\ \A u \in Threads : \A c \in Has(u) : c \in Conns /\ sock[c] # "none" /\ c \notin ToSet(idle)
      /\ \A u, v \in Threads : \A c \in Has(u) : u # v => c \notin Has(v)
      /\ \A c \in Conns : sock[c] # "none" => c \in ToSet(idle) \/ \E u \in Threads : c \in Has(u)
  BY Exclusive DEF Placed
<1>p. ConnectionsAreExclusive' <=>
        /\ \A c \in ToSet(idle') : c \in Conns /\ sock'[c] \notin {"none", "dirty"}
        /\ \A u \in Threads : \A c \in Has(u)' : c \in Conns /\ sock'[c] # "none" /\ c \notin ToSet(idle')
        /\ \A u, v \in Threads : \A c \in Has(u)' : u # v => c \notin Has(v)'
        /\ \A c \in Conns : sock'[c] # "none" => c \in ToSet(idle') \/ \E u \in Threads : c \in Has(u)'
  BY DEF ConnectionsAreExclusive
<1>q. /\ IsInjective(idle)
      /\ \A u \in Threads : IsInjective(mine[u]) /\ cand[u] \notin ToSet(mine[u])
      /\ \A u \in Threads : pc[u] = "return" => sock[cand[u]] # "dirty"
      /\ \A u \in Threads : cand[u] # 0 <=> pc[u] \in Handling
  BY DEF Placed, Shape
<1> DEFINE
      Others == \A u \in Threads \ {t} : mine'[u] = mine[u] /\ cand'[u] = cand[u]
      NoReturn == \A u \in Threads : pc'[u] = "return" => pc[u] = "return"
<1>o. ASSUME Others PROVE \A u \in Threads \ {t} : Has(u)' = Has(u)
  BY <1>o DEF Has
<1>kept. ASSUME UNCHANGED <<idle, mine, cand, sock>>, NoReturn PROVE Placed'
  <2>1. ConnectionsAreExclusive'
    BY <1>kept DEF Placed, ConnectionsAreExclusive, Has
  <2> QED
    BY <1>kept, <1>q, <2>1 DEF Placed
<1>n. ASSUME NEW label \in {"run", "close"}, Notify(t, label), pc[t] \in {"dial", "return", "drop"}
      PROVE  NoReturn /\ pc'[t] # "return"
  <2>1. label \in PCs /\ pc[t] \notin {"wait", "late"}
    BY <1>n DEF PCs
  <2> QED
    BY <1>n, <1>t, <2>1, Notified
<1>1. CASE Ask(t) \/ DeadlinePasses(t) \/ Grow(t) \/ Wait(t) \/ WaitTimesOut(t) \/ Refuse(t)
  <2>1. UNCHANGED <<idle, mine, cand, sock>>
    BY <1>1 DEF Ask, DeadlinePasses, Grow, Wait, WaitTimesOut, Refuse, poolVars
  <2>2. NoReturn
    BY <1>1, <1>t DEF Ask, DeadlinePasses, Grow, Wait, WaitTimesOut, Refuse, Goto
  <2> QED
    BY <1>kept, <2>1, <2>2
<1>2. CASE DialFails(t) \/ Drop(t)
  <2>1. UNCHANGED <<idle, mine, cand, sock>>
    BY <1>2 DEF DialFails, Drop
  <2> QED
    BY <1>2, <1>n, <1>kept, <2>1 DEF DialFails, Drop
<1>3. CASE TakeIdle(t)
  <2> DEFINE c == Last(idle)
  <2>1. /\ c \in Conns /\ ToSet(idle) = ToSet(idle') \cup {c}
        /\ IsInjective(idle') /\ c \notin ToSet(idle')
    BY <1>3, <1>t, <1>q, Popped DEF TakeIdle
  <2>2. /\ Others /\ mine' = mine /\ sock' = sock /\ cand'[t] = c /\ cand[t] = 0
        /\ NoReturn /\ pc'[t] # "return"
    BY <1>3, <1>t, <1>q DEF TakeIdle, Looks, Goto, Handling
  <2> HIDE DEF c
  <2>3. Has(t)' = Has(t) \cup {c}
    BY <1>t, <2>1, <2>2 DEF Has
  <2>4. c \in ToSet(idle) /\ \A u \in Threads : c \notin Has(u)
    BY <1>e, <2>1
  <2>5. ConnectionsAreExclusive'
    BY <1>e, <1>o, <1>p, <2>1, <2>2, <2>3, <2>4
  <2>6. \A u \in Threads : IsInjective(mine'[u]) /\ cand'[u] \notin ToSet(mine'[u])
    BY <1>q, <2>2, <2>4 DEF Has
  <2>7. \A u \in Threads : pc'[u] = "return" => sock'[cand'[u]] # "dirty"
    BY <1>q, <2>2
  <2> QED
    BY <2>1, <2>5, <2>6, <2>7 DEF Placed
<1>4. CASE HandOut(t)
  <2> DEFINE c == cand[t]
  <2>1. c \in Conns /\ c \notin ToSet(mine[t]) /\ 0 \notin Conns
    BY <1>4, <1>t, <1>q DEF HandOut, Handling
  <2>2. /\ Others /\ idle' = idle /\ sock' = sock /\ cand'[t] = 0 /\ mine'[t] = Append(mine[t], c)
        /\ NoReturn /\ pc'[t] # "return"
    BY <1>4, <1>t DEF HandOut, Goto, poolVars
  <2>3. ToSet(mine'[t]) = ToSet(mine[t]) \cup {c} /\ IsInjective(mine'[t])
    BY <1>t, <1>q, <2>1, <2>2, Pushed
  <2>4. Has(t)' = Has(t)
    BY <2>1, <2>2, <2>3 DEF Has
  <2>5. ConnectionsAreExclusive'
    BY <1>e, <1>o, <1>p, <2>2, <2>4
  <2>6. 0 \notin ToSet(mine'[t])
    BY <1>e, <2>1, <2>3 DEF Has
  <2> QED
    BY <1>q, <2>2, <2>3, <2>5, <2>6 DEF Placed
<1>5. CASE Recycle(t) \/ Close(t)
  <2> DEFINE c == cand[t]
  <2>1. c \in Conns /\ c \notin ToSet(mine[t]) /\ c # 0 /\ 0 \notin Conns
    BY <1>5, <1>t, <1>q DEF Recycle, Close, Handling
  <2>2. /\ Others /\ idle' = idle /\ mine' = mine /\ cand'[t] = 0
        /\ sock' = [sock EXCEPT ![c] = "none"] /\ NoReturn /\ pc'[t] # "return"
    BY <1>5, <1>t DEF Recycle, Close, Goto, poolVars
  <2> HIDE DEF c
  <2>3. Has(t)' = Has(t) \ {c} /\ c \in Has(t)
    BY <2>1, <2>2 DEF Has, c
  <2>4. c \notin ToSet(idle) /\ \A u \in Threads \ {t} : c \notin Has(u)
    BY <1>e, <2>3
  <2>5. sock'[c] = "none" /\ \A d \in Conns \ {c} : sock'[d] = sock[d]
    BY <1>t, <2>1, <2>2
  <2>6. ConnectionsAreExclusive'
    BY <1>e, <1>o, <1>p, <2>2, <2>3, <2>4, <2>5
  <2>7. \A u \in Threads : cand'[u] \notin ToSet(mine'[u])
    BY <1>e, <1>q, <2>1, <2>2 DEF Has
  <2>8. \A u \in Threads : pc'[u] = "return" => sock'[cand'[u]] # "dirty"
    <3>1. \A u \in Threads \ {t} : pc[u] = "return" => cand[u] \in Has(u)
      BY <1>q DEF Has, Handling
    <3> QED
      BY <1>e, <1>q, <2>2, <2>4, <2>5, <3>1
  <2> QED
    BY <1>q, <2>2, <2>6, <2>7, <2>8 DEF Placed
<1>6. CASE Dial(t)
  <2>1. PICK c \in Conns : /\ sock[c] = "none" /\ sock' = [sock EXCEPT ![c] = "clean"]
                           /\ mine' = [mine EXCEPT ![t] = Append(@, c)]
    BY <1>6 DEF Dial, IsNew
  <2>2. /\ Others /\ idle' = idle /\ cand' = cand /\ cand[t] = 0 /\ mine'[t] = Append(mine[t], c)
        /\ NoReturn /\ pc'[t] # "return"
    BY <1>6, <1>t, <1>q, <2>1 DEF Dial, Goto, poolVars, Handling
  <2>3. c \notin ToSet(idle) /\ \A u \in Threads : c \notin Has(u)
    BY <1>e, <2>1
  <2>4. ToSet(mine'[t]) = ToSet(mine[t]) \cup {c} /\ IsInjective(mine'[t])
    BY <1>t, <1>q, <2>2, <2>3, Pushed DEF Has
  <2>5. Has(t)' = Has(t) \cup {c}
    BY <2>2, <2>4 DEF Has
  <2>6. sock'[c] = "clean" /\ \A d \in Conns \ {c} : sock'[d] = sock[d]
    BY <1>t, <2>1
  <2>7. ConnectionsAreExclusive'
    BY <1>e, <1>o, <1>p, <2>2, <2>3, <2>5, <2>6
  <2>8. \A u \in Threads : cand'[u] \notin ToSet(mine'[u])
    <3>1. 0 \notin ToSet(mine[t]) /\ c # 0
      BY <1>e, <1>t DEF Has
    <3> QED
      BY <1>q, <2>2, <2>4, <3>1
  <2>9. \A u \in Threads : pc'[u] = "return" => sock'[cand'[u]] # "dirty"
    <3>1. \A u \in Threads \ {t} : pc[u] = "return" => cand[u] \in Has(u)
      BY <1>q DEF Has, Handling
    <3> QED
      BY <1>e, <1>q, <2>2, <2>3, <2>6, <3>1
  <2> QED
    BY <1>q, <2>2, <2>4, <2>7, <2>8, <2>9 DEF Placed
<1>7. CASE Leave(t)
  <2> DEFINE c == Last(mine[t])
  <2>1. /\ c \in Conns /\ c # 0 /\ ToSet(mine[t]) = ToSet(Front(mine[t])) \cup {c}
        /\ IsInjective(Front(mine[t])) /\ c \notin ToSet(Front(mine[t]))
    BY <1>7, <1>t, <1>q, Popped DEF Leave
  <2>2. /\ idle' = idle /\ cand' = [cand EXCEPT ![t] = c]
        /\ mine' = [mine EXCEPT ![t] = Front(@)] /\ pc[t] = "run"
    BY <1>7 DEF Leave, poolVars
  <2>3. \/ /\ Goto(t, "return")
           /\ \E state \in {"clean", "dirty"} : sock' = [sock EXCEPT ![c] = RollBack(state)]
        \/ Goto(t, "drop") /\ sock' = sock
    BY <1>7 DEF Leave
  <2> HIDE DEF c
  <2>4. Others /\ cand'[t] = c /\ cand[t] = 0 /\ mine'[t] = Front(mine[t])
    BY <1>t, <1>q, <2>2 DEF Handling
  <2>5. Has(t)' = Has(t) /\ c \in Has(t)
    BY <2>1, <2>4 DEF Has
  <2>6. /\ sock[c] # "none" /\ sock'[c] # "none" /\ \A d \in Conns \ {c} : sock'[d] = sock[d]
        /\ pc'[t] = "return" => sock'[c] = "clean"
        /\ \A u \in Threads \ {t} : pc'[u] = pc[u]
    BY <1>e, <1>t, <2>1, <2>3, <2>5 DEF RollBack, Goto
  <2>7. c \notin ToSet(idle) /\ \A u \in Threads \ {t} : c \notin Has(u)
    BY <1>e, <2>5
  <2>8. ConnectionsAreExclusive'
    BY <1>e, <1>o, <1>p, <2>2, <2>4, <2>5, <2>6, <2>7
  <2>9. \A u \in Threads : pc'[u] = "return" => sock'[cand'[u]] # "dirty"
    <3>1. \A u \in Threads \ {t} : pc[u] = "return" => cand[u] \in Has(u)
      BY <1>q DEF Has, Handling
    <3> QED
      BY <1>e, <1>q, <2>4, <2>6, <2>7, <3>1
  <2>10. \A u \in Threads : IsInjective(mine'[u]) /\ cand'[u] \notin ToSet(mine'[u])
    BY <1>q, <2>1, <2>4
  <2> QED
    BY <1>q, <2>2, <2>8, <2>9, <2>10 DEF Placed
<1>8. CASE GiveBack(t)
  <2> DEFINE c == cand[t]
  <2>1. c \in Conns /\ c # 0 /\ 0 \notin Conns /\ c \notin ToSet(mine[t]) /\ sock[c] # "dirty" /\ c \in Has(t)
    BY <1>8, <1>t, <1>q DEF GiveBack, Handling, Has
  <2>2. mine' = mine /\ sock' = sock
    BY <1>8 DEF GiveBack
  <2>3. CASE idle' = Append(idle, c) /\ cand' = [cand EXCEPT ![t] = 0] /\ Notify(t, "run")
    <3>1. NoReturn /\ pc'[t] # "return"
      BY <1>8, <1>n, <2>3 DEF GiveBack
    <3>2. Others /\ cand'[t] = 0
      BY <1>t, <2>2, <2>3
    <3>3. c \notin ToSet(idle) /\ sock[c] # "none" /\ \A u \in Threads \ {t} : c \notin Has(u)
      BY <1>e, <2>1
    <3>4. ToSet(idle') = ToSet(idle) \cup {c} /\ IsInjective(idle')
      BY <1>t, <1>q, <2>1, <2>3, <3>3, Pushed
    <3>5. Has(t)' = Has(t) \ {c}
      BY <2>1, <2>2, <3>2 DEF Has
    <3>6. ConnectionsAreExclusive'
      BY <1>e, <1>o, <1>p, <2>1, <2>2, <3>2, <3>3, <3>4, <3>5
    <3>7. 0 \notin ToSet(mine[t])
      BY <1>e, <2>1 DEF Has
    <3> QED
      BY <1>q, <2>2, <3>1, <3>2, <3>4, <3>6, <3>7 DEF Placed
  <2>4. CASE UNCHANGED <<idle, cand>> /\ Notify(t, "close")
    BY <1>8, <1>n, <1>kept, <2>2, <2>4 DEF GiveBack
  <2> QED
    BY <1>8, <2>3, <2>4 DEF GiveBack
<1> QED
  BY <1>1, <1>2, <1>3, <1>4, <1>5, <1>6, <1>7, <1>8 DEF Thread, Acquires

(***************************************************************************)
(* Nobody is left waiting for what is free.                                *)
(***************************************************************************)
Coming == {t \in Threads : pc[t] = "woken" \/ (pc[t] = "late" /\ t \notin waiters)}
Waiting == \E t \in Threads : pc[t] = "wait"
Free == Len(idle) + (MaxSize - open)

LEMMA WaitStep ==
    ASSUME TypeOK, Shape, NoStrandedWaiter, TypeOK',
           NEW t \in Threads, Thread(t) \/ DeadlinePasses(t)
    PROVE  NoStrandedWaiter'
<1> USE PoolAssumption
<1>t. /\ pc \in [Threads -> PCs] /\ waiters \subseteq Threads /\ idle \in Seq(Conns)
      /\ Len(idle) \in Nat /\ open \in 0..MaxSize
      /\ Len(idle') \in Nat /\ open' \in 0..MaxSize
  BY LenProperties DEF TypeOK, PCs
<1>s. /\ ~wasted /\ Waiting => Free <= Cardinality(Coming)
      /\ \A u \in Threads : pc[u] = "wait" => u \in waiters
      /\ \A u \in waiters : pc[u] \in {"wait", "late"}
  BY DEF NoStrandedWaiter, Waiting, Free, Coming, Shape
<1>p. NoStrandedWaiter' <=> (~wasted' /\ Waiting' => Free' <= Cardinality(Coming'))
  BY DEF NoStrandedWaiter, Waiting, Free, Coming
<1>c. /\ IsFiniteSet(Coming) /\ Cardinality(Coming) \in Nat
      /\ IsFiniteSet(Coming') /\ Cardinality(Coming') \in Nat
  <2>1. Coming \subseteq Threads /\ Coming' \subseteq Threads
    BY DEF Coming
  <2> QED
    BY <2>1, FS_Subset, FS_CardinalityType
<1>f. Free \in Nat /\ Free' \in Nat
  BY <1>t DEF Free
<1> DEFINE StillWaits == ~wasted' /\ Waiting' => ~wasted /\ Waiting
<1>kept. ASSUME StillWaits, Free' = Free, Coming' = Coming PROVE NoStrandedWaiter'
  BY <1>kept, <1>s, <1>p
<1>none. ASSUME Free' = 0 PROVE NoStrandedWaiter'
  BY <1>none, <1>c, <1>p
<1>full. Full => Free = 0
  BY <1>t, EmptySeq DEF Full, Free
<1>n. ASSUME NEW label \in {"run", "close"}, Notify(t, label), pc[t] \in {"dial", "return", "drop"},
             UNCHANGED wasted, Free' = Free + 1
      PROVE  NoStrandedWaiter'
  <2>0. t \notin waiters
    BY <1>n, <1>s
  <2>1. CASE waiters = {} /\ Goto(t, label)
    <3>1. ~Waiting'
      BY <1>n, <1>t, <1>s, <2>1 DEF Waiting, Goto
    <3> QED
      BY <1>p, <3>1
  <2>2. ASSUME NEW w \in waiters,
               waiters' = waiters \ {w},
               pc' = [pc EXCEPT ![t] = label, ![w] = IF @ = "wait" THEN "woken" ELSE @]
        PROVE  NoStrandedWaiter'
    <3>1. w # t /\ w \in Threads /\ pc[w] \in {"wait", "late"}
      BY <1>t, <1>s, <2>0
    <3>2. /\ pc'[t] = label
          /\ pc'[w] = IF pc[w] = "wait" THEN "woken" ELSE "late"
          /\ \A u \in Threads \ {t, w} : pc'[u] = pc[u]
      BY <1>t, <2>2, <3>1
    <3>3. Coming' = Coming \cup {w} /\ w \notin Coming
      BY <1>n, <2>2, <3>1, <3>2 DEF Coming
    <3>4. Cardinality(Coming') = Cardinality(Coming) + 1
      BY <1>c, <3>3, OneMore
    <3>5. StillWaits
      BY <1>n, <3>1, <3>2 DEF Waiting
    <3> QED
      BY <1>n, <1>s, <1>p, <1>c, <1>f, <3>4, <3>5
  <2> QED
    BY <1>n, <2>1, <2>2 DEF Notify
<1>1. CASE Ask(t) \/ DeadlinePasses(t) \/ WaitTimesOut(t) \/ HandOut(t) \/ Recycle(t) \/ Dial(t) \/ Close(t)
  <2>1. UNCHANGED <<poolVars, waiters, wasted>>
    BY <1>1 DEF Ask, DeadlinePasses, WaitTimesOut, HandOut, Recycle, Dial, Close
  <2>2. \A u \in Threads : /\ pc'[u] = "wait" => pc[u] = "wait"
                           /\ pc'[u] = "woken" <=> pc[u] = "woken"
                           /\ u \notin waiters => (pc'[u] = "late" <=> pc[u] = "late")
    BY <1>1, <1>t, <1>s DEF Ask, DeadlinePasses, WaitTimesOut, HandOut, Recycle, Dial, Close, Goto
  <2> QED
    BY <1>kept, <2>1, <2>2 DEF poolVars, Coming, Waiting, Free
<1>2. CASE Leave(t)
  <2>1. UNCHANGED <<poolVars, waiters, wasted>> /\ pc[t] = "run" /\ (Goto(t, "return") \/ Goto(t, "drop"))
    BY <1>2 DEF Leave
  <2>2. \A u \in Threads : /\ pc'[u] = "wait" => pc[u] = "wait"
                           /\ pc'[u] = "woken" <=> pc[u] = "woken"
                           /\ pc'[u] = "late" <=> pc[u] = "late"
    BY <1>t, <2>1 DEF Goto
  <2> QED
    BY <1>kept, <2>1, <2>2 DEF poolVars, Coming, Waiting, Free
<1>3. CASE TakeIdle(t) \/ Grow(t)
  <2>1. Free = Free' + 1
    <3>1. CASE TakeIdle(t)
      <4>1. Len(idle') = Len(idle) - 1 /\ open' = open
        BY <1>t, <3>1, Popped DEF TakeIdle
      <4> QED
        BY <1>t, <4>1 DEF Free
    <3>2. CASE Grow(t)
      BY <1>t, <3>2 DEF Grow, Free
    <3> QED
      BY <1>3, <3>1, <3>2
  <2>2. /\ UNCHANGED <<waiters, wasted>> /\ Looks(t) /\ pc'[t] \in {"check", "dial"}
        /\ \A u \in Threads \ {t} : pc'[u] = pc[u]
    BY <1>3, <1>t DEF TakeIdle, Grow, Goto
  <2>3. StillWaits
    BY <2>2 DEF Waiting
  <2>4. Cardinality(Coming) <= Cardinality(Coming') + 1
    <3>1. CASE t \in Coming
      <4>1. Coming = Coming' \cup {t} /\ t \notin Coming'
        BY <2>2, <3>1 DEF Coming
      <4> QED
        BY <1>c, <4>1, OneMore
    <3>2. CASE t \notin Coming
      <4>1. Coming = Coming'
        BY <2>2, <3>2 DEF Coming
      <4> QED
        BY <1>c, <4>1
    <3> QED
      BY <3>1, <3>2
  <2> QED
    BY <1>s, <1>p, <1>c, <1>f, <2>1, <2>3, <2>4
<1>4. CASE Wait(t)
  <2>1. Free' = Free
    BY <1>4 DEF Wait, poolVars, Free
  <2> QED
    BY <1>4, <1>full, <1>none, <2>1 DEF Wait
<1>5. CASE Refuse(t)
  <2>1. Free' = Free
    BY <1>5 DEF Refuse, poolVars, Free
  <2>2. CASE Full
    BY <1>full, <1>none, <2>1, <2>2
  <2>3. CASE pc[t] = "late" /\ t \in waiters
    <3>1. pc'[t] = "run" /\ \A u \in Threads \ {t} : pc'[u] = pc[u]
      BY <1>5, <1>t DEF Refuse, Goto
    <3>2. waiters' = waiters \ {t} /\ (~wasted' => ~wasted)
      BY <1>5 DEF Refuse
    <3>3. Coming' = Coming
      BY <2>3, <3>1, <3>2 DEF Coming
    <3>4. StillWaits
      BY <3>1, <3>2 DEF Waiting
    <3> QED
      BY <1>kept, <2>1, <3>3, <3>4
  <2>4. CASE pc[t] = "late" /\ t \notin waiters
    BY <1>5, <1>p, <2>4 DEF Refuse
  <2> QED
    BY <1>5, <2>2, <2>3, <2>4 DEF Refuse
<1>6. CASE DialFails(t)
  <2>1. Free' = Free + 1
    BY <1>6, <1>t DEF DialFails, Free
  <2> QED
    BY <1>6, <1>n, <2>1 DEF DialFails
<1>7. CASE Drop(t)
  <2>1. Free' = Free + 1
    BY <1>7, <1>t DEF Drop, Free
  <2> QED
    BY <1>7, <1>n, <2>1 DEF Drop
<1>8. CASE GiveBack(t)
  <2>1. CASE idle' = Append(idle, cand[t]) /\ open' = open /\ Notify(t, "run")
    <3>1. cand[t] \in Conns
      BY <1>8 DEF GiveBack, Shape, Handling, TypeOK, Conns
    <3>2. Len(idle') = Len(idle) + 1
      BY <1>t, <2>1, <3>1, Pushed
    <3>3. Free' = Free + 1
      BY <1>t, <2>1, <3>2 DEF Free
    <3> QED
      BY <1>8, <1>n, <2>1, <3>3 DEF GiveBack
  <2>2. CASE idle' = idle /\ open' = open - 1 /\ Notify(t, "close")
    <3>1. Free' = Free + 1
      BY <1>t, <2>2 DEF Free
    <3> QED
      BY <1>8, <1>n, <2>2, <3>1 DEF GiveBack
  <2> QED
    BY <1>8, <2>1, <2>2 DEF GiveBack
<1> QED
  BY <1>1, <1>2, <1>3, <1>4, <1>5, <1>6, <1>7, <1>8 DEF Thread, Acquires

(***************************************************************************)
(* The invariant holds.                                                    *)
(***************************************************************************)
LEMMA InitInv == Init => PoolInv
<1> SUFFICES ASSUME Init PROVE PoolInv
  OBVIOUS
<1> USE PoolAssumption
<1>1. /\ pc = [t \in Threads |-> "run"] /\ waiters = {} /\ idle = <<>> /\ open = 0 /\ leased = 0
      /\ mine = [t \in Threads |-> <<>>] /\ cand = [t \in Threads |-> 0]
      /\ sock = [c \in Conns |-> "none"]
  BY DEF Init
<1>2. <<>> \in Seq(Conns) /\ Len(<<>>) = 0 /\ ToSet(<<>>) = {} /\ IsInjective(<<>>)
  <2>1. <<>> \in Seq(Conns) /\ Len(<<>>) = 0
    BY EmptySeq
  <2>2. DOMAIN <<>> = {}
    BY <2>1, LenProperties
  <2> QED
    BY <2>1, <2>2 DEF ToSet, IsInjective
<1>3. TypeOK
  <2>1. /\ idle \in Seq(Conns) /\ Len(idle) <= MaxIdle
        /\ open \in 0..MaxSize /\ leased \in 0..MaxSize
    BY <1>1, <1>2
  <2>2. mine \in [Threads -> Seq(Conns)] /\ \A t \in Threads : Len(mine[t]) <= Depth[t]
    BY <1>1, <1>2
  <2>3. cand \in [Threads -> 0..MaxConn]
    BY <1>1
  <2> QED
    BY <1>1, <2>1, <2>2, <2>3 DEF Init, TypeOK
<1>4. Shape
  BY <1>1, <1>2 DEF Shape, Handling, Asking
<1>5. Counted
  <2>1. \A t \in Threads : Taken[t] = 0
    BY <1>1, <1>2 DEF Taken, Leasing
  <2>2. Slots = {}
    BY <2>1 DEF Slots
  <2> QED
    BY <1>1, <1>2, <2>2, FS_EmptySet DEF Counted, SlotsAreExact
<1>6. Placed
  <2>1. \A t \in Threads : Has(t) = {}
    BY <1>1, <1>2 DEF Has
  <2>2. ConnectionsAreExclusive
    BY <1>1, <1>2, <2>1 DEF ConnectionsAreExclusive
  <2> QED
    BY <1>1, <1>2, <2>2 DEF Placed, Conns
<1>7. NoStrandedWaiter
  BY <1>1 DEF NoStrandedWaiter
<1> QED
  BY <1>3, <1>4, <1>5, <1>6, <1>7 DEF PoolInv

LEMMA StepInv == PoolInv /\ [Next]_vars => PoolInv'
<1> SUFFICES ASSUME PoolInv, [Next]_vars PROVE PoolInv'
  OBVIOUS
<1>1. CASE UNCHANGED vars
  BY <1>1 DEF PoolInv, TypeOK, Shape, Asking, Counted, SlotsAreExact, Slots, Taken, Leasing,
              Placed, ConnectionsAreExclusive, Has, NoStrandedWaiter, vars, poolVars
<1>2. ASSUME NEW t \in Threads, Thread(t) \/ DeadlinePasses(t) PROVE PoolInv'
  BY <1>2, TypeStep, CountStep, PlaceStep, WaitStep DEF PoolInv
<1> QED
  BY <1>1, <1>2 DEF Next

\* The inductive invariant of get_connection and its release, from which the
\* theorems below follow.
THEOREM PoolInvariant == Spec => []PoolInv
  BY InitInv, StepInv, PTL DEF Spec

\* The state of the pool has the types that TypeOK names: the idle set never
\* outgrows MaxIdle, and the counters stay between 0 and MaxSize.
THEOREM TypeCorrect == Spec => []TypeOK
<1>1. PoolInv => TypeOK
  BY DEF PoolInv
<1> QED
  BY <1>1, PoolInvariant, PTL

\* get_connection takes a slot for everything its thread has or is after, and
\* gives it back once, however the lease and its release went wrong.
THEOREM SlotsExact == Spec => []SlotsAreExact
<1>1. PoolInv => SlotsAreExact
  BY DEF PoolInv, Counted
<1> QED
  BY <1>1, PoolInvariant, PTL

\* No two borrowers share a connection, none is lost from the pool, and what
\* lies idle has been rolled back.
THEOREM ConnectionsExclusive == Spec => []ConnectionsAreExclusive
<1>1. PoolInv => ConnectionsAreExclusive
  BY DEF PoolInv, Placed
<1> QED
  BY <1>1, PoolInvariant, PTL

\* While no notify has been lost on a thread that gave up, nobody waits for a
\* slot or a connection that no woken thread is on its way to take.
THEOREM NobodyStranded == Spec => []NoStrandedWaiter
<1>1. PoolInv => NoStrandedWaiter
  BY DEF PoolInv
<1> QED
  BY <1>1, PoolInvariant, PTL

(***************************************************************************)
(* The pool lends connections as Leases says.                              *)
(***************************************************************************)
\* Counting what is lent: each connection that a thread holds has a slot, and a
\* thread about to hold one more has a slot that none of them has.
LEMMA SlotForOneMore ==
    ASSUME TypeOK, Counted, NEW t \in Threads, Leasing(t)
    PROVE  Cardinality(Lending!Lent) < MaxSize
<1> DEFINE Depths == [u \in Threads |-> Len(mine[u])]
           Held == SlotsOf(Depths)
           Ours == <<t, Taken[t]>>
           Thing == [s \in Held |-> mine[s[1]][s[2]]]
<1>1. /\ Depths \in [Threads -> Nat] /\ Taken \in [Threads -> Nat]
      /\ \A u \in Threads : Depths[u] <= Taken[u]
      /\ Taken[t] = Depths[t] + 1
  <2>1. \A u \in Threads : Len(mine[u]) \in Nat
    BY LenProperties DEF TypeOK
  <2>2. Taken \in [Threads -> Nat]
    BY TakenType
  <2>3. ASSUME NEW u \in Threads PROVE Taken[u] = Len(mine[u]) \/ Taken[u] = Len(mine[u]) + 1
    <3>1. Taken[u] = Len(mine[u]) + (IF Leasing(u) THEN 1 ELSE 0)
      BY DEF Taken
    <3>2. \A n \in Nat : n + 0 = n
      OBVIOUS
    <3> QED
      BY <2>1, <3>1, <3>2
  <2>4. Taken[t] = Len(mine[t]) + 1
    BY DEF Taken
  <2> QED
    BY <2>1, <2>2, <2>3, <2>4
<1>2. /\ IsFiniteSet(Slots) /\ Slots = SlotsOf(Taken)
      /\ Cardinality(Slots) = leased /\ leased \in 0..MaxSize /\ MaxSize \in Nat
  BY SlotsIsSlotsOf, PoolAssumption DEF Counted, SlotsAreExact, TypeOK
<1>3. /\ \A s \in Held : \E u \in Threads : \E i \in 1..Len(mine[u]) : s = <<u, i>>
      /\ \A u \in Threads : \A i \in 1..Len(mine[u]) : <<u, i>> \in Held
  <2> HIDE DEF Depths
  <2>1. \A x : x \in Held <=> \E u \in Threads : \E i \in 1..Depths[u] : x = <<u, i>>
    BY <1>1, SlotMember
  <2> QED
    BY <2>1 DEF Depths
<1>4. Held \subseteq Slots \ {Ours}
  <2> SUFFICES ASSUME NEW s \in Held PROVE s \in Slots /\ s # Ours
    OBVIOUS
  <2>1. PICK u \in Threads : \E i \in 1..Depths[u] : s = <<u, i>>
    BY <1>3
  <2>2. PICK i \in 1..Depths[u] : s = <<u, i>>
    BY <2>1
  <2> HIDE DEF Depths
  <2>3. i \in 1..Taken[u] /\ (u = t => i # Taken[t])
    BY <1>1, <2>2
  <2>4. s \in SlotsOf(Taken)
    BY <1>1, <2>2, <2>3, SlotMember
  <2> QED
    BY <1>2, <2>2, <2>3, <2>4
<1>5. Ours \in Slots
  <2>1. Taken[t] \in 1..Taken[t]
    BY <1>1
  <2> QED
    BY <1>1, <1>2, <2>1, SlotMember
<1> HIDE DEF Held, Ours
<1>6. IsFiniteSet(Held) /\ Cardinality(Held) < MaxSize
  <2>1. IsFiniteSet(Slots \ {Ours}) /\ Cardinality(Slots \ {Ours}) = leased - 1
    BY <1>2, <1>5, FS_RemoveElement
  <2>2. IsFiniteSet(Held) /\ Cardinality(Held) <= Cardinality(Slots \ {Ours})
    BY <1>4, <2>1, FS_Subset
  <2>3. Cardinality(Held) \in Nat
    BY <2>2, FS_CardinalityType
  <2> QED
    BY <1>2, <2>1, <2>2, <2>3
<1>7. Thing \in Surjection(Held, Lending!Lent)
  <2>1. ASSUME NEW u \in Threads PROVE ToSet(mine[u]) = {mine[u][i] : i \in 1..Len(mine[u])}
    <3>1. mine[u] \in Seq(Conns)
      BY DEF TypeOK
    <3>2. DOMAIN mine[u] = 1..Len(mine[u])
      BY <3>1, LenProperties
    <3> QED
      BY <3>2 DEF ToSet
  <2>2. ASSUME NEW s \in Held PROVE Thing[s] \in Lending!Lent
    <3>1. PICK u \in Threads : \E i \in 1..Len(mine[u]) : s = <<u, i>>
      BY <1>3
    <3>2. PICK i \in 1..Len(mine[u]) : s = <<u, i>>
      BY <3>1
    <3>3. Thing[s] = mine[u][i]
      BY <3>2
    <3> QED
      BY <2>1, <3>2, <3>3 DEF Lending!Lent, Lending!ToSet, ToSet
  <2>3. ASSUME NEW c \in Lending!Lent PROVE \E s \in Held : Thing[s] = c
    <3>1. PICK u \in Threads : c \in ToSet(mine[u])
      BY DEF Lending!Lent, Lending!ToSet, ToSet
    <3>2. PICK i \in 1..Len(mine[u]) : c = mine[u][i]
      BY <2>1, <3>1
    <3>3. <<u, i>> \in Held /\ Thing[<<u, i>>] = c
      BY <1>3, <3>2
    <3> QED
      BY <3>3
  <2>4. Thing \in [Held -> Lending!Lent]
    BY <2>2
  <2> HIDE DEF Thing
  <2> QED
    BY <2>3, <2>4 DEF Surjection
<1> HIDE DEF Thing
<1>8. IsFiniteSet(Lending!Lent) /\ Cardinality(Lending!Lent) <= Cardinality(Held)
  BY <1>6, <1>7, FS_Surjection
<1>9. Cardinality(Held) \in Nat /\ Cardinality(Lending!Lent) \in Nat
  BY <1>6, <1>8, FS_CardinalityType
<1> QED
  BY <1>2, <1>6, <1>8, <1>9

LEMMA LendingStep ==
    ASSUME PoolInv, [Next]_vars
    PROVE  [Lending!Next]_mine
<1>t. TypeOK /\ Shape /\ Counted /\ Placed
  BY DEF PoolInv
<1>m. mine \in [Threads -> Seq(Conns)] /\ cand \in [Threads -> 0..MaxConn] /\ Conns = 1..MaxConn
  BY <1>t DEF TypeOK, Conns
<1>e. /\ \A u \in Threads : \A c \in Has(u) : sock[c] # "none"
      /\ \A u, v \in Threads : \A c \in Has(u) : u # v => c \notin Has(v)
      /\ \A u \in Threads : cand[u] \notin ToSet(mine[u])
      /\ \A u \in Threads : ToSet(mine[u]) \subseteq Has(u)
  BY <1>t, Exclusive DEF Placed, Has
\* A thread that gets a connection nobody holds, on the slot that it took for it.
<1>lend. ASSUME NEW t \in Threads, pc[t] \in {"check", "dial"}, NEW c \in Conns,
                \A u \in Threads : c \notin ToSet(mine[u]),
                mine' = [mine EXCEPT ![t] = Append(@, c)]
         PROVE  Lending!Next
  <2>1. Cardinality(Lending!Lent) < MaxSize
    BY <1>t, <1>lend, SlotForOneMore DEF Leasing
  <2>2. c \notin Lending!Lent
    BY <1>lend DEF Lending!Lent, Lending!ToSet, ToSet
  <2>3. Lending!Cardinality(Lending!Lent) = Cardinality(Lending!Lent)
    BY DEF Cardinality, Lending!Cardinality
  <2>4. Lending!Lend(t, c)
    BY <1>lend, <2>1, <2>2, <2>3 DEF Lending!Lend
  <2> QED
    BY <2>4 DEF Lending!Next
<1>1. ASSUME NEW t \in Threads, HandOut(t) PROVE Lending!Next
  <2>1. cand[t] \in Conns /\ cand[t] \in Has(t) /\ pc[t] = "check"
    BY <1>1, <1>t, <1>m DEF HandOut, Shape, Handling, Has
  <2>2. \A u \in Threads : cand[t] \notin ToSet(mine[u])
    BY <1>e, <2>1
  <2> QED
    BY <1>1, <2>1, <2>2, <1>lend DEF HandOut
<1>2. ASSUME NEW t \in Threads, Dial(t) PROVE Lending!Next
  <2>1. PICK c \in Conns : IsNew(c) /\ mine' = [mine EXCEPT ![t] = Append(@, c)]
    BY <1>2 DEF Dial
  <2>2. \A u \in Threads : c \notin ToSet(mine[u])
    BY <1>e, <2>1 DEF IsNew
  <2> QED
    BY <1>2, <2>1, <2>2, <1>lend DEF Dial
<1>3. ASSUME NEW t \in Threads, Leave(t) PROVE Lending!Next
  BY <1>3 DEF Leave, Lending!Next, Lending!TakeBack, Lending!Front, Front
<1>4. ASSUME NEW t \in Threads, Thread(t) \/ DeadlinePasses(t), ~HandOut(t), ~Dial(t), ~Leave(t)
      PROVE  UNCHANGED mine
  BY <1>4 DEF Thread, Acquires, Ask, TakeIdle, Grow, Wait, WaitTimesOut, Refuse, Recycle,
              DialFails, GiveBack, Drop, Close, DeadlinePasses
<1>5. CASE UNCHANGED vars
  BY <1>5 DEF vars
<1>6. ASSUME NEW t \in Threads, Thread(t) \/ DeadlinePasses(t) PROVE [Lending!Next]_mine
  BY <1>1, <1>2, <1>3, <1>4, <1>6
<1> QED
  BY <1>5, <1>6 DEF Next

\* Whatever is dialled, pinged, recycled or refused in between, get_connection lends
\* each connection to one borrower at a time, no more than MaxSize at once, and a
\* borrower's contexts end in the reverse of the order in which they began.
THEOREM PoolImplementsLeases == Spec => ImplementsLeases
<1>1. Init => Lending!Init
  BY DEF Init, Lending!Init
<1>2. PoolInv /\ [Next]_vars => [Lending!Next]_mine
  BY LendingStep
<1> QED
  BY <1>1, <1>2, PoolInvariant, PTL DEF Spec, ImplementsLeases, Lending!Spec

-----------------------------------------------------------------------------
(***************************************************************************)
(* The chain of models that a call walks.                                  *)
(***************************************************************************)
\* Chain s with elements of models after it, where Grown[i] has seen i of them.
Grows(grown, s, models, once) ==
    grown = [i \in 0..Len(models) |->
               IF i = 0 THEN s
               ELSE IF models[i] \in ToSet(IF once THEN grown[i - 1] ELSE s) THEN grown[i - 1]
               ELSE Append(grown[i - 1], models[i])]

Prolongs(t, s, models) ==
    /\ t \in Seq(Models) /\ Len(t) >= Len(s)
    /\ \A i \in 1..Len(s) : t[i] = s[i]
    /\ \A i \in (Len(s) + 1)..Len(t) : t[i] \in ToSet(models)

LEMMA LeastOf ==
    ASSUME NEW S, S \subseteq Nat, S # {}
    PROVE  \E m \in S : \A n \in S : m <= n
<1> DEFINE R == OpToRel(<, Nat)
<1>1. IsWellFoundedOn(R, Nat)
  BY NatLessThanWellFounded
<1>2. \A x, y \in Nat : y < x => <<y, x>> \in R
  BY DEF OpToRel
<1> HIDE DEF R
<1>3. PICK m \in S : \A n \in S : <<n, m>> \notin R
  BY <1>1, WFMin
<1>4. ASSUME NEW n \in S PROVE m <= n
  <2>1. m \in Nat /\ n \in Nat /\ ~(n < m)
    BY <1>2, <1>3
  <2> QED
    BY <2>1
<1> QED
  BY <1>4

LEMMA GrownExists ==
    ASSUME NEW s, NEW models \in Seq(Models), NEW once
    PROVE  \E grown : Grows(grown, s, models, once)
<1> DEFINE Upto(g, n) == g = [i \in 0..n |->
               IF i = 0 THEN s
               ELSE IF models[i] \in ToSet(IF once THEN g[i - 1] ELSE s) THEN g[i - 1]
               ELSE Append(g[i - 1], models[i])]
           Bad == {n \in Nat : ~\E g : Upto(g, n)}
<1>1. SUFFICES Bad = {}
  <2>1. Len(models) \in Nat
    BY LenProperties
  <2>2. \E g : Upto(g, Len(models))
    BY <1>1, <2>1
  <2> QED
    BY <2>2 DEF Grows
<1>2. SUFFICES ASSUME Bad # {} PROVE FALSE
  OBVIOUS
<1>3. PICK n \in Bad : \A m \in Bad : n <= m
  BY <1>2, LeastOf
<1>4. CASE n = 0
  <2>1. Upto([i \in 0..0 |-> s], 0)
    OBVIOUS
  <2> QED
    BY <1>3, <1>4, <2>1
<1>5. CASE n # 0
  <2>1. n \in Nat /\ n - 1 \in Nat /\ n - 1 \notin Bad
    <3>1. n \in Nat
      BY <1>3
    <3> HIDE DEF Bad
    <3> QED
      BY <1>3, <1>5, <3>1
  <2>2. PICK g : Upto(g, n - 1)
    <3> HIDE DEF Upto
    <3> QED
      BY <2>1
  <2> DEFINE new == IF models[n] \in ToSet(IF once THEN g[n - 1] ELSE s) THEN g[n - 1]
                    ELSE Append(g[n - 1], models[n])
             h == [i \in 0..n |-> IF i = n THEN new ELSE g[i]]
  <2>3. /\ \A i \in 0..(n - 1) : h[i] = g[i]
        /\ h[n] = new
    BY <2>1
  <2>4. \A i \in 0..n : h[i] = IF i = 0 THEN s
               ELSE IF models[i] \in ToSet(IF once THEN h[i - 1] ELSE s) THEN h[i - 1]
               ELSE Append(h[i - 1], models[i])
    <3> SUFFICES ASSUME NEW i \in 0..n
                 PROVE h[i] = IF i = 0 THEN s
               ELSE IF models[i] \in ToSet(IF once THEN h[i - 1] ELSE s) THEN h[i - 1]
               ELSE Append(h[i - 1], models[i])
      OBVIOUS
    <3>1. CASE i = n
      <4>1. h[n - 1] = g[n - 1] /\ i # 0
        BY <1>5, <2>1, <2>3, <3>1
      <4> HIDE DEF h
      <4> QED
        BY <2>3, <3>1, <4>1
    <3>2. CASE i # n
      <4>1. i \in 0..(n - 1) /\ (i # 0 => i - 1 \in 0..(n - 1))
        BY <2>1, <3>2
      <4>2. h[i] = g[i] /\ (i # 0 => h[i - 1] = g[i - 1])
        BY <2>3, <4>1
      <4>3. g[i] = IF i = 0 THEN s
               ELSE IF models[i] \in ToSet(IF once THEN g[i - 1] ELSE s) THEN g[i - 1]
               ELSE Append(g[i - 1], models[i])
        BY <2>2, <4>1
      <4> HIDE DEF h
      <4> QED
        BY <4>2, <4>3
    <3> QED
      BY <3>1, <3>2
  <2>5. Upto(h, n)
    <3>1. h = [i \in 0..n |-> h[i]]
      OBVIOUS
    <3> HIDE DEF h
    <3> QED
      BY <2>4, <3>1
  <2> QED
    BY <1>3, <2>5
<1> QED
  BY <1>4, <1>5

LEMMA ExtendedProlongs ==
    ASSUME NEW s \in Seq(Models), NEW models \in Seq(Models), NEW once \in BOOLEAN
    PROVE  Prolongs(Extended(s, models, once), s, models)
<1> DEFINE f == CHOOSE grown : Grows(grown, s, models, once)
<1>1. Grows(f, s, models, once)
  BY GrownExists
<1>2. Extended(s, models, once) = f[Len(models)]
  BY DEF Extended, Grows
<1>3. Len(models) \in Nat /\ Len(s) \in Nat
  BY LenProperties
<1> HIDE DEF f
<1> DEFINE Bad == {n \in 0..Len(models) : ~Prolongs(f[n], s, models)}
<1>4. SUFFICES ASSUME Bad # {} PROVE FALSE
  BY <1>2, <1>3
<1>5. PICK n \in Bad : \A m \in Bad : n <= m
  <2>1. Bad \subseteq Nat
    BY <1>3
  <2> HIDE DEF Bad
  <2> QED
    BY <1>4, <2>1, LeastOf
<1>6. n # 0
  <2>1. f[0] = s
    BY <1>1, <1>3 DEF Grows
  <2>2. Prolongs(s, s, models)
    BY <1>3 DEF Prolongs
  <2> QED
    BY <2>1, <2>2
<1>7. n \in 1..Len(models) /\ n - 1 \in 0..Len(models) /\ n - 1 \notin Bad
  BY <1>3, <1>5, <1>6
<1>8. Prolongs(f[n - 1], s, models)
  BY <1>7
<1>9. f[n] = f[n - 1] \/ f[n] = Append(f[n - 1], models[n])
  BY <1>1, <1>3, <1>6, <1>7 DEF Grows
<1>10. models[n] \in Models /\ models[n] \in ToSet(models)
  <2>1. n \in DOMAIN models
    BY <1>7, LenProperties
  <2> QED
    BY <1>7, <2>1, ElementOfSeq DEF ToSet
<1>11. ASSUME NEW t, Prolongs(t, s, models), NEW m, m \in Models /\ m \in ToSet(models)
       PROVE  Prolongs(Append(t, m), s, models)
  <2>1. t \in Seq(Models) /\ Len(t) \in Nat /\ Len(t) >= Len(s)
    BY <1>11, LenProperties DEF Prolongs
  <2>2. /\ Append(t, m) \in Seq(Models) /\ Len(Append(t, m)) = Len(t) + 1
        /\ \A i \in 1..Len(t) : Append(t, m)[i] = t[i]
        /\ Append(t, m)[Len(t) + 1] = m
    BY <1>11, <2>1, AppendProperties
  <2>3. \A i \in 1..Len(s) : Append(t, m)[i] = s[i]
    BY <1>3, <1>11, <2>1, <2>2 DEF Prolongs
  <2>4. \A i \in (Len(s) + 1)..(Len(t) + 1) : i = Len(t) + 1 \/ (i \in 1..Len(t) /\ i \in (Len(s) + 1)..Len(t))
    BY <1>3, <2>1
  <2>5. ASSUME NEW i \in (Len(s) + 1)..(Len(t) + 1) PROVE Append(t, m)[i] \in ToSet(models)
    <3>1. CASE i = Len(t) + 1
      BY <1>11, <2>2, <3>1
    <3>2. CASE i \in 1..Len(t) /\ i \in (Len(s) + 1)..Len(t)
      <4>1. t[i] \in ToSet(models)
        BY <1>11, <3>2 DEF Prolongs
      <4> QED
        BY <2>2, <3>2, <4>1
    <3> QED
      BY <2>4, <3>1, <3>2
  <2>6. Len(Append(t, m)) >= Len(s)
    BY <1>3, <2>1, <2>2
  <2>7. \A i \in (Len(s) + 1)..Len(Append(t, m)) : Append(t, m)[i] \in ToSet(models)
    BY <2>2, <2>5
  <2> QED
    BY <2>2, <2>3, <2>6, <2>7 DEF Prolongs
<1>12. Prolongs(f[n], s, models)
  BY <1>8, <1>9, <1>10, <1>11
<1> QED
  BY <1>5, <1>12

(***************************************************************************)
(* The inductive invariant.                                                *)
(***************************************************************************)
Ended == {"trip", "open"}
Refusal == {"credits", "auth"}

\* What is true of the locals of r's call wherever it is: no chain but an
\* administrator's goes on after the model that the user chose, and only when
\* that one was exhausted.
Sound(r, c, refused) ==
    /\ c.idx <= Len(c.chain) /\ c.chain[1] = Primary[r]
    /\ role[r] = "chosen" => \A i \in 2..Len(c.chain) :
          r \in Admins /\ c.chain[i] \in ToSet(FreeModels) /\ Primary[r] \in c.drained
    /\ c.err \in Refusal => c.errAt \in Models /\ Provider[c.errAt] \in refused

\* The reason that is staged is of this call, and an operator's is exhaustion.
Explained(r, c, why) ==
    /\ c.left # {} => why \in c.left
    /\ role[r] = "operator" => c.left \subseteq c.drained

Fresh(c) == c.idx = 1 => c.left = {}

Walks(r) ==
    /\ Sound(r, call[r], refusals)
    /\ place[r] \notin Ended => Explained(r, call[r], staged[r]) /\ Fresh(call[r])
    /\ place[r] \in Ended => call[r].err \in Refusal
    /\ place[r] = "again" => call[r].idx = 1 /\ staged[r] = Model(r) /\ role[r] # "operator"
    /\ place[r] = "record" => At(r) \in spent

\* Who is told of a spent subscription has one; the breaker that is about to
\* replace a quota row has missed it.
Answers(r) ==
    /\ told[r] \in Providers => told[r] \in spent
    /\ place[r] = "open" /\ block[Refuser(r)] = "quota" => r \in late

RowsAreTrue == \A p \in Providers : /\ block[p] = "quota" => p \in spent
                                    /\ block[p] = "circuit" => p \in refusals

LlmInv == LlmTypeOK /\ (\A r \in Runs : Walks(r) /\ Answers(r)) /\ RowsAreTrue

(***************************************************************************)
(* Where a step takes the run that it is of.                               *)
(***************************************************************************)
Typed(c) == c \in Call /\ c.idx <= Len(c.chain)

\* Of the calls, the step touches only that of r, which it leaves as Walks says;
\* refused are the providers that refused by then.
Arrives(r, refused) ==
    /\ place' \in [Runs -> Walking \cup {"gate", "idle"}]
    /\ call' \in [Runs -> Call] /\ told' \in [Runs -> Outcomes]
    /\ \A s \in Runs \ {r} : place'[s] = place[s] /\ call'[s] = call[s] /\ told'[s] = told[s]
    /\ Sound(r, call'[r], refused)
    /\ place'[r] \notin Ended => Explained(r, call'[r], staged'[r]) /\ Fresh(call'[r])
    /\ place'[r] \in Ended => call'[r].err \in Refusal

\* A turn is over: another attempt, the end of the call, or that of the chain.
TurnsOver(r) == /\ place'[r] \in {"ask", "idle", "trip"}
                /\ told'[r] \in {told[r], "unavailable"}

OthersStaged(r) == /\ staged' \in [Runs -> Models \cup {None}]
                   /\ \A s \in Runs \ {r} : staged'[s] = staged[s]

LEMMA FirstModel ==
    ASSUME NEW r \in Runs
    PROVE  /\ NewCall(r) \in Call
           /\ \A refused : Sound(r, NewCall(r), refused)
           /\ \A why : Explained(r, NewCall(r), why)
           /\ Fresh(NewCall(r)) /\ NewCall(r).err = "none"
<1> DEFINE one == <<Primary[r]>>
           ch == ModelChain(r)
<1>1. Primary[r] \in Models /\ Fallback \in Models /\ OperatorModels \in Seq(Models)
  BY LlmAssumption
<1>2. one \in Seq(Models) /\ Len(one) = 1 /\ one[1] = Primary[r]
  BY <1>1
<1>3. ch \in Seq(Models) /\ Len(ch) \in Nat /\ Len(ch) >= 1 /\ ch[1] = Primary[r] /\ (role[r] = "chosen" => Len(ch) = 1)
  <2>1. CASE role[r] = "chosen"
    BY <1>2, <2>1 DEF ModelChain
  <2>2. CASE role[r] = "operator"
    <3>1. ch = Extended(one, OperatorModels, TRUE)
      BY <2>2 DEF ModelChain
    <3>2. Prolongs(ch, one, OperatorModels)
      BY <1>1, <1>2, <3>1, ExtendedProlongs
    <3> HIDE DEF ch, one
    <3>3. ch \in Seq(Models) /\ Len(ch) >= 1 /\ ch[1] = Primary[r]
      BY <1>2, <3>2 DEF Prolongs
    <3> QED
      BY <2>2, <3>3, LenProperties
  <2>3. CASE role[r] \notin {"chosen", "operator"}
    <3>1. ch = one \/ ch = <<Primary[r], Fallback>>
      BY <2>3 DEF ModelChain
    <3>2. /\ <<Primary[r], Fallback>> \in Seq(Models) /\ Len(<<Primary[r], Fallback>>) = 2
          /\ <<Primary[r], Fallback>>[1] = Primary[r]
      BY <1>1
    <3> HIDE DEF ch, one
    <3>3. ch \in Seq(Models) /\ Len(ch) \in {1, 2} /\ ch[1] = Primary[r]
      BY <1>2, <3>1, <3>2
    <3> QED
      BY <2>3, <3>3
  <2> QED
    BY <2>1, <2>2, <2>3
<1> HIDE DEF ch, one
<1>4. /\ NewCall(r).chain = ch /\ NewCall(r).idx = 1 /\ NewCall(r).left = {}
      /\ NewCall(r).err = "none"
  BY DEF NewCall, ch
<1>5. NewCall(r) \in Call
  BY <1>3 DEF NewCall, Call, ch
<1>6. ASSUME role[r] = "chosen", NEW i \in 2..Len(ch) PROVE FALSE
  <2>1. Len(ch) = 1
    BY <1>3, <1>6
  <2> QED
    BY <1>6, <2>1
<1> QED
  BY <1>3, <1>4, <1>5, <1>6 DEF Sound, Explained, Fresh, Refusal

LEMMA GoOnArrives ==
    ASSUME LlmTypeOK, NEW r \in Runs, NEW label \in Walking, NEW c \in Call, NEW refused,
           GoOn(r, label, c), Sound(r, c, refused),
           label \notin Ended => Explained(r, c, staged'[r]) /\ Fresh(c),
           label \in Ended => c.err \in Refusal
    PROVE  Arrives(r, refused) /\ place'[r] = label /\ call'[r] = c /\ told' = told
<1>1. /\ place' = [place EXCEPT ![r] = label] /\ call' = [call EXCEPT ![r] = c] /\ told' = told
      /\ place \in [Runs -> Walking \cup {"gate", "idle"}]
      /\ call \in [Runs -> Call] /\ told \in [Runs -> Outcomes]
  BY DEF GoOn, MoveTo, LlmTypeOK
<1>2. /\ place' \in [Runs -> Walking \cup {"gate", "idle"}] /\ call' \in [Runs -> Call]
      /\ place'[r] = label /\ call'[r] = c
      /\ \A s \in Runs \ {r} : place'[s] = place[s] /\ call'[s] = call[s]
  BY <1>1
<1> QED
  BY <1>1, <1>2 DEF Arrives

LEMMA TellArrives ==
    ASSUME LlmTypeOK, NEW r \in Runs, NEW what \in Outcomes, NEW refused, Tell(r, what)
    PROVE  Arrives(r, refused) /\ place'[r] = "idle" /\ told'[r] = what
<1>1. /\ place' = [place EXCEPT ![r] = "idle"] /\ call' = [call EXCEPT ![r] = NewCall(r)]
      /\ told' = [told EXCEPT ![r] = what]
      /\ place \in [Runs -> Walking \cup {"gate", "idle"}]
      /\ call \in [Runs -> Call] /\ told \in [Runs -> Outcomes]
  BY DEF Tell, MoveTo, LlmTypeOK
<1>2. NewCall(r) \in Call
  BY FirstModel
<1>3. /\ place' \in [Runs -> Walking \cup {"gate", "idle"}] /\ call' \in [Runs -> Call]
      /\ told' \in [Runs -> Outcomes]
      /\ place'[r] = "idle" /\ call'[r] = NewCall(r) /\ told'[r] = what
      /\ \A s \in Runs \ {r} : place'[s] = place[s] /\ call'[s] = call[s] /\ told'[s] = told[s]
  BY <1>1, <1>2
<1> QED
  BY <1>3, FirstModel DEF Arrives, Ended

LEMMA ExhaustArrives ==
    ASSUME LlmTypeOK, NEW r \in Runs, NEW c \in Call, NEW refused,
           Exhaust(r, c), Sound(r, c, refused)
    PROVE  Arrives(r, refused) /\ TurnsOver(r)
<1>1. CASE c.err \in Refusal
  <2>1. GoOn(r, "trip", c) /\ "trip" \in Walking /\ "trip" \in Ended
    BY <1>1 DEF Exhaust, Refusal, Walking, Ended
  <2> QED
    BY <1>1, <2>1, GoOnArrives DEF TurnsOver
<1>2. CASE c.err \notin Refusal
  <2>1. Tell(r, "unavailable") /\ "unavailable" \in Outcomes
    BY <1>2 DEF Exhaust, Refusal, Outcomes
  <2> QED
    BY <2>1, TellArrives DEF TurnsOver
<1> QED
  BY <1>1, <1>2

LEMMA AdvanceArrives ==
    ASSUME LlmTypeOK, NEW r \in Runs, NEW c \in Call, NEW refused,
           Advance(r, c), Sound(r, c, refused), Explained(r, c, staged'[r])
    PROVE  Arrives(r, refused) /\ TurnsOver(r)
<1>1. CASE c.idx < Len(c.chain)
  <2> DEFINE d == [c EXCEPT !.idx = @ + 1, !.draft = 1]
  <2>1. GoOn(r, "ask", d) /\ "ask" \in Walking /\ "ask" \notin Ended
    BY <1>1 DEF Advance, Walking, Ended
  <2>2. /\ d.idx = c.idx + 1 /\ d.chain = c.chain /\ d.err = c.err /\ d.errAt = c.errAt
        /\ d.left = c.left /\ d.drained = c.drained
    BY DEF Call
  <2>3. c.idx \in Nat \ {0} /\ c.chain \in Seq(Models) /\ Len(c.chain) \in Nat
    BY LenProperties DEF Call
  <2>4. d \in Call
    <3>1. c.idx + 1 \in Nat \ {0} /\ 1 \in {1, 2}
      BY <2>3
    <3> QED
      BY <3>1 DEF Call
  <2> HIDE DEF d
  <2>5. d.idx <= Len(d.chain) /\ d.idx # 1
    BY <1>1, <2>2, <2>3
  <2>6. Sound(r, d, refused) /\ Explained(r, d, staged'[r]) /\ Fresh(d)
    BY <2>2, <2>5 DEF Sound, Explained, Fresh
  <2> QED
    BY <2>1, <2>4, <2>6, GoOnArrives DEF TurnsOver
<1>2. CASE ~(c.idx < Len(c.chain))
  BY <1>2, ExhaustArrives DEF Advance
<1> QED
  BY <1>1, <1>2

\* The locals after an error: they are those of the call, with the model that is
\* given up among them.
LEMMA FailedIs ==
    ASSUME LlmTypeOK, NEW r \in Runs, Walks(r), place[r] \notin Ended,
           NEW kind \in {"transient", "credits", "auth"}, NEW refused,
           refusals \subseteq refused, kind \in Refusal => At(r) \in refused
    PROVE  /\ Model(r) \in Models /\ Failed(r, kind) \in Call
           /\ Sound(r, Failed(r, kind), refused)
           /\ Failed(r, kind).idx = call[r].idx /\ Failed(r, kind).chain = call[r].chain
           /\ Failed(r, kind).err = kind
           /\ Failed(r, kind).left = call[r].left \cup {Model(r)}
           /\ Failed(r, kind).drained = IF kind = "credits" THEN call[r].drained \cup {Model(r)}
                                        ELSE call[r].drained
<1> DEFINE d == Failed(r, kind)
<1>1. /\ call[r] \in Call /\ call[r].idx \in Nat \ {0} /\ call[r].chain \in Seq(Models)
      /\ call[r].idx <= Len(call[r].chain) /\ Len(call[r].chain) \in Nat
  BY LenProperties DEF LlmTypeOK, Call
<1>2. Model(r) \in Models
  <2>1. call[r].idx \in 1..Len(call[r].chain)
    BY <1>1
  <2> QED
    BY <1>1, <2>1, ElementOfSeq DEF Model
<1>3. /\ d.idx = call[r].idx /\ d.chain = call[r].chain /\ d.err = kind /\ d.errAt = Model(r)
      /\ d.left = call[r].left \cup {Model(r)}
      /\ d.drained = IF kind = "credits" THEN call[r].drained \cup {Model(r)} ELSE call[r].drained
  BY <1>1 DEF Failed, Call
<1>4. d \in Call
  BY <1>1, <1>2 DEF Failed, Call
<1> HIDE DEF d
<1>5. Sound(r, d, refused)
  BY <1>2, <1>3 DEF Walks, Sound, At
<1> QED
  BY <1>2, <1>3, <1>4, <1>5 DEF d

LEMMA StageIs ==
    ASSUME LlmTypeOK, NEW r \in Runs, Model(r) \in Models, Stage(r)
    PROVE  OthersStaged(r) /\ staged'[r] = Model(r)
BY DEF LlmTypeOK, Stage, OthersStaged

LEMMA UnstagedIs ==
    ASSUME LlmTypeOK, NEW r \in Runs, UNCHANGED staged
    PROVE  OthersStaged(r) /\ staged'[r] = staged[r]
BY DEF LlmTypeOK, OthersStaged

\* An administrator's chain goes on with free models only, and only once the
\* model that was chosen is exhausted.
LEMMA RescuedIs ==
    ASSUME LlmTypeOK, NEW r \in Runs, Walks(r), place[r] \notin Ended, NEW refused,
           refusals \subseteq refused, At(r) \in refused,
           NEW c, c = [Failed(r, "credits") EXCEPT !.chain = Rescued(r, @)]
    PROVE  /\ c \in Call /\ Sound(r, c, refused)
           /\ c.left = call[r].left \cup {Model(r)}
           /\ c.drained = call[r].drained \cup {Model(r)}
<1> DEFINE d == Failed(r, "credits")
           old == call[r].chain
           new == Rescued(r, old)
<1>1. /\ Model(r) \in Models /\ d \in Call /\ Sound(r, d, refused)
      /\ d.chain = old /\ d.idx = call[r].idx /\ d.err = "credits"
      /\ d.left = call[r].left \cup {Model(r)} /\ d.drained = call[r].drained \cup {Model(r)}
  BY FailedIs DEF Refusal
<1>2. /\ old \in Seq(Models) /\ Len(old) \in Nat /\ call[r].idx \in Nat \ {0}
      /\ call[r].idx <= Len(old) /\ old[1] = Primary[r]
  BY LenProperties DEF LlmTypeOK, Call, Walks, Sound
<1>3. /\ new \in Seq(Models) /\ Len(new) \in Nat /\ Len(new) >= Len(old)
      /\ \A i \in 1..Len(old) : new[i] = old[i]
      /\ \A i \in (Len(old) + 1)..Len(new) : r \in Admins /\ new[i] \in ToSet(FreeModels)
  <2>1. CASE r \in Admins
    <3>1. Prolongs(new, old, FreeModels)
      BY <1>2, <2>1, LlmAssumption, ExtendedProlongs DEF Rescued
    <3> HIDE DEF new
    <3> QED
      BY <2>1, <3>1, LenProperties DEF Prolongs
  <2>2. CASE r \notin Admins
    <3>1. new = old
      BY <2>2 DEF Rescued
    <3>2. \A i \in (Len(old) + 1)..Len(old) : FALSE
      BY <1>2
    <3> QED
      BY <1>2, <3>1, <3>2
  <2> QED
    BY <2>1, <2>2
<1>4. c = [d EXCEPT !.chain = new]
  BY <1>1
<1> HIDE DEF d, new
<1>5. /\ c \in Call /\ c.chain = new /\ c.idx = d.idx /\ c.err = d.err /\ c.errAt = d.errAt
      /\ c.left = d.left /\ c.drained = d.drained
  BY <1>1, <1>3, <1>4 DEF Call
<1>6. ASSUME role[r] = "chosen", NEW i \in 2..Len(new)
      PROVE  r \in Admins /\ new[i] \in ToSet(FreeModels) /\ Primary[r] \in d.drained
  <2>1. CASE i <= Len(old)
    <3>1. i \in 2..Len(old) /\ i \in 1..Len(old)
      BY <1>2, <1>3, <1>6, <2>1
    <3> QED
      BY <1>1, <1>3, <1>6, <3>1 DEF Sound
  <2>2. CASE ~(i <= Len(old))
    <3>1. i \in (Len(old) + 1)..Len(new)
      BY <1>2, <1>3, <1>6, <2>2
    <3>2. Primary[r] \in d.drained
      <4>1. CASE Len(old) >= 2
        <5>1. 2 \in 2..Len(old)
          BY <1>2, <4>1
        <5> QED
          BY <1>1, <1>6, <5>1 DEF Sound
      <4>2. CASE ~(Len(old) >= 2)
        <5>1. call[r].idx = 1
          BY <1>2, <4>2
        <5> QED
          BY <1>1, <1>2, <5>1 DEF Model
      <4> QED
        BY <4>1, <4>2
    <3> QED
      BY <1>3, <3>1, <3>2
  <2> QED
    BY <2>1, <2>2
<1>7. c.idx <= Len(c.chain) /\ c.chain[1] = Primary[r]
  <2>1. 1 \in 1..Len(old)
    BY <1>2
  <2>2. new[1] = old[1]
    BY <1>3, <2>1
  <2> QED
    BY <1>1, <1>2, <1>3, <1>5, <2>2
<1>8. Sound(r, c, refused)
  <2>1. c.err \in Refusal => c.errAt \in Models /\ Provider[c.errAt] \in refused
    BY <1>1, <1>5 DEF Sound
  <2>2. role[r] = "chosen" => \A i \in 2..Len(c.chain) :
          r \in Admins /\ c.chain[i] \in ToSet(FreeModels) /\ Primary[r] \in c.drained
    BY <1>5, <1>6
  <2> QED
    BY <1>7, <2>1, <2>2 DEF Sound
<1> QED
  BY <1>1, <1>5, <1>8

LEMMA GiveUpArrives ==
    ASSUME LlmTypeOK, NEW r \in Runs, Walks(r), place[r] \notin Ended,
           NEW kind \in {"transient", "credits", "auth"}, NEW refused,
           refusals \subseteq refused, kind \in Refusal => At(r) \in refused,
           GiveUpModel(r, kind)
    PROVE  Arrives(r, refused) /\ TurnsOver(r) /\ OthersStaged(r)
<1> DEFINE d == Failed(r, kind)
<1>1. /\ Model(r) \in Models /\ d \in Call /\ Sound(r, d, refused)
      /\ d.idx = call[r].idx /\ d.chain = call[r].chain
      /\ d.left = call[r].left \cup {Model(r)} 
      /\ d.drained = IF kind = "credits" THEN call[r].drained \cup {Model(r)} ELSE call[r].drained
  BY FailedIs
<1>2. role[r] = "operator" => call[r].left \subseteq call[r].drained
  BY DEF Walks, Explained
<1>3. CASE /\ role[r] = "operator" /\ kind # "credits"
           /\ Exhaust(r, [d EXCEPT !.chain = SubSeq(@, 1, d.idx)])
           /\ UNCHANGED staged
  <2> DEFINE cut == SubSeq(d.chain, 1, d.idx)
             c == [d EXCEPT !.chain = cut]
  <2>1. d.idx \in Nat \ {0} /\ d.chain \in Seq(Models) /\ Len(d.chain) \in Nat /\ d.idx <= Len(d.chain)
    BY <1>1, LenProperties DEF Call, Sound
  <2>2. cut \in Seq(Models) /\ Len(cut) = d.idx /\ cut[1] = d.chain[1]
    <3>1. /\ 1 \in 1..(Len(d.chain) + 1) /\ d.idx \in 0..Len(d.chain)
      BY <2>1
    <3>2. 1 \in 1..d.idx
      BY <2>1
    <3> QED
      BY <2>1, <3>1, <3>2, SubSeqProperties
  <2> HIDE DEF cut, d
  <2>3. /\ c \in Call /\ c.chain = cut /\ c.idx = d.idx /\ c.err = d.err /\ c.errAt = d.errAt
    BY <1>1, <2>2 DEF Call
  <2>4. Exhaust(r, c)
    BY <1>3 DEF cut
  <2> HIDE DEF c
  <2>5. Sound(r, c, refused)
    <3>1. c.idx <= Len(c.chain) /\ c.chain[1] = Primary[r]
      BY <1>1, <2>1, <2>2, <2>3 DEF Sound
    <3> QED
      BY <1>1, <1>3, <2>3, <3>1 DEF Sound
  <2> QED
    BY <1>3, <2>3, <2>4, <2>5, ExhaustArrives, UnstagedIs
<1>4. CASE /\ role[r] # "operator" \/ kind = "credits"
           /\ Stage(r)
           /\ Advance(r, IF kind = "credits" THEN [d EXCEPT !.chain = Rescued(r, @)] ELSE d)
  <2>1. OthersStaged(r) /\ staged'[r] = Model(r)
    BY <1>1, <1>4, StageIs
  <2>2. CASE kind = "credits"
    <3> DEFINE c == [Failed(r, "credits") EXCEPT !.chain = Rescued(r, @)]
    <3>1. Advance(r, c) /\ At(r) \in refused
      BY <1>4, <2>2 DEF Refusal
    <3>2. /\ c \in Call /\ Sound(r, c, refused)
          /\ c.left = call[r].left \cup {Model(r)} /\ c.drained = call[r].drained \cup {Model(r)}
      BY <3>1, RescuedIs
    <3> HIDE DEF c
    <3>3. Explained(r, c, staged'[r])
      BY <1>2, <2>1, <3>2 DEF Explained
    <3> QED
      BY <2>1, <3>1, <3>2, <3>3, AdvanceArrives
  <2>3. CASE kind # "credits"
    <3>1. Advance(r, d) /\ role[r] # "operator"
      BY <1>4, <2>3
    <3> HIDE DEF d
    <3>2. Explained(r, d, staged'[r])
      BY <1>1, <2>1, <3>1 DEF Explained
    <3> QED
      BY <1>1, <2>1, <3>1, <3>2, AdvanceArrives
  <2> QED
    BY <2>2, <2>3
<1> QED
  BY <1>3, <1>4 DEF GiveUpModel

LEMMA OnQuotaArrives ==
    ASSUME LlmTypeOK, NEW r \in Runs, Walks(r), place[r] \notin Ended, OnQuota(r)
    PROVE  /\ Arrives(r, refusals) /\ OthersStaged(r)
           /\ place'[r] \in {"ask", "idle", "trip"}
           /\ told'[r] \in {told[r], "unavailable", At(r)}
<1> DEFINE d == Failed(r, "transient")
           c == [d EXCEPT !.drained = @ \cup {Model(r)}]
<1>1. /\ Model(r) \in Models /\ d \in Call /\ Sound(r, d, refusals)
      /\ d.left = call[r].left \cup {Model(r)} /\ d.drained = call[r].drained
  BY FailedIs DEF Refusal
<1>2. CASE role[r] = "operator" /\ ~IsLast(r)
  <2>1. Stage(r) /\ Advance(r, c)
    BY <1>2 DEF OnQuota
  <2> HIDE DEF d
  <2>2. /\ c \in Call /\ c.idx = d.idx /\ c.chain = d.chain /\ c.err = d.err /\ c.errAt = d.errAt
        /\ c.left = d.left /\ c.drained = d.drained \cup {Model(r)}
    BY <1>1 DEF Call
  <2> HIDE DEF c
  <2>3. OthersStaged(r) /\ staged'[r] = Model(r)
    BY <1>1, <2>1, StageIs
  <2>4. Sound(r, c, refusals)
    BY <1>1, <1>2, <2>2 DEF Sound
  <2>5. Explained(r, c, staged'[r])
    BY <1>1, <2>2, <2>3 DEF Explained, Walks
  <2> QED
    BY <2>1, <2>2, <2>3, <2>4, <2>5, AdvanceArrives DEF TurnsOver
<1>3. CASE ~(role[r] = "operator" /\ ~IsLast(r))
  <2>1. Tell(r, At(r)) /\ UNCHANGED staged
    BY <1>3 DEF OnQuota
  <2>2. At(r) \in Outcomes
    BY <1>1, LlmAssumption DEF At, Outcomes
  <2> QED
    BY <2>1, <2>2, TellArrives, UnstagedIs
<1> QED
  BY <1>2, <1>3

\* The variables that no walk depends on keep their types.
Sundry == /\ block \in [Providers -> {"none", "quota", "circuit"}]
          /\ count \in [Models -> 0..Threshold] /\ cooling \subseteq Models
          /\ calls \in [Runs -> Nat] /\ reason \in [Runs -> Models \cup {None}]
          /\ refusals \subseteq Providers /\ spent \subseteq Providers /\ late \subseteq Runs

\* The invariant after a step of run r.
LEMMA ArrivalKeeps ==
    ASSUME LlmInv, NEW r \in Runs, Arrives(r, refusals'), OthersStaged(r), UNCHANGED role,
           Sundry', refusals \subseteq refusals', spent \subseteq spent',
           place'[r] = "again" => call'[r].idx = 1 /\ staged'[r] = Model(r)' /\ role[r] # "operator",
           place'[r] = "record" => At(r)' \in spent',
           \A s \in Runs : Answers(s)', RowsAreTrue'
    PROVE  LlmInv'
<1>1. LlmTypeOK'
  <2>1. \A s \in Runs : call'[s].idx <= Len(call'[s].chain)
    <3>1. \A s \in Runs \ {r} : call'[s] = call[s]
      BY DEF Arrives
    <3>2. call'[r].idx <= Len(call'[r].chain)
      BY DEF Arrives, Sound
    <3> QED
      BY <3>1, <3>2 DEF LlmInv, LlmTypeOK
  <2>2. /\ place' \in [Runs -> Walking \cup {"gate", "idle"}]
        /\ call' \in [Runs -> Call] /\ told' \in [Runs -> Outcomes]
        /\ staged' \in [Runs -> Models \cup {None}] /\ role' \in Roles
    BY DEF Arrives, OthersStaged, LlmInv, LlmTypeOK
  <2> QED
    BY <2>1, <2>2 DEF LlmTypeOK, Sundry
<1>2. Walks(r)'
  <2>1. /\ Sound(r, call[r], refusals)'
        /\ (place[r] \notin Ended => Explained(r, call[r], staged[r]) /\ Fresh(call[r]))'
        /\ (place[r] \in Ended => call[r].err \in Refusal)'
    BY DEF Arrives, Sound, Explained, Fresh
  <2> QED
    BY <2>1 DEF Walks
<1>3. ASSUME NEW s \in Runs \ {r} PROVE Walks(s)'
  <2>1. /\ place'[s] = place[s] /\ call'[s] = call[s] /\ staged'[s] = staged[s]
        /\ Walks(s)
    BY DEF Arrives, OthersStaged, LlmInv
  <2> QED
    BY <2>1 DEF Walks, Sound, Explained, Fresh, Model, At
<1> QED
  BY <1>1, <1>2, <1>3 DEF LlmInv

\* The same, when the step leaves the rows and the histories alone.
LEMMA CalmArrivalKeeps ==
    ASSUME LlmInv, NEW r \in Runs, Arrives(r, refusals), OthersStaged(r),
           UNCHANGED <<role, block, refusals, spent, late>>,
           count' \in [Models -> 0..Threshold], cooling' \subseteq Models,
           calls' \in [Runs -> Nat], reason' \in [Runs -> Models \cup {None}],
           place'[r] = "again" => call'[r].idx = 1 /\ staged'[r] = Model(r)' /\ role[r] # "operator",
           place'[r] = "record" => At(r)' \in spent,
           told'[r] \in Providers => told'[r] \in spent,
           place'[r] = "open" => block[Refuser(r)'] # "quota"
    PROVE  LlmInv'
<1>1. Sundry'
  BY DEF Sundry, LlmInv, LlmTypeOK
<1>2. Answers(r)'
  BY DEF Answers, Refuser
<1>3. ASSUME NEW s \in Runs \ {r} PROVE Answers(s)'
  <2>1. place'[s] = place[s] /\ call'[s] = call[s] /\ told'[s] = told[s] /\ Answers(s)
    BY DEF Arrives, LlmInv
  <2> QED
    BY <2>1 DEF Answers, Refuser
<1>4. RowsAreTrue'
  BY DEF RowsAreTrue, LlmInv
<1>5. Arrives(r, refusals') /\ UNCHANGED role /\ refusals' = refusals /\ spent' = spent
  OBVIOUS
<1> HIDE DEF Sundry
<1> QED
  BY <1>1, <1>2, <1>3, <1>4, <1>5, ArrivalKeeps

\* What a model adds to its streak.
LEMMA Streaks ==
    ASSUME LlmTypeOK, NEW m \in Models,
           NEW n, n = IF count[m] < Threshold THEN count[m] + 1 ELSE Threshold
    PROVE  /\ [count EXCEPT ![m] = n] \in [Models -> 0..Threshold]
           /\ [count EXCEPT ![m] = 0] \in [Models -> 0..Threshold]
<1>1. Threshold \in Nat \ {0} /\ count \in [Models -> 0..Threshold]
  BY LlmAssumption DEF LlmTypeOK
<1>2. n \in 0..Threshold /\ 0 \in 0..Threshold
  <2>1. count[m] \in 0..Threshold
    BY <1>1
  <2> QED
    BY <1>1, <2>1
<1> QED
  BY <1>1, <1>2

LEMMA AttemptKeeps ==
    ASSUME LlmInv, NEW r \in Runs,
           \/ NoBudget(r) \/ Skip(r) \/ AskModel(r) \/ Blocked(r) \/ Send(r)
           \/ Answered(r) \/ Served(r) \/ Unusable(r) \/ Fails(r)
           \/ RateLimited(r) \/ Note(r) \/ Again(r) \/ Trip(r)
    PROVE  LlmInv'
<1>t. /\ LlmTypeOK /\ Walks(r) /\ RowsAreTrue /\ Answers(r)
      /\ call[r] \in Call /\ Sound(r, call[r], refusals)
      /\ count \in [Models -> 0..Threshold] /\ cooling \subseteq Models
      /\ calls \in [Runs -> Nat] /\ reason \in [Runs -> Models \cup {None}]
      /\ told \in [Runs -> Outcomes]
  BY DEF LlmInv, LlmTypeOK, Walks
<1>m. place[r] \notin Ended => Model(r) \in Models
  BY <1>t, FailedIs DEF Refusal
<1>w. /\ place[r] \notin Ended => Explained(r, call[r], staged[r]) /\ Fresh(call[r])
      /\ {"ask", "look", "sent", "clear", "note", "again", "open"} \subseteq Walking
      /\ {"ask", "look", "sent", "clear", "note", "again"} \cap Ended = {} /\ "open" \in Ended
      /\ "unavailable" \in Outcomes /\ "served" \in Outcomes
      /\ "unavailable" \notin Providers /\ "served" \notin Providers
  BY <1>t DEF Walks, Walking, Ended, Outcomes, Providers
<1>1. CASE NoBudget(r)
  <2>1. Arrives(r, refusals) /\ place'[r] = "idle" /\ told'[r] = "unavailable"
    BY <1>1, <1>t, <1>w, TellArrives DEF NoBudget
  <2>2. UNCHANGED <<role, block, count, cooling, calls, staged, reason, refusals, spent, late>>
    BY <1>1 DEF NoBudget, shared, capture, history
  <2>3. OthersStaged(r)
    BY <1>t, <2>2, UnstagedIs
  <2> QED
    BY <1>t, <1>w, <2>1, <2>2, <2>3, CalmArrivalKeeps
<1>2. CASE Skip(r) \/ Fails(r)
  <2>1. place[r] \notin Ended /\ GiveUpModel(r, "transient")
    BY <1>2, <1>w DEF Skip, Fails
  <2>2. UNCHANGED <<role, block, count, cooling, calls, reason, refusals, spent, late>>
    BY <1>2 DEF Skip, Fails, shared, history
  <2>3. Arrives(r, refusals) /\ TurnsOver(r) /\ OthersStaged(r)
    BY <1>t, <2>1, GiveUpArrives DEF Refusal
  <2> QED
    BY <1>t, <1>w, <2>2, <2>3, CalmArrivalKeeps DEF TurnsOver, Answers
<1>3. CASE AskModel(r) \/ Send(r) \/ Answered(r) \/ RateLimited(r)
  <2>1. PICK label \in {"look", "sent", "clear", "note"} : GoOn(r, label, call[r]) /\ place[r] \notin Ended
    BY <1>3, <1>w DEF AskModel, Send, Answered, RateLimited
  <2>2. UNCHANGED <<role, block, count, cooling, calls, staged, reason, refusals, spent, late>>
    BY <1>3 DEF AskModel, Send, Answered, RateLimited, shared, capture, history
  <2>3. OthersStaged(r) /\ staged' = staged
    BY <1>t, <2>2, UnstagedIs
  <2>4. Arrives(r, refusals) /\ place'[r] = label /\ told' = told
    <3>1. label \in Walking /\ label \notin Ended
      BY <1>w
    <3> QED
      BY <1>t, <1>w, <2>1, <2>3, <3>1, GoOnArrives
  <2> QED
    BY <1>t, <1>w, <2>2, <2>3, <2>4, CalmArrivalKeeps DEF Answers
<1>4. CASE Blocked(r)
  <2>1. place[r] \notin Ended
    BY <1>4, <1>w DEF Blocked
  <2>2. UNCHANGED <<role, block, count, cooling, calls, reason, refusals, spent, late>>
    BY <1>4 DEF Blocked, shared, history
  <2>3. CASE Tell(r, "unavailable") /\ UNCHANGED staged
    <3>1. Arrives(r, refusals) /\ place'[r] = "idle" /\ told'[r] = "unavailable" /\ OthersStaged(r)
      BY <1>t, <1>w, <2>3, TellArrives, UnstagedIs
    <3> QED
      BY <1>t, <1>w, <2>2, <3>1, CalmArrivalKeeps
  <2>4. CASE block[At(r)] = "quota" /\ OnQuota(r)
    <3>1. At(r) \in spent
      <4>1. At(r) \in Providers
        BY <1>m, <2>1, LlmAssumption DEF At
      <4> QED
        BY <1>t, <2>4, <4>1 DEF RowsAreTrue
    <3>2. /\ Arrives(r, refusals) /\ OthersStaged(r) /\ place'[r] \in {"ask", "idle", "trip"}
          /\ told'[r] \in {told[r], "unavailable", At(r)}
      BY <1>t, <2>1, <2>4, OnQuotaArrives
    <3> QED
      BY <1>t, <1>w, <2>2, <3>1, <3>2, CalmArrivalKeeps DEF Answers
  <2> QED
    BY <1>4, <2>3, <2>4 DEF Blocked
<1>5. CASE Served(r)
  <2>1. Arrives(r, refusals) /\ place'[r] = "idle" /\ told'[r] = "served"
    BY <1>5, <1>t, <1>w, TellArrives DEF Served
  <2>2. UNCHANGED <<role, block, calls, staged, refusals, spent, late>>
    BY <1>5 DEF Served, history
  <2>3. OthersStaged(r)
    BY <1>t, <2>2, UnstagedIs
  <2>4. count' \in [Models -> 0..Threshold] /\ cooling' \subseteq Models
    BY <1>5, <1>t, <1>m, <1>w, Streaks DEF Served
  <2>5. reason' \in [Runs -> Models \cup {None}]
    <3>1. staged[r] \in Models \cup {None} /\ reason[r] \in Models \cup {None}
      BY <1>t DEF LlmTypeOK
    <3> QED
      BY <1>5, <1>t, <3>1 DEF Served
  <2> QED
    BY <1>t, <1>w, <2>1, <2>2, <2>3, <2>4, <2>5, CalmArrivalKeeps
<1>6. CASE Unusable(r)
  <2> DEFINE c == [call[r] EXCEPT !.err = "transient", !.errAt = Model(r)]
  <2>1. /\ place[r] \notin Ended /\ Redraft(r, c)
        /\ UNCHANGED <<role, block, count, cooling, calls, staged, reason, refusals, spent, late>>
    BY <1>6, <1>w DEF Unusable, shared, capture, history
  <2>2. /\ c \in Call /\ c.idx = call[r].idx /\ c.chain = call[r].chain /\ c.err = "transient"
        /\ c.left = call[r].left /\ c.drained = call[r].drained
    BY <1>t, <1>m, <2>1 DEF Call
  <2> HIDE DEF c
  <2>3. Sound(r, c, refusals) /\ Explained(r, c, staged[r]) /\ Fresh(c)
    BY <1>t, <1>w, <2>1, <2>2 DEF Sound, Explained, Fresh, Refusal
  <2>4. Arrives(r, refusals) /\ TurnsOver(r)
    <3>1. CASE c.draft = 1
      <4> DEFINE d == [c EXCEPT !.draft = 2]
      <4>1. GoOn(r, "ask", d)
        BY <2>1, <3>1 DEF Redraft
      <4>2. /\ d \in Call /\ d.idx = c.idx /\ d.chain = c.chain /\ d.err = c.err /\ d.errAt = c.errAt
            /\ d.left = c.left /\ d.drained = c.drained
        BY <2>2 DEF Call
      <4> HIDE DEF d
      <4>3. Sound(r, d, refusals) /\ Explained(r, d, staged'[r]) /\ Fresh(d)
        BY <2>1, <2>3, <4>2 DEF Sound, Explained, Fresh
      <4> QED
        BY <1>t, <1>w, <4>1, <4>2, <4>3, GoOnArrives DEF TurnsOver
    <3>2. CASE c.draft # 1
      BY <1>t, <2>1, <2>2, <2>3, <3>2, AdvanceArrives DEF Redraft
    <3> QED
      BY <3>1, <3>2
  <2>5. OthersStaged(r)
    BY <1>t, <2>1, UnstagedIs
  <2> QED
    BY <1>t, <1>w, <2>1, <2>4, <2>5, CalmArrivalKeeps DEF TurnsOver, Answers
<1>7. CASE Note(r)
  <2>1. place[r] \notin Ended
    BY <1>7, <1>w DEF Note
  <2>2. UNCHANGED <<role, block, calls, reason, refusals, spent, late>>
    BY <1>7 DEF Note, history
  <2>3. count' \in [Models -> 0..Threshold] /\ cooling' \subseteq Models
    BY <1>7, <1>t, <1>m, <2>1, Streaks DEF Note
  <2>4. CASE call[r].idx = 1 /\ role[r] # "operator" /\ Stage(r) /\ GoOn(r, "again", call[r])
    <3>1. OthersStaged(r) /\ staged'[r] = Model(r)
      BY <1>t, <1>m, <2>1, <2>4, StageIs
    <3>2. call[r].left = {}
      BY <1>w, <2>1, <2>4 DEF Fresh
    <3>3. Explained(r, call[r], staged'[r])
      BY <3>2 DEF Explained
    <3>4. Arrives(r, refusals) /\ place'[r] = "again" /\ call'[r] = call[r] /\ told' = told
      BY <1>t, <1>w, <2>1, <2>4, <3>3, GoOnArrives
    <3>5. Model(r)' = Model(r)
      BY <3>4 DEF Model
    <3> QED
      BY <1>t, <1>w, <2>2, <2>3, <2>4, <3>1, <3>4, <3>5, CalmArrivalKeeps DEF Answers
  <2>5. CASE GiveUpModel(r, "transient")
    <3>1. Arrives(r, refusals) /\ TurnsOver(r) /\ OthersStaged(r)
      BY <1>t, <2>1, <2>5, GiveUpArrives DEF Refusal
    <3> QED
      BY <1>t, <1>w, <2>2, <2>3, <3>1, CalmArrivalKeeps DEF TurnsOver, Answers
  <2> QED
    BY <1>7, <2>4, <2>5 DEF Note
<1>8. CASE Again(r)
  <2>1. /\ place[r] = "again" /\ place[r] \notin Ended
        /\ UNCHANGED <<role, block, count, cooling, calls, staged, reason, refusals, spent, late>>
    BY <1>8, <1>w DEF Again, shared, capture, history
  <2>2. /\ call[r].idx = 1 /\ call[r].left = {} /\ staged[r] = Model(r) /\ role[r] # "operator"
        /\ staged'[r] = Model(r)
    BY <1>t, <1>w, <2>1 DEF Walks, Fresh
  <2>3. OthersStaged(r)
    BY <1>t, <2>1, UnstagedIs
  <2>4. Arrives(r, refusals) /\ TurnsOver(r)
    <3>1. CASE /\ call[r].draft = 1
               /\ Redraft(r, [call[r] EXCEPT !.err = "transient", !.errAt = Model(r), !.retried = TRUE])
      <4> DEFINE c == [call[r] EXCEPT !.err = "transient", !.errAt = Model(r), !.retried = TRUE]
                 d == [c EXCEPT !.draft = 2]
      <4>1. c \in Call /\ c.draft = 1
        BY <1>t, <1>m, <2>1, <3>1 DEF Call
      <4>2. GoOn(r, "ask", d)
        BY <3>1, <4>1 DEF Redraft
      <4>3. /\ d \in Call /\ d.idx = call[r].idx /\ d.chain = call[r].chain /\ d.err = "transient"
            /\ d.left = call[r].left /\ d.drained = call[r].drained
        BY <1>t, <1>m, <2>1 DEF Call
      <4> HIDE DEF c, d
      <4>4. Sound(r, d, refusals) /\ Explained(r, d, staged'[r]) /\ Fresh(d)
        BY <1>t, <2>2, <4>3 DEF Sound, Explained, Fresh, Refusal
      <4> QED
        BY <1>t, <1>w, <4>2, <4>3, <4>4, GoOnArrives DEF TurnsOver
    <3>2. CASE Advance(r, Failed(r, "transient"))
      <4>1. /\ Failed(r, "transient") \in Call /\ Sound(r, Failed(r, "transient"), refusals)
            /\ Failed(r, "transient").left = call[r].left \cup {Model(r)}
        BY <1>t, <2>1, FailedIs DEF Refusal
      <4>2. Explained(r, Failed(r, "transient"), staged'[r])
        BY <2>2, <4>1 DEF Explained
      <4> QED
        BY <1>t, <3>2, <4>1, <4>2, AdvanceArrives
    <3> QED
      BY <1>8, <3>1, <3>2 DEF Again
  <2> QED
    BY <1>t, <1>w, <2>1, <2>3, <2>4, CalmArrivalKeeps DEF TurnsOver, Answers
<1>9. CASE Trip(r)
  <2>1. /\ place[r] \in Ended /\ call[r].err \in Refusal
        /\ UNCHANGED <<role, block, count, cooling, calls, staged, reason, refusals, spent, late>>
    BY <1>9, <1>t DEF Trip, Walks, Ended, shared, capture, history
  <2>2. OthersStaged(r)
    BY <1>t, <2>1, UnstagedIs
  <2>3. CASE Tell(r, "unavailable")
    <3>1. Arrives(r, refusals) /\ place'[r] = "idle" /\ told'[r] = "unavailable"
      BY <1>t, <1>w, <2>3, TellArrives
    <3> QED
      BY <1>t, <1>w, <2>1, <2>2, <3>1, CalmArrivalKeeps
  <2>4. CASE block[Refuser(r)] # "quota" /\ GoOn(r, "open", call[r])
    <3>1. Arrives(r, refusals) /\ place'[r] = "open" /\ call'[r] = call[r] /\ told' = told
      BY <1>t, <1>w, <2>1, <2>4, GoOnArrives
    <3>2. Refuser(r)' = Refuser(r)
      BY <3>1 DEF Refuser
    <3> QED
      BY <1>t, <2>1, <2>2, <2>4, <3>1, <3>2, CalmArrivalKeeps DEF Answers
  <2> QED
    BY <1>9, <2>3, <2>4 DEF Trip
<1> QED
  BY <1>1, <1>2, <1>3, <1>4, <1>5, <1>6, <1>7, <1>8, <1>9

\* The actions that write a row, or what was ever refused or spent.
LEMMA RefusedKeeps ==
    ASSUME LlmInv, NEW r \in Runs, NEW kind \in Refusal, Refused(r, kind)
    PROVE  LlmInv'
<1>1. /\ place[r] = "sent" /\ place[r] \notin Ended /\ GiveUpModel(r, kind)
      /\ refusals' = refusals \cup {At(r)}
      /\ UNCHANGED <<role, block, count, cooling, calls, reason, spent, late>>
  BY DEF Refused, shared, Ended
<1>t. LlmTypeOK /\ Walks(r) /\ RowsAreTrue
  BY DEF LlmInv
<1>2. At(r) \in Providers
  <2>1. Model(r) \in Models
    BY <1>t, <1>1, FailedIs DEF Refusal
  <2> QED
    BY <2>1, LlmAssumption DEF At
<1>3. Arrives(r, refusals') /\ TurnsOver(r) /\ OthersStaged(r)
  BY <1>t, <1>1, GiveUpArrives DEF Refusal
<1>4. Sundry'
  BY <1>t, <1>1, <1>2 DEF Sundry, LlmTypeOK
<1>5. \A s \in Runs : Answers(s)'
  <2>1. Answers(r)'
    BY <1>1, <1>3 DEF LlmInv, Answers, TurnsOver, Providers
  <2>2. ASSUME NEW s \in Runs \ {r} PROVE Answers(s)'
    <3>1. place'[s] = place[s] /\ call'[s] = call[s] /\ told'[s] = told[s] /\ Answers(s)
      BY <1>3 DEF Arrives, LlmInv
    <3> QED
      BY <1>1, <3>1 DEF Answers, Refuser
  <2> QED
    BY <2>1, <2>2
<1>6. RowsAreTrue'
  BY <1>t, <1>1 DEF RowsAreTrue
<1>7. place'[r] \notin {"again", "record"}
  BY <1>3 DEF TurnsOver
<1> QED
  BY <1>1, <1>3, <1>4, <1>5, <1>6, <1>7, ArrivalKeeps

LEMMA SubscriptionSpentKeeps ==
    ASSUME LlmInv, NEW r \in Runs, SubscriptionSpent(r)
    PROVE  LlmInv'
<1>1. /\ place[r] = "sent" /\ place[r] \notin Ended /\ At(r) \in Providers
      /\ "record" \in Walking \ Ended
      /\ spent' = spent \cup {At(r)} /\ GoOn(r, "record", call[r])
      /\ UNCHANGED <<role, block, count, cooling, calls, staged, reason, refusals, late>>
  BY DEF SubscriptionSpent, shared, capture, Ended, Walking, Providers
<1>t. LlmTypeOK /\ Walks(r) /\ RowsAreTrue /\ call[r] \in Call
  BY DEF LlmInv, LlmTypeOK
<1>2. OthersStaged(r) /\ staged' = staged
  BY <1>t, <1>1, UnstagedIs
<1>3. Arrives(r, refusals') /\ place'[r] = "record" /\ call'[r] = call[r] /\ told' = told
  <2>1. Sound(r, call[r], refusals') /\ Explained(r, call[r], staged'[r]) /\ Fresh(call[r])
    BY <1>t, <1>1, <1>2 DEF Walks
  <2> QED
    BY <1>t, <1>1, <2>1, GoOnArrives
<1>4. Sundry'
  BY <1>t, <1>1 DEF Sundry, LlmTypeOK
<1>5. \A s \in Runs : Answers(s)'
  <2>1. Answers(r)'
    BY <1>1, <1>3 DEF LlmInv, Answers
  <2>2. ASSUME NEW s \in Runs \ {r} PROVE Answers(s)'
    <3>1. place'[s] = place[s] /\ call'[s] = call[s] /\ told'[s] = told[s] /\ Answers(s)
      BY <1>3 DEF Arrives, LlmInv
    <3> QED
      BY <1>1, <3>1 DEF Answers, Refuser
  <2> QED
    BY <2>1, <2>2
<1>6. RowsAreTrue'
  BY <1>t, <1>1 DEF RowsAreTrue
<1>7. At(r)' = At(r)
  BY <1>3 DEF At, Model
<1> QED
  BY <1>1, <1>2, <1>3, <1>4, <1>5, <1>6, <1>7, ArrivalKeeps

LEMMA RecordQuotaKeeps ==
    ASSUME LlmInv, NEW r \in Runs, RecordQuota(r)
    PROVE  LlmInv'
<1>1. /\ place[r] = "record" /\ place[r] \notin Ended /\ OnQuota(r)
      /\ UNCHANGED <<role, count, cooling, calls, reason, refusals, spent>>
  BY DEF RecordQuota, Ended
<1>t. LlmTypeOK /\ Walks(r) /\ RowsAreTrue /\ At(r) \in spent /\ block \in [Providers -> {"none", "quota", "circuit"}]
  BY <1>1 DEF LlmInv, Walks, LlmTypeOK
<1>2. At(r) \in Providers
  BY <1>t DEF LlmTypeOK
<1>3. /\ Arrives(r, refusals') /\ OthersStaged(r) /\ place'[r] \in {"ask", "idle", "trip"}
      /\ told'[r] \in {told[r], "unavailable", At(r)}
  BY <1>t, <1>1, OnQuotaArrives
<1>4. \/ /\ block' = [block EXCEPT ![At(r)] = "quota"]
         /\ late' = late \cup {s \in Runs : place[s] = "open" /\ Refuser(s) = At(r)}
      \/ UNCHANGED <<block, late>>
  BY DEF RecordQuota, Refuser
<1>5. /\ block' \in [Providers -> {"none", "quota", "circuit"}] /\ late' \subseteq Runs
      /\ late \subseteq late' /\ block'[At(r)] \in {block[At(r)], "quota"}
      /\ \A p \in Providers \ {At(r)} : block'[p] = block[p]
  BY <1>t, <1>2, <1>4 DEF LlmTypeOK
<1>6. Sundry'
  BY <1>t, <1>1, <1>5 DEF Sundry, LlmTypeOK
<1>7. \A s \in Runs : Answers(s)'
  <2>1. Answers(r)'
    BY <1>t, <1>1, <1>3 DEF LlmInv, Answers, Providers
  <2>2. ASSUME NEW s \in Runs \ {r} PROVE Answers(s)'
    <3>1. /\ place'[s] = place[s] /\ call'[s] = call[s] /\ told'[s] = told[s] /\ Answers(s)
          /\ Refuser(s)' = Refuser(s)
      BY <1>3 DEF Arrives, LlmInv, Refuser
    <3>2. CASE block' = [block EXCEPT ![At(r)] = "quota"]
      <4>1. late' = late \cup {u \in Runs : place[u] = "open" /\ Refuser(u) = At(r)} \/ block' = block
        BY <1>4
      <4>2. place[s] = "open" /\ block'[Refuser(s)] = "quota" => s \in late'
        <5>1. CASE Refuser(s) = At(r)
          BY <1>4, <1>5, <3>1, <5>1 DEF Answers
        <5>2. CASE Refuser(s) # At(r)
          <6>1. block'[Refuser(s)] = block[Refuser(s)]
            BY <1>t, <3>2, <5>2
          <6> QED
            BY <1>5, <3>1, <6>1 DEF Answers
        <5> QED
          BY <5>1, <5>2
      <4> QED
        BY <1>1, <3>1, <4>2 DEF Answers
    <3>3. CASE UNCHANGED <<block, late>>
      BY <1>1, <3>1, <3>3 DEF Answers
    <3> QED
      BY <1>4, <3>2, <3>3
  <2> QED
    BY <2>1, <2>2
<1>8. RowsAreTrue'
  BY <1>t, <1>1, <1>5 DEF RowsAreTrue
<1> QED
  BY <1>1, <1>3, <1>6, <1>7, <1>8, ArrivalKeeps

LEMMA OpenCircuitKeeps ==
    ASSUME LlmInv, NEW r \in Runs, OpenCircuit(r)
    PROVE  LlmInv'
<1>1. /\ place[r] = "open" /\ place[r] \in Ended /\ Tell(r, "unavailable") /\ late' = late \ {r}
      /\ UNCHANGED <<role, count, cooling, calls, staged, reason, refusals, spent>>
  BY DEF OpenCircuit, Ended, capture
<1>t. LlmTypeOK /\ Walks(r) /\ RowsAreTrue /\ block \in [Providers -> {"none", "quota", "circuit"}]
  BY DEF LlmInv, LlmTypeOK
<1>2. Refuser(r) \in refusals /\ Refuser(r) \in Providers
  BY <1>t, <1>1, LlmAssumption DEF Walks, Sound, Refuser
<1>3. Arrives(r, refusals') /\ place'[r] = "idle" /\ told'[r] = "unavailable"
  BY <1>t, <1>1, TellArrives DEF Outcomes
<1>4. OthersStaged(r)
  BY <1>t, <1>1, UnstagedIs
<1>5. /\ block' \in [Providers -> {"none", "quota", "circuit"}]
      /\ block'[Refuser(r)] \in {block[Refuser(r)], "circuit"}
      /\ \A p \in Providers \ {Refuser(r)} : block'[p] = block[p]
      /\ block' = [block EXCEPT ![Refuser(r)] = "circuit"] \/ block' = block
  BY <1>t, <1>2 DEF OpenCircuit
<1>6. Sundry'
  BY <1>t, <1>1, <1>5 DEF Sundry, LlmTypeOK
<1>7. \A s \in Runs : Answers(s)'
  <2>1. Answers(r)'
    BY <1>3 DEF Answers, Providers
  <2>2. ASSUME NEW s \in Runs \ {r} PROVE Answers(s)'
    <3>1. /\ place'[s] = place[s] /\ call'[s] = call[s] /\ told'[s] = told[s] /\ Answers(s)
          /\ Refuser(s)' = Refuser(s)
      BY <1>3 DEF Arrives, LlmInv, Refuser
    <3>2. place[s] = "open" => Refuser(s) \in Providers
      BY LlmAssumption DEF LlmInv, Walks, Sound, Ended, Refuser
    <3>3. place[s] = "open" /\ block'[Refuser(s)] = "quota" => block[Refuser(s)] = "quota"
      BY <1>5, <3>2
    <3> QED
      BY <1>1, <3>1, <3>3 DEF Answers
  <2> QED
    BY <2>1, <2>2
<1>8. RowsAreTrue'
  BY <1>t, <1>1, <1>2, <1>5 DEF RowsAreTrue
<1> QED
  BY <1>1, <1>3, <1>4, <1>6, <1>7, <1>8, ArrivalKeeps

\* The gate before the first call, and the beginning of each.
LEMMA BeginKeeps ==
    ASSUME LlmInv, NEW r \in Runs, Gate(r) \/ Begin(r)
    PROVE  LlmInv'
<1>t. /\ LlmTypeOK /\ Walks(r) /\ RowsAreTrue /\ Answers(r)
      /\ place \in [Runs -> Walking \cup {"gate", "idle"}] /\ told \in [Runs -> Outcomes]
      /\ call \in [Runs -> Call] /\ calls \in [Runs -> Nat] /\ MaxCalls \in [Runs -> Nat]
  BY LlmAssumption DEF LlmInv, LlmTypeOK
<1>1. PICK label \in {"idle", "ask"}, what \in Outcomes :
        /\ place[r] \in {"gate", "idle"} /\ place' = [place EXCEPT ![r] = label]
        /\ told' = [told EXCEPT ![r] = what] /\ (what \in Providers => what \in spent)
        /\ calls' \in [Runs -> Nat]
        /\ UNCHANGED <<role, block, count, cooling, call, staged, reason, refusals, spent, late>>
  <2>1. CASE Gate(r)
    <3>1. PICK says \in {RowSays(Provider[Primary[r]]), "nothing"} :
            /\ told' = [told EXCEPT ![r] = says]
            /\ calls' = [calls EXCEPT ![r] = IF says = "nothing" THEN @ ELSE MaxCalls[r]]
      BY <2>1 DEF Gate
    <3>2. Provider[Primary[r]] \in Providers
      BY LlmAssumption
    <3>3. says \in Outcomes /\ (says \in Providers => says \in spent)
      BY <1>t, <3>1, <3>2 DEF RowSays, RowsAreTrue, Outcomes, Providers, LlmTypeOK
    <3>4. calls' \in [Runs -> Nat]
      BY <1>t, <3>1
    <3> QED
      BY <2>1, <3>1, <3>3, <3>4 DEF Gate, MoveTo, shared, capture, history
  <2>2. CASE Begin(r)
    <3>1. "nothing" \in Outcomes /\ "nothing" \notin Providers
      BY DEF Outcomes, Providers
    <3>2. calls' \in [Runs -> Nat]
      BY <1>t, <2>2 DEF Begin
    <3> QED
      BY <2>2, <3>1, <3>2 DEF Begin, MoveTo, shared, capture, history
  <2> QED
    BY <2>1, <2>2
<1>2. OthersStaged(r) /\ staged' = staged
  BY <1>t, <1>1, UnstagedIs
<1>3. Arrives(r, refusals) /\ place'[r] = label /\ told'[r] = what
  <2>1. {"idle", "ask"} \subseteq Walking \cup {"gate", "idle"} /\ {"gate", "idle", "ask"} \cap Ended = {}
    BY DEF Walking, Ended
  <2>2. /\ place' \in [Runs -> Walking \cup {"gate", "idle"}] /\ told' \in [Runs -> Outcomes]
        /\ place'[r] = label /\ told'[r] = what
        /\ \A s \in Runs \ {r} : place'[s] = place[s] /\ told'[s] = told[s]
    BY <1>t, <1>1, <2>1
  <2>3. Sound(r, call[r], refusals) /\ Explained(r, call[r], staged[r]) /\ Fresh(call[r])
    BY <1>t, <1>1, <2>1 DEF Walks
  <2>4. place'[r] \notin Ended
    BY <2>1, <2>2
  <2> QED
    BY <1>t, <1>1, <1>2, <2>2, <2>3, <2>4 DEF Arrives
<1> QED
  BY <1>t, <1>1, <1>2, <1>3, CalmArrivalKeeps DEF LlmTypeOK

\* A cooldown ends, and a run may be over.
LEMMA QuietKeeps ==
    ASSUME LlmInv,
           \/ \E p \in Providers : BlockEnds(p)
           \/ \E m \in Models : CoolingEnds(m)
           \/ UNCHANGED llmVars
    PROVE  LlmInv'
<1>1. /\ UNCHANGED <<role, count, place, call, calls, staged, reason, told, refusals, spent, late>>
      /\ cooling' \subseteq cooling /\ block' \in [Providers -> {"none", "quota", "circuit"}]
      /\ \A p \in Providers : block'[p] \in {block[p], "none"}
  <2>1. block \in [Providers -> {"none", "quota", "circuit"}]
    BY DEF LlmInv, LlmTypeOK
  <2> QED
    BY <2>1 DEF BlockEnds, CoolingEnds, llmVars, shared, capture, history
<1>2. LlmTypeOK'
  BY <1>1 DEF LlmInv, LlmTypeOK
<1>3. RowsAreTrue'
  BY <1>1 DEF LlmInv, RowsAreTrue
<1>4. ASSUME NEW s \in Runs PROVE Walks(s)' /\ Answers(s)'
  <2>1. Walks(s)'
    BY <1>1 DEF LlmInv, Walks, Sound, Explained, Fresh, Model, At
  <2>2. place[s] = "open" => Refuser(s) \in Providers
    BY LlmAssumption DEF LlmInv, Walks, Sound, Ended, Refuser
  <2>3. Answers(s)'
    BY <1>1, <2>2 DEF LlmInv, Answers, Refuser
  <2> QED
    BY <2>1, <2>3
<1> QED
  BY <1>2, <1>3, <1>4 DEF LlmInv

LEMMA LlmInitInv == LlmInit => LlmInv
<1> SUFFICES ASSUME LlmInit PROVE LlmInv
  OBVIOUS
<1>1. /\ role \in Roles /\ staged = [r \in Runs |-> None] /\ told = [r \in Runs |-> "nothing"]
      /\ call = [r \in Runs |-> NewCall(r)] /\ place = [r \in Runs |-> "gate"]
      /\ block = [p \in Providers |-> "none"]
  BY DEF LlmInit
<1>2. ASSUME NEW r \in Runs
      PROVE  /\ NewCall(r) \in Call /\ NewCall(r).idx <= Len(NewCall(r).chain)
             /\ Sound(r, NewCall(r), refusals) /\ Explained(r, NewCall(r), staged[r]) /\ Fresh(NewCall(r))
  BY <1>1, FirstModel DEF Sound
<1>3. LlmTypeOK
  <2>1. call \in [Runs -> Call] /\ \A r \in Runs : call[r].idx <= Len(call[r].chain)
    BY <1>1, <1>2
  <2>2. count \in [Models -> 0..Threshold] /\ cooling \subseteq Models
    BY LlmAssumption DEF LlmInit
  <2> QED
    BY <2>1, <2>2 DEF LlmInit, LlmTypeOK, Walking, Outcomes
<1>4. \A r \in Runs : Walks(r) /\ Answers(r)
  BY <1>1, <1>2 DEF Walks, Answers, Ended, Providers
<1>5. RowsAreTrue
  BY <1>1 DEF RowsAreTrue
<1> QED
  BY <1>3, <1>4, <1>5 DEF LlmInv

LEMMA LlmStepInv == LlmInv /\ [LlmNext]_llmVars => LlmInv'
<1> SUFFICES ASSUME LlmInv, [LlmNext]_llmVars PROVE LlmInv'
  OBVIOUS
<1>1. ASSUME NEW r \in Runs, Gate(r) \/ Begin(r) PROVE LlmInv'
  BY <1>1, BeginKeeps
<1>2. ASSUME NEW r \in Runs, Walk(r) PROVE LlmInv'
  <2>1. CASE Refused(r, "credits") \/ Refused(r, "auth")
    BY <2>1, RefusedKeeps DEF Refusal
  <2>2. CASE SubscriptionSpent(r) \/ RecordQuota(r) \/ OpenCircuit(r)
    BY <2>2, SubscriptionSpentKeeps, RecordQuotaKeeps, OpenCircuitKeeps
  <2> QED
    BY <1>2, <2>1, <2>2, AttemptKeeps DEF Walk
<1>3. CASE \/ \E p \in Providers : BlockEnds(p)
           \/ \E m \in Models : CoolingEnds(m)
           \/ Quiet \/ UNCHANGED llmVars
  BY <1>3, QuietKeeps DEF Quiet
<1> QED
  BY <1>1, <1>2, <1>3 DEF LlmNext

(***************************************************************************)
(* The theorems.                                                           *)
(***************************************************************************)
\* The inductive invariant of complete() and of the breaker.
THEOREM LlmInvariant == LlmSpec => []LlmInv
BY LlmInitInv, LlmStepInv, PTL DEF LlmSpec

\* The state of the client has the types that LlmTypeOK names: a call never
\* leaves its chain, and a streak stops at the threshold.
THEOREM LlmTypeCorrect == LlmSpec => []LlmTypeOK
<1>1. LlmInv => LlmTypeOK
  BY DEF LlmInv
<1> QED
  BY <1>1, LlmInvariant, PTL

\* complete() serves a call with another model than the run's own only as the
\* user's choice, the administrator's rescue and the operator's cut allow.
THEOREM SubstitutionAllowed == LlmSpec => []SubstitutionIsAllowed
<1>1. LlmInv => SubstitutionIsAllowed
  <2> SUFFICES ASSUME LlmInv, NEW r \in Runs, place[r] = "clear", Model(r) # Primary[r]
               PROVE  /\ role[r] = "chosen" => /\ r \in Admins /\ Model(r) \in ToSet(FreeModels)
                                               /\ Primary[r] \in call[r].drained
                      /\ role[r] = "operator" => call[r].left \subseteq call[r].drained
    BY DEF SubstitutionIsAllowed
  <2>1. Walks(r) /\ Sound(r, call[r], refusals) /\ place[r] \notin Ended
    BY DEF LlmInv, Walks, Ended
  <2>2. call[r].idx \in 2..Len(call[r].chain)
    <3>1. call[r].idx \in Nat \ {0} /\ call[r].idx # 1 /\ call[r].idx <= Len(call[r].chain)
      BY <2>1 DEF LlmInv, LlmTypeOK, Call, Sound, Model
    <3>2. Len(call[r].chain) \in Nat
      BY LenProperties DEF LlmInv, LlmTypeOK, Call
    <3> QED
      BY <3>1, <3>2
  <2> QED
    BY <2>1, <2>2 DEF Sound, Model, Walks, Explained
<1> QED
  BY <1>1, LlmInvariant, PTL

\* The row of a provider, and what a user is told of it, never blame it for what
\* it did not do: quota rows and messages come from a spent subscription,
\* circuits from a refusal.
THEOREM BlameTrue == LlmSpec => []BlameIsTrue
<1>1. LlmInv => BlameIsTrue
  BY DEF LlmInv, Answers, RowsAreTrue, BlameIsTrue
<1> QED
  BY <1>1, LlmInvariant, PTL

\* What a run discloses as the reason of a fallback is a model that failed in
\* the very call that fell back.
THEOREM ReasonOfThisCall == LlmSpec => ReasonIsOfThisCall
<1>1. LlmInv /\ [LlmNext]_llmVars =>
        [\A r \in Runs : Served(r) /\ call[r].idx > 1 /\ call[r].left # {} => reason'[r] \in call[r].left]_llmVars
  <2> SUFFICES ASSUME LlmInv, NEW r \in Runs, Served(r), call[r].idx > 1, call[r].left # {}
               PROVE  reason'[r] \in call[r].left
    OBVIOUS
  <2>1. staged[r] \in call[r].left /\ staged[r] # None
    BY LlmAssumption DEF Served, LlmInv, Walks, Explained, Ended, LlmTypeOK, Call
  <2>2. reason \in [Runs -> Models \cup {None}]
    BY DEF LlmInv, LlmTypeOK
  <2> QED
    BY <2>1, <2>2 DEF Served
<1> QED
  BY <1>1, LlmInvariant, PTL DEF LlmSpec, ReasonIsOfThisCall

\* The breaker replaces a quota row by its circuit only when the row was written
\* after the breaker had looked.
THEOREM QuotaOutlives == LlmSpec => QuotaOutlivesCircuit
<1>1. LlmInv /\ [LlmNext]_llmVars =>
        [\A r \in Runs : OpenCircuit(r) /\ block[Refuser(r)] = "quota" /\ block' # block => r \in late]_llmVars
  BY DEF LlmInv, Answers, OpenCircuit
<1> QED
  BY <1>1, LlmInvariant, PTL DEF LlmSpec, QuotaOutlivesCircuit

=============================================================================
