---------------------------- MODULE EmOrchProofs ----------------------------
(* Proofs about the orchestrator of EmOrch, for every set of ems, events    *)
(* and commands.                                                           *)
EXTENDS EmOrch, FiniteSetTheorems, SequenceTheorems, TLAPS

-----------------------------------------------------------------------------
(* What a promotion and a completion do to the active queue.                *)

Elems(s) == {s[i] : i \in 1..Len(s)}

\* Two intervals from 1 are equal only if their ends are.
LEMMA IntervalLength ==
    ASSUME NEW m \in Nat, NEW n \in Nat, 1..m = 1..n
    PROVE  m = n
<1>1. CASE m < n
  <2>1. n \in 1..n /\ n \notin 1..m
    BY <1>1
  <2>. QED  BY <2>1
<1>2. CASE n < m
  <2>1. m \in 1..m /\ m \notin 1..n
    BY <1>2
  <2>. QED  BY <2>1
<1>. QED  BY <1>1, <1>2

\* queue_push on m_active adds one command to it.
LEMMA ElemsAppend ==
    ASSUME NEW S, NEW s \in Seq(S), NEW x \in S
    PROVE  /\ Append(s, x) \in Seq(S)
           /\ Len(Append(s, x)) = Len(s) + 1
           /\ Elems(Append(s, x)) = Elems(s) \cup {x}
<1>1. /\ Append(s, x) \in Seq(S)
      /\ Len(Append(s, x)) = Len(s) + 1
      /\ \A i \in 1..Len(s) : Append(s, x)[i] = s[i]
      /\ Append(s, x)[Len(s) + 1] = x
  OBVIOUS
<1>2. Len(s) \in Nat
  OBVIOUS
<1>. DEFINE n == Len(s)
            t == Append(s, x)
<1>3. 1..(n + 1) = (1..n) \cup {n + 1}
  BY <1>2
<1>4. Elems(t) = Elems(s) \cup {x}
  BY <1>1, <1>2, <1>3 DEF Elems
<1>. QED  BY <1>1, <1>4

\* queue_remove on m_active takes exactly the visited command from it.
LEMMA RemoveAtElems ==
    ASSUME NEW S, NEW s \in Seq(S), NEW k \in 1..Len(s),
           \A i, j \in 1..Len(s) : i # j => s[i] # s[j]
    PROVE  /\ RemoveAt(s, k) \in Seq(S)
           /\ Len(RemoveAt(s, k)) = Len(s) - 1
           /\ \A i, j \in 1..(Len(s) - 1) : i # j => RemoveAt(s, k)[i] # RemoveAt(s, k)[j]
           /\ Elems(RemoveAt(s, k)) = Elems(s) \ {s[k]}
<1>. DEFINE n == Len(s)
            r == RemoveAt(s, k)
<1>1. n \in Nat /\ n >= 1 /\ n - 1 \in Nat /\ DOMAIN s = 1..n
  OBVIOUS
<1>2. \A j \in 1..(n - 1) : r[j] = IF j < k THEN s[j] ELSE s[j + 1]
  BY DEF RemoveAt
<1>3. \A j \in 1..(n - 1) : r[j] \in S
  <2>. SUFFICES ASSUME NEW j \in 1..(n - 1) PROVE r[j] \in S
    OBVIOUS
  <2>1. j \in 1..n /\ j + 1 \in 1..n
    BY <1>1
  <2>. QED  BY <1>2, <2>1
<1>4. r \in Seq(S) /\ Len(r) = n - 1
  <2>1. r \in [1..(n - 1) -> S]
    BY <1>3 DEF RemoveAt
  <2>2. r \in Seq(S)
    BY <1>1, <2>1, IsASeq
  <2>3. DOMAIN r = 1..(n - 1) /\ DOMAIN r = 1..Len(r) /\ Len(r) \in Nat
    BY <2>1, <2>2, LenProperties
  <2>. QED  BY <1>1, <2>2, <2>3, IntervalLength
<1>5. \A i, j \in 1..(n - 1) : i # j => r[i] # r[j]
  <2>. SUFFICES ASSUME NEW i \in 1..(n - 1), NEW j \in 1..(n - 1), i # j
                PROVE r[i] # r[j]
    OBVIOUS
  <2>. DEFINE a == IF i < k THEN i ELSE i + 1
              b == IF j < k THEN j ELSE j + 1
  <2>1. a \in 1..n /\ b \in 1..n /\ a # b
    BY <1>1
  <2>2. r[i] = s[a] /\ r[j] = s[b]
    BY <1>2
  <2>. QED  BY <2>1, <2>2
<1>6. Elems(r) = Elems(s) \ {s[k]}
  <2>1. ASSUME NEW j \in 1..(n - 1) PROVE r[j] \in Elems(s) \ {s[k]}
    <3>. DEFINE b == IF j < k THEN j ELSE j + 1
    <3>1. b \in 1..n /\ b # k
      BY <1>1
    <3>2. r[j] = s[b]
      BY <1>2
    <3>. QED  BY <3>1, <3>2 DEF Elems
  <2>2. ASSUME NEW i \in 1..n, s[i] # s[k] PROVE s[i] \in Elems(r)
    <3>. DEFINE j == IF i < k THEN i ELSE i - 1
    <3>1. i # k
      BY <2>2
    <3>2. j \in 1..(n - 1)
      BY <1>1, <3>1
    <3>3. r[j] = s[i]
      BY <1>1, <1>2, <3>1, <3>2
    <3>. QED  BY <1>4, <3>2, <3>3 DEF Elems
  <2>. QED  BY <1>4, <2>1, <2>2 DEF Elems
<1>. QED  BY <1>4, <1>5, <1>6

-----------------------------------------------------------------------------
(* The inductive invariant.                                                 *)

\* A command is queued once, and was submitted.
QueuedOnce ==
    /\ \A i, j \in 1..Len(active) : i # j => active[i] # active[j]
    /\ pending \cap InActive = {}
    /\ \A c \in Queued : c <= next

\* A waiting command needs an em, and em_config needs exactly one.
PendingNeedsEm ==
    \A c \in pending :
        /\ cand[c] # {}
        /\ type[c] = ConfigType => \E e \in Ems : cand[c] = {e}

\* What the tick has learnt of the candidates it has already visited.
Visiting ==
    pos > 0 =>
        /\ todo \subseteq cand[active[pos]]
        /\ ret => \A e \in cand[active[pos]] \ todo : orch[e] = "fini"

IInv ==
    /\ TypeOK
    /\ QueuedOnce
    /\ PendingNeedsEm
    /\ Visiting
    /\ OneCommandPerEm
    /\ ProgressHasCmd
    /\ ChainInOrder
    /\ StatsExact

-----------------------------------------------------------------------------
(* The statistics, for commands that arrive and for commands that leave.    *)

\* The queues hold finitely many commands, so that the counts of m_cmd_map
\* are numbers.
LEMMA QueuedFinite ==
    ASSUME TypeOK
    PROVE  /\ Queued \subseteq Ids
           /\ IsFiniteSet(Ids)
           /\ \A D \in SUBSET Ids : IsFiniteSet(D) /\ Cardinality(D) \in Nat
<1>1. Len(active) \in Nat /\ \A i \in 1..Len(active) : active[i] \in Ids
  <2>1. active \in Seq(Ids)
    BY DEF TypeOK
  <2>. QED  BY <2>1, LenProperties
<1>2. Queued \subseteq Ids
  BY SMTT(30), <1>1 DEF TypeOK, Queued, InActive
<1>3. IsFiniteSet(Ids)
  <2>1. 1 \in Int /\ MaxCmds \in Int
    BY BoundAssumption
  <2>. QED  BY <2>1, FS_Interval DEF Ids
<1>4. \A D \in SUBSET Ids : IsFiniteSet(D) /\ Cardinality(D) \in Nat
  BY <1>3, FS_Subset, FS_CardinalityType
<1>. QED  BY <1>2, <1>3, <1>4

\* pop_stats for every command of D keeps the statistics exact.
LEMMA PopKeepsStats ==
    ASSUME TypeOK, StatsExact,
           NEW D \in SUBSET Queued,
           Queued' = Queued \ D, type' = type, count' = PopCount(D)
    PROVE  StatsExact' /\ count' \in [Types -> Nat]
<1>. SUFFICES ASSUME NEW t \in Types
              PROVE  count'[t] = Cardinality(QueuedOf(t)') /\ count'[t] \in Nat
  BY DEF StatsExact, PopCount
<1>. DEFINE Dt == {c \in D : type[c] = t}
<1>1. Dt \subseteq QueuedOf(t) /\ QueuedOf(t) \subseteq Ids
  BY QueuedFinite DEF QueuedOf
<1>2. QueuedOf(t)' = QueuedOf(t) \ Dt
  BY DEF QueuedOf
<1>3. IsFiniteSet(QueuedOf(t)) /\ IsFiniteSet(Dt) /\ QueuedOf(t) \cap Dt = Dt
  BY <1>1, QueuedFinite
<1>4. Cardinality(QueuedOf(t) \ Dt) = Cardinality(QueuedOf(t)) - Cardinality(Dt)
  BY ZenonT(30), <1>3, FS_Difference
<1>5. Cardinality(QueuedOf(t) \ Dt) \in Nat
  BY <1>1, QueuedFinite
<1>6. count'[t] = count[t] - Cardinality(Dt)
  BY DEF PopCount
<1>. QED  BY <1>2, <1>4, <1>5, <1>6 DEF StatsExact

\* push_stats for the commands of a chain keeps the statistics exact.
LEMMA PushKeepsStats ==
    ASSUME TypeOK, StatsExact, \A c \in Queued : c <= next,
           NEW ev \in Events, NEW S,
           next + ChainLen[ev] <= MaxCmds,
           submit_commands(ev, S), active' = active
    PROVE  StatsExact' /\ count' \in [Types -> Nat]
<1>. DEFINE new == (next + 1)..(next + ChainLen[ev])
            u == CmdType[ev]
            k == ChainLen[ev]
<1>1. next \in Nat /\ k \in Nat /\ k >= 1 /\ u \in Types /\ MaxCmds \in Nat
  BY EventsAssumption, BoundAssumption DEF TypeOK
<1>2. new \subseteq Ids /\ new \cap Queued = {}
  BY <1>1, QueuedFinite DEF Ids
<1>3. Queued' = Queued \cup new
  BY DEF submit_commands, Queued, InActive
<1>4. \A c \in Ids : type'[c] = IF c \in new THEN u ELSE type[c]
  BY DEF submit_commands
<1>5. IsFiniteSet(new) /\ Cardinality(new) = k
  <2>1. /\ IsFiniteSet(new)
        /\ Cardinality(new) = IF next + 1 > next + k THEN 0 ELSE (next + k) - (next + 1) + 1
    <3>1. next + 1 \in Int /\ next + k \in Int
      BY <1>1
    <3>. QED  BY <3>1, FS_Interval
  <2>. QED  BY <1>1, <2>1
<1>. SUFFICES ASSUME NEW t \in Types
              PROVE  count'[t] = Cardinality(QueuedOf(t)') /\ count'[t] \in Nat
  BY DEF StatsExact, submit_commands, TypeOK
<1>6. CASE t = u
  <2>1. QueuedOf(t)' = QueuedOf(t) \cup new
    BY <1>2, <1>3, <1>4, <1>6, QueuedFinite DEF QueuedOf
  <2>2. QueuedOf(t) \subseteq Ids /\ QueuedOf(t) \cap new = {}
    BY <1>2, QueuedFinite DEF QueuedOf
  <2>3. Cardinality(QueuedOf(t) \cup new) =
            Cardinality(QueuedOf(t)) + Cardinality(new) - Cardinality({})
    <3>. HIDE DEF new
    <3>1. IsFiniteSet(QueuedOf(t))
      BY <2>2, QueuedFinite
    <3>. QED  BY <1>5, <2>2, <3>1, FS_Union
  <2>4. Cardinality({}) = 0 /\ Cardinality(QueuedOf(t)) \in Nat
    BY <2>2, QueuedFinite, FS_EmptySet
  <2>5. count'[t] = count[t] + k
    BY <1>6 DEF submit_commands, TypeOK
  <2>. QED  BY <1>1, <1>5, <2>1, <2>3, <2>4, <2>5 DEF StatsExact
<1>7. CASE t # u
  <2>1. QueuedOf(t)' = QueuedOf(t)
    BY <1>2, <1>3, <1>4, <1>7, QueuedFinite DEF QueuedOf
  <2>2. count'[t] = count[t]
    BY <1>7 DEF submit_commands, TypeOK
  <2>. QED  BY <2>1, <2>2 DEF StatsExact, TypeOK
<1>. QED  BY <1>6, <1>7

-----------------------------------------------------------------------------
(* Every step preserves the invariant, one lemma per kind of step.          *)

\* What the invariant says of the active queue and of the command the tick
\* is visiting.
LEMMA ActiveFacts ==
    ASSUME TypeOK
    PROVE  /\ active \in Seq(Ids)
           /\ Len(active) \in Nat
           /\ InActive \subseteq Ids
           /\ InActive = Elems(active)
           /\ \A i \in 1..Len(active) : active[i] \in InActive
           /\ pos > 0 => pos \in 1..Len(active) /\ Current \in InActive
<1>1. active \in Seq(Ids) /\ pos \in 0..Len(active)
  BY DEF TypeOK
<1>2. Len(active) \in Nat /\ \A i \in 1..Len(active) : active[i] \in Ids
  BY <1>1, LenProperties
<1>3. pos > 0 => pos \in 1..Len(active)
  BY <1>1, <1>2
<1>. QED  BY <1>1, <1>2, <1>3 DEF InActive, Elems, Current

\* The orchestrator starts with empty queues, which satisfy the invariant.
LEMMA InitInv == Init => IInv
<1>. SUFFICES ASSUME Init PROVE IInv
  OBVIOUS
<1>1. Len(active) = 0 /\ active \in Seq(Ids) /\ 1..Len(active) = {}
  BY DEF Init
<1>2. InActive = {} /\ Queued = {}
  BY <1>1 DEF Init, InActive, Queued
<1>3. TypeOK
  BY <1>1, TypesAssumption, BoundAssumption DEF Init, TypeOK
<1>4. QueuedOnce /\ PendingNeedsEm /\ Visiting /\ ProgressHasCmd /\ ChainInOrder
  BY <1>1, <1>2 DEF Init, QueuedOnce, PendingNeedsEm, Visiting, ProgressHasCmd, ChainInOrder
<1>5. OneCommandPerEm
  BY <1>1, <1>2 DEF Init, OneCommandPerEm
<1>6. StatsExact
  <2>1. \A t \in Types : QueuedOf(t) = {} /\ count[t] = 0
    BY <1>2 DEF QueuedOf, Init
  <2>. QED  BY <2>1, FS_EmptySet DEF StatsExact
<1>. QED  BY <1>3, <1>4, <1>5, <1>6 DEF IInv

\* submit_commands and push_stats keep the invariant.
LEMMA EventStep ==
    ASSUME IInv, NEW ev \in Events, NEW S \in Candidates[ev], HandleEvent(ev, S)
    PROVE  IInv'
<1>. USE DEF HandleEvent
<1>. DEFINE new == (next + 1)..(next + ChainLen[ev])
            k == ChainLen[ev]
<1>1. /\ TypeOK
      /\ next \in Nat /\ k \in Nat /\ MaxCmds \in Nat /\ next + k <= MaxCmds
      /\ CmdType[ev] \in Types
      /\ S \subseteq Ems /\ S # {}
      /\ CmdType[ev] = ConfigType => \E e \in Ems : S = {e}
  <2>1. TypeOK /\ next \in 0..MaxCmds /\ MaxCmds \in Nat /\ next + k <= MaxCmds
    BY BoundAssumption DEF IInv, TypeOK
  <2>2. CmdType[ev] \in Types /\ k \in Nat /\ S \subseteq Ems /\ S # {}
    BY EventsAssumption
  <2>3. CmdType[ev] = ConfigType => \E e \in Ems : S = {e}
    BY ConfigAssumption
  <2>. QED  BY <2>1, <2>2, <2>3
<1>2. new \subseteq Ids /\ (\A c \in new : c > next /\ c <= next + k) /\ \A c \in Queued : c \notin new
  BY <1>1, QueuedFinite DEF IInv, QueuedOnce, Ids
<1>3. /\ next' = next + k
      /\ pending' = pending \cup new
      /\ active' = active /\ InActive' = InActive
      /\ Queued' = Queued \cup new
      /\ orch' = orch /\ emCmd' = emCmd /\ pos' = pos /\ todo' = todo /\ ret' = ret
      /\ age' = age /\ time' = time
  BY DEF submit_commands, Queued, InActive, tick, emState
<1>4. /\ \A c \in new : type'[c] = CmdType[ev] /\ cand'[c] = S
      /\ \A c \in Ids : c \notin new => type'[c] = type[c] /\ cand'[c] = cand[c]
      /\ \A c \in Queued : type'[c] = type[c] /\ cand'[c] = cand[c]
  BY <1>1, <1>2, QueuedFinite DEF submit_commands
<1>5. count' \in [Types -> Nat] /\ StatsExact'
  BY <1>1, <1>3, PushKeepsStats DEF IInv, QueuedOnce
<1>6. TypeOK'
  <2>1. type' \in [Ids -> Types] /\ cand' \in [Ids -> SUBSET Ems] /\ batch' \in [Ids -> Nat]
    <3>1. type' \in [Ids -> Types]
      BY <1>1 DEF submit_commands, TypeOK
    <3>2. cand' \in [Ids -> SUBSET Ems]
      BY <1>1 DEF submit_commands, TypeOK
    <3>3. batch' \in [Ids -> Nat]
      BY <1>1 DEF submit_commands, TypeOK
    <3>. QED  BY <3>1, <3>2, <3>3
  <2>2. next' \in 0..MaxCmds /\ pending' \subseteq Ids
    BY <1>1, <1>2, <1>3 DEF TypeOK
  <2>. QED  BY <1>1, <1>3, <1>5, <2>1, <2>2 DEF TypeOK
<1>7. QueuedOnce'
  <2>1. \A c \in Queued' : c <= next'
    BY <1>1, <1>2, <1>3, QueuedFinite DEF IInv, QueuedOnce, Ids
  <2>2. pending' \cap InActive' = {}
    BY <1>2, <1>3 DEF IInv, QueuedOnce, Queued
  <2>. QED  BY <1>3, <2>1, <2>2 DEF IInv, QueuedOnce
<1>8. PendingNeedsEm'
  BY <1>1, <1>3, <1>4 DEF IInv, PendingNeedsEm, Queued
<1>9. \A i \in 1..Len(active) : cand'[active[i]] = cand[active[i]]
  BY <1>1, <1>4, ActiveFacts DEF Queued
<1>. HIDE DEF HandleEvent, new, k
<1>10. Visiting' /\ OneCommandPerEm' /\ ProgressHasCmd'
  <2>1. Visiting'
    BY <1>1, <1>3, <1>9, ActiveFacts DEF IInv, Visiting
  <2>2. \A c \in InActive : cand'[c] = cand[c]
    BY <1>4 DEF Queued
  <2>3. OneCommandPerEm'
    BY <1>1, <1>3, <1>9, <2>2 DEF IInv, OneCommandPerEm
  <2>4. ProgressHasCmd'
    BY <1>1, <1>3, <2>2 DEF IInv, ProgressHasCmd
  <2>. QED  BY <2>1, <2>3, <2>4
<1>11. ChainInOrder'
  <2>. SUFFICES ASSUME NEW c \in pending', NEW d \in InActive', c < d
                PROVE  ~(cand'[c] \subseteq cand'[d])
    BY DEF ChainInOrder
  <2>1. d \in Queued /\ d <= next
    BY <1>3 DEF IInv, QueuedOnce, Queued
  <2>2. d \in Nat /\ c \in Nat
    <3>1. d \in Ids /\ c \in Ids
      BY <1>1, <1>2, <1>3, <2>1, QueuedFinite DEF TypeOK
    <3>. QED  BY <3>1 DEF Ids
  <2>3. c \notin new
    BY <1>1, <1>2, <2>1, <2>2 DEF k
  <2>4. c \in pending
    BY <1>3, <2>3
  <2>. QED  BY <1>3, <1>4, <2>1, <2>4 DEF IInv, ChainInOrder, Queued
<1>. QED  BY <1>5, <1>6, <1>7, <1>8, <1>10, <1>11 DEF IInv

\* The promotion of a command by handle_timeout keeps the invariant.
LEMMA PromoteStep ==
    ASSUME IInv, NEW c \in Ids, TickPromote(c)
    PROVE  IInv'
<1>. USE DEF TickPromote
<1>1. /\ TypeOK /\ c \in pending /\ c \notin InActive
      /\ eligible_for_active(c)
      /\ pending' = pending \ {c}
      /\ next' = next /\ type' = type /\ cand' = cand /\ batch' = batch
      /\ count' = count /\ time' = time /\ emCmd' = emCmd
  BY DEF IInv, QueuedOnce, Promotable
<1>2. /\ active' \in Seq(Ids)
      /\ Len(active') = Len(active) + 1
      /\ Elems(active') = Elems(active) \cup {c}
      /\ \A i \in 1..Len(active) : active'[i] = active[i]
      /\ active'[Len(active) + 1] = c
  BY <1>1, ActiveFacts, ElemsAppend
<1>3. InActive' = InActive \cup {c} /\ Queued' = Queued
  BY <1>1, <1>2, ActiveFacts DEF InActive, Elems, Queued
<1>4. 1..Len(active') = (1..Len(active)) \cup {Len(active) + 1} /\ Len(active) \in Nat
  BY <1>1, <1>2, ActiveFacts
<1>5. TypeOK'
  <2>1. orch' \in [Ems -> {"idle", "pending", "progress", "fini"}]
    BY <1>1 DEF TypeOK
  <2>2. age' \in [Ids -> Nat]
    BY <1>1 DEF TypeOK
  <2>3. pos' = 1 /\ todo' = cand[active'[1]] /\ ret' = TRUE /\ active'[1] \in Ids
    BY <1>2, <1>4 DEF VisitFrom
  <2>4. pos' \in 0..Len(active') /\ todo' \subseteq Ems /\ ret' \in BOOLEAN
    BY SMTT(30), <1>1, <1>2, <1>4, <2>3 DEF TypeOK
  <2>. QED  BY <1>1, <1>2, <2>1, <2>2, <2>4 DEF TypeOK
<1>6. QueuedOnce'
  <2>1. \A i, j \in 1..Len(active') : i # j => active'[i] # active'[j]
    BY <1>1, <1>2, <1>4, ActiveFacts DEF IInv, QueuedOnce
  <2>. QED  BY <1>1, <1>3, <2>1 DEF IInv, QueuedOnce
<1>7. PendingNeedsEm'
  BY <1>1 DEF IInv, PendingNeedsEm
<1>8. Visiting'
  BY <1>1, <1>2, <1>4 DEF Visiting, VisitFrom
<1>9. \A e \in cand[c] : orch[e] = "idle" /\ \A d \in InActive : e \notin cand[d]
  <2>1. cand[c] \subseteq Ems
    BY <1>1 DEF TypeOK
  <2>. QED  BY <1>1, <2>1 DEF eligible_for_active, IInv, OneCommandPerEm
<1>10. OneCommandPerEm'
  <2>1. ASSUME NEW i \in 1..Len(active'), NEW j \in 1..Len(active'), i # j
        PROVE  cand'[active'[i]] \cap cand'[active'[j]] = {}
    <3>1. CASE i \in 1..Len(active) /\ j \in 1..Len(active)
      BY <1>1, <1>2, <2>1, <3>1 DEF IInv, OneCommandPerEm
    <3>2. CASE i = Len(active) + 1 /\ j \in 1..Len(active)
      BY <1>1, <1>2, <1>9, <3>2, ActiveFacts
    <3>3. CASE j = Len(active) + 1 /\ i \in 1..Len(active)
      BY <1>1, <1>2, <1>9, <3>3, ActiveFacts
    <3>. QED  BY <1>4, <2>1, <3>1, <3>2, <3>3
  <2>2. \A e \in Ems : orch'[e] # "idle" <=> \E d \in InActive' : e \in cand'[d]
    BY <1>1, <1>3, <1>9 DEF IInv, OneCommandPerEm
  <2>. QED  BY <2>1, <2>2 DEF OneCommandPerEm
<1>11. ProgressHasCmd'
  BY <1>1, <1>3 DEF IInv, ProgressHasCmd
<1>12. ChainInOrder'
  <2>. SUFFICES ASSUME NEW b \in pending', NEW d \in InActive', b < d
                PROVE  ~(cand[b] \subseteq cand[d])
    BY <1>1 DEF ChainInOrder
  <2>1. CASE d = c
    <3>1. b \in pending /\ ~(c <= b)
      <4>1. b \in pending /\ b \in Ids /\ c \in Ids
        BY <1>1 DEF TypeOK
      <4>. QED  BY <2>1, <4>1 DEF Ids
    <3>2. ~eligible_for_active(b)
      BY <3>1 DEF Promotable
    <3>. QED  BY <1>1, <2>1, <3>2 DEF eligible_for_active
  <2>2. CASE d # c
    BY <1>1, <1>3, <2>2 DEF IInv, ChainInOrder
  <2>. QED  BY <2>1, <2>2
<1>13. StatsExact'
  BY <1>1, <1>3 DEF IInv, StatsExact, QueuedOf
<1>. QED  BY <1>5, <1>6, <1>7, <1>8, <1>10, <1>11, <1>12, <1>13 DEF IInv

\* A tick that promotes nothing, and going on to the next active command,
\* keep the invariant.
LEMMA NoPromoteStep ==
    ASSUME IInv, TickNoPromote \/ VisitNext
    PROVE  IInv'
<1>. USE DEF queues, stats, emState
<1>1. /\ TypeOK
      /\ next' = next /\ pending' = pending /\ active' = active /\ type' = type
      /\ cand' = cand /\ batch' = batch /\ age' = age /\ count' = count
      /\ time' = time /\ orch' = orch /\ emCmd' = emCmd
  BY DEF IInv, TickNoPromote, VisitNext
<1>2. PICK i \in Nat \ {0} : VisitFrom(active, cand, i)
  BY <1>1 DEF TickNoPromote, VisitNext, TypeOK
<1>3. InActive' = InActive /\ Queued' = Queued
  BY <1>1 DEF InActive, Queued
<1>4. i <= Len(active) => i \in 1..Len(active) /\ active[i] \in Ids
  BY <1>1, ActiveFacts
<1>5. pos' \in 0..Len(active) /\ todo' \subseteq Ems /\ ret' \in BOOLEAN
  BY <1>1, <1>2, <1>4, ActiveFacts DEF VisitFrom, TypeOK
<1>6. Visiting'
  BY <1>1, <1>2 DEF VisitFrom, Visiting
<1>7. TypeOK'
  BY <1>1, <1>5 DEF TypeOK
<1>8. QueuedOnce' /\ PendingNeedsEm' /\ OneCommandPerEm' /\ ProgressHasCmd' /\ ChainInOrder'
  BY <1>1, <1>3
  DEF IInv, QueuedOnce, PendingNeedsEm, OneCommandPerEm, ProgressHasCmd, ChainInOrder
<1>9. StatsExact'
  BY <1>1, <1>3 DEF IInv, StatsExact, QueuedOf
<1>. QED  BY <1>6, <1>7, <1>8, <1>9 DEF IInv

\* orchestrate, without a cancellation: the queues stay, and one em may move
\* from pending to progress, or from progress to fini.
LEMMA OrchestrateStep ==
    ASSUME IInv, NEW e \in Ems,
           Execute(e) \/ Finish(e) \/ Finished(e) \/ Wait(e) \/ Hold(e)
    PROVE  IInv'
<1>. USE DEF queues, stats, emState
<1>1. /\ TypeOK
      /\ next' = next /\ pending' = pending /\ active' = active /\ type' = type
      /\ cand' = cand /\ batch' = batch /\ count' = count
      /\ pos > 0 /\ pos' = pos /\ e \in todo /\ todo' = todo \ {e}
  BY DEF IInv, Execute, Finish, Finished, Wait, Hold, Visited
<1>2. /\ pos \in 1..Len(active) /\ Current \in InActive /\ InActive \subseteq Ids
      /\ Current = active[pos] /\ type[Current] \in Types
  BY <1>1, ActiveFacts DEF Current, TypeOK
<1>3. InActive' = InActive /\ Queued' = Queued
  BY <1>1 DEF InActive, Queued
<1>4. e \in cand[Current] /\ orch[e] # "idle"
  BY <1>1, <1>2 DEF IInv, Visiting, OneCommandPerEm
<1>5. age' \in [Ids -> Nat] /\ time' \in [Types -> Nat]
  <2>1. CASE Execute(e) \/ Finish(e) \/ Finished(e)
    BY <1>1, <2>1 DEF Execute, Finish, Finished, TypeOK
  <2>2. CASE Wait(e)
    BY <1>1, <1>2, <2>2 DEF Wait, update_stats, TypeOK
  <2>3. CASE Hold(e)
    BY <1>1, <1>2, <2>3 DEF Hold, TypeOK
  <2>. QED  BY <2>1, <2>2, <2>3
<1>6. \/ orch' = orch /\ emCmd' = emCmd
      \/ /\ orch' = [orch EXCEPT ![e] = "progress"]
         /\ emCmd' = [emCmd EXCEPT ![e] = Current]
      \/ orch' = [orch EXCEPT ![e] = "fini"] /\ emCmd' = emCmd
  BY DEF Execute, Finish, Finished, Wait, Hold
<1>7. /\ orch' \in [Ems -> {"idle", "pending", "progress", "fini"}]
      /\ emCmd' \in [Ems -> Ids \cup {NoCmd}]
      /\ ret' \in BOOLEAN
  <2>1. orch' \in [Ems -> {"idle", "pending", "progress", "fini"}]
    BY <1>1, <1>6 DEF TypeOK
  <2>2. emCmd' \in [Ems -> Ids \cup {NoCmd}]
    BY <1>1, <1>2, <1>6 DEF TypeOK
  <2>3. ret' \in BOOLEAN
    BY DEF Execute, Finish, Finished, Wait, Hold, Visited
  <2>. QED  BY <2>1, <2>2, <2>3
<1>8. TypeOK'
  BY <1>1, <1>5, <1>7 DEF TypeOK
<1>9. QueuedOnce' /\ PendingNeedsEm' /\ ChainInOrder'
  BY <1>1, <1>3 DEF IInv, QueuedOnce, PendingNeedsEm, ChainInOrder
<1>10. StatsExact'
  BY <1>1, <1>3 DEF IInv, StatsExact, QueuedOf
<1>11. \A f \in Ems : orch'[f] # "idle" <=> orch[f] # "idle"
  BY <1>1, <1>4, <1>6 DEF TypeOK
<1>12. OneCommandPerEm'
  BY <1>1, <1>3, <1>11 DEF IInv, OneCommandPerEm
<1>13. ProgressHasCmd'
  <2>. SUFFICES ASSUME NEW f \in Ems, orch'[f] = "progress"
                PROVE  emCmd'[f] \in InActive /\ f \in cand[emCmd'[f]]
    BY <1>1, <1>3 DEF ProgressHasCmd
  <2>1. CASE f = e /\ emCmd' = [emCmd EXCEPT ![e] = Current]
    BY <1>1, <1>2, <1>4, <2>1 DEF TypeOK
  <2>2. CASE orch[f] = "progress" /\ emCmd'[f] = emCmd[f]
    BY <2>2 DEF IInv, ProgressHasCmd
  <2>. QED  BY <1>1, <1>6, <2>1, <2>2 DEF TypeOK
<1>14. Visiting'
  <2>. SUFFICES ASSUME ret' PROVE \A f \in cand[active[pos]] \ todo' : orch'[f] = "fini"
    BY <1>1 DEF IInv, Visiting
  <2>1. ret /\ orch[e] = "fini" /\ orch' = orch
    BY DEF Execute, Finish, Finished, Wait, Hold, Visited
  <2>. QED  BY <1>1, <2>1 DEF IInv, Visiting
<1>. QED  BY <1>8, <1>9, <1>10, <1>12, <1>13, <1>14 DEF IInv

\* Any cancellation: pending commands D are dropped and busy ems C cancelled.
LEMMA CancelStep ==
    ASSUME IInv, NEW D \in SUBSET pending, NEW C \in SUBSET Ems,
           \A e \in C : orch[e] # "idle",
           DropPending(D), orch' = Cancelled(C), time' \in [Types -> Nat],
           pos' = pos, todo' \subseteq todo, ret' \in BOOLEAN,
           ret' => ret /\ todo' = todo
    PROVE  IInv'
<1>1. /\ TypeOK
      /\ pending' = pending \ D /\ count' = PopCount(D)
      /\ next' = next /\ active' = active /\ type' = type /\ batch' = batch
      /\ age' = age /\ emCmd' = emCmd
  BY DEF IInv, DropPending
<1>2. /\ InActive' = InActive /\ D \subseteq Queued /\ D \cap InActive = {}
      /\ Queued' = Queued \ D
  BY <1>1 DEF IInv, QueuedOnce, InActive, Queued
<1>3. /\ \A c \in Ids : c \notin D => cand'[c] = cand[c]
      /\ \A c \in InActive : cand'[c] = cand[c]
      /\ \A c \in pending' : cand'[c] = cand[c]
      /\ cand' \in [Ids -> SUBSET Ems]
  <2>1. InActive \subseteq Ids /\ pending' \subseteq Ids
    BY <1>1, ActiveFacts DEF TypeOK
  <2>. QED  BY <1>1, <1>2, <2>1 DEF DropPending, TypeOK
<1>4. StatsExact' /\ count' \in [Types -> Nat]
  BY <1>1, <1>2, PopKeepsStats DEF IInv
<1>5. orch' \in [Ems -> {"idle", "pending", "progress", "fini"}]
  BY <1>1 DEF Cancelled, TypeOK
<1>6. TypeOK'
  BY <1>1, <1>3, <1>4, <1>5 DEF TypeOK
<1>7. QueuedOnce' /\ PendingNeedsEm'
  BY <1>1, <1>2, <1>3 DEF IInv, QueuedOnce, PendingNeedsEm
<1>8. ChainInOrder'
  BY <1>1, <1>2, <1>3 DEF IInv, ChainInOrder
<1>9. \A e \in Ems : orch'[e] # "idle" <=> orch[e] # "idle"
  BY DEF Cancelled
<1>10. \A i \in 1..Len(active) : cand'[active[i]] = cand[active[i]]
  BY <1>1, <1>3, ActiveFacts
<1>11. OneCommandPerEm'
  BY <1>1, <1>2, <1>3, <1>9, <1>10 DEF IInv, OneCommandPerEm
<1>12. ProgressHasCmd'
  BY <1>1, <1>2, <1>3 DEF IInv, ProgressHasCmd, Cancelled
<1>13. Visiting'
  <2>. SUFFICES ASSUME pos > 0
                PROVE  /\ todo' \subseteq cand'[active'[pos]]
                       /\ ret' => \A e \in cand'[active'[pos]] \ todo' : orch'[e] = "fini"
    BY DEF Visiting
  <2>1. pos \in 1..Len(active) /\ active'[pos] = active[pos] /\ cand'[active[pos]] = cand[active[pos]]
    BY <1>1, <1>10, ActiveFacts
  <2>2. cand[active[pos]] \subseteq Ems
    BY <1>1, <2>1, ActiveFacts DEF TypeOK
  <2>. QED  BY <2>1, <2>2 DEF IInv, Visiting, Cancelled
<1>. QED  BY <1>4, <1>6, <1>7, <1>8, <1>11, <1>12, <1>13 DEF IInv

\* The ems that run commands of one type are busy.
LEMMA RunningBusy ==
    ASSUME IInv, NEW t \in Types
    PROVE  /\ Running(t) \in SUBSET Ems
           /\ \A e \in Running(t) : orch[e] # "idle"
<1>1. TypeOK /\ InActive \subseteq Ids
  BY ActiveFacts DEF IInv
<1>2. \A c \in InActive : cand[c] \subseteq Ems
  BY <1>1 DEF TypeOK
<1>. QED  BY <1>2 DEF Running, IInv, OneCommandPerEm

\* cancel_command(type) keeps the invariant.
LEMMA CancelCommandStep ==
    ASSUME IInv, NEW e \in Ems, cancel_command(e) \/ cancel_command_radios(e)
    PROVE  IInv'
<1>1. /\ TypeOK /\ ConfigType \in Types
      /\ pos > 0 /\ pos' = pos /\ todo' \subseteq todo /\ ret' = FALSE
  BY TypesAssumption DEF IInv, cancel_command, cancel_command_radios, Visited
<1>2. Current \in Ids /\ type[Current] \in Types
  BY <1>1, ActiveFacts DEF TypeOK
<1>3. CASE cancel_command(e)
  <2>. DEFINE D == {c \in pending : type[c] = type[Current]}
              C == Running(type[Current])
  <2>1. time' \in [Types -> Nat]
    BY <1>1, <1>2, <1>3 DEF cancel_command, update_stats, TypeOK
  <2>2. D \in SUBSET pending /\ DropPending(D) /\ orch' = Cancelled(C)
    BY <1>3 DEF cancel_command
  <2>3. C \in SUBSET Ems /\ \A f \in C : orch[f] # "idle"
    BY <1>2, RunningBusy
  <2>. HIDE DEF D, C
  <2>. QED  BY <1>1, <2>1, <2>2, <2>3, CancelStep
<1>4. CASE cancel_command_radios(e)
  <2>. DEFINE D == {c \in pending : type[c] = ConfigType /\ cand[c] \subseteq Siblings[e]}
              C == Siblings[e] \cap Running(ConfigType)
  <2>1. time' \in [Types -> Nat]
    BY <1>1, <1>4 DEF cancel_command_radios, WithdrawConfig, TypeOK
  <2>2. D \in SUBSET pending /\ DropPending(D) /\ orch' = Cancelled(C)
    BY <1>4 DEF cancel_command_radios, WithdrawConfig
  <2>3. C \in SUBSET Ems /\ \A f \in C : orch[f] # "idle"
    BY <1>1, RunningBusy
  <2>. HIDE DEF D, C
  <2>. QED  BY <1>1, <2>1, <2>2, <2>3, CancelStep
<1>. QED  BY <1>3, <1>4

\* The withdrawal of em_config commands by an em thread, at any point of the
\* tick, keeps the invariant.
LEMMA RemoveConfigStep ==
    ASSUME IInv, NEW e \in Ems, remove_em_config_cmd_for_em(e)
    PROVE  IInv'
<1>. DEFINE D == {c \in pending : type[c] = ConfigType /\ cand[c] \subseteq {e}}
            C == {e} \cap Running(ConfigType)
<1>1. TypeOK /\ ConfigType \in Types /\ ret \in BOOLEAN
  BY TypesAssumption DEF IInv, TypeOK
<1>2. pos' = pos /\ todo' = todo /\ ret' = ret
  BY DEF remove_em_config_cmd_for_em, tick
<1>3. time' \in [Types -> Nat]
  BY <1>1 DEF remove_em_config_cmd_for_em, WithdrawConfig, TypeOK
<1>4. D \in SUBSET pending /\ DropPending(D) /\ orch' = Cancelled(C)
  BY DEF remove_em_config_cmd_for_em, WithdrawConfig
<1>5. C \in SUBSET Ems /\ \A f \in C : orch[f] # "idle"
  BY <1>1, RunningBusy
<1>. HIDE DEF D, C
<1>. QED  BY <1>1, <1>2, <1>3, <1>4, <1>5, CancelStep

\* The completion of a command by handle_timeout keeps the invariant.
LEMMA CompleteStep ==
    ASSUME IInv, Complete
    PROVE  IInv'
<1>. DEFINE cur == Current
<1>1. /\ TypeOK /\ pos > 0 /\ pos \in 1..Len(active) /\ cur = active[pos]
      /\ cur \in InActive /\ cur \in Ids /\ cur \notin pending
      /\ active \in Seq(Ids) /\ Len(active) \in Nat
  BY ActiveFacts DEF IInv, Complete, QueuedOnce, Current
<1>. HIDE DEF cur
<1>2. /\ next' = next /\ pending' = pending /\ type' = type /\ batch' = batch /\ age' = age
      /\ active' = RemoveAt(active, pos)
      /\ count' = PopCount({cur}) /\ time' = PopTime({cur})
      /\ cand' = [cand EXCEPT ![cur] = {}]
      /\ orch' = [e \in Ems |-> IF e \in cand[cur] THEN "idle" ELSE orch[e]]
      /\ emCmd' = [e \in Ems |-> IF e \in cand[cur] THEN NoCmd ELSE emCmd[e]]
  BY DEF Complete, cur
<1>3. /\ active' \in Seq(Ids) /\ Len(active') = Len(active) - 1
      /\ \A i, j \in 1..Len(active') : i # j => active'[i] # active'[j]
      /\ Elems(active') = Elems(active) \ {cur}
  <2>1. \A i, j \in 1..Len(active) : i # j => active[i] # active[j]
    BY DEF IInv, QueuedOnce
  <2>2. /\ RemoveAt(active, pos) \in Seq(Ids)
        /\ Len(RemoveAt(active, pos)) = Len(active) - 1
        /\ \A i, j \in 1..(Len(active) - 1) :
              i # j => RemoveAt(active, pos)[i] # RemoveAt(active, pos)[j]
        /\ Elems(RemoveAt(active, pos)) = Elems(active) \ {active[pos]}
    BY <1>1, <2>1, RemoveAtElems
  <2>. QED  BY <1>1, <1>2, <2>2
<1>4. InActive' = InActive \ {cur}
  BY <1>1, <1>3, ActiveFacts DEF InActive, Elems
<1>5. Queued' = Queued \ {cur} /\ {cur} \in SUBSET Queued
  BY <1>1, <1>2, <1>4 DEF Queued
<1>6. /\ \A c \in Ids : c # cur => cand'[c] = cand[c]
      /\ \A c \in InActive' : cand'[c] = cand[c] /\ c # cur /\ c \in InActive
      /\ \A c \in pending : cand'[c] = cand[c]
      /\ cand' \in [Ids -> SUBSET Ems]
  BY <1>1, <1>2, <1>4, ActiveFacts DEF TypeOK
<1>7. StatsExact' /\ count' \in [Types -> Nat]
  BY <1>1, <1>2, <1>5, PopKeepsStats DEF IInv
<1>8. \A i \in 1..Len(active') : active'[i] \in InActive' /\ active'[i] \in Ids
  BY <1>3 DEF InActive
<1>9. /\ orch' \in [Ems -> {"idle", "pending", "progress", "fini"}]
      /\ emCmd' \in [Ems -> Ids \cup {NoCmd}]
      /\ time' \in [Types -> Nat]
  BY <1>1, <1>2 DEF TypeOK, PopTime
<1>10. VisitFrom(active', cand, pos)
  BY DEF Complete
<1>11. pos' \in 0..Len(active') /\ todo' \subseteq Ems /\ ret' \in BOOLEAN
  <2>1. pos <= Len(active') => pos \in 1..Len(active') /\ cand[active'[pos]] \subseteq Ems
    <3>1. pos <= Len(active') => pos \in 1..Len(active')
      BY <1>1, <1>3
    <3>2. \A c \in Ids : cand[c] \subseteq Ems
      BY <1>1 DEF TypeOK
    <3>. QED  BY <1>8, <3>1, <3>2
  <2>2. Len(active') \in Nat
    BY <1>3, LenProperties
  <2>. QED  BY <1>1, <1>10, <2>1, <2>2 DEF VisitFrom
<1>12. TypeOK'
  BY <1>1, <1>2, <1>3, <1>6, <1>7, <1>9, <1>11 DEF TypeOK
<1>13. QueuedOnce' /\ PendingNeedsEm' /\ ChainInOrder'
  <2>1. QueuedOnce'
    BY <1>2, <1>3, <1>4, <1>5 DEF IInv, QueuedOnce
  <2>2. PendingNeedsEm'
    BY <1>2, <1>6 DEF IInv, PendingNeedsEm
  <2>3. ChainInOrder'
    BY <1>2, <1>6 DEF IInv, ChainInOrder
  <2>. QED  BY <2>1, <2>2, <2>3
<1>14. Visiting'
  <2>1. pos' > 0 => pos' \in 1..Len(active') /\ todo' = cand[active'[pos']]
    BY <1>1, <1>3, <1>10 DEF VisitFrom
  <2>. QED  BY <1>6, <1>8, <2>1 DEF Visiting
<1>15. \A c \in InActive' : cand[c] \cap cand[cur] = {}
  <2>1. ASSUME NEW c \in InActive' PROVE cand[c] \cap cand[cur] = {}
    <3>1. PICK i \in 1..Len(active) : c = active[i]
      BY <1>6 DEF InActive
    <3>. QED  BY <1>1, <1>6, <3>1 DEF IInv, OneCommandPerEm
  <2>. QED  BY <2>1
<1>16. OneCommandPerEm'
  <2>1. ASSUME NEW i \in 1..Len(active'), NEW j \in 1..Len(active'), i # j
        PROVE  cand'[active'[i]] \cap cand'[active'[j]] = {}
    <3>1. active'[i] # active'[j] /\ active'[i] \in InActive' /\ active'[j] \in InActive'
      BY <1>3, <1>8, <2>1
    <3>2. PICK m \in 1..Len(active) : active'[i] = active[m]
      BY <1>6, <3>1 DEF InActive
    <3>3. PICK n \in 1..Len(active) : active'[j] = active[n]
      BY <1>6, <3>1 DEF InActive
    <3>. QED  BY SMTT(30), <1>6, <3>1, <3>2, <3>3 DEF IInv, OneCommandPerEm
  <2>2. \A e \in Ems : orch'[e] # "idle" <=> \E c \in InActive' : e \in cand'[c]
    BY <1>1, <1>2, <1>4, <1>6, <1>15 DEF IInv, OneCommandPerEm
  <2>. QED  BY <2>1, <2>2 DEF OneCommandPerEm
<1>17. ProgressHasCmd'
  <2>. SUFFICES ASSUME NEW e \in Ems, orch'[e] = "progress"
                PROVE  emCmd'[e] \in InActive' /\ e \in cand'[emCmd'[e]]
    BY DEF ProgressHasCmd
  <2>1. e \notin cand[cur] /\ orch[e] = "progress" /\ emCmd'[e] = emCmd[e]
    BY <1>2
  <2>2. emCmd[e] \in InActive /\ e \in cand[emCmd[e]]
    BY <2>1 DEF IInv, ProgressHasCmd
  <2>. QED  BY <1>4, <1>6, <2>1, <2>2
<1>. QED  BY <1>7, <1>12, <1>13, <1>14, <1>16, <1>17 DEF IInv

\* Time keeps the invariant.
LEMMA SecondStep ==
    ASSUME IInv, Second \/ UNCHANGED vars
    PROVE  IInv'
<1>1. /\ TypeOK
      /\ next' = next /\ pending' = pending /\ active' = active /\ type' = type
      /\ cand' = cand /\ batch' = batch /\ count' = count /\ time' = time
      /\ orch' = orch /\ emCmd' = emCmd /\ pos' = pos /\ todo' = todo /\ ret' = ret
  BY DEF IInv, Second, vars, queues, stats, emState, tick
<1>2. age' \in [Ids -> Nat]
  <2>1. CASE Second
    BY <1>1, <2>1 DEF Second, TypeOK
  <2>2. CASE UNCHANGED vars
    BY <1>1, <2>2 DEF vars, stats, TypeOK
  <2>. QED  BY <2>1, <2>2
<1>3. InActive' = InActive /\ Queued' = Queued
  BY <1>1 DEF InActive, Queued
<1>4. TypeOK'
  BY <1>1, <1>2 DEF TypeOK
<1>5. QueuedOnce' /\ PendingNeedsEm' /\ OneCommandPerEm' /\ ProgressHasCmd' /\ ChainInOrder'
  BY <1>1, <1>3
  DEF IInv, QueuedOnce, PendingNeedsEm, OneCommandPerEm, ProgressHasCmd, ChainInOrder
<1>6. Visiting'
  BY <1>1 DEF IInv, Visiting
<1>7. StatsExact'
  BY <1>1, <1>3 DEF IInv, StatsExact, QueuedOf
<1>. QED  BY <1>4, <1>5, <1>6, <1>7 DEF IInv

-----------------------------------------------------------------------------
(* The theorems.                                                            *)

\* Every step of the orchestrator keeps the invariant.
LEMMA StepInv == IInv /\ [Next]_vars => IInv'
<1>. SUFFICES ASSUME IInv, [Next]_vars PROVE IInv'
  OBVIOUS
<1>1. ASSUME NEW ev \in Events, NEW S \in Candidates[ev], HandleEvent(ev, S) PROVE IInv'
  BY <1>1, EventStep
<1>2. ASSUME NEW c \in Ids, TickPromote(c) PROVE IInv'
  BY <1>2, PromoteStep
<1>3. CASE TickNoPromote \/ VisitNext
  BY <1>3, NoPromoteStep
<1>4. ASSUME NEW e \in Ems,
             Execute(e) \/ Finish(e) \/ Finished(e) \/ Wait(e) \/ Hold(e)
      PROVE  IInv'
  BY <1>4, OrchestrateStep
<1>5. ASSUME NEW e \in Ems, cancel_command(e) \/ cancel_command_radios(e) PROVE IInv'
  BY <1>5, CancelCommandStep
<1>6. CASE Complete
  BY <1>6, CompleteStep
<1>7. ASSUME NEW e \in Ems, remove_em_config_cmd_for_em(e) PROVE IInv'
  BY <1>7, RemoveConfigStep
<1>8. CASE Second \/ UNCHANGED vars
  BY <1>8, SecondStep
<1>. QED  BY <1>1, <1>2, <1>3, <1>4, <1>5, <1>6, <1>7, <1>8 DEF Next, handle_timeout, Visit

\* The invariant holds in every reachable state.
LEMMA Invariance == Spec => []IInv
<1>. QED  BY InitInv, StepInv, PTL DEF Spec

\* The fields of the orchestrator, its commands and its ems keep their types.
THEOREM TypeCorrect == Spec => []TypeOK
<1>1. IInv => TypeOK
  BY DEF IInv
<1>. QED  BY <1>1, Invariance, PTL

\* For any number of ems, commands and command types, m_cmd_map counts the
\* queued commands: the assert(stats != NULL) of update_stats cannot fail.
THEOREM StatsAreExact == Spec => []StatsExact
<1>1. IInv => StatsExact
  BY DEF IInv
<1>. QED  BY <1>1, Invariance, PTL

\* No em is ever shared by two active commands.
THEOREM EmsAreExclusive == Spec => []OneCommandPerEm
<1>1. IInv => OneCommandPerEm
  BY DEF IInv
<1>. QED  BY <1>1, Invariance, PTL

\* An em in progress always has a live command that lists it as candidate.
THEOREM ProgressIsBacked == Spec => []ProgressHasCmd
<1>1. IInv => ProgressHasCmd
  BY DEF IInv
<1>. QED  BY <1>1, Invariance, PTL

\* The commands of a chain become active in the order of submission.
THEOREM ChainsInOrder == Spec => []ChainInOrder
<1>1. IInv => ChainInOrder
  BY DEF IInv
<1>. QED  BY <1>1, Invariance, PTL

\* The step that ReleasedTogether speaks of.
ReleaseStep(e) ==
    orch[e] = "fini" /\ orch'[e] # "fini" =>
        \E c \in InActive :
            /\ e \in cand[c]
            /\ \A f \in cand[c] : orch[f] = "fini" /\ orch'[f] = "idle"

\* A step that takes an em out of fini is the completion of its command.
LEMMA ReleaseStepHolds ==
    ASSUME IInv, [Next]_vars, NEW e \in Ems
    PROVE  ReleaseStep(e)
<1>. SUFFICES ASSUME orch[e] = "fini", orch'[e] # "fini"
              PROVE  \E c \in InActive :
                        /\ e \in cand[c]
                        /\ \A f \in cand[c] : orch[f] = "fini" /\ orch'[f] = "idle"
  BY DEF ReleaseStep
<1>1. CASE Complete
  <2>1. TypeOK /\ pos > 0 /\ pos \in 1..Len(active) /\ Current \in InActive /\ Current = active[pos]
    BY <1>1, ActiveFacts DEF IInv, Complete, Current
  <2>2. cand[Current] \subseteq Ems
    BY <2>1, ActiveFacts DEF TypeOK
  <2>3. e \in cand[Current] /\ \A f \in cand[Current] : orch'[f] = "idle"
    BY <1>1, <2>2 DEF Complete
  <2>4. \A f \in cand[Current] : orch[f] = "fini"
    BY <1>1, <2>1 DEF Complete, IInv, Visiting
  <2>. QED  BY <2>1, <2>3, <2>4
<1>2. ASSUME ~Complete PROVE FALSE
  <2>. USE DEF TypeOK, IInv
  <2>1. ASSUME NEW ev \in Events, NEW S \in Candidates[ev], HandleEvent(ev, S) PROVE FALSE
    BY <2>1 DEF HandleEvent, emState
  <2>2. ASSUME NEW c \in Ids, TickPromote(c) PROVE FALSE
    BY <2>2 DEF TickPromote, Promotable, eligible_for_active
  <2>3. CASE TickNoPromote \/ VisitNext \/ Second \/ UNCHANGED vars
    BY <2>3 DEF TickNoPromote, VisitNext, Second, vars, emState
  <2>4. ASSUME NEW f \in Ems,
               Execute(f) \/ Finish(f) \/ Finished(f) \/ Wait(f) \/ Hold(f)
        PROVE  FALSE
    BY <2>4 DEF Execute, Finish, Finished, Wait, Hold, emState
  <2>5. ASSUME NEW f \in Ems, cancel_command(f) \/ cancel_command_radios(f)
                                \/ remove_em_config_cmd_for_em(f)
        PROVE  FALSE
    BY <2>5 DEF cancel_command, cancel_command_radios, remove_em_config_cmd_for_em,
                WithdrawConfig, Cancelled
  <2>. QED  BY <1>2, <2>1, <2>2, <2>3, <2>4, <2>5 DEF Next, handle_timeout, Visit
<1>. QED  BY <1>1, <1>2

\* The candidates of a command become idle together, after the last of them
\* has finished.
THEOREM CandidatesReleasedTogether == Spec => ReleasedTogether
<1>1. IInv /\ [Next]_vars => [\A e \in Ems : ReleaseStep(e)]_vars
  BY ReleaseStepHolds
<1>2. Spec => [][\A e \in Ems : ReleaseStep(e)]_vars
  BY <1>1, Invariance, PTL DEF Spec
<1>. QED  BY <1>2 DEF ReleasedTogether, ReleaseStep

-----------------------------------------------------------------------------
\* Every event that submits commands of a checked type is itself checked,
\* and checked for that type.
GuardsMatch ==
    \A ev \in Checked : \A ev2 \in Events :
        CmdType[ev2] = CmdType[ev] => ev2 \in Checked /\ GuardType[ev2] = CmdType[ev2]

\* A step that submits nothing: commands only leave, or lose candidates.
Shrinks ==
    /\ type' = type /\ batch' = batch
    /\ Queued' \subseteq Queued
    /\ \A c \in Ids : cand'[c] \subseteq cand[c]

\* If every check looks for the right type, no step queues a second chain.
LEMMA OneChainStep ==
    ASSUME GuardsMatch, IInv, OneChainPerCheckedType, [Next]_vars
    PROVE  OneChainPerCheckedType'
<1>1. CASE Shrinks
  <2>1. Queued \subseteq Ids
    BY QueuedFinite DEF IInv
  <2>. QED  BY <1>1, <2>1 DEF Shrinks, OneChainPerCheckedType, QueuedOf
<1>2. ASSUME NEW ev \in Events, NEW S \in Candidates[ev], HandleEvent(ev, S)
      PROVE  OneChainPerCheckedType'
  <2>. DEFINE new == (next + 1)..(next + ChainLen[ev])
  <2>. SUFFICES ASSUME NEW ev2 \in Checked,
                       NEW c \in QueuedOf(CmdType[ev2])', NEW d \in QueuedOf(CmdType[ev2])'
                PROVE  \/ batch'[c] = batch'[d]
                       \/ CmdType[ev2] \in ByRadio /\ cand'[c] \cap cand'[d] = {}
    BY DEF OneChainPerCheckedType
  <2>1. TypeOK /\ Queued \subseteq Ids /\ Queued' = Queued \cup new /\ new \subseteq Ids
    <3>1. TypeOK /\ Queued \subseteq Ids /\ Queued' = Queued \cup new
      BY <1>2, QueuedFinite DEF IInv, HandleEvent, submit_commands, Queued, InActive
    <3>2. next \in Nat /\ ChainLen[ev] \in Nat /\ MaxCmds \in Nat /\ next + ChainLen[ev] <= MaxCmds
      BY <1>2, <3>1, EventsAssumption, BoundAssumption DEF TypeOK, HandleEvent
    <3>3. new \subseteq Ids
      BY <3>2 DEF Ids
    <3>. QED  BY <3>1, <3>3
  <2>2. \A b \in Ids : /\ type'[b] = IF b \in new THEN CmdType[ev] ELSE type[b]
                       /\ batch'[b] = IF b \in new THEN next + 1 ELSE batch[b]
                       /\ cand'[b] = IF b \in new THEN S ELSE cand[b]
    BY <1>2 DEF HandleEvent, submit_commands
  <2>3. CASE CmdType[ev] = CmdType[ev2]
    <3>1. /\ ev \in Checked /\ GuardType[ev] = CmdType[ev] /\ CmdType[ev] \in Types
          /\ ~is_cmd_type_in_progress(ev, S)
      BY <1>2, <2>3, EventsAssumption DEF GuardsMatch, HandleEvent
    <3>2. CASE count[CmdType[ev]] = 0
      <4>1. Cardinality(QueuedOf(CmdType[ev])) = 0
        BY <3>1, <3>2 DEF IInv, StatsExact
      <4>2. IsFiniteSet(QueuedOf(CmdType[ev]))
        BY <2>1, QueuedFinite DEF QueuedOf
      <4>3. QueuedOf(CmdType[ev]) = {}
        BY <4>1, <4>2, FS_EmptySet
      <4>. QED  BY <2>1, <2>2, <2>3, <4>3 DEF QueuedOf
    <3>3. CASE count[CmdType[ev]] # 0
      <4>1. count[CmdType[ev]] > 0
        BY <2>1, <3>1, <3>3 DEF TypeOK
      <4>2. /\ CmdType[ev2] \in ByRadio
            /\ \A b \in QueuedOf(CmdType[ev2]) : S \cap cand[b] = {}
        BY <2>3, <3>1, <4>1 DEF is_cmd_type_in_progress
      <4>3. \A b \in QueuedOf(CmdType[ev2])' : b \in new \/ b \in QueuedOf(CmdType[ev2])
        BY <2>1, <2>2 DEF QueuedOf
      <4>4. c \in Ids /\ d \in Ids
        BY <2>1 DEF QueuedOf
      <4>5. CASE c \in new /\ d \in new
        BY <2>2, <4>4, <4>5
      <4>6. CASE c \in new /\ d \notin new
        BY <2>2, <4>2, <4>3, <4>4, <4>6
      <4>7. CASE c \notin new /\ d \in new
        BY <2>2, <4>2, <4>3, <4>4, <4>7
      <4>8. CASE c \notin new /\ d \notin new
        BY <2>2, <4>3, <4>4, <4>8 DEF OneChainPerCheckedType
      <4>. QED  BY <4>5, <4>6, <4>7, <4>8
    <3>. QED  BY <3>2, <3>3
  <2>4. CASE CmdType[ev] # CmdType[ev2]
    BY <2>1, <2>2, <2>4 DEF QueuedOf, OneChainPerCheckedType
  <2>. QED  BY <2>3, <2>4
<1>3. ASSUME \A ev \in Events : \A S \in Candidates[ev] : ~HandleEvent(ev, S)
      PROVE  Shrinks
  <2>1. ASSUME NEW c \in Ids, TickPromote(c)
        PROVE  Shrinks
    <3>1. c \in pending /\ active' = Append(active, c) /\ active \in Seq(Ids)
      BY <2>1 DEF TickPromote, Promotable, IInv, TypeOK
    <3>2. InActive' = InActive \cup {c}
      BY <3>1, ElemsAppend DEF InActive, Elems
    <3>. QED  BY <2>1, <3>1, <3>2 DEF Shrinks, TickPromote, Queued
  <2>2. CASE TickNoPromote \/ VisitNext \/ Second \/ UNCHANGED vars
    BY <2>2 DEF TickNoPromote, VisitNext, Second, vars, queues, Shrinks, Queued, InActive
  <2>3. ASSUME NEW f \in Ems,
               Execute(f) \/ Finish(f) \/ Finished(f) \/ Wait(f) \/ Hold(f)
        PROVE  Shrinks
    BY <2>3 DEF Execute, Finish, Finished, Wait, Hold, queues, Shrinks, Queued, InActive
  <2>4. ASSUME NEW f \in Ems, cancel_command(f) \/ cancel_command_radios(f)
                                \/ remove_em_config_cmd_for_em(f)
        PROVE  Shrinks
    <3>1. type' = type /\ batch' = batch /\ active' = active /\ pending' \subseteq pending
      BY <2>4 DEF cancel_command, cancel_command_radios, remove_em_config_cmd_for_em,
                  WithdrawConfig, DropPending
    <3>2. \A c \in Ids : cand'[c] \subseteq cand[c]
      BY <2>4 DEF cancel_command, cancel_command_radios, remove_em_config_cmd_for_em,
                  WithdrawConfig, DropPending
    <3>. QED  BY <3>1, <3>2 DEF Shrinks, Queued, InActive
  <2>5. CASE Complete
    <3>1. /\ active \in Seq(Ids) /\ pos \in 1..Len(active)
          /\ \A i, j \in 1..Len(active) : i # j => active[i] # active[j]
      BY <2>5, ActiveFacts DEF IInv, QueuedOnce, Complete
    <3>2. active' = RemoveAt(active, pos) /\ type' = type /\ batch' = batch /\ pending' = pending
      BY <2>5 DEF Complete
    <3>3. InActive' \subseteq InActive
      <4>1. Elems(RemoveAt(active, pos)) = Elems(active) \ {active[pos]}
        BY <3>1, RemoveAtElems
      <4>2. InActive = Elems(active) /\ InActive' = Elems(active')
        BY DEF InActive, Elems
      <4>. QED  BY <3>2, <4>1, <4>2
    <3>4. \A c \in Ids : cand'[c] \subseteq cand[c]
      BY <2>5 DEF Complete, IInv, TypeOK
    <3>. QED  BY <3>2, <3>3, <3>4 DEF Shrinks, Queued
  <2>. QED  BY <1>3, <2>1, <2>2, <2>3, <2>4, <2>5 DEF Next, handle_timeout, Visit
<1>. QED  BY <1>1, <1>2, <1>3

\* Where the guard of every handler looks for the type its commands really
\* have, a checked type is never queued twice.
THEOREM CheckedOnce ==
    ASSUME GuardsMatch
    PROVE  Spec => []OneChainPerCheckedType
<1>1. Init => OneChainPerCheckedType
  <2>. SUFFICES ASSUME Init PROVE Queued = {}
    BY DEF OneChainPerCheckedType, QueuedOf
  <2>1. Len(active) = 0
    BY DEF Init
  <2>. QED  BY <2>1 DEF Init, Queued, InActive
<1>2. IInv /\ OneChainPerCheckedType /\ [Next]_vars => OneChainPerCheckedType'
  BY OneChainStep
<1>. QED  BY <1>1, <1>2, Invariance, PTL DEF Spec

-----------------------------------------------------------------------------
(* The orchestrator implements EmWork: the initial states map to initial    *)
(* states, and every step to a step of EmWork or to a stutter.              *)

\* An em works with exactly the candidates of the active command that names
\* it, and with none when no command does.
LEMMA OwnGroup ==
    ASSUME IInv, NEW e \in Ems
    PROVE  /\ \A c \in InActive : e \in cand[c] => group[e] = cand[c]
           /\ orch[e] = "idle" => group[e] = {}
<1>1. \A c, d \in InActive : e \in cand[c] /\ e \in cand[d] => c = d
  <2>. SUFFICES ASSUME NEW c \in InActive, NEW d \in InActive, e \in cand[c], e \in cand[d]
                PROVE  c = d
    OBVIOUS
  <2>1. PICK i \in 1..Len(active) : c = active[i]
    BY DEF InActive
  <2>2. PICK j \in 1..Len(active) : d = active[j]
    BY DEF InActive
  <2>. QED  BY <2>1, <2>2 DEF IInv, OneCommandPerEm
<1>2. ASSUME NEW c \in InActive, e \in cand[c] PROVE group[e] = cand[c]
  <2>1. {d \in InActive : e \in cand[d]} = {c}
    BY <1>1, <1>2
  <2>2. {cand[d] : d \in {c}} = {cand[c]}
    OBVIOUS
  <2>. QED  BY <2>1, <2>2 DEF group
<1>3. ASSUME orch[e] = "idle" PROVE group[e] = {}
  <2>1. {d \in InActive : e \in cand[d]} = {}
    BY <1>3 DEF IInv, OneCommandPerEm
  <2>. QED  BY <2>1 DEF group
<1>. QED  BY <1>2, <1>3

\* A step that leaves the active commands and their candidates alone leaves
\* the groups alone.
LEMMA SameGroups ==
    ASSUME InActive' = InActive, \A c \in InActive : cand'[c] = cand[c]
    PROVE  group' = group
<1>. SUFFICES ASSUME NEW e \in Ems
              PROVE  UNION {cand'[c] : c \in {d \in InActive' : e \in cand'[d]}}
                   = UNION {cand[c] : c \in {d \in InActive : e \in cand[d]}}
  BY DEF group
<1>1. {d \in InActive' : e \in cand'[d]} = {d \in InActive : e \in cand[d]}
  OBVIOUS
<1>. QED  BY <1>1

\* A promotion starts the candidates of a command together.
LEMMA PromoteWorks ==
    ASSUME IInv, NEW c \in Ids, TickPromote(c)
    PROVE  Work!Start(cand[c])
<1>1. /\ TypeOK /\ c \in pending /\ cand[c] \in SUBSET Ems /\ cand[c] # {}
      /\ \A e \in cand[c] : orch[e] = "idle"
  BY DEF IInv, TypeOK, TickPromote, Promotable, eligible_for_active, PendingNeedsEm
<1>2. /\ orch' = [e \in Ems |-> IF e \in cand[c] THEN "pending" ELSE orch[e]]
      /\ cand' = cand /\ active' = Append(active, c)
  BY DEF TickPromote
<1>3. InActive' = InActive \cup {c}
  BY <1>1, <1>2, ActiveFacts, ElemsAppend DEF InActive, Elems
<1>4. ASSUME NEW e \in Ems
      PROVE  group'[e] = IF e \in cand[c] THEN cand[c] ELSE group[e]
  <2>1. CASE e \in cand[c]
    <3>1. {d \in InActive' : e \in cand'[d]} = {c}
      BY <1>1, <1>2, <1>3, <2>1 DEF IInv, OneCommandPerEm
    <3>2. {cand'[d] : d \in {c}} = {cand[c]}
      BY <1>2
    <3>. QED  BY <2>1, <3>1, <3>2 DEF group
  <2>2. CASE e \notin cand[c]
    <3>1. {d \in InActive' : e \in cand'[d]} = {d \in InActive : e \in cand[d]}
      BY <1>2, <1>3, <2>2
    <3>. QED  BY <1>2, <2>2, <3>1 DEF group
  <2>. QED  BY <2>1, <2>2
<1>5. group' = [e \in Ems |-> IF e \in cand[c] THEN cand[c] ELSE group[e]]
  <2>1. group' = [e \in Ems |-> group'[e]]
    BY DEF group
  <2>. QED  BY <1>4, <2>1
<1>. QED  BY <1>1, <1>2, <1>5 DEF Work!Start

\* A completion releases the candidates of the command together.
LEMMA CompleteWorks ==
    ASSUME IInv, Complete
    PROVE  Work!Release(cand[Current]) \/ UNCHANGED <<orch, group>>
<1>. DEFINE cur == Current
<1>1. /\ TypeOK /\ pos > 0 /\ pos \in 1..Len(active) /\ cur = active[pos]
      /\ cur \in InActive /\ cur \in Ids /\ cand[cur] \in SUBSET Ems
  BY ActiveFacts DEF IInv, TypeOK, Complete, Current
<1>2. \A e \in cand[cur] : orch[e] = "fini" /\ group[e] = cand[cur]
  BY <1>1, OwnGroup DEF Complete, IInv, Visiting
<1>. HIDE DEF cur
<1>3. /\ orch' = [e \in Ems |-> IF e \in cand[cur] THEN "idle" ELSE orch[e]]
      /\ cand' = [cand EXCEPT ![cur] = {}]
      /\ active' = RemoveAt(active, pos)
  BY DEF Complete, cur
<1>4. InActive' = InActive \ {cur}
  <2>1. \A i, j \in 1..Len(active) : i # j => active[i] # active[j]
    BY DEF IInv, QueuedOnce
  <2>2. Elems(RemoveAt(active, pos)) = Elems(active) \ {active[pos]}
    BY <1>1, <2>1, ActiveFacts, RemoveAtElems
  <2>. QED  BY <1>1, <1>3, <2>2, ActiveFacts DEF InActive, Elems
<1>5. \A c \in InActive' : c \in InActive /\ cand'[c] = cand[c] /\ cand[c] \cap cand[cur] = {}
  <2>. SUFFICES ASSUME NEW c \in InActive'
                PROVE  c \in InActive /\ cand'[c] = cand[c] /\ cand[c] \cap cand[cur] = {}
    OBVIOUS
  <2>1. c \in InActive /\ c # cur /\ c \in Ids
    BY <1>1, <1>4, ActiveFacts
  <2>2. PICK i \in 1..Len(active) : c = active[i]
    BY <2>1 DEF InActive
  <2>. QED  BY <1>1, <1>3, <2>1, <2>2 DEF IInv, OneCommandPerEm, TypeOK
<1>6. ASSUME NEW e \in Ems
      PROVE  group'[e] = IF e \in cand[cur] THEN {} ELSE group[e]
  <2>1. CASE e \in cand[cur]
    <3>1. {d \in InActive' : e \in cand'[d]} = {}
      BY <1>5, <2>1
    <3>. QED  BY <2>1, <3>1 DEF group
  <2>2. CASE e \notin cand[cur]
    <3>1. {d \in InActive' : e \in cand'[d]} = {d \in InActive : e \in cand[d]}
      BY <1>4, <1>5, <2>2
    <3>2. \A d \in {f \in InActive' : e \in cand'[f]} : cand'[d] = cand[d]
      BY <1>5
    <3>. QED  BY <2>2, <3>1, <3>2 DEF group
  <2>. QED  BY <2>1, <2>2
<1>7. group' = [e \in Ems |-> IF e \in cand[cur] THEN {} ELSE group[e]]
  <2>1. group' = [e \in Ems |-> group'[e]]
    BY DEF group
  <2>. QED  BY <1>6, <2>1
<1>8. CASE cand[cur] # {}
  BY <1>1, <1>2, <1>3, <1>7, <1>8 DEF Work!Release, cur
<1>9. CASE cand[cur] = {}
  <2>1. orch' = orch
    BY <1>1, <1>3, <1>9 DEF TypeOK
  <2>2. group' = group
    BY <1>7, <1>9 DEF group
  <2>. QED  BY <2>1, <2>2
<1>. QED  BY <1>8, <1>9

\* A cancellation finishes the ems of active commands, all at once.
LEMMA CancelWorks ==
    ASSUME IInv, NEW e \in Ems,
           cancel_command(e) \/ cancel_command_radios(e) \/ remove_em_config_cmd_for_em(e)
    PROVE  \E S \in SUBSET Ems : Work!Finish(S)
<1>1. PICK S \in SUBSET Ems, D \in SUBSET pending :
        (\A f \in S : orch[f] # "idle") /\ DropPending(D) /\ orch' = Cancelled(S)
  <2>1. CASE cancel_command(e)
    <3>. DEFINE t == type[Current]
                D == {c \in pending : type[c] = t}
    <3>1. orch' = Cancelled(Running(t)) /\ DropPending(D)
      BY <2>1 DEF cancel_command
    <3>2. t \in Types
      BY <2>1, ActiveFacts DEF IInv, TypeOK, cancel_command, Visited
    <3>3. Running(t) \in SUBSET Ems /\ (\A f \in Running(t) : orch[f] # "idle")
      BY <3>2, RunningBusy
    <3>4. D \in SUBSET pending
      OBVIOUS
    <3>. HIDE DEF t, D
    <3>. QED  BY <3>1, <3>3, <3>4
  <2>2. ASSUME NEW R \in SUBSET Ems, WithdrawConfig(R)
        PROVE  \E S \in SUBSET Ems, D \in SUBSET pending :
                 (\A f \in S : orch[f] # "idle") /\ DropPending(D) /\ orch' = Cancelled(S)
    <3>. DEFINE S == R \cap Running(ConfigType)
                D == {c \in pending : type[c] = ConfigType /\ cand[c] \subseteq R}
    <3>1. DropPending(D) /\ orch' = Cancelled(S)
      BY <2>2 DEF WithdrawConfig
    <3>2. S \in SUBSET Ems /\ (\A f \in S : orch[f] # "idle") /\ D \in SUBSET pending
      BY TypesAssumption, RunningBusy
    <3>. HIDE DEF S, D
    <3>. QED  BY <3>1, <3>2
  <2>3. CASE cancel_command_radios(e)
    <3>1. Siblings[e] \in SUBSET Ems
      BY TypesAssumption
    <3>. QED  BY <2>2, <2>3, <3>1 DEF cancel_command_radios
  <2>4. CASE remove_em_config_cmd_for_em(e)
    BY <2>2, <2>4 DEF remove_em_config_cmd_for_em
  <2>. QED  BY <2>1, <2>3, <2>4
<1>2. active' = active /\ cand' = [c \in Ids |-> IF c \in D THEN {} ELSE cand[c]]
  BY <1>1 DEF DropPending
<1>3. InActive' = InActive
  BY <1>2 DEF InActive
<1>4. \A c \in InActive : cand'[c] = cand[c]
  BY <1>1, <1>2, ActiveFacts DEF IInv, QueuedOnce
<1>5. group' = group
  BY <1>3, <1>4, SameGroups
<1>. QED  BY <1>1, <1>5 DEF Work!Finish, Cancelled

\* Every step is a step of EmWork or leaves the ems and their groups alone.
LEMMA StepWorks ==
    ASSUME IInv, [Next]_vars
    PROVE  [Work!Next]_<<orch, group>>
<1>. USE DEF Work!Next
<1>1. ASSUME NEW c \in Ids, TickPromote(c) PROVE Work!Next
  <2>1. cand[c] \in SUBSET Ems
    BY DEF IInv, TypeOK
  <2>. QED  BY <1>1, <2>1, PromoteWorks
<1>2. CASE Complete
  <2>1. cand[Current] \in SUBSET Ems
    BY <1>2, ActiveFacts DEF IInv, TypeOK, Complete
  <2>. QED  BY <1>2, <2>1, CompleteWorks
<1>3. ASSUME NEW e \in Ems,
             cancel_command(e) \/ cancel_command_radios(e) \/ remove_em_config_cmd_for_em(e)
      PROVE  Work!Next
  BY <1>3, CancelWorks
<1>4. ASSUME active' = active, cand' = cand PROVE group' = group
  <2>1. InActive' = InActive
    BY <1>4 DEF InActive
  <2>. QED  BY <1>4, <2>1, SameGroups
<1>5. ASSUME NEW e \in Ems,
             Execute(e) \/ Finish(e) \/ Finished(e) \/ Wait(e) \/ Hold(e)
      PROVE  [Work!Next]_<<orch, group>>
  <2>1. group' = group
    BY <1>4, <1>5 DEF Execute, Finish, Finished, Wait, Hold, queues
  <2>2. CASE Execute(e)
    BY <2>1, <2>2 DEF Execute, Work!Execute
  <2>3. CASE Finish(e)
    <3>1. orch' = [f \in Ems |-> IF f \in {e} THEN "fini" ELSE orch[f]]
      BY <2>3 DEF Finish, IInv, TypeOK
    <3>2. Work!Finish({e})
      BY <2>1, <2>3, <3>1 DEF Finish, Work!Finish
    <3>. QED  BY <3>2
  <2>4. CASE Finished(e) \/ Wait(e) \/ Hold(e)
    BY <2>1, <2>4 DEF Finished, Wait, Hold, emState
  <2>. QED  BY <1>5, <2>2, <2>3, <2>4
<1>6. CASE TickNoPromote \/ VisitNext \/ Second \/ UNCHANGED vars
  BY <1>4, <1>6 DEF TickNoPromote, VisitNext, Second, vars, queues, emState
<1>7. ASSUME NEW ev \in Events, NEW S \in Candidates[ev], HandleEvent(ev, S)
      PROVE  UNCHANGED <<orch, group>>
  <2>1. active' = active /\ orch' = orch
    BY <1>7 DEF HandleEvent, emState
  <2>2. InActive' = InActive
    BY <2>1 DEF InActive
  <2>3. \A c \in InActive : cand'[c] = cand[c]
    <3>1. TypeOK /\ next \in Nat /\ \A c \in InActive : c <= next
      BY BoundAssumption DEF IInv, TypeOK, QueuedOnce, Queued
    <3>2. InActive \subseteq Ids
      BY <3>1, ActiveFacts
    <3>. QED  BY <1>7, <3>1, <3>2 DEF HandleEvent, submit_commands, Ids
  <2>. QED  BY <2>1, <2>2, <2>3, SameGroups
<1>. QED
  BY <1>1, <1>2, <1>3, <1>5, <1>6, <1>7 DEF Next, handle_timeout, Visit

\* For any number of ems, commands and types the orchestrator, with its tick
\* split over its candidates and interrupted by em threads, implements EmWork.
THEOREM OrchestratorWorks == Spec => WorksTogether
<1>1. Init => Work!Init
  <2>. SUFFICES ASSUME Init PROVE Work!Init
    OBVIOUS
  <2>1. IInv /\ orch = [e \in Ems |-> "idle"]
    BY InitInv DEF Init
  <2>2. \A e \in Ems : group[e] = {}
    BY <2>1, OwnGroup
  <2>3. group = [e \in Ems |-> {}]
    <3>1. group = [e \in Ems |-> group[e]]
      BY DEF group
    <3>. QED  BY <2>2, <3>1
  <2>. QED  BY <2>1, <2>3 DEF Work!Init
<1>2. IInv /\ [Next]_vars => [Work!Next]_<<orch, group>>
  BY StepWorks
<1>. QED  BY <1>1, <1>2, Invariance, PTL DEF Spec, WorksTogether, Work!Spec
=============================================================================
