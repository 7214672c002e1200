----------------------------- MODULE PollProofs -----------------------------
(***************************************************************************)
(* Proofs about poll(): for any number of pollers, sleepers and objects,   *)
(* any array given to poll and any interrupt levels, no event falls into   *)
(* the gap between the look at an object and the sleep, the tasks on a     *)
(* poller's stack are linked exactly while it is in poll, and -1 is        *)
(* returned for a time-out only.                                           *)
(***************************************************************************)
EXTENDS Poll, TaskListProofs

-----------------------------------------------------------------------------
(* The inductive invariant.                                                *)

Polled == {i \in Index : PollSet[i] # Nobody}

\* Every entry is a sleeper's, which sleeps on that object, or a task of a poll
\* that its t_state says is linked there; none is there twice.
EntryOk(e, o) ==
  \/ e.who \in Sleepers /\ e = Plain(e.who) /\ pc[e.who] = "sleep" /\ at[e.who] = o
  \/ e.who \in Pollers /\ e.idx \in muxed[e.who] /\ PollSet[e.idx] = o

Keyed(S) == \A e, f \in S : e.who = f.who /\ e.idx = f.idx => e = f

ListOk(o) ==
  /\ \A e \in ToSet(list[o]) : EntryOk(e, o)
  /\ IsInjective(list[o]) /\ Keyed(ToSet(list[o]))

LinkedOk(p) ==
  \A i \in muxed[p] :
    /\ PollSet[i] \in Objects
    /\ \E e \in ToSet(list[PollSet[i]]) : e.who = p /\ e.idx = i

\* In the section nothing it has looked at can happen: the interrupts of these
\* objects are kept off, and so are all threads.
SectionOk ==
  /\ section = Nobody <=> irql = OPEN
  /\ \A p \in Pollers : pc[p] = "enlist" <=> section = p
  /\ section # Nobody =>
       /\ which[section] = 0 /\ muxed[section] = {i \in Polled : i < idx}
       /\ asserted \cap Conds = {}
       /\ \A i \in Polled : i < idx => PollSet[i] \notin asserted /\ Level[PollSet[i]] <= irql

\* A poller that sleeps, or whose sleep the deadline has ended, has nothing to
\* report and all its tasks are linked.
PollerOk(p) ==
  /\ pc[p] \notin {"sleep", "woken"}
  /\ muxed[p] # {} => InPoll(p)
  /\ pc[p] = "asleep" => which[p] = 0 /\ muxed[p] = Polled
  /\ pc[p] = "awake" /\ which[p] = 0 => muxed[p] = Polled
  /\ pc[p] \in {"awake", "relock", "done"} /\ which[p] = 0 => p \in expired

IInv ==
  /\ PollTypeOK /\ SectionOk /\ NoLostEvent
  /\ \A o \in Objects : ListOk(o)
  /\ \A p \in Pollers : PollerOk(p) /\ LinkedOk(p)
  /\ \A s \in Sleepers : pc[s] \in {"idle", "sleep", "woken"}

-----------------------------------------------------------------------------
(* The constants, and the type invariant object by object.                 *)

LEMMA ConstFacts ==
  /\ Len(PollSet) \in Nat /\ Index = 1 .. Len(PollSet) /\ 0 \notin Index
  /\ \A i \in Index : i \in Nat /\ PollSet[i] \in Objects \cup {Nobody}
  /\ \A i \in Polled : i \in Index /\ i \in Nat /\ PollSet[i] \in Objects
  /\ \A o \in Objects : Level[o] \in Int /\ 1 <= Level[o] /\ Level[o] <= 3
  /\ Nobody \notin Threads /\ Nobody \notin Objects /\ Env \notin Threads /\ Env # Nobody
  /\ \A t \in Threads : t \in Pollers <=> t \notin Sleepers
  /\ \A s \in Sleepers : Prio[s] \in Nat
<1>1. PollSet \in Seq(Objects \cup {Nobody})
  BY PollConstants
<1>2. Len(PollSet) \in Nat /\ \A i \in 1 .. Len(PollSet) : PollSet[i] \in Objects \cup {Nobody}
  BY <1>1
<1>3. Level \in [Objects -> 1 .. 3]
  BY PollConstants DEF SWITCH, SCHED
<1>4. \A o \in Objects : Level[o] \in 1 .. 3
  BY <1>3
<1>5. \A o \in Objects : Level[o] \in Int /\ 1 <= Level[o] /\ Level[o] <= 3
  BY <1>4
<1>6. Index = 1 .. Len(PollSet) /\ 0 \notin Index /\ \A i \in Index : i \in Nat
  BY <1>2 DEF Index
<1>7. \A i \in Index : PollSet[i] \in Objects \cup {Nobody}
  BY <1>2 DEF Index
<1>8. /\ Nobody \notin Threads /\ Nobody \notin Objects /\ Env \notin Threads /\ Env # Nobody
      /\ Pollers \cap Sleepers = {}
      /\ \A s \in Sleepers : Prio[s] \in Nat
  BY PollConstants
<1> QED
  BY <1>2, <1>5, <1>6, <1>7, <1>8 DEF Polled, Threads

LEMMA EntryFields ==
  /\ \A e \in Entries : e.who \in Threads /\ e.idx \in Index \cup {0} /\ e.prio \in Nat
  /\ \A s \in Sleepers : /\ Plain(s) \in Entries
                         /\ Plain(s).who = s /\ Plain(s).idx = 0 /\ Plain(s).prio = Prio[s]
  /\ \A p \in Pollers, i \in Index, g \in Nat :
       Mux(p, i, g) \in Entries /\ Mux(p, i, g).who = p /\ Mux(p, i, g).idx = i
<1>1. \A s \in Sleepers : Prio[s] \in Nat
  BY ConstFacts
<1> QED
  BY <1>1 DEF Entries, Plain, Mux, Threads

LEMMA ListElements ==
  ASSUME PollTypeOK, NEW o \in Objects
  PROVE  list[o] \in Seq(Entries) /\ ToSet(list[o]) \subseteq Entries
<1>1. list[o] \in Seq(Entries)
  BY DEF PollTypeOK
<1> QED
  BY <1>1 DEF ToSet

-----------------------------------------------------------------------------
(* task_wakeup on the sets of entries.                                     *)

Hit(p, T) == \E e \in T : e.who = p /\ e.idx # 0

PCs == {"idle", "enlist", "asleep", "awake", "relock", "done", "sleep", "woken"}

\* T is what is taken off the list of o: all of it, or at least one sleeper.
Woken(o, T) ==
  /\ T \subseteq ToSet(list[o])
  /\ T = ToSet(list[o]) \/ \E e \in T : e.idx = 0
  /\ list' \in [Objects -> Seq(Entries)]
  /\ \A q \in Objects : q # o => list'[q] = list[q]
  /\ IsInjective(list'[o]) /\ ToSet(list'[o]) = ToSet(list[o]) \ T
  /\ muxed' \in [Pollers -> SUBSET Index]
  /\ \A p \in Pollers : \A i \in Index :
       i \in muxed'[p] <=> i \in muxed[p] /\ ~ \E e \in T : e.who = p /\ e.idx = i
  /\ which' \in [Pollers -> Index \cup {0}]
  /\ \A p \in Pollers :
       IF which[p] = 0 /\ Hit(p, T) THEN which'[p] # 0 ELSE which'[p] = which[p]
  /\ pc' \in [Threads -> PCs]
  /\ \A s \in Sleepers : pc'[s] = IF Plain(s) \in T THEN "woken" ELSE pc[s]
  /\ \A p \in Pollers :
       pc'[p] = IF pc[p] = "asleep" /\ which[p] = 0 /\ Hit(p, T) THEN "awake" ELSE pc[p]

\* A prefix is taken; it is the whole list or ends with a sleeper.
LEMMA TakenIs ==
  ASSUME PollTypeOK, NEW o \in Objects, NEW all \in BOOLEAN
  PROVE  \E n \in 0 .. Len(list[o]) :
           /\ Taken(o, all) = SubSeq(list[o], 1, n)
           /\ n = Len(list[o]) \/ (n >= 1 /\ list[o][n].idx = 0)
<1> DEFINE s == list[o]
           I == {k \in 1 .. Len(s) : s[k].idx = 0}
<1>1. s \in Seq(Entries)
  BY ListElements
<1>2. Len(s) \in Nat
  BY <1>1
<1>3. CASE all \/ I = {}
  <2>1. Taken(o, all) = s
    BY <1>3 DEF Taken, SelectInSeq
  <2>2. s = SubSeq(s, 1, Len(s))
    BY <1>1
  <2> QED
    BY <1>2, <2>1, <2>2
<1>4. CASE ~all /\ I # {}
  <2>1. I \in SUBSET Nat
    OBVIOUS
  <2>2. Min(I) \in I
    BY <1>4, <2>1, MinNat
  <2>3. Taken(o, all) = SubSeq(s, 1, Min(I))
    <3>1. SelectInSeq(s, LAMBDA e : e.idx = 0) = Min(I)
      BY <1>4 DEF SelectInSeq
    <3>2. Min(I) # 0
      BY <2>2
    <3> QED
      BY <1>4, <3>1, <3>2 DEF Taken
  <2>4. Min(I) \in 0 .. Len(s) /\ Min(I) >= 1 /\ s[Min(I)].idx = 0
    BY <1>2, <2>2
  <2> QED
    BY <2>3, <2>4
<1> QED
  BY <1>3, <1>4

LEMMA WakeIs ==
  ASSUME PollTypeOK, NEW o \in Objects, IsInjective(list[o]), NEW all \in BOOLEAN, Wake(o, all)
  PROVE  \E T : Woken(o, T)
<1> DEFINE s == list[o]
           taken == Taken(o, all)
           T == ToSet(taken)
           mine(p) == {k \in 1 .. Len(taken) : taken[k].who = p /\ taken[k].idx # 0}
           rest == SubSeq(s, Len(taken) + 1, Len(s))
<1>1. s \in Seq(Entries) /\ ToSet(s) \subseteq Entries
  BY ListElements
<1>2. PICK n \in 0 .. Len(s) :
        taken = SubSeq(s, 1, n) /\ (n = Len(s) \/ (n >= 1 /\ s[n].idx = 0))
  BY TakenIs
<1>3. /\ taken \in Seq(Entries) /\ Len(taken) = n
      /\ \A k \in 1 .. n : taken[k] = s[k]
      /\ SubSeq(s, n + 1, Len(s)) \in Seq(Entries)
      /\ ToSet(SubSeq(s, n + 1, Len(s))) = ToSet(s) \ T
      /\ IsInjective(SubSeq(s, n + 1, Len(s)))
  BY <1>1, <1>2, CutSet
<1>4. rest \in Seq(Entries) /\ ToSet(rest) = ToSet(s) \ T /\ IsInjective(rest)
  BY <1>3
<1>5. /\ list' = [list EXCEPT ![o] = rest]
      /\ muxed' = [p \in Pollers |-> muxed[p] \ {taken[k].idx : k \in mine(p)}]
      /\ which' = [p \in Pollers |->
                    IF which[p] = 0 /\ mine(p) # {} THEN taken[Min(mine(p))].idx ELSE which[p]]
      /\ pc' = [t \in Threads |->
                 IF t \in Sleepers THEN IF Plain(t) \in T THEN "woken" ELSE pc[t]
                 ELSE IF pc[t] = "asleep" /\ which[t] = 0 /\ mine(t) # {} THEN "awake" ELSE pc[t]]
  BY DEF Wake
<1>6. /\ Len(s) \in Nat /\ n \in Nat /\ n <= Len(s) /\ DOMAIN s = 1 .. Len(s)
      /\ DOMAIN taken = 1 .. n /\ \A k \in 1 .. n : taken[k] \in Entries
  BY <1>1, <1>3
<1>7. T \subseteq ToSet(s) /\ T = {taken[k] : k \in 1 .. n}
  BY <1>3, <1>6 DEF ToSet
<1>8. T = ToSet(s) \/ \E e \in T : e.idx = 0
  <2>1. CASE n = Len(s)
    <3>1. \A x \in ToSet(s) : x \in T
      BY <1>3, <1>6, <1>7, <2>1 DEF ToSet
    <3> QED
      BY <1>7, <3>1
  <2>2. CASE n >= 1 /\ s[n].idx = 0
    <3>1. n \in 1 .. n /\ taken[n].idx = 0
      BY <1>3, <1>6, <2>2
    <3> QED
      BY <1>7, <3>1
  <2> QED
    BY <1>2, <2>1, <2>2
<1>9. \A p : mine(p) # {} <=> Hit(p, T)
  BY <1>3, <1>7 DEF Hit
<1>10. /\ list' \in [Objects -> Seq(Entries)] /\ list'[o] = rest
       /\ \A q \in Objects : q # o => list'[q] = list[q]
  BY <1>4, <1>5 DEF PollTypeOK
<1>11. /\ muxed' \in [Pollers -> SUBSET Index]
       /\ \A p \in Pollers : \A i \in Index :
            i \in muxed'[p] <=> i \in muxed[p] /\ ~ \E e \in T : e.who = p /\ e.idx = i
  <2>1. muxed \in [Pollers -> SUBSET Index]
    BY DEF PollTypeOK
  <2>2. ASSUME NEW p \in Pollers, NEW i \in Index
        PROVE  i \in {taken[k].idx : k \in mine(p)} <=> \E e \in T : e.who = p /\ e.idx = i
    <3>1. i # 0
      BY ConstFacts
    <3> QED
      BY <1>3, <1>7, <3>1
  <2> HIDE DEF mine, T, taken
  <2> QED
    BY <1>5, <2>1, <2>2
<1>12. /\ which' \in [Pollers -> Index \cup {0}]
       /\ \A p \in Pollers :
            IF which[p] = 0 /\ Hit(p, T) THEN which'[p] # 0 ELSE which'[p] = which[p]
  <2>1. which \in [Pollers -> Index \cup {0}]
    BY DEF PollTypeOK
  <2>2. ASSUME NEW p, mine(p) # {}
        PROVE  taken[Min(mine(p))].idx \in Index
    <3>1. mine(p) \in SUBSET Nat
      BY <1>3, <1>6
    <3>2. Min(mine(p)) \in mine(p)
      <4> HIDE DEF mine
      <4> QED
        BY <2>2, <3>1, MinNat
    <3>3. Min(mine(p)) \in 1 .. n /\ taken[Min(mine(p))].idx # 0
      BY <1>3, <3>2
    <3> QED
      BY <1>6, <3>3, EntryFields
  <2>3. 0 \notin Index
    BY ConstFacts
  <2> HIDE DEF mine, T, taken
  <2> QED
    BY <1>5, <1>9, <2>1, <2>2, <2>3
<1>13. /\ pc' \in [Threads -> PCs]
       /\ \A u \in Sleepers : pc'[u] = IF Plain(u) \in T THEN "woken" ELSE pc[u]
       /\ \A p \in Pollers :
            pc'[p] = IF pc[p] = "asleep" /\ which[p] = 0 /\ Hit(p, T) THEN "awake" ELSE pc[p]
  <2>1. pc \in [Threads -> PCs]
    BY DEF PollTypeOK, PCs
  <2>2. /\ \A p \in Pollers : p \in Threads /\ p \notin Sleepers
        /\ \A u \in Sleepers : u \in Threads
    BY ConstFacts DEF Threads
  <2>3. "woken" \in PCs /\ "awake" \in PCs
    BY DEF PCs
  <2> HIDE DEF mine, T, taken, PCs
  <2> QED
    BY <1>5, <1>9, <2>1, <2>2, <2>3
<1> HIDE DEF T, mine, taken, rest
<1>14. Woken(o, T)
  BY <1>4, <1>7, <1>8, <1>10, <1>11, <1>12, <1>13 DEF Woken
<1> QED
  BY <1>14

\* The types of the state, one by one.
LEMMA Types ==
  ASSUME IInv
  PROVE  /\ pc \in [Threads -> PCs] /\ section \in Pollers \cup {Nobody}
         /\ irql \in 0 .. 3 /\ idx \in 1 .. Len(PollSet) + 1
         /\ mutex \in Pollers \cup {Env, Nobody}
         /\ which \in [Pollers -> Index \cup {0}] /\ muxed \in [Pollers -> SUBSET Index]
         /\ timed \subseteq Pollers /\ expired \subseteq Pollers
         /\ at \in [Sleepers -> Objects \cup {Nobody}]
         /\ asserted \subseteq Objects /\ notify \subseteq Objects
         /\ list \in [Objects -> Seq(Entries)]
  BY DEF IInv, PollTypeOK, PCs, OPEN, SCHED

\* No task of the poller in its section is on the list of an object that can
\* still be woken.
LEMMA SectionShielded ==
  ASSUME IInv, section # Nobody, NEW o \in Objects, Level[o] > irql,
         NEW e \in ToSet(list[o])
  PROVE  e.who # section
<1> SUFFICES ASSUME e.who = section PROVE FALSE
  OBVIOUS
<1>1. section \in Pollers /\ section \notin Sleepers
  BY Types, ConstFacts DEF Threads
<1>2. EntryOk(e, o)
  BY DEF IInv, ListOk
<1>3. e.idx \in muxed[section] /\ PollSet[e.idx] = o
  BY <1>1, <1>2 DEF EntryOk
<1>4. muxed[section] = {i \in Polled : i < idx}
  BY DEF IInv, SectionOk
<1>5. e.idx \in Polled /\ e.idx < idx
  BY <1>3, <1>4
<1>6. Level[o] <= irql
  BY <1>3, <1>5 DEF IInv, SectionOk
<1>7. irql \in 0 .. 3 /\ Level[o] \in Int
  BY Types, ConstFacts
<1>8. irql \in Int
  BY <1>7
<1> QED
  BY <1>6, <1>7, <1>8

\* task_wakeup of an object whose interrupt is not kept off.
LEMMA WokenKeeps ==
  ASSUME IInv, NEW o \in Objects, Level[o] > irql, NEW T, Woken(o, T),
         UNCHANGED <<section, irql, idx, timed, expired, at>>,
         asserted' \subseteq asserted \cup {o}, notify \ {o} \subseteq notify',
         notify' \subseteq Objects, mutex' \in Pollers \cup {Env, Nobody},
         section # Nobody => o \notin Conds
  PROVE  IInv'
<1> DEFINE L == ToSet(list[o])
<1>a. /\ T \subseteq L /\ (T = L \/ \E e \in T : e.idx = 0)
      /\ list' \in [Objects -> Seq(Entries)]
      /\ \A q \in Objects : q # o => list'[q] = list[q]
      /\ IsInjective(list'[o]) /\ ToSet(list'[o]) = L \ T
  BY DEF Woken
<1>b. /\ muxed' \in [Pollers -> SUBSET Index]
      /\ \A p \in Pollers : \A i \in Index :
           i \in muxed'[p] <=> i \in muxed[p] /\ ~ \E e \in T : e.who = p /\ e.idx = i
  BY DEF Woken
<1>c. /\ which' \in [Pollers -> Index \cup {0}]
      /\ \A p \in Pollers :
           IF which[p] = 0 /\ Hit(p, T) THEN which'[p] # 0 ELSE which'[p] = which[p]
  BY DEF Woken
<1>d. /\ pc' \in [Threads -> PCs]
      /\ \A s \in Sleepers : pc'[s] = IF Plain(s) \in T THEN "woken" ELSE pc[s]
      /\ \A p \in Pollers :
           pc'[p] = IF pc[p] = "asleep" /\ which[p] = 0 /\ Hit(p, T) THEN "awake" ELSE pc[p]
  BY DEF Woken
<1>e. L \subseteq Entries /\ \A e \in L : EntryOk(e, o)
  BY ListElements DEF IInv, ListOk
<1>f. /\ \A p \in Pollers : p \notin Sleepers /\ p # Nobody
      /\ \A s \in Sleepers : Plain(s).who = s /\ Plain(s).idx = 0
      /\ 0 \notin Index /\ \A p \in Pollers : muxed[p] \subseteq Index
  BY ConstFacts, EntryFields, Types DEF Threads
<1> HIDE DEF L
<1>1. PollTypeOK'
  <2>1. asserted' \subseteq Objects
    BY Types
  <2>2. /\ (section \in Pollers \cup {Nobody})' /\ (irql \in 0 .. 3)'
        /\ (idx \in 1 .. Len(PollSet) + 1)'
        /\ (timed \subseteq Pollers)' /\ (expired \subseteq Pollers)'
        /\ (at \in [Sleepers -> Objects \cup {Nobody}])'
    BY Types
  <2> QED
    BY <1>a, <1>b, <1>c, <1>d, <2>1, <2>2 DEF PollTypeOK, PCs, OPEN, SCHED
<1>2. ASSUME section # Nobody
      PROVE  /\ ~Hit(section, T) /\ section \in Pollers
             /\ muxed'[section] = muxed[section] /\ which'[section] = which[section]
             /\ pc'[section] = pc[section]
  <2>1. section \in Pollers
    BY <1>2, Types
  <2>2. \A e \in T : e.who # section
    BY <1>2, <1>a, SectionShielded DEF L
  <2>3. ~Hit(section, T)
    BY <2>2 DEF Hit
  <2>4. \A i \in Index : i \in muxed'[section] <=> i \in muxed[section]
    BY <1>b, <2>1, <2>2
  <2>5. muxed'[section] \subseteq Index /\ muxed[section] \subseteq Index
    BY <1>b, <2>1, Types
  <2> QED
    BY <1>c, <1>d, <2>1, <2>3, <2>4, <2>5
<1>3. SectionOk'
  <2>1. section = Nobody <=> irql = OPEN
    BY DEF IInv, SectionOk
  <2>2. \A p \in Pollers : (pc[p] = "enlist" <=> section = p)'
    <3> TAKE p \in Pollers
    <3>1. pc[p] = "enlist" <=> section = p
      BY DEF IInv, SectionOk
    <3>2. pc'[p] = pc[p] \/ (pc[p] = "asleep" /\ pc'[p] = "awake")
      BY <1>d
    <3> QED
      BY <3>1, <3>2
  <2>3. ASSUME section # Nobody
        PROVE  /\ which'[section] = 0 /\ muxed'[section] = {i \in Polled : i < idx}
               /\ asserted' \cap Conds = {}
               /\ \A i \in Polled : i < idx => PollSet[i] \notin asserted' /\ Level[PollSet[i]] <= irql
    <3>1. /\ which[section] = 0 /\ muxed[section] = {i \in Polled : i < idx}
          /\ asserted \cap Conds = {}
          /\ \A i \in Polled : i < idx => PollSet[i] \notin asserted /\ Level[PollSet[i]] <= irql
      BY <2>3 DEF IInv, SectionOk
    <3>2. ASSUME NEW i \in Polled, i < idx PROVE PollSet[i] # o
      <4>1. Level[PollSet[i]] <= irql
        BY <3>1, <3>2
      <4>2. irql \in 0 .. 3 /\ Level[o] \in Int
        BY Types, ConstFacts
      <4>3. ~(Level[o] <= irql)
        BY <4>2
      <4> QED
        BY <4>1, <4>3
    <3>3. o \notin Conds
      BY <2>3
    <3> QED
      BY <1>2, <2>3, <3>1, <3>2, <3>3
  <2> QED
    BY <2>1, <2>2, <2>3 DEF SectionOk
<1>4. ASSUME NEW p \in Pollers, pc'[p] = "asleep"
      PROVE  /\ pc[p] = "asleep" /\ which[p] = 0 /\ muxed[p] = Polled
             /\ which'[p] = 0 /\ muxed'[p] = Polled
             /\ \A e \in T : e.who # p
  <2>1. pc[p] = "asleep" /\ (which[p] = 0 => ~Hit(p, T))
    BY <1>4, <1>d
  <2>2. which[p] = 0 /\ muxed[p] = Polled
    BY <2>1 DEF IInv, PollerOk
  <2>3. \A e \in T : e.who # p
    <3> SUFFICES ASSUME NEW e \in T, e.who = p PROVE FALSE
      OBVIOUS
    <3>1. EntryOk(e, o) /\ e \in Entries
      BY <1>a, <1>e
    <3>2. e.idx \in muxed[p]
      BY <1>f, <3>1 DEF EntryOk
    <3>3. e.idx # 0
      BY <1>f, <3>2
    <3> QED
      BY <2>1, <2>2, <3>3 DEF Hit
  <2>4. \A i \in Index : i \in muxed'[p] <=> i \in muxed[p]
    BY <1>b, <2>3
  <2>5. muxed'[p] = muxed[p]
    BY <1>b, <1>f, <2>4
  <2> QED
    BY <1>c, <2>1, <2>2, <2>3, <2>5
<1>5. NoLostEvent'
  <2> SUFFICES ASSUME NEW p \in Pollers, pc'[p] = "asleep", NEW i \in Index,
                      PollSet[i] \in asserted'
               PROVE  \/ PollSet[i] \in notify'
                      \/ \E s \in Sleepers : pc'[s] = "woken" /\ at'[s] = PollSet[i]
    BY DEF NoLostEvent
  <2>0. pc[p] = "asleep" /\ muxed[p] = Polled /\ \A e \in T : e.who # p
    BY <1>4
  <2>1. CASE PollSet[i] = o
    <3>1. i \in muxed[p]
      BY <2>0, <2>1, ConstFacts DEF Polled
    <3>2. PICK e \in L : e.who = p /\ e.idx = i
      BY <2>1, <3>1 DEF IInv, LinkedOk, L
    <3>3. e \notin T
      BY <2>0, <3>2
    <3>4. PICK f \in T : f.idx = 0
      BY <1>a, <3>2, <3>3
    <3>5. EntryOk(f, o)
      BY <1>a, <1>e
    <3>6. f.who \in Sleepers /\ f = Plain(f.who) /\ at[f.who] = o
      BY <1>f, <3>4, <3>5 DEF EntryOk
    <3>7. pc'[f.who] = "woken"
      BY <1>d, <3>6
    <3> QED
      BY <2>1, <3>6, <3>7
  <2>2. CASE PollSet[i] # o
    <3>1. PollSet[i] \in asserted
      BY <2>2
    <3>2. \/ PollSet[i] \in notify
          \/ \E s \in Sleepers : pc[s] = "woken" /\ at[s] = PollSet[i]
      BY <2>0, <3>1 DEF IInv, NoLostEvent
    <3>3. \A s \in Sleepers : pc[s] = "woken" => pc'[s] = "woken"
      BY <1>d
    <3> QED
      BY <2>2, <3>2, <3>3
  <2> QED
    BY <2>1, <2>2
<1>6. ASSUME NEW q \in Objects PROVE ListOk(q)'
  <2>0. /\ ToSet(list'[q]) \subseteq ToSet(list[q]) /\ IsInjective(list'[q])
        /\ q = o => \A e \in ToSet(list'[q]) : e \notin T
    BY <1>a DEF IInv, ListOk, L
  <2>1. ASSUME NEW e \in ToSet(list'[q]) PROVE EntryOk(e, q)'
    <3>1. EntryOk(e, q) /\ e \in Entries
      BY <2>0, ListElements DEF IInv, ListOk
    <3>2. CASE e.who \in Sleepers /\ e = Plain(e.who) /\ pc[e.who] = "sleep" /\ at[e.who] = q
      <4>1. Plain(e.who) \notin T
        <5> SUFFICES ASSUME e \in T PROVE FALSE
          BY <3>2
        <5>1. EntryOk(e, o)
          BY <1>a, <1>e
        <5>2. q = o
          BY <1>f, <3>2, <5>1 DEF EntryOk
        <5> QED
          BY <2>0, <5>2
      <4>2. pc'[e.who] = "sleep"
        BY <1>d, <3>2, <4>1
      <4> QED
        BY <3>2, <4>2 DEF EntryOk
    <3>3. CASE e.who \in Pollers /\ e.idx \in muxed[e.who] /\ PollSet[e.idx] = q
      <4>1. ASSUME NEW f \in T, f.who = e.who, f.idx = e.idx PROVE FALSE
        <5>1. EntryOk(f, o)
          BY <1>a, <1>e
        <5>2. q = o
          BY <1>f, <3>3, <4>1, <5>1 DEF EntryOk
        <5>3. e \in L /\ f \in L /\ Keyed(L)
          BY <1>a, <2>0, <5>2 DEF L, IInv, ListOk
        <5>4. e = f
          BY <4>1, <5>3 DEF Keyed
        <5> QED
          BY <2>0, <5>2, <5>4
      <4>2. e.idx \in muxed'[e.who]
        BY <1>b, <1>f, <3>3, <4>1
      <4> QED
        BY <3>3, <4>2 DEF EntryOk
    <3> QED
      BY <3>1, <3>2, <3>3 DEF EntryOk
  <2>2. Keyed(ToSet(list'[q]))
    <3>1. Keyed(ToSet(list[q]))
      BY DEF IInv, ListOk
    <3> QED
      BY <2>0, <3>1 DEF Keyed
  <2> QED
    BY <2>0, <2>1, <2>2 DEF ListOk
<1>7. ASSUME NEW p \in Pollers PROVE LinkedOk(p)'
  <2> SUFFICES ASSUME NEW i \in muxed'[p]
               PROVE  /\ PollSet[i] \in Objects
                      /\ \E e \in ToSet(list'[PollSet[i]]) : e.who = p /\ e.idx = i
    BY DEF LinkedOk
  <2>1. i \in muxed[p] /\ ~ \E e \in T : e.who = p /\ e.idx = i
    BY <1>b
  <2>2. PollSet[i] \in Objects
    BY <2>1 DEF IInv, LinkedOk
  <2>3. PICK e \in ToSet(list[PollSet[i]]) : e.who = p /\ e.idx = i
    BY <2>1 DEF IInv, LinkedOk
  <2>4. e \in ToSet(list'[PollSet[i]])
    BY <1>a, <2>1, <2>2, <2>3 DEF L
  <2> QED
    BY <2>2, <2>3, <2>4
<1>8. ASSUME NEW p \in Pollers PROVE PollerOk(p)'
  <2>0. PollerOk(p) /\ muxed'[p] \subseteq muxed[p]
    BY <1>b DEF IInv
  <2>1. pc'[p] = pc[p] \/ (pc[p] = "asleep" /\ pc'[p] = "awake")
    BY <1>d
  <2>2. pc'[p] \notin {"sleep", "woken"} /\ (muxed'[p] # {} => InPoll(p)')
    BY <2>0, <2>1 DEF PollerOk, InPoll
  <2>3. pc'[p] = "asleep" => which'[p] = 0 /\ muxed'[p] = Polled
    BY <1>4
  <2>4. ASSUME pc'[p] \in {"awake", "relock", "done"}, which'[p] = 0 PROVE p \in expired
    <3>1. which[p] = 0 /\ ~Hit(p, T)
      BY <1>c, <2>4
    <3>2. pc'[p] = pc[p]
      BY <1>d, <3>1
    <3> QED
      BY <2>0, <2>4, <3>1, <3>2 DEF PollerOk
  <2>5. ASSUME pc'[p] = "awake", which'[p] = 0 PROVE muxed'[p] = Polled
    <3>1. which[p] = 0 /\ ~Hit(p, T)
      BY <1>c, <2>5
    <3>2. pc'[p] = pc[p]
      BY <1>d, <3>1
    <3>3. \A i \in muxed[p] : i \in muxed'[p]
      <4>1. \A i \in muxed[p] : i \in Index /\ i # 0
        BY Types, ConstFacts
      <4> QED
        BY <1>b, <3>1, <4>1 DEF Hit
    <3> QED
      BY <2>0, <2>5, <3>1, <3>2, <3>3 DEF PollerOk
  <2> QED
    BY <2>2, <2>3, <2>4, <2>5 DEF PollerOk
<1>9. ASSUME NEW s \in Sleepers PROVE pc'[s] \in {"idle", "sleep", "woken"}
  BY <1>d DEF IInv
<1> QED
  BY <1>1, <1>3, <1>5, <1>6, <1>7, <1>8, <1>9 DEF IInv

-----------------------------------------------------------------------------
(* What the steps leave alone.                                             *)

\* The lists and what their entries refer to do not change.
LEMMA ListsKept ==
  ASSUME IInv, UNCHANGED <<list, muxed, at>>,
         \A s \in Sleepers : pc[s] = "sleep" => pc'[s] = "sleep"
  PROVE  (\A o \in Objects : ListOk(o)') /\ (\A p \in Pollers : LinkedOk(p)')
<1>1. ASSUME NEW o \in Objects PROVE ListOk(o)'
  <2>1. ListOk(o)
    BY DEF IInv
  <2>2. \A e : EntryOk(e, o) => EntryOk(e, o)'
    BY DEF EntryOk
  <2> QED
    BY <2>1, <2>2 DEF ListOk
<1>2. ASSUME NEW p \in Pollers PROVE LinkedOk(p)'
  BY DEF IInv, LinkedOk
<1> QED
  BY <1>1, <1>2

\* Nobody falls asleep, nothing new is to report and nobody is forgotten.
LEMMA NoLostKept ==
  ASSUME IInv, asserted' \subseteq asserted, notify \subseteq notify', at' = at,
         \A p \in Pollers : pc'[p] = "asleep" => pc[p] = "asleep",
         \A s \in Sleepers : pc[s] = "woken" => pc'[s] = "woken"
  PROVE  NoLostEvent'
<1>1. NoLostEvent
  BY DEF IInv
<1> QED
  BY <1>1 DEF NoLostEvent

\* One thread moves.
LEMMA ThreadMoves ==
  ASSUME IInv, NEW t \in Threads, NEW x \in PCs, pc' = [pc EXCEPT ![t] = x]
  PROVE  pc' \in [Threads -> PCs] /\ pc'[t] = x /\ \A u \in Threads : u # t => pc'[u] = pc[u]
  BY Types

LEMMA PollerMoves ==
  ASSUME IInv, NEW p \in Pollers, NEW x \in PCs, pc' = [pc EXCEPT ![p] = x]
  PROVE  /\ pc' \in [Threads -> PCs] /\ pc'[p] = x
         /\ \A q \in Pollers : q # p => pc'[q] = pc[q]
         /\ \A s \in Sleepers : pc'[s] = pc[s]
         /\ \A s \in Sleepers : pc'[s] \in {"idle", "sleep", "woken"}
<1>1. p \in Threads /\ p \notin Sleepers
  BY ConstFacts DEF Threads
<1>2. pc' \in [Threads -> PCs] /\ pc'[p] = x /\ \A u \in Threads : u # p => pc'[u] = pc[u]
  BY <1>1, ThreadMoves
<1> QED
  BY <1>1, <1>2 DEF Threads, IInv

\* The poller's tasks leave all lists.
LEMMA UnenlistedIs ==
  ASSUME IInv, NEW p \in Pollers, NEW js, muxed[p] \subseteq js, list' = Unenlisted(p, js)
  PROVE  /\ list' \in [Objects -> Seq(Entries)]
         /\ \A q \in Objects : /\ IsInjective(list'[q])
                               /\ ToSet(list'[q]) = {e \in ToSet(list[q]) : e.who # p}
<1>1. ASSUME NEW q \in Objects
      PROVE  /\ list'[q] \in Seq(Entries) /\ IsInjective(list'[q])
             /\ ToSet(list'[q]) = {e \in ToSet(list[q]) : e.who # p}
  <2> DEFINE S == {e \in ToSet(list[q]) : e.who = p /\ e.idx \in js}
  <2>1. list'[q] = Without(list[q], S)
    BY DEF Unenlisted
  <2>2. list[q] \in Seq(Entries) /\ IsInjective(list[q])
    BY ListElements DEF IInv, ListOk
  <2>3. \A e \in ToSet(list[q]) : e.who = p => e.idx \in js
    <3> TAKE e \in ToSet(list[q])
    <3>1. EntryOk(e, q) /\ p \notin Sleepers
      BY ConstFacts DEF IInv, ListOk, Threads
    <3> QED
      BY <3>1 DEF EntryOk
  <2>4. ToSet(list[q]) \ S = {e \in ToSet(list[q]) : e.who # p}
    BY <2>3
  <2> HIDE DEF S
  <2> QED
    BY <2>1, <2>2, <2>4, WithoutSet
<1>2. list' = [o \in Objects |-> list'[o]]
  BY DEF Unenlisted
<1>3. \A q \in Objects : list'[q] \in Seq(Entries)
  BY <1>1
<1>4. list' \in [Objects -> Seq(Entries)]
  BY <1>2, <1>3
<1> QED
  BY <1>1, <1>4

LEMMA UnenlistedKeeps ==
  ASSUME IInv, NEW p \in Pollers, NEW js, muxed[p] \subseteq js, list' = Unenlisted(p, js),
         muxed' = [muxed EXCEPT ![p] = {}], at' = at,
         \A s \in Sleepers : pc'[s] = pc[s]
  PROVE  /\ list' \in [Objects -> Seq(Entries)] /\ muxed' \in [Pollers -> SUBSET Index]
         /\ \A o \in Objects : ListOk(o)'
         /\ \A q \in Pollers : LinkedOk(q)'
<1>1. /\ list' \in [Objects -> Seq(Entries)]
      /\ \A q \in Objects : /\ IsInjective(list'[q])
                            /\ ToSet(list'[q]) = {e \in ToSet(list[q]) : e.who # p}
  BY UnenlistedIs
<1>2. /\ muxed' \in [Pollers -> SUBSET Index] /\ muxed'[p] = {}
      /\ \A q \in Pollers : q # p => muxed'[q] = muxed[q]
  BY Types
<1>3. ASSUME NEW o \in Objects PROVE ListOk(o)'
  <2>1. ListOk(o)
    BY DEF IInv
  <2>2. ASSUME NEW e \in ToSet(list'[o]) PROVE EntryOk(e, o)'
    <3>1. EntryOk(e, o) /\ e.who # p
      BY <1>1, <2>1 DEF ListOk
    <3> QED
      BY <1>2, <3>1 DEF EntryOk
  <2>3. Keyed(ToSet(list'[o]))
    BY <1>1, <2>1 DEF ListOk, Keyed
  <2> QED
    BY <1>1, <2>2, <2>3 DEF ListOk
<1>4. ASSUME NEW q \in Pollers PROVE LinkedOk(q)'
  <2> SUFFICES ASSUME NEW i \in muxed'[q]
               PROVE  /\ PollSet[i] \in Objects
                      /\ \E e \in ToSet(list'[PollSet[i]]) : e.who = q /\ e.idx = i
    BY DEF LinkedOk
  <2>1. q # p /\ i \in muxed[q]
    BY <1>2
  <2>2. PollSet[i] \in Objects /\ \E e \in ToSet(list[PollSet[i]]) : e.who = q /\ e.idx = i
    BY <2>1 DEF IInv, LinkedOk
  <2> QED
    BY <1>1, <2>1, <2>2
<1> QED
  BY <1>1, <1>2, <1>3, <1>4

-----------------------------------------------------------------------------
(* The steps.                                                              *)

LEMMA InitKeeps == Init => IInv
<1> SUFFICES ASSUME Init PROVE IInv
  OBVIOUS
<1>1. \A o \in Objects : list[o] = <<>>
  BY DEF Init
<1>2. \A o \in Objects : ToSet(list[o]) = {} /\ IsInjective(list[o]) /\ list[o] \in Seq(Entries)
  <2>1. DOMAIN <<>> = {} /\ <<>> \in Seq(Entries)
    OBVIOUS
  <2>2. ToSet(<<>>) = {}
    BY <2>1 DEF ToSet
  <2>3. IsInjective(<<>>)
    BY <2>1 DEF IsInjective
  <2> QED
    BY <1>1, <2>1, <2>2, <2>3
<1>3. \A t \in Threads : pc[t] = "idle"
  BY DEF Init
<1>4. \A p \in Pollers : p \in Threads /\ p # Nobody
  BY ConstFacts DEF Threads
<1>5. PollTypeOK
  <2>1. list \in [Objects -> Seq(Entries)]
    BY <1>2 DEF Init
  <2>2. idx \in 1 .. Len(PollSet) + 1 /\ irql \in OPEN .. SCHED
    BY ConstFacts DEF Init, OPEN, SCHED
  <2> QED
    BY <2>1, <2>2 DEF Init, PollTypeOK
<1>6. SectionOk
  BY <1>3, <1>4 DEF Init, SectionOk
<1>7. NoLostEvent
  BY <1>3, <1>4 DEF NoLostEvent
<1>8. \A o \in Objects : ListOk(o)
  BY <1>2 DEF ListOk, Keyed
<1>9. \A p \in Pollers : PollerOk(p) /\ LinkedOk(p)
  BY <1>3, <1>4 DEF Init, PollerOk, LinkedOk
<1>10. \A s \in Sleepers : pc[s] \in {"idle", "sleep", "woken"}
  BY <1>3 DEF Threads
<1> QED
  BY <1>5, <1>6, <1>7, <1>8, <1>9, <1>10 DEF IInv

LEMMA InterruptKeeps ==
  ASSUME IInv, NEW o \in Objects, Interrupt(o)
  PROVE  IInv'
<1>1. PICK all \in BOOLEAN : Wake(o, all)
  BY DEF Interrupt
<1>2. PollTypeOK /\ IsInjective(list[o])
  BY DEF IInv, ListOk
<1>3. PICK T : Woken(o, T)
  BY <1>1, <1>2, WakeIs
<1>4. Level[o] > irql /\ o \notin Conds
  BY PollConstants DEF Interrupt, SWITCH
<1>5. /\ UNCHANGED <<section, irql, idx, timed, expired, at, mutex, notify>>
      /\ asserted' = asserted \cup {o}
  BY DEF Interrupt
<1>6. notify' \subseteq Objects /\ mutex' \in Pollers \cup {Env, Nobody}
  BY <1>5, Types
<1> QED
  BY <1>3, <1>4, <1>5, <1>6, WokenKeeps

LEMMA NotifyKeeps ==
  ASSUME IInv, NEW o \in Objects, Notify(o)
  PROVE  IInv'
<1>1. PICK all \in BOOLEAN : Wake(o, all)
  BY DEF Notify
<1>2. PollTypeOK /\ IsInjective(list[o])
  BY DEF IInv, ListOk
<1>3. PICK T : Woken(o, T)
  BY <1>1, <1>2, WakeIs
<1>4. irql = 0 /\ section = Nobody
  BY DEF Notify, IInv, SectionOk, OPEN
<1>5. Level[o] > irql
  BY <1>4, ConstFacts
<1>6. /\ UNCHANGED <<section, irql, idx, timed, expired, at, asserted>>
      /\ notify' = notify \ {o} /\ mutex' \in {mutex, Nobody}
  BY DEF Notify
<1>7. notify' \subseteq Objects /\ mutex' \in Pollers \cup {Env, Nobody}
  BY <1>6, Types
<1> QED
  BY <1>3, <1>4, <1>5, <1>6, <1>7, WokenKeeps

\* In these steps no section is entered or left and the lists do not change.
LEMMA QuietKeeps ==
  ASSUME IInv, UNCHANGED <<section, irql, idx, list, muxed, which, timed, at>>,
         asserted' \subseteq asserted, notify' = notify,
         mutex' \in Pollers \cup {Env, Nobody}, expired' \subseteq Pollers,
         pc' \in [Threads -> PCs], \A s \in Sleepers : pc'[s] = pc[s],
         \A p \in Pollers : \/ pc'[p] = pc[p] /\ (p \in expired => p \in expired')
                            \/ /\ pc[p] \notin {"enlist", "idle"}
                               /\ pc'[p] \in {"awake", "relock", "done", "idle"}
                               /\ muxed[p] # {} => pc'[p] = "awake"
                               /\ pc'[p] = "awake" => pc[p] = "asleep"
                               /\ which[p] = 0 /\ pc'[p] # "idle" => p \in expired'
  PROVE  IInv'
<1>1. PollTypeOK'
  <2>1. /\ (section \in Pollers \cup {Nobody})' /\ (irql \in 0 .. 3)'
        /\ (idx \in 1 .. Len(PollSet) + 1)' /\ (timed \subseteq Pollers)'
        /\ (which \in [Pollers -> Index \cup {0}])' /\ (muxed \in [Pollers -> SUBSET Index])'
        /\ (at \in [Sleepers -> Objects \cup {Nobody}])'
        /\ (list \in [Objects -> Seq(Entries)])'
    BY Types
  <2>2. (asserted \subseteq Objects)' /\ (notify \subseteq Objects)'
    BY Types
  <2> QED
    BY <2>1, <2>2 DEF PollTypeOK, PCs, OPEN, SCHED
<1>2. \A p \in Pollers : (pc[p] = "enlist" <=> pc'[p] = "enlist")
                         /\ (pc'[p] = "asleep" => pc[p] = "asleep")
  OBVIOUS
<1>3. SectionOk'
  <2>1. SectionOk
    BY DEF IInv
  <2> QED
    BY <1>2, <2>1 DEF SectionOk
<1>4. NoLostEvent'
  BY <1>2, NoLostKept
<1>5. (\A o \in Objects : ListOk(o)') /\ (\A p \in Pollers : LinkedOk(p)')
  BY ListsKept
<1>6. ASSUME NEW p \in Pollers PROVE PollerOk(p)'
  <2>1. PollerOk(p)
    BY DEF IInv
  <2>2. CASE pc'[p] = pc[p] /\ (p \in expired => p \in expired')
    BY <2>1, <2>2 DEF PollerOk, InPoll
  <2>3. CASE /\ pc'[p] \in {"awake", "relock", "done", "idle"}
             /\ muxed[p] # {} => pc'[p] = "awake"
             /\ pc'[p] = "awake" => pc[p] = "asleep"
             /\ which[p] = 0 /\ pc'[p] # "idle" => p \in expired'
    BY <2>1, <2>3 DEF PollerOk, InPoll
  <2> QED
    BY <2>2, <2>3
<1>7. \A s \in Sleepers : pc'[s] \in {"idle", "sleep", "woken"}
  BY DEF IInv
<1> QED
  BY <1>1, <1>3, <1>4, <1>5, <1>6, <1>7 DEF IInv

LEMMA ServeKeeps ==
  ASSUME IInv, NEW p \in Pollers, Serve(p)
  PROVE  IInv'
<1>1. /\ UNCHANGED <<section, irql, idx, list, muxed, which, timed, at, notify, pc, expired, mutex>>
      /\ asserted' \subseteq asserted
  BY DEF Serve
<1>2. /\ mutex' \in Pollers \cup {Env, Nobody} /\ expired' \subseteq Pollers
      /\ pc' \in [Threads -> PCs]
  BY <1>1, Types
<1> QED
  BY <1>1, <1>2, QuietKeeps

LEMMA TimeoutKeeps ==
  ASSUME IInv, NEW p \in Pollers, poll_timeout(p)
  PROVE  IInv'
<1>1. /\ UNCHANGED <<section, irql, idx, list, muxed, which, timed, at, notify, asserted, mutex>>
      /\ expired' = expired \cup {p} /\ pc[p] = "asleep" /\ pc' = [pc EXCEPT ![p] = "awake"]
  BY DEF poll_timeout
<1>2. "awake" \in PCs
  BY DEF PCs
<1>3. /\ pc' \in [Threads -> PCs] /\ pc'[p] = "awake"
      /\ \A q \in Pollers : q # p => pc'[q] = pc[q]
      /\ \A s \in Sleepers : pc'[s] = pc[s]
  BY <1>1, <1>2, PollerMoves
<1>4. mutex' \in Pollers \cup {Env, Nobody} /\ expired' \subseteq Pollers
  BY <1>1, Types
<1> QED
  BY <1>1, <1>3, <1>4, QuietKeeps

LEMMA RelockKeeps ==
  ASSUME IInv, NEW p \in Pollers, poll_relock(p)
  PROVE  IInv'
<1>1. /\ UNCHANGED <<section, irql, idx, list, muxed, which, timed, at, notify, asserted, expired>>
      /\ mutex' = p /\ pc[p] = "relock" /\ pc' = [pc EXCEPT ![p] = "done"]
  BY DEF poll_relock
<1>2. "done" \in PCs
  BY DEF PCs
<1>3. /\ pc' \in [Threads -> PCs] /\ pc'[p] = "done"
      /\ \A q \in Pollers : q # p => pc'[q] = pc[q]
      /\ \A s \in Sleepers : pc'[s] = pc[s]
  BY <1>1, <1>2, PollerMoves
<1>4. mutex' \in Pollers \cup {Env, Nobody} /\ expired' \subseteq Pollers
  BY <1>1, Types
<1>5. muxed[p] = {} /\ (which[p] = 0 => p \in expired)
  BY <1>1 DEF IInv, PollerOk, InPoll
<1> QED
  BY <1>1, <1>3, <1>4, <1>5, QuietKeeps

LEMMA HandleKeeps ==
  ASSUME IInv, NEW p \in Pollers, Handle(p)
  PROVE  IInv'
<1>1. /\ UNCHANGED <<section, irql, idx, list, muxed, which, timed, at, notify, expired>>
      /\ asserted' \subseteq asserted /\ mutex' \in {mutex, Nobody}
      /\ pc[p] = "done" /\ pc' = [pc EXCEPT ![p] = "idle"]
  BY DEF Handle
<1>2. "idle" \in PCs
  BY DEF PCs
<1>3. /\ pc' \in [Threads -> PCs] /\ pc'[p] = "idle"
      /\ \A q \in Pollers : q # p => pc'[q] = pc[q]
      /\ \A s \in Sleepers : pc'[s] = pc[s]
  BY <1>1, <1>2, PollerMoves
<1>4. mutex' \in Pollers \cup {Env, Nobody} /\ expired' \subseteq Pollers
  BY <1>1, Types
<1>5. muxed[p] = {}
  BY <1>1 DEF IInv, PollerOk, InPoll
<1> QED
  BY <1>1, <1>3, <1>4, <1>5, QuietKeeps

LEMMA ProduceKeeps ==
  ASSUME IInv, NEW o \in Objects, Produce(o)
  PROVE  IInv'
<1>1. /\ UNCHANGED <<pc, section, irql, idx, list, which, muxed, timed, expired, at>>
      /\ asserted' = asserted \cup {o} /\ notify' = notify \cup {o}
      /\ mutex' \in {Env, mutex} /\ section = Nobody
  BY DEF Produce
<1>2. PollTypeOK'
  <2>1. PollTypeOK
    BY DEF IInv
  <2> QED
    BY <1>1, <2>1 DEF PollTypeOK
<1>3. SectionOk'
  BY <1>1 DEF IInv, SectionOk
<1>4. NoLostEvent'
  BY <1>1 DEF IInv, NoLostEvent
<1>5. (\A q \in Objects : ListOk(q)') /\ (\A p \in Pollers : LinkedOk(p)')
  BY <1>1, ListsKept
<1>6. ASSUME NEW p \in Pollers PROVE PollerOk(p)'
  BY <1>1 DEF IInv, PollerOk, InPoll
<1>7. \A s \in Sleepers : pc'[s] \in {"idle", "sleep", "woken"}
  BY <1>1 DEF IInv
<1> QED
  BY <1>2, <1>3, <1>4, <1>5, <1>6, <1>7 DEF IInv

LEMMA EnterKeeps ==
  ASSUME IInv, NEW p \in Pollers, poll_enter(p)
  PROVE  IInv'
<1>1. /\ UNCHANGED <<list, timed, at, asserted, notify>>
      /\ pc[p] = "idle" /\ section = Nobody /\ asserted \cap Conds = {}
      /\ mutex' \in {p, mutex} /\ pc' = [pc EXCEPT ![p] = "enlist"]
      /\ section' = p /\ irql' = 1 /\ idx' = 1
      /\ which' = [which EXCEPT ![p] = 0] /\ muxed' = [muxed EXCEPT ![p] = {}]
      /\ expired' = expired \ {p}
  BY DEF poll_enter, SWITCH, client_pending
<1>2. "enlist" \in PCs
  BY DEF PCs
<1>3. /\ pc' \in [Threads -> PCs] /\ pc'[p] = "enlist"
      /\ \A q \in Pollers : q # p => pc'[q] = pc[q]
      /\ \A s \in Sleepers : pc'[s] = pc[s]
      /\ \A s \in Sleepers : pc'[s] \in {"idle", "sleep", "woken"}
  BY <1>1, <1>2, PollerMoves
<1>4. muxed[p] = {}
  BY <1>1 DEF IInv, PollerOk, InPoll
<1>5. muxed' = muxed
  BY <1>1, <1>4, Types
<1>6. /\ which' \in [Pollers -> Index \cup {0}] /\ which'[p] = 0
      /\ \A q \in Pollers : q # p => which'[q] = which[q]
  BY <1>1, Types
<1>7. PollTypeOK'
  <2>1. /\ (mutex \in Pollers \cup {Env, Nobody})' /\ (timed \subseteq Pollers)'
        /\ (expired \subseteq Pollers)' /\ (muxed \in [Pollers -> SUBSET Index])'
        /\ (at \in [Sleepers -> Objects \cup {Nobody}])'
        /\ (list \in [Objects -> Seq(Entries)])'
        /\ (asserted \subseteq Objects)' /\ (notify \subseteq Objects)'
    BY <1>1, <1>5, Types
  <2>2. idx' \in 1 .. Len(PollSet) + 1
    BY <1>1, ConstFacts
  <2> QED
    BY <1>1, <1>3, <1>6, <2>1, <2>2 DEF PollTypeOK, PCs, OPEN, SCHED
<1>8. SectionOk'
  <2>1. \A q \in Pollers : pc'[q] = "enlist" <=> q = p
    BY <1>1, <1>3, ConstFacts DEF IInv, SectionOk, Threads
  <2>2. \A i \in Polled : ~(i < 1)
    BY ConstFacts
  <2>3. {i \in Polled : i < 1} = {}
    BY <2>2
  <2>4. p # Nobody
    BY ConstFacts DEF Threads
  <2> QED
    BY <1>1, <1>4, <1>5, <1>6, <2>1, <2>2, <2>3, <2>4 DEF SectionOk, OPEN
<1>9. NoLostEvent'
  BY <1>1, <1>3, NoLostKept
<1>10. (\A q \in Objects : ListOk(q)') /\ (\A q \in Pollers : LinkedOk(q)')
  BY <1>1, <1>3, <1>5, ListsKept
<1>11. ASSUME NEW q \in Pollers PROVE PollerOk(q)'
  <2>1. PollerOk(q)
    BY DEF IInv
  <2>2. CASE q = p
    BY <1>3, <2>2 DEF PollerOk, InPoll
  <2>3. CASE q # p
    BY <1>1, <1>3, <1>5, <1>6, <2>1, <2>3 DEF PollerOk, InPoll
  <2> QED
    BY <2>2, <2>3
<1> QED
  BY <1>3, <1>7, <1>8, <1>9, <1>10, <1>11 DEF IInv

\* What a poller in its loop knows.
LEMMA LoopFacts ==
  ASSUME IInv, NEW p \in Pollers, section = p
  PROVE  /\ p # Nobody /\ pc[p] = "enlist" /\ \A q \in Pollers : pc[q] = "enlist" => q = p
         /\ idx \in Nat /\ irql \in Int /\ irql >= 1 /\ irql <= 3
         /\ which[p] = 0 /\ muxed[p] = {i \in Polled : i < idx}
         /\ asserted \cap Conds = {}
         /\ \A i \in Polled : i < idx => PollSet[i] \notin asserted /\ Level[PollSet[i]] <= irql
<1>1. p # Nobody
  BY ConstFacts DEF Threads
<1>2. SectionOk
  BY DEF IInv
<1>3. irql \in 0 .. 3 /\ idx \in 1 .. Len(PollSet) + 1 /\ Len(PollSet) \in Nat
  BY Types, ConstFacts
<1>4. irql # 0
  BY <1>1, <1>2 DEF SectionOk, OPEN
<1>5. idx \in Nat /\ irql \in Int /\ irql >= 1 /\ irql <= 3
  BY <1>3, <1>4
<1> QED
  BY <1>1, <1>2, <1>5 DEF SectionOk

LEMMA NoneKeeps ==
  ASSUME IInv, NEW p \in Pollers, poll_none(p)
  PROVE  IInv'
<1>1. /\ UNCHANGED <<pc, section, irql, mutex, list, which, muxed, timed, expired, at, asserted,
                     notify>>
      /\ section = p /\ idx \in Index /\ PollSet[idx] = Nobody /\ idx' = idx + 1
  BY DEF poll_none, InLoop
<1>2. idx \in Nat /\ \A i \in Polled : i \in Nat
  BY <1>1, ConstFacts
<1>3. idx \notin Polled
  BY <1>1 DEF Polled
<1>4. \A i \in Polled : i < idx' <=> i < idx
  BY <1>1, <1>2, <1>3
<1>5. PollTypeOK'
  <2>1. PollTypeOK
    BY DEF IInv
  <2>2. idx' \in 1 .. Len(PollSet) + 1
    BY <1>1, ConstFacts
  <2> QED
    BY <1>1, <2>1, <2>2 DEF PollTypeOK
<1>6. SectionOk'
  <2>1. SectionOk
    BY DEF IInv
  <2>2. {i \in Polled : i < idx'} = {i \in Polled : i < idx}
    BY <1>4
  <2> QED
    BY <1>1, <1>4, <2>1, <2>2 DEF SectionOk
<1>7. NoLostEvent'
  BY <1>1, NoLostKept
<1>8. (\A q \in Objects : ListOk(q)') /\ (\A q \in Pollers : LinkedOk(q)')
  BY <1>1, ListsKept
<1>9. ASSUME NEW q \in Pollers PROVE PollerOk(q)'
  BY <1>1 DEF IInv, PollerOk, InPoll
<1>10. \A s \in Sleepers : pc'[s] \in {"idle", "sleep", "woken"}
  BY <1>1 DEF IInv
<1> QED
  BY <1>5, <1>6, <1>7, <1>8, <1>9, <1>10 DEF IInv

\* The poll function of a stream leaves the level at least at that of its
\* interrupt; for a condition the level of threads is enough.
LEMMA RaisedEnough ==
  ASSUME IInv, NEW p \in Pollers, section = p, NEW o \in Objects
  PROVE  /\ RaisedBy(o) \in Int /\ RaisedBy(o) >= irql /\ RaisedBy(o) >= Level[o]
         /\ RaisedBy(o) >= 1 /\ RaisedBy(o) <= 3
<1>1. irql \in Int /\ irql >= 1 /\ irql <= 3
  BY LoopFacts
<1>2. Level[o] \in Int /\ 1 <= Level[o] /\ Level[o] <= 3
  BY ConstFacts
<1>3. CASE o \in Streams
  <2> DEFINE S == {irql, Level[o]}
  <2>1. \E x \in S : \A y \in S : x >= y
    BY <1>1, <1>2
  <2>2. Max(S) \in S /\ \A y \in S : Max(S) >= y
    BY <2>1 DEF Max
  <2>3. RaisedBy(o) = Max(S)
    BY <1>3 DEF RaisedBy
  <2> HIDE DEF S
  <2>4. irql \in S /\ Level[o] \in S
    BY DEF S
  <2>5. RaisedBy(o) >= irql /\ RaisedBy(o) >= Level[o]
    BY <2>2, <2>3, <2>4
  <2>6. RaisedBy(o) = irql \/ RaisedBy(o) = Level[o]
    BY <2>2, <2>3 DEF S
  <2> QED
    BY <1>1, <1>2, <2>5, <2>6
<1>4. CASE o \notin Streams
  <2>1. o \in Conds
    BY <1>4 DEF Streams
  <2>2. Level[o] = 1
    BY <2>1, PollConstants DEF SWITCH
  <2>3. RaisedBy(o) = irql
    BY <1>4 DEF RaisedBy
  <2> QED
    BY <1>1, <2>2, <2>3
<1> QED
  BY <1>3, <1>4

LEMMA EnlistKeeps ==
  ASSUME IInv, NEW p \in Pollers, poll_enlist(p)
  PROVE  IInv'
<1> DEFINE o == PollSet[idx]
<1>1. /\ UNCHANGED <<pc, section, mutex, which, timed, expired, at, asserted, notify>>
      /\ section = p /\ idx \in Index /\ o # Nobody /\ idx' = idx + 1
      /\ ~(o \in Streams /\ o \in asserted) /\ irql' = RaisedBy(o)
      /\ muxed' = [muxed EXCEPT ![p] = @ \cup {idx}]
  BY DEF poll_enlist, InLoop
<1>2. PICK g \in Garbage : list' = [list EXCEPT ![o] = <<Mux(p, idx, g)>> \o @]
  BY DEF poll_enlist
<1> DEFINE x == Mux(p, idx, g)
<1>3. o \in Objects /\ idx \in Polled /\ idx \in Nat /\ \A i \in Polled : i \in Nat
  BY <1>1, ConstFacts DEF Polled
<1>4. g \in Nat
  BY PollConstants
<1>5. x \in Entries /\ x.who = p /\ x.idx = idx
  BY <1>1, <1>4, EntryFields
<1> HIDE DEF x, o
<1>6. /\ list[o] \in Seq(Entries) /\ IsInjective(list[o]) /\ Keyed(ToSet(list[o]))
      /\ \A e \in ToSet(list[o]) : EntryOk(e, o)
  BY <1>3, ListElements DEF IInv, ListOk
<1>7. /\ muxed' \in [Pollers -> SUBSET Index] /\ muxed'[p] = muxed[p] \cup {idx}
      /\ \A q \in Pollers : q # p => muxed'[q] = muxed[q]
  BY <1>1, Types
<1>8. \A e \in ToSet(list[o]) : ~(e.who = p /\ e.idx = idx)
  <2> SUFFICES ASSUME NEW e \in ToSet(list[o]), e.who = p, e.idx = idx PROVE FALSE
    OBVIOUS
  <2>1. EntryOk(e, o) /\ p \notin Sleepers
    BY <1>6, ConstFacts DEF Threads
  <2>2. idx \in muxed[p]
    BY <2>1 DEF EntryOk
  <2>3. idx < idx
    BY <1>1, <2>2, LoopFacts
  <2> QED
    BY <1>3, <2>3
<1>9. x \notin ToSet(list[o])
  BY <1>5, <1>8
<1>10. /\ <<x>> \o list[o] \in Seq(Entries)
       /\ ToSet(<<x>> \o list[o]) = ToSet(list[o]) \cup {x}
       /\ IsInjective(<<x>> \o list[o])
  BY <1>5, <1>6, <1>9, PrependSet
<1>11. /\ list' \in [Objects -> Seq(Entries)] /\ list'[o] = <<x>> \o list[o]
       /\ \A q \in Objects : q # o => list'[q] = list[q]
  BY <1>2, <1>3, <1>10, Types DEF x
<1>12. /\ RaisedBy(o) \in Int /\ RaisedBy(o) >= irql /\ RaisedBy(o) >= Level[o]
       /\ RaisedBy(o) >= 1 /\ RaisedBy(o) <= 3
  BY <1>1, <1>3, RaisedEnough
<1>13. PollTypeOK'
  <2>1. PollTypeOK
    BY DEF IInv
  <2>2. idx' \in 1 .. Len(PollSet) + 1
    BY <1>1, ConstFacts
  <2>3. irql' \in OPEN .. SCHED
    BY <1>1, <1>12 DEF OPEN, SCHED
  <2> QED
    BY <1>1, <1>7, <1>11, <2>1, <2>2, <2>3 DEF PollTypeOK
<1>14. SectionOk'
  <2>1. /\ p # Nobody /\ which[p] = 0 /\ muxed[p] = {i \in Polled : i < idx}
        /\ asserted \cap Conds = {} /\ irql \in Int
        /\ \A i \in Polled : i < idx => PollSet[i] \notin asserted /\ Level[PollSet[i]] <= irql
    BY <1>1, LoopFacts
  <2>2. \A q \in Pollers : pc[q] = "enlist" <=> section = q
    BY DEF IInv, SectionOk
  <2>3. \A i \in Polled : i < idx' <=> i < idx \/ i = idx
    BY <1>1, <1>3
  <2>4. muxed'[p] = {i \in Polled : i < idx'}
    BY <1>3, <1>7, <2>1, <2>3
  <2>5. o \notin asserted
    BY <1>1, <1>3, <2>1 DEF Streams
  <2>6. ASSUME NEW i \in Polled, i < idx'
        PROVE  PollSet[i] \notin asserted /\ Level[PollSet[i]] <= irql'
    <3>1. CASE i < idx
      <4>1. PollSet[i] \notin asserted /\ Level[PollSet[i]] <= irql /\ Level[PollSet[i]] \in Int
        BY <2>1, <3>1, ConstFacts
      <4> QED
        BY <1>1, <1>12, <2>1, <4>1
    <3>2. CASE i = idx
      <4>1. PollSet[i] = o /\ Level[o] \in Int
        BY <1>3, <3>2, ConstFacts DEF o
      <4> QED
        BY <1>1, <1>12, <2>5, <4>1
    <3> QED
      BY <2>3, <2>6, <3>1, <3>2
  <2>7. irql' # 0
    BY <1>1, <1>12
  <2> QED
    BY <1>1, <2>1, <2>2, <2>4, <2>6, <2>7 DEF SectionOk, OPEN
<1>15. NoLostEvent'
  BY <1>1, NoLostKept
<1>16. ASSUME NEW q \in Objects PROVE ListOk(q)'
  <2>1. ListOk(q)
    BY DEF IInv
  <2>2. \A e : EntryOk(e, q) => EntryOk(e, q)'
    BY <1>1, <1>7 DEF EntryOk
  <2>3. CASE q # o
    BY <1>11, <2>1, <2>2, <2>3 DEF ListOk
  <2>4. CASE q = o
    <3>1. \A e : e = x => EntryOk(e, q)'
      BY <1>5, <1>7, <2>4 DEF EntryOk, o
    <3>2. \A e \in ToSet(list'[q]) : e \in ToSet(list[q]) \/ e = x
      BY <1>10, <1>11, <2>4
    <3>3. (\A e \in ToSet(list[q]) : EntryOk(e, q))'
      BY <2>1, <2>2, <3>1, <3>2 DEF ListOk
    <3>4. Keyed(ToSet(list'[q]))
      <4>1. \A e \in ToSet(list[q]) : ~(e.who = x.who /\ e.idx = x.idx)
        BY <1>5, <1>8, <2>4
      <4>2. Keyed(ToSet(list[q]))
        BY <2>1 DEF ListOk
      <4> QED
        BY <3>2, <4>1, <4>2 DEF Keyed
    <3>5. IsInjective(list'[q])
      BY <1>10, <1>11, <2>4
    <3> QED
      BY <3>3, <3>4, <3>5 DEF ListOk
  <2> QED
    BY <2>3, <2>4
<1>17. ASSUME NEW q \in Pollers PROVE LinkedOk(q)'
  <2> SUFFICES ASSUME NEW i \in muxed'[q]
               PROVE  /\ PollSet[i] \in Objects
                      /\ \E e \in ToSet(list'[PollSet[i]]) : e.who = q /\ e.idx = i
    BY DEF LinkedOk
  <2>1. CASE i \in muxed[q]
    <3>1. PollSet[i] \in Objects /\ \E e \in ToSet(list[PollSet[i]]) : e.who = q /\ e.idx = i
      BY <2>1 DEF IInv, LinkedOk
    <3>2. ToSet(list[PollSet[i]]) \subseteq ToSet(list'[PollSet[i]])
      BY <1>10, <1>11, <3>1
    <3> QED
      BY <3>1, <3>2
  <2>2. CASE q = p /\ i = idx
    <3>1. PollSet[i] = o
      BY <2>2 DEF o
    <3>2. x \in ToSet(list'[o])
      BY <1>10, <1>11
    <3> QED
      BY <1>3, <1>5, <2>2, <3>1, <3>2
  <2> QED
    BY <1>7, <2>1, <2>2
<1>18. ASSUME NEW q \in Pollers PROVE PollerOk(q)'
  <2>1. PollerOk(q)
    BY DEF IInv
  <2>2. CASE q # p
    BY <1>1, <1>7, <2>1, <2>2 DEF PollerOk, InPoll
  <2>3. CASE q = p
    <3>1. pc'[p] = "enlist"
      BY <1>1, LoopFacts
    <3> QED
      BY <2>3, <3>1 DEF PollerOk, InPoll
  <2> QED
    BY <2>2, <2>3
<1>19. \A s \in Sleepers : pc'[s] \in {"idle", "sleep", "woken"}
  BY <1>1 DEF IInv
<1> QED
  BY <1>13, <1>14, <1>15, <1>16, <1>17, <1>18, <1>19 DEF IInv

LEMMA AssertedKeeps ==
  ASSUME IInv, NEW p \in Pollers, poll_asserted(p)
  PROVE  IInv'
<1> DEFINE js == muxed[p] \cap 1 .. idx - 1
<1>1. /\ UNCHANGED <<idx, mutex, timed, expired, at, asserted, notify>>
      /\ section = p /\ idx \in Index /\ list' = Unenlisted(p, js)
      /\ which' = [which EXCEPT ![p] = idx] /\ muxed' = [muxed EXCEPT ![p] = {}]
      /\ pc' = [pc EXCEPT ![p] = "done"] /\ section' = Nobody /\ irql' = 0
  BY DEF poll_asserted, InLoop, OPEN
<1>2. "done" \in PCs
  BY DEF PCs
<1>3. /\ pc' \in [Threads -> PCs] /\ pc'[p] = "done"
      /\ \A q \in Pollers : q # p => pc'[q] = pc[q]
      /\ \A s \in Sleepers : pc'[s] = pc[s]
      /\ \A s \in Sleepers : pc'[s] \in {"idle", "sleep", "woken"}
  BY <1>1, <1>2, PollerMoves
<1>4. muxed[p] \subseteq js
  <2>1. muxed[p] = {i \in Polled : i < idx} /\ idx \in Nat
    BY <1>1, LoopFacts
  <2>2. \A i \in Polled : i \in 1 .. Len(PollSet)
    BY ConstFacts
  <2>3. \A i \in Polled : i < idx => i \in 1 .. idx - 1
    BY <2>1, <2>2, ConstFacts
  <2> QED
    BY <2>1, <2>3
<1> HIDE DEF js
<1>5. /\ list' \in [Objects -> Seq(Entries)] /\ muxed' \in [Pollers -> SUBSET Index]
      /\ \A o \in Objects : ListOk(o)'
      /\ \A q \in Pollers : LinkedOk(q)'
  BY <1>1, <1>3, <1>4, UnenlistedKeeps
<1>6. /\ which' \in [Pollers -> Index \cup {0}] /\ which'[p] = idx /\ idx # 0
      /\ \A q \in Pollers : q # p => which'[q] = which[q]
  BY <1>1, Types, ConstFacts
<1>7. PollTypeOK'
  <2>1. PollTypeOK
    BY DEF IInv
  <2> QED
    BY <1>1, <1>3, <1>5, <1>6, <2>1 DEF PollTypeOK, PCs, OPEN, SCHED
<1>8. SectionOk'
  <2>1. \A q \in Pollers : pc'[q] # "enlist" /\ q # Nobody
    BY <1>1, <1>3, LoopFacts, ConstFacts DEF Threads
  <2> QED
    BY <1>1, <2>1 DEF SectionOk, OPEN
<1>9. NoLostEvent'
  BY <1>1, <1>3, NoLostKept
<1>10. ASSUME NEW q \in Pollers PROVE PollerOk(q)'
  <2>1. PollerOk(q)
    BY DEF IInv
  <2>2. CASE q # p
    <3>1. muxed'[q] = muxed[q]
      BY <1>1, <2>2, Types
    <3> QED
      BY <1>1, <1>3, <1>6, <2>1, <2>2, <3>1 DEF PollerOk, InPoll
  <2>3. CASE q = p
    <3>1. muxed'[p] = {}
      BY <1>1, Types
    <3> QED
      BY <1>3, <1>6, <2>3, <3>1 DEF PollerOk
  <2> QED
    BY <2>2, <2>3
<1> QED
  BY <1>3, <1>5, <1>7, <1>8, <1>9, <1>10 DEF IInv

LEMMA SleepKeeps ==
  ASSUME IInv, NEW p \in Pollers, poll_sleep(p)
  PROVE  IInv'
<1>1. /\ UNCHANGED <<idx, list, which, muxed, expired, at, asserted, notify>>
      /\ section = p /\ idx \notin Index /\ mutex' \in {Nobody, mutex}
      /\ pc' = [pc EXCEPT ![p] = "asleep"] /\ section' = Nobody /\ irql' = 0
      /\ timed' \subseteq timed \cup {p}
  BY DEF poll_sleep, OPEN
<1>2. "asleep" \in PCs
  BY DEF PCs
<1>3. /\ pc' \in [Threads -> PCs] /\ pc'[p] = "asleep"
      /\ \A q \in Pollers : q # p => pc'[q] = pc[q]
      /\ \A s \in Sleepers : pc'[s] = pc[s]
      /\ \A s \in Sleepers : pc'[s] \in {"idle", "sleep", "woken"}
  BY <1>1, <1>2, PollerMoves
<1>4. which[p] = 0 /\ muxed[p] = Polled /\ \A i \in Polled : PollSet[i] \notin asserted
  <2>1. /\ which[p] = 0 /\ muxed[p] = {i \in Polled : i < idx}
        /\ \A i \in Polled : i < idx => PollSet[i] \notin asserted
    BY <1>1, LoopFacts
  <2>2. idx \in 1 .. Len(PollSet) + 1 /\ Len(PollSet) \in Nat /\ idx \notin 1 .. Len(PollSet)
    BY <1>1, Types, ConstFacts
  <2>3. idx = Len(PollSet) + 1
    BY <2>2
  <2>4. \A i \in Polled : i \in 1 .. Len(PollSet)
    BY ConstFacts
  <2>5. \A i \in Polled : i < idx
    BY <2>2, <2>3, <2>4
  <2> QED
    BY <2>1, <2>5
<1>5. PollTypeOK'
  <2>1. PollTypeOK
    BY DEF IInv
  <2> QED
    BY <1>1, <1>3, <2>1 DEF PollTypeOK, PCs, OPEN, SCHED
<1>6. SectionOk'
  <2>1. \A q \in Pollers : pc'[q] # "enlist" /\ q # Nobody
    BY <1>1, <1>3, LoopFacts, ConstFacts DEF Threads
  <2> QED
    BY <1>1, <2>1 DEF SectionOk, OPEN
<1>7. NoLostEvent'
  <2> SUFFICES ASSUME NEW q \in Pollers, pc'[q] = "asleep", NEW i \in Index,
                      PollSet[i] \in asserted'
               PROVE  \/ PollSet[i] \in notify'
                      \/ \E s \in Sleepers : pc'[s] = "woken" /\ at'[s] = PollSet[i]
    BY DEF NoLostEvent
  <2>1. CASE q = p
    <3>1. PollSet[i] # Nobody
      BY <1>1, Types, ConstFacts
    <3>2. i \in Polled
      BY <3>1 DEF Polled
    <3> QED
      BY <1>1, <1>4, <3>2
  <2>2. CASE q # p
    BY <1>1, <1>3, <2>2 DEF IInv, NoLostEvent
  <2> QED
    BY <2>1, <2>2
<1>8. (\A q \in Objects : ListOk(q)') /\ (\A q \in Pollers : LinkedOk(q)')
  BY <1>1, <1>3, ListsKept
<1>9. ASSUME NEW q \in Pollers PROVE PollerOk(q)'
  <2>1. PollerOk(q)
    BY DEF IInv
  <2>2. CASE q # p
    BY <1>1, <1>3, <2>1, <2>2 DEF PollerOk, InPoll
  <2>3. CASE q = p
    BY <1>1, <1>3, <1>4, <2>3 DEF PollerOk, InPoll
  <2> QED
    BY <2>2, <2>3
<1> QED
  BY <1>3, <1>5, <1>6, <1>7, <1>8, <1>9 DEF IInv

LEMMA ResumeKeeps ==
  ASSUME IInv, NEW p \in Pollers, poll_resume(p)
  PROVE  IInv'
<1>1. /\ UNCHANGED <<section, irql, idx, which, timed, expired, at, asserted, notify>>
      /\ pc[p] = "awake" /\ section = Nobody /\ list' = Unenlisted(p, muxed[p])
      /\ muxed' = [muxed EXCEPT ![p] = {}] /\ mutex' \in {p, mutex}
  BY DEF poll_resume
<1>2. PICK x \in {"relock", "done"} : pc' = [pc EXCEPT ![p] = x]
  BY DEF poll_resume
<1>3. x \in PCs
  BY DEF PCs
<1>4. /\ pc' \in [Threads -> PCs] /\ pc'[p] = x
      /\ \A q \in Pollers : q # p => pc'[q] = pc[q]
      /\ \A s \in Sleepers : pc'[s] = pc[s]
      /\ \A s \in Sleepers : pc'[s] \in {"idle", "sleep", "woken"}
  BY <1>2, <1>3, PollerMoves
<1>5. /\ list' \in [Objects -> Seq(Entries)] /\ muxed' \in [Pollers -> SUBSET Index]
      /\ \A o \in Objects : ListOk(o)'
      /\ \A q \in Pollers : LinkedOk(q)'
  BY <1>1, <1>4, UnenlistedKeeps
<1>6. PollTypeOK'
  <2>1. PollTypeOK
    BY DEF IInv
  <2> QED
    BY <1>1, <1>4, <1>5, <2>1 DEF PollTypeOK, PCs
<1>7. SectionOk'
  BY <1>1, <1>4 DEF IInv, SectionOk
<1>8. NoLostEvent'
  <2>1. pc'[p] # "asleep"
    BY <1>4
  <2> QED
    BY <1>1, <1>4, <2>1, NoLostKept
<1>9. ASSUME NEW q \in Pollers PROVE PollerOk(q)'
  <2>1. PollerOk(q)
    BY DEF IInv
  <2>2. CASE q # p
    <3>1. muxed'[q] = muxed[q]
      BY <1>1, <2>2, Types
    <3> QED
      BY <1>1, <1>4, <2>1, <2>2, <3>1 DEF PollerOk, InPoll
  <2>3. CASE q = p
    <3>1. muxed'[p] = {}
      BY <1>1, Types
    <3> QED
      BY <1>1, <1>4, <2>1, <2>3, <3>1 DEF PollerOk
  <2> QED
    BY <2>2, <2>3
<1> QED
  BY <1>4, <1>5, <1>6, <1>7, <1>8, <1>9 DEF IInv

\* What only a sleeper does leaves the pollers alone.
LEMMA SleeperMoves ==
  ASSUME IInv, NEW s \in Sleepers, NEW x \in {"idle", "sleep"}, pc' = [pc EXCEPT ![s] = x],
         UNCHANGED <<section, irql, idx, mutex, which, muxed, timed, expired, notify>>,
         section = Nobody
  PROVE  /\ pc' \in [Threads -> PCs] /\ pc'[s] = x
         /\ \A u \in Sleepers : u # s => pc'[u] = pc[u]
         /\ \A p \in Pollers : pc'[p] = pc[p]
         /\ SectionOk'
         /\ \A p \in Pollers : PollerOk(p)'
         /\ \A u \in Sleepers : pc'[u] \in {"idle", "sleep", "woken"}
<1>1. s \in Threads /\ s \notin Pollers /\ x \in PCs
  BY ConstFacts DEF Threads, PCs
<1>2. pc' \in [Threads -> PCs] /\ pc'[s] = x /\ \A u \in Threads : u # s => pc'[u] = pc[u]
  BY <1>1, ThreadMoves
<1>3. /\ \A u \in Sleepers : u # s => pc'[u] = pc[u]
      /\ \A p \in Pollers : pc'[p] = pc[p]
  BY <1>1, <1>2 DEF Threads
<1>4. SectionOk'
  BY <1>3 DEF IInv, SectionOk
<1>5. ASSUME NEW p \in Pollers PROVE PollerOk(p)'
  BY <1>3 DEF IInv, PollerOk, InPoll
<1>6. \A u \in Sleepers : pc'[u] \in {"idle", "sleep", "woken"}
  BY <1>2, <1>3 DEF IInv
<1> QED
  BY <1>2, <1>3, <1>4, <1>5, <1>6

LEMMA ConsumeKeeps ==
  ASSUME IInv, NEW s \in Sleepers, NEW o \in Objects, Consume(s, o)
  PROVE  IInv'
<1>1. /\ UNCHANGED <<section, irql, idx, mutex, list, which, muxed, timed, expired, at, notify>>
      /\ section = Nobody /\ (pc[s] = "idle" \/ (pc[s] = "woken" /\ at[s] = o))
      /\ asserted' = asserted \ {o} /\ pc' = [pc EXCEPT ![s] = "idle"]
  BY DEF Consume
<1>2. /\ pc' \in [Threads -> PCs] /\ pc'[s] = "idle"
      /\ \A u \in Sleepers : u # s => pc'[u] = pc[u]
      /\ \A p \in Pollers : pc'[p] = pc[p]
      /\ SectionOk' /\ (\A p \in Pollers : PollerOk(p)')
      /\ \A u \in Sleepers : pc'[u] \in {"idle", "sleep", "woken"}
  BY <1>1, SleeperMoves
<1>3. PollTypeOK'
  <2>1. PollTypeOK
    BY DEF IInv
  <2> QED
    BY <1>1, <1>2, <2>1 DEF PollTypeOK, PCs
<1>4. NoLostEvent'
  <2> SUFFICES ASSUME NEW p \in Pollers, pc'[p] = "asleep", NEW i \in Index,
                      PollSet[i] \in asserted'
               PROVE  \/ PollSet[i] \in notify'
                      \/ \E u \in Sleepers : pc'[u] = "woken" /\ at'[u] = PollSet[i]
    BY DEF NoLostEvent
  <2>1. PollSet[i] # o /\ PollSet[i] \in asserted
    BY <1>1
  <2>2. CASE PollSet[i] \in notify
    BY <1>1, <2>2
  <2>3. CASE \E u \in Sleepers : pc[u] = "woken" /\ at[u] = PollSet[i]
    <3>1. PICK u \in Sleepers : pc[u] = "woken" /\ at[u] = PollSet[i]
      BY <2>3
    <3>2. u # s
      BY <1>1, <2>1, <3>1
    <3> QED
      BY <1>1, <1>2, <3>1, <3>2
  <2> QED
    BY <1>2, <2>1, <2>2, <2>3 DEF IInv, NoLostEvent
<1>5. (\A q \in Objects : ListOk(q)') /\ (\A q \in Pollers : LinkedOk(q)')
  <2>1. \A u \in Sleepers : pc[u] = "sleep" => pc'[u] = "sleep"
    BY <1>1, <1>2
  <2> QED
    BY <1>1, <2>1, ListsKept
<1> QED
  BY <1>2, <1>3, <1>4, <1>5 DEF IInv

LEMMA TaskSleepKeeps ==
  ASSUME IInv, NEW s \in Sleepers, NEW o \in Objects, task_sleep(s, o)
  PROVE  IInv'
<1> DEFINE pri == [e \in ToSet(list[o]) \cup {Plain(s)} |-> e.prio]
           r == SortedInsert(list[o], Plain(s), pri)
<1>1. /\ UNCHANGED <<section, irql, idx, mutex, which, muxed, timed, expired, asserted, notify>>
      /\ section = Nobody /\ o \notin asserted /\ at' = [at EXCEPT ![s] = o]
      /\ pc[s] = "idle" \/ (pc[s] = "woken" /\ at[s] = o)
      /\ list' = [list EXCEPT ![o] = r] /\ pc' = [pc EXCEPT ![s] = "sleep"]
  BY DEF task_sleep
<1>2. /\ pc' \in [Threads -> PCs] /\ pc'[s] = "sleep"
      /\ \A u \in Sleepers : u # s => pc'[u] = pc[u]
      /\ \A p \in Pollers : pc'[p] = pc[p]
      /\ SectionOk' /\ (\A p \in Pollers : PollerOk(p)')
      /\ \A u \in Sleepers : pc'[u] \in {"idle", "sleep", "woken"}
  BY <1>1, SleeperMoves
<1>3. /\ at' \in [Sleepers -> Objects \cup {Nobody}] /\ at'[s] = o
      /\ \A u \in Sleepers : u # s => at'[u] = at[u]
  BY <1>1, Types
<1>4. \A q \in Objects : \A e \in ToSet(list[q]) : e.who # s
  <2> TAKE q \in Objects
  <2> TAKE e \in ToSet(list[q])
  <2>1. EntryOk(e, q) /\ s \notin Pollers
    BY ConstFacts DEF IInv, ListOk, Threads
  <2> QED
    BY <1>1, <2>1 DEF EntryOk
<1>5. Plain(s) \in Entries /\ Plain(s).who = s /\ Plain(s).idx = 0
  BY EntryFields
<1>6. list[o] \in Seq(Entries) /\ IsInjective(list[o]) /\ Plain(s) \notin ToSet(list[o])
  BY <1>4, <1>5, ListElements DEF IInv, ListOk
<1> HIDE DEF pri
<1>7. /\ r \in Seq(Entries) /\ ToSet(r) = ToSet(list[o]) \cup {Plain(s)} /\ IsInjective(r)
  BY <1>5, <1>6, SortedInsertSet
<1> HIDE DEF r
<1>8. /\ list' \in [Objects -> Seq(Entries)] /\ list'[o] = r
      /\ \A q \in Objects : q # o => list'[q] = list[q]
  BY <1>1, <1>7, Types
<1>9. PollTypeOK'
  <2>1. PollTypeOK
    BY DEF IInv
  <2> QED
    BY <1>1, <1>2, <1>3, <1>8, <2>1 DEF PollTypeOK, PCs
<1>10. NoLostEvent'
  <2> SUFFICES ASSUME NEW p \in Pollers, pc'[p] = "asleep", NEW i \in Index,
                      PollSet[i] \in asserted'
               PROVE  \/ PollSet[i] \in notify'
                      \/ \E u \in Sleepers : pc'[u] = "woken" /\ at'[u] = PollSet[i]
    BY DEF NoLostEvent
  <2>1. PollSet[i] # o /\ PollSet[i] \in asserted
    BY <1>1
  <2>2. CASE PollSet[i] \in notify
    BY <1>1, <2>2
  <2>3. CASE \E u \in Sleepers : pc[u] = "woken" /\ at[u] = PollSet[i]
    <3>1. PICK u \in Sleepers : pc[u] = "woken" /\ at[u] = PollSet[i]
      BY <2>3
    <3>2. u # s
      BY <1>1, <2>1, <3>1
    <3> QED
      BY <1>2, <1>3, <3>1, <3>2
  <2> QED
    BY <1>2, <2>1, <2>2, <2>3 DEF IInv, NoLostEvent
<1>11. ASSUME NEW q \in Objects PROVE ListOk(q)'
  <2>1. ListOk(q)
    BY DEF IInv
  <2>2. \A e \in ToSet(list[q]) : EntryOk(e, q)'
    <3> TAKE e \in ToSet(list[q])
    <3>1. EntryOk(e, q) /\ e.who # s
      BY <1>4, <2>1 DEF ListOk
    <3> QED
      BY <1>1, <1>2, <1>3, <3>1 DEF EntryOk
  <2>3. CASE q # o
    BY <1>8, <2>1, <2>2, <2>3 DEF ListOk
  <2>4. CASE q = o
    <3>1. EntryOk(Plain(s), o)'
      BY <1>2, <1>3, <1>5 DEF EntryOk
    <3>2. \A e \in ToSet(list'[o]) : EntryOk(e, o)'
      BY <1>7, <1>8, <2>2, <2>4, <3>1
    <3>3. Keyed(ToSet(list'[o]))
      BY <1>4, <1>5, <1>7, <1>8, <2>1, <2>4 DEF Keyed, ListOk
    <3> QED
      BY <1>7, <1>8, <2>4, <3>2, <3>3 DEF ListOk
  <2> QED
    BY <2>3, <2>4
<1>12. ASSUME NEW p \in Pollers PROVE LinkedOk(p)'
  <2> SUFFICES ASSUME NEW i \in muxed[p]
               PROVE  /\ PollSet[i] \in Objects
                      /\ \E e \in ToSet(list'[PollSet[i]]) : e.who = p /\ e.idx = i
    BY <1>1 DEF LinkedOk
  <2>1. PollSet[i] \in Objects /\ \E e \in ToSet(list[PollSet[i]]) : e.who = p /\ e.idx = i
    BY DEF IInv, LinkedOk
  <2>2. ToSet(list[PollSet[i]]) \subseteq ToSet(list'[PollSet[i]])
    BY <1>7, <1>8, <2>1
  <2> QED
    BY <2>1, <2>2
<1> QED
  BY <1>2, <1>9, <1>10, <1>11, <1>12 DEF IInv

-----------------------------------------------------------------------------
(* The theorems.                                                           *)

LEMMA NextKeeps == IInv /\ [Next]_vars => IInv'
<1> SUFFICES ASSUME IInv, [Next]_vars PROVE IInv'
  OBVIOUS
<1>1. ASSUME NEW p \in Pollers,
             \/ Serve(p) \/ poll_enter(p)
             \/ poll_none(p) \/ poll_enlist(p) \/ poll_asserted(p) \/ poll_sleep(p)
             \/ poll_timeout(p) \/ poll_resume(p) \/ poll_relock(p) \/ Handle(p)
      PROVE  IInv'
  BY <1>1, ServeKeeps, EnterKeeps, NoneKeeps, EnlistKeeps, AssertedKeeps, SleepKeeps,
     TimeoutKeeps, ResumeKeeps, RelockKeeps, HandleKeeps
<1>2. ASSUME NEW o \in Objects, Interrupt(o) \/ Produce(o) \/ Notify(o)
      PROVE  IInv'
  BY <1>2, InterruptKeeps, ProduceKeeps, NotifyKeeps
<1>3. ASSUME NEW s \in Sleepers, NEW o \in Objects, Consume(s, o) \/ task_sleep(s, o)
      PROVE  IInv'
  BY <1>3, ConsumeKeeps, TaskSleepKeeps
<1>4. ASSUME UNCHANGED vars
      PROVE  IInv'
  BY <1>4 DEF vars, IInv, PollTypeOK, SectionOk, NoLostEvent, ListOk, EntryOk, PollerOk, InPoll,
              LinkedOk
<1> QED
  BY <1>1, <1>2, <1>3, <1>4 DEF Next

\* The invariant above holds in every state poll() can reach.
THEOREM PollInductive == Spec => []IInv
<1> QED
  BY InitKeeps, NextKeeps, PTL DEF Spec

\* The wait lists have their types, and a task on a poller's stack is linked,
\* once and on the list of its object, exactly when its t_state says so.
THEOREM PollInvCorrect == Spec => []PollInv
<1>1. IInv => PollInv
  <2> SUFFICES ASSUME IInv PROVE PollInv
    OBVIOUS
  <2>1. ASSUME NEW o \in Objects, NEW e \in ToSet(list[o]), e.idx # 0
        PROVE  InPoll(e.who) /\ e.idx \in muxed[e.who] /\ PollSet[e.idx] = o
    <3>1. EntryOk(e, o)
      BY DEF IInv, ListOk
    <3>2. e.who \in Pollers /\ e.idx \in muxed[e.who] /\ PollSet[e.idx] = o
      BY <2>1, <3>1, EntryFields DEF EntryOk
    <3>3. InPoll(e.who)
      BY <3>2 DEF IInv, PollerOk
    <3> QED
      BY <3>2, <3>3
  <2>2. ASSUME NEW p \in Pollers, NEW i \in muxed[p]
        PROVE  Cardinality({k \in 1 .. Len(list[PollSet[i]]) :
                              /\ list[PollSet[i]][k].who = p
                              /\ list[PollSet[i]][k].idx = i}) = 1
    <3> DEFINE s == list[PollSet[i]]
               K == {k \in 1 .. Len(s) : s[k].who = p /\ s[k].idx = i}
    <3>1. PollSet[i] \in Objects /\ \E e \in ToSet(s) : e.who = p /\ e.idx = i
      BY DEF IInv, LinkedOk
    <3>2. s \in Seq(Entries) /\ IsInjective(s) /\ Keyed(ToSet(s))
      BY <3>1, ListElements DEF IInv, ListOk
    <3> HIDE DEF s
    <3>3. DOMAIN s = 1 .. Len(s)
      BY <3>2
    <3>4. PICK k \in 1 .. Len(s) : s[k].who = p /\ s[k].idx = i
      BY <3>1, <3>3 DEF ToSet
    <3>5. \A j \in K : s[j] = s[k]
      BY <3>2, <3>3, <3>4 DEF ToSet, Keyed
    <3>6. \A j \in K : j = k
      BY <3>2, <3>3, <3>5 DEF IsInjective
    <3>7. K = {k}
      BY <3>4, <3>6
    <3> QED
      BY <3>7, FS_Singleton DEF s
  <2> QED
    BY <2>1, <2>2 DEF IInv, PollInv, StackTasksLinked
<1> QED
  BY <1>1, PollInductive, PTL

\* No event is lost between poll's look at an object and its sleep.
THEOREM NoLostEventCorrect == Spec => []NoLostEvent
<1>1. IInv => NoLostEvent
  BY DEF IInv
<1> QED
  BY <1>1, PollInductive, PTL

\* poll returns -1 only when its deadline has passed and no event has taken one
\* of its tasks off a list before its clean-up.
THEOREM MinusOneMeansTimeoutCorrect == Spec => []MinusOneMeansTimeout
<1>1. IInv => MinusOneMeansTimeout
  BY DEF IInv, PollerOk, MinusOneMeansTimeout, Polled
<1> QED
  BY <1>1, PollInductive, PTL
=============================================================================
