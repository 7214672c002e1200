---------------------------- MODULE SchedProofs ----------------------------
(***************************************************************************)
(* Proofs about the scheduler, for any number of threads and priorities.   *)
(* LinkInv is inductive: every task is linked where its state says, exactly*)
(* once, and active_queues tells the truth.  On top of it: mutexes exclude *)
(* and forget nobody; scheduling is by strict priority and wait lists are  *)
(* in its order; and sleeps with a deadline, where the timer on the        *)
(* sleeper's stack, the callback and the wakeup race.                      *)
(*                                                                         *)
(* The last part is about ThreadLife, for any number of joiners and        *)
(* readers of the thread list: the scheduler's lists stay intact although  *)
(* blocks exit, are queued as tasks and come back, and the reference counts*)
(* decide rightly when a block goes.                                       *)
(***************************************************************************)
EXTENDS ThreadLife, TaskListProofs

-----------------------------------------------------------------------------
(* How one step may change the lists and the states *)

\* List p of f, which has the lists D of elements of S, gains element t in g.
Grows(D, S, f, g, p, t) ==
  /\ f \in [D -> Seq(S)] /\ g \in [D -> Seq(S)] /\ p \in D
  /\ IsInjective(g[p])
  /\ ToSet(g[p]) = ToSet(f[p]) \cup {t}
  /\ \A q \in D \ {p} : g[q] = f[q]

\* List p of f loses element t in g.
Shrinks(D, S, f, g, p, t) ==
  /\ f \in [D -> Seq(S)] /\ g \in [D -> Seq(S)] /\ p \in D
  /\ t \in ToSet(f[p])
  /\ IsInjective(g[p])
  /\ ToSet(g[p]) = ToSet(f[p]) \ {t}
  /\ \A q \in D \ {p} : g[q] = f[q]

\* Task t enters state x, and no other task of S enters or leaves it.
Enters(S, x, st, st2, t) ==
  /\ t \in S
  /\ st[t] # x /\ st2[t] = x
  /\ \A u \in S \ {t} : st2[u] = x <=> st[u] = x

\* Task t leaves state x, or is not in it, and no other enters or leaves it.
Leaves(S, x, st, st2, t) ==
  /\ t \in S
  /\ st2[t] # x
  /\ \A u \in S \ {t} : st2[u] = x <=> st[u] = x

\* The priorities are pri2, which gives p to t and keeps those of READY tasks.
SamePrios(st, pri, pri2, t, p) ==
  /\ pri \in [Schedulable -> Prios] /\ pri2 \in [Schedulable -> Prios]
  /\ pri2[t] = p
  /\ \A u \in Schedulable \ {t} : st[u] = "READY" => pri2[u] = pri[u]

\* The frames of the sleepers in st other than t are the same in o2 and c2.
SameFrames(st, o, c, o2, c2, t) ==
  \A u \in Threads \ {t} : st[u] = "SLEEPING" => o2[u] = o[u] /\ c2[u] = c[u]

\* The same threads sleep, in the same frames.
SameSleepers(st, o, c, st2, o2, c2) ==
  /\ \A u \in Threads : st2[u] = "SLEEPING" <=> st[u] = "SLEEPING"
  /\ \A u \in Threads : st[u] = "SLEEPING" => o2[u] = o[u] /\ c2[u] = c[u]

-----------------------------------------------------------------------------
(* What the lists rest on *)

\* TypeOK, without the assumption that no thread has exited and that only plain
\* tasks have their function called: ThreadLife has both.
CoreTypes ==
  /\ current \in Threads \cup {Idle}
  /\ state \in [Schedulable -> States]
  /\ prio \in [Schedulable -> Prios]
  /\ readyq \in [Prios -> Seq(Schedulable)]
  /\ active \subseteq Prios
  /\ waiters \in [Lists -> Seq(Threads)]
  /\ lock \in [Mutexes -> BOOLEAN]
  /\ holds \in [Threads -> SUBSET Mutexes]
  /\ pc \in [Threads -> {"none", "run", "sleep", "sleept", "until", "lock", "exited"}]
  /\ on \in [Threads -> Lists \cup {Nobody}]
  /\ relock \in [Threads -> Mutexes \cup {Nobody}]
  /\ armed \subseteq Threads /\ signalled \subseteq Threads
  /\ clk \in Threads \cup {Nobody}
  /\ waking \in Waitables \cup {Nobody}
  /\ pend \in BOOLEAN /\ insw \in BOOLEAN
  /\ softirq \subseteq SoftIrqs /\ todo \subseteq SoftIrqs
  /\ running \in Threads \cup Tasks \cup {Nobody}

\* Control, with threads that have exited: they are ZOMBIE, or released and
\* handled like tasks.
CoreControl ==
  /\ \A t \in Schedulable : state[t] = "RUNNING" => t = current
  /\ \A t \in Threads :
       /\ pc[t] = "none" => state[t] = "NONE"
       /\ state[t] \in {"NONE", "ZOMBIE"} => pc[t] \in {"none", "exited"}
       /\ state[t] = "SLEEPING" => pc[t] # "run"
       /\ pc[t] = "lock" => on[t] \in Mutexes
       /\ t \in armed \/ clk = t => pc[t] \in {"sleept", "until"}
  /\ \A k \in Tasks : state[k] \in {"NONE", "READY"}
  /\ state[Idle] \in {"ZOMBIE", "READY", "RUNNING"}
  /\ waking # Nobody => waiters[waking] # <<>>

Core == CoreTypes /\ ReadyOnce /\ ActiveQueues /\ WaitingOnce /\ CoreControl

\* What LinkInv says beyond this: no thread exits.
NoExits == (\A t \in Threads : pc[t] # "exited") /\ running \in Tasks \cup {Nobody}

-----------------------------------------------------------------------------
(* What the elementary list operations do to Queued and Enlisted *)

\* Putting a task that is not READY on the queue of its priority.
LEMMA QueuedAdd ==
  ASSUME NEW rq, NEW rq2, NEW st, NEW st2, NEW pri, NEW pri2,
         NEW t, NEW p, Queued(rq, st, pri),
         Grows(Prios, Schedulable, rq, rq2, p, t),
         Enters(Schedulable, "READY", st, st2, t),
         SamePrios(st, pri, pri2, t, p)
  PROVE  Queued(rq2, st2, pri2)
<1>1. /\ t \in Schedulable /\ p \in Prios
      /\ ToSet(rq2[p]) = ToSet(rq[p]) \cup {t}
      /\ \A q \in Prios \ {p} : rq2[q] = rq[q]
  BY DEF Grows, Enters
<1>0. /\ pri \in [Schedulable -> Prios] /\ pri2 \in [Schedulable -> Prios]
      /\ pri2[t] = p
      /\ \A u \in Schedulable \ {t} : st[u] = "READY" => pri2[u] = pri[u]
  BY DEF SamePrios
<1>2. /\ st[t] # "READY" /\ st2[t] = "READY"
      /\ \A u \in Schedulable \ {t} : st2[u] = "READY" <=> st[u] = "READY"
  BY DEF Enters
<1>3. \A q \in Prios : ToSet(rq[q]) \subseteq Schedulable
  BY DEF Grows, ToSet
<1>4. \A q \in Prios : IsInjective(rq2[q])
  BY <1>1 DEF Grows, Queued
<1>5. ASSUME NEW q \in Prios, NEW u \in ToSet(rq2[q])
      PROVE  st2[u] = "READY" /\ pri2[u] = q
  <2>1. CASE u = t
    <3>1. t \notin ToSet(rq[q])
      BY <1>2 DEF Queued
    <3>2. q = p
      BY <1>1, <1>5, <2>1, <3>1
    <3> QED
      BY <1>0, <1>2, <2>1, <3>2
  <2>2. CASE u # t
    <3>1. u \in ToSet(rq[q])
      <4>1. CASE q = p
        <5>1. u \in ToSet(rq2[p])
          BY <1>5, <4>1
        <5> QED
          BY <1>1, <2>2, <4>1, <5>1
      <4>2. CASE q # p
        <5>1. rq2[q] = rq[q]
          BY <1>1, <4>2
        <5> QED
          BY <1>5, <5>1
      <4> QED
        BY <4>1, <4>2
    <3>2. st[u] = "READY" /\ pri[u] = q /\ u \in Schedulable
      BY <1>3, <3>1 DEF Queued
    <3> QED
      BY <1>0, <1>2, <2>2, <3>2
  <2> QED
    BY <2>1, <2>2
<1>6. ASSUME NEW u \in Schedulable, st2[u] = "READY"
      PROVE  u \in ToSet(rq2[pri2[u]])
  <2>1. CASE u = t
    BY <1>0, <1>1, <2>1
  <2>2. CASE u # t
    <3>1. st[u] = "READY" /\ pri2[u] = pri[u] /\ u \in ToSet(rq[pri[u]])
      BY <1>0, <1>2, <1>6, <2>2 DEF Queued
    <3>2. pri[u] \in Prios
      BY <1>0
    <3> QED
      BY <1>1, <3>1, <3>2
  <2> QED
    BY <2>1, <2>2
<1> QED
  BY <1>4, <1>5, <1>6 DEF Queued

\* The bit of a queue that has gained a task is set.
LEMMA NonEmptyAdd ==
  ASSUME NEW rq, NEW rq2, NEW t, NEW p, Grows(Prios, Schedulable, rq, rq2, p, t)
  PROVE  NonEmpty(rq2) = NonEmpty(rq) \cup {p}
<1>1. rq2[p] \in Seq(Schedulable) /\ t \in ToSet(rq2[p])
  BY DEF Grows
<1>2. rq2[p] # <<>>
  BY <1>1, InhabitedSeq
<1>3. \A q \in Prios : rq2[q] # <<>> <=> rq[q] # <<>> \/ q = p
  BY <1>2 DEF Grows
<1> QED
  BY <1>3 DEF NonEmpty, Grows

\* Taking a task off its ready queue.
LEMMA QueuedTake ==
  ASSUME NEW rq, NEW rq2, NEW st, NEW st2, NEW pri, NEW t, NEW p,
         Queued(rq, st, pri), pri \in [Schedulable -> Prios],
         Shrinks(Prios, Schedulable, rq, rq2, p, t),
         Leaves(Schedulable, "READY", st, st2, t)
  PROVE  Queued(rq2, st2, pri)
<1>1. /\ p \in Prios /\ t \in ToSet(rq[p])
      /\ ToSet(rq2[p]) = ToSet(rq[p]) \ {t}
      /\ \A q \in Prios \ {p} : rq2[q] = rq[q]
  BY DEF Shrinks
<1>2. /\ t \in Schedulable /\ st2[t] # "READY"
      /\ \A u \in Schedulable \ {t} : st2[u] = "READY" <=> st[u] = "READY"
  BY DEF Leaves
<1>3. \A q \in Prios : ToSet(rq[q]) \subseteq Schedulable
  BY DEF Shrinks, ToSet
<1>4. \A q \in Prios : IsInjective(rq2[q])
  BY <1>1 DEF Shrinks, Queued
<1>5. pri[t] = p
  BY <1>1 DEF Queued
<1>6. ASSUME NEW q \in Prios, NEW u \in ToSet(rq2[q])
      PROVE  st2[u] = "READY" /\ pri[u] = q
  <2>1. u \in ToSet(rq[q]) /\ u # t
    <3>1. CASE q = p
      <4>1. u \in ToSet(rq2[p])
        BY <1>6, <3>1
      <4> QED
        BY <1>1, <3>1, <4>1
    <3>2. CASE q # p
      <4>1. rq2[q] = rq[q]
        BY <1>1, <3>2
      <4>2. u \in ToSet(rq[q])
        BY <1>6, <4>1
      <4>3. pri[u] = q
        BY <4>2 DEF Queued
      <4> QED
        BY <1>5, <3>2, <4>2, <4>3
    <3> QED
      BY <3>1, <3>2
  <2>2. st[u] = "READY" /\ pri[u] = q /\ u \in Schedulable
    BY <1>3, <2>1 DEF Queued
  <2> QED
    BY <1>2, <2>1, <2>2
<1>7. ASSUME NEW u \in Schedulable, st2[u] = "READY"
      PROVE  u \in ToSet(rq2[pri[u]])
  <2>1. u # t /\ st[u] = "READY" /\ u \in ToSet(rq[pri[u]])
    BY <1>2, <1>7 DEF Queued
  <2>2. CASE pri[u] = p
    <3>1. u \in ToSet(rq2[p])
      BY <1>1, <2>1, <2>2
    <3> QED
      BY <2>2, <3>1
  <2>3. CASE pri[u] # p
    <3>1. rq2[pri[u]] = rq[pri[u]]
      BY <1>1, <2>3
    <3> QED
      BY <2>1, <3>1
  <2> QED
    BY <2>2, <2>3
<1> QED
  BY <1>4, <1>6, <1>7 DEF Queued

\* The bit of a queue that has lost its last task is cleared.
LEMMA NonEmptyTake ==
  ASSUME NEW rq, NEW rq2, NEW t, NEW p, Shrinks(Prios, Schedulable, rq, rq2, p, t)
  PROVE  /\ rq2[p] = <<>> => NonEmpty(rq2) = NonEmpty(rq) \ {p}
         /\ rq2[p] # <<>> => NonEmpty(rq2) = NonEmpty(rq)
<1>1. rq[p] \in Seq(Schedulable) /\ t \in ToSet(rq[p])
  BY DEF Shrinks
<1>2. rq[p] # <<>>
  BY <1>1, InhabitedSeq
<1>3. \A q \in Prios : rq2[q] # <<>> <=> rq[q] # <<>> /\ (q = p => rq2[p] # <<>>)
  BY <1>2 DEF Shrinks
<1> QED
  BY <1>3 DEF NonEmpty, Shrinks

\* Steps that leave the ready queues and the READY tasks alone.
LEMMA QueuedKeep ==
  ASSUME NEW rq, NEW st, NEW pri, NEW st2, NEW pri2, Queued(rq, st, pri),
         rq \in [Prios -> Seq(Schedulable)],
         \A u \in Schedulable : st2[u] = "READY" <=> st[u] = "READY",
         \A u \in Schedulable : st[u] = "READY" => pri2[u] = pri[u]
  PROVE  Queued(rq, st2, pri2)
<1>1. \A q \in Prios : ToSet(rq[q]) \subseteq Schedulable
  BY DEF ToSet
<1> QED
  BY <1>1 DEF Queued

\* Enlisting a thread that goes to sleep.
LEMMA EnlistedAdd ==
  ASSUME NEW wt, NEW wt2, NEW st, NEW o, NEW c, NEW st2, NEW o2, NEW c2,
         NEW t, NEW w, Enlisted(wt, st, o, c),
         Grows(Lists, Threads, wt, wt2, w, t),
         Enters(Threads, "SLEEPING", st, st2, t),
         SameFrames(st, o, c, o2, c2, t),
         o2[t] = w, c2[t] \in SleepPcs(w)
  PROVE  Enlisted(wt2, st2, o2, c2)
<1>1. /\ t \in Threads /\ w \in Lists
      /\ ToSet(wt2[w]) = ToSet(wt[w]) \cup {t}
      /\ \A v \in Lists \ {w} : wt2[v] = wt[v]
  BY DEF Grows, Enters
<1>2. /\ st[t] # "SLEEPING" /\ st2[t] = "SLEEPING"
      /\ \A u \in Threads \ {t} : st2[u] = "SLEEPING" <=> st[u] = "SLEEPING"
      /\ \A u \in Threads \ {t} : st[u] = "SLEEPING" => o2[u] = o[u] /\ c2[u] = c[u]
  BY DEF Enters, SameFrames
<1>3. \A v \in Lists : ToSet(wt[v]) \subseteq Threads
  BY DEF Grows, ToSet
<1>4. \A v \in Lists : IsInjective(wt2[v])
  BY <1>1 DEF Grows, Enlisted
<1>5. ASSUME NEW v \in Lists, NEW u \in ToSet(wt2[v])
      PROVE  st2[u] = "SLEEPING" /\ o2[u] = v /\ c2[u] \in SleepPcs(v)
  <2>1. CASE u = t
    <3>1. t \notin ToSet(wt[v])
      BY <1>2 DEF Enlisted
    <3>2. v = w
      BY <1>1, <1>5, <2>1, <3>1
    <3> QED
      BY <1>2, <2>1, <3>2
  <2>2. CASE u # t
    <3>1. u \in ToSet(wt[v])
      <4>1. CASE v = w
        <5>1. u \in ToSet(wt2[w])
          BY <1>5, <4>1
        <5> QED
          BY <1>1, <2>2, <4>1, <5>1
      <4>2. CASE v # w
        <5>1. wt2[v] = wt[v]
          BY <1>1, <4>2
        <5> QED
          BY <1>5, <5>1
      <4> QED
        BY <4>1, <4>2
    <3>2. st[u] = "SLEEPING" /\ o[u] = v /\ c[u] \in SleepPcs(v) /\ u \in Threads
      BY <1>3, <3>1 DEF Enlisted
    <3> QED
      BY <1>2, <2>2, <3>2
  <2> QED
    BY <2>1, <2>2
<1>6. ASSUME NEW u \in Threads, st2[u] = "SLEEPING", c2[u] # "until"
      PROVE  o2[u] \in Lists /\ u \in ToSet(wt2[o2[u]])
  <2>1. CASE u = t
    BY <1>1, <2>1
  <2>2. CASE u # t
    <3>1. /\ o2[u] = o[u] /\ o[u] \in Lists /\ u \in ToSet(wt[o[u]])
      BY <1>2, <1>6, <2>2 DEF Enlisted
    <3>2. CASE o[u] = w
      <4>1. u \in ToSet(wt2[w])
        BY <1>1, <3>1, <3>2
      <4> QED
        BY <3>1, <3>2, <4>1
    <3>3. CASE o[u] # w
      <4>1. wt2[o[u]] = wt[o[u]]
        BY <1>1, <3>1, <3>3
      <4> QED
        BY <3>1, <4>1
    <3> QED
      BY <3>2, <3>3
  <2> QED
    BY <2>1, <2>2
<1> QED
  BY <1>4, <1>5, <1>6 DEF Enlisted

\* Taking a thread that is woken off its list.
LEMMA EnlistedDel ==
  ASSUME NEW wt, NEW wt2, NEW st, NEW o, NEW c, NEW st2, NEW t, NEW w,
         Enlisted(wt, st, o, c),
         Shrinks(Lists, Threads, wt, wt2, w, t),
         Leaves(Threads, "SLEEPING", st, st2, t)
  PROVE  Enlisted(wt2, st2, o, c)
<1>1. /\ w \in Lists /\ t \in ToSet(wt[w])
      /\ ToSet(wt2[w]) = ToSet(wt[w]) \ {t}
      /\ \A v \in Lists \ {w} : wt2[v] = wt[v]
  BY DEF Shrinks
<1>2. /\ t \in Threads /\ st2[t] # "SLEEPING"
      /\ \A u \in Threads \ {t} : st2[u] = "SLEEPING" <=> st[u] = "SLEEPING"
  BY DEF Leaves
<1>3. \A v \in Lists : ToSet(wt[v]) \subseteq Threads
  BY DEF Shrinks, ToSet
<1>4. o[t] = w
  BY <1>1 DEF Enlisted
<1>5. \A v \in Lists : IsInjective(wt2[v])
  BY <1>1 DEF Shrinks, Enlisted
<1>6. ASSUME NEW v \in Lists, NEW u \in ToSet(wt2[v])
      PROVE  st2[u] = "SLEEPING" /\ o[u] = v /\ c[u] \in SleepPcs(v)
  <2>1. u \in ToSet(wt[v]) /\ u # t
    <3>1. CASE v = w
      <4>1. u \in ToSet(wt2[w])
        BY <1>6, <3>1
      <4> QED
        BY <1>1, <3>1, <4>1
    <3>2. CASE v # w
      <4>1. wt2[v] = wt[v]
        BY <1>1, <3>2
      <4>2. u \in ToSet(wt[v])
        BY <1>6, <4>1
      <4>3. o[u] = v
        BY <4>2 DEF Enlisted
      <4> QED
        BY <1>4, <3>2, <4>2, <4>3
    <3> QED
      BY <3>1, <3>2
  <2>2. st[u] = "SLEEPING" /\ o[u] = v /\ c[u] \in SleepPcs(v) /\ u \in Threads
    BY <1>3, <2>1 DEF Enlisted
  <2> QED
    BY <1>2, <2>1, <2>2
<1>7. ASSUME NEW u \in Threads, st2[u] = "SLEEPING", c[u] # "until"
      PROVE  o[u] \in Lists /\ u \in ToSet(wt2[o[u]])
  <2>1. u # t /\ o[u] \in Lists /\ u \in ToSet(wt[o[u]])
    BY <1>2, <1>7 DEF Enlisted
  <2>2. CASE o[u] = w
    <3>1. u \in ToSet(wt2[w])
      BY <1>1, <2>1, <2>2
    <3> QED
      BY <2>1, <2>2, <3>1
  <2>3. CASE o[u] # w
    <3>1. wt2[o[u]] = wt[o[u]]
      BY <1>1, <2>1, <2>3
    <3> QED
      BY <2>1, <3>1
  <2> QED
    BY <2>2, <2>3
<1> QED
  BY <1>5, <1>6, <1>7 DEF Enlisted

\* Steps that leave the wait lists and the sleepers alone.
LEMMA EnlistedKeep ==
  ASSUME NEW wt \in [Lists -> Seq(Threads)], NEW st, NEW o, NEW c,
         NEW st2, NEW o2, NEW c2, Enlisted(wt, st, o, c),
         SameSleepers(st, o, c, st2, o2, c2)
  PROVE  Enlisted(wt, st2, o2, c2)
<1>1. \A v \in Lists : ToSet(wt[v]) \subseteq Threads
  BY DEF ToSet
<1> QED
  BY <1>1 DEF Enlisted, SameSleepers

-----------------------------------------------------------------------------
(* What the elementary actions do to Core *)

\* A task that is not READY goes to the tail of its ready queue, and st is the
\* state after that.
LEMMA InsertedQueue ==
  ASSUME Core, NEW t \in Schedulable, state[t] # "READY", NEW st,
         st[t] = "READY", \A u \in Schedulable \ {t} : st[u] = state[u],
         readyq' = [readyq EXCEPT ![prio[t]] = Append(@, t)]
  PROVE  /\ readyq' \in [Prios -> Seq(Schedulable)]
         /\ Queued(readyq', st, prio)
         /\ NonEmpty(readyq') = NonEmpty(readyq) \cup {prio[t]}
<1> DEFINE p == prio[t]
           a == Append(readyq[p], t)
<1>1. /\ readyq \in [Prios -> Seq(Schedulable)] /\ prio \in [Schedulable -> Prios]
      /\ Queued(readyq, state, prio)
  BY DEF Core, CoreTypes, ReadyOnce
<1>2. /\ p \in Prios /\ readyq[p] \in Seq(Schedulable)
      /\ IsInjective(readyq[p]) /\ t \notin ToSet(readyq[p])
  BY <1>1 DEF Queued
<1>3. /\ a \in Seq(Schedulable) /\ a # <<>> /\ IsInjective(a)
      /\ ToSet(a) = ToSet(readyq[p]) \cup {t}
  BY <1>2, AppendSet
<1>4. readyq' = [readyq EXCEPT ![p] = a] /\ prio[t] = p
  OBVIOUS
<1> HIDE DEF a, p
<1>5. Grows(Prios, Schedulable, readyq, readyq', p, t)
  <2>1. readyq' \in [Prios -> Seq(Schedulable)]
    BY <1>1, <1>2, <1>3, <1>4
  <2>2. readyq'[p] = a /\ \A q \in Prios \ {p} : readyq'[q] = readyq[q]
    BY <1>1, <1>2, <1>4
  <2>3. IsInjective(readyq'[p]) /\ ToSet(readyq'[p]) = ToSet(readyq[p]) \cup {t}
    BY <1>3, <2>2
  <2> QED
    BY <1>1, <1>2, <2>1, <2>2, <2>3, Zenon DEF Grows
<1>6. Enters(Schedulable, "READY", state, st, t)
  BY DEF Enters
<1>7. SamePrios(state, prio, prio, t, p)
  BY <1>1, <1>4 DEF SamePrios
<1>8. Queued(readyq, state, prio)
  BY <1>1
<1>9. Queued(readyq', st, prio)
  BY <1>5, <1>6, <1>7, <1>8, QueuedAdd, SMTT(30)
<1>10. NonEmpty(readyq') = NonEmpty(readyq) \cup {p}
  BY <1>5, NonEmptyAdd
<1> QED
  BY <1>4, <1>5, <1>9, <1>10 DEF Grows

\* readyqueue_insert of a task that is on no ready queue.
LEMMA ReadyInsert ==
  ASSUME Core, NEW t \in Schedulable, state[t] # "READY", prio' = prio,
         readyqueue_insert(t)
  PROVE  /\ readyq' \in [Prios -> Seq(Schedulable)]
         /\ active' \subseteq Prios
         /\ state' = [state EXCEPT ![t] = "READY"]
         /\ state' \in [Schedulable -> States]
         /\ ReadyOnce' /\ ActiveQueues'
<1>1. /\ prio \in [Schedulable -> Prios] /\ active = NonEmpty(readyq)
      /\ state \in [Schedulable -> States] /\ active \subseteq Prios
  BY DEF Core, CoreTypes, ActiveQueues
<1>2. /\ readyq' = [readyq EXCEPT ![prio[t]] = Append(@, t)]
      /\ active' = active \cup {prio[t]}
      /\ state' = [state EXCEPT ![t] = "READY"]
  BY DEF readyqueue_insert
<1>3. state' \in [Schedulable -> States]
  BY <1>1, <1>2 DEF States
<1>4. state'[t] = "READY" /\ \A u \in Schedulable \ {t} : state'[u] = state[u]
  BY <1>1, <1>2
<1>5. /\ readyq' \in [Prios -> Seq(Schedulable)]
      /\ Queued(readyq', state', prio)
      /\ NonEmpty(readyq') = NonEmpty(readyq) \cup {prio[t]}
  BY <1>2, <1>4, InsertedQueue
<1> QED
  BY <1>1, <1>2, <1>3, <1>5 DEF ReadyOnce, ActiveQueues

\* Steps that touch no ready queue and no READY task.
LEMMA ReadyKeep ==
  ASSUME Core, readyq' = readyq, active' = active,
         \A u \in Schedulable : state'[u] = "READY" <=> state[u] = "READY",
         prio' = prio
  PROVE  ReadyOnce' /\ ActiveQueues'
<1>1. readyq \in [Prios -> Seq(Schedulable)] /\ Queued(readyq, state, prio)
  BY DEF Core, CoreTypes, ReadyOnce
<1>2. Queued(readyq, state', prio)
  BY <1>1, QueuedKeep
<1> QED
  BY <1>2 DEF ReadyOnce, ActiveQueues, Core

\* A sleeper t is unlinked from list w, of which a is left, and made runnable.
LEMMA Woken ==
  ASSUME Core, NEW t \in Threads, NEW w \in Lists, t \in ToSet(waiters[w]),
         NEW a \in Seq(Threads), IsInjective(a), ToSet(a) = ToSet(waiters[w]) \ {t},
         waiters' = [waiters EXCEPT ![w] = a], MakeRunnable(t),
         prio' = prio, on' = on, pc' = pc
  PROVE  /\ waiters' \in [Lists -> Seq(Threads)]
         /\ readyq' \in [Prios -> Seq(Schedulable)]
         /\ active' \subseteq Prios
         /\ state' = [state EXCEPT ![t] = IF t = current THEN "RUNNING" ELSE "READY"]
         /\ state' \in [Schedulable -> States]
         /\ ReadyOnce' /\ ActiveQueues' /\ WaitingOnce'
         /\ state[t] = "SLEEPING"
<1>1. /\ waiters \in [Lists -> Seq(Threads)] /\ Enlisted(waiters, state, on, pc)
      /\ state \in [Schedulable -> States] /\ t \in Schedulable
      /\ readyq \in [Prios -> Seq(Schedulable)] /\ active \subseteq Prios
  BY DEF Core, CoreTypes, WaitingOnce, Schedulable
<1>2. state[t] = "SLEEPING"
  BY <1>1 DEF Enlisted
<1>3. /\ readyq' \in [Prios -> Seq(Schedulable)]
      /\ active' \subseteq Prios
      /\ state' = [state EXCEPT ![t] = IF t = current THEN "RUNNING" ELSE "READY"]
      /\ state' \in [Schedulable -> States]
      /\ ReadyOnce' /\ ActiveQueues'
  <2>1. CASE t # current
    <3>1. readyqueue_insert(t)
      BY <2>1 DEF MakeRunnable
    <3> QED
      BY <1>1, <1>2, <2>1, <3>1, ReadyInsert
  <2>2. CASE t = current
    <3>1. /\ state' = [state EXCEPT ![t] = "RUNNING"]
          /\ readyq' = readyq /\ active' = active
      BY <2>2 DEF MakeRunnable
    <3>2. \A u \in Schedulable : state'[u] = "READY" <=> state[u] = "READY"
      BY <1>1, <1>2, <3>1
    <3> QED
      BY <1>1, <2>2, <3>1, <3>2, ReadyKeep DEF States
  <2> QED
    BY <2>1, <2>2
<1>4. /\ state'[t] # "SLEEPING"
      /\ \A u \in Threads \ {t} : state'[u] = "SLEEPING" <=> state[u] = "SLEEPING"
  BY <1>1, <1>3 DEF Schedulable
<1>5. Shrinks(Lists, Threads, waiters, waiters', w, t)
  BY <1>1 DEF Shrinks
<1>6. Leaves(Threads, "SLEEPING", state, state', t)
  BY <1>4 DEF Leaves
<1>7. waiters' \in [Lists -> Seq(Threads)] /\ Enlisted(waiters', state', on, pc)
  BY <1>1, <1>5, <1>6, EnlistedDel DEF Shrinks
<1> QED
  BY <1>2, <1>3, <1>7 DEF WaitingOnce

\* The current thread t goes to sleep on list w in call x.
LEMMA Sleeps ==
  ASSUME Core, NEW t \in Threads, NEW w \in Lists, NEW x \in SleepPcs(w),
         current = t, state[t] = "RUNNING", SleepOn(t, w),
         on' = [on EXCEPT ![t] = w], pc' = [pc EXCEPT ![t] = x],
         readyq' = readyq, active' = active, prio' = prio
  PROVE  /\ waiters' \in [Lists -> Seq(Threads)]
         /\ state' = [state EXCEPT ![t] = "SLEEPING"]
         /\ state' \in [Schedulable -> States]
         /\ ReadyOnce' /\ ActiveQueues' /\ WaitingOnce'
<1>1. /\ waiters \in [Lists -> Seq(Threads)] /\ Enlisted(waiters, state, on, pc)
      /\ state \in [Schedulable -> States] /\ t \in Schedulable
      /\ on \in [Threads -> Lists \cup {Nobody}]
      /\ pc \in [Threads -> {"none", "run", "sleep", "sleept", "until", "lock", "exited"}]
  BY DEF Core, CoreTypes, WaitingOnce, Schedulable
<1>2. /\ state' = [state EXCEPT ![t] = "SLEEPING"]
      /\ waiters' = [waiters EXCEPT ![w] = SortedInsert(@, t, prio)]
  BY DEF SleepOn, task_insert_wait_list
<1>3. state' \in [Schedulable -> States]
  BY <1>1, <1>2 DEF States
<1>4. \A u \in Schedulable : state'[u] = "READY" <=> state[u] = "READY"
  BY <1>1, <1>2
<1>5. ReadyOnce' /\ ActiveQueues'
  BY <1>4, ReadyKeep
<1>6. /\ state'[t] = "SLEEPING" /\ on'[t] = w /\ pc'[t] \in SleepPcs(w)
      /\ \A u \in Threads \ {t} : state'[u] = "SLEEPING" <=> state[u] = "SLEEPING"
      /\ \A u \in Threads \ {t} : state[u] = "SLEEPING" => on'[u] = on[u] /\ pc'[u] = pc[u]
  BY <1>1, <1>2 DEF Schedulable
<1>7. waiters' \in [Lists -> Seq(Threads)] /\ Enlisted(waiters', state', on', pc')
  <2> DEFINE a == SortedInsert(waiters[w], t, prio)
  <2>1. /\ waiters[w] \in Seq(Threads)
        /\ IsInjective(waiters[w]) /\ t \notin ToSet(waiters[w])
    BY <1>1 DEF Enlisted
  <2>2. /\ a \in Seq(Threads) /\ IsInjective(a)
        /\ ToSet(a) = ToSet(waiters[w]) \cup {t}
    BY <2>1, SortedInsertSet
  <2>3. waiters' = [waiters EXCEPT ![w] = a]
    BY <1>2
  <2> HIDE DEF a
  <2>4. Grows(Lists, Threads, waiters, waiters', w, t)
    BY <1>1, <2>2, <2>3 DEF Grows
  <2>5. Enters(Threads, "SLEEPING", state, state', t)
    BY <1>6 DEF Enters
  <2>6. SameFrames(state, on, pc, on', pc', t)
    BY <1>6 DEF SameFrames
  <2>7. waiters' \in [Lists -> Seq(Threads)]
    BY <2>4 DEF Grows
  <2> QED
    BY <1>1, <1>6, <2>4, <2>5, <2>6, <2>7, EnlistedAdd
<1> QED
  BY <1>2, <1>3, <1>5, <1>7 DEF WaitingOnce

\* Steps that touch no list, no state and no frame.
LEMMA LinksKeep ==
  ASSUME Core, UNCHANGED <<queues, waiters, pc, on>>
  PROVE  ReadyOnce' /\ ActiveQueues' /\ WaitingOnce'
BY DEF Core, queues, ReadyOnce, ActiveQueues, WaitingOnce

\* Steps that touch no list and no sleeper.
LEMMA SleepersKeep ==
  ASSUME Core, waiters' = waiters,
         \A u \in Threads : state'[u] = "SLEEPING" <=> state[u] = "SLEEPING",
         \A u \in Threads : state[u] = "SLEEPING" => on'[u] = on[u] /\ pc'[u] = pc[u]
  PROVE  WaitingOnce'
<1>1. waiters \in [Lists -> Seq(Threads)] /\ Enlisted(waiters, state, on, pc)
  BY DEF Core, CoreTypes, WaitingOnce
<1>2. SameSleepers(state, on, pc, state', on', pc')
  BY DEF SameSleepers
<1>3. Enlisted(waiters, state', on', pc')
  BY <1>1, <1>2, EnlistedKeep
<1> QED
  BY <1>3 DEF WaitingOnce

\* CoreControl survives a step that changes the state and the frame of one thread.
LEMMA ControlStep ==
  ASSUME Core, current' = current, NEW t \in Threads,
         \A u \in Schedulable \ {t} : state'[u] = state[u],
         \A u \in Threads \ {t} : /\ pc'[u] = pc[u] /\ on'[u] = on[u]
                                  /\ u \in armed' \/ clk' = u => u \in armed \/ clk = u,
         state'[t] \in {"READY", "RUNNING", "SLEEPING"},
         state'[t] = "RUNNING" => t = current,
         pc'[t] # "none",
         state'[t] = "SLEEPING" => pc'[t] # "run",
         pc'[t] = "lock" => on'[t] \in Mutexes,
         t \in armed' \/ clk' = t => pc'[t] \in {"sleept", "until"},
         waking' # Nobody => waiters'[waking'] # <<>>
  PROVE  CoreControl'
<1>1. CoreControl /\ t \in Schedulable
  BY DEF Core, Schedulable
<1>2. \A u \in Schedulable : state'[u] = "RUNNING" => u = current'
  BY <1>1 DEF CoreControl
<1>3. ASSUME NEW u \in Threads
      PROVE  /\ pc'[u] = "none" => state'[u] = "NONE"
             /\ state'[u] \in {"NONE", "ZOMBIE"} => pc'[u] \in {"none", "exited"}
             /\ state'[u] = "SLEEPING" => pc'[u] # "run"
             /\ pc'[u] = "lock" => on'[u] \in Mutexes
             /\ u \in armed' \/ clk' = u => pc'[u] \in {"sleept", "until"}
  <2>1. CASE u = t
    BY <2>1
  <2>2. CASE u # t
    <3>1. state'[u] = state[u]
      BY <2>2 DEF Schedulable
    <3> QED
      BY <1>1, <2>2, <3>1 DEF CoreControl
  <2> QED
    BY <2>1, <2>2
<1>4. \A k \in Tasks : state'[k] \in {"NONE", "READY"}
  BY <1>1, DistinctConstants DEF CoreControl, Schedulable
<1>5. state'[Idle] \in {"ZOMBIE", "READY", "RUNNING"}
  BY <1>1, DistinctConstants DEF CoreControl, Schedulable
<1> QED
  BY <1>2, <1>3, <1>4, <1>5 DEF CoreControl

-----------------------------------------------------------------------------
(* Every action preserves Core *)

\* Initially only the idle thread exists, and every list is empty.
LEMMA CoreInit == Init => Core
<1> SUFFICES ASSUME Init PROVE Core
  OBVIOUS
<1>1. TASK_PRIOS \in Nat /\ 0 \in Prios
  BY SchedConstants DEF Prios
<1>2. CoreTypes
  <2>1. readyq \in [Prios -> Seq(Schedulable)] /\ waiters \in [Lists -> Seq(Threads)]
    BY DEF Init
  <2>2. state \in [Schedulable -> States]
    BY DEF Init, States
  <2>3. lock \in [Mutexes -> BOOLEAN] /\ holds \in [Threads -> SUBSET Mutexes]
    BY DEF Init
  <2>4. /\ pc \in [Threads -> {"none", "run", "sleep", "sleept", "until", "lock", "exited"}]
        /\ on \in [Threads -> Lists \cup {Nobody}]
        /\ relock \in [Threads -> Mutexes \cup {Nobody}]
    BY DEF Init
  <2> QED
    BY <2>1, <2>2, <2>3, <2>4 DEF Init, CoreTypes
<1>3. /\ \A p \in Prios : readyq[p] = <<>>
      /\ \A w \in Lists : waiters[w] = <<>>
  BY DEF Init
<1>4. ToSet(<<>>) = {} /\ IsInjective(<<>>)
  BY DEF ToSet, IsInjective
<1>5. ReadyOnce
  BY <1>3, <1>4 DEF Init, ReadyOnce, Queued, Schedulable
<1>6. ActiveQueues
  BY <1>3 DEF Init, ActiveQueues, NonEmpty
<1>7. WaitingOnce
  BY <1>3, <1>4, DistinctConstants DEF Init, WaitingOnce, Enlisted, Schedulable
<1>8. CoreControl
  BY DistinctConstants DEF Init, CoreControl, Schedulable
<1> QED
  BY <1>2, <1>5, <1>6, <1>7, <1>8 DEF Core

\* The actions of interrupts and of the switch that touch no list.
LEMMA LinkOther ==
  ASSUME Core,
         \/ \E i \in SoftIrqs : softirq_raise(i) \/ SoftIrqRun(i)
         \/ \E t \in Threads : timer_dispatch(t)
         \/ SwitchEnter
         \/ TaskReturns
  PROVE  Core'
<1>1. UNCHANGED <<current, queues, waiters, pc, on, waking>>
  BY DEF softirq_raise, SoftIrqRun, timer_dispatch, SwitchEnter, TaskReturns, frames, queues
<1>2. ReadyOnce' /\ ActiveQueues' /\ WaitingOnce'
  BY <1>1, LinksKeep
<1>3. CoreTypes'
  BY DEF Core, CoreTypes, softirq_raise, SoftIrqRun, timer_dispatch, SwitchEnter,
         TaskReturns, frames, queues, mutexes, timers, switch
<1>4. CoreControl'
  BY <1>1, DistinctConstants
     DEF Core, CoreControl, softirq_raise, SoftIrqRun, timer_dispatch, SwitchEnter,
         TaskReturns, frames, queues, timers
<1> QED
  BY <1>2, <1>3, <1>4 DEF Core

\* task_sleep, task_sleep_delta and task_sleep_deadline.
LEMMA LinkSleep ==
  ASSUME Core, NEW t \in Threads, NEW w \in Waitables,
         task_sleep(t, w) \/ task_sleep_deadline(t, w)
  PROVE  Core'
<1>1. PICK x \in {"sleep", "sleept"} :
        /\ Calls(t) /\ SleepOn(t, w)
        /\ pc' = [pc EXCEPT ![t] = x] /\ on' = [on EXCEPT ![t] = w]
        /\ (x = "sleept" /\ armed' = armed \cup {t}) \/ armed' = armed
        /\ UNCHANGED <<current, prio, readyq, active, mutexes, relock, signalled, clk,
                       waking, switch>>
  BY DEF task_sleep, task_sleep_deadline, timers
<1>2. x \in SleepPcs(w) /\ w \in Lists
  BY DistinctConstants DEF SleepPcs, Lists
<1>3. current = t /\ state[t] = "RUNNING" /\ waking = Nobody
  BY <1>1 DEF Calls, ThreadLevel, Unlocked
<1>4. /\ waiters' \in [Lists -> Seq(Threads)]
      /\ state' = [state EXCEPT ![t] = "SLEEPING"]
      /\ state' \in [Schedulable -> States]
      /\ ReadyOnce' /\ ActiveQueues' /\ WaitingOnce'
  BY <1>1, <1>2, <1>3, Sleeps
<1>5. CoreTypes'
  BY <1>1, <1>2, <1>4 DEF Core, CoreTypes, SleepOn, mutexes, switch
<1>6. CoreControl'
  <2>1. t \notin armed /\ clk # t
    BY <1>1 DEF Calls, Core, CoreControl
  <2>2. /\ state'[t] = "SLEEPING" /\ pc'[t] = x
        /\ \A u \in Schedulable \ {t} : state'[u] = state[u]
        /\ \A u \in Threads \ {t} : /\ pc'[u] = pc[u] /\ on'[u] = on[u]
                                    /\ u \in armed' \/ clk' = u => u \in armed \/ clk = u
    BY <1>1, <1>4 DEF Core, CoreTypes, Schedulable
  <2>3. t \in armed' \/ clk' = t => pc'[t] \in {"sleept", "until"}
    BY <1>1, <2>1, <2>2
  <2> QED
    BY <1>1, <1>3, <2>2, <2>3, ControlStep
<1> QED
  BY <1>4, <1>5, <1>6 DEF Core

\* sleep_until, usleep and sleep: on no list, the timer armed.
LEMMA LinkUntil ==
  ASSUME Core, NEW t \in Threads, sleep_until(t)
  PROVE  Core'
<1>1. current = t /\ state[t] = "RUNNING" /\ waking = Nobody
  BY DEF sleep_until, Calls, ThreadLevel, Unlocked
<1>2. /\ state' = [state EXCEPT ![t] = "SLEEPING"]
      /\ pc' = [pc EXCEPT ![t] = "until"]
      /\ UNCHANGED <<current, prio, readyq, active, waiters, on, waking, clk>>
      /\ armed' = armed \cup {t}
  BY DEF sleep_until
<1>3. \A u \in Schedulable : state'[u] = "READY" <=> state[u] = "READY"
  BY <1>1, <1>2 DEF Core, CoreTypes, Schedulable
<1>4. ReadyOnce' /\ ActiveQueues'
  BY <1>2, <1>3, ReadyKeep
<1>5. WaitingOnce'
  <2>1. waiters \in [Lists -> Seq(Threads)] /\ Enlisted(waiters, state, on, pc)
    BY DEF Core, CoreTypes, WaitingOnce
  <2>2. \A v \in Lists : ToSet(waiters[v]) \subseteq Threads
    BY <2>1 DEF ToSet
  <2>3. /\ \A u \in Threads \ {t} : state'[u] = state[u] /\ pc'[u] = pc[u]
        /\ pc'[t] = "until"
    BY <1>2 DEF Core, CoreTypes, Schedulable
  <2>4. \A v \in Lists : t \notin ToSet(waiters[v])
    BY <1>1, <2>1 DEF Enlisted
  <2>5. Enlisted(waiters, state', on, pc')
    BY <2>1, <2>2, <2>3, <2>4 DEF Enlisted
  <2> QED
    BY <1>2, <2>5 DEF WaitingOnce
<1>6. CoreTypes'
  BY DEF Core, CoreTypes, sleep_until, States, mutexes, switch
<1>7. CoreControl'
  BY <1>1, <1>2, DistinctConstants DEF Core, CoreTypes, CoreControl, Schedulable
<1> QED
  BY <1>4, <1>5, <1>6, <1>7 DEF Core

\* One round of mutex_lock: either asleep on the mutex or its owner.
LEMMA RoundLinks ==
  ASSUME Core, NEW t \in Threads, NEW m \in Mutexes,
         current = t, state[t] = "RUNNING", LockRound(t, m),
         UNCHANGED <<current, prio, readyq, active>>
  PROVE  /\ waiters' \in [Lists -> Seq(Threads)]
         /\ state' \in [Schedulable -> States]
         /\ lock' \in [Mutexes -> BOOLEAN] /\ holds' \in [Threads -> SUBSET Mutexes]
         /\ pc' \in [Threads -> {"none", "run", "sleep", "sleept", "until", "lock", "exited"}]
         /\ on' \in [Threads -> Lists \cup {Nobody}]
         /\ pend' \in BOOLEAN
         /\ ReadyOnce' /\ ActiveQueues' /\ WaitingOnce'
         /\ state'[t] \in {"RUNNING", "SLEEPING"}
         /\ state'[t] = "RUNNING" => pc'[t] = "run"
         /\ state'[t] = "SLEEPING" => pc'[t] = "lock" /\ on'[t] = m
         /\ \A u \in Schedulable \ {t} : state'[u] = state[u]
         /\ \A u \in Threads \ {t} : pc'[u] = pc[u] /\ on'[u] = on[u]
<1>0. m \in Lists /\ t \in Schedulable
  BY DEF Lists, Schedulable
<1>1. CASE lock[m]
  <2>1. /\ SleepOn(t, m) /\ pc' = [pc EXCEPT ![t] = "lock"]
        /\ on' = [on EXCEPT ![t] = m] /\ UNCHANGED mutexes
    BY <1>1 DEF LockRound
  <2>2. "lock" \in SleepPcs(m)
    BY DEF SleepPcs
  <2>3. /\ waiters' \in [Lists -> Seq(Threads)]
        /\ state' = [state EXCEPT ![t] = "SLEEPING"]
        /\ state' \in [Schedulable -> States]
        /\ ReadyOnce' /\ ActiveQueues' /\ WaitingOnce'
    BY <1>0, <2>1, <2>2, Sleeps
  <2>4. /\ pc' \in [Threads -> {"none", "run", "sleep", "sleept", "until", "lock", "exited"}]
        /\ on' \in [Threads -> Lists \cup {Nobody}]
        /\ lock' \in [Mutexes -> BOOLEAN] /\ holds' \in [Threads -> SUBSET Mutexes]
        /\ pend' \in BOOLEAN
    BY <1>0, <2>1 DEF Core, CoreTypes, mutexes, SleepOn
  <2> QED
    BY <1>0, <2>1, <2>3, <2>4 DEF Core, CoreTypes
<1>2. CASE ~lock[m]
  <2>1. /\ lock' = [lock EXCEPT ![m] = TRUE]
        /\ holds' = [holds EXCEPT ![t] = @ \cup {m}]
        /\ pc' = [pc EXCEPT ![t] = "run"]
        /\ on' = [on EXCEPT ![t] = Nobody]
        /\ UNCHANGED <<state, waiters, pend>>
    BY <1>2 DEF LockRound
  <2>2. /\ \A u \in Schedulable : state'[u] = "READY" <=> state[u] = "READY"
        /\ \A u \in Threads : state'[u] = "SLEEPING" <=> state[u] = "SLEEPING"
        /\ \A u \in Threads : state[u] = "SLEEPING" => on'[u] = on[u] /\ pc'[u] = pc[u]
    BY <2>1 DEF Core, CoreTypes
  <2>3. ReadyOnce' /\ ActiveQueues' /\ WaitingOnce'
    BY <2>1, <2>2, ReadyKeep, SleepersKeep
  <2>4. /\ pc' \in [Threads -> {"none", "run", "sleep", "sleept", "until", "lock", "exited"}]
        /\ on' \in [Threads -> Lists \cup {Nobody}]
        /\ lock' \in [Mutexes -> BOOLEAN] /\ holds' \in [Threads -> SUBSET Mutexes]
        /\ pend' \in BOOLEAN
    BY <2>1 DEF Core, CoreTypes
  <2> QED
    BY <2>1, <2>3, <2>4 DEF Core, CoreTypes
<1> QED
  BY <1>1, <1>2

\* mutex_lock and mutex_trylock.
LEMMA LinkLock ==
  ASSUME Core, NEW t \in Threads, NEW m \in Mutexes,
         mutex_lock(t, m) \/ mutex_trylock(t, m)
  PROVE  Core'
<1>1. Calls(t) /\ current = t /\ state[t] = "RUNNING" /\ waking = Nobody
  BY DEF mutex_lock, mutex_trylock, Calls, ThreadLevel, Unlocked
<1>2. CASE mutex_lock(t, m)
  <2>1. /\ LockRound(t, m)
        /\ UNCHANGED <<current, prio, readyq, active, relock, timers, waking, switch>>
    BY <1>2 DEF mutex_lock
  <2>2. /\ waiters' \in [Lists -> Seq(Threads)]
        /\ state' \in [Schedulable -> States]
        /\ lock' \in [Mutexes -> BOOLEAN] /\ holds' \in [Threads -> SUBSET Mutexes]
        /\ pc' \in [Threads -> {"none", "run", "sleep", "sleept", "until", "lock", "exited"}]
        /\ on' \in [Threads -> Lists \cup {Nobody}]
        /\ pend' \in BOOLEAN
        /\ ReadyOnce' /\ ActiveQueues' /\ WaitingOnce'
        /\ state'[t] \in {"RUNNING", "SLEEPING"}
        /\ state'[t] = "RUNNING" => pc'[t] = "run"
        /\ state'[t] = "SLEEPING" => pc'[t] = "lock" /\ on'[t] = m
        /\ \A u \in Schedulable \ {t} : state'[u] = state[u]
        /\ \A u \in Threads \ {t} : pc'[u] = pc[u] /\ on'[u] = on[u]
    BY <1>1, <2>1, RoundLinks
  <2>3. CoreTypes'
    BY <2>1, <2>2 DEF Core, CoreTypes, timers, switch
  <2>4. CoreControl'
    <3>1. pc[t] = "run" /\ t \notin armed /\ clk # t
      BY <1>1 DEF Calls, Core, CoreControl
    <3>2. pc'[t] \in {"run", "lock"} /\ (pc'[t] = "lock" => on'[t] = m)
      BY <2>2
    <3>3. armed' = armed /\ clk' = clk /\ current' = current /\ waking' = Nobody
      BY <1>1, <2>1 DEF timers
    <3> QED
      BY <1>1, <2>2, <3>1, <3>2, <3>3, ControlStep
  <2> QED
    BY <2>2, <2>3, <2>4 DEF Core
<1>3. CASE mutex_trylock(t, m)
  <2>1. UNCHANGED <<current, queues, waiters, pc, on, waking, armed, clk>>
    BY <1>3 DEF mutex_trylock, frames, timers
  <2>2. ReadyOnce' /\ ActiveQueues' /\ WaitingOnce'
    BY <2>1, LinksKeep
  <2>3. CoreTypes'
    BY <1>3 DEF mutex_trylock, Core, CoreTypes, frames, timers, queues, switch
  <2>4. CoreControl'
    BY <2>1 DEF Core, CoreControl, queues
  <2> QED
    BY <2>2, <2>3, <2>4 DEF Core
<1> QED
  BY <1>2, <1>3

\* A thread that comes back from a sleep, or tries a mutex again.
LEMMA LinkResume ==
  ASSUME Core, NEW t \in Threads, SleepReturn(t) \/ LockRetry(t)
  PROVE  Core'
<1>1. current = t /\ state[t] = "RUNNING" /\ waking = Nobody /\ clk = Nobody
  BY DEF SleepReturn, LockRetry, Resumes, ThreadLevel, Unlocked
<1>2. /\ UNCHANGED <<current, prio, readyq, active, clk, waking, switch>>
      /\ relock' \in [Threads -> Mutexes \cup {Nobody}]
      /\ armed' \subseteq armed /\ signalled' \subseteq Threads
      /\ pc[t] = "lock" \/ t \notin armed'
  BY DEF SleepReturn, LockRetry, Core, CoreTypes, timers
<1>3. \/ \E m \in Mutexes : LockRound(t, m)
      \/ /\ pc' = [pc EXCEPT ![t] = "run"]
         /\ on' = [on EXCEPT ![t] = Nobody]
         /\ UNCHANGED <<state, waiters, mutexes, pend>>
  <2>1. CASE SleepReturn(t)
    <3>1. relock[t] # Nobody => relock[t] \in Mutexes
      BY DEF Core, CoreTypes
    <3> QED
      BY <2>1, <3>1 DEF SleepReturn
  <2>2. CASE LockRetry(t)
    <3>1. on[t] \in Mutexes
      BY <2>2 DEF LockRetry, Core, CoreControl
    <3> QED
      BY <2>2, <3>1 DEF LockRetry
  <2> QED
    BY <2>1, <2>2
<1>4. t \notin armed' /\ clk' # t
  <2>1. pc[t] = "lock" => t \notin armed
    BY DEF Core, CoreControl
  <2> QED
    BY <1>1, <1>2, <2>1, DistinctConstants
<1>5. CASE \E m \in Mutexes : LockRound(t, m)
  <2>1. PICK m \in Mutexes : LockRound(t, m)
    BY <1>5
  <2>2. /\ waiters' \in [Lists -> Seq(Threads)]
        /\ state' \in [Schedulable -> States]
        /\ lock' \in [Mutexes -> BOOLEAN] /\ holds' \in [Threads -> SUBSET Mutexes]
        /\ pc' \in [Threads -> {"none", "run", "sleep", "sleept", "until", "lock", "exited"}]
        /\ on' \in [Threads -> Lists \cup {Nobody}]
        /\ pend' \in BOOLEAN
        /\ ReadyOnce' /\ ActiveQueues' /\ WaitingOnce'
        /\ state'[t] \in {"RUNNING", "SLEEPING"}
        /\ state'[t] = "RUNNING" => pc'[t] = "run"
        /\ state'[t] = "SLEEPING" => pc'[t] = "lock" /\ on'[t] = m
        /\ \A u \in Schedulable \ {t} : state'[u] = state[u]
        /\ \A u \in Threads \ {t} : pc'[u] = pc[u] /\ on'[u] = on[u]
    BY <1>1, <1>2, <2>1, RoundLinks
  <2>3. CoreTypes'
    BY <1>2, <2>2 DEF Core, CoreTypes, switch
  <2>4. CoreControl'
    <3>1. pc'[t] \in {"run", "lock"} /\ (pc'[t] = "lock" => on'[t] = m)
      BY <2>2
    <3> QED
      BY <1>1, <1>2, <1>4, <2>2, <3>1, ControlStep
  <2> QED
    BY <2>2, <2>3, <2>4 DEF Core
<1>6. CASE /\ pc' = [pc EXCEPT ![t] = "run"]
           /\ on' = [on EXCEPT ![t] = Nobody]
           /\ UNCHANGED <<state, waiters, mutexes, pend>>
  <2>1. /\ \A u \in Schedulable : state'[u] = "READY" <=> state[u] = "READY"
        /\ \A u \in Threads : state'[u] = "SLEEPING" <=> state[u] = "SLEEPING"
        /\ \A u \in Threads : state[u] = "SLEEPING" => on'[u] = on[u] /\ pc'[u] = pc[u]
    BY <1>1, <1>6 DEF Core, CoreTypes
  <2>2. ReadyOnce' /\ ActiveQueues' /\ WaitingOnce'
    BY <1>2, <1>6, <2>1, ReadyKeep, SleepersKeep
  <2>3. CoreTypes'
    BY <1>2, <1>6 DEF Core, CoreTypes, switch, mutexes
  <2>4. CoreControl'
    <3>1. /\ pc'[t] = "run"
          /\ \A u \in Threads \ {t} : pc'[u] = pc[u] /\ on'[u] = on[u]
      BY <1>6 DEF Core, CoreTypes
    <3> QED
      BY <1>1, <1>2, <1>4, <1>6, <3>1, ControlStep
  <2> QED
    BY <2>2, <2>3, <2>4 DEF Core
<1> QED
  BY <1>3, <1>5, <1>6

\* Both wakeup actions take the head of a list and make it runnable.
LEMMA LinkWakeup ==
  ASSUME Core, NEW w \in Waitables, waiters[w] # <<>>, WakeFirst(w),
         waking' \in {w, Nobody}, waking' = w => Len(waiters[w]) > 1
  PROVE  Core'
<1> DEFINE t == Head(waiters[w])
           a == Tail(waiters[w])
<1>1. w \in Lists /\ waiters[w] \in Seq(Threads) /\ IsInjective(waiters[w])
  BY DEF Lists, Core, CoreTypes, WaitingOnce, Enlisted
<1>2. /\ t \in Threads /\ a \in Seq(Threads) /\ t \in ToSet(waiters[w])
      /\ a = <<>> <=> Len(waiters[w]) = 1
      /\ IsInjective(a) /\ ToSet(a) = ToSet(waiters[w]) \ {t}
  BY <1>1, TailSet
<1>3. /\ waiters' = [waiters EXCEPT ![w] = a]
      /\ MakeRunnable(t)
      /\ signalled' = IF pc[t] = "sleept" THEN signalled \cup {t} ELSE signalled
      /\ pend' = (pend \/ t = current \/ prio[t] >= prio[current])
      /\ UNCHANGED <<current, prio, mutexes, frames, armed, clk, switch>>
  BY DEF WakeFirst
<1>4. waking' = w => a # <<>>
  <2> DEFINE n == Len(waiters[w])
  <2>1. n \in Nat
    BY <1>1, LenProperties
  <2>2. (a = <<>> <=> n = 1) /\ (waking' = w => n > 1)
    BY <1>2
  <2> HIDE DEF n, a
  <2> QED
    BY <2>1, <2>2
<1> HIDE DEF a, t
<1>5. prio' = prio /\ on' = on /\ pc' = pc
  BY <1>3 DEF frames
<1>6. /\ waiters' \in [Lists -> Seq(Threads)]
      /\ readyq' \in [Prios -> Seq(Schedulable)]
      /\ active' \subseteq Prios
      /\ state' = [state EXCEPT ![t] = IF t = current THEN "RUNNING" ELSE "READY"]
      /\ state' \in [Schedulable -> States]
      /\ ReadyOnce' /\ ActiveQueues' /\ WaitingOnce'
      /\ state[t] = "SLEEPING"
  BY <1>1, <1>2, <1>3, <1>5, Woken
<1>7. pend' \in BOOLEAN
  BY <1>3
<1>8. CoreTypes'
  BY <1>2, <1>3, <1>6, <1>7 DEF Core, CoreTypes, mutexes, frames, switch
<1>9. CoreControl'
  <2>1. /\ state'[t] = (IF t = current THEN "RUNNING" ELSE "READY")
        /\ \A u \in Schedulable \ {t} : state'[u] = state[u]
    BY <1>2, <1>6 DEF Core, CoreTypes, Schedulable
  <2>2. waking' # Nobody => waiters'[waking'] # <<>>
    <3>1. waiters'[w] = a
      BY <1>1, <1>3 DEF Core, CoreTypes
    <3> QED
      BY <1>4, <3>1
  <2>3. /\ pc[t] # "none"
        /\ pc[t] = "lock" => on[t] \in Mutexes
        /\ t \in armed \/ clk = t => pc[t] \in {"sleept", "until"}
    BY <1>2, <1>6 DEF Core, CoreControl
  <2> QED
    BY <1>2, <1>3, <1>5, <2>1, <2>2, <2>3, ControlStep
<1> QED
  BY <1>6, <1>8, <1>9 DEF Core

\* task_run of a plain task.
LEMMA LinkTaskRun ==
  ASSUME Core, NEW k \in Tasks, task_run(k)
  PROVE  Core'
<1>1. k \in Schedulable /\ k \notin Threads /\ k # Idle
  BY DistinctConstants DEF Schedulable
<1>2. /\ pend' = TRUE /\ waking = Nobody
      /\ UNCHANGED <<current, prio, waiters, mutexes, frames, timers, waking, switch>>
  BY DEF task_run, Unlocked
<1>3. CASE state[k] = "NONE"
  <2>1. readyqueue_insert(k)
    BY <1>3 DEF task_run
  <2>2. /\ readyq' \in [Prios -> Seq(Schedulable)]
        /\ active' \subseteq Prios
        /\ state' = [state EXCEPT ![k] = "READY"]
        /\ state' \in [Schedulable -> States]
        /\ ReadyOnce' /\ ActiveQueues'
    BY <1>1, <1>2, <1>3, <2>1, ReadyInsert
  <2>3. /\ \A u \in Schedulable \ {k} : state'[u] = state[u]
        /\ state'[k] = "READY"
    BY <1>1, <2>2 DEF Core, CoreTypes
  <2>4. \A u \in Threads : state'[u] = state[u]
    BY <1>1, <2>3 DEF Schedulable
  <2>5. WaitingOnce'
    BY <1>2, <2>4, SleepersKeep DEF frames
  <2>6. CoreTypes'
    BY <1>2, <2>2 DEF Core, CoreTypes, mutexes, frames, timers, switch
  <2>7. CoreControl'
    BY <1>1, <1>2, <2>3, <2>4, DistinctConstants
       DEF Core, CoreControl, frames, timers, Schedulable
  <2> QED
    BY <2>2, <2>5, <2>6, <2>7 DEF Core
<1>4. CASE state[k] # "NONE"
  <2>1. UNCHANGED <<readyq, active, state>>
    BY <1>4 DEF task_run
  <2>2. ReadyOnce' /\ ActiveQueues' /\ WaitingOnce'
    BY <1>2, <2>1, LinksKeep DEF queues, frames
  <2>3. CoreTypes'
    BY <1>2, <2>1 DEF Core, CoreTypes, mutexes, frames, timers, switch
  <2>4. CoreControl'
    BY <1>2, <2>1 DEF Core, CoreControl, frames, timers
  <2> QED
    BY <2>2, <2>3, <2>4 DEF Core
<1> QED
  BY <1>3, <1>4

\* A timer's callback: the sleeper is unlinked from the middle of its list.
LEMMA LinkTimeout ==
  ASSUME Core, NEW t \in Threads, SleepTimeout(t)
  PROVE  Core'
<1>1. /\ waking = Nobody /\ clk = t /\ clk' = Nobody
      /\ UNCHANGED <<current, prio, mutexes, frames, armed, signalled, waking, switch>>
  BY DEF SleepTimeout, Unlocked
<1>2. pc[t] \in {"sleept", "until"} /\ t \in Schedulable
  BY <1>1 DEF Core, CoreControl, Schedulable
<1>3. CASE state[t] # "SLEEPING"
  <2>1. UNCHANGED <<readyq, active, state, waiters, pend>>
    BY <1>3 DEF SleepTimeout
  <2>2. ReadyOnce' /\ ActiveQueues' /\ WaitingOnce'
    BY <1>1, <2>1, LinksKeep DEF queues, frames
  <2>3. CoreTypes'
    BY <1>1, <2>1 DEF Core, CoreTypes, mutexes, frames, switch
  <2>4. CoreControl'
    BY <1>1, <2>1, DistinctConstants DEF Core, CoreControl, frames
  <2> QED
    BY <2>2, <2>3, <2>4 DEF Core
<1>4. CASE state[t] = "SLEEPING"
  <2>1. MakeRunnable(t) /\ pend' = TRUE
    BY <1>4 DEF SleepTimeout
  <2>2. /\ waiters' \in [Lists -> Seq(Threads)]
        /\ readyq' \in [Prios -> Seq(Schedulable)]
        /\ active' \subseteq Prios
        /\ state' = [state EXCEPT ![t] = IF t = current THEN "RUNNING" ELSE "READY"]
        /\ state' \in [Schedulable -> States]
        /\ ReadyOnce' /\ ActiveQueues' /\ WaitingOnce'
    <3>1. CASE pc[t] = "sleept"
      <4> DEFINE w == on[t]
                 a == Unlink(waiters[w], t)
      <4>1. w \in Lists /\ t \in ToSet(waiters[w])
        BY <1>4, <3>1 DEF Core, WaitingOnce, Enlisted
      <4>2. waiters[w] \in Seq(Threads) /\ IsInjective(waiters[w])
        BY <4>1 DEF Core, CoreTypes, WaitingOnce, Enlisted
      <4>3. a \in Seq(Threads) /\ IsInjective(a) /\ ToSet(a) = ToSet(waiters[w]) \ {t}
        BY <4>1, <4>2, UnlinkSet
      <4>4. waiters' = [waiters EXCEPT ![w] = a]
        BY <1>4, <3>1 DEF SleepTimeout, LIST_REMOVE
      <4>5. prio' = prio /\ on' = on /\ pc' = pc
        BY <1>1 DEF frames
      <4> HIDE DEF a, w
      <4> QED
        BY <2>1, <4>1, <4>3, <4>4, <4>5, Woken
    <3>2. CASE pc[t] = "until"
      <4>1. waiters' = waiters /\ prio' = prio /\ on' = on /\ pc' = pc
        BY <1>1, <1>4, <3>2 DEF SleepTimeout, frames
      <4>2. /\ state \in [Schedulable -> States]
            /\ waiters \in [Lists -> Seq(Threads)]
            /\ readyq \in [Prios -> Seq(Schedulable)] /\ active \subseteq Prios
        BY DEF Core, CoreTypes
      <4>3. /\ readyq' \in [Prios -> Seq(Schedulable)]
            /\ active' \subseteq Prios
            /\ state' = [state EXCEPT ![t] = IF t = current THEN "RUNNING" ELSE "READY"]
            /\ state' \in [Schedulable -> States]
            /\ ReadyOnce' /\ ActiveQueues'
        <5>1. CASE t # current
          <6>1. readyqueue_insert(t)
            BY <2>1, <5>1 DEF MakeRunnable
          <6> QED
            BY <1>2, <1>4, <4>1, <5>1, <6>1, ReadyInsert
        <5>2. CASE t = current
          <6>1. /\ state' = [state EXCEPT ![t] = "RUNNING"]
                /\ readyq' = readyq /\ active' = active
            BY <2>1, <5>2 DEF MakeRunnable
          <6>2. \A u \in Schedulable : state'[u] = "READY" <=> state[u] = "READY"
            BY <1>4, <4>2, <6>1
          <6> QED
            BY <4>1, <4>2, <5>2, <6>1, <6>2, ReadyKeep DEF States
        <5> QED
          BY <5>1, <5>2
      <4>4. WaitingOnce'
        <5>1. Enlisted(waiters, state, on, pc)
          BY DEF Core, WaitingOnce
        <5>2. \A v \in Lists : ToSet(waiters[v]) \subseteq Threads
          BY <4>2 DEF ToSet
        <5>3. \A v \in Lists : t \notin ToSet(waiters[v])
          BY <3>2, <5>1 DEF Enlisted, SleepPcs
        <5>4. state'[t] # "SLEEPING" /\ \A u \in Threads \ {t} : state'[u] = state[u]
          BY <4>2, <4>3 DEF Schedulable
        <5>5. Enlisted(waiters, state', on, pc)
          BY <5>1, <5>2, <5>3, <5>4 DEF Enlisted
        <5> QED
          BY <4>1, <5>5 DEF WaitingOnce
      <4> QED
        BY <4>1, <4>2, <4>3, <4>4
    <3> QED
      BY <1>2, <3>1, <3>2
  <2>3. CoreTypes'
    BY <1>1, <2>1, <2>2 DEF Core, CoreTypes, mutexes, frames, switch
  <2>4. CoreControl'
    <3>1. /\ state'[t] = (IF t = current THEN "RUNNING" ELSE "READY")
          /\ \A u \in Schedulable \ {t} : state'[u] = state[u]
      BY <1>2, <2>2 DEF Core, CoreTypes
    <3>2. pc' = pc /\ on' = on /\ armed' = armed /\ current' = current /\ waking' = Nobody
      BY <1>1 DEF frames
    <3>3. \A u \in Threads \ {t} : u \in armed' \/ clk' = u => u \in armed \/ clk = u
      BY <1>1, <3>2, DistinctConstants
    <3> QED
      BY <1>2, <3>1, <3>2, <3>3, ControlStep
  <2> QED
    BY <2>2, <2>3, <2>4 DEF Core
<1> QED
  BY <1>3, <1>4

\* thread_create puts a thread that did not exist on the queue of its priority.
LEMMA LinkCreate ==
  ASSUME Core, NEW t \in Threads, NEW r \in Requested, thread_create(t, r)
  PROVE  Core'
<1> DEFINE p == EffectivePrio(r)
           a == Append(readyq[p], t)
<1>1. p \in Prios
  BY SchedConstants DEF EffectivePrio, Prios
<1>2. /\ t \in Schedulable
      /\ readyq \in [Prios -> Seq(Schedulable)] /\ prio \in [Schedulable -> Prios]
      /\ state \in [Schedulable -> States] /\ active \subseteq Prios
      /\ Queued(readyq, state, prio) /\ active = NonEmpty(readyq)
  BY DEF Core, CoreTypes, ReadyOnce, ActiveQueues, Schedulable
<1>3. pc[t] = "none" /\ state[t] = "NONE" /\ waking = Nobody
  BY DEF thread_create, Core, CoreControl, Booting, Calls, ThreadLevel, Unlocked
<1>4. /\ readyq[p] \in Seq(Schedulable)
      /\ IsInjective(readyq[p]) /\ t \notin ToSet(readyq[p])
  BY <1>1, <1>2, <1>3 DEF Queued
<1>5. /\ a \in Seq(Schedulable) /\ a # <<>> /\ IsInjective(a)
      /\ ToSet(a) = ToSet(readyq[p]) \cup {t}
  <2> HIDE DEF p
  <2>1. t \in Schedulable
    BY <1>2
  <2> QED
    BY <1>4, <2>1, AppendSet
<1>6. /\ prio' = [prio EXCEPT ![t] = p]
      /\ state' = [state EXCEPT ![t] = "READY"]
      /\ readyq' = [readyq EXCEPT ![p] = a]
      /\ active' = active \cup {p}
      /\ pc' = [pc EXCEPT ![t] = "run"]
      /\ pend' = TRUE
      /\ UNCHANGED <<current, waiters, mutexes, on, relock, timers, waking, switch>>
  BY DEF thread_create
<1> HIDE DEF a, p
<1>7. ReadyOnce' /\ ActiveQueues'
  <2>1. Grows(Prios, Schedulable, readyq, readyq', p, t)
    BY <1>1, <1>2, <1>5, <1>6 DEF Grows
  <2>2. Enters(Schedulable, "READY", state, state', t)
    BY <1>2, <1>3, <1>6 DEF Enters
  <2>3. SamePrios(state, prio, prio', t, p)
    BY <1>1, <1>2, <1>6 DEF SamePrios
  <2>4. Queued(readyq, state, prio)
    BY <1>2
  <2>5. Queued(readyq', state', prio')
    BY <2>1, <2>2, <2>3, <2>4, QueuedAdd, SMTT(30)
  <2>6. NonEmpty(readyq') = NonEmpty(readyq) \cup {p}
    BY <2>1, NonEmptyAdd
  <2> QED
    BY <1>2, <1>6, <2>5, <2>6 DEF ReadyOnce, ActiveQueues
<1>8. WaitingOnce'
  <2>1. /\ \A u \in Threads : state'[u] = "SLEEPING" <=> state[u] = "SLEEPING"
        /\ \A u \in Threads : state[u] = "SLEEPING" => on'[u] = on[u] /\ pc'[u] = pc[u]
    BY <1>2, <1>3, <1>6 DEF Core, CoreTypes, Schedulable
  <2> QED
    BY <1>6, <2>1, SleepersKeep
<1>9. CoreTypes'
  <2>1. /\ state' \in [Schedulable -> States] /\ prio' \in [Schedulable -> Prios]
        /\ readyq' \in [Prios -> Seq(Schedulable)] /\ active' \subseteq Prios
    BY <1>1, <1>2, <1>5, <1>6 DEF States
  <2> QED
    BY <1>6, <2>1 DEF Core, CoreTypes, mutexes, timers, switch
<1>10. CoreControl'
  <2>1. /\ state'[t] = "READY" /\ pc'[t] = "run"
        /\ \A u \in Schedulable \ {t} : state'[u] = state[u]
        /\ \A u \in Threads \ {t} : pc'[u] = pc[u]
    BY <1>2, <1>6 DEF Core, CoreTypes
  <2>2. armed' = armed /\ clk' = clk /\ t \notin armed /\ clk # t
    BY <1>3, <1>6 DEF Core, CoreControl, timers
  <2> QED
    BY <1>3, <1>6, <2>1, <2>2, ControlStep
<1> QED
  BY <1>7, <1>8, <1>9, <1>10 DEF Core

\* mutex_unlock makes the first waiter, if there is one, ready.
LEMMA LinkUnlock ==
  ASSUME Core, NEW t \in Threads, NEW m \in Mutexes, mutex_unlock(t, m)
  PROVE  Core'
<1>1. current = t /\ state[t] = "RUNNING" /\ waking = Nobody
  BY DEF mutex_unlock, Calls, ThreadLevel, Unlocked
<1>2. /\ lock' = [lock EXCEPT ![m] = FALSE]
      /\ holds' = [holds EXCEPT ![t] = @ \ {m}]
      /\ UNCHANGED <<current, prio, frames, timers, waking, switch>>
  BY DEF mutex_unlock
<1>3. lock' \in [Mutexes -> BOOLEAN] /\ holds' \in [Threads -> SUBSET Mutexes]
  BY <1>2 DEF Core, CoreTypes
<1>4. CASE waiters[m] = <<>>
  <2>1. UNCHANGED <<readyq, active, state, waiters, pend>>
    BY <1>4 DEF mutex_unlock
  <2>2. ReadyOnce' /\ ActiveQueues' /\ WaitingOnce'
    BY <1>2, <2>1, LinksKeep DEF queues, frames
  <2>3. CoreTypes'
    BY <1>2, <1>3, <2>1 DEF Core, CoreTypes, frames, timers, switch
  <2>4. CoreControl'
    BY <1>2, <2>1 DEF Core, CoreControl, frames, timers
  <2> QED
    BY <2>2, <2>3, <2>4 DEF Core
<1>5. CASE waiters[m] # <<>>
  <2> DEFINE u == Head(waiters[m])
             a == Tail(waiters[m])
  <2>1. m \in Lists /\ waiters[m] \in Seq(Threads) /\ IsInjective(waiters[m])
    BY DEF Lists, Core, CoreTypes, WaitingOnce, Enlisted
  <2>2. /\ u \in Threads /\ a \in Seq(Threads) /\ u \in ToSet(waiters[m])
        /\ IsInjective(a) /\ ToSet(a) = ToSet(waiters[m]) \ {u}
    BY <1>5, <2>1, TailSet
  <2>3. /\ waiters' = [waiters EXCEPT ![m] = a]
        /\ readyqueue_insert(u)
        /\ pend' = (pend \/ prio[u] >= prio[current])
    BY <1>5 DEF mutex_unlock
  <2> HIDE DEF u, a
  <2>4. state[u] = "SLEEPING"
    BY <2>1, <2>2 DEF Core, WaitingOnce, Enlisted
  <2>5. u # current /\ MakeRunnable(u)
    BY <1>1, <2>3, <2>4 DEF MakeRunnable
  <2>6. prio' = prio /\ on' = on /\ pc' = pc
    BY <1>2 DEF frames
  <2>7. /\ waiters' \in [Lists -> Seq(Threads)]
        /\ readyq' \in [Prios -> Seq(Schedulable)]
        /\ active' \subseteq Prios
        /\ state' = [state EXCEPT ![u] = IF u = current THEN "RUNNING" ELSE "READY"]
        /\ state' \in [Schedulable -> States]
        /\ ReadyOnce' /\ ActiveQueues' /\ WaitingOnce'
    BY <2>1, <2>2, <2>3, <2>5, <2>6, Woken
  <2>8. pend' \in BOOLEAN
    BY <2>3
  <2>9. CoreTypes'
    BY <1>2, <1>3, <2>7, <2>8 DEF Core, CoreTypes, frames, timers, switch
  <2>10. CoreControl'
    <3>1. /\ state'[u] = "READY" /\ \A v \in Schedulable \ {u} : state'[v] = state[v]
      BY <2>2, <2>5, <2>7 DEF Core, CoreTypes, Schedulable
    <3>2. /\ pc[u] # "none"
          /\ pc[u] = "lock" => on[u] \in Mutexes
          /\ u \in armed \/ clk = u => pc[u] \in {"sleept", "until"}
      BY <2>2, <2>4 DEF Core, CoreControl
    <3>3. armed' = armed /\ clk' = clk /\ current' = current /\ waking' = Nobody
      BY <1>1, <1>2 DEF timers
    <3> QED
      BY <2>2, <2>6, <3>1, <3>2, <3>3, ControlStep
  <2> QED
    BY <2>7, <2>9, <2>10 DEF Core
<1> QED
  BY <1>4, <1>5

\* cond_wait and cond_wait_timeout: the unlock and the sleep in one step.
LEMMA LinkCond ==
  ASSUME Core, NEW t \in Threads, NEW c \in Waitables, NEW m \in Mutexes,
         cond_wait(t, c, m) \/ cond_wait_timeout(t, c, m)
  PROVE  Core'
<1>1. PICK x \in {"sleep", "sleept"} :
        /\ CondSleep(t, c, m) /\ pc' = [pc EXCEPT ![t] = x]
        /\ (x = "sleept" /\ armed' = armed \cup {t}) \/ armed' = armed
  BY DEF cond_wait, cond_wait_timeout
<1>2. /\ current = t /\ state[t] = "RUNNING" /\ waking = Nobody
      /\ t \notin armed /\ clk # t
  BY <1>1 DEF CondSleep, Calls, ThreadLevel, Unlocked, Core, CoreControl
<1>3. x \in SleepPcs(c) /\ c \in Lists /\ m \in Lists /\ c # m /\ t \in Schedulable
  BY DistinctConstants DEF SleepPcs, Lists, Schedulable
<1>4. /\ lock' = [lock EXCEPT ![m] = FALSE]
      /\ holds' = [holds EXCEPT ![t] = @ \ {m}]
      /\ pend' = TRUE
      /\ on' = [on EXCEPT ![t] = c]
      /\ relock' = [relock EXCEPT ![t] = m]
      /\ UNCHANGED <<current, prio, signalled, clk, waking, switch>>
  BY <1>1 DEF CondSleep
<1>5. /\ waiters \in [Lists -> Seq(Threads)] /\ Enlisted(waiters, state, on, pc)
      /\ state \in [Schedulable -> States]
      /\ readyq \in [Prios -> Seq(Schedulable)] /\ active \subseteq Prios
      /\ on \in [Threads -> Lists \cup {Nobody}]
      /\ pc \in [Threads -> {"none", "run", "sleep", "sleept", "until", "lock", "exited"}]
  BY DEF Core, CoreTypes, WaitingOnce
<1>6. CASE waiters[m] = <<>>
  <2>1. /\ state' = [state EXCEPT ![t] = "SLEEPING"]
        /\ waiters' = [waiters EXCEPT ![c] = SortedInsert(@, t, prio)]
        /\ UNCHANGED <<readyq, active>>
    BY <1>1, <1>6 DEF CondSleep
  <2>2. SleepOn(t, c)
    BY <1>4, <2>1 DEF SleepOn, task_insert_wait_list
  <2>3. /\ waiters' \in [Lists -> Seq(Threads)]
        /\ state' \in [Schedulable -> States]
        /\ ReadyOnce' /\ ActiveQueues' /\ WaitingOnce'
    BY <1>1, <1>2, <1>3, <1>4, <2>1, <2>2, Sleeps
  <2>4. CoreTypes'
    BY <1>1, <1>3, <1>4, <2>1, <2>3 DEF Core, CoreTypes, switch
  <2>5. CoreControl'
    <3>1. /\ state'[t] = "SLEEPING" /\ pc'[t] = x
          /\ \A u \in Schedulable \ {t} : state'[u] = state[u]
          /\ \A u \in Threads \ {t} : /\ pc'[u] = pc[u] /\ on'[u] = on[u]
                                      /\ u \in armed' \/ clk' = u => u \in armed \/ clk = u
      BY <1>1, <1>3, <1>4, <1>5, <2>1
    <3>2. t \in armed' \/ clk' = t => pc'[t] \in {"sleept", "until"}
      BY <1>1, <1>2, <1>4, <3>1
    <3> QED
      BY <1>2, <1>4, <3>1, <3>2, ControlStep
  <2> QED
    BY <2>3, <2>4, <2>5 DEF Core
<1>7. CASE waiters[m] # <<>>
  <2> DEFINE u == Head(waiters[m])
             a == Tail(waiters[m])
             b == SortedInsert(waiters[c], t, prio)
             st == [state EXCEPT ![u] = "READY"]
             wt == [waiters EXCEPT ![m] = a]
  <2>1. waiters[m] \in Seq(Threads) /\ IsInjective(waiters[m])
    BY <1>3, <1>5 DEF Enlisted
  <2>2. /\ u \in Threads /\ a \in Seq(Threads) /\ u \in ToSet(waiters[m])
        /\ IsInjective(a) /\ ToSet(a) = ToSet(waiters[m]) \ {u}
    BY <1>7, <2>1, TailSet
  <2>3. /\ waiters[c] \in Seq(Threads)
        /\ IsInjective(waiters[c]) /\ t \notin ToSet(waiters[c])
    BY <1>2, <1>3, <1>5 DEF Enlisted
  <2>4. /\ b \in Seq(Threads) /\ IsInjective(b)
        /\ ToSet(b) = ToSet(waiters[c]) \cup {t}
    BY <2>3, SortedInsertSet
  <2>5. /\ state' = [state EXCEPT ![u] = "READY", ![t] = "SLEEPING"]
        /\ waiters' = [waiters EXCEPT ![m] = a, ![c] = SortedInsert(@, t, prio)]
        /\ readyq' = [readyq EXCEPT ![prio[u]] = Append(@, u)]
        /\ active' = active \cup {prio[u]}
    BY <1>1, <1>7 DEF CondSleep
  <2>6. /\ waiters' = [wt EXCEPT ![c] = b]
    BY <1>3, <1>5, <2>5
  <2> HIDE DEF u, a, b
  <2>7. state[u] = "SLEEPING" /\ u # t /\ u \in Schedulable
    BY <1>2, <1>3, <1>5, <2>2 DEF Enlisted, Schedulable
  <2>8. /\ wt \in [Lists -> Seq(Threads)] /\ st \in [Schedulable -> States]
        /\ wt[c] = waiters[c]
        /\ state' = [st EXCEPT ![t] = "SLEEPING"]
    BY <1>3, <1>5, <2>2, <2>5, <2>7 DEF States
  <2>9. /\ st[u] = "READY" /\ \A v \in Schedulable \ {u} : st[v] = state[v]
        /\ state'[t] = "SLEEPING" /\ \A v \in Schedulable \ {t} : state'[v] = st[v]
    BY <1>3, <1>5, <2>7, <2>8
  <2> HIDE DEF st
  <2>10. Shrinks(Lists, Threads, waiters, wt, m, u)
    BY <1>3, <1>5, <2>2, <2>8 DEF Shrinks
  <2> HIDE DEF wt
  <2>11. Leaves(Threads, "SLEEPING", state, st, u)
    BY <2>2, <2>9 DEF Leaves, Schedulable
  <2>12. Enlisted(wt, st, on, pc)
    BY <1>5, <2>10, <2>11, EnlistedDel
  <2>13. Grows(Lists, Threads, wt, waiters', c, t)
    BY <1>3, <2>4, <2>6, <2>8 DEF Grows
  <2>14. Enters(Threads, "SLEEPING", st, state', t)
    BY <1>2, <1>3, <2>7, <2>9 DEF Enters, Schedulable
  <2>15. SameFrames(st, on, pc, on', pc', t)
    BY <1>1, <1>4, <1>5 DEF SameFrames
  <2>16. on'[t] = c /\ pc'[t] \in SleepPcs(c)
    BY <1>1, <1>3, <1>4, <1>5
  <2>17. WaitingOnce'
    BY <2>12, <2>13, <2>14, <2>15, <2>16, EnlistedAdd DEF WaitingOnce
  <2>18. /\ readyq' \in [Prios -> Seq(Schedulable)]
         /\ Queued(readyq', st, prio)
         /\ NonEmpty(readyq') = NonEmpty(readyq) \cup {prio[u]}
    BY <2>5, <2>7, <2>9, InsertedQueue
  <2>19. \A v \in Schedulable : state'[v] = "READY" <=> st[v] = "READY"
    BY <1>2, <1>3, <2>7, <2>9
  <2>20. Queued(readyq', state', prio)
    BY <2>18, <2>19, QueuedKeep
  <2>21. ReadyOnce' /\ ActiveQueues'
    BY <1>4, <2>5, <2>18, <2>20 DEF Core, ReadyOnce, ActiveQueues
  <2>22. CoreTypes'
    <3>1. waiters' \in [Lists -> Seq(Threads)]
      BY <2>13 DEF Grows
    <3>2. state' \in [Schedulable -> States]
      BY <2>8 DEF States
    <3>3. active' \subseteq Prios
      BY <1>5, <2>5, <2>7 DEF Core, CoreTypes
    <3> QED
      BY <1>1, <1>3, <1>4, <2>18, <3>1, <3>2, <3>3 DEF Core, CoreTypes, switch
  <2>23. CoreControl'
    <3>1. /\ pc[u] # "none"
          /\ state[u] = "SLEEPING" => pc[u] # "run"
      BY <2>2, <2>7 DEF Core, CoreControl
    <3>2. /\ \A v \in Schedulable \ {u, t} : state'[v] = state[v]
          /\ state'[u] = "READY" /\ state'[t] = "SLEEPING"
      BY <2>7, <2>9
    <3>3. /\ \A v \in Threads \ {t} : pc'[v] = pc[v] /\ on'[v] = on[v]
          /\ pc'[t] = x
      BY <1>1, <1>4, <1>5
    <3>4. \A v \in Schedulable : state'[v] = "RUNNING" => v = current'
      BY <1>4, <3>2 DEF Core, CoreControl
    <3>5. ASSUME NEW v \in Threads
          PROVE  /\ pc'[v] = "none" => state'[v] = "NONE"
                 /\ state'[v] \in {"NONE", "ZOMBIE"} => pc'[v] \in {"none", "exited"}
                 /\ state'[v] = "SLEEPING" => pc'[v] # "run"
                 /\ pc'[v] = "lock" => on'[v] \in Mutexes
                 /\ v \in armed' \/ clk' = v => pc'[v] \in {"sleept", "until"}
      <4>1. CASE v = t
        BY <1>1, <1>2, <1>4, <3>2, <3>3, <4>1
      <4>2. CASE v = u
        BY <1>1, <1>4, <2>7, <3>1, <3>2, <3>3, <4>2 DEF Core, CoreControl
      <4>3. CASE v # t /\ v # u
        <5>1. state'[v] = state[v]
          BY <3>2, <4>3 DEF Schedulable
        <5> QED
          BY <1>1, <1>4, <3>3, <4>3, <5>1 DEF Core, CoreControl
      <4> QED
        BY <4>1, <4>2, <4>3
    <3>6. /\ \A k \in Tasks : state'[k] \in {"NONE", "READY"}
          /\ state'[Idle] \in {"ZOMBIE", "READY", "RUNNING"}
      BY <2>2, <3>2, DistinctConstants DEF Core, CoreControl, Schedulable
    <3> QED
      BY <1>2, <1>4, <3>4, <3>5, <3>6 DEF CoreControl
  <2> QED
    BY <2>17, <2>21, <2>22, <2>23 DEF Core
<1> QED
  BY <1>6, <1>7

\* The queues after task_switch has put the current thread back.
LEMMA RequeuedLinks ==
  ASSUME Core
  PROVE  /\ Requeued \in [Prios -> Seq(Schedulable)]
         /\ RequeuedState \in [Schedulable -> States]
         /\ Queued(Requeued, RequeuedState, prio)
         /\ RequeuedActive = NonEmpty(Requeued)
         /\ \A u \in Schedulable : u # current => RequeuedState[u] = state[u]
         /\ RequeuedState[current] # "RUNNING"
         /\ RequeuedState[current] \in {state[current], "READY"}
<1>1. /\ current \in Schedulable /\ prio \in [Schedulable -> Prios]
      /\ state \in [Schedulable -> States] /\ readyq \in [Prios -> Seq(Schedulable)]
      /\ Queued(readyq, state, prio) /\ active = NonEmpty(readyq)
  BY DEF Core, CoreTypes, Schedulable, ReadyOnce, ActiveQueues
<1>2. CASE state[current] = "RUNNING"
  <2> DEFINE t == current
             p == prio[t]
             a == Append(readyq[p], t)
             rq == Requeued
             st == RequeuedState
  <2>1. /\ st = [state EXCEPT ![t] = "READY"] /\ rq = [readyq EXCEPT ![p] = a]
        /\ RequeuedActive = active \cup {p}
    BY <1>2 DEF Requeued, RequeuedState, RequeuedActive
  <2>2. /\ t \in Schedulable /\ p \in Prios /\ readyq[p] \in Seq(Schedulable)
        /\ IsInjective(readyq[p]) /\ t \notin ToSet(readyq[p])
    BY <1>1, <1>2 DEF Queued
  <2>3. /\ a \in Seq(Schedulable) /\ IsInjective(a)
        /\ ToSet(a) = ToSet(readyq[p]) \cup {t}
    BY <2>2, AppendSet
  <2>4. prio[t] = p /\ state[t] = "RUNNING" /\ t = current
    BY <1>2
  <2> HIDE DEF a, p, t, rq, st
  <2>5. Grows(Prios, Schedulable, readyq, rq, p, t)
    BY <1>1, <2>1, <2>2, <2>3 DEF Grows
  <2>6. /\ st \in [Schedulable -> States] /\ st[t] = "READY"
        /\ \A u \in Schedulable \ {t} : st[u] = state[u]
    BY <1>1, <2>1, <2>2 DEF States
  <2>7. Enters(Schedulable, "READY", state, st, t)
    BY <2>2, <2>4, <2>6 DEF Enters
  <2>8. SamePrios(state, prio, prio, t, p)
    BY <1>1, <2>4 DEF SamePrios
  <2>9. Queued(readyq, state, prio)
    BY <1>1
  <2>10. Queued(rq, st, prio)
    BY <2>5, <2>7, <2>8, <2>9, QueuedAdd, SMTT(30)
  <2>11. NonEmpty(rq) = NonEmpty(readyq) \cup {p}
    BY <2>5, NonEmptyAdd
  <2>12. rq \in [Prios -> Seq(Schedulable)]
    BY <2>5 DEF Grows
  <2> QED
    BY <1>1, <2>1, <2>4, <2>6, <2>10, <2>11, <2>12 DEF rq, st
<1>3. CASE state[current] # "RUNNING"
  BY <1>1, <1>3 DEF Requeued, RequeuedState, RequeuedActive
<1> QED
  BY <1>2, <1>3

\* The task that task_switch picks leaves its queue; nothing of a higher
\* priority stays behind.
LEMMA PickLinks ==
  ASSUME Core, NEW k, Picks(k), state'[k] # "READY",
         \A u \in Schedulable \ {k} : state'[u] = RequeuedState[u]
  PROVE  /\ k \in Schedulable
         /\ readyq' \in [Prios -> Seq(Schedulable)]
         /\ active' \subseteq Prios
         /\ ReadyOnce' /\ ActiveQueues'
         /\ RequeuedState[k] = "READY" \/ k = Idle
         /\ \A u \in Schedulable : state'[u] = "READY" => prio[u] <= prio[k]
<1> DEFINE rq == Requeued
           st == RequeuedState
           A == RequeuedActive
<1>1. /\ rq \in [Prios -> Seq(Schedulable)] /\ st \in [Schedulable -> States]
      /\ Queued(rq, st, prio) /\ A = NonEmpty(rq)
      /\ prio \in [Schedulable -> Prios] /\ prio' = prio
  BY RequeuedLinks DEF Core, CoreTypes, Picks
<1>2. A \subseteq Prios
  BY <1>1 DEF NonEmpty
<1>3. \A q \in Prios : ToSet(rq[q]) \subseteq Schedulable
  BY <1>1 DEF ToSet
<1>4. CASE A = {}
  <2>1. k = Idle /\ k \in Schedulable /\ readyq' = rq /\ active' = {}
    BY <1>4 DEF Picks, Schedulable
  <2>2. \A q \in Prios : rq[q] = <<>>
    BY <1>1, <1>4 DEF NonEmpty
  <2>3. ToSet(<<>>) = {}
    BY DEF ToSet
  <2> HIDE DEF rq, st, A
  <2>4. \A u \in Schedulable : st[u] # "READY"
    BY <1>1, <2>2, <2>3 DEF Queued
  <2>5. \A u \in Schedulable : state'[u] # "READY"
    BY <2>1, <2>4 DEF st
  <2>6. Queued(rq, state', prio)
    BY <1>1, <2>4, <2>5, QueuedKeep
  <2>7. ReadyOnce' /\ ActiveQueues'
    BY <1>1, <1>4, <2>1, <2>6 DEF ReadyOnce, ActiveQueues
  <2> QED
    BY <1>1, <2>1, <2>5, <2>7
<1>5. CASE A # {}
  <2> DEFINE top == TopOf(A)
             a == Tail(rq[top])
             n == Len(rq[top])
  <2>1. top \in A /\ \A q \in A : q <= top
    <3>1. TASK_PRIOS - 1 \in Nat /\ A \in SUBSET (0 .. TASK_PRIOS - 1)
      BY <1>2, SchedConstants DEF Prios
    <3>2. \E p \in A : \A q \in A : q <= p
      BY <1>5, <3>1, MaxExists
    <3> HIDE DEF A
    <3> QED
      BY <3>2 DEF TopOf
  <2>2. /\ k = Head(rq[top])
        /\ readyq' = [rq EXCEPT ![top] = a]
        /\ active' = IF n = 1 THEN A \ {prio[k]} ELSE A
    BY <1>5 DEF Picks
  <2> HIDE DEF top
  <2>3. top \in Prios /\ rq[top] # <<>> /\ rq[top] \in Seq(Schedulable)
    BY <1>1, <2>1 DEF NonEmpty
  <2>4. IsInjective(rq[top])
    BY <1>1, <2>3 DEF Queued
  <2>5. /\ k \in Schedulable /\ k \in ToSet(rq[top])
        /\ a \in Seq(Schedulable) /\ IsInjective(a) /\ ToSet(a) = ToSet(rq[top]) \ {k}
        /\ a = <<>> <=> n = 1
    BY <2>2, <2>3, <2>4, TailSet
  <2>6. st[k] = "READY" /\ prio[k] = top
    BY <1>1, <2>3, <2>5 DEF Queued
  <2>7. \A u \in Schedulable \ {k} : state'[u] = st[u]
    OBVIOUS
  <2> HIDE DEF a, n, rq, st, A
  <2>8. Shrinks(Prios, Schedulable, rq, readyq', top, k)
    BY <1>1, <2>2, <2>3, <2>5 DEF Shrinks
  <2>9. Leaves(Schedulable, "READY", st, state', k)
    BY <2>5, <2>7 DEF Leaves
  <2>10. Queued(rq, st, prio) /\ prio \in [Schedulable -> Prios]
    BY <1>1
  <2>11. Queued(readyq', state', prio)
    BY <2>8, <2>9, <2>10, QueuedTake, SMTT(30)
  <2>12. readyq'[top] = a
    BY <1>1, <2>2, <2>3
  <2>13. NonEmpty(readyq') = active'
    <3>1. /\ readyq'[top] = <<>> => NonEmpty(readyq') = NonEmpty(rq) \ {top}
          /\ readyq'[top] # <<>> => NonEmpty(readyq') = NonEmpty(rq)
      BY <2>8, NonEmptyTake
    <3>2. a = <<>> <=> n = 1
      BY <2>5
    <3>3. A = NonEmpty(rq) /\ active' = IF n = 1 THEN A \ {top} ELSE A
      BY <1>1, <2>2, <2>6
    <3> QED
      BY <2>12, <3>1, <3>2, <3>3
  <2>14. ASSUME NEW u \in Schedulable, state'[u] = "READY"
         PROVE  prio[u] <= prio[k]
    <3>1. u # k /\ st[u] = "READY"
      BY <2>7, <2>14
    <3>2. u \in ToSet(rq[prio[u]]) /\ prio[u] \in Prios
      BY <1>1, <3>1 DEF Queued
    <3>3. rq[prio[u]] # <<>>
      BY <1>1, <3>2, InhabitedSeq
    <3>4. prio[u] \in A
      BY <1>1, <3>2, <3>3 DEF NonEmpty
    <3> QED
      BY <2>1, <2>6, <3>4
  <2> QED
    BY <1>1, <1>2, <2>2, <2>5, <2>6, <2>8, <2>11, <2>13, <2>14
       DEF ReadyOnce, ActiveQueues, Shrinks, st
<1> QED
  BY <1>4, <1>5

\* The switch to a thread and the call of a task's function, or of thread_exit2
\* for a thread that has exited.
LEMMA LinkSwitch ==
  ASSUME Core, NEW k \in Schedulable,
         \/ k \in Threads \cup {Idle} /\ SwitchToThread(k)
         \/ k \in Tasks \cup {t \in Threads : pc[t] = "exited"} /\ SwitchRunsTask(k)
  PROVE  /\ Core'
         /\ \A u \in Schedulable : state'[u] = "READY" => prio[u] <= prio[k]
<1>1. PICK x \in {"RUNNING", "NONE"} :
        /\ Picks(k)
        /\ state' = [RequeuedState EXCEPT ![k] = x]
        /\ x = "RUNNING" => k \in Threads \cup {Idle} /\ current' = k
        /\ x = "NONE" => /\ k \in Tasks \cup {t \in Threads : pc[t] = "exited"}
                         /\ current' = current
        /\ insw' \in BOOLEAN /\ running' \in Threads \cup Tasks \cup {Nobody}
        /\ current' \in Threads \cup {Idle}
  BY DEF SwitchToThread, SwitchRunsTask, Core, CoreTypes
<1>2. /\ UNCHANGED <<prio, waiters, mutexes, frames, timers, waking, pend, softirq, todo>>
      /\ waking = Nobody
  BY <1>1 DEF Picks, InSwitch, Unlocked
<1>3. /\ RequeuedState \in [Schedulable -> States]
      /\ \A u \in Schedulable : u # current => RequeuedState[u] = state[u]
      /\ RequeuedState[current] # "RUNNING"
      /\ RequeuedState[current] \in {state[current], "READY"}
  BY RequeuedLinks
<1>4. /\ state' \in [Schedulable -> States] /\ state'[k] = x
      /\ \A u \in Schedulable \ {k} : state'[u] = RequeuedState[u]
  BY <1>1, <1>3 DEF States
<1>5. /\ readyq' \in [Prios -> Seq(Schedulable)]
      /\ active' \subseteq Prios
      /\ ReadyOnce' /\ ActiveQueues'
      /\ RequeuedState[k] = "READY" \/ k = Idle
      /\ \A u \in Schedulable : state'[u] = "READY" => prio[u] <= prio[k]
  BY <1>1, <1>4, PickLinks
<1>6. /\ current \in Schedulable
      /\ \A u \in Schedulable : state[u] = "RUNNING" => u = current
      /\ state[Idle] \in {"ZOMBIE", "READY", "RUNNING"}
      /\ \A u \in Tasks : state[u] \in {"NONE", "READY"}
  BY DEF Core, CoreTypes, CoreControl, Schedulable
<1>7. \A u \in Threads : state'[u] = "SLEEPING" <=> state[u] = "SLEEPING"
  <2> TAKE u \in Threads
  <2>1. u \in Schedulable /\ u # Idle
    BY DistinctConstants DEF Schedulable
  <2>2. CASE u = k
    <3>1. RequeuedState[u] = "READY"
      BY <1>5, <2>1, <2>2
    <3>2. state[u] # "SLEEPING"
      <4>1. CASE u = current
        BY <3>1, <4>1 DEF RequeuedState
      <4>2. CASE u # current
        BY <1>3, <2>1, <3>1, <4>2
      <4> QED
        BY <4>1, <4>2
    <3> QED
      BY <1>4, <2>2, <3>2
  <2>3. CASE u # k
    <3>1. CASE u = current
      <4>1. state[u] = "RUNNING" => RequeuedState[u] = "READY"
        BY <1>3, <3>1
      <4>2. state[u] # "RUNNING" => RequeuedState[u] = state[u]
        BY <3>1 DEF RequeuedState
      <4> QED
        BY <1>4, <2>1, <2>3, <4>1, <4>2
    <3>2. CASE u # current
      BY <1>3, <1>4, <2>1, <2>3, <3>2
    <3> QED
      BY <3>1, <3>2
  <2> QED
    BY <2>2, <2>3
<1>8. WaitingOnce'
  BY <1>2, <1>7, SleepersKeep DEF frames
<1>9. CoreTypes'
  BY <1>1, <1>2, <1>4, <1>5 DEF Core, CoreTypes, mutexes, frames, timers
<1>10. CoreControl'
  <2>1. ASSUME NEW u \in Schedulable, state'[u] = "RUNNING"
        PROVE  u = current'
    <3>1. CASE u = k
      BY <1>1, <1>4, <2>1, <3>1
    <3>2. CASE u # k
      <4>1. RequeuedState[u] = "RUNNING"
        BY <1>4, <2>1, <3>2
      <4> QED
        BY <1>3, <1>6, <4>1
    <3> QED
      BY <3>1, <3>2
  <2>2. ASSUME NEW u \in Threads
        PROVE  /\ pc[u] = "none" => state'[u] = "NONE"
               /\ state'[u] \in {"NONE", "ZOMBIE"} => pc[u] \in {"none", "exited"}
    <3>1. u \in Schedulable /\ u # Idle /\ u \notin Tasks
      BY DistinctConstants DEF Schedulable
    <3>2. /\ pc[u] = "none" => state[u] = "NONE"
          /\ state[u] \in {"NONE", "ZOMBIE"} => pc[u] \in {"none", "exited"}
      BY DEF Core, CoreControl
    <3>3. \/ RequeuedState[u] = state[u]
          \/ RequeuedState[u] = "READY" /\ state[u] = "RUNNING"
      BY <1>3, <3>1 DEF RequeuedState
    <3>4. CASE u = k
      <4>1. RequeuedState[u] = "READY"
        BY <1>5, <3>1, <3>4
      <4>2. pc[u] # "none"
        BY <3>2, <3>3, <4>1
      <4>3. x = "NONE" => pc[u] = "exited"
        BY <1>1, <3>1, <3>4
      <4> QED
        BY <1>4, <3>4, <4>2, <4>3
    <3>5. CASE u # k
      BY <1>4, <3>1, <3>2, <3>3, <3>5
    <3> QED
      BY <3>4, <3>5
  <2>3. ASSUME NEW u \in Tasks
        PROVE  state'[u] \in {"NONE", "READY"}
    <3>1. u \in Schedulable /\ u # current /\ u \notin Threads \cup {Idle}
      BY DistinctConstants DEF Core, CoreTypes, Schedulable
    <3> QED
      BY <1>1, <1>3, <1>4, <1>6, <3>1
  <2>4. state'[Idle] \in {"ZOMBIE", "READY", "RUNNING"}
    <3>1. Idle \in Schedulable /\ Idle \notin Tasks \cup Threads
      BY DistinctConstants DEF Schedulable
    <3>2. RequeuedState[Idle] \in {"ZOMBIE", "READY", "RUNNING"}
      BY <1>3, <1>6, <3>1
    <3> QED
      BY <1>1, <1>4, <3>1, <3>2
  <2>5. \A u \in Threads :
          /\ pc'[u] = "none" => state'[u] = "NONE"
          /\ state'[u] \in {"NONE", "ZOMBIE"} => pc'[u] \in {"none", "exited"}
          /\ state'[u] = "SLEEPING" => pc'[u] # "run"
          /\ pc'[u] = "lock" => on'[u] \in Mutexes
          /\ u \in armed' \/ clk' = u => pc'[u] \in {"sleept", "until"}
    BY <1>2, <1>7, <2>2 DEF Core, CoreControl, frames, timers
  <2> QED
    BY <1>2, <2>1, <2>3, <2>4, <2>5 DEF CoreControl
<1> QED
  BY <1>5, <1>8, <1>9, <1>10 DEF Core

\* Core is inductive.
LEMMA CoreNext == Core /\ [Next]_vars => Core'
<1> SUFFICES ASSUME Core, [Next]_vars PROVE Core'
  OBVIOUS
<1>1. ASSUME NEW t \in Threads, NEW p \in Requested, thread_create(t, p)
      PROVE  Core'
  BY <1>1, LinkCreate
<1>2. ASSUME NEW t \in Threads, ThreadStep(t)
      PROVE  Core'
  BY <1>2, LinkSleep, LinkUntil, LinkLock, LinkUnlock, LinkCond, LinkResume DEF ThreadStep
<1>3. CASE IrqStep
  <2>1. ASSUME NEW w \in Waitables, NEW all \in BOOLEAN, task_wakeup(w, all)
        PROVE  Core'
    <3>1. waking' \in {w, Nobody} /\ (waking' = w => Len(waiters[w]) > 1)
      BY <2>1, DistinctConstants DEF task_wakeup
    <3> QED
      BY <2>1, <3>1, LinkWakeup DEF task_wakeup
  <2>2. CASE task_wakeup_next
    <3>1. waking \in Waitables /\ waiters[waking] # <<>>
      BY <2>2 DEF task_wakeup_next, Core, CoreTypes, CoreControl
    <3>2. waking' \in {waking, Nobody} /\ (waking' = waking => Len(waiters[waking]) > 1)
      BY <2>2 DEF task_wakeup_next
    <3> QED
      BY <2>2, <3>1, <3>2, LinkWakeup DEF task_wakeup_next
  <2> QED
    BY <1>3, <2>1, <2>2, LinkTaskRun, LinkOther, LinkTimeout DEF IrqStep
<1>4. CASE SwitchStep
  <2>1. ASSUME NEW t \in Threads \cup {Idle}, SwitchToThread(t)
        PROVE  Core'
    <3>1. t \in Schedulable
      BY DEF Schedulable
    <3> QED
      BY <2>1, <3>1, LinkSwitch
  <2>2. ASSUME NEW k \in Tasks, SwitchRunsTask(k)
        PROVE  Core'
    <3>1. k \in Schedulable
      BY DEF Schedulable
    <3> QED
      BY <2>2, <3>1, LinkSwitch
  <2> QED
    BY <1>4, <2>1, <2>2, LinkOther DEF SwitchStep
<1>5. CASE UNCHANGED vars
  <2>1. ReadyOnce' /\ ActiveQueues' /\ WaitingOnce'
    BY <1>5, LinksKeep DEF vars, frames
  <2>2. CoreTypes' /\ CoreControl'
    BY <1>5 DEF vars, Core, CoreTypes, CoreControl, queues, mutexes, frames, timers, switch
  <2> QED
    BY <2>1, <2>2 DEF Core
<1> QED
  BY <1>1, <1>2, <1>3, <1>4, <1>5 DEF Next

-----------------------------------------------------------------------------
(* LinkInv is inductive *)

\* LinkInv is Core without threads that have exited.
LEMMA LinkIsCore == LinkInv <=> Core /\ NoExits
<1>1. ASSUME LinkInv PROVE Core /\ NoExits
  <2>1. TypeOK /\ Control /\ ReadyOnce /\ ActiveQueues /\ WaitingOnce
    BY <1>1 DEF LinkInv
  <2>2. CoreTypes
    BY <2>1 DEF TypeOK, CoreTypes
  <2>3. CoreControl
    BY <2>1 DEF Control, CoreControl
  <2>4. NoExits
    BY <2>1 DEF NoExits, TypeOK
  <2> QED
    BY <2>1, <2>2, <2>3, <2>4 DEF Core
<1>2. ASSUME Core, NoExits PROVE LinkInv
  <2>1. CoreTypes /\ CoreControl /\ ReadyOnce /\ ActiveQueues /\ WaitingOnce
    BY <1>2 DEF Core
  <2>2. pc \in [Threads -> {"none", "run", "sleep", "sleept", "until", "lock"}]
    BY <1>2, <2>1 DEF NoExits, CoreTypes
  <2>3. TypeOK
    BY <1>2, <2>1, <2>2 DEF NoExits, TypeOK, CoreTypes
  <2>4. Control
    BY <1>2, <2>1 DEF NoExits, Control, CoreControl
  <2> QED
    BY <2>1, <2>3, <2>4 DEF LinkInv
<1> QED
  BY <1>1, <1>2

\* No action of the scheduler alone ends a thread or calls anything but tasks.
LEMMA NoExitsNext == Core /\ NoExits /\ [Next]_vars => NoExits'
<1> SUFFICES ASSUME Core, NoExits, [Next]_vars PROVE NoExits'
  OBVIOUS
<1>1. pc \in [Threads -> {"none", "run", "sleep", "sleept", "until", "lock", "exited"}]
  BY DEF Core, CoreTypes
<1>2. ASSUME NEW t \in Threads, NEW p \in Requested, thread_create(t, p)
      PROVE  NoExits'
  BY <1>1, <1>2 DEF NoExits, thread_create, switch
<1>3. ASSUME NEW t \in Threads, ThreadStep(t)
      PROVE  NoExits'
  <2>1. running' = running
    BY <1>3 DEF ThreadStep, task_sleep, task_sleep_deadline, sleep_until, mutex_lock,
         LockRound, mutex_trylock, mutex_unlock, cond_wait, cond_wait_timeout, CondSleep,
         SleepReturn, LockRetry, switch
  <2>2. CASE pc' = pc
    BY <2>1, <2>2 DEF NoExits
  <2>3. CASE \E x \in {"run", "sleep", "sleept", "until", "lock"} : pc' = [pc EXCEPT ![t] = x]
    BY <1>1, <2>1, <2>3 DEF NoExits
  <2>4. ASSUME NEW m, LockRound(t, m)
        PROVE  NoExits'
    BY <2>3, <2>4 DEF LockRound
  <2>5. ASSUME NEW m \in Mutexes,
               \/ mutex_lock(t, m) \/ mutex_trylock(t, m) \/ mutex_unlock(t, m)
        PROVE  NoExits'
    BY <2>2, <2>4, <2>5 DEF mutex_lock, mutex_trylock, mutex_unlock, frames
  <2>6. ASSUME NEW w \in Waitables,
               \/ task_sleep(t, w) \/ task_sleep_deadline(t, w)
               \/ \E m \in Mutexes : cond_wait(t, w, m) \/ cond_wait_timeout(t, w, m)
        PROVE  NoExits'
    BY <2>3, <2>6 DEF task_sleep, task_sleep_deadline, cond_wait, cond_wait_timeout, CondSleep
  <2>7. CASE sleep_until(t) \/ SleepReturn(t) \/ LockRetry(t)
    BY <2>3, <2>4, <2>7 DEF sleep_until, SleepReturn, LockRetry
  <2> QED
    BY <1>3, <2>5, <2>6, <2>7 DEF ThreadStep
<1>4. CASE IrqStep
  BY <1>4
     DEF NoExits, IrqStep, task_wakeup, WakeFirst, task_wakeup_next, task_run,
         softirq_raise, timer_dispatch, SleepTimeout, frames, switch
<1>5. CASE SwitchStep
  BY <1>5
     DEF NoExits, SwitchStep, SwitchEnter, SoftIrqRun, SwitchToThread, SwitchRunsTask,
         Picks, TaskReturns, frames
<1>6. CASE UNCHANGED vars
  BY <1>6 DEF NoExits, vars, frames, switch
<1> QED
  BY <1>2, <1>3, <1>4, <1>5, <1>6 DEF Next

\* Initially no thread exists.
LEMMA LinkInit == Init => LinkInv
<1> SUFFICES ASSUME Init PROVE LinkInv
  OBVIOUS
<1>1. NoExits
  BY DEF Init, NoExits
<1> QED
  BY <1>1, CoreInit, LinkIsCore

\* LinkInv is inductive.
LEMMA LinkNext == LinkInv /\ [Next]_vars => LinkInv'
<1> SUFFICES ASSUME LinkInv, [Next]_vars PROVE LinkInv'
  OBVIOUS
<1>1. Core /\ NoExits
  BY LinkIsCore
<1>2. Core' /\ NoExits'
  BY <1>1, CoreNext, NoExitsNext
<1>3. (LinkInv <=> Core /\ NoExits)'
  BY LinkIsCore, PTL
<1> QED
  BY <1>2, <1>3

-----------------------------------------------------------------------------
(* Theorems *)

\* Core holds in every reachable state: the part of LinkInv that the theorems on
\* mutexes, priorities and timers need.
THEOREM CoreInvariant == Spec => []Core
BY CoreInit, CoreNext, PTL DEF Spec

\* LinkInv holds in every reachable state, for any number of threads, tasks,
\* waitables, mutexes and priorities.
THEOREM LinkInvariant == Spec => []LinkInv
BY LinkInit, LinkNext, PTL DEF Spec

\* All variables of the scheduler keep their types.
THEOREM TypeCorrect == Spec => []TypeOK
<1>1. LinkInv => TypeOK
  BY DEF LinkInv
<1> QED
  BY <1>1, LinkInvariant, PTL

\* A task is linked on the ready queue of its priority exactly when it is
\* READY, and never twice: the panics of readyqueue_insert and of the sleep
\* functions cannot fire.
THEOREM ReadyOnceCorrect == Spec => []ReadyOnce
<1>1. LinkInv => ReadyOnce
  BY DEF LinkInv
<1> QED
  BY <1>1, LinkInvariant, PTL

\* A thread is on the wait list of the object it sleeps on exactly while it
\* sleeps there, and on no other list.
THEOREM WaitingOnceCorrect == Spec => []WaitingOnce
<1>1. LinkInv => WaitingOnce
  BY DEF LinkInv
<1> QED
  BY <1>1, LinkInvariant, PTL

\* active_queues has exactly the bits of the non-empty ready queues, so
\* task_switch never takes the head of an empty one and never overlooks a task.
THEOREM ActiveQueuesCorrect == Spec => []ActiveQueues
<1>1. LinkInv => ActiveQueues
  BY DEF LinkInv
<1> QED
  BY <1>1, LinkInvariant, PTL

-----------------------------------------------------------------------------
(* Mutual exclusion *)

\* Whoever sets a lock bit that is clear becomes the only holder.
LEMMA LockTaken ==
  ASSUME CoreTypes, MutualExclusion, NEW t \in Threads, NEW m \in Mutexes, ~lock[m],
         lock' = [lock EXCEPT ![m] = TRUE],
         holds' = [holds EXCEPT ![t] = @ \cup {m}]
  PROVE  MutualExclusion'
<1>1. /\ lock \in [Mutexes -> BOOLEAN] /\ holds \in [Threads -> SUBSET Mutexes]
  BY DEF CoreTypes
<1>2. \A u \in Threads : m \notin holds[u]
  BY DEF MutualExclusion
<1>3. /\ \A u \in Threads : holds'[u] = IF u = t THEN holds[u] \cup {m} ELSE holds[u]
      /\ \A n \in Mutexes : lock'[n] = IF n = m THEN TRUE ELSE lock[n]
  BY <1>1
<1>4. ASSUME NEW u \in Threads, NEW v \in Threads, holds'[u] \cap holds'[v] # {}
      PROVE  u = v
  <2>1. PICK n : n \in holds'[u] /\ n \in holds'[v]
    BY <1>4
  <2>2. CASE n = m
    BY <1>2, <1>3, <2>1, <2>2
  <2>3. CASE n # m
    <3>1. n \in holds[u] /\ n \in holds[v]
      BY <1>3, <2>1, <2>3
    <3> QED
      BY <3>1 DEF MutualExclusion
  <2> QED
    BY <2>2, <2>3
<1>5. ASSUME NEW n \in Mutexes
      PROVE  lock'[n] <=> \E u \in Threads : n \in holds'[u]
  <2>1. CASE n = m
    <3>1. lock'[m] = TRUE
      BY <1>1
    <3>2. holds'[t] = holds[t] \cup {m}
      BY <1>1
    <3> QED
      BY <2>1, <3>1, <3>2
  <2>2. CASE n # m
    <3>1. lock[n] <=> \E u \in Threads : n \in holds[u]
      BY DEF MutualExclusion
    <3> QED
      BY <1>3, <2>2, <3>1
  <2> QED
    BY <2>1, <2>2
<1> QED
  BY <1>4, <1>5 DEF MutualExclusion

\* The only holder clears the lock bit.
LEMMA LockFreed ==
  ASSUME CoreTypes, MutualExclusion, NEW t \in Threads, NEW m \in Mutexes, m \in holds[t],
         lock' = [lock EXCEPT ![m] = FALSE],
         holds' = [holds EXCEPT ![t] = @ \ {m}]
  PROVE  MutualExclusion'
<1>1. /\ lock \in [Mutexes -> BOOLEAN] /\ holds \in [Threads -> SUBSET Mutexes]
  BY DEF CoreTypes
<1>2. \A u \in Threads : m \in holds[u] => u = t
  BY DEF MutualExclusion
<1>3. /\ \A u \in Threads : holds'[u] = holds[u] \ {m}
      /\ \A n \in Mutexes : lock'[n] = IF n = m THEN FALSE ELSE lock[n]
  <2>1. \A u \in Threads : holds'[u] = IF u = t THEN holds[u] \ {m} ELSE holds[u]
    BY <1>1
  <2>2. \A u \in Threads : u # t => holds[u] = holds[u] \ {m}
    BY <1>2
  <2> QED
    BY <1>1, <2>1, <2>2
<1>4. ASSUME NEW u \in Threads, NEW v \in Threads, holds'[u] \cap holds'[v] # {}
      PROVE  u = v
  <2>1. holds[u] \cap holds[v] # {}
    BY <1>3, <1>4
  <2> QED
    BY <2>1 DEF MutualExclusion
<1>5. ASSUME NEW n \in Mutexes
      PROVE  lock'[n] <=> \E u \in Threads : n \in holds'[u]
  <2>1. CASE n = m
    BY <1>3, <2>1
  <2>2. CASE n # m
    <3>1. lock[n] <=> \E u \in Threads : n \in holds[u]
      BY DEF MutualExclusion
    <3> QED
      BY <1>3, <2>2, <3>1
  <2> QED
    BY <2>1, <2>2
<1> QED
  BY <1>4, <1>5 DEF MutualExclusion

\* One round of mutex_lock_sched_locked.
LEMMA RoundExclusive ==
  ASSUME CoreTypes, MutualExclusion, NEW t \in Threads, NEW m \in Mutexes, LockRound(t, m)
  PROVE  MutualExclusion'
<1>1. CASE lock[m]
  BY <1>1 DEF LockRound, mutexes, MutualExclusion
<1>2. CASE ~lock[m]
  BY <1>2, LockTaken DEF LockRound
<1> QED
  BY <1>1, <1>2

\* The mutexes of a step that touches none.
LEMMA MutexesKeep ==
  ASSUME MutualExclusion, UNCHANGED mutexes
  PROVE  MutualExclusion'
BY DEF MutualExclusion, mutexes

\* MutualExclusion is preserved by every step from a state with sound frames.
LEMMA ExclusionNext ==
  ASSUME Core, MutualExclusion, [Next]_vars
  PROVE  MutualExclusion'
<1> USE DEF Core
<1>1. ASSUME NEW t \in Threads, ThreadStep(t)
      PROVE  MutualExclusion'
  <2>1. ASSUME NEW m \in Mutexes, mutex_lock(t, m)
        PROVE  MutualExclusion'
    BY <2>1, RoundExclusive DEF mutex_lock
  <2>2. ASSUME NEW m \in Mutexes, mutex_trylock(t, m)
        PROVE  MutualExclusion'
    BY <2>2, LockTaken DEF mutex_trylock
  <2>3. ASSUME NEW m \in Mutexes, mutex_unlock(t, m)
        PROVE  MutualExclusion'
    BY <2>3, LockFreed DEF mutex_unlock
  <2>4. ASSUME NEW m \in Mutexes, NEW c \in Waitables,
               cond_wait(t, c, m) \/ cond_wait_timeout(t, c, m)
        PROVE  MutualExclusion'
    BY <2>4, LockFreed DEF cond_wait, cond_wait_timeout, CondSleep
  <2>5. CASE SleepReturn(t)
    <3>1. CASE relock[t] # Nobody
      <4>1. relock[t] \in Mutexes /\ LockRound(t, relock[t])
        BY <2>5, <3>1 DEF SleepReturn, CoreTypes
      <4> QED
        BY <4>1, RoundExclusive
    <3>2. CASE relock[t] = Nobody
      BY <2>5, <3>2, MutexesKeep DEF SleepReturn
    <3> QED
      BY <3>1, <3>2
  <2>6. CASE LockRetry(t)
    <3>1. on[t] \in Mutexes /\ LockRound(t, on[t])
      BY <2>6 DEF LockRetry, CoreControl
    <3> QED
      BY <3>1, RoundExclusive
  <2>7. ASSUME NEW w \in Waitables, task_sleep(t, w) \/ task_sleep_deadline(t, w)
        PROVE  MutualExclusion'
    BY <2>7, MutexesKeep DEF task_sleep, task_sleep_deadline
  <2>8. CASE sleep_until(t)
    BY <2>8, MutexesKeep DEF sleep_until
  <2> QED
    BY <1>1, <2>1, <2>2, <2>3, <2>4, <2>5, <2>6, <2>7, <2>8 DEF ThreadStep
<1>2. ASSUME NEW t \in Threads, NEW p \in Requested, thread_create(t, p)
      PROVE  MutualExclusion'
  BY <1>2, MutexesKeep DEF thread_create
<1>3. CASE IrqStep
  BY <1>3, MutexesKeep
     DEF IrqStep, task_wakeup, task_wakeup_next, WakeFirst, task_run, softirq_raise,
         timer_dispatch, SleepTimeout
<1>4. CASE SwitchStep
  BY <1>4, MutexesKeep
     DEF SwitchStep, SwitchEnter, SoftIrqRun, SwitchToThread, SwitchRunsTask, Picks,
         TaskReturns
<1>5. CASE UNCHANGED vars
  BY <1>5, MutexesKeep DEF vars
<1> QED
  BY <1>1, <1>2, <1>3, <1>4, <1>5 DEF Next

\* No two threads hold a mutex, and the lock bit is set exactly while one does,
\* whatever barging, timeouts and condition variables do.
THEOREM MutualExclusionCorrect == Spec => []MutualExclusion
<1>1. Init => MutualExclusion
  BY DEF Init, MutualExclusion
<1>2. Core /\ MutualExclusion /\ [Next]_vars => MutualExclusion'
  BY ExclusionNext
<1> QED
  BY <1>1, <1>2, CoreInvariant, PTL DEF Spec

-----------------------------------------------------------------------------
(* No lost unlock *)

\* Thread t is awake inside mutex_lock and will look at the lock bit of m.
Takes(t, m) == pc[t] = "lock" /\ on[t] = m /\ state[t] \in {"READY", "RUNNING"}

\* For mutex m, a step that leaves it free cleared no bit, enlisted nobody and
\* kept every thread that will look.
Steady(m) ==
  ~lock'[m] => /\ ~lock[m]
               /\ waiters[m] = <<>> => waiters'[m] = <<>>
               /\ \A t \in Threads : Takes(t, m) => Takes(t, m)'

\* The promise about mutex m.
Served(m) ==
  ~lock[m] /\ waiters[m] # <<>> => \E t \in Threads : Takes(t, m)

\* NoLostUnlock is the promise about all of them.
LEMMA ServedAll == NoLostUnlock <=> \A m \in Mutexes : Served(m)
BY DEF NoLostUnlock, Served, Takes

\* A steady step keeps the promise.
LEMMA SteadyServed ==
  ASSUME NEW m \in Mutexes, Served(m), Steady(m)
  PROVE  Served(m)'
<1> SUFFICES ASSUME ~lock'[m], waiters'[m] # <<>>
             PROVE  \E t \in Threads : Takes(t, m)'
  BY DEF Served
<1>1. PICK t \in Threads : Takes(t, m)
  BY DEF Served, Steady
<1> QED
  BY <1>1 DEF Steady

\* Steps that touch neither lock bits nor wait lists of mutexes, and put no
\* thread that is inside mutex_lock to sleep.
LEMMA AwakeSteady ==
  ASSUME UNCHANGED lock, NEW m \in Mutexes, waiters'[m] = waiters[m],
         \A t \in Threads : pc[t] = "lock" =>
            /\ pc'[t] = pc[t] /\ on'[t] = on[t]
            /\ state[t] \in {"READY", "RUNNING"} => state'[t] \in {"READY", "RUNNING"}
  PROVE  Steady(m)
BY DEF Steady, Takes

\* A round of mutex_lock by a thread that is not already on its way to
\* another mutex: the mutex is taken or was taken.
LEMMA RoundSteady ==
  ASSUME Core, NEW t \in Threads, NEW n \in Mutexes, LockRound(t, n),
         pc[t] = "lock" => on[t] = n, NEW m \in Mutexes
  PROVE  Steady(m)
<1>1. /\ lock \in [Mutexes -> BOOLEAN] /\ state \in [Schedulable -> States]
      /\ pc \in [Threads -> {"none", "run", "sleep", "sleept", "until", "lock", "exited"}]
      /\ on \in [Threads -> Lists \cup {Nobody}]
      /\ waiters \in [Lists -> Seq(Threads)]
      /\ Threads \subseteq Schedulable /\ m \in Lists /\ n \in Lists
  BY DEF Core, CoreTypes, Schedulable, Lists
<1>2. CASE m = n
  <2>1. lock'[m] = TRUE
    BY <1>1, <1>2 DEF LockRound, mutexes
  <2> QED
    BY <2>1 DEF Steady
<1>3. CASE m # n
  <2>1. lock'[m] = lock[m] /\ waiters'[m] = waiters[m]
    BY <1>1, <1>3 DEF LockRound, SleepOn, task_insert_wait_list, mutexes
  <2>2. \A u \in Threads \ {t} : /\ pc'[u] = pc[u] /\ on'[u] = on[u]
                                 /\ state'[u] = state[u]
    BY <1>1 DEF LockRound, SleepOn
  <2>3. ~Takes(t, m)
    BY <1>3 DEF Takes
  <2>4. \A u \in Threads : Takes(u, m) => Takes(u, m)'
    BY <2>2, <2>3 DEF Takes
  <2> QED
    BY <2>1, <2>4 DEF Steady
<1> QED
  BY <1>2, <1>3

\* The first waiter is taken off the list of mutex n and made ready: it will
\* look at the lock bit.  Nothing changes for the other mutexes.
LEMMA UnlockServed ==
  ASSUME Core, NEW n \in Mutexes, NEW t \in Threads, pc[t] # "lock",
         lock' = [lock EXCEPT ![n] = FALSE],
         NEW m \in Mutexes, Served(m),
         m # n => waiters'[m] = waiters[m],
         waiters[n] = <<>> => waiters'[n] = <<>>,
         waiters[n] # <<>> => state'[Head(waiters[n])] = "READY",
         \A u \in Threads : pc[u] = "lock" => pc'[u] = pc[u] /\ on'[u] = on[u],
         \A u \in Threads \ {t} : state'[u] \in {state[u], "READY"}
  PROVE  Served(m)'
<1>1. /\ lock \in [Mutexes -> BOOLEAN] /\ waiters \in [Lists -> Seq(Threads)]
      /\ n \in Lists
  BY DEF Core, CoreTypes, Lists
<1>2. \A u \in Threads \ {t}, x \in Mutexes : Takes(u, x) => Takes(u, x)'
  BY DEF Takes
<1>3. CASE m # n
  <2>1. lock'[m] = lock[m] /\ \A u \in Threads : Takes(u, m) => Takes(u, m)'
    BY <1>1, <1>2, <1>3 DEF Takes
  <2>2. Steady(m)
    BY <1>3, <2>1 DEF Steady
  <2> QED
    BY <2>2, SteadyServed
<1>4. CASE m = n
  <2>1. CASE waiters[n] = <<>>
    BY <1>4, <2>1 DEF Served
  <2>2. CASE waiters[n] # <<>>
    <3>1. waiters[n] \in Seq(Threads) /\ IsInjective(waiters[n])
      BY <1>1 DEF Core, WaitingOnce, Enlisted
    <3>2. PICK u \in Threads : u = Head(waiters[n]) /\ u \in ToSet(waiters[n])
      BY <2>2, <3>1, TailSet
    <3>3. pc[u] \in SleepPcs(n) /\ on[u] = n
      BY <1>1, <3>2 DEF Core, WaitingOnce, Enlisted
    <3>4. pc[u] = "lock"
      BY <3>3 DEF SleepPcs
    <3>5. Takes(u, n)'
      BY <2>2, <3>2, <3>3, <3>4 DEF Takes
    <3> QED
      BY <1>4, <3>2, <3>5 DEF Served
  <2> QED
    BY <2>1, <2>2
<1> QED
  BY <1>3, <1>4

\* Every step keeps the promise about every mutex.
LEMMA ServedNext ==
  ASSUME Core, NEW m \in Mutexes, Served(m), [Next]_vars
  PROVE  Served(m)'
<1>0. /\ state \in [Schedulable -> States]
      /\ pc \in [Threads -> {"none", "run", "sleep", "sleept", "until", "lock", "exited"}]
      /\ on \in [Threads -> Lists \cup {Nobody}]
      /\ waiters \in [Lists -> Seq(Threads)]
      /\ Threads \subseteq Schedulable /\ m \in Lists
      /\ \A w \in Waitables : w \in Lists /\ w # m
  BY DistinctConstants DEF Core, CoreTypes, Schedulable, Lists
<1>1. ASSUME NEW t \in Threads, ThreadStep(t)
      PROVE  Served(m)'
  <2>1. ASSUME NEW n \in Mutexes, mutex_lock(t, n)
        PROVE  Served(m)'
    <3>1. LockRound(t, n) /\ pc[t] = "run"
      BY <2>1 DEF mutex_lock, Calls
    <3>2. Steady(m)
      BY <3>1, RoundSteady
    <3> QED
      BY <3>2, SteadyServed
  <2>2. ASSUME NEW n \in Mutexes, mutex_trylock(t, n)
        PROVE  Served(m)'
    <3>1. /\ lock \in [Mutexes -> BOOLEAN] /\ lock' = [lock EXCEPT ![n] = TRUE]
          /\ UNCHANGED <<waiters, state, pc, on>>
      BY <2>2 DEF mutex_trylock, Core, CoreTypes, queues, frames
    <3>2. ~lock'[m] => ~lock[m]
      BY <3>1
    <3>3. Steady(m)
      BY <3>1, <3>2 DEF Steady, Takes
    <3> QED
      BY <3>3, SteadyServed
  <2>3. ASSUME NEW n \in Mutexes, mutex_unlock(t, n)
        PROVE  Served(m)'
    <3>1. n \in Lists /\ pc[t] = "run" /\ UNCHANGED <<pc, on>>
      BY <2>3 DEF mutex_unlock, Calls, Lists, frames
    <3>2. CASE waiters[n] = <<>>
      BY <2>3, <3>1, <3>2, UnlockServed DEF mutex_unlock
    <3>3. CASE waiters[n] # <<>>
      <4>1. Head(waiters[n]) \in Schedulable
        BY <1>0, <3>1, <3>3
      <4>2. /\ waiters' = [waiters EXCEPT ![n] = Tail(@)]
            /\ state' = [state EXCEPT ![Head(waiters[n])] = "READY"]
        BY <2>3, <3>3 DEF mutex_unlock, readyqueue_insert
      <4>3. m # n => waiters'[m] = waiters[m]
        BY <1>0, <4>2
      <4>4. /\ state'[Head(waiters[n])] = "READY"
            /\ \A u \in Threads : state'[u] \in {state[u], "READY"}
        BY <1>0, <4>1, <4>2
      <4> QED
        BY <2>3, <3>1, <3>3, <4>3, <4>4, UnlockServed DEF mutex_unlock
    <3> QED
      BY <3>2, <3>3
  <2>4. ASSUME NEW n \in Mutexes, NEW c \in Waitables,
               cond_wait(t, c, n) \/ cond_wait_timeout(t, c, n)
        PROVE  Served(m)'
    <3>1. /\ CondSleep(t, c, n) /\ n \in Lists /\ n # c
          /\ pc[t] = "run" /\ current = t /\ state[t] = "RUNNING"
          /\ lock' = [lock EXCEPT ![n] = FALSE]
      BY <2>4, DistinctConstants
         DEF cond_wait, cond_wait_timeout, CondSleep, Calls, Lists
    <3>2. \A u \in Threads : pc[u] = "lock" => pc'[u] = pc[u] /\ on'[u] = on[u]
      <4>1. \A u \in Threads \ {t} : pc'[u] = pc[u] /\ on'[u] = on[u]
        BY <1>0, <2>4, <3>1 DEF cond_wait, cond_wait_timeout, CondSleep
      <4> QED
        BY <3>1, <4>1
    <3>3. CASE waiters[n] = <<>>
      <4>1. /\ state' = [state EXCEPT ![t] = "SLEEPING"]
            /\ waiters' = [waiters EXCEPT ![c] = SortedInsert(@, t, prio)]
        BY <3>1, <3>3 DEF CondSleep
      <4>2. /\ \A u \in Threads \ {t} : state'[u] \in {state[u], "READY"}
            /\ waiters'[m] = waiters[m] /\ waiters'[n] = waiters[n]
        BY <1>0, <3>1, <4>1
      <4> QED
        BY <3>1, <3>2, <3>3, <4>2, UnlockServed
    <3>4. CASE waiters[n] # <<>>
      <4>1. PICK u \in Threads : u = Head(waiters[n]) /\ u \in ToSet(waiters[n])
        <5>1. waiters[n] \in Seq(Threads) /\ IsInjective(waiters[n])
          BY <1>0, <3>1 DEF Core, WaitingOnce, Enlisted
        <5> QED
          BY <3>4, <5>1, TailSet
      <4>2. u # t
        BY <3>1, <4>1 DEF Core, WaitingOnce, Enlisted
      <4>3. /\ state' = [state EXCEPT ![u] = "READY", ![t] = "SLEEPING"]
            /\ waiters' = [waiters EXCEPT ![n] = Tail(@),
                                          ![c] = SortedInsert(@, t, prio)]
        BY <3>1, <3>4, <4>1 DEF CondSleep
      <4>4. /\ \A v \in Threads \ {t} : state'[v] \in {state[v], "READY"}
            /\ state'[u] = "READY"
        BY <1>0, <4>2, <4>3
      <4>5. m # n => waiters'[m] = waiters[m]
        BY <1>0, <3>1, <4>3
      <4> QED
        BY <3>1, <3>2, <3>4, <4>1, <4>4, <4>5, UnlockServed
    <3> QED
      BY <3>3, <3>4
  <2>5. CASE SleepReturn(t)
    <3>1. CASE relock[t] # Nobody
      <4>1. relock[t] \in Mutexes /\ LockRound(t, relock[t]) /\ pc[t] # "lock"
        BY <2>5, <3>1 DEF SleepReturn, Core, CoreTypes
      <4>2. Steady(m)
        BY <4>1, RoundSteady
      <4> QED
        BY <4>2, SteadyServed
    <3>2. CASE relock[t] = Nobody
      <4>1. /\ pc[t] # "lock" /\ UNCHANGED <<state, waiters, lock>>
            /\ pc' = [pc EXCEPT ![t] = "run"] /\ on' = [on EXCEPT ![t] = Nobody]
        BY <2>5, <3>2 DEF SleepReturn, mutexes
      <4>2. Steady(m)
        BY <1>0, <4>1, AwakeSteady
      <4> QED
        BY <4>2, SteadyServed
    <3> QED
      BY <3>1, <3>2
  <2>6. CASE LockRetry(t)
    <3>1. on[t] \in Mutexes /\ LockRound(t, on[t])
      BY <2>6 DEF LockRetry, Core, CoreControl
    <3>2. Steady(m)
      BY <3>1, RoundSteady
    <3> QED
      BY <3>2, SteadyServed
  <2>7. ASSUME NEW w \in Waitables, task_sleep(t, w) \/ task_sleep_deadline(t, w)
        PROVE  Served(m)'
    <3>1. /\ pc[t] = "run" /\ lock' = lock
          /\ state' = [state EXCEPT ![t] = "SLEEPING"]
          /\ waiters' = [waiters EXCEPT ![w] = SortedInsert(@, t, prio)]
          /\ \E x : pc' = [pc EXCEPT ![t] = x]
          /\ on' = [on EXCEPT ![t] = w]
      BY <2>7 DEF task_sleep, task_sleep_deadline, SleepOn, task_insert_wait_list, Calls,
                  mutexes
    <3>2. /\ waiters'[m] = waiters[m]
          /\ \A u \in Threads \ {t} : state'[u] = state[u] /\ pc'[u] = pc[u] /\ on'[u] = on[u]
      BY <1>0, <3>1
    <3>3. Steady(m)
      BY <3>1, <3>2, AwakeSteady
    <3> QED
      BY <3>3, SteadyServed
  <2>8. CASE sleep_until(t)
    <3>1. /\ pc[t] = "run" /\ UNCHANGED <<lock, waiters, on>>
          /\ state' = [state EXCEPT ![t] = "SLEEPING"]
          /\ pc' = [pc EXCEPT ![t] = "until"]
      BY <2>8 DEF sleep_until, Calls, mutexes
    <3>2. Steady(m)
      BY <1>0, <3>1, AwakeSteady
    <3> QED
      BY <3>2, SteadyServed
  <2> QED
    BY <1>1, <2>1, <2>2, <2>3, <2>4, <2>5, <2>6, <2>7, <2>8 DEF ThreadStep
<1>2. ASSUME NEW t \in Threads, NEW p \in Requested, thread_create(t, p)
      PROVE  Served(m)'
  <2>1. /\ pc[t] = "none" /\ UNCHANGED <<lock, waiters, on>>
        /\ state' = [state EXCEPT ![t] = "READY"]
        /\ pc' = [pc EXCEPT ![t] = "run"]
    BY <1>2 DEF thread_create, mutexes
  <2>2. Steady(m)
    BY <1>0, <2>1, AwakeSteady
  <2> QED
    BY <2>2, SteadyServed
<1>3. CASE IrqStep
  <2>1. ASSUME NEW w \in Waitables, waiters[w] # <<>>, WakeFirst(w)
        PROVE  Served(m)'
    <3>1. PICK t \in Threads : t = Head(waiters[w])
      BY <1>0, <2>1
    <3>2. /\ UNCHANGED <<lock, pc, on>>
          /\ waiters' = [waiters EXCEPT ![w] = Tail(@)]
          /\ \E x \in {"READY", "RUNNING"} : state' = [state EXCEPT ![t] = x]
      BY <2>1, <3>1 DEF WakeFirst, MakeRunnable, readyqueue_insert, mutexes, frames
    <3>3. /\ waiters'[m] = waiters[m]
          /\ \A u \in Threads : state'[u] \in {state[u], "READY", "RUNNING"}
      BY <1>0, <3>2
    <3>4. Steady(m)
      BY <3>2, <3>3, AwakeSteady
    <3> QED
      BY <3>4, SteadyServed
  <2>2. ASSUME NEW t \in Threads, SleepTimeout(t)
        PROVE  Served(m)'
    <3>1. CASE state[t] = "SLEEPING"
      <4>1. /\ UNCHANGED <<lock, pc, on>>
            /\ \E x \in {"READY", "RUNNING"} : state' = [state EXCEPT ![t] = x]
            /\ IF pc[t] = "sleept" THEN LIST_REMOVE(on[t], t) ELSE UNCHANGED waiters
        BY <2>2, <3>1 DEF SleepTimeout, MakeRunnable, readyqueue_insert, mutexes, frames
      <4>2. waiters'[m] = waiters[m]
        <5>1. CASE pc[t] = "sleept"
          <6>1. on[t] \in Lists /\ pc[t] \in SleepPcs(on[t])
            BY <3>1, <5>1 DEF Core, WaitingOnce, Enlisted
          <6>2. on[t] # m
            BY <5>1, <6>1 DEF SleepPcs
          <6> QED
            BY <1>0, <4>1, <5>1, <6>2 DEF LIST_REMOVE
        <5>2. CASE pc[t] # "sleept"
          BY <4>1, <5>2
        <5> QED
          BY <5>1, <5>2
      <4>3. \A u \in Threads : state'[u] \in {state[u], "READY", "RUNNING"}
        BY <1>0, <4>1
      <4>4. Steady(m)
        BY <4>1, <4>2, <4>3, AwakeSteady
      <4> QED
        BY <4>4, SteadyServed
    <3>2. CASE state[t] # "SLEEPING"
      <4>1. UNCHANGED <<lock, pc, on, waiters, state>>
        BY <2>2, <3>2 DEF SleepTimeout, mutexes, frames
      <4>2. Steady(m)
        BY <4>1, AwakeSteady
      <4> QED
        BY <4>2, SteadyServed
    <3> QED
      BY <3>1, <3>2
  <2>3. ASSUME NEW k \in Tasks, task_run(k)
        PROVE  Served(m)'
    <3>1. /\ UNCHANGED <<lock, pc, on, waiters>>
          /\ state' = state \/ state' = [state EXCEPT ![k] = "READY"]
      BY <2>3 DEF task_run, readyqueue_insert, mutexes, frames
    <3>2. \A u \in Threads : state'[u] = state[u]
      BY <1>0, <3>1, DistinctConstants
    <3>3. Steady(m)
      BY <3>1, <3>2, AwakeSteady
    <3> QED
      BY <3>3, SteadyServed
  <2>4. ASSUME \/ \E i \in SoftIrqs : softirq_raise(i)
               \/ \E t \in Threads : timer_dispatch(t)
        PROVE  Served(m)'
    <3>1. UNCHANGED <<lock, pc, on, waiters, state>>
      BY <2>4 DEF softirq_raise, timer_dispatch, mutexes, frames, queues
    <3>2. Steady(m)
      BY <3>1, AwakeSteady
    <3> QED
      BY <3>2, SteadyServed
  <2>5. CASE task_wakeup_next
    <3>1. waking \in Waitables /\ waiters[waking] # <<>> /\ WakeFirst(waking)
      BY <2>5 DEF task_wakeup_next, Core, CoreTypes, CoreControl
    <3> QED
      BY <2>1, <3>1
  <2>6. ASSUME NEW w \in Waitables, NEW all \in BOOLEAN, task_wakeup(w, all)
        PROVE  Served(m)'
    BY <2>1, <2>6 DEF task_wakeup
  <2> QED
    BY <1>3, <2>2, <2>3, <2>4, <2>5, <2>6 DEF IrqStep
<1>4. CASE SwitchStep
  <2>1. ASSUME NEW k, NEW x, Picks(k), state' = [RequeuedState EXCEPT ![k] = x],
               x = "RUNNING" \/ k \in Tasks
        PROVE  Served(m)'
    <3>1. UNCHANGED <<lock, pc, on, waiters>>
      BY <2>1 DEF Picks, mutexes, frames
    <3>2. \A u \in Threads : u # k => state'[u] \in {state[u], "READY"}
      BY <1>0, <2>1 DEF RequeuedState
    <3>3. \A u \in Threads : u = k => state'[u] = "RUNNING"
      BY <1>0, <2>1, DistinctConstants DEF RequeuedState
    <3>4. Steady(m)
      BY <3>1, <3>2, <3>3, AwakeSteady
    <3> QED
      BY <3>4, SteadyServed
  <2>2. ASSUME NEW t \in Threads \cup {Idle}, SwitchToThread(t)
        PROVE  Served(m)'
    BY <2>1, <2>2 DEF SwitchToThread
  <2>3. ASSUME NEW k \in Tasks, SwitchRunsTask(k)
        PROVE  Served(m)'
    BY <2>1, <2>3 DEF SwitchRunsTask
  <2>4. ASSUME SwitchEnter \/ TaskReturns \/ \E i \in SoftIrqs : SoftIrqRun(i)
        PROVE  Served(m)'
    <3>1. UNCHANGED <<lock, pc, on, waiters, state>>
      BY <2>4 DEF SwitchEnter, TaskReturns, SoftIrqRun, mutexes, frames, queues
    <3>2. Steady(m)
      BY <3>1, AwakeSteady
    <3> QED
      BY <3>2, SteadyServed
  <2> QED
    BY <1>4, <2>2, <2>3, <2>4 DEF SwitchStep
<1>5. CASE UNCHANGED vars
  <2>1. UNCHANGED <<lock, pc, on, waiters, state>>
    BY <1>5 DEF vars, mutexes, frames, queues
  <2>2. Steady(m)
    BY <2>1, AwakeSteady
  <2> QED
    BY <2>2, SteadyServed
<1> QED
  BY <1>1, <1>2, <1>3, <1>4, <1>5 DEF Next

\* A free mutex with waiters always has an awake thread that will look at its
\* lock bit, although mutex_unlock wakes a single waiter and hands nothing over.
THEOREM NoLostUnlockCorrect == Spec => []NoLostUnlock
<1>1. Init => NoLostUnlock
  BY DEF Init, NoLostUnlock, Lists
<1>2. Core /\ NoLostUnlock /\ [Next]_vars => NoLostUnlock'
  <2> SUFFICES ASSUME Core, NoLostUnlock, [Next]_vars PROVE NoLostUnlock'
    OBVIOUS
  <2>1. \A m \in Mutexes : Served(m)'
    BY ServedAll, ServedNext
  <2> QED
    BY <2>1 DEF NoLostUnlock, Served, Takes
<1> QED
  BY <1>1, <1>2, CoreInvariant, PTL DEF Spec

-----------------------------------------------------------------------------
(* Strict priority scheduling, and wait lists in the order of priorities *)

\* No READY task has a priority above that of the current thread.
OnTop == \A t \in Schedulable : state[t] = "READY" => prio[t] <= prio[current]

\* The current thread executes; before the first switch it is the boot code.
Executes == state[current] = "RUNNING" \/ (current = Idle /\ state[Idle] = "ZOMBIE")

\* What a switch establishes and every other step keeps, or requests a switch.
DispatchInv == ~pend /\ ~insw => OnTop /\ Executes

\* Steps that leave the tasks alone.
LEMMA DispatchKeep ==
  ASSUME DispatchInv, pend' = pend, insw' = insw, UNCHANGED <<current, state, prio>>
  PROVE  DispatchInv'
BY DEF DispatchInv, OnTop, Executes

\* One round of mutex_lock: a switch is requested or nothing changed.
LEMMA DispatchRound ==
  ASSUME DispatchInv, NEW t, NEW m, LockRound(t, m),
         insw' = insw, UNCHANGED <<current, prio>>
  PROVE  DispatchInv'
<1>1. CASE lock[m]
  BY <1>1 DEF LockRound, SleepOn, DispatchInv
<1>2. CASE ~lock[m]
  BY <1>2, DispatchKeep DEF LockRound
<1> QED
  BY <1>1, <1>2

\* Task u becomes READY, and a switch is requested if it could preempt.
LEMMA DispatchReady ==
  ASSUME Core, DispatchInv, NEW u \in Schedulable, u # current,
         readyqueue_insert(u),
         pend' = (pend \/ prio[u] >= prio[current]),
         insw' = insw, UNCHANGED <<current, prio>>
  PROVE  DispatchInv'
<1>1. /\ state \in [Schedulable -> States] /\ prio \in [Schedulable -> Prios]
      /\ current \in Schedulable /\ Prios \subseteq Int
  BY SchedConstants DEF Core, CoreTypes, Schedulable, Prios
<1>2. state' = [state EXCEPT ![u] = "READY"]
  BY DEF readyqueue_insert
<1> SUFFICES ASSUME ~pend', ~insw'
             PROVE  OnTop' /\ Executes'
  BY DEF DispatchInv
<1>3. ~pend /\ ~insw /\ prio[u] <= prio[current]
  <2>1. prio[u] \in Int /\ prio[current] \in Int
    BY <1>1
  <2>2. ~pend /\ ~insw /\ ~(prio[u] >= prio[current])
    BY Zenon
  <2>3. prio[u] <= prio[current]
    BY <2>1, <2>2
  <2> QED
    BY <2>2, <2>3
<1>4. OnTop /\ Executes
  BY <1>3 DEF DispatchInv
<1>5. \A t \in Schedulable \ {u} : state'[t] = state[t]
  BY <1>1, <1>2
<1>6. OnTop'
  BY <1>3, <1>4, <1>5 DEF OnTop
<1>7. state'[current] = state[current]
  BY <1>1, <1>5
<1>8. Executes'
  BY <1>4, <1>7 DEF Executes
<1> QED
  BY <1>6, <1>8

\* The first waiter of a list is not the current thread unless it sleeps.
LEMMA FirstWaiter ==
  ASSUME Core, NEW w \in Lists, waiters[w] # <<>>
  PROVE  /\ Head(waiters[w]) \in Threads /\ Head(waiters[w]) \in Schedulable
         /\ state[Head(waiters[w])] = "SLEEPING"
<1>1. waiters[w] \in Seq(Threads) /\ IsInjective(waiters[w])
  BY DEF Core, CoreTypes, WaitingOnce, Enlisted
<1>2. Head(waiters[w]) \in Threads /\ Head(waiters[w]) \in ToSet(waiters[w])
  BY <1>1, TailSet
<1> QED
  BY <1>2 DEF Core, WaitingOnce, Enlisted, Schedulable

\* An iteration of the loop of task_wakeup.
LEMMA DispatchWake ==
  ASSUME Core, DispatchInv, NEW w \in Waitables, waiters[w] # <<>>, WakeFirst(w)
  PROVE  DispatchInv'
<1>1. PICK t \in Threads : t = Head(waiters[w]) /\ t \in Schedulable
  BY FirstWaiter DEF Lists
<1>2. /\ MakeRunnable(t) /\ insw' = insw /\ UNCHANGED <<current, prio>>
      /\ pend' = (pend \/ t = current \/ prio[t] >= prio[current])
  BY <1>1 DEF WakeFirst, switch
<1>3. CASE t = current
  BY <1>2, <1>3 DEF DispatchInv
<1>4. CASE t # current
  <2>1. readyqueue_insert(t) /\ pend' = (pend \/ prio[t] >= prio[current])
    BY <1>2, <1>4 DEF MakeRunnable
  <2> QED
    BY <1>1, <1>2, <1>4, <2>1, DispatchReady
<1> QED
  BY <1>3, <1>4

\* The switch itself: task_switch picks a task of the highest ready priority.
LEMMA DispatchSwitch ==
  ASSUME Core, NEW t \in Threads \cup {Idle}, SwitchToThread(t)
  PROVE  DispatchInv'
<1>1. t \in Schedulable
  BY DEF Schedulable
<1>2. \A u \in Schedulable : state'[u] = "READY" => prio[u] <= prio[t]
  BY <1>1, LinkSwitch
<1>3. current' = t /\ prio' = prio /\ state' = [RequeuedState EXCEPT ![t] = "RUNNING"]
  BY DEF SwitchToThread, Picks
<1>4. RequeuedState \in [Schedulable -> States]
  BY RequeuedLinks
<1>5. state'[t] = "RUNNING"
  BY <1>1, <1>3, <1>4
<1>6. OnTop'
  BY <1>2, <1>3 DEF OnTop
<1>7. Executes'
  BY <1>3, <1>5 DEF Executes
<1> QED
  BY <1>6, <1>7 DEF DispatchInv

\* DispatchInv is preserved by every step.
LEMMA DispatchNext ==
  ASSUME Core, DispatchInv, [Next]_vars
  PROVE  DispatchInv'
<1>1. ASSUME NEW t \in Threads, ThreadStep(t)
      PROVE  DispatchInv'
  <2>1. ASSUME NEW m \in Mutexes, mutex_lock(t, m)
        PROVE  DispatchInv'
    BY <2>1, DispatchRound DEF mutex_lock, switch
  <2>2. ASSUME NEW m \in Mutexes, mutex_trylock(t, m)
        PROVE  DispatchInv'
    BY <2>2, DispatchKeep DEF mutex_trylock, switch, queues
  <2>3. ASSUME NEW m \in Mutexes, mutex_unlock(t, m)
        PROVE  DispatchInv'
    <3>1. /\ insw' = insw /\ UNCHANGED <<current, prio>> /\ m \in Lists
          /\ current = t /\ state[t] = "RUNNING"
      BY <2>3 DEF mutex_unlock, switch, Lists, Calls
    <3>2. CASE waiters[m] = <<>>
      BY <2>3, <3>1, <3>2, DispatchKeep DEF mutex_unlock
    <3>3. CASE waiters[m] # <<>>
      <4>1. PICK u \in Schedulable : u = Head(waiters[m]) /\ state[u] = "SLEEPING"
        BY <3>1, <3>3, FirstWaiter
      <4>2. u # current /\ readyqueue_insert(u) /\ pend' = (pend \/ prio[u] >= prio[current])
        BY <2>3, <3>1, <3>3, <4>1 DEF mutex_unlock
      <4> QED
        BY <3>1, <4>1, <4>2, DispatchReady
    <3> QED
      BY <3>2, <3>3
  <2>4. ASSUME NEW m \in Mutexes, NEW c \in Waitables,
               cond_wait(t, c, m) \/ cond_wait_timeout(t, c, m)
        PROVE  DispatchInv'
    BY <2>4 DEF cond_wait, cond_wait_timeout, CondSleep, DispatchInv
  <2>5. CASE SleepReturn(t)
    <3>1. insw' = insw /\ UNCHANGED <<current, prio>>
      BY <2>5 DEF SleepReturn, switch
    <3>2. CASE relock[t] # Nobody
      BY <2>5, <3>1, <3>2, DispatchRound DEF SleepReturn
    <3>3. CASE relock[t] = Nobody
      BY <2>5, <3>1, <3>3, DispatchKeep DEF SleepReturn
    <3> QED
      BY <3>2, <3>3
  <2>6. CASE LockRetry(t)
    BY <2>6, DispatchRound DEF LockRetry, switch
  <2>7. ASSUME NEW w \in Waitables, task_sleep(t, w) \/ task_sleep_deadline(t, w)
        PROVE  DispatchInv'
    BY <2>7 DEF task_sleep, task_sleep_deadline, SleepOn, DispatchInv
  <2>8. CASE sleep_until(t)
    BY <2>8 DEF sleep_until, DispatchInv
  <2> QED
    BY <1>1, <2>1, <2>2, <2>3, <2>4, <2>5, <2>6, <2>7, <2>8 DEF ThreadStep
<1>2. ASSUME NEW t \in Threads, NEW p \in Requested, thread_create(t, p)
      PROVE  DispatchInv'
  BY <1>2 DEF thread_create, DispatchInv
<1>3. CASE IrqStep
  <2>1. ASSUME NEW w \in Waitables, NEW all \in BOOLEAN, task_wakeup(w, all)
        PROVE  DispatchInv'
    BY <2>1, DispatchWake DEF task_wakeup
  <2>2. CASE task_wakeup_next
    <3>1. waking \in Waitables /\ waiters[waking] # <<>> /\ WakeFirst(waking)
      BY <2>2 DEF task_wakeup_next, Core, CoreTypes, CoreControl
    <3> QED
      BY <3>1, DispatchWake
  <2>3. ASSUME NEW k \in Tasks, task_run(k)
        PROVE  DispatchInv'
    BY <2>3 DEF task_run, DispatchInv
  <2>4. ASSUME NEW i \in SoftIrqs, softirq_raise(i)
        PROVE  DispatchInv'
    BY <2>4 DEF softirq_raise, DispatchInv
  <2>5. ASSUME NEW t \in Threads, timer_dispatch(t)
        PROVE  DispatchInv'
    BY <2>5, DispatchKeep DEF timer_dispatch, switch, queues
  <2>6. ASSUME NEW t \in Threads, SleepTimeout(t)
        PROVE  DispatchInv'
    <3>1. CASE state[t] = "SLEEPING"
      BY <2>6, <3>1 DEF SleepTimeout, DispatchInv
    <3>2. CASE state[t] # "SLEEPING"
      BY <2>6, <3>2, DispatchKeep DEF SleepTimeout, switch
    <3> QED
      BY <3>1, <3>2
  <2> QED
    BY <1>3, <2>1, <2>2, <2>3, <2>4, <2>5, <2>6 DEF IrqStep
<1>4. CASE SwitchStep
  <2>1. CASE SwitchEnter
    BY <2>1 DEF SwitchEnter, DispatchInv
  <2>2. ASSUME NEW i \in SoftIrqs, SoftIrqRun(i)
        PROVE  DispatchInv'
    BY <2>2 DEF SoftIrqRun, InSwitch, DispatchInv
  <2>3. ASSUME NEW k \in Tasks, SwitchRunsTask(k)
        PROVE  DispatchInv'
    BY <2>3 DEF SwitchRunsTask, Picks, InSwitch, DispatchInv
  <2>4. CASE TaskReturns
    BY <2>4 DEF TaskReturns, InSwitch, DispatchInv
  <2> QED
    BY <1>4, <2>1, <2>2, <2>3, <2>4, DispatchSwitch DEF SwitchStep
<1>5. CASE UNCHANGED vars
  BY <1>5, DispatchKeep DEF vars, switch, queues
<1> QED
  BY <1>1, <1>2, <1>3, <1>4, <1>5 DEF Next

\* Unless a switch is pending or in progress, the current thread executes and
\* nothing of a higher priority is ready.
THEOREM DispatchInvariant == Spec => []DispatchInv
<1>1. Init => DispatchInv
  BY DistinctConstants DEF Init, DispatchInv, OnTop, Executes, Schedulable
<1>2. Core /\ DispatchInv /\ [Next]_vars => DispatchInv'
  BY DispatchNext
<1> QED
  BY <1>1, <1>2, CoreInvariant, PTL DEF Spec

\* Whenever thread code executes, no task of a higher priority is ready: every
\* way of becoming READY requests a switch if it has to, and task_switch picks
\* from the highest queue.
THEOREM HighestRunsCorrect == Spec => []HighestRuns
<1>1. DispatchInv => HighestRuns
  BY DEF DispatchInv, OnTop, HighestRuns, ThreadLevel
<1> QED
  BY <1>1, DispatchInvariant, PTL

\* A thread that has put itself to sleep executes nothing more before it has
\* been woken: the loop around schedule() never falls through.
THEOREM NoSleepwalkingCorrect == Spec => []NoSleepwalking
<1>1. DispatchInv => NoSleepwalking
  BY DEF DispatchInv, Executes, NoSleepwalking, ThreadLevel, Booting
<1> QED
  BY <1>1, DispatchInvariant, PTL

-----------------------------------------------------------------------------
(* The order of wait lists.                                                *)

\* One wait list is replaced by another that is in order.
LEMMA SortedReplace ==
  ASSUME Core, WaitersSorted, NEW w \in Lists, NEW a, SortedByPrio(a, prio),
         waiters' = [waiters EXCEPT ![w] = a], prio' = prio
  PROVE  WaitersSorted'
<1>1. waiters'[w] = a /\ \A v \in Lists \ {w} : waiters'[v] = waiters[v]
  BY DEF Core, CoreTypes
<1>2. ASSUME NEW v \in Lists PROVE SortedByPrio(waiters'[v], prio')
  BY <1>1, <1>2 DEF WaitersSorted
<1> QED
  BY <1>2 DEF WaitersSorted

\* What is known of the list of w.
LEMMA WaitList ==
  ASSUME Core, WaitersSorted, NEW w \in Lists
  PROVE  /\ waiters[w] \in Seq(Threads) /\ IsInjective(waiters[w])
         /\ SortedByPrio(waiters[w], prio)
         /\ \A u \in Threads : prio[u] \in Int
<1>1. Prios \subseteq Int
  BY SchedConstants DEF Prios
<1> QED
  BY <1>1 DEF Core, CoreTypes, WaitingOnce, Enlisted, WaitersSorted, Schedulable

\* task_insert_wait_list keeps the order.
LEMMA SortedSleep ==
  ASSUME Core, WaitersSorted, NEW w \in Lists, NEW t \in Threads,
         task_insert_wait_list(w, t), prio' = prio
  PROVE  WaitersSorted'
<1>1. SortedByPrio(SortedInsert(waiters[w], t, prio), prio)
  BY WaitList, SortedInsertOrder
<1> QED
  BY <1>1, SortedReplace DEF task_insert_wait_list

\* Taking the first waiter keeps the order.
LEMMA SortedWake ==
  ASSUME Core, WaitersSorted, NEW w \in Lists, waiters[w] # <<>>,
         waiters' = [waiters EXCEPT ![w] = Tail(@)], prio' = prio
  PROVE  WaitersSorted'
<1>1. SortedByPrio(Tail(waiters[w]), prio)
  BY WaitList, TailOrder
<1> QED
  BY <1>1, SortedReplace

\* A round of mutex_lock.
LEMMA SortedRound ==
  ASSUME Core, WaitersSorted, NEW t \in Threads, NEW m \in Mutexes, LockRound(t, m), prio' = prio
  PROVE  WaitersSorted'
<1>1. CASE lock[m]
  BY <1>1, SortedSleep DEF LockRound, SleepOn, Lists
<1>2. CASE ~lock[m]
  BY <1>2 DEF LockRound, WaitersSorted
<1> QED
  BY <1>1, <1>2

\* cond_wait takes the first waiter of the mutex and enlists the caller.
LEMMA SortedCond ==
  ASSUME Core, WaitersSorted, NEW t \in Threads, NEW m \in Mutexes, NEW c \in Waitables,
         CondSleep(t, c, m)
  PROVE  WaitersSorted'
<1>1. prio' = prio /\ c \in Lists /\ m \in Lists /\ c # m
  BY DistinctConstants DEF CondSleep, Lists
<1> DEFINE a == SortedInsert(waiters[c], t, prio)
<1>2. SortedByPrio(a, prio)
  BY <1>1, WaitList, SortedInsertOrder
<1>3. CASE waiters[m] = <<>>
  BY <1>1, <1>2, <1>3, SortedReplace DEF CondSleep
<1>4. CASE waiters[m] # <<>>
  <2>1. SortedByPrio(Tail(waiters[m]), prio)
    BY <1>1, <1>4, WaitList, TailOrder
  <2>2. waiters' = [waiters EXCEPT ![m] = Tail(@), ![c] = SortedInsert(@, t, prio)]
    BY <1>4 DEF CondSleep
  <2>3. waiters \in [Lists -> Seq(Threads)]
    BY DEF Core, CoreTypes
  <2> HIDE DEF a
  <2>4. /\ waiters'[m] = Tail(waiters[m]) /\ waiters'[c] = a
        /\ \A v \in Lists \ {m, c} : waiters'[v] = waiters[v]
    BY <1>1, <2>2, <2>3 DEF a
  <2>5. ASSUME NEW v \in Lists PROVE SortedByPrio(waiters'[v], prio')
    BY <1>1, <1>2, <2>1, <2>4, <2>5 DEF WaitersSorted
  <2> QED
    BY <2>5 DEF WaitersSorted
<1> QED
  BY <1>3, <1>4

\* The time-out takes a sleeper out of the middle of its list.
LEMMA SortedTimeout ==
  ASSUME Core, WaitersSorted, NEW t \in Threads, SleepTimeout(t)
  PROVE  WaitersSorted'
<1>1. prio' = prio
  BY DEF SleepTimeout
<1>2. CASE state[t] = "SLEEPING" /\ pc[t] = "sleept"
  <2>1. on[t] \in Lists /\ t \in ToSet(waiters[on[t]])
    BY <1>2 DEF Core, WaitingOnce, Enlisted
  <2>2. waiters' = [waiters EXCEPT ![on[t]] = Unlink(@, t)]
    BY <1>2 DEF SleepTimeout, LIST_REMOVE
  <2>3. SortedByPrio(Unlink(waiters[on[t]], t), prio)
    BY <2>1, WaitList, UnlinkOrder
  <2> QED
    BY <1>1, <2>1, <2>2, <2>3, SortedReplace
<1>3. CASE ~(state[t] = "SLEEPING" /\ pc[t] = "sleept")
  BY <1>1, <1>3 DEF SleepTimeout, WaitersSorted
<1> QED
  BY <1>2, <1>3

\* thread_create changes the priority of a block that is on no list.
LEMMA SortedCreate ==
  ASSUME Core, WaitersSorted, NEW t \in Threads, NEW p \in Requested, thread_create(t, p)
  PROVE  WaitersSorted'
<1>1. /\ waiters' = waiters /\ prio' = [prio EXCEPT ![t] = EffectivePrio(p)] /\ state[t] = "NONE"
      /\ prio \in [Schedulable -> Prios] /\ t \in Schedulable
  BY DEF thread_create, Core, CoreTypes, CoreControl, Schedulable
<1> SUFFICES ASSUME NEW w \in Lists, NEW i \in 1 .. Len(waiters[w]), NEW j \in 1 .. Len(waiters[w]), i < j
             PROVE  prio'[waiters[w][i]] >= prio'[waiters[w][j]]
  BY <1>1 DEF WaitersSorted, SortedByPrio
<1>2. waiters[w] \in Seq(Threads) /\ SortedByPrio(waiters[w], prio)
  BY WaitList
<1>3. waiters[w][i] \in ToSet(waiters[w]) /\ waiters[w][j] \in ToSet(waiters[w])
  BY <1>2 DEF ToSet
<1>4. waiters[w][i] # t /\ waiters[w][j] # t
  BY <1>1, <1>3 DEF Core, WaitingOnce, Enlisted
<1>5. waiters[w][i] \in Schedulable /\ waiters[w][j] \in Schedulable
  BY <1>2 DEF Schedulable
<1>6. prio'[waiters[w][i]] = prio[waiters[w][i]] /\ prio'[waiters[w][j]] = prio[waiters[w][j]]
  BY <1>1, <1>4, <1>5
<1> QED
  BY <1>2, <1>6 DEF SortedByPrio

\* WaitersSorted is preserved by every step.
LEMMA SortedNext ==
  ASSUME Core, WaitersSorted, [Next]_vars
  PROVE  WaitersSorted'
<1>1. ASSUME NEW t \in Threads, ThreadStep(t)
      PROVE  WaitersSorted'
  <2>1. ASSUME NEW m \in Mutexes, mutex_lock(t, m)
        PROVE  WaitersSorted'
    BY <2>1, SortedRound DEF mutex_lock
  <2>2. ASSUME NEW m \in Mutexes, mutex_trylock(t, m)
        PROVE  WaitersSorted'
    BY <2>2 DEF mutex_trylock, queues, WaitersSorted
  <2>3. ASSUME NEW m \in Mutexes, mutex_unlock(t, m)
        PROVE  WaitersSorted'
    <3>1. m \in Lists /\ prio' = prio
      BY <2>3 DEF mutex_unlock, Lists
    <3>2. CASE waiters[m] = <<>>
      BY <2>3, <3>1, <3>2 DEF mutex_unlock, WaitersSorted
    <3>3. CASE waiters[m] # <<>>
      BY <2>3, <3>1, <3>3, SortedWake DEF mutex_unlock
    <3> QED
      BY <3>2, <3>3
  <2>4. ASSUME NEW m \in Mutexes, NEW c \in Waitables,
               cond_wait(t, c, m) \/ cond_wait_timeout(t, c, m)
        PROVE  WaitersSorted'
    BY <2>4, SortedCond DEF cond_wait, cond_wait_timeout
  <2>5. CASE SleepReturn(t)
    <3>1. CASE relock[t] # Nobody
      <4>1. relock[t] \in Mutexes
        BY <3>1 DEF Core, CoreTypes
      <4> QED
        BY <2>5, <3>1, <4>1, SortedRound DEF SleepReturn
    <3>2. CASE relock[t] = Nobody
      BY <2>5, <3>2 DEF SleepReturn, WaitersSorted
    <3> QED
      BY <3>1, <3>2
  <2>6. CASE LockRetry(t)
    <3>1. on[t] \in Mutexes
      BY <2>6 DEF LockRetry, Core, CoreControl
    <3> QED
      BY <2>6, <3>1, SortedRound DEF LockRetry
  <2>7. ASSUME NEW w \in Waitables, task_sleep(t, w) \/ task_sleep_deadline(t, w)
        PROVE  WaitersSorted'
    BY <2>7, SortedSleep DEF task_sleep, task_sleep_deadline, SleepOn, Lists
  <2>8. CASE sleep_until(t)
    BY <2>8 DEF sleep_until, WaitersSorted
  <2> QED
    BY <1>1, <2>1, <2>2, <2>3, <2>4, <2>5, <2>6, <2>7, <2>8 DEF ThreadStep
<1>2. CASE IrqStep
  <2>1. ASSUME NEW w \in Waitables, NEW all \in BOOLEAN, task_wakeup(w, all)
        PROVE  WaitersSorted'
    BY <2>1, SortedWake DEF task_wakeup, WakeFirst, Lists
  <2>2. CASE task_wakeup_next
    <3>1. waking \in Lists /\ waiters[waking] # <<>>
      BY <2>2 DEF task_wakeup_next, Core, CoreTypes, CoreControl, Lists
    <3> QED
      BY <2>2, <3>1, SortedWake DEF task_wakeup_next, WakeFirst
  <2>3. ASSUME NEW k \in Tasks, task_run(k)
        PROVE  WaitersSorted'
    BY <2>3 DEF task_run, WaitersSorted
  <2>4. ASSUME NEW i \in SoftIrqs, softirq_raise(i)
        PROVE  WaitersSorted'
    BY <2>4 DEF softirq_raise, queues, WaitersSorted
  <2>5. ASSUME NEW t \in Threads, timer_dispatch(t)
        PROVE  WaitersSorted'
    BY <2>5 DEF timer_dispatch, queues, WaitersSorted
  <2> QED
    BY <1>2, <2>1, <2>2, <2>3, <2>4, <2>5, SortedTimeout DEF IrqStep
<1>3. CASE SwitchStep
  <2>1. waiters' = waiters /\ prio' = prio
    BY <1>3 DEF SwitchStep, SwitchEnter, SoftIrqRun, SwitchToThread, SwitchRunsTask,
                TaskReturns, Picks, queues
  <2> QED
    BY <2>1 DEF WaitersSorted
<1>4. CASE UNCHANGED vars
  BY <1>4 DEF vars, queues, WaitersSorted
<1> QED
  BY <1>1, <1>2, <1>3, <1>4, SortedCreate DEF Next

\* Wait lists stay in the order of priorities, whatever sleeps, wakeups,
\* unlocks and time-outs do to them: a wakeup of one takes a thread of the
\* highest priority among those waiting.
THEOREM WaitersSortedCorrect == Spec => []WaitersSorted
<1>1. Init => WaitersSorted
  BY DEF Init, WaitersSorted, SortedByPrio
<1>2. Core /\ WaitersSorted /\ [Next]_vars => WaitersSorted'
  BY SortedNext
<1> QED
  BY <1>1, <1>2, CoreInvariant, PTL DEF Spec

-----------------------------------------------------------------------------
(* Sleeps with a deadline *)

\* The timer of t is linked or its callback is about to be called.
Ticking(t) == t \in armed \/ clk = t

\* What each thread's timer, frame and state say about each other: the timer is
\* linked or being called back, not both; nothing but the timer ends a
\* sleep_until; a timed sleeper keeps its timer; and one that is awake with the
\* timer still linked was woken.
Timed(t) ==
  /\ ~(t \in armed /\ clk = t)
  /\ pc[t] = "until" => (state[t] = "SLEEPING" <=> Ticking(t))
  /\ pc[t] = "sleept" /\ state[t] = "SLEEPING" => Ticking(t)
  /\ pc[t] = "sleept" /\ t \in armed /\ state[t] # "SLEEPING" => t \in signalled

TimerInv == \A t \in Threads : Timed(t)

\* A thread whose own frame, timer and sleep are not touched.
LEMMA TimedKeep ==
  ASSUME NEW t \in Threads, Timed(t), pc'[t] = pc[t],
         state'[t] = "SLEEPING" <=> state[t] = "SLEEPING",
         t \in armed' <=> t \in armed, clk' = t <=> clk = t,
         t \in signalled => t \in signalled'
  PROVE  Timed(t)'
BY DEF Timed, Ticking

\* A thread that is in neither kind of timed sleep any more.
LEMMA TimedUnlinked ==
  ASSUME NEW t \in Threads, pc'[t] \notin {"until", "sleept"}, t \notin armed' \/ clk' # t
  PROVE  Timed(t)'
BY DEF Timed, Ticking

\* A step of thread t on its own frame, with the timers of others untouched.
LEMMA OwnStep ==
  ASSUME TimerInv, NEW t \in Threads, Timed(t)',
         \A u \in Threads \ {t} :
            /\ pc'[u] = pc[u]
            /\ state'[u] = "SLEEPING" <=> state[u] = "SLEEPING"
            /\ u \in armed' <=> u \in armed
            /\ u \in signalled <=> u \in signalled',
         clk' = clk
  PROVE  TimerInv'
<1>1. ASSUME NEW u \in Threads, u # t PROVE Timed(u)'
  <2>1. /\ Timed(u) /\ pc'[u] = pc[u]
        /\ state'[u] = "SLEEPING" <=> state[u] = "SLEEPING"
        /\ u \in armed' <=> u \in armed
        /\ u \in signalled => u \in signalled'
    BY <1>1 DEF TimerInv
  <2>2. clk' = u <=> clk = u
    OBVIOUS
  <2> QED
    BY <2>1, <2>2, TimedKeep
<1> QED
  BY <1>1 DEF TimerInv

\* A round of mutex_lock takes t out of every timed sleep.
LEMMA RoundTimed ==
  ASSUME Core, TimerInv, NEW t \in Threads, NEW m \in Mutexes, LockRound(t, m),
         clk' = clk, clk # t,
         \A u \in Threads \ {t} : /\ u \in armed' <=> u \in armed
                                  /\ u \in signalled <=> u \in signalled'
  PROVE  TimerInv'
<1>1. /\ state \in [Schedulable -> States] /\ Threads \subseteq Schedulable
      /\ pc \in [Threads -> {"none", "run", "sleep", "sleept", "until", "lock", "exited"}]
  BY DEF Core, CoreTypes, Schedulable
<1>2. pc'[t] \in {"lock", "run"}
  BY <1>1 DEF LockRound
<1>3. \A u \in Threads \ {t} : pc'[u] = pc[u] /\ state'[u] = state[u]
  BY <1>1 DEF LockRound, SleepOn
<1>4. Timed(t)'
  BY <1>2, TimedUnlinked
<1> QED
  BY <1>3, <1>4, OwnStep

\* Wakeups: the thread is on a wait list, so not in sleep_until, and is
\* recorded when its sleep has a deadline.
LEMMA WakeTimed ==
  ASSUME Core, TimerInv, NEW w \in Waitables, waiters[w] # <<>>, WakeFirst(w)
  PROVE  TimerInv'
<1>1. /\ state \in [Schedulable -> States] /\ Threads \subseteq Schedulable
      /\ w \in Lists /\ waiters[w] \in Seq(Threads) /\ IsInjective(waiters[w])
  BY DEF Core, CoreTypes, Schedulable, Lists, WaitingOnce, Enlisted
<1>2. PICK t \in Threads : t = Head(waiters[w]) /\ t \in ToSet(waiters[w])
  BY <1>1, TailSet
<1>3. pc[t] \in {"sleep", "sleept"}
  BY <1>1, <1>2, DistinctConstants DEF Core, WaitingOnce, Enlisted, SleepPcs
<1>4. /\ pc' = pc /\ armed' = armed /\ clk' = clk
      /\ signalled' = IF pc[t] = "sleept" THEN signalled \cup {t} ELSE signalled
      /\ \E x \in {"READY", "RUNNING"} : state' = [state EXCEPT ![t] = x]
  BY <1>2 DEF WakeFirst, MakeRunnable, readyqueue_insert, frames
<1>5. /\ state'[t] # "SLEEPING"
      /\ \A u \in Threads \ {t} : state'[u] = state[u]
  BY <1>1, <1>4
<1>6. Timed(t)'
  <2>1. Timed(t)
    BY DEF TimerInv
  <2> QED
    BY <1>3, <1>4, <1>5, <2>1 DEF Timed, Ticking
<1> QED
  BY <1>4, <1>5, <1>6, OwnStep

\* Every step that neither links nor unlinks a timer and puts nobody into or
\* out of a sleep.
LEMMA TimersKeep ==
  ASSUME TimerInv, UNCHANGED <<pc, armed, clk, signalled>>,
         \A t \in Threads : state'[t] = "SLEEPING" <=> state[t] = "SLEEPING"
  PROVE  TimerInv'
<1>1. ASSUME NEW t \in Threads PROVE Timed(t)'
  <2>1. Timed(t)
    BY DEF TimerInv
  <2> QED
    BY <2>1, TimedKeep
<1> QED
  BY <1>1 DEF TimerInv

\* The clock interrupt: unlinking, and the callback.
LEMMA ClockTimed ==
  ASSUME Core, TimerInv, NEW t \in Threads, timer_dispatch(t) \/ SleepTimeout(t)
  PROVE  TimerInv'
<1>1. /\ state \in [Schedulable -> States] /\ Threads \subseteq Schedulable
      /\ Nobody \notin Threads
  BY DistinctConstants DEF Core, CoreTypes, Schedulable
<1>2. CASE timer_dispatch(t)
  <2>1. /\ t \in armed /\ armed' = armed \ {t} /\ clk = Nobody /\ clk' = t
        /\ UNCHANGED <<pc, signalled, state>>
    BY <1>2 DEF timer_dispatch, frames, queues
  <2>2. ASSUME NEW u \in Threads PROVE Timed(u)'
    <3>1. Timed(u)
      BY DEF TimerInv
    <3>2. Ticking(u)' <=> Ticking(u)
      BY <1>1, <2>1 DEF Ticking
    <3> QED
      BY <2>1, <3>1, <3>2 DEF Timed
  <2> QED
    BY <2>2 DEF TimerInv
<1>3. CASE SleepTimeout(t)
  <2>1. /\ clk = t /\ clk' = Nobody /\ UNCHANGED <<pc, armed, signalled>>
    BY <1>3 DEF SleepTimeout, frames
  <2>2. t \notin armed
    BY <2>1 DEF TimerInv, Timed
  <2>3. state'[t] # "SLEEPING" /\ \A u \in Threads \ {t} : state'[u] = state[u]
    <3>1. CASE state[t] = "SLEEPING"
      <4>1. \E x \in {"READY", "RUNNING"} : state' = [state EXCEPT ![t] = x]
        BY <1>3, <3>1 DEF SleepTimeout, MakeRunnable, readyqueue_insert
      <4> QED
        BY <1>1, <4>1
    <3>2. CASE state[t] # "SLEEPING"
      BY <1>3, <3>2 DEF SleepTimeout
    <3> QED
      BY <3>1, <3>2
  <2>4. ASSUME NEW u \in Threads PROVE Timed(u)'
    <3>1. CASE u = t
      BY <1>1, <2>1, <2>2, <2>3, <3>1 DEF Timed, Ticking
    <3>2. CASE u # t
      <4>1. Timed(u) /\ clk' # u /\ clk # u
        BY <1>1, <2>1, <3>2 DEF TimerInv
      <4> QED
        BY <2>1, <2>3, <3>2, <4>1, TimedKeep
    <3> QED
      BY <3>1, <3>2
  <2> QED
    BY <2>4 DEF TimerInv
<1> QED
  BY <1>2, <1>3

\* TimerInv is preserved by every step.
LEMMA TimerNext ==
  ASSUME Core, TimerInv, [Next]_vars
  PROVE  TimerInv'
<1>0. /\ state \in [Schedulable -> States] /\ Threads \subseteq Schedulable
      /\ pc \in [Threads -> {"none", "run", "sleep", "sleept", "until", "lock", "exited"}]
      /\ current \in Schedulable /\ Nobody \notin Threads
  BY DistinctConstants DEF Core, CoreTypes, Schedulable
<1>1. ASSUME NEW t \in Threads, ThreadStep(t)
      PROVE  TimerInv'
  <2>0. clk = Nobody /\ clk # t
    BY <1>0, <1>1
       DEF ThreadStep, task_sleep, task_sleep_deadline, sleep_until, mutex_lock,
           mutex_trylock, mutex_unlock, cond_wait, cond_wait_timeout, CondSleep,
           SleepReturn, LockRetry, Calls, Resumes, ThreadLevel
  <2>1. ASSUME NEW m \in Mutexes, mutex_lock(t, m)
        PROVE  TimerInv'
    BY <2>0, <2>1, RoundTimed DEF mutex_lock, timers
  <2>2. ASSUME NEW m \in Mutexes, mutex_trylock(t, m)
        PROVE  TimerInv'
    BY <2>2, TimersKeep DEF mutex_trylock, timers, frames, queues
  <2>3. ASSUME NEW m \in Mutexes, mutex_unlock(t, m)
        PROVE  TimerInv'
    <3>1. UNCHANGED <<pc, armed, clk, signalled>> /\ m \in Lists
      BY <2>3 DEF mutex_unlock, timers, frames, Lists
    <3>2. CASE waiters[m] = <<>>
      BY <2>3, <3>1, <3>2, TimersKeep DEF mutex_unlock
    <3>3. CASE waiters[m] # <<>>
      <4>1. waiters[m] \in Seq(Threads) /\ IsInjective(waiters[m])
        BY <3>1 DEF Core, CoreTypes, WaitingOnce, Enlisted
      <4>2. PICK u \in Threads : u = Head(waiters[m]) /\ u \in ToSet(waiters[m])
        BY <3>3, <4>1, TailSet
      <4>3. pc[u] = "lock"
        BY <3>1, <4>2 DEF Core, WaitingOnce, Enlisted, SleepPcs
      <4>4. state' = [state EXCEPT ![u] = "READY"]
        BY <2>3, <3>3, <4>2 DEF mutex_unlock, readyqueue_insert
      <4>5. Timed(u)'
        BY <2>0, <3>1, <4>3, TimedUnlinked, <1>0
      <4>6. \A v \in Threads \ {u} : state'[v] = state[v]
        BY <1>0, <4>4
      <4> QED
        BY <3>1, <4>5, <4>6, OwnStep
    <3> QED
      BY <3>2, <3>3
  <2>4. ASSUME NEW m \in Mutexes, NEW c \in Waitables,
               cond_wait(t, c, m) \/ cond_wait_timeout(t, c, m)
        PROVE  TimerInv'
    <3>1. /\ CondSleep(t, c, m) /\ m \in Lists /\ state[t] = "RUNNING" /\ pc[t] = "run"
          /\ UNCHANGED <<clk, signalled>>
      BY <2>4 DEF cond_wait, cond_wait_timeout, CondSleep, Calls, Lists
    <3>2. \/ pc' = [pc EXCEPT ![t] = "sleep"] /\ armed' = armed
          \/ pc' = [pc EXCEPT ![t] = "sleept"] /\ armed' = armed \cup {t}
      BY <2>4 DEF cond_wait, cond_wait_timeout
    <3>3. /\ \A u \in Threads \ {t} : pc'[u] = pc[u] /\ (u \in armed' <=> u \in armed)
          /\ \/ pc'[t] = "sleep"
             \/ pc'[t] = "sleept" /\ t \in armed'
      BY <1>0, <3>2
    <3>4. CASE waiters[m] = <<>>
      <4>1. state' = [state EXCEPT ![t] = "SLEEPING"]
        BY <3>1, <3>4 DEF CondSleep
      <4>2. state'[t] = "SLEEPING" /\ \A u \in Threads \ {t} : state'[u] = state[u]
        BY <1>0, <4>1
      <4>3. Timed(t)'
        BY <2>0, <3>1, <3>3, <4>2 DEF Timed, Ticking
      <4> QED
        BY <3>1, <3>3, <4>2, <4>3, OwnStep
    <3>5. CASE waiters[m] # <<>>
      <4>1. waiters[m] \in Seq(Threads) /\ IsInjective(waiters[m])
        BY <3>1 DEF Core, CoreTypes, WaitingOnce, Enlisted
      <4>2. PICK u \in Threads : u = Head(waiters[m]) /\ u \in ToSet(waiters[m])
        BY <3>5, <4>1, TailSet
      <4>3. pc[u] = "lock" /\ u # t
        BY <3>1, <4>2 DEF Core, WaitingOnce, Enlisted, SleepPcs
      <4>4. state' = [state EXCEPT ![u] = "READY", ![t] = "SLEEPING"]
        BY <3>1, <3>5, <4>2 DEF CondSleep
      <4>5. /\ state'[t] = "SLEEPING" /\ pc'[u] = "lock"
            /\ \A v \in Threads \ {t, u} : state'[v] = state[v]
        BY <1>0, <3>3, <4>3, <4>4
      <4>6. Timed(t)'
        BY <2>0, <3>1, <3>3, <4>5 DEF Timed, Ticking
      <4>7. Timed(u)'
        BY <1>0, <2>0, <3>1, <4>5, TimedUnlinked
      <4>8. ASSUME NEW v \in Threads \ {t, u} PROVE Timed(v)'
        <5>1. Timed(v)
          BY DEF TimerInv
        <5> QED
          BY <3>1, <3>3, <4>5, <5>1, TimedKeep
      <4> QED
        BY <4>6, <4>7, <4>8 DEF TimerInv
    <3> QED
      BY <3>4, <3>5
  <2>5. CASE SleepReturn(t)
    <3>1. armed' = armed \ {t} /\ signalled' = signalled \ {t} /\ clk' = clk
      BY <2>5 DEF SleepReturn
    <3>2. CASE relock[t] # Nobody
      <4>1. relock[t] \in Mutexes /\ LockRound(t, relock[t])
        BY <2>5, <3>2 DEF SleepReturn, Core, CoreTypes
      <4> QED
        BY <2>0, <3>1, <4>1, RoundTimed
    <3>3. CASE relock[t] = Nobody
      <4>1. pc' = [pc EXCEPT ![t] = "run"] /\ state' = state
        BY <2>5, <3>3 DEF SleepReturn
      <4>2. pc'[t] = "run" /\ \A u \in Threads \ {t} : pc'[u] = pc[u]
        BY <1>0, <4>1
      <4>3. Timed(t)'
        BY <3>1, <4>2, TimedUnlinked
      <4> QED
        BY <3>1, <4>1, <4>2, <4>3, OwnStep
    <3> QED
      BY <3>2, <3>3
  <2>6. CASE LockRetry(t)
    <3>1. on[t] \in Mutexes /\ LockRound(t, on[t]) /\ UNCHANGED <<armed, clk, signalled>>
      BY <2>6 DEF LockRetry, Core, CoreControl, timers
    <3> QED
      BY <2>0, <3>1, RoundTimed
  <2>7. ASSUME NEW w \in Waitables, task_sleep(t, w) \/ task_sleep_deadline(t, w)
        PROVE  TimerInv'
    <3>1. /\ state' = [state EXCEPT ![t] = "SLEEPING"] /\ UNCHANGED <<clk, signalled>>
          /\ \/ pc' = [pc EXCEPT ![t] = "sleep"] /\ armed' = armed
             \/ pc' = [pc EXCEPT ![t] = "sleept"] /\ armed' = armed \cup {t}
      BY <2>7 DEF task_sleep, task_sleep_deadline, SleepOn, timers
    <3>2. /\ state'[t] = "SLEEPING"
          /\ \A u \in Threads \ {t} : /\ state'[u] = state[u] /\ pc'[u] = pc[u]
                                      /\ u \in armed' <=> u \in armed
          /\ \/ pc'[t] = "sleep"
             \/ pc'[t] = "sleept" /\ t \in armed'
      BY <1>0, <3>1
    <3>3. Timed(t)'
      BY <2>0, <3>1, <3>2 DEF Timed, Ticking
    <3> QED
      BY <3>1, <3>2, <3>3, OwnStep
  <2>8. CASE sleep_until(t)
    <3>1. /\ state' = [state EXCEPT ![t] = "SLEEPING"] /\ UNCHANGED <<clk, signalled>>
          /\ pc' = [pc EXCEPT ![t] = "until"] /\ armed' = armed \cup {t}
      BY <2>8 DEF sleep_until
    <3>2. /\ state'[t] = "SLEEPING" /\ pc'[t] = "until" /\ t \in armed'
          /\ \A u \in Threads \ {t} : /\ state'[u] = state[u] /\ pc'[u] = pc[u]
                                      /\ u \in armed' <=> u \in armed
      BY <1>0, <3>1
    <3>3. Timed(t)'
      BY <2>0, <3>1, <3>2 DEF Timed, Ticking
    <3> QED
      BY <3>1, <3>2, <3>3, OwnStep
  <2> QED
    BY <1>1, <2>1, <2>2, <2>3, <2>4, <2>5, <2>6, <2>7, <2>8 DEF ThreadStep
<1>2. ASSUME NEW t \in Threads, NEW p \in Requested, thread_create(t, p)
      PROVE  TimerInv'
  <2>1. /\ pc[t] = "none" /\ pc' = [pc EXCEPT ![t] = "run"]
        /\ state' = [state EXCEPT ![t] = "READY"] /\ UNCHANGED <<armed, clk, signalled>>
    BY <1>2 DEF thread_create, timers
  <2>2. /\ pc'[t] = "run"
        /\ \A u \in Threads \ {t} : state'[u] = state[u] /\ pc'[u] = pc[u]
    BY <1>0, <2>1
  <2>3. t \notin armed /\ clk # t
    BY <2>1 DEF Core, CoreControl
  <2>4. Timed(t)'
    BY <2>1, <2>2, <2>3, TimedUnlinked
  <2> QED
    BY <2>1, <2>2, <2>4, OwnStep
<1>3. CASE IrqStep
  <2>1. ASSUME NEW w \in Waitables, NEW all \in BOOLEAN, task_wakeup(w, all)
        PROVE  TimerInv'
    BY <2>1, WakeTimed DEF task_wakeup
  <2>2. CASE task_wakeup_next
    <3>1. waking \in Waitables /\ waiters[waking] # <<>> /\ WakeFirst(waking)
      BY <2>2 DEF task_wakeup_next, Core, CoreTypes, CoreControl
    <3> QED
      BY <3>1, WakeTimed
  <2>3. ASSUME NEW k \in Tasks, task_run(k)
        PROVE  TimerInv'
    <3>1. /\ UNCHANGED <<pc, armed, clk, signalled>>
          /\ state' = state \/ state' = [state EXCEPT ![k] = "READY"]
      BY <2>3 DEF task_run, readyqueue_insert, timers, frames
    <3>2. \A u \in Threads : state'[u] = state[u]
      BY <1>0, <3>1, DistinctConstants
    <3> QED
      BY <3>1, <3>2, TimersKeep
  <2>4. ASSUME NEW i \in SoftIrqs, softirq_raise(i)
        PROVE  TimerInv'
    BY <2>4, TimersKeep DEF softirq_raise, timers, frames, queues
  <2> QED
    BY <1>3, <2>1, <2>2, <2>3, <2>4, ClockTimed DEF IrqStep
<1>4. CASE SwitchStep
  <2>1. ASSUME NEW k \in Schedulable, NEW x \in {"RUNNING", "NONE"}, Picks(k),
               state' = [RequeuedState EXCEPT ![k] = x],
               Core'
        PROVE  TimerInv'
    <3>1. UNCHANGED <<pc, on, armed, clk, signalled, waiters>>
      BY <2>1 DEF Picks, timers, frames
    <3>2. \A u \in Threads : state'[u] = "SLEEPING" => state[u] = "SLEEPING"
      BY <1>0, <2>1 DEF RequeuedState
    <3>3. \A u \in Threads : state[u] = "SLEEPING" => state'[u] = "SLEEPING"
      <4>1. SUFFICES ASSUME NEW u \in Threads, state[u] = "SLEEPING"
                     PROVE  state'[u] = "SLEEPING"
        OBVIOUS
      <4>2. u # k
        <5>1. CASE k = Idle
          BY <5>1, DistinctConstants
        <5>2. CASE k # Idle
          <6>1. RequeuedState[k] = "READY"
            BY <2>1, <5>2, PickLinks
          <6> QED
            BY <1>0, <4>1, <6>1 DEF RequeuedState
        <5> QED
          BY <5>1, <5>2
      <4> QED
        BY <1>0, <2>1, <4>1, <4>2 DEF RequeuedState
    <3> QED
      BY <3>1, <3>2, <3>3, TimersKeep
  <2>2. ASSUME NEW t \in Threads \cup {Idle}, SwitchToThread(t)
        PROVE  TimerInv'
    <3>1. t \in Schedulable
      BY DEF Schedulable
    <3> QED
      BY <2>1, <2>2, <3>1, LinkSwitch DEF SwitchToThread
  <2>3. ASSUME NEW k \in Tasks, SwitchRunsTask(k)
        PROVE  TimerInv'
    <3>1. k \in Schedulable
      BY DEF Schedulable
    <3> QED
      BY <2>1, <2>3, <3>1, LinkSwitch DEF SwitchRunsTask
  <2>4. ASSUME SwitchEnter \/ TaskReturns \/ \E i \in SoftIrqs : SoftIrqRun(i)
        PROVE  TimerInv'
    BY <2>4, TimersKeep
       DEF SwitchEnter, TaskReturns, SoftIrqRun, timers, frames, queues
  <2> QED
    BY <1>4, <2>2, <2>3, <2>4 DEF SwitchStep
<1>5. CASE UNCHANGED vars
  BY <1>5, TimersKeep DEF vars, timers, frames, queues
<1> QED
  BY <1>1, <1>2, <1>3, <1>4, <1>5 DEF Next

-----------------------------------------------------------------------------
(* Theorems *)

\* The states of timers, frames and threads agree in every reachable state.
THEOREM TimerInvariant == Spec => []TimerInv
<1>1. Init => TimerInv
  BY DistinctConstants DEF Init, TimerInv, Timed, Ticking
<1>2. Core /\ TimerInv /\ [Next]_vars => TimerInv'
  BY TimerNext
<1> QED
  BY <1>1, <1>2, CoreInvariant, PTL DEF Spec

\* A thread in sleep_until sleeps exactly as long as its timer is to come, so
\* the assertion in task_sleep_until_timeout cannot fail.
THEOREM UntilHasTimerCorrect == Spec => []UntilHasTimer
<1>1. TimerInv => UntilHasTimer
  BY DEF TimerInv, Timed, Ticking, UntilHasTimer
<1> QED
  BY <1>1, TimerInvariant, PTL

\* A thread in a sleep with a deadline that nobody has woken still has the
\* timer that will wake it.
THEOREM TimedHasTimerCorrect == Spec => []TimedHasTimer
<1>1. TimerInv => TimedHasTimer
  BY DEF TimerInv, Timed, Ticking, TimedHasTimer
<1> QED
  BY <1>1, TimerInvariant, PTL

\* Only its own return from the sleep takes a thread out of a timed sleep.
LEMMA OnlyReturns ==
  ASSUME Core, [Next]_vars, NEW t \in Threads, pc[t] = "sleept", pc'[t] # "sleept"
  PROVE  state[t] = "RUNNING"
<1>0. pc \in [Threads -> {"none", "run", "sleep", "sleept", "until", "lock", "exited"}]
  BY DEF Core, CoreTypes
<1> SUFFICES ASSUME state[t] # "RUNNING" PROVE pc'[t] = pc[t]
  OBVIOUS
<1>1. ASSUME NEW u \in Threads, ThreadStep(u)
      PROVE  pc'[t] = pc[t]
  <2>1. state[u] = "RUNNING"
    BY <1>1 DEF ThreadStep, task_sleep, task_sleep_deadline, sleep_until, mutex_lock,
               mutex_trylock, mutex_unlock, cond_wait, cond_wait_timeout, CondSleep,
               SleepReturn, LockRetry, Calls, Resumes
  <2>2. u # t
    BY <2>1
  <2>3. pc' = pc \/ \E x : pc' = [pc EXCEPT ![u] = x]
    BY <1>1 DEF ThreadStep, task_sleep, task_sleep_deadline, sleep_until, mutex_lock,
               mutex_trylock, mutex_unlock, cond_wait, cond_wait_timeout, CondSleep,
               SleepReturn, LockRetry, LockRound, frames
  <2> QED
    BY <1>0, <2>2, <2>3
<1>2. ASSUME NEW u \in Threads, NEW p \in Requested, thread_create(u, p)
      PROVE  pc'[t] = pc[t]
  <2>1. pc[u] = "none" /\ pc' = [pc EXCEPT ![u] = "run"]
    BY <1>2 DEF thread_create
  <2> QED
    BY <1>0, <2>1
<1>3. CASE IrqStep
  BY <1>3 DEF IrqStep, task_wakeup, task_wakeup_next, WakeFirst, task_run, softirq_raise,
              timer_dispatch, SleepTimeout, frames
<1>4. CASE SwitchStep
  BY <1>4 DEF SwitchStep, SwitchEnter, SoftIrqRun, SwitchToThread, SwitchRunsTask, Picks,
              TaskReturns, frames
<1>5. CASE UNCHANGED vars
  BY <1>5 DEF vars, frames
<1> QED
  BY <1>1, <1>2, <1>3, <1>4, <1>5 DEF Next

\* task_sleep_deadline returns 0 (the timer was still linked when the thread
\* came back to disarm it) only to a thread that task_wakeup has woken.
THEOREM ZeroMeansWokenCorrect == Spec => ZeroMeansWoken
<1> DEFINE Ends == \A t \in Threads :
                     pc[t] = "sleept" /\ pc'[t] # "sleept" /\ t \in armed => t \in signalled
<1>1. Core /\ TimerInv /\ [Next]_vars => [Ends]_vars
  <2> SUFFICES ASSUME Core, TimerInv, [Next]_vars,
                      NEW t \in Threads, pc[t] = "sleept", pc'[t] # "sleept", t \in armed
               PROVE  t \in signalled
    OBVIOUS
  <2>1. state[t] = "RUNNING"
    BY OnlyReturns
  <2> QED
    BY <2>1 DEF TimerInv, Timed
<1> HIDE DEF Ends
<1>2. Spec => [][Ends]_vars
  BY <1>1, CoreInvariant, TimerInvariant, PTL DEF Spec
<1> QED
  BY <1>2 DEF Ends, ZeroMeansWoken

-----------------------------------------------------------------------------
(* The life of threads: the lists of the scheduler *)

\* The part of thread_release that turns block u into a task.
Queues(u) ==
  /\ prio' = [prio EXCEPT ![u] = 1]
  /\ readyq' = [readyq EXCEPT ![1] = Append(@, u)]
  /\ active' = active \cup {1}
  /\ state' = [state EXCEPT ![u] = "READY"]

\* A thread that is on no list is linked on the ready queue of priority 1.
LEMMA QueuedAsTask ==
  ASSUME Core, NEW u \in Threads, state[u] \notin {"READY", "SLEEPING"}, Queues(u),
         waiters' = waiters, on' = on,
         \A x \in Threads : state[x] = "SLEEPING" => pc'[x] = pc[x]
  PROVE  /\ state' \in [Schedulable -> States] /\ prio' \in [Schedulable -> Prios]
         /\ readyq' \in [Prios -> Seq(Schedulable)] /\ active' \subseteq Prios
         /\ ReadyOnce' /\ ActiveQueues' /\ WaitingOnce'
<1> DEFINE a == Append(readyq[1], u)
<1>1. 1 \in Prios
  BY SchedConstants DEF Prios
<1>2. /\ u \in Schedulable
      /\ readyq \in [Prios -> Seq(Schedulable)] /\ prio \in [Schedulable -> Prios]
      /\ state \in [Schedulable -> States] /\ active \subseteq Prios
      /\ Queued(readyq, state, prio) /\ active = NonEmpty(readyq)
  BY DEF Core, CoreTypes, ReadyOnce, ActiveQueues, Schedulable
<1>3. /\ readyq[1] \in Seq(Schedulable)
      /\ IsInjective(readyq[1]) /\ u \notin ToSet(readyq[1])
  BY <1>1, <1>2 DEF Queued
<1>4. /\ a \in Seq(Schedulable) /\ IsInjective(a)
      /\ ToSet(a) = ToSet(readyq[1]) \cup {u}
  BY <1>2, <1>3, AppendSet
<1>5. /\ prio' = [prio EXCEPT ![u] = 1] /\ readyq' = [readyq EXCEPT ![1] = a]
      /\ active' = active \cup {1} /\ state' = [state EXCEPT ![u] = "READY"]
  BY DEF Queues
<1> HIDE DEF a
<1>6. Grows(Prios, Schedulable, readyq, readyq', 1, u)
  BY <1>1, <1>2, <1>4, <1>5 DEF Grows
<1>7. Enters(Schedulable, "READY", state, state', u)
  BY <1>2, <1>5 DEF Enters
<1>8. SamePrios(state, prio, prio', u, 1)
  BY <1>1, <1>2, <1>5 DEF SamePrios
<1>9. Queued(readyq', state', prio')
  <2>1. Queued(readyq, state, prio)
    BY <1>2
  <2> QED
    BY <1>6, <1>7, <1>8, <2>1, QueuedAdd, SMTT(30)
<1>10. NonEmpty(readyq') = NonEmpty(readyq) \cup {1}
  BY <1>6, NonEmptyAdd
<1>11. ReadyOnce' /\ ActiveQueues'
  BY <1>2, <1>5, <1>9, <1>10 DEF ReadyOnce, ActiveQueues
<1>12. WaitingOnce'
  <2>1. \A x \in Threads : state'[x] = "SLEEPING" <=> state[x] = "SLEEPING"
    BY <1>2, <1>5 DEF Schedulable
  <2> QED
    BY <2>1, SleepersKeep
<1> QED
  BY <1>1, <1>2, <1>4, <1>5, <1>11, <1>12 DEF States

\* thread_release of the last reference to a thread that is on no list.
LEMMA CoreRelease ==
  ASSUME Core, NEW u \in Threads, state[u] \notin {"READY", "SLEEPING"}, Queues(u),
         pc[u] \notin {"none", "until", "sleept"}, Unlocked,
         NEW x \in {pc[u], "exited"}, pc' = [pc EXCEPT ![u] = x], pend' \in BOOLEAN,
         UNCHANGED <<current, waiters, mutexes, on, relock, timers, waking, switch>>
  PROVE  Core'
<1>1. /\ state \in [Schedulable -> States] /\ u \in Schedulable
      /\ pc \in [Threads -> {"none", "run", "sleep", "sleept", "until", "lock", "exited"}]
      /\ CoreControl
  BY DEF Core, CoreTypes, Schedulable
<1>2. /\ state' \in [Schedulable -> States] /\ prio' \in [Schedulable -> Prios]
      /\ readyq' \in [Prios -> Seq(Schedulable)] /\ active' \subseteq Prios
      /\ ReadyOnce' /\ ActiveQueues' /\ WaitingOnce'
  <2>1. \A v \in Threads : state[v] = "SLEEPING" => pc'[v] = pc[v]
    BY <1>1
  <2> QED
    BY <2>1, QueuedAsTask
<1>3. CoreTypes'
  <2>1. pc' \in [Threads -> {"none", "run", "sleep", "sleept", "until", "lock", "exited"}]
    BY <1>1
  <2> QED
    BY <1>2, <2>1 DEF Core, CoreTypes, mutexes, timers, switch
<1>4. CoreControl'
  <2>1. /\ state'[u] = "READY" /\ pc'[u] = x
        /\ \A v \in Schedulable \ {u} : state'[v] = state[v]
        /\ \A v \in Threads \ {u} : pc'[v] = pc[v]
    BY <1>1 DEF Queues
  <2>2. x # "none" /\ (x = "lock" => on[u] \in Mutexes)
    BY <1>1 DEF CoreControl
  <2>3. u \notin armed /\ clk # u /\ armed' = armed /\ clk' = clk
    BY <1>1 DEF CoreControl, timers
  <2>4. waking' = Nobody
    BY DEF Unlocked
  <2> QED
    BY <2>1, <2>2, <2>3, <2>4, ControlStep
<1> QED
  BY <1>2, <1>3, <1>4 DEF Core

\* A joinable thread becomes a ZOMBIE and is on no list; a wake-all loop begins
\* when threads wait in thread_join.
LEMMA CoreZombie ==
  ASSUME Core, NEW t \in Threads, ExitJoinable(t)
  PROVE  Core'
<1>1. /\ state \in [Schedulable -> States] /\ t \in Schedulable
      /\ pc \in [Threads -> {"none", "run", "sleep", "sleept", "until", "lock", "exited"}]
      /\ CoreControl /\ JoinWait \in Waitables
  BY LifeConstants DEF Core, CoreTypes, Schedulable
<1>2. current = t /\ state[t] = "RUNNING" /\ pc[t] = "run"
  BY DEF ExitJoinable, Free, Calls
<1>3. /\ state' = [state EXCEPT ![t] = "ZOMBIE"] /\ pc' = [pc EXCEPT ![t] = "exited"]
      /\ waking' = IF waiters[JoinWait] # <<>> THEN JoinWait ELSE Nobody
      /\ pend' = TRUE
      /\ UNCHANGED <<current, prio, readyq, active, waiters, mutexes, on, relock,
                     timers, switch>>
  BY DEF ExitJoinable
<1>4. /\ \A u \in Schedulable : state'[u] = "READY" <=> state[u] = "READY"
      /\ \A u \in Threads : state'[u] = "SLEEPING" <=> state[u] = "SLEEPING"
      /\ \A u \in Threads : state[u] = "SLEEPING" => on'[u] = on[u] /\ pc'[u] = pc[u]
  BY <1>1, <1>2, <1>3 DEF Schedulable
<1>5. ReadyOnce' /\ ActiveQueues' /\ WaitingOnce'
  BY <1>3, <1>4, ReadyKeep, SleepersKeep
<1>6. CoreTypes'
  <2>1. pc' \in [Threads -> {"none", "run", "sleep", "sleept", "until", "lock", "exited"}]
    BY <1>1, <1>3
  <2>2. state' \in [Schedulable -> States]
    BY <1>1, <1>3 DEF States
  <2>3. waking' \in Waitables \cup {Nobody}
    BY <1>1, <1>3
  <2> QED
    BY <1>3, <2>1, <2>2, <2>3 DEF Core, CoreTypes, mutexes, timers, switch
<1>7. CoreControl'
  <2>1. /\ state'[t] = "ZOMBIE" /\ pc'[t] = "exited"
        /\ \A v \in Schedulable \ {t} : state'[v] = state[v]
        /\ \A v \in Threads \ {t} : pc'[v] = pc[v]
    BY <1>1, <1>3
  <2>2. t \notin armed /\ clk # t /\ armed' = armed /\ clk' = clk
    BY <1>1, <1>2, <1>3 DEF CoreControl, timers
  <2>3. waking' # Nobody => waiters'[waking'] # <<>>
    BY <1>3
  <2>4. \A v \in Schedulable : state'[v] = "RUNNING" => v = current'
    BY <1>1, <1>3, <2>1 DEF CoreControl
  <2>5. ASSUME NEW v \in Threads
        PROVE  /\ pc'[v] = "none" => state'[v] = "NONE"
               /\ state'[v] \in {"NONE", "ZOMBIE"} => pc'[v] \in {"none", "exited"}
               /\ state'[v] = "SLEEPING" => pc'[v] # "run"
               /\ pc'[v] = "lock" => on'[v] \in Mutexes
               /\ v \in armed' \/ clk' = v => pc'[v] \in {"sleept", "until"}
    <3>1. CASE v = t
      BY <2>1, <2>2, <3>1
    <3>2. CASE v # t
      <4>1. v \in Schedulable
        BY DEF Schedulable
      <4> QED
        BY <1>1, <1>3, <2>1, <2>2, <3>2, <4>1 DEF CoreControl
    <3> QED
      BY <3>1, <3>2
  <2>6. /\ \A k \in Tasks : state'[k] \in {"NONE", "READY"}
        /\ state'[Idle] \in {"ZOMBIE", "READY", "RUNNING"}
    BY <1>1, <2>1, DistinctConstants DEF CoreControl, Schedulable
  <2> QED
    BY <2>3, <2>4, <2>5, <2>6 DEF CoreControl
<1> QED
  BY <1>5, <1>6, <1>7 DEF Core

\* thread_exit2 that does not get the heap's mutex queues the block again.
LEMMA CoreRetries ==
  ASSUME Core, NEW u \in Threads, thread_exit2_retries(u),
         pc[u] = "exited", state[u] = "NONE"
  PROVE  Core'
<1>1. /\ state \in [Schedulable -> States] /\ u \in Schedulable /\ CoreControl
  BY DEF Core, CoreTypes, Schedulable
<1>2. /\ readyqueue_insert(u) /\ running' = Nobody /\ waking = Nobody
      /\ UNCHANGED <<current, prio, waiters, mutexes, frames, timers, waking, pend,
                     insw, softirq, todo>>
  BY DEF thread_exit2_retries, InSwitch, Unlocked
<1>3. /\ readyq' \in [Prios -> Seq(Schedulable)] /\ active' \subseteq Prios
      /\ state' = [state EXCEPT ![u] = "READY"] /\ state' \in [Schedulable -> States]
      /\ ReadyOnce' /\ ActiveQueues'
  BY <1>1, <1>2, ReadyInsert
<1>4. WaitingOnce'
  <2>1. \A v \in Threads : state'[v] = "SLEEPING" <=> state[v] = "SLEEPING"
    BY <1>1, <1>3 DEF Schedulable
  <2> QED
    BY <1>2, <2>1, SleepersKeep DEF frames
<1>5. CoreTypes'
  BY <1>2, <1>3 DEF Core, CoreTypes, mutexes, frames, timers
<1>6. CoreControl'
  <2>1. state'[u] = "READY" /\ \A v \in Schedulable \ {u} : state'[v] = state[v]
    BY <1>1, <1>3
  <2>2. u \notin armed /\ clk # u /\ armed' = armed /\ clk' = clk /\ on' = on /\ pc' = pc
    BY <1>1, <1>2 DEF CoreControl, timers, frames
  <2> QED
    BY <1>2, <2>1, <2>2, ControlStep
<1> QED
  BY <1>3, <1>4, <1>5, <1>6 DEF Core

\* thread_exit2 that frees the block; a thread that waits for the heap's mutex
\* becomes ready.
LEMMA CoreFrees ==
  ASSUME Core, NEW u \in Threads, thread_exit2_frees(u),
         pc[u] = "exited", state[u] = "NONE"
  PROVE  Core'
<1>1. /\ state \in [Schedulable -> States] /\ u \in Schedulable
      /\ pc \in [Threads -> {"none", "run", "sleep", "sleept", "until", "lock", "exited"}]
      /\ CoreControl /\ HeapMutex \in Lists
      /\ waiters \in [Lists -> Seq(Threads)] /\ Enlisted(waiters, state, on, pc)
  BY LifeConstants DEF Core, CoreTypes, Schedulable, Lists, WaitingOnce
<1>2. /\ pc' = [pc EXCEPT ![u] = "none"] /\ running' = Nobody /\ waking = Nobody
      /\ UNCHANGED <<current, prio, mutexes, on, relock, timers, waking, insw, softirq,
                     todo>>
  BY DEF thread_exit2_frees, InSwitch, Unlocked
<1>3. /\ pc' \in [Threads -> {"none", "run", "sleep", "sleept", "until", "lock", "exited"}]
      /\ pc'[u] = "none" /\ \A v \in Threads \ {u} : pc'[v] = pc[v]
  BY <1>1, <1>2
<1>4. u \notin armed /\ clk # u /\ armed' = armed /\ clk' = clk
  BY <1>1, <1>2 DEF CoreControl, timers
<1>5. CASE waiters[HeapMutex] = <<>>
  <2>1. UNCHANGED <<readyq, active, state, waiters, pend>>
    BY <1>5 DEF thread_exit2_frees
  <2>2. ReadyOnce' /\ ActiveQueues' /\ WaitingOnce'
    BY <1>2, <1>3, <2>1, ReadyKeep, SleepersKeep
  <2>3. CoreTypes'
    BY <1>2, <1>3, <2>1 DEF Core, CoreTypes, mutexes, timers
  <2>4. CoreControl'
    BY <1>1, <1>2, <1>3, <1>4, <2>1 DEF CoreControl
  <2> QED
    BY <2>2, <2>3, <2>4 DEF Core
<1>6. CASE waiters[HeapMutex] # <<>>
  <2> DEFINE v == Head(waiters[HeapMutex])
             a == Tail(waiters[HeapMutex])
  <2>1. waiters[HeapMutex] \in Seq(Threads) /\ IsInjective(waiters[HeapMutex])
    BY <1>1 DEF Enlisted
  <2>2. /\ v \in Threads /\ a \in Seq(Threads) /\ v \in ToSet(waiters[HeapMutex])
        /\ IsInjective(a) /\ ToSet(a) = ToSet(waiters[HeapMutex]) \ {v}
    BY <1>6, <2>1, TailSet
  <2>3. /\ waiters' = [waiters EXCEPT ![HeapMutex] = a]
        /\ readyqueue_insert(v)
        /\ pend' = (pend \/ prio[v] >= prio[current])
    BY <1>6 DEF thread_exit2_frees
  <2> HIDE DEF v, a
  <2>4. state[v] = "SLEEPING" /\ v \in Schedulable
    BY <1>1, <2>2 DEF Enlisted, Schedulable
  <2>5. /\ readyq' \in [Prios -> Seq(Schedulable)] /\ active' \subseteq Prios
        /\ state' = [state EXCEPT ![v] = "READY"] /\ state' \in [Schedulable -> States]
        /\ ReadyOnce' /\ ActiveQueues'
    BY <1>2, <2>3, <2>4, ReadyInsert
  <2>6. state'[v] = "READY" /\ \A x \in Schedulable \ {v} : state'[x] = state[x]
    BY <1>1, <2>4, <2>5
  <2>7. waiters' \in [Lists -> Seq(Threads)] /\ Enlisted(waiters', state', on, pc)
    <3>1. Shrinks(Lists, Threads, waiters, waiters', HeapMutex, v)
      BY <1>1, <2>2, <2>3 DEF Shrinks
    <3>2. Leaves(Threads, "SLEEPING", state, state', v)
      BY <2>2, <2>6 DEF Leaves, Schedulable
    <3> QED
      BY <1>1, <3>1, <3>2, EnlistedDel DEF Shrinks
  <2>8. WaitingOnce'
    <3>1. SameSleepers(state', on, pc, state', on', pc')
      BY <1>1, <1>2, <1>3, <2>4, <2>6 DEF SameSleepers
    <3> QED
      BY <2>7, <3>1, EnlistedKeep DEF WaitingOnce
  <2>9. CoreTypes'
    <3>1. pend' \in BOOLEAN
      BY <2>3
    <3> QED
      BY <1>2, <1>3, <2>5, <2>7, <3>1 DEF Core, CoreTypes, mutexes, timers
  <2>10. CoreControl'
    <3>1. \A x \in Schedulable : state'[x] = "RUNNING" => x = current'
      BY <1>1, <1>2, <2>6 DEF CoreControl
    <3>2. ASSUME NEW x \in Threads
          PROVE  /\ pc'[x] = "none" => state'[x] = "NONE"
                 /\ state'[x] \in {"NONE", "ZOMBIE"} => pc'[x] \in {"none", "exited"}
                 /\ state'[x] = "SLEEPING" => pc'[x] # "run"
                 /\ pc'[x] = "lock" => on'[x] \in Mutexes
                 /\ x \in armed' \/ clk' = x => pc'[x] \in {"sleept", "until"}
      <4>1. x \in Schedulable /\ u # v
        BY <2>4 DEF Schedulable
      <4>2. CASE x = u
        BY <1>3, <1>4, <2>6, <4>1, <4>2
      <4>3. CASE x = v
        BY <1>1, <1>2, <1>3, <1>4, <2>4, <2>6, <4>1, <4>3 DEF CoreControl
      <4>4. CASE x # u /\ x # v
        BY <1>1, <1>2, <1>3, <1>4, <2>6, <4>1, <4>4 DEF CoreControl
      <4> QED
        BY <4>2, <4>3, <4>4
    <3>3. /\ \A k \in Tasks : state'[k] \in {"NONE", "READY"}
          /\ state'[Idle] \in {"ZOMBIE", "READY", "RUNNING"}
      BY <1>1, <2>2, <2>6, DistinctConstants DEF CoreControl, Schedulable
    <3> QED
      BY <1>2, <3>1, <3>2, <3>3 DEF CoreControl
  <2> QED
    BY <2>5, <2>8, <2>9, <2>10 DEF Core
<1> QED
  BY <1>5, <1>6

-----------------------------------------------------------------------------
(* The inductive invariant *)

\* Detached threads and ps do not go together: a detached thread that exits
\* while ps stands on it is queued twice.
PsSafe == PsReaders = {} \/ Detach \subseteq {FALSE}

\* Thread u exists and has not exited.
Live(u) == pc[u] \notin {"none", "exited"}

\* The readers of the thread list that stand on u.
Holders(u) == {t \in Threads : target[t] = u /\ doing[t] = "ps"}

\* Thread t is inside thread_join.
Joins(t) == doing[t] \in {"join", "load", "store"}

\* Types, and the thread list, which has every thread that has not exited once.
LifeTypes ==
  /\ isThread \in [Threads \cup {Idle} -> BOOLEAN]
  /\ detached \in [Threads -> BOOLEAN]
  /\ refcount \in [Threads -> 0 .. Cardinality(Threads) + 1]
  /\ loaded \in [Threads -> 0 .. Cardinality(Threads) + 1]
  /\ doing \in [Threads -> {"nothing", "join", "load", "store", "ps"}]
  /\ target \in [Threads -> Threads \cup {Nobody}]
  /\ joined \subseteq Threads
  /\ allthreads \in Seq(Threads) /\ IsInjective(allthreads)
  /\ ToSet(allthreads) = {u \in Threads : Live(u)}
  /\ running \in Threads \cup {Nobody}
  /\ \A t \in Threads : pc[t] # "sleept"

\* Block u: it keeps TASK_THREAD until it has exited and its last reference is
\* gone, is a ZOMBIE in between, and then a task of priority 1 that is queued or
\* has its function called.
BlockOk(u) ==
  /\ pc[u] = "none" => ~isThread[u]
  /\ Live(u) => isThread[u]
  /\ pc[u] # "none" => detached[u] \in Detach
  /\ pc[u] = "exited" /\ isThread[u] =>
       state[u] = "ZOMBIE" /\ ~detached[u] /\ refcount[u] > 0
  /\ pc[u] = "exited" /\ ~isThread[u] =>
       /\ refcount[u] = 0 /\ prio[u] = 1
       /\ state[u] = "READY" \/ (state[u] = "NONE" /\ running = u)
  /\ running = u => pc[u] = "exited" /\ ~isThread[u] /\ state[u] = "NONE"

\* The call thread t is in: whatever it refers to has not been released, and
\* nobody else joins the thread it joins.
CallOk(t) ==
  /\ doing[t] = "nothing" <=> target[t] = Nobody
  /\ doing[t] # "nothing" => Live(t) /\ isThread[target[t]]
  /\ Joins(t) => target[t] \in joined /\ ~detached[target[t]]
  /\ doing[t] \in {"load", "store"} => pc[target[t]] = "exited"
  /\ doing[t] = "ps" => t \in PsReaders
  /\ \A v \in Threads : Joins(t) /\ Joins(v) /\ target[t] = target[v] => t = v

\* The count of block u, and a joiner's copy of it, are never below the number
\* of references; they are exact until the thread has exited, and always when
\* ps is not used.
CountOk(u) ==
  /\ Live(u) /\ u \in joined => \E t \in Threads : Joins(t) /\ target[t] = u
  /\ pc[u] # "none" => /\ refcount[u] >= Refs(u)
                       /\ PsReaders = {} \/ Live(u) => refcount[u] = Refs(u)
  /\ \A t \in Threads : doing[t] = "store" /\ target[t] = u =>
       /\ loaded[t] >= Refs(u)
       /\ PsReaders = {} => loaded[t] = Refs(u)

LifeOk == LifeTypes /\ \A u \in Threads : BlockOk(u) /\ CallOk(u) /\ CountOk(u)

IInv == Core /\ LifeOk

-----------------------------------------------------------------------------
(* References *)

\* The reference of the thread itself or of its joiner.
Own(u) ==
  IF detached[u] THEN IF pc[u] = "exited" THEN 0 ELSE 1
  ELSE IF u \in joined /\ \A t \in Threads : target[t] # u \/ doing[t] = "ps"
       THEN 0 ELSE 1

\* References are those of ps and one more at most.
LEMMA RefsIs ==
  ASSUME NEW u \in Threads
  PROVE  /\ Refs(u) = Cardinality(Holders(u)) + Own(u)
         /\ IsFiniteSet(Holders(u)) /\ Cardinality(Holders(u)) \in Nat
         /\ Cardinality(Threads) \in Nat
         /\ Cardinality(Holders(u)) <= Cardinality(Threads)
         /\ Own(u) \in 0 .. 1 /\ Refs(u) \in Nat
<1>1. IsFiniteSet(Threads) /\ Holders(u) \in SUBSET Threads
  BY LifeConstants DEF Holders
<1>2. /\ IsFiniteSet(Holders(u)) /\ Cardinality(Holders(u)) \in Nat
      /\ Cardinality(Threads) \in Nat /\ Cardinality(Holders(u)) <= Cardinality(Threads)
  BY <1>1, FS_Subset, FS_CardinalityType
<1>3. Refs(u) = Cardinality(Holders(u)) + Own(u)
  BY DEF Refs, Holders, Own
<1>4. Own(u) \in 0 .. 1
  BY DEF Own
<1> QED
  BY <1>2, <1>3, <1>4

\* A step that changes nobody's reference to u.
LEMMA RefsSame ==
  ASSUME NEW u \in Threads,
         \A t \in Threads : /\ target'[t] = u <=> target[t] = u
                            /\ target[t] = u => (doing'[t] = "ps" <=> doing[t] = "ps"),
         detached'[u] = detached[u], pc'[u] = "exited" <=> pc[u] = "exited",
         u \in joined' <=> u \in joined
  PROVE  Refs(u)' = Refs(u) /\ Own(u)' = Own(u) /\ Holders(u)' = Holders(u)
<1>1. Holders(u)' = Holders(u)
  BY DEF Holders
<1>2. Own(u)' = Own(u)
  BY DEF Own
<1>3. Refs(u) = Cardinality(Holders(u)) + Own(u)
  BY DEF Refs, Holders, Own
<1>4. Refs(u)' = Cardinality(Holders(u)') + Own(u)'
  BY DEF Refs, Holders, Own
<1> QED
  BY <1>1, <1>2, <1>3, <1>4

\* Such a step keeps what CountOk says of u.
LEMMA CountSame ==
  ASSUME NEW u \in Threads, CountOk(u), Refs(u)' = Refs(u),
         refcount'[u] = refcount[u], pc'[u] = "none" <=> pc[u] = "none",
         Live(u)' <=> Live(u), u \in joined' => u \in joined,
         \A t \in Threads : Joins(t) /\ target[t] = u => Joins(t)' /\ target'[t] = u,
         \A t \in Threads : doing'[t] = "store" /\ target'[t] = u =>
            doing[t] = "store" /\ target[t] = u /\ loaded'[t] = loaded[t]
  PROVE  CountOk(u)'
BY DEF CountOk

\* Steps of the scheduler that do not touch threads that are not live.
LEMMA LifeQuiet ==
  ASSUME LifeOk, UNCHANGED <<life, prio, running>>,
         \A u \in Threads : /\ Live(u)' <=> Live(u)
                            /\ ~Live(u) => pc'[u] = pc[u] /\ state'[u] = state[u]
                            /\ pc'[u] # "sleept"
  PROVE  LifeOk'
<1>1. UNCHANGED <<isThread, detached, refcount, allthreads, doing, target, loaded, joined>>
  BY DEF life
<1>2. LifeTypes'
  BY <1>1 DEF LifeOk, LifeTypes
<1>3. \A u \in Threads : /\ pc'[u] = "none" <=> pc[u] = "none"
                         /\ pc'[u] = "exited" <=> pc[u] = "exited"
                         /\ pc[u] = "exited" => state'[u] = state[u]
  BY DEF Live
<1>4. ASSUME NEW u \in Threads
      PROVE  BlockOk(u)' /\ CallOk(u)' /\ CountOk(u)'
  <2>1. BlockOk(u) /\ CallOk(u) /\ CountOk(u)
    BY DEF LifeOk
  <2>2. BlockOk(u)'
    BY <1>1, <1>3, <2>1 DEF BlockOk, Live
  <2>3. CallOk(u)'
    <3>1. target[u] \in Threads \cup {Nobody}
      BY DEF LifeOk, LifeTypes
    <3>2. doing[u] \in {"load", "store"} => pc'[target[u]] = "exited"
      BY <1>3, <2>1, <3>1 DEF CallOk
    <3> QED
      BY <1>1, <2>1, <3>2 DEF CallOk, Joins
  <2>4. Refs(u)' = Refs(u)
    BY <1>1, <1>3, RefsSame
  <2>5. CountOk(u)'
    BY <1>1, <1>3, <2>1, <2>4, CountSame DEF Joins
  <2> QED
    BY <2>2, <2>3, <2>5
<1> QED
  BY <1>2, <1>4 DEF LifeOk

-----------------------------------------------------------------------------
(* Steps of the scheduler *)

\* A step leaves thread u as it is, or u is live and stays so.
GoesOn(u) ==
  \/ pc'[u] = pc[u] /\ state'[u] = state[u]
  \/ Live(u) /\ pc'[u] \in {pc[u], "run", "until", "lock"}

\* The calls of the scheduler that threads make are steps of Sched.
LEMMA OtherIsNext == ASSUME OtherSteps PROVE Next
BY LifeConstants DEF OtherSteps, Next, ThreadStep, IrqStep

\* What threads do between the calls of this module.
LEMMA LifeOther ==
  ASSUME IInv, OtherSteps
  PROVE  IInv'
<1>1. /\ state \in [Schedulable -> States] /\ Threads \subseteq Schedulable
      /\ pc \in [Threads -> {"none", "run", "sleep", "sleept", "until", "lock", "exited"}]
      /\ waiters \in [Lists -> Seq(Threads)] /\ CoreControl
      /\ \A u \in Threads : pc[u] # "sleept"
      /\ Enlisted(waiters, state, on, pc)
      /\ waking \in Waitables \cup {Nobody}
  BY DEF IInv, LifeOk, LifeTypes, Core, CoreTypes, Schedulable, WaitingOnce
<1>2. Core'
  <2>1. Next
    BY OtherIsNext
  <2> QED
    BY <2>1, CoreNext DEF IInv
<1>3. UNCHANGED <<life, prio, running>>
  BY DEF OtherSteps, sleep_until, mutex_lock, mutex_unlock, SleepReturn, LockRetry,
         timer_dispatch, SleepTimeout, task_wakeup_next, WakeFirst, queues, switch
<1>4. \A u \in Threads : state[u] \notin {"NONE", "ZOMBIE"} => pc[u] # "none"
  BY <1>1 DEF CoreControl
<1>5. \A u \in Threads : state[u] \in {"RUNNING", "SLEEPING"} => Live(u)
  BY <1>4 DEF IInv, LifeOk, BlockOk, Live
<1>6. ASSUME NEW w \in Lists, waiters[w] # <<>>
      PROVE  Head(waiters[w]) \in Threads /\ Live(Head(waiters[w]))
  <2>1. waiters[w] \in Seq(Threads)
    BY <1>1
  <2>2. Head(waiters[w]) \in Threads /\ Head(waiters[w]) \in ToSet(waiters[w])
    BY <1>6, <2>1, TailSet
  <2> QED
    BY <1>1, <1>5, <2>2 DEF Enlisted
<1>7. ASSUME NEW u \in Threads
      PROVE  GoesOn(u)
  <2>1. ASSUME NEW t \in Threads, sleep_until(t)
        PROVE  GoesOn(u)
    BY <1>1, <2>1 DEF GoesOn, sleep_until, Live, Calls
  <2>2. ASSUME NEW t \in Threads, NEW m, LockRound(t, m), state[t] = "RUNNING"
        PROVE  GoesOn(u)
    BY <1>1, <1>5, <2>2 DEF GoesOn, LockRound, SleepOn
  <2>3. ASSUME NEW t \in Threads, mutex_unlock(t, HeapMutex)
        PROVE  GoesOn(u)
    <3>1. HeapMutex \in Lists
      BY LifeConstants DEF Lists
    <3> QED
      BY <1>1, <1>6, <2>3, <3>1 DEF GoesOn, mutex_unlock, readyqueue_insert, frames
  <2>4. ASSUME NEW t \in Threads, SleepReturn(t)
        PROVE  GoesOn(u)
    <3>1. state[t] = "RUNNING"
      BY <2>4 DEF SleepReturn, Resumes
    <3>2. CASE relock[t] # Nobody
      BY <2>2, <2>4, <3>1, <3>2 DEF GoesOn, SleepReturn
    <3>3. CASE relock[t] = Nobody
      BY <1>1, <1>5, <2>4, <3>1, <3>3 DEF GoesOn, SleepReturn
    <3> QED
      BY <3>2, <3>3
  <2>5. ASSUME NEW t \in Threads, timer_dispatch(t)
        PROVE  GoesOn(u)
    BY <2>5 DEF GoesOn, timer_dispatch, queues, frames
  <2>6. ASSUME NEW t \in Threads, SleepTimeout(t)
        PROVE  GoesOn(u)
    BY <1>1, <1>5, <2>6 DEF GoesOn, SleepTimeout, MakeRunnable, readyqueue_insert, frames
  <2>7. CASE task_wakeup_next
    <3>1. waking \in Lists /\ waiters[waking] # <<>>
      BY <1>1, <2>7 DEF task_wakeup_next, CoreControl, Lists
    <3>2. PICK v \in Threads : v = Head(waiters[waking]) /\ Live(v)
      BY <1>6, <3>1
    <3>3. MakeRunnable(v) /\ pc' = pc
      BY <2>7, <3>2 DEF task_wakeup_next, WakeFirst, frames
    <3> QED
      BY <1>1, <3>2, <3>3 DEF GoesOn, MakeRunnable, readyqueue_insert
  <2>8. ASSUME NEW t \in Threads, mutex_lock(t, HeapMutex)
        PROVE  GoesOn(u)
    BY <2>2, <2>8 DEF mutex_lock, Calls
  <2>9. ASSUME NEW t \in Threads, LockRetry(t)
        PROVE  GoesOn(u)
    BY <2>2, <2>9 DEF LockRetry, Resumes
  <2> QED
    BY <2>1, <2>3, <2>4, <2>5, <2>6, <2>7, <2>8, <2>9 DEF OtherSteps
<1>8. \A u \in Threads : /\ Live(u)' <=> Live(u)
                         /\ ~Live(u) => pc'[u] = pc[u] /\ state'[u] = state[u]
                         /\ pc'[u] # "sleept"
  BY <1>1, <1>7 DEF GoesOn, Live
<1> QED
  BY <1>2, <1>3, <1>8, LifeQuiet DEF IInv

\* thread_join sleeps.
LEMMA LifeJoinSleep ==
  ASSUME IInv, NEW t \in Threads, JoinSleep(t)
  PROVE  IInv'
<1>1. /\ state \in [Schedulable -> States] /\ Threads \subseteq Schedulable
      /\ pc \in [Threads -> {"none", "run", "sleep", "sleept", "until", "lock", "exited"}]
      /\ \A u \in Threads : pc[u] # "sleept"
  BY DEF IInv, LifeOk, LifeTypes, Core, CoreTypes, Schedulable
<1>2. task_sleep(t, JoinWait) /\ UNCHANGED life
  BY DEF JoinSleep
<1>3. Core'
  <2>1. Next
    BY <1>2, LifeConstants DEF Next, ThreadStep
  <2> QED
    BY <2>1, CoreNext DEF IInv
<1>4. UNCHANGED <<life, prio, running>>
  BY <1>2 DEF task_sleep, switch
<1>5. \A u \in Threads : /\ Live(u)' <=> Live(u)
                         /\ ~Live(u) => pc'[u] = pc[u] /\ state'[u] = state[u]
                         /\ pc'[u] # "sleept"
  BY <1>1, <1>2 DEF task_sleep, SleepOn, Calls, Live
<1> QED
  BY <1>3, <1>4, <1>5, LifeQuiet DEF IInv

\* A step that concerns one block that has exited and been released, or frees
\* it: nobody refers to it.
LEMMA LifeBlock ==
  ASSUME IInv, UNCHANGED <<life, prio>>, NEW k \in Threads,
         pc[k] = "exited", ~isThread[k],
         \A u \in Threads \ {k} : /\ Live(u)' <=> Live(u)
                                  /\ ~Live(u) => pc'[u] = pc[u] /\ state'[u] = state[u]
                                  /\ pc'[u] # "sleept",
         \A u \in Threads \ {k} : running' # u /\ running # u,
         running' \in {k, Nobody},
         \/ pc'[k] = "none" /\ running' = Nobody
         \/ pc'[k] = "exited" /\ state'[k] = "READY" /\ running' = Nobody
         \/ pc'[k] = "exited" /\ state'[k] = "NONE" /\ running' = k
  PROVE  LifeOk'
<1>1. /\ UNCHANGED <<isThread, detached, refcount, allthreads, doing, target, loaded, joined>>
      /\ LifeTypes /\ \A u \in Threads : BlockOk(u) /\ CallOk(u) /\ CountOk(u)
  BY DEF life, IInv, LifeOk
<1>2. \A u \in Threads : Live(u)' <=> Live(u)
  BY DEF Live
<1>3. \A t \in Threads : target[t] # k
  BY <1>1, DistinctConstants DEF LifeTypes, CallOk, Live
<1>4. LifeTypes'
  <2>1. running' \in Threads \cup {Nobody}
    OBVIOUS
  <2>2. \A u \in Threads : pc'[u] # "sleept"
    BY <1>1
  <2> QED
    BY <1>1, <1>2, <2>1, <2>2 DEF LifeTypes
<1>5. \A u \in Threads \ {k} : /\ pc'[u] = "none" <=> pc[u] = "none"
                               /\ pc'[u] = "exited" <=> pc[u] = "exited"
                               /\ pc[u] = "exited" => state'[u] = state[u]
  BY DEF Live
<1>6. ASSUME NEW u \in Threads
      PROVE  BlockOk(u)' /\ CallOk(u)' /\ CountOk(u)'
  <2>1. BlockOk(u) /\ CallOk(u) /\ CountOk(u)
    BY <1>1
  <2>2. BlockOk(u)'
    <3>1. CASE u = k
      BY <1>1, <2>1, <3>1, DistinctConstants DEF BlockOk, Live
    <3>2. CASE u # k
      BY <1>1, <1>2, <1>5, <2>1, <3>2 DEF BlockOk
    <3> QED
      BY <3>1, <3>2
  <2>3. CallOk(u)'
    <3>1. target[u] \in Threads \cup {Nobody}
      BY <1>1 DEF LifeTypes
    <3>2. doing[u] \in {"load", "store"} => pc'[target[u]] = "exited"
      BY <1>3, <1>5, <2>1, <3>1 DEF CallOk
    <3> QED
      BY <1>1, <1>2, <2>1, <3>2 DEF CallOk, Joins
  <2>4. CountOk(u)'
    <3>1. CASE u # k
      <4>1. Refs(u)' = Refs(u)
        BY <1>1, <1>5, <3>1, RefsSame
      <4> QED
        BY <1>1, <1>2, <1>5, <2>1, <3>1, <4>1, CountSame DEF Joins
    <3>2. CASE u = k /\ pc'[k] = "exited"
      <4>1. Refs(u)' = Refs(u)
        BY <1>1, <3>2, RefsSame
      <4> QED
        BY <1>1, <1>2, <2>1, <3>2, <4>1, CountSame DEF Joins
    <3>3. CASE u = k /\ pc'[k] = "none"
      BY <1>1, <1>3, <3>3 DEF CountOk, Live
    <3> QED
      BY <3>1, <3>2, <3>3
  <2> QED
    BY <2>2, <2>3, <2>4
<1> QED
  BY <1>4, <1>6 DEF LifeOk

\* The context switch: to a thread, or to thread_exit2 of a released block.
LEMMA LifeSwitches ==
  ASSUME IInv, LifeSwitch
  PROVE  IInv'
<1>1. /\ state \in [Schedulable -> States] /\ Threads \subseteq Schedulable
      /\ CoreControl /\ Core /\ LifeTypes
      /\ pc \in [Threads -> {"none", "run", "sleep", "sleept", "until", "lock", "exited"}]
      /\ \A u \in Threads : BlockOk(u) /\ pc[u] # "sleept"
      /\ UNCHANGED life
  BY DEF IInv, LifeOk, LifeTypes, Core, CoreTypes, Schedulable, LifeSwitch
<1>2. CASE SwitchEnter
  <2>1. Core'
    BY <1>1, <1>2, LinkOther
  <2>2. UNCHANGED <<life, prio, running, pc, state>>
    BY <1>1, <1>2 DEF SwitchEnter, queues, frames
  <2>3. \A u \in Threads : Live(u)' <=> Live(u)
    BY <2>2 DEF Live
  <2> QED
    BY <1>1, <2>1, <2>2, <2>3, LifeQuiet DEF IInv
<1>3. ASSUME NEW k \in Schedulable, Picks(k),
             NEW x \in {"RUNNING", "NONE"}, state' = [RequeuedState EXCEPT ![k] = x]
      PROVE  /\ k \in Threads => state[k] \in {"READY", "RUNNING"}
             /\ \A u \in Threads \ {k} : \/ state'[u] = state[u]
                                         \/ state[u] = "RUNNING"
             /\ prio' = prio /\ pc' = pc /\ running = Nobody
  <2>1. /\ RequeuedState \in [Schedulable -> States]
        /\ \A u \in Schedulable : u # current => RequeuedState[u] = state[u]
        /\ RequeuedState[current] \in {state[current], "READY"}
    BY <1>1, RequeuedLinks
  <2>2. \A u \in Schedulable : RequeuedState[u] = state[u] \/ state[u] = "RUNNING"
    BY DEF RequeuedState
  <2>3. /\ state'[k] # "READY"
        /\ \A u \in Schedulable \ {k} : state'[u] = RequeuedState[u]
    BY <1>3, <2>1
  <2>4. RequeuedState[k] = "READY" \/ k = Idle
    BY <1>1, <1>3, <2>3, PickLinks
  <2>5. prio' = prio /\ pc' = pc /\ running = Nobody
    BY <1>3 DEF Picks, frames
  <2> QED
    BY <1>1, <2>2, <2>3, <2>4, <2>5, DistinctConstants
<1>4. \A u \in Threads : state[u] = "RUNNING" => Live(u)
  BY <1>1 DEF CoreControl, BlockOk, Live
<1>5. ASSUME NEW t \in Threads \cup {Idle}, isThread[t], SwitchToThread(t)
      PROVE  IInv'
  <2>1. t \in Schedulable
    BY DEF Schedulable
  <2>2. Core'
    BY <1>1, <1>5, <2>1, LinkSwitch
  <2>3. /\ t \in Threads => state[t] \in {"READY", "RUNNING"}
        /\ \A u \in Threads \ {t} : state'[u] = state[u] \/ state[u] = "RUNNING"
        /\ prio' = prio /\ pc' = pc
    BY <1>3, <1>5, <2>1 DEF SwitchToThread
  <2>4. t \in Threads => Live(t)
    BY <1>1, <1>5, <2>3 DEF CoreControl, BlockOk, Live
  <2>5. UNCHANGED <<life, prio, running>>
    BY <1>1, <1>5, <2>3 DEF SwitchToThread
  <2>6. \A u \in Threads : /\ Live(u)' <=> Live(u)
                           /\ ~Live(u) => pc'[u] = pc[u] /\ state'[u] = state[u]
                           /\ pc'[u] # "sleept"
    BY <1>1, <1>4, <2>3, <2>4 DEF Live
  <2> QED
    BY <2>2, <2>5, <2>6, LifeQuiet DEF IInv
<1>6. ASSUME NEW t \in Threads, ~isThread[t], SwitchRunsTask(t)
      PROVE  IInv'
  <2>1. t \in Schedulable
    BY DEF Schedulable
  <2>2. /\ state[t] \in {"READY", "RUNNING"}
        /\ \A u \in Threads \ {t} : state'[u] = state[u] \/ state[u] = "RUNNING"
        /\ prio' = prio /\ pc' = pc /\ running = Nobody /\ running' = t
    BY <1>3, <1>6, <2>1 DEF SwitchRunsTask
  <2>3. pc[t] = "exited"
    BY <1>1, <1>6, <2>2 DEF CoreControl, BlockOk, Live
  <2>4. Core'
    BY <1>1, <1>6, <2>1, <2>3, LinkSwitch
  <2>5. state'[t] = "NONE"
    <3>1. RequeuedState \in [Schedulable -> States]
      BY <1>1, RequeuedLinks
    <3> QED
      BY <1>6, <2>1, <3>1 DEF SwitchRunsTask
  <2>6. \A u \in Threads \ {t} : /\ Live(u)' <=> Live(u)
                                 /\ ~Live(u) => pc'[u] = pc[u] /\ state'[u] = state[u]
                                 /\ pc'[u] # "sleept"
    BY <1>1, <1>4, <2>2 DEF Live
  <2>7. \A u \in Threads \ {t} : running' # u /\ running # u
    BY <2>2, DistinctConstants
  <2>8. UNCHANGED <<life, prio>>
    BY <1>1, <2>2
  <2>9. LifeOk'
    BY <1>6, <2>2, <2>3, <2>5, <2>6, <2>7, <2>8, LifeBlock
  <2> QED
    BY <2>4, <2>9 DEF IInv
<1> QED
  BY <1>2, <1>5, <1>6 DEF LifeSwitch

\* thread_exit2: the block is freed, or queued once more.
LEMMA LifeExit2 ==
  ASSUME IInv, NEW k \in Threads, thread_exit2_frees(k) \/ thread_exit2_retries(k)
  PROVE  IInv'
<1>1. /\ state \in [Schedulable -> States] /\ Threads \subseteq Schedulable
      /\ CoreControl /\ Core /\ LifeTypes
      /\ pc \in [Threads -> {"none", "run", "sleep", "sleept", "until", "lock", "exited"}]
      /\ \A u \in Threads : BlockOk(u) /\ pc[u] # "sleept"
      /\ waiters \in [Lists -> Seq(Threads)] /\ Enlisted(waiters, state, on, pc)
  BY DEF IInv, LifeOk, LifeTypes, Core, CoreTypes, Schedulable, WaitingOnce
<1>2. running = k /\ running' = Nobody /\ prio' = prio /\ UNCHANGED life
  BY DEF thread_exit2_frees, thread_exit2_retries, frames
<1>3. pc[k] = "exited" /\ ~isThread[k] /\ state[k] = "NONE"
  BY <1>1, <1>2 DEF BlockOk
<1>4. Core'
  BY <1>1, <1>3, CoreFrees, CoreRetries
<1>5. \A u \in Threads \ {k} : running' # u /\ running # u
  BY <1>2, DistinctConstants
<1>6. \A u \in Threads : state[u] = "SLEEPING" => Live(u)
  BY <1>1 DEF CoreControl, BlockOk, Live
<1>7. CASE thread_exit2_retries(k)
  <2>1. pc' = pc /\ state' = [state EXCEPT ![k] = "READY"]
    BY <1>7 DEF thread_exit2_retries, readyqueue_insert, frames
  <2>2. \A u \in Threads \ {k} : pc'[u] = pc[u] /\ state'[u] = state[u]
    BY <1>1, <2>1
  <2>3. pc'[k] = "exited" /\ state'[k] = "READY"
    BY <1>1, <1>3, <2>1
  <2>4. \A u \in Threads \ {k} : /\ Live(u)' <=> Live(u)
                                 /\ ~Live(u) => pc'[u] = pc[u] /\ state'[u] = state[u]
                                 /\ pc'[u] # "sleept"
    BY <1>1, <2>2 DEF Live
  <2>5. LifeOk'
    BY <1>2, <1>3, <1>5, <2>3, <2>4, LifeBlock
  <2> QED
    BY <1>4, <2>5 DEF IInv
<1>8. CASE thread_exit2_frees(k)
  <2>1. pc' = [pc EXCEPT ![k] = "none"]
    BY <1>8 DEF thread_exit2_frees
  <2>2. \A u \in Threads \ {k} : state'[u] = state[u] \/ state[u] = "SLEEPING"
    <3>1. CASE waiters[HeapMutex] = <<>>
      BY <1>8, <3>1 DEF thread_exit2_frees
    <3>2. CASE waiters[HeapMutex] # <<>>
      <4>1. HeapMutex \in Lists /\ waiters[HeapMutex] \in Seq(Threads)
        BY <1>1, LifeConstants DEF Lists
      <4>2. PICK v \in Threads : v = Head(waiters[HeapMutex]) /\ v \in ToSet(waiters[HeapMutex])
        BY <3>2, <4>1, TailSet
      <4>3. state[v] = "SLEEPING"
        BY <1>1, <4>1, <4>2 DEF Enlisted
      <4>4. state' = [state EXCEPT ![v] = "READY"]
        BY <1>8, <3>2, <4>2 DEF thread_exit2_frees, readyqueue_insert
      <4> QED
        BY <1>1, <4>3, <4>4
    <3> QED
      BY <3>1, <3>2
  <2>3. pc'[k] = "none" /\ \A u \in Threads \ {k} : pc'[u] = pc[u]
    BY <1>1, <2>1
  <2>4. \A u \in Threads \ {k} : /\ Live(u)' <=> Live(u)
                                 /\ ~Live(u) => pc'[u] = pc[u] /\ state'[u] = state[u]
                                 /\ pc'[u] # "sleept"
    BY <1>1, <1>6, <2>2, <2>3 DEF Live
  <2>5. LifeOk'
    BY <1>2, <1>3, <1>5, <2>3, <2>4, LifeBlock
  <2> QED
    BY <1>4, <2>5 DEF IInv
<1> QED
  BY <1>7, <1>8

-----------------------------------------------------------------------------
(* Steps of the life cycle *)

\* A block that a step leaves alone.
LEMMA BlockSame ==
  ASSUME NEW u \in Threads, BlockOk(u), running' = running,
         pc'[u] = pc[u], state'[u] = state[u], prio'[u] = prio[u],
         isThread'[u] = isThread[u], detached'[u] = detached[u],
         refcount'[u] = refcount[u]
  PROVE  BlockOk(u)'
BY DEF BlockOk, Live

\* A thread whose call goes on, about a block that is not released.
LEMMA CallSame ==
  ASSUME NEW t \in Threads, CallOk(t), LifeTypes,
         doing'[t] = doing[t], target'[t] = target[t], Live(t) => Live(t)',
         target[t] \in Threads =>
           /\ isThread[target[t]] => isThread'[target[t]]
           /\ detached'[target[t]] = detached[target[t]]
           /\ pc[target[t]] = "exited" => pc'[target[t]] = "exited"
           /\ target[t] \in joined => target[t] \in joined',
         \A v \in Threads : Joins(t) /\ Joins(v)' /\ target'[v] = target[t] =>
           Joins(v) /\ target[v] = target[t]
  PROVE  CallOk(t)'
<1>1. target[t] \in Threads \cup {Nobody}
  BY DEF LifeTypes
<1>2. \A v \in Threads : Joins(t)' /\ Joins(v)' /\ target'[t] = target'[v] => t = v
  BY DEF CallOk, Joins
<1> QED
  BY <1>1, <1>2 DEF CallOk, Joins

\* A block nobody refers to has no references but its own.
LEMMA NoTargets ==
  ASSUME LifeOk, NEW u \in Threads, ~isThread[u]
  PROVE  \A t \in Threads : target[t] # u
BY DistinctConstants DEF LifeOk, LifeTypes, CallOk

\* thread_create.
LEMMA LifeCreate ==
  ASSUME IInv, NEW t \in Threads, NEW p \in Requested, NEW d \in Detach, create(t, p, d)
  PROVE  IInv'
<1>1. /\ Core /\ LifeOk /\ LifeTypes /\ t \in Schedulable /\ Threads \subseteq Schedulable
      /\ state \in [Schedulable -> States] /\ prio \in [Schedulable -> Prios]
      /\ pc \in [Threads -> {"none", "run", "sleep", "sleept", "until", "lock", "exited"}]
      /\ \A u \in Threads : BlockOk(u) /\ CallOk(u) /\ CountOk(u)
  BY DEF IInv, LifeOk, Core, CoreTypes, Schedulable
<1>2. Core'
  BY <1>1, LinkCreate DEF create
<1>3. /\ pc[t] = "none"
      /\ \E x : prio' = [prio EXCEPT ![t] = x]
      /\ state' = [state EXCEPT ![t] = "READY"]
      /\ pc' = [pc EXCEPT ![t] = "run"]
      /\ running' = running
      /\ isThread' = [isThread EXCEPT ![t] = TRUE]
      /\ detached' = [detached EXCEPT ![t] = d]
      /\ refcount' = [refcount EXCEPT ![t] = 1]
      /\ allthreads' = <<t>> \o allthreads
      /\ joined' = joined \ {t}
      /\ UNCHANGED <<doing, target, loaded>>
  BY DEF create, thread_create, switch
<1>4. ~isThread[t] /\ \A v \in Threads : target[v] # t
  BY <1>1, <1>3, NoTargets DEF BlockOk
<1>5. /\ \A u \in Threads \ {t} :
           /\ pc'[u] = pc[u] /\ state'[u] = state[u] /\ prio'[u] = prio[u]
           /\ isThread'[u] = isThread[u] /\ detached'[u] = detached[u]
           /\ refcount'[u] = refcount[u] /\ (u \in joined' <=> u \in joined)
      /\ pc'[t] = "run" /\ state'[t] = "READY" /\ isThread'[t] /\ detached'[t] = d
      /\ refcount'[t] = 1 /\ t \notin joined'
  BY <1>1, <1>3 DEF LifeTypes
<1>6. \A u \in Threads : Live(u)' <=> Live(u) \/ u = t
  BY <1>3, <1>5 DEF Live
<1>7. LifeTypes'
  <2>1. Cardinality(Threads) \in Nat
    BY RefsIs
  <2>2. d \in BOOLEAN
    BY LifeConstants
  <2>3. refcount' \in [Threads -> 0 .. Cardinality(Threads) + 1]
    BY <1>1, <1>3, <2>1 DEF LifeTypes
  <2>4. /\ isThread' \in [Threads \cup {Idle} -> BOOLEAN] /\ detached' \in [Threads -> BOOLEAN]
        /\ joined' \subseteq Threads
    BY <1>1, <1>3, <2>2 DEF LifeTypes
  <2>5. allthreads \in Seq(Threads) /\ IsInjective(allthreads) /\ t \notin ToSet(allthreads)
    BY <1>1, <1>3 DEF LifeTypes, Live
  <2>6. /\ allthreads' \in Seq(Threads) /\ IsInjective(allthreads')
        /\ ToSet(allthreads') = ToSet(allthreads) \cup {t}
    BY <1>3, <2>5, PrependSet
  <2>7. ToSet(allthreads') = {u \in Threads : Live(u)'}
    BY <1>1, <1>6, <2>6 DEF LifeTypes
  <2>8. \A u \in Threads : pc'[u] # "sleept"
    BY <1>1, <1>5 DEF LifeTypes
  <2> QED
    BY <1>1, <1>3, <2>3, <2>4, <2>6, <2>7, <2>8 DEF LifeTypes
<1>8. ASSUME NEW u \in Threads
      PROVE  BlockOk(u)' /\ CallOk(u)' /\ CountOk(u)'
  <2>1. CASE u = t
    <3>1. BlockOk(u)'
      <4>1. running # t
        BY <1>1, <1>3 DEF BlockOk
      <4> QED
        BY <1>3, <1>5, <1>6, <2>1, <4>1 DEF BlockOk
    <3>2. CallOk(u)'
      <4>1. doing[t] = "nothing" /\ target[t] = Nobody
        BY <1>1, <1>3 DEF CallOk, Live
      <4> QED
        BY <1>3, <2>1, <4>1 DEF CallOk, Joins
    <3>3. Refs(u)' = 1
      <4>1. Holders(t)' = {}
        BY <1>3, <1>4 DEF Holders
      <4>2. Own(t)' = 1
        BY <1>5 DEF Own
      <4>3. Refs(t)' = Cardinality(Holders(t)') + Own(t)'
        BY DEF Refs, Holders, Own
      <4> QED
        BY <2>1, <4>1, <4>2, <4>3, FS_EmptySet
    <3>4. CountOk(u)'
      BY <1>3, <1>4, <1>5, <2>1, <3>3 DEF CountOk
    <3> QED
      BY <3>1, <3>2, <3>4
  <2>2. CASE u # t
    <3>1. BlockOk(u)'
      BY <1>1, <1>3, <1>5, <2>2, BlockSame
    <3>2. CallOk(u)'
      <4>1. target[u] # t
        BY <1>4
      <4> QED
        BY <1>1, <1>3, <1>5, <1>6, <2>2, <4>1, CallSame DEF Joins
    <3>3. Refs(u)' = Refs(u)
      BY <1>3, <1>5, <2>2, RefsSame
    <3>4. CountOk(u)'
      BY <1>1, <1>3, <1>5, <1>6, <2>2, <3>3, CountSame DEF Joins
    <3> QED
      BY <3>1, <3>2, <3>4
  <2> QED
    BY <2>1, <2>2
<1> QED
  BY <1>2, <1>7, <1>8 DEF IInv, LifeOk

\* Without ps nobody but joiners refers to a block.
LEMMA NoHolders ==
  ASSUME LifeOk, PsReaders = {}, NEW u \in Threads
  PROVE  Holders(u) = {} /\ Refs(u) = Own(u)
<1>1. Holders(u) = {}
  BY DEF LifeOk, CallOk, Holders
<1> QED
  BY <1>1, RefsIs, FS_EmptySet

\* The thread list after one thread has left it.
LEMMA ListLeaves ==
  ASSUME LifeTypes, NEW t \in Threads, Live(t), allthreads' = RemoveFirst(allthreads, t),
         \A u \in Threads : Live(u)' <=> Live(u) /\ u # t
  PROVE  /\ allthreads' \in Seq(Threads) /\ IsInjective(allthreads')
         /\ ToSet(allthreads') = {u \in Threads : Live(u)'}
<1>1. allthreads \in Seq(Threads) /\ IsInjective(allthreads) /\ t \in ToSet(allthreads)
  BY DEF LifeTypes
<1>2. allthreads' = Unlink(allthreads, t)
  BY DEF Unlink
<1>3. /\ allthreads' \in Seq(Threads) /\ IsInjective(allthreads')
      /\ ToSet(allthreads') = ToSet(allthreads) \ {t}
  BY <1>1, <1>2, UnlinkSet
<1> QED
  BY <1>3 DEF LifeTypes

\* thread_exit of a detached thread drops the only reference.
LEMMA LifeExitDetached ==
  ASSUME IInv, PsSafe, NEW t \in Threads, ExitDetached(t)
  PROVE  IInv'
<1>1. /\ Core /\ LifeOk /\ LifeTypes /\ t \in Schedulable /\ Threads \subseteq Schedulable
      /\ state \in [Schedulable -> States] /\ prio \in [Schedulable -> Prios]
      /\ pc \in [Threads -> {"none", "run", "sleep", "sleept", "until", "lock", "exited"}]
      /\ \A u \in Threads : BlockOk(u) /\ CallOk(u) /\ CountOk(u)
  BY DEF IInv, LifeOk, Core, CoreTypes, Schedulable
<1>2. /\ state[t] = "RUNNING" /\ pc[t] = "run" /\ Unlocked /\ doing[t] = "nothing"
      /\ detached[t] /\ Live(t)
  BY DEF ExitDetached, Free, Calls, ThreadLevel, Live
<1>3. PsReaders = {}
  BY <1>1, <1>2 DEF PsSafe, BlockOk
<1>4. refcount[t] = 1
  <2>1. refcount[t] = Refs(t) /\ Refs(t) = Own(t)
    BY <1>1, <1>2, <1>3, NoHolders DEF CountOk
  <2> QED
    BY <1>2, <2>1 DEF Own
<1>5. /\ Queues(t)
      /\ refcount' = [refcount EXCEPT ![t] = 0]
      /\ isThread' = [isThread EXCEPT ![t] = FALSE]
      /\ pc' = [pc EXCEPT ![t] = "exited"]
      /\ allthreads' = RemoveFirst(allthreads, t)
      /\ pend' = TRUE
      /\ UNCHANGED <<current, waiters, mutexes, on, relock, timers, waking, switch,
                     detached, doing, target, loaded, joined>>
  BY <1>4 DEF ExitDetached, Release, Queues
<1>6. Core'
  BY <1>1, <1>2, <1>5, CoreRelease
<1>7. /\ \A u \in Threads \ {t} :
           /\ pc'[u] = pc[u] /\ state'[u] = state[u] /\ prio'[u] = prio[u]
           /\ isThread'[u] = isThread[u] /\ refcount'[u] = refcount[u]
      /\ pc'[t] = "exited" /\ state'[t] = "READY" /\ ~isThread'[t] /\ prio'[t] = 1
      /\ refcount'[t] = 0 /\ running' = running
  BY <1>1, <1>5 DEF LifeTypes, Queues, switch
<1>8. \A u \in Threads : Live(u)' <=> Live(u) /\ u # t
  BY <1>2, <1>7 DEF Live
<1>9. \A v \in Threads : target[v] # t
  BY <1>1, <1>2, <1>3, DistinctConstants DEF CallOk, LifeTypes, Joins
<1>10. LifeTypes'
  <2>1. Cardinality(Threads) \in Nat
    BY RefsIs
  <2>2. refcount' \in [Threads -> 0 .. Cardinality(Threads) + 1]
    BY <1>1, <1>5, <2>1 DEF LifeTypes
  <2>3. isThread' \in [Threads \cup {Idle} -> BOOLEAN]
    BY <1>1, <1>5 DEF LifeTypes
  <2>4. /\ allthreads' \in Seq(Threads) /\ IsInjective(allthreads')
        /\ ToSet(allthreads') = {u \in Threads : Live(u)'}
    BY <1>1, <1>2, <1>5, <1>8, ListLeaves
  <2>5. \A u \in Threads : pc'[u] # "sleept"
    BY <1>1, <1>7 DEF LifeTypes
  <2> QED
    BY <1>1, <1>5, <1>7, <2>2, <2>3, <2>4, <2>5 DEF LifeTypes
<1>11. ASSUME NEW u \in Threads
       PROVE  BlockOk(u)' /\ CallOk(u)' /\ CountOk(u)'
  <2>1. CASE u = t
    <3>1. BlockOk(u)'
      <4>1. running # t /\ detached[t] \in Detach
        BY <1>1, <1>2 DEF BlockOk
      <4> QED
        BY <1>5, <1>7, <1>8, <2>1, <4>1 DEF BlockOk
    <3>2. CallOk(u)'
      <4>1. target[t] = Nobody
        BY <1>1, <1>2 DEF CallOk
      <4> QED
        BY <1>2, <1>5, <2>1, <4>1 DEF CallOk, Joins
    <3>3. Refs(u)' = 0
      <4>1. Holders(t)' = {}
        BY <1>5, <1>9 DEF Holders
      <4>2. Own(t)' = 0
        BY <1>2, <1>5, <1>7 DEF Own
      <4>3. Refs(t)' = Cardinality(Holders(t)') + Own(t)'
        BY DEF Refs, Holders, Own
      <4> QED
        BY <2>1, <4>1, <4>2, <4>3, FS_EmptySet
    <3>4. CountOk(u)'
      BY <1>5, <1>7, <1>8, <1>9, <2>1, <3>3 DEF CountOk
    <3> QED
      BY <3>1, <3>2, <3>4
  <2>2. CASE u # t
    <3>1. BlockOk(u)'
      BY <1>1, <1>5, <1>7, <2>2, BlockSame
    <3>2. CallOk(u)'
      <4>1. target[u] # t
        BY <1>9
      <4> QED
        BY <1>1, <1>5, <1>7, <1>8, <2>2, <4>1, CallSame DEF Joins
    <3>3. Refs(u)' = Refs(u)
      BY <1>5, <1>7, <2>2, RefsSame
    <3>4. CountOk(u)'
      BY <1>1, <1>5, <1>7, <1>8, <2>2, <3>3, CountSame DEF Joins
    <3> QED
      BY <3>1, <3>2, <3>4
  <2> QED
    BY <2>1, <2>2
<1> QED
  BY <1>6, <1>10, <1>11 DEF IInv, LifeOk

\* thread_exit of a joinable thread leaves the reference to its joiner.
LEMMA LifeExitJoinable ==
  ASSUME IInv, NEW t \in Threads, ExitJoinable(t)
  PROVE  IInv'
<1>1. /\ Core /\ LifeOk /\ LifeTypes /\ t \in Schedulable /\ Threads \subseteq Schedulable
      /\ state \in [Schedulable -> States]
      /\ pc \in [Threads -> {"none", "run", "sleep", "sleept", "until", "lock", "exited"}]
      /\ \A u \in Threads : BlockOk(u) /\ CallOk(u) /\ CountOk(u)
  BY DEF IInv, LifeOk, Core, CoreTypes, Schedulable
<1>2. /\ pc[t] = "run" /\ doing[t] = "nothing" /\ ~detached[t] /\ Live(t)
  BY DEF ExitJoinable, Free, Calls, Live
<1>3. /\ state' = [state EXCEPT ![t] = "ZOMBIE"]
      /\ pc' = [pc EXCEPT ![t] = "exited"]
      /\ allthreads' = RemoveFirst(allthreads, t)
      /\ UNCHANGED <<prio, running, isThread, detached, refcount, doing, target, loaded,
                     joined>>
  BY DEF ExitJoinable, switch
<1>4. Core'
  BY <1>1, CoreZombie
<1>5. /\ \A u \in Threads \ {t} : pc'[u] = pc[u] /\ state'[u] = state[u]
      /\ pc'[t] = "exited" /\ state'[t] = "ZOMBIE"
  BY <1>1, <1>3
<1>6. \A u \in Threads : Live(u)' <=> Live(u) /\ u # t
  BY <1>2, <1>5 DEF Live
<1>7. LifeTypes'
  <2>1. /\ allthreads' \in Seq(Threads) /\ IsInjective(allthreads')
        /\ ToSet(allthreads') = {u \in Threads : Live(u)'}
    BY <1>1, <1>2, <1>3, <1>6, ListLeaves
  <2>2. \A u \in Threads : pc'[u] # "sleept"
    BY <1>1, <1>5 DEF LifeTypes
  <2> QED
    BY <1>1, <1>3, <2>1, <2>2 DEF LifeTypes
<1>8. Own(t) = 1 /\ Own(t)' = 1
  <2>1. t \in joined => \E v \in Threads : Joins(v) /\ target[v] = t
    BY <1>1, <1>2 DEF CountOk
  <2> QED
    BY <1>2, <1>3, <2>1 DEF Own, Joins
<1>9. Refs(t)' = Refs(t) /\ refcount[t] = Refs(t) /\ Refs(t) \in Nat /\ Refs(t) > 0
  <2>1. /\ Refs(t) = Cardinality(Holders(t)) + Own(t)
        /\ Cardinality(Holders(t)) \in Nat
    BY RefsIs
  <2>2. Refs(t)' = Cardinality(Holders(t)') + Own(t)'
    BY DEF Refs, Holders, Own
  <2>3. Holders(t)' = Holders(t)
    BY <1>3 DEF Holders
  <2>4. refcount[t] = Refs(t)
    BY <1>1, <1>2 DEF CountOk, Live
  <2> QED
    BY <1>8, <2>1, <2>2, <2>3, <2>4
<1>10. ASSUME NEW u \in Threads
       PROVE  BlockOk(u)' /\ CallOk(u)' /\ CountOk(u)'
  <2>1. CallOk(u)'
    <3>1. Live(u) => Live(u)' \/ doing[u] = "nothing"
      BY <1>2, <1>6
    <3>2. target[u] \in Threads \cup {Nobody}
      BY <1>1 DEF LifeTypes
    <3>3. doing[u] \in {"load", "store"} => pc'[target[u]] = "exited"
      BY <1>1, <1>5, <3>2 DEF CallOk
    <3> QED
      BY <1>1, <1>3, <3>1, <3>3 DEF CallOk, Joins
  <2>2. CASE u = t
    <3>1. BlockOk(u)'
      BY <1>1, <1>2, <1>3, <1>5, <1>6, <1>9, <2>2 DEF BlockOk
    <3>2. CountOk(u)'
      <4>1. \A v \in Threads : ~(doing[v] = "store" /\ target[v] = t)
        BY <1>1, <1>2 DEF CallOk
      <4> QED
        BY <1>3, <1>5, <1>6, <1>9, <2>2, <4>1 DEF CountOk
    <3> QED
      BY <2>1, <3>1, <3>2
  <2>3. CASE u # t
    <3>1. BlockOk(u)'
      BY <1>1, <1>3, <1>5, <2>3, BlockSame
    <3>2. Refs(u)' = Refs(u)
      BY <1>3, <1>5, <2>3, RefsSame
    <3>3. CountOk(u)'
      BY <1>1, <1>3, <1>5, <1>6, <2>3, <3>2, CountSame DEF Joins
    <3> QED
      BY <2>1, <3>1, <3>3
  <2> QED
    BY <2>2, <2>3
<1> QED
  BY <1>4, <1>7, <1>10 DEF IInv, LifeOk

-----------------------------------------------------------------------------
(* thread_join *)

\* A joinable block that nobody has joined has not been released.
LEMMA UnjoinedKept ==
  ASSUME LifeOk, NEW u \in Threads, pc[u] # "none", ~detached[u], u \notin joined
  PROVE  Own(u) = 1 /\ isThread[u] /\ refcount[u] >= Refs(u) /\ \A t \in Threads :
           ~(Joins(t) /\ target[t] = u)
<1>1. LifeTypes /\ BlockOk(u) /\ CountOk(u) /\ \A t \in Threads : CallOk(t)
  BY DEF LifeOk
<1>2. Own(u) = 1
  BY DEF Own
<1>3. refcount[u] >= Refs(u) /\ refcount[u] \in Nat
  BY <1>1, RefsIs DEF CountOk, LifeTypes
<1>4. refcount[u] # 0
  BY <1>2, <1>3, RefsIs
<1> QED
  BY <1>1, <1>2, <1>3, <1>4 DEF BlockOk, CallOk, Live

\* thread_join begins; the reference is the joiner's from now on.
LEMMA LifeJoinStart ==
  ASSUME IInv, NEW t \in Threads, NEW u \in Threads, JoinStart(t, u)
  PROVE  IInv'
<1>1. /\ Core /\ LifeOk /\ LifeTypes
      /\ \A x \in Threads : BlockOk(x) /\ CallOk(x) /\ CountOk(x)
  BY DEF IInv, LifeOk
<1>2. /\ pc[t] = "run" /\ doing[t] = "nothing" /\ pc[u] # "none" /\ ~detached[u]
      /\ u \notin joined
      /\ doing' = [doing EXCEPT ![t] = "join"]
      /\ target' = [target EXCEPT ![t] = u]
      /\ joined' = joined \cup {u}
      /\ UNCHANGED <<vars, isThread, detached, refcount, allthreads, loaded>>
  BY DEF JoinStart, Free, Calls
<1>3. UNCHANGED <<pc, state, prio, running>>
  BY <1>2 DEF vars, queues, frames, switch
<1>4. Core'
  BY <1>1, <1>2, CoreNext
<1>5. \A x \in Threads : Live(x)' <=> Live(x)
  BY <1>3 DEF Live
<1>6. /\ Own(u) = 1 /\ isThread[u] /\ refcount[u] >= Refs(u)
      /\ \A v \in Threads : ~(Joins(v) /\ target[v] = u)
  BY <1>1, <1>2, UnjoinedKept
<1>7. /\ target[t] = Nobody /\ doing'[t] = "join" /\ target'[t] = u
      /\ \A v \in Threads \ {t} : doing'[v] = doing[v] /\ target'[v] = target[v]
  BY <1>1, <1>2 DEF CallOk, LifeTypes
<1>8. LifeTypes'
  BY <1>1, <1>2, <1>3, <1>5 DEF LifeTypes
<1>9. ASSUME NEW x \in Threads
      PROVE  BlockOk(x)' /\ CallOk(x)' /\ CountOk(x)'
  <2>1. BlockOk(x)'
    BY <1>1, <1>2, <1>3, BlockSame
  <2>2. CallOk(x)'
    <3>1. CASE x = t
      <4>1. \A v \in Threads : Joins(v)' /\ target'[v] = u => v = t
        BY <1>6, <1>7 DEF Joins
      <4>2. Live(t)'
        BY <1>2, <1>5 DEF Live
      <4> QED
        BY <1>2, <1>6, <1>7, <3>1, <4>1, <4>2, DistinctConstants DEF CallOk, Joins
    <3>2. CASE x # t
      <4>1. \A v \in Threads : Joins(x) /\ Joins(v)' /\ target'[v] = target[x] =>
              Joins(v) /\ target[v] = target[x]
        BY <1>6, <1>7, <3>2 DEF Joins
      <4> QED
        BY <1>1, <1>2, <1>3, <1>5, <1>7, <3>2, <4>1, CallSame
    <3> QED
      BY <3>1, <3>2
  <2>3. CASE x = u
    <3>1. Holders(u)' = Holders(u)
      <4>1. \A v \in Threads : target'[v] = u /\ doing'[v] = "ps" <=> target[v] = u /\ doing[v] = "ps"
        BY <1>2, <1>7
      <4> QED
        BY <4>1 DEF Holders
    <3>2. Own(u)' = 1
      BY <1>2, <1>7 DEF Own
    <3>3. Refs(u)' = Refs(u)
      <4>1. Refs(u)' = Cardinality(Holders(u)') + Own(u)'
        BY DEF Refs, Holders, Own
      <4> QED
        BY <1>6, <3>1, <3>2, <4>1, RefsIs
    <3>4. \A v \in Threads : ~(doing'[v] = "store" /\ target'[v] = u)
      BY <1>6, <1>7 DEF Joins
    <3>5. Joins(t)' /\ target'[t] = u
      BY <1>7 DEF Joins
    <3>6. CountOk(u)'
      BY <1>1, <1>2, <1>3, <1>5, <3>3, <3>4, <3>5 DEF CountOk
    <3> QED
      BY <2>1, <2>2, <2>3, <3>6
  <2>4. CASE x # u
    <3>1. Refs(x)' = Refs(x)
      BY <1>2, <1>3, <1>7, <2>4, RefsSame, DistinctConstants
    <3>2. CountOk(x)'
      BY <1>1, <1>2, <1>3, <1>5, <1>7, <2>4, <3>1, CountSame DEF Joins
    <3> QED
      BY <2>1, <2>2, <3>2
  <2> QED
    BY <2>3, <2>4
<1> QED
  BY <1>4, <1>8, <1>9 DEF IInv, LifeOk

\* thread_join sees the ZOMBIE, and loads the count.
LEMMA LifeJoinLoads ==
  ASSUME IInv, NEW t \in Threads, JoinSees(t) \/ JoinLoad(t)
  PROVE  IInv'
<1> DEFINE u == target[t]
<1>1. /\ Core /\ LifeOk /\ LifeTypes /\ CoreControl
      /\ \A x \in Threads : BlockOk(x) /\ CallOk(x) /\ CountOk(x)
  BY DEF IInv, LifeOk, Core
<1>2. /\ doing[t] \in {"join", "load"} /\ doing'[t] \in {"load", "store"}
      /\ doing[t] = "join" => state[u] = "ZOMBIE" /\ doing'[t] = "load"
      /\ \A v \in Threads \ {t} : doing'[v] = doing[v] /\ loaded'[v] = loaded[v]
      /\ doing'[t] = "store" => loaded'[t] = refcount[u]
      /\ doing' \in [Threads -> {"nothing", "join", "load", "store", "ps"}]
      /\ loaded' \in [Threads -> 0 .. Cardinality(Threads) + 1]
      /\ UNCHANGED <<vars, isThread, detached, refcount, allthreads, target, joined>>
  <2>1. doing[t] # "nothing"
    BY DEF JoinSees, JoinLoad
  <2>2. u \in Threads
    BY <1>1, <2>1 DEF LifeTypes, CallOk
  <2>3. refcount[u] \in 0 .. Cardinality(Threads) + 1
    BY <1>1, <2>2 DEF LifeTypes
  <2> QED
    BY <1>1, <2>3 DEF JoinSees, JoinLoad, LifeTypes
<1>3. UNCHANGED <<pc, state, prio, running>>
  BY <1>2 DEF vars, queues, frames, switch
<1>4. Core'
  BY <1>1, <1>2, CoreNext
<1>5. \A x \in Threads : Live(x)' <=> Live(x)
  BY <1>3 DEF Live
<1>6. u \in Threads /\ pc[u] = "exited"
  <2>1. u \in Threads /\ isThread[u]
    BY <1>1, <1>2 DEF LifeTypes, CallOk
  <2>2. state[u] = "ZOMBIE" => pc[u] \in {"none", "exited"}
    BY <1>1, <2>1 DEF CoreControl
  <2> QED
    BY <1>1, <1>2, <2>1, <2>2 DEF CallOk, BlockOk
<1>7. LifeTypes'
  BY <1>1, <1>2, <1>3, <1>5 DEF LifeTypes
<1>8. \A v \in Threads : Joins(v)' <=> Joins(v)
  BY <1>2 DEF Joins
<1>9. ASSUME NEW x \in Threads
      PROVE  BlockOk(x)' /\ CallOk(x)' /\ CountOk(x)'
  <2>1. BlockOk(x)'
    BY <1>1, <1>2, <1>3, BlockSame
  <2>2. CallOk(x)'
    BY <1>1, <1>2, <1>3, <1>5, <1>6, <1>8 DEF CallOk
  <2>3. Refs(x)' = Refs(x)
    BY <1>2, <1>3, RefsSame
  <2>4. CountOk(x)'
    BY <1>1, <1>2, <1>3, <1>5, <1>6, <1>8, <2>3 DEF CountOk
  <2> QED
    BY <2>1, <2>2, <2>4
<1> QED
  BY <1>4, <1>7, <1>9 DEF IInv, LifeOk

\* thread_join stores the count and drops the joiner's reference; the last one
\* turns the block into a task.
LEMMA LifeJoinStore ==
  ASSUME IInv, NEW t \in Threads, JoinStore(t)
  PROVE  IInv'
<1>0. PICK u \in Threads, n \in Int : u = target[t] /\ n = loaded[t] - 1
  <2>1. target[t] \in Threads
    BY DEF IInv, LifeOk, LifeTypes, CallOk, JoinStore
  <2>2. loaded[t] - 1 \in Int
    BY RefsIs DEF IInv, LifeOk, LifeTypes
  <2> QED
    BY <2>1, <2>2
<1>1. /\ Core /\ LifeOk /\ LifeTypes /\ Threads \subseteq Schedulable
      /\ state \in [Schedulable -> States] /\ prio \in [Schedulable -> Prios]
      /\ pc \in [Threads -> {"none", "run", "sleep", "sleept", "until", "lock", "exited"}]
      /\ \A x \in Threads : BlockOk(x) /\ CallOk(x) /\ CountOk(x)
  BY DEF IInv, LifeOk, Core, CoreTypes, Schedulable
<1>2. /\ Unlocked /\ doing[t] = "store"
      /\ refcount' = [refcount EXCEPT ![u] = n]
      /\ doing' = [doing EXCEPT ![t] = "nothing"]
      /\ target' = [target EXCEPT ![t] = Nobody]
      /\ loaded' = [loaded EXCEPT ![t] = 0]
      /\ IF n = 0 THEN isThread' = [isThread EXCEPT ![u] = FALSE] /\ Queues(u)
                  ELSE UNCHANGED <<isThread, queues>>
      /\ UNCHANGED <<current, waiters, mutexes, frames, timers, waking, pend, switch,
                     detached, allthreads, joined>>
  BY <1>0 DEF JoinStore, Release, Queues, Calls, ThreadLevel
<1>3. UNCHANGED <<pc, running>>
  BY <1>2 DEF frames, switch
<1>4. /\ u \in Threads /\ pc[u] = "exited" /\ isThread[u] /\ state[u] = "ZOMBIE"
      /\ ~detached[u] /\ u \in joined /\ Joins(t) /\ target[t] = u
  BY <1>0, <1>1, <1>2, DistinctConstants DEF LifeTypes, CallOk, BlockOk, Joins
<1>5. \A v \in Threads \ {t} : target[v] = u => doing[v] = "ps"
  BY <1>1, <1>2, <1>4, DistinctConstants DEF CallOk, Joins, LifeTypes
<1>6. /\ doing'[t] = "nothing" /\ target'[t] = Nobody /\ refcount'[u] = n
      /\ \A v \in Threads \ {t} : /\ doing'[v] = doing[v] /\ target'[v] = target[v]
                                  /\ loaded'[v] = loaded[v]
      /\ \A v \in Threads \ {u} : refcount'[v] = refcount[v]
  BY <1>1, <1>2, <1>4 DEF LifeTypes
<1>7. Own(u) = 1 /\ Own(u)' = 0
  <2>1. target[t] = u /\ doing[t] # "ps"
    BY <1>2, <1>4
  <2>2. \A v \in Threads : target'[v] # u \/ doing'[v] = "ps"
    BY <1>4, <1>5, <1>6, DistinctConstants
  <2> QED
    BY <1>2, <1>4, <2>1, <2>2 DEF Own
<1>8. Holders(u)' = Holders(u)
  <2>1. \A v \in Threads : target'[v] = u /\ doing'[v] = "ps" <=> target[v] = u /\ doing[v] = "ps"
    BY <1>2, <1>6
  <2> QED
    BY <2>1 DEF Holders
<1>9. /\ Refs(u)' = Refs(u) - 1 /\ n \in 0 .. Cardinality(Threads) + 1
      /\ Cardinality(Threads) \in Nat /\ n >= Refs(u)' /\ Refs(u)' \in Nat
      /\ Refs(u)' = Cardinality(Holders(u))
      /\ PsReaders = {} => n = Refs(u)'
  <2>1. Refs(u)' = Cardinality(Holders(u)') + Own(u)'
    BY DEF Refs, Holders, Own
  <2>2. /\ Refs(u) = Cardinality(Holders(u)) + Own(u) /\ Cardinality(Holders(u)) \in Nat
        /\ Cardinality(Threads) \in Nat
    BY <1>4, RefsIs
  <2>3. /\ loaded[t] >= Refs(u)
        /\ PsReaders = {} => loaded[t] = Refs(u)
        /\ loaded[t] \in 0 .. Cardinality(Threads) + 1
    BY <1>1, <1>2, <1>4 DEF CountOk, LifeTypes
  <2> QED
    BY <1>0, <1>7, <1>8, <2>1, <2>2, <2>3
<1>10. n = 0 => \A v \in Threads \ {t} : target[v] # u
  <2>1. n = 0 => Holders(u) = {}
    BY <1>4, <1>9, RefsIs, FS_EmptySet
  <2> QED
    BY <1>5, <2>1 DEF Holders
<1>11. Core'
  <2>1. CASE n = 0
    <3>1. /\ pc' = [pc EXCEPT ![u] = pc[u]] /\ pend' \in BOOLEAN
          /\ UNCHANGED <<current, waiters, mutexes, on, relock, timers, waking, switch>>
      BY <1>1, <1>2, <1>3 DEF frames, Core, CoreTypes
    <3>2. Queues(u) /\ state[u] \notin {"READY", "SLEEPING"} /\ pc[u] \notin {"none", "until", "sleept"}
      BY <1>2, <1>4, <2>1
    <3> QED
      BY <1>1, <1>2, <1>4, <3>1, <3>2, CoreRelease
  <2>2. CASE n # 0
    <3>1. UNCHANGED vars
      BY <1>2, <2>2 DEF vars
    <3> QED
      BY <1>1, <3>1, CoreNext
  <2> QED
    BY <2>1, <2>2
<1>12. /\ \A x \in Threads \ {u} : /\ state'[x] = state[x] /\ prio'[x] = prio[x]
                                   /\ isThread'[x] = isThread[x]
       /\ n = 0 => state'[u] = "READY" /\ prio'[u] = 1 /\ ~isThread'[u]
       /\ n # 0 => state'[u] = state[u] /\ prio'[u] = prio[u] /\ isThread'[u] = isThread[u]
  <2>1. CASE n = 0
    BY <1>1, <1>2, <1>4, <2>1 DEF Queues, LifeTypes
  <2>2. CASE n # 0
    BY <1>2, <2>2 DEF queues
  <2> QED
    BY <2>1, <2>2
<1>13. \A x \in Threads : Live(x)' <=> Live(x)
  BY <1>3 DEF Live
<1>14. LifeTypes'
  <2>1. isThread' \in [Threads \cup {Idle} -> BOOLEAN]
    BY <1>1, <1>2 DEF LifeTypes
  <2>2. /\ refcount' \in [Threads -> 0 .. Cardinality(Threads) + 1]
        /\ loaded' \in [Threads -> 0 .. Cardinality(Threads) + 1]
    BY <1>1, <1>2, <1>9 DEF LifeTypes
  <2> QED
    BY <1>1, <1>2, <1>3, <1>13, <2>1, <2>2 DEF LifeTypes
<1>15. ASSUME NEW x \in Threads
       PROVE  BlockOk(x)' /\ CallOk(x)' /\ CountOk(x)'
  <2>1. CallOk(x)'
    <3>1. CASE x = t
      BY <1>6, <3>1 DEF CallOk, Joins
    <3>2. CASE x # t
      <4>1. target[x] = u => isThread'[target[x]]
        BY <1>4, <1>10, <1>12, <3>2
      <4>2. target[x] \in Threads => (isThread[target[x]] => isThread'[target[x]])
        BY <1>12, <4>1
      <4>3. \A v \in Threads : Joins(x) /\ Joins(v)' /\ target'[v] = target[x] =>
              Joins(v) /\ target[v] = target[x]
        BY <1>6 DEF Joins
      <4> QED
        BY <1>1, <1>2, <1>3, <1>6, <1>13, <3>2, <4>2, <4>3, CallSame
    <3> QED
      BY <3>1, <3>2
  <2>2. CASE x = u
    <3>1. BlockOk(u)'
      <4>1. running # u /\ detached[u] \in Detach
        BY <1>1, <1>4 DEF BlockOk
      <4>2. n = 0 \/ (n # 0 /\ n > 0)
        BY <1>9
      <4> QED
        BY <1>2, <1>3, <1>4, <1>6, <1>12, <4>1, <4>2 DEF BlockOk, Live
    <3>2. \A v \in Threads : ~(doing'[v] = "store" /\ target'[v] = u)
      BY <1>5, <1>6
    <3>3. CountOk(u)'
      <4>1. ~Live(u)'
        BY <1>4, <1>13 DEF Live
      <4> QED
        BY <1>6, <1>9, <3>2, <4>1 DEF CountOk
    <3> QED
      BY <2>1, <2>2, <3>1, <3>3
  <2>3. CASE x # u
    <3>1. BlockOk(x)'
      BY <1>1, <1>2, <1>3, <1>6, <1>12, <2>3, BlockSame
    <3>2. Refs(x)' = Refs(x)
      <4>1. \A v \in Threads : /\ target'[v] = x <=> target[v] = x
                               /\ target[v] = x => doing'[v] = doing[v]
        BY <1>4, <1>6, <2>3, DistinctConstants
      <4> QED
        BY <1>2, <1>3, <4>1, RefsSame
    <3>3. CountOk(x)'
      <4>1. \A v \in Threads : Joins(v) /\ target[v] = x => Joins(v)' /\ target'[v] = x
        BY <1>4, <1>6, <2>3 DEF Joins
      <4> QED
        BY <1>1, <1>2, <1>3, <1>6, <1>13, <2>3, <3>2, <4>1, CountSame
    <3> QED
      BY <2>1, <3>1, <3>3
  <2> QED
    BY <2>2, <2>3
<1> QED
  BY <1>11, <1>14, <1>15 DEF IInv, LifeOk

-----------------------------------------------------------------------------
(* ps *)

\* A reader of the thread list moves to block n, which is listed.
LEMMA Retains ==
  ASSUME LifeOk, NEW t \in Threads, NEW n \in Threads, Live(n), target[t] # n,
         target'[t] = n, doing'[t] = "ps", ~Joins(t),
         \A v \in Threads \ {t} : target'[v] = target[v] /\ doing'[v] = doing[v],
         UNCHANGED <<pc, detached, joined, loaded>>,
         refcount'[n] = refcount[n] + 1
  PROVE  refcount'[n] \in 0 .. Cardinality(Threads) + 1 /\ CountOk(n)'
<1>1. LifeTypes /\ CountOk(n) /\ \A v \in Threads : CallOk(v)
  BY DEF LifeOk
<1>2. Holders(n)' = Holders(n) \cup {t} /\ t \notin Holders(n)
  <2>1. \A v \in Threads : target'[v] = n /\ doing'[v] = "ps" <=>
           (target[v] = n /\ doing[v] = "ps") \/ v = t
    OBVIOUS
  <2> QED
    BY <2>1 DEF Holders
<1>3. Own(n)' = Own(n)
  <2>1. \A v \in Threads : target'[v] # n \/ doing'[v] = "ps" <=>
           target[v] # n \/ doing[v] = "ps"
    OBVIOUS
  <2> QED
    BY <2>1 DEF Own
<1>4. /\ Refs(n) = Cardinality(Holders(n)) + Own(n) /\ Cardinality(Holders(n)) \in Nat
      /\ IsFiniteSet(Holders(n)) /\ Own(n) \in 0 .. 1 /\ Cardinality(Threads) \in Nat
  BY RefsIs
<1>5. /\ Cardinality(Holders(n)') = Cardinality(Holders(n)) + 1
      /\ Cardinality(Holders(n)') <= Cardinality(Threads)
  <2>1. Holders(n)' \in SUBSET Threads /\ IsFiniteSet(Threads)
    BY LifeConstants DEF Holders
  <2> QED
    BY <1>2, <1>4, <2>1, FS_AddElement, FS_Subset
<1>6. Refs(n)' = Refs(n) + 1 /\ refcount[n] = Refs(n)
      /\ Refs(n)' <= Cardinality(Threads) + 1
  <2>1. Refs(n)' = Cardinality(Holders(n)') + Own(n)'
    BY DEF Refs, Holders, Own
  <2>2. refcount[n] = Refs(n)
    BY <1>1 DEF CountOk, Live
  <2> QED
    BY <1>3, <1>4, <1>5, <2>1, <2>2
<1>7. \A v \in Threads : ~(doing'[v] = "store" /\ target'[v] = n)
  BY <1>1 DEF CallOk, Live
<1>8. n \in joined => \E v \in Threads : Joins(v)' /\ target'[v] = n
  BY <1>1 DEF CountOk, Joins
<1>9. Live(n)'
  BY DEF Live
<1> QED
  BY <1>4, <1>6, <1>7, <1>8, <1>9 DEF CountOk

\* The first step of ps.
LEMMA LifeFirst ==
  ASSUME IInv, NEW t \in PsReaders, thread_get_first(t)
  PROVE  IInv'
<1>1. /\ Core /\ LifeOk /\ LifeTypes /\ t \in Threads
      /\ \A x \in Threads : BlockOk(x) /\ CallOk(x) /\ CountOk(x)
  BY LifeConstants DEF IInv, LifeOk
<1>2. PICK h \in Threads : h = Head(allthreads) /\ Live(h)
  <2>1. allthreads \in Seq(Threads) /\ allthreads # <<>>
    BY <1>1 DEF LifeTypes, thread_get_first
  <2>2. Head(allthreads) \in Threads /\ Head(allthreads) \in ToSet(allthreads)
    BY <2>1, TailSet
  <2> QED
    BY <1>1, <2>2 DEF LifeTypes
<1>3. /\ pc[t] = "run" /\ doing[t] = "nothing" /\ target[t] = Nobody
      /\ doing' = [doing EXCEPT ![t] = "ps"]
      /\ target' = [target EXCEPT ![t] = h]
      /\ refcount' = [refcount EXCEPT ![h] = @ + 1]
      /\ UNCHANGED <<vars, isThread, detached, allthreads, loaded, joined>>
  BY <1>1, <1>2 DEF thread_get_first, Free, Calls, CallOk
<1>4. UNCHANGED <<pc, state, prio, running>>
  BY <1>3 DEF vars, queues, frames, switch
<1>5. Core'
  BY <1>1, <1>3, CoreNext
<1>6. \A x \in Threads : Live(x)' <=> Live(x)
  BY <1>4 DEF Live
<1>7. /\ doing'[t] = "ps" /\ target'[t] = h /\ refcount'[h] = refcount[h] + 1
      /\ \A v \in Threads \ {t} : doing'[v] = doing[v] /\ target'[v] = target[v]
      /\ \A v \in Threads \ {h} : refcount'[v] = refcount[v]
  BY <1>1, <1>3 DEF LifeTypes
<1>8. refcount'[h] \in 0 .. Cardinality(Threads) + 1 /\ CountOk(h)'
  <2>1. ~Joins(t) /\ target[t] # h
    BY <1>3, DistinctConstants DEF Joins
  <2> QED
    BY <1>1, <1>2, <1>3, <1>4, <1>7, <2>1, Retains
<1>9. LifeTypes'
  <2>1. refcount' \in [Threads -> 0 .. Cardinality(Threads) + 1]
    <3>1. refcount' = [refcount EXCEPT ![h] = refcount'[h]]
      BY <1>1, <1>3 DEF LifeTypes
    <3> QED
      BY <1>1, <1>8, <3>1 DEF LifeTypes
  <2> QED
    BY <1>1, <1>3, <1>4, <1>6, <2>1 DEF LifeTypes
<1>10. ASSUME NEW x \in Threads
       PROVE  BlockOk(x)' /\ CallOk(x)' /\ CountOk(x)'
  <2>1. BlockOk(x)'
    <3>1. CASE x = h
      BY <1>1, <1>2, <1>3, <1>4, <3>1 DEF BlockOk, Live
    <3>2. CASE x # h
      BY <1>1, <1>3, <1>4, <1>7, <3>2, BlockSame
    <3> QED
      BY <3>1, <3>2
  <2>2. CallOk(x)'
    <3>1. CASE x = t
      <4>1. Live(t)' /\ isThread[h]
        BY <1>1, <1>2, <1>3, <1>6 DEF Live, BlockOk
      <4> QED
        BY <1>3, <1>7, <3>1, <4>1, DistinctConstants DEF CallOk, Joins
    <3>2. CASE x # t
      <4>1. \A v \in Threads : Joins(x) /\ Joins(v)' /\ target'[v] = target[x] =>
              Joins(v) /\ target[v] = target[x]
        BY <1>7 DEF Joins
      <4> QED
        BY <1>1, <1>3, <1>4, <1>6, <1>7, <3>2, <4>1, CallSame
    <3> QED
      BY <3>1, <3>2
  <2>3. CASE x # h
    <3>1. Refs(x)' = Refs(x)
      BY <1>3, <1>4, <1>7, <2>3, RefsSame, DistinctConstants
    <3>2. CountOk(x)'
      BY <1>1, <1>3, <1>4, <1>6, <1>7, <2>3, <3>1, CountSame DEF Joins
    <3> QED
      BY <2>1, <2>2, <3>2
  <2> QED
    BY <1>8, <2>1, <2>2, <2>3
<1> QED
  BY <1>5, <1>9, <1>10 DEF IInv, LifeOk

\* The thread after u on the list is listed, and another one.
LEMMA NextListed ==
  ASSUME LifeTypes, NEW u \in Threads
  PROVE  NextOf(u) = Nobody \/ (NextOf(u) \in Threads /\ Live(NextOf(u)) /\ NextOf(u) # u)
<1> DEFINE I == {i \in 1 .. Len(allthreads) : allthreads[i] = u}
           i == SelectInSeq(allthreads, LAMBDA v : v = u)
<1>1. allthreads \in Seq(Threads) /\ IsInjective(allthreads)
      /\ Len(allthreads) \in Nat /\ DOMAIN allthreads = 1 .. Len(allthreads)
  BY DEF LifeTypes
<1>2. i = IF I # {} THEN Min(I) ELSE 0
  BY DEF SelectInSeq
<1>3. I # {} => i \in I
  <2>1. I \in SUBSET Nat
    OBVIOUS
  <2> QED
    BY <1>2, <2>1, MinNat
<1>4. i = 0 \/ i = Len(allthreads) \/
      (i \in 1 .. Len(allthreads) /\ i + 1 \in 1 .. Len(allthreads) /\ allthreads[i] = u)
  BY <1>1, <1>2, <1>3
<1>5. NextOf(u) = IF i = 0 \/ i = Len(allthreads) THEN Nobody ELSE allthreads[i + 1]
  BY DEF NextOf
<1> HIDE DEF i, I
<1>6. SUFFICES ASSUME i # 0, i # Len(allthreads)
               PROVE  NextOf(u) \in Threads /\ Live(NextOf(u)) /\ NextOf(u) # u
  BY <1>5
<1>7. NextOf(u) = allthreads[i + 1] /\ allthreads[i + 1] \in Threads
  BY <1>1, <1>4, <1>5, <1>6
<1>8. allthreads[i + 1] # u
  <2>1. i + 1 # i
    BY <1>1, <1>4, <1>6
  <2> QED
    BY <1>1, <1>4, <1>6, <2>1 DEF IsInjective
<1>9. allthreads[i + 1] \in ToSet(allthreads)
  BY <1>1, <1>4, <1>6 DEF ToSet
<1> QED
  BY <1>7, <1>8, <1>9 DEF LifeTypes

\* A reader of the thread list leaves block u; when it held the last reference
\* the thread has exited and its joiner is gone.
LEMMA Drops ==
  ASSUME LifeOk, NEW t \in Threads, NEW u \in Threads, doing[t] = "ps", target[t] = u,
         target'[t] # u,
         \A v \in Threads \ {t} : target'[v] = target[v] /\ doing'[v] = doing[v],
         UNCHANGED <<pc, detached, joined, loaded>>,
         refcount'[u] = refcount[u] - 1
  PROVE  /\ refcount'[u] \in 0 .. Cardinality(Threads) + 1 /\ CountOk(u)'
         /\ refcount[u] = 1 => /\ pc[u] = "exited"
                               /\ \A v \in Threads \ {t} : target[v] # u
<1>1. LifeTypes /\ BlockOk(u) /\ CountOk(u) /\ \A v \in Threads : CallOk(v)
  BY DEF LifeOk
<1>2. isThread[u] /\ pc[u] # "none" /\ t \in PsReaders
  BY <1>1 DEF CallOk, BlockOk
<1>3. Holders(u)' = Holders(u) \ {t} /\ t \in Holders(u)
  <2>1. \A v \in Threads : target'[v] = u /\ doing'[v] = "ps" <=>
           (target[v] = u /\ doing[v] = "ps") /\ v # t
    OBVIOUS
  <2> QED
    BY <2>1 DEF Holders
<1>4. Own(u)' = Own(u)
  <2>1. \A v \in Threads : target'[v] # u \/ doing'[v] = "ps" <=>
           target[v] # u \/ doing[v] = "ps"
    OBVIOUS
  <2> QED
    BY <2>1 DEF Own
<1>5. /\ Refs(u) = Cardinality(Holders(u)) + Own(u) /\ Cardinality(Holders(u)) \in Nat
      /\ IsFiniteSet(Holders(u)) /\ Own(u) \in 0 .. 1 /\ Cardinality(Threads) \in Nat
  BY RefsIs
<1>6. /\ Cardinality(Holders(u)') = Cardinality(Holders(u)) - 1
      /\ IsFiniteSet(Holders(u)') /\ Cardinality(Holders(u)') \in Nat
  BY <1>3, <1>5, FS_RemoveElement, FS_CardinalityType
<1>7. Refs(u)' = Refs(u) - 1
  <2>1. Refs(u)' = Cardinality(Holders(u)') + Own(u)'
    BY DEF Refs, Holders, Own
  <2> QED
    BY <1>4, <1>5, <1>6, <2>1
<1>8. /\ refcount[u] >= Refs(u) /\ refcount[u] \in 0 .. Cardinality(Threads) + 1
      /\ Live(u) => refcount[u] = Refs(u)
  BY <1>1, <1>2 DEF CountOk, LifeTypes
<1>9. ASSUME NEW v \in Threads, doing'[v] = "store", target'[v] = u
      PROVE  loaded'[v] >= Refs(u)'
  <2>1. loaded'[v] >= Refs(u) /\ loaded'[v] \in 0 .. Cardinality(Threads) + 1
    BY <1>1, <1>9 DEF CountOk, LifeTypes
  <2> QED
    BY <1>5, <1>7, <2>1
<1>10. /\ refcount'[u] \in 0 .. Cardinality(Threads) + 1 /\ refcount'[u] >= Refs(u)'
       /\ Live(u) => refcount'[u] = Refs(u)'
  BY <1>5, <1>6, <1>7, <1>8
<1>11. CountOk(u)'
  <2>1. Live(u)' <=> Live(u)
    BY DEF Live
  <2>2. Live(u) /\ u \in joined => \E v \in Threads : Joins(v)' /\ target'[v] = u
    BY <1>1 DEF CountOk, Joins
  <2> QED
    BY <1>2, <1>9, <1>10, <2>1, <2>2 DEF CountOk
<1>12. ASSUME refcount[u] = 1
       PROVE  pc[u] = "exited" /\ \A v \in Threads \ {t} : target[v] # u
  <2>1. Own(u) = 0 /\ Cardinality(Holders(u)') = 0
    BY <1>5, <1>6, <1>8, <1>12
  <2>2. Holders(u)' = {}
    BY <1>6, <2>1, FS_EmptySet
  <2>3. pc[u] = "exited"
    <3>1. ~Live(u)
      BY <1>1, <2>1 DEF Own, CountOk, Joins, Live
    <3> QED
      BY <1>2, <3>1 DEF Live
  <2>4. u \in joined /\ \A v \in Threads : target[v] # u \/ doing[v] = "ps"
    <3>1. ~detached[u]
      BY <1>1, <1>2, <2>3 DEF BlockOk
    <3> QED
      BY <2>1, <3>1 DEF Own
  <2>5. \A v \in Threads \ {t} : ~(target[v] = u /\ doing[v] = "ps")
    BY <2>2 DEF Holders
  <2> QED
    BY <2>3, <2>4, <2>5
<1> QED
  BY <1>10, <1>11, <1>12

\* A further step of ps: retain the next thread, release the one before.
LEMMA LifeNextThread ==
  ASSUME IInv, NEW t \in PsReaders, thread_get_next(t)
  PROVE  IInv'
<1>1. /\ Core /\ LifeOk /\ LifeTypes /\ t \in Threads /\ Threads \subseteq Schedulable
      /\ state \in [Schedulable -> States] /\ prio \in [Schedulable -> Prios]
      /\ pc \in [Threads -> {"none", "run", "sleep", "sleept", "until", "lock", "exited"}]
      /\ \A x \in Threads : BlockOk(x) /\ CallOk(x) /\ CountOk(x)
  BY LifeConstants DEF IInv, LifeOk, Core, CoreTypes, Schedulable
<1>2. PICK u \in Threads : u = target[t] /\ isThread[u]
  BY <1>1, DistinctConstants DEF thread_get_next, CallOk, LifeTypes
<1>3. PICK n \in Threads \cup {Nobody} :
        n = NextOf(u) /\ n # u /\ (n # Nobody => Live(n))
  BY <1>1, NextListed, DistinctConstants
<1>4. /\ doing[t] = "ps" /\ pc[t] = "run" /\ Unlocked
      /\ target' = [target EXCEPT ![t] = n]
      /\ doing' = [doing EXCEPT ![t] = IF n = Nobody THEN "nothing" ELSE "ps"]
      /\ LET r == IF n = Nobody THEN refcount ELSE [refcount EXCEPT ![n] = @ + 1]
         IN  /\ refcount' = [r EXCEPT ![u] = @ - 1]
             /\ IF r[u] = 1 THEN isThread' = [isThread EXCEPT ![u] = FALSE] /\ Queues(u)
                            ELSE UNCHANGED <<isThread, queues>>
      /\ UNCHANGED <<current, waiters, mutexes, frames, timers, waking, pend, switch,
                     detached, allthreads, loaded, joined>>
  BY <1>2, <1>3 DEF thread_get_next, Queues, Calls, ThreadLevel
<1>5. /\ refcount'[u] = refcount[u] - 1
      /\ n # Nobody => refcount'[n] = refcount[n] + 1
      /\ \A x \in Threads \ {u, n} : refcount'[x] = refcount[x]
      /\ refcount' \in [Threads -> Int]
      /\ refcount[u] = 1 => isThread' = [isThread EXCEPT ![u] = FALSE] /\ Queues(u)
      /\ refcount[u] # 1 => UNCHANGED <<isThread, queues>>
  <2>1. refcount \in [Threads -> Int] /\ \A x \in Threads : refcount[x] \in Int
    <3>1. Cardinality(Threads) \in Nat
      BY RefsIs
    <3>2. 0 .. Cardinality(Threads) + 1 \subseteq Int
      BY <3>1
    <3> QED
      BY <1>1, <3>2 DEF LifeTypes
  <2>2. CASE n = Nobody
    BY <1>4, <2>1, <2>2, DistinctConstants
  <2>3. CASE n # Nobody
    BY <1>3, <1>4, <2>1, <2>3
  <2> QED
    BY <2>2, <2>3
<1>6. UNCHANGED <<pc, running>>
  BY <1>4 DEF frames, switch
<1>7. /\ target'[t] = n /\ doing'[t] = IF n = Nobody THEN "nothing" ELSE "ps"
      /\ \A v \in Threads \ {t} : doing'[v] = doing[v] /\ target'[v] = target[v]
  BY <1>1, <1>4 DEF LifeTypes
<1>8. /\ refcount'[u] \in 0 .. Cardinality(Threads) + 1 /\ CountOk(u)'
      /\ refcount[u] = 1 => pc[u] = "exited" /\ \A v \in Threads \ {t} : target[v] # u
  BY <1>1, <1>2, <1>3, <1>4, <1>5, <1>6, <1>7, Drops
<1>9. n # Nobody => refcount'[n] \in 0 .. Cardinality(Threads) + 1 /\ CountOk(n)'
  <2>1. ~Joins(t)
    BY <1>4 DEF Joins
  <2> QED
    BY <1>1, <1>2, <1>3, <1>4, <1>5, <1>6, <1>7, <2>1, Retains
<1>10. refcount[u] = 1 => state[u] = "ZOMBIE" /\ ~detached[u]
  BY <1>1, <1>2, <1>8 DEF BlockOk
<1>11. Core'
  <2>1. CASE refcount[u] = 1
    <3>1. /\ pc' = [pc EXCEPT ![u] = pc[u]] /\ pend' \in BOOLEAN
          /\ UNCHANGED <<current, waiters, mutexes, on, relock, timers, waking, switch>>
      BY <1>1, <1>4, <1>6 DEF frames, Core, CoreTypes
    <3>2. Queues(u) /\ state[u] \notin {"READY", "SLEEPING"} /\ pc[u] \notin {"none", "until", "sleept"}
      BY <1>5, <1>8, <1>10, <2>1
    <3> QED
      BY <1>1, <1>4, <3>1, <3>2, CoreRelease
  <2>2. CASE refcount[u] # 1
    <3>1. UNCHANGED vars
      BY <1>4, <1>5, <2>2 DEF vars
    <3> QED
      BY <1>1, <3>1, CoreNext
  <2> QED
    BY <2>1, <2>2
<1>12. /\ \A x \in Threads \ {u} : /\ state'[x] = state[x] /\ prio'[x] = prio[x]
                                   /\ isThread'[x] = isThread[x]
       /\ refcount[u] = 1 => state'[u] = "READY" /\ prio'[u] = 1 /\ ~isThread'[u]
       /\ refcount[u] # 1 =>
            state'[u] = state[u] /\ prio'[u] = prio[u] /\ isThread'[u] = isThread[u]
       /\ isThread' \in [Threads \cup {Idle} -> BOOLEAN]
  <2>1. CASE refcount[u] = 1
    BY <1>1, <1>5, <2>1 DEF Queues, LifeTypes
  <2>2. CASE refcount[u] # 1
    BY <1>1, <1>5, <2>2 DEF queues, LifeTypes
  <2> QED
    BY <2>1, <2>2
<1>13. \A x \in Threads : Live(x)' <=> Live(x)
  BY <1>6 DEF Live
<1>14. LifeTypes'
  <2>1. \A x \in Threads : refcount'[x] \in 0 .. Cardinality(Threads) + 1
    <3>1. \A x \in Threads : refcount[x] \in 0 .. Cardinality(Threads) + 1
      BY <1>1 DEF LifeTypes
    <3> QED
      BY <1>5, <1>8, <1>9, <3>1, DistinctConstants
  <2>2. refcount' \in [Threads -> 0 .. Cardinality(Threads) + 1]
    BY <1>5, <2>1
  <2> QED
    BY <1>1, <1>4, <1>6, <1>12, <1>13, <2>2 DEF LifeTypes
<1>15. ASSUME NEW x \in Threads
       PROVE  BlockOk(x)' /\ CallOk(x)' /\ CountOk(x)'
  <2>1. BlockOk(x)'
    <3>1. CASE x = u
      <4>1. running # u /\ detached[u] \in Detach /\ pc[u] # "none"
        BY <1>1, <1>2 DEF BlockOk
      <4>2. refcount[u] # 1 => (pc[u] = "exited" => refcount'[u] > 0)
        <5>1. pc[u] = "exited" => refcount[u] > 0
          BY <1>1, <1>2 DEF BlockOk
        <5>2. Cardinality(Threads) \in Nat /\ refcount[u] \in 0 .. Cardinality(Threads) + 1
          BY <1>1, RefsIs DEF LifeTypes
        <5> QED
          BY <1>5, <5>1, <5>2
      <4>3. refcount[u] = 1 => refcount'[u] = 0
        BY <1>5
      <4> QED
        BY <1>1, <1>2, <1>4, <1>6, <1>8, <1>12, <3>1, <4>1, <4>2, <4>3 DEF BlockOk, Live
    <3>2. CASE x = n /\ x # u
      BY <1>1, <1>3, <1>4, <1>6, <1>12, <3>2, DistinctConstants DEF BlockOk, Live
    <3>3. CASE x # n /\ x # u
      BY <1>1, <1>4, <1>5, <1>6, <1>12, <3>3, BlockSame
    <3> QED
      BY <3>1, <3>2, <3>3
  <2>2. CallOk(x)'
    <3>1. CASE x = t
      <4>1. Live(t)' /\ (n # Nobody => isThread'[n])
        BY <1>1, <1>3, <1>4, <1>12, <1>13 DEF Live, BlockOk
      <4> QED
        BY <1>4, <1>7, <3>1, <4>1 DEF CallOk, Joins
    <3>2. CASE x # t
      <4>1. target[x] \in Threads => (isThread[target[x]] => isThread'[target[x]])
        BY <1>8, <1>12, <3>2
      <4>2. \A v \in Threads : Joins(x) /\ Joins(v)' /\ target'[v] = target[x] =>
              Joins(v) /\ target[v] = target[x]
        BY <1>7 DEF Joins
      <4> QED
        BY <1>1, <1>4, <1>6, <1>7, <1>13, <3>2, <4>1, <4>2, CallSame
    <3> QED
      BY <3>1, <3>2
  <2>3. CASE x # u /\ x # n
    <3>1. Refs(x)' = Refs(x)
      BY <1>2, <1>4, <1>6, <1>7, <2>3, RefsSame
    <3>2. CountOk(x)'
      BY <1>1, <1>2, <1>4, <1>5, <1>6, <1>7, <1>13, <2>3, <3>1, CountSame DEF Joins
    <3> QED
      BY <2>1, <2>2, <3>2
  <2> QED
    BY <1>8, <1>9, <2>1, <2>2, <2>3, DistinctConstants
<1> QED
  BY <1>11, <1>14, <1>15 DEF IInv, LifeOk

-----------------------------------------------------------------------------
(* The invariant, and what follows from it *)

\* Before the first thread is created.
LEMMA LifeStarts == LifeInit => IInv
<1> SUFFICES ASSUME LifeInit PROVE IInv
  OBVIOUS
<1>1. Core
  BY CoreInit DEF LifeInit
<1>2. \A u \in Threads : pc[u] = "none" /\ running = Nobody
  BY DEF LifeInit, Init
<1>3. LifeTypes
  <2>1. Cardinality(Threads) \in Nat
    BY LifeConstants, FS_CardinalityType
  <2>2. /\ refcount \in [Threads -> 0 .. Cardinality(Threads) + 1]
        /\ loaded \in [Threads -> 0 .. Cardinality(Threads) + 1]
    BY <2>1 DEF LifeInit
  <2>3. /\ allthreads \in Seq(Threads) /\ IsInjective(allthreads)
        /\ ToSet(allthreads) = {u \in Threads : Live(u)}
    BY <1>2 DEF LifeInit, Live, ToSet, IsInjective
  <2>4. running \in Threads \cup {Nobody}
    BY DEF LifeInit, Init
  <2> QED
    BY <1>2, <2>2, <2>3, <2>4 DEF LifeInit, LifeTypes
<1>4. ASSUME NEW u \in Threads
      PROVE  BlockOk(u) /\ CallOk(u) /\ CountOk(u)
  <2>1. BlockOk(u)
    BY <1>2, DistinctConstants DEF LifeInit, BlockOk, Live
  <2>2. CallOk(u)
    BY DEF LifeInit, CallOk, Joins
  <2>3. CountOk(u)
    BY <1>2 DEF LifeInit, CountOk, Live
  <2> QED
    BY <2>1, <2>2, <2>3
<1> QED
  BY <1>1, <1>3, <1>4 DEF IInv, LifeOk

\* Every step keeps the invariant.
LEMMA LifeSteps ==
  ASSUME PsSafe, IInv, [LifeNext]_lvars
  PROVE  IInv'
<1>1. CASE \E t \in Threads, p \in Requested, d \in Detach : create(t, p, d)
  BY <1>1, LifeCreate
<1>2. ASSUME NEW t \in Threads,
             \/ ExitDetached(t) \/ ExitJoinable(t) \/ JoinSleep(t) \/ JoinSees(t)
             \/ JoinLoad(t) \/ JoinStore(t)
             \/ thread_exit2_frees(t) \/ thread_exit2_retries(t)
      PROVE  IInv'
  BY <1>2, LifeExitDetached, LifeExitJoinable, LifeJoinSleep, LifeJoinLoads, LifeJoinStore,
     LifeExit2
<1>3. CASE \E t, u \in Threads : JoinStart(t, u)
  BY <1>3, LifeJoinStart
<1>4. CASE \E t \in PsReaders : thread_get_first(t) \/ thread_get_next(t)
  BY <1>4, LifeFirst, LifeNextThread
<1>5. CASE LifeSwitch
  BY <1>5, LifeSwitches
<1>6. CASE OtherSteps
  BY <1>6, LifeOther
<1>7. CASE UNCHANGED lvars
  <2>1. UNCHANGED <<vars, life>>
    BY <1>7 DEF lvars
  <2>2. Core'
    BY <2>1, CoreNext DEF IInv
  <2>3. UNCHANGED <<pc, state, prio, running>>
    BY <2>1 DEF vars, queues, frames, switch
  <2>4. \A u \in Threads : (Live(u)' <=> Live(u)) /\ pc'[u] # "sleept"
    BY <2>3 DEF Live, IInv, LifeOk, LifeTypes
  <2>5. LifeOk'
    BY <2>1, <2>3, <2>4, LifeQuiet DEF IInv
  <2> QED
    BY <2>2, <2>5 DEF IInv
<1> QED
  BY <1>1, <1>2, <1>3, <1>4, <1>5, <1>6, <1>7 DEF LifeNext

\* The lists of the scheduler, the blocks, the calls and the counts are sound in
\* every reachable state, for any number of threads, joiners and ps commands,
\* unless ps and detached threads are used together.
THEOREM LifeInductive ==
  ASSUME PsSafe
  PROVE  LifeSpec => []IInv
<1>1. IInv /\ [LifeNext]_lvars => IInv'
  BY LifeSteps
<1> QED
  BY <1>1, LifeStarts, PTL DEF LifeSpec

\* A thread that has not exited has a reference of its own.
LEMMA LiveOwns ==
  ASSUME LifeOk, NEW u \in Threads, Live(u)
  PROVE  Own(u) = 1 /\ isThread[u] /\ refcount[u] > 0
<1>1. BlockOk(u) /\ CountOk(u)
  BY DEF LifeOk
<1>2. Own(u) = 1
  BY <1>1 DEF Own, CountOk, Joins, Live
<1>3. refcount[u] = Refs(u)
  BY <1>1 DEF CountOk, Live
<1> QED
  BY <1>1, <1>2, <1>3, RefsIs DEF BlockOk

\* What NoUseAfterFree says of a block.
LEMMA FreeUnused == IInv => NoUseAfterFree
<1> SUFFICES ASSUME IInv, NEW u \in Threads, pc[u] = "none"
             PROVE  /\ \A p \in Prios : u \notin ToSet(readyq[p])
                    /\ \A w \in Lists : u \notin ToSet(waiters[w])
                    /\ u \notin ToSet(allthreads)
                    /\ \A t \in Threads : target[t] # u
                    /\ u \notin armed /\ clk # u
  BY DEF NoUseAfterFree
<1>1. state[u] = "NONE" /\ u \in Schedulable /\ u \notin armed /\ clk # u
  BY DEF IInv, Core, CoreControl, Schedulable
<1>2. \A p \in Prios : u \notin ToSet(readyq[p])
  BY <1>1 DEF IInv, Core, ReadyOnce, Queued
<1>3. \A w \in Lists : u \notin ToSet(waiters[w])
  BY <1>1 DEF IInv, Core, WaitingOnce, Enlisted
<1>4. u \notin ToSet(allthreads)
  BY DEF IInv, LifeOk, LifeTypes, Live
<1>5. \A t \in Threads : target[t] # u
  <2>1. ~isThread[u] /\ LifeOk
    BY DEF IInv, LifeOk, BlockOk
  <2> QED
    BY <2>1, NoTargets
<1> QED
  BY <1>1, <1>2, <1>3, <1>4, <1>5

\* A block that has been given back to the heap is linked nowhere, and no thread
\* joins it or stands on it.
THEOREM NoUseAfterFreeCorrect ==
  ASSUME PsSafe
  PROVE  LifeSpec => []NoUseAfterFree
BY LifeInductive, FreeUnused, PTL

\* sched.current: outside the switch its block exists, and the block of a
\* joinable thread keeps TASK_THREAD while it is current.
CurrentOk ==
  current # Idle => /\ pc[current] = "none" => insw
                    /\ detached[current] \/ isThread[current]

\* A step that leaves sched.current alone and frees nothing.
LEMMA CurrentSame ==
  ASSUME CurrentOk, UNCHANGED current, current # Idle => current \in Threads,
         \A u \in Threads : u = current => /\ pc'[u] = "none" => pc[u] = "none" \/ insw'
                                           /\ isThread[u] => isThread'[u]
                                           /\ detached[u] => detached'[u],
         insw => insw'
  PROVE  CurrentOk'
BY DEF CurrentOk

\* Every step keeps it: only a running thread creates, joins or inspects others,
\* so it is not itself what is created or released.
LEMMA CurrentStep ==
  ASSUME IInv, IInv', CurrentOk, [LifeNext]_lvars
  PROVE  CurrentOk'
<1>1. /\ current \in Threads \cup {Idle} /\ isThread \in [Threads \cup {Idle} -> BOOLEAN]
      /\ detached \in [Threads -> BOOLEAN] /\ Idle \notin Threads
      /\ pc \in [Threads -> {"none", "run", "sleep", "sleept", "until", "lock", "exited"}]
      /\ \A x \in Threads : BlockOk(x)'
  BY DistinctConstants DEF IInv, Core, CoreTypes, LifeOk, LifeTypes
<1>2. current # Idle => current \in Threads
  BY <1>1
<1>3. ASSUME current' # Idle => current' \in Threads /\ Live(current)'
      PROVE  CurrentOk'
  BY <1>1, <1>3 DEF CurrentOk, BlockOk, Live
<1>4. ASSUME UNCHANGED <<current, isThread, detached>>, insw => insw',
             \A u \in Threads : pc'[u] = "none" => pc[u] = "none" \/ insw'
      PROVE  CurrentOk'
  BY <1>2, <1>4, CurrentSame
<1>5. ASSUME NEW t \in Threads, NEW p \in Requested, NEW d \in Detach, create(t, p, d)
      PROVE  CurrentOk'
  <2>1. /\ UNCHANGED <<current, insw>> /\ pc[t] = "none"
        /\ pc' = [pc EXCEPT ![t] = "run"]
        /\ isThread' = [isThread EXCEPT ![t] = TRUE]
        /\ detached' = [detached EXCEPT ![t] = d]
        /\ Booting \/ \E u \in Threads : Calls(u)
    BY <1>5 DEF create, thread_create, switch
  <2>2. current # t
    BY <1>1, <2>1 DEF Booting, Calls
  <2> QED
    BY <1>1, <1>2, <2>1, <2>2, CurrentSame
<1>6. ASSUME NEW t \in Threads, ExitDetached(t)
      PROVE  CurrentOk'
  <2>1. /\ UNCHANGED <<current, detached>> /\ current = t /\ detached[t]
        /\ pc' = [pc EXCEPT ![t] = "exited"]
    BY <1>6 DEF ExitDetached, Free, Calls
  <2> QED
    BY <1>1, <2>1 DEF CurrentOk
<1>7. ASSUME NEW t \in Threads, JoinStore(t) \/ thread_get_next(t)
      PROVE  CurrentOk'
  <2>1. UNCHANGED <<current, pc>> /\ current = t /\ pc[t] = "run"
    BY <1>7 DEF JoinStore, thread_get_next, Calls, frames
  <2> QED
    BY <1>3, <2>1 DEF Live
<1>8. ASSUME NEW t \in Threads,
             \/ ExitJoinable(t) \/ JoinSees(t) \/ JoinLoad(t) \/ JoinSleep(t)
             \/ thread_get_first(t) \/ \E u \in Threads : JoinStart(t, u)
      PROVE  CurrentOk'
  <2>1. /\ UNCHANGED <<current, isThread, detached, insw>>
        /\ pc' = pc \/ \E c \in {"exited", "sleep"} : pc' = [pc EXCEPT ![t] = c]
    BY <1>8 DEF ExitJoinable, JoinSees, JoinLoad, JoinSleep, thread_get_first, JoinStart,
       task_sleep, life, vars, frames, switch
  <2>2. \A u \in Threads : pc'[u] = "none" => pc[u] = "none"
    BY <1>1, <2>1
  <2> QED
    BY <1>4, <2>1, <2>2
<1>9. ASSUME NEW k \in Threads, thread_exit2_frees(k) \/ thread_exit2_retries(k)
      PROVE  CurrentOk'
  <2>1. UNCHANGED <<current, isThread, detached, insw>> /\ insw
    BY <1>9 DEF thread_exit2_frees, thread_exit2_retries, InSwitch, life
  <2> QED
    BY <1>4, <2>1
<1>10. CASE LifeSwitch
  <2>0. UNCHANGED <<isThread, detached>>
    BY <1>10 DEF LifeSwitch, life
  <2>1. CASE SwitchEnter
    BY <1>4, <2>0, <2>1 DEF SwitchEnter, frames
  <2>2. ASSUME NEW t \in Threads \cup {Idle}, isThread[t], SwitchToThread(t)
        PROVE  CurrentOk'
    <3>1. current' = t /\ state' = [RequeuedState EXCEPT ![t] = "RUNNING"]
      BY <2>2 DEF SwitchToThread
    <3>2. t \in Threads => state'[t] = "RUNNING"
      <4>1. state \in [Schedulable -> States] /\ Threads \subseteq Schedulable
        BY DEF IInv, Core, CoreTypes, Schedulable
      <4> QED
        BY <3>1, <4>1 DEF RequeuedState
    <3>3. t \in Threads => Live(t)'
      BY <3>2 DEF IInv, Core, CoreControl, LifeOk, BlockOk, Live
    <3> QED
      BY <1>3, <2>2, <3>1, <3>3
  <2>3. ASSUME NEW t \in Threads, SwitchRunsTask(t)
        PROVE  CurrentOk'
    <3>1. UNCHANGED <<current, insw, pc>>
      BY <2>3 DEF SwitchRunsTask, Picks, frames
    <3> QED
      BY <1>4, <2>0, <3>1
  <2> QED
    BY <1>10, <2>1, <2>2, <2>3 DEF LifeSwitch
<1>11. CASE OtherSteps
  <2>1. UNCHANGED <<current, isThread, detached, insw>>
    BY <1>11 DEF OtherSteps, life, sleep_until, mutex_lock, mutex_unlock, SleepReturn,
       LockRetry, timer_dispatch, SleepTimeout, task_wakeup_next, WakeFirst, switch
  <2>2. pc' = pc \/ \E t \in Threads, c \in {"run", "until", "lock"} : pc' = [pc EXCEPT ![t] = c]
    BY <1>11 DEF OtherSteps, sleep_until, mutex_lock, mutex_unlock, SleepReturn,
       LockRetry, LockRound, timer_dispatch, SleepTimeout, task_wakeup_next, WakeFirst, frames
  <2>3. \A u \in Threads : pc'[u] = "none" => pc[u] = "none"
    BY <1>1, <2>2
  <2> QED
    BY <1>4, <2>1, <2>3
<1>12. CASE UNCHANGED lvars
  BY <1>4, <1>12 DEF lvars, life, vars, frames, switch
<1> QED
  BY <1>5, <1>6, <1>7, <1>8, <1>9, <1>10, <1>11, <1>12, LifeConstants DEF LifeNext

\* All variables have their types, nothing linked or referred to is free, and
\* the current thread's block is free only inside the switch that ends it.
THEOREM LifeInvCorrect ==
  ASSUME PsSafe
  PROVE  LifeSpec => []LifeInv
<1>1. IInv /\ CurrentOk => LifeInv
  <2> SUFFICES ASSUME IInv, CurrentOk PROVE LifeInv
    OBVIOUS
  <2>1. pc \in [Threads -> {"none", "run", "until", "sleep", "lock", "exited"}]
    <3>1. /\ pc \in [Threads -> {"none", "run", "sleep", "sleept", "until", "lock", "exited"}]
          /\ \A t \in Threads : pc[t] # "sleept"
      BY DEF IInv, Core, CoreTypes, LifeOk, LifeTypes
    <3> QED
      BY <3>1
  <2>2. LifeTypeOK
    BY <2>1 DEF IInv, Core, CoreTypes, LifeOk, LifeTypes, LifeTypeOK
  <2>3. CurrentExists
    BY <2>1 DEF CurrentExists, CurrentOk, IInv, Core, CoreTypes, LifeOk, BlockOk
  <2> QED
    BY <2>2, <2>3, FreeUnused DEF LifeInv
<1>2. LifeInit => CurrentOk
  BY DEF LifeInit, Init, CurrentOk
<1>3. IInv /\ IInv' /\ CurrentOk /\ [LifeNext]_lvars => CurrentOk'
  BY CurrentStep
<1> QED
  BY <1>1, <1>2, <1>3, LifeInductive, PTL DEF LifeSpec

\* A thread that still has code to execute keeps TASK_THREAD and a reference.
THEOREM OnlyExitedReleasedCorrect ==
  ASSUME PsSafe
  PROVE  LifeSpec => []OnlyExitedReleased
<1>1. IInv => OnlyExitedReleased
  BY LiveOwns DEF IInv, OnlyExitedReleased, Live
<1> QED
  BY <1>1, LifeInductive, PTL

\* A block whose last reference is gone is queued with priority 1, or its
\* thread_exit2 is called, however often the heap's mutex was busy.
THEOREM ReleasedIsQueuedCorrect ==
  ASSUME PsSafe
  PROVE  LifeSpec => []ReleasedIsQueued
<1>1. IInv => ReleasedIsQueued
  <2> SUFFICES ASSUME IInv, NEW u \in Threads, pc[u] = "exited", refcount[u] = 0
               PROVE  (u \in ToSet(readyq[1]) \/ running = u) /\ ~isThread[u]
    BY DEF ReleasedIsQueued
  <2>1. BlockOk(u) /\ u \in Schedulable /\ 1 \in Prios
    BY SchedConstants DEF IInv, LifeOk, Schedulable, Prios
  <2>2. ~isThread[u] /\ prio[u] = 1 /\ (state[u] = "READY" \/ running = u)
    BY <2>1 DEF BlockOk
  <2>3. state[u] = "READY" => u \in ToSet(readyq[1])
    BY <2>1, <2>2 DEF IInv, Core, ReadyOnce, Queued
  <2> QED
    BY <2>2, <2>3
<1> QED
  BY <1>1, LifeInductive, PTL

\* With thread_join's decrement torn and any number of ps commands in between,
\* a count is never below the references that are left, nor is the copy a joiner
\* is about to store; it is exact until the thread has exited.
THEOREM CountCoversCorrect ==
  ASSUME PsSafe
  PROVE  LifeSpec => []CountCovers
<1>1. IInv => CountCovers
  <2> SUFFICES ASSUME IInv PROVE CountCovers
    OBVIOUS
  <2>1. \A u \in Threads : CountOk(u)
    BY DEF IInv, LifeOk
  <2> QED
    BY <2>1 DEF CountOk, CountCovers, Live
<1> QED
  BY <1>1, LifeInductive, PTL

\* The panic in readyqueue_insert is not reached.
THEOREM NeverQueuedTwiceCorrect ==
  ASSUME PsSafe
  PROVE  LifeSpec => []NeverQueuedTwice
<1>1. IInv => NeverQueuedTwice
  <2> SUFFICES ASSUME IInv, NEW p \in Prios, NEW q \in Prios,
                      NEW i \in 1 .. Len(readyq[p]), NEW j \in 1 .. Len(readyq[q]),
                      readyq[p][i] = readyq[q][j]
               PROVE  p = q /\ i = j
    BY DEF NeverQueuedTwice
  <2>1. /\ readyq[p] \in Seq(Schedulable) /\ readyq[q] \in Seq(Schedulable)
        /\ Queued(readyq, state, prio)
    BY DEF IInv, Core, CoreTypes, ReadyOnce
  <2>2. PICK x \in Schedulable : x = readyq[p][i] /\ x \in ToSet(readyq[p]) /\ x \in ToSet(readyq[q])
    BY <2>1 DEF ToSet
  <2>3. p = q
    BY <2>1, <2>2 DEF Queued
  <2> QED
    BY <2>1, <2>3 DEF Queued, IsInjective
<1> QED
  BY <1>1, LifeInductive, PTL

-----------------------------------------------------------------------------
(* The heap's mutex *)

\* A step that changes the state of one thread which is not inside mutex_lock,
\* or nothing.
LEMMA OneSteady ==
  ASSUME Core, NEW u \in Threads, pc[u] # "lock", UNCHANGED <<lock, waiters, on>>,
         \A v \in Threads \ {u} : pc'[v] = pc[v] /\ state'[v] = state[v],
         NEW m \in Mutexes, Served(m)
  PROVE  Served(m)'
<1>1. Steady(m)
  BY AwakeSteady
<1> QED
  BY <1>1, SteadyServed

\* free_try in thread_exit2 releases the heap's mutex and wakes a thread that
\* waits for it.
LEMMA FreesServed ==
  ASSUME IInv, NEW k \in Threads, thread_exit2_frees(k), NEW m \in Mutexes, Served(m)
  PROVE  Served(m)'
<1>1. /\ Core /\ state \in [Schedulable -> States] /\ lock \in [Mutexes -> BOOLEAN]
      /\ pc \in [Threads -> {"none", "run", "sleep", "sleept", "until", "lock", "exited"}]
      /\ waiters \in [Lists -> Seq(Threads)] /\ Threads \subseteq Schedulable
      /\ HeapMutex \in Lists /\ HeapMutex \in Mutexes
  BY LifeConstants DEF IInv, Core, CoreTypes, Schedulable, Lists
<1>2. /\ ~lock[HeapMutex] /\ pc' = [pc EXCEPT ![k] = "none"] /\ UNCHANGED <<lock, on>>
      /\ running = k
  BY DEF thread_exit2_frees, mutexes
<1>3. pc[k] = "exited"
  BY <1>2 DEF IInv, LifeOk, BlockOk
<1>4. lock' = [lock EXCEPT ![HeapMutex] = FALSE]
  BY <1>1, <1>2
<1>5. \A u \in Threads : pc[u] = "lock" => pc'[u] = pc[u] /\ on'[u] = on[u]
  BY <1>1, <1>2, <1>3
<1>6. CASE waiters[HeapMutex] = <<>>
  <2>1. UNCHANGED <<state, waiters>>
    BY <1>6 DEF thread_exit2_frees
  <2>2. \A v \in Threads \ {k} : pc'[v] = pc[v] /\ state'[v] = state[v]
    BY <1>1, <1>2, <2>1
  <2> QED
    BY <1>1, <1>2, <1>3, <2>1, <2>2, OneSteady
<1>7. CASE waiters[HeapMutex] # <<>>
  <2>1. PICK v \in Threads : v = Head(waiters[HeapMutex])
    BY <1>1, <1>7, TailSet
  <2>2. /\ waiters' = [waiters EXCEPT ![HeapMutex] = Tail(@)]
        /\ state' = [state EXCEPT ![v] = "READY"]
    BY <1>7, <2>1 DEF thread_exit2_frees, readyqueue_insert
  <2>3. m # HeapMutex => waiters'[m] = waiters[m]
    BY <1>1, <2>2 DEF Lists
  <2>4. state'[v] = "READY" /\ \A u \in Threads : state'[u] \in {state[u], "READY"}
    BY <1>1, <2>2
  <2> QED
    BY <1>1, <1>3, <1>4, <1>5, <1>7, <2>1, <2>3, <2>4, UnlockServed
<1> QED
  BY <1>6, <1>7

\* Every step of the life cycle keeps the promise about every mutex.
LEMMA LifeServed ==
  ASSUME IInv, [LifeNext]_lvars, NEW m \in Mutexes, Served(m)
  PROVE  Served(m)'
<1>1. /\ Core /\ LifeOk /\ state \in [Schedulable -> States] /\ Threads \subseteq Schedulable
      /\ pc \in [Threads -> {"none", "run", "sleep", "sleept", "until", "lock", "exited"}]
      /\ \A x \in Threads : BlockOk(x) /\ CallOk(x)
  BY DEF IInv, LifeOk, Core, CoreTypes, Schedulable
<1>2. ASSUME [Next]_vars
      PROVE  Served(m)'
  BY <1>1, <1>2, ServedNext
<1>3. CASE \E t \in Threads, p \in Requested, d \in Detach : create(t, p, d)
  BY <1>2, <1>3 DEF create, Next
<1>4. ASSUME NEW t \in Threads, ExitDetached(t) \/ ExitJoinable(t)
      PROVE  Served(m)'
  <2>1. /\ pc[t] = "run" /\ pc' = [pc EXCEPT ![t] = "exited"]
        /\ UNCHANGED <<lock, waiters, on>>
    BY <1>4 DEF ExitDetached, ExitJoinable, Free, Calls, mutexes
  <2>2. \A v \in Threads \ {t} : state'[v] = state[v]
    BY <1>1, <1>4 DEF ExitDetached, ExitJoinable, Release, queues
  <2>3. \A v \in Threads \ {t} : pc'[v] = pc[v]
    BY <1>1, <2>1
  <2> QED
    BY <1>1, <2>1, <2>2, <2>3, OneSteady
<1>5. ASSUME NEW t \in Threads,
             \/ JoinSleep(t) \/ JoinSees(t) \/ JoinLoad(t)
             \/ \E u \in Threads : JoinStart(t, u)
             \/ t \in PsReaders /\ thread_get_first(t)
      PROVE  Served(m)'
  BY <1>2, <1>5, LifeConstants
     DEF JoinSleep, JoinSees, JoinLoad, JoinStart, thread_get_first, Next, ThreadStep
<1>6. ASSUME NEW t \in Threads, JoinStore(t) \/ thread_get_next(t)
      PROVE  Served(m)'
  <2>1. PICK u \in Threads : u = target[t] /\ isThread[u]
    BY <1>1, <1>6, DistinctConstants DEF JoinStore, thread_get_next, LifeOk, LifeTypes, CallOk
  <2>2. UNCHANGED <<lock, waiters, on, pc>>
    BY <1>6 DEF JoinStore, thread_get_next, mutexes, frames
  <2>3. state' = state \/ state' = [state EXCEPT ![u] = "READY"]
    BY <1>6, <2>1 DEF JoinStore, thread_get_next, Release, queues
  <2>4. CASE pc[u] # "lock"
    <3>1. \A v \in Threads \ {u} : pc'[v] = pc[v] /\ state'[v] = state[v]
      BY <1>1, <2>2, <2>3
    <3> QED
      BY <1>1, <2>2, <2>4, <3>1, OneSteady
  <2>5. CASE pc[u] = "lock"
    <3>1. \A v \in Threads : state'[v] \in {state[v], "READY"}
      BY <1>1, <2>3
    <3>2. Steady(m)
      BY <2>2, <3>1, AwakeSteady
    <3> QED
      BY <3>2, SteadyServed
  <2> QED
    BY <2>4, <2>5
<1>7. CASE LifeSwitch
  <2>1. CASE SwitchEnter \/ \E t \in Threads \cup {Idle} : SwitchToThread(t)
    BY <1>2, <2>1 DEF Next, SwitchStep
  <2>2. ASSUME NEW t \in Threads, ~isThread[t], SwitchRunsTask(t)
        PROVE  Served(m)'
    <3>1. UNCHANGED <<lock, waiters, on, pc>>
      BY <2>2 DEF SwitchRunsTask, Picks, mutexes, frames
    <3>2. pc[t] # "lock"
      BY <1>1, <2>2 DEF BlockOk, Live
    <3>3. \A v \in Threads \ {t} : state'[v] \in {state[v], "READY"}
      BY <1>1, <2>2 DEF SwitchRunsTask, RequeuedState
    <3>4. Steady(m)
      BY <3>1, <3>2, <3>3, AwakeSteady
    <3> QED
      BY <3>4, SteadyServed
  <2> QED
    BY <1>7, <2>1, <2>2 DEF LifeSwitch
<1>8. ASSUME NEW k \in Threads, thread_exit2_retries(k)
      PROVE  Served(m)'
  <2>1. UNCHANGED <<lock, waiters, on, pc>> /\ running = k
    BY <1>8 DEF thread_exit2_retries, mutexes, frames
  <2>2. \A v \in Threads \ {k} : state'[v] = state[v]
    BY <1>1, <1>8 DEF thread_exit2_retries, readyqueue_insert
  <2>3. pc[k] = "exited"
    BY <1>1, <2>1 DEF BlockOk
  <2> QED
    BY <1>1, <2>1, <2>2, <2>3, OneSteady
<1>9. ASSUME NEW k \in Threads, thread_exit2_frees(k)
      PROVE  Served(m)'
  BY <1>9, FreesServed
<1>10. CASE OtherSteps
  BY <1>2, <1>10, OtherIsNext
<1>11. CASE UNCHANGED lvars
  BY <1>2, <1>11 DEF lvars
<1> QED
  BY <1>3, <1>4, <1>5, <1>6, <1>7, <1>8, <1>9, <1>10, <1>11, LifeConstants DEF LifeNext

\* The heap's mutex and all others are never free with everybody who waits for
\* them asleep, although thread_exit2 takes and releases one without a thread.
THEOREM LifeNoLostUnlock ==
  ASSUME PsSafe
  PROVE  LifeSpec => []NoLostUnlock
<1>1. LifeInit => NoLostUnlock
  BY DEF LifeInit, Init, NoLostUnlock, Lists
<1>2. IInv /\ NoLostUnlock /\ [LifeNext]_lvars => NoLostUnlock'
  <2> SUFFICES ASSUME IInv, NoLostUnlock, [LifeNext]_lvars PROVE NoLostUnlock'
    OBVIOUS
  <2>1. \A m \in Mutexes : Served(m)'
    BY ServedAll, LifeServed
  <2> QED
    BY <2>1 DEF NoLostUnlock, Served, Takes
<1> QED
  BY <1>1, <1>2, LifeInductive, PTL DEF LifeSpec
=============================================================================
