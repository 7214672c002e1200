----------------------------- MODULE ThreadLife -----------------------------
(***************************************************************************)
(* The life of a thread_t block on top of the scheduler: thread_create,    *)
(* thread_exit, thread_join, the reference counting behind `ps'            *)
(* (thread_get_next) and the release of the block.  A block whose last     *)
(* reference is gone is turned into a non-thread task of priority 1 whose  *)
(* run function, thread_exit2, gives the memory back, or queues the block  *)
(* again while the heap's mutex is taken.                                  *)
(*                                                                         *)
(* thread_get_next and thread_exit forbid context switches                 *)
(* (IRQ_LEVEL_SWITCH) around the reference count.  thread_join does not:   *)
(* its decrement is a load and a store between which other threads run.    *)
(***************************************************************************)
EXTENDS Sched

CONSTANTS JoinWait,    \* join_wait
          HeapMutex,   \* heap_mutex of the allocator
          Detach,      \* values of TASK_DETACHED given to thread_create
          PsReaders    \* threads that run the ps command

ASSUME LifeConstants ==
  /\ JoinWait \in Waitables /\ HeapMutex \in Mutexes
  /\ Detach \subseteq BOOLEAN /\ PsReaders \subseteq Threads
  /\ IsFiniteSet(Threads)

VARIABLES
  isThread,    \* t_flags & TASK_THREAD
  detached,    \* t_flags & TASK_DETACHED
  refcount,    \* t_refcount
  allthreads,  \* the global thread list, newest first
  doing,       \* lifecycle call in progress in a thread
  target,      \* the thread it joins, or the one ps holds a reference to
  loaded,      \* thread_join's register copy of the reference count
  joined       \* blocks that some thread has joined or is joining

life == <<isThread, detached, refcount, allthreads, doing, target, loaded, joined>>
lvars == <<vars, life>>

\* Thread t may start a call.
Free(t) == Calls(t) /\ doing[t] = "nothing"

\* The new block is allocated under the heap's mutex: a creator that finds it
\* taken waits for it first, like every other user of the heap.
create(t, p, d) ==
  /\ thread_create(t, p)
  /\ \A u \in Threads : current = u => doing[u] = "nothing"
  /\ ~lock[HeapMutex]
  /\ isThread' = [isThread EXCEPT ![t] = TRUE]
  /\ detached' = [detached EXCEPT ![t] = d]
  /\ refcount' = [refcount EXCEPT ![t] = 1]
  /\ allthreads' = <<t>> \o allthreads
  /\ joined' = joined \ {t}
  /\ UNCHANGED <<doing, target, loaded>>

\* Mutant: the block is queued with the priority the thread had.
ReleaseKeepsPrio(u, n) ==
  /\ refcount' = [refcount EXCEPT ![u] = n]
  /\ IF n = 0
     THEN isThread' = [isThread EXCEPT ![u] = FALSE] /\ readyqueue_insert(u)
     ELSE UNCHANGED <<isThread, readyq, active, state>>
  /\ UNCHANGED prio

\* thread_release(u) when the count has become n.
Release(u, n) ==
  /\ refcount' = [refcount EXCEPT ![u] = n]
  /\ IF n = 0
     THEN /\ isThread' = [isThread EXCEPT ![u] = FALSE]
          /\ prio' = [prio EXCEPT ![u] = 1]
          /\ readyq' = [readyq EXCEPT ![1] = Append(@, u)]
          /\ active' = active \cup {1}
          /\ state' = [state EXCEPT ![u] = "READY"]
     ELSE UNCHANGED <<isThread, queues>>

\* Mutant: the block stays on allthreads.
ExitStaysListed(t) ==
  /\ Free(t) /\ holds[t] = {} /\ detached[t]
  /\ Release(t, refcount[t] - 1)
  /\ pc' = [pc EXCEPT ![t] = "exited"]
  /\ pend' = TRUE
  /\ UNCHANGED <<current, waiters, mutexes, on, relock, timers, waking, switch,
                 detached, allthreads, doing, target, loaded, joined>>

\* A detached thread drops its own reference; when another one remains, it
\* stays RUNNING and spins in the loop at the end of thread_exit.
ExitDetached(t) ==
  /\ Free(t) /\ holds[t] = {} /\ detached[t]
  /\ allthreads' = RemoveFirst(allthreads, t)
  /\ Release(t, refcount[t] - 1)
  /\ pc' = [pc EXCEPT ![t] = "exited"]
  /\ pend' = TRUE
  /\ UNCHANGED <<current, waiters, mutexes, on, relock, timers, waking, switch,
                 detached, doing, target, loaded, joined>>

\* Mutant: a joinable thread stays on allthreads, where ps still finds it.
ZombieStaysListed(t) ==
  /\ Free(t) /\ holds[t] = {} /\ ~detached[t]
  /\ state' = [state EXCEPT ![t] = "ZOMBIE"]
  /\ pc' = [pc EXCEPT ![t] = "exited"]
  /\ waking' = IF waiters[JoinWait] # <<>> THEN JoinWait ELSE Nobody
  /\ pend' = TRUE
  /\ UNCHANGED <<current, prio, readyq, active, waiters, mutexes, on, relock,
                 timers, switch, isThread, detached, refcount, allthreads, doing,
                 target, loaded, joined>>

\* A joinable thread becomes a ZOMBIE and wakes everybody in thread_join.
ExitJoinable(t) ==
  /\ Free(t) /\ holds[t] = {} /\ ~detached[t]
  /\ allthreads' = RemoveFirst(allthreads, t)
  /\ state' = [state EXCEPT ![t] = "ZOMBIE"]
  /\ pc' = [pc EXCEPT ![t] = "exited"]
  /\ waking' = IF waiters[JoinWait] # <<>> THEN JoinWait ELSE Nobody
  /\ pend' = TRUE
  /\ UNCHANGED <<current, prio, readyq, active, waiters, mutexes, on, relock,
                 timers, switch, isThread, detached, refcount, doing, target,
                 loaded, joined>>

-----------------------------------------------------------------------------
(* thread_join *)

\* Every joinable thread is joined once, by another thread.
JoinStart(t, u) ==
  /\ Free(t) /\ u # t
  /\ pc[u] # "none" /\ ~detached[u] /\ u \notin joined
  /\ doing' = [doing EXCEPT ![t] = "join"]
  /\ target' = [target EXCEPT ![t] = u]
  /\ joined' = joined \cup {u}
  /\ UNCHANGED <<vars, isThread, detached, refcount, allthreads, loaded>>

\* The loop tests for ZOMBIE and sleeps with context switches forbidden.
JoinSleep(t) ==
  /\ doing[t] = "join" /\ state[target[t]] # "ZOMBIE"
  /\ task_sleep(t, JoinWait)
  /\ UNCHANGED life

JoinSees(t) ==
  /\ Calls(t) /\ doing[t] = "join" /\ state[target[t]] = "ZOMBIE"
  /\ doing' = [doing EXCEPT ![t] = "load"]
  /\ UNCHANGED <<vars, isThread, detached, refcount, allthreads, target, loaded, joined>>

\* thread_release after irq_permit: t_refcount-- is a load ...
JoinLoad(t) ==
  /\ Calls(t) /\ doing[t] = "load"
  /\ loaded' = [loaded EXCEPT ![t] = refcount[target[t]]]
  /\ doing' = [doing EXCEPT ![t] = "store"]
  /\ UNCHANGED <<vars, isThread, detached, refcount, allthreads, target, joined>>

\* ... and a store.
JoinStore(t) ==
  /\ Calls(t) /\ doing[t] = "store"
  /\ Release(target[t], loaded[t] - 1)
  /\ doing' = [doing EXCEPT ![t] = "nothing"]
  /\ target' = [target EXCEPT ![t] = Nobody]
  /\ loaded' = [loaded EXCEPT ![t] = 0]
  /\ UNCHANGED <<current, waiters, mutexes, frames, timers, waking, pend, switch,
                 detached, allthreads, joined>>

-----------------------------------------------------------------------------
(* ps *)

\* The thread after u on the list; NULL when u is last or no longer listed.
NextOf(u) ==
  LET i == SelectInSeq(allthreads, LAMBDA v : v = u)
  IN  IF i = 0 \/ i = Len(allthreads) THEN Nobody ELSE allthreads[i + 1]

thread_get_first(t) ==
  /\ Free(t) /\ allthreads # <<>>
  /\ doing' = [doing EXCEPT ![t] = "ps"]
  /\ target' = [target EXCEPT ![t] = Head(allthreads)]
  /\ refcount' = [refcount EXCEPT ![Head(allthreads)] = @ + 1]
  /\ UNCHANGED <<vars, isThread, detached, allthreads, loaded, joined>>

\* Mutant: the next thread is not retained.
NextUnretained(t) ==
  /\ Calls(t) /\ doing[t] = "ps"
  /\ LET u == target[t]
         n == NextOf(u)
     IN  /\ target' = [target EXCEPT ![t] = n]
         /\ doing' = [doing EXCEPT ![t] = IF n = Nobody THEN "nothing" ELSE "ps"]
         /\ Release(u, refcount[u] - 1)
  /\ UNCHANGED <<current, waiters, mutexes, frames, timers, waking, pend, switch,
                 detached, allthreads, loaded, joined>>

\* Retain the next thread, then release the current one.
thread_get_next(t) ==
  /\ Calls(t) /\ doing[t] = "ps"
  /\ LET u == target[t]
         n == NextOf(u)
     IN  /\ target' = [target EXCEPT ![t] = n]
         /\ doing' = [doing EXCEPT ![t] = IF n = Nobody THEN "nothing" ELSE "ps"]
         /\ LET r == IF n = Nobody THEN refcount
                     ELSE [refcount EXCEPT ![n] = @ + 1]
            IN  /\ refcount' = [r EXCEPT ![u] = @ - 1]
                /\ IF r[u] = 1
                   THEN /\ isThread' = [isThread EXCEPT ![u] = FALSE]
                        /\ prio' = [prio EXCEPT ![u] = 1]
                        /\ readyq' = [readyq EXCEPT ![1] = Append(@, u)]
                        /\ active' = active \cup {1}
                        /\ state' = [state EXCEPT ![u] = "READY"]
                   ELSE UNCHANGED <<isThread, queues>>
  /\ UNCHANGED <<current, waiters, mutexes, frames, timers, waking, pend, switch,
                 detached, allthreads, loaded, joined>>

-----------------------------------------------------------------------------
(* The switch, with released blocks running as tasks *)

LifeSwitch ==
  /\ \/ SwitchEnter
     \/ \E t \in Threads \cup {Idle} : isThread[t] /\ SwitchToThread(t)
     \/ \E t \in Threads : ~isThread[t] /\ SwitchRunsTask(t)
  /\ UNCHANGED life

\* thread_exit2 when free_try gets the heap's mutex: the block is free, and
\* the unlock inside free_try wakes a thread that still waits for the mutex.
thread_exit2_frees(u) ==
  /\ InSwitch /\ running = u
  /\ ~lock[HeapMutex]
  /\ pc' = [pc EXCEPT ![u] = "none"]
  /\ running' = Nobody
  /\ IF waiters[HeapMutex] = <<>>
     THEN UNCHANGED <<readyq, active, state, waiters, pend>>
     ELSE LET v == Head(waiters[HeapMutex])
          IN  /\ waiters' = [waiters EXCEPT ![HeapMutex] = Tail(@)]
              /\ readyqueue_insert(v)
              /\ pend' = (pend \/ prio[v] >= prio[current])
  /\ UNCHANGED <<current, prio, mutexes, on, relock, timers, waking, insw, softirq,
                 todo, life>>

\* thread_exit2 when the mutex is taken: try again later.
thread_exit2_retries(u) ==
  /\ InSwitch /\ running = u
  /\ lock[HeapMutex]
  /\ readyqueue_insert(u)
  /\ running' = Nobody
  /\ UNCHANGED <<current, prio, waiters, mutexes, frames, timers, waking, pend,
                 insw, softirq, todo, life>>

-----------------------------------------------------------------------------
LifeInit ==
  /\ Init
  /\ isThread = [t \in Threads \cup {Idle} |-> t = Idle]
  /\ detached = [t \in Threads |-> FALSE]
  /\ refcount = [t \in Threads |-> 0]
  /\ allthreads = <<>>
  /\ doing = [t \in Threads |-> "nothing"]
  /\ target = [t \in Threads |-> Nobody]
  /\ loaded = [t \in Threads |-> 0]
  /\ joined = {}

\* What threads do between lifecycle calls: sleep, and use the heap.
OtherSteps ==
  /\ \/ \E t \in Threads :
          \/ doing[t] \in {"nothing", "ps"} /\ sleep_until(t)
          \/ doing[t] = "nothing" /\ mutex_lock(t, HeapMutex)
          \/ mutex_unlock(t, HeapMutex)
          \/ SleepReturn(t) \/ LockRetry(t)
          \/ timer_dispatch(t) \/ SleepTimeout(t)
     \/ task_wakeup_next
  /\ UNCHANGED life

LifeNext ==
  \/ \E t \in Threads, p \in Requested, d \in Detach : create(t, p, d)
  \/ \E t \in Threads : \/ ExitDetached(t) \/ ExitJoinable(t)
                        \/ JoinSleep(t) \/ JoinSees(t)
                        \/ JoinLoad(t) \/ JoinStore(t)
                        \/ thread_exit2_frees(t) \/ thread_exit2_retries(t)
  \/ \E t, u \in Threads : JoinStart(t, u)
  \/ \E t \in PsReaders : thread_get_first(t) \/ thread_get_next(t)
  \/ LifeSwitch
  \/ OtherSteps

LifeSpec == LifeInit /\ [][LifeNext]_lvars

-----------------------------------------------------------------------------
\* The type of every variable.
LifeTypeOK ==
  /\ current \in Threads \cup {Idle}
  /\ state \in [Schedulable -> States]
  /\ prio \in [Schedulable -> Prios]
  /\ pc \in [Threads -> {"none", "run", "until", "sleep", "lock", "exited"}]
  /\ running \in Threads \cup {Nobody}
  /\ isThread \in [Threads \cup {Idle} -> BOOLEAN] /\ detached \in [Threads -> BOOLEAN]
  /\ refcount \in [Threads -> 0 .. Cardinality(Threads) + 1]
  /\ doing \in [Threads -> {"nothing", "join", "load", "store", "ps"}]
  /\ target \in [Threads -> Threads \cup {Nobody}]
  /\ joined \subseteq Threads

\* The panic in readyqueue_insert: "Inserting task on readyqueue but it's
\* already there".  No task is linked twice on the ready queues.
NeverQueuedTwice ==
  \A p, q \in Prios : \A i \in 1 .. Len(readyq[p]), j \in 1 .. Len(readyq[q]) :
    readyq[p][i] = readyq[q][j] => p = q /\ i = j

\* A block that has been given back to the heap is linked nowhere, and no
\* thread joins it or holds a reference to it.  sched.current is the subject of
\* CurrentExists.
NoUseAfterFree ==
  \A u \in Threads : pc[u] = "none" =>
    /\ \A p \in Prios : u \notin ToSet(readyq[p])
    /\ \A w \in Lists : u \notin ToSet(waiters[w])
    /\ u \notin ToSet(allthreads)
    /\ \A t \in Threads : target[t] # u
    /\ u \notin armed /\ clk # u

\* sched.current: whenever the CPU executes a thread, its block has not been
\* freed.  The exception is the end of a detached thread: thread_exit2 frees the
\* block inside the very switch away from it, and that switch reads the block's
\* t_state again for its next task.  The block of a joinable thread is never
\* freed while it is current.
CurrentExists ==
  current # Idle /\ pc[current] = "none" => insw /\ detached[current]

\* The threads as a whole: types, nothing linked or referred to is free, and
\* neither is the current thread outside the switch that ends it.
LifeInv == LifeTypeOK /\ NoUseAfterFree /\ CurrentExists

\* Nobody but the holder of the last reference frees a thread, and only after
\* it has exited: a thread that still has code to execute keeps TASK_THREAD.
OnlyExitedReleased ==
  \A u \in Threads : pc[u] \notin {"none", "exited"} => isThread[u] /\ refcount[u] > 0

\* A block whose last reference is gone is on its way to thread_exit2, however
\* often the heap's mutex was busy: queued with priority 1, or running.
ReleasedIsQueued ==
  \A u \in Threads : pc[u] = "exited" /\ refcount[u] = 0 =>
    (u \in ToSet(readyq[1]) \/ running = u) /\ ~isThread[u]

\* References: one until the thread (when detached) or its joiner drops it,
\* and one for every ps that stands on the thread.
Refs(u) ==
  Cardinality({t \in Threads : target[t] = u /\ doing[t] = "ps"})
  + (IF detached[u] THEN IF pc[u] = "exited" THEN 0 ELSE 1
     ELSE IF u \in joined /\ \A t \in Threads : target[t] # u \/ doing[t] = "ps"
          THEN 0 ELSE 1)

\* A reference count may be too high but never too low, although thread_join
\* loads and stores it with ps in between: as long as ps can still find the
\* thread the count is exact, and the copy a joiner is about to store, less its
\* own reference, covers everybody who still stands on the block.  So a torn
\* decrement may leave a block behind but never frees one too early.
CountCovers ==
  \A u \in Threads : pc[u] # "none" =>
    /\ refcount[u] >= Refs(u)
    /\ pc[u] # "exited" => refcount[u] = Refs(u)
    /\ \A t \in Threads : doing[t] = "store" /\ target[t] = u => loaded[t] >= Refs(u)

\* task.h on thread_join: "The thread resources are freed after join
\* completes".  The count is exact, so the last one out releases the block: true
\* without ps, but with ps a torn decrement may leave the count too high.
RefcountExact == \A u \in Threads : pc[u] # "none" => refcount[u] = Refs(u)
=============================================================================
