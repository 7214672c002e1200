------------------------------- MODULE Sched -------------------------------
(***************************************************************************)
(* The MIOS kernel scheduler on one CPU: ready queues, the context switch, *)
(* sleeping on waitables with and without a deadline, mutexes, condition   *)
(* variables, non-thread tasks and software interrupts.                    *)
(*                                                                         *)
(* Code between irq_forbid(IRQ_LEVEL_SCHED) and the matching irq_permit or *)
(* irq_lower cannot be interrupted by anything that enters the scheduler,  *)
(* so each such section is one action.  The only section with a loop       *)
(* (task_wakeup of all waiters) is one action per iteration, and `waking'  *)
(* keeps everybody else out until it is over.  Four kinds of step          *)
(* interleave:                                                             *)
(*   - the current thread, when no switch is pending or in progress;       *)
(*   - interrupt handlers (task_wakeup, task_run, softirq_raise), always;  *)
(*   - the clock interrupt, which first unlinks a timer and then calls its *)
(*     callback: other interrupts may run in between;                      *)
(*   - the context switch (PendSV, the lowest interrupt priority), which   *)
(*     runs softirqs and non-thread tasks with interrupts permitted.       *)
(***************************************************************************)
EXTENDS Naturals, Sequences, FiniteSets, SequencesExt, TaskLists

CONSTANTS Threads,      \* thread_t blocks that can be in use
          Tasks,        \* plain task_t: a run function without a stack
          Idle,         \* the idle thread of the CPU
          Waitables,    \* task_waitable_t and cond_t objects
          Mutexes,      \* mutex_t objects
          SoftIrqs,     \* allocated softirq numbers
          TASK_PRIOS,   \* number of priority levels
          Requested,    \* prio arguments given to thread_create
          Nobody        \* the NULL pointer

ASSUME SchedConstants ==
  /\ TASK_PRIOS \in Nat /\ TASK_PRIOS > 1
  /\ Requested \subseteq Nat
  /\ SoftIrqs \subseteq Nat /\ IsFiniteSet(SoftIrqs)

ASSUME DistinctConstants ==
  /\ Threads \cap Tasks = {}
  /\ Idle \notin Threads \cup Tasks
  /\ Nobody \notin Threads \cup Tasks \cup {Idle}
  /\ Waitables \cap Mutexes = {}
  /\ Nobody \notin Waitables \cup Mutexes

VARIABLES
  current,    \* sched.current
  state,      \* t_state of every task
  prio,       \* t_prio of every task
  readyq,     \* sched.readyqueue, one FIFO per priority
  active,     \* sched.active_queues, the bit mask as a set
  waiters,    \* the wait list of every waitable and mutex
  lock,       \* bit 0 of mutex_t.lock
  holds,      \* the mutexes each thread has locked and not unlocked
  pc,         \* where a thread is: "run" or the call it sleeps in
  on,         \* the waitable or mutex of the call it sleeps in
  relock,     \* the mutex cond_wait takes again after the sleep
  armed,      \* threads whose on-stack timer is linked on the timer queue
  signalled,  \* threads whose timed sleep a task_wakeup has ended
  clk,        \* thread whose timer the clock interrupt has just unlinked
  waking,     \* waitable of the wake-all loop in progress
  pend,       \* PendSV is pending
  insw,       \* task_switch is executing
  softirq,    \* softirq_pending
  todo,       \* task_switch's local copy `pending'
  running     \* non-thread task whose t_run is executing

queues  == <<state, prio, readyq, active>>
mutexes == <<lock, holds>>
frames  == <<pc, on, relock>>
timers  == <<armed, signalled, clk>>
switch  == <<insw, softirq, todo, running>>
vars == <<current, queues, waiters, mutexes, frames, timers, waking, pend,
          switch>>

Schedulable == Threads \cup Tasks \cup {Idle}
Lists       == Waitables \cup Mutexes
Prios       == 0 .. TASK_PRIOS - 1

-----------------------------------------------------------------------------
(* Queue and list primitives *)

\* Mutant: the wait list is a plain FIFO.
FifoWaitList(w, t) == waiters' = [waiters EXCEPT ![w] = Append(@, t)]

task_insert_wait_list(w, t) ==
  waiters' = [waiters EXCEPT ![w] = SortedInsert(@, t, prio)]

LIST_REMOVE(w, t) == waiters' = [waiters EXCEPT ![w] = Unlink(@, t)]

readyqueue_insert(t) ==
  /\ readyq' = [readyq EXCEPT ![prio[t]] = Append(@, t)]
  /\ active' = active \cup {prio[t]}
  /\ state' = [state EXCEPT ![t] = "READY"]

\* A sleeper becomes runnable: onto its ready queue, unless it is the current
\* thread, which has not been switched away from yet and just goes on.
MakeRunnable(t) ==
  IF t # current
  THEN readyqueue_insert(t)
  ELSE /\ state' = [state EXCEPT ![t] = "RUNNING"]
       /\ UNCHANGED <<readyq, active>>

\* Mutant: nobody calls schedule().
SleepWithoutSwitch(t, w) ==
  /\ state' = [state EXCEPT ![t] = "SLEEPING"]
  /\ task_insert_wait_list(w, t)
  /\ UNCHANGED pend

\* The first half of every sleep: mark the current thread and enlist it.  The
\* loop around schedule() and irq_lower() is the pending switch.
SleepOn(t, w) ==
  /\ state' = [state EXCEPT ![t] = "SLEEPING"]
  /\ task_insert_wait_list(w, t)
  /\ pend' = TRUE

-----------------------------------------------------------------------------
(* Who may take a step *)

\* Nobody is inside a section that forbids IRQ_LEVEL_SCHED.
Unlocked == waking = Nobody

\* The CPU executes thread code: no interrupt is active, no switch is pending.
ThreadLevel == Unlocked /\ ~insw /\ ~pend /\ clk = Nobody

\* Thread t executes ordinary code and may call the kernel.
Calls(t) == ThreadLevel /\ current = t /\ state[t] = "RUNNING" /\ pc[t] = "run"

\* The boot code runs on the idle thread's stack before the first switch.
Booting == Unlocked /\ current = Idle /\ state[Idle] = "ZOMBIE" /\ ~insw

-----------------------------------------------------------------------------
(* Thread creation *)

\* prio &= TASK_PRIO_MASK, and 0 is reserved for the idle thread.
EffectivePrio(p) == IF p % TASK_PRIOS = 0 THEN 1 ELSE p % TASK_PRIOS

thread_create(t, p) ==
  /\ Booting \/ \E u \in Threads : Calls(u)
  /\ pc[t] = "none"
  /\ prio' = [prio EXCEPT ![t] = EffectivePrio(p)]
  /\ state' = [state EXCEPT ![t] = "READY"]
  /\ readyq' = [readyq EXCEPT ![EffectivePrio(p)] = Append(@, t)]
  /\ active' = active \cup {EffectivePrio(p)}
  /\ pc' = [pc EXCEPT ![t] = "run"]
  /\ pend' = TRUE
  /\ UNCHANGED <<current, waiters, mutexes, on, relock, timers, waking, switch>>

-----------------------------------------------------------------------------
(* Waking up, from a thread or from an interrupt handler *)

\* One iteration of the loop of task_wakeup_sched_locked.
WakeFirst(w) ==
  LET t == Head(waiters[w])
  IN  /\ waiters' = [waiters EXCEPT ![w] = Tail(@)]
      /\ MakeRunnable(t)
      /\ signalled' = IF pc[t] = "sleept" THEN signalled \cup {t} ELSE signalled
      /\ pend' = (pend \/ t = current \/ prio[t] >= prio[current])
      /\ UNCHANGED <<current, prio, mutexes, frames, armed, clk, switch>>

task_wakeup(w, all) ==
  /\ Unlocked
  /\ waiters[w] # <<>>
  /\ WakeFirst(w)
  /\ waking' = IF all /\ Len(waiters[w]) > 1 THEN w ELSE Nobody

task_wakeup_next ==
  /\ waking # Nobody
  /\ WakeFirst(waking)
  /\ waking' = IF Len(waiters[waking]) > 1 THEN waking ELSE Nobody

\* Mutant: the task is queued and no switch requested.
RunWithoutSwitch(k) ==
  /\ Unlocked
  /\ IF state[k] = "NONE" THEN readyqueue_insert(k)
                          ELSE UNCHANGED <<readyq, active, state>>
  /\ UNCHANGED <<current, prio, waiters, mutexes, frames, timers, waking, pend, switch>>

\* Only a task that is idle is queued; one that is queued or running its
\* function is left to it, but a switch is requested in every case.
task_run(k) ==
  /\ Unlocked
  /\ IF state[k] = "NONE" THEN readyqueue_insert(k)
                          ELSE UNCHANGED <<readyq, active, state>>
  /\ pend' = TRUE
  /\ UNCHANGED <<current, prio, waiters, mutexes, frames, timers, waking, switch>>

\* Mutant: the pending bit is set and no switch requested.
RaiseWithoutSwitch(i) ==
  /\ softirq' = softirq \cup {i}
  /\ UNCHANGED <<current, queues, waiters, mutexes, frames, timers, waking, pend,
                 insw, todo, running>>

\* May come from interrupts that IRQ_LEVEL_SCHED does not hold off.
softirq_raise(i) ==
  /\ softirq' = softirq \cup {i}
  /\ pend' = TRUE
  /\ UNCHANGED <<current, queues, waiters, mutexes, frames, timers, waking,
                 insw, todo, running>>

-----------------------------------------------------------------------------
(* Sleeping *)

task_sleep(t, w) ==
  /\ Calls(t)
  /\ SleepOn(t, w)
  /\ pc' = [pc EXCEPT ![t] = "sleep"]
  /\ on' = [on EXCEPT ![t] = w]
  /\ UNCHANGED <<current, prio, readyq, active, mutexes, relock, timers, waking,
                 switch>>

\* task_sleep_delta is the same call with a relative deadline.
task_sleep_deadline(t, w) ==
  /\ Calls(t)
  /\ SleepOn(t, w)
  /\ armed' = armed \cup {t}
  /\ pc' = [pc EXCEPT ![t] = "sleept"]
  /\ on' = [on EXCEPT ![t] = w]
  /\ UNCHANGED <<current, prio, readyq, active, mutexes, relock, signalled, clk,
                 waking, switch>>

\* usleep and sleep are the same call with a relative deadline.  The thread is
\* on no wait list: only its timer can wake it.
sleep_until(t) ==
  /\ Calls(t)
  /\ state' = [state EXCEPT ![t] = "SLEEPING"]
  /\ armed' = armed \cup {t}
  /\ pc' = [pc EXCEPT ![t] = "until"]
  /\ pend' = TRUE
  /\ UNCHANGED <<current, prio, readyq, active, waiters, mutexes, on, relock,
                 signalled, clk, waking, switch>>

-----------------------------------------------------------------------------
(* Mutexes and condition variables *)

\* One round of the loop of mutex_lock_sched_locked by the running thread t.
LockRound(t, m) ==
  IF lock[m]
  THEN /\ SleepOn(t, m)
       /\ pc' = [pc EXCEPT ![t] = "lock"]
       /\ on' = [on EXCEPT ![t] = m]
       /\ UNCHANGED mutexes
  ELSE /\ lock' = [lock EXCEPT ![m] = TRUE]
       /\ holds' = [holds EXCEPT ![t] = @ \cup {m}]
       /\ pc' = [pc EXCEPT ![t] = "run"]
       /\ on' = [on EXCEPT ![t] = Nobody]
       /\ UNCHANGED <<state, waiters, pend>>

\* The compare-and-swap of the fast path succeeds only in states where the
\* slow path's first round gets the lock too.
mutex_lock(t, m) ==
  /\ Calls(t) /\ m \notin holds[t]
  /\ LockRound(t, m)
  /\ UNCHANGED <<current, prio, readyq, active, relock, timers, waking, switch>>

\* A failed attempt returns non-zero and changes nothing.
mutex_trylock(t, m) ==
  /\ Calls(t) /\ m \notin holds[t]
  /\ ~lock[m]
  /\ lock' = [lock EXCEPT ![m] = TRUE]
  /\ holds' = [holds EXCEPT ![t] = @ \cup {m}]
  /\ UNCHANGED <<current, queues, waiters, frames, timers, waking, pend, switch>>

\* Mutant: the lock is freed and the waiters left asleep.
UnlockWakesNobody(t, m) ==
  /\ Calls(t) /\ m \in holds[t]
  /\ lock' = [lock EXCEPT ![m] = FALSE]
  /\ holds' = [holds EXCEPT ![t] = @ \ {m}]
  /\ UNCHANGED <<current, queues, waiters, frames, timers, waking, pend, switch>>

\* The lock bit is cleared and the first waiter made ready; the lock is not
\* handed over.
mutex_unlock(t, m) ==
  /\ Calls(t) /\ m \in holds[t]
  /\ lock' = [lock EXCEPT ![m] = FALSE]
  /\ holds' = [holds EXCEPT ![t] = @ \ {m}]
  /\ IF waiters[m] = <<>>
     THEN UNCHANGED <<readyq, active, state, waiters, pend>>
     ELSE LET u == Head(waiters[m])
          IN  /\ waiters' = [waiters EXCEPT ![m] = Tail(@)]
              /\ readyqueue_insert(u)
              /\ pend' = (pend \/ prio[u] >= prio[current])
  /\ UNCHANGED <<current, prio, frames, timers, waking, switch>>

\* mutex_unlock_sched_locked, then the sleep, in one section: nobody can
\* signal c between the two.
CondSleep(t, c, m) ==
  /\ Calls(t) /\ m \in holds[t]
  /\ lock' = [lock EXCEPT ![m] = FALSE]
  /\ holds' = [holds EXCEPT ![t] = @ \ {m}]
  /\ IF waiters[m] = <<>>
     THEN /\ state' = [state EXCEPT ![t] = "SLEEPING"]
          /\ waiters' = [waiters EXCEPT ![c] = SortedInsert(@, t, prio)]
          /\ UNCHANGED <<readyq, active>>
     ELSE LET u == Head(waiters[m])
          IN  /\ state' = [state EXCEPT ![u] = "READY", ![t] = "SLEEPING"]
              /\ waiters' = [waiters EXCEPT ![m] = Tail(@),
                                            ![c] = SortedInsert(@, t, prio)]
              /\ readyq' = [readyq EXCEPT ![prio[u]] = Append(@, u)]
              /\ active' = active \cup {prio[u]}
  /\ pend' = TRUE
  /\ on' = [on EXCEPT ![t] = c]
  /\ relock' = [relock EXCEPT ![t] = m]
  /\ UNCHANGED <<current, prio, signalled, clk, waking, switch>>

cond_wait(t, c, m) ==
  /\ CondSleep(t, c, m)
  /\ pc' = [pc EXCEPT ![t] = "sleep"]
  /\ UNCHANGED armed

cond_wait_timeout(t, c, m) ==
  /\ CondSleep(t, c, m)
  /\ pc' = [pc EXCEPT ![t] = "sleept"]
  /\ armed' = armed \cup {t}

-----------------------------------------------------------------------------
(* Coming back from a sleep *)

\* The thread has been switched to and its loop finds it no longer SLEEPING.
Resumes(t) == ThreadLevel /\ current = t /\ state[t] = "RUNNING"

\* The timer is disarmed (the result of task_sleep_deadline is whether it had
\* already gone) and a cond_wait goes for its mutex in the same section.
SleepReturn(t) ==
  /\ Resumes(t)
  /\ pc[t] \in {"sleep", "sleept", "until"}
  /\ armed' = armed \ {t}
  /\ signalled' = signalled \ {t}
  /\ relock' = [relock EXCEPT ![t] = Nobody]
  /\ IF relock[t] # Nobody
     THEN LockRound(t, relock[t])
     ELSE /\ pc' = [pc EXCEPT ![t] = "run"]
          /\ on' = [on EXCEPT ![t] = Nobody]
          /\ UNCHANGED <<state, waiters, mutexes, pend>>
  /\ UNCHANGED <<current, prio, readyq, active, clk, waking, switch>>

\* Mutant: a thread woken by mutex_unlock takes the lock as handed over.
RetryUntested(t) ==
  /\ Resumes(t)
  /\ pc[t] = "lock"
  /\ lock' = [lock EXCEPT ![on[t]] = TRUE]
  /\ holds' = [holds EXCEPT ![t] = @ \cup {on[t]}]
  /\ pc' = [pc EXCEPT ![t] = "run"]
  /\ on' = [on EXCEPT ![t] = Nobody]
  /\ UNCHANGED <<current, queues, waiters, relock, timers, waking, pend, switch>>

\* A thread woken by mutex_unlock tests the lock bit again.
LockRetry(t) ==
  /\ Resumes(t)
  /\ pc[t] = "lock"
  /\ LockRound(t, on[t])
  /\ UNCHANGED <<current, prio, readyq, active, relock, timers, waking, switch>>

-----------------------------------------------------------------------------
(* The clock interrupt *)

\* Mutant: the timer is unlinked and its callback forgotten.
DispatchForgets(t) ==
  /\ Unlocked /\ clk = Nobody
  /\ t \in armed
  /\ armed' = armed \ {t}
  /\ UNCHANGED <<current, queues, waiters, mutexes, frames, signalled, clk, waking,
                 pend, switch>>

\* Mutant: the timer is called back and stays linked.
DispatchKeepsLink(t) ==
  /\ Unlocked /\ clk = Nobody
  /\ t \in armed
  /\ clk' = t
  /\ UNCHANGED <<current, queues, waiters, mutexes, frames, armed, signalled, waking,
                 pend, switch>>

\* timer_dispatch unlinks an expired timer ...
timer_dispatch(t) ==
  /\ Unlocked /\ clk = Nobody
  /\ t \in armed
  /\ armed' = armed \ {t}
  /\ clk' = t
  /\ UNCHANGED <<current, queues, waiters, mutexes, frames, signalled, waking,
                 pend, switch>>

\* Mutant: the callback does not look whether a wakeup came first.
TimeoutUntested(t) ==
  /\ Unlocked /\ clk = t
  /\ clk' = Nobody
  /\ IF pc[t] = "sleept" THEN LIST_REMOVE(on[t], t) ELSE UNCHANGED waiters
  /\ MakeRunnable(t)
  /\ pend' = TRUE
  /\ UNCHANGED <<current, prio, mutexes, frames, armed, signalled, waking, switch>>

\* ... and calls its callback: task_sleep_abs_sched_locked_timeout, which does
\* nothing when a wakeup came first, or task_sleep_until_timeout.
SleepTimeout(t) ==
  /\ Unlocked /\ clk = t
  /\ clk' = Nobody
  /\ IF state[t] = "SLEEPING"
     THEN /\ IF pc[t] = "sleept" THEN LIST_REMOVE(on[t], t)
                                 ELSE UNCHANGED waiters
          /\ MakeRunnable(t)
          /\ pend' = TRUE
     ELSE UNCHANGED <<readyq, active, state, waiters, pend>>
  /\ UNCHANGED <<current, prio, mutexes, frames, armed, signalled, waking, switch>>

-----------------------------------------------------------------------------
(* The context switch *)

\* PendSV is taken as soon as no other interrupt is active.
SwitchEnter ==
  /\ Unlocked /\ clk = Nobody
  /\ pend /\ ~insw
  /\ insw' = TRUE
  /\ pend' = FALSE
  /\ todo' = softirq
  /\ softirq' = {}
  /\ UNCHANGED <<current, queues, waiters, mutexes, frames, timers, waking,
                 running>>

\* PendSV is the lowest priority: it makes progress only while no other
\* interrupt is being served.
InSwitch == insw /\ Unlocked /\ clk = Nobody

\* The handlers' own calls into the scheduler are the actions above.
SoftIrqRun(i) ==
  /\ InSwitch
  /\ i \in todo /\ \A j \in todo : j <= i
  /\ todo' = todo \ {i}
  /\ UNCHANGED <<current, queues, waiters, mutexes, frames, timers, waking, pend,
                 insw, softirq, running>>

\* The ready queues after the current thread, if it should go on running, has
\* been put at the tail of its own.
Requeued == IF state[current] = "RUNNING"
            THEN [readyq EXCEPT ![prio[current]] = Append(@, current)]
            ELSE readyq
RequeuedActive == IF state[current] = "RUNNING"
                  THEN active \cup {prio[current]}
                  ELSE active
RequeuedState == IF state[current] = "RUNNING"
                 THEN [state EXCEPT ![current] = "READY"]
                 ELSE state

\* Mutant: the lowest priority first (ctz for clz).
BottomOf(A) == CHOOSE p \in A : \A q \in A : p <= q

\* 31 - clz(active_queues)
TopOf(A) == CHOOSE p \in A : \A q \in A : q <= p

\* One iteration of the loop of task_switch that finds task k.
Picks(k) ==
  /\ InSwitch /\ todo = {} /\ running = Nobody
  /\ IF RequeuedActive = {}
     THEN /\ k = Idle
          /\ readyq' = Requeued /\ active' = {}
     ELSE LET top == TopOf(RequeuedActive)
          IN  /\ k = Head(Requeued[top])
              /\ readyq' = [Requeued EXCEPT ![top] = Tail(@)]
              /\ active' = IF Len(Requeued[top]) = 1
                           THEN RequeuedActive \ {prio[k]}
                           ELSE RequeuedActive
  /\ UNCHANGED <<prio, waiters, mutexes, frames, timers, waking, pend, softirq,
                 todo>>

SwitchToThread(t) ==
  /\ Picks(t)
  /\ state' = [RequeuedState EXCEPT ![t] = "RUNNING"]
  /\ current' = t
  /\ insw' = FALSE
  /\ UNCHANGED running

SwitchRunsTask(k) ==
  /\ Picks(k)
  /\ state' = [RequeuedState EXCEPT ![k] = "NONE"]
  /\ running' = k
  /\ UNCHANGED <<current, insw>>

TaskReturns ==
  /\ InSwitch /\ running # Nobody
  /\ running' = Nobody
  /\ UNCHANGED <<current, queues, waiters, mutexes, frames, timers, waking, pend,
                 insw, softirq, todo>>

-----------------------------------------------------------------------------
(* The specification *)

\* sched_cpu_init: only the idle thread exists and its stack runs the boot
\* code; static tasks are idle with the priority of their initialiser.
Init ==
  /\ current = Idle
  /\ state = [t \in Schedulable |-> IF t = Idle THEN "ZOMBIE" ELSE "NONE"]
  /\ prio \in [Schedulable -> Prios]
  /\ \A t \in Threads \cup {Idle} : prio[t] = 0
  /\ readyq = [p \in Prios |-> <<>>]
  /\ active = {}
  /\ waiters = [w \in Lists |-> <<>>]
  /\ lock = [m \in Mutexes |-> FALSE]
  /\ holds = [t \in Threads |-> {}]
  /\ pc = [t \in Threads |-> "none"]
  /\ on = [t \in Threads |-> Nobody]
  /\ relock = [t \in Threads |-> Nobody]
  /\ armed = {} /\ signalled = {} /\ clk = Nobody
  /\ waking = Nobody
  /\ pend = FALSE /\ insw = FALSE
  /\ softirq = {} /\ todo = {} /\ running = Nobody

ThreadStep(t) ==
  \/ \E w \in Waitables : task_sleep(t, w) \/ task_sleep_deadline(t, w)
  \/ sleep_until(t)
  \/ \E m \in Mutexes : \/ mutex_lock(t, m) \/ mutex_trylock(t, m)
                        \/ mutex_unlock(t, m)
                        \/ \E c \in Waitables : \/ cond_wait(t, c, m)
                                                \/ cond_wait_timeout(t, c, m)
  \/ SleepReturn(t)
  \/ LockRetry(t)

IrqStep ==
  \/ \E w \in Waitables, all \in BOOLEAN : task_wakeup(w, all)
  \/ task_wakeup_next
  \/ \E k \in Tasks : task_run(k)
  \/ \E i \in SoftIrqs : softirq_raise(i)
  \/ \E t \in Threads : timer_dispatch(t) \/ SleepTimeout(t)

SwitchStep ==
  \/ SwitchEnter
  \/ \E i \in SoftIrqs : SoftIrqRun(i)
  \/ \E t \in Threads \cup {Idle} : SwitchToThread(t)
  \/ \E k \in Tasks : SwitchRunsTask(k)
  \/ TaskReturns

Next ==
  \/ \E t \in Threads, p \in Requested : thread_create(t, p)
  \/ \E t \in Threads : ThreadStep(t)
  \/ IrqStep
  \/ SwitchStep

Spec == Init /\ [][Next]_vars

\* Interrupts that are pending are taken, a loop under the scheduler lock ends,
\* timers that are armed expire and a thread that is switched to executes
\* (both strongly fair: the timer queue is ordered by deadline, so only so many
\* timers come first, and interrupts keep disabling and enabling a thread).
\* Nothing is assumed of what threads and interrupt handlers choose to call.
Fairness ==
  /\ WF_vars(SwitchStep)
  /\ WF_vars(task_wakeup_next)
  /\ \A t \in Threads : /\ SF_vars(timer_dispatch(t))
                        /\ WF_vars(SleepTimeout(t))
                        /\ SF_vars(SleepReturn(t) \/ LockRetry(t))

FairSpec == Spec /\ Fairness

-----------------------------------------------------------------------------
(* Invariants *)

States == {"NONE", "READY", "RUNNING", "SLEEPING", "ZOMBIE"}

\* The type of every variable.
TypeOK ==
  /\ current \in Threads \cup {Idle}
  /\ state \in [Schedulable -> States]
  /\ prio \in [Schedulable -> Prios]
  /\ readyq \in [Prios -> Seq(Schedulable)]
  /\ active \subseteq Prios
  /\ waiters \in [Lists -> Seq(Threads)]
  /\ lock \in [Mutexes -> BOOLEAN]
  /\ holds \in [Threads -> SUBSET Mutexes]
  /\ pc \in [Threads -> {"none", "run", "sleep", "sleept", "until", "lock"}]
  /\ on \in [Threads -> Lists \cup {Nobody}]
  /\ relock \in [Threads -> Mutexes \cup {Nobody}]
  /\ armed \subseteq Threads /\ signalled \subseteq Threads
  /\ clk \in Threads \cup {Nobody}
  /\ waking \in Waitables \cup {Nobody}
  /\ pend \in BOOLEAN /\ insw \in BOOLEAN
  /\ softirq \subseteq SoftIrqs /\ todo \subseteq SoftIrqs
  /\ running \in Tasks \cup {Nobody}

\* Only the current thread is marked RUNNING; states and program counters of
\* threads, tasks and the idle thread fit together; a wake-all loop has a waiter
\* left; and the timer of a timed sleep, which lives on the sleeper's stack, is
\* linked or about to be called back only while that stack frame exists.
Control ==
  /\ \A t \in Schedulable : state[t] = "RUNNING" => t = current
  /\ \A t \in Threads :
       /\ pc[t] = "none" <=> state[t] = "NONE"
       /\ state[t] # "ZOMBIE"
       /\ state[t] = "SLEEPING" => pc[t] # "run"
       /\ pc[t] = "lock" => on[t] \in Mutexes
       /\ t \in armed \/ clk = t => pc[t] \in {"sleept", "until"}
  /\ \A k \in Tasks : state[k] \in {"NONE", "READY"}
  /\ state[Idle] \in {"ZOMBIE", "READY", "RUNNING"}
  /\ waking # Nobody => waiters[waking] # <<>>

\* The tasks on the ready queues rq are the READY ones, each once and on the
\* queue of its priority.
Queued(rq, st, pri) ==
  /\ \A p \in Prios : IsInjective(rq[p])
  /\ \A p \in Prios : \A t \in ToSet(rq[p]) : st[t] = "READY" /\ pri[t] = p
  /\ \A t \in Schedulable : st[t] = "READY" => t \in ToSet(rq[pri[t]])

\* The ready-queue link and the wait-list link of a task share memory, so a
\* task that is linked twice corrupts both lists.  A task is on a ready queue,
\* the one of its priority, exactly when it is READY, and nowhere twice: this
\* is what readyqueue_insert and the sleep functions panic about.
ReadyOnce == Queued(readyq, state, prio)

\* The calls in which a thread may wait on w.
SleepPcs(w) == IF w \in Mutexes THEN {"lock"} ELSE {"sleep", "sleept"}

\* The threads on the wait lists wt are the sleepers, except those in
\* sleep_until, each once and on the list of the object its frame names.
Enlisted(wt, st, o, c) ==
  /\ \A w \in Lists : IsInjective(wt[w])
  /\ \A w \in Lists : \A t \in ToSet(wt[w]) :
       st[t] = "SLEEPING" /\ o[t] = w /\ c[t] \in SleepPcs(w)
  /\ \A t \in Threads : st[t] = "SLEEPING" /\ c[t] # "until" =>
       o[t] \in Lists /\ t \in ToSet(wt[o[t]])

\* A wait list holds only SLEEPING threads, each once, and each on the list of
\* the very object its frame names; a thread that is not SLEEPING, or sleeps
\* in sleep_until, is on none.
WaitingOnce == Enlisted(waiters, state, on, pc)

NonEmpty(rq) == {p \in Prios : rq[p] # <<>>}

\* active_queues is what task_switch trusts to find the head of a queue: its
\* bits are exactly the non-empty queues.
ActiveQueues == active = NonEmpty(readyq)

\* Strict priority scheduling: whenever thread code executes, no task of a
\* higher priority is ready.
HighestRuns ==
  ThreadLevel => \A t \in Schedulable : state[t] = "READY" => prio[t] <= prio[current]

\* A thread that has marked itself SLEEPING or has been overtaken never goes
\* on executing: only a RUNNING current thread reaches thread level.
NoSleepwalking ==
  ThreadLevel /\ ~Booting => state[current] = "RUNNING"

\* No two threads hold a mutex, and its lock bit says whether one does, across
\* the fast paths, barging, wakeups without hand-over and cond_wait.
MutualExclusion ==
  /\ \A t, u \in Threads : holds[t] \cap holds[u] # {} => t = u
  /\ \A m \in Mutexes : lock[m] <=> \E t \in Threads : m \in holds[t]

\* mutex_unlock wakes one waiter and does not hand over the lock.  Nobody is
\* forgotten: a free mutex with waiters has a woken thread on its way that will
\* take it, and wake the next one when it unlocks.
NoLostUnlock ==
  \A m \in Mutexes : ~lock[m] /\ waiters[m] # <<>> =>
    \E t \in Threads : pc[t] = "lock" /\ on[t] = m /\ state[t] \in {"READY", "RUNNING"}

\* Wait lists are kept in priority order, so a wakeup of one takes a thread of
\* the highest priority among those waiting.
WaitersSorted == \A w \in Lists : SortedByPrio(waiters[w], prio)

\* Nothing but its timer wakes a thread in sleep_until (its callback asserts
\* SLEEPING), so the timer is still to come for as long as the thread sleeps.
UntilHasTimer ==
  \A t \in Threads : pc[t] = "until" =>
    (state[t] = "SLEEPING" <=> t \in armed \/ clk = t)

\* A timed sleeper that nobody has woken keeps a timer that will.
TimedHasTimer ==
  \A t \in Threads : pc[t] = "sleept" /\ state[t] = "SLEEPING" => t \in armed \/ clk = t

\* The scheduler's data structure as a whole: types, ready queues, mask, wait
\* lists and what they say of states and program counters.  No part is
\* preserved without the others.
LinkInv == TypeOK /\ ReadyOnce /\ ActiveQueues /\ WaitingOnce /\ Control

-----------------------------------------------------------------------------
(* Action properties *)

\* task_sleep_deadline returns 0 only to a thread that task_wakeup has woken.
ZeroMeansWoken ==
  [][\A t \in Threads :
       pc[t] = "sleept" /\ pc'[t] # "sleept" /\ t \in armed => t \in signalled]_vars

\* task.h: "1 if the deadline expired (timeout), 0 if woken by task_wakeup()".
OneMeansTimeout ==
  [][\A t \in Threads :
       pc[t] = "sleept" /\ pc'[t] # "sleept" /\ t \notin armed => t \notin signalled]_vars

-----------------------------------------------------------------------------
(* Liveness *)

Highest(t) == \A u \in Schedulable \ {t} : prio[u] < prio[t]

\* A ready thread of the highest priority gets the CPU, whatever interrupts do,
\* and a task given to task_run has its function called once nothing of at
\* least its priority competes with it.
TopRuns ==
  \A t \in Threads \cup Tasks :
    state[t] = "READY" /\ Highest(t) ~> current = t \/ running = t \/ ~Highest(t)

\* A sleep with a deadline ends although nobody calls task_wakeup, provided
\* that interrupts leave some time to threads.
DeadlineEndsSleep ==
  []<>ThreadLevel =>
    \A t \in Threads : pc[t] \in {"sleept", "until"} /\ Highest(t)
                         ~> pc[t] \notin {"sleept", "until"} \/ ~Highest(t)

\* Every softirq raised, also while task_switch is already serving some, has
\* its handler called, provided that task_switch keeps returning: it collects
\* softirqs only on entry, and tasks that are run again and again hold it.
SoftIrqServed ==
  []<>~insw => \A i \in SoftIrqs : /\ i \in softirq ~> i \in todo
                                   /\ i \in todo ~> i \notin todo
============================================================================
