-------------------------------- MODULE Poll --------------------------------
(***************************************************************************)
(* poll(): a thread waits for several objects at once.  It links one task  *)
(* of its own, kept on its stack, into the wait list of every object while *)
(* it raises the interrupt level step by step, and then sleeps on a        *)
(* waitable of its own.  task_wakeup of an object finds such tasks among   *)
(* plain sleepers and passes the event on.                                 *)
(*                                                                         *)
(* Threads are preempted anywhere but inside poll's critical section       *)
(* (`section'); an interrupt is taken whenever its level is above the one  *)
(* the section has reached (`irql').                                       *)
(***************************************************************************)
EXTENDS TaskLists, FiniteSets, FiniteSetsExt

CONSTANTS
  Pollers,      \* threads that call poll
  Sleepers,     \* threads that sleep on one object
  Objects,      \* waitables
  Conds,        \* those polled as POLL_WAITABLE: signalled with the mutex held
  Level,        \* interrupt level of who wakes the object; SWITCH: a thread
  PollSet,      \* the array given to poll
  Interlock,    \* whether a mutex is given to poll
  Prio,         \* priorities of the Sleepers
  Garbage,      \* what t_prio of an uninitialised task may contain
  Env, Nobody

\* Levels rank from thread level up: irq_forbid keeps off its level and all
\* below it.  (The ports number them the other way round.)
OPEN == 0
SWITCH == 1
CLOCK == 2
SCHED == 3

Streams == Objects \ Conds
Threads == Pollers \cup Sleepers
Index == 1 .. Len(PollSet)

ASSUME PollConstants ==
  /\ Pollers \cap Sleepers = {} /\ {Env, Nobody} \cap (Threads \cup Objects) = {}
  /\ Env # Nobody
  /\ Conds \subseteq Objects /\ Level \in [Objects -> SWITCH .. SCHED]
  /\ \A c \in Conds : Level[c] = SWITCH
  /\ PollSet \in Seq(Objects \cup {Nobody})      \* Nobody: POLL_NONE
  /\ Interlock \in BOOLEAN /\ (Conds # {} => Interlock)
  /\ Prio \in [Sleepers -> Nat] /\ Garbage \subseteq Nat /\ Garbage # {}

VARIABLES
  pc,        \* where each thread is
  section,   \* the poller between irq_forbid(SWITCH) and its sleep or return
  irql,      \* the level it has raised to
  idx,       \* its loop variable i, from 1
  mutex,     \* owner of the interlock mutex
  list,      \* wait list of each object
  which,     \* wm_which, 0 for -1
  muxed,     \* indices whose wm_tasks are in MUXED_SLEEP
  timed,     \* pollers that gave a deadline
  expired,   \* pollers whose deadline ended their sleep (history)
  at,        \* the object a plain sleeper waits for
  asserted,  \* objects with something to report
  notify     \* objects whose thread has still to call task_wakeup

vars == <<pc, section, irql, idx, mutex, list, which, muxed, timed, expired,
          at, asserted, notify>>

Entries == [who : Threads, idx : Index \cup {0}, prio : Nat]
Plain(s) == [who |-> s, idx |-> 0, prio |-> Prio[s]]
Mux(p, i, g) == [who |-> p, idx |-> i, prio |-> g]

Init ==
  /\ pc = [t \in Threads |-> "idle"]
  /\ section = Nobody /\ irql = OPEN /\ idx = 1
  /\ mutex = Nobody
  /\ list = [o \in Objects |-> <<>>]
  /\ which = [p \in Pollers |-> 0]
  /\ muxed = [p \in Pollers |-> {}]
  /\ timed = {} /\ expired = {}
  /\ at = [s \in Sleepers |-> Nobody]
  /\ asserted = {} /\ notify = {}

-----------------------------------------------------------------------------
(* task_wakeup *)

\* What task_wakeup_sched_locked takes off the list of o: everything, or, when
\* it wakes one, all up to the first plain sleeper, since muxed tasks do not
\* count.
Taken(o, all) ==
  LET first == SelectInSeq(list[o], LAMBDA e : e.idx = 0)
  IN  IF all \/ first = 0 THEN list[o] ELSE SubSeq(list[o], 1, first)

\* Mutant: the index of the event is not recorded.
WakesUnrecorded(o, all) ==
  LET taken == Taken(o, all)
      mine(p) == {k \in 1 .. Len(taken) : taken[k].who = p /\ taken[k].idx # 0}
  IN  /\ list' = [list EXCEPT ![o] = SubSeq(@, Len(taken) + 1, Len(@))]
      /\ muxed' = [p \in Pollers |-> muxed[p] \ {taken[k].idx : k \in mine(p)}]
      /\ pc' = [t \in Threads |->
                 IF t \in Sleepers THEN IF Plain(t) \in ToSet(taken) THEN "woken" ELSE pc[t]
                 ELSE IF pc[t] = "asleep" /\ mine(t) # {} THEN "awake" ELSE pc[t]]
      /\ UNCHANGED which

\* Its muxed tasks become NONE, the first of a poll that has nothing to report
\* yet is recorded and wakes the poller if it sleeps already; plain sleepers
\* become ready.
Wake(o, all) ==
  LET taken == Taken(o, all)
      mine(p) == {k \in 1 .. Len(taken) : taken[k].who = p /\ taken[k].idx # 0}
      first(p) == which[p] = 0 /\ mine(p) # {}
  IN  /\ list' = [list EXCEPT ![o] = SubSeq(@, Len(taken) + 1, Len(@))]
      /\ muxed' = [p \in Pollers |-> muxed[p] \ {taken[k].idx : k \in mine(p)}]
      /\ which' = [p \in Pollers |-> IF first(p) THEN taken[Min(mine(p))].idx ELSE which[p]]
      /\ pc' = [t \in Threads |->
                 IF t \in Sleepers THEN IF Plain(t) \in ToSet(taken) THEN "woken" ELSE pc[t]
                 ELSE IF pc[t] = "asleep" /\ first(t) THEN "awake" ELSE pc[t]]

\* An interrupt handler has something for o and wakes its waiters.
Interrupt(o) ==
  /\ Level[o] > SWITCH /\ Level[o] > irql
  /\ asserted' = asserted \cup {o}
  /\ \E all \in BOOLEAN : Wake(o, all)
  /\ UNCHANGED <<section, irql, idx, mutex, timed, expired, at, notify>>

\* A thread does the same in two steps; for a condition it holds the mutex.
Produce(o) ==
  /\ Level[o] = SWITCH /\ section = Nobody /\ o \notin notify
  /\ o \in Conds => mutex = Nobody
  /\ mutex' = IF o \in Conds THEN Env ELSE mutex
  /\ asserted' = asserted \cup {o}
  /\ notify' = notify \cup {o}
  /\ UNCHANGED <<pc, section, irql, idx, list, which, muxed, timed, expired, at>>

Notify(o) ==
  /\ o \in notify /\ section = Nobody
  /\ \E all \in BOOLEAN : Wake(o, all)
  /\ notify' = notify \ {o}
  /\ mutex' = IF o \in Conds THEN Nobody ELSE mutex
  /\ UNCHANGED <<section, irql, idx, timed, expired, at, asserted>>

-----------------------------------------------------------------------------
(* poll *)

\* The caller looks at its conditions with the mutex held before it polls.
client_pending == asserted \cap Conds

Serve(p) ==
  /\ pc[p] = "idle" /\ section = Nobody /\ mutex = Nobody
  /\ client_pending # {}
  /\ asserted' = asserted \ client_pending
  /\ UNCHANGED <<pc, section, irql, idx, mutex, list, which, muxed, timed,
                 expired, at, notify>>

poll_enter(p) ==
  /\ pc[p] = "idle" /\ section = Nobody
  /\ Interlock => mutex = Nobody
  /\ client_pending = {}
  /\ mutex' = IF Interlock THEN p ELSE mutex
  /\ pc' = [pc EXCEPT ![p] = "enlist"]
  /\ section' = p /\ irql' = SWITCH /\ idx' = 1
  /\ which' = [which EXCEPT ![p] = 0]
  /\ muxed' = [muxed EXCEPT ![p] = {}]
  /\ expired' = expired \ {p}
  /\ UNCHANGED <<list, timed, at, asserted, notify>>

\* Mutant: the poll functions do not raise the level.
KeepsLevel(o) == irql

\* The poll functions of streams raise the level to that of their interrupt
\* before they look; a condition has none.
RaisedBy(o) == IF o \in Streams THEN Max({irql, Level[o]}) ELSE irql

InLoop(p) == section = p /\ idx \in Index

poll_none(p) ==
  /\ InLoop(p) /\ PollSet[idx] = Nobody
  /\ idx' = idx + 1
  /\ UNCHANGED <<pc, section, irql, mutex, list, which, muxed, timed, expired,
                 at, asserted, notify>>

poll_enlist(p) ==
  /\ InLoop(p) /\ PollSet[idx] # Nobody
  /\ LET o == PollSet[idx] IN
       /\ ~(o \in Streams /\ o \in asserted)
       /\ irql' = RaisedBy(o)
       /\ \E g \in Garbage : list' = [list EXCEPT ![o] = <<Mux(p, idx, g)>> \o @]
  /\ muxed' = [muxed EXCEPT ![p] = @ \cup {idx}]
  /\ idx' = idx + 1
  /\ UNCHANGED <<pc, section, mutex, which, timed, expired, at, asserted, notify>>

\* LIST_REMOVE of the tasks of p that are in MUXED_SLEEP.
Unenlisted(p, js) ==
  [o \in Objects |-> Without(list[o], {e \in ToSet(list[o]) : e.who = p /\ e.idx \in js})]

\* Mutant: the last task enlisted is not unwound.
UnwindsTooFew(p) ==
  /\ InLoop(p) /\ PollSet[idx] \in Streams \cap asserted
  /\ list' = Unenlisted(p, muxed[p] \cap 1 .. idx - 2)
  /\ which' = [which EXCEPT ![p] = idx]
  /\ muxed' = [muxed EXCEPT ![p] = {}]
  /\ pc' = [pc EXCEPT ![p] = "done"]
  /\ section' = Nobody /\ irql' = OPEN
  /\ UNCHANGED <<idx, mutex, timed, expired, at, asserted, notify>>

\* The poll function finds the event there: unwind and return at once, with
\* the mutex still held.
poll_asserted(p) ==
  /\ InLoop(p) /\ PollSet[idx] \in Streams \cap asserted
  /\ list' = Unenlisted(p, muxed[p] \cap 1 .. idx - 1)
  /\ which' = [which EXCEPT ![p] = idx]
  /\ muxed' = [muxed EXCEPT ![p] = {}]
  /\ pc' = [pc EXCEPT ![p] = "done"]
  /\ section' = Nobody /\ irql' = OPEN
  /\ UNCHANGED <<idx, mutex, timed, expired, at, asserted, notify>>

\* Mutant: the interlock mutex is not released.
SleepsWithMutex(p) ==
  /\ section = p /\ idx \notin Index
  /\ pc' = [pc EXCEPT ![p] = "asleep"]
  /\ \E b \in BOOLEAN : timed' = IF b THEN timed \cup {p} ELSE timed \ {p}
  /\ section' = Nobody /\ irql' = OPEN
  /\ UNCHANGED <<idx, mutex, list, which, muxed, expired, at, asserted, notify>>

\* irq_forbid(SCHED), mutex_unlock and the sleep, up to irq_lower.
poll_sleep(p) ==
  /\ section = p /\ idx \notin Index
  /\ mutex' = IF Interlock THEN Nobody ELSE mutex
  /\ pc' = [pc EXCEPT ![p] = "asleep"]
  /\ \E b \in BOOLEAN : timed' = IF b THEN timed \cup {p} ELSE timed \ {p}
  /\ section' = Nobody /\ irql' = OPEN
  /\ UNCHANGED <<idx, list, which, muxed, expired, at, asserted, notify>>

\* The clock interrupt ends the sleep.
poll_timeout(p) ==
  /\ pc[p] = "asleep" /\ p \in timed /\ irql < CLOCK
  /\ pc' = [pc EXCEPT ![p] = "awake"]
  /\ expired' = expired \cup {p}
  /\ UNCHANGED <<section, irql, idx, mutex, list, which, muxed, timed, at,
                 asserted, notify>>

\* Back from the sleep: unlink what no event has unlinked, and take the mutex
\* in the same section if it is free.
poll_resume(p) ==
  /\ pc[p] = "awake" /\ section = Nobody
  /\ list' = Unenlisted(p, muxed[p])
  /\ muxed' = [muxed EXCEPT ![p] = {}]
  /\ IF Interlock /\ mutex # Nobody
     THEN pc' = [pc EXCEPT ![p] = "relock"] /\ UNCHANGED mutex
     ELSE pc' = [pc EXCEPT ![p] = "done"] /\ mutex' = IF Interlock THEN p ELSE mutex
  /\ UNCHANGED <<section, irql, idx, which, timed, expired, at, asserted, notify>>

poll_relock(p) ==
  /\ pc[p] = "relock" /\ section = Nobody /\ mutex = Nobody
  /\ mutex' = p
  /\ pc' = [pc EXCEPT ![p] = "done"]
  /\ UNCHANGED <<section, irql, idx, list, which, muxed, timed, expired, at,
                 asserted, notify>>

\* The caller acts on the index it was given and releases the mutex.
Handle(p) ==
  /\ pc[p] = "done" /\ section = Nobody
  /\ asserted' = asserted \ {PollSet[i] : i \in Index \cap {which[p]}}
  /\ mutex' = IF Interlock THEN Nobody ELSE mutex
  /\ pc' = [pc EXCEPT ![p] = "idle"]
  /\ UNCHANGED <<section, irql, idx, list, which, muxed, timed, expired, at, notify>>

-----------------------------------------------------------------------------
(* Plain sleepers, as in a blocking read *)

\* LIST_INSERT_SORTED compares with whatever the muxed tasks contain.
task_sleep(s, o) ==
  /\ section = Nobody /\ o \in Streams \ asserted
  /\ \/ pc[s] = "idle"
     \/ pc[s] = "woken" /\ at[s] = o
  /\ list' = [list EXCEPT ![o] =
                SortedInsert(@, Plain(s), [e \in ToSet(@) \cup {Plain(s)} |-> e.prio])]
  /\ pc' = [pc EXCEPT ![s] = "sleep"]
  /\ at' = [at EXCEPT ![s] = o]
  /\ UNCHANGED <<section, irql, idx, mutex, which, muxed, timed, expired,
                 asserted, notify>>

Consume(s, o) ==
  /\ section = Nobody /\ o \in Streams \cap asserted
  /\ pc[s] = "idle" \/ (pc[s] = "woken" /\ at[s] = o)
  /\ asserted' = asserted \ {o}
  /\ pc' = [pc EXCEPT ![s] = "idle"]
  /\ UNCHANGED <<section, irql, idx, mutex, list, which, muxed, timed, expired,
                 at, notify>>

-----------------------------------------------------------------------------
PollStep(p) ==
  \/ poll_none(p) \/ poll_enlist(p) \/ poll_asserted(p) \/ poll_sleep(p)

Next ==
  \/ \E p \in Pollers :
       \/ Serve(p) \/ poll_enter(p)
       \/ poll_none(p) \/ poll_enlist(p) \/ poll_asserted(p) \/ poll_sleep(p)
       \/ poll_timeout(p) \/ poll_resume(p) \/ poll_relock(p) \/ Handle(p)
  \/ \E o \in Objects : Interrupt(o) \/ Produce(o) \/ Notify(o)
  \/ \E s \in Sleepers, o \in Objects : Consume(s, o) \/ task_sleep(s, o)

Spec == Init /\ [][Next]_vars

\* The section runs on, an armed timer expires, and a thread that can run
\* does so now and then; nothing is assumed of interrupts or of new polls.
Fairness ==
  /\ \A p \in Pollers :
       /\ WF_vars(PollStep(p)) /\ WF_vars(poll_timeout(p))
       /\ SF_vars(poll_resume(p) \/ poll_relock(p) \/ Handle(p))
  /\ \A o \in {q \in Objects : Level[q] = SWITCH} : SF_vars(Notify(o))
  /\ \A s \in Sleepers : SF_vars(pc[s] = "woken" /\ \E o \in Objects : Consume(s, o))

FairSpec == Spec /\ Fairness

-----------------------------------------------------------------------------
(* Properties *)

PollTypeOK ==
  /\ pc \in [Threads -> {"idle", "enlist", "asleep", "awake", "relock", "done",
                         "sleep", "woken"}]
  /\ section \in Pollers \cup {Nobody} /\ irql \in OPEN .. SCHED
  /\ idx \in 1 .. Len(PollSet) + 1
  /\ mutex \in Pollers \cup {Env, Nobody}
  /\ list \in [Objects -> Seq(Entries)]
  /\ which \in [Pollers -> Index \cup {0}]
  /\ muxed \in [Pollers -> SUBSET Index]
  /\ timed \subseteq Pollers /\ expired \subseteq Pollers
  /\ at \in [Sleepers -> Objects \cup {Nobody}]
  /\ asserted \subseteq Objects /\ notify \subseteq Objects

\* The calls during which the tasks of a poll exist: they are on its stack.
InPoll(p) == pc[p] \in {"enlist", "asleep", "awake"}

\* A task of a poll is linked, once and on the list of its object, exactly when
\* its t_state says so, and only while the call is active: the two clean-up
\* loops and task_wakeup never unlink twice, and nothing on a dead stack frame
\* stays linked.
StackTasksLinked ==
  /\ \A o \in Objects : \A e \in ToSet(list[o]) : e.idx # 0 =>
       InPoll(e.who) /\ e.idx \in muxed[e.who] /\ PollSet[e.idx] = o
  /\ \A p \in Pollers : \A i \in muxed[p] :
       Cardinality({k \in 1 .. Len(list[PollSet[i]]) :
                      /\ list[PollSet[i]][k].who = p
                      /\ list[PollSet[i]][k].idx = i}) = 1

\* The wait lists as a whole: types, and the entries that are on stacks.
PollInv == PollTypeOK /\ StackTasksLinked

\* No event is lost between the look at an object and the sleep: a poller that
\* sleeps while an object has something to report is about to be notified, or
\* a thread that was woken for that object is about to take it.
NoLostEvent ==
  \A p \in Pollers : pc[p] = "asleep" =>
    \A i \in Index : PollSet[i] \in asserted =>
      \/ PollSet[i] \in notify
      \/ \E s \in Sleepers : pc[s] = "woken" /\ at[s] = PollSet[i]

\* poll.h: "if timeout expired -1 will be returned".  It is returned for no
\* other reason, and not if an event has taken one of the call's tasks off a
\* list, be it after the deadline and before poll gets to its clean-up.
MinusOneMeansTimeout ==
  \A p \in Pollers : which[p] = 0 =>
    /\ pc[p] = "done" => p \in expired
    /\ pc[p] \in {"asleep", "awake"} => muxed[p] = {i \in Index : PollSet[i] # Nobody}

\* task.c: "Higher prio value -> earlier in list".  Among the plain sleepers of
\* an object the one of the highest priority is woken first.
SleepersInOrder ==
  \A o \in Objects :
    LET plain == SelectSeq(list[o], LAMBDA e : e.idx = 0)
    IN  \A i, j \in 1 .. Len(plain) : i < j => plain[i].prio >= plain[j].prio

\* A poll of an object with something to report does not stay asleep: it
\* returns, or others take everything it could report.  One condition and one
\* mutex serve all pollers, and task_wakeup may wake another of them.
Due(p) == pc[p] \in {"asleep", "awake", "relock"} /\ \E i \in Index : PollSet[i] \in asserted
EventEndsPoll == \A p \in Pollers : Due(p) ~> ~Due(p)
============================================================================
