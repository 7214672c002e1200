--------------------------- MODULE NetStreamsProofs ---------------------------
(***************************************************************************)
(* The buffers of the pool, the queue of net_tasks and the life of a       *)
(* channel, for any number of streams and buffers.                         *)
(***************************************************************************)
EXTENDS NetStreams, TaskListProofs

-----------------------------------------------------------------------------
(* The inductive invariant *)

Sigs == {"push", "pull", "close", "rx", "avail"}
Leaving == {"closing", "gone"}
Chan == [up : BOOLEAN, appc : 0 .. 2, netc : BOOLEAN, rx : 0 .. 1, tx : 0 .. FragMax,
         flushed : BOOLEAN, shutdown : BOOLEAN,
         pc : {"run", "read", "write", "bufwait", "wcond"} \cup Leaving,
         asleep : BOOLEAN, left : Nat]
Rec == [avail : Nat, sleepers : Seq(Streams), tasks : Seq(Tasks),
        sig : [Tasks -> SUBSET Sigs], cur : 0 .. FragMax, est : Seq(Channels),
        ch : [Streams -> Chan]]
Packet == [t : {"ack", "syn"}, s : {None}] \cup [t : {"data", "close", "open"}, s : Streams]
          \cup [t : {"bad"}, s : Channels]
NetRec == [pc : {"loop", "rx", "tx", "down", "resyn"} \cup Copying, s : Channels \cup {None},
           todo : Seq(Channels), hand : 0 .. 1]

\* The queue of net_tasks holds the tasks with signals, each once.
QueueOk(x) == ToSet(x.tasks) = {t \in Tasks : x.sig[t] # {}} /\ IsInjective(x.tasks)

\* A channel c with the signals S of its task.  A service raises its task only
\* before it has closed; the network thread answers the close by appc, and
\* frees the channel after that; a thread that is gone has freed its buffers
\* and is given none again; and a thread in pbuf_pool_get is in want of
\* its first buffer.
ChanOk(c, S) ==
  /\ c.netc = c.shutdown
  /\ ~c.up \/ c.appc # 0 => S = {} /\ c.pc \in Leaving
  /\ "close" \in S => c.pc \in Leaving
  /\ c.pc = "gone" => c.rx = 0 /\ c.tx = 0 /\ (c.up => c.netc)
  /\ c.pc = "bufwait" => c.tx = 0 /\ c.left # 0

RecOk(x) == x \in Rec /\ QueueOk(x) /\ \A s \in Streams : ChanOk(x.ch[s], x.sig[s])

\* What the network thread knows between two of its steps.
NetOk ==
  /\ net \in NetRec /\ cmcq \in Nat /\ lost \in Nat
  /\ net.pc \in {"loop", "rx"} => net.hand = 0
  /\ net.pc \in {"open", "close"} => net.s \in Streams
  /\ net.pc \in {"down", "resyn"} => net.todo \in Seq(Streams)
  /\ net.pc = "data" => /\ net.s \in Streams
                        /\ ch[net.s].up /\ ~ch[net.s].netc /\ ch[net.s].rx = 0

\* Buffers of the streams, and those with the network thread, on the
\* management channel and lost.
Load(c) == c.rx + c.tx
Held(c) == Cardinality(UNION {{s} \X (1 .. Load(c[s])) : s \in Streams})
Copy == IF net.pc \in Copying THEN 1 ELSE 0
Hands == net.hand + Copy + (cmcq + lost)
Busy == cur + Len(rxq) + Hands
Loose == avail + Busy
Buffers == Loose + Held(ch)

IInv == RecOk(All) /\ rxq \in Seq(Packet) /\ NetOk /\ Buffers = Bufs

-----------------------------------------------------------------------------
(* Buffers in streams *)

\* The buffers of one stream more, or fewer.
LEMMA HeldFinite ==
  ASSUME NEW c \in [Streams -> Chan], NEW S \in SUBSET Streams
  PROVE  /\ IsFiniteSet(UNION {{s} \X (1 .. Load(c[s])) : s \in S})
         /\ \A s \in Streams : /\ IsFiniteSet({s} \X (1 .. Load(c[s])))
                               /\ Cardinality({s} \X (1 .. Load(c[s]))) = Load(c[s])
<1>1. IsFiniteSet(S)
  BY NetConstants, FS_Subset
<1>2. \A s \in Streams : Load(c[s]) \in Nat
  BY NetConstants DEF Load, Chan
<1>3. ASSUME NEW s \in Streams
      PROVE  /\ IsFiniteSet({s} \X (1 .. Load(c[s])))
             /\ Cardinality({s} \X (1 .. Load(c[s]))) = Load(c[s])
  <2> DEFINE n == Load(c[s])
             A == {s}
             B == 1 .. n
  <2>1. n \in Nat
    BY <1>2
  <2>2. IsFiniteSet(A) /\ Cardinality(A) = 1
    BY FS_Singleton
  <2> HIDE DEF n
  <2>3. IsFiniteSet(B) /\ Cardinality(B) = n
    BY <2>1, FS_Interval
  <2> HIDE DEF A, B
  <2>4. IsFiniteSet(A \X B) /\ Cardinality(A \X B) = Cardinality(A) * Cardinality(B)
    BY <2>2, <2>3, FS_Product
  <2>5. Cardinality(A \X B) = n
    BY <2>1, <2>2, <2>3, <2>4
  <2> QED
    BY <2>4, <2>5 DEF A, B, n
<1> DEFINE P(s) == {s} \X (1 .. Load(c[s]))
           F == {P(s) : s \in S}
<1>4. \A T \in F : IsFiniteSet(T)
  BY <1>3
<1> HIDE DEF P
<1>5. IsFiniteSet(F)
  <2> DEFINE f == [s \in S |-> P(s)]
  <2>1. f \in Surjection(S, F)
    BY DEF Surjection
  <2> QED
    BY <1>1, <2>1, FS_Surjection
<1>6. IsFiniteSet(UNION F)
  BY <1>4, <1>5, FS_UNION
<1> QED
  BY <1>3, <1>6 DEF P

\* A step that changes the buffers of at most one stream.
LEMMA HeldChange ==
  ASSUME NEW c \in [Streams -> Chan], NEW d \in [Streams -> Chan], NEW s \in Streams,
         \A u \in Streams \ {s} : Load(d[u]) = Load(c[u])
  PROVE  /\ Held(c) \in Nat /\ Held(d) \in Nat
         /\ Held(d) + Load(c[s]) = Held(c) + Load(d[s])
<1> DEFINE R(e) == UNION {{u} \X (1 .. Load(e[u])) : u \in Streams \ {s}}
           P(e) == {s} \X (1 .. Load(e[s]))
           U(e) == UNION {{u} \X (1 .. Load(e[u])) : u \in Streams}
<1>1. R(d) = R(c)
  OBVIOUS
<1>2. ASSUME NEW e \in [Streams -> Chan]
      PROVE  /\ Held(e) = Cardinality(R(e)) + Load(e[s])
             /\ Held(e) \in Nat /\ Cardinality(R(e)) \in Nat /\ Load(e[s]) \in Nat
  <2>1. IsFiniteSet(R(e)) /\ IsFiniteSet(P(e)) /\ Cardinality(P(e)) = Load(e[s])
    BY HeldFinite
  <2>2. U(e) = R(e) \cup P(e) /\ R(e) \cap P(e) = {}
    OBVIOUS
  <2> HIDE DEF R, P
  <2>3. Cardinality(U(e)) = Cardinality(R(e)) + Cardinality(P(e)) - Cardinality({})
    BY <2>1, <2>2, FS_Union
  <2>4. Cardinality({}) = 0 /\ Cardinality(R(e)) \in Nat /\ Cardinality(P(e)) \in Nat
    BY <2>1, FS_EmptySet, FS_CardinalityType
  <2>5. Held(e) = Cardinality(U(e))
    BY DEF Held
  <2> QED
    BY <2>1, <2>3, <2>4, <2>5
<1> HIDE DEF R
<1>3. /\ Held(c) = Cardinality(R(c)) + Load(c[s]) /\ Held(c) \in Nat
      /\ Cardinality(R(c)) \in Nat /\ Load(c[s]) \in Nat
  BY <1>2
<1>4. /\ Held(d) = Cardinality(R(d)) + Load(d[s]) /\ Held(d) \in Nat /\ Load(d[s]) \in Nat
  BY <1>2
<1> QED
  BY <1>1, <1>3, <1>4

\* A step that changes none.
LEMMA HeldSame ==
  ASSUME NEW c \in [Streams -> Chan], NEW d \in [Streams -> Chan],
         \A u \in Streams : Load(d[u]) = Load(c[u])
  PROVE  Held(d) = Held(c) /\ Held(c) \in Nat
<1>1. Held(d) = Held(c)
  BY DEF Held
<1>2. IsFiniteSet(UNION {{s} \X (1 .. Load(c[s])) : s \in Streams})
  BY HeldFinite
<1> QED
  BY <1>1, <1>2, FS_CardinalityType DEF Held

-----------------------------------------------------------------------------
(* The record of the pool, the tasks and the streams *)

LEMMA AllIs ==
  /\ All.avail = avail /\ All.sleepers = sleepers /\ All.tasks = tasks /\ All.sig = sig
  /\ All.cur = cur /\ All.est = est /\ All.ch = ch
BY DEF All

LEMMA BecomesIs ==
  ASSUME NEW y \in Rec, Becomes(y)
  PROVE  /\ All' = y /\ ch' = y.ch /\ avail' = y.avail /\ cur' = y.cur
         /\ est' = y.est /\ sig' = y.sig /\ tasks' = y.tasks
<1>1. y = [avail |-> y.avail, sleepers |-> y.sleepers, tasks |-> y.tasks, sig |-> y.sig,
           cur |-> y.cur, est |-> y.est, ch |-> y.ch]
  BY DEF Rec
<1>2. All' = [avail |-> y.avail, sleepers |-> y.sleepers, tasks |-> y.tasks, sig |-> y.sig,
              cur |-> y.cur, est |-> y.est, ch |-> y.ch]
  BY DEF Becomes, All
<1> QED
  BY <1>1, <1>2 DEF Becomes

\* Two channels that differ in no more than whether the thread is asleep.
Same(c, d) ==
  /\ c.up = d.up /\ c.appc = d.appc /\ c.netc = d.netc /\ c.rx = d.rx /\ c.tx = d.tx
  /\ c.shutdown = d.shutdown /\ c.pc = d.pc /\ c.left = d.left

\* What is true of the streams after a step that changes at most stream s.
LEMMA OneChanged ==
  ASSUME NEW x, RecOk(x), NEW y \in Rec, QueueOk(y), NEW s \in Streams,
         \A u \in Streams \ {s} : y.sig[u] = x.sig[u] /\ Same(y.ch[u], x.ch[u]),
         ChanOk(y.ch[s], y.sig[s])
  PROVE  /\ RecOk(y)
         /\ Held(x.ch) \in Nat /\ Held(y.ch) \in Nat
         /\ Held(y.ch) + Load(x.ch[s]) = Held(x.ch) + Load(y.ch[s])
<1>1. \A u \in Streams : ChanOk(y.ch[u], y.sig[u])
  BY DEF RecOk, ChanOk, Same
<1>2. x.ch \in [Streams -> Chan] /\ y.ch \in [Streams -> Chan]
  BY DEF RecOk, Rec
<1>3. \A u \in Streams \ {s} : Load(y.ch[u]) = Load(x.ch[u])
  BY DEF Same, Load
<1> QED
  BY <1>1, <1>2, <1>3, HeldChange DEF RecOk

\* Numbers of buffers are natural numbers.
LEMMA LooseNat == RecOk(All) /\ rxq \in Seq(Packet) /\ NetOk => Loose \in Nat
<1> SUFFICES ASSUME RecOk(All), rxq \in Seq(Packet), NetOk PROVE Loose \in Nat
  OBVIOUS
<1>1. avail \in Nat /\ cur \in Nat
  BY AllIs, NetConstants DEF RecOk, Rec
<1>2. Len(rxq) \in Nat
  BY LenProperties
<1>3. net.hand \in Nat /\ cmcq \in Nat /\ lost \in Nat
  BY DEF NetOk, NetRec
<1> QED
  BY <1>1, <1>2, <1>3 DEF Loose, Busy, Hands, Copy

LEMMA LooseNatNext == RecOk(All)' /\ rxq' \in Seq(Packet) /\ NetOk' => Loose' \in Nat
<1>1. (RecOk(All) /\ rxq \in Seq(Packet) /\ NetOk => Loose \in Nat)'
  BY LooseNat, PTL
<1>2. (rxq \in Seq(Packet))' <=> rxq' \in Seq(Packet)
  BY DEF Packet, Channels, Cmc
<1> QED
  BY <1>1, <1>2

\* A step of the service or of the network thread that is about stream s.
LEMMA StreamStep ==
  ASSUME IInv, NEW y \in Rec, QueueOk(y), NEW s \in Streams, Becomes(y),
         \A u \in Streams \ {s} : y.sig[u] = sig[u] /\ Same(y.ch[u], ch[u]),
         ChanOk(y.ch[s], y.sig[s]),
         rxq' \in Seq(Packet), NetOk',
         Loose' + Load(y.ch[s]) = Loose + Load(ch[s])
  PROVE  IInv'
<1>1. RecOk(All)
  BY DEF IInv
<1>2. /\ RecOk(y) /\ Held(ch) \in Nat /\ Held(y.ch) \in Nat
      /\ Held(y.ch) + Load(ch[s]) = Held(ch) + Load(y.ch[s])
  BY <1>1, AllIs, OneChanged
<1>3. All' = y /\ ch' = y.ch /\ avail' = y.avail /\ cur' = y.cur
  BY BecomesIs
<1>4. RecOk(All)'
  BY <1>2, <1>3 DEF RecOk, QueueOk
<1>5. Load(ch[s]) \in Nat /\ Load(y.ch[s]) \in Nat
  <2>1. ch \in [Streams -> Chan] /\ y.ch \in [Streams -> Chan]
    BY <1>1, AllIs DEF RecOk, Rec
  <2>2. ch[s] \in Chan /\ y.ch[s] \in Chan
    BY <2>1
  <2>3. \A c \in Chan : Load(c) \in Nat
    BY NetConstants DEF Chan, Load
  <2> QED
    BY <2>2, <2>3
<1>6. Loose \in Nat /\ Loose' \in Nat
  <2>1. RecOk(All) /\ rxq \in Seq(Packet) /\ NetOk
    BY DEF IInv
  <2> QED
    BY <1>4, <2>1, LooseNat, LooseNatNext
<1>8. Buffers' = Loose' + Held(y.ch)
  BY <1>3 DEF Buffers, Held
<1>9. Buffers = Loose + Held(ch)
  BY DEF Buffers
<1>10. Buffers' = Buffers
  <2>1. PICK a \in Nat, b \in Nat, c \in Nat, d \in Nat :
          a = Loose /\ b = Loose' /\ c = Load(ch[s]) /\ d = Load(y.ch[s])
    BY <1>5, <1>6
  <2>2. PICK g \in Nat, h \in Nat : g = Held(ch) /\ h = Held(y.ch)
    BY <1>2
  <2>3. b + d = a + c /\ h + c = g + d
    BY <1>2, <2>1, <2>2
  <2>4. b + h = a + g
    BY <2>3
  <2> QED
    BY <1>8, <1>9, <2>1, <2>2, <2>4
<1> QED
  BY <1>4, <1>10 DEF IInv

\* A step that leaves the buffers of every stream alone.
LEMMA QuietStep ==
  ASSUME IInv, NEW y \in Rec, QueueOk(y), Becomes(y),
         \A u \in Streams : ChanOk(y.ch[u], y.sig[u]) /\ Load(y.ch[u]) = Load(ch[u]),
         rxq' \in Seq(Packet), NetOk',
         Loose' = Loose
  PROVE  IInv'
<1>1. RecOk(All)
  BY DEF IInv
<1>2. ch \in [Streams -> Chan] /\ y.ch \in [Streams -> Chan]
  BY <1>1, AllIs DEF RecOk, Rec
<1>3. Held(y.ch) = Held(ch) /\ Held(ch) \in Nat
  BY <1>2, HeldSame
<1>4. All' = y /\ ch' = y.ch /\ avail' = y.avail /\ cur' = y.cur
  BY BecomesIs
<1>5. RecOk(All)'
  BY <1>4 DEF RecOk, QueueOk
<1>6. Loose \in Nat /\ Loose' \in Nat
  <2>1. rxq \in Seq(Packet) /\ NetOk
    BY DEF IInv
  <2> QED
    BY <1>1, <1>5, <2>1, LooseNat, LooseNatNext
<1>9. Buffers' = Loose' + Held(y.ch)
  BY <1>4 DEF Buffers, Held
<1>10. Buffers = Loose + Held(ch)
  BY DEF Buffers
<1>11. Buffers' = Buffers
  BY <1>3, <1>6, <1>9, <1>10
<1> QED
  BY <1>5, <1>11 DEF IInv

-----------------------------------------------------------------------------
(* The operations on the record *)

\* net_task_raise queues a task that is not queued, and touches nothing else.
LEMMA RaiseIs ==
  ASSUME NEW x \in Rec, QueueOk(x), NEW t \in Tasks, NEW e \in Sigs
  PROVE  LET y == net_task_raise(x, t, e) IN
         /\ y \in Rec /\ QueueOk(y)
         /\ y.avail = x.avail /\ y.sleepers = x.sleepers /\ y.cur = x.cur
         /\ y.est = x.est /\ y.ch = x.ch
         /\ y.sig[t] = x.sig[t] \cup {e} /\ \A u \in Tasks \ {t} : y.sig[u] = x.sig[u]
<1> DEFINE q == IF x.sig[t] = {} THEN Append(x.tasks, t) ELSE x.tasks
           y == net_task_raise(x, t, e)
           g == [x.sig EXCEPT ![t] = @ \cup {e}]
<1>1. /\ x.avail \in Nat /\ x.sleepers \in Seq(Streams) /\ x.tasks \in Seq(Tasks)
      /\ x.sig \in [Tasks -> SUBSET Sigs] /\ x.cur \in 0 .. FragMax /\ x.est \in Seq(Channels)
      /\ x.ch \in [Streams -> Chan]
  BY DEF Rec
<1>2. y = [x EXCEPT !.tasks = q, !.sig = g]
  BY DEF net_task_raise
<1>3. /\ g \in [Tasks -> SUBSET Sigs] /\ g[t] = x.sig[t] \cup {e}
      /\ \A u \in Tasks \ {t} : g[u] = x.sig[u]
  BY <1>1
<1>4. q \in Seq(Tasks) /\ ToSet(q) = {u \in Tasks : g[u] # {}} /\ IsInjective(q)
  <2>1. CASE x.sig[t] = {}
    <3>1. ToSet(x.tasks) = {u \in Tasks : x.sig[u] # {}} /\ IsInjective(x.tasks)
      BY DEF QueueOk
    <3>2. t \notin ToSet(x.tasks)
      BY <2>1, <3>1
    <3>3. /\ q \in Seq(Tasks) /\ ToSet(q) = ToSet(x.tasks) \cup {t} /\ IsInjective(q)
      BY <1>1, <2>1, <3>1, <3>2, AppendSet
    <3> HIDE DEF q, g
    <3>4. {u \in Tasks : g[u] # {}} = {u \in Tasks : x.sig[u] # {}} \cup {t}
      BY <1>3
    <3> QED
      BY <3>1, <3>3, <3>4
  <2>2. CASE x.sig[t] # {}
    <3>1. q = x.tasks
      BY <2>2
    <3>2. ToSet(x.tasks) = {u \in Tasks : x.sig[u] # {}} /\ IsInjective(x.tasks)
      BY DEF QueueOk
    <3> HIDE DEF q, g
    <3>3. {u \in Tasks : g[u] # {}} = {u \in Tasks : x.sig[u] # {}}
      BY <1>3, <2>2
    <3> QED
      BY <1>1, <3>1, <3>2, <3>3
  <2> QED
    BY <2>1, <2>2
<1> HIDE DEF q, g, y
<1>5. /\ y.avail = x.avail /\ y.sleepers = x.sleepers /\ y.cur = x.cur /\ y.est = x.est
      /\ y.ch = x.ch /\ y.tasks = q /\ y.sig = g /\ y \in Rec
  BY <1>1, <1>2, <1>3, <1>4 DEF Rec
<1>6. QueueOk(y)
  BY <1>4, <1>5 DEF QueueOk
<1> QED
  BY <1>3, <1>5, <1>6 DEF y

\* A stream is given a new channel record.
LEMMA SetIs ==
  ASSUME NEW x \in Rec, NEW s \in Streams, NEW c \in Chan
  PROVE  LET y == [x EXCEPT !.ch[s] = c] IN
         /\ y \in Rec
         /\ y.avail = x.avail /\ y.sleepers = x.sleepers /\ y.tasks = x.tasks /\ y.sig = x.sig
         /\ y.cur = x.cur /\ y.est = x.est
         /\ y.ch[s] = c /\ \A u \in Streams \ {s} : y.ch[u] = x.ch[u]
<1> DEFINE d == [x.ch EXCEPT ![s] = c]
           y == [x EXCEPT !.ch = d]
<1>1. x.ch \in [Streams -> Chan]
  BY DEF Rec
<1>2. d \in [Streams -> Chan] /\ d[s] = c /\ \A u \in Streams \ {s} : d[u] = x.ch[u]
  BY <1>1
<1> HIDE DEF d
<1>3. /\ y \in Rec /\ y.ch = d
      /\ y.avail = x.avail /\ y.sleepers = x.sleepers /\ y.tasks = x.tasks /\ y.sig = x.sig
      /\ y.cur = x.cur /\ y.est = x.est
  BY <1>2 DEF Rec
<1>4. y = [x EXCEPT !.ch[s] = c]
  BY DEF d
<1> QED
  BY <1>2, <1>3, <1>4

\* A channel whose thread is made to wake.
LEMMA WakeIs ==
  ASSUME NEW x \in Rec, NEW s \in Streams
  PROVE  LET y == Signal(x, s) IN
         /\ y \in Rec
         /\ y.avail = x.avail /\ y.sleepers = x.sleepers /\ y.tasks = x.tasks /\ y.sig = x.sig
         /\ y.cur = x.cur /\ y.est = x.est
         /\ \A u \in Streams : Same(y.ch[u], x.ch[u]) /\ y.ch[u].flushed = x.ch[u].flushed
<1> DEFINE c == [x.ch[s] EXCEPT !.asleep = FALSE]
           y == [x EXCEPT !.ch[s] = c]
<1>1. x.ch[s] \in Chan
  BY DEF Rec
<1>2. c \in Chan /\ Same(c, x.ch[s]) /\ c.flushed = x.ch[s].flushed
  BY <1>1 DEF Chan, Same
<1>3. Signal(x, s) = y
  BY DEF Signal
<1> HIDE DEF c
<1>4. /\ y \in Rec
      /\ y.avail = x.avail /\ y.sleepers = x.sleepers /\ y.tasks = x.tasks /\ y.sig = x.sig
      /\ y.cur = x.cur /\ y.est = x.est
      /\ y.ch[s] = c /\ \A u \in Streams \ {s} : y.ch[u] = x.ch[u]
  BY <1>2, SetIs
<1> HIDE DEF y
<1>5. \A u \in Streams : Same(y.ch[u], x.ch[u]) /\ y.ch[u].flushed = x.ch[u].flushed
  BY <1>2, <1>4 DEF Same
<1> QED
  BY <1>3, <1>4, <1>5

\* pbuf_pool_put and pbuf_free: buffers return, a sleeper may be woken and the
\* network thread told, and nothing else changes.
LEMMA FreeIs ==
  ASSUME NEW x \in Rec, QueueOk(x), NEW n \in Nat
  PROVE  LET y == pbuf_free(x, n) IN
         /\ y \in Rec /\ QueueOk(y) /\ y.avail = x.avail + n /\ y.cur = x.cur /\ y.est = x.est
         /\ \A u \in Streams : y.sig[u] = x.sig[u] /\ Same(y.ch[u], x.ch[u])
<1> DEFINE h == Head(x.sleepers)
           w == IF x.avail = 0 /\ x.sleepers # <<>>
                THEN [x EXCEPT !.ch[h].asleep = FALSE, !.sleepers = Tail(@)] ELSE x
           v == IF x.avail = 0 THEN net_task_raise(w, Netbuf, "avail") ELSE w
           y == pbuf_free(x, n)
<1>1. /\ w \in Rec /\ w.avail = x.avail /\ w.cur = x.cur /\ w.est = x.est /\ w.tasks = x.tasks
      /\ w.sig = x.sig /\ \A u \in Streams : Same(w.ch[u], x.ch[u])
  <2>1. CASE x.avail = 0 /\ x.sleepers # <<>>
    <3>1. h \in Streams /\ Tail(x.sleepers) \in Seq(Streams)
      BY <2>1, TailSet DEF Rec
    <3> DEFINE q == Tail(x.sleepers)
           r == Signal(x, h)
    <3>2. w = [r EXCEPT !.sleepers = q]
      BY <2>1 DEF Signal
    <3> HIDE DEF h
    <3>3. /\ r \in Rec
          /\ r.avail = x.avail /\ r.tasks = x.tasks /\ r.sig = x.sig
          /\ r.cur = x.cur /\ r.est = x.est /\ \A u \in Streams : Same(r.ch[u], x.ch[u])
      BY <3>1, WakeIs
    <3> HIDE DEF w, q, r
    <3>4. q \in Seq(Streams)
      BY <3>1 DEF q
    <3>5. /\ w \in Rec /\ w.avail = r.avail /\ w.tasks = r.tasks /\ w.sig = r.sig
          /\ w.cur = r.cur /\ w.est = r.est /\ w.ch = r.ch
      BY <3>2, <3>3, <3>4 DEF Rec
    <3> QED
      BY <3>3, <3>5
  <2>2. CASE ~(x.avail = 0 /\ x.sleepers # <<>>)
    BY <2>2 DEF Same
  <2> QED
    BY <2>1, <2>2
<1>2. QueueOk(w)
  BY <1>1 DEF QueueOk
<1> HIDE DEF w
<1>3. /\ v \in Rec /\ QueueOk(v) /\ v.avail = x.avail /\ v.cur = x.cur /\ v.est = x.est
      /\ \A u \in Streams : v.sig[u] = x.sig[u] /\ Same(v.ch[u], x.ch[u])
  <2>1. CASE x.avail = 0
    <3>1. Netbuf \in Tasks /\ "avail" \in Sigs /\ Streams \subseteq Tasks \ {Netbuf}
      BY NetConstants DEF Tasks, Sigs
    <3>2. v = net_task_raise(w, Netbuf, "avail")
      BY <2>1
    <3> HIDE DEF v
    <3> QED
      BY <1>1, <1>2, <3>1, <3>2, RaiseIs
  <2>2. CASE x.avail # 0
    BY <1>1, <1>2, <2>2
  <2> QED
    BY <2>1, <2>2
<1>4. pbuf_pool_put(x) = [v EXCEPT !.avail = @ + 1]
  BY DEF pbuf_pool_put, w
<1>5. CASE n = 0
  BY <1>5 DEF pbuf_free, Same, Rec
<1>6. CASE n # 0
  <2>1. y = [[v EXCEPT !.avail = @ + 1] EXCEPT !.avail = x.avail + n]
    BY <1>4, <1>6 DEF pbuf_free
  <2> HIDE DEF v, y
  <2>2. x.avail + n \in Nat
    BY DEF Rec
  <2>3. /\ y \in Rec /\ y.avail = x.avail + n /\ y.cur = v.cur /\ y.est = v.est /\ y.sig = v.sig
        /\ y.tasks = v.tasks /\ y.ch = v.ch
    BY <1>3, <2>1, <2>2 DEF Rec
  <2>4. QueueOk(y)
    BY <1>3, <2>3 DEF QueueOk
  <2> QED
    BY <1>3, <2>3, <2>4 DEF y
<1> QED
  BY <1>5, <1>6

-----------------------------------------------------------------------------
(* Steps inside one stream *)

Places == {"run", "read", "write", "bufwait", "wcond"} \cup Leaving

\* Stream s alone has changed, neither its signals nor what the pool counts.
Within(x, y, s) ==
  /\ y \in Rec
  /\ y.avail = x.avail /\ y.sleepers = x.sleepers /\ y.tasks = x.tasks /\ y.sig = x.sig
  /\ y.cur = x.cur /\ y.est = x.est
  /\ \A u \in Streams \ {s} : y.ch[u] = x.ch[u]

SetTo(x, s, c) == [x EXCEPT !.ch[s] = c]
Left(x, s, n) == [x EXCEPT !.ch[s].left = n]

LEMMA WithinSet ==
  ASSUME NEW x \in Rec, NEW s \in Streams, NEW c \in Chan
  PROVE  LET y == SetTo(x, s, c) IN Within(x, y, s) /\ y.ch[s] = c
<1> DEFINE y == [x EXCEPT !.ch[s] = c]
<1>1. /\ y \in Rec
      /\ y.avail = x.avail /\ y.sleepers = x.sleepers /\ y.tasks = x.tasks /\ y.sig = x.sig
      /\ y.cur = x.cur /\ y.est = x.est
      /\ y.ch[s] = c /\ \A u \in Streams \ {s} : y.ch[u] = x.ch[u]
  BY SetIs
<1> QED
  BY <1>1 DEF Within, SetTo

\* Within is transitive.
LEMMA WithinTrans ==
  ASSUME NEW x, NEW y, NEW z, NEW s, Within(x, y, s), Within(y, z, s)
  PROVE  Within(x, z, s)
BY DEF Within

LEMMA GotoIs ==
  ASSUME NEW x \in Rec, NEW s \in Streams, NEW p \in Places
  PROVE  LET y == Goto(x, s, p) c == x.ch[s] d == y.ch[s] IN
         /\ Within(x, y, s) /\ d \in Chan
         /\ d.pc = p /\ d.up = c.up /\ d.appc = c.appc /\ d.netc = c.netc /\ d.rx = c.rx
         /\ d.tx = c.tx /\ d.flushed = c.flushed /\ d.shutdown = c.shutdown /\ d.left = c.left
<1> DEFINE d == [x.ch[s] EXCEPT !.pc = p]
           y == SetTo(x, s, d)
           c == x.ch[s]
<1>1. c \in Chan
  BY DEF Rec
<1>2. /\ d \in Chan
      /\ d.pc = p /\ d.up = c.up /\ d.appc = c.appc /\ d.netc = c.netc /\ d.rx = c.rx
      /\ d.tx = c.tx /\ d.flushed = c.flushed /\ d.shutdown = c.shutdown /\ d.left = c.left
  BY <1>1 DEF Chan, Places
<1>3. Goto(x, s, p) = y
  BY DEF Goto, SetTo
<1> HIDE DEF d
<1>4. Within(x, y, s) /\ y.ch[s] = d
  BY <1>2, WithinSet
<1> HIDE DEF y
<1> QED
  BY <1>2, <1>3, <1>4

LEMMA SleepIs ==
  ASSUME NEW x \in Rec, NEW s \in Streams, NEW p \in Places
  PROVE  LET y == Sleep(x, s, p) c == x.ch[s] d == y.ch[s] IN
         /\ Within(x, y, s) /\ d \in Chan
         /\ d.pc = p /\ d.up = c.up /\ d.appc = c.appc /\ d.netc = c.netc /\ d.rx = c.rx
         /\ d.tx = c.tx /\ d.flushed = c.flushed /\ d.shutdown = c.shutdown /\ d.left = c.left
<1> DEFINE d == [x.ch[s] EXCEPT !.pc = p, !.asleep = TRUE]
           y == SetTo(x, s, d)
           c == x.ch[s]
<1>1. c \in Chan /\ x.ch \in [Streams -> Chan]
  BY DEF Rec
<1>2. /\ d \in Chan
      /\ d.pc = p /\ d.up = c.up /\ d.appc = c.appc /\ d.netc = c.netc /\ d.rx = c.rx
      /\ d.tx = c.tx /\ d.flushed = c.flushed /\ d.shutdown = c.shutdown /\ d.left = c.left
  BY <1>1 DEF Chan, Places
<1>3. Sleep(x, s, p) = y
  <2> DEFINE e == [x.ch[s] EXCEPT !.pc = p]
             f == [x.ch EXCEPT ![s] = e]
             z == [x EXCEPT !.ch = f]
  <2>1. f[s] = e /\ z.ch = f
    BY <1>1 DEF Rec
  <2>2. Sleep(x, s, p) = [z EXCEPT !.ch = [z.ch EXCEPT ![s] = [z.ch[s] EXCEPT !.asleep = TRUE]]]
    BY DEF Sleep
  <2>3. d = [e EXCEPT !.asleep = TRUE]
    OBVIOUS
  <2>4. [f EXCEPT ![s] = d] = [x.ch EXCEPT ![s] = d]
    BY <1>1
  <2>5. Sleep(x, s, p) = [z EXCEPT !.ch = [x.ch EXCEPT ![s] = d]]
    BY <2>1, <2>2, <2>3, <2>4
  <2> HIDE DEF f, d
  <2> QED
    BY <2>5 DEF Rec, SetTo
<1> HIDE DEF d
<1>4. Within(x, y, s) /\ y.ch[s] = d
  BY <1>2, WithinSet
<1> HIDE DEF y
<1> QED
  BY <1>2, <1>3, <1>4

LEMMA LeftIs ==
  ASSUME NEW x \in Rec, NEW s \in Streams, NEW n \in Nat
  PROVE  LET y == Left(x, s, n) c == x.ch[s] d == y.ch[s] IN
         /\ Within(x, y, s) /\ d \in Chan
         /\ d.pc = c.pc /\ d.up = c.up /\ d.appc = c.appc /\ d.netc = c.netc /\ d.rx = c.rx
         /\ d.tx = c.tx /\ d.flushed = c.flushed /\ d.shutdown = c.shutdown /\ d.left = n
<1> DEFINE d == [x.ch[s] EXCEPT !.left = n]
           y == SetTo(x, s, d)
           c == x.ch[s]
<1>1. c \in Chan
  BY DEF Rec
<1>2. /\ d \in Chan
      /\ d.pc = c.pc /\ d.up = c.up /\ d.appc = c.appc /\ d.netc = c.netc /\ d.rx = c.rx
      /\ d.tx = c.tx /\ d.flushed = c.flushed /\ d.shutdown = c.shutdown /\ d.left = n
  BY <1>1 DEF Chan
<1>3. Left(x, s, n) = y
  BY DEF Left, SetTo
<1> HIDE DEF d
<1>4. Within(x, y, s) /\ y.ch[s] = d
  BY <1>2, WithinSet
<1> HIDE DEF y
<1> QED
  BY <1>2, <1>3, <1>4

\* Flush raises the task of the stream for a pull.
LEMMA FlushIs ==
  ASSUME NEW x \in Rec, QueueOk(x), NEW s \in Streams
  PROVE  LET y == Flush(x, s) c == x.ch[s] d == y.ch[s] IN
         /\ y \in Rec /\ QueueOk(y) /\ d \in Chan
         /\ y.avail = x.avail /\ y.sleepers = x.sleepers /\ y.cur = x.cur /\ y.est = x.est
         /\ \A u \in Streams \ {s} : y.ch[u] = x.ch[u] /\ y.sig[u] = x.sig[u]
         /\ y.sig[s] = x.sig[s] \cup {"pull"}
         /\ d.pc = c.pc /\ d.up = c.up /\ d.appc = c.appc /\ d.netc = c.netc /\ d.rx = c.rx
         /\ d.tx = c.tx /\ d.shutdown = c.shutdown /\ d.left = c.left
<1> DEFINE d == [x.ch[s] EXCEPT !.flushed = TRUE]
           z == SetTo(x, s, d)
           y == net_task_raise(z, s, "pull")
           c == x.ch[s]
<1>1. c \in Chan
  BY DEF Rec
<1>2. /\ d \in Chan
      /\ d.pc = c.pc /\ d.up = c.up /\ d.appc = c.appc /\ d.netc = c.netc /\ d.rx = c.rx
      /\ d.tx = c.tx /\ d.shutdown = c.shutdown /\ d.left = c.left
  BY <1>1 DEF Chan
<1>3. Flush(x, s) = y
  BY DEF Flush, SetTo
<1> HIDE DEF d
<1>4. Within(x, z, s) /\ z.ch[s] = d
  BY <1>2, WithinSet
<1>5. z \in Rec /\ QueueOk(z)
  BY <1>4 DEF Within, QueueOk
<1>6. s \in Tasks /\ "pull" \in Sigs /\ Streams \ {s} \subseteq Tasks \ {s}
  BY DEF Tasks, Sigs
<1> HIDE DEF z
<1>7. /\ y \in Rec /\ QueueOk(y)
      /\ y.avail = z.avail /\ y.sleepers = z.sleepers /\ y.cur = z.cur
      /\ y.est = z.est /\ y.ch = z.ch
      /\ y.sig[s] = z.sig[s] \cup {"pull"} /\ \A u \in Tasks \ {s} : y.sig[u] = z.sig[u]
  BY <1>5, <1>6, RaiseIs
<1> HIDE DEF y
<1> QED
  BY <1>2, <1>3, <1>4, <1>6, <1>7 DEF Within

\* One unit of the write in a new buffer.
LEMMA FillIs ==
  ASSUME NEW x \in Rec, NEW s \in Streams, x.avail # 0, x.ch[s].tx < FragMax, x.ch[s].left # 0
  PROVE  LET y == Fill(x, s) c == x.ch[s] d == y.ch[s] IN
         /\ y \in Rec /\ d \in Chan
         /\ y.avail = x.avail - 1 /\ y.tasks = x.tasks /\ y.sig = x.sig
         /\ y.cur = x.cur /\ y.est = x.est
         /\ \A u \in Streams \ {s} : y.ch[u] = x.ch[u]
         /\ d.pc = c.pc /\ d.up = c.up /\ d.appc = c.appc /\ d.netc = c.netc /\ d.rx = c.rx
         /\ d.tx = c.tx + 1 /\ d.shutdown = c.shutdown
<1> DEFINE w == Take(x)
           c == x.ch[s]
           d == [c EXCEPT !.tx = @ + 1, !.left = @ - 1]
           y == SetTo(w, s, d)
<1>1. c \in Chan /\ x.avail - 1 \in Nat /\ x.avail \in Nat
  BY DEF Rec
<1>2. /\ w \in Rec /\ w.avail = x.avail - 1 /\ w.ch = x.ch /\ w.tasks = x.tasks /\ w.sig = x.sig
      /\ w.cur = x.cur /\ w.est = x.est
  BY <1>1 DEF Rec, Take
<1>3. c.tx + 1 \in 0 .. FragMax /\ c.left - 1 \in Nat
  BY <1>1, NetConstants DEF Chan
<1>4. /\ d \in Chan
      /\ d.pc = c.pc /\ d.up = c.up /\ d.appc = c.appc /\ d.netc = c.netc /\ d.rx = c.rx
      /\ d.tx = c.tx + 1 /\ d.shutdown = c.shutdown
  BY <1>1, <1>3 DEF Chan
<1> HIDE DEF w
<1>5. Fill(x, s) = y
  <2> DEFINE e == [w.ch[s] EXCEPT !.tx = w.ch[s].tx + 1]
             f == [w.ch EXCEPT ![s] = e]
             z == [w EXCEPT !.ch = f]
  <2>1. w.ch \in [Streams -> Chan]
    BY <1>2 DEF Rec
  <2>2. f[s] = e /\ z.ch = f
    BY <1>2, <2>1 DEF Rec
  <2>3. Fill(x, s)
          = [z EXCEPT !.ch = [z.ch EXCEPT ![s] = [z.ch[s] EXCEPT !.left = z.ch[s].left - 1]]]
    BY DEF Fill, w
  <2>4. d = [e EXCEPT !.left = e.left - 1]
    BY <1>1, <1>2 DEF Chan
  <2> HIDE DEF e, d
  <2>5. [f EXCEPT ![s] = d] = [w.ch EXCEPT ![s] = d]
    BY <2>1
  <2>6. Fill(x, s) = [z EXCEPT !.ch = [w.ch EXCEPT ![s] = d]]
    BY <2>2, <2>3, <2>4, <2>5
  <2> HIDE DEF f
  <2> QED
    BY <1>2, <2>6 DEF Rec, SetTo
<1> HIDE DEF d
<1>6. Within(w, y, s) /\ y.ch[s] = d
  BY <1>2, <1>4, WithinSet
<1> HIDE DEF y
<1> QED
  BY <1>2, <1>4, <1>5, <1>6 DEF Within

-----------------------------------------------------------------------------
(* The thread of a service *)

\* A step of the thread of stream s: the network thread and the packets are
\* where they were, and what it knows of the stream it pushes to still holds.
LEMMA ServiceStep ==
  ASSUME IInv, NEW y \in Rec, QueueOk(y), NEW s \in Streams, Becomes(y), UNCHANGED <<net, rxq, link>>,
         \A u \in Streams \ {s} : y.sig[u] = sig[u] /\ Same(y.ch[u], ch[u]),
         ChanOk(y.ch[s], y.sig[s]),
         y.ch[s].up = ch[s].up, y.ch[s].netc = ch[s].netc, ch[s].rx = 0 => y.ch[s].rx = 0,
         y.cur = cur, y.avail + Load(y.ch[s]) = avail + Load(ch[s])
  PROVE  IInv'
<1>1. ch' = y.ch /\ avail' = y.avail /\ cur' = y.cur
  BY BecomesIs
<1>2. rxq' = rxq /\ rxq \in Seq(Packet)
  BY DEF IInv
<1>3. NetOk'
  <2>1. NetOk
    BY DEF IInv
  <2> QED
    BY <1>1, <2>1 DEF NetOk, NetRec, Channels, Cmc, Copying, Same, link
<1>4. Hands' = Hands
  BY DEF Hands, Copy, Copying, link
<1>5. Loose' + Load(y.ch[s]) = Loose + Load(ch[s])
  <2>1. avail \in Nat /\ cur \in Nat /\ y.avail \in Nat
    BY AllIs, NetConstants DEF IInv, RecOk, Rec
  <2>2. Load(ch[s]) \in Nat /\ Load(y.ch[s]) \in Nat
    <3>1. ch[s] \in Chan /\ y.ch[s] \in Chan
      BY AllIs DEF IInv, RecOk, Rec
    <3> QED
      BY <3>1, NetConstants DEF Chan, Load
  <2>3. Busy \in Nat
    <3>1. Len(rxq) \in Nat
      BY <1>2, LenProperties
    <3>2. Hands \in Nat
      BY DEF IInv, NetOk, NetRec, Hands, Copy
    <3> QED
      BY <2>1, <3>1, <3>2 DEF Busy
  <2>4. Busy' = Busy
    BY <1>1, <1>2, <1>4 DEF Busy
  <2>5. Loose' = y.avail + Busy /\ Loose = avail + Busy
    BY <1>1, <2>4 DEF Loose
  <2> QED
    BY <2>1, <2>2, <2>3, <2>5
<1>6. rxq' \in Seq(Packet)
  BY <1>2
<1> QED
  BY <1>3, <1>5, <1>6, StreamStep

\* What the invariant says of a stream whose thread is not leaving.
LEMMA AtWork ==
  ASSUME IInv, NEW s \in Streams
  PROVE  /\ All \in Rec /\ QueueOk(All) /\ ch[s] \in Chan /\ sig[s] \in SUBSET Sigs
         /\ avail \in Nat /\ ChanOk(ch[s], sig[s])
         /\ \A u \in Streams : Same(ch[u], ch[u])
         /\ ch[s].pc \notin Leaving => /\ ch[s].up /\ ch[s].appc = 0 /\ "close" \notin sig[s]
                                       /\ ch[s].netc = ch[s].shutdown
<1>1. RecOk(All)
  BY DEF IInv
<1>2. All \in Rec /\ QueueOk(All) /\ ChanOk(ch[s], sig[s])
  BY <1>1, AllIs DEF RecOk
<1>3. s \in Tasks
  BY DEF Tasks
<1>4. ch[s] \in Chan /\ sig[s] \in SUBSET Sigs /\ avail \in Nat
  BY <1>2, <1>3, AllIs DEF Rec
<1> QED
  BY <1>2, <1>4 DEF ChanOk, Same

LEMMA ReadKeeps ==
  ASSUME IInv, NEW s \in Streams, pushpull_stream_read(s)
  PROVE  IInv'
<1>1. /\ All \in Rec /\ QueueOk(All) /\ ch[s] \in Chan /\ sig[s] \in SUBSET Sigs
      /\ avail \in Nat /\ ChanOk(ch[s], sig[s]) /\ \A u \in Streams : Same(ch[u], ch[u])
  BY AtWork
<1>2. ch[s].pc \in {"run", "read"} /\ UNCHANGED <<net, rxq, link>>
  BY DEF pushpull_stream_read, App
<1>3. /\ ch[s].up /\ ch[s].appc = 0 /\ "close" \notin sig[s] /\ ch[s].netc = ch[s].shutdown
  BY <1>2, AtWork DEF Leaving
<1>4. All.ch = ch /\ All.sig = sig /\ All.cur = cur /\ All.avail = avail
  BY AllIs
<1>5. "run" \in Places /\ "read" \in Places /\ "push" \in Sigs /\ s \in Tasks
      /\ Streams \ {s} \subseteq Tasks \ {s}
  BY DEF Places, Sigs, Tasks
<1>6. CASE ch[s].shutdown
  <2> DEFINE y == Goto(All, s, "run")
  <2>1. Becomes(y)
    BY <1>6 DEF pushpull_stream_read
  <2>2. /\ Within(All, y, s)
        /\ y.ch[s].pc = "run" /\ y.ch[s].up = ch[s].up /\ y.ch[s].appc = ch[s].appc
        /\ y.ch[s].netc = ch[s].netc /\ y.ch[s].rx = ch[s].rx /\ y.ch[s].tx = ch[s].tx
        /\ y.ch[s].shutdown = ch[s].shutdown
    BY <1>1, <1>4, <1>5, GotoIs
  <2> HIDE DEF y
  <2>3. /\ y \in Rec /\ QueueOk(y) /\ y.sig = sig /\ y.cur = cur /\ y.avail = avail
        /\ \A u \in Streams \ {s} : y.ch[u] = ch[u]
    BY <1>1, <1>4, <2>2 DEF Within, QueueOk
  <2>4. ChanOk(y.ch[s], y.sig[s]) /\ Load(y.ch[s]) = Load(ch[s])
    BY <1>3, <2>2, <2>3 DEF ChanOk, Load, Leaving
  <2> QED
    BY <1>1, <1>2, <2>1, <2>2, <2>3, <2>4, ServiceStep
<1>7. CASE ~ch[s].shutdown /\ ch[s].rx = 0
  <2> DEFINE z == net_task_raise(All, s, "push")
             y == Sleep(z, s, "read")
  <2>1. Becomes(y)
    BY <1>7 DEF pushpull_stream_read
  <2>2. /\ z \in Rec /\ QueueOk(z) /\ z.avail = avail /\ z.cur = cur /\ z.ch = ch
        /\ z.sig[s] = sig[s] \cup {"push"} /\ \A u \in Tasks \ {s} : z.sig[u] = sig[u]
    BY <1>1, <1>4, <1>5, RaiseIs
  <2> HIDE DEF z
  <2>3. /\ Within(z, y, s)
        /\ y.ch[s].pc = "read" /\ y.ch[s].up = z.ch[s].up /\ y.ch[s].appc = z.ch[s].appc
        /\ y.ch[s].netc = z.ch[s].netc /\ y.ch[s].rx = z.ch[s].rx /\ y.ch[s].tx = z.ch[s].tx
        /\ y.ch[s].shutdown = z.ch[s].shutdown
    BY <1>5, <2>2, SleepIs
  <2> HIDE DEF y
  <2>4. /\ y \in Rec /\ QueueOk(y) /\ y.cur = cur /\ y.avail = avail
        /\ \A u \in Streams \ {s} : y.ch[u] = ch[u] /\ y.sig[u] = sig[u]
        /\ y.sig[s] = sig[s] \cup {"push"}
    BY <1>5, <2>2, <2>3 DEF Within, QueueOk
  <2>5. ChanOk(y.ch[s], y.sig[s]) /\ Load(y.ch[s]) = Load(ch[s])
    BY <1>3, <2>2, <2>3, <2>4 DEF ChanOk, Load, Leaving
  <2>6. y.ch[s].up = ch[s].up /\ y.ch[s].netc = ch[s].netc /\ y.ch[s].rx = ch[s].rx
    BY <2>2, <2>3
  <2> QED
    BY <1>1, <1>2, <2>1, <2>4, <2>5, <2>6, ServiceStep
<1>8. CASE ~ch[s].shutdown /\ ch[s].rx # 0
  <2> DEFINE d == [ch[s] EXCEPT !.rx = 0]
             v == SetTo(All, s, d)
             z == Goto(v, s, "run")
             y == pbuf_free(z, 1)
  <2>1. Becomes(y)
    BY <1>4, <1>8 DEF pushpull_stream_read, SetTo
  <2>2. /\ d \in Chan /\ d.pc = ch[s].pc /\ d.up = ch[s].up /\ d.appc = ch[s].appc
        /\ d.netc = ch[s].netc /\ d.rx = 0 /\ d.tx = ch[s].tx /\ d.shutdown = ch[s].shutdown
    BY <1>1 DEF Chan
  <2> HIDE DEF d
  <2>3. Within(All, v, s) /\ v.ch[s] = d
    BY <1>1, <2>2, WithinSet
  <2> HIDE DEF v
  <2>4. v \in Rec
    BY <2>3 DEF Within
  <2>5. /\ Within(v, z, s)
        /\ z.ch[s].pc = "run" /\ z.ch[s].up = d.up /\ z.ch[s].appc = d.appc
        /\ z.ch[s].netc = d.netc /\ z.ch[s].rx = d.rx /\ z.ch[s].tx = d.tx
        /\ z.ch[s].shutdown = d.shutdown
    BY <1>5, <2>3, <2>4, GotoIs
  <2> HIDE DEF z
  <2>6. /\ z \in Rec /\ QueueOk(z) /\ z.sig = sig /\ z.cur = cur /\ z.avail = avail
        /\ \A u \in Streams \ {s} : z.ch[u] = ch[u]
    BY <1>1, <1>4, <2>3, <2>5 DEF Within, QueueOk
  <2>7. /\ y \in Rec /\ QueueOk(y) /\ y.avail = z.avail + 1 /\ y.cur = z.cur
        /\ \A u \in Streams : y.sig[u] = z.sig[u] /\ Same(y.ch[u], z.ch[u])
    BY <2>6, FreeIs
  <2> HIDE DEF y
  <2>8. /\ y.ch[s].pc = "run" /\ y.ch[s].up = ch[s].up /\ y.ch[s].appc = ch[s].appc
        /\ y.ch[s].netc = ch[s].netc /\ y.ch[s].rx = 0 /\ y.ch[s].tx = ch[s].tx
        /\ y.ch[s].shutdown = ch[s].shutdown /\ y.sig[s] = sig[s]
    BY <2>2, <2>5, <2>6, <2>7 DEF Same
  <2>9. ChanOk(y.ch[s], y.sig[s])
    BY <1>3, <2>8 DEF ChanOk, Leaving
  <2>10. \A u \in Streams \ {s} : y.sig[u] = sig[u] /\ Same(y.ch[u], ch[u])
    BY <2>6, <2>7
  <2>11. y.avail + Load(y.ch[s]) = avail + Load(ch[s])
    <3>1. ch[s].rx = 1 /\ ch[s].tx \in Nat
      BY <1>1, <1>8, NetConstants DEF Chan
    <3> QED
      BY <1>1, <2>6, <2>7, <2>8, <3>1 DEF Load
  <2>12. y.cur = cur
    BY <2>6, <2>7
  <2> QED
    BY <1>2, <2>1, <2>7, <2>8, <2>9, <2>10, <2>11, <2>12, ServiceStep
<1> QED
  BY <1>6, <1>7, <1>8

LEMMA FlushKeeps ==
  ASSUME IInv, NEW s \in Streams, flush(s)
  PROVE  IInv'
<1>1. /\ All \in Rec /\ QueueOk(All) /\ ChanOk(ch[s], sig[s])
      /\ \A u \in Streams : Same(ch[u], ch[u])
  BY AtWork
<1>2. ch[s].pc = "run" /\ UNCHANGED <<net, rxq, link>>
  BY DEF flush, App
<1>3. /\ ch[s].up /\ ch[s].appc = 0 /\ "close" \notin sig[s] /\ ch[s].netc = ch[s].shutdown
  BY <1>2, AtWork DEF Leaving
<1>4. All.ch = ch /\ All.sig = sig /\ All.cur = cur /\ All.avail = avail
  BY AllIs
<1> DEFINE y == Flush(All, s)
<1>5. Becomes(y)
  BY DEF flush
<1>6. /\ y \in Rec /\ QueueOk(y) /\ y.avail = avail /\ y.cur = cur
      /\ \A u \in Streams \ {s} : y.ch[u] = ch[u] /\ y.sig[u] = sig[u]
      /\ y.sig[s] = sig[s] \cup {"pull"}
      /\ y.ch[s].pc = ch[s].pc /\ y.ch[s].up = ch[s].up /\ y.ch[s].appc = ch[s].appc
      /\ y.ch[s].netc = ch[s].netc /\ y.ch[s].rx = ch[s].rx
      /\ y.ch[s].tx = ch[s].tx /\ y.ch[s].shutdown = ch[s].shutdown
  BY <1>1, <1>4, FlushIs
<1> HIDE DEF y
<1>7. ChanOk(y.ch[s], y.sig[s]) /\ Load(y.ch[s]) = Load(ch[s])
  BY <1>2, <1>3, <1>6 DEF ChanOk, Load, Leaving
<1> QED
  BY <1>1, <1>2, <1>5, <1>6, <1>7, ServiceStep

LEMMA WriteStartKeeps ==
  ASSUME IInv, NEW s \in Streams, WriteStart(s)
  PROVE  IInv'
<1>1. /\ All \in Rec /\ QueueOk(All) /\ ChanOk(ch[s], sig[s])
      /\ \A u \in Streams : Same(ch[u], ch[u])
  BY AtWork
<1>2. ch[s].pc = "run" /\ UNCHANGED <<net, rxq, link>>
  BY DEF WriteStart, App
<1>3. /\ ch[s].up /\ ch[s].appc = 0 /\ "close" \notin sig[s] /\ ch[s].netc = ch[s].shutdown
  BY <1>2, AtWork DEF Leaving
<1>4. All.ch = ch /\ All.sig = sig /\ All.cur = cur /\ All.avail = avail
  BY AllIs
<1>5. PICK n \in 1 .. WriteMax : Becomes([Goto(All, s, "write") EXCEPT !.ch[s].left = n])
  BY DEF WriteStart
<1> DEFINE z == Goto(All, s, "write")
           y == Left(z, s, n)
<1>6. Becomes(y) /\ n \in Nat /\ "write" \in Places
  BY <1>5, NetConstants DEF Places, Left
<1>7. /\ Within(All, z, s)
      /\ z.ch[s].pc = "write" /\ z.ch[s].up = ch[s].up /\ z.ch[s].appc = ch[s].appc
      /\ z.ch[s].netc = ch[s].netc /\ z.ch[s].rx = ch[s].rx /\ z.ch[s].tx = ch[s].tx
      /\ z.ch[s].shutdown = ch[s].shutdown
  BY <1>1, <1>4, <1>6, GotoIs
<1> HIDE DEF z
<1>8. z \in Rec
  BY <1>7 DEF Within
<1>9. /\ Within(z, y, s)
      /\ y.ch[s].pc = z.ch[s].pc /\ y.ch[s].up = z.ch[s].up /\ y.ch[s].appc = z.ch[s].appc
      /\ y.ch[s].netc = z.ch[s].netc /\ y.ch[s].rx = z.ch[s].rx /\ y.ch[s].tx = z.ch[s].tx
      /\ y.ch[s].shutdown = z.ch[s].shutdown
  BY <1>6, <1>8, LeftIs
<1> HIDE DEF y
<1>10. /\ y \in Rec /\ QueueOk(y) /\ y.sig = sig /\ y.cur = cur /\ y.avail = avail
       /\ \A u \in Streams \ {s} : y.ch[u] = ch[u]
  BY <1>1, <1>4, <1>7, <1>9 DEF Within, QueueOk
<1>11. ChanOk(y.ch[s], y.sig[s]) /\ Load(y.ch[s]) = Load(ch[s])
  BY <1>3, <1>7, <1>9, <1>10 DEF ChanOk, Load, Leaving
<1> QED
  BY <1>1, <1>2, <1>6, <1>7, <1>9, <1>10, <1>11, ServiceStep

\* A writer takes a buffer: the first, or the next of its fragment.
LEMMA FillKeeps ==
  ASSUME IInv, NEW s \in Streams, ch[s].pc \in {"write", "wcond", "bufwait"},
         UNCHANGED <<net, rxq, link>>, avail # 0, ch[s].tx < FragMax, ch[s].left # 0,
         Becomes(Goto(Fill(All, s), s, "write"))
  PROVE  IInv'
<1>1. /\ All \in Rec /\ QueueOk(All) /\ ch[s] \in Chan /\ avail \in Nat
      /\ ChanOk(ch[s], sig[s]) /\ \A u \in Streams : Same(ch[u], ch[u])
  BY AtWork
<1>2. /\ ch[s].up /\ ch[s].appc = 0 /\ "close" \notin sig[s] /\ ch[s].netc = ch[s].shutdown
  BY AtWork DEF Leaving
<1>3. All.ch = ch /\ All.sig = sig /\ All.cur = cur /\ All.avail = avail
  BY AllIs
<1> DEFINE z == Fill(All, s)
           y == Goto(z, s, "write")
<1>4. Becomes(y) /\ "write" \in Places
  BY DEF Places
<1>5. /\ z \in Rec /\ z.avail = avail - 1 /\ z.tasks = All.tasks /\ z.sig = sig /\ z.cur = cur
      /\ \A u \in Streams \ {s} : z.ch[u] = ch[u]
      /\ z.ch[s].up = ch[s].up /\ z.ch[s].appc = ch[s].appc /\ z.ch[s].netc = ch[s].netc
      /\ z.ch[s].rx = ch[s].rx /\ z.ch[s].tx = ch[s].tx + 1 /\ z.ch[s].shutdown = ch[s].shutdown
  BY <1>1, <1>3, FillIs
<1> HIDE DEF z
<1>6. /\ Within(z, y, s)
      /\ y.ch[s].pc = "write" /\ y.ch[s].up = z.ch[s].up /\ y.ch[s].appc = z.ch[s].appc
      /\ y.ch[s].netc = z.ch[s].netc /\ y.ch[s].rx = z.ch[s].rx /\ y.ch[s].tx = z.ch[s].tx
      /\ y.ch[s].shutdown = z.ch[s].shutdown
  BY <1>4, <1>5, GotoIs
<1> HIDE DEF y
<1>7. /\ y \in Rec /\ QueueOk(y) /\ y.sig = sig /\ y.cur = cur /\ y.avail = avail - 1
      /\ \A u \in Streams \ {s} : y.ch[u] = ch[u]
  BY <1>1, <1>3, <1>5, <1>6 DEF Within, QueueOk
<1>8. ChanOk(y.ch[s], y.sig[s])
  BY <1>2, <1>5, <1>6, <1>7 DEF ChanOk, Leaving
<1>9. y.avail + Load(y.ch[s]) = avail + Load(ch[s])
  <2>1. ch[s].rx \in Nat /\ ch[s].tx \in Nat
    BY <1>1, NetConstants DEF Chan
  <2> QED
    BY <1>1, <1>5, <1>6, <1>7, <2>1 DEF Load
<1> QED
  BY <1>1, <1>4, <1>5, <1>6, <1>7, <1>8, <1>9, ServiceStep

LEMMA WriteKeeps ==
  ASSUME IInv, NEW s \in Streams, pushpull_stream_write(s)
  PROVE  IInv'
<1>1. /\ All \in Rec /\ QueueOk(All) /\ ch[s] \in Chan /\ avail \in Nat
      /\ ChanOk(ch[s], sig[s]) /\ \A u \in Streams : Same(ch[u], ch[u])
  BY AtWork
<1>2. ch[s].pc \in {"write", "wcond"} /\ UNCHANGED <<net, rxq, link>>
  BY DEF pushpull_stream_write, App
<1>3. /\ ch[s].up /\ ch[s].appc = 0 /\ "close" \notin sig[s] /\ ch[s].netc = ch[s].shutdown
  BY <1>2, AtWork DEF Leaving
<1>4. All.ch = ch /\ All.sig = sig /\ All.cur = cur /\ All.avail = avail
  BY AllIs
<1>5. {"run", "write", "wcond", "bufwait"} \subseteq Places
  BY DEF Places
<1>6. MayTake(All) => avail # 0
  BY <1>1, <1>4 DEF MayTake
<1>7. 0 < FragMax /\ 0 \in Nat
  BY NetConstants
\* After a flush and before a move: only the signals have grown.
<1>8. ASSUME NEW x \in Rec, NEW p \in Places, NEW y,
             Within(All, x, s), x.ch[s].pc = ch[s].pc, x.ch[s].up = ch[s].up,
             x.ch[s].appc = ch[s].appc, x.ch[s].netc = ch[s].netc, x.ch[s].rx = ch[s].rx,
             x.ch[s].tx = ch[s].tx, x.ch[s].shutdown = ch[s].shutdown,
             p \notin Leaving, p = "bufwait" => x.ch[s].tx = 0 /\ x.ch[s].left # 0,
             y = Goto(Flush(x, s), s, p) \/ y = Sleep(Flush(x, s), s, p), Becomes(y)
      PROVE  IInv'
  <2> DEFINE z == Flush(x, s)
  <2>1. QueueOk(x) /\ x.avail = avail /\ x.cur = cur /\ x.sig = sig
    BY <1>1, <1>4, <1>8 DEF QueueOk, Within
  <2>2. /\ z \in Rec /\ QueueOk(z) /\ z.avail = x.avail /\ z.cur = x.cur
        /\ \A u \in Streams \ {s} : z.ch[u] = x.ch[u] /\ z.sig[u] = x.sig[u]
        /\ z.sig[s] = x.sig[s] \cup {"pull"}
        /\ z.ch[s].pc = x.ch[s].pc /\ z.ch[s].up = x.ch[s].up /\ z.ch[s].appc = x.ch[s].appc
        /\ z.ch[s].netc = x.ch[s].netc /\ z.ch[s].rx = x.ch[s].rx
        /\ z.ch[s].tx = x.ch[s].tx /\ z.ch[s].shutdown = x.ch[s].shutdown
        /\ z.ch[s].left = x.ch[s].left
    BY <1>8, <2>1, FlushIs
  <2>3. y = Goto(z, s, p) \/ y = Sleep(z, s, p)
    BY <1>8
  <2> HIDE DEF z
  <2>4. /\ Within(z, y, s)
        /\ y.ch[s].pc = p /\ y.ch[s].up = z.ch[s].up /\ y.ch[s].appc = z.ch[s].appc
        /\ y.ch[s].netc = z.ch[s].netc /\ y.ch[s].rx = z.ch[s].rx /\ y.ch[s].tx = z.ch[s].tx
        /\ y.ch[s].shutdown = z.ch[s].shutdown /\ y.ch[s].left = z.ch[s].left
    <3>1. CASE y = Goto(z, s, p)
      BY <2>2, <3>1, GotoIs
    <3>2. CASE y = Sleep(z, s, p)
      BY <2>2, <3>2, SleepIs
    <3> QED
      BY <2>3, <3>1, <3>2
  <2>5. /\ y \in Rec /\ QueueOk(y) /\ y.cur = cur /\ y.avail = avail
        /\ \A u \in Streams \ {s} : y.ch[u] = ch[u] /\ y.sig[u] = sig[u]
        /\ y.sig[s] = sig[s] \cup {"pull"}
    <3>1. \A u \in Streams \ {s} : x.ch[u] = ch[u]
      BY <1>4, <1>8 DEF Within
    <3>2. \A u \in Streams : y.sig[u] = z.sig[u]
      BY <2>4 DEF Within
    <3> QED
      BY <2>1, <2>2, <2>4, <3>1, <3>2 DEF Within, QueueOk
  <2>6. ChanOk(y.ch[s], y.sig[s]) /\ Load(y.ch[s]) = Load(ch[s])
    BY <1>3, <1>8, <2>2, <2>4, <2>5 DEF ChanOk, Load, Leaving
  <2> QED
    <3>1. y.ch[s].up = ch[s].up /\ y.ch[s].netc = ch[s].netc /\ y.ch[s].rx = ch[s].rx
      BY <1>8, <2>2, <2>4
    <3>2. Becomes(y)
      BY <1>8
    <3> QED
      BY <1>1, <1>2, <2>5, <2>6, <3>1, <3>2, ServiceStep
<1>9. CASE ch[s].left = 0 \/ ch[s].shutdown
  <2>0. PICK n \in Nat : n = 0
    BY <1>7
  <2> DEFINE z == Left(All, s, n)
             y == Goto(z, s, "run")
  <2>1. Becomes(y)
    BY <1>9, <2>0 DEF pushpull_stream_write, Left
  <2>2. /\ Within(All, z, s)
        /\ z.ch[s].pc = ch[s].pc /\ z.ch[s].up = ch[s].up /\ z.ch[s].appc = ch[s].appc
        /\ z.ch[s].netc = ch[s].netc /\ z.ch[s].rx = ch[s].rx /\ z.ch[s].tx = ch[s].tx
        /\ z.ch[s].shutdown = ch[s].shutdown
    BY <1>1, <1>4, LeftIs
  <2> HIDE DEF z
  <2>3. z \in Rec
    BY <2>2 DEF Within
  <2>4. /\ Within(z, y, s)
        /\ y.ch[s].pc = "run" /\ y.ch[s].up = z.ch[s].up /\ y.ch[s].appc = z.ch[s].appc
        /\ y.ch[s].netc = z.ch[s].netc /\ y.ch[s].rx = z.ch[s].rx /\ y.ch[s].tx = z.ch[s].tx
        /\ y.ch[s].shutdown = z.ch[s].shutdown
    BY <1>5, <2>3, GotoIs
  <2> HIDE DEF y
  <2>5. /\ y \in Rec /\ QueueOk(y) /\ y.sig = sig /\ y.cur = cur /\ y.avail = avail
        /\ \A u \in Streams \ {s} : y.ch[u] = ch[u]
    BY <1>1, <1>4, <2>2, <2>4 DEF Within, QueueOk
  <2>6. ChanOk(y.ch[s], y.sig[s]) /\ Load(y.ch[s]) = Load(ch[s])
    BY <1>3, <2>2, <2>4, <2>5 DEF ChanOk, Load, Leaving
  <2> QED
    BY <1>1, <1>2, <2>1, <2>2, <2>4, <2>5, <2>6, ServiceStep
<1>10. CASE /\ ch[s].left # 0 /\ ~ch[s].shutdown
            /\ ch[s].tx < FragMax /\ MayTake(All)
  <2>1. Becomes(Goto(Fill(All, s), s, "write"))
    BY <1>10 DEF pushpull_stream_write
  <2> QED
    BY <1>2, <1>6, <1>10, <2>1, FillKeeps
<1>11. CASE /\ ch[s].left # 0 /\ ~ch[s].shutdown /\ ch[s].tx = 0 /\ ~MayTake(All)
            /\ s \notin Waiters
  <2>0. PICK n \in Nat : n = 0
    BY <1>7
  <2> DEFINE z == Left(All, s, n)
  <2>1. Becomes(Goto(Flush(z, s), s, "run"))
    BY <1>11, <2>0 DEF pushpull_stream_write, Left
  <2>2. /\ Within(All, z, s)
        /\ z.ch[s].pc = ch[s].pc /\ z.ch[s].up = ch[s].up /\ z.ch[s].appc = ch[s].appc
        /\ z.ch[s].netc = ch[s].netc /\ z.ch[s].rx = ch[s].rx /\ z.ch[s].tx = ch[s].tx
        /\ z.ch[s].shutdown = ch[s].shutdown
    BY <1>1, <1>4, LeftIs
  <2> HIDE DEF z
  <2>3. z \in Rec
    BY <2>2 DEF Within
  <2> QED
    BY <1>5, <1>8, <2>1, <2>2, <2>3 DEF Leaving
<1>12. Within(All, All, s)
  BY <1>1 DEF Within
<1>13. CASE /\ ch[s].left # 0 /\ ~ch[s].shutdown /\ ch[s].tx = 0 /\ ~MayTake(All)
            /\ s \in Waiters
  <2>1. Becomes(Goto(Flush(All, s), s, "bufwait"))
    BY <1>13 DEF pushpull_stream_write
  <2> QED
    BY <1>1, <1>4, <1>5, <1>8, <1>12, <1>13, <2>1 DEF Leaving
<1>14. CASE /\ ch[s].left # 0 /\ ~ch[s].shutdown /\ ch[s].tx # 0
            /\ ~(ch[s].tx < FragMax /\ MayTake(All))
  <2>1. Becomes(Sleep(Flush(All, s), s, "wcond"))
    BY <1>14 DEF pushpull_stream_write
  <2> QED
    BY <1>1, <1>4, <1>5, <1>8, <1>12, <2>1 DEF Leaving
<1> QED
  BY <1>7, <1>9, <1>10, <1>11, <1>13, <1>14

LEMMA PoolGetKeeps ==
  ASSUME IInv, NEW s \in Streams, pbuf_pool_get(s)
  PROVE  IInv'
<1>1. /\ All \in Rec /\ QueueOk(All) /\ ch[s] \in Chan /\ avail \in Nat
      /\ ChanOk(ch[s], sig[s]) /\ \A u \in Streams : Same(ch[u], ch[u])
  BY AtWork
<1>2. ch[s].pc = "bufwait" /\ UNCHANGED <<net, rxq, link>>
  BY DEF pbuf_pool_get, App
<1>3. ch[s].tx = 0 /\ ch[s].left # 0
  BY <1>1, <1>2 DEF ChanOk
<1>4. All.ch = ch /\ All.sig = sig /\ All.cur = cur /\ All.avail = avail
  BY AllIs
<1>5. CASE avail = 0
  <2> DEFINE z == Sleep(All, s, "bufwait")
             q == Append(z.sleepers, s)
             y == [z EXCEPT !.sleepers = q]
  <2>1. Becomes(y) /\ "bufwait" \in Places
    BY <1>5 DEF pbuf_pool_get, Places
  <2>2. /\ Within(All, z, s)
        /\ z.ch[s].pc = "bufwait" /\ z.ch[s].up = ch[s].up /\ z.ch[s].appc = ch[s].appc
        /\ z.ch[s].netc = ch[s].netc /\ z.ch[s].rx = ch[s].rx /\ z.ch[s].tx = ch[s].tx
        /\ z.ch[s].shutdown = ch[s].shutdown /\ z.ch[s].left = ch[s].left
    BY <1>1, <1>4, <2>1, SleepIs
  <2> HIDE DEF z
  <2>3. z \in Rec
    BY <2>2 DEF Within
  <2>4. q \in Seq(Streams)
    BY <2>3, AppendSet DEF Rec
  <2> HIDE DEF q
  <2>5. /\ y \in Rec /\ y.avail = z.avail /\ y.tasks = z.tasks /\ y.sig = z.sig /\ y.cur = z.cur
        /\ y.ch = z.ch
    BY <2>3, <2>4 DEF Rec
  <2> HIDE DEF y
  <2>6. /\ QueueOk(y) /\ y.sig = sig /\ y.cur = cur /\ y.avail = avail
        /\ \A u \in Streams \ {s} : y.ch[u] = ch[u]
    BY <1>1, <1>4, <2>2, <2>5 DEF Within, QueueOk
  <2>7. ChanOk(y.ch[s], y.sig[s]) /\ Load(y.ch[s]) = Load(ch[s])
    BY <1>1, <1>2, <2>2, <2>5, <2>6 DEF ChanOk, Load
  <2> QED
    BY <1>1, <1>2, <2>1, <2>2, <2>5, <2>6, <2>7, ServiceStep
<1>6. CASE avail # 0
  <2>1. Becomes(Goto(Fill(All, s), s, "write")) /\ ch[s].tx < FragMax
    BY <1>3, <1>6, NetConstants DEF pbuf_pool_get
  <2> QED
    BY <1>2, <1>3, <1>6, <2>1, FillKeeps
<1> QED
  BY <1>5, <1>6

LEMMA DestroyKeeps ==
  ASSUME IInv, NEW s \in Streams, pushpull_stream_destroy(s)
  PROVE  IInv'
<1>1. /\ All \in Rec /\ QueueOk(All) /\ ChanOk(ch[s], sig[s])
      /\ \A u \in Streams : Same(ch[u], ch[u])
  BY AtWork
<1>2. ch[s].pc = "run" /\ UNCHANGED <<net, rxq, link>>
  BY DEF pushpull_stream_destroy, App
<1>3. /\ ch[s].up /\ ch[s].appc = 0 /\ ch[s].netc = ch[s].shutdown
  BY <1>2, AtWork DEF Leaving
<1>4. All.ch = ch /\ All.sig = sig /\ All.cur = cur /\ All.avail = avail
  BY AllIs
<1>5. "closing" \in Places /\ "close" \in Sigs /\ s \in Tasks /\ Streams \ {s} \subseteq Tasks \ {s}
  BY DEF Places, Leaving, Sigs, Tasks
<1> DEFINE z == net_task_raise(All, s, "close")
           y == Goto(z, s, "closing")
<1>6. Becomes(y)
  BY DEF pushpull_stream_destroy
<1>7. /\ z \in Rec /\ QueueOk(z) /\ z.avail = avail /\ z.cur = cur /\ z.ch = ch
      /\ z.sig[s] = sig[s] \cup {"close"} /\ \A u \in Tasks \ {s} : z.sig[u] = sig[u]
  BY <1>1, <1>4, <1>5, RaiseIs
<1> HIDE DEF z
<1>8. /\ Within(z, y, s)
      /\ y.ch[s].pc = "closing" /\ y.ch[s].up = z.ch[s].up /\ y.ch[s].appc = z.ch[s].appc
      /\ y.ch[s].netc = z.ch[s].netc /\ y.ch[s].rx = z.ch[s].rx /\ y.ch[s].tx = z.ch[s].tx
      /\ y.ch[s].shutdown = z.ch[s].shutdown
  BY <1>5, <1>7, GotoIs
<1> HIDE DEF y
<1>9. /\ y \in Rec /\ QueueOk(y) /\ y.cur = cur /\ y.avail = avail
      /\ \A u \in Streams \ {s} : y.ch[u] = ch[u] /\ y.sig[u] = sig[u]
  BY <1>5, <1>7, <1>8 DEF Within, QueueOk
<1>10. ChanOk(y.ch[s], y.sig[s]) /\ Load(y.ch[s]) = Load(ch[s])
  BY <1>3, <1>7, <1>8 DEF ChanOk, Load, Leaving
<1> QED
  BY <1>1, <1>2, <1>6, <1>7, <1>8, <1>9, <1>10, ServiceStep

LEMMA WaitShutdownKeeps ==
  ASSUME IInv, NEW s \in Streams, pushpull_stream_wait_shutdown(s)
  PROVE  IInv'
<1>1. /\ All \in Rec /\ QueueOk(All) /\ ch[s] \in Chan /\ avail \in Nat
      /\ ChanOk(ch[s], sig[s]) /\ \A u \in Streams : Same(ch[u], ch[u])
  BY AtWork
<1>2. ch[s].pc = "closing" /\ UNCHANGED <<net, rxq, link>>
  BY DEF pushpull_stream_wait_shutdown, App
<1>3. ch[s].netc = ch[s].shutdown
  BY <1>1 DEF ChanOk
<1>4. All.ch = ch /\ All.sig = sig /\ All.cur = cur /\ All.avail = avail
  BY AllIs
<1>5. "closing" \in Places /\ "gone" \in Places
  BY DEF Places, Leaving
<1>6. CASE ~ch[s].shutdown
  <2> DEFINE y == Sleep(All, s, "closing")
  <2>1. Becomes(y)
    BY <1>6 DEF pushpull_stream_wait_shutdown
  <2>2. /\ Within(All, y, s)
        /\ y.ch[s].pc = "closing" /\ y.ch[s].up = ch[s].up /\ y.ch[s].appc = ch[s].appc
        /\ y.ch[s].netc = ch[s].netc /\ y.ch[s].rx = ch[s].rx /\ y.ch[s].tx = ch[s].tx
        /\ y.ch[s].shutdown = ch[s].shutdown
    BY <1>1, <1>4, <1>5, SleepIs
  <2> HIDE DEF y
  <2>3. /\ y \in Rec /\ QueueOk(y) /\ y.sig = sig /\ y.cur = cur /\ y.avail = avail
        /\ \A u \in Streams \ {s} : y.ch[u] = ch[u]
    BY <1>1, <1>4, <2>2 DEF Within, QueueOk
  <2>4. ChanOk(y.ch[s], y.sig[s]) /\ Load(y.ch[s]) = Load(ch[s])
    BY <1>1, <1>2, <2>2, <2>3 DEF ChanOk, Load
  <2> QED
    BY <1>1, <1>2, <2>1, <2>2, <2>3, <2>4, ServiceStep
<1>7. CASE ch[s].shutdown
  <2> DEFINE v == Goto(All, s, "gone")
             z == [v EXCEPT !.ch[s].rx = 0, !.ch[s].tx = 0]
             n == ch[s].rx + ch[s].tx
             y == pbuf_free(z, n)
             d == [v.ch[s] EXCEPT !.rx = 0, !.tx = 0]
  <2>1. Becomes(y)
    BY <1>7 DEF pushpull_stream_wait_shutdown
  <2>2. n \in Nat
    BY <1>1, NetConstants DEF Chan
  <2>3. /\ Within(All, v, s) /\ v.ch[s] \in Chan
        /\ v.ch[s].pc = "gone" /\ v.ch[s].up = ch[s].up /\ v.ch[s].appc = ch[s].appc
        /\ v.ch[s].netc = ch[s].netc /\ v.ch[s].shutdown = ch[s].shutdown
    BY <1>1, <1>4, <1>5, GotoIs
  <2> HIDE DEF v, n
  <2>4. v \in Rec /\ v.ch \in [Streams -> Chan]
    BY <2>3 DEF Within, Rec
  <2>5. z = SetTo(v, s, d)
    <3> DEFINE e == [v.ch[s] EXCEPT !.rx = 0]
               f == [v.ch EXCEPT ![s] = e]
               w == [v EXCEPT !.ch = f]
    <3>1. f[s] = e /\ w.ch = f
      BY <2>4 DEF Rec
    <3>2. z = [w EXCEPT !.ch = [w.ch EXCEPT ![s] = [w.ch[s] EXCEPT !.tx = 0]]]
      OBVIOUS
    <3>3. d = [e EXCEPT !.tx = 0]
      OBVIOUS
    <3>4. [f EXCEPT ![s] = d] = [v.ch EXCEPT ![s] = d]
      BY <2>4
    <3>5. z = [w EXCEPT !.ch = [v.ch EXCEPT ![s] = d]]
      BY <3>1, <3>2, <3>3, <3>4
    <3> HIDE DEF f, d, z
    <3> QED
      BY <2>4, <3>5 DEF Rec, SetTo
  <2>6. /\ d \in Chan /\ d.pc = v.ch[s].pc /\ d.up = v.ch[s].up /\ d.appc = v.ch[s].appc
        /\ d.netc = v.ch[s].netc /\ d.shutdown = v.ch[s].shutdown /\ d.rx = 0 /\ d.tx = 0
    <3>1. 0 \in 0 .. FragMax /\ 0 \in 0 .. 1
      BY NetConstants
    <3>2. \A c \in Chan :
            LET e == [c EXCEPT !.rx = 0, !.tx = 0] IN
            /\ e \in Chan /\ e.pc = c.pc /\ e.up = c.up /\ e.appc = c.appc
            /\ e.netc = c.netc /\ e.shutdown = c.shutdown /\ e.rx = 0 /\ e.tx = 0
      BY <3>1 DEF Chan
    <3> QED
      BY <2>3, <3>2
  <2> HIDE DEF d, z
  <2>7. Within(v, z, s) /\ z.ch[s] = d
    BY <2>4, <2>5, <2>6, WithinSet
  <2>8. /\ z \in Rec /\ QueueOk(z) /\ z.sig = sig /\ z.cur = cur /\ z.avail = avail
        /\ \A u \in Streams \ {s} : z.ch[u] = ch[u]
    BY <1>1, <1>4, <2>3, <2>7 DEF Within, QueueOk
  <2>9. /\ y \in Rec /\ QueueOk(y) /\ y.avail = z.avail + n /\ y.cur = z.cur
        /\ \A u \in Streams : y.sig[u] = z.sig[u] /\ Same(y.ch[u], z.ch[u])
    BY <2>2, <2>8, FreeIs
  <2> HIDE DEF y
  <2>10. /\ y.ch[s].pc = "gone" /\ y.ch[s].up = ch[s].up /\ y.ch[s].appc = ch[s].appc
         /\ y.ch[s].netc = ch[s].netc /\ y.ch[s].rx = 0 /\ y.ch[s].tx = 0
         /\ y.ch[s].shutdown = ch[s].shutdown /\ y.sig[s] = sig[s]
    BY <2>3, <2>6, <2>7, <2>8, <2>9 DEF Same
  <2>11. ChanOk(y.ch[s], y.sig[s])
    BY <1>1, <1>2, <1>3, <1>7, <2>10 DEF ChanOk, Leaving
  <2>12. \A u \in Streams \ {s} : y.sig[u] = sig[u] /\ Same(y.ch[u], ch[u])
    BY <2>8, <2>9
  <2>13. y.avail + Load(y.ch[s]) = avail + Load(ch[s])
    <3>1. Load(y.ch[s]) = 0 /\ Load(ch[s]) = n
      BY <2>10 DEF Load, n
    <3> QED
      BY <1>1, <2>2, <2>8, <2>9, <3>1
  <2>14. y.cur = cur
    BY <2>8, <2>9
  <2> QED
    BY <1>2, <2>1, <2>9, <2>10, <2>11, <2>12, <2>13, <2>14, ServiceStep
<1> QED
  BY <1>6, <1>7

LEMMA ServiceKeeps ==
  ASSUME IInv, NEW s \in Streams, Service(s)
  PROVE  IInv'
BY ReadKeeps, FlushKeeps, WriteStartKeeps, WriteKeeps, PoolGetKeeps, DestroyKeeps, WaitShutdownKeeps
   DEF Service

-----------------------------------------------------------------------------
(* The network thread *)

LEMMA Counts ==
  ASSUME IInv
  PROVE  /\ All \in Rec /\ QueueOk(All) /\ RecOk(All) /\ NetOk
         /\ avail \in Nat /\ cur \in Nat /\ cur \in 0 .. FragMax /\ Len(rxq) \in Nat
         /\ est \in Seq(Channels) /\ rxq \in Seq(Packet)
         /\ net.todo \in Seq(Channels) /\ net.hand \in 0 .. 1 /\ cmcq \in Nat /\ lost \in Nat
<1>1. RecOk(All) /\ NetOk /\ rxq \in Seq(Packet)
  BY DEF IInv
<1>2. All \in Rec /\ QueueOk(All)
  BY <1>1 DEF RecOk
<1>3. avail \in Nat /\ cur \in 0 .. FragMax /\ est \in Seq(Channels)
  BY <1>2, AllIs DEF Rec
<1>4. cur \in Nat
  BY <1>3, NetConstants
<1>5. Len(rxq) \in Nat
  BY <1>1, LenProperties
<1>6. net.todo \in Seq(Channels) /\ net.hand \in 0 .. 1 /\ cmcq \in Nat /\ lost \in Nat
  BY <1>1 DEF NetOk, NetRec
<1> QED
  BY <1>1, <1>2, <1>3, <1>4, <1>5, <1>6

LEMMA Numbers ==
  ASSUME IInv
  PROVE  avail \in Nat /\ cur \in Nat /\ Len(rxq) \in Nat /\ Hands \in Nat
<1>1. avail \in Nat /\ cur \in Nat /\ Len(rxq) \in Nat
  BY Counts
<1>2. net.hand \in 0 .. 1 /\ cmcq \in Nat /\ lost \in Nat
  BY Counts
<1> QED
  BY <1>1, <1>2 DEF Hands, Copy

\* The network thread goes to a place where it has no copy of a message.
LEMMA NetGoesIs ==
  ASSUME NetOk, NEW p \in {"loop", "rx", "tx", "down", "resyn"}, NEW q \in Seq(Channels),
         p \in {"down", "resyn"} => q \in Seq(Streams),
         net.pc \in {"loop", "rx"} \/ (net.pc = "tx" /\ p = "tx")
           \/ (net.pc \in {"down", "resyn"} /\ p = net.pc),
         NetGoes(p, q), UNCHANGED link
  PROVE  NetOk' /\ Hands' = Hands
<1>1. net \in NetRec /\ cmcq \in Nat /\ lost \in Nat /\ (p \in {"loop", "rx"} => net.hand = 0)
  BY DEF NetOk
<1>2. net' = [net EXCEPT !.pc = p, !.todo = q] /\ cmcq' = cmcq /\ lost' = lost
  BY DEF NetGoes, link
<1>3. /\ net'.pc = p /\ net'.hand = net.hand /\ net'.s = net.s /\ net'.todo = q
      /\ net' \in NetRec
  BY <1>1, <1>2 DEF NetRec
<1>4. NetOk'
  BY <1>1, <1>2, <1>3 DEF NetOk, NetRec, Channels, Cmc, Copying
<1>5. net.pc \notin Copying /\ net'.pc \notin Copying
  BY <1>3 DEF Copying
<1> QED
  BY <1>2, <1>3, <1>4, <1>5 DEF Hands, Copy, Copying

\* The network thread has a copy of a message, or has done with it.
LEMMA NetIsNow ==
  ASSUME NEW n \in NetRec, NEW m, net' = n, cmcq' \in Nat, lost' \in Nat,
         n.pc \in {"loop", "rx"} => n.hand = 0,
         n.pc \in {"open", "close"} => n.s \in Streams,
         n.pc \in {"down", "resyn"} => n.todo \in Seq(Streams),
         n.pc = "data" => /\ n.s \in Streams
                         /\ ch'[n.s].up /\ ~ch'[n.s].netc /\ ch'[n.s].rx = 0,
         m = IF n.pc \in Copying THEN 1 ELSE 0
  PROVE  NetOk' /\ Hands' = n.hand + m + (cmcq' + lost')
<1>1. NetOk'
  BY DEF NetOk, NetRec, Channels, Cmc, Copying
<1> QED
  BY <1>1 DEF Hands, Copy, Copying

\* Nothing but the place of the network thread changes.
LEMMA StillStep ==
  ASSUME IInv, Becomes(All), rxq' = rxq, NetOk', Hands' = Hands
  PROVE  IInv'
<1>1. All \in Rec /\ QueueOk(All) /\ RecOk(All) /\ rxq \in Seq(Packet)
  BY Counts
<1>2. All.ch = ch /\ All.cur = cur /\ All.avail = avail
  BY AllIs
<1>3. avail' = avail /\ cur' = cur
  BY DEF Becomes, All
<1>4. Loose' = Loose
  BY <1>3 DEF Loose, Busy
<1>5. \A u \in Streams : ChanOk(All.ch[u], All.sig[u]) /\ Load(All.ch[u]) = Load(ch[u])
  BY <1>1, <1>2 DEF RecOk
<1>6. rxq' \in Seq(Packet)
  BY <1>1
<1> QED
  BY <1>1, <1>4, <1>5, <1>6, QuietStep

LEMMA NetifKeeps ==
  ASSUME IInv, netif_task_cb
  PROVE  IInv'
<1>1. NetOk /\ net.pc = "rx" /\ Becomes(All) /\ rxq' = rxq /\ UNCHANGED link /\ NetGoes("loop", <<>>)
  BY Counts DEF netif_task_cb, Net
<1>2. <<>> \in Seq(Channels)
  OBVIOUS
<1> QED
  BY <1>1, <1>2, NetGoesIs, StillStep

\* SetToSeq enumerates a finite set.
LEMMA SetToSeqIs ==
  ASSUME NEW S, IsFiniteSet(S)
  PROVE  SetToSeq(S) \in Seq(S)
<1>1. Cardinality(S) \in Nat /\ ExistsBijection(1 .. Cardinality(S), S)
  BY FS_CardinalityType
<1>2. \E f \in [1 .. Cardinality(S) -> S] : IsInjective(f)
  BY <1>1 DEF ExistsBijection, Bijection, Injection
<1>3. SetToSeq(S) \in [1 .. Cardinality(S) -> S]
  BY <1>2 DEF SetToSeq
<1> QED
  BY <1>1, <1>3

LEMMA ListedChannelsIs == ListedChannels \in Seq(Streams) /\ ListedChannels \in Seq(Channels)
<1> DEFINE a == SetToSeq(Streams)
           b == {s \in Streams : ~Listed(s)}
<1>1. a \in Seq(Streams)
  BY SetToSeqIs, NetConstants
<1> HIDE DEF a, b
<1>2. Without(a, b) \in Seq(Streams)
  BY <1>1, WithoutSet
<1>3. Seq(Streams) \subseteq Seq(Channels)
  BY DEF Channels
<1> QED
  BY <1>2, <1>3 DEF a, b, ListedChannels

LEMMA TimeoutKeeps ==
  ASSUME IInv, vllp_timeout_timer
  PROVE  IInv'
<1>1. /\ NetOk /\ net.pc = "loop" /\ Becomes(All) /\ rxq' = rxq /\ UNCHANGED link
      /\ NetGoes("down", ListedChannels)
  BY Counts DEF vllp_timeout_timer, Net
<1> DEFINE q == ListedChannels
<1>2. q \in Seq(Streams) /\ q \in Seq(Channels) /\ NetGoes("down", q)
  BY <1>1, ListedChannelsIs
<1> HIDE DEF q
<1> QED
  BY <1>1, <1>2, NetGoesIs, StillStep

LEMMA NetThreadKeeps ==
  ASSUME IInv, net_thread
  PROVE  IInv'
<1>1. /\ All \in Rec /\ QueueOk(All) /\ RecOk(All) /\ NetOk /\ avail \in Nat /\ cur \in Nat
      /\ est \in Seq(Channels) /\ rxq \in Seq(Packet)
  BY Counts
<1>2. net.pc = "loop" /\ rxq' = rxq /\ tasks # <<>> /\ UNCHANGED link
  BY DEF net_thread, Net
<1>3. /\ All.ch = ch /\ All.sig = sig /\ All.cur = cur /\ All.avail = avail /\ All.tasks = tasks
      /\ All.est = est
  BY AllIs
<1> DEFINE t == Head(tasks)
           q == Tail(All.tasks)
           g == [All.sig EXCEPT ![t] = {}]
           x == [All EXCEPT !.tasks = Tail(@), !.sig[t] = {}]
<1>4. /\ tasks \in Seq(Tasks) /\ sig \in [Tasks -> SUBSET Sigs] /\ IsInjective(tasks)
      /\ ToSet(tasks) = {u \in Tasks : sig[u] # {}}
  BY <1>1, <1>3 DEF QueueOk, Rec
<1>5. /\ t \in Tasks /\ q \in Seq(Tasks) /\ IsInjective(q) /\ ToSet(q) = ToSet(tasks) \ {t}
  BY <1>2, <1>3, <1>4, TailSet
<1>6. x = [All EXCEPT !.tasks = q, !.sig = g]
  OBVIOUS
<1> HIDE DEF t, q
<1>7. /\ g \in [Tasks -> SUBSET Sigs] /\ g[t] = {} /\ \A u \in Tasks \ {t} : g[u] = sig[u]
  BY <1>3, <1>4, <1>5
<1> HIDE DEF g, x
<1>8. /\ x \in Rec /\ x.tasks = q /\ x.sig = g /\ x.avail = avail /\ x.cur = cur /\ x.ch = ch
      /\ x.est = est
  BY <1>1, <1>3, <1>5, <1>6, <1>7 DEF Rec
<1>9. QueueOk(x)
  <2>1. {u \in Tasks : g[u] # {}} = {u \in Tasks : sig[u] # {}} \ {t}
    BY <1>7
  <2> QED
    BY <1>4, <1>5, <1>8, <2>1 DEF QueueOk
<1>10. \A u \in Streams : ChanOk(ch[u], sig[u]) /\ u \in Tasks
  BY <1>1, <1>3 DEF RecOk, Tasks
<1>11. \A u \in Streams : ChanOk(x.ch[u], x.sig[u])
  BY <1>7, <1>8, <1>10 DEF ChanOk
<1>12. ASSUME NEW y \in Rec, QueueOk(y), Becomes(y), y.avail = avail, y.cur = cur,
              \A u \in Streams : ChanOk(y.ch[u], y.sig[u]) /\ Load(y.ch[u]) = Load(ch[u]),
              NetOk', Hands' = Hands
       PROVE  IInv'
  <2>1. avail' = avail /\ cur' = cur
    BY <1>12, BecomesIs
  <2>2. Loose' = Loose
    BY <1>2, <1>12, <2>1 DEF Loose, Busy
  <2>3. rxq' \in Seq(Packet)
    BY <1>1, <1>2
  <2> QED
    BY <1>12, <2>2, <2>3, QuietStep
<1>13. ASSUME UNCHANGED net, ch' = ch PROVE NetOk' /\ Hands' = Hands
  BY <1>1, <1>2, <1>13 DEF NetOk, NetRec, Channels, Cmc, Hands, Copy, Copying, link
<1>14. ASSUME Becomes(x), NetOk', Hands' = Hands PROVE IInv'
  BY <1>8, <1>9, <1>11, <1>12, <1>14
<1>15. CASE t = Netif
  <2>1. Becomes(x) /\ NetGoes("rx", <<>>)
    BY <1>15, NetConstants DEF net_thread, t, x, Netif, Netbuf
  <2>2. <<>> \in Seq(Channels)
    OBVIOUS
  <2> QED
    BY <1>1, <1>2, <1>14, <2>1, <2>2, NetGoesIs
<1>16. CASE t = Netbuf
  <2>1. Becomes(x) /\ UNCHANGED net
    BY <1>16, NetConstants DEF net_thread, t, x, Netif, Netbuf
  <2>2. ch' = ch
    BY <1>8, <2>1, BecomesIs
  <2> QED
    BY <1>13, <1>14, <2>1, <2>2
<1>17. CASE t \in Streams /\ "close" \notin sig[t]
  <2>1. Becomes(x) /\ ToTransmit
    BY <1>17, NetConstants DEF net_thread, t, x
  <2>2. est' \in Seq(Channels)
    BY <1>1, <1>8, <2>1, BecomesIs
  <2> QED
    BY <1>1, <1>2, <1>14, <2>1, <2>2, NetGoesIs DEF ToTransmit
<1>18. CASE t \in Streams /\ "close" \in sig[t] /\ ch[t].appc # 0
  <2>1. Becomes(x) /\ UNCHANGED net
    BY <1>18, NetConstants DEF net_thread, t, x
  <2>2. ch' = ch
    BY <1>8, <2>1, BecomesIs
  <2> QED
    BY <1>13, <1>14, <2>1, <2>2
<1>19. CASE t \in Streams /\ "close" \in sig[t] /\ ch[t].appc = 0
  <2> DEFINE d == [x.ch[t] EXCEPT !.appc = 1]
             y == SetTo(x, t, d)
  <2>1. Becomes(y) /\ ToTransmit
    BY <1>19, NetConstants DEF net_thread, t, x, SetTo
  <2>2. /\ d \in Chan /\ d.up = ch[t].up /\ d.appc = 1 /\ d.netc = ch[t].netc /\ d.rx = ch[t].rx
        /\ d.tx = ch[t].tx /\ d.shutdown = ch[t].shutdown /\ d.pc = ch[t].pc
        /\ d.left = ch[t].left
    <3>1. x.ch[t] \in Chan
      BY <1>8, <1>19 DEF Rec
    <3> QED
      BY <1>8, <3>1 DEF Chan
  <2> HIDE DEF d
  <2>3. Within(x, y, t) /\ y.ch[t] = d
    BY <1>8, <1>19, <2>2, WithinSet
  <2> HIDE DEF y
  <2>4. /\ y \in Rec /\ QueueOk(y) /\ y.avail = avail /\ y.cur = cur /\ y.est = est
        /\ y.sig = g /\ \A u \in Streams \ {t} : y.ch[u] = ch[u]
    BY <1>8, <1>9, <2>3 DEF Within, QueueOk
  <2>5. \A u \in Streams : ChanOk(y.ch[u], y.sig[u]) /\ Load(y.ch[u]) = Load(ch[u])
    <3>1. ChanOk(y.ch[t], y.sig[t]) /\ Load(y.ch[t]) = Load(ch[t])
      BY <1>7, <1>10, <1>19, <2>2, <2>3, <2>4 DEF ChanOk, Load
    <3> QED
      BY <1>8, <1>11, <2>4, <3>1
  <2>6. est' \in Seq(Channels)
    BY <1>1, <2>1, <2>4, BecomesIs
  <2> QED
    BY <1>1, <1>2, <1>12, <2>1, <2>4, <2>5, <2>6, NetGoesIs DEF ToTransmit
<1> QED
  BY <1>5, <1>15, <1>16, <1>17, <1>18, <1>19 DEF Tasks

\* The next packet leaves ni_rx_queue.
LEMMA ReceivesIs ==
  ASSUME IInv, NEW T, Receives(T)
  PROVE  /\ net.pc = "rx" /\ net.hand = 0 /\ rxq' \in Seq(Packet) /\ Len(rxq') \in Nat
         /\ Len(rxq) = Len(rxq') + 1 /\ Head(rxq).t \in T /\ Head(rxq) \in Packet
         /\ Hands = cmcq + lost
<1>1. net.pc = "rx" /\ rxq # <<>> /\ Head(rxq).t \in T /\ rxq' = Tail(rxq)
  BY DEF Receives
<1>2. rxq \in Seq(Packet) /\ net.hand = 0 /\ cmcq \in Nat /\ lost \in Nat
  BY <1>1 DEF IInv, NetOk
<1>3. Head(rxq) \in Packet /\ Tail(rxq) \in Seq(Packet) /\ Len(Tail(rxq)) = Len(rxq) - 1
  BY <1>1, <1>2, HeadTailProperties
<1>4. Len(rxq) \in Nat /\ Len(rxq') \in Nat
  BY <1>1, <1>2, <1>3, LenProperties
<1>5. Hands = cmcq + lost
  BY <1>1, <1>2 DEF Hands, Copy, Copying
<1> QED
  BY <1>1, <1>2, <1>3, <1>4, <1>5

\* ... and is in the hands of the network thread, which goes on to transmit.
LEMMA TransmitsIs ==
  ASSUME NetOk, net.pc = "rx", est' \in Seq(Channels), Transmits, UNCHANGED link
  PROVE  NetOk' /\ Hands' = Hands + 1
<1>1. net \in NetRec /\ net.hand = 0 /\ cmcq \in Nat /\ lost \in Nat
  BY DEF NetOk
<1> DEFINE q == est'
           n == [net EXCEPT !.pc = "tx", !.hand = 1, !.todo = q]
<1>2. net' = n /\ cmcq' = cmcq /\ lost' = lost
  BY DEF Transmits, link
<1>3. q \in Seq(Channels) /\ 1 \in 0 .. 1
  OBVIOUS
<1> HIDE DEF q
<1>4. n.pc = "tx" /\ n.hand = 1 /\ n \in NetRec
  BY <1>1, <1>3 DEF NetRec
<1> HIDE DEF n
<1>5. "tx" \notin Copying
  BY DEF Copying
<1>6. NetOk' /\ Hands' = 1 + 0 + (cmcq + lost)
  BY <1>1, <1>2, <1>4, <1>5, NetIsNow
<1>7. Hands = 0 + 0 + (cmcq + lost)
  BY <1>1 DEF Hands, Copy, Copying
<1> QED
  BY <1>1, <1>6, <1>7

\* ... which goes on to transmit when it has done with the copy.
LEMMA ProcessedIs ==
  ASSUME NetOk, net.pc \in Copying, est' \in Seq(Channels), Processed, NEW k \in 0 .. 1,
         cmcq' = cmcq + k, lost' = lost
  PROVE  /\ NetOk' /\ Hands' \in Nat /\ Hands \in Nat
         /\ IF k = 0 THEN Hands' + 1 = Hands ELSE Hands' = Hands
<1>1. net \in NetRec /\ cmcq \in Nat /\ lost \in Nat /\ net.hand \in 0 .. 1
  BY DEF NetOk, NetRec
<1> DEFINE q == est'
           n == [net EXCEPT !.pc = "tx", !.s = None, !.todo = q]
<1>2. net' = n /\ cmcq' = cmcq + k /\ lost' = lost
  BY DEF Processed
<1>3. q \in Seq(Channels) /\ None \in Channels \cup {None}
  OBVIOUS
<1> HIDE DEF q
<1>4. n.pc = "tx" /\ n.hand = net.hand /\ n \in NetRec
  BY <1>1, <1>3 DEF NetRec
<1> HIDE DEF n
<1>5. "tx" \notin Copying
  BY DEF Copying
<1>6. cmcq' \in Nat /\ lost' \in Nat
  BY <1>1, <1>2
<1>7. NetOk' /\ Hands' = net.hand + 0 + (cmcq' + lost')
  BY <1>2, <1>4, <1>5, <1>6, NetIsNow
<1>8. Hands = net.hand + 1 + (cmcq + lost)
  BY DEF Hands, Copy
<1>9. Hands' = net.hand + 0 + ((cmcq + k) + lost)
  BY <1>2, <1>7
<1>10. PICK h \in Nat, c \in Nat, l \in Nat : h = net.hand /\ c = cmcq /\ l = lost
  BY <1>1
<1>11. Hands = h + 1 + (c + l) /\ Hands' = h + 0 + ((c + k) + l)
  BY <1>8, <1>9, <1>10
<1> QED
  BY <1>7, <1>11

\* A packet that is looked at and changes nothing.
LEMMA IgnoredKeeps ==
  ASSUME IInv, NEW T, Receives(T), Becomes(All), Transmits, UNCHANGED link
  PROVE  IInv'
<1>1. /\ All \in Rec /\ QueueOk(All) /\ RecOk(All) /\ NetOk /\ avail \in Nat /\ cur \in Nat
      /\ Len(rxq) \in Nat /\ est \in Seq(Channels)
  BY Counts
<1>2. /\ net.pc = "rx" /\ rxq' \in Seq(Packet) /\ Len(rxq') \in Nat /\ Len(rxq) = Len(rxq') + 1
  BY ReceivesIs
<1>3. avail' = avail /\ cur' = cur /\ est' = est /\ All.ch = ch
  BY AllIs DEF Becomes
<1>4. NetOk' /\ Hands' = Hands + 1
  BY <1>1, <1>2, <1>3, TransmitsIs
<1>5. Loose' = Loose
  <2>0. Hands \in Nat
    BY Numbers
  <2>1. Busy' = Busy
    BY <1>1, <1>2, <1>3, <1>4, <2>0 DEF Busy
  <2> QED
    BY <1>3, <2>1 DEF Loose
<1>6. \A u \in Streams : ChanOk(All.ch[u], All.sig[u]) /\ Load(All.ch[u]) = Load(ch[u])
  BY <1>1, <1>3 DEF RecOk
<1> QED
  BY <1>1, <1>2, <1>4, <1>5, <1>6, QuietStep

\* The buffer of a packet received returns to the pool.
LEMMA FreeOneIs ==
  ASSUME IInv, NEW n \in Nat
  PROVE  LET y == pbuf_free(All, n) IN
         /\ y \in Rec /\ QueueOk(y) /\ y.avail = avail + n /\ y.cur = cur /\ y.est = est
         /\ \A u \in Streams : ChanOk(y.ch[u], y.sig[u]) /\ Load(y.ch[u]) = Load(ch[u])
         /\ \A u \in Streams : Same(y.ch[u], ch[u])
<1> DEFINE y == pbuf_free(All, n)
<1>1. All \in Rec /\ QueueOk(All) /\ RecOk(All)
  BY Counts
<1>2. /\ All.ch = ch /\ All.sig = sig /\ All.cur = cur /\ All.avail = avail /\ All.est = est
  BY AllIs
<1>3. /\ y \in Rec /\ QueueOk(y) /\ y.avail = All.avail + n /\ y.cur = All.cur /\ y.est = All.est
      /\ \A u \in Streams : y.sig[u] = All.sig[u] /\ Same(y.ch[u], All.ch[u])
  BY <1>1, FreeIs
<1> HIDE DEF y
<1>4. \A u \in Streams : ChanOk(ch[u], sig[u])
  BY <1>1, <1>2 DEF RecOk
<1>5. \A u \in Streams : ChanOk(y.ch[u], y.sig[u]) /\ Load(y.ch[u]) = Load(ch[u])
  BY <1>2, <1>3, <1>4 DEF ChanOk, Load, Same
<1> QED
  BY <1>2, <1>3, <1>5 DEF y

\* A packet that is dropped: the network thread stays where it is.
LEMMA DroppedKeeps ==
  ASSUME IInv, NEW T, Receives(T), Becomes(pbuf_free(All, 1)), UNCHANGED <<net, cmcq, lost>>
  PROVE  IInv'
<1> DEFINE y == pbuf_free(All, 1)
<1>1. NetOk /\ avail \in Nat /\ cur \in Nat
  BY Counts
<1>2. /\ net.pc = "rx" /\ rxq' \in Seq(Packet) /\ Len(rxq') \in Nat /\ Len(rxq) = Len(rxq') + 1
  BY ReceivesIs
<1>3. /\ y \in Rec /\ QueueOk(y) /\ y.avail = avail + 1 /\ y.cur = cur
      /\ \A u \in Streams : ChanOk(y.ch[u], y.sig[u]) /\ Load(y.ch[u]) = Load(ch[u])
  BY FreeOneIs
<1> HIDE DEF y
<1>4. Becomes(y)
  BY DEF y
<1>5. avail' = avail + 1 /\ cur' = cur
  BY <1>3, <1>4, BecomesIs
<1>6. NetOk' /\ Hands' = Hands
  BY <1>1, <1>2 DEF NetOk, NetRec, Channels, Cmc, Copying, Hands, Copy
<1>7. Loose' = Loose
  <2>1. Hands \in Nat
    BY Numbers
  <2>2. PICK n \in Nat : n = Len(rxq') /\ Len(rxq) = n + 1
    BY <1>2
  <2>3. Loose' = (avail + 1) + (cur + n + Hands)
    BY <1>5, <1>6, <2>2 DEF Loose, Busy
  <2>4. Loose = avail + (cur + (n + 1) + Hands)
    BY <2>2 DEF Loose, Busy
  <2> QED
    BY <1>1, <2>1, <2>3, <2>4
<1> QED
  BY <1>2, <1>3, <1>4, <1>6, <1>7, QuietStep

LEMMA DropsKeeps ==
  ASSUME IInv, DropsPacket
  PROVE  IInv'
BY DroppedKeeps DEF DropsPacket, link

LEMMA SynKeeps ==
  ASSUME IInv, vllp_accept_syn
  PROVE  IInv'
<1>1. Receives({"syn"}) /\ UNCHANGED <<cmcq, lost>>
  BY DEF vllp_accept_syn
<1>2. CASE ~connected
  <2>1. Becomes(pbuf_free(All, 1)) /\ UNCHANGED net
    BY <1>2 DEF vllp_accept_syn
  <2> QED
    BY <1>1, <2>1, DroppedKeeps
<1>3. CASE connected
  <2>1. /\ All \in Rec /\ QueueOk(All) /\ RecOk(All) /\ NetOk /\ avail \in Nat /\ cur \in Nat
        /\ cmcq \in Nat /\ lost \in Nat
    BY Counts
  <2>2. /\ net.pc = "rx" /\ net.hand = 0 /\ rxq' \in Seq(Packet) /\ Len(rxq') \in Nat
        /\ Len(rxq) = Len(rxq') + 1 /\ Hands = cmcq + lost
    BY <1>1, ReceivesIs
  <2> DEFINE q == ListedChannels
             n == [net EXCEPT !.pc = "resyn", !.hand = 1, !.todo = q]
  <2>3. Becomes(All) /\ net' = n
    BY <1>3 DEF vllp_accept_syn
  <2>4. q \in Seq(Streams) /\ q \in Seq(Channels) /\ 1 \in 0 .. 1 /\ net \in NetRec
    BY <2>1, ListedChannelsIs DEF NetOk
  <2> HIDE DEF q
  <2>5. n.pc = "resyn" /\ n.hand = 1 /\ n.todo = q /\ n \in NetRec
    BY <2>4 DEF NetRec
  <2> HIDE DEF n
  <2>6. "resyn" \notin Copying /\ cmcq' = cmcq /\ lost' = lost
    BY <1>1 DEF Copying
  <2>7. NetOk' /\ Hands' = 1 + 0 + (cmcq + lost)
    BY <2>1, <2>3, <2>4, <2>5, <2>6, NetIsNow
  <2>8. avail' = avail /\ cur' = cur /\ All.ch = ch
    BY <2>3, AllIs DEF Becomes
  <2>9. Loose' = Loose
    <3>1. PICK l \in Nat : l = Len(rxq') /\ Len(rxq) = l + 1
      BY <2>2
    <3>2. Loose' = avail + (cur + l + (1 + 0 + (cmcq + lost)))
      BY <2>7, <2>8, <3>1 DEF Loose, Busy
    <3>3. Loose = avail + (cur + (l + 1) + (cmcq + lost))
      BY <2>2, <3>1 DEF Loose, Busy
    <3> QED
      BY <2>1, <3>2, <3>3
  <2>10. \A u \in Streams : ChanOk(All.ch[u], All.sig[u]) /\ Load(All.ch[u]) = Load(ch[u])
    BY <2>1, <2>8 DEF RecOk
  <2> QED
    BY <2>1, <2>2, <2>3, <2>7, <2>9, <2>10, QuietStep
<1> QED
  BY <1>2, <1>3

LEMMA ReceiveKeeps ==
  ASSUME IInv, vllp_channel_receive
  PROVE  IInv'
<1>1. /\ All \in Rec /\ QueueOk(All) /\ RecOk(All) /\ NetOk /\ avail \in Nat /\ cur \in Nat
      /\ Len(rxq) \in Nat /\ cmcq \in Nat /\ lost \in Nat
  BY Counts
<1> DEFINE m == Head(rxq)
<1>2. Receives(Copying) /\ UNCHANGED link
  BY DEF vllp_channel_receive
<1>3. /\ net.pc = "rx" /\ net.hand = 0 /\ rxq' \in Seq(Packet) /\ Len(rxq') \in Nat
      /\ Len(rxq) = Len(rxq') + 1 /\ m.t \in Copying /\ m \in Packet
      /\ Hands = cmcq + lost
  BY <1>2, ReceivesIs
<1>4. CASE ~Accepts(ChannelOf(m))
  <2>1. Becomes(All) /\ Transmits
    BY <1>4 DEF vllp_channel_receive
  <2> QED
    BY <1>2, <2>1, IgnoredKeeps
<1>5. CASE Accepts(ChannelOf(m))
  <2> DEFINE y == Take(All)
             n == [net EXCEPT !.pc = m.t, !.s = m.s, !.hand = 1]
  <2>1. Becomes(y) /\ net' = n
    BY <1>5 DEF vllp_channel_receive
  <2>2. All.ch = ch /\ All.sig = sig /\ All.cur = cur /\ All.avail = avail
    BY AllIs
  <2>3. MayTake(All) /\ (m.t = "data" => m.s \in Streams /\ Listed(m.s) /\ ch[m.s].rx = 0)
    <3> HIDE DEF m
    <3>1. m.t = "data" => m.s \in Streams
      BY <1>3 DEF Packet
    <3>2. m.t = "data" => ChannelOf(m) = m.s
      BY DEF ChannelOf
    <3> QED
      BY <1>5, <3>1, <3>2 DEF Accepts
  <2>4. avail - 1 \in Nat
    BY <1>1, <2>2, <2>3 DEF MayTake
  <2>5. /\ y \in Rec /\ y.avail = avail - 1 /\ y.cur = cur /\ y.ch = ch /\ y.sig = sig
        /\ y.tasks = All.tasks
    BY <1>1, <2>2, <2>4 DEF Take, Rec
  <2>6. QueueOk(y)
    BY <1>1, <2>2, <2>5 DEF QueueOk
  <2> HIDE DEF y, m
  <2>7. avail' = avail - 1 /\ cur' = cur /\ ch' = ch
    BY <2>1, <2>5, BecomesIs
  <2>8. /\ m.s \in Channels \cup {None} /\ (m.t \in {"open", "close"} => m.s \in Streams)
        /\ 1 \in 0 .. 1 /\ net \in NetRec
    BY <1>1, <1>3 DEF Packet, Channels, NetOk
  <2>9. n.pc = m.t /\ n.s = m.s /\ n.hand = 1 /\ n \in NetRec
    BY <1>3, <2>8 DEF NetRec
  <2> HIDE DEF n
  <2>10. /\ n.pc \notin {"loop", "rx", "down", "resyn"}
         /\ 1 = IF n.pc \in Copying THEN 1 ELSE 0
    BY <1>3, <2>9 DEF Copying
  <2>11. cmcq' = cmcq /\ lost' = lost
    BY <1>2 DEF link
  <2>12. n.pc = "data" => n.s \in Streams /\ ch'[n.s].up /\ ~ch'[n.s].netc /\ ch'[n.s].rx = 0
    BY <2>3, <2>7, <2>9 DEF Listed
  <2>13. NetOk' /\ Hands' = 1 + 1 + (cmcq + lost)
    BY <1>1, <2>1, <2>8, <2>9, <2>10, <2>11, <2>12, NetIsNow
  <2>14. Loose' = Loose
    <3>1. PICK l \in Nat : l = Len(rxq') /\ Len(rxq) = l + 1
      BY <1>3
    <3>2. Loose' = (avail - 1) + (cur + l + (1 + 1 + (cmcq + lost)))
      BY <2>7, <2>13, <3>1 DEF Loose, Busy
    <3>3. Loose = avail + (cur + (l + 1) + (cmcq + lost))
      BY <1>3, <3>1 DEF Loose, Busy
    <3> QED
      BY <1>1, <3>2, <3>3
  <2>15. \A u \in Streams : ChanOk(y.ch[u], y.sig[u]) /\ Load(y.ch[u]) = Load(ch[u])
    BY <1>1, <2>2, <2>5 DEF RecOk
  <2> QED
    BY <1>3, <2>1, <2>5, <2>6, <2>13, <2>14, <2>15, QuietStep
<1> QED
  BY <1>4, <1>5

\* The copy is forgotten.
LEMMA ReceiveFailsKeeps ==
  ASSUME IInv, ReceiveFails
  PROVE  IInv'
<1>1. NetOk /\ cmcq \in Nat /\ lost \in Nat /\ net.hand \in 0 .. 1
  BY Counts
<1> DEFINE q == ListedChannels
           n == [net EXCEPT !.pc = "down", !.s = None, !.todo = q]
<1>2. /\ net.pc = "bad" /\ Becomes(All) /\ lost' = lost + 1 /\ cmcq' = cmcq /\ rxq' = rxq
      /\ net' = n
  BY DEF ReceiveFails
<1>3. q \in Seq(Streams) /\ q \in Seq(Channels) /\ None \in Channels \cup {None} /\ net \in NetRec
  BY <1>1, ListedChannelsIs DEF NetOk
<1> HIDE DEF q
<1>4. n.pc = "down" /\ n.hand = net.hand /\ n.todo = q /\ n \in NetRec
  BY <1>3 DEF NetRec
<1> HIDE DEF n
<1>5. "down" \notin Copying /\ "bad" \in Copying /\ lost' \in Nat /\ cmcq' \in Nat
  BY <1>1, <1>2 DEF Copying
<1>6. NetOk' /\ Hands' = net.hand + 0 + (cmcq' + lost')
  BY <1>2, <1>3, <1>4, <1>5, NetIsNow
<1>7. Hands = net.hand + 1 + (cmcq + lost)
  BY <1>2, <1>5 DEF Hands, Copy
<1>8. Hands' = net.hand + 0 + (cmcq + (lost + 1))
  BY <1>2, <1>6
<1>9. Hands' = Hands
  BY <1>1, <1>7, <1>8
<1> QED
  BY <1>2, <1>6, <1>9, StillStep

LEMMA PushKeeps ==
  ASSUME IInv, pushpull_stream_push
  PROVE  IInv'
<1>1. /\ All \in Rec /\ QueueOk(All) /\ RecOk(All) /\ NetOk /\ avail \in Nat /\ cur \in Nat
      /\ Len(rxq) \in Nat /\ est \in Seq(Channels) /\ rxq \in Seq(Packet)
  BY Counts
<1> DEFINE s == net.s
           d == [ch[s] EXCEPT !.rx = @ + 1]
           z == SetTo(All, s, d)
           y == Signal(z, s)
<1>2. net.pc = "data" /\ rxq' = rxq /\ Processed /\ cmcq' = cmcq /\ lost' = lost
  BY DEF pushpull_stream_push, Net, link
<1>3. /\ All.ch = ch /\ All.sig = sig /\ All.cur = cur /\ All.avail = avail
      /\ All.tasks = tasks /\ All.est = est
  BY AllIs
<1>4. Becomes(y)
  BY <1>3 DEF pushpull_stream_push, SetTo
<1>5. s \in Streams /\ ch[s].up /\ ~ch[s].netc /\ ch[s].rx = 0
  BY <1>1, <1>2 DEF NetOk
<1> HIDE DEF s
<1>10. ch[s] \in Chan /\ ChanOk(ch[s], sig[s]) /\ ch \in [Streams -> Chan]
  BY <1>1, <1>3, <1>5 DEF RecOk, Rec
<1>11. /\ d \in Chan /\ d.up = ch[s].up /\ d.appc = ch[s].appc /\ d.netc = ch[s].netc
       /\ d.rx = 1 /\ d.tx = ch[s].tx /\ d.shutdown = ch[s].shutdown /\ d.pc = ch[s].pc
       /\ d.left = ch[s].left
  <2>1. d = [ch[s] EXCEPT !.rx = 1] /\ 1 \in 0 .. 1
    BY <1>5
  <2> HIDE DEF d
  <2> QED
    BY <1>10, <2>1 DEF Chan
<1> HIDE DEF d
<1>12. Within(All, z, s) /\ z.ch[s] = d
  BY <1>1, <1>5, <1>11, WithinSet
<1> HIDE DEF z
<1>13. z \in Rec /\ z.est = est
  BY <1>3, <1>12 DEF Within
<1>14. /\ y \in Rec /\ y.avail = z.avail /\ y.tasks = z.tasks /\ y.sig = z.sig /\ y.cur = z.cur
       /\ y.est = z.est
       /\ \A u \in Streams : Same(y.ch[u], z.ch[u])
  BY <1>5, <1>13, WakeIs
<1> HIDE DEF y
<1>15. QueueOk(y) /\ y.sig = sig /\ y.cur = cur /\ y.avail = avail
  BY <1>1, <1>3, <1>12, <1>14 DEF Within, QueueOk
<1>16. \A u \in Streams \ {s} : y.sig[u] = sig[u] /\ Same(y.ch[u], ch[u])
  BY <1>3, <1>12, <1>14, <1>15 DEF Within
<1>17. /\ y.ch[s].up = ch[s].up /\ y.ch[s].appc = ch[s].appc /\ y.ch[s].netc = ch[s].netc
       /\ y.ch[s].rx = 1 /\ y.ch[s].tx = ch[s].tx /\ y.ch[s].shutdown = ch[s].shutdown
       /\ y.ch[s].pc = ch[s].pc /\ y.ch[s].left = ch[s].left
  BY <1>5, <1>11, <1>12, <1>14 DEF Same
<1>18. ChanOk(y.ch[s], y.sig[s])
  BY <1>5, <1>10, <1>15, <1>17 DEF ChanOk
<1>19. avail' = avail /\ cur' = cur /\ est' \in Seq(Channels)
  BY <1>1, <1>4, <1>13, <1>14, <1>15, BecomesIs
<1>8. NetOk' /\ Hands' + 1 = Hands /\ Hands' \in Nat
  <2>1. cmcq' = cmcq + 0 /\ cmcq \in Nat /\ 0 \in 0 .. 1 /\ net.pc \in Copying
    BY <1>1, <1>2 DEF NetOk, Copying
  <2> QED
    BY <1>1, <1>2, <1>19, <2>1, ProcessedIs
<1>20. Loose' + Load(y.ch[s]) = Loose + Load(ch[s])
  <2>0. avail \in Nat /\ cur \in Nat /\ Len(rxq) \in Nat /\ Len(rxq') = Len(rxq)
    BY <1>2, Numbers
  <2>1. Busy = Busy' + 1 /\ Busy' \in Nat /\ Busy \in Nat
    BY <1>8, <1>19, <2>0 DEF Busy
  <2>2. ch[s].tx \in Nat
    BY <1>10, NetConstants DEF Chan
  <2>3. Loose = Loose' + 1 /\ Loose' \in Nat
    <3>1. Loose = avail + Busy /\ Loose' = avail + Busy'
      BY <1>19 DEF Loose
    <3>2. avail \in Nat
      BY <2>0
    <3>3. PICK b \in Nat : b = Busy' /\ Busy = b + 1
      BY <2>1
    <3>4. Loose' = avail + b /\ Loose = avail + (b + 1)
      BY <3>1, <3>3
    <3> QED
      BY <3>2, <3>4
  <2>4. Load(y.ch[s]) = Load(ch[s]) + 1 /\ Load(ch[s]) \in Nat
    BY <1>5, <1>17, <2>2 DEF Load
  <2> QED
    BY <2>3, <2>4
<1>21. rxq' \in Seq(Packet)
  BY <1>1, <1>2
<1> QED
  BY <1>4, <1>5, <1>8, <1>14, <1>15, <1>16, <1>18, <1>20, <1>21, StreamStep

\* A record that has come out of All with every channel in order and with the
\* buffers of the streams where they were.
Kept(x) ==
  /\ x \in Rec /\ QueueOk(x)
  /\ \A u \in Streams : ChanOk(x.ch[u], x.sig[u]) /\ Load(x.ch[u]) = Load(ch[u])

LEMMA KeptAll == IInv => Kept(All)
<1> SUFFICES ASSUME IInv PROVE Kept(All)
  OBVIOUS
<1>1. RecOk(All) /\ All.ch = ch
  BY Counts, AllIs
<1> QED
  BY <1>1 DEF Kept, RecOk

LEMMA KeptStep ==
  ASSUME IInv, NEW y, Kept(y), Becomes(y), rxq' \in Seq(Packet), NetOk',
         y.avail + (y.cur + Len(rxq') + Hands') = avail + (cur + Len(rxq) + Hands)
  PROVE  IInv'
<1>1. /\ y \in Rec /\ QueueOk(y)
      /\ \A u \in Streams : ChanOk(y.ch[u], y.sig[u]) /\ Load(y.ch[u]) = Load(ch[u])
  BY DEF Kept
<1>2. avail' = y.avail /\ cur' = y.cur
  BY <1>1, BecomesIs
<1>3. Loose' = Loose
  BY <1>2 DEF Loose, Busy
<1> QED
  BY <1>1, <1>3, QuietStep

\* What the operations of the network thread do to such a record.
LEMMA KeptFree ==
  ASSUME NEW x, Kept(x), NEW n \in Nat
  PROVE  LET y == pbuf_free(x, n) IN
         Kept(y) /\ y.avail = x.avail + n /\ y.cur = x.cur /\ y.est = x.est
<1> DEFINE y == pbuf_free(x, n)
<1>1. /\ x \in Rec /\ QueueOk(x)
      /\ \A u \in Streams : ChanOk(x.ch[u], x.sig[u]) /\ Load(x.ch[u]) = Load(ch[u])
  BY DEF Kept
<1>2. /\ y \in Rec /\ QueueOk(y) /\ y.avail = x.avail + n /\ y.cur = x.cur /\ y.est = x.est
      /\ \A u \in Streams : y.sig[u] = x.sig[u] /\ Same(y.ch[u], x.ch[u])
  BY <1>1, FreeIs
<1> HIDE DEF y
<1>3. \A u \in Streams : ChanOk(y.ch[u], y.sig[u]) /\ Load(y.ch[u]) = Load(ch[u])
  BY <1>1, <1>2 DEF ChanOk, Load, Same
<1> QED
  BY <1>2, <1>3 DEF Kept, y

LEMMA KeptEst ==
  ASSUME NEW x, Kept(x), NEW q \in Seq(Channels)
  PROVE  LET y == [x EXCEPT !.est = q] IN
         Kept(y) /\ y.avail = x.avail /\ y.cur = x.cur /\ y.est = q /\ y.ch = x.ch
<1> DEFINE y == [x EXCEPT !.est = q]
<1>1. /\ x \in Rec /\ QueueOk(x)
      /\ \A u \in Streams : ChanOk(x.ch[u], x.sig[u]) /\ Load(x.ch[u]) = Load(ch[u])
  BY DEF Kept
<1>2. /\ y \in Rec /\ y.avail = x.avail /\ y.cur = x.cur /\ y.est = q /\ y.ch = x.ch
      /\ y.sig = x.sig /\ y.tasks = x.tasks
  BY <1>1 DEF Rec
<1> HIDE DEF y
<1>3. QueueOk(y)
  BY <1>1, <1>2 DEF QueueOk
<1> QED
  BY <1>1, <1>2, <1>3 DEF Kept, y

LEMMA KeptCur ==
  ASSUME NEW x, Kept(x), NEW n \in 0 .. FragMax
  PROVE  LET y == [x EXCEPT !.cur = n] IN
         Kept(y) /\ y.avail = x.avail /\ y.cur = n /\ y.est = x.est /\ y.ch = x.ch
<1> DEFINE y == [x EXCEPT !.cur = n]
<1>1. /\ x \in Rec /\ QueueOk(x)
      /\ \A u \in Streams : ChanOk(x.ch[u], x.sig[u]) /\ Load(x.ch[u]) = Load(ch[u])
  BY DEF Kept
<1>2. /\ y \in Rec /\ y.avail = x.avail /\ y.cur = n /\ y.est = x.est /\ y.ch = x.ch
      /\ y.sig = x.sig /\ y.tasks = x.tasks
  BY <1>1 DEF Rec
<1> HIDE DEF y
<1>3. QueueOk(y)
  BY <1>1, <1>2 DEF QueueOk
<1> QED
  BY <1>1, <1>2, <1>3 DEF Kept, y

LEMMA KeptTake ==
  ASSUME NEW x, Kept(x), x.avail >= 1
  PROVE  LET y == Take(x) IN
         Kept(y) /\ y.avail = x.avail - 1 /\ y.cur = x.cur /\ y.est = x.est /\ y.ch = x.ch
<1> DEFINE y == Take(x)
<1>1. /\ x \in Rec /\ QueueOk(x)
      /\ \A u \in Streams : ChanOk(x.ch[u], x.sig[u]) /\ Load(x.ch[u]) = Load(ch[u])
  BY DEF Kept
<1>2. x.avail - 1 \in Nat
  BY <1>1 DEF Rec
<1>3. /\ y \in Rec /\ y.avail = x.avail - 1 /\ y.cur = x.cur /\ y.est = x.est /\ y.ch = x.ch
      /\ y.sig = x.sig /\ y.tasks = x.tasks
  BY <1>1, <1>2 DEF Rec, Take
<1> HIDE DEF y
<1>4. QueueOk(y)
  BY <1>1, <1>3 DEF QueueOk
<1> QED
  BY <1>1, <1>3, <1>4 DEF Kept, y

LEMMA KeptSent ==
  ASSUME NEW x, Kept(x), NEW c \in Channels
  PROVE  LET y == Sent(x, c) IN
         Kept(y) /\ y.avail = x.avail /\ y.cur = x.cur /\ y.ch = x.ch /\ y.est \in Seq(Channels)
<1> DEFINE q == Append(Without(x.est, {c}), c)
<1>1. x.est \in Seq(Channels)
  BY DEF Kept, Rec
<1>2. q \in Seq(Channels)
  <2>1. Without(x.est, {c}) \in Seq(Channels)
    BY <1>1, WithoutSet
  <2> QED
    BY <2>1, AppendSet
<1>3. Sent(x, c) = [x EXCEPT !.est = q]
  BY DEF Sent
<1> HIDE DEF q
<1> QED
  BY <1>2, <1>3, KeptEst

\* Only a channel that the service has closed, too, is freed.
LEMMA KeptDestroyed ==
  ASSUME NEW x, Kept(x), NEW s \in Streams
  PROVE  LET y == Destroyed(x, s) IN
         Kept(y) /\ y.avail = x.avail /\ y.cur = x.cur /\ y.est = x.est
<1> DEFINE e == [x.ch[s] EXCEPT !.up = FALSE]
           y == Destroyed(x, s)
<1>1. /\ x \in Rec /\ QueueOk(x)
      /\ \A u \in Streams : ChanOk(x.ch[u], x.sig[u]) /\ Load(x.ch[u]) = Load(ch[u])
  BY DEF Kept
<1>2. CASE ~(x.ch[s].appc = 2 /\ x.ch[s].netc)
  <2>1. y = x
    BY <1>2 DEF Destroyed
  <2> QED
    BY <2>1
<1>3. CASE x.ch[s].appc = 2 /\ x.ch[s].netc
  <2>1. y = SetTo(x, s, e)
    BY <1>3 DEF Destroyed, SetTo
  <2>2. /\ e \in Chan /\ e.up = FALSE /\ e.appc = x.ch[s].appc /\ e.netc = x.ch[s].netc
        /\ e.rx = x.ch[s].rx /\ e.tx = x.ch[s].tx /\ e.shutdown = x.ch[s].shutdown
        /\ e.pc = x.ch[s].pc /\ e.left = x.ch[s].left
    <3>1. x.ch[s] \in Chan
      BY <1>1 DEF Rec
    <3> QED
      BY <3>1 DEF Chan
  <2> HIDE DEF e, y
  <2>3. Within(x, y, s) /\ y.ch[s] = e
    BY <1>1, <2>1, <2>2, WithinSet
  <2>4. /\ y \in Rec /\ QueueOk(y) /\ y.avail = x.avail /\ y.cur = x.cur /\ y.est = x.est
        /\ y.sig = x.sig /\ \A u \in Streams \ {s} : y.ch[u] = x.ch[u]
    BY <1>1, <2>3 DEF Within, QueueOk
  <2>5. ChanOk(y.ch[s], y.sig[s]) /\ Load(y.ch[s]) = Load(ch[s])
    <3>1. x.sig[s] = {} /\ x.ch[s].pc \in Leaving /\ x.ch[s].pc # "bufwait"
      BY <1>1, <1>3 DEF ChanOk, Leaving
    <3>2. ChanOk(e, {})
      BY <1>1, <1>3, <2>2, <3>1 DEF ChanOk
    <3>3. Load(e) = Load(x.ch[s])
      BY <2>2 DEF Load
    <3> QED
      BY <1>1, <2>3, <2>4, <3>1, <3>2, <3>3
  <2>6. \A u \in Streams : ChanOk(y.ch[u], y.sig[u]) /\ Load(y.ch[u]) = Load(ch[u])
    BY <1>1, <2>4, <2>5
  <2> QED
    BY <2>4, <2>6 DEF Kept, y
<1> QED
  BY <1>2, <1>3

\* pushpull_stream_close_pp, and the channel is freed if the service has closed.
LEMMA KeptClosed ==
  ASSUME NEW x, Kept(x), NEW s \in Streams
  PROVE  LET y == NetClosed(x, s) IN
         Kept(y) /\ y.avail = x.avail /\ y.cur = x.cur /\ y.est = x.est
<1> DEFINE v == [x EXCEPT !.ch[s].shutdown = TRUE, !.ch[s].netc = TRUE]
           d == [x.ch[s] EXCEPT !.shutdown = TRUE, !.netc = TRUE]
           w == Signal(v, s)
<1>1. /\ x \in Rec /\ QueueOk(x)
      /\ \A u \in Streams : ChanOk(x.ch[u], x.sig[u]) /\ Load(x.ch[u]) = Load(ch[u])
  BY DEF Kept
<1>3. x.ch \in [Streams -> Chan] /\ x.ch[s] \in Chan
  BY <1>1 DEF Rec
<1>4. /\ d \in Chan /\ d.up = x.ch[s].up /\ d.appc = x.ch[s].appc /\ d.netc = TRUE
      /\ d.rx = x.ch[s].rx /\ d.tx = x.ch[s].tx /\ d.shutdown = TRUE
      /\ d.pc = x.ch[s].pc /\ d.left = x.ch[s].left
  BY <1>3 DEF Chan
<1>5. v = SetTo(x, s, d)
  <2> DEFINE a == [x.ch[s] EXCEPT !.shutdown = TRUE]
             f == [x.ch EXCEPT ![s] = a]
             b == [x EXCEPT !.ch = f]
  <2>1. f[s] = a /\ b.ch = f
    BY <1>1, <1>3 DEF Rec
  <2>2. v = [b EXCEPT !.ch = [b.ch EXCEPT ![s] = [b.ch[s] EXCEPT !.netc = TRUE]]]
    OBVIOUS
  <2>3. d = [a EXCEPT !.netc = TRUE]
    OBVIOUS
  <2>4. [f EXCEPT ![s] = d] = [x.ch EXCEPT ![s] = d]
    BY <1>3
  <2>5. v = [b EXCEPT !.ch = [x.ch EXCEPT ![s] = d]]
    BY <2>1, <2>2, <2>3, <2>4
  <2> HIDE DEF f, d, v
  <2> QED
    BY <1>1, <2>5 DEF Rec, SetTo
<1>6. NetClosed(x, s) = Destroyed(w, s)
  BY DEF NetClosed
<1> HIDE DEF d, v
<1>7. Within(x, v, s) /\ v.ch[s] = d
  BY <1>1, <1>4, <1>5, WithinSet
<1>8. v \in Rec
  BY <1>7 DEF Within
<1>9. /\ w \in Rec /\ w.avail = v.avail /\ w.tasks = v.tasks /\ w.sig = v.sig /\ w.cur = v.cur
      /\ w.est = v.est /\ \A u \in Streams : Same(w.ch[u], v.ch[u])
  BY <1>8, WakeIs
<1> HIDE DEF w
<1>10. w.avail = x.avail /\ w.sig = x.sig /\ w.cur = x.cur /\ w.est = x.est /\ QueueOk(w)
  BY <1>1, <1>7, <1>9 DEF Within, QueueOk
<1>12. /\ w.ch[s].up = x.ch[s].up /\ w.ch[s].appc = x.ch[s].appc /\ w.ch[s].netc = TRUE
       /\ w.ch[s].rx = x.ch[s].rx /\ w.ch[s].tx = x.ch[s].tx /\ w.ch[s].shutdown = TRUE
       /\ w.ch[s].pc = x.ch[s].pc /\ w.ch[s].left = x.ch[s].left /\ w.ch[s] \in Chan
  BY <1>4, <1>7, <1>9 DEF Same, Rec
<1>13. \A u \in Streams : ChanOk(w.ch[u], w.sig[u]) /\ Load(w.ch[u]) = Load(ch[u])
  <2>1. ChanOk(w.ch[s], w.sig[s]) /\ Load(w.ch[s]) = Load(ch[s])
    BY <1>1, <1>10, <1>12 DEF ChanOk, Load
  <2>2. ASSUME NEW u \in Streams \ {s}
        PROVE  ChanOk(w.ch[u], w.sig[u]) /\ Load(w.ch[u]) = Load(ch[u])
    <3>1. Same(w.ch[u], x.ch[u])
      BY <1>7, <1>9 DEF Within
    <3> QED
      BY <1>1, <1>10, <3>1 DEF ChanOk, Load, Same
  <2> QED
    BY <2>1, <2>2
<1>14. Kept(w)
  BY <1>9, <1>10, <1>13 DEF Kept
<1> QED
  BY <1>6, <1>10, <1>14, KeptDestroyed

\* The buffers of the packet under way return to the pool.
LEMMA FreeCurIs ==
  ASSUME IInv, NEW n \in Nat
  PROVE  LET y == pbuf_free([All EXCEPT !.cur = 0], n) IN
         Kept(y) /\ y.avail = avail + n /\ y.cur = 0 /\ y.est = est
<1> DEFINE z == [All EXCEPT !.cur = 0]
<1>1. Kept(All) /\ 0 \in 0 .. FragMax /\ All.avail = avail /\ All.est = est
  BY KeptAll, AllIs, NetConstants
<1>2. Kept(z) /\ z.avail = avail /\ z.cur = 0 /\ z.est = est
  BY <1>1, KeptCur
<1> HIDE DEF z
<1>3. Kept(pbuf_free(z, n)) /\ pbuf_free(z, n).avail = avail + n /\ pbuf_free(z, n).cur = 0
      /\ pbuf_free(z, n).est = est
  BY <1>2, KeptFree
<1> QED
  BY <1>3 DEF z

LEMMA AckKeeps ==
  ASSUME IInv, vllp_ack_payload
  PROVE  IInv'
<1> DEFINE y == pbuf_free([All EXCEPT !.cur = 0], cur)
<1>1. Receives({"ack"}) /\ Becomes(y) /\ Transmits /\ UNCHANGED link
  BY DEF vllp_ack_payload
<1>2. Kept(y) /\ y.avail = avail + cur /\ y.cur = 0 /\ y.est = est
  BY FreeCurIs, Counts
<1> HIDE DEF y
<1>3. /\ net.pc = "rx" /\ rxq' \in Seq(Packet) /\ Len(rxq') \in Nat /\ Len(rxq) = Len(rxq') + 1
  BY <1>1, ReceivesIs
<1>4. est' = est
  BY <1>1, <1>2 DEF Becomes
<1>5. NetOk /\ est' \in Seq(Channels)
  BY <1>4, Counts
<1>6. NetOk' /\ Hands' = Hands + 1
  BY <1>1, <1>3, <1>5, TransmitsIs
<1>7. y.avail + (y.cur + Len(rxq') + Hands') = avail + (cur + Len(rxq) + Hands)
  <2>1. avail \in Nat /\ cur \in Nat /\ Hands \in Nat
    BY Numbers
  <2>2. PICK n \in Nat : n = Len(rxq') /\ Len(rxq) = n + 1
    BY <1>3
  <2>3. (avail + cur) + (0 + n + (Hands + 1)) = avail + (cur + (n + 1) + Hands)
    BY <2>1
  <2> QED
    BY <1>2, <1>6, <2>2, <2>3
<1> QED
  BY <1>1, <1>2, <1>3, <1>6, <1>7, KeptStep

\* The copy of a CLOSE is freed.
LEMMA CloseKeeps ==
  ASSUME IInv, handle_cmc_close
  PROVE  IInv'
<1>1. NetOk /\ est \in Seq(Channels) /\ rxq \in Seq(Packet) /\ cmcq \in Nat
  BY Counts
<1>2. net.pc = "close" /\ rxq' = rxq /\ cmcq' = cmcq /\ lost' = lost /\ Processed
  BY DEF handle_cmc_close, Net, link
<1>3. net.s \in Streams
  BY <1>1, <1>2 DEF NetOk
<1> DEFINE x == IF Listed(net.s) THEN NetClosed(All, net.s) ELSE All
           y == pbuf_free(x, 1)
<1>4. Becomes(y)
  BY DEF handle_cmc_close
<1>5. Kept(x) /\ x.avail = avail /\ x.cur = cur /\ x.est = est
  <2>1. Kept(All) /\ All.avail = avail /\ All.cur = cur /\ All.est = est
    BY KeptAll, AllIs
  <2>2. CASE Listed(net.s)
    <3>1. x = NetClosed(All, net.s)
      BY <2>2
    <3> HIDE DEF x
    <3> QED
      BY <1>3, <2>1, <3>1, KeptClosed
  <2>3. CASE ~Listed(net.s)
    BY <2>1, <2>3
  <2> QED
    BY <2>2, <2>3
<1> HIDE DEF x
<1>6. Kept(y) /\ y.avail = avail + 1 /\ y.cur = cur /\ y.est = est
  BY <1>5, KeptFree
<1> HIDE DEF y
<1>7. est' \in Seq(Channels)
  BY <1>1, <1>4, <1>6 DEF Becomes
<1>8. NetOk' /\ Hands' + 1 = Hands /\ Hands' \in Nat
  <2>1. cmcq' = cmcq + 0 /\ 0 \in 0 .. 1 /\ net.pc \in Copying
    BY <1>1, <1>2 DEF Copying
  <2> QED
    BY <1>1, <1>2, <1>7, <2>1, ProcessedIs
<1>9. y.avail + (y.cur + Len(rxq') + Hands') = avail + (cur + Len(rxq) + Hands)
  <2>1. avail \in Nat /\ cur \in Nat /\ Len(rxq) \in Nat
    BY Numbers
  <2>2. PICK n \in Nat : n = Hands' /\ Hands = n + 1
    BY <1>8
  <2>3. (avail + 1) + (cur + Len(rxq) + n) = avail + (cur + Len(rxq) + (n + 1))
    BY <2>1
  <2> QED
    BY <1>2, <1>6, <2>2, <2>3
<1>10. rxq' \in Seq(Packet)
  BY <1>1, <1>2
<1> QED
  BY <1>4, <1>6, <1>8, <1>9, <1>10, KeptStep

\* The copy of an OPEN becomes the OPEN_RESPONSE.
LEMMA OpenKeeps ==
  ASSUME IInv, handle_cmc_open
  PROVE  IInv'
<1>1. NetOk /\ est \in Seq(Channels) /\ rxq \in Seq(Packet) /\ cmcq \in Nat /\ lost \in Nat
  BY Counts
<1>2. net.pc = "open" /\ rxq' = rxq /\ cmcq' = cmcq + 1 /\ lost' = lost /\ Processed
  BY DEF handle_cmc_open
<1> DEFINE s == net.s
           d == [Closed EXCEPT !.up = TRUE, !.pc = "run"]
           z == SetTo(All, s, d)
           q == Append(z.est, s)
           x == [z EXCEPT !.est = q]
           y == IF ch[s].up \/ ch[s].pc # "gone" THEN All ELSE x
<1>3. s \in Streams
  BY <1>1, <1>2 DEF NetOk
<1>4. Becomes(y)
  <2>1. [All EXCEPT !.ch[s] = [Closed EXCEPT !.up = TRUE, !.pc = "run"], !.est = Append(@, s)] = x
    BY DEF SetTo
  <2> QED
    BY <2>1 DEF handle_cmc_open
<1>5. Kept(All) /\ All.avail = avail /\ All.cur = cur /\ All.est = est /\ All.ch = ch /\ All.sig = sig
  BY KeptAll, AllIs
<1>6. Kept(y) /\ y.avail = avail /\ y.cur = cur /\ y.est \in Seq(Channels)
  <2>1. CASE ch[s].up \/ ch[s].pc # "gone"
    BY <1>1, <1>5, <2>1
  <2>2. CASE ~(ch[s].up \/ ch[s].pc # "gone")
    <3>1. /\ d \in Chan /\ d.up = TRUE /\ d.appc = 0 /\ d.netc = FALSE /\ d.rx = 0 /\ d.tx = 0
          /\ d.shutdown = FALSE /\ d.pc = "run"
      <4>1. 0 \in 0 .. FragMax /\ 0 \in 0 .. 1 /\ 0 \in 0 .. 2 /\ 0 \in Nat
        BY NetConstants
      <4>2. /\ Closed \in Chan /\ Closed.appc = 0 /\ Closed.netc = FALSE /\ Closed.rx = 0
            /\ Closed.tx = 0 /\ Closed.shutdown = FALSE
        BY <4>1 DEF Chan, Closed, Leaving
      <4> QED
        BY <4>2 DEF Chan
    <3>2. y = x
      BY <2>2
    <3> HIDE DEF d, s, y
    <3>3. Within(All, z, s) /\ z.ch[s] = d
      BY <1>3, <1>5, <3>1, WithinSet DEF Kept
    <3> HIDE DEF z
    <3>4. /\ z \in Rec /\ QueueOk(z) /\ z.avail = avail /\ z.cur = cur /\ z.est = est
          /\ z.sig = sig /\ \A u \in Streams \ {s} : z.ch[u] = ch[u]
      BY <1>5, <3>3 DEF Within, QueueOk, Kept
    <3>5. \A u \in Streams : ChanOk(ch[u], sig[u])
      BY <1>5 DEF Kept
    <3>6. sig[s] = {} /\ ch[s].rx = 0 /\ ch[s].tx = 0
      BY <1>3, <2>2, <3>5 DEF ChanOk, s
    <3>7. ChanOk(z.ch[s], z.sig[s]) /\ Load(z.ch[s]) = Load(ch[s])
      BY <3>1, <3>3, <3>4, <3>6 DEF ChanOk, Load, Leaving
    <3>8. Kept(z)
      BY <3>4, <3>5, <3>7 DEF Kept
    <3>9. q \in Seq(Channels)
      BY <1>1, <1>3, <3>4, AppendSet DEF Channels
    <3> HIDE DEF q
    <3>10. Kept(x) /\ x.avail = avail /\ x.cur = cur /\ x.est = q
      BY <3>4, <3>8, <3>9, KeptEst
    <3> QED
      BY <3>2, <3>9, <3>10
  <2> QED
    BY <2>1, <2>2
<1> HIDE DEF y
<1>7. est' \in Seq(Channels)
  BY <1>4, <1>6 DEF Becomes
<1>8. NetOk' /\ Hands' = Hands
  <2>1. 1 \in 0 .. 1 /\ net.pc \in Copying
    BY <1>2 DEF Copying
  <2> QED
    BY <1>1, <1>2, <1>7, <2>1, ProcessedIs
<1>9. y.avail + (y.cur + Len(rxq') + Hands') = avail + (cur + Len(rxq) + Hands)
  BY <1>2, <1>6, <1>8
<1>10. rxq' \in Seq(Packet)
  BY <1>1, <1>2
<1> QED
  BY <1>4, <1>6, <1>8, <1>9, <1>10, KeptStep

\* What was in hand is with the pool again.
LEMMA TxDoneKeeps ==
  ASSUME IInv, TxDone
  PROVE  IInv'
<1>1. /\ NetOk /\ net.hand \in 0 .. 1 /\ rxq \in Seq(Packet) /\ cmcq \in Nat /\ lost \in Nat
  BY Counts
<1> DEFINE h == net.hand
           p == IF h = 1 THEN "rx" ELSE "loop"
           y == pbuf_free(All, h)
           n == [net EXCEPT !.pc = p, !.hand = 0, !.todo = <<>>]
<1>2. net.pc = "tx" /\ rxq' = rxq /\ Becomes(y) /\ net' = n /\ cmcq' = cmcq /\ lost' = lost
  BY DEF TxDone, Net, link
<1>3. h \in Nat
  BY <1>1
<1>4. Kept(y) /\ y.avail = avail + h /\ y.cur = cur
  <2>1. Kept(All) /\ All.avail = avail /\ All.cur = cur
    BY KeptAll, AllIs
  <2> HIDE DEF h
  <2> QED
    BY <1>3, <2>1, KeptFree
<1> HIDE DEF y
<1>5. p \in {"rx", "loop"} /\ p \notin Copying
  BY DEF Copying
<1>6. <<>> \in Seq(Channels) /\ 0 \in 0 .. 1 /\ net \in NetRec
  BY <1>1 DEF NetOk
<1> HIDE DEF p
<1>7. n.pc = p /\ n.hand = 0 /\ n \in NetRec
  BY <1>5, <1>6 DEF NetRec
<1> HIDE DEF n
<1>8. NetOk' /\ Hands' = 0 + 0 + (cmcq' + lost')
  BY <1>1, <1>2, <1>5, <1>7, NetIsNow
<1>9. Hands = h + 0 + (cmcq + lost)
  BY <1>2 DEF Hands, Copy, Copying
<1>10. y.avail + (y.cur + Len(rxq') + Hands') = avail + (cur + Len(rxq) + Hands)
  <2>1. avail \in Nat /\ cur \in Nat /\ Len(rxq) \in Nat
    BY Numbers
  <2> HIDE DEF h
  <2>2. (avail + h) + (cur + Len(rxq) + (0 + 0 + (cmcq + lost)))
          = avail + (cur + Len(rxq) + (h + 0 + (cmcq + lost)))
    BY <1>1, <1>3, <2>1
  <2> QED
    BY <1>2, <1>4, <1>8, <1>9, <2>2
<1>11. rxq' \in Seq(Packet)
  BY <1>1, <1>2
<1> QED
  BY <1>2, <1>4, <1>8, <1>10, <1>11, KeptStep

LEMMA DisconnectKeeps ==
  ASSUME IInv, vllp_disconnect
  PROVE  IInv'
<1>1. NetOk /\ net.hand \in 0 .. 1 /\ rxq \in Seq(Packet) /\ cmcq \in Nat /\ lost \in Nat
  BY Counts
<1>2. /\ net.pc \in {"down", "resyn"} /\ rxq' = rxq /\ cmcq' = cmcq /\ lost' = lost
      /\ net.todo \in Seq(Streams) /\ net \in NetRec
  BY <1>1 DEF vllp_disconnect, NetOk
<1>3. rxq' \in Seq(Packet)
  BY <1>1, <1>2
<1>4. Hands = net.hand + 0 + (cmcq + lost)
  BY <1>2 DEF Hands, Copy, Copying
<1>5. CASE net.todo = <<>>
  <2> DEFINE h == net.hand
             y == pbuf_free([All EXCEPT !.cur = 0], cur + h)
             p == IF h = 1 THEN "rx" ELSE "loop"
             n == [net EXCEPT !.pc = p, !.hand = 0]
  <2>1. Becomes(y) /\ net' = n
    BY <1>5 DEF vllp_disconnect
  <2>2. cur + h \in Nat /\ cur \in Nat /\ h \in Nat
    BY <1>1, Numbers
  <2>3. Kept(y) /\ y.avail = avail + (cur + h) /\ y.cur = 0
    <3> DEFINE k == cur + h
    <3> HIDE DEF k
    <3>1. k \in Nat /\ y = pbuf_free([All EXCEPT !.cur = 0], k)
      BY <2>2 DEF k
    <3> HIDE DEF y
    <3>2. Kept(y) /\ y.avail = avail + k /\ y.cur = 0
      BY <3>1, FreeCurIs
    <3> QED
      BY <3>2 DEF k
  <2> HIDE DEF y
  <2>4. p \in {"rx", "loop"} /\ p \notin Copying /\ 0 \in 0 .. 1
    BY DEF Copying
  <2> HIDE DEF p
  <2>5. n.pc = p /\ n.hand = 0 /\ n \in NetRec
    BY <1>2, <2>4 DEF NetRec
  <2> HIDE DEF n
  <2>6. NetOk' /\ Hands' = 0 + 0 + (cmcq' + lost')
    BY <1>1, <1>2, <2>1, <2>4, <2>5, NetIsNow
  <2>7. y.avail + (y.cur + Len(rxq') + Hands') = avail + (cur + Len(rxq) + Hands)
    <3>1. avail \in Nat /\ Len(rxq) \in Nat
      BY Numbers
    <3> HIDE DEF h
    <3>2. (avail + (cur + h)) + (0 + Len(rxq) + (0 + 0 + (cmcq + lost)))
            = avail + (cur + Len(rxq) + (h + 0 + (cmcq + lost)))
      BY <1>1, <2>2, <3>1
    <3>3. Hands = h + 0 + (cmcq + lost)
      BY <1>4 DEF h
    <3> QED
      BY <1>2, <2>3, <2>6, <3>2, <3>3
  <2> QED
    BY <1>3, <2>1, <2>3, <2>6, <2>7, KeptStep
<1>6. CASE net.todo # <<>>
  <2> DEFINE s == Head(net.todo)
             q == Tail(net.todo)
             p == net.pc
             y == NetClosed(All, s)
             n == [net EXCEPT !.pc = p, !.todo = q]
  <2>1. Becomes(y) /\ net' = n
    BY <1>6 DEF vllp_disconnect, NetGoes
  <2>2. s \in Streams /\ q \in Seq(Streams)
    BY <1>2, <1>6, TailSet
  <2> HIDE DEF s, q
  <2>3. Kept(All) /\ All.avail = avail /\ All.cur = cur
    BY KeptAll, AllIs
  <2>4. Kept(y) /\ y.avail = avail /\ y.cur = cur
    BY <2>2, <2>3, KeptClosed
  <2> HIDE DEF y
  <2>5. q \in Seq(Channels) /\ p \in {"down", "resyn"} /\ p \notin Copying
    <3>1. Seq(Streams) \subseteq Seq(Channels)
      BY DEF Channels
    <3> QED
      BY <1>2, <2>2, <3>1 DEF Copying
  <2> HIDE DEF p
  <2>6. n.pc = p /\ n.hand = net.hand /\ n.todo = q /\ n \in NetRec
    BY <1>2, <2>5 DEF NetRec
  <2> HIDE DEF n
  <2>7. NetOk' /\ Hands' = net.hand + 0 + (cmcq' + lost')
    BY <1>1, <1>2, <2>1, <2>2, <2>5, <2>6, NetIsNow
  <2>8. y.avail + (y.cur + Len(rxq') + Hands') = avail + (cur + Len(rxq) + Hands)
    BY <1>2, <1>4, <2>4, <2>7
  <2> QED
    BY <1>3, <2>1, <2>4, <2>7, <2>8, KeptStep
<1> QED
  BY <1>5, <1>6

\* The channels of a transmission in turn.
LEMMA VisitsIs ==
  ASSUME IInv, NEW c, Visits(c), NetGoes("tx", Tail(net.todo)), cmcq' \in Nat, lost' = lost
  PROVE  /\ NetOk' /\ Hands = net.hand + (cmcq + lost) /\ Hands' = net.hand + (cmcq' + lost)
         /\ net.hand \in Nat /\ cmcq \in Nat /\ lost \in Nat /\ cur = 0
<1>1. /\ NetOk /\ net.todo \in Seq(Channels) /\ net \in NetRec /\ net.hand \in 0 .. 1
      /\ cmcq \in Nat /\ lost \in Nat
  BY Counts DEF NetOk
<1>2. net.pc = "tx" /\ cur = 0 /\ net.todo # <<>>
  BY DEF Visits
<1> DEFINE q == Tail(net.todo)
           n == [net EXCEPT !.pc = "tx", !.todo = q]
<1>3. q \in Seq(Channels) /\ "tx" \notin Copying
  BY <1>1, <1>2, TailSet DEF Copying
<1>4. net' = n
  BY DEF NetGoes
<1> HIDE DEF q
<1>5. n.pc = "tx" /\ n.hand = net.hand /\ n \in NetRec
  BY <1>1, <1>3 DEF NetRec
<1> HIDE DEF n
<1>6. NetOk' /\ Hands' = net.hand + 0 + (cmcq' + lost')
  BY <1>1, <1>3, <1>4, <1>5, NetIsNow
<1>7. Hands = net.hand + 0 + (cmcq + lost)
  BY <1>2, <1>3 DEF Hands, Copy
<1> QED
  BY <1>1, <1>2, <1>6, <1>7

LEMMA PassesIs ==
  ASSUME IInv, NEW c, Passes(c)
  PROVE  NetOk' /\ Hands' = Hands /\ cur = 0 /\ rxq' = rxq /\ rxq' \in Seq(Packet)
<1>1. rxq \in Seq(Packet) /\ cmcq \in Nat
  BY Counts
<1>2. Visits(c) /\ NetGoes("tx", Tail(net.todo)) /\ cmcq' = cmcq /\ lost' = lost /\ rxq' = rxq
  BY DEF Passes, Net, link
<1>3. NetOk' /\ Hands = net.hand + (cmcq + lost) /\ Hands' = net.hand + (cmcq' + lost) /\ cur = 0
  BY <1>1, <1>2, VisitsIs
<1> QED
  BY <1>1, <1>2, <1>3

LEMMA CmcSendsKeeps ==
  ASSUME IInv, CmcSends
  PROVE  IInv'
<1>1. /\ Visits(Cmc) /\ NetGoes("tx", Tail(net.todo)) /\ rxq' = rxq /\ lost' = lost
  BY DEF CmcSends
<1>2. rxq' \in Seq(Packet) /\ cmcq \in Nat /\ avail \in Nat /\ Len(rxq) \in Nat
  BY <1>1, Counts
<1>3. Kept(All) /\ All.avail = avail /\ All.cur = cur
  BY KeptAll, AllIs
<1>4. CASE cmcq = 0
  <2>1. Becomes(All) /\ cmcq' = cmcq
    BY <1>4 DEF CmcSends
  <2>2. NetOk' /\ Hands = net.hand + (cmcq + lost) /\ Hands' = net.hand + (cmcq' + lost)
    BY <1>1, <1>2, <2>1, VisitsIs
  <2> QED
    BY <1>1, <2>1, <2>2, StillStep
<1>5. CASE cmcq # 0
  <2> DEFINE x == [All EXCEPT !.cur = 1]
             y == Sent(x, Cmc)
  <2>1. Becomes(y) /\ cmcq' = cmcq - 1
    BY <1>5 DEF CmcSends
  <2>2. PICK k \in Nat : cmcq' = k /\ cmcq = k + 1
    BY <1>2, <1>5, <2>1
  <2>3. 1 \in 0 .. FragMax /\ Cmc \in Channels
    BY NetConstants DEF Channels
  <2>4. Kept(x) /\ x.avail = avail /\ x.cur = 1
    BY <1>3, <2>3, KeptCur
  <2> HIDE DEF x
  <2>5. Kept(y) /\ y.avail = avail /\ y.cur = 1
    BY <2>3, <2>4, KeptSent
  <2> HIDE DEF y
  <2>6. /\ NetOk' /\ Hands = net.hand + (cmcq + lost) /\ Hands' = net.hand + (cmcq' + lost)
        /\ net.hand \in Nat /\ lost \in Nat /\ cur = 0
    BY <1>1, <2>2, VisitsIs
  <2>7. y.avail + (y.cur + Len(rxq') + Hands') = avail + (cur + Len(rxq) + Hands)
    <3>1. PICK a \in Nat, r \in Nat, h \in Nat, l \in Nat :
            a = avail /\ r = Len(rxq) /\ h = net.hand /\ l = lost
      BY <1>2, <2>6
    <3>2. a + (1 + r + (h + (k + l))) = a + (0 + r + (h + ((k + 1) + l)))
      OBVIOUS
    <3>3. y.avail + (y.cur + Len(rxq') + Hands') = a + (1 + r + (h + (k + l)))
      BY <1>1, <2>2, <2>5, <2>6, <3>1
    <3>4. avail + (cur + Len(rxq) + Hands) = a + (0 + r + (h + ((k + 1) + l)))
      BY <2>2, <2>6, <3>1
    <3> QED
      BY <3>2, <3>3, <3>4
  <2> QED
    BY <1>2, <2>1, <2>5, <2>6, <2>7, KeptStep
<1> QED
  BY <1>4, <1>5

LEMMA TxCloseKeeps ==
  ASSUME IInv, NEW s \in Streams, vllp_tx_close(s)
  PROVE  IInv'
<1>1. /\ Kept(All) /\ All.avail = avail /\ All.cur = cur /\ All.ch = ch /\ All.sig = sig
  BY KeptAll, AllIs
<1>2. /\ NetOk /\ est \in Seq(Channels) /\ rxq \in Seq(Packet) /\ cmcq \in Nat
      /\ All \in Rec /\ All.est = est
  BY Counts, AllIs
<1>3. /\ Visits(s) /\ net.pc = "tx" /\ cur = 0 /\ ch[s].appc = 1 /\ rxq' = rxq
      /\ cmcq' = cmcq /\ lost' = lost /\ UNCHANGED link
  BY DEF vllp_tx_close, Net, link, Visits
<1> DEFINE q == Without(All.est, {s})
           x == [All EXCEPT !.est = q]
           d == [x.ch[s] EXCEPT !.appc = 2]
           y == SetTo(x, s, d)
           t == Take(y)
           v == [t EXCEPT !.cur = 1]
           w == Sent(v, Cmc)
<1>4. IF ~connected THEN Becomes(Destroyed(y, s)) /\ NetGoes("tx", <<>>)
      ELSE /\ Becomes(IF MayTake(All) THEN Destroyed(w, s) ELSE x)
           /\ NetGoes("tx", Tail(net.todo))
  BY DEF vllp_tx_close, SetTo
<1>5. q \in Seq(Channels)
  BY <1>2, WithoutSet
<1> HIDE DEF q
<1>6. Kept(x) /\ x.avail = avail /\ x.cur = cur /\ x.ch = ch
  BY <1>1, <1>5, KeptEst
<1> HIDE DEF x
<1>7. /\ d \in Chan /\ d.up = ch[s].up /\ d.appc = 2 /\ d.netc = ch[s].netc
      /\ d.rx = ch[s].rx /\ d.tx = ch[s].tx /\ d.shutdown = ch[s].shutdown
      /\ d.pc = ch[s].pc /\ d.left = ch[s].left
  <2>1. x.ch[s] \in Chan /\ x.ch[s] = ch[s] /\ 2 \in 0 .. 2
    BY <1>6 DEF Kept, Rec
  <2> QED
    BY <2>1 DEF Chan
<1> HIDE DEF d
<1>8. Kept(y) /\ y.avail = avail /\ y.cur = cur
  <2>1. Within(x, y, s) /\ y.ch[s] = d
    BY <1>6, <1>7, WithinSet DEF Kept
  <2> HIDE DEF y
  <2>2. /\ y \in Rec /\ QueueOk(y) /\ y.avail = avail /\ y.cur = cur
        /\ y.sig = x.sig /\ \A u \in Streams \ {s} : y.ch[u] = x.ch[u]
    BY <1>6, <2>1 DEF Within, QueueOk, Kept
  <2>3. ChanOk(ch[s], x.sig[s])
    BY <1>6 DEF Kept
  <2>4. x.sig[s] = {} /\ ch[s].pc \in Leaving
    BY <1>3, <2>3 DEF ChanOk
  <2>5. ChanOk(d, x.sig[s]) /\ Load(d) = Load(ch[s])
    BY <1>7, <2>3, <2>4 DEF ChanOk, Load
  <2>6. \A u \in Streams : ChanOk(y.ch[u], y.sig[u]) /\ Load(y.ch[u]) = Load(ch[u])
    BY <1>6, <2>1, <2>2, <2>5 DEF Kept
  <2> QED
    BY <2>2, <2>6 DEF Kept
<1> HIDE DEF y
<1>9. rxq' \in Seq(Packet) /\ avail \in Nat /\ Len(rxq) \in Nat /\ Hands \in Nat
  BY <1>2, <1>3, Numbers
<1>10. NetOk' /\ Hands' = Hands
  <2>1. CASE ~connected
    <3>1. NetGoes("tx", <<>>) /\ <<>> \in Seq(Channels)
      BY <1>4, <2>1
    <3> QED
      BY <1>2, <1>3, <3>1, NetGoesIs
  <2>2. CASE connected
    <3>1. NetGoes("tx", Tail(net.todo))
      BY <1>4, <2>2
    <3> QED
      BY <1>2, <1>3, <3>1, VisitsIs
  <2> QED
    BY <2>1, <2>2
<1>11. CASE ~connected
  <2> DEFINE z == Destroyed(y, s)
  <2>1. Becomes(z)
    BY <1>4, <1>11
  <2>2. Kept(z) /\ z.avail = avail /\ z.cur = cur
    BY <1>8, KeptDestroyed
  <2> HIDE DEF z
  <2> QED
    BY <1>3, <1>9, <1>10, <2>1, <2>2, KeptStep
<1>12. CASE connected /\ ~MayTake(All)
  <2>1. Becomes(x)
    BY <1>4, <1>12
  <2> QED
    BY <1>3, <1>6, <1>9, <1>10, <2>1, KeptStep
<1>13. CASE connected /\ MayTake(All)
  <2> DEFINE z == Destroyed(w, s)
  <2>1. Becomes(z)
    BY <1>4, <1>13
  <2>2. avail >= 1 /\ 1 \in 0 .. FragMax /\ Cmc \in Channels
    BY <1>1, <1>9, <1>13, NetConstants DEF MayTake, Channels
  <2>3. Kept(t) /\ t.avail = avail - 1
    BY <1>8, <2>2, KeptTake
  <2> HIDE DEF t
  <2>4. Kept(v) /\ v.avail = avail - 1 /\ v.cur = 1
    BY <2>2, <2>3, KeptCur
  <2> HIDE DEF v
  <2>5. Kept(w) /\ w.avail = avail - 1 /\ w.cur = 1
    BY <2>2, <2>4, KeptSent
  <2> HIDE DEF w
  <2>6. Kept(z) /\ z.avail = avail - 1 /\ z.cur = 1
    BY <2>5, KeptDestroyed
  <2> HIDE DEF z
  <2>7. z.avail + (z.cur + Len(rxq') + Hands') = avail + (cur + Len(rxq) + Hands)
    <3>1. (avail - 1) + (1 + Len(rxq) + Hands) = avail + (0 + Len(rxq) + Hands)
      BY <1>9
    <3> QED
      BY <1>3, <1>10, <2>6, <3>1
  <2> QED
    BY <1>9, <1>10, <2>1, <2>6, <2>7, KeptStep
<1> QED
  BY <1>11, <1>12, <1>13

LEMMA PullKeeps ==
  ASSUME IInv, NEW s \in Streams, pushpull_stream_pull(s)
  PROVE  IInv'
<1>1. /\ All \in Rec /\ QueueOk(All) /\ RecOk(All) /\ est \in Seq(Channels)
  BY Counts
<1>2. NetOk' /\ Hands' = Hands /\ cur = 0 /\ rxq' = rxq /\ rxq' \in Seq(Packet)
  BY PassesIs DEF pushpull_stream_pull
<1>3. /\ All.ch = ch /\ All.sig = sig /\ All.cur = cur /\ All.avail = avail /\ All.est = est
      /\ All.tasks = tasks
  BY AllIs
<1>4. CASE ~(Listed(s) /\ ch[s].flushed /\ ch[s].tx > 0)
  <2>1. Becomes(All)
    BY <1>4 DEF pushpull_stream_pull
  <2> QED
    BY <1>2, <2>1, StillStep
<1>5. CASE Listed(s) /\ ch[s].flushed /\ ch[s].tx > 0
  <2> DEFINE n == ch[s].tx
             q == Append(Without(All.est, {s}), s)
             v == [All EXCEPT !.cur = n]
             d == [v.ch[s] EXCEPT !.tx = 0, !.flushed = FALSE]
             w == SetTo(v, s, d)
             z == [w EXCEPT !.est = q]
             y == Signal(z, s)
  <2>1. ch[s] \in Chan /\ ch \in [Streams -> Chan] /\ n \in 0 .. FragMax
    BY <1>1, <1>3 DEF Rec, Chan
  <2>2. q \in Seq(Channels)
    <3>1. Without(All.est, {s}) \in Seq(Channels) /\ s \in Channels
      BY <1>1, <1>3, WithoutSet DEF Channels
    <3> QED
      BY <3>1, AppendSet
  <2>3. /\ v \in Rec /\ v.avail = avail /\ v.cur = n /\ v.ch = ch /\ v.sig = sig
        /\ v.tasks = tasks /\ v.est = All.est
    <3> HIDE DEF n
    <3> QED
      BY <1>1, <1>3, <2>1 DEF Rec
  <2>4. Becomes(y)
    <3> DEFINE f == Sent([All EXCEPT !.cur = n, !.ch[s].tx = 0, !.ch[s].flushed = FALSE], s)
    <3>1. Becomes(Signal(f, s))
      BY <1>5 DEF pushpull_stream_pull
    <3>2. f = z
      <4> DEFINE c == [v EXCEPT !.ch[s].tx = 0, !.ch[s].flushed = FALSE]
                 a == [v.ch[s] EXCEPT !.tx = 0]
                 b == [v.ch EXCEPT ![s] = a]
                 g == [v EXCEPT !.ch = b]
      <4>1. f = [c EXCEPT !.est = Append(Without(@, {s}), s)]
        BY DEF Sent
      <4>2. v.ch \in [Streams -> Chan]
        BY <2>1, <2>3
      <4> HIDE DEF v
      <4>3. c = w
        <5>1. b[s] = a /\ g.ch = b
          BY <2>3, <4>2 DEF Rec
        <5>2. c = [g EXCEPT !.ch = [g.ch EXCEPT ![s] = [g.ch[s] EXCEPT !.flushed = FALSE]]]
          OBVIOUS
        <5>3. d = [a EXCEPT !.flushed = FALSE]
          OBVIOUS
        <5>4. [b EXCEPT ![s] = d] = [v.ch EXCEPT ![s] = d]
          BY <4>2
        <5>5. c = [g EXCEPT !.ch = [v.ch EXCEPT ![s] = d]]
          BY <5>1, <5>2, <5>3, <5>4
        <5> HIDE DEF b, c, d
        <5> QED
          BY <2>3, <5>5 DEF Rec, SetTo
      <4> HIDE DEF c, f
      <4>4. w.est = All.est
        <5>1. d \in Chan
          <6>1. v.ch[s] \in Chan /\ 0 \in 0 .. FragMax
            BY <2>1, <2>3, NetConstants
          <6> QED
            BY <6>1 DEF Chan
        <5> HIDE DEF d
        <5>2. Within(v, w, s)
          BY <2>3, <5>1, WithinSet
        <5> QED
          BY <2>3, <5>2 DEF Within
      <4> HIDE DEF w, q
      <4>5. f = [w EXCEPT !.est = Append(Without(All.est, {s}), s)]
        BY <4>1, <4>3, <4>4
      <4> QED
        BY <4>5 DEF q
    <3> HIDE DEF f, z
    <3> QED
      BY <3>1, <3>2
  <2> HIDE DEF v
  <2>5. /\ d \in Chan /\ d.up = ch[s].up /\ d.appc = ch[s].appc /\ d.netc = ch[s].netc
        /\ d.rx = ch[s].rx /\ d.tx = 0 /\ d.shutdown = ch[s].shutdown
        /\ d.pc = ch[s].pc /\ d.left = ch[s].left
    <3>1. v.ch[s] \in Chan /\ v.ch[s] = ch[s] /\ 0 \in 0 .. FragMax
      BY <2>1, <2>3, NetConstants
    <3> QED
      BY <3>1 DEF Chan
  <2> HIDE DEF d
  <2>6. Within(v, w, s) /\ w.ch[s] = d
    BY <2>3, <2>5, WithinSet
  <2> HIDE DEF w
  <2>7. w \in Rec
    BY <2>6 DEF Within
  <2> HIDE DEF q
  <2>8. /\ z \in Rec /\ z.avail = w.avail /\ z.cur = w.cur /\ z.sig = w.sig /\ z.ch = w.ch
        /\ z.tasks = w.tasks
    BY <2>2, <2>7 DEF Rec
  <2> HIDE DEF z
  <2>9. /\ y \in Rec /\ y.avail = z.avail /\ y.tasks = z.tasks /\ y.sig = z.sig /\ y.cur = z.cur
        /\ \A u \in Streams : Same(y.ch[u], z.ch[u])
    BY <2>8, WakeIs
  <2> HIDE DEF y, n
  <2>10. /\ QueueOk(y) /\ y.avail = avail /\ y.cur = n /\ y.sig = sig
         /\ \A u \in Streams \ {s} : Same(y.ch[u], ch[u])
    BY <1>1, <1>3, <2>3, <2>6, <2>8, <2>9 DEF Within, QueueOk
  <2>11. Same(y.ch[s], d)
    BY <2>6, <2>8, <2>9
  <2>12. ChanOk(y.ch[s], y.sig[s])
    <3>1. ChanOk(ch[s], sig[s])
      BY <1>1, <1>3 DEF RecOk
    <3> QED
      BY <2>5, <2>10, <2>11, <3>1 DEF ChanOk, Same
  <2>13. avail' = avail /\ cur' = n
    BY <2>4, <2>9, <2>10, BecomesIs
  <2>14. Loose' + Load(y.ch[s]) = Loose + Load(ch[s])
    <3>1. avail \in Nat /\ Len(rxq) \in Nat /\ Hands \in Nat
      BY Numbers
    <3>2. ch[s].rx \in Nat /\ n \in Nat
      BY <2>1, NetConstants DEF Chan
    <3>3. Loose' = avail + (n + Len(rxq) + Hands)
      BY <1>2, <2>13 DEF Loose, Busy
    <3>4. Loose = avail + (0 + Len(rxq) + Hands)
      BY <1>2 DEF Loose, Busy
    <3>5. Load(y.ch[s]) = ch[s].rx + 0 /\ Load(ch[s]) = ch[s].rx + n
      BY <2>5, <2>11 DEF Load, Same, n
    <3> QED
      BY <3>1, <3>2, <3>3, <3>4, <3>5
  <2> QED
    BY <1>2, <2>4, <2>9, <2>10, <2>12, <2>14, StreamStep
<1> QED
  BY <1>4, <1>5

-----------------------------------------------------------------------------
(* The interface, and the whole *)

LEMMA ArrivesKeeps ==
  ASSUME IInv, NEW t, NEW s, [t |-> t, s |-> s] \in Packet, Arrives(t, s)
  PROVE  IInv'
<1>1. /\ All \in Rec /\ QueueOk(All) /\ RecOk(All) /\ rxq \in Seq(Packet) /\ NetOk
  BY Counts
<1>2. /\ All.ch = ch /\ All.sig = sig /\ All.cur = cur /\ All.avail = avail /\ All.tasks = tasks
  BY AllIs
<1> DEFINE p == [t |-> t, s |-> s]
           z == Take(All)
           y == net_task_raise(z, Netif, "rx")
<1>3. MayTake(All) /\ rxq' = Append(rxq, p) /\ Becomes(y) /\ net' = net
      /\ cmcq' = cmcq /\ lost' = lost
  BY DEF Arrives, link
<1> HIDE DEF p
<1>4. rxq' \in Seq(Packet) /\ Len(rxq') = Len(rxq) + 1
  <2>1. p \in Packet
    BY DEF p
  <2> QED
    BY <1>1, <1>3, <2>1, AppendProperties
<1>5. avail \in Nat /\ cur \in Nat /\ Len(rxq) \in Nat /\ Hands \in Nat
  BY Numbers
<1>6. avail - 1 \in Nat
  BY <1>2, <1>3, <1>5 DEF MayTake
<1>7. /\ z \in Rec /\ z.avail = avail - 1 /\ z.cur = cur /\ z.ch = ch /\ z.sig = sig
      /\ z.tasks = tasks
  BY <1>1, <1>2, <1>6 DEF Take, Rec
<1> HIDE DEF z
<1>8. QueueOk(z)
  BY <1>1, <1>2, <1>7 DEF QueueOk
<1>9. Netif \in Tasks /\ "rx" \in Sigs /\ Streams \subseteq Tasks \ {Netif}
  BY NetConstants DEF Tasks, Sigs
<1>10. /\ y \in Rec /\ QueueOk(y) /\ y.avail = z.avail /\ y.cur = z.cur /\ y.ch = z.ch
       /\ \A u \in Tasks \ {Netif} : y.sig[u] = z.sig[u]
  BY <1>7, <1>8, <1>9, RaiseIs
<1> HIDE DEF y
<1>11. \A u \in Streams : ChanOk(y.ch[u], y.sig[u]) /\ Load(y.ch[u]) = Load(ch[u])
  <2>1. \A u \in Streams : ChanOk(ch[u], sig[u])
    BY <1>1, <1>2 DEF RecOk
  <2> QED
    BY <1>7, <1>9, <1>10, <2>1
<1>12. avail' = avail - 1 /\ cur' = cur /\ ch' = ch
  BY <1>3, <1>7, <1>10, BecomesIs
<1>13. NetOk' /\ Hands' = Hands
  BY <1>1, <1>3, <1>12 DEF NetOk, NetRec, Channels, Cmc, Copying, Hands, Copy
<1>14. Loose' = Loose
  <2>1. Loose' = (avail - 1) + (cur + (Len(rxq) + 1) + Hands)
    BY <1>4, <1>12, <1>13 DEF Loose, Busy
  <2>2. Loose = avail + (cur + Len(rxq) + Hands)
    BY DEF Loose, Busy
  <2> QED
    BY <1>5, <2>1, <2>2
<1> QED
  BY <1>3, <1>4, <1>10, <1>11, <1>13, <1>14, QuietStep

LEMMA InterruptKeeps ==
  ASSUME IInv, Interrupt
  PROVE  IInv'
<1>1. CASE AckArrives
  <2>1. Arrives("ack", None)
    BY <1>1 DEF AckArrives
  <2>2. [t |-> "ack", s |-> None] \in Packet
    BY DEF Packet
  <2> QED
    BY <2>1, <2>2, ArrivesKeeps
<1>2. ASSUME NEW s \in Streams, NEW t \in {"data", "close", "open"}, PeerSends(t, s)
      PROVE  IInv'
  <2>1. [t |-> t, s |-> s] \in Packet /\ Arrives(t, s)
    BY <1>2 DEF Packet, PeerSends
  <2> QED
    BY <2>1, ArrivesKeeps
<1>3. ASSUME NEW c \in Channels, PeerSends("bad", c) PROVE IInv'
  <2>1. [t |-> "bad", s |-> c] \in Packet /\ Arrives("bad", c)
    BY <1>3 DEF Packet, PeerSends
  <2> QED
    BY <2>1, ArrivesKeeps
<1>4. CASE PeerSends("syn", None)
  <2>1. [t |-> "syn", s |-> None] \in Packet /\ Arrives("syn", None)
    BY <1>4 DEF Packet, PeerSends
  <2> QED
    BY <2>1, ArrivesKeeps
<1> QED
  BY <1>1, <1>2, <1>3, <1>4 DEF Interrupt

LEMMA InitKeeps == Init => IInv
<1> SUFFICES ASSUME Init PROVE IInv
  OBVIOUS
<1>1. /\ avail = Bufs /\ sleepers = <<>> /\ tasks = <<>> /\ rxq = <<>>
      /\ sig = [t \in Tasks |-> {}] /\ cur = 0 /\ est = <<Cmc>> /\ ch = [s \in Streams |-> Closed]
      /\ net = [pc |-> "loop", s |-> None, todo |-> <<>>, hand |-> 0]
      /\ cmcq = 0 /\ lost = 0
  BY DEF Init
<1>2. Closed \in Chan /\ ChanOk(Closed, {}) /\ Load(Closed) = 0
  <2>1. 0 \in 0 .. FragMax /\ 0 \in 0 .. 1 /\ 0 \in 0 .. 2 /\ 0 \in Nat
    BY NetConstants
  <2> QED
    BY <2>1 DEF Chan, Closed, Leaving, ChanOk, Load
<1>3. /\ avail \in Nat /\ cur \in 0 .. FragMax
  BY <1>1, NetConstants
<1>4. /\ sleepers \in Seq(Streams) /\ tasks \in Seq(Tasks) /\ est \in Seq(Channels)
      /\ rxq \in Seq(Packet) /\ Len(rxq) = 0
  BY <1>1 DEF Channels
<1>5. sig \in [Tasks -> SUBSET Sigs] /\ ch \in [Streams -> Chan]
  BY <1>1, <1>2
<1>6. All \in Rec
  BY <1>3, <1>4, <1>5 DEF All, Rec
<1>7. QueueOk(All)
  <2>1. ToSet(<<>>) = {} /\ IsInjective(<<>>)
    BY DEF ToSet, IsInjective
  <2>2. {t \in Tasks : sig[t] # {}} = {}
    BY <1>1
  <2> QED
    BY <1>1, <2>1, <2>2, AllIs DEF QueueOk
<1>8. \A s \in Streams : ChanOk(All.ch[s], All.sig[s])
  <2>1. \A s \in Streams : ch[s] = Closed /\ sig[s] = {}
    BY <1>1 DEF Tasks
  <2> QED
    BY <1>2, <2>1, AllIs
<1>9. NetOk /\ Hands = 0
  <2>1. <<>> \in Seq(Channels) /\ 0 \in 0 .. 1 /\ 0 \in Nat
    OBVIOUS
  <2> QED
    BY <1>1, <2>1 DEF NetOk, NetRec, Hands, Copy, Copying
<1>10. Held(ch) = 0
  <2>1. \A s \in Streams : {s} \X (1 .. Load(ch[s])) = {}
    BY <1>1, <1>2
  <2>2. UNION {{s} \X (1 .. Load(ch[s])) : s \in Streams} = {}
    BY <2>1
  <2> QED
    BY <2>2, FS_EmptySet DEF Held
<1>11. Buffers = Bufs
  BY <1>1, <1>4, <1>9, <1>10, NetConstants DEF Buffers, Loose, Busy
<1> QED
  BY <1>4, <1>6, <1>7, <1>8, <1>9, <1>11 DEF IInv, RecOk

LEMMA NextKeeps == IInv /\ [Next]_vars => IInv'
<1> SUFFICES ASSUME IInv, [Next]_vars PROVE IInv'
  OBVIOUS
<1>1. CASE NetWork
  BY <1>1, NetThreadKeeps, NetifKeeps, DropsKeeps, SynKeeps, ReceiveKeeps, ReceiveFailsKeeps,
     PushKeeps, AckKeeps, CloseKeeps, OpenKeeps, TxDoneKeeps, CmcSendsKeeps, TxCloseKeeps,
     PullKeeps, DisconnectKeeps DEF NetWork
<1>2. CASE vllp_timeout_timer
  BY <1>2, TimeoutKeeps
<1>3. CASE Interrupt
  BY <1>3, InterruptKeeps
<1>4. CASE \E s \in Streams : Service(s)
  BY <1>4, ServiceKeeps
<1>5. CASE UNCHANGED vars
  <2>1. /\ rxq' = rxq /\ net' = net /\ ch' = ch /\ Becomes(All)
        /\ cmcq' = cmcq /\ lost' = lost
    BY <1>5 DEF vars, link, Becomes, All
  <2>2. NetOk' /\ Hands' = Hands
    BY <2>1, Counts DEF NetOk, NetRec, Channels, Cmc, Copying, Hands, Copy
  <2> QED
    BY <2>1, <2>2, StillStep
<1> QED
  BY <1>1, <1>2, <1>3, <1>4, <1>5 DEF Next

\* The inductive invariant of the pool, the queue of net_tasks and the channels.
THEOREM NetInductive == Spec => []IInv
<1> QED
  BY InitKeeps, NextKeeps, PTL DEF Spec

\* Those free, under way, received, in the hands of the network thread, on the
\* management channel and in streams add up to the pool without the copies of
\* refused messages, whatever closes first: no other buffer is lost or counted
\* twice.
THEOREM BuffersAccountedCorrect == Spec => []BuffersAccounted
<1>1. IInv => BuffersAccounted
  <2> SUFFICES ASSUME IInv PROVE BuffersAccounted
    OBVIOUS
  <2>1. avail \in Nat /\ cur \in Nat /\ Len(rxq) \in Nat
    BY Numbers
  <2>2. net.hand \in Nat /\ cmcq \in Nat /\ lost \in Nat
    BY Counts
  <2>3. PICK p \in Nat : p = IF net.pc \in Copying THEN 1 ELSE 0
    OBVIOUS
  <2>4. Cardinality(InStreams) = Held(ch)
    BY DEF InStreams, Held, Load
  <2>5. Held(ch) \in Nat
    <3>1. ch \in [Streams -> Chan]
      BY Counts, AllIs DEF Rec
    <3> QED
      BY <3>1, HeldSame
  <2>6. (avail + (cur + Len(rxq) + (net.hand + p + (cmcq + lost)))) + Held(ch) = Bufs
    BY <2>3 DEF IInv, Buffers, Loose, Busy, Hands, Copy
  <2>7. avail + cur + Len(rxq) + net.hand + p + cmcq + Held(ch) = Bufs - lost
    <3>1. PICK a \in Nat, c \in Nat, r \in Nat, h \in Nat :
            a = avail /\ c = cur /\ r = Len(rxq) /\ h = net.hand
      BY <2>1, <2>2
    <3>2. PICK q \in Nat, l \in Nat, e \in Nat, b \in Nat :
            q = cmcq /\ l = lost /\ e = Held(ch) /\ b = Bufs
      BY <2>2, <2>5, NetConstants
    <3>3. (a + (c + r + (h + p + (q + l)))) + e = b
      BY <2>6, <3>1, <3>2
    <3>4. a + c + r + h + p + q + e = b - l
      BY <3>3
    <3> QED
      BY <3>1, <3>2, <3>4
  <2> QED
    BY <2>3, <2>4, <2>7 DEF BuffersAccounted
<1> QED
  BY <1>1, NetInductive, PTL

\* What pushpull_stream_may_push has seen without the mutex still holds when
\* pushpull_stream_push has got it: there is room, and the stream is not shut.
THEOREM PushFindsCorrect == Spec => []PushFinds
<1>1. IInv => PushFinds
  BY DEF IInv, NetOk, PushFinds
<1> QED
  BY <1>1, NetInductive, PTL

\* The queue of net_tasks holds the tasks with signals, each once, the counts
\* of buffers stay within their bounds, and the task inside a channel that has
\* been freed is neither queued nor raised.
THEOREM NetInvCorrect == Spec => []NetInv
<1>1. IInv => NetInv
  <2> SUFFICES ASSUME IInv PROVE NetInv
    OBVIOUS
  <2>1. All \in Rec /\ QueueOk(All) /\ RecOk(All)
    BY Counts
  <2>2. ch \in [Streams -> Chan] /\ cur \in 0 .. FragMax
    BY <2>1, AllIs DEF Rec
  <2>3. avail \in 0 .. Bufs
    <3>1. avail \in Nat /\ cur \in Nat /\ Len(rxq) \in Nat /\ Hands \in Nat
      BY Numbers
    <3>2. Held(ch) \in Nat
      BY <2>2, HeldSame
    <3>3. (avail + (cur + Len(rxq) + Hands)) + Held(ch) = Bufs /\ Bufs \in Nat
      BY NetConstants DEF IInv, Buffers, Loose, Busy
    <3> QED
      BY <3>1, <3>2, <3>3
  <2>4. Range(tasks) = {t \in Tasks : sig[t] # {}} /\ IsInjective(tasks)
    BY <2>1, AllIs DEF QueueOk, ToSet, Range
  <2>5. \A s \in Streams : ch[s].rx \in 0 .. 1 /\ ch[s].tx \in 0 .. FragMax
    BY <2>2 DEF Chan
  <2>6. FreedIsQuiet
    BY <2>1, AllIs DEF RecOk, ChanOk, FreedIsQuiet
  <2> QED
    BY <2>2, <2>3, <2>4, <2>5, <2>6 DEF NetInv, NetTypeOK
<1> QED
  BY <1>1, NetInductive, PTL
=============================================================================
