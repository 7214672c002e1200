----------------------------- MODULE NetStreams -----------------------------
(***************************************************************************)
(* Streams over the network: the thread of a service reads and writes      *)
(* (pushpull.c) while the network thread (net_core.c) pushes and pulls     *)
(* packets, and both draw on one pool of buffers (pbuf.c).                 *)
(*                                                                         *)
(* The protocol below the streams is VLLP as far as buffers and calls go:  *)
(* one packet is under way on the link until it is acknowledged, the peer  *)
(* has one message under way to us, and a received message is copied into  *)
(* a buffer of its own (module Vllp has the rest).  A message the channel  *)
(* refuses for its checksum ends the session, and its copy is not freed.   *)
(* A unit of data is what fits one buffer.  A critical section of          *)
(* pps_mutex is one action, except that a writer keeps the mutex while it  *)
(* goes through its loop and while it waits for a buffer.                  *)
(***************************************************************************)
EXTENDS TaskLists, FiniteSetsExt

CONSTANTS
  Streams,   \* channels with a service behind them
  Waiters,   \* those whose services write without STREAM_WRITE_NO_WAIT
  Bufs,      \* buffers in the pool
  FragMax,   \* max_fragment_size, in buffers
  WriteMax,  \* bound: units given to one write
  MaxBad,    \* bound: messages refused for their checksum
  None       \* no stream

Netif == "netif"
Netbuf == "netbuf"
Tasks == Streams \cup {Netif, Netbuf}
Cmc == "cmc"                    \* the management channel of the link
Channels == Streams \cup {Cmc}

ASSUME NetConstants ==
  /\ IsFiniteSet(Streams) /\ Waiters \subseteq Streams
  /\ {None, Netif, Netbuf, Cmc} \cap Streams = {}
  /\ {FragMax, WriteMax} \subseteq Nat \ {0} /\ {Bufs, MaxBad} \subseteq Nat

VARIABLES
  avail,     \* pp_avail
  sleepers,  \* pp_wait: threads asleep for a buffer
  tasks,     \* net_tasks
  sig,       \* nt_signals of every task
  net,       \* the network thread
  rxq,       \* ni_rx_queue
  cur,       \* current_tx_buf: buffers of the packet under way
  est,       \* established_channels
  ch,        \* per stream: the channel, the pushpull_stream and its thread
  connected, \* of the link
  cmcq,      \* buffers in txq of the management channel
  lost       \* history: buffers that nothing refers to any more

link == <<connected, cmcq, lost>>
vars == <<avail, sleepers, tasks, sig, net, rxq, cur, est, ch, link>>

Closed == [up |-> FALSE, appc |-> 0, netc |-> FALSE,
           rx |-> 0, tx |-> 0, flushed |-> FALSE, shutdown |-> FALSE,
           pc |-> "gone", asleep |-> FALSE, left |-> 0]

Init ==
  /\ avail = Bufs /\ sleepers = <<>> /\ tasks = <<>> /\ rxq = <<>>
  /\ sig = [t \in Tasks |-> {}]
  /\ net = [pc |-> "loop", s |-> None, todo |-> <<>>, hand |-> 0]
  /\ cur = 0 /\ est = <<Cmc>> /\ connected = FALSE /\ cmcq = 0 /\ lost = 0
  /\ ch = [s \in Streams |-> Closed]

-----------------------------------------------------------------------------
(* net_task_raise, and the pool.  The pool, the queue of tasks and the     *)
(* streams are updated together, so these are functions of a record of     *)
(* them all.                                                               *)

All == [avail |-> avail, sleepers |-> sleepers, tasks |-> tasks, sig |-> sig,
        cur |-> cur, est |-> est, ch |-> ch]
Becomes(x) ==
  /\ avail' = x.avail /\ sleepers' = x.sleepers /\ tasks' = x.tasks
  /\ sig' = x.sig /\ cur' = x.cur /\ est' = x.est /\ ch' = x.ch

net_task_raise(x, t, e) ==
  [x EXCEPT !.tasks = IF x.sig[t] = {} THEN Append(@, t) ELSE @, !.sig[t] = @ \cup {e}]

\* A buffer returns; who finds the pool empty wakes one sleeper.
pbuf_pool_put(x) ==
  LET w == IF x.avail = 0 /\ x.sleepers # <<>>
           THEN [x EXCEPT !.ch[Head(x.sleepers)].asleep = FALSE, !.sleepers = Tail(@)] ELSE x
      y == IF x.avail = 0 THEN net_task_raise(w, Netbuf, "avail") ELSE w
  IN  [y EXCEPT !.avail = @ + 1]

\* A chain of n buffers: only the first can find the pool empty.
pbuf_free(x, n) == IF n = 0 THEN x ELSE [pbuf_pool_put(x) EXCEPT !.avail = x.avail + n]

\* pbuf_make without waiting leaves the last buffer for those who wait.
MayTake(x) == x.avail >= 2
Take(x) == [x EXCEPT !.avail = @ - 1]

Signal(x, s) == [x EXCEPT !.ch[s].asleep = FALSE]

-----------------------------------------------------------------------------
(* The thread of a service.  pc: run (outside the stream), read, write     *)
(* (inside the loop, with the mutex), bufwait (asleep or woken in          *)
(* pbuf_pool_get, with the mutex), wcond (in cond_wait of write), closing, *)
(* gone.                                                                   *)

Listed(s) == ch[s].up /\ ~ch[s].netc
Locked(s) == ch[s].pc \in {"write", "bufwait"}

\* The network thread has the highest priority of them: the others run when
\* it waits for a task or for a mutex.
WaitsFor(s) ==
  \/ net.pc = "data" /\ s = net.s
  \/ net.pc = "close" /\ s = net.s /\ Listed(s)
  \/ net.pc = "tx" /\ cur = 0 /\ net.todo # <<>> /\ s = Head(net.todo) /\ Listed(s) /\ ch[s].appc # 1
  \/ net.pc \in {"down", "resyn"} /\ net.todo # <<>> /\ s = Head(net.todo)
NetBlocked == \E s \in Streams : WaitsFor(s) /\ Locked(s)
NetIdle == net.pc = "loop" /\ tasks = <<>>

App(s, pc) == /\ ch[s].pc = pc /\ ~ch[s].asleep /\ (NetIdle \/ NetBlocked)
              /\ UNCHANGED <<net, rxq, link>>
Goto(x, s, pc) == [x EXCEPT !.ch[s].pc = pc]
Sleep(x, s, pc) == [x EXCEPT !.ch[s].pc = pc, !.ch[s].asleep = TRUE]

pushpull_stream_read(s) ==
  /\ App(s, "run") \/ App(s, "read")
  /\ Becomes(IF ch[s].shutdown THEN Goto(All, s, "run")
             ELSE IF ch[s].rx = 0 THEN Sleep(net_task_raise(All, s, "push"), s, "read")
             ELSE pbuf_free(Goto([All EXCEPT !.ch[s].rx = 0], s, "run"), 1))

Flush(x, s) == net_task_raise([x EXCEPT !.ch[s].flushed = TRUE], s, "pull")

flush(s) ==
  /\ App(s, "run") /\ ch[s].tx > 0
  /\ Becomes(Flush(All, s))

WriteStart(s) ==
  /\ App(s, "run")
  /\ \E n \in 1 .. WriteMax : Becomes([Goto(All, s, "write") EXCEPT !.ch[s].left = n])

\* One unit goes into a new buffer.
Fill(x, s) == [Take(x) EXCEPT !.ch[s].tx = @ + 1, !.ch[s].left = @ - 1]

\* One round of the loop of pushpull_stream_write.
pushpull_stream_write(s) ==
  /\ App(s, "write") \/ App(s, "wcond")
  /\ Becomes(
       IF ch[s].left = 0 \/ ch[s].shutdown THEN Goto([All EXCEPT !.ch[s].left = 0], s, "run")
       ELSE IF ch[s].tx = 0
       THEN IF MayTake(All) THEN Goto(Fill(All, s), s, "write")
            ELSE IF s \notin Waiters THEN Goto(Flush([All EXCEPT !.ch[s].left = 0], s), s, "run")
            ELSE Goto(Flush(All, s), s, "bufwait")
       ELSE IF ch[s].tx < FragMax /\ MayTake(All) THEN Goto(Fill(All, s), s, "write")
       ELSE Sleep(Flush(All, s), s, "wcond"))

\* pbuf_pool_get with wait, inside the same call of write.
pbuf_pool_get(s) ==
  /\ App(s, "bufwait")
  /\ Becomes(IF avail = 0 THEN [Sleep(All, s, "bufwait") EXCEPT !.sleepers = Append(@, s)]
             ELSE Goto(Fill(All, s), s, "write"))

\* Mutant: the network thread is not told of the close.
DestroySilent(s) == App(s, "run") /\ Becomes(Goto(All, s, "closing"))

pushpull_stream_destroy(s) ==
  /\ App(s, "run")
  /\ Becomes(Goto(net_task_raise(All, s, "close"), s, "closing"))

\* Mutant: what was written and not sent is forgotten.
ShutdownKeepsTx(s) ==
  /\ App(s, "closing")
  /\ Becomes(IF ~ch[s].shutdown THEN Sleep(All, s, "closing")
             ELSE pbuf_free([Goto(All, s, "gone") EXCEPT !.ch[s].rx = 0, !.ch[s].tx = 0], ch[s].rx))

\* The thread frees what the network side has left it.
pushpull_stream_wait_shutdown(s) ==
  /\ App(s, "closing")
  /\ Becomes(IF ~ch[s].shutdown THEN Sleep(All, s, "closing")
             ELSE pbuf_free([Goto(All, s, "gone") EXCEPT !.ch[s].rx = 0, !.ch[s].tx = 0],
                            ch[s].rx + ch[s].tx))

Service(s) == \/ pushpull_stream_read(s) \/ flush(s) \/ WriteStart(s) \/ pushpull_stream_write(s)
              \/ pbuf_pool_get(s) \/ pushpull_stream_destroy(s) \/ pushpull_stream_wait_shutdown(s)

-----------------------------------------------------------------------------
(* The network thread.  pc: loop, rx (in netif_task_cb), data, open, close *)
(* and bad (in vllp_channel_receive, with the copy of a message), tx (in   *)
(* vllp_maybe_tx, with the channels left to look at), down and resyn (in   *)
(* vllp_disconnect, the latter for a SYN).  hand: it holds the buffer of a *)
(* packet received.                                                        *)

Copying == {"data", "open", "close", "bad"}
Net(pc) == net.pc = pc /\ UNCHANGED <<rxq, link>>
NetGoes(pc, todo) == net' = [net EXCEPT !.pc = pc, !.todo = todo]
ToTransmit == NetGoes("tx", est')

Destroyed(x, s) == IF x.ch[s].appc = 2 /\ x.ch[s].netc THEN [x EXCEPT !.ch[s].up = FALSE] ELSE x

\* The first task, with vllp_channel_task_cb and netbuf_cb.
net_thread ==
  /\ Net("loop") /\ tasks # <<>>
  /\ LET t == Head(tasks)
         x == [All EXCEPT !.tasks = Tail(@), !.sig[t] = {}]
     IN  CASE t = Netif -> Becomes(x) /\ NetGoes("rx", <<>>)
           [] t = Netbuf -> Becomes(x) /\ UNCHANGED net
           [] t \in Streams /\ "close" \notin sig[t] -> Becomes(x) /\ ToTransmit
           [] t \in Streams /\ "close" \in sig[t] ->
                IF ch[t].appc # 0 THEN Becomes(x) /\ UNCHANGED net
                ELSE Becomes([x EXCEPT !.ch[t].appc = 1]) /\ ToTransmit

netif_task_cb == Net("rx") /\ rxq = <<>> /\ Becomes(All) /\ NetGoes("loop", <<>>)

Receives(T) ==
  /\ net.pc = "rx" /\ rxq # <<>> /\ Head(rxq).t \in T
  /\ rxq' = Tail(rxq)
Transmits == net' = [net EXCEPT !.pc = "tx", !.hand = 1, !.todo = est']
Processed == net' = [net EXCEPT !.pc = "tx", !.s = None, !.todo = est']

\* v->channels: those vllp_disconnect closes.
ListedChannels == Without(SetToSeq(Streams), {s \in Streams : ~Listed(s)})

\* vllp_rx without a session: only a SYN counts.
DropsPacket ==
  /\ Receives({"ack"} \cup Copying) /\ ~connected
  /\ Becomes(pbuf_free(All, 1)) /\ UNCHANGED <<net, link>>

\* A SYN ends the session there is; the answer goes out in the same buffer.
vllp_accept_syn ==
  /\ Receives({"syn"}) /\ UNCHANGED <<cmcq, lost>>
  /\ IF connected
     THEN /\ Becomes(All) /\ UNCHANGED connected
          /\ net' = [net EXCEPT !.pc = "resyn", !.hand = 1, !.todo = ListedChannels]
     ELSE Becomes(pbuf_free(All, 1)) /\ connected' = TRUE /\ UNCHANGED net

\* Mutant: may_push is not asked.
AcceptsUnasked(c) == MayTake(All) /\ (c \in Streams => Listed(c))

\* No copy unless there is a buffer and the service has room for it.
Accepts(c) == MayTake(All) /\ (c \in Streams => Listed(c) /\ ch[c].rx = 0)

ChannelOf(m) == IF m.t \in {"open", "close"} THEN Cmc ELSE m.s

vllp_channel_receive ==
  /\ Receives(Copying) /\ connected /\ UNCHANGED link
  /\ LET m == Head(rxq) IN
     IF Accepts(ChannelOf(m))
     THEN Becomes(Take(All)) /\ net' = [net EXCEPT !.pc = m.t, !.s = m.s, !.hand = 1]
     ELSE Becomes(All) /\ Transmits

\* ERR_CHECKSUM_ERROR, or ERR_BAD_STATE for an unknown opcode: rxq has been
\* emptied, nobody frees the copy, and the session ends.
ReceiveFails ==
  /\ net.pc = "bad" /\ Becomes(All)
  /\ lost' = lost + 1
  /\ net' = [net EXCEPT !.pc = "down", !.s = None, !.todo = ListedChannels]
  /\ UNCHANGED <<rxq, connected, cmcq>>

pushpull_stream_push ==
  /\ Net("data") /\ ~Locked(net.s)
  /\ Becomes(Signal([All EXCEPT !.ch[net.s].rx = @ + 1], net.s)) /\ Processed

vllp_ack_payload ==
  /\ Receives({"ack"}) /\ connected /\ UNCHANGED link
  /\ Becomes(pbuf_free([All EXCEPT !.cur = 0], cur)) /\ Transmits

\* Mutant: the channel is freed although the service has not closed.
NetClosedFrees(x, s) ==
  Signal([x EXCEPT !.ch[s].shutdown = TRUE, !.ch[s].netc = TRUE, !.ch[s].up = FALSE], s)

\* pushpull_stream_close_pp, called by vllp_channel_net_close.
NetClosed(x, s) ==
  Destroyed(Signal([x EXCEPT !.ch[s].shutdown = TRUE, !.ch[s].netc = TRUE], s), s)

handle_cmc_close ==
  /\ Net("close")
  /\ IF Listed(net.s) THEN ~Locked(net.s) /\ Becomes(pbuf_free(NetClosed(All, net.s), 1))
     ELSE Becomes(pbuf_free(All, 1))
  /\ Processed

\* A new stream, and a thread for it (service_open_pushpull).  Whatever comes
\* of it, the OPEN_RESPONSE is queued in the buffer of the copy.
handle_cmc_open ==
  /\ net.pc = "open" /\ UNCHANGED <<rxq, connected, lost>>
  /\ LET s == net.s IN
     Becomes(IF ch[s].up \/ ch[s].pc # "gone" THEN All
             ELSE [All EXCEPT !.ch[s] = [Closed EXCEPT !.up = TRUE, !.pc = "run"], !.est = Append(@, s)])
  /\ cmcq' = cmcq + 1 /\ Processed

\* vllp_maybe_tx ends; the interface takes its buffer back, if it holds one.
TxDone ==
  /\ Net("tx") /\ (cur > 0 \/ net.todo = <<>>)
  /\ Becomes(pbuf_free(All, net.hand))
  /\ net' = [net EXCEPT !.pc = IF net.hand = 1 THEN "rx" ELSE "loop", !.hand = 0, !.todo = <<>>]

Visits(c) == net.pc = "tx" /\ cur = 0 /\ net.todo # <<>> /\ c = Head(net.todo)
Passes(c) == Net("tx") /\ Visits(c) /\ NetGoes("tx", Tail(net.todo))

\* A channel that has sent something goes to the end of the queue.
Sent(x, c) == [x EXCEPT !.est = Append(Without(@, {c}), c)]

\* The management channel sends what is queued on it.
CmcSends ==
  /\ Visits(Cmc) /\ NetGoes("tx", Tail(net.todo)) /\ UNCHANGED <<rxq, connected, lost>>
  /\ IF cmcq = 0 THEN Becomes(All) /\ UNCHANGED cmcq
     ELSE Becomes(Sent([All EXCEPT !.cur = 1], Cmc)) /\ cmcq' = cmcq - 1

\* Without a session nothing is sent.  Otherwise a CLOSE is queued on the
\* management channel, which sends its first packet; a close that finds no
\* buffer has left established_channels for good.
vllp_tx_close(s) ==
  /\ Net("tx") /\ Visits(s) /\ ch[s].appc = 1
  /\ LET x == [All EXCEPT !.est = Without(@, {s})]
         y == [x EXCEPT !.ch[s].appc = 2]
     IN  IF ~connected THEN Becomes(Destroyed(y, s)) /\ NetGoes("tx", <<>>)
         ELSE /\ Becomes(IF MayTake(All) THEN Destroyed(Sent([Take(y) EXCEPT !.cur = 1], Cmc), s) ELSE x)
              /\ NetGoes("tx", Tail(net.todo))

\* Mutant: the writer that waits for room is not told.
PullUnsignalled(s) ==
  /\ Passes(s) /\ ch[s].appc # 1
  /\ IF ~Listed(s) THEN Becomes(All)
     ELSE /\ ~Locked(s)
          /\ Becomes(IF ch[s].flushed /\ ch[s].tx > 0
                     THEN Sent([All EXCEPT !.cur = ch[s].tx, !.ch[s].tx = 0, !.ch[s].flushed = FALSE], s)
                     ELSE All)

pushpull_stream_pull(s) ==
  /\ Passes(s) /\ ch[s].appc # 1
  /\ IF ~Listed(s) THEN Becomes(All)
     ELSE /\ ~Locked(s)
          /\ Becomes(IF ch[s].flushed /\ ch[s].tx > 0
                     THEN Signal(Sent([All EXCEPT !.cur = ch[s].tx, !.ch[s].tx = 0,
                                                  !.ch[s].flushed = FALSE], s), s)
                     ELSE All)

\* A net timer runs when there is no task: nothing has been heard of the
\* peer for too long.
vllp_timeout_timer ==
  /\ Net("loop") /\ tasks = <<>> /\ connected
  /\ Becomes(All) /\ NetGoes("down", ListedChannels)

\* Every channel is closed; then the packet under way is freed.
vllp_disconnect ==
  /\ net.pc \in {"down", "resyn"} /\ UNCHANGED <<rxq, cmcq, lost>>
  /\ IF net.todo # <<>>
     THEN LET s == Head(net.todo) IN
          /\ ~Locked(s) /\ Becomes(NetClosed(All, s))
          /\ NetGoes(net.pc, Tail(net.todo)) /\ UNCHANGED connected
     ELSE /\ Becomes(pbuf_free([All EXCEPT !.cur = 0], cur + net.hand))
          /\ connected' = (net.pc = "resyn")
          /\ net' = [net EXCEPT !.pc = IF net.hand = 1 THEN "rx" ELSE "loop", !.hand = 0]

NetWork == \/ net_thread \/ netif_task_cb \/ DropsPacket \/ vllp_accept_syn
           \/ vllp_channel_receive \/ ReceiveFails \/ pushpull_stream_push
           \/ vllp_ack_payload \/ handle_cmc_close \/ handle_cmc_open \/ TxDone \/ CmcSends
           \/ (\E s \in Streams : vllp_tx_close(s) \/ pushpull_stream_pull(s))
           \/ vllp_disconnect

-----------------------------------------------------------------------------
(* The interface: a packet arrives if there is a buffer for it.            *)

Arrives(t, c) ==
  /\ MayTake(All)
  /\ rxq' = Append(rxq, [t |-> t, s |-> c])
  /\ Becomes(net_task_raise(Take(All), Netif, "rx"))
  /\ UNCHANGED <<net, link>>

\* The peer acknowledges the packet under way.
AckArrives == /\ cur > 0 /\ \A k \in DOMAIN rxq : rxq[k].t # "ack"
              /\ Arrives("ack", None)

\* The peer sends its next message when the one before has been received, and
\* opens channels that are not open.
PeerSends(t, c) == /\ \A k \in DOMAIN rxq : rxq[k].t = "ack"
                   /\ t = "open" => ~Listed(c)
                   /\ Arrives(t, c)

Interrupt == \/ AckArrives
             \/ \E s \in Streams, t \in {"data", "close", "open"} : PeerSends(t, s)
             \/ \E c \in Channels : lost < MaxBad /\ PeerSends("bad", c)
             \/ PeerSends("syn", None)

Next == NetWork \/ vllp_timeout_timer \/ Interrupt \/ \E s \in Streams : Service(s)

Spec == Init /\ [][Next]_vars

\* The network thread goes on; packets do not keep it busy for ever, and calls
\* under way go on when it is not; the peer acknowledges what reaches
\* it and answers a CLOSE; when no packet can be received for lack of
\* buffers, the time-out of the link runs out.
InCall(s) == pushpull_stream_write(s) \/ pbuf_pool_get(s) \/ pushpull_stream_wait_shutdown(s)
FairSpec ==
  /\ Spec /\ WF_vars(NetWork) /\ []<>(NetIdle \/ NetBlocked) /\ SF_vars(AckArrives)
  /\ WF_vars(~MayTake(All) /\ vllp_timeout_timer)
  /\ \A s \in Streams : SF_vars(InCall(s)) /\ SF_vars(ch[s].appc = 2 /\ PeerSends("close", s))

-----------------------------------------------------------------------------
(* Properties.                                                             *)

\* Types.  The queue of net_tasks holds exactly the tasks with signals, each
\* once, which is what net_task_raise tells by nt_signals == 0.
NetTypeOK ==
  /\ avail \in 0 .. Bufs /\ cur \in 0 .. FragMax
  /\ Range(tasks) = {t \in Tasks : sig[t] # {}} /\ IsInjective(tasks)
  /\ \A s \in Streams : ch[s].rx \in 0 .. 1 /\ ch[s].tx \in 0 .. FragMax

\* No buffer is lost or freed twice, whoever of the service, the network
\* thread, the management channel and the link has it when the channel or the
\* session ends, except the copies of the messages refused for their checksum,
\* which vllp_channel_receive never frees.
InStreams == UNION {{s} \X (1 .. ch[s].rx + ch[s].tx) : s \in Streams}
BuffersAccounted ==
  avail + cur + Len(rxq) + net.hand + (IF net.pc \in Copying THEN 1 ELSE 0)
    + cmcq + Cardinality(InStreams) = Bufs - lost

\* pushpull_stream_may_push looks at pps_rxbuf without the mutex; what it has
\* seen still holds when push has got the mutex and asserts it.
PushFinds == net.pc = "data" => ch[net.s].rx = 0 /\ ~ch[net.s].netc

\* vllp_channel_maybe_destroy frees the channel with the net_task in it: it is
\* not queued then, and nobody raises it afterwards.
FreedIsQuiet == \A s \in Streams : ~ch[s].up => sig[s] = {}

\* The network thread's queue as a whole.
NetInv == NetTypeOK /\ FreedIsQuiet

\* A writer that waits for a buffer gets one: the buffers without waiting stop
\* one short of the last, "Always have some spare capacity for waiters".
WaiterServed == \A s \in Streams : (ch[s].pc = "bufwait") ~> (ch[s].pc # "bufwait")

\* A writer that waits for its fragment to be pulled goes on, by a pull or by
\* the close: cond_signal of pull, push and close_pp wakes it.
WriterResumes == \A s \in Streams : (ch[s].pc = "wcond") ~> (ch[s].pc # "wcond")

\* A service that closes its stream gets out of pushpull_stream_wait_shutdown,
\* unless the CLOSE found no buffer: vllp_maybe_tx has then forgotten it.
CloseLost(s) == ch[s].appc = 1 /\ s \notin Range(est)
CloseCompletes == \A s \in Streams : (ch[s].pc = "closing") ~> (ch[s].pc = "gone" \/ CloseLost(s))

=============================================================================
