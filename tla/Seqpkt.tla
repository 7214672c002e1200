------------------------------- MODULE Seqpkt -------------------------------
(***************************************************************************)
(* Sequenced packets on MBUS (mbus_seqpkt.c): fragments numbered by one    *)
(* bit, acknowledged by the bit expected next (SP_ESEQ), sent only while   *)
(* the receiver is clear to send (SP_CTS).  Both ends run the functions of *)
(* mbus_seqpkt.c on their network threads over a bus that loses packets;   *)
(* "dev" accepts the connection, "peer" has asked for it.                  *)
(*                                                                         *)
(* A service is a slot for one message received and one to be pulled, used *)
(* from a thread of its own that raises events.                            *)
(***************************************************************************)
EXTENDS Naturals, Sequences, FiniteSets, SequencesExt

CONSTANTS
  MsgFrags,   \* the largest number of fragments (pbufs) of a message
  MaxSent,    \* bound: per end, fragments its service gives to the connection
  Closers,    \* bound: the ends whose service may close before it is told to
  MaxFaults,  \* bound: packets lost and buffers not there
  WireMax     \* bound: an end with as many packets under way starts no more

ASSUME SeqpktConstants ==
  {MsgFrags, WireMax} \subseteq Nat \ {0} /\ MaxFaults \in Nat

VARIABLES
  con,     \* per end: mbus_seqpkt_con_t and the service on top of it
  wire,    \* per end: the packets on their way to it
  faults   \* bound: faults so far

vars == <<con, wire, faults>>

Ends == {"dev", "peer"}
Other(e) == CHOOSE o \in Ends : o # e

-----------------------------------------------------------------------------
(* up: allocated.  flow: mf_input is set.  app: app_opaque is set.  sig:   *)
(* nt_signals.  gen: msc_seqgen & 1.  eseq, cts: local flags; reseq, rcts: *)
(* remote flags.  txq holds [seq, n, last]; n numbers the fragments given  *)
(* to the connection, for the properties only, as do sent (fragments put   *)
(* under way) and got (those accepted).                                    *)

mbus_seqpkt_con_init ==
  [up |-> TRUE, flow |-> TRUE, app |-> TRUE, closed |-> FALSE, sig |-> {},
   gen |-> 0, eseq |-> 0, cts |-> FALSE, reseq |-> 0, rcts |-> FALSE,
   txq |-> <<>>, rxq |-> 0, new |-> TRUE, rtx |-> FALSE, ack |-> FALSE, ka |-> TRUE,
   slot |-> FALSE, out |-> 0, done |-> FALSE, given |-> 0, sent |-> 0, got |-> <<>>]

Freed == [mbus_seqpkt_con_init EXCEPT !.up = FALSE, !.flow = FALSE, !.app = FALSE, !.ka = FALSE,
                                      !.done = TRUE]

Init ==
  /\ con = [e \in Ends |-> IF e = "peer" THEN [mbus_seqpkt_con_init EXCEPT !.cts = TRUE]
                           ELSE Freed]
  /\ wire = [e \in Ends |-> IF e = "dev" THEN <<[t |-> "init"]>> ELSE <<>>]
  /\ faults = 0

-----------------------------------------------------------------------------
(* Functions of one end, k.                                                *)

mbus_seqpkt_txq_enq(k, frags) ==
  [k EXCEPT !.gen = (@ + frags) % 2, !.given = @ + frags,
            !.txq = @ \o [i \in 1 .. frags |-> [seq |-> (k.gen + i - 1) % 2, n |-> k.given + i,
                                                last |-> i = frags]]]

\* mbus_seqpkt_service_prep_send: what the service has is pulled.
Pulled(k) ==
  IF k.closed \/ ~k.app \/ Len(k.txq) >= 2 \/ k.out = 0 THEN k
  ELSE [mbus_seqpkt_txq_enq(k, k.out) EXCEPT !.out = 0]

Shut(k) == [k EXCEPT !.app = FALSE]

\* The first fragment may go: the peer expects it and is clear to receive.
MaySend(k) == k.txq # <<>> /\ Head(k.txq).seq = k.reseq /\ k.rcts

\* Mutant: may_push is not asked.
ClearWithApp(k) == k.app

mbus_seqpkt_service_update_cts(k) == k.app /\ ~k.slot

Flags(k) == [t |-> "flags", eseq |-> k.eseq, cts |-> k.cts, frag |-> <<>>]

\* mbus_seqpkt_output, as [k, pkt]: the end afterwards and the packet sent, if
\* any.  buf: there is a buffer to send it in; why: SP_XMIT_*, if any.
mbus_seqpkt_output(j, buf, why) ==
  LET p == Pulled(j)
      tx == MaySend(p)
      fresh == tx /\ p.new
      clear == mbus_seqpkt_service_update_cts(p)
      k == [p EXCEPT !.new = @ /\ ~fresh, !.cts = clear, !.sent = IF fresh THEN @ + 1 ELSE @]
  IN  IF ~j.flow THEN [k |-> j, pkt |-> <<>>]
      ELSE IF ~fresh /\ why = "none" /\ ~k.closed /\ clear = p.cts THEN [k |-> k, pkt |-> <<>>]
      ELSE IF ~buf THEN [k |-> [k EXCEPT !.rtx = TRUE], pkt |-> <<>>]
      ELSE IF tx /\ (fresh \/ why = "rtx")
      THEN [k |-> [k EXCEPT !.rtx = TRUE, !.ack = FALSE],
            pkt |-> <<[Flags(k) EXCEPT !.frag = <<Head(k.txq)>>]>>]
      ELSE IF k.closed THEN [k |-> Shut([k EXCEPT !.ack = FALSE]), pkt |-> <<[t |-> "eos"]>>]
      ELSE [k |-> [k EXCEPT !.ack = FALSE], pkt |-> <<Flags(k)>>]

\* Mutant: the next fragment is not a new one.
ReleaseNotNew(k) ==
  IF k.txq = <<>> \/ Head(k.txq).seq = k.reseq THEN k ELSE [k EXCEPT !.txq = Tail(@), !.rtx = FALSE]

release_txq(k) ==
  IF k.txq = <<>> \/ Head(k.txq).seq = k.reseq THEN k
  ELSE [k EXCEPT !.txq = Tail(@), !.rtx = FALSE, !.new = TRUE]

\* mbus_seqpkt_service_recv: the last fragment completes the message.
mbus_seqpkt_service_recv(k, f) ==
  IF f.last THEN [k EXCEPT !.rxq = 0, !.slot = TRUE] ELSE [k EXCEPT !.rxq = @ + 1]

\* Mutant: the sequence bit is not compared.
AcceptsAny(k, p) == p.frag # <<>> /\ k.cts

Acceptable(k, p) == p.frag # <<>> /\ p.frag[1].seq = k.eseq /\ k.cts

\* The fragment of a packet, taken if it is the one expected and there is room.
Accepted(k, p) ==
  IF ~Acceptable(k, p) THEN k
  ELSE LET a == [k EXCEPT !.eseq = 1 - @, !.ack = TRUE, !.got = Append(@, p.frag[1].n)]
       IN  IF k.app THEN mbus_seqpkt_service_recv(a, p.frag[1]) ELSE a

\* Mutant: the service need not have closed.
DestroyAtOnce(k) == IF ~k.app THEN [Freed EXCEPT !.sig = k.sig] ELSE k

mbus_seqpkt_maybe_destroy(k) ==
  IF k.closed /\ ~k.app THEN [Freed EXCEPT !.sig = k.sig] ELSE k

-----------------------------------------------------------------------------
(* Handlers.                                                               *)

\* The end becomes what output makes of k; a missing buffer is a fault.
Outputs(e, k, hand, why, w) ==
  \E buf \in {TRUE} \cup (IF hand \/ faults >= MaxFaults THEN {} ELSE {FALSE}) :
    LET r == mbus_seqpkt_output(k, buf, why)
    IN  /\ buf \/ mbus_seqpkt_output(k, TRUE, why).pkt # <<>>
        /\ con' = [con EXCEPT ![e] = mbus_seqpkt_maybe_destroy(r.k)]
        /\ wire' = [w EXCEPT ![Other(e)] = @ \o r.pkt]
        /\ faults' = IF buf THEN faults ELSE faults + 1

mbus_seqpkt_tick(e, k, why) ==
  Len(wire[Other(e)]) < WireMax /\ Outputs(e, k, FALSE, why, wire)

\* net_thread looks at its timers when it has no task.
Expires(e, timer) == con[e][timer] /\ con[e].sig = {}

mbus_seqpkt_accept ==
  /\ wire["dev"] # <<>> /\ Head(wire["dev"]).t = "init"
  /\ con' = [con EXCEPT !["dev"] = mbus_seqpkt_con_init]
  /\ wire' = [wire EXCEPT !["dev"] = Tail(@), !["peer"] = Append(@, Flags(mbus_seqpkt_con_init))]
  /\ UNCHANGED faults

\* mbus_seqpkt_recv_data, for a flow mbus_local finds.
mbus_seqpkt_recv_data(e) ==
  /\ con[e].flow /\ wire[e] # <<>> /\ Head(wire[e]).t = "flags"
  /\ LET p == Head(wire[e])
         r == release_txq([con[e] EXCEPT !.reseq = p.eseq, !.rcts = p.cts])
     IN  Outputs(e, Accepted(r, p), ~(Acceptable(r, p) /\ r.app), "none", [wire EXCEPT ![e] = Tail(@)])

\* mbus_seqpkt_input of SP_EOS.
CloseReceived(e) ==
  /\ con[e].flow /\ wire[e] # <<>> /\ Head(wire[e]).t = "eos"
  /\ con' = [con EXCEPT ![e] = mbus_seqpkt_maybe_destroy([Shut(@) EXCEPT !.flow = FALSE])]
  /\ wire' = [wire EXCEPT ![e] = Tail(@)] /\ UNCHANGED faults

\* mbus_local knows no such flow.
Dropped(e) ==
  /\ ~con[e].flow /\ wire[e] # <<>> /\ Head(wire[e]).t # "init"
  /\ wire' = [wire EXCEPT ![e] = Tail(@)] /\ UNCHANGED <<con, faults>>

mbus_seqpkt_task_cb(e) ==
  /\ con[e].sig # {}
  /\ mbus_seqpkt_tick(e, [con[e] EXCEPT !.sig = {}, !.closed = @ \/ "close" \in con[e].sig], "none")

mbus_seqpkt_rtx_timer(e) ==
  Expires(e, "rtx") /\ mbus_seqpkt_tick(e, [con[e] EXCEPT !.rtx = FALSE], "rtx")

mbus_seqpkt_ack_timer(e) ==
  Expires(e, "ack") /\ mbus_seqpkt_tick(e, [con[e] EXCEPT !.ack = FALSE], "ack")

\* The keep-alive comes after a silence that is longer than the other timers.
Silent(e) == ~con[e].rtx /\ ~con[e].ack /\ wire[Other(e)] = <<>>
mbus_seqpkt_ka_timer(e) ==
  Expires(e, "ka") /\ Silent(e) /\ mbus_seqpkt_tick(e, con[e], "ka")

\* Mutant: the service is not told.
TimeoutUntold(e) ==
  /\ Expires(e, "ka") /\ wire[e] = <<>> /\ (~con[Other(e)].flow \/ faults > 0)
  /\ con' = [con EXCEPT ![e].ka = FALSE]
  /\ UNCHANGED <<wire, faults>>

\* The same timer, when nothing has been received for too long: the other end
\* is gone, or the packets between have been lost.
Timeout(e) ==
  /\ Expires(e, "ka") /\ wire[e] = <<>> /\ (~con[Other(e)].flow \/ faults > 0)
  /\ con' = [con EXCEPT ![e] = Shut([@ EXCEPT !.ka = FALSE])]
  /\ UNCHANGED <<wire, faults>>

-----------------------------------------------------------------------------
(* The service's thread.  It may not use the connection after its close    *)
(* event once it has been told of the shutdown.                            *)

mbus_seqpkt_service_event_cb(k, ev) == [k EXCEPT !.sig = @ \cup {ev}]

ServiceTakes(e) ==
  /\ con[e].slot /\ ~con[e].done
  /\ con' = [con EXCEPT ![e] = mbus_seqpkt_service_event_cb([@ EXCEPT !.slot = FALSE], "event")]
  /\ UNCHANGED <<wire, faults>>

ServiceGives(e) ==
  /\ con[e].app /\ ~con[e].done /\ con[e].out = 0
  /\ \E n \in 1 .. MsgFrags :
       /\ con[e].given + n <= MaxSent[e]
       /\ con' = [con EXCEPT ![e] = mbus_seqpkt_service_event_cb([@ EXCEPT !.out = n], "event")]
  /\ UNCHANGED <<wire, faults>>

ServiceCloses(e) ==
  /\ con[e].up /\ ~con[e].done /\ (con[e].app => e \in Closers)
  /\ con' = [con EXCEPT ![e] = mbus_seqpkt_service_event_cb([@ EXCEPT !.done = TRUE], "close")]
  /\ UNCHANGED <<wire, faults>>

Lose(e) ==
  /\ wire[e] # <<>> /\ faults < MaxFaults
  /\ wire' = [wire EXCEPT ![e] = Tail(@)] /\ faults' = faults + 1 /\ UNCHANGED con

-----------------------------------------------------------------------------
Input(e) == \/ e = "dev" /\ mbus_seqpkt_accept
            \/ mbus_seqpkt_recv_data(e) \/ CloseReceived(e) \/ Dropped(e)

Next == \E e \in Ends : \/ Input(e) \/ mbus_seqpkt_task_cb(e) \/ mbus_seqpkt_rtx_timer(e)
                        \/ mbus_seqpkt_ack_timer(e) \/ mbus_seqpkt_ka_timer(e) \/ Timeout(e)
                        \/ ServiceTakes(e) \/ ServiceGives(e) \/ ServiceCloses(e) \/ Lose(e)

Spec == Init /\ [][Next]_vars

\* Packets arrive, tasks and timers run, a time-out runs out when the other end
\* is gone, and a service takes what it is given and closes when told to.
\* Weak fairness is spelled out with guards, cheaper to evaluate than ENABLED.
Room(e) == Len(wire[Other(e)]) < WireMax
Fair(e) ==
  /\ ([]<>(wire[e] = <<>>) \/ []<><<Input(e)>>_vars)
  /\ ([]<>~(con[e].sig # {} /\ Room(e)) \/ []<><<mbus_seqpkt_task_cb(e)>>_vars)
  /\ ([]<>~(Expires(e, "rtx") /\ Room(e)) \/ []<><<mbus_seqpkt_rtx_timer(e)>>_vars)
  /\ ([]<>~(Expires(e, "ack") /\ Room(e)) \/ []<><<mbus_seqpkt_ack_timer(e)>>_vars)
  /\ ([]<>~(Expires(e, "ka") /\ Silent(e)) \/ []<><<mbus_seqpkt_ka_timer(e)>>_vars)
  /\ (<>[]~(Expires(e, "ka") /\ ~con[Other(e)].flow /\ wire[e] = <<>>) \/ []<><<Timeout(e)>>_vars)
  /\ ([]<>~(con[e].slot /\ ~con[e].done) \/ []<><<ServiceTakes(e)>>_vars)
  /\ ([]<>~(con[e].up /\ ~con[e].app /\ ~con[e].done) \/ []<><<ServiceCloses(e)>>_vars)

FairSpec == Spec /\ Fair("dev") /\ Fair("peer")

-----------------------------------------------------------------------------
(* Properties.                                                             *)

\* Types; the sequence bits in the queue alternate, whatever the messages they
\* belong to; timers are those of a connection that is not freed.
SeqpktTypeOK ==
  \A e \in Ends :
    /\ Len(con[e].txq) <= 1 + MsgFrags /\ con[e].rxq < MsgFrags
    /\ con[e].ack \/ con[e].rtx \/ con[e].ka => con[e].up
    /\ \A i \in 1 .. Len(con[e].txq) : con[e].txq[i].seq = (con[e].txq[i].n + 1) % 2

\* One bit tells a retransmission from the next fragment, although packets are
\* lost, buffers run out and acknowledgements are late: while both ends have
\* the flow, each direction is a ReliableLink (release_txq, msc_new_fragment
\* and the comparison in mbus_seqpkt_recv_data).
Alive == \A e \in Ends : con[e].flow
FromDevice == INSTANCE ReliableLink WITH
  offered <- con["dev"].sent, accepted <- IF Alive THEN con["peer"].got ELSE <<>>, alive <- Alive
FromPeer == INSTANCE ReliableLink WITH
  offered <- con["peer"].sent, accepted <- IF Alive THEN con["dev"].got ELSE <<>>, alive <- Alive
ToPeer == FromDevice!Spec
ToDevice == FromPeer!Spec
BothWays == ToPeer /\ ToDevice

\* mbus_seqpkt_recv_data pushes by the SP_CTS it computed when it last sent;
\* the services assert that they have room then (rpc_push, echo_push).
PushFindsRoom == \A e \in Ends :
  con[e].flow /\ con[e].app /\ con[e].cts => ~con[e].slot

\* mbus_seqpkt_maybe_destroy frees the connection with the net_task in it: it
\* is not queued then.
FreedIsUnqueued == \A e \in Ends : ~con[e].up => con[e].sig = {}

\* A connection as a whole: what is linked, armed and queued, and for whom.
SeqpktInv == SeqpktTypeOK /\ FreedIsUnqueued

\* A fragment at the head of msc_txq leaves it: it is acknowledged, or the
\* connection ends.  Retransmission stops when SP_CTS is off and a lost SP_CTS
\* is only repeated by the keep-alive, so nothing less than all the timers
\* together gets it through.
Heads(e, n) == con[e].txq # <<>> /\ Head(con[e].txq).n = n
Drains == \A e \in Ends : \A n \in 1 .. MaxSent[e] : Heads(e, n) ~> ~Heads(e, n)

\* The close is sent once and not acknowledged; when it is lost the other end
\* still gets rid of the connection (mbus_seqpkt_ka_timer, SP_TIME_TIMEOUT).
BothClose == \A e \in Ends :
  (con[e].up /\ ~con[Other(e)].up) ~> (~con[e].up \/ con[Other(e)].up)

=============================================================================
