-------------------------------- MODULE Tcp --------------------------------
(***************************************************************************)
(* TCP (tcp.c): one connection between a client that has called            *)
(* tcp_connect and a service, both ends running this code on their network *)
(* threads, over a network that loses, doubles and reorders segments.      *)
(*                                                                         *)
(* Bytes are not kept, only their numbers: sequence numbers have width     *)
(* SeqSpace and are compared as the code compares them.  RTT estimates,    *)
(* options, checksums and ports are left out; an output that fails is a    *)
(* segment lost.                                                           *)
(***************************************************************************)
EXTENDS Integers, Sequences, FiniteSets, SequencesExt, FiniteSetsExt

CONSTANTS
  SeqSpace,   \* 2^32 in the code
  Iss,        \* per end: tcb_iss
  TxSize,     \* tcb_txfifo_size
  RxSize,     \* tcb_rxfifo_size
  Mss,        \* tcb_max_segment_size, tcb_rcv.mss and the 1460 of tcp_emit
  RejectMax,  \* 5 in the code: answers to unacceptable segments in a row
  MaxData,    \* bound: per end, bytes written
  AnyFlush,   \* bound: whether an application flushes other than what Nagle holds back
  MaxFaults   \* bound: lost, doubled, overtaken segments, outages, early timers, no buffer

ASSUME TcpConstants ==
  /\ {SeqSpace, TxSize, RxSize, Mss, RejectMax} \subseteq Nat \ {0} /\ MaxFaults \in Nat
  /\ AnyFlush \in BOOLEAN
  /\ SeqSpace % 2 = 0 /\ 2 * (TxSize + 1) < SeqSpace /\ RxSize < SeqSpace
  /\ \A e \in {"cli", "srv"} : Iss[e] \in 0 .. SeqSpace - 1 /\ MaxData[e] \in Nat

VARIABLES
  tcb,     \* per end: tcb_t and what its application has done
  wire,    \* per end: the segments on their way to it
  faults   \* bound: faults so far

vars == <<tcb, wire, faults>>

Ends == {"cli", "srv"}
Other(e) == CHOOSE o \in Ends : o # e

-----------------------------------------------------------------------------
(* Differences of sequence numbers, unsigned and as an int.                *)

Minus(a, b) == (a - b) % SeqSpace
Signed(a, b) == LET d == Minus(a, b) IN IF 2 * d >= SeqSpace THEN d - SeqSpace ELSE d
Plus(a, n) == (a + n) % SeqSpace

(* st: tcb_state.  listed: on tcbs.  app: tcb_app_closed.  psyn, pfin:     *)
(* tcb_pending_syn (the flags) and _fin.  wr, nxt, una, wnd, wl1, wl2:     *)
(* tcb_snd; rd, rnxt: tcb_rcv; lim: fast_reject_limiter; heard:            *)
(* tcb_last_rx has been set.  early (for the properties): a FIN has been   *)
(* sent in front of data.                                                  *)

tcb_create(e) ==
  [st |-> "CLOSED", up |-> TRUE, listed |-> FALSE, app |-> FALSE, done |-> FALSE, psyn |-> {},
   pfin |-> FALSE, fin |-> FALSE, wclosed |-> FALSE, lim |-> 0, wr |-> Plus(Iss[e], 1),
   nxt |-> Iss[e], una |-> Iss[e], wnd |-> 0, wl1 |-> 0, wl2 |-> 0, rd |-> 0, rnxt |-> 0,
   rtx |-> FALSE, dack |-> FALSE, tw |-> FALSE, sig |-> {}, heard |-> FALSE,
   sleeps |-> FALSE, flushed |-> TRUE, data |-> 0, early |-> FALSE]

Freed(e) == [tcb_create(e) EXCEPT !.up = FALSE, !.done = TRUE, !.wr = Iss[e]]

Init ==
  /\ tcb = [e \in Ends |-> IF e = "srv" THEN Freed(e)
                           ELSE [tcb_create(e) EXCEPT !.st = "SYN_SENT", !.sig = {"connect"}]]
  /\ wire = [e \in Ends |-> <<>>] /\ faults = 0

tcb_txfifo_used(k) == Minus(k.wr, k.una)
tcb_rxfifo_used(k) == Minus(k.rnxt, k.rd)
tcb_rxfifo_avail(k) == Minus(RxSize, tcb_rxfifo_used(k))
InFlight(k) == Minus(k.nxt, k.una)
Room(k) == Max({0, k.wnd - InFlight(k)})

Raise(k, ev) == [k EXCEPT !.sig = @ \cup {ev}]

-----------------------------------------------------------------------------
(* Sending.  x = [k, e, pool, out]: the tcb, its end, whether pbuf_make has *)
(* a buffer for it, and the segments it sends.                             *)

On(x, k) == [x EXCEPT !.k = k]
Segment(k, seq, flags, len) ==
  [seq |-> seq, ack |-> k.rnxt, flags |-> flags, len |-> len, wnd |-> tcb_rxfifo_avail(k)]

tcp_output_tcb(x, seq, flags, len) == [x EXCEPT !.out = Append(@, Segment(x.k, seq, flags, len))]

tcp_emit(x, seq, gen_ack) ==
  LET k == [x.k EXCEPT !.dack = FALSE]
      fifo == Minus(k.wr, seq)
      n == IF seq = k.nxt THEN Min({fifo, Room(k)}) ELSE fifo
      len == Min({Mss, IF k.pfin THEN n - 1 ELSE n})
  IN  IF ~x.pool THEN x
      ELSE IF k.psyn # {} THEN tcp_output_tcb(On(x, k), Iss[x.e], k.psyn, 0)
      ELSE IF n = 0
      THEN IF gen_ack THEN tcp_output_tcb(On(x, k), seq, {"ACK"}, 0) ELSE On(x, k)
      ELSE IF k.pfin /\ n = 1
      THEN tcp_output_tcb(On(x, [k EXCEPT !.nxt = k.wr, !.early = @ \/ fifo > 1]), seq, {"FIN", "ACK"}, 0)
      ELSE On(tcp_output_tcb(On(x, k), seq, {"PSH", "ACK"}, len),
              [k EXCEPT !.nxt = IF @ = seq THEN Plus(@, len) ELSE @])

ArmIfIdle(k) == [k EXCEPT !.rtx = @ \/ k.una = k.nxt]

tcp_send_syn(x, flags) ==
  LET k == [ArmIfIdle(x.k) EXCEPT !.psyn = flags, !.nxt = Plus(@, 1)]
  IN  tcp_emit(On(x, k), k.nxt, FALSE)

tcp_send_fin(x) ==
  LET k == [ArmIfIdle(x.k) EXCEPT !.pfin = TRUE, !.wr = Plus(@, 1)]
  IN  tcp_emit(On(x, k), k.nxt, FALSE)

tcp_ack(k, count) ==
  IF count = 0 THEN k
  ELSE LET a == [k EXCEPT !.una = Plus(@, count), !.psyn = {}, !.rtx = TRUE, !.sleeps = FALSE]
       IN  IF a.wr # a.nxt THEN Raise(a, "emit") ELSE a

tcp_destroy(k, e) == IF k.st = "CLOSED" /\ k.app THEN [Freed(e) EXCEPT !.sig = k.sig] ELSE k

tcp_close(x) ==
  On(x, tcp_destroy([x.k EXCEPT !.st = "CLOSED", !.listed = FALSE, !.rtx = FALSE, !.dack = FALSE,
                                !.tw = FALSE, !.sleeps = FALSE], x.e))

\* Mutant: TIME_WAIT without its timer.
TimeWaitUnarmed(k) == [k EXCEPT !.st = "TIME_WAIT", !.rtx = FALSE, !.dack = FALSE]

tcp_time_wait(k) == [k EXCEPT !.st = "TIME_WAIT", !.rtx = FALSE, !.dack = FALSE, !.tw = TRUE]

-----------------------------------------------------------------------------
(* tcp_task_cb, by signal.                                                 *)

tcp_do_connect(x) ==
  LET y == tcp_send_syn(On(x, [x.k EXCEPT !.heard = TRUE]), {"SYN"})
  IN  On(y, [y.k EXCEPT !.listed = TRUE])

EmitStates == {"ESTABLISHED", "FIN_WAIT1", "FIN_WAIT2", "CLOSE_WAIT", "CLOSING"}

\* One round of the loop, which ends for want of data, of window, or by Nagle.
EmitRound(x, force) ==
  LET k == x.k
      unsent == Minus(k.wr, k.nxt)
  IN  IF unsent = 0 \/ Room(k) = 0 \/ (~force /\ unsent < Mss /\ k.una # k.nxt) THEN x
      ELSE tcp_emit(x, k.nxt, FALSE)

EmitAll(x, force) ==
  LET round[i \in 0 .. TxSize + 1] ==
        IF i = 0 THEN On(x, ArmIfIdle(x.k)) ELSE EmitRound(round[i - 1], force)
  IN  IF x.k.st \notin EmitStates THEN x ELSE round[TxSize + 1]

CloseRequested(x) ==
  LET k == [x.k EXCEPT !.app = TRUE]
      y == CASE k.st \in {"ESTABLISHED", "SYN_RECEIVED"} -> tcp_send_fin(On(x, [k EXCEPT !.st = "FIN_WAIT1"]))
             [] k.st = "CLOSE_WAIT" -> tcp_send_fin(On(x, [k EXCEPT !.st = "LAST_ACK"]))
             [] OTHER -> On(x, k)
  IN  On(y, tcp_destroy(y.k, y.e))

Handle(x, sigs) ==
  LET c == IF "connect" \in sigs THEN tcp_do_connect(x) ELSE x
      w == IF "wnd_open" \in sigs /\ c.k.st = "ESTABLISHED" THEN tcp_emit(c, c.k.nxt, TRUE) ELSE c
      m == IF sigs \cap {"emit", "flush"} # {} THEN EmitAll(w, "flush" \in sigs) ELSE w
  IN  IF "close" \in sigs THEN CloseRequested(m) ELSE m

-----------------------------------------------------------------------------
(* tcp_input_ipv4 for a tcb that is found.                                 *)

SegLen(s) == s.len + Cardinality(s.flags \cap {"SYN", "FIN"})

\* tcp_reply
Reply(x, seq, ack, flags, wnd) ==
  [x EXCEPT !.out = Append(@, [seq |-> seq, ack |-> ack, flags |-> flags, len |-> 0, wnd |-> wnd])]

InSynSent(x, s) ==
  LET k == x.k
      ackd == "ACK" \in s.flags
      bad == ackd /\ (Signed(s.ack, Iss[x.e]) <= 0 \/ Signed(s.ack, k.nxt) > 0)
      good == ackd /\ Signed(s.ack, k.una) > 0 /\ Signed(s.ack, k.nxt) >= 0
      r == [k EXCEPT !.heard = TRUE, !.rnxt = Plus(s.seq, 1), !.rd = Plus(s.seq, 1)]
      a == [(IF ackd THEN tcp_ack(r, Minus(s.ack, k.una)) ELSE r)
              EXCEPT !.wnd = s.wnd, !.wl1 = s.seq, !.wl2 = s.ack]
  IN  CASE bad -> IF "RST" \in s.flags THEN x ELSE Reply(x, k.nxt, 0, {"RST"}, 0)
        [] ~bad /\ "RST" \in s.flags -> IF good THEN tcp_close(x) ELSE x
        [] ~bad /\ "RST" \notin s.flags /\ "SYN" \in s.flags ->
             IF Signed(a.una, Iss[x.e]) > 0
             THEN tcp_emit(On(x, [a EXCEPT !.st = "ESTABLISHED"]), a.nxt, TRUE)
             ELSE LET y == tcp_send_syn(On(x, a), {"SYN", "ACK"})
                  IN  On(y, [y.k EXCEPT !.st = "SYN_RECEIVED"])
        [] OTHER -> x

\* Mutants: a segment with data is taken wherever it starts; a FIN is.
AcceptsAnywhere(k, s) == SegLen(s) = 0 \/ tcb_rxfifo_avail(k) > 0
AcceptsFin(k, s) == "FIN" \in s.flags \/ s.seq = k.rnxt

\* Step 1.  Without data the window is compared with an absolute number.
Acceptable(k, s) ==
  LET wnd == tcb_rxfifo_avail(k)
      off == Minus(s.seq, k.rnxt)
  IN  IF SegLen(s) = 0 /\ wnd > 0 THEN off < Plus(k.rnxt, wnd)
      ELSE off = 0 /\ (SegLen(s) = 0 \/ wnd > 0)

Reject(x, s) ==
  IF "RST" \in s.flags \/ x.k.lim = RejectMax THEN x
  ELSE Reply(On(x, [x.k EXCEPT !.lim = @ + 1]), x.k.nxt, x.k.rnxt, {"ACK"}, tcb_rxfifo_avail(x.k))

\* Step 5 in SYN_RECEIVED.
Established(k, s) == [k EXCEPT !.st = "ESTABLISHED", !.wnd = s.wnd, !.wl1 = s.seq, !.wl2 = s.ack]

WindowUpdate(k, s) ==
  IF Signed(s.seq, k.wl1) > 0 \/ (s.seq = k.wl1 /\ Signed(s.ack, k.wl2) >= 0)
  THEN [k EXCEPT !.wnd = s.wnd, !.wl1 = s.seq, !.wl2 = s.ack] ELSE k

\* Everything sent so far has been acknowledged.
FinAcked(k, s) ==
  IF s.ack = k.nxt /\ k.st \in {"FIN_WAIT1", "CLOSING"} THEN [k EXCEPT !.st = "FIN_WAIT2"] ELSE k

\* Step 5 in the states with data.
Acked(k, s) ==
  FinAcked(IF Signed(s.ack, k.una) >= 0 THEN WindowUpdate(tcp_ack(k, Signed(s.ack, k.una)), s) ELSE k, s)

\* Step 8.  An acknowledgement goes at once if one is due already.
Payload(x, s) ==
  LET k == [x.k EXCEPT !.rnxt = Plus(@, s.len)]
      full == tcb_rxfifo_avail(k) < Mss
  IN  IF \/ x.k.st \notin {"ESTABLISHED", "FIN_WAIT1", "FIN_WAIT2"} \/ s.len = 0
         \/ tcb_rxfifo_avail(x.k) < s.len THEN x
      ELSE IF k.wr = k.nxt /\ (k.dack \/ full)
      THEN tcp_emit(On(x, [k EXCEPT !.wclosed = full]), k.nxt, TRUE)
      ELSE On(x, [k EXCEPT !.wclosed = full, !.dack = TRUE])

FinReceived(x, s) ==
  IF "FIN" \notin s.flags \/ x.k.st = "CLOSED" THEN x
  ELSE LET y == tcp_emit(On(x, [x.k EXCEPT !.fin = TRUE, !.rnxt = Plus(@, 1)]), x.k.nxt, TRUE)
           k == y.k
       IN  On(y, CASE k.st = "ESTABLISHED" -> [k EXCEPT !.st = "CLOSE_WAIT"]
                   [] k.st = "FIN_WAIT1" -> IF s.ack = k.nxt THEN tcp_time_wait(k)
                                            ELSE [k EXCEPT !.st = "CLOSING"]
                   [] k.st = "FIN_WAIT2" -> tcp_time_wait(k)
                   [] OTHER -> k)

tcp_input_ipv4(x, s) ==
  LET k == [x.k EXCEPT !.lim = 0]
      h == [k EXCEPT !.heard = TRUE]
      synd == IF h.st = "SYN_RECEIVED" THEN Established(h, s) ELSE h
  IN  IF k.st = "SYN_SENT" THEN InSynSent(x, s)
      ELSE IF ~Acceptable(k, s) THEN Reject(x, s)
      ELSE IF "RST" \in s.flags THEN tcp_close(On(x, k))
      ELSE IF "SYN" \in s.flags THEN Reply(On(x, k), k.nxt, k.rnxt, {"RST"}, 0)
      ELSE IF "ACK" \notin s.flags THEN On(x, k)
      ELSE IF k.st = "SYN_RECEIVED" /\ ~(Signed(s.ack, k.una) >= 0 /\ Signed(k.nxt, s.ack) <= 0)
      THEN Reply(On(x, h), k.nxt, k.rnxt, {"RST"}, 0)
      ELSE IF k.st = "LAST_ACK" THEN tcp_close(On(x, h))
      ELSE IF k.st = "TIME_WAIT" THEN FinReceived(On(x, h), s)
      ELSE IF Signed(s.ack, k.una) >= 0 /\ Signed(k.nxt, s.ack) < 0
      THEN Reply(On(x, synd), k.nxt, k.rnxt, {"ACK"}, tcb_rxfifo_avail(k))
      ELSE FinReceived(Payload(On(x, Acked(synd, s)), s), s)

-----------------------------------------------------------------------------
(* Steps of the network threads.                                           *)

At(e, k) == [k |-> k, e |-> e, pool |-> TRUE, out |-> <<>>]
Dry(x) == [x EXCEPT !.pool = FALSE]
Moves(e, x, w) ==
  /\ tcb' = [tcb EXCEPT ![e] = x.k]
  /\ wire' = [w EXCEPT ![Other(e)] = @ \o x.out]
Becomes(e, x, w) == Moves(e, x, w) /\ UNCHANGED faults

tcp_task_cb(e) ==
  /\ tcb[e].sig # {} /\ tcb[e].up
  /\ Becomes(e, Handle(At(e, [tcb[e] EXCEPT !.sig = {}]), tcb[e].sig), wire)

Rest(e) == [wire EXCEPT ![e] = Tail(@)]

SegmentFound(e) ==
  /\ tcb[e].listed /\ wire[e] # <<>>
  /\ Becomes(e, tcp_input_ipv4(At(e, tcb[e]), Head(wire[e])), Rest(e))

\* A SYN to the service.  There is memory for one tcb.
SynReceived ==
  /\ wire["srv"] # <<>> /\ ~tcb["srv"].listed
  /\ LET s == Head(wire["srv"])
         k == [tcb_create("srv") EXCEPT !.rnxt = Plus(s.seq, 1), !.rd = Plus(s.seq, 1)]
         y == tcp_send_syn(At("srv", k), {"SYN", "ACK"})
     IN  /\ s.flags = {"SYN"}
         /\ Becomes("srv",
              IF tcb["srv"].up
              THEN Reply(At("srv", tcb["srv"]), 0, Plus(s.seq, 1), {"RST", "ACK"}, 0)
              ELSE On(y, [y.k EXCEPT !.st = "SYN_RECEIVED", !.listed = TRUE]), Rest("srv"))

\* Any other segment that finds no tcb.
SegmentUnknown(e) ==
  /\ wire[e] # <<>> /\ ~tcb[e].listed
  /\ LET s == Head(wire[e])
         x == At(e, tcb[e])
     IN  /\ s.flags # {"SYN"} \/ e = "cli"
         /\ Becomes(e, IF "RST" \in s.flags THEN x
                       ELSE IF "ACK" \in s.flags THEN Reply(x, s.ack, 0, {"RST"}, 0)
                       ELSE Reply(x, 0, Plus(s.seq, SegLen(s)), {"RST", "ACK"}, 0), Rest(e))

Input(e) == SegmentFound(e) \/ SegmentUnknown(e) \/ (e = "srv" /\ SynReceived)

\* net_thread looks at its timers when it has no task.  A timer normally waits
\* for the wires to be empty (see Premature), and one of seconds (TIME_WAIT 5 s,
\* keep-alive 10 s, time-out 21 s) for those of an acknowledgement (20 ms) and
\* tcb_rto (250 ms).
Quiet == wire = [e \in Ends |-> <<>>]
Expires(e, timer) == tcb[e][timer] /\ tcb[e].sig = {}
Retransmits(e) ==
  LET k == tcb[e]
  IN  k.rtx /\ k.heard /\ k.una # k.wr /\ (k.psyn # {} \/ k.una # k.nxt \/ Room(k) > 0)
Settled == \A e \in Ends : ~tcb[e].dack /\ ~Retransmits(e)

tcp_rtx_cb(e) ==
  /\ Expires(e, "rtx") /\ Quiet /\ Retransmits(e)
  /\ Becomes(e, tcp_emit(At(e, tcb[e]), tcb[e].una, FALSE), wire)

KeepAlive(e) ==
  /\ Expires(e, "rtx") /\ Quiet /\ Settled /\ tcb[e].heard /\ tcb[e].una = tcb[e].wr /\ tcb[e].st = "ESTABLISHED"
  /\ Becomes(e, tcp_output_tcb(At(e, tcb[e]), Minus(tcb[e].una, 1), {"PSH", "ACK"}, 0), wire)

\* tcb_last_rx is too old: it has never been set, or there is nothing to send
\* that would be answered (not even keep-alives, or the window is closed).
Silent(e) ==
  LET k == tcb[e] IN
  \/ ~k.heard
  \/ Settled /\ (k.una # k.wr \/ k.st # "ESTABLISHED" \/ ~tcb[Other(e)].listed)
tcp_timeout(e) ==
  Expires(e, "rtx") /\ Quiet /\ Silent(e) /\ Becomes(e, tcp_close(At(e, tcb[e])), wire)

\* The same after an outage of the network as long as tcb_timo.
Outage(e) ==
  /\ Expires(e, "rtx") /\ Quiet /\ ~Silent(e) /\ faults < MaxFaults /\ faults' = faults + 1
  /\ tcb' = [tcb EXCEPT ![e] = tcp_close(At(e, @)).k] /\ UNCHANGED wire

tcp_time_wait_cb(e) ==
  Expires(e, "tw") /\ Quiet /\ Settled /\ Becomes(e, tcp_close(At(e, tcb[e])), wire)

tcp_delayed_ack_cb(e) ==
  /\ Expires(e, "dack") /\ Quiet
  /\ Becomes(e, tcp_emit(At(e, tcb[e]), tcb[e].nxt, TRUE), wire)

\* tcb_rto and the 20 ms of an acknowledgement are fixed: on a slow network they
\* run out while segments, or the acknowledgement waited for, are under way.
Premature(e) ==
  /\ ~Quiet /\ faults < MaxFaults /\ faults' = faults + 1
  /\ \/ Expires(e, "rtx") /\ Retransmits(e) /\ Moves(e, tcp_emit(At(e, tcb[e]), tcb[e].una, FALSE), wire)
     \/ Expires(e, "dack") /\ Moves(e, tcp_emit(At(e, tcb[e]), tcb[e].nxt, TRUE), wire)

\* A task or timer finds the pool empty (a segment received is recycled for its
\* answer); tcp_rtx_cb then only arms its timer again.
NoBuffer(e) ==
  /\ faults < MaxFaults /\ faults' = faults + 1
  /\ \/ /\ tcb[e].sig # {} /\ tcb[e].up
        /\ Moves(e, Handle(Dry(At(e, [tcb[e] EXCEPT !.sig = {}])), tcb[e].sig), wire)
     \/ Expires(e, "dack") /\ Moves(e, Dry(At(e, [tcb[e] EXCEPT !.dack = FALSE])), wire)

-----------------------------------------------------------------------------
(* The applications.                                                       *)

App(e) == tcb[e].up /\ ~tcb[e].done
Local(e, k) == tcb' = [tcb EXCEPT ![e] = k] /\ UNCHANGED <<wire, faults>>

tcb_rxfifo_user_bytes(k) ==
  IF k.st = "CLOSED" THEN 0 ELSE tcb_rxfifo_used(k) - (IF k.fin THEN 1 ELSE 0)


tcp_rxfifo_consume(k, n) ==
  LET c == [k EXCEPT !.rd = Plus(@, n)]
  IN  IF k.wclosed /\ tcb_rxfifo_avail(c) >= Max({RxSize \div 2, 2 * Mss})
      THEN Raise([c EXCEPT !.wclosed = FALSE], "wnd_open") ELSE c

tcp_stream_read(e) ==
  /\ App(e) /\ tcb_rxfifo_user_bytes(tcb[e]) > 0
  /\ Local(e, tcp_rxfifo_consume(tcb[e], tcb_rxfifo_user_bytes(tcb[e])))

tcp_stream_writev(e) ==
  /\ App(e) /\ tcb[e].st # "CLOSED" /\ ~tcb[e].sleeps /\ tcb[e].data < MaxData[e]
  /\ IF tcb_txfifo_used(tcb[e]) >= TxSize THEN Local(e, [Raise(tcb[e], "emit") EXCEPT !.sleeps = TRUE])
     ELSE \E n \in 1 .. TxSize - tcb_txfifo_used(tcb[e]) :
            LET k == [tcb[e] EXCEPT !.wr = Plus(@, n), !.data = @ + n, !.flushed = FALSE]
            IN  /\ k.data <= MaxData[e]
                /\ Local(e, IF Minus(k.wr, k.nxt) >= Mss \/ k.una = k.nxt THEN Raise(k, "emit") ELSE k)

\* Nagle waits for the rest of the segment.
Held(k) == Minus(k.wr, k.nxt) \in 1 .. Mss - 1 /\ k.una # k.nxt

Flush(e) ==
  /\ App(e) /\ ~tcb[e].flushed /\ (AnyFlush \/ Held(tcb[e]))
  /\ Local(e, Raise([tcb[e] EXCEPT !.flushed = TRUE], "flush"))

tcp_stream_close(e) ==
  App(e) /\ Local(e, Raise(Raise([tcb[e] EXCEPT !.done = TRUE], "flush"), "close"))

-----------------------------------------------------------------------------
(* The network.                                                            *)

Fault(e, w) ==
  /\ faults < MaxFaults /\ faults' = faults + 1
  /\ wire' = [wire EXCEPT ![e] = w] /\ UNCHANGED tcb
Lose(e) == wire[e] # <<>> /\ Fault(e, Tail(wire[e]))
Double(e) == wire[e] # <<>> /\ Fault(e, <<Head(wire[e])>> \o wire[e])
Overtake(e) == Len(wire[e]) > 1 /\ Fault(e, <<wire[e][2], wire[e][1]>> \o SubSeq(wire[e], 3, Len(wire[e])))

Timers(e) ==
  \/ tcp_rtx_cb(e) \/ KeepAlive(e) \/ tcp_timeout(e) \/ Outage(e)
  \/ tcp_time_wait_cb(e) \/ tcp_delayed_ack_cb(e) \/ Premature(e) \/ NoBuffer(e)
Stream(e) == tcp_stream_read(e) \/ tcp_stream_writev(e) \/ Flush(e) \/ tcp_stream_close(e)

Next == \E e \in Ends : tcp_task_cb(e) \/ Input(e) \/ Timers(e) \/ Stream(e) \/ Lose(e) \/ Double(e) \/ Overtake(e)

Spec == Init /\ [][Next]_vars

-----------------------------------------------------------------------------
(* Properties.                                                             *)

\* The fifos hold no more than they are allocated for (the FIN that is sent is
\* counted with the data and takes no room), no more is under way than there
\* is, and timers belong to connections on tcbs (tcp_close disarms them before
\* tcp_destroy frees).
TcpTypeOK ==
  \A e \in Ends :
    /\ tcb_rxfifo_used(tcb[e]) <= RxSize /\ tcb_txfifo_used(tcb[e]) <= TxSize + 1
    /\ InFlight(tcb[e]) <= tcb_txfifo_used(tcb[e])
    /\ tcb[e].rtx \/ tcb[e].dack \/ tcb[e].tw => tcb[e].listed

Synced == {"ESTABLISHED", "FIN_WAIT1", "FIN_WAIT2", "CLOSE_WAIT", "CLOSING", "LAST_ACK", "TIME_WAIT"}

\* What tcp_ack releases from the transmit fifo has been received, and what has
\* been received was written: no loss, duplicate, overtaking or retransmission
\* that is cut differently makes the receiver skip bytes or count them twice.
ReceivedIsWritten ==
  \A e \in Ends :
    LET k == tcb[e]
        o == tcb[Other(e)]
    IN  {k.st, o.st} \subseteq Synced => Minus(o.rnxt, k.una) <= tcb_txfifo_used(k)

\* More strictly, what has been received is within what the sender counts as
\* sent: the comment in tcp_emit has it that a retransmission only sends again
\* what was sent before.
ReceivedIsBetween ==
  \A e \in Ends :
    LET k == tcb[e]
        o == tcb[Other(e)]
    IN  {k.st, o.st} \subseteq Synced => Minus(o.rnxt, k.una) <= InFlight(k)

\* A reader that is told of the end of the stream (tcb_fin_received) has been
\* given every byte written, whatever was lost and in whatever order the FIN
\* arrived, unless tcp_emit has put the FIN in front of data.
EofComplete ==
  \A e \in Ends :
    LET k == tcb[e]
        o == tcb[Other(e)]
    IN  k.up /\ k.fin /\ o.up /\ ~o.early => Minus(k.rnxt, Plus(Iss[Other(e)], 2)) = o.data

\* No task, segment, short timer or reader has anything left to do.
AtRest ==
  /\ Quiet /\ Settled
  /\ \A e \in Ends :
       /\ tcb[e].sig = {} /\ (tcb[e].rtx => tcb[e].heard)
       /\ ~(App(e) /\ tcb_rxfifo_user_bytes(tcb[e]) > 0)


\* More strictly, as the comment in tcp_task_cb has it, only the loss of a window
\* update does it.  Not so for a fifo smaller than 2 * mss (MCTcp_window.cfg).
OnlyLossStops ==
  AtRest => \A e \in Ends :
    LET k == tcb[e]
    IN  k.listed /\ k.st # "TIME_WAIT" /\ App(Other(e)) => k.una = k.wr \/ faults > 0

\* Nobody but a timer frees a tcb that its application has closed
\* (TCP_EVENT_CLOSE) when the other end is silent: one is always armed.
CloseArmed == \A e \in Ends : tcb[e].up /\ tcb[e].app => tcb[e].rtx \/ tcb[e].tw

\* A tcb as a whole: its pointers are in order and a timer is there for it.
TcpInv == TcpTypeOK /\ CloseArmed

=============================================================================
