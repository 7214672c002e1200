-------------------------------- MODULE Vllp --------------------------------
(***************************************************************************)
(* VLLP, a link of one-bit sequence numbers with channels on top, between  *)
(* a client on a host (host/dsig/vllp.c: one thread, a mutex, and the      *)
(* threads of its users) and a server on a device (net/vllp.c: everything  *)
(* runs on the network thread; services run on threads of their own).      *)
(*                                                                         *)
(* A packet is lost or doubled by the wires, never overtaken.  CRCs are    *)
(* modelled by what they distinguish: a key <<cookie, counter, number>>    *)
(* stands for an initial value, and a message is intact if its fragments   *)
(* were all cut under the receiver's key, in order.  The two directions    *)
(* of a channel use complementary values and never meet.                   *)
(***************************************************************************)
EXTENDS Naturals, Sequences, FiniteSets, SequencesExt, FiniteSetsExt, TaskLists

CONSTANTS
  Ids,          \* channel ids for users
  Handles,      \* channel objects users of the host may create
  Reconnect,    \* those created with VLLP_CHANNEL_RECONNECT
  Waits,        \* values of the argument `wait' of vllp_channel_close
  Slots,        \* channel objects the heap of the device has room for
  Cookies,      \* values of crc_IV
  Nil,          \* no cookie, no handle, no slot
  Cmc,          \* the channel management channel, number 14
  MsgFrags,     \* fragments of a message from the host
  OpenFrags,    \* fragments of an OPEN request
  PbufFrags,    \* fragments that fit a buffer of the device
  MaxTraffic,   \* bound: messages sent by users and services
  WireMax,      \* bound: packets in flight, each way; more are lost
  MaxFaults     \* bound: resets, spurious timeouts, exhausted pools

ASSUME VllpConstants ==
  /\ Waits \subseteq BOOLEAN /\ Reconnect \subseteq Handles /\ IsFiniteSet(Handles) /\ IsFiniteSet(Slots)
  /\ Ids \subseteq Nat /\ Cookies \subseteq Nat \ {0}
  /\ Nil \notin Cookies \cup Handles \cup Slots \cup Ids \cup {Cmc}
  /\ Cmc \notin Handles \cup Slots \cup Ids
  /\ {MsgFrags, OpenFrags, PbufFrags, WireMax} \subseteq Nat \ {0}
  /\ {MaxTraffic, MaxFaults} \subseteq Nat

VARIABLES
  h,        \* the client
  d,        \* the server
  up, down, \* packets on their way to the device, to the host
  traffic, faults    \* how much of either there has been

vars == <<h, d, up, down, traffic, faults>>

-----------------------------------------------------------------------------
(* Messages, fragments and packets. *)

Msg(op, id, arg) == [op |-> op, id |-> id, arg |-> arg]
Length(m) == CASE m.op = "open" -> OpenFrags [] m.op = "msg" -> MsgFrags [] OTHER -> 1

Cut(id, key, m) ==
  [k \in 1 .. Length(m) |->
     [id |-> id, key |-> key, k |-> k, last |-> k = Length(m), msg |-> m]]

CrcOK(frags, key) == \A k \in DOMAIN frags : frags[k].key = key /\ frags[k].k = k

Key(cookie, cnt) == <<cookie, cnt, 0>>
Bump(key) == <<key[1], key[2], key[3] + 1>>

Syn(cookie) == [t |-> "syn", iv |-> cookie]
Ack(x) == [t |-> "ack", s |-> x.S, e |-> x.E, iv |-> x.iv, flow |-> x.flow]
Data(x, frag) ==
  [t |-> "data", s |-> x.S, e |-> x.E, f |-> frag.id \in x.flow \cup {Cmc},
   frag |-> frag, n |-> x.sent]

\* Mutant: every packet is taken for an acknowledgement.
AnyAcknowledges(x, p) == TRUE
PeerAccepted(x, p) == (p.e = 0) # (x.S = 0)
\* Mutant: a fragment that was accepted before is accepted again.
AcceptsTwice(x, p) == TRUE
WeCanAccept(x, p) == p.s = x.E

\* History: what this end gave to the link and took from it in this session.
Offered(x) == [x EXCEPT !.S = 1 - @, !.sent = @ + 1]
Accepted(x, p) == [x EXCEPT !.E = 1 - @, !.rcvd = Append(@, p.n)]

Put(wire, ps) == SubSeq(wire \o ps, 1, Min({WireMax, Len(wire) + Len(ps)}))

-----------------------------------------------------------------------------
(* The device.  Every handler is a function of the state d; what it        *)
(* transmits is collected in d.out.  `starved': the buffer pools are empty *)
(* while it runs.                                                          *)

FreeSlot == [used |-> FALSE, id |-> Nil, tx |-> Key(Nil, 0), rx |-> Key(Nil, 0),
             rxq |-> <<>>, appc |-> 0, netc |-> FALSE, full |-> FALSE,
             out |-> 0, ev |-> {}, closing |-> FALSE]

DeviceOff ==
  [conn |-> FALSE, S |-> 0, E |-> 0, iv |-> Nil, cnt |-> 0, tx |-> <<>>,
   rtx |-> FALSE, ack |-> FALSE, flow |-> {}, fsent |-> {},
   ctx |-> Key(Nil, 0), crx |-> Key(Nil, 0), crxq |-> <<>>, ctxq |-> <<>>,
   ch |-> [i \in Slots |-> FreeSlot], est |-> <<Cmc>>, out |-> <<>>,
   sent |-> 0, rcvd |-> <<>>,
   overrun |-> FALSE, badCrc |-> FALSE]

\* The list v->channels: a channel leaves it when the network side closes it.
Listed(x) == {i \in Slots : x.ch[i].used /\ ~x.ch[i].netc}
Find(x, id) == {i \in Listed(x) : x.ch[i].id = id}

LocalFlow(x) == Ids \ {x.ch[i].id : i \in {j \in Listed(x) : x.ch[j].full}}
Refresh(x) == [x EXCEPT !.flow = LocalFlow(x)]

vllp_tx_ack(x, starved) ==
  IF starved THEN x
  ELSE [x EXCEPT !.out = Append(@, Ack(x)), !.fsent = x.flow, !.ack = TRUE]

MaybeDestroy(x, i) ==
  IF x.ch[i].appc = 2 /\ x.ch[i].netc THEN [x EXCEPT !.ch[i] = FreeSlot] ELSE x

NetClose(x, i) == MaybeDestroy([x EXCEPT !.ch[i].netc = TRUE], i)

vllp_disconnect(x) ==
  IF ~x.conn THEN x
  ELSE [x EXCEPT !.conn = FALSE, !.tx = <<>>, !.ack = FALSE, !.rtx = FALSE,
                 !.ch = [i \in Slots |-> IF i \in Listed(x) THEN NetClose(x, i).ch[i] ELSE @[i]]]

vllp_accept_syn(x, cookie) ==
  vllp_tx_ack([vllp_disconnect(x) EXCEPT
                 !.conn = TRUE, !.S = 0, !.E = 1, !.iv = cookie, !.cnt = 1,
                 !.ctx = Key(cookie, 1), !.crx = Key(cookie, 1),
                 !.sent = 0, !.rcvd = <<>>, !.badCrc = FALSE], FALSE)

\* Mutant: a fragment is transmitted once.
TxOnce(x, starved) ==
  IF x.tx = <<>> THEN x
  ELSE LET p == Data(x, Head(x.tx)) IN
       [x EXCEPT !.ack = TRUE, !.out = IF starved THEN @ ELSE Append(@, p),
                 !.fsent = IF p.f THEN @ \cup (Ids \cap {p.frag.id}) ELSE @ \ {p.frag.id}]

\* vllp_tx: transmit the fragment at the head, or count it as lost.
vllp_tx(x, starved) ==
  IF x.tx = <<>> THEN x
  ELSE LET p == Data(x, Head(x.tx)) IN
       [x EXCEPT !.rtx = TRUE, !.ack = TRUE,
                 !.out = IF starved THEN @ ELSE Append(@, p),
                 !.fsent = IF starved THEN @
                           ELSE IF p.f THEN @ \cup (Ids \cap {p.frag.id}) ELSE @ \ {p.frag.id}]

vllp_fragment(x, starved) == vllp_tx(Offered(x), starved)

Rotate(q, c) == Append(Without(q, {c}), c)

vllp_channel_tx(x, c, m, starved) ==
  LET id == IF c = Cmc THEN Cmc ELSE x.ch[c].id
      key == IF c = Cmc THEN x.ctx ELSE x.ch[c].tx
      cut == IF c = Cmc THEN [x EXCEPT !.tx = Cut(id, key, m), !.ctx = Bump(@)]
             ELSE [x EXCEPT !.tx = Cut(id, key, m), !.ch[c].tx = Bump(@)]
      sent == vllp_fragment(cut, starved)
  IN  [sent EXCEPT !.est = Rotate(@, c)]

\* The close message queues behind what the management channel has to send.
vllp_tx_close(x, i) ==
  LET q == Append(x.ctxq, Msg("close", x.ch[i].id, "none"))
      off == [x EXCEPT !.est = Without(@, {i}), !.ch[i].appc = 2]
  IN  MaybeDestroy(IF x.conn THEN vllp_channel_tx([off EXCEPT !.ctxq = Tail(q)], Cmc, Head(q), FALSE)
                   ELSE off, i)

\* A close that finds no buffer has left the queue all the same.
CloseFails(x, i, starved) == i # Cmc /\ x.ch[i].appc = 1 /\ x.conn /\ starved
HasWork(x, i, starved) ==
  IF i = Cmc THEN x.ctxq # <<>>
  ELSE IF x.ch[i].appc = 1 THEN ~CloseFails(x, i, starved)
       ELSE ~x.ch[i].netc /\ x.ch[i].out > 0

\* `reuse': the handler holds a buffer it can transmit from.
vllp_maybe_tx(x, reuse, starved) ==
  IF x.tx # <<>> THEN x
  ELSE LET work == {k \in DOMAIN x.est : HasWork(x, x.est[k], starved)}
           k == IF work = {} THEN Len(x.est) + 1 ELSE Min(work)
           lost == {x.est[j] : j \in {j \in 1 .. k - 1 : CloseFails(x, x.est[j], starved)}}
           y == [x EXCEPT !.est = Without(@, lost)]
       IN  IF work = {}
           THEN IF y.fsent # y.flow THEN vllp_tx_ack(y, starved /\ ~reuse) ELSE y
           ELSE LET c == x.est[k] IN
                IF c = Cmc
                THEN vllp_channel_tx([y EXCEPT !.ctxq = Tail(@)], Cmc, Head(y.ctxq), starved /\ ~reuse)
                ELSE IF y.ch[c].appc = 1 THEN vllp_tx_close(y, c)
                ELSE vllp_channel_tx([y EXCEPT !.ch[c].out = @ - 1], c,
                                     Msg("reply", y.ch[c].id, "none"), starved /\ ~reuse)

handle_cmc_open(x, id, starved) ==
  LET free == {i \in Slots : ~x.ch[i].used}
      i == CHOOSE j \in free : TRUE
      key == Key(x.iv, x.cnt + 1)
      bad == Find(x, id) # {} \/ free = {} \/ starved
      y == [x EXCEPT !.cnt = @ + 1,
                     !.ctxq = Append(@, Msg("resp", id, IF bad THEN "refused" ELSE "ok"))]
  IN  IF bad THEN y
      ELSE [y EXCEPT !.ch[i] = [FreeSlot EXCEPT !.used = TRUE, !.id = id, !.tx = key, !.rx = key],
                     !.est = Append(@, i)]

handle_cmc(x, m, starved) ==
  IF m.op = "open" THEN handle_cmc_open(x, m.id, starved)
  ELSE IF Find(x, m.id) = {} THEN x
  ELSE NetClose(x, CHOOSE i \in Find(x, m.id) : TRUE)

Assemble(q, frag) == IF Len(q) < PbufFrags THEN Append(q, frag) ELSE q

\* The result: the state and an error code.
Result(x, err) == [x |-> x, err |-> err]

\* History: a message fails its check although all of it is of this session.
Unexplained(x, frags) == \A k \in DOMAIN frags : frags[k].key[1] = x.iv

ReceiveCmc(x, frag, starved) ==
  LET q == Assemble(x.crxq, frag)
      y == [x EXCEPT !.crxq = IF frag.last THEN <<>> ELSE q]
  IN  IF x.crxq = <<>> /\ starved THEN Result(x, "NO_BUFFER")
      ELSE IF ~frag.last THEN Result(y, "none")
      ELSE IF ~CrcOK(q, x.crx) THEN Result([y EXCEPT !.badCrc = Unexplained(x, q)], "CHECKSUM")
      ELSE Result(handle_cmc([y EXCEPT !.crx = Bump(@)], frag.msg, starved), "none")

ReceiveUser(x, i, frag, starved) ==
  LET q == Assemble(x.ch[i].rxq, frag)
      y == [x EXCEPT !.ch[i].rxq = IF frag.last THEN <<>> ELSE q]
  IN  IF frag.last /\ x.ch[i].id \notin x.flow THEN Result(x, "NO_BUFFER")
      ELSE IF x.ch[i].rxq = <<>> /\ starved THEN Result(x, "NO_BUFFER")
      ELSE IF ~frag.last THEN Result(y, "none")
      ELSE IF ~CrcOK(q, x.ch[i].rx)
           THEN Result([y EXCEPT !.badCrc = Unexplained(x, q)], "CHECKSUM")
      ELSE Result([y EXCEPT !.ch[i] = [y.ch[i] EXCEPT !.rx = Bump(@), !.full = TRUE],
                            !.overrun = @ \/ x.ch[i].full], "none")

vllp_channel_receive(x, frag, starved) ==
  IF frag.id = Cmc THEN ReceiveCmc(x, frag, starved)
  ELSE IF Find(x, frag.id) = {} THEN Result(x, "none")
  ELSE ReceiveUser(x, CHOOSE i \in Find(x, frag.id) : TRUE, frag, starved)

\* The second half of vllp_rx: what the packet says about our own fragment.
Acknowledge(x, p, starved) ==
  LET y == IF x.tx = <<>> THEN x
           ELSE IF ~PeerAccepted(x, p) THEN [x EXCEPT !.rtx = TRUE]
           ELSE LET z == [x EXCEPT !.rtx = FALSE, !.tx = Tail(@)] IN
                IF z.tx = <<>> THEN z ELSE vllp_fragment(z, FALSE)
  IN  vllp_maybe_tx(y, TRUE, starved)

RxData(x, p, starved) ==
  LET r == vllp_channel_receive(x, p.frag, starved) IN
  IF ~WeCanAccept(x, p) \/ r.err = "NO_BUFFER"
  THEN Acknowledge([x EXCEPT !.ack = TRUE], p, starved)
  ELSE IF r.err = "CHECKSUM" THEN vllp_disconnect(r.x)
  ELSE Acknowledge([Accepted(r.x, p) EXCEPT !.ack = TRUE, !.fsent = @ \ {p.frag.id}], p, starved)

vllp_rx(x0, p, starved) ==
  LET x == Refresh(x0) IN
  IF p.t = "syn" THEN vllp_accept_syn(x, p.iv)
  ELSE IF ~x.conn \/ (p.t = "ack" /\ p.iv # x.iv) THEN x
  ELSE IF p.t = "ack" THEN Acknowledge(x, p, starved) ELSE RxData(x, p, starved)

TaskCb(x0, i, starved) ==
  LET x == [x0 EXCEPT !.ch[i].ev = {}]
      y == IF "close" \in x0.ch[i].ev THEN [x EXCEPT !.ch[i].appc = 1] ELSE x
      z == IF LocalFlow(y) # y.flow THEN vllp_tx_ack(Refresh(y), starved) ELSE y
  IN  IF "close" \in x0.ch[i].ev /\ x0.ch[i].appc # 0 THEN x
      ELSE vllp_maybe_tx(z, FALSE, starved)

-----------------------------------------------------------------------------
(* The host.  Channel states: none, pending, sent (OPEN_SENT), est, active,*)
(* csent (CLOSE_SENT), closed.                                             *)

NoChannel == [st |-> "none", id |-> Nil, mtxq |-> <<>>, txq |-> <<>>,
              tx |-> Key(Nil, 0), rx |-> Key(Nil, 0), rxbuf |-> <<>>,
              linked |-> FALSE, user |-> "none"]
Gone == [NoChannel EXCEPT !.st = "closed", !.user = "done"]

vllp_create ==
  [conn |-> FALSE, S |-> 0, E |-> 1, iv |-> Nil, cnt |-> 0, cur |-> <<>>,
   rtx |-> FALSE, eof |-> FALSE, poke |-> FALSE, flow |-> Ids,
   rflow |-> Ids \cup {Cmc}, ids |-> Ids, pend |-> <<>>, act |-> <<>>,
   ch |-> [c \in Handles \cup {Cmc} |->
             IF c = Cmc THEN [NoChannel EXCEPT !.st = "est", !.id = Cmc, !.linked = TRUE]
             ELSE NoChannel],
   sent |-> 0, rcvd |-> <<>>,
   joined |-> FALSE, rejoined |-> FALSE]

channel_find(x, id) == {c \in Handles \cup {Cmc} : x.ch[c].linked /\ x.ch[c].id = id}

\* LIST_REMOVE of a channel, and the return of its id.
channel_unlink(x, c) == [x EXCEPT !.ch[c].linked = FALSE]
ReturnId(x, c) == [x EXCEPT !.ids = @ \cup {x.ch[c].id}]

channel_send_vp(x, c, m) ==
  LET y == [x EXCEPT !.ch[c].mtxq = Append(@, m)] IN
  IF x.ch[c].st = "est" THEN [y EXCEPT !.ch[c].st = "active", !.act = Append(@, c)] ELSE y

channel_send_close(x, c) == channel_send_vp(x, c, Msg("eof", x.ch[c].id, "none"))

\* Mutant: the counter of the messages is not kept.
CutUncounted(vc, a, m) == [q |-> a.q \o Cut(vc.id, a.key, m), key |-> a.key]

\* fragment(): everything queued on a channel is cut, and summed with the key
\* of now; an end of file is no message and is not counted.
CutNext(vc, a, m) == [q |-> a.q \o Cut(vc.id, a.key, m), key |-> IF m.op = "eof" THEN a.key ELSE Bump(a.key)]
fragment(vc) ==
  LET cut[n \in 0 .. Len(vc.mtxq)] ==
        IF n = 0 THEN [q |-> vc.txq, key |-> vc.tx] ELSE CutNext(vc, cut[n - 1], vc.mtxq[n])
      all == cut[Len(vc.mtxq)]
  IN  [vc EXCEPT !.txq = all.q, !.tx = all.key, !.mtxq = <<>>]

\* vllp_disconnect up to the callbacks, which run without the mutex.
Reopens(x, c) == c \in Reconnect /\ x.ch[c].st \in {"pending", "est", "active"}
DisconnectBegin(x) ==
  IF ~x.conn THEN x
  ELSE LET linked == {c \in Handles : x.ch[c].linked}
           again == {c \in linked : Reopens(x, c)}
           gone == linked \ again
           moved == {c \in again : x.ch[c].st # "pending"}
       IN  [x EXCEPT
              !.eof = TRUE,
              !.act = Without(@, linked),
              !.pend = Without(@, gone) \o SetToSeq(moved),
              !.ids = @ \cup {x.ch[c].id : c \in gone},
              !.ch = [c \in DOMAIN @ |->
                        IF c \in moved THEN [@[c] EXCEPT !.st = "pending"]
                        ELSE IF c \in gone
                        THEN [@[c] EXCEPT !.linked = FALSE,
                                          !.st = IF x.ch[c].st = "csent" THEN "closed" ELSE x.ch[c].st]
                        ELSE @[c]]]

DisconnectEnd(x) ==
  [x EXCEPT !.conn = FALSE, !.S = 0, !.E = 1, !.rtx = FALSE, !.eof = FALSE]

cmc_handle_open_response(x, m) ==
  LET C == channel_find(x, m.id)
      c == CHOOSE e \in C : TRUE
      y == [x EXCEPT !.ch[c].rxbuf = IF c \in Reconnect THEN <<>> ELSE @]
  IN  IF C = {} \/ x.ch[c].st # "sent" THEN Result(x, "BAD_STATE")
      ELSE IF m.arg # "ok" THEN Result(ReturnId(channel_unlink([x EXCEPT !.ch[c].st = "closed"], c), c), "none")
      ELSE IF x.ch[c].mtxq = <<>> THEN Result([y EXCEPT !.ch[c].st = "est"], "none")
      ELSE Result([y EXCEPT !.ch[c].st = "active", !.act = Append(@, c)], "none")

cmc_handle_close(x, m) ==
  LET C == channel_find(x, m.id)
      c == CHOOSE e \in C : TRUE
  IN  IF C = {} \/ x.ch[c].st \in {"pending", "sent", "closed"} THEN Result(x, "none")
      ELSE IF x.ch[c].st = "csent"
      THEN Result(ReturnId(channel_unlink([x EXCEPT !.ch[c].st = "closed"], c), c), "none")
      ELSE Result(channel_send_close(x, c), "none")

HostChannelReceive(x, frag) ==
  LET C == channel_find(x, frag.id)
      c == CHOOSE e \in C : TRUE
      q == Append(x.ch[c].rxbuf, frag)
      y == [x EXCEPT !.ch[c].rxbuf = <<>>, !.ch[c].rx = Bump(@)]
  IN  IF C = {} THEN Result(x, "none")
      ELSE IF ~frag.last THEN Result([x EXCEPT !.ch[c].rxbuf = q], "none")
      ELSE IF ~CrcOK(q, x.ch[c].rx) THEN Result([x EXCEPT !.ch[c].rxbuf = <<>>], "CHECKSUM")
      ELSE IF frag.msg.op = "resp" THEN cmc_handle_open_response(y, frag.msg)
      ELSE IF frag.msg.op = "close" THEN cmc_handle_close(y, frag.msg)
      ELSE Result(y, "none")

HostAcknowledge(x, p) ==
  IF x.cur = <<>> THEN x
  ELSE IF ~PeerAccepted(x, p) THEN [x EXCEPT !.rtx = TRUE]
  ELSE [x EXCEPT !.cur = <<>>, !.rtx = FALSE]

HostRxData(x, p) ==
  LET r == HostChannelReceive(x, p.frag)
      Flow(y) == [y EXCEPT !.rflow = IF p.f THEN @ \cup {p.frag.id} ELSE @ \ {p.frag.id}]
  IN  IF ~WeCanAccept(x, p) THEN Result(HostAcknowledge(Flow(x), p), "none")
      ELSE IF r.err # "none" THEN r
      ELSE Result(HostAcknowledge(Flow(Accepted(r.x, p)), p), "none")

\* History: a session the host had given up and joins again, taking a late
\* ACK for the answer to a SYN it has not sent yet.
Join(x) == [x EXCEPT !.conn = TRUE, !.joined = TRUE, !.rejoined = @ \/ x.joined]

\* Mutant: the flow bits of an ACK are not looked at.
RxIgnoresFlow(x, p) ==
  IF p.t = "ack" /\ p.iv # x.iv THEN Result(x, "CHECKSUM")
  ELSE IF ~x.conn
  THEN IF p.t = "ack" /\ p.s = 0 /\ p.e = 1 THEN Result(Join(x), "none") ELSE Result(x, "BAD_STATE")
  ELSE IF p.t = "ack" THEN Result(HostAcknowledge(x, p), "none")
  ELSE HostRxData(x, p)

vllp_handle_rx(x, p) ==
  LET y == [x EXCEPT !.rflow = p.flow \cup {Cmc}] IN
  IF p.t = "ack" /\ p.iv # x.iv THEN Result(x, "CHECKSUM")
  ELSE IF ~x.conn
  THEN IF p.t = "ack" /\ p.s = 0 /\ p.e = 1 THEN Result(Join(y), "none")
       ELSE Result(IF p.t = "ack" THEN y ELSE x, "BAD_STATE")
  ELSE IF p.t = "ack" THEN Result(HostAcknowledge(y, p), "none")
  ELSE HostRxData(x, p)

-----------------------------------------------------------------------------
(* The host's thread.  It takes its mutex for each of these steps; at the  *)
(* top of its loop it opens what is pending before it does anything else.  *)

Fault == faults < MaxFaults /\ faults' = faults + 1
NoFault == UNCHANGED faults

AtLoop == ~h.eof /\ ~(h.conn /\ h.pend # <<>>)
Quiet == UNCHANGED traffic

\* The last reference to a closed channel is dropped, and its memory freed.
Freed(x, c) == /\ x.ch[c].user = "done" /\ x.ch[c].st = "closed"
               /\ ~x.ch[c].linked /\ c \notin Range(x.act)
Reap(x) == [x EXCEPT !.ch = [c \in DOMAIN @ |-> IF Freed(x, c) THEN Gone ELSE @[c]]]

HostSteps(x) == h' = Reap([x EXCEPT !.poke = FALSE])

handle_pending_channels ==
  /\ h.conn /\ ~h.eof /\ h.pend # <<>>
  /\ LET c == Head(h.pend)
         key == Key(h.iv, h.cnt + 1)
         y == [h EXCEPT !.pend = Tail(@), !.cnt = @ + 1,
                        !.ch[c].st = "sent", !.ch[c].tx = key, !.ch[c].rx = key]
     IN  HostSteps(channel_send_vp(y, Cmc, Msg("open", h.ch[c].id, "none")))
  /\ UNCHANGED <<d, up, down>> /\ NoFault /\ Quiet

HostRx ==
  /\ AtLoop /\ down # <<>>
  /\ LET r == vllp_handle_rx(h, Head(down)) IN
     HostSteps(IF r.err = "none" THEN r.x ELSE DisconnectBegin(r.x))
  /\ down' = Tail(down)
  /\ UNCHANGED <<d, up>> /\ NoFault /\ Quiet

HostDisconnected ==
  /\ h.eof
  /\ HostSteps(DisconnectEnd(h))
  /\ UNCHANGED <<d, up, down>> /\ NoFault /\ Quiet

\* vllp_tx has returned INT64_MAX and the thread waits without a deadline.
Parked == h.conn /\ h.cur # <<>> /\ ~h.rtx

\* The device still sends something in this session: the host times out
\* only if all of it gets lost.
Audible == d.iv = h.iv /\ (d.ack \/ d.rtx \/ down # <<>>)

HostTimeout ==
  /\ AtLoop /\ h.conn /\ (Parked => h.poke)
  /\ IF Audible THEN Fault ELSE NoFault
  /\ HostSteps(DisconnectBegin(h))
  /\ UNCHANGED <<d, up, down>> /\ Quiet

\* A new cookie; what had arrived under the old one is drained.
vllp_send_syn ==
  /\ AtLoop /\ ~h.conn
  /\ LET c == IF h.iv = Nil THEN 1 ELSE h.iv + 1 IN
     /\ c \in Cookies
     /\ HostSteps([h EXCEPT !.iv = c, !.cnt = 1, !.ch[Cmc].tx = Key(c, 1), !.ch[Cmc].rx = Key(c, 1),
                            !.sent = 0, !.rcvd = <<>>, !.joined = FALSE, !.rejoined = FALSE])
     /\ up' = Put(up, <<Syn(c)>>)
  /\ \E k \in 0 .. Len(down) : down' = SubSeq(down, k + 1, Len(down))
  /\ UNCHANGED d /\ NoFault /\ Quiet

HostRetransmit ==
  /\ AtLoop /\ h.conn /\ h.cur # <<>> /\ h.rtx
  /\ up' = Put(up, <<Data(h, h.cur[1])>>)
  /\ HostSteps(h)
  /\ UNCHANGED <<d, down>> /\ NoFault /\ Quiet

\* The first active channel that has its end of file to send, or a fragment
\* and the peer's permission; the ones before it are cut as well.
Ready(x, c) == x.ch[c].txq[1].msg.op = "eof" \/ x.ch[c].id \in x.rflow
\* What vllp_tx asserts of a channel on its way; where it fails the host stops.
Asserted(x, c) == x.ch[c].st = "active" /\ x.ch[c].txq # <<>>
CutAll(C) == [h EXCEPT !.ch = [c \in DOMAIN @ |-> IF c \in C THEN fragment(@[c]) ELSE @[c]]]
CutActive == CutAll(Range(h.act))
Passes(k) == \A j \in 1 .. k : Asserted(CutActive, h.act[j])
ReadyAt == {k \in DOMAIN h.act : Passes(k) /\ Ready(CutActive, h.act[k])}
CutUpTo(k) == CutAll({h.act[j] : j \in 1 .. k})

HostSend ==
  /\ AtLoop /\ h.conn /\ h.cur = <<>> /\ ReadyAt # {}
  /\ LET k == Min(ReadyAt)
         c == h.act[k]
         x == CutUpTo(k)
         f == x.ch[c].txq[1]
         y == [x EXCEPT !.ch[c].txq = Tail(@), !.act = Without(@, {c})]
         z == [Offered(y) EXCEPT !.cur = <<f>>, !.rtx = TRUE, !.rflow = @ \ {f.id}]
         more == y.ch[c].txq # <<>>
     IN  IF f.msg.op = "eof"
         THEN /\ HostSteps(channel_send_vp([y EXCEPT !.ch[c].st = "csent"], Cmc, Msg("close", f.id, "none")))
              /\ UNCHANGED up
         ELSE /\ HostSteps(IF more THEN [z EXCEPT !.act = Append(@, c)]
                           ELSE [z EXCEPT !.ch[c].st = "est"])
              /\ up' = Put(up, <<Data(z, f)>>)
  /\ UNCHANGED <<d, down>> /\ NoFault /\ Quiet

vllp_send_ack ==
  /\ AtLoop /\ h.conn /\ h.cur = <<>> /\ ReadyAt = {} /\ Passes(Len(h.act)) /\ up = <<>>
  /\ up' = Put(up, <<Ack(h)>>)
  /\ HostSteps(CutActive)
  /\ UNCHANGED <<d, down>> /\ NoFault /\ Quiet

HostThread == \/ handle_pending_channels \/ HostRx \/ HostDisconnected \/ HostTimeout
              \/ vllp_send_syn \/ HostRetransmit \/ HostSend \/ vllp_send_ack

-----------------------------------------------------------------------------
(* Users of the host, on threads of their own.  `user': what the owner of  *)
(* a handle does with it.                                                  *)

UserSteps(x) == /\ h' = Reap([x EXCEPT !.poke = Parked])
                /\ UNCHANGED <<d, up, down>> /\ NoFault

vllp_channel_create(c) ==
  /\ h.ch[c].st = "none" /\ h.ids # {}
  /\ LET id == Min(h.ids) IN
     UserSteps([h EXCEPT !.ids = @ \ {id}, !.pend = Append(@, c),
                         !.ch[c] = [@ EXCEPT !.st = "pending", !.id = id,
                                             !.linked = TRUE, !.user = "open"]])
  /\ Quiet

vllp_channel_send(c) ==
  /\ h.ch[c].user = "open" /\ traffic < MaxTraffic
  /\ traffic' = traffic + 1
  /\ UserSteps(channel_send_vp(h, c, Msg("msg", h.ch[c].id, "none")))

vllp_channel_close(c, wait) ==
  /\ h.ch[c].user = "open"
  /\ LET x == [h EXCEPT !.ch[c].user = IF wait THEN "waits" ELSE "done"]
         st == h.ch[c].st
     IN  UserSteps(CASE st = "pending" ->
                          [ReturnId(channel_unlink(x, c), c) EXCEPT
                             !.pend = Without(@, {c}),
                             !.ch[c].st = "closed", !.ch[c].user = "done"]
                     [] st \in {"sent", "est", "active"} -> channel_send_close(x, c)
                     [] st = "csent" -> channel_unlink(x, c)
                     [] st = "closed" -> x)
  /\ Quiet

\* The wait ends with the state CLOSED, or after three seconds by force; by
\* then the host's thread has sent what it could.
CloseReturns(c) ==
  /\ h.ch[c].user = "waits"
  /\ LET x == [h EXCEPT !.ch[c].user = "done"] IN
     \/ h.ch[c].st = "closed" /\ h' = Reap(x)
     \/ /\ h.ch[c].st # "closed" /\ AtLoop /\ (h.cur # <<>> \/ ReadyAt = {})
        /\ h' = Reap(ReturnId(channel_unlink([x EXCEPT !.ch[c].st = "closed"], c), c))
  /\ UNCHANGED <<d, up, down>> /\ NoFault /\ Quiet

User == \E c \in Handles :
  \/ vllp_channel_create(c) \/ vllp_channel_send(c)
  \/ \E wait \in Waits : vllp_channel_close(c, wait)
  \/ CloseReturns(c)

-----------------------------------------------------------------------------
(* The device's network thread and its services. *)

DeviceSteps(x) ==
  /\ d' = [x EXCEPT !.out = <<>>]
  /\ down' = Put(down, x.out)
  /\ UNCHANGED h /\ Quiet

Starving(s) == IF s THEN Fault ELSE NoFault

DeviceRx ==
  /\ up # <<>> /\ up' = Tail(up)
  /\ \E s \in BOOLEAN : Starving(s) /\ DeviceSteps(vllp_rx(d, Head(up), s))

\* It expires a second after the last packet sent, or milliseconds after one
\* received; that packets are still on their way to the host counts as a fault.
vllp_ack_timer ==
  /\ d.ack /\ UNCHANGED up
  /\ \E s \in BOOLEAN :
       /\ IF down = <<>> THEN Starving(s) ELSE ~s /\ Fault
       /\ DeviceSteps(vllp_tx_ack(Refresh([d EXCEPT !.ack = FALSE]), s))

vllp_rtx_timer ==
  /\ d.rtx /\ UNCHANGED up
  /\ \E s \in BOOLEAN :
       Starving(s) /\ DeviceSteps(vllp_tx(Refresh([d EXCEPT !.rtx = FALSE]), s))

vllp_timeout_timer ==
  /\ d.conn /\ UNCHANGED up
  /\ IF h.conn /\ h.iv = d.iv THEN Fault ELSE NoFault
  /\ DeviceSteps(vllp_disconnect(d))

vllp_channel_task_cb(i) ==
  /\ d.ch[i].ev # {} /\ UNCHANGED up
  /\ \E s \in BOOLEAN : Starving(s) /\ DeviceSteps(TaskCb(d, i, s))

\* The device loses power and starts again.
DeviceReset ==
  /\ Fault /\ UNCHANGED up
  /\ DeviceSteps(DeviceOff)

ServiceSteps(i, x) ==
  /\ d.ch[i].used /\ ~d.ch[i].closing
  /\ d' = [d EXCEPT !.ch[i] = x]
  /\ UNCHANGED <<h, up, down>> /\ NoFault

ServiceReads(i) ==
  /\ d.ch[i].full
  /\ ServiceSteps(i, [d.ch[i] EXCEPT !.full = FALSE, !.ev = @ \cup {"io"}]) /\ Quiet
ServiceWrites(i) ==
  /\ d.ch[i].out = 0 /\ ~d.ch[i].netc
  /\ traffic < MaxTraffic /\ traffic' = traffic + 1
  /\ ServiceSteps(i, [d.ch[i] EXCEPT !.out = 1, !.ev = @ \cup {"io"}])
ServiceCloses(i) ==
  ServiceSteps(i, [d.ch[i] EXCEPT !.closing = TRUE, !.ev = @ \cup {"close"}])
  /\ Quiet

Service == \E i \in Slots : ServiceReads(i) \/ ServiceWrites(i) \/ ServiceCloses(i)

Device == \/ DeviceRx \/ vllp_ack_timer \/ vllp_rtx_timer \/ vllp_timeout_timer
          \/ \E i \in Slots : vllp_channel_task_cb(i)

\* The wires.
Lose == /\ \/ up # <<>> /\ up' = Tail(up) /\ UNCHANGED down
           \/ down # <<>> /\ down' = Tail(down) /\ UNCHANGED up
        /\ UNCHANGED <<h, d>> /\ NoFault /\ Quiet
Double == /\ \/ up # <<>> /\ up[1].t # "syn" /\ Len(up) < WireMax /\ up' = <<Head(up)>> \o up /\ UNCHANGED down
             \/ down # <<>> /\ Len(down) < WireMax /\ down' = <<Head(down)>> \o down /\ UNCHANGED up
          /\ UNCHANGED <<h, d>> /\ Fault /\ Quiet

Init == /\ h = vllp_create /\ d = DeviceOff /\ up = <<>> /\ down = <<>>
        /\ traffic = 0 /\ faults = 0

Next == HostThread \/ User \/ Device \/ DeviceReset \/ Service \/ Lose \/ Double

Spec == Init /\ [][Next]_vars

\* The threads and timers run, a service reads what it is sent, and a wire
\* that is used for ever lets packets pass, both kinds of them to the host.
\* Weak and strong fairness are spelled out with the guards of the actions,
\* which are cheaper to evaluate than ENABLED.
Heard(t) == AtLoop /\ down # <<>> /\ Head(down).t = t
HostRxOf(t) == Heard(t) /\ HostRx

HostFair ==
  /\ ([]<>~(h.conn /\ ~h.eof /\ h.pend # <<>>) \/ []<><<handle_pending_channels>>_vars)
  /\ ([]<>~(h.eof) \/ []<><<HostDisconnected>>_vars)
  /\ ([]<>~(AtLoop /\ h.conn /\ ~Parked /\ ~Audible) \/ []<><<HostTimeout>>_vars)
  /\ ([]<>~(AtLoop /\ ~h.conn /\ h.iv = Nil) \/ []<><<vllp_send_syn>>_vars)
  /\ ([]<>~(AtLoop /\ h.conn /\ h.cur # <<>> /\ h.rtx) \/ []<><<HostRetransmit>>_vars)
  /\ ([]<>~(AtLoop /\ h.conn /\ h.cur = <<>> /\ ReadyAt # {}) \/ []<><<HostSend>>_vars)
  /\ ([]<>~(AtLoop /\ h.conn /\ h.cur = <<>> /\ ReadyAt = {} /\ Passes(Len(h.act)) /\ up = <<>>)
      \/ []<><<vllp_send_ack>>_vars)
  /\ (<>[]~(Heard("ack")) \/ []<><<HostRxOf("ack")>>_vars) /\ (<>[]~(Heard("data")) \/ []<><<HostRxOf("data")>>_vars)
DeviceFair ==
  /\ (<>[]~(d.ack /\ down = <<>>) \/ []<><<vllp_ack_timer>>_vars) /\ ([]<>~d.rtx \/ []<><<vllp_rtx_timer>>_vars)
  /\ (<>[]~(up # <<>>) \/ []<><<DeviceRx>>_vars)
  /\ \A i \in Slots : /\ ([]<>~(d.ch[i].ev # {}) \/ []<><<vllp_channel_task_cb(i)>>_vars)
                      /\ ([]<>~(d.ch[i].full /\ ~d.ch[i].closing) \/ []<><<ServiceReads(i)>>_vars)

FairSpec == Spec /\ HostFair /\ DeviceFair

-----------------------------------------------------------------------------
(* Properties. *)

\* The types of the parts of h and d; on v->established_channels there are
\* only channels that exist (vllp_channel_destroy frees them).
VllpTypeOK ==
  /\ h.S \in 0 .. 1 /\ h.E \in 0 .. 1 /\ d.S \in 0 .. 1 /\ d.E \in 0 .. 1
  /\ h.iv \in Cookies \cup {Nil} /\ d.iv \in Cookies \cup {Nil}
  /\ h.ids \subseteq Ids /\ h.rflow \subseteq Ids \cup {Cmc} /\ d.flow \subseteq Ids
  /\ Len(h.cur) <= 1 /\ Len(up) <= WireMax /\ Len(down) <= WireMax
  /\ \A c \in DOMAIN h.ch :
       h.ch[c].st \in {"none", "pending", "sent", "est", "active", "csent", "closed"}
  /\ Range(d.est) \subseteq {i \in Slots : d.ch[i].used} \cup {Cmc}

\* Both ends hold the same cookie, and the host has not rejoined a session
\* that it had left (vllp_handle_rx takes any ACK with the bits of the first
\* for the answer to a SYN).
SameSession == h.iv = d.iv /\ h.iv # Nil /\ ~h.rejoined
InSession == SameSession /\ d.conn

\* One sequence bit each way (S and E), a retransmission buffer of one packet
\* and a new cookie for every session implement a link that passes each
\* fragment on exactly once and in order, although packets are lost and
\* doubled, ends time out and the device restarts: vllp_rx and
\* vllp_handle_rx, with what they make of the packets of older sessions.
Up == INSTANCE ReliableLink WITH
  offered <- h.sent, accepted <- IF InSession THEN d.rcvd ELSE <<>>, alive <- InSession
UpLink == Up!Spec

\* The same from the device to the host.
Down == INSTANCE ReliableLink WITH
  offered <- IF InSession THEN d.sent ELSE 0,
  accepted <- IF InSession THEN h.rcvd ELSE <<>>, alive <- InSession
DownLink == Down!Spec

\* Both directions at once, each the other's acknowledgements.
BothLinks == UpLink /\ DownLink

\* An end forgets a fragment (current_tx, current_tx_buf) only when the peer
\* has accepted it: docs/vllp.txt, Sequencing and retransmission.
NothingUnacked == SameSession /\ h.conn /\ d.conn /\ ~h.eof =>
  /\ h.cur = <<>> => Len(d.rcvd) = h.sent
  /\ d.tx = <<>> => Len(h.rcvd) = d.sent

\* The counters that both ends add to the initial value of a channel's CRC
\* stay in step through opening, closing and reopening: no message of this
\* session fails its check, which would end the session (vllp_rx).
NoFalseCrc == SameSession => ~d.badCrc

\* Flow control holds: no message is pushed to a service that has not read
\* the one before (the assertion in pushpull_stream_push).
NoOverrun == ~d.overrun

\* What must hold in every state: the types, that nothing is forgotten, and
\* flow control.
VllpInv == VllpTypeOK /\ NothingUnacked /\ NoOverrun

\* What the transmitter asserts of every channel on active_channels: its state
\* is ACTIVE and it has something to send (vllp_tx).
ActiveHasWork == \A c \in Range(h.act) : h.ch[c].st = "active" /\ h.ch[c].mtxq \o h.ch[c].txq # <<>>

\* A service has closed its channel with a message unread: may_push is false
\* for good, and the link waits until the host gives the session up.
Abandoned == \E i \in Slots : d.ch[i].closing /\ d.ch[i].full

\* While the session lasts, a channel with something to send gets it through,
\* although acknowledgements and flow-control updates get lost: the keepalive
\* ACKs repeat them (vllp_ack_timer, vllp_tx).
ActiveDrains == \A c \in Handles :
  (h.conn /\ h.ch[c].st = "active") ~> (~h.conn \/ h.ch[c].st # "active" \/ Abandoned)

\* While the session lasts, every OPEN request is answered, and the answer
\* arrives (handle_cmc_open, vllp_rtx_timer).
OpenAnswered == \A c \in Handles :
  (h.conn /\ h.ch[c].st = "sent") ~> (~h.conn \/ h.ch[c].st # "sent")
=============================================================================
