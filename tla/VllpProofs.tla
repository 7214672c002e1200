----------------------------- MODULE VllpProofs -----------------------------
(***************************************************************************)
(* Theorems about Vllp: what both ends keep of a session, and that a       *)
(* session is a reliable link each way.                                    *)
(***************************************************************************)
EXTENDS Vllp, TaskListProofs

Cookie == Cookies \cup {Nil}
Keys == Cookie \X Nat \X Nat
Msgs == [op : {"open", "close", "msg", "eof", "resp", "reply"}, id : Ids \cup {Nil}, arg : {"none", "ok", "refused"}]
Frags == [id : Ids \cup {Nil, Cmc}, key : Keys, k : Nat, last : BOOLEAN, msg : Msgs]

Syns == [t : {"syn"}, iv : Cookies]
Acks == [t : {"ack"}, s : 0 .. 1, e : 0 .. 1, iv : Cookie, flow : SUBSET Ids]
Datas == {p \in [t : {"data"}, s : 0 .. 1, e : 0 .. 1, f : BOOLEAN, frag : Frags, n : Nat] :
            p.f => p.frag.id \in Ids \cup {Cmc}}

-----------------------------------------------------------------------------
(* The device. *)

Slot == [used : BOOLEAN, id : Ids \cup {Nil}, tx : Keys, rx : Keys, rxq : Seq(Frags), appc : 0 .. 2,
         netc : BOOLEAN, full : BOOLEAN, out : Nat, ev : SUBSET {"io", "close"}, closing : BOOLEAN]
Server == [conn : BOOLEAN, S : 0 .. 1, E : 0 .. 1, iv : Cookie, cnt : Nat, tx : Seq(Frags), rtx : BOOLEAN,
            ack : BOOLEAN, flow : SUBSET Ids, fsent : SUBSET Ids, ctx : Keys, crx : Keys, crxq : Seq(Frags),
            ctxq : Seq(Msgs), ch : [Slots -> Slot], est : Seq(Slots \cup {Cmc}), out : Seq(Acks \cup Datas),
            sent : Nat, rcvd : Seq(Nat), overrun : BOOLEAN, badCrc : BOOLEAN]

\* A channel with a place in the round has not been given up by its service.
EstOk(x) == \A i \in ToSet(x.est) : i # Cmc => x.ch[i].used /\ x.ch[i].appc # 2
DevOk(x) == x \in Server /\ ~x.overrun /\ EstOk(x)

-----------------------------------------------------------------------------
(* The host. *)

FragsOf(c) == {f \in Frags : IF c = Cmc THEN f.msg.op # "eof" ELSE f.id # Cmc}
MsgsOf(c) == {m \in Msgs : c = Cmc => m.op # "eof"}
Chan == [st : {"none", "pending", "sent", "est", "active", "csent", "closed"}, id : Ids \cup {Nil, Cmc},
         mtxq : Seq(Msgs), txq : Seq(Frags), tx : Keys, rx : Keys, rxbuf : Seq(Frags), linked : BOOLEAN,
         user : {"none", "open", "waits", "done"}]
Host == [conn : BOOLEAN, S : 0 .. 1, E : 0 .. 1, iv : Cookie, cnt : Nat, cur : Seq(Frags), rtx : BOOLEAN,
         eof : BOOLEAN, poke : BOOLEAN, flow : SUBSET Ids, rflow : SUBSET (Ids \cup {Cmc}), ids : SUBSET Ids,
         pend : Seq(Handles), act : Seq(Handles \cup {Cmc}), ch : [Handles \cup {Cmc} -> Chan], sent : Nat,
         rcvd : Seq(Nat), joined : BOOLEAN, rejoined : BOOLEAN]

\* The management channel is always open; a channel somebody can find, or that
\* has an owner, has an id.
ChanOk(c, k) ==
  /\ k \in Chan /\ k.mtxq \in Seq(MsgsOf(c)) /\ k.txq \in Seq(FragsOf(c))
  /\ IF c = Cmc THEN k.id = Cmc /\ k.st \in {"est", "active"}
     ELSE /\ k.id # Cmc /\ (k.linked \/ k.user \in {"open", "waits"} => k.id \in Ids)
          /\ k.st = "none" => k.user = "none"
HostOk(x) ==
  /\ x \in Host /\ \A c \in Handles \cup {Cmc} : ChanOk(c, x.ch[c])
  /\ Len(x.cur) <= 1

\* Between two sessions the bits are those of a new one.
PhaseOk(x) ==
  /\ (x.eof => x.conn) /\ (~x.conn => x.S = 0 /\ x.E = 1)
  /\ ~x.joined => x.sent = 0 /\ x.rcvd = <<>> /\ ~x.conn /\ ~x.rejoined

-----------------------------------------------------------------------------
(* The session. *)

Num(iv) == IF iv = Nil THEN 0 ELSE iv
IsSyn(p, iv) == p.t = "syn" /\ p.iv = iv
IsAck(p, iv) == p.t = "ack" /\ p.iv = iv

\* Cookies grow: the newest SYN is the last packet, and nothing answers to it
\* before it has arrived.
CookiesOk ==
  /\ Num(d.iv) <= Num(h.iv)
  /\ \A i \in 1 .. Len(up) : up[i].t = "syn" => Num(up[i].iv) <= Num(h.iv)
  /\ \A i \in 1 .. Len(down) : down[i].t = "ack" => Num(down[i].iv) <= Num(h.iv)
  /\ \A i \in 1 .. Len(up) : IsSyn(up[i], h.iv) =>
       /\ i = Len(up) /\ d.iv # h.iv /\ ~h.joined
       /\ \A j \in 1 .. Len(down) : ~IsAck(down[j], h.iv)

\* One direction: a of b fragments accepted, the packets with fragments on w
\* at the places I, those that acknowledge on v at the places J.
Bit(n) == n % 2
Fwd(a, b, w, I) ==
  \A i \in I : w[i].t = "data" =>
    /\ w[i].n \in {b, b + 1} /\ w[i].n <= a /\ w[i].s = Bit(w[i].n)
    /\ \A j \in I : i < j /\ w[j].t = "data" => w[i].n <= w[j].n
Rev(a, b, idle, v, J) ==
  \A i \in J :
    /\ a = b + 1 \/ idle \/ a = 0 => v[i].e = 1 - Bit(b)
    /\ \A j \in J : i < j /\ v[i].e = 1 - Bit(b) => v[j].e = 1 - Bit(b)
Counts(a, b, idle) == b <= a /\ a <= b + 1 /\ (idle => a = b)
Dir(a, b, idle, w, I, v, J) == Counts(a, b, idle) /\ Fwd(a, b, w, I) /\ Rev(a, b, idle, v, J)

\* The packets to the host that count in this session: all once it has joined,
\* before that the answer to its SYN and the ones behind it.
Fresh(joined, iv, w) == {i \in 1 .. Len(w) : joined \/ \E m \in 1 .. i : IsAck(w[m], iv)}

\* A host x, a device y and the packets u and w between them.
LinkOk(x, y, u, w) ==
  /\ \A i \in 1 .. Len(u) : x.joined /\ u[i].t # "syn"
  /\ x.conn => x.S = Bit(x.sent) /\ x.E = 1 - Bit(Len(x.rcvd))
  /\ y.S = Bit(y.sent) /\ y.E = 1 - Bit(Len(y.rcvd))
  /\ LET I == Fresh(x.joined, x.iv, w) IN
     /\ Dir(x.sent, Len(y.rcvd), x.cur = <<>>, u, 1 .. Len(u), w, I)
     /\ Dir(y.sent, Len(x.rcvd), y.tx = <<>>, w, I, u, 1 .. Len(u))
SessionOk == InSession => LinkOk(h, d, up, down)

TypesOk ==
  /\ faults \in Nat /\ traffic \in Nat
  /\ up \in Seq(Syns \cup Acks \cup Datas) /\ Len(up) <= WireMax
  /\ down \in Seq(Acks \cup Datas) /\ Len(down) <= WireMax
  /\ DevOk(d) /\ d.out = <<>> /\ HostOk(h) /\ PhaseOk(h)

IInv == TypesOk /\ CookiesOk /\ SessionOk

-----------------------------------------------------------------------------
(* Constants. *)

LEMMA Consts ==
  /\ Nil \notin Cookies /\ Nil \notin Handles /\ Nil \notin Slots /\ Nil \notin Ids /\ Nil # Cmc
  /\ Cmc \notin Handles /\ Cmc \notin Slots /\ Cmc \notin Ids
  /\ Ids \subseteq Nat /\ Cookies \subseteq Nat /\ 0 \notin Cookies
  /\ MsgFrags \in Nat /\ OpenFrags \in Nat /\ PbufFrags \in Nat /\ WireMax \in Nat
  /\ MsgFrags > 0 /\ OpenFrags > 0 /\ PbufFrags > 0 /\ WireMax > 0
  BY VllpConstants

LEMMA NumNat == (\A c \in Cookie : Num(c) \in Nat) /\ Num(Nil) = 0
<1>1. \A c \in Cookies : c \in Nat
  BY Consts
<1> QED BY <1>1 DEF Num, Cookie

LEMMA KeyTypes ==
  /\ \A c \in Cookie : \A n \in Nat : Key(c, n) \in Keys
  /\ \A k \in Keys : Bump(k) \in Keys
  BY DEF Key, Bump, Keys

LEMMA CutType ==
  ASSUME NEW id \in Ids \cup {Nil, Cmc}, NEW key \in Keys, NEW m \in Msgs
  PROVE  /\ Cut(id, key, m) \in Seq(Frags) /\ Cut(id, key, m) # <<>>
         /\ \A k \in DOMAIN Cut(id, key, m) : Cut(id, key, m)[k].id = id /\ Cut(id, key, m)[k].msg = m
         /\ Len(Cut(id, key, m)) \in Nat /\ DOMAIN Cut(id, key, m) = 1 .. Len(Cut(id, key, m))
<1>1. Length(m) \in Nat /\ Length(m) > 0
  BY Consts DEF Length
<1> DEFINE c == Cut(id, key, m)
<1>2. c = [k \in 1 .. Length(m) |-> [id |-> id, key |-> key, k |-> k, last |-> k = Length(m), msg |-> m]]
  BY DEF Cut
<1>3. \A k \in 1 .. Length(m) : [id |-> id, key |-> key, k |-> k, last |-> k = Length(m), msg |-> m] \in Frags
  BY <1>1 DEF Frags
<1>4. c \in [1 .. Length(m) -> Frags]
  BY <1>2, <1>3
<1>5. c \in Seq(Frags) /\ Len(c) = Length(m)
  BY <1>1, <1>4
<1> QED
  BY <1>1, <1>2, <1>5

-----------------------------------------------------------------------------
(* What the handlers of the device keep, and what they do to the link.     *)

Same(x, y) == /\ y.conn = x.conn /\ y.S = x.S /\ y.E = x.E /\ y.iv = x.iv
              /\ y.tx = x.tx /\ y.sent = x.sent /\ y.rcvd = x.rcvd
Silent(x, y) == Same(x, y) /\ y.out = x.out
Says(x, y, p) == y.out = x.out \/ y.out = Append(x.out, p)
Acking(x, y) == Same(x, y) /\ \E p \in Acks : p.s = x.S /\ p.e = x.E /\ p.iv = x.iv /\ Says(x, y, p)
Repeating(x, y) == Same(x, y) /\ \E p \in Datas : p.s = x.S /\ p.e = x.E /\ p.n = x.sent /\ Says(x, y, p)
Offering(x, y) ==
  /\ y.conn = x.conn /\ y.E = x.E /\ y.iv = x.iv /\ y.rcvd = x.rcvd
  /\ y.S = 1 - x.S /\ y.sent = x.sent + 1 /\ y.tx # <<>>
  /\ \E p \in Datas : p.s = y.S /\ p.e = y.E /\ p.n = y.sent /\ Says(x, y, p)

LEMMA FlowType == ASSUME NEW x PROVE LocalFlow(x) \in SUBSET Ids
  BY DEF LocalFlow

LEMMA RefreshOk ==
  ASSUME NEW x, DevOk(x)
  PROVE  DevOk(Refresh(x)) /\ Silent(x, Refresh(x)) /\ Refresh(x).flow = LocalFlow(Refresh(x))
<1> DEFINE y == [x EXCEPT !.flow = LocalFlow(x)]
<1>1. y \in Server
  BY FlowType DEF DevOk, Server
<1>2. /\ Silent(x, y) /\ y.flow = LocalFlow(x) /\ y.ch = x.ch /\ y.est = x.est /\ y.overrun = x.overrun
  BY DEF DevOk, Server, Silent, Same
<1>3. LocalFlow(y) = LocalFlow(x)
  BY <1>2 DEF LocalFlow, Listed
<1> QED
  BY <1>1, <1>2, <1>3 DEF Refresh, DevOk, EstOk

LEMMA AckType == ASSUME NEW x \in Server PROVE
  Ack(x) \in Acks /\ Ack(x).s = x.S /\ Ack(x).e = x.E /\ Ack(x).iv = x.iv
  BY DEF Ack, Acks, Server

LEMMA DataType == ASSUME NEW x \in Server, NEW f \in Frags PROVE
  /\ Data(x, f) \in Datas /\ Data(x, f).s = x.S /\ Data(x, f).e = x.E /\ Data(x, f).n = x.sent
  /\ Data(x, f).frag = f
<1> DEFINE b == f.id \in x.flow \cup {Cmc}
           p == [t |-> "data", s |-> x.S, e |-> x.E, f |-> b, frag |-> f, n |-> x.sent]
<1>1. x.S \in 0 .. 1 /\ x.E \in 0 .. 1 /\ x.sent \in Nat /\ x.flow \subseteq Ids
  BY DEF Server
<1>2. b \in BOOLEAN /\ (b => f.id \in Ids \cup {Cmc})
  BY <1>1
<1>3. Data(x, f) = p
  BY DEF Data
<1> HIDE DEF b
<1>4. p \in [t : {"data"}, s : 0 .. 1, e : 0 .. 1, f : BOOLEAN, frag : Frags, n : Nat]
  BY <1>1, <1>2
<1>5. p.f = b /\ p.frag = f /\ p.s = x.S /\ p.e = x.E /\ p.n = x.sent
  OBVIOUS
<1>6. p \in Datas
  BY <1>2, <1>4, <1>5 DEF Datas
<1> QED BY <1>3, <1>5, <1>6

LEMMA TxAckOk ==
  ASSUME NEW x, DevOk(x), NEW starved \in BOOLEAN
  PROVE  /\ DevOk(vllp_tx_ack(x, starved)) /\ Acking(x, vllp_tx_ack(x, starved))
         /\ vllp_tx_ack(x, starved).est = x.est /\ vllp_tx_ack(x, starved).ch = x.ch
<1>1. Ack(x) \in Acks /\ Ack(x).s = x.S /\ Ack(x).e = x.E /\ Ack(x).iv = x.iv
  BY AckType DEF DevOk
<1>2. CASE starved
  BY <1>1, <1>2 DEF vllp_tx_ack, Acking, Same, Says
<1>3. CASE ~starved
  <2> DEFINE o == Append(x.out, Ack(x))
             y == [x EXCEPT !.out = o, !.fsent = x.flow, !.ack = TRUE]
  <2>0. x \in Server /\ x.out \in Seq(Acks \cup Datas) /\ x.flow \in SUBSET Ids
    BY DEF DevOk, Server
  <2>1. o \in Seq(Acks \cup Datas)
    BY <1>1, <2>0
  <2>2. vllp_tx_ack(x, starved) = y
    BY <1>3 DEF vllp_tx_ack
  <2> HIDE DEF o
  <2>3. y \in Server
    BY <2>0, <2>1 DEF Server
  <2>4. Same(x, y) /\ y.out = o /\ y.est = x.est /\ y.ch = x.ch /\ y.overrun = x.overrun
    BY <2>0 DEF Server, Same
  <2>5. Acking(x, y)
    BY <1>1, <2>4 DEF Acking, Says, o
  <2> QED
    BY <2>2, <2>3, <2>4, <2>5 DEF DevOk, EstOk
<1> QED BY <1>2, <1>3

\* A channel object at its place; it is in the round only while it is open.
LEMMA SetSlot ==
  ASSUME NEW x, DevOk(x), NEW i \in Slots, NEW s \in Slot, x.ch[i].used /\ x.ch[i].appc # 2 => s.used /\ s.appc # 2
  PROVE  LET y == [x EXCEPT !.ch[i] = s] IN
         /\ DevOk(y) /\ Silent(x, y) /\ y.est = x.est /\ y.ch[i] = s /\ y.flow = x.flow
         /\ \A j \in Slots : j # i => y.ch[j] = x.ch[j]
<1> DEFINE y == [x EXCEPT !.ch[i] = s]
           c == [x.ch EXCEPT ![i] = s]
<1>1. x \in Server /\ x.ch \in [Slots -> Slot]
  BY DEF DevOk, Server
<1>2. c \in [Slots -> Slot] /\ c[i] = s /\ \A j \in Slots : j # i => c[j] = x.ch[j]
  BY <1>1
<1>3. y = [x EXCEPT !.ch = c]
  BY <1>1 DEF Server
<1> HIDE DEF c
<1>4. y \in Server
  BY <1>1, <1>2, <1>3 DEF Server
<1>5. Silent(x, y) /\ y.est = x.est /\ y.ch = c /\ y.overrun = x.overrun /\ y.flow = x.flow
  BY <1>1, <1>3 DEF Server, Silent, Same
<1>6. x.est \in Seq(Slots \cup {Cmc})
  BY <1>1 DEF Server
<1>7. ToSet(x.est) \subseteq Slots \cup {Cmc}
  BY <1>6 DEF ToSet
<1>8. EstOk(y)
  BY <1>2, <1>5, <1>7 DEF EstOk, DevOk
<1> QED
  BY <1>2, <1>4, <1>5, <1>8 DEF DevOk

LEMMA FreeSlotType == FreeSlot \in Slot /\ ~FreeSlot.used /\ FreeSlot.appc = 0
<1>1. Key(Nil, 0) \in Keys
  BY KeyTypes DEF Cookie
<1> QED BY <1>1 DEF FreeSlot, Slot

LEMMA MaybeDestroyOk ==
  ASSUME NEW x, DevOk(x), NEW i \in Slots
  PROVE  DevOk(MaybeDestroy(x, i)) /\ Silent(x, MaybeDestroy(x, i))
<1>1. CASE x.ch[i].appc = 2 /\ x.ch[i].netc
  <2>1. MaybeDestroy(x, i) = [x EXCEPT !.ch[i] = FreeSlot]
    BY <1>1 DEF MaybeDestroy
  <2> QED BY <1>1, <2>1, FreeSlotType, SetSlot
<1>2. CASE ~(x.ch[i].appc = 2 /\ x.ch[i].netc)
  BY <1>2 DEF MaybeDestroy, Silent, Same
<1> QED BY <1>1, <1>2

LEMMA NetCloseIs ==
  ASSUME NEW x, DevOk(x), NEW i \in Slots
  PROVE  /\ DevOk(NetClose(x, i)) /\ Silent(x, NetClose(x, i))
         /\ NetClose(x, i).ch[i] \in Slot
         /\ x.ch[i].used /\ x.ch[i].appc # 2 => NetClose(x, i).ch[i].used /\ NetClose(x, i).ch[i].appc # 2
<1> DEFINE s == [x.ch[i] EXCEPT !.netc = TRUE]
           y == [x EXCEPT !.ch[i].netc = TRUE]
<1>1. x \in Server /\ x.ch \in [Slots -> Slot] /\ x.ch[i] \in Slot
  BY DEF DevOk, Server
<1>2. s \in Slot /\ s.used = x.ch[i].used /\ s.appc = x.ch[i].appc /\ s.netc
  BY <1>1 DEF Slot
<1>3. y = [x EXCEPT !.ch[i] = s]
  OBVIOUS
<1> HIDE DEF s, y
<1>4. DevOk(y) /\ Silent(x, y) /\ y.ch[i] = s
  BY <1>2, <1>3, SetSlot
<1>5. NetClose(x, i) = MaybeDestroy(y, i)
  BY DEF NetClose, y
<1>6. DevOk(MaybeDestroy(y, i)) /\ Silent(y, MaybeDestroy(y, i))
  BY <1>4, MaybeDestroyOk
<1>7. MaybeDestroy(y, i).ch[i] = IF s.appc = 2 THEN FreeSlot ELSE s
  <2>1. CASE s.appc = 2
    <3>1. MaybeDestroy(y, i) = [y EXCEPT !.ch[i] = FreeSlot]
      BY <1>2, <1>4, <2>1 DEF MaybeDestroy
    <3> QED BY <1>4, <2>1, <3>1, FreeSlotType, SetSlot
  <2>2. CASE s.appc # 2
    BY <1>4, <2>2 DEF MaybeDestroy
  <2> QED BY <2>1, <2>2
<1> QED
  BY <1>2, <1>4, <1>5, <1>6, <1>7, FreeSlotType DEF Silent, Same

LEMMA DisconnectOk ==
  ASSUME NEW x, DevOk(x)
  PROVE  LET y == vllp_disconnect(x) IN
         /\ DevOk(y) /\ ~y.conn /\ y.S = x.S /\ y.E = x.E /\ y.iv = x.iv /\ y.sent = x.sent /\ y.rcvd = x.rcvd
         /\ y.out = x.out
<1>1. CASE ~x.conn
  BY <1>1 DEF vllp_disconnect
<1>2. CASE x.conn
  <2> DEFINE c == [i \in Slots |-> IF i \in Listed(x) THEN NetClose(x, i).ch[i] ELSE x.ch[i]]
             a == [x EXCEPT !.conn = FALSE, !.tx = <<>>, !.ack = FALSE]
             y == [a EXCEPT !.rtx = FALSE, !.ch = c]
  <2>1. x \in Server /\ x.ch \in [Slots -> Slot]
    BY DEF DevOk, Server
  <2>2. c \in [Slots -> Slot] /\ \A i \in Slots : x.ch[i].used /\ x.ch[i].appc # 2 => c[i].used /\ c[i].appc # 2
    BY <2>1, NetCloseIs
  <2>3. vllp_disconnect(x) = y
    BY <1>2, <2>1 DEF vllp_disconnect
  <2> HIDE DEF c
  <2>4. /\ a \in Server
        /\ ~a.conn /\ a.S = x.S /\ a.E = x.E /\ a.iv = x.iv /\ a.sent = x.sent /\ a.rcvd = x.rcvd
        /\ a.out = x.out /\ a.est = x.est /\ a.overrun = x.overrun
    <3>1. <<>> \in Seq(Frags)
      OBVIOUS
    <3>2. a \in Server
      BY <2>1, <3>1 DEF Server
    <3>3. /\ ~a.conn /\ a.S = x.S /\ a.E = x.E /\ a.iv = x.iv /\ a.sent = x.sent /\ a.rcvd = x.rcvd
          /\ a.out = x.out /\ a.est = x.est /\ a.overrun = x.overrun
      BY <2>1 DEF Server
    <3> QED BY <3>2, <3>3
  <2> HIDE DEF a
  <2>5. y \in Server
    BY <2>2, <2>4 DEF Server
  <2>6. /\ ~y.conn /\ y.S = x.S /\ y.E = x.E /\ y.iv = x.iv /\ y.sent = x.sent /\ y.rcvd = x.rcvd
        /\ y.out = x.out /\ y.ch = c /\ y.est = x.est /\ y.overrun = x.overrun
    BY <2>4 DEF Server
  <2>7. x.est \in Seq(Slots \cup {Cmc})
    BY <2>1 DEF Server
  <2>8. ToSet(x.est) \subseteq Slots \cup {Cmc}
    BY <2>7 DEF ToSet
  <2>9. EstOk(y)
    BY <2>2, <2>6, <2>8 DEF EstOk, DevOk
  <2> QED BY <2>3, <2>5, <2>6, <2>9 DEF DevOk
<1> QED BY <1>1, <1>2

LEMMA AcceptSynOk ==
  ASSUME NEW x, DevOk(x), NEW c \in Cookies
  PROVE  LET y == vllp_accept_syn(x, c) IN
         /\ DevOk(y) /\ y.conn /\ y.S = 0 /\ y.E = 1 /\ y.iv = c /\ y.sent = 0 /\ y.rcvd = <<>>
         /\ \E p \in Acks : p.s = 0 /\ p.e = 1 /\ p.iv = c /\ Says(x, y, p)
<1> DEFINE w == vllp_disconnect(x)
           a == [w EXCEPT !.conn = TRUE, !.S = 0, !.E = 1]
           b == [a EXCEPT !.iv = c, !.cnt = 1, !.ctx = Key(c, 1)]
           e == [b EXCEPT !.crx = Key(c, 1), !.sent = 0, !.rcvd = <<>>]
           z == [e EXCEPT !.badCrc = FALSE]
<1>1. DevOk(w) /\ w.out = x.out /\ w \in Server
  BY DisconnectOk DEF DevOk
<1>2. Key(c, 1) \in Keys /\ c \in Cookie /\ <<>> \in Seq(Nat)
  BY KeyTypes DEF Cookie
<1>3. vllp_accept_syn(x, c) = vllp_tx_ack(z, FALSE)
  BY <1>1 DEF vllp_accept_syn, Server
<1> HIDE DEF w
<1>4. a \in Server
  <2>1. 0 \in 0 .. 1 /\ 1 \in 0 .. 1 /\ TRUE \in BOOLEAN
    OBVIOUS
  <2> QED BY <1>1, <2>1, ZenonT(60) DEF Server
<1>5. a.conn /\ a.S = 0 /\ a.E = 1 /\ a.out = w.out /\ a.est = w.est /\ a.ch = w.ch /\ a.overrun = w.overrun
  BY <1>1 DEF Server
<1> HIDE DEF a
<1>6. b \in Server
  BY <1>2, <1>4 DEF Server
<1>7. /\ b.conn = a.conn /\ b.S = a.S /\ b.E = a.E /\ b.out = a.out /\ b.est = a.est /\ b.ch = a.ch
      /\ b.overrun = a.overrun /\ b.iv = c
  BY <1>2, <1>4 DEF Server
<1> HIDE DEF b
<1>8. e \in Server
  BY <1>2, <1>6 DEF Server
<1>9. /\ e.conn = b.conn /\ e.S = b.S /\ e.E = b.E /\ e.out = b.out /\ e.est = b.est /\ e.ch = b.ch
      /\ e.overrun = b.overrun /\ e.iv = b.iv /\ e.sent = 0 /\ e.rcvd = <<>>
  BY <1>2, <1>6 DEF Server
<1> HIDE DEF e
<1>10. z \in Server
  BY <1>8 DEF Server
<1>11. /\ z.conn /\ z.S = 0 /\ z.E = 1 /\ z.out = x.out /\ z.est = w.est /\ z.ch = w.ch
       /\ z.overrun = w.overrun /\ z.iv = c /\ z.sent = 0 /\ z.rcvd = <<>>
  <2>1. /\ z.conn = e.conn /\ z.S = e.S /\ z.E = e.E /\ z.out = e.out /\ z.est = e.est /\ z.ch = e.ch
        /\ z.overrun = e.overrun /\ z.iv = e.iv /\ z.sent = e.sent /\ z.rcvd = e.rcvd
    BY <1>8 DEF Server
  <2> QED BY <1>1, <1>5, <1>7, <1>9, <2>1
<1> HIDE DEF z
<1>12. DevOk(z)
  BY <1>1, <1>10, <1>11 DEF DevOk, EstOk
<1>13. DevOk(vllp_tx_ack(z, FALSE)) /\ Acking(z, vllp_tx_ack(z, FALSE))
  BY <1>12, TxAckOk
<1> QED
  BY <1>3, <1>11, <1>13 DEF Acking, Same, Says

\* vllp_tx says again what is at the head, or nothing.
LEMMA TxOk ==
  ASSUME NEW x, DevOk(x), NEW starved \in BOOLEAN
  PROVE  LET y == vllp_tx(x, starved) IN
         /\ DevOk(y) /\ Same(x, y) /\ y.est = x.est /\ y.ch = x.ch
         /\ IF x.tx = <<>> THEN Silent(x, y) ELSE Repeating(x, y)
<1>1. CASE x.tx = <<>>
  BY <1>1 DEF vllp_tx, Silent, Same
<1>2. CASE x.tx # <<>>
  <2> DEFINE p == Data(x, Head(x.tx))
             o == IF starved THEN x.out ELSE Append(x.out, p)
             f == IF starved THEN x.fsent
                  ELSE IF p.f THEN x.fsent \cup (Ids \cap {p.frag.id}) ELSE x.fsent \ {p.frag.id}
             a == [x EXCEPT !.rtx = TRUE, !.ack = TRUE]
             y == [a EXCEPT !.out = o, !.fsent = f]
  <2>1. x \in Server /\ x.out \in Seq(Acks \cup Datas) /\ x.fsent \in SUBSET Ids /\ x.tx \in Seq(Frags)
    BY DEF DevOk, Server
  <2>2. Head(x.tx) \in Frags
    BY <1>2, <2>1
  <2>3. p \in Datas /\ p.s = x.S /\ p.e = x.E /\ p.n = x.sent
    BY <2>1, <2>2, DataType
  <2>4. vllp_tx(x, starved) = y
    BY <1>2, <2>1 DEF vllp_tx, Server
  <2> HIDE DEF p
  <2>5. o \in Seq(Acks \cup Datas) /\ (o = x.out \/ o = Append(x.out, p))
    BY <2>1, <2>3
  <2>6. f \in SUBSET Ids
    BY <2>1
  <2> HIDE DEF o, f
  <2>7. a \in Server /\ Silent(x, a) /\ a.est = x.est /\ a.ch = x.ch /\ a.overrun = x.overrun
    BY <2>1 DEF Server, Silent, Same
  <2> HIDE DEF a
  <2>8. y \in Server
    BY <2>5, <2>6, <2>7 DEF Server
  <2>9. Same(a, y) /\ y.out = o /\ y.est = a.est /\ y.ch = a.ch /\ y.overrun = a.overrun
    BY <2>7 DEF Server, Same
  <2> HIDE DEF y
  <2>10. Same(x, y) /\ Repeating(x, y)
    BY <2>3, <2>5, <2>7, <2>9 DEF Silent, Same, Repeating, Says
  <2> QED
    BY <1>2, <2>4, <2>7, <2>8, <2>9, <2>10 DEF DevOk, EstOk
<1> QED BY <1>1, <1>2

LEMMA FragmentOk ==
  ASSUME NEW x, DevOk(x), x.tx # <<>>, NEW starved \in BOOLEAN
  PROVE  LET y == vllp_fragment(x, starved) IN
         DevOk(y) /\ Offering(x, y) /\ y.est = x.est /\ y.ch = x.ch
<1> DEFINE a == [x EXCEPT !.S = 1 - @, !.sent = @ + 1]
<1>1. x \in Server /\ x.S \in 0 .. 1 /\ x.sent \in Nat
  BY DEF DevOk, Server
<1>2. 1 - x.S \in 0 .. 1 /\ x.sent + 1 \in Nat
  BY <1>1
<1>3. a \in Server
  BY <1>1, <1>2 DEF Server
<1>4. /\ a.conn = x.conn /\ a.E = x.E /\ a.iv = x.iv /\ a.rcvd = x.rcvd /\ a.tx = x.tx /\ a.out = x.out
      /\ a.S = 1 - x.S /\ a.sent = x.sent + 1 /\ a.est = x.est /\ a.ch = x.ch /\ a.overrun = x.overrun
  BY <1>1, <1>2 DEF Server
<1>5. vllp_fragment(x, starved) = vllp_tx(a, starved)
  BY DEF vllp_fragment, Offered
<1> HIDE DEF a
<1>6. DevOk(a)
  BY <1>3, <1>4 DEF DevOk, EstOk
<1> DEFINE y == vllp_tx(a, starved)
<1>7. DevOk(y) /\ Repeating(a, y) /\ y.est = a.est /\ y.ch = a.ch
  BY <1>4, <1>6, TxOk
<1> HIDE DEF y
<1>8. Offering(x, y)
  BY <1>4, <1>7 DEF Repeating, Same, Says, Offering
<1> QED
  BY <1>4, <1>5, <1>7, <1>8 DEF y

LEMMA SetEst ==
  ASSUME NEW x, DevOk(x), NEW q \in Seq(Slots \cup {Cmc}),
         \A i \in ToSet(q) : i # Cmc => x.ch[i].used /\ x.ch[i].appc # 2
  PROVE  LET y == [x EXCEPT !.est = q] IN
         DevOk(y) /\ Silent(x, y) /\ y.est = q /\ y.ch = x.ch /\ y.ctxq = x.ctxq /\ y.flow = x.flow
<1> DEFINE y == [x EXCEPT !.est = q]
<1>1. x \in Server
  BY DEF DevOk
<1>2. y \in Server
  BY <1>1 DEF Server
<1>3. Silent(x, y) /\ y.est = q /\ y.ch = x.ch /\ y.ctxq = x.ctxq /\ y.overrun = x.overrun /\ y.flow = x.flow
  BY <1>1 DEF Server, Silent, Same
<1> QED
  BY <1>2, <1>3 DEF DevOk, EstOk

LEMMA SetCtxq ==
  ASSUME NEW x, DevOk(x), NEW q \in Seq(Msgs)
  PROVE  LET y == [x EXCEPT !.ctxq = q] IN
         DevOk(y) /\ Silent(x, y) /\ y.est = x.est /\ y.ch = x.ch /\ y.ctxq = q
<1> DEFINE y == [x EXCEPT !.ctxq = q]
<1>1. x \in Server
  BY DEF DevOk
<1>2. y \in Server
  BY <1>1 DEF Server
<1>3. Silent(x, y) /\ y.est = x.est /\ y.ch = x.ch /\ y.ctxq = q /\ y.overrun = x.overrun
  BY <1>1 DEF Server, Silent, Same
<1> QED
  BY <1>2, <1>3 DEF DevOk, EstOk

LEMMA DevFacts ==
  ASSUME NEW x, DevOk(x)
  PROVE  /\ x \in Server /\ x.est \in Seq(Slots \cup {Cmc}) /\ ToSet(x.est) \subseteq Slots \cup {Cmc}
         /\ x.ch \in [Slots -> Slot] /\ \A i \in Slots : x.ch[i] \in Slot /\ x.ch[i].id \in Ids \cup {Nil}
         /\ x.tx \in Seq(Frags) /\ x.ctxq \in Seq(Msgs) /\ x.out \in Seq(Acks \cup Datas)
         /\ x.S \in 0 .. 1 /\ x.E \in 0 .. 1 /\ x.sent \in Nat /\ x.rcvd \in Seq(Nat) /\ x.iv \in Cookie
         /\ x.crx \in Keys /\ x.ctx \in Keys /\ x.cnt \in Nat /\ x.crxq \in Seq(Frags)
         /\ x.conn \in BOOLEAN /\ x.fsent \subseteq Ids /\ x.flow \subseteq Ids
         /\ \A i \in ToSet(x.est) : i # Cmc => i \in Slots /\ x.ch[i].used /\ x.ch[i].appc # 2
<1>1. x \in Server /\ x.est \in Seq(Slots \cup {Cmc}) /\ x.ch \in [Slots -> Slot]
  BY DEF DevOk, Server
<1>2. ToSet(x.est) \subseteq Slots \cup {Cmc}
  BY <1>1 DEF ToSet
<1>3. \A i \in Slots : x.ch[i] \in Slot /\ x.ch[i].id \in Ids \cup {Nil}
  BY <1>1 DEF Slot
<1>4. /\ x.tx \in Seq(Frags) /\ x.ctxq \in Seq(Msgs) /\ x.out \in Seq(Acks \cup Datas)
      /\ x.S \in 0 .. 1 /\ x.E \in 0 .. 1 /\ x.sent \in Nat /\ x.rcvd \in Seq(Nat) /\ x.iv \in Cookie
      /\ x.crx \in Keys /\ x.ctx \in Keys /\ x.cnt \in Nat /\ x.crxq \in Seq(Frags)
      /\ x.conn \in BOOLEAN /\ x.fsent \subseteq Ids /\ x.flow \subseteq Ids
  BY <1>1 DEF Server
<1>5. \A i \in ToSet(x.est) : i # Cmc => i \in Slots /\ x.ch[i].used /\ x.ch[i].appc # 2
  BY <1>2 DEF DevOk, EstOk
<1> QED BY <1>1, <1>2, <1>3, <1>4, <1>5

\* A message is cut and its first fragment offered, whatever was there before.
LEMMA ChannelTxOk ==
  ASSUME NEW x, DevOk(x), NEW c, c # Cmc => c \in Slots /\ x.ch[c].used /\ x.ch[c].appc # 2,
         NEW m \in Msgs, NEW starved \in BOOLEAN
  PROVE  LET y == vllp_channel_tx(x, c, m, starved) IN
         /\ DevOk(y) /\ Offering(x, y)
         /\ ToSet(y.est) = ToSet(x.est) \cup {c}
         /\ \A i \in Slots : y.ch[i].used = x.ch[i].used /\ y.ch[i].appc = x.ch[i].appc
<1> DEFINE id == IF c = Cmc THEN Cmc ELSE x.ch[c].id
           key == IF c = Cmc THEN x.ctx ELSE x.ch[c].tx
           q == Cut(id, key, m)
           cut == IF c = Cmc THEN [x EXCEPT !.tx = Cut(id, key, m), !.ctx = Bump(@)]
                  ELSE [x EXCEPT !.tx = Cut(id, key, m), !.ch[c].tx = Bump(@)]
           sent == vllp_fragment(cut, starved)
<1>1. x \in Server /\ x.ch \in [Slots -> Slot] /\ x.ctx \in Keys /\ Bump(x.ctx) \in Keys
  BY DevFacts, KeyTypes
<1>2. id \in Ids \cup {Nil, Cmc} /\ key \in Keys
  BY <1>1, DevFacts DEF Slot
<1> HIDE DEF id, key
<1>3. q \in Seq(Frags) /\ q # <<>>
  BY <1>2, CutType
<1> HIDE DEF q
<1>4. /\ DevOk(cut) /\ cut.tx = q /\ cut.est = x.est
      /\ cut.conn = x.conn /\ cut.S = x.S /\ cut.E = x.E /\ cut.iv = x.iv /\ cut.sent = x.sent
      /\ cut.rcvd = x.rcvd /\ cut.out = x.out
      /\ \A i \in Slots : cut.ch[i].used = x.ch[i].used /\ cut.ch[i].appc = x.ch[i].appc
  <2>1. CASE c = Cmc
    <3> DEFINE a == [x EXCEPT !.tx = q, !.ctx = Bump(@)]
    <3>1. cut = a
      BY <2>1 DEF q
    <3>2. a \in Server
      BY <1>1, <1>3 DEF Server
    <3>3. /\ a.tx = q /\ a.est = x.est /\ a.ch = x.ch /\ a.overrun = x.overrun
          /\ a.conn = x.conn /\ a.S = x.S /\ a.E = x.E /\ a.iv = x.iv /\ a.sent = x.sent
          /\ a.rcvd = x.rcvd /\ a.out = x.out
      BY <1>1 DEF Server
    <3> HIDE DEF a, cut
    <3>4. DevOk(a)
      BY <3>2, <3>3 DEF DevOk, EstOk
    <3> QED BY <3>1, <3>3, <3>4
  <2>2. CASE c # Cmc
    <3> DEFINE s == [x.ch[c] EXCEPT !.tx = Bump(@)]
               b == [x EXCEPT !.ch[c] = s]
               a == [b EXCEPT !.tx = q]
    <3>1. cut = a
      BY <1>1, <2>2 DEF q, Server
    <3>2. x.ch[c] \in Slot /\ Bump(x.ch[c].tx) \in Keys
      BY <1>1, <2>2, KeyTypes DEF Slot
    <3>3. s \in Slot /\ s.used = x.ch[c].used /\ s.appc = x.ch[c].appc
      BY <3>2 DEF Slot
    <3> HIDE DEF s
    <3>4. DevOk(b) /\ Silent(x, b) /\ b.est = x.est /\ b.ch[c] = s /\ \A j \in Slots : j # c => b.ch[j] = x.ch[j]
      BY <2>2, <3>3, SetSlot
    <3> HIDE DEF b
    <3>5. b \in Server
      BY <3>4 DEF DevOk
    <3>6. a \in Server
      BY <1>3, <3>5 DEF Server
    <3>7. /\ a.tx = q /\ a.est = b.est /\ a.ch = b.ch /\ a.overrun = b.overrun
          /\ a.conn = b.conn /\ a.S = b.S /\ a.E = b.E /\ a.iv = b.iv /\ a.sent = b.sent
          /\ a.rcvd = b.rcvd /\ a.out = b.out
      BY <3>5 DEF Server
    <3> HIDE DEF a
    <3>8. DevOk(a)
      BY <3>4, <3>6, <3>7 DEF DevOk, EstOk
    <3>9. \A i \in Slots : a.ch[i].used = x.ch[i].used /\ a.ch[i].appc = x.ch[i].appc
      BY <3>3, <3>4, <3>7
    <3>10. Silent(x, b) /\ b.est = x.est
      BY <3>4
    <3>11. /\ b.conn = x.conn /\ b.S = x.S /\ b.E = x.E /\ b.iv = x.iv /\ b.sent = x.sent
           /\ b.rcvd = x.rcvd /\ b.out = x.out
      BY <3>10 DEF Silent, Same
    <3> QED BY <3>1, <3>7, <3>8, <3>9, <3>10, <3>11
  <2> QED BY <2>1, <2>2
<1>5. vllp_channel_tx(x, c, m, starved) = [sent EXCEPT !.est = Rotate(@, c)]
  BY DEF vllp_channel_tx, id, key
<1> HIDE DEF cut
<1>6. DevOk(sent) /\ Offering(cut, sent) /\ sent.est = cut.est /\ sent.ch = cut.ch
  BY <1>3, <1>4, FragmentOk
<1> HIDE DEF sent
<1>7. sent \in Server /\ sent.est = x.est /\ x.est \in Seq(Slots \cup {Cmc}) /\ c \in Slots \cup {Cmc}
  BY <1>4, <1>6, DevFacts
<1>8. Without(x.est, {c}) \in Seq(Slots \cup {Cmc}) /\ ToSet(Without(x.est, {c})) = ToSet(x.est) \ {c}
  BY <1>7, WithoutSet
<1>9. Rotate(sent.est, c) \in Seq(Slots \cup {Cmc}) /\ ToSet(Rotate(sent.est, c)) = ToSet(x.est) \cup {c}
  <2> DEFINE w == Without(x.est, {c})
             S == Slots \cup {Cmc}
  <2>0. w \in Seq(S) /\ c \in S
    BY <1>7, <1>8
  <2>1. Rotate(sent.est, c) = Append(w, c)
    BY <1>7 DEF Rotate
  <2> HIDE DEF w, S
  <2>2. Append(w, c) \in Seq(S) /\ ToSet(Append(w, c)) = ToSet(w) \cup {c}
    BY <2>0, AppendSet
  <2> QED BY <1>8, <2>1, <2>2 DEF w, S
<1>10. \A i \in ToSet(Rotate(sent.est, c)) : i # Cmc => sent.ch[i].used /\ sent.ch[i].appc # 2
  BY <1>4, <1>6, <1>9, DevFacts
<1> DEFINE y == [sent EXCEPT !.est = Rotate(sent.est, c)]
<1>11. DevOk(y) /\ Silent(sent, y) /\ y.est = Rotate(sent.est, c) /\ y.ch = sent.ch
  BY <1>6, <1>9, <1>10, SetEst
<1> HIDE DEF y
<1>12. Offering(x, y)
  BY <1>4, <1>6, <1>11 DEF Offering, Silent, Same, Says
<1> QED
  BY <1>4, <1>5, <1>6, <1>9, <1>11, <1>12 DEF y

LEMMA MsgType ==
  /\ \A op \in {"open", "close", "msg", "eof", "resp", "reply"}, id \in Ids \cup {Nil}, arg \in {"none", "ok", "refused"} :
       /\ Msg(op, id, arg) \in Msgs /\ Msg(op, id, arg).op = op /\ Msg(op, id, arg).id = id
  BY DEF Msg, Msgs

LEMMA SilentAcks == ASSUME NEW x, DevOk(x), NEW y, Silent(x, y) PROVE Acking(x, y)
<1>1. Ack(x) \in Acks /\ Ack(x).s = x.S /\ Ack(x).e = x.E /\ Ack(x).iv = x.iv
  BY DevFacts, AckType
<1> QED BY <1>1 DEF Silent, Acking, Says

LEMMA TxCloseOk ==
  ASSUME NEW x, DevOk(x), NEW i \in Slots
  PROVE  LET y == vllp_tx_close(x, i) IN
         DevOk(y) /\ (Silent(x, y) \/ Offering(x, y))
<1> DEFINE m == Msg("close", x.ch[i].id, "none")
           q == Append(x.ctxq, m)
           r == Without(x.est, {i})
           s == [x.ch[i] EXCEPT !.appc = 2]
           a == [x EXCEPT !.est = r]
           off == [x EXCEPT !.est = Without(@, {i}), !.ch[i].appc = 2]
           b == [off EXCEPT !.ctxq = Tail(q)]
           z == IF x.conn THEN vllp_channel_tx(b, Cmc, Head(q), FALSE) ELSE off
<1>1. /\ x \in Server /\ x.est \in Seq(Slots \cup {Cmc}) /\ x.ctxq \in Seq(Msgs) /\ x.ch[i] \in Slot
      /\ x.ch[i].id \in Ids \cup {Nil} /\ x.ch \in [Slots -> Slot]
      /\ \A j \in ToSet(x.est) : j # Cmc => x.ch[j].used /\ x.ch[j].appc # 2
  BY DevFacts
<1>2. m \in Msgs
  BY <1>1, MsgType
<1> HIDE DEF m
<1>3. q \in Seq(Msgs) /\ q # <<>> /\ Head(q) \in Msgs /\ Tail(q) \in Seq(Msgs)
  BY <1>1, <1>2
<1>4. r \in Seq(Slots \cup {Cmc}) /\ ToSet(r) = ToSet(x.est) \ {i}
  BY <1>1, WithoutSet
<1>5. s \in Slot
  <2>1. 2 \in 0 .. 2
    OBVIOUS
  <2> QED BY <1>1, <2>1 DEF Slot
<1>6. vllp_tx_close(x, i) = MaybeDestroy(z, i)
  BY DEF vllp_tx_close, m
<1>7. off = [a EXCEPT !.ch[i] = s]
  BY <1>1 DEF Server
<1> HIDE DEF q, r, s
<1>8. DevOk(a) /\ Silent(x, a) /\ a.est = r /\ a.ch = x.ch /\ a.ctxq = x.ctxq
  <2>1. EstOk(x)
    BY DEF DevOk
  <2>2. \A j \in ToSet(r) : j # Cmc => x.ch[j].used /\ x.ch[j].appc # 2
    BY <1>4, <2>1 DEF EstOk
  <2> QED BY <1>1, <1>4, <2>2, SetEst
<1> HIDE DEF a, off
<1>9. DevOk(off) /\ Silent(x, off)
  <2> DEFINE c == [a.ch EXCEPT ![i] = s]
  <2>1. a \in Server /\ a.ch \in [Slots -> Slot]
    BY <1>8, DevFacts
  <2>2. off = [a EXCEPT !.ch = c]
    BY <1>7, <2>1 DEF Server
  <2>3. c \in [Slots -> Slot] /\ \A j \in Slots : j # i => c[j] = x.ch[j]
    BY <1>5, <1>8, <2>1
  <2> HIDE DEF c
  <2>4. off \in Server
    BY <2>1, <2>2, <2>3 DEF Server
  <2>5. Silent(a, off) /\ off.est = r /\ off.ch = c /\ off.overrun = a.overrun
    BY <1>8, <2>1, <2>2 DEF Server, Silent, Same
  <2>6. \A j \in ToSet(r) : j # Cmc => c[j].used /\ c[j].appc # 2
    BY <1>1, <1>4, <2>3, DevFacts
  <2> QED
    BY <1>8, <2>4, <2>5, <2>6 DEF DevOk, EstOk, Silent, Same
<1>10. DevOk(b) /\ Silent(off, b)
  BY <1>3, <1>9, SetCtxq
<1> HIDE DEF b
<1>11. DevOk(z) /\ (Silent(x, z) \/ Offering(x, z))
  <2>1. CASE x.conn
    <3> DEFINE w == vllp_channel_tx(b, Cmc, Head(q), FALSE)
    <3>1. DevOk(w) /\ Offering(b, w)
      BY <1>3, <1>10, ChannelTxOk
    <3> HIDE DEF w
    <3>2. Offering(x, w)
      BY <1>9, <1>10, <3>1 DEF Offering, Silent, Same, Says
    <3> QED BY <2>1, <3>1, <3>2 DEF w
  <2>2. CASE ~x.conn
    BY <1>9, <2>2
  <2> QED BY <2>1, <2>2
<1> HIDE DEF z
<1>12. DevOk(MaybeDestroy(z, i)) /\ Silent(z, MaybeDestroy(z, i))
  BY <1>11, MaybeDestroyOk
<1> QED
  BY <1>6, <1>11, <1>12 DEF Offering, Silent, Same, Says

\* With nothing under way, a fragment is offered or an acknowledgement sent.
LEMMA MaybeTxOk ==
  ASSUME NEW x, DevOk(x), NEW reuse \in BOOLEAN, NEW starved \in BOOLEAN
  PROVE  LET y == vllp_maybe_tx(x, reuse, starved) IN
         /\ DevOk(y)
         /\ IF x.tx # <<>> THEN y = x ELSE Acking(x, y) \/ Offering(x, y)
<1>1. CASE x.tx # <<>>
  BY <1>1 DEF vllp_maybe_tx
<1>2. CASE x.tx = <<>>
  <2> DEFINE work == {k \in DOMAIN x.est : HasWork(x, x.est[k], starved)}
             k == IF work = {} THEN Len(x.est) + 1 ELSE Min(work)
             lost == {x.est[j] : j \in {j \in 1 .. k - 1 : CloseFails(x, x.est[j], starved)}}
             y == [x EXCEPT !.est = Without(@, lost)]
             sv == starved /\ ~reuse
             c == x.est[k]
             b == [y EXCEPT !.ctxq = Tail(@)]
             e == [y EXCEPT !.ch[c].out = @ - 1]
             v == vllp_maybe_tx(x, reuse, starved)
  <2>1. /\ x \in Server /\ x.est \in Seq(Slots \cup {Cmc}) /\ x.ctxq \in Seq(Msgs)
        /\ \A j \in ToSet(x.est) : j # Cmc => j \in Slots /\ x.ch[j].used /\ x.ch[j].appc # 2
    BY DevFacts
  <2>2. Without(x.est, lost) \in Seq(Slots \cup {Cmc}) /\ ToSet(Without(x.est, lost)) = ToSet(x.est) \ lost
    <3>1. \A L : Without(x.est, L) \in Seq(Slots \cup {Cmc}) /\ ToSet(Without(x.est, L)) = ToSet(x.est) \ L
      BY <2>1, WithoutSet
    <3> HIDE DEF lost
    <3> QED BY <3>1
  <2>3. sv \in BOOLEAN
    OBVIOUS
  <2>4. v = IF work = {}
            THEN IF y.fsent # y.flow THEN vllp_tx_ack(y, sv) ELSE y
            ELSE IF c = Cmc THEN vllp_channel_tx(b, Cmc, Head(y.ctxq), sv)
            ELSE IF y.ch[c].appc = 1 THEN vllp_tx_close(y, c)
            ELSE vllp_channel_tx(e, c, Msg("reply", y.ch[c].id, "none"), sv)
    BY <1>2, Zenon DEF vllp_maybe_tx
  <2> HIDE DEF v, sv, lost
  <2>5. DevOk(y) /\ Silent(x, y) /\ y.ch = x.ch /\ y.ctxq = x.ctxq
    BY <2>1, <2>2, SetEst
  <2> HIDE DEF y
  <2>6. CASE work = {}
    <3>1. DevOk(vllp_tx_ack(y, sv)) /\ Acking(y, vllp_tx_ack(y, sv))
      BY <2>3, <2>5, TxAckOk
    <3>2. Acking(y, y)
      BY <2>5, SilentAcks DEF Silent, Same
    <3>3. DevOk(v) /\ Acking(y, v)
      BY <2>4, <2>5, <2>6, <3>1, <3>2
    <3>4. Acking(x, v)
      BY <2>5, <3>3 DEF Acking, Silent, Same, Says
    <3> QED BY <1>2, <3>3, <3>4 DEF v
  <2>7. CASE work # {}
    <3>1. work \in SUBSET Nat /\ DOMAIN x.est = 1 .. Len(x.est)
      BY <2>1
    <3>2. k \in work
      BY <2>7, <3>1, MinNat
    <3>3. k \in DOMAIN x.est /\ HasWork(x, c, starved)
      BY <3>2
    <3> HIDE DEF work, k
    <3>4. c \in ToSet(x.est)
      BY <3>1, <3>3 DEF ToSet
    <3> HIDE DEF c
    <3>5. CASE c = Cmc
      <4>1. x.ctxq # <<>> /\ Head(x.ctxq) \in Msgs /\ Tail(x.ctxq) \in Seq(Msgs)
        BY <2>1, <3>3, <3>5 DEF HasWork
      <4>2. DevOk(b) /\ Silent(y, b)
        BY <2>5, <4>1, SetCtxq
      <4> HIDE DEF b
      <4>3. DevOk(v) /\ Offering(b, v)
        <5> DEFINE w == vllp_channel_tx(b, Cmc, Head(x.ctxq), sv)
        <5>1. DevOk(w) /\ Offering(b, w)
          BY <2>3, <4>1, <4>2, ChannelTxOk
        <5>2. v = w
          BY <2>4, <2>5, <2>7, <3>5
        <5> QED BY <5>1, <5>2
      <4>4. Offering(x, v)
        BY <2>5, <4>2, <4>3 DEF Offering, Silent, Same, Says
      <4> QED BY <1>2, <4>3, <4>4 DEF v
    <3>6. CASE c # Cmc /\ x.ch[c].appc = 1
      <4>1. c \in Slots
        BY <2>1, <3>4, <3>6
      <4>2. v = vllp_tx_close(y, c)
        BY <2>4, <2>5, <2>7, <3>6
      <4>3. DevOk(v) /\ (Silent(y, v) \/ Offering(y, v))
        BY <2>5, <4>1, <4>2, TxCloseOk
      <4>4. Silent(x, v) \/ Offering(x, v)
        BY <2>5, <4>3 DEF Offering, Silent, Same, Says
      <4>5. Acking(x, v) \/ Offering(x, v)
        BY <4>4, SilentAcks
      <4> QED BY <1>2, <4>3, <4>5 DEF v
    <3>7. CASE c # Cmc /\ x.ch[c].appc # 1
      <4> DEFINE s == [x.ch[c] EXCEPT !.out = @ - 1]
      <4>1. c \in Slots /\ x.ch[c] \in Slot /\ x.ch[c].used /\ x.ch[c].appc # 2
        BY <2>1, <3>4, <3>7, DevFacts
      <4>2. x.ch[c].out > 0 /\ x.ch[c].out - 1 \in Nat
        BY <3>3, <3>7, <4>1 DEF HasWork, Slot
      <4>3. s \in Slot /\ s.used = x.ch[c].used /\ s.appc = x.ch[c].appc
        BY <4>1, <4>2 DEF Slot
      <4>4. e = [y EXCEPT !.ch[c] = s]
        BY <2>5
      <4> HIDE DEF s, e
      <4>a. DevOk(y) /\ c \in Slots /\ s \in Slot /\ (y.ch[c].used /\ y.ch[c].appc # 2 => s.used /\ s.appc # 2)
        BY <2>5, <4>1, <4>3
      <4>b. LET z == [y EXCEPT !.ch[c] = s] IN DevOk(z) /\ Silent(y, z) /\ z.ch[c] = s
        BY <4>a, SetSlot
      <4>5. DevOk(e) /\ Silent(y, e) /\ e.ch[c] = s
        BY <4>4, <4>b
      <4> DEFINE m == Msg("reply", y.ch[c].id, "none")
                 w == vllp_channel_tx(e, c, m, sv)
      <4>6. m \in Msgs
        BY <2>5, <4>1, DevFacts, MsgType
      <4>7. v = w
        BY <2>4, <2>5, <2>7, <3>7
      <4> HIDE DEF m
      <4>8. DevOk(w) /\ Offering(e, w)
        BY <2>3, <4>1, <4>3, <4>5, <4>6, ChannelTxOk
      <4> HIDE DEF w
      <4>9. Offering(x, v)
        BY <2>5, <4>5, <4>7, <4>8 DEF Offering, Silent, Same, Says
      <4> QED BY <1>2, <4>7, <4>8, <4>9 DEF v
    <3> QED BY <3>5, <3>6, <3>7
  <2> QED BY <2>6, <2>7
<1> QED BY <1>1, <1>2

LEMMA OpenOk ==
  ASSUME NEW x, DevOk(x), NEW id \in Ids \cup {Nil}, NEW starved \in BOOLEAN
  PROVE  DevOk(handle_cmc_open(x, id, starved)) /\ Silent(x, handle_cmc_open(x, id, starved))
<1> DEFINE free == {i \in Slots : ~x.ch[i].used}
           i == CHOOSE j \in free : TRUE
           key == Key(x.iv, x.cnt + 1)
           bad == Find(x, id) # {} \/ free = {} \/ starved
           m == Msg("resp", id, IF bad THEN "refused" ELSE "ok")
           q == Append(x.ctxq, m)
           y == [x EXCEPT !.cnt = @ + 1, !.ctxq = q]
           s == [FreeSlot EXCEPT !.used = TRUE, !.id = id, !.tx = key, !.rx = key]
           a == [y EXCEPT !.ch[i] = s]
           b == [y EXCEPT !.ch[i] = s, !.est = Append(@, i)]
<1>1. x \in Server /\ x.ctxq \in Seq(Msgs) /\ x.cnt + 1 \in Nat /\ x.iv \in Cookie
  BY DevFacts
<1>2. m \in Msgs
  BY MsgType
<1>3. handle_cmc_open(x, id, starved) = IF bad THEN y ELSE b
  BY Zenon DEF handle_cmc_open
<1> HIDE DEF m, bad
<1>4. q \in Seq(Msgs) /\ key \in Keys
  BY <1>1, <1>2, KeyTypes
<1> HIDE DEF q, key
<1>5. y \in Server /\ Silent(x, y) /\ y.est = x.est /\ y.ch = x.ch /\ y.overrun = x.overrun
  <2>1. y \in Server
    BY <1>1, <1>4 DEF Server
  <2>2. Silent(x, y) /\ y.est = x.est /\ y.ch = x.ch /\ y.overrun = x.overrun
    BY <1>1, <1>4 DEF Server, Silent, Same
  <2> QED BY <2>1, <2>2
<1> HIDE DEF y
<1>6. DevOk(y)
  BY <1>5 DEF DevOk, EstOk
<1>7. CASE bad
  BY <1>3, <1>5, <1>6, <1>7
<1>8. CASE ~bad
  <2>1. i \in Slots /\ ~x.ch[i].used
    BY <1>8 DEF bad
  <2> HIDE DEF i
  <2>2. s \in Slot /\ s.used /\ s.appc = 0
    <3>1. FreeSlot \in Slot /\ FreeSlot.appc = 0
      BY FreeSlotType
    <3> QED BY <1>4, <3>1 DEF Slot
  <2> HIDE DEF s
  <2>3. DevOk(a) /\ Silent(y, a) /\ a.est = y.est /\ a.ch[i] = s /\ \A j \in Slots : j # i => a.ch[j] = y.ch[j]
    BY <1>6, <2>1, <2>2, SetSlot
  <2>4. b = [a EXCEPT !.est = Append(a.est, i)]
    BY <1>5 DEF Server
  <2> HIDE DEF a, b
  <2>5. a.est \in Seq(Slots \cup {Cmc}) /\ \A j \in ToSet(a.est) : j # Cmc => a.ch[j].used /\ a.ch[j].appc # 2
    BY <2>3, DevFacts
  <2> DEFINE S == Slots \cup {Cmc}
             r == Append(a.est, i)
  <2>6. a.est \in Seq(S) /\ i \in S
    BY <2>1, <2>5
  <2> HIDE DEF S
  <2>7. r \in Seq(S) /\ ToSet(r) = ToSet(a.est) \cup {i}
    BY <2>6, AppendSet
  <2> HIDE DEF r
  <2>8. \A j \in ToSet(r) : j # Cmc => a.ch[j].used /\ a.ch[j].appc # 2
    BY <2>2, <2>3, <2>5, <2>7
  <2>9. r \in Seq(Slots \cup {Cmc})
    BY <2>7 DEF S
  <2>10. LET z == [a EXCEPT !.est = r] IN DevOk(z) /\ Silent(a, z)
    BY <2>3, <2>8, <2>9, SetEst
  <2>11. DevOk(b) /\ Silent(a, b)
    BY <2>4, <2>10 DEF r
  <2>12. Silent(x, b)
    BY <1>5, <2>3, <2>11 DEF Silent, Same
  <2> QED BY <1>3, <1>8, <2>11, <2>12
<1> QED BY <1>7, <1>8

LEMMA CmcOk ==
  ASSUME NEW x, DevOk(x), NEW m \in Msgs, NEW starved \in BOOLEAN
  PROVE  DevOk(handle_cmc(x, m, starved)) /\ Silent(x, handle_cmc(x, m, starved))
<1>1. m.id \in Ids \cup {Nil}
  BY DEF Msgs
<1>2. CASE m.op = "open"
  BY <1>1, <1>2, OpenOk DEF handle_cmc
<1>3. CASE m.op # "open" /\ Find(x, m.id) = {}
  BY <1>3 DEF handle_cmc, Silent, Same
<1>4. CASE m.op # "open" /\ Find(x, m.id) # {}
  <2> DEFINE i == CHOOSE j \in Find(x, m.id) : TRUE
  <2>1. i \in Find(x, m.id)
    BY <1>4
  <2>2. i \in Slots
    BY <2>1 DEF Find, Listed
  <2>3. handle_cmc(x, m, starved) = NetClose(x, i)
    BY <1>4 DEF handle_cmc
  <2> HIDE DEF i
  <2> QED BY <2>2, <2>3, NetCloseIs
<1> QED BY <1>2, <1>3, <1>4

LEMMA AssembleType == ASSUME NEW q \in Seq(Frags), NEW f \in Frags PROVE Assemble(q, f) \in Seq(Frags)
  BY DEF Assemble

LEMMA ReceiveCmcOk ==
  ASSUME NEW x, DevOk(x), NEW f \in Frags, NEW starved \in BOOLEAN
  PROVE  LET r == ReceiveCmc(x, f, starved) IN DevOk(r.x) /\ Silent(x, r.x)
<1> DEFINE q == Assemble(x.crxq, f)
           g == IF f.last THEN <<>> ELSE q
           y == [x EXCEPT !.crxq = g]
           u == [y EXCEPT !.badCrc = Unexplained(x, q)]
           v == [y EXCEPT !.crx = Bump(@)]
           r == ReceiveCmc(x, f, starved)
<1>1. x \in Server /\ x.crx \in Keys /\ Bump(x.crx) \in Keys /\ x.crxq \in Seq(Frags) /\ f.msg \in Msgs
  BY DevFacts, KeyTypes DEF Frags
<1>2. q \in Seq(Frags)
  BY <1>1, AssembleType
<1>3. r = IF x.crxq = <<>> /\ starved THEN Result(x, "NO_BUFFER")
          ELSE IF ~f.last THEN Result(y, "none")
          ELSE IF ~CrcOK(q, x.crx) THEN Result(u, "CHECKSUM")
          ELSE Result(handle_cmc(v, f.msg, starved), "none")
  BY Zenon DEF ReceiveCmc
<1> HIDE DEF q, r
<1>4. g \in Seq(Frags) /\ Unexplained(x, q) \in BOOLEAN
  BY <1>2 DEF Unexplained
<1> HIDE DEF g
<1>5. y \in Server /\ Silent(x, y) /\ y.est = x.est /\ y.ch = x.ch /\ y.overrun = x.overrun /\ y.crx = x.crx
  <2>1. y \in Server
    BY <1>1, <1>4 DEF Server
  <2>2. Silent(x, y) /\ y.est = x.est /\ y.ch = x.ch /\ y.overrun = x.overrun /\ y.crx = x.crx
    BY <1>1 DEF Server, Silent, Same
  <2> QED BY <2>1, <2>2
<1> HIDE DEF y
<1>6. u \in Server /\ Silent(y, u) /\ u.est = y.est /\ u.ch = y.ch /\ u.overrun = y.overrun
  <2>1. u \in Server
    BY <1>4, <1>5 DEF Server
  <2>2. Silent(y, u) /\ u.est = y.est /\ u.ch = y.ch /\ u.overrun = y.overrun
    BY <1>5 DEF Server, Silent, Same
  <2> QED BY <2>1, <2>2
<1>7. v \in Server /\ Silent(y, v) /\ v.est = y.est /\ v.ch = y.ch /\ v.overrun = y.overrun
  <2>1. v \in Server
    BY <1>1, <1>5 DEF Server
  <2>2. Silent(y, v) /\ v.est = y.est /\ v.ch = y.ch /\ v.overrun = y.overrun
    BY <1>5 DEF Server, Silent, Same
  <2> QED BY <2>1, <2>2
<1> HIDE DEF u, v
<1>8. DevOk(y) /\ DevOk(u) /\ DevOk(v)
  BY <1>5, <1>6, <1>7 DEF DevOk, EstOk
<1>9. DevOk(handle_cmc(v, f.msg, starved)) /\ Silent(v, handle_cmc(v, f.msg, starved))
  BY <1>1, <1>8, CmcOk
<1>10. /\ Silent(x, x) /\ Silent(x, y) /\ Silent(x, u) /\ Silent(x, handle_cmc(v, f.msg, starved))
  BY <1>5, <1>6, <1>7, <1>9 DEF Silent, Same
<1>11. r.x \in {x, y, u, handle_cmc(v, f.msg, starved)}
  BY <1>3 DEF Result
<1> QED BY <1>8, <1>9, <1>10, <1>11 DEF r

\* Flow control: the last fragment of a message is taken only when the service
\* has read the message before.
LEMMA ReceiveUserOk ==
  ASSUME NEW x, DevOk(x), x.flow = LocalFlow(x), NEW i \in Listed(x), NEW f \in Frags, NEW starved \in BOOLEAN
  PROVE  LET r == ReceiveUser(x, i, f, starved) IN DevOk(r.x) /\ Silent(x, r.x)
<1> DEFINE q == Assemble(x.ch[i].rxq, f)
           g == IF f.last THEN <<>> ELSE q
           y == [x EXCEPT !.ch[i].rxq = g]
           u == [y EXCEPT !.badCrc = Unexplained(x, q)]
           v == [y EXCEPT !.ch[i] = [y.ch[i] EXCEPT !.rx = Bump(@), !.full = TRUE], !.overrun = @ \/ x.ch[i].full]
           r == ReceiveUser(x, i, f, starved)
           s == [x.ch[i] EXCEPT !.rxq = g]
           t == [s EXCEPT !.rx = Bump(@), !.full = TRUE]
<1>1. i \in Slots /\ x \in Server /\ x.ch \in [Slots -> Slot] /\ x.ch[i] \in Slot /\ x.ch[i].rxq \in Seq(Frags)
      /\ x.ch[i].full \in BOOLEAN
  BY DevFacts DEF Slot, Listed
<1>2. q \in Seq(Frags)
  BY <1>1, AssembleType
<1>3. r = IF f.last /\ x.ch[i].id \notin x.flow THEN Result(x, "NO_BUFFER")
          ELSE IF x.ch[i].rxq = <<>> /\ starved THEN Result(x, "NO_BUFFER")
          ELSE IF ~f.last THEN Result(y, "none")
          ELSE IF ~CrcOK(q, x.ch[i].rx) THEN Result(u, "CHECKSUM")
          ELSE Result(v, "none")
  BY Zenon DEF ReceiveUser
<1> HIDE DEF q, r
<1>4. g \in Seq(Frags) /\ Unexplained(x, q) \in BOOLEAN
  BY <1>2 DEF Unexplained
<1> HIDE DEF g
<1>5. s \in Slot /\ s.used = x.ch[i].used /\ s.appc = x.ch[i].appc /\ s.rx \in Keys
  BY <1>1, <1>4 DEF Slot
<1>6. y = [x EXCEPT !.ch[i] = s]
  OBVIOUS
<1> HIDE DEF s, y
<1>8. DevOk(y) /\ Silent(x, y) /\ y.ch[i] = s
  BY <1>1, <1>5, <1>6, SetSlot
<1>9. y \in Server /\ ~y.overrun /\ y.ch \in [Slots -> Slot]
  BY <1>8, DevFacts DEF DevOk
<1>7. v = [[y EXCEPT !.ch[i] = t] EXCEPT !.overrun = y.overrun \/ x.ch[i].full]
  <2> DEFINE o == y.overrun \/ x.ch[i].full
  <2>1. v = [y EXCEPT !.ch[i] = t, !.overrun = o]
    BY <1>8
  <2> HIDE DEF v, t, o
  <2>2. v = [[y EXCEPT !.ch[i] = t] EXCEPT !.overrun = o]
    BY <1>9, <2>1 DEF Server
  <2> QED BY <2>2 DEF o
<1>10. DevOk(u) /\ Silent(y, u)
  <2>1. u \in Server
    BY <1>4, <1>9 DEF Server
  <2>2. Silent(y, u) /\ u.est = y.est /\ u.ch = y.ch /\ u.overrun = y.overrun
    BY <1>9 DEF Server, Silent, Same
  <2> QED BY <1>8, <2>1, <2>2 DEF DevOk, EstOk
<1>11. CASE x.ch[i].full /\ f.last
  <2>1. x.ch[i].id \notin x.flow
    BY <1>11 DEF LocalFlow
  <2> QED BY <1>3, <1>11, <2>1 DEF Result, Silent, Same, r
<1>12. CASE ~(x.ch[i].full /\ f.last)
  <2>1. CASE ~f.last
    BY <1>3, <1>8, <2>1 DEF Result, Silent, Same, r
  <2>2. CASE f.last /\ ~x.ch[i].full
    <3> DEFINE w == [y EXCEPT !.ch[i] = t]
    <3>1. Bump(s.rx) \in Keys
      BY <1>5, KeyTypes
    <3>2. t \in Slot /\ t.used = s.used /\ t.appc = s.appc
      BY <1>5, <3>1 DEF Slot
    <3> HIDE DEF t
    <3>3. y.ch[i].used /\ y.ch[i].appc # 2 => t.used /\ t.appc # 2
      BY <1>8, <3>2
    <3>4. DevOk(w) /\ Silent(y, w)
      BY <1>1, <1>8, <3>2, <3>3, SetSlot
    <3>5. w \in Server /\ ~w.overrun
      BY <3>4 DEF DevOk
    <3>6. v = [w EXCEPT !.overrun = FALSE]
      BY <1>7, <2>2, <3>5
    <3> HIDE DEF w, v
    <3>7. v \in Server
      BY <3>5, <3>6 DEF Server
    <3>8. Silent(w, v) /\ v.est = w.est /\ v.ch = w.ch /\ ~v.overrun
      BY <3>5, <3>6 DEF Server, Silent, Same
    <3>9. DevOk(v)
      BY <3>4, <3>7, <3>8 DEF DevOk, EstOk
    <3>10. Silent(x, x) /\ Silent(x, u) /\ Silent(x, v)
      BY <1>8, <1>10, <3>4, <3>8 DEF Silent, Same
    <3>11. r.x \in {x, u, v}
      BY <1>3, <2>2 DEF Result
    <3> QED BY <1>10, <3>9, <3>10, <3>11 DEF r
  <2> QED BY <1>12, <2>1, <2>2
<1> QED BY <1>11, <1>12

LEMMA ReceiveOk ==
  ASSUME NEW x, DevOk(x), x.flow = LocalFlow(x), NEW f \in Frags, NEW starved \in BOOLEAN
  PROVE  LET r == vllp_channel_receive(x, f, starved) IN DevOk(r.x) /\ Silent(x, r.x)
<1>1. CASE f.id = Cmc
  BY <1>1, ReceiveCmcOk DEF vllp_channel_receive
<1>2. CASE f.id # Cmc /\ Find(x, f.id) = {}
  BY <1>2 DEF vllp_channel_receive, Result, Silent, Same
<1>3. CASE f.id # Cmc /\ Find(x, f.id) # {}
  <2> DEFINE i == CHOOSE j \in Find(x, f.id) : TRUE
  <2>1. i \in Listed(x)
    BY <1>3 DEF Find
  <2>2. vllp_channel_receive(x, f, starved) = ReceiveUser(x, i, f, starved)
    BY <1>3 DEF vllp_channel_receive
  <2> HIDE DEF i
  <2> QED BY <2>1, <2>2, ReceiveUserOk
<1> QED BY <1>1, <1>2, <1>3

\* What the packet p makes of the fragment under way, and what comes next.
Idle(x) == [x EXCEPT !.tx = <<>>]
Answering(x, p, y) ==
  \/ x.tx # <<>> /\ ~PeerAccepted(x, p) /\ Silent(x, y)
  \/ (x.tx = <<>> \/ PeerAccepted(x, p)) /\ (Acking(Idle(x), y) \/ Offering(x, y))

LEMMA IdleIs ==
  ASSUME NEW x \in Server
  PROVE  LET y == Idle(x) IN
         /\ y.tx = <<>> /\ y.conn = x.conn /\ y.S = x.S /\ y.E = x.E /\ y.iv = x.iv /\ y.sent = x.sent
         /\ y.rcvd = x.rcvd /\ y.out = x.out
  BY DEF Idle, Server

\* Flags that are no part of the link.
LEMMA SetFlags ==
  ASSUME NEW x, DevOk(x), NEW r \in BOOLEAN, NEW a \in BOOLEAN, NEW f \in SUBSET Ids
  PROVE  /\ DevOk([x EXCEPT !.rtx = r]) /\ Silent(x, [x EXCEPT !.rtx = r])
         /\ DevOk([x EXCEPT !.ack = a]) /\ Silent(x, [x EXCEPT !.ack = a])
         /\ DevOk([x EXCEPT !.ack = a, !.fsent = f]) /\ Silent(x, [x EXCEPT !.ack = a, !.fsent = f])
         /\ [x EXCEPT !.ack = a].ch = x.ch /\ [x EXCEPT !.ack = a].flow = x.flow
<1> DEFINE u == [x EXCEPT !.rtx = r]
           v == [x EXCEPT !.ack = a]
           w == [x EXCEPT !.ack = a, !.fsent = f]
<1>1. x \in Server
  BY DEF DevOk
<1>2. u \in Server /\ v \in Server
  BY <1>1 DEF Server
<1>3. w \in Server
  BY <1>1 DEF Server
<1>4. Silent(x, u) /\ u.est = x.est /\ u.ch = x.ch /\ u.overrun = x.overrun
  BY <1>1 DEF Server, Silent, Same
<1>5. Silent(x, v) /\ v.est = x.est /\ v.ch = x.ch /\ v.overrun = x.overrun /\ v.flow = x.flow
  BY <1>1 DEF Server, Silent, Same
<1>6. Silent(x, w) /\ w.est = x.est /\ w.ch = x.ch /\ w.overrun = x.overrun
  BY <1>1 DEF Server, Silent, Same
<1> QED
  BY <1>2, <1>3, <1>4, <1>5, <1>6 DEF DevOk, EstOk

LEMMA AcknowledgeOk ==
  ASSUME NEW x, DevOk(x), NEW p, NEW starved \in BOOLEAN
  PROVE  DevOk(Acknowledge(x, p, starved)) /\ Answering(x, p, Acknowledge(x, p, starved))
<1> DEFINE z == [x EXCEPT !.rtx = FALSE, !.tx = Tail(@)]
           n == IF x.tx = <<>> THEN x
                ELSE IF ~PeerAccepted(x, p) THEN [x EXCEPT !.rtx = TRUE]
                ELSE IF z.tx = <<>> THEN z ELSE vllp_fragment(z, FALSE)
           y == Acknowledge(x, p, starved)
<1>1. x \in Server /\ x.tx \in Seq(Frags)
  BY DevFacts
<1>2. y = vllp_maybe_tx(n, TRUE, starved)
  BY Zenon DEF Acknowledge
<1> HIDE DEF y
<1>3. ASSUME DevOk(n)
      PROVE  DevOk(y) /\ IF n.tx # <<>> THEN y = n ELSE Acking(n, y) \/ Offering(n, y)
  <2> HIDE DEF n
  <2> QED BY <1>2, <1>3, MaybeTxOk
<1>4. CASE x.tx = <<>>
  <2>1. n = x
    BY <1>4
  <2>2. DevOk(y) /\ (Acking(x, y) \/ Offering(x, y))
    BY <1>3, <1>4, <2>1
  <2>3. Acking(x, y) => Acking(Idle(x), y)
    BY <1>1, <1>4, IdleIs DEF Acking, Same, Says
  <2> QED BY <1>4, <2>2, <2>3 DEF Answering, y
<1>5. CASE x.tx # <<>> /\ ~PeerAccepted(x, p)
  <2> DEFINE a == [x EXCEPT !.rtx = TRUE]
  <2>1. n = a
    BY <1>5
  <2>2. DevOk(a) /\ Silent(x, a)
    BY SetFlags
  <2>3. DevOk(y) /\ y = a
    BY <1>3, <1>5, <2>1, <2>2 DEF Silent, Same
  <2> QED BY <1>5, <2>2, <2>3 DEF Answering, y
<1>6. CASE x.tx # <<>> /\ PeerAccepted(x, p)
  <2>1. Tail(x.tx) \in Seq(Frags)
    BY <1>1, <1>6
  <2>2. z \in Server
    BY <1>1, <2>1 DEF Server
  <2>3. /\ z.conn = x.conn /\ z.S = x.S /\ z.E = x.E /\ z.iv = x.iv /\ z.sent = x.sent /\ z.rcvd = x.rcvd
        /\ z.out = x.out /\ z.est = x.est /\ z.ch = x.ch /\ z.overrun = x.overrun
    BY <1>1 DEF Server
  <2>4. n = IF z.tx = <<>> THEN z ELSE vllp_fragment(z, FALSE)
    BY <1>6
  <2> HIDE DEF z
  <2>5. DevOk(z)
    BY <2>2, <2>3 DEF DevOk, EstOk
  <2>6. CASE z.tx = <<>>
    <3>1. DevOk(y) /\ (Acking(z, y) \/ Offering(z, y))
      BY <1>3, <2>4, <2>5, <2>6
    <3>2. Acking(Idle(x), y) \/ Offering(x, y)
      BY <1>1, <2>3, <2>6, <3>1, IdleIs DEF Acking, Offering, Same, Says
    <3> QED BY <1>6, <3>1, <3>2 DEF Answering, y
  <2>7. CASE z.tx # <<>>
    <3> DEFINE w == vllp_fragment(z, FALSE)
    <3>1. DevOk(w) /\ Offering(z, w)
      BY <2>5, <2>7, FragmentOk
    <3>2. n = w
      BY <2>4, <2>7
    <3> HIDE DEF w, n
    <3>3. DevOk(y) /\ y = w
      BY <1>3, <3>1, <3>2 DEF Offering
    <3>4. Offering(x, y)
      BY <2>3, <3>1, <3>3 DEF Offering, Says
    <3> QED BY <1>6, <3>3, <3>4 DEF Answering, y
  <2> QED BY <2>6, <2>7
<1> QED BY <1>4, <1>5, <1>6

LEMMA SilentAnswer ==
  ASSUME NEW x, DevOk(x), NEW z, DevOk(z), Silent(x, z), NEW p, NEW y, Answering(z, p, y)
  PROVE  Answering(x, p, y)
<1>1. x \in Server /\ z \in Server
  BY DevFacts
<1>2. PeerAccepted(x, p) <=> PeerAccepted(z, p)
  BY DEF PeerAccepted, Silent, Same
<1>3. Silent(z, y) => Silent(x, y)
  BY DEF Silent, Same
<1>4. Offering(z, y) => Offering(x, y)
  BY DEF Silent, Same, Offering, Says
<1>5. Acking(Idle(z), y) => Acking(Idle(x), y)
  BY <1>1, IdleIs DEF Silent, Same, Acking, Says
<1>6. x.tx = z.tx
  BY DEF Silent, Same
<1> QED BY <1>2, <1>3, <1>4, <1>5, <1>6 DEF Answering

\* The packet p brings the fragment the device waits for.
Taking(x, p, z) ==
  /\ WeCanAccept(x, p) /\ z.E = 1 - x.E /\ z.rcvd = Append(x.rcvd, p.n)
  /\ z.conn = x.conn /\ z.S = x.S /\ z.iv = x.iv /\ z.tx = x.tx /\ z.sent = x.sent /\ z.out = x.out
Leaving(x, y) == /\ ~y.conn /\ y.S = x.S /\ y.E = x.E /\ y.iv = x.iv /\ y.sent = x.sent /\ y.rcvd = x.rcvd
                 /\ y.out = x.out

LEMMA RxDataOk ==
  ASSUME NEW x, DevOk(x), x.flow = LocalFlow(x), NEW p \in Datas, NEW starved \in BOOLEAN
  PROVE  LET y == RxData(x, p, starved) IN
         /\ DevOk(y)
         /\ \/ Answering(x, p, y) \/ Leaving(x, y)
            \/ \E z : DevOk(z) /\ Taking(x, p, z) /\ Answering(z, p, y)
<1> DEFINE r == vllp_channel_receive(x, p.frag, starved)
           a == [x EXCEPT !.ack = TRUE]
           b == Accepted(r.x, p)
           c == [b EXCEPT !.ack = TRUE, !.fsent = @ \ {p.frag.id}]
           y == RxData(x, p, starved)
<1>1. p.frag \in Frags /\ p.n \in Nat
  BY DEF Datas
<1>2. DevOk(r.x) /\ Silent(x, r.x)
  BY <1>1, ReceiveOk
<1>3. y = IF ~WeCanAccept(x, p) \/ r.err = "NO_BUFFER" THEN Acknowledge(a, p, starved)
          ELSE IF r.err = "CHECKSUM" THEN vllp_disconnect(r.x)
          ELSE Acknowledge(c, p, starved)
  BY Zenon DEF RxData
<1> HIDE DEF y, r
<1>4. CASE ~WeCanAccept(x, p) \/ r.err = "NO_BUFFER"
  <2>1. DevOk(a) /\ Silent(x, a)
    BY SetFlags
  <2>2. y = Acknowledge(a, p, starved)
    BY <1>3, <1>4
  <2> HIDE DEF a
  <2>3. DevOk(y) /\ Answering(a, p, y)
    BY <2>1, <2>2, AcknowledgeOk
  <2> QED BY <2>1, <2>3, SilentAnswer DEF y
<1>5. CASE ~(~WeCanAccept(x, p) \/ r.err = "NO_BUFFER") /\ r.err = "CHECKSUM"
  <2>1. y = vllp_disconnect(r.x)
    BY <1>3, <1>5
  <2>2. DevOk(y) /\ Leaving(r.x, y)
    BY <1>2, <2>1, DisconnectOk DEF Leaving
  <2>3. Leaving(x, y)
    BY <1>2, <2>2 DEF Leaving, Silent, Same
  <2> QED BY <2>2, <2>3 DEF y
<1>6. CASE ~(~WeCanAccept(x, p) \/ r.err = "NO_BUFFER") /\ r.err # "CHECKSUM"
  <2>1. y = Acknowledge(c, p, starved)
    BY <1>3, <1>6
  <2>2. PICK w : w = r.x
    OBVIOUS
  <2>3. w \in Server /\ DevOk(w) /\ w.E \in 0 .. 1 /\ w.rcvd \in Seq(Nat)
    BY <1>2, <2>2, DevFacts
  <2>4. b = [w EXCEPT !.E = 1 - w.E, !.rcvd = Append(w.rcvd, p.n)]
    BY <2>2 DEF Accepted
  <2> HIDE DEF b
  <2>5. 1 - w.E \in 0 .. 1 /\ Append(w.rcvd, p.n) \in Seq(Nat)
    BY <1>1, <2>3
  <2>6. b \in Server
    BY <2>3, <2>4, <2>5 DEF Server
  <2>7. /\ b.E = 1 - w.E /\ b.rcvd = Append(w.rcvd, p.n) /\ b.conn = w.conn /\ b.S = w.S /\ b.iv = w.iv
        /\ b.tx = w.tx /\ b.sent = w.sent /\ b.out = w.out /\ b.est = w.est /\ b.ch = w.ch
        /\ b.overrun = w.overrun
    BY <2>3, <2>4, <2>5 DEF Server
  <2>8. DevOk(b)
    BY <2>3, <2>6, <2>7 DEF DevOk, EstOk
  <2>9. b.fsent \ {p.frag.id} \in SUBSET Ids
    BY <2>8, DevFacts
  <2>10. DevOk(c) /\ Silent(b, c)
    BY <2>8, <2>9, SetFlags
  <2> HIDE DEF c
  <2>11. DevOk(y) /\ Answering(c, p, y)
    BY <2>1, <2>10, AcknowledgeOk
  <2>12. Answering(b, p, y)
    BY <2>8, <2>10, <2>11, SilentAnswer
  <2>13. WeCanAccept(x, p)
    BY <1>6
  <2>14. Taking(x, p, b)
    BY <1>2, <2>2, <2>7, <2>13 DEF Taking, Silent, Same
  <2> QED BY <2>8, <2>11, <2>12, <2>14 DEF y
<1> QED BY <1>4, <1>5, <1>6

Joining(x, iv, y) ==
  /\ y.conn /\ y.S = 0 /\ y.E = 1 /\ y.iv = iv /\ y.sent = 0 /\ y.rcvd = <<>>
  /\ \E a \in Acks : a.s = 0 /\ a.e = 1 /\ a.iv = iv /\ Says(x, y, a)

LEMMA RxOk ==
  ASSUME NEW x, DevOk(x), NEW p \in Syns \cup Acks \cup Datas, NEW starved \in BOOLEAN
  PROVE  LET y == vllp_rx(x, p, starved) IN
         /\ DevOk(y)
         /\ IF p.t = "syn" THEN Joining(x, p.iv, y)
            ELSE \/ Silent(x, y)
                 \/ /\ x.conn /\ (p.t = "ack" => p.iv = x.iv)
                    /\ \/ Answering(x, p, y) \/ Leaving(x, y)
                       \/ p.t = "data" /\ \E z : DevOk(z) /\ Taking(x, p, z) /\ Answering(z, p, y)
<1> DEFINE w == Refresh(x)
           y == vllp_rx(x, p, starved)
<1>1. DevOk(w) /\ Silent(x, w) /\ w.flow = LocalFlow(w)
  BY RefreshOk
<1>2. y = IF p.t = "syn" THEN vllp_accept_syn(w, p.iv)
          ELSE IF ~w.conn \/ (p.t = "ack" /\ p.iv # w.iv) THEN w
          ELSE IF p.t = "ack" THEN Acknowledge(w, p, starved) ELSE RxData(w, p, starved)
  BY Zenon DEF vllp_rx
<1> HIDE DEF w, y
<1>3. CASE p.t = "syn"
  <2>1. p.iv \in Cookies
    BY <1>3 DEF Syns, Acks, Datas
  <2>2. y = vllp_accept_syn(w, p.iv)
    BY <1>2, <1>3
  <2>3. DevOk(y) /\ Joining(w, p.iv, y)
    BY <1>1, <2>1, <2>2, AcceptSynOk DEF Joining
  <2> QED BY <1>1, <1>3, <2>3 DEF Joining, Says, Silent, Same, y
<1>4. CASE p.t # "syn" /\ ~w.conn
  <2>1. y = w
    BY <1>2, <1>4
  <2> QED BY <1>1, <1>4, <2>1 DEF y
<1>5. CASE p.t = "ack" /\ w.conn
  <2>1. y = IF p.iv # w.iv THEN w ELSE Acknowledge(w, p, starved)
    BY <1>2, <1>5
  <2>2. CASE p.iv # w.iv
    BY <1>1, <1>5, <2>1, <2>2 DEF y
  <2>3. CASE p.iv = w.iv
    <3>1. DevOk(y) /\ Answering(w, p, y)
      BY <1>1, <2>1, <2>3, AcknowledgeOk
    <3>2. Answering(x, p, y)
      BY <1>1, <3>1, SilentAnswer
    <3> QED BY <1>1, <1>5, <2>3, <3>1, <3>2 DEF Silent, Same, y
  <2> QED BY <2>2, <2>3
<1>6. CASE p.t = "data" /\ w.conn
  <2>1. p \in Datas
    BY <1>6 DEF Syns, Acks, Datas
  <2>2. y = RxData(w, p, starved)
    BY <1>2, <1>6
  <2>3. /\ DevOk(y)
        /\ \/ Answering(w, p, y) \/ Leaving(w, y)
           \/ \E z : DevOk(z) /\ Taking(w, p, z) /\ Answering(z, p, y)
    BY <1>1, <2>1, <2>2, RxDataOk
  <2>4. Answering(w, p, y) => Answering(x, p, y)
    BY <1>1, SilentAnswer
  <2>5. Leaving(w, y) => Leaving(x, y)
    BY <1>1 DEF Leaving, Silent, Same
  <2>6. \A z : Taking(w, p, z) => Taking(x, p, z)
    BY <1>1 DEF Taking, WeCanAccept, Silent, Same
  <2>7. x.conn
    BY <1>1, <1>6 DEF Silent, Same
  <2> QED BY <1>6, <2>3, <2>4, <2>5, <2>6, <2>7 DEF y
<1>7. p.t \in {"syn", "ack", "data"}
  BY DEF Syns, Acks, Datas
<1> QED BY <1>3, <1>4, <1>5, <1>6, <1>7

\* A task of a channel may tell the host about flow, and then send.
Working(x, y) == \E z :
  /\ DevOk(z) /\ Acking(x, z)
  /\ Silent(z, y) \/ (x.tx = <<>> /\ (Acking(z, y) \/ Offering(z, y)))

LEMMA TaskOk ==
  ASSUME NEW x, DevOk(x), NEW i \in Slots, NEW starved \in BOOLEAN
  PROVE  DevOk(TaskCb(x, i, starved)) /\ Working(x, TaskCb(x, i, starved))
<1> DEFINE a == [x EXCEPT !.ch[i].ev = {}]
           b == IF "close" \in x.ch[i].ev THEN [a EXCEPT !.ch[i].appc = 1] ELSE a
           c == IF LocalFlow(b) # b.flow THEN vllp_tx_ack(Refresh(b), starved) ELSE b
           y == TaskCb(x, i, starved)
           s == [x.ch[i] EXCEPT !.ev = {}]
           t == [s EXCEPT !.appc = 1]
<1>1. x \in Server /\ x.ch \in [Slots -> Slot] /\ x.ch[i] \in Slot
  BY DevFacts
<1>2. s \in Slot /\ s.used = x.ch[i].used /\ s.appc = x.ch[i].appc
  BY <1>1 DEF Slot
<1>3. t \in Slot /\ t.used = s.used /\ t.appc = 1
  <2>1. 1 \in 0 .. 2
    OBVIOUS
  <2> QED BY <1>2, <2>1 DEF Slot
<1>4. a = [x EXCEPT !.ch[i] = s]
  OBVIOUS
<1>5. y = IF "close" \in x.ch[i].ev /\ x.ch[i].appc # 0 THEN a ELSE vllp_maybe_tx(c, FALSE, starved)
  BY Zenon DEF TaskCb
<1> HIDE DEF s, a
<1>6. DevOk(a) /\ Silent(x, a) /\ a.ch[i] = s
  BY <1>2, <1>4, SetSlot
<1>7. DevOk(b) /\ Silent(a, b)
  <2>1. CASE "close" \in x.ch[i].ev
    <3>1. b = [a EXCEPT !.ch[i] = t]
      BY <1>6, <2>1
    <3> HIDE DEF t
    <3>2. a.ch[i].used /\ a.ch[i].appc # 2 => t.used /\ t.appc # 2
      BY <1>3, <1>6
    <3> QED BY <1>3, <1>6, <3>1, <3>2, SetSlot
  <2>2. CASE "close" \notin x.ch[i].ev
    BY <1>6, <2>2 DEF Silent, Same
  <2> QED BY <2>1, <2>2
<1> HIDE DEF b
<1>8. DevOk(c) /\ Acking(b, c)
  <2> DEFINE r == Refresh(b)
  <2>1. DevOk(r) /\ Silent(b, r)
    BY <1>7, RefreshOk
  <2> HIDE DEF r
  <2>2. DevOk(vllp_tx_ack(r, starved)) /\ Acking(r, vllp_tx_ack(r, starved))
    BY <2>1, TxAckOk
  <2>3. Acking(b, vllp_tx_ack(r, starved))
    BY <2>1, <2>2 DEF Acking, Silent, Same, Says
  <2>4. Acking(b, b)
    BY <1>7, SilentAcks DEF Silent, Same
  <2> QED BY <1>7, <2>2, <2>3, <2>4 DEF r
<1> HIDE DEF c, y
<1>9. Acking(x, a) /\ Acking(x, c)
  <2>1. Acking(x, a)
    BY <1>6, SilentAcks
  <2>2. Acking(x, c)
    BY <1>6, <1>7, <1>8 DEF Acking, Silent, Same, Says
  <2> QED BY <2>1, <2>2
<1>10. CASE "close" \in x.ch[i].ev /\ x.ch[i].appc # 0
  <2>1. y = a /\ Silent(a, a)
    BY <1>5, <1>10 DEF Silent, Same
  <2> QED BY <1>6, <1>9, <2>1 DEF Working, y
<1>11. CASE ~("close" \in x.ch[i].ev /\ x.ch[i].appc # 0)
  <2>1. y = vllp_maybe_tx(c, FALSE, starved)
    BY <1>5, <1>11
  <2>2. DevOk(y) /\ IF c.tx # <<>> THEN y = c ELSE Acking(c, y) \/ Offering(c, y)
    BY <1>8, <2>1, MaybeTxOk
  <2>3. c.tx = x.tx
    BY <1>9 DEF Acking, Same
  <2>4. Silent(c, c)
    BY DEF Silent, Same
  <2> QED BY <1>8, <1>9, <2>2, <2>3, <2>4 DEF Working, y
<1> QED BY <1>10, <1>11

LEMMA OffOk ==
  /\ DevOk(DeviceOff) /\ DeviceOff.out = <<>> /\ ~DeviceOff.conn /\ DeviceOff.iv = Nil
  /\ DeviceOff.sent = 0 /\ DeviceOff.rcvd = <<>>
<1>1. Key(Nil, 0) \in Keys /\ Nil \in Cookie
  BY KeyTypes DEF Cookie
<1>2. [i \in Slots |-> FreeSlot] \in [Slots -> Slot]
  BY FreeSlotType
<1>3. <<Cmc>> \in Seq(Slots \cup {Cmc}) /\ ToSet(<<Cmc>>) = {Cmc}
  BY DEF ToSet
<1>4. DeviceOff \in Server
  BY <1>1, <1>2, <1>3 DEF DeviceOff, Server
<1>5. /\ DeviceOff.est = <<Cmc>> /\ ~DeviceOff.overrun /\ DeviceOff.out = <<>> /\ ~DeviceOff.conn /\ DeviceOff.iv = Nil
      /\ DeviceOff.sent = 0 /\ DeviceOff.rcvd = <<>>
  BY DEF DeviceOff
<1> QED BY <1>3, <1>4, <1>5 DEF DevOk, EstOk

-----------------------------------------------------------------------------
(* One direction of the link.                                              *)

LEMMA Bits ==
  /\ \A n \in Nat : Bit(n) \in 0 .. 1 /\ Bit(n + 1) = 1 - Bit(n)
  /\ Bit(0) = 0 /\ \A n \in Nat : 1 - Bit(n + 1) # 1 - Bit(n)
  BY DEF Bit

\* Packets that get lost or doubled: those left stay in their order.
Drawn(w, I, w2, I2) ==
  /\ I \subseteq Nat /\ I2 \subseteq Nat
  /\ \E f \in [I2 -> I] : /\ \A i \in I2 : w2[i] = w[f[i]]
                          /\ \A i, j \in I2 : i < j => f[i] <= f[j]

LEMMA FwdMap ==
  ASSUME NEW a \in Nat, NEW b \in Nat, NEW w, NEW I, Fwd(a, b, w, I), NEW w2, NEW I2, Drawn(w, I, w2, I2)
  PROVE  Fwd(a, b, w2, I2)
<1> PICK f \in [I2 -> I] : (\A i \in I2 : w2[i] = w[f[i]]) /\ \A i, j \in I2 : i < j => f[i] <= f[j]
  BY DEF Drawn
<1> I \subseteq Nat /\ I2 \subseteq Nat
  BY DEF Drawn
<1> SUFFICES ASSUME NEW i \in I2, w2[i].t = "data"
             PROVE  /\ w2[i].n \in {b, b + 1} /\ w2[i].n <= a /\ w2[i].s = Bit(w2[i].n)
                    /\ \A j \in I2 : i < j /\ w2[j].t = "data" => w2[i].n <= w2[j].n
  BY DEF Fwd
<1>1. f[i] \in I /\ w2[i] = w[f[i]]
  OBVIOUS
<1>2. w2[i].n \in {b, b + 1} /\ w2[i].n <= a /\ w2[i].s = Bit(w2[i].n)
  BY <1>1 DEF Fwd
<1>3. ASSUME NEW j \in I2, i < j, w2[j].t = "data" PROVE w2[i].n <= w2[j].n
  <2>1. f[j] \in I /\ w2[j] = w[f[j]] /\ f[i] <= f[j] /\ f[i] \in Nat /\ f[j] \in Nat
    BY <1>1, <1>3
  <2>2. CASE f[i] = f[j]
    BY <1>1, <1>2, <2>1, <2>2
  <2>3. CASE f[i] < f[j]
    BY <1>1, <1>3, <2>1, <2>3 DEF Fwd
  <2> QED BY <2>1, <2>2, <2>3
<1> QED BY <1>2, <1>3

LEMMA RevMap ==
  ASSUME NEW a \in Nat, NEW b \in Nat, NEW idle \in BOOLEAN, NEW v, NEW J, Rev(a, b, idle, v, J), NEW v2, NEW J2,
         Drawn(v, J, v2, J2)
  PROVE  Rev(a, b, idle, v2, J2)
<1> PICK g \in [J2 -> J] : (\A i \in J2 : v2[i] = v[g[i]]) /\ \A i, j \in J2 : i < j => g[i] <= g[j]
  BY DEF Drawn
<1> J \subseteq Nat /\ J2 \subseteq Nat
  BY DEF Drawn
<1> SUFFICES ASSUME NEW i \in J2
             PROVE  /\ a = b + 1 \/ idle \/ a = 0 => v2[i].e = 1 - Bit(b)
                    /\ \A j \in J2 : i < j /\ v2[i].e = 1 - Bit(b) => v2[j].e = 1 - Bit(b)
  BY DEF Rev
<1>1. g[i] \in J /\ v2[i] = v[g[i]]
  OBVIOUS
<1>2. a = b + 1 \/ idle \/ a = 0 => v2[i].e = 1 - Bit(b)
  BY <1>1 DEF Rev
<1>3. ASSUME NEW j \in J2, i < j, v2[i].e = 1 - Bit(b) PROVE v2[j].e = 1 - Bit(b)
  <2>1. g[j] \in J /\ v2[j] = v[g[j]] /\ g[i] <= g[j] /\ g[i] \in Nat /\ g[j] \in Nat
    BY <1>1, <1>3
  <2>2. CASE g[i] = g[j]
    BY <1>1, <1>3, <2>1, <2>2
  <2>3. CASE g[i] < g[j]
    BY <1>1, <1>3, <2>1, <2>3 DEF Rev
  <2> QED BY <2>1, <2>2, <2>3
<1> QED BY <1>2, <1>3

\* The sender repeats its last fragment.
LEMMA DirSend ==
  ASSUME NEW a \in Nat, NEW b \in Nat, NEW idle \in BOOLEAN, NEW w, NEW I, NEW v, NEW J,
         Dir(a, b, idle, w, I, v, J), NEW w2, NEW I2, NEW n \in Nat, I2 \subseteq I \cup {n},
         I \subseteq Nat, \A i \in I : i < n, \A i \in I : w2[i] = w[i],
         w2[n].t = "data" => w2[n].n = a /\ w2[n].s = Bit(a)
  PROVE  Dir(a, b, idle, w2, I2, v, J)
<1>1. Counts(a, b, idle) /\ Rev(a, b, idle, v, J)
  BY DEF Dir
<1>2. Fwd(a, b, w2, I2)
  <2> SUFFICES ASSUME NEW i \in I2, w2[i].t = "data"
               PROVE  /\ w2[i].n \in {b, b + 1} /\ w2[i].n <= a /\ w2[i].s = Bit(w2[i].n)
                      /\ \A j \in I2 : i < j /\ w2[j].t = "data" => w2[i].n <= w2[j].n
    BY DEF Fwd
  <2>1. CASE i = n
    BY <1>1, <2>1 DEF Counts
  <2>2. CASE i # n
    <3>1. i \in I /\ w2[i] = w[i]
      BY <2>2
    <3>2. w2[i].n \in {b, b + 1} /\ w2[i].n <= a /\ w2[i].s = Bit(w2[i].n)
      BY <3>1 DEF Dir, Fwd
    <3>3. \A j \in I : i < j /\ w2[j].t = "data" => w2[i].n <= w2[j].n
      BY <3>1 DEF Dir, Fwd
    <3> QED BY <3>2, <3>3
  <2> QED BY <2>1, <2>2
<1> QED BY <1>1, <1>2 DEF Dir

\* The receiver repeats its acknowledgement.
LEMMA DirReply ==
  ASSUME NEW a \in Nat, NEW b \in Nat, NEW idle \in BOOLEAN, NEW w, NEW I, NEW v, NEW J,
         Dir(a, b, idle, w, I, v, J), NEW v2, NEW J2, NEW n \in Nat, J2 \subseteq J \cup {n},
         J \subseteq Nat, \A i \in J : i < n, \A i \in J : v2[i] = v[i], v2[n].e = 1 - Bit(b)
  PROVE  Dir(a, b, idle, w, I, v2, J2)
<1>1. Counts(a, b, idle) /\ Fwd(a, b, w, I)
  BY DEF Dir
<1>2. Rev(a, b, idle, v2, J2)
  <2> SUFFICES ASSUME NEW i \in J2
               PROVE  /\ a = b + 1 \/ idle \/ a = 0 => v2[i].e = 1 - Bit(b)
                      /\ \A j \in J2 : i < j /\ v2[i].e = 1 - Bit(b) => v2[j].e = 1 - Bit(b)
    BY DEF Rev
  <2>1. CASE i = n
    BY <2>1
  <2>2. CASE i # n
    <3>1. i \in J /\ v2[i] = v[i]
      BY <2>2
    <3> QED BY <3>1 DEF Dir, Rev
  <2> QED BY <2>1, <2>2
<1> QED BY <1>1, <1>2 DEF Dir

LEMMA DirOffer ==
  ASSUME NEW a \in Nat, NEW b \in Nat, NEW w, NEW I, NEW v, NEW J, Dir(a, b, TRUE, w, I, v, J)
  PROVE  a = b /\ Dir(a + 1, b, FALSE, w, I, v, J)
<1>1. a = b
  BY DEF Dir, Counts
<1>2. Counts(a + 1, b, FALSE)
  BY <1>1 DEF Counts
<1>3. Fwd(a + 1, b, w, I)
  BY <1>1 DEF Dir, Fwd
<1>4. Rev(a + 1, b, FALSE, v, J)
  BY <1>1 DEF Dir, Rev
<1> QED BY <1>1, <1>2, <1>3, <1>4 DEF Dir

\* The first packet on the way back acknowledges the fragment under way.
LEMMA DirAcked ==
  ASSUME NEW a \in Nat, NEW b \in Nat, NEW idle \in BOOLEAN, NEW w, NEW I, NEW v, NEW J,
         Dir(a, b, idle, w, I, v, J), J \subseteq Nat, NEW i \in J, \A j \in J : i <= j, v[i].e = 1 - Bit(a)
  PROVE  Dir(a, b, TRUE, w, I, v, J)
<1>1. a = b
  <2>1. a = b \/ a = b + 1
    BY DEF Dir, Counts
  <2>2. a = b + 1 => v[i].e = 1 - Bit(b)
    BY DEF Dir, Rev
  <2> QED BY <2>1, <2>2, Bits
<1>2. ASSUME NEW j \in J PROVE v[j].e = 1 - Bit(b)
  <2>1. i = j \/ i < j
    OBVIOUS
  <2> QED BY <1>1, <2>1 DEF Dir, Rev
<1>3. Rev(a, b, TRUE, v, J)
  BY <1>2 DEF Rev
<1>4. Counts(a, b, TRUE)
  BY <1>1 DEF Counts
<1> QED BY <1>3, <1>4 DEF Dir

\* The first packet brings the fragment the receiver waits for.
Brings(w, I, b, i) ==
  I \subseteq Nat /\ i \in I /\ (\A j \in I : i <= j) /\ w[i].t = "data" /\ w[i].s = 1 - Bit(b)

LEMMA DirTake ==
  ASSUME NEW a \in Nat, NEW b \in Nat, NEW idle \in BOOLEAN, NEW w, NEW I, NEW v, NEW J,
         Dir(a, b, idle, w, I, v, J), NEW i, Brings(w, I, b, i)
  PROVE  w[i].n = b + 1 /\ a = b + 1 /\ Dir(a, b + 1, idle, w, I, v, J)
<1> I \subseteq Nat /\ i \in I /\ (\A j \in I : i <= j) /\ w[i].t = "data" /\ w[i].s = 1 - Bit(b)
  BY DEF Brings
<1>1. w[i].n \in {b, b + 1} /\ w[i].n <= a /\ w[i].s = Bit(w[i].n)
  BY DEF Dir, Fwd
<1>2. w[i].n = b + 1
  BY <1>1, Bits
<1>3. a = b + 1 /\ ~idle
  BY <1>1, <1>2 DEF Dir, Counts
<1>4. Counts(a, b + 1, idle)
  BY <1>3 DEF Counts
<1>5. Fwd(a, b + 1, w, I)
  <2> SUFFICES ASSUME NEW k \in I, w[k].t = "data"
               PROVE  /\ w[k].n \in {b + 1, b + 1 + 1} /\ w[k].n <= a /\ w[k].s = Bit(w[k].n)
                      /\ \A j \in I : k < j /\ w[j].t = "data" => w[k].n <= w[j].n
    BY DEF Fwd
  <2>1. /\ w[k].n \in {b, b + 1} /\ w[k].n <= a /\ w[k].s = Bit(w[k].n)
        /\ \A j \in I : k < j /\ w[j].t = "data" => w[k].n <= w[j].n
    BY DEF Dir, Fwd
  <2>2. k = i \/ i < k
    <3>1. i \in Nat /\ k \in Nat /\ i <= k
      OBVIOUS
    <3> QED BY <3>1
  <2>3. w[i].n <= w[k].n
    BY <1>1, <2>1, <2>2 DEF Dir, Fwd
  <2> QED BY <1>2, <2>1, <2>3
<1>6. \A j \in J : v[j].e = 1 - Bit(b)
  BY <1>3 DEF Dir, Rev
<1>7. Rev(a, b + 1, idle, v, J)
  BY <1>3, <1>6, Bits DEF Rev
<1> QED BY <1>2, <1>3, <1>4, <1>5, <1>7 DEF Dir

-----------------------------------------------------------------------------
(* Both directions of a session.                                           *)

Packets == Syns \cup Acks \cup Datas
Ends(x, y) == /\ x.sent \in Nat /\ x.rcvd \in Seq(Nat) /\ x.S \in 0 .. 1 /\ x.E \in 0 .. 1
              /\ y.sent \in Nat /\ y.rcvd \in Seq(Nat) /\ y.S \in 0 .. 1 /\ y.E \in 0 .. 1

LEMMA FreshIn ==
  ASSUME NEW j, NEW iv, NEW w \in Seq(Packets)
  PROVE  /\ Fresh(j, iv, w) \subseteq 1 .. Len(w) /\ Fresh(j, iv, w) \subseteq Nat /\ 1 .. Len(w) \subseteq Nat
         /\ Len(w) \in Nat
  BY DEF Fresh

LEMMA FreshAll ==
  ASSUME NEW x, x.joined, NEW w \in Seq(Packets), w # <<>>
  PROVE  LET I == Fresh(x.joined, x.iv, w) IN I \subseteq Nat /\ 1 \in I /\ \A j \in I : 1 <= j
<1> DEFINE I == Fresh(x.joined, x.iv, w)
<1>1. I = 1 .. Len(w)
  BY DEF Fresh
<1>2. Len(w) \in Nat /\ Len(w) > 0
  OBVIOUS
<1> HIDE DEF I
<1>3. I \subseteq Nat /\ 1 \in I /\ \A j \in I : 1 <= j
  BY <1>1, <1>2
<1> QED BY <1>3 DEF I

LEMMA LinkIs ==
  ASSUME NEW x, NEW y, NEW u, NEW w
  PROVE  LinkOk(x, y, u, w) <=>
           /\ \A i \in 1 .. Len(u) : x.joined /\ u[i].t # "syn"
           /\ x.conn => x.S = Bit(x.sent) /\ x.E = 1 - Bit(Len(x.rcvd))
           /\ y.S = Bit(y.sent) /\ y.E = 1 - Bit(Len(y.rcvd))
           /\ Dir(x.sent, Len(y.rcvd), x.cur = <<>>, u, 1 .. Len(u), w, Fresh(x.joined, x.iv, w))
           /\ Dir(y.sent, Len(x.rcvd), y.tx = <<>>, w, Fresh(x.joined, x.iv, w), u, 1 .. Len(u))
  BY DEF LinkOk

LEMMA LinkHost ==
  ASSUME NEW x, NEW y, NEW u, NEW w, LinkOk(x, y, u, w), NEW z,
         z.joined = x.joined, z.iv = x.iv, z.sent = x.sent, z.rcvd = x.rcvd, z.cur = x.cur,
         z.conn => x.conn /\ z.S = x.S /\ z.E = x.E
  PROVE  LinkOk(z, y, u, w)
  BY LinkIs

LEMMA LinkDevice ==
  ASSUME NEW x, NEW y, NEW u, NEW w, LinkOk(x, y, u, w), NEW z,
         z.S = y.S, z.E = y.E, z.sent = y.sent, z.rcvd = y.rcvd, z.tx = y.tx
  PROVE  LinkOk(x, z, u, w)
  BY LinkIs

LEMMA LinkUp ==
  ASSUME NEW x, NEW y, Ends(x, y), NEW u \in Seq(Packets), NEW w \in Seq(Packets), LinkOk(x, y, u, w),
         NEW p \in Packets, x.conn, x.joined, p.t # "syn", p.e = x.E,
         p.t = "data" => p.n = x.sent /\ p.s = x.S
  PROVE  LinkOk(x, y, Append(u, p), w)
<1> DEFINE u2 == Append(u, p)
           I == Fresh(x.joined, x.iv, w)
           n == Len(u) + 1
           J == 1 .. Len(u)
           J2 == 1 .. Len(u2)
           hc == x.cur = <<>>
           dc == y.tx = <<>>
<1>1. /\ Len(u) \in Nat /\ n \in Nat /\ Len(u2) = n /\ u2[n] = p /\ (\A i \in J : u2[i] = u[i] /\ i < n)
      /\ J2 \subseteq J \cup {n} /\ J \subseteq Nat
  OBVIOUS
<1>2. /\ \A i \in 1 .. Len(u) : x.joined /\ u[i].t # "syn"
      /\ x.S = Bit(x.sent) /\ x.E = 1 - Bit(Len(x.rcvd))
      /\ y.S = Bit(y.sent) /\ y.E = 1 - Bit(Len(y.rcvd))
      /\ Dir(x.sent, Len(y.rcvd), hc, u, J, w, I)
      /\ Dir(y.sent, Len(x.rcvd), dc, w, I, u, J)
  BY LinkIs
<1>3. hc \in BOOLEAN /\ dc \in BOOLEAN /\ x.sent \in Nat /\ y.sent \in Nat /\ Len(x.rcvd) \in Nat /\ Len(y.rcvd) \in Nat
  BY DEF Ends
<1> HIDE DEF u2, I, n, J, J2, hc, dc
<1>8. u2[n].e = 1 - Bit(Len(x.rcvd)) /\ (u2[n].t = "data" => u2[n].n = x.sent /\ u2[n].s = Bit(x.sent))
  BY <1>1, <1>2
<1>9. (\A i \in J : i < n) /\ (\A i \in J : u2[i] = u[i])
  BY <1>1
<1>4. Dir(x.sent, Len(y.rcvd), hc, u2, J2, w, I)
  <2>1. Dir(x.sent, Len(y.rcvd), hc, u, J, w, I) /\ n \in Nat /\ J2 \subseteq J \cup {n} /\ J \subseteq Nat
    BY <1>1, <1>2
  <2> QED BY <1>3, <1>8, <1>9, <2>1, DirSend
<1>5. Dir(y.sent, Len(x.rcvd), dc, w, I, u2, J2)
  <2>1. Dir(y.sent, Len(x.rcvd), dc, w, I, u, J) /\ n \in Nat /\ J2 \subseteq J \cup {n} /\ J \subseteq Nat
    BY <1>1, <1>2
  <2> QED BY <1>3, <1>8, <1>9, <2>1, DirReply
<1>6. \A i \in 1 .. Len(u2) : x.joined /\ u2[i].t # "syn"
  BY <1>1, <1>2 DEF J, J2
<1>7. LinkOk(x, y, u2, w)
  BY <1>2, <1>4, <1>5, <1>6, LinkIs DEF I, J2, hc, dc
<1> QED BY <1>7 DEF u2

LEMMA LinkDown ==
  ASSUME NEW x, NEW y, Ends(x, y), NEW u \in Seq(Packets), NEW w \in Seq(Packets), LinkOk(x, y, u, w),
         NEW p \in Packets, p.e = y.E, p.t = "data" => p.n = y.sent /\ p.s = y.S
  PROVE  LinkOk(x, y, u, Append(w, p))
<1> DEFINE w2 == Append(w, p)
           I == Fresh(x.joined, x.iv, w)
           I2 == Fresh(x.joined, x.iv, w2)
           J == 1 .. Len(u)
           n == Len(w) + 1
           hc == x.cur = <<>>
           dc == y.tx = <<>>
<1>1. /\ Len(w) \in Nat /\ n \in Nat /\ Len(w2) = n /\ w2[n] = p /\ \A i \in 1 .. Len(w) : w2[i] = w[i] /\ i < n
  OBVIOUS
<1>2. I \subseteq 1 .. Len(w) /\ I \subseteq Nat
  BY FreshIn
<1>3. I2 \subseteq I \cup {n}
  <2> SUFFICES ASSUME NEW i \in I2, i # n PROVE i \in I
    OBVIOUS
  <2>1. i \in 1 .. Len(w2) /\ (x.joined \/ \E m \in 1 .. i : IsAck(w2[m], x.iv))
    BY DEF Fresh
  <2>2. i \in 1 .. Len(w) /\ \A m \in 1 .. i : w2[m] = w[m]
    BY <1>1, <2>1
  <2> QED BY <2>1, <2>2 DEF Fresh
<1>4. /\ \A i \in 1 .. Len(u) : x.joined /\ u[i].t # "syn"
      /\ x.conn => x.S = Bit(x.sent) /\ x.E = 1 - Bit(Len(x.rcvd))
      /\ y.S = Bit(y.sent) /\ y.E = 1 - Bit(Len(y.rcvd))
      /\ Dir(x.sent, Len(y.rcvd), hc, u, J, w, I)
      /\ Dir(y.sent, Len(x.rcvd), dc, w, I, u, J)
  BY LinkIs
<1>5. hc \in BOOLEAN /\ dc \in BOOLEAN /\ x.sent \in Nat /\ y.sent \in Nat /\ Len(x.rcvd) \in Nat /\ Len(y.rcvd) \in Nat
  BY DEF Ends
<1>6. (\A i \in I : i < n) /\ (\A i \in I : w2[i] = w[i])
  BY <1>1, <1>2
<1>10. w2[n].e = 1 - Bit(Len(y.rcvd)) /\ (w2[n].t = "data" => w2[n].n = y.sent /\ w2[n].s = Bit(y.sent))
  BY <1>1, <1>4
<1> HIDE DEF w2, I, I2, J, n, hc, dc
<1>7. Dir(x.sent, Len(y.rcvd), hc, u, J, w2, I2)
  <2>1. Dir(x.sent, Len(y.rcvd), hc, u, J, w, I) /\ n \in Nat
    BY <1>1, <1>4
  <2> QED BY <1>2, <1>3, <1>5, <1>6, <1>10, <2>1, DirReply
<1>8. Dir(y.sent, Len(x.rcvd), dc, w2, I2, u, J)
  <2>1. Dir(y.sent, Len(x.rcvd), dc, w, I, u, J) /\ n \in Nat
    BY <1>1, <1>4
  <2> QED BY <1>2, <1>3, <1>5, <1>6, <1>10, <2>1, DirSend
<1>9. LinkOk(x, y, u, w2)
  BY <1>4, <1>7, <1>8, LinkIs DEF I2, J, hc, dc
<1> QED BY <1>9 DEF w2

LEMMA LinkMap ==
  ASSUME NEW x, NEW y, Ends(x, y), NEW u \in Seq(Packets), NEW w \in Seq(Packets), LinkOk(x, y, u, w),
         NEW u2 \in Seq(Packets), NEW w2 \in Seq(Packets),
         Drawn(u, 1 .. Len(u), u2, 1 .. Len(u2)), Drawn(w, 1 .. Len(w), w2, 1 .. Len(w2))
  PROVE  LinkOk(x, y, u2, w2)
<1> PICK f \in [1 .. Len(u2) -> 1 .. Len(u)] : \A i \in 1 .. Len(u2) : u2[i] = u[f[i]]
  BY DEF Drawn
<1> PICK g \in [1 .. Len(w2) -> 1 .. Len(w)] :
      (\A i \in 1 .. Len(w2) : w2[i] = w[g[i]]) /\ \A i, j \in 1 .. Len(w2) : i < j => g[i] <= g[j]
  BY DEF Drawn
<1> DEFINE I == Fresh(x.joined, x.iv, w)
           I2 == Fresh(x.joined, x.iv, w2)
           J == 1 .. Len(u)
           J2 == 1 .. Len(u2)
           k == [i \in I2 |-> g[i]]
           hc == x.cur = <<>>
           dc == y.tx = <<>>
<1>1. I \subseteq Nat /\ J \subseteq Nat /\ I2 \subseteq Nat /\ J2 \subseteq Nat /\ I2 \subseteq 1 .. Len(w2)
  BY FreshIn
<1>2. ASSUME NEW i \in I2 PROVE g[i] \in I
  <2>1. i \in 1 .. Len(w2) /\ (x.joined \/ \E m \in 1 .. i : IsAck(w2[m], x.iv))
    BY DEF Fresh
  <2>2. g[i] \in 1 .. Len(w)
    BY <2>1
  <2>3. CASE x.joined
    BY <2>2, <2>3 DEF Fresh
  <2>4. CASE \E m \in 1 .. i : IsAck(w2[m], x.iv)
    <3>1. PICK m \in 1 .. i : IsAck(w2[m], x.iv)
      BY <2>4
    <3>2. m \in 1 .. Len(w2) /\ (m = i \/ m < i)
      BY <2>1
    <3>3. g[m] \in 1 .. Len(w) /\ w2[m] = w[g[m]]
      BY <3>2
    <3>5. g[m] <= g[i]
      <4>1. CASE m = i
        BY <2>2, <4>1
      <4>2. CASE m < i
        BY <2>1, <3>2, <4>2
      <4> QED BY <3>2, <4>1, <4>2
    <3>4. g[m] \in 1 .. g[i] /\ IsAck(w[g[m]], x.iv)
      BY <2>2, <3>1, <3>3, <3>5
    <3> QED BY <2>2, <3>4 DEF Fresh
  <2> QED BY <2>1, <2>3, <2>4
<1>9. Drawn(u, J, u2, J2)
  OBVIOUS
<1>3. /\ k \in [I2 -> I] /\ (\A i \in I2 : w2[i] = w[k[i]])
      /\ \A i, j \in I2 : i < j => k[i] <= k[j]
  BY <1>1, <1>2
<1>10. Drawn(w, I, w2, I2)
  BY <1>1, <1>3 DEF Drawn
<1>4. /\ \A i \in 1 .. Len(u) : x.joined /\ u[i].t # "syn"
      /\ x.conn => x.S = Bit(x.sent) /\ x.E = 1 - Bit(Len(x.rcvd))
      /\ y.S = Bit(y.sent) /\ y.E = 1 - Bit(Len(y.rcvd))
      /\ Dir(x.sent, Len(y.rcvd), hc, u, J, w, I)
      /\ Dir(y.sent, Len(x.rcvd), dc, w, I, u, J)
  BY LinkIs
<1>5. hc \in BOOLEAN /\ dc \in BOOLEAN /\ x.sent \in Nat /\ y.sent \in Nat /\ Len(x.rcvd) \in Nat /\ Len(y.rcvd) \in Nat
  <2>1. x.sent \in Nat /\ y.sent \in Nat /\ x.rcvd \in Seq(Nat) /\ y.rcvd \in Seq(Nat)
    BY DEF Ends
  <2>2. Len(x.rcvd) \in Nat /\ Len(y.rcvd) \in Nat
    BY <2>1
  <2>3. hc \in BOOLEAN /\ dc \in BOOLEAN
    OBVIOUS
  <2> QED BY <2>1, <2>2, <2>3
<1>6. ASSUME NEW i \in 1 .. Len(u2) PROVE x.joined /\ u2[i].t # "syn"
  <2>1. f[i] \in 1 .. Len(u) /\ u2[i] = u[f[i]]
    OBVIOUS
  <2> QED BY <1>4, <2>1
<1> HIDE DEF I, I2, J, J2, k, hc, dc
<1>7. Dir(x.sent, Len(y.rcvd), hc, u2, J2, w2, I2)
  <2>1. Counts(x.sent, Len(y.rcvd), hc) /\ Fwd(x.sent, Len(y.rcvd), u, J) /\ Rev(x.sent, Len(y.rcvd), hc, w, I)
    BY <1>4 DEF Dir
  <2>2. Fwd(x.sent, Len(y.rcvd), u2, J2)
    BY <1>5, <1>9, <2>1, FwdMap
  <2>3. Rev(x.sent, Len(y.rcvd), hc, w2, I2)
    BY <1>5, <1>10, <2>1, RevMap
  <2> QED BY <2>1, <2>2, <2>3 DEF Dir
<1>8. Dir(y.sent, Len(x.rcvd), dc, w2, I2, u2, J2)
  <2>1. Counts(y.sent, Len(x.rcvd), dc) /\ Fwd(y.sent, Len(x.rcvd), w, I) /\ Rev(y.sent, Len(x.rcvd), dc, u, J)
    BY <1>4 DEF Dir
  <2>2. Fwd(y.sent, Len(x.rcvd), w2, I2)
    BY <1>5, <1>10, <2>1, FwdMap
  <2>3. Rev(y.sent, Len(x.rcvd), dc, u2, J2)
    BY <1>5, <1>9, <2>1, RevMap
  <2> QED BY <2>1, <2>2, <2>3 DEF Dir
<1> QED BY <1>4, <1>6, <1>7, <1>8, LinkIs DEF I2, J2, hc, dc

LEMMA DrawnSelf == ASSUME NEW w \in Seq(Packets) PROVE Drawn(w, 1 .. Len(w), w, 1 .. Len(w))
<1> DEFINE f == [i \in 1 .. Len(w) |-> i]
<1>1. /\ f \in [1 .. Len(w) -> 1 .. Len(w)] /\ \A i \in 1 .. Len(w) : w[i] = w[f[i]]
      /\ \A i, j \in 1 .. Len(w) : i < j => f[i] <= f[j]
  OBVIOUS
<1>2. 1 .. Len(w) \subseteq Nat
  OBVIOUS
<1> QED BY <1>1, <1>2 DEF Drawn

LEMMA DrawnTail ==
  ASSUME NEW w \in Seq(Packets), w # <<>>
  PROVE  Tail(w) \in Seq(Packets) /\ Drawn(w, 1 .. Len(w), Tail(w), 1 .. Len(Tail(w)))
<1> DEFINE v == Tail(w)
           f == [i \in 1 .. Len(v) |-> i + 1]
<1>1. /\ v \in Seq(Packets) /\ Len(v) = Len(w) - 1 /\ Len(w) \in Nat /\ Len(w) > 0
      /\ \A i \in 1 .. Len(v) : v[i] = w[i + 1]
  OBVIOUS
<1> HIDE DEF v
<1>2. /\ f \in [1 .. Len(v) -> 1 .. Len(w)] /\ \A i \in 1 .. Len(v) : v[i] = w[f[i]]
      /\ \A i, j \in 1 .. Len(v) : i < j => f[i] <= f[j]
  BY <1>1
<1>3. 1 .. Len(w) \subseteq Nat /\ 1 .. Len(v) \subseteq Nat
  BY <1>1
<1> HIDE DEF f
<1> QED BY <1>1, <1>2, <1>3 DEF Drawn, v

LEMMA DrawnTwice ==
  ASSUME NEW w \in Seq(Packets), w # <<>>
  PROVE  LET v == <<Head(w)>> \o w IN
         v \in Seq(Packets) /\ Len(v) = Len(w) + 1 /\ Drawn(w, 1 .. Len(w), v, 1 .. Len(v))
<1> DEFINE v == <<Head(w)>> \o w
           f == [i \in 1 .. Len(v) |-> IF i = 1 THEN 1 ELSE i - 1]
<1>1. /\ v \in Seq(Packets) /\ Len(v) = Len(w) + 1 /\ Len(w) \in Nat /\ Len(w) > 0 /\ v[1] = w[1]
      /\ \A i \in 2 .. Len(v) : v[i] = w[i - 1]
  OBVIOUS
<1> HIDE DEF v
<1>2. f \in [1 .. Len(v) -> 1 .. Len(w)]
  BY <1>1
<1>3. \A i \in 1 .. Len(v) : v[i] = w[f[i]]
  BY <1>1
<1>4. \A i, j \in 1 .. Len(v) : i < j => f[i] <= f[j]
  BY <1>1
<1>5. 1 .. Len(w) \subseteq Nat /\ 1 .. Len(v) \subseteq Nat
  BY <1>1
<1> HIDE DEF f
<1> QED BY <1>1, <1>2, <1>3, <1>4, <1>5 DEF Drawn, v

\* What does not fit on the wire is lost.
LEMMA PutIs ==
  ASSUME NEW P, NEW w \in Seq(P), NEW ps \in Seq(P)
  PROVE  /\ Put(w, ps) \in Seq(P) /\ Len(Put(w, ps)) <= WireMax /\ Len(Put(w, ps)) <= Len(w \o ps)
         /\ \A i \in 1 .. Len(Put(w, ps)) : Put(w, ps)[i] = (w \o ps)[i]
         /\ w \o ps \in Seq(P) /\ Len(w \o ps) \in Nat /\ Len(Put(w, ps)) \in Nat
<1> DEFINE all == w \o ps
           n == Len(w) + Len(ps)
           m == Min({WireMax, n})
<1>1. /\ all \in Seq(P) /\ Len(all) = n /\ n \in Nat
  OBVIOUS
<1>2. WireMax \in Nat
  BY Consts
<1>3. m \in Nat /\ m <= WireMax /\ m <= n
  <2>1. {WireMax, n} \subseteq Nat /\ {WireMax, n} # {}
    BY <1>1, <1>2
  <2> HIDE DEF n
  <2> QED BY <2>1, MinNat
<1>4. Put(w, ps) = SubSeq(all, 1, m)
  BY DEF Put
<1> HIDE DEF m, n, all
<1>5. /\ SubSeq(all, 1, m) \in Seq(P) /\ Len(SubSeq(all, 1, m)) = m
      /\ \A i \in 1 .. m : SubSeq(all, 1, m)[i] = all[i]
  BY <1>1, <1>3
<1> QED BY <1>1, <1>3, <1>4, <1>5 DEF all

LEMMA DrawnPut ==
  ASSUME NEW w \in Seq(Packets), NEW ps \in Seq(Packets)
  PROVE  Drawn(w \o ps, 1 .. Len(w \o ps), Put(w, ps), 1 .. Len(Put(w, ps)))
<1> DEFINE all == w \o ps
           v == Put(w, ps)
           f == [i \in 1 .. Len(v) |-> i]
<1>1. /\ Len(v) \in Nat /\ Len(all) \in Nat /\ Len(v) <= Len(all) /\ \A i \in 1 .. Len(v) : v[i] = all[i]
  BY PutIs
<1> HIDE DEF all, v
<1>2. /\ f \in [1 .. Len(v) -> 1 .. Len(all)] /\ \A i \in 1 .. Len(v) : v[i] = all[f[i]]
      /\ \A i, j \in 1 .. Len(v) : i < j => f[i] <= f[j]
  BY <1>1
<1>3. 1 .. Len(all) \subseteq Nat /\ 1 .. Len(v) \subseteq Nat
  BY <1>1
<1> HIDE DEF f
<1> QED BY <1>1, <1>2, <1>3 DEF Drawn, v, all

\* A new fragment, once the one before is acknowledged.
LEMMA DeviceOffers ==
  ASSUME NEW x, NEW y, Ends(x, y), NEW u \in Seq(Packets), NEW w \in Seq(Packets), LinkOk(x, y, u, w), y.tx = <<>>,
         NEW z, z.S = 1 - y.S, z.E = y.E, z.sent = y.sent + 1, z.rcvd = y.rcvd, z.tx # <<>>
  PROVE  y.sent = Len(x.rcvd) /\ LinkOk(x, z, u, w)
<1> DEFINE I == Fresh(x.joined, x.iv, w)
           J == 1 .. Len(u)
<1>1. /\ \A i \in 1 .. Len(u) : x.joined /\ u[i].t # "syn"
      /\ x.conn => x.S = Bit(x.sent) /\ x.E = 1 - Bit(Len(x.rcvd))
      /\ y.S = Bit(y.sent) /\ y.E = 1 - Bit(Len(y.rcvd))
      /\ Dir(x.sent, Len(y.rcvd), x.cur = <<>>, u, J, w, I)
      /\ Dir(y.sent, Len(x.rcvd), TRUE, w, I, u, J)
  BY LinkIs
<1>2. x.sent \in Nat /\ y.sent \in Nat /\ Len(x.rcvd) \in Nat /\ Len(y.rcvd) \in Nat
  BY DEF Ends
<1> HIDE DEF I, J
<1>3. y.sent = Len(x.rcvd) /\ Dir(y.sent + 1, Len(x.rcvd), FALSE, w, I, u, J)
  BY <1>1, <1>2, DirOffer
<1>4. z.S = Bit(z.sent)
  BY <1>1, <1>2, Bits
<1> QED BY <1>1, <1>3, <1>4, LinkIs DEF I, J

LEMMA HostOffers ==
  ASSUME NEW x, NEW y, Ends(x, y), NEW u \in Seq(Packets), NEW w \in Seq(Packets), LinkOk(x, y, u, w), x.cur = <<>>,
         x.conn, NEW z, z.S = 1 - x.S, z.E = x.E, z.sent = x.sent + 1, z.rcvd = x.rcvd, z.cur # <<>>,
         z.joined = x.joined, z.iv = x.iv
  PROVE  x.sent = Len(y.rcvd) /\ LinkOk(z, y, u, w)
<1> DEFINE I == Fresh(x.joined, x.iv, w)
           J == 1 .. Len(u)
<1>1. /\ \A i \in 1 .. Len(u) : x.joined /\ u[i].t # "syn"
      /\ x.S = Bit(x.sent) /\ x.E = 1 - Bit(Len(x.rcvd))
      /\ y.S = Bit(y.sent) /\ y.E = 1 - Bit(Len(y.rcvd))
      /\ Dir(x.sent, Len(y.rcvd), TRUE, u, J, w, I)
      /\ Dir(y.sent, Len(x.rcvd), y.tx = <<>>, w, I, u, J)
  BY LinkIs
<1>2. x.sent \in Nat /\ y.sent \in Nat /\ Len(x.rcvd) \in Nat /\ Len(y.rcvd) \in Nat
  BY DEF Ends
<1> HIDE DEF I, J
<1>3. x.sent = Len(y.rcvd) /\ Dir(x.sent + 1, Len(y.rcvd), FALSE, u, J, w, I)
  BY <1>1, <1>2, DirOffer
<1>4. z.S = Bit(z.sent)
  BY <1>1, <1>2, Bits
<1> QED BY <1>1, <1>3, <1>4, LinkIs DEF I, J

\* The first packet acknowledges the fragment under way.
LEMMA DeviceAcked ==
  ASSUME NEW x, NEW y, Ends(x, y), NEW u \in Seq(Packets), NEW w \in Seq(Packets), LinkOk(x, y, u, w), u # <<>>,
         u[1].e = 1 - y.S, NEW z, z.S = y.S, z.E = y.E, z.sent = y.sent, z.rcvd = y.rcvd, z.tx = <<>>
  PROVE  LinkOk(x, z, u, w)
<1> DEFINE I == Fresh(x.joined, x.iv, w)
           J == 1 .. Len(u)
           dc == y.tx = <<>>
<1>1. /\ \A i \in 1 .. Len(u) : x.joined /\ u[i].t # "syn"
      /\ x.conn => x.S = Bit(x.sent) /\ x.E = 1 - Bit(Len(x.rcvd))
      /\ y.S = Bit(y.sent) /\ y.E = 1 - Bit(Len(y.rcvd))
      /\ Dir(x.sent, Len(y.rcvd), x.cur = <<>>, u, J, w, I)
      /\ Dir(y.sent, Len(x.rcvd), dc, w, I, u, J)
  BY LinkIs
<1>2. /\ dc \in BOOLEAN /\ x.sent \in Nat /\ y.sent \in Nat /\ Len(x.rcvd) \in Nat /\ Len(y.rcvd) \in Nat
      /\ J \subseteq Nat /\ 1 \in J /\ \A j \in J : 1 <= j
  BY DEF Ends
<1>3. u[1].e = 1 - Bit(y.sent)
  BY <1>1
<1>4. Dir(y.sent, Len(x.rcvd), dc, w, I, u, J)
  BY <1>1
<1> HIDE DEF I, J, dc
<1>5. Dir(y.sent, Len(x.rcvd), TRUE, w, I, u, J)
  BY <1>2, <1>3, <1>4, DirAcked
<1> QED BY <1>1, <1>5, LinkIs DEF I, J

LEMMA HostAcked ==
  ASSUME NEW x, NEW y, Ends(x, y), NEW u \in Seq(Packets), NEW w \in Seq(Packets), LinkOk(x, y, u, w), w # <<>>,
         x.conn, x.joined, w[1].e = 1 - x.S,
         NEW z, z.S = x.S, z.E = x.E, z.sent = x.sent, z.rcvd = x.rcvd, z.cur = <<>>,
         z.joined = x.joined, z.iv = x.iv
  PROVE  LinkOk(z, y, u, w)
<1> DEFINE I == Fresh(x.joined, x.iv, w)
           J == 1 .. Len(u)
           hc == x.cur = <<>>
<1>1. /\ \A i \in 1 .. Len(u) : x.joined /\ u[i].t # "syn"
      /\ x.S = Bit(x.sent) /\ x.E = 1 - Bit(Len(x.rcvd))
      /\ y.S = Bit(y.sent) /\ y.E = 1 - Bit(Len(y.rcvd))
      /\ Dir(x.sent, Len(y.rcvd), hc, u, J, w, I)
      /\ Dir(y.sent, Len(x.rcvd), y.tx = <<>>, w, I, u, J)
  BY LinkIs
<1>2. /\ hc \in BOOLEAN /\ x.sent \in Nat /\ y.sent \in Nat /\ Len(x.rcvd) \in Nat /\ Len(y.rcvd) \in Nat
  BY DEF Ends
<1>6. I \subseteq Nat /\ 1 \in I /\ \A j \in I : 1 <= j
  BY FreshAll
<1>3. w[1].e = 1 - Bit(x.sent)
  BY <1>1
<1>4. Dir(x.sent, Len(y.rcvd), hc, u, J, w, I)
  BY <1>1
<1> HIDE DEF I, J, hc
<1>5. Dir(x.sent, Len(y.rcvd), TRUE, u, J, w, I)
  BY <1>2, <1>3, <1>4, <1>6, DirAcked
<1> QED BY <1>1, <1>5, LinkIs DEF I, J

\* The first packet brings the next fragment.
LEMMA DeviceTakes ==
  ASSUME NEW x, NEW y, Ends(x, y), NEW u \in Seq(Packets), NEW w \in Seq(Packets), LinkOk(x, y, u, w), u # <<>>,
         u[1].t = "data", u[1].s = y.E,
         NEW z, z.S = y.S, z.E = 1 - y.E, z.sent = y.sent, z.rcvd = Append(y.rcvd, u[1].n), z.tx = y.tx
  PROVE  u[1].n = Len(y.rcvd) + 1 /\ x.sent = Len(y.rcvd) + 1 /\ LinkOk(x, z, u, w)
<1> DEFINE I == Fresh(x.joined, x.iv, w)
           J == 1 .. Len(u)
           hc == x.cur = <<>>
<1>1. /\ \A i \in 1 .. Len(u) : x.joined /\ u[i].t # "syn"
      /\ x.conn => x.S = Bit(x.sent) /\ x.E = 1 - Bit(Len(x.rcvd))
      /\ y.S = Bit(y.sent) /\ y.E = 1 - Bit(Len(y.rcvd))
      /\ Dir(x.sent, Len(y.rcvd), hc, u, J, w, I)
      /\ Dir(y.sent, Len(x.rcvd), y.tx = <<>>, w, I, u, J)
  BY LinkIs
<1>2. /\ hc \in BOOLEAN /\ x.sent \in Nat /\ y.sent \in Nat /\ Len(x.rcvd) \in Nat /\ Len(y.rcvd) \in Nat
      /\ J \subseteq Nat /\ 1 \in J /\ \A j \in J : 1 <= j
  BY DEF Ends
<1>3. u[1].s = 1 - Bit(Len(y.rcvd)) /\ u[1].t = "data"
  BY <1>1
<1>4. Dir(x.sent, Len(y.rcvd), hc, u, J, w, I)
  BY <1>1
<1> HIDE DEF I, J, hc
<1>5. u[1].n = Len(y.rcvd) + 1 /\ x.sent = Len(y.rcvd) + 1 /\ Dir(x.sent, Len(y.rcvd) + 1, hc, u, J, w, I)
  <2>1. Brings(u, J, Len(y.rcvd), 1)
    BY <1>2, <1>3 DEF Brings
  <2> QED BY <1>2, <1>4, <2>1, DirTake
<1>6. Len(z.rcvd) = Len(y.rcvd) + 1
  BY DEF Ends
<1>7. z.E = 1 - Bit(Len(z.rcvd))
  BY <1>1, <1>2, <1>6, Bits
<1> QED BY <1>1, <1>5, <1>6, <1>7, LinkIs DEF I, J, hc

LEMMA HostTakes ==
  ASSUME NEW x, NEW y, Ends(x, y), NEW u \in Seq(Packets), NEW w \in Seq(Packets), LinkOk(x, y, u, w), w # <<>>,
         x.conn, x.joined, w[1].t = "data", w[1].s = x.E,
         NEW z, z.S = x.S, z.E = 1 - x.E, z.sent = x.sent, z.rcvd = Append(x.rcvd, w[1].n), z.cur = x.cur,
         z.joined = x.joined, z.iv = x.iv
  PROVE  w[1].n = Len(x.rcvd) + 1 /\ y.sent = Len(x.rcvd) + 1 /\ LinkOk(z, y, u, w)
<1> DEFINE I == Fresh(x.joined, x.iv, w)
           J == 1 .. Len(u)
           dc == y.tx = <<>>
<1>1. /\ \A i \in 1 .. Len(u) : x.joined /\ u[i].t # "syn"
      /\ x.S = Bit(x.sent) /\ x.E = 1 - Bit(Len(x.rcvd))
      /\ y.S = Bit(y.sent) /\ y.E = 1 - Bit(Len(y.rcvd))
      /\ Dir(x.sent, Len(y.rcvd), x.cur = <<>>, u, J, w, I)
      /\ Dir(y.sent, Len(x.rcvd), dc, w, I, u, J)
  BY LinkIs
<1>2. /\ dc \in BOOLEAN /\ x.sent \in Nat /\ y.sent \in Nat /\ Len(x.rcvd) \in Nat /\ Len(y.rcvd) \in Nat
  BY DEF Ends
<1>8. I \subseteq Nat /\ 1 \in I /\ \A j \in I : 1 <= j
  BY FreshAll
<1>3. w[1].s = 1 - Bit(Len(x.rcvd)) /\ w[1].t = "data"
  BY <1>1
<1>4. Dir(y.sent, Len(x.rcvd), dc, w, I, u, J)
  BY <1>1
<1> HIDE DEF I, J, dc
<1>5. w[1].n = Len(x.rcvd) + 1 /\ y.sent = Len(x.rcvd) + 1 /\ Dir(y.sent, Len(x.rcvd) + 1, dc, w, I, u, J)
  <2>1. Brings(w, I, Len(x.rcvd), 1)
    BY <1>3, <1>8 DEF Brings
  <2> QED BY <1>2, <1>4, <2>1, DirTake
<1>6. Len(z.rcvd) = Len(x.rcvd) + 1
  BY DEF Ends
<1>7. z.E = 1 - Bit(Len(z.rcvd))
  BY <1>1, <1>2, <1>6, Bits
<1> QED BY <1>1, <1>5, <1>6, <1>7, LinkIs DEF I, J, dc

-----------------------------------------------------------------------------
(* What a handler of the device does to a session.                         *)

Told(y) == \A i \in 1 .. Len(y.out) : y.out[i].t = "ack" => y.out[i].iv = y.iv
DeviceMoves(x, y, z) ==
  /\ z.sent = y.sent \/ (z.sent = y.sent + 1 /\ y.sent = Len(x.rcvd))
  /\ z.rcvd = y.rcvd \/ (z.rcvd = Append(y.rcvd, Len(y.rcvd) + 1) /\ x.sent = Len(y.rcvd) + 1)
Staged(x, y, u, w) == LinkOk(x, y, u, w \o y.out)

LEMMA Telling ==
  ASSUME NEW x, DevOk(x), Told(x), NEW y, DevOk(y),
         Acking(x, y) \/ Repeating(x, y) \/ Offering(x, y) \/ Silent(x, y) \/ Leaving(x, y)
  PROVE  Told(y) /\ y.iv = x.iv
<1>1. x.out \in Seq(Acks \cup Datas) /\ y.iv = x.iv
  BY DEF DevOk, Server, Acking, Repeating, Offering, Silent, Leaving, Same
<1>2. y.out = x.out \/ \E p \in Acks \cup Datas : y.out = Append(x.out, p) /\ (p.t = "ack" => p.iv = x.iv)
  <2>1. \A p \in Datas : p.t = "data"
    BY DEF Datas
  <2> QED BY <2>1 DEF Acking, Repeating, Offering, Silent, Leaving, Says
<1>3. CASE y.out = x.out
  BY <1>1, <1>3 DEF Told
<1>4. ASSUME NEW p \in Acks \cup Datas, y.out = Append(x.out, p), p.t = "ack" => p.iv = x.iv
      PROVE  Told(y)
  BY <1>1, <1>4 DEF Told
<1> QED BY <1>1, <1>2, <1>3, <1>4

LEMMA WireType ==
  ASSUME NEW y, DevOk(y), NEW w \in Seq(Acks \cup Datas)
  PROVE  /\ y.out \in Seq(Acks \cup Datas) /\ w \o y.out \in Seq(Acks \cup Datas) /\ w \o y.out \in Seq(Packets)
         /\ w \in Seq(Packets) /\ \A p \in Packets : w \o Append(y.out, p) = Append(w \o y.out, p)
<1>1. y.out \in Seq(Acks \cup Datas)
  BY DEF DevOk, Server
<1>2. w \o y.out \in Seq(Acks \cup Datas)
  BY <1>1
<1>3. Acks \cup Datas \subseteq Packets
  BY DEF Packets
<1>4. w \o y.out \in Seq(Packets) /\ w \in Seq(Packets)
  BY <1>2, <1>3
<1>5. y.out \in Seq(Packets)
  BY <1>1, <1>3
<1> HIDE DEF Packets
<1>6. \A p \in Packets : w \o Append(y.out, p) = Append(w \o y.out, p)
  BY <1>4, <1>5
<1> QED BY <1>1, <1>2, <1>4, <1>6

LEMMA StageSays ==
  ASSUME NEW x, NEW y, DevOk(y), NEW z, DevOk(z), Ends(x, y), Ends(x, z), NEW u \in Seq(Packets),
         NEW w \in Seq(Acks \cup Datas), LinkOk(x, z, u, w \o y.out),
         NEW p \in Acks \cup Datas, p.e = z.E, p.t = "data" => p.n = z.sent /\ p.s = z.S, Says(y, z, p)
  PROVE  Staged(x, z, u, w)
<1>1. p \in Packets /\ w \o y.out \in Seq(Packets) /\ w \o Append(y.out, p) = Append(w \o y.out, p)
  BY WireType DEF Packets
<1>2. CASE z.out = y.out
  BY <1>2 DEF Staged
<1>3. CASE z.out = Append(y.out, p)
  <2>1. LinkOk(x, z, u, Append(w \o y.out, p))
    BY <1>1, LinkDown
  <2> QED BY <1>1, <1>3, <2>1 DEF Staged
<1> QED BY <1>2, <1>3 DEF Says

LEMMA StageSame ==
  ASSUME NEW x, NEW y, DevOk(y), NEW z, DevOk(z), Ends(x, y), Ends(x, z), NEW u \in Seq(Packets),
         NEW w \in Seq(Acks \cup Datas), Staged(x, y, u, w),
         Acking(y, z) \/ Repeating(y, z) \/ Silent(y, z)
  PROVE  Staged(x, z, u, w) /\ DeviceMoves(x, y, z) /\ z.conn = y.conn /\ z.tx = y.tx
<1>1. Same(y, z)
  BY DEF Acking, Repeating, Silent
<1>2. LinkOk(x, z, u, w \o y.out)
  BY <1>1, LinkDevice DEF Staged, Same
<1>6. DeviceMoves(x, y, z) /\ z.conn = y.conn /\ z.tx = y.tx
  BY <1>1 DEF DeviceMoves, Same
<1>3. CASE Silent(y, z)
  BY <1>2, <1>3, <1>6 DEF Staged, Silent
<1>4. CASE Acking(y, z)
  <2>1. PICK p \in Acks : p.s = y.S /\ p.e = y.E /\ p.iv = y.iv /\ Says(y, z, p)
    BY <1>4 DEF Acking
  <2>2. p.t = "ack" /\ p.e = z.E /\ p \in Acks \cup Datas
    BY <1>1, <2>1 DEF Acks, Same
  <2> QED BY <1>2, <1>6, <2>1, <2>2, StageSays
<1>5. CASE Repeating(y, z)
  <2>1. PICK p \in Datas : p.s = y.S /\ p.e = y.E /\ p.n = y.sent /\ Says(y, z, p)
    BY <1>5 DEF Repeating
  <2>2. p.e = z.E /\ p.n = z.sent /\ p.s = z.S /\ p \in Acks \cup Datas
    BY <1>1, <2>1 DEF Same
  <2> QED BY <1>2, <1>6, <2>1, <2>2, StageSays
<1> QED BY <1>3, <1>4, <1>5, <1>6

LEMMA StageOffer ==
  ASSUME NEW x, NEW y, DevOk(y), NEW z, DevOk(z), Ends(x, y), Ends(x, z), NEW u \in Seq(Packets),
         NEW w \in Seq(Acks \cup Datas), Staged(x, y, u, w), Offering(y, z), y.tx = <<>>
  PROVE  Staged(x, z, u, w) /\ z.sent = y.sent + 1 /\ y.sent = Len(x.rcvd) /\ z.rcvd = y.rcvd /\ z.conn = y.conn
<1>1. w \o y.out \in Seq(Packets)
  BY WireType
<1>2. /\ z.conn = y.conn /\ z.E = y.E /\ z.iv = y.iv /\ z.rcvd = y.rcvd
      /\ z.S = 1 - y.S /\ z.sent = y.sent + 1 /\ z.tx # <<>>
  BY DEF Offering
<1>3. y.sent = Len(x.rcvd) /\ LinkOk(x, z, u, w \o y.out)
  BY <1>1, <1>2, DeviceOffers DEF Staged
<1>4. PICK p \in Datas : p.s = z.S /\ p.e = z.E /\ p.n = z.sent /\ Says(y, z, p)
  BY DEF Offering
<1>5. p \in Acks \cup Datas
  OBVIOUS
<1>6. Staged(x, z, u, w)
  BY <1>3, <1>4, <1>5, StageSays
<1> QED BY <1>2, <1>3, <1>6

LEMMA StageAnswer ==
  ASSUME NEW x, NEW y, DevOk(y), NEW z, DevOk(z), Ends(x, y), Ends(x, z), NEW u \in Seq(Packets), u # <<>>,
         u[1].e \in 0 .. 1, NEW w \in Seq(Acks \cup Datas), Staged(x, y, u, w), Answering(y, u[1], z)
  PROVE  /\ Staged(x, z, u, w) /\ z.rcvd = y.rcvd /\ z.conn = y.conn
         /\ z.sent = y.sent \/ (z.sent = y.sent + 1 /\ y.sent = Len(x.rcvd))
<1> DEFINE a == Idle(y)
<1>1. /\ y \in Server /\ a.tx = <<>> /\ a.conn = y.conn /\ a.S = y.S /\ a.E = y.E /\ a.iv = y.iv /\ a.sent = y.sent
      /\ a.rcvd = y.rcvd /\ a.out = y.out
  BY IdleIs DEF DevOk
<1>2. w \o y.out \in Seq(Packets)
  BY WireType
<1>3. CASE Silent(y, z)
  BY <1>3, StageSame DEF DeviceMoves, Silent, Same
<1>4. CASE y.tx = <<>> \/ PeerAccepted(y, u[1])
  <2>1. LinkOk(x, a, u, w \o y.out)
    <3>1. CASE y.tx = <<>>
      BY <1>1, <3>1, LinkDevice DEF Staged
    <3>2. CASE PeerAccepted(y, u[1])
      <4>1. u[1].e = 1 - y.S
        BY <3>2 DEF PeerAccepted, Ends
      <4> QED BY <1>1, <1>2, <4>1, DeviceAcked DEF Staged
    <3> QED BY <1>4, <3>1, <3>2
  <2>2. DevOk(a) /\ Ends(x, a) /\ Staged(x, a, u, w)
    <3>1. a \in Server
      <4>1. <<>> \in Seq(Frags)
        OBVIOUS
      <4> QED BY <1>1, <4>1 DEF Idle, Server
    <3>2. a.est = y.est /\ a.ch = y.ch /\ a.overrun = y.overrun
      BY <1>1 DEF Idle, Server
    <3>3. DevOk(a)
      BY <3>1, <3>2 DEF DevOk, EstOk
    <3> QED BY <1>1, <2>1, <3>3 DEF Ends, Staged
  <2>3. CASE Acking(a, z)
    <3>1. Staged(x, z, u, w) /\ z.sent = a.sent /\ z.rcvd = a.rcvd /\ z.conn = a.conn
      BY <2>2, <2>3, StageSame DEF Acking, Same
    <3> QED BY <1>1, <3>1
  <2>4. CASE Offering(y, z)
    <3>1. Offering(a, z)
      BY <1>1, <2>4 DEF Offering, Says
    <3>2. Staged(x, z, u, w) /\ z.sent = a.sent + 1 /\ a.sent = Len(x.rcvd) /\ z.rcvd = a.rcvd /\ z.conn = a.conn
      BY <1>1, <2>2, <3>1, StageOffer
    <3> QED BY <1>1, <3>2
  <2>5. CASE Silent(y, z)
    BY <1>3, <2>5
  <2> QED BY <2>3, <2>4, <2>5 DEF Answering
<1> QED BY <1>3, <1>4 DEF Answering

Evolves(x, y, u, w, z) ==
  /\ z.iv = y.iv /\ Told(z) /\ (z.conn => y.conn)
  /\ z.conn /\ Staged(x, y, u, w) => Staged(x, z, u, w) /\ DeviceMoves(x, y, z)

LEMMA EndsOf == ASSUME NEW x, HostOk(x), NEW y, DevOk(y) PROVE Ends(x, y)
<1>1. x.sent \in Nat /\ x.rcvd \in Seq(Nat) /\ x.S \in 0 .. 1 /\ x.E \in 0 .. 1
  BY DEF HostOk, Host
<1>2. y.sent \in Nat /\ y.rcvd \in Seq(Nat) /\ y.S \in 0 .. 1 /\ y.E \in 0 .. 1
  BY DEF DevOk, Server
<1> QED BY <1>1, <1>2 DEF Ends

LEMMA SameEvolves ==
  ASSUME NEW x, HostOk(x), NEW y, DevOk(y), Told(y), NEW u \in Seq(Packets), NEW w \in Seq(Acks \cup Datas),
         NEW z, DevOk(z), Acking(y, z) \/ Repeating(y, z) \/ Silent(y, z)
  PROVE  Evolves(x, y, u, w, z)
<1>1. Told(z) /\ z.iv = y.iv
  BY Telling
<1>2. z.conn = y.conn
  BY DEF Acking, Repeating, Silent, Same
<1>3. Ends(x, y) /\ Ends(x, z)
  BY EndsOf
<1>4. Staged(x, y, u, w) => Staged(x, z, u, w) /\ DeviceMoves(x, y, z)
  BY <1>3, StageSame
<1> QED BY <1>1, <1>2, <1>4 DEF Evolves

LEMMA LeaveEvolves ==
  ASSUME NEW x, NEW y, DevOk(y), Told(y), NEW u, NEW w, NEW z, DevOk(z), Leaving(y, z)
  PROVE  Evolves(x, y, u, w, z)
<1>1. Told(z) /\ z.iv = y.iv
  BY Telling
<1> QED BY <1>1 DEF Evolves, Leaving

LEMMA AnswerTells ==
  ASSUME NEW y, DevOk(y), Told(y), NEW p, NEW z, DevOk(z), Answering(y, p, z)
  PROVE  Told(z) /\ z.iv = y.iv /\ z.conn = y.conn
<1>1. Acking(Idle(y), z) => Acking(Idle(y), z) /\ Same(Idle(y), z) /\ z.conn = y.conn /\ z.iv = y.iv
  BY IdleIs DEF Acking, Same, DevOk
<1>2. CASE Silent(y, z) \/ Offering(y, z)
  BY <1>2, Telling DEF Silent, Same, Offering
<1>3. CASE Acking(Idle(y), z)
  <2>1. Idle(y).out = y.out /\ Idle(y).iv = y.iv /\ y.out \in Seq(Acks \cup Datas)
    BY IdleIs DEF DevOk, Server
  <2>2. PICK p2 \in Acks : p2.iv = y.iv /\ (z.out = y.out \/ z.out = Append(y.out, p2))
    BY <1>3, <2>1 DEF Acking, Says
  <2>3. Told(z)
    BY <1>1, <1>3, <2>1, <2>2 DEF Told
  <2> QED BY <1>1, <1>3, <2>3
<1> QED BY <1>2, <1>3 DEF Answering

LEMMA RxEvolves ==
  ASSUME NEW x, HostOk(x), NEW y, DevOk(y), Told(y), NEW u \in Seq(Packets), u # <<>>, u[1].t # "syn",
         NEW w \in Seq(Acks \cup Datas), NEW starved \in BOOLEAN
  PROVE  LET z == vllp_rx(y, u[1], starved) IN DevOk(z) /\ Evolves(x, y, u, w, z)
<1> DEFINE z == vllp_rx(y, u[1], starved)
           p == u[1]
<1>1. p \in Packets /\ p \in Syns \cup Acks \cup Datas
  BY DEF Packets
<1>2. p.e \in 0 .. 1
  BY <1>1 DEF Packets, Syns, Acks, Datas
<1>3. /\ DevOk(z)
      /\ \/ Silent(y, z)
         \/ /\ y.conn /\ (p.t = "ack" => p.iv = y.iv)
            /\ \/ Answering(y, p, z) \/ Leaving(y, z)
               \/ p.t = "data" /\ \E v : DevOk(v) /\ Taking(y, p, v) /\ Answering(v, p, z)
  BY <1>1, RxOk
<1>4. Ends(x, y) /\ Ends(x, z)
  BY <1>3, EndsOf
<1> HIDE DEF z
<1>5. CASE Silent(y, z)
  BY <1>3, <1>5, SameEvolves DEF z
<1>6. CASE Leaving(y, z)
  BY <1>3, <1>6, LeaveEvolves DEF z
<1>7. CASE Answering(y, p, z)
  <2>1. Told(z) /\ z.iv = y.iv /\ z.conn = y.conn
    BY <1>3, <1>7, AnswerTells
  <2>2. ASSUME Staged(x, y, u, w) PROVE Staged(x, z, u, w) /\ DeviceMoves(x, y, z)
    <3>1. /\ Staged(x, z, u, w) /\ z.rcvd = y.rcvd /\ z.conn = y.conn
          /\ z.sent = y.sent \/ (z.sent = y.sent + 1 /\ y.sent = Len(x.rcvd))
      BY <1>2, <1>3, <1>4, <1>7, <2>2, StageAnswer
    <3> QED BY <3>1 DEF DeviceMoves
  <2> QED BY <1>3, <2>1, <2>2 DEF Evolves, z
<1>8. ASSUME p.t = "data", NEW v, DevOk(v), Taking(y, p, v), Answering(v, p, z)
      PROVE  Evolves(x, y, u, w, z)
  <2>0. /\ v.E = 1 - y.E /\ v.rcvd = Append(y.rcvd, p.n) /\ p.s = y.E /\ v.conn = y.conn /\ v.S = y.S
        /\ v.iv = y.iv /\ v.tx = y.tx /\ v.sent = y.sent /\ v.out = y.out
    BY <1>8 DEF Taking, WeCanAccept
  <2>1. Told(v)
    BY <2>0 DEF Told
  <2>2. Told(z) /\ z.iv = v.iv /\ z.conn = v.conn
    BY <1>3, <1>8, <2>1, AnswerTells
  <2>3. ASSUME Staged(x, y, u, w) PROVE Staged(x, z, u, w) /\ DeviceMoves(x, y, z)
    <3>1. w \o y.out \in Seq(Packets)
      BY WireType
    <3>2. p.n = Len(y.rcvd) + 1 /\ x.sent = Len(y.rcvd) + 1 /\ LinkOk(x, v, u, w \o y.out)
      BY <1>4, <1>8, <2>0, <2>3, <3>1, DeviceTakes DEF Staged
    <3>3. Staged(x, v, u, w)
      BY <2>0, <3>2 DEF Staged
    <3>4. Ends(x, v)
      BY <1>8, EndsOf
    <3>5. /\ Staged(x, z, u, w) /\ z.rcvd = v.rcvd
          /\ z.sent = v.sent \/ (z.sent = v.sent + 1 /\ v.sent = Len(x.rcvd))
      BY <1>2, <1>3, <1>4, <1>8, <3>3, <3>4, StageAnswer
    <3> QED BY <2>0, <3>2, <3>5 DEF DeviceMoves
  <2> QED BY <2>0, <2>2, <2>3 DEF Evolves
<1> QED BY <1>3, <1>5, <1>6, <1>7, <1>8 DEF z

LEMMA TaskEvolves ==
  ASSUME NEW x, HostOk(x), NEW y, DevOk(y), Told(y), NEW u \in Seq(Packets), NEW w \in Seq(Acks \cup Datas),
         NEW i \in Slots, NEW starved \in BOOLEAN
  PROVE  LET z == TaskCb(y, i, starved) IN DevOk(z) /\ Evolves(x, y, u, w, z)
<1> DEFINE z == TaskCb(y, i, starved)
<1>1. DevOk(z) /\ Working(y, z)
  BY TaskOk
<1> HIDE DEF z
<1>2. PICK v : /\ DevOk(v) /\ Acking(y, v)
               /\ Silent(v, z) \/ (y.tx = <<>> /\ (Acking(v, z) \/ Offering(v, z)))
  BY <1>1 DEF Working
<1>3. Evolves(x, y, u, w, v) /\ Same(y, v)
  BY <1>2, SameEvolves DEF Acking
<1>4. Told(v)
  BY <1>3 DEF Evolves
<1>5. CASE Silent(v, z) \/ Acking(v, z)
  <2>1. Evolves(x, v, u, w, z) /\ Same(v, z)
    BY <1>1, <1>2, <1>4, <1>5, SameEvolves DEF Silent, Acking
  <2> QED BY <1>1, <1>3, <2>1 DEF Evolves, DeviceMoves, Same, z
<1>6. CASE y.tx = <<>> /\ Offering(v, z)
  <2>1. Told(z) /\ z.iv = v.iv /\ z.conn = v.conn
    BY <1>1, <1>2, <1>4, <1>6, Telling DEF Offering
  <2>2. Ends(x, v) /\ Ends(x, z)
    BY <1>1, <1>2, EndsOf
  <2>3. v.tx = <<>>
    BY <1>3, <1>6 DEF Same
  <2>4. Staged(x, v, u, w) =>
          Staged(x, z, u, w) /\ z.sent = v.sent + 1 /\ v.sent = Len(x.rcvd) /\ z.rcvd = v.rcvd
    BY <1>1, <1>2, <1>6, <2>2, <2>3, StageOffer
  <2> QED BY <1>1, <1>3, <2>1, <2>4 DEF Evolves, DeviceMoves, Same, z
<1> QED BY <1>2, <1>5, <1>6

-----------------------------------------------------------------------------
(* Steps of the device and of the wires.                                   *)

DeviceGoesOn == h' = h /\ (InSession' => InSession /\ DeviceMoves(h, d, d'))

LEMMA TypeFacts ==
  ASSUME TypesOk
  PROVE  /\ up \in Seq(Packets) /\ down \in Seq(Packets) /\ down \in Seq(Acks \cup Datas)
         /\ Len(up) <= WireMax /\ Len(down) <= WireMax /\ Len(up) \in Nat /\ Len(down) \in Nat
         /\ DevOk(d) /\ d.out = <<>> /\ HostOk(h) /\ PhaseOk(h) /\ Told(d) /\ down \o d.out = down
         /\ \A i \in 1 .. Len(up) : up[i] \in Packets
         /\ \A i \in 1 .. Len(down) : down[i] \in Acks \cup Datas
<1>1. Acks \cup Datas \subseteq Packets
  BY DEF Packets
<1>2. up \in Seq(Packets) /\ down \in Seq(Acks \cup Datas) /\ d.out = <<>>
  BY DEF TypesOk, Packets
<1>3. down \in Seq(Packets)
  BY <1>1, <1>2
<1>4. Told(d) /\ down \o d.out = down
  BY <1>2 DEF Told
<1> QED BY <1>2, <1>3, <1>4 DEF TypesOk

LEMMA DrawnFrom ==
  ASSUME NEW w, NEW v, Drawn(w, 1 .. Len(w), v, 1 .. Len(v)), NEW i \in 1 .. Len(v)
  PROVE  \E k \in 1 .. Len(w) : v[i] = w[k]
  BY DEF Drawn

LEMMA CookiesKept ==
  ASSUME IInv, NEW z, DevOk(z), Told(z), h' = h, d'.iv = z.iv, Num(z.iv) <= Num(h.iv),
         \A i \in 1 .. Len(up') : IsSyn(up'[i], h.iv) => z.iv # h.iv,
         Drawn(up, 1 .. Len(up), up', 1 .. Len(up')), \A i \in 1 .. Len(up') : IsSyn(up'[i], h.iv) => i = Len(up'),
         Drawn(down \o z.out, 1 .. Len(down \o z.out), down', 1 .. Len(down'))
  PROVE  CookiesOk'
<1>0. TypesOk /\ CookiesOk
  BY DEF IInv
<1>1. Num(d'.iv) <= Num(h'.iv)
  OBVIOUS
<1>2. \A i \in 1 .. Len(up') : \E k \in 1 .. Len(up) : up'[i] = up[k]
  BY DrawnFrom
<1>3. ASSUME NEW i \in 1 .. Len(down')
      PROVE  (\E k \in 1 .. Len(down) : down'[i] = down[k]) \/ (down'[i].t = "ack" => down'[i].iv = z.iv)
  <2>1. PICK k \in 1 .. Len(down \o z.out) : down'[i] = (down \o z.out)[k]
    <3> DEFINE v == down \o z.out
    <3>1. Drawn(v, 1 .. Len(v), down', 1 .. Len(down'))
      OBVIOUS
    <3> HIDE DEF v
    <3>2. \E k \in 1 .. Len(v) : down'[i] = v[k]
      BY <3>1, DrawnFrom
    <3> QED BY <3>2 DEF v
  <2>2. down \in Seq(Packets) /\ z.out \in Seq(Acks \cup Datas)
    BY <1>0, TypeFacts, WireType
  <2>3. CASE k \in 1 .. Len(down)
    <3>1. (down \o z.out)[k] = down[k]
      BY <2>2, <2>3
    <3> QED BY <2>1, <2>3, <3>1
  <2>4. CASE k \notin 1 .. Len(down)
    <3>1. k - Len(down) \in 1 .. Len(z.out) /\ (down \o z.out)[k] = z.out[k - Len(down)]
      BY <2>2, <2>4
    <3> QED BY <2>1, <3>1 DEF Told
  <2> QED BY <2>3, <2>4
<1>4. \A i \in 1 .. Len(up') : up'[i].t = "syn" => Num(up'[i].iv) <= Num(h'.iv)
  BY <1>0, <1>2 DEF CookiesOk
<1>5. \A i \in 1 .. Len(down') : down'[i].t = "ack" => Num(down'[i].iv) <= Num(h'.iv)
  <2> SUFFICES ASSUME NEW i \in 1 .. Len(down'), down'[i].t = "ack" PROVE Num(down'[i].iv) <= Num(h.iv)
    OBVIOUS
  <2>1. CASE \E k \in 1 .. Len(down) : down'[i] = down[k]
    BY <1>0, <2>1 DEF CookiesOk
  <2>2. CASE down'[i].iv = z.iv
    BY <2>2
  <2> QED BY <1>3, <2>1, <2>2
<1>6. ASSUME NEW i \in 1 .. Len(up'), IsSyn(up'[i], h'.iv)
      PROVE  /\ i = Len(up') /\ d'.iv # h'.iv /\ ~h'.joined
             /\ \A j \in 1 .. Len(down') : ~IsAck(down'[j], h'.iv)
  <2>1. PICK k \in 1 .. Len(up) : up'[i] = up[k]
    BY <1>2
  <2>2. z.iv # h.iv /\ ~h.joined /\ \A j \in 1 .. Len(down) : ~IsAck(down[j], h.iv)
    BY <1>0, <1>6, <2>1 DEF CookiesOk
  <2>3. ASSUME NEW j \in 1 .. Len(down') PROVE ~IsAck(down'[j], h.iv)
    <3>1. CASE \E m \in 1 .. Len(down) : down'[j] = down[m]
      BY <2>2, <3>1
    <3>2. CASE down'[j].t = "ack" => down'[j].iv = z.iv
      BY <2>2, <3>2 DEF IsAck
    <3> QED BY <1>3, <3>1, <3>2
  <2> QED BY <1>6, <2>2, <2>3
<1> QED BY <1>1, <1>4, <1>5, <1>6 DEF CookiesOk

LEMMA DeviceKeeps ==
  ASSUME IInv, NEW z, DevOk(z), Evolves(h, d, up, down, z), h' = h, DevOk(d'), d'.out = <<>>, Same(z, d'),
         up' \in Seq(Packets), Len(up') <= WireMax, Drawn(up, 1 .. Len(up), up', 1 .. Len(up')),
         \A i \in 1 .. Len(up') : IsSyn(up'[i], h.iv) => i = Len(up'),
         down' \in Seq(Acks \cup Datas), Len(down') <= WireMax,
         Drawn(down \o z.out, 1 .. Len(down \o z.out), down', 1 .. Len(down')),
         faults' \in Nat, traffic' \in Nat
  PROVE  IInv' /\ DeviceGoesOn
<1>1. TypesOk /\ SessionOk
  BY DEF IInv
<1>2. /\ up \in Seq(Packets) /\ down \in Seq(Acks \cup Datas) /\ HostOk(h) /\ PhaseOk(h) /\ DevOk(d)
      /\ down \o d.out = down
  BY <1>1, TypeFacts
<1>3. TypesOk'
  BY <1>2 DEF TypesOk, Packets
<1>4. Told(z) /\ z.iv = d.iv /\ d'.iv = d.iv /\ (d'.conn => d.conn /\ z.conn)
  BY DEF Evolves, Same
<1>5. CookiesOk'
  <2>1. Num(z.iv) <= Num(h.iv) /\ \A i \in 1 .. Len(up) : IsSyn(up[i], h.iv) => z.iv # h.iv
    BY <1>4 DEF IInv, CookiesOk
  <2>2. \A i \in 1 .. Len(up') : IsSyn(up'[i], h.iv) => z.iv # h.iv
    BY <2>1, DrawnFrom
  <2> QED BY <1>4, <2>1, <2>2, CookiesKept
<1>6. ASSUME InSession' PROVE InSession /\ DeviceMoves(h, d, d') /\ LinkOk(h, d', up', down')
  <2>1. InSession /\ z.conn
    BY <1>4, <1>6 DEF InSession, SameSession
  <2>2. Staged(h, d, up, down)
    BY <1>1, <1>2, <2>1 DEF SessionOk, Staged
  <2>3. Staged(h, z, up, down) /\ DeviceMoves(h, d, z)
    BY <2>1, <2>2 DEF Evolves
  <2>4. DeviceMoves(h, d, d')
    BY <2>3 DEF DeviceMoves, Same
  <2> DEFINE all == down \o z.out
  <2>5. all \in Seq(Packets) /\ LinkOk(h, z, up, all) /\ Drawn(all, 1 .. Len(all), down', 1 .. Len(down'))
    BY <1>2, <2>3, WireType DEF Staged
  <2>6. down' \in Seq(Packets)
    <3>1. Acks \cup Datas \subseteq Packets
      BY DEF Packets
    <3> QED BY <3>1
  <2>7. Ends(h, z)
    BY <1>2, EndsOf
  <2> HIDE DEF all
  <2>8. LinkOk(h, z, up', down')
    BY <1>2, <2>5, <2>6, <2>7, LinkMap
  <2>9. LinkOk(h, d', up', down')
    BY <2>8, LinkDevice DEF Same
  <2> QED BY <2>1, <2>4, <2>9
<1>7. SessionOk'
  BY <1>6 DEF SessionOk
<1> QED BY <1>3, <1>5, <1>6, <1>7 DEF IInv, DeviceGoesOn

LEMMA SynsStay ==
  ASSUME IInv
  PROVE  /\ \A i \in 1 .. Len(up) : IsSyn(up[i], h.iv) => i = Len(up)
         /\ up # <<>> => \A i \in 1 .. Len(Tail(up)) : IsSyn(Tail(up)[i], h.iv) => i = Len(Tail(up))
<1>1. up \in Seq(Packets) /\ \A i \in 1 .. Len(up) : IsSyn(up[i], h.iv) => i = Len(up)
  BY TypeFacts DEF IInv, CookiesOk
<1>2. ASSUME up # <<>>, NEW i \in 1 .. Len(Tail(up)), IsSyn(Tail(up)[i], h.iv) PROVE i = Len(Tail(up))
  <2>1. Len(up) \in Nat /\ Len(Tail(up)) = Len(up) - 1 /\ i + 1 \in 1 .. Len(up) /\ Tail(up)[i] = up[i + 1]
    BY <1>1, <1>2
  <2>2. i + 1 = Len(up)
    BY <1>1, <1>2, <2>1
  <2> QED BY <2>1, <2>2
<1> QED BY <1>1, <1>2

\* The state after a handler: what it said is on the wire.
LEMMA Spoken ==
  ASSUME TypesOk, NEW z, DevOk(z)
  PROVE  LET c == [z EXCEPT !.out = <<>>]
             w == Put(down, z.out)
         IN  /\ DevOk(c) /\ c.out = <<>> /\ Same(z, c)
             /\ w \in Seq(Acks \cup Datas) /\ Len(w) <= WireMax
             /\ Drawn(down \o z.out, 1 .. Len(down \o z.out), w, 1 .. Len(w))
<1> DEFINE c == [z EXCEPT !.out = <<>>]
<1>1. z \in Server /\ <<>> \in Seq(Acks \cup Datas)
  BY DEF DevOk
<1>2. c \in Server
  BY <1>1 DEF Server
<1>3. Same(z, c) /\ c.out = <<>> /\ c.est = z.est /\ c.ch = z.ch /\ c.overrun = z.overrun
  BY <1>1 DEF Server, Same
<1>4. DevOk(c)
  BY <1>2, <1>3 DEF DevOk, EstOk
<1>5. down \in Seq(Acks \cup Datas) /\ z.out \in Seq(Acks \cup Datas) /\ down \in Seq(Packets)
  BY TypeFacts, WireType
<1>6. Put(down, z.out) \in Seq(Acks \cup Datas) /\ Len(Put(down, z.out)) <= WireMax
  BY <1>5, PutIs
<1>7. z.out \in Seq(Packets)
  <2>1. Acks \cup Datas \subseteq Packets
    BY DEF Packets
  <2> QED BY <1>5, <2>1
<1>8. Drawn(down \o z.out, 1 .. Len(down \o z.out), Put(down, z.out), 1 .. Len(Put(down, z.out)))
  BY <1>5, <1>7, DrawnPut
<1> QED BY <1>3, <1>4, <1>6, <1>8

LEMMA DeviceStepKeeps ==
  ASSUME IInv, NEW z, DevOk(z), Evolves(h, d, up, down, z), DeviceSteps(z),
         up' = up \/ (up # <<>> /\ up' = Tail(up)), faults' \in Nat
  PROVE  IInv' /\ DeviceGoesOn
<1>1. TypesOk
  BY DEF IInv
<1>2. h' = h /\ d' = [z EXCEPT !.out = <<>>] /\ down' = Put(down, z.out) /\ traffic' \in Nat
  BY <1>1 DEF DeviceSteps, Quiet, TypesOk
<1>3. /\ DevOk(d') /\ d'.out = <<>> /\ Same(z, d') /\ down' \in Seq(Acks \cup Datas) /\ Len(down') <= WireMax
      /\ Drawn(down \o z.out, 1 .. Len(down \o z.out), down', 1 .. Len(down'))
  BY <1>1, <1>2, Spoken
<1>4. up \in Seq(Packets) /\ Len(up) <= WireMax /\ Len(up) \in Nat /\ WireMax \in Nat
  BY <1>1, TypeFacts, Consts
<1>5. /\ up' \in Seq(Packets) /\ Len(up') <= WireMax /\ Drawn(up, 1 .. Len(up), up', 1 .. Len(up'))
      /\ \A i \in 1 .. Len(up') : IsSyn(up'[i], h.iv) => i = Len(up')
  <2>1. CASE up' = up
    BY <1>4, <2>1, DrawnSelf, SynsStay
  <2>2. CASE up # <<>> /\ up' = Tail(up)
    <3>1. Len(Tail(up)) <= WireMax
      BY <1>4, <2>2
    <3> QED BY <1>4, <2>2, <3>1, DrawnTail, SynsStay
  <2> QED BY <2>1, <2>2
<1> QED BY <1>2, <1>3, <1>5, DeviceKeeps

LEMMA FaultNat == ASSUME TypesOk PROVE (Fault => faults' \in Nat) /\ (NoFault => faults' \in Nat)
  BY DEF TypesOk, Fault, NoFault

LEMMA TimersKeep ==
  ASSUME IInv, vllp_ack_timer \/ vllp_rtx_timer \/ vllp_timeout_timer \/ \E i \in Slots : vllp_channel_task_cb(i)
  PROVE  IInv' /\ DeviceGoesOn
<1>1. TypesOk /\ up \in Seq(Packets) /\ down \in Seq(Acks \cup Datas) /\ HostOk(h) /\ DevOk(d) /\ Told(d)
  BY TypeFacts DEF IInv
<1>2. CASE vllp_ack_timer
  <2>1. PICK s \in BOOLEAN : /\ Fault \/ NoFault
                            /\ DeviceSteps(vllp_tx_ack(Refresh([d EXCEPT !.ack = FALSE]), s))
    BY <1>2 DEF vllp_ack_timer, Starving
  <2> DEFINE a == [d EXCEPT !.ack = FALSE]
             b == Refresh(a)
             z == vllp_tx_ack(b, s)
  <2>2. DevOk(a) /\ Silent(d, a)
    BY <1>1, SetFlags
  <2> HIDE DEF a
  <2>3. DevOk(b) /\ Silent(a, b)
    BY <2>2, RefreshOk
  <2> HIDE DEF b
  <2>4. DevOk(z) /\ Acking(b, z)
    BY <2>3, TxAckOk
  <2> HIDE DEF z
  <2>5. Acking(d, z)
    BY <2>2, <2>3, <2>4 DEF Acking, Silent, Same, Says
  <2>6. Evolves(h, d, up, down, z)
    BY <1>1, <2>4, <2>5, SameEvolves
  <2>7. DeviceSteps(z) /\ faults' \in Nat /\ up' = up
    BY <1>1, <1>2, <2>1, FaultNat DEF z, b, a, vllp_ack_timer
  <2> QED BY <2>4, <2>6, <2>7, DeviceStepKeeps
<1>3. CASE vllp_rtx_timer
  <2>1. PICK s \in BOOLEAN : Starving(s) /\ DeviceSteps(vllp_tx(Refresh([d EXCEPT !.rtx = FALSE]), s))
    BY <1>3 DEF vllp_rtx_timer
  <2> DEFINE a == [d EXCEPT !.rtx = FALSE]
             b == Refresh(a)
             z == vllp_tx(b, s)
  <2>2. DevOk(a) /\ Silent(d, a)
    BY <1>1, SetFlags
  <2> HIDE DEF a
  <2>3. DevOk(b) /\ Silent(a, b)
    BY <2>2, RefreshOk
  <2> HIDE DEF b
  <2>4. DevOk(z) /\ (Repeating(b, z) \/ Silent(b, z))
    BY <2>3, TxOk DEF Silent, Same
  <2> HIDE DEF z
  <2>5. Repeating(d, z) \/ Silent(d, z)
    BY <2>2, <2>3, <2>4 DEF Repeating, Silent, Same, Says
  <2>6. Evolves(h, d, up, down, z)
    BY <1>1, <2>4, <2>5, SameEvolves
  <2>7. DeviceSteps(z) /\ faults' \in Nat /\ up' = up
    BY <1>1, <1>3, <2>1, FaultNat DEF z, b, a, Starving, vllp_rtx_timer
  <2> QED BY <2>4, <2>6, <2>7, DeviceStepKeeps
<1>4. CASE vllp_timeout_timer
  <2> DEFINE z == vllp_disconnect(d)
  <2>1. DevOk(z) /\ Leaving(d, z)
    BY <1>1, DisconnectOk DEF Leaving
  <2>2. DeviceSteps(z) /\ faults' \in Nat /\ up' = up
    BY <1>1, <1>4, FaultNat DEF vllp_timeout_timer
  <2> HIDE DEF z
  <2>3. Evolves(h, d, up, down, z)
    BY <1>1, <2>1, LeaveEvolves
  <2> QED BY <2>1, <2>2, <2>3, DeviceStepKeeps
<1>5. ASSUME NEW i \in Slots, vllp_channel_task_cb(i) PROVE IInv' /\ DeviceGoesOn
  <2>1. PICK s \in BOOLEAN : Starving(s) /\ DeviceSteps(TaskCb(d, i, s))
    BY <1>5 DEF vllp_channel_task_cb
  <2> DEFINE z == TaskCb(d, i, s)
  <2>2. DevOk(z) /\ Evolves(h, d, up, down, z)
    BY <1>1, TaskEvolves
  <2>3. DeviceSteps(z) /\ faults' \in Nat /\ up' = up
    BY <1>1, <1>5, <2>1, FaultNat DEF Starving, vllp_channel_task_cb
  <2> HIDE DEF z
  <2> QED BY <2>2, <2>3, DeviceStepKeeps
<1> QED BY <1>2, <1>3, <1>4, <1>5

SessionStarts ==
  /\ h' = h /\ ~InSession /\ h.sent = 0 /\ h.rcvd = <<>> /\ d'.sent = 0 /\ d'.rcvd = <<>>

\* A session begins with the wire to the device empty and nothing counted.
LEMMA LinkBegins ==
  ASSUME NEW x, NEW y, NEW w \in Seq(Packets), ~x.joined, ~x.conn, x.sent = 0, x.rcvd = <<>>,
         y.S = 0, y.E = 1, y.sent = 0, y.rcvd = <<>>,
         \A i \in Fresh(x.joined, x.iv, w) : w[i].t = "ack" /\ w[i].e = 1
  PROVE  LinkOk(x, y, <<>>, w)
<1> DEFINE I == Fresh(x.joined, x.iv, w)
           hc == x.cur = <<>>
           dc == y.tx = <<>>
<1>1. \A i \in I : w[i].t = "ack" /\ w[i].e = 1
  OBVIOUS
<1>2. Len(x.rcvd) = 0 /\ Len(y.rcvd) = 0 /\ Len(<<>>) = 0 /\ 1 .. 0 = {}
  OBVIOUS
<1> HIDE DEF I, hc, dc
<1>6. \A c : Counts(0, 0, c)
  BY DEF Counts
<1>7. \A v : Fwd(0, 0, v, {}) /\ \A c : Rev(0, 0, c, v, {})
  BY DEF Fwd, Rev
<1>8. Fwd(0, 0, w, I)
  BY <1>1 DEF Fwd
<1>9. \A i \in I : w[i].e = 1 - Bit(0)
  <2>1. 1 - Bit(0) = 1
    BY Bits
  <2> QED BY <1>1, <2>1
<1>10. Rev(0, 0, hc, w, I)
  BY <1>9 DEF Rev
<1>3. Dir(0, 0, hc, <<>>, {}, w, I)
  BY <1>6, <1>7, <1>10 DEF Dir
<1>4. Dir(0, 0, dc, w, I, <<>>, {})
  BY <1>6, <1>7, <1>8 DEF Dir
<1>5. y.S = Bit(y.sent) /\ y.E = 1 - Bit(Len(y.rcvd))
  BY <1>2, Bits
<1> QED BY <1>2, <1>3, <1>4, <1>5, LinkIs DEF I, hc, dc

LEMMA SynKeeps ==
  ASSUME IInv, NEW z, DevOk(z), up # <<>>, up[1].t = "syn", Joining(d, up[1].iv, z), DeviceSteps(z),
         up' = Tail(up), faults' \in Nat
  PROVE  IInv' /\ (DeviceGoesOn \/ SessionStarts)
<1>1. TypesOk /\ CookiesOk
  BY DEF IInv
<1>2. h' = h /\ d' = [z EXCEPT !.out = <<>>] /\ down' = Put(down, z.out) /\ traffic' \in Nat
  BY <1>1 DEF DeviceSteps, Quiet, TypesOk
<1>3. /\ DevOk(d') /\ d'.out = <<>> /\ Same(z, d') /\ down' \in Seq(Acks \cup Datas) /\ Len(down') <= WireMax
      /\ Drawn(down \o z.out, 1 .. Len(down \o z.out), down', 1 .. Len(down'))
  BY <1>1, <1>2, Spoken
<1>4. /\ up \in Seq(Packets) /\ Len(up) <= WireMax /\ Len(up) \in Nat /\ WireMax \in Nat /\ HostOk(h) /\ PhaseOk(h)
      /\ d.out = <<>> /\ down \in Seq(Packets) /\ down \in Seq(Acks \cup Datas) /\ 1 \in 1 .. Len(up)
  BY <1>1, TypeFacts, Consts
<1>5. /\ up' \in Seq(Packets) /\ Len(up') <= WireMax /\ Drawn(up, 1 .. Len(up), up', 1 .. Len(up'))
      /\ \A i \in 1 .. Len(up') : IsSyn(up'[i], h.iv) => i = Len(up')
  <2>1. Len(Tail(up)) <= WireMax
    BY <1>4
  <2> QED BY <1>4, <2>1, DrawnTail, SynsStay
<1>6. TypesOk'
  BY <1>2, <1>3, <1>4, <1>5 DEF TypesOk, Packets
<1>7. z.iv = up[1].iv /\ z.conn /\ z.S = 0 /\ z.E = 1 /\ z.sent = 0 /\ z.rcvd = <<>>
  BY DEF Joining
<1>8. PICK a \in Acks : a.s = 0 /\ a.e = 1 /\ a.iv = up[1].iv /\ (z.out = <<>> \/ z.out = <<a>>)
  <2>1. \A a : Append(<<>>, a) = <<a>>
    OBVIOUS
  <2> QED BY <1>4, <2>1 DEF Joining, Says
<1>9. Told(z)
  BY <1>7, <1>8 DEF Told
<1>10. up[1].iv = h.iv => up' = <<>> /\ ~h.joined /\ d.iv # h.iv /\ \A j \in 1 .. Len(down) : ~IsAck(down[j], h.iv)
  <2> SUFFICES ASSUME up[1].iv = h.iv
               PROVE  up' = <<>> /\ ~h.joined /\ d.iv # h.iv /\ \A j \in 1 .. Len(down) : ~IsAck(down[j], h.iv)
    OBVIOUS
  <2>1. IsSyn(up[1], h.iv)
    BY DEF IsSyn
  <2>2. Len(up) = 1 /\ ~h.joined /\ d.iv # h.iv /\ \A j \in 1 .. Len(down) : ~IsAck(down[j], h.iv)
    BY <1>1, <1>4, <2>1 DEF CookiesOk
  <2> QED BY <1>4, <2>2
<1>11. CookiesOk'
  <2>1. Num(z.iv) <= Num(h.iv)
    BY <1>1, <1>4, <1>7 DEF CookiesOk
  <2>2. \A i \in 1 .. Len(up') : IsSyn(up'[i], h.iv) => z.iv # h.iv
    BY <1>7, <1>10
  <2>3. d'.iv = z.iv
    BY <1>3 DEF Same
  <2> QED BY <1>2, <1>3, <1>5, <1>9, <2>1, <2>2, <2>3, CookiesKept
<1>12. CASE ~InSession'
  BY <1>2, <1>6, <1>11, <1>12 DEF IInv, SessionOk, DeviceGoesOn
<1>13. CASE InSession'
  <2>1. up[1].iv = h.iv
    BY <1>2, <1>3, <1>7, <1>13 DEF InSession, SameSession, Same
  <2>2. up' = <<>> /\ ~h.joined /\ d.iv # h.iv /\ \A j \in 1 .. Len(down) : ~IsAck(down[j], h.iv)
    BY <1>10, <2>1
  <2>3. h.sent = 0 /\ h.rcvd = <<>> /\ ~h.conn
    BY <1>4, <2>2 DEF PhaseOk
  <2>4. ~InSession
    BY <2>2 DEF InSession, SameSession
  <2>5. ASSUME NEW i \in Fresh(h.joined, h.iv, down') PROVE down'[i].t = "ack" /\ down'[i].e = 1
    <3>1. /\ Len(down') \in Nat /\ Len(down') <= Len(down \o z.out)
          /\ \A k \in 1 .. Len(down') : down'[k] = (down \o z.out)[k]
      <4>1. z.out \in Seq(Acks \cup Datas)
        BY <1>4, WireType
      <4> DEFINE b == z.out
                 P == Acks \cup Datas
      <4>2. down \in Seq(P) /\ b \in Seq(P) /\ down' = Put(down, b)
        BY <1>2, <1>4, <4>1
      <4> HIDE DEF b, P
      <4>3. /\ Len(Put(down, b)) \in Nat /\ Len(Put(down, b)) <= Len(down \o b)
            /\ \A k \in 1 .. Len(Put(down, b)) : Put(down, b)[k] = (down \o b)[k]
        BY <4>2, PutIs
      <4> QED BY <4>2, <4>3 DEF b
    <3>2. i \in 1 .. Len(down') /\ \E m \in 1 .. i : IsAck(down'[m], h.iv)
      BY <2>2, <2>5 DEF Fresh
    <3>3. PICK m \in 1 .. i : IsAck(down'[m], h.iv)
      BY <3>2
    <3>4. Len(down) \in Nat /\ m \in 1 .. Len(down') /\ i \in Nat /\ m \in Nat /\ m <= i
      BY <1>4, <3>1, <3>2
    <3>5. m > Len(down)
      <4> SUFFICES ASSUME m \in 1 .. Len(down) PROVE FALSE
        BY <3>4
      <4>1. (down \o z.out)[m] = down[m]
        <5>1. z.out \in Seq(Acks \cup Datas)
          BY <1>4, WireType
        <5> QED BY <1>4, <5>1
      <4> QED BY <2>2, <3>1, <3>3, <3>4, <4>1
    <3>6. z.out = <<a>> /\ i = Len(down) + 1
      <4>1. CASE z.out = <<>>
        <5>1. Len(down \o z.out) = Len(down)
          BY <1>4, <4>1
        <5> QED BY <3>1, <3>2, <3>4, <3>5, <5>1
      <4>2. CASE z.out = <<a>>
        <5>1. Len(down \o z.out) = Len(down) + 1
          BY <1>4, <4>2
        <5> QED BY <3>1, <3>2, <3>4, <3>5, <4>2, <5>1
      <4> QED BY <1>8, <4>1, <4>2
    <3>7. (down \o z.out)[Len(down) + 1] = a
      BY <1>4, <3>6
    <3>8. down'[i] = a
      BY <3>1, <3>2, <3>6, <3>7
    <3> QED BY <1>8, <3>8 DEF Acks
  <2>6. down' \in Seq(Packets)
    <3>1. Acks \cup Datas \subseteq Packets
      BY DEF Packets
    <3> QED BY <1>3, <3>1
  <2>7. d'.S = 0 /\ d'.E = 1 /\ d'.sent = 0 /\ d'.rcvd = <<>>
    BY <1>3, <1>7 DEF Same
  <2>8. LinkOk(h, d', <<>>, down')
    BY <2>2, <2>3, <2>5, <2>6, <2>7, LinkBegins
  <2>9. SessionOk'
    BY <1>2, <2>2, <2>8 DEF SessionOk
  <2> QED BY <1>2, <1>6, <1>11, <2>3, <2>4, <2>7, <2>9 DEF IInv, SessionStarts
<1> QED BY <1>12, <1>13

LEMMA DeviceRxKeeps == ASSUME IInv, DeviceRx PROVE IInv' /\ (DeviceGoesOn \/ SessionStarts)
<1>1. TypesOk /\ up \in Seq(Packets) /\ down \in Seq(Acks \cup Datas) /\ HostOk(h) /\ DevOk(d) /\ Told(d)
  BY TypeFacts DEF IInv
<1>2. up # <<>> /\ up' = Tail(up)
  BY DEF DeviceRx
<1>3. PICK s \in BOOLEAN : Starving(s) /\ DeviceSteps(vllp_rx(d, Head(up), s))
  BY DEF DeviceRx
<1> DEFINE z == vllp_rx(d, up[1], s)
<1>4. Head(up) = up[1] /\ up[1] \in Packets
  BY <1>1, <1>2
<1>5. DeviceSteps(z) /\ faults' \in Nat
  BY <1>1, <1>3, <1>4, FaultNat DEF Starving
<1>6. CASE up[1].t = "syn"
  <2>1. DevOk(z) /\ Joining(d, up[1].iv, z)
    BY <1>1, <1>4, <1>6, RxOk DEF Packets
  <2> HIDE DEF z
  <2> QED BY <1>2, <1>5, <1>6, <2>1, SynKeeps
<1>7. CASE up[1].t # "syn"
  <2>1. DevOk(z) /\ Evolves(h, d, up, down, z)
    BY <1>1, <1>2, <1>7, RxEvolves
  <2> HIDE DEF z
  <2> QED BY <1>2, <1>5, <2>1, DeviceStepKeeps
<1> QED BY <1>6, <1>7

LEMMA ResetKeeps == ASSUME IInv, DeviceReset PROVE IInv' /\ DeviceGoesOn
<1>1. TypesOk
  BY DEF IInv
<1>2. DeviceSteps(DeviceOff) /\ up' = up /\ faults' \in Nat
  BY <1>1, FaultNat DEF DeviceReset
<1> DEFINE z == DeviceOff
<1>3. DevOk(z) /\ z.out = <<>> /\ ~z.conn /\ z.iv = Nil
  BY OffOk
<1> HIDE DEF z
<1>4. h' = h /\ d' = [z EXCEPT !.out = <<>>] /\ down' = Put(down, z.out) /\ traffic' \in Nat
  BY <1>1, <1>2 DEF DeviceSteps, Quiet, TypesOk, z
<1>5. /\ DevOk(d') /\ d'.out = <<>> /\ Same(z, d') /\ down' \in Seq(Acks \cup Datas) /\ Len(down') <= WireMax
      /\ Drawn(down \o z.out, 1 .. Len(down \o z.out), down', 1 .. Len(down'))
  BY <1>1, <1>3, <1>4, Spoken
<1>6. up \in Seq(Packets) /\ HostOk(h) /\ PhaseOk(h) /\ \A i \in 1 .. Len(up) : up[i] \in Packets
  BY <1>1, TypeFacts
<1>7. TypesOk'
  BY <1>1, <1>2, <1>4, <1>5 DEF TypesOk
<1>8. CookiesOk'
  <2>1. Told(z)
    BY <1>3 DEF Told
  <2>2. Num(z.iv) <= Num(h.iv)
    <3>1. Num(h.iv) \in Nat
      BY <1>6, NumNat DEF HostOk, Host
    <3> QED BY <1>3, <3>1, NumNat
  <2>3. \A i \in 1 .. Len(up') : IsSyn(up'[i], h.iv) => z.iv # h.iv
    BY <1>2, <1>3, <1>6, Consts DEF IsSyn, Packets, Syns, Acks, Datas
  <2>4. d'.iv = z.iv
    BY <1>5 DEF Same
  <2>5. Drawn(up, 1 .. Len(up), up', 1 .. Len(up')) /\ \A i \in 1 .. Len(up') : IsSyn(up'[i], h.iv) => i = Len(up')
    BY <1>2, <1>6, DrawnSelf, SynsStay
  <2> QED BY <1>3, <1>4, <1>5, <2>1, <2>2, <2>3, <2>4, <2>5, CookiesKept
<1>9. ~InSession'
  BY <1>3, <1>5 DEF InSession, Same
<1> QED BY <1>4, <1>7, <1>8, <1>9 DEF IInv, SessionOk, DeviceGoesOn

LEMMA ServiceKeeps == ASSUME IInv, Service PROVE IInv' /\ DeviceGoesOn
<1>1. TypesOk /\ up \in Seq(Packets) /\ down \in Seq(Acks \cup Datas) /\ HostOk(h) /\ DevOk(d) /\ Told(d) /\ d.out = <<>>
  BY TypeFacts DEF IInv
<1>2. PICK i \in Slots : ServiceReads(i) \/ ServiceWrites(i) \/ ServiceCloses(i)
  BY DEF Service
<1> DEFINE k == d.ch[i]
<1>3. k \in Slot /\ k.ev \in SUBSET {"io", "close"}
  BY <1>1 DEF DevOk, Server, Slot
<1>4. ASSUME NEW s \in Slot, ServiceSteps(i, s), s.used = k.used, s.appc = k.appc, traffic' \in Nat
      PROVE  IInv' /\ DeviceGoesOn
  <2>1. d' = [d EXCEPT !.ch[i] = s] /\ h' = h /\ up' = up /\ down' = down /\ faults' \in Nat
    BY <1>1, <1>4, FaultNat DEF ServiceSteps, NoFault
  <2> DEFINE z == [d EXCEPT !.ch[i] = s]
  <2>2. DevOk(z) /\ Silent(d, z)
    BY <1>1, <1>4, SetSlot
  <2> HIDE DEF z
  <2>3. Evolves(h, d, up, down, z) /\ z.out = <<>> /\ Same(z, z)
    BY <1>1, <2>2, SameEvolves DEF Silent, Same
  <2>4. Drawn(up, 1 .. Len(up), up, 1 .. Len(up)) /\ Drawn(down, 1 .. Len(down), down, 1 .. Len(down))
    <3>1. down \in Seq(Packets)
      BY <1>1, TypeFacts
    <3> QED BY <1>1, <3>1, DrawnSelf
  <2>5. down \o z.out = down
    BY <1>1, <2>3
  <2>6. \A j \in 1 .. Len(up) : IsSyn(up[j], h.iv) => j = Len(up)
    BY SynsStay
  <2>7. Len(up) <= WireMax /\ Len(down) <= WireMax
    BY <1>1, TypeFacts
  <2>8. d' = z
    BY <2>1 DEF z
  <2> QED BY <1>1, <1>4, <2>1, <2>2, <2>3, <2>4, <2>5, <2>6, <2>7, <2>8, DeviceKeeps
<1>5. CASE ServiceReads(i)
  <2> DEFINE s == [k EXCEPT !.full = FALSE, !.ev = @ \cup {"io"}]
  <2>1. s \in Slot /\ s.used = k.used /\ s.appc = k.appc
    BY <1>3 DEF Slot
  <2>2. ServiceSteps(i, s) /\ traffic' \in Nat
    BY <1>1, <1>5 DEF ServiceReads, Quiet, TypesOk
  <2> HIDE DEF s
  <2> QED BY <1>4, <2>1, <2>2
<1>6. CASE ServiceWrites(i)
  <2> DEFINE s == [k EXCEPT !.out = 1, !.ev = @ \cup {"io"}]
  <2>1. s \in Slot /\ s.used = k.used /\ s.appc = k.appc
    BY <1>3 DEF Slot
  <2>2. ServiceSteps(i, s) /\ traffic' \in Nat
    BY <1>1, <1>6 DEF ServiceWrites, TypesOk
  <2> HIDE DEF s
  <2> QED BY <1>4, <2>1, <2>2
<1>7. CASE ServiceCloses(i)
  <2> DEFINE s == [k EXCEPT !.closing = TRUE, !.ev = @ \cup {"close"}]
  <2>1. s \in Slot /\ s.used = k.used /\ s.appc = k.appc
    BY <1>3 DEF Slot
  <2>2. ServiceSteps(i, s) /\ traffic' \in Nat
    BY <1>1, <1>7 DEF ServiceCloses, Quiet, TypesOk
  <2> HIDE DEF s
  <2> QED BY <1>4, <2>1, <2>2
<1> QED BY <1>2, <1>5, <1>6, <1>7

LEMMA WiresKeep ==
  ASSUME IInv, h' = h, d' = d, faults' \in Nat, traffic' = traffic,
         up' \in Seq(Packets), Len(up') <= WireMax, Drawn(up, 1 .. Len(up), up', 1 .. Len(up')),
         \A i \in 1 .. Len(up') : IsSyn(up'[i], h.iv) => i = Len(up'),
         down' \in Seq(Acks \cup Datas), Len(down') <= WireMax, Drawn(down, 1 .. Len(down), down', 1 .. Len(down'))
  PROVE  IInv' /\ DeviceGoesOn
<1>1. /\ TypesOk /\ up \in Seq(Packets) /\ down \in Seq(Acks \cup Datas) /\ HostOk(h) /\ DevOk(d) /\ Told(d)
      /\ d.out = <<>> /\ down \o d.out = down
  BY TypeFacts DEF IInv
<1>2. Silent(d, d) /\ Same(d, d)
  BY DEF Silent, Same
<1>3. Evolves(h, d, up, down, d)
  BY <1>1, <1>2, SameEvolves
<1>4. traffic' \in Nat
  BY <1>1 DEF TypesOk
<1>5. Drawn(down \o d.out, 1 .. Len(down \o d.out), down', 1 .. Len(down'))
  BY <1>1
<1> QED BY <1>1, <1>2, <1>3, <1>4, <1>5, DeviceKeeps

LEMMA LoseKeeps == ASSUME IInv, Lose \/ Double PROVE IInv' /\ DeviceGoesOn
<1>1. /\ TypesOk /\ up \in Seq(Packets) /\ down \in Seq(Acks \cup Datas) /\ down \in Seq(Packets)
      /\ Len(up) <= WireMax /\ Len(down) <= WireMax /\ Len(up) \in Nat /\ Len(down) \in Nat /\ WireMax \in Nat
  BY TypeFacts, Consts DEF IInv
<1>2. h' = h /\ d' = d /\ faults' \in Nat /\ traffic' = traffic
  BY <1>1, FaultNat DEF Lose, Double, Quiet
<1>3. Drawn(up, 1 .. Len(up), up, 1 .. Len(up)) /\ Drawn(down, 1 .. Len(down), down, 1 .. Len(down))
  BY <1>1, DrawnSelf
<1>4. CASE up # <<>> /\ up' = Tail(up) /\ down' = down
  <2>1. Len(Tail(up)) <= WireMax
    BY <1>1, <1>4
  <2>2. /\ up' \in Seq(Packets) /\ Drawn(up, 1 .. Len(up), up', 1 .. Len(up'))
        /\ \A i \in 1 .. Len(up') : IsSyn(up'[i], h.iv) => i = Len(up')
    BY <1>1, <1>4, DrawnTail, SynsStay
  <2> QED BY <1>1, <1>2, <1>3, <1>4, <2>1, <2>2, WiresKeep
<1>5. CASE down # <<>> /\ down' = Tail(down) /\ up' = up
  <2>1. Len(Tail(down)) <= WireMax /\ Tail(down) \in Seq(Acks \cup Datas)
    BY <1>1, <1>5
  <2>2. Drawn(down, 1 .. Len(down), down', 1 .. Len(down'))
    BY <1>1, <1>5, DrawnTail
  <2>3. \A i \in 1 .. Len(up) : IsSyn(up[i], h.iv) => i = Len(up)
    BY SynsStay
  <2> QED BY <1>1, <1>2, <1>3, <1>5, <2>1, <2>2, <2>3, WiresKeep
<1>6. CASE up # <<>> /\ up[1].t # "syn" /\ Len(up) < WireMax /\ up' = <<Head(up)>> \o up /\ down' = down
  <2>1. up' \in Seq(Packets) /\ Len(up') = Len(up) + 1 /\ Drawn(up, 1 .. Len(up), up', 1 .. Len(up'))
    BY <1>1, <1>6, DrawnTwice
  <2>2. Len(up') <= WireMax
    BY <1>1, <1>6, <2>1
  <2>3. ASSUME NEW i \in 1 .. Len(up'), IsSyn(up'[i], h.iv) PROVE i = Len(up')
    <3>1. up'[1] = up[1] /\ \A j \in 2 .. Len(up') : up'[j] = up[j - 1]
      BY <1>1, <1>6
    <3>2. i # 1
      BY <1>6, <2>3, <3>1 DEF IsSyn
    <3>3. i - 1 \in 1 .. Len(up) /\ up'[i] = up[i - 1]
      BY <1>1, <2>1, <3>1, <3>2
    <3>4. i - 1 = Len(up)
      BY <2>3, <3>3, SynsStay
    <3> QED BY <2>1, <3>4
  <2> QED BY <1>1, <1>2, <1>3, <1>6, <2>1, <2>2, <2>3, WiresKeep
<1>7. CASE down # <<>> /\ Len(down) < WireMax /\ down' = <<Head(down)>> \o down /\ up' = up
  <2>1. Len(down') = Len(down) + 1 /\ Drawn(down, 1 .. Len(down), down', 1 .. Len(down'))
    BY <1>1, <1>7, DrawnTwice
  <2>2. Len(down') <= WireMax /\ down' \in Seq(Acks \cup Datas)
    <3>1. <<Head(down)>> \in Seq(Acks \cup Datas)
      BY <1>1, <1>7
    <3> QED BY <1>1, <1>7, <2>1, <3>1
  <2>3. \A i \in 1 .. Len(up) : IsSyn(up[i], h.iv) => i = Len(up)
    BY SynsStay
  <2> QED BY <1>1, <1>2, <1>3, <1>7, <2>1, <2>2, <2>3, WiresKeep
<1> QED BY <1>4, <1>5, <1>6, <1>7 DEF Lose, Double

-----------------------------------------------------------------------------
(* What the handlers of the host keep.                                     *)

Channels == Handles \cup {Cmc}
Alike(x, y) == /\ y.conn = x.conn /\ y.S = x.S /\ y.E = x.E /\ y.iv = x.iv /\ y.cur = x.cur /\ y.eof = x.eof
               /\ y.sent = x.sent /\ y.rcvd = x.rcvd /\ y.joined = x.joined /\ y.rejoined = x.rejoined
Lists(x, y) == y.act = x.act /\ y.pend = x.pend /\ y.ids = x.ids /\ y.rflow = x.rflow

LEMMA HostFacts ==
  ASSUME NEW x, HostOk(x)
  PROVE  /\ x \in Host /\ x.ch \in [Channels -> Chan] /\ x.act \in Seq(Channels) /\ x.pend \in Seq(Handles)
         /\ x.ids \subseteq Ids /\ x.rflow \subseteq Ids \cup {Cmc} /\ x.cnt \in Nat /\ x.iv \in Cookie
         /\ x.cur \in Seq(Frags) /\ \A c \in Channels : ChanOk(c, x.ch[c]) /\ x.ch[c] \in Chan
<1>1. x \in Host /\ \A c \in Channels : ChanOk(c, x.ch[c])
  BY DEF HostOk, Channels
<1>2. /\ x.ch \in [Channels -> Chan] /\ x.act \in Seq(Channels) /\ x.pend \in Seq(Handles)
      /\ x.ids \subseteq Ids /\ x.rflow \subseteq Ids \cup {Cmc} /\ x.cnt \in Nat /\ x.iv \in Cookie
      /\ x.cur \in Seq(Frags)
  BY <1>1 DEF Host, Channels
<1> QED BY <1>1, <1>2 DEF ChanOk

LEMMA SetChan ==
  ASSUME NEW x, HostOk(x), NEW c \in Channels, NEW k, ChanOk(c, k)
  PROVE  LET y == [x EXCEPT !.ch[c] = k] IN
         /\ HostOk(y) /\ Alike(x, y) /\ Lists(x, y) /\ y.ch[c] = k /\ y.cnt = x.cnt
         /\ \A e \in Channels : e # c => y.ch[e] = x.ch[e]
<1> DEFINE f == [x.ch EXCEPT ![c] = k]
           y == [x EXCEPT !.ch[c] = k]
<1>1. x \in Host /\ x.ch \in [Channels -> Chan] /\ k \in Chan
  BY HostFacts DEF ChanOk
<1>2. f \in [Channels -> Chan] /\ f[c] = k /\ \A e \in Channels : e # c => f[e] = x.ch[e]
  BY <1>1
<1>3. y = [x EXCEPT !.ch = f]
  BY <1>1 DEF Host
<1> HIDE DEF f
<1>4. y \in Host
  BY <1>1, <1>2, <1>3 DEF Host, Channels
<1>5. Alike(x, y) /\ Lists(x, y) /\ y.ch = f /\ y.cnt = x.cnt
  BY <1>1, <1>3 DEF Host, Alike, Lists
<1>6. \A e \in Channels : ChanOk(e, f[e])
  BY <1>2, HostFacts
<1>7. HostOk(y)
  BY <1>4, <1>5, <1>6 DEF HostOk, Alike, Channels
<1> QED BY <1>2, <1>5, <1>7

LEMMA SetLists ==
  ASSUME NEW x, HostOk(x), NEW a \in Seq(Channels), NEW q \in Seq(Handles), NEW s \in SUBSET Ids,
         NEW f \in SUBSET (Ids \cup {Cmc})
  PROVE  /\ LET y == [x EXCEPT !.act = a] IN HostOk(y) /\ Alike(x, y) /\ y.ch = x.ch /\ y.act = a /\ y.pend = x.pend
         /\ LET y == [x EXCEPT !.pend = q] IN HostOk(y) /\ Alike(x, y) /\ y.ch = x.ch /\ y.act = x.act /\ y.ids = x.ids
         /\ LET y == [x EXCEPT !.ids = s] IN HostOk(y) /\ Alike(x, y) /\ y.ch = x.ch /\ y.act = x.act /\ y.pend = x.pend
         /\ LET y == [x EXCEPT !.rflow = f] IN HostOk(y) /\ Alike(x, y) /\ y.ch = x.ch /\ y.act = x.act
<1>1. x \in Host
  BY HostFacts
<1> DEFINE ya == [x EXCEPT !.act = a]
           yq == [x EXCEPT !.pend = q]
           ys == [x EXCEPT !.ids = s]
           yf == [x EXCEPT !.rflow = f]
<1>2. ya \in Host /\ yq \in Host /\ ys \in Host /\ yf \in Host
  BY <1>1 DEF Host, Channels
<1>3. Alike(x, ya) /\ ya.ch = x.ch /\ ya.act = a /\ ya.pend = x.pend
  BY <1>1 DEF Host, Alike
<1>4. Alike(x, yq) /\ yq.ch = x.ch /\ yq.act = x.act /\ yq.ids = x.ids
  BY <1>1 DEF Host, Alike
<1>5. Alike(x, ys) /\ ys.ch = x.ch /\ ys.act = x.act /\ ys.pend = x.pend
  BY <1>1 DEF Host, Alike
<1>6. Alike(x, yf) /\ yf.ch = x.ch /\ yf.act = x.act
  BY <1>1 DEF Host, Alike
<1> QED BY <1>2, <1>3, <1>4, <1>5, <1>6 DEF HostOk, Alike

LEMMA SetBits ==
  ASSUME NEW x, HostOk(x), NEW b \in BOOLEAN, NEW n \in Nat
  PROVE  /\ LET y == [x EXCEPT !.poke = b] IN HostOk(y) /\ Alike(x, y) /\ y.ch = x.ch /\ y.act = x.act
         /\ LET y == [x EXCEPT !.rtx = b] IN HostOk(y) /\ Alike(x, y) /\ y.ch = x.ch /\ y.act = x.act
         /\ LET y == [x EXCEPT !.cnt = n] IN HostOk(y) /\ Alike(x, y) /\ y.ch = x.ch /\ y.act = x.act
<1>1. x \in Host
  BY HostFacts
<1> DEFINE yp == [x EXCEPT !.poke = b]
           yr == [x EXCEPT !.rtx = b]
           yn == [x EXCEPT !.cnt = n]
<1>2. yp \in Host /\ yr \in Host /\ yn \in Host
  BY <1>1 DEF Host
<1>3. Alike(x, yp) /\ yp.ch = x.ch /\ yp.act = x.act
  BY <1>1 DEF Host, Alike
<1>4. Alike(x, yr) /\ yr.ch = x.ch /\ yr.act = x.act
  BY <1>1 DEF Host, Alike
<1>5. Alike(x, yn) /\ yn.ch = x.ch /\ yn.act = x.act
  BY <1>1 DEF Host, Alike
<1> QED BY <1>2, <1>3, <1>4, <1>5 DEF HostOk, Alike

\* A channel whose list of messages, state and owner change.
LEMMA ChanChanges ==
  ASSUME NEW c \in Channels, NEW k, ChanOk(c, k)
  PROVE  /\ \A m \in Seq(MsgsOf(c)) : ChanOk(c, [k EXCEPT !.mtxq = m])
         /\ \A q \in Seq(FragsOf(c)) : ChanOk(c, [k EXCEPT !.txq = q])
         /\ \A s \in {"pending", "sent", "est", "active", "csent", "closed"} :
              (c = Cmc => s \in {"est", "active"}) => ChanOk(c, [k EXCEPT !.st = s])
         /\ \A b \in Keys : ChanOk(c, [k EXCEPT !.rx = b]) /\ ChanOk(c, [k EXCEPT !.tx = b])
         /\ \A q \in Seq(Frags) : ChanOk(c, [k EXCEPT !.rxbuf = q])
         /\ ChanOk(c, [k EXCEPT !.linked = FALSE])
<1>1. k \in Chan
  BY DEF ChanOk
<1>2. Seq(MsgsOf(c)) \subseteq Seq(Msgs) /\ Seq(FragsOf(c)) \subseteq Seq(Frags)
  <2>1. MsgsOf(c) \subseteq Msgs /\ FragsOf(c) \subseteq Frags
    BY DEF MsgsOf, FragsOf
  <2> QED BY <2>1
<1>3. ASSUME NEW m \in Seq(MsgsOf(c)) PROVE ChanOk(c, [k EXCEPT !.mtxq = m])
  <2> DEFINE j == [k EXCEPT !.mtxq = m]
  <2>1. m \in Seq(Msgs)
    BY <1>2
  <2>2. j \in Chan
    BY <1>1, <2>1 DEF Chan
  <2>3. j.mtxq = m /\ j.txq = k.txq /\ j.id = k.id /\ j.st = k.st /\ j.linked = k.linked /\ j.user = k.user
    BY <1>1 DEF Chan
  <2> QED BY <2>2, <2>3 DEF ChanOk
<1>4. ASSUME NEW q \in Seq(FragsOf(c)) PROVE ChanOk(c, [k EXCEPT !.txq = q])
  <2> DEFINE j == [k EXCEPT !.txq = q]
  <2>1. q \in Seq(Frags)
    BY <1>2
  <2>2. j \in Chan
    BY <1>1, <2>1 DEF Chan
  <2>3. j.mtxq = k.mtxq /\ j.txq = q /\ j.id = k.id /\ j.st = k.st /\ j.linked = k.linked /\ j.user = k.user
    BY <1>1 DEF Chan
  <2> QED BY <2>2, <2>3 DEF ChanOk
<1>5. ASSUME NEW s \in {"pending", "sent", "est", "active", "csent", "closed"}, c = Cmc => s \in {"est", "active"}
      PROVE  ChanOk(c, [k EXCEPT !.st = s])
  <2> DEFINE j == [k EXCEPT !.st = s]
  <2>2. j \in Chan
    BY <1>1 DEF Chan
  <2>3. j.mtxq = k.mtxq /\ j.txq = k.txq /\ j.id = k.id /\ j.st = s /\ s # "none" /\ j.linked = k.linked /\ j.user = k.user
    BY <1>1 DEF Chan
  <2> QED BY <1>5, <2>2, <2>3 DEF ChanOk
<1>6. ASSUME NEW b \in Keys PROVE ChanOk(c, [k EXCEPT !.rx = b]) /\ ChanOk(c, [k EXCEPT !.tx = b])
  <2> DEFINE j == [k EXCEPT !.rx = b]
             i == [k EXCEPT !.tx = b]
  <2>2. j \in Chan /\ i \in Chan
    BY <1>1 DEF Chan
  <2>3. j.mtxq = k.mtxq /\ j.txq = k.txq /\ j.id = k.id /\ j.st = k.st /\ j.linked = k.linked /\ j.user = k.user
    BY <1>1 DEF Chan
  <2>4. i.mtxq = k.mtxq /\ i.txq = k.txq /\ i.id = k.id /\ i.st = k.st /\ i.linked = k.linked /\ i.user = k.user
    BY <1>1 DEF Chan
  <2> QED BY <2>2, <2>3, <2>4 DEF ChanOk
<1>7. ASSUME NEW q \in Seq(Frags) PROVE ChanOk(c, [k EXCEPT !.rxbuf = q])
  <2> DEFINE j == [k EXCEPT !.rxbuf = q]
  <2>2. j \in Chan
    BY <1>1 DEF Chan
  <2>3. j.mtxq = k.mtxq /\ j.txq = k.txq /\ j.id = k.id /\ j.st = k.st /\ j.linked = k.linked /\ j.user = k.user
    BY <1>1 DEF Chan
  <2> QED BY <2>2, <2>3 DEF ChanOk
<1>8. ChanOk(c, [k EXCEPT !.linked = FALSE])
  <2> DEFINE j == [k EXCEPT !.linked = FALSE]
  <2>2. j \in Chan
    BY <1>1 DEF Chan
  <2>3. j.mtxq = k.mtxq /\ j.txq = k.txq /\ j.id = k.id /\ j.st = k.st /\ ~j.linked /\ j.user = k.user
    BY <1>1 DEF Chan
  <2> QED BY <2>2, <2>3 DEF ChanOk
<1> QED BY <1>3, <1>4, <1>5, <1>6, <1>7, <1>8

Kept(x, y) == HostOk(y) /\ Alike(x, y)

LEMMA KeptTwice == ASSUME NEW x, NEW y, NEW z, Kept(x, y), Kept(y, z) PROVE Kept(x, z)
  BY DEF Kept, Alike

LEMMA ChanType ==
  ASSUME NEW x, HostOk(x), NEW c \in Channels
  PROVE  /\ ChanOk(c, x.ch[c]) /\ x.ch[c] \in Chan /\ x.ch[c].mtxq \in Seq(MsgsOf(c)) /\ x.ch[c].txq \in Seq(FragsOf(c))
         /\ x.ch[c].rxbuf \in Seq(Frags) /\ x.ch[c].rx \in Keys /\ x.ch[c].tx \in Keys
         /\ x.ch[c].id \in Ids \cup {Nil, Cmc} /\ x.ch[c].st \in {"none", "pending", "sent", "est", "active", "csent", "closed"}
         /\ (c # Cmc => x.ch[c].id \in Ids \cup {Nil})
         /\ (c # Cmc /\ (x.ch[c].linked \/ x.ch[c].user \in {"open", "waits"}) => x.ch[c].id \in Ids)
         /\ (c # Cmc /\ x.ch[c].st = "none" => x.ch[c].user = "none")
         /\ (c = Cmc => x.ch[c].id = Cmc /\ x.ch[c].st \in {"est", "active"})
<1>1. ChanOk(c, x.ch[c]) /\ x.ch[c] \in Chan
  BY HostFacts
<1>2. /\ x.ch[c].rxbuf \in Seq(Frags) /\ x.ch[c].rx \in Keys /\ x.ch[c].tx \in Keys /\ x.ch[c].id \in Ids \cup {Nil, Cmc}
      /\ x.ch[c].st \in {"none", "pending", "sent", "est", "active", "csent", "closed"}
  BY <1>1 DEF Chan
<1> QED BY <1>1, <1>2 DEF ChanOk

\* One field of a channel.
LEMMA SetField ==
  ASSUME NEW x, HostOk(x), NEW c \in Channels
  PROVE  /\ \A m \in Seq(MsgsOf(c)) : LET y == [x EXCEPT !.ch[c].mtxq = m] IN
              Kept(x, y) /\ Lists(x, y) /\ y.cnt = x.cnt /\ y.ch[c] = [x.ch[c] EXCEPT !.mtxq = m]
         /\ \A q \in Seq(FragsOf(c)) : LET y == [x EXCEPT !.ch[c].txq = q] IN
              Kept(x, y) /\ Lists(x, y) /\ y.cnt = x.cnt /\ y.ch[c] = [x.ch[c] EXCEPT !.txq = q]
         /\ \A s \in {"pending", "sent", "est", "active", "csent", "closed"} :
              (c = Cmc => s \in {"est", "active"}) => LET y == [x EXCEPT !.ch[c].st = s] IN
                Kept(x, y) /\ Lists(x, y) /\ y.cnt = x.cnt /\ y.ch[c] = [x.ch[c] EXCEPT !.st = s]
         /\ \A b \in Keys : LET y == [x EXCEPT !.ch[c].rx = b] IN
              Kept(x, y) /\ Lists(x, y) /\ y.cnt = x.cnt /\ y.ch[c] = [x.ch[c] EXCEPT !.rx = b]
         /\ \A b \in Keys : LET y == [x EXCEPT !.ch[c].tx = b] IN
              Kept(x, y) /\ Lists(x, y) /\ y.cnt = x.cnt /\ y.ch[c] = [x.ch[c] EXCEPT !.tx = b]
         /\ \A q \in Seq(Frags) : LET y == [x EXCEPT !.ch[c].rxbuf = q] IN
              Kept(x, y) /\ Lists(x, y) /\ y.cnt = x.cnt /\ y.ch[c] = [x.ch[c] EXCEPT !.rxbuf = q]
         /\ LET y == [x EXCEPT !.ch[c].linked = FALSE] IN
              Kept(x, y) /\ Lists(x, y) /\ y.cnt = x.cnt /\ y.ch[c] = [x.ch[c] EXCEPT !.linked = FALSE]
<1>1. ChanOk(c, x.ch[c])
  BY ChanType
<1>2. \A k : ChanOk(c, k) => LET y == [x EXCEPT !.ch[c] = k] IN Kept(x, y) /\ Lists(x, y) /\ y.cnt = x.cnt /\ y.ch[c] = k
  BY SetChan DEF Kept
<1>3. \A m \in Seq(MsgsOf(c)) : LET y == [x EXCEPT !.ch[c].mtxq = m] IN
        Kept(x, y) /\ Lists(x, y) /\ y.cnt = x.cnt /\ y.ch[c] = [x.ch[c] EXCEPT !.mtxq = m]
  BY <1>1, <1>2, ChanChanges
<1>4. \A q \in Seq(FragsOf(c)) : LET y == [x EXCEPT !.ch[c].txq = q] IN
        Kept(x, y) /\ Lists(x, y) /\ y.cnt = x.cnt /\ y.ch[c] = [x.ch[c] EXCEPT !.txq = q]
  BY <1>1, <1>2, ChanChanges
<1>5. \A s \in {"pending", "sent", "est", "active", "csent", "closed"} :
        (c = Cmc => s \in {"est", "active"}) => LET y == [x EXCEPT !.ch[c].st = s] IN
          Kept(x, y) /\ Lists(x, y) /\ y.cnt = x.cnt /\ y.ch[c] = [x.ch[c] EXCEPT !.st = s]
  BY <1>1, <1>2, ChanChanges
<1>6. \A b \in Keys : LET y == [x EXCEPT !.ch[c].rx = b] IN
        Kept(x, y) /\ Lists(x, y) /\ y.cnt = x.cnt /\ y.ch[c] = [x.ch[c] EXCEPT !.rx = b]
  BY <1>1, <1>2, ChanChanges
<1>7. \A b \in Keys : LET y == [x EXCEPT !.ch[c].tx = b] IN
        Kept(x, y) /\ Lists(x, y) /\ y.cnt = x.cnt /\ y.ch[c] = [x.ch[c] EXCEPT !.tx = b]
  BY <1>1, <1>2, ChanChanges
<1>8. \A q \in Seq(Frags) : LET y == [x EXCEPT !.ch[c].rxbuf = q] IN
        Kept(x, y) /\ Lists(x, y) /\ y.cnt = x.cnt /\ y.ch[c] = [x.ch[c] EXCEPT !.rxbuf = q]
  BY <1>1, <1>2, ChanChanges
<1>9. LET y == [x EXCEPT !.ch[c].linked = FALSE] IN
        Kept(x, y) /\ Lists(x, y) /\ y.cnt = x.cnt /\ y.ch[c] = [x.ch[c] EXCEPT !.linked = FALSE]
  BY <1>1, <1>2, ChanChanges
<1> QED BY <1>3, <1>4, <1>5, <1>6, <1>7, <1>8, <1>9

\* One of the lists.
LEMMA SetList ==
  ASSUME NEW x, HostOk(x)
  PROVE  /\ \A a \in Seq(Channels) : LET y == [x EXCEPT !.act = a] IN
              Kept(x, y) /\ y.ch = x.ch /\ y.act = a /\ y.pend = x.pend
         /\ \A q \in Seq(Handles) : LET y == [x EXCEPT !.pend = q] IN
              Kept(x, y) /\ y.ch = x.ch /\ y.act = x.act /\ y.ids = x.ids
         /\ \A s \in SUBSET Ids : LET y == [x EXCEPT !.ids = s] IN
              Kept(x, y) /\ y.ch = x.ch /\ y.act = x.act /\ y.pend = x.pend
         /\ \A f \in SUBSET (Ids \cup {Cmc}) : LET y == [x EXCEPT !.rflow = f] IN
              Kept(x, y) /\ y.ch = x.ch /\ y.act = x.act
<1>1. <<>> \in Seq(Channels) /\ <<>> \in Seq(Handles) /\ {} \in SUBSET Ids /\ {} \in SUBSET (Ids \cup {Cmc})
  OBVIOUS
<1>2. \A a \in Seq(Channels) : LET y == [x EXCEPT !.act = a] IN
        Kept(x, y) /\ y.ch = x.ch /\ y.act = a /\ y.pend = x.pend
  BY <1>1, SetLists, ZenonT(60) DEF Kept
<1>3. \A q \in Seq(Handles) : LET y == [x EXCEPT !.pend = q] IN
        Kept(x, y) /\ y.ch = x.ch /\ y.act = x.act /\ y.ids = x.ids
  BY <1>1, SetLists, Zenon DEF Kept
<1>4. \A s \in SUBSET Ids : LET y == [x EXCEPT !.ids = s] IN
        Kept(x, y) /\ y.ch = x.ch /\ y.act = x.act /\ y.pend = x.pend
  BY <1>1, SetLists, Zenon DEF Kept
<1>5. \A f \in SUBSET (Ids \cup {Cmc}) : LET y == [x EXCEPT !.rflow = f] IN
        Kept(x, y) /\ y.ch = x.ch /\ y.act = x.act
  BY <1>1, SetLists, Zenon DEF Kept
<1> QED BY <1>2, <1>3, <1>4, <1>5

LEMMA SendVpOk ==
  ASSUME NEW x, HostOk(x), NEW c \in Channels, NEW m \in MsgsOf(c)
  PROVE  Kept(x, channel_send_vp(x, c, m))
<1> DEFINE M == MsgsOf(c)
           q == Append(x.ch[c].mtxq, m)
           y == [x EXCEPT !.ch[c].mtxq = q]
           a == Append(y.act, c)
           z == [y EXCEPT !.ch[c].st = "active"]
           t == [z EXCEPT !.act = a]
<1>1. q \in Seq(MsgsOf(c))
  <2>1. x.ch[c].mtxq \in Seq(M) /\ m \in M
    BY ChanType
  <2> HIDE DEF M
  <2>2. Append(x.ch[c].mtxq, m) \in Seq(M)
    BY <2>1, AppendSet
  <2> QED BY <2>2 DEF M
<1>2. Kept(x, y)
  BY <1>1, SetField
<1>3. x \in Host /\ y \in Host
  BY <1>2, HostFacts DEF Kept
<1>4. channel_send_vp(x, c, m) = IF x.ch[c].st = "est" THEN t ELSE y
  <2>1. [y EXCEPT !.ch[c].st = "active", !.act = a] = t
    BY <1>3 DEF Host
  <2> QED BY <2>1 DEF channel_send_vp
<1> HIDE DEF y
<1>5. Kept(y, z) /\ Lists(y, z)
  BY <1>2, SetField DEF Kept
<1> HIDE DEF z
<1>6. a \in Seq(Channels)
  BY <1>2, HostFacts, AppendSet DEF Kept
<1> HIDE DEF a
<1>7. Kept(z, t)
  BY <1>5, <1>6, SetList DEF Kept
<1>8. Kept(x, t)
  BY <1>2, <1>5, <1>7, KeptTwice
<1> QED BY <1>2, <1>4, <1>8

LEMMA SendCloseOk ==
  ASSUME NEW x, HostOk(x), NEW c \in Handles
  PROVE  Kept(x, channel_send_close(x, c))
<1>1. c \in Channels /\ c # Cmc
  BY Consts DEF Channels
<1>2. x.ch[c].id \in Ids \cup {Nil}
  BY <1>1, ChanType
<1>3. Msg("eof", x.ch[c].id, "none") \in MsgsOf(c)
  BY <1>1, <1>2 DEF Msg, Msgs, MsgsOf
<1> QED BY <1>1, <1>3, SendVpOk DEF channel_send_close

\* A channel is taken off the list, and its id becomes free.
LEMMA UnlinkOk ==
  ASSUME NEW x, HostOk(x), NEW c \in Handles
  PROVE  /\ Kept(x, channel_unlink(x, c)) /\ Lists(x, channel_unlink(x, c))
         /\ channel_unlink(x, c).ch[c] = [x.ch[c] EXCEPT !.linked = FALSE]
         /\ channel_unlink(x, c).ch[c].id = x.ch[c].id
<1>1. c \in Channels
  BY DEF Channels
<1> DEFINE y == [x EXCEPT !.ch[c].linked = FALSE]
<1>2. Kept(x, y) /\ Lists(x, y) /\ y.ch[c] = [x.ch[c] EXCEPT !.linked = FALSE]
  <2> DEFINE k == [x.ch[c] EXCEPT !.linked = FALSE]
  <2>1. ChanOk(c, k) /\ y = [x EXCEPT !.ch[c] = k]
    BY <1>1, ChanType, ChanChanges
  <2> HIDE DEF k, y
  <2>2. Kept(x, y) /\ Lists(x, y) /\ y.ch[c] = k
    BY <1>1, <2>1, SetChan DEF Kept
  <2> QED BY <2>2 DEF k
<1>3. channel_unlink(x, c) = y
  BY DEF channel_unlink
<1> HIDE DEF y
<1>4. x.ch[c] \in Chan
  BY <1>1, ChanType
<1>5. y.ch[c].id = x.ch[c].id
  BY <1>2, <1>4 DEF Chan
<1> QED BY <1>2, <1>3, <1>5

LEMMA ReturnIdOk ==
  ASSUME NEW x, HostOk(x), NEW c \in Handles, x.ch[c].id \in Ids
  PROVE  Kept(x, ReturnId(x, c)) /\ ReturnId(x, c).ch = x.ch /\ ReturnId(x, c).pend = x.pend
<1>1. x.ids \cup {x.ch[c].id} \in SUBSET Ids
  BY HostFacts
<1> QED BY <1>1, SetList DEF ReturnId

LEMMA CloseOk ==
  ASSUME NEW x, HostOk(x), NEW c \in Handles, x.ch[c].id \in Ids
  PROVE  Kept(x, ReturnId(channel_unlink([x EXCEPT !.ch[c].st = "closed"], c), c))
<1> DEFINE y == [x EXCEPT !.ch[c].st = "closed"]
           z == channel_unlink(y, c)
<1>1. c \in Channels /\ c # Cmc
  BY Consts DEF Channels
<1>2. Kept(x, y) /\ y.ch[c] = [x.ch[c] EXCEPT !.st = "closed"]
  <2> DEFINE k == [x.ch[c] EXCEPT !.st = "closed"]
  <2>1. ChanOk(c, k) /\ y = [x EXCEPT !.ch[c] = k]
    BY <1>1, ChanType, ChanChanges
  <2> HIDE DEF k, y
  <2>2. Kept(x, y) /\ y.ch[c] = k
    BY <1>1, <2>1, SetChan DEF Kept
  <2> QED BY <2>2 DEF k
<1>3. y.ch[c].id \in Ids
  <2>1. x.ch[c] \in Chan
    BY <1>1, ChanType
  <2> QED BY <1>2, <2>1 DEF Chan
<1> HIDE DEF y
<1>4. Kept(y, z) /\ z.ch[c].id \in Ids
  BY <1>2, <1>3, UnlinkOk DEF Kept
<1> HIDE DEF z
<1>5. Kept(z, ReturnId(z, c))
  BY <1>4, ReturnIdOk DEF Kept
<1>6. Kept(x, ReturnId(z, c))
  BY <1>2, <1>4, <1>5, KeptTwice
<1> QED BY <1>6 DEF y, z

\* What a message from the device names, if anything, is a channel of a user.
LEMMA FoundOk ==
  ASSUME NEW x, HostOk(x), NEW id, channel_find(x, id) # {}
  PROVE  LET c == CHOOSE e \in channel_find(x, id) : TRUE IN
         /\ c \in Channels /\ x.ch[c].linked /\ x.ch[c].id = id
         /\ id \in Ids \cup {Nil} => c \in Handles /\ c # Cmc /\ x.ch[c].id \in Ids
<1> DEFINE c == CHOOSE e \in channel_find(x, id) : TRUE
<1>1. c \in channel_find(x, id)
  OBVIOUS
<1>2. c \in Channels /\ x.ch[c].linked /\ x.ch[c].id = id
  BY <1>1 DEF channel_find, Channels
<1> HIDE DEF c
<1>3. ASSUME id \in Ids \cup {Nil} PROVE c \in Handles /\ c # Cmc /\ x.ch[c].id \in Ids
  <2>1. id # Cmc
    BY <1>3, Consts
  <2>2. c # Cmc
    BY <1>2, <2>1, ChanType
  <2> QED BY <1>2, <2>2, ChanType DEF Channels
<1> QED BY <1>2, <1>3 DEF c

LEMMA OpenResponseOk ==
  ASSUME NEW x, HostOk(x), NEW m \in Msgs
  PROVE  Kept(x, cmc_handle_open_response(x, m).x)
<1> DEFINE C == channel_find(x, m.id)
           c == CHOOSE e \in C : TRUE
           b == IF c \in Reconnect THEN <<>> ELSE x.ch[c].rxbuf
           y == [x EXCEPT !.ch[c].rxbuf = b]
           a == [y EXCEPT !.ch[c].st = "active"]
<1>0. Kept(x, x)
  BY DEF Kept, Alike
<1>1. CASE C = {} \/ x.ch[c].st # "sent"
  <2>1. cmc_handle_open_response(x, m).x = x
    BY <1>1 DEF cmc_handle_open_response, Result
  <2> QED BY <1>0, <2>1
<1>2. CASE ~(C = {} \/ x.ch[c].st # "sent")
  <2>1. m.id \in Ids \cup {Nil}
    BY DEF Msgs
  <2>2. c \in Channels /\ c \in Handles /\ c # Cmc /\ x.ch[c].id \in Ids
    BY <1>2, <2>1, FoundOk
  <2>3. cmc_handle_open_response(x, m) =
          IF m.arg # "ok" THEN Result(ReturnId(channel_unlink([x EXCEPT !.ch[c].st = "closed"], c), c), "none")
          ELSE IF x.ch[c].mtxq = <<>> THEN Result([y EXCEPT !.ch[c].st = "est"], "none")
          ELSE Result([y EXCEPT !.ch[c].st = "active", !.act = Append(@, c)], "none")
    BY <1>2 DEF cmc_handle_open_response
  <2> HIDE DEF c, C
  <2>4. b \in Seq(Frags)
    BY <2>2, ChanType
  <2> HIDE DEF b
  <2>5. Kept(x, y)
    BY <2>2, <2>4, SetField
  <2> HIDE DEF y
  <2>6. Kept(y, [y EXCEPT !.ch[c].st = "est"]) /\ Kept(y, a) /\ Lists(y, a)
    BY <2>2, <2>5, SetField DEF Kept
  <2>7. Append(y.act, c) \in Seq(Channels) /\ y \in Host
    BY <2>2, <2>5, HostFacts, AppendSet DEF Kept
  <2>8. [y EXCEPT !.ch[c].st = "active", !.act = Append(@, c)] = [a EXCEPT !.act = Append(y.act, c)]
    BY <2>7 DEF Host
  <2> HIDE DEF a
  <2>9. Kept(a, [a EXCEPT !.act = Append(y.act, c)])
    BY <2>6, <2>7, SetList DEF Kept
  <2>10. /\ Kept(x, ReturnId(channel_unlink([x EXCEPT !.ch[c].st = "closed"], c), c))
         /\ Kept(x, [y EXCEPT !.ch[c].st = "est"])
         /\ Kept(x, [y EXCEPT !.ch[c].st = "active", !.act = Append(@, c)])
    <3>1. Kept(x, ReturnId(channel_unlink([x EXCEPT !.ch[c].st = "closed"], c), c))
      BY <2>2, CloseOk
    <3>2. Kept(x, [y EXCEPT !.ch[c].st = "est"])
      BY <2>5, <2>6, KeptTwice
    <3>3. Kept(x, a)
      BY <2>5, <2>6, KeptTwice
    <3>4. Kept(x, [a EXCEPT !.act = Append(y.act, c)])
      BY <2>9, <3>3, KeptTwice
    <3> QED BY <2>8, <3>1, <3>2, <3>4
  <2> QED BY <2>3, <2>10 DEF Result
<1> QED BY <1>1, <1>2

LEMMA HandleCloseOk ==
  ASSUME NEW x, HostOk(x), NEW m \in Msgs
  PROVE  Kept(x, cmc_handle_close(x, m).x)
<1> DEFINE C == channel_find(x, m.id)
           c == CHOOSE e \in C : TRUE
<1>0. Kept(x, x)
  BY DEF Kept, Alike
<1>1. CASE C = {} \/ x.ch[c].st \in {"pending", "sent", "closed"}
  <2>1. cmc_handle_close(x, m).x = x
    BY <1>1 DEF cmc_handle_close, Result
  <2> QED BY <1>0, <2>1
<1>2. CASE ~(C = {} \/ x.ch[c].st \in {"pending", "sent", "closed"})
  <2>1. m.id \in Ids \cup {Nil}
    BY DEF Msgs
  <2>2. c \in Channels /\ c \in Handles /\ c # Cmc /\ x.ch[c].id \in Ids
    BY <1>2, <2>1, FoundOk
  <2>3. cmc_handle_close(x, m) =
          IF x.ch[c].st = "csent"
          THEN Result(ReturnId(channel_unlink([x EXCEPT !.ch[c].st = "closed"], c), c), "none")
          ELSE Result(channel_send_close(x, c), "none")
    BY <1>2 DEF cmc_handle_close
  <2> HIDE DEF c, C
  <2>4. Kept(x, ReturnId(channel_unlink([x EXCEPT !.ch[c].st = "closed"], c), c)) /\ Kept(x, channel_send_close(x, c))
    BY <2>2, CloseOk, SendCloseOk
  <2> QED BY <2>3, <2>4 DEF Result
<1> QED BY <1>1, <1>2

LEMMA HostReceiveOk ==
  ASSUME NEW x, HostOk(x), NEW f \in Frags
  PROVE  Kept(x, HostChannelReceive(x, f).x)
<1> DEFINE C == channel_find(x, f.id)
           c == CHOOSE e \in C : TRUE
           q == Append(x.ch[c].rxbuf, f)
           n == [x EXCEPT !.ch[c].rxbuf = <<>>]
           b == Bump(x.ch[c].rx)
           y == [n EXCEPT !.ch[c].rx = b]
<1>0. Kept(x, x)
  BY DEF Kept, Alike
<1>1. CASE C = {}
  <2>1. HostChannelReceive(x, f).x = x
    BY <1>1 DEF HostChannelReceive, Result
  <2> QED BY <1>0, <2>1
<1>2. CASE C # {}
  <2>1. c \in Channels
    BY <1>2, FoundOk
  <2>2. /\ x \in Host /\ x.ch \in [Channels -> Chan] /\ x.ch[c] \in Chan
        /\ x.ch[c].rxbuf \in Seq(Frags) /\ b \in Keys /\ f.msg \in Msgs
    BY <2>1, HostFacts, ChanType, KeyTypes DEF Frags
  <2>3. [x EXCEPT !.ch[c].rxbuf = <<>>, !.ch[c].rx = Bump(@)] = y
    <3> HIDE DEF c
    <3>1. n.ch[c].rx = x.ch[c].rx
      BY <2>1, <2>2 DEF Host, Chan
    <3> QED BY <2>1, <2>2, <3>1 DEF Host, Chan
  <2>4. HostChannelReceive(x, f) =
          IF ~f.last THEN Result([x EXCEPT !.ch[c].rxbuf = q], "none")
          ELSE IF ~CrcOK(q, x.ch[c].rx) THEN Result(n, "CHECKSUM")
          ELSE IF f.msg.op = "resp" THEN cmc_handle_open_response(y, f.msg)
          ELSE IF f.msg.op = "close" THEN cmc_handle_close(y, f.msg)
          ELSE Result(y, "none")
    BY <1>2, <2>3, Zenon DEF HostChannelReceive
  <2> HIDE DEF c, C
  <2>5. q \in Seq(Frags) /\ <<>> \in Seq(Frags)
    BY <2>2
  <2> HIDE DEF b, q
  <2>6. Kept(x, [x EXCEPT !.ch[c].rxbuf = q]) /\ Kept(x, n)
    BY <2>1, <2>5, SetField
  <2> HIDE DEF n
  <2>7. Kept(n, y)
    BY <2>1, <2>2, <2>6, SetField DEF Kept
  <2> HIDE DEF y
  <2>8. Kept(x, y)
    BY <2>6, <2>7, KeptTwice
  <2>9. Kept(x, cmc_handle_open_response(y, f.msg).x) /\ Kept(x, cmc_handle_close(y, f.msg).x)
    <3>1. HostOk(y)
      BY <2>8 DEF Kept
    <3>2. Kept(y, cmc_handle_open_response(y, f.msg).x) /\ Kept(y, cmc_handle_close(y, f.msg).x)
      BY <2>2, <3>1, OpenResponseOk, HandleCloseOk
    <3> QED BY <2>8, <3>2, KeptTwice
  <2> QED BY <2>4, <2>6, <2>8, <2>9 DEF Result
<1> QED BY <1>1, <1>2

-----------------------------------------------------------------------------
(* fragment() as an induction over the messages it cuts.                   *)

LEMMA NatLeast == ASSUME NEW T, T \subseteq Nat, T # {} PROVE \E n \in T : \A k \in T : n <= k
  BY MinNat

LEMMA NatSteps == ASSUME NEW T, 0 \in T, \A n \in Nat : n \in T => n + 1 \in T PROVE Nat \subseteq T
<1>1. ASSUME Nat \ T # {} PROVE FALSE
  <2>1. PICK n \in Nat \ T : \A k \in Nat \ T : n <= k
    BY <1>1, NatLeast
  <2>2. n - 1 \in Nat /\ n - 1 \in T /\ (n - 1) + 1 = n
    BY <2>1
  <2> QED BY <2>1, <2>2
<1> QED BY <1>1

Cutting(vc, x, n, g) == g = [i \in 0 .. n |-> IF i = 0 THEN x ELSE CutNext(vc, g[i - 1], vc.mtxq[i])]

LEMMA CutsExist ==
  ASSUME NEW A, NEW x \in A, NEW vc, NEW n \in Nat, \A i \in 1 .. n : \A a \in A : CutNext(vc, a, vc.mtxq[i]) \in A
  PROVE  (\E g : Cutting(vc, x, n, g)) /\ \A g : Cutting(vc, x, n, g) => g[n] \in A
<1> DEFINE T == {m \in Nat : m <= n => \E g \in [0 .. m -> A] : Cutting(vc, x, m, g)}
<1>1. 0 \in T
  <2> DEFINE g == [i \in 0 .. 0 |-> x]
  <2>1. g \in [0 .. 0 -> A] /\ Cutting(vc, x, 0, g)
    BY DEF Cutting
  <2> HIDE DEF g
  <2> QED BY <2>1
<1>2. ASSUME NEW m \in Nat, m \in T PROVE m + 1 \in T
  <2>1. CASE m + 1 <= n
    <3>1. PICK g \in [0 .. m -> A] : Cutting(vc, x, m, g)
      BY <1>2, <2>1
    <3> DEFINE k == [i \in 0 .. m + 1 |-> IF i = m + 1 THEN CutNext(vc, g[m], vc.mtxq[m + 1]) ELSE g[i]]
    <3>2. k \in [0 .. m + 1 -> A]
      BY <2>1
    <3>3. \A i \in 0 .. m : g[i] = IF i = 0 THEN x ELSE CutNext(vc, g[i - 1], vc.mtxq[i])
      BY <3>1 DEF Cutting
    <3>4. \A i \in 0 .. m + 1 : k[i] = IF i = 0 THEN x ELSE CutNext(vc, k[i - 1], vc.mtxq[i])
      BY <3>3
    <3>5. Cutting(vc, x, m + 1, k)
      BY <3>2, <3>4 DEF Cutting
    <3> HIDE DEF k
    <3> QED BY <3>2, <3>5
  <2>2. CASE ~(m + 1 <= n)
    BY <2>2
  <2> QED BY <2>1, <2>2
<1>3. n \in T
  <2> HIDE DEF T
  <2>1. Nat \subseteq T
    BY <1>1, <1>2, NatSteps
  <2> QED BY <2>1
<1>4. ASSUME NEW g, Cutting(vc, x, n, g) PROVE g[n] \in A
  <2> DEFINE U == {m \in Nat : m <= n => g[m] \in A}
  <2>1. \A m \in 0 .. n : g[m] = IF m = 0 THEN x ELSE CutNext(vc, g[m - 1], vc.mtxq[m])
    BY <1>4 DEF Cutting
  <2>2. 0 \in U
    BY <2>1
  <2>3. ASSUME NEW m \in Nat, m \in U PROVE m + 1 \in U
    <3>1. CASE m + 1 <= n
      <4>1. g[m + 1] = CutNext(vc, g[m], vc.mtxq[m + 1]) /\ g[m] \in A /\ m + 1 \in 1 .. n
        BY <2>1, <2>3, <3>1
      <4> QED BY <4>1
    <3>2. CASE ~(m + 1 <= n)
      BY <3>2
    <3> QED BY <3>1, <3>2
  <2>4. n \in U
    <3> HIDE DEF U
    <3>1. Nat \subseteq U
      BY <2>2, <2>3, NatSteps
    <3> QED BY <3>1
  <2> QED BY <2>4
<1> QED BY <1>3, <1>4

Cuts(c) == [q : Seq(FragsOf(c)), key : Keys]

LEMMA CutNextType ==
  ASSUME NEW c \in Channels, NEW k, ChanOk(c, k), NEW a \in Cuts(c), NEW m \in MsgsOf(c)
  PROVE  CutNext(k, a, m) \in Cuts(c)
<1> DEFINE F == FragsOf(c)
           s == Cut(k.id, a.key, m)
           n == IF m.op = "eof" THEN a.key ELSE Bump(a.key)
<1>1. /\ k.id \in Ids \cup {Nil, Cmc} /\ a.key \in Keys /\ m \in Msgs /\ a.q \in Seq(F)
      /\ (c = Cmc => m.op # "eof") /\ (c # Cmc => k.id # Cmc)
  BY DEF ChanOk, Chan, Cuts, MsgsOf
<1>2. /\ s \in Seq(Frags) /\ Len(s) \in Nat /\ DOMAIN s = 1 .. Len(s)
      /\ \A i \in DOMAIN s : s[i].id = k.id /\ s[i].msg = m
  <2> DEFINE id == k.id
             key == a.key
  <2>1. id \in Ids \cup {Nil, Cmc} /\ key \in Keys /\ m \in Msgs
    BY <1>1
  <2> HIDE DEF id, key
  <2> DEFINE t == Cut(id, key, m)
  <2>2. t \in Seq(Frags)
    BY <2>1, CutType
  <2>3. \A i \in DOMAIN t : t[i].id = id /\ t[i].msg = m
    BY DEF Cut
  <2> HIDE DEF t
  <2>4. Len(t) \in Nat /\ DOMAIN t = 1 .. Len(t)
    BY <2>2
  <2> QED BY <2>2, <2>3, <2>4 DEF id, key, t
<1>3. n \in Keys
  BY <1>1, KeyTypes
<1>4. CutNext(k, a, m) = [q |-> a.q \o s, key |-> n]
  BY DEF CutNext
<1> HIDE DEF s, n
<1>5. \A i \in 1 .. Len(s) : s[i] \in F
  BY <1>1, <1>2 DEF FragsOf
<1>6. s \in Seq(F)
  <2> HIDE DEF F
  <2>1. s \in [1 .. Len(s) -> F]
    BY <1>2, <1>5
  <2> QED BY <1>2, <2>1
<1>7. a.q \o s \in Seq(F)
  <2> HIDE DEF F
  <2> QED BY <1>1, <1>6
<1> QED BY <1>3, <1>4, <1>7 DEF Cuts

LEMMA FragmentKeeps ==
  ASSUME NEW c \in Channels, NEW k, ChanOk(c, k)
  PROVE  ChanOk(c, fragment(k)) /\ fragment(k).st = k.st /\ fragment(k).id = k.id
<1> DEFINE n == Len(k.mtxq)
           x == [q |-> k.txq, key |-> k.tx]
           P(g) == g = [i \in 0 .. n |-> IF i = 0 THEN x ELSE CutNext(k, g[i - 1], k.mtxq[i])]
           cut == CHOOSE g : P(g)
           all == cut[n]
           k1 == [k EXCEPT !.txq = all.q]
           k2 == [k1 EXCEPT !.tx = all.key]
           k3 == [k2 EXCEPT !.mtxq = <<>>]
<1>1. k \in Chan /\ k.txq \in Seq(FragsOf(c)) /\ k.tx \in Keys /\ k.mtxq \in Seq(MsgsOf(c))
  BY DEF ChanOk, Chan
<1>2. x \in Cuts(c) /\ n \in Nat /\ \A i \in 1 .. n : k.mtxq[i] \in MsgsOf(c)
  BY <1>1 DEF Cuts
<1>3. \A i \in 1 .. n : \A a \in Cuts(c) : CutNext(k, a, k.mtxq[i]) \in Cuts(c)
  BY <1>2, CutNextType
<1>4. fragment(k) = [k EXCEPT !.txq = all.q, !.tx = all.key, !.mtxq = <<>>]
  BY DEF fragment
<1> HIDE DEF x, n
<1>5. (\E g : P(g)) /\ \A g : P(g) => g[n] \in Cuts(c)
  <2>1. (\E g : Cutting(k, x, n, g)) /\ \A g : Cutting(k, x, n, g) => g[n] \in Cuts(c)
    BY <1>2, <1>3, CutsExist
  <2> QED BY <2>1, Zenon DEF Cutting
<1> HIDE DEF P
<1>6. P(cut)
  BY <1>5
<1>7. all \in Cuts(c)
  BY <1>5, <1>6
<1> HIDE DEF cut, all
<1>8. all.q \in Seq(FragsOf(c)) /\ all.key \in Keys /\ <<>> \in Seq(MsgsOf(c))
  BY <1>7 DEF Cuts
<1>9. fragment(k) = k3
  BY <1>1, <1>4 DEF Chan
<1>10. ChanOk(c, k1)
  BY <1>8, ChanChanges
<1>11. k1.st = k.st /\ k1.id = k.id
  BY <1>1 DEF Chan
<1> HIDE DEF k1
<1>12. ChanOk(c, k2) /\ k1 \in Chan
  <2>1. ChanOk(c, k2)
    BY <1>8, <1>10, ChanChanges
  <2> QED BY <1>10, <2>1 DEF ChanOk
<1>13. k2.st = k1.st /\ k2.id = k1.id
  BY <1>12 DEF Chan
<1> HIDE DEF k2
<1>14. ChanOk(c, k3) /\ k2 \in Chan
  <2>1. ChanOk(c, k3)
    BY <1>8, <1>12, ChanChanges
  <2> QED BY <1>12, <2>1 DEF ChanOk
<1>15. k3.st = k2.st /\ k3.id = k2.id
  BY <1>14 DEF Chan
<1> QED BY <1>9, <1>11, <1>13, <1>14, <1>15

\* All channels at once.
LEMMA SetChans ==
  ASSUME NEW x, HostOk(x), NEW f \in [Channels -> Chan], \A c \in Channels : ChanOk(c, f[c])
  PROVE  LET y == [x EXCEPT !.ch = f] IN Kept(x, y) /\ Lists(x, y) /\ y.ch = f
<1> DEFINE y == [x EXCEPT !.ch = f]
<1>1. x \in Host
  BY HostFacts
<1>2. y \in Host
  BY <1>1 DEF Host, Channels
<1>3. Alike(x, y) /\ Lists(x, y) /\ y.ch = f
  BY <1>1 DEF Host, Alike, Lists
<1> HIDE DEF y
<1>4. HostOk(y)
  BY <1>2, <1>3 DEF HostOk, Alike, Channels
<1> QED BY <1>3, <1>4 DEF Kept, y

LEMMA CutAllOk ==
  ASSUME HostOk(h), NEW C
  PROVE  Kept(h, CutAll(C)) /\ Lists(h, CutAll(C)) /\ \A c \in Channels : CutAll(C).ch[c].st = h.ch[c].st
<1> DEFINE f == [c \in Channels |-> IF c \in C THEN fragment(h.ch[c]) ELSE h.ch[c]]
<1>1. h \in Host /\ h.ch \in [Channels -> Chan] /\ \A c \in Channels : ChanOk(c, h.ch[c])
  BY HostFacts
<1>2. \A c \in Channels : ChanOk(c, f[c]) /\ f[c].st = h.ch[c].st
  BY <1>1, FragmentKeeps
<1>3. f \in [Channels -> Chan]
  <2>1. \A c \in Channels : f[c] \in Chan
    BY <1>2 DEF ChanOk
  <2> QED BY <2>1
<1>4. CutAll(C) = [h EXCEPT !.ch = f]
  BY <1>1 DEF CutAll, Host
<1> HIDE DEF f
<1> QED BY <1>2, <1>3, <1>4, SetChans

LEMMA NoChannelType ==
  /\ NoChannel \in Chan /\ NoChannel.id = Nil /\ NoChannel.mtxq = <<>> /\ NoChannel.txq = <<>> /\ ~NoChannel.linked
  /\ NoChannel.user = "none" /\ NoChannel.st = "none"
<1>1. Key(Nil, 0) \in Keys
  BY KeyTypes DEF Cookie
<1>2. <<>> \in Seq(Msgs) /\ <<>> \in Seq(Frags)
  OBVIOUS
<1> QED BY <1>1, <1>2 DEF NoChannel, Chan

LEMMA GoneOk == ASSUME NEW c \in Handles PROVE ChanOk(c, Gone)
<1>1. c # Cmc /\ Nil # Cmc
  BY Consts
<1>2. <<>> \in Seq(MsgsOf(c)) /\ <<>> \in Seq(FragsOf(c))
  OBVIOUS
<1>3. Gone \in Chan
  BY NoChannelType DEF Gone, Chan
<1>4. Gone.st = "closed" /\ Gone.mtxq = <<>> /\ Gone.txq = <<>> /\ Gone.id = Nil /\ ~Gone.linked /\ Gone.user = "done"
  BY NoChannelType DEF Gone, Chan
<1> QED BY <1>1, <1>2, <1>3, <1>4 DEF ChanOk

LEMMA ReapOk == ASSUME NEW x, HostOk(x) PROVE Kept(x, Reap(x))
<1> DEFINE f == [c \in Channels |-> IF Freed(x, c) THEN Gone ELSE x.ch[c]]
<1>1. x \in Host /\ x.ch \in [Channels -> Chan] /\ \A c \in Channels : ChanOk(c, x.ch[c])
  BY HostFacts
<1>2. ASSUME NEW c \in Channels PROVE ChanOk(c, f[c])
  <2>1. c = Cmc => ~Freed(x, c)
    BY ChanType DEF Freed
  <2>2. c # Cmc => ChanOk(c, Gone)
    BY GoneOk DEF Channels
  <2> QED BY <1>1, <2>1, <2>2
<1>3. f \in [Channels -> Chan]
  <2>1. \A c \in Channels : f[c] \in Chan
    BY <1>2 DEF ChanOk
  <2> QED BY <2>1
<1>4. Reap(x) = [x EXCEPT !.ch = f]
  BY <1>1 DEF Reap, Host
<1> HIDE DEF f
<1> QED BY <1>2, <1>3, <1>4, SetChans

LEMMA HostStepsOk ==
  ASSUME NEW x, HostOk(x), NEW b \in BOOLEAN, h' = Reap([x EXCEPT !.poke = b])
  PROVE  Kept(x, h')
<1> DEFINE y == [x EXCEPT !.poke = b]
<1>1. Kept(x, y)
  <2>1. 0 \in Nat
    OBVIOUS
  <2> QED BY <2>1, SetBits, Zenon DEF Kept
<1> HIDE DEF y
<1>2. Kept(y, Reap(y))
  BY <1>1, ReapOk DEF Kept
<1>3. h' = Reap(y)
  BY DEF y
<1> QED BY <1>1, <1>2, <1>3, KeptTwice

-----------------------------------------------------------------------------
(* What the host does to a session.                                        *)

Resting(x, y) == /\ y.conn = x.conn /\ y.S = x.S /\ y.E = x.E /\ y.iv = x.iv /\ y.cur = x.cur
                 /\ y.sent = x.sent /\ y.rcvd = x.rcvd /\ y.joined = x.joined /\ y.rejoined = x.rejoined

LEMMA SeqOfSet == ASSUME NEW S, IsFiniteSet(S) PROVE SetToSeq(S) \in Seq(S)
<1> DEFINE n == Cardinality(S)
<1>1. n \in Nat /\ ExistsBijection(1 .. n, S)
  BY FS_CardinalityType
<1>2. \E f \in [1 .. n -> S] : IsInjective(f)
  BY <1>1 DEF ExistsBijection, Bijection, Injection
<1>3. SetToSeq(S) \in [1 .. n -> S]
  BY <1>2 DEF SetToSeq
<1> QED BY <1>1, <1>3

LEMMA BeginOk ==
  ASSUME NEW x, HostOk(x)
  PROVE  HostOk(DisconnectBegin(x)) /\ Resting(x, DisconnectBegin(x)) /\ (DisconnectBegin(x).eof => x.conn \/ x.eof)
<1>1. CASE ~x.conn
  BY <1>1 DEF DisconnectBegin, Resting
<1>2. CASE x.conn
  <2> DEFINE linked == {c \in Handles : x.ch[c].linked}
             again == {c \in linked : Reopens(x, c)}
             gone == linked \ again
             moved == {c \in again : x.ch[c].st # "pending"}
             a == Without(x.act, linked)
             q == Without(x.pend, gone) \o SetToSeq(moved)
             s == x.ids \cup {x.ch[c].id : c \in gone}
             shut(c) == [x.ch[c] EXCEPT !.linked = FALSE,
                                        !.st = IF x.ch[c].st = "csent" THEN "closed" ELSE x.ch[c].st]
             f == [c \in Channels |-> IF c \in moved THEN [x.ch[c] EXCEPT !.st = "pending"]
                                      ELSE IF c \in gone THEN shut(c) ELSE x.ch[c]]
             y1 == [x EXCEPT !.eof = TRUE]
             y2 == [y1 EXCEPT !.act = a]
             y3 == [y2 EXCEPT !.pend = q]
             y4 == [y3 EXCEPT !.ids = s]
             y5 == [y4 EXCEPT !.ch = f]
  <2>1. /\ x \in Host /\ x.ch \in [Channels -> Chan] /\ x.act \in Seq(Channels) /\ x.pend \in Seq(Handles)
        /\ x.ids \subseteq Ids
    BY HostFacts
  <2>2. DisconnectBegin(x) = [x EXCEPT !.eof = TRUE, !.act = a, !.pend = q, !.ids = s, !.ch = f]
    BY <1>2, <2>1 DEF DisconnectBegin
  <2>3. gone \subseteq Handles /\ moved \subseteq Handles /\ (\A c \in gone : x.ch[c].linked) /\ IsFiniteSet(moved)
    <3>1. gone \subseteq Handles /\ moved \subseteq Handles /\ \A c \in gone : x.ch[c].linked
      OBVIOUS
    <3> HIDE DEF moved
    <3> QED BY <3>1, VllpConstants, FS_Subset
  <2>4. a \in Seq(Channels)
    BY <2>1, WithoutSet
  <2>5. q \in Seq(Handles)
    <3> HIDE DEF moved, gone
    <3>1. SetToSeq(moved) \in Seq(moved)
      BY <2>3, SeqOfSet
    <3> DEFINE t == SetToSeq(moved)
               v == Without(x.pend, gone)
    <3>2. v \in Seq(Handles)
      BY <2>1, WithoutSet
    <3> HIDE DEF t, v
    <3>3. t \in Seq(Handles)
      BY <2>3, <3>1 DEF t
    <3>4. v \o t \in Seq(Handles)
      BY <3>2, <3>3
    <3> QED BY <3>4 DEF t, v
  <2>6. s \in SUBSET Ids
    <3> HIDE DEF gone
    <3>1. \A c \in gone : x.ch[c].id \in Ids
      <4> SUFFICES ASSUME NEW c \in gone PROVE x.ch[c].id \in Ids
        OBVIOUS
      <4>1. c \in Channels /\ c # Cmc /\ x.ch[c].linked
        BY <2>3, Consts DEF Channels
      <4> QED BY <4>1, ChanType
    <3> QED BY <2>1, <3>1
  <2>7. \A c \in Channels : ChanOk(c, f[c])
    <3> HIDE DEF gone, moved
    <3> SUFFICES ASSUME NEW c \in Channels PROVE ChanOk(c, f[c])
      OBVIOUS
    <3>1. ChanOk(c, x.ch[c]) /\ x.ch[c] \in Chan
      BY ChanType
    <3>2. CASE c \in moved
      <4>1. c # Cmc
        BY <2>3, <3>2, Consts
      <4>2. f[c] = [x.ch[c] EXCEPT !.st = "pending"]
        BY <3>2
      <4> QED BY <3>1, <4>1, <4>2, ChanChanges
    <3>3. CASE c \notin moved /\ c \in gone
      <4> DEFINE t == IF x.ch[c].st = "csent" THEN "closed" ELSE x.ch[c].st
                 k == [x.ch[c] EXCEPT !.linked = FALSE, !.st = t]
      <4>1. c # Cmc
        BY <2>3, <3>3, Consts
      <4>2. f[c] = k
        BY <3>3
      <4>3. t \in {"none", "pending", "sent", "est", "active", "csent", "closed"} /\ (t = "none" => x.ch[c].st = "none")
        BY <3>1 DEF Chan
      <4> HIDE DEF t
      <4>4. k \in Chan
        BY <3>1, <4>3 DEF Chan
      <4>5. k.st = t /\ k.mtxq = x.ch[c].mtxq /\ k.txq = x.ch[c].txq /\ k.id = x.ch[c].id /\ ~k.linked /\ k.user = x.ch[c].user
        BY <3>1 DEF Chan
      <4> HIDE DEF k, f
      <4> QED BY <3>1, <4>1, <4>2, <4>3, <4>4, <4>5 DEF ChanOk
    <3>4. CASE c \notin moved /\ c \notin gone
      BY <3>1, <3>4
    <3> QED BY <3>2, <3>3, <3>4
  <2>8. f \in [Channels -> Chan]
    <3>1. \A c \in Channels : f[c] \in Chan
      BY <2>7 DEF ChanOk
    <3> HIDE DEF gone, moved
    <3> QED BY <3>1
  <2> HIDE DEF a, q, s, f
  <2>9. DisconnectBegin(x) = y5
    BY <2>1, <2>2 DEF Host
  <2>10. y1 \in Host
    BY <2>1 DEF Host
  <2>11. Resting(x, y1) /\ y1.eof /\ y1.ch = x.ch
    BY <2>1 DEF Host, Resting
  <2>12. HostOk(y1)
    BY <2>10, <2>11 DEF HostOk, Resting
  <2> HIDE DEF y1
  <2>13. Kept(y1, y2)
    BY <2>4, <2>12, SetList
  <2> HIDE DEF y2
  <2>14. Kept(y2, y3)
    BY <2>5, <2>13, SetList DEF Kept
  <2> HIDE DEF y3
  <2>15. Kept(y3, y4)
    BY <2>6, <2>14, SetList DEF Kept
  <2> HIDE DEF y4
  <2>16. Kept(y4, y5)
    BY <2>7, <2>8, <2>15, SetChans DEF Kept
  <2> HIDE DEF y5
  <2>17. Kept(y1, y3)
    BY <2>13, <2>14, KeptTwice
  <2>18. Kept(y1, y4)
    BY <2>15, <2>17, KeptTwice
  <2>19. Kept(y1, y5)
    BY <2>16, <2>18, KeptTwice
  <2> QED BY <1>2, <2>9, <2>11, <2>19 DEF Kept, Alike, Resting
<1> QED BY <1>1, <1>2

Hung(x, y) == /\ ~y.conn /\ ~y.eof /\ y.S = 0 /\ y.E = 1 /\ y.iv = x.iv /\ y.cur = x.cur
              /\ y.sent = x.sent /\ y.rcvd = x.rcvd /\ y.joined = x.joined /\ y.rejoined = x.rejoined

LEMMA EndOk == ASSUME NEW x, HostOk(x) PROVE HostOk(DisconnectEnd(x)) /\ Hung(x, DisconnectEnd(x))
<1> DEFINE y == [x EXCEPT !.conn = FALSE, !.S = 0, !.E = 1]
           z == [y EXCEPT !.rtx = FALSE, !.eof = FALSE]
<1>1. x \in Host /\ 0 \in 0 .. 1 /\ 1 \in 0 .. 1
  BY HostFacts
<1>2. DisconnectEnd(x) = z
  BY <1>1 DEF DisconnectEnd, Host
<1>3. y \in Host
  BY <1>1 DEF Host
<1>4. /\ ~y.conn /\ y.S = 0 /\ y.E = 1 /\ y.iv = x.iv /\ y.cur = x.cur /\ y.ch = x.ch
      /\ y.sent = x.sent /\ y.rcvd = x.rcvd /\ y.joined = x.joined /\ y.rejoined = x.rejoined
  BY <1>1 DEF Host
<1> HIDE DEF y
<1>5. z \in Host
  BY <1>3 DEF Host
<1>6. /\ z.conn = y.conn /\ ~z.eof /\ z.S = y.S /\ z.E = y.E /\ z.iv = y.iv /\ z.cur = y.cur /\ z.ch = y.ch
      /\ z.sent = y.sent /\ z.rcvd = y.rcvd /\ z.joined = y.joined /\ z.rejoined = y.rejoined
  BY <1>3 DEF Host
<1> HIDE DEF z
<1> QED BY <1>2, <1>4, <1>5, <1>6 DEF HostOk, Hung

Cleared(x, y) == /\ y.conn = x.conn /\ y.S = x.S /\ y.E = x.E /\ y.iv = x.iv /\ y.cur = <<>> /\ y.eof = x.eof
                 /\ y.sent = x.sent /\ y.rcvd = x.rcvd /\ y.joined = x.joined /\ y.rejoined = x.rejoined
Took(x, p, y) == /\ y.conn = x.conn /\ y.S = x.S /\ y.E = 1 - x.E /\ y.iv = x.iv /\ y.cur = x.cur /\ y.eof = x.eof
                 /\ y.sent = x.sent /\ y.rcvd = Append(x.rcvd, p.n) /\ y.joined = x.joined /\ y.rejoined = x.rejoined
Heeds(x, p, y) == Alike(x, y) \/ (PeerAccepted(x, p) /\ Cleared(x, y))
Takes(x, p, y) == Alike(x, y) \/ (p.t = "data" /\ WeCanAccept(x, p) /\ Took(x, p, y))

LEMMA HostAckOk ==
  ASSUME NEW x, HostOk(x), NEW p
  PROVE  HostOk(HostAcknowledge(x, p)) /\ Heeds(x, p, HostAcknowledge(x, p))
<1> DEFINE y == [x EXCEPT !.rtx = TRUE]
           z == [x EXCEPT !.cur = <<>>, !.rtx = FALSE]
<1>1. HostAcknowledge(x, p) = IF x.cur = <<>> THEN x ELSE IF ~PeerAccepted(x, p) THEN y ELSE z
  BY DEF HostAcknowledge
<1>2. x \in Host /\ <<>> \in Seq(Frags)
  BY HostFacts
<1>3. y \in Host /\ z \in Host
  BY <1>2 DEF Host
<1>4. Alike(x, x)
  BY DEF Alike
<1>5. Alike(x, y) /\ y.ch = x.ch
  BY <1>2 DEF Host, Alike
<1>6. Cleared(x, z) /\ z.ch = x.ch
  BY <1>2 DEF Host, Cleared
<1> HIDE DEF y, z
<1>7. HostOk(y)
  BY <1>3, <1>5 DEF HostOk, Alike
<1>8. HostOk(z)
  <2>1. Len(z.cur) <= 1
    BY <1>6 DEF Cleared
  <2> QED BY <1>3, <1>6, <2>1 DEF HostOk
<1> QED BY <1>1, <1>4, <1>5, <1>6, <1>7, <1>8 DEF Heeds

LEMMA AcceptedOk ==
  ASSUME NEW x, HostOk(x), NEW p \in Datas
  PROVE  HostOk(Accepted(x, p)) /\ Took(x, p, Accepted(x, p))
<1> DEFINE e == 1 - x.E
           r == Append(x.rcvd, p.n)
           y == [x EXCEPT !.E = e, !.rcvd = r]
<1>1. x \in Host /\ x.E \in 0 .. 1 /\ x.rcvd \in Seq(Nat) /\ p.n \in Nat
  <2>1. x \in Host
    BY HostFacts
  <2>2. x.E \in 0 .. 1 /\ x.rcvd \in Seq(Nat)
    BY <2>1 DEF Host
  <2>3. p.n \in Nat
    BY DEF Datas
  <2> QED BY <2>1, <2>2, <2>3
<1>2. e \in 0 .. 1 /\ r \in Seq(Nat)
  BY <1>1
<1>3. Accepted(x, p) = y
  BY DEF Accepted
<1> HIDE DEF e, r
<1>4. y \in Host
  BY <1>1, <1>2 DEF Host
<1>5. /\ y.conn = x.conn /\ y.S = x.S /\ y.E = e /\ y.iv = x.iv /\ y.cur = x.cur /\ y.eof = x.eof /\ y.ch = x.ch
      /\ y.sent = x.sent /\ y.rcvd = r /\ y.joined = x.joined /\ y.rejoined = x.rejoined
  BY <1>1 DEF Host
<1> HIDE DEF y
<1>6. HostOk(y)
  BY <1>4, <1>5 DEF HostOk
<1> QED BY <1>3, <1>5, <1>6 DEF Took, e, r

LEMMA FlowOk ==
  ASSUME NEW x, HostOk(x), NEW p \in Datas
  PROVE  Kept(x, [x EXCEPT !.rflow = IF p.f THEN @ \cup {p.frag.id} ELSE @ \ {p.frag.id}])
<1> DEFINE f == IF p.f THEN x.rflow \cup {p.frag.id} ELSE x.rflow \ {p.frag.id}
<1>1. x.rflow \subseteq Ids \cup {Cmc} /\ (p.f => p.frag.id \in Ids \cup {Cmc})
  BY HostFacts DEF Datas
<1>2. f \in SUBSET (Ids \cup {Cmc})
  BY <1>1
<1>3. Kept(x, [x EXCEPT !.rflow = f])
  <2> HIDE DEF f
  <2> QED BY <1>2, SetList
<1> QED BY <1>3

LEMMA HostRxDataOk ==
  ASSUME NEW x, HostOk(x), NEW p \in Datas
  PROVE  LET r == HostRxData(x, p) IN
         /\ HostOk(r.x)
         /\ r.err # "none" => Alike(x, r.x)
         /\ r.err = "none" => \E z : Takes(x, p, z) /\ Heeds(z, p, r.x)
<1> DEFINE r == HostChannelReceive(x, p.frag)
           Flow(y) == [y EXCEPT !.rflow = IF p.f THEN @ \cup {p.frag.id} ELSE @ \ {p.frag.id}]
           v == Flow(x)
           a == Accepted(r.x, p)
           w == Flow(a)
<1>1. HostRxData(x, p) = IF ~WeCanAccept(x, p) THEN Result(HostAcknowledge(v, p), "none")
                         ELSE IF r.err # "none" THEN r
                         ELSE Result(HostAcknowledge(w, p), "none")
  BY DEF HostRxData
<1>2. p.frag \in Frags /\ p.t = "data"
  BY DEF Datas
<1>3. Kept(x, v)
  BY FlowOk
<1> HIDE DEF v
<1>4. HostOk(HostAcknowledge(v, p)) /\ Heeds(v, p, HostAcknowledge(v, p))
  BY <1>3, HostAckOk DEF Kept
<1>5. Kept(x, r.x)
  BY <1>2, HostReceiveOk
<1> HIDE DEF r
<1>6. HostOk(a) /\ Took(r.x, p, a)
  BY <1>5, AcceptedOk DEF Kept
<1> HIDE DEF a
<1>7. Kept(a, w)
  BY <1>6, FlowOk
<1> HIDE DEF w
<1>8. HostOk(HostAcknowledge(w, p)) /\ Heeds(w, p, HostAcknowledge(w, p))
  BY <1>7, HostAckOk DEF Kept
<1>9. Took(x, p, w)
  BY <1>5, <1>6, <1>7 DEF Kept, Alike, Took
<1>10. CASE ~WeCanAccept(x, p)
  <2>1. HostRxData(x, p).x = HostAcknowledge(v, p) /\ HostRxData(x, p).err = "none"
    BY <1>1, <1>10 DEF Result
  <2>2. Takes(x, p, v)
    BY <1>3 DEF Takes, Kept
  <2> QED BY <1>4, <2>1, <2>2
<1>11. CASE WeCanAccept(x, p) /\ r.err # "none"
  BY <1>1, <1>5, <1>11 DEF Kept
<1>12. CASE WeCanAccept(x, p) /\ ~(r.err # "none")
  <2>1. HostRxData(x, p).x = HostAcknowledge(w, p) /\ HostRxData(x, p).err = "none"
    BY <1>1, <1>12 DEF Result
  <2>2. Takes(x, p, w)
    BY <1>2, <1>9, <1>12 DEF Takes
  <2> QED BY <1>8, <2>1, <2>2
<1> QED BY <1>10, <1>11, <1>12

Joins(x, y) == /\ y.conn /\ y.S = x.S /\ y.E = x.E /\ y.iv = x.iv /\ y.cur = x.cur /\ y.eof = x.eof
               /\ y.sent = x.sent /\ y.rcvd = x.rcvd /\ y.joined /\ y.rejoined = (x.rejoined \/ x.joined)

LEMMA JoinOk == ASSUME NEW x, HostOk(x) PROVE HostOk(Join(x)) /\ Joins(x, Join(x))
<1> DEFINE b == x.rejoined \/ x.joined
           y == [x EXCEPT !.conn = TRUE, !.joined = TRUE, !.rejoined = b]
<1>1. x \in Host /\ b \in BOOLEAN
  BY HostFacts DEF Host
<1>2. Join(x) = y
  BY DEF Join
<1> HIDE DEF b
<1>3. y \in Host
  BY <1>1 DEF Host
<1>4. /\ y.conn /\ y.S = x.S /\ y.E = x.E /\ y.iv = x.iv /\ y.cur = x.cur /\ y.eof = x.eof /\ y.ch = x.ch
      /\ y.sent = x.sent /\ y.rcvd = x.rcvd /\ y.joined /\ y.rejoined = b
  BY <1>1 DEF Host
<1> HIDE DEF y
<1> QED BY <1>2, <1>3, <1>4 DEF HostOk, Joins, b

\* What the host makes of a packet.
LEMMA HostRxOk ==
  ASSUME NEW x, HostOk(x), NEW p \in Acks \cup Datas
  PROVE  LET r == vllp_handle_rx(x, p) IN
         /\ HostOk(r.x)
         /\ r.err # "none" => Alike(x, r.x)
         /\ r.err = "none" =>
              \/ ~x.conn /\ p.t = "ack" /\ p.iv = x.iv /\ p.e = 1 /\ Joins(x, r.x)
              \/ x.conn /\ \E z : Takes(x, p, z) /\ Heeds(z, p, r.x)
<1> DEFINE y == [x EXCEPT !.rflow = p.flow \cup {Cmc}]
<1>0. Alike(x, x) /\ "none" # "CHECKSUM" /\ "none" # "BAD_STATE"
  BY DEF Alike
<1>1. CASE p.t = "ack"
  <2>1. p \in Acks
    BY <1>1 DEF Datas
  <2>2. p.flow \cup {Cmc} \in SUBSET (Ids \cup {Cmc})
    BY <2>1 DEF Acks
  <2>3. Kept(x, y)
    BY <2>2, SetList
  <2>4. vllp_handle_rx(x, p) =
          IF p.iv # x.iv THEN Result(x, "CHECKSUM")
          ELSE IF ~x.conn THEN IF p.s = 0 /\ p.e = 1 THEN Result(Join(y), "none") ELSE Result(y, "BAD_STATE")
          ELSE Result(HostAcknowledge(y, p), "none")
    BY <1>1 DEF vllp_handle_rx
  <2> HIDE DEF y
  <2>5. HostOk(Join(y)) /\ Joins(x, Join(y))
    BY <2>3, JoinOk DEF Kept, Alike, Joins
  <2>6. HostOk(HostAcknowledge(y, p)) /\ Takes(x, p, y) /\ Heeds(y, p, HostAcknowledge(y, p))
    BY <2>3, HostAckOk DEF Kept, Takes
  <2>7. CASE p.iv # x.iv
    BY <1>0, <2>4, <2>7 DEF Result
  <2>8. CASE p.iv = x.iv /\ ~x.conn
    <3>1. CASE p.s = 0 /\ p.e = 1
      <4>1. vllp_handle_rx(x, p) = Result(Join(y), "none")
        BY <2>4, <2>8, <3>1
      <4> QED BY <1>1, <2>5, <2>8, <3>1, <4>1 DEF Result
    <3>2. CASE ~(p.s = 0 /\ p.e = 1)
      <4>1. vllp_handle_rx(x, p) = Result(y, "BAD_STATE")
        BY <2>4, <2>8, <3>2
      <4> QED BY <1>0, <2>3, <4>1 DEF Result, Kept
    <3> QED BY <3>1, <3>2
  <2>9. CASE p.iv = x.iv /\ x.conn
    <3>1. vllp_handle_rx(x, p) = Result(HostAcknowledge(y, p), "none")
      BY <2>4, <2>9
    <3> QED BY <2>6, <2>9, <3>1 DEF Result
  <2> QED BY <2>7, <2>8, <2>9
<1>2. CASE p.t # "ack"
  <2>1. p \in Datas
    BY <1>2 DEF Acks
  <2>2. vllp_handle_rx(x, p) = IF ~x.conn THEN Result(x, "BAD_STATE") ELSE HostRxData(x, p)
    BY <1>2 DEF vllp_handle_rx
  <2>3. CASE ~x.conn
    BY <1>0, <2>2, <2>3 DEF Result
  <2>4. CASE x.conn
    BY <2>1, <2>2, <2>4, HostRxDataOk
  <2> QED BY <2>3, <2>4
<1> QED BY <1>1, <1>2

-----------------------------------------------------------------------------
(* The steps of the host and its users.                                    *)

HostMoves(x, y, z) ==
  /\ z.sent = x.sent \/ (z.sent = x.sent + 1 /\ x.sent = Len(y.rcvd))
  /\ z.rcvd = x.rcvd \/ (z.rcvd = Append(x.rcvd, Len(x.rcvd) + 1) /\ y.sent = Len(x.rcvd) + 1)
HostGoesOn ==
  /\ d' = d /\ h'.sent \in {0, h.sent, h.sent + 1}
  /\ InSession' => InSession /\ HostMoves(h, d, h')

LEMMA HostKeeps ==
  ASSUME IInv, HostOk(h'), PhaseOk(h'), d' = d, h'.iv = h.iv, h'.sent \in {0, h.sent, h.sent + 1},
         up' \in Seq(Packets), Len(up') <= WireMax,
         \A i \in 1 .. Len(up') : up'[i].t = "syn" => \E k \in 1 .. Len(up) : up'[i] = up[k],
         \A i \in 1 .. Len(up') : IsSyn(up'[i], h.iv) => i = Len(up') /\ ~h'.joined,
         down' \in Seq(Acks \cup Datas), Len(down') <= WireMax, Drawn(down, 1 .. Len(down), down', 1 .. Len(down')),
         faults' \in Nat, traffic' \in Nat,
         InSession' => InSession /\ HostMoves(h, d, h') /\ LinkOk(h', d, up', down')
  PROVE  IInv' /\ HostGoesOn
<1>1. TypesOk /\ CookiesOk
  BY DEF IInv
<1>2. TypesOk'
  BY <1>1 DEF TypesOk, Packets
<1>3. \A i \in 1 .. Len(down') : \E k \in 1 .. Len(down) : down'[i] = down[k]
  BY DrawnFrom
<1>4. Num(d'.iv) <= Num(h'.iv)
  BY <1>1 DEF CookiesOk
<1>5. \A i \in 1 .. Len(up') : up'[i].t = "syn" => Num(up'[i].iv) <= Num(h'.iv)
  BY <1>1 DEF CookiesOk
<1>6. \A i \in 1 .. Len(down') : down'[i].t = "ack" => Num(down'[i].iv) <= Num(h'.iv)
  BY <1>1, <1>3 DEF CookiesOk
<1>7. ASSUME NEW i \in 1 .. Len(up'), IsSyn(up'[i], h'.iv)
      PROVE  /\ i = Len(up') /\ d'.iv # h'.iv /\ ~h'.joined
             /\ \A j \in 1 .. Len(down') : ~IsAck(down'[j], h'.iv)
  <2>1. PICK k \in 1 .. Len(up) : up'[i] = up[k]
    BY <1>7 DEF IsSyn
  <2>2. IsSyn(up[k], h.iv) /\ d.iv # h.iv /\ \A j \in 1 .. Len(down) : ~IsAck(down[j], h.iv)
    BY <1>1, <1>7, <2>1 DEF CookiesOk
  <2> QED BY <1>3, <1>7, <2>2
<1>8. CookiesOk'
  BY <1>4, <1>5, <1>6, <1>7 DEF CookiesOk
<1>9. SessionOk'
  BY DEF SessionOk
<1> QED BY <1>2, <1>8, <1>9 DEF IInv, HostGoesOn

LEMMA MovesNot ==
  ASSUME NEW x, NEW y, NEW z, z.sent = x.sent, z.rcvd = x.rcvd
  PROVE  HostMoves(x, y, z)
  BY DEF HostMoves

\* Steps that leave the wires alone.
LEMMA StillKeeps ==
  ASSUME IInv, HostOk(h'), PhaseOk(h'), Resting(h, h') \/ Hung(h, h'), UNCHANGED <<d, up, down>>,
         faults' \in Nat, traffic' \in Nat
  PROVE  IInv' /\ HostGoesOn
<1>1. TypesOk /\ CookiesOk /\ SessionOk
  BY DEF IInv
<1>2. /\ h'.iv = h.iv /\ h'.cur = h.cur /\ h'.sent = h.sent /\ h'.rcvd = h.rcvd /\ h'.joined = h.joined
      /\ h'.rejoined = h.rejoined /\ (h'.conn => h.conn /\ h'.S = h.S /\ h'.E = h.E)
  BY DEF Resting, Hung
<1>3. d' = d /\ up' = up /\ down' = down
  OBVIOUS
<1>4. /\ up \in Seq(Packets) /\ down \in Seq(Packets) /\ down \in Seq(Acks \cup Datas) /\ Len(up) <= WireMax
      /\ Len(down) <= WireMax
  BY <1>1, TypeFacts
<1>5. Drawn(down, 1 .. Len(down), down', 1 .. Len(down'))
  BY <1>3, <1>4, DrawnSelf
<1>6. \A i \in 1 .. Len(up') : IsSyn(up'[i], h.iv) => i = Len(up') /\ ~h'.joined
  BY <1>1, <1>2, <1>3 DEF CookiesOk
<1>7. ASSUME InSession' PROVE InSession /\ HostMoves(h, d, h') /\ LinkOk(h', d, up', down')
  <2>1. InSession
    BY <1>2, <1>3, <1>7 DEF InSession, SameSession
  <2>2. LinkOk(h, d, up, down)
    BY <1>1, <2>1 DEF SessionOk
  <2>3. LinkOk(h', d, up, down)
    BY <1>2, <2>2, LinkHost
  <2> QED BY <1>2, <1>3, <2>1, <2>3, MovesNot
<1>8. \A i \in 1 .. Len(up') : up'[i].t = "syn" => \E k \in 1 .. Len(up) : up'[i] = up[k]
  BY <1>3
<1>9. h'.sent \in {0, h.sent, h.sent + 1}
  BY <1>2
<1> QED BY <1>2, <1>3, <1>4, <1>5, <1>6, <1>7, <1>8, <1>9, HostKeeps

LEMMA KeptKeeps ==
  ASSUME IInv, Kept(h, h'), UNCHANGED <<d, up, down>>, faults' \in Nat, traffic' \in Nat
  PROVE  IInv' /\ HostGoesOn
<1>1. HostOk(h') /\ Alike(h, h') /\ PhaseOk(h)
  BY DEF Kept, IInv, TypesOk
<1>2. Resting(h, h') /\ PhaseOk(h')
  BY <1>1 DEF Alike, Resting, PhaseOk
<1> QED BY <1>1, <1>2, StillKeeps

LEMMA DisconnectedKeeps == ASSUME IInv, HostDisconnected PROVE IInv' /\ HostGoesOn
<1>1. TypesOk /\ HostOk(h) /\ PhaseOk(h)
  BY DEF IInv, TypesOk
<1> DEFINE x == DisconnectEnd(h)
<1>2. HostOk(x) /\ Hung(h, x)
  BY <1>1, EndOk
<1>3. h' = Reap([x EXCEPT !.poke = FALSE]) /\ UNCHANGED <<d, up, down>> /\ NoFault /\ Quiet
  BY DEF HostDisconnected, HostSteps
<1> HIDE DEF x
<1>4. Kept(x, h')
  BY <1>2, <1>3, HostStepsOk
<1>5. HostOk(h') /\ Hung(h, h')
  BY <1>2, <1>4 DEF Kept, Alike, Hung
<1>6. PhaseOk(h')
  BY <1>1, <1>5 DEF PhaseOk, Hung
<1>7. faults' \in Nat /\ traffic' \in Nat
  BY <1>1, <1>3 DEF TypesOk, NoFault, Quiet
<1> QED BY <1>3, <1>5, <1>6, <1>7, StillKeeps

LEMMA TimeoutKeeps == ASSUME IInv, HostTimeout PROVE IInv' /\ HostGoesOn
<1>1. TypesOk /\ HostOk(h) /\ PhaseOk(h)
  BY DEF IInv, TypesOk
<1> DEFINE x == DisconnectBegin(h)
<1>2. HostOk(x) /\ Resting(h, x) /\ (x.eof => h.conn \/ h.eof)
  BY <1>1, BeginOk
<1>3. h' = Reap([x EXCEPT !.poke = FALSE]) /\ UNCHANGED <<d, up, down>> /\ Quiet /\ (Fault \/ NoFault)
  BY DEF HostTimeout, HostSteps
<1> HIDE DEF x
<1>4. Kept(x, h')
  BY <1>2, <1>3, HostStepsOk
<1>5. HostOk(h') /\ Resting(h, h')
  BY <1>2, <1>4 DEF Kept, Alike, Resting
<1>6. PhaseOk(h')
  BY <1>1, <1>2, <1>4, <1>5 DEF PhaseOk, Resting, Kept, Alike
<1>7. faults' \in Nat /\ traffic' \in Nat
  BY <1>1, <1>3, FaultNat DEF TypesOk, Quiet
<1> QED BY <1>3, <1>5, <1>6, <1>7, StillKeeps

\* A handler of the host that keeps what the link is about.
LEMMA CalmKeeps ==
  ASSUME IInv, NEW x, Kept(h, x), NEW b \in BOOLEAN, h' = Reap([x EXCEPT !.poke = b]) \/ (h' = Reap(x)),
         UNCHANGED <<d, up, down>>, faults' \in Nat, traffic' \in Nat
  PROVE  IInv' /\ HostGoesOn
<1>1. HostOk(x)
  BY DEF Kept
<1>2. Kept(x, h')
  BY <1>1, HostStepsOk, ReapOk
<1>3. Kept(h, h')
  BY <1>2, KeptTwice
<1> QED BY <1>3, KeptKeeps

LEMMA PendingKeeps == ASSUME IInv, handle_pending_channels PROVE IInv' /\ HostGoesOn
<1>1. TypesOk /\ HostOk(h) /\ PhaseOk(h)
  BY DEF IInv, TypesOk
<1> DEFINE c == Head(h.pend)
           key == Key(h.iv, h.cnt + 1)
           q == Tail(h.pend)
           n == h.cnt + 1
           m == Msg("open", h.ch[c].id, "none")
           y == [h EXCEPT !.pend = q, !.cnt = n, !.ch[c].st = "sent", !.ch[c].tx = key, !.ch[c].rx = key]
           y1 == [h EXCEPT !.pend = q]
           y2 == [y1 EXCEPT !.cnt = n]
           y3 == [y2 EXCEPT !.ch[c].st = "sent"]
           y4 == [y3 EXCEPT !.ch[c].tx = key]
           y5 == [y4 EXCEPT !.ch[c].rx = key]
           x == channel_send_vp(y5, Cmc, m)
<1>2. /\ h.pend # <<>> /\ h' = Reap([channel_send_vp(y, Cmc, m) EXCEPT !.poke = FALSE])
      /\ UNCHANGED <<d, up, down>> /\ NoFault /\ Quiet
  BY DEF handle_pending_channels, HostSteps
<1>3. /\ h \in Host /\ h.pend \in Seq(Handles) /\ h.cnt \in Nat /\ h.iv \in Cookie /\ h.ch \in [Channels -> Chan]
  BY <1>1, HostFacts
<1>4. c \in Handles /\ q \in Seq(Handles) /\ n \in Nat
  <2>1. h.pend \in Seq(Handles) /\ h.pend # <<>>
    BY <1>2, <1>3
  <2>2. Head(h.pend) \in Handles /\ Tail(h.pend) \in Seq(Handles)
    BY <2>1
  <2> QED BY <1>3, <2>2
<1>5. c \in Channels /\ c # Cmc /\ key \in Keys
  BY <1>3, <1>4, Consts, KeyTypes DEF Channels
<1>6. m \in MsgsOf(Cmc)
  <2>1. h.ch[c].id \in Ids \cup {Nil}
    BY <1>1, <1>5, ChanType
  <2> QED BY <2>1 DEF Msg, Msgs, MsgsOf
<1> HIDE DEF c, key, q, n, m
<1>7. y = y5
  BY <1>3, <1>5 DEF Host, Chan
<1>8. Kept(h, y1)
  BY <1>1, <1>4, SetList
<1> HIDE DEF y1
<1>9. Kept(y1, y2)
  <2>1. HostOk(y1) /\ TRUE \in BOOLEAN
    BY <1>8 DEF Kept
  <2> QED BY <1>4, <2>1, SetBits, Zenon DEF Kept
<1> HIDE DEF y2
<1>10. Kept(y2, y3)
  BY <1>5, <1>9, SetField DEF Kept
<1> HIDE DEF y3
<1>11. Kept(y3, y4)
  BY <1>5, <1>10, SetField DEF Kept
<1> HIDE DEF y4
<1>12. Kept(y4, y5)
  BY <1>5, <1>11, SetField DEF Kept
<1> HIDE DEF y5
<1>13. Kept(y5, x)
  BY <1>6, <1>12, SendVpOk DEF Kept, Channels
<1>14. h' = Reap([x EXCEPT !.poke = FALSE])
  BY <1>2, <1>7
<1> HIDE DEF x
<1>15. Kept(h, x)
  <2>1. Kept(h, y2)
    BY <1>8, <1>9, KeptTwice
  <2>2. Kept(h, y3)
    BY <1>10, <2>1, KeptTwice
  <2>3. Kept(h, y4)
    BY <1>11, <2>2, KeptTwice
  <2>4. Kept(h, y5)
    BY <1>12, <2>3, KeptTwice
  <2> QED BY <1>13, <2>4, KeptTwice
<1>16. faults' \in Nat /\ traffic' \in Nat
  BY <1>1, <1>2 DEF TypesOk, NoFault, Quiet
<1> QED BY <1>2, <1>14, <1>15, <1>16, CalmKeeps

\* The users.
LEMMA CreateKeeps == ASSUME IInv, NEW c \in Handles, vllp_channel_create(c) PROVE IInv' /\ HostGoesOn
<1>1. TypesOk /\ HostOk(h)
  BY DEF IInv, TypesOk
<1> DEFINE id == Min(h.ids)
           q == Append(h.pend, c)
           s == h.ids \ {id}
           k == [h.ch[c] EXCEPT !.st = "pending", !.id = id, !.linked = TRUE, !.user = "open"]
           y == [h EXCEPT !.ids = s, !.pend = q, !.ch[c] = k]
           y1 == [h EXCEPT !.ids = s]
           y2 == [y1 EXCEPT !.pend = q]
           y3 == [y2 EXCEPT !.ch[c] = k]
<1>2. h.ids # {} /\ h' = Reap([y EXCEPT !.poke = Parked]) /\ UNCHANGED <<d, up, down>> /\ NoFault /\ Quiet
  BY DEF vllp_channel_create, UserSteps
<1>3. h \in Host /\ h.pend \in Seq(Handles) /\ h.ids \subseteq Ids /\ h.ch \in [Channels -> Chan]
  BY <1>1, HostFacts
<1>4. id \in Ids
  <2>1. h.ids \in SUBSET Nat
    BY <1>3, Consts
  <2> QED BY <1>2, <1>3, <2>1, MinNat
<1>5. s \in SUBSET Ids /\ q \in Seq(Handles) /\ c \in Channels /\ c # Cmc /\ id # Cmc
  BY <1>3, <1>4, Consts DEF Channels
<1> HIDE DEF id, s, q
<1>6. ChanOk(c, k)
  <2>1. ChanOk(c, h.ch[c]) /\ h.ch[c] \in Chan
    BY <1>1, <1>5, ChanType
  <2>2. k \in Chan
    BY <1>4, <2>1 DEF Chan
  <2>3. k.mtxq = h.ch[c].mtxq /\ k.txq = h.ch[c].txq /\ k.id = id /\ k.st = "pending"
    BY <2>1 DEF Chan
  <2> HIDE DEF k
  <2> QED BY <1>4, <1>5, <2>1, <2>2, <2>3 DEF ChanOk
<1> HIDE DEF k
<1>7. y = y3
  BY <1>3, <1>5 DEF Host
<1>8. Kept(h, y1)
  BY <1>1, <1>5, SetList
<1> HIDE DEF y1
<1>9. Kept(y1, y2)
  BY <1>5, <1>8, SetList DEF Kept
<1> HIDE DEF y2
<1>10. Kept(y2, y3)
  BY <1>5, <1>6, <1>9, SetChan DEF Kept
<1> HIDE DEF y3
<1>11. Kept(h, y3)
  <2>1. Kept(h, y2)
    BY <1>8, <1>9, KeptTwice
  <2> QED BY <1>10, <2>1, KeptTwice
<1>12. faults' \in Nat /\ traffic' \in Nat /\ Parked \in BOOLEAN
  <2>1. Parked \in BOOLEAN
    BY Zenon DEF Parked
  <2> QED BY <1>1, <1>2, <2>1 DEF TypesOk, NoFault, Quiet
<1>13. h' = Reap([y3 EXCEPT !.poke = Parked])
  BY <1>2, <1>7
<1> QED BY <1>2, <1>11, <1>12, <1>13, CalmKeeps

LEMMA UserSendKeeps == ASSUME IInv, NEW c \in Handles, vllp_channel_send(c) PROVE IInv' /\ HostGoesOn
<1>1. TypesOk /\ HostOk(h)
  BY DEF IInv, TypesOk
<1> DEFINE m == Msg("msg", h.ch[c].id, "none")
           x == channel_send_vp(h, c, m)
<1>2. /\ h' = Reap([x EXCEPT !.poke = Parked]) /\ UNCHANGED <<d, up, down>> /\ NoFault /\ traffic' = traffic + 1
  BY DEF vllp_channel_send, UserSteps
<1>3. c \in Channels /\ c # Cmc
  BY Consts DEF Channels
<1>4. m \in MsgsOf(c)
  <2>1. h.ch[c].id \in Ids \cup {Nil}
    BY <1>1, <1>3, ChanType
  <2> QED BY <1>3, <2>1 DEF Msg, Msgs, MsgsOf
<1> HIDE DEF m
<1>5. Kept(h, x)
  BY <1>1, <1>3, <1>4, SendVpOk
<1> HIDE DEF x
<1>6. faults' \in Nat /\ traffic' \in Nat
  BY <1>1, <1>2 DEF TypesOk, NoFault
<1>7. Parked \in BOOLEAN
  BY Zenon DEF Parked
<1> QED BY <1>2, <1>5, <1>6, <1>7, CalmKeeps

LEMMA SetUser ==
  ASSUME NEW x, HostOk(x), NEW c \in Handles, x.ch[c].user \in {"open", "waits"}, NEW u \in {"waits", "done"}
  PROVE  LET y == [x EXCEPT !.ch[c].user = u] IN
         Kept(x, y) /\ Lists(x, y) /\ y.ch[c].id \in Ids /\ y.ch[c].st = x.ch[c].st /\ y.ch[c].st # "none"
<1> DEFINE k == [x.ch[c] EXCEPT !.user = u]
           y == [x EXCEPT !.ch[c].user = u]
<1>1. c \in Channels /\ c # Cmc
  BY Consts DEF Channels
<1>2. ChanOk(c, x.ch[c]) /\ x.ch[c] \in Chan /\ x.ch[c].id \in Ids /\ x.ch[c].st # "none" /\ x.ch[c].id # Cmc
  BY <1>1, ChanType, Consts
<1>3. k \in Chan
  BY <1>2 DEF Chan
<1>4. k.mtxq = x.ch[c].mtxq /\ k.txq = x.ch[c].txq /\ k.id = x.ch[c].id /\ k.st = x.ch[c].st /\ k.linked = x.ch[c].linked
  BY <1>2 DEF Chan
<1>5. y = [x EXCEPT !.ch[c] = k]
  OBVIOUS
<1> HIDE DEF k, y
<1>6. ChanOk(c, k)
  BY <1>1, <1>2, <1>3, <1>4 DEF ChanOk
<1>7. Kept(x, y) /\ Lists(x, y) /\ y.ch[c] = k
  BY <1>1, <1>5, <1>6, SetChan DEF Kept
<1> QED BY <1>2, <1>4, <1>7 DEF y

\* A channel that was not opened yet is closed at once.
LEMMA ClosePendingOk ==
  ASSUME NEW x, HostOk(x), NEW c \in Handles, x.ch[c].id \in Ids
  PROVE  Kept(x, [ReturnId(channel_unlink(x, c), c) EXCEPT !.pend = Without(@, {c}),
                                                           !.ch[c].st = "closed", !.ch[c].user = "done"])
<1> DEFINE a == channel_unlink(x, c)
           b == ReturnId(a, c)
           q == Without(b.pend, {c})
           e == [b EXCEPT !.pend = q]
           k == [e.ch[c] EXCEPT !.st = "closed", !.user = "done"]
           f == [e EXCEPT !.ch[c] = k]
<1>1. c \in Channels /\ c # Cmc
  BY Consts DEF Channels
<1>2. Kept(x, a) /\ a.ch[c].id \in Ids
  BY UnlinkOk
<1> HIDE DEF a
<1>3. Kept(a, b) /\ b.ch = a.ch
  BY <1>2, ReturnIdOk DEF Kept
<1> HIDE DEF b
<1>4. b \in Host /\ b.ch \in [Channels -> Chan] /\ b.pend \in Seq(Handles)
  BY <1>3, HostFacts DEF Kept
<1>5. q \in Seq(Handles)
  BY <1>4, WithoutSet
<1> HIDE DEF q
<1>6. Kept(b, e) /\ e.ch = b.ch
  BY <1>3, <1>5, SetList DEF Kept
<1>7. [b EXCEPT !.pend = q, !.ch[c].st = "closed", !.ch[c].user = "done"] = f
  BY <1>1, <1>4 DEF Host, Chan
<1> HIDE DEF e
<1>8. ChanOk(c, k)
  <2>1. ChanOk(c, e.ch[c]) /\ e.ch[c] \in Chan /\ e.ch[c].id \in Ids
    BY <1>1, <1>2, <1>3, <1>6, ChanType DEF Kept
  <2>2. k \in Chan
    BY <2>1 DEF Chan
  <2>3. k.mtxq = e.ch[c].mtxq /\ k.txq = e.ch[c].txq /\ k.id = e.ch[c].id /\ k.st = "closed"
    BY <2>1 DEF Chan
  <2> HIDE DEF k
  <2> QED BY <1>1, <2>1, <2>2, <2>3 DEF ChanOk
<1> HIDE DEF k
<1>9. Kept(e, f)
  BY <1>1, <1>6, <1>8, SetChan DEF Kept
<1>10. Kept(x, f)
  <2>1. Kept(x, b)
    BY <1>2, <1>3, KeptTwice
  <2>2. Kept(x, e)
    BY <1>6, <2>1, KeptTwice
  <2> HIDE DEF f
  <2> QED BY <1>9, <2>2, KeptTwice
<1> HIDE DEF f
<1> QED BY <1>7, <1>10 DEF b, a, q

LEMMA UserCloseKeeps ==
  ASSUME IInv, NEW c \in Handles, NEW wait \in Waits, vllp_channel_close(c, wait)
  PROVE  IInv' /\ HostGoesOn
<1>1. TypesOk /\ HostOk(h)
  BY DEF IInv, TypesOk
<1> DEFINE u == IF wait THEN "waits" ELSE "done"
           x == [h EXCEPT !.ch[c].user = u]
           st == h.ch[c].st
           p == [ReturnId(channel_unlink(x, c), c) EXCEPT !.pend = Without(@, {c}),
                                                          !.ch[c].st = "closed", !.ch[c].user = "done"]
           y == CASE st = "pending" -> p
                  [] st \in {"sent", "est", "active"} -> channel_send_close(x, c)
                  [] st = "csent" -> channel_unlink(x, c)
                  [] st = "closed" -> x
<1>2. /\ h.ch[c].user = "open" /\ h' = Reap([y EXCEPT !.poke = Parked])
      /\ UNCHANGED <<d, up, down>> /\ NoFault /\ Quiet
  BY DEF vllp_channel_close, UserSteps
<1>3. u \in {"waits", "done"} /\ c \in Channels
  BY DEF Channels
<1> HIDE DEF u
<1>4. Kept(h, x) /\ x.ch[c].id \in Ids /\ st # "none"
  BY <1>1, <1>2, <1>3, SetUser
<1>5. st \in {"pending", "sent", "est", "active", "csent", "closed"}
  BY <1>1, <1>3, <1>4, ChanType
<1> HIDE DEF x, st
<1>6. Kept(x, p) /\ Kept(x, channel_send_close(x, c)) /\ Kept(x, channel_unlink(x, c)) /\ Kept(x, x)
  <2>1. HostOk(x)
    BY <1>4 DEF Kept
  <2>2. Kept(x, x)
    BY <2>1 DEF Kept, Alike
  <2>3. Kept(x, p)
    BY <1>4, <2>1, ClosePendingOk
  <2> HIDE DEF p
  <2> QED BY <1>4, <2>1, <2>2, <2>3, SendCloseOk, UnlinkOk
<1> HIDE DEF p
<1>7. y \in {p, channel_send_close(x, c), channel_unlink(x, c), x}
  BY <1>5
<1> HIDE DEF y
<1>8. Kept(h, y)
  BY <1>4, <1>6, <1>7, KeptTwice
<1>9. faults' \in Nat /\ traffic' \in Nat
  BY <1>1, <1>2 DEF TypesOk, NoFault, Quiet
<1>10. Parked \in BOOLEAN
  BY Zenon DEF Parked
<1> QED BY <1>2, <1>8, <1>9, <1>10, CalmKeeps

LEMMA CloseReturnsKeeps == ASSUME IInv, NEW c \in Handles, CloseReturns(c) PROVE IInv' /\ HostGoesOn
<1>1. TypesOk /\ HostOk(h)
  BY DEF IInv, TypesOk
<1> DEFINE x == [h EXCEPT !.ch[c].user = "done"]
           y == ReturnId(channel_unlink([x EXCEPT !.ch[c].st = "closed"], c), c)
<1>2. h.ch[c].user = "waits" /\ (h' = Reap(x) \/ h' = Reap(y)) /\ UNCHANGED <<d, up, down>> /\ NoFault /\ Quiet
  BY DEF CloseReturns
<1>3. Kept(h, x) /\ x.ch[c].id \in Ids
  BY <1>1, <1>2, SetUser
<1> HIDE DEF x
<1>4. Kept(x, y)
  BY <1>3, CloseOk DEF Kept
<1> HIDE DEF y
<1>5. Kept(h, y)
  BY <1>3, <1>4, KeptTwice
<1>6. faults' \in Nat /\ traffic' \in Nat /\ TRUE \in BOOLEAN
  BY <1>1, <1>2 DEF TypesOk, NoFault, Quiet
<1> QED BY <1>2, <1>3, <1>5, <1>6, CalmKeeps

-----------------------------------------------------------------------------
(* The host transmits.                                                     *)

LEMMA HostPackets ==
  ASSUME NEW x, HostOk(x), NEW f \in Frags
  PROVE  /\ Ack(x) \in Acks /\ Ack(x).e = x.E /\ Ack(x).t = "ack"
         /\ Data(x, f) \in Datas /\ Data(x, f).s = x.S /\ Data(x, f).e = x.E /\ Data(x, f).n = x.sent
<1> DEFINE b == f.id \in x.flow \cup {Cmc}
           p == [t |-> "data", s |-> x.S, e |-> x.E, f |-> b, frag |-> f, n |-> x.sent]
<1>1. x \in Host
  BY HostFacts
<1>2. x.S \in 0 .. 1 /\ x.E \in 0 .. 1 /\ x.iv \in Cookie /\ x.sent \in Nat /\ x.flow \in SUBSET Ids
  BY <1>1 DEF Host
<1>3. b \in BOOLEAN /\ (b => f.id \in Ids \cup {Cmc})
  BY <1>2
<1>4. Data(x, f) = p
  BY DEF Data
<1> HIDE DEF b
<1>5. p \in [t : {"data"}, s : 0 .. 1, e : 0 .. 1, f : BOOLEAN, frag : Frags, n : Nat]
  BY <1>2, <1>3
<1>6. p.f = b /\ p.frag = f /\ p.s = x.S /\ p.e = x.E /\ p.n = x.sent
  OBVIOUS
<1>7. p \in Datas
  BY <1>3, <1>5, <1>6 DEF Datas
<1> HIDE DEF p
<1>8. Ack(x) \in Acks /\ Ack(x).e = x.E /\ Ack(x).t = "ack"
  BY <1>2 DEF Ack, Acks
<1> QED BY <1>4, <1>6, <1>7, <1>8

Offers(x, y) ==
  /\ y.conn = x.conn /\ y.E = x.E /\ y.iv = x.iv /\ y.eof = x.eof /\ y.rcvd = x.rcvd
  /\ y.joined = x.joined /\ y.rejoined = x.rejoined
  /\ y.S = 1 - x.S /\ y.sent = x.sent + 1 /\ x.cur = <<>> /\ y.cur # <<>>

LEMMA SendKeeps ==
  ASSUME IInv, h.conn, NEW x, HostOk(x), Alike(h, x) \/ Offers(h, x), Kept(x, h'),
         NEW p \in Acks \cup Datas, p.e = x.E, p.t = "data" => p.n = x.sent /\ p.s = x.S,
         up' = Put(up, <<p>>), UNCHANGED <<d, down>>, faults' \in Nat, traffic' \in Nat
  PROVE  IInv' /\ HostGoesOn
<1>1. TypesOk /\ CookiesOk /\ SessionOk
  BY DEF IInv
<1>2. /\ up \in Seq(Packets) /\ down \in Seq(Packets) /\ down \in Seq(Acks \cup Datas) /\ Len(up) <= WireMax
      /\ Len(down) <= WireMax /\ HostOk(h) /\ PhaseOk(h) /\ DevOk(d)
  BY <1>1, TypeFacts
<1>3. h.joined /\ d' = d /\ down' = down
  BY <1>2 DEF PhaseOk
<1>4. p \in Packets /\ p.t # "syn" /\ <<p>> \in Seq(Packets)
  <2>1. p \in Packets
    BY DEF Packets
  <2>2. p.t # "syn"
    BY DEF Acks, Datas
  <2> QED BY <2>1, <2>2
<1> DEFINE all == Append(up, p)
           g == <<p>>
<1>5. up' \in Seq(Packets) /\ Len(up') <= WireMax
  <2>1. g \in Seq(Packets) /\ up' = Put(up, g)
    BY <1>4
  <2> HIDE DEF g
  <2> QED BY <1>2, <2>1, PutIs
<1>6. all \in Seq(Packets) /\ Drawn(all, 1 .. Len(all), up', 1 .. Len(up'))
  <2>1. g \in Seq(Packets) /\ up' = Put(up, g) /\ up \o g = all /\ all \in Seq(Packets)
    BY <1>2, <1>4
  <2> HIDE DEF g, all
  <2>2. Drawn(up \o g, 1 .. Len(up \o g), Put(up, g), 1 .. Len(Put(up, g)))
    BY <1>2, <2>1, DrawnPut
  <2> QED BY <2>1, <2>2
<1>7. \A i \in 1 .. Len(all) : all[i] = p \/ \E k \in 1 .. Len(up) : all[i] = up[k]
  BY <1>2, <1>4
<1> HIDE DEF all
<1>8. \A i \in 1 .. Len(up') : up'[i] = p \/ \E k \in 1 .. Len(up) : up'[i] = up[k]
  <2>1. \A i \in 1 .. Len(up') : \E j \in 1 .. Len(all) : up'[i] = all[j]
    BY <1>6, DrawnFrom
  <2> QED BY <1>7, <2>1
<1>9. \A i \in 1 .. Len(up') : up'[i].t = "syn" => \E k \in 1 .. Len(up) : up'[i] = up[k]
  BY <1>4, <1>8
<1>10. \A i \in 1 .. Len(up') : ~IsSyn(up'[i], h.iv)
  <2>1. \A k \in 1 .. Len(up) : ~IsSyn(up[k], h.iv)
    BY <1>1, <1>3 DEF CookiesOk
  <2>2. ~IsSyn(p, h.iv)
    BY <1>4 DEF IsSyn
  <2> QED BY <1>8, <2>1, <2>2
<1>11. Drawn(down, 1 .. Len(down), down', 1 .. Len(down'))
  BY <1>2, <1>3, DrawnSelf
<1>12. /\ x.conn /\ x.joined /\ x.iv = h.iv /\ x.eof = h.eof /\ x.rejoined = h.rejoined /\ x.rcvd = h.rcvd
       /\ (x.sent = h.sent \/ x.sent = h.sent + 1)
  BY <1>3 DEF Alike, Offers
<1>13. HostOk(h') /\ Alike(x, h')
  BY DEF Kept
<1>14. PhaseOk(h')
  BY <1>2, <1>12, <1>13 DEF PhaseOk, Alike
<1>15. ASSUME InSession' PROVE InSession /\ HostMoves(h, d, h') /\ LinkOk(h', d, up', down')
  <2>1. InSession
    BY <1>3, <1>12, <1>13, <1>15 DEF InSession, SameSession, Alike
  <2>2. LinkOk(h, d, up, down) /\ Ends(h, d) /\ Ends(x, d)
    BY <1>1, <1>2, <2>1, EndsOf DEF SessionOk
  <2>3. LinkOk(x, d, up, down) /\ HostMoves(h, d, x)
    <3>1. CASE Alike(h, x)
      <4>1. LinkOk(x, d, up, down)
        BY <2>2, <3>1, LinkHost DEF Alike
      <4> QED BY <3>1, <4>1, MovesNot DEF Alike
    <3>2. CASE Offers(h, x)
      <4>1. h.sent = Len(d.rcvd) /\ LinkOk(x, d, up, down)
        BY <1>2, <2>2, <3>2, HostOffers DEF Offers
      <4> QED BY <3>2, <4>1 DEF Offers, HostMoves
    <3> QED BY <3>1, <3>2
  <2>4. LinkOk(x, d, all, down)
    BY <1>2, <1>4, <1>12, <2>2, <2>3, LinkUp DEF all
  <2>5. LinkOk(x, d, up', down')
    BY <1>2, <1>3, <1>5, <1>6, <1>11, <2>2, <2>4, LinkMap
  <2>6. LinkOk(h', d, up', down')
    BY <1>13, <2>5, LinkHost DEF Alike
  <2>7. HostMoves(h, d, h')
    BY <1>13, <2>3 DEF Alike, HostMoves
  <2> QED BY <2>1, <2>6, <2>7
<1>16. h'.sent \in {0, h.sent, h.sent + 1} /\ h'.iv = h.iv
  BY <1>12, <1>13 DEF Alike
<1>17. \A i \in 1 .. Len(up') : IsSyn(up'[i], h.iv) => i = Len(up') /\ ~h'.joined
  BY <1>10
<1> QED BY <1>2, <1>3, <1>5, <1>9, <1>11, <1>13, <1>14, <1>15, <1>16, <1>17, HostKeeps

LEMMA RetransmitKeeps == ASSUME IInv, HostRetransmit PROVE IInv' /\ HostGoesOn
<1>1. TypesOk /\ HostOk(h)
  BY DEF IInv, TypesOk
<1> DEFINE p == Data(h, h.cur[1])
<1>2. /\ h.conn /\ h.cur # <<>> /\ up' = Put(up, <<p>>) /\ h' = Reap([h EXCEPT !.poke = FALSE])
      /\ UNCHANGED <<d, down>> /\ NoFault /\ Quiet
  BY DEF HostRetransmit, HostSteps
<1>3. h.cur[1] \in Frags
  BY <1>1, <1>2, HostFacts
<1>4. p \in Datas /\ p.s = h.S /\ p.e = h.E /\ p.n = h.sent
  BY <1>1, <1>3, HostPackets
<1> HIDE DEF p
<1>5. Kept(h, h') /\ Alike(h, h)
  BY <1>1, <1>2, HostStepsOk DEF Alike
<1>6. faults' \in Nat /\ traffic' \in Nat
  BY <1>1, <1>2 DEF TypesOk, NoFault, Quiet
<1> QED BY <1>1, <1>2, <1>4, <1>5, <1>6, SendKeeps

LEMMA SendAckKeeps == ASSUME IInv, vllp_send_ack PROVE IInv' /\ HostGoesOn
<1>1. TypesOk /\ HostOk(h)
  BY DEF IInv, TypesOk
<1> DEFINE x == CutActive
           p == Ack(h)
<1>2. /\ h.conn /\ up' = Put(up, <<p>>) /\ h' = Reap([x EXCEPT !.poke = FALSE])
      /\ UNCHANGED <<d, down>> /\ NoFault /\ Quiet
  BY DEF vllp_send_ack, HostSteps
<1>3. Kept(h, x)
  BY <1>1, CutAllOk DEF CutActive
<1> HIDE DEF x
<1>4. p \in Acks /\ p.e = h.E /\ p.t = "ack"
  <2>1. h \in Host
    BY <1>1, HostFacts
  <2>2. h.S \in 0 .. 1 /\ h.E \in 0 .. 1 /\ h.iv \in Cookie /\ h.flow \in SUBSET Ids
    BY <2>1 DEF Host
  <2> QED BY <2>2 DEF Ack, Acks
<1> HIDE DEF p
<1>5. Kept(x, h') /\ HostOk(x) /\ Alike(h, x) /\ p.e = x.E
  BY <1>2, <1>3, <1>4, HostStepsOk DEF Kept, Alike
<1>6. faults' \in Nat /\ traffic' \in Nat
  BY <1>1, <1>2 DEF TypesOk, NoFault, Quiet
<1> QED BY <1>2, <1>4, <1>5, <1>6, SendKeeps

LEMMA OfferedOk ==
  ASSUME NEW x, HostOk(x), x.cur = <<>>, NEW f \in Frags
  PROVE  LET z == [Offered(x) EXCEPT !.cur = <<f>>, !.rtx = TRUE, !.rflow = @ \ {f.id}] IN
         HostOk(z) /\ Offers(x, z) /\ z.ch = x.ch /\ z.act = x.act
<1> DEFINE o == [x EXCEPT !.S = 1 - x.S, !.sent = x.sent + 1]
           r == o.rflow \ {f.id}
           z == [o EXCEPT !.cur = <<f>>, !.rtx = TRUE, !.rflow = r]
<1>1. x \in Host
  BY HostFacts
<1>2. 1 - x.S \in 0 .. 1 /\ x.sent + 1 \in Nat /\ x.rflow \in SUBSET (Ids \cup {Cmc})
  BY <1>1 DEF Host
<1>3. o \in Host
  BY <1>1, <1>2 DEF Host
<1>4. /\ o.conn = x.conn /\ o.E = x.E /\ o.iv = x.iv /\ o.eof = x.eof /\ o.rcvd = x.rcvd
      /\ o.joined = x.joined /\ o.rejoined = x.rejoined /\ o.S = 1 - x.S /\ o.sent = x.sent + 1
      /\ o.ch = x.ch /\ o.act = x.act /\ o.rflow = x.rflow
  BY <1>1 DEF Host
<1>5. Offered(x) = o
  BY DEF Offered
<1> HIDE DEF o
<1>6. r \in SUBSET (Ids \cup {Cmc}) /\ <<f>> \in Seq(Frags) /\ <<f>> # <<>> /\ Len(<<f>>) = 1
  BY <1>2, <1>4
<1>7. [Offered(x) EXCEPT !.cur = <<f>>, !.rtx = TRUE, !.rflow = @ \ {f.id}] = z
  BY <1>5
<1> DEFINE g == <<f>>
<1>8. z = [o EXCEPT !.cur = g, !.rtx = TRUE, !.rflow = r]
  OBVIOUS
<1> HIDE DEF r, g, z
<1>9. g \in Seq(Frags) /\ g # <<>> /\ Len(g) = 1
  BY <1>6 DEF g
<1>10. z \in Host
  BY <1>3, <1>6, <1>8, <1>9 DEF Host
<1>11. /\ z.conn = o.conn /\ z.E = o.E /\ z.iv = o.iv /\ z.eof = o.eof /\ z.rcvd = o.rcvd
       /\ z.joined = o.joined /\ z.rejoined = o.rejoined /\ z.S = o.S /\ z.sent = o.sent
       /\ z.ch = o.ch /\ z.act = o.act /\ z.cur = g
  BY <1>3, <1>8 DEF Host
<1>12. HostOk(z)
  <2>0. z.cur = g /\ z.ch = x.ch
    BY <1>4, <1>11
  <2>3. Len(z.cur) = 1
    BY <1>9, <2>0, Zenon
  <2>1. Len(z.cur) <= 1 /\ z.ch = x.ch
    BY <2>0, <2>3
  <2>2. \A c \in Handles \cup {Cmc} : ChanOk(c, x.ch[c])
    BY DEF HostOk
  <2> QED BY <1>10, <2>1, <2>2 DEF HostOk
<1> QED BY <1>4, <1>7, <1>9, <1>11, <1>12 DEF Offers

LEMMA CutAllAt ==
  ASSUME HostOk(h), NEW C, NEW c \in Channels, c \in C
  PROVE  CutAll(C).ch[c] = fragment(h.ch[c])
<1> DEFINE f == [e \in Channels |-> IF e \in C THEN fragment(h.ch[e]) ELSE h.ch[e]]
<1>1. h \in Host /\ h.ch \in [Channels -> Chan]
  BY HostFacts
<1>2. CutAll(C) = [h EXCEPT !.ch = f]
  BY <1>1 DEF CutAll, Host
<1>3. f[c] = fragment(h.ch[c])
  OBVIOUS
<1> HIDE DEF f
<1> QED BY <1>1, <1>2, <1>3 DEF Host

\* What is sent is the first fragment of a channel that has one.
LEMMA ReadyOk ==
  ASSUME HostOk(h), NEW k \in ReadyAt
  PROVE  LET c == h.act[k] IN c \in Channels /\ CutUpTo(k).ch[c].txq # <<>>
<1> DEFINE c == h.act[k]
           U == {h.act[j] : j \in 1 .. k}
           A == Range(h.act)
<1>1. h.act \in Seq(Channels) /\ k \in DOMAIN h.act /\ Passes(k)
  BY HostFacts DEF ReadyAt
<1>2. k \in 1 .. Len(h.act) /\ k \in Nat /\ k \in 1 .. k /\ DOMAIN h.act = 1 .. Len(h.act)
  BY <1>1
<1>3. c \in Channels
  BY <1>1, <1>2
<1>4. c \in U /\ c \in A
  BY <1>1, <1>2 DEF Range
<1>5. Asserted(CutActive, c)
  BY <1>1, <1>2 DEF Passes
<1>6. CutUpTo(k) = CutAll(U) /\ CutActive = CutAll(A)
  BY DEF CutUpTo, CutActive
<1> HIDE DEF U, A, c
<1>7. CutAll(U).ch[c] = fragment(h.ch[c]) /\ CutAll(A).ch[c] = fragment(h.ch[c])
  BY <1>3, <1>4, CutAllAt
<1>8. CutUpTo(k).ch[c].txq # <<>>
  BY <1>5, <1>6, <1>7 DEF Asserted
<1> QED BY <1>3, <1>8 DEF c

LEMMA HostSendKeeps == ASSUME IInv, HostSend PROVE IInv' /\ HostGoesOn
<1>1. TypesOk /\ HostOk(h)
  BY DEF IInv, TypesOk
<1> DEFINE k == Min(ReadyAt)
           c == h.act[k]
           x == CutUpTo(k)
           f == x.ch[c].txq[1]
           q == Tail(x.ch[c].txq)
           a == Without(x.act, {c})
           y == [x EXCEPT !.ch[c].txq = Tail(@), !.act = Without(@, {c})]
           y1 == [x EXCEPT !.ch[c].txq = q]
           y2 == [y1 EXCEPT !.act = a]
           z == [Offered(y) EXCEPT !.cur = <<f>>, !.rtx = TRUE, !.rflow = @ \ {f.id}]
           more == y.ch[c].txq # <<>>
           e1 == [y EXCEPT !.ch[c].st = "csent"]
           m == Msg("close", f.id, "none")
           e2 == channel_send_vp(e1, Cmc, m)
           z1 == [z EXCEPT !.act = Append(@, c)]
           z2 == [z EXCEPT !.ch[c].st = "est"]
           zz == IF more THEN z1 ELSE z2
<1>2. /\ h.conn /\ h.cur = <<>> /\ ReadyAt # {} /\ UNCHANGED <<d, down>> /\ NoFault /\ Quiet
      /\ IF f.msg.op = "eof" THEN h' = Reap([e2 EXCEPT !.poke = FALSE]) /\ up' = up
         ELSE h' = Reap([zz EXCEPT !.poke = FALSE]) /\ up' = Put(up, <<Data(z, f)>>)
  BY DEF HostSend, HostSteps
<1>3. k \in ReadyAt
  <2>1. ReadyAt \in SUBSET Nat
    <3>1. h.act \in Seq(Channels)
      BY <1>1, HostFacts
    <3> QED BY <3>1 DEF ReadyAt
  <2> QED BY <1>2, <2>1, MinNat
<1> HIDE DEF k
<1>4. c \in Channels /\ x.ch[c].txq # <<>>
  BY <1>1, <1>3, ReadyOk
<1>5. Kept(h, x)
  BY <1>1, CutAllOk DEF CutUpTo
<1> HIDE DEF c, x
<1> DEFINE F == FragsOf(c)
<1>6. /\ x \in Host /\ x.ch \in [Channels -> Chan] /\ x.act \in Seq(Channels) /\ x.ch[c].txq \in Seq(F)
      /\ F \subseteq Frags
  <2>1. HostOk(x) /\ F \subseteq Frags
    BY <1>5 DEF Kept, FragsOf
  <2> HIDE DEF F
  <2>2. x.ch[c].txq \in Seq(F)
    BY <1>4, <2>1, ChanType DEF F
  <2> QED BY <2>1, <2>2, HostFacts
<1>7. f \in F /\ q \in Seq(F) /\ a \in Seq(Channels)
  <2> HIDE DEF F
  <2>1. f \in F /\ q \in Seq(F)
    BY <1>4, <1>6
  <2>2. a \in Seq(Channels)
    BY <1>6, WithoutSet
  <2> QED BY <2>1, <2>2
<1>8. y = y2
  BY <1>4, <1>6 DEF Host, Chan
<1> HIDE DEF a, q, f
<1>9. Kept(x, y1)
  BY <1>4, <1>5, <1>7, SetField DEF Kept
<1> HIDE DEF y1
<1>10. Kept(y1, y2)
  BY <1>7, <1>9, SetList DEF Kept
<1> HIDE DEF y, y2
<1>11. Kept(h, y)
  <2>1. Kept(h, y1)
    BY <1>5, <1>9, KeptTwice
  <2> QED BY <1>8, <1>10, <2>1, KeptTwice
<1>12. faults' \in Nat /\ traffic' \in Nat
  BY <1>1, <1>2 DEF TypesOk, NoFault, Quiet
<1>13. CASE f.msg.op = "eof"
  <2>1. c # Cmc /\ f.id # Cmc /\ f \in Frags
    BY <1>7, <1>13 DEF FragsOf
  <2>2. m \in MsgsOf(Cmc)
    <3>1. f.id \in Ids \cup {Nil}
      BY <2>1 DEF Frags
    <3> QED BY <3>1 DEF Msg, Msgs, MsgsOf
  <2>3. Kept(y, e1)
    BY <1>4, <1>11, <2>1, SetField DEF Kept
  <2> HIDE DEF e1, m
  <2>4. Kept(e1, e2)
    BY <2>2, <2>3, SendVpOk DEF Kept, Channels
  <2>5. h' = Reap([e2 EXCEPT !.poke = FALSE]) /\ up' = up /\ FALSE \in BOOLEAN
    BY <1>2, <1>13
  <2> HIDE DEF e2
  <2>6. Kept(h, e1)
    BY <1>11, <2>3, KeptTwice
  <2>7. Kept(h, e2)
    BY <2>4, <2>6, KeptTwice
  <2> QED BY <1>2, <1>12, <2>5, <2>7, CalmKeeps
<1>14. CASE f.msg.op # "eof"
  <2>1. HostOk(y) /\ y.cur = <<>> /\ f \in Frags
    BY <1>2, <1>6, <1>7, <1>11 DEF Kept, Alike
  <2>2. HostOk(z) /\ Offers(y, z)
    BY <2>1, OfferedOk
  <2>3. h' = Reap([zz EXCEPT !.poke = FALSE]) /\ up' = Put(up, <<Data(z, f)>>)
    BY <1>2, <1>14
  <2> HIDE DEF z
  <2>4. Kept(z, z1) /\ Kept(z, z2)
    <3>1. Append(z.act, c) \in Seq(Channels)
      BY <1>4, <2>2, HostFacts, AppendSet
    <3>2. Kept(z, z1)
      BY <2>2, <3>1, SetList
    <3>3. Kept(z, z2)
      BY <1>4, <2>2, SetField
    <3> QED BY <3>2, <3>3
  <2> HIDE DEF z1, z2
  <2>5. Kept(z, zz)
    BY <2>4
  <2> HIDE DEF zz
  <2>6. Kept(zz, h')
    BY <2>3, <2>5, HostStepsOk DEF Kept
  <2>7. Kept(z, h')
    BY <2>5, <2>6, KeptTwice
  <2> DEFINE p == Data(z, f)
  <2>8. p \in Datas /\ p.s = z.S /\ p.e = z.E /\ p.n = z.sent /\ up' = Put(up, <<p>>)
    BY <2>1, <2>2, <2>3, HostPackets
  <2>9. Offers(h, z)
    BY <1>11, <2>2 DEF Kept, Alike, Offers
  <2> HIDE DEF p
  <2> QED BY <1>2, <1>12, <2>2, <2>7, <2>8, <2>9, SendKeeps
<1> QED BY <1>13, <1>14

-----------------------------------------------------------------------------
(* The host receives.                                                      *)

\* The answer to the SYN: all that is on the way to the host is of this session.
LEMMA LinkJoins ==
  ASSUME NEW x, NEW y, NEW u \in Seq(Packets), NEW w \in Seq(Packets), LinkOk(x, y, u, w), ~x.joined, w # <<>>,
         IsAck(w[1], x.iv), x.S = 0, x.E = 1, x.sent = 0, x.rcvd = <<>>,
         NEW z, z.joined, z.iv = x.iv, z.S = x.S, z.E = x.E, z.sent = x.sent, z.rcvd = x.rcvd, z.cur = x.cur
  PROVE  LinkOk(z, y, u, w)
<1>1. Len(w) \in Nat /\ Len(w) > 0
  OBVIOUS
<1>2. Fresh(x.joined, x.iv, w) = 1 .. Len(w)
  <2>1. \A i \in 1 .. Len(w) : 1 \in 1 .. i
    BY <1>1
  <2> QED BY <2>1 DEF Fresh
<1>3. Fresh(z.joined, z.iv, w) = 1 .. Len(w)
  BY DEF Fresh
<1>4. z.S = Bit(z.sent) /\ z.E = 1 - Bit(Len(z.rcvd))
  <2>1. Len(z.rcvd) = 0 /\ z.sent = 0 /\ Bit(0) = 0
    BY Bits
  <2> QED BY <2>1
<1>5. \A i \in 1 .. Len(u) : z.joined /\ u[i].t # "syn"
  BY LinkIs
<1> QED BY <1>2, <1>3, <1>4, <1>5, LinkIs

\* A packet while the session is up.
LEMMA LinkHears ==
  ASSUME NEW x, HostOk(x), NEW y, DevOk(y), NEW u \in Seq(Packets), NEW w \in Seq(Packets), LinkOk(x, y, u, w),
         w # <<>>, x.conn, x.joined, NEW z, NEW t, Takes(x, w[1], z), Heeds(z, w[1], t),
         w[1].e \in 0 .. 1
  PROVE  LinkOk(t, y, u, w) /\ HostMoves(x, y, t)
<1>1. Ends(x, y)
  BY EndsOf
<1>2. LinkOk(z, y, u, w) /\ HostMoves(x, y, z) /\ z.conn /\ z.joined /\ z.S = x.S /\ Ends(z, y)
  <2>1. CASE Alike(x, z)
    <3>1. LinkOk(z, y, u, w)
      BY <2>1, LinkHost DEF Alike
    <3> QED BY <1>1, <2>1, <3>1, MovesNot DEF Alike, Ends
  <2>2. CASE w[1].t = "data" /\ WeCanAccept(x, w[1]) /\ Took(x, w[1], z)
    <3>1. w[1].n = Len(x.rcvd) + 1 /\ y.sent = Len(x.rcvd) + 1 /\ LinkOk(z, y, u, w)
      BY <1>1, <2>2, HostTakes DEF Took, WeCanAccept
    <3>2. HostMoves(x, y, z)
      BY <2>2, <3>1 DEF Took, HostMoves
    <3>3. Ends(z, y)
      <4>1. Len(x.rcvd) + 1 \in Nat /\ 1 - x.E \in 0 .. 1
        BY <1>1 DEF Ends
      <4>2. z.rcvd \in Seq(Nat)
        BY <1>1, <2>2, <3>1, <4>1 DEF Ends, Took
      <4> QED BY <1>1, <2>2, <4>1, <4>2 DEF Ends, Took
    <3> QED BY <2>2, <3>1, <3>2, <3>3 DEF Took
  <2> QED BY <2>1, <2>2 DEF Takes
<1>3. CASE Alike(z, t)
  <2>1. LinkOk(t, y, u, w)
    BY <1>2, <1>3, LinkHost DEF Alike
  <2> QED BY <1>2, <1>3, <2>1 DEF Alike, HostMoves
<1>4. CASE PeerAccepted(z, w[1]) /\ Cleared(z, t)
  <2>1. w[1].e = 1 - z.S
    BY <1>2, <1>4 DEF PeerAccepted, Ends
  <2>2. LinkOk(t, y, u, w)
    BY <1>2, <1>4, <2>1, HostAcked DEF Cleared
  <2> QED BY <1>2, <1>4, <2>2 DEF Cleared, HostMoves
<1> QED BY <1>3, <1>4 DEF Heeds

\* A handler that leaves the link LinkOk, and the packet taken off the wire.
LEMMA HeardKeeps ==
  ASSUME IInv, down # <<>>, HostOk(h'), PhaseOk(h'), h'.iv = h.iv, h'.sent = h.sent,
         UNCHANGED <<d, up>>, down' = Tail(down), faults' \in Nat, traffic' \in Nat,
         \A i \in 1 .. Len(up) : IsSyn(up[i], h.iv) => ~h'.joined,
         InSession' => InSession /\ HostMoves(h, d, h') /\ LinkOk(h', d, up, down)
  PROVE  IInv' /\ HostGoesOn
<1>1. TypesOk /\ CookiesOk /\ SessionOk
  BY DEF IInv
<1>2. /\ up \in Seq(Packets) /\ down \in Seq(Packets) /\ down \in Seq(Acks \cup Datas) /\ Len(up) <= WireMax
      /\ Len(down) <= WireMax /\ DevOk(d) /\ Len(down) \in Nat /\ WireMax \in Nat
  BY <1>1, TypeFacts, Consts
<1>3. d' = d /\ up' = up
  OBVIOUS
<1>4. /\ down' \in Seq(Acks \cup Datas) /\ Len(down') <= WireMax /\ down' \in Seq(Packets)
      /\ Drawn(down, 1 .. Len(down), down', 1 .. Len(down'))
  <2>1. down' \in Seq(Acks \cup Datas) /\ Len(down') = Len(down) - 1
    BY <1>2
  <2>2. down' \in Seq(Packets) /\ Drawn(down, 1 .. Len(down), down', 1 .. Len(down'))
    BY <1>2, DrawnTail
  <2> QED BY <1>2, <2>1, <2>2
<1>5. \A i \in 1 .. Len(up') : IsSyn(up'[i], h.iv) => i = Len(up') /\ ~h'.joined
  BY <1>3, SynsStay
<1>6. ASSUME InSession' PROVE InSession /\ HostMoves(h, d, h') /\ LinkOk(h', d, up', down')
  <2>1. InSession /\ HostMoves(h, d, h') /\ LinkOk(h', d, up, down)
    BY <1>6
  <2>2. Ends(h', d) /\ Drawn(up, 1 .. Len(up), up, 1 .. Len(up))
    BY <1>2, EndsOf, DrawnSelf
  <2>3. LinkOk(h', d, up, down')
    BY <1>2, <1>4, <2>1, <2>2, LinkMap
  <2> QED BY <1>3, <2>1, <2>3
<1>7. \A i \in 1 .. Len(up') : up'[i].t = "syn" => \E k \in 1 .. Len(up) : up'[i] = up[k]
  BY <1>3
<1>8. h'.sent \in {0, h.sent, h.sent + 1}
  OBVIOUS
<1> QED BY <1>2, <1>3, <1>4, <1>5, <1>6, <1>7, <1>8, HostKeeps

LEMMA HostRxKeeps == ASSUME IInv, HostRx PROVE IInv' /\ HostGoesOn
<1>1. TypesOk /\ CookiesOk /\ SessionOk /\ HostOk(h) /\ PhaseOk(h)
  BY DEF IInv, TypesOk
<1> DEFINE p == Head(down)
           r == vllp_handle_rx(h, p)
           x == IF r.err = "none" THEN r.x ELSE DisconnectBegin(r.x)
<1>2. /\ ~h.eof /\ down # <<>> /\ h' = Reap([x EXCEPT !.poke = FALSE]) /\ down' = Tail(down)
      /\ UNCHANGED <<d, up>> /\ NoFault /\ Quiet
  BY DEF HostRx, HostSteps, AtLoop
<1>3. /\ up \in Seq(Packets) /\ down \in Seq(Packets) /\ down \in Seq(Acks \cup Datas) /\ DevOk(d)
  BY <1>1, TypeFacts
<1>4. p = down[1] /\ p \in Acks \cup Datas /\ 1 \in 1 .. Len(down)
  BY <1>2, <1>3
<1>5. p.e \in 0 .. 1
  BY <1>4 DEF Acks, Datas
<1> HIDE DEF p
<1>6. /\ HostOk(r.x) /\ (r.err # "none" => Alike(h, r.x))
      /\ r.err = "none" =>
           \/ ~h.conn /\ p.t = "ack" /\ p.iv = h.iv /\ p.e = 1 /\ Joins(h, r.x)
           \/ h.conn /\ \E z : Takes(h, p, z) /\ Heeds(z, p, r.x)
  BY <1>1, <1>4, HostRxOk
<1> HIDE DEF r
<1>7. faults' \in Nat /\ traffic' \in Nat
  BY <1>1, <1>2 DEF TypesOk, NoFault, Quiet
<1>8. HostOk(x) => Kept(x, h')
  BY <1>2, HostStepsOk
<1>9. CASE r.err # "none"
  <2>1. x = DisconnectBegin(r.x)
    BY <1>9
  <2>2. HostOk(x) /\ Resting(r.x, x) /\ (x.eof => r.x.conn \/ r.x.eof)
    BY <1>6, <2>1, BeginOk
  <2> HIDE DEF x
  <2>3. HostOk(h') /\ Resting(h, h') /\ (h'.eof => h.conn)
    BY <1>2, <1>6, <1>8, <1>9, <2>2 DEF Kept, Alike, Resting
  <2>4. PhaseOk(h')
    BY <1>1, <2>3 DEF PhaseOk, Resting
  <2>5. h'.iv = h.iv /\ h'.sent = h.sent /\ h'.joined = h.joined
    BY <2>3 DEF Resting
  <2>6. \A i \in 1 .. Len(up) : IsSyn(up[i], h.iv) => ~h'.joined
    BY <1>1, <2>5 DEF CookiesOk
  <2>7. ASSUME InSession' PROVE InSession /\ HostMoves(h, d, h') /\ LinkOk(h', d, up, down)
    <3>1. InSession
      BY <1>2, <2>3, <2>7 DEF InSession, SameSession, Resting
    <3>2. LinkOk(h', d, up, down)
      BY <1>1, <2>3, <3>1, LinkHost DEF SessionOk, Resting
    <3> QED BY <2>3, <3>1, <3>2, MovesNot DEF Resting
  <2> QED BY <1>2, <1>7, <2>3, <2>4, <2>5, <2>6, <2>7, HeardKeeps
<1>10. CASE r.err = "none" /\ ~h.conn
  <2>1. x = r.x /\ p.t = "ack" /\ p.iv = h.iv /\ p.e = 1 /\ Joins(h, r.x)
    BY <1>6, <1>10
  <2> HIDE DEF x
  <2>2. HostOk(h') /\ Joins(h, h')
    BY <1>6, <1>8, <2>1 DEF Kept, Alike, Joins
  <2>3. PhaseOk(h')
    BY <1>2, <2>2 DEF PhaseOk, Joins
  <2>4. h'.iv = h.iv /\ h'.sent = h.sent
    BY <2>2 DEF Joins
  <2>5. IsAck(down[1], h.iv)
    BY <1>4, <2>1 DEF IsAck
  <2>6. \A i \in 1 .. Len(up) : IsSyn(up[i], h.iv) => ~h'.joined
    BY <1>1, <1>4, <2>5 DEF CookiesOk
  <2>7. ASSUME InSession' PROVE InSession /\ HostMoves(h, d, h') /\ LinkOk(h', d, up, down)
    <3>1. InSession /\ ~h.joined
      BY <1>2, <2>2, <2>7 DEF InSession, SameSession, Joins
    <3>2. h.S = 0 /\ h.E = 1 /\ h.sent = 0 /\ h.rcvd = <<>>
      BY <1>1, <1>10, <3>1 DEF PhaseOk
    <3>3. LinkOk(h, d, up, down)
      BY <1>1, <3>1 DEF SessionOk
    <3>4. LinkOk(h', d, up, down)
      BY <1>2, <1>3, <2>2, <2>5, <3>1, <3>2, <3>3, LinkJoins DEF Joins
    <3> QED BY <2>2, <3>1, <3>4, MovesNot DEF Joins
  <2> QED BY <1>2, <1>7, <2>2, <2>3, <2>4, <2>6, <2>7, HeardKeeps
<1>11. CASE r.err = "none" /\ h.conn
  <2>1. PICK z : Takes(h, p, z) /\ Heeds(z, p, r.x)
    BY <1>6, <1>11
  <2>2. x = r.x
    BY <1>11
  <2> HIDE DEF x
  <2>3. HostOk(h') /\ Heeds(z, p, h')
    BY <1>6, <1>8, <2>1, <2>2 DEF Kept, Alike, Heeds, Cleared
  <2>4. /\ h'.iv = h.iv /\ h'.sent = h.sent /\ h'.joined = h.joined /\ h'.rejoined = h.rejoined /\ h'.conn = h.conn
        /\ h'.eof = h.eof
    BY <2>1, <2>3 DEF Takes, Heeds, Alike, Took, Cleared
  <2>5. h.joined
    BY <1>1, <1>11 DEF PhaseOk
  <2>6. PhaseOk(h')
    BY <1>2, <1>11, <2>4, <2>5 DEF PhaseOk
  <2>7. \A i \in 1 .. Len(up) : IsSyn(up[i], h.iv) => ~h'.joined
    BY <1>1, <2>4 DEF CookiesOk
  <2>8. ASSUME InSession' PROVE InSession /\ HostMoves(h, d, h') /\ LinkOk(h', d, up, down)
    <3>1. InSession
      BY <1>2, <2>4, <2>8 DEF InSession, SameSession
    <3>2. LinkOk(h, d, up, down)
      BY <1>1, <3>1 DEF SessionOk
    <3>3. Takes(h, down[1], z) /\ Heeds(z, down[1], h') /\ down[1].e \in 0 .. 1
      BY <1>4, <1>5, <2>1, <2>3
    <3> QED BY <1>1, <1>2, <1>3, <1>11, <2>5, <3>1, <3>2, <3>3, LinkHears
  <2> QED BY <1>2, <1>7, <2>3, <2>4, <2>6, <2>7, <2>8, HeardKeeps
<1> QED BY <1>9, <1>10, <1>11

-----------------------------------------------------------------------------
(* A new session.                                                          *)

LEMMA NewCookieOk ==
  ASSUME NEW x, HostOk(x), NEW c \in Cookies
  PROVE  LET y == [x EXCEPT !.iv = c, !.cnt = 1, !.ch[Cmc].tx = Key(c, 1), !.ch[Cmc].rx = Key(c, 1),
                            !.sent = 0, !.rcvd = <<>>, !.joined = FALSE, !.rejoined = FALSE]
         IN  /\ HostOk(y) /\ y.conn = x.conn /\ y.S = x.S /\ y.E = x.E /\ y.eof = x.eof
             /\ y.iv = c /\ y.sent = 0 /\ y.rcvd = <<>> /\ ~y.joined /\ ~y.rejoined
<1> DEFINE key == Key(c, 1)
           y1 == [x EXCEPT !.iv = c, !.cnt = 1]
           y2 == [y1 EXCEPT !.ch[Cmc].tx = key]
           y3 == [y2 EXCEPT !.ch[Cmc].rx = key]
           y4 == [y3 EXCEPT !.sent = 0, !.rcvd = <<>>]
           y5 == [y4 EXCEPT !.joined = FALSE, !.rejoined = FALSE]
           y == [x EXCEPT !.iv = c, !.cnt = 1, !.ch[Cmc].tx = key, !.ch[Cmc].rx = key,
                          !.sent = 0, !.rcvd = <<>>, !.joined = FALSE, !.rejoined = FALSE]
<1>1. x \in Host /\ x.ch \in [Channels -> Chan] /\ Cmc \in Channels
  BY HostFacts DEF Channels
<1>2. c \in Cookie /\ key \in Keys /\ <<>> \in Seq(Nat) /\ 0 \in Nat /\ 1 \in Nat
  BY KeyTypes DEF Cookie
<1> HIDE DEF key
<1>3. y = y5
  BY <1>1 DEF Host, Chan
<1>4. y1 \in Host
  BY <1>1, <1>2 DEF Host
<1>5. /\ y1.conn = x.conn /\ y1.S = x.S /\ y1.E = x.E /\ y1.eof = x.eof /\ y1.iv = c /\ y1.ch = x.ch
      /\ y1.cur = x.cur
  BY <1>1 DEF Host
<1> HIDE DEF y1
<1>6. HostOk(y1)
  BY <1>4, <1>5 DEF HostOk
<1>7. Kept(y1, y2)
  BY <1>1, <1>2, <1>6, SetField
<1> HIDE DEF y2
<1>8. Kept(y2, y3)
  BY <1>1, <1>2, <1>7, SetField DEF Kept
<1> HIDE DEF y3
<1>9. Kept(y1, y3)
  BY <1>7, <1>8, KeptTwice
<1>10. y3 \in Host
  BY <1>9, HostFacts DEF Kept
<1>11. y4 \in Host
  BY <1>2, <1>10 DEF Host
<1>12. /\ y4.conn = y3.conn /\ y4.S = y3.S /\ y4.E = y3.E /\ y4.eof = y3.eof /\ y4.iv = y3.iv /\ y4.ch = y3.ch
       /\ y4.cur = y3.cur /\ y4.sent = 0 /\ y4.rcvd = <<>>
  BY <1>10 DEF Host
<1> HIDE DEF y4
<1>13. y5 \in Host
  BY <1>11 DEF Host
<1>14. /\ y5.conn = y4.conn /\ y5.S = y4.S /\ y5.E = y4.E /\ y5.eof = y4.eof /\ y5.iv = y4.iv /\ y5.ch = y4.ch
       /\ y5.cur = y4.cur /\ y5.sent = y4.sent /\ y5.rcvd = y4.rcvd /\ ~y5.joined /\ ~y5.rejoined
  BY <1>11 DEF Host
<1> HIDE DEF y5
<1>15. HostOk(y5)
  BY <1>9, <1>12, <1>13, <1>14 DEF HostOk, Kept
<1> HIDE DEF y
<1>16. /\ HostOk(y) /\ y.conn = x.conn /\ y.S = x.S /\ y.E = x.E /\ y.eof = x.eof
       /\ y.iv = c /\ y.sent = 0 /\ y.rcvd = <<>> /\ ~y.joined /\ ~y.rejoined
  BY <1>3, <1>5, <1>9, <1>12, <1>14, <1>15 DEF Kept, Alike
<1> QED BY <1>16 DEF y, key

LEMMA OneMore ==
  ASSUME NEW S, NEW u \in Seq(S), NEW g \in Seq(S), Len(g) = 1
  PROVE  /\ Len(u \o g) = Len(u) + 1 /\ (\A i \in 1 .. Len(u) : (u \o g)[i] = u[i])
         /\ (u \o g)[Len(u) + 1] = g[1]
<1> DEFINE v == u \o g
           n == Len(u)
<1>1. /\ Len(v) = n + Len(g) /\ n \in Nat
      /\ \A i \in 1 .. n + Len(g) : v[i] = IF i <= n THEN u[i] ELSE g[i - n]
  <2>1. /\ Len(v) = n + Len(g)
        /\ \A i \in 1 .. n + Len(g) : v[i] = IF i <= n THEN u[i] ELSE g[i - n]
    BY ConcatProperties, Zenon
  <2>2. n \in Nat
    OBVIOUS
  <2> QED BY <2>1, <2>2
<1> HIDE DEF v, n
<1>2. Len(v) = n + 1 /\ (\A i \in 1 .. n : v[i] = u[i]) /\ v[n + 1] = g[1]
  <2>1. n + 1 \in 1 .. n + Len(g) /\ ~(n + 1 <= n) /\ (n + 1) - n = 1
    BY <1>1
  <2> QED BY <1>1, <2>1
<1> QED BY <1>2 DEF v, n

LEMMA SendSynKeeps == ASSUME IInv, vllp_send_syn PROVE IInv' /\ HostGoesOn
<1>1. TypesOk /\ CookiesOk /\ HostOk(h) /\ PhaseOk(h)
  BY DEF IInv, TypesOk
<1> DEFINE c == IF h.iv = Nil THEN 1 ELSE h.iv + 1
           x == [h EXCEPT !.iv = c, !.cnt = 1, !.ch[Cmc].tx = Key(c, 1), !.ch[Cmc].rx = Key(c, 1),
                          !.sent = 0, !.rcvd = <<>>, !.joined = FALSE, !.rejoined = FALSE]
           g == <<Syn(c)>>
<1>2. /\ ~h.eof /\ ~h.conn /\ c \in Cookies /\ h' = Reap([x EXCEPT !.poke = FALSE]) /\ up' = Put(up, g)
      /\ d' = d /\ NoFault /\ Quiet
  BY DEF vllp_send_syn, HostSteps, AtLoop
<1>3. PICK k \in 0 .. Len(down) : down' = SubSeq(down, k + 1, Len(down))
  BY DEF vllp_send_syn
<1>4. /\ up \in Seq(Packets) /\ down \in Seq(Acks \cup Datas) /\ Len(down) <= WireMax /\ Len(down) \in Nat
      /\ Len(up) \in Nat /\ DevOk(d) /\ d.out = <<>> /\ WireMax \in Nat
  BY <1>1, TypeFacts, Consts
<1>5. h.iv \in Cookie /\ d.iv \in Cookie
  BY <1>1, <1>4, HostFacts DEF DevOk, Server
<1>6. Num(c) = Num(h.iv) + 1 /\ Num(h.iv) \in Nat /\ c # Nil
  <2>1. c # Nil /\ Num(h.iv) \in Nat
    BY <1>2, <1>5, Consts, NumNat
  <2> QED BY <2>1 DEF Num
<1> HIDE DEF c
<1>7. /\ HostOk(x) /\ x.conn = h.conn /\ x.S = h.S /\ x.E = h.E /\ x.eof = h.eof
      /\ x.iv = c /\ x.sent = 0 /\ x.rcvd = <<>> /\ ~x.joined /\ ~x.rejoined
  BY <1>1, <1>2, NewCookieOk
<1> HIDE DEF x
<1>8. Kept(x, h')
  BY <1>2, <1>7, HostStepsOk
<1>9. HostOk(h') /\ PhaseOk(h') /\ h'.iv = c /\ h'.sent = 0 /\ ~h'.joined
  BY <1>1, <1>2, <1>7, <1>8 DEF Kept, Alike, PhaseOk
<1>10. g \in Seq(Packets) /\ g[1] = Syn(c) /\ Len(g) = 1
  <2>1. Syn(c) \in Packets
    BY <1>2 DEF Syn, Syns, Packets
  <2> QED BY <2>1
<1> HIDE DEF g
<1>11. /\ up' \in Seq(Packets) /\ Len(up') <= WireMax /\ Len(up') \in Nat /\ Len(up') <= Len(up) + 1
       /\ \A i \in 1 .. Len(up') : IF i <= Len(up) THEN up'[i] = up[i] ELSE i = Len(up) + 1 /\ up'[i] = Syn(c)
  <2>1. /\ up' \in Seq(Packets) /\ Len(up') <= WireMax /\ Len(up') <= Len(up \o g) /\ Len(up') \in Nat
        /\ \A i \in 1 .. Len(up') : up'[i] = (up \o g)[i]
    BY <1>2, <1>4, <1>10, PutIs
  <2>2. /\ Len(up \o g) = Len(up) + 1 /\ (\A i \in 1 .. Len(up) : (up \o g)[i] = up[i])
        /\ (up \o g)[Len(up) + 1] = g[1]
    BY <1>4, <1>10, OneMore
  <2> QED BY <1>4, <1>10, <2>1, <2>2
<1>12. /\ down' \in Seq(Acks \cup Datas) /\ Len(down') <= WireMax
       /\ \A i \in 1 .. Len(down') : \E j \in 1 .. Len(down) : down'[i] = down[j]
  <2> DEFINE A == Acks \cup Datas
  <2>1. down \in Seq(A) /\ k \in Nat /\ k <= Len(down)
    BY <1>3, <1>4
  <2> HIDE DEF A
  <2>2. /\ down' \in Seq(A) /\ Len(down') = Len(down) - k
        /\ \A i \in 1 .. Len(down') : down'[i] = down[i + k] /\ i + k \in 1 .. Len(down)
    BY <1>3, <1>4, <2>1
  <2>3. Len(down') <= WireMax
    BY <1>4, <2>1, <2>2
  <2> QED BY <2>2, <2>3 DEF A
<1>13. TypesOk'
  <2>1. faults' \in Nat /\ traffic' \in Nat
    BY <1>1, <1>2 DEF TypesOk, NoFault, Quiet
  <2> QED BY <1>2, <1>4, <1>9, <1>11, <1>12, <2>1 DEF TypesOk, Packets
<1>14. Num(d.iv) \in Nat /\ Num(d.iv) < Num(c)
  BY <1>1, <1>5, <1>6, NumNat DEF CookiesOk
<1>15. d.iv # c
  BY <1>14
<1>16. ASSUME NEW i \in 1 .. Len(up'), up'[i].t = "syn" PROVE Num(up'[i].iv) <= Num(c)
  <2>1. CASE i <= Len(up)
    <3>1. up'[i] = up[i] /\ i \in 1 .. Len(up)
      BY <1>4, <1>11, <2>1
    <3>2. up[i] \in Packets /\ up[i].t = "syn"
      BY <1>4, <1>16, <3>1
    <3>3. Num(up[i].iv) \in Nat
      <4>1. up[i].iv \in Cookie
        BY <3>2 DEF Packets, Syns, Acks, Datas, Cookie
      <4> QED BY <4>1, NumNat
    <3>4. Num(up[i].iv) <= Num(h.iv)
      BY <1>1, <3>1, <3>2 DEF CookiesOk
    <3> QED BY <1>6, <3>1, <3>3, <3>4
  <2>2. CASE ~(i <= Len(up))
    <3>1. up'[i].iv = c
      BY <1>11, <2>2 DEF Syn
    <3> QED BY <1>6, <3>1
  <2> QED BY <2>1, <2>2
<1>17. ASSUME NEW i \in 1 .. Len(down'), down'[i].t = "ack" PROVE Num(down'[i].iv) <= Num(c) /\ down'[i].iv # c
  <2>1. PICK j \in 1 .. Len(down) : down'[i] = down[j]
    BY <1>12
  <2>2. down[j] \in Acks
    BY <1>4, <1>17, <2>1 DEF Datas
  <2>3. Num(down[j].iv) \in Nat
    BY <2>2, NumNat DEF Acks
  <2>4. Num(down[j].iv) <= Num(h.iv)
    BY <1>1, <1>17, <2>1 DEF CookiesOk
  <2> QED BY <1>6, <2>1, <2>3, <2>4
<1>18. ASSUME NEW i \in 1 .. Len(up'), IsSyn(up'[i], c) PROVE i = Len(up')
  <2>1. ~(i <= Len(up))
    <3> SUFFICES ASSUME i <= Len(up) PROVE FALSE
      OBVIOUS
    <3>1. up'[i] = up[i] /\ i \in 1 .. Len(up)
      BY <1>4, <1>11
    <3>2. up[i].t = "syn" /\ up[i].iv = c
      BY <1>18, <3>1 DEF IsSyn
    <3>3. Num(c) <= Num(h.iv)
      BY <1>1, <3>1, <3>2 DEF CookiesOk
    <3> QED BY <1>6, <3>3
  <2> QED BY <1>4, <1>11, <2>1
<1>19. CookiesOk'
  <2>1. Num(d'.iv) <= Num(h'.iv) /\ d'.iv # h'.iv /\ ~h'.joined
    BY <1>2, <1>6, <1>9, <1>14, <1>15
  <2>2. \A i \in 1 .. Len(up') : up'[i].t = "syn" => Num(up'[i].iv) <= Num(h'.iv)
    BY <1>9, <1>16
  <2>3. \A i \in 1 .. Len(down') : down'[i].t = "ack" => Num(down'[i].iv) <= Num(h'.iv)
    BY <1>9, <1>17
  <2>4. \A i \in 1 .. Len(up') : IsSyn(up'[i], h'.iv) => i = Len(up')
    BY <1>9, <1>18
  <2>5. \A j \in 1 .. Len(down') : ~IsAck(down'[j], h'.iv)
    BY <1>9, <1>17 DEF IsAck
  <2> QED BY <2>1, <2>2, <2>3, <2>4, <2>5 DEF CookiesOk
<1>20. ~InSession'
  BY <1>2, <1>9, <1>15 DEF InSession, SameSession
<1> QED BY <1>2, <1>9, <1>13, <1>19, <1>20 DEF IInv, SessionOk, HostGoesOn

-----------------------------------------------------------------------------
(* All steps.                                                              *)

LEMMA CreatedOk ==
  /\ HostOk(vllp_create) /\ PhaseOk(vllp_create) /\ vllp_create.iv = Nil
  /\ vllp_create.sent = 0 /\ vllp_create.rcvd = <<>> /\ vllp_create.cur = <<>>
<1> DEFINE m == [NoChannel EXCEPT !.st = "est", !.id = Cmc, !.linked = TRUE]
           C == [c \in Handles \cup {Cmc} |-> IF c = Cmc THEN m ELSE NoChannel]
           S == Ids \cup {Cmc}
           x == [conn |-> FALSE, S |-> 0, E |-> 1, iv |-> Nil, cnt |-> 0, cur |-> <<>>,
                 rtx |-> FALSE, eof |-> FALSE, poke |-> FALSE, flow |-> Ids,
                 rflow |-> S, ids |-> Ids, pend |-> <<>>, act |-> <<>>, ch |-> C,
                 sent |-> 0, rcvd |-> <<>>, joined |-> FALSE, rejoined |-> FALSE]
<1>1. m \in Chan /\ m.id = Cmc /\ m.st = "est" /\ m.mtxq = <<>> /\ m.txq = <<>>
  BY NoChannelType DEF Chan
<1>2. vllp_create = x
  BY DEF vllp_create
<1>3. \A c \in Handles \cup {Cmc} : <<>> \in Seq(MsgsOf(c)) /\ <<>> \in Seq(FragsOf(c))
  OBVIOUS
<1>4. ChanOk(Cmc, m)
  BY <1>1, <1>3 DEF ChanOk
<1>5. \A c \in Handles : c # Cmc /\ ChanOk(c, NoChannel)
  BY <1>3, NoChannelType, Consts DEF ChanOk
<1> HIDE DEF m
<1>6. /\ C \in [Handles \cup {Cmc} -> Chan]
      /\ \A c \in Handles \cup {Cmc} : ChanOk(c, C[c])
  BY <1>1, <1>4, <1>5, NoChannelType
<1> HIDE DEF C
<1>7. /\ Nil \in Cookie /\ S \in SUBSET (Ids \cup {Cmc}) /\ Ids \in SUBSET Ids /\ <<>> \in Seq(Frags) /\ <<>> \in Seq(Nat)
      /\ <<>> \in Seq(Handles) /\ <<>> \in Seq(Handles \cup {Cmc}) /\ 0 \in 0 .. 1 /\ 1 \in 0 .. 1 /\ 0 \in Nat
  BY DEF Cookie
<1> HIDE DEF S
<1>8. x \in Host
  BY <1>6, <1>7 DEF Host
<1>9. /\ x.ch = C /\ x.cur = <<>> /\ ~x.conn /\ ~x.eof /\ x.S = 0 /\ x.E = 1 /\ x.iv = Nil
      /\ x.sent = 0 /\ x.rcvd = <<>> /\ ~x.joined /\ ~x.rejoined
  OBVIOUS
<1> HIDE DEF x
<1>10. Len(x.cur) = 0
  BY <1>9
<1>11. HostOk(x)
  BY <1>6, <1>8, <1>9, <1>10 DEF HostOk
<1>12. PhaseOk(x)
  BY <1>9 DEF PhaseOk
<1> QED BY <1>2, <1>9, <1>11, <1>12

LEMMA InitOk == ASSUME Init PROVE IInv
<1>1. /\ h = vllp_create /\ d = DeviceOff /\ up = <<>> /\ down = <<>> /\ traffic = 0 /\ faults = 0
  BY DEF Init
<1>2. Len(up) = 0 /\ Len(down) = 0 /\ WireMax \in Nat
  BY <1>1, Consts
<1>3. up \in Seq(Syns \cup Acks \cup Datas) /\ down \in Seq(Acks \cup Datas) /\ Len(up) <= WireMax /\ Len(down) <= WireMax
  BY <1>1, <1>2
<1>4. HostOk(h) /\ PhaseOk(h) /\ h.iv = Nil /\ DevOk(d) /\ d.out = <<>> /\ d.iv = Nil
  BY <1>1, CreatedOk, OffOk
<1>5. TypesOk
  BY <1>1, <1>3, <1>4 DEF TypesOk
<1>6. CookiesOk
  BY <1>2, <1>4, NumNat DEF CookiesOk
<1>7. SessionOk
  BY <1>4 DEF SessionOk, InSession, SameSession
<1> QED BY <1>5, <1>6, <1>7 DEF IInv

\* Every step keeps the invariant and does to the session what a step of one
\* end may do.
Moves == DeviceGoesOn \/ SessionStarts \/ HostGoesOn

LEMMA NextKeeps == ASSUME IInv, [Next]_vars PROVE IInv' /\ (Moves \/ UNCHANGED vars)
<1>1. CASE HostThread
  BY <1>1, PendingKeeps, HostRxKeeps, DisconnectedKeeps, TimeoutKeeps, SendSynKeeps, RetransmitKeeps, HostSendKeeps,
     SendAckKeeps DEF HostThread, Moves
<1>2. CASE User
  <2>1. PICK c \in Handles : \/ vllp_channel_create(c) \/ vllp_channel_send(c)
                             \/ \E wait \in Waits : vllp_channel_close(c, wait)
                             \/ CloseReturns(c)
    BY <1>2 DEF User
  <2> QED BY <2>1, CreateKeeps, UserSendKeeps, UserCloseKeeps, CloseReturnsKeeps DEF Moves
<1>3. CASE Device
  BY <1>3, DeviceRxKeeps, TimersKeep DEF Device, Moves
<1>4. CASE DeviceReset
  BY <1>4, ResetKeeps DEF Moves
<1>5. CASE Service
  BY <1>5, ServiceKeeps DEF Moves
<1>6. CASE Lose \/ Double
  BY <1>6, LoseKeeps DEF Moves
<1>7. CASE UNCHANGED vars
  <2>1. h' = h /\ d' = d /\ up' = up /\ down' = down /\ traffic' = traffic /\ faults' = faults
    BY <1>7 DEF vars
  <2>2. TypesOk'
    BY <2>1 DEF IInv, TypesOk
  <2>3. CookiesOk'
    BY <2>1 DEF IInv, CookiesOk
  <2>4. SessionOk'
    BY <2>1 DEF IInv, SessionOk, InSession, SameSession
  <2> QED BY <1>7, <2>2, <2>3, <2>4 DEF IInv
<1> QED BY <1>1, <1>2, <1>3, <1>4, <1>5, <1>6, <1>7 DEF Next

\* The cookies, the bits, the packets on the wires and what either end keeps
\* of the session fit together, whatever is lost, doubled, reset or timed out
\* (vllp_rx, vllp_handle_rx, vllp_accept_syn, vllp_send_syn).
THEOREM VllpInductive == Spec => []IInv
<1>1. Init => IInv
  BY InitOk
<1>2. IInv /\ [Next]_vars => IInv'
  BY NextKeeps
<1> QED BY <1>1, <1>2, PTL DEF Spec

LEMMA SessionCounts ==
  ASSUME TypesOk, SessionOk, InSession
  PROVE  /\ h.cur = <<>> => Len(d.rcvd) = h.sent
         /\ d.tx = <<>> => Len(h.rcvd) = d.sent
<1> DEFINE i == h.cur = <<>>
           j == d.tx = <<>>
<1>1. LinkOk(h, d, up, down)
  BY DEF SessionOk
<1>2. Counts(h.sent, Len(d.rcvd), h.cur = <<>>) /\ Counts(d.sent, Len(h.rcvd), d.tx = <<>>)
  BY <1>1 DEF LinkOk, Dir
<1> QED BY <1>2 DEF Counts

LEMMA InvHolds == ASSUME IInv PROVE VllpInv
<1>1. TypesOk /\ SessionOk /\ HostOk(h) /\ DevOk(d) /\ h \in Host /\ d \in Server
  BY DEF IInv, TypesOk, HostOk, DevOk
<1>2. NothingUnacked
  BY <1>1, SessionCounts DEF NothingUnacked, InSession
<1>3. NoOverrun
  BY <1>1 DEF DevOk, NoOverrun
<1>4. h.S \in 0 .. 1 /\ h.E \in 0 .. 1 /\ d.S \in 0 .. 1 /\ d.E \in 0 .. 1
  BY <1>1 DEF Host, Server
<1>5. h.iv \in Cookies \cup {Nil} /\ d.iv \in Cookies \cup {Nil}
  BY <1>1 DEF Host, Server, Cookie
<1>6. h.ids \subseteq Ids /\ h.rflow \subseteq Ids \cup {Cmc} /\ d.flow \subseteq Ids
  BY <1>1 DEF Host, Server
<1>7. Len(h.cur) <= 1 /\ Len(up) <= WireMax /\ Len(down) <= WireMax
  BY <1>1 DEF TypesOk, HostOk
<1>8. ASSUME NEW c \in DOMAIN h.ch
      PROVE  h.ch[c].st \in {"none", "pending", "sent", "est", "active", "csent", "closed"}
  <2>1. h.ch \in [Handles \cup {Cmc} -> Chan]
    BY <1>1 DEF Host
  <2>2. h.ch[c] \in Chan
    BY <2>1
  <2> QED BY <2>2 DEF Chan
<1>9. Range(d.est) \subseteq {i \in Slots : d.ch[i].used} \cup {Cmc}
  <2>1. d.est \in Seq(Slots \cup {Cmc}) /\ EstOk(d)
    BY <1>1 DEF Server, DevOk
  <2>2. Range(d.est) = ToSet(d.est) /\ ToSet(d.est) \subseteq Slots \cup {Cmc}
    BY <2>1 DEF Range, ToSet
  <2> QED BY <2>1, <2>2 DEF EstOk
<1>10. VllpTypeOK
  BY <1>4, <1>5, <1>6, <1>7, <1>8, <1>9 DEF VllpTypeOK
<1> QED BY <1>2, <1>3, <1>10 DEF VllpInv

\* Neither end forgets a fragment the peer has not accepted (current_tx,
\* current_tx_buf), no message is pushed to a service that has not read the one
\* before (the assertion in pushpull_stream_push), and no freed channel is left
\* on established_channels.
THEOREM VllpInvCorrect == Spec => []VllpInv
  BY VllpInductive, InvHolds, PTL

-----------------------------------------------------------------------------
(* The two links.                                                          *)

LEMMA Ended ==
  ASSUME IInv, Moves \/ UNCHANGED vars, ~InSession'
  PROVE  h'.sent \in {0, h.sent, h.sent + 1}
<1>1. h'.sent = h.sent \/ h'.sent \in {0, h.sent, h.sent + 1}
  BY DEF Moves, DeviceGoesOn, SessionStarts, HostGoesOn, vars
<1> QED BY <1>1

LEMMA Lasting ==
  ASSUME IInv, Moves \/ UNCHANGED vars, InSession', InSession
  PROVE  \/ h' = h /\ DeviceMoves(h, d, d')
         \/ d' = d /\ HostMoves(h, d, h')
         \/ h' = h /\ d' = d
  BY DEF Moves, DeviceGoesOn, SessionStarts, HostGoesOn, vars

LEMMA Beginning ==
  ASSUME IInv, Moves \/ UNCHANGED vars, InSession', ~InSession
  PROVE  /\ h' = h /\ h.sent = 0 /\ h.rcvd = <<>> /\ d'.sent = 0 /\ d'.rcvd = <<>>
<1>1. SessionStarts \/ UNCHANGED vars
  BY DEF Moves, DeviceGoesOn, HostGoesOn
<1>2. ~UNCHANGED vars
  BY DEF vars, InSession, SameSession
<1> QED BY <1>1, <1>2 DEF SessionStarts

LEMMA UpStep ==
  ASSUME IInv, IInv', Moves \/ UNCHANGED vars
  PROVE  [Up!Next]_<<h.sent, IF InSession THEN d.rcvd ELSE <<>>, InSession>>
<1> DEFINE a == IF InSession THEN d.rcvd ELSE <<>>
<1>0. InSession \in BOOLEAN /\ InSession' \in BOOLEAN /\ h.sent \in Nat /\ d.rcvd \in Seq(Nat)
  BY DEF InSession, SameSession, IInv, TypesOk, HostOk, DevOk, Host, Server
<1>1. CASE ~InSession'
  <2>1. a' = <<>> /\ InSession' = FALSE
    BY <1>0, <1>1
  <2> QED BY <1>1, <2>1, Ended DEF Up!Next, Up!Break
<1>2. CASE InSession' /\ ~InSession
  <2>1. a' = <<>> /\ a = <<>> /\ h.sent = 0 /\ h'.sent = h.sent /\ InSession' = TRUE
    BY <1>0, <1>2, Beginning
  <2> QED BY <1>2, <2>1 DEF Up!Next, Up!Join
<1>3. CASE InSession' /\ InSession
  <2>1. a = d.rcvd /\ a' = d'.rcvd /\ InSession' = InSession
    BY <1>0, <1>3
  <2>2. CASE h' = h /\ DeviceMoves(h, d, d')
    <3>1. CASE d'.rcvd = d.rcvd
      BY <2>1, <2>2, <3>1
    <3>2. CASE d'.rcvd = Append(d.rcvd, Len(d.rcvd) + 1) /\ h.sent = Len(d.rcvd) + 1
      <4>1. Len(d.rcvd) < h.sent
        BY <1>0, <3>2
      <4> QED BY <1>3, <2>1, <2>2, <3>2, <4>1 DEF Up!Next, Up!Accept
    <3> QED BY <2>2, <3>1, <3>2 DEF DeviceMoves
  <2>3. CASE d' = d /\ HostMoves(h, d, h')
    BY <1>3, <2>1, <2>3 DEF HostMoves, Up!Next, Up!Offer
  <2>4. CASE h' = h /\ d' = d
    BY <2>1, <2>4
  <2> QED BY <1>3, <2>2, <2>3, <2>4, Lasting
<1> QED BY <1>1, <1>2, <1>3

LEMMA DownStep ==
  ASSUME IInv, IInv', Moves \/ UNCHANGED vars
  PROVE  [Down!Next]_<<IF InSession THEN d.sent ELSE 0, IF InSession THEN h.rcvd ELSE <<>>, InSession>>
<1> DEFINE a == IF InSession THEN h.rcvd ELSE <<>>
           o == IF InSession THEN d.sent ELSE 0
<1>0. InSession \in BOOLEAN /\ InSession' \in BOOLEAN /\ d.sent \in Nat /\ h.rcvd \in Seq(Nat)
  BY DEF InSession, SameSession, IInv, TypesOk, HostOk, DevOk, Host, Server
<1>1. CASE ~InSession'
  <2>1. a' = <<>> /\ o' = 0 /\ InSession' = FALSE
    BY <1>0, <1>1
  <2> QED BY <1>1, <2>1 DEF Down!Next, Down!Break
<1>2. CASE InSession' /\ ~InSession
  <2>1. a' = <<>> /\ a = <<>> /\ o = 0 /\ o' = 0 /\ InSession' = TRUE
    BY <1>0, <1>2, Beginning
  <2> QED BY <1>2, <2>1 DEF Down!Next, Down!Join
<1>3. CASE InSession' /\ InSession
  <2>1. a = h.rcvd /\ a' = h'.rcvd /\ o = d.sent /\ o' = d'.sent /\ InSession' = InSession
    BY <1>0, <1>3
  <2>2. CASE d' = d /\ HostMoves(h, d, h')
    <3>1. CASE h'.rcvd = h.rcvd
      BY <2>1, <2>2, <3>1
    <3>2. CASE h'.rcvd = Append(h.rcvd, Len(h.rcvd) + 1) /\ d.sent = Len(h.rcvd) + 1
      <4>1. Len(h.rcvd) < d.sent
        BY <1>0, <3>2
      <4> QED BY <1>3, <2>1, <2>2, <3>2, <4>1 DEF Down!Next, Down!Accept
    <3> QED BY <2>2, <3>1, <3>2 DEF HostMoves
  <2>3. CASE h' = h /\ DeviceMoves(h, d, d')
    BY <1>3, <2>1, <2>3 DEF DeviceMoves, Down!Next, Down!Offer
  <2>4. CASE h' = h /\ d' = d
    BY <2>1, <2>4
  <2> QED BY <1>3, <2>2, <2>3, <2>4, Lasting
<1> QED BY <1>1, <1>2, <1>3

\* The fragments of the host are accepted by the device once each and in order
\* for as long as the session lasts (vllp_rx, vllp_handle_rx).
THEOREM UpLinkCorrect == Spec => UpLink
<1>1. Init => Up!Init
  <2> SUFFICES ASSUME Init PROVE Up!Init
    OBVIOUS
  <2>1. h.sent = 0 /\ h.iv = Nil
    BY CreatedOk DEF Init
  <2>2. InSession = FALSE
    BY <2>1 DEF InSession, SameSession
  <2> QED BY <2>1, <2>2 DEF Up!Init
<1>2. IInv /\ IInv' /\ [Next]_vars => [Up!Next]_<<h.sent, IF InSession THEN d.rcvd ELSE <<>>, InSession>>
  BY NextKeeps, UpStep
<1> QED BY <1>1, <1>2, VllpInductive, PTL DEF Spec, UpLink, Up!Spec

\* The same for the fragments of the device.
THEOREM DownLinkCorrect == Spec => DownLink
<1>1. Init => Down!Init
  <2> SUFFICES ASSUME Init PROVE Down!Init
    OBVIOUS
  <2>1. h.iv = Nil
    BY CreatedOk DEF Init
  <2>2. InSession = FALSE
    BY <2>1 DEF InSession, SameSession
  <2> QED BY <2>2 DEF Down!Init
<1>2. IInv /\ IInv' /\ [Next]_vars =>
        [Down!Next]_<<IF InSession THEN d.sent ELSE 0, IF InSession THEN h.rcvd ELSE <<>>, InSession>>
  BY NextKeeps, DownStep
<1> QED BY <1>1, <1>2, VllpInductive, PTL DEF Spec, DownLink, Down!Spec

\* One sequence bit each way, a retransmission buffer of one packet and a new
\* cookie for every session make two reliable links out of two wires that lose
\* and double packets (vllp_rx, vllp_handle_rx, docs/vllp.txt).
THEOREM BothLinksCorrect == Spec => BothLinks
  BY UpLinkCorrect, DownLinkCorrect, PTL DEF BothLinks

\* So what ReliableLinkProofs shows of a link holds in both directions.
HostLink == INSTANCE ReliableLinkProofs WITH
  offered <- h.sent, accepted <- IF InSession THEN d.rcvd ELSE <<>>, alive <- InSession
DeviceLink == INSTANCE ReliableLinkProofs WITH
  offered <- IF InSession THEN d.sent ELSE 0,
  accepted <- IF InSession THEN h.rcvd ELSE <<>>, alive <- InSession

\* At any time of a session the device has taken the fragments 1, 2, 3 ... of
\* the host in this order, none twice and none left out, and the host those of
\* the device (the histories d.rcvd and h.rcvd of what vllp_channel_receive and
\* rx_data are given).
THEOREM DeliveredBothWays == Spec => [](Up!Delivered /\ Down!Delivered)
<1>1. UpLink => []Up!Delivered
  <2> DEFINE view == <<h.sent, IF InSession THEN d.rcvd ELSE <<>>, InSession>>
  <2>1. Up!Init => HostLink!Init
    BY Zenon DEF Up!Init, HostLink!Init
  <2>2. [Up!Next]_view => [HostLink!Next]_view
    BY Zenon DEF Up!Next, Up!Join, Up!Offer, Up!Accept, Up!Break,
           HostLink!Next, HostLink!Join, HostLink!Offer, HostLink!Accept, HostLink!Break
  <2>3. HostLink!Delivered => Up!Delivered
    BY Zenon DEF Up!Delivered, HostLink!Delivered
  <2> QED
    BY <2>1, <2>2, <2>3, HostLink!DeliveredInOrder, PTL DEF UpLink, Up!Spec, HostLink!Spec
<1>2. DownLink => []Down!Delivered
  <2> DEFINE view == <<IF InSession THEN d.sent ELSE 0, IF InSession THEN h.rcvd ELSE <<>>, InSession>>
  <2>1. Down!Init => DeviceLink!Init
    BY Zenon DEF Down!Init, DeviceLink!Init
  <2>2. [Down!Next]_view => [DeviceLink!Next]_view
    BY Zenon DEF Down!Next, Down!Join, Down!Offer, Down!Accept, Down!Break,
           DeviceLink!Next, DeviceLink!Join, DeviceLink!Offer, DeviceLink!Accept, DeviceLink!Break
  <2>3. DeviceLink!Delivered => Down!Delivered
    BY Zenon DEF Down!Delivered, DeviceLink!Delivered
  <2> QED
    BY <2>1, <2>2, <2>3, DeviceLink!DeliveredInOrder, PTL DEF DownLink, Down!Spec, DeviceLink!Spec
<1> QED
  BY <1>1, <1>2, UpLinkCorrect, DownLinkCorrect, PTL
=============================================================================
