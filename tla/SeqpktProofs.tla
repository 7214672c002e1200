---------------------------- MODULE SeqpktProofs ----------------------------
(***************************************************************************)
(* Proofs about the MBUS sequenced packets (mbus_seqpkt.c), for messages   *)
(* of any length, any number of them, any number of packets under way and  *)
(* any losses: one bit is enough, the service finds room, a freed          *)
(* connection is not queued.                                               *)
(***************************************************************************)
EXTENDS Seqpkt, TLAPS

-----------------------------------------------------------------------------
(* The inductive invariant.                                                *)

Frag == [seq : {0, 1}, n : Nat, last : BOOLEAN]
Packet == [t : {"init"}] \cup [t : {"eos"}]
          \cup [t : {"flags"}, eseq : {0, 1}, cts : BOOLEAN, frag : Seq(Frag)]
Con == [up : BOOLEAN, flow : BOOLEAN, app : BOOLEAN, closed : BOOLEAN,
        sig : SUBSET {"event", "close"}, gen : {0, 1}, eseq : {0, 1}, cts : BOOLEAN,
        reseq : {0, 1}, rcts : BOOLEAN, txq : Seq(Frag), rxq : Nat, new : BOOLEAN,
        rtx : BOOLEAN, ack : BOOLEAN, ka : BOOLEAN, slot : BOOLEAN, out : 0 .. MsgFrags,
        done : BOOLEAN, given : Nat, sent : Nat, got : Seq(Nat)]

HasFrag(p) == p.t = "flags" /\ p.frag # <<>>

\* The fragments of k that the other end has acknowledged.
Acked(k) == k.given - Len(k.txq)

\* One end, whatever the other does: who holds what, the service's events, the
\* transmit queue (consecutive fragments, messages complete and not too long).
LifeOk(k) ==
  /\ k.ack \/ k.rtx \/ k.ka => k.up
  /\ (k.flow => k.up) /\ (k.app => k.flow)
  /\ k.closed => k.done /\ k.sig = {}
  /\ "close" \in k.sig => k.done
  /\ ~k.up => k.sig = {} /\ k.done

QueueOk(k) ==
  /\ Len(k.txq) <= 1 + MsgFrags /\ Len(k.txq) <= k.given /\ k.gen = k.given % 2
  /\ \A i \in 1 .. Len(k.txq) : k.txq[i].n = Acked(k) + i /\ k.txq[i].seq = (k.txq[i].n + 1) % 2
  /\ \A i \in 1 .. Len(k.txq) : \E j \in i .. Len(k.txq) : k.txq[j].last /\ j - i < MsgFrags

EndOk(k) == k \in Con /\ k.rxq < MsgFrags /\ LifeOk(k) /\ QueueOk(k)

\* What is on its way to an end: the fragment accepted last, again, then the
\* one after it; none that its service has no place for.
ArrivesOk(r, w) ==
  /\ r.eseq = Len(r.got) % 2
  /\ \A i \in 1 .. Len(w) : HasFrag(w[i]) =>
       LET f == w[i].frag[1] IN
       /\ f.n \in {Len(r.got), Len(r.got) + 1} /\ f.n > 0 /\ f.seq = (f.n + 1) % 2
       /\ r.app /\ f.n = Len(r.got) + 1 => f.last \/ r.rxq + 1 < MsgFrags
  /\ \A i, j \in 1 .. Len(w) :
       i < j /\ HasFrag(w[i]) /\ HasFrag(w[j]) => w[i].frag[1].n <= w[j].frag[1].n

\* The sender s and the receiver r of one direction, with the packets from one
\* to the other: at most one fragment is between them, and the acknowledgements
\* under way change at most once.
CountsOk(s, r) ==
  /\ s.reseq = Acked(s) % 2
  /\ s.sent = (IF s.new THEN Acked(s) ELSE Acked(s) + 1) /\ (~s.new => s.txq # <<>>)
  /\ Acked(s) <= Len(r.got) /\ Len(r.got) <= s.sent /\ s.sent <= Len(r.got) + 1

FragsOk(s, r, w) ==
  \A i \in 1 .. Len(w) : HasFrag(w[i]) /\ w[i].frag[1].n = Len(r.got) + 1 =>
    s.sent = Len(r.got) + 1 /\ s.txq # <<>> /\ w[i].frag[1] = Head(s.txq)

AcksOk(s, r, w) ==
  /\ \A i \in 1 .. Len(w) : w[i].t = "flags" => w[i].eseq \in {Acked(s) % 2, Len(r.got) % 2}
  /\ \A i, j \in 1 .. Len(w) :
       i < j /\ w[i].t = "flags" /\ w[j].t = "flags" /\ w[i].eseq # Acked(s) % 2
       => w[j].eseq # Acked(s) % 2

\* What the receiver holds of a message fits with what the sender still has.
MessageOk(s, r) ==
  r.app => /\ Len(r.got) = s.given => r.rxq = 0
           /\ Len(r.got) < s.given => \E j \in 1 .. Len(s.txq) :
                /\ Acked(s) + j > Len(r.got) /\ s.txq[j].last
                /\ r.rxq + (Acked(s) + j - Len(r.got)) <= MsgFrags

LinkOk(s, r, there, back) ==
  CountsOk(s, r) /\ FragsOk(s, r, there) /\ AcksOk(s, r, back) /\ MessageOk(s, r)

\* Two ends k and o, with the packets on their way to each.
PairOk(k, o, wk, wo) ==
  /\ EndOk(k) /\ EndOk(o) /\ wk \in Seq(Packet) /\ wo \in Seq(Packet)
  /\ k.flow => ArrivesOk(k, wk)
  /\ o.flow => ArrivesOk(o, wo)
  /\ k.flow /\ o.flow => LinkOk(k, o, wo, wk) /\ LinkOk(o, k, wk, wo)

\* The device d and the peer p before the connection is accepted.  Nothing has
\* been sent to the peer, and it has sent no fragment.
NothingYet(k) ==
  /\ k.got = <<>> /\ k.eseq = 0 /\ k.sent = 0 /\ k.new /\ k.reseq = 0 /\ ~k.rcts /\ k.rxq = 0
  /\ Acked(k) = 0
Asked(w) == w # <<>> /\ w[1].t = "init"
BeginOk(d, p, wd, wp) ==
  /\ \A i \in 1 .. Len(wp) : wp[i].t # "init"
  /\ \A i \in 1 .. Len(wd) : wd[i].t = "init" => i = 1
  /\ Asked(wd) => /\ d = Freed /\ wp = <<>> /\ NothingYet(p)
                  /\ \A i \in 1 .. Len(wd) : wd[i].t = "flags" => wd[i].eseq = 0 /\ wd[i].frag = <<>>

IInv ==
  /\ con \in [Ends -> Con] /\ wire \in [Ends -> Seq(Packet)] /\ faults \in Nat
  /\ PairOk(con["dev"], con["peer"], wire["dev"], wire["peer"])
  /\ BeginOk(con["dev"], con["peer"], wire["dev"], wire["peer"])
  /\ PushFindsRoom

-----------------------------------------------------------------------------
(* Ends and packets.                                                       *)

LEMMA TheOther ==
  /\ Other("dev") = "peer" /\ Other("peer") = "dev"
  /\ \A e \in Ends : Other(e) \in Ends /\ Other(e) # e /\ Other(Other(e)) = e
<1>1. \A e \in Ends : Other(e) \in Ends /\ Other(e) # e
  <2> SUFFICES ASSUME NEW e \in Ends PROVE Other(e) \in Ends /\ Other(e) # e
    OBVIOUS
  <2>1. \E o \in Ends : o # e
    BY DEF Ends
  <2> QED
    BY <2>1, Zenon DEF Other
<1> QED
  BY <1>1 DEF Ends

LEMMA FirstAndRest ==
  ASSUME NEW S, NEW w \in Seq(S), w # <<>>
  PROVE  /\ Head(w) = w[1] /\ Head(w) \in S /\ Tail(w) \in Seq(S) /\ Len(w) \in Nat \ {0}
         /\ Len(Tail(w)) = Len(w) - 1
         /\ \A i \in 1 .. Len(Tail(w)) : Tail(w)[i] = w[i + 1]
  OBVIOUS

LEMMA Added ==
  ASSUME NEW S, NEW w \in Seq(S), NEW x \in S
  PROVE  /\ w \o <<x>> \in Seq(S) /\ Len(w \o <<x>>) = Len(w) + 1
         /\ \A i \in 1 .. Len(w) : (w \o <<x>>)[i] = w[i]
         /\ (w \o <<x>>)[Len(w) + 1] = x
  OBVIOUS

LEMMA AsSequence ==
  ASSUME NEW S, NEW n \in Nat, NEW f \in [1 .. n -> S] PROVE f \in Seq(S) /\ Len(f) = n
  OBVIOUS

LEMMA Joined ==
  ASSUME NEW S, NEW v \in Seq(S), NEW w \in Seq(S)
  PROVE  /\ v \o w \in Seq(S) /\ Len(v \o w) = Len(v) + Len(w)
         /\ \A i \in 1 .. Len(v) : (v \o w)[i] = v[i]
         /\ \A i \in 1 .. Len(w) : (v \o w)[Len(v) + i] = w[i]
  OBVIOUS

LEMMA NothingAdded == ASSUME NEW S, NEW w \in Seq(S) PROVE w \o <<>> = w
  OBVIOUS

\* Arithmetic the provers do only when it is all there is.
LEMMA SameSum ==
  ASSUME NEW a \in Int, NEW b \in Int, NEW h \in Int, NEW i \in Int, NEW g \in Nat, NEW x \in Nat,
         NEW n \in Nat, a + h = b + i, b + i > g, x + (b + i - g) <= n
  PROVE  a + h > g /\ x + (a + h - g) <= n
  OBVIOUS

LEMMA LastOrNext ==
  ASSUME NEW a \in Nat, NEW g \in Nat, NEW sent \in Nat, NEW n, n = a + 1, n = sent,
         g <= sent, sent <= g + 1
  PROVE  n \in {g, g + 1} /\ n > 0
  OBVIOUS

LEMMA NoDifference == 0 - 0 = 0
  OBVIOUS

LEMMA OneLeft ==
  ASSUME NEW given \in Nat, NEW l \in Nat, NEW g \in Nat, NEW h, h = g + 1,
         g = given - l, h = given
  PROVE  l = 1
  OBVIOUS

LEMMA FirstOfNext ==
  ASSUME NEW a \in Nat, NEW n \in Nat, NEW l \in Nat, NEW i \in 2 .. l, i - 2 < n,
         NEW h, h = a + 1, NEW y, y = 0
  PROVE  i \in 1 .. l /\ a + i > h /\ y + (a + i - h) <= n
  OBVIOUS

LEMMA OneFurther ==
  ASSUME NEW a \in Nat, NEW n \in Nat, NEW x \in Nat, NEW l \in Nat, NEW i \in 1 .. l, i # 1,
         NEW h, h = a + 1, NEW y, y = x + 1, x + (a + i - a) <= n
  PROVE  a + i > h /\ y + (a + i - h) <= n
  OBVIOUS

LEMMA WithinLonger ==
  ASSUME NEW a \in Nat, NEW b \in Nat, NEW l \in Nat, NEW g \in Nat, 0 < b - a, g - l = b - a,
         NEW i \in 1 .. l
  PROVE  i \in 1 .. g
  OBVIOUS

LEMMA OneUnderWay ==
  ASSUME NEW a \in Int, NEW g \in Nat, NEW sent \in Nat, a <= g, g <= sent, g # a,
         sent = a \/ sent = a + 1
  PROVE  g = a + 1 /\ sent = a + 1
  OBVIOUS

LEMMA Bits == \A n \in Nat : n % 2 \in {0, 1} /\ (n + 1) % 2 = 1 - (n % 2) /\ (n + 2) % 2 = n % 2
  OBVIOUS

\* The types of the fields that are counted with.
LEMMA Fields ==
  ASSUME NEW k \in Con
  PROVE  /\ k.txq \in Seq(Frag) /\ Len(k.txq) \in Nat /\ k.given \in Nat /\ k.gen \in {0, 1}
         /\ k.out \in 0 .. MsgFrags /\ MsgFrags \in Nat \ {0} /\ k.rxq \in Nat /\ k.sent \in Nat
         /\ k.got \in Seq(Nat) /\ Len(k.got) \in Nat /\ k.eseq \in {0, 1} /\ k.reseq \in {0, 1}
         /\ Acked(k) \in Int
  BY SeqpktConstants DEF Con, Acked

-----------------------------------------------------------------------------
(* Connections: a new one and a freed one.                                 *)

LEMMA NewEnd ==
  /\ EndOk(mbus_seqpkt_con_init) /\ EndOk([mbus_seqpkt_con_init EXCEPT !.cts = TRUE])
<1> DEFINE k == mbus_seqpkt_con_init
<1>1. /\ k \in Con /\ ~k.slot /\ k.sig = {} /\ ~k.closed /\ ~k.done /\ k.up /\ k.flow /\ k.app
      /\ k.given = 0 /\ k.gen = 0 /\ k.txq = <<>> /\ k.rxq = 0 /\ ~k.cts
  BY SeqpktConstants DEF mbus_seqpkt_con_init, Con
<1> HIDE DEF k
<1>2. EndOk(k)
  BY <1>1, SeqpktConstants DEF EndOk, LifeOk, QueueOk, Acked
<1> DEFINE c == [k EXCEPT !.cts = TRUE]
<1>3. /\ c \in Con /\ ~c.slot /\ c.sig = {} /\ ~c.closed /\ ~c.done /\ c.up /\ c.flow /\ c.app
      /\ c.given = 0 /\ c.gen = 0 /\ c.txq = <<>> /\ c.rxq = 0
  BY <1>1 DEF Con
<1> HIDE DEF c
<1>4. EndOk(c)
  BY <1>3, SeqpktConstants DEF EndOk, LifeOk, QueueOk, Acked
<1> QED
  BY <1>2, <1>4 DEF k, c

\* What mbus_seqpkt_maybe_destroy leaves.
LEMMA FreedEnd ==
  /\ EndOk(Freed) /\ ~Freed.up /\ ~Freed.flow /\ ~Freed.app /\ Freed.sent = 0 /\ Freed.got = <<>>
  /\ Freed.sig = {}
<1> DEFINE k == mbus_seqpkt_con_init
<1>1. /\ k \in Con /\ ~k.slot /\ k.sig = {} /\ ~k.closed /\ ~k.ack /\ ~k.rtx
      /\ k.given = 0 /\ k.gen = 0 /\ k.txq = <<>> /\ k.rxq = 0 /\ ~k.cts /\ k.sent = 0
      /\ k.got = <<>>
  BY SeqpktConstants DEF mbus_seqpkt_con_init, Con
<1>2. Freed = [k EXCEPT !.up = FALSE, !.flow = FALSE, !.app = FALSE, !.ka = FALSE, !.done = TRUE]
  BY DEF Freed
<1> HIDE DEF k
<1>3. /\ Freed \in Con /\ Freed.sig = {} /\ ~Freed.closed /\ ~Freed.ack /\ ~Freed.rtx /\ ~Freed.ka
      /\ Freed.given = 0 /\ Freed.gen = 0 /\ Freed.txq = <<>> /\ Freed.rxq = 0
      /\ ~Freed.up /\ ~Freed.flow /\ ~Freed.app /\ Freed.done /\ Freed.sent = 0 /\ Freed.got = <<>>
  BY <1>1, <1>2 DEF Con
<1> QED
  BY <1>3, SeqpktConstants DEF EndOk, LifeOk, QueueOk, Acked

-----------------------------------------------------------------------------
(* What the two directions read of an end.                                 *)

SameSender(m, k) ==
  /\ m.given = k.given /\ m.gen = k.gen /\ m.txq = k.txq
  /\ m.new = k.new /\ m.sent = k.sent /\ m.reseq = k.reseq
SameReceiver(m, k) ==
  m.eseq = k.eseq /\ m.got = k.got /\ m.rxq = k.rxq /\ (m.app => k.app)
SameLife(m, k) ==
  /\ m.up = k.up /\ m.flow = k.flow /\ m.closed = k.closed /\ m.done = k.done /\ m.sig = k.sig

LEMMA QueueFrame ==
  ASSUME NEW k, NEW m, QueueOk(k), SameSender(m, k) PROVE QueueOk(m) /\ Acked(m) = Acked(k)
  BY DEF QueueOk, Acked, SameSender

LEMMA ArrivesFrame ==
  ASSUME NEW r, NEW m, NEW w, ArrivesOk(r, w), SameReceiver(m, r) PROVE ArrivesOk(m, w)
  BY DEF ArrivesOk, SameReceiver

LEMMA LinkFrame ==
  ASSUME NEW s, NEW r, NEW s2, NEW r2, NEW v, NEW w, LinkOk(s, r, v, w),
         SameSender(s2, s), SameReceiver(r2, r)
  PROVE  LinkOk(s2, r2, v, w)
<1>1. CountsOk(s2, r2)
  BY DEF LinkOk, CountsOk, Acked, SameSender, SameReceiver
<1>2. FragsOk(s2, r2, v)
  BY DEF LinkOk, FragsOk, SameSender, SameReceiver
<1>3. AcksOk(s2, r2, w)
  BY DEF LinkOk, AcksOk, Acked, SameSender, SameReceiver
<1>4. MessageOk(s2, r2)
  BY DEF LinkOk, MessageOk, Acked, SameSender, SameReceiver
<1> QED
  BY <1>1, <1>2, <1>3, <1>4 DEF LinkOk

-----------------------------------------------------------------------------
(* mbus_seqpkt_service_prep_send.                                          *)

\* A message pulled from the service goes behind what is queued, numbered on.
LEMMA PulledFacts ==
  ASSUME NEW j, EndOk(j)
  PROVE  LET p == Pulled(j) IN
         /\ p \in Con /\ QueueOk(p) /\ Acked(p) = Acked(j)
         /\ SameReceiver(p, j) /\ SameLife(p, j) /\ p.app = j.app /\ p.cts = j.cts
         /\ p.rcts = j.rcts /\ p.new = j.new /\ p.sent = j.sent /\ p.reseq = j.reseq
         /\ p.slot = j.slot /\ p.rtx = j.rtx /\ p.ack = j.ack /\ p.ka = j.ka
         /\ \/ p.given = j.given /\ p.txq = j.txq
            \/ /\ 0 < p.given - j.given /\ p.given - j.given <= MsgFrags
               /\ Len(p.txq) - Len(j.txq) = p.given - j.given
               /\ \A i \in 1 .. Len(j.txq) : p.txq[i] = j.txq[i]
               /\ p.txq # <<>> /\ p.txq[Len(p.txq)].last
<1> DEFINE p == Pulled(j)
<1>1. CASE j.closed \/ ~j.app \/ Len(j.txq) >= 2 \/ j.out = 0
  <2>1. p = j
    BY <1>1 DEF Pulled
  <2> HIDE DEF p
  <2> QED
    BY <2>1 DEF EndOk, SameReceiver, SameLife, p
<1>2. CASE ~(j.closed \/ ~j.app \/ Len(j.txq) >= 2 \/ j.out = 0)
  <2> DEFINE n == j.out
             add == [i \in 1 .. n |-> [seq |-> (j.gen + i - 1) % 2, n |-> j.given + i,
                                       last |-> i = n]]
             q == j.txq \o add
  <2>1. /\ j \in Con /\ n \in 1 .. MsgFrags /\ Len(j.txq) \in Nat /\ Len(j.txq) <= 1
        /\ j.given \in Nat /\ j.txq \in Seq(Frag) /\ MsgFrags \in Nat /\ Len(j.txq) <= j.given
    <3>1. j \in Con /\ Len(j.txq) <= j.given
      BY DEF EndOk, QueueOk
    <3> QED
      BY <1>2, <3>1, Fields
  <2>1a. j.gen \in {0, 1} /\ j.gen = j.given % 2
    BY <2>1, Fields DEF EndOk, QueueOk
  <2>2. p = [[j EXCEPT !.gen = (j.gen + n) % 2, !.given = j.given + n, !.txq = q]
              EXCEPT !.out = 0]
    BY <1>2 DEF Pulled, mbus_seqpkt_txq_enq
  <2>3. add \in Seq(Frag) /\ Len(add) = n
    <3>1. ASSUME NEW i \in 1 .. n
          PROVE  [seq |-> (j.gen + i - 1) % 2, n |-> j.given + i, last |-> i = n] \in Frag
      <4>1. (j.gen + i - 1) % 2 \in {0, 1} /\ j.given + i \in Nat /\ (i = n) \in BOOLEAN
        BY <2>1, <2>1a, SMTT(30)
      <4> QED
        BY <4>1, Zenon DEF Frag
    <3>2. add \in [1 .. n -> Frag]
      BY <3>1, Zenon
    <3>3. n \in Nat
      BY <2>1
    <3> HIDE DEF add, n
    <3> QED
      BY <3>2, <3>3, AsSequence
  <2>3a. \A i \in 1 .. n : /\ add[i].seq = (j.gen + i - 1) % 2 /\ add[i].n = j.given + i
                           /\ (i = n => add[i].last)
    OBVIOUS
  <2> HIDE DEF add
  <2>4. /\ q \in Seq(Frag) /\ Len(q) = Len(j.txq) + n
        /\ \A i \in 1 .. Len(j.txq) : q[i] = j.txq[i]
        /\ \A i \in 1 .. n : q[Len(j.txq) + i] = add[i]
    BY <2>1, <2>3, Joined
  <2> HIDE DEF q, n
  <2>5. (j.gen + n) % 2 \in {0, 1} /\ j.given + n \in Nat /\ (j.gen + n) % 2 = (j.given + n) % 2
    BY <2>1, <2>1a
  <2>6. /\ p \in Con /\ SameReceiver(p, j) /\ SameLife(p, j) /\ p.app = j.app /\ p.cts = j.cts
        /\ p.rcts = j.rcts /\ p.new = j.new /\ p.sent = j.sent /\ p.reseq = j.reseq
        /\ p.slot = j.slot /\ p.rtx = j.rtx /\ p.ack = j.ack /\ p.ka = j.ka
        /\ p.given = j.given + n /\ p.txq = q
    <3> HIDE DEF p
    <3> DEFINE g == (j.gen + n) % 2
    <3>1. g \in {0, 1} /\ p = [[j EXCEPT !.gen = g, !.given = j.given + n, !.txq = q] EXCEPT !.out = 0]
      BY <2>2, <2>5
    <3> HIDE DEF g
    <3>2. j.given + n \in Nat /\ q \in Seq(Frag) /\ 0 \in 0 .. MsgFrags
      BY <2>1, <2>4
    <3>3. p \in Con
      BY <2>1, <3>1, <3>2 DEF Con
    <3> QED
      BY <2>1, <3>1, <3>3 DEF Con, SameReceiver, SameLife
  <2>6a. p.gen = (j.given + n) % 2
    <3>1. p.gen = (j.gen + n) % 2
      <4> HIDE DEF p
      <4> QED
        BY <2>1, <2>2 DEF Con
    <3> QED
      BY <2>5, <3>1
  <2> HIDE DEF p
  <2>6b. /\ p.given = j.given + n /\ Len(p.txq) = Len(j.txq) + n
         /\ n \in Nat /\ 0 < n /\ n <= MsgFrags
    <3>1. n \in Nat /\ 0 < n /\ n <= MsgFrags
      BY <2>1
    <3> QED
      BY <2>4, <2>6, <3>1
  <2>7. Acked(p) = Acked(j)
    BY <2>1, <2>6b DEF Acked
  <2>8. Len(p.txq) <= 1 + MsgFrags /\ Len(p.txq) <= p.given /\ p.gen = p.given % 2
    <3>1. Len(p.txq) <= 1 + MsgFrags /\ Len(p.txq) <= p.given
      BY <2>1, <2>6b
    <3> QED
      BY <2>6, <2>6a, <3>1
  <2>9. p.txq # <<>> /\ p.txq[Len(p.txq)].last
    <3>1. n \in 1 .. n /\ Len(p.txq) = Len(j.txq) + n /\ Len(p.txq) > 0
      BY <2>1, <2>6b
    <3>2. p.txq[Len(p.txq)] = add[n] /\ add[n].last
      BY <2>3a, <2>4, <2>6, <3>1
    <3> QED
      BY <2>4, <2>6, <3>1, <3>2
  <2>10. ASSUME NEW i \in 1 .. Len(p.txq)
        PROVE  /\ p.txq[i].n = Acked(p) + i /\ p.txq[i].seq = (p.txq[i].n + 1) % 2
               /\ \E h \in i .. Len(p.txq) : p.txq[h].last /\ h - i < MsgFrags
    <3>1. CASE i <= Len(j.txq)
      <4>1. i \in 1 .. Len(j.txq) /\ p.txq[i] = j.txq[i]
        BY <2>1, <2>4, <2>6, <3>1
      <4>2. PICK h \in i .. Len(j.txq) : j.txq[h].last /\ h - i < MsgFrags
        BY <4>1 DEF EndOk, QueueOk
      <4>3. h \in 1 .. Len(j.txq) /\ p.txq[h] = j.txq[h] /\ h \in i .. Len(p.txq)
        BY <2>1, <2>4, <2>6, <4>1, <4>2
      <4> QED
        BY <2>7, <4>1, <4>2, <4>3 DEF EndOk, QueueOk
    <3>2. CASE i > Len(j.txq)
      <4> DEFINE d == i - Len(j.txq)
      <4>1. d \in 1 .. n /\ i = Len(j.txq) + d
        BY <2>1, <2>6b, <3>2
      <4>2. p.txq[i] = add[d]
        BY <2>4, <2>6, <4>1
      <4>3. p.txq[i].n = j.given + d /\ p.txq[i].seq = (j.gen + d - 1) % 2
        BY <2>3a, <4>1, <4>2
      <4>4. j.given + d = Acked(p) + i
        BY <2>1, <2>7, <4>1 DEF Acked
      <4>5. (j.gen + d - 1) % 2 = (j.given + d + 1) % 2
        BY <2>1, <2>1a, <4>1
      <4>6. p.txq[Len(p.txq)].last
        BY <2>9
      <4>7. Len(p.txq) \in i .. Len(p.txq) /\ Len(p.txq) - i < MsgFrags
        BY <2>1, <2>6b, <4>1
      <4> QED
        BY <4>3, <4>4, <4>5, <4>6, <4>7
    <3> QED
      BY <2>1, <3>1, <3>2
  <2>11. /\ 0 < p.given - j.given /\ p.given - j.given <= MsgFrags
         /\ Len(p.txq) - Len(j.txq) = p.given - j.given
         /\ \A i \in 1 .. Len(j.txq) : p.txq[i] = j.txq[i]
    <3>1. \A i \in 1 .. Len(j.txq) : p.txq[i] = j.txq[i]
      BY <2>4, <2>6
    <3> QED
      BY <2>1, <2>6b, <3>1
  <2> QED
    BY <2>6, <2>7, <2>8, <2>9, <2>10, <2>11 DEF QueueOk, p
<1> QED
  BY <1>1, <1>2

-----------------------------------------------------------------------------
(* mbus_seqpkt_output.                                                     *)

\* A packet an end m may send: a close, flags, or flags and the fragment at the
\* head of its queue, which is then under way.
Sendable(q, m) ==
  /\ q \in Packet
  /\ \/ q.t = "eos"
     \/ q.t = "flags" /\ q.eseq = m.eseq /\ q.frag = <<>>
     \/ /\ q.t = "flags" /\ q.eseq = m.eseq /\ q.frag = <<Head(m.txq)>>
        /\ m.txq # <<>> /\ ~m.new /\ m.rcts

LEMMA FlagsPacket ==
  ASSUME NEW m \in Con
  PROVE  /\ Sendable(Flags(m), m)
         /\ m.txq # <<>> /\ ~m.new /\ m.rcts
            => Sendable([Flags(m) EXCEPT !.frag = <<Head(m.txq)>>], m)
<1>1. m.eseq \in {0, 1} /\ m.cts \in BOOLEAN /\ m.txq \in Seq(Frag)
  BY DEF Con
<1>2. /\ Flags(m) \in Packet /\ Flags(m).t = "flags" /\ Flags(m).eseq = m.eseq
      /\ Flags(m).frag = <<>>
  BY <1>1 DEF Flags, Packet
<1>3. ASSUME m.txq # <<>>, ~m.new, m.rcts
      PROVE  Sendable([Flags(m) EXCEPT !.frag = <<Head(m.txq)>>], m)
  <2>1. <<Head(m.txq)>> \in Seq(Frag)
    BY <1>1, <1>3
  <2> DEFINE h == <<Head(m.txq)>>
  <2>2. [Flags(m) EXCEPT !.frag = h] = [t |-> "flags", eseq |-> m.eseq, cts |-> m.cts, frag |-> h]
    BY DEF Flags
  <2> HIDE DEF h
  <2> DEFINE q == [t |-> "flags", eseq |-> m.eseq, cts |-> m.cts, frag |-> h]
  <2>3. q \in Packet /\ q.t = "flags" /\ q.eseq = m.eseq /\ q.frag = h
    BY <1>1, <2>1 DEF Packet, h
  <2> HIDE DEF q
  <2> QED
    BY <1>3, <2>2, <2>3 DEF Sendable, h, q
<1> QED
  BY <1>2, <1>3 DEF Sendable

\* What the function makes of an end p that has pulled.
AfterOutput(m, p) ==
  /\ m \in Con /\ m.given = p.given /\ m.gen = p.gen /\ m.txq = p.txq
  /\ m.reseq = p.reseq /\ m.rcts = p.rcts
  /\ SameReceiver(m, p) /\ SameLife(m, p) /\ (m.cts => ~m.slot) /\ m.ka = p.ka
  /\ \/ m.new = p.new /\ m.sent = p.sent
     \/ p.new /\ ~m.new /\ m.sent = p.sent + 1 /\ p.txq # <<>> /\ p.rcts

LEMMA OutputFacts ==
  ASSUME NEW j, EndOk(j), j.flow, NEW buf, NEW why
  PROVE  LET p == Pulled(j)
             m == mbus_seqpkt_output(j, buf, why).k
             pkt == mbus_seqpkt_output(j, buf, why).pkt
         IN  AfterOutput(m, p) /\ (pkt = <<>> \/ \E q : pkt = <<q>> /\ Sendable(q, m))
<1> DEFINE p == Pulled(j)
           tx == MaySend(p)
           fresh == tx /\ p.new
           clear == mbus_seqpkt_service_update_cts(p)
           c == [p EXCEPT !.new = @ /\ ~fresh, !.cts = clear, !.sent = IF fresh THEN @ + 1 ELSE @]
           out == mbus_seqpkt_output(j, buf, why)
<1>1. p \in Con
  BY PulledFacts
<1>2. /\ tx \in BOOLEAN /\ (tx => p.txq # <<>> /\ p.rcts) /\ fresh = (tx /\ p.new)
      /\ clear \in BOOLEAN /\ (clear => ~p.slot) /\ fresh \in BOOLEAN
  BY DEF MaySend, mbus_seqpkt_service_update_cts
<1>3. out = IF ~fresh /\ why = "none" /\ ~c.closed /\ clear = p.cts THEN [k |-> c, pkt |-> <<>>]
            ELSE IF ~buf THEN [k |-> [c EXCEPT !.rtx = TRUE], pkt |-> <<>>]
            ELSE IF tx /\ (fresh \/ why = "rtx")
            THEN [k |-> [c EXCEPT !.rtx = TRUE, !.ack = FALSE],
                  pkt |-> <<[Flags(c) EXCEPT !.frag = <<Head(c.txq)>>]>>]
            ELSE IF c.closed THEN [k |-> Shut([c EXCEPT !.ack = FALSE]), pkt |-> <<[t |-> "eos"]>>]
            ELSE [k |-> [c EXCEPT !.ack = FALSE], pkt |-> <<Flags(c)>>]
  BY Zenon DEF mbus_seqpkt_output
<1> HIDE DEF p, tx, fresh, clear, out
<1>4. AfterOutput(c, p) /\ c.txq = p.txq /\ c.rcts = p.rcts /\ (fresh => ~c.new)
      /\ (tx /\ ~fresh => ~c.new) /\ c.cts = clear
  <2>1. c \in Con
    <3> DEFINE a == p.new /\ ~fresh
               b == IF fresh THEN p.sent + 1 ELSE p.sent
    <3>1. a \in BOOLEAN /\ b \in Nat
      BY <1>1, Fields
    <3>2. c = [p EXCEPT !.new = a, !.cts = clear, !.sent = b]
      OBVIOUS
    <3> HIDE DEF a, b, c
    <3>3. p \in Con /\ clear \in BOOLEAN
      BY <1>1, <1>2
    <3> QED
      BY <3>1, <3>2, <3>3, ZenonT(60) DEF Con
  <2>2. /\ c.given = p.given /\ c.gen = p.gen /\ c.txq = p.txq
        /\ c.reseq = p.reseq /\ c.rcts = p.rcts /\ c.ka = p.ka /\ c.slot = p.slot /\ c.cts = clear
    BY <1>1 DEF Con
  <2>3. SameReceiver(c, p) /\ SameLife(c, p)
    BY <1>1 DEF Con, SameReceiver, SameLife
  <2>4. CASE fresh
    <3>1. ~c.new /\ c.sent = p.sent + 1
      BY <1>1, <2>4 DEF Con
    <3> HIDE DEF c
    <3> QED
      BY <1>2, <2>1, <2>2, <2>3, <2>4, <3>1 DEF AfterOutput
  <2>5. CASE ~fresh
    <3>1. c.new = p.new /\ c.sent = p.sent
      BY <1>1, <2>5 DEF Con
    <3> HIDE DEF c
    <3> QED
      BY <1>2, <2>1, <2>2, <2>3, <2>5, <3>1 DEF AfterOutput
  <2> QED
    BY <2>4, <2>5
<1>5. c \in Con
  BY <1>4 DEF AfterOutput
<1> HIDE DEF c
\* A connection that only has its timers or its app_opaque changed afterwards.
<1>6. ASSUME NEW m, m \in Con, SameSender(m, c), SameReceiver(m, c), SameLife(m, c),
             m.rcts = c.rcts, m.cts = c.cts, m.slot = c.slot, m.ka = c.ka
      PROVE  /\ AfterOutput(m, p)
             /\ \A q : Sendable(q, c) => Sendable(q, m)
  BY <1>4, <1>6 DEF AfterOutput, Sendable, SameSender, SameReceiver, SameLife
<1>7. CASE ~fresh /\ why = "none" /\ ~c.closed /\ clear = p.cts
  <2>1. out.k = c /\ out.pkt = <<>>
    BY <1>3, <1>7
  <2> QED
    BY <1>4, <2>1 DEF p, out
<1>8. CASE ~(~fresh /\ why = "none" /\ ~c.closed /\ clear = p.cts) /\ ~buf
  <2> DEFINE m == [c EXCEPT !.rtx = TRUE]
  <2>1. out.k = m /\ out.pkt = <<>>
    BY <1>3, <1>8
  <2>2. /\ m \in Con /\ SameSender(m, c) /\ SameReceiver(m, c) /\ SameLife(m, c)
        /\ m.rcts = c.rcts /\ m.cts = c.cts /\ m.slot = c.slot /\ m.ka = c.ka
    BY <1>5 DEF Con, SameSender, SameReceiver, SameLife
  <2> HIDE DEF m
  <2> QED
    BY <1>6, <2>1, <2>2 DEF p, out
<1>9. CASE ~(~fresh /\ why = "none" /\ ~c.closed /\ clear = p.cts) /\ buf
           /\ tx /\ (fresh \/ why = "rtx")
  <2> DEFINE m == [c EXCEPT !.rtx = TRUE, !.ack = FALSE]
             q == [Flags(c) EXCEPT !.frag = <<Head(c.txq)>>]
  <2>1. out.k = m /\ out.pkt = <<q>>
    BY <1>3, <1>9
  <2>2. /\ m \in Con /\ SameSender(m, c) /\ SameReceiver(m, c) /\ SameLife(m, c)
        /\ m.rcts = c.rcts /\ m.cts = c.cts /\ m.slot = c.slot /\ m.ka = c.ka
    BY <1>5 DEF Con, SameSender, SameReceiver, SameLife
  <2>3. c.txq # <<>> /\ ~c.new /\ c.rcts
    BY <1>2, <1>4, <1>9
  <2>4. Sendable(q, c)
    BY <1>5, <2>3, FlagsPacket
  <2> HIDE DEF m, q
  <2> QED
    BY <1>6, <2>1, <2>2, <2>4 DEF p, out
<1>10. CASE /\ ~(~fresh /\ why = "none" /\ ~c.closed /\ clear = p.cts) /\ buf
            /\ ~(tx /\ (fresh \/ why = "rtx")) /\ c.closed
  <2> DEFINE m == [[c EXCEPT !.ack = FALSE] EXCEPT !.app = FALSE]
             q == [t |-> "eos"]
  <2>1. out.k = m /\ out.pkt = <<q>>
    BY <1>3, <1>10 DEF Shut
  <2>2. /\ m \in Con /\ SameSender(m, c) /\ SameReceiver(m, c) /\ SameLife(m, c)
        /\ m.rcts = c.rcts /\ m.cts = c.cts /\ m.slot = c.slot /\ m.ka = c.ka
    BY <1>5 DEF Con, SameSender, SameReceiver, SameLife
  <2>4. Sendable(q, c)
    BY DEF Sendable, Packet
  <2> HIDE DEF m, q
  <2> QED
    BY <1>6, <2>1, <2>2, <2>4 DEF p, out
<1>11. CASE /\ ~(~fresh /\ why = "none" /\ ~c.closed /\ clear = p.cts) /\ buf
            /\ ~(tx /\ (fresh \/ why = "rtx")) /\ ~c.closed
  <2> DEFINE m == [c EXCEPT !.ack = FALSE]
             q == Flags(c)
  <2>1. out.k = m /\ out.pkt = <<q>>
    BY <1>3, <1>11
  <2>2. /\ m \in Con /\ SameSender(m, c) /\ SameReceiver(m, c) /\ SameLife(m, c)
        /\ m.rcts = c.rcts /\ m.cts = c.cts /\ m.slot = c.slot /\ m.ka = c.ka
    BY <1>5 DEF Con, SameSender, SameReceiver, SameLife
  <2>4. Sendable(q, c)
    BY <1>5, FlagsPacket
  <2> HIDE DEF m, q
  <2> QED
    BY <1>6, <2>1, <2>2, <2>4 DEF p, out
<1> QED
  BY <1>7, <1>8, <1>9, <1>10, <1>11

\* The end stays what it is.
LEMMA OutputEnd ==
  ASSUME NEW j, EndOk(j), j.flow, NEW m, AfterOutput(m, Pulled(j))
  PROVE  EndOk(m)
<1> DEFINE p == Pulled(j)
<1>1. /\ p \in Con /\ QueueOk(p) /\ Acked(p) = Acked(j)
      /\ SameReceiver(p, j) /\ SameLife(p, j) /\ p.app = j.app
  BY PulledFacts
<1> HIDE DEF p
<1>2. AfterOutput(m, p)
  BY DEF p
<1>3. m \in Con /\ m.rxq < MsgFrags
  BY <1>1, <1>2 DEF AfterOutput, SameReceiver, EndOk
<1>4. LifeOk(m)
  BY <1>1, <1>2 DEF AfterOutput, SameReceiver, SameLife, EndOk, LifeOk
<1>5. QueueOk(m)
  <2>1. m.given = p.given /\ m.gen = p.gen /\ m.txq = p.txq /\ QueueOk(p)
    BY <1>1, <1>2 DEF AfterOutput
  <2> QED
    BY <2>1, Zenon DEF QueueOk, Acked
<1> QED
  BY <1>3, <1>4, <1>5 DEF EndOk

\* What the sender pulls is for later.
LEMMA PullLink ==
  ASSUME NEW j, NEW r, NEW v, NEW w, EndOk(j), r \in Con, LinkOk(j, r, v, w)
  PROVE  LinkOk(Pulled(j), r, v, w)
<1> DEFINE p == Pulled(j)
<1>1. /\ p \in Con /\ Acked(p) = Acked(j) /\ p.new = j.new /\ p.sent = j.sent /\ p.reseq = j.reseq
      /\ \/ p.given = j.given /\ p.txq = j.txq
         \/ /\ 0 < p.given - j.given /\ p.given - j.given <= MsgFrags
            /\ Len(p.txq) - Len(j.txq) = p.given - j.given
            /\ \A i \in 1 .. Len(j.txq) : p.txq[i] = j.txq[i]
            /\ p.txq # <<>> /\ p.txq[Len(p.txq)].last
  BY PulledFacts
<1> HIDE DEF p
<1>2. j \in Con
  BY DEF EndOk
<1>3. ASSUME j.txq # <<>> PROVE p.txq # <<>> /\ Head(p.txq) = Head(j.txq)
  <2>1. j.txq \in Seq(Frag) /\ p.txq \in Seq(Frag)
    BY <1>1, <1>2, Fields
  <2>2. CASE p.txq = j.txq
    BY <1>3, <2>2
  <2>3. CASE p.txq # <<>> /\ \A i \in 1 .. Len(j.txq) : p.txq[i] = j.txq[i]
    BY <1>3, <2>1, <2>3
  <2> QED
    BY <1>1, <2>2, <2>3
<1>4. CountsOk(p, r)
  BY <1>1, <1>3 DEF LinkOk, CountsOk
<1>5. FragsOk(p, r, v)
  BY <1>1, <1>3 DEF LinkOk, FragsOk
<1>6. AcksOk(p, r, w)
  BY <1>1 DEF LinkOk, AcksOk
<1>7. MessageOk(p, r)
  <2> SUFFICES ASSUME r.app
               PROVE  /\ Len(r.got) = p.given => r.rxq = 0
                      /\ Len(r.got) < p.given => \E i \in 1 .. Len(p.txq) :
                           /\ Acked(p) + i > Len(r.got) /\ p.txq[i].last
                           /\ r.rxq + (Acked(p) + i - Len(r.got)) <= MsgFrags
    BY DEF MessageOk
  <2>1. CASE p.given = j.given /\ p.txq = j.txq
    BY <1>1, <2>1 DEF LinkOk, MessageOk
  <2>2. CASE /\ 0 < p.given - j.given /\ p.given - j.given <= MsgFrags
             /\ Len(p.txq) - Len(j.txq) = p.given - j.given
             /\ \A i \in 1 .. Len(j.txq) : p.txq[i] = j.txq[i]
             /\ p.txq # <<>> /\ p.txq[Len(p.txq)].last
    <3>0. /\ 0 < p.given - j.given /\ p.given - j.given <= MsgFrags
          /\ Len(p.txq) - Len(j.txq) = p.given - j.given
      BY <2>2
    <3>1. /\ j.given \in Nat /\ p.given \in Nat /\ Len(j.txq) \in Nat /\ Len(p.txq) \in Nat
          /\ Len(r.got) \in Nat /\ r.rxq \in Nat /\ Acked(j) \in Int /\ Acked(p) \in Int /\ MsgFrags \in Nat
      BY <1>1, <1>2, Fields
    <3>2. Len(r.got) <= j.given
      <4>1. /\ Len(r.got) <= j.sent /\ j.sent <= Acked(j) + 1 /\ (j.new => j.sent = Acked(j))
            /\ (~j.new => j.txq # <<>>)
        BY <3>1 DEF LinkOk, CountsOk
      <4>2. Len(j.txq) <= j.given /\ Acked(j) = j.given - Len(j.txq) /\ j.txq \in Seq(Frag)
        BY <1>2, Fields DEF EndOk, QueueOk, Acked
      <4>3. CASE j.new
        BY <3>1, <4>1, <4>2, <4>3
      <4>4. CASE ~j.new
        <5>1. Len(j.txq) > 0
          BY <4>1, <4>2, <4>4
        <5>2. j.sent \in Nat
          BY <1>2, Fields
        <5> QED
          BY <3>1, <4>1, <4>2, <5>1, <5>2
      <4> QED
        BY <4>3, <4>4
    <3>3. CASE Len(r.got) = j.given
      <4>1. r.rxq = 0
        BY <3>3 DEF LinkOk, MessageOk
      <4>2. Acked(p) + Len(p.txq) = p.given
        BY <3>1 DEF Acked
      <4>3. /\ Acked(p) + Len(p.txq) > Len(r.got)
            /\ r.rxq + (Acked(p) + Len(p.txq) - Len(r.got)) <= MsgFrags
        BY <3>0, <3>1, <3>3, <4>1, <4>2
      <4>4. Len(p.txq) \in 1 .. Len(p.txq)
        <5>1. Len(p.txq) > 0
          BY <2>2, <3>1
        <5> QED
          BY <3>1, <5>1
      <4>5. Len(r.got) # p.given
        BY <2>2, <3>1, <3>3
      <4> QED
        BY <2>2, <4>3, <4>4, <4>5
    <3>4. CASE Len(r.got) # j.given
      <4>1. Len(r.got) < j.given /\ Len(r.got) # p.given
        BY <2>2, <3>1, <3>2, <3>4
      <4>2. PICK i \in 1 .. Len(j.txq) :
              /\ Acked(j) + i > Len(r.got) /\ j.txq[i].last
              /\ r.rxq + (Acked(j) + i - Len(r.got)) <= MsgFrags
        BY <4>1 DEF LinkOk, MessageOk
      <4>3. i \in 1 .. Len(p.txq)
        BY <3>0, <3>1, <4>2, WithinLonger
      <4>4. p.txq[i] = j.txq[i]
        BY <2>2
      <4> QED
        BY <1>1, <4>1, <4>2, <4>3, <4>4
    <3> QED
      BY <3>3, <3>4
  <2> QED
    BY <1>1, <2>1, <2>2
<1> QED
  BY <1>4, <1>5, <1>6, <1>7 DEF LinkOk, p

\* A new fragment is put under way when the one before has been accepted.
LEMMA FreshLink ==
  ASSUME NEW p, NEW m, NEW r, NEW v, NEW w, p \in Con, r \in Con, LinkOk(p, r, v, w),
         AfterOutput(m, p)
  PROVE  /\ LinkOk(m, r, v, w) /\ Acked(m) = Acked(p)
         /\ m.sent # p.sent => m.sent = p.sent + 1 /\ p.sent = Len(r.got)
<1>1. /\ m.given = p.given /\ m.txq = p.txq /\ m.reseq = p.reseq
      /\ Acked(m) = Acked(p) /\ Acked(p) \in Int /\ Len(r.got) \in Nat /\ p.sent \in Nat
  BY Fields DEF AfterOutput, Acked
<1>2. AcksOk(m, r, w) /\ MessageOk(m, r)
  BY <1>1 DEF LinkOk, AcksOk, MessageOk
<1>3. CASE m.new = p.new /\ m.sent = p.sent
  <2>1. CountsOk(m, r) /\ FragsOk(m, r, v)
    BY <1>1, <1>3 DEF LinkOk, CountsOk, FragsOk
  <2> QED
    BY <1>1, <1>2, <1>3, <2>1 DEF LinkOk
<1>4. CASE p.new /\ ~m.new /\ m.sent = p.sent + 1 /\ p.txq # <<>> /\ p.rcts
  <2>1. p.sent = Acked(p) /\ Acked(p) <= Len(r.got) /\ Len(r.got) <= p.sent
    BY <1>4 DEF LinkOk, CountsOk
  <2>2. Len(r.got) = p.sent
    BY <1>1, <2>1
  <2>3. m.reseq = Acked(m) % 2
    BY <1>1 DEF LinkOk, CountsOk
  <2>4. CountsOk(m, r)
    <3>1. m.sent = Acked(m) + 1 /\ Acked(m) <= Len(r.got) /\ Len(r.got) <= m.sent
          /\ m.sent <= Len(r.got) + 1
      BY <1>1, <1>4, <2>1, <2>2
    <3> QED
      BY <1>1, <1>4, <2>3, <3>1 DEF CountsOk
  <2>5. FragsOk(m, r, v)
    <3> SUFFICES ASSUME NEW i \in 1 .. Len(v), HasFrag(v[i]), v[i].frag[1].n = Len(r.got) + 1
                 PROVE  FALSE
      BY DEF FragsOk
    <3>1. p.sent = Len(r.got) + 1
      BY DEF LinkOk, FragsOk
    <3> QED
      BY <1>1, <2>2, <3>1
  <2> QED
    BY <1>1, <1>2, <1>4, <2>2, <2>4, <2>5 DEF LinkOk
<1> QED
  BY <1>3, <1>4 DEF AfterOutput

\* What is sent arrives after what was sent before.
LEMMA SendLink ==
  ASSUME NEW m, NEW r, NEW v \in Seq(Packet), NEW w, NEW q, EndOk(m), r \in Con,
         LinkOk(m, r, v, w), ArrivesOk(r, v), Sendable(q, m)
  PROVE  LinkOk(m, r, v \o <<q>>, w) /\ ArrivesOk(r, v \o <<q>>)
<1> DEFINE x == v \o <<q>>
           l == Len(v) + 1
           f == Head(m.txq)
<1>1. q \in Packet
  BY DEF Sendable
<1>2. /\ x \in Seq(Packet) /\ Len(x) = Len(v) + 1 /\ x[l] = q /\ Len(v) \in Nat
      /\ \A i \in 1 .. Len(v) : x[i] = v[i]
  BY <1>1, Added
<1> HIDE DEF x
<1>3. /\ m \in Con /\ Acked(m) \in Int /\ Len(r.got) \in Nat /\ r.rxq \in Nat /\ MsgFrags \in Nat
      /\ m.txq \in Seq(Frag) /\ Len(m.txq) \in Nat /\ m.given \in Nat
      /\ Acked(m) = m.given - Len(m.txq) /\ Len(m.txq) <= m.given /\ m.sent \in Nat
  <2>1. m \in Con /\ Len(m.txq) <= m.given
    BY DEF EndOk, QueueOk
  <2> QED
    BY <2>1, Fields DEF Acked
\* The fragment that is sent is the one after those acknowledged.
<1>4. ASSUME HasFrag(q)
      PROVE  /\ q.frag[1] = f /\ m.txq # <<>> /\ f.n = Acked(m) + 1 /\ f.n = m.sent
             /\ f.seq = (f.n + 1) % 2 /\ f = m.txq[1] /\ Len(m.txq) > 0
  <2>1. q.frag = <<f>> /\ m.txq # <<>> /\ ~m.new
    BY <1>4 DEF Sendable, HasFrag
  <2>2. f = m.txq[1] /\ 1 \in 1 .. Len(m.txq) /\ Len(m.txq) > 0
    <3>1. Len(m.txq) > 0 /\ f = m.txq[1]
      BY <1>3, <2>1
    <3> QED
      BY <1>3, <3>1
  <2>3. f.n = Acked(m) + 1 /\ f.seq = (f.n + 1) % 2
    BY <2>2 DEF EndOk, QueueOk
  <2>4. m.sent = Acked(m) + 1
    BY <2>1 DEF LinkOk, CountsOk
  <2> QED
    BY <2>1, <2>2, <2>3, <2>4
<1>4a. ASSUME HasFrag(q) PROVE f.n = Acked(m) + 1 /\ f.n = m.sent /\ Len(m.txq) > 0
  BY <1>4, <1>4a
<1>5. /\ Acked(m) <= Len(r.got) /\ Len(r.got) <= m.sent /\ m.sent <= Len(r.got) + 1
  BY DEF LinkOk, CountsOk
<1>6. FragsOk(m, r, x)
  <2> SUFFICES ASSUME NEW i \in 1 .. Len(x), HasFrag(x[i]), x[i].frag[1].n = Len(r.got) + 1
               PROVE  m.sent = Len(r.got) + 1 /\ m.txq # <<>> /\ x[i].frag[1] = Head(m.txq)
    BY DEF FragsOk
  <2>1. CASE i = l
    BY <1>2, <1>4, <2>1
  <2>2. CASE i # l
    <3>1. i \in 1 .. Len(v)
      BY <1>2, <2>2
    <3> QED
      BY <1>2, <3>1 DEF LinkOk, FragsOk
  <2> QED
    BY <2>1, <2>2
<1>7. ASSUME HasFrag(q), r.app, f.n = Len(r.got) + 1
      PROVE  f.last \/ r.rxq + 1 < MsgFrags
  <2>1. Len(r.got) < m.given /\ Acked(m) = Len(r.got)
    BY <1>3, <1>4a, <1>7, SMTT(30)
  <2>2. PICK i \in 1 .. Len(m.txq) :
          m.txq[i].last /\ r.rxq + (Acked(m) + i - Len(r.got)) <= MsgFrags
    BY <1>7, <2>1 DEF LinkOk, MessageOk
  <2>3. CASE i = 1
    BY <1>4, <1>7, <2>2, <2>3
  <2>4. CASE i # 1
    BY <1>3, <2>1, <2>2, <2>4
  <2> QED
    BY <2>3, <2>4
<1>8. ASSUME NEW i \in 1 .. Len(x), HasFrag(x[i])
      PROVE  LET g == x[i].frag[1] IN
             /\ g.n \in {Len(r.got), Len(r.got) + 1} /\ g.n > 0 /\ g.seq = (g.n + 1) % 2
             /\ r.app /\ g.n = Len(r.got) + 1 => g.last \/ r.rxq + 1 < MsgFrags
  <2>1. CASE i = l
    <3>1. HasFrag(q) /\ x[i].frag[1] = f
      BY <1>2, <1>4, <1>8, <2>1
    <3>2. f.n \in {Len(r.got), Len(r.got) + 1} /\ f.n > 0
      <4>1. f.n = Acked(m) + 1 /\ f.n = m.sent
        BY <1>4a, <3>1
      <4>2. Acked(m) \in Nat
        BY <1>3
      <4> HIDE DEF f
      <4> QED
        BY <1>3, <1>5, <4>1, <4>2, LastOrNext
    <3> QED
      BY <1>4, <1>7, <3>1, <3>2
  <2>2. CASE i # l
    <3>1. i \in 1 .. Len(v) /\ x[i] = v[i]
      BY <1>2, <2>2
    <3> QED
      BY <1>8, <3>1 DEF ArrivesOk
  <2> QED
    BY <2>1, <2>2
<1>9. ASSUME NEW i \in 1 .. Len(x), NEW j \in 1 .. Len(x), i < j, HasFrag(x[i]), HasFrag(x[j])
      PROVE  x[i].frag[1].n <= x[j].frag[1].n
  <2>0. i \in 1 .. Len(v) /\ x[i] = v[i] /\ HasFrag(v[i])
    BY <1>2, <1>9
  <2>1. CASE j = l
    <3>1. HasFrag(q) /\ x[j].frag[1] = f /\ f.n = m.sent
      BY <1>2, <1>4, <1>9, <2>1
    <3>2. v[i].frag[1].n \in {Len(r.got), Len(r.got) + 1}
      BY <2>0 DEF ArrivesOk
    <3>3. CASE v[i].frag[1].n = Len(r.got)
      BY <1>3, <1>5, <2>0, <3>1, <3>3
    <3>4. CASE v[i].frag[1].n = Len(r.got) + 1
      <4>1. m.sent = Len(r.got) + 1
        BY <2>0, <3>4 DEF LinkOk, FragsOk
      <4> QED
        BY <1>3, <2>0, <3>1, <3>4, <4>1
    <3> QED
      BY <3>2, <3>3, <3>4
  <2>2. CASE j # l
    <3>1. j \in 1 .. Len(v) /\ x[j] = v[j]
      BY <1>2, <2>2
    <3> QED
      BY <1>9, <2>0, <3>1 DEF ArrivesOk
  <2> QED
    BY <2>1, <2>2
<1>10. ArrivesOk(r, x)
  <2>1. r.eseq = Len(r.got) % 2
    BY DEF ArrivesOk
  <2> QED
    BY <1>8, <1>9, <2>1 DEF ArrivesOk
<1> QED
  BY <1>6, <1>10 DEF LinkOk, x

\* The receiver's acknowledgement is the last of those under way.
LEMMA AckLink ==
  ASSUME NEW s, NEW m, NEW v, NEW w \in Seq(Packet), NEW q, EndOk(s), m \in Con,
         LinkOk(s, m, v, w), m.eseq = Len(m.got) % 2, Sendable(q, m)
  PROVE  LinkOk(s, m, v, w \o <<q>>)
<1> DEFINE x == w \o <<q>>
           l == Len(w) + 1
<1>1. q \in Packet /\ (q.t = "flags" => q.eseq = m.eseq)
  BY DEF Sendable
<1>2. /\ x \in Seq(Packet) /\ Len(x) = Len(w) + 1 /\ x[l] = q /\ Len(w) \in Nat
      /\ \A i \in 1 .. Len(w) : x[i] = w[i]
  BY <1>1, Added
<1> DEFINE a == Acked(s) % 2
           b == Len(m.got) % 2
<1>3. /\ \A i \in 1 .. Len(w) : w[i].t = "flags" => w[i].eseq \in {a, b}
      /\ \A i, j \in 1 .. Len(w) :
           i < j /\ w[i].t = "flags" /\ w[j].t = "flags" /\ w[i].eseq # a => w[j].eseq # a
  BY DEF LinkOk, AcksOk
<1>4. m.eseq = b
  OBVIOUS
<1> HIDE DEF x, a, b
<1>5. ASSUME NEW i \in 1 .. Len(x), x[i].t = "flags" PROVE x[i].eseq \in {a, b}
  <2>1. CASE i = l
    BY <1>1, <1>2, <1>4, <1>5, <2>1
  <2>2. CASE i # l
    <3>1. i \in 1 .. Len(w)
      BY <1>2, <2>2
    <3> QED
      BY <1>2, <1>3, <1>5, <3>1
  <2> QED
    BY <2>1, <2>2
<1>6. ASSUME NEW i \in 1 .. Len(x), NEW j \in 1 .. Len(x), i < j, x[i].t = "flags",
             x[j].t = "flags", x[i].eseq # a
      PROVE  x[j].eseq # a
  <2>1. i \in 1 .. Len(w) /\ x[i] = w[i]
    BY <1>2, <1>6
  <2>2. CASE j = l
    BY <1>1, <1>2, <1>3, <1>4, <1>6, <2>1, <2>2
  <2>3. CASE j # l
    <3>1. j \in 1 .. Len(w) /\ x[j] = w[j]
      BY <1>2, <2>3
    <3> QED
      BY <1>3, <1>6, <2>1, <3>1
  <2> QED
    BY <2>2, <2>3
<1>7. AcksOk(s, m, x)
  BY <1>5, <1>6 DEF AcksOk, a, b
<1> QED
  BY <1>7 DEF LinkOk, x

-----------------------------------------------------------------------------
(* A packet leaves a wire: it is received, dropped or lost.                *)

LEMMA TailArrives ==
  ASSUME NEW r, NEW v \in Seq(Packet), v # <<>>, ArrivesOk(r, v) PROVE ArrivesOk(r, Tail(v))
<1> DEFINE x == Tail(v)
<1>1. /\ Len(v) \in Nat /\ Len(x) = Len(v) - 1 /\ \A i \in 1 .. Len(x) : x[i] = v[i + 1]
  BY FirstAndRest
<1> HIDE DEF x
<1>2. ASSUME NEW i \in 1 .. Len(x) PROVE i + 1 \in 1 .. Len(v) /\ x[i] = v[i + 1]
  BY <1>1
<1>3. ASSUME NEW i \in 1 .. Len(x), HasFrag(x[i])
      PROVE  LET f == x[i].frag[1] IN
             /\ f.n \in {Len(r.got), Len(r.got) + 1} /\ f.n > 0 /\ f.seq = (f.n + 1) % 2
             /\ r.app /\ f.n = Len(r.got) + 1 => f.last \/ r.rxq + 1 < MsgFrags
  BY <1>2, <1>3 DEF ArrivesOk
<1>4. ASSUME NEW i \in 1 .. Len(x), NEW j \in 1 .. Len(x), i < j, HasFrag(x[i]), HasFrag(x[j])
      PROVE  x[i].frag[1].n <= x[j].frag[1].n
  <2>1. i + 1 < j + 1
    BY <1>4
  <2> QED
    BY <1>2, <1>4, <2>1 DEF ArrivesOk
<1>5. r.eseq = Len(r.got) % 2
  BY DEF ArrivesOk
<1> QED
  BY <1>3, <1>4, <1>5 DEF ArrivesOk, x

LEMMA TailLink ==
  ASSUME NEW s, NEW r, NEW v \in Seq(Packet), NEW w \in Seq(Packet), LinkOk(s, r, v, w)
  PROVE  /\ v # <<>> => LinkOk(s, r, Tail(v), w)
         /\ w # <<>> => LinkOk(s, r, v, Tail(w))
<1>1. ASSUME v # <<>> PROVE LinkOk(s, r, Tail(v), w)
  <2> DEFINE x == Tail(v)
  <2>1. /\ Len(v) \in Nat /\ Len(x) = Len(v) - 1 /\ \A i \in 1 .. Len(x) : x[i] = v[i + 1]
    BY <1>1, FirstAndRest
  <2> HIDE DEF x
  <2>2. ASSUME NEW i \in 1 .. Len(x) PROVE i + 1 \in 1 .. Len(v) /\ x[i] = v[i + 1]
    BY <2>1
  <2>3. FragsOk(s, r, x)
    BY <2>2 DEF LinkOk, FragsOk
  <2> QED
    BY <2>3 DEF LinkOk, x
<1>2. ASSUME w # <<>> PROVE LinkOk(s, r, v, Tail(w))
  <2> DEFINE x == Tail(w)
             a == Acked(s) % 2
             b == Len(r.got) % 2
  <2>1. /\ Len(w) \in Nat /\ Len(x) = Len(w) - 1 /\ \A i \in 1 .. Len(x) : x[i] = w[i + 1]
    BY <1>2, FirstAndRest
  <2>2. /\ \A i \in 1 .. Len(w) : w[i].t = "flags" => w[i].eseq \in {a, b}
        /\ \A i, j \in 1 .. Len(w) :
             i < j /\ w[i].t = "flags" /\ w[j].t = "flags" /\ w[i].eseq # a => w[j].eseq # a
    BY DEF LinkOk, AcksOk
  <2> HIDE DEF x, a, b
  <2>3. ASSUME NEW i \in 1 .. Len(x) PROVE i + 1 \in 1 .. Len(w) /\ x[i] = w[i + 1]
    BY <2>1
  <2>4. \A i \in 1 .. Len(x) : x[i].t = "flags" => x[i].eseq \in {a, b}
    BY <2>2, <2>3
  <2>5. ASSUME NEW i \in 1 .. Len(x), NEW j \in 1 .. Len(x), i < j, x[i].t = "flags",
               x[j].t = "flags", x[i].eseq # a
        PROVE  x[j].eseq # a
    <3>1. i + 1 < j + 1
      BY <2>5
    <3> QED
      BY <2>2, <2>3, <2>5, <3>1
  <2>6. AcksOk(s, r, x)
    BY <2>4, <2>5 DEF AcksOk, a, b
  <2> QED
    BY <2>6 DEF LinkOk, x
<1> QED
  BY <1>1, <1>2

-----------------------------------------------------------------------------
(* mbus_seqpkt_recv_data: the flags, then the fragment.                    *)

Noted(k, p) == [k EXCEPT !.reseq = p.eseq, !.rcts = p.cts]

LEMMA ReleaseFacts ==
  ASSUME NEW k, EndOk(k), NEW p, p \in Packet, p.t = "flags"
  PROVE  LET m == release_txq(Noted(k, p)) IN
         /\ EndOk(m) /\ SameReceiver(m, k) /\ SameLife(m, k) /\ m.app = k.app /\ m.cts = k.cts
         /\ m.slot = k.slot /\ m.given = k.given /\ m.sent = k.sent /\ m.reseq = p.eseq
         /\ m.rcts = p.cts
         /\ \/ m.txq = k.txq /\ m.new = k.new /\ (k.txq = <<>> \/ Head(k.txq).seq = p.eseq)
            \/ m.txq = Tail(k.txq) /\ m.new /\ k.txq # <<>> /\ Head(k.txq).seq # p.eseq
<1> DEFINE c == Noted(k, p)
           m == release_txq(c)
<1>1. k \in Con /\ p.eseq \in {0, 1} /\ p.cts \in BOOLEAN
  BY DEF EndOk, Packet
<1>2. /\ c \in Con /\ SameReceiver(c, k) /\ SameLife(c, k) /\ c.app = k.app /\ c.cts = k.cts
      /\ c.slot = k.slot /\ c.given = k.given /\ c.sent = k.sent /\ c.reseq = p.eseq
      /\ c.rcts = p.cts /\ c.txq = k.txq /\ c.new = k.new /\ c.gen = k.gen /\ c.rxq = k.rxq
      /\ c.ack = k.ack /\ c.rtx = k.rtx /\ c.ka = k.ka
  BY <1>1 DEF Noted, Con, SameReceiver, SameLife
<1>3. m = IF c.txq = <<>> \/ Head(c.txq).seq = c.reseq THEN c
          ELSE [c EXCEPT !.txq = Tail(c.txq), !.rtx = FALSE, !.new = TRUE]
  BY DEF release_txq
<1> HIDE DEF c, m
<1>4. CASE c.txq = <<>> \/ Head(c.txq).seq = c.reseq
  <2>1. m = c
    BY <1>3, <1>4
  <2>2. QueueOk(c)
    BY <1>2 DEF EndOk, QueueOk, Acked
  <2>3. LifeOk(c)
    BY <1>2 DEF EndOk, LifeOk, SameLife
  <2>4. EndOk(c)
    BY <1>2, <2>2, <2>3 DEF EndOk
  <2> QED
    BY <1>2, <1>4, <2>1, <2>4 DEF c, m
<1>5. CASE ~(c.txq = <<>> \/ Head(c.txq).seq = c.reseq)
  <2> DEFINE t == Tail(c.txq)
  <2>1. m = [c EXCEPT !.txq = t, !.rtx = FALSE, !.new = TRUE]
    BY <1>3, <1>5
  <2>2. /\ t \in Seq(Frag) /\ Len(t) = Len(k.txq) - 1 /\ Len(k.txq) \in Nat
        /\ \A i \in 1 .. Len(t) : t[i] = k.txq[i + 1]
    <3>1. k.txq \in Seq(Frag) /\ k.txq # <<>>
      BY <1>1, <1>2, <1>5, Fields
    <3> QED
      BY <1>2, <3>1, FirstAndRest
  <2>3. t = Tail(k.txq)
    BY <1>2
  <2> HIDE DEF t
  <2>4. /\ m \in Con /\ SameReceiver(m, k) /\ SameLife(m, k) /\ m.app = k.app /\ m.cts = k.cts
        /\ m.slot = k.slot /\ m.given = k.given /\ m.sent = k.sent /\ m.reseq = p.eseq
        /\ m.rcts = p.cts /\ m.txq = t /\ m.new /\ m.gen = k.gen /\ m.rxq = k.rxq
        /\ m.ack = k.ack /\ ~m.rtx /\ m.ka = k.ka
    <3>1. m \in Con
      BY <1>2, <2>1, <2>2 DEF Con
    <3>2. /\ SameReceiver(m, c) /\ SameLife(m, c) /\ m.app = c.app /\ m.cts = c.cts
          /\ m.slot = c.slot /\ m.given = c.given /\ m.sent = c.sent /\ m.reseq = c.reseq
          /\ m.rcts = c.rcts /\ m.txq = t /\ m.new /\ m.gen = c.gen /\ m.rxq = c.rxq
          /\ m.ack = c.ack /\ ~m.rtx /\ m.ka = c.ka
      BY <1>2, <2>1 DEF Con, SameReceiver, SameLife
    <3> QED
      BY <1>2, <3>1, <3>2 DEF SameReceiver, SameLife
  <2>5. LifeOk(m)
    BY <2>4 DEF EndOk, LifeOk, SameLife
  <2>6. QueueOk(m)
    <3>1. k.given \in Nat /\ MsgFrags \in Nat /\ Acked(m) = Acked(k) + 1 /\ Acked(k) \in Int
      <4>1. k.given \in Nat /\ MsgFrags \in Nat /\ Acked(k) \in Int
        BY <1>1, Fields
      <4>2. /\ m.given = k.given /\ Len(m.txq) = Len(k.txq) - 1 /\ Len(k.txq) \in Nat
        BY <2>2, <2>4
      <4> QED
        BY <4>1, <4>2 DEF Acked
    <3>2. Len(m.txq) <= 1 + MsgFrags /\ Len(m.txq) <= m.given
      BY <2>2, <2>4, <3>1 DEF EndOk, QueueOk
    <3>3. m.gen = m.given % 2
      BY <2>4 DEF EndOk, QueueOk
    <3>4. ASSUME NEW i \in 1 .. Len(m.txq)
          PROVE  m.txq[i].n = Acked(m) + i /\ m.txq[i].seq = (m.txq[i].n + 1) % 2
      <4>1. i + 1 \in 1 .. Len(k.txq) /\ m.txq[i] = k.txq[i + 1]
        BY <2>2, <2>4
      <4>2. Acked(m) + i = Acked(k) + (i + 1)
        BY <3>1
      <4> QED
        BY <4>1, <4>2 DEF EndOk, QueueOk
    <3>5. ASSUME NEW i \in 1 .. Len(m.txq)
          PROVE  \E j \in i .. Len(m.txq) : m.txq[j].last /\ j - i < MsgFrags
      <4>1. i + 1 \in 1 .. Len(k.txq)
        BY <2>2, <2>4
      <4>2. PICK j \in i + 1 .. Len(k.txq) : k.txq[j].last /\ j - (i + 1) < MsgFrags
        BY <4>1 DEF EndOk, QueueOk
      <4> DEFINE h == j - 1
      <4>3. h \in i .. Len(m.txq) /\ h \in 1 .. Len(t) /\ h + 1 = j /\ h - i < MsgFrags
        BY <2>2, <2>4, <3>1, <4>1, <4>2
      <4>4. m.txq[h] = k.txq[j]
        BY <2>2, <2>4, <4>3
      <4> HIDE DEF h
      <4> QED
        BY <4>2, <4>3, <4>4
    <3> QED
      BY <3>2, <3>3, <3>4, <3>5 DEF QueueOk
  <2>7. EndOk(m)
    BY <2>4, <2>5, <2>6 DEF EndOk
  <2> QED
    BY <1>2, <1>5, <2>3, <2>4, <2>7 DEF c, m
<1> QED
  BY <1>4, <1>5

\* An acknowledgement of the fragment under way releases it, any other nothing.
LEMMA ReleaseLink ==
  ASSUME NEW k, NEW r, NEW v, NEW w \in Seq(Packet), w # <<>>, EndOk(k), r \in Con,
         Head(w).t = "flags", LinkOk(k, r, v, w)
  PROVE  LinkOk(release_txq(Noted(k, Head(w))), r, v, Tail(w))
<1> DEFINE p == Head(w)
           m == release_txq(Noted(k, p))
           x == Tail(w)
           a == Acked(k) % 2
           b == Len(r.got) % 2
<1>1. /\ p = w[1] /\ p \in Packet /\ x \in Seq(Packet) /\ Len(w) \in Nat /\ Len(w) > 0
      /\ Len(x) = Len(w) - 1 /\ \A i \in 1 .. Len(x) : x[i] = w[i + 1]
  BY FirstAndRest
<1>2. /\ EndOk(m) /\ m.given = k.given /\ m.sent = k.sent /\ m.reseq = p.eseq
      /\ \/ m.txq = k.txq /\ m.new = k.new /\ (k.txq = <<>> \/ Head(k.txq).seq = p.eseq)
         \/ m.txq = Tail(k.txq) /\ m.new /\ k.txq # <<>> /\ Head(k.txq).seq # p.eseq
  BY <1>1, ReleaseFacts
<1>3. /\ k \in Con /\ m \in Con /\ Acked(k) \in Nat /\ Len(r.got) \in Nat /\ k.sent \in Nat
      /\ k.txq \in Seq(Frag) /\ Len(k.txq) \in Nat /\ k.given \in Nat /\ r.rxq \in Nat
      /\ MsgFrags \in Nat /\ Acked(k) = k.given - Len(k.txq)
  <2>1. k \in Con /\ m \in Con /\ Len(k.txq) <= k.given
    BY <1>2 DEF EndOk, QueueOk
  <2> QED
    BY <2>1, Fields DEF Acked
<1>4a. k.reseq = a
  BY DEF LinkOk, CountsOk
<1>4. /\ k.sent = (IF k.new THEN Acked(k) ELSE Acked(k) + 1) /\ (~k.new => k.txq # <<>>)
      /\ Acked(k) <= Len(r.got) /\ Len(r.got) <= k.sent /\ k.sent <= Len(r.got) + 1
  BY DEF LinkOk, CountsOk
<1>5. /\ \A i \in 1 .. Len(w) : w[i].t = "flags" => w[i].eseq \in {a, b}
      /\ \A i, j \in 1 .. Len(w) :
           i < j /\ w[i].t = "flags" /\ w[j].t = "flags" /\ w[i].eseq # a => w[j].eseq # a
  BY DEF LinkOk, AcksOk
<1>6. ASSUME k.txq # <<>> PROVE Head(k.txq).seq = a
  <2>1. Head(k.txq) = k.txq[1] /\ 1 \in 1 .. Len(k.txq)
    <3>1. Len(k.txq) > 0 /\ Head(k.txq) = k.txq[1]
      BY <1>3, <1>6
    <3> QED
      BY <1>3, <3>1
  <2>2. Head(k.txq).seq = (Acked(k) + 1 + 1) % 2
    BY <2>1 DEF EndOk, QueueOk
  <2>3. Acked(k) + 1 + 1 = Acked(k) + 2
    BY <1>3
  <2> QED
    BY <1>3, <2>2, <2>3, Bits
<1>7. p.eseq \in {a, b}
  <2>1. 1 \in 1 .. Len(w)
    BY <1>1
  <2> QED
    BY <1>1, <1>5, <2>1
<1>8. ASSUME NEW i \in 1 .. Len(x)
      PROVE  i + 1 \in 1 .. Len(w) /\ 1 \in 1 .. Len(w) /\ 1 < i + 1 /\ x[i] = w[i + 1]
  BY <1>1
<1>9. CASE p.eseq = a
  <2>1. m.txq = k.txq /\ m.new = k.new
    BY <1>2, <1>6, <1>9
  <2> HIDE DEF m, a
  <2>2. SameSender(m, k)
    <3>1. m.gen = m.given % 2 /\ k.gen = k.given % 2
      BY <1>2 DEF EndOk, QueueOk
    <3> QED
      BY <1>2, <1>4a, <1>9, <2>1, <3>1 DEF SameSender
  <2>3. SameReceiver(r, r)
    BY DEF SameReceiver
  <2>4. v = v
    OBVIOUS
  <2>5. AcksOk(k, r, x)
    <3>1. \A i \in 1 .. Len(x) : x[i].t = "flags" => x[i].eseq \in {a, b}
      BY <1>5, <1>8
    <3>2. ASSUME NEW i \in 1 .. Len(x), NEW j \in 1 .. Len(x), i < j, x[i].t = "flags",
                 x[j].t = "flags", x[i].eseq # a
          PROVE  x[j].eseq # a
      <4>1. i + 1 < j + 1
        BY <3>2
      <4> QED
        BY <1>5, <1>8, <3>2, <4>1
    <3> HIDE DEF x
    <3> QED
      BY <3>1, <3>2 DEF AcksOk, a
  <2>6. LinkOk(k, r, v, x)
    BY <2>5 DEF LinkOk
  <2> QED
    BY <2>2, <2>3, <2>6, LinkFrame DEF m
<1>10. CASE p.eseq # a
  <2>1. p.eseq = b /\ Len(r.got) # Acked(k)
    BY <1>7, <1>10
  <2>2. Len(r.got) = Acked(k) + 1 /\ ~k.new /\ k.sent = Acked(k) + 1 /\ k.txq # <<>>
    BY <1>3, <1>4, <2>1, OneUnderWay, SMTT(30)
  <2>3. m.txq = Tail(k.txq) /\ m.new
    BY <1>2, <1>6, <1>10, <2>2
  <2> HIDE DEF m
  <2>4. /\ Len(m.txq) = Len(k.txq) - 1 /\ \A i \in 1 .. Len(m.txq) : m.txq[i] = k.txq[i + 1]
    BY <1>3, <2>2, <2>3, FirstAndRest
  <2>5. Acked(m) = Len(r.got)
    BY <1>2, <1>3, <2>2, <2>4 DEF Acked
  <2>6. CountsOk(m, r)
    <3>1. m.reseq = Acked(m) % 2
      BY <1>2, <2>1, <2>5
    <3>2. m.sent = Acked(m) /\ Acked(m) <= Len(r.got) /\ Len(r.got) <= m.sent
          /\ m.sent <= Len(r.got) + 1
      BY <1>2, <1>3, <2>2, <2>5
    <3> QED
      BY <2>3, <3>1, <3>2 DEF CountsOk
  <2>7. FragsOk(m, r, v)
    <3> SUFFICES ASSUME NEW i \in 1 .. Len(v), HasFrag(v[i]), v[i].frag[1].n = Len(r.got) + 1
                 PROVE  FALSE
      BY DEF FragsOk
    <3>1. k.sent = Len(r.got) + 1
      BY DEF LinkOk, FragsOk
    <3> QED
      BY <1>3, <2>2, <3>1
  <2>8. AcksOk(m, r, x)
    <3>0. Acked(m) % 2 = b
      BY <2>5
    <3>1. ASSUME NEW i \in 1 .. Len(x), x[i].t = "flags" PROVE x[i].eseq = b
      <4>1. x[i].eseq \in {a, b}
        BY <1>5, <1>8, <3>1
      <4>2. x[i].eseq # a
        BY <1>1, <1>5, <1>8, <1>10, <3>1
      <4> QED
        BY <4>1, <4>2
    <3> HIDE DEF x, b, a
    <3> QED
      BY <3>0, <3>1 DEF AcksOk
  <2>9. MessageOk(m, r)
    <3> SUFFICES ASSUME r.app
                 PROVE  /\ Len(r.got) = m.given => r.rxq = 0
                        /\ Len(r.got) < m.given => \E i \in 1 .. Len(m.txq) :
                             /\ Acked(m) + i > Len(r.got) /\ m.txq[i].last
                             /\ r.rxq + (Acked(m) + i - Len(r.got)) <= MsgFrags
      BY DEF MessageOk
    <3>1. Len(r.got) = m.given => r.rxq = 0
      BY <1>2 DEF LinkOk, MessageOk
    <3>2. ASSUME Len(r.got) < m.given
          PROVE  \E i \in 1 .. Len(m.txq) :
                   /\ Acked(m) + i > Len(r.got) /\ m.txq[i].last
                   /\ r.rxq + (Acked(m) + i - Len(r.got)) <= MsgFrags
      <4>1. PICK i \in 1 .. Len(k.txq) :
              /\ Acked(k) + i > Len(r.got) /\ k.txq[i].last
              /\ r.rxq + (Acked(k) + i - Len(r.got)) <= MsgFrags
        BY <1>2, <3>2 DEF LinkOk, MessageOk
      <4> DEFINE h == i - 1
      <4>2. h \in 1 .. Len(m.txq) /\ h + 1 = i /\ Acked(m) + h = Acked(k) + i
        BY <1>3, <2>2, <2>4, <2>5, <4>1
      <4>3. m.txq[h] = k.txq[i]
        BY <2>4, <4>2
      <4>4. Acked(m) + h > Len(r.got) /\ r.rxq + (Acked(m) + h - Len(r.got)) <= MsgFrags
        <5>1. Acked(m) \in Int /\ Acked(k) \in Int /\ h \in Int /\ i \in Int
          BY <1>3, <2>5
        <5> HIDE DEF h, x, a, b
        <5> QED
          BY <1>3, <4>1, <4>2, <5>1, SameSum
      <4> HIDE DEF h
      <4> QED
        BY <4>1, <4>2, <4>3, <4>4
    <3> QED
      BY <3>1, <3>2
  <2> QED
    BY <2>6, <2>7, <2>8, <2>9 DEF LinkOk, m
<1> QED
  BY <1>9, <1>10

\* The fragment expected is the one after those accepted, and no other.
LEMMA ExpectedFrag ==
  ASSUME NEW k, NEW v, NEW i \in 1 .. Len(v), k \in Con, ArrivesOk(k, v), v[i].t = "flags",
         Acceptable(k, v[i])
  PROVE  HasFrag(v[i]) /\ v[i].frag[1].n = Len(k.got) + 1
<1> DEFINE f == v[i].frag[1]
           g == Len(k.got)
<1>1. HasFrag(v[i]) /\ f.seq = k.eseq
  BY DEF Acceptable, HasFrag
<1>2. f.n \in {g, g + 1} /\ f.seq = (f.n + 1) % 2 /\ k.eseq = g % 2
  BY <1>1 DEF ArrivesOk
<1>3. g \in Nat
  BY Fields
<1> HIDE DEF f, g
<1>4. f.n # g
  <2> DEFINE b == g % 2
  <2>1. b \in {0, 1} /\ (g + 1) % 2 = 1 - b
    BY <1>3, Bits
  <2>2. f.n = g => f.seq = 1 - b
    BY <1>2, <2>1
  <2>3. f.seq = b
    BY <1>1, <1>2
  <2> HIDE DEF b
  <2> QED
    BY <2>1, <2>2, <2>3
<1> QED
  BY <1>1, <1>2, <1>4 DEF f, g

\* What the end becomes.
LEMMA AcceptedFacts ==
  ASSUME NEW k, NEW v \in Seq(Packet), v # <<>>, EndOk(k), k.flow, Head(v).t = "flags",
         ArrivesOk(k, v)
  PROVE  LET p == Head(v)
             m == Accepted(k, p)
         IN  /\ EndOk(m) /\ SameSender(m, k) /\ SameLife(m, k) /\ m.app = k.app /\ m.rcts = k.rcts
             /\ \/ m = k
                \/ /\ HasFrag(p) /\ p.frag[1].n = Len(k.got) + 1
                   /\ m.got = Append(k.got, Len(k.got) + 1) /\ m.eseq = 1 - k.eseq
                   /\ k.app => m.rxq = IF p.frag[1].last THEN 0 ELSE k.rxq + 1
                   /\ ~k.app => m.rxq = k.rxq
<1> DEFINE p == Head(v)
           m == Accepted(k, p)
           f == p.frag[1]
<1>1. p = v[1] /\ p \in Packet /\ 1 \in 1 .. Len(v)
  <2>1. Len(v) \in Nat /\ Len(v) > 0 /\ p = v[1] /\ p \in Packet
    BY FirstAndRest
  <2> QED
    BY <2>1
<1>2. k \in Con /\ LifeOk(k) /\ QueueOk(k) /\ k.rxq < MsgFrags
  BY DEF EndOk
<1>3. CASE ~Acceptable(k, p)
  <2>1. m = k
    BY <1>3 DEF Accepted
  <2> HIDE DEF m
  <2> QED
    BY <2>1 DEF SameSender, SameLife, m
<1>4. CASE Acceptable(k, p)
  <2>1. HasFrag(p) /\ f.n = Len(k.got) + 1
    BY <1>1, <1>2, <1>4, ExpectedFrag
  <2>2. k.app => f.last \/ k.rxq + 1 < MsgFrags
    BY <1>1, <2>1 DEF ArrivesOk
  <2> DEFINE e == 1 - k.eseq
             g == Append(k.got, f.n)
             a == [k EXCEPT !.eseq = e, !.ack = TRUE, !.got = g]
  <2>3. m = IF k.app THEN mbus_seqpkt_service_recv(a, f) ELSE a
    BY <1>4 DEF Accepted
  <2>4. e \in {0, 1} /\ g \in Seq(Nat) /\ g = Append(k.got, Len(k.got) + 1)
    <3>1. k.eseq \in {0, 1} /\ k.got \in Seq(Nat) /\ Len(k.got) \in Nat
      BY <1>2, Fields
    <3>2. e \in {0, 1}
      BY <3>1
    <3>3. f.n \in Nat
      BY <2>1, <3>1
    <3> QED
      BY <2>1, <3>1, <3>2, <3>3
  <2> HIDE DEF e, g, m
  <2>5. /\ a \in Con /\ SameSender(a, k) /\ SameLife(a, k) /\ a.app = k.app /\ a.rcts = k.rcts
        /\ a.got = g /\ a.eseq = e /\ a.rxq = k.rxq /\ a.rtx = k.rtx /\ a.ka = k.ka
    <3>1. a \in Con
      BY <1>2, <2>4 DEF Con
    <3> QED
      BY <1>2, <3>1 DEF Con, SameSender, SameLife
  <2> HIDE DEF a
  <2>6. /\ m \in Con /\ SameSender(m, a) /\ SameLife(m, a) /\ m.app = a.app /\ m.rcts = a.rcts
        /\ m.got = g /\ m.eseq = e
        /\ k.app => m.rxq = IF f.last THEN 0 ELSE k.rxq + 1
        /\ ~k.app => m.rxq = k.rxq
    <3>1. CASE ~k.app
      <4>1. m = a
        BY <2>3, <3>1
      <4> QED
        BY <2>5, <3>1, <4>1 DEF SameSender, SameLife
    <3>2. CASE k.app /\ f.last
      <4>1. m = [a EXCEPT !.rxq = 0, !.slot = TRUE]
        BY <2>3, <3>2 DEF mbus_seqpkt_service_recv
      <4>2. m \in Con /\ m.rxq = 0
        BY <2>5, <4>1 DEF Con
      <4>3. SameSender(m, a) /\ SameLife(m, a)
        BY <2>5, <4>1 DEF SameSender, SameLife, Con
      <4>4. m.app = a.app /\ m.rcts = a.rcts /\ m.got = a.got /\ m.eseq = a.eseq
        BY <2>5, <4>1 DEF Con
      <4> QED
        BY <2>5, <3>2, <4>2, <4>3, <4>4
    <3>3. CASE k.app /\ ~f.last
      <4>1. m = [a EXCEPT !.rxq = a.rxq + 1]
        BY <2>3, <3>3 DEF mbus_seqpkt_service_recv
      <4>2. a.rxq + 1 \in Nat
        BY <2>5, Fields
      <4>3. m \in Con /\ m.rxq = k.rxq + 1
        BY <2>5, <4>1, <4>2 DEF Con
      <4>4. SameSender(m, a) /\ SameLife(m, a)
        BY <2>5, <4>1 DEF SameSender, SameLife, Con
      <4>5. m.app = a.app /\ m.rcts = a.rcts /\ m.got = a.got /\ m.eseq = a.eseq
        BY <2>5, <4>1 DEF Con
      <4> QED
        BY <2>5, <3>3, <4>3, <4>4, <4>5
    <3> QED
      BY <3>1, <3>2, <3>3
  <2>7. SameSender(m, k) /\ SameLife(m, k) /\ m.app = k.app /\ m.rcts = k.rcts
    BY <2>5, <2>6 DEF SameSender, SameLife
  <2>8. m.rxq < MsgFrags
    <3>1. MsgFrags \in Nat \ {0} /\ k.rxq \in Nat
      BY <1>2, Fields
    <3> QED
      BY <1>2, <2>2, <2>6, <3>1
  <2>9. LifeOk(m)
    BY <1>2, <2>7 DEF LifeOk, SameLife
  <2>10. QueueOk(m)
    BY <1>2, <2>7, QueueFrame
  <2>11. EndOk(m)
    BY <2>6, <2>8, <2>9, <2>10 DEF EndOk
  <2> QED
    BY <2>1, <2>4, <2>6, <2>7, <2>11 DEF m, e
<1> QED
  BY <1>3, <1>4

\* What is behind the fragment accepted is that fragment again.
LEMMA AcceptArrives ==
  ASSUME NEW k, NEW v \in Seq(Packet), v # <<>>, EndOk(k), k.flow, Head(v).t = "flags",
         ArrivesOk(k, v)
  PROVE  ArrivesOk(Accepted(k, Head(v)), Tail(v))
<1> DEFINE p == Head(v)
           m == Accepted(k, p)
           x == Tail(v)
<1>1. CASE m = k
  BY <1>1, TailArrives
<1>2. CASE /\ HasFrag(p) /\ p.frag[1].n = Len(k.got) + 1
           /\ m.got = Append(k.got, Len(k.got) + 1) /\ m.eseq = 1 - k.eseq
  <2>1. k \in Con /\ k.got \in Seq(Nat) /\ Len(k.got) \in Nat
    BY Fields DEF EndOk
  <2> HIDE DEF m
  <2>2. Len(m.got) = Len(k.got) + 1
    BY <1>2, <2>1
  <2>3. m.eseq = Len(m.got) % 2
    BY <1>2, <2>1, <2>2, Bits DEF ArrivesOk
  <2>4. /\ p = v[1] /\ Len(v) \in Nat /\ Len(v) > 0 /\ Len(x) = Len(v) - 1
        /\ \A i \in 1 .. Len(x) : x[i] = v[i + 1]
    BY FirstAndRest
  <2> HIDE DEF p, x
  <2>5. ASSUME NEW i \in 1 .. Len(x)
        PROVE  i + 1 \in 1 .. Len(v) /\ x[i] = v[i + 1] /\ 1 \in 1 .. Len(v) /\ 1 < i + 1
    BY <2>4
  <2>6. ASSUME NEW i \in 1 .. Len(x), HasFrag(x[i])
        PROVE  /\ x[i].frag[1].n = Len(m.got) /\ x[i].frag[1].n > 0
               /\ x[i].frag[1].seq = (x[i].frag[1].n + 1) % 2
    <3>1. v[1].frag[1].n <= v[i + 1].frag[1].n
      BY <1>2, <2>4, <2>5, <2>6 DEF ArrivesOk
    <3>2. v[i + 1].frag[1].n \in {Len(k.got), Len(k.got) + 1}
      BY <2>5, <2>6 DEF ArrivesOk
    <3>3. v[i + 1].frag[1].n = Len(k.got) + 1
      BY <1>2, <2>1, <2>4, <3>1, <3>2
    <3>4. v[i + 1].frag[1].seq = (v[i + 1].frag[1].n + 1) % 2
      BY <2>5, <2>6 DEF ArrivesOk
    <3>5. v[i + 1].frag[1].n = Len(m.got) /\ v[i + 1].frag[1].n > 0
      BY <2>1, <2>2, <3>3
    <3> QED
      BY <2>5, <3>4, <3>5
  <2>7. ASSUME NEW i \in 1 .. Len(x), HasFrag(x[i])
        PROVE  LET f == x[i].frag[1] IN
               /\ f.n \in {Len(m.got), Len(m.got) + 1} /\ f.n > 0 /\ f.seq = (f.n + 1) % 2
               /\ f.n # Len(m.got) + 1
    BY <2>1, <2>2, <2>6, <2>7, SMTT(30)
  <2>8. ASSUME NEW i \in 1 .. Len(x), NEW j \in 1 .. Len(x), HasFrag(x[i]), HasFrag(x[j])
        PROVE  x[i].frag[1].n <= x[j].frag[1].n
    BY <2>1, <2>2, <2>6, <2>8
  <2> QED
    BY <2>3, <2>7, <2>8 DEF ArrivesOk, m, p, x
<1> QED
  BY <1>1, <1>2, AcceptedFacts

\* The fragment accepted is the one under way.
LEMMA AcceptLink ==
  ASSUME NEW s, NEW k, NEW v \in Seq(Packet), NEW w \in Seq(Packet), v # <<>>, EndOk(s), EndOk(k),
         k.flow, Head(v).t = "flags", ArrivesOk(k, v), LinkOk(s, k, v, w)
  PROVE  LET m == Accepted(k, Head(v)) IN
         /\ LinkOk(s, m, Tail(v), w)
         /\ m.got # k.got => m.got = Append(k.got, Len(k.got) + 1) /\ Len(k.got) < s.sent
<1> DEFINE p == Head(v)
           m == Accepted(k, p)
           x == Tail(v)
           f == p.frag[1]
<1>1. CASE m = k
  BY <1>1, TailLink
<1>2. CASE /\ HasFrag(p) /\ f.n = Len(k.got) + 1
           /\ m.got = Append(k.got, Len(k.got) + 1) /\ m.eseq = 1 - k.eseq
           /\ k.app => m.rxq = IF f.last THEN 0 ELSE k.rxq + 1
           /\ m.app = k.app
  <2>1. /\ s \in Con /\ k \in Con /\ k.got \in Seq(Nat) /\ Len(k.got) \in Nat /\ Acked(s) \in Int
        /\ s.sent \in Nat /\ s.txq \in Seq(Frag) /\ Len(s.txq) \in Nat /\ s.given \in Nat
        /\ k.rxq \in Nat /\ MsgFrags \in Nat /\ Acked(s) = s.given - Len(s.txq)
    <3>1. s \in Con /\ k \in Con
      BY DEF EndOk
    <3> QED
      BY <3>1, Fields DEF Acked
  <2> HIDE DEF m
  <2>1a. /\ Len(k.got) \in Nat /\ Len(s.txq) \in Nat /\ s.given \in Nat /\ k.rxq \in Nat
         /\ MsgFrags \in Nat /\ Acked(s) = s.given - Len(s.txq)
    BY <2>1
  <2>2. Len(m.got) = Len(k.got) + 1
    BY <1>2, <2>1
  <2>3. /\ p = v[1] /\ Len(v) \in Nat /\ Len(v) > 0 /\ Len(x) = Len(v) - 1
        /\ \A i \in 1 .. Len(x) : x[i] = v[i + 1]
    BY FirstAndRest
  <2> HIDE DEF p, x
  <2>4. /\ s.sent = Len(k.got) + 1 /\ s.txq # <<>> /\ f = Head(s.txq)
    <3>1. 1 \in 1 .. Len(v)
      BY <2>3
    <3> QED
      BY <1>2, <2>3, <3>1 DEF LinkOk, FragsOk
  <2>5. f = s.txq[1] /\ Len(s.txq) > 0 /\ 1 \in 1 .. Len(s.txq)
    <3>1. f = s.txq[1] /\ Len(s.txq) > 0
      BY <2>1, <2>4
    <3> QED
      BY <2>1, <3>1
  <2> HIDE DEF f
  <2>6. Acked(s) = Len(k.got)
    <3>1. f.n = Acked(s) + 1
      BY <2>5 DEF EndOk, QueueOk
    <3> QED
      BY <1>2, <2>1, <3>1, SMTT(30)
  <2>7. CountsOk(s, m)
    <3>1. Acked(s) <= Len(m.got) /\ Len(m.got) <= s.sent /\ s.sent <= Len(m.got) + 1
      BY <2>1, <2>2, <2>4, <2>6
    <3> QED
      BY <3>1 DEF LinkOk, CountsOk
  <2>8. FragsOk(s, m, x)
    <3> SUFFICES ASSUME NEW i \in 1 .. Len(x), HasFrag(x[i]), x[i].frag[1].n = Len(m.got) + 1
                 PROVE  FALSE
      BY DEF FragsOk
    <3>1. i + 1 \in 1 .. Len(v) /\ x[i] = v[i + 1]
      BY <2>3
    <3>2. x[i].frag[1].n \in {Len(k.got), Len(k.got) + 1}
      BY <3>1 DEF ArrivesOk
    <3> QED
      BY <2>1, <2>2, <3>2
  <2>9. AcksOk(s, m, w)
    <3>1. \A i \in 1 .. Len(w) : w[i].t = "flags" => w[i].eseq = Acked(s) % 2
      BY <2>6 DEF LinkOk, AcksOk
    <3> QED
      BY <3>1 DEF AcksOk
  <2>10. MessageOk(s, m)
    <3> SUFFICES ASSUME k.app
                 PROVE  /\ Len(m.got) = s.given => m.rxq = 0
                        /\ Len(m.got) < s.given => \E i \in 1 .. Len(s.txq) :
                             /\ Acked(s) + i > Len(m.got) /\ s.txq[i].last
                             /\ m.rxq + (Acked(s) + i - Len(m.got)) <= MsgFrags
      BY <1>2 DEF MessageOk
    <3>1. ASSUME Len(m.got) = s.given PROVE m.rxq = 0
      <4>1. Len(s.txq) = 1
        BY <2>1a, <2>2, <2>6, <3>1, OneLeft
      <4>2. PICK i \in 1 .. Len(s.txq) : s.txq[i].last
        BY <2>5 DEF EndOk, QueueOk
      <4>3. i = 1
        BY <4>1
      <4> QED
        BY <1>2, <2>5, <4>2, <4>3
    <3>2. ASSUME Len(m.got) < s.given
          PROVE  \E i \in 1 .. Len(s.txq) :
                   /\ Acked(s) + i > Len(m.got) /\ s.txq[i].last
                   /\ m.rxq + (Acked(s) + i - Len(m.got)) <= MsgFrags
      <4>1. 2 \in 1 .. Len(s.txq)
        BY <2>1a, <2>2, <2>6, <3>2
      <4>2. CASE f.last
        <5>1. m.rxq = 0
          BY <1>2, <4>2
        <5>2. PICK i \in 2 .. Len(s.txq) : s.txq[i].last /\ i - 2 < MsgFrags
          BY <4>1 DEF EndOk, QueueOk
        <5>3. /\ i \in 1 .. Len(s.txq) /\ Acked(s) + i > Len(m.got)
              /\ m.rxq + (Acked(s) + i - Len(m.got)) <= MsgFrags
          BY <2>1a, <2>2, <2>6, <5>1, <5>2, FirstOfNext
        <5> QED
          BY <5>2, <5>3
      <4>3. CASE ~f.last
        <5>1. m.rxq = k.rxq + 1
          BY <1>2, <4>3
        <5>2. Len(k.got) < s.given
          BY <2>1, <2>2, <3>2
        <5>3. PICK i \in 1 .. Len(s.txq) :
                /\ Acked(s) + i > Len(k.got) /\ s.txq[i].last
                /\ k.rxq + (Acked(s) + i - Len(k.got)) <= MsgFrags
          BY <5>2 DEF LinkOk, MessageOk
        <5>4. i # 1
          BY <2>5, <4>3, <5>3
        <5>5. /\ Acked(s) + i > Len(m.got)
              /\ m.rxq + (Acked(s) + i - Len(m.got)) <= MsgFrags
          BY <2>1a, <2>2, <2>6, <5>1, <5>3, <5>4, OneFurther
        <5> QED
          BY <5>3, <5>5
      <4> QED
        BY <4>2, <4>3
    <3> QED
      BY <3>1, <3>2
  <2>11. Len(k.got) < s.sent
    BY <2>1, <2>4
  <2> QED
    BY <1>2, <2>7, <2>8, <2>9, <2>10, <2>11 DEF LinkOk, m, p, x
<1> QED
  BY <1>1, <1>2, AcceptedFacts

-----------------------------------------------------------------------------
(* Both ends together: one of them takes a step.                           *)

LEMMA PairSwap ==
  ASSUME NEW k, NEW o, NEW wk, NEW wo, PairOk(k, o, wk, wo) PROVE PairOk(o, k, wo, wk)
  BY DEF PairOk

\* Timers, events and the service's side change nothing between the ends.
LEMMA PairSet ==
  ASSUME NEW k, NEW o, NEW wk, NEW wo, NEW m, PairOk(k, o, wk, wo), EndOk(m),
         SameSender(m, k), SameReceiver(m, k), m.flow => k.flow
  PROVE  PairOk(m, o, wk, wo)
<1>1. SameSender(o, o) /\ SameReceiver(o, o)
  BY DEF SameSender, SameReceiver
<1>2. m.flow => ArrivesOk(m, wk)
  BY ArrivesFrame DEF PairOk
<1>3. m.flow /\ o.flow => LinkOk(m, o, wo, wk) /\ LinkOk(o, m, wk, wo)
  BY <1>1, LinkFrame DEF PairOk
<1> QED
  BY <1>2, <1>3 DEF PairOk

\* Nothing is between an end that has been freed and the other.
LEMMA PairFreed ==
  ASSUME NEW k, NEW o, NEW wk, NEW wo, PairOk(k, o, wk, wo) PROVE PairOk(Freed, o, wk, wo)
  BY FreedEnd DEF PairOk

\* mbus_seqpkt_maybe_destroy frees an end that is not queued.
LEMMA DestroyIsFreed ==
  ASSUME NEW m, EndOk(m)
  PROVE  mbus_seqpkt_maybe_destroy(m) = IF m.closed /\ ~m.app THEN Freed ELSE m
<1>1. CASE m.closed /\ ~m.app
  <2>1. m.sig = {}
    BY <1>1 DEF EndOk, LifeOk
  <2>2. Freed \in Con /\ Freed.sig = {}
    BY FreedEnd DEF EndOk
  <2>3. [Freed EXCEPT !.sig = {}] = Freed
    BY <2>2 DEF Con
  <2> QED
    BY <1>1, <2>1, <2>3 DEF mbus_seqpkt_maybe_destroy
<1> QED
  BY <1>1 DEF mbus_seqpkt_maybe_destroy

LEMMA PairLose ==
  ASSUME NEW k, NEW o, NEW wk, NEW wo, PairOk(k, o, wk, wo), wk # <<>>
  PROVE  PairOk(k, o, Tail(wk), wo)
<1>1. wk \in Seq(Packet) /\ wo \in Seq(Packet)
  BY DEF PairOk
<1>2. Tail(wk) \in Seq(Packet)
  BY <1>1, FirstAndRest
<1>3. k.flow => ArrivesOk(k, Tail(wk))
  BY <1>1, TailArrives DEF PairOk
<1>4. k.flow /\ o.flow => LinkOk(k, o, wo, Tail(wk)) /\ LinkOk(o, k, Tail(wk), wo)
  BY <1>1, TailLink DEF PairOk
<1> QED
  BY <1>2, <1>3, <1>4 DEF PairOk

LEMMA PairSend ==
  ASSUME NEW k, NEW o, NEW wk, NEW wo, NEW q, PairOk(k, o, wk, wo), k.flow, Sendable(q, k)
  PROVE  PairOk(k, o, wk, wo \o <<q>>)
<1>1. wk \in Seq(Packet) /\ wo \in Seq(Packet) /\ q \in Packet /\ k \in Con /\ o \in Con
  BY DEF PairOk, Sendable, EndOk
<1>2. wo \o <<q>> \in Seq(Packet)
  BY <1>1, Added
<1>3. CASE ~o.flow
  BY <1>2, <1>3 DEF PairOk
<1>4. CASE o.flow
  <2>1. LinkOk(k, o, wo, wk) /\ LinkOk(o, k, wk, wo) /\ ArrivesOk(o, wo) /\ ArrivesOk(k, wk)
        /\ EndOk(k) /\ EndOk(o)
    BY <1>4 DEF PairOk
  <2>2. LinkOk(k, o, wo \o <<q>>, wk) /\ ArrivesOk(o, wo \o <<q>>)
    BY <1>1, <2>1, SendLink
  <2>3. k.eseq = Len(k.got) % 2
    BY <2>1 DEF ArrivesOk
  <2>4. LinkOk(o, k, wk, wo \o <<q>>)
    BY <1>1, <2>1, <2>3, AckLink
  <2> QED
    BY <1>1, <1>2, <2>1, <2>2, <2>4 DEF PairOk
<1> QED
  BY <1>3, <1>4

\* mbus_seqpkt_output, before the packet is on the wire.
LEMMA PairOutput ==
  ASSUME NEW j, NEW o, NEW wj, NEW wo, NEW m, PairOk(j, o, wj, wo), j.flow,
         AfterOutput(m, Pulled(j))
  PROVE  /\ PairOk(m, o, wj, wo) /\ m.got = j.got
         /\ o.flow /\ m.sent # j.sent => m.sent = j.sent + 1 /\ j.sent = Len(o.got)
<1> DEFINE p == Pulled(j)
<1>1. EndOk(j) /\ EndOk(o) /\ o \in Con /\ ArrivesOk(j, wj)
  BY DEF PairOk, EndOk
<1>2. EndOk(m)
  BY <1>1, OutputEnd
<1>3. /\ p \in Con /\ SameReceiver(p, j) /\ p.sent = j.sent /\ SameLife(p, j)
  BY <1>1, PulledFacts
<1>4. SameReceiver(m, j) /\ m.flow
  <2> HIDE DEF p
  <2>1. AfterOutput(m, p)
    BY DEF p
  <2> QED
    BY <1>3, <2>1 DEF AfterOutput, SameReceiver, SameLife
<1>5. ArrivesOk(m, wj)
  BY <1>1, <1>4, ArrivesFrame
<1>6. ASSUME o.flow
      PROVE  /\ LinkOk(m, o, wo, wj) /\ LinkOk(o, m, wj, wo)
             /\ m.sent # j.sent => m.sent = j.sent + 1 /\ j.sent = Len(o.got)
  <2>1. LinkOk(j, o, wo, wj) /\ LinkOk(o, j, wj, wo)
    BY <1>6 DEF PairOk
  <2>2. LinkOk(p, o, wo, wj)
    BY <1>1, <2>1, PullLink
  <2> HIDE DEF p
  <2>3. AfterOutput(m, p)
    BY DEF p
  <2>4. LinkOk(m, o, wo, wj) /\ (m.sent # p.sent => m.sent = p.sent + 1 /\ p.sent = Len(o.got))
    BY <1>1, <1>3, <2>2, <2>3, FreshLink
  <2>5. SameSender(o, o)
    BY DEF SameSender
  <2>6. LinkOk(o, m, wj, wo)
    BY <1>4, <2>1, <2>5, LinkFrame
  <2> QED
    BY <1>3, <2>4, <2>6
<1> QED
  BY <1>2, <1>4, <1>5, <1>6 DEF PairOk, SameReceiver

\* What a handler that ends in mbus_seqpkt_output and mbus_seqpkt_maybe_destroy
\* does to both ends.
LEMMA PairOutputs ==
  ASSUME NEW j, NEW o, NEW wj, NEW wo, NEW buf, NEW why, PairOk(j, o, wj, wo)
  PROVE  LET r == mbus_seqpkt_output(j, buf, why)
             n == mbus_seqpkt_maybe_destroy(r.k)
         IN  /\ PairOk(n, o, wj, wo \o r.pkt)
             /\ n # Freed => n = r.k /\ n.got = j.got /\ n.flow = j.flow
             /\ n.sent \in {0, j.sent, j.sent + 1}
             /\ ~j.flow => n \in {Freed, j} /\ r.pkt = <<>>
             /\ j.flow => /\ (n # Freed /\ n.cts => ~n.slot) /\ AfterOutput(r.k, Pulled(j))
                          /\ r.pkt = <<>> \/ \E q : r.pkt = <<q>> /\ Sendable(q, r.k)
             /\ j.flow /\ o.flow => \/ n = Freed \/ n.sent = j.sent
                                    \/ n.sent = j.sent + 1 /\ j.sent = Len(o.got)
<1> DEFINE r == mbus_seqpkt_output(j, buf, why)
           m == r.k
           n == mbus_seqpkt_maybe_destroy(m)
<1>1. EndOk(j) /\ wo \in Seq(Packet)
  BY DEF PairOk
<1>2. CASE ~j.flow
  <2>1. r = [k |-> j, pkt |-> <<>>]
    BY <1>2 DEF mbus_seqpkt_output
  <2>2. r.k = j /\ r.pkt = <<>>
    BY <2>1
  <2>3. n = IF j.closed /\ ~j.app THEN Freed ELSE j
    BY <1>1, <2>2, DestroyIsFreed
  <2>4. wo \o r.pkt = wo
    BY <1>1, <2>2, NothingAdded
  <2>5. PairOk(Freed, o, wj, wo)
    BY PairFreed
  <2>6. n.sent \in {0, j.sent}
    BY <2>3, FreedEnd
  <2> HIDE DEF r, n
  <2> QED
    BY <1>2, <2>2, <2>3, <2>4, <2>5, <2>6 DEF r, n, m
<1>3. CASE j.flow
  <2>1. AfterOutput(m, Pulled(j)) /\ (r.pkt = <<>> \/ \E q : r.pkt = <<q>> /\ Sendable(q, m))
    BY <1>1, <1>3, OutputFacts
  <2>2. EndOk(m)
    BY <1>1, <1>3, <2>1, OutputEnd
  <2>3. n = IF m.closed /\ ~m.app THEN Freed ELSE m
    BY <2>2, DestroyIsFreed
  <2>4. SameLife(Pulled(j), j)
    BY <1>1, PulledFacts
  <2> HIDE DEF r, n
  <2>5. /\ PairOk(m, o, wj, wo) /\ m.got = j.got
        /\ o.flow /\ m.sent # j.sent => m.sent = j.sent + 1 /\ j.sent = Len(o.got)
    BY <1>3, <2>1, PairOutput
  <2>6. m.flow /\ (m.cts => ~m.slot)
    BY <1>3, <2>1, <2>4 DEF AfterOutput, SameLife
  <2>7. PairOk(m, o, wj, wo \o r.pkt)
    <3>1. CASE r.pkt = <<>>
      <4>1. wo \o r.pkt = wo
        BY <1>1, <3>1, NothingAdded
      <4> QED
        BY <2>5, <4>1
    <3>2. CASE r.pkt # <<>>
      <4>1. PICK q : r.pkt = <<q>> /\ Sendable(q, m)
        BY <2>1, <3>2
      <4>2. PairOk(m, o, wj, wo \o <<q>>)
        BY <2>5, <2>6, <4>1, PairSend
      <4> QED
        BY <4>1, <4>2
    <3> QED
      BY <3>1, <3>2
  <2>8. PairOk(Freed, o, wj, wo \o r.pkt)
    BY <2>7, PairFreed
  <2>9. PairOk(n, o, wj, wo \o r.pkt)
    BY <2>3, <2>7, <2>8
  <2>10. n = Freed \/ n = m
    BY <2>3
  <2>11. m.flow = j.flow
    BY <2>1, <2>4 DEF AfterOutput, SameLife
  <2>12. Pulled(j).sent = j.sent
    BY <1>1, PulledFacts
  <2>13. m.sent \in {j.sent, j.sent + 1}
    BY <2>1, <2>12 DEF AfterOutput
  <2>14. n.sent \in {0, j.sent, j.sent + 1}
    BY <2>10, <2>13, FreedEnd
  <2> HIDE DEF m
  <2> QED
    BY <1>3, <2>1, <2>5, <2>6, <2>9, <2>10, <2>11, <2>14 DEF r, n, m
<1> QED
  BY <1>2, <1>3

\* What mbus_seqpkt_recv_data does before it calls mbus_seqpkt_output.
Received(k, p) == Accepted(release_txq(Noted(k, p)), p)

LEMMA PairReceive ==
  ASSUME NEW k, NEW o, NEW wk, NEW wo, PairOk(k, o, wk, wo), k.flow, wk # <<>>,
         Head(wk).t = "flags"
  PROVE  LET j == Received(k, Head(wk)) IN
         /\ PairOk(j, o, Tail(wk), wo) /\ j.sent = k.sent /\ j.flow /\ j.up
         /\ o.flow => \/ j.got = k.got
                      \/ j.got = Append(k.got, Len(k.got) + 1) /\ Len(k.got) < o.sent
<1> DEFINE p == Head(wk)
           m == release_txq(Noted(k, p))
           j == Accepted(m, p)
           x == Tail(wk)
<1>1. /\ EndOk(k) /\ EndOk(o) /\ o \in Con /\ wk \in Seq(Packet) /\ wo \in Seq(Packet)
      /\ ArrivesOk(k, wk)
  BY DEF PairOk, EndOk
<1>2. p \in Packet /\ x \in Seq(Packet)
  BY <1>1, FirstAndRest
<1>3. /\ EndOk(m) /\ SameReceiver(m, k) /\ SameLife(m, k) /\ m.app = k.app /\ m.sent = k.sent
  BY <1>1, <1>2, ReleaseFacts
<1>4. m.flow /\ ArrivesOk(m, wk)
  BY <1>1, <1>3, ArrivesFrame DEF SameLife
<1>5. /\ EndOk(j) /\ SameSender(j, m) /\ SameLife(j, m) /\ ArrivesOk(j, x)
  BY <1>1, <1>3, <1>4, AcceptedFacts, AcceptArrives
<1>6. j.sent = k.sent /\ j.flow /\ j.up
  <2> HIDE DEF j, m
  <2>1. k.up
    BY <1>1 DEF EndOk, LifeOk
  <2> QED
    BY <1>3, <1>4, <1>5, <2>1 DEF SameSender, SameLife
<1>7. ASSUME o.flow
      PROVE  /\ LinkOk(j, o, wo, x) /\ LinkOk(o, j, x, wo)
             /\ \/ j.got = k.got
                \/ j.got = Append(k.got, Len(k.got) + 1) /\ Len(k.got) < o.sent
  <2>1. LinkOk(k, o, wo, wk) /\ LinkOk(o, k, wk, wo)
    BY <1>7 DEF PairOk
  <2>2. LinkOk(m, o, wo, x)
    BY <1>1, <2>1, ReleaseLink
  <2>3. SameSender(o, o) /\ SameReceiver(o, o) /\ SameReceiver(m, k)
    BY <1>3 DEF SameSender, SameReceiver
  <2>4. LinkOk(o, m, wk, wo)
    BY <2>1, <2>3, LinkFrame
  <2>5. /\ LinkOk(o, j, x, wo)
        /\ m.got # j.got => j.got = Append(m.got, Len(m.got) + 1) /\ Len(m.got) < o.sent
    BY <1>1, <1>3, <1>4, <2>4, AcceptLink
  <2> HIDE DEF m, j
  <2>6. LinkOk(j, o, wo, x)
    BY <1>5, <2>2, <2>3, LinkFrame
  <2> QED
    BY <2>3, <2>5, <2>6 DEF SameReceiver
<1> HIDE DEF j, m
<1>8. PairOk(j, o, x, wo)
  BY <1>1, <1>2, <1>5, <1>7 DEF PairOk
<1> QED
  BY <1>6, <1>7, <1>8 DEF j, m, Received

\* The connection is accepted (mbus_seqpkt_accept).
LEMMA PairAccept ==
  ASSUME NEW p, NEW wd, NEW wp, PairOk(Freed, p, wd, wp), BeginOk(Freed, p, wd, wp), Asked(wd)
  PROVE  LET i == mbus_seqpkt_con_init IN
         /\ PairOk(i, p, Tail(wd), Append(wp, Flags(i)))
         /\ p.sent = 0 /\ p.got = <<>> /\ i.sent = 0 /\ i.got = <<>>
<1> DEFINE i == mbus_seqpkt_con_init
           q == Flags(i)
           x == Tail(wd)
           y == <<q>>
<1>1. /\ EndOk(i) /\ i \in Con /\ i.sent = 0 /\ i.got = <<>> /\ i.given = 0 /\ i.txq = <<>> /\ i.new
      /\ i.eseq = 0 /\ i.reseq = 0 /\ i.rxq = 0
  BY NewEnd DEF EndOk, mbus_seqpkt_con_init
<1>2. /\ EndOk(p) /\ p \in Con /\ wd \in Seq(Packet) /\ wp = <<>> /\ NothingYet(p) /\ wd # <<>>
      /\ \A n \in 1 .. Len(wd) : wd[n].t = "flags" => wd[n].eseq = 0 /\ wd[n].frag = <<>>
  BY DEF PairOk, BeginOk, Asked, EndOk
<1>3. /\ x \in Seq(Packet)
      /\ \A n \in 1 .. Len(x) : x[n].t = "flags" => x[n].eseq = 0 /\ x[n].frag = <<>>
  <2>1. /\ x \in Seq(Packet) /\ Len(x) = Len(wd) - 1 /\ Len(wd) \in Nat
        /\ \A n \in 1 .. Len(x) : x[n] = wd[n + 1]
    BY <1>2, FirstAndRest
  <2>2. ASSUME NEW n \in 1 .. Len(x) PROVE n + 1 \in 1 .. Len(wd) /\ x[n] = wd[n + 1]
    BY <2>1
  <2> HIDE DEF x
  <2> QED
    BY <1>2, <2>1, <2>2
<1>4. /\ q \in Packet /\ q.t = "flags" /\ q.eseq = 0 /\ q.frag = <<>>
  BY <1>1 DEF Flags, Packet, Con
<1>5. Append(wp, q) = y /\ y \in Seq(Packet) /\ Len(y) = 1 /\ y[1] = q
  BY <1>2, <1>4
<1> HIDE DEF i, q, x, y
<1>6. /\ Acked(i) = 0 /\ Len(i.got) = 0 /\ Acked(p) = 0 /\ Len(p.got) = 0 /\ 0 % 2 = 0
      /\ p.got = <<>> /\ p.eseq = 0 /\ p.sent = 0 /\ p.new /\ p.reseq = 0 /\ p.rxq = 0
  <2>1. /\ p.got = <<>> /\ p.eseq = 0 /\ p.sent = 0 /\ p.new /\ p.reseq = 0 /\ p.rxq = 0
        /\ Acked(p) = 0
    BY <1>2 DEF NothingYet
  <2>2. Len(i.got) = 0 /\ Len(p.got) = 0 /\ Len(i.txq) = 0
    BY <1>1, <2>1
  <2>3. Acked(i) = 0
    BY <1>1, <2>2, NoDifference DEF Acked
  <2>4. 0 % 2 = 0
    OBVIOUS
  <2> QED
    BY <2>1, <2>2, <2>3, <2>4
<1>7. ArrivesOk(i, x)
  BY <1>1, <1>3, <1>6 DEF ArrivesOk, HasFrag
<1>8. ArrivesOk(p, y)
  <2>1. \A n \in 1 .. Len(y) : ~HasFrag(y[n])
    BY <1>4, <1>5 DEF HasFrag
  <2> QED
    BY <1>6, <2>1 DEF ArrivesOk
<1>9. LinkOk(i, p, y, x)
  <2>1. CountsOk(i, p)
    BY <1>1, <1>6 DEF CountsOk
  <2>2. FragsOk(i, p, y)
    BY <1>4, <1>5 DEF FragsOk, HasFrag
  <2>3. AcksOk(i, p, x)
    BY <1>3, <1>6 DEF AcksOk
  <2>4. MessageOk(i, p)
    BY <1>1, <1>6 DEF MessageOk
  <2> QED
    BY <2>1, <2>2, <2>3, <2>4 DEF LinkOk
<1>10. LinkOk(p, i, x, y)
  <2>1. CountsOk(p, i)
    BY <1>6 DEF CountsOk
  <2>2. FragsOk(p, i, x)
    BY <1>3 DEF FragsOk, HasFrag
  <2>3. AcksOk(p, i, y)
    BY <1>4, <1>5, <1>6 DEF AcksOk
  <2>4. MessageOk(p, i)
    <3>1. p.given \in Nat /\ Len(p.txq) \in Nat /\ p.given = Len(p.txq) /\ MsgFrags \in Nat
      BY <1>2, <1>6, Fields DEF Acked
    <3>2. ASSUME 0 < p.given
          PROVE  \E n \in 1 .. Len(p.txq) : 0 + n > 0 /\ p.txq[n].last /\ 0 + (0 + n - 0) <= MsgFrags
      <4>1. 1 \in 1 .. Len(p.txq)
        BY <3>1, <3>2
      <4>2. PICK n \in 1 .. Len(p.txq) : p.txq[n].last /\ n - 1 < MsgFrags
        BY <1>2, <4>1 DEF EndOk, QueueOk
      <4> QED
        BY <3>1, <4>2
    <3> QED
      BY <1>1, <1>6, <3>2 DEF MessageOk
  <2> QED
    BY <2>1, <2>2, <2>3, <2>4 DEF LinkOk
<1>11. PairOk(i, p, x, y)
  BY <1>1, <1>2, <1>3, <1>5, <1>7, <1>8, <1>9, <1>10 DEF PairOk
<1> QED
  BY <1>1, <1>5, <1>6, <1>11 DEF i, q, x

-----------------------------------------------------------------------------
(* The beginning: the packet that asks for the connection.                 *)

NoInit(w) == \A i \in 1 .. Len(w) : w[i].t # "init"

\* Without it, no more need be said.
LEMMA BeginOver ==
  ASSUME NEW wd \in Seq(Packet), NEW wp
  PROVE  /\ \A d, p : BeginOk(d, p, wd, wp) /\ ~Asked(wd) => NoInit(wd) /\ NoInit(wp)
         /\ \A d, p : NoInit(wd) /\ NoInit(wp) => BeginOk(d, p, wd, wp)
         /\ \A d, p : BeginOk(d, p, wd, wp) /\ wd # <<>> => NoInit(Tail(wd)) /\ NoInit(wp)
<1>1. Len(wd) \in Nat /\ (wd # <<>> => Len(wd) > 0)
  OBVIOUS
<1>2. ASSUME NEW d, NEW p, BeginOk(d, p, wd, wp), ~Asked(wd) PROVE NoInit(wd) /\ NoInit(wp)
  <2>1. ASSUME NEW i \in 1 .. Len(wd), wd[i].t = "init" PROVE FALSE
    <3>1. i = 1 /\ wd # <<>>
      BY <1>1, <1>2, <2>1 DEF BeginOk
    <3> QED
      BY <1>2, <2>1, <3>1 DEF Asked
  <2> QED
    BY <1>2, <2>1 DEF BeginOk, NoInit
<1>3. ASSUME NEW d, NEW p, NoInit(wd), NoInit(wp) PROVE BeginOk(d, p, wd, wp)
  <2>1. ~Asked(wd)
    <3>1. wd # <<>> => 1 \in 1 .. Len(wd)
      BY <1>1
    <3> QED
      BY <1>3, <3>1 DEF Asked, NoInit
  <2> QED
    BY <1>3, <2>1 DEF BeginOk, NoInit
<1>4. ASSUME NEW d, NEW p, BeginOk(d, p, wd, wp), wd # <<>> PROVE NoInit(Tail(wd)) /\ NoInit(wp)
  <2> DEFINE x == Tail(wd)
  <2>1. Len(x) = Len(wd) - 1 /\ \A i \in 1 .. Len(x) : x[i] = wd[i + 1]
    BY <1>4, FirstAndRest
  <2> HIDE DEF x
  <2>2. ASSUME NEW i \in 1 .. Len(x) PROVE i + 1 \in 1 .. Len(wd) /\ i + 1 # 1 /\ x[i] = wd[i + 1]
    BY <1>1, <2>1
  <2> QED
    BY <1>4, <2>2 DEF BeginOk, NoInit, x
<1> QED
  BY <1>2, <1>3, <1>4

LEMMA NoInitTail ==
  ASSUME NEW w \in Seq(Packet), w # <<>>, NoInit(w) PROVE NoInit(Tail(w))
<1> DEFINE x == Tail(w)
<1>1. Len(x) = Len(w) - 1 /\ Len(w) \in Nat /\ \A i \in 1 .. Len(x) : x[i] = w[i + 1]
  BY FirstAndRest
<1> HIDE DEF x
<1>2. ASSUME NEW i \in 1 .. Len(x) PROVE i + 1 \in 1 .. Len(w) /\ x[i] = w[i + 1]
  BY <1>1
<1> QED
  BY <1>2 DEF NoInit, x

LEMMA NoInitAdded ==
  ASSUME NEW w \in Seq(Packet), NEW pkt, NEW m, NoInit(w),
         pkt = <<>> \/ \E q : pkt = <<q>> /\ Sendable(q, m)
  PROVE  NoInit(w \o pkt)
<1>1. CASE pkt = <<>>
  BY <1>1, NothingAdded
<1>2. CASE pkt # <<>>
  <2>1. PICK q : pkt = <<q>> /\ Sendable(q, m)
    BY <1>2
  <2>2. q \in Packet /\ q.t # "init"
    BY <2>1 DEF Sendable
  <2> DEFINE x == w \o <<q>>
  <2>3. /\ Len(x) = Len(w) + 1 /\ Len(w) \in Nat /\ x[Len(w) + 1] = q
        /\ \A i \in 1 .. Len(w) : x[i] = w[i]
    BY <2>2, Added
  <2> HIDE DEF x
  <2>4. ASSUME NEW i \in 1 .. Len(x) PROVE x[i].t # "init"
    <3>1. CASE i \in 1 .. Len(w)
      BY <2>3, <3>1 DEF NoInit
    <3>2. CASE i \notin 1 .. Len(w)
      BY <2>2, <2>3, <3>2
    <3> QED
      BY <3>1, <3>2
  <2> QED
    BY <2>1, <2>4 DEF NoInit, x
<1> QED
  BY <1>1, <1>2

\* The peer before it has an answer: nothing it does is a fragment.
LEMMA BeginPeer ==
  ASSUME NEW d, NEW p, NEW wd \in Seq(Packet), NEW wp, BeginOk(d, p, wd, wp), Asked(wd),
         NEW m, NothingYet(m), NEW n \in {Freed, m}, NEW pkt,
         pkt = <<>> \/ \E q : pkt = <<q>> /\ Sendable(q, m)
  PROVE  BeginOk(d, n, wd \o pkt, wp)
<1>1. NothingYet(n)
  <2>1. NothingYet(Freed)
    <3> DEFINE k == mbus_seqpkt_con_init
    <3>1. /\ k \in Con /\ k.got = <<>> /\ k.eseq = 0 /\ k.sent = 0 /\ k.new /\ k.reseq = 0
          /\ ~k.rcts /\ k.rxq = 0 /\ k.given = 0 /\ k.txq = <<>>
      BY NewEnd DEF EndOk, mbus_seqpkt_con_init
    <3>2. Freed = [k EXCEPT !.up = FALSE, !.flow = FALSE, !.app = FALSE, !.ka = FALSE, !.done = TRUE]
      BY DEF Freed
    <3> HIDE DEF k
    <3>3. /\ Freed.got = <<>> /\ Freed.eseq = 0 /\ Freed.sent = 0 /\ Freed.new /\ Freed.reseq = 0
          /\ ~Freed.rcts /\ Freed.rxq = 0 /\ Freed.given = 0 /\ Freed.txq = <<>>
      BY <3>1, <3>2 DEF Con
    <3>4. Len(Freed.txq) = 0
      BY <3>3
    <3>5. Acked(Freed) = 0
      BY <3>3, <3>4, NoDifference DEF Acked
    <3> QED
      BY <3>3, <3>5 DEF NothingYet
  <2> QED
    BY <2>1
<1>2. CASE pkt = <<>>
  <2>1. wd \o pkt = wd
    BY <1>2, NothingAdded
  <2> QED
    BY <1>1, <2>1 DEF BeginOk
<1>3. CASE pkt # <<>>
  <2>1. PICK q : pkt = <<q>> /\ Sendable(q, m)
    BY <1>3
  <2>2. q \in Packet /\ q.t # "init" /\ (q.t = "flags" => q.eseq = 0 /\ q.frag = <<>>)
    BY <2>1 DEF Sendable, NothingYet
  <2> DEFINE x == wd \o <<q>>
  <2>3. /\ x \in Seq(Packet) /\ Len(x) = Len(wd) + 1 /\ Len(wd) \in Nat /\ x[Len(wd) + 1] = q
        /\ \A i \in 1 .. Len(wd) : x[i] = wd[i]
    BY <2>2, Added
  <2> HIDE DEF x
  <2>4. ASSUME NEW i \in 1 .. Len(x)
        PROVE  /\ x[i].t = "init" => i = 1
               /\ x[i].t = "flags" => x[i].eseq = 0 /\ x[i].frag = <<>>
    <3>1. CASE i \in 1 .. Len(wd)
      BY <2>3, <3>1 DEF BeginOk
    <3>2. CASE i \notin 1 .. Len(wd)
      BY <2>2, <2>3, <3>2
    <3> QED
      BY <3>1, <3>2
  <2> QED
    BY <1>1, <2>1, <2>4 DEF BeginOk, x
<1> QED
  BY <1>2, <1>3

-----------------------------------------------------------------------------
(* Steps of the system.                                                    *)

\* The invariant, seen from one end.
LEMMA FromEnd ==
  ASSUME IInv, NEW e \in Ends
  PROVE  /\ PairOk(con[e], con[Other(e)], wire[e], wire[Other(e)])
         /\ EndOk(con[e]) /\ con[e] \in Con /\ wire[e] \in Seq(Packet) /\ wire[Other(e)] \in Seq(Packet)
<1>1. PairOk(con[e], con[Other(e)], wire[e], wire[Other(e)])
  <2>1. PairOk(con["dev"], con["peer"], wire["dev"], wire["peer"])
    BY DEF IInv
  <2>2. PairOk(con["peer"], con["dev"], wire["peer"], wire["dev"])
    BY <2>1, PairSwap
  <2> QED
    BY <2>1, <2>2, TheOther DEF Ends
<1> QED
  BY <1>1 DEF PairOk, EndOk

\* What an end has sent and accepted after a step of e, as ReliableLink sees it.
Progress(e) ==
  LET k == con[e]
      n == con'[e]
      o == con[Other(e)]
  IN  /\ con'[Other(e)] = o
      /\ n.sent \in {0, k.sent, k.sent + 1} /\ (n.flow => k.flow)
      /\ k.flow /\ n.flow /\ o.flow =>
           /\ n.sent # k.sent => n.sent = k.sent + 1 /\ k.sent = Len(o.got)
           /\ n.got # k.got => n.got = Append(k.got, Len(k.got) + 1) /\ Len(k.got) < o.sent

\* One end and the two wires change; the invariant is what is said of them.
LEMMA StepOk ==
  ASSUME IInv, NEW e \in Ends, NEW n, NEW x, NEW y, faults' \in Nat,
         con' = [con EXCEPT ![e] = n],
         wire' = [[wire EXCEPT ![e] = x] EXCEPT ![Other(e)] = y],
         PairOk(n, con[Other(e)], x, y),
         n.flow /\ n.app /\ n.cts => ~n.slot,
         IF e = "dev" THEN BeginOk(n, con["peer"], x, y) ELSE BeginOk(con["dev"], n, y, x)
  PROVE  IInv' /\ con'[e] = n /\ con'[Other(e)] = con[Other(e)]
<1>1. n \in Con /\ x \in Seq(Packet) /\ y \in Seq(Packet)
  BY DEF PairOk, EndOk
<1>2. con \in [Ends -> Con] /\ wire \in [Ends -> Seq(Packet)]
  BY DEF IInv
<1>3. Other(e) \in Ends /\ Other(e) # e
  BY TheOther
<1>4. /\ con' \in [Ends -> Con] /\ wire' \in [Ends -> Seq(Packet)]
      /\ con'[e] = n /\ con'[Other(e)] = con[Other(e)] /\ wire'[e] = x /\ wire'[Other(e)] = y
  BY <1>1, <1>2, <1>3
<1>5. PushFindsRoom'
  <2> SUFFICES ASSUME NEW z \in Ends, con'[z].flow, con'[z].app, con'[z].cts PROVE ~con'[z].slot
    BY DEF PushFindsRoom
  <2>1. CASE z = e
    BY <1>4, <2>1
  <2>2. CASE z = Other(e)
    BY <1>3, <1>4, <2>2 DEF IInv, PushFindsRoom
  <2> QED
    BY <2>1, <2>2, TheOther DEF Ends
<1>6. CASE e = "dev"
  <2>1. Other(e) = "peer"
    BY <1>6, TheOther
  <2> QED
    BY <1>4, <1>5, <1>6, <2>1 DEF IInv
<1>7. CASE e = "peer"
  <2>1. Other(e) = "dev"
    BY <1>7, TheOther
  <2>2. PairOk(con["dev"], n, y, x)
    BY <2>1, PairSwap
  <2> QED
    BY <1>4, <1>5, <1>7, <2>1, <2>2 DEF IInv
<1> QED
  BY <1>6, <1>7 DEF Ends

\* What the invariant says about the beginning, when e takes a step in which it
\* receives nothing and sends pkt.
LEMMA BeginStep ==
  ASSUME IInv, NEW e \in Ends, con[e].up, NEW m, NEW n \in {Freed, m}, NEW pkt,
         pkt = <<>> \/ \E q : pkt = <<q>> /\ Sendable(q, m),
         NothingYet(con[e]) => NothingYet(m)
  PROVE  IF e = "dev" THEN BeginOk(n, con["peer"], wire[e], wire[Other(e)] \o pkt)
         ELSE BeginOk(con["dev"], n, wire[Other(e)] \o pkt, wire[e])
<1> DEFINE wd == wire["dev"]
           wp == wire["peer"]
<1>1. BeginOk(con["dev"], con["peer"], wd, wp) /\ wd \in Seq(Packet) /\ wp \in Seq(Packet)
  BY DEF IInv, Ends
<1>2. CASE e = "dev"
  <2>1. Other(e) = "peer"
    BY <1>2, TheOther
  <2>2. ~Asked(wd)
    BY <1>1, <1>2, FreedEnd DEF BeginOk
  <2>3. NoInit(wd) /\ NoInit(wp)
    BY <1>1, <2>2, BeginOver
  <2>4. NoInit(wp \o pkt)
    BY <1>1, <2>3, NoInitAdded
  <2> QED
    BY <1>1, <1>2, <2>1, <2>3, <2>4, BeginOver
<1>3. CASE e = "peer"
  <2>1. Other(e) = "dev"
    BY <1>3, TheOther
  <2>2. CASE ~Asked(wd)
    <3>1. NoInit(wd) /\ NoInit(wp)
      BY <1>1, <2>2, BeginOver
    <3>2. NoInit(wd \o pkt)
      BY <1>1, <3>1, NoInitAdded
    <3>3. wd \o pkt \in Seq(Packet)
      <4>1. CASE pkt = <<>>
        BY <1>1, <4>1, NothingAdded
      <4>2. CASE pkt # <<>>
        <5>1. PICK q : pkt = <<q>> /\ q \in Packet
          BY <4>2 DEF Sendable
        <5> QED
          BY <1>1, <5>1, Added
      <4> QED
        BY <4>1, <4>2
    <3>4. BeginOk(con["dev"], n, wd \o pkt, wp)
      BY <3>1, <3>2, <3>3, BeginOver
    <3> QED
      BY <1>3, <2>1, <3>4
  <2>3. CASE Asked(wd)
    <3>1. NothingYet(m)
      BY <1>1, <1>3, <2>3 DEF BeginOk
    <3>2. BeginOk(con["dev"], n, wd \o pkt, wp)
      BY <1>1, <2>3, <3>1, BeginPeer
    <3> QED
      BY <1>3, <2>1, <3>2
  <2> QED
    BY <2>2, <2>3
<1> QED
  BY <1>2, <1>3 DEF Ends

LEMMA QuietOutput ==
  ASSUME NEW j, EndOk(j), NothingYet(j), NEW m, AfterOutput(m, Pulled(j)) PROVE NothingYet(m)
<1> DEFINE p == Pulled(j)
<1>1. /\ SameReceiver(p, j) /\ p.rcts = j.rcts /\ p.new = j.new /\ p.sent = j.sent
      /\ p.reseq = j.reseq /\ Acked(p) = Acked(j)
  BY PulledFacts
<1> HIDE DEF p
<1>2. AfterOutput(m, p)
  BY DEF p
<1>3. Acked(m) = Acked(p)
  BY <1>2 DEF AfterOutput, Acked
<1> QED
  BY <1>1, <1>2, <1>3 DEF AfterOutput, NothingYet, SameReceiver

\* e, which has been prepared to j, outputs: it was m and is n afterwards, and
\* has sent pkt, when x is still on its way to it.
Sends(e, j, x, m, n, pkt) ==
  /\ con' = [con EXCEPT ![e] = n] /\ faults' \in Nat
  /\ wire' = [[wire EXCEPT ![e] = x] EXCEPT ![Other(e)] = wire[Other(e)] \o pkt]
  /\ n \in {Freed, m} /\ (pkt = <<>> \/ \E q : pkt = <<q>> /\ Sendable(q, m))
  /\ PairOk(n, con[Other(e)], x, wire[Other(e)] \o pkt)
  /\ ~j.flow => m = j
  /\ j.flow => AfterOutput(m, Pulled(j)) /\ (n # Freed /\ n.cts => ~n.slot)
  /\ n.sent \in {0, j.sent, j.sent + 1}
  /\ n # Freed => n.got = j.got /\ n.flow = j.flow
  /\ j.flow /\ con[Other(e)].flow =>
       \/ n = Freed \/ n.sent = j.sent
       \/ n.sent = j.sent + 1 /\ j.sent = Len(con[Other(e)].got)

\* The end of every handler.
LEMMA OutputsFacts ==
  ASSUME IInv, NEW e \in Ends, NEW j, NEW x, NEW hand, NEW why,
         PairOk(j, con[Other(e)], x, wire[Other(e)]),
         Outputs(e, j, hand, why, [wire EXCEPT ![e] = x])
  PROVE  \E m, n, pkt : Sends(e, j, x, m, n, pkt)
<1> DEFINE o == Other(e)
           w == [wire EXCEPT ![e] = x]
<1>1. PICK buf \in {TRUE} \cup (IF hand \/ faults >= MaxFaults THEN {} ELSE {FALSE}) :
        LET r == mbus_seqpkt_output(j, buf, why)
        IN  /\ con' = [con EXCEPT ![e] = mbus_seqpkt_maybe_destroy(r.k)]
            /\ wire' = [w EXCEPT ![o] = @ \o r.pkt]
            /\ faults' = IF buf THEN faults ELSE faults + 1
  BY Zenon DEF Outputs
<1> DEFINE r == mbus_seqpkt_output(j, buf, why)
           m == r.k
           n == mbus_seqpkt_maybe_destroy(r.k)
           pkt == r.pkt
<1>2. /\ PairOk(n, con[o], x, wire[o] \o pkt)
      /\ n # Freed => n = m /\ n.got = j.got /\ n.flow = j.flow
      /\ n.sent \in {0, j.sent, j.sent + 1}
      /\ ~j.flow => n \in {Freed, j} /\ pkt = <<>>
      /\ j.flow => /\ (n # Freed /\ n.cts => ~n.slot) /\ AfterOutput(m, Pulled(j))
                   /\ pkt = <<>> \/ \E q : pkt = <<q>> /\ Sendable(q, m)
      /\ j.flow /\ con[o].flow => \/ n = Freed \/ n.sent = j.sent
                                  \/ n.sent = j.sent + 1 /\ j.sent = Len(con[o].got)
  BY PairOutputs, Zenon
<1>3. ~j.flow => m = j
  BY DEF mbus_seqpkt_output
<1>4. faults' \in Nat
  BY <1>1 DEF IInv
<1>5. wire' = [w EXCEPT ![o] = wire[o] \o pkt]
  <2>1. w[o] = wire[o]
    BY TheOther DEF IInv
  <2>2. wire' = [w EXCEPT ![o] = w[o] \o pkt]
    BY <1>1, Zenon
  <2> QED
    BY <2>1, <2>2
<1>6. con' = [con EXCEPT ![e] = n]
  BY <1>1, Zenon
<1> HIDE DEF r, m, n, pkt, w
<1>7. n \in {Freed, m} /\ (pkt = <<>> \/ \E q : pkt = <<q>> /\ Sendable(q, m))
  BY <1>2
<1>8. Sends(e, j, x, m, n, pkt)
  BY <1>2, <1>3, <1>4, <1>5, <1>6, <1>7 DEF w, Sends
<1> QED
  BY <1>8

\* Events and timers: mbus_seqpkt_task_cb, mbus_seqpkt_rtx_timer,
\* mbus_seqpkt_ack_timer and mbus_seqpkt_ka_timer.
LEMMA TickStep ==
  ASSUME IInv, NEW e \in Ends, con[e].up, NEW j, NEW why, EndOk(j), SameSender(j, con[e]),
         SameReceiver(j, con[e]), j.flow = con[e].flow, j.rcts = con[e].rcts,
         j.flow /\ j.app /\ j.cts => ~j.slot,
         mbus_seqpkt_tick(e, j, why)
  PROVE  IInv' /\ Progress(e)
<1> DEFINE o == Other(e)
           k == con[e]
<1>1. PairOk(k, con[o], wire[e], wire[o]) /\ EndOk(k)
  BY FromEnd
<1>2. PairOk(j, con[o], wire[e], wire[o])
  BY <1>1, PairSet
<1>3. wire = [wire EXCEPT ![e] = wire[e]]
  BY DEF IInv
<1>4. Outputs(e, j, FALSE, why, [wire EXCEPT ![e] = wire[e]])
  BY <1>3, Zenon DEF mbus_seqpkt_tick
<1>5a. PICK m, n, pkt : Sends(e, j, wire[e], m, n, pkt)
  BY <1>2, <1>4, OutputsFacts
<1>5. /\ con' = [con EXCEPT ![e] = n] /\ faults' \in Nat
      /\ wire' = [[wire EXCEPT ![e] = wire[e]] EXCEPT ![o] = wire[o] \o pkt]
      /\ n \in {Freed, m} /\ (pkt = <<>> \/ \E q : pkt = <<q>> /\ Sendable(q, m))
      /\ PairOk(n, con[o], wire[e], wire[o] \o pkt)
      /\ ~j.flow => m = j
      /\ j.flow => AfterOutput(m, Pulled(j)) /\ (n # Freed /\ n.cts => ~n.slot)
      /\ n.sent \in {0, j.sent, j.sent + 1}
      /\ n # Freed => n.got = j.got /\ n.flow = j.flow
      /\ j.flow /\ con[o].flow =>
           \/ n = Freed \/ n.sent = j.sent
           \/ n.sent = j.sent + 1 /\ j.sent = Len(con[o].got)
  BY <1>5a DEF Sends
<1>6. NothingYet(k) => NothingYet(m)
  <2>1. NothingYet(k) => NothingYet(j)
    BY DEF NothingYet, SameSender, SameReceiver, Acked
  <2> QED
    BY <1>5, <2>1, QuietOutput
<1>7. IF e = "dev" THEN BeginOk(n, con["peer"], wire[e], wire[o] \o pkt)
      ELSE BeginOk(con["dev"], n, wire[o] \o pkt, wire[e])
  BY <1>5, <1>6, BeginStep
<1>8. n.flow /\ n.app /\ n.cts => ~n.slot
  <2>1. CASE n = Freed
    BY <2>1, FreedEnd
  <2>2. CASE n # Freed /\ j.flow
    BY <1>5, <2>2
  <2>3. CASE n # Freed /\ ~j.flow
    BY <1>5, <2>3
  <2> QED
    BY <2>1, <2>2, <2>3
<1>9. IInv' /\ con'[e] = n /\ con'[o] = con[o]
  BY <1>5, <1>7, <1>8, StepOk
<1>10. n.flow => n # Freed /\ k.flow
  BY <1>5, FreedEnd
<1>11. j.sent = k.sent /\ j.got = k.got
  BY DEF SameSender, SameReceiver
<1> HIDE DEF k
<1>12. Progress(e)
  BY <1>5, <1>9, <1>10, <1>11 DEF Progress, k
<1> QED
  BY <1>9, <1>12

\* A step in which e receives what is not the request to connect.
LEMMA BeginReceive ==
  ASSUME IInv, NEW e \in Ends, wire[e] # <<>>, Head(wire[e]).t # "init", NEW n, NEW m, NEW pkt,
         pkt = <<>> \/ \E q : pkt = <<q>> /\ Sendable(q, m),
         wire[Other(e)] \o pkt \in Seq(Packet)
  PROVE  IF e = "dev" THEN BeginOk(n, con["peer"], Tail(wire[e]), wire[Other(e)] \o pkt)
         ELSE BeginOk(con["dev"], n, wire[Other(e)] \o pkt, Tail(wire[e]))
<1> DEFINE wd == wire["dev"]
           wp == wire["peer"]
<1>1. BeginOk(con["dev"], con["peer"], wd, wp) /\ wd \in Seq(Packet) /\ wp \in Seq(Packet)
  BY DEF IInv, Ends
<1>2. ~Asked(wd)
  <2>1. CASE e = "dev"
    <3>1. Head(wd) = wd[1]
      BY <1>1, <2>1
    <3> QED
      BY <2>1, <3>1 DEF Asked
  <2>2. CASE e = "peer"
    BY <1>1, <2>2 DEF BeginOk
  <2> QED
    BY <2>1, <2>2 DEF Ends
<1>3. NoInit(wd) /\ NoInit(wp)
  BY <1>1, <1>2, BeginOver
<1>4. NoInit(Tail(wire[e])) /\ Tail(wire[e]) \in Seq(Packet) /\ NoInit(wire[Other(e)] \o pkt)
  <2>1. NoInit(wire[e]) /\ wire[e] \in Seq(Packet)
    BY <1>1, <1>3 DEF Ends
  <2>2. NoInit(wire[Other(e)]) /\ wire[Other(e)] \in Seq(Packet)
    BY <1>1, <1>3, TheOther DEF Ends
  <2>3. Tail(wire[e]) \in Seq(Packet)
    BY <2>1, FirstAndRest
  <2> QED
    BY <2>1, <2>2, <2>3, NoInitTail, NoInitAdded
<1> QED
  BY <1>4, BeginOver

\* mbus_seqpkt_recv_data.
LEMMA RecvStep ==
  ASSUME IInv, NEW e \in Ends, mbus_seqpkt_recv_data(e) PROVE IInv' /\ Progress(e)
<1> DEFINE o == Other(e)
           k == con[e]
           p == Head(wire[e])
           j == Received(k, p)
           x == Tail(wire[e])
           r == release_txq(Noted(k, p))
           hand == ~(Acceptable(r, p) /\ r.app)
           why == "none"
<1>1. k.flow /\ wire[e] # <<>> /\ p.t = "flags"
  BY DEF mbus_seqpkt_recv_data
<1>2. Outputs(e, j, hand, why, [wire EXCEPT ![e] = x])
  BY Zenon DEF mbus_seqpkt_recv_data, Received, Noted
<1>3. PairOk(k, con[o], wire[e], wire[o]) /\ EndOk(k)
  BY FromEnd
<1>4. /\ PairOk(j, con[o], x, wire[o]) /\ j.sent = k.sent /\ j.flow
      /\ con[o].flow => \/ j.got = k.got
                        \/ j.got = Append(k.got, Len(k.got) + 1) /\ Len(k.got) < con[o].sent
  BY <1>1, <1>3, PairReceive, ZenonT(30)
<1> HIDE DEF j, hand, why
<1>5a. PICK m, n, pkt : Sends(e, j, x, m, n, pkt)
  BY <1>2, <1>4, OutputsFacts
<1>5. /\ con' = [con EXCEPT ![e] = n] /\ faults' \in Nat
      /\ wire' = [[wire EXCEPT ![e] = x] EXCEPT ![o] = wire[o] \o pkt]
      /\ n \in {Freed, m} /\ (pkt = <<>> \/ \E q : pkt = <<q>> /\ Sendable(q, m))
      /\ PairOk(n, con[o], x, wire[o] \o pkt)
      /\ ~j.flow => m = j
      /\ j.flow => AfterOutput(m, Pulled(j)) /\ (n # Freed /\ n.cts => ~n.slot)
      /\ n.sent \in {0, j.sent, j.sent + 1}
      /\ n # Freed => n.got = j.got /\ n.flow = j.flow
      /\ j.flow /\ con[o].flow =>
           \/ n = Freed \/ n.sent = j.sent
           \/ n.sent = j.sent + 1 /\ j.sent = Len(con[o].got)
  BY <1>5a DEF Sends
<1>6. wire[o] \o pkt \in Seq(Packet)
  BY <1>5 DEF PairOk
<1>7. IF e = "dev" THEN BeginOk(n, con["peer"], x, wire[o] \o pkt)
      ELSE BeginOk(con["dev"], n, wire[o] \o pkt, x)
  BY <1>1, <1>5, <1>6, BeginReceive
<1>8. n.flow /\ n.app /\ n.cts => ~n.slot
  BY <1>4, <1>5, FreedEnd
<1>9. IInv' /\ con'[e] = n /\ con'[o] = con[o]
  BY <1>5, <1>7, <1>8, StepOk
<1>10. n.flow => n # Freed
  BY FreedEnd
<1> HIDE DEF k, x, p, r
<1>11. Progress(e)
  BY <1>1, <1>4, <1>5, <1>9, <1>10 DEF Progress, k
<1> QED
  BY <1>9, <1>11

\* A step that takes a packet from e, or none, and sends none.
LEMMA QuietStep ==
  ASSUME IInv, NEW e \in Ends, NEW n, NEW x, con' = [con EXCEPT ![e] = n], faults' \in Nat,
         wire' = [wire EXCEPT ![e] = x], PairOk(n, con[Other(e)], x, wire[Other(e)]),
         n.flow /\ n.app /\ n.cts => ~n.slot, n.flow => con[e].flow,
         n.sent \in {0, con[e].sent}, n.flow => n.sent = con[e].sent /\ n.got = con[e].got,
         IF e = "dev" THEN BeginOk(n, con["peer"], x, wire[Other(e)])
         ELSE BeginOk(con["dev"], n, wire[Other(e)], x)
  PROVE  IInv' /\ Progress(e)
<1> DEFINE o == Other(e)
<1>1. wire' = [[wire EXCEPT ![e] = x] EXCEPT ![o] = wire[o]]
  BY TheOther DEF IInv
<1>2. IInv' /\ con'[e] = n /\ con'[o] = con[o]
  BY <1>1, StepOk
<1> QED
  BY <1>2 DEF Progress

\* The service and the time-out: nothing on the wires changes.
LEMMA SetStep ==
  ASSUME IInv, NEW e \in Ends, con[e].up, NEW n, EndOk(n), SameSender(n, con[e]),
         SameReceiver(n, con[e]), n.flow = con[e].flow, n.rcts = con[e].rcts,
         n.flow /\ n.app /\ n.cts => ~n.slot, con' = [con EXCEPT ![e] = n],
         UNCHANGED <<wire, faults>>
  PROVE  IInv' /\ Progress(e)
<1> DEFINE o == Other(e)
           k == con[e]
<1>1. PairOk(k, con[o], wire[e], wire[o]) /\ wire[o] \in Seq(Packet)
  BY FromEnd
<1>2. PairOk(n, con[o], wire[e], wire[o])
  BY <1>1, PairSet
<1>3. wire' = [wire EXCEPT ![e] = wire[e]] /\ faults' \in Nat
  BY DEF IInv
<1>4. NothingYet(k) => NothingYet(n)
  BY DEF NothingYet, SameSender, SameReceiver, Acked
<1>5. wire[o] \o <<>> = wire[o]
  BY <1>1, NothingAdded
<1>6. IF e = "dev" THEN BeginOk(n, con["peer"], wire[e], wire[o] \o <<>>)
      ELSE BeginOk(con["dev"], n, wire[o] \o <<>>, wire[e])
  <2> DEFINE pkt == <<>>
  <2>1. pkt = <<>>
    OBVIOUS
  <2> HIDE DEF pkt
  <2>2. IF e = "dev" THEN BeginOk(n, con["peer"], wire[e], wire[o] \o pkt)
        ELSE BeginOk(con["dev"], n, wire[o] \o pkt, wire[e])
    BY <1>4, <2>1, BeginStep
  <2> QED
    BY <2>1, <2>2
<1>7. n.sent = k.sent /\ n.got = k.got
  BY DEF SameSender, SameReceiver
<1> QED
  BY <1>2, <1>3, <1>5, <1>6, <1>7, QuietStep

LEMMA TimeoutStep ==
  ASSUME IInv, NEW e \in Ends, Timeout(e) PROVE IInv' /\ Progress(e)
<1> DEFINE k == con[e]
           n == Shut([k EXCEPT !.ka = FALSE])
<1>1. EndOk(k) /\ k \in Con
  BY FromEnd
<1>2. k.ka /\ con' = [con EXCEPT ![e] = n] /\ UNCHANGED <<wire, faults>>
  BY DEF Timeout, Expires
<1>3. k.up
  BY <1>1, <1>2 DEF EndOk, LifeOk
<1> HIDE DEF k
<1>4. /\ n \in Con /\ SameSender(n, k) /\ SameReceiver(n, k) /\ SameLife(n, k) /\ n.rcts = k.rcts
      /\ ~n.app /\ n.ack = k.ack /\ n.rtx = k.rtx
  BY <1>1 DEF Con, Shut, SameSender, SameReceiver, SameLife
<1> HIDE DEF n
<1>5. LifeOk(n) /\ n.rxq < MsgFrags
  BY <1>1, <1>3, <1>4 DEF EndOk, LifeOk, SameLife, SameReceiver
<1>6. EndOk(n)
  BY <1>1, <1>4, <1>5, QueueFrame DEF EndOk
<1> QED
  BY <1>2, <1>3, <1>4, <1>6, SetStep DEF SameLife, k

\* A service that has not closed raises an event.
LEMMA ServiceStep ==
  ASSUME IInv, NEW e \in Ends, ~con[e].done, NEW slot \in BOOLEAN, NEW out \in 0 .. MsgFrags,
         NEW done \in BOOLEAN, NEW ev \in {"event", "close"}, ev = "close" => done,
         slot => con[e].slot,
         con' = [con EXCEPT ![e] = [con[e] EXCEPT !.slot = slot, !.out = out, !.done = done,
                                                  !.sig = con[e].sig \cup {ev}]],
         UNCHANGED <<wire, faults>>
  PROVE  IInv' /\ Progress(e)
<1> DEFINE k == con[e]
           n == [k EXCEPT !.slot = slot, !.out = out, !.done = done, !.sig = k.sig \cup {ev}]
<1>1. EndOk(k) /\ k \in Con
  BY FromEnd
<1>2. k.flow /\ k.app /\ k.cts => ~k.slot
  BY DEF IInv, PushFindsRoom
<1>2a. con' = [con EXCEPT ![e] = n]
  OBVIOUS
<1>3. k.up /\ ~k.closed /\ ~k.done
  BY <1>1 DEF EndOk, LifeOk
<1> HIDE DEF k
<1>3a. k.sig \cup {ev} \in SUBSET {"event", "close"}
  BY <1>1 DEF Con
<1>4. /\ n \in Con /\ SameSender(n, k) /\ SameReceiver(n, k) /\ n.rcts = k.rcts /\ n.app = k.app
      /\ n.cts = k.cts /\ n.slot = slot /\ n.up = k.up /\ n.flow = k.flow /\ n.closed = k.closed
      /\ n.done = done /\ n.sig = k.sig \cup {ev}
  <2>1. n \in Con
    BY <1>1, <1>3a DEF Con
  <2>2. SameSender(n, k) /\ SameReceiver(n, k)
    BY <1>1 DEF Con, SameSender, SameReceiver
  <2> QED
    BY <1>1, <2>1, <2>2 DEF Con
<1> HIDE DEF n
<1>5. LifeOk(n) /\ n.rxq < MsgFrags
  BY <1>1, <1>3, <1>4 DEF EndOk, LifeOk, SameReceiver
<1>6. EndOk(n)
  BY <1>1, <1>4, <1>5, QueueFrame DEF EndOk
<1>7. n.flow /\ n.app /\ n.cts => ~n.slot
  BY <1>2, <1>4 DEF k
<1> QED
  BY <1>2a, <1>3, <1>4, <1>6, <1>7, SetStep DEF k

LEMMA ServiceSteps ==
  ASSUME IInv, NEW e \in Ends, ServiceTakes(e) \/ ServiceGives(e) \/ ServiceCloses(e)
  PROVE  IInv' /\ Progress(e)
<1> DEFINE k == con[e]
<1>1. k \in Con /\ MsgFrags \in Nat /\ k.out \in 0 .. MsgFrags /\ k.slot \in BOOLEAN /\ k.done \in BOOLEAN
  BY FromEnd, Fields DEF Con
<1>2. CASE ServiceTakes(e)
  <2>1. /\ ~k.done /\ UNCHANGED <<wire, faults>>
        /\ con' = [con EXCEPT ![e] = mbus_seqpkt_service_event_cb([k EXCEPT !.slot = FALSE], "event")]
    BY <1>2 DEF ServiceTakes
  <2>2. mbus_seqpkt_service_event_cb([k EXCEPT !.slot = FALSE], "event")
        = [k EXCEPT !.slot = FALSE, !.out = k.out, !.done = k.done, !.sig = k.sig \cup {"event"}]
    <3> HIDE DEF k
    <3> QED
      BY <1>1 DEF mbus_seqpkt_service_event_cb, Con
  <2> QED
    BY <1>1, <2>1, <2>2, ServiceStep
<1>3. CASE ServiceGives(e)
  <2>1. PICK n \in 1 .. MsgFrags : con' = [con EXCEPT ![e] =
          mbus_seqpkt_service_event_cb([k EXCEPT !.out = n], "event")]
    BY <1>3 DEF ServiceGives
  <2>2. ~k.done /\ UNCHANGED <<wire, faults>> /\ n \in 0 .. MsgFrags
    BY <1>1, <1>3 DEF ServiceGives
  <2>3. mbus_seqpkt_service_event_cb([k EXCEPT !.out = n], "event")
        = [k EXCEPT !.slot = k.slot, !.out = n, !.done = k.done, !.sig = k.sig \cup {"event"}]
    <3> HIDE DEF k
    <3> QED
      BY <1>1 DEF mbus_seqpkt_service_event_cb, Con
  <2> QED
    BY <1>1, <2>1, <2>2, <2>3, ServiceStep
<1>4. CASE ServiceCloses(e)
  <2>1. /\ ~k.done /\ UNCHANGED <<wire, faults>>
        /\ con' = [con EXCEPT ![e] = mbus_seqpkt_service_event_cb([k EXCEPT !.done = TRUE], "close")]
    BY <1>4 DEF ServiceCloses
  <2>2. mbus_seqpkt_service_event_cb([k EXCEPT !.done = TRUE], "close")
        = [k EXCEPT !.slot = k.slot, !.out = k.out, !.done = TRUE, !.sig = k.sig \cup {"close"}]
    <3> HIDE DEF k
    <3> QED
      BY <1>1 DEF mbus_seqpkt_service_event_cb, Con
  <2> QED
    BY <1>1, <2>1, <2>2, ServiceStep
<1> QED
  BY <1>2, <1>3, <1>4

\* A packet leaves the wire and nothing else happens: the bus has lost it, or
\* there is no such flow.
LEMMA LoseStep ==
  ASSUME IInv, NEW e \in Ends, wire[e] # <<>>, wire' = [wire EXCEPT ![e] = Tail(wire[e])],
         con' = con, faults' \in Nat
  PROVE  IInv' /\ Progress(e)
<1> DEFINE o == Other(e)
           k == con[e]
           x == Tail(wire[e])
<1>1. /\ PairOk(k, con[o], wire[e], wire[o]) /\ wire[o] \in Seq(Packet) /\ wire[e] \in Seq(Packet)
      /\ k \in Con
  BY FromEnd
<1>2. PairOk(k, con[o], x, wire[o])
  BY <1>1, PairLose
<1>3. con' = [con EXCEPT ![e] = k]
  BY DEF IInv
<1>4. k.flow /\ k.app /\ k.cts => ~k.slot
  BY DEF IInv, PushFindsRoom
<1>5. BeginOk(con["dev"], con["peer"], wire["dev"], wire["peer"])
  BY DEF IInv
<1>6. IF e = "dev" THEN BeginOk(k, con["peer"], x, wire[o]) ELSE BeginOk(con["dev"], k, wire[o], x)
  <2>1. CASE e = "dev"
    <3>1. o = "peer" /\ x \in Seq(Packet)
      BY <1>1, <2>1, TheOther, FirstAndRest
    <3>2. NoInit(x) /\ NoInit(wire[o])
      BY <1>1, <1>5, <2>1, <3>1, BeginOver
    <3> QED
      BY <2>1, <3>1, <3>2, BeginOver
  <2>2. CASE e # "dev"
    <3>1. e = "peer" /\ o = "dev"
      BY <2>2, TheOther DEF Ends
    <3>2. ~Asked(wire["dev"])
      BY <1>5, <3>1 DEF BeginOk
    <3>3. NoInit(wire[o]) /\ NoInit(wire[e])
      BY <1>1, <1>5, <3>1, <3>2, BeginOver
    <3>4. NoInit(x)
      BY <1>1, <3>3, NoInitTail
    <3>5. BeginOk(con["dev"], k, wire[o], x)
      BY <1>1, <3>3, <3>4, BeginOver
    <3> QED
      BY <2>2, <3>5
  <2> QED
    BY <2>1, <2>2
<1> HIDE DEF k, x
<1> QED
  BY <1>2, <1>3, <1>4, <1>6, QuietStep DEF k, x

\* mbus_seqpkt_input of SP_EOS.
LEMMA CloseStep ==
  ASSUME IInv, NEW e \in Ends, CloseReceived(e) PROVE IInv' /\ Progress(e)
<1> DEFINE o == Other(e)
           k == con[e]
           x == Tail(wire[e])
           m == [Shut(k) EXCEPT !.flow = FALSE]
           n == mbus_seqpkt_maybe_destroy(m)
<1>1. /\ PairOk(k, con[o], wire[e], wire[o]) /\ EndOk(k) /\ k \in Con /\ wire[e] \in Seq(Packet)
      /\ wire[o] \in Seq(Packet)
  BY FromEnd
<1>2. /\ k.flow /\ wire[e] # <<>> /\ Head(wire[e]).t = "eos" /\ faults' \in Nat
      /\ con' = [con EXCEPT ![e] = n] /\ wire' = [wire EXCEPT ![e] = x]
  BY DEF CloseReceived, IInv
<1>3. PairOk(k, con[o], x, wire[o])
  BY <1>1, <1>2, PairLose
<1> HIDE DEF k, x, n
<1>4. /\ m \in Con /\ SameSender(m, k) /\ SameReceiver(m, k) /\ ~m.app /\ ~m.flow /\ m.up = k.up
      /\ m.closed = k.closed /\ m.done = k.done /\ m.sig = k.sig /\ m.ack = k.ack /\ m.rtx = k.rtx
      /\ m.ka = k.ka
  BY <1>1 DEF Con, Shut, SameSender, SameReceiver
<1> HIDE DEF m
<1>5. LifeOk(m) /\ m.rxq < MsgFrags
  BY <1>1, <1>4 DEF EndOk, LifeOk, SameReceiver
<1>6. EndOk(m)
  BY <1>1, <1>4, <1>5, QueueFrame DEF EndOk
<1>7. PairOk(m, con[o], x, wire[o])
  BY <1>3, <1>4, <1>6, PairSet
<1>8. n \in {m, Freed}
  BY <1>6, DestroyIsFreed DEF n
<1>9. PairOk(n, con[o], x, wire[o])
  BY <1>7, <1>8, PairFreed
<1>10. ~n.flow /\ n.sent \in {0, k.sent}
  BY <1>4, <1>8, FreedEnd DEF SameSender
<1>11. IF e = "dev" THEN BeginOk(n, con["peer"], x, wire[o]) ELSE BeginOk(con["dev"], n, wire[o], x)
  <2> DEFINE pkt == <<>>
  <2>1. pkt = <<>> /\ wire[o] \o pkt = wire[o]
    BY <1>1, NothingAdded
  <2> HIDE DEF pkt
  <2>2. Head(wire[e]).t # "init"
    BY <1>2
  <2> QED
    BY <1>1, <1>2, <2>1, <2>2, BeginReceive DEF x
<1> QED
  BY <1>2, <1>9, <1>10, <1>11, QuietStep DEF k

\* mbus_seqpkt_task_cb and the three timers.
LEMMA TickSteps ==
  ASSUME IInv, NEW e \in Ends,
         \/ mbus_seqpkt_task_cb(e) \/ mbus_seqpkt_rtx_timer(e)
         \/ mbus_seqpkt_ack_timer(e) \/ mbus_seqpkt_ka_timer(e)
  PROVE  IInv' /\ Progress(e)
<1> DEFINE k == con[e]
<1>1. EndOk(k) /\ k \in Con
  BY FromEnd
<1>2. k.flow /\ k.app /\ k.cts => ~k.slot
  BY DEF IInv, PushFindsRoom
<1>3. ASSUME NEW j, j \in Con, SameSender(j, k), SameReceiver(j, k), j.up = k.up, j.flow = k.flow,
             j.app = k.app, j.cts = k.cts, j.slot = k.slot, j.rcts = k.rcts, j.done = k.done,
             j.ack => k.ack, j.rtx => k.rtx, j.ka => k.ka,
             j.sig = {} /\ (j.closed => k.done), NEW why, k.up, mbus_seqpkt_tick(e, j, why)
      PROVE  IInv' /\ Progress(e)
  <2>1. LifeOk(j) /\ j.rxq < MsgFrags
    BY <1>1, <1>3 DEF EndOk, LifeOk, SameReceiver
  <2>2. EndOk(j)
    BY <1>1, <1>3, <2>1, QueueFrame DEF EndOk
  <2>3. j.flow /\ j.app /\ j.cts => ~j.slot
    BY <1>2, <1>3
  <2> QED
    BY <1>3, <2>2, <2>3, TickStep
<1>4. CASE mbus_seqpkt_task_cb(e)
  <2> DEFINE j == [k EXCEPT !.sig = {}, !.closed = k.closed \/ "close" \in k.sig]
             why == "none"
  <2>1. k.sig # {} /\ mbus_seqpkt_tick(e, j, why)
    BY <1>4, Zenon DEF mbus_seqpkt_task_cb
  <2>2. k.up /\ (k.closed \/ "close" \in k.sig => k.done)
    BY <1>1, <2>1 DEF EndOk, LifeOk
  <2> HIDE DEF k, why
  <2>3. /\ j \in Con /\ SameSender(j, k) /\ SameReceiver(j, k) /\ j.up = k.up /\ j.flow = k.flow
        /\ j.app = k.app /\ j.cts = k.cts /\ j.slot = k.slot /\ j.rcts = k.rcts /\ j.done = k.done
        /\ j.ack = k.ack /\ j.rtx = k.rtx /\ j.ka = k.ka
        /\ j.sig = {} /\ j.closed = (k.closed \/ "close" \in k.sig)
    BY <1>1 DEF Con, SameSender, SameReceiver
  <2> HIDE DEF j
  <2> QED
    BY <1>3, <2>1, <2>2, <2>3
<1>5. CASE mbus_seqpkt_rtx_timer(e)
  <2> DEFINE j == [k EXCEPT !.rtx = FALSE]
             why == "rtx"
  <2>1. k.rtx /\ k.sig = {} /\ mbus_seqpkt_tick(e, j, why)
    BY <1>5 DEF mbus_seqpkt_rtx_timer, Expires
  <2>2. k.up /\ (k.closed => k.done)
    BY <1>1, <2>1 DEF EndOk, LifeOk
  <2> HIDE DEF k, why
  <2>3. /\ j \in Con /\ SameSender(j, k) /\ SameReceiver(j, k) /\ j.up = k.up /\ j.flow = k.flow
        /\ j.app = k.app /\ j.cts = k.cts /\ j.slot = k.slot /\ j.rcts = k.rcts /\ j.done = k.done
        /\ j.ack = k.ack /\ ~j.rtx /\ j.ka = k.ka /\ j.sig = k.sig /\ j.closed = k.closed
    BY <1>1 DEF Con, SameSender, SameReceiver
  <2> HIDE DEF j
  <2> QED
    BY <1>3, <2>1, <2>2, <2>3
<1>6. CASE mbus_seqpkt_ack_timer(e)
  <2> DEFINE j == [k EXCEPT !.ack = FALSE]
             why == "ack"
  <2>1. k.ack /\ k.sig = {} /\ mbus_seqpkt_tick(e, j, why)
    BY <1>6 DEF mbus_seqpkt_ack_timer, Expires
  <2>2. k.up /\ (k.closed => k.done)
    BY <1>1, <2>1 DEF EndOk, LifeOk
  <2> HIDE DEF k, why
  <2>3. /\ j \in Con /\ SameSender(j, k) /\ SameReceiver(j, k) /\ j.up = k.up /\ j.flow = k.flow
        /\ j.app = k.app /\ j.cts = k.cts /\ j.slot = k.slot /\ j.rcts = k.rcts /\ j.done = k.done
        /\ ~j.ack /\ j.rtx = k.rtx /\ j.ka = k.ka /\ j.sig = k.sig /\ j.closed = k.closed
    BY <1>1 DEF Con, SameSender, SameReceiver
  <2> HIDE DEF j
  <2> QED
    BY <1>3, <2>1, <2>2, <2>3
<1>7. CASE mbus_seqpkt_ka_timer(e)
  <2> DEFINE why == "ka"
  <2>1. k.ka /\ k.sig = {} /\ mbus_seqpkt_tick(e, k, why)
    BY <1>7 DEF mbus_seqpkt_ka_timer, Expires
  <2>2. k.up /\ (k.closed => k.done)
    BY <1>1, <2>1 DEF EndOk, LifeOk
  <2>3. SameSender(k, k) /\ SameReceiver(k, k)
    BY DEF SameSender, SameReceiver
  <2> HIDE DEF k, why
  <2> QED
    BY <1>1, <1>3, <2>1, <2>2, <2>3
<1> QED
  BY <1>4, <1>5, <1>6, <1>7

\* The device accepts: both directions start from nothing.
Accepts ==
  /\ con["dev"] = Freed /\ con'["dev"] = mbus_seqpkt_con_init /\ con'["peer"] = con["peer"]
  /\ con["peer"].sent = 0 /\ con["peer"].got = <<>>

LEMMA AcceptStep == ASSUME IInv, mbus_seqpkt_accept PROVE IInv' /\ Accepts
<1> DEFINE i == mbus_seqpkt_con_init
           p == con["peer"]
           wd == wire["dev"]
           wp == wire["peer"]
           x == Tail(wd)
           y == Append(wp, Flags(i))
<1>1. /\ wd # <<>> /\ Head(wd).t = "init" /\ con' = [con EXCEPT !["dev"] = i] /\ faults' = faults
      /\ wire' = [wire EXCEPT !["dev"] = x, !["peer"] = y]
  BY DEF mbus_seqpkt_accept
<1>2. /\ wd \in Seq(Packet) /\ wp \in Seq(Packet) /\ faults \in Nat
      /\ PairOk(con["dev"], p, wd, wp) /\ BeginOk(con["dev"], p, wd, wp)
  BY DEF IInv, Ends
<1>3. Asked(wd)
  BY <1>1, <1>2 DEF Asked
<1>4. con["dev"] = Freed /\ wp = <<>>
  BY <1>2, <1>3 DEF BeginOk
<1>5. PairOk(i, p, x, y) /\ p.sent = 0 /\ p.got = <<>>
  BY <1>2, <1>3, <1>4, PairAccept
<1>6. x \in Seq(Packet) /\ NoInit(x)
  BY <1>1, <1>2, FirstAndRest, BeginOver
<1>7. NoInit(y)
  <2> DEFINE q == Flags(i)
  <2>1. q.t = "flags"
    BY DEF Flags
  <2> HIDE DEF q
  <2>2. Append(wp, q) = <<q>> /\ Len(<<q>>) = 1
    BY <1>4
  <2>3. NoInit(<<q>>)
    BY <2>1, <2>2 DEF NoInit
  <2> QED
    BY <2>2, <2>3 DEF q
<1>8. BeginOk(i, p, x, y)
  BY <1>6, <1>7, BeginOver
<1>9. ~i.cts
  BY DEF mbus_seqpkt_con_init
<1>10. "dev" \in Ends /\ Other("dev") = "peer"
  BY TheOther DEF Ends
<1>11. wire' = [[wire EXCEPT !["dev"] = x] EXCEPT !["peer"] = y]
  BY <1>1
<1> HIDE DEF i, x, y
<1>12. IInv' /\ con'["dev"] = i /\ con'["peer"] = con["peer"]
  <2>0. "dev" = "dev"
    OBVIOUS
  <2> DEFINE e == "dev"
  <2>1. /\ e \in Ends /\ e = "dev" /\ Other(e) = "peer" /\ con' = [con EXCEPT ![e] = i]
        /\ wire' = [[wire EXCEPT ![e] = x] EXCEPT ![Other(e)] = y]
    BY <1>1, <1>10, <1>11
  <2> HIDE DEF e
  <2>2. PairOk(i, con[Other(e)], x, y)
    BY <1>5, <2>1
  <2>3. IF e = "dev" THEN BeginOk(i, con["peer"], x, y) ELSE BeginOk(con["dev"], i, y, x)
    BY <1>8, <2>1
  <2>4. IInv' /\ con'[e] = i /\ con'[Other(e)] = con[Other(e)]
    BY <1>1, <1>2, <1>9, <2>1, <2>2, <2>3, StepOk
  <2> QED
    BY <2>1, <2>4
<1> QED
  BY <1>4, <1>5, <1>12 DEF Accepts, i

-----------------------------------------------------------------------------
(* The invariant holds.                                                    *)

LEMMA InitOk == ASSUME Init PROVE IInv
<1> DEFINE p == [mbus_seqpkt_con_init EXCEPT !.cts = TRUE]
           q == [t |-> "init"]
           wd == <<q>>
           wp == <<>>
<1>1. /\ con = [e \in Ends |-> IF e = "peer" THEN p ELSE Freed] /\ faults = 0
      /\ wire = [e \in Ends |-> IF e = "dev" THEN wd ELSE wp]
  BY DEF Init
<1>2. EndOk(Freed) /\ Freed \in Con /\ ~Freed.flow
  BY FreedEnd DEF EndOk
<1>3. EndOk(p) /\ p \in Con
  BY NewEnd DEF EndOk
<1>4. /\ p.got = <<>> /\ p.eseq = 0 /\ p.sent = 0 /\ p.new /\ p.reseq = 0 /\ ~p.rcts /\ p.rxq = 0
      /\ p.given = 0 /\ p.txq = <<>> /\ ~p.slot
  <2> DEFINE i == mbus_seqpkt_con_init
  <2>1. /\ i \in Con /\ i.got = <<>> /\ i.eseq = 0 /\ i.sent = 0 /\ i.new /\ i.reseq = 0
        /\ ~i.rcts /\ i.rxq = 0 /\ i.given = 0 /\ i.txq = <<>> /\ ~i.slot
    BY NewEnd DEF EndOk, mbus_seqpkt_con_init
  <2>2. p = [i EXCEPT !.cts = TRUE]
    OBVIOUS
  <2> HIDE DEF i, p
  <2> QED
    BY <2>1, <2>2 DEF Con
<1>5. q \in Packet /\ q.t = "init"
  BY DEF Packet
<1> HIDE DEF p, q
<1>6. wd \in Seq(Packet) /\ wp \in Seq(Packet) /\ Len(wd) = 1 /\ wd[1] = q /\ Len(wp) = 0 /\ wd # <<>>
  BY <1>5
<1> HIDE DEF wd
<1>7. NothingYet(p)
  <2>1. Len(p.txq) = 0
    BY <1>4
  <2>2. Acked(p) = 0
    BY <1>4, <2>1, NoDifference DEF Acked
  <2> QED
    BY <1>4, <2>2 DEF NothingYet
<1>8. BeginOk(Freed, p, wd, wp)
  BY <1>5, <1>6, <1>7 DEF BeginOk
<1>9. ArrivesOk(p, wp)
  <2>1. Len(p.got) = 0 /\ 0 % 2 = 0
    BY <1>4
  <2> QED
    BY <1>4, <1>6, <2>1 DEF ArrivesOk
<1>10. PairOk(Freed, p, wd, wp)
  BY <1>2, <1>3, <1>6, <1>9 DEF PairOk
<1> HIDE DEF wp
<1>11. /\ con \in [Ends -> Con] /\ wire \in [Ends -> Seq(Packet)] /\ faults \in Nat
       /\ con["dev"] = Freed /\ con["peer"] = p /\ wire["dev"] = wd /\ wire["peer"] = wp
  BY <1>1, <1>2, <1>3, <1>6 DEF Ends
<1>12. PushFindsRoom
  BY <1>2, <1>4, <1>11 DEF PushFindsRoom, Ends
<1> QED
  BY <1>8, <1>10, <1>11, <1>12 DEF IInv

\* Every step of an end is progress of its two links, or the connection begins.
LEMMA NextOk ==
  ASSUME IInv, Next PROVE IInv' /\ (Accepts \/ \E e \in Ends : Progress(e))
<1>1. PICK e \in Ends :
        \/ Input(e) \/ mbus_seqpkt_task_cb(e) \/ mbus_seqpkt_rtx_timer(e)
        \/ mbus_seqpkt_ack_timer(e) \/ mbus_seqpkt_ka_timer(e) \/ Timeout(e)
        \/ ServiceTakes(e) \/ ServiceGives(e) \/ ServiceCloses(e) \/ Lose(e)
  BY Zenon DEF Next
<1>2. CASE Input(e)
  <2>1. CASE mbus_seqpkt_accept
    BY <2>1, AcceptStep
  <2>2. CASE mbus_seqpkt_recv_data(e)
    BY <2>2, RecvStep
  <2>3. CASE CloseReceived(e)
    BY <2>3, CloseStep
  <2>4. CASE Dropped(e)
    BY <2>4, LoseStep DEF Dropped, IInv
  <2> QED
    BY <1>2, <2>1, <2>2, <2>3, <2>4 DEF Input
<1>3. CASE Lose(e)
  <2>1. /\ wire[e] # <<>> /\ wire' = [wire EXCEPT ![e] = Tail(wire[e])] /\ con' = con
        /\ faults' \in Nat
    BY <1>3 DEF Lose, IInv
  <2> QED
    BY <2>1, LoseStep
<1>4. CASE Timeout(e)
  BY <1>4, TimeoutStep
<1>5. CASE ServiceTakes(e) \/ ServiceGives(e) \/ ServiceCloses(e)
  BY <1>5, ServiceSteps
<1>6. CASE \/ mbus_seqpkt_task_cb(e) \/ mbus_seqpkt_rtx_timer(e)
           \/ mbus_seqpkt_ack_timer(e) \/ mbus_seqpkt_ka_timer(e)
  BY <1>6, TickSteps
<1> QED
  BY <1>1, <1>2, <1>3, <1>4, <1>5, <1>6

THEOREM SeqpktInductive == Spec => []IInv
<1>1. Init => IInv
  BY InitOk
<1>2. IInv /\ [Next]_vars => IInv'
  <2> SUFFICES ASSUME IInv, [Next]_vars PROVE IInv'
    OBVIOUS
  <2>1. CASE Next
    BY <2>1, NextOk
  <2>2. CASE UNCHANGED vars
    BY <2>2 DEF vars, IInv, PushFindsRoom
  <2> QED
    BY <2>1, <2>2
<1> QED
  BY <1>1, <1>2, PTL DEF Spec

\* The queue of fragments is bounded and its bits alternate, a message never has
\* more fragments than there is room for, only a connection that is not freed
\* has timers and is queued (msc_txq, msc_rtx_timer, mbus_seqpkt_maybe_destroy).
THEOREM SeqpktInvCorrect == Spec => []SeqpktInv
<1>1. IInv => SeqpktInv
  <2> SUFFICES ASSUME IInv PROVE SeqpktInv
    OBVIOUS
  <2>1. ASSUME NEW e \in Ends PROVE EndOk(con[e])
    BY FromEnd
  <2>2. SeqpktTypeOK
    BY <2>1 DEF SeqpktTypeOK, EndOk, QueueOk, LifeOk
  <2>3. FreedIsUnqueued
    BY <2>1 DEF FreedIsUnqueued, EndOk, LifeOk
  <2> QED
    BY <2>2, <2>3 DEF SeqpktInv
<1> QED
  BY <1>1, SeqpktInductive, PTL

\* Whenever mbus_seqpkt_recv_data may push, the service has room: the SP_CTS
\* computed when the end last sent is still true.
THEOREM PushFindsRoomCorrect == Spec => []PushFindsRoom
<1>1. IInv => PushFindsRoom
  BY DEF IInv
<1> QED
  BY <1>1, SeqpktInductive, PTL

-----------------------------------------------------------------------------
(* Each direction is a ReliableLink.                                       *)

\* What the counters of a link are, before and after a step of either end.
LEMMA AliveBoth == Alive <=> con["dev"].flow /\ con["peer"].flow
  BY DEF Alive, Ends

LEMMA AliveBothNext == Alive' <=> con'["dev"].flow /\ con'["peer"].flow
  BY DEF Alive, Ends

\* A step of the sender s of a direction, and of its receiver r.
LEMMA SenderOrReceiver ==
  ASSUME IInv, NEW e \in Ends, Progress(e)
  PROVE  LET k == con[e]
             n == con'[e]
             o == con[Other(e)]
         IN  /\ con'[Other(e)] = o /\ (Alive' => Alive)
             /\ n.sent \in {0, k.sent, k.sent + 1}
             /\ Alive' => /\ n.sent = k.sent \/ (n.sent = k.sent + 1 /\ k.sent = Len(o.got))
                          /\ \/ n.got = k.got
                             \/ n.got = Append(k.got, Len(k.got) + 1) /\ Len(k.got) < o.sent
<1>1. /\ Alive <=> con[e].flow /\ con[Other(e)].flow
      /\ Alive' <=> con'[e].flow /\ con'[Other(e)].flow
  BY TheOther, AliveBoth, AliveBothNext DEF Ends
<1> QED
  BY <1>1 DEF Progress

\* The device's fragments: each step of the device offers one, or breaks the
\* session, each step of the peer accepts the one offered, or breaks the session.
THEOREM ToPeerCorrect == Spec => ToPeer
<1> DEFINE s == con["dev"]
           r == con["peer"]
           acc == IF Alive THEN r.got ELSE <<>>
<1>1. Init => FromDevice!Init
  <2> SUFFICES ASSUME Init PROVE s.sent = 0 /\ acc = <<>> /\ Alive = FALSE
    BY DEF FromDevice!Init
  <2>1. s = Freed
    BY DEF Init, Ends
  <2>2. ~Alive
    BY <2>1, FreedEnd, AliveBoth
  <2> QED
    BY <2>1, <2>2, FreedEnd DEF Alive
<1>2. IInv /\ [Next]_vars => [FromDevice!Next]_<<s.sent, acc, Alive>>
  <2> SUFFICES ASSUME IInv, [Next]_vars
               PROVE  FromDevice!Next \/ UNCHANGED <<s.sent, acc, Alive>>
    OBVIOUS
  <2>0. Alive \in BOOLEAN /\ Alive' \in BOOLEAN
    BY DEF Alive
  <2>1. CASE UNCHANGED vars
    BY <2>1 DEF vars, Alive
  <2>2. CASE Accepts
    <3>1. s.sent = 0 /\ s'.sent = 0 /\ r'.sent = 0 /\ r.got = <<>> /\ r'.got = <<>> /\ ~Alive
      BY <2>2, FreedEnd, AliveBoth DEF Accepts, mbus_seqpkt_con_init
    <3>2. acc = <<>> /\ acc' = <<>>
      BY <3>1
    <3>3. CASE Alive'
      BY <2>0, <3>1, <3>2, <3>3, Zenon DEF FromDevice!Next, FromDevice!Join
    <3>4. CASE ~Alive'
      BY <2>0, <3>1, <3>2, <3>4, Zenon
    <3> QED
      BY <3>3, <3>4
  <2>3. CASE Progress("dev")
    <3>1. "dev" \in Ends /\ Other("dev") = "peer"
      BY TheOther DEF Ends
    <3>2. /\ r' = r /\ (Alive' => Alive) /\ s'.sent \in {0, s.sent, s.sent + 1}
          /\ Alive' => s'.sent = s.sent \/ (s'.sent = s.sent + 1 /\ s.sent = Len(r.got))
      BY <2>3, <3>1, SenderOrReceiver
    <3>3. CASE ~Alive'
      BY <2>0, <3>2, <3>3 DEF FromDevice!Next, FromDevice!Break
    <3>4. CASE Alive' /\ s'.sent = s.sent
      BY <2>0, <3>2, <3>4
    <3>5. CASE Alive' /\ s'.sent = s.sent + 1 /\ s.sent = Len(r.got)
      BY <2>0, <3>2, <3>5 DEF FromDevice!Next, FromDevice!Offer
    <3> QED
      BY <3>2, <3>3, <3>4, <3>5
  <2>4. CASE Progress("peer")
    <3>1. "peer" \in Ends /\ Other("peer") = "dev"
      BY TheOther DEF Ends
    <3>2. /\ s' = s /\ (Alive' => Alive)
          /\ Alive' => \/ r'.got = r.got
                       \/ r'.got = Append(r.got, Len(r.got) + 1) /\ Len(r.got) < s.sent
      BY <2>4, <3>1, SenderOrReceiver
    <3>3. CASE ~Alive'
      BY <2>0, <3>2, <3>3 DEF FromDevice!Next, FromDevice!Break
    <3>4. CASE Alive' /\ r'.got = r.got
      BY <2>0, <3>2, <3>4
    <3>5. CASE Alive' /\ r'.got = Append(r.got, Len(r.got) + 1) /\ Len(r.got) < s.sent
      BY <2>0, <3>2, <3>5 DEF FromDevice!Next, FromDevice!Accept
    <3> QED
      BY <3>2, <3>3, <3>4, <3>5
  <2> QED
    BY <2>1, <2>2, <2>3, <2>4, NextOk DEF Ends
<1> QED
  BY <1>1, <1>2, SeqpktInductive, PTL DEF Spec, ToPeer, FromDevice!Spec
\* The same for the peer's fragments.
THEOREM ToDeviceCorrect == Spec => ToDevice
<1> DEFINE s == con["peer"]
           r == con["dev"]
           acc == IF Alive THEN r.got ELSE <<>>
<1>1. Init => FromPeer!Init
  <2> SUFFICES ASSUME Init PROVE s.sent = 0 /\ acc = <<>> /\ Alive = FALSE
    BY DEF FromPeer!Init
  <2>1. r = Freed /\ s = [mbus_seqpkt_con_init EXCEPT !.cts = TRUE]
    BY DEF Init, Ends
  <2>2. ~Alive
    BY <2>1, FreedEnd, AliveBoth
  <2>3. s.sent = 0
    BY <2>1 DEF mbus_seqpkt_con_init
  <2> QED
    BY <2>2, <2>3 DEF Alive
<1>2. IInv /\ [Next]_vars => [FromPeer!Next]_<<s.sent, acc, Alive>>
  <2> SUFFICES ASSUME IInv, [Next]_vars
               PROVE  FromPeer!Next \/ UNCHANGED <<s.sent, acc, Alive>>
    OBVIOUS
  <2>0. Alive \in BOOLEAN /\ Alive' \in BOOLEAN
    BY DEF Alive
  <2>1. CASE UNCHANGED vars
    BY <2>1 DEF vars, Alive
  <2>2. CASE Accepts
    <3>1. s.sent = 0 /\ s'.sent = 0 /\ r'.sent = 0 /\ r.got = <<>> /\ r'.got = <<>> /\ ~Alive
      BY <2>2, FreedEnd, AliveBoth DEF Accepts, mbus_seqpkt_con_init
    <3>2. acc = <<>> /\ acc' = <<>>
      BY <3>1
    <3>3. CASE Alive'
      BY <2>0, <3>1, <3>2, <3>3, Zenon DEF FromPeer!Next, FromPeer!Join
    <3>4. CASE ~Alive'
      BY <2>0, <3>1, <3>2, <3>4, Zenon
    <3> QED
      BY <3>3, <3>4
  <2>3. CASE Progress("peer")
    <3>1. "peer" \in Ends /\ Other("peer") = "dev"
      BY TheOther DEF Ends
    <3>2. /\ r' = r /\ (Alive' => Alive) /\ s'.sent \in {0, s.sent, s.sent + 1}
          /\ Alive' => s'.sent = s.sent \/ (s'.sent = s.sent + 1 /\ s.sent = Len(r.got))
      BY <2>3, <3>1, SenderOrReceiver
    <3>3. CASE ~Alive'
      BY <2>0, <3>2, <3>3 DEF FromPeer!Next, FromPeer!Break
    <3>4. CASE Alive' /\ s'.sent = s.sent
      BY <2>0, <3>2, <3>4
    <3>5. CASE Alive' /\ s'.sent = s.sent + 1 /\ s.sent = Len(r.got)
      BY <2>0, <3>2, <3>5 DEF FromPeer!Next, FromPeer!Offer
    <3> QED
      BY <3>2, <3>3, <3>4, <3>5
  <2>4. CASE Progress("dev")
    <3>1. "dev" \in Ends /\ Other("dev") = "peer"
      BY TheOther DEF Ends
    <3>2. /\ s' = s /\ (Alive' => Alive)
          /\ Alive' => \/ r'.got = r.got
                       \/ r'.got = Append(r.got, Len(r.got) + 1) /\ Len(r.got) < s.sent
      BY <2>4, <3>1, SenderOrReceiver
    <3>3. CASE ~Alive'
      BY <2>0, <3>2, <3>3 DEF FromPeer!Next, FromPeer!Break
    <3>4. CASE Alive' /\ r'.got = r.got
      BY <2>0, <3>2, <3>4
    <3>5. CASE Alive' /\ r'.got = Append(r.got, Len(r.got) + 1) /\ Len(r.got) < s.sent
      BY <2>0, <3>2, <3>5 DEF FromPeer!Next, FromPeer!Accept
    <3> QED
      BY <3>2, <3>3, <3>4, <3>5
  <2> QED
    BY <2>1, <2>2, <2>3, <2>4, NextOk DEF Ends
<1> QED
  BY <1>1, <1>2, SeqpktInductive, PTL DEF Spec, ToDevice, FromPeer!Spec
\* While both ends have the flow, every fragment of either end is accepted once,
\* in order, whatever is lost and whenever buffers run out: one bit is enough
\* (the comparison in mbus_seqpkt_recv_data, release_txq, msc_new_fragment).
THEOREM BothWaysCorrect == Spec => BothWays
  BY ToPeerCorrect, ToDeviceCorrect, PTL DEF BothWays

\* So what ReliableLinkProofs shows of a link holds in both directions.
DeviceLink == INSTANCE ReliableLinkProofs WITH
  offered <- con["dev"].sent, accepted <- IF Alive THEN con["peer"].got ELSE <<>>, alive <- Alive
PeerLink == INSTANCE ReliableLinkProofs WITH
  offered <- con["peer"].sent, accepted <- IF Alive THEN con["dev"].got ELSE <<>>, alive <- Alive

\* At any time the peer has taken fragments 1, 2, 3 ... of the device in this
\* order, none twice and none left out, and the device those of the peer.
THEOREM DeliveredBothWays == Spec => [](FromDevice!Delivered /\ FromPeer!Delivered)
<1>1. ToPeer => []FromDevice!Delivered
  <2> DEFINE view == <<con["dev"].sent, IF Alive THEN con["peer"].got ELSE <<>>, Alive>>
  <2>1. FromDevice!Init => DeviceLink!Init
    BY Zenon DEF FromDevice!Init, DeviceLink!Init
  <2>2. [FromDevice!Next]_view => [DeviceLink!Next]_view
    BY Zenon DEF FromDevice!Next, FromDevice!Join, FromDevice!Offer, FromDevice!Accept, FromDevice!Break,
           DeviceLink!Next, DeviceLink!Join, DeviceLink!Offer, DeviceLink!Accept, DeviceLink!Break
  <2>3. DeviceLink!Delivered => FromDevice!Delivered
    BY Zenon DEF FromDevice!Delivered, DeviceLink!Delivered
  <2> QED
    BY <2>1, <2>2, <2>3, DeviceLink!DeliveredInOrder, PTL DEF ToPeer, FromDevice!Spec, DeviceLink!Spec
<1>2. ToDevice => []FromPeer!Delivered
  <2> DEFINE view == <<con["peer"].sent, IF Alive THEN con["dev"].got ELSE <<>>, Alive>>
  <2>1. FromPeer!Init => PeerLink!Init
    BY Zenon DEF FromPeer!Init, PeerLink!Init
  <2>2. [FromPeer!Next]_view => [PeerLink!Next]_view
    BY Zenon DEF FromPeer!Next, FromPeer!Join, FromPeer!Offer, FromPeer!Accept, FromPeer!Break,
           PeerLink!Next, PeerLink!Join, PeerLink!Offer, PeerLink!Accept, PeerLink!Break
  <2>3. PeerLink!Delivered => FromPeer!Delivered
    BY Zenon DEF FromPeer!Delivered, PeerLink!Delivered
  <2> QED
    BY <2>1, <2>2, <2>3, PeerLink!DeliveredInOrder, PTL DEF ToDevice, FromPeer!Spec, PeerLink!Spec
<1> QED
  BY <1>1, <1>2, ToPeerCorrect, ToDeviceCorrect, PTL
=============================================================================
