----------------------------- MODULE TcpProofs -----------------------------
(***************************************************************************)
(* Proofs about TCP (tcp.c), for fifos and segments of any size, any       *)
(* amount of data and any losses, repetitions and reordering: pointers     *)
(* stay in order, fifos are not overfilled, and no tcb is left without a   *)
(* timer.                                                                  *)
(***************************************************************************)
EXTENDS Tcp, FiniteSetTheorems, WellFoundedInduction, TLAPS

-----------------------------------------------------------------------------
(* The inductive invariant.                                                *)

Num == 0 .. SeqSpace - 1
States == Synced \cup {"CLOSED", "SYN_SENT", "SYN_RECEIVED"}
Signals == {"connect", "wnd_open", "emit", "flush", "close"}

Tcb ==
  [st : States, up : BOOLEAN, listed : BOOLEAN, app : BOOLEAN, done : BOOLEAN,
   psyn : {{}, {"SYN"}, {"SYN", "ACK"}}, pfin : BOOLEAN, fin : BOOLEAN, wclosed : BOOLEAN,
   lim : Nat, wr : Num, nxt : Num, una : Num, wnd : Nat, wl1 : Num, wl2 : Num,
   rd : Num, rnxt : Num, rtx : BOOLEAN, dack : BOOLEAN, tw : BOOLEAN,
   sig : SUBSET Signals, heard : BOOLEAN, sleeps : BOOLEAN, flushed : BOOLEAN,
   data : Nat, early : BOOLEAN]

\* The segments that may be on their way to e: none has data and a FIN, and
\* the service only answers SYNs.
SegTo(e) ==
  {s \in [seq : Num, ack : Num, flags : SUBSET {"SYN", "ACK", "PSH", "FIN", "RST"}, len : Nat, wnd : Nat] :
     /\ "FIN" \in s.flags => s.len = 0 /\ "SYN" \notin s.flags
     /\ e = "cli" /\ "SYN" \in s.flags => "ACK" \in s.flags}

\* What is under way is between una and wr, and there is room for the FIN.
TxOk(k) == InFlight(k) <= tcb_txfifo_used(k) /\ tcb_txfifo_used(k) <= TxSize + (IF k.pfin THEN 1 ELSE 0)
RxOk(k) == tcb_rxfifo_used(k) <= RxSize

\* On tcbs there are the connections that have a timer.
ListOk(k) ==
  /\ k.rtx \/ k.dack \/ k.tw => k.listed
  /\ k.listed => k.up /\ k.st # "CLOSED" /\ (IF k.st = "TIME_WAIT" THEN k.tw ELSE k.rtx)
  /\ k.st \notin {"CLOSED", "SYN_SENT"} => k.listed

\* The application closes once, and then writes no more.
CloseOk(k) ==
  /\ k.up /\ k.app => k.listed
  /\ (k.pfin => k.app) /\ (k.app => k.done)
  /\ "close" \in k.sig /\ k.up => k.done /\ ~k.app

\* Before and after tcp_do_connect.
SynOk(e, k) ==
  /\ e = "srv" => k.psyn # {"SYN"} /\ k.st # "SYN_SENT"
  /\ "connect" \in k.sig => k.st = "SYN_SENT" /\ ~k.listed
  /\ k.st = "SYN_SENT" => /\ k.una = Iss[e] /\ k.up /\ k.una # k.wr
                          /\ ~k.listed => "connect" \in k.sig /\ k.nxt = Iss[e]
                          /\ k.listed => k.psyn # {} /\ k.nxt = Plus(Iss[e], 1)

EndOk(e, k) == k \in Tcb /\ TxOk(k) /\ RxOk(k) /\ ListOk(k) /\ CloseOk(k) /\ SynOk(e, k)

IInv ==
  /\ faults \in Nat
  /\ tcb \in [Ends -> Tcb] /\ \A e \in Ends : EndOk(e, tcb[e])
  /\ DOMAIN wire = Ends /\ \A e \in Ends : wire[e] \in Seq(SegTo(e))

-----------------------------------------------------------------------------
(* Arithmetic of sequence numbers.                                         *)

LEMMA Sizes ==
  /\ SeqSpace \in Nat /\ TxSize \in Nat /\ RxSize \in Nat /\ Mss \in Nat /\ RejectMax \in Nat
  /\ TxSize > 0 /\ RxSize > 0 /\ Mss > 0 /\ RxSize < SeqSpace
  /\ 2 * (TxSize + 1) < SeqSpace
  /\ \A e \in Ends : Iss[e] \in Num
  BY TcpConstants DEF Ends, Num

LEMMA ModBelow == ASSUME NEW a \in Nat, NEW n \in Nat \ {0}, a < n PROVE a % n = a
  OBVIOUS

LEMMA ModAbove == ASSUME NEW a \in Int, NEW n \in Nat \ {0}, n <= a, a < 2 * n PROVE a % n = a - n
  OBVIOUS

LEMMA ModNegative == ASSUME NEW a \in Int, NEW n \in Nat \ {0}, a < 0, 0 <= a + n PROVE a % n = a + n
  OBVIOUS

LEMMA PlusIs ==
  ASSUME NEW a \in Num, NEW n \in Nat, n <= SeqSpace
  PROVE  Plus(a, n) \in Num /\ Plus(a, n) = IF a + n < SeqSpace THEN a + n ELSE a + n - SeqSpace
<1>1. SeqSpace \in Nat \ {0} /\ a \in Nat /\ a < SeqSpace /\ a + n \in Nat
  BY Sizes DEF Num
<1>2. CASE a + n < SeqSpace
  BY <1>1, <1>2, ModBelow DEF Plus, Num
<1>3. CASE ~(a + n < SeqSpace)
  <2>0. a + n \in Int /\ SeqSpace <= a + n /\ a + n < 2 * SeqSpace
    BY <1>1, <1>3
  <2>1. \A c \in Int : SeqSpace <= c /\ c < 2 * SeqSpace => c % SeqSpace = c - SeqSpace
    BY <1>1, ModAbove
  <2> QED BY <1>1, <1>3, <2>0, <2>1 DEF Plus, Num
<1> QED BY <1>2, <1>3

LEMMA MinusIs ==
  ASSUME NEW a \in Num, NEW b \in Num
  PROVE  Minus(a, b) \in Num /\ Minus(a, b) = IF a >= b THEN a - b ELSE a - b + SeqSpace
<1>1. SeqSpace \in Nat \ {0} /\ a \in Nat /\ b \in Nat /\ a < SeqSpace /\ b < SeqSpace /\ a - b \in Int
  BY Sizes DEF Num
<1>2. CASE a >= b
  BY <1>1, <1>2, ModBelow DEF Minus, Num
<1>3. CASE ~(a >= b)
  <2>1. (a - b) % SeqSpace = a - b + SeqSpace
    BY <1>1, <1>3, ModNegative
  <2> QED BY <1>1, <1>3, <2>1 DEF Minus, Num
<1> QED BY <1>2, <1>3

LEMMA MinusNat == ASSUME NEW a \in Num, NEW b \in Num PROVE Minus(a, b) \in Nat /\ Minus(a, b) < SeqSpace
<1>1. Minus(a, b) \in Num
  BY MinusIs
<1> QED BY <1>1, Sizes DEF Num

LEMMA SignedIs ==
  ASSUME NEW a \in Num, NEW b \in Num
  PROVE  /\ Signed(a, b) \in Int
         /\ Signed(a, b) >= 0 => Signed(a, b) = Minus(a, b) /\ 2 * Minus(a, b) < SeqSpace
         /\ Signed(a, b) < 0 => 2 * Minus(a, b) >= SeqSpace
         /\ 2 * Minus(a, b) < SeqSpace => Signed(a, b) = Minus(a, b)
<1>1. Minus(a, b) \in Num /\ SeqSpace \in Nat
  BY MinusIs, Sizes
<1> QED BY <1>1 DEF Signed, Num

LEMMA MinOfTwo == ASSUME NEW a \in Int, NEW b \in Int PROVE Min({a, b}) = IF a <= b THEN a ELSE b
<1>1. \E x \in {a, b} : \A y \in {a, b} : x <= y
  OBVIOUS
<1> QED BY <1>1 DEF Min

LEMMA MaxOfTwo == ASSUME NEW a \in Int, NEW b \in Int PROVE Max({a, b}) = IF a >= b THEN a ELSE b
<1>1. \E x \in {a, b} : \A y \in {a, b} : x >= y
  OBVIOUS
<1> QED BY <1>1 DEF Max

\* Numbers are moved on by no more than what is between them and the next.
LEMMA MoveUp ==
  ASSUME NEW a \in Num, NEW b \in Num, NEW n \in Nat, n <= Minus(b, a)
  PROVE  Plus(a, n) \in Num /\ Minus(b, Plus(a, n)) = Minus(b, a) - n
<1>1. Minus(b, a) \in Num /\ Minus(b, a) = IF b >= a THEN b - a ELSE b - a + SeqSpace
  BY MinusIs
<1>2. n <= SeqSpace
  BY <1>1, Sizes DEF Num
<1>3. Plus(a, n) \in Num /\ Plus(a, n) = IF a + n < SeqSpace THEN a + n ELSE a + n - SeqSpace
  BY <1>2, PlusIs
<1>4. Minus(b, Plus(a, n)) = IF b >= Plus(a, n) THEN b - Plus(a, n) ELSE b - Plus(a, n) + SeqSpace
  BY <1>3, MinusIs
<1> QED BY <1>1, <1>3, <1>4, Sizes DEF Num

LEMMA MoveAway ==
  ASSUME NEW a \in Num, NEW b \in Num, NEW n \in Nat, Minus(b, a) + n < SeqSpace
  PROVE  Plus(b, n) \in Num /\ Minus(Plus(b, n), a) = Minus(b, a) + n
<1>1. Minus(b, a) \in Num /\ Minus(b, a) = IF b >= a THEN b - a ELSE b - a + SeqSpace
  BY MinusIs
<1>2. n <= SeqSpace
  BY <1>1, Sizes DEF Num
<1>3. Plus(b, n) \in Num /\ Plus(b, n) = IF b + n < SeqSpace THEN b + n ELSE b + n - SeqSpace
  BY <1>2, PlusIs
<1>4. Minus(Plus(b, n), a) = IF Plus(b, n) >= a THEN Plus(b, n) - a ELSE Plus(b, n) - a + SeqSpace
  BY <1>3, MinusIs
<1> QED BY <1>1, <1>3, <1>4, Sizes DEF Num

\* una <= nxt <= wr in the order that begins at una.
LEMMA InOrder ==
  ASSUME NEW una \in Num, NEW nxt \in Num, NEW wr \in Num, Minus(nxt, una) <= Minus(wr, una)
  PROVE  /\ Minus(wr, nxt) = Minus(wr, una) - Minus(nxt, una)
         /\ Minus(wr, nxt) \in Num /\ Minus(wr, una) \in Num /\ Minus(nxt, una) \in Num
<1>1. /\ Minus(wr, nxt) \in Num /\ Minus(wr, una) \in Num /\ Minus(nxt, una) \in Num
      /\ Minus(wr, nxt) = IF wr >= nxt THEN wr - nxt ELSE wr - nxt + SeqSpace
      /\ Minus(wr, una) = IF wr >= una THEN wr - una ELSE wr - una + SeqSpace
      /\ Minus(nxt, una) = IF nxt >= una THEN nxt - una ELSE nxt - una + SeqSpace
  BY MinusIs
<1> QED BY <1>1, Sizes DEF Num

LEMMA SameIsZero == ASSUME NEW a \in Num, NEW b \in Num PROVE Minus(a, b) = 0 <=> a = b
<1>1. Minus(a, b) = IF a >= b THEN a - b ELSE a - b + SeqSpace
  BY MinusIs
<1> QED BY <1>1, Sizes DEF Num

-----------------------------------------------------------------------------
(* Sending.                                                                *)

LEMMA TheOther == \A e \in Ends : Other(e) \in Ends /\ Other(e) # e
<1> SUFFICES ASSUME NEW e \in Ends PROVE Other(e) \in Ends /\ Other(e) # e
  OBVIOUS
<1>1. \E o \in Ends : o # e
  BY DEF Ends
<1> QED
  BY <1>1, Zenon DEF Other

\* An end with what it sends in one step.
Sends(e) == [k : Tcb, e : {e}, pool : BOOLEAN, out : Seq(SegTo(Other(e)))]

Fits(e, flags, len) ==
  /\ flags \in SUBSET {"SYN", "ACK", "PSH", "FIN", "RST"} /\ len \in Nat
  /\ "FIN" \in flags => len = 0 /\ "SYN" \notin flags
  /\ e = "srv" /\ "SYN" \in flags => "ACK" \in flags

LEMMA Avail == ASSUME NEW k \in Tcb PROVE tcb_rxfifo_avail(k) \in Num /\ tcb_rxfifo_avail(k) \in Nat
<1>1. k.rnxt \in Num /\ k.rd \in Num /\ RxSize \in Num
  BY Sizes DEF Tcb, Num
<1>2. tcb_rxfifo_used(k) \in Num
  BY <1>1, MinusIs DEF tcb_rxfifo_used
<1>3. tcb_rxfifo_avail(k) \in Num
  BY <1>1, <1>2, MinusIs DEF tcb_rxfifo_avail
<1> QED BY <1>3, Sizes DEF Num

LEMMA Fitting ==
  ASSUME NEW e \in Ends, NEW seq \in Num, NEW ack \in Num, NEW flags, NEW len, Fits(e, flags, len), NEW wnd \in Nat
  PROVE  [seq |-> seq, ack |-> ack, flags |-> flags, len |-> len, wnd |-> wnd] \in SegTo(Other(e))
  BY TheOther DEF SegTo, Fits, Ends

LEMMA Added ==
  ASSUME NEW e \in Ends, NEW x \in Sends(e), NEW s \in SegTo(Other(e))
  PROVE  [x EXCEPT !.out = Append(@, s)] \in Sends(e) /\ [x EXCEPT !.out = Append(@, s)].k = x.k
<1>1. Append(x.out, s) \in Seq(SegTo(Other(e)))
  BY DEF Sends
<1> QED BY <1>1 DEF Sends

LEMMA Outputs ==
  ASSUME NEW e \in Ends, NEW x \in Sends(e), NEW seq \in Num, NEW flags, NEW len, Fits(e, flags, len)
  PROVE  tcp_output_tcb(x, seq, flags, len) \in Sends(e) /\ tcp_output_tcb(x, seq, flags, len).k = x.k
<1>1. x.k \in Tcb /\ x.k.rnxt \in Num
  BY DEF Sends, Tcb
<1>2. tcb_rxfifo_avail(x.k) \in Nat
  BY <1>1, Avail
<1>3. Segment(x.k, seq, flags, len) \in SegTo(Other(e))
  BY <1>1, <1>2, Fitting DEF Segment
<1> QED BY <1>3, Added DEF tcp_output_tcb

LEMMA Replies ==
  ASSUME NEW e \in Ends, NEW x \in Sends(e), NEW seq \in Num, NEW ack \in Num, NEW flags, Fits(e, flags, 0),
         NEW wnd \in Nat
  PROVE  Reply(x, seq, ack, flags, wnd) \in Sends(e) /\ Reply(x, seq, ack, flags, wnd).k = x.k
<1>1. [seq |-> seq, ack |-> ack, flags |-> flags, len |-> 0, wnd |-> wnd] \in SegTo(Other(e))
  BY Fitting
<1> QED BY <1>1, Added DEF Reply

LEMMA Changed ==
  ASSUME NEW e \in Ends, NEW x \in Sends(e), NEW k \in Tcb
  PROVE  On(x, k) \in Sends(e) /\ On(x, k).k = k /\ On(x, k).e = e /\ On(x, k).out = x.out
  BY DEF Sends, On

LEMMA RoomIsNat == ASSUME NEW k \in Tcb PROVE Room(k) \in Nat /\ InFlight(k) \in Nat
<1>1. k.nxt \in Num /\ k.una \in Num /\ k.wnd \in Nat
  BY DEF Tcb
<1>2. InFlight(k) \in Nat
  BY <1>1, MinusNat DEF InFlight
<1> QED BY <1>1, <1>2, MaxOfTwo DEF Room

\* What tcp_emit changes of a tcb.
Emitted(k, r) ==
  \E nxt \in Num, early \in BOOLEAN, dack \in BOOLEAN :
    /\ r = [k EXCEPT !.dack = dack, !.nxt = nxt, !.early = early]
    /\ dack => k.dack
    /\ Minus(nxt, k.una) <= Minus(k.wr, k.una)
    /\ k.psyn # {} => nxt = k.nxt

LEMMA Emits ==
  ASSUME NEW e \in Ends, NEW x \in Sends(e), InFlight(x.k) <= tcb_txfifo_used(x.k), e = "srv" => x.k.psyn # {"SYN"},
         NEW seq \in {x.k.nxt, x.k.una}, NEW g \in BOOLEAN
  PROVE  tcp_emit(x, seq, g) \in Sends(e) /\ Emitted(x.k, tcp_emit(x, seq, g).k)
<1> DEFINE k == [x.k EXCEPT !.dack = FALSE]
           fifo == Minus(k.wr, seq)
           n == IF seq = k.nxt THEN Min({fifo, Room(k)}) ELSE fifo
           len == Min({Mss, IF k.pfin THEN n - 1 ELSE n})
<1>0. x.k \in Tcb /\ x.e = e
  BY DEF Sends
<1>1. /\ k \in Tcb /\ k.wr = x.k.wr /\ k.nxt = x.k.nxt /\ k.una = x.k.una /\ k.psyn = x.k.psyn /\ k.pfin = x.k.pfin
      /\ k.wr \in Num /\ k.nxt \in Num /\ k.una \in Num /\ k.pfin \in BOOLEAN /\ k.early \in BOOLEAN
      /\ k.psyn \in {{}, {"SYN"}, {"SYN", "ACK"}} /\ seq \in Num
  BY <1>0 DEF Tcb
<1>2. /\ fifo \in Nat /\ n \in Nat /\ n <= fifo
  <2>1. fifo \in Nat
    BY <1>1, MinusNat
  <2>2. Room(k) \in Nat
    BY <1>1, RoomIsNat
  <2> HIDE DEF fifo, k
  <2>3. Min({fifo, Room(k)}) \in Nat /\ Min({fifo, Room(k)}) <= fifo
    BY <2>1, <2>2, MinOfTwo
  <2> QED BY <2>1, <2>3
<1>3. x.k.nxt \in Num /\ Minus(x.k.nxt, x.k.una) <= Minus(x.k.wr, x.k.una)
  BY <1>1 DEF InFlight, tcb_txfifo_used
<1>4. On(x, k) \in Sends(e) /\ On(x, k).k = k
  BY <1>1, Changed
<1>5. ASSUME NEW nxt \in Num, NEW early \in BOOLEAN, NEW r, r = [k EXCEPT !.nxt = nxt, !.early = early],
             Minus(nxt, x.k.una) <= Minus(x.k.wr, x.k.una), x.k.psyn # {} => nxt = x.k.nxt
      PROVE  Emitted(x.k, r) /\ r \in Tcb
  <2>1. r = [x.k EXCEPT !.dack = FALSE, !.nxt = nxt, !.early = early]
    BY <1>5, <1>0 DEF Tcb
  <2>2. r \in Tcb
    BY <1>1, <1>5, ZenonT(60) DEF Tcb
  <2> QED BY <2>1, <2>2, <1>5 DEF Emitted
<1>6. Emitted(x.k, k)
  <2>1. k = [k EXCEPT !.nxt = x.k.nxt, !.early = k.early]
    BY <1>1 DEF Tcb
  <2> QED BY <2>1, <1>1, <1>3, <1>5
<1> HIDE DEF k, fifo, n, len
<1>11. CASE ~x.pool
  <2>1. tcp_emit(x, seq, g) = x
    BY <1>11 DEF tcp_emit
  <2>2. x.k = [x.k EXCEPT !.dack = x.k.dack, !.nxt = x.k.nxt, !.early = x.k.early]
        /\ x.k.dack \in BOOLEAN /\ x.k.early \in BOOLEAN
    BY <1>0 DEF Tcb
  <2>3. Emitted(x.k, x.k)
    BY <2>2, <1>3, Zenon DEF Emitted
  <2> QED BY <2>1, <2>3
<1>7. CASE x.pool /\ k.psyn # {}
  <2>1. Fits(e, k.psyn, 0)
    BY <1>1 DEF Fits, Ends
  <2>2. Iss[x.e] \in Num
    BY <1>0, Sizes
  <2>3. tcp_emit(x, seq, g) = tcp_output_tcb(On(x, k), Iss[x.e], k.psyn, 0)
    BY <1>7 DEF tcp_emit, k
  <2> QED BY <2>1, <2>2, <2>3, <1>4, <1>6, Outputs
<1>8. CASE x.pool /\ k.psyn = {} /\ n = 0
  <2>1. Fits(e, {"ACK"}, 0)
    BY DEF Fits
  <2>2. tcp_emit(x, seq, g) = IF g THEN tcp_output_tcb(On(x, k), seq, {"ACK"}, 0) ELSE On(x, k)
    BY <1>8 DEF tcp_emit, k, n, fifo
  <2> QED BY <2>1, <2>2, <1>1, <1>4, <1>6, Outputs
<1>9. CASE x.pool /\ k.psyn = {} /\ n # 0 /\ k.pfin /\ n = 1
  <2> DEFINE r == [k EXCEPT !.nxt = k.wr, !.early = @ \/ fifo > 1]
  <2>1. Fits(e, {"FIN", "ACK"}, 0)
    BY DEF Fits
  <2>2. tcp_emit(x, seq, g) = tcp_output_tcb(On(x, r), seq, {"FIN", "ACK"}, 0)
    BY <1>9 DEF tcp_emit, k, n, fifo
  <2>3. (k.early \/ fifo > 1) \in BOOLEAN /\ r = [k EXCEPT !.nxt = k.wr, !.early = (k.early \/ fifo > 1)]
    BY <1>1
  <2>4. Minus(k.wr, x.k.una) <= Minus(x.k.wr, x.k.una)
    BY <1>1, MinusNat
  <2>5. Emitted(x.k, r) /\ r \in Tcb
    BY <1>1, <1>5, <1>9, <2>3, <2>4
  <2> HIDE DEF r
  <2>6. On(x, r) \in Sends(e) /\ On(x, r).k = r
    BY <2>5, Changed
  <2> QED BY <2>1, <2>2, <2>5, <2>6, <1>1, Outputs
<1>10. CASE x.pool /\ k.psyn = {} /\ n # 0 /\ ~(k.pfin /\ n = 1)
  <2> DEFINE r == [k EXCEPT !.nxt = IF @ = seq THEN Plus(@, len) ELSE @]
             o == tcp_output_tcb(On(x, k), seq, {"PSH", "ACK"}, len)
  <2>1. len \in Nat /\ len <= n
    <3>1. Mss \in Nat
      BY Sizes
    <3>2. PICK m : m = IF k.pfin THEN n - 1 ELSE n
      OBVIOUS
    <3>3. m \in Nat /\ m <= n
      BY <1>1, <1>2, <1>10, <3>2
    <3>4. len = Min({Mss, m})
      BY <3>2, Zenon DEF len
    <3> HIDE DEF len
    <3>5. len = IF Mss <= m THEN Mss ELSE m
      BY <3>1, <3>3, <3>4, MinOfTwo
    <3> QED BY <3>1, <3>3, <3>5, <1>2
  <2>2. Fits(e, {"PSH", "ACK"}, len)
    BY <2>1 DEF Fits
  <2>3. tcp_emit(x, seq, g) = On(o, r)
    BY <1>10 DEF tcp_emit, k, n, fifo, len
  <2>4. o \in Sends(e) /\ o.k = k
    BY <2>2, <1>1, <1>4, Outputs
  <2> DEFINE nx == IF k.nxt = seq THEN Plus(k.nxt, len) ELSE k.nxt
  <2>5. nx \in Num /\ Minus(nx, x.k.una) <= Minus(x.k.wr, x.k.una)
    <3>1. CASE k.nxt = seq
      <4>1. len <= Minus(k.wr, k.nxt)
        BY <3>1, <2>1, <1>2 DEF fifo
      <4>2. /\ Minus(k.wr, k.nxt) = Minus(k.wr, k.una) - Minus(k.nxt, k.una)
            /\ Minus(k.wr, k.una) \in Num /\ Minus(k.nxt, k.una) \in Num
        BY <1>1, <1>3, InOrder
      <4>3. Minus(k.nxt, k.una) + len <= Minus(k.wr, k.una)
        BY <4>1, <4>2, <2>1, Sizes DEF Num
      <4>4. Minus(k.nxt, k.una) + len < SeqSpace
        BY <4>2, <4>3, <2>1, Sizes DEF Num
      <4>5. Plus(k.nxt, len) \in Num /\ Minus(Plus(k.nxt, len), k.una) = Minus(k.nxt, k.una) + len
        BY <4>4, <1>1, <2>1, MoveAway
      <4> QED BY <4>3, <4>5, <3>1, <1>1
    <3>2. CASE k.nxt # seq
      BY <3>2, <1>1, <1>3
    <3> QED BY <3>1, <3>2
  <2>6. r = [k EXCEPT !.nxt = nx, !.early = k.early]
    BY <1>1 DEF Tcb
  <2> HIDE DEF r, nx, o
  <2>7. Emitted(x.k, r) /\ r \in Tcb
    BY <1>1, <1>5, <1>10, <2>5, <2>6
  <2> QED BY <2>3, <2>4, <2>7, Changed
<1>12. x.pool \in BOOLEAN
  BY DEF Sends
<1> QED BY <1>7, <1>8, <1>9, <1>10, <1>11, <1>12

\* What handlers leave alone until the application's requests are looked at.
Same(k, r) == r.app = k.app /\ r.done = k.done /\ r.sig = k.sig /\ r.up = k.up

LEMMA EmitKeeps ==
  ASSUME NEW e \in Ends, NEW k, EndOk(e, k), k.listed \/ k.st # "SYN_SENT", NEW r, Emitted(k, r)
  PROVE  /\ EndOk(e, r) /\ Same(k, r) /\ r.st = k.st /\ r.listed = k.listed /\ r.psyn = k.psyn
         /\ r.una = k.una /\ r.wr = k.wr /\ r.rnxt = k.rnxt /\ r.rd = k.rd
<1>1. PICK nxt \in Num, early \in BOOLEAN, dack \in BOOLEAN :
        /\ r = [k EXCEPT !.dack = dack, !.nxt = nxt, !.early = early]
        /\ dack => k.dack
        /\ Minus(nxt, k.una) <= Minus(k.wr, k.una)
        /\ k.psyn # {} => nxt = k.nxt
  BY Zenon DEF Emitted
<1>2. k \in Tcb
  BY DEF EndOk
<1>3. /\ r \in Tcb /\ r.nxt = nxt /\ (r.dack => k.dack)
      /\ Same(k, r) /\ r.st = k.st /\ r.listed = k.listed /\ r.psyn = k.psyn /\ r.pfin = k.pfin
      /\ r.una = k.una /\ r.wr = k.wr /\ r.rnxt = k.rnxt /\ r.rd = k.rd /\ r.rtx = k.rtx /\ r.tw = k.tw
  BY <1>1, <1>2, ZenonT(60) DEF Tcb, Same
<1>4. TxOk(r) /\ RxOk(r)
  BY <1>1, <1>3 DEF EndOk, TxOk, RxOk, InFlight, tcb_txfifo_used, tcb_rxfifo_used
<1>5. ListOk(r) /\ CloseOk(r)
  BY <1>3 DEF EndOk, ListOk, CloseOk, Same
<1>6. SynOk(e, r)
  BY <1>1, <1>3 DEF EndOk, SynOk, Same
<1> QED BY <1>3, <1>4, <1>5, <1>6 DEF EndOk

\* An end in order, with what it sends.
Good(e) == {x \in Sends(e) : EndOk(e, x.k)}

LEMMA EmitGood ==
  ASSUME NEW e \in Ends, NEW x \in Good(e), x.k.listed \/ x.k.st # "SYN_SENT",
         NEW seq \in {x.k.nxt, x.k.una}, NEW g \in BOOLEAN
  PROVE  LET r == tcp_emit(x, seq, g).k
             k == x.k IN
         /\ tcp_emit(x, seq, g) \in Good(e)
         /\ Same(k, r) /\ r.st = k.st /\ r.listed = k.listed /\ r.psyn = k.psyn
         /\ r.una = k.una /\ r.wr = k.wr /\ r.rnxt = k.rnxt /\ r.rd = k.rd
<1>1. x \in Sends(e) /\ EndOk(e, x.k)
  BY DEF Good
<1>2. InFlight(x.k) <= tcb_txfifo_used(x.k) /\ (e = "srv" => x.k.psyn # {"SYN"})
  BY <1>1 DEF EndOk, TxOk, SynOk
<1>3. tcp_emit(x, seq, g) \in Sends(e) /\ Emitted(x.k, tcp_emit(x, seq, g).k)
  BY <1>1, <1>2, Emits
<1> QED BY <1>1, <1>3, EmitKeeps DEF Good

LEMMA AnswerGood ==
  ASSUME NEW e \in Ends, NEW x \in Good(e), x.k.st # "SYN_SENT"
  PROVE  /\ tcp_emit(x, x.k.nxt, TRUE) \in Good(e)
         /\ tcp_emit(x, x.k.nxt, TRUE).k.listed = x.k.listed
         /\ tcp_emit(x, x.k.nxt, TRUE).k.st = x.k.st
  BY EmitGood

LEMMA OnGood ==
  ASSUME NEW e \in Ends, NEW x \in Good(e), NEW k, EndOk(e, k)
  PROVE  On(x, k) \in Good(e) /\ On(x, k).k = k
  BY Changed DEF Good, EndOk

LEMMA ReplyGood ==
  ASSUME NEW e \in Ends, NEW x \in Good(e), NEW seq \in Num, NEW ack \in Num, NEW flags, Fits(e, flags, 0),
         NEW wnd \in Nat
  PROVE  Reply(x, seq, ack, flags, wnd) \in Good(e)
  BY Replies DEF Good

-----------------------------------------------------------------------------
(* The life of a tcb.                                                      *)

LEMMA StateNames ==
  /\ \A st \in {"CLOSED", "SYN_SENT", "SYN_RECEIVED"} : st \in States /\ st \notin EmitStates
  /\ \A st \in {"ESTABLISHED", "FIN_WAIT1", "FIN_WAIT2", "CLOSE_WAIT", "CLOSING", "LAST_ACK", "TIME_WAIT"} : st \in States
  BY DEF States, Synced, EmitStates

LEMMA Created ==
  ASSUME NEW e \in Ends
  PROVE  tcb_create(e) \in Tcb /\ Freed(e) \in Tcb /\ TxOk(Freed(e)) /\ RxOk(Freed(e))
         /\ Plus(Iss[e], 1) \in Num /\ Minus(Plus(Iss[e], 1), Iss[e]) = 1 /\ Minus(Iss[e], Iss[e]) = 0
<1>1. Iss[e] \in Num /\ 0 \in Num /\ 1 <= SeqSpace /\ {} \in SUBSET Signals
  BY Sizes DEF Num
<1>2. Plus(Iss[e], 1) \in Num /\ Minus(Iss[e], Iss[e]) = 0 /\ Minus(0, 0) = 0
  BY <1>1, PlusIs, SameIsZero
<1>3. Minus(Plus(Iss[e], 1), Iss[e]) = Minus(Iss[e], Iss[e]) + 1
  BY <1>1, <1>2, MoveAway, Sizes
<1>4. tcb_create(e) \in Tcb
  BY <1>1, <1>2 DEF tcb_create, Tcb, States, Synced
<1>5. /\ Freed(e) \in Tcb
      /\ Freed(e).wr = Iss[e] /\ Freed(e).nxt = Iss[e] /\ Freed(e).una = Iss[e] /\ Freed(e).pfin = FALSE
      /\ Freed(e).rd = 0 /\ Freed(e).rnxt = 0
  <2> DEFINE c == tcb_create(e)
  <2>1. c \in Tcb /\ c.nxt = Iss[e] /\ c.una = Iss[e] /\ c.pfin = FALSE /\ c.rd = 0 /\ c.rnxt = 0
    BY <1>4 DEF tcb_create
  <2> HIDE DEF c
  <2>2. Freed(e) = [c EXCEPT !.up = FALSE, !.done = TRUE, !.wr = Iss[e]]
    BY DEF Freed, c
  <2> QED BY <1>1, <2>1, <2>2, ZenonT(60) DEF Tcb
<1> QED
  BY <1>2, <1>3, <1>4, <1>5, Sizes DEF TxOk, RxOk, InFlight, tcb_txfifo_used, tcb_rxfifo_used

LEMMA FreedGood ==
  ASSUME NEW e \in Ends, NEW sig \in SUBSET Signals, "connect" \notin sig
  PROVE  EndOk(e, [Freed(e) EXCEPT !.sig = sig])
<1> DEFINE r == [Freed(e) EXCEPT !.sig = sig]
<1>1. /\ r \in Tcb /\ r.st = "CLOSED" /\ ~r.up /\ ~r.listed /\ ~r.app /\ r.done /\ r.psyn = {} /\ ~r.pfin
      /\ r.sig = sig /\ ~r.rtx /\ ~r.dack /\ ~r.tw
      /\ r.wr = Freed(e).wr /\ r.nxt = Freed(e).nxt /\ r.una = Freed(e).una /\ r.pfin = Freed(e).pfin
      /\ r.rd = Freed(e).rd /\ r.rnxt = Freed(e).rnxt
  <2>1. Freed(e) \in Tcb
    BY Created
  <2>2. /\ Freed(e).st = "CLOSED" /\ ~Freed(e).up /\ ~Freed(e).listed /\ ~Freed(e).app /\ Freed(e).done
        /\ Freed(e).psyn = {} /\ ~Freed(e).pfin /\ ~Freed(e).rtx /\ ~Freed(e).dack /\ ~Freed(e).tw
    BY DEF Freed, tcb_create
  <2> QED BY <2>1, <2>2 DEF Tcb
<1> HIDE DEF r
<1>2. TxOk(r) /\ RxOk(r)
  BY <1>1, Created DEF TxOk, RxOk, InFlight, tcb_txfifo_used, tcb_rxfifo_used
<1> QED BY <1>1, <1>2 DEF EndOk, ListOk, CloseOk, SynOk, r

\* tcp_close leaves no timer behind, and tcp_destroy frees what nobody holds.
LEMMA CloseGood ==
  ASSUME NEW e \in Ends, NEW x \in Good(e), x.k.listed
  PROVE  tcp_close(x) \in Good(e)
<1> DEFINE c == [x.k EXCEPT !.st = "CLOSED", !.listed = FALSE, !.rtx = FALSE, !.dack = FALSE,
                            !.tw = FALSE, !.sleeps = FALSE]
<1>1. x.k \in Tcb /\ x.e = e /\ EndOk(e, x.k)
  BY DEF Good, Sends
<1>2. /\ c \in Tcb /\ c.st = "CLOSED" /\ ~c.listed /\ ~c.rtx /\ ~c.dack /\ ~c.tw
      /\ Same(x.k, c) /\ c.psyn = x.k.psyn /\ c.pfin = x.k.pfin /\ c.wr = x.k.wr /\ c.nxt = x.k.nxt
      /\ c.una = x.k.una /\ c.rd = x.k.rd /\ c.rnxt = x.k.rnxt
  <2>1. x.k \in Tcb /\ "CLOSED" \in States
    BY <1>1, StateNames
  <2>2. c \in Tcb
    <3> DEFINE a == [x.k EXCEPT !.st = "CLOSED", !.listed = FALSE, !.rtx = FALSE]
    <3>1. a \in Tcb
      BY <2>1, ZenonT(60) DEF Tcb
    <3>2. c = [a EXCEPT !.dack = FALSE, !.tw = FALSE, !.sleeps = FALSE]
      OBVIOUS
    <3> HIDE DEF a, c
    <3> QED BY <3>1, <3>2, ZenonT(60) DEF Tcb
  <2>3. /\ c.st = "CLOSED" /\ ~c.listed /\ ~c.rtx /\ ~c.dack /\ ~c.tw
        /\ c.app = x.k.app /\ c.done = x.k.done /\ c.sig = x.k.sig /\ c.up = x.k.up
        /\ c.psyn = x.k.psyn /\ c.pfin = x.k.pfin /\ c.wr = x.k.wr /\ c.nxt = x.k.nxt
        /\ c.una = x.k.una /\ c.rd = x.k.rd /\ c.rnxt = x.k.rnxt
    BY <2>1 DEF Tcb
  <2> QED BY <2>2, <2>3 DEF Same
<1> HIDE DEF c
<1>3. "connect" \notin c.sig /\ c.sig \in SUBSET Signals
  BY <1>1, <1>2 DEF EndOk, SynOk, Same, Tcb
<1>4. CASE c.app
  <2>1. tcp_destroy(c, e) = [Freed(e) EXCEPT !.sig = c.sig]
    BY <1>2, <1>4 DEF tcp_destroy
  <2>2. tcp_close(x) = On(x, tcp_destroy(c, e))
    BY <1>1 DEF tcp_close, c
  <2> QED BY <1>3, <2>1, <2>2, FreedGood, OnGood
<1>5. CASE ~c.app
  <2>1. tcp_close(x) = On(x, c)
    BY <1>1, <1>5 DEF tcp_close, tcp_destroy, c
  <2>2. TxOk(c) /\ RxOk(c)
    BY <1>1, <1>2 DEF EndOk, TxOk, RxOk, InFlight, tcb_txfifo_used, tcb_rxfifo_used
  <2>3. ListOk(c) /\ CloseOk(c) /\ SynOk(e, c)
    BY <1>1, <1>2, <1>3, <1>5 DEF EndOk, ListOk, CloseOk, SynOk, Same
  <2> QED BY <1>2, <2>1, <2>2, <2>3, OnGood DEF EndOk
<1> QED BY <1>4, <1>5

\* A SYN is counted as the first byte under way, and armed for.
LEMMA SynSends ==
  ASSUME NEW e \in Ends, NEW x \in Sends(e), x.k.nxt = x.k.una, x.k.una # x.k.wr,
         NEW flags \in {{"SYN"}, {"SYN", "ACK"}}, e = "srv" => flags = {"SYN", "ACK"}
  PROVE  LET y == tcp_send_syn(x, flags) IN
         /\ y \in Sends(e) /\ Same(x.k, y.k) /\ y.k.st = x.k.st /\ y.k.listed = x.k.listed
         /\ y.k.psyn = flags /\ y.k.pfin = x.k.pfin /\ y.k.wr = x.k.wr /\ y.k.una = x.k.una
         /\ y.k.nxt = Plus(x.k.una, 1) /\ Minus(y.k.nxt, y.k.una) <= Minus(y.k.wr, y.k.una)
         /\ y.k.rd = x.k.rd /\ y.k.rnxt = x.k.rnxt /\ y.k.rtx /\ (y.k.dack => x.k.dack) /\ y.k.tw = x.k.tw
<1> DEFINE k == [ArmIfIdle(x.k) EXCEPT !.psyn = flags, !.nxt = Plus(@, 1)]
           y == tcp_send_syn(x, flags)
<1>1. x.k \in Tcb
  BY DEF Sends
<1>2. x.k.una \in Num /\ x.k.wr \in Num /\ x.k.nxt \in Num
  BY <1>1 DEF Tcb
<1>3. /\ Plus(x.k.una, 1) \in Num /\ Minus(Plus(x.k.una, 1), x.k.una) = 1
      /\ Minus(x.k.wr, x.k.una) \in Nat /\ Minus(x.k.wr, x.k.una) # 0
  <2>1. Minus(x.k.una, x.k.una) = 0 /\ Minus(x.k.wr, x.k.una) \in Nat /\ Minus(x.k.wr, x.k.una) # 0
    BY <1>2, SameIsZero, MinusNat
  <2> QED BY <1>2, <2>1, MoveAway, Sizes
<1>4. /\ k \in Tcb /\ Same(x.k, k) /\ k.st = x.k.st /\ k.listed = x.k.listed
      /\ k.psyn = flags /\ k.pfin = x.k.pfin /\ k.wr = x.k.wr /\ k.una = x.k.una
      /\ k.nxt = Plus(x.k.una, 1) /\ k.rd = x.k.rd /\ k.rnxt = x.k.rnxt /\ k.rtx /\ k.dack = x.k.dack
      /\ k.tw = x.k.tw
  BY <1>1, <1>2, <1>3 DEF Tcb, ArmIfIdle, Same
<1>5. On(x, k) \in Sends(e) /\ On(x, k).k = k
  BY <1>4, Changed
<1>6. y = tcp_emit(On(x, k), k.nxt, FALSE)
  BY DEF tcp_send_syn
<1> HIDE DEF k, y
<1>7. InFlight(k) <= tcb_txfifo_used(k) /\ flags # {}
  BY <1>3, <1>4 DEF InFlight, tcb_txfifo_used
<1>8. y \in Sends(e) /\ Emitted(k, y.k)
  <2> DEFINE z == On(x, k)
  <2> HIDE DEF z
  <2>1. z \in Sends(e) /\ z.k = k
    BY <1>5 DEF z
  <2>2. {"SYN", "ACK"} # {"SYN"}
    OBVIOUS
  <2>3. e = "srv" => z.k.psyn # {"SYN"}
    BY <1>4, <2>1, <2>2
  <2>4. InFlight(z.k) <= tcb_txfifo_used(z.k)
    BY <1>7, <2>1
  <2>5. k.nxt \in {z.k.nxt, z.k.una} /\ FALSE \in BOOLEAN
    BY <2>1
  <2>6. tcp_emit(z, k.nxt, FALSE) \in Sends(e) /\ Emitted(z.k, tcp_emit(z, k.nxt, FALSE).k)
    BY <2>1, <2>3, <2>4, <2>5, Emits
  <2> QED BY <1>6, <2>1, <2>6 DEF z
<1>9. PICK nxt \in Num, early \in BOOLEAN, dack \in BOOLEAN :
        /\ y.k = [k EXCEPT !.dack = dack, !.nxt = nxt, !.early = early]
        /\ dack => k.dack
        /\ k.psyn # {} => nxt = k.nxt
  BY <1>8, Zenon DEF Emitted
<1>10. nxt = k.nxt
  BY <1>4, <1>7, <1>9
<1>11. /\ y.k.nxt = k.nxt /\ Same(k, y.k) /\ y.k.st = k.st /\ y.k.listed = k.listed
       /\ y.k.psyn = k.psyn /\ y.k.pfin = k.pfin /\ y.k.wr = k.wr /\ y.k.una = k.una
       /\ y.k.rd = k.rd /\ y.k.rnxt = k.rnxt /\ y.k.rtx = k.rtx /\ (y.k.dack => k.dack) /\ y.k.tw = k.tw
  <2>1. k \in Tcb
    BY <1>4
  <2>2. PICK r : r = y.k
    OBVIOUS
  <2>3. r = [k EXCEPT !.dack = dack, !.nxt = k.nxt, !.early = early] /\ (dack => k.dack)
    BY <1>9, <1>10, <2>2
  <2>4. /\ r.nxt = k.nxt /\ Same(k, r) /\ r.st = k.st /\ r.listed = k.listed
        /\ r.psyn = k.psyn /\ r.pfin = k.pfin /\ r.wr = k.wr /\ r.una = k.una
        /\ r.rd = k.rd /\ r.rnxt = k.rnxt /\ r.rtx = k.rtx /\ (r.dack => k.dack) /\ r.tw = k.tw
    BY <2>1, <2>3 DEF Tcb, Same
  <2> QED BY <2>2, <2>4
<1> QED BY <1>3, <1>4, <1>8, <1>11 DEF y, Same

\* tcp_do_connect, with the signals taken.
LEMMA ConnectGood ==
  ASSUME NEW e \in Ends, NEW x \in Sends(e), NEW k0, EndOk(e, k0), "connect" \in k0.sig,
         x.k = [k0 EXCEPT !.sig = {}]
  PROVE  tcp_do_connect(x) \in Good(e) /\ Same(x.k, tcp_do_connect(x).k)
<1> DEFINE h == [x.k EXCEPT !.heard = TRUE]
           y == tcp_send_syn(On(x, h), {"SYN"})
           r == [y.k EXCEPT !.listed = TRUE]
<1>1. /\ k0 \in Tcb /\ k0.st = "SYN_SENT" /\ ~k0.listed /\ e = "cli" /\ k0.una = Iss[e] /\ k0.nxt = Iss[e]
      /\ k0.una # k0.wr /\ k0.up /\ ~k0.rtx /\ ~k0.dack /\ ~k0.tw /\ ~k0.app /\ ~k0.pfin
  BY DEF EndOk, SynOk, ListOk, CloseOk, Ends
<1>2. /\ h \in Tcb /\ h.st = "SYN_SENT" /\ ~h.listed /\ h.una = Iss[e] /\ h.nxt = Iss[e] /\ h.wr = k0.wr
      /\ h.up /\ ~h.rtx /\ ~h.dack /\ ~h.tw /\ ~h.app /\ ~h.pfin /\ h.sig = {} /\ h.rd = k0.rd /\ h.rnxt = k0.rnxt
      /\ Same(x.k, h)
  <2>1. x.k \in Tcb
    BY DEF Sends
  <2> QED BY <1>1, <2>1, ZenonT(60) DEF Tcb, Same
<1> HIDE DEF h
<1>3. On(x, h) \in Sends(e) /\ On(x, h).k = h
  BY <1>2, Changed
<1>4. /\ y \in Sends(e) /\ Same(h, y.k) /\ y.k.st = h.st /\ y.k.listed = h.listed
      /\ y.k.psyn = {"SYN"} /\ y.k.pfin = h.pfin /\ y.k.wr = h.wr /\ y.k.una = h.una
      /\ y.k.nxt = Plus(h.una, 1) /\ Minus(y.k.nxt, y.k.una) <= Minus(y.k.wr, y.k.una)
      /\ y.k.rd = h.rd /\ y.k.rnxt = h.rnxt /\ y.k.rtx /\ ~y.k.dack /\ y.k.tw = h.tw
  <2>1. e = "srv" => {"SYN"} = {"SYN", "ACK"}
    BY <1>1
  <2> QED BY <1>1, <1>2, <1>3, <2>1, SynSends
<1>5. tcp_do_connect(x) = On(y, r)
  BY DEF tcp_do_connect, h
<1> HIDE DEF y
<1>6. /\ r \in Tcb /\ Same(y.k, r) /\ r.st = y.k.st /\ r.listed /\ r.psyn = y.k.psyn /\ r.pfin = y.k.pfin
      /\ r.wr = y.k.wr /\ r.una = y.k.una /\ r.nxt = y.k.nxt /\ r.rd = y.k.rd /\ r.rnxt = y.k.rnxt
      /\ r.rtx = y.k.rtx /\ r.dack = y.k.dack /\ r.tw = y.k.tw
  <2>1. y.k \in Tcb
    BY <1>4 DEF Sends
  <2> QED BY <2>1 DEF Tcb, Same
<1> HIDE DEF r
<1>7. TxOk(r) /\ RxOk(r)
  BY <1>1, <1>2, <1>4, <1>6 DEF EndOk, TxOk, RxOk, InFlight, tcb_txfifo_used, tcb_rxfifo_used
<1>8. ListOk(r) /\ CloseOk(r) /\ SynOk(e, r)
  BY <1>1, <1>2, <1>4, <1>6 DEF ListOk, CloseOk, SynOk, Same
<1>9. EndOk(e, r)
  BY <1>6, <1>7, <1>8 DEF EndOk
<1>10. On(y, r) \in Sends(e) /\ On(y, r).k = r
  BY <1>4, <1>6, Changed
<1> QED BY <1>2, <1>4, <1>5, <1>6, <1>9, <1>10 DEF Good, Same

\* What the invariant says nothing of may change.
Alike(k, r) ==
  /\ Same(k, r) /\ r.st = k.st /\ r.listed = k.listed /\ r.psyn = k.psyn /\ r.pfin = k.pfin
  /\ r.wr = k.wr /\ r.nxt = k.nxt /\ r.una = k.una /\ r.rd = k.rd /\ r.rnxt = k.rnxt
  /\ r.rtx = k.rtx /\ r.tw = k.tw /\ (r.dack => k.listed)

LEMMA AlikeOk ==
  ASSUME NEW e \in Ends, NEW k, EndOk(e, k), NEW r \in Tcb, Alike(k, r)
  PROVE  EndOk(e, r)
<1>1. TxOk(r) /\ RxOk(r)
  BY DEF Alike, EndOk, TxOk, RxOk, InFlight, tcb_txfifo_used, tcb_rxfifo_used
<1>2. ListOk(r) /\ CloseOk(r)
  BY DEF Alike, EndOk, ListOk, CloseOk, Same
<1>3. SynOk(e, r)
  BY DEF Alike, EndOk, SynOk, Same
<1> QED BY <1>1, <1>2, <1>3 DEF EndOk

LEMMA AtGood == ASSUME NEW e \in Ends, NEW k \in Tcb PROVE At(e, k) \in Sends(e) /\ At(e, k).k = k /\ At(e, k).out = <<>>
  BY DEF At, Sends

\* The tcb that a SYN creates.
LEMMA ServiceGood ==
  ASSUME NEW seq \in Num
  PROVE  LET k == [tcb_create("srv") EXCEPT !.rnxt = Plus(seq, 1), !.rd = Plus(seq, 1)]
             y == tcp_send_syn(At("srv", k), {"SYN", "ACK"})
         IN  On(y, [y.k EXCEPT !.st = "SYN_RECEIVED", !.listed = TRUE]) \in Good("srv")
<1> DEFINE k == [tcb_create("srv") EXCEPT !.rnxt = Plus(seq, 1), !.rd = Plus(seq, 1)]
           y == tcp_send_syn(At("srv", k), {"SYN", "ACK"})
           r == [y.k EXCEPT !.st = "SYN_RECEIVED", !.listed = TRUE]
<1>1. "srv" \in Ends /\ Iss["srv"] \in Num /\ Plus(seq, 1) \in Num
  BY Sizes, PlusIs DEF Ends
<1>2. /\ k \in Tcb /\ k.rd = Plus(seq, 1) /\ k.rnxt = Plus(seq, 1) /\ k.nxt = Iss["srv"] /\ k.una = Iss["srv"]
      /\ k.wr = Plus(Iss["srv"], 1) /\ ~k.pfin /\ k.up /\ ~k.app /\ ~k.done /\ k.sig = {} /\ ~k.tw /\ ~k.dack
  <2> DEFINE c == tcb_create("srv")
  <2>1. c \in Tcb
    BY <1>1, Created
  <2>2. /\ c.nxt = Iss["srv"] /\ c.una = Iss["srv"] /\ c.wr = Plus(Iss["srv"], 1)
        /\ ~c.pfin /\ c.up /\ ~c.app /\ ~c.done /\ c.sig = {} /\ ~c.tw /\ ~c.dack
    BY DEF tcb_create
  <2> HIDE DEF c
  <2>3. k = [c EXCEPT !.rnxt = Plus(seq, 1), !.rd = Plus(seq, 1)]
    BY DEF c
  <2> HIDE DEF k
  <2> QED BY <2>1, <2>2, <2>3, <1>1 DEF Tcb
<1>3. /\ Plus(Iss["srv"], 1) # Iss["srv"] /\ Minus(Plus(Iss["srv"], 1), Iss["srv"]) = 1
      /\ Minus(Plus(seq, 1), Plus(seq, 1)) = 0
  BY <1>1, Created, SameIsZero
<1> HIDE DEF k
<1>4. At("srv", k) \in Sends("srv") /\ At("srv", k).k = k
  BY <1>1, <1>2, AtGood
<1>5. /\ y \in Sends("srv") /\ Same(k, y.k) /\ y.k.psyn = {"SYN", "ACK"} /\ y.k.pfin = k.pfin
      /\ y.k.wr = k.wr /\ y.k.una = k.una /\ Minus(y.k.nxt, y.k.una) <= Minus(y.k.wr, y.k.una)
      /\ y.k.rd = k.rd /\ y.k.rnxt = k.rnxt /\ y.k.rtx /\ ~y.k.dack /\ y.k.tw = k.tw
  BY <1>1, <1>2, <1>3, <1>4, SynSends
<1> HIDE DEF y
<1>6. /\ r \in Tcb /\ Same(y.k, r) /\ r.st = "SYN_RECEIVED" /\ r.listed /\ r.psyn = y.k.psyn /\ r.pfin = y.k.pfin
      /\ r.wr = y.k.wr /\ r.una = y.k.una /\ r.nxt = y.k.nxt /\ r.rd = y.k.rd /\ r.rnxt = y.k.rnxt
      /\ r.rtx = y.k.rtx /\ r.dack = y.k.dack /\ r.tw = y.k.tw
  <2>1. y.k \in Tcb /\ "SYN_RECEIVED" \in States
    BY <1>5, StateNames DEF Sends
  <2> QED BY <2>1 DEF Tcb, Same
<1> HIDE DEF r
<1>7. TxOk(r) /\ RxOk(r)
  BY <1>2, <1>3, <1>5, <1>6, Sizes DEF TxOk, RxOk, InFlight, tcb_txfifo_used, tcb_rxfifo_used
<1>8. {"SYN", "ACK"} # {"SYN"}
  OBVIOUS
<1>9. ListOk(r) /\ CloseOk(r) /\ SynOk("srv", r)
  BY <1>2, <1>5, <1>6, <1>8 DEF ListOk, CloseOk, SynOk, Same
<1>10. On(y, r) \in Sends("srv") /\ On(y, r).k = r
  BY <1>1, <1>5, <1>6, Changed
<1> QED BY <1>6, <1>7, <1>9, <1>10 DEF Good, EndOk, k, y, r

-----------------------------------------------------------------------------
(* The loop that sends, as an induction over its rounds.                   *)

LEMMA Least == ASSUME NEW T, T \subseteq Nat, T # {} PROVE \E x \in T : \A y \in T : x <= y
<1>1. PICK x \in T : \A y \in T : ~(<<y, x>> \in OpToRel(<, Nat))
  BY NatLessThanWellFounded, WFMin
<1>2. \A y \in T : ~(y < x)
  BY <1>1 DEF OpToRel
<1> QED BY <1>2

LEMMA Induction == ASSUME NEW T, 0 \in T, \A n \in Nat : n \in T => n + 1 \in T PROVE Nat \subseteq T
<1> SUFFICES ASSUME Nat \ T # {} PROVE FALSE
  OBVIOUS
<1>1. PICK x \in Nat \ T : \A y \in Nat \ T : x <= y
  BY Least
<1>2. x # 0 /\ x - 1 \in Nat /\ x - 1 \in T
  BY <1>1
<1>3. (x - 1) + 1 = x
  BY <1>1
<1> QED BY <1>2, <1>3

\* The rounds can be computed, and stay in a set that every round stays in.
LEMMA Rounds ==
  ASSUME NEW S, NEW x \in S, NEW force, NEW n \in Nat, \A y \in S : EmitRound(y, force) \in S
  PROVE  /\ \E g : g = [i \in 0 .. n |-> IF i = 0 THEN x ELSE EmitRound(g[i - 1], force)]
         /\ \A g : g = [i \in 0 .. n |-> IF i = 0 THEN x ELSE EmitRound(g[i - 1], force)] => g[n] \in S
<1> DEFINE P(g, m) == g = [i \in 0 .. m |-> IF i = 0 THEN x ELSE EmitRound(g[i - 1], force)]
           T == {m \in Nat : \E g \in [0 .. m -> S] : P(g, m)}
<1>1. 0 \in T
  <2> DEFINE g == [i \in 0 .. 0 |-> x]
  <2>1. g \in [0 .. 0 -> S]
    OBVIOUS
  <2>2. P(g, 0)
    OBVIOUS
  <2> HIDE DEF g, P
  <2> QED BY <2>1, <2>2
<1>2. ASSUME NEW m \in Nat, m \in T PROVE m + 1 \in T
  <2>1. PICK g \in [0 .. m -> S] : P(g, m)
    BY <1>2
  <2> DEFINE h == [i \in 0 .. m + 1 |-> IF i = m + 1 THEN EmitRound(g[m], force) ELSE g[i]]
  <2>2. h \in [0 .. m + 1 -> S]
    OBVIOUS
  <2>3. \A i \in 0 .. m + 1 : h[i] = IF i = 0 THEN x ELSE EmitRound(h[i - 1], force)
    BY <2>1
  <2>4. P(h, m + 1)
    BY <2>2, <2>3
  <2>5. m + 1 \in Nat
    OBVIOUS
  <2> HIDE DEF h, P
  <2> QED BY <2>2, <2>4, <2>5
<1>3. n \in T
  <2> HIDE DEF T
  <2>1. Nat \subseteq T
    BY <1>1, <1>2, Induction
  <2> QED BY <2>1
<1>4. \E g : P(g, n)
  <2> HIDE DEF P
  <2> QED BY <1>3
<1>5. ASSUME NEW g, P(g, n) PROVE g[n] \in S
  <2> DEFINE U == {m \in Nat : m <= n => g[m] \in S}
  <2>1. \A m \in 0 .. n : g[m] = IF m = 0 THEN x ELSE EmitRound(g[m - 1], force)
    BY <1>5
  <2>2. 0 \in U
    BY <2>1
  <2>3. ASSUME NEW m \in Nat, m \in U PROVE m + 1 \in U
    <3>1. CASE m + 1 <= n
      <4>1. g[m + 1] = EmitRound(g[m], force) /\ g[m] \in S
        BY <2>1, <2>3, <3>1
      <4> QED BY <4>1
    <3>2. CASE ~(m + 1 <= n)
      BY <3>2
    <3> QED BY <3>1, <3>2
  <2>4. n \in U
    <3> HIDE DEF U
    <3>1. Nat \subseteq U
      BY <2>2, <2>3, Induction
    <3> QED BY <3>1
  <2> QED BY <2>4
<1> QED BY <1>4, <1>5

\* Where the rounds stay.
Sending(e, k) ==
  {y \in Good(e) : Same(k, y.k) /\ y.k.st = k.st /\ y.k.listed /\ y.k.psyn = k.psyn}

LEMMA RoundSends ==
  ASSUME NEW e \in Ends, NEW k, NEW y \in Sending(e, k), NEW force \in BOOLEAN
  PROVE  EmitRound(y, force) \in Sending(e, k)
<1>1. y \in Good(e) /\ y.k.listed /\ Same(k, y.k) /\ y.k.st = k.st /\ y.k.psyn = k.psyn
  BY DEF Sending
<1>2. EmitRound(y, force) = y \/ EmitRound(y, force) = tcp_emit(y, y.k.nxt, FALSE)
  BY DEF EmitRound
<1> DEFINE z == tcp_emit(y, y.k.nxt, FALSE)
<1>3. z \in Good(e) /\ Same(y.k, z.k) /\ z.k.st = y.k.st /\ z.k.listed = y.k.listed /\ z.k.psyn = y.k.psyn
  BY <1>1, EmitGood
<1> HIDE DEF z
<1>4. z \in Sending(e, k)
  BY <1>1, <1>3 DEF Sending, Same
<1> QED BY <1>2, <1>4 DEF z

LEMMA EmitAllGood ==
  ASSUME NEW e \in Ends, NEW x \in Good(e), NEW force \in BOOLEAN
  PROVE  LET y == EmitAll(x, force) IN
         y \in Good(e) /\ Same(x.k, y.k) /\ y.k.st = x.k.st /\ y.k.listed = x.k.listed
<1>0. x.k \in Tcb /\ EndOk(e, x.k)
  BY DEF Good, Sends
<1>1. CASE x.k.st \notin EmitStates
  BY <1>1 DEF EmitAll, Same
<1>2. CASE x.k.st \in EmitStates
  <2> DEFINE S == Sending(e, x.k)
             a == ArmIfIdle(x.k)
  <2>1. x.k.listed /\ x.k.st # "SYN_SENT" /\ x.k.st # "TIME_WAIT"
    BY <1>0, <1>2 DEF EndOk, ListOk, EmitStates
  <2>2. /\ a \in Tcb /\ Alike(x.k, a)
    <3>1. x.k.rtx
      BY <2>1, <1>0 DEF EndOk, ListOk
    <3> QED BY <1>0, <2>1, <3>1 DEF ArmIfIdle, Tcb, Alike, Same
  <2> HIDE DEF a
  <2>3. EndOk(e, a)
    BY <1>0, <2>2, AlikeOk
  <2>4. On(x, a) \in S
    BY <2>1, <2>2, <2>3, OnGood DEF Sending, Alike
  <2>5. \A y \in S : EmitRound(y, force) \in S
    BY RoundSends
  <2> DEFINE P(g) == g = [i \in 0 .. TxSize + 1 |-> IF i = 0 THEN On(x, a) ELSE EmitRound(g[i - 1], force)]
             round == CHOOSE g : P(g)
  <2>6. TxSize + 1 \in Nat
    BY Sizes
  <2> HIDE DEF S
  <2>7. (\E g : P(g)) /\ \A g : P(g) => g[TxSize + 1] \in S
    BY <2>4, <2>5, <2>6, Rounds
  <2>8. EmitAll(x, force) = round[TxSize + 1]
    BY <1>2 DEF EmitAll, a
  <2> HIDE DEF P
  <2>9. P(round)
    BY <2>7
  <2>10. EmitAll(x, force) \in S
    BY <2>7, <2>8, <2>9
  <2> QED BY <2>1, <2>10 DEF S, Sending
<1> QED BY <1>1, <1>2

-----------------------------------------------------------------------------
(* tcp_task_cb.                                                            *)

\* There is room for the FIN, which is sent once.
LEMMA FinGood ==
  ASSUME NEW e \in Ends, NEW x \in Good(e), x.k.st \in {"ESTABLISHED", "SYN_RECEIVED", "CLOSE_WAIT"},
         x.k.up, x.k.done, ~x.k.app, x.k.sig = {}, NEW st \in {"FIN_WAIT1", "LAST_ACK"}
  PROVE  LET y == tcp_send_fin(On(x, [x.k EXCEPT !.app = TRUE, !.st = st])) IN
         y \in Good(e) /\ y.k.st = st
<1> DEFINE b == [x.k EXCEPT !.app = TRUE, !.st = st]
           k == [ArmIfIdle(b) EXCEPT !.pfin = TRUE, !.wr = Plus(@, 1)]
<1>1. x.k \in Tcb /\ EndOk(e, x.k) /\ x.e = e /\ x \in Sends(e)
  BY DEF Good, Sends
<1>2. x.k.listed /\ x.k.rtx /\ ~x.k.pfin
  BY <1>1 DEF EndOk, ListOk, CloseOk
<1>3. /\ b \in Tcb /\ b.app /\ b.st = st /\ b.wr = x.k.wr /\ b.una = x.k.una /\ b.nxt = x.k.nxt /\ b.pfin = x.k.pfin
      /\ b.rd = x.k.rd /\ b.rnxt = x.k.rnxt /\ b.rtx = x.k.rtx /\ b.tw = x.k.tw /\ b.dack = x.k.dack
      /\ b.listed = x.k.listed /\ b.up = x.k.up /\ b.done = x.k.done /\ b.sig = x.k.sig /\ b.psyn = x.k.psyn
  <2>1. x.k \in Tcb /\ st \in States
    BY <1>1, StateNames
  <2> QED BY <2>1 DEF Tcb
<1> HIDE DEF b
<1>4. x.k.una \in Num /\ x.k.wr \in Num /\ x.k.nxt \in Num
  BY <1>1 DEF Tcb
<1>5. /\ Plus(x.k.wr, 1) \in Num /\ Minus(Plus(x.k.wr, 1), x.k.una) = Minus(x.k.wr, x.k.una) + 1
      /\ Minus(x.k.wr, x.k.una) \in Nat /\ Minus(x.k.nxt, x.k.una) \in Nat
      /\ Minus(x.k.wr, x.k.una) <= TxSize /\ Minus(x.k.nxt, x.k.una) <= Minus(x.k.wr, x.k.una)
  <2>1. Minus(x.k.wr, x.k.una) \in Nat /\ Minus(x.k.nxt, x.k.una) \in Nat
    BY <1>4, MinusNat
  <2>2. Minus(x.k.wr, x.k.una) <= TxSize /\ Minus(x.k.nxt, x.k.una) <= Minus(x.k.wr, x.k.una)
    BY <1>1, <1>2, Sizes DEF EndOk, TxOk, InFlight, tcb_txfifo_used
  <2>3. Minus(x.k.wr, x.k.una) + 1 < SeqSpace
    BY <2>1, <2>2, Sizes
  <2> QED BY <1>4, <2>1, <2>2, <2>3, MoveAway
<1>6. /\ k \in Tcb /\ k.app /\ k.st = st /\ k.pfin /\ k.wr = Plus(x.k.wr, 1) /\ k.una = x.k.una /\ k.nxt = x.k.nxt
      /\ k.rd = x.k.rd /\ k.rnxt = x.k.rnxt /\ k.rtx /\ k.tw = x.k.tw /\ k.dack = x.k.dack
      /\ k.listed /\ k.up /\ k.done /\ k.sig = {} /\ k.psyn = x.k.psyn
  <2> DEFINE a == ArmIfIdle(b)
  <2>1. /\ a \in Tcb /\ a.app /\ a.st = st /\ a.wr = x.k.wr /\ a.una = x.k.una /\ a.nxt = x.k.nxt
        /\ a.rd = x.k.rd /\ a.rnxt = x.k.rnxt /\ a.rtx /\ a.tw = x.k.tw /\ a.dack = x.k.dack
        /\ a.listed /\ a.up /\ a.done /\ a.sig = {} /\ a.psyn = x.k.psyn
    BY <1>2, <1>3, ZenonT(60) DEF ArmIfIdle, Tcb
  <2> HIDE DEF a
  <2>2. k = [a EXCEPT !.pfin = TRUE, !.wr = Plus(a.wr, 1)]
    BY DEF a
  <2> HIDE DEF k
  <2> QED BY <1>5, <2>1, <2>2 DEF Tcb
<1> HIDE DEF k
<1>7. TxOk(k) /\ RxOk(k)
  BY <1>1, <1>5, <1>6, Sizes DEF EndOk, TxOk, RxOk, InFlight, tcb_txfifo_used, tcb_rxfifo_used
<1>8. ListOk(k) /\ CloseOk(k)
  BY <1>1, <1>6 DEF EndOk, ListOk, CloseOk
<1>9. SynOk(e, k)
  BY <1>1, <1>6 DEF EndOk, SynOk
<1>10. EndOk(e, k)
  BY <1>6, <1>7, <1>8, <1>9 DEF EndOk
<1> DEFINE z == On(On(x, b), k)
           y == tcp_emit(z, k.nxt, FALSE)
<1>11. z \in Good(e) /\ z.k = k
  <2>1. On(x, b) \in Sends(e)
    BY <1>1, <1>3, Changed
  <2>2. On(On(x, b), k) \in Sends(e) /\ On(On(x, b), k).k = k
    BY <2>1, <1>6, Changed
  <2> QED BY <2>2, <1>10 DEF Good
<1>12. tcp_send_fin(On(x, b)) = y
  <2>1. On(x, b).k = b
    BY <1>1, <1>3, Changed
  <2> QED BY <2>1 DEF tcp_send_fin, k
<1> HIDE DEF z
<1>13. y \in Good(e) /\ y.k.st = z.k.st
  BY <1>6, <1>11, EmitGood
<1> QED BY <1>6, <1>11, <1>12, <1>13 DEF b

\* TCP_EVENT_CLOSE.
LEMMA CloseRequestedGood ==
  ASSUME NEW e \in Ends, NEW x \in Good(e), x.k.up, x.k.done, ~x.k.app, x.k.sig = {}
  PROVE  CloseRequested(x) \in Good(e)
<1> DEFINE k == [x.k EXCEPT !.app = TRUE]
<1>1. x.k \in Tcb /\ EndOk(e, x.k) /\ x.e = e
  BY DEF Good, Sends
<1>2. /\ k \in Tcb /\ k.app /\ k.st = x.k.st /\ k.up /\ k.done /\ k.sig = {} /\ k.listed = x.k.listed
      /\ k.psyn = x.k.psyn /\ k.pfin = x.k.pfin /\ k.wr = x.k.wr /\ k.nxt = x.k.nxt /\ k.una = x.k.una
      /\ k.rd = x.k.rd /\ k.rnxt = x.k.rnxt /\ k.rtx = x.k.rtx /\ k.dack = x.k.dack /\ k.tw = x.k.tw
  BY <1>1 DEF Tcb
<1>3. [k EXCEPT !.st = "FIN_WAIT1"] = [x.k EXCEPT !.app = TRUE, !.st = "FIN_WAIT1"]
      /\ [k EXCEPT !.st = "LAST_ACK"] = [x.k EXCEPT !.app = TRUE, !.st = "LAST_ACK"]
  OBVIOUS
<1>4. ASSUME NEW y \in Good(e), y.k.st # "CLOSED" PROVE On(y, tcp_destroy(y.k, y.e)) \in Good(e)
  <2>1. tcp_destroy(y.k, y.e) = y.k /\ EndOk(e, y.k)
    BY <1>4 DEF tcp_destroy, Good
  <2> QED BY <2>1, OnGood
<1> HIDE DEF k
<1>5. CASE k.st \in {"ESTABLISHED", "SYN_RECEIVED"}
  <2> DEFINE y == tcp_send_fin(On(x, [x.k EXCEPT !.app = TRUE, !.st = "FIN_WAIT1"]))
  <2>1. y \in Good(e) /\ y.k.st = "FIN_WAIT1"
    BY <1>2, <1>5, FinGood
  <2>2. CloseRequested(x) = On(y, tcp_destroy(y.k, y.e))
    BY <1>3, <1>5 DEF CloseRequested, k
  <2> HIDE DEF y
  <2> QED BY <2>1, <2>2, <1>4
<1>6. CASE k.st = "CLOSE_WAIT"
  <2> DEFINE y == tcp_send_fin(On(x, [x.k EXCEPT !.app = TRUE, !.st = "LAST_ACK"]))
  <2>1. y \in Good(e) /\ y.k.st = "LAST_ACK"
    BY <1>2, <1>6, FinGood
  <2>2. CloseRequested(x) = On(y, tcp_destroy(y.k, y.e))
    BY <1>3, <1>6 DEF CloseRequested, k
  <2> HIDE DEF y
  <2> QED BY <2>1, <2>2, <1>4
<1>7. CASE k.st \notin {"ESTABLISHED", "SYN_RECEIVED", "CLOSE_WAIT"}
  <2> DEFINE y == On(x, k)
  <2>1. y.k = k /\ y.e = e
    BY <1>1, <1>2, Changed DEF Good
  <2>2. CloseRequested(x) = On(y, tcp_destroy(y.k, y.e))
    BY <1>7 DEF CloseRequested, k
  <2>3. On(y, tcp_destroy(y.k, y.e)) = On(x, tcp_destroy(k, e))
    <3>1. \A r : On(On(x, k), r) = On(x, r)
      BY <1>1 DEF On, Good, Sends
    <3> QED BY <2>1, <3>1
  <2>4. CASE k.st = "CLOSED"
    <3>1. tcp_destroy(k, e) = [Freed(e) EXCEPT !.sig = {}]
      BY <1>2, <2>4 DEF tcp_destroy
    <3>2. EndOk(e, [Freed(e) EXCEPT !.sig = {}])
      BY FreedGood
    <3> QED BY <3>1, <3>2, <2>2, <2>3, OnGood
  <2>5. CASE k.st # "CLOSED"
    <3>1. tcp_destroy(k, e) = k
      BY <2>5 DEF tcp_destroy
    <3>2. TxOk(k) /\ RxOk(k)
      BY <1>1, <1>2 DEF EndOk, TxOk, RxOk, InFlight, tcb_txfifo_used, tcb_rxfifo_used
    <3>3. x.k.listed
      BY <1>1, <1>2, <2>5 DEF EndOk, ListOk, SynOk
    <3>4. ListOk(k) /\ CloseOk(k)
      BY <1>1, <1>2, <3>3 DEF EndOk, ListOk, CloseOk
    <3>5. SynOk(e, k)
      BY <1>1, <1>2, <3>3 DEF EndOk, SynOk
    <3>6. EndOk(e, k)
      BY <1>2, <3>2, <3>4, <3>5 DEF EndOk
    <3> QED BY <3>1, <3>6, <2>2, <2>3, OnGood
  <2> QED BY <2>4, <2>5
<1> QED BY <1>5, <1>6, <1>7

LEMMA HandleGood ==
  ASSUME NEW e \in Ends, NEW k0, EndOk(e, k0), k0.up, NEW x \in Sends(e), x.k = [k0 EXCEPT !.sig = {}]
  PROVE  Handle(x, k0.sig) \in Good(e)
<1> DEFINE k == [k0 EXCEPT !.sig = {}]
           sigs == k0.sig
           c == IF "connect" \in sigs THEN tcp_do_connect(x) ELSE x
           w == IF "wnd_open" \in sigs /\ c.k.st = "ESTABLISHED" THEN tcp_emit(c, c.k.nxt, TRUE) ELSE c
           m == IF sigs \cap {"emit", "flush"} # {} THEN EmitAll(w, "flush" \in sigs) ELSE w
<1>1. /\ k0 \in Tcb /\ k \in Tcb /\ k.sig = {} /\ k.app = k0.app /\ k.done = k0.done /\ k.up
  BY DEF EndOk, Tcb
<1>2. x \in Sends(e) /\ x.k = k
  OBVIOUS
<1>3. c \in Good(e) /\ Same(k, c.k)
  <2>1. CASE "connect" \in sigs
    BY <1>2, <2>1, ConnectGood
  <2>2. CASE "connect" \notin sigs
    <3>1. /\ k.st = k0.st /\ k.listed = k0.listed
          /\ k.psyn = k0.psyn /\ k.pfin = k0.pfin /\ k.wr = k0.wr /\ k.nxt = k0.nxt /\ k.una = k0.una
          /\ k.rd = k0.rd /\ k.rnxt = k0.rnxt /\ k.rtx = k0.rtx /\ k.dack = k0.dack /\ k.tw = k0.tw
      BY <1>1 DEF Tcb
    <3>2. TxOk(k) /\ RxOk(k)
      BY <3>1 DEF EndOk, TxOk, RxOk, InFlight, tcb_txfifo_used, tcb_rxfifo_used
    <3> HIDE DEF k
    <3>3. ListOk(k) /\ CloseOk(k)
      BY <1>1, <3>1 DEF EndOk, ListOk, CloseOk
    <3>4. SynOk(e, k)
      BY <1>1, <3>1, <2>2 DEF EndOk, SynOk
    <3>5. EndOk(e, k)
      BY <1>1, <3>2, <3>3, <3>4 DEF EndOk
    <3> QED BY <2>2, <3>5, <1>2 DEF Good, Same
  <2> QED BY <2>1, <2>2
<1> HIDE DEF k, c
<1>4. w \in Good(e) /\ Same(k, w.k)
  <2>1. CASE "wnd_open" \in sigs /\ c.k.st = "ESTABLISHED"
    <3> DEFINE y == tcp_emit(c, c.k.nxt, TRUE)
    <3>1. y \in Good(e) /\ Same(c.k, y.k)
      BY <1>3, <2>1, EmitGood
    <3> QED BY <2>1, <3>1, <1>3 DEF Same
  <2>2. CASE ~("wnd_open" \in sigs /\ c.k.st = "ESTABLISHED")
    BY <2>2, <1>3
  <2> QED BY <2>1, <2>2
<1> HIDE DEF w
<1>5. m \in Good(e) /\ Same(k, m.k)
  <2>1. CASE sigs \cap {"emit", "flush"} # {}
    <3> DEFINE y == EmitAll(w, "flush" \in sigs)
    <3>0. ("flush" \in sigs) \in BOOLEAN
      OBVIOUS
    <3>1. y \in Good(e) /\ Same(w.k, y.k)
      BY <3>0, <1>4, EmitAllGood
    <3> QED BY <2>1, <3>1, <1>4 DEF Same
  <2>2. CASE ~(sigs \cap {"emit", "flush"} # {})
    BY <2>2, <1>4
  <2> QED BY <2>1, <2>2
<1> HIDE DEF m
<1>6. Handle(x, sigs) = IF "close" \in sigs THEN CloseRequested(m) ELSE m
  BY DEF Handle, m, w, c
<1>7. CASE "close" \in sigs
  <2>1. m.k.up /\ m.k.done /\ ~m.k.app /\ m.k.sig = {}
    BY <1>1, <1>5, <1>7 DEF Same, EndOk, CloseOk
  <2> QED BY <1>5, <1>6, <1>7, <2>1, CloseRequestedGood DEF k
<1> QED BY <1>5, <1>6, <1>7

-----------------------------------------------------------------------------
(* tcp_input_ipv4.                                                         *)

\* What a segment may make of a connection that is on tcbs.
Moved(k, r) ==
  /\ r.listed /\ r.up = k.up /\ r.app = k.app /\ r.done = k.done /\ r.pfin = k.pfin
  /\ r.sig \in {k.sig, k.sig \cup {"emit"}} /\ r.psyn \in {k.psyn, {}}
  /\ r.st \notin {"CLOSED", "SYN_SENT"} /\ (IF r.st = "TIME_WAIT" THEN r.tw ELSE r.rtx)

LEMMA MovedOk ==
  ASSUME NEW e \in Ends, NEW k, EndOk(e, k), k.listed, NEW r \in Tcb, Moved(k, r), TxOk(r), RxOk(r)
  PROVE  EndOk(e, r)
<1>1. ListOk(r)
  BY DEF Moved, EndOk, ListOk
<1>2. CloseOk(r)
  BY DEF Moved, EndOk, CloseOk, ListOk
<1>3. {} # {"SYN"}
  OBVIOUS
<1>4. SynOk(e, r)
  BY <1>3 DEF Moved, EndOk, SynOk
<1> QED BY <1>1, <1>2, <1>4 DEF EndOk

\* Numbers that are not far apart: what is acknowledged is under way.
LEMMA AckWithin ==
  ASSUME NEW una \in Num, NEW nxt \in Num, NEW ack \in Num, 2 * Minus(nxt, una) < SeqSpace,
         Signed(ack, una) >= 0, ~(Signed(nxt, ack) < 0)
  PROVE  Signed(ack, una) \in Nat /\ Signed(ack, una) <= Minus(nxt, una)
<1>1. /\ Minus(nxt, una) = IF nxt >= una THEN nxt - una ELSE nxt - una + SeqSpace
      /\ Minus(ack, una) = IF ack >= una THEN ack - una ELSE ack - una + SeqSpace
      /\ Minus(nxt, ack) = IF nxt >= ack THEN nxt - ack ELSE nxt - ack + SeqSpace
  BY MinusIs
<1>2. Signed(ack, una) = Minus(ack, una) /\ 2 * Minus(ack, una) < SeqSpace /\ 2 * Minus(nxt, ack) < SeqSpace
  <2>1. Signed(nxt, ack) \in Int
    BY SignedIs
  <2>2. Signed(nxt, ack) >= 0
    BY <2>1
  <2> QED BY <2>2, SignedIs
<1>3. Minus(ack, una) \in Nat
  BY MinusNat
<1> QED BY <1>1, <1>2, <1>3, Sizes DEF Num

\* What a signal changes of a tcb.
Raises(k, r, ev) ==
  /\ r.sig = k.sig \cup {ev}
  /\ r.st = k.st /\ r.up = k.up /\ r.listed = k.listed /\ r.app = k.app /\ r.done = k.done
  /\ r.psyn = k.psyn /\ r.pfin = k.pfin /\ r.wr = k.wr /\ r.nxt = k.nxt /\ r.una = k.una
  /\ r.rd = k.rd /\ r.rnxt = k.rnxt /\ r.rtx = k.rtx /\ r.dack = k.dack /\ r.tw = k.tw

LEMMA Raised ==
  ASSUME NEW k \in Tcb, NEW ev \in Signals
  PROVE  Raise(k, ev) \in Tcb /\ Raises(k, Raise(k, ev), ev)
<1>1. k.sig \cup {ev} \in SUBSET Signals
  BY DEF Tcb
<1>2. PICK g : g = k.sig \cup {ev}
  OBVIOUS
<1>3. Raise(k, ev) = [k EXCEPT !.sig = g]
  BY <1>2 DEF Raise
<1> QED BY <1>1, <1>2, <1>3 DEF Raises, Tcb

\* tcp_ack moves una on towards nxt.
LEMMA AckMoves ==
  ASSUME NEW k \in Tcb, TxOk(k), NEW count \in Nat, count <= InFlight(k)
  PROVE  LET r == tcp_ack(k, count) IN
         /\ r \in Tcb /\ TxOk(r) /\ r.una = Plus(k.una, count)
         /\ r.up = k.up /\ r.app = k.app /\ r.done = k.done /\ r.listed = k.listed /\ r.st = k.st /\ r.pfin = k.pfin
         /\ r.nxt = k.nxt /\ r.wr = k.wr /\ r.rd = k.rd /\ r.rnxt = k.rnxt /\ r.dack = k.dack /\ r.tw = k.tw
         /\ r.sig \in {k.sig, k.sig \cup {"emit"}} /\ r.psyn \in {k.psyn, {}} /\ (r.rtx \/ r.rtx = k.rtx)
<1>1. k.una \in Num /\ k.wr \in Num /\ k.nxt \in Num
  BY DEF Tcb
<1>2. /\ Minus(k.wr, k.una) \in Nat /\ Minus(k.nxt, k.una) \in Nat /\ count <= Minus(k.nxt, k.una)
      /\ Minus(k.nxt, k.una) <= Minus(k.wr, k.una)
  BY <1>1, MinusNat DEF InFlight, TxOk, tcb_txfifo_used
<1>3. /\ Plus(k.una, count) \in Num
      /\ Minus(k.nxt, Plus(k.una, count)) = Minus(k.nxt, k.una) - count
      /\ Minus(k.wr, Plus(k.una, count)) = Minus(k.wr, k.una) - count
  <2>1. count <= Minus(k.wr, k.una)
    BY <1>2
  <2> QED BY <1>1, <1>2, <2>1, MoveUp
<1>4. CASE count = 0
  <2>1. Plus(k.una, 0) = IF k.una + 0 < SeqSpace THEN k.una + 0 ELSE k.una + 0 - SeqSpace
    BY <1>1, PlusIs, Sizes
  <2>2. Plus(k.una, 0) = k.una
    BY <1>1, <2>1, Sizes DEF Num
  <2> QED BY <1>4, <2>2 DEF tcp_ack
<1>5. CASE count # 0
  <2> DEFINE a == [k EXCEPT !.una = Plus(@, count), !.psyn = {}, !.rtx = TRUE, !.sleeps = FALSE]
             r == IF a.wr # a.nxt THEN Raise(a, "emit") ELSE a
  <2>1. tcp_ack(k, count) = r
    BY <1>5 DEF tcp_ack
  <2>2. /\ a \in Tcb /\ a.una = Plus(k.una, count)
        /\ a.up = k.up /\ a.app = k.app /\ a.done = k.done /\ a.listed = k.listed /\ a.st = k.st /\ a.pfin = k.pfin
        /\ a.nxt = k.nxt /\ a.wr = k.wr /\ a.rd = k.rd /\ a.rnxt = k.rnxt /\ a.dack = k.dack /\ a.tw = k.tw
        /\ a.sig = k.sig /\ a.psyn = {} /\ a.rtx
    BY <1>3 DEF Tcb
  <2> HIDE DEF a
  <2>3. /\ r \in Tcb /\ r.una = a.una
        /\ r.up = a.up /\ r.app = a.app /\ r.done = a.done /\ r.listed = a.listed /\ r.st = a.st /\ r.pfin = a.pfin
        /\ r.nxt = a.nxt /\ r.wr = a.wr /\ r.rd = a.rd /\ r.rnxt = a.rnxt /\ r.dack = a.dack /\ r.tw = a.tw
        /\ r.sig \in {a.sig, a.sig \cup {"emit"}} /\ r.psyn = a.psyn /\ r.rtx = a.rtx
    <3>1. CASE a.wr # a.nxt
      <4>1. "emit" \in Signals
        BY DEF Signals
      <4>2. Raise(a, "emit") \in Tcb /\ Raises(a, Raise(a, "emit"), "emit")
        BY <2>2, <4>1, Raised
      <4>3. r = Raise(a, "emit")
        BY <3>1
      <4> QED BY <4>2, <4>3 DEF Raises
    <3>2. CASE ~(a.wr # a.nxt)
      BY <2>2, <3>2
    <3> QED BY <3>1, <3>2
  <2> HIDE DEF r
  <2>4. TxOk(r)
    BY <1>2, <1>3, <2>2, <2>3, Sizes DEF TxOk, InFlight, tcb_txfifo_used
  <2> QED BY <2>1, <2>2, <2>3, <2>4
<1> QED BY <1>4, <1>5

\* The receive window is the free part of the fifo.
LEMMA AvailIs ==
  ASSUME NEW k \in Tcb, RxOk(k)
  PROVE  tcb_rxfifo_avail(k) = RxSize - tcb_rxfifo_used(k) /\ tcb_rxfifo_used(k) \in Nat
<1>1. k.rnxt \in Num /\ k.rd \in Num /\ RxSize \in Num
  BY Sizes DEF Tcb, Num
<1>2. tcb_rxfifo_used(k) \in Num /\ tcb_rxfifo_used(k) \in Nat
  BY <1>1, MinusIs, MinusNat DEF tcb_rxfifo_used
<1>3. Minus(RxSize, tcb_rxfifo_used(k)) = IF RxSize >= tcb_rxfifo_used(k) THEN RxSize - tcb_rxfifo_used(k)
                                           ELSE RxSize - tcb_rxfifo_used(k) + SeqSpace
  BY <1>1, <1>2, MinusIs
<1> QED BY <1>2, <1>3, Sizes DEF RxOk, tcb_rxfifo_avail

LEMMA Filled ==
  ASSUME NEW k \in Tcb, RxOk(k), NEW n \in Nat, n <= tcb_rxfifo_avail(k)
  PROVE  Plus(k.rnxt, n) \in Num /\ Minus(Plus(k.rnxt, n), k.rd) <= RxSize
<1>1. k.rnxt \in Num /\ k.rd \in Num
  BY DEF Tcb
<1>2. tcb_rxfifo_avail(k) = RxSize - Minus(k.rnxt, k.rd) /\ Minus(k.rnxt, k.rd) \in Nat
  BY AvailIs DEF tcb_rxfifo_used
<1>3. Minus(k.rnxt, k.rd) + n <= RxSize /\ Minus(k.rnxt, k.rd) + n < SeqSpace
  BY <1>2, Sizes
<1> QED BY <1>1, <1>3, MoveAway

LEMMA SegmentIs ==
  ASSUME NEW e \in Ends, NEW s \in SegTo(e)
  PROVE  /\ s.seq \in Num /\ s.ack \in Num /\ s.len \in Nat /\ s.wnd \in Nat
         /\ s.flags \in SUBSET {"SYN", "ACK", "PSH", "FIN", "RST"}
         /\ "FIN" \in s.flags => s.len = 0 /\ "SYN" \notin s.flags
         /\ e = "cli" /\ "SYN" \in s.flags => "ACK" \in s.flags
  BY DEF SegTo

\* Of the acknowledgements of a SYN one passes: the number that follows it.
LEMMA SynAcked ==
  ASSUME NEW iss \in Num, NEW ack \in Num, ~(Signed(ack, iss) <= 0 \/ Signed(ack, Plus(iss, 1)) > 0)
  PROVE  Minus(ack, iss) = 1
<1>1. Signed(ack, iss) \in Int /\ Plus(iss, 1) \in Num /\ Minus(ack, iss) \in Nat
  BY SignedIs, PlusIs, MinusNat, Sizes
<1>2. Signed(ack, iss) = Minus(ack, iss) /\ 2 * Minus(ack, iss) < SeqSpace /\ Minus(ack, iss) > 0
  BY <1>1, SignedIs
<1>3. Minus(ack, Plus(iss, 1)) = Minus(ack, iss) - 1
  BY <1>1, <1>2, MoveUp
<1>4. 2 * Minus(ack, Plus(iss, 1)) < SeqSpace
  BY <1>1, <1>2, <1>3, Sizes
<1>5. Signed(ack, Plus(iss, 1)) = Minus(ack, iss) - 1
  BY <1>1, <1>3, <1>4, SignedIs
<1> QED BY <1>1, <1>2, <1>5

LEMMA SynSentGood ==
  ASSUME NEW e \in Ends, NEW x \in Good(e), x.k.listed, x.k.st = "SYN_SENT", NEW s \in SegTo(e)
  PROVE  InSynSent(x, s) \in Good(e)
<1> DEFINE k == x.k
           ackd == "ACK" \in s.flags
           bad == ackd /\ (Signed(s.ack, Iss[x.e]) <= 0 \/ Signed(s.ack, k.nxt) > 0)
           good == ackd /\ Signed(s.ack, k.una) > 0 /\ Signed(s.ack, k.nxt) >= 0
           p == Plus(s.seq, 1)
           r == [k EXCEPT !.heard = TRUE, !.rnxt = p, !.rd = p]
           c == Minus(s.ack, k.una)
           t == tcp_ack(r, c)
           a == [(IF ackd THEN t ELSE r) EXCEPT !.wnd = s.wnd, !.wl1 = s.seq, !.wl2 = s.ack]
           b == [a EXCEPT !.st = "ESTABLISHED"]
<1>1. x.k \in Tcb /\ EndOk(e, x.k) /\ x.e = e /\ x \in Sends(e)
  BY DEF Good, Sends
<1>2. e = "cli" /\ k.una = Iss[e] /\ k.nxt = Plus(Iss[e], 1) /\ k.una # k.wr
  BY <1>1 DEF EndOk, SynOk, Ends
<1>3. /\ s.seq \in Num /\ s.ack \in Num /\ s.wnd \in Nat /\ ("SYN" \in s.flags => ackd)
      /\ k.una \in Num /\ k.wr \in Num /\ k.nxt \in Num /\ p \in Num /\ 0 \in Num
  <2>1. s.seq \in Num /\ s.ack \in Num /\ s.wnd \in Nat /\ ("SYN" \in s.flags => ackd)
    BY <1>2, SegmentIs
  <2>2. p \in Num
    BY <2>1, PlusIs, Sizes
  <2>3. 0 \in Num
    BY Sizes DEF Num
  <2> QED BY <1>1, <2>1, <2>2, <2>3 DEF Tcb
<1>4. CASE bad
  <2>1. Fits(e, {"RST"}, 0) /\ 0 \in Nat
    BY DEF Fits
  <2>2. Reply(x, k.nxt, 0, {"RST"}, 0) \in Good(e)
    BY <1>3, <2>1, ReplyGood
  <2>3. InSynSent(x, s) = IF "RST" \in s.flags THEN x ELSE Reply(x, k.nxt, 0, {"RST"}, 0)
    BY <1>4 DEF InSynSent
  <2> QED BY <2>2, <2>3
<1>5. CASE ~bad /\ "RST" \in s.flags
  <2>1. tcp_close(x) \in Good(e)
    BY CloseGood
  <2>2. InSynSent(x, s) = IF good THEN tcp_close(x) ELSE x
    BY <1>5 DEF InSynSent
  <2> QED BY <2>1, <2>2
<1>6. CASE ~bad /\ "RST" \notin s.flags /\ "SYN" \in s.flags
  <2>1. ackd /\ c = 1
    <3>1. ackd
      BY <1>3, <1>6
    <3>2. ~(Signed(s.ack, Iss[e]) <= 0 \/ Signed(s.ack, Plus(Iss[e], 1)) > 0)
      BY <1>1, <1>2, <1>6, <3>1
    <3>3. Iss[e] \in Num
      BY Sizes
    <3>4. Minus(s.ack, Iss[e]) = 1
      BY <1>3, <3>2, <3>3, SynAcked
    <3> QED BY <1>2, <3>1, <3>4
  <2>2. /\ r \in Tcb /\ r.rd = p /\ r.rnxt = p /\ r.una = k.una /\ r.nxt = k.nxt /\ r.wr = k.wr /\ r.pfin = k.pfin
        /\ r.up = k.up /\ r.app = k.app /\ r.done = k.done /\ r.listed /\ r.sig = k.sig /\ r.psyn = k.psyn
        /\ r.rtx = k.rtx /\ r.tw = k.tw /\ r.dack = k.dack
    <3> HIDE DEF p
    <3> QED BY <1>1, <1>3 DEF Tcb
  <2>3. TxOk(r) /\ 1 <= InFlight(r)
    <3>1. Minus(k.nxt, k.una) = 1
      BY <1>2, Created
    <3> QED BY <1>1, <2>2, <3>1 DEF EndOk, TxOk, InFlight, tcb_txfifo_used
  <2> HIDE DEF r, p
  <2>4. /\ t \in Tcb /\ TxOk(t) /\ t.una = Plus(k.una, 1)
        /\ t.up = k.up /\ t.app = k.app /\ t.done = k.done /\ t.listed /\ t.pfin = k.pfin
        /\ t.nxt = k.nxt /\ t.wr = k.wr /\ t.rd = p /\ t.rnxt = p /\ t.tw = k.tw
        /\ t.sig \in {k.sig, k.sig \cup {"emit"}} /\ t.psyn \in {k.psyn, {}} /\ (t.rtx \/ t.rtx = k.rtx)
    BY <2>1, <2>2, <2>3, AckMoves
  <2> HIDE DEF t
  <2>5. a = [t EXCEPT !.wnd = s.wnd, !.wl1 = s.seq, !.wl2 = s.ack]
    BY <2>1
  <2> HIDE DEF a, k
  <2>6. /\ a \in Tcb /\ a.una = t.una /\ a.up = t.up /\ a.app = t.app /\ a.done = t.done /\ a.listed = t.listed
        /\ a.pfin = t.pfin /\ a.nxt = t.nxt /\ a.wr = t.wr /\ a.rd = t.rd /\ a.rnxt = t.rnxt /\ a.tw = t.tw
        /\ a.sig = t.sig /\ a.psyn = t.psyn /\ a.rtx = t.rtx
    BY <1>3, <2>4, <2>5, ZenonT(60) DEF Tcb
  <2>7. /\ b \in Tcb /\ b.una = a.una /\ b.up = a.up /\ b.app = a.app /\ b.done = a.done /\ b.listed = a.listed
        /\ b.pfin = a.pfin /\ b.nxt = a.nxt /\ b.wr = a.wr /\ b.rd = a.rd /\ b.rnxt = a.rnxt /\ b.tw = a.tw
        /\ b.sig = a.sig /\ b.psyn = a.psyn /\ b.rtx = a.rtx /\ b.st = "ESTABLISHED"
    <3>1. a \in Tcb /\ "ESTABLISHED" \in States
      BY <2>6, StateNames
    <3> QED BY <3>1 DEF Tcb
  <2> HIDE DEF b
  <2>8. TxOk(b)
    BY <2>4, <2>6, <2>7 DEF TxOk, InFlight, tcb_txfifo_used
  <2>9. RxOk(b)
    <3>1. Minus(p, p) = 0
      BY <1>3, SameIsZero
    <3> QED BY <2>4, <2>6, <2>7, <3>1, Sizes DEF RxOk, tcb_rxfifo_used
  <2>10. Moved(k, b)
    <3>1. k.rtx
      BY <1>1 DEF EndOk, ListOk, k
    <3> QED BY <2>4, <2>6, <2>7, <3>1 DEF Moved
  <2>11. EndOk(e, b)
    BY <1>1, <2>7, <2>8, <2>9, <2>10, MovedOk DEF k
  <2>12. Signed(a.una, Iss[x.e]) > 0
    <3>1. Minus(Plus(Iss[e], 1), Iss[e]) = 1 /\ Plus(Iss[e], 1) \in Num /\ Iss[e] \in Num
      BY Created, Sizes
    <3>2. 2 * 1 < SeqSpace
      BY Sizes
    <3>3. Signed(Plus(Iss[e], 1), Iss[e]) = 1
      BY <3>1, <3>2, SignedIs
    <3> QED BY <1>1, <1>2, <2>4, <2>6, <3>3
  <2>13. InSynSent(x, s) = tcp_emit(On(x, b), a.nxt, TRUE)
    BY <1>6, <2>12 DEF InSynSent, a, b, k, r, t, p
  <2> DEFINE z == On(x, b)
  <2>14. z \in Good(e) /\ z.k = b
    BY <2>11, OnGood
  <2> HIDE DEF z
  <2>15. tcp_emit(z, a.nxt, TRUE) \in Good(e)
    <3>1. a.nxt \in {z.k.nxt, z.k.una} /\ z.k.st # "SYN_SENT" /\ TRUE \in BOOLEAN
      BY <2>7, <2>14
    <3> QED BY <2>14, <3>1, EmitGood
  <2> QED BY <2>13, <2>15 DEF z
<1>7. CASE ~bad /\ "RST" \notin s.flags /\ "SYN" \notin s.flags
  <2>1. InSynSent(x, s) = x
    BY <1>7 DEF InSynSent
  <2> QED BY <2>1
<1> QED BY <1>4, <1>5, <1>6, <1>7

\* Step 5: what is acknowledged, the window, and the state after it.
LEMMA AckedGood ==
  ASSUME NEW e \in Ends, NEW k, EndOk(e, k), k.listed, k.st \notin {"SYN_SENT", "TIME_WAIT"}, NEW s \in SegTo(e),
         ~(Signed(s.ack, k.una) >= 0 /\ Signed(k.nxt, s.ack) < 0)
  PROVE  LET r == Acked(k, s) IN
         EndOk(e, r) /\ r.listed /\ r.st # "SYN_SENT" /\ r.rd = k.rd /\ r.rnxt = k.rnxt
<1> DEFINE n == Signed(s.ack, k.una)
           t == tcp_ack(k, n)
           w == WindowUpdate(t, s)
           v == IF n >= 0 THEN w ELSE k
           r == FinAcked(v, s)
<1>1. /\ k \in Tcb /\ TxOk(k) /\ RxOk(k) /\ k.rtx /\ k.st # "CLOSED"
  BY DEF EndOk, ListOk
<1>2. s.seq \in Num /\ s.ack \in Num /\ s.wnd \in Nat /\ k.una \in Num /\ k.nxt \in Num /\ k.wr \in Num
  BY <1>1, SegmentIs DEF Tcb
<1>3. /\ v \in Tcb /\ TxOk(v) /\ Moved(k, v) /\ v.st = k.st /\ v.rd = k.rd /\ v.rnxt = k.rnxt /\ v.rtx
  <2>1. CASE n >= 0
    <3>1. n \in Nat /\ n <= InFlight(k)
      <4>1. 2 * Minus(k.nxt, k.una) < SeqSpace
        <5>1. Minus(k.nxt, k.una) \in Nat /\ Minus(k.wr, k.una) \in Nat
          BY <1>2, MinusNat
        <5>2. Minus(k.nxt, k.una) <= TxSize + 1
          BY <1>1, <5>1, Sizes DEF TxOk, InFlight, tcb_txfifo_used
        <5> QED BY <5>1, <5>2, Sizes
      <4>2. ~(Signed(k.nxt, s.ack) < 0)
        BY <2>1
      <4> QED BY <1>2, <2>1, <4>1, <4>2, AckWithin DEF InFlight
    <3> HIDE DEF n
    <3>2. /\ t \in Tcb /\ TxOk(t)
          /\ t.up = k.up /\ t.app = k.app /\ t.done = k.done /\ t.listed = k.listed /\ t.st = k.st /\ t.pfin = k.pfin
          /\ t.rd = k.rd /\ t.rnxt = k.rnxt
          /\ t.sig \in {k.sig, k.sig \cup {"emit"}} /\ t.psyn \in {k.psyn, {}} /\ (t.rtx \/ t.rtx = k.rtx)
      BY <1>1, <3>1, AckMoves
    <3> HIDE DEF t
    <3>3. /\ w \in Tcb /\ w.una = t.una /\ w.nxt = t.nxt /\ w.wr = t.wr /\ w.pfin = t.pfin
          /\ w.up = t.up /\ w.app = t.app /\ w.done = t.done /\ w.listed = t.listed /\ w.st = t.st
          /\ w.rd = t.rd /\ w.rnxt = t.rnxt /\ w.sig = t.sig /\ w.psyn = t.psyn /\ w.rtx = t.rtx
      <4> DEFINE u == [t EXCEPT !.wnd = s.wnd, !.wl1 = s.seq, !.wl2 = s.ack]
      <4>1. w = t \/ w = u
        BY DEF WindowUpdate
      <4>2. /\ u \in Tcb /\ u.una = t.una /\ u.nxt = t.nxt /\ u.wr = t.wr /\ u.pfin = t.pfin
            /\ u.up = t.up /\ u.app = t.app /\ u.done = t.done /\ u.listed = t.listed /\ u.st = t.st
            /\ u.rd = t.rd /\ u.rnxt = t.rnxt /\ u.sig = t.sig /\ u.psyn = t.psyn /\ u.rtx = t.rtx
        BY <1>2, <3>2 DEF Tcb
      <4> HIDE DEF u, w
      <4> QED BY <4>1, <4>2, <3>2
    <3> HIDE DEF w
    <3>4. TxOk(w)
      BY <3>2, <3>3 DEF TxOk, InFlight, tcb_txfifo_used
    <3>5. Moved(k, w)
      BY <1>1, <3>2, <3>3 DEF Moved
    <3> QED BY <1>1, <2>1, <3>2, <3>3, <3>4, <3>5
  <2>2. CASE ~(n >= 0)
    <3>1. v = k
      BY <2>2
    <3> QED BY <1>1, <3>1 DEF Moved
  <2> QED BY <2>1, <2>2
<1>4. Acked(k, s) = r
  BY DEF Acked
<1> HIDE DEF v
<1>5. /\ r \in Tcb /\ r.una = v.una /\ r.nxt = v.nxt /\ r.wr = v.wr /\ r.pfin = v.pfin
      /\ r.up = v.up /\ r.app = v.app /\ r.done = v.done /\ r.listed = v.listed /\ r.st \in {v.st, "FIN_WAIT2"}
      /\ r.rd = v.rd /\ r.rnxt = v.rnxt /\ r.sig = v.sig /\ r.psyn = v.psyn /\ r.rtx = v.rtx
  <2> DEFINE u == [v EXCEPT !.st = "FIN_WAIT2"]
  <2>1. r = v \/ r = u
    BY DEF FinAcked
  <2>2. "FIN_WAIT2" \in States
    BY StateNames
  <2>3. /\ u \in Tcb /\ u.una = v.una /\ u.nxt = v.nxt /\ u.wr = v.wr /\ u.pfin = v.pfin
        /\ u.up = v.up /\ u.app = v.app /\ u.done = v.done /\ u.listed = v.listed /\ u.st = "FIN_WAIT2"
        /\ u.rd = v.rd /\ u.rnxt = v.rnxt /\ u.sig = v.sig /\ u.psyn = v.psyn /\ u.rtx = v.rtx
    BY <1>3, <2>2 DEF Tcb
  <2> HIDE DEF u, r
  <2> QED BY <1>3, <2>1, <2>3
<1> HIDE DEF r
<1>6. TxOk(r) /\ RxOk(r)
  BY <1>1, <1>3, <1>5 DEF TxOk, RxOk, InFlight, tcb_txfifo_used, tcb_rxfifo_used
<1>7. Moved(k, r)
  BY <1>1, <1>3, <1>5 DEF Moved
<1> QED BY <1>3, <1>4, <1>5, <1>6, <1>7, MovedOk DEF Moved

\* Step 8: data is taken only where there is room for it.
LEMMA PayloadGood ==
  ASSUME NEW e \in Ends, NEW x \in Good(e), x.k.listed, x.k.st # "SYN_SENT", NEW s \in SegTo(e)
  PROVE  /\ Payload(x, s) \in Good(e) /\ Payload(x, s).k.listed /\ Payload(x, s).k.st # "SYN_SENT"
         /\ "FIN" \in s.flags => Payload(x, s) = x
<1> DEFINE k == [x.k EXCEPT !.rnxt = Plus(@, s.len)]
           full == tcb_rxfifo_avail(k) < Mss
           b == [k EXCEPT !.wclosed = full]
           d == [k EXCEPT !.wclosed = full, !.dack = TRUE]
<1>1. x.k \in Tcb /\ EndOk(e, x.k) /\ RxOk(x.k)
  BY DEF Good, Sends, EndOk
<1>2. s.len \in Nat /\ ("FIN" \in s.flags => s.len = 0) /\ tcb_rxfifo_avail(x.k) \in Nat
  BY <1>1, SegmentIs, Avail
<1>3. CASE \/ x.k.st \notin {"ESTABLISHED", "FIN_WAIT1", "FIN_WAIT2"} \/ s.len = 0
           \/ tcb_rxfifo_avail(x.k) < s.len
  <2>1. Payload(x, s) = x
    BY <1>3 DEF Payload
  <2> QED BY <2>1
<1>4. CASE x.k.st \in {"ESTABLISHED", "FIN_WAIT1", "FIN_WAIT2"} /\ s.len # 0 /\ ~(tcb_rxfifo_avail(x.k) < s.len)
  <2>1. Plus(x.k.rnxt, s.len) \in Num /\ Minus(Plus(x.k.rnxt, s.len), x.k.rd) <= RxSize
    BY <1>1, <1>2, <1>4, Filled
  <2>2. /\ k \in Tcb /\ k.rnxt = Plus(x.k.rnxt, s.len) /\ k.st = x.k.st /\ k.listed = x.k.listed /\ Same(x.k, k)
        /\ k.psyn = x.k.psyn /\ k.pfin = x.k.pfin /\ k.wr = x.k.wr /\ k.nxt = x.k.nxt /\ k.una = x.k.una
        /\ k.rd = x.k.rd /\ k.rtx = x.k.rtx /\ k.tw = x.k.tw
    BY <1>1, <2>1 DEF Tcb, Same
  <2> HIDE DEF k
  <2>3. full \in BOOLEAN
    <3>1. tcb_rxfifo_avail(k) \in Nat /\ Mss \in Nat
      BY <2>2, Avail, Sizes
    <3> QED BY <3>1
  <2> HIDE DEF full
  <2>4. ASSUME NEW r \in {b, d}
        PROVE  /\ r \in Tcb /\ r.rnxt = k.rnxt /\ r.st = k.st /\ r.listed = k.listed /\ Same(k, r)
               /\ r.psyn = k.psyn /\ r.pfin = k.pfin /\ r.wr = k.wr /\ r.nxt = k.nxt /\ r.una = k.una
               /\ r.rd = k.rd /\ r.rtx = k.rtx /\ r.tw = k.tw
    <3>1. CASE r = b
      BY <2>2, <2>3, <3>1 DEF Tcb, Same
    <3>2. CASE r = d
      <4>1. d \in Tcb
        BY <2>2, <2>3 DEF Tcb
      <4>2. /\ d.rnxt = k.rnxt /\ d.st = k.st /\ d.listed = k.listed /\ Same(k, d)
            /\ d.psyn = k.psyn /\ d.pfin = k.pfin /\ d.wr = k.wr /\ d.nxt = k.nxt /\ d.una = k.una
            /\ d.rd = k.rd /\ d.rtx = k.rtx /\ d.tw = k.tw
        BY <2>2, <2>3 DEF Tcb, Same
      <4> QED BY <3>2, <4>1, <4>2
    <3> QED BY <2>4, <3>1, <3>2
  <2> HIDE DEF b, d
  <2>5. ASSUME NEW r \in {b, d} PROVE EndOk(e, r)
    <3>1. TxOk(r) /\ RxOk(r)
      BY <1>1, <2>1, <2>2, <2>4 DEF EndOk, TxOk, RxOk, InFlight, tcb_txfifo_used, tcb_rxfifo_used
    <3>2. Moved(x.k, r)
      BY <1>1, <1>4, <2>2, <2>4 DEF Moved, Same, EndOk, ListOk
    <3> QED BY <1>1, <2>4, <3>1, <3>2, MovedOk
  <2>6. Payload(x, s) = IF k.wr = k.nxt /\ (k.dack \/ full) THEN tcp_emit(On(x, b), k.nxt, TRUE) ELSE On(x, d)
    BY <1>4 DEF Payload, k, b, d, full
  <2> DEFINE z == On(x, b)
  <2>7. z \in Good(e) /\ z.k = b
    BY <2>5, OnGood
  <2> HIDE DEF z
  <2>8. /\ tcp_emit(z, k.nxt, TRUE) \in Good(e)
        /\ tcp_emit(z, k.nxt, TRUE).k.listed = b.listed /\ tcp_emit(z, k.nxt, TRUE).k.st = b.st
    <3>1. k.nxt \in {z.k.nxt, z.k.una} /\ z.k.st # "SYN_SENT" /\ TRUE \in BOOLEAN
      BY <1>4, <2>2, <2>4, <2>7
    <3>2. k.nxt = z.k.nxt
      BY <2>2, <2>4, <2>7
    <3>3. /\ tcp_emit(z, z.k.nxt, TRUE) \in Good(e)
          /\ tcp_emit(z, z.k.nxt, TRUE).k.listed = z.k.listed /\ tcp_emit(z, z.k.nxt, TRUE).k.st = z.k.st
      BY <2>7, <3>1, AnswerGood
    <3> QED BY <2>7, <3>2, <3>3
  <2>9. On(x, d) \in Good(e) /\ On(x, d).k = d
    BY <2>5, OnGood
  <2> QED BY <1>2, <1>4, <2>2, <2>4, <2>6, <2>8, <2>9 DEF z
<1> QED BY <1>3, <1>4

\* The FIN is counted in the receive fifo, where there is room for it.
LEMMA FinReceivedGood ==
  ASSUME NEW e \in Ends, NEW x \in Good(e), x.k.listed, x.k.st # "SYN_SENT", NEW s \in SegTo(e),
         "FIN" \in s.flags => tcb_rxfifo_avail(x.k) > 0
  PROVE  FinReceived(x, s) \in Good(e)
<1>1. x.k \in Tcb /\ EndOk(e, x.k) /\ RxOk(x.k) /\ x.k.st # "CLOSED"
  BY DEF Good, Sends, EndOk, ListOk
<1>2. CASE "FIN" \notin s.flags
  <2>1. FinReceived(x, s) = x
    BY <1>2 DEF FinReceived
  <2> QED BY <2>1
<1>3. CASE "FIN" \in s.flags
  <2> DEFINE b == [x.k EXCEPT !.fin = TRUE, !.rnxt = Plus(@, 1)]
             z == On(x, b)
             y == tcp_emit(z, x.k.nxt, TRUE)
             k == y.k
             c == [k EXCEPT !.st = "CLOSE_WAIT"]
             g == [k EXCEPT !.st = "CLOSING"]
             t == tcp_time_wait(k)
  <2>1. Plus(x.k.rnxt, 1) \in Num /\ Minus(Plus(x.k.rnxt, 1), x.k.rd) <= RxSize
    <3>1. tcb_rxfifo_avail(x.k) \in Nat /\ tcb_rxfifo_avail(x.k) > 0
      BY <1>1, <1>3, Avail
    <3>2. 1 <= tcb_rxfifo_avail(x.k) /\ 1 \in Nat
      BY <3>1
    <3> QED BY <1>1, <3>2, Filled
  <2>2. /\ b \in Tcb /\ b.rnxt = Plus(x.k.rnxt, 1) /\ b.st = x.k.st /\ b.listed = x.k.listed /\ Same(x.k, b)
        /\ b.psyn = x.k.psyn /\ b.pfin = x.k.pfin /\ b.wr = x.k.wr /\ b.nxt = x.k.nxt /\ b.una = x.k.una
        /\ b.rd = x.k.rd /\ b.rtx = x.k.rtx /\ b.tw = x.k.tw
    BY <1>1, <2>1 DEF Tcb, Same
  <2> HIDE DEF b
  <2>3. EndOk(e, b)
    <3>1. TxOk(b) /\ RxOk(b)
      BY <1>1, <2>1, <2>2 DEF EndOk, TxOk, RxOk, InFlight, tcb_txfifo_used, tcb_rxfifo_used
    <3>2. Moved(x.k, b)
      BY <1>1, <2>2 DEF Moved, Same, EndOk, ListOk
    <3> QED BY <1>1, <2>2, <3>1, <3>2, MovedOk
  <2>4. z \in Good(e) /\ z.k = b
    BY <2>3, OnGood
  <2> HIDE DEF z
  <2>5. y \in Good(e) /\ k.listed /\ k.st = b.st
    <3>1. x.k.nxt \in {z.k.nxt, z.k.una} /\ z.k.st # "SYN_SENT" /\ TRUE \in BOOLEAN
      BY <2>2, <2>4
    <3> QED BY <2>2, <2>4, <3>1, EmitGood, ZenonT(60)
  <2>6. FinReceived(x, s) =
          On(y, CASE k.st = "ESTABLISHED" -> c
                  [] k.st = "FIN_WAIT1" -> IF s.ack = k.nxt THEN t ELSE g
                  [] k.st = "FIN_WAIT2" -> t
                  [] OTHER -> k)
    BY <1>1, <1>3 DEF FinReceived, b, z
  <2> HIDE DEF y
  <2>7. k \in Tcb /\ EndOk(e, k) /\ TxOk(k) /\ RxOk(k)
    BY <2>5 DEF Good, Sends, EndOk
  <2> HIDE DEF k
  <2>8. /\ {c, g, t} \subseteq Tcb /\ Moved(k, t)
        /\ k.st \in {"ESTABLISHED", "FIN_WAIT1"} => Moved(k, c) /\ Moved(k, g)
        /\ \A r \in {c, g, t} : /\ r.wr = k.wr /\ r.nxt = k.nxt /\ r.una = k.una /\ r.pfin = k.pfin
                                /\ r.rd = k.rd /\ r.rnxt = k.rnxt
    <3>1. "CLOSE_WAIT" \in States /\ "CLOSING" \in States /\ "TIME_WAIT" \in States
      BY StateNames
    <3>2. c \in Tcb /\ g \in Tcb /\ t \in Tcb
      BY <2>7, <3>1, ZenonT(60) DEF Tcb, tcp_time_wait
    <3>3. Moved(k, t)
      BY <2>5, <2>7 DEF Tcb, Moved, tcp_time_wait
    <3>4. k.st \in {"ESTABLISHED", "FIN_WAIT1"} => k.rtx
      BY <2>5, <2>7 DEF EndOk, ListOk
    <3>5. k.rtx => Moved(k, c) /\ Moved(k, g)
      BY <2>5, <2>7 DEF Tcb, Moved
    <3>6. ASSUME NEW r \in {c, g, t}
          PROVE  /\ r.wr = k.wr /\ r.nxt = k.nxt /\ r.una = k.una /\ r.pfin = k.pfin
                 /\ r.rd = k.rd /\ r.rnxt = k.rnxt
      BY <2>7, <3>6, ZenonT(60) DEF Tcb, tcp_time_wait
    <3> QED BY <3>2, <3>3, <3>4, <3>5, <3>6
  <2> HIDE DEF c, g, t
  <2>9. \A r \in {c, g, t} : TxOk(r) /\ RxOk(r)
    BY <2>7, <2>8 DEF TxOk, RxOk, InFlight, tcb_txfifo_used, tcb_rxfifo_used
  <2>10. EndOk(e, t) /\ (k.st \in {"ESTABLISHED", "FIN_WAIT1"} => EndOk(e, c) /\ EndOk(e, g))
    BY <2>5, <2>7, <2>8, <2>9, MovedOk
  <2>11. \E r : FinReceived(x, s) = On(y, r) /\ EndOk(e, r)
    BY <2>6, <2>7, <2>10
  <2> QED BY <2>5, <2>11, OnGood
<1> QED BY <1>2, <1>3

LEMMA SegLenIs ==
  ASSUME NEW e \in Ends, NEW s \in SegTo(e)
  PROVE  SegLen(s) \in Nat /\ ("FIN" \in s.flags => SegLen(s) # 0)
<1> DEFINE F == s.flags \cap {"SYN", "FIN"}
<1>1. IsFiniteSet({"SYN", "FIN"})
  <2>1. IsFiniteSet({"SYN"})
    BY FS_Singleton
  <2>2. IsFiniteSet({"SYN"} \cup {"FIN"})
    BY <2>1, FS_AddElement
  <2>3. {"SYN", "FIN"} = {"SYN"} \cup {"FIN"}
    OBVIOUS
  <2> QED BY <2>2, <2>3
<1>2. F \subseteq {"SYN", "FIN"}
  OBVIOUS
<1> HIDE DEF F
<1>3. IsFiniteSet(F)
  BY <1>1, <1>2, FS_Subset
<1>4. Cardinality(F) \in Nat /\ (F # {} => Cardinality(F) # 0)
  BY <1>3, FS_CardinalityType, FS_EmptySet
<1>5. "FIN" \in s.flags => F # {}
  BY DEF F
<1> QED BY <1>4, <1>5, SegmentIs DEF SegLen, F

LEMMA RejectGood ==
  ASSUME NEW e \in Ends, NEW x \in Good(e), NEW s
  PROVE  Reject(x, s) \in Good(e)
<1> DEFINE k == [x.k EXCEPT !.lim = @ + 1]
<1>1. x.k \in Tcb /\ EndOk(e, x.k)
  BY DEF Good, Sends
<1>2. k \in Tcb /\ Alike(x.k, k)
  BY <1>1 DEF Tcb, Alike, Same, EndOk, ListOk
<1> HIDE DEF k
<1>3. On(x, k) \in Good(e)
  BY <1>1, <1>2, AlikeOk, OnGood
<1>4. x.k.nxt \in Num /\ x.k.rnxt \in Num /\ tcb_rxfifo_avail(x.k) \in Nat /\ Fits(e, {"ACK"}, 0)
  BY <1>1, Avail DEF Tcb, Fits
<1>5. Reply(On(x, k), x.k.nxt, x.k.rnxt, {"ACK"}, tcb_rxfifo_avail(x.k)) \in Good(e)
  BY <1>3, <1>4, ReplyGood
<1> QED BY <1>5 DEF Reject, k

LEMMA InputGood ==
  ASSUME NEW e \in Ends, NEW x \in Good(e), x.k.listed, NEW s \in SegTo(e)
  PROVE  tcp_input_ipv4(x, s) \in Good(e)
<1> DEFINE k == [x.k EXCEPT !.lim = 0]
           h == [k EXCEPT !.heard = TRUE]
           synd == IF h.st = "SYN_RECEIVED" THEN Established(h, s) ELSE h
           badack == k.st = "SYN_RECEIVED" /\ ~(Signed(s.ack, k.una) >= 0 /\ Signed(k.nxt, s.ack) <= 0)
           beyond == Signed(s.ack, k.una) >= 0 /\ Signed(k.nxt, s.ack) < 0
<1>1. x.k \in Tcb /\ EndOk(e, x.k)
  BY DEF Good, Sends
<1>2. CASE k.st = "SYN_SENT"
  <2>1. x.k.st = "SYN_SENT"
    BY <1>1, <1>2 DEF Tcb
  <2>2. tcp_input_ipv4(x, s) = InSynSent(x, s)
    BY <1>2 DEF tcp_input_ipv4
  <2> QED BY <2>1, <2>2, SynSentGood
<1>3. CASE k.st # "SYN_SENT" /\ ~Acceptable(k, s)
  <2>1. tcp_input_ipv4(x, s) = Reject(x, s)
    BY <1>3 DEF tcp_input_ipv4
  <2> QED BY <2>1, RejectGood
<1>4. CASE k.st # "SYN_SENT" /\ Acceptable(k, s)
  <2>1. k \in Tcb /\ Alike(x.k, k)
    BY <1>1 DEF Tcb, Alike, Same, EndOk, ListOk
  <2>2. EndOk(e, k) /\ k.listed /\ k.st # "CLOSED" /\ RxOk(k)
    BY <1>1, <2>1, AlikeOk DEF Alike, EndOk, ListOk
  <2>3. k.nxt \in Num /\ k.rnxt \in Num /\ tcb_rxfifo_avail(k) \in Nat /\ 0 \in Nat
    BY <2>1, Avail DEF Tcb
  <2>4. Fits(e, {"ACK"}, 0) /\ Fits(e, {"RST"}, 0)
    BY DEF Fits
  <2>5. "FIN" \in s.flags => tcb_rxfifo_avail(k) > 0
    BY <1>4, SegLenIs DEF Acceptable
  <2> HIDE DEF k
  <2>6. h \in Tcb /\ Alike(k, h)
    BY <2>1, <2>2 DEF Tcb, Alike, Same
  <2> HIDE DEF h
  <2>7. EndOk(e, h) /\ h.listed /\ h.st = k.st /\ h.rnxt = k.rnxt /\ h.rd = k.rd /\ h.una = k.una /\ h.nxt = k.nxt
    BY <2>2, <2>6, AlikeOk DEF Alike
  <2>8. On(x, k) \in Good(e) /\ On(x, k).k = k /\ On(x, h) \in Good(e) /\ On(x, h).k = h
    BY <2>2, <2>7, OnGood
  <2>9. CASE "RST" \in s.flags
    <3>1. tcp_input_ipv4(x, s) = tcp_close(On(x, k))
      BY <1>4, <2>9 DEF tcp_input_ipv4, k
    <3> QED BY <2>2, <2>8, <3>1, CloseGood
  <2>10. CASE "RST" \notin s.flags /\ "SYN" \in s.flags
    <3>1. tcp_input_ipv4(x, s) = Reply(On(x, k), k.nxt, k.rnxt, {"RST"}, 0)
      BY <1>4, <2>10 DEF tcp_input_ipv4, k
    <3> QED BY <2>3, <2>4, <2>8, <3>1, ReplyGood
  <2>11. CASE "RST" \notin s.flags /\ "SYN" \notin s.flags /\ "ACK" \notin s.flags
    <3>1. tcp_input_ipv4(x, s) = On(x, k)
      BY <1>4, <2>11 DEF tcp_input_ipv4, k
    <3> QED BY <2>8, <3>1
  <2> DEFINE ok == "RST" \notin s.flags /\ "SYN" \notin s.flags /\ "ACK" \in s.flags
  <2>12. CASE ok /\ badack
    <3>1. tcp_input_ipv4(x, s) = Reply(On(x, h), k.nxt, k.rnxt, {"RST"}, 0)
      BY <1>4, <2>12 DEF tcp_input_ipv4, k, h
    <3> QED BY <2>3, <2>4, <2>8, <3>1, ReplyGood
  <2>13. CASE ok /\ ~badack /\ k.st = "LAST_ACK"
    <3>1. tcp_input_ipv4(x, s) = tcp_close(On(x, h))
      BY <1>4, <2>13 DEF tcp_input_ipv4, k, h
    <3> QED BY <2>7, <2>8, <3>1, CloseGood
  <2>14. tcb_rxfifo_avail(h) = tcb_rxfifo_avail(k)
    BY <2>7 DEF tcb_rxfifo_avail, tcb_rxfifo_used
  <2>15. CASE ok /\ ~badack /\ k.st = "TIME_WAIT"
    <3>1. tcp_input_ipv4(x, s) = FinReceived(On(x, h), s)
      BY <1>4, <2>15 DEF tcp_input_ipv4, k, h
    <3> QED BY <1>4, <2>5, <2>7, <2>8, <2>14, <3>1, FinReceivedGood
  <2>16. /\ EndOk(e, synd) /\ synd.listed /\ (k.st # "TIME_WAIT" => synd.st # "TIME_WAIT") /\ synd.st # "SYN_SENT"
         /\ synd.rd = k.rd /\ synd.rnxt = k.rnxt /\ synd.una = k.una /\ synd.nxt = k.nxt
    <3>1. CASE h.st = "SYN_RECEIVED"
      <4> DEFINE b == [h EXCEPT !.st = "ESTABLISHED", !.wnd = s.wnd, !.wl1 = s.seq, !.wl2 = s.ack]
      <4>1. synd = b
        BY <3>1 DEF Established
      <4>2. s.seq \in Num /\ s.ack \in Num /\ s.wnd \in Nat /\ "ESTABLISHED" \in States
        BY SegmentIs, StateNames
      <4>3. b \in Tcb
        BY <2>6, <4>2 DEF Tcb
      <4>4. /\ b.st = "ESTABLISHED" /\ b.rd = h.rd /\ b.rnxt = h.rnxt /\ b.una = h.una /\ b.nxt = h.nxt
            /\ b.wr = h.wr /\ b.pfin = h.pfin /\ b.listed = h.listed /\ b.rtx = h.rtx /\ b.up = h.up /\ b.app = h.app
            /\ b.done = h.done /\ b.sig = h.sig /\ b.psyn = h.psyn
        BY <2>6 DEF Tcb
      <4> HIDE DEF b
      <4>5. TxOk(b) /\ RxOk(b)
        BY <2>7, <4>4 DEF EndOk, TxOk, RxOk, InFlight, tcb_txfifo_used, tcb_rxfifo_used
      <4>6. Moved(h, b)
        BY <2>7, <3>1, <4>4 DEF Moved, EndOk, ListOk
      <4>7. EndOk(e, b)
        BY <2>7, <4>3, <4>5, <4>6, MovedOk
      <4> QED BY <2>7, <4>1, <4>4, <4>7
    <3>2. CASE h.st # "SYN_RECEIVED"
      BY <1>4, <2>7, <3>2
    <3> QED BY <3>1, <3>2
  <2> DEFINE rest == ok /\ ~badack /\ k.st \notin {"LAST_ACK", "TIME_WAIT"}
  <2>17. CASE rest /\ beyond
    <3>1. tcp_input_ipv4(x, s) = Reply(On(x, synd), k.nxt, k.rnxt, {"ACK"}, tcb_rxfifo_avail(k))
      BY <1>4, <2>17 DEF tcp_input_ipv4, k, h
    <3>2. On(x, synd) \in Good(e)
      BY <2>16, OnGood
    <3> QED BY <2>3, <2>4, <3>1, <3>2, ReplyGood
  <2>18. CASE rest /\ ~beyond
    <3> DEFINE a == Acked(synd, s)
               z == On(x, a)
               p == Payload(z, s)
    <3>1. tcp_input_ipv4(x, s) = FinReceived(p, s)
      BY <1>4, <2>18 DEF tcp_input_ipv4, k, h
    <3>2. ~(Signed(s.ack, synd.una) >= 0 /\ Signed(synd.nxt, s.ack) < 0) /\ synd.st \notin {"SYN_SENT", "TIME_WAIT"}
      BY <2>16, <2>18
    <3> HIDE DEF synd
    <3>3. EndOk(e, a) /\ a.listed /\ a.st # "SYN_SENT" /\ a.rd = synd.rd /\ a.rnxt = synd.rnxt
      BY <2>16, <3>2, AckedGood
    <3> HIDE DEF a
    <3>4. z \in Good(e) /\ z.k = a
      BY <3>3, OnGood
    <3>5. tcb_rxfifo_avail(a) = tcb_rxfifo_avail(k)
      BY <2>16, <3>3 DEF tcb_rxfifo_avail, tcb_rxfifo_used
    <3> HIDE DEF z
    <3>6. p \in Good(e) /\ p.k.listed /\ p.k.st # "SYN_SENT" /\ ("FIN" \in s.flags => p = z)
      BY <3>3, <3>4, PayloadGood
    <3> HIDE DEF p
    <3> QED BY <2>5, <3>1, <3>4, <3>5, <3>6, FinReceivedGood
  <2> QED BY <2>9, <2>10, <2>11, <2>12, <2>13, <2>15, <2>17, <2>18
<1> QED BY <1>2, <1>3, <1>4

-----------------------------------------------------------------------------
(* The steps.                                                              *)

LEMMA EndIn ==
  ASSUME IInv, NEW e \in Ends
  PROVE  /\ tcb[e] \in Tcb /\ EndOk(e, tcb[e]) /\ wire[e] \in Seq(SegTo(e))
         /\ At(e, tcb[e]) \in Good(e) /\ At(e, tcb[e]).k = tcb[e]
<1>1. tcb[e] \in Tcb /\ EndOk(e, tcb[e]) /\ wire[e] \in Seq(SegTo(e))
  BY DEF IInv
<1> QED BY <1>1, AtGood DEF Good

LEMMA MovesKeeps ==
  ASSUME IInv, NEW e \in Ends, NEW x \in Good(e), NEW w, DOMAIN w = Ends, \A o \in Ends : w[o] \in Seq(SegTo(o)),
         Moves(e, x, w), faults' \in Nat
  PROVE  IInv'
<1>1. x.k \in Tcb /\ EndOk(e, x.k) /\ x.out \in Seq(SegTo(Other(e)))
  BY DEF Good, Sends
<1>2. tcb' = [tcb EXCEPT ![e] = x.k] /\ wire' = [w EXCEPT ![Other(e)] = @ \o x.out]
  BY DEF Moves
<1>3. tcb' \in [Ends -> Tcb] /\ \A o \in Ends : EndOk(o, tcb'[o])
  <2>1. tcb \in [Ends -> Tcb] /\ \A o \in Ends : EndOk(o, tcb[o])
    BY DEF IInv
  <2>2. tcb' \in [Ends -> Tcb]
    BY <1>1, <1>2, <2>1
  <2>3. \A o \in Ends : tcb'[o] = IF o = e THEN x.k ELSE tcb[o]
    BY <1>2, <2>1
  <2> QED BY <1>1, <2>1, <2>2, <2>3
<1>4. DOMAIN wire' = Ends /\ \A o \in Ends : wire'[o] \in Seq(SegTo(o))
  <2>1. Other(e) \in Ends
    BY TheOther
  <2>2. DOMAIN wire' = Ends /\ \A o \in Ends : wire'[o] = IF o = Other(e) THEN w[o] \o x.out ELSE w[o]
    BY <1>2, <2>1
  <2>3. w[Other(e)] \o x.out \in Seq(SegTo(Other(e)))
    BY <1>1, <2>1
  <2> QED BY <2>2, <2>3
<1> QED BY <1>3, <1>4 DEF IInv

LEMMA BecomesKeeps ==
  ASSUME IInv, NEW e \in Ends, NEW x \in Good(e), NEW w, DOMAIN w = Ends, \A o \in Ends : w[o] \in Seq(SegTo(o)),
         Becomes(e, x, w)
  PROVE  IInv'
<1>1. Moves(e, x, w) /\ faults' = faults
  BY DEF Becomes
<1>2. faults' \in Nat
  BY <1>1 DEF IInv
<1> QED BY <1>1, <1>2, MovesKeeps

LEMMA OnWire ==
  ASSUME IInv, NEW e \in Ends, NEW x \in Good(e), Becomes(e, x, wire)
  PROVE  IInv'
<1>1. PICK w : w = wire
  OBVIOUS
<1>2. DOMAIN w = Ends /\ \A o \in Ends : w[o] \in Seq(SegTo(o))
  BY <1>1 DEF IInv
<1>3. Becomes(e, x, w)
  BY <1>1
<1> QED BY <1>2, <1>3, BecomesKeeps

LEMMA OnRest ==
  ASSUME IInv, NEW e \in Ends, NEW x \in Good(e), wire[e] # <<>>, Becomes(e, x, Rest(e))
  PROVE  IInv'
<1>1. PICK w : w = Rest(e)
  OBVIOUS
<1>2. DOMAIN w = Ends /\ \A o \in Ends : w[o] \in Seq(SegTo(o))
  <2>1. DOMAIN wire = Ends /\ \A o \in Ends : wire[o] \in Seq(SegTo(o))
    BY DEF IInv
  <2>2. Tail(wire[e]) \in Seq(SegTo(e))
    BY <2>1
  <2>3. DOMAIN w = Ends /\ \A o \in Ends : w[o] = IF o = e THEN Tail(wire[e]) ELSE wire[o]
    BY <1>1, <2>1 DEF Rest
  <2> QED BY <2>1, <2>2, <2>3
<1>3. Becomes(e, x, w)
  BY <1>1
<1> QED BY <1>2, <1>3, BecomesKeeps

LEMMA LocalKeeps ==
  ASSUME IInv, NEW e \in Ends, NEW k, EndOk(e, k), Local(e, k)
  PROVE  IInv'
<1>1. tcb' = [tcb EXCEPT ![e] = k] /\ wire' = wire /\ faults' = faults /\ k \in Tcb
  BY DEF Local, EndOk
<1>2. tcb \in [Ends -> Tcb] /\ \A o \in Ends : EndOk(o, tcb[o])
  BY DEF IInv
<1>3. tcb' \in [Ends -> Tcb] /\ \A o \in Ends : tcb'[o] = IF o = e THEN k ELSE tcb[o]
  BY <1>1, <1>2
<1>4. \A o \in Ends : EndOk(o, tcb'[o])
  BY <1>2, <1>3
<1>5. DOMAIN wire' = Ends /\ (\A o \in Ends : wire'[o] \in Seq(SegTo(o))) /\ faults' \in Nat
  BY <1>1 DEF IInv
<1> QED BY <1>3, <1>4, <1>5 DEF IInv

\* The task with and without a buffer.
LEMMA TaskGood ==
  ASSUME NEW e \in Ends, NEW k0, EndOk(e, k0), k0.up
  PROVE  /\ Handle(At(e, [k0 EXCEPT !.sig = {}]), k0.sig) \in Good(e)
         /\ Handle(Dry(At(e, [k0 EXCEPT !.sig = {}])), k0.sig) \in Good(e)
<1>1. PICK k : k = [k0 EXCEPT !.sig = {}]
  OBVIOUS
<1>2. k \in Tcb
  BY <1>1 DEF EndOk, Tcb
<1>3. PICK x : x = At(e, k)
  OBVIOUS
<1>4. x \in Sends(e) /\ x.k = k
  BY <1>2, <1>3, AtGood
<1>5. PICK d : d = Dry(x)
  OBVIOUS
<1>6. d \in Sends(e) /\ d.k = k
  BY <1>4, <1>5 DEF Dry, Sends
<1>7. Handle(x, k0.sig) \in Good(e) /\ Handle(d, k0.sig) \in Good(e)
  BY <1>1, <1>4, <1>6, HandleGood
<1> QED BY <1>1, <1>3, <1>5, <1>7

LEMMA TaskKeeps == ASSUME IInv, NEW e \in Ends, tcp_task_cb(e) PROVE IInv'
<1>1. PICK k0 : k0 = tcb[e]
  OBVIOUS
<1>2. EndOk(e, k0) /\ k0.up
  BY <1>1, EndIn DEF tcp_task_cb
<1>3. PICK x : x = Handle(At(e, [k0 EXCEPT !.sig = {}]), k0.sig)
  OBVIOUS
<1>4. x \in Good(e)
  BY <1>2, <1>3, TaskGood
<1>5. Becomes(e, x, wire)
  BY <1>1, <1>3 DEF tcp_task_cb
<1> QED BY <1>4, <1>5, OnWire

LEMMA FoundKeeps == ASSUME IInv, NEW e \in Ends, SegmentFound(e) PROVE IInv'
<1>1. PICK x : x = At(e, tcb[e])
  OBVIOUS
<1>2. PICK s : s = Head(wire[e])
  OBVIOUS
<1>3. x \in Good(e) /\ x.k.listed
  BY <1>1, EndIn DEF SegmentFound
<1>4. s \in SegTo(e) /\ wire[e] # <<>>
  BY <1>2, EndIn DEF SegmentFound
<1>5. PICK y : y = tcp_input_ipv4(x, s)
  OBVIOUS
<1>6. y \in Good(e)
  BY <1>3, <1>4, <1>5, InputGood
<1>7. Becomes(e, y, Rest(e))
  BY <1>1, <1>2, <1>5 DEF SegmentFound
<1> QED BY <1>4, <1>6, <1>7, OnRest

LEMMA SynKeeps == ASSUME IInv, SynReceived PROVE IInv'
<1>1. "srv" \in Ends /\ wire["srv"] # <<>>
  BY DEF SynReceived, Ends
<1>2. PICK s : s = Head(wire["srv"])
  OBVIOUS
<1>3. s \in SegTo("srv") /\ s.seq \in Num
  BY <1>1, <1>2, EndIn, SegmentIs
<1>4. PICK x : x = At("srv", tcb["srv"])
  OBVIOUS
<1>5. x \in Good("srv")
  BY <1>1, <1>4, EndIn
<1>6. PICK r : r = Reply(x, 0, Plus(s.seq, 1), {"RST", "ACK"}, 0)
  OBVIOUS
<1>7. r \in Good("srv")
  <2>1. Plus(s.seq, 1) \in Num
    BY <1>3, PlusIs, Sizes
  <2>2. 0 \in Num
    BY Sizes DEF Num
  <2>3. Fits("srv", {"RST", "ACK"}, 0) /\ 0 \in Nat
    BY DEF Fits
  <2> QED BY <1>1, <1>5, <1>6, <2>1, <2>2, <2>3, ReplyGood
<1>8. PICK k : k = [tcb_create("srv") EXCEPT !.rnxt = Plus(s.seq, 1), !.rd = Plus(s.seq, 1)]
  OBVIOUS
<1>9. PICK y : y = tcp_send_syn(At("srv", k), {"SYN", "ACK"})
  OBVIOUS
<1>10. PICK z : z = On(y, [y.k EXCEPT !.st = "SYN_RECEIVED", !.listed = TRUE])
  OBVIOUS
<1>11. z \in Good("srv")
  BY <1>3, <1>8, <1>9, <1>10, ServiceGood
<1>12. Becomes("srv", r, Rest("srv")) \/ Becomes("srv", z, Rest("srv"))
  BY <1>2, <1>4, <1>6, <1>8, <1>9, <1>10 DEF SynReceived
<1> QED BY <1>1, <1>7, <1>11, <1>12, OnRest

LEMMA UnknownKeeps == ASSUME IInv, NEW e \in Ends, SegmentUnknown(e) PROVE IInv'
<1>1. PICK x : x = At(e, tcb[e])
  OBVIOUS
<1>2. PICK s : s = Head(wire[e])
  OBVIOUS
<1>3. x \in Good(e)
  BY <1>1, EndIn
<1>4. s \in SegTo(e) /\ wire[e] # <<>>
  BY <1>2, EndIn DEF SegmentUnknown
<1>5. s.ack \in Num /\ s.seq \in Num /\ SegLen(s) \in Nat
  BY <1>4, SegmentIs, SegLenIs
<1>6. PICK r : r = Reply(x, s.ack, 0, {"RST"}, 0)
  OBVIOUS
<1>7. PICK q : q = Reply(x, 0, Plus(s.seq, SegLen(s)), {"RST", "ACK"}, 0)
  OBVIOUS
<1>8. r \in Good(e) /\ q \in Good(e)
  <2>1. Plus(s.seq, SegLen(s)) \in Num
    <3>1. s.seq + SegLen(s) \in Int /\ SeqSpace \in Nat /\ SeqSpace > 0
      BY <1>5, Sizes DEF Num
    <3> QED BY <3>1 DEF Plus, Num
  <2>2. 0 \in Num
    BY Sizes DEF Num
  <2>3. Fits(e, {"RST", "ACK"}, 0) /\ Fits(e, {"RST"}, 0) /\ 0 \in Nat
    BY DEF Fits
  <2> QED BY <1>3, <1>5, <1>6, <1>7, <2>1, <2>2, <2>3, ReplyGood
<1>9. Becomes(e, x, Rest(e)) \/ Becomes(e, r, Rest(e)) \/ Becomes(e, q, Rest(e))
  BY <1>1, <1>2, <1>6, <1>7 DEF SegmentUnknown
<1> QED BY <1>3, <1>4, <1>8, <1>9, OnRest

\* A timer that is armed belongs to a connection on tcbs.
LEMMA TimerListed ==
  ASSUME IInv, NEW e \in Ends, NEW timer \in {"rtx", "tw", "dack"}, Expires(e, timer)
  PROVE  tcb[e].listed /\ tcb[e].up
<1>1. tcb[e] \in Tcb /\ EndOk(e, tcb[e])
  BY EndIn
<1>2. tcb[e].rtx \/ tcb[e].tw \/ tcb[e].dack
  <2>1. tcb[e][timer]
    BY DEF Expires
  <2> QED BY <2>1
<1> QED BY <1>1, <1>2 DEF EndOk, ListOk

LEMMA TimersKeep == ASSUME IInv, NEW e \in Ends, Timers(e) PROVE IInv'
<1>1. PICK x : x = At(e, tcb[e])
  OBVIOUS
<1>2. x \in Good(e) /\ x.k = tcb[e] /\ x.k \in Tcb /\ EndOk(e, x.k)
  BY <1>1, EndIn
<1>3. CASE tcp_rtx_cb(e)
  <2>1. x.k.listed
    BY <1>2, <1>3, TimerListed DEF tcp_rtx_cb
  <2>2. PICK y : y = tcp_emit(x, x.k.una, FALSE)
    OBVIOUS
  <2>3. y \in Good(e)
    BY <1>2, <2>1, <2>2, EmitGood
  <2>4. Becomes(e, y, wire)
    BY <1>1, <1>2, <1>3, <2>2 DEF tcp_rtx_cb
  <2> QED BY <2>3, <2>4, OnWire
<1>4. CASE KeepAlive(e)
  <2>1. PICK y : y = tcp_output_tcb(x, Minus(x.k.una, 1), {"PSH", "ACK"}, 0)
    OBVIOUS
  <2>2. Minus(x.k.una, 1) \in Num
    <3>1. 1 \in Num
      BY Sizes DEF Num
    <3>2. x.k.una \in Num
      BY <1>2 DEF Tcb
    <3> QED BY <3>1, <3>2, MinusIs
  <2>3. Fits(e, {"PSH", "ACK"}, 0)
    BY DEF Fits
  <2>4. y \in Good(e)
    BY <1>2, <2>1, <2>2, <2>3, Outputs DEF Good
  <2>5. Becomes(e, y, wire)
    BY <1>1, <1>2, <1>4, <2>1 DEF KeepAlive
  <2> QED BY <2>4, <2>5, OnWire
<1>5. ASSUME x.k.listed PROVE \E y \in Good(e) : y = tcp_close(x)
  BY <1>2, <1>5, CloseGood
<1>6. CASE tcp_timeout(e)
  <2>1. x.k.listed
    BY <1>2, <1>6, TimerListed DEF tcp_timeout
  <2>2. PICK y \in Good(e) : y = tcp_close(x)
    BY <1>5, <2>1
  <2>3. Becomes(e, y, wire)
    BY <1>1, <1>6, <2>2 DEF tcp_timeout
  <2> QED BY <2>3, OnWire
<1>7. CASE tcp_time_wait_cb(e)
  <2>1. x.k.listed
    BY <1>2, <1>7, TimerListed DEF tcp_time_wait_cb
  <2>2. PICK y \in Good(e) : y = tcp_close(x)
    BY <1>5, <2>1
  <2>3. Becomes(e, y, wire)
    BY <1>1, <1>7, <2>2 DEF tcp_time_wait_cb
  <2> QED BY <2>3, OnWire
<1>8. CASE Outage(e)
  <2>1. x.k.listed
    BY <1>2, <1>8, TimerListed DEF Outage
  <2>2. PICK y \in Good(e) : y = tcp_close(x)
    BY <1>5, <2>1
  <2>3. tcb' = [tcb EXCEPT ![e] = y.k] /\ wire' = wire /\ faults' = faults + 1
    BY <1>1, <1>8, <2>2 DEF Outage
  <2>4. y.k \in Tcb /\ EndOk(e, y.k)
    BY DEF Good, Sends
  <2>5. tcb \in [Ends -> Tcb] /\ \A o \in Ends : EndOk(o, tcb[o])
    BY DEF IInv
  <2>6. tcb' \in [Ends -> Tcb] /\ \A o \in Ends : tcb'[o] = IF o = e THEN y.k ELSE tcb[o]
    BY <2>3, <2>4, <2>5
  <2>7. \A o \in Ends : EndOk(o, tcb'[o])
    BY <2>4, <2>5, <2>6
  <2>8. DOMAIN wire' = Ends /\ (\A o \in Ends : wire'[o] \in Seq(SegTo(o))) /\ faults' \in Nat
    BY <2>3 DEF IInv
  <2> QED BY <2>6, <2>7, <2>8 DEF IInv
<1>9. CASE tcp_delayed_ack_cb(e)
  <2>1. x.k.listed
    BY <1>2, <1>9, TimerListed DEF tcp_delayed_ack_cb
  <2>2. PICK y : y = tcp_emit(x, x.k.nxt, TRUE)
    OBVIOUS
  <2>3. y \in Good(e)
    BY <1>2, <2>1, <2>2, EmitGood
  <2>4. Becomes(e, y, wire)
    BY <1>1, <1>2, <1>9, <2>2 DEF tcp_delayed_ack_cb
  <2> QED BY <2>3, <2>4, OnWire
<1>10. CASE Premature(e)
  <2>1. x.k.listed
    BY <1>2, <1>10, TimerListed DEF Premature
  <2>2. PICK y \in Good(e) : Moves(e, y, wire)
    <3>1. PICK r : r = tcp_emit(x, x.k.una, FALSE)
      OBVIOUS
    <3>2. PICK a : a = tcp_emit(x, x.k.nxt, TRUE)
      OBVIOUS
    <3>3. r \in Good(e) /\ a \in Good(e)
      BY <1>2, <2>1, <3>1, <3>2, EmitGood
    <3>4. Moves(e, r, wire) \/ Moves(e, a, wire)
      BY <1>1, <1>2, <1>10, <3>1, <3>2 DEF Premature
    <3> QED BY <3>3, <3>4
  <2>3. faults' \in Nat
    BY <1>10 DEF Premature, IInv
  <2>4. PICK w : w = wire
    OBVIOUS
  <2>5. DOMAIN w = Ends /\ (\A o \in Ends : w[o] \in Seq(SegTo(o))) /\ Moves(e, y, w)
    BY <2>2, <2>4 DEF IInv
  <2> QED BY <2>2, <2>3, <2>5, MovesKeeps
<1>11. CASE NoBuffer(e)
  <2>1. PICK y \in Good(e) : Moves(e, y, wire)
    <3>1. CASE tcb[e].sig # {} /\ tcb[e].up /\ Moves(e, Handle(Dry(At(e, [tcb[e] EXCEPT !.sig = {}])), tcb[e].sig), wire)
      <4>1. PICK k0 : k0 = tcb[e]
        OBVIOUS
      <4>2. EndOk(e, k0) /\ k0.up
        BY <1>2, <3>1, <4>1
      <4>3. PICK z : z = Handle(Dry(At(e, [k0 EXCEPT !.sig = {}])), k0.sig)
        OBVIOUS
      <4>4. z \in Good(e)
        BY <4>2, <4>3, TaskGood
      <4> QED BY <3>1, <4>1, <4>3, <4>4
    <3>2. CASE Expires(e, "dack") /\ Moves(e, Dry(At(e, [tcb[e] EXCEPT !.dack = FALSE])), wire)
      <4>1. x.k.listed
        BY <1>2, <3>2, TimerListed
      <4>2. PICK k : k = [x.k EXCEPT !.dack = FALSE]
        OBVIOUS
      <4>3. k \in Tcb /\ Alike(x.k, k) /\ k.listed
        BY <1>2, <4>1, <4>2 DEF Tcb, Alike, Same
      <4>4. EndOk(e, k)
        BY <1>2, <4>3, AlikeOk
      <4>5. PICK z : z = Dry(At(e, k))
        OBVIOUS
      <4>6. z \in Sends(e) /\ z.k = k
        <5>1. PICK a : a = At(e, k)
          OBVIOUS
        <5>2. a \in Sends(e) /\ a.k = k
          BY <4>3, <5>1, AtGood
        <5> QED BY <4>5, <5>1, <5>2 DEF Dry, Sends
      <4>7. z \in Good(e)
        BY <4>4, <4>6 DEF Good
      <4>8. Moves(e, z, wire)
        BY <1>2, <3>2, <4>2, <4>5
      <4> QED BY <4>7, <4>8
    <3> QED BY <1>11, <3>1, <3>2 DEF NoBuffer
  <2>2. faults' \in Nat
    BY <1>11 DEF NoBuffer, IInv
  <2>3. PICK w : w = wire
    OBVIOUS
  <2>4. DOMAIN w = Ends /\ (\A o \in Ends : w[o] \in Seq(SegTo(o))) /\ Moves(e, y, w)
    BY <2>1, <2>3 DEF IInv
  <2> QED BY <2>1, <2>2, <2>4, MovesKeeps
<1> QED BY <1>3, <1>4, <1>6, <1>7, <1>8, <1>9, <1>10, <1>11 DEF Timers

LEMMA RaiseOk ==
  ASSUME NEW e \in Ends, NEW k, EndOk(e, k), NEW ev \in {"wnd_open", "emit", "flush"}
  PROVE  EndOk(e, Raise(k, ev))
<1>1. k \in Tcb /\ ev \in Signals
  BY DEF EndOk, Signals
<1>2. PICK r : r = Raise(k, ev)
  OBVIOUS
<1>3. r \in Tcb /\ Raises(k, r, ev)
  BY <1>1, <1>2, Raised
<1>4. TxOk(r) /\ RxOk(r)
  BY <1>3 DEF Raises, EndOk, TxOk, RxOk, InFlight, tcb_txfifo_used, tcb_rxfifo_used
<1>5. ListOk(r) /\ CloseOk(r)
  BY <1>3 DEF Raises, EndOk, ListOk, CloseOk
<1>6. SynOk(e, r)
  BY <1>3 DEF Raises, EndOk, SynOk
<1> QED BY <1>2, <1>3, <1>4, <1>5, <1>6 DEF EndOk

\* A reader is given no more than there is.
LEMMA ReadKeeps == ASSUME IInv, NEW e \in Ends, tcp_stream_read(e) PROVE IInv'
<1>1. PICK k : k = tcb[e]
  OBVIOUS
<1>2. k \in Tcb /\ EndOk(e, k) /\ RxOk(k)
  BY <1>1, EndIn DEF EndOk
<1>3. PICK n : n = tcb_rxfifo_user_bytes(k)
  OBVIOUS
<1>4. k.rd \in Num /\ k.rnxt \in Num /\ k.fin \in BOOLEAN /\ Minus(k.rnxt, k.rd) \in Nat
  <2>1. k.rd \in Num /\ k.rnxt \in Num /\ k.fin \in BOOLEAN
    BY <1>2 DEF Tcb
  <2> QED BY <2>1, MinusNat
<1>5. n \in Nat /\ n <= Minus(k.rnxt, k.rd)
  <2>1. n > 0
    BY <1>1, <1>3 DEF tcp_stream_read
  <2> QED BY <1>3, <1>4, <2>1 DEF tcb_rxfifo_user_bytes, tcb_rxfifo_used
<1>6. Plus(k.rd, n) \in Num /\ Minus(k.rnxt, Plus(k.rd, n)) = Minus(k.rnxt, k.rd) - n
  BY <1>4, <1>5, MoveUp
<1>7. PICK c : c = [k EXCEPT !.rd = Plus(@, n)]
  OBVIOUS
<1>8. /\ c \in Tcb /\ c.rd = Plus(k.rd, n) /\ Same(k, c) /\ c.st = k.st /\ c.listed = k.listed /\ c.psyn = k.psyn
      /\ c.pfin = k.pfin /\ c.wr = k.wr /\ c.nxt = k.nxt /\ c.una = k.una /\ c.rnxt = k.rnxt
      /\ c.rtx = k.rtx /\ c.tw = k.tw /\ c.dack = k.dack
  BY <1>2, <1>6, <1>7 DEF Tcb, Same
<1>9. EndOk(e, c)
  <2>1. TxOk(c)
    BY <1>2, <1>8 DEF EndOk, TxOk, InFlight, tcb_txfifo_used
  <2>2. RxOk(c)
    BY <1>2, <1>4, <1>5, <1>6, <1>8, Sizes DEF RxOk, tcb_rxfifo_used
  <2>3. ListOk(c) /\ CloseOk(c)
    BY <1>2, <1>8 DEF EndOk, ListOk, CloseOk, Same
  <2>4. SynOk(e, c)
    BY <1>2, <1>8 DEF EndOk, SynOk, Same
  <2> QED BY <1>8, <2>1, <2>2, <2>3, <2>4 DEF EndOk
<1>10. PICK o : o = [c EXCEPT !.wclosed = FALSE]
  OBVIOUS
<1>11. EndOk(e, o)
  <2>1. o \in Tcb /\ Alike(c, o)
    BY <1>8, <1>9, <1>10 DEF Tcb, Alike, Same, EndOk, ListOk
  <2> QED BY <1>9, <2>1, AlikeOk
<1>12. PICK r : r = tcp_rxfifo_consume(k, n)
  OBVIOUS
<1>13. r = c \/ r = Raise(o, "wnd_open")
  BY <1>7, <1>10, <1>12 DEF tcp_rxfifo_consume
<1>14. EndOk(e, r)
  BY <1>9, <1>11, <1>13, RaiseOk
<1>15. Local(e, r)
  BY <1>1, <1>3, <1>12 DEF tcp_stream_read
<1> QED BY <1>14, <1>15, LocalKeeps

\* A writer writes no more than there is room for.
LEMMA WriteKeeps == ASSUME IInv, NEW e \in Ends, tcp_stream_writev(e) PROVE IInv'
<1>1. PICK k : k = tcb[e]
  OBVIOUS
<1>2. k \in Tcb /\ EndOk(e, k) /\ TxOk(k) /\ k.up /\ ~k.done /\ ~k.app /\ ~k.pfin
  BY <1>1, EndIn DEF EndOk, CloseOk, tcp_stream_writev, App
<1>3. CASE tcb_txfifo_used(k) >= TxSize
  <2>1. PICK u : u = Raise(k, "emit")
    OBVIOUS
  <2>2. EndOk(e, u) /\ u \in Tcb
    BY <1>2, <2>1, RaiseOk DEF EndOk
  <2>3. PICK r : r = [u EXCEPT !.sleeps = TRUE]
    OBVIOUS
  <2>4. r \in Tcb /\ Alike(u, r)
    BY <2>2, <2>3 DEF Tcb, Alike, Same, EndOk, ListOk
  <2>5. EndOk(e, r)
    BY <2>2, <2>4, AlikeOk
  <2>6. Local(e, r)
    BY <1>1, <1>3, <2>1, <2>3 DEF tcp_stream_writev
  <2> QED BY <2>5, <2>6, LocalKeeps
<1>4. CASE ~(tcb_txfifo_used(k) >= TxSize)
  <2>1. PICK n \in 1 .. TxSize - tcb_txfifo_used(k) :
          LET r == [k EXCEPT !.wr = Plus(@, n), !.data = @ + n, !.flushed = FALSE]
          IN  Local(e, IF Minus(r.wr, r.nxt) >= Mss \/ r.una = r.nxt THEN Raise(r, "emit") ELSE r)
    BY <1>1, <1>4 DEF tcp_stream_writev
  <2>2. PICK r : r = [k EXCEPT !.wr = Plus(@, n), !.data = @ + n, !.flushed = FALSE]
    OBVIOUS
  <2>3. k.wr \in Num /\ k.una \in Num /\ k.nxt \in Num
    BY <1>2 DEF Tcb
  <2>4. Minus(k.wr, k.una) \in Nat /\ Minus(k.nxt, k.una) \in Nat
    BY <2>3, MinusNat
  <2>5. n \in Nat /\ n > 0 /\ Minus(k.wr, k.una) + n <= TxSize /\ Minus(k.nxt, k.una) <= Minus(k.wr, k.una)
    BY <1>2, <2>4, Sizes DEF TxOk, InFlight, tcb_txfifo_used
  <2>6. Plus(k.wr, n) \in Num /\ Minus(Plus(k.wr, n), k.una) = Minus(k.wr, k.una) + n
    <3>1. Minus(k.wr, k.una) + n < SeqSpace
      BY <2>4, <2>5, Sizes
    <3> QED BY <2>3, <2>5, <3>1, MoveAway
  <2>7. /\ r \in Tcb /\ r.wr = Plus(k.wr, n) /\ Same(k, r) /\ r.st = k.st /\ r.listed = k.listed /\ r.psyn = k.psyn
        /\ r.pfin = k.pfin /\ r.nxt = k.nxt /\ r.una = k.una /\ r.rd = k.rd /\ r.rnxt = k.rnxt
        /\ r.rtx = k.rtx /\ r.tw = k.tw /\ r.dack = k.dack
    <3>1. r \in Tcb
      <4>1. k.data \in Nat
        BY <1>2 DEF Tcb
      <4>2. PICK m \in Nat : m = k.data + n
        BY <2>5, <4>1
      <4>3. PICK w \in Num : w = Plus(k.wr, n)
        BY <2>6
      <4>4. r = [k EXCEPT !.wr = w, !.data = m, !.flushed = FALSE]
        BY <2>2, <4>2, <4>3
      <4> QED BY <1>2, <4>4 DEF Tcb
    <3>2. /\ r.wr = Plus(k.wr, n) /\ Same(k, r) /\ r.st = k.st /\ r.listed = k.listed /\ r.psyn = k.psyn
          /\ r.pfin = k.pfin /\ r.nxt = k.nxt /\ r.una = k.una /\ r.rd = k.rd /\ r.rnxt = k.rnxt
          /\ r.rtx = k.rtx /\ r.tw = k.tw /\ r.dack = k.dack
      BY <1>2, <2>2 DEF Tcb, Same
    <3> QED BY <3>1, <3>2
  <2>8. TxOk(r) /\ RxOk(r)
    <3>1. TxOk(r)
      BY <1>2, <2>4, <2>5, <2>6, <2>7, Sizes DEF TxOk, InFlight, tcb_txfifo_used
    <3>2. RxOk(r)
      BY <1>2, <2>7 DEF EndOk, RxOk, tcb_rxfifo_used
    <3> QED BY <3>1, <3>2
  <2>9. ListOk(r) /\ CloseOk(r)
    BY <1>2, <2>7 DEF EndOk, ListOk, CloseOk, Same
  <2>10. SynOk(e, r)
    <3>1. r.una # r.wr
      <4>1. Minus(Plus(k.wr, n), k.una) # 0
        BY <2>4, <2>5, <2>6
      <4> QED BY <2>3, <2>6, <2>7, <4>1, SameIsZero
    <3> QED BY <1>2, <2>7, <3>1 DEF EndOk, SynOk, Same
  <2>11. EndOk(e, r)
    BY <2>7, <2>8, <2>9, <2>10 DEF EndOk
  <2>12. EndOk(e, Raise(r, "emit"))
    BY <2>11, RaiseOk
  <2>13. Local(e, r) \/ Local(e, Raise(r, "emit"))
    BY <2>1, <2>2
  <2>14. PICK u : u = Raise(r, "emit")
    OBVIOUS
  <2> QED BY <2>11, <2>12, <2>13, <2>14, LocalKeeps
<1> QED BY <1>3, <1>4

LEMMA AskKeeps == ASSUME IInv, NEW e \in Ends, Flush(e) \/ tcp_stream_close(e) PROVE IInv'
<1>1. PICK k : k = tcb[e]
  OBVIOUS
<1>2. k \in Tcb /\ EndOk(e, k) /\ k.up /\ ~k.done /\ ~k.app
  BY <1>1, EndIn DEF EndOk, CloseOk, Flush, tcp_stream_close, App
<1>3. CASE Flush(e)
  <2>1. PICK f : f = [k EXCEPT !.flushed = TRUE]
    OBVIOUS
  <2>2. f \in Tcb /\ Alike(k, f)
    BY <1>2, <2>1 DEF Tcb, Alike, Same, EndOk, ListOk
  <2>3. PICK r : r = Raise(f, "flush")
    OBVIOUS
  <2>4. EndOk(e, r)
    BY <1>2, <2>2, <2>3, AlikeOk, RaiseOk
  <2>5. Local(e, r)
    BY <1>1, <1>3, <2>1, <2>3 DEF Flush
  <2> QED BY <2>4, <2>5, LocalKeeps
<1>4. CASE tcp_stream_close(e)
  <2>1. PICK d : d = [k EXCEPT !.done = TRUE]
    OBVIOUS
  <2>2. /\ d \in Tcb /\ d.done /\ d.sig = k.sig /\ d.app = k.app /\ d.up = k.up /\ d.st = k.st /\ d.listed = k.listed
        /\ d.psyn = k.psyn /\ d.pfin = k.pfin /\ d.wr = k.wr /\ d.nxt = k.nxt /\ d.una = k.una /\ d.rd = k.rd
        /\ d.rnxt = k.rnxt /\ d.rtx = k.rtx /\ d.tw = k.tw /\ d.dack = k.dack
    BY <1>2, <2>1 DEF Tcb
  <2>3. PICK f : f = Raise(d, "flush")
    OBVIOUS
  <2>4. PICK r : r = Raise(f, "close")
    OBVIOUS
  <2>5. f \in Tcb /\ Raises(d, f, "flush") /\ r \in Tcb /\ Raises(f, r, "close")
    <3>1. "flush" \in Signals /\ "close" \in Signals
      BY DEF Signals
    <3>2. f \in Tcb /\ Raises(d, f, "flush")
      BY <2>2, <2>3, <3>1, Raised
    <3> QED BY <2>4, <3>1, <3>2, Raised
  <2>6. TxOk(r) /\ RxOk(r)
    BY <1>2, <2>2, <2>5 DEF Raises, EndOk, TxOk, RxOk, InFlight, tcb_txfifo_used, tcb_rxfifo_used
  <2>7. ListOk(r) /\ CloseOk(r)
    BY <1>2, <2>2, <2>5 DEF Raises, EndOk, ListOk, CloseOk
  <2>8. SynOk(e, r)
    BY <1>2, <2>2, <2>5 DEF Raises, EndOk, SynOk
  <2>9. EndOk(e, r)
    BY <2>5, <2>6, <2>7, <2>8 DEF EndOk
  <2>10. Local(e, r)
    BY <1>1, <1>4, <2>1, <2>3, <2>4 DEF tcp_stream_close
  <2> QED BY <2>9, <2>10, LocalKeeps
<1> QED BY <1>3, <1>4

\* The network loses, doubles and reorders, and makes nothing up.
LEMMA FaultKeeps == ASSUME IInv, NEW e \in Ends, Lose(e) \/ Double(e) \/ Overtake(e) PROVE IInv'
<1>1. PICK q \in Seq(SegTo(e)) : q = wire[e]
  BY EndIn
<1>2. \E w \in Seq(SegTo(e)) : Fault(e, w)
  <2>1. CASE Lose(e)
    <3>1. Tail(q) \in Seq(SegTo(e)) /\ Fault(e, Tail(q))
      BY <1>1, <2>1 DEF Lose
    <3> QED BY <3>1
  <2>2. CASE Double(e)
    <3>1. q # <<>> /\ Fault(e, <<Head(q)>> \o q)
      BY <1>1, <2>2 DEF Double
    <3>2. Head(q) \in SegTo(e)
      BY <3>1
    <3>3. <<Head(q)>> \o q \in Seq(SegTo(e))
      BY <3>2
    <3> QED BY <3>1, <3>3
  <2>3. CASE Overtake(e)
    <3>1. Len(q) > 1 /\ Fault(e, <<q[2], q[1]>> \o SubSeq(q, 3, Len(q)))
      BY <1>1, <2>3 DEF Overtake
    <3>2. q[1] \in SegTo(e) /\ q[2] \in SegTo(e)
      BY <3>1
    <3>3. SubSeq(q, 3, Len(q)) \in Seq(SegTo(e)) /\ <<q[2], q[1]>> \in Seq(SegTo(e))
      BY <3>2
    <3>4. <<q[2], q[1]>> \o SubSeq(q, 3, Len(q)) \in Seq(SegTo(e))
      BY <3>3
    <3> QED BY <3>1, <3>4
  <2> QED BY <2>1, <2>2, <2>3
<1>3. PICK w \in Seq(SegTo(e)) : Fault(e, w)
  BY <1>2
<1>4. tcb' = tcb /\ wire' = [wire EXCEPT ![e] = w] /\ faults' = faults + 1
  BY <1>3 DEF Fault
<1>5. DOMAIN wire' = Ends /\ \A o \in Ends : wire'[o] = IF o = e THEN w ELSE wire[o]
  BY <1>4 DEF IInv
<1> QED BY <1>3, <1>4, <1>5 DEF IInv

LEMMA TcpInit == Init => IInv
<1> SUFFICES ASSUME Init PROVE IInv
  OBVIOUS
<1>1. Ends = {"cli", "srv"} /\ "cli" \in Ends /\ "srv" \in Ends
  BY DEF Ends
<1>2. PICK k : k = [tcb_create("cli") EXCEPT !.st = "SYN_SENT", !.sig = {"connect"}]
  OBVIOUS
<1>3. EndOk("cli", k)
  <2>1. PICK c : c = tcb_create("cli")
    OBVIOUS
  <2>2. /\ c \in Tcb /\ c.up /\ ~c.listed /\ ~c.app /\ ~c.done /\ c.psyn = {} /\ ~c.pfin /\ c.wr = Plus(Iss["cli"], 1)
        /\ c.nxt = Iss["cli"] /\ c.una = Iss["cli"] /\ c.rd = 0 /\ c.rnxt = 0 /\ ~c.rtx /\ ~c.dack /\ ~c.tw
    <3>1. c \in Tcb
      BY <1>1, <2>1, Created
    <3> QED BY <2>1, <3>1 DEF tcb_create
  <2>3. /\ k \in Tcb /\ k.st = "SYN_SENT" /\ k.sig = {"connect"}
        /\ k.up /\ ~k.listed /\ ~k.app /\ ~k.done /\ k.psyn = {} /\ ~k.pfin /\ k.wr = Plus(Iss["cli"], 1)
        /\ k.nxt = Iss["cli"] /\ k.una = Iss["cli"] /\ k.rd = 0 /\ k.rnxt = 0 /\ ~k.rtx /\ ~k.dack /\ ~k.tw
    <3>1. "SYN_SENT" \in States /\ {"connect"} \in SUBSET Signals
      BY StateNames DEF Signals
    <3>2. PICK g : g = {"connect"}
      OBVIOUS
    <3>3. k = [c EXCEPT !.st = "SYN_SENT", !.sig = g] /\ g \in SUBSET Signals
      BY <1>2, <2>1, <3>1, <3>2
    <3>4. k \in Tcb
      BY <2>2, <3>1, <3>3 DEF Tcb
    <3> QED BY <2>2, <3>2, <3>3, <3>4 DEF Tcb
  <2>4. Minus(Plus(Iss["cli"], 1), Iss["cli"]) = 1 /\ Minus(Iss["cli"], Iss["cli"]) = 0 /\ Minus(0, 0) = 0
    <3>1. 0 \in Num
      BY Sizes DEF Num
    <3> QED BY <1>1, <3>1, Created, SameIsZero
  <2>5. TxOk(k) /\ RxOk(k)
    BY <2>3, <2>4, Sizes DEF TxOk, RxOk, InFlight, tcb_txfifo_used, tcb_rxfifo_used
  <2>6. ListOk(k) /\ CloseOk(k)
    BY <2>3 DEF ListOk, CloseOk
  <2>7. k.una # k.wr
    <3>1. Iss["cli"] \in Num /\ Plus(Iss["cli"], 1) \in Num
      BY <1>1, Created, Sizes
    <3> QED BY <2>3, <2>4, <3>1, SameIsZero
  <2>8. SynOk("cli", k)
    BY <2>3, <2>7 DEF SynOk
  <2> QED BY <2>3, <2>5, <2>6, <2>8 DEF EndOk
<1>4. EndOk("srv", Freed("srv"))
  <2>1. PICK f : f = Freed("srv")
    OBVIOUS
  <2>2. f \in Tcb /\ f.sig = {}
    BY <1>1, <2>1, Created DEF Freed, tcb_create
  <2>3. f = [f EXCEPT !.sig = {}]
    BY <2>2 DEF Tcb
  <2>4. EndOk("srv", [f EXCEPT !.sig = {}])
    BY <1>1, <2>1, FreedGood
  <2> QED BY <2>1, <2>3, <2>4
<1>5. tcb = [e \in Ends |-> IF e = "srv" THEN Freed(e) ELSE [tcb_create(e) EXCEPT !.st = "SYN_SENT", !.sig = {"connect"}]]
  BY DEF Init
<1>6. tcb["cli"] = k /\ tcb["srv"] = Freed("srv") /\ DOMAIN tcb = Ends
  BY <1>1, <1>2, <1>5
<1>7. k \in Tcb /\ Freed("srv") \in Tcb
  BY <1>3, <1>4 DEF EndOk
<1>8. tcb \in [Ends -> Tcb]
  <2>1. \A e \in Ends : tcb[e] \in Tcb
    BY <1>1, <1>6, <1>7
  <2>2. tcb = [e \in Ends |-> tcb[e]]
    BY <1>5
  <2> QED BY <2>1, <2>2
<1>9. wire = [e \in Ends |-> <<>>] /\ faults = 0
  BY DEF Init
<1>10. DOMAIN wire = Ends /\ \A e \in Ends : wire[e] \in Seq(SegTo(e))
  BY <1>9
<1> QED BY <1>1, <1>3, <1>4, <1>6, <1>8, <1>9, <1>10 DEF IInv

LEMMA TcpNext == IInv /\ [Next]_vars => IInv'
<1> SUFFICES ASSUME IInv, [Next]_vars PROVE IInv'
  OBVIOUS
<1>1. CASE UNCHANGED vars
  BY <1>1 DEF IInv, vars
<1>2. CASE Next
  <2>1. PICK e \in Ends :
          \/ tcp_task_cb(e) \/ Input(e) \/ Timers(e) \/ Stream(e) \/ Lose(e) \/ Double(e) \/ Overtake(e)
    BY <1>2 DEF Next
  <2>2. CASE tcp_task_cb(e)
    BY <2>2, TaskKeeps
  <2>3. CASE Input(e)
    BY <2>3, FoundKeeps, UnknownKeeps, SynKeeps DEF Input
  <2>4. CASE Timers(e)
    BY <2>4, TimersKeep
  <2>5. CASE Stream(e)
    BY <2>5, ReadKeeps, WriteKeeps, AskKeeps DEF Stream
  <2>6. CASE Lose(e) \/ Double(e) \/ Overtake(e)
    BY <2>6, FaultKeeps
  <2> QED BY <2>1, <2>2, <2>3, <2>4, <2>5, <2>6
<1> QED BY <1>1, <1>2

\* The invariant of every connection: both ends and every segment between
\* them, whatever the network does to the segments.
THEOREM TcpInductive == Spec => []IInv
<1>1. Init => IInv
  BY TcpInit
<1>2. IInv /\ [Next]_vars => IInv'
  BY TcpNext
<1> QED BY <1>1, <1>2, PTL DEF Spec

\* Neither fifo is overfilled and what is under way is within what is written,
\* across the wrap of the sequence numbers (tcb_txfifo_used, tcb_rxfifo_used,
\* tcp_ack), timers run only for connections on tcbs (tcp_close), and one is
\* armed for every tcb that its application has closed (TCP_EVENT_CLOSE).
THEOREM TcpInvCorrect == Spec => []TcpInv
<1>1. IInv => TcpInv
  <2> SUFFICES ASSUME IInv, NEW e \in Ends
               PROVE  /\ tcb_rxfifo_used(tcb[e]) <= RxSize /\ tcb_txfifo_used(tcb[e]) <= TxSize + 1
                      /\ InFlight(tcb[e]) <= tcb_txfifo_used(tcb[e])
                      /\ tcb[e].rtx \/ tcb[e].dack \/ tcb[e].tw => tcb[e].listed
                      /\ tcb[e].up /\ tcb[e].app => tcb[e].rtx \/ tcb[e].tw
    BY DEF TcpInv, TcpTypeOK, CloseArmed
  <2>1. PICK k : k = tcb[e]
    OBVIOUS
  <2>2. k \in Tcb /\ TxOk(k) /\ RxOk(k) /\ ListOk(k) /\ CloseOk(k)
    BY <2>1, EndIn DEF EndOk
  <2>3. k.wr \in Num /\ k.una \in Num /\ k.rnxt \in Num /\ k.rd \in Num
    BY <2>2 DEF Tcb
  <2>4. tcb_txfifo_used(k) \in Nat /\ tcb_rxfifo_used(k) \in Nat
    BY <2>3, MinusNat DEF tcb_txfifo_used, tcb_rxfifo_used
  <2>5. tcb_rxfifo_used(k) <= RxSize /\ tcb_txfifo_used(k) <= TxSize + 1 /\ InFlight(k) <= tcb_txfifo_used(k)
    BY <2>2, <2>4, Sizes DEF TxOk, RxOk
  <2>6. (k.rtx \/ k.dack \/ k.tw => k.listed) /\ (k.up /\ k.app => k.rtx \/ k.tw)
    BY <2>2 DEF ListOk, CloseOk
  <2> QED BY <2>1, <2>5, <2>6
<1> QED BY <1>1, TcpInductive, PTL
=============================================================================
