------------------------- MODULE ReliableLinkProofs -------------------------
(***************************************************************************)
(* What it means that VLLP (vllp.c) and the MBUS sequenced packets         *)
(* (mbus_seqpkt.c) implement ReliableLink: whatever the number of          *)
(* fragments, sessions and breaks, delivery is in order and exactly once.  *)
(***************************************************************************)
EXTENDS ReliableLink, TLAPS

vars == <<offered, accepted, alive>>

\* Nothing accepted is nothing out of order.
LEMMA NothingAccepted ==
  /\ <<>> \in Seq(Nat) /\ Len(<<>>) = 0 /\ \A i \in 1 .. Len(<<>>) : <<>>[i] = i
  OBVIOUS

\* Joining a session, where both directions start from nothing
\* (vllp_accept_syn, mbus_seqpkt_con_init), establishes it.
LEMMA JoinDelivers == ASSUME Delivered, Join PROVE Delivered'
  BY DEF Delivered, Join

\* A fragment is offered only when the one before has been accepted
\* (current_tx in vllp_tx, msc_new_fragment in mbus_seqpkt_output).
LEMMA OfferDelivers == ASSUME Delivered, Offer PROVE Delivered'
<1>1. /\ offered' = offered + 1 /\ accepted' = accepted /\ alive' = alive
      /\ alive => Len(accepted) = offered
  BY DEF Offer
<1>2. offered \in Nat /\ accepted \in Seq(Nat) /\ Len(accepted) \in Nat
  BY DEF Delivered
<1> QED
  BY <1>1, <1>2 DEF Delivered

\* The peer takes the fragment under way and no other (the comparison of
\* sequence bits in vllp_rx and mbus_seqpkt_recv_data).
LEMMA AcceptDelivers == ASSUME Delivered, Accept PROVE Delivered'
<1>1. /\ accepted \in Seq(Nat) /\ Len(accepted) \in Nat /\ offered \in Nat
      /\ alive /\ Len(accepted) < offered /\ offered <= Len(accepted) + 1
      /\ accepted' = Append(accepted, Len(accepted) + 1)
      /\ offered' = offered /\ alive' = alive
  BY DEF Delivered, Accept
<1>2. accepted' \in Seq(Nat) /\ Len(accepted') = Len(accepted) + 1
  BY <1>1
<1>3. ASSUME NEW i \in 1 .. Len(accepted') PROVE accepted'[i] = i
  <2>1. CASE i = Len(accepted) + 1
    BY <1>1, <2>1
  <2>2. CASE i # Len(accepted) + 1
    <3>1. i \in 1 .. Len(accepted)
      BY <1>1, <1>2, <2>2
    <3>2. accepted'[i] = accepted[i]
      BY <1>1, <3>1
    <3> QED
      BY <3>1, <3>2 DEF Delivered
  <2> QED
    BY <2>1, <2>2
<1> QED
  BY <1>1, <1>2, <1>3 DEF Delivered

\* A session that breaks leaves nothing behind (vllp_disconnect, a flow that
\* is removed).
LEMMA BreakDelivers == ASSUME Delivered, Break PROVE Delivered'
<1>1. offered' \in Nat
  BY DEF Delivered, Break
<1>2. alive' = FALSE /\ accepted' = <<>>
  BY DEF Break
<1> QED
  BY <1>1, <1>2, NothingAccepted, Zenon DEF Delivered

\* In every behaviour of a link, and so of every implementation the runs
\* vllp_link and seqpkt check, the peer has accepted exactly the first
\* fragments of the session, in order, and at most one is under way.
THEOREM DeliveredInOrder == Spec => []Delivered
<1>1. Init => Delivered
  <2> SUFFICES ASSUME Init PROVE Delivered
    OBVIOUS
  <2>1. offered \in Nat
    BY DEF Init
  <2>2. alive = FALSE /\ accepted = <<>>
    BY DEF Init
  <2> QED
    BY <2>1, <2>2, NothingAccepted, Zenon DEF Delivered
<1>2. Delivered /\ [Next]_vars => Delivered'
  <2> SUFFICES ASSUME Delivered, [Next]_vars PROVE Delivered'
    OBVIOUS
  <2>1. CASE UNCHANGED vars
    BY <2>1 DEF Delivered, vars
  <2>2. CASE Join
    BY <2>2, JoinDelivers
  <2>3. CASE Offer
    BY <2>3, OfferDelivers
  <2>4. CASE Accept
    BY <2>4, AcceptDelivers
  <2>5. CASE Break
    BY <2>5, BreakDelivers
  <2> QED
    BY <2>1, <2>2, <2>3, <2>4, <2>5 DEF Next
<1> QED
  BY <1>1, <1>2, PTL DEF Spec, vars
=============================================================================
