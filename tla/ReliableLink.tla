---------------------------- MODULE ReliableLink ----------------------------
(***************************************************************************)
(* What one direction of a link promises (VLLP, MBUS sequenced packets):   *)
(* the fragments given to it are numbered, one is under way at a time, and *)
(* while the session lasts each is accepted once, in order.  When a        *)
(* session breaks, nothing is promised about the fragment under way.       *)
(***************************************************************************)
EXTENDS Naturals, Sequences

VARIABLES
  offered,   \* fragments given to the link in this session
  accepted,  \* the numbers of those taken by the peer, in its order
  alive      \* both ends are in the session

Init == offered = 0 /\ accepted = <<>> /\ alive = FALSE

Join == /\ ~alive /\ alive' = TRUE
        /\ offered = 0 /\ accepted = <<>> /\ UNCHANGED <<offered, accepted>>

Offer == /\ alive => Len(accepted) = offered
         /\ offered' = offered + 1 /\ UNCHANGED <<accepted, alive>>

Accept == /\ alive /\ Len(accepted) < offered
          /\ accepted' = Append(accepted, Len(accepted) + 1)
          /\ UNCHANGED <<offered, alive>>

\* One packet may both carry a fragment and lead to the next one.
Break == alive' = FALSE /\ accepted' = <<>> /\ offered' \in {0, offered, offered + 1}

Next == Join \/ Offer \/ Accept \/ Break

Spec == Init /\ [][Next]_<<offered, accepted, alive>>

\* What the users of a link build on: while the session lasts, the peer has
\* taken the fragments 1, 2, 3 ... of the sender, none twice, none left out,
\* and at most one is under way.
Delivered ==
  /\ offered \in Nat /\ accepted \in Seq(Nat) /\ alive \in BOOLEAN
  /\ \A i \in 1 .. Len(accepted) : accepted[i] = i
  /\ alive => Len(accepted) <= offered /\ offered <= Len(accepted) + 1
  /\ ~alive => accepted = <<>>
=============================================================================
