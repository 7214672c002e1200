------------------------------ MODULE MCSeqpkt ------------------------------
EXTENDS Seqpkt

\* The device sends a message of two fragments or two messages, the peer one.
MCMaxSent == [dev |-> 2, peer |-> 1]
=============================================================================
