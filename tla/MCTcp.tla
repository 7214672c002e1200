------------------------------- MODULE MCTcp -------------------------------
EXTENDS Tcp

\* The client's numbers cross the largest int, the service's wrap around.
MCIss == [cli |-> 14, srv |-> 30]
\* The client fills the receive fifo of the service, its FIN finds no room.
MCData == [cli |-> 4, srv |-> 0]
\* The client writes a full segment, or two parts of one.
MCSegment == [cli |-> 2, srv |-> 0]
=============================================================================
