---- MODULE MCVllp ----
EXTENDS Vllp
====
