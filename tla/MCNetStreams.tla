---- MODULE MCNetStreams ----
EXTENDS NetStreams
====
