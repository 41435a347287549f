----------------------------- MODULE MCHostDma -----------------------------
EXTENDS HostDma

\* The reads wrap their counts more than twice, the writes and the identify
\* data once.
MCMaxTransfers == [c \in Chan |-> CASE c = "rx" -> 8 [] c = "tx" -> 1 [] OTHER -> 3]
=============================================================================
