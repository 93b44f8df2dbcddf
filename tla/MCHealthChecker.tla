--------------------------- MODULE MCHealthChecker ---------------------------
EXTENDS HealthChecker

CONSTANTS n1, n2, n3

\* Two execution clients and a beacon client.
Mixed == [n \in Nodes |-> IF n = n3 THEN "beacon" ELSE "execution"]

CheckOf(layer, block, retries) == [layer |-> layer, block |-> block, retries |-> retries]

\* RunAllChecks makes four, with 15 and 3 retries.
TwoChecks == <<CheckOf("execution", "latest", 1), CheckOf("beacon", "finalized", 0)>>
=============================================================================
