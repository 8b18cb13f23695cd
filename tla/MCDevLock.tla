------------------------------ MODULE MCDevLock ------------------------------
EXTENDS DevLock

CONSTANTS t1, t2

\* the first thread reads its interface and uapi_fd; another looks for multi-queue before
MCPrologue == [t \in Threads |-> IF t = t1 THEN 2 ELSE 3]
=============================================================================
