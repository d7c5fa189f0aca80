---------------------------- MODULE MCAuditStore ----------------------------
\* Two appends of one task, and one of another task with the key of the first.
EXTENDS AuditStore

CONSTANTS t1, t2, k1, k2

SomeRequests == { [task |-> t1, key |-> k1], [task |-> t1, key |-> k2],
                  [task |-> t2, key |-> k1] }
=============================================================================
