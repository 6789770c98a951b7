---------------------------- MODULE MCHostProcess ----------------------------
EXTENDS HostProcess

\* A process that writes output while it is fed and killed, and two processes
\* of which one is fed more than its pipe may take while the other is killed.
MCProcs == {"p1", "p2"}

Plan(n, i, k, o) == [spawn |-> n, stdin |-> i, kill |-> k, output |-> o]

MCPlans ==
  { [p \in MCProcs |-> IF p = "p1" THEN Plan(1, 1, 1, 2) ELSE Plan(0, 0, 0, 0)],
    [p \in MCProcs |-> IF p = "p1" THEN Plan(1, 3, 0, 0) ELSE Plan(1, 0, 1, 0)] }
=============================================================================
