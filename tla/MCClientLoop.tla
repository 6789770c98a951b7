----------------------------- MODULE MCClientLoop -----------------------------
EXTENDS ClientLoop

\* One strategy of each kind, with limits at their edges: no retries, a limit
\* below the base, no limit, no timeout.
MCStrategies ==
  {[kind |-> "fail", base |-> 0, factor |-> 0, max_duration |-> None,
    max_retries |-> None, timeout |-> FALSE]}
  \union
  {[kind |-> "exponential", base |-> 2, factor |-> 2, max_duration |-> m,
    max_retries |-> r, timeout |-> t] :
      m \in {None, 1, 5}, r \in {None, 0, 1, 3}, t \in BOOLEAN}
  \union
  {[kind |-> "fibonacci", base |-> 1, factor |-> 0, max_duration |-> m,
    max_retries |-> r, timeout |-> TRUE] : m \in {None, 2}, r \in {None, 4}}
  \union
  {[kind |-> "fixed", base |-> 3, factor |-> 0, max_duration |-> None,
    max_retries |-> r, timeout |-> TRUE] : r \in {None, 2}}
=============================================================================
