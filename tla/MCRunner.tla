------------------------------ MODULE MCRunner ------------------------------
EXTENDS Runner

\* Native runs with every kind of command and of limit (negative, the default,
\* in range, beyond the maximum), alone and in a batch.
NativeCalls ==
  {[backend |-> "native", batch |-> b, timeout |-> 0, secure |-> TRUE,
    cmd |-> c, pinned |-> TRUE, schema |-> TRUE] :
      b \in BOOLEAN, c \in {"lookup", "script", "arguments", "word"}}
  \cup
  {[backend |-> "native", batch |-> FALSE, timeout |-> t, secure |-> TRUE,
    cmd |-> "lookup", pinned |-> p, schema |-> FALSE] :
      t \in {-1, 1, 5}, p \in BOOLEAN}

\* Runs in a container, one of them configured without isolation.
OCICalls ==
  {[backend |-> "oci", batch |-> FALSE, timeout |-> 0, secure |-> s,
    cmd |-> "script", pinned |-> TRUE, schema |-> TRUE] : s \in BOOLEAN}

AllCalls == NativeCalls \cup OCICalls

=============================================================================
