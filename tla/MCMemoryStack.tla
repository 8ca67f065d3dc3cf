--------------------------- MODULE MCMemoryStack ---------------------------
EXTENDS MemoryStack

Case(from, pushes, flips, faults, crashes) ==
  [from |-> from, push |-> pushes, flip |-> flips, fault |-> faults, crash |-> crashes]

\* A new Project that meets a fault or a crash; one left by an older operator;
\* running ones whose memory is switched off and on among pushes, faults and
\* crashes.
StackCases == {Case("new", 1, 0, 1, 0), Case("new", 0, 0, 0, 1), Case("legacy", 0, 0, 1, 0),
               Case("running", 1, 2, 1, 0), Case("running", 1, 2, 0, 1), Case("running", 2, 0, 1, 1),
               Case("running", 0, 1, 2, 0)}
============================================================================
