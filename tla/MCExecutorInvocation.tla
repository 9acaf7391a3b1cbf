------------------------ MODULE MCExecutorInvocation ------------------------
EXTENDS ExecutorInvocation, TLC

O(status, claims, left, end) == [status |-> status, claims |-> claims, left |-> left, end |-> end]
MCOutcomes == {O("nothing", FALSE, "nothing", "zero"), O("succeeded", FALSE, "nothing", "zero"), O("succeeded", TRUE, "files", "zero"),
               O("stopped", FALSE, "nothing", "zero"), O("malformed", FALSE, "commit", "timeout")}

Symmetry == Permutations(Procs) \union Permutations(Invocations)
==============================================================================
