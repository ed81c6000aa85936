-------------------------- MODULE MCAtomicPublication --------------------------
(* Two threads of one process, and a process with the same id.              *)
EXTENDS AtomicPublication

CONSTANTS w1, w2, w3, first, second

Threads == [w \in Writers |-> IF w = w3 THEN second ELSE first]
SamePid == [p \in Processes |-> 1]

==============================================================================
