------------------------------ MODULE MCSupervisor ------------------------------
(* A supervised child for TLC, with one of: input, a consumer, a fork. *)
EXTENDS Supervisor

With(chunks, reader, forks) ==
  /\ input = chunks
  /\ \A k \in Consumers : consumer[k] = reader
  /\ \A d \in Descendants : proc[d] = forks

MCInit ==
  /\ Init
  /\ \/ With(InputChunks, "joined", "dead")
     \/ With(0, "reading", "dead")
     \/ With(0, "joined", "unborn")
MCFairSpec == MCInit /\ [][Next]_vars /\ Fairness
================================================================================
