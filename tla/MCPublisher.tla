------------------------------ MODULE MCPublisher ------------------------------
(* Small batches for TLC. *)
EXTENDS Publisher, TLC

CONSTANTS a, b, c

Batch(roots, closure, local, references) ==
  [roots |-> roots, closure |-> closure, local |-> local, references |-> references]

\* b and c need a; c also needs b and itself.
Diamond == a :> {} @@ b :> {a} @@ c :> {a, b, c}
\* a needs itself and what is not local; b and c need each other.
Cycle == a :> {a} @@ b :> {c} @@ c :> {b}

MCRequests ==
  {Batch({b, c}, TRUE, {a, b, c}, Diamond), Batch({b, c}, FALSE, {b, c}, Diamond),
   Batch({a, b, c}, FALSE, {a, b, c}, Cycle), Batch({a, b}, FALSE, {b}, Diamond), Batch({b}, TRUE, {a, b}, Diamond),
   Batch({c}, TRUE, {b, c}, Diamond), Batch({}, TRUE, {}, Diamond)}

\* Where the closure is published only what everything references was there before.
MCInit ==
  /\ Init
  /\ request.closure => \A p \in {b, c} : meta[p] = "absent" /\ archive[p] = NoArchive
MCFairSpec == MCInit /\ [][Next]_vars /\ Fairness
================================================================================
