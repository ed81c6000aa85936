----------------------------- MODULE CommitOrder -----------------------------
(***************************************************************************)
(* What the commit gate of nix-tools-core promises its callers             *)
(* (crates/nix-tools-core/src/process.rs, the comment on Cancellation):    *)
(* cancellation and irreversible commits are totally ordered.  Commits run *)
(* one at a time, none begins once a cancellation has won, and a request   *)
(* returns to its caller only when no commit is under way.                 *)
(***************************************************************************)
CONSTANTS Requesters, Committers, Signals, NoSignal

VARIABLES
  winner,    \* the signal every observer sees, NoSignal before the first one
  active,    \* the committers inside their commit closure
  returned   \* the requesters whose call has returned

vars == <<winner, active, returned>>

Init ==
  /\ winner = NoSignal
  /\ active = {}
  /\ returned = {}

\* A commit begins only when it is alone and cancellation has not won.
Begin(c) ==
  /\ winner = NoSignal
  /\ active = {}
  /\ active' = {c}
  /\ UNCHANGED <<winner, returned>>

\* The commit closure ends, by returning or by panicking.
End(c) ==
  /\ c \in active
  /\ active' = active \ {c}
  /\ UNCHANGED <<winner, returned>>

\* The first request decides the signal; a commit may be under way.
Cancel(s) ==
  /\ winner = NoSignal
  /\ winner' = s
  /\ UNCHANGED <<active, returned>>

\* A request returns when its cancellation is settled and no commit runs.
Return(r) ==
  /\ winner # NoSignal
  /\ active = {}
  /\ r \notin returned
  /\ returned' = returned \cup {r}
  /\ UNCHANGED <<winner, active>>

\* A request that meets no commit decides the signal and returns at once.
CancelAndReturn(r, s) ==
  /\ winner = NoSignal
  /\ active = {}
  /\ winner' = s
  /\ returned' = returned \cup {r}
  /\ UNCHANGED active

Next ==
  \/ \E c \in Committers : Begin(c) \/ End(c)
  \/ \E s \in Signals : Cancel(s)
  \/ \E r \in Requesters : Return(r) \/ \E s \in Signals : CancelAndReturn(r, s)

Spec == Init /\ [][Next]_vars

==============================================================================
