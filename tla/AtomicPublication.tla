--------------------------- MODULE AtomicPublication ---------------------------
(***************************************************************************)
(* write_atomic and write_atomic_guarded of crates/nix-tools-core/src/     *)
(* fs.rs: threads of several processes replace one destination file, each  *)
(* through a temporary in its directory, while cancellations, kills and    *)
(* power losses may come between any two calls.                            *)
(*                                                                         *)
(* The file system.  A rename and an unlink take effect at once but last   *)
(* only once the directory is synchronised; what a file holds lasts only   *)
(* once the file is.  A temporary's name is its process id and the value   *)
(* of that process's counter, and process ids may repeat: two containers   *)
(* may share a directory, and a number comes back after a restart.         *)
(***************************************************************************)
EXTENDS Naturals, SequencesExt

CONSTANTS
  Writers,      \* calls, one per thread
  Processes,
  Process,      \* per writer: its process
  Pid,          \* per process: its process id
  Guarded,      \* the writers that share their process's cancellation token
  MaxAttempts,  \* names tried for a temporary, 100 in the code
  None

ASSUME AtomicPublicationAssumption ==
  /\ Process \in [Writers -> Processes]
  /\ Pid \in [Processes -> Nat]
  /\ Guarded \subseteq Writers
  /\ MaxAttempts \in Nat \ {0}
  /\ None \notin Writers

VARIABLES
  versions,   \* the files the destination has been replaced with, newest last
  durable,    \* how many of them a power loss cannot take back
  linked,     \* writers whose file is still under its temporary name
  contents,   \* per writer: what its file holds
  synced,     \* writers whose file is on disk
  sequence,   \* per process: TEMP_SEQUENCE
  cancelled,  \* processes whose token shows a signal
  answered,   \* processes whose request has returned
  gate,       \* per process: the writer inside the commit gate, or None
  at,         \* per writer: where its call stands, or its result
  attempts,   \* per writer: names tried so far
  number,     \* per writer: the counter in its temporary's name
  verdict,    \* per writer: the result it returns once its file is removed
  litter      \* history: writers whose removal failed or whose rename was undone

directoryVars == <<versions, durable, linked, contents, synced>>
tokenVars == <<cancelled, answered, gate>>
callVars == <<at, attempts, number, verdict, litter>>
vars == <<directoryVars, sequence, tokenVars, callVars>>

Busy == {"naming", "writing", "syncing", "gate", "renaming", "discarding", "syncParent"}
Results == {"published", "advised", "aborted", "failed"}

\* The types, and who holds a gate: the writer of that process whose rename is
\* under way.
TypeOK ==
  /\ versions \in Seq(Writers)
  /\ durable \in 0..Len(versions)
  /\ linked \subseteq Writers
  /\ contents \in [Writers -> {"none", "partial", "complete"}]
  /\ synced \subseteq Writers
  /\ sequence \in [Processes -> Nat]
  /\ cancelled \subseteq Processes
  /\ answered \subseteq cancelled
  /\ gate \in [Processes -> Guarded \cup {None}]
  /\ \A p \in Processes : gate[p] # None => Process[gate[p]] = p /\ at[gate[p]] = "renaming"
  /\ at \in [Writers -> Busy \cup Results \cup {"idle", "dead"}]
  /\ attempts \in [Writers -> 0..MaxAttempts]
  /\ number \in [Writers -> Nat \cup {None}]
  /\ verdict \in [Writers -> Results \cup {None}]
  /\ litter \subseteq Writers

Init ==
  /\ versions = <<>>
  /\ durable = 0
  /\ linked = {}
  /\ contents = [w \in Writers |-> "none"]
  /\ synced = {}
  /\ sequence = [p \in Processes |-> 0]
  /\ cancelled = {} /\ answered = {}
  /\ gate = [p \in Processes |-> None]
  /\ at = [w \in Writers |-> "idle"]
  /\ attempts = [w \in Writers |-> 0]
  /\ number = [w \in Writers |-> None]
  /\ verdict = [w \in Writers |-> None]
  /\ litter = {}

Go(w, place) == at' = [at EXCEPT ![w] = place]

\* unique_temporary_name
Name(w, n) == <<Pid[Process[w]], n>>

\* The writers whose file is under a name of this directory.
Under(name) == {v \in linked : Name(v, number[v]) = name}

\* The name this writer gave its own temporary.
Temporary(w) == Name(w, number[w])

Signalled(w) == w \in Guarded /\ Process[w] \in cancelled

------------------------------------------------------------------------------
(* atomic_write_guarded_with *)

\* The early test of the token, then the parent directory is opened, which
\* fails for a missing or symbolic one.
Call(w) ==
  /\ at[w] = "idle"
  /\ \/ Signalled(w) /\ Go(w, "aborted")
     \/ ~Signalled(w) /\ Go(w, "naming")
     \/ ~Signalled(w) /\ Go(w, "failed")
  /\ UNCHANGED <<directoryVars, sequence, tokenVars, attempts, number, verdict, litter>>

\* A temporary opened without create_new takes over the file it finds.
CreateOver(w) ==
  LET n == sequence[Process[w]] IN
  /\ at[w] = "naming"
  /\ sequence' = [sequence EXCEPT ![Process[w]] = n + 1]
  /\ number' = [number EXCEPT ![w] = n]
  /\ linked' = (linked \ Under(Name(w, n))) \cup {w}
  /\ Go(w, "writing")
  /\ UNCHANGED <<versions, durable, contents, synced, tokenVars, attempts, verdict, litter>>

\* One turn of create_temporary_at: a name of its own is taken, a name in use
\* costs an attempt, and any other error ends the call.
CreateTemporary(w) ==
  LET n == sequence[Process[w]] IN
  /\ at[w] = "naming"
  /\ sequence' = [sequence EXCEPT ![Process[w]] = n + 1]
  /\ \/ /\ Under(Name(w, n)) = {}
        /\ number' = [number EXCEPT ![w] = n]
        /\ linked' = linked \cup {w}
        /\ attempts' = [attempts EXCEPT ![w] = 0]
        /\ Go(w, "writing")
     \/ /\ Under(Name(w, n)) # {}
        /\ attempts' = [attempts EXCEPT ![w] = @ + 1]
        /\ Go(w, IF attempts[w] + 1 = MaxAttempts THEN "failed" ELSE "naming")
        /\ UNCHANGED <<number, linked>>
     \/ Go(w, "failed") /\ UNCHANGED <<attempts, number, linked>>
  /\ UNCHANGED <<versions, durable, contents, synced, tokenVars, verdict, litter>>

\* write_all and the permissions.
Write(w) ==
  /\ at[w] = "writing"
  /\ contents' = [contents EXCEPT ![w] = "complete"]
  /\ Go(w, "syncing")
  /\ UNCHANGED <<versions, durable, linked, synced, sequence, tokenVars, attempts, number,
                 verdict, litter>>

\* sync_all left out.
SyncNothing(w) ==
  /\ at[w] = "syncing"
  /\ Go(w, "gate")
  /\ UNCHANGED <<directoryVars, sequence, tokenVars, attempts, number, verdict, litter>>

Sync(w) ==
  /\ at[w] = "syncing"
  /\ synced' = synced \cup {w}
  /\ Go(w, "gate")
  /\ UNCHANGED <<versions, durable, linked, contents, sequence, tokenVars, attempts, number,
                 verdict, litter>>

\* The temporary will be removed, and the call ends with this result.
Discard(w, result) ==
  /\ verdict' = [verdict EXCEPT ![w] = result]
  /\ Go(w, "discarding")

PrepareFails(w) ==
  /\ at[w] \in {"writing", "syncing"}
  /\ contents' = [contents EXCEPT ![w] = "partial"]
  /\ Discard(w, "failed")
  /\ UNCHANGED <<versions, durable, linked, synced, sequence, tokenVars, attempts, number,
                 litter>>

\* The rename done outside the gate.
EnterGateLate(w) ==
  /\ at[w] = "gate"
  /\ Go(w, "renaming")
  /\ UNCHANGED <<directoryVars, sequence, tokenVars, attempts, number, verdict, litter>>

\* commit_if_not_cancelled: wait behind another commit, refuse, or begin.  An
\* unguarded writer has a token of its own, which nothing cancels.
EnterGate(w) ==
  LET p == Process[w] IN
  /\ at[w] = "gate"
  /\ w \in Guarded => gate[p] = None
  /\ IF Signalled(w)
     THEN Discard(w, "aborted") /\ UNCHANGED gate
     ELSE /\ Go(w, "renaming")
          /\ gate' = IF w \in Guarded THEN [gate EXCEPT ![p] = w] ELSE gate
          /\ UNCHANGED verdict
  /\ UNCHANGED <<directoryVars, sequence, cancelled, answered, attempts, number, litter>>

\* The closure has returned, and CommitGuard is dropped.
LeaveGate(w) ==
  gate' = [p \in Processes |-> IF gate[p] = w THEN None ELSE gate[p]]

\* The file under the temporary's name becomes the destination.
Rename(w) ==
  /\ at[w] = "renaming"
  /\ \E v \in Under(Temporary(w)) :
       /\ versions' = Append(versions, v)
       /\ linked' = linked \ {v}
  /\ LeaveGate(w)
  /\ Go(w, "syncParent")
  /\ UNCHANGED <<durable, contents, synced, sequence, cancelled, answered, attempts, number,
                 verdict, litter>>

RenameFails(w) ==
  /\ at[w] = "renaming"
  /\ \E removed \in {{}, Under(Temporary(w))} :
       /\ linked' = linked \ removed
       /\ litter' = IF removed = {} THEN litter \cup {w} ELSE litter
  /\ LeaveGate(w)
  /\ Go(w, "failed")
  /\ UNCHANGED <<versions, durable, contents, synced, sequence, cancelled, answered, attempts,
                 number, verdict>>

\* remove_at_if_exists, whose own error is dropped.
RemoveTemporary(w) ==
  /\ at[w] = "discarding"
  /\ \/ linked' = linked \ Under(Temporary(w)) /\ UNCHANGED litter
     \/ litter' = litter \cup {w} /\ UNCHANGED linked
  /\ Go(w, verdict[w])
  /\ UNCHANGED <<versions, durable, contents, synced, sequence, tokenVars, attempts, number,
                 verdict>>

\* The error of the synchronisation becomes the error of the call.
SyncParentFails(w) ==
  /\ at[w] = "syncParent"
  /\ \/ durable' = Len(versions) /\ Go(w, "published")
     \/ UNCHANGED durable /\ Go(w, "failed")
  /\ UNCHANGED <<versions, linked, contents, synced, sequence, tokenVars, attempts, number,
                 verdict, litter>>

\* sync_directory of the parent: its failure is an advisory of a success.
SyncParent(w) ==
  /\ at[w] = "syncParent"
  /\ \/ durable' = Len(versions) /\ Go(w, "published")
     \/ UNCHANGED durable /\ Go(w, "advised")
  /\ UNCHANGED <<versions, linked, contents, synced, sequence, tokenVars, attempts, number,
                 verdict, litter>>

------------------------------------------------------------------------------
(* The world around the writers *)

\* Another thread calls request on the process's token, and later returns from
\* it: not before the commit it found has ended.
RequestCancel(p) ==
  /\ p \notin cancelled
  /\ \E w \in Guarded : Process[w] = p
  /\ cancelled' = cancelled \cup {p}
  /\ UNCHANGED <<directoryVars, sequence, answered, gate, callVars>>

RequestReturns(p) ==
  /\ p \in cancelled \ answered
  /\ gate[p] = None
  /\ answered' = answered \cup {p}
  /\ UNCHANGED <<directoryVars, sequence, cancelled, gate, callVars>>

\* The calls of the processes that die end nowhere; finished ones stay so.
Stop(processes) ==
  /\ at' = [w \in Writers |->
              IF Process[w] \in processes /\ at[w] \notin Results THEN "dead" ELSE at[w]]
  /\ gate' = [p \in Processes |-> IF p \in processes THEN None ELSE gate[p]]
  /\ UNCHANGED <<sequence, cancelled, answered, attempts, number, verdict>>

Kill(p) ==
  /\ \E w \in Writers : Process[w] = p /\ at[w] \in Busy
  /\ Stop({p})
  /\ UNCHANGED <<directoryVars, litter>>

\* The files that have a name.
Reachable == linked \cup ToSet(versions)

\* Every process of the machine dies.  The newest renames may be undone, the
\* temporaries present or renamed may or may not be found again, and a file
\* never synchronised may hold anything.
PowerLoss ==
  /\ \E w \in Writers : at[w] \in Busy
  /\ \E kept \in durable..Len(versions) :
       /\ versions' = SubSeq(versions, 1, kept)
       /\ durable' = kept
       /\ \E found \in SUBSET (linked \cup (ToSet(versions) \ ToSet(versions'))) :
            /\ \A v, w \in found : Temporary(v) = Temporary(w) => v = w
            /\ linked' = found
  /\ contents' \in [Writers -> {"none", "partial", "complete"}]
  /\ \A w \in Writers : w \in synced \/ w \notin Reachable' => contents'[w] = contents[w]
  /\ litter' = litter \cup (ToSet(versions) \ ToSet(versions'))
  /\ UNCHANGED synced
  /\ Stop({Process[w] : w \in {v \in Writers : at[v] # "idle"}})

------------------------------------------------------------------------------
WriterStep(w) ==
  \/ Call(w) \/ CreateTemporary(w) \/ Write(w) \/ Sync(w) \/ PrepareFails(w)
  \/ EnterGate(w) \/ Rename(w) \/ RenameFails(w) \/ RemoveTemporary(w) \/ SyncParent(w)

Next ==
  \/ \E w \in Writers : WriterStep(w)
  \/ \E p \in Processes : RequestCancel(p) \/ RequestReturns(p) \/ Kill(p)
  \/ PowerLoss

Spec == Init /\ [][Next]_vars

------------------------------------------------------------------------------
(* Properties *)

\* Whoever opens the destination, at any time and after any crash, finds the
\* whole of one writer's contents, never a part and never a mixture.
DestinationIsComplete ==
  versions # <<>> => contents[Last(versions)] = "complete"

\* The promises of Publication, of the errors section of write_atomic and of
\* Aborted: success without an advisory is never undone, not even by a power
\* loss; success with one may only be undone by it; and a call that ends in
\* either of the other ways never had its contents at the destination.
ResultIsTrue ==
  \A w \in Writers :
    /\ at[w] = "published" => \E i \in 1..durable : versions[i] = w
    /\ at[w] \in {"aborted", "failed"} => w \notin ToSet(versions)

\* Each writer keeps the temporary it created until it renames or removes it:
\* no other call, of this process or of one with the same id, takes it; and a
\* finished call leaves none behind unless the removal itself failed.
TemporariesAreOwned ==
  /\ TypeOK
  /\ \A w \in Writers :
       /\ at[w] \in {"writing", "syncing", "gate", "renaming", "discarding"} =>
            Under(Temporary(w)) = {w}
       /\ at[w] \in Results /\ w \in linked => w \in litter

\* Once a cancellation request has returned, no guarded writer of its process
\* replaces the destination any more.
CancellationIsFinal ==
  [][\A w \in Guarded :
       at[w] = "renaming" /\ at'[w] = "syncParent" => Process[w] \notin answered]_vars

==============================================================================
