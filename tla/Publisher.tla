------------------------------ MODULE Publisher ------------------------------
(***************************************************************************)
(* BinaryCachePublisher::publish_batch of crates/nix-tools-cache/src/      *)
(* publish.rs: the selected store paths, indexed and ordered in waves, and *)
(* published by concurrent workers through an object store that may fail   *)
(* at every call, while a cancellation may arrive at any moment.           *)
(*                                                                         *)
(* One action is one call through an adapter with the checks around it.    *)
(* A deadline may pass at any moment, so every check may also time out.    *)
(* The order in which a wave is picked is left open: it is the order of    *)
(* the sources in the request, which is the caller's.                      *)
(*                                                                         *)
(* The objects of a path.  Its metadata (narinfo) is absent; "ours", which *)
(* agrees with the local store and is signed by a trusted key; "other", a  *)
(* trusted record of another build of the path; or "untrusted", which      *)
(* stands for every record that fails to parse, to name the path or to     *)
(* verify.  Each build has its own archive, absent, valid or corrupt.      *)
(***************************************************************************)
EXTENDS Naturals, FiniteSets

CONSTANTS
  Paths,       \* store paths
  Requests,    \* batches: [roots: the owned paths selected, closure: include_reference_closure,
               \* local: the paths of the local store, references: per path what it references]
  Workers,     \* max_concurrency threads
  MaxPrior,    \* bound of the model: paths with objects before the batch
  None

ASSUME PublisherAssumption ==
  /\ Requests \subseteq [roots : SUBSET Paths, closure : BOOLEAN, local : SUBSET Paths,
                          references : [Paths -> SUBSET Paths]]
  /\ MaxPrior \in Nat
  /\ None \notin Paths \cup Workers

VARIABLES
  request,            \* the batch asked for
  meta, archive,      \* the object store
  cancelRequested,    \* the cancellation every observer sees
  committing,         \* the worker inside the commit gate, or None
  batch,              \* phase of publish_batch
  pending, sources,   \* index_sources: paths to query, paths selected so far
  placed, wave,       \* paths of the waves begun, paths of this wave not picked
  halt,               \* the error that stops the queue, or None
  validated,          \* validated_references
  outcome,            \* per path: its recorded result
  at, job, todo, seen, verdict, \* per worker: where it stands in publish_one
  late, touched, refused  \* history: picked after a recorded stop; begun; not durable

storeVars == <<meta, archive>>
batchVars == <<batch, pending, sources, placed, wave>>
workerVars == <<at, job, todo, seen, verdict>>
historyVars == <<late, touched, refused>>
vars == <<request, storeVars, cancelRequested, committing, batchVars, halt, validated, outcome,
          workerVars, historyVars>>

Roots == request.roots
References == request.references
Local == request.local
Closure == request.closure

Records == {"absent", "ours", "other", "untrusted"}
FailureClass == {"Read", "Trust", "Write", "Timeout", "Integrity", "Provenance",
                 "Precondition", "Cancelled"}
Receipt == {"Existing", "Uploaded"}
Settled == FailureClass \cup Receipt

\* A result is not the lack of one.
ASSUME ResultAssumption == None \notin Settled

WorkerStates == {"idle", "picked", "probe", "verify", "pair", "reference", "referencePair",
                 "prepare", "putArchive", "gate", "commit", "settled", "record"}

TypeOK ==
  /\ request \in Requests
  /\ meta \in [Paths -> Records]
  /\ archive \in [Paths -> [ours : {"absent", "valid", "corrupt"},
                            other : {"absent", "valid"}]]
  /\ cancelRequested \in BOOLEAN
  /\ committing \in Workers \cup {None}
  /\ batch \in {"start", "index", "schedule", "wave", "done", "failed"}
  /\ pending \subseteq Paths /\ sources \subseteq Paths
  /\ placed \subseteq sources /\ wave \subseteq placed
  /\ halt \in FailureClass \cup {None}
  /\ validated \subseteq Paths
  /\ outcome \in [Paths -> Settled \cup {None}]
  /\ at \in [Workers -> WorkerStates]
  /\ job \in [Workers -> Paths \cup {None}]
  /\ todo \in [Workers -> SUBSET Paths]
  /\ seen \in [Workers -> [path : Paths, record : Records] \cup {None}]
  /\ verdict \in [Workers -> Settled \cup {None}]
  /\ late \subseteq Paths /\ touched \subseteq Paths /\ refused \subseteq Paths

------------------------------------------------------------------------------
(* The object store *)

NoArchive == [ours |-> "absent", other |-> "absent"]

Trusted(record) == record \in {"ours", "other"}
PairValid(record, archives) ==
  Trusted(record) /\ archives[record] = "valid"

\* A path a client of the cache can substitute.
Durable(p) == PairValid(meta[p], archive[p])

Init ==
  /\ request \in Requests
  /\ \E prior \in SUBSET Paths :
       /\ Cardinality(prior) <= MaxPrior
       /\ meta \in [Paths -> Records]
       /\ archive \in [Paths -> [ours : {"absent", "valid", "corrupt"},
                                 other : {"absent", "valid"}]]
       /\ \A p \in Paths \ prior : meta[p] = "absent" /\ archive[p] = NoArchive
  /\ cancelRequested = FALSE
  /\ committing = None
  /\ batch = "start"
  /\ pending = Roots /\ sources = Roots
  /\ placed = {} /\ wave = {}
  /\ halt = None
  /\ validated = {}
  /\ outcome = [p \in Paths |-> None]
  /\ at = [w \in Workers |-> "idle"]
  /\ job = [w \in Workers |-> None]
  /\ todo = [w \in Workers |-> {}]
  /\ seen = [w \in Workers |-> None]
  /\ verdict = [w \in Workers |-> None]
  /\ late = {} /\ touched = {} /\ refused = {}

\* PublicationControl::check: what it may report now.
CheckFailure == IF cancelRequested THEN {"Cancelled"} ELSE {"Timeout"}

\* What a failed adapter call is classified as: the class of the call, or the
\* failure of a check the adapter made.
AdapterFailure(class) == {class} \cup CheckFailure

------------------------------------------------------------------------------
(* publish_batch before the workers: the checks and index_sources *)

BatchUnchanged == UNCHANGED <<request, storeVars, cancelRequested, committing, halt, validated,
                              workerVars, historyVars>>

\* The first check fails for the whole batch, each path receiving its error;
\* no path at all is a success.
Begin ==
  /\ batch = "start"
  /\ \/ Roots = {} /\ batch' = "done" /\ UNCHANGED outcome
     \/ /\ Roots # {}
        /\ \E class \in CheckFailure :
             outcome' = [p \in Paths |-> IF p \in Roots THEN class ELSE None]
        /\ batch' = "done"
     \/ Roots # {} /\ ~cancelRequested /\ batch' = "index" /\ UNCHANGED outcome
  /\ BatchUnchanged
  /\ UNCHANGED <<pending, sources, placed, wave>>

\* References of the queried paths that were not discovered before.
Discovered == UNION {References[p] : p \in pending \cap Local} \ sources

\* One round of the index: query the pending paths, add their references.
Index ==
  /\ batch = "index"
  /\ ~cancelRequested
  /\ Closure => pending \subseteq Local
  /\ IF Closure /\ Discovered # {}
     THEN /\ pending' = Discovered
          /\ sources' = sources \cup Discovered
          /\ UNCHANGED batch
     ELSE batch' = "schedule" /\ UNCHANGED <<pending, sources>>
  /\ BatchUnchanged
  /\ UNCHANGED <<outcome, placed, wave>>

\* The index fails, is stopped by a check, or lacks a path of the closure: the
\* error is the batch's and no path gets a result.
IndexFails ==
  /\ batch = "index"
  /\ batch' = "failed"
  /\ BatchUnchanged
  /\ UNCHANGED <<outcome, pending, sources, placed, wave>>

------------------------------------------------------------------------------
(* publication_waves *)

\* The dependencies of a path inside the batch; references are known only of
\* paths the index found.
Dependencies(p) ==
  IF p \in Local THEN (References[p] \cap sources) \ {p} ELSE {}

\* A path waits only for those it references that reference something themselves.
ReadyEarly ==
  {p \in sources \ placed : {q \in Dependencies(p) : Dependencies(q) # {}} \subseteq placed}

\* The next wave: the paths all of whose dependencies are in earlier waves.
NextWave == {p \in sources \ placed : Dependencies(p) \subseteq placed}

StartWave ==
  /\ batch = "schedule"
  /\ NextWave # {}
  /\ wave' = NextWave
  /\ placed' = placed \cup NextWave
  /\ batch' = "wave"
  /\ BatchUnchanged
  /\ UNCHANGED <<outcome, pending, sources>>

\* thread::scope ends when every worker has found the wave empty.
EndWave ==
  /\ batch = "wave"
  /\ wave = {}
  /\ \A w \in Workers : at[w] = "idle"
  /\ batch' = "schedule"
  /\ BatchUnchanged
  /\ UNCHANGED <<outcome, pending, sources, placed, wave>>

\* Results for the paths of the waves only.
FinishWithoutCycles ==
  /\ batch = "schedule"
  /\ NextWave = {}
  /\ batch' = "done"
  /\ BatchUnchanged
  /\ UNCHANGED <<outcome, pending, sources, placed, wave>>

\* What no wave could place is a cycle: record_blocked_cycles.
Finish ==
  /\ batch = "schedule"
  /\ NextWave = {}
  /\ outcome' = [p \in Paths |->
                   IF p \in sources \ placed THEN "Precondition" ELSE outcome[p]]
  /\ batch' = "done"
  /\ BatchUnchanged
  /\ UNCHANGED <<pending, sources, placed, wave>>

------------------------------------------------------------------------------
(* The worker loop around publish_one *)

WorkerUnchanged == UNCHANGED <<request, cancelRequested, batch, pending, sources, placed>>

\* A time-out of one path, or an unreadable one, does not stop the others.
StopsQueue(class) ==
  class \in {"Trust", "Integrity", "Provenance", "Precondition", "Cancelled"}

Go(w, state) == at' = [at EXCEPT ![w] = state]

\* publish_one, or the checks before it, come to a result.
Settle(w, result) ==
  /\ verdict' = [verdict EXCEPT ![w] = result]
  /\ Go(w, "settled")

Pick(w) ==
  /\ batch = "wave" /\ at[w] = "idle"
  /\ \E p \in wave :
       /\ wave' = wave \ {p}
       /\ job' = [job EXCEPT ![w] = p]
       /\ late' = IF \E q \in Paths : q \in placed /\ StopsQueue(outcome[q])
                  THEN late \cup {p} ELSE late
  /\ Go(w, "picked")
  /\ WorkerUnchanged
  /\ UNCHANGED <<storeVars, committing, halt, validated, outcome, todo, seen, verdict,
                 touched, refused>>

\* The halted queue is not looked at.
StartAnyway(w) ==
  LET p == job[w] IN
  /\ at[w] = "picked"
  /\ touched' = touched \cup {p}
  /\ todo' = [todo EXCEPT ![w] = References[p] \ {p}]
  /\ Go(w, "probe")
  /\ WorkerUnchanged
  /\ UNCHANGED <<storeVars, committing, wave, halt, validated, outcome, job, seen, verdict,
                 late, refused>>

\* A stopped queue answers for the path; otherwise publish_one begins, which
\* first looks the path up in the index and validates its metadata.
Start(w) ==
  LET p == job[w] IN
  /\ at[w] = "picked"
  /\ \/ /\ halt # None
        /\ Settle(w, halt)
        /\ UNCHANGED <<todo, touched>>
     \/ /\ halt = None
        /\ touched' = touched \cup {p}
        /\ IF p \in Local
           THEN /\ todo' = [todo EXCEPT ![w] = References[p] \ {p}]
                /\ \/ Go(w, "probe") /\ UNCHANGED verdict
                   \/ Settle(w, "Integrity")
           ELSE Settle(w, "Provenance") /\ UNCHANGED todo
  /\ WorkerUnchanged
  /\ UNCHANGED <<storeVars, committing, wave, halt, validated, outcome, job, seen, late, refused>>

\* The whole-batch budget is spent when the worker takes the path: the error
\* stops the queue although a time-out of one path does not.
StartExpired(w) ==
  /\ at[w] = "picked"
  /\ halt = None
  /\ halt' = "Timeout"
  /\ verdict' = [verdict EXCEPT ![w] = "Timeout"]
  /\ Go(w, "record")
  /\ WorkerUnchanged
  /\ UNCHANGED <<storeVars, committing, wave, validated, outcome, job, todo, seen, historyVars>>

\* The first stopping failure is kept for the queue.
Halt(w) ==
  /\ at[w] = "settled"
  /\ halt' = IF halt = None /\ StopsQueue(verdict[w]) THEN verdict[w] ELSE halt
  /\ Go(w, "record")
  /\ WorkerUnchanged
  /\ UNCHANGED <<storeVars, committing, wave, validated, outcome, job, todo, seen, verdict,
                 historyVars>>

Record(w) ==
  /\ at[w] = "record"
  /\ outcome' = [outcome EXCEPT ![job[w]] = verdict[w]]
  /\ job' = [job EXCEPT ![w] = None]
  /\ verdict' = [verdict EXCEPT ![w] = None]
  /\ todo' = [todo EXCEPT ![w] = {}]
  /\ Go(w, "idle")
  /\ WorkerUnchanged
  /\ UNCHANGED <<storeVars, committing, wave, halt, validated, seen, historyVars>>

------------------------------------------------------------------------------
(* publish_one, call by call *)

PublishUnchanged ==
  /\ WorkerUnchanged
  /\ UNCHANGED <<wave, halt, outcome, job, late, touched>>

\* The classes an adapter's own failure has at each call.
CallFailure == [
  probe |-> {"Write"}, verify |-> {"Trust"}, pair |-> {"Write"},
  reference |-> {"Write", "Trust"}, referencePair |-> {"Write"},
  prepare |-> {"Read", "Precondition", "Integrity", "Write", "Trust"}]

\* A call fails, or a check before, in or after it does.
CallFails(w) ==
  /\ at[w] \in DOMAIN CallFailure
  /\ \E class \in CallFailure[at[w]] \cup CheckFailure : Settle(w, class)
  /\ PublishUnchanged
  /\ UNCHANGED <<storeVars, committing, validated, todo, seen, refused>>

\* The metadata of the path itself.
Probe(w) ==
  LET record == meta[job[w]] IN
  /\ at[w] = "probe"
  /\ ~cancelRequested
  /\ seen' = [seen EXCEPT ![w] = [path |-> job[w], record |-> record]]
  /\ Go(w, IF record \in {"ours", "untrusted"} THEN "verify" ELSE "reference")
  /\ PublishUnchanged
  /\ UNCHANGED <<storeVars, committing, validated, todo, verdict, refused>>

\* signature_is_trusted of existing_is_valid: no check follows the call.
Verify(w) ==
  /\ at[w] = "verify"
  /\ Go(w, IF Trusted(seen[w].record) THEN "pair" ELSE "reference")
  /\ PublishUnchanged
  /\ UNCHANGED <<storeVars, committing, validated, todo, seen, verdict, refused>>

\* Existing metadata is believed without its archive.
PairUnread(w) ==
  /\ at[w] = "pair"
  /\ ~cancelRequested
  /\ Settle(w, "Existing")
  /\ PublishUnchanged
  /\ UNCHANGED <<storeVars, committing, validated, todo, seen, refused>>

\* cache_pair_is_valid of existing_is_valid.
Pair(w) ==
  /\ at[w] = "pair"
  /\ ~cancelRequested
  /\ IF PairValid(seen[w].record, archive[job[w]])
     THEN Settle(w, "Existing")
     ELSE Go(w, "reference") /\ UNCHANGED verdict
  /\ PublishUnchanged
  /\ UNCHANGED <<storeVars, committing, validated, todo, seen, refused>>

\* require_prerequisites: the next reference's metadata, or none is left.
Refuse(w) ==
  /\ Settle(w, "Precondition")
  /\ refused' = refused \cup {job[w]}

Reference(w) ==
  /\ at[w] = "reference"
  /\ \/ /\ todo[w] = {}
        /\ Go(w, "prepare")
        /\ UNCHANGED <<seen, verdict, refused>>
     \/ \E r \in todo[w] :
          /\ ~cancelRequested
          /\ seen' = [seen EXCEPT ![w] = [path |-> r, record |-> meta[r]]]
          /\ IF Trusted(meta[r])
             THEN Go(w, "referencePair") /\ UNCHANGED <<verdict, refused>>
             ELSE Refuse(w)
  /\ PublishUnchanged
  /\ UNCHANGED <<storeVars, committing, validated, todo>>

\* The metadata of a reference is taken for the whole of it.
ReferencePairUnread(w) ==
  LET r == seen[w].path IN
  /\ at[w] = "referencePair"
  /\ todo' = [todo EXCEPT ![w] = @ \ {r}]
  /\ Go(w, "reference")
  /\ PublishUnchanged
  /\ UNCHANGED <<storeVars, committing, validated, seen, verdict, refused>>

\* Its archive, unless this batch has validated it before.
ReferencePair(w) ==
  LET r == seen[w].path
      settled == r \in validated \/ PairValid(seen[w].record, archive[r])
  IN
  /\ at[w] = "referencePair"
  /\ r \in validated \/ ~cancelRequested
  /\ IF settled
     THEN /\ todo' = [todo EXCEPT ![w] = @ \ {r}]
          /\ validated' = validated \cup {r}
          /\ Go(w, "reference")
          /\ UNCHANGED <<verdict, refused>>
     ELSE Refuse(w) /\ UNCHANGED <<todo, validated>>
  /\ PublishUnchanged
  /\ UNCHANGED <<storeVars, committing, seen>>

\* serialize, validate_archive_identity, encode, sign and NarInfo::new.
Prepare(w) ==
  /\ at[w] = "prepare"
  /\ ~cancelRequested
  /\ Go(w, "putArchive")
  /\ PublishUnchanged
  /\ UNCHANGED <<storeVars, committing, validated, todo, seen, verdict, refused>>

StoreArchive(p, state) == archive' = [archive EXCEPT ![p].ours = state]

\* The archive is durable; the check after the put may still end the path.
PutArchive(w) ==
  /\ at[w] = "putArchive"
  /\ StoreArchive(job[w], "valid")
  /\ \/ ~cancelRequested /\ Go(w, "gate") /\ UNCHANGED verdict
     \/ \E class \in CheckFailure : Settle(w, class)
  /\ PublishUnchanged
  /\ UNCHANGED <<meta, committing, validated, todo, seen, refused>>

\* A failed put promises nothing about the archive object.
PutArchiveFails(w) ==
  /\ at[w] = "putArchive"
  /\ \E state \in {archive[job[w]].ours, "valid", "corrupt"} : StoreArchive(job[w], state)
  /\ \E class \in AdapterFailure("Write") : Settle(w, class)
  /\ PublishUnchanged
  /\ UNCHANGED <<meta, committing, validated, todo, seen, refused>>

\* commit_if_not_cancelled: wait behind another commit, refuse, or begin.
EnterGate(w) ==
  /\ at[w] = "gate"
  /\ committing = None
  /\ \/ cancelRequested /\ Settle(w, "Cancelled") /\ UNCHANGED committing
     \/ ~cancelRequested /\ committing' = w /\ Go(w, "commit") /\ UNCHANGED verdict
  /\ PublishUnchanged
  /\ UNCHANGED <<storeVars, validated, todo, seen, refused>>

\* The metadata becomes visible with the success of its put.
PutMetadata(w) ==
  /\ at[w] = "commit"
  /\ meta' = [meta EXCEPT ![job[w]] = "ours"]
  /\ committing' = None
  /\ Settle(w, "Uploaded")
  /\ PublishUnchanged
  /\ UNCHANGED <<archive, validated, todo, seen, refused>>

\* The put fails, or its own check sees the cancellation that is waiting for
\* this very commit: the metadata stays as it was and the gate opens.
PutMetadataFails(w) ==
  /\ at[w] = "commit"
  /\ \E class \in AdapterFailure("Write") : Settle(w, class)
  /\ committing' = None
  /\ PublishUnchanged
  /\ UNCHANGED <<storeVars, validated, todo, seen, refused>>

------------------------------------------------------------------------------

\* Some other thread calls Cancellation::request.
RequestCancel ==
  /\ ~cancelRequested
  /\ cancelRequested' = TRUE
  /\ UNCHANGED <<request, storeVars, committing, batchVars, halt, validated, outcome, workerVars,
                 historyVars>>

PublishOne(w) ==
  \/ Probe(w) \/ Verify(w) \/ Pair(w) \/ Reference(w) \/ ReferencePair(w)
  \/ Prepare(w) \/ PutArchive(w) \/ EnterGate(w) \/ PutMetadata(w)
  \/ CallFails(w) \/ PutArchiveFails(w) \/ PutMetadataFails(w)

WorkerStep(w) ==
  Pick(w) \/ Start(w) \/ StartExpired(w) \/ Halt(w) \/ Record(w) \/ PublishOne(w)

BatchStep == Begin \/ Index \/ IndexFails \/ StartWave \/ EndWave \/ Finish

Next == BatchStep \/ (\E w \in Workers : WorkerStep(w)) \/ RequestCancel

Spec == Init /\ [][Next]_vars

\* Threads run and adapters answer, with success or with an error.
Fairness == WF_vars(BatchStep) /\ \A w \in Workers : WF_vars(WorkerStep(w))
FairSpec == Spec /\ Fairness

------------------------------------------------------------------------------
(* Properties *)

\* Metadata is the last thing of a path to appear: at the moment it becomes
\* visible its archive is durable, so are the metadata and the archives of
\* everything it references, and the worker holds the commit gate, which nobody
\* enters any more once cancellation is visible.
MetadataComesLast ==
  [][/\ \A p \in Paths : meta'[p] # meta[p] =>
          /\ archive[p].ours = "valid"
          /\ \A r \in References[p] \ {p} : Durable(r)
          /\ committing # None /\ job[committing] = p
     /\ cancelRequested /\ committing = None => committing' = None]_vars

\* What the result says of a path is true of the cache when the batch is over:
\* a success is there with its archive, and a path uploaded by this batch is
\* there with everything it references.
SuccessIsDurable ==
  /\ TypeOK
  /\ \A p \in Paths :
       /\ outcome[p] \in Receipt => meta[p] = "ours" /\ Durable(p)
       /\ outcome[p] = "Uploaded" => \A r \in References[p] : Durable(r)

\* A trust, integrity, provenance, precondition or cancellation failure, once
\* recorded, stops the queue: a path picked after it never reaches the store.
StoppedQueueStaysStopped == late \cap touched = {}

\* The waves are enough: a path refused for a reference that is not durable
\* has one that the whole batch could not make durable.
RefusalIsJustified ==
  batch = "done" => \A p \in refused : \E r \in References[p] \ {p} : ~Durable(r)

\* The batch ends, whatever fails on the way, and unless it failed as a whole
\* every path selected has a result then, those of a cycle and those after a
\* failure included, and no worker is still busy with one.
BatchEnds ==
  <>[](\/ batch = "failed"
      \/ /\ batch = "done"
         /\ \A p \in sources : outcome[p] # None
         /\ \A w \in Workers : at[w] = "idle")

==============================================================================
