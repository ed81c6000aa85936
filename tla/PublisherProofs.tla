---------------------------- MODULE PublisherProofs ----------------------------
(***************************************************************************)
(* Proofs about Publisher for any paths, batches and number of workers.    *)
(*                                                                         *)
(* The argument is about who may touch a path.  Only the worker whose job  *)
(* it is changes the objects of a path, no two workers have one job, and a *)
(* path is picked once.  The references of a path that is being published  *)
(* are therefore finished: no worker has them or will have them, so what   *)
(* was once seen of them stays.  WaveInv says this; Stage(w) says what a   *)
(* worker knows where it stands; ResultInv and QueueInv say what is left   *)
(* behind.                                                                 *)
(***************************************************************************)
EXTENDS Publisher, TLAPS

Working == {"probe", "verify", "pair", "reference", "referencePair", "prepare", "putArchive",
            "gate", "commit"}
Needs(p) == References[p] \ {p}

\* No worker has the path or will have it.
Finished(p) ==
  /\ p \notin wave
  /\ \A w \in Workers : job[w] # p
  /\ p \in sources => p \in placed

\* What a result claims of the store.
Told(p, result) ==
  /\ result \in Receipt => meta[p] = "ours" /\ Durable(p)
  /\ result = "Uploaded" => p \in Local /\ \A r \in References[p] : Durable(r)

\* What a worker knows where it stands.
Stage(w) ==
  /\ at[w] = "idle" <=> job[w] = None
  /\ at[w] \in Working => job[w] \in Local /\ todo[w] \subseteq Needs(job[w])
  /\ at[w] \in {"probe", "verify", "pair"} => todo[w] = Needs(job[w])
  /\ at[w] \in {"verify", "pair"} => seen[w] = [path |-> job[w], record |-> meta[job[w]]]
  /\ at[w] = "verify" => meta[job[w]] \in {"ours", "untrusted"}
  /\ at[w] = "pair" => meta[job[w]] = "ours"
  /\ at[w] = "referencePair" =>
       \E r \in todo[w] : seen[w] = [path |-> r, record |-> meta[r]] /\ Trusted(meta[r])
  /\ at[w] \in {"reference", "referencePair", "prepare", "putArchive", "gate", "commit"} =>
       \A r \in Needs(job[w]) \ todo[w] : Durable(r)
  /\ at[w] \in {"prepare", "putArchive", "gate", "commit"} => todo[w] = {}
  /\ at[w] \in {"gate", "commit"} => archive[job[w]].ours = "valid"
  /\ at[w] = "commit" => committing = w
  /\ at[w] \in {"settled", "record"} => verdict[w] \in Settled /\ Told(job[w], verdict[w])
  /\ at[w] = "record" /\ StopsQueue(verdict[w]) => halt # None

WaveInv ==
  /\ batch # "wave" => wave = {} /\ \A w \in Workers : at[w] = "idle"
  /\ batch \in {"start", "index"} =>
       /\ placed = {} /\ validated = {} /\ refused = {}
       /\ \A p \in Paths : outcome[p] \notin Receipt
  /\ batch \notin {"done", "failed"} => \A p \in Paths \ placed : outcome[p] = None
  /\ \A w \in Workers : job[w] \in Paths => job[w] \in placed \ wave
  /\ \A v, w \in Workers : job[v] \in Paths /\ job[v] = job[w] => v = w
  /\ \A p \in Local : p \in wave \/ (\E w \in Workers : job[w] = p) =>
       \A r \in Needs(p) : Finished(r)

ResultInv ==
  /\ \A r \in validated : Durable(r) /\ Finished(r)
  /\ \A p \in Paths : outcome[p] \in Receipt => Finished(p) /\ Told(p, outcome[p])
  /\ \A p \in Paths : outcome[p] = "Uploaded" => \A r \in References[p] : Finished(r)
  /\ \A p \in refused : \E r \in Needs(p) : Finished(r) /\ ~Durable(r)

QueueInv ==
  /\ \A p \in placed : StopsQueue(outcome[p]) => halt # None
  /\ late # {} => halt # None
  /\ touched \subseteq placed \ wave
  /\ late \cap touched = {}

IInv == TypeOK /\ WaveInv /\ (\A w \in Workers : Stage(w)) /\ ResultInv /\ QueueInv

\* What a step of a worker leaves alone, and what it must have seen for what it adds.
Inside(w) ==
  /\ UNCHANGED <<request, batch, sources, placed, wave, outcome, job, late>>
  /\ \A p \in Paths \ {job[w]} : meta'[p] = meta[p] /\ archive'[p] = archive[p]
  /\ \A v \in Workers \ {w} :
       /\ at'[v] = at[v] /\ todo'[v] = todo[v] /\ seen'[v] = seen[v]
       /\ verdict'[v] = verdict[v]
       /\ at[v] = "commit" => committing' = committing
  /\ \A r \in validated' \ validated : Durable(r) /\ Finished(r)
  /\ \A p \in refused' \ refused : \E r \in Needs(p) : Finished(r) /\ ~Durable(r)
  /\ halt # None => halt' # None
  /\ touched' \subseteq touched \cup {job[w]}
  /\ touched' # touched => halt = None

------------------------------------------------------------------------------
(* Whose the paths are *)

LEMMA PathsOfRequest ==
  ASSUME TypeOK
  PROVE  /\ Roots \subseteq Paths /\ Local \subseteq Paths /\ Closure \in BOOLEAN
         /\ \A p \in Paths : References[p] \subseteq Paths /\ Needs(p) \subseteq Paths
BY PublisherAssumption DEF TypeOK, Roots, Local, Closure, References, Needs

LEMMA JobIsPlaced ==
  ASSUME IInv, NEW w \in Workers, at[w] # "idle"
  PROVE  /\ job[w] \in Paths /\ job[w] \in placed \ wave /\ batch = "wave"
         /\ \A v \in Workers \ {w} : job[v] # job[w]
         /\ job[w] \in Local => \A r \in Needs(job[w]) : Finished(r)
<1>1. job[w] \in Paths
  BY DEF IInv, TypeOK, Stage
<1>2. QED BY <1>1 DEF IInv, WaveInv

\* What a worker knows stays true while others work.
LEMMA OthersKeep ==
  ASSUME IInv, NEW w \in Workers, at[w] # "idle", Inside(w)
  PROVE  /\ \A p : Finished(p)' <=> Finished(p)
         /\ \A p : Needs(p)' = Needs(p)
         /\ \A p \in Paths \ {job[w]} : Durable(p)' <=> Durable(p)
         /\ \A p \in Paths : Finished(p) => p # job[w] /\ (Durable(p)' <=> Durable(p))
         /\ \A v \in Workers \ {w} : Stage(v)'
<1>1. /\ \A p : Finished(p)' <=> Finished(p)
      /\ \A p : Needs(p)' = Needs(p) /\ References'[p] = References[p]
      /\ Local' = Local
  BY DEF Inside, Finished, Needs, References, Local
<1>2. /\ \A p \in Paths \ {job[w]} : Durable(p)' <=> Durable(p)
      /\ \A p \in Paths : Finished(p) => p # job[w] /\ (Durable(p)' <=> Durable(p))
  BY DEF Inside, Durable, Finished
<1>3. ASSUME NEW v \in Workers \ {w} PROVE Stage(v)'
  <2>1. Stage(v) /\ (at[v] = "idle" => at'[v] = "idle" /\ job'[v] = None /\ job[v] = None)
    BY DEF IInv, Stage, Inside
  <2>2. CASE at[v] = "idle"
    BY <2>1, <2>2 DEF Stage, Working
  <2>3. CASE at[v] # "idle"
    <3>1. /\ job[v] \in Paths /\ job[v] # job[w] /\ v \in Workers
          /\ job[v] \in Local => \A r \in Needs(job[v]) : Finished(r) /\ r \in Paths
      BY <2>3, JobIsPlaced, PathsOfRequest DEF IInv
    <3>2. /\ at'[v] = at[v] /\ todo'[v] = todo[v] /\ seen'[v] = seen[v]
          /\ verdict'[v] = verdict[v] /\ job'[v] = job[v]
          /\ at[v] = "commit" => committing' = committing
          /\ halt # None => halt' # None
      BY DEF Inside
    <3>3. /\ meta'[job[v]] = meta[job[v]] /\ archive'[job[v]] = archive[job[v]]
          /\ Durable(job[v])' <=> Durable(job[v])
          /\ \A r \in Paths : Finished(r) => /\ meta'[r] = meta[r] /\ r # job[w]
                                             /\ Durable(r)' <=> Durable(r)
      BY <1>2, <3>1 DEF Inside, Durable
    <3>4. ASSUME Told(job[v], verdict[v]) PROVE Told(job[v], verdict[v])'
      <4>1. verdict[v] = "Uploaded" => \A r \in References[job[v]] : Durable(r)'
        <5>1. Durable(job[v])' <=> PairValid(meta'[job[v]], archive'[job[v]])
          BY <3>2 DEF Durable
        <5>2. \A r \in Needs(job[v]) : Durable(r) /\ job[v] \in Local =>
                PairValid(meta'[r], archive'[r])
          BY <3>1, <3>3 DEF Durable
        <5>3. QED BY <3>3, <3>4, <5>1, <5>2 DEF Told, Needs, Durable
      <4>2. verdict'[v] \in Receipt => meta'[job'[v]] = "ours" /\ Durable(job[v])'
        BY <3>2, <3>3, <3>4 DEF Told
      <4>3. verdict'[v] = "Uploaded" =>
              job'[v] \in Local' /\ \A r \in References'[job'[v]] : Durable(r)'
        BY <1>1, <3>2, <3>4, <4>1 DEF Told
      <4>4. QED BY <4>2, <4>3 DEF Told
    <3>5. at[v] \in Working =>
            /\ job'[v] \in Local' /\ todo'[v] \subseteq Needs(job[v])
            /\ \A r \in Needs(job[v]) : /\ meta'[r] = meta[r] /\ (Durable(r)' <=> Durable(r))
      BY <1>1, <2>1, <3>1, <3>2, <3>3 DEF Stage
    <3>6. at[v] = "referencePair" => \E r \in todo'[v] :
            seen'[v] = [path |-> r, record |-> meta'[r]] /\ Trusted(meta'[r])
      BY <2>1, <3>2, <3>5 DEF Stage, Working
    <3>7. at[v] \in {"reference", "referencePair", "prepare", "putArchive", "gate", "commit"} =>
            \A r \in Needs(job[v]) \ todo[v] : Durable(r)'
      BY <2>1, <3>5 DEF Stage, Working
    <3>8. at[v] \in {"probe", "verify", "pair"} => todo'[v] = Needs(job[v])
      BY <2>1, <3>2 DEF Stage
    <3>9. QED
      BY <1>1, <2>1, <3>2, <3>3, <3>4, <3>5, <3>6, <3>7, <3>8 DEF Stage
  <2>4. QED BY <2>2, <2>3
<1>4. QED BY <1>1, <1>2, <1>3

LEMMA InsideIInv ==
  ASSUME IInv, NEW w \in Workers, at[w] # "idle", Inside(w), TypeOK', Stage(w)'
  PROVE  IInv'
<1>1. /\ \A p : Finished(p)' <=> Finished(p)
      /\ \A p : Needs(p)' = Needs(p)
      /\ \A p \in Paths : Finished(p) => p # job[w] /\ (Durable(p)' <=> Durable(p))
      /\ \A v \in Workers : Stage(v)'
  BY OthersKeep
<1>2. /\ job[w] \in Paths /\ job[w] \in placed \ wave /\ batch = "wave"
      /\ Local' = Local /\ \A p : References'[p] = References[p]
  BY JobIsPlaced DEF Inside, Local, References
<1>3. WaveInv'
  <2>1. batch' = "wave"
    BY <1>2 DEF Inside
  <2>2. QED BY <1>1, <1>2, <2>1 DEF IInv, WaveInv, Inside
<1>4. ResultInv'
  <2>1. \A r \in validated' : Durable(r)' /\ Finished(r)'
    BY <1>1 DEF IInv, ResultInv, Inside, TypeOK
  <2>2. ASSUME NEW p \in Paths, outcome'[p] \in Receipt
        PROVE  Finished(p)' /\ Told(p, outcome[p])'
    <3>1. outcome' = outcome /\ Finished(p) /\ Told(p, outcome[p])
          /\ (outcome[p] = "Uploaded" => \A r \in References[p] : Finished(r) /\ r \in Paths)
      BY <2>2, PathsOfRequest DEF IInv, ResultInv, Inside
    <3>2. meta'[p] = meta[p] /\ (Durable(p)' <=> Durable(p))
      BY <1>1, <3>1 DEF Inside
    <3>3. QED BY <1>1, <1>2, <3>1, <3>2 DEF Told
  <2>3. \A p \in Paths : outcome'[p] = "Uploaded" => \A r \in References'[p] : Finished(r)'
    BY <1>1, <1>2 DEF IInv, ResultInv, Inside
  <2>4. ASSUME NEW p \in refused'
        PROVE  \E r \in Needs(p)' : Finished(r)' /\ ~Durable(r)'
    <3>1. PICK r \in Needs(p) : Finished(r) /\ ~Durable(r)
      BY DEF IInv, ResultInv, Inside
    <3>2. r \in Paths
      BY PathsOfRequest, <2>4, <1>1 DEF IInv, TypeOK
    <3>3. QED BY <1>1, <3>1, <3>2
  <2>5. outcome' = outcome
    BY DEF Inside
  <2>6. QED BY <2>1, <2>2, <2>3, <2>4, <2>5 DEF ResultInv
<1>5. QueueInv'
  BY <1>2 DEF IInv, QueueInv, Inside, StopsQueue
<1>6. QED BY <1>1, <1>3, <1>4, <1>5 DEF IInv

------------------------------------------------------------------------------
(* publish_one, step by step *)

\* A path that comes to a failure claims nothing.
LEMMA FailureClaimsNothing ==
  ASSUME NEW class \in FailureClass
  PROVE  class \in Settled /\ class \notin Receipt /\ class # "Uploaded"
BY DEF Settled, FailureClass, Receipt

LEMMA SettledStage ==
  ASSUME IInv, NEW w \in Workers, NEW result \in Settled, at[w] # "idle",
         Settle(w, result), job' = job, Told(job[w], result)'
  PROVE  Stage(w)'
<1>1. at'[w] = "settled" /\ verdict'[w] = result /\ job'[w] = job[w] /\ job[w] \in Paths
  BY JobIsPlaced DEF Settle, Go, IInv, TypeOK
<1>2. job'[w] # None
  BY <1>1, PublisherAssumption
<1>3. QED BY <1>1, <1>2 DEF Stage, Working

LEMMA FailedStage ==
  ASSUME IInv, NEW w \in Workers, NEW class \in FailureClass, at[w] # "idle",
         Settle(w, class), job' = job
  PROVE  Stage(w)'
<1>1. class \in Settled /\ Told(job[w], class)'
  BY FailureClaimsNothing DEF Told
<1>2. QED BY <1>1, SettledStage

\* The types of what Settle and Go change.
LEMMA SettleTypes ==
  ASSUME TypeOK, NEW w \in Workers, NEW result \in Settled, Settle(w, result)
  PROVE  at' \in [Workers -> WorkerStates] /\ verdict' \in [Workers -> Settled \cup {None}]
BY DEF TypeOK, Settle, Go, WorkerStates

LEMMA GoTypes ==
  ASSUME TypeOK, NEW w \in Workers, NEW state \in WorkerStates, Go(w, state)
  PROVE  at' \in [Workers -> WorkerStates] /\ at'[w] = state
         /\ \A v \in Workers \ {w} : at'[v] = at[v]
BY DEF TypeOK, Go

LEMMA ChecksFail ==
  /\ CheckFailure \subseteq FailureClass
  /\ \A state \in DOMAIN CallFailure : CallFailure[state] \subseteq FailureClass
  /\ AdapterFailure("Write") \subseteq FailureClass
  /\ DOMAIN CallFailure \subseteq Working
BY DEF CheckFailure, CallFailure, AdapterFailure, FailureClass, Working

LEMMA CallFailsIInv ==
  ASSUME IInv, NEW w \in Workers, CallFails(w)
  PROVE  IInv'
<1>1. /\ at[w] \in DOMAIN CallFailure /\ at[w] # "idle" /\ job' = job
      /\ \E class \in FailureClass : Settle(w, class)
  BY ChecksFail DEF CallFails, PublishUnchanged, Working
<1>2. PICK class \in FailureClass : Settle(w, class)
  BY <1>1
<1>3. Stage(w)'
  BY <1>1, <1>2, FailedStage
<1>4. TypeOK'
  BY <1>2, SettleTypes, FailureClaimsNothing
     DEF IInv, TypeOK, CallFails, PublishUnchanged, WorkerUnchanged, storeVars,
         Roots, References, Local, Closure
<1>5. Inside(w)
  BY <1>2 DEF Inside, CallFails, PublishUnchanged, WorkerUnchanged, storeVars, Settle, Go, IInv,
              TypeOK
<1>6. QED BY <1>1, <1>3, <1>4, <1>5, InsideIInv

LEMMA ProbeIInv ==
  ASSUME IInv, NEW w \in Workers, Probe(w)
  PROVE  IInv'
<1>1. at[w] = "probe" /\ job[w] \in Paths /\ job' = job /\ job'[w] # None
  BY JobIsPlaced, PublisherAssumption DEF Probe, PublishUnchanged
<1>2. meta[job[w]] \in Records
  BY <1>1 DEF IInv, TypeOK
<1>3. at' \in [Workers -> WorkerStates] /\ at'[w] \in {"verify", "reference"}
  BY DEF Probe, Go, IInv, TypeOK, WorkerStates
<1>4. seen' = [seen EXCEPT ![w] = [path |-> job[w], record |-> meta[job[w]]]]
  BY DEF Probe
<1>5. TypeOK'
  <2>1. seen' \in [Workers -> [path : Paths, record : Records] \cup {None}]
    BY <1>1, <1>2, <1>4 DEF IInv, TypeOK
  <2>2. QED
    BY <1>3, <2>1 DEF IInv, TypeOK, Probe, PublishUnchanged, WorkerUnchanged, storeVars,
                      Roots, References, Local, Closure
<1>6. Inside(w)
  BY <1>4 DEF Inside, Probe, PublishUnchanged, WorkerUnchanged, storeVars, Go, IInv, TypeOK
<1>7. Stage(w)'
  <2>1. Stage(w) /\ todo' = todo /\ meta' = meta /\ Local' = Local
        /\ Needs(job[w])' = Needs(job[w])
    BY <1>1 DEF IInv, Probe, PublishUnchanged, WorkerUnchanged, storeVars, Local, Needs,
                References
  <2>2. at'[w] = "verify" => meta[job[w]] \in {"ours", "untrusted"}
    BY DEF Probe, Go, IInv, TypeOK
  <2>3. seen'[w] = [path |-> job[w], record |-> meta[job[w]]]
    BY <1>4 DEF IInv, TypeOK
  <2>4. at'[w] = "reference" => \A r \in Needs(job[w])' \ todo'[w] : Durable(r)'
    <3>1. todo[w] = Needs(job[w])
      BY <1>1, <2>1 DEF Stage
    <3>2. QED BY <2>1, <3>1
  <2>5. QED BY <1>1, <1>3, <2>1, <2>2, <2>3, <2>4 DEF Stage, Working
<1>8. QED BY <1>1, <1>5, <1>6, <1>7, InsideIInv

LEMMA VerifyIInv ==
  ASSUME IInv, NEW w \in Workers, Verify(w)
  PROVE  IInv'
<1>1. at[w] = "verify" /\ Stage(w) /\ job[w] \in Paths
      /\ seen[w] = [path |-> job[w], record |-> meta[job[w]]]
  BY JobIsPlaced DEF Verify, IInv, Stage
<1>2. /\ UNCHANGED <<job, todo, seen, verdict, meta, archive, committing, halt, request>>
      /\ at' = [at EXCEPT ![w] = IF Trusted(meta[job[w]]) THEN "pair" ELSE "reference"]
  BY <1>1 DEF Verify, Go, PublishUnchanged, WorkerUnchanged, storeVars
<1>3. at'[w] \in {"pair", "reference"} /\ at' \in [Workers -> WorkerStates]
  BY <1>2 DEF IInv, TypeOK, WorkerStates
<1>4. TypeOK'
  BY <1>2, <1>3 DEF IInv, TypeOK, Verify, PublishUnchanged, WorkerUnchanged, storeVars,
                    Roots, References, Local, Closure
<1>5. Inside(w)
  BY <1>2 DEF Inside, Verify, PublishUnchanged, WorkerUnchanged, storeVars, IInv, TypeOK
<1>6. Stage(w)'
  <2>1. Needs(job[w])' = Needs(job[w]) /\ Local' = Local
    BY <1>2 DEF Needs, References, Local
  <2>2. at'[w] = "pair" => meta[job[w]] = "ours"
    BY <1>1, <1>2 DEF Stage, Trusted, IInv, TypeOK
  <2>3. todo[w] = Needs(job[w]) /\ job[w] \in Local /\ job[w] # None
    BY <1>1 DEF Stage, Working
  <2>4. QED BY <1>1, <1>2, <1>3, <2>1, <2>2, <2>3 DEF Stage, Working
<1>7. QED BY <1>1, <1>4, <1>5, <1>6, InsideIInv

LEMMA PairIInv ==
  ASSUME IInv, NEW w \in Workers, Pair(w)
  PROVE  IInv'
<1>1. at[w] = "pair" /\ Stage(w) /\ job[w] \in Paths
      /\ seen[w] = [path |-> job[w], record |-> meta[job[w]]] /\ meta[job[w]] = "ours"
      /\ todo[w] = Needs(job[w]) /\ job[w] \in Local /\ job[w] # None
  BY JobIsPlaced DEF Pair, IInv, Stage, Working
<1>2. UNCHANGED <<job, todo, seen, meta, archive, committing, halt, request>>
  BY DEF Pair, PublishUnchanged, WorkerUnchanged, storeVars
<1>3. CASE PairValid(meta[job[w]], archive[job[w]])
  <2>1. Settle(w, "Existing") /\ "Existing" \in Settled
    BY <1>1, <1>3 DEF Pair, Settled, Receipt
  <2>2. TypeOK'
    BY <1>2, <2>1, SettleTypes DEF IInv, TypeOK, Pair, PublishUnchanged, WorkerUnchanged,
                    storeVars, Roots, References, Local, Closure
  <2>3. Inside(w)
    BY <1>2, <2>1 DEF Inside, Pair, PublishUnchanged, WorkerUnchanged, storeVars, Settle, Go,
                      IInv, TypeOK
  <2>4. Told(job[w], "Existing")'
    BY <1>1, <1>2, <1>3 DEF Told, Durable
  <2>5. QED BY <1>1, <1>2, <2>1, <2>2, <2>3, <2>4, SettledStage, InsideIInv
<1>4. CASE ~PairValid(meta[job[w]], archive[job[w]])
  <2>1. Go(w, "reference") /\ UNCHANGED verdict /\ "reference" \in WorkerStates
    BY <1>1, <1>4 DEF Pair, WorkerStates
  <2>2. TypeOK'
    BY <1>2, <2>1, GoTypes DEF IInv, TypeOK, Pair, PublishUnchanged, WorkerUnchanged,
                    storeVars, Roots, References, Local, Closure
  <2>3. Inside(w)
    BY <1>2, <2>1 DEF Inside, Pair, PublishUnchanged, WorkerUnchanged, storeVars, Go,
                      IInv, TypeOK
  <2>4. Needs(job[w])' = Needs(job[w]) /\ Local' = Local /\ at'[w] = "reference"
    BY <1>2, <2>1, GoTypes DEF Needs, References, Local, IInv
  <2>5. Stage(w)'
    BY <1>1, <1>2, <2>4 DEF Stage, Working
  <2>6. QED BY <1>1, <2>2, <2>3, <2>5, InsideIInv
<1>5. QED BY <1>3, <1>4

\* A path is refused for a reference that nobody can make durable any more.
LEMMA RefuseIInv ==
  ASSUME IInv, NEW w \in Workers, NEW r \in Needs(job[w]), at[w] # "idle",
         job[w] \in Local, ~Durable(r), Refuse(w), PublishUnchanged,
         UNCHANGED <<storeVars, committing, validated, todo>>,
         seen' \in [Workers -> [path : Paths, record : Records] \cup {None}],
         \A v \in Workers \ {w} : seen'[v] = seen[v]
  PROVE  IInv'
<1>1. Settle(w, "Precondition") /\ "Precondition" \in FailureClass
      /\ refused' = refused \cup {job[w]} /\ job' = job
  BY DEF Refuse, FailureClass, PublishUnchanged
<1>2. job[w] \in Paths /\ Finished(r)
  BY JobIsPlaced
<1>3. TypeOK'
  BY <1>1, <1>2, SettleTypes, FailureClaimsNothing
     DEF IInv, TypeOK, PublishUnchanged, WorkerUnchanged, storeVars, Roots, References, Local,
         Closure
<1>4. Inside(w)
  BY <1>1, <1>2 DEF Inside, PublishUnchanged, WorkerUnchanged, storeVars, Settle, Go, IInv,
                    TypeOK
<1>5. QED BY <1>1, <1>3, <1>4, FailedStage, InsideIInv

LEMMA ReferenceIInv ==
  ASSUME IInv, NEW w \in Workers, Reference(w)
  PROVE  IInv'
<1>1. at[w] = "reference" /\ Stage(w) /\ job[w] \in Paths /\ at[w] # "idle"
      /\ todo[w] \subseteq Needs(job[w]) /\ job[w] \in Local /\ job[w] # None
      /\ \A r \in Needs(job[w]) \ todo[w] : Durable(r)
  BY JobIsPlaced DEF Reference, IInv, Stage, Working
<1>2. UNCHANGED <<job, todo, meta, archive, committing, validated, halt, request>>
      /\ PublishUnchanged
  BY DEF Reference, PublishUnchanged, WorkerUnchanged, storeVars
<1>3. Needs(job[w])' = Needs(job[w]) /\ Local' = Local
      /\ \A r : Durable(r)' <=> Durable(r)
  BY <1>2 DEF Needs, References, Local, Durable
<1>4. CASE todo[w] = {} /\ Go(w, "prepare") /\ UNCHANGED <<seen, verdict, refused>>
  <2>1. "prepare" \in WorkerStates /\ Go(w, "prepare") /\ TypeOK
    BY <1>4 DEF WorkerStates, IInv
  <2>2. TypeOK'
    BY <1>2, <1>4, <2>1, GoTypes DEF TypeOK, PublishUnchanged, WorkerUnchanged,
                    storeVars, Roots, References, Local, Closure
  <2>3. Inside(w)
    BY <1>2, <1>4 DEF Inside, PublishUnchanged, WorkerUnchanged, storeVars, Go, IInv, TypeOK
  <2>4. Stage(w)'
    BY <1>1, <1>2, <1>3, <1>4, <2>1, GoTypes DEF Stage, Working
  <2>5. QED BY <1>1, <2>2, <2>3, <2>4, InsideIInv
<1>5. ASSUME NEW r \in todo[w],
             seen' = [seen EXCEPT ![w] = [path |-> r, record |-> meta[r]]],
             IF Trusted(meta[r])
               THEN Go(w, "referencePair") /\ UNCHANGED <<verdict, refused>> ELSE Refuse(w)
      PROVE  IInv'
  <2>1. r \in Needs(job[w]) /\ r \in Paths /\ meta[r] \in Records
    BY <1>1, PathsOfRequest DEF IInv, TypeOK
  <2>2. /\ seen' \in [Workers -> [path : Paths, record : Records] \cup {None}]
        /\ \A v \in Workers \ {w} : seen'[v] = seen[v]
        /\ seen'[w] = [path |-> r, record |-> meta[r]]
    BY <1>5, <2>1 DEF IInv, TypeOK
  <2>3. CASE Trusted(meta[r])
    <3>1. "referencePair" \in WorkerStates /\ Go(w, "referencePair") /\ TypeOK
          /\ UNCHANGED <<verdict, refused>>
      BY <1>5, <2>3 DEF WorkerStates, IInv
    <3>2. TypeOK'
      BY <1>2, <2>2, <3>1, GoTypes DEF TypeOK, PublishUnchanged, WorkerUnchanged,
                    storeVars, Roots, References, Local, Closure
    <3>3. Inside(w)
      BY <1>2, <2>2, <3>1 DEF Inside, PublishUnchanged, WorkerUnchanged, storeVars, Go, IInv,
                    TypeOK
    <3>4. at'[w] = "referencePair"
      BY <3>1, GoTypes
    <3>5. Stage(w)'
      BY <1>1, <1>2, <1>3, <2>2, <2>3, <3>4 DEF Stage, Working
    <3>6. QED BY <1>1, <3>2, <3>3, <3>5, InsideIInv
  <2>4. CASE ~Trusted(meta[r])
    <3>1. ~Durable(r) /\ Refuse(w)
      BY <1>5, <2>4 DEF Durable, PairValid
    <3>2. QED BY <1>1, <1>2, <2>1, <2>2, <3>1, RefuseIInv DEF storeVars
  <2>5. QED BY <2>3, <2>4
<1>6. QED BY <1>4, <1>5 DEF Reference

LEMMA ReferencePairIInv ==
  ASSUME IInv, NEW w \in Workers, ReferencePair(w)
  PROVE  IInv'
<1>1. at[w] = "referencePair" /\ Stage(w) /\ job[w] \in Paths /\ at[w] # "idle"
      /\ todo[w] \subseteq Needs(job[w]) /\ job[w] \in Local /\ job[w] # None
      /\ \A q \in Needs(job[w]) \ todo[w] : Durable(q)
  BY JobIsPlaced DEF ReferencePair, IInv, Stage, Working
<1>2. PICK r \in todo[w] : seen[w] = [path |-> r, record |-> meta[r]] /\ Trusted(meta[r])
  BY <1>1 DEF Stage
<1>3. r \in Needs(job[w]) /\ r \in Paths /\ Finished(r)
  BY <1>1, <1>2, PathsOfRequest, JobIsPlaced DEF IInv
<1>4. UNCHANGED <<job, meta, archive, committing, halt, request, seen>> /\ PublishUnchanged
  BY DEF ReferencePair, PublishUnchanged, WorkerUnchanged, storeVars
<1>5. Needs(job[w])' = Needs(job[w]) /\ Local' = Local
      /\ \A q : Durable(q)' <=> Durable(q)
  BY <1>4 DEF Needs, References, Local, Durable
<1>6. CASE r \in validated \/ PairValid(meta[r], archive[r])
  <2>1. Durable(r)
    BY <1>6 DEF Durable, IInv, ResultInv
  <2>2. /\ todo' = [todo EXCEPT ![w] = @ \ {r}] /\ validated' = validated \cup {r}
        /\ Go(w, "reference") /\ UNCHANGED <<verdict, refused>>
    BY <1>2, <1>6 DEF ReferencePair
  <2>3. /\ todo' \in [Workers -> SUBSET Paths] /\ todo'[w] = todo[w] \ {r}
        /\ \A v \in Workers \ {w} : todo'[v] = todo[v]
    BY <2>2 DEF IInv, TypeOK
  <2>4. "reference" \in WorkerStates /\ TypeOK /\ Go(w, "reference")
    BY <2>2 DEF WorkerStates, IInv
  <2>5. TypeOK'
    BY <1>3, <1>4, <2>2, <2>3, <2>4, GoTypes
       DEF TypeOK, PublishUnchanged, WorkerUnchanged, storeVars, Roots, References, Local, Closure
  <2>6. Inside(w)
    BY <1>3, <1>4, <2>1, <2>2, <2>3, <2>4, GoTypes DEF Inside, PublishUnchanged, WorkerUnchanged
  <2>7. Stage(w)'
    BY <1>1, <1>4, <1>5, <2>1, <2>3, <2>4, GoTypes DEF Stage, Working
  <2>8. QED BY <1>1, <2>5, <2>6, <2>7, InsideIInv
<1>7. CASE ~(r \in validated \/ PairValid(meta[r], archive[r]))
  <2>1. Refuse(w) /\ UNCHANGED <<todo, validated>> /\ ~Durable(r)
    BY <1>2, <1>7 DEF ReferencePair, Durable
  <2>2. /\ seen' \in [Workers -> [path : Paths, record : Records] \cup {None}]
        /\ \A v \in Workers \ {w} : seen'[v] = seen[v]
    BY <1>4 DEF IInv, TypeOK
  <2>3. QED BY <1>1, <1>3, <1>4, <2>1, <2>2, RefuseIInv DEF storeVars
<1>8. QED BY <1>6, <1>7

\* Past its references a worker has seen them all.
LEMMA Prepared ==
  ASSUME IInv, NEW w \in Workers, at[w] \in {"prepare", "putArchive", "gate", "commit"}
  PROVE  /\ Stage(w) /\ job[w] \in Paths /\ job[w] \in Local /\ job[w] # None
         /\ todo[w] = {} /\ \A r \in Needs(job[w]) : Durable(r)
BY JobIsPlaced DEF IInv, Stage, Working

LEMMA PrepareIInv ==
  ASSUME IInv, NEW w \in Workers, Prepare(w)
  PROVE  IInv'
<1>1. at[w] = "prepare" /\ TypeOK /\ Go(w, "putArchive") /\ "putArchive" \in WorkerStates
  BY DEF Prepare, IInv, WorkerStates
<1>2. UNCHANGED <<job, todo, meta, archive, request, seen, verdict, refused>>
  BY DEF Prepare, PublishUnchanged, WorkerUnchanged, storeVars
<1>3. TypeOK'
  BY <1>1, GoTypes DEF TypeOK, Prepare, PublishUnchanged, WorkerUnchanged, storeVars, Roots,
                       References, Local, Closure
<1>4. Inside(w)
  BY <1>1, GoTypes DEF Inside, Prepare, PublishUnchanged, WorkerUnchanged, storeVars
<1>5. Needs(job[w])' = Needs(job[w]) /\ Local' = Local /\ \A r : Durable(r)' <=> Durable(r)
  BY <1>2 DEF Needs, References, Local, Durable
<1>6. Stage(w)'
  BY <1>1, <1>2, <1>5, GoTypes, Prepared DEF Stage, Working
<1>7. QED BY <1>1, <1>3, <1>4, <1>6, InsideIInv

\* The archive of a path changes in the hands of its worker only.
LEMMA StoredArchive ==
  ASSUME TypeOK, NEW w \in Workers, job[w] \in Paths,
         NEW state \in {"absent", "valid", "corrupt"}, StoreArchive(job[w], state)
  PROVE  /\ archive' \in [Paths -> [ours : {"absent", "valid", "corrupt"},
                                    other : {"absent", "valid"}]]
         /\ \A p \in Paths \ {job[w]} : archive'[p] = archive[p]
         /\ archive'[job[w]].ours = state
BY DEF TypeOK, StoreArchive

LEMMA PutArchiveIInv ==
  ASSUME IInv, NEW w \in Workers, PutArchive(w)
  PROVE  IInv'
<1>1. at[w] = "putArchive" /\ at[w] # "idle" /\ TypeOK /\ job[w] \in Paths
  BY Prepared DEF PutArchive, IInv
<1>2. UNCHANGED <<job, todo, meta, request, seen, refused, committing, validated>>
  BY DEF PutArchive, PublishUnchanged, WorkerUnchanged
<1>3. /\ archive' \in [Paths -> [ours : {"absent", "valid", "corrupt"},
                                 other : {"absent", "valid"}]]
      /\ \A p \in Paths \ {job[w]} : archive'[p] = archive[p]
      /\ archive'[job[w]].ours = "valid"
  BY <1>1, StoredArchive DEF PutArchive
<1>4. CASE Go(w, "gate") /\ UNCHANGED verdict
  <2>1. Go(w, "gate") /\ "gate" \in WorkerStates
    BY <1>4 DEF WorkerStates
  <2>2. TypeOK'
    BY <1>1, <1>2, <1>3, <1>4, <2>1, GoTypes DEF TypeOK, PutArchive, PublishUnchanged,
                       WorkerUnchanged, Roots, References, Local, Closure
  <2>3. Inside(w)
    BY <1>1, <1>2, <1>3, <1>4, <2>1, GoTypes DEF Inside, PutArchive, PublishUnchanged,
                       WorkerUnchanged
  <2>4. Needs(job[w])' = Needs(job[w]) /\ Local' = Local /\ at'[w] = "gate"
    BY <1>1, <1>2, <2>1, GoTypes DEF Needs, References, Local
  <2>5. \A r \in Needs(job[w]) : Durable(r)'
    BY <1>1, <1>2, <1>3, Prepared, PathsOfRequest DEF Durable, Needs
  <2>6. Stage(w)'
    BY <1>1, <1>2, <1>3, <2>4, <2>5, Prepared DEF Stage, Working
  <2>7. QED BY <1>1, <2>2, <2>3, <2>6, InsideIInv
<1>5. ASSUME NEW class \in CheckFailure, Settle(w, class) PROVE IInv'
  <2>1. class \in FailureClass /\ class \in Settled
    BY ChecksFail, FailureClaimsNothing
  <2>2. TypeOK'
    BY <1>1, <1>2, <1>3, <1>5, <2>1, SettleTypes DEF TypeOK, PutArchive, PublishUnchanged,
                       WorkerUnchanged, Roots, References, Local, Closure
  <2>3. Inside(w)
    BY <1>1, <1>2, <1>3, <1>5 DEF Inside, PutArchive, PublishUnchanged, WorkerUnchanged, Settle,
                       Go, TypeOK
  <2>4. QED BY <1>1, <1>2, <1>5, <2>1, <2>2, <2>3, FailedStage, InsideIInv
<1>6. QED BY <1>4, <1>5 DEF PutArchive

LEMMA PutArchiveFailsIInv ==
  ASSUME IInv, NEW w \in Workers, PutArchiveFails(w)
  PROVE  IInv'
<1>1. at[w] = "putArchive" /\ at[w] # "idle" /\ TypeOK /\ job[w] \in Paths
  BY Prepared DEF PutArchiveFails, IInv
<1>2. UNCHANGED <<job, todo, meta, request, seen, refused, committing, validated>>
  BY DEF PutArchiveFails, PublishUnchanged, WorkerUnchanged
<1>3. PICK state \in {archive[job[w]].ours, "valid", "corrupt"} : StoreArchive(job[w], state)
  BY DEF PutArchiveFails
<1>4. state \in {"absent", "valid", "corrupt"}
  BY <1>1 DEF TypeOK
<1>5. /\ archive' \in [Paths -> [ours : {"absent", "valid", "corrupt"},
                                 other : {"absent", "valid"}]]
      /\ \A p \in Paths \ {job[w]} : archive'[p] = archive[p]
  BY <1>1, <1>3, <1>4, StoredArchive
<1>6. PICK class \in FailureClass : Settle(w, class)
  BY ChecksFail DEF PutArchiveFails
<1>7. TypeOK'
  BY <1>1, <1>2, <1>5, <1>6, SettleTypes, FailureClaimsNothing DEF TypeOK, PutArchiveFails,
                  PublishUnchanged, WorkerUnchanged, Roots, References, Local, Closure
<1>8. Inside(w)
  BY <1>1, <1>2, <1>5, <1>6 DEF Inside, PutArchiveFails, PublishUnchanged, WorkerUnchanged,
                  Settle, Go, TypeOK
<1>9. QED BY <1>1, <1>2, <1>6, <1>7, <1>8, FailedStage, InsideIInv

\* Nobody is in the gate while it is free.
LEMMA FreeGate ==
  ASSUME IInv, committing = None
  PROVE  \A v \in Workers : at[v] # "commit"
BY PublisherAssumption DEF IInv, Stage

LEMMA EnterGateIInv ==
  ASSUME IInv, NEW w \in Workers, EnterGate(w)
  PROVE  IInv'
<1>1. at[w] = "gate" /\ at[w] # "idle" /\ TypeOK /\ job[w] \in Paths /\ committing = None
      /\ archive[job[w]].ours = "valid"
  BY Prepared DEF EnterGate, IInv, Stage
<1>2. UNCHANGED <<job, todo, meta, archive, request, seen, refused, validated>>
  BY DEF EnterGate, PublishUnchanged, WorkerUnchanged, storeVars
<1>3. CASE Settle(w, "Cancelled") /\ UNCHANGED committing
  <2>1. Settle(w, "Cancelled") /\ "Cancelled" \in FailureClass /\ "Cancelled" \in Settled
    BY <1>3 DEF FailureClass, Settled
  <2>2. TypeOK'
    BY <1>1, <1>2, <1>3, <2>1, SettleTypes DEF TypeOK, EnterGate, PublishUnchanged,
                  WorkerUnchanged, storeVars, Roots, References, Local, Closure
  <2>3. Inside(w)
    BY <1>1, <1>2, <1>3 DEF Inside, EnterGate, PublishUnchanged, WorkerUnchanged, Settle, Go,
                  TypeOK
  <2>4. QED BY <1>1, <1>2, <2>1, <2>2, <2>3, FailedStage, InsideIInv
<1>4. CASE committing' = w /\ Go(w, "commit") /\ UNCHANGED verdict
  <2>1. Go(w, "commit") /\ "commit" \in WorkerStates
    BY <1>4 DEF WorkerStates
  <2>2. TypeOK'
    BY <1>1, <1>2, <1>4, <2>1, GoTypes DEF TypeOK, EnterGate, PublishUnchanged,
                  WorkerUnchanged, storeVars, Roots, References, Local, Closure
  <2>3. Inside(w)
    BY <1>1, <1>2, <1>4, <2>1, GoTypes, FreeGate DEF Inside, EnterGate, PublishUnchanged,
                  WorkerUnchanged
  <2>4. Needs(job[w])' = Needs(job[w]) /\ Local' = Local /\ at'[w] = "commit"
        /\ \A r : Durable(r)' <=> Durable(r)
    BY <1>1, <1>2, <2>1, GoTypes DEF Needs, References, Local, Durable
  <2>5. Stage(w)'
    BY <1>1, <1>2, <1>4, <2>4, Prepared DEF Stage, Working
  <2>6. QED BY <1>1, <2>2, <2>3, <2>5, InsideIInv
<1>5. QED BY <1>3, <1>4 DEF EnterGate

\* The worker in the gate is alone there.
LEMMA AloneInGate ==
  ASSUME IInv, NEW w \in Workers, at[w] = "commit"
  PROVE  committing = w /\ \A v \in Workers \ {w} : at[v] # "commit"
<1>1. committing = w /\ \A v \in Workers : at[v] = "commit" => committing = v
  <2>1. \A v \in Workers : Stage(v)
    BY DEF IInv
  <2>2. QED BY <2>1 DEF Stage
<1>2. QED BY <1>1

LEMMA PutMetadataIInv ==
  ASSUME IInv, NEW w \in Workers, PutMetadata(w)
  PROVE  IInv'
<1>1. at[w] = "commit" /\ at[w] # "idle" /\ TypeOK /\ job[w] \in Paths
      /\ archive[job[w]].ours = "valid"
  BY Prepared DEF PutMetadata, IInv, Stage
<1>2. UNCHANGED <<job, todo, archive, request, seen, refused, validated>>
      /\ Settle(w, "Uploaded") /\ "Uploaded" \in Settled
  BY DEF PutMetadata, PublishUnchanged, WorkerUnchanged, Settled, Receipt
<1>3. /\ meta' \in [Paths -> Records] /\ meta'[job[w]] = "ours"
      /\ \A p \in Paths \ {job[w]} : meta'[p] = meta[p]
  BY <1>1 DEF PutMetadata, TypeOK, Records
<1>4. TypeOK'
  BY <1>1, <1>2, <1>3, SettleTypes DEF TypeOK, PutMetadata, PublishUnchanged,
                  WorkerUnchanged, Roots, References, Local, Closure
<1>5. Inside(w)
  BY <1>1, <1>2, <1>3, AloneInGate DEF Inside, PutMetadata, PublishUnchanged, WorkerUnchanged,
                  Settle, Go, TypeOK
<1>6. Told(job[w], "Uploaded")'
  <2>1. PairValid(meta'[job[w]], archive'[job[w]])
    BY <1>1, <1>2, <1>3 DEF PairValid, Trusted
  <2>2. \A r \in Needs(job[w]) : PairValid(meta'[r], archive'[r])
    BY <1>1, <1>2, <1>3, Prepared, PathsOfRequest DEF Durable, Needs
  <2>3. job'[w] = job[w] /\ job[w] \in Local' /\ \A p : References'[p] = References[p]
    BY <1>1, <1>2, Prepared DEF Local, References
  <2>4. QED BY <1>3, <2>1, <2>2, <2>3 DEF Told, Durable, Needs
<1>7. QED BY <1>1, <1>2, <1>4, <1>5, <1>6, SettledStage, InsideIInv

LEMMA PutMetadataFailsIInv ==
  ASSUME IInv, NEW w \in Workers, PutMetadataFails(w)
  PROVE  IInv'
<1>1. at[w] = "commit" /\ at[w] # "idle" /\ TypeOK /\ committing' = None
  BY DEF PutMetadataFails, IInv
<1>2. PICK class \in FailureClass : Settle(w, class)
  BY ChecksFail DEF PutMetadataFails
<1>3. UNCHANGED <<job, todo, meta, archive, request, seen, refused, validated>>
  BY DEF PutMetadataFails, PublishUnchanged, WorkerUnchanged, storeVars
<1>4. TypeOK'
  BY <1>1, <1>2, <1>3, SettleTypes, FailureClaimsNothing DEF TypeOK, PutMetadataFails,
                  PublishUnchanged, WorkerUnchanged, storeVars, Roots, References, Local, Closure
<1>5. Inside(w)
  BY <1>1, <1>2, <1>3, AloneInGate DEF Inside, PutMetadataFails, PublishUnchanged,
                  WorkerUnchanged, Settle, Go, TypeOK
<1>6. QED BY <1>1, <1>2, <1>3, <1>4, <1>5, FailedStage, InsideIInv

------------------------------------------------------------------------------
(* The worker loop *)

LEMMA StartIInv ==
  ASSUME IInv, NEW w \in Workers, Start(w)
  PROVE  IInv'
<1>1. at[w] = "picked" /\ at[w] # "idle" /\ TypeOK /\ job[w] \in Paths /\ job[w] # None
      /\ UNCHANGED <<job, meta, archive, request, seen, refused, validated, halt>>
  BY JobIsPlaced, PublisherAssumption DEF Start, WorkerUnchanged, storeVars, IInv
<1>2. CASE halt # None /\ Settle(w, halt) /\ UNCHANGED <<todo, touched>>
  <2>1. halt \in FailureClass /\ halt \in Settled
    BY <1>1, <1>2 DEF TypeOK, Settled
  <2>2. TypeOK'
    BY <1>1, <1>2, <2>1, SettleTypes DEF TypeOK, Start, WorkerUnchanged, storeVars, Roots,
                  References, Local, Closure
  <2>3. Inside(w)
    BY <1>1, <1>2 DEF Inside, Start, WorkerUnchanged, Settle, Go, TypeOK
  <2>4. QED BY <1>1, <1>2, <2>1, <2>2, <2>3, FailedStage, InsideIInv
<1>3. ASSUME NEW class \in FailureClass, Settle(w, class), halt = None,
             touched' = touched \cup {job[w]},
             todo' \in {todo, [todo EXCEPT ![w] = Needs(job[w])]}
      PROVE  IInv'
  <2>1. /\ todo' \in [Workers -> SUBSET Paths]
        /\ \A v \in Workers \ {w} : todo'[v] = todo[v]
    BY <1>1, <1>3, PathsOfRequest DEF TypeOK
  <2>2. TypeOK'
    BY <1>1, <1>3, <2>1, SettleTypes, FailureClaimsNothing DEF TypeOK, Start, WorkerUnchanged,
                  storeVars, Roots, References, Local, Closure
  <2>3. Inside(w)
    BY <1>1, <1>3, <2>1 DEF Inside, Start, WorkerUnchanged, Settle, Go, TypeOK
  <2>4. QED BY <1>1, <1>3, <2>2, <2>3, FailedStage, InsideIInv
<1>4. CASE /\ halt = None /\ touched' = touched \cup {job[w]} /\ job[w] \in Local
           /\ todo' = [todo EXCEPT ![w] = Needs(job[w])]
           /\ Go(w, "probe") /\ UNCHANGED verdict
  <2>1. /\ todo' \in [Workers -> SUBSET Paths] /\ todo'[w] = Needs(job[w])
        /\ \A v \in Workers \ {w} : todo'[v] = todo[v]
    BY <1>1, <1>4, PathsOfRequest DEF TypeOK
  <2>2. "probe" \in WorkerStates /\ Go(w, "probe")
    BY <1>4 DEF WorkerStates
  <2>3. TypeOK'
    BY <1>1, <1>4, <2>1, <2>2, GoTypes DEF TypeOK, Start, WorkerUnchanged,
                  storeVars, Roots, References, Local, Closure
  <2>4. Inside(w)
    BY <1>1, <1>4, <2>1, <2>2, GoTypes DEF Inside, Start, WorkerUnchanged
  <2>5. Needs(job[w])' = Needs(job[w]) /\ Local' = Local /\ at'[w] = "probe"
    BY <1>1, <2>2, GoTypes DEF Needs, References, Local
  <2>6. Stage(w)'
    BY <1>1, <1>4, <2>1, <2>5 DEF Stage, Working
  <2>7. QED BY <1>1, <2>3, <2>4, <2>6, InsideIInv
<1>5. "Integrity" \in FailureClass /\ "Provenance" \in FailureClass
  BY DEF FailureClass
<1>6. QED BY <1>2, <1>3, <1>4, <1>5 DEF Start, Needs

LEMMA StartExpiredIInv ==
  ASSUME IInv, NEW w \in Workers, StartExpired(w)
  PROVE  IInv'
<1>1. at[w] = "picked" /\ at[w] # "idle" /\ TypeOK /\ job[w] \in Paths /\ job[w] # None
      /\ UNCHANGED <<job, meta, archive, request, seen, refused, validated, todo, touched>>
  BY JobIsPlaced, PublisherAssumption DEF StartExpired, WorkerUnchanged, storeVars, IInv,
                  historyVars
<1>2. /\ halt' = "Timeout" /\ "Timeout" \in FailureClass /\ "Timeout" \in Settled
      /\ "Timeout" # None /\ verdict' = [verdict EXCEPT ![w] = "Timeout"]
      /\ Go(w, "record") /\ "record" \in WorkerStates
  BY ResultAssumption DEF StartExpired, FailureClass, Settled, WorkerStates
<1>3. verdict' \in [Workers -> Settled \cup {None}] /\ verdict'[w] = "Timeout"
      /\ \A v \in Workers \ {w} : verdict'[v] = verdict[v]
  BY <1>1, <1>2 DEF TypeOK
<1>4. TypeOK'
  BY <1>1, <1>2, <1>3, GoTypes DEF TypeOK, StartExpired, WorkerUnchanged, storeVars, Roots,
                  References, Local, Closure, historyVars
<1>5. Inside(w)
  BY <1>1, <1>2, <1>3, GoTypes DEF Inside, StartExpired, WorkerUnchanged, historyVars
<1>6. Stage(w)'
  <2>1. Told(job[w], verdict[w])' /\ at'[w] = "record"
    BY <1>1, <1>2, <1>3, GoTypes, FailureClaimsNothing DEF Told
  <2>2. QED BY <1>1, <1>2, <1>3, <2>1 DEF Stage, Working
<1>7. QED BY <1>1, <1>4, <1>5, <1>6, InsideIInv

LEMMA HaltIInv ==
  ASSUME IInv, NEW w \in Workers, Halt(w)
  PROVE  IInv'
<1>1. at[w] = "settled" /\ at[w] # "idle" /\ TypeOK /\ job[w] \in Paths /\ job[w] # None
      /\ UNCHANGED <<job, meta, archive, request, seen, refused, validated, todo, touched,
                     verdict>>
  BY JobIsPlaced, PublisherAssumption DEF Halt, WorkerUnchanged, storeVars, IInv, historyVars
<1>2. verdict[w] \in Settled /\ Told(job[w], verdict[w])
  BY <1>1 DEF IInv, Stage
<1>3. /\ Go(w, "record") /\ "record" \in WorkerStates
      /\ halt' = IF halt = None /\ StopsQueue(verdict[w]) THEN verdict[w] ELSE halt
  BY DEF Halt, WorkerStates
<1>4. /\ halt' \in FailureClass \cup {None}
      /\ StopsQueue(verdict[w]) => halt' # None
      /\ halt # None => halt' # None
  BY <1>1, <1>2, <1>3, ResultAssumption DEF TypeOK, StopsQueue, FailureClass, Settled
<1>5. TypeOK'
  BY <1>1, <1>3, <1>4, GoTypes DEF TypeOK, Halt, WorkerUnchanged, storeVars, Roots,
                  References, Local, Closure, historyVars
<1>6. Inside(w)
  BY <1>1, <1>3, <1>4, GoTypes DEF Inside, Halt, WorkerUnchanged, historyVars
<1>7. Stage(w)'
  <2>1. at'[w] = "record" /\ job'[w] = job[w] /\ verdict'[w] = verdict[w]
    BY <1>1, <1>3, GoTypes
  <2>2. Told(job[w], verdict[w])'
    BY <1>1, <1>2, <2>1 DEF Told, Durable, Local, References
  <2>3. StopsQueue(verdict[w])' <=> StopsQueue(verdict[w])
    BY <2>1 DEF StopsQueue
  <2>4. QED BY <1>1, <1>2, <1>4, <2>1, <2>2, <2>3 DEF Stage, Working
<1>8. QED BY <1>1, <1>5, <1>6, <1>7, InsideIInv

\* What a worker knows when neither its own variables nor the store change.
LEMMA StageStays ==
  ASSUME NEW v \in Workers, Stage(v), at'[v] = at[v], job'[v] = job[v], todo'[v] = todo[v],
         seen'[v] = seen[v], verdict'[v] = verdict[v],
         UNCHANGED <<meta, archive, committing, halt, request>>
  PROVE  Stage(v)'
<1>1. /\ Needs(job[v])' = Needs(job[v]) /\ Local' = Local
      /\ \A p : References'[p] = References[p]
      /\ \A r : Durable(r)' <=> Durable(r)
  BY DEF Needs, Local, References, Durable
<1>2. Told(job[v], verdict[v])' <=> Told(job[v], verdict[v])
  BY <1>1 DEF Told, Durable
<1>3. StopsQueue(verdict[v])' <=> StopsQueue(verdict[v])
  BY DEF StopsQueue
<1>4. QED BY <1>1, <1>2, <1>3 DEF Stage

LEMMA PickIInv ==
  ASSUME IInv, NEW w \in Workers, Pick(w)
  PROVE  IInv'
<1>1. /\ at[w] = "idle" /\ batch = "wave" /\ TypeOK
      /\ UNCHANGED <<request, batch, sources, placed, meta, archive, committing, halt,
                     validated, outcome, todo, seen, verdict, touched, refused>>
  BY DEF Pick, WorkerUnchanged, storeVars, IInv
<1>2. job[w] = None
  BY <1>1 DEF IInv, Stage
<1>3. PICK p \in wave :
        /\ wave' = wave \ {p} /\ job' = [job EXCEPT ![w] = p]
        /\ late' = IF \E q \in Paths : q \in placed /\ StopsQueue(outcome[q])
                   THEN late \cup {p} ELSE late
  BY DEF Pick
<1>4. p \in placed /\ p \in Paths /\ p # None /\ p \notin touched
  BY <1>1, <1>3, PublisherAssumption DEF IInv, TypeOK, QueueInv
<1>5. /\ job' \in [Workers -> Paths \cup {None}] /\ job'[w] = p
      /\ \A v \in Workers \ {w} : job'[v] = job[v]
  BY <1>1, <1>3, <1>4 DEF TypeOK
<1>6. Go(w, "picked") /\ "picked" \in WorkerStates
  BY DEF Pick, WorkerStates
<1>7. \A v \in Workers : job[v] # p
  BY <1>3, <1>4 DEF IInv, WaveInv
<1>8. \A q : q \in Paths => (Finished(q)' <=> Finished(q))
  BY <1>1, <1>2, <1>3, <1>4, <1>5, <1>7, PublisherAssumption DEF Finished
<1>9. /\ \A q : Durable(q)' <=> Durable(q)
      /\ \A q : Needs(q)' = Needs(q) /\ References'[q] = References[q]
      /\ Local' = Local
  BY <1>1 DEF Durable, Needs, References, Local
<1>10. TypeOK'
  <2>1. wave' \subseteq placed' /\ late' \subseteq Paths
    BY <1>1, <1>3, <1>4 DEF TypeOK
  <2>2. QED
    BY <1>1, <1>5, <1>6, <2>1, GoTypes DEF TypeOK, Pick, WorkerUnchanged, Roots, References,
       Local, Closure
<1>11. WaveInv'
  <2>1. ASSUME NEW q \in Local', q \in wave' \/ \E v \in Workers : job'[v] = q
        PROVE  \A r \in Needs(q)' : Finished(r)'
    <3>1. q \in Local /\ q \in Paths /\ Needs(q) \subseteq Paths
      BY <1>1, <1>9, PathsOfRequest
    <3>2. q \in wave \/ \E v \in Workers : job[v] = q
      BY <1>3, <1>5, <2>1
    <3>3. \A r \in Needs(q) : Finished(r)
      BY <3>1, <3>2 DEF IInv, WaveInv
    <3>4. QED BY <1>8, <1>9, <3>1, <3>3
  <2>2. \A v, u \in Workers : job'[v] \in Paths /\ job'[u] = job'[v] => u = v
    BY <1>5, <1>7 DEF IInv, WaveInv
  <2>3. \A v \in Workers : job'[v] \in Paths => job'[v] \in placed' \ wave'
    BY <1>1, <1>3, <1>4, <1>5 DEF IInv, WaveInv
  <2>4. batch' = "wave"
    BY <1>1
  <2>5. \A q \in Paths \ placed' : outcome'[q] = None
    BY <1>1 DEF IInv, WaveInv
  <2>6. QED BY <2>1, <2>2, <2>3, <2>4, <2>5 DEF WaveInv
<1>12. ASSUME NEW v \in Workers PROVE Stage(v)'
  <2>1. CASE v = w
    BY <1>1, <1>4, <1>5, <1>6, <2>1, GoTypes DEF Stage, Working
  <2>2. CASE v # w
    BY <1>1, <1>5, <1>6, <2>2, GoTypes, StageStays DEF IInv
  <2>3. QED BY <2>1, <2>2
<1>13. ResultInv'
  <2>1. \A q \in Paths : Told(q, outcome[q])' <=> Told(q, outcome[q])
    BY <1>1, <1>9 DEF Told
  <2>2. \A q \in Paths : References[q] \subseteq Paths /\ Needs(q) \subseteq Paths
    BY <1>1, PathsOfRequest
  <2>3. validated \subseteq Paths /\ refused \subseteq Paths
    BY <1>1 DEF TypeOK
  <2>4. QED BY <1>1, <1>8, <1>9, <2>1, <2>2, <2>3 DEF IInv, ResultInv
<1>14. QueueInv'
  BY <1>1, <1>3, <1>4 DEF IInv, QueueInv, TypeOK, StopsQueue
<1>15. QED BY <1>10, <1>11, <1>12, <1>13, <1>14 DEF IInv

LEMMA RecordIInv ==
  ASSUME IInv, NEW w \in Workers, Record(w)
  PROVE  IInv'
<1>1. /\ at[w] = "record" /\ at[w] # "idle" /\ TypeOK /\ job[w] \in Paths
      /\ job[w] \in placed \ wave /\ batch = "wave"
      /\ UNCHANGED <<request, batch, sources, placed, wave, meta, archive, committing, halt,
                     validated, seen, touched, refused, late>>
  BY JobIsPlaced DEF Record, WorkerUnchanged, storeVars, historyVars, IInv
<1>2. /\ verdict[w] \in Settled /\ Told(job[w], verdict[w])
      /\ StopsQueue(verdict[w]) => halt # None
  BY <1>1 DEF IInv, Stage
<1>3. /\ job' \in [Workers -> Paths \cup {None}] /\ job'[w] = None
      /\ \A v \in Workers \ {w} : job'[v] = job[v]
      /\ todo' \in [Workers -> SUBSET Paths] /\ verdict' \in [Workers -> Settled \cup {None}]
      /\ \A v \in Workers \ {w} : todo'[v] = todo[v] /\ verdict'[v] = verdict[v]
      /\ outcome' \in [Paths -> Settled \cup {None}] /\ outcome'[job[w]] = verdict[w]
      /\ \A p \in Paths \ {job[w]} : outcome'[p] = outcome[p]
      /\ Go(w, "idle") /\ "idle" \in WorkerStates
  BY <1>1, <1>2 DEF Record, TypeOK, WorkerStates
<1>4. /\ \A q \in Paths : Finished(q)' <=> Finished(q) \/ q = job[w]
      /\ \A q \in Paths : Finished(q) => q # job[w]
  <2>1. \A v \in Workers \ {w} : job[v] # job[w]
    BY <1>1, JobIsPlaced
  <2>2. QED BY <1>1, <1>3, <2>1, PublisherAssumption DEF Finished
<1>5. /\ \A q : Durable(q)' <=> Durable(q)
      /\ \A q : Needs(q)' = Needs(q) /\ References'[q] = References[q]
      /\ Local' = Local
      /\ \A q \in Paths : References[q] \subseteq Paths /\ Needs(q) \subseteq Paths
      /\ Local \subseteq Paths
  BY <1>1, PathsOfRequest DEF Durable, Needs, References, Local
<1>6. TypeOK'
  BY <1>1, <1>3, GoTypes DEF TypeOK, Record, WorkerUnchanged, Roots, References, Local, Closure
<1>7. WaveInv'
  <2>1. ASSUME NEW q \in Local', q \in wave' \/ \E v \in Workers : job'[v] = q
        PROVE  \A r \in Needs(q)' : Finished(r)'
    <3>1. q \in Local /\ q \in Paths /\ Needs(q) \subseteq Paths
      BY <1>5
    <3>2. q \in wave \/ \E v \in Workers : job[v] = q
      BY <1>1, <1>3, <2>1, <3>1, PublisherAssumption
    <3>3. \A r \in Needs(q) : Finished(r)
      BY <3>1, <3>2 DEF IInv, WaveInv
    <3>4. QED BY <1>4, <1>5, <3>1, <3>3
  <2>2. \A v, u \in Workers : job'[v] \in Paths /\ job'[u] = job'[v] => u = v
    BY <1>3, PublisherAssumption DEF IInv, WaveInv
  <2>3. \A v \in Workers : job'[v] \in Paths => job'[v] \in placed' \ wave'
    BY <1>1, <1>3, PublisherAssumption DEF IInv, WaveInv
  <2>4. batch' = "wave"
    BY <1>1
  <2>5. \A q \in Paths \ placed' : outcome'[q] = None
    BY <1>1, <1>3 DEF IInv, WaveInv
  <2>6. QED BY <2>1, <2>2, <2>3, <2>4, <2>5 DEF WaveInv
<1>8. ASSUME NEW v \in Workers PROVE Stage(v)'
  <2>1. CASE v = w
    BY <1>1, <1>3, <2>1, GoTypes DEF Stage, Working
  <2>2. CASE v # w
    BY <1>1, <1>3, <2>2, GoTypes, StageStays DEF IInv
  <2>3. QED BY <2>1, <2>2
<1>9. ResultInv'
  <2>1. validated \subseteq Paths /\ refused \subseteq Paths
    BY <1>1 DEF TypeOK
  <2>2. /\ \A r \in validated' : Durable(r)' /\ Finished(r)'
        /\ \A p \in refused' : \E r \in Needs(p)' : Finished(r)' /\ ~Durable(r)'
    BY <1>1, <1>4, <1>5, <2>1 DEF IInv, ResultInv
  <2>3. ASSUME NEW p \in Paths, outcome'[p] \in Receipt
        PROVE  /\ Finished(p)' /\ Told(p, outcome[p])'
               /\ outcome'[p] = "Uploaded" => \A r \in References[p]' : Finished(r)'
    <3>1. CASE p = job[w]
      <4>1. Told(p, verdict[w]) /\ outcome'[p] = verdict[w] /\ Finished(p)'
        BY <1>2, <1>3, <1>4, <3>1
      <4>2. verdict[w] = "Uploaded" => \A r \in Needs(p) : Finished(r)
        BY <1>1, <3>1, <4>1, JobIsPlaced DEF Told
      <4>3. outcome'[p] = "Uploaded" => \A r \in References'[p] : Finished(r)'
        BY <1>4, <1>5, <3>1, <4>1, <4>2 DEF Needs
      <4>4. Told(p, outcome[p])'
        BY <1>1, <1>5, <4>1 DEF Told
      <4>5. QED BY <4>1, <4>3, <4>4
    <3>2. CASE p # job[w]
      <4>1. outcome'[p] = outcome[p]
        BY <1>3, <3>2
      <4>2. Finished(p) /\ Told(p, outcome[p])
            /\ (outcome[p] = "Uploaded" => \A r \in References[p] : Finished(r))
        BY <2>3, <4>1 DEF IInv, ResultInv
      <4>3. Told(p, outcome[p])'
        BY <1>1, <1>5, <4>1, <4>2 DEF Told
      <4>4. QED BY <1>4, <1>5, <4>1, <4>2, <4>3
    <3>3. QED BY <3>1, <3>2
  <2>4. QED BY <2>2, <2>3 DEF ResultInv, Receipt
<1>10. QueueInv'
  BY <1>1, <1>2, <1>3 DEF IInv, QueueInv, TypeOK, StopsQueue
<1>11. QED BY <1>6, <1>7, <1>8, <1>9, <1>10 DEF IInv

------------------------------------------------------------------------------
(* publish_batch around the workers *)

LEMMA InitIInv == Init => IInv
<1> SUFFICES ASSUME Init PROVE IInv
  OBVIOUS
<1>1. Roots \subseteq Paths
  BY PublisherAssumption DEF Init, Roots
<1>2. TypeOK
  BY <1>1 DEF Init, TypeOK, Settled, WorkerStates
<1>3. WaveInv
  <2>1. \A p \in Paths : outcome[p] = None /\ outcome[p] \notin Receipt
    BY ResultAssumption DEF Init, Settled
  <2>2. \A w \in Workers : job[w] = None /\ at[w] = "idle" /\ job[w] \notin Paths
    BY PublisherAssumption DEF Init
  <2>3. batch = "start" /\ placed = {} /\ wave = {} /\ validated = {} /\ refused = {}
    BY DEF Init
  <2>4. \A p \in Local : p \notin wave /\ \A w \in Workers : job[w] # p
    BY <1>2, <2>2, <2>3, PathsOfRequest
  <2>5. QED BY <2>1, <2>2, <2>3, <2>4 DEF WaveInv
<1>4. \A w \in Workers : Stage(w)
  BY DEF Init, Stage, Working
<1>5. ResultInv
  BY ResultAssumption DEF Init, ResultInv, Settled, Receipt
<1>6. QueueInv
  BY DEF Init, QueueInv
<1>7. QED BY <1>2, <1>3, <1>4, <1>5, <1>6 DEF IInv

\* Between the waves nobody works.
LEMMA NobodyWorks ==
  ASSUME IInv, batch # "wave"
  PROVE  /\ wave = {} /\ \A w \in Workers : at[w] = "idle" /\ job[w] = None
         /\ \A p \in Paths : Finished(p) <=> (p \in sources => p \in placed)
<1>1. wave = {} /\ \A w \in Workers : at[w] = "idle" /\ job[w] = None
  BY DEF IInv, WaveInv, Stage
<1>2. QED BY <1>1, PublisherAssumption DEF Finished

LEMMA BatchKeepsStages ==
  ASSUME IInv, BatchUnchanged, NEW w \in Workers
  PROVE  Stage(w)'
BY StageStays DEF IInv, BatchUnchanged, workerVars, storeVars

\* The batch ends, or its last wave does, and nothing is placed meanwhile; what is new
\* in the results are failures of paths no wave has placed.
LEMMA BatchTurns ==
  ASSUME IInv, BatchUnchanged, TypeOK',
         batch # "wave" \/ (wave = {} /\ \A w \in Workers : at[w] = "idle"),
         UNCHANGED <<sources, placed, wave>>, batch' # "wave",
         batch' \in {"start", "index"} => batch \in {"start", "index"},
         \A p \in Paths : \/ outcome'[p] = outcome[p]
                          \/ /\ p \notin placed /\ batch' \in {"done", "failed"}
                             /\ outcome'[p] \in FailureClass \cup {None},
         batch \in {"done", "failed"} => batch' \in {"done", "failed"}
  PROVE  IInv'
<1>1. /\ UNCHANGED <<request, meta, archive, halt, validated, job, at, late, touched, refused>>
      /\ wave = {} /\ \A w \in Workers : at[w] = "idle"
  BY DEF BatchUnchanged, storeVars, workerVars, historyVars, IInv, WaveInv
<1>2. /\ \A p : Finished(p)' <=> Finished(p)
      /\ \A q : Durable(q)' <=> Durable(q)
      /\ \A q : Needs(q)' = Needs(q) /\ References'[q] = References[q]
      /\ Local' = Local
  BY <1>1 DEF Finished, Durable, Needs, References, Local
<1>3. \A p \in Paths : outcome'[p] \in Receipt => outcome'[p] = outcome[p]
  BY ResultAssumption DEF Receipt, FailureClass, Settled
<1>4. WaveInv'
  BY <1>1, <1>2, <1>3 DEF IInv, WaveInv
<1>5. ResultInv'
  <2>1. \A p \in Paths : outcome'[p] = outcome[p] => (Told(p, outcome[p])' <=> Told(p, outcome[p]))
    BY <1>1, <1>2 DEF Told
  <2>2. QED BY <1>1, <1>2, <1>3, <2>1 DEF IInv, ResultInv, Receipt
<1>6. QueueInv'
  <2>1. \A p \in placed : p \in Paths /\ outcome'[p] = outcome[p]
    BY DEF IInv, TypeOK
  <2>2. QED BY <1>1, <2>1 DEF IInv, QueueInv, StopsQueue
<1>7. QED BY <1>4, <1>5, <1>6, BatchKeepsStages DEF IInv

LEMMA BeginIInv ==
  ASSUME IInv, Begin
  PROVE  IInv'
<1>1. batch = "start" /\ BatchUnchanged /\ UNCHANGED <<pending, sources, placed, wave>>
      /\ placed = {} /\ batch' \in {"done", "index"} /\ TypeOK
  BY DEF Begin, IInv, WaveInv
<1>2. /\ outcome' \in [Paths -> Settled \cup {None}]
      /\ \A p \in Paths : \/ outcome'[p] = outcome[p]
                          \/ /\ batch' = "done" /\ outcome'[p] \in FailureClass \cup {None}
  BY <1>1, ChecksFail DEF Begin, TypeOK, Settled
<1>3. TypeOK'
  BY <1>1, <1>2 DEF TypeOK, BatchUnchanged, storeVars, workerVars, historyVars, Roots, References,
                    Local, Closure
<1>4. QED BY <1>1, <1>2, <1>3, BatchTurns

LEMMA IndexIInv ==
  ASSUME IInv, Index \/ IndexFails
  PROVE  IInv'
<1>1. batch = "index" /\ BatchUnchanged /\ UNCHANGED <<outcome, placed, wave>> /\ TypeOK
  BY DEF Index, IndexFails, IInv
<1>2. CASE UNCHANGED <<pending, sources>> /\ batch' \in {"schedule", "failed"}
  <2>1. TypeOK'
    BY <1>1, <1>2 DEF TypeOK, BatchUnchanged, storeVars, workerVars, historyVars, Roots,
                      References, Local, Closure
  <2>2. QED BY <1>1, <1>2, <2>1, BatchTurns
<1>3. CASE /\ pending' = Discovered /\ sources' = sources \cup Discovered /\ batch' = batch
  <2>1. Discovered \subseteq Paths
    BY <1>1, PathsOfRequest DEF Discovered, TypeOK
  <2>2. TypeOK'
    BY <1>1, <1>3, <2>1 DEF TypeOK, BatchUnchanged, storeVars, workerVars, historyVars, Roots,
                      References, Local, Closure
  <2>3. /\ placed' = {} /\ validated' = {} /\ refused' = {} /\ wave' = {} /\ batch' = "index"
        /\ \A w \in Workers : at'[w] = "idle" /\ job'[w] = None /\ job'[w] \notin Paths
        /\ \A p \in Paths : outcome'[p] \notin Receipt /\ outcome'[p] = None
    BY <1>1, <1>3, NobodyWorks, PublisherAssumption
       DEF BatchUnchanged, workerVars, historyVars, IInv, WaveInv
  <2>4. Local' \subseteq Paths
    BY <1>1, PathsOfRequest DEF BatchUnchanged, Local
  <2>5. WaveInv'
    BY <2>3, <2>4, PublisherAssumption DEF WaveInv
  <2>6. ResultInv'
    BY <2>3 DEF ResultInv, Receipt
  <2>7. QueueInv'
    BY <1>1, <1>3, <2>3 DEF BatchUnchanged, historyVars, IInv, QueueInv, WaveInv
  <2>8. QED BY <1>1, <2>2, <2>5, <2>6, <2>7, BatchKeepsStages DEF IInv
<1>4. QED BY <1>1, <1>2, <1>3 DEF Index, IndexFails

\* Of a path whose dependencies earlier waves have placed everything it needs is finished.
LEMMA StartWaveIInv ==
  ASSUME IInv, StartWave
  PROVE  IInv'
<1>1. /\ batch = "schedule" /\ BatchUnchanged /\ UNCHANGED <<outcome, pending, sources>>
      /\ wave' = NextWave /\ placed' = placed \cup NextWave /\ batch' = "wave"
      /\ NextWave \subseteq sources \ placed /\ TypeOK /\ sources \subseteq Paths
      /\ UNCHANGED <<request, meta, archive, halt, validated, job, at, late, touched, refused>>
  BY DEF StartWave, NextWave, IInv, TypeOK, BatchUnchanged, storeVars, workerVars, historyVars
<1>2. /\ wave = {} /\ \A w \in Workers : at[w] = "idle" /\ job[w] = None
      /\ \A p \in Paths : Finished(p) <=> (p \in sources => p \in placed)
  BY <1>1, NobodyWorks
<1>3. /\ \A q : Durable(q)' <=> Durable(q)
      /\ \A q : Needs(q)' = Needs(q) /\ References'[q] = References[q]
      /\ Local' = Local
      /\ \A q \in Paths : References[q] \subseteq Paths /\ Needs(q) \subseteq Paths
  BY <1>1, PathsOfRequest DEF Durable, Needs, References, Local
<1>4. \A p \in Paths : Finished(p) => Finished(p)'
  BY <1>1, <1>2, PublisherAssumption DEF Finished
<1>5. TypeOK'
  BY <1>1 DEF TypeOK, BatchUnchanged, storeVars, workerVars, historyVars, Roots, References,
              Local, Closure
<1>6. WaveInv'
  <2>1. ASSUME NEW p \in Local', p \in wave' \/ \E w \in Workers : job'[w] = p
        PROVE  \A r \in Needs(p)' : Finished(r)'
    <3>1. p \in Local /\ p \in Paths /\ p # None
      BY <1>1, <1>3, PathsOfRequest, PublisherAssumption
    <3>2. p \in NextWave
      BY <1>1, <1>2, <2>1, <3>1
    <3>3. \A r \in Needs(p) : r \in sources => r \in placed
      BY <3>1, <3>2 DEF NextWave, Dependencies, Needs
    <3>4. QED BY <1>2, <1>3, <1>4, <3>1, <3>3
  <2>2. QED BY <1>1, <1>2, <2>1, PublisherAssumption DEF IInv, WaveInv
<1>7. ResultInv'
  <2>1. \A p \in Paths : Told(p, outcome[p])' <=> Told(p, outcome[p])
    BY <1>1, <1>3 DEF Told
  <2>2. validated \subseteq Paths /\ refused \subseteq Paths
    BY <1>1 DEF TypeOK
  <2>3. QED BY <1>1, <1>3, <1>4, <2>1, <2>2 DEF IInv, ResultInv
<1>8. QueueInv'
  <2>1. \A p \in NextWave : outcome[p] = None
    BY <1>1 DEF IInv, WaveInv
  <2>2. ~StopsQueue(None)
    BY ResultAssumption DEF StopsQueue, Settled, FailureClass
  <2>3. \A p \in placed' : StopsQueue(outcome'[p]) => halt' # None
    BY <1>1, <2>1, <2>2 DEF IInv, QueueInv
  <2>4. QED BY <1>1, <1>2, <2>3 DEF IInv, QueueInv
<1>9. QED BY <1>1, <1>5, <1>6, <1>7, <1>8, BatchKeepsStages DEF IInv

LEMMA EndWaveIInv ==
  ASSUME IInv, EndWave \/ Finish
  PROVE  IInv'
<1>1. TypeOK /\ BatchUnchanged /\ UNCHANGED <<pending, sources, placed, wave>>
  BY DEF IInv, EndWave, Finish
<1>2. CASE EndWave
  <2>1. TypeOK'
    BY <1>1, <1>2 DEF EndWave, TypeOK, BatchUnchanged, storeVars, workerVars, historyVars, Roots,
                      References, Local, Closure
  <2>2. QED BY <1>1, <1>2, <2>1, BatchTurns DEF EndWave
<1>3. CASE Finish
  <2>1. "Precondition" \in FailureClass /\ "Precondition" \in Settled
    BY DEF FailureClass, Settled
  <2>2. /\ outcome' \in [Paths -> Settled \cup {None}] /\ batch' = "done"
        /\ \A p \in Paths : \/ outcome'[p] = outcome[p]
                            \/ p \notin placed /\ outcome'[p] \in FailureClass
    BY <1>1, <1>3, <2>1 DEF Finish, TypeOK
  <2>3. TypeOK'
    BY <1>1, <2>2 DEF TypeOK, BatchUnchanged, storeVars, workerVars, historyVars, Roots,
                      References, Local, Closure
  <2>4. QED BY <1>1, <1>3, <2>2, <2>3, BatchTurns DEF Finish
<1>4. QED BY <1>2, <1>3

\* A request for cancellation changes nothing but itself, and no step changes nothing.
LEMMA RequestIInv ==
  ASSUME IInv, RequestCancel \/ UNCHANGED vars
  PROVE  IInv'
<1>1. UNCHANGED <<request, meta, archive, committing, batch, pending, sources, placed, wave,
                  halt, validated, outcome, at, job, todo, seen, verdict, late, touched, refused>>
      /\ (cancelRequested' \in BOOLEAN)
  BY DEF RequestCancel, vars, storeVars, batchVars, workerVars, historyVars, IInv, TypeOK
<1>2. TypeOK'
  BY <1>1 DEF IInv, TypeOK, Roots, References, Local, Closure
<1>3. /\ \A p : Finished(p)' <=> Finished(p)
      /\ \A q : Durable(q)' <=> Durable(q)
      /\ \A q : Needs(q)' = Needs(q) /\ References'[q] = References[q]
      /\ Local' = Local
  BY <1>1 DEF Finished, Durable, Needs, References, Local
<1>4. WaveInv'
  BY <1>1, <1>3 DEF IInv, WaveInv
<1>5. \A w \in Workers : Stage(w)'
  BY <1>1, StageStays DEF IInv
<1>6. ResultInv'
  <2>1. \A p \in Paths : Told(p, outcome[p])' <=> Told(p, outcome[p])
    BY <1>1, <1>3 DEF Told
  <2>2. QED BY <1>1, <1>3, <2>1 DEF IInv, ResultInv
<1>7. QueueInv'
  BY <1>1 DEF IInv, QueueInv, StopsQueue
<1>8. QED BY <1>2, <1>4, <1>5, <1>6, <1>7 DEF IInv

LEMMA NextIInv == IInv /\ [Next]_vars => IInv'
<1> SUFFICES ASSUME IInv, [Next]_vars PROVE IInv'
  OBVIOUS
<1>1. CASE BatchStep
  BY <1>1, BeginIInv, IndexIInv, StartWaveIInv, EndWaveIInv DEF BatchStep
<1>2. ASSUME NEW w \in Workers, PublishOne(w) PROVE IInv'
  BY <1>2, ProbeIInv, VerifyIInv, PairIInv, ReferenceIInv, ReferencePairIInv, PrepareIInv,
     PutArchiveIInv, EnterGateIInv, PutMetadataIInv, CallFailsIInv, PutArchiveFailsIInv,
     PutMetadataFailsIInv DEF PublishOne
<1>3. ASSUME NEW w \in Workers, WorkerStep(w) PROVE IInv'
  BY <1>2, <1>3, PickIInv, StartIInv, StartExpiredIInv, HaltIInv, RecordIInv DEF WorkerStep
<1>4. CASE RequestCancel \/ UNCHANGED vars
  BY <1>4, RequestIInv
<1>5. QED BY <1>1, <1>3, <1>4 DEF Next

\* The strengthened invariant holds throughout every behaviour of publish_batch.
THEOREM InvariantHolds == Spec => []IInv
BY InitIInv, NextIInv, PTL DEF Spec

------------------------------------------------------------------------------
(* What follows from it *)

\* publish_batch: a success that was reported is in the cache with its archive, and so is
\* everything a path uploaded by this batch references, whatever failed, timed out or was
\* cancelled on the way.
THEOREM SuccessStaysDurable == Spec => []SuccessIsDurable
<1>1. IInv => SuccessIsDurable
  <2> SUFFICES ASSUME IInv PROVE SuccessIsDurable
    OBVIOUS
  <2>1. TypeOK
    BY DEF IInv
  <2>2. ASSUME NEW p \in Paths, outcome[p] \in Receipt PROVE Told(p, outcome[p])
    BY <2>2 DEF IInv, ResultInv
  <2>3. "Uploaded" \in Receipt
    BY DEF Receipt
  <2>4. ASSUME NEW p \in Paths, outcome[p] \in Receipt
        PROVE meta[p] = "ours" /\ Durable(p)
    BY <2>2, <2>4 DEF Told
  <2>5. ASSUME NEW p \in Paths, outcome[p] = "Uploaded"
        PROVE \A r \in References[p] : Durable(r)
    BY <2>2, <2>3, <2>5 DEF Told
  <2>6. QED BY <2>1, <2>4, <2>5, Zenon DEF SuccessIsDurable
<1>2. QED BY <1>1, InvariantHolds, PTL

\* publish_one: whoever reads the metadata of a path at any moment finds its archive and
\* all that it references; and nothing is committed once cancellation is visible.
THEOREM MetadataAppearsLast == Spec => MetadataComesLast
<1> DEFINE Step ==
      /\ \A p \in Paths : meta'[p] # meta[p] =>
           /\ archive[p].ours = "valid"
           /\ \A r \in References[p] \ {p} : Durable(r)
           /\ committing # None /\ job[committing] = p
      /\ cancelRequested /\ committing = None => committing' = None
<1>1. IInv /\ [Next]_vars => [Step]_vars
  <2> SUFFICES ASSUME IInv, Next PROVE Step
    BY DEF vars, storeVars
  <2>1. CASE meta' = meta /\ ~(cancelRequested /\ committing = None /\ committing' # None)
    BY <2>1
  <2>2. ASSUME NEW w \in Workers, PutMetadata(w) PROVE Step
    <3>1. at[w] = "commit" /\ job[w] \in Paths /\ committing' = None
          /\ \A p \in Paths : meta'[p] # meta[p] => p = job[w]
      BY <2>2, Prepared DEF PutMetadata, IInv, TypeOK
    <3>2. /\ archive[job[w]].ours = "valid" /\ committing = w
          /\ \A r \in Needs(job[w]) : Durable(r)
      BY <3>1, Prepared, AloneInGate DEF IInv, Stage
    <3>3. QED BY <3>1, <3>2, PublisherAssumption DEF Needs
  <2>3. ASSUME NEW w \in Workers, WorkerStep(w), ~PutMetadata(w)
        PROVE  meta' = meta /\ ~(cancelRequested /\ committing = None /\ committing' # None)
    BY <2>3 DEF WorkerStep, PublishOne, Pick, Start, StartExpired, Halt, Record, Probe, Verify,
         Pair, Reference, ReferencePair, Prepare, PutArchive, EnterGate, CallFails,
         PutArchiveFails, PutMetadataFails, storeVars
  <2>4. CASE BatchStep \/ RequestCancel
    BY <2>4 DEF BatchStep, Begin, Index, IndexFails, StartWave, EndWave, Finish, BatchUnchanged,
         RequestCancel, storeVars
  <2>5. QED BY <2>1, <2>2, <2>3, <2>4 DEF Next
<1>2. QED BY <1>1, InvariantHolds, PTL DEF Spec, MetadataComesLast

\* StopFlag: a path picked after a failure that stops the queue was recorded never reaches
\* the store.
THEOREM QueueStaysStopped == Spec => []StoppedQueueStaysStopped
<1>1. IInv => StoppedQueueStaysStopped
  BY DEF IInv, QueueInv, StoppedQueueStaysStopped
<1>2. QED BY <1>1, InvariantHolds, PTL

\* require_prerequisites and the waves: a path is refused only for a reference that is not
\* durable when the batch ends either.
THEOREM RefusalsAreJustified == Spec => []RefusalIsJustified
<1>1. IInv => RefusalIsJustified
  BY DEF IInv, ResultInv, RefusalIsJustified, Needs
<1>2. QED BY <1>1, InvariantHolds, PTL
================================================================================
