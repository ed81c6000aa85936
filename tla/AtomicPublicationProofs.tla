------------------------ MODULE AtomicPublicationProofs ------------------------
(***************************************************************************)
(* Proofs about AtomicPublication for any writers, processes and process   *)
(* ids, shared or not, and any number of attempts.                         *)
(*                                                                         *)
(* None of the properties is inductive.  FileInv ties where a call stands  *)
(* to what its file has been through: a temporary is its writer's alone,   *)
(* a file is complete and on disk before it may be renamed, and a renamed  *)
(* file stays so until a power loss ends its call.  GateInv says that a    *)
(* guarded rename is inside the gate, where no request returns.            *)
(***************************************************************************)
EXTENDS AtomicPublication, SequenceTheorems, TLAPS

Holding == {"writing", "syncing", "gate", "renaming", "discarding"}
Renamed == ToSet(versions)

\* The name of the writer's temporary is the name of no other file.
Alone(w) == w \in linked /\ \A v \in linked : Temporary(v) = Temporary(w) => v = w

\* What the place of a call says of its file.
FileOf(w) ==
  /\ at[w] \in {"idle", "naming"} =>
       w \notin linked /\ w \notin Renamed /\ attempts[w] < MaxAttempts
  /\ at[w] \in Holding => Alone(w)
  /\ at[w] \in {"syncing", "gate", "renaming"} => contents[w] = "complete"
  /\ at[w] \in {"gate", "renaming"} => w \in synced
  /\ at[w] = "discarding" => verdict[w] \in {"aborted", "failed"}
  /\ at[w] = "syncParent" => w \in Renamed /\ w \notin linked
  /\ at[w] = "published" => \E i \in 1..durable : versions[i] = w
  /\ w \in Renamed =>
       /\ contents[w] = "complete" /\ w \in synced
       /\ at[w] \in {"syncParent", "published", "advised", "dead"}
  /\ at[w] \in Results /\ w \in linked => w \in litter

FileInv == \A w \in Writers : FileOf(w)

GateInv ==
  \A w \in Guarded : at[w] = "renaming" =>
    gate[Process[w]] = w /\ Process[w] \notin answered

IInv == TypeOK /\ FileInv /\ GateInv

USE AtomicPublicationAssumption

------------------------------------------------------------------------------
(* The files of a sequence that grows and is cut *)

LEMMA GrownSequence ==
  ASSUME NEW S, NEW s \in Seq(S), NEW x \in S
  PROVE  /\ Append(s, x) \in Seq(S)
         /\ Len(s) \in Nat /\ Len(Append(s, x)) = Len(s) + 1
         /\ ToSet(Append(s, x)) = ToSet(s) \cup {x}
         /\ \A i \in 1..Len(s) : Append(s, x)[i] = s[i]
<1>1. /\ Append(s, x) \in Seq(S) /\ Len(Append(s, x)) = Len(s) + 1
      /\ \A i \in 1..Len(s) : Append(s, x)[i] = s[i]
      /\ Append(s, x)[Len(s) + 1] = x
  BY AppendProperties
<1>2. Len(s) \in Nat /\ DOMAIN s = 1..Len(s)
  BY LenProperties
<1>3. DOMAIN Append(s, x) = 1..(Len(s) + 1)
  BY <1>1, LenProperties
<1>4. ToSet(Append(s, x)) = ToSet(s) \cup {x}
  <2>1. ASSUME NEW y \in ToSet(Append(s, x)) PROVE y \in ToSet(s) \cup {x}
    <3>1. PICK i \in 1..(Len(s) + 1) : y = Append(s, x)[i]
      BY <1>3 DEF ToSet
    <3>2. CASE i = Len(s) + 1
      BY <1>1, <3>1, <3>2
    <3>3. CASE i \in 1..Len(s)
      BY <1>1, <1>2, <3>1, <3>3 DEF ToSet
    <3>4. QED BY <1>2, <3>2, <3>3
  <2>2. ASSUME NEW y \in ToSet(s) PROVE y \in ToSet(Append(s, x))
    <3>1. PICK i \in 1..Len(s) : y = s[i]
      BY <1>2 DEF ToSet
    <3>2. i \in DOMAIN Append(s, x) /\ y = Append(s, x)[i]
      BY <1>1, <1>2, <1>3, <3>1
    <3>3. QED BY <3>2 DEF ToSet
  <2>3. x \in ToSet(Append(s, x))
    BY <1>1, <1>2, <1>3 DEF ToSet
  <2>4. QED BY <2>1, <2>2, <2>3
<1>5. QED BY <1>1, <1>2, <1>4

LEMMA CutSequence ==
  ASSUME NEW S, NEW s \in Seq(S), NEW k \in 0..Len(s)
  PROVE  /\ SubSeq(s, 1, k) \in Seq(S)
         /\ k \in Nat /\ Len(SubSeq(s, 1, k)) = k
         /\ ToSet(SubSeq(s, 1, k)) \subseteq ToSet(s)
         /\ \A i \in 1..k : SubSeq(s, 1, k)[i] = s[i]
<1>1. Len(s) \in Nat /\ DOMAIN s = 1..Len(s) /\ \A i \in 1..Len(s) : s[i] \in S
  BY LenProperties, ElementOfSeq
<1>2. k \in Nat /\ k \in Int /\ 1 \in Int /\ \A i \in 1..k : s[i] \in S
  BY <1>1
<1>3. /\ SubSeq(s, 1, k) \in Seq(S)
      /\ Len(SubSeq(s, 1, k)) = IF 1 <= k THEN k - 1 + 1 ELSE 0
      /\ \A i \in 1..(k - 1 + 1) : SubSeq(s, 1, k)[i] = s[1 + i - 1]
  BY <1>2, SubSeqProperties
<1>4. Len(SubSeq(s, 1, k)) = k /\ \A i \in 1..k : SubSeq(s, 1, k)[i] = s[i]
  <2>1. k - 1 + 1 = k /\ (~(1 <= k) => k = 0) /\ \A i \in 1..k : 1 + i - 1 = i
    BY <1>2
  <2>2. QED BY <1>3, <2>1
<1>5. DOMAIN SubSeq(s, 1, k) = 1..k
  BY <1>3, <1>4, LenProperties
<1>6. ToSet(SubSeq(s, 1, k)) \subseteq ToSet(s)
  BY <1>1, <1>2, <1>4, <1>5 DEF ToSet
<1>7. QED BY <1>2, <1>3, <1>4, <1>6

\* The destination is one of the renamed files.
LEMMA NewestIsRenamed ==
  ASSUME versions \in Seq(Writers), versions # <<>>
  PROVE  Last(versions) \in Renamed
<1>1. Len(versions) \in Nat \ {0} /\ DOMAIN versions = 1..Len(versions)
  BY EmptySeq, LenProperties
<1>2. Len(versions) \in DOMAIN versions /\ Last(versions) = versions[Len(versions)]
  BY <1>1 DEF Last
<1>3. QED BY <1>2 DEF Renamed, ToSet

LEMMA RenamedAreWriters ==
  ASSUME versions \in Seq(Writers)
  PROVE  Renamed \subseteq Writers /\ Len(versions) \in Nat
<1>1. DOMAIN versions = 1..Len(versions) /\ Len(versions) \in Nat
  BY LenProperties
<1>2. \A i \in 1..Len(versions) : versions[i] \in Writers
  BY ElementOfSeq
<1>3. QED BY <1>1, <1>2 DEF Renamed, ToSet

------------------------------------------------------------------------------
(* Every step keeps the invariant *)

LEMMA InitIInv == Init => IInv
<1> SUFFICES ASSUME Init PROVE IInv
  OBVIOUS
<1>1. <<>> \in Seq(Writers) /\ Len(<<>>) = 0
  BY EmptySeq
<1>2. ToSet(<<>>) = {}
  BY DEF ToSet
<1>3. TypeOK
  BY <1>1 DEF Init, TypeOK, Busy, Results
<1>4. FileInv
  BY <1>2 DEF Init, FileInv, FileOf, Renamed, Holding, Results
<1>5. GateInv
  BY DEF Init, GateInv
<1>6. QED BY <1>3, <1>4, <1>5 DEF IInv

\* A step from one place to another while the call holds its temporary.
LEMMA HoldingMoves ==
  ASSUME TypeOK, FileInv, NEW w \in Writers, NEW place \in Holding, at[w] \in Holding,
         at' = [at EXCEPT ![w] = place],
         UNCHANGED <<versions, durable, linked, attempts, number, litter>>,
         \A v \in Writers : v # w =>
           contents'[v] = contents[v] /\ verdict'[v] = verdict[v]
           /\ (v \in synced => v \in synced'),
         place \in {"syncing", "gate", "renaming"} => contents'[w] = "complete",
         place \in {"gate", "renaming"} => w \in synced',
         place = "discarding" => verdict'[w] \in {"aborted", "failed"}
  PROVE  FileInv'
<1>1. ASSUME NEW v \in Writers, Alone(v) PROVE Alone(v)'
  BY <1>1 DEF Alone, Temporary, Name
<1>2. at'[w] = place /\ \A v \in Writers : v # w => at'[v] = at[v]
  BY DEF TypeOK
<1>3. Alone(w) /\ w \notin Renamed /\ Renamed' = Renamed
  BY DEF FileInv, FileOf, Holding, Renamed
<1>4. FileOf(w)'
  BY <1>1, <1>2, <1>3 DEF FileOf, Holding, Results
<1>5. ASSUME NEW v \in Writers, v # w PROVE FileOf(v)'
  <2>1. FileOf(v)
    BY DEF FileInv
  <2>2. QED BY <1>1, <1>2, <1>3, <1>5, <2>1 DEF FileOf
<1>6. QED BY <1>4, <1>5 DEF FileInv

\* The steps of one call that leave the destination and the gate alone.
LEMMA PrepareIInv ==
  ASSUME IInv, NEW w \in Writers,
         \/ Call(w) \/ CreateTemporary(w) \/ Write(w) \/ Sync(w) \/ PrepareFails(w)
         \/ RemoveTemporary(w)
  PROVE  IInv'
<1> USE DEF IInv
<1>0. Renamed' = Renamed
  BY DEF Call, CreateTemporary, Write, Sync, PrepareFails, RemoveTemporary, directoryVars, Renamed
<1>1. CASE Call(w)
  <2>0. \E place \in {"aborted", "naming", "failed"} : at' = [at EXCEPT ![w] = place]
    BY <1>1 DEF Call, Go
  <2>1. TypeOK'
    <3>1. \A p \in Processes : gate'[p] # None => Process[gate'[p]] = p /\ at'[gate'[p]] = "renaming"
      BY <1>1, <2>0 DEF TypeOK, Call, tokenVars
    <3>2. QED
      BY <1>1, <2>0, <3>1 DEF TypeOK, Call, Busy, Results, directoryVars, tokenVars
  <2>2. FileInv'
    <3>1. /\ at[w] = "idle" /\ UNCHANGED <<directoryVars, attempts, number, verdict, litter>>
      BY <1>1 DEF Call
    <3>2. ASSUME NEW v \in Writers, at'[v] \in Holding PROVE Alone(v)'
      BY <2>0, <3>1, <3>2 DEF directoryVars, FileInv, FileOf, TypeOK, Alone, Temporary, Name, Holding
    <3>3. QED
      BY <1>0, <2>0, <3>1, <3>2 DEF FileInv, FileOf, TypeOK, Holding, Results, directoryVars
  <2>3. GateInv'
    BY <1>1 DEF GateInv, TypeOK, Call, Go, tokenVars
  <2>4. QED BY <2>1, <2>2, <2>3
<1>2. CASE CreateTemporary(w)
  <2>1. TypeOK'
    <3>1. /\ attempts[w] < MaxAttempts /\ at[w] = "naming"
          /\ sequence[Process[w]] \in Nat /\ Process[w] \in Processes
      BY <1>2 DEF TypeOK, FileInv, FileOf, CreateTemporary
    <3>2. /\ attempts' \in [Writers -> 0..MaxAttempts]
          /\ number' \in [Writers -> Nat \cup {None}]
          /\ linked' \subseteq Writers
          /\ sequence' \in [Processes -> Nat]
      <4>1. sequence' = [sequence EXCEPT ![Process[w]] = sequence[Process[w]] + 1]
        BY <1>2 DEF CreateTemporary
      <4>2. \/ UNCHANGED <<attempts, number, linked>>
            \/ /\ number' = [number EXCEPT ![w] = sequence[Process[w]]]
               /\ linked' = linked \cup {w} /\ attempts' = [attempts EXCEPT ![w] = 0]
            \/ /\ attempts' = [attempts EXCEPT ![w] = attempts[w] + 1]
               /\ UNCHANGED <<number, linked>>
        BY <1>2 DEF CreateTemporary
      <4>3. /\ attempts \in [Writers -> 0..MaxAttempts] /\ linked \subseteq Writers
            /\ number \in [Writers -> Nat \cup {None}]
            /\ sequence \in [Processes -> Nat]
        BY DEF TypeOK
      <4>4. attempts[w] + 1 \in 0..MaxAttempts /\ 0 \in 0..MaxAttempts
        BY <3>1, <4>3
      <4>5. sequence[Process[w]] + 1 \in Nat
        BY <3>1
      <4>6. QED BY <3>1, <4>1, <4>2, <4>3, <4>4, <4>5
    <3>3. \E place \in {"writing", "failed", "naming"} : at' = [at EXCEPT ![w] = place]
      BY <1>2 DEF CreateTemporary, Go
    <3>4. \A p \in Processes : gate'[p] # None => Process[gate'[p]] = p /\ at'[gate'[p]] = "renaming"
      BY <1>2, <3>1, <3>3 DEF TypeOK, CreateTemporary, tokenVars
    <3>5. QED
      BY <1>2, <3>2, <3>3, <3>4 DEF TypeOK, CreateTemporary, Busy, Results, tokenVars
  <2>2. FileInv'
    <3>1. CASE linked' = linked
      <4>1. /\ at[w] = "naming" /\ w \notin linked /\ w \notin Renamed
            /\ UNCHANGED <<versions, durable, contents, synced, verdict, litter>>
        BY <1>2 DEF CreateTemporary, FileInv, FileOf
      <4>2. UNCHANGED number
        BY <1>2, <3>1, <4>1 DEF CreateTemporary
      <4>3. \/ at' = [at EXCEPT ![w] = "failed"]
            \/ at' = [at EXCEPT ![w] = "naming"] /\ attempts[w] + 1 # MaxAttempts
        BY <1>2, <3>1, <4>1 DEF CreateTemporary, Go
      <4>4. /\ attempts'[w] \in {attempts[w], attempts[w] + 1}
            /\ \A v \in Writers : v # w => attempts'[v] = attempts[v]
        BY <1>2, <3>1, <4>1 DEF CreateTemporary, TypeOK
      <4>5. at'[w] = "naming" => attempts'[w] < MaxAttempts
        <5>1. attempts[w] \in Nat /\ attempts[w] < MaxAttempts
          BY <4>1 DEF TypeOK, FileInv, FileOf
        <5>2. QED BY <4>3, <4>4, <5>1 DEF TypeOK
      <4>6. ASSUME NEW v \in Writers, at'[v] \in Holding PROVE Alone(v)'
        BY <3>1, <4>1, <4>2, <4>3, <4>6 DEF FileInv, FileOf, TypeOK, Alone, Temporary, Name, Holding
      <4>7. \A v \in Writers : v # w => at'[v] = at[v]
        BY <4>3 DEF TypeOK
      <4>8. ASSUME NEW v \in Writers, at'[v] \in {"idle", "naming"}
            PROVE  v \notin linked' /\ v \notin Renamed' /\ attempts'[v] < MaxAttempts
        <5>1. CASE v = w
          BY <1>0, <3>1, <4>1, <4>3, <4>5, <4>8, <5>1 DEF TypeOK
        <5>2. CASE v # w
          BY <1>0, <3>1, <4>4, <4>7, <4>8, <5>2 DEF FileInv, FileOf
        <5>3. QED BY <5>1, <5>2
      <4>9. at'[w] \in {"naming", "failed"}
        BY <4>3 DEF TypeOK
      <4>10. QED
        BY <1>0, <3>1, <4>1, <4>6, <4>7, <4>8, <4>9 DEF FileInv, FileOf, Holding, Results
    <3>2. CASE linked' # linked
      <4>1. /\ Under(Name(w, sequence[Process[w]])) = {}
            /\ number' = [number EXCEPT ![w] = sequence[Process[w]]]
            /\ linked' = linked \cup {w} /\ at' = [at EXCEPT ![w] = "writing"]
            /\ UNCHANGED <<versions, durable, contents, synced, verdict, litter>>
            /\ w \notin linked /\ w \notin Renamed /\ at[w] = "naming"
            /\ attempts' = [attempts EXCEPT ![w] = 0]
        BY <1>2, <3>2 DEF CreateTemporary, Go, FileInv, FileOf
      <4>2. \A v \in linked : v # w /\ Temporary(v)' = Temporary(v)
                              /\ Temporary(v) # Temporary(w)'
        BY <4>1 DEF TypeOK, Under, Temporary, Name
      <4>3. ASSUME NEW v \in Writers, at'[v] \in Holding PROVE Alone(v)'
        BY <4>1, <4>2, <4>3 DEF FileInv, FileOf, TypeOK, Alone
      <4>4. QED BY <1>0, <4>1, <4>3 DEF FileInv, FileOf, TypeOK, Results, Holding
    <3>3. QED BY <3>1, <3>2
  <2>3. GateInv'
    BY <1>2 DEF GateInv, TypeOK, CreateTemporary, Go, tokenVars
  <2>4. QED BY <2>1, <2>2, <2>3
<1>3. CASE Write(w)
  <2>1. TypeOK'
    BY <1>3 DEF TypeOK, Write, Go, Busy, Results, tokenVars
  <2>2. FileInv'
      <3>1. at[w] = "writing" /\ at' = [at EXCEPT ![w] = "syncing"]
      BY <1>3 DEF Write, Go
    <3>2. contents'[w] = "complete" /\ \A v \in Writers : v # w => contents'[v] = contents[v]
      BY <1>3 DEF Write, TypeOK
    <3>3. QED BY <1>3, <3>1, <3>2, HoldingMoves DEF Write, Holding
  <2>3. GateInv'
    BY <1>3 DEF GateInv, TypeOK, Write, Go, tokenVars
  <2>4. QED BY <2>1, <2>2, <2>3
<1>4. CASE Sync(w)
  <2>1. TypeOK'
    BY <1>4 DEF TypeOK, Sync, Go, Busy, Results, tokenVars
  <2>2. FileInv'
      <3>1. at[w] = "syncing" /\ at' = [at EXCEPT ![w] = "gate"] /\ contents[w] = "complete"
      BY <1>4 DEF Sync, Go, FileInv, FileOf
    <3>2. QED BY <1>4, <3>1, HoldingMoves DEF Sync, Holding
  <2>3. GateInv'
    BY <1>4 DEF GateInv, TypeOK, Sync, Go, tokenVars
  <2>4. QED BY <2>1, <2>2, <2>3
<1>5. CASE PrepareFails(w)
  <2>1. TypeOK'
    BY <1>5 DEF TypeOK, PrepareFails, Discard, Go, Busy, Results, tokenVars
  <2>2. FileInv'
      <3>1. at[w] \in {"writing", "syncing"} /\ at' = [at EXCEPT ![w] = "discarding"]
      BY <1>5 DEF PrepareFails, Discard, Go
    <3>2. /\ verdict'[w] = "failed"
          /\ \A v \in Writers : v # w => contents'[v] = contents[v] /\ verdict'[v] = verdict[v]
      BY <1>5 DEF PrepareFails, Discard, TypeOK
    <3>3. QED BY <1>5, <3>1, <3>2, HoldingMoves DEF PrepareFails, Holding
  <2>3. GateInv'
    BY <1>5 DEF GateInv, TypeOK, PrepareFails, Discard, Go, tokenVars
  <2>4. QED BY <2>1, <2>2, <2>3
<1>6. CASE RemoveTemporary(w)
  <2>1. verdict[w] \in {"aborted", "failed"} /\ Under(Temporary(w)) = {w}
    BY <1>6 DEF RemoveTemporary, FileInv, FileOf, TypeOK, Alone, Holding, Under, Temporary
  <2>2. TypeOK'
    BY <1>6, <2>1 DEF TypeOK, RemoveTemporary, Go, Busy, Results, tokenVars
  <2>3. FileInv'
    <3>1. /\ at[w] = "discarding" /\ at' = [at EXCEPT ![w] = verdict[w]]
          /\ linked \ {w} \subseteq linked' /\ linked' \subseteq linked
          /\ litter \subseteq litter' /\ (w \in linked' => w \in litter')
          /\ UNCHANGED <<versions, durable, contents, synced, attempts, number, verdict>>
      BY <1>6, <2>1 DEF RemoveTemporary, Go
    <3>2. ASSUME NEW v \in Writers, at'[v] \in Holding PROVE Alone(v)'
      BY <2>1, <3>1, <3>2 DEF FileInv, FileOf, TypeOK, Alone, Temporary, Name, Holding
    <3>3. at'[w] = verdict[w] /\ \A v \in Writers : v # w => at'[v] = at[v]
      BY <3>1 DEF TypeOK
    <3>4. w \notin Renamed /\ Renamed' = Renamed
      BY <3>1 DEF FileInv, FileOf, Renamed
    <3>5. FileOf(w)'
      BY <2>1, <3>1, <3>3, <3>4 DEF FileOf, Holding, Results
    <3>6. ASSUME NEW v \in Writers, v # w PROVE FileOf(v)'
      <4>1. FileOf(v)
        BY DEF FileInv
      <4>2. QED BY <3>1, <3>2, <3>3, <3>4, <3>6, <4>1 DEF FileOf
    <3>7. QED BY <3>5, <3>6 DEF FileInv
  <2>4. GateInv'
    BY <1>6, <2>1 DEF GateInv, TypeOK, RemoveTemporary, Go, tokenVars
  <2>5. QED BY <2>2, <2>3, <2>4
<1>7. QED BY <1>1, <1>2, <1>3, <1>4, <1>5, <1>6

\* The gate and what is done inside it and behind it.
LEMMA CommitIInv ==
  ASSUME IInv, NEW w \in Writers,
         EnterGate(w) \/ Rename(w) \/ RenameFails(w) \/ SyncParent(w)
  PROVE  IInv'
<1> USE DEF IInv
<1>0. Renamed \subseteq Writers /\ Len(versions) \in Nat
  BY RenamedAreWriters DEF TypeOK
<1>1. CASE EnterGate(w)
  <2>0. Renamed' = Renamed
    BY <1>1 DEF EnterGate, directoryVars, Renamed
  <2>1. TypeOK'
    <3>0. /\ gate \in [Processes -> Guarded \cup {None}] /\ Process[w] \in Processes
          /\ at[w] = "gate" /\ \A p \in Processes : gate[p] # w
      BY <1>1 DEF TypeOK, EnterGate
    <3>1. CASE Signalled(w)
      <4>1. /\ at' = [at EXCEPT ![w] = "discarding"] /\ UNCHANGED gate
            /\ verdict' = [verdict EXCEPT ![w] = "aborted"]
        BY <1>1, <3>1 DEF EnterGate, Discard, Go
      <4>2. \A p \in Processes : gate'[p] # None => Process[gate'[p]] = p /\ at'[gate'[p]] = "renaming"
        BY <3>0, <4>1 DEF TypeOK
      <4>3. QED
        BY <1>1, <4>1, <4>2 DEF TypeOK, EnterGate, Busy, Results, directoryVars
    <3>2. CASE ~Signalled(w)
      <4>0. gate' = IF w \in Guarded THEN [gate EXCEPT ![Process[w]] = w] ELSE gate
        BY <1>1, <3>2 DEF EnterGate
      <4>1. gate' \in [Processes -> Guarded \cup {None}] /\ Process[w] \in Processes
        BY <3>0, <4>0
      <4>2. at' = [at EXCEPT ![w] = "renaming"] /\ UNCHANGED verdict
        BY <1>1, <3>2 DEF EnterGate, Go
      <4>3. \A p \in Processes : gate'[p] # None => Process[gate'[p]] = p /\ at'[gate'[p]] = "renaming"
        BY <3>0, <4>0, <4>1, <4>2 DEF TypeOK
      <4>4. QED
        BY <1>1, <4>1, <4>2, <4>3 DEF TypeOK, EnterGate, Busy, directoryVars
    <3>3. QED BY <3>1, <3>2
  <2>2. FileInv'
      <3>1. /\ at[w] = "gate" /\ contents[w] = "complete" /\ w \in synced
          /\ UNCHANGED <<directoryVars, attempts, number, litter>>
      BY <1>1 DEF EnterGate, FileInv, FileOf
    <3>2. CASE Signalled(w)
      <4>1. /\ at' = [at EXCEPT ![w] = "discarding"]
            /\ verdict' = [verdict EXCEPT ![w] = "aborted"]
        BY <1>1, <3>2 DEF EnterGate, Discard, Go
      <4>2. verdict'[w] = "aborted" /\ \A v \in Writers : v # w => verdict'[v] = verdict[v]
        BY <4>1 DEF TypeOK
      <4>3. QED BY <3>1, <4>1, <4>2, HoldingMoves DEF Holding, directoryVars
    <3>3. CASE ~Signalled(w)
      <4>1. at' = [at EXCEPT ![w] = "renaming"] /\ verdict' = verdict
        BY <1>1, <3>3 DEF EnterGate, Go
      <4>2. QED BY <3>1, <4>1, HoldingMoves DEF Holding, directoryVars
    <3>4. QED BY <3>2, <3>3
  <2>3. GateInv'
    BY <1>1 DEF GateInv, TypeOK, EnterGate, Discard, Go, Signalled
  <2>4. QED BY <2>1, <2>2, <2>3
<1>2. CASE Rename(w)
  <2>0. at[w] = "renaming" /\ Alone(w) /\ contents[w] = "complete" /\ w \in synced
    BY <1>2 DEF Rename, FileInv, FileOf, Holding
  <2>1. Under(Temporary(w)) = {w}
    BY <2>0 DEF Alone, Under, Temporary
  <2>2. versions' = Append(versions, w) /\ linked' = linked \ {w}
    BY <1>2, <2>1 DEF Rename
  <2>3. /\ versions' \in Seq(Writers) /\ Len(versions') = Len(versions) + 1
        /\ Renamed' = Renamed \cup {w}
        /\ \A i \in 1..Len(versions) : versions'[i] = versions[i]
    BY <2>2, GrownSequence DEF TypeOK, Renamed
  <2>4. TypeOK'
    <3>1. /\ gate \in [Processes -> Guarded \cup {None}]
          /\ gate' = [p \in Processes |-> IF gate[p] = w THEN None ELSE gate[p]]
          /\ at' = [at EXCEPT ![w] = "syncParent"] /\ durable' = durable
          /\ durable \in 0..Len(versions')
      BY <1>0, <1>2, <2>3 DEF TypeOK, Rename, LeaveGate, Go
    <3>2. \A p \in Processes : gate'[p] # None => Process[gate'[p]] = p /\ at'[gate'[p]] = "renaming"
      BY <3>1 DEF TypeOK
    <3>3. at' \in [Writers -> Busy \cup Results \cup {"idle", "dead"}]
      BY <3>1 DEF TypeOK, Busy
    <3>4. gate' \in [Processes -> Guarded \cup {None}]
      BY <3>1
    <3>5. linked' \subseteq Writers
      BY <2>2 DEF TypeOK
    <3>6. UNCHANGED <<contents, synced, sequence, cancelled, answered, attempts, number,
                      verdict, litter>>
      BY <1>2 DEF Rename
    <3>7. QED
      BY <2>3, <3>1, <3>2, <3>3, <3>4, <3>5, <3>6 DEF TypeOK
  <2>5. FileInv'
    <3>1. ASSUME NEW v \in Writers, at'[v] = "published"
          PROVE  \E i \in 1..durable' : versions'[i] = v
      <4>1. PICK i \in 1..durable : versions[i] = v
        BY <1>2, <2>0, <3>1 DEF Rename, Go, TypeOK, FileInv, FileOf
      <4>2. i \in 1..Len(versions)
        BY <1>0 DEF TypeOK
      <4>3. QED BY <1>2, <2>3, <4>1, <4>2 DEF Rename
    <3>2. QED
      BY <1>2, <2>0, <2>2, <2>3, <3>1 DEF FileInv, FileOf, TypeOK, Rename, Go, Alone, Temporary, Name,
                      Holding, Results
  <2>6. GateInv'
    BY <1>2 DEF GateInv, TypeOK, Rename, LeaveGate, Go
  <2>7. QED BY <2>4, <2>5, <2>6
<1>3. CASE RenameFails(w)
  <2>0. Renamed' = Renamed /\ at[w] = "renaming" /\ Alone(w)
    BY <1>3 DEF RenameFails, Renamed, FileInv, FileOf, Holding
  <2>1. Under(Temporary(w)) = {w}
    BY <2>0 DEF Alone, Under, Temporary
  <2>2. TypeOK'
    <3>1. /\ gate \in [Processes -> Guarded \cup {None}]
          /\ gate' = [p \in Processes |-> IF gate[p] = w THEN None ELSE gate[p]]
          /\ at' = [at EXCEPT ![w] = "failed"]
      BY <1>3 DEF TypeOK, RenameFails, LeaveGate, Go
    <3>2. \A p \in Processes :
            gate'[p] # None => Process[gate'[p]] = p /\ at'[gate'[p]] = "renaming"
      BY <3>1 DEF TypeOK
    <3>3. at' \in [Writers -> Busy \cup Results \cup {"idle", "dead"}]
      BY <3>1 DEF TypeOK, Results
    <3>4. gate' \in [Processes -> Guarded \cup {None}]
      BY <3>1
    <3>5. linked' \subseteq Writers /\ litter' \subseteq Writers
      BY <1>3 DEF TypeOK, RenameFails
    <3>6. UNCHANGED <<versions, durable, contents, synced, sequence, cancelled, answered,
                      attempts, number, verdict>>
      BY <1>3 DEF RenameFails
    <3>7. QED
      BY <3>2, <3>3, <3>4, <3>5, <3>6 DEF TypeOK
  <2>3. FileInv'
    <3>1. /\ at' = [at EXCEPT ![w] = "failed"]
          /\ linked \ {w} \subseteq linked' /\ linked' \subseteq linked
          /\ litter \subseteq litter' /\ (w \in linked' => w \in litter')
          /\ UNCHANGED <<versions, durable, contents, synced, attempts, number, verdict>>
      BY <1>3, <2>1 DEF RenameFails, Go
    <3>2. ASSUME NEW v \in Writers, at'[v] \in Holding PROVE Alone(v)'
      BY <3>1, <3>2 DEF FileInv, FileOf, TypeOK, Alone, Temporary, Name, Holding
    <3>3. at'[w] = "failed" /\ \A v \in Writers : v # w => at'[v] = at[v]
      BY <3>1 DEF TypeOK
    <3>4. w \notin Renamed
      BY <2>0 DEF FileInv, FileOf
    <3>5. FileOf(w)'
      BY <2>0, <3>1, <3>3, <3>4 DEF FileOf, Holding, Results
    <3>6. ASSUME NEW v \in Writers, v # w PROVE FileOf(v)'
      <4>1. FileOf(v)
        BY DEF FileInv
      <4>2. QED BY <2>0, <3>1, <3>2, <3>3, <3>6, <4>1 DEF FileOf
    <3>7. QED BY <3>5, <3>6 DEF FileInv
  <2>4. GateInv'
    BY <1>3 DEF GateInv, TypeOK, RenameFails, LeaveGate, Go
  <2>5. QED BY <2>2, <2>3, <2>4
<1>4. CASE SyncParent(w)
  <2>0. Renamed' = Renamed /\ at[w] = "syncParent" /\ durable' \in Nat
        /\ durable <= durable' /\ durable' <= Len(versions)
    BY <1>0, <1>4 DEF SyncParent, Renamed, TypeOK
  <2>1. TypeOK'
    <3>1. \E place \in {"published", "advised"} : at' = [at EXCEPT ![w] = place]
      BY <1>4 DEF SyncParent, Go
    <3>2. \A p \in Processes : gate'[p] # None => Process[gate'[p]] = p /\ at'[gate'[p]] = "renaming"
      BY <1>4, <2>0, <3>1 DEF TypeOK, SyncParent, tokenVars
    <3>3. QED
      BY <1>0, <1>4, <2>0, <3>1, <3>2 DEF TypeOK, SyncParent, Busy, Results, tokenVars
  <2>2. ASSUME NEW v \in Writers, at'[v] = "published"
        PROVE  \E i \in 1..durable' : versions'[i] = v
    <3>1. CASE v = w
      <4>1. durable' = Len(versions) /\ w \in Renamed /\ versions' = versions
        BY <1>4, <2>2, <3>1 DEF SyncParent, Go, TypeOK, FileInv, FileOf
      <4>2. DOMAIN versions = 1..Len(versions)
        BY LenProperties DEF TypeOK
      <4>3. QED BY <3>1, <4>1, <4>2 DEF Renamed, ToSet
    <3>2. CASE v # w
      <4>1. PICK i \in 1..durable : versions[i] = v
        BY <1>4, <2>2, <3>2 DEF SyncParent, Go, TypeOK, FileInv, FileOf
      <4>2. i \in 1..durable' /\ versions' = versions
        BY <1>4, <1>0, <2>0 DEF SyncParent, TypeOK
      <4>3. QED BY <4>1, <4>2
    <3>3. QED BY <3>1, <3>2
  <2>3. FileInv'
    <3>1. /\ \E place \in {"published", "advised"} : at' = [at EXCEPT ![w] = place]
          /\ UNCHANGED <<versions, linked, contents, synced, attempts, number, verdict, litter>>
      BY <1>4 DEF SyncParent, Go
    <3>2. ASSUME NEW v \in Writers, at'[v] \in Holding PROVE Alone(v)'
      BY <3>1, <3>2 DEF FileInv, FileOf, TypeOK, Alone, Temporary, Name, Holding
    <3>3. w \notin linked
      BY <2>0 DEF FileInv, FileOf
    <3>4. QED
      <4>1. ASSUME NEW v \in Writers, at'[v] \in {"idle", "naming"}
            PROVE  v \notin linked' /\ v \notin Renamed' /\ attempts'[v] < MaxAttempts
        BY <2>0, <3>1, <4>1 DEF FileInv, FileOf, TypeOK
      <4>2. \A v \in Writers : v # w => at'[v] = at[v]
        BY <3>1 DEF TypeOK
      <4>3. at'[w] \in {"published", "advised"}
        BY <3>1 DEF TypeOK
      <4>4. QED
        BY <2>0, <2>2, <3>1, <3>2, <3>3, <4>1, <4>2, <4>3 DEF FileInv, FileOf, Holding, Results
  <2>4. GateInv'
    BY <1>4 DEF GateInv, TypeOK, SyncParent, Go, tokenVars
  <2>5. QED BY <2>1, <2>3, <2>4
<1>5. QED BY <1>1, <1>2, <1>3, <1>4

\* Requests, and the ends of processes.
LEMMA RequestIInv ==
  ASSUME IInv, NEW p \in Processes, RequestCancel(p) \/ RequestReturns(p)
  PROVE  IInv'
<1> USE DEF IInv
<1>1. CASE RequestCancel(p)
  BY <1>1 DEF RequestCancel, TypeOK, FileInv, FileOf, GateInv, Alone, Temporary, Name, Renamed,
              directoryVars, callVars
<1>2. CASE RequestReturns(p)
  <2>1. TypeOK' /\ FileInv'
    BY <1>2 DEF RequestReturns, TypeOK, FileInv, FileOf, Alone, Temporary, Name, Renamed,
                directoryVars, callVars
  <2>2. GateInv'
    BY <1>2 DEF RequestReturns, TypeOK, GateInv, callVars
  <2>3. QED BY <2>1, <2>2
<1>3. QED BY <1>1, <1>2

\* What Stop does to the calls and the gates.
LEMMA StoppedCalls ==
  ASSUME IInv, NEW processes \in SUBSET Processes, Stop(processes)
  PROVE  /\ at' \in [Writers -> Busy \cup Results \cup {"idle", "dead"}]
         /\ gate' \in [Processes -> Guarded \cup {None}]
         /\ \A p \in Processes :
              gate'[p] # None => Process[gate'[p]] = p /\ at'[gate'[p]] = "renaming"
         /\ \A w \in Writers : at'[w] # "dead" => at'[w] = at[w]
         /\ \A w \in Writers : Process[w] \in processes => at'[w] \in Results \cup {"dead"}
         /\ GateInv'
<1>1. /\ at \in [Writers -> Busy \cup Results \cup {"idle", "dead"}]
      /\ gate \in [Processes -> Guarded \cup {None}]
      /\ \A p \in Processes :
           gate[p] # None => Process[gate[p]] = p /\ at[gate[p]] = "renaming"
  BY DEF IInv, TypeOK
<1>2. /\ at' = [w \in Writers |->
                  IF Process[w] \in processes /\ at[w] \notin Results THEN "dead" ELSE at[w]]
      /\ gate' = [p \in Processes |-> IF p \in processes THEN None ELSE gate[p]]
      /\ UNCHANGED answered
  BY DEF Stop
<1>3. \A w \in Writers : Process[w] \in processes => at'[w] \in Results \cup {"dead"}
  BY <1>2
<1>4. GateInv'
  BY <1>1, <1>2 DEF IInv, GateInv, Results
<1>5. QED BY <1>1, <1>2, <1>3, <1>4

LEMMA KillIInv ==
  ASSUME IInv, NEW p \in Processes, Kill(p)
  PROVE  IInv'
<1>1. Stop({p}) /\ {p} \in SUBSET Processes /\ UNCHANGED <<directoryVars, litter>>
  BY DEF Kill
<1>2. TypeOK'
  BY <1>1, StoppedCalls DEF IInv, TypeOK, Stop, directoryVars
<1>3. \A w \in Writers : at'[w] # "dead" => at'[w] = at[w]
  BY <1>1, StoppedCalls
<1>4. FileInv'
  <2>1. ASSUME NEW v \in Writers, at'[v] \in Holding PROVE Alone(v)'
    BY <1>1, <1>3, <2>1 DEF IInv, FileInv, FileOf, Alone, Temporary, Name, Holding, Stop, directoryVars
  <2>2. Renamed' = Renamed
    BY <1>1 DEF Renamed, directoryVars
  <2>3. QED
    BY <1>1, <1>3, <2>1, <2>2 DEF IInv, FileInv, FileOf, Holding, Results, Stop, directoryVars
<1>5. QED BY <1>1, <1>2, <1>4, StoppedCalls DEF IInv

\* A file that was renamed, or that a call still works on, is complete whatever a power
\* loss keeps of it; and no call survives that has begun.
LEMMA PowerLossIInv ==
  ASSUME IInv, PowerLoss
  PROVE  IInv'
<1> DEFINE ended == {Process[w] : w \in {v \in Writers : at[v] # "idle"}}
<1>0. TypeOK /\ FileInv /\ Renamed \subseteq Writers /\ Len(versions) \in Nat
  BY RenamedAreWriters DEF IInv, TypeOK
<1>1. Stop(ended) /\ ended \in SUBSET Processes
  BY DEF PowerLoss
<1> HIDE DEF ended
<1>2. PICK kept \in durable..Len(versions) :
        /\ versions' = SubSeq(versions, 1, kept)
        /\ durable' = kept
        /\ \E found \in SUBSET (linked \cup (ToSet(versions) \ ToSet(versions'))) :
             linked' = found
  BY DEF PowerLoss
<1>3. kept \in 0..Len(versions) /\ kept \in Nat /\ durable <= kept /\ durable \in Nat
  BY <1>0, <1>2 DEF TypeOK
<1>4. /\ versions' \in Seq(Writers) /\ Len(versions') = kept
      /\ Renamed' \subseteq Renamed
      /\ \A i \in 1..kept : versions'[i] = versions[i]
  BY <1>0, <1>2, <1>3, CutSequence DEF TypeOK, Renamed
<1>5. /\ linked' \subseteq linked \cup (Renamed \ Renamed')
      /\ litter' = litter \cup (Renamed \ Renamed') /\ synced' = synced
  BY <1>2 DEF PowerLoss, Renamed
<1>6. /\ contents' \in [Writers -> {"none", "partial", "complete"}]
      /\ \A w \in Writers : w \in synced => contents'[w] = contents[w]
  BY DEF PowerLoss
<1>7. /\ \A w \in Writers : at'[w] # "dead" => at'[w] = at[w]
      /\ \A w \in Writers : at'[w] \in Results \cup {"idle", "dead"}
  <2>1. ASSUME NEW w \in Writers, at[w] # "idle" PROVE at'[w] \in Results \cup {"dead"}
    <3>1. Process[w] \in ended
      BY <2>1 DEF ended
    <3>2. QED BY <1>1, <3>1, StoppedCalls
  <2>2. \A w \in Writers : at'[w] # "dead" => at'[w] = at[w]
    BY <1>1, StoppedCalls
  <2>3. QED BY <2>1, <2>2
<1>8. UNCHANGED <<sequence, cancelled, answered, attempts, number, verdict>>
  BY <1>1 DEF Stop
<1>9. TypeOK'
  <2>1. durable' \in 0..Len(versions') /\ linked' \subseteq Writers /\ litter' \subseteq Writers
    BY <1>0, <1>2, <1>3, <1>4, <1>5 DEF TypeOK
  <2>2. QED BY <1>0, <1>1, <1>4, <1>5, <1>6, <1>8, <2>1, StoppedCalls DEF TypeOK
<1>10. FileInv'
  <2>1. ASSUME NEW w \in Writers, at'[w] = "published"
        PROVE  \E i \in 1..durable' : versions'[i] = w
    <3>1. PICK i \in 1..durable : versions[i] = w
      BY <1>0, <1>7, <2>1 DEF FileInv, FileOf
    <3>2. i \in 1..kept
      BY <1>3
    <3>3. QED BY <1>2, <1>4, <3>1, <3>2
  <2>2. ASSUME NEW w \in Writers, at'[w] \in {"idle", "naming"}
        PROVE  w \notin linked' /\ w \notin Renamed' /\ attempts'[w] < MaxAttempts
    BY <1>0, <1>4, <1>5, <1>7, <1>8, <2>2 DEF FileInv, FileOf
  <2>3. ASSUME NEW w \in Writers, w \in Renamed'
        PROVE  /\ contents'[w] = "complete" /\ w \in synced'
               /\ at'[w] \in {"syncParent", "published", "advised", "dead"}
    BY <1>0, <1>4, <1>5, <1>6, <1>7, <2>3 DEF FileInv, FileOf
  <2>4. ASSUME NEW w \in Writers, at'[w] \in Results, w \in linked' PROVE w \in litter'
    BY <1>0, <1>5, <1>7, <2>4 DEF FileInv, FileOf, Results
  <2>5. ASSUME NEW w \in Writers
        PROVE  at'[w] \notin Holding \cup {"syncParent"}
    BY <1>7 DEF Holding, Results
  <2>6. QED BY <2>1, <2>2, <2>3, <2>4, <2>5 DEF FileInv, FileOf, Holding
<1>11. QED BY <1>1, <1>9, <1>10, StoppedCalls DEF IInv

LEMMA NextIInv == IInv /\ [Next]_vars => IInv'
<1> SUFFICES ASSUME IInv, [Next]_vars PROVE IInv'
  OBVIOUS
<1>1. CASE \E w \in Writers : WriterStep(w)
  BY <1>1, PrepareIInv, CommitIInv DEF WriterStep
<1>2. CASE \E p \in Processes : RequestCancel(p) \/ RequestReturns(p) \/ Kill(p)
  BY <1>2, RequestIInv, KillIInv
<1>3. CASE PowerLoss
  BY <1>3, PowerLossIInv
<1>4. CASE UNCHANGED vars
  BY <1>4 DEF IInv, TypeOK, FileInv, FileOf, GateInv, Alone, Temporary, Name, Renamed, vars,
              directoryVars, tokenVars, callVars
<1>5. QED BY <1>1, <1>2, <1>3, <1>4 DEF Next

\* The strengthened invariant holds throughout every behaviour of the concurrent writers.
THEOREM InvariantHolds == Spec => []IInv
BY InitIInv, NextIInv, PTL DEF Spec

------------------------------------------------------------------------------
(* What follows from it *)

\* write_atomic and write_atomic_guarded: whoever opens the destination, at any time and
\* after any kill or power loss, finds the whole of one writer's contents.
THEOREM NoPartialDestination == Spec => []DestinationIsComplete
<1>1. IInv => DestinationIsComplete
  BY NewestIsRenamed, RenamedAreWriters DEF IInv, TypeOK, FileInv, FileOf, DestinationIsComplete
<1>2. QED BY <1>1, InvariantHolds, PTL

\* Publication and Aborted: a success is there to stay, and a call that failed or was
\* cancelled has replaced nothing.
THEOREM ResultsAreTrue == Spec => []ResultIsTrue
<1>1. IInv => ResultIsTrue
  BY DEF IInv, FileInv, FileOf, ResultIsTrue, Renamed
<1>2. QED BY <1>1, InvariantHolds, PTL

\* create_temporary_at and TemporaryFile: a temporary belongs to the call that created it,
\* even among processes with one id, and is left behind only when its removal failed.
THEOREM TemporariesStayOwned == Spec => []TemporariesAreOwned
<1>1. IInv => TemporariesAreOwned
  <2> SUFFICES ASSUME IInv PROVE TemporariesAreOwned
    OBVIOUS
  <2>1. ASSUME NEW w \in Writers, at[w] \in Holding PROVE Under(Temporary(w)) = {w}
    BY <2>1 DEF IInv, FileInv, FileOf, Alone, Under, Temporary
  <2>2. QED BY <2>1 DEF IInv, FileInv, FileOf, TemporariesAreOwned, Holding
<1>2. QED BY <1>1, InvariantHolds, PTL

\* commit_if_not_cancelled around the rename: once a request has returned no guarded call
\* of its process replaces the destination.
THEOREM NothingAfterCancellation == Spec => CancellationIsFinal
<1>1. IInv => [\A w \in Guarded :
         at[w] = "renaming" /\ at'[w] = "syncParent" => Process[w] \notin answered]_vars
  BY DEF IInv, GateInv
<1>2. QED BY <1>1, InvariantHolds, PTL DEF CancellationIsFinal
================================================================================
