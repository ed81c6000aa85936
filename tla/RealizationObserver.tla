-------------------------- MODULE RealizationObserver --------------------------
(***************************************************************************)
(* RealizationObserver of crates/nix-tools-engine/src/activity.rs and the  *)
(* threads stream_realization of engine.rs puts around it, for one         *)
(* "nix build": the process callback thread, which hands over the records  *)
(* of Nix's activity stream one by one; the live thread, which probes the  *)
(* store for the outputs of builds whose activity stopped; the forwarder,  *)
(* which empties the bounded progress channel; and the main thread, which  *)
(* closes the observer when the process has ended and then takes what was  *)
(* confirmed.  A cancellation may arrive at any moment.                    *)
(*                                                                         *)
(* A step is one section under the state lock.  Only line() and            *)
(* flush_live_notifications take the delivery lock, the latter without     *)
(* waiting, so it is held exactly while a line is not idle.                *)
(*                                                                         *)
(* A derivation has one output, and what is reported of it is its own      *)
(* path, an alien one, or nothing usable.  The byte budgets have the shape *)
(* of the node budgets and are left out, as are the reconstructed logs.    *)
(***************************************************************************)
EXTENDS Naturals, Sequences, FiniteSets

CONSTANTS
  Derivations,     \* derivations the stream may name
  Graph,           \* those of the validated graph
  Required,        \* those this process was asked to realize
  Known,           \* those whose output path the graph, or the store, knows
  Ids,             \* activity ids
  Streams,         \* sets of records: what Nix may report, one of them at a time
  MaxNodes,        \* max_graph_nodes, the three budgets
  ChannelCapacity, \* 256 in the code
  Rebuild,         \* config.rebuild
  MaxRecords,      \* bound of the model: length of the stream
  Conflict,        \* the entry of a path whose results contradict each other
  None

\* What is retained of a path; what Nix may report of one; the lines of its
\* stream; what is known of an activity.
Verdict == [state : {"Built", "Substituted", "Realized"}, outputs : {"own", "alien"},
            authoritative : BOOLEAN]
Reports == [success : {TRUE}, state : {"Built", "Substituted", "Odd"},
            outputs : {"own", "alien", "unusable"}]
           \cup [success : {FALSE}, state : {"Failed"}, outputs : {"unusable"}]
Record == [action : {"start"}, id : Ids, kind : {"build", "transfer", "remote"},
           subject : Derivations, parent : Ids \cup {0}]
          \cup [action : {"stop", "log"}, id : Ids]
          \cup [action : {"result"}, drv : Derivations, report : Reports]
Activity == [drv : Derivations, transfer : BOOLEAN, running : BOOLEAN]

ASSUME ObserverAssumption ==
  /\ Required \subseteq Graph /\ Graph \subseteq Derivations /\ Known \subseteq Derivations
  /\ Ids \subseteq Nat \ {0} /\ IsFiniteSet(Ids)
  /\ Streams \subseteq SUBSET Record
  /\ MaxNodes \in Nat /\ MaxRecords \in Nat /\ ChannelCapacity \in Nat \ {0}
  /\ Rebuild \in BOOLEAN
  /\ None \notin Derivations \cup Verdict \cup Activity /\ Conflict # None

VARIABLES
  \* the records Nix reports this time
  stream,
  \* ObserverState
  activities, parents, running, completedBuilds, outputs,
  confirmed, liveConfirmed, liveNotifications, livePending, stopped,
  unknownBudget, liveBudget, stoppedBudget, events,
  \* the callback thread: the line it is in, its record and events to deliver
  line, record, delivering, records,
  \* the live thread: its batch and the paths it found outputs of
  live, batch, found,
  \* the channel, the forwarder, the main thread, the token
  queued, forwarder, main, detached, cancelRequested,
  \* what retain_observed_runs gets
  taken,
  \* history: the last verdict sent of a path; the successes reported of it;
  \* paths with a result since their build last stopped
  told, reported, answered

activityVars == <<activities, parents, running, completedBuilds, outputs>>
liveVars == <<liveConfirmed, liveNotifications, livePending, stopped>>
budgetVars == <<unknownBudget, liveBudget, stoppedBudget>>
lineVars == <<line, record, delivering, records>>
probeVars == <<live, batch, found>>
threadVars == <<forwarder, main, detached, cancelRequested>>
vars == <<stream, activityVars, confirmed, liveVars, budgetVars, events, lineVars, probeVars,
          queued, threadVars, taken, told, reported, answered>>

Event == [type : {"started", "activityStopped", "provisional", "final", "live", "log"},
          drv : Derivations]

TypeOK ==
  /\ stream \in Streams
  /\ activities \in [Ids -> Activity \cup {None}]
  /\ parents \in [Ids -> Ids \cup {0, None}]
  /\ running \in [Derivations -> 0 .. Cardinality(Ids)]
  /\ completedBuilds \subseteq Derivations /\ outputs \subseteq Derivations
  /\ confirmed \in [Derivations -> Verdict \cup {Conflict, None}]
  /\ liveConfirmed \in [Derivations -> Verdict \cup {None}]
  /\ liveNotifications \subseteq Derivations /\ stopped \subseteq Derivations
  /\ livePending \in Seq(Derivations) /\ batch \in Seq(Derivations)
  /\ unknownBudget \in 0 .. MaxNodes /\ liveBudget \in 0 .. MaxNodes
  /\ stoppedBudget \in 0 .. MaxNodes
  /\ events \in BOOLEAN
  /\ line \in {"idle", "locked", "delivering"}
  /\ record \in Record \cup {None}
  /\ delivering \in Seq(Event) /\ Len(delivering) <= 2
  /\ records \in 0 .. MaxRecords
  /\ live \in {"waiting", "taking", "probing", "confirming", "flushing", "ended"}
  /\ found \subseteq Derivations
  /\ queued \in 0 .. ChannelCapacity
  /\ forwarder \in {"receiving", "ended", "panicked"}
  /\ main \in {"running", "closing", "closed", "joined", "taken"}
  /\ detached \in BOOLEAN /\ cancelRequested \in BOOLEAN
  /\ taken \in [Derivations -> Verdict \cup {None}]
  /\ told \in [Derivations -> {"nothing", "provisional", "live", "final"}]
  /\ reported \in [Derivations -> SUBSET Reports]
  /\ answered \subseteq Derivations

Nothing == [d \in Derivations |-> None]

Init ==
  /\ stream \in Streams
  /\ activities = [i \in Ids |-> None] /\ parents = [i \in Ids |-> None]
  /\ running = [d \in Derivations |-> 0]
  /\ completedBuilds = {} /\ outputs = Required \cap Known
  /\ confirmed = Nothing /\ liveConfirmed = Nothing
  /\ liveNotifications = {} /\ stopped = {} /\ livePending = <<>>
  /\ unknownBudget = MaxNodes /\ liveBudget = MaxNodes /\ stoppedBudget = MaxNodes
  /\ events = TRUE
  /\ line = "idle" /\ record = None /\ delivering = <<>> /\ records = 0
  /\ live = "waiting" /\ batch = <<>> /\ found = {}
  /\ queued = 0
  /\ forwarder = "receiving" /\ main = "running"
  /\ detached = FALSE /\ cancelRequested = FALSE
  /\ taken = Nothing
  /\ told = [d \in Derivations |-> "nothing"]
  /\ reported = [d \in Derivations |-> {}] /\ answered = {}

InSeq(d, s) == \E i \in 1 .. Len(s) : s[i] = d

------------------------------------------------------------------------------
(* ObserverState::emit: refused, full, or sent *)

Disconnected == cancelRequested \/ ~events \/ forwarder # "receiving"
Full == queued = ChannelCapacity

\* The receiver is gone: the sender is dropped, which cancellation does not do.
DropSender == events' = (events /\ (cancelRequested \/ forwarder = "receiving"))

Verdicts(event) == event.type \in {"provisional", "live", "final"}
Telling(told0, event) ==
  IF Verdicts(event) THEN [told0 EXCEPT ![event.drv] = event.type] ELSE told0

------------------------------------------------------------------------------
(* line(): the delivery lock, apply under the state lock, deliver *)

OthersThanLine == UNCHANGED <<stream, probeVars, threadVars, taken>>

\* A callback that outlived the time the supervisor waits for it goes on.
BeginLine ==
  /\ line = "idle"
  /\ main = "running" \/ detached
  /\ records < MaxRecords
  /\ records' = records + 1
  /\ record' \in stream
  /\ line' = "locked"
  /\ UNCHANGED <<activityVars, confirmed, liveVars, budgetVars, events, delivering, queued,
                 told, reported, answered>>
  /\ OthersThanLine

Event1(type, d) == [type |-> type, drv |-> d]

Applied(produced) ==
  /\ delivering' = produced
  /\ line' = "delivering"
  /\ record' = None
  /\ UNCHANGED <<events, records, queued, told>>
  /\ OthersThanLine

Applying(action) == line = "locked" /\ record.action = action

\* parent_derivation: the nearest ancestor with a derivation, in n steps.
Ancestor[n \in 0 .. Cardinality(Ids)] ==
  [i \in Ids \cup {0, None} |->
     IF n = 0 \/ i \in {0, None} THEN None
     ELSE IF activities[i] # None THEN activities[i].drv
     ELSE Ancestor[n - 1][parents[i]]]

\* A copy to a remote store is not this derivation running again.
Attribute(r) ==
  CASE r.kind = "build" -> r.subject
    [] r.kind = "remote" -> None
    [] r.kind = "transfer" /\ r.subject \in outputs -> r.subject
    [] OTHER -> Ancestor[Cardinality(Ids)][r.parent]

IsRunning(i) == activities[i] # None /\ activities[i].running

\* An id that is reported again while it runs is counted again.
StartAgain ==
  LET i == record.id
      d == Attribute(record)
  IN
  /\ Applying("start")
  /\ parents' = [parents EXCEPT ![i] = record.parent]
  /\ \/ /\ d = None
        /\ Applied(<<>>)
        /\ UNCHANGED <<activities, running>>
     \/ /\ d # None
        /\ activities' = [activities EXCEPT ![i] =
             [drv |-> d, transfer |-> record.kind # "build", running |-> TRUE]]
        /\ running' = [running EXCEPT ![d] = @ + 1]
        /\ Applied(IF running[d] = 0 THEN <<Event1("started", d)>> ELSE <<>>)
  /\ UNCHANGED <<completedBuilds, outputs, confirmed, liveVars, budgetVars, reported, answered>>

Start ==
  LET i == record.id
      d == Attribute(record)
  IN
  /\ Applying("start")
  /\ parents' = [parents EXCEPT ![i] = record.parent]
  /\ \/ /\ IsRunning(i) \/ d = None
        /\ Applied(<<>>)
        /\ UNCHANGED <<activities, running>>
     \/ /\ ~IsRunning(i) /\ d # None
        /\ activities' = [activities EXCEPT ![i] =
             [drv |-> d, transfer |-> record.kind # "build", running |-> TRUE]]
        /\ running' = [running EXCEPT ![d] = @ + 1]
        /\ Applied(IF running[d] = 0 THEN <<Event1("started", d)>> ELSE <<>>)
  /\ UNCHANGED <<completedBuilds, outputs, confirmed, liveVars, budgetVars, reported, answered>>

\* The derivation of a build that stopped becomes a candidate of the probe.
Watch(d) ==
  IF d \notin stopped /\ stoppedBudget > 0
  THEN /\ stopped' = stopped \cup {d}
       /\ livePending' = Append(livePending, d)
       /\ stoppedBudget' = stoppedBudget - 1
  ELSE UNCHANGED <<stopped, livePending, stoppedBudget>>

Stop ==
  LET i == record.id
      d == activities[i].drv
      done == completedBuilds \cup {e \in {d} : ~activities[i].transfer}
      last == running[d] = 1
  IN
  /\ Applying("stop")
  /\ parents' = [parents EXCEPT ![i] = None]
  /\ \/ /\ ~IsRunning(i)
        /\ Applied(<<>>)
        /\ UNCHANGED <<activities, running, completedBuilds, stopped, livePending,
                       stoppedBudget, answered>>
     \/ /\ IsRunning(i)
        /\ activities' = [activities EXCEPT ![i].running = FALSE]
        /\ running' = [running EXCEPT ![d] = @ - 1]
        /\ completedBuilds' = IF last THEN done \ {d} ELSE done
        /\ IF last /\ d \in done
           THEN Watch(d) /\ answered' = answered \ {d}
           ELSE UNCHANGED <<stopped, livePending, stoppedBudget, answered>>
        /\ Applied(IF ~last THEN <<>>
                   ELSE IF d \in done
                   THEN <<Event1("activityStopped", d), Event1("provisional", d)>>
                   ELSE <<Event1("activityStopped", d)>>)
  /\ UNCHANGED <<outputs, confirmed, liveConfirmed, liveNotifications, unknownBudget,
                 liveBudget, reported>>

\* Build-log lines keep their derivation after the activity stopped.
Log ==
  LET i == record.id IN
  /\ Applying("log")
  /\ Applied(IF activities[i] = None THEN <<>> ELSE <<Event1("log", activities[i].drv)>>)
  /\ UNCHANGED <<activityVars, confirmed, liveVars, budgetVars, reported, answered>>

------------------------------------------------------------------------------
(* build_result *)

\* What a success amounts to: an authoritative verdict, or a contradiction of
\* what the graph knows.
Outcome(d, report) ==
  IF report.outputs = "own" \/ (report.outputs = "alien" /\ d \notin Graph \cap Known)
  THEN [state |-> report.state, outputs |-> report.outputs, authoritative |-> TRUE]
  ELSE Conflict

\* A removal that does not give the budget back.
RemoveLiveOnly(d) ==
  /\ liveNotifications' = liveNotifications \ {d}
  /\ liveConfirmed' = [liveConfirmed EXCEPT ![d] = None]
  /\ UNCHANGED liveBudget

RemoveLive(d) ==
  /\ liveNotifications' = liveNotifications \ {d}
  /\ liveConfirmed' = [liveConfirmed EXCEPT ![d] = None]
  /\ liveBudget' = liveBudget + (IF liveConfirmed[d] = None THEN 0 ELSE 1)

\* A report that is usable agrees.
AgreesAlways(d, outcome) == outcome # Conflict

\* A verdict the live thread found holds if the report agrees with it, and is
\* authoritative from then on; otherwise it is removed.
AgreesWithLive(d, outcome) ==
  /\ outcome # Conflict
  /\ outcome.outputs = liveConfirmed[d].outputs
  /\ liveConfirmed[d].authoritative => liveConfirmed[d].state = outcome.state

RetainLive(d, outcome) ==
  /\ liveConfirmed[d] # None
  /\ \/ /\ AgreesWithLive(d, outcome)
        /\ liveConfirmed' = [liveConfirmed EXCEPT ![d].state = outcome.state,
                                                  ![d].authoritative = TRUE]
        /\ liveNotifications' = liveNotifications \ {d}
        /\ UNCHANGED liveBudget
     \/ ~AgreesWithLive(d, outcome) /\ RemoveLive(d)
  /\ UNCHANGED <<confirmed, unknownBudget>>

\* A result of the graph, or one of those the budget admits, is kept as long
\* as every later one is the same.
RetainReported(d, outcome) ==
  LET unknown == d \notin Graph /\ confirmed[d] = None IN
  /\ liveConfirmed[d] = None
  /\ \/ /\ unknown /\ (unknownBudget = 0 \/ outcome = Conflict)
        /\ UNCHANGED <<confirmed, unknownBudget>>
     \/ /\ ~unknown \/ (unknownBudget > 0 /\ outcome # Conflict)
        /\ unknownBudget' = unknownBudget - (IF unknown THEN 1 ELSE 0)
        /\ confirmed' = [confirmed EXCEPT ![d] =
             IF @ = None \/ @ = outcome THEN outcome ELSE Conflict]
  /\ liveNotifications' = liveNotifications \ {d}
  /\ UNCHANGED <<liveConfirmed, liveBudget>>

Retain(d, outcome) == RetainLive(d, outcome) \/ RetainReported(d, outcome)

\* The candidates and the pending notification of the path are forgotten.
Settle(d) == stopped' = stopped \ {d} /\ UNCHANGED livePending

Result ==
  LET d == record.drv
      report == record.report
      outcome == Outcome(d, report)
  IN
  /\ Applying("result")
  /\ activities' = [i \in Ids |->
       IF activities[i] # None /\ activities[i].drv = d
       THEN [activities[i] EXCEPT !.running = FALSE] ELSE activities[i]]
  /\ running' = [running EXCEPT ![d] = 0]
  /\ completedBuilds' = completedBuilds \ {d}
  /\ \/ /\ report.success /\ report.state = "Odd"
        /\ Applied(<<>>)
        /\ UNCHANGED <<outputs, confirmed, liveVars, budgetVars, reported, answered>>
     \/ /\ report.success /\ report.state # "Odd"
        /\ Settle(d)
        /\ Retain(d, outcome)
        /\ outputs' = outputs \cup
             {e \in {d} : confirmed'[d] \notin {Conflict, None} \/ liveConfirmed'[d] # None}
        /\ reported' = [reported EXCEPT ![d] = @ \cup {report}]
        /\ answered' = answered \cup {d}
        /\ Applied(<<Event1("final", d)>>)
        /\ UNCHANGED stoppedBudget
     \/ /\ ~report.success
        /\ Settle(d)
        /\ RemoveLive(d)
        /\ answered' = answered \cup {d}
        /\ Applied(<<Event1("final", d)>>)
        /\ UNCHANGED <<outputs, confirmed, unknownBudget, stoppedBudget, reported>>
  /\ UNCHANGED parents

------------------------------------------------------------------------------
(* deliver *)

EndLine == line' = "idle" /\ delivering' = <<>>

DeliverUnchanged ==
  UNCHANGED <<activityVars, confirmed, liveVars, budgetVars, record, records, reported, answered>>

\* One event; a full channel is tried again a millisecond later.
Deliver ==
  /\ line = "delivering"
  /\ \/ /\ delivering = <<>>
        /\ EndLine
        /\ UNCHANGED <<events, queued, told>>
     \/ /\ delivering # <<>> /\ Disconnected
        /\ DropSender
        /\ EndLine
        /\ UNCHANGED <<queued, told>>
     \/ /\ delivering # <<>> /\ ~Disconnected /\ ~Full
        /\ queued' = queued + 1
        /\ told' = Telling(told, Head(delivering))
        /\ delivering' = Tail(delivering)
        /\ UNCHANGED <<events, line>>
  /\ DeliverUnchanged
  /\ OthersThanLine

------------------------------------------------------------------------------
(* The live thread *)

LiveUnchanged ==
  UNCHANGED <<stream, activityVars, confirmed, unknownBudget, stoppedBudget, lineVars, threadVars,
              taken, reported, answered>>

\* The token of CloseObserver, requested before the observer is closed.
LiveStopped == main # "running" \/ cancelRequested

\* The delivery lock is not looked at.
FlushAnyway ==
  \/ /\ Disconnected
     /\ DropSender
     /\ UNCHANGED <<liveNotifications, queued, told>>
  \/ /\ ~Disconnected
     /\ \E sent \in SUBSET liveNotifications :
          LET room == ChannelCapacity - queued IN
          /\ Cardinality(sent) <= room
          /\ sent = liveNotifications \/ Cardinality(sent) = room
          /\ queued' = queued + Cardinality(sent)
          /\ told' = [d \in Derivations |-> IF d \in sent THEN "live" ELSE told[d]]
          /\ liveNotifications' = liveNotifications \ sent
     /\ UNCHANGED events

\* flush_live_notifications: as many as the channel takes, unless a line is
\* being delivered; the rest stays for the next round.
Flush ==
  \/ /\ line # "idle" \/ liveNotifications = {}
     /\ UNCHANGED <<liveNotifications, queued, told, events>>
  \/ /\ line = "idle" /\ liveNotifications # {}
     /\ Disconnected
     /\ DropSender
     /\ UNCHANGED <<liveNotifications, queued, told>>
  \/ /\ line = "idle" /\ liveNotifications # {}
     /\ ~Disconnected
     /\ \E sent \in SUBSET liveNotifications :
          LET room == ChannelCapacity - queued IN
          /\ Cardinality(sent) <= room
          /\ sent = liveNotifications \/ Cardinality(sent) = room
          /\ queued' = queued + Cardinality(sent)
          /\ told' = [d \in Derivations |-> IF d \in sent THEN "live" ELSE told[d]]
          /\ liveNotifications' = liveNotifications \ sent
     /\ UNCHANGED events

\* recv_timeout: the round begins, unless the run is over.
Tick ==
  /\ live = "waiting"
  /\ ~LiveStopped
  /\ Flush
  /\ live' = IF Rebuild THEN "waiting" ELSE "taking"
  /\ LiveUnchanged
  /\ UNCHANGED <<liveConfirmed, livePending, stopped, liveBudget, batch, found>>

LiveEnds ==
  /\ live = "waiting"
  /\ LiveStopped
  /\ live' = "ended"
  /\ LiveUnchanged
  /\ UNCHANGED <<liveVars, liveBudget, events, queued, told, batch, found>>

\* live_batch of 128: all there are.
TakeBatch ==
  /\ live = "taking"
  /\ batch' = livePending
  /\ livePending' = <<>>
  /\ live' = "probing"
  /\ LiveUnchanged
  /\ UNCHANGED <<liveConfirmed, liveNotifications, stopped, liveBudget, events, queued, told,
                 found>>

\* Paths whose outputs the live thread can look up.
Candidates == {d \in Known : InSeq(d, batch) /\ (d \in Graph => d \in Required)}

\* probe_stopped_outputs: the store has some of the outputs, or the probe
\* fails, is out of time or is stopped.
Probe ==
  /\ live = "probing"
  /\ found' \in IF LiveStopped THEN {{}} ELSE SUBSET Candidates
  /\ live' = "confirming"
  /\ LiveUnchanged
  /\ UNCHANGED <<liveVars, liveBudget, events, queued, told, batch>>

Confirmable(d) == d \in stopped /\ confirmed[d] = None /\ liveConfirmed[d] = None

\* confirm_live of one path ...
Confirm ==
  /\ live = "confirming"
  /\ \E d \in found :
       /\ found' = found \ {d}
       /\ \/ /\ Confirmable(d) /\ liveBudget > 0
             /\ liveBudget' = liveBudget - 1
             /\ liveConfirmed' = [liveConfirmed EXCEPT ![d] =
                  [state |-> "Realized", outputs |-> "own", authoritative |-> FALSE]]
             /\ liveNotifications' = liveNotifications \cup {d}
             /\ live' = "flushing"
          \/ /\ ~Confirmable(d) \/ liveBudget = 0
             /\ UNCHANGED <<liveBudget, liveConfirmed, liveNotifications, live>>
  /\ LiveUnchanged
  /\ UNCHANGED <<livePending, stopped, events, queued, told, batch>>

\* ... and the flush at its end.
ConfirmFlushes ==
  /\ live = "flushing"
  /\ Flush
  /\ live' = "confirming"
  /\ LiveUnchanged
  /\ UNCHANGED <<liveConfirmed, livePending, stopped, liveBudget, batch, found>>

\* retry_live: the candidates that are left go behind the others.
Retried[n \in 0 .. Len(batch)] ==
  IF n = 0 THEN livePending
  ELSE IF Confirmable(batch[n]) THEN Append(Retried[n - 1], batch[n])
  ELSE Retried[n - 1]

RetryLive ==
  /\ live = "confirming"
  /\ found = {}
  /\ livePending' = Retried[Len(batch)]
  /\ batch' = <<>>
  /\ live' = "waiting"
  /\ LiveUnchanged
  /\ UNCHANGED <<liveConfirmed, liveNotifications, stopped, liveBudget, events, queued, told,
                 found>>

------------------------------------------------------------------------------
(* The forwarder, the main thread, cancellation *)

observerVars == <<stream, activityVars, confirmed, liveVars, budgetVars, lineVars, probeVars,
                  taken, told, reported, answered>>

Forward ==
  /\ forwarder = "receiving"
  /\ \/ queued > 0 /\ queued' = queued - 1 /\ UNCHANGED forwarder
     \/ queued = 0 /\ ~events /\ forwarder' = "ended" /\ UNCHANGED queued
  /\ UNCHANGED <<observerVars, events, main, detached, cancelRequested>>

\* The progress sink panics: the receiver is dropped.
ForwarderPanics ==
  /\ forwarder = "receiving" /\ queued > 0
  /\ forwarder' = "panicked"
  /\ queued' = 0
  /\ UNCHANGED <<observerVars, events, main, detached, cancelRequested>>

MainUnchanged == UNCHANGED <<observerVars, queued, forwarder, cancelRequested>>

\* run() returns: after the last line, or, when the callback could not be
\* waited for any longer, in the middle of one.  The token is requested.
RunReturns ==
  /\ main = "running"
  /\ main' = "closing"
  /\ detached' \in {line # "idle", TRUE}
  /\ MainUnchanged
  /\ UNCHANGED events

\* The observer is left open.
CloseNothing ==
  /\ main = "closing"
  /\ main' = "closed"
  /\ MainUnchanged
  /\ UNCHANGED <<detached, events>>

Close ==
  /\ main = "closing"
  /\ main' = "closed"
  /\ events' = FALSE
  /\ MainUnchanged
  /\ UNCHANGED detached

\* The forwarder is joined, then the live thread at the end of the scope.
JoinThreads ==
  /\ main = "closed"
  /\ forwarder # "receiving" /\ live = "ended"
  /\ main' = "joined"
  /\ MainUnchanged
  /\ UNCHANGED <<events, detached>>

\* take_confirmed: what was reported comes before what was found.
Take ==
  /\ main = "joined"
  /\ main' = "taken"
  /\ taken' = [d \in Derivations |->
       IF confirmed[d] = None THEN liveConfirmed[d]
       ELSE IF confirmed[d] = Conflict THEN None ELSE confirmed[d]]
  /\ confirmed' = Nothing /\ liveConfirmed' = Nothing /\ liveNotifications' = {}
  /\ UNCHANGED <<stream, activityVars, livePending, stopped, budgetVars, events, lineVars,
                 probeVars, queued, forwarder, detached, cancelRequested, told, reported, answered>>

RequestCancel ==
  /\ ~cancelRequested
  /\ cancelRequested' = TRUE
  /\ UNCHANGED <<observerVars, events, queued, forwarder, main, detached>>

Line == BeginLine \/ Start \/ Stop \/ Log \/ Result \/ Deliver
Live == Tick \/ LiveEnds \/ TakeBatch \/ Probe \/ Confirm \/ ConfirmFlushes \/ RetryLive
Main == RunReturns \/ Close \/ JoinThreads \/ Take

Next == Line \/ Live \/ Forward \/ ForwarderPanics \/ Main \/ RequestCancel

Spec == Init /\ [][Next]_vars

\* Every thread runs, a probe ends (it has a deadline of its own), and the
\* sink takes what it is given.  Nix need not end and need not report.
FairSpec ==
  /\ Spec
  /\ WF_vars(Start \/ Stop \/ Log \/ Result \/ Deliver)
  /\ WF_vars(Live) /\ WF_vars(Forward)
  /\ WF_vars(Close \/ JoinThreads \/ Take)

------------------------------------------------------------------------------
(* Properties *)

\* The count of a derivation is the number of its activities that run, also
\* after ids were used again and after a result settled them: stop never
\* takes one from zero, and "started" is sent when the first one starts.
CountsAgree ==
  \A d \in Derivations :
    running[d] = Cardinality({i \in Ids : IsRunning(i) /\ activities[i].drv = d})

\* The budgets bound what is retained and nothing leaks from them: every live
\* verdict holds one unit of its budget, so does every result from outside
\* the graph, and the probe's queue never grows beyond the units spent on it;
\* and a candidate is not lost between the queue, the batch and the verdicts,
\* even when its probe failed or its budget was spent.
Watched(d) == \/ InSeq(d, livePending) \/ InSeq(d, batch)
              \/ confirmed[d] # None \/ liveConfirmed[d] # None
BudgetsConserved ==
  /\ TypeOK
  /\ main = "running" => \A d \in stopped : Watched(d)
  /\ main # "taken" =>
    /\ liveBudget + Cardinality({d \in Derivations : liveConfirmed[d] # None}) = MaxNodes
    /\ unknownBudget + Cardinality({d \in Derivations \ Graph : confirmed[d] # None}) = MaxNodes
    /\ stoppedBudget + Len(livePending) + Len(batch) <= MaxNodes

\* A consumer of the progress is never told a live success before the build
\* activity's own end, nor after a definitive result, whatever the channel
\* held up and the probe found meanwhile.
LiveComesBetween ==
  [][\A d \in Derivations :
       told'[d] = "live" /\ told[d] # "live" => told[d] = "provisional"]_vars

\* What the caller gets was reported by Nix with that state and those outputs,
\* or was found in the store for a build of which Nix reported neither a
\* success nor a failure since it last stopped; the two never stand for the
\* same path, so that taking both cannot let one shadow the other.
VerdictIsReported ==
  \A d \in Derivations :
    /\ confirmed[d] = None \/ liveConfirmed[d] = None
    /\ taken[d] # None /\ ~detached =>
         IF taken[d].authoritative
         THEN \E r \in reported[d] : r.state = taken[d].state /\ r.outputs = taken[d].outputs
         ELSE d \notin answered

\* What activity_test.rs says of contradicting results: once the results of a
\* derivation of the graph contradict each other, it stays rejected.
ConflictStaysRejected ==
  \A d \in Graph : taken[d] # None /\ taken[d].authoritative /\ ~detached =>
    \A r \in reported[d] : Outcome(d, r) = taken[d]

\* Closing ends every thread, with a line in the middle of a full channel, a
\* probe under way and a forwarder that may have died.
TeardownEnds == main # "running" ~> main = "taken"

==============================================================================
