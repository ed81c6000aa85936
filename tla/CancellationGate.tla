--------------------------- MODULE CancellationGate ---------------------------
(***************************************************************************)
(* The cancellation token every runner, publisher and guarded write        *)
(* shares: CancellationGate, CommitGuard and Cancellation in               *)
(* crates/nix-tools-core/src/process.rs.                                   *)
(*                                                                         *)
(* Each section of code that holds the gate's mutex is one action.  The    *)
(* condition variable is explicit: a thread inside Condvar::wait is        *)
(* "waiting" and makes no step until a notification makes it "woken".      *)
(***************************************************************************)
EXTENDS FiniteSets

CONSTANTS
  Requesters,  \* threads that call request
  Committers,  \* threads that call commit_if_not_cancelled
  Watchers,    \* process supervisors that subscribe a wake-up socket
  Signals,     \* signal numbers
  NoSignal     \* Option::None

ASSUME NoSignalAssumption == NoSignal \notin Signals

VARIABLES
  signal, pendingSignal,  \* the two options of the gate
  committing,             \* a commit closure is running
  wakeups,                \* watchers whose writer is in the gate's list
  socket,                 \* per watcher: its wake-up socket
  requester,              \* per requester: where its call stands
  committer               \* per committer: where its call stands

vars == <<signal, pendingSignal, committing, wakeups, socket, requester, committer>>

RequesterStates == {"idle", "waiting", "woken", "returned"}
CommitterStates == {"idle", "waiting", "woken", "running"}
SocketStates == {"closed", "open", "shut"}

OptionalSignal == Signals \cup {NoSignal}

\* The types, and what the two options mean together: a signal is pending only
\* while a commit delays it, and never beside a settled one.
TypeOK ==
  /\ signal \in OptionalSignal
  /\ pendingSignal \in OptionalSignal
  /\ committing \in BOOLEAN
  /\ pendingSignal # NoSignal => committing /\ signal = NoSignal
  /\ wakeups \subseteq Watchers
  /\ socket \in [Watchers -> SocketStates]
  /\ requester \in [Requesters -> RequesterStates]
  /\ committer \in [Committers -> CommitterStates]

Or(first, second) == IF first # NoSignal THEN first ELSE second

\* Cancellation::signal: what an observer of the token reads.
Visible == Or(signal, pendingSignal)

Init ==
  /\ signal = NoSignal
  /\ pendingSignal = NoSignal
  /\ committing = FALSE
  /\ wakeups = {}
  /\ socket = [w \in Watchers |-> "closed"]
  /\ requester = [r \in Requesters |-> "idle"]
  /\ committer = [c \in Committers |-> "idle"]

------------------------------------------------------------------------------
(* Cancellation::request *)

\* The value of pending_signal once the request has entered the gate.
FirstRequest(s) == IF Visible = NoSignal THEN s ELSE pendingSignal

\* Live writers are shut down and kept; dead ones leave the list.
ShutWakeups ==
  /\ socket' = [w \in Watchers |->
                  IF w \in wakeups /\ socket[w] = "open" THEN "shut" ELSE socket[w]]
  /\ wakeups' = {w \in wakeups : socket[w] # "closed"}

\* The end of request: the pending signal becomes the signal.
SettleRequest(r, pending) ==
  /\ signal' = Or(signal, pending)
  /\ pendingSignal' = NoSignal
  /\ requester' = [requester EXCEPT ![r] = "returned"]

\* A request that does not wait for the commit it finds under way.
RequestAtOnce(r, s) ==
  /\ requester[r] = "idle"
  /\ ShutWakeups
  /\ SettleRequest(r, FirstRequest(s))
  /\ UNCHANGED <<committing, committer>>

Request(r, s) ==
  /\ requester[r] = "idle"
  /\ ShutWakeups
  /\ \/ /\ committing
        /\ pendingSignal' = FirstRequest(s)
        /\ requester' = [requester EXCEPT ![r] = "waiting"]
        /\ UNCHANGED signal
     \/ /\ ~committing
        /\ SettleRequest(r, FirstRequest(s))
  /\ UNCHANGED <<committing, committer>>

\* A notified requester takes the mutex again and tests its condition.
ResumeRequest(r) ==
  /\ requester[r] = "woken"
  /\ \/ /\ committing
        /\ requester' = [requester EXCEPT ![r] = "waiting"]
        /\ UNCHANGED <<signal, pendingSignal>>
     \/ /\ ~committing
        /\ SettleRequest(r, pendingSignal)
  /\ UNCHANGED <<committing, committer, wakeups, socket>>

------------------------------------------------------------------------------
(* Cancellation::commit_if_not_cancelled *)

\* The body after the lock is taken: wait behind a commit, refuse, or begin.
EnterCommit(c) ==
  \/ /\ committing
     /\ committer' = [committer EXCEPT ![c] = "waiting"]
     /\ UNCHANGED committing
  \/ /\ ~committing
     /\ Visible # NoSignal
     /\ committer' = [committer EXCEPT ![c] = "idle"]
     /\ UNCHANGED committing
  \/ /\ ~committing
     /\ Visible = NoSignal
     /\ committing' = TRUE
     /\ committer' = [committer EXCEPT ![c] = "running"]

Commit(c) ==
  /\ committer[c] = "idle"
  /\ EnterCommit(c)
  /\ UNCHANGED <<signal, pendingSignal, wakeups, socket, requester>>

ResumeCommit(c) ==
  /\ committer[c] = "woken"
  /\ EnterCommit(c)
  /\ UNCHANGED <<signal, pendingSignal, wakeups, socket, requester>>

\* A commit that ends without waking the requests behind it.
NotifyNoRequester == requester

\* notify_all: every thread inside Condvar::wait becomes runnable.
NotifyRequesters ==
  [r \in Requesters |-> IF requester[r] = "waiting" THEN "woken" ELSE requester[r]]
NotifyCommitters(c) ==
  [d \in Committers |->
     IF d = c THEN "idle"
     ELSE IF committer[d] = "waiting" THEN "woken" ELSE committer[d]]

\* The end of a commit that forgets the request it delayed, or leaves it pending.
FinishForgets(c) ==
  /\ committer[c] = "running"
  /\ committing' = FALSE
  /\ pendingSignal' = NoSignal
  /\ requester' = NotifyRequesters
  /\ committer' = NotifyCommitters(c)
  /\ UNCHANGED <<signal, wakeups, socket>>
\* CommitGuard::drop, after the closure returns or while it unwinds.
FinishCommit(c) ==
  /\ committer[c] = "running"
  /\ committing' = FALSE
  /\ signal' = Or(signal, pendingSignal)
  /\ pendingSignal' = NoSignal
  /\ requester' = NotifyRequesters
  /\ committer' = NotifyCommitters(c)
  /\ UNCHANGED <<wakeups, socket>>

------------------------------------------------------------------------------
(* Cancellation::subscribe *)

\* A late subscriber that is not told of the cancellation it missed.
SubscribeUnchecked(w) ==
  /\ socket[w] = "closed"
  /\ wakeups' = {v \in wakeups : socket[v] # "closed"} \cup {w}
  /\ socket' = [socket EXCEPT ![w] = "open"]
  /\ UNCHANGED <<signal, pendingSignal, committing, requester, committer>>

Subscribe(w) ==
  /\ socket[w] = "closed"
  /\ wakeups' = {v \in wakeups : socket[v] # "closed"} \cup {w}
  /\ socket' = [socket EXCEPT ![w] = IF Visible # NoSignal THEN "shut" ELSE "open"]
  /\ UNCHANGED <<signal, pendingSignal, committing, requester, committer>>

\* The supervisor drops its Arc: the list keeps a dead weak reference.
Unsubscribe(w) ==
  /\ socket[w] # "closed"
  /\ socket' = [socket EXCEPT ![w] = "closed"]
  /\ UNCHANGED <<signal, pendingSignal, committing, wakeups, requester, committer>>

------------------------------------------------------------------------------
Next ==
  \/ \E r \in Requesters : ResumeRequest(r) \/ \E s \in Signals : Request(r, s)
  \/ \E c \in Committers : Commit(c) \/ ResumeCommit(c) \/ FinishCommit(c)
  \/ \E w \in Watchers : Subscribe(w) \/ Unsubscribe(w)

\* A runnable thread obtains the mutex in the end, and a commit closure (a
\* rename, an object put, a fork) comes to an end.  Nothing forces a call.
Fairness ==
  /\ \A r \in Requesters : WF_vars(ResumeRequest(r))
  /\ \A c \in Committers : WF_vars(ResumeCommit(c)) /\ WF_vars(FinishCommit(c))

Spec == Init /\ [][Next]_vars
FairSpec == Spec /\ Fairness

------------------------------------------------------------------------------
(* Properties *)

Running == {c \in Committers : committer[c] = "running"}
Returned == {r \in Requesters : requester[r] = "returned"}

\* A caller of request may rely on this: once its call has returned, no
\* commit is under way and the token shows a signal, although other threads
\* were entering, waiting at and leaving the gate all along.
RequestWaitsForCommit ==
  Returned # {} => Running = {} /\ ~committing /\ signal # NoSignal

\* A supervisor asleep in poll is never left behind: a socket that is still
\* open means no cancellation is visible, whether the supervisor subscribed
\* before, during or after the request.
SubscribersAreWoken ==
  \A w \in Watchers : socket[w] = "open" => w \in wakeups /\ Visible = NoSignal

\* Whoever sleeps on the condition variable sleeps behind a commit whose end
\* will notify it: no thread re-checks its condition and falls asleep after
\* the last notification was sent.
SleepersHaveACommit ==
  (\E r \in Requesters : requester[r] = "waiting")
    \/ (\E c \in Committers : committer[c] = "waiting")
  => Running # {}

\* The gate keeps the promise of the comment on Cancellation: commits and
\* cancellation are totally ordered and the first signal is final.
Order == INSTANCE CommitOrder WITH
  winner <- Visible, active <- Running, returned <- Returned
ImplementsCommitOrder == Order!Spec

\* Nobody waits for ever: no request behind a commit, since the notification
\* that ends the commit reaches it and no later commit can take the gate before
\* it, and, once cancelled, none of the threads queued for the gate.
NobodyWaitsForEver ==
  /\ \A r \in Requesters : requester[r] \in {"waiting", "woken"} ~> requester[r] = "returned"
  /\ \A c \in Committers :
       (Visible # NoSignal /\ committer[c] \in {"waiting", "woken"}) ~> committer[c] = "idle"

==============================================================================
