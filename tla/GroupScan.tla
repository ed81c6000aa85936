------------------------------- MODULE GroupScan -------------------------------
(***************************************************************************)
(* GroupWatch::refresh of crates/nix-tools-core/src/process/event.rs on    *)
(* Linux: the walk of group_linux.rs through /proc and the descriptors it  *)
(* opens, while the members of the group fork, leave, exit and are reaped  *)
(* and the rest of the system does the same.  Supervisor takes all of this *)
(* as one step; EmptyMeansGone is what it relies on.                       *)
(*                                                                         *)
(* The kernel lists numbers in ascending order, several at a time, and     *)
(* gives a new process the next free number, from the start again after    *)
(* the last one.  The number of a group is not given away while the group  *)
(* has a process or a zombie.  Nobody joins the group from outside.        *)
(***************************************************************************)
EXTENDS Naturals

CONSTANTS
  MaxPid,  \* /proc/sys/kernel/pid_max
  Leader   \* the child, whose number the group has

ASSUME GroupScanAssumption == MaxPid \in Nat /\ Leader \in 1..MaxPid

Pids == 1..MaxPid

VARIABLES
  process,   \* what a number stands for
  last,      \* the number given last
  phase,     \* where refresh stands
  second,    \* this is the second walk
  cursor,    \* the last number listed
  buffer,    \* listed and not read yet
  members,   \* what the walk found
  unwatched, \* members without a descriptor yet
  watched,   \* numbers with a descriptor
  live,      \* what refresh returns
  behind     \* history: a member was born at a number the walk had passed

scanVars == <<phase, second, cursor, buffer, members, unwatched, watched, live>>
groupVars == <<process, last, scanVars, behind>>

ScanTypeOK ==
  /\ process \in [Pids -> {"free", "member", "zombie", "other"}]
  /\ last \in Pids
  /\ phase \in {"start", "list", "read", "watch", "done"}
  /\ second \in BOOLEAN /\ live \in BOOLEAN /\ behind \in BOOLEAN
  /\ cursor \in 0..MaxPid
  /\ buffer \subseteq Pids /\ members \subseteq Pids
  /\ unwatched \subseteq Pids /\ watched \subseteq Pids

Members == {p \in Pids : process[p] = "member"}
Group == {p \in Pids : process[p] \in {"member", "zombie"}}

ScanInit ==
  /\ process \in [Pids -> {"free", "member", "zombie", "other"}]
  /\ last \in Pids
  /\ phase = "start" /\ second = FALSE
  /\ cursor = 0 /\ buffer = {} /\ members = {}
  /\ unwatched = {} /\ watched = {}
  /\ live = TRUE
  /\ behind = FALSE

Least(p, S) == p \in S /\ \A q \in S : p <= q

--------------------------------------------------------------------------------
(* GroupWatch::refresh *)

SystemUnchanged == UNCHANGED <<process, last>>

RefreshReturns(isLive, descriptors) ==
  /\ phase' = "done" /\ live' = isLive /\ watched' = descriptors
  /\ UNCHANGED <<second, cursor, buffer, members, unwatched, behind>>

\* An error of any call: refresh_group takes the group for live and watches nobody.
GiveUp == RefreshReturns(TRUE, {})

\* group_exists
Start ==
  /\ phase = "start"
  /\ IF Group = {} THEN RefreshReturns(FALSE, {})
     ELSE phase' = "list" /\ UNCHANGED <<second, cursor, buffer, members, unwatched, watched, live,
                                      behind>>
  /\ SystemUnchanged

\* The kernel puts one more number in the buffer of read_dir.
ListNext ==
  /\ phase = "list"
  /\ \E p \in Pids :
       /\ Least(p, {q \in Pids : q > cursor /\ process[q] # "free"})
       /\ cursor' = p /\ buffer' = buffer \cup {p}
  /\ SystemUnchanged
  /\ UNCHANGED <<phase, second, members, unwatched, watched, live, behind>>

\* The buffer is full, or there is nothing more for now.
ListReturns ==
  /\ phase = "list" /\ buffer # {}
  /\ phase' = "read"
  /\ SystemUnchanged
  /\ UNCHANGED <<second, cursor, buffer, members, unwatched, watched, live, behind>>

\* Mutant: a process that is gone ends the walk.
ReadUntilGone ==
  /\ phase = "read"
  /\ \E p \in Pids :
       /\ Least(p, buffer)
       /\ members' = members \cup IF process[p] = "member" THEN {p} ELSE {}
       /\ buffer' = IF process[p] = "free" THEN {} ELSE buffer \ {p}
       /\ cursor' = IF process[p] = "free" THEN MaxPid ELSE cursor
  /\ phase' = IF buffer' = {} THEN "list" ELSE "read"
  /\ SystemUnchanged
  /\ UNCHANGED <<second, unwatched, watched, live, behind>>

\* One stat and live_in_group: a process that is gone is skipped, and zombies and what
\* is not of the group do not count.
ReadStat ==
  /\ phase = "read"
  /\ \E p \in Pids :
       /\ Least(p, buffer)
       /\ members' = members \cup IF process[p] = "member" THEN {p} ELSE {}
       /\ buffer' = buffer \ {p}
  /\ phase' = IF buffer' = {} THEN "list" ELSE "read"
  /\ SystemUnchanged
  /\ UNCHANGED <<second, cursor, unwatched, watched, live, behind>>

\* A stat can fail otherwise, when the process goes while it is read, and so can a listing.
ReadFails ==
  /\ phase \in {"list", "read"}
  /\ GiveUp
  /\ SystemUnchanged

\* group_members returns.
WalkEnds ==
  /\ phase = "list" /\ buffer = {}
  /\ \A p \in Pids : p > cursor => process[p] = "free"
  /\ IF second \/ members = {} THEN RefreshReturns(members # {}, {})
     ELSE /\ phase' = "watch" /\ unwatched' = members \ {Leader}
          /\ UNCHANGED <<second, cursor, buffer, members, watched, live, behind>>
  /\ SystemUnchanged

\* watch: a process that is gone, or a kernel without descriptors, gives none.
Watch ==
  /\ phase = "watch"
  /\ \E p \in Pids :
       /\ Least(p, unwatched)
       /\ unwatched' = unwatched \ {p}
       /\ \/ watched' = watched
          \/ process[p] # "free" /\ watched' = watched \cup {p}
  /\ SystemUnchanged
  /\ UNCHANGED <<phase, second, cursor, buffer, members, live, behind>>

WatchFails ==
  /\ phase = "watch" /\ unwatched # {}
  /\ GiveUp
  /\ SystemUnchanged

WalkAgain ==
  /\ phase' = "list"
  /\ cursor' = 0 /\ members' = {} /\ behind' = FALSE
  /\ UNCHANGED <<buffer, unwatched, watched, live>>

\* With nobody to watch the group is walked through once more.
WatchEnds ==
  /\ phase = "watch" /\ unwatched = {}
  /\ IF watched # {} THEN RefreshReturns(TRUE, watched) ELSE WalkAgain /\ second' = TRUE
  /\ SystemUnchanged

Refresh == Start \/ ListNext \/ ListReturns \/ ReadStat \/ ReadFails \/ WalkEnds \/ Watch
           \/ WatchFails \/ WatchEnds

--------------------------------------------------------------------------------
(* The processes *)

Givable == {p \in Pids : process[p] = "free" /\ (p = Leader => Group = {})}

\* The next number after the last one, or else the smallest.
Next1(p) ==
  \/ Least(p, {q \in Givable : q > last})
  \/ Least(p, Givable) /\ \A q \in Givable : q <= last

Birth(kind) ==
  \E p \in Pids :
    /\ Next1(p)
    /\ process' = [process EXCEPT ![p] = kind]
    /\ last' = p
    /\ behind' = (behind \/ (kind = "member" /\ p <= cursor))

MemberForks == Members # {} /\ Birth("member") /\ UNCHANGED scanVars
OtherForks == Birth("other") /\ UNCHANGED scanVars

Becomes(from, to) ==
  /\ \E p \in Pids : process[p] = from /\ process' = [process EXCEPT ![p] = to]
  /\ UNCHANGED <<last, scanVars, behind>>

MemberExits == Becomes("member", "zombie")
Reap == Becomes("zombie", "free")
OtherDies == Becomes("other", "free")
\* setpgid or setsid.
Leave == Becomes("member", "other")

ScanNext == Refresh \/ MemberForks \/ OtherForks \/ MemberExits \/ Reap \/ OtherDies \/ Leave

ScanSpec == ScanInit /\ [][ScanNext]_groupVars

--------------------------------------------------------------------------------
(* Properties *)

\* A group that refresh takes for gone has no running member left, although its members
\* forked and died around the walk, unless one was born at a number the walk had passed.
EmptyMeansGone == phase = "done" /\ ~live => Members = {} \/ behind

\* Why: what runs and was not found is still to be listed or read.
StillToCome ==
  \A p \in Members : phase \in {"list", "read"} /\ members = {} /\ ~behind =>
                       p > cursor \/ p \in buffer
================================================================================
