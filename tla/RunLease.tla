------------------------------ MODULE RunLease ------------------------------
(***************************************************************************)
(* The run lease of backend/core/state_store.py: one row of the            *)
(* WorkerState table, shared by every host instance of the Function App,   *)
(* that lets at most one invocation execute the pipeline.                  *)
(*                                                                         *)
(* Every call of the table SDK is an action of its own, because the        *)
(* invocations of other host instances run between two of them.  Inside    *)
(* one host process StateStore._lock makes try_acquire_run_lease and       *)
(* release_run_lease indivisible with respect to each other.               *)
(*                                                                         *)
(* An invocation writes the row at most once, so the row's ETag is         *)
(* represented by the invocation that wrote it last.                       *)
(***************************************************************************)
EXTENDS Integers, FiniteSets

CONSTANTS
  Wake,             \* invocations of the worker (timer and process-now)
  NoWake,           \* "no invocation"
  Host,             \* host processes of the Function App
  HostOf,           \* the process each invocation runs in
  StaleAfter,       \* RUN_LEASE_STALE_S, in ticks
  MaxRun,           \* the longest an invocation lives before the host kills it
  MaxSkew,          \* how far a host's clock may be from real time
  MaxTime,          \* bound: ticks explored
  MaxFaults,        \* bound: storage calls that raise
  MaxKills          \* bound: host processes killed

ASSUME LeaseConstants ==
  /\ NoWake \notin Wake
  /\ HostOf \in [Wake -> Host]
  /\ StaleAfter \in Nat /\ MaxRun \in Nat /\ MaxSkew \in Nat /\ MaxTime \in Nat
  /\ MaxFaults \in Nat /\ MaxKills \in Nat

(* An invocation is dead before anybody may judge its lease stale.  The    *)
(* deployed values: host.json sets no functionTimeout, so the host kills   *)
(* at 300 s; RUN_LEASE_STALE_S is 600; the clocks may be 150 s off.        *)
ASSUME StaleOutlivesRun == MaxRun + 2 * MaxSkew <= StaleAfter

VARIABLES
  now,      \* real time
  row,      \* the run_lock row: NoRow, or who wrote it and its `at` property
  pc,       \* where each invocation is
  begun,    \* real time at which the invocation read its clock
  stamp,    \* what the clock said: the `now` argument of try_acquire_run_lease
  seen,     \* the ETag get_entity returned to the invocation
  faults,   \* storage calls that have raised
  kills     \* host processes killed

vars == <<now, row, pc, begun, stamp, seen, faults, kills>>

NoRow == [by |-> NoWake, at |-> 0]

(* "ended" is the normal end of the with-block, "busy" is RunBusyError,    *)
(* "failed" is any other exception, "killed" the death of the host.        *)
Acquiring == {"get", "replace"}
Releasing == {"redelete"}
InLock    == Acquiring \union Releasing
Over      == {"ended", "busy", "failed", "killed"}
PCs       == {"idle", "create", "run", "exit"} \union InLock \union Over

(* The invocations inside the with-block of run_lease.                     *)
Holding(w) == pc[w] \in {"run", "exit"}
Live(w)    == pc[w] \notin {"idle"} \union Over

TypeOK ==
  /\ now \in 0..MaxTime
  /\ row \in [by : Wake \union {NoWake}, at : Int]
  /\ pc \in [Wake -> PCs]
  /\ begun \in [Wake -> Nat]
  /\ stamp \in [Wake -> Int]
  /\ seen \in [Wake -> Wake \union {NoWake}]
  /\ faults \in 0..MaxFaults
  /\ kills \in 0..MaxKills

Init ==
  /\ now = 0
  /\ row = NoRow
  /\ pc = [w \in Wake |-> "idle"]
  /\ begun = [w \in Wake |-> 0]
  /\ stamp = [w \in Wake |-> 0]
  /\ seen = [w \in Wake |-> NoWake]
  /\ faults = 0
  /\ kills = 0
-----------------------------------------------------------------------------
(* StateStore._lock: the other invocations of this process are outside the *)
(* locked sections.                                                        *)
LockFree(w) ==
  \A v \in Wake \ {w} : HostOf[v] = HostOf[w] => pc[v] \notin InLock

Goto(w, label) == pc' = [pc EXCEPT ![w] = label]

Raise(w) ==
  /\ faults < MaxFaults
  /\ faults' = faults + 1
  /\ Goto(w, "failed")

(* The row as create_entity and update_entity write it.                    *)
Entity(w) == [by |-> w, at |-> stamp[w]]

(* run_lease() evaluates datetime.now(UTC), then calls                     *)
(* try_acquire_run_lease with it.                                          *)
ReadClock(w) ==
  /\ pc[w] = "idle"
  /\ begun' = [begun EXCEPT ![w] = now]
  /\ \E d \in -MaxSkew..MaxSkew : stamp' = [stamp EXCEPT ![w] = now + d]
  /\ Goto(w, "create")
  /\ UNCHANGED <<now, row, seen, faults, kills>>

(* create_entity: insert-if-absent is the acquire.                         *)
CreateWins(w) ==
  /\ pc[w] = "create" /\ LockFree(w)
  /\ row = NoRow
  /\ row' = Entity(w)
  /\ Goto(w, "run")
  /\ UNCHANGED <<now, begun, stamp, seen, faults, kills>>

(* ResourceExistsError: go on, under the lock, to read the row.            *)
CreateExists(w) ==
  /\ pc[w] = "create" /\ LockFree(w)
  /\ row # NoRow
  /\ Goto(w, "get")
  /\ UNCHANGED <<now, row, begun, stamp, seen, faults, kills>>

(* create_entity inserted the row but its answer was lost: the transport's *)
(* retry meets the invocation's own row (ResourceExistsError), or all the  *)
(* retries fail and the call raises.  Nobody holds the row it left.        *)
CreateAnswerLost(w) ==
  /\ pc[w] = "create" /\ LockFree(w)
  /\ row = NoRow
  /\ row' = Entity(w)
  /\ faults < MaxFaults /\ faults' = faults + 1
  /\ \E label \in {"get", "failed"} : Goto(w, label)
  /\ UNCHANGED <<now, begun, stamp, seen, kills>>

CreateRaises(w) ==
  /\ pc[w] = "create" /\ LockFree(w)
  /\ Raise(w)
  /\ UNCHANGED <<now, row, begun, stamp, seen, kills>>

(* Faulty: the window is the function timeout, with no room for the clocks.*)
StaleTooEarly(w, at) == stamp[w] - at > MaxRun

(* Faulty: a dead holder's row is never stale.                             *)
StaleNever(w, at) == FALSE

(* (now - held_since).total_seconds() <= RUN_LEASE_STALE_S, negated.       *)
Stale(w, at) == stamp[w] - at > StaleAfter

(* Faulty: the busy exit runs through the finally clause and releases.     *)
GetFreshReleases(w) ==
  /\ pc[w] = "get"
  /\ row # NoRow
  /\ ~Stale(w, row.at)
  /\ row' = NoRow
  /\ Goto(w, "busy")
  /\ UNCHANGED <<now, begun, stamp, seen, faults, kills>>

(* get_entity answers: a lease that is not stale is busy.                  *)
GetFresh(w) ==
  /\ pc[w] = "get"
  /\ row # NoRow
  /\ ~Stale(w, row.at)
  /\ Goto(w, "busy")
  /\ UNCHANGED <<now, row, begun, stamp, seen, faults, kills>>

GetStale(w) ==
  /\ pc[w] = "get"
  /\ row # NoRow
  /\ Stale(w, row.at)
  /\ seen' = [seen EXCEPT ![w] = row.by]
  /\ Goto(w, "replace")
  /\ UNCHANGED <<now, row, begun, stamp, faults, kills>>

(* The holder released between create_entity and get_entity: get_entity    *)
(* raises ResourceNotFoundError, which no except clause catches.           *)
GetMissing(w) ==
  /\ pc[w] = "get"
  /\ row = NoRow
  /\ Goto(w, "failed")
  /\ UNCHANGED <<now, row, begun, stamp, seen, faults, kills>>

GetRaises(w) ==
  /\ pc[w] = "get"
  /\ Raise(w)
  /\ UNCHANGED <<now, row, begun, stamp, seen, kills>>

(* Faulty: the replace is unconditional.                                   *)
UnmodifiedIgnored(w) == row # NoRow

(* MatchConditions.IfNotModified with the ETag get_entity returned.        *)
Unmodified(w) == row.by = seen[w]

(* update_entity takes the stale lease over.                               *)
TakeOver(w) ==
  /\ pc[w] = "replace"
  /\ Unmodified(w)
  /\ row' = Entity(w)
  /\ Goto(w, "run")
  /\ UNCHANGED <<now, begun, stamp, seen, faults, kills>>

(* 412 (another taker won) or 404 (released meanwhile): not ours.          *)
TakeOverRefused(w) ==
  /\ pc[w] = "replace"
  /\ ~Unmodified(w)
  /\ Goto(w, "busy")
  /\ UNCHANGED <<now, row, begun, stamp, seen, faults, kills>>

(* update_entity replaced the row but its answer was lost: the retry is    *)
(* refused with 412 by the invocation's own write, or the call raises.     *)
TakeOverAnswerLost(w) ==
  /\ pc[w] = "replace"
  /\ Unmodified(w)
  /\ row' = Entity(w)
  /\ faults < MaxFaults /\ faults' = faults + 1
  /\ \E label \in {"busy", "failed"} : Goto(w, label)
  /\ UNCHANGED <<now, begun, stamp, seen, kills>>

TakeOverRaises(w) ==
  /\ pc[w] = "replace"
  /\ Raise(w)
  /\ UNCHANGED <<now, row, begun, stamp, seen, kills>>

(* The body of the with-block ends or raises: the finally clause is next.  *)
BodyEnds(w) ==
  /\ pc[w] = "run"
  /\ Goto(w, "exit")
  /\ UNCHANGED <<now, row, begun, stamp, seen, faults, kills>>

(* delete_entity takes no condition; a missing row is ignored.             *)
Deleted(w) == NoRow

(* release_run_lease.  The answer arrives, or it is lost and the call      *)
(* raises although the row is gone.                                        *)
Release(w) ==
  /\ pc[w] = "exit" /\ LockFree(w)
  /\ row' = Deleted(w)
  /\ \/ Goto(w, "ended") /\ UNCHANGED faults
     \/ Raise(w)
  /\ UNCHANGED <<now, begun, stamp, seen, kills>>

(* delete_entity raises and deletes nothing: the row stays until stale.    *)
ReleaseRaises(w) ==
  /\ pc[w] = "exit" /\ LockFree(w)
  /\ Raise(w)
  /\ UNCHANGED <<now, row, begun, stamp, seen, kills>>

(* The host kills a process: every invocation in it dies, its row stays.   *)
Kill(h) ==
  /\ kills < MaxKills /\ kills' = kills + 1
  /\ \E w \in Wake : HostOf[w] = h /\ Live(w)
  /\ pc' = [w \in Wake |-> IF HostOf[w] = h /\ Live(w) THEN "killed" ELSE pc[w]]
  /\ UNCHANGED <<now, row, begun, stamp, seen, faults>>

(* The platform's function timeout: no invocation outlives MaxRun.         *)
Tick ==
  /\ now < MaxTime
  /\ \A w \in Wake : Live(w) => now + 1 - begun[w] <= MaxRun
  /\ now' = now + 1
  /\ UNCHANGED <<row, pc, begun, stamp, seen, faults, kills>>
-----------------------------------------------------------------------------
Acquire(w) ==
  \/ CreateWins(w) \/ CreateExists(w) \/ CreateAnswerLost(w) \/ CreateRaises(w)
  \/ GetFresh(w) \/ GetStale(w) \/ GetMissing(w) \/ GetRaises(w)
  \/ TakeOver(w) \/ TakeOverRefused(w) \/ TakeOverAnswerLost(w) \/ TakeOverRaises(w)

Leaving(w) == BodyEnds(w) \/ Release(w) \/ ReleaseRaises(w)

Step(w) == Acquire(w) \/ Leaving(w)

Next ==
  \/ \E w \in Wake : ReadClock(w) \/ Step(w)
  \/ \E h \in Host : Kill(h)
  \/ Tick

Spec == Init /\ [][Next]_vars

(* The SDK's transport may also send the delete again when its answer is   *)
(* lost: a second delete reaches the table later.  Spec leaves this out,   *)
(* RetrySpec adds it.                                                      *)
ReleaseSentAgain(w) ==
  /\ pc[w] = "exit" /\ LockFree(w)
  /\ row' = Deleted(w)
  /\ faults < MaxFaults /\ faults' = faults + 1
  /\ Goto(w, "redelete")
  /\ UNCHANGED <<now, begun, stamp, seen, kills>>

ReleaseRetried(w) ==
  /\ pc[w] = "redelete"
  /\ row' = Deleted(w)
  /\ Goto(w, "ended")
  /\ UNCHANGED <<now, begun, stamp, seen, faults, kills>>

RetryNext == Next \/ \E w \in Wake : ReleaseSentAgain(w) \/ ReleaseRetried(w)

RetrySpec == Init /\ [][RetryNext]_vars
-----------------------------------------------------------------------------
(* At most one invocation executes the pipeline, whatever the hosts do and *)
(* whichever storage calls fail (try_acquire_run_lease's docstring:        *)
(* "Cross-process mutual exclusion").                                      *)
MutualExclusion ==
  \A v, w \in Wake : Holding(v) /\ Holding(w) => v = w

(* The row an executing invocation relies on is the one it wrote, so the   *)
(* unconditional delete of release_run_lease frees its own lease and never *)
(* the lease of the invocation that took over or came next.                *)
HolderOwnsRow ==
  \A w \in Wake : Holding(w) => row = Entity(w)

(* "A dead holder must never deadlock the worker": an invocation is        *)
(* refused only when another one began at most StaleAfter (and the two     *)
(* clock errors) before it; the row a dead host left behind, or the row of *)
(* an acquire whose answer was lost, refuses nobody after that.            *)
BusyMeansContended ==
  \A w \in Wake : pc[w] = "busy" =>
    \E v \in Wake :
      /\ pc[v] # "idle"
      /\ v # w \/ faults > 0
      /\ begun[w] - begun[v] <= StaleAfter + 2 * MaxSkew

(* The invocation inside the with-block, as RunMutex sees it.              *)
Holder ==
  IF \E w \in Wake : Holding(w) THEN CHOOSE w \in Wake : Holding(w) ELSE NoWake

Mutex == INSTANCE RunMutex WITH holder <- Holder

(* The lease row, its timestamps and its ETag implement the mutex the      *)
(* worker counts on: each step of an invocation, of a host or of the clock *)
(* enters or leaves the with-block as RunMutex allows, or changes nothing. *)
ImplementsMutex == Mutex!MutexSpec
=============================================================================
