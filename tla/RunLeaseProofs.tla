--------------------------- MODULE RunLeaseProofs ---------------------------
(***************************************************************************)
(* The lease excludes, for any number of invocations and hosts and any     *)
(* values of the times that satisfy StaleOutlivesRun, as long as no delete *)
(* is sent twice (Spec, not RetrySpec).                                    *)
(***************************************************************************)
EXTENDS RunLease, TLAPS

(* A row that exists was written by an invocation that began, and carries  *)
(* that invocation's own reading of the clock.                             *)
RowInv ==
  row # NoRow => /\ row.by \in Wake
                 /\ row = Entity(row.by)
                 /\ pc[row.by] # "idle"

(* A clock reading is off by at most MaxSkew, and the host lets no         *)
(* invocation live longer than MaxRun after it.                            *)
ClockInv ==
  \A w \in Wake : pc[w] # "idle" =>
    /\ begun[w] <= now
    /\ stamp[w] <= begun[w] + MaxSkew
    /\ begun[w] - MaxSkew <= stamp[w]
    /\ Live(w) => now - begun[w] <= MaxRun

(* An invocation about to take over has read a row too old for its own     *)
(* clock.                                                                  *)
SeenInv ==
  \A w \in Wake : pc[w] = "replace" =>
    /\ seen[w] \in Wake
    /\ pc[seen[w]] # "idle"
    /\ stamp[w] - stamp[seen[w]] > StaleAfter

(* The inductive strengthening of HolderOwnsRow.                           *)
LeaseInv == TypeOK /\ RowInv /\ ClockInv /\ SeenInv /\ HolderOwnsRow
-----------------------------------------------------------------------------
(* An invocation whose lease somebody may judge stale is not alive any     *)
(* more: the margin between the function timeout and RUN_LEASE_STALE_S     *)
(* covers both clock errors.                                               *)
LEMMA StaleMeansDead ==
  ASSUME TypeOK, ClockInv, SeenInv, NEW w \in Wake, pc[w] = "replace"
  PROVE  ~Live(seen[w])
<1> DEFINE v == seen[w]
<1>1. /\ v \in Wake
      /\ pc[v] # "idle"
      /\ stamp[w] - stamp[v] > StaleAfter
  BY DEF SeenInv
<1>2. /\ begun[w] <= now
      /\ stamp[w] <= begun[w] + MaxSkew
  BY DEF ClockInv
<1>3. /\ begun[v] - MaxSkew <= stamp[v]
      /\ Live(v) => now - begun[v] <= MaxRun
  BY <1>1 DEF ClockInv
<1>4. /\ now \in Int /\ begun[w] \in Int /\ begun[v] \in Int
      /\ stamp[w] \in Int /\ stamp[v] \in Int
      /\ StaleAfter \in Int /\ MaxRun \in Int /\ MaxSkew \in Int
  BY <1>1, LeaseConstants DEF TypeOK
<1> HIDE DEF v
<1>5. now - begun[v] > MaxRun
  BY <1>1, <1>2, <1>3, <1>4, StaleOutlivesRun
<1>6. ~Live(v)
  BY <1>3, <1>4, <1>5
<1> QED BY <1>6 DEF v

(* Two invocations cannot both be the writer of the one row.               *)
LEMMA OwnRowExcludes == HolderOwnsRow => MutualExclusion
BY DEF HolderOwnsRow, MutualExclusion, Entity

(* Nobody executes the pipeline while the row is absent.                   *)
LEMMA NoRowNoHolder ==
  ASSUME HolderOwnsRow, row = NoRow, NEW w \in Wake
  PROVE  ~Holding(w)
BY LeaseConstants DEF HolderOwnsRow, Entity, NoRow

(* The fresh table satisfies the inductive invariant.                      *)
LEMMA InitLeaseInv == ASSUME Init PROVE LeaseInv
<1> USE LeaseConstants DEF Init
<1>1. TypeOK BY DEF TypeOK, NoRow, PCs
<1>2. RowInv BY DEF RowInv
<1>3. ClockInv BY DEF ClockInv
<1>4. SeenInv BY DEF SeenInv
<1>5. HolderOwnsRow BY DEF HolderOwnsRow, Holding
<1> QED BY <1>1, <1>2, <1>3, <1>4, <1>5 DEF LeaseInv
-----------------------------------------------------------------------------
(* A step of an invocation that writes no row and moves it neither into    *)
(* the with-block nor to the conditional replace.                          *)
LEMMA QuietStep ==
  ASSUME LeaseInv, NEW w \in Wake, Live(w),
         NEW l \in PCs \ {"idle", "replace", "redelete"},
         l \in {"run", "exit"} => Holding(w),
         Goto(w, l), UNCHANGED <<now, row, begun, stamp, seen>>,
         faults' \in 0..MaxFaults, kills' \in 0..MaxKills
  PROVE  LeaseInv'
<1> USE DEF LeaseInv, Goto
<1>1. TypeOK' BY DEF TypeOK
<1>2. RowInv' BY DEF RowInv, TypeOK, Entity, NoRow
<1>3. ClockInv' BY DEF ClockInv, TypeOK, Live
<1>4. SeenInv' BY DEF SeenInv, TypeOK
<1>5. HolderOwnsRow' BY DEF HolderOwnsRow, TypeOK, Holding, Entity
<1> QED BY <1>1, <1>2, <1>3, <1>4, <1>5

(* A step in which the invocation's write reaches the row while nobody     *)
(* executes the pipeline, whether or not the invocation learns of it.      *)
LEMMA WriteStep ==
  ASSUME LeaseInv, NEW w \in Wake, Live(w),
         NEW l \in PCs \ {"idle", "replace", "redelete", "exit"},
         \A v \in Wake : ~Holding(v),
         row' = Entity(w), Goto(w, l), UNCHANGED <<now, begun, stamp, seen>>,
         faults' \in 0..MaxFaults, kills' \in 0..MaxKills
  PROVE  LeaseInv'
<1> USE DEF LeaseInv, Goto
<1>1. TypeOK' BY DEF TypeOK, Entity
<1>2. RowInv' BY DEF RowInv, TypeOK, Entity, Live
<1>3. ClockInv' BY DEF ClockInv, TypeOK, Live
<1>4. SeenInv' BY DEF SeenInv, TypeOK
<1>5. HolderOwnsRow' BY DEF HolderOwnsRow, TypeOK, Holding, Entity
<1> QED BY <1>1, <1>2, <1>3, <1>4, <1>5

(* While the row is the one a taker has judged stale, nobody executes.     *)
LEMMA StaleRowNoHolder ==
  ASSUME LeaseInv, NEW w \in Wake, pc[w] = "replace", Unmodified(w)
  PROVE  \A v \in Wake : ~Holding(v)
<1>1. ~Live(seen[w]) BY StaleMeansDead DEF LeaseInv
<1>2. ~Holding(seen[w]) BY <1>1 DEF Live, Holding, Over
<1> QED BY <1>2 DEF LeaseInv, HolderOwnsRow, Unmodified, Entity

(* Every step of an invocation, of a host or of the clock keeps it.        *)
LEMMA NextLeaseInv ==
  ASSUME LeaseInv, [Next]_vars
  PROVE  LeaseInv'
<1> USE LeaseConstants
<1> DEFINE Labels == {"create", "get", "replace", "run", "exit", "busy", "failed", "ended"}
<1>0. /\ Labels \subseteq PCs
      /\ \A w \in Wake : pc[w] \in {"create", "get", "replace", "run", "exit"} => Live(w)
      /\ faults \in 0..MaxFaults /\ kills \in 0..MaxKills
  BY DEF PCs, InLock, Acquiring, Over, Live, LeaseInv, TypeOK
<1>1. ASSUME NEW w \in Wake, ReadClock(w) PROVE LeaseInv'
  <2> USE <1>1 DEF ReadClock, Goto, LeaseInv
  <2>1. TypeOK' BY <1>0 DEF TypeOK
  <2>2. RowInv' BY DEF RowInv, TypeOK, Entity, NoRow
  <2>3. ClockInv' BY DEF ClockInv, TypeOK, Live, Over
  <2>4. SeenInv' BY DEF SeenInv, TypeOK
  <2>5. HolderOwnsRow' BY DEF HolderOwnsRow, RowInv, TypeOK, Holding, Entity, NoRow
  <2> QED BY <2>1, <2>2, <2>3, <2>4, <2>5
<1>2. ASSUME NEW w \in Wake, CreateWins(w) PROVE LeaseInv'
  <2>1. \A v \in Wake : ~Holding(v)
    BY <1>2, NoRowNoHolder DEF CreateWins, LeaseInv
  <2> QED BY <1>2, <1>0, <2>1, WriteStep DEF CreateWins
<1>3. ASSUME NEW w \in Wake, CreateExists(w) PROVE LeaseInv'
  BY <1>3, <1>0, QuietStep DEF CreateExists
<1>4. ASSUME NEW w \in Wake, CreateAnswerLost(w) PROVE LeaseInv'
  <2>1. \A v \in Wake : ~Holding(v)
    BY <1>4, NoRowNoHolder DEF CreateAnswerLost, LeaseInv
  <2>2. PICK l \in {"get", "failed"} : Goto(w, l)
    BY <1>4 DEF CreateAnswerLost
  <2>3. faults' \in 0..MaxFaults /\ kills' \in 0..MaxKills
    BY <1>4, <1>0 DEF CreateAnswerLost
  <2> QED BY <1>4, <1>0, <2>1, <2>2, <2>3, WriteStep DEF CreateAnswerLost
<1>5. ASSUME NEW w \in Wake, CreateRaises(w) PROVE LeaseInv'
  <2>1. faults' \in 0..MaxFaults
    BY <1>5, <1>0 DEF CreateRaises, Raise
  <2> QED BY <1>5, <1>0, <2>1, QuietStep DEF CreateRaises, Raise
<1>6. ASSUME NEW w \in Wake, GetFresh(w) PROVE LeaseInv'
  BY <1>6, <1>0, QuietStep DEF GetFresh
<1>7. ASSUME NEW w \in Wake, GetStale(w) PROVE LeaseInv'
  <2> USE <1>7 DEF GetStale, Goto, LeaseInv
  <2>1. TypeOK' BY <1>0 DEF TypeOK
  <2>2. RowInv' BY DEF RowInv, TypeOK, Entity, NoRow
  <2>3. ClockInv' BY <1>0 DEF ClockInv, TypeOK, Live
  <2>4. SeenInv' BY DEF SeenInv, RowInv, TypeOK, Stale, Entity
  <2>5. HolderOwnsRow' BY DEF HolderOwnsRow, TypeOK, Holding, Entity
  <2> QED BY <2>1, <2>2, <2>3, <2>4, <2>5
<1>8. ASSUME NEW w \in Wake, GetMissing(w) PROVE LeaseInv'
  BY <1>8, <1>0, QuietStep DEF GetMissing
<1>9. ASSUME NEW w \in Wake, GetRaises(w) PROVE LeaseInv'
  <2>1. faults' \in 0..MaxFaults
    BY <1>9, <1>0 DEF GetRaises, Raise
  <2> QED BY <1>9, <1>0, <2>1, QuietStep DEF GetRaises, Raise
<1>10. ASSUME NEW w \in Wake, TakeOver(w) PROVE LeaseInv'
  <2>1. \A v \in Wake : ~Holding(v)
    BY <1>10, StaleRowNoHolder DEF TakeOver
  <2> QED BY <1>10, <1>0, <2>1, WriteStep DEF TakeOver
<1>11. ASSUME NEW w \in Wake, TakeOverRefused(w) PROVE LeaseInv'
  BY <1>11, <1>0, QuietStep DEF TakeOverRefused
<1>12. ASSUME NEW w \in Wake, TakeOverAnswerLost(w) PROVE LeaseInv'
  <2>1. \A v \in Wake : ~Holding(v)
    BY <1>12, StaleRowNoHolder DEF TakeOverAnswerLost
  <2>2. PICK l \in {"busy", "failed"} : Goto(w, l)
    BY <1>12 DEF TakeOverAnswerLost
  <2>3. faults' \in 0..MaxFaults /\ kills' \in 0..MaxKills
    BY <1>12, <1>0 DEF TakeOverAnswerLost
  <2> QED BY <1>12, <1>0, <2>1, <2>2, <2>3, WriteStep DEF TakeOverAnswerLost
<1>13. ASSUME NEW w \in Wake, TakeOverRaises(w) PROVE LeaseInv'
  <2>1. faults' \in 0..MaxFaults
    BY <1>13, <1>0 DEF TakeOverRaises, Raise
  <2> QED BY <1>13, <1>0, <2>1, QuietStep DEF TakeOverRaises, Raise
<1>14. ASSUME NEW w \in Wake, BodyEnds(w) PROVE LeaseInv'
  BY <1>14, <1>0, QuietStep DEF BodyEnds, Holding
<1>15. ASSUME NEW w \in Wake, Release(w) PROVE LeaseInv'
  <2>1. PICK l \in {"ended", "failed"} : Goto(w, l)
    BY <1>15 DEF Release, Raise
  <2>2. /\ pc[w] = "exit" /\ row' = NoRow
        /\ UNCHANGED <<now, begun, stamp, seen, kills>>
        /\ faults' \in 0..MaxFaults
    BY <1>15, <1>0 DEF Release, Deleted, Raise
  <2>3. \A v \in Wake \ {w} : ~Holding(v)
    BY <2>2, OwnRowExcludes DEF LeaseInv, MutualExclusion, Holding
  <2> USE <2>1, <2>2 DEF Goto, LeaseInv
  <2>4. TypeOK' BY <1>0 DEF TypeOK, NoRow
  <2>5. RowInv' BY DEF RowInv, NoRow
  <2>6. ClockInv' BY <1>0 DEF ClockInv, TypeOK, Live
  <2>7. SeenInv' BY DEF SeenInv, TypeOK
  <2>8. HolderOwnsRow' BY <2>3 DEF HolderOwnsRow, TypeOK, Holding
  <2> QED BY <2>4, <2>5, <2>6, <2>7, <2>8
<1>16. ASSUME NEW w \in Wake, ReleaseRaises(w) PROVE LeaseInv'
  <2>1. faults' \in 0..MaxFaults
    BY <1>16, <1>0 DEF ReleaseRaises, Raise
  <2> QED BY <1>16, <1>0, <2>1, QuietStep DEF ReleaseRaises, Raise
<1>17. ASSUME NEW h \in Host, Kill(h) PROVE LeaseInv'
  <2> USE <1>17 DEF Kill, LeaseInv
  <2>1. TypeOK' BY <1>0 DEF TypeOK, PCs, Over
  <2>2. RowInv' BY DEF RowInv, TypeOK, Entity, NoRow
  <2>3. ClockInv' BY DEF ClockInv, TypeOK, Live, Over
  <2>4. SeenInv' BY DEF SeenInv, TypeOK
  <2>5. HolderOwnsRow' BY DEF HolderOwnsRow, TypeOK, Holding, Entity
  <2> QED BY <2>1, <2>2, <2>3, <2>4, <2>5
<1>18. ASSUME Tick PROVE LeaseInv'
  <2> USE <1>18 DEF Tick, LeaseInv
  <2>1. TypeOK' BY DEF TypeOK
  <2>2. RowInv' BY DEF RowInv, Entity
  <2>3. ClockInv' BY DEF ClockInv, TypeOK, Live
  <2>4. SeenInv' BY DEF SeenInv
  <2>5. HolderOwnsRow' BY DEF HolderOwnsRow, Holding, Entity
  <2> QED BY <2>1, <2>2, <2>3, <2>4, <2>5
<1>19. ASSUME UNCHANGED vars PROVE LeaseInv'
  BY <1>19 DEF vars, LeaseInv, TypeOK, RowInv, ClockInv, SeenInv,
     HolderOwnsRow, Holding, Live, Entity
<1> QED BY <1>1, <1>2, <1>3, <1>4, <1>5, <1>6, <1>7, <1>8, <1>9, <1>10, <1>11, <1>12,
           <1>13, <1>14, <1>15, <1>16, <1>17, <1>18, <1>19
        DEF Next, Step, Acquire, Leaving

(* Every reachable state satisfies the inductive invariant.                *)
THEOREM LeaseInvariant == Spec => []LeaseInv
<1>1. Init => LeaseInv BY InitLeaseInv
<1>2. LeaseInv /\ [Next]_vars => LeaseInv' BY NextLeaseInv
<1> QED BY <1>1, <1>2, PTL DEF Spec

(* The row, the clock readings and the ETags keep their types, through     *)
(* every fault and kill.                                                   *)
THEOREM LeaseTypes == Spec => []TypeOK
<1>1. LeaseInv => TypeOK BY DEF LeaseInv
<1> QED BY <1>1, LeaseInvariant, PTL

(* An executing invocation's row is always its own, so release_run_lease   *)
(* frees nobody else's lease.                                              *)
THEOREM LeaseOwned == Spec => []HolderOwnsRow
<1>1. LeaseInv => HolderOwnsRow BY DEF LeaseInv
<1> QED BY <1>1, LeaseInvariant, PTL

(* At most one invocation executes the pipeline, for every number of       *)
(* invocations, hosts, storage faults and kills.                           *)
THEOREM LeaseExcludes == Spec => []MutualExclusion
<1>1. LeaseInv => MutualExclusion BY OwnRowExcludes DEF LeaseInv
<1> QED BY <1>1, LeaseInvariant, PTL
-----------------------------------------------------------------------------
(* What the refinement mapping denotes.                                    *)
LEMMA HolderIs ==
  ASSUME LeaseInv
  PROVE  /\ \A w \in Wake : Holding(w) => Holder = w
         /\ (\A w \in Wake : ~Holding(w)) => Holder = NoWake
BY OwnRowExcludes DEF LeaseInv, MutualExclusion, Holder

(* A step after which the same invocations execute is a stutter of the     *)
(* mutex.                                                                  *)
LEMMA SameHolder ==
  ASSUME LeaseInv, LeaseInv', \A w \in Wake : Holding(w)' <=> Holding(w)
  PROVE  Holder' = Holder
<1>1. CASE \E w \in Wake : Holding(w)
  <2>1. PICK w \in Wake : Holding(w) BY <1>1
  <2>2. Holder = w BY <2>1, HolderIs
  <2>3. Holder' = w
    <3>1. Holding(w)' BY <2>1
    <3>2. MutualExclusion' BY OwnRowExcludes, PTL DEF LeaseInv
    <3> QED BY <3>1, <3>2 DEF Holder, MutualExclusion
  <2> QED BY <2>2, <2>3
<1>2. CASE \A w \in Wake : ~Holding(w)
  BY <1>2 DEF Holder
<1> QED BY <1>1, <1>2

(* The step of one invocation into the with-block.                         *)
LEMMA EnterStep ==
  ASSUME LeaseInv, LeaseInv', NEW w \in Wake,
         \A v \in Wake : ~Holding(v), Holding(w)'
  PROVE  Mutex!Enter(w)
<1>1. Holder = NoWake BY HolderIs
<1>2. MutualExclusion' BY OwnRowExcludes, PTL DEF LeaseInv
<1>3. Holder' = w BY <1>2 DEF Holder, MutualExclusion
<1> QED BY <1>1, <1>3 DEF Mutex!Enter

(* The step of the one executing invocation out of it.                     *)
LEMMA LeaveStep ==
  ASSUME LeaseInv, LeaseInv', NEW w \in Wake,
         Holding(w), \A v \in Wake : ~Holding(v)'
  PROVE  Mutex!Leave(w)
<1>1. Holder = w BY HolderIs
<1>2. Holder' = NoWake BY DEF Holder
<1> QED BY <1>1, <1>2 DEF Mutex!Leave

(* Every step enters or leaves the mutex, or changes nothing in it.        *)
LEMMA StepRefines ==
  ASSUME LeaseInv, LeaseInv', [Next]_vars
  PROVE  [Mutex!MutexNext]_Holder
<1> USE LeaseConstants
<1> DEFINE Same == \A v \in Wake : Holding(v)' <=> Holding(v)
<1>0. Same => [Mutex!MutexNext]_Holder
  BY SameHolder
<1>1. ASSUME NEW w \in Wake, CreateWins(w) \/ TakeOver(w) PROVE Mutex!Enter(w)
  <2>1. \A v \in Wake : ~Holding(v)
    BY <1>1, NoRowNoHolder, StaleRowNoHolder DEF CreateWins, TakeOver, LeaseInv
  <2>2. Holding(w)'
    BY <1>1 DEF CreateWins, TakeOver, Goto, Holding, LeaseInv, TypeOK
  <2> QED BY <2>1, <2>2, EnterStep
<1>2. ASSUME NEW w \in Wake, Release(w) \/ ReleaseRaises(w) PROVE Mutex!Leave(w)
  <2>1. Holding(w) /\ \A v \in Wake \ {w} : ~Holding(v)
    BY <1>2, OwnRowExcludes DEF Release, ReleaseRaises, Holding, LeaseInv, MutualExclusion
  <2>2. \A v \in Wake : ~Holding(v)'
    BY <1>2, <2>1 DEF Release, ReleaseRaises, Raise, Goto, Holding, LeaseInv, TypeOK
  <2> QED BY <2>1, <2>2, LeaveStep
<1>3. ASSUME NEW w \in Wake, ReadClock(w) \/ CreateExists(w) \/ CreateAnswerLost(w) \/ CreateRaises(w)
      PROVE  Same
  BY <1>3 DEF ReadClock, CreateExists, CreateAnswerLost, CreateRaises, Raise, Goto, Holding,
     LeaseInv, TypeOK
<1>4. ASSUME NEW w \in Wake, GetFresh(w) \/ GetStale(w) \/ GetMissing(w) \/ GetRaises(w)
      PROVE  Same
  BY <1>4 DEF GetFresh, GetStale, GetMissing, GetRaises, Raise, Goto, Holding, LeaseInv, TypeOK
<1>5. ASSUME NEW w \in Wake, TakeOverRefused(w) \/ TakeOverAnswerLost(w) \/ TakeOverRaises(w)
      PROVE  Same
  BY <1>5 DEF TakeOverRefused, TakeOverAnswerLost, TakeOverRaises, Raise, Goto, Holding,
     LeaseInv, TypeOK
<1>6. ASSUME NEW w \in Wake, BodyEnds(w) PROVE Same
  BY <1>6 DEF BodyEnds, Goto, Holding, LeaseInv, TypeOK
<1>7. ASSUME NEW h \in Host, Kill(h) PROVE [Mutex!MutexNext]_Holder
  <2>1. CASE \E w \in Wake : Holding(w) /\ HostOf[w] = h
    <3>1. PICK w \in Wake : Holding(w) /\ HostOf[w] = h BY <2>1
    <3>2. \A v \in Wake \ {w} : ~Holding(v)
      BY <3>1, OwnRowExcludes DEF LeaseInv, MutualExclusion
    <3>3. Live(w) BY <3>1 DEF Holding, Live, Over
    <3>4. \A v \in Wake : ~Holding(v)'
      BY <1>7, <3>1, <3>2, <3>3 DEF Kill, Holding
    <3>5. Mutex!Leave(w) BY <3>1, <3>4, LeaveStep
    <3> QED BY <3>5 DEF Mutex!MutexNext
  <2>2. CASE \A w \in Wake : Holding(w) => HostOf[w] # h
    <3>1. Same BY <1>7, <2>2 DEF Kill, Holding
    <3> QED BY <3>1, <1>0
  <2> QED BY <2>1, <2>2
<1>8. ASSUME Tick \/ UNCHANGED vars PROVE Same
  BY <1>8 DEF Tick, vars, Holding
<1> QED
  BY <1>0, <1>1, <1>2, <1>3, <1>4, <1>5, <1>6, <1>7, <1>8
  DEF Next, Step, Acquire, Leaving, Mutex!MutexNext

(* The lease implements the mutex: the row, its timestamp and its ETag     *)
(* give exactly the exclusion the worker is written against.               *)
THEOREM LeaseRefinesMutex == Spec => ImplementsMutex
<1>1. Init => Mutex!MutexInit
  BY DEF Init, Mutex!MutexInit, Holder, Holding
<1>2. LeaseInv /\ LeaseInv' /\ [Next]_vars => [Mutex!MutexNext]_Holder
  BY StepRefines
<1> QED BY <1>1, <1>2, LeaseInvariant, PTL DEF Spec, ImplementsMutex, Mutex!MutexSpec
-----------------------------------------------------------------------------
(* An invocation that began recently enough to explain the refusal of w;   *)
(* w itself only if an answer was lost.                                    *)
Rival(w) ==
  \E v \in Wake :
    /\ pc[v] # "idle"
    /\ v # w \/ faults > 0
    /\ begun[w] - begun[v] <= StaleAfter + 2 * MaxSkew

(* The inductive strengthening of BusyMeansContended: a row that changed   *)
(* under an invocation about to take over was changed by a rival, and a    *)
(* row that an invocation meets as its own is there because of a fault.    *)
BusyInv ==
  \A w \in Wake :
    /\ pc[w] = "busy" => Rival(w)
    /\ pc[w] = "replace" /\ row.by # seen[w] => Rival(w)
    /\ row.by = w => pc[w] # "create" /\ (pc[w] = "get" => faults > 0)

LEMMA BusyInvInit == Init => BusyInv
  BY LeaseConstants DEF Init, BusyInv, NoRow

(* What begins stays begun, and faults are counted up.                     *)
LEMMA RivalsStay ==
  ASSUME LeaseInv, [Next]_vars
  PROVE  /\ \A w \in Wake : pc[w] # "idle" /\ Rival(w) => Rival(w)'
         /\ faults \in Nat /\ faults' \in Nat /\ faults' >= faults
<1> USE LeaseConstants
<1>1. \A v \in Wake : pc[v] # "idle" => pc'[v] # "idle" /\ begun'[v] = begun[v]
  BY DEF LeaseInv, TypeOK, Next, Step, Acquire, Leaving, ReadClock, CreateWins, CreateExists,
     CreateAnswerLost, CreateRaises, GetFresh, GetStale, GetMissing, GetRaises, TakeOver,
     TakeOverRefused, TakeOverAnswerLost, TakeOverRaises, BodyEnds, Release, ReleaseRaises,
     Kill, Tick, vars, Raise, Goto
<1>2. faults \in Nat
  BY DEF LeaseInv, TypeOK
<1>3. faults' = faults \/ faults' = faults + 1
  BY DEF Next, Step, Acquire, Leaving, ReadClock, CreateWins, CreateExists,
     CreateAnswerLost, CreateRaises, GetFresh, GetStale, GetMissing, GetRaises, TakeOver,
     TakeOverRefused, TakeOverAnswerLost, TakeOverRaises, BodyEnds, Release, ReleaseRaises,
     Kill, Tick, vars, Raise
<1> QED BY <1>1, <1>2, <1>3 DEF Rival

(* An invocation alive now is a rival of every other one that has begun.   *)
LEMMA LiveIsRival ==
  ASSUME LeaseInv, NEW w \in Wake, pc[w] # "idle", NEW v \in Wake \ {w}, Live(v)
  PROVE  Rival(w)
<1>1. pc[v] # "idle"
  BY DEF Live
<1>2. begun[w] <= now /\ now - begun[v] <= MaxRun
  BY <1>1 DEF LeaseInv, ClockInv
<1>3. begun[w] \in Nat /\ begun[v] \in Nat /\ now \in Nat
  BY DEF LeaseInv, TypeOK
<1>4. begun[w] - begun[v] <= StaleAfter + 2 * MaxSkew
  BY <1>2, <1>3, LeaseConstants, StaleOutlivesRun
<1> QED BY <1>1, <1>4 DEF Rival

(* The writer of a row that is not stale is a rival too, whether or not it *)
(* is alive.                                                               *)
LEMMA FreshIsRival ==
  ASSUME LeaseInv, BusyInv, NEW w \in Wake, GetFresh(w)
  PROVE  Rival(w)
<1> DEFINE v == row.by
<1>1. pc[w] = "get" /\ row # NoRow /\ ~(stamp[w] - row.at > StaleAfter)
  BY DEF GetFresh, Stale
<1>2. v \in Wake /\ pc[v] # "idle" /\ row.at = stamp[v]
  BY <1>1 DEF LeaseInv, RowInv, Entity
<1>3. v # w \/ faults > 0
  BY <1>1 DEF BusyInv
<1>4. /\ begun[w] \in Nat /\ begun[v] \in Nat /\ stamp[w] \in Int /\ stamp[v] \in Int
  BY <1>2 DEF LeaseInv, TypeOK
<1>5. begun[w] - MaxSkew <= stamp[w] /\ stamp[v] <= begun[v] + MaxSkew
  BY <1>1, <1>2 DEF LeaseInv, ClockInv
<1>6. begun[w] - begun[v] <= StaleAfter + 2 * MaxSkew
  <2> HIDE DEF v
  <2>1. ~(stamp[w] - stamp[v] > StaleAfter)
    BY <1>1, <1>2
  <2> QED BY <2>1, <1>4, <1>5, LeaseConstants
<1> QED BY <1>2, <1>3, <1>6 DEF Rival

(* No step answers `busy` to a wake that had no rival.                     *)
LEMMA NextBusyInv ==
  ASSUME LeaseInv, LeaseInv', BusyInv, [Next]_vars
  PROVE  BusyInv'
<1> SUFFICES ASSUME NEW w \in Wake
             PROVE  /\ pc'[w] = "busy" => Rival(w)'
                    /\ pc'[w] = "replace" /\ row'.by # seen'[w] => Rival(w)'
                    /\ row'.by = w => pc'[w] # "create" /\ (pc'[w] = "get" => faults' > 0)
  BY DEF BusyInv
<1> USE LeaseConstants
<1>1. ASSUME pc'[w] = "busy" PROVE Rival(w)'
  <2>1. CASE pc[w] = "busy"
    BY <2>1, RivalsStay DEF BusyInv
  <2>2. CASE GetFresh(w)
    BY <2>2, FreshIsRival, RivalsStay DEF GetFresh
  <2>3. CASE TakeOverRefused(w)
    BY <2>3, RivalsStay DEF TakeOverRefused, Unmodified, BusyInv
  <2>4. CASE TakeOverAnswerLost(w)
    <3>1. faults' > 0
      BY <2>4, RivalsStay DEF TakeOverAnswerLost
    <3>2. begun'[w] \in Nat
      BY DEF LeaseInv, TypeOK
    <3> QED BY <1>1, <3>1, <3>2 DEF Rival
  <2>5. pc[w] = "busy" \/ GetFresh(w) \/ TakeOverRefused(w) \/ TakeOverAnswerLost(w)
    BY <1>1 DEF LeaseInv, TypeOK, Next, Step, Acquire, Leaving, ReadClock, CreateWins,
       CreateExists, CreateAnswerLost, CreateRaises, GetFresh, GetStale, GetMissing, GetRaises,
       TakeOver, TakeOverRefused, TakeOverAnswerLost, TakeOverRaises, BodyEnds, Release,
       ReleaseRaises, Kill, Tick, vars, Raise, Goto
  <2> QED BY <2>1, <2>2, <2>3, <2>4, <2>5
<1>2. ASSUME pc'[w] = "replace", row'.by # seen'[w] PROVE Rival(w)'
  <2>1. CASE GetStale(w)
    BY <1>2, <2>1 DEF GetStale, LeaseInv, TypeOK
  <2>2. CASE pc[w] = "replace" /\ UNCHANGED <<row, seen>>
    BY <1>2, <2>2, RivalsStay DEF BusyInv
  <2>3. CASE pc[w] = "replace" /\ \E v \in Wake \ {w} : Live(v)
    BY <2>3, LiveIsRival, RivalsStay
  <2>4. \/ GetStale(w)
        \/ pc[w] = "replace" /\ UNCHANGED <<row, seen>>
        \/ pc[w] = "replace" /\ \E v \in Wake \ {w} : Live(v)
    BY <1>2 DEF LeaseInv, TypeOK, Next, Step, Acquire, Leaving, ReadClock, CreateWins,
       CreateExists, CreateAnswerLost, CreateRaises, GetFresh, GetStale, GetMissing, GetRaises,
       TakeOver, TakeOverRefused, TakeOverAnswerLost, TakeOverRaises, BodyEnds, Release,
       ReleaseRaises, Kill, Tick, vars, Raise, Goto, Live, Over
  <2> QED BY <2>1, <2>2, <2>3, <2>4
<1>3. ASSUME row'.by = w PROVE pc'[w] # "create" /\ (pc'[w] = "get" => faults' > 0)
  <2>1. CASE row'.by = row.by
    <3>1. row.by = w /\ pc[w] # "idle" /\ pc[w] # "create" /\ (pc[w] = "get" => faults > 0)
      BY <1>3, <2>1 DEF BusyInv, LeaseInv, RowInv, NoRow
    <3>2. pc'[w] # "create" /\ (pc'[w] = "get" => pc[w] = "get")
      BY <3>1 DEF LeaseInv, TypeOK, Next, Step, Acquire, Leaving, ReadClock, CreateWins,
       CreateExists, CreateAnswerLost, CreateRaises, GetFresh, GetStale, GetMissing, GetRaises,
       TakeOver, TakeOverRefused, TakeOverAnswerLost, TakeOverRaises, BodyEnds, Release,
       ReleaseRaises, Kill, Tick, vars, Raise, Goto
    <3> QED BY <3>1, <3>2, RivalsStay
  <2>2. CASE row'.by # row.by
    <3>1. \/ CreateWins(w) \/ CreateAnswerLost(w) \/ TakeOver(w) \/ TakeOverAnswerLost(w)
      BY <1>3, <2>2 DEF Next, Step, Acquire, Leaving, ReadClock, CreateWins,
       CreateExists, CreateAnswerLost, CreateRaises, GetFresh, GetStale, GetMissing, GetRaises,
       TakeOver, TakeOverRefused, TakeOverAnswerLost, TakeOverRaises, BodyEnds, Release,
       ReleaseRaises, Kill, Tick, vars, Entity, Deleted, NoRow
    <3> QED BY <3>1, RivalsStay DEF CreateWins, CreateAnswerLost, TakeOver, TakeOverAnswerLost,
            Goto, LeaseInv, TypeOK
  <2> QED BY <2>1, <2>2
<1> QED BY <1>1, <1>2, <1>3

(* "A dead holder must never deadlock the worker": whatever dies or fails, *)
(* an invocation is refused only while another one, or the lost answer of  *)
(* its own acquire, is recent enough.                                      *)
THEOREM LeaseBusyMeansContended == Spec => []BusyMeansContended
<1>1. LeaseInv /\ LeaseInv' /\ BusyInv /\ [Next]_vars => BusyInv'
  BY NextBusyInv
<1>2. BusyInv => BusyMeansContended
  BY DEF BusyInv, Rival, BusyMeansContended
<1> QED BY BusyInvInit, <1>1, <1>2, LeaseInvariant, PTL DEF Spec
=============================================================================
