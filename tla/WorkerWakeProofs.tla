-------------------------- MODULE WorkerWakeProofs ---------------------------
(***************************************************************************)
(* Safety of WorkerWake for any number of overlapping wakes, messages,     *)
(* mishaps, toggles and changes of the credentials.                        *)
(***************************************************************************)
EXTENDS WorkerWake, FiniteSetTheorems, WellFoundedInduction, TLAPS

(* Where a wake can be, and the state of the wakes.                        *)
Place == {"idle", "gate", "acquire", "report", "append"} \union InRun \union Over

WakeTypes ==
  /\ holder \in Wake \union {NoWake}
  /\ pc \in [Wake -> Place]
  /\ outcome \in [Wake -> Status \union {"none"}]
  /\ open \in [Wake -> SUBSET Client]
  /\ after \in [Wake -> SUBSET Wake]
  /\ dead \subseteq {"gmail", "trello"}
  /\ changes \in Nat

(* The lease is held from the entry to the release.                        *)
HolderRuns == \A w \in Wake : holder = w <=> pc[w] \in InRun

(* What each wake may still have open, by the place it has reached.        *)
OpenBy ==
  \A w \in Wake :
    /\ pc[w] \in {"idle", "gate", "acquire", "extractor"} => open[w] = {}
    /\ pc[w] = "compose" => open[w] \subseteq {"extractor"}
    /\ pc[w] = "close_trello" => "gmail" \notin open[w]
    /\ pc[w] = "close_extractor" => open[w] \subseteq {"extractor"}

(* A wake that was over when another began stays over.                     *)
AfterIsOver == \A w \in Wake : \A v \in after[w] : pc[v] \in Over

(* How far a wake gets while a credential is dead.                         *)
NoAccessNoWork ==
  changes = 0 /\ dead # {} =>
    \A w \in Wake :
      /\ pc[w] \notin {"membretes", "work"}
      /\ pc[w] = "trello" => "gmail" \notin dead

(* None of the properties is inductive alone: a close is known to empty    *)
(* the pools only from what was open before it, and `last` is not stale    *)
(* only because what is over stays over.                                   *)
WakeInv ==
  /\ WakeTypes
  /\ HolderRuns
  /\ OpenBy /\ ClosedOnExit
  /\ AfterIsOver /\ LastIsNotStale
  /\ NoAccessNoWork /\ AccessDecides

LEMMA WakeInvInit == Init => WakeInv
  BY WakeConstants
  DEF Init, WakeInv, WakeTypes, HolderRuns, OpenBy, ClosedOnExit, AfterIsOver,
      LastIsNotStale, NoAccessNoWork, AccessDecides, Place, InRun, Over, Close, Zero
-----------------------------------------------------------------------------
(* The parts of the invariant one by one; each step changes one wake.      *)
LEMMA TypesStep == WakeTypes /\ [Next]_vars => WakeTypes'
<1> SUFFICES ASSUME WakeTypes, [Next]_vars PROVE WakeTypes'
  OBVIOUS
<1> USE DEF WakeTypes, Place, InRun, Over, Close, Client, Status, Goto, Exit, Opens,
            tables, others, Mishap
<1>1. ASSUME NEW w \in Wake, Begin(w) PROVE WakeTypes'
  BY <1>1 DEF Begin
<1>2. ASSUME NEW w \in Wake, Gate(w) PROVE WakeTypes'
  BY <1>2 DEF Gate
<1>3. ASSUME NEW w \in Wake, Enter(w) PROVE WakeTypes'
  BY <1>3 DEF Enter, Lease!Enter
<1>4. ASSUME NEW w \in Wake, Refused(w) PROVE WakeTypes'
  BY <1>4 DEF Refused
<1>5. ASSUME NEW w \in Wake, GetFieldExtractor(w) PROVE WakeTypes'
  BY <1>5 DEF GetFieldExtractor
<1>6. ASSUME NEW w \in Wake, Compose(w) PROVE WakeTypes'
  BY <1>6 DEF Compose
<1>7. ASSUME NEW w \in Wake, PreflightGmail(w) \/ PreflightTrello(w) PROVE WakeTypes'
  <2>1. ASSUME NEW client \in {"gmail", "trello"}, NEW next \in {"trello", "membretes"},
               Verdict(w, client, next)
        PROVE  pc' \in [Wake -> Place] /\ outcome' \in [Wake -> Status \union {"none"}]
               /\ open' \in [Wake -> SUBSET Client]
    BY <2>1 DEF Verdict
  <2> QED
    BY <1>7, <2>1 DEF PreflightGmail, PreflightTrello
<1>8. ASSUME NEW w \in Wake, BuildMembretes(w) PROVE WakeTypes'
  BY <1>8 DEF BuildMembretes
<1>9. ASSUME NEW w \in Wake, NEW l \in Label, Relabel(w, l) PROVE WakeTypes'
  BY <1>9 DEF Relabel
<1>10. ASSUME NEW w \in Wake, WorkEnds(w) PROVE WakeTypes'
  BY <1>10 DEF WorkEnds
<1>11. ASSUME NEW w \in Wake, CloseClients(w) PROVE WakeTypes'
  <2>1. ASSUME NEW label, NEW client \in Client, NEW next \in Place,
               CloseClient(w, label, client, next)
        PROVE  WakeTypes'
    BY <2>1 DEF CloseClient
  <2> QED
    BY <1>11, <2>1 DEF CloseClients
<1>12. ASSUME NEW w \in Wake, Release(w) PROVE WakeTypes'
  BY <1>12 DEF Release, Lease!Leave
<1>13. ASSUME NEW w \in Wake, Report(w) \/ Append(w) PROVE WakeTypes'
  BY <1>13 DEF Report, Append
<1>14. ASSUME NEW w \in Wake, Kill(w) PROVE WakeTypes'
  BY <1>14 DEF Kill
<1>15. ASSUME NEW value \in {"on", "off"}, SetEnabled(value) PROVE WakeTypes'
  BY <1>15 DEF SetEnabled
<1>16. ASSUME NEW client \in {"gmail", "trello"}, ChangeAccess(client) PROVE WakeTypes'
  BY <1>16 DEF ChangeAccess
<1>17. ASSUME ReadTotals \/ ReadErrorRuns PROVE WakeTypes'
  BY <1>17 DEF ReadTotals, ReadErrorRuns
<1>18. CASE UNCHANGED vars
  BY <1>18 DEF vars
<1> QED
  BY <1>1, <1>2, <1>3, <1>4, <1>5, <1>6, <1>7, <1>8, <1>9, <1>10, <1>11, <1>12, <1>13,
     <1>14, <1>15, <1>16, <1>17, <1>18 DEF Next, Step

(* Entry and release are where the holder changes, and the kill.             *)
LEMMA HolderStep == WakeTypes /\ HolderRuns /\ [Next]_vars => HolderRuns'
<1> SUFFICES ASSUME WakeTypes, HolderRuns, [Next]_vars PROVE HolderRuns'
  OBVIOUS
<1> USE DEF WakeTypes, HolderRuns, Place, InRun, Over, Close, Goto, Exit, tables, others
<1>1. ASSUME NEW w \in Wake, Begin(w) \/ Gate(w) \/ Enter(w) \/ Refused(w) PROVE HolderRuns'
  BY <1>1, WakeConstants DEF Begin, Gate, Enter, Refused, Lease!Enter
<1>2. ASSUME NEW w \in Wake, GetFieldExtractor(w) \/ Compose(w) \/ BuildMembretes(w)
      PROVE  HolderRuns'
  BY <1>2 DEF GetFieldExtractor, Compose, BuildMembretes
<1>3. ASSUME NEW w \in Wake, PreflightGmail(w) \/ PreflightTrello(w) PROVE HolderRuns'
  BY <1>3 DEF PreflightGmail, PreflightTrello, Verdict, Opens
<1>4. ASSUME NEW w \in Wake, WorkEnds(w) \/ \E l \in Label : Relabel(w, l) PROVE HolderRuns'
  BY <1>4 DEF WorkEnds, Relabel
<1>5. ASSUME NEW w \in Wake, CloseClients(w) PROVE HolderRuns'
  BY <1>5 DEF CloseClients, CloseClient
<1>6. ASSUME NEW w \in Wake, Release(w) \/ Report(w) \/ Append(w) PROVE HolderRuns'
  BY <1>6, WakeConstants DEF Release, Report, Append, Lease!Leave
<1>7. ASSUME NEW w \in Wake, Kill(w) PROVE HolderRuns'
  BY <1>7, WakeConstants DEF Kill
<1>8. ASSUME \/ \E value \in {"on", "off"} : SetEnabled(value)
             \/ \E client \in {"gmail", "trello"} : ChangeAccess(client)
             \/ ReadTotals \/ ReadErrorRuns \/ UNCHANGED vars
      PROVE  HolderRuns'
  BY <1>8 DEF SetEnabled, ChangeAccess, ReadTotals, ReadErrorRuns, vars
<1> QED
  BY <1>1, <1>2, <1>3, <1>4, <1>5, <1>6, <1>7, <1>8 DEF Next, Step

(* What is over stays over.                                                  *)
LEMMA OverStep == WakeTypes /\ AfterIsOver /\ [Next]_vars => AfterIsOver'
<1> SUFFICES ASSUME WakeTypes, AfterIsOver, [Next]_vars PROVE AfterIsOver'
  OBVIOUS
<1> USE DEF WakeTypes, AfterIsOver, Over, Goto, Exit, tables, others
<1>1. ASSUME NEW w \in Wake, Begin(w) \/ Gate(w) \/ Enter(w) \/ Refused(w) PROVE AfterIsOver'
  BY <1>1 DEF Begin, Gate, Enter, Refused, Lease!Enter
<1>2. ASSUME NEW w \in Wake, GetFieldExtractor(w) \/ Compose(w) \/ BuildMembretes(w)
      PROVE  AfterIsOver'
  BY <1>2 DEF GetFieldExtractor, Compose, BuildMembretes
<1>3. ASSUME NEW w \in Wake, PreflightGmail(w) \/ PreflightTrello(w) PROVE AfterIsOver'
  BY <1>3 DEF PreflightGmail, PreflightTrello, Verdict, Opens
<1>4. ASSUME NEW w \in Wake, WorkEnds(w) \/ \E l \in Label : Relabel(w, l) PROVE AfterIsOver'
  BY <1>4 DEF WorkEnds, Relabel
<1>5. ASSUME NEW w \in Wake, CloseClients(w) PROVE AfterIsOver'
  BY <1>5 DEF CloseClients, CloseClient
<1>6. ASSUME NEW w \in Wake, Release(w) \/ Report(w) \/ Append(w) PROVE AfterIsOver'
  BY <1>6 DEF Release, Report, Append, Lease!Leave
<1>7. ASSUME NEW w \in Wake, Kill(w) PROVE AfterIsOver'
  BY <1>7 DEF Kill
<1>8. ASSUME \/ \E value \in {"on", "off"} : SetEnabled(value)
             \/ \E client \in {"gmail", "trello"} : ChangeAccess(client)
             \/ ReadTotals \/ ReadErrorRuns \/ UNCHANGED vars
      PROVE  AfterIsOver'
  BY <1>8 DEF SetEnabled, ChangeAccess, ReadTotals, ReadErrorRuns, vars
<1> QED
  BY <1>1, <1>2, <1>3, <1>4, <1>5, <1>6, <1>7, <1>8 DEF Next, Step

(* The `last` row is written by a wake that is not over.                     *)
LEMMA StaleStep == WakeTypes /\ AfterIsOver /\ LastIsNotStale /\ [Next]_vars => LastIsNotStale'
<1> SUFFICES ASSUME WakeTypes, AfterIsOver, LastIsNotStale, [Next]_vars PROVE LastIsNotStale'
  OBVIOUS
<1> USE DEF WakeTypes, AfterIsOver, LastIsNotStale, Over, Goto, Exit, tables, others
<1>1. ASSUME NEW w \in Wake, Begin(w) \/ Gate(w) \/ Enter(w) \/ Refused(w) PROVE LastIsNotStale'
  BY <1>1 DEF Begin, Gate, Enter, Refused, Lease!Enter
<1>2. ASSUME NEW w \in Wake, GetFieldExtractor(w) \/ Compose(w) \/ BuildMembretes(w)
      PROVE  LastIsNotStale'
  BY <1>2 DEF GetFieldExtractor, Compose, BuildMembretes
<1>3. ASSUME NEW w \in Wake, PreflightGmail(w) \/ PreflightTrello(w) PROVE LastIsNotStale'
  BY <1>3 DEF PreflightGmail, PreflightTrello, Verdict, Opens
<1>4. ASSUME NEW w \in Wake, WorkEnds(w) \/ \E l \in Label : Relabel(w, l) PROVE LastIsNotStale'
  BY <1>4 DEF WorkEnds, Relabel
<1>5. ASSUME NEW w \in Wake, CloseClients(w) PROVE LastIsNotStale'
  BY <1>5 DEF CloseClients, CloseClient
<1>6. ASSUME NEW w \in Wake, Release(w) \/ Report(w) \/ Append(w) PROVE LastIsNotStale'
  BY <1>6 DEF Release, Report, Append, Lease!Leave
<1>7. ASSUME NEW w \in Wake, Kill(w) PROVE LastIsNotStale'
  BY <1>7 DEF Kill
<1>8. ASSUME \/ \E value \in {"on", "off"} : SetEnabled(value)
             \/ \E client \in {"gmail", "trello"} : ChangeAccess(client)
             \/ ReadTotals \/ ReadErrorRuns \/ UNCHANGED vars
      PROVE  LastIsNotStale'
  BY <1>8 DEF SetEnabled, ChangeAccess, ReadTotals, ReadErrorRuns, vars
<1> QED
  BY <1>1, <1>2, <1>3, <1>4, <1>5, <1>6, <1>7, <1>8 DEF Next, Step

(* A dead credential stops a wake at its preflight.                          *)
LEMMA AccessStep == WakeTypes /\ NoAccessNoWork /\ AccessDecides /\ [Next]_vars => (NoAccessNoWork /\ AccessDecides)'
<1> SUFFICES ASSUME WakeTypes, NoAccessNoWork, AccessDecides, [Next]_vars PROVE (NoAccessNoWork /\ AccessDecides)'
  OBVIOUS
<1> USE DEF WakeTypes, NoAccessNoWork, AccessDecides, Goto, Exit, tables, others
<1>1. ASSUME NEW w \in Wake, Begin(w) \/ Gate(w) \/ Enter(w) \/ Refused(w) PROVE (NoAccessNoWork /\ AccessDecides)'
  <2>1. CASE Begin(w)
    BY <2>1 DEF Begin
  <2>2. CASE Gate(w)
    BY <2>2 DEF Gate
  <2>3. CASE Enter(w)
    BY <2>3 DEF Enter, Lease!Enter
  <2>4. CASE Refused(w)
    BY <2>4 DEF Refused
  <2> QED BY <1>1, <2>1, <2>2, <2>3, <2>4
<1>2. ASSUME NEW w \in Wake, GetFieldExtractor(w) \/ Compose(w) \/ BuildMembretes(w)
      PROVE  (NoAccessNoWork /\ AccessDecides)'
  <2>1. CASE GetFieldExtractor(w)
    BY <2>1 DEF GetFieldExtractor
  <2>2. CASE Compose(w)
    BY <2>2 DEF Compose
  <2>3. CASE BuildMembretes(w)
    BY <2>3 DEF BuildMembretes
  <2> QED BY <1>2, <2>1, <2>2, <2>3
<1>3. ASSUME NEW w \in Wake, PreflightGmail(w) \/ PreflightTrello(w) PROVE (NoAccessNoWork /\ AccessDecides)'
  <2>1. CASE PreflightGmail(w)
    BY <2>1 DEF PreflightGmail, Verdict, Opens
  <2>2. CASE PreflightTrello(w)
    BY <2>2, ZenonT(60) DEF PreflightTrello, Verdict, Opens
  <2> QED BY <1>3, <2>1, <2>2
<1>4. ASSUME NEW w \in Wake, WorkEnds(w) \/ \E l \in Label : Relabel(w, l) PROVE (NoAccessNoWork /\ AccessDecides)'
  BY <1>4 DEF WorkEnds, Relabel
<1>5. ASSUME NEW w \in Wake, CloseClients(w) PROVE (NoAccessNoWork /\ AccessDecides)'
  BY <1>5, ZenonT(60) DEF CloseClients, CloseClient
<1>6. ASSUME NEW w \in Wake, Release(w) \/ Report(w) \/ Append(w) PROVE (NoAccessNoWork /\ AccessDecides)'
  BY <1>6, ZenonT(60) DEF Release, Report, Append, Lease!Leave
<1>7. ASSUME NEW w \in Wake, Kill(w) PROVE (NoAccessNoWork /\ AccessDecides)'
  BY <1>7 DEF Kill
<1>8. ASSUME \/ \E value \in {"on", "off"} : SetEnabled(value)
             \/ \E client \in {"gmail", "trello"} : ChangeAccess(client)
             \/ ReadTotals \/ ReadErrorRuns \/ UNCHANGED vars
      PROVE  (NoAccessNoWork /\ AccessDecides)'
  BY <1>8 DEF SetEnabled, ChangeAccess, ReadTotals, ReadErrorRuns, vars
<1> QED
  BY <1>1, <1>2, <1>3, <1>4, <1>5, <1>6, <1>7, <1>8 DEF Next, Step

(* Each close empties one pool, whatever raised before it.                   *)
LEMMA OpenStep == WakeTypes /\ OpenBy /\ ClosedOnExit /\ [Next]_vars => (OpenBy /\ ClosedOnExit)'
<1> SUFFICES ASSUME WakeTypes, OpenBy, ClosedOnExit, [Next]_vars PROVE (OpenBy /\ ClosedOnExit)'
  OBVIOUS
<1> USE DEF WakeTypes, OpenBy, ClosedOnExit, Client, Goto, Exit, tables, others
<1>1. ASSUME NEW w \in Wake, Begin(w) \/ Gate(w) \/ Enter(w) \/ Refused(w) PROVE (OpenBy /\ ClosedOnExit)'
  BY <1>1 DEF Begin, Gate, Enter, Refused, Lease!Enter
<1>2. ASSUME NEW w \in Wake, GetFieldExtractor(w) \/ Compose(w) \/ BuildMembretes(w)
      PROVE  (OpenBy /\ ClosedOnExit)'
  BY <1>2 DEF GetFieldExtractor, Compose, BuildMembretes
<1>3. ASSUME NEW w \in Wake, PreflightGmail(w) \/ PreflightTrello(w) PROVE (OpenBy /\ ClosedOnExit)'
  BY <1>3 DEF PreflightGmail, PreflightTrello, Verdict, Opens
<1>4. ASSUME NEW w \in Wake, WorkEnds(w) \/ \E l \in Label : Relabel(w, l) PROVE (OpenBy /\ ClosedOnExit)'
  BY <1>4 DEF WorkEnds, Relabel
<1>5. ASSUME NEW w \in Wake, CloseClients(w) PROVE (OpenBy /\ ClosedOnExit)'
  BY <1>5 DEF CloseClients, CloseClient
<1>6. ASSUME NEW w \in Wake, Release(w) \/ Report(w) \/ Append(w) PROVE (OpenBy /\ ClosedOnExit)'
  BY <1>6 DEF Release, Report, Append, Lease!Leave
<1>7. ASSUME NEW w \in Wake, Kill(w) PROVE (OpenBy /\ ClosedOnExit)'
  BY <1>7 DEF Kill
<1>8. ASSUME \/ \E value \in {"on", "off"} : SetEnabled(value)
             \/ \E client \in {"gmail", "trello"} : ChangeAccess(client)
             \/ ReadTotals \/ ReadErrorRuns \/ UNCHANGED vars
      PROVE  (OpenBy /\ ClosedOnExit)'
  BY <1>8 DEF SetEnabled, ChangeAccess, ReadTotals, ReadErrorRuns, vars
<1> QED
  BY <1>1, <1>2, <1>3, <1>4, <1>5, <1>6, <1>7, <1>8 DEF Next, Step

LEMMA WakeInvStep == WakeInv /\ [Next]_vars => WakeInv'
  BY TypesStep, HolderStep, OverStep, StaleStep, AccessStep, OpenStep DEF WakeInv

(* The inductive invariant of the worker, for any number of wakes.         *)
THEOREM WakeInvariant == Spec => []WakeInv
  BY WakeInvInit, WakeInvStep, PTL DEF Spec

(* However its closes fail, a wake that is past its run has closed the     *)
(* pools of Gmail and Trello, and the extractor's if its run returned.     *)
THEOREM WakeClosesClients == Spec => []ClosedOnExit
  BY WakeInvariant, PTL DEF WakeInv

(* A dead credential is found before any message is touched, and only a    *)
(* dead credential is reported as one.                                     *)
THEOREM WakeAccessDecides == Spec => []AccessDecides
  BY WakeInvariant, PTL DEF WakeInv

(* The `last` row never falls back to a wake that was over when a wake     *)
(* that has reported began.                                                *)
THEOREM WakeLastIsNotStale == Spec => []LastIsNotStale
  BY WakeInvariant, PTL DEF WakeInv

(* Wakes enter and leave as the mutex allows, and each is the holder       *)
(* exactly while it is in the run, on every exit path.                     *)
THEOREM WakeRunsUnderLease == Spec => RunsUnderLease
<1>1. Init => Lease!MutexInit
  BY DEF Init, Lease!MutexInit
<1>2. WakeInv /\ [Next]_vars => [Lease!MutexNext]_holder
  <2> SUFFICES ASSUME [Next]_vars, UNCHANGED holder => FALSE PROVE Lease!MutexNext
    OBVIOUS
  <2>1. PICK w \in Wake : Enter(w) \/ Release(w) \/ Kill(w)
    BY DEF Next, Step, Begin, Gate, Refused, GetFieldExtractor, Compose, PreflightGmail,
           PreflightTrello, BuildMembretes, WorkEnds, Relabel, CloseClients, CloseClient,
           Report, Append, SetEnabled, ChangeAccess, ReadTotals, ReadErrorRuns, vars
  <2>2. Lease!Enter(w) \/ Lease!Leave(w)
    BY <2>1 DEF Enter, Release, Kill, Lease!Leave
  <2> QED
    BY <2>2 DEF Lease!MutexNext
<1>3. WakeInv => \A w \in Wake : holder = w <=> pc[w] \in InRun
  BY DEF WakeInv, HolderRuns
<1> QED
  BY <1>1, <1>2, <1>3, WakeInvariant, PTL DEF Spec, RunsUnderLease, Lease!MutexSpec
-----------------------------------------------------------------------------
(* The sums behind history_totals.  MapThenSumSet adds the counts of the   *)
(* heartbeats one after the other; to compare a sum with another one it is *)
(* taken for the number of its units: the unit <<w, i>> is the i-th        *)
(* message that wake w counted.                                            *)

(* A nonempty set of naturals has a least element.                         *)
LEMMA LeastNatural ==
  ASSUME NEW T, T \subseteq Nat, T # {} PROVE \E m \in T : \A k \in T : m <= k
<1> DEFINE R == {ss \in Nat \X Nat : ss[1] < ss[2]}
<1>1. IsWellFoundedOn(R, Nat)
  BY NatLessThanWellFounded DEF OpToRel
<1>2. \E x \in T : \A y \in T : ~(<<y, x>> \in R)
  <2> HIDE DEF R
  <2> QED BY WFMin, <1>1
<1>3. PICK x \in T : \A y \in T : ~(<<y, x>> \in R)
  BY <1>2
<1>4. \A y \in T : ~(y < x)
  BY <1>3
<1> QED BY <1>4

(* A sum over a finite set is built one member at a time; it is the        *)
(* number of the units of its terms, so that no order matters.             *)
Any(s) == CHOOSE x \in s : TRUE
Sums(S, v, iter) ==
  iter = [s \in SUBSET S |-> IF s = {} THEN 0 ELSE v[Any(s)] + iter[s \ {Any(s)}]]
Units(S, v, M) == {p \in S \X (1..M) : p[2] <= v[p[1]]}

(* Terms and sets that are finite have finitely many units.                *)
LEMMA UnitsFinite ==
  ASSUME NEW S, IsFiniteSet(S), NEW M \in Nat, NEW v \in [S -> 0..M], NEW s \in SUBSET S
  PROVE  IsFiniteSet(Units(s, v, M)) /\ Cardinality(Units(s, v, M)) \in Nat
<1>1. IsFiniteSet(s) /\ IsFiniteSet(1..M)
  BY FS_Subset, FS_Interval
<1>2. IsFiniteSet(s \X (1..M))
  BY <1>1, FS_Product
<1>3. Units(s, v, M) \in SUBSET (s \X (1..M))
  BY DEF Units
<1> QED BY <1>2, <1>3, FS_Subset, FS_CardinalityType

(* A member adds as many units as its term counts.                         *)
LEMMA UnitsOfOne ==
  ASSUME NEW S, IsFiniteSet(S), NEW M \in Nat, NEW v \in [S -> 0..M], NEW s \in SUBSET S,
         NEW x \in s
  PROVE  Cardinality(Units(s, v, M)) = v[x] + Cardinality(Units(s \ {x}, v, M))
<1> DEFINE A == {x} \X (1..v[x])
           B == Units(s \ {x}, v, M)
<1>0. v[x] \in Nat /\ v[x] <= M
  OBVIOUS
<1>1. IsFiniteSet(A) /\ Cardinality(A) = v[x]
  <2>1. IsFiniteSet(1..v[x]) /\ Cardinality(1..v[x]) = v[x]
    <3>1. ASSUME NEW n \in Nat PROVE IsFiniteSet(1..n) /\ Cardinality(1..n) = n
      <4>1. 1 \in Int /\ n \in Int
        OBVIOUS
      <4>2. IsFiniteSet(1..n) /\ Cardinality(1..n) = IF 1 > n THEN 0 ELSE n - 1 + 1
        BY ONLY <4>1, FS_Interval
      <4> QED BY <4>2
    <3> QED BY <1>0, <3>1
  <2>2. IsFiniteSet({x}) /\ Cardinality({x}) = 1
    BY FS_Singleton
  <2>3. IsFiniteSet(A) /\ Cardinality(A) = Cardinality({x}) * Cardinality(1..v[x])
    BY <2>1, <2>2, FS_Product
  <2> QED BY <2>1, <2>2, <2>3, <1>0
<1>2. IsFiniteSet(B) /\ Cardinality(B) \in Nat
  BY UnitsFinite
<1>3. Units(s, v, M) = A \union B
  BY <1>0 DEF Units
<1>4. A \cap B = {}
  BY DEF Units
<1>5. Cardinality(A \union B) = Cardinality(A) + Cardinality(B) - Cardinality(A \cap B)
  <2> HIDE DEF A, B
  <2> QED BY <1>1, <1>2, FS_Union
<1>6. Cardinality(A \cap B) = 0
  BY <1>4, FS_EmptySet
<1>7. Cardinality(A \union B) = v[x] + Cardinality(B)
  <2> HIDE DEF A, B
  <2> QED BY <1>0, <1>1, <1>2, <1>5, <1>6
<1> QED BY <1>3, <1>7

LEMMA UnitsOfNone == ASSUME NEW v, NEW M PROVE Cardinality(Units({}, v, M)) = 0
<1>1. Units({}, v, M) = {}
  BY DEF Units
<1> QED BY <1>1, FS_EmptySet

(* The number of units is a sum; and there is only one, since two would    *)
(* differ first at a least set.                                            *)
LEMMA SumsExist ==
  ASSUME NEW S, IsFiniteSet(S), NEW M \in Nat, NEW v \in [S -> 0..M]
  PROVE  Sums(S, v, [s \in SUBSET S |-> Cardinality(Units(s, v, M))])
<1> DEFINE g == [s \in SUBSET S |-> Cardinality(Units(s, v, M))]
<1> SUFFICES ASSUME NEW s \in SUBSET S
             PROVE  g[s] = IF s = {} THEN 0 ELSE v[Any(s)] + g[s \ {Any(s)}]
  BY DEF Sums
<1>1. CASE s = {}
  BY <1>1, UnitsOfNone
<1>2. CASE s # {}
  <2>1. Any(s) \in s
    BY <1>2 DEF Any
  <2>2. s \ {Any(s)} \in SUBSET S
    OBVIOUS
  <2> QED BY <1>2, <2>1, <2>2, UnitsOfOne
<1> QED BY <1>1, <1>2

LEMMA SumsUnique ==
  ASSUME NEW S, IsFiniteSet(S), NEW M \in Nat, NEW v \in [S -> 0..M],
         NEW f, Sums(S, v, f), NEW g, Sums(S, v, g)
  PROVE  f = g
<1> DEFINE T == {n \in Nat : \E s \in SUBSET S : Cardinality(s) = n /\ f[s] # g[s]}
<1>0. \A s \in SUBSET S : IsFiniteSet(s) /\ Cardinality(s) \in Nat
  BY FS_Subset, FS_CardinalityType
<1>1. \A s \in SUBSET S :
        /\ f[s] = IF s = {} THEN 0 ELSE v[Any(s)] + f[s \ {Any(s)}]
        /\ g[s] = IF s = {} THEN 0 ELSE v[Any(s)] + g[s \ {Any(s)}]
  BY DEF Sums
<1>2. T = {}
  <2> SUFFICES ASSUME T # {} PROVE FALSE
    OBVIOUS
  <2>1. PICK m \in T : \A k \in T : m <= k
    <3>1. T \subseteq Nat
      OBVIOUS
    <3> HIDE DEF T
    <3> QED BY <3>1, LeastNatural
  <2>2. PICK s \in SUBSET S : Cardinality(s) = m /\ f[s] # g[s]
    BY <2>1
  <2>3. s # {}
    BY <2>2, <1>1
  <2>4. Any(s) \in s
    BY <2>3 DEF Any
  <2>5. Cardinality(s \ {Any(s)}) = m - 1
    BY <1>0, <2>2, <2>4, FS_RemoveElement
  <2>6. f[s \ {Any(s)}] # g[s \ {Any(s)}]
    BY <1>1, <2>2, <2>3
  <2>7. m - 1 \in T
    BY <1>0, <2>5, <2>6
  <2> QED BY <2>1, <2>7
<1>3. \A s \in SUBSET S : f[s] = g[s]
  BY <1>0, <1>2
<1>4. f = [s \in SUBSET S |-> f[s]] /\ g = [s \in SUBSET S |-> g[s]]
  BY DEF Sums
<1> QED BY <1>3, <1>4

-----------------------------------------------------------------------------
(* The worker's counts against the mailbox.                                *)
CountTypes ==
  /\ tally \in [Wake -> [Label -> 0..MaxMail]]
  /\ mailbox \in [Label -> Nat]
  /\ mishaps \in Nat
  /\ history \subseteq Wake /\ IsFiniteSet(history)
  /\ view \in [totals : Nat \union {Unread}, errors : Nat \union {Unread}]

(* The messages the history counts, and those that any wake has counted.   *)
Reported(l) == {p \in Wake \X (1..MaxMail) : p[1] \in history /\ outcome[p[1]] = "ran"
                                       /\ p[2] <= tally[p[1]][l]}

Counted(l) == {p \in Wake \X (1..MaxMail) : p[2] <= tally[p[1]][l]}

(* Every count is of a relabelled message, and without a mishap of each.   *)
CountedInv ==
  \A l \in Label :
    /\ IsFiniteSet(Counted(l))
    /\ Cardinality(Counted(l)) <= mailbox[l]
    /\ mishaps = 0 => Cardinality(Counted(l)) = mailbox[l]

(* A heartbeat in the history is of a wake that is over; without a mishap  *)
(* a wake that counted anything goes on to report it as a run.             *)
ReportOf(w) ==
  /\ w \in history => pc[w] \in Over
  /\ mishaps = 0 =>
       /\ pc[w] \in Over => w \in history
       /\ \/ tally[w] = Zero
          \/ pc[w] = "work"
          \/ outcome[w] = "ran"
             /\ pc[w] \in Close \union {"release", "report", "append"} \union Over

ReportInv == \A w \in Wake : ReportOf(w)

(* What a GET has read stays covered by the history, which only grows.     *)
ViewInv ==
  /\ view.totals # Unread => view.totals <= Total("failed")
  /\ view.errors # Unread => view.totals # Unread /\ view.errors >= view.totals

CountInv == CountTypes /\ CountedInv /\ ReportInv /\ ViewInv

(* The sum of a column of the history is the number of messages reported   *)
(* in it.                                                                  *)
LEMMA TotalCounts ==
  CountTypes => \A l \in Label : /\ IsFiniteSet(Reported(l))
                                 /\ Total(l) = Cardinality(Reported(l))
                                 /\ Total(l) \in Nat
<1> SUFFICES ASSUME CountTypes, NEW l \in Label
             PROVE  /\ IsFiniteSet(Reported(l))
                    /\ Total(l) = Cardinality(Reported(l))
                    /\ Total(l) \in Nat
  OBVIOUS
<1> DEFINE v == [w \in history |-> Counts(w)[l]]
           g == [s \in SUBSET history |-> Cardinality(Units(s, v, MaxMail))]
<1>1. MaxMail \in Nat /\ IsFiniteSet(history)
  BY WakeConstants DEF CountTypes
<1>2. v \in [history -> 0..MaxMail]
  BY <1>1 DEF Counts, Zero, CountTypes
<1>3. Sums(history, v, g)
  <2> HIDE DEF v
  <2> QED BY <1>1, <1>2, SumsExist
<1>4. Total(l) = g[history]
  <2> DEFINE Adds(iter) == iter = [s \in SUBSET history |->
               IF s = {} THEN 0 ELSE Counts(CHOOSE x \in s : TRUE)[l]
                                     + iter[s \ {CHOOSE x \in s : TRUE}]]
  <2>1. Total(l) = (CHOOSE iter : Adds(iter))[history]
    BY DEF Total, MapThenSumSet, MapThenFoldSet
  <2>2. ASSUME NEW iter PROVE Adds(iter) <=> Sums(history, v, iter)
    <3>1. \A s \in SUBSET history :
            s # {} => v[CHOOSE x \in s : TRUE] = Counts(CHOOSE x \in s : TRUE)[l]
      OBVIOUS
    <3> HIDE DEF v
    <3> QED BY <3>1 DEF Sums, Any
  <2> HIDE DEF v, g, Adds
  <2>3. Adds(CHOOSE iter : Adds(iter))
    BY <1>3, <2>2
  <2>4. (CHOOSE iter : Adds(iter)) = g
    BY <1>1, <1>2, <1>3, <2>2, <2>3, SumsUnique
  <2> QED BY <2>1, <2>4
<1>5. Units(history, v, MaxMail) = Reported(l)
  BY <1>1 DEF Units, Reported, Counts, Zero, CountTypes
<1>6. IsFiniteSet(Units(history, v, MaxMail)) /\ Cardinality(Units(history, v, MaxMail)) \in Nat
  <2> HIDE DEF v
  <2> QED BY <1>1, <1>2, UnitsFinite
<1> HIDE DEF v
<1> QED BY <1>3, <1>4, <1>5, <1>6

(* A wake that counts one message more adds one to the total.              *)
LEMMA TotalCountsNext ==
  CountTypes' => \A l \in Label : /\ IsFiniteSet(Reported(l)')
                                  /\ Total(l)' = Cardinality(Reported(l)')
                                  /\ Total(l)' \in Nat
<1>1. (CountTypes => \A l \in Label : /\ IsFiniteSet(Reported(l))
                                      /\ Total(l) = Cardinality(Reported(l))
                                      /\ Total(l) \in Nat)'
  BY TotalCounts, PTL
<1> QED BY <1>1

(* Mishaps are counted up.                                                 *)
LEMMA MishapsGrow == CountTypes /\ [Next]_vars => mishaps' \in Nat /\ (mishaps' = 0 => mishaps = 0)
<1> SUFFICES ASSUME CountTypes, [Next]_vars PROVE mishaps' = mishaps \/ Mishap
  BY DEF CountTypes, Mishap
<1> QED
  BY DEF Next, Step, Begin, Gate, Enter, Refused, GetFieldExtractor, Compose, PreflightGmail,
         PreflightTrello, BuildMembretes, Relabel, WorkEnds, CloseClients, CloseClient,
         Release, Report, Append, Kill, SetEnabled, ChangeAccess, ReadTotals, ReadErrorRuns,
         vars, others

(* Counts stay within the mailbox.                                         *)
LEMMA CountTypesStep == CountTypes /\ [Next]_vars => CountTypes'
<1> SUFFICES ASSUME CountTypes, [Next]_vars PROVE CountTypes'
  OBVIOUS
<1> USE DEF CountTypes, tables, others, Mishap
<1>1. ASSUME NEW w \in Wake, Begin(w) \/ Gate(w) \/ Enter(w) \/ Refused(w) PROVE CountTypes'
  BY <1>1 DEF Begin, Gate, Enter, Refused, Lease!Enter
<1>2. ASSUME NEW w \in Wake, GetFieldExtractor(w) \/ Compose(w) \/ BuildMembretes(w)
      PROVE  CountTypes'
  BY <1>2 DEF GetFieldExtractor, Compose, BuildMembretes
<1>3. ASSUME NEW w \in Wake, PreflightGmail(w) \/ PreflightTrello(w) PROVE CountTypes'
  BY <1>3 DEF PreflightGmail, PreflightTrello, Verdict, Opens
<1>4. ASSUME NEW w \in Wake, NEW l \in Label, Relabel(w, l) PROVE CountTypes'
  <2>1. tally' \in [Wake -> [Label -> 0..MaxMail]]
    <3>1. tally[w]["processed"] + tally[w]["failed"] < MaxMail
      BY <1>4 DEF Relabel
    <3>2. tally[w][l] + 1 \in 0..MaxMail
      BY <3>1, WakeConstants DEF Label
    <3> QED BY <1>4, <3>2 DEF Relabel
  <2>2. mailbox' \in [Label -> Nat]
    BY <1>4 DEF Relabel
  <2> QED BY <1>4, <2>1, <2>2 DEF Relabel
<1>5. ASSUME NEW w \in Wake, WorkEnds(w) PROVE CountTypes'
  BY <1>5 DEF WorkEnds
<1>6. ASSUME NEW w \in Wake, CloseClients(w) PROVE CountTypes'
  BY <1>6 DEF CloseClients, CloseClient
<1>7. ASSUME NEW w \in Wake, Release(w) \/ Report(w) PROVE CountTypes'
  BY <1>7 DEF Release, Report, Lease!Leave
<1>8. ASSUME NEW w \in Wake, Append(w) PROVE CountTypes'
  <2>1. history' = history \union {w} \/ history' = history
    BY <1>8 DEF Append
  <2>2. IsFiniteSet(history')
    <3>1. IsFiniteSet(history \union {w})
      BY FS_AddElement
    <3> QED BY <2>1, <3>1
  <2> QED BY <1>8, <2>1, <2>2 DEF Append
<1>9. ASSUME NEW w \in Wake, Kill(w) PROVE CountTypes'
  BY <1>9 DEF Kill
<1>10. ASSUME \/ \E value \in {"on", "off"} : SetEnabled(value)
              \/ \E client \in {"gmail", "trello"} : ChangeAccess(client)
              \/ UNCHANGED vars
      PROVE  CountTypes'
  BY <1>10 DEF SetEnabled, ChangeAccess, vars
<1>11. ASSUME ReadTotals \/ ReadErrorRuns PROVE CountTypes'
  <2>1. Total("failed") \in Nat
    BY TotalCounts DEF CountTypes, Label
  <2> QED BY <1>11, <2>1 DEF ReadTotals, ReadErrorRuns
<1> QED
  BY <1>1, <1>2, <1>3, <1>4, <1>5, <1>6, <1>7, <1>8, <1>9, <1>10, <1>11 DEF Next, Step

(* A relabel adds its message to the mailbox and, if its answer arrives,   *)
(* to the counts.                                                          *)
LEMMA CountedStep == CountTypes /\ CountedInv /\ [Next]_vars => CountedInv'
<1> SUFFICES ASSUME CountTypes, CountedInv, [Next]_vars PROVE CountedInv'
  OBVIOUS
<1> USE DEF CountedInv
<1>1. ASSUME UNCHANGED <<tally, mailbox>> PROVE CountedInv'
  BY <1>1, MishapsGrow DEF Counted
<1>2. ASSUME NEW w \in Wake, NEW l \in Label, Relabel(w, l) PROVE CountedInv'
  <2>1. tally[w]["processed"] + tally[w]["failed"] < MaxMail
    BY <1>2 DEF Relabel
  <2>2. tally[w][l] + 1 \in 1..MaxMail
    BY <2>1, WakeConstants DEF Label, CountTypes
  <2>3. CASE tally' = [tally EXCEPT ![w][l] = @ + 1] /\ UNCHANGED mishaps
    <3>1. Counted(l)' = Counted(l) \union {<<w, tally[w][l] + 1>>}
      BY <2>2, <2>3 DEF Counted, CountTypes
    <3>2. <<w, tally[w][l] + 1>> \notin Counted(l)
      BY <2>2 DEF Counted, CountTypes
    <3>3. IsFiniteSet(Counted(l)') /\ Cardinality(Counted(l)') = Cardinality(Counted(l)) + 1
      BY <3>1, <3>2, FS_AddElement
    <3>4. \A k \in Label \ {l} : Counted(k)' = Counted(k)
      BY <2>3 DEF Counted, CountTypes
    <3>5. /\ mailbox'[l] = mailbox[l] + 1
          /\ \A k \in Label \ {l} : mailbox'[k] = mailbox[k]
      BY <1>2 DEF Relabel, CountTypes
    <3>6. Cardinality(Counted(l)) \in Nat /\ mailbox[l] \in Nat
      BY FS_CardinalityType DEF CountTypes
    <3> QED BY <2>3, <3>3, <3>4, <3>5, <3>6
  <2>4. CASE mishaps' > 0 /\ UNCHANGED tally
    <3>1. \A k \in Label : Counted(k)' = Counted(k)
      BY <2>4 DEF Counted
    <3>2. \A k \in Label : mailbox[k] \in Nat /\ mailbox'[k] >= mailbox[k] /\ mailbox'[k] \in Nat
      BY <1>2 DEF Relabel, CountTypes
    <3>3. \A k \in Label : Cardinality(Counted(k)) \in Nat
      BY FS_CardinalityType
    <3> QED BY <2>4, <3>1, <3>2, <3>3
  <2> QED BY <1>2, <2>3, <2>4 DEF Relabel, Mishap, CountTypes
<1>3. \/ UNCHANGED <<tally, mailbox>>
      \/ \E w \in Wake, l \in Label : Relabel(w, l)
  BY DEF Next, Step, Begin, Gate, Enter, Refused, GetFieldExtractor, Compose, PreflightGmail,
         PreflightTrello, BuildMembretes, WorkEnds, CloseClients, CloseClient, Release,
         Report, Append, Kill, SetEnabled, ChangeAccess, ReadTotals, ReadErrorRuns, vars
<1> QED BY <1>1, <1>2, <1>3

(* What was counted is reported, unless a mishap intervenes.               *)
LEMMA ReportStep == WakeTypes /\ CountTypes /\ ReportInv /\ [Next]_vars => ReportInv'
<1> SUFFICES ASSUME WakeTypes, CountTypes, ReportInv, [Next]_vars PROVE ReportInv'
  OBVIOUS
<1>0. mishaps' \in Nat /\ (mishaps' = 0 => mishaps = 0)
  BY MishapsGrow
<1> DEFINE Same(v) == /\ pc'[v] = pc[v] /\ outcome'[v] = outcome[v]
                      /\ tally'[v] = tally[v] /\ (v \in history' <=> v \in history)
<1>same. ASSUME NEW v \in Wake, Same(v) PROVE ReportOf(v)'
  BY <1>0, <1>same DEF ReportInv, ReportOf
<1> USE DEF WakeTypes, CountTypes, Over, Close, Goto, Exit, tables, others, Mishap
<1>1. ASSUME NEW w \in Wake, Begin(w) \/ Gate(w) \/ Enter(w) \/ Refused(w) PROVE ReportInv'
  <2>1. \A v \in Wake \ {w} : Same(v)
    BY <1>1 DEF Begin, Gate, Enter, Refused, Lease!Enter
  <2>2. ReportOf(w)'
    <3>1. CASE Begin(w)
      BY <3>1, <1>0 DEF Begin, ReportInv, ReportOf
    <3>2. CASE Gate(w)
      BY <3>2, <1>0 DEF Gate, ReportInv, ReportOf
    <3>3. CASE Enter(w)
      BY <3>3, <1>0 DEF Enter, Lease!Enter, ReportInv, ReportOf
    <3>4. CASE Refused(w)
      BY <3>4, <1>0, ZenonT(60) DEF Refused, ReportInv, ReportOf
    <3> QED BY <1>1, <3>1, <3>2, <3>3, <3>4
  <2> QED BY <1>same, <2>1, <2>2 DEF ReportInv
<1>2. ASSUME NEW w \in Wake, GetFieldExtractor(w) \/ Compose(w) \/ BuildMembretes(w) PROVE ReportInv'
  <2>1. \A v \in Wake \ {w} : Same(v)
    BY <1>2 DEF GetFieldExtractor, Compose, BuildMembretes
  <2>2. ReportOf(w)'
    <3>1. CASE GetFieldExtractor(w)
      BY <3>1, <1>0, ZenonT(60) DEF GetFieldExtractor, ReportInv, ReportOf
    <3>2. CASE Compose(w)
      BY <3>2, <1>0, ZenonT(60) DEF Compose, ReportInv, ReportOf
    <3>3. CASE BuildMembretes(w)
      BY <3>3, <1>0 DEF BuildMembretes, ReportInv, ReportOf
    <3> QED BY <1>2, <3>1, <3>2, <3>3
  <2> QED BY <1>same, <2>1, <2>2 DEF ReportInv
<1>3. ASSUME NEW w \in Wake, PreflightGmail(w) \/ PreflightTrello(w) PROVE ReportInv'
  <2>1. \A v \in Wake \ {w} : Same(v)
    BY <1>3 DEF PreflightGmail, PreflightTrello, Verdict, Opens
  <2>2. ReportOf(w)'
    <3>1. CASE PreflightGmail(w)
      BY <3>1, <1>0, ZenonT(60) DEF PreflightGmail, Verdict, Opens, ReportInv, ReportOf
    <3>2. CASE PreflightTrello(w)
      BY <3>2, <1>0, ZenonT(60) DEF PreflightTrello, Verdict, Opens, ReportInv, ReportOf
    <3> QED BY <1>3, <3>1, <3>2
  <2> QED BY <1>same, <2>1, <2>2 DEF ReportInv
<1>4. ASSUME NEW w \in Wake, \E l \in Label : Relabel(w, l) PROVE ReportInv'
  <2>1. \A v \in Wake \ {w} : Same(v)
    BY <1>4 DEF Relabel
  <2>2. ReportOf(w)'
    BY <1>4, <1>0 DEF Relabel, ReportInv, ReportOf
  <2> QED BY <1>same, <2>1, <2>2 DEF ReportInv
<1>5. ASSUME NEW w \in Wake, WorkEnds(w) PROVE ReportInv'
  <2>1. \A v \in Wake \ {w} : Same(v)
    BY <1>5 DEF WorkEnds
  <2>2. ReportOf(w)'
    BY <1>5, <1>0 DEF WorkEnds, ReportInv, ReportOf
  <2> QED BY <1>same, <2>1, <2>2 DEF ReportInv
<1>6. ASSUME NEW w \in Wake, CloseClients(w) PROVE ReportInv'
  <2>1. \A v \in Wake \ {w} : Same(v)
    BY <1>6 DEF CloseClients, CloseClient
  <2>2. ReportOf(w)'
    BY <1>6, <1>0 DEF CloseClients, CloseClient, ReportInv, ReportOf
  <2> QED BY <1>same, <2>1, <2>2 DEF ReportInv
<1>7. ASSUME NEW w \in Wake, Release(w) \/ Report(w) PROVE ReportInv'
  <2>1. \A v \in Wake \ {w} : Same(v)
    BY <1>7 DEF Release, Report, Lease!Leave
  <2>2. ReportOf(w)'
    BY <1>7, <1>0 DEF Release, Report, Lease!Leave, ReportInv, ReportOf
  <2> QED BY <1>same, <2>1, <2>2 DEF ReportInv
<1>8. ASSUME NEW w \in Wake, Append(w) PROVE ReportInv'
  <2>1. \A v \in Wake \ {w} : Same(v)
    BY <1>8 DEF Append
  <2>2. ReportOf(w)'
    BY <1>8, <1>0 DEF Append, ReportInv, ReportOf
  <2> QED BY <1>same, <2>1, <2>2 DEF ReportInv
<1>9. ASSUME NEW w \in Wake, Kill(w) PROVE ReportInv'
  <2>1. \A v \in Wake \ {w} : Same(v)
    BY <1>9 DEF Kill
  <2>2. ReportOf(w)'
    BY <1>9, <1>0 DEF Kill, ReportInv, ReportOf
  <2> QED BY <1>same, <2>1, <2>2 DEF ReportInv
<1>10. ASSUME \/ \E value \in {"on", "off"} : SetEnabled(value)
              \/ \E client \in {"gmail", "trello"} : ChangeAccess(client)
              \/ ReadTotals \/ ReadErrorRuns \/ UNCHANGED vars
      PROVE  ReportInv'
  <2>1. \A v \in Wake : Same(v)
    BY <1>10 DEF SetEnabled, ChangeAccess, ReadTotals, ReadErrorRuns, vars
  <2> QED BY <1>same, <2>1 DEF ReportInv
<1> QED
  BY <1>1, <1>2, <1>3, <1>4, <1>5, <1>6, <1>7, <1>8, <1>9, <1>10 DEF Next, Step

(* The history only grows, and what it holds does not change any more: the *)
(* totals never fall.                                                      *)
LEMMA TotalsGrow ==
  WakeTypes /\ CountTypes /\ ReportInv /\ [Next]_vars =>
    \A l \in Label : Total(l)' \in Nat /\ Total(l)' >= Total(l)
<1> SUFFICES ASSUME WakeTypes, CountTypes, ReportInv, [Next]_vars, NEW l \in Label
             PROVE  Total(l)' \in Nat /\ Total(l)' >= Total(l)
  OBVIOUS
<1>1. CountTypes'
  BY CountTypesStep
<1>2. /\ IsFiniteSet(Reported(l)')
      /\ Total(l)' = Cardinality(Reported(l)')
      /\ Total(l)' \in Nat
  BY <1>1, TotalCountsNext
<1>3. history \subseteq history'
  BY DEF Next, Step, Begin, Gate, Enter, Refused, GetFieldExtractor, Compose, PreflightGmail,
         PreflightTrello, BuildMembretes, Relabel, WorkEnds, CloseClients, CloseClient,
         Release, Report, Append, Kill, SetEnabled, ChangeAccess, ReadTotals, ReadErrorRuns,
         vars, tables
<1>4. ASSUME NEW w \in Wake, pc[w] \in Over
      PROVE  outcome'[w] = outcome[w] /\ tally'[w] = tally[w]
  BY <1>4
  DEF Next, Step, Begin, Gate, Enter, Refused, GetFieldExtractor, Compose, PreflightGmail,
         PreflightTrello, Verdict, BuildMembretes, Relabel, WorkEnds, CloseClients, CloseClient,
         Release, Report, Append, Kill, SetEnabled, ChangeAccess, ReadTotals, ReadErrorRuns,
         vars, others, Exit, Goto, Over, WakeTypes, CountTypes
<1>5. Reported(l) \in SUBSET (Reported(l)')
  BY <1>3, <1>4 DEF Reported, ReportInv, ReportOf, CountTypes
<1>6. Cardinality(Reported(l)) <= Cardinality(Reported(l)')
  BY <1>1, <1>2, <1>5, FS_Subset
<1> QED BY <1>1, <1>2, <1>6, TotalCounts

(* So what a GET has read stays covered.                                   *)
LEMMA ViewStep ==
  WakeTypes /\ CountTypes /\ ReportInv /\ ViewInv /\ [Next]_vars => ViewInv'
<1> SUFFICES ASSUME WakeTypes, CountTypes, ReportInv, ViewInv, [Next]_vars PROVE ViewInv'
  OBVIOUS
<1>0. /\ Total("failed") = Cardinality(Reported("failed"))
      /\ Total("failed")' = Cardinality(Reported("failed")')
  BY TotalCounts, TotalCountsNext, CountTypesStep DEF Label
<1>1. /\ Total("failed") \in Nat /\ Total("failed")' \in Nat
      /\ Total("failed")' >= Total("failed")
  BY TotalCounts, TotalsGrow DEF Label
<1> USE DEF ViewInv, CountTypes, Unread
<1>2. CASE UNCHANGED view
  BY <1>1, <1>2
<1>3. CASE ReadTotals
  <2>1. Total("failed")' = Total("failed")
    <3>1. UNCHANGED <<history, outcome, tally>>
      BY <1>3 DEF ReadTotals, tables
    <3>2. Reported("failed")' = Reported("failed")
      BY <3>1 DEF Reported
    <3> QED BY <1>0, <3>2
  <2> QED BY <1>1, <1>3, <2>1 DEF ReadTotals
<1>4. CASE ReadErrorRuns
  BY <1>1, <1>4 DEF ReadErrorRuns
<1>5. UNCHANGED view \/ ReadTotals \/ ReadErrorRuns
  BY DEF Next, Step, Begin, Gate, Enter, Refused, GetFieldExtractor, Compose, PreflightGmail,
         PreflightTrello, BuildMembretes, Relabel, WorkEnds, CloseClients, CloseClient,
         Release, Report, Append, Kill, SetEnabled, ChangeAccess, vars, others
<1> QED BY <1>2, <1>3, <1>4, <1>5

LEMMA CountInvInit == Init => CountInv
<1> SUFFICES ASSUME Init PROVE CountInv
  OBVIOUS
<1>1. CountTypes
  BY WakeConstants, FS_EmptySet DEF Init, CountTypes, Zero, Unread
<1>2. CountedInv
  <2> SUFFICES ASSUME NEW l \in Label PROVE Counted(l) = {}
    BY FS_EmptySet DEF CountedInv, Init, Zero
  <2> QED BY DEF Counted, Init, Zero
<1>3. ReportInv /\ ViewInv
  BY DEF Init, ReportInv, ReportOf, ViewInv, Over
<1> QED BY <1>1, <1>2, <1>3 DEF CountInv

(* The inductive invariant of the counts.                                  *)
THEOREM CountInvariant == Spec => []CountInv
<1>1. WakeInv /\ CountInv /\ [Next]_vars => CountInv'
  BY CountTypesStep, CountedStep, ReportStep, ViewStep DEF CountInv, WakeInv
<1> QED BY CountInvInit, <1>1, WakeInvariant, PTL DEF Spec

(* The totals of the dashboard never claim a message that was not          *)
(* relabelled, are exact when nothing went wrong, and the error events of  *)
(* one answer cover its emails_failed, for any number of wakes.            *)
THEOREM WakeHistoryMatchesMailbox == Spec => []HistoryMatchesMailbox
<1>1. CountInv => HistoryMatchesMailbox
  <2> SUFFICES ASSUME CountInv, NEW l \in Label
               PROVE  /\ Total(l) <= mailbox[l]
                      /\ mishaps = 0 /\ (\A w \in Wake : pc[w] \in {"idle"} \union Over)
                           => Total(l) = mailbox[l]
    BY DEF HistoryMatchesMailbox, CountInv, ViewInv
  <2>1. /\ IsFiniteSet(Reported(l)) /\ Total(l) = Cardinality(Reported(l))
        /\ Total(l) \in Nat
    BY TotalCounts DEF CountInv
  <2>2. /\ IsFiniteSet(Counted(l))
        /\ Cardinality(Counted(l)) <= mailbox[l]
        /\ mishaps = 0 => Cardinality(Counted(l)) = mailbox[l]
    BY DEF CountInv, CountedInv
  <2>3. Cardinality(Counted(l)) \in Nat /\ mailbox[l] \in Nat
    BY <2>2, FS_CardinalityType DEF CountInv, CountTypes
  <2>4. Cardinality(Reported(l)) <= Cardinality(Counted(l))
    <3>1. Reported(l) \in SUBSET Counted(l)
      BY DEF Reported, Counted
    <3> QED BY <2>2, <3>1, FS_Subset
  <2>5. ASSUME mishaps = 0, \A w \in Wake : pc[w] \in {"idle"} \union Over
        PROVE  Reported(l) = Counted(l)
    <3>1. ASSUME NEW w \in Wake, tally[w] # Zero PROVE w \in history /\ outcome[w] = "ran"
      BY <2>5, <3>1 DEF CountInv, ReportInv, ReportOf, Over, Close
    <3>2. ASSUME NEW p \in Counted(l) PROVE tally[p[1]] # Zero
      BY WakeConstants DEF Counted, Zero
    <3> QED BY <3>1, <3>2 DEF Reported, Counted
  <2> QED BY <2>1, <2>2, <2>3, <2>4, <2>5
<1> QED BY <1>1, CountInvariant, PTL
=============================================================================
