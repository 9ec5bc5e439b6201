--------------------------- MODULE TelemetryProofs ---------------------------
(***************************************************************************)
(* Safety of Telemetry and of the digest it feeds, for any wakes of a day, *)
(* any rows that requests log, any number of mishaps, and any limits of    *)
(* the digest's body.                                                      *)
(***************************************************************************)
EXTENDS Telemetry, FiniteSetTheorems, WellFoundedInduction, TLAPS

(* The rows of a query result: finitely many, with integer severities.     *)
Rows(R) == IsFiniteSet(R) /\ \A r \in R : r.severity \in Int

RowInv ==
  /\ buf = [p \in Provider |-> buf[p]]
  /\ \A p \in Provider : Rows(buf[p])
  /\ Rows(insights)

(* What no buffer holds any more, or never held.                           *)
Gone == insights \union lost

(* Only a wake of the timer flushes, with a thread that it starts itself.  *)
ThreadInv ==
  \A w \in Wake :
    /\ wake[w] \in {"idle", "run", "flush"} => flusher[w] = "none"
    /\ wake[w] = "join" => flusher[w] # "none"
    /\ wake[w] \in {"flush", "join"} \/ flusher[w] # "none" => w \in Timer

(* The rows of a wake whose flush has not been given up: each provider's   *)
(* are gone once its buffer was found empty, and all are when it has ended.*)
DeliverOf(w) ==
  /\ wake[w] \in {"flush", "join"} =>
       /\ LogRows(w, outcome[w]) \subseteq Gone \union buf["logs"]
       /\ SpanRows(w, outcome[w]) \subseteq Gone \union buf["spans"]
  /\ wake[w] = "join" /\ flusher[w] \in {"logs", "done"} => SpanRows(w, outcome[w]) \subseteq Gone
  /\ wake[w] = "join" /\ flusher[w] = "done" => LogRows(w, outcome[w]) \subseteq Gone
  /\ wake[w] = "ended" => LogRows(w, outcome[w]) \union SpanRows(w, outcome[w]) \subseteq Gone

DeliverInv == \A w \in Timer \ abandoned : DeliverOf(w)

(* No wake goes on after the night's digest.                               *)
NightInv == digest = NoDigest \/ \A w \in Wake : wake[w] \in {"ended", "dead"}

ReportInv == TypeOK /\ RowInv /\ ThreadInv /\ DeliverInv /\ NightInv /\ DigestIsHonest

LEMMA ReportInvInit == Init => ReportInv
<1> SUFFICES ASSUME Init PROVE ReportInv
  OBVIOUS
<1> USE DEF Init
<1>1. TypeOK
  BY DEF TypeOK
<1>2. RowInv
  BY FS_EmptySet DEF RowInv, Rows, Empty
<1>3. ThreadInv /\ DeliverInv
  BY TelemetryConstants DEF ThreadInv, DeliverInv, DeliverOf
<1>4. NightInv /\ DigestIsHonest
  BY DEF NightInv, DigestIsHonest, NoDigest
<1> QED BY <1>1, <1>2, <1>3, <1>4 DEF ReportInv
-----------------------------------------------------------------------------
(* Every action keeps the types of the variables.                          *)
LEMMA TypesStep == TypeOK /\ ThreadInv /\ [Next]_vars => TypeOK'
<1> SUFFICES ASSUME TypeOK, ThreadInv, [Next]_vars PROVE TypeOK'
  OBVIOUS
<1> USE TelemetryConstants DEF TypeOK, process, rows, rest, At, Thread
<1>1. CASE Boot \/ Kill
  BY <1>1 DEF Boot, Kill
<1>2. CASE Ingestion \/ Nightly \/ UNCHANGED vars
  BY <1>2 DEF Ingestion, Hang, Recover, Nightly, vars
<1>3. ASSUME NEW w \in Wake, Begin(w) PROVE TypeOK'
  BY <1>3 DEF Begin
<1>4. ASSUME NEW w \in Wake, NEW o \in Outcome, Finish(w, o) PROVE TypeOK'
  BY <1>4 DEF Finish
<1>5. ASSUME NEW w \in Wake, StartFlush(w) PROVE TypeOK'
  BY <1>5 DEF StartFlush, ThreadInv
<1>6. ASSUME NEW w \in Wake, JoinEnds(w) \/ JoinTimesOut(w) PROVE TypeOK'
  BY <1>6 DEF JoinEnds, JoinTimesOut, ThreadInv
<1>7. ASSUME NEW w \in Wake, LockFlush(w) PROVE TypeOK'
  BY <1>7 DEF LockFlush
<1>8. ASSUME NEW w \in Wake, NEW p \in Provider, FlushProvider(w, p) PROVE TypeOK'
  <2>1. w \in Timer
    BY <1>8 DEF FlushProvider, ThreadInv, Provider
  <2>2. NextProvider(w) =>
          /\ flusher' \in [Wake -> {"none", "lock", "spans", "logs", "done"}]
          /\ lock' \in Wake \union {NoWake}
    BY DEF NextProvider
  <2> QED BY <1>8, <2>1, <2>2 DEF FlushProvider
<1>9. ASSUME NEW p \in Provider, BackgroundExport(p) PROVE TypeOK'
  BY <1>9 DEF BackgroundExport
<1>10. ASSUME NEW r \in Noise, RouteLogs(r) PROVE TypeOK'
  BY <1>10 DEF RouteLogs
<1> QED
  BY <1>1, <1>2, <1>3, <1>4, <1>5, <1>6, <1>7, <1>8, <1>9, <1>10 DEF Next

(* A flush thread belongs to its wake.                                     *)
LEMMA ThreadStep == TypeOK /\ ThreadInv /\ [Next]_vars => ThreadInv'
<1> SUFFICES ASSUME TypeOK, ThreadInv, [Next]_vars PROVE ThreadInv'
  OBVIOUS
<1> USE TelemetryConstants DEF TypeOK, ThreadInv, process, rows, rest, At, Thread
<1>1. CASE Boot \/ Kill
  BY <1>1 DEF Boot, Kill
<1>2. CASE Ingestion \/ Nightly \/ UNCHANGED vars
  BY <1>2 DEF Ingestion, Nightly, vars
<1>3. ASSUME NEW w \in Wake, Begin(w) PROVE ThreadInv'
  BY <1>3 DEF Begin
<1>4. ASSUME NEW w \in Wake, NEW o \in Outcome, Finish(w, o) PROVE ThreadInv'
  BY <1>4 DEF Finish, Flushes
<1>5. ASSUME NEW w \in Wake, StartFlush(w) PROVE ThreadInv'
  BY <1>5 DEF StartFlush
<1>6. ASSUME NEW w \in Wake, JoinEnds(w) \/ JoinTimesOut(w) PROVE ThreadInv'
  BY <1>6 DEF JoinEnds, JoinTimesOut
<1>7. ASSUME NEW w \in Wake, LockFlush(w) PROVE ThreadInv'
  BY <1>7 DEF LockFlush
<1>8. ASSUME NEW w \in Wake, NEW p \in Provider, FlushProvider(w, p) PROVE ThreadInv'
  BY <1>8 DEF FlushProvider, NextProvider, Provider
<1>9. ASSUME NEW p \in Provider, BackgroundExport(p) PROVE ThreadInv'
  BY <1>9 DEF BackgroundExport
<1>10. ASSUME NEW r \in Noise, RouteLogs(r) PROVE ThreadInv'
  BY <1>10 DEF RouteLogs
<1> QED
  BY <1>1, <1>2, <1>3, <1>4, <1>5, <1>6, <1>7, <1>8, <1>9, <1>10 DEF Next
-----------------------------------------------------------------------------
(* Rows.                                                                   *)
LEMMA RowsUnion == ASSUME NEW A, NEW B, Rows(A), Rows(B) PROVE Rows(A \union B)
  BY FS_Union DEF Rows

LEMMA RowsOfOne == ASSUME NEW r, r.severity \in Int PROVE Rows({r})
  BY FS_Singleton DEF Rows

LEMMA RowsOfLine == ASSUME NEW w, NEW text, NEW n \in Int PROVE Rows({Line(w, text, n)})
<1>1. Line(w, text, n).severity = n
  BY DEF Line
<1> QED BY <1>1, RowsOfOne

(* The rows of a wake are rows that the query returns.                     *)
LEMMA RowsOfWake ==
  ASSUME NEW w, NEW o
  PROVE  Rows({}) /\ Rows(LogRows(w, o)) /\ Rows(SpanRows(w, o))
<1>1. Rows({})
  BY FS_EmptySet DEF Rows
<1>2. Rows({Heartbeat(w)}) /\ Rows({Line(w, "no_access", 2)})
  BY RowsOfLine DEF Heartbeat
<1>3. Rows({Failure(w)})
  <2>1. Failure(w).severity \in Int
    BY DEF Failure, Line, NoSeverity
  <2> QED BY <2>1, RowsOfOne
<1>4. Rows(LogRows(w, o))
  BY <1>1, <1>2, RowsUnion DEF LogRows
<1>5. Rows(SpanRows(w, o))
  BY <1>1, <1>3 DEF SpanRows
<1> QED BY <1>1, <1>4, <1>5

(* A record is buffered or lost, and nothing else changes place.           *)
LEMMA EmitEffect ==
  ASSUME RowInv, NEW A, NEW B, Rows(A), Rows(B), Emit(A, B), UNCHANGED insights
  PROVE  /\ RowInv'
         /\ Gone \subseteq Gone'
         /\ buf["logs"] \union A \subseteq Gone' \union buf'["logs"]
         /\ buf["spans"] \union B \subseteq Gone' \union buf'["spans"]
<1>1. CASE installed
  <2>1. /\ buf' = [buf EXCEPT !["logs"] = @ \union A, !["spans"] = @ \union B]
        /\ UNCHANGED lost
    BY <1>1 DEF Emit
  <2>2. /\ buf'["logs"] = buf["logs"] \union A /\ buf'["spans"] = buf["spans"] \union B
        /\ buf' = [p \in Provider |-> buf'[p]]
    BY <2>1 DEF RowInv, Provider
  <2>3. Rows(buf'["logs"]) /\ Rows(buf'["spans"])
    BY <2>2, RowsUnion DEF RowInv, Provider
  <2> QED BY <2>1, <2>2, <2>3 DEF RowInv, Gone, Provider
<1>2. CASE ~installed
  BY <1>2 DEF Emit, RowInv, Gone
<1> QED BY <1>1, <1>2

(* A batch goes; the exporter's own records do not come back.              *)
LEMMA ExportEffect ==
  ASSUME RowInv, NEW p \in Provider, Export(p)
  PROVE  /\ RowInv' /\ buf' = [buf EXCEPT ![p] = {}]
         /\ Gone \union buf[p] \subseteq Gone'
         /\ \A q \in Provider : buf[q] \subseteq Gone' \union buf'[q]
<1>1. ExportLogs = {}
  BY DEF ExportLogs, Dropped
<1>2. buf' = [buf EXCEPT ![p] = {}]
  BY <1>1 DEF Export, RowInv, Provider
<1>3. Rows({}) /\ Rows(insights')
  BY RowsUnion, FS_EmptySet DEF Export, RowInv, Rows
<1>4. RowInv'
  BY <1>2, <1>3 DEF RowInv, Provider
<1>5. Gone \union buf[p] \subseteq Gone'
  BY DEF Export, Gone
<1>6. \A q \in Provider : q # p => buf'[q] = buf[q]
  BY <1>2 DEF RowInv
<1> QED BY <1>2, <1>4, <1>5, <1>6

(* Every action keeps the rows, and none is forgotten while the process    *)
(* lives.                                                                  *)
Kept ==
  /\ Gone \subseteq Gone'
  /\ \A p \in Provider : buf[p] \subseteq Gone' \union buf'[p]
  /\ abandoned \subseteq abandoned'

LEMMA RowsStep ==
  ASSUME RowInv, [Next]_vars PROVE RowInv' /\ (Kept \/ Kill)
<1> DEFINE Good == RowInv' /\ (Kept \/ Kill)
<1> USE DEF process, rows, rest
<1>0. UNCHANGED rows /\ UNCHANGED abandoned => Good
  BY DEF RowInv, Kept, Gone
<1>1. CASE Boot
  BY <1>0, <1>1 DEF Boot
<1>2. CASE Kill
  <2>1. buf' = Empty /\ UNCHANGED insights
    BY <1>2 DEF Kill
  <2>2. buf' = [p \in Provider |-> buf'[p]] /\ (\A p \in Provider : buf'[p] = {}) /\ Rows({})
    BY <2>1, FS_EmptySet DEF Empty, Rows
  <2> QED BY <1>2, <2>1, <2>2 DEF RowInv
<1>3. CASE Ingestion \/ Nightly \/ UNCHANGED vars
  BY <1>0, <1>3 DEF Ingestion, Nightly, vars
<1>4. ASSUME NEW w \in Wake, Begin(w) \/ JoinEnds(w) \/ LockFlush(w) PROVE Good
  BY <1>0, <1>4 DEF Begin, JoinEnds, LockFlush
<1>5. ASSUME NEW w \in Wake, NEW o \in Outcome, Finish(w, o) PROVE Good
  <2>1. Emit(LogRows(w, o), SpanRows(w, o)) /\ UNCHANGED <<insights, abandoned>>
    BY <1>5 DEF Finish
  <2> QED BY <2>1, RowsOfWake, EmitEffect DEF Kept, Provider
<1>6. ASSUME NEW w \in Wake, StartFlush(w) \/ JoinTimesOut(w) PROVE Good
  <2>1. Rows({Line(w, "unstarted", 2)}) /\ Rows({Line(w, "abandoned", 1)}) /\ Rows({})
    BY RowsOfLine, RowsOfWake
  <2>2. \/ UNCHANGED rows /\ UNCHANGED abandoned
        \/ /\ Emit({Line(w, "unstarted", 2)}, {})
           /\ UNCHANGED insights /\ abandoned \subseteq abandoned'
        \/ /\ Emit({Line(w, "abandoned", 1)}, {})
           /\ UNCHANGED insights /\ abandoned \subseteq abandoned'
    BY <1>6 DEF StartFlush, JoinTimesOut
  <2>3. ASSUME NEW A, Rows(A), Emit(A, {}), UNCHANGED insights, abandoned \subseteq abandoned'
        PROVE  Good
    BY <2>1, <2>3, EmitEffect DEF Kept, Provider
  <2> QED BY <1>0, <2>1, <2>2, <2>3
<1>7. ASSUME NEW w \in Wake, NEW p \in Provider, FlushProvider(w, p) PROVE Good
  <2>1. Rows({Line(w, "raised", 2)}) /\ Rows({})
    BY RowsOfLine, RowsOfWake
  <2>2. CASE Export(p) /\ UNCHANGED abandoned
    BY <2>2, ExportEffect DEF Kept
  <2>3. CASE /\ Emit({Line(w, "raised", 2)}, {})
             /\ UNCHANGED insights /\ abandoned \subseteq abandoned'
    BY <2>1, <2>3, EmitEffect DEF Kept, Provider
  <2> QED BY <1>0, <1>7, <2>2, <2>3 DEF FlushProvider
<1>8. ASSUME NEW p \in Provider, BackgroundExport(p) PROVE Good
  BY <1>8, ExportEffect DEF BackgroundExport, Kept
<1>9. ASSUME NEW r \in Noise, RouteLogs(r) PROVE Good
  <2>1. Rows({r}) /\ Rows({})
    BY FS_Singleton, FS_EmptySet, TelemetryConstants DEF Rows
  <2> QED BY <1>9, <2>1, EmitEffect DEF RouteLogs, Kept, Provider
<1> QED
  BY <1>1, <1>2, <1>3, <1>4, <1>5, <1>6, <1>7, <1>8, <1>9 DEF Next
-----------------------------------------------------------------------------
(* A wake that stays where it is, or is behind an abandoned flush.         *)
LEMMA DeliverKept ==
  ASSUME DeliverInv, Kept, NEW w \in Timer \ abandoned',
         wake'[w] = wake[w], outcome'[w] = outcome[w], flusher'[w] = flusher[w]
  PROVE  DeliverOf(w)'
<1>1. DeliverOf(w)
  BY DEF DeliverInv, Kept
<1>2. /\ Gone \union buf["logs"] \subseteq Gone' \union buf'["logs"]
      /\ Gone \union buf["spans"] \subseteq Gone' \union buf'["spans"]
      /\ Gone \subseteq Gone'
  BY DEF Kept, Provider
<1>3. /\ LogRows(w, outcome[w])' = LogRows(w, outcome[w])
      /\ SpanRows(w, outcome[w])' = SpanRows(w, outcome[w])
  BY DEF LogRows, SpanRows, Line, Heartbeat, Failure
<1> HIDE DEF Gone
<1> QED BY <1>1, <1>2, <1>3 DEF DeliverOf

(* Each step of a wake and of its flush leaves its rows where they are     *)
(* said to be.                                                             *)
LEMMA DeliverStep ==
  ASSUME TypeOK, RowInv, ThreadInv, DeliverInv, [Next]_vars PROVE DeliverInv'
<1> USE TelemetryConstants DEF process, rows, rest, At, Thread
<1>0. Kept \/ Kill
  BY RowsStep
<1>a. ASSUME Kept, UNCHANGED <<wake, outcome, flusher>> PROVE DeliverInv'
  BY <1>a, DeliverKept DEF DeliverInv
<1>b. ASSUME Kept, NEW w \in Wake, \A v \in Wake \ {w} : wake'[v] = wake[v],
             \A v \in Wake \ {w} : outcome'[v] = outcome[v],
             \A v \in Wake \ {w} : flusher'[v] = flusher[v],
             w \in Timer \ abandoned' => DeliverOf(w)'
      PROVE  DeliverInv'
  BY <1>b, DeliverKept DEF DeliverInv
<1>c. \A w \in Timer \ abandoned' : Kept => w \in Timer \ abandoned /\ DeliverOf(w)
  BY DEF DeliverInv, Kept
<1>d. UNCHANGED host => Kept
  BY <1>0 DEF Kill
<1>1. CASE Kill
  <2> SUFFICES ASSUME NEW w \in Timer \ abandoned' PROVE DeliverOf(w)'
    BY DEF DeliverInv
  <2>1. DeliverOf(w) /\ w \in Wake
    BY <1>1 DEF Kill, DeliverInv
  <2>2. /\ wake'[w] \notin {"flush", "join"}
        /\ wake'[w] = "ended" => wake[w] = "ended"
        /\ UNCHANGED <<outcome, insights, lost>>
    BY <1>1, <2>1 DEF Kill, TypeOK
  <2> QED BY <2>1, <2>2 DEF DeliverOf, Gone, LogRows, SpanRows, Line, Heartbeat, Failure
<1>2. ASSUME NEW w \in Wake, Begin(w) PROVE DeliverInv'
  <2>1. Kept
    BY <1>2 DEF Begin, Kept, Gone
  <2>2. wake'[w] = "run"
    BY <1>2 DEF Begin, TypeOK
  <2>3. DeliverOf(w)'
    BY <2>2 DEF DeliverOf
  <2> QED BY <1>b, <1>2, <2>1, <2>3 DEF Begin, TypeOK
<1>3. ASSUME NEW w \in Wake, NEW o \in Outcome, Finish(w, o) PROVE DeliverInv'
  <2>1. Emit(LogRows(w, o), SpanRows(w, o)) /\ UNCHANGED insights
    BY <1>3 DEF Finish
  <2>2. /\ LogRows(w, o) \subseteq Gone' \union buf'["logs"]
        /\ SpanRows(w, o) \subseteq Gone' \union buf'["spans"]
    BY <2>1, RowsOfWake, EmitEffect
  <2>3. outcome'[w] = o /\ flusher'[w] = flusher[w] /\ (w \in Timer => wake'[w] = "flush")
    BY <1>3 DEF Finish, Flushes, TypeOK
  <2>4. w \in Timer => DeliverOf(w)'
    BY <2>2, <2>3 DEF DeliverOf, LogRows, SpanRows, Line, Heartbeat, Failure
  <2>5. Kept
    BY <1>d, <1>3 DEF Finish
  <2> QED BY <1>b, <1>3, <2>4, <2>5 DEF Finish, TypeOK
<1>4. ASSUME NEW w \in Wake, StartFlush(w) PROVE DeliverInv'
  <2>1. Kept
    BY <1>d, <1>4 DEF StartFlush
  <2>2. /\ wake[w] = "flush" /\ UNCHANGED outcome
        /\ \/ w \in abandoned'
           \/ wake'[w] = "join" /\ flusher'[w] = "lock" /\ UNCHANGED <<buf, insights, lost>>
    BY <1>4 DEF StartFlush, TypeOK
  <2>3. w \in Timer \ abandoned' => DeliverOf(w)'
    BY <1>c, <2>1, <2>2 DEF DeliverOf, Gone, LogRows, SpanRows, Line, Heartbeat, Failure
  <2> QED BY <1>b, <1>4, <2>1, <2>3 DEF StartFlush, TypeOK
<1>5. ASSUME NEW w \in Wake, JoinEnds(w) PROVE DeliverInv'
  <2>1. Kept
    BY <1>d, <1>5 DEF JoinEnds
  <2>2. /\ wake[w] = "join" /\ flusher[w] = "done" /\ wake'[w] = "ended"
        /\ UNCHANGED <<outcome, insights, lost>>
    BY <1>5 DEF JoinEnds, TypeOK
  <2>3. w \in Timer \ abandoned' => DeliverOf(w)'
    BY <1>c, <2>1, <2>2 DEF DeliverOf, Gone, LogRows, SpanRows, Line, Heartbeat, Failure
  <2> QED BY <1>b, <1>5, <2>1, <2>3 DEF JoinEnds, TypeOK
<1>6. ASSUME NEW w \in Wake, JoinTimesOut(w) PROVE DeliverInv'
  <2>1. Kept
    BY <1>d, <1>6 DEF JoinTimesOut
  <2>2. w \in abandoned'
    BY <1>6 DEF JoinTimesOut
  <2> QED BY <1>b, <1>6, <2>1, <2>2 DEF JoinTimesOut, TypeOK
<1>7. ASSUME NEW w \in Wake, LockFlush(w) PROVE DeliverInv'
  <2>1. Kept
    BY <1>d, <1>7 DEF LockFlush
  <2>2. /\ flusher'[w] = "spans" /\ flusher[w] # "none"
        /\ UNCHANGED <<wake, outcome, insights, lost, buf>>
    BY <1>7 DEF LockFlush, TypeOK
  <2>3. w \in Timer \ abandoned' => DeliverOf(w)'
    BY <1>c, <2>1, <2>2 DEF DeliverOf, Gone, LogRows, SpanRows, Line, Heartbeat, Failure
  <2> QED BY <1>b, <1>7, <2>1, <2>3 DEF LockFlush, TypeOK
<1>8. ASSUME NEW w \in Wake, NEW p \in Provider, FlushProvider(w, p) PROVE DeliverInv'
  <2>1. Kept /\ UNCHANGED <<wake, outcome>>
    BY <1>d, <1>8 DEF FlushProvider
  <2>2. CASE UNCHANGED flusher
    BY <1>a, <2>1, <2>2
  <2>3. CASE buf[p] = {} /\ NextProvider(w) /\ UNCHANGED <<buf, insights, lost>>
    <3>1. \A v \in Wake \ {w} : flusher'[v] = flusher[v]
      BY <2>3 DEF NextProvider, TypeOK
    <3>2. \/ flusher[w] = "spans" /\ buf["spans"] = {} /\ flusher'[w] = "logs"
          \/ flusher[w] = "logs" /\ buf["logs"] = {} /\ flusher'[w] = "done"
      BY <1>8, <2>3 DEF FlushProvider, NextProvider, Provider, TypeOK
    <3>3. /\ LogRows(w, outcome[w])' = LogRows(w, outcome[w])
          /\ SpanRows(w, outcome[w])' = SpanRows(w, outcome[w])
          /\ Gone' = Gone /\ wake'[w] = wake[w] /\ buf' = buf
      BY <2>1, <2>3 DEF Gone, LogRows, SpanRows, Line, Heartbeat, Failure
    <3>4. ASSUME w \in Timer \ abandoned' PROVE DeliverOf(w)'
      <4>1. DeliverOf(w)
        BY <1>c, <2>1, <3>4
      <4> HIDE DEF Gone
      <4>2. CASE flusher[w] = "spans" /\ buf["spans"] = {} /\ flusher'[w] = "logs"
        BY <3>3, <4>1, <4>2 DEF DeliverOf
      <4>3. CASE flusher[w] = "logs" /\ buf["logs"] = {} /\ flusher'[w] = "done"
        BY <3>3, <4>1, <4>3 DEF DeliverOf
      <4> QED BY <3>2, <4>2, <4>3
    <3> QED BY <1>b, <2>1, <3>1, <3>4
  <2>4. CASE w \in abandoned' /\ NextProvider(w)
    <3>1. \A v \in Wake \ {w} : flusher'[v] = flusher[v]
      BY <2>4 DEF NextProvider, TypeOK
    <3> QED BY <1>b, <2>1, <2>4, <3>1
  <2> QED BY <1>8, <2>2, <2>3, <2>4 DEF FlushProvider
<1>9. CASE \/ Boot \/ Ingestion \/ Nightly \/ UNCHANGED vars
           \/ \E p \in Provider : BackgroundExport(p)
           \/ \E r \in Noise : RouteLogs(r)
  <2>1. UNCHANGED <<wake, outcome, flusher>>
    BY <1>9 DEF Boot, Ingestion, Nightly, BackgroundExport, RouteLogs, vars
  <2>2. Kept
    BY <1>0, <1>9, <1>d DEF Boot, Kill, Ingestion, Nightly, BackgroundExport, RouteLogs, vars
  <2> QED BY <1>a, <2>1, <2>2
<1> QED
  BY <1>1, <1>2, <1>3, <1>4, <1>5, <1>6, <1>7, <1>8, <1>9 DEF Next
-----------------------------------------------------------------------------
(* What is gone stays where it went, and a wake that is over stays as it   *)
(* ended.                                                                  *)
LEMMA OverStep ==
  ASSUME TypeOK, [Next]_vars
  PROVE  /\ lost \subseteq lost' /\ insights \subseteq insights' /\ abandoned \subseteq abandoned'
         /\ \A w \in Wake : wake[w] \in {"ended", "dead"} =>
              wake'[w] = wake[w] /\ outcome'[w] = outcome[w]
         /\ digest' = digest \/ Nightly
<1> DEFINE Good == /\ lost \subseteq lost' /\ insights \subseteq insights'
                   /\ abandoned \subseteq abandoned'
                   /\ \A w \in Wake : wake[w] \in {"ended", "dead"} =>
                        wake'[w] = wake[w] /\ outcome'[w] = outcome[w]
                   /\ digest' = digest \/ Nightly
<1> USE DEF process, rows, rest, At
<1>0. ASSUME NEW A, NEW B, Emit(A, B) PROVE lost \subseteq lost'
  BY <1>0 DEF Emit
<1>1. CASE Boot \/ Kill \/ Ingestion \/ Nightly \/ UNCHANGED vars
  BY <1>1 DEF Boot, Kill, Ingestion, Nightly, vars, TypeOK
<1>2. ASSUME NEW w \in Wake, Begin(w) \/ JoinEnds(w) \/ LockFlush(w) PROVE Good
  BY <1>2 DEF Begin, JoinEnds, LockFlush, TypeOK
<1>3. ASSUME NEW w \in Wake, NEW o \in Outcome, Finish(w, o) PROVE Good
  BY <1>0, <1>3 DEF Finish, TypeOK
<1>4. ASSUME NEW w \in Wake, StartFlush(w) \/ JoinTimesOut(w) PROVE Good
  <2>1. lost \subseteq lost'
    BY <1>0, <1>4 DEF StartFlush, JoinTimesOut
  <2> QED BY <1>4, <2>1 DEF StartFlush, JoinTimesOut, TypeOK
<1>5. ASSUME NEW w \in Wake, NEW p \in Provider, FlushProvider(w, p) PROVE Good
  <2>1. lost \subseteq lost' /\ insights \subseteq insights'
    BY <1>0, <1>5 DEF FlushProvider, Export
  <2> QED BY <1>5, <2>1 DEF FlushProvider
<1>6. ASSUME NEW p \in Provider, BackgroundExport(p) PROVE Good
  BY <1>6 DEF BackgroundExport, Export
<1>7. ASSUME NEW r \in Noise, RouteLogs(r) PROVE Good
  BY <1>0, <1>7 DEF RouteLogs
<1> QED
  BY <1>1, <1>2, <1>3, <1>4, <1>5, <1>6, <1>7 DEF Next

(* The night's result is true when it is made, and stays so.               *)
LEMMA NightStep ==
  ASSUME ReportInv, [Next]_vars PROVE NightInv' /\ DigestIsHonest'
<1> USE TelemetryConstants DEF ReportInv
<1>1. CASE digest' = digest
  <2>1. CASE digest = NoDigest
    BY <1>1, <2>1 DEF NightInv, DigestIsHonest, NoDigest
  <2>2. CASE \A w \in Wake : wake[w] \in {"ended", "dead"}
    <3>1. \A w \in Wake : wake'[w] = wake[w] /\ outcome'[w] = outcome[w]
      BY <2>2, OverStep
    <3>2. lost \subseteq lost' /\ insights \subseteq insights' /\ abandoned \subseteq abandoned'
      BY OverStep
    <3>3. NightInv'
      BY <2>2, <3>1 DEF NightInv
    <3>4. \A w \in Wake : Reported(w)' => Reported(w) /\ RowsOf(w)' = RowsOf(w)
      BY <3>1, <3>2 DEF Reported, RowsOf, LogRows, SpanRows, Line, Heartbeat, Failure
    <3>5. Heartbeats \subseteq Heartbeats' /\ \A w \in Wake : Failure(w)' = Failure(w)
      BY <3>2 DEF Heartbeats, Failure, Line
    <3> QED BY <1>1, <3>1, <3>2, <3>3, <3>4, <3>5 DEF DigestIsHonest
  <2> QED BY <2>1, <2>2 DEF NightInv
<1>2. CASE Nightly
  <2>1. /\ UNCHANGED <<wake, outcome, abandoned, insights, lost>>
        /\ \A w \in Wake : wake[w] \in {"ended", "dead"}
        /\ digest' = BuildResult(Failures, Cardinality(Heartbeats))
    BY <1>2 DEF Nightly, process, rows
  <2>2. NightInv'
    BY <2>1 DEF NightInv
  <2>3. ASSUME NEW w \in Wake, Reported(w) PROVE RowsOf(w) \subseteq insights \union lost
    BY <2>3 DEF Reported, DeliverInv, DeliverOf, RowsOf, Gone
  <2>4. ASSUME NEW w \in Wake, outcome[w] \in Raised
        PROVE  Failure(w) \in RowsOf(w) /\ Failure(w).severity = NoSeverity
    BY <2>4 DEF RowsOf, SpanRows, Failure, Line
  <2>5. ASSUME digest'.action = "none"
        PROVE  /\ Heartbeats # {}
               /\ \A w \in Wake : Reported(w) /\ outcome[w] \in Raised => Failure(w) \in lost
    <3>1. Failures = {} /\ Cardinality(Heartbeats) # 0
      BY <2>1, <2>5 DEF BuildResult
    <3>2. Heartbeats # {}
      BY <3>1, FS_EmptySet
    <3>3. \A w \in Wake : outcome[w] \in Raised => Failure(w) \notin insights
      BY <2>4, <3>1 DEF Failures
    <3> QED BY <2>3, <2>4, <3>2, <3>3
  <2>6. ASSUME digest'.action = "telemetry_silent", NEW w \in Wake, Reported(w)
        PROVE  RowsOf(w) \subseteq lost
    <3>1. Failures = {} /\ Cardinality(Heartbeats) = 0
      BY <2>1, <2>6 DEF BuildResult
    <3>2. Heartbeats = {}
      <4>1. IsFiniteSet(Heartbeats)
        BY FS_Subset DEF Heartbeats, RowInv, Rows
      <4> QED BY <3>1, <4>1, FS_EmptySet
    <3>3. \A r \in insights :
            r.severity # NoSeverity /\ ~(r.severity >= 2) /\ r.message.text # "outcome"
      BY <3>1, <3>2 DEF Failures, Heartbeats
    <3>4. \A r \in RowsOf(w) :
            r.severity = NoSeverity \/ r.severity >= 2 \/ r.message.text = "outcome"
      <4>1. Heartbeat(w).message.text = "outcome" /\ Line(w, "no_access", 2).severity = 2
        BY DEF Heartbeat, Line
      <4>2. Failure(w).severity = NoSeverity
        BY DEF Failure, Line
      <4>3. RowsOf(w) \subseteq {Heartbeat(w), Line(w, "no_access", 2), Failure(w)}
        BY DEF RowsOf, LogRows, SpanRows
      <4> HIDE DEF ReportInv
      <4> QED BY <4>1, <4>2, <4>3
    <3> QED BY <2>3, <2>6, <3>3, <3>4
  <2>7. DigestIsHonest'
    <3>1. /\ Heartbeats' = Heartbeats
          /\ \A w \in Wake :
               Reported(w)' = Reported(w) /\ RowsOf(w)' = RowsOf(w) /\ Failure(w)' = Failure(w)
      BY <2>1 DEF Heartbeats, Reported, RowsOf, LogRows, SpanRows, Failure, Heartbeat, Line
    <3> QED BY <2>1, <2>5, <2>6, <3>1 DEF DigestIsHonest
  <2> QED BY <2>2, <2>7
<1> QED BY <1>1, <1>2, OverStep

LEMMA ReportInvStep == ReportInv /\ [Next]_vars => ReportInv'
  BY TypesStep, ThreadStep, RowsStep, DeliverStep, NightStep DEF ReportInv

(* The inductive invariant of failure reporting, for any day.              *)
THEOREM ReportInvariant == Spec => []ReportInv
  BY ReportInvInit, ReportInvStep, PTL DEF Spec

(* Whatever hangs, is refused or is killed, a night without a report is    *)
(* one on which no wake of the timer failed unless its flush was given up  *)
(* or its rows were refused, and a silent night is told from a clean one.  *)
THEOREM NightIsHonest == Spec => []DigestIsHonest
  BY ReportInvariant, PTL DEF ReportInv
-----------------------------------------------------------------------------
(* The digest.  Its groups.                                                *)

(* A nonempty set of naturals has a least element.                         *)
LEMMA LeastNatural ==
  ASSUME NEW T, T \subseteq Nat, T # {} PROVE \E m \in T : \A k \in T : m <= k
<1> DEFINE R == {ss \in Nat \X Nat : ss[1] < ss[2]}
<1>1. IsWellFoundedOn(R, Nat)
  BY NatLessThanWellFounded DEF OpToRel
<1>2. \E x \in T : \A y \in T : ~(<<y, x>> \in R)
  <2> HIDE DEF R
  <2> QED BY WFMin, <1>1
<1>3. PICK x \in T : \A y \in T : ~(<<y, x>> \in R)
  BY <1>2
<1>4. \A y \in T : ~(y < x)
  BY <1>3
<1> QED BY <1>4

Ordered(G) == IsFiniteSet(G) /\ \A g \in G : g.key.severity \in Int /\ g.count \in Nat

(* Rows make finitely many groups, which can be compared.                  *)
LEMMA GroupsOrdered ==
  ASSUME NEW R, Rows(R) PROVE Ordered(Groups(R)) /\ (R # {} => Groups(R) # {})
<1>1. \A r \in R : SortSeverity(r) \in Int
  BY DEF Rows, SortSeverity
<1>2. ASSUME NEW k PROVE Group(R, k).key = k /\ Group(R, k).count \in Nat
  <2> DEFINE M == {r \in R : Key(r) = k}
  <2>1. Cardinality(M) \in Nat
    <3>1. IsFiniteSet(R) /\ M \in SUBSET R
      BY DEF Rows
    <3> HIDE DEF M
    <3> QED BY <3>1, FS_Subset, FS_CardinalityType
  <2>2. Group(R, k).key = k /\ Group(R, k).count = Cardinality(M)
    BY DEF Group
  <2> QED BY <2>1, <2>2
<1> DEFINE f == [r \in R |-> Group(R, Key(r))]
<1>3. f \in Surjection(R, Groups(R))
  <2>1. \A r \in R : f[r] \in Groups(R)
    BY DEF Groups
  <2>2. \A g \in Groups(R) : \E r \in R : f[r] = g
    BY DEF Groups
  <2>3. f \in [R -> Groups(R)]
    BY <2>1
  <2> HIDE DEF f
  <2> QED BY <2>2, <2>3 DEF Surjection
<1>4. IsFiniteSet(Groups(R))
  <2>1. IsFiniteSet(R)
    BY DEF Rows
  <2> QED BY <1>3, <2>1, FS_Surjection
<1>5. \A g \in Groups(R) : g.key.severity \in Int /\ g.count \in Nat
  <2>1. \A r \in R : Key(r).severity \in Int
    BY <1>1 DEF Key
  <2> QED BY <1>2, <2>1 DEF Groups
<1> QED BY <1>4, <1>5 DEF Ordered, Groups

(* Some group is outranked by none.                                        *)
LEMMA TopGroup ==
  ASSUME NEW G, Ordered(G), G # {} PROVE \E g \in G : \A h \in G : ~Outranks(h, g)
<1> DEFINE B(g) == {h \in G : Outranks(h, g)}
           T == {Cardinality(B(g)) : g \in G}
<1>1. \A g \in G : IsFiniteSet(B(g)) /\ Cardinality(B(g)) \in Nat
  BY FS_Subset, FS_CardinalityType DEF Ordered
<1>2. PICK m \in T : \A k \in T : m <= k
  <2>1. T \subseteq Nat /\ T # {}
    BY <1>1
  <2> HIDE DEF T
  <2> QED BY <2>1, LeastNatural
<1>3. PICK g \in G : m = Cardinality(B(g))
  BY <1>2
<1>4. ASSUME NEW h \in G, Outranks(h, g) PROVE FALSE
  <2>1. B(h) \subseteq B(g) /\ h \in B(g) /\ h \notin B(h)
    BY <1>4 DEF Outranks, Ordered
  <2>2. Cardinality(B(h)) <= Cardinality(B(g)) /\ Cardinality(B(h)) # Cardinality(B(g))
    <3> HIDE DEF B
    <3> QED BY <1>1, <2>1, FS_Subset
  <2>3. m <= Cardinality(B(h))
    BY <1>2
  <2> QED BY <1>1, <1>3, <2>2, <2>3
<1> QED BY <1>4

Sorted(s) == \A i, j \in DOMAIN s : i < j => ~Outranks(s[j], s[i])

(* So they can be ranked: a least set of groups that cannot be would lose  *)
(* its top group, be ranked, and take that group back in front.            *)
LEMMA RankingExists ==
  ASSUME NEW G, Ordered(G) PROVE \E s \in SetToSeqs(G) : Sorted(s)
<1> DEFINE Rankable(H) == \E s \in SetToSeqs(H) : Sorted(s)
           T == {n \in Nat : \E H \in SUBSET G : Cardinality(H) = n /\ ~Rankable(H)}
<1>0. \A H \in SUBSET G : Ordered(H) /\ Cardinality(H) \in Nat
  BY FS_Subset, FS_CardinalityType DEF Ordered
<1>1. T = {}
  <2> SUFFICES ASSUME T # {} PROVE FALSE
    OBVIOUS
  <2>1. PICK m \in T : \A k \in T : m <= k
    <3>1. T \subseteq Nat
      OBVIOUS
    <3> HIDE DEF T
    <3> QED BY <3>1, LeastNatural
  <2>2. PICK H \in SUBSET G : Cardinality(H) = m /\ ~Rankable(H)
    BY <2>1
  <2> HIDE DEF Rankable
  <2>3. H # {}
    <3> SUFFICES ASSUME H = {} PROVE Rankable(H)
      BY <2>2
    <3> DEFINE e == [i \in 1..0 |-> 0]
    <3>1. Cardinality(H) = 0
      BY FS_EmptySet
    <3>2. e \in SetToSeqs(H) /\ Sorted(e)
      BY <3>1 DEF SetToSeqs, Sorted
    <3> QED BY <3>2 DEF Rankable
  <2>4. PICK g \in H : \A h \in H : ~Outranks(h, g)
    BY <1>0, <2>3, TopGroup
  <2>5. Cardinality(H \ {g}) = m - 1 /\ m \in Nat /\ m > 0
    BY <1>0, <2>2, <2>4, FS_RemoveElement DEF Ordered
  <2>6. Rankable(H \ {g})
    BY <2>1, <2>2, <2>5, <1>0
  <2>7. PICK s \in SetToSeqs(H \ {g}) : Sorted(s)
    BY <2>6 DEF Rankable
  <2>8. /\ s \in [1..(m - 1) -> H \ {g}]
        /\ \A i, j \in 1..(m - 1) : i # j => s[i] # s[j]
    BY <2>5, <2>7 DEF SetToSeqs
  <2> DEFINE t == [i \in 1..m |-> IF i = 1 THEN g ELSE s[i - 1]]
  <2>9. t \in [1..m -> H] /\ \A i, j \in 1..m : i # j => t[i] # t[j]
    <3>1. \A i \in 1..m : i # 1 => i - 1 \in 1..(m - 1)
      BY <2>5
    <3>2. \A i \in 1..m : i # 1 => t[i] \in H \ {g}
      BY <3>1, <2>8
    <3> QED BY <2>4, <2>8, <3>1, <3>2
  <2>10. Sorted(t)
    <3> SUFFICES ASSUME NEW i \in 1..m, NEW j \in 1..m, i < j PROVE ~Outranks(t[j], t[i])
      BY DEF Sorted
    <3>1. CASE i = 1
      BY <2>4, <2>9, <3>1
    <3>2. CASE i # 1
      <4>1. i - 1 \in 1..(m - 1) /\ j - 1 \in 1..(m - 1) /\ i - 1 < j - 1 /\ j # 1
        BY <2>5, <3>2
      <4>2. ~Outranks(s[j - 1], s[i - 1])
        BY <2>7, <2>8, <4>1 DEF Sorted
      <4> QED BY <3>2, <4>1, <4>2
    <3> QED BY <3>1, <3>2
  <2>11. t \in SetToSeqs(H)
    BY <2>2, <2>9 DEF SetToSeqs
  <2> QED BY <2>2, <2>10, <2>11 DEF Rankable
<1>2. Rankable(G)
  BY <1>0, <1>1
<1> QED BY <1>2

(* What `Ranked` chooses: every group once, none after one that it         *)
(* outranks.                                                               *)
LEMMA RankedGroups ==
  ASSUME NEW R, Rows(R), NEW G, G = Groups(R), NEW s, s = Ranked(R)
  PROVE  /\ Ordered(G) /\ Cardinality(G) \in Nat
         /\ s \in Seq(G) /\ Len(s) = Cardinality(G) /\ DOMAIN s = 1..Len(s)
         /\ \A i, j \in 1..Len(s) : i # j => s[i] # s[j]
         /\ Range(s) = G
         /\ Sorted(s)
<1>1. Ordered(G)
  BY GroupsOrdered
<1>2. IsFiniteSet(G) /\ Cardinality(G) \in Nat
  BY <1>1, FS_CardinalityType DEF Ordered
<1>3. s \in SetToSeqs(G) /\ Sorted(s)
  <2>1. \E z \in SetToSeqs(G) : Sorted(z)
    BY <1>1, RankingExists
  <2>2. s = CHOOSE z \in SetToSeqs(G) : Sorted(z)
    BY DEF Ranked, Sorted
  <2> QED BY <2>1, <2>2
<1>4. s \in [1..Cardinality(G) -> G] /\ \A i, j \in 1..Cardinality(G) : i # j => s[i] # s[j]
  BY <1>3 DEF SetToSeqs
<1>5. s \in Seq(G) /\ Len(s) = Cardinality(G) /\ DOMAIN s = 1..Len(s)
  BY <1>2, <1>4
<1>6. Range(s) = G
  <2>1. s \in Injection(1..Cardinality(G), G)
    BY <1>4 DEF Injection, IsInjective
  <2>2. Cardinality(1..Cardinality(G)) = Cardinality(G)
    BY <1>2, FS_Interval
  <2>3. s \in Surjection(1..Cardinality(G), G)
    BY <1>2, <2>1, <2>2, FS_Injection
  <2> QED BY <1>4, <2>3 DEF Surjection, Range
<1> QED BY <1>1, <1>2, <1>3, <1>4, <1>5, <1>6
-----------------------------------------------------------------------------
(* The sum of the counts.  A sum over a finite set is built one member at  *)
(* a time; there is only one way to build it, since two would differ first *)
(* at a least set.                                                         *)
AnyOf(s) == CHOOSE x \in s : TRUE
Sums(G, iter) ==
  iter = [s \in SUBSET G |-> IF s = {} THEN 0 ELSE AnyOf(s).count + iter[s \ {AnyOf(s)}]]

LEMMA SumsUnique ==
  ASSUME NEW G, IsFiniteSet(G), NEW f, Sums(G, f), NEW g, Sums(G, g) PROVE f = g
<1> DEFINE T == {n \in Nat : \E s \in SUBSET G : Cardinality(s) = n /\ f[s] # g[s]}
<1>0. \A s \in SUBSET G : IsFiniteSet(s) /\ Cardinality(s) \in Nat
  BY FS_Subset, FS_CardinalityType
<1>1. \A s \in SUBSET G :
        /\ f[s] = IF s = {} THEN 0 ELSE AnyOf(s).count + f[s \ {AnyOf(s)}]
        /\ g[s] = IF s = {} THEN 0 ELSE AnyOf(s).count + g[s \ {AnyOf(s)}]
  BY DEF Sums
<1>2. T = {}
  <2> SUFFICES ASSUME T # {} PROVE FALSE
    OBVIOUS
  <2>1. PICK m \in T : \A k \in T : m <= k
    <3>1. T \subseteq Nat
      OBVIOUS
    <3> HIDE DEF T
    <3> QED BY <3>1, LeastNatural
  <2>2. PICK s \in SUBSET G : Cardinality(s) = m /\ f[s] # g[s]
    BY <2>1
  <2>3. s # {}
    BY <2>2, <1>1
  <2>4. AnyOf(s) \in s
    BY <2>3 DEF AnyOf
  <2>5. Cardinality(s \ {AnyOf(s)}) = m - 1
    BY <1>0, <2>2, <2>4, FS_RemoveElement
  <2>6. f[s \ {AnyOf(s)}] # g[s \ {AnyOf(s)}]
    BY <1>1, <2>2, <2>3
  <2>7. m - 1 \in T
    BY <1>0, <2>5, <2>6
  <2> QED BY <2>1, <2>7
<1>3. \A s \in SUBSET G : f[s] = g[s]
  BY <1>0, <1>2
<1>4. f = [s \in SUBSET G |-> f[s]] /\ g = [s \in SUBSET G |-> g[s]]
  BY DEF Sums
<1> QED BY <1>3, <1>4

(* The rows whose groups are in s.                                         *)
Members(R, s) == {r \in R : Group(R, Key(r)) \in s}

(* The groups of a set of groups have as many rows as they count.          *)
LEMMA CountsAdd ==
  ASSUME NEW R, Rows(R)
  PROVE  Sums(Groups(R), [s \in SUBSET Groups(R) |-> Cardinality(Members(R, s))])
<1> DEFINE c == [s \in SUBSET Groups(R) |-> Cardinality(Members(R, s))]
<1> SUFFICES ASSUME NEW s \in SUBSET Groups(R)
             PROVE  c[s] = IF s = {} THEN 0 ELSE AnyOf(s).count + c[s \ {AnyOf(s)}]
  BY DEF Sums
<1>0. IsFiniteSet(R)
  BY DEF Rows
<1>1. CASE s = {}
  <2>1. Members(R, s) = {}
    BY <1>1 DEF Members
  <2> QED BY <1>1, <2>1, FS_EmptySet
<1>2. CASE s # {}
  <2> DEFINE g == AnyOf(s)
             A == Members(R, {g})
             B == Members(R, s \ {g})
  <2>1. g \in s /\ g \in Groups(R)
    BY <1>2 DEF AnyOf
  <2>2. PICK k : g = Group(R, k)
    BY <2>1 DEF Groups
  <2>3. A = {r \in R : Key(r) = k} /\ g.count = Cardinality({r \in R : Key(r) = k})
    <3>1. \A j : Group(R, j).key = j
      BY DEF Group
    <3>2. Group(R, k).count = Cardinality({r \in R : Key(r) = k})
      BY DEF Group
    <3> HIDE DEF g
    <3> QED BY <2>2, <3>1, <3>2 DEF Members
  <2>4. /\ IsFiniteSet(A) /\ Cardinality(A) \in Nat
        /\ IsFiniteSet(B) /\ Cardinality(B) \in Nat
    <3>1. A \in SUBSET R /\ B \in SUBSET R
      BY DEF Members
    <3> HIDE DEF A, B
    <3> QED BY <1>0, <3>1, FS_Subset, FS_CardinalityType
  <2>5. Members(R, s) = A \union B /\ A \cap B = {}
    BY <2>1 DEF Members
  <2>6. Cardinality(A \union B) = Cardinality(A) + Cardinality(B)
    <3> HIDE DEF A, B
    <3>1. Cardinality(A \union B) = Cardinality(A) + Cardinality(B) - Cardinality(A \cap B)
      BY <2>4, FS_Union
    <3>2. Cardinality(A \cap B) = 0
      BY <2>5, FS_EmptySet
    <3> QED BY <2>4, <3>1, <3>2
  <2>7. c[s] = Cardinality(A \union B) /\ c[s \ {g}] = Cardinality(B)
    <3>1. s \ {g} \in SUBSET Groups(R)
      OBVIOUS
    <3> HIDE DEF A, g
    <3> QED BY <2>5, <3>1
  <2> QED BY <1>2, <2>3, <2>6, <2>7
<1> QED BY <1>1, <1>2

LEMMA CountsTotal ==
  ASSUME NEW R, Rows(R)
  PROVE  MapThenSumSet(LAMBDA g : g.count, Groups(R)) = Cardinality(R)
<1> DEFINE G == Groups(R)
           c == [s \in SUBSET G |-> Cardinality(Members(R, s))]
           Adds(iter) == iter = [s \in SUBSET G |->
             IF s = {} THEN 0
             ELSE (CHOOSE x \in s : TRUE).count + iter[s \ {CHOOSE x \in s : TRUE}]]
<1>1. MapThenSumSet(LAMBDA g : g.count, G) = (CHOOSE iter : Adds(iter))[G]
  BY DEF MapThenSumSet, MapThenFoldSet
<1>2. ASSUME NEW iter PROVE Adds(iter) <=> Sums(G, iter)
  BY DEF Sums, AnyOf
<1>3. Sums(G, c) /\ IsFiniteSet(G)
  BY CountsAdd, GroupsOrdered DEF Ordered
<1>4. c[G] = Cardinality(R)
  <2>1. Members(R, G) = R
    BY DEF Members, Groups
  <2> QED BY <2>1
<1> HIDE DEF G, c, Adds
<1>5. Adds(CHOOSE iter : Adds(iter))
  BY <1>2, <1>3
<1>6. (CHOOSE iter : Adds(iter)) = c
  BY <1>2, <1>3, <1>5, SumsUnique
<1> QED BY <1>1, <1>4, <1>6 DEF G
-----------------------------------------------------------------------------
(* The body.  Without a group it is the tail line, and the banner before   *)
(* it on a silent night.                                                   *)
LEMMA ExtraLength ==
  ASSUME NEW T, T = {TailLine} \/ T = {Banner, TailLine}
  PROVE  SumSet(T) = IF T = {TailLine} THEN TailLine ELSE Banner + TailLine
<1> DEFINE Adds(iter) == iter = [s \in SUBSET T |->
             IF s = {} THEN 0 ELSE (CHOOSE x \in s : TRUE) + iter[s \ {CHOOSE x \in s : TRUE}]]
           h == [s \in SUBSET T |-> (IF TailLine \in s THEN TailLine ELSE 0)
                                    + (IF Banner \in s THEN Banner ELSE 0)]
<1>0. TailLine = 3 /\ Banner = 4
  BY DEF TailLine, Banner
<1>1. SumSet(T) = (CHOOSE iter : Adds(iter))[T]
  BY DEF SumSet, FoldSet, MapThenFoldSet
<1>2. Adds(h)
  <2> SUFFICES ASSUME NEW s \in SUBSET T
               PROVE  h[s] = IF s = {} THEN 0
                             ELSE (CHOOSE x \in s : TRUE) + h[s \ {CHOOSE x \in s : TRUE}]
    OBVIOUS
  <2> DEFINE x == CHOOSE x \in s : TRUE
  <2>1. CASE s = {}
    BY <2>1
  <2>2. CASE s # {}
    <3>1. x \in s
      BY <2>2
    <3> HIDE DEF x
    <3>2. h[s] = x + h[s \ {x}]
      BY <1>0, <3>1
    <3> QED BY <2>2, <3>2 DEF x
  <2> QED BY <2>1, <2>2
<1>3. ASSUME NEW iter, Adds(iter)
      PROVE  iter[T] = IF T = {TailLine} THEN TailLine ELSE Banner + TailLine
  <2>1. iter[{}] = 0
    BY <1>3
  <2>2. ASSUME NEW n \in T PROVE iter[{n}] = n
    <3>1. (CHOOSE x \in {n} : TRUE) = n
      OBVIOUS
    <3>2. {n} \ {n} = {} /\ {n} \in SUBSET T /\ {n} # {}
      OBVIOUS
    <3>3. iter[{n}] = n + iter[{}]
      BY <1>3, <3>1, <3>2
    <3> QED BY <1>0, <2>1, <3>3
  <2>3. CASE T = {TailLine}
    BY <2>2, <2>3
  <2>4. CASE T = {Banner, TailLine}
    <3> DEFINE x == CHOOSE x \in T : TRUE
    <3>1. x \in T
      BY <2>4
    <3>2. iter[T] = x + iter[T \ {x}]
      BY <1>3, <3>1
    <3> HIDE DEF x, Adds
    <3>3. CASE x = Banner
      <4>1. T \ {x} = {TailLine}
        BY <1>0, <2>4, <3>3
      <4> QED BY <1>0, <2>2, <2>4, <3>2, <3>3, <4>1
    <3>4. CASE x = TailLine
      <4>1. T \ {x} = {Banner}
        BY <1>0, <2>4, <3>4
      <4> QED BY <1>0, <2>2, <2>4, <3>2, <3>4, <4>1
    <3> QED BY <2>4, <3>1, <3>3, <3>4
  <2> QED BY <2>3, <2>4
<1> HIDE DEF Adds, h
<1>4. Adds(CHOOSE iter : Adds(iter))
  BY <1>2
<1> QED BY <1>1, <1>3, <1>4

LEMMA FloorFits ==
  ASSUME NEW s, Len(s) \in Nat, Len(s) > 0, NEW cap, NEW silent \in BOOLEAN
  PROVE  BodyLength(s, 0, cap, silent) <= BodyLimit
<1> DEFINE extra == (IF silent THEN {Banner} ELSE {}) \union {TailLine}
           None(iter) == iter = [t \in SUBSET (1..0) |->
             IF t = {} THEN 0
             ELSE GroupLength(s[CHOOSE x \in t : TRUE], cap) + iter[t \ {CHOOSE x \in t : TRUE}]]
<1>1. MapThenSumSet(LAMBDA i : GroupLength(s[i], cap), 1..0) = (CHOOSE iter : None(iter))[1..0]
  BY DEF MapThenSumSet, MapThenFoldSet
<1>2. None([t \in SUBSET (1..0) |-> 0])
  OBVIOUS
<1>3. \A iter : None(iter) => iter[1..0] = 0
  OBVIOUS
<1>4. (CHOOSE iter : None(iter))[1..0] = 0
  <2> HIDE DEF None
  <2> QED BY <1>2, <1>3
<1>5. BodyLength(s, 0, cap, silent)
        = 0 + SumSet(extra) + Blank * (IF Cardinality(extra) = 0 THEN 0 ELSE Cardinality(extra) - 1)
  <2> HIDE DEF None
  <2>1. Cardinality(extra) \in Nat
    <3>1. IsFiniteSet(IF silent THEN {Banner} ELSE {}) /\ IsFiniteSet({TailLine})
      BY FS_Singleton, FS_EmptySet
    <3>2. IsFiniteSet(extra)
      BY <3>1, FS_Union
    <3> HIDE DEF extra
    <3> QED BY <3>2, FS_CardinalityType
  <2>2. (IF silent THEN {Banner} ELSE {}) \union (IF 0 < Len(s) THEN {TailLine} ELSE {}) = extra
    OBVIOUS
  <2> HIDE DEF extra
  <2>3. 0 + Cardinality(extra) = Cardinality(extra)
    BY <2>1
  <2> QED BY <1>1, <1>4, <2>2, <2>3 DEF BodyLength
<1>6. CASE silent
  <2> DEFINE one == {Banner}
  <2>0. one \union {TailLine} = extra /\ TailLine \notin one
    BY <1>6 DEF Banner, TailLine
  <2>1. extra = {Banner, TailLine} /\ extra # {TailLine}
    BY <2>0 DEF Banner, TailLine
  <2>2. Cardinality(extra) = 2
    <3>1. IsFiniteSet(one) /\ Cardinality(one) = 1
      BY FS_Singleton
    <3> HIDE DEF extra, one
    <3>2. Cardinality(one \union {TailLine}) = 1 + 1
      BY <2>0, <3>1, FS_AddElement
    <3> QED BY <2>0, <3>2
  <2>3. SumSet(extra) = Banner + TailLine
    BY <2>1, ExtraLength
  <2> HIDE DEF extra
  <2> QED BY <1>5, <2>2, <2>3, DigestConstants DEF Banner, TailLine, Blank
<1>7. CASE ~silent
  <2>1. extra = {TailLine}
    BY <1>7
  <2>2. Cardinality({TailLine}) = 1 /\ SumSet({TailLine}) = TailLine
    BY FS_Singleton, ExtraLength
  <2>3. Cardinality(extra) = 1 /\ SumSet(extra) = TailLine
    BY <2>1, <2>2
  <2> HIDE DEF extra
  <2> QED BY <1>5, <2>3, DigestConstants DEF Banner, TailLine, Blank
<1> QED BY <1>6, <1>7

(* The attempts end with the one that shows no group.                      *)
LEMMA AttemptsEnd ==
  ASSUME NEW n \in Nat, n > 0, NEW tries, tries = Attempts(n)
  PROVE  /\ Len(tries) \in Nat /\ Len(tries) > 0
         /\ \A i \in 1..Len(tries) : tries[i].keep \in 0..n
         /\ tries[Len(tries)].keep = 0
<1> DEFINE m == Min({TopGroups, n})
           c == Len(DetailsCaps)
<1>1. m \in Nat /\ m > 0 /\ m <= n
  <2>1. \E x \in {TopGroups, n} : \A y \in {TopGroups, n} : x <= y
    BY DigestConstants
  <2>2. m \in {TopGroups, n} /\ \A y \in {TopGroups, n} : m <= y
    BY <2>1 DEF Min
  <2> QED BY <2>2, DigestConstants
<1>2. c \in Nat /\ c > 0
  BY DigestConstants
<1>3. tries = [i \in 1..(c + m) |->
                 IF i <= c THEN [keep |-> m, cap |-> DetailsCaps[i]]
                 ELSE [keep |-> m - (i - c), cap |-> DetailsCaps[c]]]
  BY DEF Attempts
<1> HIDE DEF m, c
<1>4. Len(tries) = c + m
  BY <1>1, <1>2, <1>3
<1>5. \A i \in 1..(c + m) : tries[i].keep = IF i <= c THEN m ELSE m - (i - c)
  BY <1>3
<1> QED BY <1>1, <1>2, <1>4, <1>5

(* Some attempt fits; the body that it makes accounts for every row.       *)
LEMMA BodyAccounts ==
  ASSUME NEW R, Rows(R), R # {}, NEW silent \in BOOLEAN
  PROVE  AccountsFor(R, RenderBody(Ranked(R), silent))
<1> DEFINE G == Groups(R)
           s == Ranked(R)
           tries == Attempts(Len(s))
           I == {i \in 1..Len(tries) :
                   BodyLength(s, tries[i].keep, tries[i].cap, silent) <= BodyLimit}
           k == tries[Min(I)].keep
           body == RenderBody(s, silent)
           shown == Range(body.shown)
<1>1. /\ Ordered(G) /\ Cardinality(G) \in Nat /\ Len(s) > 0
      /\ s \in Seq(G) /\ Len(s) = Cardinality(G) /\ DOMAIN s = 1..Len(s)
      /\ \A i, j \in 1..Len(s) : i # j => s[i] # s[j]
      /\ Range(s) = G /\ Sorted(s)
  <2>1. G # {}
    BY GroupsOrdered
  <2> HIDE DEF G, s
  <2>2. /\ Ordered(G) /\ Cardinality(G) \in Nat
        /\ s \in Seq(G) /\ Len(s) = Cardinality(G) /\ DOMAIN s = 1..Len(s)
        /\ \A i, j \in 1..Len(s) : i # j => s[i] # s[j]
        /\ Range(s) = G /\ Sorted(s)
    BY RankedGroups DEF G, s
  <2>3. Cardinality(G) # 0
    BY <2>1, <2>2, FS_EmptySet DEF Ordered
  <2> QED BY <2>2, <2>3
<1>2. /\ Len(tries) \in Nat /\ Len(tries) > 0
      /\ \A i \in 1..Len(tries) : tries[i].keep \in 0..Len(s)
      /\ tries[Len(tries)].keep = 0
  <2> HIDE DEF s
  <2> QED BY <1>1, AttemptsEnd
<1>3. Min(I) \in I
  <2>1. Len(tries) \in I
    <3> HIDE DEF s, tries
    <3>1. BodyLength(s, 0, tries[Len(tries)].cap, silent) <= BodyLimit
      BY <1>1, FloorFits
    <3> QED BY <1>2, <3>1
  <2>2. I \subseteq Nat /\ I # {}
    BY <2>1
  <2> HIDE DEF I
  <2>3. \E m \in I : \A j \in I : m <= j
    BY <2>2, LeastNatural
  <2> QED BY <2>3 DEF Min
<1>4. /\ body.shown = SubSeq(s, 1, k) /\ body.missing = Len(s) - k
      /\ body.length = BodyLength(s, k, tries[Min(I)].cap, silent)
  <2>1. SelectInSeq(tries, LAMBDA t : BodyLength(s, t.keep, t.cap, silent) <= BodyLimit) = Min(I)
    <3>1. I # {}
      BY <1>3
    <3> HIDE DEF s, tries
    <3> QED BY <3>1 DEF SelectInSeq
  <2> QED BY <2>1 DEF RenderBody, Missing
<1>5. k \in 0..Len(s) /\ body.length <= BodyLimit
  <2> HIDE DEF s, tries, body
  <2> QED BY <1>2, <1>3, <1>4
<1> HIDE DEF G, s, tries, I, k, body
<1>6. shown = {s[i] : i \in 1..k}
  <2>1. DOMAIN SubSeq(s, 1, k) = 1..k /\ \A i \in 1..k : SubSeq(s, 1, k)[i] = s[i]
    BY <1>1, <1>5
  <2> QED BY <1>4, <2>1 DEF Range
<1>7. shown \subseteq G /\ \A g \in G \ shown : \E i \in (k + 1)..Len(s) : g = s[i]
  <2>1. \A g \in G : \E i \in 1..Len(s) : g = s[i]
    BY <1>1 DEF Range
  <2>2. \A i \in 1..k : s[i] \in G
    BY <1>1, <1>5
  <2>3. \A i \in 1..Len(s) : i \in 1..k \/ i \in (k + 1)..Len(s)
    BY <1>1, <1>5
  <2> QED BY <1>6, <2>1, <2>2, <2>3
<1>8. \A h \in shown, g \in G \ shown : ~Outranks(g, h)
  <2> SUFFICES ASSUME NEW h \in shown, NEW g \in G \ shown PROVE ~Outranks(g, h)
    OBVIOUS
  <2>1. PICK i \in 1..k : h = s[i]
    BY <1>6
  <2>2. PICK j \in (k + 1)..Len(s) : g = s[j]
    BY <1>7
  <2>3. i \in DOMAIN s /\ j \in DOMAIN s /\ i < j
    BY <1>1, <1>5
  <2> QED BY <1>1, <2>1, <2>2, <2>3 DEF Sorted
<1>9. body.missing = Cardinality(G \ shown)
  <2> DEFINE f == [i \in 1..k |-> s[i]]
  <2>1. f \in Surjection(1..k, shown) /\ f \in Injection(1..k, shown)
    BY <1>1, <1>5, <1>6 DEF Surjection, Injection, IsInjective
  <2>2. IsFiniteSet(1..k) /\ Cardinality(1..k) = k
    BY <1>1, <1>5, FS_Interval
  <2>3. Cardinality(shown) = k
    <3> HIDE DEF f, shown
    <3> QED BY <2>1, <2>2, FS_Surjection
  <2>4. Cardinality(G \ shown) = Cardinality(G) - Cardinality(G \cap shown)
    BY <1>1, FS_Difference DEF Ordered
  <2>5. G \cap shown = shown
    BY <1>7
  <2> HIDE DEF shown
  <2> QED BY <1>1, <1>4, <2>3, <2>4, <2>5
<1>10. shown \union (G \ shown) = G
  BY <1>7
<1>11. MapThenSumSet(LAMBDA g : g.count, shown \union (G \ shown)) = Cardinality(R)
  BY <1>10, CountsTotal DEF G
<1> QED BY <1>5, <1>8, <1>9, <1>11 DEF AccountsFor, G, s, body

(* Whatever rows arrive in a day, the night's digest fits an issue, counts *)
(* each of them once, shown or missing, and leaves out none that is worse  *)
(* than one it shows.                                                      *)
THEOREM DigestIsComplete == Spec => DigestAccountsForAll
<1> DEFINE Complete ==
      digest.action = "" /\ digest'.action = "digest" => AccountsFor(Failures, digest'.body)
<1>1. ReportInv /\ [Next]_vars => [Complete]_vars
  <2> SUFFICES ASSUME ReportInv, [Next]_vars, digest.action = "", digest'.action = "digest"
               PROVE  AccountsFor(Failures, digest'.body)
    OBVIOUS
  <2>1. digest' = BuildResult(Failures, Cardinality(Heartbeats))
    BY OverStep DEF ReportInv, Nightly
  <2>2. Failures # {} /\ digest'.body = RenderBody(Ranked(Failures), Cardinality(Heartbeats) = 0)
    BY <2>1 DEF BuildResult
  <2>3. Rows(Failures)
    BY FS_Subset DEF ReportInv, RowInv, Rows, Failures
  <2> QED BY <2>2, <2>3, BodyAccounts
<1> QED BY <1>1, ReportInvariant, PTL DEF Spec, DigestAccountsForAll
=============================================================================
