----------------------------- MODULE Telemetry -------------------------------
(***************************************************************************)
(* Failure reporting: backend/app/observability/setup.py, the flush of     *)
(* app/worker.py and the nightly digest (FailureDigest) that reads what    *)
(* reached App Insights.                                                   *)
(*                                                                         *)
(* A wake of the timer ends with a flush: a thread that holds _flush_lock  *)
(* while it drains the two batch buffers, one after the other, and that is *)
(* joined for five seconds at most.  A wake of process-now does not flush. *)
(* Ingestion may hang for ever, a batch may be refused, the host may be    *)
(* killed with records in its buffers.                                     *)
(***************************************************************************)
EXTENDS FailureDigest

CONSTANTS
  Wake,        \* the wakes of one day
  Timer,       \* those of the timer; the others are process-now
  Noise,       \* failure rows that requests may log
  MaxFaults    \* bound: how many mishaps a day may have

NoWake  == "none"

(* "ran" stands for the skips of a disabled and of a busy wake too;        *)
(* "unreported" is a wake that raised in a storage call and has no         *)
(* heartbeat; "no_store" is a wake of the timer whose store could not be   *)
(* built, which raised before its span was opened.                         *)
Outcome == {"ran", "no_access", "failed", "unreported", "no_store"}
Raised  == {"failed", "unreported"}

ASSUME TelemetryConstants ==
  /\ Timer \subseteq Wake /\ NoWake \notin Wake
  /\ MaxFaults \in Nat
  /\ \A r \in Noise : r.severity \in Int

VARIABLES
  conn,        \* the connection string is configured
  host,        \* the host process: "down", "up"
  installed,   \* _installed
  wake,        \* where each wake is
  outcome,     \* what each wake came to
  flusher,     \* where the flusher thread of each wake is
  lock,        \* the wake whose thread holds _flush_lock
  buf,         \* the batch buffers of the two providers
  hung,        \* ingestion does not answer
  insights,    \* the rows that App Insights has
  lost,        \* rows that were never buffered, or whose batch was refused
  abandoned,   \* wakes whose flush was given up, raised, or never started
  digest,      \* the nightly result
  faults       \* how many mishaps have happened

process == <<host, installed, wake, outcome, flusher, lock>>
rows    == <<buf, insights, lost>>
rest    == <<conn, hung, abandoned, digest, faults>>
vars    == <<process, rows, rest>>

Provider == {"spans", "logs"}
Empty    == [p \in Provider |-> {}]
NoDigest == [action |-> "", body |-> NoBody]

TypeOK ==
  /\ conn \in BOOLEAN /\ host \in {"down", "up"} /\ installed \in BOOLEAN
  /\ wake \in [Wake -> {"idle", "run", "flush", "join", "ended", "dead"}]
  /\ outcome \in [Wake -> Outcome \union {"none"}]
  /\ flusher \in [Wake -> {"none", "lock", "spans", "logs", "done"}]
  /\ lock \in Wake \union {NoWake}
  /\ hung \in BOOLEAN
  /\ abandoned \subseteq Timer

Init ==
  /\ conn \in BOOLEAN
  /\ host = "down" /\ installed = FALSE
  /\ wake = [w \in Wake |-> "idle"] /\ outcome = [w \in Wake |-> "none"]
  /\ flusher = [w \in Wake |-> "none"] /\ lock = NoWake
  /\ buf = Empty /\ hung = FALSE
  /\ insights = {} /\ lost = {} /\ abandoned = {}
  /\ digest = NoDigest
  /\ faults = 0

(* A set-up, a thread start, a flush or a batch fails, ingestion hangs, or *)
(* the host is killed.                                                     *)
Fault == faults < MaxFaults /\ faults' = faults + 1

At(w, place)   == wake' = [wake EXCEPT ![w] = place]
Thread(w, place) == flusher' = [flusher EXCEPT ![w] = place]
-----------------------------------------------------------------------------
(* The rows of a wake: its outcome line, the warning of a wake without     *)
(* access, the exception that the span of a wake that raised records.  A   *)
(* wake without a store has none of its own.                               *)
Line(w, text, severity) ==
  [id |-> <<w, text>>, item |-> "trace", severity |-> severity, details |-> 0,
   message |-> [text |-> text, volatile |-> w]]

Heartbeat(w) == Line(w, "outcome", 1)
Failure(w)   == [Line(w, "failed", NoSeverity) EXCEPT !.item = "exception", !.details = 9]

LogRows(w, o) ==
  (IF o \in {"unreported", "no_store"} THEN {} ELSE {Heartbeat(w)})
  \union (IF o = "no_access" THEN {Line(w, "no_access", 2)} ELSE {})

SpanRows(w, o) == IF o \in Raised THEN {Failure(w)} ELSE {}

(* A record that the root logger or a tracer gets.                         *)
Emit(logs, spans) ==
  IF installed
  THEN buf' = [buf EXCEPT !["logs"] = @ \union logs, !["spans"] = @ \union spans] /\ UNCHANGED lost
  ELSE lost' = lost \union logs \union spans /\ UNCHANGED buf

(* Faulty: the handler takes every record.                                 *)
DroppedNever(name) == FALSE

(* _DropTelemetryInternals.                                                *)
Dropped(name) == name \in {"opentelemetry", "azure.monitor.opentelemetry",
                           "azure.core.pipeline.policies"}

(* The exporter is itself a client whose POST is logged.                   *)
ExportLogs ==
  IF Dropped("azure.core.pipeline.policies") THEN {}
  ELSE {Line("exporter", "request", 1)}
-----------------------------------------------------------------------------
(* function_app.py is imported: setup_telemetry, whose failure leaves the  *)
(* process untelemetered.                                                  *)
Boot ==
  /\ host = "down"
  /\ host' = "up"
  /\ \/ installed' = conn /\ UNCHANGED faults
     \/ conn /\ Fault /\ installed' = FALSE
  /\ UNCHANGED <<conn, wake, outcome, flusher, lock, rows, hung, abandoned, digest>>

Begin(w) ==
  /\ host = "up" /\ wake[w] = "idle" /\ digest = NoDigest
  /\ At(w, "run")
  /\ UNCHANGED <<host, installed, outcome, flusher, lock, rows, rest>>

(* Faulty: only a wake that ran is flushed.                                *)
FlushesIfRan(w, o) == w \in Timer /\ o = "ran"

(* run_scheduled_worker flushes whatever the wake came to; process-now     *)
(* never does.                                                             *)
Flushes(w, o) == w \in Timer

(* run_worker returns or raises; its lines and its span are in the         *)
(* buffers.  The store of process-now is built before its wake.            *)
Finish(w, o) ==
  /\ wake[w] = "run" /\ (o = "no_store" => w \in Timer)
  /\ outcome' = [outcome EXCEPT ![w] = o]
  /\ Emit(LogRows(w, o), SpanRows(w, o))
  /\ At(w, IF Flushes(w, o) THEN "flush" ELSE "ended")
  /\ UNCHANGED <<host, installed, flusher, lock, insights, rest>>

(* flush_telemetry starts its thread, or cannot.                           *)
StartFlush(w) ==
  /\ wake[w] = "flush"
  /\ \/ At(w, "join") /\ Thread(w, "lock") /\ UNCHANGED <<buf, lost, abandoned, faults>>
     \/ /\ Fault
        /\ At(w, "ended") /\ abandoned' = abandoned \union {w}
        /\ Emit({Line(w, "unstarted", 2)}, {})
        /\ UNCHANGED flusher
  /\ UNCHANGED <<conn, host, installed, outcome, lock, insights, hung, digest>>

JoinEnds(w) ==
  /\ wake[w] = "join" /\ flusher[w] = "done"
  /\ At(w, "ended")
  /\ UNCHANGED <<host, installed, outcome, flusher, lock, rows, rest>>

(* The join is given up after timeout_millis.                              *)
JoinTimesOut(w) ==
  /\ wake[w] = "join" /\ flusher[w] # "done"
  /\ At(w, "ended")
  /\ abandoned' = abandoned \union {w}
  /\ Emit({Line(w, "abandoned", 1)}, {})
  /\ UNCHANGED <<host, installed, outcome, flusher, lock, insights, conn, hung, digest, faults>>

LockFlush(w) ==
  /\ flusher[w] = "lock" /\ lock = NoWake
  /\ lock' = w /\ Thread(w, "spans")
  /\ UNCHANGED <<host, installed, wake, outcome, rows, rest>>

(* The two providers in their order; then the thread is done.              *)
NextProvider(w) ==
  IF flusher[w] = "spans" THEN Thread(w, "logs") /\ UNCHANGED lock
  ELSE Thread(w, "done") /\ lock' = NoWake

(* A batch of one buffer is sent, and accepted or refused; what the        *)
(* exporter logs about it meets the handler.                               *)
Export(p) ==
  /\ ~hung /\ buf[p] # {}
  /\ buf' = [[buf EXCEPT ![p] = {}] EXCEPT !["logs"] = @ \union ExportLogs]
  /\ \/ insights' = insights \union buf[p] /\ UNCHANGED <<lost, faults>>
     \/ Fault /\ lost' = lost \union buf[p] /\ UNCHANGED insights

(* force_flush exports until the buffer is empty, or raises.               *)
FlushProvider(w, p) ==
  /\ flusher[w] = p
  /\ \/ Export(p) /\ UNCHANGED <<flusher, lock, abandoned>>
     \/ buf[p] = {} /\ NextProvider(w) /\ UNCHANGED <<rows, abandoned, faults>>
     \/ /\ installed /\ Fault /\ NextProvider(w)
        /\ Emit({Line(w, "raised", 2)}, {})
        /\ abandoned' = abandoned \union {w} /\ UNCHANGED insights
  /\ UNCHANGED <<conn, host, installed, wake, outcome, hung, digest>>

(* The processors' own threads export in the background.                   *)
BackgroundExport(p) ==
  /\ host = "up" /\ Export(p)
  /\ UNCHANGED <<process, conn, hung, abandoned, digest>>

(* A request handler logs a failure.                                       *)
RouteLogs(r) ==
  /\ host = "up" /\ digest = NoDigest
  /\ r \notin insights \union lost \union buf["logs"]
  /\ Emit({r}, {})
  /\ UNCHANGED <<process, insights, rest>>

(* Ingestion hangs, or answers again.                                      *)
Hang    == ~hung /\ Fault /\ hung' = TRUE
Recover == hung /\ hung' = FALSE /\ UNCHANGED faults
Ingestion == (Hang \/ Recover) /\ UNCHANGED <<process, rows, conn, abandoned, digest>>

(* The host recycles the process, in a wake or while it is frozen.         *)
Kill ==
  /\ host = "up" /\ Fault
  /\ host' = "down" /\ installed' = FALSE
  /\ wake' = [w \in Wake |-> IF wake[w] \in {"run", "flush", "join"} THEN "dead" ELSE wake[w]]
  /\ flusher' = [w \in Wake |-> "none"] /\ lock' = NoWake
  /\ buf' = Empty
  /\ UNCHANGED <<conn, outcome, insights, lost, hung, abandoned, digest>>

(* The two queries of the workflow that runs the digest.                   *)
Failures   == {r \in insights : r.severity = NoSeverity \/ r.severity >= 2}
Heartbeats == {r \in insights : r.message.text = "outcome"}

(* The night: the digest of the day's rows.                                *)
Nightly ==
  /\ digest = NoDigest
  /\ \A w \in Wake : wake[w] \in {"ended", "dead"}
  /\ digest' = BuildResult(Failures, Cardinality(Heartbeats))
  /\ UNCHANGED <<process, rows, conn, hung, abandoned, faults>>

Join(w) == JoinEnds(w) \/ JoinTimesOut(w)
Flush(w) == \E p \in Provider : FlushProvider(w, p)

Next ==
  \/ Boot \/ Kill \/ Ingestion \/ Nightly
  \/ \E w \in Wake :
       \/ Begin(w) \/ StartFlush(w) \/ JoinEnds(w) \/ JoinTimesOut(w) \/ LockFlush(w)
       \/ \E o \in Outcome : Finish(w, o)
       \/ \E p \in Provider : FlushProvider(w, p)
  \/ \E p \in Provider : BackgroundExport(p)
  \/ \E r \in Noise : RouteLogs(r)

Spec == Init /\ [][Next]_vars

(* A wake runs on, the five seconds of a join pass, and the flusher        *)
(* threads get to run: a frozen process is thawed by the next timer.       *)
FairSpec ==
  Spec /\ \A w \in Wake :
    /\ WF_vars(\E o \in Outcome : Finish(w, o)) /\ WF_vars(StartFlush(w))
    /\ WF_vars(Join(w)) /\ WF_vars(LockFlush(w)) /\ WF_vars(Flush(w))
-----------------------------------------------------------------------------
(* "a flush problem must not fail a completed run": a wake of the timer    *)
(* ends although ingestion hangs, even behind an abandoned flush that has  *)
(* the lock; and a flush itself ends unless ingestion hangs, because the   *)
(* exporter's own records do not refill the buffer that it drains.         *)
FlushIsBounded ==
  \A w \in Timer :
    /\ wake[w] = "run" ~> wake[w] \in {"ended", "dead"}
    /\ flusher[w] \in {"lock", "spans", "logs"} ~> flusher[w] \in {"none", "done"} \/ hung

(* "A quiet night is only a clean night if the worker's wake logs are      *)
(* visible": on a night without a report some wake was seen, and no wake   *)
(* of the timer that got its store failed whose flush was not given up and *)
(* whose rows were not refused; on a silent night every row of such wakes  *)
(* was refused.                                                            *)
Reported(w) == wake[w] = "ended" /\ w \in Timer \ abandoned
RowsOf(w)   == LogRows(w, outcome[w]) \union SpanRows(w, outcome[w])
DigestIsHonest ==
  /\ digest.action = "none" =>
       /\ Heartbeats # {}
       /\ \A w \in Wake : Reported(w) /\ outcome[w] \in Raised => Failure(w) \in lost
  /\ digest.action = "telemetry_silent" => \A w \in Wake : Reported(w) => RowsOf(w) \subseteq lost

(* A body fits an issue and accounts for every failure row: the tail line  *)
(* counts the groups that are not shown, the groups count each row once,   *)
(* and no missing group is worse than a shown one.                         *)
AccountsFor(failures, body) ==
  LET shown  == Range(body.shown)
      hidden == Groups(failures) \ shown
  IN  /\ body.length <= BodyLimit
      /\ body.missing = Cardinality(hidden)
      /\ MapThenSumSet(LAMBDA g : g.count, shown \union hidden) = Cardinality(failures)
      /\ \A h \in shown, g \in hidden : ~Outranks(g, h)

(* "The zero-group floor always fits": the night's digest finds a body,    *)
(* and accounts in it for all the failures of the day that arrived.        *)
DigestAccountsForAll ==
  [][digest.action = "" /\ digest'.action = "digest" => AccountsFor(Failures, digest'.body)]_vars
=============================================================================
