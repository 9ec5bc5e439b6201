----------------------------- MODULE WorkerWake -----------------------------
(***************************************************************************)
(* One wake of the worker, backend/app/worker.py, for the timer and the    *)
(* process-now route alike: the enabled gate, run_pipeline of entry.py     *)
(* behind the run lease, with its composition, the two preflights and the  *)
(* closing of its clients, the classification of its exit and the          *)
(* heartbeat, with the tables of state_store.py they read and write, and   *)
(* the metrics route that adds the heartbeats up.                          *)
(*                                                                         *)
(* Wakes overlap.  The lease appears as what RunLease implements, RunMutex;*)
(* process_mailbox appears as the relabelling of some messages, which is   *)
(* all that a heartbeat counts.                                            *)
(***************************************************************************)
EXTENDS Integers, FiniteSets, FiniteSetsExt

CONSTANTS
  Wake, NoWake,   \* invocations of the worker
  MaxMail,        \* bound: messages a run relabels
  MaxMishaps,     \* bound: storage faults, failed calls and host kills
  MaxToggles,     \* bound: uses of the enabled switch
  MaxChanges      \* bound: changes of the credentials

ASSUME WakeConstants ==
  /\ NoWake \notin Wake /\ MaxMail \in Nat /\ MaxMishaps \in Nat /\ MaxToggles \in Nat
  /\ MaxChanges \in Nat

VARIABLES
  flag,      \* the enabled row: "missing", "on" or "off"
  dead,      \* the workloads whose credentials are missing or rejected
  holder,    \* the wake that executes the pipeline
  pc,        \* where each wake is
  outcome,   \* HeartbeatStatus of the wake, "none" until it is known
  tally,     \* RunCounts of the wake's run
  open,      \* the connection pools each wake has opened and not closed
  mailbox,   \* Gmail: messages relabelled, by label
  last,      \* the wake whose heartbeat is in the `last` row
  history,   \* the wakes whose heartbeat is in the history partition
  view,      \* what a GET of /api/metrics has read so far
  after,     \* ghost: the wakes that were over when each wake began
  mishaps, toggles, changes

vars == <<flag, dead, holder, pc, outcome, tally, open, mailbox, last, history, view,
          after, mishaps, toggles, changes>>

Label  == {"processed", "failed"}
Zero   == [l \in Label |-> 0]
Status == {"skipped_disabled", "ran", "failed", "skipped_no_access", "skipped_busy"}
Over   == {"returned", "raised", "killed"}
Client == {"gmail", "trello", "extractor"}
Close  == {"close_gmail", "close_trello", "close_extractor"}
InRun  == {"extractor", "compose", "gmail", "trello", "membretes", "work", "release"} \union Close

(* The heartbeat's counts: absent, and summed as 0, unless the run ended.  *)
Counts(w) == IF outcome[w] = "ran" THEN tally[w] ELSE Zero

(* history_totals and list_error_runs over the history partition.          *)
Total(l) == MapThenSumSet(LAMBDA w : Counts(w)[l], history)

Unread == -1   \* a number the GET has not read yet

TypeOK ==
  /\ flag \in {"missing", "on", "off"}
  /\ dead \subseteq {"gmail", "trello"}
  /\ open \in [Wake -> SUBSET Client]
  /\ holder \in Wake \union {NoWake}
  /\ pc \in [Wake -> {"idle", "gate", "acquire", "report", "append"} \union InRun \union Over]
  /\ outcome \in [Wake -> Status \union {"none"}]
  /\ tally \in [Wake -> [Label -> 0..MaxMail]]
  /\ mailbox \in [Label -> Nat]
  /\ last \in Wake \union {NoWake}
  /\ history \subseteq Wake
  /\ view \in [totals : Nat \union {Unread}, errors : Nat \union {Unread}]
  /\ after \in [Wake -> SUBSET Wake]
  /\ mishaps \in 0..MaxMishaps /\ toggles \in 0..MaxToggles
  /\ changes \in 0..MaxChanges

Init ==
  /\ flag = "missing"
  /\ dead \in {{}, {"gmail"}, {"trello"}}
  /\ open = [w \in Wake |-> {}]
  /\ holder = NoWake
  /\ pc = [w \in Wake |-> "idle"]
  /\ outcome = [w \in Wake |-> "none"]
  /\ tally = [w \in Wake |-> Zero]
  /\ mailbox = Zero
  /\ last = NoWake
  /\ history = {}
  /\ view = [totals |-> Unread, errors |-> Unread]
  /\ after = [w \in Wake |-> {}]
  /\ mishaps = 0 /\ toggles = 0 /\ changes = 0

Lease == INSTANCE RunMutex
-----------------------------------------------------------------------------
tables == <<flag, last, history>>
others == <<view, toggles, dead, changes, after>>

Goto(w, label) == pc' = [pc EXCEPT ![w] = label]
Exit(w, status, label) == Goto(w, label) /\ outcome' = [outcome EXCEPT ![w] = status]
Mishap == mishaps < MaxMishaps /\ mishaps' = mishaps + 1

(* The timer fires, or the operator asks for a run.                        *)
Begin(w) ==
  /\ pc[w] = "idle"
  /\ Goto(w, "gate")
  /\ after' = [after EXCEPT ![w] = {v \in Wake : pc[v] \in Over}]
  /\ UNCHANGED <<tables, holder, outcome, tally, open, mailbox, view, toggles, dead, changes, mishaps>>

(* read_enabled: a missing row is OFF.                                     *)
ReadEnabled == flag = "on"

Gate(w) ==
  /\ pc[w] = "gate"
  /\ \/ ReadEnabled /\ Goto(w, "acquire") /\ UNCHANGED <<outcome, mishaps>>
     \/ ~ReadEnabled /\ Exit(w, "skipped_disabled", "report") /\ UNCHANGED mishaps
     \/ Mishap /\ Goto(w, "raised") /\ UNCHANGED outcome
  /\ UNCHANGED <<tables, holder, tally, open, mailbox, others>>

(* Faulty: the answer of try_acquire_run_lease is not looked at.           *)
EnterUnchecked(w) ==
  /\ pc[w] = "acquire"
  /\ holder' = w
  /\ Goto(w, "extractor")
  /\ UNCHANGED <<tables, outcome, tally, open, mailbox, others, mishaps>>

(* Faulty: a refused wake returns without a heartbeat.                     *)
RefusedSilently(w) ==
  /\ pc[w] = "acquire"
  /\ \/ Exit(w, "skipped_busy", "returned") /\ (holder # NoWake \/ mishaps > 0)
     \/ Exit(w, "failed", "report")
  /\ UNCHANGED <<tables, holder, tally, open, mailbox, others, mishaps>>

(* run_lease: enter, or be refused.  RunLease also refuses while the row   *)
(* of a dead holder is young, and fails when the row vanishes under it.    *)
Enter(w) ==
  /\ pc[w] = "acquire"
  /\ Lease!Enter(w)
  /\ Goto(w, "extractor")
  /\ UNCHANGED <<tables, outcome, tally, open, mailbox, others, mishaps>>

Refused(w) ==
  /\ pc[w] = "acquire"
  /\ \/ Exit(w, "skipped_busy", "report") /\ (holder # NoWake \/ mishaps > 0)
     \/ Exit(w, "failed", "report")
  /\ UNCHANGED <<tables, holder, tally, open, mailbox, others, mishaps>>

(* get_field_extractor: the LLM extractor holds a client from here on; an  *)
(* unknown backend, or no endpoint for the LLM, fails the run.             *)
GetFieldExtractor(w) ==
  /\ pc[w] = "extractor"
  /\ \/ Goto(w, "compose") /\ open' = [open EXCEPT ![w] = {"extractor"}] /\ UNCHANGED outcome
     \/ Exit(w, "failed", "release") /\ UNCHANGED open
  /\ UNCHANGED <<tables, holder, tally, mailbox, others, mishaps>>

(* The rest of the composition: the allowlist of senders, the clients of   *)
(* Gmail and Trello, which open nothing yet, and the read of the Trello    *)
(* configuration.  A failure here is before the try, so the extractor      *)
(* stays open.                                                             *)
Compose(w) ==
  /\ pc[w] = "compose"
  /\ \/ Goto(w, "gmail") /\ UNCHANGED outcome
     \/ Exit(w, "failed", "release")
  /\ UNCHANGED <<tables, holder, tally, open, mailbox, others, mishaps>>

(* The pool is built with the first request of a client.                   *)
Opens(w, client) == open' = [open EXCEPT ![w] = @ \union {client}]

(* Faulty: any refusal of the token endpoint counts as a dead token.       *)
VerdictAny(w, client, next) ==
  \/ client \notin dead /\ Goto(w, next) /\ Opens(w, client) /\ UNCHANGED outcome
  \/ Exit(w, "skipped_no_access", "close_gmail") /\ (Opens(w, client) \/ UNCHANGED open)
  \/ Exit(w, "failed", "close_gmail") /\ (Opens(w, client) \/ UNCHANGED open)

(* A preflight.  Missing settings end it before the first request and a    *)
(* definitive refusal after it, both with NoAccessError; a missing client  *)
(* secret, a transient failure or an error code that says nothing of the   *)
(* token is any other exception.                                           *)
Verdict(w, client, next) ==
  \/ client \notin dead /\ Goto(w, next) /\ Opens(w, client) /\ UNCHANGED outcome
  \/ client \in dead /\ Exit(w, "skipped_no_access", "close_gmail")
     /\ (Opens(w, client) \/ UNCHANGED open)
  \/ Exit(w, "failed", "close_gmail") /\ (Opens(w, client) \/ UNCHANGED open)

PreflightGmail(w) ==
  /\ pc[w] = "gmail"
  /\ Verdict(w, "gmail", "trello")
  /\ UNCHANGED <<tables, holder, tally, mailbox, others, mishaps>>

PreflightTrello(w) ==
  /\ pc[w] = "trello"
  /\ Verdict(w, "trello", "membretes")
  /\ UNCHANGED <<tables, holder, tally, mailbox, others, mishaps>>

(* _build_membrete_source, an argument of process_mailbox and so inside    *)
(* the try: a missing blob endpoint fails the run.                         *)
BuildMembretes(w) ==
  /\ pc[w] = "membretes"
  /\ \/ Goto(w, "work") /\ UNCHANGED outcome
     \/ Exit(w, "failed", "close_gmail")
  /\ UNCHANGED <<tables, holder, tally, open, mailbox, others, mishaps>>

(* Faulty: a message is counted although its relabel failed.               *)
RelabelCounted(w, l) ==
  /\ pc[w] = "work"
  /\ tally[w]["processed"] + tally[w]["failed"] < MaxMail
  /\ tally' = [tally EXCEPT ![w][l] = @ + 1]
  /\ \/ mailbox' = [mailbox EXCEPT ![l] = @ + 1] /\ UNCHANGED mishaps
     \/ Mishap /\ UNCHANGED mailbox
  /\ UNCHANGED <<tables, holder, pc, outcome, open, others>>

(* modify_labels, then `processed += 1` or `failed += 1`; when its answer  *)
(* is lost the exception ends the run before the count.                    *)
Relabel(w, l) ==
  /\ pc[w] = "work"
  /\ tally[w]["processed"] + tally[w]["failed"] < MaxMail
  /\ mailbox' = [mailbox EXCEPT ![l] = @ + 1]
  /\ \/ tally' = [tally EXCEPT ![w][l] = @ + 1] /\ UNCHANGED <<pc, outcome, mishaps>>
     \/ Mishap /\ Exit(w, "failed", "close_gmail") /\ UNCHANGED tally
  /\ UNCHANGED <<tables, holder, open, others>>

WorkEnds(w) ==
  /\ pc[w] = "work"
  /\ \/ Exit(w, "ran", "close_gmail") /\ UNCHANGED mishaps
     \/ Mishap /\ Exit(w, "failed", "close_gmail")
  /\ UNCHANGED <<tables, holder, tally, open, mailbox, others>>

(* Faulty: the closes follow one another, without a finally for each.      *)
CloseInLine(w, label, client, next) ==
  /\ pc[w] = label
  /\ \/ Goto(w, next) /\ UNCHANGED <<outcome, mishaps>>
     \/ Mishap /\ Exit(w, "failed", "release")
  /\ open' = [open EXCEPT ![w] = @ \ {client}]
  /\ UNCHANGED <<tables, holder, tally, mailbox, others>>

(* The nested finally clauses: one close after the other, whatever the     *)
(* ones before raised; an exception of a close replaces the run's own.     *)
CloseClient(w, label, client, next) ==
  /\ pc[w] = label
  /\ \/ Goto(w, next) /\ UNCHANGED <<outcome, mishaps>>
     \/ Mishap /\ Exit(w, "failed", next)
  /\ open' = [open EXCEPT ![w] = @ \ {client}]
  /\ UNCHANGED <<tables, holder, tally, mailbox, others>>

CloseClients(w) ==
  \/ CloseClient(w, "close_gmail", "gmail", "close_trello")
  \/ CloseClient(w, "close_trello", "trello", "close_extractor")
  \/ CloseClient(w, "close_extractor", "extractor", "release")

(* release_run_lease in the finally clause; if it raises, its exception is *)
(* the one _execute_wake classifies.                                       *)
Release(w) ==
  /\ pc[w] = "release"
  /\ Lease!Leave(w)
  /\ \/ Goto(w, "report") /\ UNCHANGED <<outcome, mishaps>>
     \/ Mishap /\ Exit(w, "failed", "report")
  /\ UNCHANGED <<tables, tally, open, mailbox, others>>

(* Faulty: a failed write of the row is swallowed, as that of the history. *)
ReportSwallowed(w) ==
  /\ pc[w] = "report"
  /\ \/ last' = w /\ UNCHANGED mishaps
     \/ Mishap /\ UNCHANGED last
  /\ Goto(w, "append")
  /\ UNCHANGED <<flag, history, holder, outcome, tally, open, mailbox, others>>

(* _report: write_heartbeat replaces the `last` row...                     *)
Report(w) ==
  /\ pc[w] = "report"
  /\ \/ last' = w /\ Goto(w, "append") /\ UNCHANGED mishaps
     \/ Mishap /\ Goto(w, "raised") /\ UNCHANGED last
  /\ UNCHANGED <<flag, history, holder, outcome, tally, open, mailbox, others>>

(* ... and appends to the history, whose failure is swallowed.  A failed   *)
(* wake then re-raises.                                                    *)
Append(w) ==
  /\ pc[w] = "append"
  /\ \/ history' = history \union {w} /\ UNCHANGED mishaps
     \/ Mishap /\ UNCHANGED history
  /\ Goto(w, IF outcome[w] = "failed" THEN "raised" ELSE "returned")
  /\ UNCHANGED <<flag, last, holder, outcome, tally, open, mailbox, others>>

(* The host dies; the lease it leaves is taken over when it is stale.      *)
Kill(w) ==
  /\ pc[w] \notin {"idle"} \union Over
  /\ Mishap
  /\ Goto(w, "killed")
  /\ holder' = IF holder = w THEN NoWake ELSE holder
  /\ UNCHANGED <<tables, outcome, tally, open, mailbox, others>>

(* POST /api/worker/enabled.                                               *)
SetEnabled(value) ==
  /\ toggles < MaxToggles /\ toggles' = toggles + 1
  /\ flag' = value
  /\ UNCHANGED <<last, history, holder, pc, outcome, tally, open, mailbox, view, after, dead, changes, mishaps>>

(* Google or Trello stop accepting a token, or the operator renews it.     *)
ChangeAccess(client) ==
  /\ changes < MaxChanges /\ changes' = changes + 1
  /\ dead' = IF client \in dead THEN dead \ {client} ELSE dead \union {client}
  /\ UNCHANGED <<tables, holder, pc, outcome, tally, open, mailbox, view, after, mishaps, toggles>>

(* GET /api/metrics: emails_failed, then the error runs; each read is      *)
(* under the store's lock, with the wakes of any host between them.        *)
ReadTotals ==
  /\ view.totals = Unread
  /\ view' = [view EXCEPT !.totals = Total("failed")]
  /\ UNCHANGED <<tables, holder, pc, outcome, tally, open, mailbox, dead, changes, after, mishaps, toggles>>

ReadErrorRuns ==
  /\ view.totals # Unread /\ view.errors = Unread
  /\ view' = [view EXCEPT !.errors = Total("failed")]
  /\ UNCHANGED <<tables, holder, pc, outcome, tally, open, mailbox, dead, changes, after, mishaps, toggles>>
-----------------------------------------------------------------------------
Step(w) ==
  \/ Gate(w) \/ Enter(w) \/ Refused(w)
  \/ GetFieldExtractor(w) \/ Compose(w)
  \/ PreflightGmail(w) \/ PreflightTrello(w) \/ BuildMembretes(w)
  \/ (\E l \in Label : Relabel(w, l)) \/ WorkEnds(w) \/ CloseClients(w) \/ Release(w)
  \/ Report(w) \/ Append(w)

Next ==
  \/ \E w \in Wake : Begin(w) \/ Step(w) \/ Kill(w)
  \/ \E value \in {"on", "off"} : SetEnabled(value)
  \/ \E client \in {"gmail", "trello"} : ChangeAccess(client)
  \/ ReadTotals \/ ReadErrorRuns

Spec == Init /\ [][Next]_vars

(* A started wake keeps going; nothing makes the timer or anyone start one.*)
FairSpec == Spec /\ \A w \in Wake : WF_vars(Step(w))
-----------------------------------------------------------------------------
(* The totals of the dashboard against the mailbox they describe.  No      *)
(* interleaving of wakes, kill or failed write makes history_totals claim  *)
(* a message that was not relabelled, and when nothing went wrong and no   *)
(* wake is under way they are exact; and of the two failure numbers of one *)
(* metrics answer, with any wakes between their reads, the error events    *)
(* drawn cover at least the emails_failed shown.                           *)
HistoryMatchesMailbox ==
  /\ \A l \in Label :
       /\ Total(l) <= mailbox[l]
       /\ mishaps = 0 /\ (\A w \in Wake : pc[w] \in {"idle"} \union Over) => Total(l) = mailbox[l]
  /\ view.errors # Unread => view.errors >= view.totals

(* "closed on every exit": a wake that is past its run has closed the      *)
(* pools of Gmail and Trello, also when another close raised, and, if its  *)
(* run returned, the extractor's.  (A run that fails in its composition    *)
(* leaves the extractor open.)                                             *)
ClosedOnExit ==
  \A w \in Wake : pc[w] \in {"release", "report", "append", "returned", "raised"} =>
    /\ open[w] \subseteq {"extractor"}
    /\ outcome[w] \in {"ran", "skipped_no_access"} => open[w] = {}

(* What a `skipped_no_access` heartbeat, and the reconnect banner it       *)
(* raises, says of the credentials: a transient failure "says nothing      *)
(* about token health", and without access no message is touched.          *)
AccessDecides ==
  changes = 0 =>
    IF dead = {} THEN \A w \in Wake : outcome[w] # "skipped_no_access"
                 ELSE mailbox = Zero /\ \A w \in Wake : outcome[w] # "ran"

(* Overlapping wakes write the one `last` row, which the dashboard and the *)
(* reconnect banner read, after they have let go of the lease and in any   *)
(* order.  However they interleave, once a wake has written its heartbeat  *)
(* the row is its own or one of a wake it overlapped or one that began     *)
(* later: it never falls back to a wake that was over when it began.       *)
LastIsNotStale ==
  \A w \in Wake : pc[w] \in {"append", "returned"} => last \notin after[w]

(* The worker enters and leaves the pipeline as the mutex allows, and runs *)
(* under it: whatever raises, a wake is the holder exactly from its entry  *)
(* to the release that every exit path of run_pipeline passes.             *)
RunsUnderLease ==
  /\ Lease!MutexSpec
  /\ [](\A w \in Wake : holder = w <=> pc[w] \in InRun)

(* "write a heartbeat LAST on every exit path": unless a storage fault or  *)
(* a kill intervenes, each wake's own heartbeat reaches the `last` row,    *)
(* whatever the outcome.                                                   *)
EveryWakeReports ==
  \A w \in Wake : pc[w] = "gate" ~> last = w \/ mishaps > 0
=============================================================================
