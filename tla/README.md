# Formal models of claim-automation-cloud

The repository automates the intake of insurance claims: a worker on Azure Functions wakes every
20 minutes (or when the operator presses *process now*), reads claim emails from Gmail, creates
Trello cards or comments on them, keeps a ledger in Table Storage and relabels the emails. A
FastAPI application and a React dashboard control it. This directory holds TLA+ modules of the
system, the TLC configurations that check them on small instances, and TLAPS proofs of its safety
for all values of the constants.

## 1. Inventory

| Component | State | Operations | Interacts with |
|---|---|---|---|
| run lease (`core/state_store.py`) | one row `run_lock`: a timestamp and an ETag | acquire (insert, read, conditional replace), release (delete) | wakes of all hosts, through Table Storage |
| claim pipeline (`pipeline/entry.py`) | per run only: listed, fetched, counts, deadline | list, fetch, sort, process one email, relabel | Gmail, Trello, ledger; runs inside the lease |
| Trello client (`pipeline/trello_client.py`) | the board (external), credentials of the run | preflight, create a full card with compensation, comment, search, attachments | pipeline, attachment route |
| Gmail client (`pipeline/gmail_client.py`) | mailbox labels (external), access token, label cache | preflight, list, get, modify labels, count | pipeline |
| claim ledger (`core/state_store.py`) | a row per claim reference | record (upsert), get, list | pipeline, metrics route |
| worker wake (`app/worker.py`) | enabled flag, `last` heartbeat, heartbeat history | gate, run, classify the exit, report | lease, pipeline, routes |
| worker and metrics routes | none | status, enabled, run; totals and error runs | the tables |
| claim parsing (`pipeline/claim_data.py`, `extraction.py`) | none | subject → type and reference, body → fields | pipeline |
| LLM extraction (`pipeline/llm_extraction.py`) | a client per run, a `CallState` per call | extract with fallback to regular expressions | parsing |
| PDF and letterhead | none | render | pipeline |
| settings (`app/settings_routes.py`, `core/secret_store.py`, `Settings.tsx`) | secrets, Trello configuration row, the form | read, save | preflights of later runs |
| login and session (`app/auth_routes.py`, `security.py`, `auth.ts`, `App.tsx`) | signed state, session JWT, refresh token, the browser's token | login, reconnect, callback, guard | every route |
| attachment download (`app/attachments_routes.py`, `AttachmentsDownload.tsx`) | none | search, download, zip | Trello client |
| dashboard (`WorkerControls.tsx`, `MetricsPanel.tsx`, `metrics.ts`, `ReconnectBanner.tsx`) | panel, outcome, busy flag; period buckets | load, toggle, process now | routes |
| telemetry (`app/observability/setup.py`) | providers with their batch buffers, the flush lock | set up, filter, bounded flush | worker, App Insights |
| failure digest (`scripts/failure_digest.py`) | none | group, rank, render, decide | the rows of App Insights, a nightly workflow |
| application set-up | none | wiring | everything |

What is hard here, and what must hold:

* **Wakes overlap** (timer, process-now, several host instances). Only a table row separates them.
  The lease must exclude, must survive a dead holder, and must never be freed by somebody else.
* **No transaction spans Gmail, Trello and Table Storage.** Each call may fail, or take effect and
  lose its answer; the host may be killed between any two. UNREAD is the only checkpoint. What is
  labelled `procesado` must be durable, the ledger must be truthful, redoing must not pile up cards,
  a passing fault must not cost a good claim its label, and every email must be settled in the end.
* **Order matters within a run**: a comment needs the card of a claim received before it, although
  Gmail lists in no order and the deadline may cut a run at any message.
* **Reports are best effort** and still have to be true: totals against the mailbox, one heartbeat
  for every exit, `skipped_no_access` only for credentials that are really dead.
* **Answers come late in the dashboard.** A request may break while its handler runs on; re-reads,
  retries and clicks must not leave the card or the form with something the server does not have.
* **The text decides.** Which card a comment reaches hangs on a number that is written in two forms and
  may be the prefix of another; the model that reads the fields may fail in ways of which some fall
  back and some do not.
* **Silence is ambiguous.** A night without failure rows may be a clean one or one whose rows were lost
  between a wake, its buffers and a flush that must not hold it up.
* **A save is three writes**, a login four calls: one of several may fail, and a retry must converge.
* **Boundaries of time**: expiry of states and sessions, the deadline of a download against its
  retries, the hour that comes twice.

`PROJECT.json` lists the hazards line by line, with the properties that guard each.

## 2. Plan

Done, in this order: `RunLease` over `RunMutex` and its proofs; `ClaimPipeline` and its proofs;
`WorkerWake` over `RunMutex`; `SettingsSave`; `Attachments`; `Dashboard`; `OperatorSession`;
`MetricsChart`; `ClaimParsing` and `ClaimIntake` over `ClaimPipeline` with their proofs; the proofs of
`WorkerWake`; `FailureDigest` and `Telemetry`; the proofs of `OperatorSession`, `SettingsSave`,
`Dashboard` with `MetricsChart`, and `Attachments`; the properties of `RunLease`, `ClaimPipeline`,
`ClaimIntake` and `WorkerWake` that were model-checked only; the proofs of `Telemetry` and
`FailureDigest`. Every invariant and every action property of a passing run is now also a theorem.

Left, in the modules there are: the 429 retry of the pipeline's own calls (`ClaimPipeline`); the ledger
scan of the metrics answer and the `list_claims` order (`WorkerWake`).

## 3. Modules

| Module | Models | Composition |
|---|---|---|
| `RunMutex` | what the lease promises: at most one holder | abstract specification |
| `RunLease` | `try_acquire_run_lease`, `release_run_lease`, `run_lease` | implements `RunMutex` |
| `ClaimPipeline` | `process_mailbox`, `_process_one`, the Trello, Gmail and ledger calls they make | one run at a time, as `RunLease` guarantees |
| `ClaimParsing` | `claim_data.py`, the sender checks of `entry.py`, the match on card names, as operators | used by `ClaimIntake` |
| `ClaimIntake` | `_process_one` with either field extractor and every failure of the model call | implements `ClaimPipeline`, whose constants it computes |
| `WorkerWake` | `_execute_wake`, `run_pipeline` with composition, preflights and closes, `write_heartbeat`, the routes for run, enabled and metrics | uses `RunMutex` for the lease |
| `Dashboard` | `WorkerControls.tsx` against `worker_routes.py` | the wake is one gate and one heartbeat |
| `SettingsSave` | `Settings.tsx`, `settings_routes.py`, both secret stores, the Trello preflight's reads | |
| `Attachments` | `AttachmentsDownload.tsx`, `attachments_routes.py`, `TrelloClient._request` | |
| `OperatorSession` | `auth_routes.py`, `security.py`, `auth.ts`, `App.tsx` | |
| `MetricsChart` | `metrics.ts` and the selects of `MetricsPanel.tsx` | |
| `FailureDigest` | `failure_digest.py`, as operators | used by `Telemetry` |
| `Telemetry` | `observability/setup.py`, the flush of `run_scheduled_worker`, the night | feeds `FailureDigest` with the rows that arrive |
| `MC…` | constants for TLC; `MCDashboard` puts the two cards of the page together, `MCOperatorSession` takes the login as an instance | extend the modules above |
| `…Proofs` | theorems | extend the modules above; `SettingsSaveProofs` also has the theorems about `OperatorSession`, through `MCOperatorSession`; `TelemetryProofs` has those about `FailureDigest`; `DashboardProofs` is about the page of `MCDashboard`; `ClaimIntakeProofs` takes the theorems of `ClaimPipelineProofs` for the pipeline it implements |

Definitions marked *Faulty* are variants of the one below them with a plausible bug. They are in no
specification; each property has one under which its run finds it violated.

### RunLease

State: real time `now`; the `row`; per invocation `pc`, the real time it `begun`, its clock's reading
`stamp` (the `now` argument), the ETag it has `seen`; counters of faults and kills. Each SDK call is an
action, with one alternative per outcome: success, the error the code handles, the error it does not,
and the answer that is lost after the call took effect. `LockFree` is `StateStore._lock`: between
invocations of one process a whole acquire or release is indivisible; between processes it is not.
An invocation writes the row at most once, so the identity of the writer stands for the ETag. `Tick`
is the platform's function timeout: no live invocation grows older than `MaxRun`. The assumption
`StaleOutlivesRun` (`MaxRun + 2 * MaxSkew <= StaleAfter`) holds for the deployed values: `host.json`
sets no `functionTimeout`, so the Consumption default of 300 s applies, `RUN_LEASE_STALE_S` is 600,
which leaves 150 s for each clock. `Spec` sends every delete once. `RetrySpec` adds the transport that
sends a delete again when its answer was lost.

### ClaimPipeline

State: Gmail's `labels`; Trello's `board` (reference, parts and state of each card) and `posted`
comments; the `ledger`; and what a run keeps (`pc`, `listed`, `fetched`, `done`, `email`, `card`, `late`).
`pc` is the call the run makes next. A call inside the `try` of `process_mailbox` that raises leads to
`MarkFailed` (`MailRaise`); a call outside it ends the run (`RunRaise`). Mutating calls have three
outcomes: done, refused, done with the answer lost. `spent` counts mishaps by kind against `Budget` and `MaxKinds`, so
that properties can say what a mishap may cost: a failed call inside the boundary (`mail`), the ledger
write or the compensating delete among them (`last`), a call outside it (`run`), a kill, a deadline, the
operator's retry and archiving. What is read in an email (trusted sender, type, reference, notice
text, town, date) is given by constants; `ClaimIntake` computes them from messages. In a `Findable` email
a field that no pattern finds may still be found, anew at each attempt (`Finds`). Environment: messages arrive in the order
of their dates, the operator marks failed emails unread and archives or restores cards, the deadline
passes, the host dies.

Where the abstraction is coarser than the code: the two label look-ups and the listing are one call
(`list`), because none of them changes what the properties see and all of them end the run when they
fail; the reads of the lists of a board are one `search`; creating a card picks any unused id. The
board's credentials and ids do not change during a run (`TrelloClient` is built per run).

### ClaimParsing and ClaimIntake

`ClaimParsing` has operators only. A message is what the code can find in it: the domain of its From
header, the claim markers of its subject, the first slashed number and the first `20xx` digit run, the
MIME parts. A text is the set of things found in it. A claim number is a sequence of digits, because
padding and prefixes are what the code has to get right.

`ClaimIntake` EXTENDS it and takes `ClaimPipeline` as an instance, whose `Trusted`, `Type`, `RefOf`,
`Noticed`, `Placed` and `Findable` are computed from the messages. It replaces two things. The step `Parse` becomes
the refusal before any field is read, the regular expressions (`ExtractRegex`), or a model call
(`CallModel`) that ends in an answer, in one of seven causes of failure that `extract` catches
(`ModelFails`, with `ClassifyFailure` and the fallback) or in an exception that it does not
(`ModelBreaks`). `Search` and `SearchArchive` become the match of `find_card_by_claim_ref` on names.
`length` is `CallState.finish_reason`: a new one for every call. `backend` is the setting of the
deployment, chosen once.

What the model may answer: anything. It may find a town or a notice where the regular expressions find
none (`Findable`: each attempt may go either way, so such an email is not `Good`, and failing it is no
mishap), and it may leave out one that the email has. Leaving out a town or a gestión's notice burns the email (`build_card_name` raises,
`REASON_NO_NOTICE_TEXT`), so it counts as a mishap, like an exception of the token provider, which
`extract` does not catch.

### WorkerWake

State: the `flag` row; the workloads whose credentials are `dead`; `holder` (as `RunMutex` has it); per
wake `pc`, `outcome`, `tally` and the connection pools it has `open`; the `mailbox` (how many messages
carry each label through the worker); the `last` heartbeat row, the `history` partition, and the `view`
a metrics request builds from two scans. `after` is a history variable: the wakes that were over when
a wake began, for `LastIsNotStale`. `run_pipeline` is modelled step by step: extractor, the rest
of the composition (outside the `try`), the two preflights with their three verdicts, the letterhead
source (inside it), the work, the three nested closes, the release. The work appears as a number of
relabels, each counted only when its call returned. `Refused` covers both exits of a failed acquire
that `RunLease` has: busy, and failed.

### Dashboard

State: the server's `flag` and heartbeat number `beat`; the card (`panel`, `busy`, `runOutcome`,
`actionFailed`, `epoch` for `statusEpoch`); the GET of each epoch, which reads the flag and the
heartbeat in two steps, and the POST of each click with its handler on the server and its promise in
the browser. A broken connection settles the promise while the handler runs on. A new epoch cancels
the GET before it, as the effect's clean-up does.

### SettingsSave

State: the secret store (`wholeFile` tells `FileSecretStore`, one file read and rewritten under a lock,
from `KeyVaultSecretStore`), the configuration row, the handlers of the saves and of the OAuth callback
that stores the Gmail token, the page (form, badges, flags, epochs) and the preflight of one wake,
which reads the row and then the two secrets. A blank secret means "keep", a blank id clears. A re-read
that fails keeps the page, one that answers 200 with a broken contract puts it in error at any epoch
(`Settings.tsx:106`); the inputs survive behind either.

### Attachments

State: the card's attachments, the call under way with its 429 `attempt`, the entries of the `zip`, the
`elapsed` seconds and the dashboard's `download`. Every attempt of a call takes one second or its
timeout; a retry adds the back-off; the deadline is looked at between files; the platform cuts the
request at 230 s. `EntryName` is `_entry_names`. `EndsInTime` has two bounds, told apart by whether a file
has been begun (`FileStarted`): with the code's times 90 + 94 = 184 s once it has, the number of the
comment at `attachments_routes.py:36`; before that only the calls of the search count, which on three
lists may take 238 s, past the cut-off, because nothing but the loop over the files looks at the deadline.

### OperatorSession

State: a clock, the stage of each flow (Google, the steps of the callback, the return), Google's
grants, used codes and `dead` refresh tokens, the `stored` refresh token, each tab's `token` and `session`.
A flow is one visit to Google's page. The program consumes no state (`security.py:36` looks at the MAC and
the age), so `Revisit` begins another flow with the state of an earlier one, its time and its prompt, but a
code of its own; `Resend` sends the same code again, which Google refuses. A login state may thus buy
several sessions within 600 s, and what limits them is its age (`AccessIsRecent`). `prompt` tells a login
from a reconnect: Google returns a refresh token on the first grant and on a forced consent only, as the
comments at `auth_routes.py:64` and `:145` say. `Revoke` ends the refresh tokens issued so far, with or
without the grant. Neither time nor a revocation falls between an exchange and the session it leads to, so
two callbacks that straddle a revocation and store in the other order are outside. Signatures hold by
assumption.

### MetricsChart

State: the instants of claims and errors, the present, the two selects, the zero-fill loop
(`cursor`, `keys` per series). `FromLocal` is the `Date` constructor on local fields, with an hour that
does not exist and one that comes twice. The calendar is scaled down (hours, days of four hours, weeks
of two days, months of three). `MCDashboard` checks it together with `Dashboard`: the worker card and the
metrics panel share no state and no request, so a behaviour drives one of the two (`driven`).

### Telemetry and FailureDigest

State: the host process and whether the telemetry is `installed`; each wake's place and outcome; the
flusher thread of each wake and the wake whose thread holds `_flush_lock`; the two batch buffers; what
App Insights has; what was refused or never buffered; the nightly `digest`. `Boot` is the import of
`function_app.py`, whose set-up may fail without failing the host. `Finish` puts the rows of a wake in the
buffers: the outcome line, the warning of a wake without access, the exception on the span of a wake
that raised. A wake that raises in a storage call has no outcome line, and a timer wake whose store cannot be
built (`get_state_store()` at `worker.py:142`, outcome `no_store`) raises before the span `worker_run` is
opened and leaves no row of its own: only the rows of the Functions host, which are not modelled, tell of
it, so `DigestIsHonest` says nothing about it. It is flushed like any other. `StartFlush`, `LockFlush`,
`FlushProvider` and `JoinTimesOut` are `flush_telemetry` and its thread, which lives on when the join is
given up. `Export` is the SDK's: the rows arrive or the batch is refused, and what the exporter logs
about it meets the drop filter.

`FailureDigest` computes with lengths and counts: groups by type, severity and normalized text, their
order, the stages in which an overlong body is cut, and the three results. The sizes are scaled down.
The query leaves the order of its rows open, and with it the order of groups that tie: `Ranked` is any
one of the orders in which no group stands before one that outranks it.
The two queries of the workflow live outside the repository and are taken from what `build_result`
and its documentation expect of them.

## 4. Runs

| Run | Shows |
|---|---|
| `lease` | mutual exclusion, ownership of the row, no lasting blockage, refinement of `RunMutex` |
| `lease_retry` | **violation**: a delete sent twice frees the next holder's lease |
| `pipeline` | durability, truthful ledger, accounted strays, chronological processing, comments that follow their claims, no burned claims, no duplicates unless a kill or a failed last call |
| `intake` | the detailed reading implements `ClaimPipeline`; comments are on their own claim's card; a notice reaches its claim whatever the form of its number and whatever the model does; failures are classified by their own call; every unread email is settled |
| `pipeline_kill` | **violation**: a kill between card and ledger row duplicates the card |
| `pipeline_archive` | **violation**: comments land on archived cards |
| `wake` | totals never exceed the mailbox and are covered by the error runs, clients closed, access decides, the last heartbeat does not fall back, refinement of `RunMutex`, every wake reports |
| `dashboard` | re-reads are true, no click overtakes another, every click settles; every item in its bar, bars in order and complete across both clock changes, the series and the table agree, the loop moves on |
| `settings` | no lost secret, converging retries, a form that survives and true badges, secrets before the table |
| `attachments` | the time bound of the route's comment, a ready archive is whole |
| `session` | access is recent and the operator's, no login succeeds without the grant it used up, a reconnect repairs |
| `telemetry` | a flush never holds a wake up, a night without a report is a clean one, the digest accounts for every row and fits |

The `TypeOK` of each module documents its variables and holds in the same runs (add
`INVARIANT TypeOK`); it is a part of the inductive invariant of each module that has proofs.

**Bounds.** The lease needs three invocations to separate holder, taker and rival taker, and two hosts
so that both the lock and its absence matter; six ticks with a window of three let a lease become
stale and be taken over within the run; one fault and one kill combine. The pipeline has a claim, a
comment about it and a forward of it (same date as the comment, to exercise ties), and one mishap of
every kind, at most four kinds (`MaxKinds`) in one behaviour, so that a failed completion with a failed
compensation, a kill and a retry, or a card move in the place of one of them, meet; four cards are enough for every stray these can leave. In `pipeline` the forward has
no town that a pattern finds, and the model may find one. `intake` has a claim 41 and a
gestión on a claim 4, whose number is a prefix and whose notice only the model finds; a gestión of claim 41 in the padded form, with a subject
that quotes a second marker; a stranger; and a page of two messages for four emails, so that the
listing can starve a message if anything can. It has one failed call, one kill and one card move, and no
deadline, which `pipeline` covers. Two wakes
overlap with two relabels each, one mishap anywhere, one use of the switch and one change of the
credentials. The dashboard has three clicks: a run whose re-read is in flight, a toggle under it, and
one more. Two saves are an attempt and its retry, or two different ones. Three attachments cover two of
one name and one that is called like a copy; the times are the code's own, and with three lists a slow
search alone reaches the cut-off. Three visits to Google's page
in two tabs cover a login, a lost grant or a revocation, and a reconnect, or a state used twice; the state
lives one unit and the session two, so that each may expire first, and three units of time are the two
together, after which a session that is still good would break the property. The chart has at most one claim and one error at any instant: the properties are about
each item and about the pair of series, which one of each can already set against the other. A day of
two timer wakes and one failed request has a flush that waits behind an abandoned one, and more groups
than the body holds; one mishap suffices, because the properties say what a single loss may hide. The
wakes of process-now, which are never flushed, are in the module and not in the run.

Deadlock is checked in the pipeline runs, where there is always a next run. Everywhere else the
invocations, clicks or saves are finitely many and the system may stop. Card ids, tabs, and invocations
of one process are symmetric; symmetry is not used where liveness is checked.

**Fairness.** `WorkerWake`: weak fairness on the steps of each started wake, since Python executes it
until it ends or its host dies (the kill is not fair). Nothing is assumed to start one.
`ClaimPipeline`: weak fairness on the run as a whole, which the 20-minute timer and the sequential code
justify; mishaps are bounded, which is what "once the faults stop" means for `EveryEmailSettles`.
`Dashboard`: requests are answered or break, and promises settle; nobody has to click.
`ClaimIntake`: the same, and a model call ends within `LLM_CALL_TIMEOUT_S`, in one of the outcomes
modelled. `Telemetry`: a wake runs on, the five seconds of a join pass, and the flusher threads get to run;
a host that is frozen is thawed by the next timer. Nothing is assumed about ingestion, which may hang
for ever.

**Conditions worth knowing.** `CommentFollowsItsClaim` needs one page to hold the unread mailbox
(`PageMax`, 100 in the code): a claim beyond the page is not seen by the run that meets its comment.
`NoDuplicateCard` needs that no host was killed and that neither the ledger write nor the compensating
delete failed; `pipeline_kill` shows that the first is needed. `RereadIsTrue` is about actions that end
in a re-read, and excludes POSTs whose connection broke: their handler may act after the re-read.

## 5. Findings

1. `release_run_lease` deletes unconditionally; a retried delete breaks the exclusion (`lease_retry`).
2. "Every redo path is idempotent or compensated" does not hold for a kill after the card is complete
   (`pipeline_kill`).
3. "An archived card must fail the email" does not hold: the search includes the archive
   (`pipeline_archive`).

Smaller things met while modelling. They are in the models, and no run is devoted to them:

* A release between the refused insert and the read of the row raises `ResourceNotFoundError`
  (`state_store.py:413`); the wake is then `failed`, where `entry.py:368` promises `skipped_busy`
  (`GetMissing` of `RunLease`).
* A successful toggle does not start a new epoch (`WorkerControls.tsx:153`), so a status answer that was
  under way puts the old position of the switch back on the card until the next read. The same holds
  for a successful save (`Settings.tsx:140`).
* `_entry_names` does not look up the name it makes: uploads `a.jpg`, `a.jpg` and `a (2).jpg` give two
  equal entries (`attachments_routes.py:64`). `DoneMeansWhole` therefore has the condition
  `NoneNumbered`.
* A composition that fails after the extractor was built leaves its client open, because the `try`
  begins later (`entry.py:379-382`); `ClosedOnExit` excludes exactly that.
* The heartbeat is written after the lease is released, so the `last` row may be of an older run, but
  only of one that overlapped (`LastIsNotStale`).
* `extract` catches `AgentRunError` and `OpenAIError`; an exception of the credential behind the token
  provider is neither, and burns the email instead of falling back (`llm_extraction.py:348`). With a
  model that leaves out the town, the email is burned although the regular expressions would find it.
* "Nothing is lost" when a flush is abandoned (`setup.py:195`) holds as long as the host lives: a kill
  before the batch is out loses it, which is why `DigestIsHonest` excludes abandoned flushes.
* A process-now answer waits for the whole run, which may exceed the platform's 230 s for an idle HTTP
  request; the dashboard then treats it as a broken connection (`Dashboard`, dropped POSTs).

## 6. Proofs

`RunLeaseProofs`, for all constants that satisfy `LeaseConstants` and `StaleOutlivesRun`, about `Spec`.
`HolderOwnsRow` is not inductive: a taker replaces the row of somebody it believes dead. `LeaseInv` adds
that an existing row carries its writer's own clock reading (`RowInv`), that readings are off by at most
`MaxSkew` and nobody lives past `MaxRun` (`ClockInv`), and that a taker has seen a row older than
`StaleAfter` by its own clock (`SeenInv`). The core is `StaleMeansDead`: with the margin of
`StaleOutlivesRun`, whoever wrote the row a taker has seen is not alive. Mutual exclusion follows, since
two holders would both own the one row, and so does the refinement of `RunMutex`, step by step.
`BusyMeansContended` needs `BusyInv`: a fresh row was written by somebody whose clock, like the reader's,
is off by at most `MaxSkew` (`FreshIsRival`), and a row that changed under a taker is a rival's. For
`RetrySpec` mutual exclusion is false (`lease_retry`).

`ClaimPipelineProofs`, for all constants that satisfy `PipelineConstants`. `PipelineInv` says what each
value of `pc` implies about the email and the card in hand (`HandInv`: a claim about to be created is
not in the ledger, a card about to be recorded is complete and exists, an email about to be relabelled
has had its effect), that comments are on cards of their own claim (`PostedInv`), that the ledger is
truthful, and that relabelled emails have had their effect (`DurableInv`). From it follow
`ProcesadoIsDurable` and `LedgerNamesFullCard`. `Chronological` needs `CutInv` (a page that was not
fetched whole means the deadline has passed, and it stays passed); `GoodClaimNotBurned` needs `BurnInv`
(a good claim is on the failing branch only after a failed call); `NoDuplicateCard` needs `CleanInv` (a
complete card is the ledger's or the one in hand), which is kept as long as no kill and no failed last
call has been spent (`SpendGrows` and `CleanBefore`: what is spent stays spent). `StraysArePaidFor`
counts: a step adds at most one card to the strays and then spends a mishap (`StraysStep`).
`CommentFollowsItsClaim` needs the whole order of a run, `FollowInv`: emails arrive in the order of their
dates (`ArrivedInv`), so the page of an email lists the older good claims or the ledger has them
(`ListedInv`); a claim that the run is done with is in the ledger (`DoneInv`), so the ledger has it when
the comment is taken (`TakenInv`), and nobody archived its card (`OpenInv`). It is about finite mailboxes,
since its hypothesis counts the emails. `NoticesReachTheirCard` needs less and says it without the order:
with no failed call and no moved card, a comment is `failed` only while the ledger has no row (`MissInv`).

`ClaimIntakeProofs`, for all constants that satisfy `IntakeConstants`. `NameMatchIsEquality` and
`PaddedNumberIsRead` are about the operators: `ref(?!\d)` matches a card's name exactly when the name
carries that reference, and any number of leading zeros is read away. `IntakeRefinesPipeline` shows that
every step of `ClaimIntake` is a step of `ClaimPipeline` or a stutter; the theorems about
`ClaimPipeline` therefore hold of the detailed pipeline. Its invariant `IntakeInv` (cards carry
references, an email is in hand from its taking to its label) is needed for the search: only between
references is matching a name the same as matching a reference. `CommentsFindTheirClaim` has
the assumption that the subject of a comment names the claim that its sender means, and so has
`NoticesReachTheirClaim`. The latter and `IntakeKeepsThePipelineSafe` carry theorems over the refinement:
`Proved` is an instance of `ClaimPipelineProofs` with the computed constants, `ConstantsFit` discharges
its assumptions and `SamePipeline` says that it is the specification refined. `FailureClassIsTrue` rests
on one fact, that an open call has a `CallState` no response has touched (`CallInv`).

`WorkerWakeProofs`, for all constants that satisfy `WakeConstants`. `WakeInv` adds to the
properties what makes them inductive: the lease is held from entry to release, what each wake may still
have open by its place, that a wake that was over stays over, how far a wake gets with a dead
credential. From it follow `ClosedOnExit`, `AccessDecides`, `LastIsNotStale` and `RunsUnderLease`.

`HistoryMatchesMailbox` needs `CountInv` besides. Its totals are folds over a set of wakes, of which
nothing can be said by induction here; but a sum of naturals is the number of their units, the pairs
`<<w, n>>` with `n` at most the term of `w` (`SumsExist`, `SumsUnique`), and about cardinalities there are
theorems. So the invariant compares sets: those of the counted messages with the mailbox, those of the
history with those counted.

`SettingsSaveProofs`, for all constants that satisfy `SettingsConstants`. In `SaveInv` the lock of the file
store is held exactly by the thread whose copy is the file (`LockInv`, for `NoSecretLost`), each place of
a handler says what its earlier writes left, as long as its rivals submitted the same (`ConvergeInv`, for
`RetryConverges`), a re-read is as true as the part of it that has been read (`ReadInv`, for
`PageAfterFailure`), and secrets precede the table for every reader that starts with the table
(`SetupInv`, for `SetupIsOrdered`).

The same module has the theorems about `OperatorSession`, whose callback shares the secret store: it extends
`MCOperatorSession`, and they hold for all constants that satisfy `SessionConstants`. `SessionInv`
follows a flow from click to session: a callback past the account check is the operator's, in the
lifetime of its state and with its code spent (`CallbackInv`), so a session is the operator's and recent
(`MintedInv`), and a tab's token is a session that was minted (`TokenInv`).
For the refresh token, a session comes after the store (`StoreInv`), so while nothing is stored the flow
that was given the grant's token has no session (`GrantInv`); the stored one is from a flow that cannot be
exchanged again (`StoredInv`); and dead tokens are of callbacks that are over, so what a later reconnect
stores is good (`RepairInv`). `AccessIsRecent`, `RefreshTokenKept` and `ReconnectRepairs` follow.

`DashboardProofs`, for all constants that satisfy `DashboardConstants` and `ChartConstants`. `CardInv`:
one request is waited for, the last one (`ClickInv`); heartbeats are no more than the wakes behind them
(`BeatInv`, a cardinality); the flag is the target of the last toggle done (`FlagInv`); and a re-read
has, part by part, what the server has (`RereadInv`). `RereadIsTrue` and `IntentKept` follow, also of the
page as a whole. The chart's part is about the operators of `MetricsChart`: the cursor moves on at every
hour that exists, does not exist or comes twice (`FillingAdvances`), and moves to the next key (`NextKey`),
because local hours do not fall and buckets do not overlap (`LocalRises`, `OneFloor`). What the loop has
drawn is then a chain of keys from the shared start to the cursor (`FillInv`), every hour of which has its
key in it (`ChainGrows`): `BarsCountAll`. Two chains of the same start agree where both are defined
(`ChainsAgree`): `SeriesAgree`. The proofs use that the buckets of a day or longer are longer than an
hour, which is now part of `ChartConstants`. That the loop ends is not proved.

`AttachmentsProofs`, for all constants that satisfy `AttachmentConstants`. `TimeInv` is a budget: when
the k-th call of the search is under way, at most k - 1 calls with all their attempts have passed, and
what the attempts of this one have taken; and a file is begun before the deadline. Each bound of
`EndsInTime` follows from its half; that no file is begun during the search comes from `ZipInv`, which follows the
archive along the photographs of the card. `Photos` is a recursive function because nothing is known to
the provers of the library's `SelectSeq`; `PhotosCount` shows that it keeps as many as there are uploads,
and `NamesApart` that numbered names differ if no upload has the name of a copy. That names are sequences
is assumed in `AttachmentConstants`: an entry's number is appended to its base.

`TelemetryProofs`, for all constants that satisfy `TelemetryConstants` and `DigestConstants`. `ReportInv`
follows the rows of each wake whose flush was not given up: they are gone (in App Insights, or lost), or
in a buffer that its flush has yet to find empty, and once its thread is done none is left in a buffer
(`DeliverInv`). What makes it inductive is that an export moves a whole buffer (`ExportEffect`), that rows
are only added (`RowsStep`), and that a thread belongs to a wake of the timer (`ThreadInv`). At night every
wake is over (`NightInv`), so `DigestIsHonest` is true when the result is made, and stays so because what is
gone stays gone (`OverStep`). `DigestAccountsForAll` needs of that invariant only that rows are finitely many
with integer severities; the rest is about the operators of `FailureDigest`. Groups can be ranked: some group
is outranked by none (`TopGroup`), and a least set that cannot be ranked would lose it (`RankingExists`); the
enumeration that `Ranked` chooses then has every group once (`RankedGroups`). The counts add up because the
members of a set of groups are as many as its sum (`CountsAdd`, `CountsTotal`). Some attempt of `RenderBody`
fits, since the last one shows no group and its body is within the limit (`AttemptsEnd`, `FloorFits`), as the
comment at `failure_digest.py:168` says; this is what `DigestConstants` assumes of `BODY_LIMIT`, 65 536 in
the code. What is hidden is a tail of the ranking (`BodyAccounts`).

**Induction.** The library's induction theorems take an operator as parameter, which the provers here
cannot instantiate. Where a fact goes by induction over numbers or finite sets (`LeastNatural`,
`SumsUnique`, `RankingExists`, `ChainsAgree`, `PhotosCount`), the proof takes a least counterexample
instead, which exists because `<` on the naturals is well-founded.

**Only model-checked.** `EveryEmailSettles`, `EveryWakeReports`, `EveryClickSettles` and `FlushIsBounded`:
liveness, and with it fairness and ENABLED, is outside the prover's reach. The three violations are TLC's counterexamples.

## 7. Not modelled

* The conversion of HTML bodies to text, and the values of the fields that only fill a card's text.
* Rendering of the PDF and the letterhead: layout; that it may fail is a step of the pipeline.
* The reconnect banner: one request and a yes or no about the `last` row.
* `list_claims`, the ledger scan of the metrics answer, the label cache and the gauge of failed emails:
  nothing is decided by them.
* The prompt and the spans of a model call, the redaction of URLs, configuration, wiring and texts: they
  keep no state a property could be about.

Text is abstracted everywhere: domains, names and messages are members of small sets.
