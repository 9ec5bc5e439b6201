----------------------------- MODULE Dashboard ------------------------------
(***************************************************************************)
(* The worker card of the dashboard, frontend/src/WorkerControls.tsx,      *)
(* against the endpoints it calls, backend/app/worker_routes.py.           *)
(*                                                                         *)
(* The card shows the enabled switch and the last heartbeat.  A click is a *)
(* POST; the status is a GET that a new epoch cancels.  Answers come late: *)
(* a GET reads the flag and the heartbeat in two reads, the POST's handler *)
(* runs on when the browser's connection is gone, and the timer writes     *)
(* heartbeats of its own.                                                  *)
(***************************************************************************)
EXTENDS Integers

CONSTANTS
  MaxClicks,   \* bound: uses of the switch and of process-now
  MaxTimer,    \* bound: wakes of the timer
  MaxFaults    \* bound: failed requests and broken connections

ASSUME DashboardConstants ==
  MaxClicks \in Nat /\ MaxTimer \in Nat /\ MaxFaults \in Nat

VARIABLES
  flag,     \* server: the enabled row
  beat,     \* server: the number of the heartbeat in the `last` row, 0 for none
  panel,    \* the card: status, and what it shows when the status is ok
  busy, runOutcome, actionFailed,
  epoch,    \* statusEpoch
  get,      \* the status request of each epoch
  req,      \* the POST of each click
  clicks, timer, faults

vars == <<flag, beat, panel, busy, runOutcome, actionFailed, epoch, get, req,
          clicks, timer, faults>>
server == <<flag, beat>>
card   == <<panel, busy, runOutcome, actionFailed, epoch, get>>

Click  == 1..MaxClicks
Epoch  == 0..MaxClicks
Beat   == 0..(MaxClicks + MaxTimer)
Answer == {"none", "ok", "error"}
RunOutcome == {"null", "past_gate", "skipped_disabled"}   \* past_gate: any outcome of an enabled wake

Panel == [status : {"loading", "ok", "error"}, enabled : BOOLEAN, heartbeat : Beat]
NoGet == [stage |-> "none", enabled |-> FALSE, heartbeat |-> 0]
NoReq == [op |-> "none", target |-> FALSE, handler |-> "none", promise |-> "none",
          answer |-> "none", heartbeat |-> 0]

TypeOK ==
  /\ flag \in BOOLEAN /\ beat \in Beat
  /\ panel \in Panel
  /\ busy \in BOOLEAN /\ runOutcome \in RunOutcome /\ actionFailed \in BOOLEAN
  /\ epoch \in Epoch
  /\ get \in [Epoch -> [stage : {"none", "sent", "half", "answered", "broken", "done"},
                        enabled : BOOLEAN, heartbeat : Beat]]
  /\ req \in [Click -> [op : {"none", "toggle", "run"}, target : BOOLEAN,
                        handler : {"none", "waiting", "gated", "done"},
                        promise : {"none", "pending", "settled", "dropped"},
                        answer : Answer, heartbeat : Beat]]
  /\ clicks \in 0..MaxClicks /\ timer \in 0..MaxTimer /\ faults \in 0..MaxFaults

Init ==
  /\ flag \in BOOLEAN /\ beat = 0
  /\ panel = [status |-> "loading", enabled |-> FALSE, heartbeat |-> 0]
  /\ busy = FALSE /\ runOutcome = "null" /\ actionFailed = FALSE
  /\ epoch = 0
  /\ get = [e \in Epoch |-> IF e = 0 THEN [NoGet EXCEPT !.stage = "sent"] ELSE NoGet]
  /\ req = [c \in Click |-> NoReq]
  /\ clicks = 0 /\ timer = 0 /\ faults = 0

Fault == faults < MaxFaults /\ faults' = faults + 1
-----------------------------------------------------------------------------
(* The status request: GET /api/worker/status.                             *)

(* read_enabled, then read_heartbeat.                                      *)
ReadFlag(e) ==
  /\ get[e].stage = "sent"
  /\ get' = [get EXCEPT ![e].stage = "half", ![e].enabled = flag]
  /\ UNCHANGED <<server, panel, busy, runOutcome, actionFailed, epoch, req, clicks, timer, faults>>

ReadHeartbeat(e) ==
  /\ get[e].stage = "half"
  /\ get' = [get EXCEPT ![e].stage = "answered", ![e].heartbeat = beat]
  /\ UNCHANGED <<server, panel, busy, runOutcome, actionFailed, epoch, req, clicks, timer, faults>>

(* A 500, a broken connection or a body that is not the contract.          *)
BreakGet(e) ==
  /\ get[e].stage \in {"sent", "half"}
  /\ Fault
  /\ get' = [get EXCEPT ![e].stage = "broken"]
  /\ UNCHANGED <<server, panel, busy, runOutcome, actionFailed, epoch, req, clicks, timer>>

Shown(e) ==
  IF get[e].stage = "broken"
  THEN [panel EXCEPT !.status = "error"]
  ELSE [status |-> "ok", enabled |-> get[e].enabled, heartbeat |-> get[e].heartbeat]

(* Faulty: the effect has no cancelled flag.                               *)
DeliverUncancelled(e) ==
  /\ get[e].stage \in {"answered", "broken"}
  /\ panel' = Shown(e)
  /\ get' = [get EXCEPT ![e].stage = "done"]
  /\ UNCHANGED <<server, busy, runOutcome, actionFailed, epoch, req, clicks, timer, faults>>

(* The answer arrives; the clean-up of a later epoch has cancelled it.     *)
Deliver(e) ==
  /\ get[e].stage \in {"answered", "broken"}
  /\ panel' = IF e = epoch THEN Shown(e) ELSE panel
  /\ get' = [get EXCEPT ![e].stage = "done"]
  /\ UNCHANGED <<server, busy, runOutcome, actionFailed, epoch, req, clicks, timer, faults>>
-----------------------------------------------------------------------------
(* A click: the controls exist while the panel is ok, and a POST in flight *)
(* disables both.                                                          *)

(* Faulty: nothing disables the controls while a POST is in flight.        *)
CanClickAlways == panel.status = "ok" /\ clicks < MaxClicks

CanClick == panel.status = "ok" /\ ~busy /\ clicks < MaxClicks

Post(op, target) ==
  /\ clicks' = clicks + 1
  /\ req' = [req EXCEPT ![clicks + 1] = [NoReq EXCEPT !.op = op, !.target = target,
                                           !.handler = "waiting", !.promise = "pending"]]

Toggle ==
  /\ CanClick
  /\ busy' = TRUE /\ actionFailed' = FALSE /\ runOutcome' = "null"
  /\ Post("toggle", ~panel.enabled)
  /\ UNCHANGED <<server, panel, epoch, get, timer, faults>>

ProcessNow ==
  /\ CanClick
  /\ busy' = TRUE /\ actionFailed' = FALSE /\ runOutcome' = "null"
  /\ Post("run", FALSE)
  /\ UNCHANGED <<server, panel, epoch, get, timer, faults>>
-----------------------------------------------------------------------------
(* The handlers of worker_routes.py, which finish with or without a client.*)

(* set_worker_enabled: the explicit target, or a 500, before or after the  *)
(* row was written.                                                        *)
SetWorkerEnabled(c) ==
  /\ req[c].op = "toggle" /\ req[c].handler = "waiting"
  /\ \/ /\ flag' = req[c].target
        /\ req' = [req EXCEPT ![c].handler = "done", ![c].answer = "ok"]
        /\ UNCHANGED faults
     \/ /\ Fault
        /\ flag' \in {flag, req[c].target}
        /\ req' = [req EXCEPT ![c].handler = "done", ![c].answer = "error"]
  /\ UNCHANGED <<beat, card, clicks, timer>>

(* run_worker_now: the gate of the wake, kept in the request's target...   *)
RunGate(c) ==
  /\ req[c].op = "run" /\ req[c].handler = "waiting"
  /\ \/ req' = [req EXCEPT ![c].handler = "gated", ![c].target = flag] /\ UNCHANGED faults
     \/ Fault /\ req' = [req EXCEPT ![c].handler = "done", ![c].answer = "error"]
  /\ UNCHANGED <<server, card, clicks, timer>>

(* ... and its heartbeat.  A failed run re-raises after its heartbeat.     *)
RunEnds(c) ==
  /\ req[c].op = "run" /\ req[c].handler = "gated"
  /\ beat' = beat + 1
  /\ \/ /\ req' = [req EXCEPT ![c].handler = "done", ![c].answer = "ok", ![c].heartbeat = beat']
        /\ UNCHANGED faults
     \/ /\ req[c].target /\ Fault
        /\ req' = [req EXCEPT ![c].handler = "done", ![c].answer = "error", ![c].heartbeat = beat']
  /\ UNCHANGED <<flag, card, clicks, timer>>

(* A wake of the timer.                                                    *)
TimerWake ==
  /\ timer < MaxTimer /\ timer' = timer + 1
  /\ beat' = beat + 1
  /\ UNCHANGED <<flag, card, req, clicks, faults>>
-----------------------------------------------------------------------------
(* The promise of a click settles.                                         *)

(* Faulty: the card trusts its own write and its run.                      *)
RefreshStatusNever == UNCHANGED <<epoch, get>>

(* refreshStatus: the epoch's clean-up cancels the GET of the last epoch,  *)
(* and the effect sends a new one.                                         *)
RefreshStatus ==
  /\ epoch' = epoch + 1
  /\ get' = [get EXCEPT ![epoch + 1].stage = "sent"]

ToggleAnswered(c) ==
  /\ req[c].op = "toggle" /\ req[c].promise = "pending" /\ req[c].answer = "ok"
  /\ panel' = IF panel.status = "ok" THEN [panel EXCEPT !.enabled = req[c].target] ELSE panel
  /\ busy' = FALSE
  /\ req' = [req EXCEPT ![c].promise = "settled"]
  /\ UNCHANGED <<server, runOutcome, actionFailed, epoch, get, clicks, timer, faults>>

RunAnswered(c) ==
  /\ req[c].op = "run" /\ req[c].promise = "pending" /\ req[c].answer = "ok"
  /\ runOutcome' = IF req[c].target THEN "past_gate" ELSE "skipped_disabled"
  /\ busy' = FALSE
  /\ RefreshStatus
  /\ req' = [req EXCEPT ![c].promise = "settled"]
  /\ UNCHANGED <<server, panel, actionFailed, clicks, timer, faults>>

(* The catch clause of both, for an answer that is not ok ...              *)
ActionFailed(c) ==
  /\ req[c].promise = "pending" /\ req[c].answer = "error"
  /\ req' = [req EXCEPT ![c].promise = "settled"]
  /\ actionFailed' = TRUE /\ busy' = FALSE
  /\ RefreshStatus
  /\ UNCHANGED <<server, panel, runOutcome, clicks, timer, faults>>

(* ... or for no answer at all, when the handler may not even have begun.  *)
Drop(c) ==
  /\ req[c].promise = "pending"
  /\ Fault
  /\ req' = [req EXCEPT ![c].promise = "dropped"]
  /\ actionFailed' = TRUE /\ busy' = FALSE
  /\ RefreshStatus
  /\ UNCHANGED <<server, panel, runOutcome, clicks, timer>>
-----------------------------------------------------------------------------
StatusStep(e) == ReadFlag(e) \/ ReadHeartbeat(e) \/ Deliver(e)
ServerStep(c) == SetWorkerEnabled(c) \/ RunGate(c) \/ RunEnds(c)
ClientStep(c) == ToggleAnswered(c) \/ RunAnswered(c) \/ ActionFailed(c)

Next ==
  \/ \E e \in Epoch : StatusStep(e) \/ BreakGet(e)
  \/ Toggle \/ ProcessNow
  \/ \E c \in Click : ServerStep(c) \/ ClientStep(c) \/ Drop(c)
  \/ TimerWake

Spec == Init /\ [][Next]_vars

(* Requests are answered and promises settle; nobody has to click.         *)
Progress ==
  \/ \E e \in Epoch : StatusStep(e)
  \/ \E c \in Click : ServerStep(c) \/ ClientStep(c)

FairSpec == Spec /\ WF_vars(Progress)
-----------------------------------------------------------------------------
(* Nothing is under way that could still change the card or the flag.      *)
AtRest ==
  /\ ~busy /\ get[epoch].stage = "done"
  /\ \A c \in Click : req[c].handler \in {"none", "done"}

NothingDropped == \A c \in Click : req[c].promise # "dropped"

(* "never assume a write landed - re-read": after an action whose settling *)
(* re-read the status, a card at rest shows the flag the server has and a  *)
(* heartbeat no older than the run's, whichever GETs were still in flight. *)
(* And the result of a run that stands on the card belongs to the flag as  *)
(* it is now ("a lingering run result would describe a run under the OLD   *)
(* enabled state").  A POST whose connection broke is outside: its handler *)
(* may run after the re-read.                                              *)
RereadIsTrue ==
  NothingDropped =>
    /\ AtRest /\ panel.status = "ok" /\ clicks > 0 /\ (req[clicks].op = "run" \/ actionFailed)
         => panel.enabled = flag /\ panel.heartbeat >= req[clicks].heartbeat
    /\ runOutcome # "null" => flag = (runOutcome = "past_gate")

(* "a retry or re-click cannot invert intent": when every POST got its     *)
(* answer, the flag of a settled card is the last target the operator      *)
(* clicked and saw confirmed; no earlier click can land after it.          *)
IntentKept ==
  \A c \in Click :
    (/\ ~busy /\ NothingDropped
     /\ req[c].op = "toggle" /\ req[c].promise = "settled" /\ req[c].answer = "ok"
     /\ \A d \in (c + 1)..MaxClicks : req[d].op # "toggle") => flag = req[c].target

(* Every click ends with the controls back and, for a run, with its        *)
(* heartbeat or a newer one on the card, or with the error view.           *)
EveryClickSettles ==
  \A c \in Click :
    req[c].promise = "pending" ~>
      /\ ~busy
      /\ \/ panel.status = "error"
         \/ panel.heartbeat >= req[c].heartbeat
=============================================================================
