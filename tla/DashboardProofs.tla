--------------------------- MODULE DashboardProofs ---------------------------
(***************************************************************************)
(* Safety of the dashboard page, for any number of clicks, wakes of the    *)
(* timer and faults, and for any calendar: the worker card of Dashboard,   *)
(* then the bars of MetricsChart, which the page draws.                    *)
(***************************************************************************)
EXTENDS MCDashboard, Sequences, FiniteSetTheorems, WellFoundedInduction, TLAPS

(* A click and its request.  One request is waited for, the last one.      *)
ClickInv ==
  /\ \A c \in Click :
       /\ c > clicks => req[c] = NoReq
       /\ c <= clicks => /\ req[c].op # "none" /\ req[c].handler # "none"
                         /\ req[c].promise # "none"
       /\ req[c].answer = "none" <=> req[c].handler # "done"
       /\ req[c].promise = "settled" => req[c].handler = "done"
       /\ req[c].promise = "pending" => c = clicks /\ busy
       /\ req[c].heartbeat <= beat
  /\ busy => epoch < clicks /\ runOutcome = "null" /\ ~actionFailed
  /\ epoch <= clicks

(* Every heartbeat is a wake of the timer's or of a click whose handler is *)
(* done.                                                                   *)
Done    == {c \in Click : req[c].handler = "done"}
BeatInv == beat <= timer + Cardinality(Done)

(* What the handlers have done to the flag: it is the target of the last   *)
(* toggle that was done, and a run whose gate has read it is the last      *)
(* click.                                                                  *)
LastToggle(c) ==
  /\ req[c].op = "toggle" /\ req[c].answer = "ok"
  /\ \A d \in (c + 1)..MaxClicks : req[d].op = "toggle" => req[d].handler # "done"

PastGate(c) == req[c].op = "run" /\ (req[c].handler = "gated" \/ req[c].answer = "ok")

FlagInv ==
  NothingDropped =>
    /\ \A c \in Click : LastToggle(c) => flag = req[c].target
    /\ \A c \in Click : c = clicks /\ PastGate(c) => flag = req[c].target
    /\ runOutcome = "past_gate" => flag
    /\ runOutcome = "skipped_disabled" => ~flag

(* How much the re-read of the last click has read: with that click        *)
(* settled nothing writes the flag, and heartbeats only grow.              *)
Rereads(c) == c = clicks /\ req[c].promise = "settled" /\ (req[c].op = "run" \/ actionFailed)

RereadInv ==
  NothingDropped => \A c \in Click : Rereads(c) =>
    /\ get[epoch].stage \in {"half", "answered"} => get[epoch].enabled = flag
    /\ get[epoch].stage = "answered" => get[epoch].heartbeat >= req[c].heartbeat
    /\ get[epoch].stage = "done" /\ panel.status = "ok" =>
         panel.enabled = flag /\ panel.heartbeat >= req[c].heartbeat

(* The inductive strengthening of the two properties.                      *)
CardInv == TypeOK /\ ClickInv /\ BeatInv /\ FlagInv /\ RereadInv

LEMMA CardInvInit == DashboardConstants /\ Init => CardInv
<1> SUFFICES ASSUME DashboardConstants, Init PROVE CardInv OBVIOUS
<1>0. 0 \in Beat BY DEF DashboardConstants, Beat
<1>1. \A c \in Click : req[c] = NoReq BY DEF Init
<1>2. TypeOK
  <2>1. /\ flag \in BOOLEAN /\ beat \in Beat /\ panel \in Panel
        /\ busy \in BOOLEAN /\ actionFailed \in BOOLEAN /\ runOutcome \in RunOutcome
    <3>1. flag \in BOOLEAN /\ beat = 0 /\ busy = FALSE /\ actionFailed = FALSE /\ runOutcome = "null"
      BY Zenon DEF Init
    <3>2. panel \in Panel BY <1>0 DEF Init, Panel
    <3> QED BY <1>0, <3>1, <3>2 DEF RunOutcome
  <2>2. epoch \in Epoch /\ clicks \in 0..MaxClicks /\ timer \in 0..MaxTimer /\ faults \in 0..MaxFaults
    BY DEF Init, DashboardConstants, Epoch
  <2>3. get \in [Epoch -> [stage : {"none", "sent", "half", "answered", "broken", "done"},
                           enabled : BOOLEAN, heartbeat : Beat]]
    BY <1>0 DEF Init, NoGet
  <2>4. req \in [Click -> [op : {"none", "toggle", "run"}, target : BOOLEAN,
                           handler : {"none", "waiting", "gated", "done"},
                           promise : {"none", "pending", "settled", "dropped"},
                           answer : Answer, heartbeat : Beat]]
    BY <1>0 DEF Init, NoReq, Answer
  <2> QED BY <2>1, <2>2, <2>3, <2>4 DEF TypeOK
<1>3. ClickInv BY <1>1, DashboardConstants DEF Init, ClickInv, NoReq, Click
<1>4. BeatInv
  <2>1. Done = {} BY <1>1 DEF Done, NoReq
  <2> QED BY <2>1, FS_EmptySet DEF Init, BeatInv
<1>5. FlagInv BY <1>1 DEF Init, FlagInv, LastToggle, PastGate, NoReq
<1>6. RereadInv BY <1>1 DEF RereadInv, Rereads, NoReq
<1> QED BY <1>2, <1>3, <1>4, <1>5, <1>6 DEF CardInv
-----------------------------------------------------------------------------
(* What a handler does: its own request, the flag or the heartbeat.        *)
ServerEffect(c) ==
  /\ UNCHANGED <<card, clicks, timer>>
  /\ req[c].handler \in {"waiting", "gated"}
  /\ \A d \in Click : d # c => req'[d] = req[d]
  /\ req'[c].op = req[c].op /\ req'[c].promise = req[c].promise
  /\ req'[c].handler \in {"gated", "done"}
  /\ req'[c].answer = "none" <=> req'[c].handler # "done"
  /\ req'[c].heartbeat \in {req[c].heartbeat, beat'}
  /\ \/ UNCHANGED flag
     \/ req[c].op = "toggle" /\ flag' = req[c].target /\ req'[c].handler = "done"
  /\ LastToggle(c)' => flag' = req'[c].target
  /\ PastGate(c)' => /\ UNCHANGED flag
                     /\ req'[c].target = flag \/ (req[c].handler = "gated" /\ req'[c].target = req[c].target)
  /\ beat' = beat \/ (beat' = beat + 1 /\ req'[c].handler = "done")

LEMMA ServerStepEffect ==
  ASSUME DashboardConstants, TypeOK, ClickInv, NEW c \in Click, ServerStep(c)
  PROVE  /\ ServerEffect(c) /\ flag' \in BOOLEAN /\ faults' \in 0..MaxFaults
         /\ req' \in [Click -> [op : {"none", "toggle", "run"}, target : BOOLEAN,
                                handler : {"none", "waiting", "gated", "done"},
                                promise : {"none", "pending", "settled", "dropped"},
                                answer : Answer, heartbeat : Beat \union {beat'}]]
<1> DEFINE Req == [op : {"none", "toggle", "run"}, target : BOOLEAN,
                   handler : {"none", "waiting", "gated", "done"},
                   promise : {"none", "pending", "settled", "dropped"},
                   answer : Answer, heartbeat : Beat \union {beat'}]
<1> DEFINE At(t, h, a, b) == [op |-> req[c].op, target |-> t, handler |-> h,
                              promise |-> req[c].promise, answer |-> a, heartbeat |-> b]
<1>1. /\ req \in [Click -> Req] /\ req[c] = At(req[c].target, req[c].handler, req[c].answer, req[c].heartbeat)
      /\ req[c].target \in BOOLEAN /\ req[c].answer \in Answer /\ req[c].heartbeat \in Beat
      /\ req[c].op \in {"none", "toggle", "run"}
      /\ req[c].promise \in {"none", "pending", "settled", "dropped"}
  BY DEF TypeOK
<1>2. \A t \in BOOLEAN, h \in {"gated", "done"}, a \in Answer, b \in Beat \union {beat'} :
        At(t, h, a, b) \in Req
  BY <1>1
<1>3. flag \in BOOLEAN /\ beat \in Nat /\ faults \in Nat /\ faults <= MaxFaults
      /\ {"none", "ok", "error"} = Answer
  BY DEF TypeOK, Beat, DashboardConstants, Answer
<1>4. ASSUME SetWorkerEnabled(c)
      PROVE  /\ ServerEffect(c) /\ flag' \in BOOLEAN /\ faults' \in 0..MaxFaults /\ req' \in [Click -> Req]
  <2>1. /\ req[c].op = "toggle" /\ req[c].handler = "waiting" /\ UNCHANGED <<beat, card, clicks, timer>>
        /\ \/ /\ flag' = req[c].target /\ UNCHANGED faults
              /\ req' = [req EXCEPT ![c] = At(req[c].target, "done", "ok", req[c].heartbeat)]
           \/ /\ Fault /\ flag' \in {flag, req[c].target}
              /\ req' = [req EXCEPT ![c] = At(req[c].target, "done", "error", req[c].heartbeat)]
    BY <1>1, <1>4 DEF SetWorkerEnabled
  <2>2. ServerEffect(c) BY <1>1, <2>1 DEF ServerEffect, LastToggle, PastGate
  <2>3. flag' \in BOOLEAN BY <1>1, <1>3, <2>1
  <2>4. faults' \in 0..MaxFaults BY <1>3, <2>1 DEF Fault, DashboardConstants
  <2>5. req' \in [Click -> Req] BY <1>1, <1>2, <1>3, <2>1
  <2> QED BY <2>2, <2>3, <2>4, <2>5
<1>5. ASSUME RunGate(c)
      PROVE  /\ ServerEffect(c) /\ flag' \in BOOLEAN /\ faults' \in 0..MaxFaults /\ req' \in [Click -> Req]
  <2>1. /\ req[c].op = "run" /\ req[c].handler = "waiting" /\ UNCHANGED <<server, card, clicks, timer>>
        /\ \/ /\ UNCHANGED faults
              /\ req' = [req EXCEPT ![c] = At(flag, "gated", req[c].answer, req[c].heartbeat)]
           \/ /\ Fault
              /\ req' = [req EXCEPT ![c] = At(req[c].target, "done", "error", req[c].heartbeat)]
    BY <1>1, <1>5 DEF RunGate
  <2>2. req[c].answer = "none" BY <2>1 DEF ClickInv
  <2>3. UNCHANGED <<flag, beat>> BY <2>1 DEF server
  <2>4. ServerEffect(c) BY <1>1, <2>1, <2>2, <2>3 DEF ServerEffect, LastToggle, PastGate
  <2>5. faults' \in 0..MaxFaults BY <1>3, <2>1 DEF Fault, DashboardConstants
  <2>6. req' \in [Click -> Req] BY <1>1, <1>2, <1>3, <2>1
  <2> QED BY <1>3, <2>3, <2>4, <2>5, <2>6
<1>6. ASSUME RunEnds(c)
      PROVE  /\ ServerEffect(c) /\ flag' \in BOOLEAN /\ faults' \in 0..MaxFaults /\ req' \in [Click -> Req]
  <2>1. /\ req[c].op = "run" /\ req[c].handler = "gated" /\ UNCHANGED <<flag, card, clicks, timer>>
        /\ beat' = beat + 1
        /\ \/ /\ UNCHANGED faults
              /\ req' = [req EXCEPT ![c] = At(req[c].target, "done", "ok", beat')]
           \/ /\ Fault
              /\ req' = [req EXCEPT ![c] = At(req[c].target, "done", "error", beat')]
    BY <1>1, <1>6 DEF RunEnds
  <2>4. ServerEffect(c) BY <1>1, <2>1 DEF ServerEffect, LastToggle, PastGate
  <2>5. faults' \in 0..MaxFaults BY <1>3, <2>1 DEF Fault, DashboardConstants
  <2>6. req' \in [Click -> Req] BY <1>1, <1>2, <1>3, <2>1
  <2> QED BY <1>3, <2>1, <2>4, <2>5, <2>6
<1> QED BY <1>4, <1>5, <1>6 DEF ServerStep

(* The end of a promise.                                                   *)
ClientEffect(c) ==
  /\ UNCHANGED <<server, clicks, timer>>
  /\ req[c].promise = "pending" /\ ~busy'
  /\ \E p \in {"settled", "dropped"} :
       req' = [req EXCEPT ![c].promise = p] /\ (p = "settled" => req[c].answer # "none")
  /\ \/ req[c].op = "toggle" /\ UNCHANGED <<epoch, get, runOutcome, actionFailed>>
     \/ /\ epoch' = epoch + 1 /\ get' = [get EXCEPT ![epoch + 1].stage = "sent"]
        /\ UNCHANGED panel
        /\ \/ UNCHANGED runOutcome
           \/ /\ PastGate(c)
              /\ runOutcome' = IF req[c].target THEN "past_gate" ELSE "skipped_disabled"

LEMMA ClientStepEffect ==
  ASSUME TypeOK, NEW c \in Click, ClientStep(c) \/ Drop(c)
  PROVE  ClientEffect(c)
<1>1. CASE ToggleAnswered(c)
  BY <1>1 DEF ToggleAnswered, ClientEffect
<1>2. CASE RunAnswered(c)
  BY <1>2 DEF RunAnswered, ClientEffect, RefreshStatus, PastGate
<1>3. CASE ActionFailed(c)
  BY <1>3 DEF ActionFailed, ClientEffect, RefreshStatus
<1>4. CASE Drop(c)
  BY <1>4 DEF Drop, ClientEffect, RefreshStatus
<1> QED BY <1>1, <1>2, <1>3, <1>4 DEF ClientStep

(* A click: one request more.                                              *)
ClickEffect ==
  /\ UNCHANGED <<server, panel, epoch, get, timer, faults>>
  /\ ~busy /\ busy' /\ ~actionFailed' /\ runOutcome' = "null"
  /\ clicks' = clicks + 1 /\ clicks' \in Click
  /\ \E op \in {"toggle", "run"}, t \in BOOLEAN :
       req' = [req EXCEPT ![clicks'] = [op |-> op, target |-> t, handler |-> "waiting",
                                        promise |-> "pending", answer |-> "none", heartbeat |-> 0]]

LEMMA ClickStepEffect ==
  ASSUME DashboardConstants, TypeOK, Toggle \/ ProcessNow
  PROVE  ClickEffect
<1>1. clicks + 1 \in Click
  <2>1. CanClick BY DEF Toggle, ProcessNow
  <2>2. clicks < MaxClicks BY <2>1 DEF CanClick
  <2> QED BY <2>2 DEF TypeOK, DashboardConstants, Click
<1>2. (~panel.enabled) \in BOOLEAN /\ FALSE \in BOOLEAN
  <2>1. panel.enabled \in BOOLEAN BY DEF TypeOK, Panel
  <2> QED BY <2>1, Zenon
<1>3. \A op, t : [NoReq EXCEPT !.op = op, !.target = t, !.handler = "waiting", !.promise = "pending"]
        = [op |-> op, target |-> t, handler |-> "waiting",
           promise |-> "pending", answer |-> "none", heartbeat |-> 0]
  <2>1. PICK f : NoReq = [op |-> "none", target |-> f, handler |-> "none", promise |-> "none",
                          answer |-> "none", heartbeat |-> 0]
    BY Zenon DEF NoReq
  <2> TAKE op, t
  <2> DEFINE R(o, g, h, p) == [op |-> o, target |-> g, handler |-> h, promise |-> p,
                               answer |-> "none", heartbeat |-> 0]
  <2>2. [NoReq EXCEPT !.op = op] = R(op, f, "none", "none") BY <2>1
  <2>3. [R(op, f, "none", "none") EXCEPT !.target = t] = R(op, t, "none", "none") OBVIOUS
  <2>4. [R(op, t, "none", "none") EXCEPT !.handler = "waiting"] = R(op, t, "waiting", "none") OBVIOUS
  <2>5. [R(op, t, "waiting", "none") EXCEPT !.promise = "pending"] = R(op, t, "waiting", "pending") OBVIOUS
  <2> QED BY <2>2, <2>3, <2>4, <2>5
<1>4. CASE Toggle
  <2>1. clicks' = clicks + 1 /\ req' = [req EXCEPT ![clicks'] =
          [op |-> "toggle", target |-> ~panel.enabled, handler |-> "waiting",
           promise |-> "pending", answer |-> "none", heartbeat |-> 0]]
    BY <1>2, <1>3, <1>4 DEF Toggle, Post
  <2>2. \E op \in {"toggle", "run"}, t \in BOOLEAN :
          req' = [req EXCEPT ![clicks'] = [op |-> op, target |-> t, handler |-> "waiting",
                                           promise |-> "pending", answer |-> "none", heartbeat |-> 0]]
    BY <1>2, <2>1
  <2> QED BY <1>1, <1>4, <2>1, <2>2 DEF Toggle, CanClick, ClickEffect
<1>5. CASE ProcessNow
  <2>1. clicks' = clicks + 1 /\ req' = [req EXCEPT ![clicks'] =
          [op |-> "run", target |-> FALSE, handler |-> "waiting",
           promise |-> "pending", answer |-> "none", heartbeat |-> 0]]
    BY <1>2, <1>3, <1>5 DEF ProcessNow, Post
  <2>2. \E op \in {"toggle", "run"}, t \in BOOLEAN :
          req' = [req EXCEPT ![clicks'] = [op |-> op, target |-> t, handler |-> "waiting",
                                           promise |-> "pending", answer |-> "none", heartbeat |-> 0]]
    BY <1>2, <2>1
  <2> QED BY <1>1, <1>5, <2>1, <2>2 DEF ProcessNow, CanClick, ClickEffect
<1> QED BY <1>4, <1>5

(* The rest leaves the requests alone.                                     *)
StatusEffect ==
  UNCHANGED <<server, busy, runOutcome, actionFailed, epoch, req, clicks, timer>>

LEMMA StatusStepEffect ==
  ASSUME DashboardConstants, TypeOK, NEW e \in Epoch, StatusStep(e) \/ BreakGet(e)
  PROVE  /\ StatusEffect /\ panel' \in Panel /\ faults' \in 0..MaxFaults
         /\ get' \in [Epoch -> [stage : {"none", "sent", "half", "answered", "broken", "done"},
                                enabled : BOOLEAN, heartbeat : Beat]]
<1> DEFINE Get == [stage : {"none", "sent", "half", "answered", "broken", "done"},
                   enabled : BOOLEAN, heartbeat : Beat]
<1>0. StatusEffect BY DEF StatusStep, ReadFlag, ReadHeartbeat, BreakGet, Deliver, StatusEffect
<1>1. faults' \in 0..MaxFaults
  BY DEF StatusStep, ReadFlag, ReadHeartbeat, BreakGet, Deliver, Fault, TypeOK, DashboardConstants
<1>2. /\ get \in [Epoch -> Get] /\ get[e].enabled \in BOOLEAN /\ get[e].heartbeat \in Beat
      /\ get[e] = [stage |-> get[e].stage, enabled |-> get[e].enabled, heartbeat |-> get[e].heartbeat]
      /\ flag \in BOOLEAN /\ beat \in Beat /\ panel \in Panel
  BY DEF TypeOK
<1>3. panel' \in Panel
  <2>1. [panel EXCEPT !.status = "error"] \in Panel BY <1>2 DEF Panel
  <2>2. [status |-> "ok", enabled |-> get[e].enabled, heartbeat |-> get[e].heartbeat] \in Panel
    BY <1>2 DEF Panel
  <2> QED BY <1>2, <2>1, <2>2 DEF StatusStep, ReadFlag, ReadHeartbeat, BreakGet, Deliver, Shown
<1>4. \E g \in Get : get' = [get EXCEPT ![e] = g]
  <2>1. CASE ReadFlag(e)
    <3>1. PICK v, g, n : v = flag /\ g = get[e].enabled /\ n = get[e].heartbeat
      OBVIOUS
    <3>2. get = [x \in Epoch |-> get[x]] /\ get[e] = [stage |-> get[e].stage, enabled |-> g, heartbeat |-> n]
      BY <1>2, <3>1
    <3>3. get' = [get EXCEPT ![e].stage = "half", ![e].enabled = v]
      BY <2>1, <3>1 DEF ReadFlag
    <3>4. get' = [get EXCEPT ![e] = [stage |-> "half", enabled |-> v, heartbeat |-> n]]
      <4> DEFINE h == [get EXCEPT ![e].stage = "half"]
      <4>1. [get[e] EXCEPT !.stage = "half"] = [stage |-> "half", enabled |-> g, heartbeat |-> n]
        BY <3>2
      <4>2. /\ h = [x \in Epoch |-> h[x]] /\ \A x \in Epoch : x # e => h[x] = get[x]
            /\ h[e] = [stage |-> "half", enabled |-> g, heartbeat |-> n]
        BY <3>2, <4>1
      <4>3. get' = [h EXCEPT ![e].enabled = v]
        BY <3>3
      <4> HIDE DEF h
      <4>4. [h[e] EXCEPT !.enabled = v] = [stage |-> "half", enabled |-> v, heartbeat |-> n]
        BY <4>2
      <4> QED BY <3>2, <4>2, <4>3, <4>4
    <3>5. [stage |-> "half", enabled |-> v, heartbeat |-> n] \in Get
      <4>1. v \in BOOLEAN /\ g \in BOOLEAN /\ n \in Beat BY <1>2, <3>1, Zenon
      <4> QED BY <4>1
    <3> QED BY <3>4, <3>5
  <2>2. CASE ReadHeartbeat(e)
    <3>1. PICK v, g, n : v = beat /\ g = get[e].enabled /\ n = get[e].heartbeat
      OBVIOUS
    <3>2. get = [x \in Epoch |-> get[x]] /\ get[e] = [stage |-> get[e].stage, enabled |-> g, heartbeat |-> n]
      BY <1>2, <3>1
    <3>3. get' = [get EXCEPT ![e].stage = "answered", ![e].heartbeat = v]
      BY <2>2, <3>1 DEF ReadHeartbeat
    <3>4. get' = [get EXCEPT ![e] = [stage |-> "answered", enabled |-> g, heartbeat |-> v]]
      <4> DEFINE h == [get EXCEPT ![e].stage = "answered"]
      <4>1. [get[e] EXCEPT !.stage = "answered"] = [stage |-> "answered", enabled |-> g, heartbeat |-> n]
        BY <3>2
      <4>2. /\ h = [x \in Epoch |-> h[x]] /\ \A x \in Epoch : x # e => h[x] = get[x]
            /\ h[e] = [stage |-> "answered", enabled |-> g, heartbeat |-> n]
        BY <3>2, <4>1
      <4>3. get' = [h EXCEPT ![e].heartbeat = v]
        BY <3>3
      <4> HIDE DEF h
      <4>4. [h[e] EXCEPT !.heartbeat = v] = [stage |-> "answered", enabled |-> g, heartbeat |-> v]
        BY <4>2
      <4> QED BY <3>2, <4>2, <4>3, <4>4
    <3>5. [stage |-> "answered", enabled |-> g, heartbeat |-> v] \in Get
      <4>1. v \in Beat /\ g \in BOOLEAN /\ n \in Beat BY <1>2, <3>1, Zenon
      <4> QED BY <4>1
    <3> QED BY <3>4, <3>5
  <2>3. CASE BreakGet(e) \/ Deliver(e)
    <3>1. \E s \in {"broken", "done"} :
            get' = [get EXCEPT ![e] = [stage |-> s, enabled |-> get[e].enabled, heartbeat |-> get[e].heartbeat]]
      <4>1. \A s \in {"broken", "done"} : [get[e] EXCEPT !.stage = s]
              = [stage |-> s, enabled |-> get[e].enabled, heartbeat |-> get[e].heartbeat]
        BY <1>2
      <4> QED BY <2>3, <4>1 DEF BreakGet, Deliver
    <3> QED BY <1>2, <3>1
  <2> QED BY <2>1, <2>2, <2>3 DEF StatusStep
<1> QED BY <1>0, <1>1, <1>2, <1>3, <1>4
-----------------------------------------------------------------------------
(* A click has at most one heartbeat.                                      *)
LEMMA ClicksCount ==
  ASSUME DashboardConstants, NEW S \in SUBSET Click
  PROVE  IsFiniteSet(S) /\ Cardinality(S) \in 0..MaxClicks
<1>1. IsFiniteSet(Click) /\ Cardinality(Click) = MaxClicks
  BY FS_Interval DEF Click, DashboardConstants
<1>2. IsFiniteSet(S) /\ Cardinality(S) <= MaxClicks BY <1>1, FS_Subset
<1> QED BY <1>2, FS_CardinalityType DEF DashboardConstants

LEMMA BeatStep == DashboardConstants /\ CardInv /\ [Next]_vars => BeatInv'
<1> SUFFICES ASSUME DashboardConstants, CardInv, [Next]_vars PROVE BeatInv' OBVIOUS
<1>0. TypeOK /\ ClickInv /\ BeatInv BY DEF CardInv
<1>1. /\ beat \in Nat /\ timer \in Nat /\ clicks \in Nat /\ IsFiniteSet(Done) /\ Cardinality(Done) \in Nat
      /\ beat <= timer + Cardinality(Done)
  <2>1. Done \in SUBSET Click BY DEF Done
  <2>2. IsFiniteSet(Done) /\ Cardinality(Done) \in Nat BY <2>1, ClicksCount DEF DashboardConstants
  <2> QED BY <1>0, <2>2 DEF TypeOK, Beat, BeatInv, DashboardConstants
<1>2. ASSUME NEW c \in Click, ServerStep(c) PROVE BeatInv'
  <2>1. ServerEffect(c) BY <1>0, <1>2, ServerStepEffect
  <2>2. c \notin Done BY <2>1 DEF ServerEffect, Done
  <2>3. timer' = timer /\ \A d \in Click : d # c => req'[d] = req[d] BY <2>1 DEF ServerEffect
  <2>4. CASE req'[c].handler = "done"
    <3>1. Done' = Done \union {c} BY <2>3, <2>4 DEF Done
    <3>2. Cardinality(Done') = Cardinality(Done) + 1 BY <1>1, <2>2, <3>1, FS_AddElement
    <3>3. beat' <= beat + 1 BY <1>1, <2>1 DEF ServerEffect
    <3>4. beat' \in Nat BY <1>1, <2>1 DEF ServerEffect
    <3> QED BY <1>1, <2>3, <3>2, <3>3, <3>4 DEF BeatInv
  <2>5. CASE req'[c].handler # "done"
    <3>1. Done' = Done BY <2>2, <2>3, <2>5 DEF Done
    <3>2. beat' = beat BY <2>1, <2>5 DEF ServerEffect
    <3> QED BY <1>1, <2>3, <3>1, <3>2 DEF BeatInv
  <2> QED BY <2>4, <2>5
<1>3. CASE TimerWake
  <2>1. Done' = Done BY <1>3 DEF TimerWake, Done
  <2>2. beat' = beat + 1 /\ timer' = timer + 1 BY <1>3 DEF TimerWake
  <2> QED BY <1>1, <2>1, <2>2 DEF BeatInv
<1>4. CASE Toggle \/ ProcessNow
  <2>1. ClickEffect BY <1>0, <1>4, ClickStepEffect
  <2>2. \A c \in Click : req'[c].handler = "done" <=> req[c].handler = "done"
    <3>1. req[clicks'].handler # "done"
      <4>1. clicks' \in Click /\ clicks' > clicks BY <1>1, <2>1 DEF ClickEffect
      <4> QED BY <1>0, <4>1 DEF ClickInv, NoReq
    <3>2. req'[clicks'].handler # "done" /\ \A c \in Click : c # clicks' => req'[c] = req[c]
      BY <1>0, <2>1 DEF ClickEffect, TypeOK
    <3> QED BY <3>1, <3>2
  <2>3. Done' = Done BY <2>2 DEF Done
  <2> QED BY <1>1, <2>1, <2>3 DEF BeatInv, ClickEffect, server
<1>5. ASSUME NEW c \in Click, ClientStep(c) \/ Drop(c) PROVE BeatInv'
  <2>1. ClientEffect(c) BY <1>0, <1>5, ClientStepEffect
  <2>2. \A d \in Click : req'[d].handler = req[d].handler
    BY <1>0, <2>1 DEF ClientEffect, TypeOK
  <2>3. Done' = Done BY <2>2 DEF Done
  <2> QED BY <1>1, <2>1, <2>3 DEF BeatInv, ClientEffect, server
<1>6. CASE (\E e \in Epoch : StatusStep(e) \/ BreakGet(e)) \/ UNCHANGED vars
  <2>1. UNCHANGED <<beat, timer, req>>
    BY <1>0, <1>6, StatusStepEffect DEF StatusEffect, server, vars
  <2>2. Done' = Done BY <2>1 DEF Done
  <2> QED BY <1>1, <2>1, <2>2 DEF BeatInv
<1> QED BY <1>2, <1>3, <1>4, <1>5, <1>6 DEF Next

(* The client's side of the clicks.                                        *)
LEMMA ClickStep == DashboardConstants /\ CardInv /\ [Next]_vars => ClickInv'
<1> SUFFICES ASSUME DashboardConstants, CardInv, [Next]_vars PROVE ClickInv' OBVIOUS
<1>0. TypeOK /\ ClickInv BY DEF CardInv
<1>1. /\ beat \in Nat /\ clicks \in Nat /\ epoch \in Nat
      /\ \A c \in Click : c \in Nat /\ req[c].heartbeat \in Nat
  BY <1>0 DEF TypeOK, Beat, Epoch, Click, DashboardConstants
<1>2. ASSUME NEW c \in Click, ServerStep(c) PROVE ClickInv'
  <2>1. ServerEffect(c) BY <1>0, <1>2, ServerStepEffect
  <2>2. /\ UNCHANGED <<clicks, busy, epoch, runOutcome, actionFailed>>
        /\ req[c].handler \in {"waiting", "gated"} /\ req'[c].handler \in {"gated", "done"}
        /\ \A d \in Click : d # c => req'[d] = req[d]
        /\ req'[c].op = req[c].op /\ req'[c].promise = req[c].promise
        /\ req'[c].answer = "none" <=> req'[c].handler # "done"
        /\ req'[c].heartbeat \in {req[c].heartbeat, beat'}
        /\ beat' \in {beat, beat + 1}
    BY <2>1 DEF ServerEffect, card
  <2>3. c <= clicks /\ req[c].promise # "settled"
    BY <1>0, <1>1, <2>2 DEF ClickInv, NoReq
  <2>4. ASSUME NEW d \in Click
        PROVE  /\ d > clicks => req'[d] = NoReq
               /\ d <= clicks => /\ req'[d].op # "none" /\ req'[d].handler # "none"
                                 /\ req'[d].promise # "none"
               /\ req'[d].answer = "none" <=> req'[d].handler # "done"
               /\ req'[d].promise = "settled" => req'[d].handler = "done"
               /\ req'[d].promise = "pending" => d = clicks /\ busy
               /\ req'[d].heartbeat <= beat'
    <3>1. CASE d = c
      BY <1>0, <1>1, <2>2, <2>3, <3>1 DEF ClickInv
    <3>2. CASE d # c
      <4>1. req'[d] = req[d] BY <2>2, <3>2
      <4>2. req[d].heartbeat <= beat' BY <1>0, <1>1, <2>2 DEF ClickInv
      <4> QED BY <1>0, <4>1, <4>2 DEF ClickInv
    <3> QED BY <3>1, <3>2
  <2> QED BY <1>0, <2>2, <2>4 DEF ClickInv
<1>3. CASE TimerWake
  <2>1. beat' = beat + 1 /\ UNCHANGED <<req, clicks, busy, epoch, runOutcome, actionFailed>>
    BY <1>3 DEF TimerWake, card
  <2> QED BY <1>0, <1>1, <2>1 DEF ClickInv
<1>4. CASE Toggle \/ ProcessNow
  <2>1. ClickEffect BY <1>0, <1>4, ClickStepEffect
  <2>2. PICK op \in {"toggle", "run"}, t \in BOOLEAN :
          req' = [req EXCEPT ![clicks'] = [op |-> op, target |-> t, handler |-> "waiting",
                                           promise |-> "pending", answer |-> "none", heartbeat |-> 0]]
    BY <2>1 DEF ClickEffect
  <2>3. /\ clicks' = clicks + 1 /\ clicks' \in Click /\ beat' = beat /\ epoch' = epoch
        /\ ~busy /\ busy' /\ ~actionFailed' /\ runOutcome' = "null"
    BY <2>1 DEF ClickEffect, server
  <2>4. \A c \in Click : c # clicks' => req'[c] = req[c]
    BY <1>0, <2>2 DEF TypeOK
  <2>5. /\ req'[clicks'].op = op /\ req'[clicks'].handler = "waiting" /\ req'[clicks'].answer = "none"
        /\ req'[clicks'].promise = "pending" /\ req'[clicks'].heartbeat = 0
    BY <1>0, <2>2, <2>3 DEF TypeOK
  <2> QED BY <1>0, <1>1, <2>3, <2>4, <2>5 DEF ClickInv
<1>5. ASSUME NEW c \in Click, ClientStep(c) \/ Drop(c) PROVE ClickInv'
  <2>1. ClientEffect(c) BY <1>0, <1>5, ClientStepEffect
  <2>2. PICK p \in {"settled", "dropped"} :
          req' = [req EXCEPT ![c].promise = p] /\ (p = "settled" => req[c].answer # "none")
    BY <2>1 DEF ClientEffect
  <2>3. /\ UNCHANGED <<clicks, beat>> /\ ~busy'
        /\ req[c].promise = "pending" /\ epoch' \in {epoch, epoch + 1}
    BY <2>1 DEF ClientEffect, server
  <2>4. c = clicks /\ epoch < clicks BY <1>0, <2>3 DEF ClickInv
  <2>5. \A d \in Click : d # c => req'[d] = req[d]
    BY <1>0, <2>2 DEF TypeOK
  <2>6. /\ req'[c].op = req[c].op /\ req'[c].handler = req[c].handler /\ req'[c].answer = req[c].answer
        /\ req'[c].heartbeat = req[c].heartbeat /\ req'[c].promise = p
    BY <1>0, <2>2 DEF TypeOK
  <2> QED BY <1>0, <1>1, <2>2, <2>3, <2>4, <2>5, <2>6 DEF ClickInv
<1>6. CASE (\E e \in Epoch : StatusStep(e) \/ BreakGet(e)) \/ UNCHANGED vars
  <2>1. UNCHANGED <<beat, clicks, req, busy, epoch, runOutcome, actionFailed>>
    BY <1>0, <1>6, StatusStepEffect DEF StatusEffect, server, vars
  <2> QED BY <1>0, <2>1 DEF ClickInv
<1> QED BY <1>2, <1>3, <1>4, <1>5, <1>6 DEF Next

LEMMA CardTypesStep == DashboardConstants /\ CardInv /\ [Next]_vars => TypeOK'
<1> SUFFICES ASSUME DashboardConstants, CardInv, [Next]_vars PROVE TypeOK' OBVIOUS
<1> DEFINE Req == [op : {"none", "toggle", "run"}, target : BOOLEAN,
                   handler : {"none", "waiting", "gated", "done"},
                   promise : {"none", "pending", "settled", "dropped"},
                   answer : Answer, heartbeat : Beat]
<1> DEFINE Get == [stage : {"none", "sent", "half", "answered", "broken", "done"},
                   enabled : BOOLEAN, heartbeat : Beat]
<1> DEFINE Rest == /\ flag' \in BOOLEAN /\ panel' \in Panel
                   /\ busy' \in BOOLEAN /\ runOutcome' \in RunOutcome /\ actionFailed' \in BOOLEAN
                   /\ epoch' \in Epoch /\ get' \in [Epoch -> Get]
                   /\ req' \in [Click -> [op : {"none", "toggle", "run"}, target : BOOLEAN,
                                          handler : {"none", "waiting", "gated", "done"},
                                          promise : {"none", "pending", "settled", "dropped"},
                                          answer : Answer, heartbeat : Beat \union {beat'}]]
                   /\ clicks' \in 0..MaxClicks /\ timer' \in 0..MaxTimer /\ faults' \in 0..MaxFaults
                   /\ beat' \in Nat
<1>0. TypeOK /\ ClickInv BY DEF CardInv
<1>1. /\ beat \in Nat /\ timer \in Nat /\ clicks \in Nat /\ epoch \in Nat
      /\ req \in [Click -> [op : {"none", "toggle", "run"}, target : BOOLEAN,
                            handler : {"none", "waiting", "gated", "done"},
                            promise : {"none", "pending", "settled", "dropped"},
                            answer : Answer, heartbeat : Beat \union {beat'}]]
      /\ 0 \in Beat /\ {"none", "ok", "error"} = Answer
  BY <1>0 DEF TypeOK, Beat, DashboardConstants, Epoch, Answer
<1>2. Rest
  <2>1. ASSUME NEW c \in Click, ServerStep(c) PROVE Rest
    BY <1>0, <1>1, <2>1, ServerStepEffect DEF ServerEffect, TypeOK, card
  <2>2. CASE TimerWake
    <3>1. timer' \in 0..MaxTimer /\ beat' \in Nat
      BY <1>1, <2>2 DEF TimerWake, DashboardConstants
    <3>2. UNCHANGED <<flag, card, req, clicks, faults>> BY <2>2 DEF TimerWake
    <3> QED BY <1>0, <1>1, <3>1, <3>2 DEF TypeOK, card
  <2>3. CASE Toggle \/ ProcessNow
    <3>1. ClickEffect BY <1>0, <2>3, ClickStepEffect
    <3>2. busy' \in BOOLEAN /\ actionFailed' \in BOOLEAN
      BY <2>3, Zenon DEF Toggle, ProcessNow
    <3>3. clicks' \in 0..MaxClicks
      BY <1>1, <3>1 DEF ClickEffect, Click, DashboardConstants
    <3>4. runOutcome' \in RunOutcome BY <3>1 DEF ClickEffect, RunOutcome
    <3>5. PICK op \in {"toggle", "run"}, t \in BOOLEAN :
            req' = [req EXCEPT ![clicks'] = [op |-> op, target |-> t, handler |-> "waiting",
                                             promise |-> "pending", answer |-> "none", heartbeat |-> 0]]
      BY <3>1 DEF ClickEffect
    <3>6. [op |-> op, target |-> t, handler |-> "waiting", promise |-> "pending",
           answer |-> "none", heartbeat |-> 0]
            \in [op : {"none", "toggle", "run"}, target : BOOLEAN,
                 handler : {"none", "waiting", "gated", "done"},
                 promise : {"none", "pending", "settled", "dropped"},
                 answer : Answer, heartbeat : Beat \union {beat'}]
      BY <1>1
    <3>7. UNCHANGED <<flag, beat, panel, epoch, get, timer, faults>>
      BY <3>1 DEF ClickEffect, server
    <3>8. /\ req' \in [Click -> [op : {"none", "toggle", "run"}, target : BOOLEAN,
                            handler : {"none", "waiting", "gated", "done"},
                            promise : {"none", "pending", "settled", "dropped"},
                            answer : Answer, heartbeat : Beat \union {beat'}]]
      BY <1>1, <3>5, <3>6
    <3> QED BY <1>0, <1>1, <3>2, <3>3, <3>4, <3>7, <3>8 DEF TypeOK
  <2>4. ASSUME NEW c \in Click, ClientStep(c) \/ Drop(c) PROVE Rest
    <3>1. ClientEffect(c) BY <1>0, <2>4, ClientStepEffect
    <3>2. UNCHANGED <<flag, beat, clicks, timer>> BY <3>1 DEF ClientEffect, server
    <3>3. busy' \in BOOLEAN /\ actionFailed' \in BOOLEAN
      <4>1. busy' = FALSE /\ (actionFailed' = TRUE \/ actionFailed' = actionFailed)
        BY <2>4, Zenon DEF ClientStep, ToggleAnswered, RunAnswered, ActionFailed, Drop
      <4>2. actionFailed \in BOOLEAN BY <1>0 DEF TypeOK
      <4> QED BY <4>1, <4>2, Zenon
    <3>4. runOutcome' \in RunOutcome
      BY <1>0, <2>4 DEF ClientStep, ToggleAnswered, RunAnswered, ActionFailed, Drop, TypeOK, RunOutcome
    <3>5. epoch + 1 \in Epoch
      <4>1. c = clicks /\ epoch < clicks BY <1>0, <3>1 DEF ClientEffect, ClickInv
      <4> QED BY <1>0, <1>1, <4>1 DEF Epoch, TypeOK, DashboardConstants
    <3>6. epoch' \in Epoch /\ get' \in [Epoch -> Get]
      <4>1. CASE UNCHANGED <<epoch, get>> BY <1>0, <4>1 DEF TypeOK
      <4>2. CASE epoch' = epoch + 1 /\ get' = [get EXCEPT ![epoch + 1].stage = "sent"]
        <5>1. [get[epoch + 1] EXCEPT !.stage = "sent"] \in Get BY <1>0, <3>5 DEF TypeOK
        <5> HIDE DEF Get
        <5>2. get \in [Epoch -> Get] BY <1>0 DEF TypeOK, Get
        <5> QED BY <3>5, <4>2, <5>1, <5>2
      <4> QED BY <3>1, <4>1, <4>2 DEF ClientEffect
    <3>7. panel' \in Panel
      <4>1. CASE ToggleAnswered(c)
        <5>1. req[c].target \in BOOLEAN /\ panel \in Panel BY <1>0 DEF TypeOK
        <5>2. [panel EXCEPT !.enabled = req[c].target] \in Panel BY <5>1 DEF Panel
        <5> QED BY <4>1, <5>1, <5>2 DEF ToggleAnswered
      <4>2. CASE UNCHANGED panel BY <1>0, <4>2 DEF TypeOK
      <4> QED BY <2>4, <4>1, <4>2 DEF ClientStep, RunAnswered, ActionFailed, Drop
    <3>8. /\ req' \in [Click -> [op : {"none", "toggle", "run"}, target : BOOLEAN,
                            handler : {"none", "waiting", "gated", "done"},
                            promise : {"none", "pending", "settled", "dropped"},
                            answer : Answer, heartbeat : Beat \union {beat'}]]
      BY <1>1, <3>1, SMTT(30) DEF ClientEffect
    <3>9. faults' \in 0..MaxFaults
      BY <1>0, <2>4 DEF ClientStep, ToggleAnswered, RunAnswered, ActionFailed, Drop, Fault, TypeOK, DashboardConstants
    <3> QED BY <1>0, <1>1, <3>2, <3>3, <3>4, <3>6, <3>7, <3>8, <3>9 DEF TypeOK
  <2>5. ASSUME NEW e \in Epoch, StatusStep(e) \/ BreakGet(e) PROVE Rest
    <3>1. UNCHANGED <<flag, beat, busy, runOutcome, actionFailed, epoch, req, clicks, timer>>
      BY <1>0, <2>5, StatusStepEffect DEF StatusEffect, server
    <3>2. panel' \in Panel /\ faults' \in 0..MaxFaults /\ get' \in [Epoch -> Get]
      BY <1>0, <2>5, StatusStepEffect
    <3> QED BY <1>0, <1>1, <3>1, <3>2 DEF TypeOK
  <2>6. CASE UNCHANGED vars
    BY <1>0, <1>1, <2>6 DEF vars, TypeOK
  <2> QED BY <2>1, <2>2, <2>3, <2>4, <2>5, <2>6 DEF Next
<1>3. beat' \in Beat
  <2>1. beat' <= timer' + Cardinality(Done') BY BeatStep DEF BeatInv
  <2>2. Done' \in SUBSET Click BY DEF Done
  <2>3. Cardinality(Done') \in 0..MaxClicks BY <2>2, ClicksCount
  <2>4. timer' \in 0..MaxTimer /\ beat' \in Nat BY <1>2
  <2> QED BY <2>1, <2>3, <2>4 DEF Beat, DashboardConstants
<1>4. req' \in [Click -> Req]
  <2>1. Beat \union {beat'} = Beat BY <1>3
  <2> QED BY <1>2, <2>1
<1> QED BY <1>2, <1>3, <1>4 DEF TypeOK
-----------------------------------------------------------------------------
(* A handler that acts while every promise has been kept is that of the    *)
(* click the card is waiting for.                                          *)
LEMMA ActsForLast ==
  ASSUME TypeOK, ClickInv, NothingDropped, NEW c \in Click, req[c].handler \in {"waiting", "gated"}
  PROVE  c = clicks /\ busy /\ req[c].promise = "pending" /\ runOutcome = "null"
<1>1. c <= clicks
  <2>1. c \in Int /\ clicks \in Int BY DEF TypeOK, Click
  <2> QED BY <2>1 DEF ClickInv, NoReq
<1>2. req[c].promise \in {"none", "pending", "settled", "dropped"} BY DEF TypeOK
<1> QED BY <1>1, <1>2 DEF ClickInv, NothingDropped

(* The flag is the last word of the last toggle that was done.             *)
LEMMA FlagStep == DashboardConstants /\ CardInv /\ [Next]_vars => FlagInv'
<1> SUFFICES ASSUME DashboardConstants, CardInv, [Next]_vars, NothingDropped'
             PROVE  /\ \A c \in Click : LastToggle(c)' => flag' = req'[c].target
                    /\ \A c \in Click : c = clicks' /\ PastGate(c)' => flag' = req'[c].target
                    /\ runOutcome' = "past_gate" => flag'
                    /\ runOutcome' = "skipped_disabled" => ~flag'
  BY DEF FlagInv
<1>0. TypeOK /\ ClickInv /\ FlagInv BY DEF CardInv
<1>1. clicks \in Int /\ \A c \in Click : c \in Int BY <1>0 DEF TypeOK, Click
<1>2. ASSUME NEW c \in Click, ServerStep(c) PROVE FlagInv'
  <2>1. ServerEffect(c) BY <1>0, <1>2, ServerStepEffect
  <2>2. NothingDropped
    BY <2>1 DEF ServerEffect, NothingDropped
  <2>3. c = clicks /\ runOutcome = "null" /\ req[c].handler \in {"waiting", "gated"}
    BY <1>0, <2>1, <2>2, ActsForLast DEF ServerEffect
  <2>4. ASSUME NEW d \in Click, LastToggle(d)' PROVE flag' = req'[d].target
    <3>1. CASE d = c BY <2>1, <2>4, <3>1 DEF ServerEffect
    <3>2. CASE d # c
      <4>1. req'[d] = req[d] BY <2>1, <3>2 DEF ServerEffect
      <4>2. d < c
        BY <1>0, <1>1, <2>3, <2>4, <3>2, <4>1 DEF LastToggle, ClickInv, NoReq
      <4>3. c \in (d + 1)..MaxClicks BY <1>1, <4>2 DEF Click
      <4>4. ~(req[c].op = "toggle" /\ req'[c].handler = "done")
        BY <2>1, <2>4, <4>3 DEF LastToggle, ServerEffect
      <4>5. UNCHANGED flag BY <2>1, <4>4 DEF ServerEffect
      <4>6. LastToggle(d)
        <5>1. ASSUME NEW f \in (d + 1)..MaxClicks, req[f].op = "toggle" PROVE req[f].handler # "done"
          <6>1. f \in Click BY <1>1, <5>1 DEF Click
          <6>2. CASE f = c BY <2>3, <6>2
          <6>3. CASE f # c
            <7>1. req'[f] = req[f] BY <2>1, <6>1, <6>3 DEF ServerEffect
            <7> QED BY <2>4, <5>1, <7>1 DEF LastToggle
          <6> QED BY <6>2, <6>3
        <5> QED BY <2>4, <4>1, <5>1 DEF LastToggle
      <4> QED BY <1>0, <2>2, <4>1, <4>5, <4>6 DEF FlagInv
    <3> QED BY <3>1, <3>2
  <2>5. PastGate(c)' => flag' = req'[c].target
    <3> SUFFICES ASSUME PastGate(c)' PROVE flag' = req'[c].target OBVIOUS
    <3>1. /\ UNCHANGED flag /\ req'[c].op = "run" /\ req'[c].op = req[c].op
          /\ req'[c].target = flag \/ (req[c].handler = "gated" /\ req'[c].target = req[c].target)
      BY <2>1 DEF ServerEffect, PastGate
    <3>2. req[c].handler = "gated" => flag = req[c].target
      BY <1>0, <2>2, <2>3, <3>1 DEF FlagInv, PastGate
    <3> QED BY <3>1, <3>2
  <2>6. UNCHANGED <<clicks, runOutcome>> BY <2>1 DEF ServerEffect, card
  <2> QED BY <2>3, <2>4, <2>5, <2>6 DEF FlagInv
<1>3. CASE Toggle \/ ProcessNow
  <2>1. ClickEffect BY <1>0, <1>3, ClickStepEffect
  <2>2. PICK op \in {"toggle", "run"}, t \in BOOLEAN :
          req' = [req EXCEPT ![clicks'] = [op |-> op, target |-> t, handler |-> "waiting",
                                           promise |-> "pending", answer |-> "none", heartbeat |-> 0]]
    BY <2>1 DEF ClickEffect
  <2>3. /\ clicks' = clicks + 1 /\ clicks' \in Click /\ UNCHANGED flag /\ runOutcome' = "null"
    BY <2>1 DEF ClickEffect, server
  <2>4. \A c \in Click : c # clicks' => req'[c] = req[c]
    BY <1>0, <2>2 DEF TypeOK
  <2>5. /\ req'[clicks'].handler = "waiting" /\ req'[clicks'].answer = "none"
        /\ req[clicks'] = NoReq
    BY <1>0, <1>1, <2>2, <2>3 DEF TypeOK, ClickInv
  <2>6. NothingDropped
    BY <2>4, <2>5 DEF NothingDropped, NoReq
  <2>7. ASSUME NEW d \in Click, LastToggle(d)' PROVE flag' = req'[d].target
    <3>1. d # clicks' BY <2>5, <2>7 DEF LastToggle
    <3>2. req'[d] = req[d] BY <2>4, <3>1
    <3>3. ASSUME NEW f \in (d + 1)..MaxClicks, req[f].op = "toggle" PROVE req[f].handler # "done"
      <4>1. f \in Click BY <1>1, <3>3 DEF Click
      <4>2. f # clicks' BY <2>5, <3>3 DEF NoReq
      <4> QED BY <2>4, <2>7, <3>3, <4>1, <4>2 DEF LastToggle
    <3>4. LastToggle(d) BY <2>7, <3>2, <3>3 DEF LastToggle
    <3> QED BY <1>0, <2>3, <2>6, <3>2, <3>4 DEF FlagInv
  <2>8. \A d \in Click : d = clicks' => ~PastGate(d)'
    BY <2>5 DEF PastGate
  <2> QED BY <2>3, <2>7, <2>8 DEF FlagInv
<1>4. ASSUME NEW c \in Click, ClientStep(c) \/ Drop(c) PROVE FlagInv'
  <2>1. ClientEffect(c) BY <1>0, <1>4, ClientStepEffect
  <2>2. PICK p \in {"settled", "dropped"} : req' = [req EXCEPT ![c].promise = p]
    BY <2>1 DEF ClientEffect
  <2>3. \A d \in Click : /\ req'[d].op = req[d].op /\ req'[d].target = req[d].target
                         /\ req'[d].handler = req[d].handler /\ req'[d].answer = req[d].answer
                         /\ d # c => req'[d] = req[d]
    BY <1>0, <2>2 DEF TypeOK
  <2>4. UNCHANGED <<flag, clicks>> /\ req[c].promise = "pending" BY <2>1 DEF ClientEffect, server
  <2>5. NothingDropped BY <2>3, <2>4 DEF NothingDropped
  <2>6. ASSUME NEW d \in Click, LastToggle(d)' PROVE LastToggle(d)
    <3>1. \A f \in (d + 1)..MaxClicks : f \in Click BY <1>1 DEF Click
    <3> QED BY <2>3, <2>6, <3>1 DEF LastToggle
  <2>7. \A d \in Click : PastGate(d)' <=> PastGate(d) BY <2>3 DEF PastGate
  <2>8. c = clicks BY <1>0, <2>4 DEF ClickInv
  <2>9. /\ runOutcome' = "past_gate" => flag
        /\ runOutcome' = "skipped_disabled" => ~flag
    <3>1. CASE UNCHANGED runOutcome BY <1>0, <2>5, <3>1 DEF FlagInv
    <3>2. CASE /\ PastGate(c)
               /\ runOutcome' = IF req[c].target THEN "past_gate" ELSE "skipped_disabled"
      <4>1. flag = req[c].target BY <1>0, <2>5, <2>8, <3>2 DEF FlagInv
      <4> QED BY <3>2, <4>1
    <3> QED BY <2>1, <3>1, <3>2 DEF ClientEffect
  <2>10. \A d \in Click : LastToggle(d)' => flag' = req'[d].target
    BY <1>0, <2>3, <2>4, <2>5, <2>6 DEF FlagInv
  <2>11. \A d \in Click : d = clicks' /\ PastGate(d)' => flag' = req'[d].target
    BY <1>0, <2>3, <2>4, <2>5, <2>7 DEF FlagInv
  <2> QED BY <2>4, <2>9, <2>10, <2>11 DEF FlagInv
<1>5. CASE TimerWake \/ (\E e \in Epoch : StatusStep(e) \/ BreakGet(e)) \/ UNCHANGED vars
  <2>1. UNCHANGED <<flag, req, clicks, runOutcome>>
    BY <1>0, <1>5, StatusStepEffect DEF StatusEffect, server, vars, TimerWake, card
  <2> QED BY <1>0, <2>1 DEF FlagInv, LastToggle, PastGate, NothingDropped
<1> QED BY <1>2, <1>3, <1>4, <1>5 DEF Next, FlagInv

(* The re-read after the last click tells the truth.                       *)
LEMMA RereadStep == DashboardConstants /\ CardInv /\ [Next]_vars => RereadInv'
<1> SUFFICES ASSUME DashboardConstants, CardInv, [Next]_vars, NothingDropped',
                    NEW c \in Click, Rereads(c)'
             PROVE  /\ get'[epoch'].stage \in {"half", "answered"} => get'[epoch'].enabled = flag'
                    /\ get'[epoch'].stage = "answered" => get'[epoch'].heartbeat >= req'[c].heartbeat
                    /\ get'[epoch'].stage = "done" /\ panel'.status = "ok" =>
                         panel'.enabled = flag' /\ panel'.heartbeat >= req'[c].heartbeat
  BY DEF RereadInv
<1>0. TypeOK /\ ClickInv /\ RereadInv BY DEF CardInv
<1>1. epoch \in Epoch /\ epoch + 1 \in Int BY <1>0 DEF TypeOK, Epoch
<1>2. ASSUME NEW d \in Click, ServerStep(d) PROVE FALSE
  <2>1. ServerEffect(d) BY <1>0, <1>2, ServerStepEffect
  <2>2. NothingDropped BY <2>1 DEF ServerEffect, NothingDropped
  <2>3. d = clicks /\ req[d].promise = "pending"
    BY <1>0, <2>1, <2>2, ActsForLast DEF ServerEffect
  <2> QED BY <2>1, <2>3 DEF ServerEffect, Rereads
<1>3. CASE Toggle \/ ProcessNow
  <2>1. ClickEffect BY <1>0, <1>3, ClickStepEffect
  <2>2. req'[clicks'].promise = "pending" BY <1>0, <2>1 DEF ClickEffect, TypeOK
  <2> QED BY <2>2 DEF Rereads
<1>4. ASSUME NEW d \in Click, ClientStep(d) \/ Drop(d) PROVE RereadInv'
  <2>1. ClientEffect(d) BY <1>0, <1>4, ClientStepEffect
  <2>2. d = clicks /\ clicks' = clicks /\ epoch < clicks /\ ~actionFailed
    BY <1>0, <2>1 DEF ClientEffect, ClickInv
  <2>3. req'[d].op = req[d].op /\ c = d
    BY <1>0, <2>1, <2>2 DEF ClientEffect, TypeOK, Rereads
  <2>4. epoch' = epoch + 1 /\ get' = [get EXCEPT ![epoch + 1].stage = "sent"]
    BY <2>1, <2>2, <2>3 DEF ClientEffect, Rereads
  <2>5. epoch + 1 \in Epoch BY <1>0, <2>2 DEF TypeOK, Epoch, DashboardConstants
  <2>6. get'[epoch'].stage = "sent" BY <1>0, <2>4, <2>5 DEF TypeOK
  <2> QED BY <2>6 DEF RereadInv
<1>5. CASE TimerWake \/ UNCHANGED vars
  <2>1. UNCHANGED <<flag, req, clicks, panel, actionFailed, epoch, get>>
    BY <1>5 DEF TimerWake, card, vars
  <2> QED BY <1>0, <2>1 DEF RereadInv, Rereads, NothingDropped
<1>6. ASSUME NEW e \in Epoch, StatusStep(e) \/ BreakGet(e) PROVE RereadInv'
  <2>1. UNCHANGED <<flag, beat, actionFailed, epoch, req, clicks>>
    BY <1>0, <1>6, StatusStepEffect DEF StatusEffect, server
  <2>2. Rereads(c) /\ NothingDropped BY <2>1 DEF Rereads, NothingDropped
  <2>3. /\ get[epoch].stage \in {"half", "answered"} => get[epoch].enabled = flag
        /\ get[epoch].stage = "answered" => get[epoch].heartbeat >= req[c].heartbeat
        /\ get[epoch].stage = "done" /\ panel.status = "ok" =>
             panel.enabled = flag /\ panel.heartbeat >= req[c].heartbeat
        /\ req[c].heartbeat <= beat
    BY <1>0, <2>2 DEF RereadInv, ClickInv
  <2> DEFINE Told == /\ get'[epoch].stage \in {"half", "answered"} => get'[epoch].enabled = flag
                     /\ get'[epoch].stage = "answered" => get'[epoch].heartbeat >= req[c].heartbeat
                     /\ get'[epoch].stage = "done" /\ panel'.status = "ok" =>
                          panel'.enabled = flag /\ panel'.heartbeat >= req[c].heartbeat
  <2>4. CASE e # epoch
    <3>1. get'[epoch] = get[epoch] /\ UNCHANGED panel
      BY <1>0, <1>1, <1>6, <2>4 DEF StatusStep, ReadFlag, ReadHeartbeat, BreakGet, Deliver, TypeOK
    <3> QED BY <2>1, <2>3, <3>1 DEF Rereads, RereadInv
  <2>5. CASE e = epoch /\ ReadFlag(e)
    <3>1. get'[epoch].stage = "half" /\ get'[epoch].enabled = flag
      BY <1>0, <1>1, <2>5 DEF ReadFlag, TypeOK
    <3> QED BY <2>1, <3>1 DEF Rereads, RereadInv
  <2>6. CASE e = epoch /\ ReadHeartbeat(e)
    <3>1. /\ get'[epoch].stage = "answered" /\ get'[epoch].enabled = get[epoch].enabled
          /\ get'[epoch].heartbeat = beat /\ get[epoch].stage = "half"
      BY <1>0, <1>1, <2>6 DEF ReadHeartbeat, TypeOK
    <3>2. beat \in Nat /\ req[c].heartbeat \in Nat
      BY <1>0 DEF TypeOK, Beat, DashboardConstants
    <3>3. Told BY <2>3, <3>1, <3>2
    <3> QED BY <2>1, <2>2, <3>3 DEF Rereads, RereadInv
  <2>7. CASE e = epoch /\ BreakGet(e)
    <3>1. get'[epoch].stage = "broken"
      BY <1>0, <1>1, <2>7 DEF BreakGet, TypeOK
    <3> QED BY <2>1, <3>1 DEF Rereads, RereadInv
  <2>8. CASE e = epoch /\ Deliver(e)
    <3>1. get'[epoch].stage = "done" BY <1>0, <1>1, <2>8 DEF Deliver, TypeOK
    <3>2. CASE get[e].stage = "answered"
      <4>1. panel'.enabled = get[epoch].enabled /\ panel'.heartbeat = get[epoch].heartbeat
        BY <2>8, <3>2 DEF Deliver, Shown
      <4> QED BY <2>1, <2>3, <2>8, <3>1, <3>2, <4>1 DEF Rereads, RereadInv
    <3>3. CASE get[e].stage = "broken"
      <4>1. panel'.status = "error"
        BY <1>0, <2>8, <3>3 DEF Deliver, Shown, TypeOK, Panel
      <4> QED BY <2>1, <3>1, <4>1 DEF Rereads, RereadInv
    <3> QED BY <2>8, <3>2, <3>3 DEF Deliver
  <2> QED BY <1>6, <2>4, <2>5, <2>6, <2>7, <2>8 DEF StatusStep
<1> QED BY <1>2, <1>3, <1>4, <1>5, <1>6 DEF Next, RereadInv
-----------------------------------------------------------------------------
LEMMA CardInvStep == DashboardConstants /\ CardInv /\ [Next]_vars => CardInv'
BY CardTypesStep, ClickStep, BeatStep, FlagStep, RereadStep DEF CardInv

(* The strengthened invariant holds of every behaviour of the card.        *)
THEOREM CardInvariant == Spec => []CardInv
<1>1. Init => CardInv BY CardInvInit, DashboardConstants
<1>2. CardInv /\ [Next]_vars => CardInv' BY CardInvStep, DashboardConstants
<1> QED BY <1>1, <1>2, PTL DEF Spec

(* What a card at rest shows after a re-read is what the server has.       *)
LEMMA CardInvRereads == CardInv => RereadIsTrue
<1> SUFFICES ASSUME CardInv, NothingDropped PROVE
      /\ AtRest /\ panel.status = "ok" /\ clicks > 0 /\ (req[clicks].op = "run" \/ actionFailed)
           => panel.enabled = flag /\ panel.heartbeat >= req[clicks].heartbeat
      /\ runOutcome # "null" => flag = (runOutcome = "past_gate")
  BY DEF RereadIsTrue
<1>0. TypeOK /\ ClickInv /\ FlagInv /\ RereadInv BY DEF CardInv
<1>1. ASSUME AtRest, panel.status = "ok", clicks > 0, req[clicks].op = "run" \/ actionFailed
      PROVE  panel.enabled = flag /\ panel.heartbeat >= req[clicks].heartbeat
  <2>1. clicks \in Click BY <1>0, <1>1 DEF TypeOK, Click
  <2>2. req[clicks].promise = "settled"
    BY <1>0, <1>1, <2>1 DEF TypeOK, ClickInv, AtRest, NothingDropped
  <2>3. Rereads(clicks) BY <1>1, <2>2 DEF Rereads
  <2> QED BY <1>0, <1>1, <2>1, <2>3 DEF RereadInv, AtRest
<1>2. ASSUME runOutcome # "null" PROVE flag = (runOutcome = "past_gate")
  <2>1. flag \in BOOLEAN /\ runOutcome \in {"past_gate", "skipped_disabled"}
    BY <1>0, <1>2 DEF TypeOK, RunOutcome
  <2>2. CASE runOutcome = "past_gate"
    <3>1. flag BY <1>0, <2>2 DEF FlagInv
    <3> QED BY <2>1, <2>2, <3>1, Zenon
  <2>3. CASE runOutcome = "skipped_disabled"
    <3>1. ~flag /\ runOutcome # "past_gate" BY <1>0, <2>3 DEF FlagInv
    <3> QED BY <2>1, <3>1, Zenon
  <2> QED BY <2>1, <2>2, <2>3
<1> QED BY <1>1, <1>2

(* A late answer, a cancelled GET or a slow handler never leaves a wrong   *)
(* flag, an older heartbeat or a stale run result on a card at rest.       *)
THEOREM CardRereadIsTrue == Spec => []RereadIsTrue
BY CardInvariant, CardInvRereads, PTL

(* No earlier click lands after the last confirmed toggle.                 *)
LEMMA CardInvIntent == CardInv => IntentKept
<1> SUFFICES ASSUME CardInv, NEW c \in Click, NothingDropped,
                    req[c].op = "toggle", req[c].answer = "ok",
                    \A d \in (c + 1)..MaxClicks : req[d].op # "toggle"
             PROVE  flag = req[c].target
  BY DEF IntentKept
<1>1. LastToggle(c) BY DEF LastToggle
<1> QED BY <1>1 DEF CardInv, FlagInv

(* With every answer delivered, the flag of a settled card is the last     *)
(* target that was clicked and confirmed.                                  *)
THEOREM CardIntentKept == Spec => []IntentKept
  BY CardInvariant, CardInvIntent, PTL
-----------------------------------------------------------------------------
(* A set of numbers that is not empty has a least one.                     *)
LEMMA LeastOf ==
  ASSUME NEW K \in SUBSET Nat, K # {}
  PROVE  \E m \in K : \A j \in K : m <= j
<1> DEFINE Less == OpToRel(<, Nat)
<1>1. IsWellFoundedOn(Less, Nat)
  BY NatLessThanWellFounded
<1>2. \A x, y \in Nat : x < y => <<x, y>> \in Less
  BY DEF OpToRel
<1> HIDE DEF Less
<1>3. PICK k \in K : \A j \in K : <<j, k>> \notin Less
  BY <1>1, WFMin
<1>4. \A j \in K : ~(j < k)
  BY <1>2, <1>3
<1>5. \A j \in K : k <= j
  BY <1>4
<1> QED BY <1>5

(* The earliest item of the answer.                                        *)
LEMMA MinOfNaturals ==
  ASSUME NEW K \in SUBSET Nat, K # {}
  PROVE  Chart!Min(K) \in K /\ \A j \in K : Chart!Min(K) <= j
<1>1. \E m \in K : \A j \in K : m <= j
  BY LeastOf
<1> QED BY <1>1 DEF Chart!Min

(* The local hour of a moment.                                             *)
LEMMA LocalType == ASSUME NEW u \in Int PROVE Chart!Local(u) \in {u, u + 1}
  BY DEF Chart!Local

(* The Date constructor yields the hour asked for, or the one an hour      *)
(* before it, and then only if that one is shown as the hour asked for.    *)
LEMMA FromLocalRange ==
  ASSUME NEW l \in Int
  PROVE  Chart!FromLocal(l) = l \/ (Chart!FromLocal(l) = l - 1 /\ Chart!Local(l - 1) = l)
<1> DEFINE us == {u \in {l - 1, l} : Chart!Local(u) = l}
<1>0. Chart!FromLocal(l) = IF us = {} THEN l ELSE Chart!Min(us)
  BY Zenon DEF Chart!FromLocal
<1>1. CASE us = {}
  BY <1>0, <1>1
<1>2. CASE us # {}
  <2>1. PICK k \in us : \A j \in us : k <= j
    <3>1. CASE l - 1 \in us
      BY <3>1
    <3>2. CASE l - 1 \notin us
      BY <1>2, <3>2
    <3> QED
      BY <3>1, <3>2
  <2>2. Chart!Min(us) \in us
    <3> HIDE DEF us
    <3> QED
      BY <2>1 DEF Chart!Min
  <2>3. Chart!FromLocal(l) = Chart!Min(us)
    BY <1>0, <1>2
  <2> QED
    BY <2>2, <2>3
<1> QED
  BY <1>1, <1>2

(* The library remainder is a digit of the modulus.                        *)
LEMMA ModRange == ASSUME NEW x \in Int, NEW s \in Nat \ {0} PROVE x % s \in 0..(s - 1)
  OBVIOUS

(* addHours, addDays and the first of the next month move on by at least   *)
(* an hour, also through an hour that comes twice or does not exist.       *)
LEMMA AdvanceIncreases ==
  ASSUME Chart!ChartConstants, NEW u \in Int, NEW g \in Chart!Granularity
  PROVE  Chart!Advance(u, g) \in Int /\ Chart!Advance(u, g) > u
<1> DEFINE next == Chart!Local(u) + Size[g] - (Chart!Local(u) % Size[g])
<1>1. Chart!Local(u) \in {u, u + 1} /\ Chart!Local(u) \in Int /\ Size[g] \in Nat \ {0}
  BY LocalType DEF Chart!ChartConstants
<1>2. Chart!Local(u) % Size[g] \in 0..(Size[g] - 1)
  BY <1>1, ModRange
<1>3. next \in Int /\ next > Chart!Local(u)
  BY <1>1, <1>2
<1>4. Chart!Advance(u, g) = Chart!FromLocal(next)
  BY DEF Chart!Advance
<1> HIDE DEF next
<1>5. CASE Chart!FromLocal(next) = next
  BY <1>1, <1>3, <1>4, <1>5
<1>6. CASE Chart!FromLocal(next) = next - 1 /\ Chart!Local(next - 1) = next
  <2>1. next - 1 # u
    BY <1>3, <1>6
  <2>2. next - 1 >= u /\ next - 1 \in Int
    BY <1>1, <1>3
  <2> QED
    BY <1>4, <1>6, <2>1, <2>2
<1> QED
  BY <1>3, <1>5, <1>6, FromLocalRange
-----------------------------------------------------------------------------
(* What the loop rests on: the answer of /api/metrics and the selects are  *)
(* as typed, and the cursor is an instant.                                 *)
ChartInv ==
  /\ claims \subseteq Chart!Instant /\ errors \subseteq Chart!Instant /\ now \in Chart!Instant
  /\ window \in Chart!Window /\ granularity \in Chart!Granularity
  /\ cursor \in Int

(* Hours are whole.                                                        *)
LEMMA FromLocalType == ASSUME NEW l \in Int PROVE Chart!FromLocal(l) \in Int
  BY FromLocalRange

LEMMA FloorType ==
  ASSUME Chart!ChartConstants, NEW l \in Int, NEW g \in Chart!Granularity
  PROVE  Chart!Floor(l, g) \in Int
<1>1. Size[g] \in Nat \ {0}
  BY DEF Chart!ChartConstants
<1>2. l % Size[g] \in Int
  BY <1>1, ModRange
<1> QED
  BY <1>2 DEF Chart!Floor

LEMMA StartOfBucketType ==
  ASSUME Chart!ChartConstants, NEW u \in Int, NEW g \in Chart!Granularity
  PROVE  Chart!StartOfBucket(u, g) \in Int
<1>1. Chart!Local(u) \in Int
  BY LocalType
<1> QED
  BY <1>1, FloorType, FromLocalType DEF Chart!StartOfBucket

(* The start of every window is an instant.                                *)
LEMMA ChartStartType ==
  ASSUME Chart!ChartConstants, ChartInv, NEW s \in Chart!Series
  PROVE  Chart!ChartStart(s) \in Int
<1> DEFINE earliest == Chart!SharedEarliest(s)
<1>1. now \in Int /\ window \in Chart!Window /\ granularity \in Chart!Granularity
  BY DEF ChartInv, Chart!Instant, Chart!ChartConstants
<1>2. earliest \in Int
  <2>1. claims \union errors \subseteq Nat
    BY DEF ChartInv, Chart!Instant, Chart!ChartConstants
  <2>2. claims \union errors # {} => Chart!Min(claims \union errors) \in Nat
    BY <2>1, MinOfNaturals
  <2> QED
    BY <1>1, <2>2 DEF Chart!SharedEarliest, Chart!EarliestAt
<1> HIDE DEF earliest
<1>3. CASE window = "all"
  <2>1. Chart!ChartStart(s) = Chart!StartOfBucket(earliest, granularity)
    BY <1>3 DEF Chart!ChartStart, Chart!WindowStart, earliest
  <2> QED
    BY <1>1, <1>2, <2>1, StartOfBucketType
<1>4. CASE window # "all"
  <2>1. WindowDays[window] \in Nat \ {0} /\ Size["day"] \in Nat \ {0}
    BY <1>1, <1>4 DEF Chart!ChartConstants, Chart!Granularity
  <2>2. /\ Chart!StartOfBucket(now, "hour") \in Int /\ Chart!StartOfBucket(now, "day") \in Int
        /\ Chart!Local(Chart!StartOfBucket(now, "hour")) \in Int
        /\ \A u \in Int : Chart!Local(u) \in Int
    BY <1>1, StartOfBucketType, LocalType DEF Chart!Granularity
  <2>3. CASE granularity = "hour"
    <3> DEFINE hours == Chart!Local(Chart!StartOfBucket(now, "hour")) - (WindowDays[window] * Size["day"] - 1)
    <3>1. hours \in Int
      BY <2>1, <2>2
    <3>2. Chart!ChartStart(s) = Chart!FromLocal(hours)
      BY <1>4, <2>3 DEF Chart!ChartStart, Chart!WindowStart
    <3> QED
      BY <3>1, <3>2, FromLocalType
  <2>4. CASE granularity # "hour"
    <3> DEFINE from == Chart!AddDays(Chart!StartOfBucket(now, "day"), -(WindowDays[window] - 1))
    <3>1. Chart!Floor(Chart!Local(Chart!StartOfBucket(now, "day")), "day") \in Int
      BY <2>2, FloorType DEF Chart!Granularity
    <3>2. Chart!Floor(Chart!Local(Chart!StartOfBucket(now, "day")), "day")
            + (-(WindowDays[window] - 1)) * Size["day"] \in Int
      BY <2>1, <3>1
    <3>3. from \in Int
      BY <3>2, FromLocalType DEF Chart!AddDays
    <3>4. Chart!ChartStart(s) = Chart!StartOfBucket(from, granularity)
      BY <1>4, <2>4 DEF Chart!ChartStart, Chart!WindowStart
    <3> QED
      BY <1>1, <3>3, <3>4, StartOfBucketType
  <2> QED
    BY <2>3, <2>4
<1> QED
  BY <1>3, <1>4

LEMMA ChartInvStep ==
  ASSUME Chart!ChartConstants, ChartInv, series \in Chart!Series, [Chart!Next]_(Chart!vars)
  PROVE  ChartInv' /\ series' \in Chart!Series
<1> USE DEF ChartInv
<1>1. CASE Chart!BeginSeries
  BY <1>1, ChartStartType DEF Chart!BeginSeries
<1>2. CASE Chart!FillBucket
  BY <1>2, AdvanceIncreases DEF Chart!FillBucket
<1>3. CASE Chart!EndSeries
  BY <1>3 DEF Chart!EndSeries, Chart!Series
<1>4. ASSUME NEW w \in Chart!Window, NEW g \in Chart!Granularity, Chart!Rerender(w, g)
      PROVE  ChartInv' /\ series' \in Chart!Series
  BY <1>4 DEF Chart!Rerender, Chart!Series
<1>5. CASE \E w \in Chart!Window : Chart!ChangeWindow(w)
  <2>1. \A w \in Chart!Window : Chart!DefaultGranularity(w) \in Chart!Granularity
    BY DEF Chart!Matrix, Chart!DefaultGranularity, Chart!Window, Chart!Granularity
  <2> QED
    BY <1>4, <1>5, <2>1 DEF Chart!ChangeWindow, Chart!Snap
<1>6. CASE \E g \in Chart!Granularity : Chart!SetGranularity(g)
  BY <1>4, <1>6 DEF Chart!SetGranularity
<1>7. CASE UNCHANGED Chart!vars
  BY <1>7 DEF Chart!vars
<1> QED
  BY <1>1, <1>2, <1>3, <1>5, <1>6, <1>7 DEF Chart!Next

-----------------------------------------------------------------------------
(* The Date constructor, without its set.                                  *)
LEMMA FromLocalIs ==
  ASSUME NEW l \in Int
  PROVE  Chart!FromLocal(l) = IF Chart!Local(l - 1) = l THEN l - 1 ELSE l
<1> DEFINE us == {u \in {l - 1, l} : Chart!Local(u) = l}
<1>0. Chart!FromLocal(l) = IF us = {} THEN l ELSE Chart!Min(us)
  BY Zenon DEF Chart!FromLocal
<1>1. CASE us = {}
  BY <1>0, <1>1
<1>2. CASE Chart!Local(l - 1) = l
  <2>1. l - 1 \in us /\ \A j \in us : l - 1 <= j
    BY <1>2
  <2>2. us # {}
    BY <2>1
  <2>3. Chart!Min(us) \in us /\ \A j \in us : Chart!Min(us) <= j
    <3> HIDE DEF us
    <3> QED BY <2>1 DEF Chart!Min
  <2>4. Chart!Min(us) = l - 1
    BY <2>1, <2>3
  <2> QED BY <1>0, <1>2, <2>2, <2>4
<1>3. CASE us # {} /\ Chart!Local(l - 1) # l
  <2>1. l \in us /\ \A j \in us : j = l
    BY <1>3
  <2>2. Chart!Min(us) \in us
    <3>1. \A j \in us : l <= j
      BY <2>1
    <3> HIDE DEF us
    <3> QED BY <2>1, <3>1 DEF Chart!Min
  <2> QED BY <1>0, <1>3, <2>1, <2>2
<1> QED BY <1>1, <1>2, <1>3

(* It is the first instant at which the clock has reached that hour; the   *)
(* clock then shows that hour, or the one after the hour that is skipped.  *)
LEMMA FirstAtHour ==
  ASSUME Chart!ChartConstants, NEW l \in Int
  PROVE  /\ \A u \in Int : u < Chart!FromLocal(l) => Chart!Local(u) < l
         /\ \/ Chart!Local(Chart!FromLocal(l)) = l
            \/ l = Spring /\ Chart!Local(Chart!FromLocal(l)) = l + 1
<1>1. Spring \in Nat /\ Fall \in Nat /\ Spring < Fall
  BY DEF Chart!ChartConstants
<1> QED BY <1>1, FromLocalIs DEF Chart!Local

(* The operator's clock never runs backwards by a whole hour.              *)
LEMMA LocalRises ==
  ASSUME Chart!ChartConstants, NEW u \in Int, NEW v \in Int, u <= v
  PROVE  Chart!Local(u) <= Chart!Local(v) /\ Chart!Local(u) \in Int /\ Chart!Local(v) \in Int
  BY DEF Chart!ChartConstants, Chart!Local

(* A remainder and its quotient are unique.                                *)
LEMMA Division ==
  ASSUME NEW x \in Int, NEW s \in Nat \ {0}
  PROVE  x \div s \in Int /\ x % s \in 0..(s - 1) /\ x = s * (x \div s) + (x % s)
  OBVIOUS

(* Buckets do not overlap.                                                 *)
LEMMA OneFloor ==
  ASSUME NEW s \in Nat \ {0}, NEW d \in Int, NEW b \in Int, s * d <= b, b < s * d + s
  PROVE  b - (b % s) = s * d
<1> DEFINE e == b \div s
<1>1. e \in Int /\ b % s \in 0..(s - 1) /\ b = s * e + (b % s)
  BY Division
<1> HIDE DEF e
<1>2. ~(e > d)
  <2> SUFFICES ASSUME e > d PROVE FALSE
    OBVIOUS
  <2>1. e - d - 1 \in Nat /\ s * e = s * d + s + s * (e - d - 1)
    BY <1>1
  <2>2. s * (e - d - 1) >= 0 /\ s * (e - d - 1) \in Int /\ s * d \in Int
    BY <2>1
  <2> QED BY <1>1, <2>1, <2>2
<1>3. ~(e < d)
  <2> SUFFICES ASSUME e < d PROVE FALSE
    OBVIOUS
  <2>1. d - e - 1 \in Nat /\ s * d = s * e + s + s * (d - e - 1)
    BY <1>1
  <2>2. s * (d - e - 1) >= 0 /\ s * (d - e - 1) \in Int /\ s * e \in Int
    BY <1>1, <2>1
  <2> QED BY <1>1, <2>1, <2>2
<1>4. e = d
  BY <1>1, <1>2, <1>3
<1> QED BY <1>1, <1>4

(* The key of a bucket is a multiple of its size.                           *)
LEMMA KeyIs ==
  ASSUME Chart!ChartConstants, NEW u \in Int, NEW g \in Chart!Granularity
  PROVE  \E d \in Int : /\ Chart!BucketKey(u, g) = Size[g] * d
                        /\ Chart!Local(u) \in Int
                        /\ Size[g] * d <= Chart!Local(u) /\ Chart!Local(u) < Size[g] * d + Size[g]
<1> DEFINE l == Chart!Local(u)
           s == Size[g]
<1>1. l \in Int /\ s \in Nat \ {0}
  BY LocalType DEF Chart!ChartConstants
<1>2. Chart!BucketKey(u, g) = l - (l % s)
  BY DEF Chart!BucketKey, Chart!Floor
<1> HIDE DEF l, s
<1>3. l \div s \in Int /\ l % s \in 0..(s - 1) /\ l = s * (l \div s) + (l % s)
  BY <1>1, Division
<1>4. s * (l \div s) \in Int /\ l - (l % s) = s * (l \div s) /\ s * (l \div s) <= l
      /\ l < s * (l \div s) + s
  BY <1>1, <1>3
<1> QED BY <1>1, <1>2, <1>3, <1>4 DEF l, s

(* The key of a bucket is an hour.                                         *)
LEMMA KeyType ==
  ASSUME Chart!ChartConstants, NEW u \in Int, NEW g \in Chart!Granularity
  PROVE  Chart!BucketKey(u, g) \in Int
<1>1. Chart!Local(u) \in Int
  BY LocalType
<1> QED BY <1>1, FloorType DEF Chart!BucketKey

(* The start of the bucket after that of a key.                            *)
NextAt(k, g) == Chart!FromLocal(k + Size[g])

(* Advance goes to it from anywhere in the bucket, and everything before   *)
(* it is in the bucket.                                                    *)
LEMMA AdvanceIsNext ==
  ASSUME Chart!ChartConstants, NEW u \in Int, NEW g \in Chart!Granularity
  PROVE  /\ Chart!Advance(u, g) = NextAt(Chart!BucketKey(u, g), g)
         /\ \A v \in Int : u <= v /\ v < Chart!Advance(u, g) =>
              Chart!BucketKey(v, g) = Chart!BucketKey(u, g)
<1> DEFINE s == Size[g]
<1>0. s \in Nat \ {0}
  BY DEF Chart!ChartConstants
<1>1. PICK d \in Int : /\ Chart!BucketKey(u, g) = s * d /\ Chart!Local(u) \in Int
                       /\ s * d <= Chart!Local(u) /\ Chart!Local(u) < s * d + s
  BY KeyIs
<1>2. s * d \in Int
  BY <1>0
<1>3. Chart!Advance(u, g) = NextAt(Chart!BucketKey(u, g), g)
  <2>1. Chart!Local(u) + s - (Chart!Local(u) % s) = (Chart!Local(u) - (Chart!Local(u) % s)) + s
    <3>1. Chart!Local(u) % s \in Int
      BY <1>0, <1>1, ModRange
    <3> HIDE DEF s
    <3> QED BY <1>0, <1>1, <3>1
  <2>2. Chart!Advance(u, g) = Chart!FromLocal(Chart!Local(u) + s - (Chart!Local(u) % s))
    BY DEF Chart!Advance
  <2>3. NextAt(Chart!BucketKey(u, g), g) = Chart!FromLocal((Chart!Local(u) - (Chart!Local(u) % s)) + s)
    BY DEF NextAt, Chart!BucketKey, Chart!Floor
  <2> QED BY <2>1, <2>2, <2>3, Zenon
<1>4. ASSUME NEW v \in Int, u <= v, v < Chart!Advance(u, g)
      PROVE  Chart!BucketKey(v, g) = Chart!BucketKey(u, g)
  <2>1. Chart!Local(u) <= Chart!Local(v) /\ Chart!Local(v) \in Int
    BY <1>4, LocalRises
  <2>2. Chart!Local(v) < s * d + s
    <3>1. s * d + s \in Int /\ v < Chart!FromLocal(s * d + s)
      BY <1>0, <1>1, <1>2, <1>3, <1>4 DEF NextAt
    <3> QED BY <3>1, FirstAtHour
  <2> HIDE DEF s
  <2>3. Chart!Local(v) - (Chart!Local(v) % s) = s * d
    <3> DEFINE l == Chart!Local(v)
    <3>1. l \in Int /\ s * d <= l /\ l < s * d + s
      BY <1>1, <1>2, <2>1, <2>2
    <3> HIDE DEF l
    <3>2. l - (l % s) = s * d
      BY <1>0, <3>1, OneFloor
    <3> QED BY <3>2 DEF l
  <2> QED BY <1>1, <2>3 DEF Chart!BucketKey, Chart!Floor, s
<1> QED BY <1>3, <1>4

(* The key of the next bucket follows, except that the hour the clock      *)
(* skips has no bar.                                                       *)
LEMMA NextKey ==
  ASSUME Chart!ChartConstants, NEW u \in Int, NEW g \in Chart!Granularity,
         NEW k, k = Chart!BucketKey(u, g)
  PROVE  LET next == Chart!BucketKey(NextAt(k, g), g) IN
         /\ next \in Int /\ k \in Int /\ k < next
         /\ next = k + Size[g] \/ (next = k + 2 /\ g = "hour" /\ k + 1 = Spring)
<1> DEFINE s == Size[g]
           c == NextAt(k, g)
           l == Chart!Local(c)
<1>0. s \in Nat \ {0} /\ (s = 1 => g = "hour")
  BY DEF Chart!ChartConstants
<1>1. PICK d \in Int : k = s * d
  BY KeyIs
<1>2. k \in Int /\ s * (d + 1) = k + s /\ d + 1 \in Int
  BY <1>0, <1>1
<1>3. c \in Int /\ (l = k + s \/ (k + s = Spring /\ l = k + s + 1))
  <2>1. k + s \in Int /\ c = Chart!FromLocal(k + s)
    BY <1>0, <1>2 DEF NextAt
  <2> QED BY <2>1, FromLocalType, FirstAtHour
<1>4. Chart!BucketKey(c, g) = l - (l % s)
  BY DEF Chart!BucketKey, Chart!Floor
<1> HIDE DEF s, l
<1>5. CASE l < k + s + s
  <2>1. l - (l % s) = s * (d + 1)
    <3>1. l \in Int /\ s * (d + 1) <= l /\ l < s * (d + 1) + s
      BY <1>0, <1>2, <1>3, <1>5
    <3> QED BY <1>0, <1>2, <3>1, OneFloor
  <2> QED BY <1>0, <1>2, <1>4, <2>1 DEF s
<1>6. CASE ~(l < k + s + s)
  <2>1. s = 1 /\ k + 1 = Spring /\ l = k + 2 /\ g = "hour"
    BY <1>0, <1>2, <1>3, <1>6
  <2>2. l % 1 = 0
    BY <1>2, <2>1
  <2> QED BY <1>2, <1>4, <2>1, <2>2
<1> QED BY <1>5, <1>6

-----------------------------------------------------------------------------
(* The bars of a series whose loop has come to cursor c: they begin with   *)
(* the bucket of the start, each is followed by the next, none begins      *)
(* after now, and no instant between the start and the cursor is without   *)
(* its bar.                                                                *)
Chain(start, g, last, ks, c) ==
  /\ ks \in Seq(Int) /\ start \in Int /\ c \in Int
  /\ c = IF ks = <<>> THEN start ELSE NextAt(ks[Len(ks)], g)
  /\ ks # <<>> => ks[1] = Chart!BucketKey(start, g) /\ start <= last
  /\ \A n \in 1..(Len(ks) - 1) :
       ks[n + 1] = Chart!BucketKey(NextAt(ks[n], g), g) /\ NextAt(ks[n], g) <= last
  /\ \A n \in 1..Len(ks) : \E u \in Int : ks[n] = Chart!BucketKey(u, g)
  /\ \A n \in 1..Len(ks) : ks[n] < Chart!BucketKey(c, g)
  /\ \A u \in Int : start <= u /\ u < c =>
       \E n \in 1..Len(ks) : ks[n] = Chart!BucketKey(u, g)

(* A chain may be a single key, or one key longer than another.            *)
LEMMA ChainBegins ==
  ASSUME NEW start \in Int, NEW g \in Chart!Granularity, NEW last \in Int
  PROVE  Chain(start, g, last, <<>>, start)
  BY DEF Chain

LEMMA ChainGrows ==
  ASSUME Chart!ChartConstants, NEW start, NEW g \in Chart!Granularity, NEW last \in Int,
         NEW ks, NEW c, Chain(start, g, last, ks, c), c <= last
  PROVE  Chain(start, g, last, Chart!Inserted(ks, Chart!BucketKey(c, g)), Chart!Advance(c, g))
<1> DEFINE k == Chart!BucketKey(c, g)
           more == Append(ks, k)
           after == Chart!Advance(c, g)
<1>1. /\ ks \in Seq(Int) /\ Len(ks) \in Nat /\ start \in Int /\ c \in Int
      /\ \A n \in 1..Len(ks) : ks[n] \in Int /\ ks[n] < k
      /\ (ks = <<>> <=> Len(ks) = 0)
  BY DEF Chain
<1>2. /\ after = NextAt(k, g) /\ after \in Int /\ after > c
      /\ \A v \in Int : c <= v /\ v < after => Chart!BucketKey(v, g) = k
  BY <1>1, AdvanceIsNext, AdvanceIncreases
<1>3. k \in Int /\ k < Chart!BucketKey(after, g)
  BY <1>1, <1>2, NextKey
<1>4. Chart!Inserted(ks, k) = more
  <2>1. DOMAIN ks = 1..Len(ks)
    BY <1>1
  <2> HIDE DEF k
  <2>2. ~\E n \in DOMAIN ks : ks[n] = k
    BY <1>1, <1>3, <2>1
  <2> QED BY <2>2 DEF Chart!Inserted
<1>5. c = IF ks = <<>> THEN start ELSE NextAt(ks[Len(ks)], g)
  BY DEF Chain
<1> HIDE DEF k, after
<1>6. /\ more \in Seq(Int) /\ more # <<>> /\ Len(more) = Len(ks) + 1
      /\ more[Len(ks) + 1] = k /\ \A n \in 1..Len(ks) : more[n] = ks[n]
  BY <1>1, <1>3
<1> HIDE DEF more
<1>7. more[1] = Chart!BucketKey(start, g) /\ start <= last
  <2>1. CASE ks = <<>>
    <3>1. c = start /\ more[1] = k
      BY <1>1, <1>5, <1>6, <2>1
    <3> QED BY <3>1 DEF k
  <2>2. CASE ks # <<>>
    <3>1. 1 \in 1..Len(ks)
      BY <1>1, <2>2
    <3> QED BY <1>6, <2>2, <3>1 DEF Chain
  <2> QED BY <2>1, <2>2
<1>8. ASSUME NEW n \in 1..(Len(more) - 1)
      PROVE  more[n + 1] = Chart!BucketKey(NextAt(more[n], g), g) /\ NextAt(more[n], g) <= last
  <2>1. n \in 1..Len(ks) /\ more[n] = ks[n]
    BY <1>1, <1>6, <1>8
  <2>2. CASE n = Len(ks)
    <3>1. ks # <<>> /\ more[n + 1] = k /\ NextAt(more[n], g) = c
      BY <1>1, <1>5, <1>6, <2>1, <2>2
    <3> QED BY <3>1 DEF k
  <2>3. CASE n # Len(ks)
    <3>1. n \in 1..(Len(ks) - 1) /\ n + 1 \in 1..Len(ks)
      BY <1>1, <2>1, <2>3
    <3>2. ks[n + 1] = Chart!BucketKey(NextAt(ks[n], g), g) /\ NextAt(ks[n], g) <= last
      BY <3>1 DEF Chain
    <3>3. more[n + 1] = ks[n + 1]
      BY <1>6, <3>1
    <3> QED BY <2>1, <3>2, <3>3
  <2> QED BY <2>2, <2>3
<1>9. ASSUME NEW n \in 1..Len(more)
      PROVE  (\E u \in Int : more[n] = Chart!BucketKey(u, g)) /\ more[n] < Chart!BucketKey(after, g)
  <2>1. CASE n = Len(ks) + 1
    BY <1>1, <1>3, <1>6, <2>1 DEF k
  <2>2. CASE n # Len(ks) + 1
    <3>1. n \in 1..Len(ks) /\ more[n] = ks[n] /\ ks[n] \in Int /\ ks[n] < k
      BY <1>1, <1>6, <1>9, <2>2
    <3>2. \E u \in Int : ks[n] = Chart!BucketKey(u, g)
      BY <3>1 DEF Chain
    <3>3. Chart!BucketKey(after, g) \in Int
      BY <1>1, <1>2, KeyType
    <3> QED BY <1>3, <3>1, <3>2, <3>3
  <2> QED BY <2>1, <2>2
<1>10. ASSUME NEW u \in Int, start <= u, u < after
       PROVE  \E n \in 1..Len(more) : more[n] = Chart!BucketKey(u, g)
  <2>1. CASE u < c
    <3>1. PICK n \in 1..Len(ks) : ks[n] = Chart!BucketKey(u, g)
      BY <1>10, <2>1 DEF Chain
    <3>2. n \in 1..Len(more) /\ more[n] = Chart!BucketKey(u, g)
      BY <1>1, <1>6, <3>1, SMTT(30)
    <3> QED BY <3>2
  <2>2. CASE c <= u
    <3>1. Chart!BucketKey(u, g) = k
      BY <1>2, <1>10, <2>2
    <3>2. Len(ks) + 1 \in 1..Len(more)
      BY <1>1, <1>6
    <3> QED BY <1>6, <3>1, <3>2
  <2> QED BY <1>1, <2>1, <2>2
<1>11. after = NextAt(more[Len(more)], g)
  BY <1>2, <1>6
<1>12. Chain(start, g, last, more, after)
  BY <1>1, <1>2, <1>6, <1>7, <1>8, <1>9, <1>10, <1>11 DEF Chain
<1> QED BY <1>4, <1>12 DEF k, after

(* Two loops from one start that are both past now have made the same      *)
(* bars: at the first place at which they differ, either one has stopped   *)
(* too early or both have made the next bucket of the same bucket.         *)
LEMMA ChainsAgree ==
  ASSUME NEW start, NEW g, NEW last \in Int, NEW a, NEW b, NEW c, NEW d,
         Chain(start, g, last, a, c), c > last, Chain(start, g, last, b, d), d > last
  PROVE  a = b
<1>1. /\ a \in Seq(Int) /\ Len(a) \in Nat /\ (a = <<>> <=> Len(a) = 0) /\ start \in Int
      /\ b \in Seq(Int) /\ Len(b) \in Nat /\ (b = <<>> <=> Len(b) = 0)
      /\ c \in Int /\ d \in Int
  BY DEF Chain
<1> DEFINE T == {n \in 1..Len(a) : n \notin 1..Len(b) \/ a[n] # b[n]}
<1>2. T = {}
  <2> SUFFICES ASSUME T # {} PROVE FALSE
    OBVIOUS
  <2>1. PICK m \in T : \A j \in T : m <= j
    <3>1. T \in SUBSET Nat /\ T # {}
      BY <1>1
    <3> HIDE DEF T
    <3> QED BY <3>1, LeastOf
  <2>2. CASE m = 1
    <3>1. a # <<>> /\ 1 \in 1..Len(a)
      BY <1>1, <2>1, <2>2
    <3>2. a[1] = Chart!BucketKey(start, g) /\ start <= last
      BY <3>1 DEF Chain
    <3>3. b # <<>>
      BY <1>1, <3>2 DEF Chain
    <3>4. b[1] = a[1] /\ 1 \in 1..Len(b)
      BY <1>1, <3>2, <3>3 DEF Chain
    <3> QED BY <2>1, <2>2, <3>4
  <2>3. CASE m # 1
    <3>0. m \in 1..Len(a)
      BY <2>1
    <3>1. m - 1 \in 1..(Len(a) - 1) /\ m - 1 \in 1..Len(a) /\ m - 1 \notin T
      <4>1. m - 1 \in 1..(Len(a) - 1) /\ m - 1 \in 1..Len(a) /\ ~(m <= m - 1)
        BY <1>1, <2>3, <3>0
      <4> HIDE DEF T
      <4> QED BY <2>1, <4>1
    <3>2. m - 1 \in 1..Len(b) /\ b[m - 1] = a[m - 1]
      BY <3>1
    <3>3. a[m] = Chart!BucketKey(NextAt(a[m - 1], g), g) /\ NextAt(a[m - 1], g) <= last
      <4>1. m = (m - 1) + 1
        BY <1>1, <2>1
      <4> QED BY <3>1, <4>1 DEF Chain
    <3>4. m - 1 # Len(b)
      <4> SUFFICES ASSUME m - 1 = Len(b) PROVE FALSE
        OBVIOUS
      <4>1. b # <<>>
        BY <1>1, <3>2
      <4>2. d = NextAt(b[Len(b)], g)
        BY <4>1 DEF Chain
      <4>3. d = NextAt(a[m - 1], g)
        BY <3>2, <4>2
      <4> QED BY <1>1, <3>3, <4>3
    <3>5. m - 1 \in 1..(Len(b) - 1) /\ m \in 1..Len(b)
      BY <1>1, <2>1, <3>2, <3>4, SMTT(30)
    <3>6. b[m] = Chart!BucketKey(NextAt(b[m - 1], g), g)
      <4>1. m = (m - 1) + 1
        BY <1>1, <2>1
      <4> QED BY <3>5, <4>1 DEF Chain
    <3> QED BY <2>1, <3>2, <3>3, <3>5, <3>6
  <2> QED BY <2>2, <2>3
<1>3. \A n \in 1..Len(a) : n \in 1..Len(b) /\ a[n] = b[n]
  BY <1>2
<1>4. Len(a) <= Len(b)
  <2>1. Len(a) > 0 => Len(a) \in 1..Len(b)
    BY <1>1, <1>3
  <2> QED BY <1>1, <2>1
<1>5. Len(a) = Len(b)
  <2> SUFFICES ASSUME Len(a) < Len(b) PROVE FALSE
    BY <1>1, <1>4
  <2>1. CASE Len(a) = 0
    <3>1. c = start /\ start <= last
      BY <1>1, <2>1 DEF Chain
    <3> QED BY <1>1, <3>1
  <2>2. CASE Len(a) # 0
    <3>1. c = NextAt(a[Len(a)], g)
      BY <1>1, <2>2 DEF Chain
    <3>2. Len(a) \in 1..(Len(b) - 1) /\ Len(a) \in 1..Len(a)
      BY <1>1, <2>2
    <3>3. NextAt(b[Len(a)], g) <= last
      BY <3>2 DEF Chain
    <3>4. b[Len(a)] = a[Len(a)]
      BY <1>3, <3>2
    <3>5. c <= last
      BY <3>1, <3>3, <3>4
    <3> QED BY <1>1, <3>5
  <2> QED BY <2>1, <2>2
<1>6. a = [n \in 1..Len(a) |-> a[n]] /\ b = [n \in 1..Len(b) |-> b[n]]
  BY <1>1
<1> QED BY <1>3, <1>5, <1>6, Zenon
-----------------------------------------------------------------------------
Start == Chart!ChartStart("claims")

(* The bars of a series that is done.                                      *)
Whole(ks) == \E c \in Int : c > now /\ Chain(Start, granularity, now, ks, c)

(* Both series are filled from the same start, one after the other.        *)
FillInv ==
  /\ pc \in {"idle", "fill", "drawn"} /\ series \in Chart!Series
  /\ keys = [s \in Chart!Series |-> keys[s]]
  /\ pc = "idle" => keys[series] = <<>>
  /\ pc = "fill" => Chain(Start, granularity, now, keys[series], cursor)
  /\ series = "claims" => keys["errors"] = <<>> /\ pc # "drawn"
  /\ series = "errors" => Whole(keys["claims"])
  /\ pc = "drawn" => Whole(keys["errors"])

(* The series start at the same hour, each at the start of a bucket.       *)
LEMMA StartShared ==
  ASSUME NEW s PROVE Chart!ChartStart(s) = Start
  BY DEF Start, Chart!ChartStart, Chart!SharedEarliest

(* Each turn of the loop adds the next key of the chain.                   *)
LEMMA FillInvStep ==
  ASSUME Chart!ChartConstants, ChartInv, FillInv, [Chart!Next]_(Chart!vars)
  PROVE  FillInv'
<1>1. Start \in Int /\ granularity \in Chart!Granularity /\ now \in Int /\ cursor \in Int
  <2>1. now \in Int /\ granularity \in Chart!Granularity /\ cursor \in Int
    BY DEF ChartInv, Chart!Instant, Chart!ChartConstants
  <2> QED BY <2>1, ChartStartType DEF Start, Chart!Series
<1>2. ASSUME UNCHANGED <<claims, errors, now, window, granularity>>
      PROVE  Start' = Start /\ \A ks : Whole(ks)' <=> Whole(ks)
  <2>1. Start' = Start
    BY <1>2 DEF Start, Chart!ChartStart, Chart!SharedEarliest, Chart!EarliestAt,
                Chart!WindowStart, Chart!AddDays, Chart!StartOfBucket
  <2> QED BY <1>2, <2>1 DEF Whole
<1>3. CASE Chart!BeginSeries
  <2>1. /\ pc = "idle" /\ pc' = "fill" /\ cursor' = Start
        /\ UNCHANGED <<claims, errors, now, window, granularity, series, keys>>
    BY <1>3, StartShared DEF Chart!BeginSeries
  <2>2. Chain(Start, granularity, now, keys[series], cursor')
    BY <1>1, <2>1, ChainBegins DEF FillInv
  <2> QED BY <1>2, <2>1, <2>2 DEF FillInv
<1>4. CASE Chart!FillBucket
  <2> DEFINE more == Chart!Inserted(keys[series], Chart!BucketKey(cursor, granularity))
  <2>1. /\ pc = "fill" /\ cursor <= now /\ pc' = "fill"
        /\ keys' = [keys EXCEPT ![series] = more]
        /\ cursor' = Chart!Advance(cursor, granularity)
        /\ UNCHANGED <<claims, errors, now, window, granularity, series>>
    BY <1>4 DEF Chart!FillBucket
  <2>2. Chain(Start, granularity, now, more, cursor')
    BY <1>1, <2>1, ChainGrows DEF FillInv
  <2> HIDE DEF more
  <2>3. keys' = [s \in Chart!Series |-> keys'[s]] /\ keys'[series] = more
        /\ \A s \in Chart!Series : s # series => keys'[s] = keys[s]
    BY <2>1 DEF FillInv
  <2> QED BY <1>2, <2>1, <2>2, <2>3 DEF FillInv, Chart!Series
<1>5. CASE Chart!EndSeries
  <2>1. /\ pc = "fill" /\ cursor > now
        /\ UNCHANGED <<claims, errors, now, window, granularity, keys>>
    BY <1>5 DEF Chart!EndSeries
  <2>2. Whole(keys[series])
    BY <1>1, <2>1 DEF FillInv, Whole
  <2>3. CASE series = "claims"
    BY <1>2, <1>5, <2>1, <2>2, <2>3 DEF FillInv, Chart!EndSeries, Chart!Series
  <2>4. CASE series = "errors"
    BY <1>2, <1>5, <2>1, <2>2, <2>4 DEF FillInv, Chart!EndSeries, Chart!Series
  <2> QED BY <2>3, <2>4 DEF FillInv, Chart!Series
<1>6. ASSUME NEW w, NEW g, Chart!Rerender(w, g) PROVE FillInv'
  BY <1>6 DEF Chart!Rerender, FillInv, Chart!Series
<1>7. CASE \/ \E w \in Chart!Window : Chart!ChangeWindow(w)
           \/ \E g \in Chart!Granularity : Chart!SetGranularity(g)
  BY <1>6, <1>7 DEF Chart!ChangeWindow, Chart!SetGranularity
<1>8. CASE UNCHANGED Chart!vars
  BY <1>2, <1>8 DEF Chart!vars, FillInv
<1> QED BY <1>3, <1>4, <1>5, <1>7, <1>8 DEF Chart!Next

-----------------------------------------------------------------------------
(* No window starts after its earliest item.                               *)
LEMMA StartNotAfter ==
  ASSUME Chart!ChartConstants, NEW u \in Int, NEW g \in Chart!Granularity
  PROVE  Chart!StartOfBucket(u, g) <= u
<1> DEFINE l == Chart!BucketKey(u, g)
<1>1. l \in Int /\ l <= Chart!Local(u)
  <2>1. PICK d \in Int : /\ Chart!BucketKey(u, g) = Size[g] * d /\ Chart!Local(u) \in Int
                         /\ Size[g] * d <= Chart!Local(u)
    BY KeyIs
  <2> QED BY <2>1, KeyType
<1>2. Chart!StartOfBucket(u, g) = Chart!FromLocal(l)
  BY DEF Chart!StartOfBucket, Chart!BucketKey
<1> HIDE DEF l
<1>3. Chart!FromLocal(l) \in Int /\ (u < Chart!FromLocal(l) => Chart!Local(u) < l)
  BY <1>1, FirstAtHour, FromLocalType
<1>4. Chart!Local(u) \in Int
  BY LocalType
<1> QED BY <1>1, <1>2, <1>3, <1>4

(* With nothing before the start, every event is within the chart.         *)
LEMMA WholeCounts ==
  ASSUME Chart!ChartConstants, ChartInv, NEW ks, Whole(ks),
         NEW i \in Int, i <= now, i >= Start
  PROVE  \E n \in DOMAIN ks : ks[n] = Chart!BucketKey(i, granularity)
<1>1. PICK c \in Int : c > now /\ Chain(Start, granularity, now, ks, c)
  BY DEF Whole
<1>2. now \in Int /\ Start \in Int /\ ks \in Seq(Int)
  BY <1>1 DEF Chain, ChartInv, Chart!Instant, Chart!ChartConstants
<1>3. i < c
  BY <1>1, <1>2
<1>4. DOMAIN ks = 1..Len(ks)
  BY <1>2
<1> QED BY <1>1, <1>3, <1>4 DEF Chain

(* A finished series has a bar for each event it has to count.             *)
LEMMA AllCounted ==
  ASSUME Chart!ChartConstants, ChartInv, FillInv
  PROVE  Chart!BarsCountAll
<1> SUFFICES ASSUME Chart!Drawn, NEW s \in Chart!Series, NEW i \in Chart!Past(s),
                    i >= Chart!ChartStart(s)
             PROVE  \E n \in DOMAIN keys[s] : i \in Chart!Counted(s, keys[s][n])
  BY DEF Chart!BarsCountAll
<1>1. i \in Int /\ i <= now /\ i >= Start /\ i \in Chart!Items(s)
  BY StartShared DEF Chart!Past, Chart!Items, ChartInv, Chart!Instant, Chart!ChartConstants
<1>2. Whole(keys[s])
  BY DEF FillInv, Chart!Drawn, Chart!Series
<1>3. PICK n \in DOMAIN keys[s] : keys[s][n] = Chart!BucketKey(i, granularity)
  BY <1>1, <1>2, WholeCounts
<1> QED BY <1>1, <1>3 DEF Chart!Counted

(* The bars of the two series, and the rows of the table.                  *)
LEMMA AllAgree ==
  ASSUME Chart!ChartConstants, ChartInv, FillInv
  PROVE  Chart!SeriesAgree
<1> SUFFICES ASSUME Chart!Drawn PROVE Chart!SeriesAgree
  BY DEF Chart!SeriesAgree
<1>0. now \in Int /\ granularity \in Chart!Granularity /\ claims \subseteq Nat /\ errors \subseteq Nat
  BY DEF ChartInv, Chart!Instant, Chart!ChartConstants
<1>1. Whole(keys["claims"]) /\ Whole(keys["errors"])
  BY DEF FillInv, Chart!Drawn, Chart!Series
<1>2. keys["claims"] = keys["errors"]
  BY <1>0, <1>1, ChainsAgree DEF Whole
<1> DEFINE ks == keys["claims"]
<1>3. ASSUME NEW n \in 1..(Len(ks) - 1) PROVE Chart!Consecutive(ks[n], ks[n + 1])
  <2>1. PICK c \in Int : Chain(Start, granularity, now, ks, c)
    BY <1>1 DEF Whole
  <2>2. ks \in Seq(Int) /\ Len(ks) \in Nat
    BY <2>1 DEF Chain
  <2>3. n \in 1..Len(ks)
    BY <2>2, <1>3
  <2>4. PICK u \in Int : ks[n] = Chart!BucketKey(u, granularity)
    BY <2>1, <2>3 DEF Chain
  <2>5. ks[n + 1] = Chart!BucketKey(NextAt(ks[n], granularity), granularity)
    BY <1>3, <2>1 DEF Chain
  <2> QED BY <1>0, <2>4, <2>5, NextKey DEF Chart!Consecutive
<1>4. ASSUME claims = Chart!Past("claims"), NEW i \in claims
      PROVE  i \in Chart!ClaimsInWindow(claims) <=>
               \E n \in DOMAIN ks : i \in Chart!Counted("claims", ks[n])
  <2>1. i \in Int /\ i <= now /\ i \in Chart!Items("claims")
    BY <1>0, <1>4 DEF Chart!Past, Chart!Items
  <2>2. i \in Chart!ClaimsInWindow(claims) <=> i >= Start
    <3>1. CASE window = "all"
      <4> DEFINE items == claims \union errors
      <4>1. items \in SUBSET Nat /\ i \in items /\ items # {}
        BY <1>0, <1>4
      <4>2. Start = Chart!StartOfBucket(Chart!Min(items), granularity)
        BY <3>1, <4>1 DEF Start, Chart!ChartStart, Chart!WindowStart, Chart!SharedEarliest, Chart!EarliestAt
      <4> HIDE DEF items
      <4>3. Chart!Min(items) \in Int /\ Chart!Min(items) <= i
        <5>1. Chart!Min(items) \in items /\ \A j \in items : Chart!Min(items) <= j
          BY <4>1, MinOfNaturals
        <5> DEFINE m == Chart!Min(items)
        <5> HIDE DEF m
        <5>2. m \in items /\ \A j \in items : m <= j
          BY <5>1 DEF m
        <5>3. m \in Int /\ m <= i
          BY <4>1, <5>2
        <5> QED BY <5>3 DEF m
      <4>4. Start <= Chart!Min(items) /\ Start \in Int
        BY <1>0, <4>2, <4>3, StartNotAfter, StartOfBucketType
      <4> QED BY <1>4, <2>1, <3>1, <4>3, <4>4 DEF Chart!ClaimsInWindow
    <3>2. CASE window # "all"
      BY <1>4, <3>2 DEF Start, Chart!ChartStart, Chart!WindowStart, Chart!ClaimsInWindow
    <3> QED BY <3>1, <3>2
  <2>3. i >= Start => \E n \in DOMAIN ks : ks[n] = Chart!BucketKey(i, granularity)
    BY <1>1, <2>1, WholeCounts
  <2>4. Chart!ChartStart("claims") = Start
    BY DEF Start
  <2> QED BY <2>1, <2>2, <2>3, <2>4 DEF Chart!Counted
<1>5. claims = Chart!Past("claims") =>
        Chart!ClaimsInWindow(claims) = UNION {Chart!Counted("claims", ks[n]) : n \in DOMAIN ks}
  <2> SUFFICES ASSUME claims = Chart!Past("claims")
               PROVE  Chart!ClaimsInWindow(claims) = UNION {Chart!Counted("claims", ks[n]) : n \in DOMAIN ks}
    OBVIOUS
  <2>1. Chart!ClaimsInWindow(claims) \subseteq claims
    BY DEF Chart!ClaimsInWindow
  <2>2. \A n : Chart!Counted("claims", ks[n]) \subseteq claims
    BY DEF Chart!Counted, Chart!Items
  <2> HIDE DEF ks
  <2>3. \A i \in claims : i \in Chart!ClaimsInWindow(claims) <=>
               \E n \in DOMAIN ks : i \in Chart!Counted("claims", ks[n])
    BY <1>4
  <2> QED BY <2>1, <2>2, <2>3, Zenon
<1> QED BY <1>2, <1>3, <1>5 DEF Chart!SeriesAgree

(* A behaviour of the page drives the chart by the chart's own steps.      *)
LEMMA PageChartStep == [PageNext]_<<vars, chart, driven>> => [Chart!Next]_(Chart!vars)
<1> SUFFICES ASSUME [PageNext]_<<vars, chart, driven>> PROVE [Chart!Next]_(Chart!vars) OBVIOUS
<1>1. Chart!Next \/ UNCHANGED chart BY DEF PageNext
<1> QED BY <1>1 DEF chart, Chart!vars

(* What the chart rests on holds in every reachable state of the page.     *)
PageChartInv == ChartInv /\ FillInv

(* The buckets of the chart, and what its loop has filled, as far as it    *)
(* has come: the inductive invariant of the series.                        *)
THEOREM ChartInvariant == PageSpec => []PageChartInv
<1>1. PageInit => PageChartInv
  <2>1. Chart!DefaultGranularity("30d") \in Chart!Granularity /\ "30d" \in Chart!Window
    BY DEF Chart!Matrix, Chart!DefaultGranularity, Chart!Window, Chart!Granularity
  <2> QED
    BY <2>1 DEF PageInit, Chart!Init, PageChartInv, ChartInv, FillInv, Chart!Series
<1>2. PageChartInv /\ [Chart!Next]_(Chart!vars) => PageChartInv'
  BY ChartInvStep, FillInvStep, PageConstants DEF PageChartInv, FillInv
<1>3. PageChartInv /\ [PageNext]_<<vars, chart, driven>> => PageChartInv'
  BY <1>2, PageChartStep
<1> QED
  BY <1>1, <1>3, PTL DEF PageSpec

(* The loop that fills the chart never stands still: in every reachable    *)
(* state of every calendar a turn moves the cursor on.                     *)
THEOREM FillingAdvances == PageSpec => []LoopAdvances
<1>1. PageChartInv => LoopAdvances
  BY AdvanceIncreases, PageConstants DEF PageChartInv, ChartInv, LoopAdvances, Chart!LoopAdvances
<1> QED
  BY <1>1, ChartInvariant, PTL

(* Every item of the window is in the bar of its own bucket, on every      *)
(* calendar and through both changes of the clock.                         *)
THEOREM ChartCountsAll == PageSpec => []BarsCountAll
<1>1. PageChartInv => BarsCountAll
  BY AllCounted, PageConstants DEF PageChartInv, BarsCountAll
<1> QED
  BY <1>1, ChartInvariant, PTL

(* The two series have the same bars, in order and without a gap, and the  *)
(* table lists the claims that they count.                                 *)
THEOREM ChartSeriesAgree == PageSpec => []SeriesAgree
<1>1. PageChartInv => SeriesAgree
  BY AllAgree, PageConstants DEF PageChartInv, SeriesAgree
<1> QED
  BY <1>1, ChartInvariant, PTL

(* The worker card is as safe on the page as on its own.                   *)
THEOREM PageKeepsCard == PageSpec => [](RereadIsTrue /\ IntentKept)
<1>1. PageInit => CardInv
  BY CardInvInit, DashboardConstants DEF PageInit
<1>2. [PageNext]_<<vars, chart, driven>> => [Next]_vars
  <2> SUFFICES ASSUME [PageNext]_<<vars, chart, driven>> PROVE [Next]_vars OBVIOUS
  <2>1. Next \/ UNCHANGED vars BY DEF PageNext
  <2> QED BY <2>1
<1>3. CardInv /\ [PageNext]_<<vars, chart, driven>> => CardInv'
  BY <1>2, CardInvStep, DashboardConstants
<1>4. CardInv => RereadIsTrue /\ IntentKept
  BY CardInvRereads, CardInvIntent
<1> QED
  BY <1>1, <1>3, <1>4, PTL DEF PageSpec
=============================================================================
