----------------------------- MODULE MCDashboard -----------------------------
(* The dashboard page: the worker card and the metrics panel.  They share  *)
(* no state and no request, so a behaviour drives one of the two cards.    *)
(* Three clicks on the worker card are enough for a run whose re-read is   *)
(* in flight, a toggle under it and one more action.  The chart has days   *)
(* of four hours, weeks of two days and months of three; both changes   *)
(* of the clock fall inside the days looked at.                            *)
EXTENDS Dashboard, TLC

CONSTANTS MaxTime, Spring, Fall, Size, WindowDays

VARIABLES claims, errors, now, window, granularity, pc, series, cursor, keys, driven

Chart == INSTANCE MetricsChart

MCSize == [hour |-> 1] @@ [day |-> 4] @@ [week |-> 8] @@ [month |-> 12]
MCDays == ("1d" :> 1) @@ ("7d" :> 2) @@ ("30d" :> 3) @@ ("90d" :> 4) @@ ("1y" :> 5)

ASSUME PageConstants == Chart!ChartConstants

chart == <<claims, errors, now, window, granularity, pc, series, cursor, keys>>

PageInit ==
  /\ driven \in {"worker", "chart"}
  /\ Init /\ Chart!Init
  /\ driven = "worker" => claims = {} /\ errors = {} /\ now = 0
  /\ driven = "chart" => ~flag

PageNext ==
  /\ UNCHANGED driven
  /\ \/ driven = "worker" /\ Next /\ UNCHANGED chart
     \/ driven = "chart" /\ Chart!Next /\ UNCHANGED vars

PageSpec ==
  /\ PageInit /\ [][PageNext]_<<vars, chart, driven>>
  /\ WF_vars(driven = "worker" /\ Progress /\ UNCHANGED chart)

(* MetricsChart: every claim and error run of the window is in one bar,    *)
(* its own bucket's, across both changes of the operator's clock.          *)
BarsCountAll == Chart!BarsCountAll

(* MetricsChart: the two series of the chart have the same bars, in order  *)
(* and with none missing, and the table lists the claims they count.       *)
SeriesAgree == Chart!SeriesAgree

(* MetricsChart: each turn of the zero-fill loop moves its cursor on, also *)
(* when an hour comes twice, so that drawing ends.                         *)
LoopAdvances == Chart!LoopAdvances
=============================================================================
