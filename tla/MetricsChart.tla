---------------------------- MODULE MetricsChart ----------------------------
(***************************************************************************)
(* The chart and the table of the dashboard's metrics panel:               *)
(* frontend/src/metrics.ts, the windows, granularities and buckets, and    *)
(* the selects of frontend/src/MetricsPanel.tsx.                           *)
(*                                                                         *)
(* An instant is a whole hour.  The operator's clock is one hour ahead     *)
(* from Spring to Fall, so that one local hour never exists and one comes  *)
(* twice.  `new Date(y, m, d, h)` is FromLocal; a bucket's key is the      *)
(* local hour at which the bucket begins.  The calendar is scaled down.    *)
(***************************************************************************)
EXTENDS Integers, Sequences, FiniteSets, FiniteSetsExt

CONSTANTS
  MaxTime,       \* bound: instants are 0..MaxTime
  Spring, Fall,  \* the two changes of the operator's clock
  Size,          \* hours of a bucket of each granularity
  WindowDays     \* WINDOW_DAYS

Granularity == {"hour", "day", "week", "month"}
Window      == {"1d", "7d", "30d", "90d", "1y", "all"}
Instant     == 0..MaxTime

ChartConstants ==
  /\ MaxTime \in Nat /\ Spring \in Nat /\ Fall \in Nat /\ Spring < Fall
  /\ Size \in [Granularity -> Nat \ {0}] /\ Size["hour"] = 1
  /\ \A g \in Granularity \ {"hour"} : Size[g] > 1
  /\ WindowDays \in [Window \ {"all"} -> Nat \ {0}]

VARIABLES
  claims, errors,        \* the answer of /api/metrics: instants of claims, of error runs
  now,                   \* the clock of this rendering
  window, granularity,   \* the two selects
  pc,                    \* "idle", "fill" or "drawn"
  series,                \* the series whose buckets are being made
  cursor,
  keys                   \* the keys of each series, in insertion order

vars == <<claims, errors, now, window, granularity, pc, series, cursor, keys>>
Series == {"claims", "errors"}

TypeOK ==
  /\ claims \subseteq Instant /\ errors \subseteq Instant /\ now \in Instant
  /\ window \in Window /\ granularity \in Granularity
  /\ pc \in {"idle", "fill", "drawn"} /\ series \in Series
  /\ cursor \in Int /\ cursor <= MaxTime + Size["month"]
  /\ \A s \in Series : keys[s] \in Seq(Int)
-----------------------------------------------------------------------------
Local(u) == IF Spring <= u /\ u < Fall THEN u + 1 ELSE u

(* The Date constructor on local fields: the first of two such instants;   *)
(* for an hour that does not exist, the offset before the change.          *)
FromLocal(l) ==
  LET us == {u \in {l - 1, l} : Local(u) = l}
  IN  IF us = {} THEN l ELSE Min(us)

(* The local hour at which the bucket of a local hour begins.              *)
Floor(l, g) == l - (l % Size[g])

StartOfBucket(u, g) == FromLocal(Floor(Local(u), g))
BucketKey(u, g)     == Floor(Local(u), g)

(* Faulty: a bucket is a fixed number of milliseconds.                     *)
AdvanceByMillis(u, g) == u + Size[g]

(* Faulty: the next bucket is where the clock is that much later.          *)
AdvanceByClock(u, g) == StartOfBucket(u + Size[g], g)

(* addHours, addDays or the first of the next month, on local fields.      *)
Advance(u, g) == FromLocal(Local(u) + Size[g] - (Local(u) % Size[g]))

AddDays(u, days) == FromLocal(Floor(Local(u), "day") + days * Size["day"])

(* The bucket-aligned start of the window.                                 *)
WindowStart(w, g, earliest) ==
  IF w = "all" THEN StartOfBucket(earliest, g)
  ELSE IF g = "hour"
       THEN FromLocal(Local(StartOfBucket(now, "hour")) - (WindowDays[w] * Size["day"] - 1))
       ELSE StartOfBucket(AddDays(StartOfBucket(now, "day"), -(WindowDays[w] - 1)), g)

EarliestAt(items) == IF items = {} THEN now ELSE Min(items)

Items(s) == IF s = "claims" THEN claims ELSE errors

(* One timeline for both series.                                           *)
SharedEarliest(s) == EarliestAt(claims \union errors)

ChartStart(s) == WindowStart(window, granularity, SharedEarliest(s))

(* Faulty: the table's window is not aligned to buckets.                   *)
ClaimsInWindowExact(items) ==
  IF window = "all" THEN items
  ELSE {i \in items : i > now - WindowDays[window] * Size["day"]}

(* claimsInWindow: the rows of the table.                                  *)
ClaimsInWindow(items) ==
  IF window = "all" THEN items
  ELSE {i \in items : i >= WindowStart(window, granularity, now)}

(* The weighing at the end of buildBuckets: the items of a bucket.         *)
Counted(s, k) ==
  {i \in Items(s) : /\ BucketKey(i, granularity) = k
                    /\ i >= ChartStart(s)
                    /\ \E n \in DOMAIN keys[s] : keys[s][n] = k}

(* GRANULARITY_MATRIX; the first entry is the window's default.            *)
Matrix(w) ==
  CASE w = "1d" -> <<"hour">>          [] w = "7d" -> <<"hour", "day">>
    [] w \in {"30d", "90d"} -> <<"day", "week">>
    [] w = "1y" -> <<"week", "month">> [] w = "all" -> <<"month">>

DefaultGranularity(w) == Matrix(w)[1]
-----------------------------------------------------------------------------
Init ==
  /\ claims \in {{}} \union {{i} : i \in Instant}
  /\ errors \in {{}} \union {{i} : i \in Instant}
  /\ now \in Instant
  /\ window = "30d" /\ granularity = DefaultGranularity("30d")
  /\ pc = "idle" /\ series = "claims" /\ cursor = 0
  /\ keys = [s \in Series |-> <<>>]

Snap(w) == DefaultGranularity(w)

Rerender(w, g) ==
  /\ pc \in {"idle", "drawn"}
  /\ window' = w /\ granularity' = g
  /\ pc' = "idle" /\ series' = "claims" /\ cursor' = 0
  /\ keys' = [s \in Series |-> <<>>]
  /\ UNCHANGED <<claims, errors, now>>

ChangeWindow(w) == w # window /\ Rerender(w, Snap(w))

(* The granularity select offers the entries of the window.                *)
SetGranularity(g) ==
  /\ g # granularity
  /\ \E n \in DOMAIN Matrix(window) : Matrix(window)[n] = g
  /\ Rerender(window, g)

(* buildBuckets for a series: zero-fill from the start of the window.      *)
BeginSeries ==
  /\ pc = "idle"
  /\ pc' = "fill"
  /\ cursor' = ChartStart(series)
  /\ UNCHANGED <<claims, errors, now, window, granularity, series, keys>>

(* A Map keeps the first insertion of a key.                               *)
Inserted(ks, k) == IF \E n \in DOMAIN ks : ks[n] = k THEN ks ELSE Append(ks, k)

FillBucket ==
  /\ pc = "fill" /\ cursor <= now
  /\ keys' = [keys EXCEPT ![series] = Inserted(@, BucketKey(cursor, granularity))]
  /\ cursor' = Advance(cursor, granularity)
  /\ UNCHANGED <<claims, errors, now, window, granularity, pc, series>>

EndSeries ==
  /\ pc = "fill" /\ cursor > now
  /\ IF series = "claims" THEN pc' = "idle" /\ series' = "errors"
                          ELSE pc' = "drawn" /\ UNCHANGED series
  /\ UNCHANGED <<claims, errors, now, window, granularity, cursor, keys>>

Next ==
  \/ BeginSeries \/ FillBucket \/ EndSeries
  \/ \E w \in Window : ChangeWindow(w)
  \/ \E g \in Granularity : SetGranularity(g)

Spec == Init /\ [][Next]_vars
-----------------------------------------------------------------------------
Drawn == pc = "drawn"
Past(s) == {i \in Items(s) : i <= now}

(* Every item of the window, up to now, is in exactly one bar, that of its *)
(* own bucket, across both changes of the clock.                           *)
BarsCountAll ==
  Drawn => \A s \in Series :
    \A i \in Past(s) :
      i >= ChartStart(s) => \E n \in DOMAIN keys[s] : i \in Counted(s, keys[s][n])

(* "keeps the window's bucket arrays index-aligned" and "DST-safe": the    *)
(* two series of the chart have the same bars, in the order of time and    *)
(* with none missing, except the hour that does not exist; and the table   *)
(* lists as many claims as the bars add up to, when no claim is dated      *)
(* after the operator's clock.                                             *)
Consecutive(k, next) ==
  \/ next = k + Size[granularity]
  \/ next = k + 2 /\ granularity = "hour" /\ k + 1 = Spring

SeriesAgree ==
  Drawn =>
    /\ keys["claims"] = keys["errors"]
    /\ \A n \in 1..(Len(keys["claims"]) - 1) : Consecutive(keys["claims"][n], keys["claims"][n + 1])
    /\ claims = Past("claims") =>
         ClaimsInWindow(claims) =
           UNION {Counted("claims", keys["claims"][n]) : n \in DOMAIN keys["claims"]}

(* The zero-fill loop ends: each turn moves the cursor on, also on the day *)
(* an hour comes twice.                                                    *)
LoopAdvances == pc = "fill" /\ cursor <= now => Advance(cursor, granularity) > cursor
=============================================================================
