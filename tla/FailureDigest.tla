--------------------------- MODULE FailureDigest -----------------------------
(***************************************************************************)
(* backend/scripts/failure_digest.py: the nightly report, from the rows of *)
(* the failure query and the number of wake lines in the same window.      *)
(*                                                                         *)
(* Texts are lengths.  A row has an id, its itemType, its severityLevel    *)
(* (NoSeverity for a null), its message and the length of its details; a   *)
(* message has the text that normalize_message keeps and the volatile part *)
(* that it collapses.                                                      *)
(***************************************************************************)
EXTENDS Integers, Sequences, FiniteSets, FiniteSetsExt, SequencesExt

CONSTANTS
  BodyLimit,    \* BODY_LIMIT
  TopGroups,    \* TOP_GROUPS
  DetailsCaps,  \* the caps on details, the first of them no cap at all
  MessageCap,   \* MESSAGE_CAP
  MessageLength \* the length of each normalized message

Mark       == 1   \* the length of TRUNCATION_MARK
Heading    == 3   \* of a group's lines without its message and details
Banner     == 4   \* of the warning that no heartbeat was seen
TailLine   == 3   \* of the line that counts the missing groups
Blank      == 2   \* of the blank line between two parts
NoSeverity == -1

(* The longest that the body gets with no group in it.                     *)
ASSUME DigestConstants ==
  /\ TopGroups \in Nat \ {0} /\ MessageCap \in Nat
  /\ DetailsCaps \in Seq(Nat) /\ Len(DetailsCaps) > 0
  /\ BodyLimit \in Nat /\ Banner + Blank + TailLine <= BodyLimit
-----------------------------------------------------------------------------
(* normalize_message.                                                      *)
Normalized(row) == row.message.text

(* _sort_severity: a null outranks the warnings.                           *)
SortSeverity(row) == IF row.severity = NoSeverity THEN 3 ELSE row.severity

Key(row) == [item |-> row.item, severity |-> SortSeverity(row), text |-> Normalized(row)]

(* _group: one group per key, with its count and its richest details.      *)
Group(rows, key) ==
  LET members == {r \in rows : Key(r) = key} IN
  [key |-> key, count |-> Cardinality(members),
   details |-> Max({r.details : r \in members})]

Groups(rows) == {Group(rows, k) : k \in {Key(r) : r \in rows}}

(* Most severe first, then most frequent; the query leaves the order of    *)
(* the rows open, and with it the order of groups that tie.                *)
Outranks(g, h) ==
  \/ g.key.severity > h.key.severity
  \/ g.key.severity = h.key.severity /\ g.count > h.count

Ranked(rows) ==
  CHOOSE s \in SetToSeqs(Groups(rows)) :
    \A i, j \in DOMAIN s : i < j => ~Outranks(s[j], s[i])
-----------------------------------------------------------------------------
Capped(length, cap) == IF length > cap THEN cap + Mark ELSE length

(* _render_group.                                                          *)
GroupLength(g, cap) ==
  Heading + Capped(MessageLength[g.key.text], MessageCap) + Capped(g.details, cap)

(* The body with the first `keep` groups: its parts, joined.               *)
BodyLength(ranked, keep, cap, silent) ==
  LET extra == (IF silent THEN {Banner} ELSE {}) \union
               (IF keep < Len(ranked) THEN {TailLine} ELSE {})
      parts == keep + Cardinality(extra)
  IN  MapThenSumSet(LAMBDA i : GroupLength(ranked[i], cap), 1..keep)
      + SumSet(extra) + Blank * (IF parts = 0 THEN 0 ELSE parts - 1)

(* _render_body tries the caps on the top groups, then fewer groups.       *)
Attempts(groups) ==
  LET shown == Min({TopGroups, groups})
      caps  == Len(DetailsCaps)
  IN  [i \in 1..(caps + shown) |->
         IF i <= caps THEN [keep |-> shown, cap |-> DetailsCaps[i]]
         ELSE [keep |-> shown - (i - caps), cap |-> DetailsCaps[caps]]]

(* Faulty: the groups beyond the top ones are not counted as missing.      *)
MissingOfShown(ranked, keep) == Min({TopGroups, Len(ranked)}) - keep

(* The number of groups that the tail line gives.                          *)
Missing(ranked, keep) == Len(ranked) - keep

RenderBody(ranked, silent) ==
  LET tries == Attempts(Len(ranked))
      Fits(t) == BodyLength(ranked, t.keep, t.cap, silent) <= BodyLimit
      taken == tries[SelectInSeq(tries, Fits)]
  IN  [shown |-> SubSeq(ranked, 1, taken.keep),
       missing |-> Missing(ranked, taken.keep),
       length |-> BodyLength(ranked, taken.keep, taken.cap, silent)]

NoBody == [shown |-> <<>>, missing |-> 0, length |-> 0]

(* build_result, of two query results of the expected shape.               *)
BuildResult(rows, heartbeats) ==
  IF rows # {} THEN [action |-> "digest", body |-> RenderBody(Ranked(rows), heartbeats = 0)]
  ELSE [action |-> IF heartbeats = 0 THEN "telemetry_silent" ELSE "none", body |-> NoBody]
=============================================================================
