--------------------------- MODULE ClaimPipeline ----------------------------
(***************************************************************************)
(* The claim pipeline of backend/pipeline/entry.py: process_mailbox and    *)
(* _process_one, with create_full_card, add_comment and                    *)
(* find_card_by_claim_ref of trello_client.py, the claim ledger of         *)
(* state_store.py and the relabelling of gmail_client.py.                  *)
(*                                                                         *)
(* One run executes at a time (RunLease).  Each call to Gmail, Trello or   *)
(* Table Storage is an action; it succeeds, or is refused and changes      *)
(* nothing, or takes effect although its answer is lost.  The host may be  *)
(* killed between any two of them.                                         *)
(*                                                                         *)
(* What the pipeline reads in an email is given by constants; the text     *)
(* itself is not modelled.                                                 *)
(***************************************************************************)
EXTENDS Integers, FiniteSets

CONSTANTS
  Email, NoEmail,  \* messages whose subject matches build_claim_query
  Ref, NoRef,      \* claim references YYYY/N; NoRef: none parsed
  Card, NoCard,    \* Trello card ids
  Trusted,         \* the emails whose sender_domain is in the allowlist
  Type,            \* what ClaimType.from_subject makes of each email
  RefOf,           \* what parse_claim_ref finds in each subject
  Noticed,         \* the emails whose `observaciones` has some text
  Placed,          \* the emails whose `town` is found: build_card_name needs it
  Findable,        \* the emails in which a model may find what has no pattern
  Date,            \* internalDate: when Gmail received the message
  PageMax,         \* PROBE_MAX_RESULTS
  MayFail,         \* the calls that may fail
  Budget,          \* bound: how often each kind of mishap may happen
  MaxKinds         \* bound: how many kinds of mishap meet in one behaviour

CommentTypes == {"COMUNICACION_A_COLABORADOR", "GESTION_CON_PERITO"}
CardTypes    == {"DECLARACION_SINIESTRO", "DECLARACION_URGENTE", "SOLICITUD_ASISTENCIA_BRICO",
                 "SOLICITUD_ASISTENCIA_ENVIO_PROFESIONALES",
                 "SOLICITUD_ASISTENCIA_ELECTRICIDAD_EMERGENCIA"}
NoType       == "none"   \* no claim marker, or an asistencia without a service

(* The calls inside the per-email boundary of process_mailbox, and those   *)
(* outside it, whose failure fails the run.                                *)
MailCalls == {"parse", "search", "archive", "comment", "dedup", "build", "create",
              "attach", "describe", "undo", "record"}
RunCalls  == {"list", "fetch", "processed", "failed"}

(* The two of them that come after the card exists and that nothing makes  *)
(* up for: the compensating delete and the ledger write.                   *)
LastCalls == {"undo", "record"}

(* A call fails inside the per-email boundary ("mail", or "last" for the   *)
(* LastCalls) or outside it ("run"), the host kills the process, a run     *)
(* meets RUN_DEADLINE_S, the operator marks a failed email unread again,   *)
(* the operator archives or restores a card.                               *)
Mishap == {"mail", "last", "run", "kill", "deadline", "requeue", "move"}

ASSUME PipelineConstants ==
  /\ NoEmail \notin Email /\ NoRef \notin Ref /\ NoCard \notin Card
  /\ Trusted \subseteq Email /\ Noticed \subseteq Email /\ Placed \subseteq Email
  /\ Findable \subseteq Email
  /\ Type \in [Email -> CommentTypes \union CardTypes \union {NoType}]
  /\ RefOf \in [Email -> Ref \union {NoRef}]
  /\ Date \in [Email -> Nat]
  /\ PageMax \in Nat \ {0}
  /\ MayFail \subseteq MailCalls \union RunCalls
  /\ Budget \in [Mishap -> Nat]
  /\ MaxKinds \in Nat

VARIABLES
  labels,      \* Gmail: the labels of each message; {} before it arrives
  board,       \* Trello: the cards
  posted,      \* Trello: <<e, c>> when e's comment was posted on card c
  ledger,      \* Table Storage: the card recorded for each claim
  pc,          \* the call the run makes next; "idle" between runs
  listed,      \* message_ids of the run
  fetched,     \* messages fetched so far
  done,        \* messages this run has relabelled
  email,       \* the message in hand
  card,        \* the card in hand
  late,        \* monotonic() > deadline
  spent        \* how often each mishap has happened

service == <<labels, board, posted, ledger>>
progress == <<listed, fetched, done, late>>
vars == <<labels, board, posted, ledger, pc, listed, fetched, done, email, card, late, spent>>

Parts     == {"pdf", "comment"}
Blank     == [ref |-> NoRef, has |-> {}, state |-> "none"]
Exists(c) == board[c].state \in {"open", "archived"}
Full(c)   == board[c].has = Parts

TypeOK ==
  /\ labels \in [Email -> SUBSET {"UNREAD", "procesado", "failed"}]
  /\ board \in [Card -> [ref : Ref \union {NoRef}, has : SUBSET Parts,
                         state : {"none", "open", "archived", "deleted"}]]
  /\ posted \subseteq Email \X Card
  /\ ledger \in [Ref -> Card \union {NoCard}]
  /\ pc \in {"idle", "loop", "gauge"} \union MailCalls \union RunCalls
  /\ listed \subseteq Email /\ fetched \subseteq listed /\ done \subseteq fetched
  /\ email \in Email \union {NoEmail}
  /\ card \in Card \union {NoCard}
  /\ late \in BOOLEAN
  /\ spent \in [Mishap -> Nat]
  /\ \A m \in Mishap : spent[m] <= Budget[m]

(* A fresh deployment: no claim email yet, no card of a claim.             *)
Init ==
  /\ labels = [e \in Email |-> {}]
  /\ board = [c \in Card |-> Blank]
  /\ posted = {}
  /\ ledger = [r \in Ref |-> NoCard]
  /\ pc = "idle"
  /\ listed = {} /\ fetched = {} /\ done = {}
  /\ email = NoEmail /\ card = NoCard
  /\ late = FALSE
  /\ spent = [m \in Mishap |-> 0]
-----------------------------------------------------------------------------
(* What the code finds in an email, in the order _process_one asks.        *)
IsComment(e) == Type[e] \in CommentTypes
IsClaim(e)   == Type[e] \in CardTypes
Parsed(e)    == Type[e] # NoType /\ RefOf[e] \in Ref
Refused(e, noticed) ==
  \/ e \notin Trusted
  \/ ~Parsed(e)
  \/ Type[e] = "GESTION_CON_PERITO" /\ ~noticed

(* Whether a field is found: always where the regular expressions find it, *)
(* and elsewhere at the whim of the model, anew at each attempt.           *)
Finds(e, certain) == {(e \in certain), (e \in certain \union Findable)}

(* An email that only a mishap can fail, as far as its text goes.          *)
Good(e) == ~Refused(e, e \in Noticed) /\ (IsClaim(e) => e \in Placed)

Unread == {e \in Email : "UNREAD" \in labels[e]}
Todo   == fetched \ done

(* The bounds on mishaps; an action that needs one spends it.              *)
MayHappen(m) ==
  /\ spent[m] < Budget[m]
  /\ Cardinality({k \in Mishap : spent[k] > 0} \union {m}) <= MaxKinds

Spend(m) ==
  /\ MayHappen(m)
  /\ spent' = [spent EXCEPT ![m] = @ + 1]

(* A call inside the boundary raises: process_mailbox's except clause      *)
(* labels the email failed.                                                *)
MailRaise(call) ==
  /\ call \in MayFail
  /\ Spend(IF call \in LastCalls THEN "last" ELSE "mail")
  /\ pc' = "failed"

(* A call outside it raises: run_pipeline closes its clients and the run   *)
(* is over.                                                                *)
RunRaise(call) == call \in MayFail /\ Spend("run") /\ pc' = "idle"

Goto(label) == pc' = label /\ UNCHANGED spent

(* modify_labels of the message in hand: add one label, remove UNREAD.     *)
Relabelled(label) == [labels EXCEPT ![email] = (@ \ {"UNREAD"}) \union {label}]
-----------------------------------------------------------------------------
(* A wake enters the pipeline with a new deadline.                         *)
StartRun ==
  /\ pc = "idle"
  /\ Goto("list")
  /\ listed' = {} /\ fetched' = {} /\ done' = {} /\ late' = FALSE
  /\ email' = NoEmail /\ card' = NoCard
  /\ UNCHANGED service

(* The label ids are looked up, then one UNREAD page is listed; Gmail      *)
(* documents no order, so a full page is any PageMax of the messages.      *)
Page(p) ==
  /\ p \subseteq Unread
  /\ Cardinality(p) <= PageMax
  /\ p # Unread => Cardinality(p) = PageMax

List ==
  /\ pc = "list"
  /\ \/ Goto("fetch") /\ \E p \in SUBSET Unread : Page(p) /\ listed' = p
     \/ RunRaise("list") /\ UNCHANGED listed
  /\ UNCHANGED <<service, fetched, done, late, email, card>>

(* get_message, unless the deadline has passed.                            *)
Fetch(e) ==
  /\ pc = "fetch" /\ ~late
  /\ e \in listed \ fetched
  /\ \/ Goto("fetch") /\ fetched' = fetched \union {e}
     \/ RunRaise("fetch") /\ UNCHANGED fetched
  /\ UNCHANGED <<service, listed, done, late, email, card>>

(* The fetch loop ends with the page, or at the deadline.                  *)
FetchEnds ==
  /\ pc = "fetch"
  /\ fetched = listed \/ late
  /\ Goto("loop")
  /\ UNCHANGED <<service, progress, email, card>>

(* Faulty: the messages are taken in the order of the listing.             *)
OldestUnsorted(e) == e \in Todo

(* messages.sort(internalDate): the loop takes the oldest that is left.    *)
Oldest(e) == \A f \in Todo : Date[e] <= Date[f]

(* Faulty: only the fetch loop looks at the deadline.                      *)
InTimeUnchecked == TRUE

(* The deadline check between two emails.                                  *)
InTime == ~late

TakeEmail(e) ==
  /\ pc = "loop" /\ InTime
  /\ e \in Todo /\ Oldest(e)
  /\ email' = e
  /\ Goto("parse")
  /\ UNCHANGED <<service, progress, card>>

LoopEnds ==
  /\ pc = "loop"
  /\ Todo = {} \/ ~InTime
  /\ Goto("gauge")
  /\ UNCHANGED <<service, progress, email, card>>

(* _process_one up to its first call: origin, marker, reference, notice.   *)
(* The field extractor works here; ClaimIntake has it in detail.           *)
Route(e, noticed) ==
  IF Refused(e, noticed) THEN "failed" ELSE IF IsComment(e) THEN "search" ELSE "dedup"

Parse ==
  /\ pc = "parse"
  /\ (\E noticed \in Finds(email, Noticed) : Goto(Route(email, noticed))) \/ MailRaise("parse")
  /\ UNCHANGED <<service, progress, email, card>>

(* find_card_by_claim_ref: the lists of the board first, then the archive. *)
Matches(c, state) == board[c].state = state /\ board[c].ref = RefOf[email]

Search ==
  /\ pc = "search"
  /\ \/ /\ \E c \in Card : Matches(c, "open") /\ card' = c
        /\ Goto("comment")
     \/ /\ \A c \in Card : ~Matches(c, "open")
        /\ Goto("archive") /\ UNCHANGED card
     \/ MailRaise("search") /\ UNCHANGED card
  /\ UNCHANGED <<service, progress, email>>

SearchArchive ==
  /\ pc = "archive"
  /\ \/ /\ \E c \in Card : Matches(c, "archived") /\ card' = c
        /\ Goto("comment")
     \/ /\ \A c \in Card : ~Matches(c, "archived")
        /\ Goto("failed") /\ UNCHANGED card
     \/ MailRaise("archive") /\ UNCHANGED card
  /\ UNCHANGED <<service, progress, email>>

(* add_comment: the email's text as a comment on the card found.           *)
AddComment ==
  /\ pc = "comment"
  /\ \/ /\ posted' = posted \union {<<email, card>>}
        /\ Goto("processed") \/ MailRaise("comment")
     \/ MailRaise("comment") /\ UNCHANGED posted
  /\ UNCHANGED <<labels, board, ledger, progress, email, card>>

(* Faulty: every email of a claim is treated as its first.                 *)
RecordedNever == FALSE

(* get_claim: a recorded claim skips Trello.                               *)
Recorded == ledger[RefOf[email]] # NoCard

Dedup ==
  /\ pc = "dedup"
  /\ \/ Recorded /\ Goto("processed")
     \/ ~Recorded /\ Goto("build")
     \/ MailRaise("dedup")
  /\ UNCHANGED <<service, progress, email, card>>

(* The letterhead, the PDF, the card's name, text and comment; a name      *)
(* cannot be built without a town.                                         *)
Build ==
  /\ pc = "build"
  /\ \/ \E placed \in Finds(email, Placed) : Goto(IF placed THEN "create" ELSE "failed")
     \/ MailRaise("build")
  /\ UNCHANGED <<service, progress, email, card>>

(* create_full_card: POST /1/cards.  The call is outside the compensated   *)
(* unit, so a card whose answer is lost stays.                             *)
NewCard == [ref |-> RefOf[email], has |-> {}, state |-> "open"]

CreateCard ==
  /\ pc = "create"
  /\ \/ \E c \in Card :
          /\ board[c] = Blank
          /\ board' = [board EXCEPT ![c] = NewCard]
          /\ \/ Goto("attach") /\ card' = c
             \/ MailRaise("create") /\ UNCHANGED card
     \/ MailRaise("create") /\ UNCHANGED <<board, card>>
  /\ UNCHANGED <<labels, posted, ledger, progress, email>>

(* A call inside the unit fails: the card is deleted, then it raises.      *)
Compensate(call) == call \in MayFail /\ Spend("mail") /\ pc' = "undo"

With(part) == [board EXCEPT ![card].has = @ \union {part}]

Attach ==
  /\ pc = "attach"
  /\ \/ board' = With("pdf") /\ (Goto("describe") \/ Compensate("attach"))
     \/ UNCHANGED board /\ Compensate("attach")
  /\ UNCHANGED <<labels, posted, ledger, progress, email, card>>

(* Faulty: the card's comment is best effort.                              *)
DescribeBestEffort ==
  /\ pc = "describe"
  /\ \/ board' = With("comment") /\ Goto("record")
     \/ UNCHANGED board /\ "describe" \in MayFail /\ Spend("mail") /\ pc' = "record"
  /\ UNCHANGED <<labels, posted, ledger, progress, email, card>>

Describe ==
  /\ pc = "describe"
  /\ \/ board' = With("comment") /\ (Goto("record") \/ Compensate("describe"))
     \/ UNCHANGED board /\ Compensate("describe")
  /\ UNCHANGED <<labels, posted, ledger, progress, email, card>>

(* Faulty: the failure surfaces without the compensating DELETE.           *)
UndoNothing ==
  /\ pc = "undo"
  /\ Goto("failed")
  /\ UNCHANGED <<service, progress, email, card>>

(* The compensating DELETE; whatever comes of it, the first failure is the *)
(* one raised.                                                             *)
Undo ==
  /\ pc = "undo"
  /\ \/ board' = [board EXCEPT ![card].state = "deleted"] /\ Goto("failed")
     \/ UNCHANGED board /\ MailRaise("undo")
  /\ UNCHANGED <<labels, posted, ledger, progress, email, card>>

(* Faulty: a failed ledger write is logged and forgotten.                  *)
RecordBestEffort ==
  /\ pc = "record"
  /\ \/ ledger' = [ledger EXCEPT ![RefOf[email]] = card] /\ Goto("processed")
     \/ UNCHANGED ledger /\ "record" \in MayFail /\ Spend("last") /\ pc' = "processed"
  /\ UNCHANGED <<labels, board, posted, progress, email, card>>

(* record_claim: an upsert of the claim's row.                             *)
Record ==
  /\ pc = "record"
  /\ \/ /\ ledger' = [ledger EXCEPT ![RefOf[email]] = card]
        /\ Goto("processed") \/ MailRaise("record")
     \/ UNCHANGED ledger /\ MailRaise("record")
  /\ UNCHANGED <<labels, board, posted, progress, email, card>>

(* Faulty: the relabel of a processed email is inside the boundary.        *)
MarkProcessedInBoundary ==
  /\ pc = "processed"
  /\ \/ labels' = Relabelled("procesado") /\ Goto("loop") /\ done' = done \union {email}
     \/ /\ "processed" \in MayFail /\ Spend("run") /\ pc' = "failed"
        /\ UNCHANGED <<labels, done>>
  /\ UNCHANGED <<board, posted, ledger, listed, fetched, late, email, card>>

(* The last step of an email.  Both modify_labels calls are outside the    *)
(* boundary: their failure fails the run and the email stays UNREAD.       *)
MarkProcessed ==
  /\ pc = "processed"
  /\ \/ /\ labels' = Relabelled("procesado")
        /\ \/ Goto("loop") /\ done' = done \union {email}
           \/ RunRaise("processed") /\ UNCHANGED done
     \/ UNCHANGED <<labels, done>> /\ RunRaise("processed")
  /\ UNCHANGED <<board, posted, ledger, listed, fetched, late, email, card>>

MarkFailed ==
  /\ pc = "failed"
  /\ \/ /\ labels' = Relabelled("failed")
        /\ \/ Goto("loop") /\ done' = done \union {email}
           \/ RunRaise("failed") /\ UNCHANGED done
     \/ UNCHANGED <<labels, done>> /\ RunRaise("failed")
  /\ UNCHANGED <<board, posted, ledger, listed, fetched, late, email, card>>

(* The failed gauge is read, or its error swallowed; the run returns.      *)
EndRun ==
  /\ pc = "gauge"
  /\ Goto("idle")
  /\ UNCHANGED <<service, progress, email, card>>
-----------------------------------------------------------------------------
(* RUN_DEADLINE_S elapses.                                                 *)
DeadlinePasses ==
  /\ pc # "idle" /\ ~late
  /\ Spend("deadline")
  /\ late' = TRUE
  /\ UNCHANGED <<service, pc, listed, fetched, done, email, card>>

(* The host dies in the middle of a run; nothing in memory survives.       *)
Crash ==
  /\ pc # "idle"
  /\ Spend("kill")
  /\ pc' = "idle"
  /\ UNCHANGED <<service, progress, email, card>>

(* Gmail receives a message: in the order of internalDate.                 *)
Arrive(e) ==
  /\ labels[e] = {}
  /\ \A f \in Email : Date[f] < Date[e] => labels[f] # {}
  /\ labels' = [labels EXCEPT ![e] = {"UNREAD"}]
  /\ UNCHANGED <<board, posted, ledger, pc, progress, email, card, spent>>

(* The operator retries a failed email by marking it unread.               *)
Requeue(e) ==
  /\ "failed" \in labels[e] /\ e \notin Unread
  /\ Spend("requeue")
  /\ \E kept \in {{}, {"failed"}} : labels' = [labels EXCEPT ![e] = {"UNREAD"} \union kept]
  /\ UNCHANGED <<board, posted, ledger, pc, progress, email, card>>

(* The operator archives a card, or takes one out of the archive.          *)
MoveCard(c) ==
  /\ Exists(c)
  /\ Spend("move")
  /\ board' = [board EXCEPT ![c].state = IF @ = "open" THEN "archived" ELSE "open"]
  /\ UNCHANGED <<labels, posted, ledger, pc, progress, email, card>>
-----------------------------------------------------------------------------
ProcessOne ==
  \/ Parse \/ Search \/ SearchArchive \/ AddComment
  \/ Dedup \/ Build \/ CreateCard \/ Attach \/ Describe \/ Undo \/ Record

ProcessMailbox ==
  \/ StartRun \/ List \/ (\E e \in Email : Fetch(e)) \/ FetchEnds
  \/ (\E e \in Email : TakeEmail(e)) \/ LoopEnds
  \/ ProcessOne
  \/ MarkProcessed \/ MarkFailed \/ EndRun

Environment ==
  \/ DeadlinePasses \/ Crash
  \/ \E e \in Email : Arrive(e) \/ Requeue(e)
  \/ \E c \in Card : MoveCard(c)

Next == ProcessMailbox \/ Environment

Spec == Init /\ [][Next]_vars

(* The timer starts a run again and again, and a started run keeps going.  *)
FairSpec == Spec /\ WF_vars(ProcessMailbox)
-----------------------------------------------------------------------------
(* The checkpoint of the durability invariant: an email that carries       *)
(* `procesado` has had its whole effect, whatever crashed on the way.  A   *)
(* claim has its ledger row; a comunicación or a gestión has its comment   *)
(* on a card of its own claim.                                             *)
ProcesadoIsDurable ==
  \A e \in Email : "procesado" \in labels[e] =>
    /\ IsClaim(e) => ledger[RefOf[e]] # NoCard
    /\ IsComment(e) => \E c \in Card : <<e, c>> \in posted /\ board[c].ref = RefOf[e]

(* A ledger row names a card of that claim which exists and is complete:   *)
(* the PDF and the comment are on it.  No deduplicated email ever leans on *)
(* a partial or compensated card.                                          *)
LedgerNamesFullCard ==
  \A r \in Ref : ledger[r] # NoCard =>
    /\ board[ledger[r]].ref = r
    /\ Full(ledger[r])
    /\ Exists(ledger[r])

(* Each card on the board is in the ledger, is the one in hand, or was     *)
(* paid for by a host kill or a failed call: a crash, a lost answer and a  *)
(* failed compensation leave at most one card each ("every redo path is    *)
(* idempotent or compensated").                                            *)
InHand == IF pc \in {"attach", "describe", "undo", "record"} THEN {card} ELSE {}
Strays == {c \in Card : Exists(c) /\ \A r \in Ref : ledger[r] # c} \ InHand

StraysArePaidFor == Cardinality(Strays) <= spent["mail"] + spent["last"] + spent["kill"]

(* Some call inside the per-email boundary has failed.                     *)
MailFailed == spent["mail"] > 0 \/ spent["last"] > 0

(* Gate 3 M2: a transient failure of the relabel, a crash or the deadline  *)
(* never costs a good claim the terminal `failed` label; only a failed     *)
(* call inside the per-email boundary can.                                 *)
GoodClaimNotBurned ==
  \A e \in Email : "failed" \in labels[e] /\ IsClaim(e) /\ Good(e) => MailFailed

(* The chronological order of a run means that a comunicación or gestión   *)
(* meets the card of a claim that was received before it: it is `failed`   *)
(* for want of a card only if no good claim of its reference is older.     *)
(* (Nothing else failed, nobody moved cards meanwhile, and one page holds  *)
(* the mailbox: a claim beyond the page is not seen by the run.)           *)
CommentFollowsItsClaim ==
  /\ ~MailFailed /\ spent["move"] = 0
  /\ IsFiniteSet(Email) /\ Cardinality(Email) <= PageMax
  => \A e, f \in Email :
      /\ IsComment(e) /\ Good(e)
      /\ IsClaim(f) /\ Good(f)
      /\ RefOf[e] = RefOf[f] /\ Date[f] < Date[e]
      => "failed" \notin labels[e]

(* entry.py: "any crash/failure re-attempts it next wake; every redo path  *)
(* is idempotent or compensated".  No claim is on the board twice with a   *)
(* complete card.                                                          *)
OneCardPerClaim ==
  \A c, d \in Card :
    /\ Exists(c) /\ Exists(d) /\ Full(c) /\ Full(d)
    /\ board[c].ref = board[d].ref
    => c = d

(* Failed and lost calls, retries and forwards alone never put a claim on  *)
(* the board twice: it takes a kill, a failed compensating delete or a     *)
(* failed ledger write.                                                    *)
NoDuplicateCard ==
  spent["kill"] = 0 /\ spent["last"] = 0 => OneCardPerClaim

(* process_mailbox: the emails of the page are processed oldest first.     *)
(* When one is taken, every listed email that is older has been relabelled *)
(* in this run, even when the deadline cut the fetch short.                *)
Chronological ==
  [][\A e \in Email :
       pc = "loop" /\ email' = e /\ pc' \notin {"loop", "gauge", "idle"} =>
         \A f \in listed : Date[f] < Date[e] => f \in done]_vars

(* "Live search on purpose: an archived card must fail the email".         *)
ArchivedCardFails ==
  [][(pc = "search" \/ pc = "archive") /\ pc' = "comment" => board[card'].state = "open"]_vars
=============================================================================
