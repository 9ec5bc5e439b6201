---------------------------- MODULE ClaimIntake ------------------------------
(***************************************************************************)
(* The claim pipeline with its reading of an email in detail: the field    *)
(* extractors of backend/pipeline/extraction.py and llm_extraction.py in   *)
(* the place of the step Parse of ClaimPipeline, and find_card_by_claim_ref *)
(* as the match on card names that it is.  What ClaimPipeline takes from   *)
(* constants is computed here from the messages (ClaimParsing).            *)
(*                                                                         *)
(* One model call is made per email, with a new CallState; the answer, the *)
(* recognised failures (the regexes take over) and the unrecognised ones   *)
(* (the email fails) are steps of their own.                               *)
(***************************************************************************)
EXTENDS ClaimParsing, FiniteSets

CONSTANTS
  Email, NoEmail, Card, NoCard,
  Message,     \* the Gmail message of each email
  About,       \* the claim its sender means
  Allowlist,   \* the entries of CLAIM_SENDER_ALLOWLIST
  Backends,    \* the values that FIELD_EXTRACTOR_BACKEND may have
  Date, PageMax, MayFail, Budget, MaxKinds

VARIABLES
  labels, board, posted, ledger, pc, listed, fetched, done, email, card, late, spent,
  call,        \* whether a model call is open
  backend,     \* FIELD_EXTRACTOR_BACKEND of the deployment
  length,      \* CallState.finish_reason is "length"
  town         \* whether the claim in hand has a town

Trusted == {e \in Email : SenderDomain(Message[e]) \in AllowedDomains(Allowlist)}
Type    == [e \in Email |-> FromSubject(Message[e])]
RefOf   == [e \in Email |-> ClaimRef(Message[e])]
NoRef   == NoNumber
Ref     == {RefOf[e] : e \in Email} \ {NoRef}
Noticed == {e \in Email : RegexFields(Message[e]).notice}
Placed  == {e \in Email : RegexFields(Message[e]).town}

(* The model may find a field where the regular expressions do not.        *)
Findable == IF "llm" \in Backends THEN Email ELSE {}

Pipeline == INSTANCE ClaimPipeline

ASSUME IntakeConstants ==
  /\ Backends \subseteq {"llm", "regex"}
  /\ \A e \in Email : Message[e].slashed \in Reference /\ Message[e].run \in Reference
  /\ About \in [Email -> Ref \union {NoRef}]
  /\ NoDomain \notin AllowedDomains(Allowlist)
  /\ Pipeline!PipelineConstants

service  == <<labels, board, posted, ledger>>
progress == <<listed, fetched, done, late>>
pipeline == <<service, progress, pc, email, card, spent>>
reading  == <<call, length, town, backend>>
vars     == <<pipeline, reading>>

(* What the model can do instead of answering.  A call that is cut at      *)
(* MAX_COMPLETION_TOKENS, and one whose answer does not fit the schema,    *)
(* have a response; an unreadable response never meets the hook.           *)
Cause == {"filtered", "cut", "invalid", "unreadable", "timeout", "http", "other"}

Fields == [town : BOOLEAN, notice : BOOLEAN]
Found(e) == RegexFields(Message[e])

TypeOK ==
  /\ Pipeline!TypeOK
  /\ call \in BOOLEAN /\ length \in BOOLEAN /\ town \in BOOLEAN /\ backend \in Backends

Init ==
  /\ Pipeline!Init
  /\ call = FALSE /\ length = FALSE /\ town = FALSE /\ backend \in Backends
-----------------------------------------------------------------------------
(* _process_one asks origin, marker and reference before it reads a field. *)
Readable(e) == e \in Trusted /\ Pipeline!Parsed(e)

TakeEmail(e) ==
  /\ Pipeline!TakeEmail(e)
  /\ call' = FALSE /\ town' = FALSE /\ UNCHANGED <<length, backend>>

(* Faulty: the email of a stranger is ignored and keeps UNREAD.            *)
ParseRefusedIgnores ==
  /\ pc = "parse" /\ ~Readable(email)
  /\ Pipeline!Goto("loop") /\ done' = done \union {email}
  /\ UNCHANGED <<service, listed, fetched, late, email, card, reading>>

ParseRefused ==
  /\ pc = "parse" /\ ~Readable(email)
  /\ Pipeline!Goto("failed")
  /\ UNCHANGED <<service, progress, email, card, reading>>

(* The rest of the parse, with the fields f in hand: an empty notice is    *)
(* refused.  An answer that leaves out a notice the email has is counted   *)
(* as a mishap of the call.                                                *)
Continue(f) ==
  /\ Pipeline!Parse
  /\ pc' = "failed" <=> Type[email] = "GESTION_CON_PERITO" /\ ~f.notice
  /\ town' = f.town

(* RegexFieldExtractor.extract.                                            *)
ExtractRegex ==
  /\ pc = "parse" /\ Readable(email) /\ backend = "regex"
  /\ Continue(Found(email))
  /\ UNCHANGED <<call, length, backend>>

(* Faulty: one CallState for all the calls of a run.                       *)
CallModelSharedState ==
  /\ pc = "parse" /\ Readable(email) /\ backend = "llm" /\ ~call
  /\ call' = TRUE
  /\ UNCHANGED <<pipeline, length, town, backend>>

(* LlmFieldExtractor.extract: run_sync, with a new CallState.              *)
CallModel ==
  /\ pc = "parse" /\ Readable(email) /\ backend = "llm" /\ ~call
  /\ call' = TRUE /\ length' = FALSE
  /\ UNCHANGED <<pipeline, town, backend>>

(* The model answers, with or without each field.  Leaving out a town the  *)
(* email has is a mishap: BuildCard refuses a card without one.            *)
Answers(f, e) ==
  Found(e).town /\ ~f.town => "build" \in MayFail /\ Pipeline!MayHappen("mail")

ModelAnswers ==
  /\ pc = "parse" /\ call
  /\ \E f \in Fields : Answers(f, email) /\ Continue(f)
  /\ call' = FALSE /\ length' = FALSE /\ UNCHANGED backend

(* after_model_request: the finish reason, when there is a response.       *)
CutShort(cause) == IF cause \in {"cut", "invalid"} THEN cause = "cut" ELSE length

(* classify_failure.                                                       *)
ClassifyFailure(cause, cutShort) ==
  CASE cause = "filtered"                         -> "content_filter"
    [] cause \in {"cut", "invalid", "unreadable"} ->
         IF cutShort THEN "truncation" ELSE "validation_failed"
    [] cause = "timeout"                          -> "timeout"
    [] cause = "http"                             -> "http_error"
    [] cause = "other"                            -> "other"

(* Faulty: a failed model call fails the email.                            *)
ModelFailsWithoutFallback(cause) ==
  /\ pc = "parse" /\ call
  /\ Pipeline!Goto("failed")
  /\ call' = FALSE /\ length' = CutShort(cause)
  /\ UNCHANGED <<service, progress, email, card, town, backend>>

(* A recognised failure: the regexes read the email instead.               *)
ModelFails(cause) ==
  /\ pc = "parse" /\ call
  /\ Continue(Found(email))
  /\ call' = FALSE /\ length' = CutShort(cause) /\ UNCHANGED backend

(* Any other exception, one of the token provider for instance, leaves     *)
(* extract and meets the per-email boundary.                               *)
ModelBreaks ==
  /\ pc = "parse" /\ call
  /\ Pipeline!MailRaise("parse")
  /\ call' = FALSE
  /\ UNCHANGED <<service, progress, email, card, length, town, backend>>

Parse ==
  \/ ParseRefused \/ ExtractRegex \/ CallModel \/ ModelAnswers
  \/ \E cause \in Cause : ModelFails(cause)
  \/ ModelBreaks
-----------------------------------------------------------------------------
(* find_card_by_claim_ref, on the names of the cards.                      *)
NameMatches(c, state) == board[c].state = state /\ NameHas(board[c].ref, RefOf[email])

Find(from, state, miss) ==
  /\ pc = from
  /\ \/ /\ \E c \in Card : NameMatches(c, state) /\ card' = c
        /\ Pipeline!Goto("comment")
     \/ /\ \A c \in Card : ~NameMatches(c, state)
        /\ Pipeline!Goto(miss) /\ UNCHANGED card
     \/ Pipeline!MailRaise(from) /\ UNCHANGED card
  /\ UNCHANGED <<service, progress, email, reading>>

FindCard == Find("search", "open", "archive") \/ Find("archive", "archived", "failed")

(* build_card_name and its companions use the town; nothing after them.    *)
BuildCard ==
  /\ Pipeline!Build
  /\ pc' = "failed" \/ town
  /\ UNCHANGED spent => (pc' = "create" <=> town)
  /\ town' = FALSE /\ UNCHANGED <<call, length, backend>>

(* The rest is as in ClaimPipeline.                                        *)
OtherStep ==
  /\ \/ Pipeline!StartRun \/ Pipeline!List \/ Pipeline!FetchEnds
     \/ Pipeline!LoopEnds \/ Pipeline!EndRun
     \/ \E e \in Email : Pipeline!Fetch(e)
     \/ Pipeline!AddComment \/ Pipeline!Dedup \/ Pipeline!CreateCard \/ Pipeline!Attach
     \/ Pipeline!Describe \/ Pipeline!Undo \/ Pipeline!Record
     \/ Pipeline!MarkProcessed \/ Pipeline!MarkFailed
  /\ UNCHANGED reading

ProcessMailbox ==
  \/ \E e \in Email : TakeEmail(e)
  \/ Parse \/ FindCard \/ BuildCard \/ OtherStep

Environment == Pipeline!Environment /\ UNCHANGED reading

Next == ProcessMailbox \/ Environment

Spec == Init /\ [][Next]_vars

(* As in ClaimPipeline.  A call ends within LLM_CALL_TIMEOUT_S.            *)
FairSpec == Spec /\ WF_vars(ProcessMailbox)
-----------------------------------------------------------------------------
(* Reading an email in detail, with every failure of the model call, is    *)
(* the step Parse of ClaimPipeline, and the match on names is its match on *)
(* references: this specification implements that one.                     *)
ImplementsPipeline == Pipeline!Spec

(* An unread email does not stay unread for ever, whatever the model does. *)
EveryEmailSettles == \A e \in Email : e \in Pipeline!Unread ~> e \notin Pipeline!Unread

(* find_card_by_claim_ref: "a comunicación comment on card 2026/417" is    *)
(* what the boundary match prevents.  A comment is on a card of the claim  *)
(* its sender meant, whichever form the two emails write the number in.    *)
CommentOnItsOwnClaim == \A p \in posted : board[p[2]].ref = About[p[1]]

(* A good comunicación or gestión whose claim has its ledger row is not    *)
(* burned, unless a call failed or the operator moved a card: not by a     *)
(* failure of the model, and not by the form of its subject.               *)
NoticeReachesItsClaim ==
  [][\A e \in Email :
       /\ "failed" \in labels'[e] /\ "failed" \notin labels[e]
       /\ About[e] \in Ref /\ Pipeline!IsComment(e) /\ Pipeline!Good(e)
       /\ ~Pipeline!MailFailed /\ spent["move"] = 0
       => ledger[About[e]] = NoCard]_vars

(* The failure class that is reported tells what this call met: a          *)
(* truncation is reported when, and only when, the call was cut.           *)
FallbackClassIsTrue ==
  [][\A cause \in Cause :
       ModelFails(cause) =>
         (ClassifyFailure(cause, length') = "truncation" <=> cause = "cut")]_vars
=============================================================================
