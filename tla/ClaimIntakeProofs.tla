-------------------------- MODULE ClaimIntakeProofs --------------------------
(***************************************************************************)
(* What holds of ClaimIntake for every mailbox: the match on card names is *)
(* equality of references, a padded number is read as the claim's own, the *)
(* detailed intake implements ClaimPipeline, and comments land on the card *)
(* of the claim their subject names.                                       *)
(***************************************************************************)
EXTENDS ClaimIntake, SequenceTheorems, WellFoundedInduction, TLAPS

(* The pattern of find_card_by_claim_ref, for references of any length and *)
(* digits: a card's name matches the claim it carries and no other, be it  *)
(* shorter or longer ("2026/41" against "2026/417").                       *)
THEOREM NameMatchIsEquality ==
  ASSUME NEW r \in Reference, NEW s \in Reference
  PROVE  NameHas(r, s) <=> r = s
<1>1. r.number \in Seq(Digit) /\ s.number \in Seq(Digit)
  BY DEF Reference
<1>2. DOMAIN r.number = 1..Len(r.number) /\ DOMAIN s.number = 1..Len(s.number)
  BY <1>1, LenProperties
<1>3. Len(r.number) \in Nat /\ Len(s.number) \in Nat
  BY <1>1, LenProperties
<1>4. ASSUME NameHas(r, s) PROVE r = s
  <2>1. Len(r.number) = Len(s.number)
    BY <1>2, <1>3, <1>4 DEF NameHas
  <2>2. \A i \in 1..Len(r.number) : r.number[i] = s.number[i]
    BY <1>2, <1>4, <2>1 DEF NameHas
  <2>3. r.number = s.number
    BY <1>1, <2>1, <2>2, SeqEqual
  <2> QED
    BY <1>4, <2>3 DEF NameHas, Reference
<1>5. ASSUME r = s PROVE NameHas(r, s)
  BY <1>2, <1>3, <1>5 DEF NameHas
<1> QED
  BY <1>4, <1>5

(* The least of the places where a padded number has a digit other than 0. *)
LEMMA FirstDigit ==
  ASSUME NEW K \in SUBSET Nat, NEW k \in K, \A j \in K : k <= j
  PROVE  (CHOOSE i \in K : \A j \in K : i <= j) = k
<1> DEFINE first == CHOOSE i \in K : \A j \in K : i <= j
<1>1. first \in K /\ \A j \in K : first <= j
  OBVIOUS
<1> HIDE DEF first
<1>2. first <= k /\ k <= first
  BY <1>1
<1>3. first \in Nat /\ k \in Nat
  BY <1>1
<1>4. first = k
  BY <1>2, <1>3
<1> QED
  BY <1>4 DEF first

(* str.lstrip("0") takes off the zeros in front of a number, however many, *)
(* and nothing else.                                                       *)
LEMMA StripsPadding ==
  ASSUME NEW zeros \in Nat, NEW number \in Seq(Digit), number # <<>>, number[1] # 0
  PROVE  LStrip([i \in 1..zeros |-> 0] \o number) = number
<1> DEFINE pad    == [i \in 1..zeros |-> 0]
           padded == pad \o number
           Kept   == {i \in DOMAIN padded : padded[i] # 0}
<1>1. pad \in Seq(Digit) /\ Len(pad) = zeros
  BY DEF Digit
<1>2. Len(number) \in Nat /\ Len(number) >= 1
  BY EmptySeq, LenProperties
<1>3. /\ padded \in Seq(Digit) /\ Len(padded) = zeros + Len(number)
      /\ \A i \in 1..Len(padded) :
           padded[i] = IF i <= zeros THEN pad[i] ELSE number[i - zeros]
  BY <1>1, ConcatProperties
<1>4. DOMAIN padded = 1..(zeros + Len(number))
  BY <1>2, <1>3, LenProperties
<1>5. zeros + 1 \in Kept
  <2>1. zeros + 1 \in 1..Len(padded)
    BY <1>2, <1>3
  <2>2. padded[zeros + 1] = number[1]
    BY <2>1, <1>3
  <2> QED
    BY <2>1, <2>2, <1>3, <1>4
<1>6. \A j \in Kept : zeros + 1 <= j
  <2> SUFFICES ASSUME NEW j \in Kept, ~(zeros + 1 <= j) PROVE FALSE
    OBVIOUS
  <2>1. j \in 1..zeros /\ j \in 1..Len(padded)
    BY <1>2, <1>3, <1>4
  <2>2. padded[j] = 0
    BY <2>1, <1>3
  <2> QED
    BY <2>2
<1>7. Kept \subseteq Nat /\ Kept # {}
  <2>1. DOMAIN padded \subseteq Nat
    BY <1>2, <1>4
  <2>2. Kept \subseteq DOMAIN padded
    OBVIOUS
  <2> QED
    BY <2>1, <2>2, <1>5
<1> HIDE DEF Kept
<1>8. (CHOOSE i \in Kept : \A j \in Kept : i <= j) = zeros + 1
  BY <1>5, <1>6, <1>7, FirstDigit
<1>9. LStrip(padded) = SubSeq(padded, zeros + 1, Len(padded))
  BY <1>7, <1>8 DEF LStrip, Kept
<1>10. SubSeq(padded, zeros + 1, Len(padded)) = number
  <2> DEFINE rest == SubSeq(padded, zeros + 1, Len(padded))
  <2> HIDE DEF padded
  <2>1. /\ rest \in Seq(Digit) /\ Len(rest) = Len(number)
        /\ \A i \in 1..Len(number) : rest[i] = padded[zeros + i]
    BY <1>2, <1>3, SubSeqProperties
  <2>2. \A i \in 1..Len(number) : padded[zeros + i] = number[i]
    BY <1>2, <1>3
  <2> QED
    BY <2>1, <2>2, SeqEqual
<1> QED
  BY <1>9, <1>10

(* parse_claim_ref: a gestión's subject that writes the claim number       *)
(* without its slash and padded with any number of zeros is read as the    *)
(* reference of the claim, so that it meets the claim's row and card.      *)
THEOREM PaddedNumberIsRead ==
  ASSUME NEW year \in Nat, NEW zeros \in Nat, NEW number \in Seq(Digit),
         number # <<>>, number[1] # 0, zeros + Len(number) >= SlashlessMin,
         NEW m, m.slashed = NoNumber,
         m.run = [year |-> year, number |-> [i \in 1..zeros |-> 0] \o number]
  PROVE  ParseClaimRef(m, TRUE) = [year |-> year, number |-> number]
<1>1. Len(m.run.number) = zeros + Len(number)
  <2>1. [i \in 1..zeros |-> 0] \in Seq(Digit) /\ Len([i \in 1..zeros |-> 0]) = zeros
    BY DEF Digit
  <2> QED
    BY <2>1, ConcatProperties
<1>2. Len(m.run.number) >= SlashlessMin
  BY <1>1
<1>3. LStrip(m.run.number) = number
  BY StripsPadding
<1> QED
  BY <1>2, <1>3 DEF ParseClaimRef
-----------------------------------------------------------------------------
(* A set of natural numbers has a least element.                           *)
LEMMA LeastNatural ==
  ASSUME NEW K \in SUBSET Nat, K # {}
  PROVE  \E k \in K : \A j \in K : k <= j
<1> DEFINE Less == OpToRel(<, Nat)
<1>1. IsWellFoundedOn(Less, Nat)
  BY NatLessThanWellFounded
<1>2. \A x, y \in Nat : x < y => <<x, y>> \in Less
  BY DEF OpToRel
<1> HIDE DEF Less
<1>3. PICK k \in K : \A j \in K : <<j, k>> \notin Less
  BY <1>1, WFMin
<1>4. \A j \in K : ~(j < k)
  BY <1>2, <1>3
<1> QED
  BY <1>4

(* What is left of a number without its zeros is a number.                 *)
LEMMA LStripType ==
  ASSUME NEW digits \in Seq(Digit)
  PROVE  LStrip(digits) \in Seq(Digit)
<1> DEFINE Kept == {i \in DOMAIN digits : digits[i] # 0}
<1>1. CASE Kept = {}
  BY <1>1 DEF LStrip
<1>2. CASE Kept # {}
  <2>1. Kept \subseteq 1..Len(digits) /\ Len(digits) \in Nat
    BY LenProperties
  <2>2. PICK k \in Kept : \A j \in Kept : k <= j
    <3>1. Kept \subseteq Nat
      BY <2>1
    <3> QED
      BY <1>2, <3>1, LeastNatural
  <2>3. LStrip(digits) = SubSeq(digits, k, Len(digits))
    <3>1. Kept \subseteq Nat
      BY <2>1
    <3> HIDE DEF Kept
    <3>2. (CHOOSE i \in Kept : \A j \in Kept : i <= j) = k
      BY <2>2, <3>1, FirstDigit
    <3> QED
      BY <3>2, <1>2 DEF LStrip, Kept
  <2>4. k \in 1..Len(digits)
    BY <2>1, <2>2
  <2> QED
    BY <2>1, <2>3, <2>4, SubSeqProperties
<1> QED
  BY <1>1, <1>2

(* What parse_claim_ref makes of a subject is a reference.                 *)
LEMMA RefsAreReferences == NoRef \in Reference /\ \A e \in Email : RefOf[e] \in Reference
<1>1. NoNumber \in Reference
  <2>1. <<>> \in Seq(Digit)
    OBVIOUS
  <2> QED
    BY <2>1 DEF NoNumber, Reference
<1>2. ASSUME NEW e \in Email PROVE RefOf[e] \in Reference
  <2> DEFINE m == Message[e]
  <2>1. m.slashed \in Reference /\ m.run \in Reference
    BY IntakeConstants
  <2>2. LStrip(m.run.number) \in Seq(Digit) /\ m.run.year \in Nat
    BY <2>1, LStripType DEF Reference
  <2>3. [year |-> m.run.year, number |-> LStrip(m.run.number)] \in Reference
    BY <2>2 DEF Reference
  <2>4. ASSUME NEW slashless \in BOOLEAN PROVE ParseClaimRef(m, slashless) \in Reference
    BY <1>1, <2>1, <2>3 DEF ParseClaimRef
  <2>5. ClaimRef(m) \in Reference
    BY <2>4 DEF ClaimRef
  <2> QED
    BY <2>5 DEF RefOf
<1> QED
  BY <1>1, <1>2 DEF NoRef
-----------------------------------------------------------------------------
(* The cards of the board, and the calls that have an email in hand.       *)
CardState == {"none", "open", "archived", "deleted"}
CardType  == [ref : Reference, has : SUBSET Pipeline!Parts, state : CardState]
WithEmail == Pipeline!MailCalls \union {"processed", "failed"}

(* The invariant of the refinement: cards carry references, as digits, and *)
(* an email is in hand from TakeEmail to its label.                        *)
IntakeInv ==
  /\ board \in [Card -> CardType]
  /\ pc \in WithEmail => email \in Email

(* On such a board the match on names is ClaimPipeline's on references.    *)
LEMMA NamesMatchReferences ==
  ASSUME board \in [Card -> CardType], email \in Email, NEW c \in Card, NEW state
  PROVE  NameMatches(c, state) <=> Pipeline!Matches(c, state)
<1>1. board[c].ref \in Reference /\ RefOf[email] \in Reference
  BY RefsAreReferences DEF CardType
<1>2. NameHas(board[c].ref, RefOf[email]) <=> board[c].ref = RefOf[email]
  BY <1>1, NameMatchIsEquality
<1> QED
  BY <1>2 DEF NameMatches, Pipeline!Matches

(* Every step of the detailed intake is a step of ClaimPipeline or leaves  *)
(* its state alone.                                                        *)
LEMMA StepRefines ==
  ASSUME IntakeInv, Next PROVE [Pipeline!Next]_(Pipeline!vars)
<1> USE DEF IntakeInv
<1>1. ASSUME NEW e \in Email, TakeEmail(e) PROVE Pipeline!TakeEmail(e)
  BY <1>1 DEF TakeEmail
<1>2. ASSUME ParseRefused PROVE Pipeline!Parse
  BY <1>2 DEF ParseRefused, Readable, Pipeline!Parse, Pipeline!Route, Pipeline!Refused, Pipeline!Finds,
              service, progress, Pipeline!service, Pipeline!progress
<1>3. ASSUME ExtractRegex \/ ModelAnswers \/ \E cause \in Cause : ModelFails(cause)
      PROVE  Pipeline!Parse
  BY <1>3 DEF ExtractRegex, ModelAnswers, ModelFails, Continue
<1>4. ASSUME CallModel PROVE UNCHANGED Pipeline!vars
  BY <1>4 DEF CallModel, pipeline, service, progress, Pipeline!vars
<1>5. ASSUME ModelBreaks PROVE Pipeline!Parse
  BY <1>5 DEF ModelBreaks, Pipeline!Parse, service, progress, Pipeline!service,
              Pipeline!progress
<1>6. ASSUME FindCard PROVE Pipeline!Search \/ Pipeline!SearchArchive
  <2>0. pc \in {"search", "archive"}
    BY <1>6 DEF FindCard, Find
  <2>1. board \in [Card -> CardType] /\ email \in Email
    BY <2>0 DEF WithEmail, Pipeline!MailCalls
  <2>2. \A c \in Card : \A state : NameMatches(c, state) <=> Pipeline!Matches(c, state)
    BY <2>1, NamesMatchReferences
  <2>3. CASE Find("search", "open", "archive")
    BY <2>2, <2>3 DEF Find, Pipeline!Search, service, progress, Pipeline!service,
                      Pipeline!progress
  <2>4. CASE Find("archive", "archived", "failed")
    BY <2>2, <2>4 DEF Find, Pipeline!SearchArchive, service, progress, Pipeline!service,
                      Pipeline!progress
  <2> QED
    BY <1>6, <2>3, <2>4 DEF FindCard
<1>7. ASSUME BuildCard PROVE Pipeline!Build
  BY <1>7 DEF BuildCard
<1>8. ASSUME OtherStep PROVE Pipeline!Next
  BY <1>8 DEF OtherStep, Pipeline!Next, Pipeline!ProcessMailbox, Pipeline!ProcessOne
<1>9. ASSUME Environment PROVE Pipeline!Next
  BY <1>9 DEF Environment, Pipeline!Next
<1> QED
  BY <1>1, <1>2, <1>3, <1>4, <1>5, <1>6, <1>7, <1>8, <1>9
     DEF Next, ProcessMailbox, Parse, Pipeline!Next, Pipeline!ProcessMailbox,
         Pipeline!ProcessOne
-----------------------------------------------------------------------------
(* The steps of ClaimPipeline that touch the board, and what they leave of *)
(* a card that exists: its reference.                                      *)
LEMMA BoardStep ==
  ASSUME IntakeInv, Pipeline!Next
  PROVE  /\ board' \in [Card -> CardType]
         /\ \A c \in Card : board[c].state # "none" =>
              board'[c].ref = board[c].ref /\ board'[c].state # "none"
<1> USE DEF IntakeInv
<1>1. CASE UNCHANGED board
  BY <1>1
<1>2. CASE Pipeline!CreateCard
  <2>1. CASE UNCHANGED board
    BY <2>1
  <2>2. CASE \E c \in Card : board[c] = Pipeline!Blank
                         /\ board' = [board EXCEPT ![c] = Pipeline!NewCard]
    <3>1. email \in Email
      BY <1>2 DEF Pipeline!CreateCard, WithEmail, Pipeline!MailCalls
    <3>2. Pipeline!NewCard \in CardType /\ Pipeline!NewCard.state # "none"
      BY <3>1, RefsAreReferences DEF Pipeline!NewCard, CardType, CardState
    <3>3. Pipeline!Blank.state = "none"
      BY DEF Pipeline!Blank
    <3> QED
      BY <2>2, <3>2, <3>3
  <2> QED
    BY <1>2, <2>1, <2>2 DEF Pipeline!CreateCard
<1>3. ASSUME NEW part \in Pipeline!Parts, board' = Pipeline!With(part)
      PROVE  /\ board' \in [Card -> CardType]
             /\ \A c \in Card : board'[c].ref = board[c].ref /\ board'[c].state = board[c].state
  <2>1. ASSUME NEW c \in Card
        PROVE  /\ board'[c] = IF c = card THEN [board[c] EXCEPT !.has = @ \union {part}]
                                          ELSE board[c]
               /\ board[c] \in CardType
    BY <1>3 DEF Pipeline!With
  <2>2. ASSUME NEW c \in Card
        PROVE  /\ board'[c] \in CardType
               /\ board'[c].ref = board[c].ref /\ board'[c].state = board[c].state
    <3>1. board[c].has \union {part} \in SUBSET Pipeline!Parts
      BY <1>3, <2>1 DEF CardType
    <3>2. CASE c = card
      BY <2>1, <3>1, <3>2 DEF CardType
    <3> QED
      BY <2>1, <3>2
  <2>3. board' = [c \in Card |-> board'[c]]
    BY <1>3 DEF Pipeline!With
  <2> QED
    BY <2>2, <2>3
<1>4. ASSUME NEW d, NEW state \in CardState, state # "none",
             board' = [board EXCEPT ![d].state = state]
      PROVE  /\ board' \in [Card -> CardType]
             /\ \A c \in Card : board[c].state # "none" =>
                  board'[c].ref = board[c].ref /\ board'[c].state # "none"
  <2>1. ASSUME NEW c \in Card
        PROVE  /\ board'[c] = IF c = d THEN [board[c] EXCEPT !.state = state] ELSE board[c]
               /\ board[c] \in CardType
    BY <1>4
  <2>2. ASSUME NEW c \in Card
        PROVE  /\ board'[c] \in CardType
               /\ board[c].state # "none" =>
                    board'[c].ref = board[c].ref /\ board'[c].state # "none"
    BY <2>1, <1>4 DEF CardType
  <2>3. board' = [c \in Card |-> board'[c]]
    BY <1>4
  <2> QED
    BY <2>2, <2>3
<1>5. CASE Pipeline!Attach \/ Pipeline!Describe
  <2>1. \/ UNCHANGED board
        \/ \E part \in Pipeline!Parts : board' = Pipeline!With(part)
    BY <1>5 DEF Pipeline!Attach, Pipeline!Describe, Pipeline!Parts
  <2> QED
    BY <2>1, <1>1, <1>3
<1>6. CASE Pipeline!Undo
  <2>1. UNCHANGED board \/ board' = [board EXCEPT ![card].state = "deleted"]
    BY <1>6 DEF Pipeline!Undo
  <2>2. "deleted" \in CardState /\ "deleted" # "none"
    BY DEF CardState
  <2>3. CASE board' = [board EXCEPT ![card].state = "deleted"]
    BY <2>2, <2>3, <1>4
  <2> QED
    BY <2>1, <2>3, <1>1
<1>7. CASE \E c \in Card : Pipeline!MoveCard(c)
  <2>1. PICK d \in Card : Pipeline!MoveCard(d)
    BY <1>7
  <2>2. PICK state \in {"open", "archived"} : board' = [board EXCEPT ![d].state = state]
    BY <2>1 DEF Pipeline!MoveCard
  <2>3. state \in CardState /\ state # "none"
    BY DEF CardState
  <2> QED
    BY <2>2, <2>3, <1>4
<1> QED
  BY <1>1, <1>2, <1>5, <1>6, <1>7
     DEF Pipeline!Next, Pipeline!ProcessMailbox, Pipeline!ProcessOne, Pipeline!Environment,
         Pipeline!StartRun, Pipeline!List, Pipeline!Fetch, Pipeline!FetchEnds,
         Pipeline!TakeEmail, Pipeline!LoopEnds, Pipeline!Parse, Pipeline!Search,
         Pipeline!SearchArchive, Pipeline!AddComment, Pipeline!Dedup, Pipeline!Build,
         Pipeline!Record, Pipeline!MarkProcessed, Pipeline!MarkFailed, Pipeline!EndRun,
         Pipeline!DeadlinePasses, Pipeline!Crash, Pipeline!Arrive, Pipeline!Requeue,
         Pipeline!service

(* An email is taken by TakeEmail alone, and stays in hand until its label.*)
LEMMA HandStep ==
  ASSUME IntakeInv, Pipeline!Next
  PROVE  pc' \in WithEmail => email' \in Email
<1> USE DEF IntakeInv, WithEmail, Pipeline!MailCalls, Pipeline!Goto
<1>1. CASE \E e \in Email : Pipeline!TakeEmail(e)
  BY <1>1 DEF Pipeline!TakeEmail
<1>2. CASE Pipeline!ProcessOne
  BY <1>2
     DEF Pipeline!ProcessOne, Pipeline!Parse, Pipeline!Search, Pipeline!SearchArchive,
         Pipeline!AddComment, Pipeline!Dedup, Pipeline!Build, Pipeline!CreateCard,
         Pipeline!Attach, Pipeline!Describe, Pipeline!Undo, Pipeline!Record
<1>3. CASE \/ Pipeline!StartRun \/ Pipeline!List \/ (\E e \in Email : Pipeline!Fetch(e))
           \/ Pipeline!FetchEnds \/ Pipeline!LoopEnds \/ Pipeline!MarkProcessed
           \/ Pipeline!MarkFailed \/ Pipeline!EndRun
  BY <1>3
     DEF Pipeline!StartRun, Pipeline!List, Pipeline!Fetch, Pipeline!FetchEnds,
         Pipeline!LoopEnds, Pipeline!MarkProcessed, Pipeline!MarkFailed, Pipeline!EndRun,
         Pipeline!RunRaise
<1>4. CASE Pipeline!Environment
  BY <1>4
     DEF Pipeline!Environment, Pipeline!DeadlinePasses, Pipeline!Crash, Pipeline!Arrive,
         Pipeline!Requeue, Pipeline!MoveCard
<1> QED
  BY <1>1, <1>2, <1>3, <1>4 DEF Pipeline!Next, Pipeline!ProcessMailbox

LEMMA IntakeInvInit == Init => IntakeInv
<1> SUFFICES ASSUME Init PROVE IntakeInv
  OBVIOUS
<1>1. Pipeline!Init
  BY DEF Init
<1>2. Pipeline!Blank \in CardType
  BY RefsAreReferences DEF Pipeline!Blank, CardType, CardState
<1> QED
  BY <1>1, <1>2 DEF IntakeInv, WithEmail, Pipeline!Init, Pipeline!MailCalls

LEMMA IntakeInvStep == IntakeInv /\ [Next]_vars => IntakeInv'
<1> SUFFICES ASSUME IntakeInv, [Next]_vars PROVE IntakeInv'
  OBVIOUS
<1>1. CASE UNCHANGED Pipeline!vars
  BY <1>1 DEF IntakeInv, Pipeline!vars
<1>2. CASE Pipeline!Next
  BY <1>2, BoardStep, HandStep DEF IntakeInv
<1>3. CASE UNCHANGED vars
  BY <1>3 DEF IntakeInv, vars, pipeline, service, progress
<1> QED
  BY <1>1, <1>2, <1>3, StepRefines

(* The inductive invariant of the refinement holds in every reachable      *)
(* state, whatever the mailbox and the model do.                           *)
THEOREM IntakeInvariant == Spec => []IntakeInv
<1> QED
  BY IntakeInvInit, IntakeInvStep, PTL DEF Spec

(* The reading of an email in detail, with its model calls and the match   *)
(* on card names, implements the pipeline that takes it from constants:    *)
(* what is proved of ClaimPipeline holds of the detailed intake.           *)
THEOREM IntakeRefinesPipeline == Spec => ImplementsPipeline
<1>1. Init => Pipeline!Init
  BY DEF Init
<1>2. IntakeInv /\ [Next]_vars => [Pipeline!Next]_(Pipeline!vars)
  <2>1. UNCHANGED vars => UNCHANGED Pipeline!vars
    BY DEF vars, pipeline, service, progress, Pipeline!vars
  <2> QED
    BY <2>1, StepRefines
<1> QED
  BY <1>1, <1>2, IntakeInvariant, PTL DEF Spec, ImplementsPipeline, Pipeline!Spec
-----------------------------------------------------------------------------
Searching == {"search", "archive", "comment"}

Carries(c, e) == board[c].ref = RefOf[e] /\ board[c].state # "none"

(* Why comments land: the card in hand at "comment" was found under the    *)
(* email's reference, and no step changes the reference of a card that     *)
(* exists, so the same is true of each comment already there.              *)
CommentInv ==
  /\ IntakeInv
  /\ pc \in Searching => Pipeline!IsComment(email)
  /\ pc = "comment" => card \in Card /\ Carries(card, email)
  /\ \A p \in posted :
       /\ p[1] \in Email /\ p[2] \in Card
       /\ Pipeline!IsComment(p[1]) /\ Carries(p[2], p[1])

(* Only the reading of an email and the two searches lead to a comment.    *)
LEMMA SearchStep ==
  ASSUME CommentInv, Pipeline!Next
  PROVE  /\ pc' \in Searching => Pipeline!IsComment(email')
         /\ pc' = "comment" => card' \in Card /\ Carries(card, email)'
<1> USE DEF CommentInv, Searching, Carries
<1>0. \A c \in Card : Carries(c, email) /\ UNCHANGED email => Carries(c, email)'
  BY BoardStep
<1>1. CASE Pipeline!Parse
  <2>1. email' = email /\ pc' \in {"failed", "search", "dedup"}
    BY <1>1 DEF Pipeline!Parse, Pipeline!Goto, Pipeline!MailRaise, Pipeline!Route
  <2>2. pc' = "search" => Pipeline!IsComment(email)
    BY <1>1 DEF Pipeline!Parse, Pipeline!Goto, Pipeline!MailRaise, Pipeline!Route
  <2> QED
    BY <2>1, <2>2
<1>2. CASE Pipeline!Search \/ Pipeline!SearchArchive
  <2>1. /\ pc \in Searching /\ UNCHANGED <<email, board>>
        /\ pc' = "comment" => \E c \in Card : card' = c /\ board[c].ref = RefOf[email]
                                 /\ board[c].state \in {"open", "archived"}
    BY <1>2 DEF Pipeline!Search, Pipeline!SearchArchive, Pipeline!Goto, Pipeline!MailRaise,
                Pipeline!Matches, Pipeline!service
  <2> QED
    BY <2>1
<1>3. CASE pc' \notin Searching
  BY <1>3
<1>4. CASE UNCHANGED <<pc, email, card>>
  BY <1>0, <1>4
<1>5. Pipeline!ProcessMailbox =>
        \/ Pipeline!Parse \/ Pipeline!Search \/ Pipeline!SearchArchive \/ pc' \notin Searching
  BY DEF Pipeline!ProcessMailbox, Pipeline!ProcessOne, Pipeline!Goto, Pipeline!MailRaise,
         Pipeline!RunRaise, Pipeline!Compensate,
         Pipeline!StartRun, Pipeline!List, Pipeline!Fetch, Pipeline!FetchEnds,
         Pipeline!TakeEmail, Pipeline!LoopEnds, Pipeline!AddComment, Pipeline!Dedup,
         Pipeline!Build, Pipeline!CreateCard, Pipeline!Attach, Pipeline!Describe,
         Pipeline!Undo, Pipeline!Record, Pipeline!MarkProcessed, Pipeline!MarkFailed,
         Pipeline!EndRun
<1>6. Pipeline!Environment => UNCHANGED <<pc, email, card>> \/ pc' \notin Searching
  BY DEF Pipeline!Environment, Pipeline!DeadlinePasses, Pipeline!Crash, Pipeline!Arrive,
         Pipeline!Requeue, Pipeline!MoveCard
<1> QED
  BY <1>1, <1>2, <1>3, <1>4, <1>5, <1>6 DEF Pipeline!Next

(* Only AddComment posts, on the card in hand.                             *)
LEMMA PostedStep ==
  ASSUME CommentInv, Pipeline!Next
  PROVE  \/ UNCHANGED posted
         \/ pc = "comment" /\ posted' = posted \union {<<email, card>>}
<1> QED
  BY DEF Pipeline!Next, Pipeline!ProcessMailbox, Pipeline!ProcessOne, Pipeline!Environment,
         Pipeline!StartRun, Pipeline!List, Pipeline!Fetch, Pipeline!FetchEnds,
         Pipeline!TakeEmail, Pipeline!LoopEnds, Pipeline!Parse, Pipeline!Search,
         Pipeline!SearchArchive, Pipeline!AddComment, Pipeline!Dedup, Pipeline!Build,
         Pipeline!CreateCard, Pipeline!Attach, Pipeline!Describe, Pipeline!Undo,
         Pipeline!Record, Pipeline!MarkProcessed, Pipeline!MarkFailed, Pipeline!EndRun,
         Pipeline!DeadlinePasses, Pipeline!Crash, Pipeline!Arrive, Pipeline!Requeue,
         Pipeline!MoveCard, Pipeline!service

LEMMA CommentInvStep == CommentInv /\ [Next]_vars => CommentInv'
<1> SUFFICES ASSUME CommentInv, [Next]_vars PROVE CommentInv'
  OBVIOUS
<1>1. IntakeInv'
  BY IntakeInvStep DEF CommentInv
<1>2. CASE UNCHANGED Pipeline!vars
  BY <1>1, <1>2 DEF CommentInv, Carries, Pipeline!vars
<1>3. CASE Pipeline!Next
  <2>1. /\ pc' \in Searching => Pipeline!IsComment(email')
        /\ pc' = "comment" => card' \in Card /\ Carries(card, email)'
    BY <1>3, SearchStep
  <2>2. \A c \in Card : \A e \in Email : Carries(c, e) => Carries(c, e)'
    BY <1>3, BoardStep DEF Carries, CommentInv
  <2>3. ASSUME NEW p \in posted'
        PROVE  /\ p[1] \in Email /\ p[2] \in Card
               /\ Pipeline!IsComment(p[1]) /\ Carries(p[2], p[1])'
    <3>1. CASE p \in posted
      BY <2>2, <3>1 DEF CommentInv
    <3>2. CASE pc = "comment" /\ p = <<email, card>>
      <4>1. email \in Email
        BY <3>2 DEF CommentInv, IntakeInv, WithEmail, Pipeline!MailCalls
      <4>2. Pipeline!IsComment(email) /\ card \in Card /\ Carries(card, email)
        BY <3>2 DEF CommentInv, Searching
      <4> QED
        BY <2>2, <3>2, <4>1, <4>2
    <3> QED
      BY <1>3, <3>1, <3>2, PostedStep
  <2> QED
    BY <1>1, <2>1, <2>3 DEF CommentInv
<1>4. CASE UNCHANGED vars
  BY <1>1, <1>2, <1>4 DEF vars, pipeline, service, progress, Pipeline!vars
<1> QED
  BY <1>2, <1>3, <1>4, StepRefines DEF CommentInv

(* When the subjects of comments name the claim their sender means, each   *)
(* comment is on a card of that claim, whatever the other claims' numbers  *)
(* begin with and whatever fails, crashes or is moved.                     *)
THEOREM CommentsFindTheirClaim ==
  ASSUME \A e \in Email : Pipeline!IsComment(e) => RefOf[e] = About[e]
  PROVE  Spec => []CommentOnItsOwnClaim
<1>1. Init => CommentInv
  BY IntakeInvInit DEF Init, Pipeline!Init, CommentInv, Searching
<1>2. CommentInv => CommentOnItsOwnClaim
  BY DEF CommentInv, Carries, CommentOnItsOwnClaim
<1> QED
  BY <1>1, <1>2, CommentInvStep, PTL DEF Spec
-----------------------------------------------------------------------------
(* An open call has a CallState of its own, whose hook has met no response *)
(* yet.                                                                    *)
CallInv == call => length = FALSE

(* No step opens a call without a CallState of its own.                    *)
LEMMA CallInvStep == CallInv /\ [Next]_vars => CallInv'
<1> SUFFICES ASSUME CallInv, [Next]_vars PROVE CallInv'
  OBVIOUS
<1>1. CASE UNCHANGED reading
  BY <1>1 DEF CallInv, reading
<1>2. CASE call' = FALSE
  BY <1>2 DEF CallInv
<1>3. CASE CallModel
  BY <1>3 DEF CallInv, CallModel
<1>4. CASE UNCHANGED <<call, length>>
  BY <1>4 DEF CallInv
<1>5. ASSUME Next
      PROVE  \/ UNCHANGED reading \/ call' = FALSE \/ CallModel \/ UNCHANGED <<call, length>>
  BY <1>5 DEF Next, ProcessMailbox, TakeEmail, Parse, ParseRefused, ExtractRegex, ModelAnswers,
              ModelFails, ModelBreaks, FindCard, Find, BuildCard, OtherStep, Environment, reading
<1> QED
  BY <1>1, <1>2, <1>3, <1>4, <1>5 DEF vars, reading

(* What a failed call reports, when its own CallState is asked: the cut,   *)
(* and nothing else, is a truncation.                                      *)
LEMMA CauseIsReported ==
  ASSUME CallInv, NEW cause \in Cause, ModelFails(cause)
  PROVE  ClassifyFailure(cause, length') = "truncation" <=> cause = "cut"
<1>1. length' = (cause = "cut")
  BY DEF CallInv, ModelFails, CutShort
<1>2. CASE cause = "cut"
  BY <1>1, <1>2 DEF ClassifyFailure
<1>3. CASE cause # "cut"
  BY <1>1, <1>3 DEF ClassifyFailure, Cause
<1> QED
  BY <1>2, <1>3

(* classify_failure with a CallState per call: whatever the calls before   *)
(* it met, and however often the host was killed in the middle of one, a   *)
(* truncation is reported when and only when this call was cut.            *)
THEOREM FailureClassIsTrue == Spec => FallbackClassIsTrue
<1>1. Init => CallInv
  BY DEF Init, CallInv
<1>2. CallInv /\ [Next]_vars =>
        [\A cause \in Cause :
           ModelFails(cause) =>
             (ClassifyFailure(cause, length') = "truncation" <=> cause = "cut")]_vars
  BY CauseIsReported
<1> QED
  BY <1>1, <1>2, CallInvStep, PTL DEF Spec, FallbackClassIsTrue
-----------------------------------------------------------------------------
(* What is proved of the pipeline, for a mailbox that is read in detail:   *)
(* the theorems of ClaimPipelineProofs, with its constants computed here.  *)
Proved == INSTANCE ClaimPipelineProofs

(* The constants that are computed from the messages meet the assumptions  *)
(* of ClaimPipeline.                                                       *)
LEMMA ConstantsFit ==
  /\ NoEmail \notin Email /\ NoRef \notin Ref /\ NoCard \notin Card
  /\ Trusted \subseteq Email /\ Noticed \subseteq Email /\ Placed \subseteq Email
  /\ Findable \subseteq Email
  /\ Type \in [Email -> Proved!CommentTypes \union Proved!CardTypes \union {Proved!NoType}]
  /\ RefOf \in [Email -> Ref \union {NoRef}]
  /\ Date \in [Email -> Nat]
  /\ PageMax \in Nat \ {0}
  /\ MayFail \subseteq Proved!MailCalls \union Proved!RunCalls
  /\ Budget \in [Proved!Mishap -> Nat]
  /\ MaxKinds \in Nat
<1> QED
  BY IntakeConstants
     DEF Pipeline!PipelineConstants,
         Proved!CommentTypes, Pipeline!CommentTypes, Proved!CardTypes,
         Pipeline!CardTypes, Proved!NoType, Pipeline!NoType, Proved!MailCalls,
         Pipeline!MailCalls, Proved!RunCalls, Pipeline!RunCalls, Proved!Mishap,
         Pipeline!Mishap

(* The two instances of the pipeline are the same specification.           *)
LEMMA SamePipeline == Pipeline!Spec => Proved!Spec
<1>1. Pipeline!Init => Proved!Init
  BY DEF
     Proved!Init, Pipeline!Init, Proved!Blank, Pipeline!Blank, Proved!Mishap,
     Pipeline!Mishap
<1>2. [Pipeline!Next]_(Pipeline!vars) => [Proved!Next]_(Proved!vars)
  <2>0. \A S : Pipeline!Cardinality(S) = Proved!Cardinality(S)
    BY DEF Pipeline!Cardinality, Proved!Cardinality
  <2>1. (Pipeline!StartRun \/ Pipeline!List \/ (\E e \in Email : Pipeline!Fetch(e)) \/ Pipeline!FetchEnds)
       => Proved!StartRun \/ Proved!List \/ (\E e \in Email : Proved!Fetch(e)) \/ Proved!FetchEnds
    BY <2>0 DEF
       Proved!StartRun, Pipeline!StartRun, Proved!List, Pipeline!List, Proved!Fetch,
       Pipeline!Fetch, Proved!FetchEnds, Pipeline!FetchEnds, Proved!Page,
       Pipeline!Page, Proved!Unread, Pipeline!Unread, Proved!Goto, Pipeline!Goto,
       Proved!RunRaise, Pipeline!RunRaise, Proved!Spend, Pipeline!Spend,
       Proved!MayHappen, Pipeline!MayHappen, Proved!Mishap, Pipeline!Mishap,
       Proved!service, Pipeline!service, Proved!progress, Pipeline!progress
  <2>2. ((\E e \in Email : Pipeline!TakeEmail(e)) \/ Pipeline!LoopEnds \/ Pipeline!EndRun)
       => (\E e \in Email : Proved!TakeEmail(e)) \/ Proved!LoopEnds \/ Proved!EndRun
    BY <2>0 DEF
       Proved!TakeEmail, Pipeline!TakeEmail, Proved!LoopEnds, Pipeline!LoopEnds,
       Proved!EndRun, Pipeline!EndRun, Proved!Todo, Pipeline!Todo, Proved!InTime,
       Pipeline!InTime, Proved!Oldest, Pipeline!Oldest, Proved!Goto, Pipeline!Goto,
       Proved!service, Pipeline!service, Proved!progress, Pipeline!progress
  <2>3. (Pipeline!Parse)
       => Proved!Parse
    BY <2>0 DEF
       Proved!Parse, Pipeline!Parse, Proved!Route, Pipeline!Route, Proved!Refused,
       Pipeline!Refused, Proved!Finds, Pipeline!Finds, Proved!Parsed, Pipeline!Parsed, Proved!IsComment,
       Pipeline!IsComment, Proved!CommentTypes, Pipeline!CommentTypes, Proved!NoType,
       Pipeline!NoType, Proved!Goto, Pipeline!Goto, Proved!MailRaise,
       Pipeline!MailRaise, Proved!Spend, Pipeline!Spend, Proved!MayHappen,
       Pipeline!MayHappen, Proved!Mishap, Pipeline!Mishap, Proved!LastCalls,
       Pipeline!LastCalls, Proved!service, Pipeline!service, Proved!progress,
       Pipeline!progress
  <2>4. (Pipeline!Search \/ Pipeline!SearchArchive)
       => Proved!Search \/ Proved!SearchArchive
    BY <2>0 DEF
       Proved!Search, Pipeline!Search, Proved!SearchArchive, Pipeline!SearchArchive,
       Proved!Matches, Pipeline!Matches, Proved!Goto, Pipeline!Goto, Proved!MailRaise,
       Pipeline!MailRaise, Proved!Spend, Pipeline!Spend, Proved!MayHappen,
       Pipeline!MayHappen, Proved!Mishap, Pipeline!Mishap, Proved!LastCalls,
       Pipeline!LastCalls, Proved!service, Pipeline!service, Proved!progress,
       Pipeline!progress
  <2>5. (Pipeline!AddComment \/ Pipeline!Dedup \/ Pipeline!Build)
       => Proved!AddComment \/ Proved!Dedup \/ Proved!Build
    BY <2>0 DEF
       Proved!AddComment, Pipeline!AddComment, Proved!Dedup, Pipeline!Dedup,
       Proved!Recorded, Pipeline!Recorded, Proved!Build, Pipeline!Build, Proved!Finds,
       Pipeline!Finds, Proved!Goto,
       Pipeline!Goto, Proved!MailRaise, Pipeline!MailRaise, Proved!Spend,
       Pipeline!Spend, Proved!MayHappen, Pipeline!MayHappen, Proved!Mishap,
       Pipeline!Mishap, Proved!LastCalls, Pipeline!LastCalls, Proved!service,
       Pipeline!service, Proved!progress, Pipeline!progress
  <2>6. (Pipeline!CreateCard \/ Pipeline!Record \/ Pipeline!Undo)
       => Proved!CreateCard \/ Proved!Record \/ Proved!Undo
    BY <2>0 DEF
       Proved!CreateCard, Pipeline!CreateCard, Proved!Blank, Pipeline!Blank,
       Proved!NewCard, Pipeline!NewCard, Proved!Record, Pipeline!Record, Proved!Undo,
       Pipeline!Undo, Proved!Goto, Pipeline!Goto, Proved!MailRaise, Pipeline!MailRaise,
       Proved!Spend, Pipeline!Spend, Proved!MayHappen, Pipeline!MayHappen,
       Proved!Mishap, Pipeline!Mishap, Proved!LastCalls, Pipeline!LastCalls,
       Proved!service, Pipeline!service, Proved!progress, Pipeline!progress
  <2>7. (Pipeline!Attach \/ Pipeline!Describe)
       => Proved!Attach \/ Proved!Describe
    BY <2>0 DEF
       Proved!Attach, Pipeline!Attach, Proved!Describe, Pipeline!Describe, Proved!Goto,
       Pipeline!Goto, Proved!Compensate, Pipeline!Compensate, Proved!Spend,
       Pipeline!Spend, Proved!MayHappen, Pipeline!MayHappen, Proved!Mishap,
       Pipeline!Mishap, Proved!With, Pipeline!With, Proved!service, Pipeline!service,
       Proved!progress, Pipeline!progress
  <2>8. (Pipeline!MarkProcessed \/ Pipeline!MarkFailed)
       => Proved!MarkProcessed \/ Proved!MarkFailed
    BY <2>0 DEF
       Proved!MarkProcessed, Pipeline!MarkProcessed, Proved!MarkFailed,
       Pipeline!MarkFailed, Proved!Relabelled, Pipeline!Relabelled, Proved!Goto,
       Pipeline!Goto, Proved!RunRaise, Pipeline!RunRaise, Proved!Spend, Pipeline!Spend,
       Proved!MayHappen, Pipeline!MayHappen, Proved!Mishap, Pipeline!Mishap,
       Proved!service, Pipeline!service, Proved!progress, Pipeline!progress
  <2>9. /\ (Pipeline!DeadlinePasses => Proved!DeadlinePasses)
        /\ (Pipeline!Crash => Proved!Crash)
        /\ (\A e \in Email : Pipeline!Arrive(e) => Proved!Arrive(e))
        /\ (\A e \in Email : Pipeline!Requeue(e) => Proved!Requeue(e))
    BY <2>0 DEF
       Proved!DeadlinePasses, Pipeline!DeadlinePasses, Proved!Crash, Pipeline!Crash,
       Proved!Arrive, Pipeline!Arrive, Proved!Requeue, Pipeline!Requeue, Proved!Unread,
       Pipeline!Unread, Proved!Spend, Pipeline!Spend, Proved!MayHappen,
       Pipeline!MayHappen, Proved!Mishap, Pipeline!Mishap, Proved!service,
       Pipeline!service, Proved!progress, Pipeline!progress
  <2>10. (\E c \in Card : Pipeline!MoveCard(c))
       => (\E c \in Card : Proved!MoveCard(c))
    BY <2>0 DEF
       Proved!MoveCard, Pipeline!MoveCard, Proved!Exists, Pipeline!Exists,
       Proved!Spend, Pipeline!Spend, Proved!MayHappen, Pipeline!MayHappen,
       Proved!Mishap, Pipeline!Mishap, Proved!service, Pipeline!service,
       Proved!progress, Pipeline!progress
  <2>20. UNCHANGED Pipeline!vars => UNCHANGED Proved!vars
    BY DEF Pipeline!vars, Proved!vars
  <2> QED
    BY <2>1, <2>2, <2>3, <2>4, <2>5, <2>6, <2>7, <2>8, <2>9, <2>10, <2>20
       DEF Pipeline!Next, Pipeline!ProcessMailbox, Pipeline!ProcessOne, Pipeline!Environment,
           Proved!Next, Proved!ProcessMailbox, Proved!ProcessOne, Proved!Environment
<1> QED
  BY <1>1, <1>2, PTL DEF Pipeline!Spec, Proved!Spec

(* The mailbox read in detail keeps all that is proved of the pipeline:    *)
(* whatever the model answers or fails to answer, `procesado` is durable,  *)
(* the ledger names complete cards, strays are paid for, good claims are   *)
(* not burned and a claim has one card.                                    *)
THEOREM IntakeKeepsThePipelineSafe ==
  Spec => [](/\ Proved!ProcesadoIsDurable /\ Proved!LedgerNamesFullCard
             /\ Proved!StraysArePaidFor /\ Proved!GoodClaimNotBurned
             /\ Proved!NoDuplicateCard /\ Proved!CommentFollowsItsClaim)
<1>1. Spec => Proved!Spec
  BY IntakeRefinesPipeline, SamePipeline, PTL DEF ImplementsPipeline
<1>2. Proved!Spec => []Proved!ProcesadoIsDurable
  BY ConstantsFit, Proved!Durability
<1>3. Proved!Spec => []Proved!LedgerNamesFullCard
  BY ConstantsFit, Proved!LedgerSound
<1>4. Proved!Spec => []Proved!StraysArePaidFor
  BY ConstantsFit, Proved!StraysBounded
<1>5. Proved!Spec => []Proved!GoodClaimNotBurned
  BY ConstantsFit, Proved!ClaimsNotBurned
<1>6. Proved!Spec => []Proved!NoDuplicateCard
  BY ConstantsFit, Proved!NoDuplicateWithoutCrash
<1>7. Proved!Spec => []Proved!CommentFollowsItsClaim
  BY ConstantsFit, Proved!CommentsFollow
<1> QED
  BY <1>1, <1>2, <1>3, <1>4, <1>5, <1>6, <1>7, PTL

(* When the subjects of comments name the claim their sender means, a good *)
(* comunicación or gestión whose claim is in the ledger is not labelled    *)
(* `failed`, whatever the model does, whatever crashes and whichever form  *)
(* the subject has, unless a call failed or the operator moved a card.     *)
THEOREM NoticesReachTheirClaim ==
  ASSUME \A e \in Email : Pipeline!IsComment(e) => RefOf[e] = About[e]
  PROVE  Spec => NoticeReachesItsClaim
<1> DEFINE Reached ==
             \A e \in Email :
               /\ "failed" \in labels'[e] /\ "failed" \notin labels[e]
               /\ About[e] \in Ref /\ Pipeline!IsComment(e) /\ Pipeline!Good(e)
               /\ ~Pipeline!MailFailed /\ spent["move"] = 0
               => ledger[About[e]] = NoCard
           Wanted ==
             \A e \in Email :
               /\ "failed" \in labels'[e] /\ "failed" \notin labels[e]
               /\ Proved!IsComment(e) /\ Proved!Good(e) /\ Proved!Undisturbed
               => ledger[RefOf[e]] = NoCard
<1>1. Spec => Proved!Spec
  BY IntakeRefinesPipeline, SamePipeline, PTL DEF ImplementsPipeline
<1>2. Proved!Spec => Proved!NoticesAreNotBurned
  BY ConstantsFit, Proved!NoticesReachTheirCard
<1>3. /\ \A e \in Email : Pipeline!IsComment(e) /\ Pipeline!Good(e) =>
                            Proved!IsComment(e) /\ Proved!Good(e)
      /\ ~Pipeline!MailFailed /\ spent["move"] = 0 => Proved!Undisturbed
  BY DEF Pipeline!IsComment, Pipeline!Good, Pipeline!Refused, Pipeline!Parsed, Pipeline!IsClaim,
         Pipeline!CommentTypes, Pipeline!CardTypes, Pipeline!NoType, Pipeline!MailFailed,
         Proved!IsComment, Proved!Good, Proved!Refused, Proved!Parsed, Proved!IsClaim,
         Proved!CommentTypes, Proved!CardTypes, Proved!NoType, Proved!MailFailed,
         Proved!Undisturbed
<1>4. Wanted => Reached
  BY <1>3
<1>5. UNCHANGED Proved!vars => Reached
  BY DEF Proved!vars
<1>6. [Wanted]_(Proved!vars) => [Reached]_vars
  BY <1>4, <1>5
<1>7. Proved!NoticesAreNotBurned => [][Wanted]_(Proved!vars)
  BY PTL DEF Proved!NoticesAreNotBurned
<1> QED
  BY <1>1, <1>2, <1>6, <1>7, PTL DEF NoticeReachesItsClaim
=============================================================================
