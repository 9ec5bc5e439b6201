------------------------ MODULE ClaimPipelineProofs -------------------------
(***************************************************************************)
(* The durability of the pipeline, for every mailbox, board, page size and *)
(* number of mishaps.                                                      *)
(***************************************************************************)
EXTENDS ClaimPipeline, FiniteSetTheorems, TLAPS

(* The calls of a comment, of a claim, and of a claim that is not          *)
(* recorded.                                                               *)
CommentCalls == {"search", "archive", "comment"}
UnitCalls    == {"attach", "describe", "undo", "record"}
NewCalls     == {"build", "create"} \union UnitCalls
ClaimCalls   == {"dedup"} \union NewCalls

(* What is true of the email in hand when it is about to be relabelled     *)
(* `procesado`.                                                            *)
Effect(e) ==
  /\ RefOf[e] \in Ref
  /\ IsClaim(e) => ledger[RefOf[e]] # NoCard
  /\ IsComment(e) => \E c \in Card : <<e, c>> \in posted

(* The email in hand is one of the fetched, is on the path of its type,    *)
(* and what the earlier calls of that path established still holds.        *)
HandInv ==
  /\ pc = "list" => fetched = {}
  /\ pc \in CommentCalls \union ClaimCalls \union {"parse", "processed", "failed"} =>
       email \in fetched
  /\ pc \in CommentCalls => IsComment(email) /\ RefOf[email] \in Ref
  /\ pc \in ClaimCalls => IsClaim(email) /\ RefOf[email] \in Ref
  /\ pc = "comment" => card \in Card /\ board[card].ref = RefOf[email]
  /\ pc \in NewCalls => ledger[RefOf[email]] = NoCard
  /\ pc \in UnitCalls =>
       card \in Card /\ Exists(card) /\ board[card].ref = RefOf[email]
  /\ pc = "describe" => "pdf" \in board[card].has
  /\ pc = "record" => Full(card)
  /\ pc = "processed" => Effect(email)

(* A comment is on a card of its email's own claim.                        *)
PostedInv ==
  \A e \in Email, c \in Card :
    <<e, c>> \in posted => RefOf[e] \in Ref /\ board[c].ref = RefOf[e]

(* An email with `procesado` has had its effect.                           *)
DurableInv == \A e \in Email : "procesado" \in labels[e] => Effect(e)

PipelineInv == TypeOK /\ HandInv /\ PostedInv /\ LedgerNamesFullCard /\ DurableInv
-----------------------------------------------------------------------------
(* The fresh deployment satisfies the inductive invariant.                 *)
LEMMA InitPipelineInv == ASSUME Init PROVE PipelineInv
<1> USE PipelineConstants DEF Init
<1>1. TypeOK
  <2>1. board \in [Card -> [ref : Ref \union {NoRef}, has : SUBSET Parts,
                            state : {"none", "open", "archived", "deleted"}]]
    BY DEF Blank
  <2>2. spent \in [Mishap -> Nat] /\ \A m \in Mishap : spent[m] <= Budget[m]
    <3>1. \A m \in Mishap : Budget[m] \in Nat /\ spent[m] = 0 OBVIOUS
    <3> QED BY <3>1
  <2> QED BY <2>1, <2>2 DEF TypeOK
<1>2. HandInv
  BY DEF HandInv, CommentCalls, ClaimCalls, NewCalls, UnitCalls
<1>3. PostedInv BY DEF PostedInv
<1>4. LedgerNamesFullCard BY DEF LedgerNamesFullCard
<1>5. DurableInv BY DEF DurableInv
<1> QED BY <1>1, <1>2, <1>3, <1>4, <1>5 DEF PipelineInv

(* A mishap stays within its budget.                                       *)
LEMMA SpendWithinBudget ==
  ASSUME TypeOK, NEW m \in Mishap, Spend(m)
  PROVE  spent' \in [Mishap -> Nat] /\ \A n \in Mishap : spent'[n] <= Budget[n]
<1>1. spent \in [Mishap -> Nat] /\ \A n \in Mishap : spent[n] <= Budget[n]
  BY DEF TypeOK
<1>2. \A n \in Mishap : Budget[n] \in Nat BY PipelineConstants
<1>3. spent[m] < Budget[m] /\ spent' = [spent EXCEPT ![m] = spent[m] + 1] BY DEF Spend, MayHappen
<1>4. \A n \in Mishap : spent[n] \in Nat BY <1>1
<1>5. spent[m] + 1 \in Nat /\ spent[m] + 1 <= Budget[m] BY <1>2, <1>3, <1>4
<1>6. \A n \in Mishap : spent'[n] = IF n = m THEN spent[m] + 1 ELSE spent[n]
  BY <1>1, <1>3
<1>7. spent' \in [Mishap -> Nat] BY <1>1, <1>3, <1>5
<1>8. \A n \in Mishap : spent'[n] <= Budget[n] BY <1>1, <1>5, <1>6
<1> QED BY <1>7, <1>8

(* A call that fails, or not, leaves `spent` well formed.                  *)
LEMMA SpentOK ==
  ASSUME TypeOK,
         \/ UNCHANGED spent
         \/ \E m \in Mishap : Spend(m)
  PROVE  spent' \in [Mishap -> Nat] /\ \A n \in Mishap : spent'[n] <= Budget[n]
BY SpendWithinBudget DEF TypeOK

(* A step that leaves Gmail, Trello and the tables alone keeps what is     *)
(* said of them.                                                           *)
LEMMA ServicesUntouched ==
  ASSUME PostedInv, LedgerNamesFullCard, DurableInv, UNCHANGED service
  PROVE  PostedInv' /\ LedgerNamesFullCard' /\ DurableInv'
BY DEF PostedInv, LedgerNamesFullCard, DurableInv, Effect, service, Full, Exists

(* A card named by the ledger is neither blank nor the one in hand before  *)
(* it is recorded.                                                         *)
LEMMA LedgeredCardIsOld ==
  ASSUME PipelineInv, NEW r \in Ref, ledger[r] # NoCard
  PROVE  /\ ledger[r] \in Card
         /\ board[ledger[r]] # Blank
         /\ pc \in UnitCalls => ledger[r] # card
<1>1. ledger[r] \in Card BY DEF PipelineInv, TypeOK
<1>2. board[ledger[r]] # Blank
  BY DEF PipelineInv, LedgerNamesFullCard, Exists, Blank
<1>3. pc \in UnitCalls => ledger[r] # card
  BY DEF PipelineInv, LedgerNamesFullCard, HandInv, NewCalls
<1> QED BY <1>1, <1>2, <1>3


(* The steps that touch no service: they only move the run.                *)
LEMMA QuietSteps ==
  ASSUME PipelineInv,
         \/ StartRun \/ List \/ (\E e \in Email : Fetch(e)) \/ FetchEnds
         \/ (\E e \in Email : TakeEmail(e)) \/ LoopEnds \/ Parse \/ Search \/ SearchArchive
         \/ Dedup \/ Build \/ EndRun \/ DeadlinePasses \/ Crash
  PROVE  PipelineInv'
<1> USE PipelineConstants DEF PipelineInv
<1>1. ASSUME StartRun PROVE PipelineInv'
  <2>1. UNCHANGED service
    BY <1>1 DEF StartRun, service
  <2>2. spent' \in [Mishap -> Nat] /\ \A m \in Mishap : spent'[m] <= Budget[m]
    <3>1. UNCHANGED spent \/ \E m \in Mishap : Spend(m)
      BY <1>1 DEF StartRun, Goto, Mishap
    <3> QED BY <3>1, SpentOK
  <2>3. TypeOK'
    BY <1>1, <2>1, <2>2 DEF TypeOK, StartRun, Goto, service, progress, MailCalls, RunCalls
  <2>4. HandInv'
    BY <1>1, <2>1 DEF TypeOK, StartRun, Goto, service, progress, Exists, Full, Effect,
       HandInv, CommentCalls, ClaimCalls, NewCalls, UnitCalls
  <2> QED BY <2>1, <2>3, <2>4, ServicesUntouched
<1>2. ASSUME List PROVE PipelineInv'
  <2>1. UNCHANGED service
    BY <1>2 DEF List, service
  <2>2. spent' \in [Mishap -> Nat] /\ \A m \in Mishap : spent'[m] <= Budget[m]
    <3>1. UNCHANGED spent \/ \E m \in Mishap : Spend(m)
      BY <1>2 DEF List, RunRaise, Goto, Mishap
    <3> QED BY <3>1, SpentOK
  <2>3. TypeOK'
    BY <1>2, <2>1, <2>2 DEF TypeOK, List, RunRaise, Goto, service, progress, MailCalls, RunCalls, HandInv, Unread
  <2>4. HandInv'
    BY <1>2, <2>1 DEF TypeOK, List, RunRaise, Goto, service, progress, Exists, Full, Effect,
       HandInv, CommentCalls, ClaimCalls, NewCalls, UnitCalls
  <2> QED BY <2>1, <2>3, <2>4, ServicesUntouched
<1>3. ASSUME NEW e \in Email, Fetch(e) PROVE PipelineInv'
  <2>1. UNCHANGED service
    BY <1>3 DEF Fetch, service
  <2>2. spent' \in [Mishap -> Nat] /\ \A m \in Mishap : spent'[m] <= Budget[m]
    <3>1. UNCHANGED spent \/ \E m \in Mishap : Spend(m)
      BY <1>3 DEF Fetch, RunRaise, Goto, Mishap
    <3> QED BY <3>1, SpentOK
  <2>3. TypeOK'
    BY <1>3, <2>1, <2>2 DEF TypeOK, Fetch, RunRaise, Goto, service, progress, MailCalls, RunCalls
  <2>4. HandInv'
    BY <1>3, <2>1 DEF TypeOK, Fetch, RunRaise, Goto, service, progress, Exists, Full, Effect,
       HandInv, CommentCalls, ClaimCalls, NewCalls, UnitCalls
  <2> QED BY <2>1, <2>3, <2>4, ServicesUntouched
<1>4. ASSUME FetchEnds PROVE PipelineInv'
  <2>1. UNCHANGED service
    BY <1>4 DEF FetchEnds, service
  <2>2. spent' \in [Mishap -> Nat] /\ \A m \in Mishap : spent'[m] <= Budget[m]
    <3>1. UNCHANGED spent \/ \E m \in Mishap : Spend(m)
      BY <1>4 DEF FetchEnds, Goto, Mishap
    <3> QED BY <3>1, SpentOK
  <2>3. TypeOK'
    BY <1>4, <2>1, <2>2 DEF TypeOK, FetchEnds, Goto, service, progress, MailCalls, RunCalls
  <2>4. HandInv'
    BY <1>4, <2>1 DEF TypeOK, FetchEnds, Goto, service, progress, Exists, Full, Effect,
       HandInv, CommentCalls, ClaimCalls, NewCalls, UnitCalls
  <2> QED BY <2>1, <2>3, <2>4, ServicesUntouched
<1>5. ASSUME NEW e \in Email, TakeEmail(e) PROVE PipelineInv'
  <2>1. UNCHANGED service
    BY <1>5 DEF TakeEmail, service
  <2>2. spent' \in [Mishap -> Nat] /\ \A m \in Mishap : spent'[m] <= Budget[m]
    <3>1. UNCHANGED spent \/ \E m \in Mishap : Spend(m)
      BY <1>5 DEF TakeEmail, Goto, Todo, Mishap
    <3> QED BY <3>1, SpentOK
  <2>3. TypeOK'
    BY <1>5, <2>1, <2>2 DEF TypeOK, TakeEmail, Goto, Todo, service, progress, MailCalls, RunCalls
  <2>4. HandInv'
    BY <1>5, <2>1 DEF TypeOK, TakeEmail, Goto, Todo, service, progress, Exists, Full, Effect,
       HandInv, CommentCalls, ClaimCalls, NewCalls, UnitCalls
  <2> QED BY <2>1, <2>3, <2>4, ServicesUntouched
<1>6. ASSUME LoopEnds PROVE PipelineInv'
  <2>1. UNCHANGED service
    BY <1>6 DEF LoopEnds, service
  <2>2. spent' \in [Mishap -> Nat] /\ \A m \in Mishap : spent'[m] <= Budget[m]
    <3>1. UNCHANGED spent \/ \E m \in Mishap : Spend(m)
      BY <1>6 DEF LoopEnds, Goto, Mishap
    <3> QED BY <3>1, SpentOK
  <2>3. TypeOK'
    BY <1>6, <2>1, <2>2 DEF TypeOK, LoopEnds, Goto, service, progress, MailCalls, RunCalls
  <2>4. HandInv'
    BY <1>6, <2>1 DEF TypeOK, LoopEnds, Goto, service, progress, Exists, Full, Effect,
       HandInv, CommentCalls, ClaimCalls, NewCalls, UnitCalls
  <2> QED BY <2>1, <2>3, <2>4, ServicesUntouched
<1>7. ASSUME Search PROVE PipelineInv'
  <2>1. UNCHANGED service
    BY <1>7 DEF Search, service
  <2>2. spent' \in [Mishap -> Nat] /\ \A m \in Mishap : spent'[m] <= Budget[m]
    <3>1. UNCHANGED spent \/ \E m \in Mishap : Spend(m)
      BY <1>7 DEF Search, MailRaise, LastCalls, Goto, Matches, Mishap
    <3> QED BY <3>1, SpentOK
  <2>3. TypeOK'
    BY <1>7, <2>1, <2>2 DEF TypeOK, Search, MailRaise, Goto, Matches, service, progress, MailCalls, RunCalls
  <2>4. HandInv'
    BY <1>7, <2>1 DEF TypeOK, Search, MailRaise, Goto, Matches, service, progress, Exists, Full, Effect,
       HandInv, CommentCalls, ClaimCalls, NewCalls, UnitCalls, Matches
  <2> QED BY <2>1, <2>3, <2>4, ServicesUntouched
<1>8. ASSUME SearchArchive PROVE PipelineInv'
  <2>1. UNCHANGED service
    BY <1>8 DEF SearchArchive, service
  <2>2. spent' \in [Mishap -> Nat] /\ \A m \in Mishap : spent'[m] <= Budget[m]
    <3>1. UNCHANGED spent \/ \E m \in Mishap : Spend(m)
      BY <1>8 DEF SearchArchive, MailRaise, LastCalls, Goto, Matches, Mishap
    <3> QED BY <3>1, SpentOK
  <2>3. TypeOK'
    BY <1>8, <2>1, <2>2 DEF TypeOK, SearchArchive, MailRaise, Goto, Matches, service, progress, MailCalls, RunCalls
  <2>4. HandInv'
    BY <1>8, <2>1 DEF TypeOK, SearchArchive, MailRaise, Goto, Matches, service, progress, Exists, Full, Effect,
       HandInv, CommentCalls, ClaimCalls, NewCalls, UnitCalls, Matches
  <2> QED BY <2>1, <2>3, <2>4, ServicesUntouched
<1>9. ASSUME Dedup PROVE PipelineInv'
  <2>1. UNCHANGED service
    BY <1>9 DEF Dedup, service
  <2>2. spent' \in [Mishap -> Nat] /\ \A m \in Mishap : spent'[m] <= Budget[m]
    <3>1. UNCHANGED spent \/ \E m \in Mishap : Spend(m)
      BY <1>9 DEF Dedup, Recorded, MailRaise, LastCalls, Goto, Mishap
    <3> QED BY <3>1, SpentOK
  <2>3. TypeOK'
    BY <1>9, <2>1, <2>2 DEF TypeOK, Dedup, Recorded, MailRaise, Goto, service, progress, MailCalls, RunCalls
  <2>4. HandInv'
    BY <1>9, <2>1 DEF TypeOK, Dedup, Recorded, MailRaise, Goto, service, progress, Exists, Full, Effect,
       HandInv, CommentCalls, ClaimCalls, NewCalls, UnitCalls, Recorded, Effect, IsComment, IsClaim, CommentTypes, CardTypes
  <2> QED BY <2>1, <2>3, <2>4, ServicesUntouched
<1>10. ASSUME Build PROVE PipelineInv'
  <2>1. UNCHANGED service
    BY <1>10 DEF Build, service
  <2>2. spent' \in [Mishap -> Nat] /\ \A m \in Mishap : spent'[m] <= Budget[m]
    <3>1. UNCHANGED spent \/ \E m \in Mishap : Spend(m)
      BY <1>10 DEF Build, MailRaise, LastCalls, Goto, Mishap
    <3> QED BY <3>1, SpentOK
  <2>3. TypeOK'
    BY <1>10, <2>1, <2>2 DEF TypeOK, Build, MailRaise, Goto, service, progress, MailCalls, RunCalls
  <2>4. HandInv'
    BY <1>10, <2>1 DEF TypeOK, Build, MailRaise, Goto, service, progress, Exists, Full, Effect,
       HandInv, CommentCalls, ClaimCalls, NewCalls, UnitCalls
  <2> QED BY <2>1, <2>3, <2>4, ServicesUntouched
<1>11. ASSUME EndRun PROVE PipelineInv'
  <2>1. UNCHANGED service
    BY <1>11 DEF EndRun, service
  <2>2. spent' \in [Mishap -> Nat] /\ \A m \in Mishap : spent'[m] <= Budget[m]
    <3>1. UNCHANGED spent \/ \E m \in Mishap : Spend(m)
      BY <1>11 DEF EndRun, Goto, Mishap
    <3> QED BY <3>1, SpentOK
  <2>3. TypeOK'
    BY <1>11, <2>1, <2>2 DEF TypeOK, EndRun, Goto, service, progress, MailCalls, RunCalls
  <2>4. HandInv'
    BY <1>11, <2>1 DEF TypeOK, EndRun, Goto, service, progress, Exists, Full, Effect,
       HandInv, CommentCalls, ClaimCalls, NewCalls, UnitCalls
  <2> QED BY <2>1, <2>3, <2>4, ServicesUntouched
<1>12. ASSUME DeadlinePasses PROVE PipelineInv'
  <2>1. UNCHANGED service
    BY <1>12 DEF DeadlinePasses, service
  <2>2. spent' \in [Mishap -> Nat] /\ \A m \in Mishap : spent'[m] <= Budget[m]
    <3>1. UNCHANGED spent \/ \E m \in Mishap : Spend(m)
      BY <1>12 DEF DeadlinePasses, Mishap
    <3> QED BY <3>1, SpentOK
  <2>3. TypeOK'
    BY <1>12, <2>1, <2>2 DEF TypeOK, DeadlinePasses, service, progress, MailCalls, RunCalls
  <2>4. HandInv'
    BY <1>12, <2>1 DEF TypeOK, DeadlinePasses, service, progress, Exists, Full, Effect,
       HandInv, CommentCalls, ClaimCalls, NewCalls, UnitCalls
  <2> QED BY <2>1, <2>3, <2>4, ServicesUntouched
<1>13. ASSUME Crash PROVE PipelineInv'
  <2>1. UNCHANGED service
    BY <1>13 DEF Crash, service
  <2>2. spent' \in [Mishap -> Nat] /\ \A m \in Mishap : spent'[m] <= Budget[m]
    <3>1. UNCHANGED spent \/ \E m \in Mishap : Spend(m)
      BY <1>13 DEF Crash, Mishap
    <3> QED BY <3>1, SpentOK
  <2>3. TypeOK'
    BY <1>13, <2>1, <2>2 DEF TypeOK, Crash, service, progress, MailCalls, RunCalls
  <2>4. HandInv'
    BY <1>13, <2>1 DEF TypeOK, Crash, service, progress, Exists, Full, Effect,
       HandInv, CommentCalls, ClaimCalls, NewCalls, UnitCalls
  <2> QED BY <2>1, <2>3, <2>4, ServicesUntouched
<1>14. ASSUME Parse PROVE PipelineInv'
  <2>1. UNCHANGED service
    BY <1>14 DEF Parse, service
  <2>2. spent' \in [Mishap -> Nat] /\ \A m \in Mishap : spent'[m] <= Budget[m]
    <3>1. UNCHANGED spent \/ \E m \in Mishap : Spend(m)
      BY <1>14 DEF Parse, MailRaise, LastCalls, Goto, Mishap
    <3> QED BY <3>1, SpentOK
  <2>3. TypeOK'
    BY <1>14, <2>1, <2>2 DEF TypeOK, Parse, Route, MailRaise, Goto, service, progress, MailCalls, RunCalls
  <2>4. HandInv'
    BY <1>14, <2>1 DEF TypeOK, Parse, Route, MailRaise, Goto, service, progress, Exists, Full, Effect,
       HandInv, CommentCalls, ClaimCalls, NewCalls, UnitCalls, Refused, Parsed, IsComment, IsClaim, CommentTypes, CardTypes, NoType
  <2> QED BY <2>1, <2>3, <2>4, ServicesUntouched
<1> QED BY <1>1, <1>2, <1>3, <1>4, <1>5, <1>6, <1>7, <1>8, <1>9, <1>10, <1>11, <1>12, <1>13, <1>14

(* The comment lands on the card the search found.                         *)
LEMMA AddCommentStep ==
  ASSUME PipelineInv, AddComment
  PROVE  PipelineInv'
<1> USE PipelineConstants DEF PipelineInv, AddComment
<1>1. spent' \in [Mishap -> Nat] /\ \A m \in Mishap : spent'[m] <= Budget[m]
  <2>1. UNCHANGED spent \/ \E m \in Mishap : Spend(m)
    BY DEF AddComment, MailRaise, LastCalls, Goto, Mishap
  <2> QED BY <2>1, SpentOK
<1>2. TypeOK'
  <2>1. email \in Email /\ card \in Card
    BY DEF TypeOK, HandInv, CommentCalls
  <2>2. posted' \subseteq Email \X Card
    BY <2>1 DEF TypeOK
  <2> QED BY <1>1, <2>2 DEF TypeOK, AddComment, MailRaise, Goto, progress, MailCalls, RunCalls
<1>3. HandInv'
  BY DEF TypeOK, AddComment, MailRaise, Goto, progress, Exists, Full, Effect, IsClaim, IsComment,
     CommentTypes, CardTypes, HandInv, CommentCalls, ClaimCalls, NewCalls, UnitCalls
<1>4. PostedInv'
  BY DEF TypeOK, AddComment, MailRaise, Goto, PostedInv, HandInv, CommentCalls, ClaimCalls, NewCalls, UnitCalls
<1>5. LedgerNamesFullCard'
  BY LedgeredCardIsOld DEF TypeOK, AddComment, MailRaise, Goto, LedgerNamesFullCard, Exists, Full, HandInv, CommentCalls, ClaimCalls, NewCalls, UnitCalls
<1>6. DurableInv'
  BY DEF TypeOK, AddComment, MailRaise, Goto, DurableInv, Effect, HandInv, CommentCalls, ClaimCalls, NewCalls, UnitCalls
<1> QED BY <1>2, <1>3, <1>4, <1>5, <1>6

(* The new card takes an unused id.                                        *)
LEMMA CreateCardStep ==
  ASSUME PipelineInv, CreateCard
  PROVE  PipelineInv'
<1> USE PipelineConstants DEF PipelineInv, CreateCard
<1>1. spent' \in [Mishap -> Nat] /\ \A m \in Mishap : spent'[m] <= Budget[m]
  <2>1. UNCHANGED spent \/ \E m \in Mishap : Spend(m)
    BY DEF CreateCard, NewCard, MailRaise, LastCalls, Goto, Mishap
  <2> QED BY <2>1, SpentOK
<1>2. TypeOK'
  <2>1. RefOf[email] \in Ref
    BY DEF HandInv, ClaimCalls, NewCalls
  <2>2. NewCard \in [ref : Ref \union {NoRef}, has : SUBSET Parts,
                     state : {"none", "open", "archived", "deleted"}]
    BY <2>1 DEF NewCard
  <2> QED BY <1>1, <2>2 DEF TypeOK, CreateCard, MailRaise, Goto, progress, MailCalls, RunCalls
<1>3. HandInv'
  BY DEF TypeOK, CreateCard, NewCard, MailRaise, Goto, progress, Exists, Full, Effect, IsClaim, IsComment,
     CommentTypes, CardTypes, HandInv, CommentCalls, ClaimCalls, NewCalls, UnitCalls
<1>4. PostedInv'
  <2>1. \A e \in Email, c \in Card : <<e, c>> \in posted => board[c] # Blank
    BY DEF PostedInv, Blank
  <2>2. \A c \in Card : board[c] # Blank => board'[c] = board[c]
    BY DEF TypeOK
  <2> QED BY <2>1, <2>2 DEF PostedInv
<1>5. LedgerNamesFullCard'
  BY LedgeredCardIsOld DEF TypeOK, CreateCard, NewCard, MailRaise, Goto, LedgerNamesFullCard, Exists, Full, HandInv, CommentCalls, ClaimCalls, NewCalls, UnitCalls
<1>6. DurableInv'
  BY DEF TypeOK, CreateCard, NewCard, MailRaise, Goto, DurableInv, Effect, HandInv, CommentCalls, ClaimCalls, NewCalls, UnitCalls
<1> QED BY <1>2, <1>3, <1>4, <1>5, <1>6

(* The PDF is added to the card in hand.                                   *)
LEMMA AttachStep ==
  ASSUME PipelineInv, Attach
  PROVE  PipelineInv'
<1> USE PipelineConstants DEF PipelineInv, Attach
<1>1. spent' \in [Mishap -> Nat] /\ \A m \in Mishap : spent'[m] <= Budget[m]
  <2>1. UNCHANGED spent \/ \E m \in Mishap : Spend(m)
    BY DEF Attach, With, Compensate, Goto, Mishap
  <2> QED BY <2>1, SpentOK
<1>2. TypeOK'
  BY <1>1 DEF TypeOK, Attach, With, Compensate, Goto, progress, MailCalls, RunCalls, Parts, Exists, HandInv
<1>3. HandInv'
  BY DEF TypeOK, Attach, With, Compensate, Goto, progress, Exists, Full, Effect, IsClaim, IsComment,
     CommentTypes, CardTypes, HandInv, CommentCalls, ClaimCalls, NewCalls, UnitCalls
<1>4. PostedInv'
  BY DEF TypeOK, Attach, With, Compensate, Goto, PostedInv, HandInv, CommentCalls, ClaimCalls, NewCalls, UnitCalls
<1>5. LedgerNamesFullCard'
  BY LedgeredCardIsOld DEF TypeOK, Attach, With, Compensate, Goto, LedgerNamesFullCard, Exists, Full, HandInv, CommentCalls, ClaimCalls, NewCalls, UnitCalls
<1>6. DurableInv'
  BY DEF TypeOK, Attach, With, Compensate, Goto, DurableInv, Effect, HandInv, CommentCalls, ClaimCalls, NewCalls, UnitCalls
<1> QED BY <1>2, <1>3, <1>4, <1>5, <1>6

(* The comment is added to the card in hand.                               *)
LEMMA DescribeStep ==
  ASSUME PipelineInv, Describe
  PROVE  PipelineInv'
<1> USE PipelineConstants DEF PipelineInv, Describe
<1>1. spent' \in [Mishap -> Nat] /\ \A m \in Mishap : spent'[m] <= Budget[m]
  <2>1. UNCHANGED spent \/ \E m \in Mishap : Spend(m)
    BY DEF Describe, With, Compensate, Goto, Mishap
  <2> QED BY <2>1, SpentOK
<1>2. TypeOK'
  BY <1>1, SMTT(30) DEF TypeOK, Describe, With, Compensate, Goto, progress, MailCalls, RunCalls, Parts, Exists, HandInv
<1>3. HandInv'
  <2>1. card \in Card /\ "pdf" \in board[card].has /\ board[card].has \subseteq Parts
    BY DEF TypeOK, HandInv, UnitCalls
  <2>2. board[card].has \union {"comment"} = Parts
    BY <2>1 DEF Parts
  <2>3. pc' = "record" => board'[card].has = Parts
    <3>1. pc' = "record" => board' = With("comment")
      BY DEF Goto, Compensate
    <3>2. With("comment")[card].has = board[card].has \union {"comment"}
      BY <2>1 DEF TypeOK, With
    <3> QED BY <2>2, <3>1, <3>2
  <2> QED BY <2>1, <2>3 DEF TypeOK, With, Compensate, Goto, progress, Exists, Full,
             HandInv, CommentCalls, ClaimCalls, NewCalls, UnitCalls
<1>4. PostedInv'
  BY DEF TypeOK, Describe, With, Compensate, Goto, PostedInv, HandInv, CommentCalls, ClaimCalls, NewCalls, UnitCalls
<1>5. LedgerNamesFullCard'
  BY LedgeredCardIsOld DEF TypeOK, Describe, With, Compensate, Goto, LedgerNamesFullCard, Exists, Full, HandInv, CommentCalls, ClaimCalls, NewCalls, UnitCalls
<1>6. DurableInv'
  BY DEF TypeOK, Describe, With, Compensate, Goto, DurableInv, Effect, HandInv, CommentCalls, ClaimCalls, NewCalls, UnitCalls
<1> QED BY <1>2, <1>3, <1>4, <1>5, <1>6

(* The card in hand is deleted; no ledger row names it.                    *)
LEMMA UndoStep ==
  ASSUME PipelineInv, Undo
  PROVE  PipelineInv'
<1> USE PipelineConstants DEF PipelineInv, Undo
<1>1. spent' \in [Mishap -> Nat] /\ \A m \in Mishap : spent'[m] <= Budget[m]
  <2>1. UNCHANGED spent \/ \E m \in Mishap : Spend(m)
    BY DEF Undo, MailRaise, LastCalls, Goto, Mishap
  <2> QED BY <2>1, SpentOK
<1>2. TypeOK'
  <2>1. card \in Card
    BY DEF HandInv, UnitCalls
  <2>2. board' \in [Card -> [ref : Ref \union {NoRef}, has : SUBSET Parts,
                            state : {"none", "open", "archived", "deleted"}]]
    <3>1. CASE UNCHANGED board
      BY <3>1 DEF TypeOK
    <3>2. CASE board' = [board EXCEPT ![card].state = "deleted"]
      <4>1. [board[card] EXCEPT !.state = "deleted"] \in
               [ref : Ref \union {NoRef}, has : SUBSET Parts,
                state : {"none", "open", "archived", "deleted"}]
        BY <2>1 DEF TypeOK
      <4> QED BY <3>2, <4>1 DEF TypeOK
    <3> QED BY <3>1, <3>2
  <2>3. pc' = "failed"
    BY DEF MailRaise, Goto
  <2> QED BY <1>1, <2>2, <2>3 DEF TypeOK, progress, RunCalls
<1>3. HandInv'
  BY DEF TypeOK, Undo, MailRaise, Goto, progress, Exists, Full, Effect, IsClaim, IsComment,
     CommentTypes, CardTypes, HandInv, CommentCalls, ClaimCalls, NewCalls, UnitCalls
<1>4. PostedInv'
  BY DEF TypeOK, Undo, MailRaise, Goto, PostedInv, HandInv, CommentCalls, ClaimCalls, NewCalls, UnitCalls
<1>5. LedgerNamesFullCard'
  BY LedgeredCardIsOld DEF TypeOK, Undo, MailRaise, Goto, LedgerNamesFullCard, Exists, Full, HandInv, CommentCalls, ClaimCalls, NewCalls, UnitCalls
<1>6. DurableInv'
  BY DEF TypeOK, Undo, MailRaise, Goto, DurableInv, Effect, HandInv, CommentCalls, ClaimCalls, NewCalls, UnitCalls
<1> QED BY <1>2, <1>3, <1>4, <1>5, <1>6

(* The complete card in hand enters the ledger.                            *)
LEMMA RecordStep ==
  ASSUME PipelineInv, Record
  PROVE  PipelineInv'
<1> USE PipelineConstants DEF PipelineInv, Record
<1>1. spent' \in [Mishap -> Nat] /\ \A m \in Mishap : spent'[m] <= Budget[m]
  <2>1. UNCHANGED spent \/ \E m \in Mishap : Spend(m)
    BY DEF Record, MailRaise, LastCalls, Goto, Mishap
  <2> QED BY <2>1, SpentOK
<1>2. TypeOK'
  BY <1>1 DEF TypeOK, Record, MailRaise, Goto, progress, MailCalls, RunCalls, Parts, Exists, HandInv
<1>3. HandInv'
  BY DEF TypeOK, Record, MailRaise, Goto, progress, Exists, Full, Effect, IsClaim, IsComment,
     CommentTypes, CardTypes, HandInv, CommentCalls, ClaimCalls, NewCalls, UnitCalls
<1>4. PostedInv'
  BY DEF TypeOK, Record, MailRaise, Goto, PostedInv, HandInv, CommentCalls, ClaimCalls, NewCalls, UnitCalls
<1>5. LedgerNamesFullCard'
  BY LedgeredCardIsOld DEF TypeOK, Record, MailRaise, Goto, LedgerNamesFullCard, Exists, Full, HandInv, CommentCalls, ClaimCalls, NewCalls, UnitCalls
<1>6. DurableInv'
  BY DEF TypeOK, Record, MailRaise, Goto, DurableInv, Effect, HandInv, CommentCalls, ClaimCalls, NewCalls, UnitCalls
<1> QED BY <1>2, <1>3, <1>4, <1>5, <1>6

(* The email in hand has had its effect when it is relabelled.             *)
LEMMA MarkProcessedStep ==
  ASSUME PipelineInv, MarkProcessed
  PROVE  PipelineInv'
<1> USE PipelineConstants DEF PipelineInv, MarkProcessed
<1>1. spent' \in [Mishap -> Nat] /\ \A m \in Mishap : spent'[m] <= Budget[m]
  <2>1. UNCHANGED spent \/ \E m \in Mishap : Spend(m)
    BY DEF MarkProcessed, Relabelled, RunRaise, Goto, Mishap
  <2> QED BY <2>1, SpentOK
<1>2. TypeOK'
  BY <1>1 DEF TypeOK, MarkProcessed, Relabelled, RunRaise, Goto, progress, MailCalls, RunCalls, Parts, Exists, HandInv
<1>3. HandInv'
  BY DEF TypeOK, MarkProcessed, Relabelled, RunRaise, Goto, progress, Exists, Full, Effect, IsClaim, IsComment,
     CommentTypes, CardTypes, HandInv, CommentCalls, ClaimCalls, NewCalls, UnitCalls
<1>4. PostedInv'
  BY DEF TypeOK, MarkProcessed, Relabelled, RunRaise, Goto, PostedInv, HandInv, CommentCalls, ClaimCalls, NewCalls, UnitCalls
<1>5. LedgerNamesFullCard'
  BY LedgeredCardIsOld DEF TypeOK, MarkProcessed, Relabelled, RunRaise, Goto, LedgerNamesFullCard, Exists, Full, HandInv, CommentCalls, ClaimCalls, NewCalls, UnitCalls
<1>6. DurableInv'
  <2>1. email \in Email /\ Effect(email)
    BY DEF TypeOK, HandInv
  <2>2. \A e \in Email : "procesado" \in labels'[e] => e = email \/ "procesado" \in labels[e]
    BY <2>1 DEF TypeOK, Relabelled
  <2> QED BY <2>1, <2>2 DEF DurableInv, Effect
<1> QED BY <1>2, <1>3, <1>4, <1>5, <1>6

(* A failed email claims nothing.                                          *)
LEMMA MarkFailedStep ==
  ASSUME PipelineInv, MarkFailed
  PROVE  PipelineInv'
<1> USE PipelineConstants DEF PipelineInv, MarkFailed
<1>1. spent' \in [Mishap -> Nat] /\ \A m \in Mishap : spent'[m] <= Budget[m]
  <2>1. UNCHANGED spent \/ \E m \in Mishap : Spend(m)
    BY DEF MarkFailed, Relabelled, RunRaise, Goto, Mishap
  <2> QED BY <2>1, SpentOK
<1>2. TypeOK'
  BY <1>1 DEF TypeOK, MarkFailed, Relabelled, RunRaise, Goto, progress, MailCalls, RunCalls, Parts, Exists, HandInv
<1>3. HandInv'
  BY DEF TypeOK, MarkFailed, Relabelled, RunRaise, Goto, progress, Exists, Full, Effect, IsClaim, IsComment,
     CommentTypes, CardTypes, HandInv, CommentCalls, ClaimCalls, NewCalls, UnitCalls
<1>4. PostedInv'
  BY DEF TypeOK, MarkFailed, Relabelled, RunRaise, Goto, PostedInv, HandInv, CommentCalls, ClaimCalls, NewCalls, UnitCalls
<1>5. LedgerNamesFullCard'
  BY LedgeredCardIsOld DEF TypeOK, MarkFailed, Relabelled, RunRaise, Goto, LedgerNamesFullCard, Exists, Full, HandInv, CommentCalls, ClaimCalls, NewCalls, UnitCalls
<1>6. DurableInv'
  <2>1. email \in Email BY DEF TypeOK, HandInv
  <2>2. \A e \in Email : "procesado" \in labels'[e] => "procesado" \in labels[e]
    BY <2>1 DEF TypeOK, Relabelled
  <2> QED BY <2>2 DEF DurableInv, Effect
<1> QED BY <1>2, <1>3, <1>4, <1>5, <1>6

(* A message arrives unread.                                               *)
LEMMA ArriveStep ==
  ASSUME PipelineInv, NEW e \in Email, Arrive(e)
  PROVE  PipelineInv'
<1> USE PipelineConstants DEF PipelineInv, Arrive
<1>1. spent' \in [Mishap -> Nat] /\ \A m \in Mishap : spent'[m] <= Budget[m]
  <2>1. UNCHANGED spent \/ \E m \in Mishap : Spend(m)
    BY DEF Arrive, Mishap
  <2> QED BY <2>1, SpentOK
<1>2. TypeOK'
  BY <1>1 DEF TypeOK, Arrive, progress, MailCalls, RunCalls, Parts, Exists, HandInv
<1>3. HandInv'
  BY DEF TypeOK, Arrive, progress, Exists, Full, Effect, IsClaim, IsComment,
     CommentTypes, CardTypes, HandInv, CommentCalls, ClaimCalls, NewCalls, UnitCalls
<1>4. PostedInv'
  BY DEF TypeOK, Arrive, PostedInv, HandInv, CommentCalls, ClaimCalls, NewCalls, UnitCalls
<1>5. LedgerNamesFullCard'
  BY LedgeredCardIsOld DEF TypeOK, Arrive, LedgerNamesFullCard, Exists, Full, HandInv, CommentCalls, ClaimCalls, NewCalls, UnitCalls
<1>6. DurableInv'
  BY ZenonT(30) DEF TypeOK, Arrive, DurableInv, Effect, HandInv, CommentCalls, ClaimCalls, NewCalls, UnitCalls
<1> QED BY <1>2, <1>3, <1>4, <1>5, <1>6

(* A failed message becomes unread again.                                  *)
LEMMA RequeueStep ==
  ASSUME PipelineInv, NEW e \in Email, Requeue(e)
  PROVE  PipelineInv'
<1> USE PipelineConstants DEF PipelineInv, Requeue
<1>1. spent' \in [Mishap -> Nat] /\ \A m \in Mishap : spent'[m] <= Budget[m]
  <2>1. UNCHANGED spent \/ \E m \in Mishap : Spend(m)
    BY DEF Requeue, Mishap
  <2> QED BY <2>1, SpentOK
<1>2. TypeOK'
  BY <1>1 DEF TypeOK, Requeue, progress, MailCalls, RunCalls, Parts, Exists, HandInv
<1>3. HandInv'
  BY DEF TypeOK, Requeue, progress, Exists, Full, Effect, IsClaim, IsComment,
     CommentTypes, CardTypes, HandInv, CommentCalls, ClaimCalls, NewCalls, UnitCalls
<1>4. PostedInv'
  BY DEF TypeOK, Requeue, PostedInv, HandInv, CommentCalls, ClaimCalls, NewCalls, UnitCalls
<1>5. LedgerNamesFullCard'
  BY LedgeredCardIsOld DEF TypeOK, Requeue, LedgerNamesFullCard, Exists, Full, HandInv, CommentCalls, ClaimCalls, NewCalls, UnitCalls
<1>6. DurableInv'
  <2>1. PICK kept \in {{}, {"failed"}} : labels' = [labels EXCEPT ![e] = {"UNREAD"} \union kept]
    OBVIOUS
  <2>2. \A f \in Email : "procesado" \in labels'[f] => "procesado" \in labels[f]
    BY <2>1 DEF TypeOK
  <2> QED BY <2>2 DEF DurableInv, Effect
<1> QED BY <1>2, <1>3, <1>4, <1>5, <1>6

(* A moved card still exists.                                              *)
LEMMA MoveCardStep ==
  ASSUME PipelineInv, NEW c \in Card, MoveCard(c)
  PROVE  PipelineInv'
<1> USE PipelineConstants DEF PipelineInv, MoveCard
<1>1. spent' \in [Mishap -> Nat] /\ \A m \in Mishap : spent'[m] <= Budget[m]
  <2>1. UNCHANGED spent \/ \E m \in Mishap : Spend(m)
    BY DEF MoveCard, Mishap
  <2> QED BY <2>1, SpentOK
<1>2. TypeOK'
  <2>1. PICK state \in {"open", "archived"} : board' = [board EXCEPT ![c].state = state]
    OBVIOUS
  <2>2. board' \in [Card -> [ref : Ref \union {NoRef}, has : SUBSET Parts,
                            state : {"none", "open", "archived", "deleted"}]]
    BY <2>1 DEF TypeOK
  <2> QED BY <1>1, <2>2 DEF TypeOK, progress
<1>3. HandInv'
  <2>1. \A d \in Card : /\ board'[d].ref = board[d].ref
                        /\ board'[d].has = board[d].has
                        /\ Exists(d) => Exists(d)'
    BY DEF TypeOK, Exists
  <2> QED BY <2>1 DEF TypeOK, progress, Full, Effect, HandInv, CommentCalls, ClaimCalls,
             NewCalls, UnitCalls
<1>4. PostedInv'
  BY DEF TypeOK, MoveCard, PostedInv, HandInv, CommentCalls, ClaimCalls, NewCalls, UnitCalls
<1>5. LedgerNamesFullCard'
  BY LedgeredCardIsOld DEF TypeOK, MoveCard, LedgerNamesFullCard, Exists, Full, HandInv, CommentCalls, ClaimCalls, NewCalls, UnitCalls
<1>6. DurableInv'
  BY DEF TypeOK, MoveCard, DurableInv, Effect, HandInv, CommentCalls, ClaimCalls, NewCalls, UnitCalls
<1> QED BY <1>2, <1>3, <1>4, <1>5, <1>6

(* Every step of the run and of its environment keeps it.                  *)
LEMMA NextPipelineInv == ASSUME PipelineInv, [Next]_vars PROVE PipelineInv'
<1>1. CASE Next
  BY <1>1, QuietSteps, AddCommentStep, CreateCardStep, AttachStep, DescribeStep, UndoStep,
     RecordStep, MarkProcessedStep, MarkFailedStep, ArriveStep, RequeueStep, MoveCardStep
     DEF Next, ProcessMailbox, ProcessOne, Environment
<1>2. CASE UNCHANGED vars
  <2>1. UNCHANGED service BY <1>2 DEF vars, service
  <2>2. TypeOK' BY <1>2 DEF vars, PipelineInv, TypeOK
  <2>3. HandInv' BY <1>2 DEF vars, PipelineInv, HandInv, Exists, Full, Effect
  <2> QED BY <2>1, <2>2, <2>3, ServicesUntouched DEF PipelineInv
<1> QED BY <1>1, <1>2

(* Every reachable state satisfies the inductive invariant.                *)
THEOREM PipelineInvariant == Spec => []PipelineInv
<1>1. Init => PipelineInv BY InitPipelineInv
<1>2. PipelineInv /\ [Next]_vars => PipelineInv' BY NextPipelineInv
<1> QED BY <1>1, <1>2, PTL DEF Spec

(* The run's variables, the mailbox, the board and the ledger keep their   *)
(* types through every failure.                                            *)
THEOREM PipelineTypes == Spec => []TypeOK
<1>1. PipelineInv => TypeOK BY DEF PipelineInv
<1> QED BY <1>1, PipelineInvariant, PTL

(* An email labelled `procesado` has had its whole effect, for every       *)
(* mailbox, page size and number of crashes and failed calls.              *)
THEOREM Durability == Spec => []ProcesadoIsDurable
<1>1. PipelineInv => ProcesadoIsDurable
  BY DEF PipelineInv, DurableInv, PostedInv, Effect, ProcesadoIsDurable
<1> QED BY <1>1, PipelineInvariant, PTL

(* The ledger only names existing, complete cards of the right claim.      *)
THEOREM LedgerSound == Spec => []LedgerNamesFullCard
<1>1. PipelineInv => LedgerNamesFullCard BY DEF PipelineInv
<1> QED BY <1>1, PipelineInvariant, PTL
-----------------------------------------------------------------------------
(* Once the fetch is over, a message that was listed and not fetched means *)
(* that the deadline has passed; it never un-passes.                       *)
CutInv ==
  pc \notin {"idle", "list", "fetch"} => fetched = listed \/ late

(* A fetch that is cut short leaves the run late until its end.            *)
LEMMA CutInvKept == ASSUME TypeOK, CutInv, [Next]_vars PROVE CutInv'
<1> USE DEF CutInv
<1>1. ASSUME StartRun \/ List \/ FetchEnds \/ LoopEnds \/ EndRun PROVE CutInv'
  BY <1>1 DEF StartRun, List, FetchEnds, LoopEnds, EndRun, RunRaise, Goto, progress
<1>2. ASSUME NEW e \in Email, Fetch(e) \/ TakeEmail(e) \/ Arrive(e) \/ Requeue(e) PROVE CutInv'
  BY <1>2 DEF Fetch, TakeEmail, Arrive, Requeue, RunRaise, Goto, progress
<1>3. ASSUME ProcessOne PROVE CutInv'
  BY <1>3 DEF ProcessOne, Parse, Search, SearchArchive, AddComment, Dedup, Build, CreateCard, Attach,
     Describe, Undo, Record, progress
<1>4. ASSUME MarkProcessed \/ MarkFailed PROVE CutInv'
  BY <1>4 DEF MarkProcessed, MarkFailed
<1>5. ASSUME DeadlinePasses \/ Crash PROVE CutInv'
  BY <1>5 DEF DeadlinePasses, Crash
<1>6. ASSUME NEW c \in Card, MoveCard(c) PROVE CutInv'
  BY <1>6 DEF MoveCard, progress
<1>7. ASSUME UNCHANGED vars PROVE CutInv'
  BY <1>7 DEF vars
<1> QED BY <1>1, <1>2, <1>3, <1>4, <1>5, <1>6, <1>7
        DEF Next, ProcessMailbox, Environment

(* The emails of a run are taken oldest first among all that were listed.  *)
THEOREM RunIsChronological == Spec => Chronological
<1> DEFINE InOrder ==
      \A e \in Email :
        pc = "loop" /\ email' = e /\ pc' \notin {"loop", "gauge", "idle"} =>
          \A f \in listed : Date[f] < Date[e] => f \in done
<1>1. Init => CutInv BY DEF Init, CutInv
<1>2. TypeOK /\ CutInv /\ [Next]_vars => CutInv' BY CutInvKept
<1>3. ASSUME TypeOK, CutInv, [Next]_vars PROVE InOrder
  <2> SUFFICES ASSUME NEW e \in Email, pc = "loop", email' = e,
                      pc' \notin {"loop", "gauge", "idle"},
                      NEW f \in listed, Date[f] < Date[e]
               PROVE  f \in done
    OBVIOUS
  <2>1. TakeEmail(e)
    BY <1>3 DEF Next, vars, ProcessMailbox, ProcessOne, Environment, StartRun, List, Fetch, FetchEnds,
       TakeEmail, LoopEnds, Parse, Search, SearchArchive, AddComment, Dedup, Build, CreateCard, Attach,
       Describe, Undo, Record, MarkProcessed, MarkFailed, EndRun, DeadlinePasses, Crash, Arrive,
       Requeue, MoveCard, Goto
  <2>2. fetched = listed BY <1>3, <2>1 DEF CutInv, TakeEmail, InTime
  <2>3. f \in Todo => Date[e] <= Date[f] BY <2>1 DEF TakeEmail, Oldest
  <2>4. Date[e] \in Nat /\ Date[f] \in Nat BY <1>3, PipelineConstants DEF TypeOK
  <2> QED BY <2>2, <2>3, <2>4 DEF Todo
<1>4. TypeOK /\ CutInv /\ [Next]_vars => [InOrder]_vars BY <1>3
<1> QED BY <1>1, <1>2, <1>4, PipelineTypes, PTL DEF Spec, Chronological
-----------------------------------------------------------------------------
(* Mishaps are never forgotten.                                            *)
LEMMA SpendGrows ==
  ASSUME TypeOK, NEW m \in Mishap, Spend(m)
  PROVE  spent'[m] > 0 /\ \A n \in Mishap : spent'[n] >= spent[n] /\ spent'[n] \in Nat
<1>1. spent \in [Mishap -> Nat] BY DEF TypeOK
<1>2. spent' = [spent EXCEPT ![m] = spent[m] + 1] BY DEF Spend, MayHappen
<1>3. \A n \in Mishap : spent[n] \in Nat BY <1>1
<1>4. \A n \in Mishap : spent'[n] = IF n = m THEN spent[m] + 1 ELSE spent[n] BY <1>1, <1>2
<1> QED BY <1>3, <1>4

(* Every step keeps the account of mishaps or adds one.                    *)
LEMMA NextSpends ==
  ASSUME [Next]_vars
  PROVE  UNCHANGED spent \/ \E m \in Mishap : Spend(m)
<1>1. \A call : MailRaise(call) => \E m \in Mishap : Spend(m)
  BY DEF MailRaise, Mishap
<1>2. \A call : RunRaise(call) \/ Compensate(call) => \E m \in Mishap : Spend(m)
  BY DEF RunRaise, Compensate, Mishap
<1>3. "kill" \in Mishap /\ "deadline" \in Mishap /\ "requeue" \in Mishap /\ "move" \in Mishap
  BY DEF Mishap
<1>4. CASE ProcessOne
  BY <1>1, <1>2, <1>4 DEF ProcessOne, Parse, Search, SearchArchive, AddComment, Dedup, Build, CreateCard,
     Attach, Describe, Undo, Record, Goto
<1>5. CASE ProcessMailbox /\ ~ProcessOne
  BY <1>1, <1>2, <1>5 DEF ProcessMailbox, StartRun, List, Fetch, FetchEnds, TakeEmail, LoopEnds,
     MarkProcessed, MarkFailed, EndRun, Goto
<1>6. CASE Environment
  BY <1>3, <1>6 DEF Environment, DeadlinePasses, Crash, Arrive, Requeue, MoveCard
<1>7. CASE UNCHANGED vars
  BY <1>7 DEF vars
<1> QED BY <1>4, <1>5, <1>6, <1>7 DEF Next

(* What a failed call means for the account.                               *)
LEMMA FailureCounts ==
  ASSUME PipelineInv, [Next]_vars
  PROVE  /\ MailFailed => MailFailed'
         /\ \A call : MailRaise(call) \/ Compensate(call) => MailFailed'
<1> USE DEF PipelineInv
<1>1. "mail" \in Mishap /\ "last" \in Mishap BY DEF Mishap
<1>2. spent["mail"] \in Nat /\ spent["last"] \in Nat BY <1>1 DEF TypeOK
<1>3. MailFailed => MailFailed'
  <2>1. CASE UNCHANGED spent BY <2>1 DEF MailFailed
  <2>2. CASE \E m \in Mishap : Spend(m)
    <3>1. /\ spent'["mail"] >= spent["mail"] /\ spent'["mail"] \in Nat
          /\ spent'["last"] >= spent["last"] /\ spent'["last"] \in Nat
      BY <1>1, <2>2, SpendGrows
    <3> QED BY <1>2, <3>1 DEF MailFailed
  <2> QED BY <2>1, <2>2, NextSpends
<1>4. ASSUME NEW call, MailRaise(call) \/ Compensate(call) PROVE MailFailed'
  <2>1. Spend("mail") \/ Spend("last") BY <1>4 DEF MailRaise, Compensate
  <2>2. spent'["mail"] > 0 \/ spent'["last"] > 0 BY <1>1, <2>1, SpendGrows
  <2> QED BY <2>2 DEF MailFailed
<1> QED BY <1>3, <1>4

(* A good claim in hand is on the way to the `failed` label only after a   *)
(* call of its own failed.                                                 *)
BurnInv ==
  /\ pc = "undo" => MailFailed
  /\ pc = "failed" /\ IsClaim(email) /\ Good(email) => MailFailed
  /\ GoodClaimNotBurned

(* A good claim in the failed branch has met a failed call of its own.     *)
LEMMA BurnInvKept ==
  ASSUME PipelineInv, BurnInv, [Next]_vars
  PROVE  BurnInv'
<1> USE DEF PipelineInv
<1>1. MailFailed => MailFailed' BY FailureCounts
<1>2. \A call : MailRaise(call) \/ Compensate(call) => MailFailed' BY FailureCounts
<1> DEFINE Quiet ==
      /\ UNCHANGED labels
      /\ pc' = "undo" => MailFailed'
      /\ pc' = "failed" /\ IsClaim(email') /\ Good(email') => MailFailed'
<1>3. Quiet => BurnInv'
  BY <1>1 DEF BurnInv, GoodClaimNotBurned, IsClaim, Good, Refused, Parsed
<1>4. ASSUME StartRun \/ List \/ FetchEnds \/ LoopEnds \/ EndRun PROVE Quiet
  BY <1>4 DEF StartRun, List, FetchEnds, LoopEnds, EndRun, RunRaise, Goto, service
<1>5. ASSUME NEW e \in Email, Fetch(e) \/ TakeEmail(e) PROVE Quiet
  BY <1>5 DEF Fetch, TakeEmail, RunRaise, Goto, service
<1>14. ASSUME Parse PROVE Quiet
  BY <1>2, <1>14 DEF Parse, Goto, Route, Good, Refused, Finds, service
<1>6. ASSUME Search \/ SearchArchive \/ AddComment PROVE Quiet
  BY <1>2, <1>6 DEF Search, SearchArchive, AddComment, Goto, service, HandInv, CommentCalls,
     IsComment, IsClaim, CommentTypes, CardTypes
<1>7. ASSUME Dedup \/ Build \/ CreateCard \/ Record PROVE Quiet
  BY <1>2, <1>7 DEF Dedup, Build, CreateCard, Record, MailRaise, Goto, Good, Finds, service
<1>8. ASSUME Attach \/ Describe \/ Undo PROVE Quiet
  BY <1>1, <1>2, <1>8 DEF Attach, Describe, Undo, Goto, service, BurnInv
<1>9. ASSUME DeadlinePasses \/ Crash PROVE Quiet
  BY <1>1, <1>9 DEF DeadlinePasses, Crash, service, BurnInv
<1>10. ASSUME NEW c \in Card, MoveCard(c) PROVE Quiet
  BY <1>1, <1>10 DEF MoveCard, BurnInv
<1>11. ASSUME UNCHANGED vars PROVE Quiet
  BY <1>1, <1>11 DEF vars, BurnInv
<1>12. ASSUME MarkProcessed \/ MarkFailed PROVE BurnInv'
  <2>1. pc' \in {"loop", "idle"}
    BY <1>12 DEF MarkProcessed, MarkFailed, RunRaise, Goto
  <2>2. email \in Email BY <1>12 DEF MarkProcessed, MarkFailed, TypeOK, HandInv
  <2>3. \A e \in Email : "failed" \in labels'[e] =>
          "failed" \in labels[e] \/ (pc = "failed" /\ e = email)
    BY <1>12, <2>2 DEF MarkProcessed, MarkFailed, Relabelled, TypeOK
  <2> QED BY <1>1, <2>1, <2>3 DEF BurnInv, GoodClaimNotBurned
<1>13. ASSUME NEW e \in Email, Arrive(e) \/ Requeue(e) PROVE BurnInv'
  <2>1. pc' = pc /\ email' = email
    BY <1>13 DEF Arrive, Requeue
  <2>2. \A f \in Email : "failed" \in labels'[f] => "failed" \in labels[f]
    BY <1>13 DEF Arrive, Requeue, TypeOK
  <2> QED BY <1>1, <2>1, <2>2 DEF BurnInv, GoodClaimNotBurned
<1> QED BY <1>3, <1>4, <1>5, <1>6, <1>7, <1>8, <1>9, <1>10, <1>11, <1>12, <1>13, <1>14
        DEF Next, ProcessMailbox, ProcessOne, Environment

(* Neither a crash, nor the deadline, nor a failing relabel costs a good   *)
(* claim the terminal label.                                               *)
THEOREM ClaimsNotBurned == Spec => []GoodClaimNotBurned
<1>1. Init => BurnInv
  BY DEF Init, BurnInv, GoodClaimNotBurned
<1>2. PipelineInv /\ BurnInv /\ [Next]_vars => BurnInv' BY BurnInvKept
<1>3. BurnInv => GoodClaimNotBurned BY DEF BurnInv
<1> QED BY <1>1, <1>2, <1>3, PipelineInvariant, PTL DEF Spec
-----------------------------------------------------------------------------
(* When the host is not killed and neither the ledger write nor the        *)
(* compensating delete fails, a complete card is the ledger's or the one   *)
(* in hand.                                                                *)
CleanInv ==
  /\ pc \in {"attach", "describe"} => "comment" \notin board[card].has
  /\ \A c \in Card : Exists(c) /\ Full(c) =>
       \/ board[c].ref \in Ref /\ ledger[board[c].ref] = c
       \/ pc \in {"record", "undo"} /\ c = card

(* Nothing has happened that the code does not compensate.                 *)
Clean == spent["kill"] = 0 /\ spent["last"] = 0

(* A complete card outside the ledger is the one in hand, at every step.   *)
LEMMA CleanInvKept ==
  ASSUME PipelineInv, CleanInv, [Next]_vars, Clean'
  PROVE  CleanInv'
<1> USE PipelineConstants DEF PipelineInv
<1>0. ~Spend("kill") /\ ~Spend("last")
  <2>1. "kill" \in Mishap /\ "last" \in Mishap BY DEF Mishap
  <2> QED BY <2>1, SpendGrows DEF Clean
<1>1. ~Crash /\ ~MailRaise("undo") /\ ~MailRaise("record")
  BY <1>0 DEF Crash, MailRaise, LastCalls
<1> DEFINE Quiet ==
      /\ UNCHANGED <<board, ledger>>
      /\ pc \notin {"record", "undo"}
      /\ pc' \notin {"attach", "describe"}
<1>2. Quiet => CleanInv'
  BY DEF CleanInv, Exists, Full
<1>3. ASSUME StartRun \/ List \/ FetchEnds \/ LoopEnds \/ EndRun PROVE Quiet
  BY <1>3 DEF StartRun, List, FetchEnds, LoopEnds, EndRun, RunRaise, Goto, service
<1>4. ASSUME NEW e \in Email, Fetch(e) \/ TakeEmail(e) PROVE Quiet
  BY <1>4 DEF Fetch, TakeEmail, RunRaise, Goto, service
<1>5. ASSUME Parse \/ Search \/ SearchArchive \/ AddComment \/ Dedup \/ Build PROVE Quiet
  BY <1>5 DEF Parse, Search, SearchArchive, AddComment, Dedup, Build, MailRaise, Goto, Route,
     service
<1>6. ASSUME MarkProcessed \/ MarkFailed PROVE Quiet
  BY <1>6 DEF MarkProcessed, MarkFailed, RunRaise, Goto
<1>7. ASSUME DeadlinePasses \/ (\E e \in Email : Arrive(e) \/ Requeue(e)) \/ UNCHANGED vars
      PROVE  CleanInv'
  BY <1>7 DEF DeadlinePasses, Arrive, Requeue, vars, service, CleanInv, Exists, Full
<1>8. ASSUME NEW c \in Card, MoveCard(c) PROVE CleanInv'
  <2>1. /\ pc' = pc /\ card' = card /\ ledger' = ledger
        /\ \A d \in Card : /\ board'[d].ref = board[d].ref /\ board'[d].has = board[d].has
                           /\ Exists(d)' => Exists(d)
    BY <1>8 DEF MoveCard, TypeOK, Exists
  <2>2. pc \in {"attach", "describe"} => card \in Card BY DEF HandInv, UnitCalls
  <2> QED BY <2>1, <2>2 DEF CleanInv, Full
<1>9. ASSUME CreateCard PROVE CleanInv'
  <2>1. pc = "create" BY <1>9 DEF CreateCard
  <2>2. CASE UNCHANGED board
    BY <1>9, <2>1, <2>2 DEF CreateCard, MailRaise, Goto, CleanInv, Exists, Full, TypeOK, NewCard, Blank
  <2>3. CASE \E c \in Card : /\ board' = [board EXCEPT ![c] = NewCard]
                             /\ pc' = "attach" => card' = c
    <3>1. PICK c \in Card : /\ board' = [board EXCEPT ![c] = NewCard]
                            /\ pc' = "attach" => card' = c
      BY <2>3
    <3>2. board'[c] = NewCard /\ \A d \in Card \ {c} : board'[d] = board[d]
      BY <3>1 DEF TypeOK
    <3>3. ~Full(c)' BY <3>2 DEF Full, NewCard, Parts
    <3>4. pc' \in {"attach", "failed"} /\ UNCHANGED ledger
      BY <1>9 DEF CreateCard, MailRaise, Goto
    <3>5. \A d \in Card : (Exists(d) /\ Full(d))' =>
            board'[d].ref \in Ref /\ ledger'[board'[d].ref] = d
      BY <2>1, <3>2, <3>3, <3>4 DEF CleanInv, Exists, Full
    <3> QED BY <3>1, <3>2, <3>4, <3>5 DEF CleanInv, NewCard
  <2> QED BY <1>9, <2>2, <2>3 DEF CreateCard, MailRaise
<1>10. ASSUME Attach \/ Describe PROVE CleanInv'
  <2>1. /\ card \in Card /\ UNCHANGED <<card, ledger>>
        /\ pc \in {"attach", "describe"}
        /\ \A d \in Card \ {card} : board'[d] = board[d]
    BY <1>10 DEF Attach, Describe, With, TypeOK, HandInv, UnitCalls
  <2>2. \/ pc' \in {"record", "undo"}
        \/ pc' = "describe" /\ board' = With("pdf") /\ pc = "attach"
    BY <1>10 DEF Attach, Describe, Goto, Compensate
  <2>3. CASE pc' \in {"record", "undo"}
    BY <2>1, <2>3 DEF CleanInv, Exists, Full
  <2>4. CASE pc' = "describe" /\ board' = With("pdf") /\ pc = "attach"
    <3>1. "comment" \notin board[card].has BY <2>4 DEF CleanInv
    <3>2. board'[card].has = board[card].has \union {"pdf"} BY <2>1, <2>4 DEF With, TypeOK
    <3>3. "comment" \notin board'[card].has BY <3>1, <3>2
    <3>4. ~Full(card)' BY <2>1, <3>3 DEF Full, Parts
    <3> QED BY <2>1, <2>4, <3>3, <3>4 DEF CleanInv, Exists, Full
  <2> QED BY <2>2, <2>3, <2>4
<1>11. ASSUME Undo PROVE CleanInv'
  <2>1. /\ card \in Card /\ pc = "undo" /\ pc' = "failed" /\ UNCHANGED <<card, ledger>>
        /\ board' = [board EXCEPT ![card].state = "deleted"]
    BY <1>1, <1>11 DEF Undo, Goto, HandInv, UnitCalls
  <2>2. ~Exists(card)' /\ \A d \in Card \ {card} : board'[d] = board[d]
    BY <2>1 DEF Exists, TypeOK
  <2> QED BY <2>1, <2>2 DEF CleanInv, Exists, Full
<1>12. ASSUME Record PROVE CleanInv'
  <2>1. /\ card \in Card /\ pc = "record" /\ pc' = "processed" /\ UNCHANGED <<card, board>>
        /\ ledger' = [ledger EXCEPT ![RefOf[email]] = card]
        /\ RefOf[email] \in Ref /\ board[card].ref = RefOf[email]
        /\ ledger[RefOf[email]] = NoCard
    BY <1>1, <1>12 DEF Record, Goto, HandInv, UnitCalls, NewCalls, ClaimCalls
  <2>2. ledger'[RefOf[email]] = card /\ \A r \in Ref \ {RefOf[email]} : ledger'[r] = ledger[r]
    BY <2>1 DEF TypeOK
  <2> QED BY <2>1, <2>2 DEF CleanInv, Exists, Full
<1> QED BY <1>1, <1>2, <1>3, <1>4, <1>5, <1>6, <1>7, <1>8, <1>9, <1>10, <1>11, <1>12
        DEF Next, ProcessMailbox, ProcessOne, Environment

(* Once something has happened that nothing compensates, it stays so.      *)
LEMMA CleanBefore ==
  ASSUME PipelineInv, [Next]_vars, Clean'
  PROVE  Clean
<1>1. "kill" \in Mishap /\ "last" \in Mishap BY DEF Mishap
<1>2. spent["kill"] \in Nat /\ spent["last"] \in Nat BY <1>1 DEF PipelineInv, TypeOK
<1>3. CASE UNCHANGED spent BY <1>3 DEF Clean
<1>4. CASE \E m \in Mishap : Spend(m)
  <2>1. spent'["kill"] >= spent["kill"] /\ spent'["last"] >= spent["last"]
    BY <1>1, <1>4, SpendGrows DEF PipelineInv
  <2> QED BY <1>2, <2>1 DEF Clean
<1> QED BY <1>3, <1>4, NextSpends

(* As long as no host is killed and neither record_claim nor the           *)
(* compensating delete fails, no claim ever has two complete cards, however*)
(* often its emails are delivered, retried and reprocessed.                *)
THEOREM NoDuplicateWithoutCrash == Spec => []NoDuplicateCard
<1> DEFINE CleanOrNot == Clean => CleanInv
<1>1. Init => CleanOrNot
  BY DEF Init, CleanInv, Exists, Blank
<1>2. PipelineInv /\ CleanOrNot /\ [Next]_vars => CleanOrNot' BY CleanInvKept, CleanBefore
<1>3. PipelineInv /\ CleanOrNot => NoDuplicateCard
  <2> SUFFICES ASSUME PipelineInv, CleanInv, NEW c \in Card, NEW d \in Card,
                      Exists(c), Exists(d), Full(c), Full(d), board[c].ref = board[d].ref
               PROVE  c = d
    BY DEF NoDuplicateCard, OneCardPerClaim, Clean
  <2>1. pc \in {"record", "undo"} =>
          ledger[board[card].ref] = NoCard
    BY DEF PipelineInv, HandInv, UnitCalls, NewCalls
  <2> QED BY <2>1, PipelineConstants DEF CleanInv
<1> QED BY <1>1, <1>2, <1>3, PipelineInvariant, PTL DEF Spec
-----------------------------------------------------------------------------
(* The mishaps that may leave a card behind.                               *)
Leaves == {"mail", "last", "kill"}

(* No step makes a stray of a card without such a mishap, and with one it  *)
(* makes one: the card whose creation or whose undoing is not known to     *)
(* have succeeded, or the one in hand when the run ends.                   *)
LEMMA StraysStep ==
  ASSUME PipelineInv, [Next]_vars
  PROVE  \/ Strays' \subseteq Strays
         \/ \E m \in Leaves, c \in Card : Spend(m) /\ Strays' \subseteq Strays \union {c}
<1> USE PipelineConstants DEF PipelineInv
<1> DEFINE Quiet == /\ UNCHANGED <<board, ledger>>
                    /\ InHand \subseteq InHand'
<1>1. Quiet => Strays' \subseteq Strays
  BY DEF Strays, Exists
<1>2. ASSUME StartRun \/ List \/ FetchEnds \/ LoopEnds \/ EndRun PROVE Quiet
  BY <1>2 DEF StartRun, List, FetchEnds, LoopEnds, EndRun, RunRaise, Goto, service, InHand
<1>3. ASSUME NEW e \in Email, Fetch(e) \/ TakeEmail(e) PROVE Quiet
  BY <1>3 DEF Fetch, TakeEmail, RunRaise, Goto, service, InHand
<1>4. ASSUME Parse \/ Search \/ SearchArchive \/ AddComment \/ Dedup \/ Build PROVE Quiet
  BY <1>4 DEF Parse, Search, SearchArchive, AddComment, Dedup, Build, MailRaise, Goto, Route,
     service, InHand
<1>5. ASSUME MarkProcessed \/ MarkFailed PROVE Quiet
  BY <1>5 DEF MarkProcessed, MarkFailed, RunRaise, Goto, InHand
<1>6. ASSUME DeadlinePasses \/ (\E e \in Email : Arrive(e) \/ Requeue(e)) \/ UNCHANGED vars
      PROVE  Quiet
  BY <1>6 DEF DeadlinePasses, Arrive, Requeue, vars, service, InHand
<1>7. ASSUME NEW c \in Card, MoveCard(c) PROVE Strays' \subseteq Strays
  <2>1. /\ UNCHANGED <<pc, card, ledger>>
        /\ \A d \in Card : Exists(d)' => Exists(d)
    BY <1>7 DEF MoveCard, Exists, TypeOK
  <2> QED BY <2>1 DEF Strays, InHand
<1>8. ASSUME Crash
      PROVE  \/ Strays' \subseteq Strays
             \/ \E m \in Leaves, c \in Card : Spend(m) /\ Strays' \subseteq Strays \union {c}
  <2>1. UNCHANGED <<board, ledger>> /\ Spend("kill")
    BY <1>8 DEF Crash, service
  <2>2. CASE card \in Card
    <3>1. Strays' \subseteq Strays \union {card}
      BY <2>1 DEF Strays, Exists, InHand
    <3> QED BY <2>1, <2>2, <3>1 DEF Leaves
  <2>3. CASE card \notin Card
    <3>1. Strays' \subseteq Strays
      BY <2>1, <2>3 DEF Strays, Exists, InHand
    <3> QED BY <3>1
  <2> QED BY <2>2, <2>3
<1>9. ASSUME CreateCard
      PROVE  \/ Strays' \subseteq Strays
             \/ \E m \in Leaves, c \in Card : Spend(m) /\ Strays' \subseteq Strays \union {c}
  <2>1. pc = "create" /\ UNCHANGED ledger
    BY <1>9 DEF CreateCard
  <2>2. CASE UNCHANGED <<board, card>>
    BY <2>1, <2>2 DEF Strays, Exists, InHand
  <2>3. CASE \E c \in Card : /\ board' = [board EXCEPT ![c] = NewCard]
                             /\ Goto("attach") /\ card' = c
    <3>1. PICK c \in Card : /\ board' = [board EXCEPT ![c] = NewCard]
                           /\ Goto("attach") /\ card' = c
      BY <2>3
    <3>2. InHand' = {c} /\ \A d \in Card \ {c} : board'[d] = board[d]
      BY <3>1 DEF InHand, Goto, TypeOK
    <3> QED BY <2>1, <3>2 DEF Strays, Exists, InHand
  <2>4. CASE \E c \in Card : /\ board' = [board EXCEPT ![c] = NewCard]
                             /\ MailRaise("create")
    <3>1. PICK c \in Card : /\ board' = [board EXCEPT ![c] = NewCard]
                           /\ MailRaise("create")
      BY <2>4
    <3>2. Spend("mail") /\ \A d \in Card \ {c} : board'[d] = board[d]
      BY <3>1 DEF MailRaise, LastCalls, TypeOK
    <3>3. Strays' \subseteq Strays \union {c}
      BY <2>1, <3>2 DEF Strays, Exists, InHand
    <3> QED BY <3>2, <3>3 DEF Leaves
  <2> QED BY <1>9, <2>2, <2>3, <2>4 DEF CreateCard
<1>10. ASSUME Attach \/ Describe PROVE Strays' \subseteq Strays
  <2>1. /\ card \in Card /\ UNCHANGED <<card, ledger>>
        /\ \A d \in Card : board'[d].state = board[d].state
    <3>1. card \in Card /\ UNCHANGED <<card, ledger>>
      BY <1>10 DEF Attach, Describe, HandInv, UnitCalls
    <3>2. board' = board \/ \E part : board' = With(part)
      BY <1>10 DEF Attach, Describe
    <3>3. board \in [Card -> [ref : Ref \union {NoRef}, has : SUBSET Parts,
                              state : {"none", "open", "archived", "deleted"}]]
      BY DEF TypeOK
    <3> QED BY <3>1, <3>2, <3>3 DEF With
  <2>2. InHand' = InHand
    BY <1>10, <2>1 DEF Attach, Describe, Goto, Compensate, InHand
  <2> QED BY <2>1, <2>2 DEF Strays, Exists
<1>11. ASSUME Undo
       PROVE  \/ Strays' \subseteq Strays
              \/ \E m \in Leaves, c \in Card : Spend(m) /\ Strays' \subseteq Strays \union {c}
  <2>1. /\ card \in Card /\ pc = "undo" /\ UNCHANGED <<card, ledger>>
    BY <1>11 DEF Undo, HandInv, UnitCalls
  <2>2. CASE board' = [board EXCEPT ![card].state = "deleted"]
    <3>1. ~Exists(card)' /\ \A d \in Card \ {card} : board'[d] = board[d]
      BY <2>1, <2>2 DEF Exists, TypeOK
    <3> QED BY <2>1, <3>1 DEF Strays, Exists, InHand
  <2>3. CASE UNCHANGED board /\ MailRaise("undo")
    <3>1. Spend("last")
      BY <2>3 DEF MailRaise, LastCalls
    <3>2. Strays' \subseteq Strays \union {card}
      BY <2>1, <2>3 DEF Strays, Exists, InHand
    <3> QED BY <2>1, <3>1, <3>2 DEF Leaves
  <2> QED BY <1>11, <2>2, <2>3 DEF Undo
<1>12. ASSUME Record
       PROVE  \/ Strays' \subseteq Strays
              \/ \E m \in Leaves, c \in Card : Spend(m) /\ Strays' \subseteq Strays \union {c}
  <2>1. /\ card \in Card /\ pc = "record" /\ UNCHANGED <<card, board>>
        /\ RefOf[email] \in Ref /\ ledger[RefOf[email]] = NoCard
    BY <1>12 DEF Record, HandInv, UnitCalls, NewCalls, ClaimCalls
  <2>2. CASE ledger' = [ledger EXCEPT ![RefOf[email]] = card]
    <3>1. ledger'[RefOf[email]] = card /\ \A r \in Ref \ {RefOf[email]} : ledger'[r] = ledger[r]
      BY <2>1, <2>2 DEF TypeOK
    <3> QED BY <2>1, <3>1 DEF Strays, Exists, InHand
  <2>3. CASE UNCHANGED ledger /\ MailRaise("record")
    <3>1. Spend("last")
      BY <2>3 DEF MailRaise, LastCalls
    <3>2. Strays' \subseteq Strays \union {card}
      BY <2>1, <2>3 DEF Strays, Exists, InHand
    <3> QED BY <2>1, <3>1, <3>2 DEF Leaves
  <2> QED BY <1>12, <2>2, <2>3 DEF Record
<1> QED BY <1>1, <1>2, <1>3, <1>4, <1>5, <1>6, <1>7, <1>8, <1>9, <1>10, <1>11, <1>12
        DEF Next, ProcessMailbox, ProcessOne, Environment

(* There are finitely many strays, whatever the number of cards.           *)
StrayInv == IsFiniteSet(Strays) /\ StraysArePaidFor

(* Every step pays for the strays it leaves.                               *)
LEMMA StrayInvKept ==
  ASSUME PipelineInv, PipelineInv', StrayInv, [Next]_vars
  PROVE  StrayInv'
<1> DEFINE Cost == spent["mail"] + spent["last"] + spent["kill"]
<1>0. Leaves \subseteq Mishap
  BY DEF Leaves, Mishap
<1>1. \A m \in Leaves : spent[m] \in Nat /\ spent'[m] \in Nat
  BY <1>0 DEF PipelineInv, TypeOK
<1>2. Cost' >= Cost
  <2>1. \A m \in Leaves : spent'[m] >= spent[m]
    BY <1>0, <1>1, NextSpends, SpendGrows DEF PipelineInv
  <2> QED BY <1>1, <2>1 DEF Leaves
<1>3. ASSUME NEW m \in Leaves, Spend(m) PROVE Cost' = Cost + 1
  <2>1. \A n \in Leaves : spent'[n] = IF n = m THEN spent[n] + 1 ELSE spent[n]
    BY <1>0, <1>3 DEF PipelineInv, TypeOK, Spend
  <2> QED BY <1>1, <2>1 DEF Leaves
<1>4. Cost \in Nat /\ Cost' \in Nat
  BY <1>1 DEF Leaves
<1>5. IsFiniteSet(Strays) /\ Cardinality(Strays) \in Nat /\ Cardinality(Strays) <= Cost
  BY FS_CardinalityType DEF StrayInv, StraysArePaidFor
<1> HIDE DEF Cost
<1>6. CASE Strays' \subseteq Strays
  <2>1. IsFiniteSet(Strays') /\ Cardinality(Strays') <= Cardinality(Strays)
    BY <1>5, <1>6, FS_Subset
  <2>2. Cardinality(Strays') \in Nat
    BY <2>1, FS_CardinalityType
  <2>3. Cardinality(Strays') <= Cost'
    BY <1>2, <1>4, <1>5, <2>1, <2>2
  <2> QED BY <2>1, <2>3 DEF StrayInv, StraysArePaidFor, Cost
<1>7. CASE \E m \in Leaves, c \in Card : Spend(m) /\ Strays' \subseteq Strays \union {c}
  <2>1. PICK c \in Card : Strays' \subseteq Strays \union {c}
    BY <1>7
  <2>2. Cost' = Cost + 1
    BY <1>3, <1>7
  <2>3. /\ IsFiniteSet(Strays \union {c})
        /\ Cardinality(Strays \union {c}) <= Cardinality(Strays) + 1
        /\ Cardinality(Strays \union {c}) \in Nat
    BY <1>5, FS_AddElement, FS_CardinalityType
  <2>4. IsFiniteSet(Strays') /\ Cardinality(Strays') <= Cardinality(Strays \union {c})
    BY <2>1, <2>3, FS_Subset
  <2>5. Cardinality(Strays') \in Nat
    BY <2>4, FS_CardinalityType
  <2>6. Cardinality(Strays') <= Cost'
    BY <1>4, <1>5, <2>2, <2>3, <2>4, <2>5
  <2> QED BY <2>4, <2>6 DEF StrayInv, StraysArePaidFor, Cost
<1> QED BY <1>6, <1>7, StraysStep

(* A crash, a lost answer and a failed compensation leave at most one card *)
(* each, for every mailbox, board and number of mishaps: nothing else      *)
(* leaves any.                                                             *)
THEOREM StraysBounded == Spec => []StraysArePaidFor
<1>1. Init => StrayInv
  <2> SUFFICES ASSUME Init PROVE StrayInv
    OBVIOUS
  <2>1. Strays = {}
    BY DEF Init, Strays, Exists, Blank
  <2> QED BY <2>1, FS_EmptySet DEF Init, StrayInv, StraysArePaidFor, Mishap
<1>2. PipelineInv /\ PipelineInv' /\ StrayInv /\ [Next]_vars => StrayInv'
  BY StrayInvKept
<1>3. StrayInv => StraysArePaidFor
  BY DEF StrayInv
<1> QED BY <1>1, <1>2, <1>3, PipelineInvariant, PTL DEF Spec
-----------------------------------------------------------------------------
(* The setting of CommentFollowsItsClaim, and the good claims that a       *)
(* comment was received after.                                             *)
Orderly ==
  /\ ~MailFailed /\ spent["move"] = 0
  /\ IsFiniteSet(Email) /\ Cardinality(Email) <= PageMax

GoodClaim(f) == IsClaim(f) /\ Good(f)
Preceded(e)  == \E f \in Email : GoodClaim(f) /\ RefOf[e] = RefOf[f] /\ Date[f] < Date[e]
InLedger(e)  == RefOf[e] \in Ref /\ ledger[RefOf[e]] # NoCard

(* Gmail received the messages in the order of their dates.                *)
ArrivedInv ==
  /\ \A e \in listed : labels[e] # {}
  /\ \A e, f \in Email : labels[e] # {} /\ Date[f] < Date[e] => labels[f] # {}

(* Only the operator archives a card.                                      *)
OpenInv == spent["move"] = 0 => \A c \in Card : board[c].state # "archived"

(* A good claim that the run has relabelled is in the ledger.              *)
DoneInv == Orderly => \A f \in done : GoodClaim(f) => InLedger(f)

(* A good claim older than a listed email is listed with it, or it is in   *)
(* the ledger from an earlier run.                                         *)
ListedInv ==
  Orderly => \A e \in listed, f \in Email :
               GoodClaim(f) /\ Date[f] < Date[e] => f \in listed \/ InLedger(f)

(* So the ledger has it when the email is taken: the search finds a card.  *)
TakenInv ==
  Orderly =>
    /\ pc \in {"parse", "search"} /\ Preceded(email) => InLedger(email)
    /\ pc \in {"archive", "failed"} /\ IsComment(email) /\ Good(email) => ~Preceded(email)

(* A comment that a good claim precedes is not labelled `failed`.          *)
NotFailedInv ==
  Orderly => \A e \in Email :
               IsComment(e) /\ Good(e) /\ Preceded(e) => "failed" \notin labels[e]

FollowInv ==
  ArrivedInv /\ OpenInv /\ DoneInv /\ ListedInv /\ TakenInv /\ NotFailedInv

(* What stays: the order is lost for good, the ledger only grows, and a    *)
(* failed call inside the boundary is against the order.                   *)
LEMMA OrderStays ==
  ASSUME PipelineInv, [Next]_vars
  PROVE  /\ Orderly' => Orderly
         /\ \A e \in Email : InLedger(e) => InLedger(e)'
         /\ \A call : MailRaise(call) \/ Compensate(call) => ~Orderly'
<1> USE PipelineConstants DEF PipelineInv
<1>1. MailFailed => MailFailed'
  BY FailureCounts
<1>2. spent["move"] \in Nat /\ spent'["move"] \in Nat /\ spent'["move"] >= spent["move"]
  BY NextSpends, SpendGrows DEF Mishap, TypeOK
<1>3. \A r \in Ref : ledger[r] # NoCard => ledger'[r] # NoCard
  <2>1. CASE UNCHANGED ledger
    BY <2>1
  <2>2. CASE Record
    <3>1. card \in Card
      BY <2>2 DEF Record, HandInv, UnitCalls
    <3> QED BY <2>2, <3>1 DEF Record, TypeOK
  <2>3. UNCHANGED ledger \/ Record
    BY DEF Next, ProcessMailbox, ProcessOne, Environment, StartRun, List, Fetch, FetchEnds,
         TakeEmail, LoopEnds, Parse, Search, SearchArchive, AddComment, Dedup, Build,
         CreateCard, Attach, Describe, Undo, MarkProcessed, MarkFailed, EndRun,
         DeadlinePasses, Crash, Arrive, Requeue, MoveCard, service, vars
  <2> QED BY <2>1, <2>2, <2>3
<1>4. \A call : MailRaise(call) \/ Compensate(call) => MailFailed'
  BY FailureCounts
<1> QED BY <1>1, <1>2, <1>3, <1>4 DEF Orderly, InLedger

(* No step takes an email back, or has one arrive before its elders.       *)
LEMMA ArrivedStep ==
  ASSUME PipelineInv, ArrivedInv, [Next]_vars
  PROVE  ArrivedInv'
<1> USE DEF PipelineInv, ArrivedInv
<1>1. CASE UNCHANGED <<labels, listed>>
  BY <1>1
<1>2. CASE StartRun
  BY <1>2 DEF StartRun, service
<1>3. CASE List
  BY <1>3 DEF List, Page, Unread, service
<1>4. CASE MarkProcessed \/ MarkFailed
  <2>1. email \in listed /\ UNCHANGED listed
    BY <1>4 DEF MarkProcessed, MarkFailed, HandInv, TypeOK
  <2>2. \A e \in Email \ {email} : labels'[e] = labels[e]
    BY <1>4, <2>1 DEF MarkProcessed, MarkFailed, Relabelled, TypeOK
  <2>3. labels[email] # {} /\ email \in Email
    BY <2>1 DEF TypeOK
  <2>4. labels'[email] # {}
    <3>1. \/ UNCHANGED labels
          \/ \E label : labels' = [labels EXCEPT ![email] = (labels[email] \ {"UNREAD"}) \union {label}]
      BY <1>4 DEF MarkProcessed, MarkFailed, Relabelled
    <3>2. ASSUME NEW label,
                 labels' = [labels EXCEPT ![email] = (labels[email] \ {"UNREAD"}) \union {label}]
          PROVE  label \in labels'[email]
      BY <2>3, <3>2 DEF TypeOK
    <3> QED BY <2>3, <3>1, <3>2
  <2> QED BY <2>1, <2>2, <2>3, <2>4 DEF TypeOK
<1>5. ASSUME NEW e \in Email, Arrive(e) PROVE ArrivedInv'
  BY <1>5 DEF Arrive, TypeOK, progress
<1>6. ASSUME NEW e \in Email, Requeue(e) PROVE ArrivedInv'
  <2>1. \A f \in Email \ {e} : labels'[f] = labels[f]
    BY <1>6 DEF Requeue, TypeOK
  <2>2. labels[e] # {} /\ labels'[e] # {}
    BY <1>6 DEF Requeue, TypeOK
  <2> QED BY <1>6, <2>1, <2>2 DEF Requeue, TypeOK, progress
<1>7. \/ UNCHANGED <<labels, listed>> \/ StartRun \/ List \/ MarkProcessed \/ MarkFailed
      \/ \E e \in Email : Arrive(e) \/ Requeue(e)
  BY DEF Next, ProcessMailbox, ProcessOne, Environment, Fetch, FetchEnds,
         TakeEmail, LoopEnds, Parse, Search, SearchArchive, AddComment, Dedup, Build,
         CreateCard, Attach, Describe, Undo, Record, EndRun,
         DeadlinePasses, Crash, MoveCard, service, progress, vars
<1> QED BY <1>1, <1>2, <1>3, <1>4, <1>5, <1>6, <1>7

(* A step that archives a card is a move of the operator.                  *)
LEMMA OpenStep ==
  ASSUME PipelineInv, OpenInv, [Next]_vars
  PROVE  OpenInv'
<1> USE DEF PipelineInv, OpenInv
<1>0. spent'["move"] = 0 => spent["move"] = 0
  <2>1. "move" \in Mishap
    BY DEF Mishap
  <2>2. spent["move"] \in Nat
    BY <2>1 DEF TypeOK
  <2>3. spent'["move"] = spent["move"] \/ spent'["move"] >= spent["move"]
    BY <2>1, NextSpends, SpendGrows
  <2> QED BY <2>2, <2>3
<1>1. CASE UNCHANGED board
  BY <1>0, <1>1
<1>2. CASE CreateCard \/ Attach \/ Describe \/ Undo
  <2>1. \A c \in Card : board'[c].state \in {board[c].state, "open", "deleted"}
    BY <1>2 DEF CreateCard, Attach, Describe, Undo, NewCard, With, TypeOK
  <2> QED BY <1>0, <2>1
<1>3. ASSUME NEW c \in Card, MoveCard(c) PROVE OpenInv'
  <2>1. spent'["move"] > 0
    BY <1>3, SpendGrows DEF MoveCard, Mishap
  <2> QED BY <2>1
<1>4. \/ UNCHANGED board \/ CreateCard \/ Attach \/ Describe \/ Undo
      \/ \E c \in Card : MoveCard(c)
  BY DEF Next, ProcessMailbox, ProcessOne, Environment, StartRun, List, Fetch, FetchEnds,
         TakeEmail, LoopEnds, Parse, Search, SearchArchive, AddComment, Dedup, Build,
         Record, MarkProcessed, MarkFailed, EndRun,
         DeadlinePasses, Crash, Arrive, Requeue, service, vars
<1> QED BY <1>1, <1>2, <1>3, <1>4

(* A claim leaves the loop of an orderly run with its ledger row.          *)
LEMMA DoneStep ==
  ASSUME PipelineInv, BurnInv, DoneInv, [Next]_vars
  PROVE  DoneInv'
<1> USE DEF PipelineInv
<1> SUFFICES ASSUME Orderly', NEW f \in done', GoodClaim(f)
             PROVE  InLedger(f)'
  BY DEF DoneInv, GoodClaim
<1>0. Orderly /\ ~MailFailed /\ done \subseteq Email
  BY OrderStays DEF Orderly, TypeOK
<1>1. CASE f \in done
  BY <1>0, <1>1, OrderStays DEF DoneInv
<1>2. CASE MarkProcessed /\ f = email
  <2>1. Effect(email) /\ email \in Email
    BY <1>2 DEF MarkProcessed, HandInv, TypeOK
  <2> QED BY <1>2, <2>1, OrderStays DEF Effect, InLedger, GoodClaim
<1>3. CASE MarkFailed /\ f = email
  BY <1>0, <1>3 DEF MarkFailed, BurnInv, GoodClaim
<1>4. f \in done \/ (MarkProcessed /\ f = email) \/ (MarkFailed /\ f = email)
  BY DEF Next, ProcessMailbox, ProcessOne, Environment, StartRun, List, Fetch, FetchEnds,
         TakeEmail, LoopEnds, Parse, Search, SearchArchive, AddComment, Dedup, Build,
         CreateCard, Attach, Describe, Undo, Record, MarkProcessed, MarkFailed, EndRun,
         DeadlinePasses, Crash, Arrive, Requeue, MoveCard, service, progress, vars
<1> QED BY <1>1, <1>2, <1>3, <1>4

(* A page that is not full holds every unread email.                       *)
LEMMA WholePage ==
  ASSUME IsFiniteSet(Email), Cardinality(Email) <= PageMax, NEW page, Page(page)
  PROVE  page = Unread
<1>1. Unread \in SUBSET Email
  BY DEF Unread
<1>2. IsFiniteSet(Unread) /\ Cardinality(Unread) <= Cardinality(Email)
  BY <1>1, FS_Subset
<1>3. page \in SUBSET Unread /\ (page # Unread => Cardinality(page) = PageMax)
  BY DEF Page
<1>4. /\ Cardinality(page) <= Cardinality(Unread)
      /\ Cardinality(Unread) = Cardinality(page) => Unread = page
  BY <1>2, <1>3, FS_Subset
<1>5. Cardinality(Unread) \in Nat /\ Cardinality(Email) \in Nat /\ PageMax \in Nat
  BY <1>2, FS_CardinalityType, PipelineConstants
<1>6. page # Unread => Cardinality(Unread) = Cardinality(page)
  BY <1>2, <1>3, <1>4, <1>5
<1> QED BY <1>4, <1>6

(* An older good claim is on the page, for the page holds every unread     *)
(* email.                                                                  *)
LEMMA ListedStep ==
  ASSUME PipelineInv, BurnInv, ArrivedInv, ListedInv, [Next]_vars
  PROVE  ListedInv'
<1> USE DEF PipelineInv
<1> SUFFICES ASSUME Orderly', NEW e \in listed', NEW f \in Email, GoodClaim(f), Date[f] < Date[e]
             PROVE  f \in listed' \/ InLedger(f)'
  BY DEF ListedInv, GoodClaim
<1>0. Orderly /\ ~MailFailed
  BY OrderStays DEF Orderly
<1>1. CASE UNCHANGED listed
  BY <1>0, <1>1, OrderStays DEF ListedInv
<1>2. CASE List /\ ~UNCHANGED listed
  <2>1. listed' = Unread
    BY <1>0, <1>2, WholePage DEF List, Orderly
  <2>2. e \in Email /\ labels[e] # {}
    BY <2>1 DEF Unread
  <2>3. labels[f] # {}
    BY <2>2 DEF ArrivedInv
  <2>4. "failed" \notin labels[f]
    BY <1>0 DEF BurnInv, GoodClaimNotBurned, GoodClaim
  <2>5. f \in Unread \/ "procesado" \in labels[f]
    BY <2>3, <2>4 DEF Unread, TypeOK
  <2>6. "procesado" \in labels[f] => InLedger(f)
    BY DEF DurableInv, Effect, InLedger, GoodClaim
  <2> QED BY <2>1, <2>5, <2>6, OrderStays
<1>3. CASE StartRun
  BY <1>3 DEF StartRun
<1>4. UNCHANGED listed \/ List \/ StartRun
  BY DEF Next, ProcessMailbox, ProcessOne, Environment, Fetch, FetchEnds,
         TakeEmail, LoopEnds, Parse, Search, SearchArchive, AddComment, Dedup, Build,
         CreateCard, Attach, Describe, Undo, Record, MarkProcessed, MarkFailed, EndRun,
         DeadlinePasses, Crash, Arrive, Requeue, MoveCard, service, progress, vars
<1> QED BY <1>1, <1>2, <1>3, <1>4

(* A comment taken after the older claims of its page were relabelled      *)
(* meets a card, which nobody archived.                                    *)
LEMMA TakenStep ==
  ASSUME PipelineInv, CutInv, OpenInv, DoneInv, ListedInv, TakenInv, [Next]_vars
  PROVE  TakenInv'
<1> USE PipelineConstants DEF PipelineInv
<1> SUFFICES ASSUME Orderly'
             PROVE  /\ pc' \in {"parse", "search"} /\ Preceded(email)' => InLedger(email)'
                    /\ pc' \in {"archive", "failed"} /\ IsComment(email') /\ Good(email')
                         => ~Preceded(email)'
  BY DEF TakenInv, IsComment, Good, Refused, Parsed, IsClaim
<1>0. Orderly /\ \A call : ~MailRaise(call) /\ ~Compensate(call)
  BY OrderStays
<1>same. ASSUME UNCHANGED email PROVE Preceded(email)' <=> Preceded(email)
  BY <1>same DEF Preceded, GoodClaim, IsClaim, Good, Refused, Parsed
<1>1. CASE UNCHANGED <<pc, email>>
  <2>1. pc \in {"parse", "search"} => email \in Email
    BY DEF HandInv, CommentCalls, TypeOK
  <2> QED BY <1>0, <1>1, <1>same, <2>1, OrderStays DEF TakenInv
<1>2. ASSUME NEW e \in Email, TakeEmail(e) PROVE Preceded(e) => InLedger(e)'
  <2> SUFFICES ASSUME NEW f \in Email, GoodClaim(f), RefOf[e] = RefOf[f], Date[f] < Date[e]
               PROVE  InLedger(e)'
    BY DEF Preceded
  <2>1. e \in listed /\ fetched = listed
    BY <1>2 DEF TakeEmail, Todo, InTime, CutInv, TypeOK
  <2>2. Date[e] \in Nat /\ Date[f] \in Nat
    OBVIOUS
  <2>3. f \notin Todo
    BY <1>2, <2>2 DEF TakeEmail, Oldest
  <2>4. f \in listed => f \in done
    BY <2>1, <2>3 DEF Todo
  <2>5. InLedger(f)
    BY <1>0, <2>1, <2>4 DEF ListedInv, DoneInv
  <2>6. InLedger(f)'
    BY <2>5, OrderStays
  <2> QED BY <2>6 DEF InLedger
<1>3. ASSUME NEW e \in Email, TakeEmail(e)
      PROVE  /\ pc' \in {"parse", "search"} /\ Preceded(email)' => InLedger(email)'
             /\ pc' \notin {"archive", "failed"}
  <2>1. pc' = "parse" /\ email' = e /\ UNCHANGED ledger
    BY <1>3 DEF TakeEmail, Goto, service
  <2>2. Preceded(email)' <=> Preceded(e)
    BY <2>1 DEF Preceded, GoodClaim, IsClaim, Good, Refused, Parsed
  <2>3. InLedger(email)' <=> InLedger(e)'
    BY <2>1 DEF InLedger
  <2> QED BY <1>2, <1>3, <2>1, <2>2, <2>3
<1>4. CASE Parse
  <2>1. /\ UNCHANGED <<email, ledger>> /\ pc = "parse" /\ email \in Email
        /\ \E noticed \in Finds(email, Noticed) : pc' = Route(email, noticed)
    BY <1>0, <1>4 DEF Parse, Goto, service, HandInv, TypeOK
  <2>2. pc' # "archive" /\ (pc' = "failed" => ~Good(email))
    BY <2>1 DEF Route, Good, Refused, Finds
  <2> QED BY <1>0, <1>same, <2>1, <2>2, OrderStays DEF TakenInv, InLedger
<1>5. CASE Search
  <2>1. /\ pc = "search" /\ UNCHANGED <<email, ledger>> /\ pc' \in {"comment", "archive"}
        /\ pc' = "archive" => \A c \in Card : ~Matches(c, "open")
    BY <1>0, <1>5 DEF Search, Goto, service
  <2>2. InLedger(email) => \E c \in Card : Matches(c, "open")
    <3> SUFFICES ASSUME InLedger(email) PROVE Matches(ledger[RefOf[email]], "open")
                                              /\ ledger[RefOf[email]] \in Card
      OBVIOUS
    <3>1. LedgerNamesFullCard /\ ledger[RefOf[email]] \in Card
      BY DEF InLedger, TypeOK
    <3>2. board[ledger[RefOf[email]]].state = "open"
      BY <1>0, <3>1 DEF LedgerNamesFullCard, InLedger, Exists, OpenInv, Orderly
    <3> QED BY <3>1, <3>2 DEF LedgerNamesFullCard, InLedger, Matches
  <2>3. pc' = "archive" => ~Preceded(email)
    BY <1>0, <2>1, <2>2 DEF TakenInv
  <2> QED BY <1>same, <2>1, <2>3
<1>6. CASE SearchArchive
  <2>1. pc = "archive" /\ UNCHANGED email /\ pc' \in {"comment", "failed"}
    BY <1>0, <1>6 DEF SearchArchive, Goto
  <2> QED BY <1>0, <1>same, <2>1 DEF TakenInv, IsComment, Good, Refused, Parsed, IsClaim
<1>7. CASE Build \/ Undo \/ Dedup \/ CreateCard \/ Attach \/ Describe \/ Record
  <2>1. UNCHANGED email /\ IsClaim(email)
    BY <1>7 DEF Build, Undo, Dedup, CreateCard, Attach, Describe, Record, HandInv, ClaimCalls,
       NewCalls, UnitCalls
  <2>2. pc' \notin {"parse", "search", "archive"}
    BY <1>0, <1>7 DEF Build, Undo, Dedup, CreateCard, Attach, Describe, Record, Goto
  <2> QED BY <2>1, <2>2 DEF IsComment, IsClaim, CommentTypes, CardTypes
<1>8. CASE pc' \notin {"parse", "search", "archive", "failed"}
  BY <1>8
<1>9. \/ UNCHANGED <<pc, email>> \/ (\E e \in Email : TakeEmail(e)) \/ Parse \/ Search
      \/ SearchArchive \/ Build \/ Undo \/ Dedup \/ CreateCard \/ Attach \/ Describe \/ Record
      \/ pc' \notin {"parse", "search", "archive", "failed"}
  BY <1>0 DEF Next, ProcessMailbox, ProcessOne, Environment, StartRun, List, Fetch, FetchEnds,
         LoopEnds, AddComment, MarkProcessed, MarkFailed, EndRun, RunRaise, Goto,
         DeadlinePasses, Crash, Arrive, Requeue, MoveCard, progress, vars
<1> QED BY <1>1, <1>3, <1>4, <1>5, <1>6, <1>7, <1>8, <1>9

(* MarkFailed is the only step that could label such a comment `failed`.   *)
LEMMA NotFailedStep ==
  ASSUME PipelineInv, TakenInv, NotFailedInv, [Next]_vars
  PROVE  NotFailedInv'
<1> USE DEF PipelineInv
<1> SUFFICES ASSUME Orderly', NEW e \in Email, IsComment(e), Good(e), Preceded(e)
             PROVE  "failed" \notin labels'[e]
  BY DEF NotFailedInv, IsComment, Good, Refused, Parsed, IsClaim, Preceded, GoodClaim
<1>0. Orderly
  BY OrderStays
<1>1. "failed" \notin labels[e]
  BY <1>0 DEF NotFailedInv
<1>2. CASE MarkFailed
  <2>1. email # e
    BY <1>0, <1>2 DEF MarkFailed, TakenInv
  <2> QED BY <1>1, <1>2, <2>1 DEF MarkFailed, Relabelled, TypeOK
<1>3. CASE UNCHANGED labels
  BY <1>1, <1>3
<1>4. CASE MarkProcessed
  BY <1>1, <1>4 DEF MarkProcessed, Relabelled, TypeOK
<1>5. ASSUME NEW f \in Email, Arrive(f) \/ Requeue(f) PROVE "failed" \notin labels'[e]
  BY <1>1, <1>5 DEF Arrive, Requeue, TypeOK
<1>6. \/ UNCHANGED labels \/ MarkProcessed \/ MarkFailed
      \/ \E f \in Email : Arrive(f) \/ Requeue(f)
  BY DEF Next, ProcessMailbox, ProcessOne, Environment, StartRun, List, Fetch, FetchEnds,
         TakeEmail, LoopEnds, Parse, Search, SearchArchive, AddComment, Dedup, Build,
         CreateCard, Attach, Describe, Undo, Record, EndRun,
         DeadlinePasses, Crash, MoveCard, service, vars
<1> QED BY <1>2, <1>3, <1>4, <1>5, <1>6

(* A comunicación or gestión is never `failed` for want of the card of a   *)
(* good claim received before it, for every mailbox that fits a page.      *)
THEOREM CommentsFollow == Spec => []CommentFollowsItsClaim
<1> DEFINE Inv == CutInv /\ BurnInv /\ FollowInv
<1>1. Init => Inv
  <2> SUFFICES ASSUME Init PROVE Inv
    OBVIOUS
  <2>1. CutInv /\ BurnInv
    BY DEF Init, CutInv, BurnInv, GoodClaimNotBurned
  <2>2. ArrivedInv /\ OpenInv /\ DoneInv /\ ListedInv /\ TakenInv /\ NotFailedInv
    BY DEF Init, ArrivedInv, OpenInv, DoneInv, ListedInv, TakenInv, NotFailedInv, Blank
  <2> QED BY <2>1, <2>2 DEF FollowInv
<1>2. PipelineInv /\ Inv /\ [Next]_vars => Inv'
  BY CutInvKept, BurnInvKept, ArrivedStep, OpenStep, DoneStep, ListedStep, TakenStep,
     NotFailedStep DEF FollowInv, PipelineInv
<1>3. Inv => CommentFollowsItsClaim
  BY DEF FollowInv, NotFailedInv, Orderly, Preceded, GoodClaim, CommentFollowsItsClaim
<1> QED BY <1>1, <1>2, <1>3, PipelineInvariant, PTL DEF Spec
-----------------------------------------------------------------------------
(* As far as the mishaps go, a comment finds the card of a claim that has  *)
(* one.                                                                    *)
Undisturbed == ~MailFailed /\ spent["move"] = 0

(* A good comment that the board's lists did not have a card for, or that  *)
(* is about to be labelled `failed`, is of a claim without a ledger row.   *)
MissInv ==
  Undisturbed /\ pc \in {"archive", "failed"} /\ IsComment(email) /\ Good(email) =>
    ledger[RefOf[email]] = NoCard

(* A search that misses has seen every open card, those of the ledger      *)
(* among them.                                                             *)
LEMMA MissStep ==
  ASSUME PipelineInv, OpenInv, MissInv, [Next]_vars
  PROVE  MissInv'
<1> USE PipelineConstants DEF PipelineInv
<1> SUFFICES ASSUME Undisturbed', pc' \in {"archive", "failed"}, IsComment(email'), Good(email')
             PROVE  ledger'[RefOf[email']] = NoCard
  BY DEF MissInv, IsComment, Good, Refused, Parsed, IsClaim
<1>0. Undisturbed /\ \A call : ~MailRaise(call) /\ ~Compensate(call)
  <2>1. "move" \in Mishap /\ spent["move"] \in Nat
    BY DEF Mishap, TypeOK
  <2>2. spent'["move"] = spent["move"] \/ spent'["move"] >= spent["move"]
    BY <2>1, NextSpends, SpendGrows
  <2> QED BY <2>1, <2>2, FailureCounts DEF Undisturbed
<1>1. CASE UNCHANGED <<pc, email, ledger>>
  BY <1>0, <1>1 DEF MissInv
<1>2. CASE Parse
  <2>1. email' = email /\ \E noticed \in Finds(email, Noticed) : pc' = Route(email, noticed)
    BY <1>0, <1>2 DEF Parse, Goto
  <2> QED BY <2>1 DEF Route, Good, Refused, Finds
<1>3. CASE Search
  <2>1. /\ UNCHANGED <<email, ledger>> /\ email \in Email
        /\ \A c \in Card : ~Matches(c, "open")
    BY <1>0, <1>3 DEF Search, Goto, service, HandInv, CommentCalls, TypeOK
  <2>2. ASSUME ledger[RefOf[email]] # NoCard PROVE FALSE
    <3>1. RefOf[email] \in Ref /\ ledger[RefOf[email]] \in Card
      BY <1>3, <2>1, <2>2 DEF Search, HandInv, CommentCalls, TypeOK
    <3>2. board[ledger[RefOf[email]]].state = "open"
      BY <1>0, <2>2, <3>1 DEF LedgerNamesFullCard, Exists, OpenInv, Undisturbed
    <3> QED BY <2>1, <2>2, <3>1, <3>2 DEF LedgerNamesFullCard, Matches
  <2> QED BY <2>1, <2>2
<1>4. CASE SearchArchive
  BY <1>0, <1>4 DEF SearchArchive, Goto, service, MissInv
<1>5. CASE Build \/ Undo \/ Dedup \/ CreateCard \/ Attach \/ Describe \/ Record
  <2>1. UNCHANGED email /\ IsClaim(email)
    BY <1>5 DEF Build, Undo, Dedup, CreateCard, Attach, Describe, Record, HandInv, ClaimCalls,
       NewCalls, UnitCalls
  <2> QED BY <2>1 DEF IsComment, IsClaim, CommentTypes, CardTypes
<1>6. \/ UNCHANGED <<pc, email, ledger>> \/ Parse \/ Search \/ SearchArchive \/ Build \/ Undo
      \/ Dedup \/ CreateCard \/ Attach \/ Describe \/ Record
      \/ pc' \notin {"archive", "failed"}
  BY <1>0 DEF Next, ProcessMailbox, ProcessOne, Environment, StartRun, List, Fetch, FetchEnds,
         TakeEmail, LoopEnds, AddComment, MarkProcessed, MarkFailed, EndRun, RunRaise, Goto,
         DeadlinePasses, Crash, Arrive, Requeue, MoveCard, progress, service, vars
<1> QED BY <1>1, <1>2, <1>3, <1>4, <1>5, <1>6

(* A good comunicación or gestión is labelled `failed` for want of a card  *)
(* only while its claim has no ledger row.                                 *)
NoticesAreNotBurned ==
  [][\A e \in Email :
       /\ "failed" \in labels'[e] /\ "failed" \notin labels[e]
       /\ IsComment(e) /\ Good(e) /\ Undisturbed
       => ledger[RefOf[e]] = NoCard]_vars

(* The label `failed` is given by MarkFailed alone, to the email in hand.  *)
LEMMA BurnedForWant ==
  ASSUME PipelineInv, MissInv, [Next]_vars,
         NEW e \in Email, "failed" \in labels'[e], "failed" \notin labels[e],
         IsComment(e), Good(e), Undisturbed
  PROVE  ledger[RefOf[e]] = NoCard
<1> USE DEF PipelineInv
<1>1. CASE MarkFailed
  BY <1>1 DEF MarkFailed, Relabelled, MissInv, TypeOK
<1>2. CASE MarkProcessed
  BY <1>2 DEF MarkProcessed, Relabelled, TypeOK
<1>3. CASE \E f \in Email : Arrive(f) \/ Requeue(f)
  BY <1>3 DEF Arrive, Requeue, TypeOK
<1>4. \/ UNCHANGED labels \/ MarkProcessed \/ MarkFailed
      \/ \E f \in Email : Arrive(f) \/ Requeue(f)
  BY DEF Next, ProcessMailbox, ProcessOne, Environment, StartRun, List, Fetch, FetchEnds,
         TakeEmail, LoopEnds, Parse, Search, SearchArchive, AddComment, Dedup, Build,
         CreateCard, Attach, Describe, Undo, Record, EndRun,
         DeadlinePasses, Crash, MoveCard, service, vars
<1> QED BY <1>1, <1>2, <1>3, <1>4

(* With no failed call inside the boundary and no moved card, whatever     *)
(* crashed or timed out, the email of a recorded claim gets its comment.   *)
THEOREM NoticesReachTheirCard == Spec => NoticesAreNotBurned
<1> DEFINE Inv == OpenInv /\ MissInv
<1>1. Init => Inv
  BY DEF Init, OpenInv, MissInv, Blank
<1>2. PipelineInv /\ Inv /\ [Next]_vars => Inv'
  BY OpenStep, MissStep
<1>3. PipelineInv /\ Inv /\ [Next]_vars =>
        [\A e \in Email :
           /\ "failed" \in labels'[e] /\ "failed" \notin labels[e]
           /\ IsComment(e) /\ Good(e) /\ Undisturbed
           => ledger[RefOf[e]] = NoCard]_vars
  BY BurnedForWant
<1> QED BY <1>1, <1>2, <1>3, PipelineInvariant, PTL DEF Spec, NoticesAreNotBurned
=============================================================================
