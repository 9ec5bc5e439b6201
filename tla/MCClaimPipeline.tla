-------------------------- MODULE MCClaimPipeline ---------------------------
(* ClaimPipeline on small mailboxes.                                       *)
EXTENDS ClaimPipeline, TLC

CONSTANTS e1, e2, e3, r1

(* e1 is a claim, e2 the comunicación about it and e3 a forward of the     *)
(* claim.                                                                  *)
MCType == e1 :> "DECLARACION_SINIESTRO" @@ e2 :> "COMUNICACION_A_COLABORADOR" @@
          e3 :> "SOLICITUD_ASISTENCIA_BRICO"
MCRefOf == [e \in Email |-> r1]

(* e2 and e3 arrive in the same millisecond.                               *)
MCDate == e1 :> 1 @@ e2 :> 2 @@ e3 :> 2

AnyCall == MailCalls \union RunCalls

Times(mail, last, fail, kill, deadline, requeue, move) ==
  "mail" :> mail @@ "last" :> last @@ "run" :> fail @@ "kill" :> kill @@
  "deadline" :> deadline @@ "requeue" :> requeue @@ "move" :> move

SafetyBudget  == Times(1, 1, 1, 1, 1, 1, 1)
ArchiveBudget == Times(1, 0, 0, 0, 0, 0, 2)
KillBudget    == Times(0, 0, 0, 1, 0, 0, 0)

MCSymmetry == Permutations(Card)
=============================================================================
