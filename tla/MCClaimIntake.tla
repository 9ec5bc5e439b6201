--------------------------- MODULE MCClaimIntake ----------------------------
(* ClaimIntake on a small mailbox.                                         *)
EXTENDS ClaimIntake, TLC

CONSTANTS e1, e2, e3, e4

MCAllowlist == {[domain |-> "insurer", upper |-> TRUE]}

Claim(digits) == [year |-> 2026, number |-> digits]

(* A message with an HTML part before the text, as an insurer sends it.    *)
Mail(from, marks, slashed, run, text) ==
  [from |-> from, marks |-> marks, urgent |-> FALSE, slashed |-> slashed, run |-> run,
   data |-> {},
   parts |-> << [mime |-> "text/html", data |-> {"<html>"}, parts |-> <<>>],
                [mime |-> "multipart/alternative", data |-> {}, parts |->
                   << [mime |-> "text/plain", data |-> text] >>] >>]

Insurer  == [at |-> TRUE, domain |-> "insurer", upper |-> FALSE]
Stranger == [at |-> TRUE, domain |-> "elsewhere", upper |-> FALSE]

(* e1 asks for assistance on claim 41, in a text with every field; e2 is   *)
(* the gestión of that claim, its number padded and its subject quoting a  *)
(* declaration too; e3 is a gestión on claim 4, whose declaration never    *)
(* came, with a notice that no pattern finds; e4 is from a stranger.       *)
Example ==
  e1 :> Mail(Insurer, {"asistencia"}, Claim(<<4, 1>>), NoNumber,
             {"town", "SOLICITUD_ASISTENCIA_BRICO"}) @@
  e2 :> Mail(Insurer, {"gestion", "declaracion"}, NoNumber, Claim(<<0, 0, 0, 0, 4, 1>>),
             {"notice"}) @@
  e3 :> Mail(Insurer, {"gestion"}, Claim(<<4>>), NoNumber, {}) @@
  e4 :> Mail(Stranger, {"declaracion"}, Claim(<<4, 1>>), NoNumber, {"town"})
MCMessage == [e \in Email |-> Example[e]]
MCAbout ==
  [e \in Email |-> (e1 :> Claim(<<4, 1>>) @@ e2 :> Claim(<<4, 1>>) @@
                    e3 :> Claim(<<4>>) @@ e4 :> NoNumber)[e]]
MCDate == [e \in Email |-> (e1 :> 1 @@ e2 :> 2 @@ e3 :> 3 @@ e4 :> 3)[e]]

SomeCalls == {"parse", "search", "build", "create"}

MCBudget ==
  "mail" :> 1 @@ "last" :> 0 @@ "run" :> 0 @@ "kill" :> 1 @@ "deadline" :> 0 @@
  "requeue" :> 0 @@ "move" :> 1
=============================================================================
