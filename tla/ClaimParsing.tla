---------------------------- MODULE ClaimParsing -----------------------------
(***************************************************************************)
(* What the pipeline reads in an email: claim_data.py, the sender checks   *)
(* of entry.py and the card names of trello_client.py, as operators on an  *)
(* abstract Gmail message                                                  *)
(*                                                                         *)
(*   from      the From header: NoFrom, or its domain and whether          *)
(*             parseaddr found an address in it                            *)
(*   marks     the claim markers that occur in the Subject                 *)
(*   urgent    whether "urgente" occurs in it                              *)
(*   slashed   the first YYYY/N in it, or NoNumber                         *)
(*   run       its first 20xx digit run, year and rest, or NoNumber        *)
(*   parts     the parts of a multipart payload, <<>> if it is not one     *)
(*   data      the data of a payload without parts                         *)
(*                                                                         *)
(* A text is the set of things the code can find in it.  A claim number is *)
(* a sequence of digits, because "041" and "41" are two references.        *)
(***************************************************************************)
EXTENDS Naturals, Sequences

CONSTANT SlashlessMin   \* digits that _SLASHLESS_REF wants behind the year

ASSUME SlashlessConstant == SlashlessMin \in Nat

Digit     == 0..9
Reference == [year : Nat, number : Seq(Digit)]
NoNumber  == [year |-> 0, number |-> <<>>]
NoText    == {}
NoFrom    == [at |-> FALSE, domain |-> "", upper |-> FALSE]
NoDomain  == [domain |-> "", upper |-> FALSE]

(* The services of an asistencia, in the order they are looked for.         *)
Services == <<"SOLICITUD_ASISTENCIA_BRICO", "SOLICITUD_ASISTENCIA_ENVIO_PROFESIONALES",
              "SOLICITUD_ASISTENCIA_ELECTRICIDAD_EMERGENCIA">>
-----------------------------------------------------------------------------
Lower(domain) == [domain EXCEPT !.upper = FALSE]

(* parse_sender_allowlist, of a setting it accepts.                        *)
AllowedDomains(entries) == {Lower(d) : d \in entries}

(* sender_domain: a header without an address has no domain.               *)
SenderDomain(m) ==
  IF m.from.at THEN Lower([domain |-> m.from.domain, upper |-> m.from.upper]) ELSE NoDomain
-----------------------------------------------------------------------------
(* The first text of a sequence that is not empty.                         *)
FirstText(texts) ==
  LET Full == {i \in DOMAIN texts : texts[i] # NoText} IN
  IF Full = {} THEN NoText ELSE texts[CHOOSE i \in Full : \A j \in Full : i <= j]

(* get_plain_text in a multipart/* part: its own parts are leaves.         *)
LeavesText(leaves) ==
  FirstText([i \in DOMAIN leaves |->
               IF leaves[i].mime = "text/plain" THEN leaves[i].data ELSE NoText])

PartText(p) ==
  IF p.mime = "text/plain" /\ p.data # NoText THEN p.data ELSE LeavesText(p.parts)

(* _decode_body: the walk stops at the first text/plain that has data; a   *)
(* payload without parts is taken whatever its type.                       *)
Body(m) ==
  IF m.parts = <<>> THEN m.data ELSE FirstText([i \in DOMAIN m.parts |-> PartText(m.parts[i])])
-----------------------------------------------------------------------------
(* The service of an asistencia, or "none".                                *)
ServiceIn(text) ==
  LET Named == {i \in DOMAIN Services : Services[i] \in text} IN
  IF Named = {} THEN "none" ELSE Services[CHOOSE i \in Named : \A j \in Named : i <= j]

(* ClaimType.from_subject: the markers in the order of the code.  "none"   *)
(* stands for the None of an unmarked subject and for the ValueError of an *)
(* asistencia whose body names no service: both fail the email.            *)
FromSubject(m) ==
  IF "gestion" \in m.marks THEN "GESTION_CON_PERITO"
  ELSE IF "declaracion" \in m.marks THEN
    IF m.urgent THEN "DECLARACION_URGENTE" ELSE "DECLARACION_SINIESTRO"
  ELSE IF "asistencia" \in m.marks THEN ServiceIn(Body(m))
  ELSE IF "comunicacion" \in m.marks THEN "COMUNICACION_A_COLABORADOR"
  ELSE "none"

(* str.lstrip("0").                                                        *)
LStrip(digits) ==
  LET Kept == {i \in DOMAIN digits : digits[i] # 0} IN
  IF Kept = {} THEN <<>>
  ELSE SubSeq(digits, CHOOSE i \in Kept : \A j \in Kept : i <= j, Len(digits))

(* Faulty: the zeros that pad the number are kept.                         *)
ParseClaimRefPadded(m, slashless) ==
  IF m.slashed # NoNumber \/ ~slashless THEN m.slashed ELSE m.run

(* parse_claim_ref: YYYY/N as it stands, else, for a gestión, the run      *)
(* without its zeros.                                                      *)
ParseClaimRef(m, slashless) ==
  LET number == LStrip(m.run.number) IN
  CASE m.slashed # NoNumber -> m.slashed
    [] /\ m.slashed = NoNumber /\ slashless
       /\ Len(m.run.number) >= SlashlessMin /\ number # <<>> ->
         [year |-> m.run.year, number |-> number]
    [] OTHER -> NoNumber

ClaimRef(m) == ParseClaimRef(m, FromSubject(m) = "GESTION_CON_PERITO")

(* RegexFieldExtractor, as far as control depends on it: the town of a     *)
(* card, the notice of a comment (gestion_notice: what precedes the legal  *)
(* disclaimer).                                                            *)
RegexFields(m) == [town |-> "town" \in Body(m), notice |-> "notice" \in Body(m)]
-----------------------------------------------------------------------------
(* Faulty: a bare substring test.                                          *)
NameHasPrefix(inName, ref) ==
  /\ inName.year = ref.year
  /\ Len(ref.number) <= Len(inName.number)
  /\ \A i \in DOMAIN ref.number : inName.number[i] = ref.number[i]

(* The pattern `ref(?!\d)` on a card name that carries the reference       *)
(* inName: the digits of ref, and no digit behind them.                    *)
NameHas(inName, ref) ==
  /\ inName.year = ref.year
  /\ Len(ref.number) <= Len(inName.number)
  /\ \A i \in DOMAIN ref.number : inName.number[i] = ref.number[i]
  /\ Len(ref.number) + 1 \notin DOMAIN inName.number
=============================================================================
