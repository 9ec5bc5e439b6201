---------------------------- MODULE Attachments -----------------------------
(***************************************************************************)
(* The download of a claim's photographs: the card of the dashboard,       *)
(* frontend/src/AttachmentsDownload.tsx, the route                         *)
(* backend/app/attachments_routes.py and the calls of                      *)
(* pipeline/trello_client.py it makes, each with its bounded 429 retry.    *)
(*                                                                         *)
(* Time is in seconds since the request began.  An attempt of a call takes *)
(* one second or its timeout: a response that trickles is outside, as the  *)
(* route's own comment says.                                               *)
(***************************************************************************)
EXTENDS Integers, Sequences, FiniteSets

CONSTANTS
  Base,        \* base names of attachments, sequences: <<"a">> is a.jpg and
               \* <<"a", 2>> is "a (2).jpg", generated or uploaded as such
  MaxFiles,    \* bound: attachments of the card
  Lists,       \* lists on the board
  Deadline,    \* DOWNLOAD_DEADLINE_S
  CallTime,    \* REQUEST_TIMEOUT_S
  FileTime,    \* ATTACHMENT_TIMEOUT_S
  Backoff,     \* RETRY_BACKOFF_S
  Retries,     \* MAX_429_RETRIES
  Cutoff       \* the HTTP cut-off of the platform

ASSUME AttachmentConstants ==
  /\ \A b \in Base : Len(b) \in Nat /\ b = [n \in 1..Len(b) |-> b[n]]
  /\ MaxFiles \in Nat /\ Lists \in Nat /\ Deadline \in Nat
  /\ CallTime \in Nat \ {0} /\ FileTime \in Nat \ {0}
  /\ Backoff \in Nat /\ Retries \in Nat /\ Cutoff \in Nat

VARIABLES
  card,      \* the attachments of the claim's card, <<>> also for no card
  found,     \* whether the board has a card for the reference
  pc,        \* the call under way, or the status of the answer
  searched,  \* lists searched so far
  attempt,   \* 429s met by the call under way
  files,     \* the uploads to send
  zip,       \* the entries written
  elapsed,
  download   \* the status of the card on the dashboard

vars == <<card, found, pc, searched, attempt, files, zip, elapsed, download>>

Kind    == {"upload", "link", "pipeline_pdf"}
Listing == {"preflight", "lists", "cards", "closed", "attachments"}
Answer  == {"200", "404_card", "404_files", "500", "502", "503", "504"}
Running == Listing \union {"config", "next", "file"}

TypeOK ==
  /\ card \in Seq([base : Base, kind : Kind]) /\ files \in Seq([base : Base, kind : Kind])
  /\ found \in BOOLEAN
  /\ pc \in Running \union Answer \union {"idle"}
  /\ searched \in 0..Lists /\ attempt \in 0..Retries
  /\ Len(zip) <= Len(files)
  /\ elapsed \in Nat
  /\ download \in {"idle", "busy", "done", "error"}

Init ==
  /\ found \in BOOLEAN
  /\ \E n \in 0..MaxFiles : card \in [1..n -> [base : Base, kind : Kind]]
  /\ ~found => card = <<>>
  /\ pc = "idle" /\ searched = 0 /\ attempt = 0
  /\ files = <<>> /\ zip = <<>> /\ elapsed = 0
  /\ download = "idle"
-----------------------------------------------------------------------------
(* _entry_names: the n-th attachment with a base name is its n-th copy.    *)
EntryName(fs, i) ==
  LET count == Cardinality({j \in 1..i : fs[j].base = fs[i].base})
  IN  IF count = 1 THEN fs[i].base ELSE Append(fs[i].base, count)

(* Uploads only, minus the PDF of the pipeline, in the order of the card.  *)
IsPhoto(a) == a.kind = "upload"

Photos(c) ==
  LET upTo[n \in 0..Len(c)] ==
        IF n = 0 THEN <<>>
        ELSE IF IsPhoto(c[n]) THEN Append(upTo[n - 1], c[n]) ELSE upTo[n - 1]
  IN  upTo[Len(c)]
-----------------------------------------------------------------------------
(* The form: a submit while nothing is under way.  A reference that does   *)
(* not have the pattern sends nothing.                                     *)
Start ==
  /\ pc = "idle" /\ download # "busy"
  /\ \/ download' = "error" /\ UNCHANGED pc
     \/ download' = "busy" /\ pc' = "config"
  /\ UNCHANGED <<card, found, searched, attempt, files, zip, elapsed>>

(* read_trello_config is outside the try: its failure is a bare 500.       *)
ReadConfig ==
  /\ pc = "config"
  /\ pc' \in {"preflight", "500"}
  /\ UNCHANGED <<card, found, searched, attempt, files, zip, elapsed, download>>

(* _request sends a 429 again while attempts are left.                     *)
Again == attempt < Retries

(* An attempt that ends in 429 and is repeated after the back-off.         *)
TooMany(time) ==
  /\ Again
  /\ attempt' = attempt + 1
  /\ \E t \in {1, time} : elapsed' = elapsed + t + Backoff
  /\ UNCHANGED <<card, found, pc, searched, files, zip, download>>

(* The last attempt's outcome decides.                                     *)
Ends(time) == attempt' = 0 /\ \E t \in {1, time} : elapsed' = elapsed + t

(* httpx.HTTPError: a timeout, a broken connection, a status that is not   *)
(* a success, or a 429 without an attempt left.  A body that is not JSON   *)
(* is caught by no clause.                                                 *)
CallFails(time) ==
  /\ Ends(time)
  /\ \/ pc' = "502"
     \/ pc \in Listing \ {"preflight"} /\ pc' = "500"
  /\ UNCHANGED <<card, found, searched, files, zip, download>>

(* preflight: no access without a call when the settings are missing, or   *)
(* by a 401; a secret that cannot be read is a bare 500.                   *)
Preflight ==
  /\ pc = "preflight"
  /\ \/ Ends(CallTime) /\ pc' \in {"lists", "503"}
     \/ attempt = 0 /\ pc' \in {"503", "500"} /\ UNCHANGED <<attempt, elapsed>>
  /\ UNCHANGED <<card, found, searched, files, zip, download>>

(* find_card_by_claim_ref: the lists, the cards of each until the card is  *)
(* met, then the archive.                                                  *)
GetLists ==
  /\ pc = "lists"
  /\ Ends(CallTime)
  /\ pc' = IF Lists = 0 THEN "closed" ELSE "cards"
  /\ UNCHANGED <<card, found, searched, files, zip, download>>

SearchList ==
  /\ pc = "cards"
  /\ Ends(CallTime)
  /\ searched' = searched + 1
  /\ \/ found /\ pc' = "attachments"
     \/ pc' = IF searched' = Lists THEN "closed" ELSE "cards"
  /\ UNCHANGED <<card, found, files, zip, download>>

SearchArchive ==
  /\ pc = "closed"
  /\ Ends(CallTime)
  /\ pc' = IF found THEN "attachments" ELSE "404_card"
  /\ UNCHANGED <<card, found, searched, files, zip, download>>

ListAttachments ==
  /\ pc = "attachments"
  /\ Ends(CallTime)
  /\ files' = Photos(card)
  /\ pc' = IF files' = <<>> THEN "404_files" ELSE "next"
  /\ UNCHANGED <<card, found, searched, zip, download>>

(* Faulty: the deadline is looked at before the first file only.           *)
LateAtFirst == zip = <<>> /\ elapsed > Deadline

Late == elapsed > Deadline

(* The head of the loop over the files.                                    *)
NextFile ==
  /\ pc = "next"
  /\ pc' = IF Len(zip) = Len(files) THEN "200" ELSE IF Late THEN "504" ELSE "file"
  /\ UNCHANGED <<card, found, searched, attempt, files, zip, elapsed, download>>

(* Faulty: a file that cannot be had is left out.                          *)
FileFailsSkips(time) ==
  /\ Ends(time)
  /\ files' = [i \in 1..(Len(files) - 1) |-> IF i > Len(zip) THEN files[i + 1] ELSE files[i]]
  /\ pc' = "next"
  /\ UNCHANGED <<card, found, searched, zip, download>>

FileFails(time) == CallFails(time)

Download ==
  /\ pc = "file"
  /\ Ends(FileTime)
  /\ zip' = Append(zip, EntryName(files, Len(zip) + 1))
  /\ pc' = "next"
  /\ UNCHANGED <<card, found, searched, files, download>>

(* The answer reaches the browser before the platform cuts the request.    *)
Answered ==
  /\ pc \in Answer /\ download = "busy" /\ elapsed <= Cutoff
  /\ download' = IF pc = "200" THEN "done" ELSE "error"
  /\ UNCHANGED <<card, found, pc, searched, attempt, files, zip, elapsed>>

CutOff ==
  /\ download = "busy" /\ elapsed > Cutoff
  /\ download' = "error"
  /\ UNCHANGED <<card, found, pc, searched, attempt, files, zip, elapsed>>
-----------------------------------------------------------------------------
Next ==
  \/ Start \/ ReadConfig
  \/ pc \in Listing /\ (TooMany(CallTime) \/ CallFails(CallTime))
  \/ Preflight \/ GetLists \/ SearchList \/ SearchArchive \/ ListAttachments
  \/ NextFile
  \/ pc = "file" /\ (TooMany(FileTime) \/ FileFails(FileTime))
  \/ Download
  \/ Answered \/ CutOff

Spec == Init /\ [][Next]_vars

(* The handler runs to its end, and the browser hears of it.               *)
FairSpec == Spec /\ WF_vars(Next)
-----------------------------------------------------------------------------
PerCall(time) == (Retries + 1) * time + Retries * Backoff

(* A file has been asked for: it is under way, in the archive, or the one  *)
(* whose failure ended the request.                                        *)
FileStarted == pc = "file" \/ zip # <<>> \/ (pc = "502" /\ files # <<>>)

(* The route's comment: "If every read of one file times out (3 x 30 s +   *)
(* 429 back-off) the request ends ~ 184 s".  The deadline is looked at     *)
(* between files only, so a request that has begun a file is over at most  *)
(* one file after the deadline, however long its search took; one that has *)
(* begun none takes the calls of its search and no more.                   *)
EndsInTime ==
  /\ FileStarted => elapsed <= Deadline + PerCall(FileTime)
  /\ ~FileStarted => elapsed <= (Lists + 4) * PerCall(CallTime)

(* No photograph is called like the numbered copy of another one.          *)
NoneNumbered ==
  \A i, j \in DOMAIN files : \A n \in 1..Len(files) :
    files[i].base # Append(files[j].base, n)

(* The dashboard reports the download ready only for a whole archive: each *)
(* photograph of the card once, under a name of its own ("a zip with       *)
(* duplicate entries is malformed").  The names are distinct only if no    *)
(* upload has the name _entry_names makes for a copy: that name is not     *)
(* looked up among the ones already given.                                 *)
DoneMeansWhole ==
  download = "done" =>
    /\ Len(zip) = Cardinality({i \in DOMAIN card : card[i].kind = "upload"})
    /\ NoneNumbered => \A i, j \in DOMAIN zip : zip[i] = zip[j] => i = j
=============================================================================
