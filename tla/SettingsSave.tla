---------------------------- MODULE SettingsSave ----------------------------
(***************************************************************************)
(* Saving the Trello settings: the form of frontend/src/Settings.tsx, the  *)
(* endpoints of backend/app/settings_routes.py, the secrets of             *)
(* core/secret_store.py and the configuration row of core/state_store.py.  *)
(*                                                                         *)
(* A save is three writes in a fixed order, secrets before the table, any  *)
(* of which may fail, and a read-back.  Around it: the status GET of each  *)
(* epoch, a handler whose client is gone, the OAuth callback that stores   *)
(* the Gmail token in the same secret store, and the Trello preflight of a *)
(* wake, which reads the configuration and then the two secrets.           *)
(***************************************************************************)
EXTENDS Integers

CONSTANTS
  Forms,      \* bodies the operator types: [key, token, ids], 0 for blank
  MaxSaves,   \* bound: uses of the save button
  MaxFaults   \* bound: failed store calls, broken connections and bodies

Blank == 0
Value == 0..2

ASSUME SettingsConstants ==
  /\ Forms \subseteq [key : Value, token : Value, ids : Value]
  /\ MaxSaves \in Nat /\ MaxFaults \in Nat

Save     == 1..MaxSaves
Callback == MaxSaves + 1
Thread   == 1..Callback
NoThread == 0
Epoch    == 0..MaxSaves
Name     == {"key", "token", "gmail"}
Store    == [Name -> Value]

VARIABLES
  wholeFile, \* TRUE: FileSecretStore, one file; FALSE: KeyVaultSecretStore
  secrets,   \* the secret store, Blank for an absent name
  config,    \* the TrelloConfig row: ids, Blank when absent or blank
  lock,      \* FileSecretStore._lock
  copy,      \* for each thread in the middle of a set(), the secrets it has read
  pc,        \* where each handler is
  body,      \* the request of each save
  back,      \* what the handler of each save has read back
  promise,   \* the client's side of each save
  form,      \* the inputs of the page
  page,      \* status, and the badges and ids of page.trello
  busy, saveFailed, saves, epoch,
  get,       \* the settings request of each epoch
  wake,      \* the Trello preflight of one wake
  latest,    \* for each name, the value of the last set() that returned
  faults

vars == <<wholeFile, secrets, config, lock, copy, pc, body, back, promise, form, page,
          busy, saveFailed, saves, epoch, get, wake, latest, faults>>
stores == <<secrets, config, lock, copy, latest>>
client == <<promise, form, page, busy, saveFailed, saves, epoch, body>>

Body == [key : Value, token : Value, ids : Value]
View == [key : BOOLEAN, token : BOOLEAN, ids : Value]   \* TrelloState
NoView == [key |-> FALSE, token |-> FALSE, ids |-> Blank]
NoBody == [key |-> Blank, token |-> Blank, ids |-> Blank]

Over == {"idle", "ok", "error"}
Writing == {"key", "token", "gmail", "config"}
ReadBack == {"back_config", "back_key", "back_token"}

TypeOK ==
  /\ wholeFile \in BOOLEAN
  /\ secrets \in Store /\ latest \in Store /\ config \in Value
  /\ lock \in Thread \union {NoThread}
  /\ copy \in [Thread -> {{}} \union {{c} : c \in Store}]
  /\ pc \in [Thread -> Over \union Writing \union ReadBack]
  /\ body \in [Save -> Body] /\ back \in [Save -> View]
  /\ promise \in [Save -> {"none", "pending", "settled", "dropped"}]
  /\ form \in Body
  /\ page \in [status : {"loading", "ok", "error"}, trello : View]
  /\ busy \in BOOLEAN /\ saveFailed \in BOOLEAN
  /\ saves \in 0..MaxSaves /\ epoch \in 0..saves /\ faults \in 0..MaxFaults
  /\ get \in [Epoch -> [stage : {"none", "config", "key", "token", "answered", "broken", "done", "lost"},
                        trello : View]]
  /\ wake \in [stage : {"idle", "key", "token", "no_config", "no_credentials", "ready"},
               key : Value, token : Value]

NoGet == [stage |-> "none", trello |-> NoView]

(* The stores, of either kind, are empty or hold one earlier pair and its  *)
(* ids.                                                                    *)
Init ==
  /\ wholeFile \in BOOLEAN
  /\ \E v \in {0, 1} : secrets = [key |-> v, token |-> v, gmail |-> 0] /\ config = v
  /\ latest = secrets
  /\ lock = NoThread
  /\ copy = [t \in Thread |-> {}]
  /\ pc = [t \in Thread |-> IF t = Callback THEN "gmail" ELSE "idle"]
  /\ body = [s \in Save |-> NoBody] /\ back = [s \in Save |-> NoView]
  /\ promise = [s \in Save |-> "none"]
  /\ form = NoBody
  /\ page = [status |-> "loading", trello |-> NoView]
  /\ busy = FALSE /\ saveFailed = FALSE /\ saves = 0 /\ epoch = 0 /\ faults = 0
  /\ get = [e \in Epoch |-> IF e = 0 THEN [NoGet EXCEPT !.stage = "config"] ELSE NoGet]
  /\ wake = [stage |-> "idle", key |-> Blank, token |-> Blank]

Fault == faults < MaxFaults /\ faults' = faults + 1
Goto(t, label) == pc' = [pc EXCEPT ![t] = label]
-----------------------------------------------------------------------------
(* SecretStore.set.  FileSecretStore reads the file under its lock and     *)
(* replaces it; Key Vault replaces one secret, and hosts share no lock.    *)

(* Faulty: set() does not take the lock.                                   *)
TakeLockNever(t) == UNCHANGED lock

TakeLock(t) ==
  /\ wholeFile => lock = NoThread
  /\ lock' = IF wholeFile THEN t ELSE lock

Put(t, name, v) ==
  /\ secrets' = IF wholeFile THEN [(CHOOSE c \in copy[t] : TRUE) EXCEPT ![name] = v]
                             ELSE [secrets EXCEPT ![name] = v]
  /\ latest' = [latest EXCEPT ![name] = v]

(* A call may fail, before or after its effect; the lock is released.      *)
SetSecret(t, name, v, next) ==
  \/ /\ copy[t] = {}
     /\ TakeLock(t)
     /\ copy' = [copy EXCEPT ![t] = {secrets}]
     /\ UNCHANGED <<secrets, latest, pc, faults>>
  \/ /\ copy[t] # {}
     /\ lock' = IF lock = t THEN NoThread ELSE lock
     /\ copy' = [copy EXCEPT ![t] = {}]
     /\ \/ Goto(t, next) /\ Put(t, name, v) /\ UNCHANGED faults
        \/ Goto(t, "error") /\ (Put(t, name, v) \/ UNCHANGED <<secrets, latest>>) /\ Fault

(* The OAuth callback stores the refresh token.                            *)
StoreGmail ==
  /\ pc[Callback] = "gmail"
  /\ SetSecret(Callback, "gmail", 1, "ok")
  /\ UNCHANGED <<config, back, client, get, wake>>
-----------------------------------------------------------------------------
(* save_trello_settings.                                                   *)

(* Faulty: the identifiers are written before the secrets.                 *)
AfterConfigFirst(step) ==
  CASE step = "start" -> "config" [] step = "config" -> "key"
    [] step = "key" -> "token"    [] step = "token" -> "back_config"

(* The fixed order: secrets, then the table.                               *)
After(step) ==
  CASE step = "start" -> "key" [] step = "key" -> "token"
    [] step = "token" -> "config" [] step = "config" -> "back_config"

(* A blank secret keeps what is stored.                                    *)
SaveSecret(s, name) ==
  /\ pc[s] = name
  /\ \/ body[s][name] # Blank /\ SetSecret(s, name, body[s][name], After(name))
     \/ /\ body[s][name] = Blank
        /\ Goto(s, After(name))
        /\ UNCHANGED <<secrets, lock, copy, latest, faults>>
  /\ UNCHANGED <<config, back, client, get, wake>>

(* Faulty: a failed write of the row is swallowed.                         *)
SaveConfigSwallows(s) ==
  /\ pc[s] = "config"
  /\ Goto(s, After("config"))
  /\ \/ config' = body[s].ids /\ UNCHANGED faults
     \/ Fault /\ UNCHANGED config
  /\ UNCHANGED <<secrets, lock, copy, latest, back, client, get, wake>>

(* write_trello_config: the identifiers are authoritative, blank or not.   *)
SaveConfig(s) ==
  /\ pc[s] = "config"
  /\ \/ config' = body[s].ids /\ Goto(s, After("config")) /\ UNCHANGED faults
     \/ config' \in {config, body[s].ids} /\ Goto(s, "error") /\ Fault
  /\ UNCHANGED <<secrets, lock, copy, latest, back, client, get, wake>>

(* _trello_state: the configuration, then the presence of each secret.     *)
SaveReadBack(s) ==
  /\ pc[s] \in ReadBack
  /\ \/ /\ \/ pc[s] = "back_config" /\ back' = [back EXCEPT ![s].ids = config] /\ Goto(s, "back_key")
           \/ pc[s] = "back_key" /\ back' = [back EXCEPT ![s].key = secrets["key"] # Blank]
              /\ Goto(s, "back_token")
           \/ pc[s] = "back_token" /\ back' = [back EXCEPT ![s].token = secrets["token"] # Blank]
              /\ Goto(s, "ok")
        /\ UNCHANGED faults
     \/ Goto(s, "error") /\ Fault /\ UNCHANGED back
  /\ UNCHANGED <<stores, client, get, wake>>
-----------------------------------------------------------------------------
(* read_settings: GET /api/settings.                                       *)
ReadSettings(e) ==
  /\ \/ get[e].stage = "config" /\ get' = [get EXCEPT ![e].trello.ids = config, ![e].stage = "key"]
     \/ get[e].stage = "key"
        /\ get' = [get EXCEPT ![e].trello.key = secrets["key"] # Blank, ![e].stage = "token"]
     \/ get[e].stage = "token"
        /\ get' = [get EXCEPT ![e].trello.token = secrets["token"] # Blank, ![e].stage = "answered"]
  /\ UNCHANGED <<stores, pc, back, client, wake, faults>>

BreakGet(e) ==
  /\ get[e].stage \in {"config", "key", "token"}
  /\ Fault
  /\ get' = [get EXCEPT ![e].stage = "broken"]
  /\ UNCHANGED <<stores, pc, back, client, wake>>

(* "Prefill only on mount".                                                *)
Prefill(e) == form' = IF e = 0 THEN [form EXCEPT !.ids = get[e].trello.ids] ELSE form

(* The answer arrives; a later epoch has cancelled it.  A failed re-read   *)
(* keeps the page; a 200 that breaks the contract is an error of the page, *)
(* on mount or later, and the inputs keep what was typed behind it.        *)
ErrorPage == page' = [page EXCEPT !.status = "error"]
Ends(e, stage) == get' = [get EXCEPT ![e].stage = stage]

Deliver(e) ==
  /\ \/ /\ e = epoch /\ get[e].stage = "answered"
        /\ page' = [status |-> "ok", trello |-> get[e].trello]
        /\ Prefill(e) /\ Ends(e, "done") /\ UNCHANGED faults
     \/ /\ e = epoch /\ get[e].stage = "answered"
        /\ ErrorPage /\ Ends(e, "lost") /\ Fault /\ UNCHANGED form
     \/ /\ e = epoch /\ get[e].stage = "broken"
        /\ IF e = 0 THEN ErrorPage ELSE UNCHANGED page
        /\ Ends(e, "lost") /\ UNCHANGED <<form, faults>>
     \/ /\ e # epoch /\ get[e].stage \in {"answered", "broken"}
        /\ Ends(e, "lost") /\ UNCHANGED <<page, form, faults>>
  /\ UNCHANGED <<stores, pc, back, promise, busy, saveFailed, saves, epoch, body, wake>>
-----------------------------------------------------------------------------
(* The form.                                                               *)

(* The operator types a body, or leaves the form as it is, and saves.      *)
ClickSave(b) ==
  /\ page.status = "ok" /\ ~busy /\ saves < MaxSaves
  /\ form' = b
  /\ saves' = saves + 1
  /\ busy' = TRUE /\ saveFailed' = FALSE
  /\ body' = [body EXCEPT ![saves + 1] = b]
  /\ promise' = [promise EXCEPT ![saves + 1] = "pending"]
  /\ Goto(saves + 1, After("start"))
  /\ UNCHANGED <<stores, back, page, epoch, get, wake, faults>>

Saved(s) ==
  /\ promise[s] = "pending" /\ pc[s] = "ok"
  /\ page' = IF page.status = "ok" THEN [page EXCEPT !.trello = back[s]] ELSE page
  /\ form' = [key |-> Blank, token |-> Blank, ids |-> back[s].ids]
  /\ busy' = FALSE
  /\ promise' = [promise EXCEPT ![s] = "settled"]
  /\ UNCHANGED <<stores, pc, body, back, saveFailed, saves, epoch, get, wake, faults>>

(* Faulty: the re-read is left out.                                        *)
RereadNever == UNCHANGED <<epoch, get>>

(* setSettingsEpoch: cancel the last GET and send a new one.               *)
Reread ==
  /\ epoch' = epoch + 1
  /\ get' = [get EXCEPT ![epoch + 1].stage = "config"]

(* The catch clause: a 500, or no answer while the handler runs on.        *)
SaveFails(s) ==
  /\ promise[s] = "pending" /\ pc[s] = "error"
  /\ promise' = [promise EXCEPT ![s] = "settled"]
  /\ saveFailed' = TRUE /\ busy' = FALSE
  /\ Reread
  /\ UNCHANGED <<stores, pc, body, back, form, page, saves, wake, faults>>

DropSave(s) ==
  /\ promise[s] = "pending"
  /\ Fault
  /\ promise' = [promise EXCEPT ![s] = "dropped"]
  /\ saveFailed' = TRUE /\ busy' = FALSE
  /\ Reread
  /\ UNCHANGED <<stores, pc, body, back, form, page, saves, wake>>
-----------------------------------------------------------------------------
(* TrelloClient.preflight of a wake: the configuration first, then the     *)
(* key and the token.  Trello's verdict on the pair is not modelled.       *)
Preflight ==
  /\ \/ wake.stage = "idle"
        /\ wake' = [wake EXCEPT !.stage = IF config = Blank THEN "no_config" ELSE "key"]
     \/ wake.stage = "key"
        /\ wake' = [wake EXCEPT !.stage = "token", !.key = secrets["key"]]
     \/ wake.stage = "token"
        /\ wake' = [wake EXCEPT !.token = secrets["token"],
                      !.stage = IF wake.key = Blank \/ secrets["token"] = Blank
                                THEN "no_credentials" ELSE "ready"]
  /\ UNCHANGED <<stores, pc, back, client, get, faults>>
-----------------------------------------------------------------------------
HandlerStep(s) ==
  \/ \E name \in {"key", "token"} : SaveSecret(s, name)
  \/ SaveConfig(s) \/ SaveReadBack(s)
ClientStep(s) == Saved(s) \/ SaveFails(s)

Step ==
  \/ StoreGmail \/ Preflight
  \/ \E s \in Save : HandlerStep(s) \/ ClientStep(s) \/ DropSave(s)
  \/ \E e \in Epoch : ReadSettings(e) \/ BreakGet(e) \/ Deliver(e)
  \/ \E b \in Forms \union {form} : ClickSave(b)

(* The kind of the secret store is fixed when the application starts.      *)
Next == Step /\ UNCHANGED wholeFile

Spec == Init /\ [][Next]_vars
-----------------------------------------------------------------------------
Dropped(s) == promise[s] = "dropped"
Running(s) == pc[s] \notin Over

(* "two concurrent sets from the threadpool would silently drop one key":  *)
(* whatever saves and callbacks overlap, each secret has the value of the  *)
(* last set() of it that returned.                                         *)
NoSecretLost == secrets = latest

(* "a retry of the same save converges": once a save is confirmed, the     *)
(* stores hold what it submitted, and keep it although handlers of earlier *)
(* attempts whose client is gone are still writing, provided those         *)
(* attempts submitted the same and the operator has saved nothing else.    *)
RetryConverges ==
  \A s \in Save :
    (/\ promise[s] = "settled" /\ pc[s] = "ok" /\ s = saves
     /\ \A r \in Save : Dropped(r) => body[r] = body[s])
      => /\ \A name \in {"key", "token"} : body[s][name] # Blank => secrets[name] = body[s][name]
         /\ config = body[s].ids

(* The page after a failed save, whatever answers arrive: the form is what *)
(* the failed save submitted ("a re-read after a failed save must not      *)
(* clobber IDs the operator has typed - retry re-sends them"), and once    *)
(* the re-read has arrived the badges and ids are what the stores hold     *)
(* ("the badges must say so"), unless a handler without a client may still *)
(* write.                                                                  *)
PageAfterFailure ==
  /\ saveFailed => form = body[saves]
  /\ (/\ saveFailed /\ get[epoch].stage = "done"
      /\ \A s \in Save : ~Dropped(s) /\ ~Running(s))
       => page.trello = [key |-> secrets["key"] # Blank, token |-> secrets["token"] # Blank,
                         ids |-> config]

(* "Saves write in fixed order (secrets -> table)": a wake during the      *)
(* first set-up finds no configuration rather than a configuration without *)
(* its secrets, because it reads in the opposite order.                    *)
SetupIsOrdered ==
  wake.stage = "no_credentials" =>
    \E s \in Save : promise[s] # "none" /\ (body[s].key = Blank \/ body[s].token = Blank)
=============================================================================
