-------------------------- MODULE SettingsSaveProofs --------------------------
(***************************************************************************)
(* Safety of saving the settings, for any forms, any number of saves and   *)
(* of faults, and either kind of secret store; and, at the end, of the     *)
(* login whose callback shares that store (OperatorSession).               *)
(***************************************************************************)
EXTENDS SettingsSave, MCOperatorSession, TLAPS

(* The lock of the file store is held exactly during a set(), and what the *)
(* set() has read is what the file has.                                    *)
LockInv ==
  IF wholeFile THEN \A t \in Thread : IF lock = t THEN copy[t] = {secrets} ELSE copy[t] = {}
               ELSE lock = NoThread

(* The client's side of a save and its handler.  Only the latest save is   *)
(* waited for, and while it is, or once it has failed, the form is as      *)
(* submitted.                                                              *)
PromiseInv ==
  /\ \A s \in Save :
       /\ promise[s] = "none" <=> s > saves
       /\ promise[s] = "none" => pc[s] = "idle"
       /\ promise[s] = "settled" => pc[s] \in {"ok", "error"}
       /\ promise[s] = "pending" =>
            s = saves /\ epoch < saves /\ busy /\ ~saveFailed /\ form = body[s]
  /\ saveFailed => epoch > 0 /\ form = body[saves]
  /\ epoch = 0 /\ (saves > 0 \/ page.status = "ok") => get[0].stage = "done"

(* The steps a handler has behind it have left their mark, if what it      *)
(* competes with submitted the same.                                       *)
Wrote(s) ==
  /\ pc[s] \in {"token", "config", "ok"} \union ReadBack /\ body[s].key # Blank
       => secrets["key"] = body[s].key
  /\ pc[s] \in {"config", "ok"} \union ReadBack /\ body[s].token # Blank
       => secrets["token"] = body[s].token
  /\ pc[s] \in {"ok"} \union ReadBack => config = body[s].ids

ConvergeInv ==
  \A s \in Save : s = saves /\ (\A r \in Save : Dropped(r) => body[r] = body[s]) => Wrote(s)

(* What the stores hold, as the page shows it, and how much of it a GET    *)
(* has read since a failed save.                                           *)
Badges == [key |-> secrets["key"] # Blank, token |-> secrets["token"] # Blank, ids |-> config]

ReadInv ==
  saveFailed /\ (\A s \in Save : ~Dropped(s)) =>
    LET g == get[epoch]
    IN  /\ g.stage \in {"key", "token", "answered"} => g.trello.ids = Badges.ids
        /\ g.stage \in {"token", "answered"} => g.trello.key = Badges.key
        /\ g.stage = "answered" => g.trello.token = Badges.token
        /\ g.stage = "done" => page.trello = Badges

(* With complete forms a configuration comes after its secrets, for every  *)
(* reader that looks for it first.                                         *)
Complete == \A s \in Save : promise[s] # "none" => body[s].key # Blank /\ body[s].token # Blank
BothSet  == secrets["key"] # Blank /\ secrets["token"] # Blank

SetupInv ==
  Complete =>
    /\ config # Blank => BothSet
    /\ \A s \in Save : /\ pc[s] = "token" => secrets["key"] # Blank
                       /\ pc[s] = "config" => BothSet
    /\ wake.stage \in {"key", "token"} => BothSet
    /\ wake.stage = "token" => wake.key # Blank
    /\ wake.stage # "no_credentials"

(* The inductive strengthening of the four properties.                     *)
SaveInv ==
  TypeOK /\ LockInv /\ NoSecretLost /\ PromiseInv /\ ConvergeInv /\ ReadInv /\ SetupInv

(* A GET that has been sent and has read nothing.                          *)
LEMMA SentGet ==
  /\ [NoGet EXCEPT !.stage = "config"] = [stage |-> "config", trello |-> NoView]
  /\ NoView \in View /\ NoBody \in Body
<1>1. [NoGet EXCEPT !.stage = "config"] = [stage |-> "config", trello |-> NoView]
  BY DEF NoGet
<1>2. NoView \in View
  <2>1. 0 \in Value BY DEF Value
  <2> QED BY <2>1, Zenon DEF NoView, View, Blank
<1>3. NoBody \in Body
  BY DEF NoBody, Body, Blank, Value
<1> QED BY <1>1, <1>2, <1>3

LEMMA SaveInvInit == Init => SaveInv
<1> SUFFICES ASSUME Init PROVE SaveInv OBVIOUS
<1>1. TypeOK
  <2>1. /\ wholeFile \in BOOLEAN /\ busy \in BOOLEAN /\ saveFailed \in BOOLEAN
        /\ saves \in 0..MaxSaves /\ epoch \in 0..saves /\ faults \in 0..MaxFaults
        /\ promise \in [Save -> {"none", "pending", "settled", "dropped"}]
        /\ lock \in Thread \union {NoThread}
    <3>1. wholeFile \in BOOLEAN /\ busy \in BOOLEAN /\ saveFailed \in BOOLEAN BY Zenon DEF Init
    <3>2. saves = 0 /\ epoch = 0 /\ faults = 0 /\ lock = NoThread BY DEF Init
    <3>3. promise \in [Save -> {"none", "pending", "settled", "dropped"}] BY DEF Init
    <3> QED BY <3>1, <3>2, <3>3, SettingsConstants
  <2>7. copy \in [Thread -> {{}} \union {{c} : c \in Store}] BY DEF Init
  <2>2. secrets \in Store /\ latest \in Store /\ config \in Value
    <3>1. PICK v \in {0, 1} : secrets = [key |-> v, token |-> v, gmail |-> 0] /\ config = v
      BY DEF Init
    <3>2. v \in Value /\ 0 \in Value BY DEF Value
    <3>3. secrets \in Store BY <3>1, <3>2 DEF Store, Name
    <3>4. latest = secrets BY DEF Init
    <3> QED BY <3>1, <3>2, <3>3, <3>4
  <2>3. pc \in [Thread -> Over \union Writing \union ReadBack]
    BY DEF Init, Over, Writing, ReadBack
  <2>4. get \in [Epoch -> [stage : {"none", "config", "key", "token", "answered", "broken", "done", "lost"},
                           trello : View]]
    BY SentGet DEF Init, NoGet
  <2>5. /\ body \in [Save -> Body] /\ back \in [Save -> View] /\ form \in Body
        /\ page \in [status : {"loading", "ok", "error"}, trello : View]
    BY SentGet DEF Init
  <2>6. wake \in [stage : {"idle", "key", "token", "no_config", "no_credentials", "ready"},
                  key : Value, token : Value]
    BY DEF Init, Blank, Value
  <2> QED BY <2>1, <2>2, <2>3, <2>4, <2>5, <2>6, <2>7 DEF TypeOK
<1> USE SettingsConstants DEF Init, Blank, Value, Save, Thread, Callback, NoThread, Epoch, Name, Store,
                              Body, View, NoView, NoBody, NoGet
<1>2. LockInv /\ NoSecretLost BY DEF LockInv, NoSecretLost
<1>3. PromiseInv BY DEF PromiseInv
<1>4. ConvergeInv /\ ReadInv BY DEF ConvergeInv, ReadInv, Wrote, ReadBack
<1>5. SetupInv BY DEF SetupInv, BothSet
<1> QED BY <1>1, <1>2, <1>3, <1>4, <1>5 DEF SaveInv
-----------------------------------------------------------------------------
(* One step of a set(): it begins, or it ends with the value stored or     *)
(* not.  Under the lock the file is the one that was read.                 *)
LEMMA SetSecretEffect ==
  ASSUME TypeOK, LockInv, NoSecretLost, UNCHANGED wholeFile,
         NEW t \in Thread, NEW name \in Name, NEW v \in Value, NEW next,
         SetSecret(t, name, v, next)
  PROVE  /\ LockInv' /\ NoSecretLost'
         /\ copy' \in [Thread -> {{}} \union {{c} : c \in Store}]
         /\ lock' \in Thread \union {NoThread}
         /\ secrets' \in Store /\ faults' \in 0..MaxFaults
         /\ \/ UNCHANGED <<pc, secrets>>
            \/ Goto(t, next) /\ secrets' = [secrets EXCEPT ![name] = v]
            \/ Goto(t, "error") /\ secrets' \in {secrets, [secrets EXCEPT ![name] = v]}
<1> USE SettingsConstants DEF TypeOK, LockInv, NoSecretLost
<1>0. NoThread \notin Thread BY DEF NoThread, Thread, Callback
<1>1. CASE copy[t] = {}
  <2>1. /\ TakeLock(t) /\ copy' = [copy EXCEPT ![t] = {secrets}]
        /\ UNCHANGED <<secrets, latest, pc, faults>>
    BY <1>1 DEF SetSecret
  <2>2. LockInv' BY <1>0, <1>1, <2>1 DEF TakeLock
  <2>3. lock' \in Thread \union {NoThread} BY <2>1 DEF TakeLock
  <2>4. copy' \in [Thread -> {{}} \union {{c} : c \in Store}] BY <2>1
  <2> QED BY <2>1, <2>2, <2>3, <2>4
<1>2. CASE copy[t] # {}
  <2>1. /\ lock' = IF lock = t THEN NoThread ELSE lock
        /\ copy' = [copy EXCEPT ![t] = {}]
        /\ \/ Goto(t, next) /\ Put(t, name, v) /\ UNCHANGED faults
           \/ Goto(t, "error") /\ (Put(t, name, v) \/ UNCHANGED <<secrets, latest>>) /\ Fault
    BY <1>2 DEF SetSecret
  <2>2. wholeFile => lock = t /\ copy[t] = {secrets}
    BY <1>2
  <2>3. wholeFile => (CHOOSE c \in copy[t] : TRUE) = secrets
    BY <2>2
  <2>4. Put(t, name, v) => secrets' = [secrets EXCEPT ![name] = v] /\ latest' = secrets'
    BY <2>3 DEF Put
  <2>5. LockInv' BY <1>0, <2>1, <2>2
  <2>6. NoSecretLost' BY <2>1, <2>4
  <2>7. [secrets EXCEPT ![name] = v] \in Store BY DEF Store
  <2>8. copy' \in [Thread -> {{}} \union {{c} : c \in Store}] BY <2>1
  <2>9. lock' \in Thread \union {NoThread} /\ faults' \in 0..MaxFaults
    BY <2>1 DEF Fault
  <2>10. secrets' \in Store BY <2>1, <2>4, <2>7
  <2> QED BY <2>1, <2>4, <2>5, <2>6, <2>8, <2>9, <2>10
<1> QED BY <1>1, <1>2

(* The saves and the callback are different threads.                       *)
LEMMA ThreadsApart ==
  /\ Callback \in Thread /\ Callback \notin Save /\ Save \subseteq Thread
  /\ \A s \in Save : s \in Nat /\ s # Callback /\ s - 1 \in Epoch /\ s \in Epoch
  /\ 0 \in Epoch
BY SettingsConstants DEF Callback, Thread, Save, Epoch

(* SaveSecret: the two secrets of a save, blank or not.                    *)
LEMMA SaveSecretEffect ==
  ASSUME TypeOK, LockInv, NoSecretLost, UNCHANGED wholeFile,
         NEW s \in Save, NEW name \in {"key", "token"}, SaveSecret(s, name)
  PROVE  /\ LockInv' /\ NoSecretLost'
         /\ copy' \in [Thread -> {{}} \union {{c} : c \in Store}]
         /\ lock' \in Thread \union {NoThread}
         /\ secrets' \in Store /\ latest' \in Store /\ faults' \in 0..MaxFaults
         /\ pc[s] = name
         /\ UNCHANGED <<config, back, client, get, wake>>
         /\ \/ UNCHANGED <<pc, secrets>>
            \/ /\ Goto(s, After(name))
               /\ secrets' = IF body[s][name] = Blank THEN secrets
                             ELSE [secrets EXCEPT ![name] = body[s][name]]
            \/ /\ Goto(s, "error") /\ body[s][name] # Blank
               /\ secrets' \in {secrets, [secrets EXCEPT ![name] = body[s][name]]}
<1>1. s \in Thread /\ name \in Name /\ body[s][name] \in Value
  BY ThreadsApart DEF TypeOK, Name, Body
<1>2. CASE body[s][name] # Blank
  <2>1. SetSecret(s, name, body[s][name], After(name)) BY <1>2 DEF SaveSecret
  <2> HIDE DEF SetSecret
  <2> QED BY <1>1, <1>2, <2>1, SetSecretEffect DEF SaveSecret, NoSecretLost
<1>3. CASE body[s][name] = Blank
  <2>1. Goto(s, After(name)) /\ UNCHANGED <<secrets, lock, copy, latest, faults>>
    BY <1>3 DEF SaveSecret
  <2> QED BY <1>3, <2>1 DEF SaveSecret, TypeOK, LockInv, NoSecretLost
<1> QED BY <1>2, <1>3

(* The same for the callback.                                              *)
LEMMA StoreGmailEffect ==
  ASSUME TypeOK, LockInv, NoSecretLost, UNCHANGED wholeFile, StoreGmail
  PROVE  /\ LockInv' /\ NoSecretLost'
         /\ copy' \in [Thread -> {{}} \union {{c} : c \in Store}]
         /\ lock' \in Thread \union {NoThread}
         /\ secrets' \in Store /\ latest' \in Store /\ faults' \in 0..MaxFaults
         /\ UNCHANGED <<config, back, client, get, wake>>
         /\ \A s \in Save : pc'[s] = pc[s]
         /\ pc' \in [Thread -> Over \union Writing \union ReadBack]
         /\ secrets'["key"] = secrets["key"] /\ secrets'["token"] = secrets["token"]
<1>1. "gmail" \in Name /\ 1 \in Value BY DEF Name, Value
<1>2. SetSecret(Callback, "gmail", 1, "ok") BY DEF StoreGmail
<1>3. /\ LockInv' /\ NoSecretLost'
      /\ copy' \in [Thread -> {{}} \union {{c} : c \in Store}]
      /\ lock' \in Thread \union {NoThread}
      /\ secrets' \in Store /\ faults' \in 0..MaxFaults
      /\ \/ UNCHANGED <<pc, secrets>>
         \/ Goto(Callback, "ok") /\ secrets' = [secrets EXCEPT !["gmail"] = 1]
         \/ Goto(Callback, "error") /\ secrets' \in {secrets, [secrets EXCEPT !["gmail"] = 1]}
  BY <1>1, <1>2, ThreadsApart, SetSecretEffect
<1>4. /\ secrets'["key"] = secrets["key"] /\ secrets'["token"] = secrets["token"]
  BY <1>3 DEF TypeOK, Store, Name
<1>5. /\ \A s \in Save : pc'[s] = pc[s]
      /\ pc' \in [Thread -> Over \union Writing \union ReadBack]
  BY <1>3, ThreadsApart DEF TypeOK, Goto, Over
<1> QED BY <1>3, <1>4, <1>5 DEF StoreGmail, NoSecretLost

(* Faults stay within their bound.                                         *)
LEMMA FaultBounded == TypeOK /\ (Fault \/ UNCHANGED faults) => faults' \in 0..MaxFaults
BY SettingsConstants DEF TypeOK, Fault

LEMMA AfterValues ==
  /\ After("start") = "key" /\ After("key") = "token"
  /\ After("token") = "config" /\ After("config") = "back_config"
BY DEF After
-----------------------------------------------------------------------------
(* Every action keeps the types of the variables; the promise of the save  *)
(* under way leaves room for one more epoch.                               *)
LEMMA TypesStep == SaveInv /\ [Next]_vars => TypeOK' /\ LockInv' /\ NoSecretLost'
<1> SUFFICES ASSUME SaveInv, [Next]_vars PROVE TypeOK' /\ LockInv' /\ NoSecretLost' OBVIOUS
<1> DEFINE Good == TypeOK' /\ LockInv' /\ NoSecretLost'
<1>0. TypeOK /\ LockInv /\ NoSecretLost /\ PromiseInv BY DEF SaveInv
<1>a. CASE UNCHANGED vars
  BY <1>0, <1>a DEF vars, TypeOK, LockInv, NoSecretLost
<1>b. CASE Next
  <2>0. UNCHANGED wholeFile BY <1>b DEF Next
  <2> HIDE DEF Good
  <2>1. CASE StoreGmail
    BY <1>0, <2>0, <2>1, StoreGmailEffect DEF client, TypeOK, Good
  <2>2. ASSUME NEW s \in Save, NEW name \in {"key", "token"}, SaveSecret(s, name) PROVE Good
    <3>1. /\ LockInv' /\ NoSecretLost'
          /\ copy' \in [Thread -> {{}} \union {{c} : c \in Store}]
          /\ lock' \in Thread \union {NoThread}
          /\ secrets' \in Store /\ latest' \in Store /\ faults' \in 0..MaxFaults
          /\ UNCHANGED <<config, back, client, get, wake>>
          /\ UNCHANGED pc \/ Goto(s, After(name)) \/ Goto(s, "error")
      BY <1>0, <2>0, <2>2, SaveSecretEffect
    <3>2. pc' \in [Thread -> Over \union Writing \union ReadBack]
      <4>1. pc \in [Thread -> Over \union Writing \union ReadBack] /\ s \in Thread
        BY <1>0, ThreadsApart DEF TypeOK
      <4>2. {After(name), "error"} \subseteq Over \union Writing
        BY AfterValues DEF Over, Writing
      <4> QED BY <3>1, <4>1, <4>2 DEF Goto
    <3> QED BY <1>0, <2>0, <3>1, <3>2 DEF client, TypeOK, Good
  <2>3. ASSUME NEW s \in Save, SaveConfig(s) PROVE Good
    <3>1. body[s].ids \in Value /\ s \in Thread BY <1>0, ThreadsApart DEF TypeOK, Body
    <3>2. /\ config' \in Value /\ faults' \in 0..MaxFaults
          /\ Goto(s, "back_config") \/ Goto(s, "error")
          /\ UNCHANGED <<secrets, lock, copy, latest, back, client, get, wake>>
      BY <1>0, <2>3, <3>1, AfterValues, SettingsConstants DEF SaveConfig, Fault, TypeOK
    <3>3. pc' \in [Thread -> Over \union Writing \union ReadBack]
      BY <1>0, <3>1, <3>2 DEF Goto, TypeOK, Over, ReadBack
    <3> QED BY <1>0, <2>0, <3>2, <3>3 DEF client, TypeOK, LockInv, NoSecretLost, Good
  <2>4. ASSUME NEW s \in Save, SaveReadBack(s) PROVE Good
    <3>1. back' \in [Save -> View]
      <4>1. /\ [back[s] EXCEPT !.ids = config] \in View
            /\ [back[s] EXCEPT !.key = secrets["key"] # Blank] \in View
            /\ [back[s] EXCEPT !.token = secrets["token"] # Blank] \in View
        BY <1>0 DEF TypeOK, View
      <4>2. \/ back' = [back EXCEPT ![s] = [back[s] EXCEPT !.ids = config]]
            \/ back' = [back EXCEPT ![s] = [back[s] EXCEPT !.key = secrets["key"] # Blank]]
            \/ back' = [back EXCEPT ![s] = [back[s] EXCEPT !.token = secrets["token"] # Blank]]
            \/ back' = back
        BY <2>4 DEF SaveReadBack
      <4> QED BY <1>0, <4>1, <4>2 DEF TypeOK
    <3>2. faults' \in 0..MaxFaults
      BY <1>0, <2>4, FaultBounded DEF SaveReadBack
    <3>3. pc' \in [Thread -> Over \union Writing \union ReadBack]
      BY <1>0, <2>4, ThreadsApart DEF SaveReadBack, Goto, TypeOK, Over, ReadBack
    <3> QED BY <1>0, <2>0, <2>4, <3>1, <3>2, <3>3 DEF SaveReadBack, stores, client, TypeOK, LockInv, NoSecretLost, Good
  <2>5. ASSUME NEW s \in Save, Saved(s) PROVE Good
    <3>1. page' \in [status : {"loading", "ok", "error"}, trello : View] /\ form' \in Body
      <4>1. back[s] \in View /\ Blank \in Value BY <1>0 DEF TypeOK, Blank, Value
      <4>2. [key |-> Blank, token |-> Blank, ids |-> back[s].ids] \in Body
        BY <4>1 DEF View, Body
      <4> QED BY <1>0, <2>5, <4>1, <4>2 DEF Saved, TypeOK
    <3> QED BY <1>0, <2>0, <2>5, <3>1 DEF Saved, stores, TypeOK, LockInv, NoSecretLost, Good
  <2>6. ASSUME NEW s \in Save, SaveFails(s) \/ DropSave(s) PROVE Good
    <3>1. epoch + 1 \in Epoch /\ epoch + 1 \in 0..saves
      BY <1>0, <2>6, SettingsConstants DEF SaveFails, DropSave, PromiseInv, TypeOK, Epoch
    <3>2. get' \in [Epoch -> [stage : {"none", "config", "key", "token", "answered", "broken", "done", "lost"},
                             trello : View]]
      BY <1>0, <2>6, <3>1 DEF SaveFails, DropSave, Reread, TypeOK
    <3>3. faults' \in 0..MaxFaults
      BY <1>0, <2>6, FaultBounded DEF SaveFails, DropSave
    <3>4. promise' \in [Save -> {"none", "pending", "settled", "dropped"}]
      BY <1>0, <2>6 DEF SaveFails, DropSave, TypeOK
    <3>5. /\ epoch' = epoch + 1 /\ busy' = FALSE /\ saveFailed' = TRUE
          /\ UNCHANGED <<stores, pc, body, back, form, page, saves, wake>>
      BY <2>6 DEF SaveFails, DropSave, Reread
    <3> QED BY <1>0, <2>0, <3>1, <3>2, <3>3, <3>4, <3>5
            DEF stores, TypeOK, LockInv, NoSecretLost, Good
  <2>7. ASSUME NEW e \in Epoch, ReadSettings(e) \/ BreakGet(e) PROVE Good
    <3>1. get' \in [Epoch -> [stage : {"none", "config", "key", "token", "answered", "broken", "done", "lost"},
                             trello : View]]
      <4>1. get[e].trello \in View BY <1>0 DEF TypeOK
      <4>2. /\ [get[e].trello EXCEPT !.ids = config] \in View
            /\ [get[e].trello EXCEPT !.key = secrets["key"] # Blank] \in View
            /\ [get[e].trello EXCEPT !.token = secrets["token"] # Blank] \in View
        BY <1>0, <4>1 DEF TypeOK, View
      <4>3. \E next \in {"key", "token", "answered", "broken"}, t \in View :
              get' = [get EXCEPT ![e] = [stage |-> next, trello |-> t]]
        <5>1. get[e] = [stage |-> get[e].stage, trello |-> get[e].trello] BY <1>0 DEF TypeOK
        <5>2. CASE get[e].stage = "config" /\ ReadSettings(e)
          <6>1. get' = [get EXCEPT ![e] = [stage |-> "key", trello |-> [get[e].trello EXCEPT !.ids = config]]]
            BY <5>1, <5>2 DEF ReadSettings
          <6> QED BY <4>2, <6>1
        <5>3. CASE get[e].stage = "key" /\ ReadSettings(e)
          <6>1. get' = [get EXCEPT ![e] = [stage |-> "token",
                          trello |-> [get[e].trello EXCEPT !.key = secrets["key"] # Blank]]]
            BY <5>1, <5>3 DEF ReadSettings
          <6> QED BY <4>2, <6>1
        <5>4. CASE get[e].stage = "token" /\ ReadSettings(e)
          <6>1. get' = [get EXCEPT ![e] = [stage |-> "answered",
                          trello |-> [get[e].trello EXCEPT !.token = secrets["token"] # Blank]]]
            BY <5>1, <5>4 DEF ReadSettings
          <6> QED BY <4>2, <6>1
        <5>5. CASE BreakGet(e)
          <6>1. get' = [get EXCEPT ![e] = [stage |-> "broken", trello |-> get[e].trello]]
            <7>1. [get[e] EXCEPT !.stage = "broken"] = [stage |-> "broken", trello |-> get[e].trello]
              BY <1>0 DEF TypeOK
            <7> QED BY <5>5, <7>1 DEF BreakGet
          <6> QED BY <4>1, <6>1
        <5> QED BY <2>7, <5>2, <5>3, <5>4, <5>5 DEF ReadSettings
      <4> QED BY <1>0, <4>3 DEF TypeOK
    <3>2. faults' \in 0..MaxFaults
      BY <1>0, <2>7, FaultBounded DEF ReadSettings, BreakGet
    <3>3. UNCHANGED <<stores, pc, back, client, wake>>
      BY <2>7 DEF ReadSettings, BreakGet
    <3> QED BY <1>0, <2>0, <3>1, <3>2, <3>3
            DEF stores, client, TypeOK, LockInv, NoSecretLost, Good
  <2>8. ASSUME NEW e \in Epoch, Deliver(e) PROVE Good
    <3>1. get[e].trello \in View BY <1>0 DEF TypeOK
    <3>2. page' \in [status : {"loading", "ok", "error"}, trello : View]
      BY <1>0, <2>8, <3>1 DEF Deliver, ErrorPage, TypeOK
    <3>3. form' \in Body
      <4>1. form \in Body /\ (UNCHANGED form \/ Prefill(e))
        BY <1>0, <2>8 DEF Deliver, TypeOK
      <4>2. CASE Prefill(e)
        <5>1. get[e].trello.ids \in Value
          BY <3>1 DEF View
        <5>2. \A b \in Body, v \in Value : [b EXCEPT !.ids = v] \in Body
          BY DEF Body
        <5> QED BY <4>1, <4>2, <5>1, <5>2 DEF Prefill
      <4> QED BY <4>1, <4>2
    <3>4. get' \in [Epoch -> [stage : {"none", "config", "key", "token", "answered", "broken", "done", "lost"},
                             trello : View]]
      BY <1>0, <2>8 DEF Deliver, Ends, TypeOK
    <3>5. faults' \in 0..MaxFaults
      BY <1>0, <2>8, FaultBounded DEF Deliver
    <3> QED BY <1>0, <2>0, <2>8, <3>2, <3>3, <3>4, <3>5
            DEF Deliver, stores, TypeOK, LockInv, NoSecretLost, Good
  <2>9. ASSUME NEW b \in Forms \union {form}, ClickSave(b) PROVE Good
    <3>1. b \in Body BY <1>0, SettingsConstants DEF TypeOK, Body
    <3>2. saves + 1 \in Save /\ saves + 1 \in Thread /\ saves + 1 \in 0..MaxSaves
      BY <1>0, <2>9, SettingsConstants, ThreadsApart DEF ClickSave, TypeOK, Save
    <3>3. epoch \in 0..saves' BY <1>0, <2>9, SettingsConstants DEF ClickSave, TypeOK
    <3>4. pc' \in [Thread -> Over \union Writing \union ReadBack]
      BY <1>0, <2>9, <3>2, AfterValues DEF ClickSave, Goto, TypeOK, Writing
    <3> QED BY <1>0, <2>0, <2>9, <3>1, <3>2, <3>3, <3>4
            DEF ClickSave, stores, TypeOK, LockInv, NoSecretLost, Good
  <2>10. CASE Preflight
    <3>1. wake' \in [stage : {"idle", "key", "token", "no_config", "no_credentials", "ready"},
                    key : Value, token : Value]
      BY <1>0, <2>10 DEF Preflight, TypeOK, Store, Name
    <3> QED BY <1>0, <2>0, <2>10, <3>1 DEF Preflight, stores, client, TypeOK, LockInv, NoSecretLost, Good
  <2> QED
    BY <1>b, <2>1, <2>2, <2>3, <2>4, <2>5, <2>6, <2>7, <2>8, <2>9, <2>10
    DEF Next, Step, HandlerStep, ClientStep, Good
<1> QED BY <1>a, <1>b
-----------------------------------------------------------------------------
(* A handler that acts belongs to a save that was begun.                   *)
LEMMA ActsMeansBegun ==
  ASSUME TypeOK, PromiseInv, NEW s \in Save, pc[s] # "idle"
  PROVE  /\ promise[s] \in {"pending", "settled", "dropped"}
         /\ promise[s] = "settled" => pc[s] \in {"ok", "error"}
         /\ promise[s] = "pending" => s = saves
BY DEF TypeOK, PromiseInv

(* The client's side: one save is waited for at a time.                    *)
LEMMA PromiseStep == SaveInv /\ [Next]_vars => PromiseInv'
<1> SUFFICES ASSUME SaveInv, [Next]_vars PROVE PromiseInv' OBVIOUS
<1>0. TypeOK /\ LockInv /\ NoSecretLost /\ PromiseInv BY DEF SaveInv
<1>1. CASE UNCHANGED vars \/ Preflight \/ StoreGmail
  <2>1. UNCHANGED <<client, get>> /\ \A s \in Save : pc'[s] = pc[s]
    <3>1. CASE UNCHANGED vars BY <3>1 DEF vars, client
    <3>2. CASE Preflight BY <3>2 DEF Preflight
    <3>3. CASE StoreGmail
      <4>1. CASE UNCHANGED wholeFile BY <1>0, <3>3, <4>1, StoreGmailEffect
      <4>2. CASE UNCHANGED vars BY <4>2 DEF vars, client
      <4> QED BY <4>1, <4>2 DEF Next
    <3> QED BY <1>1, <3>1, <3>2, <3>3
  <2> QED BY <1>0, <2>1 DEF PromiseInv, client
<1>2. ASSUME NEW s \in Save, UNCHANGED wholeFile, HandlerStep(s) PROVE PromiseInv'
  <2>1. UNCHANGED <<client, get>> /\ pc[s] \notin {"idle", "ok", "error"}
        /\ \E l : pc' = [pc EXCEPT ![s] = l] \/ UNCHANGED pc
    <3>1. ASSUME NEW name \in {"key", "token"}, SaveSecret(s, name)
          PROVE  UNCHANGED <<client, get>> /\ pc[s] = name
                 /\ \E l : pc' = [pc EXCEPT ![s] = l] \/ UNCHANGED pc
      BY <1>0, <1>2, <3>1, SaveSecretEffect DEF Goto
    <3> QED BY <1>2, <3>1 DEF HandlerStep, SaveConfig, SaveReadBack, ReadBack, Goto
  <2>2. \A r \in Save : pc'[r] = pc[r] \/ r = s
    BY <1>0, <2>1, ThreadsApart DEF TypeOK
  <2>3. promise[s] \notin {"none", "settled"}
    BY <1>0, <2>1 DEF PromiseInv
  <2> QED BY <1>0, <2>1, <2>2, <2>3 DEF PromiseInv, client
<1>3. ASSUME NEW s \in Save, ClientStep(s) \/ DropSave(s) PROVE PromiseInv'
  <2>1. CASE Saved(s)
    BY <1>0, <2>1 DEF PromiseInv, TypeOK, Saved
  <2>2. CASE SaveFails(s) \/ DropSave(s)
    <3>1. /\ s = saves /\ epoch < saves /\ form = body[s] /\ epoch \in Nat /\ saves \in Nat
      BY <1>0, <2>2, SettingsConstants DEF PromiseInv, TypeOK, SaveFails, DropSave
    <3>2. /\ promise[s] = "pending" /\ epoch' = epoch + 1 /\ saveFailed' /\ ~busy'
          /\ \E l \in {"settled", "dropped"} : promise' = [promise EXCEPT ![s] = l]
          /\ promise'[s] = "settled" => pc[s] = "error"
          /\ UNCHANGED <<pc, body, form, page, saves>>
      BY <1>0, <2>2 DEF SaveFails, DropSave, Reread, TypeOK
    <3>3. \A r \in Save : promise'[r] # "pending" /\ (promise'[r] = "none" <=> promise[r] = "none")
      BY <1>0, <3>1, <3>2 DEF PromiseInv, TypeOK
    <3>4. \A r \in Save : promise'[r] = "settled" => pc'[r] \in {"ok", "error"}
      BY <1>0, <3>2 DEF PromiseInv, TypeOK
    <3> QED BY <1>0, <3>1, <3>2, <3>3, <3>4 DEF PromiseInv
  <2> QED BY <1>3, <2>1, <2>2 DEF ClientStep
<1>4. ASSUME NEW e \in Epoch, ReadSettings(e) \/ BreakGet(e) PROVE PromiseInv'
  <2>1. UNCHANGED <<client, pc>> BY <1>4 DEF ReadSettings, BreakGet
  <2>2. get[0].stage = "done" => get'[0].stage = "done"
    BY <1>0, <1>4, ThreadsApart DEF ReadSettings, BreakGet, TypeOK
  <2> QED BY <1>0, <2>1, <2>2 DEF PromiseInv, client
<1>5. ASSUME NEW e \in Epoch, Deliver(e) PROVE PromiseInv'
  <2>1. /\ UNCHANGED <<pc, promise, busy, saveFailed, saves, epoch, body>>
        /\ get[e].stage \in {"answered", "broken"}
    BY <1>5 DEF Deliver
  <2>2. e # 0 => get'[0] = get[0]
    BY <1>0, <1>5, ThreadsApart DEF Deliver, Ends, TypeOK
  <2>3. CASE e = epoch /\ e = 0
    <3>1. saves = 0 /\ page.status # "ok"
      BY <1>0, <2>1, <2>3, SettingsConstants DEF PromiseInv, TypeOK
    <3>2. page'.status = "ok" => get'[0].stage = "done"
      <4>1. CASE ErrorPage BY <1>0, <4>1 DEF ErrorPage, TypeOK
      <4>2. CASE ~ErrorPage
        BY <1>0, <1>5, <2>3, <4>2, ThreadsApart DEF Deliver, Ends, TypeOK
      <4> QED BY <4>1, <4>2
    <3>3. \A s \in Save : promise[s] # "pending"
      BY <1>0, <2>3, <3>1 DEF PromiseInv
    <3> QED BY <1>0, <2>1, <2>3, <3>1, <3>2, <3>3 DEF PromiseInv
  <2>4. CASE ~(e = epoch /\ e = 0)
    <3>1. UNCHANGED form BY <1>5, <2>4 DEF Deliver, Prefill
    <3>2. epoch = 0 => e # 0 /\ UNCHANGED page BY <1>5, <2>4 DEF Deliver
    <3> QED BY <1>0, <2>1, <2>2, <3>1, <3>2 DEF PromiseInv
  <2> QED BY <2>3, <2>4
<1>6. ASSUME NEW b \in Forms \union {form}, ClickSave(b) PROVE PromiseInv'
  <2>1. saves + 1 \in Save /\ saves \in Nat /\ epoch \in Nat /\ epoch <= saves
    BY <1>0, <1>6, SettingsConstants DEF ClickSave, TypeOK, Save
  <2>2. /\ saves' = saves + 1 /\ busy' /\ ~saveFailed' /\ ~busy /\ form' = b /\ page.status = "ok"
        /\ promise' = [promise EXCEPT ![saves + 1] = "pending"]
        /\ body' = [body EXCEPT ![saves + 1] = b] /\ Goto(saves + 1, "key")
        /\ UNCHANGED <<page, epoch, get>>
    BY <1>6, AfterValues DEF ClickSave
  <2>3. \A s \in Save : s # saves + 1 => pc'[s] = pc[s] /\ promise'[s] = promise[s]
    BY <1>0, <2>1, <2>2, ThreadsApart DEF TypeOK, Goto
  <2>4. promise'[saves + 1] = "pending" /\ body'[saves + 1] = b
    BY <1>0, <2>1, <2>2 DEF TypeOK
  <2>5. \A s \in Save : promise[s] # "pending" BY <1>0, <2>2 DEF PromiseInv
  <2>6. \A s \in Save : s \in Nat BY ThreadsApart
  <2> QED BY <1>0, <2>1, <2>2, <2>3, <2>4, <2>5, <2>6 DEF PromiseInv
<1> QED
  BY <1>1, <1>2, <1>3, <1>4, <1>5, <1>6 DEF Next, Step
-----------------------------------------------------------------------------
(* What a handler's step does to the stores: it writes only what its body  *)
(* says, and it moves on only with its write done.                         *)
HandlerEffect(s) ==
  /\ UNCHANGED <<client, get, wake>>
  /\ pc[s] \notin Over
  /\ \A r \in Save : r # s => pc'[r] = pc[r]
  /\ \A name \in {"key", "token"} :
       \/ secrets'[name] = secrets[name]
       \/ body[s][name] # Blank /\ secrets'[name] = body[s][name]
  /\ config' \in {config, body[s].ids}
  /\ pc[s] # "config" => config' = config
  /\ \/ pc'[s] \in {pc[s], "error"}
     \/ /\ pc[s] = "key" /\ pc'[s] = "token"
        /\ body[s].key # Blank => secrets'["key"] = body[s].key
     \/ /\ pc[s] = "token" /\ pc'[s] = "config"
        /\ body[s].token # Blank => secrets'["token"] = body[s].token
     \/ pc[s] = "config" /\ pc'[s] = "back_config" /\ config' = body[s].ids
     \/ pc[s] \in ReadBack /\ pc'[s] \in ReadBack \union {"ok"}

LEMMA HandlerStepEffect ==
  ASSUME TypeOK, LockInv, NoSecretLost, UNCHANGED wholeFile, NEW s \in Save, HandlerStep(s)
  PROVE  HandlerEffect(s)
<1> DEFINE Moves ==
      \/ pc'[s] \in {pc[s], "error"}
      \/ /\ pc[s] = "key" /\ pc'[s] = "token"
         /\ body[s].key # Blank => secrets'["key"] = body[s].key
      \/ /\ pc[s] = "token" /\ pc'[s] = "config"
         /\ body[s].token # Blank => secrets'["token"] = body[s].token
      \/ pc[s] = "config" /\ pc'[s] = "back_config" /\ config' = body[s].ids
      \/ pc[s] \in ReadBack /\ pc'[s] \in ReadBack \union {"ok"}
<1> DEFINE Writes ==
      /\ \A name \in {"key", "token"} :
           \/ secrets'[name] = secrets[name]
           \/ body[s][name] # Blank /\ secrets'[name] = body[s][name]
      /\ config' \in {config, body[s].ids}
      /\ pc[s] # "config" => config' = config
<1> DEFINE Stays ==
      /\ UNCHANGED <<client, get, wake>>
      /\ pc[s] \notin Over
      /\ \A r \in Save : r # s => pc'[r] = pc[r]
<1>0. s \in Thread BY ThreadsApart
<1>1. ASSUME NEW name \in {"key", "token"}, SaveSecret(s, name) PROVE Stays /\ Writes /\ Moves
  <2>1. /\ pc[s] = name
        /\ UNCHANGED <<config, back, client, get, wake>>
        /\ \/ UNCHANGED <<pc, secrets>>
           \/ /\ Goto(s, After(name))
              /\ secrets' = IF body[s][name] = Blank THEN secrets
                            ELSE [secrets EXCEPT ![name] = body[s][name]]
           \/ /\ Goto(s, "error") /\ body[s][name] # Blank
              /\ secrets' \in {secrets, [secrets EXCEPT ![name] = body[s][name]]}
    BY <1>1, SaveSecretEffect
  <2>2. Stays BY <1>0, <2>1, ThreadsApart DEF TypeOK, Goto, Over
  <2>3. name \in Name /\ "key" \in Name /\ "token" \in Name BY DEF Name
  <2>4. Writes BY <2>1, <2>3 DEF TypeOK, Store
  <2>5. Moves BY <1>0, <2>1, <2>3, AfterValues DEF TypeOK, Store, Goto
  <2> QED BY <2>2, <2>4, <2>5
<1>2. ASSUME SaveConfig(s) PROVE Stays /\ Writes /\ Moves
  <2>1. /\ pc[s] = "config"
        /\ \/ config' = body[s].ids /\ Goto(s, "back_config")
           \/ config' \in {config, body[s].ids} /\ Goto(s, "error")
        /\ UNCHANGED <<secrets, client, get, wake>>
    BY <1>2, AfterValues DEF SaveConfig
  <2> QED BY <1>0, <2>1, ThreadsApart DEF TypeOK, Goto, Over
<1>3. ASSUME SaveReadBack(s) PROVE Stays /\ Writes /\ Moves
  <2>1. /\ pc[s] \in ReadBack
        /\ \E l \in {"back_key", "back_token", "ok", "error"} : Goto(s, l)
        /\ UNCHANGED <<stores, client, get, wake>>
    BY <1>3 DEF SaveReadBack
  <2> QED BY <1>0, <2>1, ThreadsApart DEF TypeOK, Goto, Over, ReadBack, stores
<1>4. Stays /\ Writes /\ Moves BY <1>1, <1>2, <1>3 DEF HandlerStep
<1> QED BY <1>4 DEF HandlerEffect

(* A handler that runs, and is not the one the client waits for, has lost  *)
(* its client.                                                             *)
LEMMA RunningAlone ==
  ASSUME TypeOK, PromiseInv, NEW s \in Save, Running(s)
  PROVE  s = saves \/ Dropped(s)
BY DEF TypeOK, PromiseInv, Running, Over, Dropped

(* Steps that are no handler's leave the stores and the handlers alone,    *)
(* but for a new save, which starts at its first step.                     *)
LEMMA OtherStepEffect ==
  ASSUME TypeOK, LockInv, NoSecretLost, [Next]_vars, ~(\E s \in Save : HandlerStep(s))
  PROVE  /\ UNCHANGED config
         /\ secrets'["key"] = secrets["key"] /\ secrets'["token"] = secrets["token"]
         /\ UNCHANGED wake \/ Preflight
         /\ \/ /\ UNCHANGED <<saves, body>>
               /\ \A s \in Save : /\ pc'[s] = pc[s]
                                  /\ Dropped(s) => Dropped(s)'
                                  /\ promise'[s] = "none" <=> promise[s] = "none"
            \/ \E b \in Forms \union {form} : ClickSave(b)
<1> DEFINE Quiet == /\ UNCHANGED <<saves, body>>
                    /\ \A s \in Save : /\ pc'[s] = pc[s]
                                       /\ Dropped(s) => Dropped(s)'
                                       /\ promise'[s] = "none" <=> promise[s] = "none"
<1> DEFINE Same == /\ UNCHANGED config
                   /\ secrets'["key"] = secrets["key"] /\ secrets'["token"] = secrets["token"]
<1>1. CASE UNCHANGED vars
  BY <1>1 DEF vars, Dropped
<1>2. CASE StoreGmail /\ UNCHANGED wholeFile
  BY <1>2, StoreGmailEffect DEF client, Dropped
<1>3. CASE Preflight
  BY <1>3 DEF Preflight, stores, client, Dropped
<1>4. ASSUME NEW s \in Save, ClientStep(s) \/ DropSave(s) PROVE Same /\ Quiet /\ UNCHANGED wake
  <2>1. /\ promise[s] = "pending" /\ UNCHANGED <<stores, pc, body, saves, wake>>
        /\ \E l \in {"settled", "dropped"} : promise' = [promise EXCEPT ![s] = l]
    BY <1>4 DEF ClientStep, Saved, SaveFails, DropSave
  <2> QED BY <2>1 DEF stores, Dropped, TypeOK
<1>5. ASSUME NEW e \in Epoch, ReadSettings(e) \/ BreakGet(e) \/ Deliver(e)
      PROVE  Same /\ Quiet /\ UNCHANGED wake
  BY <1>5 DEF ReadSettings, BreakGet, Deliver, stores, client, Dropped
<1>6. ASSUME NEW b \in Forms \union {form}, ClickSave(b) PROVE Same /\ UNCHANGED wake
  BY <1>6 DEF ClickSave, stores
<1> QED BY <1>1, <1>2, <1>3, <1>4, <1>5, <1>6 DEF Next, Step

(* A new save.                                                             *)
LEMMA ClickSaveEffect ==
  ASSUME TypeOK, NEW b \in Forms \union {form}, ClickSave(b)
  PROVE  /\ saves' = saves + 1 /\ saves' \in Save
         /\ body'[saves'] = b /\ pc'[saves'] = "key" /\ promise'[saves'] = "pending"
         /\ ~saveFailed' /\ UNCHANGED <<stores, epoch, get, wake, page>>
         /\ \A s \in Save : s # saves' => /\ pc'[s] = pc[s] /\ body'[s] = body[s]
                                          /\ promise'[s] = promise[s]
<1>1. saves + 1 \in Save
  BY SettingsConstants DEF ClickSave, TypeOK, Save
<1> QED BY <1>1, ThreadsApart, AfterValues DEF ClickSave, Goto, TypeOK

(* The latest save converges: whoever else still writes writes the same.   *)
LEMMA ConvergeStep == SaveInv /\ [Next]_vars => ConvergeInv'
<1> SUFFICES ASSUME SaveInv, [Next]_vars,
                    NEW s \in Save, s = saves', \A r \in Save : Dropped(r)' => body'[r] = body'[s]
             PROVE  Wrote(s)'
  BY DEF ConvergeInv
<1>0. TypeOK /\ LockInv /\ NoSecretLost /\ PromiseInv /\ ConvergeInv BY DEF SaveInv
<1>1. ASSUME NEW b \in Forms \union {form}, ClickSave(b) PROVE Wrote(s)'
  <2>1. pc'[s] = "key" BY <1>0, <1>1, ClickSaveEffect
  <2> QED BY <2>1 DEF Wrote, ReadBack
<1>2. ASSUME NEW r \in Save, UNCHANGED wholeFile, HandlerStep(r) PROVE Wrote(s)'
  <2>0. HandlerEffect(r) BY <1>0, <1>2, HandlerStepEffect
  <2>1. /\ UNCHANGED client /\ pc[r] \notin Over
        /\ \A q \in Save : q # r => pc'[q] = pc[q]
        /\ config' \in {config, body[r].ids}
        /\ secrets'["key"] = secrets["key"] \/ (body[r].key # Blank /\ secrets'["key"] = body[r].key)
        /\ secrets'["token"] = secrets["token"] \/ (body[r].token # Blank /\ secrets'["token"] = body[r].token)
    BY <2>0 DEF HandlerEffect
  <2>2. s = saves /\ Wrote(s)
    BY <1>0, <2>1 DEF client, ConvergeInv, Dropped
  <2>3. body[r] = body[s]
    BY <1>0, <2>1, <2>2, RunningAlone DEF client, Running, Dropped
  <2>4. CASE r # s
    BY <2>1, <2>2, <2>3, <2>4 DEF Wrote, client
  <2>5. CASE r = s
    <3>1. /\ pc[s] # "config" => config' = config
          /\ \/ pc'[s] \in {pc[s], "error"}
             \/ /\ pc[s] = "key" /\ pc'[s] = "token"
                /\ body[s].key # Blank => secrets'["key"] = body[s].key
             \/ /\ pc[s] = "token" /\ pc'[s] = "config"
                /\ body[s].token # Blank => secrets'["token"] = body[s].token
             \/ pc[s] = "config" /\ pc'[s] = "back_config" /\ config' = body[s].ids
             \/ pc[s] \in ReadBack /\ pc'[s] \in ReadBack \union {"ok"}
      BY <2>0, <2>5 DEF HandlerEffect
    <3> QED BY <2>1, <2>2, <2>5, <3>1 DEF Wrote, client, ReadBack
  <2> QED BY <2>4, <2>5
<1>3. CASE ~(\E r \in Save : HandlerStep(r)) /\ ~(\E b \in Forms \union {form} : ClickSave(b))
  <2>1. /\ UNCHANGED <<config, saves, body>>
        /\ secrets'["key"] = secrets["key"] /\ secrets'["token"] = secrets["token"]
        /\ \A r \in Save : pc'[r] = pc[r] /\ (Dropped(r) => Dropped(r)')
    BY <1>0, <1>3, OtherStepEffect
  <2>2. Wrote(s) BY <1>0, <2>1 DEF ConvergeInv
  <2> QED BY <2>1, <2>2 DEF Wrote
<1>4. CASE UNCHANGED vars
  BY <1>0, <1>4 DEF vars, ConvergeInv, Wrote, Dropped
<1> QED BY <1>1, <1>2, <1>3, <1>4 DEF Next

(* With complete forms a wake that finds a configuration finds both        *)
(* secrets.                                                                *)
LEMMA SetupStep == SaveInv /\ [Next]_vars => SetupInv'
<1> SUFFICES ASSUME SaveInv, [Next]_vars, Complete' PROVE
      /\ config' # Blank => BothSet'
      /\ \A s \in Save : /\ pc'[s] = "token" => secrets'["key"] # Blank
                         /\ pc'[s] = "config" => BothSet'
      /\ wake'.stage \in {"key", "token"} => BothSet'
      /\ wake'.stage = "token" => wake'.key # Blank
      /\ wake'.stage # "no_credentials"
  BY DEF SetupInv
<1>0. TypeOK /\ LockInv /\ NoSecretLost /\ PromiseInv /\ SetupInv BY DEF SaveInv
<1>1. ASSUME NEW b \in Forms \union {form}, ClickSave(b) PROVE SetupInv'
  <2>1. Complete
    <3>1. /\ saves' = saves + 1 /\ saves' \in Save /\ saves \in Nat
          /\ \A s \in Save : s # saves' => body'[s] = body[s] /\ promise'[s] = promise[s]
      <4>1. saves \in Nat
        BY <1>0 DEF TypeOK
      <4>2. /\ saves' = saves + 1 /\ saves' \in Save
            /\ \A s \in Save : s # saves' => body'[s] = body[s] /\ promise'[s] = promise[s]
        BY <1>0, <1>1, ClickSaveEffect
      <4> QED BY <4>1, <4>2
    <3>2. promise[saves'] = "none" BY <1>0, <3>1 DEF PromiseInv
    <3> QED BY <3>1, <3>2 DEF Complete
  <2> QED BY <1>0, <1>1, <2>1, ClickSaveEffect DEF SetupInv, BothSet, stores
<1>2. ASSUME NEW r \in Save, UNCHANGED wholeFile, HandlerStep(r) PROVE SetupInv'
  <2>0. HandlerEffect(r) BY <1>0, <1>2, HandlerStepEffect
  <2>1. /\ UNCHANGED <<client, wake>> /\ pc[r] \notin Over
        /\ \A q \in Save : q # r => pc'[q] = pc[q]
        /\ secrets'["key"] = secrets["key"] \/ (body[r].key # Blank /\ secrets'["key"] = body[r].key)
        /\ secrets'["token"] = secrets["token"] \/ (body[r].token # Blank /\ secrets'["token"] = body[r].token)
        /\ pc[r] # "config" => config' = config
        /\ \/ pc'[r] \in {pc[r], "error"}
           \/ /\ pc[r] = "key" /\ pc'[r] = "token"
              /\ body[r].key # Blank => secrets'["key"] = body[r].key
           \/ /\ pc[r] = "token" /\ pc'[r] = "config"
              /\ body[r].token # Blank => secrets'["token"] = body[r].token
           \/ pc[r] = "config" /\ pc'[r] = "back_config" /\ config' = body[r].ids
           \/ pc[r] \in ReadBack /\ pc'[r] \in ReadBack \union {"ok"}
    BY <2>0 DEF HandlerEffect
  <2>2. Complete BY <2>1 DEF Complete, client
  <2>3. body[r].key # Blank /\ body[r].token # Blank
    BY <1>0, <2>1, <2>2 DEF Complete, PromiseInv, Over
  <2>4. /\ secrets["key"] # Blank => secrets'["key"] # Blank
        /\ secrets["token"] # Blank => secrets'["token"] # Blank
    BY <2>1
  <2>5. BothSet => BothSet' BY <2>4 DEF BothSet
  <2>6. config' # Blank => BothSet'
    BY <1>0, <2>1, <2>2, <2>5 DEF SetupInv
  <2>7. ASSUME NEW s \in Save
        PROVE  /\ pc'[s] = "token" => secrets'["key"] # Blank
               /\ pc'[s] = "config" => BothSet'
    BY <1>0, <2>1, <2>2, <2>3, <2>4, <2>5 DEF SetupInv, BothSet, ReadBack
  <2> QED BY <1>0, <2>1, <2>2, <2>5, <2>6, <2>7 DEF SetupInv
<1>3. CASE ~(\E r \in Save : HandlerStep(r)) /\ ~(\E b \in Forms \union {form} : ClickSave(b))
  <2>1. /\ UNCHANGED <<config, body>>
        /\ secrets'["key"] = secrets["key"] /\ secrets'["token"] = secrets["token"]
        /\ UNCHANGED wake \/ Preflight
        /\ \A r \in Save : pc'[r] = pc[r] /\ (promise'[r] = "none" <=> promise[r] = "none")
    BY <1>0, <1>3, OtherStepEffect
  <2>2. Complete BY <2>1 DEF Complete
  <2>3. BothSet' <=> BothSet BY <2>1 DEF BothSet
  <2>4. CASE UNCHANGED wake
    BY <1>0, <2>1, <2>2, <2>3, <2>4 DEF SetupInv
  <2>5. CASE Preflight
    <3>1. /\ wake'.stage \in {"key", "token"} => BothSet
          /\ wake'.stage = "token" => wake'.key # Blank
          /\ wake'.stage # "no_credentials"
      BY <1>0, <2>2, <2>5 DEF Preflight, SetupInv, BothSet, TypeOK
    <3> QED BY <1>0, <2>1, <2>2, <2>3, <3>1 DEF SetupInv
  <2> QED BY <2>1, <2>4, <2>5
<1>4. CASE UNCHANGED vars
  BY <1>0, <1>4 DEF vars, SetupInv, Complete, BothSet
<1> QED BY <1>1, <1>2, <1>3, <1>4 DEF Next, SetupInv

(* After a failed save whose client has seen the handler end, nothing      *)
(* writes the settings, and the re-read reports them as they are.          *)
LEMMA ReadStep == SaveInv /\ [Next]_vars => ReadInv'
<1> SUFFICES ASSUME SaveInv, [Next]_vars, saveFailed', \A s \in Save : ~Dropped(s)'
             PROVE  LET g == get'[epoch']
                    IN  /\ g.stage \in {"key", "token", "answered"} => g.trello.ids = Badges'.ids
                        /\ g.stage \in {"token", "answered"} => g.trello.key = Badges'.key
                        /\ g.stage = "answered" => g.trello.token = Badges'.token
                        /\ g.stage = "done" => page'.trello = Badges'
  BY DEF ReadInv
<1>0. TypeOK /\ LockInv /\ NoSecretLost /\ PromiseInv /\ ReadInv BY DEF SaveInv
<1>t. epoch \in Epoch BY <1>0, SettingsConstants DEF TypeOK, Epoch
<1>1. ASSUME NEW b \in Forms \union {form}, ClickSave(b) PROVE FALSE
  BY <1>0, <1>1, ClickSaveEffect
<1>2. ASSUME NEW r \in Save, UNCHANGED wholeFile, HandlerStep(r) PROVE FALSE
  <2>1. HandlerEffect(r) BY <1>0, <1>2, HandlerStepEffect
  <2>2. UNCHANGED client /\ pc[r] \notin Over BY <2>1 DEF HandlerEffect
  <2>3. ~Dropped(r) /\ saveFailed BY <2>2 DEF client, Dropped
  <2>4. promise[r] \in {"pending", "settled", "dropped"} /\ promise[r] # "settled"
    BY <1>0, <2>2, ActsMeansBegun DEF Over
  <2> QED BY <1>0, <2>3, <2>4 DEF PromiseInv, Dropped
<1>3. ASSUME NEW s \in Save, Saved(s) \/ DropSave(s) PROVE FALSE
  <2>1. CASE Saved(s)
    BY <1>0, <2>1 DEF Saved, PromiseInv
  <2>2. CASE DropSave(s)
    BY <1>0, <2>2 DEF DropSave, TypeOK, Dropped
  <2> QED BY <1>3, <2>1, <2>2
<1>4. ASSUME NEW s \in Save, SaveFails(s) PROVE ReadInv'
  <2>1. epoch' \in Epoch /\ epoch' = epoch + 1
    BY <1>0, <1>4, SettingsConstants DEF SaveFails, Reread, PromiseInv, TypeOK, Epoch
  <2>2. get'[epoch'].stage = "config"
    BY <1>0, <1>4, <2>1 DEF SaveFails, Reread, TypeOK
  <2> QED BY <2>2 DEF ReadInv
<1>5. CASE UNCHANGED vars \/ Preflight \/ (StoreGmail /\ UNCHANGED wholeFile)
  <2>1. UNCHANGED <<client, get>> /\ Badges' = Badges
    <3>1. CASE UNCHANGED vars BY <3>1 DEF vars, client, Badges
    <3>2. CASE Preflight BY <3>2 DEF Preflight, stores, Badges
    <3>3. CASE StoreGmail /\ UNCHANGED wholeFile
      BY <1>0, <3>3, StoreGmailEffect DEF Badges
    <3> QED BY <1>5, <3>1, <3>2, <3>3
  <2> QED BY <1>0, <2>1 DEF ReadInv, client, Dropped
<1>6. ASSUME NEW e \in Epoch, ReadSettings(e) \/ BreakGet(e) \/ Deliver(e) PROVE ReadInv'
  <2>1. /\ UNCHANGED <<epoch, promise, saveFailed>> /\ Badges' = Badges
        /\ \A f \in Epoch : f # e => get'[f] = get[f]
    BY <1>0, <1>6 DEF ReadSettings, BreakGet, Deliver, Ends, client, stores, Badges, TypeOK
  <2>2. /\ get[epoch].stage \in {"key", "token", "answered"} => get[epoch].trello.ids = Badges.ids
        /\ get[epoch].stage \in {"token", "answered"} => get[epoch].trello.key = Badges.key
        /\ get[epoch].stage = "answered" => get[epoch].trello.token = Badges.token
        /\ get[epoch].stage = "done" => page.trello = Badges
    BY <1>0, <2>1 DEF ReadInv, Dropped
  <2>3. CASE e # epoch
    <3>1. UNCHANGED page BY <1>6, <2>3 DEF ReadSettings, BreakGet, Deliver, client
    <3> QED BY <1>t, <2>1, <2>2, <2>3, <3>1 DEF ReadInv
  <2>4. CASE e = epoch /\ ReadSettings(e)
    <3>1. get[e] = [stage |-> get[e].stage, trello |-> get[e].trello] /\ get[e].trello \in View
      BY <1>0 DEF TypeOK
    <3>2. CASE get[e].stage = "config"
      <4>1. get'[e] = [stage |-> "key", trello |-> [get[e].trello EXCEPT !.ids = config]]
        BY <1>0, <2>4, <3>1, <3>2 DEF ReadSettings, TypeOK
      <4> QED BY <2>1, <2>4, <3>1, <4>1 DEF ReadInv, Badges, View
    <3>3. CASE get[e].stage = "key"
      <4>1. get'[e] = [stage |-> "token", trello |-> [get[e].trello EXCEPT !.key = secrets["key"] # Blank]]
        BY <1>0, <2>4, <3>1, <3>3 DEF ReadSettings, TypeOK
      <4> QED BY <2>1, <2>2, <2>4, <3>1, <3>3, <4>1 DEF ReadInv, Badges, View
    <3>4. CASE get[e].stage = "token"
      <4>1. get'[e] = [stage |-> "answered",
                       trello |-> [get[e].trello EXCEPT !.token = secrets["token"] # Blank]]
        BY <1>0, <2>4, <3>1, <3>4 DEF ReadSettings, TypeOK
      <4> QED BY <2>1, <2>2, <2>4, <3>1, <3>4, <4>1 DEF ReadInv, Badges, View
    <3> QED BY <2>4, <3>2, <3>3, <3>4 DEF ReadSettings
  <2>5. CASE e = epoch /\ BreakGet(e)
    <3>1. get'[e].stage = "broken" BY <1>0, <2>5 DEF BreakGet, TypeOK
    <3> QED BY <2>1, <2>5, <3>1 DEF ReadInv
  <2>6. CASE e = epoch /\ Deliver(e)
    <3>1. CASE get[e].stage = "answered" /\ Ends(e, "done")
      <4>1. page'.trello = get[e].trello /\ get'[e].stage = "done"
        BY <1>0, <2>6, <3>1 DEF Deliver, Ends, TypeOK
      <4>2. get[e].trello = [key |-> get[e].trello.key, token |-> get[e].trello.token,
                             ids |-> get[e].trello.ids]
        BY <1>0 DEF TypeOK, View
      <4>3. get[e].trello = Badges BY <2>2, <2>6, <3>1, <4>2 DEF Badges
      <4> QED BY <2>1, <2>6, <4>1, <4>3 DEF ReadInv
    <3>2. CASE Ends(e, "lost")
      <4>1. get'[e].stage = "lost" BY <1>0, <3>2 DEF Ends, TypeOK
      <4> QED BY <2>1, <2>6, <4>1 DEF ReadInv
    <3> QED BY <2>6, <3>1, <3>2 DEF Deliver
  <2> QED BY <1>6, <2>3, <2>4, <2>5, <2>6
<1> QED
  BY <1>1, <1>2, <1>3, <1>4, <1>5, <1>6 DEF Next, Step, ClientStep, ReadInv
-----------------------------------------------------------------------------
LEMMA SaveInvStep == SaveInv /\ [Next]_vars => SaveInv'
BY TypesStep, PromiseStep, ConvergeStep, ReadStep, SetupStep DEF SaveInv

(* The strengthened invariant holds of every behaviour.                    *)
THEOREM SaveInvariant == Spec => []SaveInv
BY SaveInvInit, SaveInvStep, PTL DEF Spec

(* Overlapping saves and an OAuth callback never undo one another's        *)
(* secret: the lock of the file store covers the read and the write, and   *)
(* Key Vault replaces one secret at a time.                                *)
THEOREM SaveKeepsSecrets == Spec => []NoSecretLost
<1>1. SaveInv => NoSecretLost BY DEF SaveInv
<1> QED BY <1>1, SaveInvariant, PTL

(* A confirmed retry leaves the stores as submitted, whatever handlers of  *)
(* its earlier attempts are still writing.                                 *)
THEOREM SaveRetryConverges == Spec => []RetryConverges
<1>1. SaveInv => RetryConverges
  BY DEF SaveInv, ConvergeInv, Wrote, RetryConverges, Name
<1> QED BY <1>1, SaveInvariant, PTL

(* After a failed save the form is what was submitted and the badges are   *)
(* what the stores hold.                                                   *)
THEOREM SaveFailureIsShown == Spec => []PageAfterFailure
<1>1. SaveInv => PageAfterFailure
  BY DEF SaveInv, PromiseInv, ReadInv, Badges, PageAfterFailure
<1> QED BY <1>1, SaveInvariant, PTL

(* No wake finds a configuration without its secrets unless a save was     *)
(* sent without them.                                                      *)
THEOREM SaveSetupIsOrdered == Spec => []SetupIsOrdered
<1>1. SaveInv => SetupIsOrdered
  BY DEF SaveInv, SetupInv, Complete, SetupIsOrdered
<1> QED BY <1>1, SaveInvariant, PTL
-----------------------------------------------------------------------------
(* Logging in.  The callback that stores the operator's Gmail token in the *)
(* secret store of the settings ends a flow of OperatorSession; what       *)
(* follows is about that module, for any number of tabs, flows, mishaps    *)
(* and instants, and any lifetimes of the state and of the session.        *)

(* A flow has one number, and a flow not begun has done nothing.           *)
FreshInv ==
  \A f \in Login!Flow : f > flows => stage[f] = "none" /\ ~used[f] /\ minted[f] = Login!Never

(* The code is spent before the account is looked at, and the operator's   *)
(* account before a token is stored; a callback takes no time.             *)
CallbackInv ==
  \A f \in Login!Flow :
    /\ stage[f] \in {"check", "store", "mint"} =>
         used[f] /\ minted[f] = Login!Never /\ made[f] <= now /\ now - made[f] <= StateTTL
    /\ stage[f] \in {"store", "mint"} => account[f] = "operator"

(* A session goes back to a callback of the operator in the lifetime of    *)
(* the state.                                                              *)
MintedInv ==
  \A f \in Login!Flow :
    /\ minted[f] # Login!Never =>
         /\ used[f] /\ account[f] = "operator"
         /\ stage[f] \notin {"none", "google", "check", "store", "mint"}
         /\ minted[f] - made[f] <= StateTTL
    /\ stage[f] = "token" => minted[f] # Login!Never

TokenInv == \A t \in Tab : token[t] # Login!None => minted[token[t]] # Login!Never

(* The stored token is one that the operator's own exchange returned, and  *)
(* that exchange is not repeated.                                          *)
StoredInv ==
  stored # Login!None =>
    /\ account[stored] = "operator" /\ refresh[stored]
    /\ used[stored] /\ stage[stored] \notin {"none", "google"}

(* A session comes after the store.                                        *)
StoreInv ==
  \A f \in Login!Flow : stage[f] = "mint" /\ refresh[f] => stored # Login!None

(* Google gives a refresh token with the first grant; it is stored, or the *)
(* flow that had it has no session.                                        *)
GrantInv ==
  "operator" \in granted /\ stored = Login!None =>
    \E f \in Login!Flow :
      /\ account[f] = "operator" /\ refresh[f] /\ minted[f] = Login!Never
      /\ used[f] /\ stage[f] \notin {"none", "google"}

(* A dead token is of a callback that is over.  A reconnect is given one   *)
(* that is not, and stores it before its session.                          *)
RepairInv ==
  /\ \A f \in dead : used[f] /\ stage[f] \notin {"check", "store", "mint"}
  /\ \A f \in Login!Flow : prompt[f] = "consent" =>
       /\ stage[f] \in {"check", "store", "mint"} => refresh[f]
       /\ stage[f] = "mint" => stored # Login!None /\ stored \notin dead
  /\ Login!ReconnectRepairs

(* The inductive strengthening of the three properties.                    *)
SessionInv ==
  /\ Login!TypeOK /\ FreshInv /\ CallbackInv /\ MintedInv /\ TokenInv
  /\ StoredInv /\ StoreInv /\ GrantInv /\ RepairInv

LEMMA SessionInvInit == Login!Init => SessionInv
<1> SUFFICES ASSUME Login!Init PROVE SessionInv OBVIOUS
<1> USE LoginConstants DEF Login!SessionConstants, Login!Init, Login!Flow, Login!None, Login!Never
<1>1. Login!TypeOK BY DEF Login!TypeOK, Login!Account
<1>2. FreshInv /\ CallbackInv /\ MintedInv /\ TokenInv
  BY DEF FreshInv, CallbackInv, MintedInv, TokenInv
<1>3. StoredInv /\ StoreInv /\ GrantInv /\ RepairInv
  BY DEF StoredInv, StoreInv, GrantInv, RepairInv, Login!ReconnectRepairs
<1> QED BY <1>1, <1>2, <1>3 DEF SessionInv
-----------------------------------------------------------------------------
(* Every action keeps the types of the variables.                          *)
LEMMA SessionTypes ==
  Login!TypeOK /\ [Login!Next]_Login!vars => Login!TypeOK'
<1> SUFFICES ASSUME Login!TypeOK, [Login!Next]_Login!vars PROVE Login!TypeOK' OBVIOUS
<1> USE LoginConstants
    DEF Login!SessionConstants, Login!TypeOK, Login!InCallback, Login!Returned, Login!Goto,
        Login!Mishap, Login!flowData, Login!google, Login!browser
<1>1. ASSUME NEW f \in Login!Flow, Login!Consent(f) PROVE Login!TypeOK'
  <2>1. ASSUME NEW a \in Login!Account, account' = [account EXCEPT ![f] = a],
               Login!Goto(f, "callback")
        PROVE  Login!TypeOK'
    <3>1. account' \in [Login!Flow -> Login!Account] BY <2>1
    <3> QED BY <1>1, <2>1, <3>1 DEF Login!Consent
  <2>2. ASSUME Login!Goto(f, "error"), UNCHANGED account PROVE Login!TypeOK'
    BY <1>1, <2>2 DEF Login!Consent
  <2> QED BY <1>1, <2>1, <2>2 DEF Login!Consent
<1>2. ASSUME NEW f \in Login!Flow, Login!Resend(f) \/ Login!Revisit(f) PROVE Login!TypeOK'
  <2>1. Login!Revisit(f) => flows + 1 \in Login!Flow /\ flows + 1 \in 0..MaxFlows
    BY DEF Login!Revisit, Login!Flow
  <2> QED BY <1>2, <2>1 DEF Login!Resend, Login!Revisit
<1>3. ASSUME NEW f \in Login!Flow, Login!ExchangeCode(f) PROVE Login!TypeOK'
  <2>1. Login!Exchanged(f) => refresh' \in [Login!Flow -> BOOLEAN]
    <3> DEFINE b == prompt[f] = "consent" \/ account[f] \notin granted
    <3>1. b \in BOOLEAN OBVIOUS
    <3>2. Login!Exchanged(f) => refresh' = [refresh EXCEPT ![f] = b] BY DEF Login!Exchanged
    <3> HIDE DEF b
    <3> QED BY <3>1, <3>2
  <2>2. Login!Exchanged(f) => used' \in [Login!Flow -> BOOLEAN] /\ granted' \subseteq Login!Account
    BY DEF Login!Exchanged
  <2>3. /\ used' \in [Login!Flow -> BOOLEAN] /\ granted' \subseteq Login!Account
        /\ refresh' \in [Login!Flow -> BOOLEAN]
    BY <1>3, <2>1, <2>2 DEF Login!ExchangeCode
  <2> QED BY <1>3, <2>3 DEF Login!ExchangeCode
<1>4. ASSUME NEW f \in Login!Flow, Login!CheckEmail(f) PROVE Login!TypeOK'
  BY <1>4 DEF Login!CheckEmail
<1>5. ASSUME NEW f \in Login!Flow, Login!StoreToken(f) PROVE Login!TypeOK'
  BY <1>5 DEF Login!StoreToken
<1>6. ASSUME NEW f \in Login!Flow, Login!Mint(f) PROVE Login!TypeOK'
  <2>1. minted' \in [Login!Flow -> 0..MaxTime \union {Login!Never}] BY <1>6 DEF Login!Mint
  <2> QED BY <1>6, <2>1 DEF Login!Mint
<1>7. ASSUME NEW f \in Login!Flow, Login!Return(f) PROVE Login!TypeOK'
  BY <1>7 DEF Login!Return, Login!Loaded
<1>8. ASSUME NEW t \in Tab, Login!Click(t) PROVE Login!TypeOK'
  <2>1. flows + 1 \in Login!Flow /\ flows + 1 \in 0..MaxFlows BY <1>8 DEF Login!Click, Login!Flow
  <2> QED BY <1>8, <2>1 DEF Login!Click
<1>9. ASSUME NEW t \in Tab, Login!Reload(t) PROVE Login!TypeOK'
  BY <1>9 DEF Login!Reload, Login!Loaded
<1>10. ASSUME NEW t \in Tab, Login!Me(t) PROVE Login!TypeOK' BY <1>10 DEF Login!Me
<1>11. ASSUME NEW t \in Tab, Login!ApiRefused(t) \/ Login!Logout(t) PROVE Login!TypeOK'
  BY <1>11 DEF Login!ApiRefused, Login!Logout
<1>12. CASE Login!Tick \/ Login!Revoke BY <1>12 DEF Login!Tick, Login!Revoke
<1>13. CASE UNCHANGED Login!vars BY <1>13 DEF Login!vars
<1> QED
  BY <1>1, <1>2, <1>3, <1>4, <1>5, <1>6, <1>7, <1>8, <1>9, <1>10, <1>11, <1>12, <1>13 DEF Login!Next
-----------------------------------------------------------------------------
(* A flow is begun once.                                                   *)
LEMMA FreshStep ==
  Login!TypeOK /\ FreshInv /\ [Login!Next]_Login!vars => FreshInv'
<1> SUFFICES ASSUME Login!TypeOK, FreshInv, [Login!Next]_Login!vars PROVE FreshInv' OBVIOUS
<1> USE LoginConstants
    DEF Login!SessionConstants, Login!TypeOK, FreshInv, Login!Goto, Login!Mishap,
        Login!flowData, Login!google, Login!browser
<1>1. ASSUME NEW f \in Login!Flow, Login!Consent(f) \/ Login!Resend(f) \/ Login!Return(f)
      PROVE  FreshInv'
  BY <1>1 DEF Login!Consent, Login!Resend, Login!Return, Login!Returned
<1>2. ASSUME NEW f \in Login!Flow, Login!ExchangeCode(f) PROVE FreshInv'
  BY <1>2 DEF Login!ExchangeCode, Login!Exchanged
<1>3. ASSUME NEW f \in Login!Flow, Login!CheckEmail(f) \/ Login!StoreToken(f) \/ Login!Mint(f)
      PROVE  FreshInv'
  BY <1>3 DEF Login!CheckEmail, Login!StoreToken, Login!Mint
<1>4. ASSUME NEW t \in Tab, Login!Click(t) PROVE FreshInv'
  BY <1>4 DEF Login!Click, Login!Flow
<1>7. ASSUME NEW f \in Login!Flow, Login!Revisit(f) PROVE FreshInv'
  BY <1>7 DEF Login!Revisit, Login!Flow
<1>5. ASSUME NEW t \in Tab, Login!Reload(t) \/ Login!Me(t) \/ Login!ApiRefused(t) \/ Login!Logout(t)
      PROVE  FreshInv'
  BY <1>5 DEF Login!Reload, Login!Me, Login!ApiRefused, Login!Logout
<1>6. CASE Login!Tick \/ Login!Revoke \/ UNCHANGED Login!vars
  BY <1>6 DEF Login!Tick, Login!Revoke, Login!vars
<1> QED BY <1>1, <1>2, <1>3, <1>4, <1>5, <1>6, <1>7 DEF Login!Next

(* The steps of one callback.                                              *)
LEMMA CallbackStep ==
  Login!TypeOK /\ FreshInv /\ MintedInv /\ CallbackInv /\ [Login!Next]_Login!vars =>
           CallbackInv'
<1> SUFFICES ASSUME Login!TypeOK, FreshInv, MintedInv, CallbackInv, [Login!Next]_Login!vars
             PROVE  CallbackInv'
  OBVIOUS
<1> USE LoginConstants
    DEF Login!SessionConstants, Login!TypeOK, CallbackInv, Login!Goto, Login!Mishap,
        Login!flowData, Login!google, Login!browser
<1>1. ASSUME NEW f \in Login!Flow, Login!Consent(f) \/ Login!Resend(f) \/ Login!Return(f)
      PROVE  CallbackInv'
  BY <1>1 DEF Login!Consent, Login!Resend, Login!Return, Login!Returned
<1>2. ASSUME NEW f \in Login!Flow, Login!ExchangeCode(f) PROVE CallbackInv'
  BY <1>2 DEF Login!ExchangeCode, Login!Exchanged, Login!VerifyState, MintedInv
<1>3. ASSUME NEW f \in Login!Flow, Login!CheckEmail(f) \/ Login!StoreToken(f) \/ Login!Mint(f)
      PROVE  CallbackInv'
  BY <1>3 DEF Login!CheckEmail, Login!StoreToken, Login!Mint
<1>4. ASSUME NEW t \in Tab, Login!Click(t) PROVE CallbackInv'
  BY <1>4 DEF Login!Click, Login!Flow
<1>8. ASSUME NEW f \in Login!Flow, Login!Revisit(f) PROVE CallbackInv'
  BY <1>8 DEF Login!Revisit, Login!Flow
<1>5. ASSUME NEW t \in Tab, Login!Reload(t) \/ Login!Me(t) \/ Login!ApiRefused(t) \/ Login!Logout(t)
      PROVE  CallbackInv'
  BY <1>5 DEF Login!Reload, Login!Me, Login!ApiRefused, Login!Logout
<1>6. CASE Login!Tick \/ Login!Revoke
  BY <1>6 DEF Login!Tick, Login!Revoke, Login!NoCallback
<1>7. CASE UNCHANGED Login!vars BY <1>7 DEF Login!vars
<1> QED BY <1>1, <1>2, <1>3, <1>4, <1>5, <1>6, <1>7, <1>8 DEF Login!Next

(* A session is minted once, at the end of a callback.                     *)
LEMMA MintedStep ==
  Login!TypeOK /\ FreshInv /\ CallbackInv /\ MintedInv /\ [Login!Next]_Login!vars =>
           MintedInv'
<1> SUFFICES ASSUME Login!TypeOK, FreshInv, CallbackInv, MintedInv, [Login!Next]_Login!vars
             PROVE  MintedInv'
  OBVIOUS
<1> USE LoginConstants
    DEF Login!SessionConstants, Login!TypeOK, MintedInv, Login!Goto, Login!Mishap,
        Login!flowData, Login!google, Login!browser
<1>1. ASSUME NEW f \in Login!Flow, Login!Consent(f) \/ Login!Resend(f) \/ Login!Return(f)
      PROVE  MintedInv'
  BY <1>1 DEF Login!Consent, Login!Resend, Login!Return, Login!Returned
<1>2. ASSUME NEW f \in Login!Flow, Login!ExchangeCode(f) PROVE MintedInv'
  BY <1>2 DEF Login!ExchangeCode, Login!Exchanged
<1>3. ASSUME NEW f \in Login!Flow, Login!CheckEmail(f) \/ Login!StoreToken(f) PROVE MintedInv'
  BY <1>3 DEF Login!CheckEmail, Login!StoreToken
<1>4. ASSUME NEW f \in Login!Flow, Login!Mint(f) PROVE MintedInv'
  BY <1>4 DEF Login!Mint, CallbackInv, Login!Never
<1>5. ASSUME NEW t \in Tab, Login!Click(t) PROVE MintedInv'
  BY <1>5 DEF Login!Click, Login!Flow, FreshInv
<1>8. ASSUME NEW f \in Login!Flow, Login!Revisit(f) PROVE MintedInv'
  BY <1>8 DEF Login!Revisit, Login!Flow, FreshInv
<1>6. ASSUME NEW t \in Tab, Login!Reload(t) \/ Login!Me(t) \/ Login!ApiRefused(t) \/ Login!Logout(t)
      PROVE  MintedInv'
  BY <1>6 DEF Login!Reload, Login!Me, Login!ApiRefused, Login!Logout
<1>7. CASE Login!Tick \/ Login!Revoke \/ UNCHANGED Login!vars
  BY <1>7 DEF Login!Tick, Login!Revoke, Login!vars
<1> QED BY <1>1, <1>2, <1>3, <1>4, <1>5, <1>6, <1>7, <1>8 DEF Login!Next

(* A tab's token is one that was minted, for ever after.                   *)
LEMMA TokenStep ==
  Login!TypeOK /\ CallbackInv /\ MintedInv /\ TokenInv /\ [Login!Next]_Login!vars =>
           TokenInv'
<1> SUFFICES ASSUME Login!TypeOK, CallbackInv, MintedInv, TokenInv, [Login!Next]_Login!vars
             PROVE  TokenInv'
  OBVIOUS
<1> USE LoginConstants
    DEF Login!SessionConstants, Login!TypeOK, TokenInv, Login!Goto, Login!Mishap,
        Login!flowData, Login!google, Login!browser
<1>1. ASSUME NEW f \in Login!Flow, Login!Consent(f) \/ Login!Resend(f) PROVE TokenInv'
  BY <1>1 DEF Login!Consent, Login!Resend
<1>2. ASSUME NEW f \in Login!Flow, Login!Return(f) PROVE TokenInv'
  BY <1>2 DEF Login!Return, Login!Returned, MintedInv
<1>3. ASSUME NEW f \in Login!Flow,
        Login!ExchangeCode(f) \/ Login!CheckEmail(f) \/ Login!StoreToken(f)
      PROVE  TokenInv'
  BY <1>3 DEF Login!ExchangeCode, Login!CheckEmail, Login!StoreToken
<1>4. ASSUME NEW f \in Login!Flow, Login!Mint(f) PROVE TokenInv'
  BY <1>4 DEF Login!Mint, Login!Never
<1>5. ASSUME NEW t \in Tab, Login!Click(t) PROVE TokenInv'
  BY <1>5 DEF Login!Click
<1>8. ASSUME NEW f \in Login!Flow, Login!Revisit(f) PROVE TokenInv'
  BY <1>8 DEF Login!Revisit
<1>6. ASSUME NEW t \in Tab, Login!Reload(t) \/ Login!Me(t) \/ Login!ApiRefused(t) \/ Login!Logout(t)
      PROVE  TokenInv'
  BY <1>6 DEF Login!Reload, Login!Me, Login!ApiRefused, Login!Logout
<1>7. CASE Login!Tick \/ Login!Revoke \/ UNCHANGED Login!vars
  BY <1>7 DEF Login!Tick, Login!Revoke, Login!vars
<1> QED BY <1>1, <1>2, <1>3, <1>4, <1>5, <1>6, <1>7, <1>8 DEF Login!Next

(* Only the operator's own exchange fills the store.                       *)
LEMMA StoredStep ==
  Login!TypeOK /\ FreshInv /\ CallbackInv /\ StoredInv /\ [Login!Next]_Login!vars =>
           StoredInv'
<1> SUFFICES ASSUME Login!TypeOK, FreshInv, CallbackInv, StoredInv, [Login!Next]_Login!vars
             PROVE  StoredInv'
  OBVIOUS
<1> USE LoginConstants
    DEF Login!SessionConstants, Login!TypeOK, StoredInv, Login!Goto, Login!Mishap,
        Login!flowData, Login!google, Login!browser
<1>1. ASSUME NEW f \in Login!Flow, Login!Consent(f) \/ Login!Resend(f) \/ Login!Return(f)
      PROVE  StoredInv'
  BY <1>1 DEF Login!Consent, Login!Resend, Login!Return, Login!Returned
<1>2. ASSUME NEW f \in Login!Flow, Login!ExchangeCode(f) PROVE StoredInv'
  BY <1>2 DEF Login!ExchangeCode, Login!Exchanged
<1>3. ASSUME NEW f \in Login!Flow, Login!CheckEmail(f) \/ Login!Mint(f) PROVE StoredInv'
  BY <1>3 DEF Login!CheckEmail, Login!Mint
<1>4. ASSUME NEW f \in Login!Flow, Login!StoreToken(f) PROVE StoredInv'
  BY <1>4 DEF Login!StoreToken, CallbackInv
<1>5. ASSUME NEW t \in Tab, Login!Click(t) PROVE StoredInv'
  BY <1>5 DEF Login!Click, Login!Flow, FreshInv
<1>8. ASSUME NEW f \in Login!Flow, Login!Revisit(f) PROVE StoredInv'
  BY <1>8 DEF Login!Revisit, Login!Flow, FreshInv
<1>6. ASSUME NEW t \in Tab, Login!Reload(t) \/ Login!Me(t) \/ Login!ApiRefused(t) \/ Login!Logout(t)
      PROVE  StoredInv'
  BY <1>6 DEF Login!Reload, Login!Me, Login!ApiRefused, Login!Logout
<1>7. CASE Login!Tick \/ Login!Revoke \/ UNCHANGED Login!vars
  BY <1>7 DEF Login!Tick, Login!Revoke, Login!vars
<1> QED BY <1>1, <1>2, <1>3, <1>4, <1>5, <1>6, <1>7, <1>8 DEF Login!Next

(* StoreToken keeps what is stored or replaces it; nothing empties it.     *)
LEMMA StoreSteps ==
  ASSUME Login!TypeOK, [Login!Next]_Login!vars
  PROVE  \/ UNCHANGED stored
         \/ \E f \in Login!Flow : /\ stage[f] = "store" /\ refresh[f] /\ stored' = f
                                  /\ stored' # Login!None /\ UNCHANGED dead
<1>1. ASSUME NEW f \in Login!Flow, Login!StoreToken(f)
      PROVE  UNCHANGED stored \/ (/\ stage[f] = "store" /\ refresh[f] /\ stored' = f
                                 /\ stored' # Login!None /\ UNCHANGED dead)
  <2>1. f # Login!None BY LoginConstants DEF Login!SessionConstants, Login!Flow, Login!None
  <2> QED BY <1>1, <2>1 DEF Login!StoreToken, Login!google
<1> QED
  BY <1>1 DEF Login!Next, Login!Revisit, Login!Consent, Login!Resend, Login!ExchangeCode,
              Login!CheckEmail, Login!Mint, Login!Return, Login!Click, Login!Reload, Login!Me,
              Login!ApiRefused, Login!Logout, Login!Tick, Login!Revoke, Login!vars

(* A refresh token on its way to a session has been stored.                *)
LEMMA StoreStep ==
  Login!TypeOK /\ FreshInv /\ StoreInv /\ [Login!Next]_Login!vars => StoreInv'
<1> SUFFICES ASSUME Login!TypeOK, FreshInv, StoreInv, [Login!Next]_Login!vars,
                    NEW f \in Login!Flow, stage'[f] = "mint", refresh'[f]
             PROVE  stored' # Login!None
  BY DEF StoreInv
<1> USE LoginConstants
    DEF Login!SessionConstants, Login!TypeOK, Login!Goto, Login!Mishap, Login!flowData,
        Login!google, Login!browser
<1>1. stored # Login!None => stored' # Login!None
  BY StoreSteps
<1>2. CASE stage[f] = "mint" /\ refresh[f]
  BY <1>1, <1>2 DEF StoreInv
<1>3. CASE \E g \in Login!Flow : Login!StoreToken(g) /\ g = f
  BY <1>3 DEF Login!StoreToken, Login!None, Login!Flow
<1>4. ASSUME ~(stage[f] = "mint" /\ refresh[f]), \A g \in Login!Flow : Login!StoreToken(g) => g # f
      PROVE  FALSE
  <2>1. ASSUME NEW g \in Login!Flow, Login!StoreToken(g) \/ Login!Mint(g) \/ Login!CheckEmail(g)
        PROVE  FALSE
    BY <1>4, <2>1 DEF Login!StoreToken, Login!Mint, Login!CheckEmail
  <2>2. ASSUME NEW g \in Login!Flow, Login!ExchangeCode(g) PROVE FALSE
    BY <1>4, <2>2 DEF Login!ExchangeCode, Login!Exchanged
  <2>3. ASSUME NEW g \in Login!Flow, Login!Consent(g) \/ Login!Resend(g) \/ Login!Return(g)
                                        \/ Login!Revisit(g)
        PROVE  FALSE
    BY <1>4, <2>3 DEF Login!Consent, Login!Resend, Login!Return, Login!Revisit
  <2>4. ASSUME NEW t \in Tab, \/ Login!Click(t) \/ Login!Reload(t) \/ Login!Me(t)
                             \/ Login!ApiRefused(t) \/ Login!Logout(t)
        PROVE  FALSE
    BY <1>4, <2>4 DEF Login!Click, Login!Reload, Login!Me, Login!ApiRefused, Login!Logout
  <2>5. ~(Login!Tick \/ Login!Revoke \/ UNCHANGED Login!vars)
    BY <1>4 DEF Login!Tick, Login!Revoke, Login!vars
  <2> QED BY <2>1, <2>2, <2>3, <2>4, <2>5 DEF Login!Next
<1> QED BY <1>2, <1>3, <1>4

(* While nothing is stored, the flow that was given the refresh token of   *)
(* the operator's grant stays without a session.                           *)
LEMMA GrantStep ==
  /\ Login!TypeOK /\ FreshInv /\ MintedInv /\ StoreInv /\ GrantInv
  /\ [Login!Next]_Login!vars
  => GrantInv'
<1> DEFINE Lost(f) == /\ account[f] = "operator" /\ refresh[f] /\ minted[f] = Login!Never
                      /\ used[f] /\ stage[f] \notin {"none", "google"}
<1> SUFFICES ASSUME Login!TypeOK, FreshInv, MintedInv, StoreInv, GrantInv, [Login!Next]_Login!vars,
                    "operator" \in granted', stored' = Login!None
             PROVE  \E f \in Login!Flow : Lost(f)'
  BY DEF GrantInv
<1> USE LoginConstants
    DEF Login!SessionConstants, Login!TypeOK, Login!Goto, Login!Mishap, Login!flowData,
        Login!google, Login!browser
<1>1. stored = Login!None
  BY StoreSteps
<1>2. CASE "operator" \notin granted
  <2>1. PICK f \in Login!Flow : Login!ExchangeCode(f) /\ Login!Exchanged(f)
    BY <1>2 DEF Login!Next, Login!Revisit, Login!Consent, Login!Resend, Login!ExchangeCode,
                Login!CheckEmail, Login!StoreToken, Login!Mint, Login!Return, Login!Click,
                Login!Reload, Login!Me, Login!ApiRefused, Login!Logout, Login!Tick, Login!Revoke,
                Login!vars
  <2>2. account[f] = "operator" /\ ~used[f] /\ used'[f] /\ refresh'[f]
    BY <1>2, <2>1 DEF Login!Exchanged
  <2>3. minted[f] = Login!Never /\ stage'[f] \in {"check", "error"}
    BY <2>1, <2>2 DEF MintedInv, Login!ExchangeCode
  <2> QED BY <2>1, <2>2, <2>3 DEF Login!ExchangeCode
<1>3. CASE "operator" \in granted
  <2>0. PICK f \in Login!Flow : Lost(f)
    BY <1>1, <1>3 DEF GrantInv
  <2>1. f <= flows BY <2>0 DEF FreshInv, Login!Flow
  <2>2. ASSUME NEW g \in Login!Flow, Login!Mint(g) PROVE Lost(f)'
    <3>1. g # f BY <1>1, <2>0, <2>2 DEF StoreInv, Login!Mint
    <3> QED BY <2>0, <2>2, <3>1 DEF Login!Mint
  <2>3. ASSUME NEW g \in Login!Flow, Login!ExchangeCode(g) PROVE Lost(f)'
    BY <2>0, <2>3 DEF Login!ExchangeCode, Login!Exchanged
  <2>4. ASSUME NEW g \in Login!Flow, Login!CheckEmail(g) \/ Login!StoreToken(g) \/ Login!Consent(g)
                                        \/ Login!Resend(g) \/ Login!Return(g)
        PROVE  Lost(f)'
    BY <2>0, <2>4 DEF Login!CheckEmail, Login!StoreToken, Login!Consent, Login!Resend, Login!Return
  <2>5. ASSUME NEW g \in Login!Flow, Login!Revisit(g) PROVE Lost(f)'
    BY <2>0, <2>1, <2>5 DEF Login!Revisit, Login!Flow
  <2>6. ASSUME NEW t \in Tab, Login!Click(t) PROVE Lost(f)'
    BY <2>0, <2>1, <2>6 DEF Login!Click, Login!Flow
  <2>7. ASSUME NEW t \in Tab, Login!Reload(t) \/ Login!Me(t) \/ Login!ApiRefused(t) \/ Login!Logout(t)
        PROVE  Lost(f)'
    BY <2>0, <2>7 DEF Login!Reload, Login!Me, Login!ApiRefused, Login!Logout
  <2>8. CASE Login!Tick \/ Login!Revoke \/ UNCHANGED Login!vars
    BY <2>0, <2>8 DEF Login!Tick, Login!Revoke, Login!vars
  <2> HIDE DEF Lost
  <2> QED BY <2>2, <2>3, <2>4, <2>5, <2>6, <2>7, <2>8 DEF Login!Next
<1> QED BY <1>2, <1>3

(* What a reconnect stores is good until tokens die, and those that die    *)
(* are of callbacks that are over.                                         *)
LEMMA RepairStep ==
  /\ Login!TypeOK /\ FreshInv /\ CallbackInv /\ MintedInv /\ RepairInv
  /\ [Login!Next]_Login!vars
  => RepairInv'
<1> SUFFICES ASSUME Login!TypeOK, FreshInv, CallbackInv, MintedInv, RepairInv,
                    [Login!Next]_Login!vars
             PROVE  RepairInv'
  OBVIOUS
<1> USE LoginConstants
    DEF Login!SessionConstants, Login!TypeOK, Login!Goto, Login!Mishap, Login!flowData,
        Login!google, Login!browser, RepairInv, Login!ReconnectRepairs
<1>1. ASSUME NEW f \in Login!Flow, Login!Consent(f) \/ Login!Resend(f) \/ Login!Return(f)
      PROVE  RepairInv'
  BY <1>1 DEF Login!Consent, Login!Resend, Login!Return, Login!Returned
<1>2. ASSUME NEW f \in Login!Flow, Login!ExchangeCode(f) PROVE RepairInv'
  <2>1. /\ UNCHANGED <<prompt, minted, stored, dead>>
        /\ stage' = [stage EXCEPT ![f] = "check"] \/ stage' = [stage EXCEPT ![f] = "error"]
    BY <1>2 DEF Login!ExchangeCode
  <2>2. CASE Login!Exchanged(f)
    <3>1. /\ ~used[f] /\ \A g \in Login!Flow : used[g] => used'[g]
          /\ \A g \in Login!Flow : g # f => refresh'[g] = refresh[g]
          /\ prompt[f] = "consent" => refresh'[f]
      BY <2>2 DEF Login!Exchanged
    <3>2. f \notin dead BY <3>1
    <3> QED BY <2>1, <3>1, <3>2
  <2>3. CASE ~Login!Exchanged(f)
    <3>1. UNCHANGED <<used, refresh>> /\ stage' = [stage EXCEPT ![f] = "error"]
      BY <1>2, <2>3 DEF Login!ExchangeCode
    <3> QED BY <2>1, <3>1
  <2> QED BY <2>2, <2>3
<1>3. ASSUME NEW f \in Login!Flow, Login!CheckEmail(f) PROVE RepairInv'
  BY <1>3 DEF Login!CheckEmail
<1>4. ASSUME NEW f \in Login!Flow, Login!StoreToken(f) PROVE RepairInv'
  <2>1. f # Login!None /\ f \notin dead
    BY <1>4 DEF Login!StoreToken, Login!Flow, Login!None
  <2> QED BY <1>4, <2>1 DEF Login!StoreToken
<1>5. ASSUME NEW f \in Login!Flow, Login!Mint(f) PROVE RepairInv'
  BY <1>5 DEF Login!Mint, Login!Never
<1>6. ASSUME NEW t \in Tab, Login!Click(t) PROVE RepairInv'
  BY <1>6 DEF Login!Click, Login!Flow, FreshInv
<1>7. ASSUME NEW f \in Login!Flow, Login!Revisit(f) PROVE RepairInv'
  BY <1>7 DEF Login!Revisit, Login!Flow, FreshInv
<1>8. ASSUME NEW t \in Tab, Login!Reload(t) \/ Login!Me(t) \/ Login!ApiRefused(t) \/ Login!Logout(t)
      PROVE  RepairInv'
  BY <1>8 DEF Login!Reload, Login!Me, Login!ApiRefused, Login!Logout
<1>9. CASE Login!Revoke
  BY <1>9 DEF Login!Revoke, Login!NoCallback, MintedInv
<1>10. CASE Login!Tick \/ UNCHANGED Login!vars BY <1>10 DEF Login!Tick, Login!vars
<1> QED
  BY <1>1, <1>2, <1>3, <1>4, <1>5, <1>6, <1>7, <1>8, <1>9, <1>10 DEF Login!Next

LEMMA SessionInvStep ==
  SessionInv /\ [Login!Next]_Login!vars => SessionInv'
  BY SessionTypes, FreshStep, CallbackStep, MintedStep, TokenStep, StoredStep, StoreStep,
     GrantStep, RepairStep
  DEF SessionInv

(* The inductive invariant of logging in, for any number of flows.         *)
THEOREM SessionInvariant ==
  LoginSpec => []SessionInv
<1>1. Login!Init => SessionInv
  BY SessionInvInit
<1>2. SessionInv /\ [Login!Next]_Login!vars => SessionInv'
  BY SessionInvStep
<1> QED BY <1>1, <1>2, PTL DEF LoginSpec, Login!Spec

(* A request that require_operator lets through goes back to a click of    *)
(* the operator within the two lifetimes, whatever is sent again and       *)
(* however often a state is used.                                          *)
THEOREM SessionAccessIsRecent ==
  LoginSpec => []AccessIsRecent
<1>1. SessionInv => AccessIsRecent
  BY LoginConstants
  DEF Login!SessionConstants, SessionInv, AccessIsRecent, Login!TypeOK, TokenInv,
      MintedInv, Login!AccessIsRecent, Login!RequireOperator, Login!Never, Login!None
<1>2. LoginSpec => []SessionInv
  BY SessionInvariant
<1> QED BY <1>1, <1>2, PTL

(* What the secret store has is the operator's, and the refresh token of   *)
(* the operator's grant is in it unless the flow that was given it has     *)
(* brought no session.                                                     *)
THEOREM SessionRefreshTokenKept ==
  LoginSpec => []RefreshTokenKept
<1>1. SessionInv => RefreshTokenKept
  BY DEF SessionInv, StoredInv, GrantInv, RefreshTokenKept, Login!RefreshTokenKept
<1>2. LoginSpec => []SessionInv
  BY SessionInvariant
<1> QED BY <1>1, <1>2, PTL

(* A reconnect that brings a session leaves a good token in the store.     *)
THEOREM SessionReconnectRepairs ==
  LoginSpec => []ReconnectRepairs
<1>1. SessionInv => ReconnectRepairs
  BY DEF SessionInv, RepairInv, ReconnectRepairs
<1>2. LoginSpec => []SessionInv
  BY SessionInvariant
<1> QED BY <1>1, <1>2, PTL
=============================================================================
