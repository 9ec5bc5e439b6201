-------------------------- MODULE AttachmentsProofs --------------------------
(***************************************************************************)
(* Safety of Attachments for any card, any board and any timeouts: the     *)
(* request ends within its time, and a ready archive is whole.             *)
(***************************************************************************)
EXTENDS Attachments, FiniteSetTheorems, WellFoundedInduction, TLAPS

(* An attachment of a card.                                                *)
Item == [base : Base, kind : Kind]

(* A set of numbers that is not empty has a least one.                     *)
LEMMA LeastNatural ==
  ASSUME NEW T, T \subseteq Nat, T # {} PROVE \E m \in T : \A k \in T : m <= k
<1> DEFINE R == {ss \in Nat \X Nat : ss[1] < ss[2]}
<1>1. IsWellFoundedOn(R, Nat)
  BY NatLessThanWellFounded DEF OpToRel
<1>2. \E x \in T : \A y \in T : ~(<<y, x>> \in R)
  <2> HIDE DEF R
  <2> QED BY WFMin, <1>1
<1>3. PICK x \in T : \A y \in T : ~(<<y, x>> \in R)
  BY <1>2
<1>4. \A y \in T : ~(y < x)
  BY <1>3
<1> QED BY <1>4
-----------------------------------------------------------------------------
(* The photographs among the first attachments, by their places.           *)
PhotosIn(c, n) == {i \in 1..n : IsPhoto(c[i])}

(* What Photos computes, as a property of a function.                      *)
Collects(c, n, f) ==
  f = [k \in 0..n |-> IF k = 0 THEN <<>>
                      ELSE IF IsPhoto(c[k]) THEN Append(f[k - 1], c[k]) ELSE f[k - 1]]

(* The recursion of Photos is defined: a least place without a function    *)
(* would have one before it, and that one extends.                         *)
LEMMA CollectsExists ==
  ASSUME NEW c, Len(c) \in Nat PROVE \E f : Collects(c, Len(c), f)
<1> DEFINE T == {n \in 0..Len(c) : ~\E f : Collects(c, n, f)}
<1>1. T = {}
  <2> SUFFICES ASSUME T # {} PROVE FALSE
    OBVIOUS
  <2>1. PICK m \in T : \A k \in T : m <= k
    <3>1. T \subseteq Nat
      OBVIOUS
    <3> HIDE DEF T
    <3> QED BY <3>1, LeastNatural
  <2>2. m # 0
    <3>1. Collects(c, 0, [k \in 0..0 |-> <<>>])
      BY DEF Collects
    <3> QED BY <3>1
  <2>3. m - 1 \in 0..Len(c) /\ m - 1 \notin T
    BY <2>1, <2>2
  <2>4. PICK f : Collects(c, m - 1, f)
    BY <2>3
  <2> DEFINE g == [k \in 0..m |->
                     IF k < m THEN f[k]
                     ELSE IF IsPhoto(c[m]) THEN Append(f[m - 1], c[m]) ELSE f[m - 1]]
  <2>5. Collects(c, m, g)
    <3> SUFFICES ASSUME NEW k \in 0..m
                 PROVE  g[k] = IF k = 0 THEN <<>>
                               ELSE IF IsPhoto(c[k]) THEN Append(g[k - 1], c[k]) ELSE g[k - 1]
      BY Zenon DEF Collects, g
    <3>1. CASE k = m
      <4>1. g[m] = IF IsPhoto(c[m]) THEN Append(f[m - 1], c[m]) ELSE f[m - 1]
        OBVIOUS
      <4>2. g[m - 1] = f[m - 1]
        BY <2>2
      <4> QED BY <3>1, <2>2, <4>1, <4>2
    <3>2. CASE k # m
      <4>1. k \in 0..(m - 1)
        BY <3>2
      <4>2. f[k] = IF k = 0 THEN <<>>
                   ELSE IF IsPhoto(c[k]) THEN Append(f[k - 1], c[k]) ELSE f[k - 1]
        BY <2>4, <4>1 DEF Collects
      <4>3. g[k] = f[k] /\ (k # 0 => g[k - 1] = f[k - 1])
        BY <4>1
      <4> QED BY <4>2, <4>3
    <3> QED BY <3>1, <3>2
  <2> QED BY <2>5
<1> QED BY <1>1

(* Photos returns the uploads of the card: as many as it has, and nothing  *)
(* else.                                                                   *)
LEMMA PhotosCount ==
  ASSUME NEW c \in Seq(Item)
  PROVE  /\ Photos(c) \in Seq(Item)
         /\ Len(Photos(c)) = Cardinality({i \in DOMAIN c : c[i].kind = "upload"})
         /\ \A n \in 1..Len(Photos(c)) : IsPhoto(Photos(c)[n])
<1> DEFINE f == CHOOSE f : Collects(c, Len(c), f)
           Right(n) == /\ f[n] \in Seq(Item)
                       /\ Len(f[n]) = Cardinality(PhotosIn(c, n))
                       /\ \A k \in 1..Len(f[n]) : IsPhoto(f[n][k])
           T == {n \in 0..Len(c) : ~Right(n)}
<1>0. Len(c) \in Nat /\ \A i \in 1..Len(c) : c[i] \in Item
  OBVIOUS
<1>1. Collects(c, Len(c), f)
  BY <1>0, CollectsExists
<1>2. Photos(c) = f[Len(c)]
  BY DEF Photos, Collects
<1>3. \A k \in 0..Len(c) : f[k] = IF k = 0 THEN <<>>
                                  ELSE IF IsPhoto(c[k]) THEN Append(f[k - 1], c[k]) ELSE f[k - 1]
  <2> HIDE DEF f
  <2> QED BY <1>1 DEF Collects
<1> HIDE DEF f
<1>4. \A n \in 0..Len(c) : IsFiniteSet(PhotosIn(c, n)) /\ Cardinality(PhotosIn(c, n)) \in Nat
  <2> SUFFICES ASSUME NEW n \in 0..Len(c)
               PROVE  IsFiniteSet(PhotosIn(c, n)) /\ Cardinality(PhotosIn(c, n)) \in Nat
    OBVIOUS
  <2>1. IsFiniteSet(1..n) /\ PhotosIn(c, n) \subseteq 1..n
    BY <1>0, FS_Interval DEF PhotosIn
  <2> QED BY <2>1, FS_Subset, FS_CardinalityType
<1>5. T = {}
  <2> SUFFICES ASSUME T # {} PROVE FALSE
    OBVIOUS
  <2>1. PICK m \in T : \A k \in T : m <= k
    <3>1. T \subseteq Nat
      OBVIOUS
    <3> HIDE DEF T
    <3> QED BY <3>1, LeastNatural
  <2>2. m # 0
    <3>1. f[0] = <<>> /\ PhotosIn(c, 0) = {}
      BY <1>0, <1>3 DEF PhotosIn
    <3>2. Cardinality(PhotosIn(c, 0)) = 0
      BY <3>1, FS_EmptySet
    <3>3. f[0] \in Seq(Item) /\ Len(f[0]) = 0
      BY <3>1
    <3>4. Right(0)
      BY <3>2, <3>3
    <3> QED BY <2>1, <3>4
  <2>3. m \in 1..Len(c) /\ m - 1 \in 0..Len(c) /\ Right(m - 1)
    BY <1>0, <2>1, <2>2
  <2>4. CASE IsPhoto(c[m])
    <3>1. f[m] = Append(f[m - 1], c[m])
      <4>1. m \in 0..Len(c) /\ m # 0
        BY <1>0, <2>3
      <4> HIDE DEF T, Right
      <4> QED BY <1>3, <2>4, <4>1
    <3>2. PhotosIn(c, m) = PhotosIn(c, m - 1) \union {m} /\ m \notin PhotosIn(c, m - 1)
      BY <1>0, <2>3, <2>4 DEF PhotosIn
    <3>3. Cardinality(PhotosIn(c, m)) = Cardinality(PhotosIn(c, m - 1)) + 1
      BY <1>4, <2>3, <3>2, FS_AddElement
    <3>4. /\ f[m - 1] \in Seq(Item) /\ c[m] \in Item
          /\ \A k \in 1..Len(f[m - 1]) : IsPhoto(f[m - 1][k])
      BY <1>0, <2>3
    <3>5. f[m] \in Seq(Item) /\ Len(f[m]) = Len(f[m - 1]) + 1
      BY <3>1, <3>4
    <3>6. \A k \in 1..Len(f[m]) : f[m][k] = IF k = Len(f[m]) THEN c[m] ELSE f[m - 1][k]
      BY <3>1, <3>4
    <3>7. \A k \in 1..Len(f[m]) : IsPhoto(f[m][k])
      <4> TAKE k \in 1..Len(f[m])
      <4>1. CASE k = Len(f[m])
        BY <2>4, <3>6, <4>1
      <4>2. CASE k # Len(f[m])
        <5>1. k \in 1..Len(f[m - 1])
          BY <3>4, <3>5, <4>2
        <5> QED BY <3>4, <3>6, <4>2, <5>1
      <4> QED BY <4>1, <4>2
    <3>8. Right(m)
      BY <2>3, <3>3, <3>5, <3>7
    <3> QED BY <2>1, <3>8
  <2>5. CASE ~IsPhoto(c[m])
    <3>1. f[m] = f[m - 1]
      BY <1>3, <2>3, <2>5
    <3>2. PhotosIn(c, m) = PhotosIn(c, m - 1)
      BY <1>0, <2>3, <2>5 DEF PhotosIn
    <3>3. Right(m)
      BY <2>3, <3>1, <3>2
    <3> QED BY <2>1, <3>3
  <2> QED BY <2>4, <2>5
<1>6. Right(Len(c))
  BY <1>0, <1>5
<1>7. PhotosIn(c, Len(c)) = {i \in DOMAIN c : c[i].kind = "upload"}
  BY <1>0 DEF PhotosIn, IsPhoto
<1> QED BY <1>2, <1>6, <1>7
-----------------------------------------------------------------------------
(* The state of a download.                                                *)
AttachmentTypes ==
  /\ card \in Seq(Item) /\ files \in Seq(Item)
  /\ found \in BOOLEAN
  /\ pc \in Running \union Answer \union {"idle"}
  /\ searched \in 0..Lists /\ attempt \in 0..Retries
  /\ elapsed \in Nat
  /\ download \in {"idle", "busy", "done", "error"}

(* The calls that are over when one of the search is under way.            *)
Before ==
  CASE pc = "preflight" -> 0
    [] pc = "lists" -> 1
    [] pc = "cards" -> 2 + searched
    [] pc = "closed" -> 2 + Lists
    [] pc = "attachments" -> 3 + Lists
    [] OTHER -> 0

(* What the repeated attempts of the call under way have taken.            *)
Repeated(time) == attempt * (time + Backoff)

(* A call of the search comes after so many others, each with all its      *)
(* attempts; a file is begun before the deadline.                          *)
TimeInv ==
  /\ pc \in {"idle", "config"} => elapsed = 0
  /\ pc \notin Listing \union {"file"} => attempt = 0
  /\ pc \in {"idle", "config", "preflight", "lists"} => searched = 0
  /\ pc = "cards" => searched < Lists
  /\ pc \in Listing => elapsed <= Before * PerCall(CallTime) + Repeated(CallTime)
  /\ pc = "file" => elapsed <= Deadline + Repeated(FileTime)
  /\ EndsInTime

(* The archive grows along the photographs of the card, entry by entry.    *)
ZipInv ==
  /\ pc \in Listing \union {"idle", "config"} => files = <<>> /\ zip = <<>>
  /\ pc \in {"next", "file", "200"} => files = Photos(card)
  /\ zip \in Seq({EntryName(files, i) : i \in 1..Len(files)})
  /\ Len(zip) <= Len(files)
  /\ \A i \in 1..Len(zip) : zip[i] = EntryName(files, i)
  /\ pc = "file" => Len(zip) < Len(files)
  /\ pc = "200" => Len(zip) = Len(files)
  /\ download = "done" => pc = "200"

(* The inductive invariant of a download.                                  *)
AttachmentInv == AttachmentTypes /\ TimeInv /\ ZipInv

LEMMA AttachmentInvInit == Init => AttachmentInv
<1> SUFFICES ASSUME Init PROVE AttachmentInv
  OBVIOUS
<1>1. card \in Seq(Item)
  <2>1. PICK n \in 0..MaxFiles : card \in [1..n -> Item]
    BY DEF Init, Item
  <2>2. n \in Nat
    BY AttachmentConstants
  <2> QED BY <2>1, <2>2
<1>2. Retries \in Nat /\ Lists \in Nat /\ CallTime \in Nat /\ Deadline \in Nat /\ Backoff \in Nat
  BY AttachmentConstants
<1>3. AttachmentTypes
  BY <1>1, <1>2 DEF Init, AttachmentTypes, Running, Listing, Answer
<1>4. PerCall(CallTime) \in Nat
  BY <1>2 DEF PerCall
<1>5. (Lists + 4) * PerCall(CallTime) >= 0
  BY <1>2, <1>4
<1>6. TimeInv
  BY <1>2, <1>5 DEF Init, TimeInv, EndsInTime, FileStarted, Listing
<1>7. ZipInv
  BY DEF Init, ZipInv, Listing
<1> QED BY <1>3, <1>6, <1>7 DEF AttachmentInv
-----------------------------------------------------------------------------
(* The time of one call: repeating it costs its back-off, and its last     *)
(* attempt still fits.                                                     *)
LEMMA CallBudget ==
  ASSUME NEW time \in Nat \ {0}, NEW a \in 0..Retries
  PROVE  /\ PerCall(time) \in Nat
         /\ a * (time + Backoff) \in Nat
         /\ a * (time + Backoff) + time <= PerCall(time)
         /\ (a + 1) * (time + Backoff) = a * (time + Backoff) + time + Backoff
<1>1. Retries \in Nat /\ Backoff \in Nat /\ a \in Nat /\ Retries - a \in Nat
  BY AttachmentConstants
<1>2. PerCall(time) \in Nat /\ a * (time + Backoff) \in Nat
  BY <1>1 DEF PerCall
<1>3. PerCall(time) = Retries * (time + Backoff) + time
  BY <1>1 DEF PerCall
<1>4. Retries * (time + Backoff) = a * (time + Backoff) + (Retries - a) * (time + Backoff)
  BY <1>1
<1>5. (Retries - a) * (time + Backoff) >= 0
  BY <1>1
<1>6. Retries * (time + Backoff) \in Int /\ (Retries - a) * (time + Backoff) \in Int
  BY <1>1
<1>7. (a + 1) * (time + Backoff) = a * (time + Backoff) + time + Backoff
  BY <1>1
<1> QED BY <1>1, <1>2, <1>3, <1>4, <1>5, <1>6, <1>7

(* Fewer calls take less time, and one call more takes its own time more.  *)
LEMMA CallsAdd ==
  ASSUME NEW a \in Nat, NEW b \in Nat, a <= b, NEW p \in Nat
  PROVE  a * p \in Nat /\ b * p \in Nat /\ a * p <= b * p /\ (a + 1) * p = a * p + p
<1>1. b - a \in Nat /\ b * p = a * p + (b - a) * p
  OBVIOUS
<1>2. (b - a) * p >= 0 /\ a * p \in Nat /\ b * p \in Nat /\ (b - a) * p \in Int
  BY <1>1
<1>3. (a + 1) * p = a * p + p
  OBVIOUS
<1> QED BY <1>1, <1>2, <1>3

(* The search has four calls besides those of the lists.                   *)
LEMMA SearchBudget ==
  ASSUME AttachmentTypes, TimeInv, pc \in Listing
  PROVE  /\ Before \in Nat /\ Before <= Lists + 3
         /\ elapsed + CallTime <= (Before + 1) * PerCall(CallTime)
         /\ (Before + 1) * PerCall(CallTime) <= (Lists + 4) * PerCall(CallTime)
<1>0. Lists \in Nat /\ CallTime \in Nat \ {0} /\ searched \in Nat /\ searched <= Lists
      /\ elapsed \in Nat
  BY AttachmentConstants DEF AttachmentTypes
<1>1. Before \in Nat /\ Before <= Lists + 3
  BY <1>0 DEF TimeInv, Before, Listing
<1>2. /\ PerCall(CallTime) \in Nat /\ Repeated(CallTime) \in Nat
      /\ Repeated(CallTime) + CallTime <= PerCall(CallTime)
  BY <1>0, CallBudget DEF Repeated, AttachmentTypes
<1>3. elapsed <= Before * PerCall(CallTime) + Repeated(CallTime)
  BY DEF TimeInv
<1>4. /\ Before * PerCall(CallTime) \in Nat
      /\ (Before + 1) * PerCall(CallTime) = Before * PerCall(CallTime) + PerCall(CallTime)
  BY <1>1, <1>2, CallsAdd
<1>5. (Before + 1) * PerCall(CallTime) <= (Lists + 4) * PerCall(CallTime)
  <2>1. Before + 1 \in Nat /\ Lists + 4 \in Nat /\ Before + 1 <= Lists + 4
    BY <1>0, <1>1
  <2> QED BY <1>2, <2>1, CallsAdd
<1> HIDE DEF Before
<1> QED BY <1>0, <1>1, <1>2, <1>3, <1>4, <1>5

(* Every step keeps the types; the photographs are attachments.            *)
LEMMA AttachmentTypesStep == AttachmentTypes /\ TimeInv /\ [Next]_vars => AttachmentTypes'
<1> SUFFICES ASSUME AttachmentTypes, TimeInv, [Next]_vars PROVE AttachmentTypes'
  OBVIOUS
<1>0. /\ Retries \in Nat /\ Lists \in Nat /\ Backoff \in Nat
      /\ CallTime \in Nat /\ FileTime \in Nat
  BY AttachmentConstants
<1> USE DEF AttachmentTypes, Running, Listing, Answer
<1>1. ASSUME NEW time \in Nat, Ends(time) PROVE attempt' \in 0..Retries /\ elapsed' \in Nat
  BY <1>0, <1>1 DEF Ends
<1>2. CASE Start \/ ReadConfig \/ NextFile \/ Answered \/ CutOff
  BY <1>2 DEF Start, ReadConfig, NextFile, Answered, CutOff
<1>3. ASSUME NEW time \in Nat, TooMany(time) PROVE AttachmentTypes'
  BY <1>0, <1>3 DEF TooMany, Again
<1>4. ASSUME NEW time \in Nat, CallFails(time) PROVE AttachmentTypes'
  BY <1>1, <1>4 DEF CallFails
<1>5. CASE Preflight
  BY <1>0, <1>1, <1>5 DEF Preflight
<1>6. CASE GetLists \/ SearchArchive
  BY <1>0, <1>1, <1>6 DEF GetLists, SearchArchive
<1>7. CASE SearchList
  BY <1>0, <1>1, <1>7 DEF SearchList, TimeInv
<1>8. CASE ListAttachments
  BY <1>0, <1>1, <1>8, PhotosCount DEF ListAttachments
<1>9. CASE Download
  BY <1>0, <1>1, <1>9 DEF Download
<1>10. CASE UNCHANGED vars
  BY <1>10 DEF vars
<1> QED
  BY <1>0, <1>2, <1>3, <1>4, <1>5, <1>6, <1>7, <1>8, <1>9, <1>10 DEF Next, FileFails

(* The time of a step: an attempt that is repeated adds to the call, one   *)
(* that ends it leaves a whole call behind.                                *)
LEMMA TimeStep == AttachmentTypes /\ TimeInv /\ ZipInv /\ [Next]_vars => TimeInv'
<1> SUFFICES ASSUME AttachmentTypes, TimeInv, ZipInv, [Next]_vars PROVE TimeInv'
  OBVIOUS
<1> DEFINE P == PerCall(CallTime)
           F == PerCall(FileTime)
<1>0. /\ Retries \in Nat /\ Lists \in Nat /\ Backoff \in Nat /\ Deadline \in Nat
      /\ CallTime \in Nat \ {0} /\ FileTime \in Nat \ {0}
      /\ searched \in Nat /\ searched <= Lists /\ attempt \in 0..Retries /\ elapsed \in Nat
      /\ pc \in Listing \union {"config", "next", "file", "idle"} \union Answer
  BY AttachmentConstants DEF AttachmentTypes, Running
<1>1. P \in Nat /\ F \in Nat /\ (Lists + 4) * P \in Nat
  <2>1. P \in Nat /\ F \in Nat
    BY <1>0, CallBudget
  <2> QED BY <1>0, <2>1, CallsAdd
<1>2. EndsInTime' <=> /\ FileStarted' => elapsed' <= Deadline + F
                      /\ ~FileStarted' => elapsed' <= (Lists + 4) * P
  BY DEF EndsInTime
<1>3. EndsInTime
  BY DEF TimeInv
<1>4. ASSUME NEW time \in Nat \ {0}, Ends(time)
      PROVE  attempt' = 0 /\ elapsed' \in Nat /\ elapsed' <= elapsed + time
  BY <1>0, <1>4 DEF Ends
<1>5. ASSUME pc \in Listing
      PROVE  /\ Before \in Nat /\ elapsed + CallTime <= (Before + 1) * P
             /\ (Before + 1) * P <= (Lists + 4) * P /\ (Before + 1) * P \in Nat
  <2>1. Before \in Nat /\ (Before + 1) * P \in Nat
    BY <1>1, <1>5, SearchBudget, CallsAdd
  <2> QED BY <1>5, <2>1, SearchBudget
<1>6. Repeated(CallTime)' = attempt' * (CallTime + Backoff)
      /\ Repeated(FileTime)' = attempt' * (FileTime + Backoff)
  BY DEF Repeated
<1> HIDE DEF P, F
<1>7. CASE Start \/ ReadConfig \/ Answered \/ CutOff
  <2>1. pc = "config" /\ pc' = "preflight" => 0 * P + 0 >= 0 /\ Before' = 0
    BY <1>1 DEF Before
  <2>2. UNCHANGED <<elapsed, attempt, searched>> /\ EndsInTime'
    <3>1. FileStarted' = FileStarted /\ UNCHANGED <<elapsed, attempt, searched>>
      BY <1>7 DEF Start, ReadConfig, Answered, CutOff, FileStarted
    <3> QED BY <1>2, <1>3, <3>1 DEF EndsInTime
  <2>3. CASE ReadConfig
    <3>1. elapsed = 0 /\ attempt = 0 /\ searched = 0
      BY <2>3 DEF ReadConfig, TimeInv, Listing
    <3>2. pc' = "preflight" => elapsed' <= (Before * PerCall(CallTime) + Repeated(CallTime))'
      <4>1. 0 * P = 0 /\ 0 * (CallTime + Backoff) = 0
        BY <1>0, <1>1
      <4>2. pc' = "preflight" => (Before * PerCall(CallTime) + Repeated(CallTime))' = 0 * P + 0 * (CallTime + Backoff)
        BY <1>6, <2>1, <2>2, <2>3, <3>1 DEF ReadConfig, P
      <4> QED BY <2>2, <3>1, <4>1, <4>2
    <3> QED BY <2>2, <2>3, <3>1, <3>2 DEF ReadConfig, TimeInv, Listing
  <2>4. CASE Start
    BY <2>2, <2>4 DEF Start, TimeInv, Listing
  <2>5. CASE Answered \/ CutOff
    BY <2>2, <2>5 DEF Answered, CutOff, TimeInv, Listing, Before, Repeated
  <2> QED BY <1>7, <2>3, <2>4, <2>5
<1>l. pc \in Listing => files = <<>> /\ zip = <<>> /\ ~FileStarted
  BY DEF ZipInv, FileStarted, Listing
<1>8. ASSUME pc \in Listing, Ends(CallTime), zip' = zip, pc' # "file",
             files' = files \/ pc' # "502"
      PROVE  /\ EndsInTime'
             /\ Before' \in Nat /\ Before' > Before =>
                  elapsed' <= (Before * PerCall(CallTime) + Repeated(CallTime))'
  <2>1. elapsed' \in Nat /\ elapsed' <= (Before + 1) * P /\ attempt' = 0
    BY <1>0, <1>4, <1>5, <1>8
  <2>2. EndsInTime'
    <3>1. ~FileStarted' BY <1>8, <1>l DEF FileStarted
    <3> QED BY <1>1, <1>2, <1>5, <1>8, <2>1, <3>1
  <2>3. ASSUME Before' \in Nat, Before' > Before
        PROVE  elapsed' <= (Before * PerCall(CallTime) + Repeated(CallTime))'
    <3>1. Before + 1 \in Nat /\ Before + 1 <= Before'
      BY <1>5, <1>8, <2>3
    <3>2. (Before + 1) * P <= Before' * P /\ Before' * P \in Nat
      BY <1>1, <2>3, <3>1, CallsAdd
    <3>3. 0 * (CallTime + Backoff) = 0
      BY <1>0
    <3>4. (Before * PerCall(CallTime) + Repeated(CallTime))' = Before' * P
      BY <1>6, <2>1, <3>2, <3>3 DEF P
    <3> QED BY <1>5, <1>8, <2>1, <3>2, <3>4
  <2> QED BY <2>2, <2>3
<1>9. CASE pc \in Listing /\ TooMany(CallTime)
  <2>1. /\ elapsed' \in Nat /\ elapsed' <= elapsed + CallTime + Backoff
        /\ attempt' = attempt + 1 /\ attempt' \in 0..Retries
        /\ UNCHANGED <<pc, searched>>
    BY <1>0, <1>9 DEF TooMany, Again
  <2>2. /\ attempt' * (CallTime + Backoff) = attempt * (CallTime + Backoff) + CallTime + Backoff
        /\ attempt * (CallTime + Backoff) \in Nat
    BY <1>0, <2>1, CallBudget
  <2>3. elapsed <= Before * P + Repeated(CallTime) /\ Before * P \in Nat
    <3>1. Before * P \in Nat
      BY <1>1, <1>5, <1>9, CallsAdd
    <3> QED BY <1>9, <3>1 DEF TimeInv, P
  <2>4. Before' = Before
    BY <2>1 DEF Before
  <2>5. elapsed' <= Before * P + attempt' * (CallTime + Backoff)
    <3> HIDE DEF Before
    <3> QED BY <1>0, <2>1, <2>2, <2>3 DEF Repeated
  <2>6. elapsed' <= (Before * PerCall(CallTime) + Repeated(CallTime))'
    <3> HIDE DEF Before
    <3> QED BY <1>6, <2>4, <2>5 DEF P
  <2>7. attempt' * (CallTime + Backoff) \in Nat /\ attempt' * (CallTime + Backoff) + CallTime <= P
    BY <1>0, <2>1, CallBudget DEF P
  <2>8. (Before + 1) * P = Before * P + P
    BY <1>1, <1>5, <1>9, CallsAdd
  <2>9. EndsInTime'
    <3>1. ~FileStarted' BY <1>9, <1>l DEF TooMany, FileStarted
    <3> HIDE DEF Before
    <3> QED BY <1>0, <1>1, <1>2, <1>5, <1>9, <2>1, <2>3, <2>5, <2>7, <2>8, <3>1
  <2> QED BY <1>9, <2>1, <2>6, <2>9 DEF TimeInv, Listing
<1>10. CASE pc \in Listing /\ CallFails(CallTime)
  <2>1. Ends(CallTime) /\ pc' \in {"502", "500"} /\ UNCHANGED <<files, zip>>
    BY <1>10 DEF CallFails
  <2>2. attempt' = 0 /\ EndsInTime'
    BY <1>0, <1>4, <1>8, <1>10, <2>1
  <2> QED BY <2>1, <2>2 DEF TimeInv, Listing
<1>11. CASE Preflight
  <2>1. CASE Ends(CallTime) /\ pc' \in {"lists", "503"}
    <3>1. /\ searched = 0 /\ searched' = 0 /\ pc \in Listing /\ Before = 0
          /\ UNCHANGED <<files, zip>>
      BY <1>11 DEF Preflight, TimeInv, Before, Listing
    <3>2. pc' = "lists" => Before' = 1
      BY DEF Before
    <3>3. attempt' = 0 /\ EndsInTime'
          /\ (pc' = "lists" => elapsed' <= (Before * PerCall(CallTime) + Repeated(CallTime))')
      <4> HIDE DEF Before
      <4> QED BY <1>0, <1>4, <1>8, <2>1, <3>1, <3>2
    <3> QED BY <2>1, <3>1, <3>3 DEF TimeInv, Listing
  <2>2. CASE attempt = 0 /\ pc' \in {"503", "500"} /\ UNCHANGED <<attempt, elapsed>>
    <3>1. FileStarted' = FileStarted BY <1>11, <2>2 DEF Preflight, FileStarted
    <3> QED BY <1>2, <1>3, <2>2, <3>1 DEF TimeInv, Listing, EndsInTime
  <2> QED BY <1>11, <2>1, <2>2 DEF Preflight
<1>12. CASE GetLists
  <2>1. searched = 0 /\ searched' = 0 /\ pc \in Listing /\ Before = 1 /\ Ends(CallTime)
    BY <1>12 DEF GetLists, TimeInv, Before, Listing
  <2>2. Before' = 2 /\ (pc' = "cards" => Lists > 0)
    BY <1>0, <1>12, <2>1 DEF GetLists, Before
  <2> QED BY <1>0, <1>4, <1>8, <1>12, <2>1, <2>2 DEF GetLists, TimeInv, Listing
<1>13. CASE SearchList
  <2>1. pc \in Listing /\ Before = 2 + searched /\ Ends(CallTime) /\ searched < Lists
        /\ searched' = searched + 1
    BY <1>13 DEF SearchList, TimeInv, Before, Listing
  <2>2. /\ pc' = "attachments" => Before' = 3 + Lists
        /\ pc' = "closed" => Before' = 2 + Lists
        /\ pc' = "cards" => Before' = 3 + searched
    BY <1>0, <2>1 DEF Before
  <2>3. pc' \in {"attachments", "closed", "cards"} /\ (pc' = "cards" => searched' < Lists)
    BY <1>0, <1>13, <2>1 DEF SearchList
  <2>4. Before' \in Nat /\ Before' > Before
    <3> HIDE DEF Before
    <3> QED BY <1>0, <2>1, <2>2, <2>3
  <2> QED BY <1>4, <1>0, <1>8, <1>13, <2>1, <2>3, <2>4 DEF SearchList, TimeInv, Listing
<1>14. CASE SearchArchive
  <2>1. pc \in Listing /\ Before = 2 + Lists /\ Ends(CallTime)
    BY <1>14 DEF SearchArchive, Before, Listing
  <2>2. pc' = "attachments" => Before' = 3 + Lists
    BY DEF Before
  <2> QED BY <1>0, <1>4, <1>8, <1>14, <2>1, <2>2 DEF SearchArchive, TimeInv, Listing
<1>15. CASE ListAttachments
  BY <1>0, <1>4, <1>8, <1>15 DEF ListAttachments, TimeInv, Listing
<1>16. CASE NextFile
  <2>2. pc' = "file" => elapsed <= Deadline
    BY <1>0, <1>16 DEF NextFile, Late
  <2>1. UNCHANGED <<attempt, elapsed>> /\ attempt = 0 /\ EndsInTime'
    <3>1. UNCHANGED <<attempt, elapsed>> /\ attempt = 0
      BY <1>16 DEF NextFile, TimeInv, Listing
    <3>2. pc' # "file" => FileStarted' = FileStarted
      BY <1>16 DEF NextFile, FileStarted
    <3>3. pc' = "file" => FileStarted' BY DEF FileStarted
    <3> QED BY <1>0, <1>1, <1>2, <1>3, <2>2, <3>1, <3>2, <3>3 DEF EndsInTime, P, F
  <2>3. attempt' * (FileTime + Backoff) = 0
    BY <1>0, <2>1
  <2> QED BY <1>0, <1>6, <1>16, <2>1, <2>2, <2>3 DEF NextFile, TimeInv, Listing
<1>17. CASE pc = "file" /\ TooMany(FileTime)
  <2>1. /\ elapsed' \in Nat /\ elapsed' <= elapsed + FileTime + Backoff
        /\ attempt' = attempt + 1 /\ attempt' \in 0..Retries
        /\ UNCHANGED <<pc, searched>>
    BY <1>0, <1>17 DEF TooMany, Again
  <2>2. /\ attempt' * (FileTime + Backoff) = attempt * (FileTime + Backoff) + FileTime + Backoff
        /\ attempt * (FileTime + Backoff) \in Nat /\ attempt' * (FileTime + Backoff) \in Nat
        /\ attempt' * (FileTime + Backoff) + FileTime <= F
    BY <1>0, <2>1, CallBudget DEF F
  <2>3. elapsed <= Deadline + attempt * (FileTime + Backoff)
    BY <1>17 DEF TimeInv, Repeated
  <2>4. elapsed' <= Deadline + attempt' * (FileTime + Backoff)
    BY <1>0, <2>1, <2>2, <2>3
  <2>5. EndsInTime'
    <3>1. FileStarted' BY <1>17, <2>1 DEF FileStarted
    <3> QED BY <1>0, <1>1, <1>2, <2>1, <2>2, <2>4, <3>1
  <2> QED BY <1>6, <1>17, <2>1, <2>4, <2>5 DEF TimeInv, Listing
<1>18. ASSUME pc = "file", Ends(FileTime), pc' \in Answer \union {"next"}, searched' = searched,
              FileStarted'
       PROVE  TimeInv'
  <2>1. elapsed <= Deadline + attempt * (FileTime + Backoff)
    BY <1>18 DEF TimeInv, Repeated
  <2>2. attempt * (FileTime + Backoff) \in Nat /\ attempt * (FileTime + Backoff) + FileTime <= F
    BY <1>0, CallBudget DEF F
  <2>3. elapsed' \in Nat /\ elapsed' <= elapsed + FileTime /\ attempt' = 0
    BY <1>0, <1>4, <1>18
  <2>4. EndsInTime'
    BY <1>0, <1>1, <1>2, <1>18, <2>1, <2>2, <2>3
  <2> QED BY <1>18, <2>3, <2>4 DEF TimeInv, Listing, Answer
<1>19. CASE (pc = "file" /\ FileFails(FileTime)) \/ Download
  <2>1. CASE pc = "file" /\ FileFails(FileTime)
    <3>1. FileStarted'
      BY <2>1 DEF FileFails, CallFails, Listing, FileStarted, ZipInv
    <3> QED BY <1>18, <2>1, <3>1 DEF FileFails, CallFails, Listing, Answer
  <2>2. CASE Download
    <3>1. zip' # <<>>
      BY <2>2 DEF Download, AttachmentTypes, ZipInv
    <3> QED BY <1>18, <2>2, <3>1 DEF Download, FileStarted, Answer
  <2> QED BY <1>19, <2>1, <2>2
<1>20. CASE UNCHANGED vars
  BY <1>20 DEF vars, TimeInv, Before, Repeated, EndsInTime, FileStarted
<1> QED
  BY <1>7, <1>9, <1>10, <1>11, <1>12, <1>13, <1>14, <1>15, <1>16, <1>17, <1>19, <1>20 DEF Next
-----------------------------------------------------------------------------
(* The archive is filled along the list of photographs, which is complete  *)
(* before the first of them is asked for.                                  *)
LEMMA ZipStep == AttachmentTypes /\ ZipInv /\ [Next]_vars => ZipInv'
<1> SUFFICES ASSUME AttachmentTypes, ZipInv, [Next]_vars PROVE ZipInv'
  OBVIOUS
<1> USE DEF ZipInv, Listing, Answer
<1>1. ASSUME UNCHANGED <<files, zip, card>>,
             pc' \in Listing \union {"idle", "config"} => pc \in Listing \union {"idle", "config"},
             pc' \in {"next", "file", "200"} => pc \in {"next", "file", "200"},
             pc' = "file" => Len(zip) < Len(files), pc' = "200" => Len(zip) = Len(files),
             download' = "done" => pc' = "200"
      PROVE  ZipInv'
  BY <1>1 DEF EntryName
<1>2. CASE Start
  BY <1>1, <1>2 DEF Start
<1>3. CASE ReadConfig \/ Preflight \/ GetLists \/ SearchList \/ SearchArchive
  BY <1>1, <1>3 DEF ReadConfig, Preflight, GetLists, SearchList, SearchArchive
<1>4. ASSUME NEW time, TooMany(time) PROVE ZipInv'
  BY <1>1, <1>4 DEF TooMany
<1>5. ASSUME NEW time, CallFails(time), pc \in Listing \union {"file"} PROVE ZipInv'
  BY <1>1, <1>5 DEF CallFails
<1>6. CASE ListAttachments
  <2>1. files = <<>> /\ zip = <<>> /\ download # "done" /\ UNCHANGED <<zip, download, card>>
    BY <1>6 DEF ListAttachments
  <2>2. files' = Photos(card') /\ files' \in Seq(Item) /\ Len(files') \in Nat
    <3>1. files' = Photos(card) /\ card' = card
      BY <1>6 DEF ListAttachments
    <3>2. Photos(card) \in Seq(Item)
      BY PhotosCount DEF AttachmentTypes
    <3> QED BY <3>1, <3>2
  <2>3. Len(zip') = 0 /\ zip' \in Seq({EntryName(files, i) : i \in 1..Len(files)}')
    BY <2>1
  <2> QED BY <1>6, <2>1, <2>2, <2>3 DEF ListAttachments
<1>7. CASE NextFile
  <2>1. Len(zip) \in Nat /\ Len(files) \in Nat
    BY DEF AttachmentTypes
  <2> QED BY <1>1, <1>7, <2>1 DEF NextFile
<1>8. CASE Download
  <2> DEFINE Names == {EntryName(files, i) : i \in 1..Len(files)}
             name == EntryName(files, Len(zip) + 1)
  <2>1. /\ zip \in Seq(Names) /\ Len(zip) \in Nat /\ Len(files) \in Nat
        /\ Len(zip) < Len(files) /\ pc = "file" /\ download # "done"
    BY <1>8 DEF Download, AttachmentTypes
  <2>2. Len(zip) + 1 \in 1..Len(files)
    BY <2>1
  <2>3. name \in Names
    BY <2>2
  <2>4. zip' = Append(zip, name) /\ pc' = "next" /\ UNCHANGED <<card, files, download>>
    BY <1>8 DEF Download
  <2> HIDE DEF name, Names
  <2>5. /\ zip' \in Seq(Names) /\ Len(zip') = Len(zip) + 1
        /\ \A i \in 1..Len(zip') : zip'[i] = IF i = Len(zip) + 1 THEN name ELSE zip[i]
    BY <2>1, <2>3, <2>4
  <2>6. \A i \in 1..Len(zip') : zip'[i] = EntryName(files, i)
    <3> SUFFICES ASSUME NEW i \in 1..Len(zip') PROVE zip'[i] = EntryName(files, i)
      OBVIOUS
    <3>1. CASE i = Len(zip) + 1
      BY <2>5, <3>1 DEF name
    <3>2. CASE i # Len(zip) + 1
      <4>1. i \in 1..Len(zip)
        BY <2>1, <2>5, <3>2
      <4> QED BY <2>5, <3>2, <4>1
    <3> QED BY <3>1, <3>2
  <2>7. \A i : EntryName(files, i)' = EntryName(files', i)
    BY DEF EntryName
  <2>8. files = Photos(card) /\ Len(zip') <= Len(files)
    BY <2>1, <2>5
  <2>9. zip' \in Seq({EntryName(files', i) : i \in 1..Len(files')})
        /\ \A i \in 1..Len(zip') : zip'[i] = EntryName(files', i)
    BY <2>4, <2>5, <2>6 DEF Names
  <2> QED BY <2>1, <2>4, <2>8, <2>9
<1>9. CASE Answered \/ CutOff
  BY <1>1, <1>9 DEF Answered, CutOff
<1>10. CASE UNCHANGED vars
  BY <1>10 DEF vars, EntryName
<1> QED
  BY <1>2, <1>3, <1>4, <1>5, <1>6, <1>7, <1>8, <1>9, <1>10 DEF Next, FileFails
-----------------------------------------------------------------------------
(* A numbered name tells its base name and its number.                     *)
LEMMA NumberedApart ==
  ASSUME NEW b \in Base, NEW c \in Base, NEW x, NEW y, Append(b, x) = Append(c, y)
  PROVE  b = c /\ x = y
<1> DEFINE S == {b[n] : n \in 1..Len(b)} \union {c[n] : n \in 1..Len(c)} \union {x, y}
<1>1. /\ Len(b) \in Nat /\ b = [n \in 1..Len(b) |-> b[n]]
      /\ Len(c) \in Nat /\ c = [n \in 1..Len(c) |-> c[n]]
  BY AttachmentConstants
<1>2. b \in Seq(S) /\ c \in Seq(S) /\ x \in S /\ y \in S
  <2>1. \A n \in 1..Len(b) : b[n] \in S
    OBVIOUS
  <2>2. \A n \in 1..Len(c) : c[n] \in S
    OBVIOUS
  <2>3. x \in S /\ y \in S
    OBVIOUS
  <2> HIDE DEF S
  <2>4. b \in [1..Len(b) -> S] /\ c \in [1..Len(c) -> S]
    BY <1>1, <2>1, <2>2
  <2>5. \A n \in Nat : [1..n -> S] \subseteq Seq(S)
    OBVIOUS
  <2> QED BY <1>1, <2>3, <2>4, <2>5
<1> HIDE DEF S
<1>3. Len(b) = Len(c)
  <2>1. Len(Append(b, x)) = Len(b) + 1 /\ Len(Append(c, y)) = Len(c) + 1
    BY <1>2
  <2>2. Len(Append(b, x)) = Len(Append(c, y))
    OBVIOUS
  <2>3. Len(b) + 1 = Len(c) + 1
    BY <2>1, <2>2, Zenon
  <2>4. Len(b) \in Nat /\ Len(c) \in Nat
    BY <1>1, Zenon
  <2> QED BY <2>3, <2>4
<1>4. x = y
  <2>1. Append(b, x)[Len(b) + 1] = x /\ Append(c, y)[Len(c) + 1] = y
    BY <1>2
  <2> QED BY <1>3, <2>1
<1>5. \A n \in 1..Len(b) : b[n] = c[n]
  <2>1. \A n \in 1..Len(b) : Append(b, x)[n] = b[n] /\ Append(c, y)[n] = c[n]
    BY <1>2, <1>3
  <2> QED BY <2>1
<1> QED BY <1>1, <1>3, <1>4, <1>5

(* Two entries have two names, unless an upload is called like the         *)
(* numbered copy of another.                                               *)
LEMMA NamesApart ==
  ASSUME AttachmentTypes, NoneNumbered,
         NEW i \in 1..Len(files), NEW j \in 1..Len(files), i < j
  PROVE  EntryName(files, i) # EntryName(files, j)
<1> DEFINE Like(n) == {k \in 1..n : files[k].base = files[n].base}
           count(n) == Cardinality(Like(n))
<1>0. files \in Seq(Item) /\ Len(files) \in Nat /\ DOMAIN files = 1..Len(files)
      /\ files[i].base \in Base /\ files[j].base \in Base
  <2>1. files \in Seq(Item)
    BY DEF AttachmentTypes
  <2>2. files[i] \in Item /\ files[j] \in Item
    BY <2>1
  <2>3. files[i].base \in Base /\ files[j].base \in Base
    BY <2>2 DEF Item
  <2> QED BY <2>1, <2>3
<1>1. ASSUME NEW n \in 1..Len(files)
      PROVE  IsFiniteSet(Like(n)) /\ count(n) \in Nat /\ count(n) <= n
  <2>1. n \in Nat /\ IsFiniteSet(1..n) /\ Cardinality(1..n) = n
    BY <1>0, FS_Interval
  <2>2. Like(n) \subseteq 1..n
    OBVIOUS
  <2> HIDE DEF Like
  <2> QED BY <2>1, <2>2, FS_Subset, FS_CardinalityType
<1>2. /\ EntryName(files, i) = IF count(i) = 1 THEN files[i].base ELSE Append(files[i].base, count(i))
      /\ EntryName(files, j) = IF count(j) = 1 THEN files[j].base ELSE Append(files[j].base, count(j))
  BY DEF EntryName
<1>3. files[i].base = files[j].base => count(i) < count(j)
  <2> SUFFICES ASSUME files[i].base = files[j].base PROVE count(i) < count(j)
    OBVIOUS
  <2>1. Like(i) \subseteq Like(j) /\ j \in Like(j) /\ j \notin Like(i)
    BY <1>0
  <2>2. IsFiniteSet(Like(j)) /\ IsFiniteSet(Like(i)) /\ count(i) \in Nat /\ count(j) \in Nat
    BY <1>1
  <2> HIDE DEF Like
  <2>3. Like(i) \union {j} \subseteq Like(j)
    BY <2>1
  <2>4. Cardinality(Like(i) \union {j}) = count(i) + 1
    BY <2>1, <2>2, FS_AddElement
  <2>5. Cardinality(Like(i) \union {j}) <= count(j)
    BY <2>2, <2>3, FS_Subset
  <2> QED BY <2>2, <2>4, <2>5
<1>4. count(i) \in 1..Len(files) /\ count(j) \in 1..Len(files)
  <2>1. ASSUME NEW n \in 1..Len(files) PROVE count(n) \in 1..Len(files)
    <3>1. n \in Like(n)
      BY <1>0
    <3>2. count(n) # 0
      <4>1. IsFiniteSet(Like(n))
        BY <1>1
      <4> HIDE DEF Like
      <4> QED BY <3>1, <4>1, FS_EmptySet
    <3>3. count(n) \in Nat /\ count(n) <= n
      BY <1>1
    <3> HIDE DEF count
    <3> QED BY <1>0, <3>2, <3>3
  <2> QED BY <2>1
<1>5. /\ files[i].base # Append(files[j].base, count(j))
      /\ files[j].base # Append(files[i].base, count(i))
  <2> HIDE DEF count
  <2> QED BY <1>0, <1>4 DEF NoneNumbered
<1>6. Append(files[i].base, count(i)) = Append(files[j].base, count(j)) =>
        files[i].base = files[j].base /\ count(i) = count(j)
  <2> DEFINE x == count(i)
             y == count(j)
  <2> HIDE DEF x, y
  <2>1. Append(files[i].base, x) = Append(files[j].base, y) => files[i].base = files[j].base /\ x = y
    BY <1>0, NumberedApart
  <2> QED BY <2>1 DEF x, y
<1>7. count(i) \in Nat /\ count(j) \in Nat
  BY <1>1
<1> DEFINE x == count(i)
           y == count(j)
<1>8. x \in Nat /\ y \in Nat /\ (files[i].base = files[j].base => x < y /\ x >= 1)
  BY <1>3, <1>4, <1>7
<1> HIDE DEF x, y
<1>9. /\ EntryName(files, i) = IF x = 1 THEN files[i].base ELSE Append(files[i].base, x)
      /\ EntryName(files, j) = IF y = 1 THEN files[j].base ELSE Append(files[j].base, y)
      /\ files[i].base # Append(files[j].base, y) /\ files[j].base # Append(files[i].base, x)
      /\ Append(files[i].base, x) = Append(files[j].base, y) => files[i].base = files[j].base /\ x = y
  BY <1>2, <1>5, <1>6 DEF x, y
<1>10. x # y \/ files[i].base # files[j].base
  BY <1>8
<1>11. x = 1 /\ y = 1 => files[i].base # files[j].base
  BY <1>8
<1>12. CASE x = 1
  BY <1>9, <1>11, <1>12, Zenon
<1>13. CASE x # 1
  BY <1>9, <1>10, <1>13, Zenon
<1> QED BY <1>12, <1>13

(* Every step of a download keeps its types, its budget of time and its    *)
(* archive.                                                                *)
LEMMA AttachmentInvStep == AttachmentInv /\ [Next]_vars => AttachmentInv'
  BY AttachmentTypesStep, TimeStep, ZipStep DEF AttachmentInv

(* The places, the times and the archive of every reachable state are      *)
(* those of AttachmentInv.                                                 *)
THEOREM AttachmentInvariant == Spec => []AttachmentInv
  BY AttachmentInvInit, AttachmentInvStep, PTL DEF Spec

(* On any board and with any timeouts, rate limits and failures, a request *)
(* that has begun a file is over one file after the deadline, the time of  *)
(* its comment, and one that has begun none after the calls of its search. *)
THEOREM DownloadEndsInTime == Spec => []EndsInTime
<1>1. AttachmentInv => EndsInTime
  BY DEF AttachmentInv, TimeInv
<1> QED BY <1>1, AttachmentInvariant, PTL

(* An archive the dashboard reports ready has every photograph of the      *)
(* card, whatever the card holds, and no name twice.                       *)
THEOREM DownloadIsWhole == Spec => []DoneMeansWhole
<1>1. AttachmentInv => DoneMeansWhole
  <2> SUFFICES ASSUME AttachmentInv, download = "done" PROVE DoneMeansWhole
    BY DEF DoneMeansWhole
  <2>1. AttachmentTypes /\ ZipInv
    BY DEF AttachmentInv
  <2>2. files = Photos(card) /\ Len(zip) = Len(files)
    BY <2>1 DEF ZipInv
  <2>3. Len(zip) = Cardinality({i \in DOMAIN card : card[i].kind = "upload"})
    BY <2>1, <2>2, PhotosCount DEF AttachmentTypes
  <2>4. DOMAIN zip = 1..Len(files) /\ Len(files) \in Nat
    BY <2>1, <2>2 DEF ZipInv, AttachmentTypes
  <2>5. \A i \in 1..Len(files) : zip[i] = EntryName(files, i)
    BY <2>1, <2>2 DEF ZipInv
  <2>6. ASSUME NoneNumbered, NEW i \in DOMAIN zip, NEW j \in DOMAIN zip, zip[i] = zip[j]
        PROVE  i = j
    <3>1. i \in 1..Len(files) /\ j \in 1..Len(files)
      BY <2>4
    <3>2. EntryName(files, i) = EntryName(files, j)
      BY <2>5, <2>6, <3>1
    <3>3. ~(i < j) /\ ~(j < i)
      BY <2>1, <2>6, <3>1, <3>2, NamesApart
    <3> QED BY <2>4, <3>1, <3>3
  <2> QED BY <2>3, <2>6 DEF DoneMeansWhole
<1> QED BY <1>1, AttachmentInvariant, PTL
=============================================================================
