--------------------------- MODULE CargoDialogProofs ---------------------------
(***************************************************************************)
(* Proofs about CargoDialog, for every number of handlers, suggestions,      *)
(* loads, drivers, updates and failures and every choice of menu entries.    *)
(*                                                                         *)
(* Handlers save whole sessions that they read earlier and overwrite each    *)
(* other's, so what the publishing steps rely on has to hold of every        *)
(* session and every copy by itself, not of the way it was filled in.        *)
(***************************************************************************)
EXTENDS CargoDialog, FiniteSetTheorems, TLAPS

Has(todo, op) == \E i \in 1..Len(todo) : todo[i] = op

\* The load says what REQUIRED asks for.
Complete(s) == Required \subseteq s.has \cup (IF profile THEN {"phone"} ELSE {})

\* A load form: its questions so far are answered, and it is complete when none is left.
FormOK(s) ==
    /\ s.src \in Suggestions \cup {None}
    /\ s.step \in Fields \cup {None}
    /\ s.step = None => Complete(s)
    /\ ~s.fillMissing /\ s.step \in {"destination", "notes", "phone"} => "origin" \in s.has
    /\ ~s.fillMissing /\ s.step \in {"notes", "phone"} => "destination" \in s.has

SessionOK(s) ==
    /\ s \in Session
    /\ s.picked <= Len(s.drivers)
    /\ s.picked # 0 => s.kind = "assign"
    /\ s.kind = "cargo" => FormOK(s)
    /\ s.kind = "excel" => s.src = None /\ (s.step = "rows" => Complete(s))
    /\ s.kind = "assign" => s.src \in Listings

\* The driver that is picked for the load, and whether its details were shown.
Pair(s) == <<s.src, s.drivers[s.picked]>>
PickShown(s) == s.picked # 0 => Pair(s) \in shown

\* What the user can do, and the argument that a button carries.
Acts == {"close", "excelCancel", "text", "cancelWord", "document", "announce", "excelStart", "excelConfirm",
         "markTaken", "filterNew", "filterCancel"} \cup FormButtons \cup AssignButtons

Handler == [todo : Seq(Ops), n : 0..MaxUpdates, act : Acts \cup {None},
            arg : Suggestions \cup Listings \cup Nat \cup {None}, copy : Session]

ArgOK(h) ==
    /\ h.act \in Acts
    /\ h.act = "announce" => h.arg \in Suggestions
    /\ h.act = "markTaken" => h.arg \in Listings
    /\ h.act = "assignPick" => h.arg \in Nat \ {0}

\* What a handler needs for the accesses it still has to do.
HandlerOK(h) ==
    /\ Has(h.todo, "read") => ArgOK(h)
    /\ Has(h.todo, "save") => SessionOK(h.copy) /\ (h.act = "assignPick" \/ PickShown(h.copy))
    /\ Has(h.todo, "insert") => Complete(h.copy) /\ h.copy.src \in Suggestions \cup {None}
    /\ Has(h.todo, "check") \/ Has(h.todo, "announceNow") => h.copy.src \in Suggestions
    /\ Has(h.todo, "check") => Len(h.todo) >= 2 /\ ~Has(Tail(h.todo), "check")
    /\ Has(h.todo, "offer") => SessionOK(h.copy) /\ h.copy.picked # 0 /\ PickShown(h.copy)

\* A load is made of a suggestion when its row comes to be, and once.
MadeOK == \A n \in Suggestions : made[n] <= 1 /\ (listing[n] = "none" => made[n] = 0)

\* The inductive invariant.
IInv ==
    /\ TypeOK /\ handler \in [Handlers -> Handler]
    /\ SessionOK(session) /\ PickShown(session)
    /\ \A x \in Handlers : HandlerOK(handler[x])
    /\ LoadsComplete /\ OfferShown /\ MadeOK

\* While the updates are handled one by one and either nothing fails or the user has no load
\* form: the invariant that a form or a file is published once.  What is left in the session
\* is not published yet, except by a handler that is about to clear it; that a file has no
\* such exception is what clearing first is for.
OneByOne == ~overlap /\ (faults = 0 \/ "excel" \in menu)
Apart == \A x, y \in Handlers : handler[x] # Idle /\ handler[y] # Idle => x = y

\* The user has no load form.
NoForm == "excel" \in menu =>
    /\ session.kind # "cargo"
    /\ \A x \in Handlers : /\ handler[x].copy.kind # "cargo"
                           /\ handler[x] = Idle \/ handler[x].act \notin FormButtons \cup {"announce"}

\* Forms are counted in updates.
Past ==
    /\ \A f \in 1..MaxUpdates : f > updates => made[f] = 0
    /\ session.form <= updates
    /\ \A x \in Handlers : handler[x].copy.form <= updates /\ handler[x].n <= updates

\* The order of the accesses of a handler that reads, saves or publishes a form or a file.
ToInsert(h) == Has(h.todo, "insert") /\ h.copy.src = None
TodoOK(h) ==
    /\ Has(h.todo, "read") => h.todo = <<"read">>
    /\ Has(h.todo, "save") => h.todo = <<"save">>
    /\ ToInsert(h) => h.todo \in {<<"clear", "insert", "send">>, <<"insert", "send">>, <<"insert", "send", "clear">>}

Live(s, m) == s.form # 0 => m[s.form] = 0
Sent == {<<"send", "clear">>, <<"clear">>}

FormsOK(h, s, m) ==
    /\ Has(h.todo, "read") => h.n > 0 /\ m[h.n] = 0
    /\ Has(h.todo, "save") => Live(h.copy, m)
    /\ ToInsert(h) =>
         /\ Live(h.copy, m)
         /\ h.todo = <<"insert", "send">> => h.copy.form = 0 \/ s.form = 0
         /\ h.todo = <<"insert", "send", "clear">> => "excel" \notin menu

Forms ==
    /\ \A f \in 1..MaxUpdates : made[f] <= 1
    /\ Live(session, made) \/ ("excel" \notin menu /\ \E x \in Handlers : handler[x].todo \in Sent)
    /\ \A x \in Handlers : FormsOK(handler[x], session, made)

FormInv ==
    /\ IInv /\ NoForm /\ Past
    /\ \A x \in Handlers : TodoOK(handler[x])
    /\ ~overlap => Apart
    /\ OneByOne => Forms

-----------------------------------------------------------------------------
(* Facts about the operators. *)

LEMMA Constants ==
    /\ Known \in [Suggestions -> SUBSET {"origin", "destination"}]
    /\ Candidates \in [Listings -> Seq(Drivers)]
    /\ None \notin Suggestions /\ None \notin Listings /\ None \notin Fields /\ None # "rows" /\ None # "search"
    /\ MaxUpdates \in Nat /\ MaxFaults \in Nat /\ Suggestions \cap 0..MaxUpdates = {}
    /\ IsFiniteSet(Drivers) /\ Menus \subseteq SUBSET Entries
BY DialogAssumption DEF DialogAssumption

LEMMA FieldsAre ==
    /\ Fields = {"origin", "destination", "notes", "phone"}
    /\ Required = {"origin", "destination", "phone"}
<1>1. Len(Steps) = 4 /\ Steps[1] = "origin" /\ Steps[2] = "destination" /\ Steps[3] = "notes" /\ Steps[4] = "phone"
  BY DEF Steps
<1>2. Fields = {Steps[i] : i \in 1..4}
  BY <1>1 DEF Fields
<1>3. Len(REQUIRED) = 3 /\ REQUIRED[1] = "origin" /\ REQUIRED[2] = "destination" /\ REQUIRED[3] = "phone"
  BY DEF REQUIRED
<1>4. Required = {REQUIRED[i] : i \in 1..3}
  BY <1>3 DEF Required
<1>5. 1..4 = {1, 2, 3, 4} /\ 1..3 = {1, 2, 3}
  OBVIOUS
<1>6. Fields = {Steps[1], Steps[2], Steps[3], Steps[4]}
  BY <1>2, <1>5
<1>7. Required = {REQUIRED[1], REQUIRED[2], REQUIRED[3]}
  BY <1>4, <1>5
<1> QED BY <1>1, <1>3, <1>6, <1>7

\* The first required field that a form lacks.
LEMMA FirstMissingFacts ==
    ASSUME NEW s
    PROVE  /\ FirstMissing(s) = None => Required \subseteq s.has
           /\ FirstMissing(s) # None => FirstMissing(s) \in Required \ s.has
<1> DEFINE hits == {i \in 1..Len(REQUIRED) : REQUIRED[i] \notin s.has}
           i0 == CHOOSE i \in hits : \A j \in hits : i <= j
<1>1. FirstMissing(s) = IF hits = {} THEN None ELSE REQUIRED[i0]
  BY DEF FirstMissing, Find
<1>2. Len(REQUIRED) = 3 /\ \A i \in 1..3 : REQUIRED[i] \in Required
  BY DEF REQUIRED, Required
<1>3. \A i \in 1..3 : REQUIRED[i] # None
  BY <1>2, FieldsAre, Constants
<1>4. CASE hits = {}
  <2>1. Required \subseteq s.has
    BY <1>2, <1>4 DEF Required
  <2> QED BY <1>1, <1>4, <2>1
<1>5. CASE hits # {}
  <2>1. \E i \in hits : \A j \in hits : i <= j
    <3>1. hits \subseteq {1, 2, 3}
      BY <1>2
    <3> QED BY <1>5, <3>1
  <2>2. i0 \in hits
    BY <2>1
  <2>3. i0 \in 1..3 /\ REQUIRED[i0] \notin s.has
    BY <1>2, <2>2
  <2>4. FirstMissing(s) = REQUIRED[i0]
    BY <1>1, <1>5
  <2> QED BY <1>2, <1>3, <2>3, <2>4
<1> QED BY <1>4, <1>5

\* The question that comes next, of a form that is filled in from its first question.
LEMMA RemainingFacts ==
    ASSUME NEW s, s.step \in Fields
    PROVE  /\ s.step = "origin" => Remaining(s) = "destination"
           /\ s.step = "destination" => Remaining(s) = "notes"
           /\ s.step = "notes" => Remaining(s) \in {"phone", None}
           /\ s.step = "notes" /\ Remaining(s) = None => "phone" \in s.has \/ profile
           /\ s.step = "phone" => Remaining(s) = None
<1> DEFINE Asked(f) == f # "phone" \/ s.editing \/ ~("phone" \in s.has \/ profile)
           From(f) == \E i, j \in 1..Len(Steps) : Steps[i] = s.step /\ Steps[j] = f /\ j > i
           hits == {i \in 1..Len(Steps) : From(Steps[i]) /\ Asked(Steps[i])}
           i0 == CHOOSE i \in hits : \A j \in hits : i <= j
<1>1. Remaining(s) = IF hits = {} THEN None ELSE Steps[i0]
  BY DEF Remaining, Find
<1>2. Len(Steps) = 4 /\ Steps[1] = "origin" /\ Steps[2] = "destination" /\ Steps[3] = "notes" /\ Steps[4] = "phone"
  BY DEF Steps
<1>3. 1..4 = {1, 2, 3, 4}
  OBVIOUS
<1>4. \A i, j \in 1..4 : Steps[i] = Steps[j] => i = j
  BY <1>2, <1>3
<1>5. ASSUME NEW k \in 1..4, Steps[k] = s.step PROVE hits = {j \in 1..4 : j > k /\ Asked(Steps[j])}
  <2>1. \A j \in 1..4 : From(Steps[j]) <=> j > k
    BY <1>2, <1>4, <1>5
  <2> HIDE DEF From, Asked
  <2> QED BY <1>2, <2>1
<1>6. ASSUME NEW m \in hits, \A j \in hits : m <= j PROVE i0 = m
  <2>1. hits \subseteq Int
    BY <1>2
  <2> QED BY <1>6, <2>1
<1>7. Asked("destination") /\ Asked("notes")
  OBVIOUS
<1> HIDE DEF From, Asked, i0
<1>8. CASE s.step = "origin"
  <2>1. hits = {j \in 1..4 : j > 1 /\ Asked(Steps[j])}
    BY <1>2, <1>3, <1>5, <1>8
  <2>2. 2 \in hits /\ \A j \in hits : 2 <= j
    BY <1>2, <1>7, <2>1
  <2>3. i0 = 2
    BY <1>6, <2>2
  <2> QED BY <1>1, <1>2, <1>8, <2>2, <2>3
<1>9. CASE s.step = "destination"
  <2>1. hits = {j \in 1..4 : j > 2 /\ Asked(Steps[j])}
    BY <1>2, <1>3, <1>5, <1>9
  <2>2. 3 \in hits /\ \A j \in hits : 3 <= j
    BY <1>2, <1>7, <2>1
  <2>3. i0 = 3
    BY <1>6, <2>2
  <2> QED BY <1>1, <1>2, <1>9, <2>2, <2>3
<1>10. CASE s.step = "notes"
  <2>1. hits = {j \in 1..4 : j > 3 /\ Asked(Steps[j])}
    BY <1>2, <1>3, <1>5, <1>10
  <2>2. CASE Asked("phone")
    <3>1. 4 \in hits /\ \A j \in hits : 4 <= j
      BY <1>2, <2>1, <2>2
    <3>2. i0 = 4
      BY <1>6, <3>1
    <3>3. None # "phone"
      BY Constants, FieldsAre
    <3> QED BY <1>1, <1>2, <1>10, <3>1, <3>2, <3>3
  <2>3. CASE ~Asked("phone")
    <3>1. hits = {}
      BY <1>2, <1>3, <2>1, <2>3
    <3> QED BY <1>1, <1>10, <2>3, <3>1 DEF Asked
  <2> QED BY <2>2, <2>3
<1>11. CASE s.step = "phone"
  <2>1. hits = {j \in 1..4 : j > 4 /\ Asked(Steps[j])}
    BY <1>2, <1>3, <1>5, <1>11
  <2>2. hits = {}
    BY <1>3, <2>1
  <2> QED BY <1>1, <1>11, <2>2
<1> QED BY <1>8, <1>9, <1>10, <1>11, FieldsAre

LEMMA BlankFacts ==
    /\ Blank \in Session /\ SessionOK(Blank) /\ PickShown(Blank) /\ Blank.kind = "none" /\ Blank.form = 0
<1>1. Blank \in Session
  BY Constants DEF Blank, Session, Kinds
<1>2. Blank.picked = 0 /\ Blank.kind = "none" /\ Blank.form = 0 /\ Len(Blank.drivers) \in Nat
  BY DEF Blank
<1> QED BY <1>1, <1>2 DEF SessionOK, PickShown

LEMMA FormSession ==
    ASSUME NEW s \in Session, s.kind = "cargo", s.picked = 0, FormOK(s)
    PROVE  SessionOK(s) /\ PickShown(s)
<1>1. Len(s.drivers) \in Nat
  BY DEF Session
<1> QED BY <1>1 DEF SessionOK, PickShown

\* The form after an answer or a question that may be left out.
LEMMA NextStepOK ==
    ASSUME NEW s \in Session, s.kind = "cargo", s.picked = 0, s.src \in Suggestions \cup {None}, s.step \in Fields,
           ~s.fillMissing /\ s.step \in Required => s.step \in s.has,
           ~s.fillMissing /\ s.step \in {"destination", "notes", "phone"} => "origin" \in s.has,
           ~s.fillMissing /\ s.step \in {"notes", "phone"} => "destination" \in s.has
    PROVE  SessionOK(nextStep(s)) /\ PickShown(nextStep(s)) /\ nextStep(s).form = s.form
<1>1. CASE s.fillMissing
  <2>1. PICK f : f = FirstMissing(s)
    OBVIOUS
  <2>2. PICK b \in BOOLEAN : b = (f # None)
    OBVIOUS
  <2>3. PICK r : r = [s EXCEPT !.step = f, !.fillMissing = b]
    OBVIOUS
  <2>4. nextStep(s) = r
    BY <1>1, <2>1, <2>2, <2>3 DEF nextStep
  <2>5. (f = None => Required \subseteq s.has) /\ (f # None => f \in Fields)
    BY <2>1, FirstMissingFacts, FieldsAre
  <2>6. r \in Session
    BY <2>3, <2>5 DEF Session
  <2>7. /\ r.kind = "cargo" /\ r.picked = 0 /\ r.src = s.src /\ r.has = s.has /\ r.step = f
        /\ r.fillMissing = b /\ r.form = s.form
    BY <2>3 DEF Session
  <2>8. FormOK(r)
    BY <2>2, <2>5, <2>7, Constants, FieldsAre DEF FormOK, Complete
  <2> QED BY <2>4, <2>6, <2>7, <2>8, FormSession
<1>2. CASE ~s.fillMissing
  <2>1. PICK f : f = Remaining(s)
    OBVIOUS
  <2>2. PICK r : r = [s EXCEPT !.step = f]
    OBVIOUS
  <2>3. nextStep(s) = r
    BY <1>2, <2>1, <2>2 DEF nextStep
  <2>4. /\ s.step = "origin" => f = "destination"
        /\ s.step = "destination" => f = "notes"
        /\ s.step = "notes" => f \in {"phone", None}
        /\ s.step = "notes" /\ f = None => "phone" \in s.has \/ profile
        /\ s.step = "phone" => f = None
    BY <2>1, RemainingFacts
  <2>5. f \in Fields \cup {None} /\ f # "origin"
    BY <2>4, FieldsAre, Constants
  <2>6. r \in Session
    BY <2>2, <2>5 DEF Session
  <2>7. /\ r.kind = "cargo" /\ r.picked = 0 /\ r.src = s.src /\ r.has = s.has /\ r.step = f
        /\ r.fillMissing = s.fillMissing /\ r.form = s.form
    BY <2>2 DEF Session
  <2>8. f = None => Required \subseteq s.has \cup (IF profile THEN {"phone"} ELSE {})
    BY <1>2, <2>4, FieldsAre, Constants
  <2>9. f \in {"destination", "notes", "phone"} => "origin" \in s.has
    BY <1>2, <2>4, FieldsAre
  <2>10. f \in {"notes", "phone"} => "destination" \in s.has
    BY <1>2, <2>4, FieldsAre
  <2>11. FormOK(r)
    BY <2>5, <2>7, <2>8, <2>9, <2>10 DEF FormOK, Complete
  <2> QED BY <2>3, <2>6, <2>7, <2>11, FormSession
<1> QED BY <1>1, <1>2

\* A form of the user stays well formed when a question is answered, ...
LEMMA AnswerOK ==
    ASSUME NEW s, SessionOK(s), s.kind = "cargo", s.step # None
    PROVE  LET r == nextStep([s EXCEPT !.has = @ \cup {s.step}]) IN
           SessionOK(r) /\ PickShown(r) /\ r.form = s.form
<1>1. s \in Session /\ FormOK(s) /\ s.picked = 0 /\ s.step \in Fields
  BY DEF SessionOK, FormOK
<1>2. PICK has : has = s.has \cup {s.step}
  OBVIOUS
<1>3. PICK t : t = [s EXCEPT !.has = has]
  OBVIOUS
<1>4. has \in SUBSET Fields
  BY <1>1, <1>2 DEF Session
<1>5. t \in Session
  BY <1>1, <1>3, <1>4 DEF Session
<1>6. /\ t.kind = "cargo" /\ t.picked = 0 /\ t.src = s.src /\ t.has = has /\ t.step = s.step
      /\ t.fillMissing = s.fillMissing /\ t.form = s.form
  BY <1>1, <1>3 DEF Session
<1>7. /\ t.src \in Suggestions \cup {None} /\ t.step \in Fields /\ t.step \in t.has
      /\ (~t.fillMissing /\ t.step \in {"destination", "notes", "phone"} => "origin" \in t.has)
      /\ (~t.fillMissing /\ t.step \in {"notes", "phone"} => "destination" \in t.has)
  BY <1>1, <1>2, <1>6 DEF FormOK
<1>8. SessionOK(nextStep(t)) /\ PickShown(nextStep(t)) /\ nextStep(t).form = t.form
  BY <1>5, <1>6, <1>7, NextStepOK
<1> QED BY <1>2, <1>3, <1>6, <1>8

\* ... left out, ...
LEMMA SkipOK ==
    ASSUME NEW s, SessionOK(s), s.kind = "cargo", s.step # None, canSkip(s)
    PROVE  SessionOK(nextStep(s)) /\ PickShown(nextStep(s)) /\ nextStep(s).form = s.form
<1>1. s \in Session /\ FormOK(s) /\ s.picked = 0 /\ s.step \in Fields
  BY DEF SessionOK, FormOK
<1>2. s.step \in Required => s.step \in s.has
  BY DEF canSkip
<1> QED BY <1>1, <1>2, NextStepOK DEF FormOK

\* ... the questions that are left are not asked, ...
LEMMA ApplyOK ==
    ASSUME NEW s, SessionOK(s), s.kind = "cargo", canApply(s)
    PROVE  SessionOK(applySteps(s)) /\ PickShown(applySteps(s)) /\ applySteps(s).form = s.form
<1>1. s \in Session /\ FormOK(s) /\ s.picked = 0
  BY DEF SessionOK
<1>2. PICK f \in {None, "phone"} : f = IF "phone" \in s.has \/ profile THEN None ELSE "phone"
  OBVIOUS
<1>3. PICK r : r = [s EXCEPT !.step = f]
  OBVIOUS
<1>4. r \in Session
  BY <1>1, <1>3, FieldsAre DEF Session
<1>5. /\ r.kind = "cargo" /\ r.picked = 0 /\ r.src = s.src /\ r.has = s.has /\ r.step = f
      /\ r.fillMissing = s.fillMissing /\ r.form = s.form
  BY <1>1, <1>3 DEF Session
<1>6. "origin" \in s.has /\ "destination" \in s.has
  BY DEF canApply
<1>7. f = None => Required \subseteq s.has \cup (IF profile THEN {"phone"} ELSE {})
  BY <1>2, <1>6, FieldsAre, Constants
<1>8. FormOK(r)
  BY <1>1, <1>5, <1>6, <1>7, FieldsAre DEF FormOK, Complete
<1>9. applySteps(s) = r
  BY <1>2, <1>3 DEF applySteps
<1> QED BY <1>4, <1>5, <1>8, <1>9, FormSession

\* ... or it is gone through again.
LEMMA EditOK ==
    ASSUME NEW s, SessionOK(s), s.kind = "cargo"
    PROVE  SessionOK(startEdit(s)) /\ PickShown(startEdit(s)) /\ startEdit(s).form = s.form
<1>1. s \in Session /\ FormOK(s) /\ s.picked = 0
  BY DEF SessionOK
<1>2. PICK has : has = IF profile THEN s.has \cup {"phone"} ELSE s.has
  OBVIOUS
<1>3. PICK r : r = [s EXCEPT !.has = has, !.editing = TRUE, !.fillMissing = FALSE, !.step = "origin"]
  OBVIOUS
<1>4. has \in SUBSET Fields
  BY <1>1, <1>2, FieldsAre DEF Session
<1>5. r \in Session
  BY <1>1, <1>3, <1>4, FieldsAre DEF Session
<1>6. /\ r.kind = "cargo" /\ r.picked = 0 /\ r.src = s.src /\ r.step = "origin" /\ r.form = s.form
  BY <1>1, <1>3 DEF Session
<1>7. FormOK(r)
  BY <1>1, <1>6, FieldsAre, Constants DEF FormOK
<1>8. Steps[1] = "origin"
  BY DEF Steps
<1>9. startEdit(s) = r
  BY <1>2, <1>3, <1>8 DEF startEdit
<1> QED BY <1>5, <1>6, <1>7, <1>9, FormSession

\* A new form.
LEMMA CreateOK ==
    ASSUME NEW n \in 0..MaxUpdates
    PROVE  SessionOK(startCreate(n)) /\ PickShown(startCreate(n)) /\ startCreate(n).form = n
<1>1. PICK r : r = [Blank EXCEPT !.kind = "cargo", !.step = "origin", !.form = n]
  OBVIOUS
<1>2. r \in Session
  BY <1>1, BlankFacts, FieldsAre DEF Session, Kinds
<1>3. r.kind = "cargo" /\ r.picked = 0 /\ r.src = None /\ r.step = "origin" /\ r.form = n
  BY <1>1 DEF Blank
<1>4. FormOK(r)
  BY <1>3, FieldsAre, Constants DEF FormOK
<1> QED BY <1>1, <1>2, <1>3, <1>4, FormSession DEF startCreate

\* The draft of a suggestion, ...
LEMMA DraftFacts ==
    ASSUME NEW n \in Suggestions
    PROVE  LET r == buildDraft(n) IN
           r \in Session /\ r.kind = "cargo" /\ r.picked = 0 /\ r.src = n /\ r.step = None /\ r.form = 0
<1>1. PICK has : has = Known[n] \cup (IF profile THEN {"phone"} ELSE {})
  OBVIOUS
<1>2. has \in SUBSET Fields
  <2>1. Known[n] \subseteq {"origin", "destination"}
    BY Constants
  <2> QED BY <1>1, <2>1, FieldsAre
<1>3. PICK r : r = [Blank EXCEPT !.kind = "cargo", !.src = n, !.has = has]
  OBVIOUS
<1>4. r \in Session
  BY <1>2, <1>3, BlankFacts DEF Session, Kinds
<1>5. r.kind = "cargo" /\ r.picked = 0 /\ r.src = n /\ r.step = None /\ r.form = 0
  BY <1>3 DEF Blank
<1> QED BY <1>1, <1>3, <1>4, <1>5 DEF buildDraft

\* ... which asks for what the message does not say.
LEMMA AnnounceOK ==
    ASSUME NEW n \in Suggestions
    PROVE  SessionOK(startAnnounce(n)) /\ PickShown(startAnnounce(n)) /\ startAnnounce(n).form = 0
<1>1. PICK s : s = buildDraft(n)
  OBVIOUS
<1>2. s \in Session /\ s.kind = "cargo" /\ s.picked = 0 /\ s.src = n /\ s.form = 0
  BY <1>1, DraftFacts
<1>3. PICK f : f = FirstMissing(s)
  OBVIOUS
<1>4. PICK b \in BOOLEAN : b = (f # None)
  OBVIOUS
<1>5. PICK r : r = [s EXCEPT !.step = f, !.fillMissing = b]
  OBVIOUS
<1>6. startAnnounce(n) = r
  BY <1>1, <1>3, <1>4, <1>5 DEF startAnnounce
<1>7. (f = None => Required \subseteq s.has) /\ (f # None => f \in Fields)
  BY <1>3, FirstMissingFacts, FieldsAre
<1>8. r \in Session
  BY <1>2, <1>5, <1>7 DEF Session
<1>9. /\ r.kind = "cargo" /\ r.picked = 0 /\ r.src = n /\ r.has = s.has /\ r.step = f
      /\ r.fillMissing = b /\ r.form = 0
  BY <1>2, <1>5 DEF Session
<1>10. FormOK(r)
  BY <1>4, <1>7, <1>9, Constants, FieldsAre DEF FormOK, Complete
<1> QED BY <1>6, <1>8, <1>9, <1>10, FormSession

\* The list of drivers for a load, ...
LEMMA AssignOK ==
    ASSUME NEW l \in Listings
    PROVE  LET r == startAssign(l) IN SessionOK(r) /\ PickShown(r) /\ r.form = 0 /\ r.kind # "cargo"
<1>1. PICK q \in Seq(Drivers) : q = Candidates[l]
  BY Constants
<1>2. PICK r : r = [Blank EXCEPT !.kind = "assign", !.src = l, !.drivers = q]
  OBVIOUS
<1>3. r \in Session
  BY <1>1, <1>2, BlankFacts DEF Session, Kinds
<1>4. r.kind = "assign" /\ r.picked = 0 /\ r.src = l /\ r.drivers = q /\ r.form = 0
  BY <1>2 DEF Blank
<1>5. SessionOK(r) /\ PickShown(r)
  BY <1>1, <1>3, <1>4 DEF SessionOK, PickShown
<1> QED BY <1>1, <1>2, <1>4, <1>5 DEF startAssign

\* ... and the changes to it: a driver found goes to its end, so the one picked stays.
LEMMA SearchedOK ==
    ASSUME NEW s, SessionOK(s), PickShown(s), s.kind = "assign", NEW d \in Drivers \cup {None}
    PROVE  LET r == Searched(s, d) IN SessionOK(r) /\ PickShown(r) /\ r.form = s.form /\ r.kind = "assign"
<1>1. s \in Session /\ s.src \in Listings /\ s.picked <= Len(s.drivers) /\ s.drivers \in Seq(Drivers) /\ s.picked \in Nat
  BY DEF SessionOK, Session
<1>2. PICK q : q = IF d = None \/ \E i \in 1..Len(s.drivers) : s.drivers[i] = d THEN s.drivers ELSE Append(s.drivers, d)
  OBVIOUS
<1>3. q \in Seq(Drivers) /\ s.picked <= Len(q) /\ \A i \in 1..Len(s.drivers) : q[i] = s.drivers[i]
  BY <1>1, <1>2
<1>4. PICK r : r = [s EXCEPT !.step = None, !.drivers = q]
  OBVIOUS
<1>5. r \in Session
  BY <1>1, <1>3, <1>4 DEF Session
<1>6. r.kind = "assign" /\ r.picked = s.picked /\ r.src = s.src /\ r.drivers = q /\ r.form = s.form
  BY <1>1, <1>4 DEF Session
<1>7. SessionOK(r)
  BY <1>1, <1>3, <1>5, <1>6 DEF SessionOK
<1>8. s.picked # 0 => s.picked \in 1..Len(s.drivers)
  BY <1>1
<1>9. PickShown(r)
  BY <1>3, <1>6, <1>8 DEF PickShown, Pair
<1>10. Searched(s, d) = r
  BY <1>2, <1>4 DEF Searched
<1> QED BY <1>6, <1>7, <1>9, <1>10

LEMMA AssignStepOK ==
    ASSUME NEW s, SessionOK(s), PickShown(s), s.kind = "assign", NEW t \in {None, "search"}
    PROVE  LET r == [s EXCEPT !.step = t] IN SessionOK(r) /\ PickShown(r) /\ r.form = s.form /\ r.kind = "assign"
<1>1. s \in Session
  BY DEF SessionOK
<1>2. PICK r : r = [s EXCEPT !.step = t]
  OBVIOUS
<1>3. r \in Session
  BY <1>1, <1>2 DEF Session
<1>4. r.kind = "assign" /\ r.picked = s.picked /\ r.src = s.src /\ r.drivers = s.drivers /\ r.form = s.form
  BY <1>1, <1>2 DEF Session
<1>5. SessionOK(r) /\ PickShown(r)
  BY <1>3, <1>4 DEF SessionOK, PickShown, Pair
<1> QED BY <1>2, <1>4, <1>5

LEMMA AssignListOK ==
    ASSUME NEW s, SessionOK(s), s.kind = "assign"
    PROVE  LET r == [s EXCEPT !.picked = 0, !.step = None] IN
           SessionOK(r) /\ PickShown(r) /\ r.form = s.form /\ r.kind = "assign"
<1>1. s \in Session /\ Len(s.drivers) \in Nat
  BY DEF SessionOK, Session
<1>2. PICK r : r = [s EXCEPT !.picked = 0, !.step = None]
  OBVIOUS
<1>3. r \in Session
  BY <1>1, <1>2 DEF Session
<1>4. r.kind = "assign" /\ r.picked = 0 /\ r.src = s.src /\ r.drivers = s.drivers /\ r.form = s.form
  BY <1>1, <1>2 DEF Session
<1>5. SessionOK(r) /\ PickShown(r)
  BY <1>1, <1>3, <1>4 DEF SessionOK, PickShown
<1> QED BY <1>2, <1>4, <1>5

LEMMA AssignPickOK ==
    ASSUME NEW s, SessionOK(s), s.kind = "assign", NEW p \in Nat, p <= Len(s.drivers)
    PROVE  LET r == [s EXCEPT !.picked = p] IN SessionOK(r) /\ r.form = s.form /\ r.kind = "assign"
<1>1. s \in Session
  BY DEF SessionOK
<1>2. PICK r : r = [s EXCEPT !.picked = p]
  OBVIOUS
<1>3. r \in Session
  BY <1>1, <1>2 DEF Session
<1>4. r.kind = "assign" /\ r.picked = p /\ r.src = s.src /\ r.drivers = s.drivers /\ r.form = s.form
  BY <1>1, <1>2 DEF Session
<1>5. SessionOK(r)
  BY <1>1, <1>3, <1>4 DEF SessionOK
<1> QED BY <1>2, <1>4, <1>5

\* Sessions of the other forms.
LEMMA PlainOK ==
    ASSUME NEW k \in {"excel", "filter"}
    PROVE  LET r == [Blank EXCEPT !.kind = k] IN SessionOK(r) /\ PickShown(r) /\ r.form = 0 /\ r.kind # "cargo"
<1>1. PICK r : r = [Blank EXCEPT !.kind = k]
  OBVIOUS
<1>2. r \in Session
  BY <1>1, BlankFacts DEF Session, Kinds
<1>3. r.kind = k /\ r.picked = 0 /\ r.src = None /\ r.step = None /\ r.drivers = <<>> /\ r.form = 0
  BY <1>1 DEF Blank
<1>4. SessionOK(r) /\ PickShown(r)
  BY <1>2, <1>3, Constants DEF SessionOK, PickShown
<1> QED BY <1>1, <1>3, <1>4

LEMMA RowsOK ==
    ASSUME NEW n \in 0..MaxUpdates
    PROVE  LET r == [Blank EXCEPT !.kind = "excel", !.step = "rows", !.has = Required, !.form = n] IN
           SessionOK(r) /\ PickShown(r) /\ r.form = n /\ r.kind # "cargo"
<1>1. PICK r : r = [Blank EXCEPT !.kind = "excel", !.step = "rows", !.has = Required, !.form = n]
  OBVIOUS
<1>2. r \in Session
  BY <1>1, BlankFacts, FieldsAre DEF Session, Kinds
<1>3. r.kind = "excel" /\ r.picked = 0 /\ r.src = None /\ r.has = Required /\ r.drivers = <<>> /\ r.form = n
  BY <1>1 DEF Blank
<1>4. SessionOK(r) /\ PickShown(r)
  BY <1>2, <1>3 DEF SessionOK, PickShown, Complete
<1> QED BY <1>1, <1>3, <1>4

-----------------------------------------------------------------------------
(* What an update makes of the session it reads. *)

Written(x, s, r) ==
    /\ SessionOK(r) /\ (handler[x].act = "assignPick" \/ PickShown(r))
    /\ r.form \in {0, s.form, handler[x].n}
    /\ r.kind = "cargo" => s.kind = "cargo" \/ handler[x].act \in FormButtons \cup {"announce"}

Outcome(x, s, h) ==
    \/ h = Idle
    \/ \E r : h = Does(x, <<"save">>, r) /\ Written(x, s, r)
    \/ h = Does(x, <<"clear">>, Blank)
    \/ s.kind = "cargo" /\ s.step = None /\ h \in publish(x, s)
    \/ s.kind = "excel" /\ s.step = "rows" /\ h \in excelConfirm(x, s)
    \/ s.kind = "assign" /\ s.picked # 0 /\ h = Does(x, <<"clear", "offer">>, s)

LEMMA Kept ==
    ASSUME NEW x, NEW s, NEW r, SessionOK(r), PickShown(r), r.form \in {0, s.form, handler[x].n},
           r.kind = "cargo" => s.kind = "cargo" \/ handler[x].act \in FormButtons \cup {"announce"}
    PROVE  Written(x, s, r)
BY DEF Written

LEMMA TextOutcome ==
    ASSUME NEW x, NEW s, SessionOK(s), PickShown(s), NEW h \in handleText(x, s)
    PROVE  Outcome(x, s, h)
<1>1. CASE s.kind = "cargo" /\ s.step # None
  <2>1. PICK r : r = nextStep([s EXCEPT !.has = @ \cup {s.step}])
    OBVIOUS
  <2>2. h = Does(x, <<"save">>, r) \/ h = Idle
    BY <1>1, <2>1 DEF handleText, Saves, Shows
  <2>3. Written(x, s, r)
    BY <1>1, <2>1, AnswerOK, Kept
  <2> QED BY <2>2, <2>3 DEF Outcome
<1>2. CASE s.kind = "assign" /\ s.step = "search"
  <2>1. PICK d \in Drivers \cup {None} : h = Does(x, <<"save">>, Searched(s, d))
    BY <1>2 DEF handleText, Saves
  <2>2. PICK r : r = Searched(s, d)
    OBVIOUS
  <2>3. Written(x, s, r)
    BY <1>2, <2>2, SearchedOK, Kept
  <2> QED BY <2>1, <2>2, <2>3 DEF Outcome
<1>3. CASE s.kind = "filter"
  <2>1. Written(x, s, s)
    BY <1>3, Kept
  <2>2. h = Does(x, <<"save">>, s) \/ h = Does(x, <<"clear">>, Blank) \/ h = Idle
    BY <1>3 DEF handleText, Saves, Clears, Shows
  <2> QED BY <2>1, <2>2 DEF Outcome
<1>4. CASE ~(s.kind = "cargo" /\ s.step # None) /\ ~(s.kind = "assign" /\ s.step = "search") /\ s.kind # "filter"
  BY <1>4 DEF handleText, Shows, Outcome
<1> QED BY <1>1, <1>2, <1>3, <1>4

LEMMA CancelOutcome ==
    ASSUME NEW x, NEW s, SessionOK(s), PickShown(s), NEW h \in cancelWord(x, s)
    PROVE  Outcome(x, s, h)
<1>1. CASE s.kind \in {"cargo", "excel", "filter"}
  BY <1>1 DEF cancelWord, Clears, Outcome
<1>2. CASE s.kind = "assign" /\ s.step = "search"
  <2>1. PICK r : r = [s EXCEPT !.step = None]
    OBVIOUS
  <2>2. h = Does(x, <<"save">>, r)
    BY <1>2, <2>1 DEF cancelWord, Saves
  <2>3. Written(x, s, r)
    BY <1>2, <2>1, AssignStepOK, Kept
  <2> QED BY <2>2, <2>3 DEF Outcome
<1>3. CASE s.kind \notin {"cargo", "excel", "filter"} /\ ~(s.kind = "assign" /\ s.step = "search")
  BY <1>3 DEF cancelWord, Shows, Outcome
<1> QED BY <1>1, <1>2, <1>3

LEMMA DocumentOutcome ==
    ASSUME NEW x, handler[x].n \in 0..MaxUpdates, NEW s, SessionOK(s), NEW h \in handleDocument(x, s)
    PROVE  Outcome(x, s, h)
<1>1. PICK r1 : r1 = [Blank EXCEPT !.kind = "excel"]
  OBVIOUS
<1>2. PICK r2 : r2 = [Blank EXCEPT !.kind = "excel", !.step = "rows", !.has = Required, !.form = handler[x].n]
  OBVIOUS
<1>3. h = Idle \/ h = Does(x, <<"save">>, r1) \/ h = Does(x, <<"save">>, r2)
  BY <1>1, <1>2 DEF handleDocument, Saves, Shows
<1>4. Written(x, s, r1)
  BY <1>1, PlainOK, Kept
<1>5. Written(x, s, r2)
  BY <1>2, RowsOK, Kept
<1> QED BY <1>3, <1>4, <1>5 DEF Outcome

LEMMA FormOutcome ==
    ASSUME NEW x, handler[x].n \in 0..MaxUpdates, handler[x].act \in FormButtons,
           NEW s, SessionOK(s), PickShown(s), NEW h \in FormButton(x, handler[x].act, s)
    PROVE  Outcome(x, s, h)
<1> DEFINE a == handler[x].act
           New == a = "create" \/ (a = "restart" /\ (s.kind # "cargo" \/ s.src = None))
           Again == a = "restart" /\ s.kind = "cargo" /\ s.src # None
           Skips == a = "skip" /\ s.kind = "cargo" /\ s.step # None /\ canSkip(s)
           Applies == a = "apply" /\ s.kind = "cargo" /\ s.step # None /\ canApply(s)
           Edits == a = "edit" /\ s.kind = "cargo" /\ s.step = None
           Publishes == a = "confirm" /\ s.kind = "cargo" /\ s.step = None
<1>1. CASE New
  <2>1. PICK r : r = startCreate(handler[x].n)
    OBVIOUS
  <2>2. h = Does(x, <<"save">>, r)
    BY <1>1, <2>1 DEF FormButton, Saves
  <2>3. Written(x, s, r)
    BY <2>1, CreateOK, Kept
  <2> QED BY <2>2, <2>3 DEF Outcome
<1>2. CASE Again
  <2>1. s.src \in Suggestions
    BY <1>2 DEF SessionOK, FormOK
  <2>2. PICK r : r = startAnnounce(s.src)
    OBVIOUS
  <2>3. h = Does(x, <<"save">>, r) \/ h = Idle
    BY <1>2, <2>2 DEF FormButton, Saves, Shows
  <2>4. Written(x, s, r)
    BY <2>1, <2>2, AnnounceOK, Kept
  <2> QED BY <2>3, <2>4 DEF Outcome
<1>3. CASE a = "cancel"
  <2>1. h \in Clears(x)
    BY <1>3 DEF FormButton
  <2> QED BY <2>1 DEF Clears, Outcome
<1>4. CASE Skips
  <2>1. PICK r : r = nextStep(s)
    OBVIOUS
  <2>2. h = Does(x, <<"save">>, r)
    BY <1>4, <2>1 DEF FormButton, Saves
  <2>3. Written(x, s, r)
    BY <1>4, <2>1, SkipOK, Kept
  <2> QED BY <2>2, <2>3 DEF Outcome
<1>5. CASE Applies
  <2>1. PICK r : r = applySteps(s)
    OBVIOUS
  <2>2. h = Does(x, <<"save">>, r)
    BY <1>5, <2>1 DEF FormButton, Saves
  <2>3. Written(x, s, r)
    BY <1>5, <2>1, ApplyOK, Kept
  <2> QED BY <2>2, <2>3 DEF Outcome
<1>6. CASE Edits
  <2>1. PICK r : r = startEdit(s)
    OBVIOUS
  <2>2. h = Does(x, <<"save">>, r)
    BY <1>6, <2>1 DEF FormButton, Saves
  <2>3. Written(x, s, r)
    BY <1>6, <2>1, EditOK, Kept
  <2> QED BY <2>2, <2>3 DEF Outcome
<1>7. CASE Publishes
  <2>1. h \in publish(x, s)
    BY <1>7 DEF FormButton
  <2> QED BY <1>7, <2>1 DEF Outcome
<1>8. CASE ~New /\ ~Again /\ a # "cancel" /\ ~Skips /\ ~Applies /\ ~Edits /\ ~Publishes
  <2>1. h \in Shows
    BY <1>8 DEF FormButton
  <2> QED BY <2>1 DEF Shows, Outcome
<1> QED BY <1>1, <1>2, <1>3, <1>4, <1>5, <1>6, <1>7, <1>8

LEMMA AssignOutcome ==
    ASSUME NEW x, handler[x].act = "assignPick" => handler[x].arg \in Nat \ {0},
           NEW s, SessionOK(s), PickShown(s), NEW h \in AssignButton(x, handler[x].act, s)
    PROVE  Outcome(x, s, h)
<1> DEFINE a == handler[x].act
           Offers == a = "assignConfirm" /\ s.picked # 0
           Picks == a = "assignPick" /\ handler[x].arg <= Len(s.drivers)
<1>1. CASE s.kind # "assign"
  BY <1>1 DEF AssignButton, Shows, Outcome
<1>2. CASE s.kind = "assign" /\ a = "assignCancel"
  <2>1. h \in Clears(x)
    BY <1>2 DEF AssignButton
  <2> QED BY <2>1 DEF Clears, Outcome
<1>3. CASE s.kind = "assign" /\ a = "assignList"
  <2>1. PICK r : r = [s EXCEPT !.picked = 0, !.step = None]
    OBVIOUS
  <2>2. h = Does(x, <<"save">>, r)
    BY <1>3, <2>1 DEF AssignButton, Saves
  <2>3. Written(x, s, r)
    BY <1>3, <2>1, AssignListOK, Kept
  <2> QED BY <2>2, <2>3 DEF Outcome
<1>4. CASE s.kind = "assign" /\ a = "assignSearch"
  <2>1. PICK r : r = [s EXCEPT !.step = "search"]
    OBVIOUS
  <2>2. h = Does(x, <<"save">>, r)
    BY <1>4, <2>1 DEF AssignButton, Saves
  <2>3. Written(x, s, r)
    BY <1>4, <2>1, AssignStepOK, Kept
  <2> QED BY <2>2, <2>3 DEF Outcome
<1>5. CASE s.kind = "assign" /\ Offers
  <2>1. h = Does(x, <<"clear", "offer">>, s)
    BY <1>5 DEF AssignButton
  <2> QED BY <1>5, <2>1 DEF Outcome
<1>6. CASE s.kind = "assign" /\ Picks
  <2>1. PICK p \in Nat : p = handler[x].arg
    BY <1>6
  <2>2. PICK r : r = [s EXCEPT !.picked = p]
    OBVIOUS
  <2>3. h = Does(x, <<"save">>, r)
    BY <1>6, <2>1, <2>2 DEF AssignButton, Saves
  <2>4. SessionOK(r) /\ r.form = s.form /\ r.kind = "assign"
    BY <1>6, <2>1, <2>2, AssignPickOK
  <2>5. Written(x, s, r)
    BY <1>6, <2>4 DEF Written
  <2> QED BY <2>3, <2>5 DEF Outcome
<1>7. CASE s.kind = "assign" /\ a \notin {"assignCancel", "assignList", "assignSearch"} /\ ~Offers /\ ~Picks
  <2>1. h = Does(x, <<"save">>, s)
    BY <1>7 DEF AssignButton, Saves
  <2>2. Written(x, s, s)
    BY <1>7, Kept
  <2> QED BY <2>1, <2>2 DEF Outcome
<1> QED BY <1>1, <1>2, <1>3, <1>4, <1>5, <1>6, <1>7

LEMMA OutcomeOf ==
    ASSUME NEW x, handler[x].n \in 0..MaxUpdates, ArgOK(handler[x]),
           NEW s, SessionOK(s), PickShown(s), NEW h \in Outcomes(x, s)
    PROVE  Outcome(x, s, h)
<1> DEFINE a == handler[x].act
<1>1. CASE a \in FormButtons
  <2>1. h \in FormButton(x, a, s)
    BY <1>1 DEF Outcomes, FormButtons, AssignButtons
  <2> QED BY <1>1, <2>1, FormOutcome
<1>2. CASE a \in AssignButtons
  <2>1. h \in AssignButton(x, a, s)
    BY <1>2 DEF Outcomes, FormButtons, AssignButtons
  <2> QED BY <2>1, AssignOutcome DEF ArgOK
<1>3. CASE a \in {"close", "excelCancel"}
  <2>1. h \in Clears(x)
    BY <1>3 DEF Outcomes, FormButtons, AssignButtons
  <2> QED BY <2>1 DEF Clears, Outcome
<1>4. CASE a \in {"text", "cancelWord", "document"}
  <2>1. h \in handleText(x, s) \/ h \in cancelWord(x, s) \/ h \in handleDocument(x, s)
    BY <1>4 DEF Outcomes, FormButtons, AssignButtons
  <2> QED BY <2>1, TextOutcome, CancelOutcome, DocumentOutcome
<1>5. CASE a = "announce"
  <2>1. handler[x].arg \in Suggestions
    BY <1>5 DEF ArgOK
  <2>2. PICK r : r = startAnnounce(handler[x].arg)
    OBVIOUS
  <2>3. h = Does(x, <<"save">>, r) \/ h = Idle
    BY <1>5, <2>2 DEF Outcomes, Saves, Shows, FormButtons, AssignButtons
  <2>4. Written(x, s, r)
    BY <1>5, <2>1, <2>2, AnnounceOK, Kept
  <2> QED BY <2>3, <2>4 DEF Outcome
<1>6. CASE a = "excelStart"
  <2>1. PICK r : r = [Blank EXCEPT !.kind = "excel"]
    OBVIOUS
  <2>2. h = Does(x, <<"save">>, r)
    BY <1>6, <2>1 DEF Outcomes, Saves, FormButtons, AssignButtons
  <2>3. Written(x, s, r)
    BY <2>1, PlainOK, Kept
  <2> QED BY <2>2, <2>3 DEF Outcome
<1>7. CASE a = "excelConfirm"
  <2>1. (s.kind = "excel" /\ s.step = "rows" /\ h \in excelConfirm(x, s)) \/ h \in Shows
    BY <1>7 DEF Outcomes, FormButtons, AssignButtons
  <2> QED BY <2>1 DEF Shows, Outcome
<1>8. CASE a = "markTaken"
  <2>1. handler[x].arg \in Listings
    BY <1>8 DEF ArgOK
  <2>2. PICK r : r = startAssign(handler[x].arg)
    OBVIOUS
  <2>3. h = Does(x, <<"save">>, r) \/ h = Idle
    BY <1>8, <2>2 DEF Outcomes, Saves, Shows, FormButtons, AssignButtons
  <2>4. Written(x, s, r)
    BY <2>1, <2>2, AssignOK, Kept
  <2> QED BY <2>3, <2>4 DEF Outcome
<1>9. CASE a = "filterNew"
  <2>1. PICK r : r = [Blank EXCEPT !.kind = "filter"]
    OBVIOUS
  <2>2. h = Does(x, <<"save">>, r)
    BY <1>9, <2>1 DEF Outcomes, Saves, FormButtons, AssignButtons
  <2>3. Written(x, s, r)
    BY <2>1, PlainOK, Kept
  <2> QED BY <2>2, <2>3 DEF Outcome
<1>10. CASE a = "filterCancel"
  <2>1. h \in Clears(x) \/ h \in Shows
    BY <1>10 DEF Outcomes, FormButtons, AssignButtons
  <2> QED BY <2>1 DEF Clears, Shows, Outcome
<1> QED BY <1>1, <1>2, <1>3, <1>4, <1>5, <1>6, <1>7, <1>8, <1>9, <1>10 DEF Acts, ArgOK

-----------------------------------------------------------------------------
(* What a handler still has to do. *)

LEMMA HasNone ==
    ASSUME NEW op
    PROVE  ~Has(<<>>, op)
BY DEF Has

LEMMA HasOne ==
    ASSUME NEW a, NEW op
    PROVE  Has(<<a>>, op) <=> op = a
BY DEF Has

LEMMA HasTwo ==
    ASSUME NEW a, NEW b, NEW op
    PROVE  Has(<<a, b>>, op) <=> op \in {a, b}
<1>1. 1..2 = {1, 2} /\ Len(<<a, b>>) = 2
  OBVIOUS
<1> QED BY <1>1 DEF Has

LEMMA HasThree ==
    ASSUME NEW a, NEW b, NEW c, NEW op
    PROVE  Has(<<a, b, c>>, op) <=> op \in {a, b, c}
<1>1. 1..3 = {1, 2, 3} /\ Len(<<a, b, c>>) = 3
  OBVIOUS
<1> QED BY <1>1 DEF Has

LEMMA HasConcat ==
    ASSUME NEW p \in Seq(Ops), NEW q \in Seq(Ops), NEW op
    PROVE  p \o q \in Seq(Ops) /\ Len(p \o q) = Len(p) + Len(q) /\ (Has(p \o q, op) => Has(p, op) \/ Has(q, op))
<1>1. p \o q \in Seq(Ops) /\ Len(p \o q) = Len(p) + Len(q) /\ Len(p) \in Nat /\ Len(q) \in Nat
  OBVIOUS
<1>2. ASSUME NEW i \in 1..Len(p \o q), (p \o q)[i] = op PROVE Has(p, op) \/ Has(q, op)
  <2>1. CASE i <= Len(p)
    <3>1. i \in 1..Len(p) /\ p[i] = op
      BY <1>1, <1>2, <2>1
    <3> QED BY <3>1 DEF Has
  <2>2. CASE ~(i <= Len(p))
    <3>1. i - Len(p) \in 1..Len(q) /\ q[i - Len(p)] = op
      BY <1>1, <1>2, <2>2
    <3> QED BY <3>1 DEF Has
  <2> QED BY <2>1, <2>2
<1> QED BY <1>1, <1>2 DEF Has

LEMMA HasTail ==
    ASSUME NEW p \in Seq(Ops), p # <<>>, NEW op
    PROVE  /\ Tail(p) \in Seq(Ops) /\ Len(Tail(p)) = Len(p) - 1 /\ (Has(Tail(p), op) => Has(p, op))
           /\ Has(p, Head(p)) /\ Len(p) \in Nat \ {0}
<1>1. Tail(p) \in Seq(Ops) /\ Len(Tail(p)) = Len(p) - 1 /\ Len(p) \in Nat \ {0}
  OBVIOUS
<1>2. ASSUME NEW i \in 1..Len(Tail(p)), Tail(p)[i] = op PROVE Has(p, op)
  <2>1. i + 1 \in 1..Len(p) /\ p[i + 1] = op
    BY <1>1, <1>2
  <2> QED BY <2>1 DEF Has
<1>3. 1 \in 1..Len(p) /\ p[1] = Head(p)
  BY <1>1
<1> QED BY <1>1, <1>2, <1>3 DEF Has

LEMMA DoesFacts ==
    ASSUME NEW x, handler[x] \in Handler, NEW todo \in Seq(Ops), NEW s \in Session, NEW h, h = Does(x, todo, s)
    PROVE  /\ h \in Handler /\ h.todo = todo /\ h.copy = s
           /\ h.act = handler[x].act /\ h.arg = handler[x].arg /\ h.n = handler[x].n
<1>1. h = [handler[x] EXCEPT !.todo = todo, !.copy = s]
  BY DEF Does
<1>2. h \in Handler
  BY <1>1 DEF Handler
<1>3. /\ h.todo = todo /\ h.copy = s /\ h.act = handler[x].act /\ h.arg = handler[x].arg /\ h.n = handler[x].n
  BY <1>1 DEF Handler
<1> QED BY <1>2, <1>3

LEMMA IdleFacts ==
    /\ Idle \in Handler /\ HandlerOK(Idle) /\ Idle.todo = <<>> /\ Idle.act = None /\ Idle.copy = Blank
<1>1. Idle.todo = <<>> /\ Idle.copy = Blank /\ Idle.act = None /\ Idle.n = 0 /\ Idle.arg = None
  BY DEF Idle
<1>2. Idle \in Handler
  BY BlankFacts, Constants DEF Idle, Handler
<1>3. \A op : ~Has(Idle.todo, op)
  BY <1>1 DEF Has
<1> QED BY <1>1, <1>2, <1>3 DEF HandlerOK

LEMMA HasLater ==
    ASSUME NEW a \in Ops, NEW q \in Seq(Ops), NEW op
    PROVE  Has(Tail(<<a>> \o q), op) => Has(q, op)
<1>1. PICK p : p = <<a>> \o q
  OBVIOUS
<1>2. p \in Seq(Ops) /\ Len(p) = 1 + Len(q) /\ Len(q) \in Nat /\ \A i \in 1..Len(q) : p[i + 1] = q[i]
  BY <1>1
<1>3. p # <<>>
  BY <1>2
<1>4. Len(Tail(p)) = Len(q) /\ \A i \in 1..Len(q) : Tail(p)[i] = p[i + 1]
  BY <1>2, <1>3
<1>5. \A i \in 1..Len(Tail(p)) : Tail(p)[i] = q[i]
  BY <1>2, <1>4
<1> QED BY <1>1, <1>4, <1>5 DEF Has

LEMMA OpsAre ==
    /\ <<"read">> \in Seq(Ops) /\ <<"save">> \in Seq(Ops) /\ <<"clear">> \in Seq(Ops) /\ <<"check">> \in Seq(Ops)
    /\ <<"announceNow">> \in Seq(Ops) /\ <<>> \in Seq(Ops)
    /\ <<"insert", "send", "clear">> \in Seq(Ops) /\ <<"clear", "insert", "send">> \in Seq(Ops)
    /\ <<"clear", "offer">> \in Seq(Ops) /\ <<"announceNow", "send">> \in Seq(Ops)
    /\ <<"check", "insert", "send">> \in Seq(Ops)
BY DEF Ops

\* The accesses of publish.
LEMMA PublishFacts ==
    ASSUME NEW x, handler[x] \in Handler, NEW s, SessionOK(s), s.kind = "cargo", s.step = None,
           NEW h, h \in publish(x, s)
    PROVE  /\ h \in Handler /\ h.copy = s /\ h.act = handler[x].act /\ h.n = handler[x].n
           /\ \A op : Has(h.todo, op) => op \in {"check", "insert", "send", "clear"}
           /\ Has(h.todo, "check") => s.src \in Suggestions /\ Len(h.todo) >= 2 /\ ~Has(Tail(h.todo), "check")
           /\ Has(h.todo, "clear")
<1>1. PICK q : q = <<"insert", "send", "clear">>
  OBVIOUS
<1>2. PICK p : p = IF s.src = None THEN <<>> ELSE <<"check">>
  OBVIOUS
<1>3. h = Does(x, p \o q, s)
  BY <1>1, <1>2 DEF publish
<1>4. q \in Seq(Ops) /\ p \in Seq(Ops) /\ s \in Session /\ s.src \in Suggestions \cup {None} /\ Len(q) = 3
  BY <1>1, <1>2, OpsAre DEF SessionOK, FormOK
<1>5. \A op : (Has(q, op) => op \in {"insert", "send", "clear"}) /\ (Has(p, op) => s.src # None /\ op = "check")
  BY <1>1, <1>2, HasNone, HasOne, HasThree
<1>6. PICK t \in Seq(Ops) : t = p \o q
  BY <1>4, HasConcat
<1>7. h \in Handler /\ h.todo = t /\ h.copy = s /\ h.act = handler[x].act /\ h.n = handler[x].n
  <2>1. h = Does(x, t, s)
    BY <1>3, <1>6
  <2> QED BY <1>4, <2>1, DoesFacts
<1>8. \A op : Has(t, op) => Has(p, op) \/ Has(q, op)
  BY <1>4, <1>6, HasConcat
<1>9. ASSUME Has(t, "check") PROVE s.src \in Suggestions /\ Len(t) >= 2 /\ ~Has(Tail(t), "check")
  <2>1. ~Has(q, "check")
    BY <1>5
  <2>2. s.src # None /\ p = <<"check">>
    BY <1>2, <1>5, <1>8, <1>9, <2>1
  <2>3. Len(t) = 4
    <3>1. Len(p) = 1
      BY <2>2
    <3>2. Len(t) = Len(p) + Len(q)
      BY <1>4, <1>6, HasConcat
    <3> QED BY <1>4, <3>1, <3>2
  <2>4. ~Has(Tail(t), "check")
    <3>1. "check" \in Ops
      BY DEF Ops
    <3>2. Has(Tail(<<"check">> \o q), "check") => Has(q, "check")
      BY <1>4, <3>1, HasLater
    <3> QED BY <1>6, <2>1, <2>2, <3>2
  <2> QED BY <1>4, <2>2, <2>3, <2>4
<1>10. Has(t, "clear")
  <2>1. q[3] = "clear"
    BY <1>1
  <2>2. Len(t) = Len(p) + 3 /\ Len(p) \in Nat
    <3>1. Len(t) = Len(p) + Len(q)
      BY <1>4, <1>6, HasConcat
    <3>2. Len(p) \in Nat
      BY <1>4
    <3> QED BY <1>4, <3>1, <3>2
  <2>3. t[Len(p) + 3] = q[3]
    BY <1>4, <1>6, <2>2
  <2>4. Len(p) + 3 \in 1..Len(t)
    BY <2>2
  <2> QED BY <2>1, <2>3, <2>4 DEF Has
<1> QED BY <1>5, <1>7, <1>8, <1>9, <1>10

\* What an update leads to is safe to do.
LEMMA OutcomeHandler ==
    ASSUME NEW x, handler[x] \in Handler, NEW s, SessionOK(s), PickShown(s), NEW h, Outcome(x, s, h)
    PROVE  h \in Handler /\ HandlerOK(h)
<1>1. CASE h = Idle
  BY <1>1, IdleFacts
<1>2. ASSUME NEW r, h = Does(x, <<"save">>, r), Written(x, s, r) PROVE h \in Handler /\ HandlerOK(h)
  <2>1. SessionOK(r) /\ r \in Session /\ (handler[x].act = "assignPick" \/ PickShown(r))
    BY <1>2 DEF Written, SessionOK
  <2>2. PICK t \in Seq(Ops) : t = <<"save">>
    BY OpsAre
  <2>3. h = Does(x, t, r)
    BY <1>2, <2>2
  <2>4. h \in Handler /\ h.todo = t /\ h.copy = r /\ h.act = handler[x].act
    BY <2>1, <2>3, DoesFacts
  <2>5. \A op : Has(h.todo, op) => op = "save"
    BY <2>2, <2>4, HasOne
  <2> QED BY <2>1, <2>4, <2>5 DEF HandlerOK
<1>3. CASE h = Does(x, <<"clear">>, Blank)
  <2>1. PICK t \in Seq(Ops) : t = <<"clear">>
    BY OpsAre
  <2>2. h = Does(x, t, Blank)
    BY <1>3, <2>1
  <2>3. h \in Handler /\ h.todo = t
    BY <2>2, BlankFacts, DoesFacts
  <2>4. \A op : Has(h.todo, op) => op = "clear"
    BY <2>1, <2>3, HasOne
  <2> QED BY <2>3, <2>4 DEF HandlerOK
<1>4. CASE s.kind = "cargo" /\ s.step = None /\ h \in publish(x, s)
  <2>1. Complete(s) /\ s.src \in Suggestions \cup {None}
    BY <1>4 DEF SessionOK, FormOK
  <2>2. /\ h \in Handler /\ h.copy = s
        /\ \A op : Has(h.todo, op) => op \in {"check", "insert", "send", "clear"}
        /\ Has(h.todo, "check") => s.src \in Suggestions /\ Len(h.todo) >= 2 /\ ~Has(Tail(h.todo), "check")
    <3>1. s.kind = "cargo" /\ s.step = None /\ h \in publish(x, s)
      BY <1>4
    <3>2. h \in Handler
      BY <3>1, PublishFacts
    <3>3. h.copy = s
      BY <3>1, PublishFacts
    <3>4. \A op : Has(h.todo, op) => op \in {"check", "insert", "send", "clear"}
      BY <3>1, PublishFacts
    <3>5. Has(h.todo, "check") => s.src \in Suggestions /\ Len(h.todo) >= 2 /\ ~Has(Tail(h.todo), "check")
      BY <3>1, PublishFacts
    <3> QED BY <3>2, <3>3, <3>4, <3>5
  <2>3. ~Has(h.todo, "read") /\ ~Has(h.todo, "save") /\ ~Has(h.todo, "announceNow") /\ ~Has(h.todo, "offer")
    BY <2>2
  <2> QED BY <2>1, <2>2, <2>3 DEF HandlerOK
<1>5. CASE s.kind = "excel" /\ s.step = "rows" /\ h \in excelConfirm(x, s)
  <2>1. Complete(s) /\ s.src = None /\ s \in Session
    BY <1>5 DEF SessionOK
  <2>2. PICK t \in Seq(Ops) : t = <<"clear", "insert", "send">>
    BY OpsAre
  <2>3. h = Does(x, t, s)
    BY <1>5, <2>2 DEF excelConfirm
  <2>4. h \in Handler /\ h.todo = t /\ h.copy = s
    BY <2>1, <2>3, DoesFacts
  <2>5. \A op : Has(h.todo, op) => op \in {"clear", "insert", "send"}
    BY <2>2, <2>4, HasThree
  <2> QED BY <2>1, <2>4, <2>5 DEF HandlerOK
<1>6. CASE s.kind = "assign" /\ s.picked # 0 /\ h = Does(x, <<"clear", "offer">>, s)
  <2>1. s \in Session
    BY DEF SessionOK
  <2>2. PICK t \in Seq(Ops) : t = <<"clear", "offer">>
    BY OpsAre
  <2>3. h = Does(x, t, s)
    BY <1>6, <2>2
  <2>4. h \in Handler /\ h.todo = t /\ h.copy = s
    BY <2>1, <2>3, DoesFacts
  <2>5. \A op : Has(h.todo, op) => op \in {"clear", "offer"}
    BY <2>2, <2>4, HasTwo
  <2> QED BY <1>6, <2>4, <2>5 DEF HandlerOK
<1> QED BY <1>1, <1>2, <1>3, <1>4, <1>5, <1>6 DEF Outcome

-----------------------------------------------------------------------------
(* Every step keeps the inductive invariant. *)

SessionInv == SessionOK(session) /\ PickShown(session)

\* What the invariants say of everything but the session and the handlers.
RestInv ==
    /\ menu \in Menus /\ profile \in BOOLEAN
    /\ listing \in [Suggestions -> {"none", "quiet", "announced"}]
    /\ updates \in 0..MaxUpdates /\ faults \in 0..MaxFaults
    /\ overlap \in BOOLEAN /\ loads \subseteq SUBSET Fields /\ made \in [Sources -> 0..2]
    /\ shown \subseteq Listings \X Drivers /\ offers \subseteq Listings \X Drivers
    /\ LoadsComplete /\ OfferShown /\ MadeOK

LEMMA InvParts ==
    ASSUME IInv
    PROVE  /\ SessionInv /\ RestInv /\ handler \in [Handlers -> Handler]
           /\ \A x \in Handlers : handler[x] \in Handler /\ HandlerOK(handler[x])
BY DEF IInv, TypeOK, SessionInv, RestInv

LEMMA PartsInv ==
    ASSUME SessionInv', RestInv', handler' \in [Handlers -> Handler], \A x \in Handlers : HandlerOK(handler[x])'
    PROVE  IInv'
<1>1. session' \in Session /\ session'.picked <= Len(session'.drivers)
  BY DEF SessionInv, SessionOK
<1>2. \A x \in Handlers : handler'[x].copy \in Session /\ handler'[x].todo \in Seq(Ops)
  BY DEF Handler
<1>3. TypeOK'
  BY <1>1, <1>2 DEF RestInv, TypeOK
<1> QED BY <1>3 DEF IInv, SessionInv, RestInv

\* What a handler needs stays true when more has been shown.
LEMMA HandlerKept ==
    ASSUME NEW h, HandlerOK(h), profile' = profile, shown \subseteq shown'
    PROVE  HandlerOK(h)'
<1>1. \A s : Complete(s) => Complete(s)'
  BY DEF Complete
<1>2. \A s : PickShown(s) => PickShown(s)'
  BY DEF PickShown, Pair
<1>3. SessionOK(h.copy) => SessionOK(h.copy)'
  BY DEF SessionOK, FormOK, Complete
<1>4. Complete(h.copy) => Complete(h.copy)'
  BY <1>1
<1>5. PickShown(h.copy) => PickShown(h.copy)'
  BY <1>2
<1>6. (Has(h.todo, "read") => ArgOK(h)) => (Has(h.todo, "read") => ArgOK(h))'
  BY DEF ArgOK, Has
<1> QED BY <1>3, <1>4, <1>5, <1>6 DEF HandlerOK, Has

LEMMA MoveInv ==
    ASSUME IInv, NEW x \in Handlers, NEW h \in Handler, HandlerOK(h), Go(x, h),
           profile' = profile, shown \subseteq shown', SessionInv', RestInv'
    PROVE  IInv'
<1>1. handler' \in [Handlers -> Handler] /\ \A y \in Handlers : handler'[y] = IF y = x THEN h ELSE handler[y]
  BY InvParts DEF Go
<1>2. HandlerOK(h)'
  BY HandlerKept
<1>3. \A y \in Handlers : HandlerOK(handler[y])'
  <2> TAKE y \in Handlers
  <2>1. CASE y = x
    <3>1. handler'[y] = h
      BY <1>1, <2>1
    <3> QED BY <1>2, <3>1 DEF HandlerOK, ArgOK, SessionOK, FormOK, Complete, PickShown, Pair, Has
  <2>2. CASE y # x
    <3>1. PICK g : g = handler[y]
      OBVIOUS
    <3>2. handler'[y] = g
      BY <1>1, <2>2, <3>1
    <3>3. HandlerOK(g)'
      BY <3>1, InvParts, HandlerKept
    <3> QED BY <3>2, <3>3 DEF HandlerOK, ArgOK, SessionOK, FormOK, Complete, PickShown, Pair, Has
  <2> QED BY <2>1, <2>2
<1> QED BY <1>1, <1>3, PartsInv

\* The handler goes on with the next access.
LEMMA OnwardFacts ==
    ASSUME IInv, NEW x \in Handlers, handler[x].todo # <<>>, NEW h, h = Onward(x)
    PROVE  /\ h \in Handler /\ HandlerOK(h)
           /\ \A op : Has(h.todo, op) => Has(handler[x].todo, op)
           /\ h # Idle => h.copy = handler[x].copy /\ h.act = handler[x].act /\ h.n = handler[x].n
<1>1. PICK me \in Handler : me = handler[x] /\ HandlerOK(me)
  BY InvParts
<1>2. me.todo \in Seq(Ops) /\ me.todo # <<>>
  BY <1>1 DEF Handler
<1>3. CASE Len(me.todo) = 1
  <2>1. h = Idle
    BY <1>1, <1>3 DEF Onward
  <2> QED BY <2>1, IdleFacts, HasNone
<1>4. CASE Len(me.todo) # 1
  <2>1. PICK t : t = Tail(me.todo)
    OBVIOUS
  <2>2. t \in Seq(Ops) /\ \A op : Has(t, op) => Has(me.todo, op)
    BY <1>2, <2>1, HasTail
  <2>3. h = [me EXCEPT !.todo = t]
    BY <1>1, <1>4, <2>1 DEF Onward
  <2>4. h \in Handler
    BY <2>2, <2>3 DEF Handler
  <2>5. h.todo = t /\ h.copy = me.copy /\ h.act = me.act /\ h.arg = me.arg /\ h.n = me.n
    BY <2>3 DEF Handler
  <2>6. ArgOK(me) => ArgOK(h)
    BY <2>5 DEF ArgOK
  <2>7. ~Has(t, "check")
    BY <1>1, <2>1, <2>2 DEF HandlerOK
  <2>8. HandlerOK(h)
    BY <1>1, <2>2, <2>5, <2>6, <2>7 DEF HandlerOK
  <2> QED BY <1>1, <2>2, <2>4, <2>5, <2>8
<1> QED BY <1>3, <1>4

LEMMA AtFacts ==
    ASSUME IInv, NEW x \in Handlers, NEW op, At(x, op)
    PROVE  handler[x].todo # <<>> /\ Has(handler[x].todo, op)
<1>1. handler[x].todo \in Seq(Ops)
  BY InvParts DEF Handler
<1> QED BY <1>1, HasTail DEF At

\* Nothing but the handler, or but the session.
LEMMA SameSession ==
    ASSUME IInv, session' = session, profile' = profile, shown \subseteq shown'
    PROVE  SessionInv'
BY InvParts DEF SessionInv, SessionOK, FormOK, Complete, PickShown, Pair

LEMMA SameRest ==
    ASSUME IInv, UNCHANGED <<menu, profile, listing, loads, made, shown, offers>>,
           updates' \in 0..MaxUpdates, faults' \in 0..MaxFaults, overlap' \in BOOLEAN
    PROVE  RestInv'
BY InvParts DEF RestInv, LoadsComplete, OfferShown, MadeOK

LEMMA Counters ==
    ASSUME IInv
    PROVE  updates \in 0..MaxUpdates /\ faults \in 0..MaxFaults /\ overlap \in BOOLEAN
BY InvParts DEF RestInv

LEMMA ReadInv ==
    ASSUME IInv, NEW x \in Handlers, Read(x)
    PROVE  IInv'
<1>1. UNCHANGED <<menu, profile, session, listing, updates, faults, overlap, loads, made, shown, offers>> /\ At(x, "read")
  BY DEF Read, history
<1>2. handler[x] \in Handler /\ ArgOK(handler[x]) /\ handler[x].n \in 0..MaxUpdates
  BY <1>1, AtFacts, InvParts DEF HandlerOK, Handler
<1>3. PICK h \in Outcomes(x, session) : Go(x, h)
  BY DEF Read
<1>4. SessionOK(session) /\ PickShown(session)
  BY InvParts DEF SessionInv
<1>5. Outcome(x, session, h)
  BY <1>2, <1>4, OutcomeOf
<1>6. h \in Handler /\ HandlerOK(h)
  BY <1>2, <1>4, <1>5, OutcomeHandler
<1>7. SessionInv' /\ RestInv'
  BY <1>1, Counters, SameSession, SameRest
<1> QED BY <1>1, <1>3, <1>6, <1>7, MoveInv

\* The details of the driver that was picked are shown when the session says so.
LEMMA SaveInv ==
    ASSUME IInv, NEW x \in Handlers, Save(x)
    PROVE  IInv'
<1>1. UNCHANGED <<menu, profile, listing, updates, faults, overlap, loads, made, offers>> /\ At(x, "save")
  BY DEF Save
<1>2. PICK me \in Handler : me = handler[x] /\ HandlerOK(me) /\ me.todo # <<>> /\ Has(me.todo, "save")
  BY <1>1, InvParts, AtFacts
<1>3. PICK s : s = me.copy /\ session' = s
  BY <1>2 DEF Save
<1>4. SessionOK(s) /\ (me.act = "assignPick" \/ PickShown(s))
  BY <1>2, <1>3 DEF HandlerOK
<1>5. shown' = IF me.act = "assignPick" /\ s.picked # 0 THEN shown \cup {Pair(s)} ELSE shown
  BY <1>2, <1>3 DEF Save, Pair
<1>6. shown \subseteq shown'
  BY <1>5
<1>7. s.picked # 0 => Pair(s) \in Listings \X Drivers
  <2>1. SUFFICES ASSUME s.picked # 0 PROVE Pair(s) \in Listings \X Drivers
    OBVIOUS
  <2>2. s.src \in Listings /\ s.drivers \in Seq(Drivers) /\ s.picked \in Nat /\ s.picked <= Len(s.drivers)
    BY <1>4, <2>1 DEF SessionOK, Session
  <2>3. s.picked \in 1..Len(s.drivers)
    BY <2>1, <2>2
  <2>4. s.drivers[s.picked] \in Drivers
    BY <2>2, <2>3
  <2> QED BY <2>2, <2>4 DEF Pair
<1>8. SessionInv'
  <2>1. SessionOK(session)'
    BY <1>1, <1>3, <1>4 DEF SessionOK, FormOK, Complete
  <2>2. s.picked # 0 => Pair(s) \in shown'
    BY <1>4, <1>5, <1>6 DEF PickShown
  <2>3. PickShown(session)'
    BY <1>3, <2>2 DEF PickShown, Pair
  <2> QED BY <2>1, <2>3 DEF SessionInv
<1>9. RestInv'
  <2>1. shown' \subseteq Listings \X Drivers
    BY <1>5, <1>7, InvParts DEF RestInv
  <2> QED BY <1>1, <1>6, <2>1, InvParts DEF RestInv, LoadsComplete, OfferShown, MadeOK
<1>10. PICK h : h = Onward(x)
  OBVIOUS
<1>11. h \in Handler /\ HandlerOK(h) /\ Go(x, h)
  BY <1>2, <1>10, OnwardFacts DEF Save
<1> QED BY <1>1, <1>6, <1>8, <1>9, <1>11, MoveInv

LEMMA ClearedSession ==
    ASSUME session' = Blank
    PROVE  SessionInv'
<1>1. session'.picked = 0 /\ session'.kind = "none" /\ session' \in Session /\ Len(session'.drivers) \in Nat
  BY BlankFacts DEF Blank
<1> QED BY <1>1 DEF SessionInv, SessionOK, PickShown

LEMMA ClearInv ==
    ASSUME IInv, NEW x \in Handlers, Clear(x)
    PROVE  IInv'
<1>1. UNCHANGED <<menu, profile, listing, updates, faults, overlap, loads, made, shown, offers>> /\ At(x, "clear")
  BY DEF Clear, history
<1>2. SessionInv' /\ RestInv'
  BY <1>1, Counters, ClearedSession, SameRest DEF Clear
<1>3. PICK h : h = Onward(x)
  OBVIOUS
<1>4. h \in Handler /\ HandlerOK(h) /\ Go(x, h)
  BY <1>1, <1>3, AtFacts, OnwardFacts DEF Clear
<1> QED BY <1>1, <1>2, <1>4, MoveInv

LEMMA RefusedFacts ==
    ASSUME IInv, NEW x \in Handlers, NEW h, h = Refused(x)
    PROVE  /\ h \in Handler /\ HandlerOK(h) /\ \A op : Has(h.todo, op) => op = "clear"
           /\ h = Idle \/ (h.copy = handler[x].copy /\ h.act = handler[x].act /\ h.n = handler[x].n)
<1>1. CASE h = Idle
  BY <1>1, IdleFacts, HasNone
<1>2. CASE h = [handler[x] EXCEPT !.todo = <<"clear">>]
  <2>1. PICK t \in Seq(Ops) : t = <<"clear">>
    BY OpsAre
  <2>2. h = [handler[x] EXCEPT !.todo = t] /\ handler[x] \in Handler
    BY <1>2, <2>1, InvParts
  <2>3. h \in Handler
    BY <2>2 DEF Handler
  <2>4. h.todo = t /\ h.copy = handler[x].copy /\ h.act = handler[x].act /\ h.n = handler[x].n
    BY <2>2 DEF Handler
  <2>5. \A op : Has(h.todo, op) <=> op = "clear"
    BY <2>1, <2>4, HasOne
  <2> QED BY <2>3, <2>4, <2>5 DEF HandlerOK
<1> QED BY <1>1, <1>2 DEF Refused

\* A load that waits is announced instead of inserted.
LEMMA AnnouncesFacts ==
    ASSUME IInv, NEW x \in Handlers, At(x, "check"),
           NEW h, h = [handler[x] EXCEPT !.todo = <<"announceNow">> \o Tail(Tail(@))]
    PROVE  /\ h \in Handler /\ HandlerOK(h) /\ h.copy = handler[x].copy /\ h.act = handler[x].act /\ h.n = handler[x].n
           /\ \A op : Has(h.todo, op) => op = "announceNow" \/ Has(handler[x].todo, op)
<1>1. PICK me \in Handler : me = handler[x] /\ HandlerOK(me) /\ me.todo # <<>> /\ Has(me.todo, "check")
  BY InvParts, AtFacts
<1>2. PICK t1 : t1 = Tail(me.todo)
  OBVIOUS
<1>3. me.todo \in Seq(Ops) /\ t1 \in Seq(Ops) /\ Len(t1) = Len(me.todo) - 1 /\ \A op : Has(t1, op) => Has(me.todo, op)
  <2>1. me.todo \in Seq(Ops)
    BY DEF Handler
  <2> QED BY <1>1, <1>2, <2>1, HasTail
<1>4. Len(me.todo) >= 2 /\ ~Has(t1, "check")
  BY <1>1, <1>2 DEF HandlerOK
<1>5. t1 # <<>>
  BY <1>3, <1>4
<1>6. PICK t2 : t2 = Tail(t1)
  OBVIOUS
<1>7. t2 \in Seq(Ops) /\ \A op : Has(t2, op) => Has(t1, op)
  BY <1>3, <1>5, <1>6, HasTail
<1>8. PICK p \in Seq(Ops) : p = <<"announceNow">>
  BY OpsAre
<1>9. \A op : Has(p, op) => op = "announceNow"
  BY <1>8, HasOne
<1>10. PICK t : t = p \o t2
  OBVIOUS
<1>11. t \in Seq(Ops)
  BY <1>7, <1>10
<1>12. \A op : Has(t, op) => Has(p, op) \/ Has(t2, op)
  BY <1>7, <1>10, HasConcat
<1>13. \A op : Has(t, op) => op = "announceNow" \/ Has(t1, op)
  BY <1>7, <1>9, <1>12
<1>14. h = [me EXCEPT !.todo = t]
  BY <1>1, <1>2, <1>6, <1>8, <1>10
<1>15. h \in Handler
  BY <1>11, <1>14 DEF Handler
<1>16. h.todo = t /\ h.copy = me.copy /\ h.act = me.act /\ h.arg = me.arg /\ h.n = me.n
  BY <1>14 DEF Handler
<1>17. ArgOK(me) => ArgOK(h)
  BY <1>16 DEF ArgOK
<1>18. me.copy.src \in Suggestions
  BY <1>1 DEF HandlerOK
<1>19. \A op : Has(h.todo, op) => op = "announceNow" \/ (Has(me.todo, op) /\ op # "check")
  BY <1>3, <1>4, <1>13, <1>16
<1>20. HandlerOK(h)
  BY <1>1, <1>16, <1>17, <1>18, <1>19 DEF HandlerOK
<1> QED BY <1>1, <1>15, <1>16, <1>19, <1>20

LEMMA CheckInv ==
    ASSUME IInv, NEW x \in Handlers, Check(x)
    PROVE  IInv'
<1>1. UNCHANGED <<menu, profile, session, listing, updates, faults, overlap, loads, made, shown, offers>> /\ At(x, "check")
  BY DEF Check, history
<1>2. SessionInv' /\ RestInv'
  BY <1>1, Counters, SameSession, SameRest
<1>3. PICK n \in Suggestions : n = handler[x].copy.src
  BY <1>1, AtFacts, InvParts DEF HandlerOK
<1>4. listing[n] \in {"none", "quiet", "announced"}
  BY InvParts DEF RestInv
<1>5. PICK h : /\ Go(x, h)
               /\ h \in {Onward(x), [handler[x] EXCEPT !.todo = <<"announceNow">> \o Tail(Tail(@))], Refused(x)}
  BY <1>3, <1>4 DEF Check
<1>6. h \in Handler /\ HandlerOK(h)
  <2>1. handler[x].todo # <<>>
    BY <1>1, AtFacts
  <2>2. CASE h = Onward(x)
    BY <2>1, <2>2, OnwardFacts
  <2>3. CASE h = [handler[x] EXCEPT !.todo = <<"announceNow">> \o Tail(Tail(@))]
    BY <1>1, <2>3, AnnouncesFacts
  <2>4. CASE h = Refused(x)
    BY <2>4, RefusedFacts
  <2> QED BY <1>5, <2>2, <2>3, <2>4
<1> QED BY <1>1, <1>2, <1>5, <1>6, MoveInv

\* A load is made of a suggestion only when it has none yet, and the load is complete.
LEMMA InsertInv ==
    ASSUME IInv, NEW x \in Handlers, Insert(x)
    PROVE  IInv'
<1>1. UNCHANGED <<menu, profile, session, updates, faults, overlap, shown, offers>> /\ At(x, "insert")
  BY DEF Insert
<1>2. PICK me \in Handler : me = handler[x] /\ HandlerOK(me) /\ me.todo # <<>> /\ Has(me.todo, "insert")
  BY <1>1, InvParts, AtFacts
<1>3. SessionInv'
  BY <1>1, SameSession
<1>4. CASE Go(x, Refused(x)) /\ UNCHANGED <<listing, loads, made>>
  <2>1. RestInv'
    BY <1>1, <1>4, Counters, SameRest
  <2>2. PICK h : h = Refused(x)
    OBVIOUS
  <2>3. h \in Handler /\ HandlerOK(h) /\ Go(x, h)
    BY <1>4, <2>2, RefusedFacts
  <2> QED BY <1>1, <1>3, <2>1, <2>3, MoveInv
<1>5. ASSUME MayInsert(me.copy), NEW to \in {"quiet", "announced"}, Go(x, Onward(x)),
             NEW source, source = IF me.copy.src = None THEN me.copy.form ELSE me.copy.src,
             made' = [made EXCEPT ![source] = IF @ = 2 THEN 2 ELSE @ + 1],
             loads' = loads \cup {me.copy.has \cup (IF profile THEN {"phone"} ELSE {})},
             listing' = IF me.copy.src = None THEN listing ELSE [listing EXCEPT ![me.copy.src] = to]
      PROVE  IInv'
  <2>1. PICK s \in Session : s = me.copy
    BY DEF Handler
  <2>2. Complete(s) /\ s.src \in Suggestions \cup {None}
    BY <1>2, <2>1 DEF HandlerOK
  <2>3. /\ made \in [Sources -> 0..2] /\ listing \in [Suggestions -> {"none", "quiet", "announced"}]
        /\ MadeOK /\ LoadsComplete /\ loads \subseteq SUBSET Fields
    BY InvParts DEF RestInv
  <2>4. made' \in [Sources -> 0..2]
    <3>1. PICK v : v = IF made[source] = 2 THEN 2 ELSE made[source] + 1
      OBVIOUS
    <3>2. made' = [made EXCEPT ![source] = v]
      BY <1>5, <3>1
    <3>3. source \in Sources => made[source] \in 0..2
      BY <2>3
    <3>4. source \in Sources => v \in 0..2
      BY <3>1, <3>3
    <3> QED BY <2>3, <3>2, <3>4
  <2>5. listing' \in [Suggestions -> {"none", "quiet", "announced"}]
    BY <1>5, <2>3
  <2>6. PICK has : has = s.has \cup (IF profile THEN {"phone"} ELSE {})
    OBVIOUS
  <2>7. has \in SUBSET Fields /\ Required \subseteq has
    <3>1. s.has \subseteq Fields /\ "phone" \in Fields
      BY FieldsAre DEF Session
    <3> QED BY <2>2, <2>6, <3>1 DEF Complete
  <2>8. loads' = loads \cup {has}
    BY <1>5, <2>1, <2>6
  <2>9. LoadsComplete' /\ loads' \subseteq SUBSET Fields
    BY <2>3, <2>7, <2>8 DEF LoadsComplete
  <2>10. MadeOK'
    <3> SUFFICES ASSUME NEW n \in Suggestions
                 PROVE  made'[n] <= 1 /\ (listing'[n] = "none" => made'[n] = 0)
      BY DEF MadeOK
    <3>1. n \in Sources /\ made[n] \in 0..2 /\ made[n] <= 1 /\ (listing[n] = "none" => made[n] = 0)
      BY <2>3 DEF Sources, MadeOK
    <3>2. CASE s.src = None
      <4>1. source = s.form /\ s.form \in 0..MaxUpdates /\ listing' = listing
        BY <1>5, <2>1, <3>2 DEF Session
      <4>2. n # source
        BY <4>1, Constants
      <4>3. made'[n] = made[n]
        BY <1>5, <2>3, <3>1, <4>2
      <4> QED BY <3>1, <4>1, <4>3
    <3>3. CASE s.src # None /\ n # s.src
      <4>1. made'[n] = made[n] /\ listing'[n] = listing[n]
        BY <1>5, <2>1, <2>3, <3>1, <3>3
      <4> QED BY <3>1, <4>1
    <3>4. CASE s.src # None /\ n = s.src
      <4>1. listing[n] = "none"
        BY <1>5, <2>1, <3>4 DEF MayInsert
      <4>2. made'[n] = 1
        BY <1>5, <2>1, <2>3, <3>1, <3>4, <4>1
      <4>3. listing'[n] = to
        BY <1>5, <2>1, <2>3, <3>4
      <4> QED BY <1>5, <4>2, <4>3
    <3> QED BY <3>2, <3>3, <3>4
  <2>11. RestInv'
    BY <1>1, <2>4, <2>5, <2>9, <2>10, InvParts DEF RestInv, OfferShown
  <2>12. PICK h : h = Onward(x)
    OBVIOUS
  <2>13. h \in Handler /\ HandlerOK(h) /\ Go(x, h)
    BY <1>2, <1>5, <2>12, OnwardFacts
  <2> QED BY <1>1, <1>3, <2>11, <2>13, MoveInv
<1> QED BY <1>2, <1>4, <1>5 DEF Insert

LEMMA AnnounceNowInv ==
    ASSUME IInv, NEW x \in Handlers, AnnounceNow(x)
    PROVE  IInv'
<1>1. UNCHANGED <<menu, profile, session, updates, faults, overlap, loads, made, shown, offers>> /\ At(x, "announceNow")
  BY DEF AnnounceNow, history
<1>2. PICK n : n = handler[x].copy.src
  OBVIOUS
<1>3. listing' = [listing EXCEPT ![n] = "announced"]
  BY <1>2 DEF AnnounceNow
<1>4. listing \in [Suggestions -> {"none", "quiet", "announced"}] /\ MadeOK
  BY InvParts DEF RestInv
<1>5. listing' \in [Suggestions -> {"none", "quiet", "announced"}]
  BY <1>3, <1>4
<1>6. MadeOK'
  BY <1>1, <1>3, <1>4 DEF MadeOK
<1>7. RestInv'
  BY <1>1, <1>5, <1>6, InvParts DEF RestInv, LoadsComplete, OfferShown
<1>8. SessionInv'
  BY <1>1, SameSession
<1>9. PICK h : h = Onward(x)
  OBVIOUS
<1>10. h \in Handler /\ HandlerOK(h) /\ Go(x, h)
  BY <1>1, <1>9, AtFacts, OnwardFacts DEF AnnounceNow
<1> QED BY <1>1, <1>7, <1>8, <1>10, MoveInv

LEMMA SendInv ==
    ASSUME IInv, NEW x \in Handlers, SendToDrivers(x)
    PROVE  IInv'
<1>1. UNCHANGED <<menu, profile, session, listing, updates, faults, overlap, loads, made, shown, offers>> /\ At(x, "send")
  BY DEF SendToDrivers, history
<1>2. SessionInv' /\ RestInv'
  BY <1>1, Counters, SameSession, SameRest
<1>3. PICK h : h = Onward(x)
  OBVIOUS
<1>4. h \in Handler /\ HandlerOK(h) /\ Go(x, h)
  BY <1>1, <1>3, AtFacts, OnwardFacts DEF SendToDrivers
<1> QED BY <1>1, <1>2, <1>4, MoveInv

LEMMA StartOfferInv ==
    ASSUME IInv, NEW x \in Handlers, StartOffer(x)
    PROVE  IInv'
<1>1. UNCHANGED <<menu, profile, session, listing, updates, faults, overlap, loads, made, shown>> /\ At(x, "offer")
  BY DEF StartOffer
<1>2. PICK s : s = handler[x].copy
  OBVIOUS
<1>3. Pair(s) \in shown
  BY <1>1, <1>2, AtFacts, InvParts DEF HandlerOK, PickShown
<1>4. offers' = offers \cup {Pair(s)}
  BY <1>2 DEF StartOffer, Pair
<1>5. RestInv'
  BY <1>1, <1>3, <1>4, InvParts DEF RestInv, LoadsComplete, OfferShown, MadeOK
<1>6. SessionInv'
  BY <1>1, SameSession
<1>7. PICK h : h = Onward(x)
  OBVIOUS
<1>8. h \in Handler /\ HandlerOK(h) /\ Go(x, h)
  BY <1>1, <1>7, AtFacts, OnwardFacts DEF StartOffer
<1> QED BY <1>1, <1>5, <1>6, <1>8, MoveInv

LEMMA FailInv ==
    ASSUME IInv, NEW x \in Handlers, Fail(x)
    PROVE  IInv'
<1>1. UNCHANGED <<menu, profile, session, listing, updates, overlap, loads, made, shown, offers>> /\ Go(x, Idle)
  BY DEF Fail, history
<1>2. faults' \in 0..MaxFaults
  BY Counters, Constants DEF Fail
<1>3. SessionInv' /\ RestInv'
  BY <1>1, <1>2, Counters, SameSession, SameRest
<1> QED BY <1>1, <1>3, IdleFacts, MoveInv

\* A step of no handler.
LEMMA OutsideInv ==
    ASSUME IInv, UNCHANGED <<handler, profile, shown>>, SessionInv', RestInv'
    PROVE  IInv'
<1>1. \A x \in Handlers : HandlerOK(handler[x])'
  <2> TAKE x \in Handlers
  <2>1. PICK g : g = handler[x]
    OBVIOUS
  <2>2. HandlerOK(g)'
    BY <2>1, InvParts, HandlerKept
  <2>3. handler'[x] = g
    BY <2>1
  <2> QED BY <2>2, <2>3 DEF HandlerOK, ArgOK, SessionOK, FormOK, Complete, PickShown, Pair, Has
<1>2. handler' \in [Handlers -> Handler]
  BY InvParts
<1> QED BY <1>1, <1>2, PartsInv

LEMMA ExpireInv ==
    ASSUME IInv, Expire
    PROVE  IInv'
<1>1. UNCHANGED <<menu, profile, listing, handler, updates, faults, overlap, loads, made, shown, offers>>
  BY DEF Expire, history
<1>2. SessionInv' /\ RestInv'
  BY <1>1, Counters, ClearedSession, SameRest DEF Expire
<1> QED BY <1>1, <1>2, OutsideInv

LEMMA SameInv ==
    ASSUME IInv, UNCHANGED vars
    PROVE  IInv'
<1>1. UNCHANGED <<menu, profile, session, listing, handler, updates, faults, overlap, loads, made, shown, offers>>
  BY DEF vars, history
<1>2. SessionInv' /\ RestInv'
  BY <1>1, Counters, SameSession, SameRest
<1> QED BY <1>1, <1>2, OutsideInv

\* An update, or a turn, starts a handler.
LEMMA TakeInv ==
    ASSUME IInv, NEW x \in Handlers, NEW h \in Handler, HandlerOK(h), Take(x, h)
    PROVE  IInv'
<1>1. UNCHANGED <<menu, profile, session, listing, faults, loads, made, shown, offers>>
  BY DEF Take
<1>2. updates' \in 0..MaxUpdates /\ overlap' \in BOOLEAN
  BY Counters, Constants DEF Take
<1>3. SessionInv' /\ RestInv'
  BY <1>1, <1>2, Counters, SameSession, SameRest
<1>4. PICK n : n = updates'
  OBVIOUS
<1>5. PICK g : g = [h EXCEPT !.n = n]
  OBVIOUS
<1>6. g \in Handler
  BY <1>2, <1>4, <1>5 DEF Handler
<1>7. g.todo = h.todo /\ g.copy = h.copy /\ g.act = h.act /\ g.arg = h.arg
  BY <1>5 DEF Handler
<1>8. ArgOK(h) => ArgOK(g)
  BY <1>7 DEF ArgOK
<1>9. HandlerOK(g)
  BY <1>7, <1>8 DEF HandlerOK
<1>10. Go(x, g)
  BY <1>4, <1>5 DEF Take
<1> QED BY <1>1, <1>3, <1>6, <1>9, <1>10, MoveInv

\* The buttons of an entry and what they carry.
Pressed(b) ==
    /\ b[1] \in Acts /\ b[2] \in Suggestions \cup Listings \cup Nat \cup {None}
    /\ b[1] = "announce" => b[2] \in Suggestions
    /\ b[1] = "markTaken" => b[2] \in Listings
    /\ b[1] = "assignPick" => b[2] \in Nat \ {0}

LEMMA PlainButton ==
    ASSUME NEW A, A \subseteq Acts \ {"announce", "markTaken", "assignPick"}, NEW b \in A \X {None}
    PROVE  Pressed(b) /\ b[1] \in A
BY DEF Pressed

LEMMA ButtonFacts ==
    ASSUME NEW e \in Entries, NEW b \in Buttons(e)
    PROVE  /\ Pressed(b)
           /\ b[1] \in FormButtons \cup {"announce"} => e \in {"create", "suggestions"}
<1>1. CASE e = "create"
  <2>1. b \in FormButtons \X {None}
    BY <1>1 DEF Buttons
  <2>2. FormButtons \subseteq Acts \ {"announce", "markTaken", "assignPick"}
    BY DEF Acts, FormButtons
  <2> QED BY <1>1, <2>1, <2>2, PlainButton
<1>2. CASE e = "suggestions"
  <2>1. b \in (FormButtons \ {"create"}) \X {None} \/ b \in {"announce"} \X Suggestions
    BY <1>2 DEF Buttons
  <2>2. FormButtons \ {"create"} \subseteq Acts \ {"announce", "markTaken", "assignPick"}
    BY DEF Acts, FormButtons
  <2>3. CASE b \in {"announce"} \X Suggestions
    <3>1. b[1] = "announce" /\ b[2] \in Suggestions
      BY <2>3
    <3>2. "announce" \in Acts
      BY DEF Acts
    <3> QED BY <1>2, <3>1, <3>2 DEF Pressed
  <2> QED BY <1>2, <2>1, <2>2, <2>3, PlainButton
<1>3. CASE e = "excel"
  <2>1. b \in {"excelStart", "excelConfirm", "excelCancel", "document"} \X {None}
    BY <1>3 DEF Buttons
  <2>2. {"excelStart", "excelConfirm", "excelCancel", "document"} \subseteq Acts \ {"announce", "markTaken", "assignPick"}
    BY DEF Acts
  <2>3. Pressed(b) /\ b[1] \in {"excelStart", "excelConfirm", "excelCancel", "document"}
    BY <2>1, <2>2, PlainButton
  <2> QED BY <2>3 DEF FormButtons
<1>4. CASE e = "mine"
  <2>1. \/ b \in (AssignButtons \ {"assignPick"}) \X {None} \/ b \in {"markTaken"} \X Listings
        \/ b \in {"assignPick"} \X (1..Cardinality(Drivers))
    BY <1>4 DEF Buttons
  <2>2. AssignButtons \ {"assignPick"} \subseteq Acts \ {"announce", "markTaken", "assignPick"}
    BY DEF Acts, AssignButtons
  <2>3. CASE b \in (AssignButtons \ {"assignPick"}) \X {None}
    <3>1. Pressed(b) /\ b[1] \in AssignButtons
      BY <2>2, <2>3, PlainButton
    <3> QED BY <3>1 DEF FormButtons, AssignButtons
  <2>4. CASE b \in {"markTaken"} \X Listings
    BY <2>4 DEF Pressed, Acts, FormButtons
  <2>5. CASE b \in {"assignPick"} \X (1..Cardinality(Drivers))
    <3>1. Cardinality(Drivers) \in Nat
      BY Constants, FS_CardinalityType
    <3>2. b[1] = "assignPick" /\ b[2] \in Nat \ {0}
      BY <2>5, <3>1
    <3> QED BY <3>2 DEF Pressed, Acts, AssignButtons, FormButtons
  <2> QED BY <2>1, <2>3, <2>4, <2>5
<1>5. CASE e = "filters"
  <2>1. b \in {"filterNew", "filterCancel"} \X {None}
    BY <1>5 DEF Buttons
  <2>2. {"filterNew", "filterCancel"} \subseteq Acts \ {"announce", "markTaken", "assignPick"}
    BY DEF Acts
  <2>3. Pressed(b) /\ b[1] \in {"filterNew", "filterCancel"}
    BY <2>1, <2>2, PlainButton
  <2> QED BY <2>3 DEF FormButtons
<1> QED BY <1>1, <1>2, <1>3, <1>4, <1>5 DEF Entries

\* What an update starts with.
Started(h) ==
    /\ h \in Handler /\ HandlerOK(h) /\ h.todo = <<"read">> /\ h.copy = Blank /\ h.act \in Acts
    /\ h.act \in FormButtons \cup {"announce"} => menu \cap {"create", "suggestions"} # {}

LEMMA UpdateStarts ==
    ASSUME IInv, NEW x \in Handlers, Update(x)
    PROVE  \E h : Take(x, h) /\ Started(h)
<1>1. PICK b \in ({"text", "cancelWord", "close"} \X {None}) \cup UNION {Buttons(e) : e \in menu} :
        Take(x, [Idle EXCEPT !.todo = <<"read">>, !.act = b[1], !.arg = b[2]])
  BY DEF Update
<1>2. Pressed(b) /\ (b[1] \in FormButtons \cup {"announce"} => menu \cap {"create", "suggestions"} # {})
  <2>1. CASE b \in {"text", "cancelWord", "close"} \X {None}
    <3>1. {"text", "cancelWord", "close"} \subseteq Acts \ {"announce", "markTaken", "assignPick"}
      BY DEF Acts
    <3>2. Pressed(b) /\ b[1] \in {"text", "cancelWord", "close"}
      BY <2>1, <3>1, PlainButton
    <3> QED BY <3>2 DEF FormButtons
  <2>2. CASE b \in UNION {Buttons(e) : e \in menu}
    <3>1. PICK e \in menu : b \in Buttons(e)
      BY <2>2
    <3>2. e \in Entries
      BY <3>1, InvParts, Constants DEF RestInv
    <3> QED BY <3>1, <3>2, ButtonFacts
  <2> QED BY <2>1, <2>2
<1>3. PICK a : a = b[1]
  OBVIOUS
<1>4. PICK arg : arg = b[2]
  OBVIOUS
<1>5. PICK t \in Seq(Ops) : t = <<"read">>
  BY OpsAre
<1>6. PICK h : h = [Idle EXCEPT !.todo = t, !.act = a, !.arg = arg]
  OBVIOUS
<1>7. h \in Handler
  <2>1. a \in Acts /\ arg \in Suggestions \cup Listings \cup Nat \cup {None}
    BY <1>2, <1>3, <1>4 DEF Pressed
  <2> QED BY <1>5, <1>6, <2>1, IdleFacts DEF Handler
<1>8. h.todo = t /\ h.act = a /\ h.arg = arg /\ h.copy = Blank
  BY <1>6 DEF Idle
<1>9. ArgOK(h)
  BY <1>2, <1>3, <1>4, <1>8 DEF ArgOK, Pressed
<1>10. \A op : Has(h.todo, op) => op = "read"
  BY <1>5, <1>8, HasOne
<1>11. HandlerOK(h)
  BY <1>9, <1>10 DEF HandlerOK
<1>12. Take(x, h)
  BY <1>1, <1>3, <1>4, <1>5, <1>6
<1>13. Started(h)
  BY <1>2, <1>3, <1>5, <1>7, <1>8, <1>11 DEF Started, Pressed
<1> QED BY <1>12, <1>13

\* What an automatic turn starts with.
Turn(h) ==
    /\ h \in Handler /\ HandlerOK(h) /\ h.copy.form = 0 /\ h.copy.src \in Suggestions
    /\ \A op : Has(h.todo, op) => op \in {"check", "insert", "send", "announceNow"}

LEMMA TurnStarts ==
    ASSUME IInv, NEW x \in Handlers, AutoAnnounce(x)
    PROVE  "suggestions" \in menu /\ \E h : Take(x, h) /\ Turn(h)
<1>1. PICK n \in Suggestions :
         \/ /\ Required \subseteq buildDraft(n).has
            /\ Take(x, [Idle EXCEPT !.todo = <<"check", "insert", "send">>, !.copy = buildDraft(n)])
         \/ Take(x, [Idle EXCEPT !.todo = <<"announceNow", "send">>, !.copy = buildDraft(n)])
  BY DEF AutoAnnounce
<1>2. PICK s \in Session : s = buildDraft(n) /\ s.src = n /\ s.form = 0
  BY DraftFacts
<1>3. CASE /\ Required \subseteq s.has
           /\ Take(x, [Idle EXCEPT !.todo = <<"check", "insert", "send">>, !.copy = s])
  <2>1. PICK t \in Seq(Ops) : t = <<"check", "insert", "send">>
    BY OpsAre
  <2>2. PICK h : h = [Idle EXCEPT !.todo = t, !.copy = s]
    OBVIOUS
  <2>3. h \in Handler
    BY <2>2, IdleFacts DEF Handler
  <2>4. h.todo = t /\ h.copy = s
    BY <2>2 DEF Idle
  <2>5. \A op : Has(h.todo, op) => op \in {"check", "insert", "send"}
    BY <2>1, <2>4, HasThree
  <2>6. Len(t) >= 2 /\ ~Has(Tail(t), "check")
    <3>1. Len(t) = 3 /\ t[2] = "insert" /\ t[3] = "send"
      BY <2>1
    <3>2. t # <<>> /\ Len(Tail(t)) = Len(t) - 1 /\ \A i \in 1..Len(t) - 1 : Tail(t)[i] = t[i + 1]
      BY <2>1
    <3>3. \A i \in 1..2 : t[i + 1] # "check"
      BY <3>1
    <3>4. PICK u : u = Tail(t)
      OBVIOUS
    <3>5. Len(u) = 2 /\ \A i \in 1..2 : u[i] = t[i + 1]
      <4>1. Len(t) - 1 = 2
        BY <3>1
      <4> QED BY <3>2, <3>4, <4>1
    <3>6. ~Has(u, "check")
      BY <3>3, <3>5 DEF Has
    <3> QED BY <3>1, <3>4, <3>6
  <2>7. HandlerOK(h)
    BY <1>2, <1>3, <2>4, <2>5, <2>6 DEF HandlerOK, Complete
  <2>8. Take(x, h) /\ Turn(h)
    BY <1>2, <1>3, <2>1, <2>2, <2>3, <2>4, <2>5, <2>7 DEF Turn
  <2> QED BY <2>8 DEF AutoAnnounce
<1>4. CASE Take(x, [Idle EXCEPT !.todo = <<"announceNow", "send">>, !.copy = s])
  <2>1. PICK t \in Seq(Ops) : t = <<"announceNow", "send">>
    BY OpsAre
  <2>2. PICK h : h = [Idle EXCEPT !.todo = t, !.copy = s]
    OBVIOUS
  <2>3. h \in Handler
    BY <2>2, IdleFacts DEF Handler
  <2>4. h.todo = t /\ h.copy = s
    BY <2>2 DEF Idle
  <2>5. \A op : Has(h.todo, op) => op \in {"announceNow", "send"}
    BY <2>1, <2>4, HasTwo
  <2>6. HandlerOK(h)
    BY <1>2, <2>4, <2>5 DEF HandlerOK
  <2>7. Take(x, h) /\ Turn(h)
    BY <1>2, <1>4, <2>1, <2>2, <2>3, <2>4, <2>5, <2>6 DEF Turn
  <2> QED BY <2>7 DEF AutoAnnounce
<1> QED BY <1>1, <1>2, <1>3, <1>4

LEMMA InitInv == Init => IInv
<1> SUFFICES ASSUME Init PROVE IInv
  OBVIOUS
<1>1. \A x \in Handlers : handler[x] = Idle
  BY DEF Init
<1>2. handler \in [Handlers -> Handler] /\ \A x \in Handlers : HandlerOK(handler[x])
  BY <1>1, IdleFacts DEF Init
<1>3. session = Blank /\ SessionOK(session) /\ PickShown(session)
  BY BlankFacts DEF Init
<1>4. made \in [Sources -> 0..2] /\ MadeOK
  BY DEF Init, MadeOK, Sources
<1>5. LoadsComplete /\ OfferShown
  BY DEF Init, LoadsComplete, OfferShown
<1>6. \A x \in Handlers : handler[x].copy \in Session /\ handler[x].todo \in Seq(Ops)
  BY <1>2 DEF Handler
<1>7. session.picked <= Len(session.drivers) /\ session \in Session
  BY <1>3 DEF SessionOK
<1>8. menu \in Menus /\ profile \in BOOLEAN /\ overlap \in BOOLEAN
  BY DEF Init
<1>9. listing \in [Suggestions -> {"none", "quiet", "announced"}]
  BY DEF Init
<1>10. updates \in 0..MaxUpdates /\ faults \in 0..MaxFaults
  BY Constants DEF Init
<1>11. loads \subseteq SUBSET Fields /\ shown \subseteq Listings \X Drivers /\ offers \subseteq Listings \X Drivers
  BY DEF Init
<1>12. TypeOK
  BY <1>4, <1>6, <1>7, <1>8, <1>9, <1>10, <1>11 DEF TypeOK
<1> QED BY <1>2, <1>3, <1>4, <1>5, <1>12 DEF IInv

LEMMA NextInv == IInv /\ [Next]_vars => IInv'
<1> SUFFICES ASSUME IInv, [Next]_vars PROVE IInv'
  OBVIOUS
<1>1. ASSUME NEW x \in Handlers, Update(x) PROVE IInv'
  <2>1. PICK h : Take(x, h) /\ Started(h)
    BY <1>1, UpdateStarts
  <2> QED BY <2>1, TakeInv DEF Started
<1>2. ASSUME NEW x \in Handlers, AutoAnnounce(x) PROVE IInv'
  <2>1. PICK h : Take(x, h) /\ Turn(h)
    BY <1>2, TurnStarts
  <2> QED BY <2>1, TakeInv DEF Turn
<1> QED BY <1>1, <1>2, ReadInv, SaveInv, ClearInv, CheckInv, InsertInv, AnnounceNowInv, SendInv, StartOfferInv,
        FailInv, ExpireInv, SameInv DEF Next

LEMMA Inductive == Spec => []IInv
BY InitInv, NextInv, PTL DEF Spec

\* The session and every handler's copy of one are what the dialog's types say, and a driver
\* that is picked is in the list it is picked from.
THEOREM TypeCorrect == Spec => []TypeOK
<1>1. IInv => TypeOK
  BY DEF IInv
<1> QED BY <1>1, Inductive, PTL

\* REQUIRED holds of every load that is published, from a form, a file or by itself, although
\* handlers overwrite each other's sessions and old buttons are pressed.
THEOREM LoadsAreComplete == Spec => []LoadsComplete
<1>1. IInv => LoadsComplete
  BY DEF IInv
<1> QED BY <1>1, Inductive, PTL

\* A suggestion becomes one load: the unique index of saveListing decides, whatever the looks
\* of publish and of the automatic turn saw before.
THEOREM Suggested == Spec => []SuggestionOnce
<1>1. IInv => SuggestionOnce
  BY DEF IInv, MadeOK, SuggestionOnce
<1> QED BY <1>1, Inductive, PTL

\* A load is only offered to a driver whose details were shown for it: assignPick is the one
\* step that picks, and it shows what it saves.
THEOREM Shown == Spec => []OfferShown
<1>1. IInv => OfferShown
  BY DEF IInv
<1> QED BY <1>1, Inductive, PTL

-----------------------------------------------------------------------------
(* A form or a file is published once. *)

\* Who publishes files has no load form: PublishedOnce tells the two apart by the entry of
\* the menu.
Separate == \A m \in Menus : "excel" \in m => m \cap {"create", "suggestions"} = {}

LEMMA IdleForms ==
    ASSUME NEW s, NEW m
    PROVE  FormsOK(Idle, s, m) /\ TodoOK(Idle) /\ Idle.todo \notin Sent
<1>1. \A op : ~Has(Idle.todo, op)
  BY IdleFacts, HasNone
<1>2. <<>> # <<"send", "clear">> /\ <<>> # <<"clear">>
  OBVIOUS
<1> QED BY <1>1, <1>2, IdleFacts DEF FormsOK, TodoOK, ToInsert, Sent

\* The step of handler x that makes h of it: what there is to show, given that no other
\* handler is under way.
LEMMA FormStep ==
    ASSUME FormInv, IInv', NEW x \in Handlers, NEW h \in Handler, Go(x, h), handler[x] # Idle,
           UNCHANGED <<menu, updates, overlap>>, faults' = 0 => faults = 0,
           session'.form <= updates, h.copy.form <= updates, h.n <= updates,
           \A f \in 1..MaxUpdates : f > updates => made'[f] = 0,
           "excel" \in menu => /\ session'.kind # "cargo" /\ h.copy.kind # "cargo"
                               /\ h = Idle \/ h.act \notin FormButtons \cup {"announce"},
           TodoOK(h),
           OneByOne /\ OneByOne' /\ Forms /\ (\A y \in Handlers : handler[y].todo \in Sent => y = x) =>
               /\ \A f \in 1..MaxUpdates : made'[f] <= 1
               /\ Live(session', made') \/ ("excel" \notin menu /\ h.todo \in Sent)
               /\ FormsOK(h, session', made')
    PROVE  FormInv'
<1>1. handler' \in [Handlers -> Handler] /\ \A y \in Handlers : handler'[y] = IF y = x THEN h ELSE handler[y]
  BY InvParts DEF FormInv, Go
<1>2. NoForm'
  BY <1>1 DEF FormInv, NoForm
<1>3. Past'
  BY <1>1 DEF FormInv, Past
<1>4. \A y \in Handlers : TodoOK(handler'[y])
  BY <1>1 DEF FormInv
<1>5. \A y \in Handlers : TodoOK(handler[y])'
  BY <1>4 DEF TodoOK, ToInsert, Has
<1>6. ~overlap' => Apart'
  BY <1>1 DEF FormInv, Apart
<1>7. ASSUME OneByOne' PROVE Forms'
  <2>1. OneByOne /\ Forms
    BY <1>7 DEF FormInv, OneByOne
  <2>2. \A y \in Handlers : y # x => handler[y] = Idle
    BY <1>7 DEF FormInv, OneByOne, Apart
  <2>3. \A y \in Handlers : handler[y].todo \in Sent => y = x
    BY <2>2, IdleForms
  <2>4. /\ \A f \in 1..MaxUpdates : made'[f] <= 1
        /\ Live(session', made') \/ ("excel" \notin menu /\ h.todo \in Sent)
        /\ FormsOK(h, session', made')
    BY <1>7, <2>1, <2>3
  <2>5. \A y \in Handlers : FormsOK(handler'[y], session', made')
    BY <1>1, <2>2, <2>4, IdleForms
  <2>6. \A y \in Handlers : FormsOK(handler[y], session, made)'
    BY <2>5 DEF FormsOK, Live, ToInsert, Has
  <2>7. Live(session, made)' \/ ("excel" \notin menu' /\ \E y \in Handlers : handler'[y].todo \in Sent)
    BY <1>1, <2>4 DEF Live
  <2> QED BY <2>4, <2>6, <2>7 DEF Forms, Sent
<1> QED BY <1>2, <1>3, <1>5, <1>6, <1>7 DEF FormInv

\* A step that neither reads, saves nor inserts, and leaves the session.
LEMMA QuietStep ==
    ASSUME FormInv, IInv', NEW x \in Handlers, NEW h \in Handler, Go(x, h), handler[x] # Idle,
           UNCHANGED <<menu, session, updates, overlap, faults>>,
           \A f \in 1..MaxUpdates : made'[f] = made[f],
           h = Idle \/ (h.copy = handler[x].copy /\ h.act = handler[x].act /\ h.n = handler[x].n),
           ~Has(h.todo, "read"), ~Has(h.todo, "save"), ~ToInsert(h),
           handler[x].todo \in Sent => h.todo \in Sent
    PROVE  FormInv'
<1>1. TodoOK(h)
  BY DEF TodoOK
<1>2. h.copy.form <= updates /\ h.n <= updates
  <2>1. CASE h = Idle
    <3>1. h.copy.form = 0 /\ h.n = 0
      BY <2>1, IdleFacts, BlankFacts DEF Idle
    <3>2. updates \in Nat
      BY Counters DEF FormInv
    <3> QED BY <3>1, <3>2
  <2> QED BY <2>1 DEF FormInv, Past
<1>3. "excel" \in menu => /\ session'.kind # "cargo" /\ h.copy.kind # "cargo"
                          /\ h = Idle \/ h.act \notin FormButtons \cup {"announce"}
  BY IdleFacts, BlankFacts DEF FormInv, NoForm
<1>4. session' = session /\ session.form <= updates /\ session.form \in 0..MaxUpdates
  BY InvParts DEF FormInv, Past, SessionInv, SessionOK, Session
<1>5. \A f \in 1..MaxUpdates : f > updates => made'[f] = 0
  BY DEF FormInv, Past
<1>6. Live(session, made) => Live(session', made')
  BY <1>4 DEF Live
<1>7. FormsOK(h, session', made')
  BY DEF FormsOK
<1>8. ASSUME Forms, \A y \in Handlers : handler[y].todo \in Sent => y = x
      PROVE  /\ \A f \in 1..MaxUpdates : made'[f] <= 1
             /\ Live(session', made') \/ ("excel" \notin menu /\ h.todo \in Sent)
  BY <1>6, <1>8 DEF Forms
<1> QED BY <1>1, <1>2, <1>3, <1>4, <1>5, <1>7, <1>8, FormStep

LEMMA AtHead ==
    ASSUME FormInv, NEW x \in Handlers, NEW op \in Ops \ {"read", "save", "clear"}, At(x, op)
    PROVE  /\ handler[x] # Idle
           /\ ~Has(handler[x].todo, "read") /\ ~Has(handler[x].todo, "save")
           /\ op # "insert" => ~ToInsert(handler[x])
           /\ handler[x].todo \in Sent => op = "send" /\ handler[x].todo = <<"send", "clear">>
<1>1. PICK t : t = handler[x].todo /\ Head(t) = op /\ t # <<>>
  BY DEF At
<1>2. handler[x] # Idle
  BY <1>1, IdleFacts
<1>3. Has(t, "read") => t = <<"read">>
  BY <1>1 DEF FormInv, TodoOK
<1>4. Has(t, "save") => t = <<"save">>
  BY <1>1 DEF FormInv, TodoOK
<1>5. ToInsert(handler[x]) => t \in {<<"clear", "insert", "send">>, <<"insert", "send">>, <<"insert", "send", "clear">>}
  BY <1>1 DEF FormInv, TodoOK
<1>6. t # <<"read">> /\ t # <<"save">> /\ t # <<"clear">>
  BY <1>1
<1>7. op # "insert" => t \notin {<<"clear", "insert", "send">>, <<"insert", "send">>, <<"insert", "send", "clear">>}
  BY <1>1
<1>8. t = <<"send", "clear">> => op = "send"
  BY <1>1
<1> QED BY <1>1, <1>2, <1>3, <1>4, <1>5, <1>6, <1>7, <1>8 DEF Sent

\* The handler goes on after an access other than reading, saving and clearing.
LEMMA OnwardForms ==
    ASSUME FormInv, NEW x \in Handlers, NEW op \in Ops \ {"read", "save", "clear"}, At(x, op), NEW h, h = Onward(x)
    PROVE  /\ h \in Handler
           /\ h = Idle \/ (h.copy = handler[x].copy /\ h.act = handler[x].act /\ h.n = handler[x].n)
           /\ ~Has(h.todo, "read") /\ ~Has(h.todo, "save")
           /\ op # "insert" => ~ToInsert(h)
           /\ handler[x].todo \in Sent => h.todo \in Sent
<1>1. IInv /\ handler[x].todo # <<>>
  BY DEF FormInv, At
<1>2. h \in Handler
  BY <1>1, OnwardFacts
<1>3. \A o : Has(h.todo, o) => Has(handler[x].todo, o)
  BY <1>1, OnwardFacts
<1>4. h = Idle \/ (h.copy = handler[x].copy /\ h.act = handler[x].act /\ h.n = handler[x].n)
  BY <1>1, OnwardFacts
<1>5. ~Has(h.todo, "read") /\ ~Has(h.todo, "save")
  BY <1>3, AtHead
<1>6. op # "insert" => ~ToInsert(h)
  <2>1. ~Has(Idle.todo, "insert")
    BY IdleFacts, HasNone
  <2> QED BY <1>3, <1>4, <2>1, AtHead DEF ToInsert
<1>7. ASSUME handler[x].todo \in Sent PROVE h.todo \in Sent
  <2>1. PICK me \in Handler : me = handler[x] /\ me.todo = <<"send", "clear">>
    BY <1>1, <1>7, AtHead, InvParts
  <2>2. PICK t \in Seq(Ops) : t = <<"clear">>
    BY OpsAre
  <2>3. Len(me.todo) = 2 /\ Tail(me.todo) = t
    BY <2>1, <2>2
  <2>4. h = [me EXCEPT !.todo = t]
    BY <2>1, <2>3 DEF Onward
  <2>5. h.todo = t
    BY <2>4 DEF Handler
  <2> QED BY <2>2, <2>5 DEF Sent
<1> QED BY <1>2, <1>4, <1>5, <1>6, <1>7

LEMMA QuietOnward ==
    ASSUME FormInv, IInv', NEW x \in Handlers, NEW op \in {"check", "announceNow", "send", "offer"}, At(x, op),
           Go(x, Onward(x)), UNCHANGED <<menu, session, updates, overlap, faults, made>>
    PROVE  FormInv'
<1>1. op \in Ops \ {"read", "save", "clear"} /\ op # "insert"
  BY DEF Ops
<1>2. PICK h : h = Onward(x)
  OBVIOUS
<1>3. handler[x] # Idle
  BY <1>1, AtHead
<1>4. /\ h \in Handler
      /\ h = Idle \/ (h.copy = handler[x].copy /\ h.act = handler[x].act /\ h.n = handler[x].n)
      /\ ~Has(h.todo, "read") /\ ~Has(h.todo, "save") /\ ~ToInsert(h)
      /\ handler[x].todo \in Sent => h.todo \in Sent
  BY <1>1, <1>2, OnwardForms
<1> QED BY <1>2, <1>3, <1>4, QuietStep

LEMMA CheckForms ==
    ASSUME FormInv, NEW x \in Handlers, Check(x)
    PROVE  FormInv'
<1>1. IInv /\ IInv'
  BY CheckInv DEF FormInv
<1>2. UNCHANGED <<menu, session, updates, overlap, faults, made>> /\ At(x, "check")
  BY DEF Check, history
<1>3. "check" \in Ops \ {"read", "save", "clear"}
  BY DEF Ops
<1>4. /\ handler[x] # Idle /\ ~Has(handler[x].todo, "read") /\ ~Has(handler[x].todo, "save")
      /\ handler[x].todo \notin Sent
  BY <1>2, <1>3, AtHead
<1>5. PICK n \in Suggestions : n = handler[x].copy.src
  BY <1>1, <1>2, AtFacts, InvParts DEF HandlerOK
<1>6. listing[n] \in {"none", "quiet", "announced"}
  BY <1>1, InvParts DEF RestInv
<1>7. PICK h : /\ Go(x, h)
               /\ h \in {Onward(x), [handler[x] EXCEPT !.todo = <<"announceNow">> \o Tail(Tail(@))], Refused(x)}
  BY <1>5, <1>6 DEF Check
<1>8. CASE h = Onward(x)
  BY <1>1, <1>2, <1>7, <1>8, QuietOnward
<1>9. CASE h = [handler[x] EXCEPT !.todo = <<"announceNow">> \o Tail(Tail(@))]
  <2>1. h \in Handler /\ h.copy = handler[x].copy /\ h.act = handler[x].act /\ h.n = handler[x].n
    BY <1>1, <1>2, <1>9, AnnouncesFacts
  <2>2. \A op : Has(h.todo, op) => op = "announceNow" \/ Has(handler[x].todo, op)
    BY <1>1, <1>2, <1>9, AnnouncesFacts
  <2>3. ~Has(h.todo, "read") /\ ~Has(h.todo, "save") /\ ~ToInsert(h)
    BY <1>4, <1>5, <2>1, <2>2, Constants DEF ToInsert
  <2> QED BY <1>1, <1>2, <1>4, <1>7, <2>1, <2>3, QuietStep
<1>10. CASE h = Refused(x)
  <2>1. h \in Handler /\ (h = Idle \/ (h.copy = handler[x].copy /\ h.act = handler[x].act /\ h.n = handler[x].n))
    BY <1>1, <1>10, RefusedFacts
  <2>2. \A op : Has(h.todo, op) => op = "clear"
    BY <1>1, <1>10, RefusedFacts
  <2>3. ~Has(h.todo, "read") /\ ~Has(h.todo, "save") /\ ~ToInsert(h)
    BY <2>2 DEF ToInsert
  <2> QED BY <1>1, <1>2, <1>4, <1>7, <2>1, <2>3, QuietStep
<1> QED BY <1>7, <1>8, <1>9, <1>10

LEMMA AnnounceNowForms ==
    ASSUME FormInv, NEW x \in Handlers, AnnounceNow(x)
    PROVE  FormInv'
<1>1. IInv'
  BY AnnounceNowInv DEF FormInv
<1>2. UNCHANGED <<menu, session, updates, overlap, faults, made>> /\ At(x, "announceNow") /\ Go(x, Onward(x))
  BY DEF AnnounceNow, history
<1> QED BY <1>1, <1>2, QuietOnward

LEMMA SendForms ==
    ASSUME FormInv, NEW x \in Handlers, SendToDrivers(x)
    PROVE  FormInv'
<1>1. IInv'
  BY SendInv DEF FormInv
<1>2. UNCHANGED <<menu, session, updates, overlap, faults, made>> /\ At(x, "send") /\ Go(x, Onward(x))
  BY DEF SendToDrivers, history
<1> QED BY <1>1, <1>2, QuietOnward

LEMMA StartOfferForms ==
    ASSUME FormInv, NEW x \in Handlers, StartOffer(x)
    PROVE  FormInv'
<1>1. IInv'
  BY StartOfferInv DEF FormInv
<1>2. UNCHANGED <<menu, session, updates, overlap, faults, made>> /\ At(x, "offer") /\ Go(x, Onward(x))
  BY DEF StartOffer
<1> QED BY <1>1, <1>2, QuietOnward

\* The handler that failed is gone; without a load form it left nothing half published in
\* the session.
LEMMA FailForms ==
    ASSUME FormInv, NEW x \in Handlers, Fail(x)
    PROVE  FormInv'
<1>1. IInv' /\ IInv
  BY FailInv DEF FormInv
<1>2. UNCHANGED <<menu, session, updates, overlap, made>> /\ Go(x, Idle) /\ handler[x] # Idle
  BY DEF Fail, history
<1>3. faults' = faults + 1 /\ faults \in Nat /\ updates \in Nat
  BY <1>1, Counters DEF Fail
<1>4. Idle \in Handler /\ Idle.copy.form = 0 /\ Idle.copy.kind # "cargo" /\ Idle.n = 0
  BY IdleFacts, BlankFacts DEF Idle
<1>5. ASSUME OneByOne', Forms PROVE Live(session', made')
  <2>1. "excel" \in menu
    BY <1>2, <1>3, <1>5 DEF OneByOne
  <2> QED BY <1>2, <1>5, <2>1 DEF Forms, Live
<1>6. \A f \in 1..MaxUpdates : f > updates => made'[f] = 0
  BY <1>2 DEF FormInv, Past
<1>7. session'.form <= updates /\ ("excel" \in menu => session'.kind # "cargo")
  BY <1>2 DEF FormInv, Past, NoForm
<1>8. Forms => \A f \in 1..MaxUpdates : made'[f] <= 1
  BY <1>2 DEF Forms
<1>9. faults' = 0 => faults = 0
  BY <1>3
<1>10. Idle.copy.form <= updates /\ Idle.n <= updates
  BY <1>3, <1>4
<1>11. FormsOK(Idle, session', made') /\ TodoOK(Idle)
  BY IdleForms
<1> QED BY <1>1, <1>2, <1>4, <1>5, <1>6, <1>7, <1>8, <1>9, <1>10, <1>11, FormStep

\* The session is cleared, which nothing that is still to be published minds.
LEMMA ClearedForms ==
    ASSUME FormInv, session' = Blank, UNCHANGED <<menu, made>>, Forms
    PROVE  /\ Live(session', made')
           /\ \A y \in Handlers : FormsOK(handler[y], session', made')
<1>1. session'.form = 0
  BY BlankFacts
<1> QED BY <1>1 DEF Forms, FormsOK, Live

LEMMA ExpireForms ==
    ASSUME FormInv, Expire
    PROVE  FormInv'
<1>1. IInv' /\ IInv
  BY ExpireInv DEF FormInv
<1>2. UNCHANGED <<menu, handler, updates, overlap, faults, made>> /\ session' = Blank
  BY DEF Expire, history
<1>3. session'.form = 0 /\ session'.kind # "cargo" /\ updates \in Nat
  BY <1>1, <1>2, BlankFacts, Counters
<1>4. NoForm'
  BY <1>2, <1>3 DEF FormInv, NoForm
<1>5. Past'
  BY <1>2, <1>3 DEF FormInv, Past
<1>6. (\A x \in Handlers : TodoOK(handler[x])') /\ (~overlap' => Apart')
  BY <1>2 DEF FormInv, TodoOK, ToInsert, Has, Apart
<1>7. ASSUME OneByOne' PROVE Forms'
  <2>1. Forms
    BY <1>2, <1>7 DEF FormInv, OneByOne
  <2>2. Live(session', made') /\ \A y \in Handlers : FormsOK(handler[y], session', made')
    BY <1>2, <2>1, ClearedForms
  <2>3. Live(session, made)'
    BY <2>2 DEF Live
  <2>4. \A y \in Handlers : FormsOK(handler[y], session, made)'
    BY <1>2, <2>2 DEF FormsOK, Live, ToInsert, Has
  <2> QED BY <1>2, <2>1, <2>3, <2>4 DEF Forms
<1> QED BY <1>1, <1>4, <1>5, <1>6, <1>7 DEF FormInv

LEMMA SameForms ==
    ASSUME FormInv, UNCHANGED vars
    PROVE  FormInv'
<1>1. IInv'
  BY SameInv DEF FormInv
<1>2. UNCHANGED <<menu, session, handler, updates, overlap, faults, made>>
  BY DEF vars, history
<1>3. NoForm' /\ Past' /\ (~overlap' => Apart')
  BY <1>2 DEF FormInv, NoForm, Past, Apart
<1>4. \A x \in Handlers : TodoOK(handler[x])'
  BY <1>2 DEF FormInv, TodoOK, ToInsert, Has
<1>5. OneByOne' => Forms'
  <2>1. OneByOne' => Forms
    BY <1>2 DEF FormInv, OneByOne
  <2>2. Forms => Forms'
    BY <1>2 DEF Forms, FormsOK, Live, ToInsert, Has, Sent
  <2> QED BY <2>1, <2>2
<1> QED BY <1>1, <1>3, <1>4, <1>5 DEF FormInv

LEMMA SaveForms ==
    ASSUME FormInv, NEW x \in Handlers, Save(x)
    PROVE  FormInv'
<1>1. IInv' /\ IInv
  BY SaveInv DEF FormInv
<1>2. UNCHANGED <<menu, updates, overlap, faults, made>> /\ At(x, "save") /\ Go(x, Onward(x)) /\ session' = handler[x].copy
  BY DEF Save
<1>3. Has(handler[x].todo, "save") /\ handler[x].todo # <<>>
  BY <1>1, <1>2, AtFacts
<1>4. handler[x].todo = <<"save">>
  BY <1>3 DEF FormInv, TodoOK
<1>5. Onward(x) = Idle
  BY <1>4 DEF Onward
<1>6. handler[x] # Idle
  BY <1>3, IdleFacts
<1>7. Idle \in Handler /\ Idle.copy.form = 0 /\ Idle.copy.kind # "cargo" /\ Idle.n = 0
  BY IdleFacts, BlankFacts DEF Idle
<1>8. updates \in Nat
  BY <1>1, Counters
<1>9. Idle.copy.form <= updates /\ Idle.n <= updates
  BY <1>7, <1>8
<1>10. Forms => Live(session', made') /\ \A f \in 1..MaxUpdates : made'[f] <= 1
  BY <1>2, <1>3 DEF Forms, FormsOK, Live
<1>11. \A f \in 1..MaxUpdates : f > updates => made'[f] = 0
  BY <1>2 DEF FormInv, Past
<1>12. session'.form <= updates /\ ("excel" \in menu => session'.kind # "cargo")
  BY <1>2 DEF FormInv, Past, NoForm
<1>13. FormsOK(Idle, session', made') /\ TodoOK(Idle)
  BY IdleForms
<1>14. Go(x, Idle)
  BY <1>2, <1>5
<1> QED BY <1>1, <1>2, <1>6, <1>7, <1>9, <1>10, <1>11, <1>12, <1>13, <1>14, FormStep

\* The first access of excelConfirm, or the last of publish.
LEMMA ClearForms ==
    ASSUME FormInv, NEW x \in Handlers, Clear(x)
    PROVE  FormInv'
<1>1. IInv' /\ IInv
  BY ClearInv DEF FormInv
<1>2. UNCHANGED <<menu, updates, overlap, faults, made>> /\ At(x, "clear") /\ Go(x, Onward(x)) /\ session' = Blank
  BY DEF Clear, history
<1>3. PICK me \in Handler : me = handler[x] /\ me.todo # <<>> /\ Head(me.todo) = "clear" /\ TodoOK(me)
  BY <1>1, <1>2, InvParts DEF At, FormInv
<1>4. PICK h : h = Onward(x)
  OBVIOUS
<1>5. h \in Handler /\ Go(x, h) /\ handler[x] # Idle
  BY <1>1, <1>2, <1>3, <1>4, OnwardFacts, IdleFacts
<1>6. h = Idle \/ (h.copy = me.copy /\ h.act = me.act /\ h.n = me.n)
  BY <1>1, <1>3, <1>4, OnwardFacts
<1>7. \A op : Has(h.todo, op) => Has(me.todo, op)
  BY <1>1, <1>3, <1>4, OnwardFacts
<1>8. ~Has(h.todo, "read") /\ ~Has(h.todo, "save")
  <2>1. me.todo # <<"read">> /\ me.todo # <<"save">>
    BY <1>3
  <2> QED BY <1>3, <1>7, <2>1 DEF TodoOK
<1>9. ASSUME ToInsert(h) PROVE ToInsert(me) /\ h.copy = me.copy /\ h.todo = <<"insert", "send">>
  <2>1. h # Idle
    BY <1>9, IdleFacts, HasNone DEF ToInsert
  <2>2. ToInsert(me)
    BY <1>6, <1>7, <1>9, <2>1 DEF ToInsert
  <2>3. me.todo \in {<<"clear", "insert", "send">>, <<"insert", "send">>, <<"insert", "send", "clear">>}
    BY <1>3, <2>2 DEF TodoOK
  <2>4. me.todo = <<"clear", "insert", "send">>
    BY <1>3, <2>3
  <2>5. PICK t : t = <<"insert", "send">>
    OBVIOUS
  <2>6. t \in Seq(Ops) /\ Len(me.todo) = 3 /\ Tail(me.todo) = t
    BY <2>4, <2>5 DEF Ops
  <2>7. h = [me EXCEPT !.todo = t]
    BY <1>3, <1>4, <2>6, SMTT(20) DEF Onward
  <2>8. h.todo = t
    BY <2>7 DEF Handler
  <2> QED BY <1>6, <2>1, <2>2, <2>5, <2>8
<1>10. TodoOK(h)
  BY <1>8, <1>9 DEF TodoOK
<1>11. session'.form = 0 /\ session'.kind # "cargo" /\ updates \in Nat
  BY <1>1, <1>2, BlankFacts, Counters
<1>12. h.copy.form <= updates /\ h.n <= updates
  <2>1. CASE h = Idle
    <3>1. h.copy.form = 0 /\ h.n = 0
      BY <2>1, IdleFacts, BlankFacts DEF Idle
    <3> QED BY <1>11, <3>1
  <2> QED BY <1>3, <1>6, <2>1 DEF FormInv, Past
<1>13. "excel" \in menu => h.copy.kind # "cargo" /\ (h = Idle \/ h.act \notin FormButtons \cup {"announce"})
  BY <1>3, <1>6, IdleFacts, BlankFacts DEF FormInv, NoForm
<1>14. ASSUME Forms PROVE FormsOK(h, session', made')
  <2>1. FormsOK(me, session, made)
    BY <1>3, <1>14 DEF Forms
  <2>2. ToInsert(h) => Live(h.copy, made')
    BY <1>2, <1>9, <2>1 DEF FormsOK
  <2>3. <<"insert", "send">> # <<"insert", "send", "clear">>
    OBVIOUS
  <2>4. ToInsert(h) => h.todo # <<"insert", "send", "clear">>
    BY <1>9, <2>3
  <2> QED BY <1>8, <1>11, <2>2, <2>4 DEF FormsOK
<1>15. Live(session', made')
  BY <1>11 DEF Live
<1>16. \A f \in 1..MaxUpdates : f > updates => made'[f] = 0
  BY <1>2 DEF FormInv, Past
<1>17. Forms => \A f \in 1..MaxUpdates : made'[f] <= 1
  BY <1>2 DEF Forms
<1>18. session'.form <= updates
  BY <1>11
<1> QED BY <1>1, <1>2, <1>5, <1>10, <1>11, <1>12, <1>13, <1>14, <1>15, <1>16, <1>17, <1>18, FormStep

\* A load of a form or a file: the form counts as published, and a form's handler goes on to
\* clear the session.
LEMMA InsertByHand ==
    ASSUME FormInv, IInv', NEW x \in Handlers, At(x, "insert"), Go(x, Onward(x)), handler[x].copy.src = None,
           UNCHANGED <<menu, session, updates, faults, overlap>>,
           made' = [made EXCEPT ![handler[x].copy.form] = IF @ = 2 THEN 2 ELSE @ + 1]
    PROVE  FormInv'
<1>1. PICK me \in Handler : me = handler[x] /\ me.todo # <<>> /\ Head(me.todo) = "insert" /\ TodoOK(me) /\ me # Idle
  BY InvParts, IdleFacts DEF FormInv, At
<1>2. ToInsert(me)
  <2>1. Has(me.todo, "insert")
    BY <1>1, AtFacts DEF FormInv
  <2> QED BY <1>1, <2>1 DEF ToInsert
<1>3. me.todo \in {<<"insert", "send">>, <<"insert", "send", "clear">>}
  <2>1. me.todo \in {<<"clear", "insert", "send">>, <<"insert", "send">>, <<"insert", "send", "clear">>}
    BY <1>1, <1>2 DEF TodoOK
  <2>2. Head(<<"clear", "insert", "send">>) = "clear"
    OBVIOUS
  <2>3. me.todo # <<"clear", "insert", "send">>
    BY <1>1, <2>2
  <2> QED BY <2>1, <2>3
<1>4. PICK t : t = Tail(me.todo)
  OBVIOUS
<1>5. t \in Seq(Ops) /\ Len(me.todo) # 1 /\ (\A op : Has(t, op) => op \in {"send", "clear"})
  <2>1. CASE me.todo = <<"insert", "send">>
    <3>1. t = <<"send">> /\ Len(me.todo) = 2
      BY <1>4, <2>1
    <3>2. t \in Seq(Ops)
      BY <3>1 DEF Ops
    <3>3. \A op : Has(t, op) => op = "send"
      BY <3>1, HasOne
    <3> QED BY <3>1, <3>2, <3>3
  <2>2. CASE me.todo = <<"insert", "send", "clear">>
    <3>1. t = <<"send", "clear">> /\ Len(me.todo) = 3
      BY <1>4, <2>2
    <3>2. t \in Seq(Ops)
      BY <3>1 DEF Ops
    <3>3. \A op : Has(t, op) => op \in {"send", "clear"}
      BY <3>1, HasTwo
    <3> QED BY <3>1, <3>2, <3>3
  <2> QED BY <1>3, <2>1, <2>2
<1>6. me.todo = <<"insert", "send", "clear">> => t \in Sent
  <2>1. me.todo = <<"insert", "send", "clear">> => t = <<"send", "clear">>
    BY <1>4
  <2> QED BY <2>1 DEF Sent
<1>7. PICK h : h = [me EXCEPT !.todo = t]
  OBVIOUS
<1>8. Go(x, h)
  BY <1>1, <1>4, <1>5, <1>7 DEF Onward
<1>9. h \in Handler
  BY <1>5, <1>7 DEF Handler
<1>10. h.todo = t /\ h.copy = me.copy /\ h.act = me.act /\ h.n = me.n
  BY <1>7 DEF Handler
<1>11. ~Has(h.todo, "read") /\ ~Has(h.todo, "save") /\ ~ToInsert(h)
  BY <1>5, <1>10 DEF ToInsert
<1>12. TodoOK(h) /\ FormsOK(h, session', made')
  BY <1>11 DEF TodoOK, FormsOK
<1>13. PICK form \in 0..MaxUpdates : form = me.copy.form
  BY DEF Handler, Session
<1>14. made \in [Sources -> 0..2] /\ updates \in Nat /\ session.form \in 0..MaxUpdates
  BY InvParts DEF FormInv, RestInv, SessionInv, SessionOK, Session
<1>15. ASSUME NEW f \in 1..MaxUpdates
       PROVE  /\ f # form => made'[f] = made[f]
              /\ f = form => made'[f] = IF made[f] = 2 THEN 2 ELSE made[f] + 1
  <2>1. f \in Sources
    BY DEF Sources
  <2> QED BY <1>1, <1>13, <1>14, <2>1
<1>16. h.copy.form <= updates /\ h.n <= updates /\ form <= updates /\ session'.form <= updates
  BY <1>1, <1>10, <1>13 DEF FormInv, Past
<1>17. \A f \in 1..MaxUpdates : f > updates => made'[f] = 0
  BY <1>13, <1>14, <1>15, <1>16 DEF FormInv, Past
<1>18. "excel" \in menu => /\ session'.kind # "cargo" /\ h.copy.kind # "cargo"
                           /\ h = Idle \/ h.act \notin FormButtons \cup {"announce"}
  BY <1>1, <1>10 DEF FormInv, NoForm
<1>19. ASSUME Forms, \A y \in Handlers : handler[y].todo \in Sent => y = x
       PROVE  /\ \A f \in 1..MaxUpdates : made'[f] <= 1
              /\ Live(session', made') \/ ("excel" \notin menu /\ h.todo \in Sent)
  <2>1. FormsOK(me, session, made)
    BY <1>1, <1>19 DEF Forms
  <2>2. form # 0 => made[form] = 0
    BY <1>2, <1>13, <2>1 DEF FormsOK, Live
  <2>3. \A f \in 1..MaxUpdates : made'[f] <= 1
    <3> TAKE f \in 1..MaxUpdates
    <3>1. made[f] <= 1
      BY <1>19 DEF Forms
    <3>2. CASE f = form
      <4>1. made[f] = 0
        BY <2>2, <3>2
      <4> QED BY <1>15, <3>2, <4>1
    <3>3. CASE f # form
      BY <1>15, <3>1, <3>3
    <3> QED BY <3>2, <3>3
  <2>4. CASE me.todo = <<"insert", "send", "clear">>
    <3>1. "excel" \notin menu
      BY <1>2, <2>1, <2>4 DEF FormsOK
    <3> QED BY <1>6, <1>10, <2>3, <2>4, <3>1
  <2>5. CASE me.todo = <<"insert", "send">>
    <3>1. form = 0 \/ session.form = 0
      BY <1>2, <1>13, <2>1, <2>5 DEF FormsOK
    <3>2. handler[x].todo \notin Sent
      <4>1. <<"insert", "send">> # <<"send", "clear">> /\ <<"insert", "send">> # <<"clear">>
        OBVIOUS
      <4> QED BY <1>1, <2>5, <4>1 DEF Sent
    <3>3. Live(session, made)
      BY <1>19, <3>2 DEF Forms
    <3>4. Live(session', made')
      BY <1>14, <1>15, <3>1, <3>3 DEF Live
    <3> QED BY <2>3, <3>4
  <2> QED BY <1>3, <2>4, <2>5
<1> QED BY <1>1, <1>8, <1>9, <1>12, <1>16, <1>17, <1>18, <1>19, FormStep

LEMMA InsertForms ==
    ASSUME FormInv, NEW x \in Handlers, Insert(x)
    PROVE  FormInv'
<1>1. IInv' /\ IInv
  BY InsertInv DEF FormInv
<1>2. UNCHANGED <<menu, session, updates, faults, overlap>> /\ At(x, "insert")
  BY DEF Insert
<1>3. PICK s : s = handler[x].copy
  OBVIOUS
<1>4. "insert" \in Ops \ {"read", "save", "clear"}
  BY DEF Ops
<1>5. handler[x] # Idle /\ handler[x].todo \notin Sent
  BY <1>2, <1>4, AtHead
<1>6. CASE s.src = None
  <2>1. MayInsert(s)
    BY <1>6 DEF MayInsert
  <2>2. Go(x, Onward(x)) /\ made' = [made EXCEPT ![s.form] = IF @ = 2 THEN 2 ELSE @ + 1]
    BY <1>3, <1>6, <2>1 DEF Insert
  <2> QED BY <1>1, <1>2, <1>3, <1>6, <2>2, InsertByHand
<1>7. CASE s.src # None /\ Go(x, Onward(x)) /\ made' = [made EXCEPT ![s.src] = IF @ = 2 THEN 2 ELSE @ + 1]
  <2>1. PICK h : h = Onward(x)
    OBVIOUS
  <2>2. /\ h \in Handler
        /\ h = Idle \/ (h.copy = handler[x].copy /\ h.act = handler[x].act /\ h.n = handler[x].n)
        /\ ~Has(h.todo, "read") /\ ~Has(h.todo, "save")
    BY <1>2, <1>4, <2>1, OnwardForms
  <2>3. ~ToInsert(h)
    <3>1. ~Has(Idle.todo, "insert")
      BY IdleFacts, HasNone
    <3> QED BY <1>3, <1>7, <2>2, <3>1 DEF ToInsert
  <2>4. s.src \in Suggestions
    BY <1>1, <1>2, <1>3, <1>7, AtFacts, InvParts DEF HandlerOK
  <2>5. \A f \in 1..MaxUpdates : f \in Sources /\ f # s.src
    BY <2>4, Constants DEF Sources
  <2>6. made \in [Sources -> 0..2]
    BY <1>1, InvParts DEF RestInv
  <2>7. \A f \in 1..MaxUpdates : made'[f] = made[f]
    BY <1>7, <2>5, <2>6
  <2>8. Go(x, h)
    BY <1>7, <2>1
  <2> QED BY <1>1, <1>2, <1>5, <2>2, <2>3, <2>7, <2>8, QuietStep
<1>8. CASE s.src # None /\ Go(x, Refused(x)) /\ UNCHANGED made
  <2>1. PICK h : h = Refused(x)
    OBVIOUS
  <2>2. h \in Handler /\ (h = Idle \/ (h.copy = handler[x].copy /\ h.act = handler[x].act /\ h.n = handler[x].n))
    BY <1>1, <2>1, RefusedFacts
  <2>3. \A op : Has(h.todo, op) => op = "clear"
    BY <1>1, <2>1, RefusedFacts
  <2>4. ~Has(h.todo, "read") /\ ~Has(h.todo, "save") /\ ~ToInsert(h)
    BY <2>3 DEF ToInsert
  <2>5. Go(x, h)
    BY <1>8, <2>1
  <2> QED BY <1>1, <1>2, <1>5, <1>8, <2>2, <2>4, <2>5, QuietStep
<1> QED BY <1>3, <1>6, <1>7, <1>8 DEF Insert

\* What a handler carries on from the session that it reads.
Carried(x, h) ==
    /\ h \in Handler /\ TodoOK(h) /\ ~Has(h.todo, "read")
    /\ h.copy.form \in {0, session.form, handler[x].n} /\ h.n \in {0, handler[x].n}
    /\ "excel" \in menu => h.copy.kind # "cargo" /\ (h = Idle \/ h.act \notin FormButtons \cup {"announce"})
    /\ ToInsert(h) => h.todo # <<"insert", "send">> /\ (h.todo = <<"insert", "send", "clear">> => "excel" \notin menu)

LEMMA ReadCarries ==
    ASSUME FormInv, NEW x \in Handlers, At(x, "read"), NEW h, Outcome(x, session, h)
    PROVE  Carried(x, h)
<1>1. IInv /\ handler[x] \in Handler /\ SessionOK(session) /\ session \in Session
  BY InvParts DEF FormInv, SessionInv, SessionOK
<1>2. ASSUME "excel" \in menu
      PROVE  session.kind # "cargo" /\ (handler[x] = Idle \/ handler[x].act \notin FormButtons \cup {"announce"})
  BY <1>2 DEF FormInv, NoForm
<1>3. handler[x] # Idle
  BY IdleFacts DEF At
<1>4. CASE h = Idle
  <2>1. h \in Handler /\ h.copy.form = 0 /\ h.copy.kind # "cargo" /\ h.n = 0 /\ \A op : ~Has(h.todo, op)
    BY <1>4, IdleFacts, BlankFacts, HasNone DEF Idle
  <2> QED BY <1>4, <2>1, IdleForms DEF Carried, ToInsert
<1>5. ASSUME NEW r, h = Does(x, <<"save">>, r), Written(x, session, r) PROVE Carried(x, h)
  <2>1. /\ r \in Session /\ r.form \in {0, session.form, handler[x].n}
        /\ r.kind = "cargo" => session.kind = "cargo" \/ handler[x].act \in FormButtons \cup {"announce"}
    BY <1>5 DEF Written, SessionOK
  <2>2. PICK t \in Seq(Ops) : t = <<"save">>
    BY OpsAre
  <2>3. h = Does(x, t, r)
    BY <1>5, <2>2
  <2>4. h \in Handler /\ h.todo = t /\ h.copy = r /\ h.act = handler[x].act /\ h.n = handler[x].n
    BY <1>1, <2>1, <2>3, DoesFacts
  <2>5. \A op : Has(h.todo, op) => op = "save"
    BY <2>2, <2>4, HasOne
  <2>6. TodoOK(h) /\ ~ToInsert(h)
    BY <2>2, <2>4, <2>5 DEF TodoOK, ToInsert
  <2> QED BY <1>2, <1>3, <2>1, <2>4, <2>5, <2>6 DEF Carried
<1>6. CASE h = Does(x, <<"clear">>, Blank)
  <2>1. PICK t \in Seq(Ops) : t = <<"clear">>
    BY OpsAre
  <2>2. h = Does(x, t, Blank)
    BY <1>6, <2>1
  <2>3. h \in Handler /\ h.todo = t /\ h.copy = Blank /\ h.act = handler[x].act /\ h.n = handler[x].n
    BY <1>1, <2>2, BlankFacts, DoesFacts
  <2>4. \A op : Has(h.todo, op) => op = "clear"
    BY <2>1, <2>3, HasOne
  <2>5. TodoOK(h) /\ ~ToInsert(h)
    BY <2>4 DEF TodoOK, ToInsert
  <2> QED BY <1>2, <1>3, <2>3, <2>4, <2>5, BlankFacts DEF Carried
<1>7. CASE session.kind = "cargo" /\ session.step = None /\ h \in publish(x, session)
  <2>1. session.kind = "cargo" /\ session.step = None /\ h \in publish(x, session)
    BY <1>7
  <2>2. h \in Handler /\ h.copy = session /\ h.act = handler[x].act /\ h.n = handler[x].n
    BY <1>1, <2>1, PublishFacts
  <2>3. \A op : Has(h.todo, op) => op \in {"check", "insert", "send", "clear"}
    BY <1>1, <2>1, PublishFacts
  <2>4. ~Has(h.todo, "read") /\ ~Has(h.todo, "save")
    BY <2>3
  <2>5. ASSUME ToInsert(h) PROVE h.todo = <<"insert", "send", "clear">>
    <3>1. session.src = None
      BY <2>2, <2>5 DEF ToInsert
    <3>2. PICK t \in Seq(Ops) : t = <<"insert", "send", "clear">>
      BY OpsAre
    <3>3. <<>> \o t = t
      OBVIOUS
    <3>4. h = Does(x, t, session)
      BY <2>1, <3>1, <3>2, <3>3 DEF publish
    <3>5. h.todo = t
      BY <1>1, <3>4, DoesFacts
    <3> QED BY <3>2, <3>5
  <2>6. TodoOK(h)
    BY <2>4, <2>5 DEF TodoOK
  <2>7. <<"insert", "send", "clear">> # <<"insert", "send">>
    OBVIOUS
  <2>8. "excel" \notin menu
    BY <1>2, <2>1
  <2> QED BY <2>2, <2>4, <2>5, <2>6, <2>7, <2>8 DEF Carried
<1>8. CASE session.kind = "excel" /\ session.step = "rows" /\ h \in excelConfirm(x, session)
  <2>1. PICK t \in Seq(Ops) : t = <<"clear", "insert", "send">>
    BY OpsAre
  <2>2. h = Does(x, t, session)
    BY <1>8, <2>1 DEF excelConfirm
  <2>3. h \in Handler /\ h.todo = t /\ h.copy = session /\ h.act = handler[x].act /\ h.n = handler[x].n
    BY <1>1, <2>2, DoesFacts
  <2>4. \A op : Has(h.todo, op) => op \in {"clear", "insert", "send"}
    BY <2>1, <2>3, HasThree
  <2>5. TodoOK(h) /\ ~Has(h.todo, "read")
    BY <2>1, <2>3, <2>4 DEF TodoOK
  <2>6. <<"clear", "insert", "send">> # <<"insert", "send">> /\ <<"clear", "insert", "send">> # <<"insert", "send", "clear">>
    OBVIOUS
  <2>7. session.kind # "cargo"
    BY <1>8
  <2> QED BY <1>2, <1>3, <2>1, <2>3, <2>5, <2>6, <2>7 DEF Carried
<1>9. CASE session.kind = "assign" /\ session.picked # 0 /\ h = Does(x, <<"clear", "offer">>, session)
  <2>1. PICK t \in Seq(Ops) : t = <<"clear", "offer">>
    BY OpsAre
  <2>2. h = Does(x, t, session)
    BY <1>9, <2>1
  <2>3. h \in Handler /\ h.todo = t /\ h.copy = session /\ h.act = handler[x].act /\ h.n = handler[x].n
    BY <1>1, <2>2, DoesFacts
  <2>4. \A op : Has(h.todo, op) => op \in {"clear", "offer"}
    BY <2>1, <2>3, HasTwo
  <2>5. TodoOK(h) /\ ~ToInsert(h) /\ ~Has(h.todo, "read")
    BY <2>4 DEF TodoOK, ToInsert
  <2>6. session.kind # "cargo"
    BY <1>9
  <2> QED BY <1>2, <1>3, <2>3, <2>5, <2>6 DEF Carried
<1> QED BY <1>4, <1>5, <1>6, <1>7, <1>8, <1>9 DEF Outcome

LEMMA ReadForms ==
    ASSUME FormInv, NEW x \in Handlers, Read(x)
    PROVE  FormInv'
<1>1. IInv' /\ IInv
  BY ReadInv DEF FormInv
<1>2. UNCHANGED <<menu, session, updates, faults, overlap, made>> /\ At(x, "read")
  BY DEF Read, history
<1>3. handler[x] \in Handler /\ ArgOK(handler[x]) /\ handler[x].n \in 0..MaxUpdates
  BY <1>1, <1>2, AtFacts, InvParts DEF HandlerOK, Handler
<1>4. SessionOK(session) /\ PickShown(session) /\ updates \in Nat
  BY <1>1, InvParts, Counters DEF SessionInv
<1>5. PICK h \in Outcomes(x, session) : Go(x, h)
  BY DEF Read
<1>6. Outcome(x, session, h)
  BY <1>3, <1>4, OutcomeOf
<1>7. Carried(x, h)
  BY <1>2, <1>6, ReadCarries
<1>8. handler[x] # Idle /\ Has(handler[x].todo, "read")
  BY <1>1, <1>2, AtFacts, IdleFacts
<1>9. session.form <= updates /\ handler[x].n <= updates
  BY DEF FormInv, Past
<1>10. h.copy.form <= updates /\ h.n <= updates
  BY <1>4, <1>7, <1>9 DEF Carried
<1>11. \A f \in 1..MaxUpdates : f > updates => made'[f] = 0
  BY <1>2 DEF FormInv, Past
<1>12. "excel" \in menu => /\ session'.kind # "cargo" /\ h.copy.kind # "cargo"
                           /\ h = Idle \/ h.act \notin FormButtons \cup {"announce"}
  BY <1>2, <1>7 DEF FormInv, NoForm, Carried
<1>13. ASSUME Forms, \A y \in Handlers : handler[y].todo \in Sent => y = x
       PROVE  /\ \A f \in 1..MaxUpdates : made'[f] <= 1
              /\ Live(session', made')
              /\ FormsOK(h, session', made')
  <2>1. handler[x].todo = <<"read">>
    BY <1>8 DEF FormInv, TodoOK
  <2>2. <<"read">> # <<"send", "clear">> /\ <<"read">> # <<"clear">>
    OBVIOUS
  <2>3. Live(session, made)
    BY <1>13, <2>1, <2>2 DEF Forms, Sent
  <2>4. handler[x].n > 0 /\ made[handler[x].n] = 0
    BY <1>8, <1>13 DEF Forms, FormsOK
  <2>5. Live(h.copy, made)
    BY <1>7, <2>3, <2>4 DEF Carried, Live
  <2>6. FormsOK(h, session', made')
    BY <1>2, <1>7, <2>5 DEF FormsOK, Carried, Live
  <2> QED BY <1>2, <1>13, <2>3, <2>6 DEF Forms, Live
<1>14. h \in Handler /\ TodoOK(h) /\ session'.form <= updates
  BY <1>2, <1>7, <1>9 DEF Carried
<1> QED BY <1>1, <1>2, <1>5, <1>8, <1>10, <1>11, <1>12, <1>13, <1>14, FormStep

\* An update or a turn starts when no other handler is under way, or they overlap.
LEMMA TakeForms ==
    ASSUME FormInv, NEW x \in Handlers, NEW h \in Handler, HandlerOK(h), Take(x, h), TodoOK(h),
           h.copy.form = 0, ~Has(h.todo, "save"), ~ToInsert(h),
           "excel" \in menu => h.copy.kind # "cargo" /\ h.act \notin FormButtons \cup {"announce"}
    PROVE  FormInv'
<1>1. IInv' /\ IInv
  BY TakeInv DEF FormInv
<1>2. UNCHANGED <<menu, session, faults, made>> /\ updates' = updates + 1 /\ updates < MaxUpdates /\ updates \in Nat
  BY <1>1, Counters DEF Take
<1>3. overlap' = (overlap \/ \E y \in Handlers : handler[y] # Idle)
  BY DEF Take
<1>4. PICK n : n = updates'
  OBVIOUS
<1>5. PICK g : g = [h EXCEPT !.n = n]
  OBVIOUS
<1>6. n \in 1..MaxUpdates /\ n = updates + 1
  BY <1>2, <1>4, Constants
<1>7. g.todo = h.todo /\ g.copy = h.copy /\ g.act = h.act /\ g.n = n
  BY <1>5 DEF Handler
<1>8. \A y \in Handlers : handler'[y] = IF y = x THEN g ELSE handler[y]
  <2>1. Go(x, g)
    BY <1>4, <1>5 DEF Take
  <2> QED BY <1>1, <2>1, InvParts DEF Go
<1>9. NoForm'
  BY <1>2, <1>7, <1>8 DEF FormInv, NoForm
<1>10. Past'
  <2>1. /\ \A f \in 1..MaxUpdates : f > updates => made[f] = 0
        /\ session.form <= updates
        /\ \A y \in Handlers : handler[y].copy.form <= updates /\ handler[y].n <= updates
    BY DEF FormInv, Past
  <2>2. \A y \in Handlers : handler[y].copy.form \in Nat /\ handler[y].n \in Nat
    BY <1>1, InvParts DEF Handler, Session
  <2>3. session.form \in Nat
    BY <1>1, InvParts DEF SessionInv, SessionOK, Session
  <2>4. \A y \in Handlers : handler[y].copy.form <= updates' /\ handler[y].n <= updates'
    BY <1>2, <2>1, <2>2
  <2>5. g.copy.form <= updates' /\ g.n <= updates'
    BY <1>2, <1>4, <1>6, <1>7
  <2>6. \A y \in Handlers : handler'[y].copy.form <= updates' /\ handler'[y].n <= updates'
    BY <1>8, <2>4, <2>5
  <2>7. \A f \in 1..MaxUpdates : f > updates' => made'[f] = 0
    BY <1>2, <2>1
  <2>8. session'.form <= updates'
    BY <1>2, <2>1, <2>3
  <2> QED BY <2>6, <2>7, <2>8 DEF Past
<1>11. TodoOK(g) /\ ~Has(g.todo, "save") /\ ~ToInsert(g)
  BY <1>7 DEF TodoOK, ToInsert
<1>12. \A y \in Handlers : TodoOK(handler[y])'
  <2>1. \A y \in Handlers : TodoOK(handler'[y])
    BY <1>8, <1>11 DEF FormInv
  <2> QED BY <2>1 DEF TodoOK, ToInsert, Has
<1>13. ~overlap' => Apart'
  BY <1>3, <1>8 DEF Apart
<1>14. ASSUME OneByOne' PROVE Forms'
  <2>1. Forms
    BY <1>2, <1>3, <1>14 DEF FormInv, OneByOne
  <2>2. \A y \in Handlers : handler[y] = Idle
    BY <1>3, <1>14 DEF OneByOne
  <2>3. Live(session, made)
    BY <2>1, <2>2, IdleForms DEF Forms
  <2>4. made[n] = 0
    BY <1>2, <1>6 DEF FormInv, Past
  <2>5. n > 0
    BY <1>6
  <2>6. FormsOK(g, session', made')
    BY <1>2, <1>7, <1>11, <2>4, <2>5 DEF FormsOK
  <2>7. \A y \in Handlers : FormsOK(handler'[y], session', made')
    BY <1>8, <2>2, <2>6, IdleForms
  <2>8. \A y \in Handlers : FormsOK(handler[y], session, made)'
    BY <1>2, <2>7 DEF FormsOK, Live, ToInsert, Has
  <2>9. Live(session, made)'
    BY <1>2, <2>3 DEF Live
  <2>10. \A f \in 1..MaxUpdates : made'[f] <= 1
    BY <1>2, <2>1 DEF Forms
  <2> QED BY <2>8, <2>9, <2>10 DEF Forms
<1> QED BY <1>1, <1>9, <1>10, <1>12, <1>13, <1>14 DEF FormInv

LEMMA UpdateForms ==
    ASSUME Separate, FormInv, NEW x \in Handlers, Update(x)
    PROVE  FormInv'
<1>1. IInv
  BY DEF FormInv
<1>2. PICK h : Take(x, h) /\ Started(h)
  BY <1>1, UpdateStarts
<1>3. h \in Handler /\ HandlerOK(h) /\ h.todo = <<"read">> /\ h.copy = Blank
  BY <1>2 DEF Started
<1>4. \A op : Has(h.todo, op) => op = "read"
  BY <1>3, HasOne
<1>5. TodoOK(h) /\ ~Has(h.todo, "save") /\ ~ToInsert(h)
  BY <1>3, <1>4 DEF TodoOK, ToInsert
<1>6. menu \in Menus
  BY <1>1, InvParts DEF RestInv
<1>7. "excel" \in menu => h.act \notin FormButtons \cup {"announce"}
  BY <1>2, <1>6 DEF Started, Separate
<1>8. h.copy.form = 0 /\ h.copy.kind # "cargo"
  BY <1>3, BlankFacts
<1> QED BY <1>2, <1>3, <1>5, <1>7, <1>8, TakeForms

LEMMA AutoAnnounceForms ==
    ASSUME Separate, FormInv, NEW x \in Handlers, AutoAnnounce(x)
    PROVE  FormInv'
<1>1. IInv
  BY DEF FormInv
<1>2. PICK h : Take(x, h) /\ Turn(h)
  BY <1>1, TurnStarts
<1>3. h \in Handler /\ HandlerOK(h) /\ h.copy.form = 0 /\ h.copy.src \in Suggestions
  BY <1>2 DEF Turn
<1>4. TodoOK(h) /\ ~Has(h.todo, "save") /\ ~ToInsert(h)
  BY <1>2, <1>3, Constants DEF Turn, TodoOK, ToInsert
<1>5. menu \in Menus /\ "suggestions" \in menu
  BY <1>1, InvParts, TurnStarts DEF RestInv
<1>6. "excel" \notin menu
  BY <1>5 DEF Separate
<1> QED BY <1>2, <1>3, <1>4, <1>6, TakeForms

LEMMA InitForms == Init => FormInv
<1> SUFFICES ASSUME Init PROVE FormInv
  OBVIOUS
<1>1. IInv
  BY InitInv
<1>2. \A x \in Handlers : handler[x] = Idle
  BY DEF Init
<1>3. Idle.copy.form = 0 /\ Idle.copy.kind # "cargo" /\ Idle.n = 0
  BY IdleFacts, BlankFacts DEF Idle
<1>4. session.form = 0 /\ session.kind # "cargo"
  BY BlankFacts DEF Init
<1>5. NoForm
  BY <1>2, <1>3, <1>4 DEF NoForm
<1>6. \A f \in 1..MaxUpdates : made[f] = 0
  BY DEF Init, Sources
<1>7. updates = 0
  BY DEF Init
<1>8. Past
  BY <1>2, <1>3, <1>4, <1>6, <1>7 DEF Past
<1>9. \A x \in Handlers : TodoOK(handler[x]) /\ FormsOK(handler[x], session, made)
  BY <1>2, IdleForms
<1>10. Apart
  BY <1>2 DEF Apart
<1>11. Forms
  BY <1>4, <1>6, <1>9 DEF Forms, Live
<1> QED BY <1>1, <1>5, <1>8, <1>9, <1>10, <1>11 DEF FormInv

LEMMA NextForms ==
    ASSUME Separate
    PROVE  FormInv /\ [Next]_vars => FormInv'
<1> SUFFICES ASSUME FormInv, [Next]_vars PROVE FormInv'
  OBVIOUS
<1> QED BY UpdateForms, AutoAnnounceForms, ReadForms, SaveForms, ClearForms, CheckForms, InsertForms, AnnounceNowForms,
        SendForms, StartOfferForms, FailForms, ExpireForms, SameForms DEF Next

\* A file is published once even if publishing fails and the button is pressed again, because
\* excelConfirm clears the session first; a form is when nothing fails; both when the user's
\* updates are handled one by one.
THEOREM Once ==
    ASSUME Separate
    PROVE  Spec => []PublishedOnce
<1>1. FormInv => PublishedOnce
  BY DEF FormInv, OneByOne, Forms, PublishedOnce
<1>2. Init => FormInv
  BY InitForms
<1>3. FormInv /\ [Next]_vars => FormInv'
  BY NextForms
<1> QED BY <1>1, <1>2, <1>3, PTL DEF Spec
=============================================================================
