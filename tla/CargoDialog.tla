------------------------------ MODULE CargoDialog ------------------------------
(***************************************************************************)
(* The forms a company fills in a messenger to publish loads and to hand a   *)
(* load to a driver (CargoDialog): one session in Redis per user, whichever   *)
(* form it is in, the loads that come of it (CargoListingService.publish and  *)
(* createManual, CargoExcelService.publish) and the turn that announces       *)
(* suggestions by itself (autoAnnounce).                                     *)
(*                                                                         *)
(* Messages and buttons of the user come in any order, the buttons of old     *)
(* messages too, and handlers run at once.  A handler reads the session, then  *)
(* does its accesses to Redis and to the database one by one.  The five       *)
(* optional questions of the form are one, "notes"; an Excel file has one      *)
(* load; the filter forms only take the session.  The user keeps its role and  *)
(* its profile.                                                             *)
(***************************************************************************)
EXTENDS Integers, Sequences, FiniteSets

CONSTANTS
    Handlers,       \* updates of the user that are handled at once
    Suggestions,    \* suggestions of the channels to the company
    Known,          \* suggestion -> what its message says of the required fields
    Listings,       \* open loads of the company that wait for a driver
    Candidates,     \* listing -> the drivers that asked for it, in order
    Drivers,        \* drivers a search may find
    Menus,          \* entries of the menu that the user takes, see Buttons
    None,           \* null, undefined
    MaxUpdates,     \* bound: messages and buttons of the user and automatic turns
    MaxFaults       \* bound: handlers that fail

Steps == <<"origin", "destination", "notes", "phone">>
REQUIRED == <<"origin", "destination", "phone">>
Entries == {"create", "suggestions", "excel", "mine", "filters"}
Fields == {Steps[i] : i \in 1..Len(Steps)}
Required == {REQUIRED[i] : i \in 1..Len(REQUIRED)}

ASSUME DialogAssumption ==
    /\ Known \in [Suggestions -> SUBSET {"origin", "destination"}]
    /\ Candidates \in [Listings -> Seq(Drivers)]
    /\ None \notin Suggestions \cup Listings \cup Fields \cup {"rows", "search"}
    /\ Suggestions \cap 0..MaxUpdates = {}
    /\ IsFiniteSet(Drivers) /\ Menus \subseteq SUBSET Entries
    /\ MaxUpdates \in Nat /\ MaxFaults \in Nat

VARIABLES
    menu,       \* the entries the user takes
    profile,    \* the company's profile has a phone
    session,    \* the dialog's session in Redis
    listing,    \* load published of a suggestion: "none", "quiet" (not announced), "announced"
    handler,    \* the handlers of updates and automatic turns
    updates,    \* updates so far
    faults,     \* failures so far
    overlap,    \* history: two handlers have run at once
    loads,      \* history: what the loads published say
    made,       \* history: loads made of each suggestion, form and file, 2 for more
    shown,      \* history: drivers whose details were shown for a listing
    offers      \* history: offers handed to the fare form

history == <<overlap, loads, made, shown, offers>>
vars == <<menu, profile, session, listing, handler, updates, faults, history>>

Kinds == {"none", "cargo", "excel", "assign", "filter"}
\* form: which form or file this is, counted in updates (history).
Session == [kind : Kinds, step : Fields \cup {None, "rows", "search"}, has : SUBSET Fields,
            src : Suggestions \cup Listings \cup {None}, editing : BOOLEAN, fillMissing : BOOLEAN,
            drivers : Seq(Drivers), picked : Nat, form : 0..MaxUpdates]
Blank == [kind |-> "none", step |-> None, has |-> {}, src |-> None, editing |-> FALSE, fillMissing |-> FALSE,
          drivers |-> <<>>, picked |-> 0, form |-> 0]

Ops == {"read", "save", "clear", "check", "insert", "announceNow", "send", "offer"}
Idle == [todo |-> <<>>, n |-> 0, act |-> None, arg |-> None, copy |-> Blank]
Sources == Suggestions \cup 1..MaxUpdates

Init ==
    /\ menu \in Menus
    /\ profile \in BOOLEAN
    /\ session = Blank
    /\ listing = [s \in Suggestions |-> "none"]
    /\ handler = [x \in Handlers |-> Idle]
    /\ updates = 0 /\ faults = 0
    /\ overlap = FALSE
    /\ loads = {}
    /\ made = [s \in Sources |-> 0]
    /\ shown = {} /\ offers = {}

(***************************************************************************)
(* The load form.                                                           *)
(***************************************************************************)
\* The first of the sequence q that passes Test.
Find(q, Test(_)) ==
    LET hits == {i \in 1..Len(q) : Test(q[i])}
    IN  IF hits = {} THEN None ELSE q[CHOOSE i \in hits : \A j \in hits : i <= j]

FirstMissing(s) == LET Lacks(f) == f \notin s.has IN Find(REQUIRED, Lacks)

\* Steps after the current one, without the phone that the load or the profile has.
Remaining(s) ==
    LET From(f) == \E i, j \in 1..Len(Steps) : Steps[i] = s.step /\ Steps[j] = f /\ j > i
        Asked(f) == f # "phone" \/ s.editing \/ ~("phone" \in s.has \/ profile)
        Next(f) == From(f) /\ Asked(f)
    IN  Find(Steps, Next)

nextStep(s) ==
    IF s.fillMissing THEN [s EXCEPT !.step = FirstMissing(s), !.fillMissing = FirstMissing(s) # None]
                     ELSE [s EXCEPT !.step = Remaining(s)]

canApply(s) == ~s.fillMissing /\ {"origin", "destination"} \subseteq s.has
applySteps(s) == [s EXCEPT !.step = IF "phone" \in s.has \/ profile THEN None ELSE "phone"]

canSkip_Any(s) == TRUE
canSkip(s) == s.step \notin Required \/ (s.editing /\ s.step \in s.has)

startCreate(n) == [Blank EXCEPT !.kind = "cargo", !.step = "origin", !.form = n]
startEdit(s) ==
    [s EXCEPT !.has = IF profile THEN @ \cup {"phone"} ELSE @, !.editing = TRUE, !.fillMissing = FALSE,
              !.step = Steps[1]]

\* buildDraft: the message's fields and the profile's phone.
buildDraft(n) == [Blank EXCEPT !.kind = "cargo", !.src = n, !.has = Known[n] \cup (IF profile THEN {"phone"} ELSE {})]

startAnnounce(n) ==
    LET s == buildDraft(n) IN [s EXCEPT !.step = FirstMissing(s), !.fillMissing = FirstMissing(s) # None]

(***************************************************************************)
(* Handing a load to a driver.                                              *)
(***************************************************************************)
startAssign(l) == [Blank EXCEPT !.kind = "assign", !.src = l, !.drivers = Candidates[l]]

\* assignSearch: drivers that are not in the list yet go to its end.
Searched_First(s, d) ==
    [s EXCEPT !.step = None,
              !.drivers = IF d = None \/ \E i \in 1..Len(@) : @[i] = d THEN @ ELSE <<d>> \o @]
Searched(s, d) ==
    [s EXCEPT !.step = None,
              !.drivers = IF d = None \/ \E i \in 1..Len(@) : @[i] = d THEN @ ELSE Append(@, d)]

(***************************************************************************)
(* What an update does, given the session s it reads.                       *)
(***************************************************************************)
Does(x, todo, s) == [handler[x] EXCEPT !.todo = todo, !.copy = s]
Saves(x, s) == {Does(x, <<"save">>, s)}
Clears(x) == {Does(x, <<"clear">>, Blank)}
Shows == {Idle}

\* publish: a suggestion's load is looked up first; the session goes last.
publish(x, s) ==
    {Does(x, (IF s.src = None THEN <<>> ELSE <<"check">>) \o <<"insert", "send", "clear">>, s)}

\* excelConfirm: the session goes first.
excelConfirm_ClearsLast(x, s) == {Does(x, <<"insert", "send", "clear">>, s)}
excelConfirm(x, s) == {Does(x, <<"clear", "insert", "send">>, s)}

\* handleText: an answer is taken or asked for again.
handleText(x, s) ==
    CASE s.kind = "cargo" /\ s.step # None -> Saves(x, nextStep([s EXCEPT !.has = @ \cup {s.step}])) \cup Shows
      [] s.kind = "assign" /\ s.step = "search" -> UNION {Saves(x, Searched(s, d)) : d \in Drivers \cup {None}}
      [] s.kind = "filter" -> Saves(x, s) \cup Clears(x) \cup Shows
      [] OTHER -> Shows

\* handleText with one of CANCEL_WORDS.
cancelWord(x, s) ==
    CASE s.kind \in {"cargo", "excel", "filter"} -> Clears(x)
      [] s.kind = "assign" /\ s.step = "search" -> Saves(x, [s EXCEPT !.step = None])
      [] OTHER -> Shows

\* handleDocument: rows that can be published, errors in them, or no Excel file; outside
\* any form a file is taken too.
handleDocument(x, s) ==
    IF s.kind \notin {"none", "excel"} THEN Shows
    ELSE Saves(x, [Blank EXCEPT !.kind = "excel"]) \cup Shows
         \cup Saves(x, [Blank EXCEPT !.kind = "excel", !.step = "rows", !.has = Required, !.form = handler[x].n])

\* route: the buttons of the load form.
FormButton(x, a, s) ==
    CASE a = "create" \/ (a = "restart" /\ (s.kind # "cargo" \/ s.src = None)) -> Saves(x, startCreate(handler[x].n))
      [] a = "restart" /\ s.kind = "cargo" /\ s.src # None -> Saves(x, startAnnounce(s.src)) \cup Shows
      [] a = "cancel" -> Clears(x)
      [] a = "skip" /\ s.kind = "cargo" /\ s.step # None /\ canSkip(s) -> Saves(x, nextStep(s))
      [] a = "apply" /\ s.kind = "cargo" /\ s.step # None /\ canApply(s) -> Saves(x, applySteps(s))
      [] a = "edit" /\ s.kind = "cargo" /\ s.step = None -> Saves(x, startEdit(s))
      [] a = "confirm" /\ s.kind = "cargo" /\ s.step = None -> publish(x, s)
      [] OTHER -> Shows

\* route: the buttons of the list of drivers; assignConfirm hands over to the fare form.
AssignButton(x, a, s) ==
    CASE s.kind # "assign" -> Shows
      [] s.kind = "assign" /\ a = "assignCancel" -> Clears(x)
      [] s.kind = "assign" /\ a = "assignList" -> Saves(x, [s EXCEPT !.picked = 0, !.step = None])
      [] s.kind = "assign" /\ a = "assignSearch" -> Saves(x, [s EXCEPT !.step = "search"])
      [] s.kind = "assign" /\ a = "assignConfirm" /\ s.picked # 0 -> {Does(x, <<"clear", "offer">>, s)}
      [] s.kind = "assign" /\ a = "assignPick" /\ handler[x].arg <= Len(s.drivers) ->
           Saves(x, [s EXCEPT !.picked = handler[x].arg])
      [] OTHER -> Saves(x, s)

FormButtons == {"create", "restart", "skip", "apply", "edit", "confirm", "cancel"}
AssignButtons == {"assignList", "assignSearch", "assignConfirm", "assignCancel", "assignPick"}

Outcomes(x, s) ==
    LET a == handler[x].act IN
    CASE a \in {"close", "excelCancel"} -> Clears(x)
      [] a = "text" -> handleText(x, s)
      [] a = "cancelWord" -> cancelWord(x, s)
      [] a = "document" -> handleDocument(x, s)
      [] a = "announce" -> Saves(x, startAnnounce(handler[x].arg)) \cup Shows
      [] a \in FormButtons -> FormButton(x, a, s)
      [] a = "excelStart" -> Saves(x, [Blank EXCEPT !.kind = "excel"])
      [] a = "excelConfirm" -> IF s.kind = "excel" /\ s.step = "rows" THEN excelConfirm(x, s) ELSE Shows
      [] a = "markTaken" -> Saves(x, startAssign(handler[x].arg)) \cup Shows
      [] a \in AssignButtons -> AssignButton(x, a, s)
      [] a = "filterNew" -> Saves(x, [Blank EXCEPT !.kind = "filter"])
      [] a = "filterCancel" -> IF s.kind = "filter" THEN Clears(x) ELSE Shows

(***************************************************************************)
(* Actions.                                                                 *)
(***************************************************************************)
Go(x, h) == handler' = [handler EXCEPT ![x] = h]
At(x, op) == handler[x].todo # <<>> /\ Head(handler[x].todo) = op
Onward(x) == IF Len(handler[x].todo) = 1 THEN Idle ELSE [handler[x] EXCEPT !.todo = Tail(@)]

Take(x, h) ==
    /\ handler[x] = Idle /\ updates < MaxUpdates
    /\ updates' = updates + 1
    /\ overlap' = (overlap \/ \E y \in Handlers : handler[y] # Idle)
    /\ Go(x, [h EXCEPT !.n = updates'])
    /\ UNCHANGED <<menu, profile, session, listing, faults, loads, made, shown, offers>>

\* The updates that an entry of the menu brings with it: buttons and their arguments.
Buttons(entry) ==
    CASE entry = "create" -> FormButtons \X {None}
      [] entry = "suggestions" -> ((FormButtons \ {"create"}) \X {None}) \cup ({"announce"} \X Suggestions)
      [] entry = "excel" -> {"excelStart", "excelConfirm", "excelCancel", "document"} \X {None}
      [] entry = "mine" -> ((AssignButtons \ {"assignPick"}) \X {None}) \cup ({"markTaken"} \X Listings)
                           \cup ({"assignPick"} \X (1..Cardinality(Drivers)))
      [] entry = "filters" -> {"filterNew", "filterCancel"} \X {None}

\* A message or a button, of the last reply or of an older one.
Update(x) ==
    \E b \in ({"text", "cancelWord", "close"} \X {None}) \cup UNION {Buttons(e) : e \in menu} :
        Take(x, [Idle EXCEPT !.todo = <<"read">>, !.act = b[1], !.arg = b[2]])

\* autoAnnounce: a complete suggestion that is not published yet, or a load still to announce.
AutoAnnounce(x) ==
    /\ "suggestions" \in menu
    /\ \E n \in Suggestions :
         \/ /\ listing[n] = "none" /\ Required \subseteq buildDraft(n).has
            /\ Take(x, [Idle EXCEPT !.todo = <<"check", "insert", "send">>, !.copy = buildDraft(n)])
         \/ /\ listing[n] = "quiet"
            /\ Take(x, [Idle EXCEPT !.todo = <<"announceNow", "send">>, !.copy = buildDraft(n)])

Read(x) ==
    /\ At(x, "read")
    /\ \E h \in Outcomes(x, session) : Go(x, h)
    /\ UNCHANGED <<menu, profile, session, listing, updates, faults, history>>

\* saveSession; the details of a driver that was picked are shown.
Save(x) ==
    LET s == handler[x].copy IN
    /\ At(x, "save")
    /\ session' = s
    /\ shown' = IF handler[x].act = "assignPick" /\ s.picked # 0 THEN shown \cup {<<s.src, s.drivers[s.picked]>>} ELSE shown
    /\ Go(x, Onward(x))
    /\ UNCHANGED <<menu, profile, listing, updates, faults, overlap, loads, made, offers>>

Clear(x) ==
    /\ At(x, "clear")
    /\ session' = Blank
    /\ Go(x, Onward(x))
    /\ UNCHANGED <<menu, profile, listing, updates, faults, history>>

\* The handler gives up publishing; one of the user clears the session.
Refused(x) == IF handler[x].act = None THEN Idle ELSE [handler[x] EXCEPT !.todo = <<"clear">>]

\* CargoListingService.publish: a load that waits is announced, any other is refused.
Check(x) ==
    LET was == listing[handler[x].copy.src] IN
    /\ At(x, "check")
    /\ Go(x, CASE was = "none" -> Onward(x)
               [] was = "quiet" -> [handler[x] EXCEPT !.todo = <<"announceNow">> \o Tail(Tail(@))]
               [] was = "announced" -> Refused(x))
    /\ UNCHANGED <<menu, profile, session, listing, updates, faults, history>>

\* The unique index on source and publisher; a load by hand has a source of its own.
MayInsert_Always(s) == TRUE
MayInsert(s) == s.src # None => listing[s.src] = "none"

\* publishListing: the load is saved, as announced when there is a driver for it.
Insert(x) ==
    LET s == handler[x].copy
        source == IF s.src = None THEN s.form ELSE s.src
    IN
    /\ At(x, "insert")
    /\ \/ /\ MayInsert(s)
          /\ made' = [made EXCEPT ![source] = IF @ = 2 THEN 2 ELSE @ + 1]
          /\ loads' = loads \cup {s.has \cup (IF profile THEN {"phone"} ELSE {})}
          /\ \E to \in {"quiet", "announced"} :
               listing' = IF s.src = None THEN listing ELSE [listing EXCEPT ![s.src] = to]
          /\ Go(x, Onward(x))
       \/ /\ ~MayInsert(s)
          /\ Go(x, Refused(x))
          /\ UNCHANGED <<listing, loads, made>>
    /\ UNCHANGED <<menu, profile, session, updates, faults, overlap, shown, offers>>

\* announceNow: a load that waited is announced.
AnnounceNow(x) ==
    /\ At(x, "announceNow")
    /\ listing' = [listing EXCEPT ![handler[x].copy.src] = "announced"]
    /\ Go(x, Onward(x))
    /\ UNCHANGED <<menu, profile, session, updates, faults, history>>

\* sendToDrivers: the notices of CargoDelivery, which change nothing here.
SendToDrivers(x) ==
    /\ At(x, "send")
    /\ Go(x, Onward(x))
    /\ UNCHANGED <<menu, profile, session, listing, updates, faults, history>>

\* TripFareDialog.startOffer.
StartOffer(x) ==
    LET s == handler[x].copy IN
    /\ At(x, "offer")
    /\ offers' = offers \cup {<<s.src, s.drivers[s.picked]>>}
    /\ Go(x, Onward(x))
    /\ UNCHANGED <<menu, profile, session, listing, updates, faults, overlap, loads, made, shown>>

\* An access fails, or the process dies: handleAction tells the user that it failed.
Fail(x) ==
    /\ handler[x] # Idle /\ faults < MaxFaults
    /\ faults' = faults + 1
    /\ Go(x, Idle)
    /\ UNCHANGED <<menu, profile, session, listing, updates, history>>

\* Redis drops the session after SESSION_TTL_SECONDS.
Expire ==
    /\ session # Blank
    /\ session' = Blank
    /\ UNCHANGED <<menu, profile, listing, handler, updates, faults, history>>

Next ==
    \/ \E x \in Handlers :
         \/ Update(x) \/ AutoAnnounce(x) \/ Read(x) \/ Save(x) \/ Clear(x) \/ Check(x) \/ Insert(x)
         \/ AnnounceNow(x) \/ SendToDrivers(x) \/ StartOffer(x) \/ Fail(x)
    \/ Expire

Spec == Init /\ [][Next]_vars

(***************************************************************************)
(* Properties.                                                              *)
(***************************************************************************)
\* The session and the handlers are as CargoSession, AssignSession and ExcelSession type
\* them; a driver that is picked is in the list.
TypeOK ==
    /\ menu \in Menus /\ profile \in BOOLEAN
    /\ session \in Session /\ session.picked <= Len(session.drivers)
    /\ listing \in [Suggestions -> {"none", "quiet", "announced"}]
    /\ \A x \in Handlers : handler[x].copy \in Session /\ handler[x].todo \in Seq(Ops)
    /\ updates \in 0..MaxUpdates /\ faults \in 0..MaxFaults
    /\ overlap \in BOOLEAN /\ loads \subseteq SUBSET Fields /\ made \in [Sources -> 0..2]
    /\ shown \subseteq Listings \X Drivers /\ offers \subseteq Listings \X Drivers

\* REQUIRED: every load published from a form, a file or by itself says where it goes from
\* and to and whom to call, whichever buttons were pressed and in what order.
LoadsComplete == \A fields \in loads : Required \subseteq fields

\* publish, saveListing: a suggestion becomes one load of the company, pressed twice, tried
\* again after a failure or published by the automatic turn meanwhile.
SuggestionOnce == \A n \in Suggestions : made[n] <= 1

\* excelConfirm, which clears the session before it publishes, and publish: a file is
\* published once even if publishing fails and the button is pressed again; a form is when
\* nothing fails; both when the user's updates are handled one by one.
PublishedOnce == ~overlap /\ (faults = 0 \/ "excel" \in menu) => \A f \in 1..MaxUpdates : made[f] <= 1

\* assignDetail: a load is offered to a driver only after that driver's details were shown
\* for that load, although the buttons of the list only carry a position.
OfferShown == offers \subseteq shown
=============================================================================
