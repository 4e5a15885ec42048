--------------------------- MODULE CargoTripProofs ---------------------------
(***************************************************************************)
(* Proofs about CargoTrip, for every number of drivers, brokers, clients,  *)
(* fares, time bounds and restarts.                                        *)
(*                                                                         *)
(* The invariants are not inductive on the rows alone: a row is written    *)
(* from an entity some session read earlier, so every copy a session holds *)
(* (its entity in hand, and the rest of a list it walks) must be backed by *)
(* the same consent and fare as a row with that status would be.           *)
(***************************************************************************)
EXTENDS CargoTrip, FiniteSetTheorems, TLAPS

\* A status only a driver that asked or confirmed can have, ...
ByDriver == {"PENDING", "REJECTED", "CANCELLED", "ACCEPTED", "DELIVERED", "TRIP_CANCELLED"}
\* ... and one only a driver the company accepted or offered the load to can have.
ByCompany == {"OFFERED", "DECLINED", "EXPIRED", "ACCEPTED", "DELIVERED", "TRIP_CANCELLED"}

Backed(d, status) ==
    /\ status \in ByDriver => d \in asked \cup confirmed
    /\ status \in ByCompany => d \in chosen
    /\ status = "DELIVERED" => fares[d].delivered # NoFare

RowsBacked == \A d \in Drivers : Backed(d, row[d].status)

\* Sessions that have no driver in hand.
Driverless == {"idle", "expireNext", "remindNext", "hasActiveTrip", "hasDelivered", "reopen"}

\* Sessions inside repository.save, and what their handlers do after it.
Saving == {"save", "insert", "write"}
AfterSave == {"idle", "charged", "takeListing", "rejectOther", "offerReread", "takenOver",
              "restoreNext", "hasActiveTrip", "expireNext", "remindNext"}

\* What a session in state me knows of the entities it holds.
SessionOK(me) ==
    /\ me.pc \notin Driverless => me.d \in Drivers
    /\ me.d \in Drivers => Backed(me.d, me.mem.status)
    /\ \A t \in me.todo : Backed(t.d, t.mem.status)
    /\ me.pc \in {"acceptOffer", "acceptFare"} => me.mem.status = "PENDING"
    /\ me.pc = "deliverFare" => me.mem.status = "ACCEPTED" /\ me.fare # NoFare
    /\ me.pc \in {"takeListing", "otherPending"} => me.after = "takeListing"
    /\ me.pc = "takenOver" => me.after = "takenOver"
    /\ me.pc \in Saving => me.after \in AfterSave
    /\ me.pc \in {"requestCharge", "refund"} => me.d \in Brokers
    /\ me.pc \in Saving /\ me.after = "charged" => me.d \in Brokers
    /\ "rejectOther" \in {me.pc, me.after} => \A t \in me.todo : t.mem.status = "PENDING"
    /\ "restoreNext" \in {me.pc, me.after} => \A t \in me.todo : t.mem.status = "REJECTED"
    /\ "expireNext" \in {me.pc, me.after} => \A t \in me.todo : t.mem.status = "OFFERED"

SessionsOK == \A p \in Procs : SessionOK(sess[p])

\* The inductive invariant.
IInv == TypeOK /\ OneTripPerLoad /\ RowsBacked /\ SessionsOK

-----------------------------------------------------------------------------
(* Facts about the operators. *)

LEMMA IdleSession == Idle \in Session /\ SessionOK(Idle)
<1>1. NoTime \in Time
  BY TripAssumption DEF NoTime, Time
<1>2. Idle \in Session
  BY <1>1 DEF Idle, Session, NewRow, Row, Pcs
<1>3. SessionOK(Idle)
  BY DEF Idle, SessionOK, Saving, Driverless, Backed, ByDriver, ByCompany, NewRow
<1> QED BY <1>2, <1>3

\* The columns save writes come from the entity or from the row.
LEMMA MergedRow ==
    ASSUME NEW cur \in Row, NEW mem \in Row, NEW snap \in Row
    PROVE  /\ Merged(cur, mem, snap) \in Row
           /\ Merged(cur, mem, snap).status \in {cur.status, mem.status}
BY DEF Merged, Row

\* A list loaded from the rows of drivers that all have the status st.
LEMMA LoadedRows ==
    ASSUME TypeOK, RowsBacked, NEW D \in SUBSET Drivers
    PROVE  /\ Loaded(D) \in SUBSET [d : Drivers, mem : Row]
           /\ \A t \in Loaded(D) : t.d \in D /\ t.mem = row[t.d] /\ Backed(t.d, t.mem.status)
BY DEF Loaded, TypeOK, RowsBacked

\* The state the histories and the fares may move to without undoing what backs a status.
Grows ==
    /\ asked \subseteq asked' /\ confirmed \subseteq confirmed' /\ chosen \subseteq chosen'
    /\ \A d \in Drivers : fares[d].delivered # NoFare => fares'[d].delivered # NoFare

\* TypeOK without the rows and the sessions.
RestTyped ==
    /\ listing \in {"OPEN", "TAKEN"}
    /\ fares \in [Drivers -> [agreed : Fares \cup {NoFare}, delivered : Fares \cup {NoFare}]]
    /\ credit \in [Brokers -> Nat]
    /\ now \in 1 .. MaxTime
    /\ crashes \in 0 .. MaxCrashes
    /\ arrivals \in {"apart", "together"}
    /\ asked \subseteq Drivers /\ confirmed \subseteq Drivers
    /\ chosen \subseteq Drivers /\ refused \subseteq Drivers
    /\ filed \in [Brokers -> Nat]

LEMMA BackedStays ==
    ASSUME Grows, NEW d \in Drivers, NEW st, Backed(d, st)
    PROVE  Backed(d, st)'
BY DEF Grows, Backed

LEMMA SessionStays ==
    ASSUME Grows, NEW me \in Session, SessionOK(me)
    PROVE  SessionOK(me)'
<1>1. \A t \in me.todo : Backed(t.d, t.mem.status)'
  BY BackedStays DEF Session, SessionOK
<1>2. me.d \in Drivers => Backed(me.d, me.mem.status)'
  BY BackedStays DEF SessionOK
<1> QED BY <1>1, <1>2 DEF SessionOK

\* A step that changes no row: what one session comes to hold is all there is to check.
LEMMA SessionStep ==
    ASSUME IInv, NEW s \in Procs, NEW me \in Session, Set(s, me), SessionOK(me)',
           row' = row, Grows, RestTyped'
    PROVE  IInv'
<1>1. TypeOK'
  BY DEF IInv, TypeOK, RestTyped, Set
<1>2. OneTripPerLoad'
  BY DEF IInv, OneTripPerLoad
<1>3. RowsBacked'
  BY BackedStays DEF IInv, RowsBacked
<1>4. ASSUME NEW p \in Procs PROVE SessionOK(sess[p])'
  <2>1. CASE p = s
    <3>1. sess'[p] = me
      BY <2>1 DEF IInv, TypeOK, Set
    <3> QED BY <3>1 DEF SessionOK
  <2>2. CASE p # s
    <3>1. PICK old \in Session : old = sess[p]
      BY DEF IInv, TypeOK
    <3>2. SessionOK(old)
      BY <3>1 DEF IInv, SessionsOK
    <3>3. SessionOK(old)'
      BY <3>2, SessionStays
    <3>4. sess'[p] = old
      BY <2>2, <3>1 DEF IInv, TypeOK, Set
    <3> QED BY <3>3, <3>4 DEF SessionOK
  <2> QED BY <2>1, <2>2
<1> QED BY <1>1, <1>2, <1>3, <1>4 DEF IInv, SessionsOK

\* A step that only reads, or a call that only reads.
LEMMA ReadStep ==
    ASSUME IInv, NEW s \in Procs, NEW me \in Session, Set(s, me), SessionOK(me),
           CallOnly, now' \in 1 .. MaxTime
    PROVE  IInv'
<1>1. Grows
  BY DEF Grows, CallOnly, history
<1>2. RestTyped'
  BY DEF RestTyped, IInv, TypeOK, CallOnly, history
<1>3. SessionOK(me)'
  BY <1>1, SessionStays
<1>4. row' = row
  BY DEF CallOnly
<1> QED BY <1>1, <1>2, <1>3, <1>4, SessionStep

LEMMA SessionFacts ==
    ASSUME IInv, NEW s \in Procs
    PROVE  sess[s] \in Session /\ SessionOK(sess[s])
BY DEF IInv, TypeOK, SessionsOK

LEMMA EndStep ==
    ASSUME IInv, NEW s \in Procs, End(s), CallOnly, now' \in 1 .. MaxTime
    PROVE  IInv'
<1>1. PICK me \in Session : me = Idle /\ SessionOK(Idle)
  BY IdleSession
<1>2. SessionOK(me) /\ Set(s, me)
  BY <1>1 DEF End
<1> QED BY <1>1, <1>2, ReadStep

LEMMA GotoStep ==
    ASSUME IInv, NEW s \in Procs, NEW pc \in Pcs, Goto(s, pc), CallOnly, now' \in 1 .. MaxTime,
           pc \notin {"deliverFare", "rejectOther", "restoreNext", "expireNext", "acceptOffer",
                      "takeListing", "otherPending", "takenOver"} \cup Saving,
           pc \in {"requestCharge", "refund"} => sess[s].d \in Brokers,
           pc \in Driverless \/ sess[s].pc \notin Driverless,
           pc = "acceptFare" => sess[s].pc = "acceptOffer"
    PROVE  IInv'
<1>1. PICK me : me = [sess[s] EXCEPT !.pc = pc]
  OBVIOUS
<1>2. me \in Session
  BY <1>1, SessionFacts DEF Session
<1>3. SessionOK(me)
  BY <1>1, SessionFacts DEF Session, SessionOK, Saving, Driverless
<1>4. Set(s, me)
  BY <1>1 DEF Goto
<1> QED BY <1>2, <1>3, <1>4, ReadStep

LEMMA ReadsOnlyIsCallOnly ==
    ASSUME IInv, ReadsOnly
    PROVE  CallOnly /\ now' \in 1 .. MaxTime
BY DEF IInv, TypeOK, ReadsOnly, CallOnly

LEMMA CallClock ==
    ASSUME IInv, NEW s, NEW op, Call(s, op)
    PROVE  now' \in 1 .. MaxTime /\ now \in Time /\ now + OfferTTL \in Time
BY TripAssumption DEF IInv, TypeOK, Call, Horizon, Time

LEMMA Clock ==
    ASSUME IInv
    PROVE  now \in Time /\ now + OfferTTL \in Time /\ NoTime \in Time
BY TripAssumption DEF IInv, TypeOK, Time, NoTime

-----------------------------------------------------------------------------
(* The reading steps of the handlers. *)

LEMMA SaveSelectInv == ASSUME IInv, NEW s \in Procs, SaveSelect(s) PROVE IInv'
<1>1. PICK me : me = [sess[s] EXCEPT !.pc = "write", !.snap = row[sess[s].d]]
  OBVIOUS
<1>2. sess[s].d \in Drivers /\ row[sess[s].d] \in Row
  BY SessionFacts DEF SaveSelect, SessionOK, Driverless, IInv, TypeOK
<1>3. me \in Session
  BY <1>1, <1>2, SessionFacts, ZenonT(40) DEF Session, Pcs
<1>4. SessionOK(me)
  BY <1>1, <1>2, SessionFacts DEF Session, SessionOK, Saving, Driverless, SaveSelect
<1>5. Set(s, me)
  BY <1>1 DEF SaveSelect
<1> QED BY <1>3, <1>4, <1>5, ReadStep, ReadsOnlyIsCallOnly DEF SaveSelect

LEMMA SaveRefusedInv == ASSUME IInv, NEW s \in Procs, SaveRefused(s) PROVE IInv'
<1>1. CASE sess[s].after # "charged"
  BY <1>1, EndStep, ReadsOnlyIsCallOnly DEF SaveRefused
<1>2. CASE sess[s].after = "charged"
  <2>1. Goto(s, "refund") /\ sess[s].pc \in {"insert", "write"} /\ ReadsOnly
    BY <1>2 DEF SaveRefused
  <2>2. sess[s].d \in Brokers
    BY <1>2, <2>1, SessionFacts DEF SessionOK, Saving
  <2> QED BY <2>1, <2>2, GotoStep, ReadsOnlyIsCallOnly DEF Pcs, Saving, Driverless
<1> QED BY <1>1, <1>2

LEMMA RequestRowInv == ASSUME IInv, NEW s \in Procs, RequestRow(s) PROVE IInv'
<1>1. CASE End(s)
  BY <1>1, EndStep, ReadsOnlyIsCallOnly DEF RequestRow
<1>2. CASE Set(s, [sess[s] EXCEPT !.pc = "requestOffer", !.mem = row[sess[s].d]])
  <2>1. PICK me : me = [sess[s] EXCEPT !.pc = "requestOffer", !.mem = row[sess[s].d]]
    OBVIOUS
  <2>2. sess[s].d \in Drivers /\ row[sess[s].d] \in Row
    BY SessionFacts DEF RequestRow, SessionOK, Driverless, IInv, TypeOK
  <2>3. me \in Session
    BY <2>1, <2>2, SessionFacts, ZenonT(40) DEF Session, Pcs
  <2>4. SessionOK(me)
    BY <2>1, <2>2, SessionFacts DEF Session, SessionOK, Saving, Driverless, RequestRow, IInv, RowsBacked
  <2>5. Set(s, me)
    BY <1>2, <2>1
  <2> QED BY <2>3, <2>4, <2>5, ReadStep, ReadsOnlyIsCallOnly DEF RequestRow
<1> QED BY <1>1, <1>2 DEF RequestRow

LEMMA AcceptOfferInv == ASSUME IInv, NEW s \in Procs, AcceptOffer(s) PROVE IInv'
<1>1. CASE End(s)
  BY <1>1, EndStep, ReadsOnlyIsCallOnly DEF AcceptOffer
<1>2. CASE Goto(s, "acceptFare")
  BY <1>2, GotoStep, ReadsOnlyIsCallOnly DEF AcceptOffer, Pcs, Saving, Driverless
<1> QED BY <1>1, <1>2 DEF AcceptOffer

LEMMA OfferCheckInv == ASSUME IInv, NEW s \in Procs, OfferCheck(s) PROVE IInv'
<1>1. CASE End(s)
  BY <1>1, EndStep, ReadsOnlyIsCallOnly DEF OfferCheck
<1>2. CASE Goto(s, "offerRow")
  BY <1>2, GotoStep, ReadsOnlyIsCallOnly DEF OfferCheck, Pcs, Saving, Driverless
<1> QED BY <1>1, <1>2 DEF OfferCheck

LEMMA HasActiveTripInv == ASSUME IInv, NEW s \in Procs, HasActiveTrip(s) PROVE IInv'
<1>1. CASE End(s)
  BY <1>1, EndStep, ReadsOnlyIsCallOnly DEF HasActiveTrip
<1>2. CASE Goto(s, "hasDelivered")
  BY <1>2, GotoStep, ReadsOnlyIsCallOnly DEF HasActiveTrip, Pcs, Saving, Driverless
<1> QED BY <1>1, <1>2 DEF HasActiveTrip

LEMMA HasDeliveredInv == ASSUME IInv, NEW s \in Procs, HasDelivered(s) PROVE IInv'
<1>1. CASE End(s)
  BY <1>1, EndStep, ReadsOnlyIsCallOnly DEF HasDelivered
<1>2. CASE Goto(s, "reopen")
  BY <1>2, GotoStep, ReadsOnlyIsCallOnly DEF HasDelivered, Pcs, Saving, Driverless
<1> QED BY <1>1, <1>2 DEF HasDelivered

LEMMA OfferRereadInv == ASSUME IInv, NEW s \in Procs, OfferReread(s) PROVE IInv'
<1>1. PICK me : me = [sess[s] EXCEPT !.pc = "offerFare", !.mem = row[sess[s].d]]
  OBVIOUS
<1>2. sess[s].d \in Drivers /\ row[sess[s].d] \in Row
  BY SessionFacts DEF OfferReread, SessionOK, Driverless, IInv, TypeOK
<1>3. me \in Session
  BY <1>1, <1>2, SessionFacts, ZenonT(40) DEF Session, Pcs
<1>4. SessionOK(me)
  BY <1>1, <1>2, SessionFacts DEF Session, SessionOK, Saving, Driverless, OfferReread, IInv, RowsBacked
<1>5. Set(s, me)
  BY <1>1 DEF OfferReread
<1> QED BY <1>3, <1>4, <1>5, ReadStep, ReadsOnlyIsCallOnly DEF OfferReread

-----------------------------------------------------------------------------
(* The lists a handler or a worker loads and walks. *)

LEMMA OtherPendingInv == ASSUME IInv, NEW s \in Procs, OtherPending(s) PROVE IInv'
<1>1. CASE End(s)
  BY <1>1, EndStep, ReadsOnlyIsCallOnly DEF OtherPending
<1>2. CASE Set(s, [sess[s] EXCEPT !.pc = "rejectOther", !.todo = Loaded(findOtherPending(sess[s].d))])
  <2>1. PICK others \in SUBSET Drivers : others = findOtherPending(sess[s].d)
    BY DEF findOtherPending
  <2>2. PICK list : list = Loaded(others)
    OBVIOUS
  <2>3. /\ list \in SUBSET [d : Drivers, mem : Row]
        /\ \A t \in list : t.mem.status = "PENDING" /\ Backed(t.d, t.mem.status)
    BY <2>1, <2>2, LoadedRows DEF findOtherPending, IInv
  <2>4. PICK me : me = [sess[s] EXCEPT !.pc = "rejectOther", !.todo = list]
    OBVIOUS
  <2>5. me \in Session
    BY <2>3, <2>4, SessionFacts, ZenonT(40) DEF Session, Pcs
  <2>6. SessionOK(me)
    BY <2>3, <2>4, SessionFacts DEF Session, SessionOK, Saving, Driverless, OtherPending
  <2>7. Set(s, me)
    BY <1>2, <2>1, <2>2, <2>4
  <2> QED BY <2>5, <2>6, <2>7, ReadStep, ReadsOnlyIsCallOnly DEF OtherPending
<1> QED BY <1>1, <1>2 DEF OtherPending

LEMMA TakenOverInv == ASSUME IInv, NEW s \in Procs, TakenOver(s) PROVE IInv'
<1>1. CASE Goto(s, "hasActiveTrip")
  BY <1>1, GotoStep, ReadsOnlyIsCallOnly DEF TakenOver, Pcs, Saving, Driverless
<1>2. CASE Set(s, [sess[s] EXCEPT !.pc = "restoreNext",
                                  !.todo = Loaded(IF sess[s].at = NoTime THEN {}
                                                  ELSE findTakenOver(sess[s].d, sess[s].at))])
  <2>1. PICK back \in SUBSET Drivers :
           back = IF sess[s].at = NoTime THEN {} ELSE findTakenOver(sess[s].d, sess[s].at)
    BY DEF findTakenOver
  <2>2. PICK list : list = Loaded(back)
    OBVIOUS
  <2>3. /\ list \in SUBSET [d : Drivers, mem : Row]
        /\ \A t \in list : t.mem.status = "REJECTED" /\ Backed(t.d, t.mem.status)
    BY <2>1, <2>2, LoadedRows DEF findTakenOver, IInv
  <2>4. PICK me : me = [sess[s] EXCEPT !.pc = "restoreNext", !.todo = list]
    OBVIOUS
  <2>5. me \in Session
    BY <2>3, <2>4, SessionFacts, ZenonT(40) DEF Session, Pcs
  <2>6. SessionOK(me)
    BY <2>3, <2>4, SessionFacts DEF Session, SessionOK, Saving, Driverless, TakenOver
  <2>7. Set(s, me)
    BY <1>2, <2>1, <2>2, <2>4
  <2> QED BY <2>5, <2>6, <2>7, ReadStep, ReadsOnlyIsCallOnly DEF TakenOver
<1> QED BY <1>1, <1>2 DEF TakenOver

\* A worker's sweep holds copies of the rows it found.
LEMMA SweepInv ==
    ASSUME IInv, NEW w \in Procs, NEW due \in SUBSET Drivers, NEW pc \in {"expireNext", "remindNext"},
           Sweep(w, due, pc), pc = "expireNext" => \A d \in due : row[d].status = "OFFERED"
    PROVE  IInv'
<1>1. PICK list : list = Loaded(due)
  OBVIOUS
<1>2. /\ list \in SUBSET [d : Drivers, mem : Row]
      /\ \A t \in list : t.d \in due /\ t.mem = row[t.d] /\ Backed(t.d, t.mem.status)
  BY <1>1, LoadedRows DEF IInv
<1>3. PICK me : me = [Idle EXCEPT !.pc = pc, !.todo = list, !.at = now]
  OBVIOUS
<1>4. me \in Session
  BY <1>2, <1>3, IdleSession, Clock DEF Session, Pcs
<1>5. SessionOK(me)
  BY <1>2, <1>3, TripAssumption DEF Idle, SessionOK, Saving, Driverless
<1>6. Set(w, me)
  BY <1>1, <1>3 DEF Sweep
<1> QED BY <1>4, <1>5, <1>6, ReadStep, ReadsOnlyIsCallOnly DEF Sweep

\* The next entity of a list is saved as its copy says.
LEMMA SaveNextInv ==
    ASSUME IInv, NEW s \in Procs, NEW t \in sess[s].todo, NEW entity \in Row,
           NEW loop \in {"rejectOther", "restoreNext", "expireNext", "remindNext"},
           NEW last \in {"idle", "hasActiveTrip"},
           sess[s].pc = loop, SaveNext(s, t, entity, loop, last),
           Backed(t.d, entity.status), ReadsOnly
    PROVE  IInv'
<1>1. PICK rest : rest = sess[s].todo \ {t}
  OBVIOUS
<1>2. PICK after \in {loop, last} : after = IF rest = {} THEN last ELSE loop
  OBVIOUS
<1>3. PICK me : me = [sess[s] EXCEPT !.pc = "save", !.d = t.d, !.mem = entity, !.todo = rest, !.after = after]
  OBVIOUS
<1>4. t.d \in Drivers
  BY SessionFacts DEF Session
<1>5. me \in Session
  <2>1. after \in Pcs /\ "save" \in Pcs
    BY DEF Pcs
  <2>2. rest \in SUBSET [d : Drivers, mem : Row]
    BY <1>1, SessionFacts DEF Session
  <2> QED BY <1>3, <1>4, <2>1, <2>2, SessionFacts DEF Session
<1>6. SessionOK(me)
  <2>1. /\ me.pc = "save" /\ me.d = t.d /\ me.mem = entity /\ me.todo = rest /\ me.after = after
    BY <1>3, SessionFacts DEF Session
  <2>2. \A u \in rest : u \in sess[s].todo
    BY <1>1
  <2> QED BY <1>4, <2>1, <2>2, SessionFacts DEF SessionOK, Saving, AfterSave
<1>7. Set(s, me)
  BY <1>1, <1>2, <1>3 DEF SaveNext
<1> QED BY <1>5, <1>6, <1>7, ReadStep, ReadsOnlyIsCallOnly

LEMMA RejectOtherInv == ASSUME IInv, NEW s \in Procs, RejectOther(s) PROVE IInv'
<1>1. PICK t \in sess[s].todo :
         SaveNext(s, t, [t.mem EXCEPT !.status = "REJECTED", !.decidedAt = now], "rejectOther", "idle")
  BY DEF RejectOther
<1>2. PICK entity : entity = [t.mem EXCEPT !.status = "REJECTED", !.decidedAt = now]
  OBVIOUS
<1>3. t.mem \in Row /\ t.mem.status = "PENDING" /\ Backed(t.d, "PENDING")
  BY SessionFacts DEF RejectOther, Session, SessionOK
<1>4. entity \in Row /\ entity.status = "REJECTED"
  BY <1>2, <1>3, Clock DEF Row, Statuses
<1>5. Backed(t.d, entity.status)
  BY <1>3, <1>4 DEF Backed, ByDriver, ByCompany
<1> QED BY <1>1, <1>2, <1>4, <1>5, SaveNextInv DEF RejectOther

LEMMA RestoreNextInv == ASSUME IInv, NEW s \in Procs, RestoreNext(s) PROVE IInv'
<1>1. PICK t \in sess[s].todo :
         SaveNext(s, t, [t.mem EXCEPT !.status = "PENDING", !.decidedAt = NoTime], "restoreNext", "hasActiveTrip")
  BY DEF RestoreNext
<1>2. PICK entity : entity = [t.mem EXCEPT !.status = "PENDING", !.decidedAt = NoTime]
  OBVIOUS
<1>3. t.mem \in Row /\ t.mem.status = "REJECTED" /\ Backed(t.d, "REJECTED")
  BY SessionFacts DEF RestoreNext, Session, SessionOK
<1>4. entity \in Row /\ entity.status = "PENDING"
  BY <1>2, <1>3, Clock DEF Row, Statuses
<1>5. Backed(t.d, entity.status)
  BY <1>3, <1>4 DEF Backed, ByDriver, ByCompany
<1> QED BY <1>1, <1>2, <1>4, <1>5, SaveNextInv DEF RestoreNext

LEMMA ExpireNextInv == ASSUME IInv, ExpireNext PROVE IInv'
<1> "expiry" \in Procs
  BY DEF Procs, Workers
<1>1. PICK t \in sess["expiry"].todo : SaveNext("expiry", t, Expired(t.mem), "expireNext", "idle")
  BY DEF ExpireNext
<1>2. PICK entity : entity = Expired(t.mem)
  OBVIOUS
<1>3. t.mem \in Row /\ t.mem.status = "OFFERED" /\ Backed(t.d, "OFFERED")
  BY SessionFacts DEF ExpireNext, Session, SessionOK
<1>4. entity \in Row /\ entity.status = "EXPIRED"
  BY <1>2, <1>3, Clock DEF Row, Statuses, Expired
<1>5. Backed(t.d, entity.status)
  BY <1>3, <1>4 DEF Backed, ByDriver, ByCompany
<1> QED BY <1>1, <1>2, <1>4, <1>5, SaveNextInv DEF ExpireNext

LEMMA RemindNextInv == ASSUME IInv, RemindNext PROVE IInv'
<1> "reminder" \in Procs
  BY DEF Procs, Workers
<1>1. PICK t \in sess["reminder"].todo :
         SaveNext("reminder", t, [t.mem EXCEPT !.deliveryRemindedAt = sess["reminder"].at], "remindNext", "idle")
  BY DEF RemindNext
<1>2. PICK entity : entity = [t.mem EXCEPT !.deliveryRemindedAt = sess["reminder"].at]
  OBVIOUS
<1>3. t.mem \in Row /\ Backed(t.d, t.mem.status) /\ sess["reminder"].at \in Time
  BY SessionFacts DEF RemindNext, Session, SessionOK
<1>4. entity \in Row /\ entity.status = t.mem.status
  BY <1>2, <1>3 DEF Row
<1>5. Backed(t.d, entity.status)
  BY <1>3, <1>4
<1> QED BY <1>1, <1>2, <1>4, <1>5, SaveNextInv DEF RemindNext

-----------------------------------------------------------------------------
(* The steps that write something other than a row. *)

\* A handler calls repository.save on an entity it read in the same step, ...
LEMMA BeginSaveInv ==
    ASSUME IInv, NEW s \in Procs, NEW d \in Drivers, NEW entity \in Row,
           NEW after \in AfterSave \ {"charged"}, BeginSave(s, d, entity, after),
           Backed(d, entity.status)', row' = row, Grows, RestTyped'
    PROVE  IInv'
<1>1. PICK me : me = [Idle EXCEPT !.pc = "save", !.d = d, !.mem = entity, !.after = after]
  OBVIOUS
<1>2. me \in Session
  <2>1. after \in Pcs /\ "save" \in Pcs
    BY DEF AfterSave, Pcs
  <2> QED BY <1>1, <2>1, IdleSession DEF Session
<1>3. me.pc = "save" /\ me.d = d /\ me.mem = entity /\ me.after = after /\ me.todo = {}
  BY <1>1 DEF Idle
<1>4. SessionOK(me)'
  BY <1>3 DEF SessionOK, Saving
<1>5. Set(s, me)
  BY <1>1 DEF BeginSave
<1> QED BY <1>2, <1>4, <1>5, SessionStep

\* ... or on the one it has held since an earlier step.
LEMMA GotoSaveInv ==
    ASSUME IInv, NEW s \in Procs, NEW old, NEW entity \in Row,
           NEW after \in {"idle", "charged", "takeListing", "offerReread"},
           GotoSave(s, old, entity, after), NEW d \in Drivers, sess[s].d = d,
           Backed(d, entity.status)', after = "charged" => d \in Brokers,
           row' = row, Grows, RestTyped'
    PROVE  IInv'
<1>1. PICK was \in Session : was = sess[s] /\ SessionOK(was)
  BY SessionFacts
<1>2. PICK pc \in {"insert", "save"} : pc = SavePc(old)
  BY DEF SavePc
<1>3. PICK me : me = [was EXCEPT !.pc = pc, !.mem = entity, !.after = after]
  OBVIOUS
<1>4. me \in Session
  <2>1. after \in Pcs \cup {"charged"} /\ pc \in Pcs
    BY DEF Pcs
  <2> QED BY <1>3, <2>1 DEF Session
<1>5. me.pc = pc /\ me.d = was.d /\ me.mem = entity /\ me.after = after /\ me.todo = was.todo
  BY <1>3 DEF Session
<1>6. SessionOK(was)'
  BY <1>1, SessionStays
<1>7. \A t \in was.todo : Backed(t.d, t.mem.status)'
  BY <1>6 DEF SessionOK
<1>8. was.d = d
  BY <1>1
<1>9. SessionOK(me)'
  BY <1>5, <1>7, <1>8 DEF SessionOK, Saving, AfterSave
<1>10. Set(s, me)
  BY <1>1, <1>2, <1>3 DEF GotoSave
<1> QED BY <1>4, <1>9, <1>10, SessionStep

LEMMA SaveRequestInv ==
    ASSUME IInv, NEW s \in Procs, NEW after \in {"idle", "charged"}, SaveRequest(s, after),
           sess[s].pc \in {"requestOffer", "requestCharge"},
           after = "charged" => sess[s].d \in Brokers,
           credit' \in [Brokers -> Nat], UNCHANGED <<listing, row, fares, now, crashes, arrivals>>
    PROVE  IInv'
<1>1. PICK d \in Drivers : d = sess[s].d /\ sess[s].mem \in Row
  BY SessionFacts DEF SessionOK, Driverless, Session
<1>2. PICK entity : entity = [sess[s].mem EXCEPT !.status = "PENDING", !.decidedAt = NoTime]
  OBVIOUS
<1>3. entity \in Row /\ entity.status = "PENDING"
  BY <1>1, <1>2, Clock DEF Row, Statuses
<1>4. Backed(d, entity.status)'
  <2>1. d \in asked'
    BY <1>1 DEF SaveRequest
  <2> QED BY <1>3, <2>1 DEF Backed, ByCompany
<1>5. Grows
  BY DEF Grows, SaveRequest
<1>6. RestTyped'
  BY <1>1 DEF RestTyped, SaveRequest, IInv, TypeOK
<1>7. GotoSave(s, sess[s].mem, entity, after)
  BY <1>2 DEF SaveRequest
<1> QED BY <1>1, <1>3, <1>4, <1>5, <1>6, <1>7, GotoSaveInv

LEMMA RequestOfferInv == ASSUME IInv, NEW s \in Procs, RequestOffer(s) PROVE IInv'
<1>1. CASE End(s) /\ UNCHANGED history
  BY <1>1, EndStep DEF RequestOffer, CallOnly, IInv, TypeOK
<1>2. CASE sess[s].d \in Brokers /\ Goto(s, "requestCharge") /\ UNCHANGED history
  <2>1. CallOnly /\ now' \in 1 .. MaxTime /\ sess[s].pc = "requestOffer"
    BY <1>2 DEF RequestOffer, CallOnly, IInv, TypeOK
  <2> QED BY <1>2, <2>1, GotoStep DEF Pcs, Saving, Driverless
<1>3. CASE SaveRequest(s, "idle")
  BY <1>3, SaveRequestInv DEF RequestOffer, IInv, TypeOK
<1> QED BY <1>1, <1>2, <1>3 DEF RequestOffer

LEMMA RequestChargeInv == ASSUME IInv, NEW s \in Procs, RequestCharge(s) PROVE IInv'
<1>1. sess[s].d \in Brokers /\ sess[s].pc = "requestCharge"
  BY SessionFacts DEF SessionOK, RequestCharge
<1>2. CASE credit[sess[s].d] > 0
  <2>1. SaveRequest(s, "charged") /\ credit' = [credit EXCEPT ![sess[s].d] = @ - 1]
    BY <1>2 DEF RequestCharge
  <2>2. credit' \in [Brokers -> Nat]
    BY <1>1, <1>2, <2>1 DEF IInv, TypeOK
  <2> QED BY <1>1, <2>1, <2>2, SaveRequestInv DEF RequestCharge
<1>3. CASE ~(credit[sess[s].d] > 0)
  BY <1>3, EndStep DEF RequestCharge, CallOnly, IInv, TypeOK
<1> QED BY <1>2, <1>3

\* A handler that returns after it wrote something other than a row.
LEMMA EndWriteInv ==
    ASSUME IInv, NEW s \in Procs, End(s), row' = row, Grows, RestTyped'
    PROVE  IInv'
<1>1. PICK me \in Session : me = Idle /\ SessionOK(me)
  BY IdleSession
<1>2. SessionOK(me)' /\ Set(s, me)
  BY <1>1, SessionStays DEF End
<1> QED BY <1>2, SessionStep

LEMMA RefundInv == ASSUME IInv, NEW s \in Procs, Refund(s) PROVE IInv'
<1>1. sess[s].d \in Brokers
  BY SessionFacts DEF SessionOK, Refund
<1>2. credit' \in [Brokers -> Nat]
  BY <1>1 DEF Refund, IInv, TypeOK
<1>3. Grows /\ RestTyped' /\ row' = row
  BY <1>2 DEF Refund, Grows, RestTyped, history, IInv, TypeOK
<1> QED BY <1>3, EndWriteInv DEF Refund

LEMMA ReopenInv == ASSUME IInv, NEW s \in Procs, Reopen(s) PROVE IInv'
<1>1. Grows /\ RestTyped' /\ row' = row
  BY DEF Reopen, Grows, RestTyped, history, IInv, TypeOK
<1> QED BY <1>1, EndWriteInv DEF Reopen

\* Recording an AGREED fare touches no DELIVERED one.
LEMMA RecordAgreedFacts ==
    ASSUME IInv, NEW d \in Drivers, NEW r, NEW f \in Fares \cup {NoFare}, RecordAgreed(d, r, f)
    PROVE  /\ fares' \in [Drivers -> [agreed : Fares \cup {NoFare}, delivered : Fares \cup {NoFare}]]
           /\ \A e \in Drivers : fares'[e].delivered = fares[e].delivered
<1>1. fares \in [Drivers -> [agreed : Fares \cup {NoFare}, delivered : Fares \cup {NoFare}]]
  BY DEF IInv, TypeOK
<1> QED BY <1>1 DEF RecordAgreed

LEMMA OfferFareInv == ASSUME IInv, NEW s \in Procs, OfferFare(s) PROVE IInv'
<1>1. sess[s].d \in Drivers /\ sess[s].fare \in Fares \cup {NoFare}
  BY SessionFacts DEF OfferFare, SessionOK, Driverless, Session
<1>2. RecordAgreed(sess[s].d, sess[s].mem, sess[s].fare)
  BY DEF OfferFare
<1>3. Grows /\ RestTyped' /\ row' = row
  BY <1>1, <1>2, RecordAgreedFacts DEF OfferFare, Grows, RestTyped, history, IInv, TypeOK
<1> QED BY <1>3, EndWriteInv DEF OfferFare

LEMMA TakeListingInv == ASSUME IInv, NEW s \in Procs, TakeListing(s) PROVE IInv'
<1>1. PICK me : me = [sess[s] EXCEPT !.pc = "otherPending"]
  OBVIOUS
<1>2. me \in Session
  BY <1>1, SessionFacts DEF Session, Pcs
<1>3. SessionOK(me)
  BY <1>1, SessionFacts DEF Session, SessionOK, Saving, Driverless, TakeListing
<1>4. Grows /\ RestTyped' /\ row' = row
  BY DEF TakeListing, Grows, RestTyped, history, IInv, TypeOK
<1>5. SessionOK(me)'
  BY <1>2, <1>3, <1>4, SessionStays
<1>6. Set(s, me)
  BY <1>1 DEF TakeListing, Goto
<1> QED BY <1>2, <1>4, <1>5, <1>6, SessionStep

LEMMA AcceptFareInv == ASSUME IInv, NEW s \in Procs, AcceptFare(s) PROVE IInv'
<1>1. PICK d \in Drivers : /\ d = sess[s].d
                           /\ sess[s].mem \in Row /\ sess[s].fare \in Fares \cup {NoFare}
                           /\ Backed(d, "PENDING")
  BY SessionFacts DEF AcceptFare, SessionOK, Driverless, Session
<1>2. PICK entity : entity = [sess[s].mem EXCEPT !.status = "ACCEPTED", !.decidedAt = now]
  OBVIOUS
<1>3. entity \in Row /\ entity.status = "ACCEPTED"
  BY <1>1, <1>2, Clock DEF Row, Statuses
<1>4. RecordAgreed(d, sess[s].mem, sess[s].fare)
  BY <1>1 DEF AcceptFare
<1>5. Grows /\ RestTyped' /\ row' = row
  BY <1>1, <1>4, RecordAgreedFacts DEF AcceptFare, Grows, RestTyped, IInv, TypeOK
<1>6. Backed(d, entity.status)'
  <2>1. d \in asked \cup confirmed /\ d \in chosen'
    BY <1>1 DEF Backed, ByDriver, AcceptFare
  <2> QED BY <1>3, <1>5, <2>1 DEF Backed, Grows
<1>7. GotoSave(s, sess[s].mem, entity, "takeListing")
  BY <1>2 DEF AcceptFare
<1> QED BY <1>1, <1>3, <1>5, <1>6, <1>7, GotoSaveInv

LEMMA OfferRowInv == ASSUME IInv, NEW s \in Procs, OfferRow(s) PROVE IInv'
<1>1. PICK d \in Drivers : d = sess[s].d
  BY SessionFacts DEF OfferRow, SessionOK, Driverless
<1>2. PICK r \in Row : r = row[d]
  BY DEF IInv, TypeOK
<1>3. PICK entity : entity = [r EXCEPT !.status = "OFFERED", !.decidedAt = now, !.offerExpiresAt = now + OfferTTL]
  OBVIOUS
<1>4. entity \in Row /\ entity.status = "OFFERED"
  BY <1>2, <1>3, Clock DEF Row, Statuses
<1>5. Grows /\ RestTyped' /\ row' = row
  BY <1>1 DEF OfferRow, Grows, RestTyped, IInv, TypeOK
<1>6. Backed(d, entity.status)'
  <2>1. d \in chosen'
    BY <1>1 DEF OfferRow
  <2> QED BY <1>4, <2>1 DEF Backed, ByDriver
<1>7. PICK after \in {"idle", "offerReread"} : GotoSave(s, r, entity, after)
  <2>1. GotoSave(s, r, entity, IF sess[s].fare = NoFare THEN "idle" ELSE "offerReread")
    BY <1>1, <1>2, <1>3 DEF OfferRow
  <2> QED BY <2>1
<1> QED BY <1>1, <1>4, <1>5, <1>6, <1>7, GotoSaveInv

LEMMA DeliverFareInv == ASSUME IInv, NEW s \in Procs, DeliverFare(s) PROVE IInv'
<1>1. PICK d \in Drivers : /\ d = sess[s].d
                           /\ sess[s].mem \in Row /\ sess[s].fare \in Fares
                           /\ Backed(d, "ACCEPTED")
  BY SessionFacts DEF DeliverFare, SessionOK, Driverless, Session
<1>2. PICK entity : entity = [sess[s].mem EXCEPT !.status = "DELIVERED", !.deliveredAt = TRUE]
  OBVIOUS
<1>3. entity \in Row /\ entity.status = "DELIVERED"
  BY <1>1, <1>2 DEF Row, Statuses
<1>4. fares' = [fares EXCEPT ![d].delivered = sess[s].fare]
  BY <1>1 DEF DeliverFare
<1>5. /\ fares' \in [Drivers -> [agreed : Fares \cup {NoFare}, delivered : Fares \cup {NoFare}]]
      /\ fares'[d].delivered # NoFare
      /\ \A e \in Drivers : fares[e].delivered # NoFare => fares'[e].delivered # NoFare
  BY <1>1, <1>4, TripAssumption DEF IInv, TypeOK
<1>6. Grows /\ RestTyped' /\ row' = row
  BY <1>5 DEF DeliverFare, Grows, RestTyped, history, IInv, TypeOK
<1>7. Backed(d, entity.status)'
  BY <1>1, <1>3, <1>5, <1>6 DEF Backed, ByDriver, ByCompany, Grows
<1>8. GotoSave(s, sess[s].mem, entity, "idle")
  BY <1>2 DEF DeliverFare
<1> QED BY <1>1, <1>3, <1>6, <1>7, <1>8, GotoSaveInv

-----------------------------------------------------------------------------
(* The step that writes a row. *)

\* What reaches the row was in the row or in the entity, and passed both indexes.
LEMMA WrittenFacts ==
    ASSUME IInv, NEW s \in Procs, sess[s].pc \in {"insert", "write"}
    PROVE  /\ sess[s].d \in Drivers
           /\ Written(s) \in Row
           /\ Backed(sess[s].d, Written(s).status)
<1>1. PICK me \in Session : me = sess[s] /\ SessionOK(me)
  BY SessionFacts
<1>2. me.d \in Drivers /\ me.mem \in Row /\ me.snap \in Row /\ Backed(me.d, me.mem.status)
  BY <1>1 DEF SessionOK, Driverless, Session
<1>3. row[me.d] \in Row /\ Backed(me.d, row[me.d].status)
  BY <1>2 DEF IInv, TypeOK, RowsBacked
<1>4. PICK w : w = Written(s)
  OBVIOUS
<1>5. w = IF me.pc = "insert" THEN me.mem ELSE Merged(row[me.d], me.mem, me.snap)
  BY <1>1, <1>4 DEF Written
<1>6. w \in Row /\ w.status \in {row[me.d].status, me.mem.status}
  BY <1>2, <1>3, <1>5, MergedRow
<1>7. Backed(me.d, w.status)
  BY <1>2, <1>3, <1>6
<1> QED BY <1>1, <1>2, <1>4, <1>6, <1>7

\* The session of a handler that has saved its entity and goes on.
LEMMA SavedSession ==
    ASSUME NEW was \in Session, SessionOK(was), was.pc \in {"insert", "write"},
           was.after \notin {"idle", "charged"}
    PROVE  [was EXCEPT !.pc = was.after] \in Session /\ SessionOK([was EXCEPT !.pc = was.after])
<1>1. PICK me : me = [was EXCEPT !.pc = was.after]
  OBVIOUS
<1>2. was.after \in AfterSave /\ was.after \in Pcs /\ was.d \in Drivers
  BY DEF SessionOK, Saving, Session, Driverless
<1>3. me \in Session
  BY <1>1, <1>2 DEF Session
<1>4. /\ me.pc = was.after /\ me.after = was.after /\ me.d = was.d
      /\ me.mem = was.mem /\ me.todo = was.todo /\ me.fare = was.fare
  BY <1>1 DEF Session
<1>5. was.after \in {"takeListing", "rejectOther", "offerReread", "takenOver",
                    "restoreNext", "hasActiveTrip", "expireNext", "remindNext"}
  BY <1>2 DEF AfterSave
<1>6. SessionOK(me)
  BY <1>2, <1>4, <1>5 DEF SessionOK, Saving
<1> QED BY <1>1, <1>3, <1>6

LEMMA SaveWriteInv == ASSUME IInv, NEW s \in Procs, SaveWrite(s) PROVE IInv'
<1>1. PICK was \in Session : was = sess[s] /\ SessionOK(was) /\ was.pc \in {"insert", "write"}
  BY SessionFacts DEF SaveWrite
<1>2. PICK d \in Drivers : d = was.d
  BY <1>1, WrittenFacts
<1>3. PICK w \in Row : w = Written(s) /\ Backed(d, w.status)
  BY <1>1, <1>2, WrittenFacts
<1>4. row' = [row EXCEPT ![d] = w] /\ row' \in [Drivers -> Row]
  BY <1>1, <1>2, <1>3 DEF SaveWrite, IInv, TypeOK
<1>5. Grows
  BY DEF SaveWrite, Grows
<1>6. filed' \in [Brokers -> Nat]
  <2>1. CASE was.after = "charged"
    <3>1. d \in Brokers
      BY <1>1, <1>2, <2>1 DEF SessionOK, Saving
    <3> QED BY <1>1, <1>2, <2>1, <3>1 DEF SaveWrite, IInv, TypeOK
  <2>2. CASE was.after # "charged"
    BY <1>1, <2>2 DEF SaveWrite, IInv, TypeOK
  <2> QED BY <2>1, <2>2
<1>7. PICK me \in Session : Set(s, me) /\ SessionOK(me)
  <2>1. CASE was.after \in {"idle", "charged"}
    BY <1>1, <2>1, IdleSession DEF SaveWrite, End
  <2>2. CASE was.after \notin {"idle", "charged"}
    BY <1>1, <2>2, SavedSession DEF SaveWrite, Goto
  <2> QED BY <2>1, <2>2
<1>8. TypeOK'
  BY <1>4, <1>6, <1>7 DEF SaveWrite, IInv, TypeOK, Set
<1>9. OneTripPerLoad'
  <2>1. w.status \in Started => \A e \in Drivers \ {d} : row[e].status \notin Started
    BY <1>1, <1>2, <1>3 DEF SaveWrite, WriteAllowed, TripIndexAllows
  <2>2. \A e \in Drivers : row'[e] = IF e = d THEN w ELSE row[e]
    BY <1>4 DEF IInv, TypeOK
  <2> QED BY <2>1, <2>2 DEF IInv, OneTripPerLoad
<1>10. RowsBacked'
  <2>1. Backed(d, w.status)'
    BY <1>3, <1>5, BackedStays
  <2>2. ASSUME NEW e \in Drivers PROVE Backed(e, row[e].status)'
    <3>1. CASE e = d
      <4>1. row'[e] = w
        BY <1>4, <3>1 DEF IInv, TypeOK
      <4> QED BY <2>1, <3>1, <4>1 DEF Backed
    <3>2. CASE e # d
      <4>1. PICK st : st = row[e].status
        OBVIOUS
      <4>2. Backed(e, st)'
        BY <1>5, <4>1, BackedStays DEF IInv, RowsBacked
      <4>3. row'[e].status = st
        BY <1>4, <3>2, <4>1 DEF IInv, TypeOK
      <4> QED BY <4>2, <4>3 DEF Backed
    <3> QED BY <3>1, <3>2
  <2> QED BY <2>2 DEF RowsBacked
<1>11. SessionsOK'
  <2>1. ASSUME NEW p \in Procs PROVE SessionOK(sess[p])'
    <3>1. PICK then \in Session : then = sess'[p] /\ SessionOK(then)
      BY <1>7, SessionFacts DEF Set, IInv, TypeOK
    <3>2. SessionOK(then)'
      BY <1>5, <3>1, SessionStays
    <3> QED BY <3>1, <3>2 DEF SessionOK
  <2> QED BY <2>1 DEF SessionsOK
<1> QED BY <1>8, <1>9, <1>10, <1>11 DEF IInv

-----------------------------------------------------------------------------
(* The calls. *)

\* A call that reads the row r and waits for its next query.
LEMMA BeginInv ==
    ASSUME IInv, NEW s \in Procs, NEW d \in Drivers, NEW r \in Row, Backed(d, r.status),
           NEW f \in Fares \cup {NoFare},
           NEW pc \in {"requestRow", "acceptOffer", "offerCheck", "deliverFare"},
           pc = "acceptOffer" => r.status = "PENDING",
           pc = "deliverFare" => r.status = "ACCEPTED" /\ f # NoFare,
           Begin(s, d, pc, r, f), CallOnly, now' \in 1 .. MaxTime
    PROVE  IInv'
<1>1. PICK me : me = [Idle EXCEPT !.pc = pc, !.d = d, !.mem = r, !.fare = f]
  OBVIOUS
<1>2. me \in Session
  BY <1>1, IdleSession DEF Session, Pcs
<1>3. me.pc = pc /\ me.d = d /\ me.mem = r /\ me.fare = f /\ me.todo = {} /\ me.after = "idle"
  BY <1>1 DEF Idle
<1>4. SessionOK(me)
  BY <1>3 DEF SessionOK, Saving
<1>5. Set(s, me)
  BY <1>1 DEF Begin
<1> QED BY <1>2, <1>4, <1>5, ReadStep

\* A call that reads a row and saves it changed.
LEMMA CallSaveInv ==
    ASSUME IInv, NEW s \in Procs, NEW d \in Drivers, NEW entity \in Row,
           NEW after \in AfterSave \ {"charged"}, BeginSave(s, d, entity, after),
           Backed(d, entity.status), CallOnly, now' \in 1 .. MaxTime
    PROVE  IInv'
<1>1. Grows /\ RestTyped' /\ row' = row
  BY DEF CallOnly, history, Grows, RestTyped, IInv, TypeOK
<1>2. Backed(d, entity.status)'
  BY <1>1, BackedStays
<1> QED BY <1>1, <1>2, BeginSaveInv

LEMMA RowFacts ==
    ASSUME IInv, NEW d \in Drivers
    PROVE  row[d] \in Row /\ Backed(d, row[d].status)
BY DEF IInv, TypeOK, RowsBacked

LEMMA RequestInv == ASSUME IInv, NEW s \in Procs, NEW d \in Drivers, Request(s, d) PROVE IInv'
<1>1. NewRow \in Row /\ Backed(d, NewRow.status)
  BY Clock DEF NewRow, Row, Backed, ByDriver, ByCompany
<1>2. now' \in 1 .. MaxTime
  BY CallClock DEF Request
<1> QED BY <1>1, <1>2, BeginInv DEF Request

LEMMA OfferInv ==
    ASSUME IInv, NEW s \in Procs, NEW d \in Drivers, NEW f \in Fares \cup {NoFare}, Offer(s, d, f)
    PROVE  IInv'
<1>1. NewRow \in Row /\ Backed(d, NewRow.status)
  BY Clock DEF NewRow, Row, Backed, ByDriver, ByCompany
<1>2. now' \in 1 .. MaxTime
  BY CallClock DEF Offer
<1> QED BY <1>1, <1>2, BeginInv DEF Offer

LEMMA AcceptInv ==
    ASSUME IInv, NEW s \in Procs, NEW d \in Drivers, NEW f \in Fares, Accept(s, d, f)
    PROVE  IInv'
<1>1. now' \in 1 .. MaxTime
  BY CallClock DEF Accept
<1> QED BY <1>1, RowFacts, BeginInv DEF Accept

LEMMA DeliverInv ==
    ASSUME IInv, NEW s \in Procs, NEW d \in Drivers, NEW f \in Fares, Deliver(s, d, f)
    PROVE  IInv'
<1>1. now' \in 1 .. MaxTime
  BY CallClock DEF Deliver
<1>2. f # NoFare
  BY TripAssumption
<1> QED BY <1>1, <1>2, RowFacts, BeginInv DEF Deliver

LEMMA CancelInv == ASSUME IInv, NEW s \in Procs, NEW d \in Drivers, Cancel(s, d) PROVE IInv'
<1>1. PICK entity : entity = [row[d] EXCEPT !.status = "CANCELLED"]
  OBVIOUS
<1>2. entity \in Row /\ entity.status = "CANCELLED"
  BY <1>1, RowFacts DEF Row, Statuses
<1>3. Backed(d, entity.status)
  BY <1>2, RowFacts DEF Cancel, Backed, ByDriver, ByCompany
<1>4. now' \in 1 .. MaxTime /\ CallOnly /\ BeginSave(s, d, entity, "idle")
  BY <1>1, CallClock DEF Cancel
<1> QED BY <1>2, <1>3, <1>4, CallSaveInv DEF AfterSave

LEMMA ReportDeliveryInv ==
    ASSUME IInv, NEW s \in Procs, NEW d \in Drivers, ReportDelivery(s, d) PROVE IInv'
<1>1. PICK entity : entity = [row[d] EXCEPT !.deliveryReportedAt = TRUE]
  OBVIOUS
<1>2. entity \in Row /\ entity.status = row[d].status
  BY <1>1, RowFacts DEF Row
<1>3. now' \in 1 .. MaxTime /\ CallOnly /\ BeginSave(s, d, entity, "idle")
  BY <1>1, CallClock DEF ReportDelivery
<1> QED BY <1>2, <1>3, RowFacts, CallSaveInv DEF AfterSave

LEMMA RejectDeliveryReportInv ==
    ASSUME IInv, NEW s \in Procs, NEW d \in Drivers, RejectDeliveryReport(s, d) PROVE IInv'
<1>1. PICK entity : entity = [row[d] EXCEPT !.deliveryReportedAt = FALSE]
  OBVIOUS
<1>2. entity \in Row /\ entity.status = row[d].status
  BY <1>1, RowFacts DEF Row
<1>3. now' \in 1 .. MaxTime /\ CallOnly /\ BeginSave(s, d, entity, "idle")
  BY <1>1, CallClock DEF RejectDeliveryReport
<1> QED BY <1>2, <1>3, RowFacts, CallSaveInv DEF AfterSave

LEMMA RejectInv == ASSUME IInv, NEW s \in Procs, NEW d \in Drivers, Reject(s, d) PROVE IInv'
<1>1. PICK entity : entity = [row[d] EXCEPT !.status = "REJECTED", !.decidedAt = now]
  OBVIOUS
<1>2. entity \in Row /\ entity.status = "REJECTED"
  BY <1>1, RowFacts, Clock DEF Row, Statuses
<1>3. now' \in 1 .. MaxTime /\ BeginSave(s, d, entity, "idle") /\ Backed(d, "PENDING")
  BY <1>1, CallClock, RowFacts DEF Reject
<1>4. Grows /\ RestTyped' /\ row' = row
  BY <1>3 DEF Reject, Grows, RestTyped, IInv, TypeOK
<1>5. Backed(d, entity.status)'
  BY <1>2, <1>3, <1>4 DEF Backed, ByDriver, ByCompany, Grows
<1> QED BY <1>2, <1>3, <1>4, <1>5, BeginSaveInv DEF AfterSave

LEMMA RespondOfferInv ==
    ASSUME IInv, NEW s \in Procs, NEW d \in Drivers, NEW accept \in BOOLEAN, RespondOffer(s, d, accept)
    PROVE  IInv'
<1>1. now' \in 1 .. MaxTime /\ row[d] \in Row /\ Backed(d, "OFFERED")
  BY CallClock, RowFacts DEF RespondOffer
<1>2. Grows /\ RestTyped' /\ row' = row
  <2>1. confirmed \subseteq confirmed' /\ confirmed' \subseteq Drivers
    BY DEF RespondOffer, IInv, TypeOK
  <2> QED BY <1>1, <2>1 DEF RespondOffer, Grows, RestTyped, IInv, TypeOK
<1>3. CASE row[d].offerExpiresAt < now
  <2>1. PICK entity : entity = Expired(row[d])
    OBVIOUS
  <2>2. entity \in Row /\ entity.status = "EXPIRED"
    BY <1>1, <2>1, Clock DEF Expired, Row, Statuses
  <2>3. Backed(d, entity.status)'
    BY <1>1, <1>2, <2>2 DEF Backed, ByDriver, ByCompany, Grows
  <2>4. BeginSave(s, d, entity, "idle")
    BY <1>3, <2>1 DEF RespondOffer
  <2> QED BY <1>2, <2>2, <2>3, <2>4, BeginSaveInv DEF AfterSave
<1>4. CASE ~(row[d].offerExpiresAt < now)
  <2>1. PICK st \in {"ACCEPTED", "DECLINED"} : st = IF accept THEN "ACCEPTED" ELSE "DECLINED"
    OBVIOUS
  <2>2. PICK after \in {"takeListing", "idle"} : after = IF accept THEN "takeListing" ELSE "idle"
    OBVIOUS
  <2>3. PICK entity : entity = [row[d] EXCEPT !.status = st, !.decidedAt = now, !.offerExpiresAt = NoTime]
    OBVIOUS
  <2>4. entity \in Row /\ entity.status = st
    BY <1>1, <2>3, Clock DEF Row, Statuses
  <2>5. st = "ACCEPTED" => d \in confirmed'
    BY <1>4, <2>1 DEF RespondOffer
  <2>6. Backed(d, entity.status)'
    BY <1>1, <1>2, <2>4, <2>5 DEF Backed, ByDriver, ByCompany, Grows
  <2>7. BeginSave(s, d, entity, after)
    BY <1>4, <2>1, <2>2, <2>3 DEF RespondOffer
  <2> QED BY <1>2, <2>4, <2>6, <2>7, BeginSaveInv DEF AfterSave
<1> QED BY <1>3, <1>4

LEMMA CancelTripInv == ASSUME IInv, NEW s \in Procs, NEW d \in Drivers, CancelTrip(s, d) PROVE IInv'
<1>1. PICK entity : entity = [row[d] EXCEPT !.status = "TRIP_CANCELLED", !.deliveryReportedAt = FALSE,
                                            !.decidedAt = now]
  OBVIOUS
<1>2. entity \in Row /\ entity.status = "TRIP_CANCELLED" /\ row[d].decidedAt \in Time
  BY <1>1, RowFacts, Clock DEF Row, Statuses
<1>3. Backed(d, entity.status)
  BY <1>2, RowFacts DEF CancelTrip, Backed, ByDriver, ByCompany
<1>4. PICK me : me = [Idle EXCEPT !.pc = "save", !.d = d, !.after = "takenOver",
                                  !.at = row[d].decidedAt, !.mem = entity]
  OBVIOUS
<1>5. me \in Session
  BY <1>2, <1>4, IdleSession DEF Session, Pcs
<1>6. me.pc = "save" /\ me.d = d /\ me.mem = entity /\ me.todo = {} /\ me.after = "takenOver"
  BY <1>4 DEF Idle
<1>7. SessionOK(me)
  BY <1>3, <1>6 DEF SessionOK, Saving, AfterSave
<1>8. Set(s, me)
  BY <1>1, <1>4 DEF CancelTrip, Idle
<1>9. now' \in 1 .. MaxTime /\ CallOnly
  BY CallClock DEF CancelTrip
<1> QED BY <1>5, <1>7, <1>8, <1>9, ReadStep

\* A step after which every session holds what it held.
LEMMA SameSessions ==
    ASSUME IInv, sess' = sess, row' = row, Grows, RestTyped'
    PROVE  IInv'
<1>1. "expiry" \in Procs
  BY DEF Procs, Workers
<1>2. PICK me \in Session : me = sess["expiry"] /\ SessionOK(me)
  BY <1>1, SessionFacts
<1>3. Set("expiry", me)
  BY <1>1, <1>2 DEF Set, IInv, TypeOK
<1>4. SessionOK(me)'
  BY <1>2, SessionStays
<1> QED BY <1>1, <1>3, <1>4, SessionStep

LEMMA SetTakenInv == ASSUME IInv, NEW s \in Procs, SetTaken(s) PROVE IInv'
<1>1. now' \in 1 .. MaxTime
  BY CallClock DEF SetTaken
<1>2. Grows /\ RestTyped' /\ row' = row /\ sess' = sess
  BY <1>1 DEF SetTaken, history, Grows, RestTyped, IInv, TypeOK
<1> QED BY <1>2, SameSessions

LEMMA SetOpenInv == ASSUME IInv, NEW s \in Procs, SetOpen(s) PROVE IInv'
<1>1. now' \in 1 .. MaxTime
  BY CallClock DEF SetOpen
<1> QED BY <1>1, GotoStep DEF SetOpen, Pcs, Driverless, Saving

LEMMA WaitInv == ASSUME IInv, Wait PROVE IInv'
<1>1. now' \in 1 .. MaxTime
  BY TripAssumption DEF Wait, Horizon, IInv, TypeOK
<1>2. Grows /\ RestTyped' /\ row' = row /\ sess' = sess
  BY <1>1 DEF Wait, history, Grows, RestTyped, IInv, TypeOK
<1> QED BY <1>2, SameSessions

LEMMA StutterInv == ASSUME IInv, UNCHANGED vars PROVE IInv'
<1>1. Grows /\ RestTyped' /\ row' = row /\ sess' = sess
  BY DEF vars, Grows, RestTyped, IInv, TypeOK
<1> QED BY <1>1, SameSessions

LEMMA CrashInv == ASSUME IInv, Crash PROVE IInv'
<1>1. crashes' \in 0 .. MaxCrashes
  BY TripAssumption DEF Crash, IInv, TypeOK
<1>2. Grows /\ RestTyped' /\ row' = row
  BY <1>1 DEF Crash, history, Grows, RestTyped, IInv, TypeOK
<1>3. PICK me \in Session : me = Idle /\ SessionOK(me)
  BY IdleSession
<1>4. SessionOK(me)'
  BY <1>2, <1>3, SessionStays
<1>5. \A p \in Procs : sess'[p] = me
  BY <1>3 DEF Crash
<1>6. TypeOK'
  BY <1>2, <1>3 DEF Crash, RestTyped, IInv, TypeOK
<1>7. SessionsOK'
  BY <1>4, <1>5 DEF SessionsOK, SessionOK
<1>8. RowsBacked'
  BY <1>2, BackedStays DEF IInv, RowsBacked
<1> QED BY <1>2, <1>6, <1>7, <1>8 DEF IInv, OneTripPerLoad

LEMMA ExpireOffersInv == ASSUME IInv, ExpireOffers PROVE IInv'
<1>1. "expiry" \in Procs
  BY DEF Procs, Workers
<1>2. PICK due \in SUBSET Drivers : due = findExpiredOffers
  BY DEF findExpiredOffers
<1>3. \A d \in due : row[d].status = "OFFERED"
  BY <1>2 DEF findExpiredOffers
<1>4. Sweep("expiry", due, "expireNext")
  BY <1>2 DEF ExpireOffers
<1> QED BY <1>1, <1>3, <1>4, SweepInv

LEMMA RemindDeliveriesInv == ASSUME IInv, RemindDeliveries PROVE IInv'
<1>1. "reminder" \in Procs
  BY DEF Procs, Workers
<1>2. PICK due \in SUBSET Drivers : due = findTripsDueDeliveryReminder
  BY DEF findTripsDueDeliveryReminder
<1>3. Sweep("reminder", due, "remindNext")
  BY <1>2 DEF RemindDeliveries
<1> QED BY <1>1, <1>3, SweepInv

-----------------------------------------------------------------------------
(* The invariant is inductive. *)

LEMMA InitInv == ASSUME Init PROVE IInv
<1>1. NewRow \in Row
  BY TripAssumption DEF NewRow, Row, NoTime, Time
<1>2. TypeOK
  BY <1>1, TripAssumption, IdleSession DEF Init, TypeOK
<1>3. OneTripPerLoad /\ RowsBacked
  BY DEF Init, OneTripPerLoad, RowsBacked, NewRow, Started, Backed, ByDriver, ByCompany
<1>4. SessionsOK
  BY IdleSession DEF Init, SessionsOK
<1> QED BY <1>2, <1>3, <1>4 DEF IInv

LEMMA CallOnInv == ASSUME IInv, NEW s \in Sessions, NEW d \in Drivers, CallOn(s, d) PROVE IInv'
<1>1. s \in Procs
  BY DEF Procs
<1>2. CASE Request(s, d)
  BY <1>1, <1>2, RequestInv
<1>3. CASE Cancel(s, d)
  BY <1>1, <1>3, CancelInv
<1>4. CASE Reject(s, d)
  BY <1>1, <1>4, RejectInv
<1>5. CASE \E f \in Fares : Accept(s, d, f) \/ Deliver(s, d, f)
  BY <1>1, <1>5, AcceptInv, DeliverInv
<1>6. CASE \E f \in Fares \cup {NoFare} : Offer(s, d, f)
  BY <1>1, <1>6, OfferInv
<1>7. CASE \E accept \in BOOLEAN : RespondOffer(s, d, accept)
  BY <1>1, <1>7, RespondOfferInv
<1>8. CASE ReportDelivery(s, d)
  BY <1>1, <1>8, ReportDeliveryInv
<1>9. CASE RejectDeliveryReport(s, d)
  BY <1>1, <1>9, RejectDeliveryReportInv
<1>10. CASE CancelTrip(s, d)
  BY <1>1, <1>10, CancelTripInv
<1> QED BY <1>2, <1>3, <1>4, <1>5, <1>6, <1>7, <1>8, <1>9, <1>10 DEF CallOn

LEMMA StepInv == ASSUME IInv, NEW s \in Sessions, Step(s) PROVE IInv'
<1>1. s \in Procs
  BY DEF Procs
<1>2. CASE SaveSelect(s) \/ SaveWrite(s) \/ SaveRefused(s)
  BY <1>1, <1>2, SaveSelectInv, SaveWriteInv, SaveRefusedInv
<1>3. CASE RequestRow(s) \/ RequestOffer(s) \/ RequestCharge(s) \/ Refund(s)
  BY <1>1, <1>3, RequestRowInv, RequestOfferInv, RequestChargeInv, RefundInv
<1>4. CASE AcceptOffer(s) \/ AcceptFare(s) \/ TakeListing(s) \/ OtherPending(s) \/ RejectOther(s)
  BY <1>1, <1>4, AcceptOfferInv, AcceptFareInv, TakeListingInv, OtherPendingInv, RejectOtherInv
<1>5. CASE OfferCheck(s) \/ OfferRow(s) \/ OfferReread(s) \/ OfferFare(s)
  BY <1>1, <1>5, OfferCheckInv, OfferRowInv, OfferRereadInv, OfferFareInv
<1>6. CASE DeliverFare(s) \/ TakenOver(s) \/ RestoreNext(s)
  BY <1>1, <1>6, DeliverFareInv, TakenOverInv, RestoreNextInv
<1>7. CASE HasActiveTrip(s) \/ HasDelivered(s) \/ Reopen(s)
  BY <1>1, <1>7, HasActiveTripInv, HasDeliveredInv, ReopenInv
<1> QED BY <1>2, <1>3, <1>4, <1>5, <1>6, <1>7 DEF Step

LEMMA WorkerInv == ASSUME IInv, ExpiryStep \/ ReminderStep PROVE IInv'
<1>1. "expiry" \in Procs /\ "reminder" \in Procs
  BY DEF Procs, Workers
<1>2. CASE ExpiryStep
  BY <1>1, <1>2, ExpireOffersInv, ExpireNextInv, SaveSelectInv, SaveWriteInv DEF ExpiryStep
<1>3. CASE ReminderStep
  BY <1>1, <1>3, RemindDeliveriesInv, RemindNextInv, SaveSelectInv, SaveWriteInv, SaveRefusedInv
     DEF ReminderStep
<1> QED BY <1>2, <1>3

LEMMA NextInv == ASSUME IInv, [Next]_vars PROVE IInv'
<1>1. CASE \E s \in Sessions, d \in Drivers : CallOn(s, d)
  BY <1>1, CallOnInv
<1>2. CASE \E s \in Sessions : SetTaken(s) \/ SetOpen(s)
  BY <1>2, SetTakenInv, SetOpenInv DEF Procs
<1>3. CASE \E s \in Sessions : Step(s)
  BY <1>3, StepInv
<1>4. CASE ExpiryStep \/ ReminderStep
  BY <1>4, WorkerInv
<1>5. CASE Wait \/ Crash
  BY <1>5, WaitInv, CrashInv
<1>6. CASE ClockEnd \/ UNCHANGED vars
  BY <1>6, StutterInv DEF ClockEnd
<1> QED BY <1>1, <1>2, <1>3, <1>4, <1>5, <1>6 DEF Next

LEMMA Inductive == Spec => []IInv
<1>1. Init => IInv
  BY InitInv
<1>2. IInv /\ [Next]_vars => IInv'
  BY NextInv
<1> QED BY <1>1, <1>2, PTL DEF Spec

-----------------------------------------------------------------------------
(* The theorems. *)

\* Every value the handlers, the workers and the ORM's saves leave behind is of its
\* column's type, and every session is in a state its handler has.
THEOREM TypeCorrect == Spec => []TypeOK
<1>1. IInv => TypeOK
  BY DEF IInv
<1> QED BY <1>1, Inductive, PTL

\* One trip per load: for every number of drivers, of concurrent calls and of restarts,
\* a load never has two requests that are ACCEPTED or DELIVERED, although decide,
\* respondOffer and the workers save entities they read long before.
THEOREM OneTrip == Spec => []OneTripPerLoad
<1>1. IInv => OneTripPerLoad
  BY DEF IInv
<1> QED BY <1>1, Inductive, PTL

\* No trip without consent: the driver of a started trip asked for the load or said
\* yes to an offer, and the company chose it; no stale entity a save writes back
\* carries a status its driver and the company did not bring about.
THEOREM Consent == Spec => []NoTripWithoutConsent
<1>1. IInv => NoTripWithoutConsent
  BY DEF IInv, RowsBacked, Backed, ByDriver, ByCompany, Started, NoTripWithoutConsent
<1> QED BY <1>1, Inductive, PTL

\* The fare of a delivered trip is recorded: deliver writes it before the row, so no
\* restart and no interleaving leaves a DELIVERED request without it.
THEOREM DeliveredFare == Spec => []DeliveredHasFare
<1>1. IInv => DeliveredHasFare
  BY DEF IInv, RowsBacked, Backed, DeliveredHasFare
<1> QED BY <1>1, Inductive, PTL

-----------------------------------------------------------------------------
(* The load's rows implement LoadTrips. *)

\* Only the second round trip of a save changes a row.
LEMMA OnlySavesWrite ==
    ASSUME [Next]_vars
    PROVE  row' = row \/ \E s \in Procs : SaveWrite(s)
<1>1. ASSUME NEW s \in Sessions, NEW d \in Drivers, CallOn(s, d) PROVE row' = row
  BY <1>1 DEF CallOn, Request, Cancel, Reject, Accept, Deliver, Offer, RespondOffer, ReportDelivery,
              RejectDeliveryReport, CancelTrip, CallOnly
<1>2. ASSUME NEW s \in Sessions, Step(s) PROVE row' = row \/ SaveWrite(s)
  BY <1>2 DEF Step, SaveSelect, SaveRefused, RequestRow, RequestOffer, RequestCharge, Refund,
              AcceptOffer, AcceptFare, TakeListing, OtherPending, RejectOther, OfferCheck, OfferRow,
              OfferReread, OfferFare, DeliverFare, TakenOver, RestoreNext, HasActiveTrip,
              HasDelivered, Reopen, ReadsOnly
<1>3. ASSUME ExpiryStep \/ ReminderStep PROVE row' = row \/ SaveWrite("expiry") \/ SaveWrite("reminder")
  BY <1>3 DEF ExpiryStep, ReminderStep, ExpireOffers, RemindDeliveries, Sweep, ExpireNext, RemindNext,
              SaveSelect, SaveRefused, ReadsOnly
<1>4. ASSUME \/ \E s \in Sessions : SetTaken(s) \/ SetOpen(s)
             \/ Wait \/ Crash \/ ClockEnd \/ UNCHANGED vars
      PROVE  row' = row
  BY <1>4 DEF SetTaken, SetOpen, Wait, Crash, ClockEnd, CallOnly, vars
<1> QED BY <1>1, <1>2, <1>3, <1>4 DEF Next, Procs, Workers

\* A save starts a trip on a load without one, ends the load's trip, or does neither.
LEMMA SaveImplementsLoad ==
    ASSUME IInv, NEW s \in Procs, SaveWrite(s)
    PROVE  [Load!Next]_({d \in Drivers : row[d].status \in Started})
<1>1. PICK d \in Drivers : d = sess[s].d
  BY WrittenFacts DEF SaveWrite
<1>2. PICK w : /\ row' = [row EXCEPT ![d] = w]
               /\ w.status \in Started => \A e \in Drivers \ {d} : row[e].status \notin Started
  BY <1>1 DEF SaveWrite, WriteAllowed, TripIndexAllows
<1>3. \A e \in Drivers : row'[e] = IF e = d THEN w ELSE row[e]
  BY <1>2 DEF IInv, TypeOK
<1>4. PICK T, U : /\ T = {e \in Drivers : row[e].status \in Started}
                  /\ U = {e \in Drivers : row'[e].status \in Started}
  OBVIOUS
<1>5. \/ T = {} /\ U = {d}
      \/ T = {d} /\ U = {}
      \/ U = T
  <2>1. \A e \in Drivers \ {d} : e \in U <=> e \in T
    BY <1>3, <1>4
  <2>2. d \in U <=> w.status \in Started
    BY <1>3, <1>4
  <2>3. d \in U => \A e \in T : e = d
    BY <1>2, <1>4, <2>2
  <2>4. d \in T => \A e \in T : e = d
    BY <1>4 DEF IInv, OneTripPerLoad
  <2>5. T \subseteq Drivers /\ U \subseteq Drivers
    BY <1>4
  <2> QED BY <2>1, <2>3, <2>4, <2>5
<1> QED BY <1>4, <1>5 DEF Load!Next, Load!Start, Load!GiveUp

\* The requests of a load implement LoadTrips: the load's trip passes from one driver
\* to another only through a load without a trip, in every interleaving of stale saves.
THEOREM Refinement == Spec => LoadKeepsOneTrip
<1>1. Init => Load!Init
  BY DEF Init, Load!Init, NewRow, Started
<1>2. IInv /\ [Next]_vars => [Load!Next]_({d \in Drivers : row[d].status \in Started})
  BY OnlySavesWrite, SaveImplementsLoad
<1> QED BY <1>1, <1>2, Inductive, PTL DEF Spec, Load!Spec, LoadKeepsOneTrip

-----------------------------------------------------------------------------
(* The brokers' credits. *)

\* A session has a credit in hand from useRequest until its save or its refund.
Charged(me) == me.after = "charged"
ChargeOK(me) ==
    /\ Charged(me) => me.pc \in Saving \cup {"refund"}
    /\ me.pc = "refund" => Charged(me)

\* The inductive invariant: nobody but a client's call is ever charged.
CreditInv ==
    /\ \A p \in Procs : ChargeOK(sess[p])
    /\ \A w \in Workers : ~Charged(sess[w])
    /\ \A b \in Brokers : IsFiniteSet(Held(b))
    /\ CreditsAccounted

\* What the inductive invariant says of one broker.
BrokerOK(b) ==
    /\ IsFiniteSet(Held(b))
    /\ credit[b] + filed[b] + Cardinality(Held(b)) <= Credits
    /\ crashes = 0 => credit[b] + filed[b] + Cardinality(Held(b)) = Credits

LEMMA ByBroker ==
    CreditInv <=> /\ \A p \in Procs : ChargeOK(sess[p])
                  /\ \A w \in Workers : ~Charged(sess[w])
                  /\ \A b \in Brokers : BrokerOK(b)
BY DEF CreditInv, CreditsAccounted, BrokerOK

LEMMA CreditTypes ==
    ASSUME IInv, NEW b \in Brokers, BrokerOK(b)
    PROVE  credit[b] \in Nat /\ filed[b] \in Nat /\ Cardinality(Held(b)) \in Nat /\ Credits \in Nat
BY FS_CardinalityType, TripAssumption DEF IInv, TypeOK, BrokerOK

\* A step of one session: the others hold what they held.
LEMMA OneSession ==
    ASSUME IInv, CreditInv, NEW s \in Procs, NEW me, Set(s, me), ChargeOK(me), s \in Workers => ~Charged(me)
    PROVE  /\ \A p \in Procs : ChargeOK(sess'[p])
           /\ \A w \in Workers : ~Charged(sess'[w])
           /\ sess'[s] = me /\ \A p \in Procs : p # s => sess'[p] = sess[p]
<1>1. sess'[s] = me /\ \A p \in Procs : p # s => sess'[p] = sess[p]
  BY DEF IInv, TypeOK, Set
<1> QED BY <1>1 DEF CreditInv, Workers, Procs

\* A step of a session that neither takes a credit nor gives one away.
LEMMA KeepsCredits ==
    ASSUME IInv, CreditInv, NEW s \in Procs, NEW me, Set(s, me), ChargeOK(me), Charged(me) <=> Charged(sess[s]),
           Charged(me) => me.d = sess[s].d, UNCHANGED <<credit, filed, crashes>>
    PROVE  CreditInv'
<1>1. s \in Workers => ~Charged(me)
  BY DEF CreditInv
<1>2. /\ \A p \in Procs : ChargeOK(sess'[p])
      /\ \A w \in Workers : ~Charged(sess'[w])
      /\ sess'[s] = me /\ \A p \in Procs : p # s => sess'[p] = sess[p]
  BY <1>1, OneSession
<1>3. ASSUME NEW b \in Brokers PROVE BrokerOK(b)'
  <2>1. Held(b)' = Held(b)
    BY <1>2 DEF Held, CreditInv, ChargeOK, Charged, Procs
  <2> QED BY <2>1, ByBroker DEF BrokerOK
<1> QED BY <1>2, <1>3, ByBroker DEF ChargeOK, Charged, CreditInv, CreditsAccounted, BrokerOK

\* The same for a session that has none and takes none.
LEMMA NoCredit ==
    ASSUME IInv, CreditInv, NEW s \in Procs, NEW me, Set(s, me), me.after # "charged", me.pc # "refund",
           sess[s].pc \notin Saving \cup {"refund"} \/ sess[s].after # "charged",
           UNCHANGED <<credit, filed, crashes>>
    PROVE  CreditInv'
<1>1. ChargeOK(me) /\ ~Charged(me)
  BY DEF ChargeOK, Charged
<1>2. ~Charged(sess[s])
  BY DEF CreditInv, ChargeOK, Charged
<1> QED BY <1>1, <1>2, KeepsCredits

LEMMA EndNoCredit ==
    ASSUME IInv, CreditInv, NEW s \in Procs, End(s),
           sess[s].pc \notin Saving \cup {"refund"} \/ sess[s].after # "charged",
           UNCHANGED <<credit, filed, crashes>>
    PROVE  CreditInv'
<1>1. Idle.after # "charged" /\ Idle.pc # "refund"
  BY DEF Idle
<1> QED BY <1>1, NoCredit DEF End

LEMMA GotoNoCredit ==
    ASSUME IInv, CreditInv, NEW s \in Procs, NEW pc, Goto(s, pc), pc # "refund",
           sess[s].pc \notin Saving \cup {"refund"} \/ sess[s].after # "charged",
           UNCHANGED <<credit, filed, crashes>>
    PROVE  CreditInv'
<1>1. PICK me : me = [sess[s] EXCEPT !.pc = pc]
  OBVIOUS
<1>2. sess[s] \in Session /\ sess[s].after # "charged"
  BY SessionFacts DEF CreditInv, ChargeOK, Charged
<1>3. me.pc = pc /\ me.after = sess[s].after
  BY <1>1, <1>2 DEF Session
<1>4. Set(s, me)
  BY <1>1 DEF Goto
<1> QED BY <1>2, <1>3, <1>4, NoCredit

LEMMA GotoSaveNoCredit ==
    ASSUME IInv, CreditInv, NEW s \in Procs, NEW old, NEW entity, NEW after, GotoSave(s, old, entity, after),
           after # "charged", sess[s].pc \notin Saving \cup {"refund"}, UNCHANGED <<credit, filed, crashes>>
    PROVE  CreditInv'
<1>1. PICK me : me = [sess[s] EXCEPT !.pc = SavePc(old), !.mem = entity, !.after = after]
  OBVIOUS
<1>2. sess[s] \in Session /\ SavePc(old) # "refund"
  BY SessionFacts DEF SavePc
<1>3. me.pc = SavePc(old) /\ me.after = after
  BY <1>1, <1>2 DEF Session
<1>4. Set(s, me)
  BY <1>1 DEF GotoSave
<1> QED BY <1>2, <1>3, <1>4, NoCredit

LEMMA SaveNextNoCredit ==
    ASSUME IInv, CreditInv, NEW s \in Procs, NEW t, NEW entity, NEW loop, NEW last, SaveNext(s, t, entity, loop, last),
           loop # "charged", last # "charged", sess[s].pc \notin Saving \cup {"refund"},
           UNCHANGED <<credit, filed, crashes>>
    PROVE  CreditInv'
<1>1. PICK rest, after : rest = sess[s].todo \ {t} /\ after = (IF rest = {} THEN last ELSE loop)
  OBVIOUS
<1>2. PICK me : me = [sess[s] EXCEPT !.pc = "save", !.d = t.d, !.mem = entity, !.todo = rest, !.after = after]
  OBVIOUS
<1>3. sess[s] \in Session
  BY SessionFacts
<1>4. me.pc = "save" /\ me.after = after
  BY <1>2, <1>3 DEF Session
<1>5. Set(s, me)
  BY <1>1, <1>2 DEF SaveNext
<1>6. after # "charged"
  BY <1>1
<1> QED BY <1>4, <1>5, <1>6, NoCredit

\* A call that begins.
LEMMA CallCredits == ASSUME IInv, CreditInv, NEW s \in Sessions, NEW d \in Drivers, CallOn(s, d) PROVE CreditInv'
<1>1. s \in Procs
  BY DEF Procs
<1>2. sess[s].pc = "idle" /\ UNCHANGED <<credit, filed, crashes>>
  BY DEF CallOn, Request, Cancel, Reject, Accept, Deliver, Offer, RespondOffer, ReportDelivery,
         RejectDeliveryReport, CancelTrip, CallOnly, Call, history
<1>3. PICK me : Set(s, me) /\ me.after # "charged" /\ me.pc # "refund"
  <2>1. ASSUME NEW pc, NEW r, NEW f, Begin(s, d, pc, r, f), pc # "refund"
        PROVE  \E me : Set(s, me) /\ me.after # "charged" /\ me.pc # "refund"
    <3>1. PICK me : me = [Idle EXCEPT !.pc = pc, !.d = d, !.mem = r, !.fare = f]
      OBVIOUS
    <3>2. me.pc = pc /\ me.after = "idle"
      BY <3>1 DEF Idle
    <3>3. Set(s, me)
      BY <2>1, <3>1 DEF Begin
    <3> QED BY <2>1, <3>2, <3>3
  <2>2. ASSUME NEW entity, NEW after, BeginSave(s, d, entity, after), after # "charged"
        PROVE  \E me : Set(s, me) /\ me.after # "charged" /\ me.pc # "refund"
    <3>1. PICK me : me = [Idle EXCEPT !.pc = "save", !.d = d, !.mem = entity, !.after = after]
      OBVIOUS
    <3>2. me.pc = "save" /\ me.after = after
      BY <3>1 DEF Idle
    <3>3. Set(s, me)
      BY <2>2, <3>1 DEF BeginSave
    <3> QED BY <2>2, <3>2, <3>3
  <2>3. ASSUME CancelTrip(s, d)
        PROVE  \E me : Set(s, me) /\ me.after # "charged" /\ me.pc # "refund"
    <3>1. PICK entity, at : Set(s, [Idle EXCEPT !.pc = "save", !.d = d, !.after = "takenOver", !.at = at, !.mem = entity])
      BY <2>3 DEF CancelTrip
    <3>2. PICK me : me = [Idle EXCEPT !.pc = "save", !.d = d, !.after = "takenOver", !.at = at, !.mem = entity]
      OBVIOUS
    <3>3. me.pc = "save" /\ me.after = "takenOver"
      BY <3>2 DEF Idle
    <3> QED BY <3>1, <3>2, <3>3
  <2>4. CASE Request(s, d)
    BY <2>1, <2>4 DEF Request
  <2>5. CASE \E f \in Fares : Accept(s, d, f) \/ Deliver(s, d, f)
    BY <2>1, <2>5 DEF Accept, Deliver
  <2>6. CASE \E f \in Fares \cup {NoFare} : Offer(s, d, f)
    BY <2>1, <2>6 DEF Offer
  <2>7. CASE Cancel(s, d) \/ Reject(s, d) \/ ReportDelivery(s, d) \/ RejectDeliveryReport(s, d)
    BY <2>2, <2>7 DEF Cancel, Reject, ReportDelivery, RejectDeliveryReport
  <2>8. CASE \E accept \in BOOLEAN : RespondOffer(s, d, accept)
    BY <2>2, <2>8 DEF RespondOffer
  <2> QED BY <2>3, <2>4, <2>5, <2>6, <2>7, <2>8 DEF CallOn
<1> QED BY <1>1, <1>2, <1>3, NoCredit DEF Saving

\* The steps of a session that touch no credit.
LEMMA PlainStepCredits ==
    ASSUME IInv, CreditInv, NEW s \in Sessions, Step(s),
           ~SaveSelect(s), ~SaveWrite(s), ~SaveRefused(s), ~RequestCharge(s), ~Refund(s)
    PROVE  CreditInv'
<1>1. s \in Procs
  BY DEF Procs
<1>2. CASE RequestRow(s)
  <2>1. CASE End(s)
    BY <1>1, <1>2, <2>1, EndNoCredit DEF RequestRow, ReadsOnly, history, Saving
  <2>2. CASE Set(s, [sess[s] EXCEPT !.pc = "requestOffer", !.mem = row[sess[s].d]])
    <3>1. PICK me : me = [sess[s] EXCEPT !.pc = "requestOffer", !.mem = row[sess[s].d]]
      OBVIOUS
    <3>2. sess[s] \in Session /\ sess[s].after # "charged"
      BY <1>1, <1>2, SessionFacts DEF RequestRow, CreditInv, ChargeOK, Charged, Saving
    <3>3. me.pc = "requestOffer" /\ me.after = sess[s].after
      BY <3>1, <3>2 DEF Session
    <3> QED BY <1>1, <1>2, <2>2, <3>1, <3>2, <3>3, NoCredit DEF RequestRow, ReadsOnly, history, Saving
  <2> QED BY <1>2, <2>1, <2>2 DEF RequestRow
<1>3. CASE RequestOffer(s)
  <2>1. CASE End(s) /\ UNCHANGED history
    BY <1>1, <1>3, <2>1, EndNoCredit DEF RequestOffer, history, Saving
  <2>2. CASE Goto(s, "requestCharge") /\ UNCHANGED history
    BY <1>1, <1>3, <2>2, GotoNoCredit DEF RequestOffer, history, Saving
  <2>3. CASE SaveRequest(s, "idle")
    BY <1>1, <1>3, <2>3, GotoSaveNoCredit DEF RequestOffer, SaveRequest, Saving
  <2> QED BY <1>3, <2>1, <2>2, <2>3 DEF RequestOffer
<1>4. CASE AcceptOffer(s) \/ OfferCheck(s) \/ HasActiveTrip(s) \/ HasDelivered(s)
  BY <1>1, <1>4, EndNoCredit, GotoNoCredit
     DEF AcceptOffer, OfferCheck, HasActiveTrip, HasDelivered, ReadsOnly, history, Saving
<1>5. CASE TakeListing(s)
  BY <1>1, <1>5, GotoNoCredit DEF TakeListing, history, Saving
<1>6. CASE Reopen(s) \/ OfferFare(s)
  BY <1>1, <1>6, EndNoCredit DEF Reopen, OfferFare, history, Saving
<1>7. CASE AcceptFare(s) \/ OfferRow(s) \/ DeliverFare(s)
  <2>1. ASSUME NEW me PROVE (IF me.fare = NoFare THEN "idle" ELSE "offerReread") # "charged"
    OBVIOUS
  <2> QED BY <1>1, <1>7, <2>1, GotoSaveNoCredit DEF AcceptFare, OfferRow, DeliverFare, history, Saving
<1>8. CASE RejectOther(s) \/ RestoreNext(s)
  BY <1>1, <1>8, SaveNextNoCredit DEF RejectOther, RestoreNext, ReadsOnly, history, Saving
<1>9. CASE OtherPending(s)
  <2>1. CASE End(s)
    BY <1>1, <1>9, <2>1, EndNoCredit DEF OtherPending, ReadsOnly, history, Saving
  <2>2. CASE Set(s, [sess[s] EXCEPT !.pc = "rejectOther", !.todo = Loaded(findOtherPending(sess[s].d))])
    <3>1. PICK me : me = [sess[s] EXCEPT !.pc = "rejectOther", !.todo = Loaded(findOtherPending(sess[s].d))]
      OBVIOUS
    <3>2. sess[s] \in Session /\ sess[s].after # "charged"
      BY <1>1, <1>9, SessionFacts DEF OtherPending, CreditInv, ChargeOK, Charged, Saving
    <3>3. me.pc = "rejectOther" /\ me.after = sess[s].after
      BY <3>1, <3>2 DEF Session
    <3> QED BY <1>1, <1>9, <2>2, <3>1, <3>2, <3>3, NoCredit DEF OtherPending, ReadsOnly, history, Saving
  <2> QED BY <1>9, <2>1, <2>2 DEF OtherPending
<1>10. CASE TakenOver(s)
  <2>1. CASE Goto(s, "hasActiveTrip")
    BY <1>1, <1>10, <2>1, GotoNoCredit DEF TakenOver, ReadsOnly, history, Saving
  <2>2. CASE \E list : Set(s, [sess[s] EXCEPT !.pc = "restoreNext", !.todo = list])
    <3>1. PICK list : Set(s, [sess[s] EXCEPT !.pc = "restoreNext", !.todo = list])
      BY <2>2
    <3>2. PICK me : me = [sess[s] EXCEPT !.pc = "restoreNext", !.todo = list]
      OBVIOUS
    <3>3. sess[s] \in Session /\ sess[s].after # "charged"
      BY <1>1, <1>10, SessionFacts DEF TakenOver, CreditInv, ChargeOK, Charged, Saving
    <3>4. me.pc = "restoreNext" /\ me.after = sess[s].after
      BY <3>2, <3>3 DEF Session
    <3> QED BY <1>1, <1>10, <3>1, <3>2, <3>3, <3>4, NoCredit DEF TakenOver, ReadsOnly, history, Saving
  <2> QED BY <1>10, <2>1, <2>2 DEF TakenOver
<1>11. CASE OfferReread(s)
  <2>1. PICK me : me = [sess[s] EXCEPT !.pc = "offerFare", !.mem = row[sess[s].d]]
    OBVIOUS
  <2>2. sess[s] \in Session /\ sess[s].after # "charged"
    BY <1>1, <1>11, SessionFacts DEF OfferReread, CreditInv, ChargeOK, Charged, Saving
  <2>3. me.pc = "offerFare" /\ me.after = sess[s].after
    BY <2>1, <2>2 DEF Session
  <2> QED BY <1>1, <1>11, <2>1, <2>2, <2>3, NoCredit DEF OfferReread, ReadsOnly, history, Saving
<1> QED BY <1>2, <1>3, <1>4, <1>5, <1>6, <1>7, <1>8, <1>9, <1>10, <1>11 DEF Step

\* The first round trip of a save keeps what the session holds.
LEMMA SaveSelectCredits == ASSUME IInv, CreditInv, NEW s \in Procs, SaveSelect(s) PROVE CreditInv'
<1>1. PICK me : me = [sess[s] EXCEPT !.pc = "write", !.snap = row[sess[s].d]]
  OBVIOUS
<1>2. sess[s] \in Session
  BY SessionFacts
<1>3. me.pc = "write" /\ me.after = sess[s].after /\ me.d = sess[s].d
  BY <1>1, <1>2 DEF Session
<1>4. ChargeOK(me) /\ (Charged(me) <=> Charged(sess[s]))
  BY <1>3 DEF ChargeOK, Charged, Saving
<1> QED BY <1>1, <1>3, <1>4, KeepsCredits DEF SaveSelect, ReadsOnly, history

\* A refused save keeps the credit until it is given back.
LEMMA SaveRefusedCredits == ASSUME IInv, CreditInv, NEW s \in Procs, SaveRefused(s) PROVE CreditInv'
<1>1. CASE sess[s].after # "charged"
  BY <1>1, EndNoCredit DEF SaveRefused, ReadsOnly, history
<1>2. CASE sess[s].after = "charged"
  <2>1. PICK me : me = [sess[s] EXCEPT !.pc = "refund"]
    OBVIOUS
  <2>2. sess[s] \in Session
    BY SessionFacts
  <2>3. me.pc = "refund" /\ me.after = sess[s].after /\ me.d = sess[s].d
    BY <2>1, <2>2 DEF Session
  <2>4. ChargeOK(me) /\ (Charged(me) <=> Charged(sess[s]))
    BY <1>2, <2>3 DEF ChargeOK, Charged
  <2> QED BY <1>2, <2>1, <2>3, <2>4, KeepsCredits DEF SaveRefused, Goto, ReadsOnly, history
<1> QED BY <1>1, <1>2

\* A session that gives away the credit it holds of broker b.
LEMMA HeldLess ==
    ASSUME IInv, CreditInv, NEW s \in Procs, NEW b \in Brokers, Charged(sess[s]), sess[s].d = b, End(s)
    PROVE  /\ \A p \in Procs : ChargeOK(sess'[p])
           /\ \A w \in Workers : ~Charged(sess'[w])
           /\ Held(b)' = Held(b) \ {s} /\ s \in Held(b)
           /\ \A c \in Brokers : c # b => Held(c)' = Held(c)
<1>1. ChargeOK(Idle) /\ ~Charged(Idle) /\ Idle.pc # "refund" /\ Idle.after # "charged"
  BY DEF ChargeOK, Charged, Idle
<1>2. /\ \A p \in Procs : ChargeOK(sess'[p])
      /\ \A w \in Workers : ~Charged(sess'[w])
      /\ sess'[s] = Idle /\ \A p \in Procs : p # s => sess'[p] = sess[p]
  BY <1>1, OneSession DEF End
<1>3. s \in Sessions
  BY DEF CreditInv, Procs
<1>4. Held(b)' = Held(b) \ {s} /\ s \in Held(b)
  BY <1>1, <1>2, <1>3 DEF Held, Charged, Procs
<1>5. \A c \in Brokers : c # b => Held(c)' = Held(c)
  BY <1>1, <1>2, <1>3 DEF Held, Procs
<1> QED BY <1>2, <1>4, <1>5

LEMMA RefundCredits == ASSUME IInv, CreditInv, NEW s \in Procs, Refund(s) PROVE CreditInv'
<1>1. PICK b \in Brokers : b = sess[s].d
  BY SessionFacts DEF Refund, SessionOK
<1>2. Charged(sess[s]) /\ End(s)
  BY DEF Refund, CreditInv, ChargeOK
<1>3. /\ \A p \in Procs : ChargeOK(sess'[p])
      /\ \A w \in Workers : ~Charged(sess'[w])
      /\ Held(b)' = Held(b) \ {s} /\ s \in Held(b)
      /\ \A c \in Brokers : c # b => Held(c)' = Held(c)
  BY <1>1, <1>2, HeldLess
<1>4. /\ credit'[b] = credit[b] + 1 /\ \A c \in Brokers : c # b => credit'[c] = credit[c]
      /\ filed' = filed /\ crashes' = crashes
  BY <1>1 DEF Refund, history, IInv, TypeOK
<1>5. ASSUME NEW c \in Brokers PROVE BrokerOK(c)'
  <2>1. BrokerOK(c)
    BY ByBroker
  <2>2. CASE c # b
    BY <1>3, <1>4, <2>1, <2>2 DEF BrokerOK
  <2>3. CASE c = b
    <3>1. IsFiniteSet(Held(c)') /\ Cardinality(Held(c)') = Cardinality(Held(c)) - 1
      BY <1>3, <2>1, <2>3, FS_RemoveElement DEF BrokerOK
    <3>2. credit[c] \in Nat /\ filed[c] \in Nat /\ Cardinality(Held(c)) \in Nat /\ Credits \in Nat
      BY <2>1, CreditTypes
    <3>3. credit'[c] + filed'[c] + Cardinality(Held(c)') = credit[c] + filed[c] + Cardinality(Held(c))
      BY <1>4, <2>3, <3>1, <3>2
    <3> QED BY <1>4, <2>1, <3>1, <3>3 DEF BrokerOK
  <2> QED BY <2>2, <2>3
<1> QED BY <1>3, <1>5, ByBroker DEF ChargeOK, Charged, CreditInv, CreditsAccounted, BrokerOK

LEMMA SaveWriteCredits == ASSUME IInv, CreditInv, NEW s \in Procs, SaveWrite(s) PROVE CreditInv'
<1>1. UNCHANGED <<credit, crashes>> /\ sess[s].pc \in Saving
  BY DEF SaveWrite, Saving
<1>2. CASE sess[s].after # "charged"
  <2>1. filed' = filed
    BY <1>2 DEF SaveWrite
  <2>2. CASE sess[s].after = "idle"
    BY <1>1, <1>2, <2>1, <2>2, EndNoCredit DEF SaveWrite
  <2>3. CASE sess[s].after # "idle"
    <3>1. sess[s].after # "refund"
      BY <1>1, SessionFacts DEF SessionOK, AfterSave
    <3> QED BY <1>1, <1>2, <2>1, <2>3, <3>1, GotoNoCredit DEF SaveWrite
  <2> QED BY <2>2, <2>3
<1>3. CASE sess[s].after = "charged"
  <2>1. PICK b \in Brokers : b = sess[s].d
    BY <1>1, <1>3, SessionFacts DEF SessionOK
  <2>2. Charged(sess[s]) /\ End(s)
    BY <1>3 DEF SaveWrite, Charged
  <2>3. /\ \A p \in Procs : ChargeOK(sess'[p])
        /\ \A w \in Workers : ~Charged(sess'[w])
        /\ Held(b)' = Held(b) \ {s} /\ s \in Held(b)
        /\ \A c \in Brokers : c # b => Held(c)' = Held(c)
    BY <2>1, <2>2, HeldLess
  <2>4. filed'[b] = filed[b] + 1 /\ \A c \in Brokers : c # b => filed'[c] = filed[c]
    BY <1>3, <2>1 DEF SaveWrite, IInv, TypeOK
  <2>5. ASSUME NEW c \in Brokers PROVE BrokerOK(c)'
    <3>1. BrokerOK(c)
      BY ByBroker
    <3>2. CASE c # b
      BY <1>1, <2>3, <2>4, <3>1, <3>2 DEF BrokerOK
    <3>3. CASE c = b
      <4>1. IsFiniteSet(Held(c)') /\ Cardinality(Held(c)') = Cardinality(Held(c)) - 1
        BY <2>3, <3>1, <3>3, FS_RemoveElement DEF BrokerOK
      <4>2. credit[c] \in Nat /\ filed[c] \in Nat /\ Cardinality(Held(c)) \in Nat /\ Credits \in Nat
        BY <3>1, CreditTypes
      <4>3. credit'[c] + filed'[c] + Cardinality(Held(c)') = credit[c] + filed[c] + Cardinality(Held(c))
        BY <1>1, <2>4, <3>3, <4>1, <4>2
      <4> QED BY <1>1, <3>1, <4>1, <4>3 DEF BrokerOK
    <3> QED BY <3>2, <3>3
  <2> QED BY <2>3, <2>5, ByBroker DEF ChargeOK, Charged, CreditInv, CreditsAccounted, BrokerOK
<1> QED BY <1>2, <1>3

LEMMA RequestChargeCredits == ASSUME IInv, CreditInv, NEW s \in Sessions, RequestCharge(s) PROVE CreditInv'
<1>1. s \in Procs /\ s \notin Workers
  BY TripAssumption DEF Procs, Workers
<1>2. PICK b \in Brokers : b = sess[s].d /\ sess[s].pc = "requestCharge"
  BY <1>1, SessionFacts DEF RequestCharge, SessionOK
<1>3. ~Charged(sess[s]) /\ sess[s] \in Session
  BY <1>1, <1>2, SessionFacts DEF CreditInv, ChargeOK, Saving
<1>4. CASE ~(credit[b] > 0)
  BY <1>1, <1>2, <1>4, EndNoCredit DEF RequestCharge, history, Saving
<1>5. CASE credit[b] > 0
  <2>1. PICK entity, old : GotoSave(s, old, entity, "charged")
    BY <1>2, <1>5 DEF RequestCharge, SaveRequest
  <2>2. PICK me : me = [sess[s] EXCEPT !.pc = SavePc(old), !.mem = entity, !.after = "charged"]
    OBVIOUS
  <2>3. me.pc \in Saving /\ me.pc # "refund" /\ me.after = "charged" /\ me.d = b
    BY <1>2, <1>3, <2>2 DEF Session, SavePc, Saving
  <2>4. Set(s, me)
    BY <2>1, <2>2 DEF GotoSave
  <2>5. ChargeOK(me)
    BY <2>3 DEF ChargeOK, Charged
  <2>6. /\ \A p \in Procs : ChargeOK(sess'[p])
        /\ \A w \in Workers : ~Charged(sess'[w])
        /\ sess'[s] = me /\ \A p \in Procs : p # s => sess'[p] = sess[p]
    BY <1>1, <2>4, <2>5, OneSession
  <2>7. Held(b)' = Held(b) \cup {s} /\ s \notin Held(b)
    BY <1>1, <1>2, <1>3, <2>3, <2>6 DEF Held, Charged, Procs
  <2>8. \A c \in Brokers : c # b => Held(c)' = Held(c)
    BY <1>1, <1>2, <2>3, <2>6 DEF Held, Procs
  <2>9. /\ credit'[b] = credit[b] - 1 /\ \A c \in Brokers : c # b => credit'[c] = credit[c]
        /\ filed' = filed /\ crashes' = crashes
    BY <1>2, <1>5 DEF RequestCharge, SaveRequest, IInv, TypeOK
  <2>10. ASSUME NEW c \in Brokers PROVE BrokerOK(c)'
    <3>1. BrokerOK(c)
      BY ByBroker
    <3>2. CASE c # b
      BY <2>8, <2>9, <3>1, <3>2 DEF BrokerOK
    <3>3. CASE c = b
      <4>1. IsFiniteSet(Held(c)') /\ Cardinality(Held(c)') = Cardinality(Held(c)) + 1
        BY <2>7, <3>1, <3>3, FS_AddElement DEF BrokerOK
      <4>2. credit[c] \in Nat /\ filed[c] \in Nat /\ Cardinality(Held(c)) \in Nat /\ Credits \in Nat
        BY <3>1, CreditTypes
      <4>3. credit'[c] + filed'[c] + Cardinality(Held(c)') = credit[c] + filed[c] + Cardinality(Held(c))
        BY <2>9, <3>3, <4>1, <4>2
      <4> QED BY <2>9, <3>1, <4>1, <4>3 DEF BrokerOK
    <3> QED BY <3>2, <3>3
  <2> QED BY <2>6, <2>10, ByBroker DEF ChargeOK, Charged, CreditInv, CreditsAccounted, BrokerOK
<1> QED BY <1>4, <1>5

\* A restart loses the credits in hand.
LEMMA CrashCredits == ASSUME IInv, CreditInv, Crash PROVE CreditInv'
<1>1. sess' = [p \in Procs |-> Idle] /\ UNCHANGED <<credit, filed>>
  BY DEF Crash, history
<1>2. Idle.pc = "idle" /\ Idle.after = "idle"
  BY DEF Idle
<1>3. crashes \in Nat /\ crashes' = crashes + 1
  BY DEF Crash, IInv, TypeOK
<1>4. \A p \in Procs : ChargeOK(sess'[p])
  BY <1>1, <1>2 DEF ChargeOK, Charged
<1>5. \A w \in Workers : ~Charged(sess'[w])
  BY <1>1, <1>2 DEF Charged, Procs
<1>6. ASSUME NEW b \in Brokers PROVE BrokerOK(b)'
  <2>1. Held(b)' = {}
    BY <1>1, <1>2 DEF Held, Procs
  <2>2. BrokerOK(b)
    BY ByBroker
  <2>3. credit[b] \in Nat /\ filed[b] \in Nat /\ Cardinality(Held(b)) \in Nat /\ Credits \in Nat
    BY <2>2, CreditTypes
  <2>4. IsFiniteSet(Held(b)') /\ Cardinality(Held(b)') = 0
    BY <2>1, FS_EmptySet
  <2>5. credit'[b] + filed'[b] + Cardinality(Held(b)') <= Credits
    BY <1>1, <2>2, <2>3, <2>4 DEF BrokerOK
  <2> QED BY <1>3, <2>4, <2>5 DEF BrokerOK
<1> QED BY <1>4, <1>5, <1>6, ByBroker DEF ChargeOK, Charged, CreditInv, CreditsAccounted, BrokerOK

LEMMA SameCredits == ASSUME IInv, CreditInv, UNCHANGED <<sess, credit, filed, crashes>> PROVE CreditInv'
BY DEF CreditInv, CreditsAccounted, Held, ChargeOK, Charged

LEMMA WorkerCredits == ASSUME IInv, CreditInv, ExpiryStep \/ ReminderStep PROVE CreditInv'
<1>1. "expiry" \in Procs /\ "reminder" \in Procs
  BY DEF Procs, Workers
<1>2. ASSUME NEW w \in Procs, NEW due, NEW pc, Sweep(w, due, pc), pc # "refund" PROVE CreditInv'
  <2>1. PICK me : me = [Idle EXCEPT !.pc = pc, !.todo = Loaded(due), !.at = now]
    OBVIOUS
  <2>2. me.pc = pc /\ me.after = "idle"
    BY <2>1 DEF Idle
  <2> QED BY <1>2, <2>1, <2>2, NoCredit DEF Sweep, ReadsOnly, history, Saving
<1>3. CASE ExpireOffers \/ RemindDeliveries
  BY <1>1, <1>2, <1>3 DEF ExpireOffers, RemindDeliveries
<1>4. CASE ExpireNext \/ RemindNext
  BY <1>1, <1>4, SaveNextNoCredit DEF ExpireNext, RemindNext, ReadsOnly, history, Saving
<1> QED BY <1>1, <1>3, <1>4, SaveSelectCredits, SaveWriteCredits, SaveRefusedCredits DEF ExpiryStep, ReminderStep

LEMMA NextCredits == ASSUME IInv, CreditInv, [Next]_vars PROVE CreditInv'
<1>1. CASE \E s \in Sessions, d \in Drivers : CallOn(s, d)
  BY <1>1, CallCredits
<1>2. ASSUME NEW s \in Sessions, SetTaken(s) PROVE CreditInv'
  BY <1>2, SameCredits DEF SetTaken, history
<1>3. ASSUME NEW s \in Sessions, SetOpen(s) PROVE CreditInv'
  <2>1. s \in Procs
    BY DEF Procs
  <2> QED BY <1>3, <2>1, GotoNoCredit DEF SetOpen, Call, CallOnly, history, Saving
<1>4. ASSUME NEW s \in Sessions, Step(s) PROVE CreditInv'
  <2>1. s \in Procs
    BY DEF Procs
  <2>2. CASE SaveSelect(s) \/ SaveWrite(s) \/ SaveRefused(s)
    BY <2>1, <2>2, SaveSelectCredits, SaveWriteCredits, SaveRefusedCredits
  <2>3. CASE RequestCharge(s) \/ Refund(s)
    BY <2>1, <2>3, RequestChargeCredits, RefundCredits
  <2> QED BY <1>4, <2>2, <2>3, PlainStepCredits
<1>5. CASE ExpiryStep \/ ReminderStep
  BY <1>5, WorkerCredits
<1>6. CASE Crash
  BY <1>6, CrashCredits
<1>7. CASE Wait \/ ClockEnd \/ UNCHANGED vars
  BY <1>7, SameCredits DEF Wait, ClockEnd, vars, history
<1> QED BY <1>1, <1>2, <1>3, <1>4, <1>5, <1>6, <1>7 DEF Next

LEMMA InitCredits == ASSUME Init PROVE CreditInv
<1>1. Idle.pc = "idle" /\ Idle.after = "idle"
  BY DEF Idle
<1>2. \A p \in Procs : sess[p] = Idle
  BY DEF Init
<1>3. \A p \in Procs : ChargeOK(sess[p]) /\ ~Charged(sess[p])
  BY <1>1, <1>2 DEF ChargeOK, Charged
<1>4. ASSUME NEW b \in Brokers PROVE BrokerOK(b)
  <2>1. Held(b) = {}
    BY <1>1, <1>2 DEF Held, Procs
  <2>2. credit[b] = Credits /\ filed[b] = 0 /\ Credits \in Nat
    BY TripAssumption DEF Init
  <2> QED BY <2>1, <2>2, FS_EmptySet DEF BrokerOK
<1> QED BY <1>3, <1>4, ByBroker DEF Workers, Procs

\* Credits are neither made nor spent twice (useRequest, refundRequest): for every number of
\* brokers and of calls at once, what a broker bought is left, filed as a request or in the
\* hands of a call; a restart may lose the credits in hand and makes none.
THEOREM CreditsKept == Spec => []CreditsAccounted
<1>1. Init => IInv /\ CreditInv
  BY InitInv, InitCredits
<1>2. IInv /\ CreditInv /\ [Next]_vars => IInv' /\ CreditInv'
  BY NextInv, NextCredits
<1>3. CreditInv => CreditsAccounted
  BY DEF CreditInv
<1> QED BY <1>1, <1>2, <1>3, PTL DEF Spec

-----------------------------------------------------------------------------
(* Calls and sweeps one at a time. *)

NoTrip == \A d \in Drivers : row[d].status \notin Started
NotRunning == \A d \in Drivers : row[d].status # "ACCEPTED"
RefusedBefore(t) == \A d \in refused : row[d].status = "REJECTED" /\ row[d].decidedAt < t

\* The steps that walk a list, and where a session goes on after a save.
Walking == {"rejectOther", "restoreNext", "expireNext", "remindNext"}
Going(me) == IF me.pc \in Saving THEN me.after ELSE me.pc

\* What a handler has in hand is the database as it is: nothing else ran since it read.
Fresh(me) ==
    /\ me.pc = "idle" => me = Idle
    /\ me.pc = "write" => me.snap = row[me.d]
    /\ me.pc \in {"requestOffer", "requestCharge", "acceptOffer", "acceptFare", "deliverFare"} =>
         me.mem = row[me.d]
    /\ Going(me) \notin Walking => me.todo = {}
    /\ \A t \in me.todo : t.mem = row[t.d]
    /\ me.pc \in Saving => \A t \in me.todo : t.d # me.d

\* What it found out before.
Checked(me) ==
    /\ me.pc \in {"requestRow", "requestOffer", "requestCharge", "offerCheck", "offerRow",
                  "takenOver", "restoreNext", "reopen"} => NoTrip
    /\ me.pc = "hasDelivered" => NotRunning
    /\ me.pc = "requestCharge" => me.mem.status # "REJECTED"
    /\ me.pc \in {"takeListing", "otherPending"} => row[me.d].status = "ACCEPTED"
    /\ Going(me) = "takenOver" => RefusedBefore(me.at)
    /\ Going(me) = "restoreNext" => \A t \in me.todo : t.d \notin refused
    /\ Going(me) = "remindNext" => \A t \in me.todo : t.mem.status = "ACCEPTED"

\* The entity it saves, and the row of that entity.
Entity(me) ==
    me.pc \in Saving =>
        /\ me.mem.status # "NONE"
        /\ me.mem.status \in {"PENDING", "OFFERED"} => NoTrip /\ me.d \notin refused
        /\ me.mem.status = "ACCEPTED" /\ me.after = "takeListing" =>
             row[me.d].status \in {"PENDING", "OFFERED"} /\ RefusedBefore(me.mem.decidedAt)
        /\ me.mem.status = "ACCEPTED" /\ me.after # "takeListing" =>
             row[me.d].status = "ACCEPTED" /\ me.mem.decidedAt = row[me.d].decidedAt
        /\ me.mem.status \in {"REJECTED", "CANCELLED"} => row[me.d].status = "PENDING"
        /\ me.mem.status = "REJECTED" /\ me.d \in refused => NotRunning
        /\ me.mem.status \in {"DECLINED", "EXPIRED"} => row[me.d].status = "OFFERED"
        /\ me.mem.status \in {"TRIP_CANCELLED", "DELIVERED"} => row[me.d].status = "ACCEPTED"
        /\ me.mem.status = "DELIVERED" => me.mem.deliveredAt
        /\ me.pc = "insert" => me.mem.status \in {"PENDING", "OFFERED"}
        /\ me.after = "takeListing" => me.mem.status = "ACCEPTED"
        /\ me.after = "rejectOther" => me.mem.status = "REJECTED"
        /\ me.after = "takenOver" => me.mem.status = "TRIP_CANCELLED"
        /\ me.after = "restoreNext" => me.mem.status = "PENDING"

\* completeAssignment has still to turn down e.
Removing(me, e) ==
    \/ me.pc \in {"takeListing", "otherPending"}
    \/ Going(me) = "rejectOther" /\ \E t \in me.todo : t.d = e
    \/ me.pc \in Saving /\ me.mem.status = "REJECTED" /\ me.d = e

\* A running trip closes its load, but for what its handler has still to do.
Closing(me) ==
    /\ \A d \in Drivers : row[d].status = "ACCEPTED" =>
         /\ listing = "TAKEN" \/ me.pc = "takeListing"
         /\ \A e \in Drivers : row[e].status = "PENDING" => Removing(me, e)
    /\ \A d \in Drivers : row[d].status = "DELIVERED" => listing = "TAKEN" /\ row[d].deliveredAt

\* The company's own refusals are older than the trip, so cancelTrip restores none of them.
Refusals(me) ==
    /\ \A d \in refused :
         \/ row[d].status = "REJECTED" /\ row[d].decidedAt < now
         \/ me.pc \in Saving /\ me.mem.status = "REJECTED" /\ me.d = d /\ me.mem.decidedAt < now
    /\ \A d \in refused, e \in Drivers :
         row[d].status = "REJECTED" /\ row[e].status = "ACCEPTED" => row[d].decidedAt < row[e].decidedAt

ActorOK(me) == Fresh(me) /\ Checked(me) /\ Entity(me) /\ Closing(me) /\ Refusals(me)

\* One handler at most is under way, and it knows the database.
SeqInv == Undisturbed => \E s \in Procs : ActorOK(sess[s]) /\ \A p \in Procs \ {s} : sess[p] = Idle

\* The same when no handler is under way.
Settled ==
    /\ \A d \in Drivers : row[d].status = "ACCEPTED" =>
         listing = "TAKEN" /\ \A e \in Drivers : row[e].status # "PENDING"
    /\ \A d \in Drivers : row[d].status = "DELIVERED" => listing = "TAKEN" /\ row[d].deliveredAt
    /\ RefusedBefore(now)
    /\ \A d \in refused, e \in Drivers : row[e].status = "ACCEPTED" => row[d].decidedAt < row[e].decidedAt

LEMMA IdleFields == Idle.pc = "idle" /\ Idle.todo = {} /\ Idle.after = "idle"
BY DEF Idle

\* The steps at which a handler leaves nothing undone.
LEMMA SettledAt ==
    ASSUME NEW me, ActorOK(me),
           me.pc \notin Saving \cup {"takeListing", "otherPending", "rejectOther"}
    PROVE  Settled
BY DEF ActorOK, Closing, Removing, Refusals, Settled, RefusedBefore, Going, Saving

LEMMA SettledActor ==
    ASSUME Settled, NEW me, Fresh(me), Checked(me), Entity(me)
    PROVE  ActorOK(me)
BY DEF ActorOK, Closing, Refusals, Settled, RefusedBefore

LEMMA SettledIdle == ASSUME Settled PROVE ActorOK(Idle)
<1>1. Fresh(Idle)
  BY IdleFields DEF Fresh, Going, Saving
<1>2. Checked(Idle)
  BY IdleFields DEF Checked, Going, Saving
<1>3. Entity(Idle)
  BY IdleFields DEF Entity, Saving
<1> QED BY <1>1, <1>2, <1>3, SettledActor

\* Nobody under way: every session is as at the start.
LEMMA QuietSettled ==
    ASSUME SeqInv, Undisturbed, Quiet
    PROVE  Settled /\ \A p \in Procs : sess[p] = Idle
<1>1. PICK s \in Procs : ActorOK(sess[s]) /\ \A p \in Procs \ {s} : sess[p] = Idle
  BY DEF SeqInv
<1>2. sess[s].pc = "idle"
  BY DEF Quiet
<1>3. sess[s] = Idle
  BY <1>1, <1>2 DEF ActorOK, Fresh
<1>4. Settled
  BY <1>1, <1>2, SettledAt DEF Saving
<1> QED BY <1>1, <1>3, <1>4

\* The handler under way is the only one.
LEMMA OnlyActor ==
    ASSUME SeqInv, Undisturbed, NEW s \in Procs, sess[s].pc # "idle"
    PROVE  ActorOK(sess[s]) /\ \A p \in Procs \ {s} : sess[p] = Idle
<1>1. PICK r \in Procs : ActorOK(sess[r]) /\ \A p \in Procs \ {r} : sess[p] = Idle
  BY DEF SeqInv
<1>2. r = s
  BY <1>1, IdleFields
<1> QED BY <1>1, <1>2

LEMMA ActorStep ==
    ASSUME IInv, SeqInv, NEW s \in Procs, sess[s].pc # "idle", NEW me, Set(s, me),
           UNCHANGED <<arrivals, crashes>>,
           Undisturbed /\ ActorOK(sess[s]) => ActorOK(me)'
    PROVE  SeqInv'
<1> SUFFICES ASSUME Undisturbed' PROVE \E r \in Procs : ActorOK(sess[r])' /\ \A p \in Procs \ {r} : sess'[p] = Idle
  BY DEF SeqInv
<1>1. Undisturbed
  BY DEF Undisturbed, Apart
<1>2. ActorOK(sess[s]) /\ \A p \in Procs \ {s} : sess[p] = Idle
  BY <1>1, OnlyActor
<1>3. sess'[s] = me /\ \A p \in Procs \ {s} : sess'[p] = sess[p]
  BY DEF Set, IInv, TypeOK
<1>4. ActorOK(me)'
  BY <1>1, <1>2
<1>5. ActorOK(sess[s])'
  BY <1>3, <1>4 DEF ActorOK, Fresh, Checked, Entity, Closing, Removing, Refusals, Going
<1> QED BY <1>2, <1>3, <1>5

LEMMA ActorCall ==
    ASSUME IInv, SeqInv, NEW s \in Procs, MayCome, NEW me, Set(s, me),
           UNCHANGED <<arrivals, crashes>>,
           Undisturbed /\ Settled /\ sess[s] = Idle => ActorOK(me)'
    PROVE  SeqInv'
<1> SUFFICES ASSUME Undisturbed' PROVE \E r \in Procs : ActorOK(sess[r])' /\ \A p \in Procs \ {r} : sess'[p] = Idle
  BY DEF SeqInv
<1>1. Undisturbed
  BY DEF Undisturbed, Apart
<1>2. Settled /\ \A p \in Procs : sess[p] = Idle
  BY <1>1, QuietSettled DEF MayCome, Undisturbed
<1>3. sess'[s] = me /\ \A p \in Procs \ {s} : sess'[p] = sess[p]
  BY DEF Set, IInv, TypeOK
<1>4. ActorOK(me)'
  BY <1>1, <1>2
<1>5. ActorOK(sess[s])'
  BY <1>3, <1>4 DEF ActorOK, Fresh, Checked, Entity, Closing, Removing, Refusals, Going
<1> QED BY <1>2, <1>3, <1>5

\* What a handler knows outlasts the steps that write no row, and time.
LEMMA KnowledgeStays ==
    ASSUME IInv, NEW me, ActorOK(me), me.mem \in Row, UNCHANGED <<listing, row, refused>>, now' \in {now, now + 1}
    PROVE  ActorOK(me)'
<1>1. Fresh(me)' /\ Checked(me)' /\ Entity(me)' /\ Closing(me)'
  BY DEF ActorOK, Fresh, Checked, Entity, Closing, Removing, Going, NoTrip, NotRunning, RefusedBefore
<1>2. now \in Nat /\ me.mem.decidedAt \in Nat /\ \A d \in refused : d \in Drivers /\ row[d].decidedAt \in Nat
  BY DEF IInv, TypeOK, Row, Time
<1>3. Refusals(me)'
  BY <1>2 DEF ActorOK, Refusals
<1> QED BY <1>1, <1>3 DEF ActorOK

-----------------------------------------------------------------------------
(* The steps of a handler that leave the rows alone. *)

LEMMA PlainStep ==
    ASSUME IInv, SeqInv, NEW s \in Procs, sess[s].pc # "idle", NEW me, me.mem \in Row, Set(s, me),
           UNCHANGED <<listing, row, refused, now, arrivals, crashes>>,
           Undisturbed /\ ActorOK(sess[s]) => ActorOK(me)
    PROVE  SeqInv'
<1>1. Undisturbed /\ ActorOK(sess[s]) => ActorOK(me)'
  BY KnowledgeStays
<1> QED BY <1>1, ActorStep

LEMMA SettledStep ==
    ASSUME IInv, SeqInv, NEW s \in Procs, NEW me, me.mem \in Row, Set(s, me),
           sess[s].pc \notin Saving \cup {"idle", "takeListing", "otherPending", "rejectOther"},
           UNCHANGED <<listing, row, refused, now, arrivals, crashes>>,
           ActorOK(sess[s]) /\ Settled => Fresh(me) /\ Checked(me) /\ Entity(me)
    PROVE  SeqInv'
<1>1. Undisturbed /\ ActorOK(sess[s]) => ActorOK(me)
  BY SettledAt, SettledActor
<1> QED BY <1>1, PlainStep

LEMMA EndSeq ==
    ASSUME IInv, SeqInv, NEW s \in Procs, End(s),
           sess[s].pc \notin Saving \cup {"idle", "takeListing", "otherPending", "rejectOther"},
           UNCHANGED <<listing, row, refused, now, arrivals, crashes>>
    PROVE  SeqInv'
<1>1. Idle.mem \in Row
  BY IdleSession DEF Session
<1>2. Set(s, Idle)
  BY DEF End
<1>3. Undisturbed /\ ActorOK(sess[s]) => ActorOK(Idle)
  BY SettledAt, SettledIdle
<1>4. sess[s].pc # "idle"
  OBVIOUS
<1> QED BY <1>1, <1>2, <1>3, <1>4, PlainStep

\* A session that only goes on to another step.
LEMMA GotoFields ==
    ASSUME IInv, NEW s \in Procs, NEW pc, NEW me, me = [sess[s] EXCEPT !.pc = pc]
    PROVE  /\ me.pc = pc /\ me.d = sess[s].d /\ me.mem = sess[s].mem /\ me.todo = sess[s].todo
           /\ me.after = sess[s].after /\ me.at = sess[s].at /\ me.mem \in Row
BY SessionFacts DEF Session

LEMMA GotoSeq ==
    ASSUME IInv, SeqInv, NEW s \in Procs, NEW pc, Goto(s, pc),
           sess[s].pc \notin Saving \cup Walking \cup {"idle", "takeListing", "otherPending"},
           pc \notin Saving \cup Walking \cup {"idle", "takeListing", "otherPending", "takenOver"},
           UNCHANGED <<listing, row, refused, now, arrivals, crashes>>,
           pc \in {"requestOffer", "requestCharge", "acceptOffer", "acceptFare", "deliverFare"} =>
             sess[s].pc \in {"requestOffer", "acceptOffer"},
           pc \in {"requestRow", "requestOffer", "requestCharge", "offerCheck", "offerRow", "reopen"}
             /\ ActorOK(sess[s]) => NoTrip,
           pc = "hasDelivered" => NotRunning,
           pc = "requestCharge" => sess[s].mem.status # "REJECTED"
    PROVE  SeqInv'
<1>1. PICK me : me = [sess[s] EXCEPT !.pc = pc]
  OBVIOUS
<1>2. /\ me.pc = pc /\ me.d = sess[s].d /\ me.mem = sess[s].mem /\ me.todo = sess[s].todo
      /\ me.after = sess[s].after /\ me.at = sess[s].at /\ me.mem \in Row
  BY <1>1, GotoFields
<1>3. ASSUME ActorOK(sess[s]) PROVE Fresh(me) /\ Checked(me) /\ Entity(me)
  <2>1. me.todo = {}
    BY <1>2, <1>3 DEF ActorOK, Fresh, Going
  <2>2. Fresh(me)
    BY <1>2, <1>3, <2>1 DEF ActorOK, Fresh, Saving
  <2>3. Checked(me)
    BY <1>2, <1>3, <2>1 DEF ActorOK, Checked, Going, Saving, Walking
  <2> QED BY <1>2, <2>2, <2>3 DEF Entity
<1>4. Set(s, me)
  BY <1>1 DEF Goto
<1> QED BY <1>2, <1>3, <1>4, SettledStep DEF Walking

LEMMA SaveSelectSeq == ASSUME IInv, SeqInv, NEW s \in Procs, SaveSelect(s) PROVE SeqInv'
<1>1. PICK me : me = [sess[s] EXCEPT !.pc = "write", !.snap = row[sess[s].d]]
  OBVIOUS
<1>2. /\ me.pc = "write" /\ me.d = sess[s].d /\ me.mem = sess[s].mem /\ me.todo = sess[s].todo
      /\ me.after = sess[s].after /\ me.at = sess[s].at /\ me.snap = row[me.d] /\ me.mem \in Row
  BY <1>1, SessionFacts DEF Session
<1>3. sess[s].pc = "save" /\ Set(s, me) /\ UNCHANGED <<listing, row, refused, now, arrivals, crashes>>
  BY <1>1 DEF SaveSelect, ReadsOnly, history
<1>4. Going(me) = Going(sess[s])
  BY <1>2, <1>3 DEF Going, Saving
<1>5. ASSUME ActorOK(sess[s]) PROVE ActorOK(me)
  <2>1. Fresh(me) /\ Checked(me)
    BY <1>2, <1>3, <1>4, <1>5 DEF ActorOK, Fresh, Checked, Saving
  <2>2. Entity(me)
    BY <1>2, <1>3, <1>5 DEF ActorOK, Entity, Saving
  <2>3. Closing(me) /\ Refusals(me)
    BY <1>2, <1>3, <1>4, <1>5 DEF ActorOK, Closing, Removing, Refusals, Saving
  <2> QED BY <2>1, <2>2, <2>3 DEF ActorOK
<1> QED BY <1>2, <1>3, <1>5, PlainStep

LEMMA RequestRowSeq == ASSUME IInv, SeqInv, NEW s \in Procs, RequestRow(s) PROVE SeqInv'
<1>1. sess[s].pc = "requestRow" /\ UNCHANGED <<listing, row, refused, now, arrivals, crashes>>
  BY DEF RequestRow, ReadsOnly, history
<1>2. CASE End(s)
  BY <1>1, <1>2, EndSeq DEF Saving
<1>3. CASE Set(s, [sess[s] EXCEPT !.pc = "requestOffer", !.mem = row[sess[s].d]])
  <2>1. PICK me : me = [sess[s] EXCEPT !.pc = "requestOffer", !.mem = row[sess[s].d]]
    OBVIOUS
  <2>2. sess[s].d \in Drivers /\ row[sess[s].d] \in Row
    BY <1>1, SessionFacts DEF SessionOK, Driverless, IInv, TypeOK
  <2>3. /\ me.pc = "requestOffer" /\ me.d = sess[s].d /\ me.mem = row[me.d] /\ me.mem \in Row
        /\ me.todo = sess[s].todo
    BY <2>1, <2>2, SessionFacts DEF Session
  <2>4. ASSUME ActorOK(sess[s]) PROVE Fresh(me) /\ Checked(me) /\ Entity(me)
    <3>1. me.todo = {} /\ NoTrip
      BY <1>1, <2>3, <2>4 DEF ActorOK, Fresh, Checked, Going, Walking, Saving
    <3> QED BY <2>3, <3>1 DEF Fresh, Checked, Entity, Going, Saving
  <2>5. Set(s, me)
    BY <1>3, <2>1
  <2> QED BY <1>1, <2>3, <2>4, <2>5, SettledStep DEF Saving
<1> QED BY <1>2, <1>3 DEF RequestRow

LEMMA AcceptOfferSeq == ASSUME IInv, SeqInv, NEW s \in Procs, AcceptOffer(s) PROVE SeqInv'
<1>1. sess[s].pc = "acceptOffer" /\ UNCHANGED <<listing, row, refused, now, arrivals, crashes>>
  BY DEF AcceptOffer, ReadsOnly, history
<1>2. CASE End(s)
  BY <1>1, <1>2, EndSeq DEF Saving
<1>3. CASE Goto(s, "acceptFare")
  BY <1>1, <1>3, GotoSeq DEF Saving, Walking
<1> QED BY <1>2, <1>3 DEF AcceptOffer

LEMMA OfferCheckSeq == ASSUME IInv, SeqInv, NEW s \in Procs, OfferCheck(s) PROVE SeqInv'
<1>1. sess[s].pc = "offerCheck" /\ UNCHANGED <<listing, row, refused, now, arrivals, crashes>>
  BY DEF OfferCheck, ReadsOnly, history
<1>2. CASE End(s)
  BY <1>1, <1>2, EndSeq DEF Saving
<1>3. CASE Goto(s, "offerRow")
  <2>1. ActorOK(sess[s]) => NoTrip
    BY <1>1 DEF ActorOK, Checked
  <2> QED BY <1>1, <1>3, <2>1, GotoSeq DEF Saving, Walking
<1> QED BY <1>2, <1>3 DEF OfferCheck

LEMMA HasActiveTripSeq == ASSUME IInv, SeqInv, NEW s \in Procs, HasActiveTrip(s) PROVE SeqInv'
<1>1. sess[s].pc = "hasActiveTrip" /\ UNCHANGED <<listing, row, refused, now, arrivals, crashes>>
  BY DEF HasActiveTrip, ReadsOnly, history
<1>2. CASE End(s)
  BY <1>1, <1>2, EndSeq DEF Saving
<1>3. CASE Goto(s, "hasDelivered") /\ ~hasActiveTrip
  <2>1. NotRunning
    BY <1>3 DEF hasActiveTrip, NotRunning
  <2> QED BY <1>1, <1>3, <2>1, GotoSeq DEF Saving, Walking
<1> QED BY <1>2, <1>3 DEF HasActiveTrip

LEMMA HasDeliveredSeq == ASSUME IInv, SeqInv, NEW s \in Procs, HasDelivered(s) PROVE SeqInv'
<1>1. sess[s].pc = "hasDelivered" /\ UNCHANGED <<listing, row, refused, now, arrivals, crashes>>
  BY DEF HasDelivered, ReadsOnly, history
<1>2. CASE End(s)
  BY <1>1, <1>2, EndSeq DEF Saving
<1>3. CASE Goto(s, "reopen") /\ ~hasDelivered
  <2>1. ActorOK(sess[s]) => NoTrip
    BY <1>1, <1>3 DEF ActorOK, Checked, hasDelivered, NotRunning, NoTrip, Started
  <2> QED BY <1>1, <1>3, <2>1, GotoSeq DEF Saving, Walking
<1> QED BY <1>2, <1>3 DEF HasDelivered

\* What there is to know of a handler that saves the first entity.
LEMMA SavingKnows ==
    ASSUME NEW me, me.pc \in {"save", "insert"}, me.todo = {}, me.after # "takenOver"
    PROVE  Fresh(me) /\ Checked(me)
BY DEF Fresh, Checked, Going, Saving

LEMMA SaveRequestSeq ==
    ASSUME IInv, SeqInv, NEW s \in Procs, NEW after \in {"idle", "charged"}, SaveRequest(s, after),
           sess[s].pc \in {"requestOffer", "requestCharge"},
           sess[s].pc = "requestOffer" => sess[s].mem.status # "REJECTED",
           UNCHANGED <<listing, row, now, arrivals, crashes>>
    PROVE  SeqInv'
<1>1. sess[s].mem \in Row /\ sess[s].d \in Drivers
  BY SessionFacts DEF SessionOK, Session, Driverless
<1>2. PICK entity : entity = [sess[s].mem EXCEPT !.status = "PENDING", !.decidedAt = NoTime]
  OBVIOUS
<1>3. entity \in Row /\ entity.status = "PENDING"
  BY <1>1, <1>2, Clock DEF Row, Statuses
<1> PICK pc \in {"save", "insert"} : pc = SavePc(sess[s].mem)
  BY DEF SavePc
<1>4. PICK me : me = [sess[s] EXCEPT !.pc = pc, !.mem = entity, !.after = after]
  OBVIOUS
<1>5. /\ me.pc \in {"save", "insert"} /\ me.d = sess[s].d /\ me.mem = entity /\ me.todo = sess[s].todo
      /\ me.after = after /\ me.mem \in Row
  BY <1>3, <1>4, SessionFacts DEF Session
<1>6. Set(s, me) /\ refused' = refused
  BY <1>2, <1>4 DEF SaveRequest, GotoSave
<1>7. ASSUME ActorOK(sess[s]), Settled PROVE Fresh(me) /\ Checked(me) /\ Entity(me)
  <2>1. me.todo = {} /\ NoTrip /\ sess[s].mem = row[me.d] /\ sess[s].mem.status # "REJECTED"
    BY <1>5, <1>7 DEF ActorOK, Fresh, Checked, Going, Walking, Saving
  <2>2. me.d \notin refused
    BY <2>1, <1>7 DEF Settled, RefusedBefore
  <2>3. Entity(me)
    BY <1>3, <1>5, <2>1, <2>2 DEF Entity
  <2> QED BY <1>5, <2>1, <2>3, SavingKnows
<1> QED BY <1>5, <1>6, <1>7, SettledStep DEF Saving

LEMMA RequestOfferSeq == ASSUME IInv, SeqInv, NEW s \in Procs, RequestOffer(s) PROVE SeqInv'
<1>1. sess[s].pc = "requestOffer" /\ UNCHANGED <<listing, row, now, arrivals, crashes>>
  BY DEF RequestOffer
<1>2. CASE End(s) /\ UNCHANGED history
  BY <1>1, <1>2, EndSeq DEF Saving, history
<1>3. CASE Goto(s, "requestCharge") /\ UNCHANGED history /\ sess[s].mem.status # "REJECTED"
  <2>1. ActorOK(sess[s]) => NoTrip
    BY <1>1 DEF ActorOK, Checked
  <2>2. refused' = refused
    BY <1>3 DEF history
  <2> QED BY <1>1, <1>3, <2>1, <2>2, GotoSeq DEF Saving, Walking
<1>4. CASE SaveRequest(s, "idle") /\ sess[s].mem.status # "REJECTED"
  BY <1>1, <1>4, SaveRequestSeq
<1> QED BY <1>2, <1>3, <1>4 DEF RequestOffer

LEMMA RequestChargeSeq == ASSUME IInv, SeqInv, NEW s \in Procs, RequestCharge(s) PROVE SeqInv'
<1>1. sess[s].pc = "requestCharge" /\ UNCHANGED <<listing, row, now, arrivals, crashes>>
  BY DEF RequestCharge
<1>2. CASE End(s) /\ UNCHANGED history
  BY <1>1, <1>2, EndSeq DEF Saving, history
<1>3. CASE SaveRequest(s, "charged")
  BY <1>1, <1>3, SaveRequestSeq
<1> QED BY <1>2, <1>3 DEF RequestCharge

LEMMA DeliverFareSeq == ASSUME IInv, SeqInv, NEW s \in Procs, DeliverFare(s) PROVE SeqInv'
<1>1. /\ sess[s].pc = "deliverFare" /\ sess[s].mem.status = "ACCEPTED" /\ sess[s].mem \in Row
      /\ UNCHANGED <<listing, row, refused, now, arrivals, crashes>>
  BY SessionFacts DEF SessionOK, Session, DeliverFare, history
<1>2. PICK entity : entity = [sess[s].mem EXCEPT !.status = "DELIVERED", !.deliveredAt = TRUE]
  OBVIOUS
<1>3. entity \in Row /\ entity.status = "DELIVERED" /\ entity.deliveredAt
  BY <1>1, <1>2 DEF Row, Statuses
<1>4. PICK me : me = [sess[s] EXCEPT !.pc = "save", !.mem = entity, !.after = "idle"]
  OBVIOUS
<1>5. /\ me.pc = "save" /\ me.d = sess[s].d /\ me.mem = entity /\ me.todo = sess[s].todo
      /\ me.after = "idle" /\ me.mem \in Row
  BY <1>3, <1>4, SessionFacts DEF Session
<1>6. Set(s, me)
  BY <1>1, <1>2, <1>4 DEF DeliverFare, GotoSave, SavePc
<1>7. ASSUME ActorOK(sess[s]) PROVE Fresh(me) /\ Checked(me) /\ Entity(me)
  <2>1. me.todo = {} /\ row[me.d].status = "ACCEPTED"
    BY <1>1, <1>5, <1>7 DEF ActorOK, Fresh, Going, Walking, Saving
  <2>2. Entity(me)
    BY <1>3, <1>5, <2>1 DEF Entity
  <2> QED BY <1>5, <2>1, <2>2, SavingKnows
<1> QED BY <1>1, <1>5, <1>6, <1>7, SettledStep DEF Saving

LEMMA RefundSeq == ASSUME IInv, SeqInv, NEW s \in Procs, Refund(s) PROVE SeqInv'
BY EndSeq DEF Refund, Saving, history

LEMMA OfferFareSeq == ASSUME IInv, SeqInv, NEW s \in Procs, OfferFare(s) PROVE SeqInv'
BY EndSeq DEF OfferFare, Saving, history

LEMMA OfferRereadSeq == ASSUME IInv, SeqInv, NEW s \in Procs, OfferReread(s) PROVE SeqInv'
<1>1. sess[s].pc = "offerReread" /\ UNCHANGED <<listing, row, refused, now, arrivals, crashes>>
  BY DEF OfferReread, ReadsOnly, history
<1>2. PICK me : me = [sess[s] EXCEPT !.pc = "offerFare", !.mem = row[sess[s].d]]
  OBVIOUS
<1>3. row[sess[s].d] \in Row
  BY <1>1, SessionFacts DEF SessionOK, Driverless, IInv, TypeOK
<1>4. me.pc = "offerFare" /\ me.mem \in Row /\ me.todo = sess[s].todo
  BY <1>2, <1>3, SessionFacts DEF Session
<1>5. ASSUME ActorOK(sess[s]) PROVE Fresh(me) /\ Checked(me) /\ Entity(me)
  <2>1. me.todo = {}
    BY <1>1, <1>4, <1>5 DEF ActorOK, Fresh, Going, Walking, Saving
  <2> QED BY <1>4, <2>1 DEF Fresh, Checked, Entity, Going, Saving
<1>6. Set(s, me)
  BY <1>2 DEF OfferReread
<1> QED BY <1>1, <1>4, <1>5, <1>6, SettledStep DEF Saving

\* The company's yes and its offer take its refusal of that driver back.
LEMMA FewerRefusals ==
    ASSUME NEW d, Settled, UNCHANGED <<listing, row, now>>, refused' = refused \ {d}
    PROVE  Settled'
BY DEF Settled, RefusedBefore

LEMMA AcceptFareSeq == ASSUME IInv, SeqInv, NEW s \in Procs, AcceptFare(s) PROVE SeqInv'
<1>1. /\ sess[s].pc = "acceptFare" /\ sess[s].mem.status = "PENDING" /\ sess[s].mem \in Row
      /\ refused' = refused \ {sess[s].d} /\ UNCHANGED <<listing, row, now, arrivals, crashes>>
  BY SessionFacts DEF SessionOK, Session, AcceptFare
<1>2. PICK entity : entity = [sess[s].mem EXCEPT !.status = "ACCEPTED", !.decidedAt = now]
  OBVIOUS
<1>3. entity \in Row /\ entity.status = "ACCEPTED" /\ entity.decidedAt = now
  BY <1>1, <1>2, Clock DEF Row, Statuses
<1>4. PICK me : me = [sess[s] EXCEPT !.pc = "save", !.mem = entity, !.after = "takeListing"]
  OBVIOUS
<1>5. /\ me.pc = "save" /\ me.d = sess[s].d /\ me.mem = entity /\ me.todo = sess[s].todo
      /\ me.after = "takeListing"
  BY <1>3, <1>4, SessionFacts DEF Session
<1>6. Set(s, me)
  BY <1>1, <1>2, <1>4 DEF AcceptFare, GotoSave, SavePc
<1>7. ASSUME ActorOK(sess[s]) PROVE ActorOK(me)'
  <2>1. me.todo = {} /\ row[me.d].status = "PENDING"
    BY <1>1, <1>5, <1>7 DEF ActorOK, Fresh, Going, Walking, Saving
  <2>2. Settled'
    BY <1>1, <1>7, SettledAt, FewerRefusals DEF Saving
  <2>3. Fresh(me)' /\ Checked(me)'
    BY <1>1, <1>5, <2>1 DEF Fresh, Checked, Going, Saving
  <2>4. RefusedBefore(now)'
    BY <2>2 DEF Settled
  <2>5. RefusedBefore(me.mem.decidedAt)'
    BY <1>1, <1>3, <1>5, <2>4 DEF RefusedBefore
  <2>6. Entity(me)'
    BY <1>1, <1>3, <1>5, <2>1, <2>5 DEF Entity
  <2> QED BY <2>2, <2>3, <2>6 DEF ActorOK, Closing, Refusals, Settled, RefusedBefore
<1> QED BY <1>1, <1>6, <1>7, ActorStep

LEMMA OfferRowSeq == ASSUME IInv, SeqInv, NEW s \in Procs, OfferRow(s) PROVE SeqInv'
<1>1. /\ sess[s].pc = "offerRow" /\ sess[s].d \in Drivers /\ row[sess[s].d] \in Row
      /\ refused' = refused \ {sess[s].d} /\ UNCHANGED <<listing, row, now, arrivals, crashes>>
  BY SessionFacts DEF SessionOK, Driverless, OfferRow, IInv, TypeOK
<1>2. PICK entity : entity = [row[sess[s].d] EXCEPT !.status = "OFFERED", !.decidedAt = now,
                                                    !.offerExpiresAt = now + OfferTTL]
  OBVIOUS
<1>3. entity \in Row /\ entity.status = "OFFERED"
  BY <1>1, <1>2, Clock DEF Row, Statuses
<1>4. PICK after \in {"idle", "offerReread"} : after = IF sess[s].fare = NoFare THEN "idle" ELSE "offerReread"
  OBVIOUS
<1> PICK pc \in {"save", "insert"} : pc = SavePc(row[sess[s].d])
  BY DEF SavePc
<1>5. PICK me : me = [sess[s] EXCEPT !.pc = pc, !.mem = entity, !.after = after]
  OBVIOUS
<1>6. /\ me.pc \in {"save", "insert"} /\ me.d = sess[s].d /\ me.mem = entity /\ me.todo = sess[s].todo
      /\ me.after = after
  BY <1>3, <1>5, SessionFacts DEF Session
<1>7. Set(s, me)
  BY <1>2, <1>4, <1>5 DEF OfferRow, GotoSave
<1>8. ASSUME ActorOK(sess[s]) PROVE ActorOK(me)'
  <2>1. me.todo = {} /\ NoTrip
    BY <1>1, <1>6, <1>8 DEF ActorOK, Fresh, Checked, Going, Walking, Saving
  <2>2. Settled'
    BY <1>1, <1>8, SettledAt, FewerRefusals DEF Saving
  <2>3. Fresh(me)' /\ Checked(me)'
    BY <1>4, <1>6, <2>1 DEF Fresh, Checked, Going, Saving
  <2>4. Entity(me)'
    BY <1>1, <1>3, <1>4, <1>6, <2>1 DEF Entity, NoTrip
  <2> QED BY <2>2, <2>3, <2>4 DEF ActorOK, Closing, Refusals, Settled, RefusedBefore
<1>9. sess[s].pc # "idle"
  BY <1>1
<1> QED BY <1>1, <1>7, <1>8, <1>9, ActorStep

-----------------------------------------------------------------------------
(* The lists, and the load's status. *)

LEMMA LoadedFresh ==
    ASSUME NEW D
    PROVE  /\ \A t \in Loaded(D) : t.d \in D /\ t.mem = row[t.d]
           /\ \A d \in D : \E t \in Loaded(D) : t.d = d
<1>1. \A t \in Loaded(D) : t.d \in D /\ t.mem = row[t.d]
  BY DEF Loaded
<1>2. ASSUME NEW d \in D PROVE \E t \in Loaded(D) : t.d = d
  <2>1. PICK t : t = [d |-> d, mem |-> row[d]]
    OBVIOUS
  <2> QED BY <2>1 DEF Loaded
<1> QED BY <1>1, <1>2

LEMMA TakeListingSeq == ASSUME IInv, SeqInv, NEW s \in Procs, TakeListing(s) PROVE SeqInv'
<1>1. /\ sess[s].pc = "takeListing" /\ listing' = "TAKEN" /\ Goto(s, "otherPending")
      /\ UNCHANGED <<row, refused, now, arrivals, crashes>>
  BY DEF TakeListing, history
<1>2. PICK me : me = [sess[s] EXCEPT !.pc = "otherPending"]
  OBVIOUS
<1>3. me.pc = "otherPending" /\ me.d = sess[s].d /\ me.todo = sess[s].todo
  BY <1>2, SessionFacts DEF Session
<1>4. Set(s, me)
  BY <1>1, <1>2 DEF Goto
<1>5. ASSUME ActorOK(sess[s]) PROVE ActorOK(me)'
  <2>1. me.todo = {} /\ row[me.d].status = "ACCEPTED"
    BY <1>1, <1>3, <1>5 DEF ActorOK, Fresh, Checked, Going, Walking, Saving
  <2>2. Fresh(me)' /\ Checked(me)' /\ Entity(me)'
    BY <1>1, <1>3, <2>1 DEF Fresh, Checked, Entity, Going, Saving
  <2>3. Closing(me)'
    BY <1>1, <1>3, <1>5 DEF ActorOK, Closing, Removing
  <2>4. Refusals(me)'
    BY <1>1, <1>3, <1>5 DEF ActorOK, Refusals, Saving
  <2> QED BY <2>2, <2>3, <2>4 DEF ActorOK
<1> QED BY <1>1, <1>4, <1>5, ActorStep

LEMMA OtherPendingSeq == ASSUME IInv, SeqInv, NEW s \in Procs, OtherPending(s) PROVE SeqInv'
<1>1. /\ sess[s].pc = "otherPending" /\ UNCHANGED <<listing, row, refused, now, arrivals, crashes>>
      /\ sess[s].pc # "idle"
  BY DEF OtherPending, ReadsOnly, history
<1>2. PICK others : others = findOtherPending(sess[s].d)
  OBVIOUS
<1>3. ASSUME ActorOK(sess[s])
      PROVE  /\ \A e \in Drivers : row[e].status = "PENDING" => e \in others
             /\ \A d \in Drivers : row[d].status = "ACCEPTED" => listing = "TAKEN"
             /\ \A d \in Drivers : row[d].status = "DELIVERED" => listing = "TAKEN" /\ row[d].deliveredAt
             /\ RefusedBefore(now)
             /\ Refusals(sess[s])
  <2>1. row[sess[s].d].status = "ACCEPTED"
    BY <1>1, <1>3 DEF ActorOK, Checked
  <2>2. \A e \in Drivers : row[e].status = "PENDING" => e \in others
    BY <1>2, <2>1 DEF findOtherPending
  <2> QED BY <1>1, <1>3, <2>2 DEF ActorOK, Closing, Refusals, RefusedBefore, Saving
<1>4. CASE End(s) /\ others = {}
  <2>1. ASSUME ActorOK(sess[s]) PROVE ActorOK(Idle)
    <3>1. Settled
      BY <1>3, <1>4, <2>1 DEF Settled, Refusals, RefusedBefore
    <3> QED BY <3>1, SettledIdle
  <2>2. Idle.mem \in Row /\ Set(s, Idle)
    BY <1>4, IdleSession DEF Session, End
  <2> QED BY <1>1, <2>1, <2>2, PlainStep
<1>5. CASE Set(s, [sess[s] EXCEPT !.pc = "rejectOther", !.todo = Loaded(others)])
  <2>1. PICK list : list = Loaded(others)
    OBVIOUS
  <2>2. /\ \A t \in list : t.mem = row[t.d]
        /\ \A e \in others : \E t \in list : t.d = e
    BY <2>1, LoadedFresh
  <2>3. PICK me : me = [sess[s] EXCEPT !.pc = "rejectOther", !.todo = list]
    OBVIOUS
  <2>4. me.pc = "rejectOther" /\ me.todo = list /\ me.mem \in Row
    BY <2>3, SessionFacts DEF Session
  <2>5. ASSUME ActorOK(sess[s]) PROVE ActorOK(me)
    <3>1. Fresh(me) /\ Checked(me) /\ Entity(me)
      BY <2>2, <2>4 DEF Fresh, Checked, Entity, Going, Saving, Walking
    <3>2. \A e \in Drivers : row[e].status = "PENDING" => Removing(me, e)
      BY <1>3, <2>2, <2>4, <2>5 DEF Removing, Going, Saving
    <3>3. Closing(me)
      BY <1>3, <2>5, <3>2 DEF Closing
    <3>4. Refusals(me)
      BY <1>3, <2>5 DEF Refusals, RefusedBefore
    <3> QED BY <3>1, <3>3, <3>4 DEF ActorOK
  <2>6. Set(s, me)
    BY <1>5, <2>1, <2>3
  <2> QED BY <1>1, <2>4, <2>5, <2>6, PlainStep
<1> QED BY <1>2, <1>4, <1>5 DEF OtherPending

LEMMA TakenOverSeq == ASSUME IInv, SeqInv, NEW s \in Procs, TakenOver(s) PROVE SeqInv'
<1>1. sess[s].pc = "takenOver" /\ UNCHANGED <<listing, row, refused, now, arrivals, crashes>>
  BY DEF TakenOver, ReadsOnly, history
<1>2. CASE Goto(s, "hasActiveTrip")
  BY <1>1, <1>2, GotoSeq DEF Saving, Walking
<1>3. PICK back : back = IF sess[s].at = NoTime THEN {} ELSE findTakenOver(sess[s].d, sess[s].at)
  OBVIOUS
<1>4. CASE Set(s, [sess[s] EXCEPT !.pc = "restoreNext", !.todo = Loaded(back)])
  <2>1. PICK list : list = Loaded(back)
    OBVIOUS
  <2>2. \A t \in list : t.mem = row[t.d] /\ t.d \in back
    BY <2>1, LoadedFresh
  <2>3. PICK me : me = [sess[s] EXCEPT !.pc = "restoreNext", !.todo = list]
    OBVIOUS
  <2>4. me.pc = "restoreNext" /\ me.todo = list /\ me.mem \in Row
    BY <2>3, SessionFacts DEF Session
  <2>5. ASSUME ActorOK(sess[s]) PROVE Fresh(me) /\ Checked(me) /\ Entity(me)
    <3>1. NoTrip /\ RefusedBefore(sess[s].at)
      BY <1>1, <2>5 DEF ActorOK, Checked, Going, Saving
    <3>2. sess[s].at \in Nat /\ \A d \in Drivers : row[d].decidedAt \in Nat
      BY SessionFacts DEF Session, IInv, TypeOK, Row, Time
    <3>3. ASSUME NEW d \in back PROVE d \notin refused
      <4>1. d \in Drivers /\ row[d].decidedAt >= sess[s].at
        BY <1>3, <3>3 DEF findTakenOver
      <4> QED BY <3>1, <3>2, <4>1 DEF RefusedBefore
    <3> QED BY <2>2, <2>4, <3>1, <3>3 DEF Fresh, Checked, Entity, Going, Saving, Walking
  <2>6. Set(s, me)
    BY <1>4, <2>1, <2>3
  <2> QED BY <1>1, <2>4, <2>5, <2>6, SettledStep DEF Saving
<1> QED BY <1>2, <1>3, <1>4 DEF TakenOver

LEMMA ReopenSeq == ASSUME IInv, SeqInv, NEW s \in Procs, Reopen(s) PROVE SeqInv'
<1>1. sess[s].pc = "reopen" /\ Set(s, Idle) /\ UNCHANGED <<row, refused, now, arrivals, crashes>>
  BY DEF Reopen, End, history
<1>2. ASSUME ActorOK(sess[s]) PROVE ActorOK(Idle)'
  <2>1. NoTrip /\ Settled
    BY <1>1, <1>2, SettledAt DEF ActorOK, Checked, Saving
  <2>2. ActorOK(Idle)
    BY <2>1, SettledIdle
  <2>3. Closing(Idle)'
    BY <1>1, <2>1 DEF Closing, NoTrip, Started
  <2> QED BY <1>1, <2>2, <2>3 DEF ActorOK, Fresh, Checked, Entity, Refusals, NoTrip, NotRunning, RefusedBefore
<1>3. sess[s].pc # "idle"
  BY <1>1
<1> QED BY <1>1, <1>2, <1>3, ActorStep

\* The next entity of a list: what its row and the rest of the list are.
LEMMA NextOfList ==
    ASSUME IInv, NEW s \in Procs, sess[s].pc \in Walking, ActorOK(sess[s]),
           NEW t \in sess[s].todo
    PROVE  /\ t.d \in Drivers /\ t.mem \in Row /\ t.mem = row[t.d]
           /\ \A u \in sess[s].todo \ {t} : u.mem = row[u.d] /\ u.d # t.d
<1>1. sess[s].todo \subseteq [d : Drivers, mem : Row]
  BY SessionFacts DEF Session
<1>2. \A u \in sess[s].todo : u.mem = row[u.d]
  BY DEF ActorOK, Fresh
<1>3. ASSUME NEW u \in sess[s].todo, u.d = t.d PROVE u = t
  <2>1. u.mem = t.mem
    BY <1>2, <1>3
  <2>2. u \in [d : Drivers, mem : Row] /\ t \in [d : Drivers, mem : Row]
    BY <1>1
  <2> QED BY <1>3, <2>1, <2>2
<1> QED BY <1>1, <1>2, <1>3

LEMMA SaveNextFields ==
    ASSUME IInv, NEW s \in Procs, NEW t \in sess[s].todo, NEW entity \in Row, NEW loop, NEW last,
           SaveNext(s, t, entity, loop, last)
    PROVE  /\ Set(s, sess'[s]) /\ sess'[s].pc = "save" /\ sess'[s].d = t.d /\ sess'[s].mem = entity
           /\ sess'[s].todo = sess[s].todo \ {t}
           /\ sess'[s].todo = {} => sess'[s].after = last
           /\ sess'[s].todo # {} => sess'[s].after = loop
<1>1. PICK rest : rest = sess[s].todo \ {t}
  OBVIOUS
<1>2. PICK after : after = IF rest = {} THEN last ELSE loop
  OBVIOUS
<1>3. PICK me : me = [sess[s] EXCEPT !.pc = "save", !.d = t.d, !.mem = entity, !.todo = rest, !.after = after]
  OBVIOUS
<1>4. Set(s, me)
  BY <1>1, <1>2, <1>3 DEF SaveNext
<1>5. me.pc = "save" /\ me.d = t.d /\ me.mem = entity /\ me.todo = rest /\ me.after = after
  BY <1>3, SessionFacts DEF Session
<1>6. sess'[s] = me
  BY <1>4 DEF Set, IInv, TypeOK
<1> QED BY <1>1, <1>2, <1>4, <1>5, <1>6

\* Its entity saved, a handler that walks a list goes on.
LEMMA WalkFresh ==
    ASSUME IInv, NEW s \in Procs, sess[s].pc \in Walking, ActorOK(sess[s]), NEW t \in sess[s].todo,
           NEW me, me.pc = "save", me.d = t.d, me.todo = sess[s].todo \ {t},
           me.todo # {} => me.after \in Walking
    PROVE  Fresh(me)
<1>1. \A u \in me.todo : u.mem = row[u.d] /\ u.d # me.d
  BY NextOfList
<1> QED BY <1>1 DEF Fresh, Going, Saving

LEMMA RestoreNextSeq == ASSUME IInv, SeqInv, NEW s \in Procs, RestoreNext(s) PROVE SeqInv'
<1>1. sess[s].pc = "restoreNext" /\ UNCHANGED <<listing, row, refused, now, arrivals, crashes>>
  BY DEF RestoreNext, ReadsOnly, history
<1>2. PICK t \in sess[s].todo : SaveNext(s, t, [t.mem EXCEPT !.status = "PENDING", !.decidedAt = NoTime],
                                         "restoreNext", "hasActiveTrip")
  BY DEF RestoreNext
<1>3. PICK entity : entity = [t.mem EXCEPT !.status = "PENDING", !.decidedAt = NoTime]
  OBVIOUS
<1>4. entity \in Row /\ entity.status = "PENDING"
  <2>1. t.mem \in Row
    BY SessionFacts DEF Session
  <2> QED BY <1>3, <2>1, Clock DEF Row, Statuses
<1>5. PICK me : /\ Set(s, me) /\ me.pc = "save" /\ me.d = t.d /\ me.mem = entity /\ me.mem \in Row
                /\ me.todo = sess[s].todo \ {t}
                /\ me.todo = {} => me.after = "hasActiveTrip"
                /\ me.todo # {} => me.after = "restoreNext"
  <2>1. SaveNext(s, t, entity, "restoreNext", "hasActiveTrip") /\ t \in sess[s].todo
    BY <1>2, <1>3
  <2>2. PICK me : me = sess'[s]
    OBVIOUS
  <2>3. /\ Set(s, me) /\ me.pc = "save" /\ me.d = t.d /\ me.mem = entity /\ me.todo = sess[s].todo \ {t}
        /\ me.todo = {} => me.after = "hasActiveTrip"
        /\ me.todo # {} => me.after = "restoreNext"
    BY <2>1, <2>2, <1>4, SaveNextFields
  <2> QED BY <1>4, <2>3
<1>6. ASSUME ActorOK(sess[s]) PROVE Fresh(me) /\ Checked(me) /\ Entity(me)
  <2>1. NoTrip /\ \A u \in sess[s].todo : u.d \notin refused
    BY <1>1, <1>6 DEF ActorOK, Checked, Going, Saving
  <2>2. Fresh(me)
    BY <1>1, <1>5, <1>6, WalkFresh DEF Walking
  <2>3. Checked(me)
    BY <1>5, <2>1 DEF Checked, Going, Saving
  <2>4. Entity(me)
    BY <1>4, <1>5, <2>1 DEF Entity
  <2> QED BY <2>2, <2>3, <2>4
<1> QED BY <1>1, <1>5, <1>6, SettledStep DEF Saving

LEMMA ExpireNextSeq == ASSUME IInv, SeqInv, ExpireNext PROVE SeqInv'
<1> DEFINE s == "expiry"
<1> HIDE DEF s
<1>0. s \in Procs
  BY DEF s, Procs, Workers
<1>1. sess[s].pc = "expireNext" /\ UNCHANGED <<listing, row, refused, now, arrivals, crashes>>
  BY DEF s, ExpireNext, ReadsOnly, history
<1>2. PICK t \in sess[s].todo : SaveNext(s, t, Expired(t.mem), "expireNext", "idle")
  BY DEF s, ExpireNext
<1>3. PICK entity : entity = Expired(t.mem)
  OBVIOUS
<1>4. entity \in Row /\ entity.status = "EXPIRED" /\ t.mem.status = "OFFERED"
  <2>1. t.mem \in Row /\ t.mem.status = "OFFERED"
    BY <1>0, <1>1, SessionFacts DEF Session, SessionOK
  <2> QED BY <1>3, <2>1, Clock DEF Row, Statuses, Expired
<1>5. PICK me : /\ Set(s, me) /\ me.pc = "save" /\ me.d = t.d /\ me.mem = entity /\ me.mem \in Row
                /\ me.todo = sess[s].todo \ {t}
                /\ me.todo = {} => me.after = "idle"
                /\ me.todo # {} => me.after = "expireNext"
  <2>1. SaveNext(s, t, entity, "expireNext", "idle") /\ t \in sess[s].todo
    BY <1>2, <1>3
  <2>2. PICK me : me = sess'[s]
    OBVIOUS
  <2>3. /\ Set(s, me) /\ me.pc = "save" /\ me.d = t.d /\ me.mem = entity /\ me.todo = sess[s].todo \ {t}
        /\ me.todo = {} => me.after = "idle"
        /\ me.todo # {} => me.after = "expireNext"
    BY <1>0, <2>1, <2>2, <1>4, SaveNextFields
  <2> QED BY <1>4, <2>3
<1>6. ASSUME ActorOK(sess[s]) PROVE Fresh(me) /\ Checked(me) /\ Entity(me)
  <2>1. row[me.d].status = "OFFERED"
    BY <1>0, <1>1, <1>4, <1>5, <1>6, NextOfList DEF Walking
  <2>2. Fresh(me)
    BY <1>0, <1>1, <1>5, <1>6, WalkFresh DEF Walking
  <2>3. Checked(me)
    BY <1>5 DEF Checked, Going, Saving
  <2>4. Entity(me)
    BY <1>4, <1>5, <2>1 DEF Entity
  <2> QED BY <2>2, <2>3, <2>4
<1> QED BY <1>0, <1>1, <1>5, <1>6, SettledStep DEF Saving

LEMMA RemindNextSeq == ASSUME IInv, SeqInv, RemindNext PROVE SeqInv'
<1> DEFINE s == "reminder"
<1> HIDE DEF s
<1>0. s \in Procs
  BY DEF s, Procs, Workers
<1>1. sess[s].pc = "remindNext" /\ UNCHANGED <<listing, row, refused, now, arrivals, crashes>>
  BY DEF s, RemindNext, ReadsOnly, history
<1>2. PICK t \in sess[s].todo :
         SaveNext(s, t, [t.mem EXCEPT !.deliveryRemindedAt = sess[s].at], "remindNext", "idle")
  BY DEF s, RemindNext
<1>3. PICK entity : entity = [t.mem EXCEPT !.deliveryRemindedAt = sess[s].at]
  OBVIOUS
<1>4. entity \in Row /\ entity.status = t.mem.status /\ entity.decidedAt = t.mem.decidedAt
  BY <1>0, <1>3, SessionFacts DEF Session, Row
<1>5. PICK me : /\ Set(s, me) /\ me.pc = "save" /\ me.d = t.d /\ me.mem = entity /\ me.mem \in Row
                /\ me.todo = sess[s].todo \ {t}
                /\ me.todo = {} => me.after = "idle"
                /\ me.todo # {} => me.after = "remindNext"
  <2>1. SaveNext(s, t, entity, "remindNext", "idle") /\ t \in sess[s].todo
    BY <1>2, <1>3
  <2>2. PICK me : me = sess'[s]
    OBVIOUS
  <2>3. /\ Set(s, me) /\ me.pc = "save" /\ me.d = t.d /\ me.mem = entity /\ me.todo = sess[s].todo \ {t}
        /\ me.todo = {} => me.after = "idle"
        /\ me.todo # {} => me.after = "remindNext"
    BY <1>0, <2>1, <2>2, <1>4, SaveNextFields
  <2> QED BY <1>4, <2>3
<1>6. ASSUME ActorOK(sess[s]) PROVE Fresh(me) /\ Checked(me) /\ Entity(me)
  <2>1. \A u \in sess[s].todo : u.mem.status = "ACCEPTED"
    BY <1>1, <1>6 DEF ActorOK, Checked, Going, Saving
  <2>2. Fresh(me)
    BY <1>0, <1>1, <1>5, <1>6, WalkFresh DEF Walking
  <2>3. Checked(me)
    BY <1>5, <2>1 DEF Checked, Going, Saving
  <2>4. t.mem = row[me.d]
    BY <1>0, <1>1, <1>5, <1>6, NextOfList DEF Walking
  <2>5. Entity(me)
    BY <1>4, <1>5, <2>1, <2>4 DEF Entity
  <2> QED BY <2>2, <2>3, <2>5
<1> QED BY <1>0, <1>1, <1>5, <1>6, SettledStep DEF Saving

LEMMA RejectOtherSeq == ASSUME IInv, SeqInv, NEW s \in Procs, RejectOther(s) PROVE SeqInv'
<1>1. sess[s].pc = "rejectOther" /\ UNCHANGED <<listing, row, refused, now, arrivals, crashes>>
  BY DEF RejectOther, ReadsOnly, history
<1>2. PICK t \in sess[s].todo : SaveNext(s, t, [t.mem EXCEPT !.status = "REJECTED", !.decidedAt = now],
                                         "rejectOther", "idle")
  BY DEF RejectOther
<1>3. PICK entity : entity = [t.mem EXCEPT !.status = "REJECTED", !.decidedAt = now]
  OBVIOUS
<1>4. entity \in Row /\ entity.status = "REJECTED" /\ t.mem.status = "PENDING"
  <2>1. t.mem \in Row /\ t.mem.status = "PENDING"
    BY <1>1, SessionFacts DEF Session, SessionOK
  <2> QED BY <1>3, <2>1, Clock DEF Row, Statuses
<1>5. PICK me : /\ Set(s, me) /\ me.pc = "save" /\ me.d = t.d /\ me.mem = entity /\ me.mem \in Row
                /\ me.todo = sess[s].todo \ {t}
                /\ me.todo = {} => me.after = "idle"
                /\ me.todo # {} => me.after = "rejectOther"
  <2>1. SaveNext(s, t, entity, "rejectOther", "idle") /\ t \in sess[s].todo
    BY <1>2, <1>3
  <2>2. PICK me : me = sess'[s]
    OBVIOUS
  <2>3. /\ Set(s, me) /\ me.pc = "save" /\ me.d = t.d /\ me.mem = entity /\ me.todo = sess[s].todo \ {t}
        /\ me.todo = {} => me.after = "idle"
        /\ me.todo # {} => me.after = "rejectOther"
    BY <2>1, <2>2, <1>4, SaveNextFields
  <2> QED BY <1>4, <2>3
<1>6. ASSUME ActorOK(sess[s]) PROVE ActorOK(me)
  <2>1. row[me.d].status = "PENDING"
    BY <1>1, <1>4, <1>5, <1>6, NextOfList DEF Walking
  <2>2. Fresh(me)
    BY <1>1, <1>5, <1>6, WalkFresh DEF Walking
  <2>3. Checked(me)
    BY <1>5 DEF Checked, Going, Saving
  <2>4. RefusedBefore(now)
    BY <1>1, <1>6 DEF ActorOK, Refusals, RefusedBefore, Saving
  <2>5. me.d \notin refused
    BY <2>1, <2>4 DEF RefusedBefore
  <2>6. Entity(me)
    BY <1>4, <1>5, <2>1, <2>5 DEF Entity
  <2>7. ASSUME NEW e \in Drivers, Removing(sess[s], e) PROVE Removing(me, e)
    <3>1. PICK u \in sess[s].todo : u.d = e
      BY <1>1, <2>7 DEF Removing, Going, Saving
    <3>2. CASE u = t
      BY <1>4, <1>5, <3>1, <3>2 DEF Removing, Saving
    <3>3. CASE u # t
      BY <1>5, <3>1, <3>3 DEF Removing, Going, Saving
    <3> QED BY <3>2, <3>3
  <2>8. Closing(me)
    BY <1>1, <1>6, <2>7 DEF ActorOK, Closing
  <2>9. Refusals(me)
    BY <1>6, <2>4 DEF ActorOK, Refusals, RefusedBefore
  <2> QED BY <2>2, <2>3, <2>6, <2>8, <2>9 DEF ActorOK
<1>7. sess[s].pc # "idle"
  BY <1>1
<1> QED BY <1>1, <1>5, <1>6, <1>7, PlainStep

-----------------------------------------------------------------------------
(* repository.save *)

\* Nothing else ran between its two round trips, so the entity is written as it is.
LEMMA MergedSame ==
    ASSUME NEW cur \in Row, NEW mem \in Row
    PROVE  Merged(cur, mem, cur) = mem
BY DEF Merged, Row

LEMMA WrittenAsIs ==
    ASSUME IInv, NEW s \in Procs, sess[s].pc \in {"insert", "write"}, ActorOK(sess[s])
    PROVE  Written(s) = sess[s].mem /\ sess[s].d \in Drivers /\ sess[s].mem \in Row /\ row[sess[s].d] \in Row
<1>1. sess[s].d \in Drivers /\ sess[s].mem \in Row /\ row[sess[s].d] \in Row
  BY SessionFacts DEF SessionOK, Session, Driverless, IInv, TypeOK
<1>2. CASE sess[s].pc = "insert"
  BY <1>1, <1>2 DEF Written
<1>3. CASE sess[s].pc = "write"
  <2>1. sess[s].snap = row[sess[s].d]
    BY <1>3 DEF ActorOK, Fresh
  <2>2. Written(s) = Merged(row[sess[s].d], sess[s].mem, row[sess[s].d])
    BY <1>3, <2>1 DEF Written
  <2> QED BY <1>1, <2>2, MergedSame
<1> QED BY <1>1, <1>2, <1>3

\* Saving an entity that is not a refusal, after which nothing more has to be turned down,
\* leaves nothing undone if it fails.
LEMMA SaveRefusedSeq == ASSUME IInv, SeqInv, NEW s \in Procs, SaveRefused(s) PROVE SeqInv'
<1>1. /\ sess[s].pc \in {"insert", "write"} /\ ~WriteAllowed(s) /\ sess[s].pc # "idle"
      /\ UNCHANGED <<listing, row, refused, now, arrivals, crashes>>
  BY DEF SaveRefused, ReadsOnly, history
<1>2. ASSUME ActorOK(sess[s]) PROVE Settled
  <2>1. Written(s) = sess[s].mem
    BY <1>1, <1>2, WrittenAsIs
  <2>2. sess[s].pc = "insert" \/ sess[s].mem.status \in Started
    BY <1>1, <2>1 DEF WriteAllowed, TripIndexAllows
  <2>3. sess[s].mem.status # "REJECTED" /\ sess[s].after # "rejectOther"
    BY <1>1, <1>2, <2>2 DEF ActorOK, Entity, Saving, Started
  <2> QED BY <1>1, <1>2, <2>3 DEF ActorOK, Closing, Removing, Refusals, Settled, RefusedBefore, Going, Saving
<1>3. CASE Set(s, Idle)
  <2>1. ActorOK(sess[s]) => ActorOK(Idle)
    BY <1>2, SettledIdle
  <2>2. Idle.mem \in Row
    BY IdleSession DEF Session
  <2> QED BY <1>1, <1>3, <2>1, <2>2, PlainStep
<1>4. CASE Goto(s, "refund") /\ sess[s].after = "charged"
  <2>1. PICK me : me = [sess[s] EXCEPT !.pc = "refund"]
    OBVIOUS
  <2>2. me.pc = "refund" /\ me.todo = sess[s].todo /\ me.mem \in Row
    BY <2>1, SessionFacts DEF Session
  <2>3. ASSUME ActorOK(sess[s]) PROVE ActorOK(me)
    <3>1. me.todo = {}
      BY <1>1, <1>4, <2>2, <2>3 DEF ActorOK, Fresh, Going, Walking, Saving
    <3>2. Fresh(me) /\ Checked(me) /\ Entity(me)
      BY <2>2, <3>1 DEF Fresh, Checked, Entity, Going, Saving
    <3> QED BY <1>2, <2>3, <3>2, SettledActor
  <2>4. Set(s, me)
    BY <1>4, <2>1 DEF Goto
  <2> QED BY <1>1, <2>2, <2>3, <2>4, PlainStep
<1> QED BY <1>3, <1>4 DEF SaveRefused, End

\* The rows after a save.
LEMMA SavedRows ==
    ASSUME IInv, NEW s \in Procs, SaveWrite(s), ActorOK(sess[s])
    PROVE  /\ sess[s].d \in Drivers /\ sess[s].mem \in Row
           /\ row'[sess[s].d] = sess[s].mem
           /\ \A e \in Drivers \ {sess[s].d} : row'[e] = row[e]
           /\ sess[s].mem.status \in Started => \A e \in Drivers \ {sess[s].d} : row[e].status \notin Started
<1>1. sess[s].pc \in {"insert", "write"} /\ row' = [row EXCEPT ![sess[s].d] = Written(s)] /\ WriteAllowed(s)
  BY DEF SaveWrite
<1>2. Written(s) = sess[s].mem /\ sess[s].d \in Drivers /\ sess[s].mem \in Row
  BY <1>1, WrittenAsIs
<1>3. row \in [Drivers -> Row]
  BY DEF IInv, TypeOK
<1> QED BY <1>1, <1>2, <1>3 DEF WriteAllowed, TripIndexAllows

\* The company's refusals after a save, and the load if the entity saved is not ACCEPTED by it.
LEMMA SavedRefusals ==
    ASSUME IInv, NEW s \in Procs, SaveWrite(s), ActorOK(sess[s])
    PROVE  /\ RefusedBefore(now)'
           /\ \A d \in refused, e \in Drivers : row'[e].status = "ACCEPTED" => row'[d].decidedAt < row'[e].decidedAt
<1> PICK me : me = sess[s]
  OBVIOUS
<1>1. /\ me.d \in Drivers /\ me.mem \in Row /\ row'[me.d] = me.mem /\ me.pc \in Saving
      /\ \A e \in Drivers \ {me.d} : row'[e] = row[e]
      /\ refused' = refused /\ now' = now /\ refused \subseteq Drivers
  BY SavedRows DEF SaveWrite, IInv, TypeOK, Saving
<1>2. Entity(me) /\ Refusals(me)
  BY DEF ActorOK
<1>3. me.mem.status \in Statuses
  BY <1>1, <1>2 DEF Entity, Row
<1>4. me.d \in refused => me.mem.status = "REJECTED" /\ me.mem.decidedAt < now /\ NotRunning
  BY <1>1, <1>2, <1>3 DEF Entity, Refusals, Statuses, RefusedBefore
<1>5. \A d \in refused : d # me.d => row[d].status = "REJECTED" /\ row[d].decidedAt < now
  BY <1>2 DEF Refusals
<1>6. RefusedBefore(now)'
  BY <1>1, <1>4, <1>5 DEF RefusedBefore
<1>7. ASSUME NEW d \in refused, NEW e \in Drivers, row'[e].status = "ACCEPTED"
      PROVE  row'[d].decidedAt < row'[e].decidedAt
  <2>1. CASE d = me.d
    BY <1>1, <1>4, <1>7, <2>1 DEF NotRunning
  <2>2. CASE d # me.d /\ e # me.d
    BY <1>1, <1>2, <1>5, <1>7, <2>2 DEF Refusals
  <2>3. CASE d # me.d /\ e = me.d
    BY <1>1, <1>2, <1>5, <1>7, <2>3 DEF Entity, Refusals, RefusedBefore
  <2> QED BY <2>1, <2>2, <2>3
<1> QED BY <1>6, <1>7

\* The load after a save.
LEMMA SavedLoad ==
    ASSUME IInv, NEW s \in Procs, SaveWrite(s), ActorOK(sess[s])
    PROVE  /\ \A d \in Drivers : row'[d].status = "ACCEPTED" =>
                /\ listing = "TAKEN" \/ sess[s].after = "takeListing"
                /\ \A e \in Drivers : row'[e].status = "PENDING" =>
                     \/ sess[s].after = "takeListing"
                     \/ sess[s].after = "rejectOther" /\ \E t \in sess[s].todo : t.d = e
           /\ \A d \in Drivers : row'[d].status = "DELIVERED" => listing = "TAKEN" /\ row'[d].deliveredAt
<1> PICK me : me = sess[s]
  OBVIOUS
<1>1. /\ me.d \in Drivers /\ me.mem \in Row /\ row'[me.d] = me.mem /\ me.pc \in Saving
      /\ me.pc \notin {"takeListing", "otherPending"}
      /\ \A e \in Drivers \ {me.d} : row'[e] = row[e]
      /\ me.mem.status \in Started => \A e \in Drivers \ {me.d} : row[e].status \notin Started
  BY SavedRows DEF SaveWrite, Saving
<1>2. Entity(me) /\ Closing(me)
  BY DEF ActorOK
<1>3. ASSUME NEW d \in Drivers, row'[d].status = "DELIVERED" PROVE listing = "TAKEN" /\ row'[d].deliveredAt
  <2>1. CASE d = me.d
    BY <1>1, <1>2, <1>3, <2>1 DEF Entity, Closing
  <2>2. CASE d # me.d
    BY <1>1, <1>2, <1>3, <2>2 DEF Closing
  <2> QED BY <2>1, <2>2
<1>4. ASSUME NEW d \in Drivers, row'[d].status = "ACCEPTED", me.after # "takeListing"
      PROVE  /\ listing = "TAKEN"
             /\ \A e \in Drivers : row'[e].status = "PENDING" =>
                  me.after = "rejectOther" /\ \E t \in me.todo : t.d = e
  <2>1. row[d].status = "ACCEPTED"
    BY <1>1, <1>2, <1>4 DEF Entity
  <2>2. listing = "TAKEN"
    BY <1>1, <1>2, <2>1 DEF Closing
  <2>3. ASSUME NEW e \in Drivers, row'[e].status = "PENDING"
        PROVE  me.after = "rejectOther" /\ \E t \in me.todo : t.d = e
    <3>1. CASE e = me.d
      BY <1>1, <1>2, <2>1, <2>3, <3>1 DEF Entity, NoTrip, Started
    <3>2. CASE e # me.d
      <4>1. Removing(me, e)
        BY <1>1, <1>2, <2>1, <2>3, <3>2 DEF Closing
      <4> QED BY <1>1, <3>2, <4>1 DEF Removing, Going
    <3> QED BY <3>1, <3>2
  <2> QED BY <2>2, <2>3
<1> QED BY <1>3, <1>4

\* No trip after these saves.
LEMMA SavedNoTrip ==
    ASSUME IInv, NEW s \in Procs, SaveWrite(s), ActorOK(sess[s]),
           sess[s].mem.status \in {"PENDING", "OFFERED", "TRIP_CANCELLED"}
    PROVE  NoTrip'
<1> PICK me : me = sess[s]
  OBVIOUS
<1>1. /\ me.d \in Drivers /\ row'[me.d] = me.mem /\ me.pc \in Saving
      /\ \A e \in Drivers \ {me.d} : row'[e] = row[e]
  BY SavedRows DEF SaveWrite, Saving
<1>2. Entity(me)
  BY DEF ActorOK
<1>3. \A e \in Drivers \ {me.d} : row[e].status \notin Started
  BY <1>1, <1>2 DEF Entity, NoTrip, IInv, OneTripPerLoad, Started
<1> QED BY <1>1, <1>3 DEF NoTrip, Started

LEMMA SaveWriteSeq == ASSUME IInv, SeqInv, NEW s \in Procs, SaveWrite(s) PROVE SeqInv'
<1> PICK old : old = sess[s]
  OBVIOUS
<1>1. /\ old.pc \in Saving /\ old.pc # "idle" /\ old.after \in AfterSave
      /\ UNCHANGED <<listing, refused, now, arrivals, crashes>>
  BY SessionFacts DEF SaveWrite, Saving, SessionOK
<1>2. PICK me : /\ Set(s, me)
                /\ \/ me = Idle /\ old.after \in {"idle", "charged"}
                   \/ me = [old EXCEPT !.pc = old.after] /\ old.after \notin {"idle", "charged"}
  BY DEF SaveWrite, End, Goto
<1>3. /\ \/ me.pc = "idle" /\ me.todo = {} /\ me = Idle /\ old.after \in {"idle", "charged"}
         \/ me.pc = old.after /\ me.todo = old.todo /\ old.after \notin {"idle", "charged"}
            /\ me.d = old.d /\ me.at = old.at
  BY <1>2, SessionFacts, IdleFields DEF Session
<1>4. me.pc \in (AfterSave \ {"charged"}) /\ me.pc \notin Saving /\ Going(me) = me.pc
  BY <1>1, <1>3 DEF AfterSave, Going, Saving
<1>5. ASSUME ActorOK(sess[s]) PROVE ActorOK(me)'
  <2>0. Fresh(old) /\ Checked(old) /\ Entity(old) /\ Going(old) = old.after
    BY <1>1, <1>5 DEF ActorOK, Going
  <2>1. /\ old.d \in Drivers /\ row'[old.d] = old.mem
        /\ \A e \in Drivers \ {old.d} : row'[e] = row[e]
    BY <1>5, SavedRows
  <2>2. \A t \in me.todo : t \in old.todo /\ t.d \in Drivers /\ t.d # old.d /\ t.mem = row[t.d]
    BY <1>1, <1>3, <2>0, SessionFacts DEF Fresh, Session
  <2>3. Fresh(me)'
    <3>1. \A t \in me.todo : t.mem = row'[t.d]
      BY <2>1, <2>2
    <3>2. me.pc \notin Walking => me.todo = {}
      BY <1>3, <2>0 DEF Fresh
    <3> QED BY <1>3, <1>4, <3>1, <3>2 DEF Fresh, AfterSave
  <2>4. me.pc \in {"takenOver", "restoreNext"} => NoTrip'
    BY <1>1, <1>3, <1>5, <2>0, SavedNoTrip DEF Entity
  <2>5. me.pc = "takeListing" => row'[me.d].status = "ACCEPTED"
    BY <1>1, <1>3, <2>0, <2>1 DEF Entity
  <2>6. me.pc = "takenOver" => RefusedBefore(me.at)'
    <3>1. ASSUME me.pc = "takenOver" PROVE RefusedBefore(me.at)'
      <4>1. RefusedBefore(old.at) /\ row[old.d].status = "ACCEPTED" /\ me.at = old.at
        BY <1>1, <1>3, <2>0, <3>1 DEF Entity, Checked
      <4>2. old.d \notin refused /\ refused \subseteq Drivers
        BY <4>1 DEF RefusedBefore, IInv, TypeOK
      <4> QED BY <1>1, <2>1, <4>1, <4>2 DEF RefusedBefore
    <3> QED BY <3>1
  <2>7. me.pc = "restoreNext" => \A t \in me.todo : t.d \notin refused
    BY <1>3, <2>0, <2>2 DEF Checked
  <2>8. me.pc = "remindNext" => \A t \in me.todo : t.mem.status = "ACCEPTED"
    BY <1>3, <2>0, <2>2 DEF Checked
  <2>9. Checked(me)'
    BY <1>1, <1>4, <2>4, <2>5, <2>6, <2>7, <2>8 DEF Checked, AfterSave
  <2>10. Entity(me)'
    BY <1>4 DEF Entity
  <2>11. Closing(me)'
    <3>1. /\ \A d \in Drivers : row'[d].status = "ACCEPTED" =>
               /\ listing = "TAKEN" \/ old.after = "takeListing"
               /\ \A e \in Drivers : row'[e].status = "PENDING" =>
                    \/ old.after = "takeListing"
                    \/ old.after = "rejectOther" /\ \E t \in old.todo : t.d = e
          /\ \A d \in Drivers : row'[d].status = "DELIVERED" => listing = "TAKEN" /\ row'[d].deliveredAt
      BY <1>5, SavedLoad
    <3>2. old.after \in {"takeListing", "rejectOther"} => me.pc = old.after /\ me.todo = old.todo
      BY <1>3
    <3>3. ASSUME NEW e \in Drivers,
                 \/ old.after = "takeListing"
                 \/ old.after = "rejectOther" /\ \E t \in old.todo : t.d = e
          PROVE  Removing(me, e)
      BY <1>4, <3>2, <3>3 DEF Removing
    <3>4. ASSUME NEW e \in Drivers, Removing(me, e) PROVE Removing(me, e)'
      BY <3>4 DEF Removing, Going
    <3> QED BY <1>1, <3>1, <3>2, <3>3, <3>4 DEF Closing
  <2>12. Refusals(me)'
    <3>1. /\ RefusedBefore(now)'
          /\ \A d \in refused, e \in Drivers : row'[e].status = "ACCEPTED" => row'[d].decidedAt < row'[e].decidedAt
      BY <1>5, SavedRefusals
    <3> QED BY <1>1, <3>1 DEF Refusals, RefusedBefore
  <2> QED BY <2>3, <2>9, <2>10, <2>11, <2>12 DEF ActorOK
<1> QED BY <1>1, <1>2, <1>5, ActorStep

-----------------------------------------------------------------------------
(* The calls and the sweeps. *)

LEMMA PlainCall ==
    ASSUME IInv, SeqInv, NEW s \in Procs, MayCome, NEW me, me.mem \in Row, Set(s, me), now' \in {now, now + 1},
           UNCHANGED <<listing, row, refused, arrivals, crashes>>,
           Settled => Fresh(me) /\ Checked(me) /\ Entity(me)
    PROVE  SeqInv'
<1>1. Settled => ActorOK(me)
  BY SettledActor
<1>2. Settled => ActorOK(me)'
  BY <1>1, KnowledgeStays
<1> QED BY <1>2, ActorCall

LEMMA CallMay ==
    ASSUME NEW s, NEW op, Call(s, op)
    PROVE  MayCome /\ now' = now + 1 /\ now' \in {now, now + 1}
BY DEF Call

LEMMA OpenNoTrip == ASSUME IInv, Settled, listing = "OPEN" PROVE NoTrip
BY DEF Settled, NoTrip, Started

LEMMA BeginSeq ==
    ASSUME IInv, SeqInv, NEW s \in Procs, NEW op, Call(s, op), NEW d \in Drivers,
           NEW pc \in {"requestRow", "acceptOffer", "offerCheck", "deliverFare"}, NEW r \in Row, NEW f,
           Begin(s, d, pc, r, f), CallOnly,
           pc \in {"requestRow", "offerCheck"} => listing = "OPEN",
           pc \in {"acceptOffer", "deliverFare"} => r = row[d]
    PROVE  SeqInv'
<1>1. PICK me : me = [Idle EXCEPT !.pc = pc, !.d = d, !.mem = r, !.fare = f]
  OBVIOUS
<1>2. me.pc = pc /\ me.d = d /\ me.mem = r /\ me.todo = {}
  BY <1>1 DEF Idle
<1>3. Set(s, me)
  BY <1>1 DEF Begin
<1>4. ASSUME Settled PROVE Fresh(me) /\ Checked(me) /\ Entity(me)
  <2>1. pc \in {"requestRow", "offerCheck"} => NoTrip
    BY <1>4, OpenNoTrip
  <2> QED BY <1>2, <2>1 DEF Fresh, Checked, Entity, Going, Saving
<1>5. UNCHANGED <<listing, row, refused, arrivals, crashes>>
  BY DEF CallOnly, history
<1> QED BY <1>2, <1>3, <1>4, <1>5, PlainCall, CallMay

LEMMA CallSaveSeq ==
    ASSUME IInv, SeqInv, NEW s \in Procs, NEW op, Call(s, op), NEW d \in Drivers, NEW entity \in Row,
           NEW after \in {"idle", "takeListing"}, BeginSave(s, d, entity, after),
           UNCHANGED <<listing, row, refused, arrivals, crashes>>,
           entity.status \in {"CANCELLED", "DECLINED", "EXPIRED", "ACCEPTED"},
           entity.status = "CANCELLED" => row[d].status = "PENDING",
           entity.status \in {"DECLINED", "EXPIRED"} => row[d].status = "OFFERED",
           after = "takeListing" => row[d].status = "OFFERED" /\ entity.status = "ACCEPTED" /\ entity.decidedAt = now,
           entity.status = "ACCEPTED" /\ after = "idle" => row[d].status = "ACCEPTED" /\ entity.decidedAt = row[d].decidedAt
    PROVE  SeqInv'
<1>1. PICK me : me = [Idle EXCEPT !.pc = "save", !.d = d, !.mem = entity, !.after = after]
  OBVIOUS
<1>2. me.pc = "save" /\ me.d = d /\ me.mem = entity /\ me.todo = {} /\ me.after = after
  BY <1>1 DEF Idle
<1>3. Set(s, me)
  BY <1>1 DEF BeginSave
<1>4. ASSUME Settled PROVE Fresh(me) /\ Checked(me) /\ Entity(me)
  <2>1. RefusedBefore(now)
    BY <1>4 DEF Settled
  <2>2. after = "takeListing" => RefusedBefore(me.mem.decidedAt)
    BY <1>2, <2>1
  <2>3. Entity(me)
    BY <1>2, <2>2 DEF Entity
  <2> QED BY <1>2, <2>3, SavingKnows
<1> QED BY <1>2, <1>3, <1>4, PlainCall, CallMay

LEMMA CancelTripSeq == ASSUME IInv, SeqInv, NEW s \in Procs, NEW d \in Drivers, CancelTrip(s, d) PROVE SeqInv'
<1>1. /\ row[d].status = "ACCEPTED" /\ Call(s, "cancelTrip") /\ row[d] \in Row
      /\ UNCHANGED <<listing, row, refused, arrivals, crashes>>
  BY DEF CancelTrip, CallOnly, history, IInv, TypeOK
<1>2. PICK entity : entity = [row[d] EXCEPT !.status = "TRIP_CANCELLED", !.deliveryReportedAt = FALSE, !.decidedAt = now]
  OBVIOUS
<1>3. entity \in Row /\ entity.status = "TRIP_CANCELLED"
  BY <1>1, <1>2, Clock DEF Row, Statuses
<1>4. PICK me : me = [Idle EXCEPT !.pc = "save", !.d = d, !.after = "takenOver", !.at = row[d].decidedAt, !.mem = entity]
  OBVIOUS
<1>5. /\ me.pc = "save" /\ me.d = d /\ me.mem = entity /\ me.todo = {} /\ me.after = "takenOver"
      /\ me.at = row[d].decidedAt
  BY <1>4 DEF Idle
<1>6. Set(s, me)
  BY <1>2, <1>4 DEF CancelTrip
<1>7. ASSUME Settled PROVE Fresh(me) /\ Checked(me) /\ Entity(me)
  <2>1. RefusedBefore(me.at)
    BY <1>1, <1>5, <1>7 DEF Settled, RefusedBefore
  <2> QED BY <1>1, <1>3, <1>5, <2>1 DEF Fresh, Checked, Entity, Going, Saving
<1> QED BY <1>1, <1>3, <1>5, <1>6, <1>7, PlainCall, CallMay

LEMMA RejectSeq == ASSUME IInv, SeqInv, NEW s \in Procs, NEW d \in Drivers, Reject(s, d) PROVE SeqInv'
<1>1. /\ row[d].status = "PENDING" /\ Call(s, "reject") /\ row[d] \in Row
      /\ refused' = refused \cup {d} /\ UNCHANGED <<listing, row, arrivals, crashes>>
      /\ refused \subseteq Drivers
  BY DEF Reject, IInv, TypeOK
<1>2. PICK entity : entity = [row[d] EXCEPT !.status = "REJECTED", !.decidedAt = now]
  OBVIOUS
<1>3. entity \in Row /\ entity.status = "REJECTED" /\ entity.decidedAt = now
  BY <1>1, <1>2, Clock DEF Row, Statuses
<1>4. PICK me : me = [Idle EXCEPT !.pc = "save", !.d = d, !.mem = entity, !.after = "idle"]
  OBVIOUS
<1>5. me.pc = "save" /\ me.d = d /\ me.mem = entity /\ me.todo = {} /\ me.after = "idle"
  BY <1>4 DEF Idle
<1>6. Set(s, me)
  BY <1>2, <1>4 DEF Reject, BeginSave
<1>7. ASSUME Settled PROVE ActorOK(me)'
  <2>1. NotRunning'
    BY <1>1, <1>7 DEF Settled, NotRunning
  <2>2. Fresh(me)' /\ Checked(me)'
    BY <1>5 DEF Fresh, Checked, Going, Saving
  <2>3. Entity(me)'
    BY <1>1, <1>3, <1>5, <2>1 DEF Entity
  <2>4. Closing(me)'
    BY <1>1, <1>7, <2>1 DEF Settled, Closing, NotRunning
  <2>5. now \in Nat /\ now' = now + 1 /\ \A e \in Drivers : row[e].decidedAt \in Nat
    BY <1>1, CallMay DEF IInv, TypeOK, Row, Time
  <2>6. \A e \in refused' : \/ row'[e].status = "REJECTED" /\ row'[e].decidedAt < now'
                            \/ e = d
    BY <1>1, <1>7, <2>5 DEF Settled, RefusedBefore
  <2>7. me.mem.decidedAt < now'
    BY <1>3, <1>5, <2>5
  <2>8. Refusals(me)'
    BY <1>1, <1>3, <1>5, <2>1, <2>6, <2>7 DEF Refusals, Saving, NotRunning
  <2> QED BY <2>2, <2>3, <2>4, <2>8 DEF ActorOK
<1>8. MayCome
  BY <1>1, CallMay
<1> QED BY <1>1, <1>6, <1>7, <1>8, ActorCall

LEMMA RespondOfferSeq ==
    ASSUME IInv, SeqInv, NEW s \in Procs, NEW d \in Drivers, NEW accept \in BOOLEAN, RespondOffer(s, d, accept)
    PROVE  SeqInv'
<1>1. /\ row[d].status = "OFFERED" /\ Call(s, "respond") /\ row[d] \in Row
      /\ UNCHANGED <<listing, row, refused, arrivals, crashes>>
  BY DEF RespondOffer, IInv, TypeOK
<1>2. CASE row[d].offerExpiresAt < now
  <2>1. PICK entity : entity = Expired(row[d])
    OBVIOUS
  <2>2. entity \in Row /\ entity.status = "EXPIRED"
    BY <1>1, <2>1, Clock DEF Expired, Row, Statuses
  <2>3. BeginSave(s, d, entity, "idle")
    BY <1>2, <2>1 DEF RespondOffer
  <2> QED BY <1>1, <2>2, <2>3, CallSaveSeq
<1>3. CASE ~(row[d].offerExpiresAt < now)
  <2>1. PICK st \in {"ACCEPTED", "DECLINED"} : st = IF accept THEN "ACCEPTED" ELSE "DECLINED"
    OBVIOUS
  <2>2. PICK after \in {"idle", "takeListing"} : after = IF accept THEN "takeListing" ELSE "idle"
    OBVIOUS
  <2>3. PICK entity : entity = [row[d] EXCEPT !.status = st, !.decidedAt = now, !.offerExpiresAt = NoTime]
    OBVIOUS
  <2>4. entity \in Row /\ entity.status = st /\ entity.decidedAt = now
    BY <1>1, <2>1, <2>3, Clock DEF Row, Statuses
  <2>5. BeginSave(s, d, entity, after)
    BY <1>3, <2>1, <2>2, <2>3 DEF RespondOffer
  <2>6. st = "ACCEPTED" <=> after = "takeListing"
    BY <2>1, <2>2
  <2> QED BY <1>1, <2>1, <2>2, <2>4, <2>5, <2>6, CallSaveSeq
<1> QED BY <1>2, <1>3

LEMMA PlainSaveSeq ==
    ASSUME IInv, SeqInv, NEW s \in Procs, NEW d \in Drivers,
           Cancel(s, d) \/ ReportDelivery(s, d) \/ RejectDeliveryReport(s, d)
    PROVE  SeqInv'
<1>1. row[d] \in Row
  BY DEF IInv, TypeOK
<1>2. CASE Cancel(s, d)
  <2>1. PICK entity : entity = [row[d] EXCEPT !.status = "CANCELLED"]
    OBVIOUS
  <2>2. entity \in Row /\ entity.status = "CANCELLED"
    BY <1>1, <2>1 DEF Row, Statuses
  <2>3. /\ Call(s, "cancel") /\ row[d].status = "PENDING" /\ BeginSave(s, d, entity, "idle")
        /\ UNCHANGED <<listing, row, refused, arrivals, crashes>>
    BY <1>2, <2>1 DEF Cancel, CallOnly, history
  <2> QED BY <2>2, <2>3, CallSaveSeq
<1>3. ASSUME NEW reported \in BOOLEAN, NEW op, Call(s, op), row[d].status = "ACCEPTED",
             BeginSave(s, d, [row[d] EXCEPT !.deliveryReportedAt = reported], "idle"), CallOnly
      PROVE  SeqInv'
  <2>1. PICK entity : entity = [row[d] EXCEPT !.deliveryReportedAt = reported]
    OBVIOUS
  <2>2. entity \in Row /\ entity.status = "ACCEPTED" /\ entity.decidedAt = row[d].decidedAt
    BY <1>1, <1>3, <2>1 DEF Row
  <2>3. BeginSave(s, d, entity, "idle") /\ UNCHANGED <<listing, row, refused, arrivals, crashes>>
    BY <1>3, <2>1 DEF CallOnly, history
  <2> QED BY <1>3, <2>2, <2>3, CallSaveSeq
<1> QED BY <1>2, <1>3 DEF ReportDelivery, RejectDeliveryReport

LEMMA CallOnSeq == ASSUME IInv, SeqInv, NEW s \in Sessions, NEW d \in Drivers, CallOn(s, d) PROVE SeqInv'
<1>0. s \in Procs /\ row[d] \in Row /\ NewRow \in Row
  BY Clock DEF Procs, IInv, TypeOK, NewRow, Row
<1>1. CASE Request(s, d)
  BY <1>0, <1>1, BeginSeq DEF Request
<1>2. ASSUME NEW f \in Fares \cup {NoFare}, Offer(s, d, f) PROVE SeqInv'
  BY <1>0, <1>2, BeginSeq DEF Offer
<1>3. ASSUME NEW f \in Fares, Accept(s, d, f) PROVE SeqInv'
  BY <1>0, <1>3, BeginSeq DEF Accept
<1>4. ASSUME NEW f \in Fares, Deliver(s, d, f) PROVE SeqInv'
  BY <1>0, <1>4, BeginSeq DEF Deliver
<1> QED BY <1>0, <1>1, <1>2, <1>3, <1>4, PlainSaveSeq, RejectSeq, RespondOfferSeq, CancelTripSeq DEF CallOn

LEMMA SweepSeq ==
    ASSUME IInv, SeqInv, NEW w \in Procs, NEW due, NEW pc \in {"expireNext", "remindNext"}, Sweep(w, due, pc),
           pc = "remindNext" => \A d \in due : row[d].status = "ACCEPTED"
    PROVE  SeqInv'
<1>1. PICK list : list = Loaded(due)
  OBVIOUS
<1>2. \A t \in list : t.d \in due /\ t.mem = row[t.d]
  BY <1>1, LoadedFresh
<1>3. PICK me : me = [Idle EXCEPT !.pc = pc, !.todo = list, !.at = now]
  OBVIOUS
<1>4. me.pc = pc /\ me.todo = list /\ me.mem = NewRow
  BY <1>3 DEF Idle
<1>5. me.mem \in Row
  BY <1>4, Clock DEF NewRow, Row
<1>6. Set(w, me) /\ MayCome /\ now' \in {now, now + 1} /\ UNCHANGED <<listing, row, refused, arrivals, crashes>>
  BY <1>1, <1>3 DEF Sweep, ReadsOnly, history
<1>7. Fresh(me) /\ Checked(me) /\ Entity(me)
  BY <1>2, <1>4 DEF Fresh, Checked, Entity, Going, Saving, Walking
<1> QED BY <1>5, <1>6, <1>7, PlainCall

LEMMA SetOpenSeq == ASSUME IInv, SeqInv, NEW s \in Procs, SetOpen(s) PROVE SeqInv'
<1>1. PICK me : me = [sess[s] EXCEPT !.pc = "hasActiveTrip"]
  OBVIOUS
<1>2. me.pc = "hasActiveTrip" /\ me.todo = sess[s].todo /\ me.mem \in Row
  BY <1>1, SessionFacts DEF Session
<1>3. /\ Set(s, me) /\ MayCome /\ now' \in {now, now + 1}
      /\ UNCHANGED <<listing, row, refused, arrivals, crashes>>
  BY <1>1, CallMay DEF SetOpen, Goto, CallOnly, history
<1>4. ASSUME Settled, sess[s] = Idle PROVE ActorOK(me)'
  <2>1. me.todo = {}
    BY <1>2, <1>4, IdleFields
  <2>2. ActorOK(me)
    BY <1>2, <1>4, <2>1, SettledActor DEF Fresh, Checked, Entity, Going, Saving
  <2> QED BY <1>2, <1>3, <2>2, KnowledgeStays
<1> QED BY <1>3, <1>4, ActorCall

LEMMA SetTakenSeq == ASSUME IInv, SeqInv, NEW s \in Procs, SetTaken(s) PROVE SeqInv'
<1>1. /\ listing' = "TAKEN" /\ now' = now + 1 /\ MayCome /\ UNCHANGED <<row, refused, sess, arrivals, crashes>>
  BY CallMay DEF SetTaken, history
<1> SUFFICES ASSUME Undisturbed' PROVE \E r \in Procs : ActorOK(sess[r])' /\ \A p \in Procs \ {r} : sess'[p] = Idle
  BY DEF SeqInv
<1>2. Settled /\ \A p \in Procs : sess[p] = Idle
  BY <1>1, QuietSettled DEF MayCome, Undisturbed, Apart
<1>3. now \in Nat /\ \A d \in Drivers : row[d].decidedAt \in Nat
  BY DEF IInv, TypeOK, Row, Time
<1>4. refused \subseteq Drivers
  BY DEF IInv, TypeOK
<1>5. RefusedBefore(now)'
  BY <1>1, <1>2, <1>3, <1>4 DEF Settled, RefusedBefore
<1>6. Settled'
  BY <1>1, <1>2, <1>5 DEF Settled
<1>7. ActorOK(Idle)
  BY <1>2, SettledIdle
<1>8. Fresh(Idle)' /\ Checked(Idle)' /\ Entity(Idle)'
  BY <1>1, <1>7 DEF ActorOK, Fresh, Checked, Entity, NoTrip, NotRunning, RefusedBefore, Going
<1>9. ActorOK(Idle)'
  BY <1>6, <1>8 DEF ActorOK, Closing, Refusals, Settled, RefusedBefore
<1>10. sess'[s] = Idle
  BY <1>1, <1>2
<1>11. ActorOK(sess[s])'
  BY <1>9, <1>10 DEF ActorOK, Fresh, Checked, Entity, Closing, Removing, Refusals, Going
<1> QED BY <1>1, <1>2, <1>11

\* Time passes, or nothing happens, also while a handler is under way.
LEMMA TimeSeq ==
    ASSUME IInv, SeqInv, UNCHANGED <<listing, row, refused, sess, arrivals, crashes>>, now' \in {now, now + 1}
    PROVE  SeqInv'
<1> SUFFICES ASSUME Undisturbed' PROVE \E r \in Procs : ActorOK(sess[r])' /\ \A p \in Procs \ {r} : sess'[p] = Idle
  BY DEF SeqInv
<1>1. PICK s \in Procs : ActorOK(sess[s]) /\ \A p \in Procs \ {s} : sess[p] = Idle
  BY DEF SeqInv, Undisturbed, Apart
<1>2. PICK me : me = sess[s]
  OBVIOUS
<1>3. me.mem \in Row /\ ActorOK(me)
  BY <1>1, <1>2, SessionFacts DEF Session
<1>4. ActorOK(me)'
  BY <1>3, KnowledgeStays
<1>5. sess'[s] = me
  BY <1>2
<1>6. ActorOK(sess[s])'
  BY <1>4, <1>5 DEF ActorOK, Fresh, Checked, Entity, Closing, Removing, Refusals, Going
<1> QED BY <1>1, <1>6

\* After a restart nothing is promised.
LEMMA CrashSeq == ASSUME IInv, Crash PROVE SeqInv'
BY DEF IInv, TypeOK, Crash, SeqInv, Undisturbed

LEMMA InitSeq == ASSUME Init PROVE SeqInv
<1>1. Settled
  BY DEF Init, Settled, RefusedBefore, NewRow
<1>2. \A p \in Procs : sess[p] = Idle
  BY DEF Init
<1>3. "expiry" \in Procs
  BY DEF Procs, Workers
<1> QED BY <1>1, <1>2, <1>3, SettledIdle DEF SeqInv

LEMMA StepSeq == ASSUME IInv, SeqInv, NEW s \in Sessions, Step(s) PROVE SeqInv'
<1>1. s \in Procs
  BY DEF Procs
<1> QED BY <1>1, SaveSelectSeq, SaveWriteSeq, SaveRefusedSeq, RequestRowSeq, RequestOfferSeq, RequestChargeSeq,
           RefundSeq, AcceptOfferSeq, AcceptFareSeq, TakeListingSeq, OtherPendingSeq, RejectOtherSeq,
           OfferCheckSeq, OfferRowSeq, OfferRereadSeq, OfferFareSeq, DeliverFareSeq, TakenOverSeq,
           RestoreNextSeq, HasActiveTripSeq, HasDeliveredSeq, ReopenSeq DEF Step

LEMMA WorkerSeq == ASSUME IInv, SeqInv, ExpiryStep \/ ReminderStep PROVE SeqInv'
<1>1. "expiry" \in Procs /\ "reminder" \in Procs
  BY DEF Procs, Workers
<1>2. CASE ExpireOffers
  BY <1>1, <1>2, SweepSeq DEF ExpireOffers
<1>3. CASE RemindDeliveries
  <2>1. \A d \in findTripsDueDeliveryReminder : row[d].status = "ACCEPTED"
    BY DEF findTripsDueDeliveryReminder
  <2> QED BY <1>1, <1>3, <2>1, SweepSeq DEF RemindDeliveries
<1> QED BY <1>1, <1>2, <1>3, ExpireNextSeq, RemindNextSeq, SaveSelectSeq, SaveWriteSeq, SaveRefusedSeq
        DEF ExpiryStep, ReminderStep

LEMMA NextSeq == ASSUME IInv, SeqInv, [Next]_vars PROVE SeqInv'
<1>1. CASE \E s \in Sessions, d \in Drivers : CallOn(s, d)
  BY <1>1, CallOnSeq
<1>2. ASSUME NEW s \in Sessions, SetTaken(s) \/ SetOpen(s) PROVE SeqInv'
  <2>1. s \in Procs
    BY DEF Procs
  <2> QED BY <1>2, <2>1, SetTakenSeq, SetOpenSeq
<1>3. ASSUME NEW s \in Sessions, Step(s) PROVE SeqInv'
  BY <1>3, StepSeq
<1>4. CASE ExpiryStep \/ ReminderStep
  BY <1>4, WorkerSeq
<1>5. CASE Crash
  BY <1>5, CrashSeq
<1>6. CASE Wait
  BY <1>6, TimeSeq DEF Wait, history
<1>7. CASE ClockEnd \/ UNCHANGED vars
  BY <1>7, TimeSeq DEF ClockEnd, vars, history
<1> QED BY <1>1, <1>2, <1>3, <1>4, <1>5, <1>6, <1>7 DEF Next

LEMMA Sequential == Spec => [](IInv /\ SeqInv)
<1>1. Init => IInv /\ SeqInv
  BY InitInv, InitSeq
<1>2. IInv /\ SeqInv /\ [Next]_vars => IInv' /\ SeqInv'
  BY NextInv, NextSeq
<1> QED BY <1>1, <1>2, PTL DEF Spec

\* completeAssignment does what its comment says: when calls and sweeps come one at a time
\* and the backend did not restart, the load of a running trip is TAKEN and nobody else's
\* request for it waits, whatever sequence of calls, for every number of drivers.
THEOREM TripCloses == Spec => []TripClosesLoad
<1>1. IInv /\ SeqInv => TripClosesLoad
  BY QuietSettled DEF TripClosesLoad, Settled
<1> QED BY <1>1, Sequential, PTL

\* deliver is the end of a trip: in the same histories no call and no sweep takes a DELIVERED
\* row's status or date away.
THEOREM DeliveredStays == Spec => DeliveredIsFinal
<1>1. ASSUME IInv, SeqInv, [Next]_vars, row' # row, Undisturbed, NEW d \in Drivers, row[d].status = "DELIVERED"
      PROVE  row'[d].status = "DELIVERED" /\ row'[d].deliveredAt
  <2>1. PICK s \in Procs : SaveWrite(s)
    BY <1>1, OnlySavesWrite
  <2>2. sess[s].pc \in Saving /\ sess[s].pc # "idle"
    BY <2>1 DEF SaveWrite, Saving
  <2>3. ActorOK(sess[s])
    BY <1>1, <2>2, OnlyActor
  <2>4. sess[s].d # d
    BY <1>1, <2>2, <2>3, SessionFacts DEF ActorOK, Entity, NoTrip, Started, Session, Row, Statuses
  <2>5. row'[d] = row[d]
    BY <1>1, <2>1, <2>3, <2>4, SavedRows
  <2> QED BY <1>1, <2>3, <2>5 DEF ActorOK, Closing
<1>2. IInv /\ SeqInv /\ [Next]_vars =>
        [Undisturbed => \A d \in Drivers : row[d].status = "DELIVERED" =>
                            row'[d].status = "DELIVERED" /\ row'[d].deliveredAt]_row
  BY <1>1
<1> QED BY <1>2, Sequential, PTL DEF Spec, DeliveredIsFinal

\* cancelTrip gives back the requests the trip took over and none that the company itself
\* turned down: in the same histories such a row is never PENDING again by anyone's save.
THEOREM RefusalKept == Spec => RefusalStands
<1>1. ASSUME IInv, SeqInv, [Next]_vars, row' # row, Undisturbed, NEW d \in Drivers,
             row[d].status = "REJECTED", d \in refused
      PROVE  row'[d].status # "PENDING"
  <2>1. PICK s \in Procs : SaveWrite(s)
    BY <1>1, OnlySavesWrite
  <2>2. sess[s].pc \in Saving /\ sess[s].pc # "idle"
    BY <2>1 DEF SaveWrite, Saving
  <2>3. ActorOK(sess[s])
    BY <1>1, <2>2, OnlyActor
  <2>4. CASE sess[s].d = d
    <3>1. sess[s].mem.status # "PENDING"
      BY <1>1, <2>2, <2>3, <2>4 DEF ActorOK, Entity
    <3> QED BY <1>1, <2>1, <2>3, <2>4, <3>1, SavedRows
  <2>5. CASE sess[s].d # d
    BY <1>1, <2>1, <2>3, <2>5, SavedRows
  <2> QED BY <2>4, <2>5
<1>2. IInv /\ SeqInv /\ [Next]_vars =>
        [Undisturbed => \A d \in Drivers : row[d].status = "REJECTED" /\ d \in refused => row'[d].status # "PENDING"]_row
  BY <1>1
<1> QED BY <1>2, Sequential, PTL DEF Spec, RefusalStands
=============================================================================
