------------------------------ MODULE CargoTrip ------------------------------
(***************************************************************************)
(* The requests, offers and trips of ONE announced load (CargoTripService,  *)
(* CargoListingService.setStatus, TripFareService and the two trip workers).*)
(*                                                                         *)
(* The database holds the load's status, one CargoRequest row per driver    *)
(* (UQ_CargoRequest_listing_driver) and the TripFare rows.  A handler is a  *)
(* session that runs between awaits: each action below is what one session  *)
(* does between two of its database round trips, so the handlers of the     *)
(* web panel, the bots and the workers interleave as they do on the event   *)
(* loop.  repository.save is the ORM's two round trips: it selects the row  *)
(* again, then updates the columns in which the in-memory entity differs.   *)
(***************************************************************************)
EXTENDS Integers, FiniteSets

CONSTANTS
    Drivers,        \* the drivers and brokers that may ask for the load
    Brokers,        \* those of them whose requests are charged (packages on)
    Sessions,       \* API calls that may be under way at the same time
    Fares,          \* fares a company may type in
    NoDriver,       \* the driver of a session that serves nobody
    NoFare,         \* a TripFare stage that is not recorded
    Ops,            \* the operations clients call in this instance
    OfferTTL,       \* OFFER_TTL_MINUTES, in clock steps
    ReminderDelay,  \* TRIP_DELIVERY_REMINDER_DAYS, in clock steps
    Credits,        \* load requests a broker has bought
    MaxTime,        \* bound: the clock, which every call advances
    RaceTime,       \* bound: the same, where calls and sweeps overlap
    MaxCrashes      \* bound: restarts of the backend

Operations == {"request", "cancel", "accept", "reject", "offer", "respond",
               "report", "deliver", "cancelTrip", "rejectReport", "setTaken", "setOpen"}

ASSUME TripAssumption ==
    /\ Brokers \subseteq Drivers
    /\ Ops \subseteq Operations
    /\ NoDriver \notin Drivers
    /\ NoFare \notin Fares
    /\ OfferTTL \in Nat \ {0} /\ ReminderDelay \in Nat /\ Credits \in Nat
    /\ MaxTime \in Nat \ {0} /\ RaceTime \in 1 .. MaxTime /\ MaxCrashes \in Nat
    /\ Sessions \cap {"expiry", "reminder"} = {}

VARIABLES
    listing,    \* CargoListing.status of the load
    row,        \* CargoRequest of each driver; status NONE: no row yet
    fares,      \* TripFare: the AGREED and the DELIVERED stage of each request
    credit,     \* BrokerRequestCredit.remaining
    now,        \* the clock
    sess,       \* what each session has read and where it is
    crashes,    \* restarts so far
    arrivals,   \* whether calls and sweeps come one at a time ("apart") or as they like ("together")
    asked,      \* history: drivers whose own request was saved or is being saved
    confirmed,  \* history: drivers that said yes to an offer
    chosen,     \* history: drivers the company accepted or offered the load to
    refused,    \* history: drivers whose request the company itself turned down
    filed       \* history: charged requests saved, per broker

vars == <<listing, row, fares, credit, now, sess, crashes, arrivals, asked, confirmed, chosen, refused, filed>>
history == <<asked, confirmed, chosen, refused, filed>>

NoTime == 0
Time == 0 .. (MaxTime + OfferTTL)

Statuses == {"PENDING", "OFFERED", "ACCEPTED", "REJECTED", "DECLINED",
             "EXPIRED", "CANCELLED", "DELIVERED", "TRIP_CANCELLED"}

\* STARTED: the statuses of a trip that runs or ran, those of the trip index.
Started == {"ACCEPTED", "DELIVERED"}

Row == [status : Statuses \cup {"NONE"},
        decidedAt : Time, offerExpiresAt : Time,
        deliveryReportedAt : BOOLEAN, deliveredAt : BOOLEAN,
        deliveryRemindedAt : Time]

NewRow == [status |-> "NONE", decidedAt |-> NoTime, offerExpiresAt |-> NoTime,
           deliveryReportedAt |-> FALSE, deliveredAt |-> FALSE, deliveryRemindedAt |-> NoTime]

Workers == {"expiry", "reminder"}
Procs == Sessions \cup Workers

\* Where a session may be waiting; the name is what it does when it goes on.
Pcs == {"idle", "requestRow", "requestOffer", "requestCharge", "refund",
        "acceptOffer", "acceptFare", "takeListing", "otherPending", "rejectOther",
        "offerCheck", "offerRow", "offerReread", "offerFare",
        "expireNext", "remindNext", "deliverFare",
        "takenOver", "restoreNext", "hasActiveTrip", "hasDelivered", "reopen",
        "save", "insert", "write"}

Session == [pc : Pcs, d : Drivers \cup {NoDriver}, mem : Row, snap : Row,
            todo : SUBSET [d : Drivers, mem : Row],
            after : Pcs \cup {"charged"}, at : Time, fare : Fares \cup {NoFare}]

Idle == [pc |-> "idle", d |-> NoDriver, mem |-> NewRow, snap |-> NewRow, todo |-> {},
         after |-> "idle", at |-> NoTime, fare |-> NoFare]

Init ==
    /\ listing = "OPEN"
    /\ row = [d \in Drivers |-> NewRow]
    /\ fares = [d \in Drivers |-> [agreed |-> NoFare, delivered |-> NoFare]]
    /\ credit = [d \in Brokers |-> Credits]
    /\ now = 1
    /\ sess = [p \in Procs |-> Idle]
    /\ crashes = 0
    /\ arrivals \in {"apart", "together"}
    /\ asked = {} /\ confirmed = {} /\ chosen = {} /\ refused = {}
    /\ filed = [d \in Brokers |-> 0]

-----------------------------------------------------------------------------
(* Sessions. *)

Quiet == \A p \in Procs : sess[p].pc = "idle"

\* One at a time: nothing comes while anything is under way.
Apart == arrivals = "apart"
MayCome == Apart => Quiet
Horizon == IF Apart THEN MaxTime ELSE RaceTime

\* A client's call begins: it takes an idle session and time has moved on.
Call(s, op) ==
    /\ op \in Ops
    /\ sess[s].pc = "idle"
    /\ MayCome
    /\ now < Horizon
    /\ now' = now + 1

Set(s, me) == sess' = [sess EXCEPT ![s] = me]
Goto(s, pc) == Set(s, [sess[s] EXCEPT !.pc = pc])

\* The handler has read the row r of driver d and the caller's fare f.
Begin(s, d, pc, r, f) == Set(s, [Idle EXCEPT !.pc = pc, !.d = d, !.mem = r, !.fare = f])

\* The handler returns, or throws: nothing it held is kept.
End(s) == Set(s, Idle)

\* repository.save(entity): an INSERT when the entity was created here.
SavePc(old) == IF old.status = "NONE" THEN "insert" ELSE "save"

BeginSave(s, d, entity, after) ==
    Set(s, [Idle EXCEPT !.pc = "save", !.d = d, !.mem = entity, !.after = after])

GotoSave(s, old, entity, after) ==
    Set(s, [sess[s] EXCEPT !.pc = SavePc(old), !.mem = entity, !.after = after])

\* One entity of a list loaded before: the copy in hand is the one saved.
SaveNext(s, t, entity, loop, last) ==
    LET rest == sess[s].todo \ {t}
    IN  Set(s, [sess[s] EXCEPT !.pc = "save", !.d = t.d, !.mem = entity, !.todo = rest,
                               !.after = IF rest = {} THEN last ELSE loop])

\* What a step that only reads, and a call that only reads, leave alone.
ReadsOnly == UNCHANGED <<listing, row, fares, credit, now, crashes, arrivals, history>>
CallOnly == UNCHANGED <<listing, row, fares, credit, crashes, arrivals, history>>

Loaded(D) == {[d |-> d, mem |-> row[d]] : d \in D}

-----------------------------------------------------------------------------
(* Queries of CargoRequestRepository. *)

ActiveOffer(d) == row[d].status = "OFFERED" /\ row[d].offerExpiresAt >= now
findActiveOffer == \E d \in Drivers : ActiveOffer(d)
\* Mutated form: the TTL counted twice.
findExpiredOffers_TwiceTTL ==
    {d \in Drivers : row[d].status = "OFFERED" /\ row[d].offerExpiresAt + OfferTTL < now}
findExpiredOffers == {d \in Drivers : row[d].status = "OFFERED" /\ row[d].offerExpiresAt < now}
findOtherPending(d) == {e \in Drivers \ {d} : row[e].status = "PENDING"}
\* Mutated form: rejections of any time.
findTakenOver_AnyTime(d, since) == {e \in Drivers \ {d} : row[e].status = "REJECTED"}
findTakenOver(d, since) ==
    {e \in Drivers \ {d} : row[e].status = "REJECTED" /\ row[e].decidedAt >= since}
\* COALESCE(deliveryRemindedAt, decidedAt, updatedAt); an ACCEPTED row without decidedAt counts as old.
findTripsDueDeliveryReminder ==
    {d \in Drivers : /\ row[d].status = "ACCEPTED"
                     /\ LET since == IF row[d].deliveryRemindedAt # NoTime
                                     THEN row[d].deliveryRemindedAt ELSE row[d].decidedAt
                        IN  since + ReminderDelay < now}
hasActiveTrip == \E d \in Drivers : row[d].status = "ACCEPTED" \/ ActiveOffer(d)
hasDelivered == \E d \in Drivers : row[d].status = "DELIVERED"

TripIndexAllows_Dropped(d, status) == TRUE

\* UQ_CargoRequest_listing_trip: one ACCEPTED or DELIVERED row per load.
TripIndexAllows(d, status) ==
    status \in Started => \A e \in Drivers \ {d} : row[e].status \notin Started

-----------------------------------------------------------------------------
(* repository.save *)

\* The first round trip: the row as it is now, to find the changed columns.
SaveSelect(s) ==
    /\ sess[s].pc = "save"
    /\ Set(s, [sess[s] EXCEPT !.pc = "write", !.snap = row[sess[s].d]])
    /\ ReadsOnly

Merged(cur, mem, snap) ==
    [status             |-> IF mem.status # snap.status THEN mem.status ELSE cur.status,
     decidedAt          |-> IF mem.decidedAt # snap.decidedAt THEN mem.decidedAt ELSE cur.decidedAt,
     offerExpiresAt     |-> IF mem.offerExpiresAt # snap.offerExpiresAt
                            THEN mem.offerExpiresAt ELSE cur.offerExpiresAt,
     deliveryReportedAt |-> IF mem.deliveryReportedAt # snap.deliveryReportedAt
                            THEN mem.deliveryReportedAt ELSE cur.deliveryReportedAt,
     deliveredAt        |-> IF mem.deliveredAt # snap.deliveredAt
                            THEN mem.deliveredAt ELSE cur.deliveredAt,
     deliveryRemindedAt |-> IF mem.deliveryRemindedAt # snap.deliveryRemindedAt
                            THEN mem.deliveryRemindedAt ELSE cur.deliveryRemindedAt]

\* The row after the UPDATE of the changed columns, or after the INSERT.
Written(s) ==
    LET me == sess[s]
    IN  IF me.pc = "insert" THEN me.mem ELSE Merged(row[me.d], me.mem, me.snap)

\* Both unique indexes let the row in.
WriteAllowed(s) ==
    LET me == sess[s]
    IN  /\ me.pc = "insert" => row[me.d].status = "NONE"
        /\ TripIndexAllows(me.d, Written(s).status)

\* The second round trip, and on to the handler's next step.
SaveWrite(s) ==
    LET me == sess[s]
    IN  /\ me.pc \in {"insert", "write"}
        /\ WriteAllowed(s)
        /\ row' = [row EXCEPT ![me.d] = Written(s)]
        /\ filed' = IF me.after = "charged" THEN [filed EXCEPT ![me.d] = @ + 1] ELSE filed
        /\ IF me.after \in {"idle", "charged"} THEN End(s) ELSE Goto(s, me.after)
        /\ UNCHANGED <<listing, fares, credit, now, crashes, arrivals, asked, confirmed, chosen, refused>>

\* Mutated form: the charge of a request that was not saved is kept.
SaveRefused_NoRefund(s) ==
    /\ sess[s].pc \in {"insert", "write"}
    /\ ~WriteAllowed(s)
    /\ End(s)
    /\ ReadsOnly

\* A unique violation (23505): the handler throws, a charged request is refunded.
SaveRefused(s) ==
    LET me == sess[s]
    IN  /\ me.pc \in {"insert", "write"}
        /\ ~WriteAllowed(s)
        /\ IF me.after = "charged" THEN Goto(s, "refund") ELSE End(s)
        /\ ReadsOnly

-----------------------------------------------------------------------------
(* request: a driver (or broker) asks for the load. *)

Request(s, d) ==
    /\ Call(s, "request")
    /\ listing = "OPEN"
    /\ Begin(s, d, "requestRow", NewRow, NoFare)
    /\ CallOnly

RequestRow(s) ==
    LET r == row[sess[s].d]
    IN  /\ sess[s].pc = "requestRow"
        /\ IF r.status \in {"PENDING", "OFFERED", "ACCEPTED"}
           THEN End(s)
           ELSE Set(s, [sess[s] EXCEPT !.pc = "requestOffer", !.mem = r])
        /\ ReadsOnly

SaveRequest(s, after) ==
    /\ GotoSave(s, sess[s].mem, [sess[s].mem EXCEPT !.status = "PENDING", !.decidedAt = NoTime], after)
    /\ asked' = asked \cup {sess[s].d}
    /\ UNCHANGED <<confirmed, chosen, refused, filed>>

RequestOffer(s) ==
    LET me == sess[s]
    IN  /\ me.pc = "requestOffer"
        /\ \/ /\ findActiveOffer \/ me.mem.status \in {"REJECTED", "TRIP_CANCELLED"}
              /\ End(s)
              /\ UNCHANGED history
           \/ /\ ~findActiveOffer /\ me.mem.status \notin {"REJECTED", "TRIP_CANCELLED"}
              /\ IF me.d \in Brokers
                 THEN Goto(s, "requestCharge") /\ UNCHANGED history
                 ELSE SaveRequest(s, "idle")
        /\ UNCHANGED <<listing, row, fares, credit, now, crashes, arrivals>>

\* Mutated form: the UPDATE without "remaining > 0".
RequestCharge_Unchecked(s) ==
    /\ sess[s].pc = "requestCharge"
    /\ SaveRequest(s, "charged")
    /\ credit' = [credit EXCEPT ![sess[s].d] = @ - 1]
    /\ UNCHANGED <<listing, row, fares, now, crashes, arrivals>>

\* BrokerAccessService.useRequest: one conditional UPDATE, or noCredit.
RequestCharge(s) ==
    LET b == sess[s].d
    IN  /\ sess[s].pc = "requestCharge"
        /\ IF credit[b] > 0
           THEN SaveRequest(s, "charged") /\ credit' = [credit EXCEPT ![b] = @ - 1]
           ELSE End(s) /\ UNCHANGED <<credit, history>>
        /\ UNCHANGED <<listing, row, fares, now, crashes, arrivals>>

Refund(s) ==
    /\ sess[s].pc = "refund"
    /\ credit' = [credit EXCEPT ![sess[s].d] = @ + 1]
    /\ End(s)
    /\ UNCHANGED <<listing, row, fares, now, crashes, arrivals, history>>

Cancel(s, d) ==
    /\ Call(s, "cancel")
    /\ row[d].status = "PENDING"
    /\ BeginSave(s, d, [row[d] EXCEPT !.status = "CANCELLED"], "idle")
    /\ CallOnly

-----------------------------------------------------------------------------
(* decide: the company accepts or turns down a request. *)

Reject(s, d) ==
    /\ Call(s, "reject")
    /\ row[d].status = "PENDING"
    /\ BeginSave(s, d, [row[d] EXCEPT !.status = "REJECTED", !.decidedAt = now], "idle")
    /\ refused' = refused \cup {d}
    /\ UNCHANGED <<listing, row, fares, credit, crashes, arrivals, asked, confirmed, chosen, filed>>

\* Mutated form: the notPending check is missing.
Accept_AnyStatus(s, d, f) ==
    /\ Call(s, "accept")
    /\ listing = "OPEN"
    /\ Begin(s, d, "acceptOffer", row[d], f)
    /\ CallOnly

Accept(s, d, f) ==
    /\ Call(s, "accept")
    /\ row[d].status = "PENDING"
    /\ listing = "OPEN"
    /\ Begin(s, d, "acceptOffer", row[d], f)
    /\ CallOnly

AcceptOffer(s) ==
    /\ sess[s].pc = "acceptOffer"
    /\ IF findActiveOffer THEN End(s) ELSE Goto(s, "acceptFare")
    /\ ReadsOnly

\* TripFareService.recordAgreed(r, f): fareLocked once the entity r has started.
FareLocked(d, r) == r.status \in Started /\ fares[d].agreed # NoFare
RecordAgreed(d, r, f) ==
    fares' = IF FareLocked(d, r) THEN fares ELSE [fares EXCEPT ![d].agreed = f]

\* The entity in hand is still PENDING here, so recordAgreed does not refuse it.
AcceptFare(s) ==
    LET me == sess[s]
    IN  /\ me.pc = "acceptFare"
        /\ RecordAgreed(me.d, me.mem, me.fare)
        /\ GotoSave(s, me.mem, [me.mem EXCEPT !.status = "ACCEPTED", !.decidedAt = now], "takeListing")
        /\ chosen' = chosen \cup {me.d}
        /\ refused' = refused \ {me.d}
        /\ UNCHANGED <<listing, row, credit, now, crashes, arrivals, asked, confirmed, filed>>

\* Mutated form: the load's status is left as it is.
TakeListing_KeepsOpen(s) ==
    /\ sess[s].pc = "takeListing"
    /\ Goto(s, "otherPending")
    /\ ReadsOnly

\* completeAssignment: the load is taken and the other waiting requests are turned down.
TakeListing(s) ==
    /\ sess[s].pc = "takeListing"
    /\ listing' = "TAKEN"
    /\ Goto(s, "otherPending")
    /\ UNCHANGED <<row, fares, credit, now, crashes, arrivals, history>>

OtherPending(s) ==
    LET others == findOtherPending(sess[s].d)
    IN  /\ sess[s].pc = "otherPending"
        /\ IF others = {} THEN End(s)
           ELSE Set(s, [sess[s] EXCEPT !.pc = "rejectOther", !.todo = Loaded(others)])
        /\ ReadsOnly

RejectOther(s) ==
    /\ sess[s].pc = "rejectOther"
    /\ \E t \in sess[s].todo :
          SaveNext(s, t, [t.mem EXCEPT !.status = "REJECTED", !.decidedAt = now], "rejectOther", "idle")
    /\ ReadsOnly

-----------------------------------------------------------------------------
(* offer: the company hands the load to a driver, who confirms in time or not. *)

Offer(s, d, f) ==
    /\ Call(s, "offer")
    /\ listing = "OPEN"
    /\ d \notin Brokers
    /\ Begin(s, d, "offerCheck", NewRow, f)
    /\ CallOnly

OfferCheck(s) ==
    /\ sess[s].pc = "offerCheck"
    /\ IF findActiveOffer THEN End(s) ELSE Goto(s, "offerRow")
    /\ ReadsOnly

OfferRow(s) ==
    LET me == sess[s]
        r  == row[me.d]
    IN  /\ me.pc = "offerRow"
        /\ GotoSave(s, r,
               [r EXCEPT !.status = "OFFERED", !.decidedAt = now, !.offerExpiresAt = now + OfferTTL],
               IF me.fare = NoFare THEN "idle" ELSE "offerReread")
        /\ chosen' = chosen \cup {me.d}
        /\ refused' = refused \ {me.d}
        /\ UNCHANGED <<listing, row, fares, credit, now, crashes, arrivals, asked, confirmed, filed>>

OfferReread(s) ==
    /\ sess[s].pc = "offerReread"
    /\ Set(s, [sess[s] EXCEPT !.pc = "offerFare", !.mem = row[sess[s].d]])
    /\ ReadsOnly

OfferFare(s) ==
    LET me == sess[s]
    IN  /\ me.pc = "offerFare"
        /\ RecordAgreed(me.d, me.mem, me.fare)
        /\ End(s)
        /\ UNCHANGED <<listing, row, credit, now, crashes, arrivals, history>>

Expired(r) == [r EXCEPT !.status = "EXPIRED", !.offerExpiresAt = NoTime]

RespondOffer(s, d, accept) ==
    /\ Call(s, "respond")
    /\ row[d].status = "OFFERED"
    /\ IF row[d].offerExpiresAt < now
       THEN BeginSave(s, d, Expired(row[d]), "idle") /\ UNCHANGED confirmed
       ELSE /\ BeginSave(s, d,
                  [row[d] EXCEPT !.status = IF accept THEN "ACCEPTED" ELSE "DECLINED",
                                 !.decidedAt = now, !.offerExpiresAt = NoTime],
                  IF accept THEN "takeListing" ELSE "idle")
            /\ confirmed' = IF accept THEN confirmed \cup {d} ELSE confirmed
    /\ UNCHANGED <<listing, row, fares, credit, crashes, arrivals, asked, chosen, refused, filed>>

-----------------------------------------------------------------------------
(* The workers: one sweep at a time each (their "running" flag). *)

Sweep(w, due, pc) ==
    /\ sess[w].pc = "idle"
    /\ MayCome
    /\ due # {}
    /\ Set(w, [Idle EXCEPT !.pc = pc, !.todo = Loaded(due), !.at = now])
    /\ ReadsOnly

ExpireOffers == Sweep("expiry", findExpiredOffers, "expireNext")

ExpireNext ==
    /\ sess["expiry"].pc = "expireNext"
    /\ \E t \in sess["expiry"].todo : SaveNext("expiry", t, Expired(t.mem), "expireNext", "idle")
    /\ ReadsOnly

RemindDeliveries == Sweep("reminder", findTripsDueDeliveryReminder, "remindNext")

RemindNext ==
    /\ sess["reminder"].pc = "remindNext"
    /\ \E t \in sess["reminder"].todo :
          SaveNext("reminder", t, [t.mem EXCEPT !.deliveryRemindedAt = sess["reminder"].at], "remindNext", "idle")
    /\ ReadsOnly

-----------------------------------------------------------------------------
(* deliver, rejectDeliveryReport, cancelTrip. *)

ReportDelivery(s, d) ==
    /\ Call(s, "report")
    /\ row[d].status = "ACCEPTED"
    /\ ~row[d].deliveryReportedAt
    /\ BeginSave(s, d, [row[d] EXCEPT !.deliveryReportedAt = TRUE], "idle")
    /\ CallOnly

RejectDeliveryReport(s, d) ==
    /\ Call(s, "rejectReport")
    /\ row[d].status = "ACCEPTED"
    /\ row[d].deliveryReportedAt
    /\ BeginSave(s, d, [row[d] EXCEPT !.deliveryReportedAt = FALSE], "idle")
    /\ CallOnly

Deliver(s, d, f) ==
    /\ Call(s, "deliver")
    /\ row[d].status = "ACCEPTED"
    /\ Begin(s, d, "deliverFare", row[d], f)
    /\ CallOnly

\* Mutated forms: the confirmed fare is not recorded; it is written to the AGREED stage.
DeliverFare_NoFare(s) ==
    LET me == sess[s]
    IN  /\ me.pc = "deliverFare"
        /\ GotoSave(s, me.mem, [me.mem EXCEPT !.status = "DELIVERED", !.deliveredAt = TRUE], "idle")
        /\ ReadsOnly

\* recordDelivered first, then the row.
DeliverFare(s) ==
    LET me == sess[s]
    IN  /\ me.pc = "deliverFare"
        /\ fares' = [fares EXCEPT ![me.d].delivered = me.fare]
        /\ GotoSave(s, me.mem, [me.mem EXCEPT !.status = "DELIVERED", !.deliveredAt = TRUE], "idle")
        /\ UNCHANGED <<listing, row, credit, now, crashes, arrivals, history>>

CancelTrip(s, d) ==
    /\ Call(s, "cancelTrip")
    /\ row[d].status = "ACCEPTED"
    /\ Set(s, [Idle EXCEPT !.pc = "save", !.d = d, !.after = "takenOver", !.at = row[d].decidedAt,
                           !.mem = [row[d] EXCEPT !.status = "TRIP_CANCELLED",
                                                  !.deliveryReportedAt = FALSE, !.decidedAt = now]])
    /\ CallOnly

\* The drivers turned down only because this trip started.
TakenOver(s) ==
    LET me   == sess[s]
        back == IF me.at = NoTime THEN {} ELSE findTakenOver(me.d, me.at)
    IN  /\ me.pc = "takenOver"
        /\ IF back = {} THEN Goto(s, "hasActiveTrip")
           ELSE Set(s, [sess[s] EXCEPT !.pc = "restoreNext", !.todo = Loaded(back)])
        /\ ReadsOnly

RestoreNext(s) ==
    /\ sess[s].pc = "restoreNext"
    /\ \E t \in sess[s].todo :
          SaveNext(s, t, [t.mem EXCEPT !.status = "PENDING", !.decidedAt = NoTime], "restoreNext", "hasActiveTrip")
    /\ ReadsOnly

-----------------------------------------------------------------------------
(* CargoListingService.setStatus *)

SetTaken(s) ==
    /\ Call(s, "setTaken")
    /\ listing' = "TAKEN"
    /\ UNCHANGED <<row, fares, credit, sess, crashes, arrivals, history>>

SetOpen(s) ==
    /\ Call(s, "setOpen")
    /\ Goto(s, "hasActiveTrip")
    /\ CallOnly

\* Mutated form: the load is opened again without the check.
HasDelivered_Unchecked(s) == sess[s].pc = "hasDelivered" /\ Goto(s, "reopen") /\ ReadsOnly

HasActiveTrip(s) ==
    /\ sess[s].pc = "hasActiveTrip"
    /\ IF hasActiveTrip THEN End(s) ELSE Goto(s, "hasDelivered")
    /\ ReadsOnly

HasDelivered(s) ==
    /\ sess[s].pc = "hasDelivered"
    /\ IF hasDelivered THEN End(s) ELSE Goto(s, "reopen")
    /\ ReadsOnly

\* changeStatus: UPDATE ... WHERE status = 'TAKEN'.
Reopen(s) ==
    /\ sess[s].pc = "reopen"
    /\ listing' = "OPEN"
    /\ End(s)
    /\ UNCHANGED <<row, fares, credit, now, crashes, arrivals, history>>

-----------------------------------------------------------------------------
(* The environment. *)

\* Nobody calls and time passes.
Wait ==
    /\ now < Horizon
    /\ now' = now + 1
    /\ UNCHANGED <<listing, row, fares, credit, sess, crashes, arrivals, history>>

\* The bound: the clock has run out and every handler has returned.
ClockEnd == now = Horizon /\ Quiet /\ UNCHANGED vars

\* The backend stops and starts again: every handler under way is gone.
Crash ==
    /\ crashes < MaxCrashes
    /\ ~Quiet
    /\ crashes' = crashes + 1
    /\ sess' = [p \in Procs |-> Idle]
    /\ UNCHANGED <<listing, row, fares, credit, now, arrivals, history>>

CallOn(s, d) ==
    \/ Request(s, d) \/ Cancel(s, d) \/ Reject(s, d)
    \/ \E f \in Fares : Accept(s, d, f) \/ Deliver(s, d, f)
    \/ \E f \in Fares \cup {NoFare} : Offer(s, d, f)
    \/ \E accept \in BOOLEAN : RespondOffer(s, d, accept)
    \/ ReportDelivery(s, d) \/ RejectDeliveryReport(s, d) \/ CancelTrip(s, d)

\* What a session that is under way does next.
Step(s) ==
    \/ SaveSelect(s) \/ SaveWrite(s) \/ SaveRefused(s)
    \/ RequestRow(s) \/ RequestOffer(s) \/ RequestCharge(s) \/ Refund(s)
    \/ AcceptOffer(s) \/ AcceptFare(s) \/ TakeListing(s) \/ OtherPending(s) \/ RejectOther(s)
    \/ OfferCheck(s) \/ OfferRow(s) \/ OfferReread(s) \/ OfferFare(s)
    \/ DeliverFare(s) \/ TakenOver(s) \/ RestoreNext(s)
    \/ HasActiveTrip(s) \/ HasDelivered(s) \/ Reopen(s)

\* No SaveRefused here: EXPIRED is outside the trip index, and a status the save leaves
\* alone is the row's own.
ExpiryStep == ExpireOffers \/ ExpireNext \/ SaveSelect("expiry") \/ SaveWrite("expiry")
ReminderStep == RemindDeliveries \/ RemindNext
                \/ SaveSelect("reminder") \/ SaveWrite("reminder") \/ SaveRefused("reminder")

Next ==
    \/ \E s \in Sessions, d \in Drivers : CallOn(s, d)
    \/ \E s \in Sessions : SetTaken(s) \/ SetOpen(s) \/ Step(s)
    \/ ExpiryStep \/ ReminderStep
    \/ Wait \/ Crash \/ ClockEnd

Spec == Init /\ [][Next]_vars

\* A handler under way goes on (the event loop runs its continuation); the expiry
\* sweep runs again and again (setInterval).  Clients and time owe nothing.
FairSpec ==
    /\ Spec
    /\ \A s \in Sessions : WF_vars(Step(s))
    /\ WF_vars(ExpiryStep)

-----------------------------------------------------------------------------
(* What must hold however the handlers interleave and the backend restarts. *)

TypeOK ==
    /\ listing \in {"OPEN", "TAKEN"}
    /\ row \in [Drivers -> Row]
    /\ fares \in [Drivers -> [agreed : Fares \cup {NoFare}, delivered : Fares \cup {NoFare}]]
    /\ credit \in [Brokers -> Nat]
    /\ now \in 1 .. MaxTime
    /\ sess \in [Procs -> Session]
    /\ crashes \in 0 .. MaxCrashes
    /\ arrivals \in {"apart", "together"}
    /\ asked \subseteq Drivers /\ confirmed \subseteq Drivers
    /\ chosen \subseteq Drivers /\ refused \subseteq Drivers
    /\ filed \in [Brokers -> Nat]

\* One trip per load: whatever stale copies the handlers, the two workers and the
\* retries of a client save, at most one request of the load is ACCEPTED or
\* DELIVERED (migration CargoRequestOneTrip).
OneTripPerLoad ==
    \A d, e \in Drivers : row[d].status \in Started /\ row[e].status \in Started => d = e

\* The rows of the load implement LoadTrips: a trip starts only on a load without
\* one and passes from a driver to another only through a load without a trip,
\* also when a worker or a late handler writes back a stale ACCEPTED.
Load == INSTANCE LoadTrips WITH trips <- {d \in Drivers : row[d].status \in Started}
LoadKeepsOneTrip == Load!Spec

\* Nobody is put on a trip unasked: the driver of a started trip asked for the load
\* or said yes to an offer, and the company accepted it or offered it the load,
\* whichever stale entity the trip was written from.
NoTripWithoutConsent ==
    \A d \in Drivers : row[d].status \in Started =>
        /\ d \in asked \cup confirmed
        /\ d \in chosen

\* Money of a delivered trip: a request that reads DELIVERED has its DELIVERED fare,
\* because deliver records it before it saves the row, also across a restart
\* between the two.
DeliveredHasFare ==
    \A d \in Drivers : row[d].status = "DELIVERED" => fares[d].delivered # NoFare

\* Charged requests of b that a handler has taken from the credit and not saved yet.
Held(b) ==
    {s \in Sessions : /\ sess[s].d = b
                      /\ sess[s].pc = "refund" \/ sess[s].after = "charged"}

\* A broker's packages: every credit taken is a saved request, in the hands of a
\* handler, or given back; a restart may lose credits and never makes any.
CreditsAccounted ==
    \A b \in Brokers :
        LET total == credit[b] + filed[b] + Cardinality(Held(b))
        IN  total <= Credits /\ (crashes = 0 => total = Credits)

-----------------------------------------------------------------------------
(* What the handlers promise of a load; the runs show for which interleavings. *)

\* Calls and sweeps one at a time, and no restart so far.
Undisturbed == Apart /\ crashes = 0

\* completeAssignment: once its handler is done a running trip has its load TAKEN
\* and no other request of the load waits, if nothing else ran meanwhile.
TripClosesLoad ==
    Undisturbed /\ Quiet => \A d \in Drivers : row[d].status = "ACCEPTED" =>
        listing = "TAKEN" /\ \A e \in Drivers : row[e].status # "PENDING"

\* offer: until the driver answers, the load is reserved: no second live offer and
\* no trip beside it.
OfferReserves ==
    \A d, e \in Drivers : ActiveOffer(d) /\ d # e => ~ActiveOffer(e) /\ row[e].status \notin Started

\* deliver: a delivered trip is over; no later call or sweep takes its status or its date away.
DeliveredIsFinal ==
    [][Undisturbed => \A d \in Drivers : row[d].status = "DELIVERED" =>
                          row'[d].status = "DELIVERED" /\ row'[d].deliveredAt]_row

\* An offer expires only unanswered: a driver's yes is not turned into EXPIRED.
ExpiredIsUnanswered ==
    [][\A d \in Drivers : row[d].status = "ACCEPTED" => row'[d].status # "EXPIRED"]_row

\* setStatus: a load whose trip runs, or that was delivered, is not opened again.
NotReopenedUnderTrip ==
    [][listing = "TAKEN" /\ listing' = "OPEN" => \A d \in Drivers : row[d].status \notin Started]_listing

\* cancelTrip: the requests the company itself turned down stay turned down by whatever follows.
RefusalStands ==
    [][Undisturbed => \A d \in Drivers : row[d].status = "REJECTED" /\ d \in refused =>
                          row'[d].status # "PENDING"]_row

\* TripFareService: the AGREED values of a trip that has started stay as agreed.
AgreedStays ==
    [][\A d \in Drivers : row[d].status \in Started /\ fares[d].agreed # NoFare =>
         fares'[d].agreed = fares[d].agreed]_fares

\* A reserved load takes no new request.
NoRequestWhileReserved ==
    [][\A d \in Drivers : row[d].status # "PENDING" /\ row'[d].status = "PENDING" =>
         ~\E e \in Drivers \ {d} : ActiveOffer(e)]_row

\* The offer expiry worker: an offer past its time does not stay OFFERED.
LateOfferEnds ==
    \A d \in Drivers :
        (row[d].status = "OFFERED" /\ row[d].offerExpiresAt < now)
            ~> ~(row[d].status = "OFFERED" /\ row[d].offerExpiresAt < now)

\* decide, respondOffer: the load of a trip that started is taken, or the trip is
\* no longer running.
StartedTripTakesLoad ==
    \A d \in Drivers :
        (row[d].status = "ACCEPTED") ~> (listing = "TAKEN" \/ row[d].status # "ACCEPTED")
=============================================================================
