---------------------------- MODULE CargoDelivery ----------------------------
(***************************************************************************)
(* The notices of loads to ONE driver and how they reach it                 *)
(* (CargoNotificationService, CargoDeliveryQueue, CargoDeliveryRetryWorker, *)
(* CargoListingService.sendToDrivers).  A notice goes through one messenger:*)
(* the first of MESSENGER_ORDER the driver has linked that takes it.        *)
(*                                                                         *)
(* Three parties send: the announcer inserts the notices and queues a job   *)
(* for each; the queue's consumers (prefetch > 1) take jobs, send and follow*)
(* up; the retry worker sweeps the table.  An action is what one of them    *)
(* does between two awaits.  RabbitMQ delivers at least once: a job in hand *)
(* that was not acknowledged comes again after a restart.                   *)
(***************************************************************************)
EXTENDS Integers, FiniteSets, Bags

CONSTANTS
    Notices,        \* notices of the driver, each of a load of its own
    M,              \* MESSENGER_ORDER has M messengers; the lower goes first
    Bots,           \* the messengers with a bot, the others are like WhatsApp
    Consumers,      \* jobs the channel hands out at once (RABBITMQ_PREFETCH)
    Setups,         \* deployments and drivers in this instance, see Setup
    Answers,        \* answers of the messengers in this instance
    Window,         \* DELIVERY_RETRY_WINDOW_MS, in clock steps
    MaxAttempts,    \* MAX_DELIVERY_ATTEMPTS
    MaxTries,       \* MAX_TRIES of a job
    NoNotice,       \* the id of a digest job, which is about the driver
    Faults,         \* kinds of failure in this instance
    MaxFaults,      \* bound: failures of the infrastructure
    AnnounceBy,     \* bound: the last time a load is announced
    MaxTime         \* bound: the clock

AllAnswers == {"sent", "lost", "temporary", "permanent", "limited", "unlinked"}
AllFaults == {"crash", "publish", "database", "redis"}

\* on: which of CARGO_DELIVERY_QUEUE and CARGO_DELIVERY_RETRY_WORKER are on; digest:
\* CARGO_DIGEST_WINDOW_SECONDS in clock steps, 0 for no summaries; routes: the messengers the
\* driver has linked when a load is announced; loads, announces: bounds on the loads announced
\* to it and on the announcements of each.
Setup == [on : SUBSET {"queue", "worker"}, digest : Nat, routes : SUBSET (1..M), loads : Nat, announces : Nat]

ASSUME DeliveryAssumption ==
    /\ M \in Nat \ {0} /\ Bots \subseteq 1..M
    /\ \A s \in Setups : s \in Setup
    /\ Answers \subseteq AllAnswers /\ Faults \subseteq AllFaults
    /\ Window \in Nat
    /\ MaxAttempts \in Nat \ {0} /\ MaxTries \in Nat \ {0}
    /\ MaxFaults \in Nat /\ AnnounceBy \in Nat /\ MaxTime \in Nat \ {0}
    /\ NoNotice \notin Notices
    /\ "worker" \notin Consumers /\ IsFiniteSet(Consumers)
    \* (arithmetic that the proofs need and the prover does not know)
    /\ \A k \in 0..MaxAttempts : 2 ^ k \in Nat \ {0}

VARIABLES
    setup,      \* the deployment and the driver
    notice,     \* CargoNotification: status, attempts and nextRetryAt per messenger
    created,    \* createdAt of each notice; NoTime: no row yet
    taken,      \* notices whose load is TAKEN, or whose driver is not in its audience any more
    queue,      \* RabbitMQ: a bag of jobs; at # NoTime: in a retry queue until then
    window,     \* Redis cargoDigestWindow: until when, per messenger
    held,       \* Redis cargoDigestPending: notices held, per messenger
    scheduled,  \* Redis cargoDigestScheduled: messengers with a summary on its way
    proc,       \* the queue's consumers and the retry worker
    ann,        \* the announcer, per notice
    announces,  \* announcements so far, per notice
    faults,     \* failures so far
    now,        \* the clock
    got,        \* history: messages the driver got of each notice, 2 for more
    tried       \* history: messengers that were asked to take each notice

vars == <<setup, notice, created, taken, queue, window, held, scheduled, proc, ann, announces, faults, now, got, tried>>
redis == <<window, held, scheduled>>
history == <<got, tried>>

NoTime == 0
Messengers == 1..M
Statuses == {"PENDING", "SENT", "FAILED", "SKIPPED"}

Cell == [status : Statuses, attempts : 0..MaxAttempts, at : Nat]
Row == [Messengers -> Cell]
Job == [kind : {"send", "digest"}, id : Notices \cup {NoNotice}, m : Messengers, tries : Nat, at : Nat]
Loaded == [id : Notices, copy : Row, open : BOOLEAN]

Unset == [k \in Messengers |-> [status |-> "SKIPPED", attempts |-> 0, at |-> NoTime]]
NoJob == [kind |-> "send", id |-> NoNotice, m |-> 1, tries |-> 0, at |-> NoTime]
Idle == [pc |-> "idle", job |-> NoJob, id |-> NoNotice, copy |-> Unset, m |-> 1, open |-> TRUE,
         ans |-> "none", todo |-> {}, ids |-> {}, rows |-> {}, out |-> {}, at |-> NoTime, has |-> FALSE]

Procs == Consumers \cup {"worker"}
QueueOn == "queue" \in setup.on
WorkerOn == "worker" \in setup.on
DigestWindow == setup.digest
Routes == setup.routes

\* A window may already be open: a load was sent to the driver just before.
Init ==
    /\ setup \in Setups
    /\ notice = [n \in Notices |-> Unset]
    /\ created = [n \in Notices |-> NoTime]
    /\ taken = {}
    /\ queue = EmptyBag
    /\ window \in [Messengers -> {NoTime, IF DigestWindow = 0 THEN NoTime ELSE 1 + DigestWindow}]
    /\ held = [m \in Messengers |-> {}]
    /\ scheduled = {}
    /\ proc = [p \in Procs |-> Idle]
    /\ ann = [n \in Notices |-> [pc |-> "idle", m |-> 1]]
    /\ announces = [n \in Notices |-> 0]
    /\ faults = 0
    /\ now = 1
    /\ got = [n \in Notices |-> 0]
    /\ tried = [n \in Notices |-> {}]

-----------------------------------------------------------------------------
(* Helpers *)

Set(p, me) == proc' = [proc EXCEPT ![p] = me]
Fault(kind) == kind \in Faults /\ faults < MaxFaults /\ faults' = faults + 1

\* updateDelivery: the columns of one messenger.
Update(id, m, cell) == notice' = [notice EXCEPT ![id][m] = cell]
Closed(cell, status) == [cell EXCEPT !.status = status, !.at = NoTime]

Pending(copy) == {m \in Messengers : copy[m].status = "PENDING"}
AnySent(copy) == \E m \in Messengers : copy[m].status = "SENT"
First(S) == CHOOSE m \in S : \A k \in S : m <= k
Stale(id, t) == t - created[id] > Window
Load(id) == [id |-> id, copy |-> notice[id], open |-> id \notin taken]
SendJob(id, m) == [kind |-> "send", id |-> id, m |-> m, tries |-> 0, at |-> NoTime]
DigestJob(m, at) == [kind |-> "digest", id |-> NoNotice, m |-> m, tries |-> 0, at |-> at]

\* The job for the next messenger of MESSENGER_ORDER still pending, if there is one.
NextJobs(id, copy, m) ==
    LET later == {k \in Pending(copy) : k > m}
    IN  IF later = {} THEN {} ELSE {SendJob(id, First(later))}

\* Mutated form: one attempt too many.
nextDeliveryRetryAt_OneMore(attempts, id) == IF attempts > MaxAttempts THEN NoTime ELSE now + 1

nextDeliveryRetryAt(attempts, id) ==
    LET next == now + 2 ^ (attempts - 1)
    IN  IF attempts >= MaxAttempts \/ next > created[id] + Window THEN NoTime ELSE next

AnswersOf(m) == IF m \in Bots THEN Answers ELSE Answers \ {"permanent", "limited"}

-----------------------------------------------------------------------------
(* The announcer: sendToDrivers and queueJobs. *)

AtAnn(n, pc, m) == ann' = [ann EXCEPT ![n] = [pc |-> pc, m |-> m]]

Announce(n) ==
    /\ ann[n].pc = "idle" /\ announces[n] < setup.announces /\ now <= AnnounceBy
    /\ n \notin taken
    /\ Cardinality({k \in Notices \ {n} : announces[k] > 0}) < setup.loads
    /\ announces' = [announces EXCEPT ![n] = @ + 1]
    /\ AtAnn(n, "rows", 1)
    \* insertIgnoringDuplicates
    /\ IF created[n] # NoTime THEN UNCHANGED <<notice, created>>
       ELSE /\ created' = [created EXCEPT ![n] = now]
            /\ notice' = [notice EXCEPT ![n] =
                  [m \in Messengers |-> IF m \in Routes THEN [Unset[m] EXCEPT !.status = "PENDING"] ELSE Unset[m]]]
    /\ UNCHANGED <<taken, queue, redis, proc, faults, now, history>>

\* findByListing: the first messenger still pending, unless one has sent it.
AnnounceRows(n) ==
    /\ ann[n].pc = "rows"
    /\ IF AnySent(notice[n]) \/ Pending(notice[n]) = {} THEN AtAnn(n, "idle", 1)
       ELSE AtAnn(n, "queue", First(Pending(notice[n])))
    /\ UNCHANGED <<notice, created, taken, queue, redis, proc, announces, faults, now, history>>

\* enqueue: a job, or (RabbitMQ did not take it) the notice is left to the retry worker.
AnnounceQueue(n) ==
    /\ ann[n].pc = "queue"
    /\ \/ /\ QueueOn
          /\ queue' = queue (+) SetToBag({SendJob(n, ann[n].m)})
          /\ AtAnn(n, "idle", 1)
          /\ UNCHANGED faults
       \/ /\ IF QueueOn THEN Fault("publish") ELSE UNCHANGED faults
          /\ AtAnn(n, "schedule", 1)
          /\ UNCHANGED queue
    /\ UNCHANGED <<notice, created, taken, redis, proc, announces, now, history>>

\* scheduleRetry: one UPDATE; the messengers not pending get no time.
ScheduleRetry(n) ==
    /\ ann[n].pc = "schedule"
    /\ AtAnn(n, "idle", 1)
    /\ notice' = [notice EXCEPT ![n] =
          [m \in Messengers |-> [notice[n][m] EXCEPT !.at = IF notice[n][m].status = "PENDING" THEN now ELSE NoTime]]]
    /\ UNCHANGED <<created, taken, queue, redis, proc, announces, faults, now, history>>

-----------------------------------------------------------------------------
(* One send: deliverBot and deliverWhatsapp, for the queue and for the worker. *)

\* The messenger is asked; "lost": it sent the message and its answer was not heard.
Send(p) ==
    LET me == proc[p]
    IN  /\ me.pc = "send"
        /\ \E ans \in IF me.open THEN AnswersOf(me.m) ELSE {"unlinked"} :
              /\ Set(p, [me EXCEPT !.pc = "record", !.ans = IF ans = "lost" THEN "temporary" ELSE ans])
              /\ got' = IF ans \in {"sent", "lost"} /\ got[me.id] < 2 THEN [got EXCEPT ![me.id] = @ + 1] ELSE got
        /\ tried' = IF me.open THEN [tried EXCEPT ![me.id] = @ \cup {me.m}] ELSE tried
        /\ UNCHANGED <<notice, created, taken, queue, redis, ann, announces, faults, now>>

\* The retry time and the status that the answer leaves the messenger with.
RetryAt(me) ==
    CASE me.ans = "limited"   -> now + 1
      [] me.ans = "temporary" -> nextDeliveryRetryAt(me.copy[me.m].attempts + 1, me.id)
      [] OTHER                -> NoTime

Result(me) ==
    CASE me.ans = "sent"     -> "SENT"
      [] me.ans = "unlinked" -> "SKIPPED"
      [] OTHER               -> IF RetryAt(me) = NoTime THEN "FAILED" ELSE "PENDING"

\* The columns written: a "slow down" counts no attempt and writes the time only.
Recorded(me) ==
    LET cur == notice[me.id][me.m]
    IN  CASE me.ans = "limited"  -> [cur EXCEPT !.at = RetryAt(me)]
          [] me.ans = "unlinked" -> Closed(cur, "SKIPPED")
          [] OTHER -> [status |-> Result(me), attempts |-> me.copy[me.m].attempts + 1, at |-> RetryAt(me)]

\* Mutated forms: a messenger that tries again later hands the notice on too; it has the
\* rest skipped; the messenger that sent is skipped with the rest.
AfterQueued_RetryAndNext(me) ==
    LET result == Result(me)
        others == Pending(me.copy) \ {me.m}
    IN  CASE result = "PENDING" ->
               [me EXCEPT !.pc = "follow",
                          !.out = {[me.job EXCEPT !.at = RetryAt(me)]} \cup NextJobs(me.id, me.copy, me.m)]
          [] result = "SENT" -> [me EXCEPT !.pc = IF others = {} THEN "follow" ELSE "skipOthers", !.todo = others]
          [] OTHER -> [me EXCEPT !.pc = "follow",
                                 !.out = IF me.open THEN NextJobs(me.id, me.copy, me.m) ELSE {}]
AfterQueued_RetrySkips(me) ==
    LET result == Result(me)
        others == Pending(me.copy) \ {me.m}
    IN  CASE result \in {"PENDING", "SENT"} ->
               [me EXCEPT !.pc = IF others = {} THEN "follow" ELSE "skipOthers", !.todo = others,
                          !.out = IF result = "PENDING" THEN {[me.job EXCEPT !.at = RetryAt(me)]} ELSE {}]
          [] OTHER -> [me EXCEPT !.pc = "follow",
                                 !.out = IF me.open THEN NextJobs(me.id, me.copy, me.m) ELSE {}]

\* deliverQueued after the send: again later, the rest skipped, or on to the next messenger.
AfterQueued(me) ==
    LET result == Result(me)
        others == Pending(me.copy) \ {me.m}
    IN  CASE result = "PENDING" -> [me EXCEPT !.pc = "follow", !.out = {[me.job EXCEPT !.at = RetryAt(me)]}]
          [] result = "SENT" -> [me EXCEPT !.pc = IF others = {} THEN "follow" ELSE "skipOthers", !.todo = others]
          [] OTHER -> [me EXCEPT !.pc = "follow",
                                 !.out = IF me.open THEN NextJobs(me.id, me.copy, me.m) ELSE {}]

\* deliverThroughOne after the send: once one messenger has it, the rest are skipped.
AfterSwept(me) ==
    [me EXCEPT !.pc = "scan", !.m = @ + 1, !.has = Result(me) \in {"SENT", "PENDING"}]

Record(p) ==
    LET me == proc[p]
    IN  /\ me.pc = "record"
        /\ Update(me.id, me.m, Recorded(me))
        /\ Set(p, IF p = "worker" THEN AfterSwept(me) ELSE AfterQueued(me))
        /\ UNCHANGED <<created, taken, queue, redis, ann, announces, faults, now, history>>

-----------------------------------------------------------------------------
(* The consumers: CargoDeliveryQueue.handle and CargoNotificationService.deliverQueued. *)

\* What the row read says of a send job.
Opened(j) ==
    LET me == [Idle EXCEPT !.job = j, !.id = j.id, !.copy = notice[j.id], !.m = j.m, !.open = j.id \notin taken]
    IN  CASE me.copy[j.m].status # "PENDING" -> [me EXCEPT !.pc = "follow"]
          [] me.copy[j.m].status = "PENDING" /\ AnySent(me.copy) -> [me EXCEPT !.pc = "close", !.ans = "SKIPPED"]
          [] me.copy[j.m].status = "PENDING" /\ ~AnySent(me.copy) /\ Stale(j.id, now) ->
                [me EXCEPT !.pc = "close", !.ans = "FAILED"]
          [] OTHER -> [me EXCEPT !.pc = IF DigestWindow = 0 THEN "send" ELSE "window"]

\* A job is handed out and the notice is read as it is now; a summary's mark is deleted.
Take(c, j) ==
    /\ proc[c].pc = "idle"
    /\ j.at <= now
    /\ queue' = queue (-) SetToBag({j})
    /\ IF j.kind = "send" THEN Set(c, Opened(j)) /\ UNCHANGED scheduled
       ELSE Set(c, [Idle EXCEPT !.pc = "digestRead", !.job = j, !.m = j.m, !.at = now]) /\ scheduled' = scheduled \ {j.m}
    /\ UNCHANGED <<notice, created, taken, window, held, ann, announces, faults, now, history>>

\* Sent elsewhere or gone stale: closed without a send.
Close(c) ==
    LET me == proc[c]
    IN  /\ me.pc = "close"
        /\ Update(me.id, me.m, Closed(notice[me.id][me.m], me.ans))
        /\ Set(c, [me EXCEPT !.pc = "follow"])
        /\ UNCHANGED <<created, taken, queue, redis, ann, announces, faults, now, history>>

SkipOthers(c) ==
    LET me == proc[c]
        k  == First(me.todo)
    IN  /\ me.pc = "skipOthers"
        /\ Update(me.id, k, Closed(notice[me.id][k], "SKIPPED"))
        /\ Set(c, [me EXCEPT !.todo = @ \ {k}, !.pc = IF me.todo = {k} THEN "follow" ELSE "skipOthers"])
        /\ UNCHANGED <<created, taken, queue, redis, ann, announces, faults, now, history>>

\* follow: the next jobs are published one by one, then the job is acknowledged.
Follow(c) ==
    LET me == proc[c]
    IN  /\ me.pc = "follow"
        /\ \/ /\ me.out = {}
              /\ Set(c, Idle)
              /\ UNCHANGED queue
           \/ \E j \in me.out :
              /\ queue' = queue (+) SetToBag({j})
              /\ Set(c, [me EXCEPT !.out = @ \ {j}])
        /\ UNCHANGED <<notice, created, taken, redis, ann, announces, faults, now, history>>

-----------------------------------------------------------------------------
(* holdForDigest: the loads that come within the window of one sent to the driver. *)

DigestWindowStep(c) ==
    LET me == proc[c]
    IN  /\ me.pc = "window"
        /\ IF window[me.m] > now
           THEN Set(c, [me EXCEPT !.pc = "hold"]) /\ UNCHANGED window
           ELSE Set(c, [me EXCEPT !.pc = "send"]) /\ window' = [window EXCEPT ![me.m] = now + DigestWindow]
        /\ UNCHANGED <<notice, created, taken, queue, held, scheduled, ann, announces, faults, now, history>>

Hold(c) ==
    LET me == proc[c]
    IN  /\ me.pc = "hold"
        /\ held' = [held EXCEPT ![me.m] = @ \cup {me.id}]
        /\ Set(c, [me EXCEPT !.pc = "schedule"])
        /\ UNCHANGED <<notice, created, taken, queue, window, scheduled, ann, announces, faults, now, history>>

\* The first held one schedules the summary for the window's end.
Schedule(c) ==
    LET me == proc[c]
        at == IF window[me.m] > now THEN window[me.m] ELSE now + 1
    IN  /\ me.pc = "schedule"
        /\ scheduled' = scheduled \cup {me.m}
        /\ Set(c, [me EXCEPT !.pc = "follow", !.out = IF me.m \in scheduled THEN {} ELSE {DigestJob(me.m, at)}])
        /\ UNCHANGED <<notice, created, taken, queue, window, held, ann, announces, faults, now, history>>

-----------------------------------------------------------------------------
(* deliverDigest *)

DigestRead(c) ==
    LET me == proc[c]
    IN  /\ me.pc = "digestRead"
        /\ Set(c, [me EXCEPT !.pc = "digestClear", !.ids = held[me.m]])
        /\ UNCHANGED <<notice, created, taken, queue, redis, ann, announces, faults, now, history>>

\* Mutated form: the whole hash is deleted, not the notices that were read.
DigestClear_All(c) ==
    LET me == proc[c]
    IN  /\ me.pc = "digestClear"
        /\ held' = [held EXCEPT ![me.m] = {}]
        /\ Set(c, [me EXCEPT !.pc = "digestRows"])
        /\ UNCHANGED <<notice, created, taken, queue, window, scheduled, ann, announces, faults, now, history>>

DigestClear(c) ==
    LET me == proc[c]
    IN  /\ me.pc = "digestClear"
        /\ held' = [held EXCEPT ![me.m] = @ \ me.ids]
        /\ Set(c, [me EXCEPT !.pc = "digestRows"])
        /\ UNCHANGED <<notice, created, taken, queue, window, scheduled, ann, announces, faults, now, history>>

\* A loaded notice is dropped from the summary: sent elsewhere, stale or its load taken.
Dropped(t, at) == AnySent(t.copy) \/ Stale(t.id, at) \/ ~t.open

DigestRows(c) ==
    LET me == proc[c]
    IN  /\ me.pc = "digestRows"
        /\ Set(c, [me EXCEPT !.pc = "digestSift",
                             !.rows = {t \in {Load(n) : n \in me.ids} : t.copy[me.m].status = "PENDING"}])
        /\ UNCHANGED <<notice, created, taken, queue, redis, ann, announces, faults, now, history>>

\* Each dropped one is closed; one left goes as its own message, more go together.
DigestSift(c) ==
    LET me   == proc[c]
        drop == {t \in me.rows : Dropped(t, me.at)}
    IN  /\ me.pc = "digestSift"
        /\ IF drop # {}
           THEN \E t \in drop :
                   /\ Update(t.id, me.m, Closed(notice[t.id][me.m], IF Stale(t.id, me.at) THEN "FAILED" ELSE "SKIPPED"))
                   /\ Set(c, [me EXCEPT !.rows = @ \ {t}])
           ELSE /\ IF Cardinality(me.rows) <= 1
                   THEN Set(c, [me EXCEPT !.pc = "follow", !.out = {SendJob(t.id, me.m) : t \in me.rows}])
                   ELSE Set(c, [me EXCEPT !.pc = "digestSend", !.ids = {t.id : t \in me.rows}])
                /\ UNCHANGED notice
        /\ UNCHANGED <<created, taken, queue, redis, ann, announces, faults, now, history>>

DigestSend(c) ==
    LET me   == proc[c]
        sent == {t.id : t \in me.rows}
    IN  /\ me.pc = "digestSend"
        /\ \E ans \in AnswersOf(me.m) :
              /\ Set(c, [me EXCEPT !.ans = IF ans = "permanent" THEN "FAILED" ELSE "SKIPPED",
                                   !.pc = CASE ans = "sent" -> "digestSent"
                                            [] ans \in {"unlinked", "permanent"} -> "handOn"
                                            [] OTHER -> "digestHold"])
              /\ got' = IF ans \in {"sent", "lost"}
                        THEN [n \in Notices |-> IF n \in sent /\ got[n] < 2 THEN got[n] + 1 ELSE got[n]] ELSE got
        /\ tried' = [n \in Notices |-> IF n \in sent THEN tried[n] \cup {me.m} ELSE tried[n]]
        /\ UNCHANGED <<notice, created, taken, queue, redis, ann, announces, faults, now>>

\* Notice by notice: sent here, skipped in the messengers that its copy has pending.
DigestSent(c) ==
    LET me == proc[c]
    IN  /\ me.pc = "digestSent"
        /\ IF me.ids = {}
           THEN /\ window' = [window EXCEPT ![me.m] = now + DigestWindow]
                /\ Set(c, [me EXCEPT !.pc = "follow"])
                /\ UNCHANGED notice
           ELSE \E t \in {r \in me.rows : r.id \in me.ids} :
                /\ notice' = [notice EXCEPT ![t.id] =
                      [m \in Messengers |->
                         LET cur == notice[t.id][m]
                         IN  IF m = me.m THEN Closed(cur, "SENT")
                             ELSE IF m \in Pending(t.copy) THEN Closed(cur, "SKIPPED") ELSE cur]]
                /\ Set(c, [me EXCEPT !.ids = @ \ {t.id}])
                /\ UNCHANGED window
        /\ UNCHANGED <<created, taken, queue, held, scheduled, ann, announces, faults, now, history>>

\* handOn: each notice is marked and goes to its next messenger still pending.
HandOn(c) ==
    LET me == proc[c]
    IN  /\ me.pc = "handOn"
        /\ \E t \in me.rows :
              /\ Update(t.id, me.m, Closed(notice[t.id][me.m], me.ans))
              /\ Set(c, [me EXCEPT !.rows = @ \ {t}, !.out = @ \cup NextJobs(t.id, t.copy, me.m),
                                   !.pc = IF me.rows = {t} THEN "follow" ELSE "handOn"])
        /\ UNCHANGED <<created, taken, queue, redis, ann, announces, faults, now, history>>

\* Held again, for a summary a little later.
DigestHold(c) ==
    LET me == proc[c]
    IN  /\ me.pc = "digestHold"
        /\ held' = [held EXCEPT ![me.m] = @ \cup {t.id : t \in me.rows}]
        /\ Set(c, [me EXCEPT !.pc = "digestLater"])
        /\ UNCHANGED <<notice, created, taken, queue, window, scheduled, ann, announces, faults, now, history>>

DigestLater(c) ==
    LET me == proc[c]
    IN  /\ me.pc = "digestLater"
        /\ scheduled' = scheduled \cup {me.m}
        /\ Set(c, [me EXCEPT !.pc = "follow", !.out = {DigestJob(me.m, now + 1)}])
        /\ UNCHANGED <<notice, created, taken, queue, window, held, ann, announces, faults, now, history>>

-----------------------------------------------------------------------------
(* CargoDeliveryRetryWorker.tick and deliverThroughOne *)

Expired(n) == created[n] # NoTime /\ created[n] < now - Window
Due(n, t) ==
    /\ created[n] # NoTime /\ created[n] >= t - Window
    /\ \E m \in Pending(notice[n]) : notice[n][m].at # NoTime /\ notice[n][m].at <= t

\* Mutated form: only the notices the sweep would try again are given up.
FailExpired_DueOnly(n) ==
    [m \in Messengers |-> IF Expired(n) /\ notice[n][m].status = "PENDING" /\ notice[n][m].at # NoTime
                          THEN Closed(notice[n][m], "FAILED") ELSE notice[n][m]]

\* failExpiredPending
FailExpired(n) ==
    [m \in Messengers |-> IF Expired(n) /\ notice[n][m].status = "PENDING"
                          THEN Closed(notice[n][m], "FAILED") ELSE notice[n][m]]

\* A sweep begins (one that finds nothing changes nothing and is left out).
Tick ==
    /\ WorkerOn
    /\ proc["worker"].pc = "idle"
    /\ \E n \in Notices : Due(n, now) \/ (Expired(n) /\ Pending(notice[n]) # {})
    /\ notice' = [n \in Notices |-> FailExpired(n)]
    /\ Set("worker", [Idle EXCEPT !.pc = "due", !.at = now])
    /\ UNCHANGED <<created, taken, queue, redis, ann, announces, faults, now, history>>

FindDue ==
    LET me   == proc["worker"]
        rows == {Load(n) : n \in {k \in Notices : Due(k, me.at)}}
    IN  /\ me.pc = "due"
        /\ Set("worker", IF rows = {} THEN Idle ELSE [me EXCEPT !.pc = "sweep", !.rows = rows])
        /\ UNCHANGED <<notice, created, taken, queue, redis, ann, announces, faults, now, history>>

\* retryDelivery of the next notice loaded.
SweepNext ==
    LET me == proc["worker"]
    IN  /\ me.pc = "sweep"
        /\ \E t \in me.rows :
              Set("worker", [me EXCEPT !.pc = "scan", !.rows = @ \ {t}, !.id = t.id, !.copy = t.copy,
                                       !.open = t.open, !.m = 1, !.has = AnySent(t.copy)])
        /\ UNCHANGED <<notice, created, taken, queue, redis, ann, announces, faults, now, history>>

\* One never tried has no time: its turn is now.
Ready(cell, t) == cell.at = NoTime \/ cell.at <= t

\* The next messenger pending in the copy: skipped when one has the notice, tried when its
\* time has come; one whose time has not come keeps the notice.
Scan(p) ==
    LET me   == proc[p]
        left == {m \in Pending(me.copy) : m >= me.m}
        k    == First(left)
    IN  /\ me.pc = "scan"
        /\ IF left = {}
           THEN Set(p, IF me.rows = {} THEN Idle ELSE [me EXCEPT !.pc = "sweep"]) /\ UNCHANGED notice
           ELSE IF me.has
           THEN Update(me.id, k, Closed(notice[me.id][k], "SKIPPED")) /\ Set(p, [me EXCEPT !.m = k + 1])
           ELSE Set(p, IF Ready(me.copy[k], me.at) THEN [me EXCEPT !.pc = "send", !.m = k]
                       ELSE [me EXCEPT !.has = TRUE, !.m = k + 1]) /\ UNCHANGED notice
        /\ UNCHANGED <<created, taken, queue, redis, ann, announces, faults, now, history>>

-----------------------------------------------------------------------------
(* What goes wrong around the handlers. *)

\* handle's catch: the job is tried again a little later, at most MaxTries times.
Thrown(me) ==
    IF me.job.tries + 1 >= MaxTries THEN Idle
    ELSE [me EXCEPT !.pc = "follow", !.out = {[me.job EXCEPT !.tries = @ + 1, !.at = now + 1]}]

\* A statement fails.  Inside the try of a send it counts as the messenger's failure, inside
\* a summary's it holds the notices again; elsewhere it ends the sweep or the job.
DatabaseFails(p) ==
    LET me == proc[p]
    IN  /\ me.pc \in {"send", "record", "close", "skipOthers", "digestRows", "digestSift", "digestSend", "digestSent",
                      "handOn", "due", "scan"}
        /\ me.pc = "digestSent" => me.ids # {}
        /\ Fault("database")
        /\ Set(p, CASE me.pc = "record" /\ me.ans = "sent" -> [me EXCEPT !.ans = "temporary"]
                    [] me.pc \in {"digestSend", "digestSent"} -> [me EXCEPT !.pc = "digestHold"]
                    [] OTHER -> IF p = "worker" THEN Idle ELSE Thrown(me))
        /\ UNCHANGED <<notice, created, taken, queue, redis, ann, announces, now, history>>

\* holdForDigest sends the load alone; deliverDigest throws, or holds a sent summary again
\* when it cannot open the next window.
RedisFails(c) ==
    LET me == proc[c]
    IN  /\ me.pc \in {"window", "hold", "schedule", "digestRead", "digestClear", "digestSent", "digestHold", "digestLater"}
        /\ me.pc = "digestSent" => me.ids = {}
        /\ Fault("redis")
        /\ Set(c, CASE me.pc \in {"window", "hold", "schedule"} -> [me EXCEPT !.pc = "send"]
                    [] me.pc = "digestSent" -> [me EXCEPT !.pc = "digestHold"]
                    [] OTHER -> Thrown(me))
        /\ UNCHANGED <<notice, created, taken, queue, redis, ann, announces, now, history>>

\* The next step could not be queued: Nack(true), the job comes again.
PublishFails(c) ==
    LET me == proc[c]
    IN  /\ me.pc = "follow" /\ me.out # {}
        /\ Fault("publish")
        /\ queue' = queue (+) SetToBag({me.job})
        /\ Set(c, Idle)
        /\ UNCHANGED <<notice, created, taken, redis, ann, announces, now, history>>

\* The jobs in hand, each once per consumer that holds it.
Unacknowledged ==
    LET busy == {c \in Consumers : proc[c].pc # "idle"}
    IN  [j \in {proc[c].job : c \in busy} |-> Cardinality({c \in busy : proc[c].job = j})]

\* The backend restarts: jobs in hand come again, everything else in memory is gone.
Crash ==
    /\ \/ \E p \in Procs : proc[p].pc # "idle"
       \/ \E n \in Notices : ann[n].pc # "idle"
    /\ Fault("crash")
    /\ queue' = queue (+) Unacknowledged
    /\ proc' = [p \in Procs |-> Idle]
    /\ ann' = [n \in Notices |-> [pc |-> "idle", m |-> 1]]
    /\ UNCHANGED <<notice, created, taken, redis, announces, now, history>>

\* The load is taken (CargoTrip), or the driver leaves its audience.
LoadTaken(n) ==
    /\ created[n] # NoTime /\ n \notin taken
    /\ taken' = taken \cup {n}
    /\ UNCHANGED <<notice, created, queue, redis, proc, ann, announces, faults, now, history>>

Wait ==
    /\ now < MaxTime
    /\ now' = now + 1
    /\ UNCHANGED <<notice, created, taken, queue, redis, proc, ann, announces, faults, history>>

\* The bound: the clock has run out.
ClockEnd == now = MaxTime /\ UNCHANGED vars

AnnouncerStep(n) == AnnounceRows(n) \/ AnnounceQueue(n) \/ ScheduleRetry(n)

ConsumerStep(c) ==
    \/ \E j \in BagToSet(queue) : Take(c, j)
    \/ Close(c) \/ Send(c) \/ Record(c) \/ SkipOthers(c) \/ Follow(c)
    \/ DigestWindowStep(c) \/ Hold(c) \/ Schedule(c)
    \/ DigestRead(c) \/ DigestClear(c) \/ DigestRows(c) \/ DigestSift(c) \/ DigestSend(c)
    \/ DigestSent(c) \/ HandOn(c) \/ DigestHold(c) \/ DigestLater(c)

WorkerStep == Tick \/ FindDue \/ SweepNext \/ Scan("worker") \/ Send("worker") \/ Record("worker")

Step ==
    \/ \E n \in Notices : Announce(n) \/ AnnouncerStep(n) \/ LoadTaken(n)
    \/ \E c \in Consumers : ConsumerStep(c) \/ RedisFails(c) \/ PublishFails(c)
    \/ \E p \in Procs : DatabaseFails(p)
    \/ WorkerStep \/ Crash \/ Wait \/ ClockEnd

Next == Step /\ UNCHANGED setup

Spec == Init /\ [][Next]_vars

\* The event loop runs the handlers on, RabbitMQ hands out its jobs, the worker's interval
\* fires again and again, and time passes; companies owe no announcement.
FairSpec ==
    /\ Spec
    /\ \A n \in Notices : WF_vars(AnnouncerStep(n) /\ UNCHANGED setup)
    /\ \A c \in Consumers : WF_vars(ConsumerStep(c) /\ UNCHANGED setup)
    /\ WF_vars(WorkerStep /\ UNCHANGED setup)
    /\ WF_vars(Wait /\ UNCHANGED setup)

-----------------------------------------------------------------------------
(* Properties *)

Pcs == {"idle", "send", "record", "close", "skipOthers", "follow", "window", "hold", "schedule",
        "digestRead", "digestClear", "digestRows", "digestSift", "digestSend", "digestSent", "handOn",
        "digestHold", "digestLater", "due", "sweep", "scan"}

Process == [pc : Pcs, job : Job, id : Notices \cup {NoNotice}, copy : Row, m : 1..(M + 1), open : BOOLEAN,
            ans : AllAnswers \cup Statuses \cup {"none"}, todo : SUBSET Messengers, ids : SUBSET Notices,
            rows : SUBSET Loaded, out : SUBSET Job, at : Nat, has : BOOLEAN]

\* The rows, the jobs, the keys in Redis and the handlers under way are of their types.
TypeOK ==
    /\ setup \in Setups
    /\ notice \in [Notices -> Row]
    /\ created \in [Notices -> 0..MaxTime]
    /\ taken \subseteq Notices
    /\ IsABag(queue) /\ BagToSet(queue) \subseteq Job
    /\ window \in [Messengers -> Nat]
    /\ held \in [Messengers -> SUBSET Notices]
    /\ scheduled \subseteq Messengers
    /\ proc \in [Procs -> Process]
    /\ ann \in [Notices -> [pc : {"idle", "rows", "queue", "schedule"}, m : Messengers]]
    /\ announces \in [Notices -> 0..setup.announces]
    /\ faults \in 0..MaxFaults
    /\ now \in 1..MaxTime
    /\ got \in [Notices -> 0..2]
    /\ tried \in [Notices -> SUBSET Messengers]

\* nextDeliveryRetryAt: a messenger that waits to be tried again has attempts left, and no
\* messenger counts more than MAX_DELIVERY_ATTEMPTS, although the queue and the worker
\* count from copies of their own and write over each other.
AttemptsBounded ==
    \A n \in Notices, m \in Messengers :
        /\ notice[n][m].attempts <= MaxAttempts
        /\ notice[n][m].status = "PENDING" => notice[n][m].attempts < MaxAttempts

\* One notice reaches the driver once, through one messenger, where no summaries are sent.
SentOnce == DigestWindow = 0 => \A n \in Notices : got[n] <= 1

\* A messenger that sent the notice stays SENT: nothing writes an older state over it, where
\* no summaries are sent.
SentIsFinal ==
    [][DigestWindow = 0 => \A n \in Notices, m \in Messengers :
         notice[n][m].status = "SENT" => notice'[n][m].status = "SENT"]_notice

\* In the queue a send that fails goes on to the next messenger (messengerOrder): when all
\* messengers are through and none sent the notice of an open load, none was passed over.
NotSwallowed ==
    \A n \in Notices :
        (QueueOn /\ created[n] # NoTime /\ n \notin taken /\ Pending(notice[n]) = {} /\ ~AnySent(notice[n])) =>
            \A m \in Routes : notice[n][m].status = "SKIPPED" => m \in tried[n]

\* Somebody still has the notice n in hand or will take it up.
InHand(n) == \E p \in Procs : /\ proc[p].pc # "idle"
                              /\ \/ proc[p].id = n
                                 \/ n \in proc[p].ids
                                 \/ \E t \in proc[p].rows : t.id = n
Queued(n) == \E j \in BagToSet(queue) : j.kind = "send" /\ j.id = n /\ notice[n][j.m].status = "PENDING"
DigestComing(m) ==
    \/ \E j \in BagToSet(queue) : j.kind = "digest" /\ j.m = m
    \/ \E c \in Consumers : \/ proc[c].pc = "digestRead" /\ proc[c].m = m
                            \/ \E j \in proc[c].out : j.kind = "digest" /\ j.m = m
InSummary(n) == \E m \in Messengers : n \in held[m] /\ DigestComing(m)
SweptLater(n) == WorkerOn /\ \E m \in Pending(notice[n]) : notice[n][m].at # NoTime

\* No notice is forgotten: while a notice of an open load can still go through some
\* messenger, a job, a summary, a sweep or a handler under way has it.
NothingForgotten ==
    \A n \in Notices :
        (/\ created[n] # NoTime /\ n \notin taken /\ ~Stale(n, now)
         /\ Pending(notice[n]) # {} /\ ~AnySent(notice[n]))
            => ann[n].pc # "idle" \/ InHand(n) \/ Queued(n) \/ InSummary(n) \/ SweptLater(n)

\* Every notice comes to an end: at last no messenger of it is pending any more, whatever
\* was lost on the way (the retry worker gives up after the window).
NoticeSettles == \A n \in Notices : (created[n] # NoTime) ~> [](Pending(notice[n]) = {})
=============================================================================
