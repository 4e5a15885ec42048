--------------------------- MODULE SubscriptionOrder ---------------------------
(***************************************************************************)
(* The subscription purchases of ONE buyer: orders and their receipts       *)
(* (PaymentReceiptService), the analysis of a receipt by the trigger that   *)
(* follows its submission and by ReceiptAnalysisWorker, the decision of an  *)
(* admin (AccountProvisioningService) and the free days that a purchase     *)
(* earns (SubscriptionRewardService).                                       *)
(*                                                                         *)
(* An order is saved with its one receipt (createOrder has no caller), so   *)
(* both carry the order's id.  The places that create orders look only for  *)
(* an open order of the same channel and without a lock: a buyer may have   *)
(* several open ones.  An action is what one party does between two awaits, *)
(* or one committed transaction; approveOrder is two, what it reads under   *)
(* the lock of the order row and its commit.                                *)
(***************************************************************************)
EXTENDS Integers, FiniteSets

CONSTANTS
    Orders,         \* orders of the buyer
    Admins,         \* requests of admins that run at once
    Worker,         \* ReceiptAnalysisWorker, the process beside the triggers
    Codes,          \* tracking codes the analyzer may read
    NoCode,         \* the analyzer reads none
    MaxAttempts,    \* RECEIPT_ANALYSIS_MAX_ATTEMPTS
    Fresh,          \* the minute a new receipt is left to its trigger, in clock steps
    Stale,          \* RECEIPT_ANALYSIS_STALE_MS, in clock steps
    Duration,       \* durationDays of the plan, in clock steps
    Tiers,          \* minTomans of the driver rewards, in orders paid
    BonusDays,      \* freeDays of a tier, in clock steps
    Careful,        \* TRUE: an admin decides only after the analysis has ended
    MaxFaults,      \* bound: crashes and failed queries
    FaultsBy,       \* bound: the last time of a fault
    SubmitBy,       \* bound: the last time an order is submitted
    MaxTime         \* bound: the clock

ASSUME SubscriptionAssumption ==
    /\ NoCode \notin Codes /\ Worker \notin Orders
    /\ MaxAttempts \in Nat \ {0} /\ Fresh \in Nat /\ Stale \in Nat
    /\ Duration \in Nat \ {0} /\ Tiers \subseteq Nat /\ BonusDays \in Nat \ {0}
    /\ Careful \in BOOLEAN
    /\ MaxFaults \in Nat /\ FaultsBy \in Nat /\ SubmitBy \in Nat /\ MaxTime \in Nat

VARIABLES
    order,      \* SubscriptionOrder.status; "none": not created
    receipt,    \* PaymentReceipt of the order; started: analysisStartedAt, kept while Analyzing
    account,    \* the buyer has a User
    subs,       \* Subscription rows of the buyer, all Active
    paidUntil,  \* the latest expireAt among subs, 0 when there is none
    bonuses,    \* SubscriptionBonus rows of the buyer
    bonusUntil, \* the latest expireAt among bonuses
    tiers,      \* SubscriptionPolicy.driverRewards
    proc,       \* processReceipt of each order's trigger and of the worker
    todo,       \* ids the worker's sweep has left
    admin,      \* requests of the admins
    faults,     \* faults so far
    now         \* the clock

rows == <<order, receipt>>
bought == <<account, subs, paidUntil>>
rewards == <<bonuses, bonusUntil, tiers>>
running == <<proc, todo>>
vars == <<rows, bought, rewards, running, admin, faults, now>>

OrderStatuses == {"none", "ReceiptSubmitted", "UnderReview", "Approved", "Rejected"}
ReceiptStatuses == {"none", "PendingAnalysis", "Analyzing", "NeedsReview", "Approved", "Rejected"}
Queued == {"PendingAnalysis", "Analyzing"}

Receipt == [status : ReceiptStatuses, attempts : Nat, started : Nat, created : Nat, code : Codes \cup {NoCode}]
Sub == [order : Orders, start : Nat, end : Nat]
Bonus == [tier : Tiers, start : Nat, end : Nat]
Procs == Orders \cup {Worker}
Proc == [pc : {"idle", "find", "next", "claim", "read", "analyze", "save", "release"},
         order : Procs, copy : Receipt]
Admin == [pc : {"idle", "commit", "paid", "grant"}, order : Procs, start : Nat, newUser : BOOLEAN,
          due : SUBSET Tiers]

NoReceipt == [status |-> "none", attempts |-> 0, started |-> 0, created |-> 0, code |-> NoCode]
Idle == [pc |-> "idle", order |-> Worker, copy |-> NoReceipt]
Free == [pc |-> "idle", order |-> Worker, start |-> 0, newUser |-> FALSE, due |-> {}]

Later(s, t) == IF s > t THEN s ELSE t

Init ==
    /\ order = [o \in Orders |-> "none"]
    /\ receipt = [o \in Orders |-> NoReceipt]
    /\ account \in BOOLEAN
    /\ subs = {} /\ paidUntil = 0
    /\ bonuses = {} /\ bonusUntil = 0 /\ tiers = {}
    /\ proc = [p \in Procs |-> Idle]
    /\ todo = {}
    /\ admin = [a \in Admins |-> Free]
    /\ faults = 0 /\ now = 0

(***************************************************************************)
(* PaymentReceiptService.                                                   *)
(***************************************************************************)
\* submitReceipt of a new order: order and receipt in one transaction, then the
\* trigger `void processReceipt`.
SubmitReceipt(o) ==
    /\ order[o] = "none" /\ now <= SubmitBy
    /\ order' = [order EXCEPT ![o] = "ReceiptSubmitted"]
    /\ receipt' = [receipt EXCEPT ![o] = [NoReceipt EXCEPT !.status = "PendingAnalysis", !.created = now]]
    /\ proc' = [proc EXCEPT ![o] = [Idle EXCEPT !.pc = "claim", !.order = o]]
    /\ UNCHANGED <<bought, rewards, todo, admin, faults, now>>

\* The trigger ends; the worker goes on with the next id of its sweep.
Done(p) == [Idle EXCEPT !.pc = IF p = Worker THEN "next" ELSE "idle"]

\* The columns claimForAnalysis sets.
Claimed(r) == [r EXCEPT !.status = "Analyzing", !.started = now, !.attempts = @ + 1]

\* claimForAnalysis: one conditional UPDATE.
Claim(p) ==
    LET o == proc[p].order IN
    /\ proc[p].pc = "claim"
    /\ \/ /\ receipt[o].status = "PendingAnalysis"
          /\ receipt' = [receipt EXCEPT ![o] = Claimed(@)]
          /\ proc' = [proc EXCEPT ![p].pc = "read"]
       \/ /\ receipt[o].status # "PendingAnalysis"
          /\ proc' = [proc EXCEPT ![p] = Done(p)]
          /\ UNCHANGED receipt
    /\ UNCHANGED <<order, bought, rewards, todo, admin, faults, now>>

\* analyzeReceipt reads receipt and order; the claim may have gone stale meanwhile.
ReadReceipt(p) ==
    LET o == proc[p].order IN
    /\ proc[p].pc = "read"
    /\ proc' = [proc EXCEPT ![p] = IF receipt[o].status = "Analyzing"
                                   THEN [@ EXCEPT !.pc = "analyze", !.copy = [receipt[o] EXCEPT !.started = 0]]
                                   ELSE Done(p)]
    /\ UNCHANGED <<rows, bought, rewards, todo, admin, faults, now>>

\* The analyzer answers, or fails.  What else it extracts, and the matches and the
\* duplicate flag computed from it, are shown to the admin and decide nothing.
Analyze(p) ==
    /\ proc[p].pc = "analyze"
    /\ \/ \E c \in Codes \cup {NoCode} :
            proc' = [proc EXCEPT ![p].pc = "save", ![p].copy.code = c]
       \/ proc' = [proc EXCEPT ![p].pc = "release"]
    /\ UNCHANGED <<rows, bought, rewards, todo, admin, faults, now>>

\* A transaction of approveOrder holds the order row.
Locked(o) == \E a \in Admins : admin[a].pc = "commit" /\ admin[a].order = o

\* The order's status after the analysis, whatever it was.
StatusAfterAnalysis_KeepsDecision(s) == IF s \in {"Approved", "Rejected"} THEN s ELSE "UnderReview"
StatusAfterAnalysis(s) == "UnderReview"

\* saveWithOrder at the end of analyzeReceipt: the whole copies it read are written.
SaveAnalysis(p) ==
    LET o == proc[p].order IN
    /\ proc[p].pc = "save" /\ ~Locked(o)
    /\ order' = [order EXCEPT ![o] = StatusAfterAnalysis(@)]
    /\ receipt' = [receipt EXCEPT ![o] = [proc[p].copy EXCEPT !.status = "NeedsReview", !.started = 0]]
    /\ proc' = [proc EXCEPT ![p] = Done(p)]
    /\ UNCHANGED <<bought, rewards, todo, admin, faults, now>>

\* The receipt after an analysis that failed or went stale.
Released_OnceMore(r) ==
    [r EXCEPT !.status = IF r.attempts > MaxAttempts THEN "NeedsReview" ELSE "PendingAnalysis",
              !.started = 0]
Released(r) ==
    [r EXCEPT !.status = IF r.attempts >= MaxAttempts THEN "NeedsReview" ELSE "PendingAnalysis",
              !.started = 0]

\* releaseFailedAnalysis: one UPDATE, only of a receipt that is Analyzing.
ReleaseFailed(p) ==
    LET o == proc[p].order IN
    /\ proc[p].pc = "release"
    /\ receipt' = [receipt EXCEPT ![o] = IF @.status = "Analyzing" THEN Released(@) ELSE @]
    /\ proc' = [proc EXCEPT ![p] = Done(p)]
    /\ UNCHANGED <<order, bought, rewards, todo, admin, faults, now>>

(***************************************************************************)
(* ReceiptAnalysisWorker.tick.                                              *)
(***************************************************************************)
\* A claim whose process died, as far as one can tell.
StaleClaim_Never(r) == FALSE
StaleClaim(r) == r.status = "Analyzing" /\ r.started + Stale < now

\* releaseStaleAnalyses: one UPDATE over the table.
ReleaseStale ==
    /\ proc[Worker].pc = "idle"
    /\ receipt' = [o \in Orders |->
                     IF StaleClaim(receipt[o]) THEN Released(receipt[o]) ELSE receipt[o]]
    /\ proc' = [proc EXCEPT ![Worker].pc = "find"]
    /\ UNCHANGED <<order, bought, rewards, todo, admin, faults, now>>

FindPending ==
    /\ proc[Worker].pc = "find"
    /\ todo' = {o \in Orders : receipt[o].status = "PendingAnalysis" /\ receipt[o].created + Fresh < now}
    /\ proc' = [proc EXCEPT ![Worker].pc = "next"]
    /\ UNCHANGED <<rows, bought, rewards, admin, faults, now>>

\* One at a time, the oldest first.
ProcessNext ==
    /\ proc[Worker].pc = "next"
    /\ \/ \E o \in todo :
            /\ \A q \in todo : receipt[o].created <= receipt[q].created
            /\ todo' = todo \ {o}
            /\ proc' = [proc EXCEPT ![Worker].pc = "claim", ![Worker].order = o]
       \/ /\ todo = {}
          /\ proc' = [proc EXCEPT ![Worker] = Idle]
          /\ UNCHANGED todo
    /\ UNCHANGED <<rows, bought, rewards, admin, faults, now>>

(***************************************************************************)
(* AccountProvisioningService and SubscriptionRewardService, called by the  *)
(* admin's controllers.                                                     *)
(***************************************************************************)
\* The admin decides only what the analysis has put before them.
Settled(o) ==
    /\ receipt[o].status \notin Queued
    /\ \A p \in Procs : proc[p].order = o => proc[p].pc \notin {"analyze", "save"}

\* No approved receipt of another order has this receipt's tracking code.
CodeUnused(o) ==
    receipt[o].code # NoCode =>
        \A q \in Orders \ {o} : receipt[q].status = "Approved" => receipt[q].code # receipt[o].code

\* startAt of a new subscription: the end of the current one, or now.
StartAt_Now == now
StartAt == Later(paidUntil, now)

\* "Resolve the buyer": no user is linked to the messenger account or has the phone number.
NewUser == ~account

\* approveOrder up to its writes: the order row is locked, the checks pass, the buyer
\* and the end of the buyer's current subscription are looked up.
ApproveReads(a, o) ==
    /\ admin[a].pc = "idle" /\ ~Locked(o)
    /\ Careful => Settled(o)
    /\ order[o] \notin {"none", "Approved"}
    /\ receipt[o].status \notin {"Rejected", "Approved"}
    /\ CodeUnused(o)
    /\ admin' = [admin EXCEPT ![a] = [Free EXCEPT !.pc = "commit", !.order = o,
                                        !.start = StartAt, !.newUser = NewUser]]
    /\ UNCHANGED <<rows, bought, rewards, running, faults, now>>

\* approveOrder commits.  A user that was created meanwhile has the same mobile: the
\* unique index fails the transaction.
ApproveCommits(a) ==
    LET o == admin[a].order
        end == admin[a].start + Duration
    IN
    /\ admin[a].pc = "commit"
    /\ \/ /\ admin[a].newUser /\ account
          /\ admin' = [admin EXCEPT ![a] = Free]
          /\ UNCHANGED <<rows, bought>>
       \/ /\ ~(admin[a].newUser /\ account)
          /\ account' = TRUE
          /\ subs' = subs \cup {[order |-> o, start |-> admin[a].start, end |-> end]}
          /\ paidUntil' = Later(paidUntil, end)
          /\ receipt' = [receipt EXCEPT ![o].status = "Approved", ![o].started = 0]
          /\ order' = [order EXCEPT ![o] = "Approved"]
          /\ admin' = [admin EXCEPT ![a] = [Free EXCEPT !.pc = "paid"]]
    /\ UNCHANGED <<rewards, running, faults, now>>

\* An approved order cannot be rejected.
MayReject_Any(o) == order[o] # "none"
MayReject(o) == order[o] \notin {"none", "Approved"}

\* rejectReceipt: a transaction that holds the order row.
RejectReceipt(a, o) ==
    /\ admin[a].pc = "idle" /\ ~Locked(o)
    /\ Careful => Settled(o)
    /\ MayReject(o)
    /\ receipt' = [receipt EXCEPT ![o].status = "Rejected", ![o].started = 0]
    /\ order' = [order EXCEPT ![o] = "Rejected"]
    /\ UNCHANGED <<bought, rewards, running, admin, faults, now>>

\* paidTomans: the orders of the buyer's subscriptions that are Approved, a price each.
PaidTomans == Cardinality({s \in subs : order[s.order] = "Approved"})

\* grantEarned reads what was paid and the tiers it passes.
ReadPaid(a) ==
    /\ admin[a].pc = "paid"
    /\ admin' = [admin EXCEPT ![a].pc = "grant", ![a].due = {t \in tiers : PaidTomans >= t}]
    /\ UNCHANGED <<rows, bought, rewards, running, faults, now>>

\* The later of now, the end of the subscription and the end of the last bonus.
FreeFrom_AfterPaid == Later(now, paidUntil)
FreeFrom == Later(now, Later(paidUntil, bonusUntil))

\* One tier of grantEarned: a transaction under the buyer's advisory lock.
GrantTier(a) ==
    /\ admin[a].pc = "grant"
    /\ \/ \E t \in admin[a].due :
            /\ \A u \in admin[a].due : t <= u
            /\ admin' = [admin EXCEPT ![a].due = @ \ {t}]
            /\ IF \E b \in bonuses : b.tier = t
               THEN UNCHANGED <<bonuses, bonusUntil>>
               ELSE /\ bonuses' = bonuses \cup {[tier |-> t, start |-> FreeFrom, end |-> FreeFrom + BonusDays]}
                    /\ bonusUntil' = FreeFrom + BonusDays
       \/ /\ admin[a].due = {}
          /\ admin' = [admin EXCEPT ![a] = Free]
          /\ UNCHANGED <<bonuses, bonusUntil>>
    /\ UNCHANGED <<rows, bought, tiers, running, faults, now>>

\* The policy gets its tiers: grantEarnedForAll for a buyer with an approved order.
SetRewards(a) ==
    /\ admin[a].pc = "idle" /\ tiers # Tiers
    /\ tiers' = Tiers
    /\ admin' = [admin EXCEPT ![a].pc = IF PaidTomans > 0 THEN "paid" ELSE "idle"]
    /\ UNCHANGED <<rows, bought, bonuses, bonusUntil, running, faults, now>>

(***************************************************************************)
(* Faults and time.                                                         *)
(***************************************************************************)
Fault == faults < MaxFaults /\ now <= FaultsBy /\ faults' = faults + 1

\* A query of processReceipt or of the sweep fails.  processReceipt never throws: a
\* failed claim or release is only logged, any other failure releases the receipt.
QueryFails(p) ==
    /\ Fault
    /\ proc[p].pc \in {"find", "claim", "read", "save", "release"}
    /\ proc' = [proc EXCEPT ![p] = CASE @.pc \in {"read", "save"} -> [@ EXCEPT !.pc = "release"]
                                     [] @.pc \in {"claim", "release"} -> Done(p)
                                     [] OTHER -> Idle]
    /\ UNCHANGED <<rows, bought, rewards, todo, admin, now>>

\* The process dies: its transactions roll back, what it was doing is forgotten.
Crash ==
    /\ Fault
    /\ proc' = [p \in Procs |-> Idle]
    /\ todo' = {}
    /\ admin' = [a \in Admins |-> Free]
    /\ UNCHANGED <<rows, bought, rewards, now>>

Tick ==
    /\ now < MaxTime
    /\ now' = now + 1
    /\ UNCHANGED <<rows, bought, rewards, running, admin, faults>>

Analysis(p) == Claim(p) \/ ReadReceipt(p) \/ Analyze(p) \/ SaveAnalysis(p) \/ ReleaseFailed(p)
Sweep == ReleaseStale \/ FindPending \/ ProcessNext
Decision(a) == ApproveCommits(a) \/ ReadPaid(a) \/ GrantTier(a)
Request(a) == SetRewards(a) \/ \E o \in Orders : ApproveReads(a, o) \/ RejectReceipt(a, o)

Next ==
    \/ \E o \in Orders : SubmitReceipt(o)
    \/ \E p \in Procs : Analysis(p) \/ QueryFails(p)
    \/ Sweep
    \/ \E a \in Admins : Decision(a) \/ Request(a)
    \/ Crash
    \/ Tick

Spec == Init /\ [][Next]_vars

\* The event loop runs what it has started, setInterval keeps the sweep coming, a
\* transaction that began ends, and time passes.  Buyers and admins need not act.
Fairness ==
    /\ \A p \in Procs : WF_vars(Analysis(p))
    /\ WF_vars(Sweep)
    /\ \A a \in Admins : WF_vars(Decision(a))
    /\ WF_vars(Tick)

FairSpec == Spec /\ Fairness

(***************************************************************************)
(* Properties.                                                              *)
(***************************************************************************)
\* Rows, processes and requests are of their types: no time is before the first, and what a
\* process holds is a row that there is.
TypeOK ==
    /\ order \in [Orders -> OrderStatuses]
    /\ receipt \in [Orders -> Receipt]
    /\ account \in BOOLEAN
    /\ subs \subseteq Sub /\ paidUntil \in Nat
    /\ bonuses \subseteq Bonus /\ bonusUntil \in Nat /\ tiers \in SUBSET Tiers
    /\ proc \in [Procs -> Proc]
    /\ todo \in SUBSET Orders
    /\ admin \in [Admins -> Admin]
    /\ faults \in Nat /\ now \in Nat

\* saveWithOrder, approveOrder, rejectReceipt: order and receipt tell the same decision,
\* whatever analyses, sweeps and admins do at once.
DecisionsAgree ==
    \A o \in Orders : \A s \in {"Approved", "Rejected"} : order[o] = s <=> receipt[o].status = s

\* releaseFailedAnalysis, releaseStaleAnalyses: no receipt is sent to the analyzer more
\* than RECEIPT_ANALYSIS_MAX_ATTEMPTS times, stale claims and crashes included.
AttemptsBounded == \A o \in Orders : receipt[o].attempts <= MaxAttempts

\* approveOrder, step 6: a payment's tracking code is used for one order only.
CodeUsedOnce ==
    \A o, q \in Orders :
        o # q /\ receipt[o].status = "Approved" /\ receipt[q].status = "Approved" =>
            receipt[o].code = NoCode \/ receipt[o].code # receipt[q].code

\* approveOrder, step 14: a renewal starts where the last paid period ends.
PaidDaysApart ==
    \A s, t \in subs : s = t \/ s.end <= t.start \/ t.end <= s.start

\* SubscriptionBonus: the same reason is never given twice, and free days start after
\* the days the buyer had paid for by then and after earlier free days.
BonusesApart ==
    \A b, c \in bonuses :
        b = c \/ (b.tier # c.tier /\ (b.end <= c.start \/ c.end <= b.start))

\* approveOrder, "Subscription order has already been approved": an order gives its
\* buyer one period.
OnePeriodPerOrder == \A s, t \in subs : s.order = t.order => s = t

\* SubscriptionBonus, "so no paid day is lost": no day is both paid for and free.
NoPaidDayIsFree ==
    \A s \in subs, b \in bonuses : s.end <= b.start \/ b.end <= s.start

\* The abstract specification this one implements when the admins are careful.
Decided(o) ==
    CASE order[o] = "none" -> "none"
      [] order[o] = "Approved" -> "approved"
      [] order[o] = "Rejected" -> "rejected"
      [] OTHER -> "open"
OD == INSTANCE OrderDecision
        WITH decision <- [o \in Orders |-> Decided(o)],
             given <- [o \in Orders |-> Cardinality({s \in subs : s.order = o})]

\* A submitted order is decided at most once, the decision stands and an approval gives
\* one period (approveOrder and rejectReceipt refuse an approved order).
DecidedOnce == OD!Spec

\* ReceiptAnalysisWorker, "nothing is lost": a submitted receipt comes before the admin,
\* analyzed or given up, whatever query fails and whenever the process dies.
ReceiptSettles ==
    \A o \in Orders : (receipt[o].status \in Queued) ~> (receipt[o].status \notin Queued)
=============================================================================
