------------------------------ MODULE BotPurchase ------------------------------
(***************************************************************************)
(* Buying a subscription in a messenger: the purchase session of ONE buyer  *)
(* in ONE messenger (BotSessionService, in Redis), the updates that          *)
(* MessengerBotService routes to BotAccountHandler and to the menu, and the  *)
(* orders that the buyer's receipts become.                                 *)
(*                                                                         *)
(* The messengers emit updates without waiting for the handler of the last  *)
(* one, so handlers of the same buyer run at once.  An action is what one    *)
(* handler does up to its next access to Redis or to the database.           *)
(* BotSessionService.update is two: it reads the session and writes the      *)
(* whole value back.  The buyer is linked, has a mobile and a role for       *)
(* which plans exist; what happens to a submitted order is SubscriptionOrder.*)
(***************************************************************************)
EXTENDS Integers, FiniteSets

CONSTANTS
    Handlers,       \* updates of the buyer that are handled at once
    Types,          \* AccountType
    Plans,          \* SubscriptionPlan ids
    PlanType,       \* plan -> its accountType
    RoleType,       \* accountTypeForRoles of the buyer
    Orders,         \* ids of orders
    None,           \* undefined, null
    PaymentTimeout, \* PAYMENT_TIMEOUT_SECONDS, in clock steps
    SessionTtl,     \* TELEGRAM_SESSION_TTL_SECONDS, in clock steps
    LockTtl,        \* 300 seconds of withReceiptLock, in clock steps
    Prompt,         \* TRUE: a receipt is downloaded and saved within LockTtl
    MaxUpdates,     \* bound: updates of the buyer
    MaxCrashes,     \* bound: restarts of the backend
    MaxTime         \* bound: the clock

ASSUME PurchaseAssumption ==
    /\ PlanType \in [Plans -> Types] /\ RoleType \in Types
    /\ None \notin Types \cup Plans \cup Orders \cup Handlers
    /\ PaymentTimeout \in Nat \ {0} /\ SessionTtl \in Nat \ {0} /\ LockTtl \in Nat \ {0}
    /\ Prompt \in BOOLEAN /\ MaxUpdates \in Nat /\ MaxCrashes \in Nat /\ MaxTime \in Nat

VARIABLES
    session,    \* BotSession in Redis; chosen: when its plan was chosen (history)
    expires,    \* when Redis drops the session
    lock,       \* telegramReceiptLock: its owner and when Redis drops it
    order,      \* SubscriptionOrder rows of the buyer in this messenger
    notices,    \* decided orders whose buyer is still to be told
    handler,    \* the handlers of the updates
    updates,    \* updates so far
    crashes,    \* crashes so far
    now         \* the clock

vars == <<session, expires, lock, order, notices, handler, updates, crashes, now>>

States == {"IDLE", "SELECTING_ACCOUNT_TYPE", "SELECTING_PLAN", "WAITING_FOR_RECEIPT", "UNDER_REVIEW"}
Session == [state : States, type : Types \cup {None}, plan : Plans \cup {None}, order : Orders \cup {None},
            until : Nat, chosen : Nat]
Order == [status : {"none", "pending", "approved", "rejected"}, chosen : Nat, at : Nat]
Steps == {"idle", "photo", "lock", "reread", "pending", "submit", "review", "unlock", "status", "statusSession",
          "menu", "ensure", "ensureSession", "ensureUpdate", "buy", "type", "plan", "planSet", "write"}
Handler == [pc : Steps, after : Steps, end : {"idle", "unlock"}, arg : Types \cup Plans \cup {None},
            copy : Session, order : Orders \cup {None}, menu : BOOLEAN, alone : BOOLEAN]

Blank == [state |-> "IDLE", type |-> None, plan |-> None, order |-> None, until |-> 0, chosen |-> 0]
Idle == [pc |-> "idle", after |-> "idle", end |-> "idle", arg |-> None, copy |-> Blank, order |-> None,
         menu |-> FALSE, alone |-> FALSE]

Init ==
    /\ session = Blank /\ expires = 0
    /\ lock = [owner |-> None, until |-> 0]
    /\ order = [o \in Orders |-> [status |-> "none", chosen |-> 0, at |-> 0]]
    /\ notices = {}
    /\ handler = [x \in Handlers |-> Idle]
    /\ updates = 0 /\ crashes = 0 /\ now = 0

rest == <<lock, order, notices, updates, crashes, now>>

Pending == {o \in Orders : order[o].status = "pending"}

(***************************************************************************)
(* BotSessionService.                                                       *)
(***************************************************************************)
\* get: a session without a deadline of its own lives on, one with it does not.
ExpiresOnGet_Always == IF expires = 0 THEN 0 ELSE now + SessionTtl
ExpiresOnGet == IF expires = 0 \/ session.until # 0 THEN expires ELSE now + SessionTtl

\* set: Redis drops the session at its deadline, or SessionTtl from now.
Expiry(s) == IF s.until # 0 THEN s.until ELSE now + SessionTtl

Put(s) ==
    IF Expiry(s) > now THEN session' = s /\ expires' = Expiry(s)
                       ELSE session' = Blank /\ expires' = 0

Go(x, h) == handler' = [handler EXCEPT ![x] = h]
To(x, pc) == [handler[x] EXCEPT !.pc = pc]
End(x) == IF handler[x].end = "idle" THEN Idle ELSE To(x, "unlock")

\* The handler has read the session and goes on as h.
Reads(x, h) ==
    /\ expires' = ExpiresOnGet
    /\ Go(x, h)
    /\ UNCHANGED <<session, rest>>

\* The handler x will write s and then go on at pc.
Writing(x, s, pc) == [handler[x] EXCEPT !.pc = "write", !.after = pc, !.copy = s]

Write(x) ==
    /\ handler[x].pc = "write"
    /\ Put(handler[x].copy)
    /\ Go(x, IF handler[x].after = "idle" THEN End(x) ELSE To(x, handler[x].after))
    /\ UNCHANGED rest

(***************************************************************************)
(* MessengerBotService: updates come in.                                    *)
(***************************************************************************)
Take(x, h) ==
    /\ handler[x] = Idle /\ updates < MaxUpdates
    /\ updates' = updates + 1
    /\ handler' = [y \in Handlers |->
                     IF y = x THEN [h EXCEPT !.alone = \A z \in Handlers \ {x} : handler[z] = Idle]
                              ELSE [handler[y] EXCEPT !.alone = FALSE]]
    /\ UNCHANGED <<session, expires, lock, order, notices, crashes, now>>

\* handleMessage: a photo, /payment, /start or the main menu, anything else.
TakeMessage(x) ==
    \/ Take(x, [Idle EXCEPT !.pc = "photo", !.menu = TRUE])
    \/ Take(x, [Idle EXCEPT !.pc = "status"])
    \/ Take(x, [Idle EXCEPT !.pc = "menu", !.menu = TRUE])
    \/ Take(x, [Idle EXCEPT !.pc = "ensure", !.menu = TRUE])

\* handleCallbackQuery: the buttons of the purchase; the others are as a message.
PressButton(x) ==
    \/ Take(x, [Idle EXCEPT !.pc = "write", !.after = "buy"])
    \/ \E t \in Types : Take(x, [Idle EXCEPT !.pc = "type", !.arg = t])
    \/ \E p \in Plans : Take(x, [Idle EXCEPT !.pc = "plan", !.arg = p])
    \/ Take(x, [Idle EXCEPT !.pc = "write", !.after = "ensure"])

(***************************************************************************)
(* The menu (openMainMenu, BotMenuService, BotSubscriptionService).         *)
(***************************************************************************)
\* openMainMenu keeps a purchase under way and clears anything else.
OpenMainMenu(x) ==
    /\ handler[x].pc = "menu"
    /\ Reads(x, IF session.state # "IDLE" THEN To(x, "ensure") ELSE Writing(x, Blank, "ensure"))

\* ensureActiveSubscription: an approved order is a subscription.
EnsureActiveSubscription(x) ==
    /\ handler[x].pc = "ensure"
    /\ Go(x, IF \E o \in Orders : order[o].status = "approved" THEN End(x) ELSE To(x, "ensureSession"))
    /\ UNCHANGED <<session, expires, rest>>

\* The states in which ensureActiveSubscription leaves the purchase as it is.
MenuKeeps_Review == {"UNDER_REVIEW"}
MenuKeeps == {"WAITING_FOR_RECEIPT", "UNDER_REVIEW"}

EnsureSession(x) ==
    /\ handler[x].pc = "ensureSession"
    /\ Reads(x, IF session.state \in MenuKeeps
                THEN To(x, "ensureUpdate")
                ELSE Writing(x, [Blank EXCEPT !.state = "SELECTING_PLAN", !.type = RoleType], "idle"))

EnsureUpdate(x) ==
    /\ handler[x].pc = "ensureUpdate"
    /\ Reads(x, Writing(x, [session EXCEPT !.type = RoleType], "idle"))

(***************************************************************************)
(* BotAccountHandler: the steps of a purchase.                              *)
(***************************************************************************)
\* startBuyAccount after its reset.
StartBuyAccount(x) ==
    /\ handler[x].pc = "buy"
    /\ Reads(x, Writing(x, [session EXCEPT !.state = "SELECTING_ACCOUNT_TYPE"], "idle"))

SelectAccountType(x) ==
    /\ handler[x].pc = "type"
    /\ Reads(x, Writing(x, [session EXCEPT !.state = "SELECTING_PLAN", !.type = handler[x].arg], "idle"))

\* selectPlan: no account type in the session, a plan of another type, or on to the payment.
SelectPlan(x) ==
    /\ handler[x].pc = "plan"
    /\ Reads(x, CASE session.type = None -> Writing(x, Blank, "ensure")
                  [] session.type = PlanType[handler[x].arg] -> [To(x, "planSet") EXCEPT !.copy = session]
                  [] OTHER -> End(x))

\* The purchase waits in Redis for its receipt until the payment window is over.
PlanSet(x) ==
    /\ handler[x].pc = "planSet"
    /\ Put([Blank EXCEPT !.state = "WAITING_FOR_RECEIPT", !.type = handler[x].copy.type,
                         !.plan = handler[x].arg, !.until = now + PaymentTimeout, !.chosen = now])
    /\ Go(x, End(x))
    /\ UNCHANGED rest

\* showPurchaseStatus reads the orders; one that is pending wins over the session.
ShowPurchaseStatus(x) ==
    /\ handler[x].pc = "status"
    /\ \/ \E o \in Pending :
            /\ \A q \in Pending : order[q].at <= order[o].at
            /\ Go(x, Writing(x, [Blank EXCEPT !.state = "UNDER_REVIEW", !.order = o], "idle"))
       \/ /\ Pending = {}
          /\ Go(x, To(x, "statusSession"))
    /\ UNCHANGED <<session, expires, rest>>

\* A purchase under way is shown; else the last order, whose session ends with it.
StatusSession(x) ==
    /\ handler[x].pc = "statusSession"
    /\ Reads(x, IF \/ session.state = "SELECTING_ACCOUNT_TYPE"
                   \/ session.state = "SELECTING_PLAN" /\ session.type # None
                   \/ session.state = "WAITING_FOR_RECEIPT" /\ session.order = None
                   \/ \A o \in Orders : order[o].status = "none"
                THEN End(x)
                ELSE Writing(x, Blank, "idle"))

(***************************************************************************)
(* BotAccountHandler.handleReceipt.                                         *)
(***************************************************************************)
Waiting == session.state = "WAITING_FOR_RECEIPT"

\* A photo that no purchase waits for goes on through the router.
HandleReceipt(x) ==
    /\ handler[x].pc = "photo"
    /\ Reads(x, IF Waiting THEN [To(x, "lock") EXCEPT !.menu = FALSE] ELSE To(x, "ensure"))

\* withReceiptLock: SET NX EX.
MayLock == lock.owner = None

ReceiptLock(x) ==
    /\ handler[x].pc = "lock"
    /\ \/ /\ MayLock
          /\ lock' = [owner |-> x, until |-> now + LockTtl]
          /\ Go(x, [To(x, "reread") EXCEPT !.end = "unlock"])
       \/ /\ ~MayLock
          /\ Go(x, End(x))
          /\ UNCHANGED lock
    /\ UNCHANGED <<session, expires, order, notices, updates, crashes, now>>

\* processReceipt reads the session again: another photo may have been first.
ReRead(x) ==
    /\ handler[x].pc = "reread"
    /\ Reads(x, IF Waiting THEN [To(x, "pending") EXCEPT !.copy = session] ELSE To(x, "status"))

\* A submission whose session was never updated: no second order.
FindPending_Unchecked(x) ==
    /\ handler[x].pc = "pending"
    /\ Go(x, To(x, "submit"))
    /\ UNCHANGED <<session, expires, rest>>
FindPending(x) ==
    /\ handler[x].pc = "pending"
    /\ \/ \E o \in Pending :
            Go(x, Writing(x, [Blank EXCEPT !.state = "UNDER_REVIEW", !.order = o], "idle"))
       \/ /\ Pending = {}
          /\ Go(x, To(x, "submit"))
    /\ UNCHANGED <<session, expires, rest>>

\* buildOrder refuses a plan of another account type.
OrderAccepted(s) == s.type = PlanType[s.plan]

\* The photo is downloaded and submitReceipt saves order and receipt in one transaction;
\* either may fail, and the buyer is told.
SubmitReceipt(x) ==
    LET s == handler[x].copy IN
    /\ handler[x].pc = "submit"
    /\ \/ /\ OrderAccepted(s)
          /\ \E o \in Orders :
               /\ order[o].status = "none"
               /\ order' = [order EXCEPT ![o] = [status |-> "pending", chosen |-> s.chosen, at |-> now]]
               /\ Go(x, [To(x, "review") EXCEPT !.order = o])
       \/ /\ Go(x, End(x))
          /\ UNCHANGED order
    /\ UNCHANGED <<session, expires, lock, notices, updates, crashes, now>>

\* The session is under review, without a deadline.
Review(x) ==
    /\ handler[x].pc = "review"
    /\ Reads(x, Writing(x, [session EXCEPT !.state = "UNDER_REVIEW", !.order = handler[x].order, !.until = 0],
                        "idle"))

\* deleteIfValue in the finally of withReceiptLock.
Unlock(x) ==
    /\ handler[x].pc = "unlock"
    /\ lock' = IF lock.owner = x THEN [owner |-> None, until |-> 0] ELSE lock
    /\ Go(x, Idle)
    /\ UNCHANGED <<session, expires, order, notices, updates, crashes, now>>

(***************************************************************************)
(* The admin, and the environment.                                          *)
(***************************************************************************)
\* approveOrder or rejectReceipt (SubscriptionOrder).
Decide(o) ==
    /\ o \in Pending
    /\ \E d \in {"approved", "rejected"} : order' = [order EXCEPT ![o].status = d]
    /\ notices' = notices \cup {o}
    /\ UNCHANGED <<session, expires, lock, handler, updates, crashes, now>>

\* sendAccountCredentials, sendSubscriptionActivated, sendSubscriptionRejected: the session
\* is deleted once the message is out.
Notify(o) ==
    /\ o \in notices
    /\ notices' = notices \ {o}
    /\ \/ session' = Blank /\ expires' = 0
       \/ UNCHANGED <<session, expires>>
    /\ UNCHANGED <<lock, order, handler, updates, crashes, now>>

Crash ==
    /\ crashes < MaxCrashes
    /\ crashes' = crashes + 1
    /\ handler' = [x \in Handlers |-> Idle]
    /\ notices' = {}
    /\ UNCHANGED <<session, expires, lock, order, updates, now>>

\* Time passes, and Redis drops what has expired.
Tick ==
    /\ now < MaxTime
    /\ Prompt => \A x \in Handlers : handler[x].end = "unlock" => now + 1 < lock.until
    /\ now' = now + 1
    /\ IF expires <= now' THEN session' = Blank /\ expires' = 0 ELSE UNCHANGED <<session, expires>>
    /\ lock' = IF lock.until <= now' THEN [owner |-> None, until |-> 0] ELSE lock
    /\ UNCHANGED <<order, notices, handler, updates, crashes>>

\* The bound: the clock has run out.
ClockEnd == now = MaxTime /\ UNCHANGED vars

Handling(x) ==
    \/ Write(x) \/ OpenMainMenu(x) \/ EnsureActiveSubscription(x) \/ EnsureSession(x) \/ EnsureUpdate(x)
    \/ StartBuyAccount(x) \/ SelectAccountType(x) \/ SelectPlan(x) \/ PlanSet(x)
    \/ ShowPurchaseStatus(x) \/ StatusSession(x)
    \/ HandleReceipt(x) \/ ReceiptLock(x) \/ ReRead(x) \/ FindPending(x) \/ SubmitReceipt(x) \/ Review(x)
    \/ Unlock(x)

Next ==
    \/ \E x \in Handlers : TakeMessage(x) \/ PressButton(x) \/ Handling(x)
    \/ \E o \in Orders : Decide(o) \/ Notify(o)
    \/ Crash \/ Tick \/ ClockEnd

Spec == Init /\ [][Next]_vars

(***************************************************************************)
(* Properties.                                                              *)
(***************************************************************************)
\* The state of the purchase is as BotSession, SubscriptionOrder and the handlers type it; a
\* purchase that waits for a receipt has its plan, and Redis drops it at its own deadline.
TypeOK ==
    /\ session \in Session /\ expires \in Nat
    /\ Waiting => session.plan \in Plans
    /\ session.until # 0 => expires = session.until
    /\ lock \in [owner : Handlers \cup {None}, until : Nat]
    /\ order \in [Orders -> Order]
    /\ notices \subseteq Orders
    /\ handler \in [Handlers -> Handler]
    /\ updates \in 0..MaxUpdates /\ crashes \in 0..MaxCrashes /\ now \in 0..MaxTime

\* processReceipt, "two photos sent back to back cannot create two orders": a buyer has one
\* order at a time that waits for its decision, crashes between saving the order and the
\* session included.
OneOpenOrder == Cardinality(Pending) <= 1

\* selectPlan, "expires after the payment window": an order comes of a plan that was chosen
\* within the payment window; no menu, read or write in between stretches the window.
WindowKept ==
    \A o \in Orders : order[o].status # "none" => order[o].at < order[o].chosen + PaymentTimeout + LockTtl

\* ensureActiveSubscription, openMainMenu: a message that only brings up the menu never ends
\* a purchase that waits for its receipt, when nothing else of the buyer runs meanwhile.
MenuKeepsPurchase ==
    [][\A x \in Handlers :
         (Waiting /\ handler[x].alone /\ handler[x].menu /\ handler'[x] # handler[x])
             => session'.state = "WAITING_FOR_RECEIPT"]_vars

\* ensureActiveSubscription, "Keep receipt upload and tracking available when the user
\* returns to the menu": a purchase that waits for its receipt has a plan that the receipt
\* can be submitted for.
ReceiptAccepted == Waiting => OrderAccepted(session)
=============================================================================
