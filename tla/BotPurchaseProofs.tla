--------------------------- MODULE BotPurchaseProofs ---------------------------
(***************************************************************************)
(* Proofs about BotPurchase, for every number of handlers, orders, plans     *)
(* and types, updates and restarts and every length of the payment window,  *)
(* the session and the lock.                                                *)
(*                                                                         *)
(* Handlers write back sessions they read earlier, so what holds of the     *)
(* session in Redis must hold of every copy too; and the checks made under  *)
(* the receipt lock count only while the lock has not expired.              *)
(***************************************************************************)
EXTENDS BotPurchase, FiniteSetTheorems, TLAPS

\* A session that waits for a receipt has its plan and the end of its payment window.
SessOK(s) ==
    s.state = "WAITING_FOR_RECEIPT" => s.plan \in Plans /\ s.until = s.chosen + PaymentTimeout

\* What Redis holds has not expired.
StoredOK ==
    /\ SessOK(session)
    /\ expires = 0 => session = Blank
    /\ expires # 0 => now < expires

\* Steps inside withReceiptLock, and the steps of a message that only brings up the menu.
UnderLock == {"reread", "pending", "submit", "review", "unlock"}
MenuSteps == {"photo", "menu", "ensure", "ensureSession", "ensureUpdate", "write"}

\* What a handler knows by where it is.
HandlerOK(h) ==
    /\ h.pc \in UnderLock => h.end = "unlock"
    /\ h.after \in {"idle", "buy", "ensure"}
    /\ h.pc \in {"plan", "planSet"} => h.arg \in Plans
    /\ h.pc = "type" => h.arg \in Types
    /\ h.menu => h.end = "idle" /\ h.pc \in MenuSteps /\ h.after \in {"idle", "ensure"}
    /\ SessOK(h.copy)

HandlersOK == \A x \in Handlers : HandlerOK(handler[x])

\* Nothing else of the buyer runs beside a handler that is alone, ...
AloneOK == \A x \in Handlers : handler[x].alone => \A z \in Handlers \ {x} : handler[z] = Idle

\* ... so what the menu is about to write is the purchase that waits.
MenuOK(h) ==
    h.alone /\ h.menu /\ h.pc = "write" /\ Waiting =>
        h.copy.state = "WAITING_FOR_RECEIPT" /\ h.copy.until = session.until

\* The inductive invariant.
IInv == TypeOK /\ StoredOK /\ HandlersOK /\ AloneOK /\ \A x \in Handlers : MenuOK(handler[x])

\* The lock of a handler that is at work has not expired, and was taken no longer ago than
\* LockTtl; what it will submit was read within its payment window and with no order open.
LockedOK(x) ==
    LET h == handler[x] IN
    /\ h.end = "unlock" => lock.owner = x /\ now < lock.until
    /\ h.pc \in {"pending", "submit"} => lock.until < h.copy.chosen + PaymentTimeout + LockTtl
    /\ h.pc = "submit" => Pending = {}

\* The inductive invariant of the receipts, when they are handled promptly.
PInv ==
    /\ IInv
    /\ \A x \in Handlers : LockedOK(x)
    /\ lock.until <= now + LockTtl
    /\ \A o, q \in Pending : o = q
    /\ WindowKept

-----------------------------------------------------------------------------
(* Facts about the operators. *)

LEMMA Durations ==
    /\ PaymentTimeout \in Nat /\ PaymentTimeout > 0 /\ SessionTtl \in Nat /\ SessionTtl > 0
    /\ LockTtl \in Nat /\ LockTtl > 0 /\ MaxTime \in Nat /\ MaxUpdates \in Nat /\ MaxCrashes \in Nat
BY PurchaseAssumption DEF PurchaseAssumption

LEMMA Names ==
    /\ RoleType \in Types
    /\ None \notin Types /\ None \notin Plans /\ None \notin Orders /\ None \notin Handlers
BY PurchaseAssumption DEF PurchaseAssumption

LEMMA BlankFacts ==
    /\ Blank \in Session /\ SessOK(Blank) /\ Blank.state = "IDLE" /\ Blank.until = 0
BY DEF Blank, Session, States, SessOK

LEMMA IdleFacts ==
    /\ Idle \in Handler /\ HandlerOK(Idle) /\ Idle.pc = "idle" /\ Idle.end = "idle"
    /\ Idle.alone = FALSE /\ Idle.menu = FALSE
<1>1. Idle \in Handler
  BY BlankFacts DEF Idle, Handler, Steps
<1>2. Idle.copy = Blank
  BY DEF Idle
<1>3. HandlerOK(Idle)
  BY <1>2, BlankFacts DEF Idle, HandlerOK, UnderLock
<1> QED BY <1>1, <1>3 DEF Idle

\* TypeOK but for the session and the handlers.
RestTyped ==
    /\ lock \in [owner : Handlers \cup {None}, until : Nat]
    /\ order \in [Orders -> Order]
    /\ notices \subseteq Orders
    /\ updates \in 0..MaxUpdates /\ crashes \in 0..MaxCrashes /\ now \in 0..MaxTime

\* What the invariants say of the session in Redis.
SessionOK ==
    /\ session \in Session /\ expires \in Nat
    /\ Waiting => session.plan \in Plans
    /\ session.until # 0 => expires = session.until
    /\ StoredOK

LEMMA InvParts ==
    ASSUME IInv
    PROVE  RestTyped /\ SessionOK /\ handler \in [Handlers -> Handler] /\ HandlersOK /\ AloneOK /\ now \in Nat
<1>1. TypeOK /\ StoredOK /\ HandlersOK /\ AloneOK
  BY DEF IInv
<1>2. RestTyped /\ handler \in [Handlers -> Handler]
  BY <1>1 DEF TypeOK, RestTyped
<1>3. SessionOK
  BY <1>1 DEF TypeOK, SessionOK
<1>4. now \in Nat
  BY <1>1, Durations DEF TypeOK
<1> QED BY <1>1, <1>2, <1>3, <1>4

\* A handler that is at another step, and is otherwise the same.
LEMMA ToFacts ==
    ASSUME IInv, NEW x \in Handlers, NEW pc \in Steps,
           pc \in UnderLock => handler[x].end = "unlock",
           pc \in {"plan", "planSet"} => handler[x].arg \in Plans,
           pc = "type" => handler[x].arg \in Types,
           handler[x].menu => pc \in MenuSteps
    PROVE  /\ To(x, pc) \in Handler /\ HandlerOK(To(x, pc)) /\ To(x, pc).pc = pc
           /\ To(x, pc).alone = handler[x].alone /\ To(x, pc).end = handler[x].end
           /\ To(x, pc).copy = handler[x].copy /\ To(x, pc).menu = handler[x].menu
           /\ To(x, pc).arg = handler[x].arg /\ To(x, pc).after = handler[x].after
<1>1. PICK me : me = handler[x]
  OBVIOUS
<1>2. me \in Handler /\ HandlerOK(me)
  BY <1>1, InvParts DEF HandlersOK
<1>3. PICK h : h = [me EXCEPT !.pc = pc]
  OBVIOUS
<1>4. h \in Handler
  BY <1>2, <1>3 DEF Handler
<1>5. /\ h.pc = pc /\ h.after = me.after /\ h.end = me.end /\ h.arg = me.arg
      /\ h.copy = me.copy /\ h.menu = me.menu /\ h.alone = me.alone
  BY <1>2, <1>3 DEF Handler
<1>6. HandlerOK(h)
  BY <1>1, <1>2, <1>5 DEF HandlerOK
<1>7. To(x, pc) = h
  BY <1>1, <1>3 DEF To
<1> QED BY <1>1, <1>4, <1>5, <1>6, <1>7

\* A handler that has read and will write s.
LEMMA WritingFacts ==
    ASSUME IInv, NEW x \in Handlers, NEW s \in Session, SessOK(s), NEW pc \in {"idle", "ensure"}
    PROVE  /\ Writing(x, s, pc) \in Handler /\ HandlerOK(Writing(x, s, pc))
           /\ Writing(x, s, pc).pc = "write" /\ Writing(x, s, pc).copy = s
           /\ Writing(x, s, pc).alone = handler[x].alone /\ Writing(x, s, pc).end = handler[x].end
           /\ Writing(x, s, pc).menu = handler[x].menu
<1>1. PICK me : me = handler[x]
  OBVIOUS
<1>2. me \in Handler /\ HandlerOK(me)
  BY <1>1, InvParts DEF HandlersOK
<1>3. PICK h : h = [me EXCEPT !.pc = "write", !.after = pc, !.copy = s]
  OBVIOUS
<1>4. h \in Handler
  BY <1>2, <1>3 DEF Handler, Steps
<1>5. /\ h.pc = "write" /\ h.after = pc /\ h.end = me.end /\ h.copy = s /\ h.menu = me.menu
      /\ h.alone = me.alone
  BY <1>2, <1>3 DEF Handler
<1>6. HandlerOK(h)
  BY <1>2, <1>5 DEF HandlerOK, UnderLock, MenuSteps
<1>7. Writing(x, s, pc) = h
  BY <1>1, <1>3 DEF Writing
<1> QED BY <1>1, <1>4, <1>5, <1>6, <1>7

\* A handler that ends, or gives up the lock first.
LEMMA EndFacts ==
    ASSUME IInv, NEW x \in Handlers
    PROVE  /\ End(x) \in Handler /\ HandlerOK(End(x)) /\ End(x).pc \in {"idle", "unlock"}
           /\ End(x).alone => handler[x].alone
           /\ End(x).end = handler[x].end
<1>1. handler[x] \in Handler /\ HandlerOK(handler[x])
  BY InvParts DEF HandlersOK
<1>2. CASE handler[x].end = "idle"
  BY <1>2, IdleFacts DEF End
<1>3. CASE handler[x].end # "idle"
  <2>1. handler[x].end = "unlock" /\ ~handler[x].menu
    BY <1>1, <1>3 DEF Handler, HandlerOK
  <2>2. "unlock" \in Steps
    BY DEF Steps
  <2>3. End(x) = To(x, "unlock")
    BY <1>3 DEF End
  <2> QED BY <2>1, <2>2, <2>3, ToFacts
<1> QED BY <1>2, <1>3

\* A step of one handler: what the session and the handler become is all there is to check,
\* for no other handler is alone beside it.
LEMMA MoveInv ==
    ASSUME IInv, NEW x \in Handlers, handler[x].pc # "idle", NEW h \in Handler, HandlerOK(h), Go(x, h),
           h.alone => handler[x].alone, MenuOK(h)', SessionOK', RestTyped'
    PROVE  IInv'
<1>1. handler' \in [Handlers -> Handler] /\ \A y \in Handlers : handler'[y] = IF y = x THEN h ELSE handler[y]
  BY InvParts DEF Go
<1>2. \A y \in Handlers \ {x} : ~handler[y].alone
  BY InvParts, IdleFacts DEF AloneOK
<1>3. TypeOK'
  BY <1>1 DEF TypeOK, RestTyped, SessionOK
<1>4. HandlersOK'
  BY <1>1, InvParts DEF HandlersOK
<1>5. AloneOK'
  BY <1>1, <1>2, InvParts DEF AloneOK
<1>6. ASSUME NEW y \in Handlers PROVE MenuOK(handler[y])'
  <2>1. CASE y = x
    <3>1. handler'[y] = h
      BY <1>1, <2>1
    <3> QED BY <3>1 DEF MenuOK
  <2>2. CASE y # x
    <3>1. ~handler'[y].alone
      BY <1>1, <1>2, <2>2
    <3> QED BY <3>1 DEF MenuOK
  <2> QED BY <2>1, <2>2
<1> QED BY <1>3, <1>4, <1>5, <1>6 DEF IInv, SessionOK

\* get leaves the session as it is and alive.
LEMMA GetKeeps ==
    ASSUME IInv, session' = session, expires' = ExpiresOnGet, now' = now
    PROVE  SessionOK'
<1>1. SessionOK /\ now \in Nat
  BY InvParts
<1>2. CASE expires = 0 \/ session.until # 0
  <2>1. expires' = expires
    BY <1>2 DEF ExpiresOnGet
  <2> QED BY <1>1, <2>1 DEF SessionOK, StoredOK, Waiting
<1>3. CASE expires # 0 /\ session.until = 0
  <2>1. expires' = now + SessionTtl
    BY <1>3 DEF ExpiresOnGet
  <2>2. expires' \in Nat /\ expires' # 0 /\ now < expires'
    BY <1>1, <2>1, Durations
  <2> QED BY <1>1, <1>3, <2>2 DEF SessionOK, StoredOK, Waiting
<1> QED BY <1>2, <1>3

LEMMA ReadsInv ==
    ASSUME IInv, NEW x \in Handlers, handler[x].pc # "idle", NEW h \in Handler, HandlerOK(h), Reads(x, h),
           h.alone => handler[x].alone, MenuOK(h)
    PROVE  IInv'
<1>1. session' = session /\ expires' = ExpiresOnGet /\ Go(x, h) /\ UNCHANGED rest
  BY DEF Reads
<1>2. SessionOK'
  BY <1>1, GetKeeps DEF rest
<1>3. RestTyped'
  BY <1>1, InvParts DEF RestTyped, rest
<1>4. MenuOK(h)'
  BY <1>1 DEF MenuOK, Waiting
<1> QED BY <1>1, <1>2, <1>3, <1>4, MoveInv

LEMMA GoInv ==
    ASSUME IInv, NEW x \in Handlers, handler[x].pc # "idle", NEW h \in Handler, HandlerOK(h), Go(x, h),
           h.alone => handler[x].alone, MenuOK(h), UNCHANGED <<session, expires, now>>, RestTyped'
    PROVE  IInv'
<1>1. SessionOK'
  BY InvParts DEF SessionOK, StoredOK, Waiting
<1>2. MenuOK(h)'
  BY DEF MenuOK, Waiting
<1> QED BY <1>1, <1>2, MoveInv

\* set writes the session until its deadline, or drops one whose deadline is over.
LEMMA PutFacts ==
    ASSUME IInv, NEW s \in Session, SessOK(s), Put(s), now' = now
    PROVE  /\ SessionOK'
           /\ session' \in {s, Blank}
           /\ s.until > now => session' = s
<1>1. s.until \in Nat /\ now \in Nat
  BY InvParts DEF Session
<1>2. PICK e \in Nat : e = Expiry(s)
  BY <1>1, Durations DEF Expiry
<1>3. s.until # 0 => e = s.until
  BY <1>2 DEF Expiry
<1>4. CASE e > now
  <2>1. session' = s /\ expires' = e /\ e # 0
    BY <1>1, <1>2, <1>4 DEF Put
  <2>2. Waiting' => session'.plan \in Plans
    BY <2>1 DEF Waiting, SessOK
  <2> QED BY <1>1, <1>3, <1>4, <2>1, <2>2 DEF SessionOK, StoredOK
<1>5. CASE ~(e > now)
  <2>1. session' = Blank /\ expires' = 0
    BY <1>2, <1>5 DEF Put
  <2>2. ~(s.until > now)
    BY <1>1, <1>3, <1>5
  <2>3. ~Waiting'
    BY <2>1, BlankFacts DEF Waiting
  <2> QED BY <2>1, <2>2, <2>3, BlankFacts DEF SessionOK, StoredOK
<1> QED BY <1>4, <1>5

-----------------------------------------------------------------------------
(* Every step keeps the inductive invariant. *)

LEMMA WriteInv ==
    ASSUME IInv, NEW x \in Handlers, Write(x)
    PROVE  IInv'
<1>1. PICK me \in Handler : me = handler[x] /\ HandlerOK(me) /\ me.pc = "write"
  BY InvParts DEF Write, HandlersOK
<1>2. SessionOK'
  <2>1. me.copy \in Session /\ SessOK(me.copy)
    BY <1>1 DEF Handler, HandlerOK
  <2> QED BY <1>1, <2>1, PutFacts DEF Write, rest
<1>3. RestTyped'
  BY InvParts DEF Write, RestTyped, rest
<1>4. CASE me.after = "idle"
  <2>1. PICK h : h = End(x)
    OBVIOUS
  <2>2. Go(x, h)
    BY <1>1, <1>4, <2>1 DEF Write
  <2>3. h \in Handler /\ HandlerOK(h) /\ h.pc # "write" /\ (h.alone => handler[x].alone)
    BY <2>1, EndFacts
  <2>4. MenuOK(h)'
    BY <2>3 DEF MenuOK
  <2> QED BY <1>1, <1>2, <1>3, <2>2, <2>3, <2>4, MoveInv
<1>5. CASE me.after # "idle"
  <2>1. PICK pc \in {"buy", "ensure"} : pc = me.after
    BY <1>1, <1>5 DEF HandlerOK
  <2>2. Go(x, To(x, pc))
    BY <1>1, <1>5, <2>1 DEF Write
  <2>3. me.menu => pc \in MenuSteps
    BY <1>1, <2>1 DEF HandlerOK, MenuSteps
  <2>4. pc \in Steps /\ pc \notin UnderLock /\ pc \notin {"plan", "planSet"} /\ pc # "type" /\ pc # "write"
    BY DEF Steps, UnderLock
  <2>5. PICK h : h = To(x, pc)
    OBVIOUS
  <2>6. h \in Handler /\ HandlerOK(h) /\ h.pc # "write" /\ h.alone = handler[x].alone
    BY <1>1, <2>3, <2>4, <2>5, ToFacts
  <2>7. MenuOK(h)'
    BY <2>6 DEF MenuOK
  <2> QED BY <1>1, <1>2, <1>3, <2>2, <2>5, <2>6, <2>7, MoveInv
<1> QED BY <1>4, <1>5 DEF Write

\* The handler reads and goes on at pc, ends, or is about to write s.
LEMMA ReadsTo ==
    ASSUME IInv, NEW x \in Handlers, handler[x].pc # "idle", NEW pc \in Steps \ {"write"},
           pc \in UnderLock => handler[x].end = "unlock",
           pc \in {"plan", "planSet"} => handler[x].arg \in Plans,
           pc = "type" => handler[x].arg \in Types,
           handler[x].menu => pc \in MenuSteps, Reads(x, To(x, pc))
    PROVE  IInv'
<1>1. PICK h : h = To(x, pc)
  OBVIOUS
<1>2. h \in Handler /\ HandlerOK(h) /\ h.pc = pc /\ h.alone = handler[x].alone
  BY <1>1, ToFacts
<1>3. MenuOK(h)
  BY <1>2 DEF MenuOK
<1> QED BY <1>1, <1>2, <1>3, ReadsInv

LEMMA ReadsEnd ==
    ASSUME IInv, NEW x \in Handlers, handler[x].pc # "idle", Reads(x, End(x))
    PROVE  IInv'
<1>1. PICK h : h = End(x)
  OBVIOUS
<1>2. h \in Handler /\ HandlerOK(h) /\ h.pc # "write" /\ (h.alone => handler[x].alone)
  BY <1>1, EndFacts
<1>3. MenuOK(h)
  BY <1>2 DEF MenuOK
<1> QED BY <1>1, <1>2, <1>3, ReadsInv

LEMMA ReadsWriting ==
    ASSUME IInv, NEW x \in Handlers, handler[x].pc # "idle", NEW s \in Session, SessOK(s),
           NEW pc \in {"idle", "ensure"},
           handler[x].menu /\ Waiting => s.state = "WAITING_FOR_RECEIPT" /\ s.until = session.until,
           Reads(x, Writing(x, s, pc))
    PROVE  IInv'
<1>1. PICK h : h = Writing(x, s, pc)
  OBVIOUS
<1>2. h \in Handler /\ HandlerOK(h) /\ h.copy = s /\ h.alone = handler[x].alone /\ h.menu = handler[x].menu
  BY <1>1, WritingFacts
<1>3. MenuOK(h)
  BY <1>2 DEF MenuOK
<1> QED BY <1>1, <1>2, <1>3, ReadsInv

\* The same without a read; the order rows may have changed.
LEMMA GoTo ==
    ASSUME IInv, NEW x \in Handlers, handler[x].pc # "idle", NEW pc \in Steps \ {"write"},
           pc \in UnderLock => handler[x].end = "unlock",
           pc \in {"plan", "planSet"} => handler[x].arg \in Plans,
           pc = "type" => handler[x].arg \in Types,
           handler[x].menu => pc \in MenuSteps, Go(x, To(x, pc)),
           UNCHANGED <<session, expires, now>>, RestTyped'
    PROVE  IInv'
<1>1. PICK h : h = To(x, pc)
  OBVIOUS
<1>2. h \in Handler /\ HandlerOK(h) /\ h.pc = pc /\ h.alone = handler[x].alone
  BY <1>1, ToFacts
<1>3. MenuOK(h)
  BY <1>2 DEF MenuOK
<1> QED BY <1>1, <1>2, <1>3, GoInv

LEMMA GoEnd ==
    ASSUME IInv, NEW x \in Handlers, handler[x].pc # "idle", Go(x, End(x)),
           UNCHANGED <<session, expires, now>>, RestTyped'
    PROVE  IInv'
<1>1. PICK h : h = End(x)
  OBVIOUS
<1>2. h \in Handler /\ HandlerOK(h) /\ h.pc # "write" /\ (h.alone => handler[x].alone)
  BY <1>1, EndFacts
<1>3. MenuOK(h)
  BY <1>2 DEF MenuOK
<1> QED BY <1>1, <1>2, <1>3, GoInv

LEMMA GoWriting ==
    ASSUME IInv, NEW x \in Handlers, handler[x].pc # "idle", ~handler[x].menu, NEW s \in Session, SessOK(s),
           Go(x, Writing(x, s, "idle")), UNCHANGED <<session, expires, now>>, RestTyped'
    PROVE  IInv'
<1>1. PICK h : h = Writing(x, s, "idle")
  OBVIOUS
<1>2. h \in Handler /\ HandlerOK(h) /\ h.alone = handler[x].alone /\ h.menu = handler[x].menu
  BY <1>1, WritingFacts
<1>3. MenuOK(h)
  BY <1>2 DEF MenuOK
<1> QED BY <1>1, <1>2, <1>3, GoInv

LEMMA SameRest ==
    ASSUME IInv, UNCHANGED rest
    PROVE  RestTyped'
BY InvParts DEF RestTyped, rest

LEMMA OpenMainMenuInv ==
    ASSUME IInv, NEW x \in Handlers, OpenMainMenu(x)
    PROVE  IInv'
<1>1. handler[x].pc # "idle"
  BY DEF OpenMainMenu
<1>2. CASE session.state # "IDLE"
  <2>1. Reads(x, To(x, "ensure"))
    BY <1>2 DEF OpenMainMenu
  <2>2. "ensure" \in Steps \ {"write"} /\ "ensure" \notin UnderLock /\ "ensure" \in MenuSteps
    BY DEF Steps, UnderLock, MenuSteps
  <2> QED BY <1>1, <2>1, <2>2, ReadsTo
<1>3. CASE session.state = "IDLE"
  <2>1. Reads(x, Writing(x, Blank, "ensure"))
    BY <1>3 DEF OpenMainMenu
  <2>2. ~Waiting
    BY <1>3 DEF Waiting
  <2> QED BY <1>1, <2>1, <2>2, BlankFacts, ReadsWriting
<1> QED BY <1>2, <1>3

LEMMA EnsureActiveSubscriptionInv ==
    ASSUME IInv, NEW x \in Handlers, EnsureActiveSubscription(x)
    PROVE  IInv'
<1>1. handler[x].pc # "idle" /\ UNCHANGED <<session, expires, now>> /\ RestTyped'
  BY SameRest DEF EnsureActiveSubscription, rest
<1>2. Go(x, End(x)) \/ Go(x, To(x, "ensureSession"))
  BY DEF EnsureActiveSubscription
<1>3. "ensureSession" \in Steps \ {"write"} /\ "ensureSession" \notin UnderLock /\ "ensureSession" \in MenuSteps
  BY DEF Steps, UnderLock, MenuSteps
<1>4. CASE Go(x, End(x))
  BY <1>1, <1>4, GoEnd
<1>5. CASE Go(x, To(x, "ensureSession"))
  BY <1>1, <1>3, <1>5, GoTo
<1> QED BY <1>2, <1>4, <1>5

LEMMA EnsureSessionInv ==
    ASSUME IInv, NEW x \in Handlers, EnsureSession(x)
    PROVE  IInv'
<1>1. handler[x].pc # "idle"
  BY DEF EnsureSession
<1>2. CASE session.state \in MenuKeeps
  <2>1. Reads(x, To(x, "ensureUpdate"))
    BY <1>2 DEF EnsureSession
  <2>2. "ensureUpdate" \in Steps \ {"write"} /\ "ensureUpdate" \notin UnderLock /\ "ensureUpdate" \in MenuSteps
    BY DEF Steps, UnderLock, MenuSteps
  <2> QED BY <1>1, <2>1, <2>2, ReadsTo
<1>3. CASE session.state \notin MenuKeeps
  <2>1. PICK s : s = [Blank EXCEPT !.state = "SELECTING_PLAN", !.type = RoleType]
    OBVIOUS
  <2>2. Reads(x, Writing(x, s, "idle"))
    BY <1>3, <2>1 DEF EnsureSession
  <2>3. s \in Session /\ SessOK(s)
    BY <2>1, Names DEF Blank, Session, States, SessOK
  <2>4. ~Waiting
    BY <1>3 DEF Waiting, MenuKeeps
  <2> QED BY <1>1, <2>2, <2>3, <2>4, ReadsWriting
<1> QED BY <1>2, <1>3

LEMMA EnsureUpdateInv ==
    ASSUME IInv, NEW x \in Handlers, EnsureUpdate(x)
    PROVE  IInv'
<1>1. handler[x].pc # "idle"
  BY DEF EnsureUpdate
<1>2. PICK s : s = [session EXCEPT !.type = RoleType]
  OBVIOUS
<1>3. Reads(x, Writing(x, s, "idle"))
  BY <1>2 DEF EnsureUpdate
<1>4. session \in Session /\ SessOK(session)
  BY InvParts DEF SessionOK, StoredOK
<1>5. s \in Session /\ s.state = session.state /\ s.until = session.until /\ s.plan = session.plan
      /\ s.chosen = session.chosen
  BY <1>2, <1>4, Names DEF Session
<1>6. SessOK(s)
  BY <1>4, <1>5 DEF SessOK
<1>7. Waiting => s.state = "WAITING_FOR_RECEIPT" /\ s.until = session.until
  BY <1>5 DEF Waiting
<1> QED BY <1>1, <1>3, <1>5, <1>6, <1>7, ReadsWriting

\* Only the steps of the menu belong to a message that brings up the menu.
LEMMA NotMenu ==
    ASSUME IInv, NEW x \in Handlers, handler[x].pc \notin MenuSteps
    PROVE  ~handler[x].menu
BY InvParts DEF HandlersOK, HandlerOK

LEMMA StartBuyAccountInv ==
    ASSUME IInv, NEW x \in Handlers, StartBuyAccount(x)
    PROVE  IInv'
<1>1. handler[x].pc # "idle" /\ ~handler[x].menu
  BY NotMenu DEF StartBuyAccount, MenuSteps
<1>2. PICK s : s = [session EXCEPT !.state = "SELECTING_ACCOUNT_TYPE"]
  OBVIOUS
<1>3. Reads(x, Writing(x, s, "idle"))
  BY <1>2 DEF StartBuyAccount
<1>4. session \in Session
  BY InvParts DEF SessionOK
<1>5. s \in Session /\ SessOK(s)
  BY <1>2, <1>4 DEF Session, States, SessOK
<1> QED BY <1>1, <1>3, <1>5, ReadsWriting

LEMMA SelectAccountTypeInv ==
    ASSUME IInv, NEW x \in Handlers, SelectAccountType(x)
    PROVE  IInv'
<1>1. handler[x].pc # "idle" /\ ~handler[x].menu
  BY NotMenu DEF SelectAccountType, MenuSteps
<1>2. PICK t \in Types : t = handler[x].arg
  BY InvParts DEF SelectAccountType, HandlersOK, HandlerOK
<1>3. PICK s : s = [session EXCEPT !.state = "SELECTING_PLAN", !.type = t]
  OBVIOUS
<1>4. Reads(x, Writing(x, s, "idle"))
  BY <1>2, <1>3 DEF SelectAccountType
<1>5. session \in Session
  BY InvParts DEF SessionOK
<1>6. s \in Session /\ SessOK(s)
  BY <1>3, <1>5 DEF Session, States, SessOK
<1> QED BY <1>1, <1>4, <1>6, ReadsWriting

\* A handler that keeps the session it has read.
LEMMA CopyFacts ==
    ASSUME IInv, NEW x \in Handlers, NEW pc \in Steps \ {"write"},
           pc \in UnderLock => handler[x].end = "unlock",
           pc \in {"plan", "planSet"} => handler[x].arg \in Plans,
           pc = "type" => handler[x].arg \in Types,
           ~handler[x].menu
    PROVE  LET h == [To(x, pc) EXCEPT !.copy = session] IN
           /\ h \in Handler /\ HandlerOK(h) /\ h.pc = pc /\ h.copy = session
           /\ h.alone = handler[x].alone /\ h.end = handler[x].end
<1>1. PICK g : g = To(x, pc)
  OBVIOUS
<1>2. /\ g \in Handler /\ HandlerOK(g) /\ g.pc = pc /\ g.alone = handler[x].alone
      /\ g.end = handler[x].end /\ ~g.menu
  BY <1>1, ToFacts
<1>3. session \in Session /\ SessOK(session)
  BY InvParts DEF SessionOK, StoredOK
<1>4. PICK h : h = [g EXCEPT !.copy = session]
  OBVIOUS
<1>5. h \in Handler
  BY <1>2, <1>3, <1>4 DEF Handler
<1>6. /\ h.pc = pc /\ h.copy = session /\ h.alone = g.alone /\ h.end = g.end /\ h.menu = g.menu
      /\ h.arg = g.arg /\ h.after = g.after
  BY <1>2, <1>4 DEF Handler
<1>7. HandlerOK(h)
  BY <1>2, <1>3, <1>6 DEF HandlerOK
<1> QED BY <1>1, <1>2, <1>4, <1>5, <1>6, <1>7

LEMMA SelectPlanInv ==
    ASSUME IInv, NEW x \in Handlers, SelectPlan(x)
    PROVE  IInv'
<1>1. handler[x].pc # "idle" /\ ~handler[x].menu
  BY NotMenu DEF SelectPlan, MenuSteps
<1>2. handler[x].arg \in Plans
  BY InvParts DEF SelectPlan, HandlersOK, HandlerOK
<1>3. CASE session.type = None
  <2>1. None \notin Types /\ PlanType[handler[x].arg] \in Types
    BY <1>2, PurchaseAssumption DEF PurchaseAssumption
  <2>2. Reads(x, Writing(x, Blank, "ensure"))
    BY <1>3, <2>1 DEF SelectPlan
  <2> QED BY <1>1, <2>2, BlankFacts, ReadsWriting
<1>4. CASE session.type # None /\ session.type = PlanType[handler[x].arg]
  <2>1. PICK h : h = [To(x, "planSet") EXCEPT !.copy = session]
    OBVIOUS
  <2>2. Reads(x, h)
    BY <1>4, <2>1 DEF SelectPlan
  <2>3. "planSet" \in Steps \ {"write"} /\ "planSet" \notin UnderLock
    BY DEF Steps, UnderLock
  <2>4. h \in Handler /\ HandlerOK(h) /\ h.pc = "planSet" /\ h.alone = handler[x].alone
    BY <1>1, <1>2, <2>1, <2>3, CopyFacts
  <2>5. MenuOK(h)
    BY <2>4 DEF MenuOK
  <2> QED BY <1>1, <2>2, <2>4, <2>5, ReadsInv
<1>5. CASE session.type # None /\ session.type # PlanType[handler[x].arg]
  <2>1. Reads(x, End(x))
    BY <1>5 DEF SelectPlan
  <2> QED BY <1>1, <2>1, ReadsEnd
<1> QED BY <1>3, <1>4, <1>5

LEMMA PlanSetInv ==
    ASSUME IInv, NEW x \in Handlers, PlanSet(x)
    PROVE  IInv'
<1>1. PICK me \in Handler : me = handler[x] /\ me.pc = "planSet" /\ me.arg \in Plans
  BY InvParts DEF PlanSet, HandlersOK, HandlerOK
<1>2. PICK u \in Nat : u = now + PaymentTimeout
  BY InvParts, Durations
<1>3. now \in Nat /\ me.copy.type \in Types \cup {None}
  BY <1>1, InvParts DEF Handler, Session
<1>4. PICK s : s = [Blank EXCEPT !.state = "WAITING_FOR_RECEIPT", !.type = me.copy.type, !.plan = me.arg,
                                 !.until = u, !.chosen = now]
  OBVIOUS
<1>5. s \in Session
  BY <1>1, <1>2, <1>3, <1>4, BlankFacts DEF Session, States
<1>6. s.plan = me.arg /\ s.until = u /\ s.chosen = now
  BY <1>4 DEF Blank
<1>7. SessOK(s)
  BY <1>1, <1>2, <1>6 DEF SessOK
<1>8. Put(s) /\ Go(x, End(x)) /\ UNCHANGED rest
  BY <1>1, <1>2, <1>4 DEF PlanSet
<1>9. now' = now /\ RestTyped'
  BY <1>8, SameRest DEF rest
<1>10. SessionOK'
  BY <1>5, <1>7, <1>8, <1>9, PutFacts
<1>11. PICK h : h = End(x)
  OBVIOUS
<1>12. h \in Handler /\ HandlerOK(h) /\ h.pc # "write" /\ (h.alone => handler[x].alone)
  BY <1>11, EndFacts
<1>13. MenuOK(h)'
  BY <1>12 DEF MenuOK
<1>14. Go(x, h) /\ handler[x].pc # "idle"
  BY <1>1, <1>8, <1>11
<1> QED BY <1>9, <1>10, <1>12, <1>13, <1>14, MoveInv

\* The session that points at an order under review.
LEMMA ReviewFacts ==
    ASSUME NEW o \in Orders
    PROVE  LET s == [Blank EXCEPT !.state = "UNDER_REVIEW", !.order = o] IN s \in Session /\ SessOK(s)
BY BlankFacts DEF Blank, Session, States, SessOK

LEMMA ShowPurchaseStatusInv ==
    ASSUME IInv, NEW x \in Handlers, ShowPurchaseStatus(x)
    PROVE  IInv'
<1>1. handler[x].pc # "idle" /\ ~handler[x].menu
  BY NotMenu DEF ShowPurchaseStatus, MenuSteps
<1>2. UNCHANGED <<session, expires, now>> /\ RestTyped'
  BY SameRest DEF ShowPurchaseStatus, rest
<1>3. CASE Go(x, To(x, "statusSession"))
  <2>1. "statusSession" \in Steps \ {"write"} /\ "statusSession" \notin UnderLock
    BY DEF Steps, UnderLock
  <2> QED BY <1>1, <1>2, <1>3, <2>1, GoTo
<1>4. ASSUME NEW o \in Pending, Go(x, Writing(x, [Blank EXCEPT !.state = "UNDER_REVIEW", !.order = o], "idle"))
      PROVE  IInv'
  <2>1. PICK s : s = [Blank EXCEPT !.state = "UNDER_REVIEW", !.order = o]
    OBVIOUS
  <2>2. s \in Session /\ SessOK(s)
    BY <2>1, ReviewFacts DEF Pending
  <2>3. Go(x, Writing(x, s, "idle"))
    BY <1>4, <2>1
  <2> QED BY <1>1, <1>2, <2>2, <2>3, GoWriting
<1> QED BY <1>3, <1>4 DEF ShowPurchaseStatus

LEMMA StatusSessionInv ==
    ASSUME IInv, NEW x \in Handlers, StatusSession(x)
    PROVE  IInv'
<1>1. handler[x].pc # "idle" /\ ~handler[x].menu
  BY NotMenu DEF StatusSession, MenuSteps
<1>2. Reads(x, End(x)) \/ Reads(x, Writing(x, Blank, "idle"))
  BY DEF StatusSession
<1>3. CASE Reads(x, End(x))
  BY <1>1, <1>3, ReadsEnd
<1>4. CASE Reads(x, Writing(x, Blank, "idle"))
  BY <1>1, <1>4, BlankFacts, ReadsWriting
<1> QED BY <1>2, <1>3, <1>4

LEMMA HandleReceiptInv ==
    ASSUME IInv, NEW x \in Handlers, HandleReceipt(x)
    PROVE  IInv'
<1>1. PICK me \in Handler : me = handler[x] /\ me.pc = "photo" /\ HandlerOK(me)
  BY InvParts DEF HandleReceipt, HandlersOK
<1>2. CASE Waiting
  <2>1. PICK h : h = [[me EXCEPT !.pc = "lock"] EXCEPT !.menu = FALSE]
    OBVIOUS
  <2>2. Reads(x, h)
    BY <1>1, <1>2, <2>1 DEF HandleReceipt, To
  <2>3. h \in Handler
    BY <2>1, <1>1, ZenonT(40) DEF Handler, Steps
  <2>4. /\ h.pc = "lock" /\ h.alone = me.alone /\ h.copy = me.copy /\ ~h.menu /\ h.after = me.after
        /\ h.end = me.end
    BY <2>1, <1>1 DEF Handler
  <2>5. HandlerOK(h)
    BY <1>1, <2>4 DEF HandlerOK, UnderLock
  <2>6. MenuOK(h)
    BY <2>4 DEF MenuOK
  <2> QED BY <1>1, <2>2, <2>3, <2>4, <2>5, <2>6, ReadsInv
<1>3. CASE ~Waiting
  <2>1. Reads(x, To(x, "ensure"))
    BY <1>3 DEF HandleReceipt
  <2>2. "ensure" \in Steps \ {"write"} /\ "ensure" \notin UnderLock /\ "ensure" \in MenuSteps
    BY DEF Steps, UnderLock, MenuSteps
  <2> QED BY <1>1, <2>1, <2>2, ReadsTo
<1> QED BY <1>2, <1>3

LEMMA ReceiptLockInv ==
    ASSUME IInv, NEW x \in Handlers, ReceiptLock(x)
    PROVE  IInv'
<1>1. PICK me \in Handler : me = handler[x] /\ me.pc = "lock" /\ HandlerOK(me)
  BY InvParts DEF ReceiptLock, HandlersOK
<1>2. /\ UNCHANGED <<session, expires, now>> /\ UNCHANGED <<order, notices, updates, crashes>>
      /\ handler[x].pc # "idle"
  BY <1>1 DEF ReceiptLock
<1>3. CASE lock' = [owner |-> x, until |-> now + LockTtl] /\ Go(x, [To(x, "reread") EXCEPT !.end = "unlock"])
  <2>1. PICK u \in Nat : u = now + LockTtl
    BY InvParts, Durations
  <2>2. lock' \in [owner : Handlers \cup {None}, until : Nat]
    BY <1>3, <2>1
  <2>3. RestTyped'
    BY <1>2, <2>2, InvParts DEF RestTyped
  <2>4. PICK h : h = [[me EXCEPT !.pc = "reread"] EXCEPT !.end = "unlock"]
    OBVIOUS
  <2>5. Go(x, h)
    BY <1>1, <1>3, <2>4 DEF To
  <2>6. h \in Handler
    BY <2>4, <1>1, ZenonT(40) DEF Handler, Steps
  <2>7. /\ h.pc = "reread" /\ h.alone = me.alone /\ h.copy = me.copy /\ h.menu = me.menu
        /\ h.after = me.after /\ h.end = "unlock"
    BY <2>4, <1>1 DEF Handler
  <2>8. HandlerOK(h)
    BY <1>1, <2>7 DEF HandlerOK, UnderLock, MenuSteps
  <2>9. MenuOK(h)
    BY <2>7 DEF MenuOK
  <2> QED BY <1>1, <1>2, <2>3, <2>5, <2>6, <2>7, <2>8, <2>9, GoInv
<1>4. CASE Go(x, End(x)) /\ UNCHANGED lock
  <2>1. RestTyped'
    BY <1>2, <1>4, InvParts DEF RestTyped
  <2> QED BY <1>2, <1>4, <2>1, GoEnd
<1> QED BY <1>3, <1>4 DEF ReceiptLock

LEMMA ReReadInv ==
    ASSUME IInv, NEW x \in Handlers, ReRead(x)
    PROVE  IInv'
<1>1. handler[x].pc = "reread" /\ ~handler[x].menu
  BY NotMenu DEF ReRead, MenuSteps
<1>2. handler[x].end = "unlock"
  BY <1>1, InvParts DEF HandlersOK, HandlerOK, UnderLock
<1>3. CASE Waiting
  <2>1. PICK h : h = [To(x, "pending") EXCEPT !.copy = session]
    OBVIOUS
  <2>2. Reads(x, h)
    BY <1>3, <2>1 DEF ReRead
  <2>3. "pending" \in Steps \ {"write"}
    BY DEF Steps
  <2>4. h \in Handler /\ HandlerOK(h) /\ h.pc = "pending" /\ h.alone = handler[x].alone
    BY <1>1, <1>2, <2>1, <2>3, CopyFacts
  <2>5. MenuOK(h)
    BY <2>4 DEF MenuOK
  <2> QED BY <1>1, <2>2, <2>4, <2>5, ReadsInv
<1>4. CASE ~Waiting
  <2>1. Reads(x, To(x, "status"))
    BY <1>4 DEF ReRead
  <2>2. "status" \in Steps \ {"write"} /\ "status" \notin UnderLock
    BY DEF Steps, UnderLock
  <2> QED BY <1>1, <2>1, <2>2, ReadsTo
<1> QED BY <1>3, <1>4

LEMMA FindPendingInv ==
    ASSUME IInv, NEW x \in Handlers, FindPending(x)
    PROVE  IInv'
<1>1. handler[x].pc = "pending" /\ ~handler[x].menu
  BY NotMenu DEF FindPending, MenuSteps
<1>2. UNCHANGED <<session, expires, now>> /\ RestTyped'
  BY SameRest DEF FindPending, rest
<1>3. CASE Go(x, To(x, "submit"))
  <2>1. "submit" \in Steps \ {"write"}
    BY DEF Steps
  <2>2. handler[x].end = "unlock"
    BY <1>1, InvParts DEF HandlersOK, HandlerOK, UnderLock
  <2> QED BY <1>1, <1>2, <1>3, <2>1, <2>2, GoTo
<1>4. ASSUME NEW o \in Pending, Go(x, Writing(x, [Blank EXCEPT !.state = "UNDER_REVIEW", !.order = o], "idle"))
      PROVE  IInv'
  <2>1. PICK s : s = [Blank EXCEPT !.state = "UNDER_REVIEW", !.order = o]
    OBVIOUS
  <2>2. s \in Session /\ SessOK(s)
    BY <2>1, ReviewFacts DEF Pending
  <2>3. Go(x, Writing(x, s, "idle"))
    BY <1>4, <2>1
  <2> QED BY <1>1, <1>2, <2>2, <2>3, GoWriting
<1> QED BY <1>3, <1>4 DEF FindPending

LEMMA SubmitReceiptInv ==
    ASSUME IInv, NEW x \in Handlers, SubmitReceipt(x)
    PROVE  IInv'
<1>1. PICK me \in Handler : me = handler[x] /\ me.pc = "submit" /\ HandlerOK(me)
  BY InvParts DEF SubmitReceipt, HandlersOK
<1>2. /\ UNCHANGED <<session, expires, now>> /\ UNCHANGED <<lock, notices, updates, crashes>>
      /\ handler[x].pc # "idle"
  BY <1>1 DEF SubmitReceipt
<1>3. CASE Go(x, End(x)) /\ UNCHANGED order
  <2>1. RestTyped'
    BY <1>2, <1>3, InvParts DEF RestTyped
  <2> QED BY <1>2, <1>3, <2>1, GoEnd
<1>4. ASSUME NEW o \in Orders, Go(x, [To(x, "review") EXCEPT !.order = o]),
             order' = [order EXCEPT ![o] = [status |-> "pending", chosen |-> me.copy.chosen, at |-> now]]
      PROVE  IInv'
  <2>1. me.copy.chosen \in Nat /\ now \in Nat
    BY <1>1, InvParts DEF Handler, Session
  <2>2. order' \in [Orders -> Order]
    BY <1>4, <2>1, InvParts DEF RestTyped, Order
  <2>3. RestTyped'
    BY <1>2, <2>2, InvParts DEF RestTyped
  <2>4. PICK h : h = [[me EXCEPT !.pc = "review"] EXCEPT !.order = o]
    OBVIOUS
  <2>5. Go(x, h)
    BY <1>1, <1>4, <2>4 DEF To
  <2>6. h \in Handler
    BY <2>4, <1>1 DEF Handler, Steps
  <2>7. /\ h.pc = "review" /\ h.alone = me.alone /\ h.copy = me.copy /\ h.menu = me.menu
        /\ h.after = me.after /\ h.end = me.end
    BY <2>4, <1>1 DEF Handler
  <2>8. HandlerOK(h)
    BY <1>1, <2>7 DEF HandlerOK, UnderLock, MenuSteps
  <2>9. MenuOK(h)
    BY <2>7 DEF MenuOK
  <2> QED BY <1>1, <1>2, <2>3, <2>5, <2>6, <2>7, <2>8, <2>9, GoInv
<1> QED BY <1>1, <1>3, <1>4 DEF SubmitReceipt

LEMMA ReviewInv ==
    ASSUME IInv, NEW x \in Handlers, Review(x)
    PROVE  IInv'
<1>1. handler[x].pc = "review" /\ ~handler[x].menu
  BY NotMenu DEF Review, MenuSteps
<1>2. PICK o \in Orders \cup {None} : o = handler[x].order
  BY InvParts DEF Handler
<1>3. PICK s : s = [session EXCEPT !.state = "UNDER_REVIEW", !.order = o, !.until = 0]
  OBVIOUS
<1>4. Reads(x, Writing(x, s, "idle"))
  BY <1>2, <1>3 DEF Review
<1>5. session \in Session
  BY InvParts DEF SessionOK
<1>6. s \in Session /\ SessOK(s)
  BY <1>3, <1>5 DEF Session, States, SessOK
<1> QED BY <1>1, <1>4, <1>6, ReadsWriting

LEMMA UnlockInv ==
    ASSUME IInv, NEW x \in Handlers, Unlock(x)
    PROVE  IInv'
<1>1. /\ handler[x].pc # "idle" /\ Go(x, Idle)
      /\ UNCHANGED <<session, expires, now>> /\ UNCHANGED <<order, notices, updates, crashes>>
  BY DEF Unlock
<1>2. lock' \in [owner : Handlers \cup {None}, until : Nat]
  BY InvParts DEF Unlock, RestTyped
<1>3. RestTyped'
  BY <1>1, <1>2, InvParts DEF RestTyped
<1>4. MenuOK(Idle)
  BY IdleFacts DEF MenuOK
<1> QED BY <1>1, <1>3, <1>4, IdleFacts, GoInv

\* A handler that is or is not alone any more, and is otherwise the same.
LEMMA AloneFacts ==
    ASSUME NEW h \in Handler, HandlerOK(h), NEW b \in BOOLEAN
    PROVE  LET g == [h EXCEPT !.alone = b] IN
           /\ g \in Handler /\ HandlerOK(g) /\ g.alone = b /\ g.pc = h.pc /\ g.menu = h.menu
           /\ g.end = h.end /\ g.copy = h.copy
<1>1. PICK g : g = [h EXCEPT !.alone = b]
  OBVIOUS
<1>2. g \in Handler
  BY <1>1 DEF Handler
<1>3. /\ g.alone = b /\ g.pc = h.pc /\ g.menu = h.menu /\ g.end = h.end /\ g.copy = h.copy
      /\ g.after = h.after /\ g.arg = h.arg
  BY <1>1 DEF Handler
<1>4. HandlerOK(g)
  BY <1>3 DEF HandlerOK
<1> QED BY <1>1, <1>2, <1>3, <1>4

LEMMA NotAlone ==
    ASSUME NEW h \in Handler, h.alone = FALSE
    PROVE  [h EXCEPT !.alone = FALSE] = h
BY DEF Handler

LEMMA TakeInv ==
    ASSUME IInv, NEW x \in Handlers, NEW h \in Handler, HandlerOK(h), h.menu => h.pc # "write", Take(x, h)
    PROVE  IInv'
<1>1. PICK b \in BOOLEAN : b = (\A z \in Handlers \ {x} : handler[z] = Idle)
  OBVIOUS
<1>2. PICK g : g = [h EXCEPT !.alone = b]
  OBVIOUS
<1>3. \A y \in Handlers : handler'[y] = IF y = x THEN g ELSE [handler[y] EXCEPT !.alone = FALSE]
  BY <1>1, <1>2 DEF Take
<1>4. g \in Handler /\ HandlerOK(g) /\ g.alone = b /\ g.pc = h.pc /\ g.menu = h.menu
  BY <1>2, AloneFacts
<1>5. \A y \in Handlers : handler'[y] \in Handler /\ HandlerOK(handler'[y])
  <2> TAKE y \in Handlers
  <2>1. CASE y = x
    BY <1>3, <1>4, <2>1
  <2>2. CASE y # x
    <3>1. handler[y] \in Handler /\ HandlerOK(handler[y])
      BY InvParts DEF HandlersOK
    <3> QED BY <1>3, <2>2, <3>1, AloneFacts
  <2> QED BY <2>1, <2>2
<1>6. \A y \in Handlers \ {x} : ~handler'[y].alone /\ (handler[y] = Idle => handler'[y] = Idle)
  <2> TAKE y \in Handlers \ {x}
  <2>1. handler[y] \in Handler /\ HandlerOK(handler[y])
    BY InvParts DEF HandlersOK
  <2>2. PICK h0 : h0 = [handler[y] EXCEPT !.alone = FALSE]
    OBVIOUS
  <2>3. handler'[y] = h0
    BY <1>3, <2>2
  <2>4. h0.alone = FALSE
    BY <2>1, <2>2, AloneFacts
  <2>5. handler[y] = Idle => h0 = Idle
    BY <2>2, IdleFacts, NotAlone
  <2> QED BY <2>3, <2>4, <2>5
<1>7. handler' \in [Handlers -> Handler]
  <2>1. handler' = [y \in Handlers |-> handler'[y]]
    BY DEF Take
  <2> QED BY <1>5, <2>1
<1>8. HandlersOK'
  BY <1>5 DEF HandlersOK
<1>9. AloneOK'
  <2>1. b => \A z \in Handlers \ {x} : handler'[z] = Idle
    BY <1>1, <1>6
  <2>2. handler'[x].alone = b
    BY <1>3, <1>4
  <2> QED BY <1>6, <2>1, <2>2 DEF AloneOK
<1>10. SessionOK'
  BY InvParts DEF Take, SessionOK, StoredOK, Waiting
<1>11. RestTyped'
  <2>1. updates' \in 0..MaxUpdates
    BY InvParts, Durations DEF Take, RestTyped
  <2> QED BY <2>1, InvParts DEF Take, RestTyped
<1>12. TypeOK'
  BY <1>7, <1>10, <1>11 DEF TypeOK, RestTyped, SessionOK
<1>13. ASSUME NEW y \in Handlers PROVE MenuOK(handler[y])'
  <2>1. CASE y = x
    <3>1. handler'[y] = g
      BY <1>3, <2>1
    <3> QED BY <1>4, <3>1 DEF MenuOK
  <2>2. CASE y # x
    BY <1>6, <2>2 DEF MenuOK
  <2> QED BY <2>1, <2>2
<1> QED BY <1>8, <1>9, <1>10, <1>12, <1>13 DEF IInv, SessionOK

\* What a message or a button starts.
Started(h) ==
    /\ h \in Handler /\ HandlerOK(h) /\ h.end = "idle"
    /\ h.pc \notin UnderLock /\ (h.menu => h.pc # "write")

LEMMA StartedMenu ==
    ASSUME NEW pc \in {"photo", "menu", "ensure"}
    PROVE  Started([Idle EXCEPT !.pc = pc, !.menu = TRUE])
<1>1. PICK h : h = [Idle EXCEPT !.pc = pc, !.menu = TRUE]
  OBVIOUS
<1>2. h \in Handler
  BY <1>1, IdleFacts DEF Handler, Steps
<1>3. h.pc = pc /\ h.after = "idle" /\ h.menu = TRUE /\ h.end = "idle" /\ h.copy = Blank
  BY <1>1 DEF Idle
<1>4. HandlerOK(h) /\ h.pc \notin UnderLock
  BY <1>3, BlankFacts DEF HandlerOK, UnderLock, MenuSteps
<1> QED BY <1>1, <1>2, <1>3, <1>4 DEF Started

LEMMA StartedReset ==
    ASSUME NEW after \in {"buy", "ensure"}
    PROVE  Started([Idle EXCEPT !.pc = "write", !.after = after])
<1>1. PICK h : h = [Idle EXCEPT !.pc = "write", !.after = after]
  OBVIOUS
<1>2. h \in Handler
  BY <1>1, IdleFacts DEF Handler, Steps
<1>3. h.pc = "write" /\ h.after = after /\ h.menu = FALSE /\ h.end = "idle" /\ h.copy = Blank
  BY <1>1 DEF Idle
<1>4. HandlerOK(h) /\ h.pc \notin UnderLock
  BY <1>3, BlankFacts DEF HandlerOK, UnderLock
<1> QED BY <1>1, <1>2, <1>3, <1>4 DEF Started

LEMMA StartedStatus == Started([Idle EXCEPT !.pc = "status"])
<1>1. PICK h : h = [Idle EXCEPT !.pc = "status"]
  OBVIOUS
<1>2. h \in Handler
  BY <1>1, IdleFacts DEF Handler, Steps
<1>3. h.pc = "status" /\ h.after = "idle" /\ h.menu = FALSE /\ h.end = "idle" /\ h.copy = Blank
  BY <1>1 DEF Idle
<1>4. HandlerOK(h) /\ h.pc \notin UnderLock
  BY <1>3, BlankFacts DEF HandlerOK, UnderLock
<1> QED BY <1>1, <1>2, <1>3, <1>4 DEF Started

LEMMA StartedChoice ==
    ASSUME NEW pc \in {"type", "plan"}, NEW arg \in Types \cup Plans,
           pc = "type" => arg \in Types, pc = "plan" => arg \in Plans
    PROVE  Started([Idle EXCEPT !.pc = pc, !.arg = arg])
<1>1. PICK h : h = [Idle EXCEPT !.pc = pc, !.arg = arg]
  OBVIOUS
<1>2. h \in Handler
  BY <1>1, IdleFacts DEF Handler, Steps
<1>3. h.pc = pc /\ h.after = "idle" /\ h.menu = FALSE /\ h.end = "idle" /\ h.copy = Blank /\ h.arg = arg
  BY <1>1 DEF Idle
<1>4. HandlerOK(h) /\ h.pc \notin UnderLock
  BY <1>3, BlankFacts DEF HandlerOK, UnderLock
<1> QED BY <1>1, <1>2, <1>3, <1>4 DEF Started

LEMMA Updates ==
    ASSUME NEW x \in Handlers, TakeMessage(x) \/ PressButton(x)
    PROVE  \E h : Take(x, h) /\ Started(h)
<1>1. CASE TakeMessage(x)
  <2>1. /\ Started([Idle EXCEPT !.pc = "photo", !.menu = TRUE])
        /\ Started([Idle EXCEPT !.pc = "menu", !.menu = TRUE])
        /\ Started([Idle EXCEPT !.pc = "ensure", !.menu = TRUE])
    BY StartedMenu
  <2> QED BY <1>1, <2>1, StartedStatus, Zenon DEF TakeMessage
<1>2. CASE PressButton(x)
  <2>1. /\ Started([Idle EXCEPT !.pc = "write", !.after = "buy"])
        /\ Started([Idle EXCEPT !.pc = "write", !.after = "ensure"])
    BY StartedReset
  <2>2. \A t \in Types : Started([Idle EXCEPT !.pc = "type", !.arg = t])
    BY StartedChoice
  <2>3. \A p \in Plans : Started([Idle EXCEPT !.pc = "plan", !.arg = p])
    BY StartedChoice
  <2> QED BY <1>2, <2>1, <2>2, <2>3, Zenon DEF PressButton
<1> QED BY <1>1, <1>2

\* A step of no handler: the session is kept or dropped.
LEMMA OutsideInv ==
    ASSUME IInv, handler' = handler, session' \in {session, Blank}, SessionOK', RestTyped'
    PROVE  IInv'
<1>1. TypeOK'
  BY InvParts DEF TypeOK, RestTyped, SessionOK
<1>2. HandlersOK' /\ AloneOK'
  BY InvParts DEF HandlersOK, AloneOK
<1>3. ASSUME NEW x \in Handlers PROVE MenuOK(handler[x])'
  <2>1. MenuOK(handler[x])
    BY DEF IInv
  <2>2. CASE session' = session
    BY <2>1, <2>2 DEF MenuOK, Waiting
  <2>3. CASE session' = Blank
    BY <2>3, BlankFacts DEF MenuOK, Waiting
  <2> QED BY <2>2, <2>3
<1> QED BY <1>1, <1>2, <1>3 DEF IInv, SessionOK

\* The session in Redis has been dropped.
LEMMA DroppedOK ==
    ASSUME session' = Blank, expires' = 0
    PROVE  SessionOK'
<1>1. ~Waiting'
  BY BlankFacts DEF Waiting
<1> QED BY <1>1, BlankFacts DEF SessionOK, StoredOK

LEMMA SameSession ==
    ASSUME IInv, UNCHANGED <<session, expires, now>>
    PROVE  SessionOK'
BY InvParts DEF SessionOK, StoredOK, Waiting

LEMMA DecideInv ==
    ASSUME IInv, NEW o \in Orders, Decide(o)
    PROVE  IInv'
<1>1. /\ UNCHANGED <<session, expires, now>> /\ UNCHANGED <<lock, updates, crashes>> /\ handler' = handler
      /\ notices' = notices \cup {o}
  BY DEF Decide
<1>2. order' \in [Orders -> Order]
  <2>1. PICK d \in {"approved", "rejected"} : order' = [order EXCEPT ![o].status = d]
    BY DEF Decide
  <2>2. order \in [Orders -> Order]
    BY InvParts DEF RestTyped
  <2>3. PICK r : r = [order[o] EXCEPT !.status = d]
    OBVIOUS
  <2>4. order[o] \in Order
    BY <2>2
  <2>5. r \in Order
    BY <2>3, <2>4 DEF Order
  <2>6. order' = [order EXCEPT ![o] = r]
    BY <2>1, <2>3
  <2> QED BY <2>2, <2>5, <2>6
<1>3. RestTyped'
  BY <1>1, <1>2, InvParts DEF RestTyped
<1> QED BY <1>1, <1>3, SameSession, OutsideInv

LEMMA NotifyInv ==
    ASSUME IInv, NEW o \in Orders, Notify(o)
    PROVE  IInv'
<1>1. UNCHANGED <<lock, order, handler, updates, crashes, now>> /\ notices' = notices \ {o}
  BY DEF Notify
<1>2. RestTyped'
  BY <1>1, InvParts DEF RestTyped
<1>3. CASE session' = Blank /\ expires' = 0
  BY <1>1, <1>2, <1>3, DroppedOK, OutsideInv
<1>4. CASE UNCHANGED <<session, expires>>
  BY <1>1, <1>2, <1>4, SameSession, OutsideInv
<1> QED BY <1>3, <1>4 DEF Notify

LEMMA CrashInv ==
    ASSUME IInv, Crash
    PROVE  IInv'
<1>1. UNCHANGED <<session, expires, now>> /\ UNCHANGED <<lock, order, updates>> /\ notices' = {}
  BY DEF Crash
<1>2. handler' \in [Handlers -> Handler] /\ \A x \in Handlers : handler'[x] = Idle
  BY IdleFacts DEF Crash
<1>3. crashes' \in 0..MaxCrashes
  BY InvParts, Durations DEF Crash, RestTyped
<1>4. RestTyped'
  BY <1>1, <1>3, InvParts DEF RestTyped
<1>5. SessionOK'
  BY <1>1, SameSession
<1>6. TypeOK'
  BY <1>2, <1>4, <1>5 DEF TypeOK, RestTyped, SessionOK
<1>7. HandlersOK' /\ AloneOK' /\ \A x \in Handlers : MenuOK(handler[x])'
  BY <1>2, IdleFacts DEF HandlersOK, AloneOK, MenuOK
<1> QED BY <1>5, <1>6, <1>7 DEF IInv, SessionOK

LEMMA TickInv ==
    ASSUME IInv, Tick
    PROVE  IInv'
<1>1. UNCHANGED <<order, notices, handler, updates, crashes>> /\ now' = now + 1 /\ now' \in 0..MaxTime
  BY InvParts, Durations DEF Tick, RestTyped
<1>2. lock' \in [owner : Handlers \cup {None}, until : Nat]
  BY InvParts DEF Tick, RestTyped
<1>3. RestTyped'
  BY <1>1, <1>2, InvParts DEF RestTyped
<1>4. CASE expires <= now'
  <2>1. session' = Blank /\ expires' = 0
    BY <1>4 DEF Tick
  <2> QED BY <1>1, <1>3, <2>1, DroppedOK, OutsideInv
<1>5. CASE ~(expires <= now')
  <2>1. session' = session /\ expires' = expires
    BY <1>5 DEF Tick
  <2>2. expires # 0 => now' < expires'
    BY <1>1, <1>5, <2>1, InvParts DEF SessionOK
  <2>3. SessionOK'
    BY <2>1, <2>2, InvParts DEF SessionOK, StoredOK, Waiting
  <2> QED BY <1>1, <1>3, <2>1, <2>3, OutsideInv
<1> QED BY <1>4, <1>5

LEMMA SameInv ==
    ASSUME IInv, UNCHANGED vars
    PROVE  IInv'
<1>1. /\ UNCHANGED <<session, expires, now>> /\ handler' = handler
      /\ UNCHANGED <<lock, order, notices, updates, crashes>>
  BY DEF vars
<1>2. RestTyped'
  BY <1>1, InvParts DEF RestTyped
<1> QED BY <1>1, <1>2, SameSession, OutsideInv

LEMMA InitInv == Init => IInv
<1> SUFFICES ASSUME Init PROVE IInv
  OBVIOUS
<1>1. \A x \in Handlers : handler[x] = Idle
  BY DEF Init
<1>2. order \in [Orders -> Order]
  BY DEF Init, Order
<1>3. session = Blank /\ expires = 0 /\ ~Waiting
  BY BlankFacts DEF Init, Waiting
<1>4. TypeOK
  BY <1>2, <1>3, BlankFacts, IdleFacts, Durations DEF Init, TypeOK
<1>5. StoredOK
  BY <1>3, BlankFacts DEF StoredOK
<1>6. HandlersOK /\ AloneOK /\ \A x \in Handlers : MenuOK(handler[x])
  BY <1>1, IdleFacts DEF HandlersOK, AloneOK, MenuOK
<1> QED BY <1>4, <1>5, <1>6 DEF IInv

LEMMA HandlingInv ==
    ASSUME IInv, NEW x \in Handlers, Handling(x)
    PROVE  IInv'
BY WriteInv, OpenMainMenuInv, EnsureActiveSubscriptionInv, EnsureSessionInv, EnsureUpdateInv,
   StartBuyAccountInv, SelectAccountTypeInv, SelectPlanInv, PlanSetInv, ShowPurchaseStatusInv,
   StatusSessionInv, HandleReceiptInv, ReceiptLockInv, ReReadInv, FindPendingInv, SubmitReceiptInv,
   ReviewInv, UnlockInv
   DEF Handling

LEMMA NextInv == IInv /\ [Next]_vars => IInv'
<1> SUFFICES ASSUME IInv, [Next]_vars PROVE IInv'
  OBVIOUS
<1>1. ASSUME NEW x \in Handlers, TakeMessage(x) \/ PressButton(x) PROVE IInv'
  <2>1. PICK h : Take(x, h) /\ Started(h)
    BY <1>1, Updates
  <2> QED BY <2>1, TakeInv DEF Started
<1>2. CASE UNCHANGED vars \/ ClockEnd
  BY <1>2, SameInv DEF ClockEnd
<1> QED BY <1>1, <1>2, HandlingInv, DecideInv, NotifyInv, CrashInv, TickInv DEF Next

LEMMA Inductive == Spec => []IInv
BY InitInv, NextInv, PTL DEF Spec

\* The purchase, its orders, the lock and the handlers stay as TypeOK types them: a purchase that
\* waits for its receipt has its plan, and Redis drops it at the end of its payment window.
THEOREM TypeCorrect == Spec => []TypeOK
<1>1. IInv => TypeOK
  BY DEF IInv
<1> QED BY <1>1, Inductive, PTL

-----------------------------------------------------------------------------
(* The receipts, when each is downloaded and saved before its lock expires. *)

LEMMA PInvParts ==
    ASSUME PInv
    PROVE  /\ IInv /\ lock.until \in Nat /\ now \in Nat /\ handler \in [Handlers -> Handler]
           /\ \A y \in Handlers : handler[y].pc \in UnderLock => handler[y].end = "unlock"
BY InvParts DEF PInv, RestTyped, HandlersOK, HandlerOK

\* A step that leaves the lock, the orders and the clock alone.
LEMMA LockStep ==
    ASSUME PInv, IInv', UNCHANGED <<lock, order, now>>,
           \A y \in Handlers : handler'[y].end = "unlock" => handler[y].end = "unlock",
           \A y \in Handlers : handler'[y].pc \in {"pending", "submit"} =>
                                   lock.until < handler'[y].copy.chosen + PaymentTimeout + LockTtl,
           \A y \in Handlers : handler'[y].pc = "submit" => Pending = {}
    PROVE  PInv'
<1>1. Pending' = Pending
  BY DEF Pending
<1>2. WindowKept'
  BY DEF PInv, WindowKept
<1>3. \A y \in Handlers : LockedOK(y)'
  BY <1>1 DEF PInv, LockedOK
<1> QED BY <1>1, <1>2, <1>3 DEF PInv

LEMMA OneStep ==
    ASSUME PInv, IInv', UNCHANGED <<lock, order, now>>, NEW x \in Handlers, NEW h, Go(x, h),
           h.end = "unlock" => handler[x].end = "unlock",
           h.pc \in {"pending", "submit"} => lock.until < h.copy.chosen + PaymentTimeout + LockTtl,
           h.pc = "submit" => Pending = {}
    PROVE  PInv'
<1>1. \A y \in Handlers : handler'[y] = IF y = x THEN h ELSE handler[y]
  BY PInvParts DEF Go
<1>2. \A y \in Handlers : LockedOK(y)
  BY DEF PInv
<1>3. \A y \in Handlers : handler'[y].end = "unlock" => handler[y].end = "unlock"
  BY <1>1
<1>4. \A y \in Handlers : handler'[y].pc \in {"pending", "submit"} =>
                              lock.until < handler'[y].copy.chosen + PaymentTimeout + LockTtl
  BY <1>1, <1>2 DEF LockedOK
<1>5. \A y \in Handlers : handler'[y].pc = "submit" => Pending = {}
  BY <1>1, <1>2 DEF LockedOK
<1> QED BY <1>3, <1>4, <1>5, LockStep

\* Handlers that go on outside the check for a pending order.
LEMMA ToStep ==
    ASSUME PInv, IInv', UNCHANGED <<lock, order, now>>, NEW x \in Handlers,
           NEW pc \in Steps \ {"pending", "submit"}, Go(x, To(x, pc))
    PROVE  PInv'
<1>1. PICK h : h = To(x, pc)
  OBVIOUS
<1>2. handler[x] \in Handler
  BY PInvParts
<1>3. h.pc = pc /\ h.end = handler[x].end
  BY <1>1, <1>2 DEF To, Handler
<1>4. Go(x, h) /\ h.pc \notin {"pending", "submit"}
  BY <1>1, <1>3
<1> QED BY <1>3, <1>4, OneStep

LEMMA WritingStep ==
    ASSUME PInv, IInv', UNCHANGED <<lock, order, now>>, NEW x \in Handlers, NEW s, NEW pc, Go(x, Writing(x, s, pc))
    PROVE  PInv'
<1>1. PICK h : h = Writing(x, s, pc)
  OBVIOUS
<1>2. handler[x] \in Handler
  BY PInvParts
<1>3. h.pc = "write" /\ h.end = handler[x].end
  BY <1>1, <1>2 DEF Writing, Handler
<1>4. Go(x, h)
  BY <1>1
<1> QED BY <1>3, <1>4, OneStep

LEMMA EndStep ==
    ASSUME PInv, IInv', UNCHANGED <<lock, order, now>>, NEW x \in Handlers, Go(x, End(x))
    PROVE  PInv'
<1>1. PICK h : h = End(x)
  OBVIOUS
<1>2. h.pc \in {"idle", "unlock"} /\ h.end = handler[x].end
  BY <1>1, PInvParts, EndFacts
<1>3. Go(x, h)
  BY <1>1
<1> QED BY <1>2, <1>3, OneStep

LEMMA ReadsKeeps ==
    ASSUME NEW x, NEW h, Reads(x, h)
    PROVE  UNCHANGED <<lock, order, now>> /\ Go(x, h)
BY DEF Reads, rest

\* The steps of the menu and of the purchase before its receipt.
LEMMA BeforeReceipt ==
    ASSUME PInv, IInv', NEW x \in Handlers,
           \/ Write(x) \/ OpenMainMenu(x) \/ EnsureActiveSubscription(x) \/ EnsureSession(x) \/ EnsureUpdate(x)
           \/ StartBuyAccount(x) \/ SelectAccountType(x) \/ SelectPlan(x) \/ PlanSet(x)
           \/ ShowPurchaseStatus(x) \/ StatusSession(x)
    PROVE  PInv'
<1>1. CASE Write(x)
  <2>1. UNCHANGED <<lock, order, now>>
    BY <1>1 DEF Write, rest
  <2>2. CASE handler[x].after = "idle"
    BY <1>1, <2>1, <2>2, EndStep DEF Write
  <2>3. CASE handler[x].after # "idle"
    <3>1. PICK pc : pc = handler[x].after
      OBVIOUS
    <3>2. pc \in {"buy", "ensure"}
      BY <2>3, <3>1, PInvParts, InvParts DEF HandlersOK, HandlerOK
    <3>3. pc \in Steps \ {"pending", "submit"}
      BY <3>2 DEF Steps
    <3>4. Go(x, To(x, pc))
      BY <1>1, <2>3, <3>1 DEF Write
    <3> QED BY <2>1, <3>3, <3>4, ToStep
  <2> QED BY <2>2, <2>3
<1>2. CASE OpenMainMenu(x)
  <2>1. Reads(x, To(x, "ensure")) \/ Reads(x, Writing(x, Blank, "ensure"))
    BY <1>2 DEF OpenMainMenu
  <2>2. "ensure" \in Steps \ {"pending", "submit"}
    BY DEF Steps
  <2> QED BY <2>1, <2>2, ReadsKeeps, ToStep, WritingStep
<1>3. CASE EnsureActiveSubscription(x)
  <2>1. UNCHANGED <<lock, order, now>> /\ (Go(x, End(x)) \/ Go(x, To(x, "ensureSession")))
    BY <1>3 DEF EnsureActiveSubscription, rest
  <2>2. "ensureSession" \in Steps \ {"pending", "submit"}
    BY DEF Steps
  <2> QED BY <2>1, <2>2, ToStep, EndStep
<1>4. CASE EnsureSession(x)
  <2>1. \/ Reads(x, To(x, "ensureUpdate"))
        \/ Reads(x, Writing(x, [Blank EXCEPT !.state = "SELECTING_PLAN", !.type = RoleType], "idle"))
    BY <1>4 DEF EnsureSession
  <2>2. "ensureUpdate" \in Steps \ {"pending", "submit"}
    BY DEF Steps
  <2> QED BY <2>1, <2>2, ReadsKeeps, ToStep, WritingStep
<1>5. CASE EnsureUpdate(x)
  BY <1>5, ReadsKeeps, WritingStep DEF EnsureUpdate
<1>6. CASE StartBuyAccount(x)
  BY <1>6, ReadsKeeps, WritingStep DEF StartBuyAccount
<1>7. CASE SelectAccountType(x)
  BY <1>7, ReadsKeeps, WritingStep DEF SelectAccountType
<1>8. CASE SelectPlan(x)
  <2>1. PICK h : Reads(x, h) /\ h \in {Writing(x, Blank, "ensure"), [To(x, "planSet") EXCEPT !.copy = session], End(x)}
    BY <1>8 DEF SelectPlan
  <2>2. CASE h = Writing(x, Blank, "ensure")
    BY <2>1, <2>2, ReadsKeeps, WritingStep
  <2>3. CASE h = End(x)
    BY <2>1, <2>3, ReadsKeeps, EndStep
  <2>4. CASE h = [To(x, "planSet") EXCEPT !.copy = session]
    <3>1. handler[x] \in Handler
      BY PInvParts
    <3>2. h.pc = "planSet" /\ h.end = handler[x].end
      BY <2>4, <3>1 DEF To, Handler
    <3> QED BY <2>1, <3>2, ReadsKeeps, OneStep
  <2> QED BY <2>1, <2>2, <2>3, <2>4
<1>9. CASE PlanSet(x)
  BY <1>9, EndStep DEF PlanSet, rest
<1>10. CASE ShowPurchaseStatus(x)
  <2>1. "statusSession" \in Steps \ {"pending", "submit"}
    BY DEF Steps
  <2>2. UNCHANGED <<lock, order, now>>
    BY <1>10 DEF ShowPurchaseStatus, rest
  <2> QED BY <1>10, <2>1, <2>2, ToStep, WritingStep DEF ShowPurchaseStatus
<1>11. CASE StatusSession(x)
  <2>1. Reads(x, End(x)) \/ Reads(x, Writing(x, Blank, "idle"))
    BY <1>11 DEF StatusSession
  <2> QED BY <2>1, ReadsKeeps, EndStep, WritingStep
<1> QED BY <1>1, <1>2, <1>3, <1>4, <1>5, <1>6, <1>7, <1>8, <1>9, <1>10, <1>11

LEMMA HandleReceiptP ==
    ASSUME PInv, IInv', NEW x \in Handlers, HandleReceipt(x)
    PROVE  PInv'
<1>1. handler[x] \in Handler
  BY PInvParts
<1>2. CASE Waiting
  <2>1. PICK h : h = [To(x, "lock") EXCEPT !.menu = FALSE]
    OBVIOUS
  <2>2. Reads(x, h)
    BY <1>2, <2>1 DEF HandleReceipt
  <2>3. h.pc = "lock" /\ h.end = handler[x].end
    BY <1>1, <2>1 DEF To, Handler
  <2> QED BY <2>2, <2>3, ReadsKeeps, OneStep
<1>3. CASE ~Waiting
  <2>1. "ensure" \in Steps \ {"pending", "submit"}
    BY DEF Steps
  <2>2. Reads(x, To(x, "ensure"))
    BY <1>3 DEF HandleReceipt
  <2> QED BY <2>1, <2>2, ReadsKeeps, ToStep
<1> QED BY <1>2, <1>3

\* The lock is free, so no handler is at work under it.
LEMMA ReceiptLockP ==
    ASSUME PInv, IInv', NEW x \in Handlers, ReceiptLock(x)
    PROVE  PInv'
<1>1. UNCHANGED <<order, now>>
  BY DEF ReceiptLock
<1>2. CASE Go(x, End(x)) /\ UNCHANGED lock
  BY <1>1, <1>2, EndStep
<1>3. CASE /\ MayLock /\ lock' = [owner |-> x, until |-> now + LockTtl]
           /\ Go(x, [To(x, "reread") EXCEPT !.end = "unlock"])
  <2>1. PICK h : h = [To(x, "reread") EXCEPT !.end = "unlock"]
    OBVIOUS
  <2>2. handler[x] \in Handler
    BY PInvParts
  <2>3. h.pc = "reread"
    BY <2>1, <2>2 DEF To, Handler
  <2>4. \A y \in Handlers : handler'[y] = IF y = x THEN h ELSE handler[y]
    BY <1>3, <2>1, PInvParts DEF Go
  <2>5. lock'.owner = x /\ lock'.until = now + LockTtl
    BY <1>3
  <2>6. now < lock'.until
    BY <2>5, PInvParts, Durations
  <2>7. \A y \in Handlers : handler[y].end # "unlock" /\ handler[y].pc \notin {"pending", "submit"}
    <3> TAKE y \in Handlers
    <3>1. lock.owner = None /\ None \notin Handlers
      BY <1>3, Names DEF MayLock
    <3>2. handler[y].end # "unlock"
      BY <3>1 DEF PInv, LockedOK
    <3> QED BY <3>2, PInvParts DEF UnderLock
  <2>8. \A y \in Handlers : LockedOK(y)'
    <3> TAKE y \in Handlers
    <3>1. CASE y = x
      <4>1. handler'[y] = h
        BY <2>4, <3>1
      <4> QED BY <1>1, <2>3, <2>5, <2>6, <3>1, <4>1 DEF LockedOK
    <3>2. CASE y # x
      BY <2>4, <2>7, <3>2 DEF LockedOK
    <3> QED BY <3>1, <3>2
  <2>9. Pending' = Pending /\ WindowKept'
    BY <1>1 DEF Pending, PInv, WindowKept
  <2>10. lock'.until <= now' + LockTtl
    BY <1>1, <2>5, PInvParts, Durations
  <2> QED BY <2>8, <2>9, <2>10 DEF PInv
<1> QED BY <1>2, <1>3 DEF ReceiptLock

\* A session that waits has not reached the end of its payment window.
LEMMA ReReadP ==
    ASSUME PInv, IInv', NEW x \in Handlers, ReRead(x)
    PROVE  PInv'
<1>1. CASE Waiting
  <2>1. PICK h : h = [To(x, "pending") EXCEPT !.copy = session]
    OBVIOUS
  <2>2. Reads(x, h)
    BY <1>1, <2>1 DEF ReRead
  <2>3. handler[x] \in Handler
    BY PInvParts
  <2>4. h.pc = "pending" /\ h.end = handler[x].end /\ h.copy = session
    BY <2>1, <2>3 DEF To, Handler
  <2>5. PICK c \in Nat : c = session.chosen
    BY PInvParts, InvParts DEF SessionOK, Session
  <2>6. session.until = c + PaymentTimeout /\ SessionOK /\ now \in Nat /\ lock.until \in Nat
    BY <1>1, <2>5, PInvParts, InvParts DEF SessionOK, StoredOK, SessOK, Waiting
  <2>7. session.until # 0
    BY <2>5, <2>6, Durations
  <2>8. now < c + PaymentTimeout
    BY <2>5, <2>6, <2>7, Durations DEF SessionOK, StoredOK
  <2>9. lock.until <= now + LockTtl
    BY DEF PInv
  <2>10. lock.until < c + PaymentTimeout + LockTtl
    BY <2>5, <2>6, <2>8, <2>9, Durations
  <2>11. lock.until < h.copy.chosen + PaymentTimeout + LockTtl
    BY <2>4, <2>5, <2>10
  <2> QED BY <2>2, <2>4, <2>11, ReadsKeeps, OneStep
<1>2. CASE ~Waiting
  <2>1. "status" \in Steps \ {"pending", "submit"}
    BY DEF Steps
  <2>2. Reads(x, To(x, "status"))
    BY <1>2 DEF ReRead
  <2> QED BY <2>1, <2>2, ReadsKeeps, ToStep
<1> QED BY <1>1, <1>2

LEMMA FindPendingP ==
    ASSUME PInv, IInv', NEW x \in Handlers, FindPending(x)
    PROVE  PInv'
<1>1. UNCHANGED <<lock, order, now>> /\ handler[x].pc = "pending"
  BY DEF FindPending, rest
<1>2. CASE Pending = {} /\ Go(x, To(x, "submit"))
  <2>1. PICK h : h = To(x, "submit")
    OBVIOUS
  <2>2. handler[x] \in Handler
    BY PInvParts
  <2>3. h.pc = "submit" /\ h.end = handler[x].end /\ h.copy = handler[x].copy
    BY <2>1, <2>2 DEF To, Handler
  <2>4. lock.until < h.copy.chosen + PaymentTimeout + LockTtl
    BY <1>1, <2>3 DEF PInv, LockedOK
  <2>5. Go(x, h)
    BY <1>2, <2>1
  <2> QED BY <1>1, <1>2, <2>3, <2>4, <2>5, OneStep
<1>3. CASE \E o \in Pending : Go(x, Writing(x, [Blank EXCEPT !.state = "UNDER_REVIEW", !.order = o], "idle"))
  BY <1>1, <1>3, WritingStep
<1> QED BY <1>2, <1>3 DEF FindPending

\* Only the owner of the lock submits, and it has seen that no order was open.
LEMMA SubmitReceiptP ==
    ASSUME PInv, IInv', NEW x \in Handlers, SubmitReceipt(x)
    PROVE  PInv'
<1>1. UNCHANGED <<lock, now>> /\ handler[x].pc = "submit" /\ handler[x] \in Handler
  BY PInvParts DEF SubmitReceipt
<1>2. CASE Go(x, End(x)) /\ UNCHANGED order
  BY <1>1, <1>2, EndStep
<1>3. ASSUME NEW o \in Orders, Go(x, [To(x, "review") EXCEPT !.order = o]),
             order' = [order EXCEPT ![o] = [status |-> "pending", chosen |-> handler[x].copy.chosen, at |-> now]]
      PROVE  PInv'
  <2>1. PICK h : h = [To(x, "review") EXCEPT !.order = o]
    OBVIOUS
  <2>2. h.pc = "review" /\ h.end = handler[x].end
    BY <1>1, <2>1 DEF To, Handler
  <2>3. \A y \in Handlers : handler'[y] = IF y = x THEN h ELSE handler[y]
    BY <1>3, <2>1, PInvParts DEF Go
  <2>4. /\ handler[x].end = "unlock" /\ lock.owner = x /\ now < lock.until /\ Pending = {}
        /\ lock.until < handler[x].copy.chosen + PaymentTimeout + LockTtl
    BY <1>1, PInvParts DEF PInv, LockedOK, UnderLock
  <2>5. \A y \in Handlers \ {x} : handler[y].end # "unlock" /\ handler[y].pc \notin {"pending", "submit"}
    <3> TAKE y \in Handlers \ {x}
    <3>1. handler[y].end # "unlock"
      BY <2>4 DEF PInv, LockedOK
    <3> QED BY <3>1, PInvParts DEF UnderLock
  <2>6. \A y \in Handlers : LockedOK(y)'
    <3> TAKE y \in Handlers
    <3>1. CASE y = x
      <4>1. handler'[y] = h
        BY <2>3, <3>1
      <4> QED BY <1>1, <2>2, <2>4, <3>1, <4>1 DEF LockedOK
    <3>2. CASE y # x
      BY <2>3, <2>5, <3>2 DEF LockedOK
    <3> QED BY <3>1, <3>2
  <2>7. order \in [Orders -> Order]
    BY PInvParts, InvParts DEF RestTyped
  <2>8. Pending' \subseteq {o}
    BY <1>3, <2>4, <2>7 DEF Pending
  <2>9. WindowKept'
    <3> SUFFICES ASSUME NEW q \in Orders, order'[q].status # "none"
                 PROVE  order'[q].at < order'[q].chosen + PaymentTimeout + LockTtl
      BY DEF WindowKept
    <3>1. CASE q = o
      <4>1. order'[q].at = now /\ order'[q].chosen = handler[x].copy.chosen
        BY <1>3, <2>7, <3>1
      <4>2. PICK c \in Nat : c = handler[x].copy.chosen
        BY <1>1 DEF Handler, Session
      <4>3. now < c + PaymentTimeout + LockTtl
        BY <2>4, <4>2, PInvParts, Durations
      <4> QED BY <4>1, <4>2, <4>3
    <3>2. CASE q # o
      BY <1>3, <2>7, <3>2 DEF PInv, WindowKept
    <3> QED BY <3>1, <3>2
  <2> QED BY <1>1, <2>6, <2>8, <2>9 DEF PInv
<1> QED BY <1>2, <1>3 DEF SubmitReceipt

LEMMA UnlockP ==
    ASSUME PInv, IInv', NEW x \in Handlers, Unlock(x)
    PROVE  PInv'
<1>1. UNCHANGED <<order, now>> /\ handler[x].pc = "unlock"
  BY DEF Unlock
<1>2. \A y \in Handlers : handler'[y] = IF y = x THEN Idle ELSE handler[y]
  BY PInvParts DEF Unlock, Go
<1>3. handler[x].end = "unlock" /\ lock.owner = x
  BY <1>1, PInvParts DEF PInv, LockedOK, UnderLock
<1>4. lock' = [owner |-> None, until |-> 0]
  BY <1>3 DEF Unlock
<1>5. \A y \in Handlers : handler'[y].end # "unlock" /\ handler'[y].pc \notin {"pending", "submit"}
  <2> TAKE y \in Handlers
  <2>1. CASE y = x
    BY <1>2, <2>1, IdleFacts
  <2>2. CASE y # x
    <3>1. handler[y].end # "unlock"
      BY <1>3, <2>2 DEF PInv, LockedOK
    <3> QED BY <1>2, <2>2, <3>1, PInvParts DEF UnderLock
  <2> QED BY <2>1, <2>2
<1>6. \A y \in Handlers : LockedOK(y)'
  BY <1>5 DEF LockedOK
<1>7. Pending' = Pending /\ WindowKept'
  BY <1>1 DEF Pending, PInv, WindowKept
<1>8. lock'.until <= now' + LockTtl
  BY <1>1, <1>4, PInvParts, Durations
<1> QED BY <1>6, <1>7, <1>8 DEF PInv

LEMMA TakeP ==
    ASSUME PInv, IInv', NEW x \in Handlers, NEW h, Take(x, h), Started(h)
    PROVE  PInv'
<1>1. PICK b \in BOOLEAN : b = (\A z \in Handlers \ {x} : handler[z] = Idle)
  OBVIOUS
<1>2. PICK g : g = [h EXCEPT !.alone = b]
  OBVIOUS
<1>3. \A y \in Handlers : handler'[y] = IF y = x THEN g ELSE [handler[y] EXCEPT !.alone = FALSE]
  BY <1>1, <1>2 DEF Take
<1>4. g.end = "idle" /\ g.pc \notin {"pending", "submit"}
  BY <1>2, AloneFacts DEF Started, UnderLock
<1>5. \A y \in Handlers : y # x => /\ handler'[y].end = handler[y].end /\ handler'[y].pc = handler[y].pc
                                   /\ handler'[y].copy = handler[y].copy
  <2> TAKE y \in Handlers
  <2>1. handler[y] \in Handler /\ HandlerOK(handler[y])
    BY PInvParts, InvParts DEF HandlersOK
  <2> QED BY <1>3, <2>1, AloneFacts
<1>6. \A y \in Handlers : LockedOK(y)
  BY DEF PInv
<1>7. handler'[x] = g
  BY <1>3
<1>8. \A y \in Handlers : handler'[y].end = "unlock" => handler[y].end = "unlock"
  BY <1>4, <1>5, <1>7
<1>9. \A y \in Handlers : handler'[y].pc \in {"pending", "submit"} =>
                              lock.until < handler'[y].copy.chosen + PaymentTimeout + LockTtl
  BY <1>4, <1>5, <1>6, <1>7 DEF LockedOK
<1>10. \A y \in Handlers : handler'[y].pc = "submit" => Pending = {}
  BY <1>4, <1>5, <1>6, <1>7 DEF LockedOK
<1>11. UNCHANGED <<lock, order, now>>
  BY DEF Take
<1> QED BY <1>8, <1>9, <1>10, <1>11, LockStep

LEMMA DecideP ==
    ASSUME PInv, IInv', NEW o \in Orders, Decide(o)
    PROVE  PInv'
<1>1. UNCHANGED <<lock, handler, now>> /\ o \in Pending
  BY DEF Decide
<1>2. PICK d \in {"approved", "rejected"} : order' = [order EXCEPT ![o].status = d]
  BY DEF Decide
<1>3. order \in [Orders -> Order]
  BY PInvParts, InvParts DEF RestTyped
<1>4. \A q \in Orders : /\ order'[q].at = order[q].at /\ order'[q].chosen = order[q].chosen
                        /\ order'[q].status = IF q = o THEN d ELSE order[q].status
  BY <1>2, <1>3 DEF Order
<1>5. Pending' \subseteq Pending
  BY <1>4 DEF Pending
<1>6. order[o].status # "none"
  BY <1>1 DEF Pending
<1>7. WindowKept'
  BY <1>4, <1>6 DEF PInv, WindowKept
<1>8. \A y \in Handlers : LockedOK(y)'
  BY <1>1, <1>5 DEF PInv, LockedOK
<1> QED BY <1>1, <1>5, <1>7, <1>8 DEF PInv

LEMMA SameP ==
    ASSUME PInv, IInv', UNCHANGED <<lock, order, handler, now>>
    PROVE  PInv'
<1>1. Pending' = Pending /\ WindowKept'
  BY DEF Pending, PInv, WindowKept
<1>2. \A y \in Handlers : LockedOK(y)'
  BY <1>1 DEF PInv, LockedOK
<1> QED BY <1>1, <1>2 DEF PInv

LEMMA CrashP ==
    ASSUME PInv, IInv', Crash
    PROVE  PInv'
<1>1. UNCHANGED <<lock, order, now>> /\ \A y \in Handlers : handler'[y] = Idle
  BY DEF Crash
<1>2. Pending' = Pending /\ WindowKept'
  BY <1>1 DEF Pending, PInv, WindowKept
<1>3. \A y \in Handlers : LockedOK(y)'
  BY <1>1, IdleFacts DEF LockedOK
<1> QED BY <1>1, <1>2, <1>3 DEF PInv

\* No lock expires under the handler that holds it.
LEMMA TickP ==
    ASSUME Prompt, PInv, IInv', Tick
    PROVE  PInv'
<1>1. UNCHANGED <<order, handler>> /\ now' = now + 1 /\ now \in Nat /\ lock.until \in Nat
  BY PInvParts DEF Tick
<1>2. Pending' = Pending /\ WindowKept'
  BY <1>1 DEF Pending, PInv, WindowKept
<1>3. \A y \in Handlers : handler[y].end = "unlock" => now' < lock.until
  BY <1>1 DEF Tick
<1>4. CASE lock.until <= now'
  <2>1. lock' = [owner |-> None, until |-> 0]
    BY <1>4 DEF Tick
  <2>2. \A y \in Handlers : handler[y].end # "unlock"
    BY <1>1, <1>3, <1>4
  <2>3. \A y \in Handlers : LockedOK(y)'
    BY <1>1, <2>2, PInvParts DEF LockedOK, UnderLock
  <2>4. lock'.until <= now' + LockTtl
    BY <1>1, <2>1, Durations
  <2> QED BY <1>2, <2>3, <2>4 DEF PInv
<1>5. CASE ~(lock.until <= now')
  <2>1. lock' = lock
    BY <1>5 DEF Tick
  <2>2. \A y \in Handlers : LockedOK(y)'
    BY <1>1, <1>2, <1>3, <2>1 DEF PInv, LockedOK
  <2>3. lock'.until <= now' + LockTtl
    <3>1. lock.until <= now + LockTtl
      BY DEF PInv
    <3> QED BY <1>1, <2>1, <3>1, Durations
  <2> QED BY <1>2, <2>2, <2>3 DEF PInv
<1> QED BY <1>4, <1>5

LEMMA InitP == Init => PInv
<1> SUFFICES ASSUME Init PROVE PInv
  OBVIOUS
<1>1. \A y \in Handlers : handler[y] = Idle
  BY DEF Init
<1>2. \A o \in Orders : order[o].status = "none"
  BY DEF Init
<1>3. Pending = {} /\ WindowKept
  BY <1>2 DEF Pending, WindowKept
<1>4. \A y \in Handlers : LockedOK(y)
  BY <1>1, IdleFacts DEF LockedOK
<1>5. lock.until <= now + LockTtl
  BY Durations DEF Init
<1> QED BY <1>3, <1>4, <1>5, InitInv DEF PInv

LEMMA HandlingP ==
    ASSUME PInv, IInv', NEW x \in Handlers, Handling(x)
    PROVE  PInv'
<1>1. CASE Review(x)
  BY <1>1, ReadsKeeps, WritingStep DEF Review
<1> QED BY <1>1, BeforeReceipt, HandleReceiptP, ReceiptLockP, ReReadP, FindPendingP, SubmitReceiptP, UnlockP
        DEF Handling

LEMMA NextP ==
    ASSUME Prompt
    PROVE  PInv /\ [Next]_vars => PInv'
<1> SUFFICES ASSUME PInv, [Next]_vars PROVE PInv'
  OBVIOUS
<1>1. IInv'
  BY NextInv DEF PInv
<1>2. ASSUME NEW x \in Handlers, TakeMessage(x) \/ PressButton(x) PROVE PInv'
  <2>1. PICK h : Take(x, h) /\ Started(h)
    BY <1>2, Updates
  <2> QED BY <1>1, <2>1, TakeP
<1>3. CASE \/ UNCHANGED vars \/ ClockEnd \/ \E o \in Orders : Notify(o)
  <2>1. UNCHANGED <<lock, order, handler, now>>
    BY <1>3 DEF ClockEnd, Notify, vars
  <2> QED BY <1>1, <2>1, SameP
<1> QED BY <1>1, <1>2, <1>3, HandlingP, DecideP, CrashP, TickP DEF Next

LEMMA Promptly ==
    ASSUME Prompt
    PROVE  Spec => []PInv
BY InitP, NextP, PTL DEF Spec

\* processReceipt, withReceiptLock: whatever photos the buyer sends and wherever the backend
\* crashes, at most one order of the buyer waits for a decision - as long as a receipt is
\* downloaded and saved before its lock expires.
THEOREM OneOpen ==
    ASSUME Prompt
    PROVE  Spec => []OneOpenOrder
<1>1. ASSUME PInv PROVE OneOpenOrder
  <2>1. CASE Pending = {}
    BY <2>1, FS_EmptySet DEF OneOpenOrder
  <2>2. CASE Pending # {}
    <3>1. PICK o : Pending = {o}
      BY <1>1, <2>2 DEF PInv
    <3> QED BY <3>1, FS_Singleton DEF OneOpenOrder
  <2> QED BY <2>1, <2>2
<1> QED BY <1>1, Promptly, PTL

\* selectPlan, BotSessionService.get and set: an order is of a plan chosen within the payment
\* window, up to the lock that a receipt is handled under; no menu, read or write of a session
\* read earlier stretches the window.
THEOREM Window ==
    ASSUME Prompt
    PROVE  Spec => []WindowKept
<1>1. PInv => WindowKept
  BY DEF PInv
<1> QED BY <1>1, Promptly, PTL

-----------------------------------------------------------------------------
(* The menu beside a purchase. *)

\* What the menu writes is the purchase it has read, whose window is not over.
LEMMA MenuWrites ==
    ASSUME IInv, NEW x \in Handlers, Waiting, handler[x].alone, handler[x].menu, Write(x)
    PROVE  session'.state = "WAITING_FOR_RECEIPT"
<1>1. PICK s \in Session : s = handler[x].copy /\ SessOK(s)
  BY InvParts DEF Handler, HandlersOK, HandlerOK
<1>2. s.state = "WAITING_FOR_RECEIPT" /\ s.until = session.until
  BY <1>1 DEF IInv, MenuOK, Write
<1>3. PICK c \in Nat : c = session.chosen
  BY InvParts DEF SessionOK, Session
<1>4. session.until = c + PaymentTimeout
  BY <1>3, InvParts DEF SessionOK, StoredOK, SessOK, Waiting
<1>5. session.until # 0
  BY <1>3, <1>4, Durations
<1>6. s.until > now
  BY <1>2, <1>3, <1>4, <1>5, InvParts, Durations DEF SessionOK, StoredOK
<1>7. Put(s) /\ now' = now
  BY <1>1 DEF Write, rest
<1> QED BY <1>1, <1>2, <1>6, <1>7, PutFacts

\* The other steps of the menu only read.
LEMMA MenuReads ==
    ASSUME IInv, NEW x \in Handlers, handler[x].menu, Handling(x), ~Write(x)
    PROVE  session' = session
<1>1. handler[x].pc \in MenuSteps
  BY InvParts DEF HandlersOK, HandlerOK
<1>2. ~PlanSet(x)
  BY <1>1 DEF PlanSet, MenuSteps
<1> QED BY <1>2 DEF Handling, OpenMainMenu, EnsureActiveSubscription, EnsureSession, EnsureUpdate,
     StartBuyAccount, SelectAccountType, SelectPlan, ShowPurchaseStatus, StatusSession, HandleReceipt,
     ReceiptLock, ReRead, FindPending, SubmitReceipt, Review, Unlock, Reads

\* A handler moves by its own steps.
LEMMA OwnStep ==
    ASSUME IInv, NEW x \in Handlers, NEW y \in Handlers, y # x, Handling(y)
    PROVE  handler'[x] = handler[x]
<1>1. ASSUME NEW h, Reads(y, h) PROVE handler'[x] = handler[x]
  BY <1>1, InvParts DEF Reads, Go
<1>2. ASSUME NEW h, Go(y, h) PROVE handler'[x] = handler[x]
  BY <1>2, InvParts DEF Go
<1>3. CASE \/ OpenMainMenu(y) \/ EnsureSession(y) \/ EnsureUpdate(y) \/ StartBuyAccount(y) \/ SelectAccountType(y)
           \/ SelectPlan(y) \/ StatusSession(y) \/ HandleReceipt(y) \/ ReRead(y) \/ Review(y)
  BY <1>1, <1>3 DEF OpenMainMenu, EnsureSession, EnsureUpdate, StartBuyAccount, SelectAccountType, SelectPlan,
     StatusSession, HandleReceipt, ReRead, Review
<1>4. CASE \/ Write(y) \/ EnsureActiveSubscription(y) \/ PlanSet(y) \/ ShowPurchaseStatus(y) \/ ReceiptLock(y)
           \/ FindPending(y) \/ SubmitReceipt(y) \/ Unlock(y)
  BY <1>2, <1>4 DEF Write, EnsureActiveSubscription, PlanSet, ShowPurchaseStatus, ReceiptLock, FindPending,
     SubmitReceipt, Unlock
<1> QED BY <1>3, <1>4 DEF Handling

\* openMainMenu, ensureActiveSubscription, updateSession: a message that only brings up the menu
\* never ends a purchase that waits for its receipt, when nothing else of the buyer runs
\* meanwhile - however slow it is, for the window of a session that waits is not over.
THEOREM MenuKeepsIt == Spec => MenuKeepsPurchase
<1>1. ASSUME IInv, [Next]_vars, NEW x \in Handlers,
             Waiting, handler[x].alone, handler[x].menu, handler'[x] # handler[x]
      PROVE  session'.state = "WAITING_FOR_RECEIPT"
  <2>1. CASE Handling(x)
    <3>1. CASE Write(x)
      BY <1>1, <3>1, MenuWrites
    <3>2. CASE ~Write(x)
      BY <1>1, <2>1, <3>2, MenuReads DEF Waiting
    <3> QED BY <3>1, <3>2
  <2>2. ASSUME NEW y \in Handlers, TakeMessage(y) \/ PressButton(y) PROVE session' = session
    <3>1. PICK h : Take(y, h)
      BY <2>2, Updates
    <3> QED BY <3>1 DEF Take
  <2>3. CASE Crash
    BY <1>1, <2>3 DEF Crash, Waiting
  <2>4. ASSUME NEW y \in Handlers, Handling(y) PROVE y = x
    BY <1>1, <2>4, OwnStep
  <2>5. handler' # handler
    BY <1>1
  <2> QED BY <1>1, <2>1, <2>2, <2>3, <2>4, <2>5 DEF Next, Decide, Notify, Tick, ClockEnd, vars, Waiting
<1>2. IInv /\ [Next]_vars =>
        \A x \in Handlers : (Waiting /\ handler[x].alone /\ handler[x].menu /\ handler'[x] # handler[x])
                                => session'.state = "WAITING_FOR_RECEIPT"
  BY <1>1
<1> QED BY <1>2, Inductive, PTL DEF Spec, MenuKeepsPurchase

=============================================================================
