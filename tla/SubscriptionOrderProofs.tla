------------------------ MODULE SubscriptionOrderProofs ------------------------
(***************************************************************************)
(* Proofs about SubscriptionOrder, for every number of orders, admins,      *)
(* codes, tiers, attempts and faults and every bound on time.               *)
(*                                                                         *)
(* The rows alone are not inductive: the analysis writes back the receipt   *)
(* it read before it asked the analyzer, and approveOrder commits from what *)
(* it read before, so the invariants also tell what those copies may be.    *)
(***************************************************************************)
EXTENDS SubscriptionOrder, FiniteSetTheorems, TLAPS

\* What is waiting has an attempt left, and no claim goes beyond the last one.
ReceiptsOK ==
    \A o \in Orders :
        /\ receipt[o].attempts <= MaxAttempts
        /\ receipt[o].status = "PendingAnalysis" => receipt[o].attempts < MaxAttempts

\* processReceipt has an order in hand once it claims, and a copy of a claimed receipt
\* while it analyzes.
ProcOK(me) ==
    /\ me.pc \in {"claim", "read", "analyze", "save", "release"} => me.order \in Orders
    /\ me.pc \in {"analyze", "save"} => me.copy.attempts <= MaxAttempts

ProcsOK == \A p \in Procs : ProcOK(proc[p])

AdminsOK == \A a \in Admins : admin[a].pc = "commit" => admin[a].order \in Orders

\* The inductive invariant.
IInv == TypeOK /\ ReceiptsOK /\ ProcsOK /\ AdminsOK /\ DecisionsAgree

-----------------------------------------------------------------------------
(* Facts about the operators. *)

LEMMA MaxAttemptsNat == MaxAttempts \in Nat /\ MaxAttempts # 0
BY SubscriptionAssumption DEF SubscriptionAssumption

LEMMA NewRecords ==
    /\ NoReceipt \in Receipt
    /\ Idle \in Proc /\ ProcOK(Idle)
    /\ Free \in Admin /\ Free.pc = "idle"
<1>1. NoReceipt \in Receipt
  BY DEF NoReceipt, Receipt, ReceiptStatuses
<1>2. Idle \in Proc /\ ProcOK(Idle)
  BY <1>1 DEF Idle, Proc, Procs, ProcOK
<1>3. Free \in Admin /\ Free.pc = "idle"
  BY DEF Free, Admin, Procs
<1> QED BY <1>1, <1>2, <1>3

LEMMA LaterFacts ==
    ASSUME NEW s \in Nat, NEW t \in Nat
    PROVE  Later(s, t) \in Nat /\ Later(s, t) >= s /\ Later(s, t) >= t
BY DEF Later

LEMMA DoneFacts ==
    ASSUME NEW p \in Procs
    PROVE  Done(p) \in Proc /\ ProcOK(Done(p))
BY NewRecords DEF Done, Idle, Proc, Procs, ProcOK

\* A claim leaves the status open and takes one of the attempts left.
LEMMA ClaimedFacts ==
    ASSUME TypeOK, NEW r \in Receipt, r.attempts < MaxAttempts
    PROVE  /\ Claimed(r) \in Receipt
           /\ Claimed(r).status = "Analyzing"
           /\ Claimed(r).attempts <= MaxAttempts
<1>1. PICK t \in Nat, k \in Nat : t = now /\ k = r.attempts + 1 /\ k <= MaxAttempts
  BY MaxAttemptsNat DEF TypeOK, Receipt
<1>2. PICK n : n = [r EXCEPT !.status = "Analyzing", !.started = t, !.attempts = k]
  OBVIOUS
<1>3. n \in Receipt
  BY <1>2 DEF Receipt, ReceiptStatuses
<1>4. n.status = "Analyzing" /\ n.attempts = k
  BY <1>2 DEF Receipt
<1>5. Claimed(r) = n
  BY <1>1, <1>2 DEF Claimed
<1> QED BY <1>1, <1>3, <1>4, <1>5

\* What is released is queued again only while it has an attempt left.
LEMMA ReleasedFacts ==
    ASSUME NEW r \in Receipt, r.attempts <= MaxAttempts
    PROVE  /\ Released(r) \in Receipt
           /\ Released(r).attempts <= MaxAttempts
           /\ Released(r).status \in {"NeedsReview", "PendingAnalysis"}
           /\ Released(r).status = "PendingAnalysis" => Released(r).attempts < MaxAttempts
<1>1. PICK st : st = IF r.attempts >= MaxAttempts THEN "NeedsReview" ELSE "PendingAnalysis"
  OBVIOUS
<1>2. PICK n : n = [r EXCEPT !.status = st, !.started = 0]
  OBVIOUS
<1>3. n \in Receipt
  BY <1>1, <1>2 DEF Receipt, ReceiptStatuses
<1>4. n.status = st /\ n.attempts = r.attempts /\ r.attempts \in Nat
  BY <1>2 DEF Receipt
<1>5. Released(r) = n
  BY <1>1, <1>2 DEF Released
<1> QED BY <1>1, <1>3, <1>4, <1>5, MaxAttemptsNat

\* Every process stays well when one of them becomes me.
LEMMA ProcMoves ==
    ASSUME TypeOK, ProcsOK, NEW p \in Procs, NEW me \in Proc, ProcOK(me),
           proc' = [proc EXCEPT ![p] = me]
    PROVE  proc' \in [Procs -> Proc] /\ ProcsOK'
BY DEF TypeOK, ProcsOK

\* Rows stay well when one receipt becomes r and its order agrees with it.
LEMMA RowMoves ==
    ASSUME TypeOK, ReceiptsOK, DecisionsAgree, NEW o \in Orders,
           NEW r \in Receipt, NEW s \in OrderStatuses,
           receipt' = [receipt EXCEPT ![o] = r], order' = [order EXCEPT ![o] = s],
           r.attempts <= MaxAttempts,
           r.status = "PendingAnalysis" => r.attempts < MaxAttempts,
           \A d \in {"Approved", "Rejected"} : s = d <=> r.status = d
    PROVE  /\ receipt' \in [Orders -> Receipt] /\ order' \in [Orders -> OrderStatuses]
           /\ ReceiptsOK' /\ DecisionsAgree'
<1>1. \A q \in Orders : /\ receipt'[q] = IF q = o THEN r ELSE receipt[q]
                        /\ order'[q] = IF q = o THEN s ELSE order[q]
  BY DEF TypeOK
<1>2. receipt' \in [Orders -> Receipt] /\ order' \in [Orders -> OrderStatuses]
  BY DEF TypeOK
<1>3. ReceiptsOK'
  BY <1>1 DEF ReceiptsOK
<1>4. DecisionsAgree'
  BY <1>1 DEF DecisionsAgree
<1> QED BY <1>2, <1>3, <1>4

-----------------------------------------------------------------------------
(* Every step keeps the inductive invariant. *)

\* TypeOK without the rows, the processes and the requests.
RestTyped ==
    /\ account \in BOOLEAN
    /\ subs \subseteq Sub /\ paidUntil \in Nat
    /\ bonuses \subseteq Bonus /\ bonusUntil \in Nat /\ tiers \in SUBSET Tiers
    /\ todo \in SUBSET Orders
    /\ faults \in Nat /\ now \in Nat

\* A step of the analysis that leaves the rows alone.
LEMMA ProcStep ==
    ASSUME IInv, NEW p \in Procs, NEW me \in Proc, ProcOK(me), proc' = [proc EXCEPT ![p] = me],
           UNCHANGED <<rows, admin>>, RestTyped'
    PROVE  IInv'
<1>1. proc' \in [Procs -> Proc] /\ ProcsOK'
  BY ProcMoves DEF IInv
<1>2. TypeOK'
  BY <1>1 DEF IInv, TypeOK, RestTyped, rows
<1>3. ReceiptsOK' /\ AdminsOK' /\ DecisionsAgree'
  BY DEF IInv, ReceiptsOK, AdminsOK, DecisionsAgree, rows
<1> QED BY <1>1, <1>2, <1>3 DEF IInv

\* A step of the analysis of order o that writes its rows.
LEMMA RowStep ==
    ASSUME IInv, NEW p \in Procs, NEW me \in Proc, ProcOK(me), proc' = [proc EXCEPT ![p] = me],
           NEW o \in Orders, NEW r \in Receipt, NEW s \in OrderStatuses,
           receipt' = [receipt EXCEPT ![o] = r], order' = [order EXCEPT ![o] = s],
           r.attempts <= MaxAttempts,
           r.status = "PendingAnalysis" => r.attempts < MaxAttempts,
           \A d \in {"Approved", "Rejected"} : s = d <=> r.status = d,
           UNCHANGED <<bought, rewards, todo, admin, faults, now>>
    PROVE  IInv'
<1>1. proc' \in [Procs -> Proc] /\ ProcsOK'
  BY ProcMoves DEF IInv
<1>2. /\ receipt' \in [Orders -> Receipt] /\ order' \in [Orders -> OrderStatuses]
      /\ ReceiptsOK' /\ DecisionsAgree'
  BY RowMoves DEF IInv
<1>3. TypeOK'
  BY <1>1, <1>2 DEF IInv, TypeOK, bought, rewards
<1>4. AdminsOK'
  BY DEF IInv, AdminsOK
<1> QED BY <1>1, <1>2, <1>3, <1>4 DEF IInv

LEMMA SubmitReceiptInv ==
    ASSUME IInv, NEW o \in Orders, SubmitReceipt(o)
    PROVE  IInv'
<1>1. PICK t \in Nat : t = now
  BY DEF IInv, TypeOK
<1>2. PICK r : r = [NoReceipt EXCEPT !.status = "PendingAnalysis", !.created = t]
  OBVIOUS
<1>3. r \in Receipt /\ r.attempts = 0 /\ r.status = "PendingAnalysis"
  BY <1>2 DEF NoReceipt, Receipt, ReceiptStatuses
<1>4. PICK me : me = [Idle EXCEPT !.pc = "claim", !.order = o]
  OBVIOUS
<1>5. me \in Proc /\ ProcOK(me)
  BY <1>4, NewRecords DEF Idle, Proc, ProcOK, Procs
<1>6. "ReceiptSubmitted" \in OrderStatuses /\ o \in Procs
  BY DEF OrderStatuses, Procs
<1>7. /\ proc' = [proc EXCEPT ![o] = me]
      /\ receipt' = [receipt EXCEPT ![o] = r] /\ order' = [order EXCEPT ![o] = "ReceiptSubmitted"]
      /\ UNCHANGED <<bought, rewards, todo, admin, faults, now>>
  BY <1>1, <1>2, <1>4 DEF SubmitReceipt
<1>8. r.attempts <= MaxAttempts /\ r.attempts < MaxAttempts
  BY <1>3, MaxAttemptsNat
<1>9. \A d \in {"Approved", "Rejected"} : "ReceiptSubmitted" = d <=> r.status = d
  BY <1>3
<1> QED BY <1>3, <1>5, <1>6, <1>7, <1>8, <1>9, RowStep

\* The receipt of an order that a process has in hand, and the process with another pc.
LEMMA InHand ==
    ASSUME IInv, NEW p \in Procs, proc[p].pc \in {"claim", "read", "analyze", "save", "release"}
    PROVE  /\ proc[p] \in Proc /\ proc[p].order \in Orders
           /\ receipt[proc[p].order] \in Receipt
           /\ order[proc[p].order] \in OrderStatuses
BY DEF IInv, TypeOK, ProcsOK, ProcOK

LEMMA ClaimInv ==
    ASSUME IInv, NEW p \in Procs, Claim(p)
    PROVE  IInv'
<1>1. PICK o \in Orders : o = proc[p].order
  BY InHand DEF Claim
<1>2. CASE receipt[o].status = "PendingAnalysis" /\ receipt' = [receipt EXCEPT ![o] = Claimed(receipt[o])]
           /\ proc' = [proc EXCEPT ![p].pc = "read"]
  <2>1. receipt[o] \in Receipt /\ receipt[o].attempts < MaxAttempts
    BY <1>2 DEF IInv, TypeOK, ReceiptsOK
  <2>2. PICK r \in Receipt : /\ r = Claimed(receipt[o]) /\ r.status = "Analyzing"
                             /\ r.attempts <= MaxAttempts
    BY <2>1, ClaimedFacts DEF IInv
  <2>3. PICK me : me = [proc[p] EXCEPT !.pc = "read"]
    OBVIOUS
  <2>4. me \in Proc /\ ProcOK(me)
    BY <1>1, <2>3 DEF Proc, ProcOK, IInv, TypeOK
  <2>5. order' = [order EXCEPT ![o] = order[o]] /\ order[o] \in OrderStatuses
    BY DEF IInv, TypeOK, Claim
  <2>6. \A d \in {"Approved", "Rejected"} : order[o] = d <=> r.status = d
    BY <1>2, <2>2 DEF IInv, DecisionsAgree
  <2>7. /\ proc' = [proc EXCEPT ![p] = me] /\ receipt' = [receipt EXCEPT ![o] = r]
        /\ UNCHANGED <<bought, rewards, todo, admin, faults, now>>
    BY <1>2, <2>2, <2>3 DEF Claim
  <2>8. r.status # "PendingAnalysis"
    BY <2>2
  <2> QED BY <2>2, <2>4, <2>5, <2>6, <2>7, <2>8, RowStep
<1>3. CASE UNCHANGED receipt /\ proc' = [proc EXCEPT ![p] = Done(p)]
  <2>1. RestTyped' /\ UNCHANGED <<rows, admin>>
    BY <1>3 DEF Claim, IInv, TypeOK, RestTyped, bought, rewards, rows
  <2> QED BY <1>3, <2>1, DoneFacts, ProcStep
<1> QED BY <1>1, <1>2, <1>3 DEF Claim

LEMMA ReadReceiptInv ==
    ASSUME IInv, NEW p \in Procs, ReadReceipt(p)
    PROVE  IInv'
<1>1. PICK o \in Orders : o = proc[p].order
  BY InHand DEF ReadReceipt
<1>2. RestTyped' /\ UNCHANGED <<rows, admin>>
  BY DEF ReadReceipt, IInv, TypeOK, RestTyped, bought, rewards, rows
<1>3. CASE receipt[o].status = "Analyzing"
  <2>1. PICK r : r = [receipt[o] EXCEPT !.started = 0]
    OBVIOUS
  <2>2. r \in Receipt /\ r.attempts <= MaxAttempts
    <3>1. receipt[o] \in Receipt /\ receipt[o].attempts <= MaxAttempts
      BY DEF IInv, TypeOK, ReceiptsOK
    <3> QED BY <2>1, <3>1 DEF Receipt
  <2>3. PICK me : me = [proc[p] EXCEPT !.pc = "analyze", !.copy = r]
    OBVIOUS
  <2>4. me \in Proc /\ ProcOK(me)
    <3>1. proc[p] \in Proc
      BY DEF IInv, TypeOK
    <3> QED BY <1>1, <2>2, <2>3, <3>1 DEF Proc, ProcOK
  <2>5. proc' = [proc EXCEPT ![p] = me]
    BY <1>1, <1>3, <2>1, <2>3 DEF ReadReceipt
  <2> QED BY <1>2, <2>4, <2>5, ProcStep
<1>4. CASE receipt[o].status # "Analyzing"
  <2>1. proc' = [proc EXCEPT ![p] = Done(p)]
    BY <1>1, <1>4 DEF ReadReceipt
  <2> QED BY <1>2, <2>1, DoneFacts, ProcStep
<1> QED BY <1>3, <1>4

LEMMA AnalyzeInv ==
    ASSUME IInv, NEW p \in Procs, Analyze(p)
    PROVE  IInv'
<1>1. RestTyped' /\ UNCHANGED <<rows, admin>>
  BY DEF Analyze, IInv, TypeOK, RestTyped, bought, rewards, rows
<1>2. /\ proc[p] \in Proc /\ proc[p].order \in Orders /\ proc[p].copy \in Receipt
      /\ proc[p].copy.attempts <= MaxAttempts
  BY InHand DEF Analyze, IInv, ProcsOK, ProcOK, Proc
<1>3. ASSUME NEW c \in Codes \cup {NoCode},
             proc' = [proc EXCEPT ![p].pc = "save", ![p].copy.code = c]
      PROVE  IInv'
  <2>1. PICK r : r = [proc[p].copy EXCEPT !.code = c]
    OBVIOUS
  <2>2. r \in Receipt /\ r.attempts <= MaxAttempts
    BY <1>2, <2>1 DEF Receipt
  <2>3. PICK me : me = [proc[p] EXCEPT !.pc = "save", !.copy = r]
    OBVIOUS
  <2>4. me \in Proc /\ ProcOK(me)
    BY <1>2, <2>2, <2>3 DEF Proc, ProcOK
  <2>5. proc' = [proc EXCEPT ![p] = me]
    BY <1>3, <2>1, <2>3, <1>2 DEF IInv, TypeOK, Proc
  <2> QED BY <1>1, <2>4, <2>5, ProcStep
<1>4. CASE proc' = [proc EXCEPT ![p].pc = "release"]
  <2>1. PICK me : me = [proc[p] EXCEPT !.pc = "release"]
    OBVIOUS
  <2>2. me \in Proc /\ ProcOK(me)
    BY <1>2, <2>1 DEF Proc, ProcOK
  <2>3. proc' = [proc EXCEPT ![p] = me]
    BY <1>4, <2>1
  <2> QED BY <1>1, <2>2, <2>3, ProcStep
<1> QED BY <1>3, <1>4 DEF Analyze

LEMMA SaveAnalysisInv ==
    ASSUME IInv, NEW p \in Procs, SaveAnalysis(p)
    PROVE  IInv'
<1>1. PICK o \in Orders : o = proc[p].order
  BY InHand DEF SaveAnalysis
<1>2. PICK copy \in Receipt : copy = proc[p].copy /\ copy.attempts <= MaxAttempts
  BY DEF SaveAnalysis, IInv, TypeOK, ProcsOK, ProcOK, Proc
<1>3. PICK r : r = [copy EXCEPT !.status = "NeedsReview", !.started = 0]
  OBVIOUS
<1>4. r \in Receipt /\ r.attempts <= MaxAttempts /\ r.status = "NeedsReview"
  BY <1>2, <1>3 DEF Receipt, ReceiptStatuses
<1>5. "UnderReview" \in OrderStatuses
  BY DEF OrderStatuses
<1>6. /\ receipt' = [receipt EXCEPT ![o] = r]
      /\ order' = [order EXCEPT ![o] = "UnderReview"]
      /\ proc' = [proc EXCEPT ![p] = Done(p)]
      /\ UNCHANGED <<bought, rewards, todo, admin, faults, now>>
  BY <1>1, <1>2, <1>3 DEF SaveAnalysis, StatusAfterAnalysis
<1>7. \A d \in {"Approved", "Rejected"} : "UnderReview" = d <=> r.status = d
  BY <1>4
<1>8. r.status # "PendingAnalysis"
  BY <1>4
<1> QED BY <1>4, <1>5, <1>6, <1>7, <1>8, DoneFacts, RowStep

LEMMA ReleaseFailedInv ==
    ASSUME IInv, NEW p \in Procs, ReleaseFailed(p)
    PROVE  IInv'
<1>1. PICK o \in Orders : o = proc[p].order
  BY InHand DEF ReleaseFailed
<1>2. receipt[o] \in Receipt /\ receipt[o].attempts <= MaxAttempts
  BY DEF IInv, TypeOK, ReceiptsOK
<1>3. PICK r \in Receipt :
          /\ r = IF receipt[o].status = "Analyzing" THEN Released(receipt[o]) ELSE receipt[o]
          /\ r.attempts <= MaxAttempts
          /\ r.status = "PendingAnalysis" => r.attempts < MaxAttempts
          /\ receipt[o].status = "Analyzing" => r.status \in {"NeedsReview", "PendingAnalysis"}
  BY <1>2, ReleasedFacts DEF IInv, ReceiptsOK
<1>4. order' = [order EXCEPT ![o] = order[o]] /\ order[o] \in OrderStatuses
  BY DEF IInv, TypeOK, ReleaseFailed
<1>5. \A d \in {"Approved", "Rejected"} : order[o] = d <=> r.status = d
  <2>1. CASE receipt[o].status = "Analyzing"
    BY <1>3, <2>1 DEF IInv, DecisionsAgree
  <2>2. CASE receipt[o].status # "Analyzing"
    BY <1>3, <2>2 DEF IInv, DecisionsAgree
  <2> QED BY <2>1, <2>2
<1>6. receipt' = [receipt EXCEPT ![o] = r]
  BY <1>1, <1>3 DEF ReleaseFailed
<1>7. proc' = [proc EXCEPT ![p] = Done(p)] /\ UNCHANGED <<bought, rewards, todo, admin, faults, now>>
  BY DEF ReleaseFailed
<1>8. /\ r.attempts <= MaxAttempts
      /\ r.status = "PendingAnalysis" => r.attempts < MaxAttempts
  BY <1>3
<1> QED BY <1>4, <1>5, <1>6, <1>7, <1>8, DoneFacts, RowStep

LEMMA ReleaseStaleInv ==
    ASSUME IInv, ReleaseStale
    PROVE  IInv'
<1>1. PICK R : R = [o \in Orders |-> IF StaleClaim(receipt[o]) THEN Released(receipt[o]) ELSE receipt[o]]
  OBVIOUS
<1>2. receipt' = R /\ order' = order
  BY <1>1 DEF ReleaseStale
<1>3. ASSUME NEW o \in Orders
      PROVE  /\ R[o] \in Receipt
             /\ R[o].attempts <= MaxAttempts
             /\ R[o].status = "PendingAnalysis" => R[o].attempts < MaxAttempts
             /\ \A d \in {"Approved", "Rejected"} : order[o] = d <=> R[o].status = d
  <2>1. PICK r \in Receipt : r = receipt[o] /\ r.attempts <= MaxAttempts
    BY DEF IInv, TypeOK, ReceiptsOK
  <2>2. CASE StaleClaim(r)
    <3>1. r.status = "Analyzing"
      BY <2>2 DEF StaleClaim
    <3>2. \A d \in {"Approved", "Rejected"} : order[o] # d
      BY <2>1, <3>1 DEF IInv, DecisionsAgree
    <3>3. R[o] = Released(r)
      BY <1>1, <2>1, <2>2
    <3> QED BY <2>1, <3>2, <3>3, ReleasedFacts
  <2>3. CASE ~StaleClaim(r)
    <3>1. R[o] = receipt[o]
      BY <1>1, <2>1, <2>3
    <3> QED BY <3>1 DEF IInv, TypeOK, ReceiptsOK, DecisionsAgree
  <2> QED BY <2>2, <2>3
<1>4. receipt' \in [Orders -> Receipt] /\ ReceiptsOK' /\ DecisionsAgree'
  BY <1>1, <1>2, <1>3 DEF ReceiptsOK, DecisionsAgree
<1>5. PICK me : me = [proc[Worker] EXCEPT !.pc = "find"]
  OBVIOUS
<1>6. Worker \in Procs /\ me \in Proc /\ ProcOK(me)
  BY <1>5 DEF IInv, TypeOK, Proc, Procs, ProcOK
<1>7. proc' \in [Procs -> Proc] /\ ProcsOK'
  <2>1. proc' = [proc EXCEPT ![Worker] = me]
    BY <1>5 DEF ReleaseStale
  <2> QED BY <1>6, <2>1, ProcMoves DEF IInv
<1>8. TypeOK' /\ AdminsOK'
  BY <1>4, <1>7 DEF ReleaseStale, IInv, TypeOK, AdminsOK, bought, rewards
<1> QED BY <1>4, <1>7, <1>8 DEF IInv

LEMMA FindPendingInv ==
    ASSUME IInv, FindPending
    PROVE  IInv'
<1>1. PICK me : me = [proc[Worker] EXCEPT !.pc = "next"]
  OBVIOUS
<1>2. Worker \in Procs /\ me \in Proc /\ ProcOK(me)
  BY <1>1 DEF IInv, TypeOK, Proc, Procs, ProcOK
<1>3. RestTyped' /\ UNCHANGED <<rows, admin>> /\ proc' = [proc EXCEPT ![Worker] = me]
  BY <1>1 DEF FindPending, IInv, TypeOK, RestTyped, bought, rewards, rows
<1> QED BY <1>2, <1>3, ProcStep

LEMMA ProcessNextInv ==
    ASSUME IInv, ProcessNext
    PROVE  IInv'
<1>1. Worker \in Procs /\ proc[Worker] \in Proc
  BY DEF IInv, TypeOK, Procs
<1>2. RestTyped' /\ UNCHANGED <<rows, admin>>
  BY DEF ProcessNext, IInv, TypeOK, RestTyped, bought, rewards, rows
<1>3. ASSUME NEW o \in todo, proc' = [proc EXCEPT ![Worker].pc = "claim", ![Worker].order = o]
      PROVE  IInv'
  <2>1. PICK me : me = [proc[Worker] EXCEPT !.pc = "claim", !.order = o]
    OBVIOUS
  <2>2. o \in Orders /\ o \in Procs
    BY DEF IInv, TypeOK, Procs
  <2>3. me \in Proc /\ ProcOK(me)
    BY <1>1, <2>1, <2>2 DEF Proc, ProcOK
  <2>4. proc' = [proc EXCEPT ![Worker] = me]
    BY <1>1, <1>3, <2>1 DEF IInv, TypeOK, Proc
  <2> QED BY <1>1, <1>2, <2>3, <2>4, ProcStep
<1>4. CASE proc' = [proc EXCEPT ![Worker] = Idle]
  BY <1>1, <1>2, <1>4, NewRecords, ProcStep
<1> QED BY <1>3, <1>4 DEF ProcessNext

\* A request that leaves the rows and the analysis alone.
LEMMA AdminStep ==
    ASSUME IInv, NEW a \in Admins, NEW me \in Admin, me.pc = "commit" => me.order \in Orders,
           admin' = [admin EXCEPT ![a] = me],
           UNCHANGED <<rows, running>>, RestTyped'
    PROVE  IInv'
<1>1. admin' \in [Admins -> Admin] /\ AdminsOK'
  BY DEF IInv, TypeOK, AdminsOK
<1>2. TypeOK'
  BY <1>1 DEF IInv, TypeOK, RestTyped, rows, running
<1>3. ReceiptsOK' /\ DecisionsAgree' /\ ProcsOK'
  BY DEF IInv, ReceiptsOK, DecisionsAgree, ProcsOK, rows, running
<1> QED BY <1>1, <1>2, <1>3 DEF IInv

LEMMA StartAtNat ==
    ASSUME IInv
    PROVE  StartAt \in Nat /\ StartAt >= paidUntil
BY LaterFacts DEF IInv, TypeOK, StartAt

LEMMA ApproveReadsInv ==
    ASSUME IInv, NEW a \in Admins, NEW o \in Orders, ApproveReads(a, o)
    PROVE  IInv'
<1>1. PICK st \in Nat, nu \in BOOLEAN : st = StartAt /\ nu = NewUser
  BY StartAtNat DEF NewUser
<1>2. PICK me : me = [Free EXCEPT !.pc = "commit", !.order = o, !.start = st, !.newUser = nu]
  OBVIOUS
<1>3. me \in Admin /\ me.order \in Orders
  BY <1>1, <1>2 DEF Free, Admin, Procs
<1>4. /\ admin' = [admin EXCEPT ![a] = me]
      /\ UNCHANGED <<rows, running>> /\ RestTyped'
  BY <1>1, <1>2 DEF ApproveReads, IInv, TypeOK, RestTyped, bought, rewards, running
<1> QED BY <1>3, <1>4, AdminStep

\* What a decision of order o writes into its rows.
LEMMA DecideRows ==
    ASSUME IInv, NEW o \in Orders, NEW d \in {"Approved", "Rejected"},
           receipt' = [receipt EXCEPT ![o].status = d, ![o].started = 0],
           order' = [order EXCEPT ![o] = d]
    PROVE  /\ receipt' \in [Orders -> Receipt] /\ order' \in [Orders -> OrderStatuses]
           /\ ReceiptsOK' /\ DecisionsAgree'
<1>1. receipt[o] \in Receipt /\ receipt[o].attempts <= MaxAttempts
  BY DEF IInv, TypeOK, ReceiptsOK
<1>2. PICK r : r = [receipt[o] EXCEPT !.status = d, !.started = 0]
  OBVIOUS
<1>3. r \in Receipt /\ r.attempts <= MaxAttempts /\ r.status = d
  BY <1>1, <1>2 DEF Receipt, ReceiptStatuses
<1>4. receipt' = [receipt EXCEPT ![o] = r]
  BY <1>1, <1>2 DEF IInv, TypeOK, Receipt
<1>5. d \in OrderStatuses /\ d # "PendingAnalysis"
  BY DEF OrderStatuses
<1>6. \A e \in {"Approved", "Rejected"} : d = e <=> r.status = e
  BY <1>3
<1>7. r.status # "PendingAnalysis"
  BY <1>3, <1>5
<1> QED BY <1>3, <1>4, <1>5, <1>6, <1>7, RowMoves DEF IInv

\* What approveOrder adds to the buyer's subscriptions.
LEMMA CommitBuys ==
    ASSUME IInv, NEW a \in Admins, ApproveCommits(a), subs' # subs \/ paidUntil' # paidUntil
    PROVE  /\ admin[a].order \in Orders /\ admin[a].start \in Nat
           /\ subs' = subs \cup {[order |-> admin[a].order, start |-> admin[a].start,
                                  end |-> admin[a].start + Duration]}
           /\ paidUntil' = Later(paidUntil, admin[a].start + Duration)
BY DEF ApproveCommits, IInv, TypeOK, AdminsOK, Admin, bought

LEMMA ApproveCommitsInv ==
    ASSUME IInv, NEW a \in Admins, ApproveCommits(a)
    PROVE  IInv'
<1>1. CASE admin' = [admin EXCEPT ![a] = Free] /\ UNCHANGED <<rows, bought>>
  <2>1. RestTyped' /\ UNCHANGED <<rows, running>>
    BY <1>1 DEF ApproveCommits, IInv, TypeOK, RestTyped, bought, rewards, running
  <2> QED BY <1>1, <2>1, NewRecords, AdminStep
<1>2. CASE ~(admin[a].newUser /\ account)
  <2>1. PICK o \in Orders, st \in Nat : o = admin[a].order /\ st = admin[a].start
    BY DEF ApproveCommits, IInv, TypeOK, AdminsOK, Admin
  <2>2. PICK sub : sub = [order |-> o, start |-> st, end |-> st + Duration]
    OBVIOUS
  <2>3. Duration \in Nat
    BY SubscriptionAssumption DEF SubscriptionAssumption
  <2>4. sub \in Sub
    BY <2>2, <2>3 DEF Sub
  <2>5. subs' \subseteq Sub /\ paidUntil' \in Nat /\ account' \in BOOLEAN
    <3>1. st + Duration \in Nat /\ subs' = subs \cup {sub} /\ paidUntil' = Later(paidUntil, st + Duration)
      BY <1>2, <2>1, <2>2, <2>3 DEF ApproveCommits
    <3>2. account' = TRUE
      BY <1>2 DEF ApproveCommits
    <3> QED BY <2>4, <3>1, <3>2, LaterFacts DEF IInv, TypeOK
  <2>6. /\ receipt' \in [Orders -> Receipt] /\ order' \in [Orders -> OrderStatuses]
        /\ ReceiptsOK' /\ DecisionsAgree'
    <3>1. /\ receipt' = [receipt EXCEPT ![o].status = "Approved", ![o].started = 0]
          /\ order' = [order EXCEPT ![o] = "Approved"]
      BY <1>2, <2>1 DEF ApproveCommits
    <3> QED BY <3>1, DecideRows
  <2>7. PICK me : me = [Free EXCEPT !.pc = "paid"]
    OBVIOUS
  <2>8. me \in Admin /\ me.pc = "paid"
    BY <2>7 DEF Free, Admin, Procs
  <2>9. admin' \in [Admins -> Admin] /\ AdminsOK'
    <3>1. admin' = [admin EXCEPT ![a] = me]
      BY <1>2, <2>7 DEF ApproveCommits
    <3> QED BY <2>8, <3>1 DEF IInv, TypeOK, AdminsOK
  <2>10. TypeOK' /\ ProcsOK'
    BY <2>5, <2>6, <2>9 DEF ApproveCommits, IInv, TypeOK, ProcsOK, rewards, running
  <2> QED BY <2>6, <2>9, <2>10 DEF IInv
<1> QED BY <1>1, <1>2 DEF ApproveCommits

LEMMA RejectReceiptInv ==
    ASSUME IInv, NEW a \in Admins, NEW o \in Orders, RejectReceipt(a, o)
    PROVE  IInv'
<1>1. /\ receipt' \in [Orders -> Receipt] /\ order' \in [Orders -> OrderStatuses]
      /\ ReceiptsOK' /\ DecisionsAgree'
  BY DecideRows DEF RejectReceipt
<1>2. TypeOK' /\ ProcsOK' /\ AdminsOK'
  BY <1>1 DEF RejectReceipt, IInv, TypeOK, ProcsOK, AdminsOK, bought, rewards, running
<1> QED BY <1>1, <1>2 DEF IInv

LEMMA ReadPaidInv ==
    ASSUME IInv, NEW a \in Admins, ReadPaid(a)
    PROVE  IInv'
<1>1. PICK D : D = {t \in tiers : PaidTomans >= t}
  OBVIOUS
<1>2. PICK me : me = [admin[a] EXCEPT !.pc = "grant", !.due = D]
  OBVIOUS
<1>3. me \in Admin /\ me.pc = "grant"
  <2>1. admin[a] \in Admin /\ D \in SUBSET Tiers
    BY <1>1 DEF IInv, TypeOK
  <2> QED BY <1>2, <2>1 DEF Admin
<1>4. admin' = [admin EXCEPT ![a] = me]
  BY <1>1, <1>2 DEF ReadPaid, IInv, TypeOK, Admin
<1>5. UNCHANGED <<rows, running>> /\ RestTyped'
  BY DEF ReadPaid, IInv, TypeOK, RestTyped, bought, rewards, running
<1> QED BY <1>3, <1>4, <1>5, AdminStep

LEMMA FreeFromNat ==
    ASSUME IInv
    PROVE  FreeFrom \in Nat /\ FreeFrom >= bonusUntil
<1>1. PICK u \in Nat : u = Later(paidUntil, bonusUntil) /\ u >= bonusUntil
  BY LaterFacts DEF IInv, TypeOK
<1>2. FreeFrom = Later(now, u) /\ now \in Nat /\ bonusUntil \in Nat
  BY <1>1 DEF FreeFrom, IInv, TypeOK
<1> QED BY <1>1, <1>2, LaterFacts

LEMMA GrantTierInv ==
    ASSUME IInv, NEW a \in Admins, GrantTier(a)
    PROVE  IInv'
<1>1. admin[a] \in Admin /\ admin[a].pc = "grant"
  BY DEF GrantTier, IInv, TypeOK
<1>2. bonuses' \subseteq Bonus /\ bonusUntil' \in Nat
  <2>1. CASE UNCHANGED <<bonuses, bonusUntil>>
    BY <2>1 DEF IInv, TypeOK
  <2>2. ASSUME NEW t \in admin[a].due,
               bonuses' = bonuses \cup {[tier |-> t, start |-> FreeFrom, end |-> FreeFrom + BonusDays]},
               bonusUntil' = FreeFrom + BonusDays
        PROVE  bonuses' \subseteq Bonus /\ bonusUntil' \in Nat
    <3>1. t \in Tiers /\ BonusDays \in Nat
      BY <1>1, SubscriptionAssumption DEF Admin, SubscriptionAssumption
    <3>2. PICK f \in Nat, g \in Nat : f = FreeFrom /\ g = FreeFrom + BonusDays
      BY <3>1, FreeFromNat
    <3>3. [tier |-> t, start |-> f, end |-> g] \in Bonus
      BY <3>1 DEF Bonus
    <3> QED BY <2>2, <3>2, <3>3 DEF IInv, TypeOK
  <2> QED BY <2>1, <2>2 DEF GrantTier
<1>3. UNCHANGED <<rows, running>> /\ RestTyped'
  BY <1>2 DEF GrantTier, IInv, TypeOK, RestTyped, bought, running
<1>4. ASSUME NEW t \in admin[a].due, admin' = [admin EXCEPT ![a].due = @ \ {t}]
      PROVE  IInv'
  <2>1. PICK D : D = admin[a].due \ {t}
    OBVIOUS
  <2>2. PICK me : me = [admin[a] EXCEPT !.due = D]
    OBVIOUS
  <2>3. me \in Admin /\ me.pc = "grant"
    BY <1>1, <2>1, <2>2 DEF Admin
  <2>4. admin' = [admin EXCEPT ![a] = me]
    BY <1>4, <2>1, <2>2
  <2> QED BY <1>3, <2>3, <2>4, AdminStep
<1>5. CASE admin' = [admin EXCEPT ![a] = Free]
  BY <1>3, <1>5, NewRecords, AdminStep
<1> QED BY <1>4, <1>5 DEF GrantTier

LEMMA SetRewardsInv ==
    ASSUME IInv, NEW a \in Admins, SetRewards(a)
    PROVE  IInv'
<1>1. PICK pc \in {"paid", "idle"} : pc = IF PaidTomans > 0 THEN "paid" ELSE "idle"
  OBVIOUS
<1>2. PICK me : me = [admin[a] EXCEPT !.pc = pc]
  OBVIOUS
<1>3. me \in Admin /\ me.pc # "commit"
  <2>1. admin[a] \in Admin
    BY DEF IInv, TypeOK
  <2> QED BY <1>2, <2>1 DEF Admin
<1>4. admin' = [admin EXCEPT ![a] = me]
  BY <1>1, <1>2 DEF SetRewards
<1>5. UNCHANGED <<rows, running>> /\ RestTyped'
  BY DEF SetRewards, IInv, TypeOK, RestTyped, bought, running
<1> QED BY <1>3, <1>4, <1>5, AdminStep

LEMMA QueryFailsInv ==
    ASSUME IInv, NEW p \in Procs, QueryFails(p)
    PROVE  IInv'
<1>1. UNCHANGED <<rows, admin>> /\ RestTyped'
  BY DEF QueryFails, Fault, IInv, TypeOK, RestTyped, bought, rewards
<1>2. CASE proc[p].pc \in {"read", "save"}
  <2>1. PICK me : me = [proc[p] EXCEPT !.pc = "release"]
    OBVIOUS
  <2>2. me \in Proc /\ ProcOK(me)
    BY <1>2, <2>1, InHand DEF Proc, ProcOK
  <2>3. proc' = [proc EXCEPT ![p] = me]
    BY <1>2, <2>1 DEF QueryFails
  <2> QED BY <1>1, <2>2, <2>3, ProcStep
<1>3. CASE proc[p].pc \in {"claim", "release"}
  <2>1. proc' = [proc EXCEPT ![p] = Done(p)]
    BY <1>3 DEF QueryFails
  <2> QED BY <1>1, <2>1, DoneFacts, ProcStep
<1>4. CASE proc[p].pc = "find"
  <2>1. proc' = [proc EXCEPT ![p] = Idle]
    BY <1>4 DEF QueryFails
  <2> QED BY <1>1, <2>1, NewRecords, ProcStep
<1> QED BY <1>2, <1>3, <1>4 DEF QueryFails

LEMMA CrashInv ==
    ASSUME IInv, Crash
    PROVE  IInv'
<1>1. proc' \in [Procs -> Proc] /\ ProcsOK' /\ admin' \in [Admins -> Admin] /\ AdminsOK'
  BY NewRecords DEF Crash, ProcsOK, AdminsOK
<1>2. TypeOK'
  BY <1>1 DEF Crash, Fault, IInv, TypeOK, rows, bought, rewards
<1>3. ReceiptsOK' /\ DecisionsAgree'
  BY DEF Crash, IInv, ReceiptsOK, DecisionsAgree, rows
<1> QED BY <1>1, <1>2, <1>3 DEF IInv

LEMMA UnchangedInv ==
    ASSUME IInv, Tick \/ UNCHANGED vars
    PROVE  IInv'
<1>1. /\ UNCHANGED <<rows, bought, rewards, running, admin>>
      /\ faults' = faults /\ now' \in Nat
  BY DEF Tick, vars, IInv, TypeOK
<1>2. TypeOK'
  BY <1>1 DEF IInv, TypeOK, rows, bought, rewards, running
<1>3. ReceiptsOK' /\ DecisionsAgree' /\ ProcsOK' /\ AdminsOK'
  BY <1>1 DEF IInv, ReceiptsOK, DecisionsAgree, ProcsOK, AdminsOK, rows, running
<1> QED BY <1>2, <1>3 DEF IInv

LEMMA InitInv == Init => IInv
<1> SUFFICES ASSUME Init PROVE IInv
  OBVIOUS
<1>1. TypeOK
  BY NewRecords DEF Init, TypeOK, OrderStatuses
<1>2. ReceiptsOK /\ DecisionsAgree
  BY MaxAttemptsNat DEF Init, ReceiptsOK, DecisionsAgree, NoReceipt
<1>3. ProcsOK /\ AdminsOK
  BY NewRecords DEF Init, ProcsOK, AdminsOK
<1> QED BY <1>1, <1>2, <1>3 DEF IInv

LEMMA NextInv == IInv /\ [Next]_vars => IInv'
BY SubmitReceiptInv, ClaimInv, ReadReceiptInv, AnalyzeInv, SaveAnalysisInv, ReleaseFailedInv,
   ReleaseStaleInv, FindPendingInv, ProcessNextInv, ApproveReadsInv, ApproveCommitsInv,
   RejectReceiptInv, ReadPaidInv, GrantTierInv, SetRewardsInv, QueryFailsInv, CrashInv, UnchangedInv
   DEF Next, Analysis, Sweep, Decision, Request

LEMMA Inductive == Spec => []IInv
BY InitInv, NextInv, PTL DEF Spec

\* Rows, processes, requests and the clock keep their types whatever the analysis, the
\* sweep, the admins, failed queries and crashes do.
THEOREM TypeCorrect == Spec => []TypeOK
BY Inductive, PTL DEF IInv

\* Order and receipt tell the same decision although the analysis writes back copies it
\* read before the admin decided: saveWithOrder writes both rows or none.
THEOREM OneDecision == Spec => []DecisionsAgree
BY Inductive, PTL DEF IInv

\* No receipt is sent to the analyzer more often than RECEIPT_ANALYSIS_MAX_ATTEMPTS,
\* whatever goes stale, fails or crashes.
THEOREM AnalyzedAtMost == Spec => []AttemptsBounded
<1>1. IInv => AttemptsBounded
  BY DEF IInv, ReceiptsOK, AttemptsBounded
<1> QED BY <1>1, Inductive, PTL

-----------------------------------------------------------------------------
(* Paid periods, free periods and the decision of an order. *)

\* A new bonus starts where the last one ends.
BonusInv == BonusesApart /\ \A b \in bonuses : b.end <= bonusUntil

\* No period reaches beyond paidUntil, and the one about to be committed starts there.
PaidInv ==
    /\ PaidDaysApart
    /\ \A s \in subs : s.end <= paidUntil
    /\ \A a \in Admins : admin[a].pc = "commit" => admin[a].start >= paidUntil

\* An order that is decided, or that approveOrder is about to decide.
Deciding(o) == order[o] \in {"Approved", "Rejected"} \/ Locked(o)

\* No analysis writes into an order that is being decided, ...
AnalysisOver == \A o \in Orders : Deciding(o) => Settled(o)

\* ... approveOrder holds an open order, and alone, ...
LocksOK ==
    \A a \in Admins : admin[a].pc = "commit" =>
        /\ order[admin[a].order] \notin {"none", "Approved", "Rejected"}
        /\ \A b \in Admins : admin[b].pc = "commit" /\ admin[b].order = admin[a].order => b = a

Periods(o) == {s \in subs : s.order = o}

\* ... and an approved order has its one period, any other order none.
PeriodsOK ==
    \A o \in Orders : /\ order[o] # "Approved" => Periods(o) = {}
                      /\ order[o] = "Approved" => \E s \in subs : Periods(o) = {s}

\* The inductive invariant of the decisions of careful admins.
DInv == IInv /\ AnalysisOver /\ LocksOK /\ PeriodsOK

LEMMA OnlyGrantsGive ==
    ASSUME [Next]_vars
    PROVE  UNCHANGED <<bonuses, bonusUntil>> \/ \E a \in Admins : GrantTier(a)
BY DEF Next, Analysis, Sweep, Decision, Request, SubmitReceipt, Claim, ReadReceipt, Analyze,
       SaveAnalysis, ReleaseFailed, QueryFails, ReleaseStale, FindPending, ProcessNext,
       ApproveCommits, ReadPaid, SetRewards, ApproveReads, RejectReceipt, Crash, Tick, rewards, vars

LEMMA OnlyCommitsPay ==
    ASSUME [Next]_vars
    PROVE  UNCHANGED <<subs, paidUntil>> \/ \E a \in Admins : ApproveCommits(a)
BY DEF Next, Analysis, Sweep, Decision, Request, SubmitReceipt, Claim, ReadReceipt, Analyze,
       SaveAnalysis, ReleaseFailed, QueryFails, ReleaseStale, FindPending, ProcessNext,
       GrantTier, ReadPaid, SetRewards, ApproveReads, RejectReceipt, Crash, Tick, bought, vars

LEMMA GrantKeepsApart ==
    ASSUME IInv, BonusInv, NEW a \in Admins, GrantTier(a)
    PROVE  BonusInv'
<1>1. CASE UNCHANGED <<bonuses, bonusUntil>>
  BY <1>1 DEF BonusInv, BonusesApart
<1>2. ASSUME NEW t \in admin[a].due, ~\E b \in bonuses : b.tier = t,
             bonuses' = bonuses \cup {[tier |-> t, start |-> FreeFrom, end |-> FreeFrom + BonusDays]},
             bonusUntil' = FreeFrom + BonusDays
      PROVE  BonusInv'
  <2>1. BonusDays \in Nat
    BY SubscriptionAssumption DEF SubscriptionAssumption
  <2>2. PICK f \in Nat, g \in Nat : f = FreeFrom /\ g = FreeFrom + BonusDays /\ bonusUntil <= f /\ f <= g
    BY <2>1, FreeFromNat DEF IInv, TypeOK
  <2>3. PICK n : n = [tier |-> t, start |-> f, end |-> g]
    OBVIOUS
  <2>4. n.tier = t /\ n.start = f /\ n.end = g
    BY <2>3
  <2>5. bonuses' = bonuses \cup {n} /\ bonusUntil' = g
    BY <1>2, <2>2, <2>3
  <2>6. \A b \in bonuses : b.end \in Nat /\ b.end <= f /\ b.end <= g /\ b.tier # t
    <3>1. bonusUntil \in Nat /\ \A b \in bonuses : b.end \in Nat
      BY DEF IInv, TypeOK, Bonus
    <3> QED BY <1>2, <2>2, <3>1 DEF BonusInv
  <2>7. BonusesApart'
    <3>1. ASSUME NEW b \in bonuses', NEW c \in bonuses'
          PROVE  b = c \/ (b.tier # c.tier /\ (b.end <= c.start \/ c.end <= b.start))
      <4>1. CASE b \in bonuses /\ c \in bonuses
        BY <4>1 DEF BonusInv, BonusesApart
      <4>2. CASE b \in bonuses /\ c = n
        BY <2>4, <2>6, <4>2
      <4>3. CASE b = n /\ c \in bonuses
        BY <2>4, <2>6, <4>3
      <4> QED BY <2>5, <4>1, <4>2, <4>3
    <3> QED BY <3>1 DEF BonusesApart
  <2>8. \A b \in bonuses' : b.end <= bonusUntil'
    BY <2>2, <2>4, <2>5, <2>6
  <2> QED BY <2>7, <2>8 DEF BonusInv
<1> QED BY <1>1, <1>2 DEF GrantTier

\* Free periods never overlap and no tier is given twice, however many requests grant
\* at once: the buyer's advisory lock makes each grant see the ones before it.
THEOREM FreeDays == Spec => []BonusesApart
<1>1. Init => BonusInv
  BY DEF Init, BonusInv, BonusesApart
<1>2. IInv /\ BonusInv /\ [Next]_vars => BonusInv'
  <2>1. ASSUME BonusInv, UNCHANGED <<bonuses, bonusUntil>> PROVE BonusInv'
    BY <2>1 DEF BonusInv, BonusesApart
  <2> QED BY <2>1, OnlyGrantsGive, GrantKeepsApart
<1>3. BonusInv => BonusesApart
  BY DEF BonusInv
<1> QED BY <1>1, <1>2, <1>3, Inductive, PTL DEF Spec

\* A request that is about to commit read the end of the last period in this step, or was
\* about to commit already.
LEMMA CommitsFromReads ==
    ASSUME IInv, [Next]_vars, NEW a \in Admins, admin'[a].pc = "commit"
    PROVE  admin'[a] = admin[a] \/ \E o \in Orders : ApproveReads(a, o)
<1>1. CASE admin' = admin
  BY <1>1
<1>2. CASE Crash
  BY <1>2, NewRecords DEF Crash
<1>3. ASSUME NEW b \in Admins, NEW me, admin' = [admin EXCEPT ![b] = me], me.pc # "commit"
      PROVE  admin'[a] = admin[a]
  BY <1>3 DEF IInv, TypeOK
<1>4. ASSUME NEW b \in Admins, ApproveCommits(b) PROVE admin'[a] = admin[a]
  <2>1. [Free EXCEPT !.pc = "paid"].pc = "paid"
    BY DEF Free
  <2> QED BY <1>3, <1>4, <2>1, NewRecords DEF ApproveCommits
<1>5. ASSUME NEW b \in Admins, ReadPaid(b) PROVE admin'[a] = admin[a]
  <2>1. PICK D : admin' = [admin EXCEPT ![b].pc = "grant", ![b].due = D]
    BY <1>5 DEF ReadPaid
  <2>2. PICK me : me = [admin[b] EXCEPT !.pc = "grant", !.due = D]
    OBVIOUS
  <2>3. me.pc = "grant" /\ admin' = [admin EXCEPT ![b] = me]
    BY <2>1, <2>2 DEF IInv, TypeOK, Admin
  <2> QED BY <1>3, <2>3
<1>6. ASSUME NEW b \in Admins, GrantTier(b) PROVE admin'[a] = admin[a]
  <2>1. CASE admin' = [admin EXCEPT ![b] = Free]
    BY <1>3, <2>1, NewRecords
  <2>2. ASSUME NEW t, admin' = [admin EXCEPT ![b].due = @ \ {t}] PROVE admin'[a] = admin[a]
    <3>1. PICK D : D = admin[b].due \ {t}
      OBVIOUS
    <3>2. PICK me : me = [admin[b] EXCEPT !.due = D]
      OBVIOUS
    <3>3. me.pc = "grant" /\ admin' = [admin EXCEPT ![b] = me]
      BY <1>6, <2>2, <3>1, <3>2 DEF GrantTier, IInv, TypeOK, Admin
    <3> QED BY <1>3, <3>3
  <2> QED BY <1>6, <2>1, <2>2 DEF GrantTier
<1>7. ASSUME NEW b \in Admins, SetRewards(b) PROVE admin'[a] = admin[a]
  <2>1. PICK pc \in {"paid", "idle"} : admin' = [admin EXCEPT ![b].pc = pc]
    BY <1>7 DEF SetRewards
  <2>2. PICK me : me = [admin[b] EXCEPT !.pc = pc]
    OBVIOUS
  <2>3. me.pc = pc /\ admin' = [admin EXCEPT ![b] = me]
    BY <2>1, <2>2 DEF IInv, TypeOK, Admin
  <2> QED BY <1>3, <2>3
<1>8. ASSUME NEW b \in Admins, NEW o \in Orders, ApproveReads(b, o)
      PROVE  a = b \/ admin'[a] = admin[a]
  BY <1>8 DEF ApproveReads, IInv, TypeOK
<1>9. ASSUME \/ \E o \in Orders : SubmitReceipt(o)
             \/ \E p \in Procs : Analysis(p) \/ QueryFails(p)
             \/ Sweep
             \/ \E b \in Admins, o \in Orders : RejectReceipt(b, o)
             \/ Tick
             \/ UNCHANGED vars
      PROVE  admin' = admin
  BY <1>9 DEF Analysis, Sweep, SubmitReceipt, Claim, ReadReceipt, Analyze, SaveAnalysis, ReleaseFailed,
              QueryFails, ReleaseStale, FindPending, ProcessNext, RejectReceipt, Tick, vars
<1> QED BY <1>1, <1>2, <1>4, <1>5, <1>6, <1>7, <1>8, <1>9 DEF Next, Decision, Request

\* Where no two requests of admins run at once, paid periods never overlap: approveOrder
\* appends the new one to the last.  (Two requests at once may read the same end; the
\* code takes no lock on the buyer.)
THEOREM PaidDays ==
    ASSUME \A a, b \in Admins : a = b
    PROVE  Spec => []PaidDaysApart
<1>1. Init => PaidInv
  BY NewRecords DEF Init, PaidInv, PaidDaysApart
<1>2. IInv /\ PaidInv /\ [Next]_vars => PaidInv'
  <2> SUFFICES ASSUME IInv, PaidInv, [Next]_vars PROVE PaidInv'
    OBVIOUS
  <2>1. CASE UNCHANGED <<subs, paidUntil>>
    <3>1. ASSUME NEW a \in Admins, admin'[a].pc = "commit" PROVE admin'[a].start >= paidUntil
      <4>1. CASE admin'[a] = admin[a]
        BY <3>1, <4>1 DEF PaidInv
      <4>2. ASSUME NEW o \in Orders, ApproveReads(a, o) PROVE admin'[a].start >= paidUntil
        <5>1. admin'[a].start = StartAt
          BY <4>2 DEF ApproveReads, IInv, TypeOK, Free
        <5> QED BY <5>1, StartAtNat
      <4> QED BY <3>1, <4>1, <4>2, CommitsFromReads
    <3> QED BY <2>1, <3>1 DEF PaidInv, PaidDaysApart
  <2>2. ASSUME NEW a \in Admins, ApproveCommits(a), ~UNCHANGED <<subs, paidUntil>>
        PROVE  PaidInv'
    <3>1. Duration \in Nat
      BY SubscriptionAssumption DEF SubscriptionAssumption
    <3>2. PICK st \in Nat, e \in Nat : st = admin[a].start /\ e = st + Duration
      BY <2>2, <3>1, CommitBuys
    <3>3. PICK n : n = [order |-> admin[a].order, start |-> st, end |-> e]
      OBVIOUS
    <3>4. n.start = st /\ n.end = e
      BY <3>3
    <3>5. subs' = subs \cup {n} /\ paidUntil' = Later(paidUntil, e)
      BY <2>2, <3>2, <3>3, CommitBuys
    <3>6. paidUntil \in Nat /\ st >= paidUntil
      BY <2>2, <3>2 DEF PaidInv, ApproveCommits, IInv, TypeOK
    <3>7. \A s \in subs : s.end \in Nat /\ s.end <= st /\ s.end <= paidUntil
      BY <3>6 DEF PaidInv, IInv, TypeOK, Sub
    <3>8. PaidDaysApart'
      <4>1. ASSUME NEW s \in subs', NEW t \in subs'
            PROVE  s = t \/ s.end <= t.start \/ t.end <= s.start
        <5>1. CASE s \in subs /\ t \in subs
          BY <5>1 DEF PaidInv, PaidDaysApart
        <5>2. CASE s \in subs /\ t = n
          BY <3>4, <3>7, <5>2
        <5>3. CASE s = n /\ t \in subs
          BY <3>4, <3>7, <5>3
        <5> QED BY <3>5, <5>1, <5>2, <5>3
      <4> QED BY <4>1 DEF PaidDaysApart
    <3>9. \A s \in subs' : s.end <= paidUntil'
      <4>1. paidUntil' >= paidUntil /\ paidUntil' >= e /\ paidUntil' \in Nat
        BY <3>5, <3>6, LaterFacts
      <4> QED BY <3>4, <3>5, <3>6, <3>7, <4>1
    <3>10. \A b \in Admins : admin'[b].pc # "commit"
      <4>1. [Free EXCEPT !.pc = "paid"].pc = "paid"
        BY DEF Free
      <4>2. admin' \in {[admin EXCEPT ![a] = Free], [admin EXCEPT ![a] = [Free EXCEPT !.pc = "paid"]]}
        BY <2>2 DEF ApproveCommits
      <4>3. admin'[a].pc # "commit"
        BY <4>1, <4>2, NewRecords DEF IInv, TypeOK
      <4> QED BY <4>3
    <3> QED BY <3>8, <3>9, <3>10 DEF PaidInv
  <2> QED BY <2>1, <2>2, OnlyCommitsPay
<1>3. PaidInv => PaidDaysApart
  BY DEF PaidInv
<1> QED BY <1>1, <1>2, <1>3, Inductive, PTL DEF Spec

-----------------------------------------------------------------------------
(* With careful admins the rows implement OrderDecision. *)

\* An order stays settled when one process moves and does not come to analyze it.
LEMMA SettledStays ==
    ASSUME TypeOK, NEW o \in Orders, Settled(o), receipt'[o].status \notin Queued,
           NEW p \in Procs, NEW me, proc' = [proc EXCEPT ![p] = me],
           me.order = o => me.pc \notin {"analyze", "save"}
    PROVE  Settled(o)'
<1>1. \A x \in Procs : proc'[x] = IF x = p THEN me ELSE proc[x]
  BY DEF TypeOK
<1> QED BY <1>1 DEF Settled

\* What submissions, the analysis, the sweep, faults and time do.
BesideAdmins ==
    \/ \E o \in Orders : SubmitReceipt(o)
    \/ \E p \in Procs : Analysis(p) \/ QueryFails(p)
    \/ Sweep \/ Tick

LEMMA DonePc ==
    ASSUME NEW p \in Procs
    PROVE  Done(p).pc \notin {"analyze", "save"}
BY DEF Done, Idle

\* None of them touches an order that is settled.
LEMMA SettledIsLeft ==
    ASSUME IInv, BesideAdmins, NEW o \in Orders, Settled(o), order[o] # "none"
    PROVE  Settled(o)' /\ order'[o] = order[o]
<1> TypeOK /\ receipt[o].status \notin Queued
  BY DEF IInv, Settled
<1>1. ASSUME NEW q \in Orders, SubmitReceipt(q) PROVE Settled(o)' /\ order'[o] = order[o]
  <2>1. q # o /\ q \in Procs
    BY <1>1 DEF SubmitReceipt, Procs
  <2>2. order'[o] = order[o] /\ receipt'[o] = receipt[o]
    BY <1>1, <2>1 DEF SubmitReceipt, TypeOK
  <2>3. PICK me : me = [Idle EXCEPT !.pc = "claim", !.order = q]
    OBVIOUS
  <2>4. me.pc = "claim" /\ proc' = [proc EXCEPT ![q] = me]
    BY <1>1, <2>3 DEF SubmitReceipt, Idle
  <2> QED BY <2>1, <2>2, <2>4, SettledStays
<1>2. ASSUME NEW p \in Procs, Claim(p) PROVE Settled(o)' /\ order'[o] = order[o]
  <2>1. PICK q \in Orders : q = proc[p].order
    BY <1>2, InHand DEF Claim
  <2>2. receipt'[o].status \notin Queued /\ order' = order
    <3>1. CASE q = o
      BY <1>2, <2>1, <3>1 DEF Claim, Queued
    <3>2. CASE q # o
      BY <1>2, <2>1, <3>2 DEF Claim, TypeOK
    <3> QED BY <3>1, <3>2
  <2>3. CASE proc' = [proc EXCEPT ![p] = Done(p)]
    BY <2>2, <2>3, SettledStays, DonePc
  <2>4. CASE proc' = [proc EXCEPT ![p].pc = "read"]
    <3>1. PICK me : me = [proc[p] EXCEPT !.pc = "read"]
      OBVIOUS
    <3>2. me.pc = "read" /\ proc' = [proc EXCEPT ![p] = me]
      BY <2>4, <3>1 DEF TypeOK, Proc
    <3> QED BY <2>2, <3>2, SettledStays
  <2> QED BY <1>2, <2>3, <2>4 DEF Claim
<1>3. ASSUME NEW p \in Procs, ReadReceipt(p) PROVE Settled(o)' /\ order'[o] = order[o]
  <2>1. receipt'[o] = receipt[o] /\ order' = order
    BY <1>3 DEF ReadReceipt, rows
  <2>2. CASE receipt[proc[p].order].status = "Analyzing"
    <3>1. proc[p].order # o
      BY <2>2 DEF Queued
    <3>2. PICK r : r = [receipt[proc[p].order] EXCEPT !.started = 0]
      OBVIOUS
    <3>3. PICK me : me = [proc[p] EXCEPT !.pc = "analyze", !.copy = r]
      OBVIOUS
    <3>4. me.order = proc[p].order
      BY <3>3 DEF TypeOK, Proc
    <3>5. proc' = [proc EXCEPT ![p] = me]
      BY <1>3, <2>2, <3>2, <3>3 DEF ReadReceipt
    <3> QED BY <2>1, <3>1, <3>4, <3>5, SettledStays
  <2>3. CASE receipt[proc[p].order].status # "Analyzing"
    <3>1. proc' = [proc EXCEPT ![p] = Done(p)]
      BY <1>3, <2>3 DEF ReadReceipt
    <3> QED BY <2>1, <3>1, SettledStays, DonePc
  <2> QED BY <2>2, <2>3
<1>4. ASSUME NEW p \in Procs, Analyze(p) PROVE Settled(o)' /\ order'[o] = order[o]
  <2>1. receipt'[o] = receipt[o] /\ order' = order
    BY <1>4 DEF Analyze, rows
  <2>2. proc[p].order # o /\ proc[p] \in Proc
    BY <1>4 DEF Analyze, Settled, TypeOK
  <2>3. PICK me : proc' = [proc EXCEPT ![p] = me] /\ me.order = proc[p].order
    <3>1. ASSUME NEW c, proc' = [proc EXCEPT ![p].pc = "save", ![p].copy.code = c]
          PROVE  \E me : proc' = [proc EXCEPT ![p] = me] /\ me.order = proc[p].order
      <4>1. PICK r : r = [proc[p].copy EXCEPT !.code = c]
        OBVIOUS
      <4>2. PICK me : me = [proc[p] EXCEPT !.pc = "save", !.copy = r]
        OBVIOUS
      <4>3. me.order = proc[p].order
        BY <2>2, <4>2 DEF Proc
      <4>4. proc' = [proc EXCEPT ![p] = me]
        BY <2>2, <3>1, <4>1, <4>2 DEF TypeOK, Proc
      <4> QED BY <4>3, <4>4
    <3>2. CASE proc' = [proc EXCEPT ![p].pc = "release"]
      <4>1. PICK me : me = [proc[p] EXCEPT !.pc = "release"]
        OBVIOUS
      <4>2. me.order = proc[p].order /\ proc' = [proc EXCEPT ![p] = me]
        BY <2>2, <3>2, <4>1 DEF Proc
      <4> QED BY <4>2
    <3> QED BY <1>4, <3>1, <3>2 DEF Analyze
  <2> QED BY <2>1, <2>2, <2>3, SettledStays
<1>5. ASSUME NEW p \in Procs, SaveAnalysis(p) PROVE Settled(o)' /\ order'[o] = order[o]
  <2>1. proc[p].order # o
    BY <1>5 DEF SaveAnalysis, Settled
  <2>2. receipt'[o] = receipt[o] /\ order'[o] = order[o]
    BY <1>5, <2>1 DEF SaveAnalysis, TypeOK
  <2> QED BY <1>5, <2>2, SettledStays, DonePc DEF SaveAnalysis
<1>6. ASSUME NEW p \in Procs, ReleaseFailed(p) PROVE Settled(o)' /\ order'[o] = order[o]
  <2>1. receipt[o].status # "Analyzing"
    BY DEF Queued
  <2>2. receipt'[o] = receipt[o] /\ order' = order
    BY <1>6, <2>1 DEF ReleaseFailed, TypeOK
  <2> QED BY <1>6, <2>2, SettledStays, DonePc DEF ReleaseFailed
<1>7. ASSUME Sweep PROVE Settled(o)' /\ order'[o] = order[o]
  <2>1. Worker \in Procs /\ proc[Worker] \in Proc
    BY DEF TypeOK, Procs
  <2>2. receipt'[o] = receipt[o] /\ order' = order
    <3>1. ~StaleClaim(receipt[o])
      BY DEF StaleClaim, Queued
    <3> QED BY <1>7, <3>1 DEF Sweep, ReleaseStale, FindPending, ProcessNext, rows
  <2>3. PICK me : proc' = [proc EXCEPT ![Worker] = me] /\ me.pc \notin {"analyze", "save"}
    <3>1. ASSUME NEW pc \in {"find", "next"}, proc' = [proc EXCEPT ![Worker].pc = pc]
          PROVE  \E me : proc' = [proc EXCEPT ![Worker] = me] /\ me.pc \notin {"analyze", "save"}
      <4>1. PICK me : me = [proc[Worker] EXCEPT !.pc = pc]
        OBVIOUS
      <4>2. me.pc = pc /\ proc' = [proc EXCEPT ![Worker] = me]
        BY <2>1, <3>1, <4>1 DEF Proc
      <4> QED BY <4>2
    <3>2. ASSUME NEW q, proc' = [proc EXCEPT ![Worker].pc = "claim", ![Worker].order = q]
          PROVE  \E me : proc' = [proc EXCEPT ![Worker] = me] /\ me.pc \notin {"analyze", "save"}
      <4>1. PICK me : me = [proc[Worker] EXCEPT !.pc = "claim", !.order = q]
        OBVIOUS
      <4>2. me.pc = "claim" /\ proc' = [proc EXCEPT ![Worker] = me]
        BY <2>1, <3>2, <4>1 DEF TypeOK, Proc
      <4> QED BY <4>2
    <3>3. Idle.pc = "idle"
      BY DEF Idle
    <3> QED BY <1>7, <3>1, <3>2, <3>3 DEF Sweep, ReleaseStale, FindPending, ProcessNext
  <2> QED BY <2>1, <2>2, <2>3, SettledStays
<1>8. ASSUME NEW p \in Procs, QueryFails(p) PROVE Settled(o)' /\ order'[o] = order[o]
  <2>1. receipt'[o] = receipt[o] /\ order' = order
    BY <1>8 DEF QueryFails, rows
  <2>2. PICK me : proc' = [proc EXCEPT ![p] = me] /\ me.pc \notin {"analyze", "save"}
    <3>1. CASE proc[p].pc \in {"read", "save"}
      <4>1. PICK me : me = [proc[p] EXCEPT !.pc = "release"]
        OBVIOUS
      <4>2. me.pc = "release"
        BY <4>1 DEF TypeOK, Proc
      <4>3. proc' = [proc EXCEPT ![p] = me]
        BY <1>8, <3>1, <4>1 DEF QueryFails
      <4> QED BY <4>2, <4>3
    <3>2. CASE proc[p].pc \in {"claim", "release"}
      BY <1>8, <3>2, DonePc DEF QueryFails
    <3>3. CASE proc[p].pc = "find"
      <4>1. proc' = [proc EXCEPT ![p] = Idle] /\ Idle.pc = "idle"
        BY <1>8, <3>3 DEF QueryFails, Idle
      <4> QED BY <4>1
    <3> QED BY <1>8, <3>1, <3>2, <3>3 DEF QueryFails
  <2> QED BY <2>1, <2>2, SettledStays
<1>9. ASSUME Tick PROVE Settled(o)' /\ order'[o] = order[o]
  BY <1>9 DEF Tick, Settled, rows, running
<1> QED BY <1>1, <1>2, <1>3, <1>4, <1>5, <1>6, <1>7, <1>8, <1>9 DEF BesideAdmins, Analysis

\* What they do to the orders: nothing, a submission, or an analysis that is not settled.
LEMMA BesideWrites ==
    ASSUME IInv, BesideAdmins
    PROVE  /\ UNCHANGED <<subs, admin>>
           /\ \/ order' = order
              \/ \E o \in Orders : order[o] = "none" /\ order' = [order EXCEPT ![o] = "ReceiptSubmitted"]
              \/ \E o \in Orders : ~Settled(o) /\ order' = [order EXCEPT ![o] = "UnderReview"]
<1>1. ASSUME NEW p \in Procs, SaveAnalysis(p)
      PROVE  \E o \in Orders : ~Settled(o) /\ order' = [order EXCEPT ![o] = "UnderReview"]
  <2>1. PICK o \in Orders : o = proc[p].order
    BY <1>1, InHand DEF SaveAnalysis
  <2> QED BY <1>1, <2>1 DEF SaveAnalysis, StatusAfterAnalysis, Settled
<1>2. UNCHANGED <<subs, admin>>
  BY DEF BesideAdmins, Analysis, Sweep, SubmitReceipt, Claim, ReadReceipt, Analyze, SaveAnalysis,
         ReleaseFailed, QueryFails, ReleaseStale, FindPending, ProcessNext, Tick, bought
<1>3. ASSUME NEW o \in Orders, SubmitReceipt(o)
      PROVE  order[o] = "none" /\ order' = [order EXCEPT ![o] = "ReceiptSubmitted"]
  BY <1>3 DEF SubmitReceipt
<1>4. ASSUME \/ \E p \in Procs : \/ Claim(p) \/ ReadReceipt(p) \/ Analyze(p) \/ ReleaseFailed(p)
                                 \/ QueryFails(p)
             \/ Sweep \/ Tick
      PROVE  order' = order
  BY <1>4 DEF Sweep, Claim, ReadReceipt, Analyze, ReleaseFailed, QueryFails, ReleaseStale,
              FindPending, ProcessNext, Tick, rows
<1> QED BY <1>1, <1>2, <1>3, <1>4 DEF BesideAdmins, Analysis

LEMMA BesideDecides ==
    ASSUME DInv, BesideAdmins
    PROVE  AnalysisOver' /\ LocksOK' /\ PeriodsOK'
<1>1. ASSUME NEW o \in Orders, Deciding(o)
      PROVE  Settled(o) /\ order[o] # "none" /\ Settled(o)' /\ order'[o] = order[o]
  <2>1. Settled(o)
    BY <1>1 DEF DInv, AnalysisOver
  <2>2. order[o] # "none"
    BY <1>1 DEF DInv, LocksOK, Deciding, Locked
  <2> QED BY <2>1, <2>2, SettledIsLeft DEF DInv
<1>2. ASSUME NEW o \in Orders, order'[o] \in {"Approved", "Rejected"} PROVE order[o] = order'[o]
  BY <1>2, BesideWrites DEF DInv, IInv, TypeOK
<1>3. admin' = admin /\ subs' = subs
  BY BesideWrites DEF DInv
<1>4. \A o \in Orders : Deciding(o)' => Deciding(o)
  BY <1>2, <1>3 DEF Deciding, Locked
<1>5. AnalysisOver'
  BY <1>1, <1>4 DEF AnalysisOver
<1>6. LocksOK'
  <2>1. ASSUME NEW a \in Admins, admin[a].pc = "commit"
        PROVE  order'[admin[a].order] = order[admin[a].order]
    <3>1. admin[a].order \in Orders /\ Deciding(admin[a].order)
      BY <2>1 DEF DInv, IInv, AdminsOK, Deciding, Locked
    <3> QED BY <1>1, <3>1
  <2> QED BY <1>3, <2>1 DEF DInv, LocksOK
<1>7. PeriodsOK'
  <2>1. ASSUME NEW o \in Orders PROVE order[o] = "Approved" <=> order'[o] = "Approved"
    BY <1>1, <1>2 DEF Deciding
  <2> QED BY <1>3, <2>1 DEF DInv, PeriodsOK, Periods
<1> QED BY <1>5, <1>6, <1>7

\* Steps that write no row and begin no commit.
LEMMA QuietDecides ==
    ASSUME DInv, UNCHANGED <<rows, subs>>, \A o \in Orders : Settled(o) => Settled(o)',
           \A a \in Admins : admin'[a].pc = "commit" => admin'[a] = admin[a]
    PROVE  AnalysisOver' /\ LocksOK' /\ PeriodsOK'
<1>1. \A o \in Orders : Locked(o)' => Locked(o)
  BY DEF Locked
<1>2. AnalysisOver'
  BY <1>1 DEF DInv, AnalysisOver, Deciding, rows
<1>3. LocksOK'
  BY DEF DInv, LocksOK, rows
<1>4. PeriodsOK'
  BY DEF DInv, PeriodsOK, Periods, rows
<1> QED BY <1>2, <1>3, <1>4

LEMMA ApproveReadsDecides ==
    ASSUME Careful, DInv, NEW a \in Admins, NEW o \in Orders, ApproveReads(a, o)
    PROVE  AnalysisOver' /\ LocksOK' /\ PeriodsOK'
<1>1. UNCHANGED <<order, receipt, subs, proc>>
  BY DEF ApproveReads, rows, bought, running
<1>2. /\ \A b \in Admins \ {a} : admin'[b] = admin[b]
      /\ admin'[a].pc = "commit" /\ admin'[a].order = o
  BY DEF ApproveReads, DInv, IInv, TypeOK, Free
<1>3. Settled(o) /\ ~Locked(o) /\ order[o] \notin {"none", "Approved", "Rejected"}
  BY DEF ApproveReads, DInv, IInv, DecisionsAgree
<1>4. AnalysisOver'
  <2>1. ASSUME NEW q \in Orders, Deciding(q)' PROVE q = o \/ Deciding(q)
    BY <1>1, <1>2, <2>1 DEF Deciding, Locked
  <2>2. \A q \in Orders : Settled(q)' <=> Settled(q)
    BY <1>1 DEF Settled
  <2> QED BY <1>3, <2>1, <2>2 DEF DInv, AnalysisOver
<1>5. LocksOK'
  <2>1. \A b \in Admins \ {a} : admin'[b].pc = "commit" => admin'[b].order # o
    BY <1>2, <1>3 DEF Locked
  <2>2. ASSUME NEW b \in Admins, admin'[b].pc = "commit"
        PROVE  /\ order'[admin'[b].order] \notin {"none", "Approved", "Rejected"}
               /\ \A c \in Admins : admin'[c].pc = "commit" /\ admin'[c].order = admin'[b].order => c = b
    <3>1. CASE b = a
      BY <1>1, <1>2, <1>3, <2>1, <3>1
    <3>2. CASE b # a
      BY <1>1, <1>2, <2>1, <2>2, <3>2 DEF DInv, LocksOK
    <3> QED BY <3>1, <3>2
  <2> QED BY <2>2 DEF LocksOK
<1>6. PeriodsOK'
  BY <1>1 DEF DInv, PeriodsOK, Periods
<1> QED BY <1>4, <1>5, <1>6

\* A decision of order o under its lock, with the periods N that it adds.
LEMMA DecisionDecides ==
    ASSUME DInv, NEW o \in Orders, Settled(o), NEW d \in {"Approved", "Rejected"}, order[o] # "Approved",
           receipt' = [receipt EXCEPT ![o].status = d, ![o].started = 0],
           order' = [order EXCEPT ![o] = d], proc' = proc,
           NEW N, subs' = subs \cup N, \A n \in N : n.order = o,
           IF d = "Approved" THEN \E n : N = {n} ELSE N = {},
           \A b \in Admins : admin'[b].pc = "commit" => admin'[b] = admin[b] /\ admin'[b].order # o
    PROVE  AnalysisOver' /\ LocksOK' /\ PeriodsOK'
<1> receipt \in [Orders -> Receipt] /\ order \in [Orders -> OrderStatuses]
  BY DEF DInv, IInv, TypeOK
<1>1. /\ order'[o] = d /\ receipt'[o].status = d
      /\ \A q \in Orders \ {o} : order'[q] = order[q] /\ receipt'[q] = receipt[q]
  BY DEF Receipt
<1>2. AnalysisOver'
  <2>1. ASSUME NEW q \in Orders, Deciding(q)' PROVE q = o \/ Deciding(q)
    BY <1>1, <2>1 DEF Deciding, Locked
  <2>2. \A q \in Orders : Settled(q) => Settled(q)'
    BY <1>1 DEF Settled, Queued
  <2> QED BY <2>1, <2>2 DEF DInv, AnalysisOver
<1>3. LocksOK'
  <2>1. ASSUME NEW b \in Admins, admin'[b].pc = "commit"
        PROVE  /\ order'[admin'[b].order] \notin {"none", "Approved", "Rejected"}
               /\ \A c \in Admins : admin'[c].pc = "commit" /\ admin'[c].order = admin'[b].order => c = b
    <3>1. admin[b].pc = "commit" /\ admin'[b] = admin[b] /\ admin[b].order \in Orders \ {o}
      BY <2>1 DEF DInv, IInv, AdminsOK
    <3> QED BY <1>1, <3>1 DEF DInv, LocksOK
  <2> QED BY <2>1 DEF LocksOK
<1>4. PeriodsOK'
  <2>1. \A q \in Orders \ {o} : Periods(q)' = Periods(q)
    BY DEF Periods
  <2>2. Periods(o)' = N
    BY DEF DInv, PeriodsOK, Periods
  <2>3. ASSUME NEW q \in Orders
        PROVE  /\ order'[q] # "Approved" => Periods(q)' = {}
               /\ order'[q] = "Approved" => \E s \in subs' : Periods(q)' = {s}
    <3>1. CASE q = o
      BY <1>1, <2>2, <3>1
    <3>2. CASE q # o
      BY <1>1, <2>1, <3>2 DEF DInv, PeriodsOK
    <3> QED BY <3>1, <3>2
  <2> QED BY <2>3 DEF PeriodsOK, Periods
<1> QED BY <1>2, <1>3, <1>4

\* approveOrder commits: the period and the approval, or nothing.
LEMMA CommitCases ==
    ASSUME DInv, NEW a \in Admins, ApproveCommits(a)
    PROVE  /\ admin[a].order \in Orders /\ Settled(admin[a].order)
           /\ order[admin[a].order] \notin {"none", "Approved", "Rejected"}
           /\ \A b \in Admins : admin'[b].pc = "commit" =>
                 b # a /\ admin'[b] = admin[b] /\ admin'[b].order # admin[a].order
           /\ proc' = proc
           /\ \/ UNCHANGED <<rows, subs>>
              \/ /\ order' = [order EXCEPT ![admin[a].order] = "Approved"]
                 /\ receipt' = [receipt EXCEPT ![admin[a].order].status = "Approved",
                                               ![admin[a].order].started = 0]
                 /\ \E n : subs' = subs \cup {n} /\ n.order = admin[a].order
<1>1. admin[a].order \in Orders /\ admin[a].pc = "commit"
  BY DEF ApproveCommits, DInv, IInv, AdminsOK
<1>2. Settled(admin[a].order) /\ order[admin[a].order] \notin {"none", "Approved", "Rejected"}
  BY <1>1 DEF DInv, AnalysisOver, LocksOK, Deciding, Locked
<1>3. ASSUME NEW b \in Admins, admin'[b].pc = "commit"
      PROVE  b # a /\ admin'[b] = admin[b] /\ admin'[b].order # admin[a].order
  <2>1. admin' \in {[admin EXCEPT ![a] = Free], [admin EXCEPT ![a] = [Free EXCEPT !.pc = "paid"]]}
    BY DEF ApproveCommits
  <2>2. [Free EXCEPT !.pc = "paid"].pc = "paid" /\ Free.pc = "idle"
    BY DEF Free
  <2>3. b # a /\ admin'[b] = admin[b]
    BY <1>3, <2>1, <2>2 DEF DInv, IInv, TypeOK
  <2> QED BY <1>1, <1>3, <2>3 DEF DInv, LocksOK
<1>4. CASE UNCHANGED <<rows, bought>>
  BY <1>1, <1>2, <1>3, <1>4 DEF ApproveCommits, running, bought
<1>5. CASE ~(admin[a].newUser /\ account)
  <2>1. PICK n : n = [order |-> admin[a].order, start |-> admin[a].start, end |-> admin[a].start + Duration]
    OBVIOUS
  <2>2. subs' = subs \cup {n} /\ n.order = admin[a].order
    BY <1>5, <2>1 DEF ApproveCommits
  <2> QED BY <1>1, <1>2, <1>3, <1>5, <2>2 DEF ApproveCommits, running
<1> QED BY <1>4, <1>5 DEF ApproveCommits

LEMMA CommitDecides ==
    ASSUME DInv, NEW a \in Admins, ApproveCommits(a)
    PROVE  AnalysisOver' /\ LocksOK' /\ PeriodsOK'
<1>1. CASE UNCHANGED <<rows, subs>>
  <2>1. \A o \in Orders : Settled(o) => Settled(o)'
    BY <1>1, CommitCases DEF Settled, rows
  <2> QED BY <1>1, <2>1, CommitCases, QuietDecides
<1>2. CASE ~UNCHANGED <<rows, subs>>
  <2>1. PICK o \in Orders : o = admin[a].order
    BY CommitCases
  <2>2. PICK n : subs' = subs \cup {n} /\ n.order = o
    BY <1>2, <2>1, CommitCases
  <2>3. PICK N : N = {n}
    OBVIOUS
  <2>4. /\ Settled(o) /\ order[o] # "Approved" /\ proc' = proc
        /\ order' = [order EXCEPT ![o] = "Approved"]
        /\ receipt' = [receipt EXCEPT ![o].status = "Approved", ![o].started = 0]
        /\ \A b \in Admins : admin'[b].pc = "commit" => admin'[b] = admin[b] /\ admin'[b].order # o
    BY <1>2, <2>1, CommitCases
  <2>5. subs' = subs \cup N /\ \A m \in N : m.order = o
    BY <2>2, <2>3
  <2>6. \E m : N = {m}
    BY <2>3
  <2> QED BY <2>4, <2>5, <2>6, DecisionDecides
<1> QED BY <1>1, <1>2

LEMMA RejectDecides ==
    ASSUME Careful, DInv, NEW a \in Admins, NEW o \in Orders, RejectReceipt(a, o)
    PROVE  AnalysisOver' /\ LocksOK' /\ PeriodsOK'
<1>1. Settled(o) /\ order[o] # "Approved"
  BY DEF RejectReceipt, MayReject
<1>2. /\ receipt' = [receipt EXCEPT ![o].status = "Rejected", ![o].started = 0]
      /\ order' = [order EXCEPT ![o] = "Rejected"]
      /\ subs' = subs /\ proc' = proc /\ admin' = admin
  BY DEF RejectReceipt, bought, running
<1>3. \A b \in Admins : admin'[b].pc = "commit" => admin'[b] = admin[b] /\ admin'[b].order # o
  BY <1>2 DEF RejectReceipt, Locked
<1>4. PICK N : N = {}
  OBVIOUS
<1>5. /\ subs' = subs \cup N /\ \A n \in N : n.order = o
      /\ IF "Rejected" = "Approved" THEN \E n : N = {n} ELSE N = {}
  BY <1>2, <1>4
<1> QED BY <1>1, <1>2, <1>3, <1>5, DecisionDecides

\* The steps that write no row and no subscription.
Quiet ==
    \/ \E a \in Admins : ReadPaid(a) \/ GrantTier(a) \/ SetRewards(a)
    \/ Crash \/ UNCHANGED vars

LEMMA QuietUnchanged ==
    ASSUME Quiet
    PROVE  UNCHANGED <<rows, subs>>
BY DEF Quiet, ReadPaid, GrantTier, SetRewards, Crash, vars, rows, bought

LEMMA QuietKeeps ==
    ASSUME DInv, Quiet
    PROVE  AnalysisOver' /\ LocksOK' /\ PeriodsOK'
<1>1. \A o \in Orders : Settled(o) => Settled(o)'
  <2>1. CASE Crash
    BY <2>1 DEF Crash, Settled, Idle, rows
  <2>2. CASE ~Crash
    BY <2>2 DEF Quiet, ReadPaid, GrantTier, SetRewards, vars, Settled, rows, running
  <2> QED BY <2>1, <2>2
<1>2. ASSUME NEW a \in Admins, admin'[a].pc = "commit" PROVE admin'[a] = admin[a]
  <2>1. [Next]_vars
    BY DEF Quiet, Next, Decision, Request
  <2>2. CASE admin' = admin
    BY <2>2
  <2>3. ASSUME NEW o \in Orders, ApproveReads(a, o) PROVE admin'[a] = admin[a]
    <3>1. UNCHANGED <<bonuses, tiers, faults>> /\ admin'[a].pc = "commit" /\ admin[a].pc = "idle"
      BY <1>2, <2>3 DEF ApproveReads, rewards
    <3>2. CASE UNCHANGED vars
      BY <3>1, <3>2 DEF vars
    <3>3. CASE Crash
      BY <1>2, <3>3, NewRecords DEF Crash
    <3>4. ASSUME NEW b \in Admins, ReadPaid(b) \/ GrantTier(b) PROVE FALSE
      <4>1. a # b /\ \A c \in Admins \ {b} : admin'[c] = admin[c]
        BY <3>1, <3>4 DEF ReadPaid, GrantTier, DInv, IInv, TypeOK
      <4> QED BY <1>2, <3>1, <4>1
    <3>5. ASSUME NEW b \in Admins, SetRewards(b) PROVE FALSE
      BY <3>1, <3>5 DEF SetRewards, DInv, IInv, TypeOK
    <3> QED BY <3>2, <3>3, <3>4, <3>5 DEF Quiet
  <2> QED BY <1>2, <2>1, <2>3, CommitsFromReads DEF DInv
<1> QED BY <1>1, <1>2, QuietUnchanged, QuietDecides

LEMMA NextCases ==
    ASSUME [Next]_vars
    PROVE  \/ BesideAdmins \/ Quiet
           \/ \E a \in Admins : ApproveCommits(a)
           \/ \E a \in Admins, o \in Orders : ApproveReads(a, o) \/ RejectReceipt(a, o)
BY DEF Next, BesideAdmins, Quiet, Decision, Request

LEMMA DecisionInductive ==
    ASSUME Careful
    PROVE  Spec => []DInv
<1>1. Init => AnalysisOver /\ LocksOK /\ PeriodsOK
  <2> SUFFICES ASSUME Init PROVE AnalysisOver /\ LocksOK /\ PeriodsOK
    OBVIOUS
  <2>1. \A a \in Admins : admin[a].pc # "commit"
    BY NewRecords DEF Init
  <2> QED BY <2>1 DEF Init, AnalysisOver, LocksOK, PeriodsOK, Periods, Deciding, Locked
<1>2. DInv /\ [Next]_vars => AnalysisOver' /\ LocksOK' /\ PeriodsOK'
  BY NextCases, BesideDecides, QuietKeeps, CommitDecides, ApproveReadsDecides, RejectDecides
<1>3. Init => DInv
  BY <1>1, InitInv DEF DInv
<1>4. DInv /\ [Next]_vars => DInv'
  BY <1>2, NextInv DEF DInv
<1> QED BY <1>3, <1>4, PTL DEF Spec

\* How the mapped variables follow from the rows.
LEMMA SamePeriods ==
    ASSUME subs' = subs
    PROVE  [o \in Orders |-> Cardinality({s \in subs : s.order = o})]'
           = [o \in Orders |-> Cardinality({s \in subs : s.order = o})]
OBVIOUS

LEMMA QuietStutters ==
    ASSUME order' = order, subs' = subs
    PROVE  UNCHANGED OD!vars
<1>1. [o \in Orders |-> Decided(o)]' = [o \in Orders |-> Decided(o)]
  BY DEF Decided
<1> QED BY <1>1, SamePeriods DEF OD!vars

\* An order's decision when its status becomes st.
LEMMA DecidedMoves ==
    ASSUME TypeOK, NEW o \in Orders, NEW st, order' = [order EXCEPT ![o] = st], NEW d,
           d = CASE st = "none" -> "none"
                 [] st = "Approved" -> "approved"
                 [] st = "Rejected" -> "rejected"
                 [] OTHER -> "open"
    PROVE  [q \in Orders |-> Decided(q)]' = [[q \in Orders |-> Decided(q)] EXCEPT ![o] = d]
<1>1. \A q \in Orders : order'[q] = IF q = o THEN st ELSE order[q]
  BY DEF TypeOK
<1>2. \A q \in Orders : Decided(q)' = IF q = o THEN d ELSE Decided(q)
  BY <1>1 DEF Decided
<1> QED BY <1>2

\* An order comes under review, or is rejected, without a period.
LEMMA BesideImplements ==
    ASSUME DInv, BesideAdmins
    PROVE  [OD!Next]_(OD!vars)
<1>1. TypeOK /\ subs' = subs
  BY BesideWrites DEF DInv, IInv
<1>2. CASE order' = order
  BY <1>1, <1>2, QuietStutters
<1>3. ASSUME NEW o \in Orders, NEW st \in {"ReceiptSubmitted", "UnderReview"},
             order' = [order EXCEPT ![o] = st], order[o] \notin {"Approved", "Rejected"}
      PROVE  [OD!Next]_(OD!vars)
  <2>1. [q \in Orders |-> Decided(q)]' = [[q \in Orders |-> Decided(q)] EXCEPT ![o] = "open"]
    BY <1>1, <1>3, DecidedMoves
  <2>2. CASE order[o] = "none"
    <3>1. [q \in Orders |-> Decided(q)][o] = "none"
      BY <2>2 DEF Decided
    <3> QED BY <1>1, <2>1, <3>1, SamePeriods DEF OD!Next, OD!Submit
  <2>3. CASE order[o] # "none"
    <3>1. [q \in Orders |-> Decided(q)]' = [q \in Orders |-> Decided(q)]
      <4>1. Decided(o) = "open"
        BY <1>3, <2>3 DEF Decided
      <4> QED BY <2>1, <4>1
    <3> QED BY <1>1, <3>1, SamePeriods DEF OD!vars
  <2> QED BY <2>2, <2>3
<1>4. ASSUME NEW o \in Orders, ~Settled(o) PROVE order[o] \notin {"Approved", "Rejected"}
  BY <1>4 DEF DInv, AnalysisOver, Deciding
<1> QED BY <1>2, <1>3, <1>4, BesideWrites DEF DInv

LEMMA RejectImplements ==
    ASSUME DInv, NEW a \in Admins, NEW o \in Orders, RejectReceipt(a, o)
    PROVE  [OD!Next]_(OD!vars)
<1>1. /\ TypeOK /\ subs' = subs /\ order' = [order EXCEPT ![o] = "Rejected"]
      /\ order[o] \notin {"none", "Approved"}
  BY DEF DInv, IInv, RejectReceipt, MayReject, bought
<1>2. [q \in Orders |-> Decided(q)]' = [[q \in Orders |-> Decided(q)] EXCEPT ![o] = "rejected"]
  BY <1>1, DecidedMoves
<1>3. CASE order[o] = "Rejected"
  <2>1. Decided(o) = "rejected"
    BY <1>3 DEF Decided
  <2>2. [q \in Orders |-> Decided(q)]' = [q \in Orders |-> Decided(q)]
    BY <1>2, <2>1
  <2> QED BY <1>1, <2>2, SamePeriods DEF OD!vars
<1>4. CASE order[o] # "Rejected"
  <2>1. [q \in Orders |-> Decided(q)][o] = "open"
    BY <1>1, <1>4 DEF Decided
  <2> QED BY <1>1, <1>2, <2>1, SamePeriods DEF OD!Next, OD!Reject
<1> QED BY <1>3, <1>4

LEMMA CommitImplements ==
    ASSUME DInv, NEW a \in Admins, ApproveCommits(a)
    PROVE  [OD!Next]_(OD!vars)
<1>1. CASE UNCHANGED <<rows, subs>>
  BY <1>1, QuietStutters DEF rows
<1>2. CASE ~UNCHANGED <<rows, subs>>
  <2>0. PICK o \in Orders : o = admin[a].order
    BY CommitCases
  <2>1. PICK n : /\ order[o] \notin {"none", "Approved", "Rejected"}
                 /\ order' = [order EXCEPT ![o] = "Approved"]
                 /\ subs' = subs \cup {n} /\ n.order = o
    BY <1>2, <2>0, CommitCases
  <2>2. TypeOK /\ [q \in Orders |-> Decided(q)][o] = "open"
    BY <2>1 DEF Decided, DInv, IInv
  <2>3. [q \in Orders |-> Decided(q)]' = [[q \in Orders |-> Decided(q)] EXCEPT ![o] = "approved"]
    BY <2>1, <2>2, DecidedMoves
  <2>4. PICK G : G = [q \in Orders |-> Cardinality({s \in subs : s.order = q})]
    OBVIOUS
  <2>5. G[o] = 0
    <3>1. {s \in subs : s.order = o} = {}
      BY <2>1 DEF DInv, PeriodsOK, Periods
    <3> QED BY <2>4, <3>1, FS_EmptySet
  <2>6. [q \in Orders |-> Cardinality({s \in subs : s.order = q})]' = [G EXCEPT ![o] = 1]
    <3>1. {s \in subs' : s.order = o} = {n}
      BY <2>1 DEF DInv, PeriodsOK, Periods
    <3>2. Cardinality({s \in subs' : s.order = o}) = 1
      BY <3>1, FS_Singleton
    <3>3. \A q \in Orders \ {o} : {s \in subs' : s.order = q} = {s \in subs : s.order = q}
      BY <2>1
    <3>4. ASSUME NEW q \in Orders
          PROVE  Cardinality({s \in subs' : s.order = q}) = [G EXCEPT ![o] = 1][q]
      <4>1. CASE q = o
        BY <2>4, <3>2, <4>1
      <4>2. CASE q # o
        BY <2>4, <3>3, <4>2
      <4> QED BY <4>1, <4>2
    <3> QED BY <2>4, <3>4
  <2> QED BY <2>2, <2>3, <2>4, <2>5, <2>6 DEF OD!Next, OD!Approve
<1> QED BY <1>1, <1>2

\* With careful admins the purchase keeps its promise: an order is decided at most once, the
\* decision stands against every late analysis, and an approval gives exactly one period,
\* for any number of admins deciding at once.
THEOREM Refinement ==
    ASSUME Careful
    PROVE  Spec => DecidedOnce
<1>1. Init => OD!Init
  <2> SUFFICES ASSUME Init PROVE OD!Init
    OBVIOUS
  <2>1. [o \in Orders |-> Decided(o)] = [o \in Orders |-> "none"]
    BY DEF Init, Decided
  <2>2. \A o \in Orders : {s \in subs : s.order = o} = {}
    BY DEF Init
  <2>3. [o \in Orders |-> Cardinality({s \in subs : s.order = o})] = [o \in Orders |-> 0]
    BY <2>2, FS_EmptySet
  <2> QED BY <2>1, <2>3 DEF OD!Init
<1>2. DInv /\ [Next]_vars => [OD!Next]_(OD!vars)
  <2> SUFFICES ASSUME DInv, [Next]_vars PROVE [OD!Next]_(OD!vars)
    OBVIOUS
  <2>1. CASE Quiet
    BY <2>1, QuietUnchanged, QuietStutters DEF rows
  <2>2. ASSUME NEW a \in Admins, NEW o \in Orders, ApproveReads(a, o) PROVE [OD!Next]_(OD!vars)
    BY <2>2, QuietStutters DEF ApproveReads, rows, bought
  <2> QED BY <2>1, <2>2, NextCases, BesideImplements, CommitImplements, RejectImplements
<1> QED BY <1>1, <1>2, DecisionInductive, PTL DEF Spec, OD!Spec, DecidedOnce

\* ... and so no order gives its buyer two periods, which it may without the care.
THEOREM OnePeriod ==
    ASSUME Careful
    PROVE  Spec => []OnePeriodPerOrder
<1>1. DInv => OnePeriodPerOrder
  <2> SUFFICES ASSUME DInv, NEW s \in subs, NEW t \in subs, s.order = t.order PROVE s = t
    BY DEF OnePeriodPerOrder
  <2>1. PICK o \in Orders : s.order = o
    BY DEF DInv, IInv, TypeOK, Sub
  <2>2. s \in Periods(o) /\ t \in Periods(o)
    BY <2>1 DEF Periods
  <2> QED BY <2>2 DEF DInv, PeriodsOK
<1> QED BY <1>1, DecisionInductive, PTL
=============================================================================
