------------------------- MODULE CargoDeliveryProofs -------------------------
(***************************************************************************)
(* Proofs about CargoDelivery, for every number of notices, messengers and  *)
(* consumers, every limit on attempts and tries and every retry window.     *)
(*                                                                         *)
(* The attempts hold whatever fails and whoever sends: that needs only what *)
(* the copies in hand may be.  That a notice is sent once, passed over by   *)
(* no messenger and never forgotten needs that it has one turn at a time,   *)
(* a job, a consumer, the announcer or the sweep, and is proved for one     *)
(* sender without summaries (Undisturbed).                                  *)
(***************************************************************************)
EXTENDS CargoDelivery, FiniteSetTheorems, WellFoundedInduction, TLAPS

\* What a cell promises: a messenger that is still to be tried has attempts left.
CellOK(cell) == cell.status = "PENDING" => cell.attempts < MaxAttempts
RowOK(r) == \A m \in Messengers : CellOK(r[m])

\* A job to send is about a notice.
JobOK(j) == j \in Job /\ (j.kind = "send" => j.id \in Notices)

OfConsumer == {"idle", "send", "record", "close", "skipOthers", "follow", "window", "hold", "schedule", "digestRead",
               "digestClear", "digestRows", "digestSift", "digestSend", "digestSent", "handOn", "digestHold", "digestLater"}
OfWorker == {"idle", "send", "record", "due", "sweep", "scan"}
OfSend == {"send", "record", "window", "hold", "schedule"}
OfNotice == OfSend \cup {"close", "skipOthers", "scan"}

\* What a handler under way holds, the copies of rows it read long ago included.
HandlerOK(p, me) ==
    /\ me \in Process
    /\ p = "worker" => me.pc \in OfWorker
    /\ p \in Consumers => me.pc \in OfConsumer /\ (me.pc # "idle" => JobOK(me.job))
    /\ \A j \in me.out : JobOK(j)
    /\ RowOK(me.copy) /\ \A t \in me.rows : RowOK(t.copy)
    /\ me.pc \in OfNotice => me.id \in Notices
    /\ me.pc \in OfConsumer => me.m \in Messengers
    /\ me.pc \in OfSend => me.copy[me.m].status = "PENDING"
    /\ me.pc = "record" => me.ans \in AllAnswers \ {"lost"}
    /\ me.pc \in {"close", "handOn"} => me.ans \in {"FAILED", "SKIPPED"}
    /\ me.pc = "skipOthers" => me.todo # {}

\* The inductive invariant of types and attempts: the table, the queue and the handlers, and
\* what is left of TypeOK.
RowsOK(rows) == rows \in [Notices -> Row] /\ \A n \in Notices : RowOK(rows[n])
QueueOK(bag) == IsABag(bag) /\ \A j \in BagToSet(bag) : JobOK(j)
ProcOK(hs) == hs \in [Procs -> Process] /\ \A p \in Procs : HandlerOK(p, hs[p])
SetupOK(s) == s \in Setups /\ s.digest \in Nat /\ s.announces \in Nat /\ s.routes \subseteq Messengers
RedisOK(w, h, s) == w \in [Messengers -> Nat] /\ h \in [Messengers -> SUBSET Notices] /\ s \subseteq Messengers
AnnOK(a) == a \in [Notices -> [pc : {"idle", "rows", "queue", "schedule"}, m : Messengers]]
RestOK == /\ created \in [Notices -> 0..MaxTime] /\ taken \subseteq Notices
          /\ announces \in [Notices -> 0..setup.announces]
          /\ faults \in 0..MaxFaults /\ now \in 1..MaxTime
          /\ got \in [Notices -> 0..2] /\ tried \in [Notices -> SUBSET Messengers]

IInv == /\ SetupOK(setup) /\ RowsOK(notice) /\ QueueOK(queue) /\ ProcOK(proc)
        /\ RedisOK(window, held, scheduled) /\ AnnOK(ann) /\ RestOK

-----------------------------------------------------------------------------
(* Facts about the operators. *)

LEMMA Constants ==
    /\ M \in Nat /\ M # 0 /\ Bots \subseteq Messengers /\ Setups \subseteq Setup
    /\ Answers \subseteq AllAnswers /\ Window \in Nat /\ MaxAttempts \in Nat /\ MaxAttempts # 0
    /\ MaxTries \in Nat /\ MaxFaults \in Nat /\ MaxTime \in Nat /\ MaxTime # 0 /\ NoNotice \notin Notices
    /\ "worker" \notin Consumers /\ IsFiniteSet(Consumers) /\ \A k \in 0..MaxAttempts : 2 ^ k \in Nat /\ 2 ^ k # 0
    /\ 1 \in Messengers
BY DeliveryAssumption DEF DeliveryAssumption, Messengers

LEMMA Least == ASSUME NEW S \in SUBSET Nat, S # {} PROVE \E n \in S : \A m \in S : n <= m
<1>1. PICK R : R = OpToRel(<, Nat)
  OBVIOUS
<1>2. IsWellFoundedOn(R, Nat)
  BY <1>1, NatLessThanWellFounded
<1>3. PICK x \in S : \A y \in S : <<y, x>> \notin R
  BY <1>2, WFMin
<1>4. R = {ss \in Nat \X Nat : ss[1] < ss[2]}
  BY <1>1 DEF OpToRel
<1>5. \A y \in Nat : y < x => <<y, x>> \in R
  BY <1>4
<1>6. ASSUME NEW y \in S PROVE x <= y
  <2>1. ~(y < x) /\ x \in Nat /\ y \in Nat
    BY <1>3, <1>5
  <2> QED BY <2>1
<1> QED BY <1>6

LEMMA FirstFacts ==
    ASSUME NEW S \in SUBSET Messengers, S # {}
    PROVE  First(S) \in S /\ First(S) \in Messengers /\ \A k \in S : First(S) <= k
<1>1. S \in SUBSET Nat
  BY DEF Messengers
<1>2. \E n \in S : \A m \in S : n <= m
  BY <1>1, Least
<1> QED BY <1>2 DEF First

\* Bags of jobs.
LEMMA AddBag ==
    ASSUME NEW B, IsABag(B), NEW C, IsABag(C)
    PROVE  IsABag(B (+) C) /\ BagToSet(B (+) C) = BagToSet(B) \cup BagToSet(C)
<1>1. PICK D : D = B (+) C
  OBVIOUS
<1>2. /\ D = [e \in (DOMAIN B) \cup (DOMAIN C) |-> (IF e \in DOMAIN B THEN B[e] ELSE 0) + (IF e \in DOMAIN C THEN C[e] ELSE 0)]
  BY <1>1 DEF (+)
<1>3. DOMAIN D = (DOMAIN B) \cup (DOMAIN C)
  BY <1>2
<1>4. (\A e \in DOMAIN B : B[e] \in Nat /\ B[e] > 0) /\ (\A e \in DOMAIN C : C[e] \in Nat /\ C[e] > 0)
  BY DEF IsABag
<1>5. \A e \in DOMAIN D : D[e] \in {n \in Nat : n > 0}
  BY <1>2, <1>3, <1>4
<1>6. IsABag(D)
  BY <1>2, <1>3, <1>5 DEF IsABag
<1> QED BY <1>1, <1>3, <1>6 DEF BagToSet

LEMMA OneBag ==
    ASSUME NEW j
    PROVE  IsABag(SetToBag({j})) /\ BagToSet(SetToBag({j})) = {j}
BY DEF IsABag, SetToBag, BagToSet

LEMMA TakeBag ==
    ASSUME NEW B, IsABag(B), NEW C, IsABag(C)
    PROVE  /\ IsABag(B (-) C) /\ BagToSet(B (-) C) \subseteq BagToSet(B)
           /\ \A e \in BagToSet(B) : e \notin BagToSet(C) => e \in BagToSet(B (-) C) /\ (B (-) C)[e] = B[e]
           /\ \A e \in BagToSet(C) \cap BagToSet(B) : C[e] = B[e] => e \notin BagToSet(B (-) C)
<1>1. PICK A : A = [e \in DOMAIN B |-> IF e \in DOMAIN C THEN B[e] - C[e] ELSE B[e]]
  OBVIOUS
<1>2. PICK D : D = [e \in {d \in DOMAIN A : A[d] > 0} |-> A[e]]
  OBVIOUS
<1>3. D = B (-) C
  BY <1>1, <1>2 DEF (-)
<1>4. (\A e \in DOMAIN B : B[e] \in Nat /\ B[e] > 0) /\ (\A e \in DOMAIN C : C[e] \in Nat /\ C[e] > 0)
  BY DEF IsABag
<1>5. DOMAIN A = DOMAIN B /\ \A e \in DOMAIN B : A[e] \in Int /\ A[e] = IF e \in DOMAIN C THEN B[e] - C[e] ELSE B[e]
  BY <1>1, <1>4
<1>6. DOMAIN D = {d \in DOMAIN B : A[d] > 0} /\ \A e \in DOMAIN D : D[e] = A[e]
  BY <1>2, <1>5
<1>7. \A e \in DOMAIN D : D[e] \in {n \in Nat : n > 0}
  BY <1>5, <1>6
<1>8. D \in [DOMAIN D -> {n \in Nat : n > 0}]
  BY <1>2, <1>6, <1>7
<1>9. \A e \in DOMAIN B : e \notin DOMAIN C => e \in DOMAIN D /\ D[e] = B[e]
  BY <1>4, <1>5, <1>6
<1>10. \A e \in DOMAIN C \cap DOMAIN B : C[e] = B[e] => e \notin DOMAIN D
  BY <1>4, <1>5, <1>6
<1> QED BY <1>3, <1>6, <1>8, <1>9, <1>10 DEF IsABag, BagToSet

-----------------------------------------------------------------------------
(* The parts of the invariant. *)

LEMMA SetupFacts == ASSUME setup \in Setups PROVE SetupOK(setup)
<1>1. setup \in Setup
  BY Constants
<1> QED BY <1>1 DEF SetupOK, Setup, Messengers

LEMMA Implies == IInv => TypeOK /\ AttemptsBounded
<1> SUFFICES ASSUME IInv PROVE TypeOK /\ AttemptsBounded
  OBVIOUS
<1> USE DEF IInv
<1>1. BagToSet(queue) \subseteq Job
  BY DEF QueueOK, JobOK
<1>2. TypeOK
  BY <1>1 DEF TypeOK, SetupOK, RowsOK, QueueOK, ProcOK, RedisOK, AnnOK, RestOK
<1>3. ASSUME NEW n \in Notices, NEW m \in Messengers
      PROVE  /\ notice[n][m].attempts <= MaxAttempts
             /\ notice[n][m].status = "PENDING" => notice[n][m].attempts < MaxAttempts
  <2>1. notice[n] \in Row /\ RowOK(notice[n])
    BY DEF RowsOK
  <2>2. notice[n][m] \in Cell /\ CellOK(notice[n][m])
    BY <2>1 DEF Row, RowOK
  <2>3. notice[n][m].attempts \in 0..MaxAttempts
    BY <2>2 DEF Cell
  <2> QED BY <2>2, <2>3, Constants DEF CellOK
<1> QED BY <1>2, <1>3 DEF AttemptsBounded

\* One handler takes a step.
LEMMA OneHandler ==
    ASSUME ProcOK(proc), NEW p \in Procs, NEW me, HandlerOK(p, me), Set(p, me)
    PROVE  ProcOK(proc')
<1>1. me \in Process
  BY DEF HandlerOK
<1>2. proc' \in [Procs -> Process] /\ \A q \in Procs : proc'[q] = IF q = p THEN me ELSE proc[q]
  BY <1>1 DEF Set, ProcOK
<1> QED BY <1>2 DEF ProcOK

LEMMA IdleOK == ASSUME NEW p \in Procs PROVE HandlerOK(p, Idle)
<1>1. \A k \in Messengers : Unset[k] = [status |-> "SKIPPED", attempts |-> 0, at |-> NoTime]
  BY DEF Unset
<1>2. Unset \in Row
  BY Constants DEF Unset, Row, Cell, Statuses, NoTime
<1>3. RowOK(Unset)
  BY <1>1 DEF RowOK, CellOK
<1>4. NoJob \in Job
  BY Constants DEF NoJob, Job, NoTime
<1>5. Idle \in Process
  BY <1>2, <1>4, Constants DEF Idle, Process, Pcs, NoTime, Messengers
<1>6. /\ Idle.pc = "idle" /\ Idle.out = {} /\ Idle.rows = {} /\ Idle.copy = Unset /\ Idle.m = 1
  BY DEF Idle
<1> QED BY <1>3, <1>5, <1>6, Constants DEF HandlerOK, OfWorker, OfConsumer, OfSend, OfNotice

\* One cell of the table is written.
LEMMA OneCell ==
    ASSUME RowsOK(notice), NEW id \in Notices, NEW m \in Messengers, NEW cell \in Cell, CellOK(cell), Update(id, m, cell)
    PROVE  RowsOK(notice')
<1>1. notice' = [notice EXCEPT ![id] = [notice[id] EXCEPT ![m] = cell]]
  BY DEF Update, RowsOK
<1>2. PICK r : r = [notice[id] EXCEPT ![m] = cell]
  OBVIOUS
<1>3. notice[id] \in [Messengers -> Cell] /\ \A k \in Messengers : CellOK(notice[id][k])
  BY DEF RowsOK, Row, RowOK
<1>4. r \in [Messengers -> Cell] /\ \A k \in Messengers : r[k] = IF k = m THEN cell ELSE notice[id][k]
  BY <1>2, <1>3
<1>5. r \in Row /\ RowOK(r)
  BY <1>3, <1>4 DEF Row, RowOK
<1>6. notice' \in [Notices -> Row] /\ \A n \in Notices : notice'[n] = IF n = id THEN r ELSE notice[n]
  BY <1>1, <1>2, <1>5 DEF RowsOK
<1> QED BY <1>5, <1>6 DEF RowsOK

\* One row of the table is written.
LEMMA OneRow ==
    ASSUME RowsOK(notice), NEW id \in Notices, NEW r \in Row, RowOK(r), notice' = [notice EXCEPT ![id] = r]
    PROVE  RowsOK(notice')
<1>1. notice' \in [Notices -> Row] /\ \A n \in Notices : notice'[n] = IF n = id THEN r ELSE notice[n]
  BY DEF RowsOK
<1> QED BY <1>1 DEF RowsOK

\* Closing a messenger's columns.
LEMMA ClosedOK ==
    ASSUME NEW cell \in Cell, NEW status \in {"FAILED", "SKIPPED", "SENT"}
    PROVE  Closed(cell, status) \in Cell /\ CellOK(Closed(cell, status)) /\ Closed(cell, status).status = status
<1>1. Closed(cell, status) \in Cell /\ Closed(cell, status).status = status
  BY DEF Closed, Cell, Statuses, NoTime
<1> QED BY <1>1 DEF CellOK

LEMMA CellFacts ==
    ASSUME RowsOK(notice), NEW id \in Notices, NEW m \in Messengers
    PROVE  notice[id] \in Row /\ RowOK(notice[id]) /\ notice[id][m] \in Cell /\ CellOK(notice[id][m])
BY DEF RowsOK, Row, RowOK

\* A job goes into the queue.
LEMMA OneJob ==
    ASSUME QueueOK(queue), NEW j, JobOK(j), queue' = queue (+) SetToBag({j})
    PROVE  QueueOK(queue')
<1>1. PICK one : one = SetToBag({j})
  OBVIOUS
<1>2. IsABag(one) /\ BagToSet(one) = {j} /\ IsABag(queue)
  BY <1>1, OneBag DEF QueueOK
<1>3. IsABag(queue (+) one) /\ BagToSet(queue (+) one) = BagToSet(queue) \cup {j}
  BY <1>2, AddBag
<1> QED BY <1>1, <1>3 DEF QueueOK

LEMMA SendJobOK == ASSUME NEW id \in Notices, NEW m \in Messengers PROVE JobOK(SendJob(id, m))
BY DEF JobOK, Job, SendJob, NoTime

LEMMA DigestJobOK == ASSUME NEW m \in Messengers, NEW at \in Nat PROVE JobOK(DigestJob(m, at))
BY DEF JobOK, Job, DigestJob, NoTime

LEMMA NextJobsOK ==
    ASSUME NEW id \in Notices, NEW copy, NEW m
    PROVE  \A j \in NextJobs(id, copy, m) : JobOK(j)
<1>1. PICK later : later = {k \in Pending(copy) : k > m}
  OBVIOUS
<1>2. later \in SUBSET Messengers
  BY <1>1 DEF Pending
<1>3. CASE later = {}
  BY <1>1, <1>3 DEF NextJobs
<1>4. CASE later # {}
  <2>1. JobOK(SendJob(id, First(later)))
    BY <1>2, <1>4, FirstFacts, SendJobOK
  <2> QED BY <1>1, <1>4, <2>1 DEF NextJobs
<1> QED BY <1>3, <1>4

-----------------------------------------------------------------------------
(* The announcer. *)

\* What a step of the announcer leaves alone.
LEMMA AnnStep ==
    ASSUME IInv, NEW n \in Notices, NEW pc \in {"idle", "rows", "queue", "schedule"}, NEW m \in Messengers, AtAnn(n, pc, m)
    PROVE  AnnOK(ann')
BY DEF IInv, AnnOK, AtAnn

LEMMA OfAnnounce == ASSUME IInv, NEW n \in Notices, Announce(n), UNCHANGED setup PROVE IInv'
<1> USE DEF IInv
<1>1. AnnOK(ann')
  BY AnnStep, Constants DEF Announce
<1>2. announces' \in [Notices -> 0..setup'.announces]
  <2>1. announces[n] < setup.announces /\ announces[n] \in 0..setup.announces /\ setup.announces \in Nat
    BY DEF Announce, RestOK, SetupOK
  <2>2. announces[n] + 1 \in 0..setup.announces
    BY <2>1
  <2> QED BY <2>2 DEF Announce, RestOK
<1>3. RowsOK(notice') /\ created' \in [Notices -> 0..MaxTime]
  <2>1. CASE created[n] # NoTime
    BY <2>1 DEF Announce, RestOK
  <2>2. CASE created[n] = NoTime
    <3>1. PICK r : r = [m \in Messengers |-> IF m \in Routes THEN [Unset[m] EXCEPT !.status = "PENDING"] ELSE Unset[m]]
      OBVIOUS
    <3>2. \A m \in Messengers : /\ r[m] \in Cell /\ r[m].attempts = 0
      BY <3>1, Constants DEF Unset, Cell, Statuses, NoTime
    <3>3. r \in Row /\ RowOK(r)
      <4>1. 0 < MaxAttempts
        BY Constants
      <4>2. \A m \in Messengers : CellOK(r[m])
        BY <3>2, <4>1 DEF CellOK
      <4> QED BY <3>1, <3>2, <4>2 DEF Row, RowOK
    <3>4. notice' = [notice EXCEPT ![n] = r] /\ created' = [created EXCEPT ![n] = now]
      BY <2>2, <3>1 DEF Announce
    <3>5. RowsOK(notice')
      BY <3>3, <3>4, OneRow
    <3>6. now \in 0..MaxTime
      BY DEF RestOK
    <3> QED BY <3>4, <3>5, <3>6 DEF RestOK
  <2> QED BY <2>1, <2>2
<1> QED BY <1>1, <1>2, <1>3 DEF Announce, RestOK, redis, history

LEMMA OfAnnounceRows == ASSUME IInv, NEW n \in Notices, AnnounceRows(n), UNCHANGED setup PROVE IInv'
<1> USE DEF IInv
<1>1. AnnOK(ann')
  <2>1. CASE AnySent(notice[n]) \/ Pending(notice[n]) = {}
    BY <2>1, AnnStep, Constants DEF AnnounceRows
  <2>2. CASE ~(AnySent(notice[n]) \/ Pending(notice[n]) = {})
    <3>1. PICK m : m = First(Pending(notice[n]))
      OBVIOUS
    <3>2. Pending(notice[n]) \in SUBSET Messengers
      BY DEF Pending
    <3>3. m \in Messengers
      BY <2>2, <3>1, <3>2, FirstFacts
    <3>4. AtAnn(n, "queue", m)
      BY <2>2, <3>1 DEF AnnounceRows
    <3> QED BY <3>3, <3>4, AnnStep
  <2> QED BY <2>1, <2>2
<1> QED BY <1>1 DEF AnnounceRows, RestOK, redis, history

LEMMA OfAnnounceQueue == ASSUME IInv, NEW n \in Notices, AnnounceQueue(n), UNCHANGED setup PROVE IInv'
<1> USE DEF IInv
<1>1. AnnOK(ann')
  BY AnnStep, Constants DEF AnnounceQueue
<1>2. QueueOK(queue') /\ faults' \in 0..MaxFaults
  <2>1. CASE QueueOn /\ queue' = queue (+) SetToBag({SendJob(n, ann[n].m)}) /\ UNCHANGED faults
    <3>1. ann[n].m \in Messengers
      BY DEF AnnOK
    <3>2. PICK j : j = SendJob(n, ann[n].m)
      OBVIOUS
    <3>3. JobOK(j)
      BY <3>1, <3>2, SendJobOK
    <3> QED BY <2>1, <3>2, <3>3, OneJob DEF RestOK
  <2>2. CASE UNCHANGED queue /\ IF QueueOn THEN Fault("publish") ELSE UNCHANGED faults
    BY <2>2, Constants DEF Fault, RestOK
  <2> QED BY <2>1, <2>2 DEF AnnounceQueue
<1> QED BY <1>1, <1>2 DEF AnnounceQueue, RestOK, redis, history

LEMMA OfScheduleRetry == ASSUME IInv, NEW n \in Notices, ScheduleRetry(n), UNCHANGED setup PROVE IInv'
<1> USE DEF IInv
<1>1. AnnOK(ann')
  BY AnnStep, Constants DEF ScheduleRetry
<1>2. PICK r : r = [m \in Messengers |-> [notice[n][m] EXCEPT !.at = IF notice[n][m].status = "PENDING" THEN now ELSE NoTime]]
  OBVIOUS
<1>3. ASSUME NEW m \in Messengers PROVE r[m] \in Cell /\ CellOK(r[m])
  <2>1. PICK cell : cell = notice[n][m]
    OBVIOUS
  <2>2. cell \in Cell /\ CellOK(cell)
    BY <2>1, CellFacts
  <2>3. now \in Nat /\ NoTime \in Nat
    BY Constants DEF RestOK, NoTime
  <2>4. r[m] = [cell EXCEPT !.at = IF cell.status = "PENDING" THEN now ELSE NoTime]
    BY <1>2, <2>1
  <2>5. r[m] \in Cell /\ r[m].status = cell.status /\ r[m].attempts = cell.attempts
    BY <2>2, <2>3, <2>4 DEF Cell
  <2> QED BY <2>2, <2>5 DEF CellOK
<1>4. r \in Row /\ RowOK(r)
  BY <1>2, <1>3 DEF Row, RowOK
<1>5. RowsOK(notice')
  BY <1>2, <1>4, OneRow DEF ScheduleRetry
<1> QED BY <1>1, <1>5 DEF ScheduleRetry, RestOK, redis, history

-----------------------------------------------------------------------------
(* One send. *)

LEMMA HandlerFacts == ASSUME IInv, NEW p \in Procs PROVE HandlerOK(p, proc[p]) /\ proc[p] \in Process
BY DEF IInv, ProcOK

LEMMA Fields ==
    ASSUME NEW me \in Process
    PROVE  /\ me.pc \in Pcs /\ me.job \in Job /\ me.id \in Notices \cup {NoNotice} /\ me.copy \in Row /\ me.m \in 1..(M + 1)
           /\ me.open \in BOOLEAN /\ me.ans \in AllAnswers \cup Statuses \cup {"none"} /\ me.todo \in SUBSET Messengers
           /\ me.ids \in SUBSET Notices /\ me.rows \in SUBSET Loaded /\ me.out \in SUBSET Job /\ me.at \in Nat
           /\ me.has \in BOOLEAN
BY DEF Process

LEMMA OfSendStep == ASSUME IInv, NEW p \in Procs, Send(p), UNCHANGED setup PROVE IInv'
<1> USE DEF IInv
<1>1. PICK me : me = proc[p]
  OBVIOUS
<1>2. HandlerOK(p, me) /\ me \in Process /\ me.pc = "send"
  BY <1>1, HandlerFacts DEF Send
<1>3. me.id \in Notices /\ me.m \in Messengers
  BY <1>2 DEF HandlerOK, OfSend, OfNotice, OfConsumer
<1>4. PICK ans \in IF me.open THEN AnswersOf(me.m) ELSE {"unlinked"} :
         /\ Set(p, [me EXCEPT !.pc = "record", !.ans = IF ans = "lost" THEN "temporary" ELSE ans])
         /\ got' = IF ans \in {"sent", "lost"} /\ got[me.id] < 2 THEN [got EXCEPT ![me.id] = @ + 1] ELSE got
  BY <1>1 DEF Send
<1>5. ans \in AllAnswers
  BY Constants DEF AnswersOf, AllAnswers
<1>6. PICK r : r = IF ans = "lost" THEN "temporary" ELSE ans
  OBVIOUS
<1>7. r \in AllAnswers \ {"lost"}
  BY <1>5, <1>6 DEF AllAnswers
<1>8. PICK b : b = [me EXCEPT !.pc = "record", !.ans = r]
  OBVIOUS
<1>9. b \in Process
  BY <1>2, <1>7, <1>8 DEF Process, Pcs
<1>10. /\ b.pc = "record" /\ b.ans = r /\ b.job = me.job /\ b.out = me.out /\ b.copy = me.copy /\ b.rows = me.rows
       /\ b.id = me.id /\ b.m = me.m
  BY <1>2, <1>8 DEF Process
<1>11. HandlerOK(p, b)
  BY <1>2, <1>3, <1>7, <1>9, <1>10, Constants DEF HandlerOK, OfSend, OfNotice, OfConsumer, OfWorker
<1>12. ProcOK(proc')
  BY <1>4, <1>6, <1>8, <1>11, OneHandler
<1>13. got' \in [Notices -> 0..2]
  <2>1. got \in [Notices -> 0..2]
    BY DEF RestOK
  <2>2. got[me.id] < 2 => got[me.id] + 1 \in 0..2
    BY <1>3, <2>1
  <2> QED BY <1>4, <2>1, <2>2
<1>14. tried' \in [Notices -> SUBSET Messengers]
  BY <1>1, <1>3 DEF Send, RestOK
<1> QED BY <1>12, <1>13, <1>14 DEF Send, RestOK, redis

\* The retry time of an answer: none once the attempts are used up.
LEMMA RetryFacts ==
    ASSUME IInv, NEW p \in Procs, proc[p].pc = "record"
    PROVE  /\ RetryAt(proc[p]) \in Nat
           /\ proc[p].copy[proc[p].m].attempts + 1 \in 1..MaxAttempts
           /\ RetryAt(proc[p]) # NoTime /\ proc[p].ans # "limited" => proc[p].copy[proc[p].m].attempts + 1 < MaxAttempts
           /\ RetryAt(proc[p]) # NoTime => proc[p].ans \in {"limited", "temporary"}
<1> USE DEF IInv
<1>1. PICK me : me = proc[p]
  OBVIOUS
<1>2. HandlerOK(p, me) /\ me \in Process /\ me.pc = "record"
  BY <1>1, HandlerFacts
<1>3. /\ me.id \in Notices /\ me.m \in Messengers /\ me.ans \in AllAnswers \ {"lost"} /\ RowOK(me.copy)
      /\ me.copy[me.m].status = "PENDING" /\ me.copy \in Row
  BY <1>2, Fields DEF HandlerOK, OfSend, OfNotice, OfConsumer
<1>4. PICK cell : cell = me.copy[me.m]
  OBVIOUS
<1>5. cell \in Cell /\ CellOK(cell) /\ cell.status = "PENDING"
  BY <1>3, <1>4 DEF Row, RowOK
<1>6. PICK a : a = cell.attempts
  OBVIOUS
<1>7. a \in 0..MaxAttempts /\ a < MaxAttempts
  BY <1>5, <1>6 DEF Cell, CellOK
<1>8. a + 1 \in 1..MaxAttempts /\ a \in 0..MaxAttempts /\ (a + 1) - 1 = a
  BY <1>7, Constants
<1>9. PICK w : w = 2 ^ a
  OBVIOUS
<1>10. w \in Nat /\ now \in Nat
  BY <1>8, <1>9, Constants DEF RestOK
<1>11. nextDeliveryRetryAt(a + 1, me.id) = IF a + 1 >= MaxAttempts \/ now + w > created[me.id] + Window THEN NoTime ELSE now + w
  BY <1>8, <1>9 DEF nextDeliveryRetryAt
<1>12. PICK next : next = nextDeliveryRetryAt(a + 1, me.id)
  OBVIOUS
<1>13. next \in Nat /\ (next # NoTime => a + 1 < MaxAttempts)
  BY <1>8, <1>10, <1>11, <1>12, Constants DEF NoTime
<1>14. RetryAt(me) = IF me.ans = "limited" THEN now + 1 ELSE IF me.ans = "temporary" THEN next ELSE NoTime
  BY <1>4, <1>6, <1>12 DEF RetryAt
<1>15. RetryAt(me) \in Nat /\ (RetryAt(me) # NoTime => me.ans \in {"limited", "temporary"})
  BY <1>10, <1>13, <1>14 DEF NoTime
<1>16. RetryAt(me) # NoTime /\ me.ans # "limited" => a + 1 < MaxAttempts
  BY <1>13, <1>14
<1> QED BY <1>1, <1>4, <1>6, <1>8, <1>15, <1>16

LEMMA RecordedOK ==
    ASSUME IInv, NEW p \in Procs, proc[p].pc = "record"
    PROVE  Recorded(proc[p]) \in Cell /\ CellOK(Recorded(proc[p]))
<1>1. PICK me : me = proc[p]
  OBVIOUS
<1>2. HandlerOK(p, me) /\ me \in Process /\ me.pc = "record"
  BY <1>1, HandlerFacts
<1>3. me.id \in Notices /\ me.m \in Messengers /\ me.ans \in AllAnswers \ {"lost"}
  BY <1>2 DEF HandlerOK, OfSend, OfNotice, OfConsumer
<1>4. PICK cur : cur = notice[me.id][me.m]
  OBVIOUS
<1>5. cur \in Cell /\ CellOK(cur)
  BY <1>3, <1>4, CellFacts DEF IInv
<1>6. PICK at : at = RetryAt(me)
  OBVIOUS
<1>7. PICK a : a = me.copy[me.m].attempts + 1
  OBVIOUS
<1>8. /\ at \in Nat /\ a \in 1..MaxAttempts /\ (at # NoTime /\ me.ans # "limited" => a < MaxAttempts)
      /\ (at # NoTime => me.ans \in {"limited", "temporary"})
  BY <1>1, <1>2, <1>6, <1>7, RetryFacts
<1>9. CASE me.ans = "limited"
  <2>1. Recorded(me) = [cur EXCEPT !.at = at]
    BY <1>4, <1>6, <1>9 DEF Recorded
  <2>2. Recorded(me) \in Cell /\ Recorded(me).status = cur.status /\ Recorded(me).attempts = cur.attempts
    BY <1>5, <1>8, <2>1 DEF Cell
  <2> QED BY <1>1, <1>5, <2>2 DEF CellOK
<1>10. CASE me.ans = "unlinked"
  <2>1. Recorded(me) = Closed(cur, "SKIPPED")
    BY <1>4, <1>10 DEF Recorded
  <2> QED BY <1>1, <1>5, <2>1, ClosedOK
<1>11. CASE me.ans \notin {"limited", "unlinked"}
  <2>1. PICK s : s = Result(me)
    OBVIOUS
  <2>2. s \in Statuses /\ (s = "PENDING" => at # NoTime)
    BY <1>6, <2>1 DEF Result, Statuses
  <2>3. Recorded(me) = [status |-> s, attempts |-> a, at |-> at]
    BY <1>6, <1>7, <1>11, <2>1 DEF Recorded
  <2>4. a \in 0..MaxAttempts
    BY <1>8, Constants
  <2>5. Recorded(me) \in Cell /\ Recorded(me).status = s /\ Recorded(me).attempts = a
    BY <1>8, <2>2, <2>3, <2>4 DEF Cell
  <2> QED BY <1>1, <1>8, <1>11, <2>2, <2>5 DEF CellOK
<1> QED BY <1>9, <1>10, <1>11

\* A consumer goes on to publish what follows from its job.
LEMMA ToFollow ==
    ASSUME NEW c \in Consumers, NEW me, HandlerOK(c, me), me.pc # "idle", NEW out, \A j \in out : JobOK(j)
    PROVE  HandlerOK(c, [me EXCEPT !.pc = "follow", !.out = out])
<1>1. me \in Process /\ me.pc \in OfConsumer /\ me.m \in Messengers /\ JobOK(me.job)
  BY DEF HandlerOK
<1>2. PICK b : b = [me EXCEPT !.pc = "follow", !.out = out]
  OBVIOUS
<1>3. out \in SUBSET Job
  BY DEF JobOK
<1>4. b \in Process
  BY <1>1, <1>2, <1>3 DEF Process, Pcs
<1>5. b.pc = "follow" /\ b.job = me.job /\ b.out = out /\ b.copy = me.copy /\ b.rows = me.rows /\ b.m = me.m
  BY <1>1, <1>2 DEF Process
<1>6. HandlerOK(c, b)
  BY <1>1, <1>4, <1>5, Constants DEF HandlerOK, OfSend, OfNotice, OfConsumer
<1> QED BY <1>2, <1>6

LEMMA ToFollowOn ==
    ASSUME NEW c \in Consumers, NEW me, HandlerOK(c, me), me.pc # "idle"
    PROVE  HandlerOK(c, [me EXCEPT !.pc = "follow"])
<1>1. me \in Process /\ me.pc \in OfConsumer /\ me.m \in Messengers /\ JobOK(me.job)
  BY DEF HandlerOK
<1>2. PICK b : b = [me EXCEPT !.pc = "follow"]
  OBVIOUS
<1>3. b \in Process
  BY <1>1, <1>2 DEF Process, Pcs
<1>4. b.pc = "follow" /\ b.job = me.job /\ b.out = me.out /\ b.copy = me.copy /\ b.rows = me.rows /\ b.m = me.m
  BY <1>1, <1>2 DEF Process
<1>5. HandlerOK(c, b)
  BY <1>1, <1>3, <1>4, Constants DEF HandlerOK, OfSend, OfNotice, OfConsumer
<1> QED BY <1>2, <1>5

\* The job again, later.
LEMMA AgainOK ==
    ASSUME NEW j, JobOK(j), NEW at \in Nat, NEW tries \in Nat
    PROVE  JobOK([j EXCEPT !.at = at]) /\ JobOK([j EXCEPT !.tries = tries, !.at = at])
<1>1. PICK a : a = [j EXCEPT !.at = at]
  OBVIOUS
<1>2. PICK b : b = [j EXCEPT !.tries = tries, !.at = at]
  OBVIOUS
<1>3. a \in Job /\ a.kind = j.kind /\ a.id = j.id
  BY <1>1 DEF JobOK, Job
<1>4. b \in Job /\ b.kind = j.kind /\ b.id = j.id
  BY <1>2 DEF JobOK, Job
<1> QED BY <1>1, <1>2, <1>3, <1>4 DEF JobOK

LEMMA AfterQueuedOK ==
    ASSUME IInv, NEW c \in Consumers, proc[c].pc = "record"
    PROVE  HandlerOK(c, AfterQueued(proc[c]))
<1>1. PICK me : me = proc[c]
  OBVIOUS
<1>2. c \in Procs
  BY DEF Procs
<1>3. HandlerOK(c, me) /\ me \in Process /\ me.pc = "record"
  BY <1>1, <1>2, HandlerFacts
<1>4. me.id \in Notices /\ me.m \in Messengers /\ JobOK(me.job)
  BY <1>3 DEF HandlerOK, OfSend, OfNotice, OfConsumer
<1>5. RetryAt(me) \in Nat
  BY <1>1, <1>2, <1>3, RetryFacts
<1>6. CASE Result(me) = "PENDING"
  <2>1. PICK j : j = [me.job EXCEPT !.at = RetryAt(me)]
    OBVIOUS
  <2>2. JobOK(j)
    BY <1>4, <1>5, <2>1, AgainOK
  <2>3. \A i \in {j} : JobOK(i)
    BY <2>2
  <2>4. AfterQueued(me) = [me EXCEPT !.pc = "follow", !.out = {j}]
    BY <1>6, <2>1 DEF AfterQueued
  <2>5. me.pc # "idle"
    BY <1>3
  <2>6. HandlerOK(c, [me EXCEPT !.pc = "follow", !.out = {j}])
    BY <1>3, <2>3, <2>5, ToFollow
  <2> QED BY <1>1, <2>4, <2>6
<1>7. CASE Result(me) = "SENT"
  <2>1. PICK others : others = Pending(me.copy) \ {me.m}
    OBVIOUS
  <2>2. others \in SUBSET Messengers
    BY <2>1 DEF Pending
  <2>3. PICK b : b = [me EXCEPT !.pc = IF others = {} THEN "follow" ELSE "skipOthers", !.todo = others]
    OBVIOUS
  <2>4. b \in Process
    BY <1>3, <2>2, <2>3 DEF Process, Pcs
  <2>5. /\ b.pc = (IF others = {} THEN "follow" ELSE "skipOthers") /\ b.todo = others /\ b.job = me.job /\ b.out = me.out
        /\ b.copy = me.copy /\ b.rows = me.rows /\ b.m = me.m /\ b.id = me.id
    BY <1>3, <2>3 DEF Process
  <2>6. HandlerOK(c, b)
    BY <1>3, <1>4, <2>4, <2>5, Constants DEF HandlerOK, OfSend, OfNotice, OfConsumer
  <2> QED BY <1>1, <1>7, <2>1, <2>3, <2>6 DEF AfterQueued
<1>8. CASE Result(me) \notin {"PENDING", "SENT"}
  <2>1. PICK out : out = IF me.open THEN NextJobs(me.id, me.copy, me.m) ELSE {}
    OBVIOUS
  <2>2. \A j \in out : JobOK(j)
    BY <1>4, <2>1, NextJobsOK
  <2>3. AfterQueued(me) = [me EXCEPT !.pc = "follow", !.out = out]
    BY <1>8, <2>1 DEF AfterQueued
  <2>4. me.pc # "idle"
    BY <1>3
  <2>5. HandlerOK(c, [me EXCEPT !.pc = "follow", !.out = out])
    BY <1>3, <2>2, <2>4, ToFollow
  <2> QED BY <1>1, <2>3, <2>5
<1> QED BY <1>6, <1>7, <1>8

LEMMA AfterSweptOK ==
    ASSUME IInv, proc["worker"].pc = "record"
    PROVE  HandlerOK("worker", AfterSwept(proc["worker"]))
<1>1. PICK me : me = proc["worker"]
  OBVIOUS
<1>2. "worker" \in Procs
  BY DEF Procs
<1>3. HandlerOK("worker", me) /\ me \in Process /\ me.pc = "record"
  BY <1>1, <1>2, HandlerFacts
<1>4. me.id \in Notices /\ me.m \in Messengers /\ M \in Nat
  BY <1>3, Constants DEF HandlerOK, OfSend, OfNotice, OfConsumer
<1>5. me.m + 1 \in 1..(M + 1)
  BY <1>4 DEF Messengers
<1>6. PICK has : has = (Result(me) \in {"SENT", "PENDING"})
  OBVIOUS
<1>7. has \in BOOLEAN
  <2>1. CASE Result(me) \in {"SENT", "PENDING"}
    BY <1>6, <2>1
  <2>2. CASE Result(me) \notin {"SENT", "PENDING"}
    BY <1>6, <2>2
  <2> QED BY <2>1, <2>2
<1>8. PICK b : b = [me EXCEPT !.pc = "scan", !.m = me.m + 1, !.has = has]
  OBVIOUS
<1>9. b \in Process
  BY <1>3, <1>5, <1>7, <1>8 DEF Process, Pcs
<1>10. b.pc = "scan" /\ b.job = me.job /\ b.out = me.out /\ b.copy = me.copy /\ b.rows = me.rows /\ b.id = me.id
  BY <1>3, <1>8 DEF Process
<1>11. HandlerOK("worker", b)
  BY <1>3, <1>4, <1>9, <1>10, Constants DEF HandlerOK, OfSend, OfNotice, OfConsumer, OfWorker
<1> QED BY <1>1, <1>6, <1>8, <1>11 DEF AfterSwept

LEMMA OfRecord == ASSUME IInv, NEW p \in Procs, Record(p), UNCHANGED setup PROVE IInv'
<1> USE DEF IInv
<1>1. PICK me : me = proc[p]
  OBVIOUS
<1>2. HandlerOK(p, me) /\ me.pc = "record"
  BY <1>1, HandlerFacts DEF Record
<1>3. me.id \in Notices /\ me.m \in Messengers
  BY <1>2 DEF HandlerOK, OfSend, OfNotice, OfConsumer
<1>4. PICK cell : cell = Recorded(me)
  OBVIOUS
<1>5. cell \in Cell /\ CellOK(cell)
  BY <1>1, <1>2, <1>4, RecordedOK
<1>6. RowsOK(notice')
  BY <1>1, <1>3, <1>4, <1>5, OneCell DEF Record
<1>7. PICK b : b = IF p = "worker" THEN AfterSwept(me) ELSE AfterQueued(me)
  OBVIOUS
<1>8. HandlerOK(p, b)
  BY <1>1, <1>2, <1>7, AfterSweptOK, AfterQueuedOK DEF Procs
<1>9. ProcOK(proc')
  BY <1>1, <1>7, <1>8, OneHandler DEF Record
<1> QED BY <1>6, <1>9 DEF Record, RestOK, redis, history

-----------------------------------------------------------------------------
(* The consumers and their jobs. *)

PlainPcs == {"follow", "digestRead", "digestClear", "digestRows", "digestSift", "digestSend", "digestSent", "digestHold",
             "digestLater"}

\* A consumer with a job goes on to a step that asks nothing more of it.
LEMMA Plain ==
    ASSUME NEW c \in Consumers, NEW me, HandlerOK(c, me), me.pc # "idle",
           NEW b \in Process, b.pc \in PlainPcs, b.job = me.job, b.m = me.m, b.copy = me.copy,
           \A j \in b.out : JobOK(j), \A t \in b.rows : RowOK(t.copy)
    PROVE  HandlerOK(c, b)
<1>1. me.pc \in OfConsumer /\ me.m \in Messengers /\ JobOK(me.job) /\ RowOK(me.copy)
  BY DEF HandlerOK
<1>2. b.pc \in OfConsumer /\ b.pc \notin OfNotice /\ b.pc \notin OfSend /\ b.pc \notin {"record", "close", "handOn", "skipOthers"}
  BY DEF PlainPcs, OfConsumer, OfNotice, OfSend
<1> QED BY <1>1, <1>2, Constants DEF HandlerOK

LEMMA ConsumerFacts ==
    ASSUME IInv, NEW c \in Consumers
    PROVE  /\ c \in Procs /\ HandlerOK(c, proc[c]) /\ proc[c] \in Process /\ proc[c].m \in Messengers
           /\ proc[c].pc # "idle" => JobOK(proc[c].job)
BY HandlerFacts DEF Procs, HandlerOK

LEMMA OpenedOK ==
    ASSUME IInv, NEW c \in Consumers, NEW j, JobOK(j), j.kind = "send"
    PROVE  HandlerOK(c, Opened(j))
<1> USE DEF IInv
<1>1. j \in Job /\ j.id \in Notices /\ j.m \in Messengers
  BY DEF JobOK, Job
<1>2. PICK copy : copy = notice[j.id]
  OBVIOUS
<1>3. copy \in Row /\ RowOK(copy)
  BY <1>1, <1>2, CellFacts
<1>4. PICK open \in BOOLEAN : open = (j.id \notin taken)
  OBVIOUS
<1>5. PICK me : me = [Idle EXCEPT !.job = j, !.id = j.id, !.copy = copy, !.m = j.m, !.open = open]
  OBVIOUS
<1>6. c \in Procs
  BY DEF Procs
<1>7. HandlerOK(c, Idle) /\ Idle \in Process
  BY <1>6, IdleOK DEF HandlerOK
<1>8. j.m \in 1..(M + 1)
  BY <1>1, Constants DEF Messengers
<1>9. me \in Process
  BY <1>1, <1>3, <1>5, <1>7, <1>8 DEF Process
<1>10. me.job = j /\ me.id = j.id /\ me.copy = copy /\ me.m = j.m /\ me.out = {} /\ me.rows = {} /\ me.pc = "idle"
  BY <1>5 DEF Idle
<1>11. PICK pc, ans : /\ Opened(j) = [me EXCEPT !.pc = pc, !.ans = ans]
                      /\ \/ pc = "follow" /\ ans = me.ans
                         \/ pc = "close" /\ ans \in {"SKIPPED", "FAILED"}
                         \/ pc \in {"send", "window"} /\ ans = me.ans /\ copy[j.m].status = "PENDING"
  <2>1. CASE copy[j.m].status # "PENDING"
    <3>1. Opened(j) = [me EXCEPT !.pc = "follow"]
      BY <1>2, <1>4, <1>5, <1>10, <2>1 DEF Opened
    <3>2. [me EXCEPT !.pc = "follow"] = [me EXCEPT !.pc = "follow", !.ans = me.ans]
      BY ONLY <1>9 DEF Process
    <3> QED BY <3>1, <3>2
  <2>2. CASE copy[j.m].status = "PENDING" /\ AnySent(copy)
    <3>1. Opened(j) = [me EXCEPT !.pc = "close", !.ans = "SKIPPED"]
      BY <1>2, <1>4, <1>5, <1>9, <1>10, <2>2 DEF Opened
    <3> QED BY <3>1
  <2>3. CASE copy[j.m].status = "PENDING" /\ ~AnySent(copy) /\ Stale(j.id, now)
    <3>1. Opened(j) = [me EXCEPT !.pc = "close", !.ans = "FAILED"]
      BY <1>2, <1>4, <1>5, <1>9, <1>10, <2>3 DEF Opened
    <3> QED BY <3>1
  <2>4. CASE copy[j.m].status = "PENDING" /\ ~AnySent(copy) /\ ~Stale(j.id, now)
    <3>1. PICK pc : pc = IF DigestWindow = 0 THEN "send" ELSE "window"
      OBVIOUS
    <3>2. Opened(j) = [me EXCEPT !.pc = pc]
      BY <1>2, <1>4, <1>5, <1>10, <2>4, <3>1 DEF Opened
    <3>3. [me EXCEPT !.pc = pc] = [me EXCEPT !.pc = pc, !.ans = me.ans]
      BY ONLY <1>9 DEF Process
    <3>4. pc \in {"send", "window"}
      BY <3>1
    <3> QED BY <2>4, <3>2, <3>3, <3>4
  <2> QED BY <2>1, <2>2, <2>3, <2>4
<1>12. PICK b : b = [me EXCEPT !.pc = pc, !.ans = ans]
  OBVIOUS
<1>13. b \in Process
  BY <1>9, <1>11, <1>12 DEF Process, Pcs, Statuses
<1>14. b.pc = pc /\ b.ans = ans /\ b.job = j /\ b.id = j.id /\ b.copy = copy /\ b.m = j.m /\ b.out = {} /\ b.rows = {}
  BY <1>9, <1>10, <1>12 DEF Process
<1>15. pc \in {"follow", "close", "send", "window"}
  BY <1>11
<1>16. HandlerOK(c, b)
  BY <1>1, <1>3, <1>11, <1>13, <1>14, <1>15, Constants DEF HandlerOK, OfSend, OfNotice, OfConsumer
<1> QED BY <1>11, <1>12, <1>16

LEMMA OfTake == ASSUME IInv, NEW c \in Consumers, NEW j \in BagToSet(queue), Take(c, j), UNCHANGED setup PROVE IInv'
<1> USE DEF IInv
<1>1. JobOK(j) /\ IsABag(queue)
  BY DEF QueueOK
<1>2. QueueOK(queue')
  <2>1. PICK one : one = SetToBag({j})
    OBVIOUS
  <2>2. IsABag(one)
    BY <2>1, OneBag
  <2>3. IsABag(queue (-) one) /\ BagToSet(queue (-) one) \subseteq BagToSet(queue)
    BY <1>1, <2>2, TakeBag
  <2>4. queue' = queue (-) one
    BY <2>1 DEF Take
  <2> QED BY <2>3, <2>4 DEF QueueOK
<1>3. c \in Procs
  BY DEF Procs
<1>4. ProcOK(proc') /\ scheduled' \subseteq Messengers
  <2>1. CASE j.kind = "send"
    <3>1. PICK b : b = Opened(j)
      OBVIOUS
    <3>2. HandlerOK(c, b)
      BY <1>1, <2>1, <3>1, OpenedOK
    <3>3. Set(c, b) /\ scheduled' = scheduled
      BY <2>1, <3>1 DEF Take
    <3> QED BY <1>3, <3>2, <3>3, OneHandler DEF RedisOK
  <2>2. CASE j.kind # "send"
    <3>1. PICK b : b = [Idle EXCEPT !.pc = "digestRead", !.job = j, !.m = j.m, !.at = now]
      OBVIOUS
    <3>2. HandlerOK(c, Idle) /\ Idle \in Process
      BY <1>3, IdleOK DEF HandlerOK
    <3>3. j \in Job /\ j.m \in Messengers /\ now \in Nat /\ j.m \in 1..(M + 1)
      BY <1>1, Constants DEF JobOK, Job, RestOK, Messengers
    <3>4. b \in Process
      BY <3>1, <3>2, <3>3 DEF Process, Pcs
    <3>5. b.pc = "digestRead" /\ b.job = j /\ b.m = j.m /\ b.out = {} /\ b.rows = {} /\ b.copy = Idle.copy
      BY <3>1, <3>2 DEF Process, Idle
    <3>6. HandlerOK(c, b)
      BY <1>1, <3>2, <3>3, <3>4, <3>5, Constants DEF HandlerOK, OfSend, OfNotice, OfConsumer
    <3>7. Set(c, b) /\ scheduled' = scheduled \ {j.m}
      BY <2>2, <3>1 DEF Take
    <3> QED BY <1>3, <3>6, <3>7, OneHandler DEF RedisOK
  <2> QED BY <2>1, <2>2
<1> QED BY <1>2, <1>4 DEF Take, RestOK, RedisOK, history

LEMMA OfClose == ASSUME IInv, NEW c \in Consumers, Close(c), UNCHANGED setup PROVE IInv'
<1> USE DEF IInv
<1>1. PICK me : me = proc[c]
  OBVIOUS
<1>2. HandlerOK(c, me) /\ me.pc = "close" /\ me.m \in Messengers /\ c \in Procs
  BY <1>1, ConsumerFacts DEF Close
<1>3. me.id \in Notices /\ me.ans \in {"FAILED", "SKIPPED"} /\ me.pc # "idle"
  BY <1>2 DEF HandlerOK, OfNotice
<1>4. PICK cell : cell = Closed(notice[me.id][me.m], me.ans)
  OBVIOUS
<1>5. notice[me.id][me.m] \in Cell
  BY <1>2, <1>3, CellFacts
<1>6. cell \in Cell /\ CellOK(cell)
  BY <1>3, <1>4, <1>5, ClosedOK
<1>7. RowsOK(notice')
  BY <1>1, <1>2, <1>3, <1>4, <1>6, OneCell DEF Close
<1>8. PICK b : b = [me EXCEPT !.pc = "follow"]
  OBVIOUS
<1>9. HandlerOK(c, b)
  BY <1>2, <1>3, <1>8, ToFollowOn
<1>10. ProcOK(proc')
  BY <1>1, <1>2, <1>8, <1>9, OneHandler DEF Close
<1> QED BY <1>7, <1>10 DEF Close, RestOK, redis, history

LEMMA OfSkipOthers == ASSUME IInv, NEW c \in Consumers, SkipOthers(c), UNCHANGED setup PROVE IInv'
<1> USE DEF IInv
<1>1. PICK me : me = proc[c]
  OBVIOUS
<1>2. HandlerOK(c, me) /\ me \in Process /\ me.pc = "skipOthers" /\ me.m \in Messengers /\ JobOK(me.job) /\ c \in Procs
  BY <1>1, ConsumerFacts DEF SkipOthers
<1>3. me.id \in Notices /\ me.todo # {} /\ me.todo \in SUBSET Messengers
  BY <1>2, Fields DEF HandlerOK, OfNotice
<1>4. PICK k : k = First(me.todo)
  OBVIOUS
<1>5. k \in me.todo /\ k \in Messengers
  BY <1>3, <1>4, FirstFacts
<1>6. PICK cell : cell = Closed(notice[me.id][k], "SKIPPED")
  OBVIOUS
<1>7. notice[me.id][k] \in Cell
  BY <1>3, <1>5, CellFacts
<1>8. cell \in Cell /\ CellOK(cell)
  BY <1>6, <1>7, ClosedOK
<1>9. RowsOK(notice')
  BY <1>1, <1>3, <1>4, <1>5, <1>6, <1>8, OneCell DEF SkipOthers
<1>10. PICK b : b = [me EXCEPT !.todo = me.todo \ {k}, !.pc = IF me.todo = {k} THEN "follow" ELSE "skipOthers"]
  OBVIOUS
<1>11. b \in Process
  BY <1>2, <1>3, <1>10 DEF Process, Pcs
<1>12. /\ b.pc = (IF me.todo = {k} THEN "follow" ELSE "skipOthers") /\ b.todo = me.todo \ {k}
       /\ b.job = me.job /\ b.out = me.out /\ b.copy = me.copy /\ b.rows = me.rows /\ b.m = me.m /\ b.id = me.id
  BY <1>2, <1>10 DEF Process
<1>13. me.todo # {k} => b.todo # {}
  BY <1>5, <1>12
<1>14. HandlerOK(c, b)
  BY <1>2, <1>3, <1>11, <1>12, <1>13, Constants DEF HandlerOK, OfSend, OfNotice, OfConsumer
<1>15. ProcOK(proc')
  BY <1>1, <1>2, <1>4, <1>10, <1>14, OneHandler DEF SkipOthers
<1> QED BY <1>9, <1>15 DEF SkipOthers, RestOK, redis, history

LEMMA OfFollow == ASSUME IInv, NEW c \in Consumers, Follow(c), UNCHANGED setup PROVE IInv'
<1> USE DEF IInv
<1>1. PICK me : me = proc[c]
  OBVIOUS
<1>2. HandlerOK(c, me) /\ me \in Process /\ me.pc = "follow" /\ c \in Procs
  BY <1>1, ConsumerFacts DEF Follow
<1>3. CASE me.out = {} /\ Set(c, Idle) /\ UNCHANGED queue
  <2>1. ProcOK(proc')
    BY <1>2, <1>3, IdleOK, OneHandler
  <2> QED BY <1>3, <2>1 DEF Follow, RestOK, redis, history
<1>4. CASE \E j \in me.out : queue' = queue (+) SetToBag({j}) /\ Set(c, [me EXCEPT !.out = @ \ {j}])
  <2>1. PICK j \in me.out : queue' = queue (+) SetToBag({j}) /\ Set(c, [me EXCEPT !.out = me.out \ {j}])
    BY <1>4
  <2>2. \A i \in me.out : JobOK(i)
    BY <1>2 DEF HandlerOK
  <2>3. QueueOK(queue')
    BY <2>1, <2>2, OneJob
  <2>4. PICK out : out = me.out \ {j}
    OBVIOUS
  <2>5. PICK b : b = [me EXCEPT !.out = out]
    OBVIOUS
  <2>6. out \in SUBSET Job
    BY <1>2, <2>4, Fields
  <2>7. b \in Process
    BY <1>2, <2>5, <2>6 DEF Process
  <2>8. b.pc = "follow" /\ b.job = me.job /\ b.out = out /\ b.copy = me.copy /\ b.rows = me.rows /\ b.m = me.m
    BY <1>2, <2>5 DEF Process
  <2>9. HandlerOK(c, b)
    BY <1>2, <2>2, <2>4, <2>7, <2>8, Constants DEF HandlerOK, OfSend, OfNotice, OfConsumer
  <2>10. ProcOK(proc')
    BY <1>2, <2>1, <2>4, <2>5, <2>9, OneHandler
  <2> QED BY <2>3, <2>10 DEF Follow, RestOK, redis, history
<1> QED BY <1>1, <1>3, <1>4 DEF Follow

-----------------------------------------------------------------------------
(* Summaries. *)

LEMMA LoadOK ==
    ASSUME IInv, NEW n \in Notices
    PROVE  Load(n) \in Loaded /\ RowOK(Load(n).copy) /\ Load(n).id = n
<1>1. notice[n] \in Row /\ RowOK(notice[n])
  BY DEF IInv, RowsOK
<1>2. PICK open \in BOOLEAN : open = (n \notin taken)
  OBVIOUS
<1>3. Load(n) = [id |-> n, copy |-> notice[n], open |-> open]
  BY <1>2 DEF Load
<1> QED BY <1>1, <1>3 DEF Loaded

LEMMA LoadedFacts == ASSUME NEW t \in Loaded PROVE t.id \in Notices /\ t.copy \in Row
BY DEF Loaded

LEMMA OfDigestWindowStep == ASSUME IInv, NEW c \in Consumers, DigestWindowStep(c), UNCHANGED setup PROVE IInv'
<1> USE DEF IInv
<1>1. PICK me : me = proc[c]
  OBVIOUS
<1>2. HandlerOK(c, me) /\ me \in Process /\ me.pc = "window" /\ me.m \in Messengers /\ c \in Procs
  BY <1>1, ConsumerFacts DEF DigestWindowStep
<1>3. PICK pc \in {"hold", "send"} : Set(c, [me EXCEPT !.pc = pc])
  BY <1>1 DEF DigestWindowStep
<1>4. PICK b : b = [me EXCEPT !.pc = pc]
  OBVIOUS
<1>5. b \in Process
  BY <1>2, <1>4 DEF Process, Pcs
<1>6. b.pc = pc /\ b.job = me.job /\ b.out = me.out /\ b.copy = me.copy /\ b.rows = me.rows /\ b.m = me.m /\ b.id = me.id
  BY <1>2, <1>4 DEF Process
<1>7. HandlerOK(c, b)
  BY <1>2, <1>5, <1>6, Constants DEF HandlerOK, OfSend, OfNotice, OfConsumer
<1>8. ProcOK(proc')
  BY <1>2, <1>3, <1>4, <1>7, OneHandler
<1>9. now + DigestWindow \in Nat
  BY DEF RestOK, DigestWindow, SetupOK
<1>10. RedisOK(window', held', scheduled')
  BY <1>1, <1>2, <1>9 DEF DigestWindowStep, RedisOK
<1> QED BY <1>8, <1>10 DEF DigestWindowStep, RestOK, history

LEMMA OfHold == ASSUME IInv, NEW c \in Consumers, Hold(c), UNCHANGED setup PROVE IInv'
<1> USE DEF IInv
<1>1. PICK me : me = proc[c]
  OBVIOUS
<1>2. HandlerOK(c, me) /\ me \in Process /\ me.pc = "hold" /\ me.m \in Messengers /\ c \in Procs
  BY <1>1, ConsumerFacts DEF Hold
<1>3. PICK b : b = [me EXCEPT !.pc = "schedule"]
  OBVIOUS
<1>4. b \in Process
  BY <1>2, <1>3 DEF Process, Pcs
<1>5. b.pc = "schedule" /\ b.job = me.job /\ b.out = me.out /\ b.copy = me.copy /\ b.rows = me.rows /\ b.m = me.m /\ b.id = me.id
  BY <1>2, <1>3 DEF Process
<1>6. HandlerOK(c, b)
  BY <1>2, <1>4, <1>5, Constants DEF HandlerOK, OfSend, OfNotice, OfConsumer
<1>7. ProcOK(proc')
  BY <1>1, <1>2, <1>3, <1>6, OneHandler DEF Hold
<1>8. me.id \in Notices
  BY <1>2 DEF HandlerOK, OfNotice, OfSend
<1>9. RedisOK(window', held', scheduled')
  BY <1>1, <1>2, <1>8 DEF Hold, RedisOK
<1> QED BY <1>7, <1>9 DEF Hold, RestOK, history

LEMMA OfSchedule == ASSUME IInv, NEW c \in Consumers, Schedule(c), UNCHANGED setup PROVE IInv'
<1> USE DEF IInv
<1>1. PICK me : me = proc[c]
  OBVIOUS
<1>2. HandlerOK(c, me) /\ me.pc = "schedule" /\ me.m \in Messengers /\ c \in Procs /\ me.pc # "idle"
  BY <1>1, ConsumerFacts DEF Schedule
<1>3. PICK at : at = IF window[me.m] > now THEN window[me.m] ELSE now + 1
  OBVIOUS
<1>4. at \in Nat
  BY <1>2, <1>3 DEF RedisOK, RestOK
<1>5. PICK out : out = IF me.m \in scheduled THEN {} ELSE {DigestJob(me.m, at)}
  OBVIOUS
<1>6. \A j \in out : JobOK(j)
  BY <1>2, <1>4, <1>5, DigestJobOK
<1>7. PICK b : b = [me EXCEPT !.pc = "follow", !.out = out]
  OBVIOUS
<1>8. HandlerOK(c, b)
  BY <1>2, <1>6, <1>7, ToFollow
<1>9. ProcOK(proc')
  BY <1>1, <1>2, <1>3, <1>5, <1>7, <1>8, OneHandler DEF Schedule
<1>10. RedisOK(window', held', scheduled')
  BY <1>1, <1>2 DEF Schedule, RedisOK
<1> QED BY <1>9, <1>10 DEF Schedule, RestOK, history

LEMMA OfDigestRead == ASSUME IInv, NEW c \in Consumers, DigestRead(c), UNCHANGED setup PROVE IInv'
<1> USE DEF IInv
<1>1. PICK me : me = proc[c]
  OBVIOUS
<1>2. HandlerOK(c, me) /\ me \in Process /\ me.pc = "digestRead" /\ me.m \in Messengers /\ c \in Procs /\ me.pc # "idle"
  BY <1>1, ConsumerFacts DEF DigestRead
<1>3. PICK b : b = [me EXCEPT !.pc = "digestClear", !.ids = held[me.m]]
  OBVIOUS
<1>4. held[me.m] \in SUBSET Notices
  BY <1>2 DEF RedisOK
<1>5. b \in Process
  BY <1>2, <1>3, <1>4 DEF Process, Pcs
<1>6. b.pc = "digestClear" /\ b.job = me.job /\ b.out = me.out /\ b.copy = me.copy /\ b.rows = me.rows /\ b.m = me.m
  BY <1>2, <1>3 DEF Process
<1>7. (\A j \in b.out : JobOK(j)) /\ (\A t \in b.rows : RowOK(t.copy)) /\ b.pc \in PlainPcs
  BY <1>2, <1>6 DEF HandlerOK, PlainPcs
<1>8. HandlerOK(c, b)
  BY <1>2, <1>5, <1>6, <1>7, Plain
<1>9. ProcOK(proc')
  BY <1>1, <1>2, <1>3, <1>8, OneHandler DEF DigestRead
<1> QED BY <1>9 DEF DigestRead, RestOK, redis, history

LEMMA OfDigestClear == ASSUME IInv, NEW c \in Consumers, DigestClear(c), UNCHANGED setup PROVE IInv'
<1> USE DEF IInv
<1>1. PICK me : me = proc[c]
  OBVIOUS
<1>2. HandlerOK(c, me) /\ me \in Process /\ me.pc = "digestClear" /\ me.m \in Messengers /\ c \in Procs /\ me.pc # "idle"
  BY <1>1, ConsumerFacts DEF DigestClear
<1>3. PICK b : b = [me EXCEPT !.pc = "digestRows"]
  OBVIOUS
<1>4. b \in Process
  BY <1>2, <1>3 DEF Process, Pcs
<1>5. b.pc = "digestRows" /\ b.job = me.job /\ b.out = me.out /\ b.copy = me.copy /\ b.rows = me.rows /\ b.m = me.m
  BY <1>2, <1>3 DEF Process
<1>6. (\A j \in b.out : JobOK(j)) /\ (\A t \in b.rows : RowOK(t.copy)) /\ b.pc \in PlainPcs
  BY <1>2, <1>5 DEF HandlerOK, PlainPcs
<1>7. HandlerOK(c, b)
  BY <1>2, <1>4, <1>5, <1>6, Plain
<1>8. ProcOK(proc')
  BY <1>1, <1>2, <1>3, <1>7, OneHandler DEF DigestClear
<1>9. RedisOK(window', held', scheduled')
  BY <1>1, <1>2 DEF DigestClear, RedisOK
<1> QED BY <1>8, <1>9 DEF DigestClear, RestOK, history

LEMMA OfDigestRows == ASSUME IInv, NEW c \in Consumers, DigestRows(c), UNCHANGED setup PROVE IInv'
<1> USE DEF IInv
<1>1. PICK me : me = proc[c]
  OBVIOUS
<1>2. HandlerOK(c, me) /\ me \in Process /\ me.pc = "digestRows" /\ me.m \in Messengers /\ c \in Procs /\ me.pc # "idle"
  BY <1>1, ConsumerFacts DEF DigestRows
<1>3. PICK rows : rows = {t \in {Load(n) : n \in me.ids} : t.copy[me.m].status = "PENDING"}
  OBVIOUS
<1>4. me.ids \in SUBSET Notices
  BY <1>2, Fields
<1>5. \A t \in rows : t \in Loaded /\ RowOK(t.copy)
  BY <1>3, <1>4, LoadOK
<1>6. PICK b : b = [me EXCEPT !.pc = "digestSift", !.rows = rows]
  OBVIOUS
<1>7. rows \in SUBSET Loaded
  BY <1>5
<1>8. b \in Process
  BY <1>2, <1>6, <1>7 DEF Process, Pcs
<1>9. b.pc = "digestSift" /\ b.job = me.job /\ b.out = me.out /\ b.copy = me.copy /\ b.rows = rows /\ b.m = me.m
  BY <1>2, <1>6 DEF Process
<1>10. (\A j \in b.out : JobOK(j)) /\ (\A t \in b.rows : RowOK(t.copy)) /\ b.pc \in PlainPcs
  BY <1>2, <1>5, <1>9 DEF HandlerOK, PlainPcs
<1>11. HandlerOK(c, b)
  BY <1>2, <1>8, <1>9, <1>10, Plain
<1>12. ProcOK(proc')
  BY <1>1, <1>2, <1>3, <1>6, <1>11, OneHandler DEF DigestRows
<1> QED BY <1>12 DEF DigestRows, RestOK, redis, history

LEMMA OfDigestSift == ASSUME IInv, NEW c \in Consumers, DigestSift(c), UNCHANGED setup PROVE IInv'
<1> USE DEF IInv
<1>1. PICK me : me = proc[c]
  OBVIOUS
<1>2. HandlerOK(c, me) /\ me \in Process /\ me.pc = "digestSift" /\ me.m \in Messengers /\ c \in Procs /\ me.pc # "idle"
  BY <1>1, ConsumerFacts DEF DigestSift
<1>3. \A t \in me.rows : t \in Loaded /\ RowOK(t.copy) /\ t.id \in Notices
  BY <1>2, Fields, LoadedFacts DEF HandlerOK
<1>4. \A j \in me.out : JobOK(j)
  BY <1>2 DEF HandlerOK
<1>5. PICK drop : drop = {t \in me.rows : Dropped(t, me.at)}
  OBVIOUS
<1>6. CASE drop # {}
  <2>1. PICK t \in drop :
           /\ Update(t.id, me.m, Closed(notice[t.id][me.m], IF Stale(t.id, me.at) THEN "FAILED" ELSE "SKIPPED"))
           /\ Set(c, [me EXCEPT !.rows = me.rows \ {t}])
    BY <1>1, <1>5, <1>6 DEF DigestSift
  <2>2. t \in me.rows /\ t.id \in Notices
    BY <1>3, <1>5
  <2>3. PICK s \in {"FAILED", "SKIPPED"} : s = IF Stale(t.id, me.at) THEN "FAILED" ELSE "SKIPPED"
    OBVIOUS
  <2>4. PICK cell : cell = Closed(notice[t.id][me.m], s)
    OBVIOUS
  <2>5. notice[t.id][me.m] \in Cell
    BY <1>2, <2>2, CellFacts
  <2>6. cell \in Cell /\ CellOK(cell)
    BY <2>3, <2>4, <2>5, ClosedOK
  <2>7. RowsOK(notice')
    BY <1>2, <2>1, <2>2, <2>3, <2>4, <2>6, OneCell
  <2>8. PICK rows : rows = me.rows \ {t}
    OBVIOUS
  <2>9. PICK b : b = [me EXCEPT !.rows = rows]
    OBVIOUS
  <2>10. rows \in SUBSET Loaded
    BY <1>3, <2>8
  <2>11. b \in Process
    BY <1>2, <2>9, <2>10 DEF Process
  <2>12. b.pc = "digestSift" /\ b.job = me.job /\ b.out = me.out /\ b.copy = me.copy /\ b.rows = rows /\ b.m = me.m
    BY <1>2, <2>9 DEF Process
  <2>13. (\A j \in b.out : JobOK(j)) /\ (\A u \in b.rows : RowOK(u.copy)) /\ b.pc \in PlainPcs
    BY <1>3, <1>4, <2>8, <2>12 DEF PlainPcs
  <2>14. HandlerOK(c, b)
    BY <1>2, <2>11, <2>12, <2>13, Plain
  <2>15. ProcOK(proc')
    BY <1>2, <2>1, <2>8, <2>9, <2>14, OneHandler
  <2> QED BY <2>7, <2>15 DEF DigestSift, RestOK, redis, history
<1>7. CASE drop = {}
  <2>1. ASSUME Set(c, [me EXCEPT !.pc = "follow", !.out = {SendJob(t.id, me.m) : t \in me.rows}])
        PROVE  ProcOK(proc')
    <3>1. PICK out : out = {SendJob(t.id, me.m) : t \in me.rows}
      OBVIOUS
    <3>2. \A j \in out : JobOK(j)
      BY <1>2, <1>3, <3>1, SendJobOK
    <3>3. PICK b : b = [me EXCEPT !.pc = "follow", !.out = out]
      OBVIOUS
    <3>4. HandlerOK(c, b)
      BY <1>2, <3>2, <3>3, ToFollow
    <3> QED BY <1>2, <2>1, <3>1, <3>3, <3>4, OneHandler
  <2>2. ASSUME Set(c, [me EXCEPT !.pc = "digestSend", !.ids = {t.id : t \in me.rows}])
        PROVE  ProcOK(proc')
    <3>1. PICK ids : ids = {t.id : t \in me.rows}
      OBVIOUS
    <3>2. ids \in SUBSET Notices
      BY <1>3, <3>1
    <3>3. PICK b : b = [me EXCEPT !.pc = "digestSend", !.ids = ids]
      OBVIOUS
    <3>4. b \in Process
      BY <1>2, <3>2, <3>3 DEF Process, Pcs
    <3>5. b.pc = "digestSend" /\ b.job = me.job /\ b.out = me.out /\ b.copy = me.copy /\ b.rows = me.rows /\ b.m = me.m
      BY <1>2, <3>3 DEF Process
    <3>6. (\A j \in b.out : JobOK(j)) /\ (\A u \in b.rows : RowOK(u.copy)) /\ b.pc \in PlainPcs
      BY <1>3, <1>4, <3>5 DEF PlainPcs
    <3>7. HandlerOK(c, b)
      BY <1>2, <3>4, <3>5, <3>6, Plain
    <3> QED BY <1>2, <2>2, <3>1, <3>3, <3>7, OneHandler
  <2>3. notice' = notice /\ ProcOK(proc')
    BY <1>1, <1>5, <1>7, <2>1, <2>2 DEF DigestSift
  <2> QED BY <2>3 DEF DigestSift, RestOK, redis, history
<1> QED BY <1>6, <1>7

LEMMA OfDigestSend == ASSUME IInv, NEW c \in Consumers, DigestSend(c), UNCHANGED setup PROVE IInv'
<1> USE DEF IInv
<1>1. PICK me : me = proc[c]
  OBVIOUS
<1>2. HandlerOK(c, me) /\ me \in Process /\ me.pc = "digestSend" /\ me.m \in Messengers /\ c \in Procs /\ JobOK(me.job)
  BY <1>1, ConsumerFacts DEF DigestSend
<1>3. PICK sent : sent = {t.id : t \in me.rows}
  OBVIOUS
<1>4. PICK ans \in {"FAILED", "SKIPPED"}, pc \in {"digestSent", "handOn", "digestHold"} :
         Set(c, [me EXCEPT !.ans = ans, !.pc = pc])
  BY <1>1 DEF DigestSend
<1>5. PICK b : b = [me EXCEPT !.ans = ans, !.pc = pc]
  OBVIOUS
<1>6. b \in Process
  BY <1>2, <1>5 DEF Process, Pcs, Statuses
<1>7. /\ b.pc = pc /\ b.ans = ans /\ b.job = me.job /\ b.out = me.out /\ b.copy = me.copy /\ b.rows = me.rows /\ b.m = me.m
  BY <1>2, <1>5 DEF Process
<1>8. HandlerOK(c, b)
  BY <1>2, <1>6, <1>7, Constants DEF HandlerOK, OfSend, OfNotice, OfConsumer
<1>9. ProcOK(proc')
  BY <1>2, <1>4, <1>5, <1>8, OneHandler
<1>10. got' \in [Notices -> 0..2]
  <2>1. got \in [Notices -> 0..2]
    BY DEF RestOK
  <2>2. \A n \in Notices : (IF n \in sent /\ got[n] < 2 THEN got[n] + 1 ELSE got[n]) \in 0..2
    BY <2>1
  <2>3. got' = got \/ got' = [n \in Notices |-> IF n \in sent /\ got[n] < 2 THEN got[n] + 1 ELSE got[n]]
    BY <1>1, <1>3 DEF DigestSend
  <2> QED BY <2>1, <2>2, <2>3
<1>11. tried' \in [Notices -> SUBSET Messengers]
  BY <1>1, <1>2, <1>3 DEF DigestSend, RestOK
<1> QED BY <1>9, <1>10, <1>11 DEF DigestSend, RestOK, redis

LEMMA OfDigestSent == ASSUME IInv, NEW c \in Consumers, DigestSent(c), UNCHANGED setup PROVE IInv'
<1> USE DEF IInv
<1>1. PICK me : me = proc[c]
  OBVIOUS
<1>2. HandlerOK(c, me) /\ me \in Process /\ me.pc = "digestSent" /\ me.m \in Messengers /\ c \in Procs /\ me.pc # "idle"
  BY <1>1, ConsumerFacts DEF DigestSent
<1>3. \A t \in me.rows : t \in Loaded /\ RowOK(t.copy) /\ t.id \in Notices
  BY <1>2, Fields, LoadedFacts DEF HandlerOK
<1>4. CASE me.ids = {}
  <2>1. PICK b : b = [me EXCEPT !.pc = "follow"]
    OBVIOUS
  <2>2. HandlerOK(c, b)
    BY <1>2, <2>1, ToFollowOn
  <2>3. ProcOK(proc')
    BY <1>1, <1>2, <1>4, <2>1, <2>2, OneHandler DEF DigestSent
  <2>4. now + DigestWindow \in Nat
    BY DEF RestOK, DigestWindow, SetupOK
  <2>5. RedisOK(window', held', scheduled')
    BY <1>1, <1>2, <1>4, <2>4 DEF DigestSent, RedisOK
  <2> QED BY <1>1, <1>4, <2>3, <2>5 DEF DigestSent, RestOK, history
<1>5. CASE me.ids # {}
  <2>1. PICK t \in {r \in me.rows : r.id \in me.ids} :
           /\ notice' = [notice EXCEPT ![t.id] =
                 [m \in Messengers |->
                    LET cur == notice[t.id][m]
                    IN  IF m = me.m THEN Closed(cur, "SENT")
                        ELSE IF m \in Pending(t.copy) THEN Closed(cur, "SKIPPED") ELSE cur]]
           /\ Set(c, [me EXCEPT !.ids = me.ids \ {t.id}])
           /\ UNCHANGED window
    BY <1>1, <1>5 DEF DigestSent
  <2>2. t.id \in Notices
    BY <1>3, <2>1
  <2>3. PICK row : row = [m \in Messengers |-> IF m = me.m THEN Closed(notice[t.id][m], "SENT")
                          ELSE IF m \in Pending(t.copy) THEN Closed(notice[t.id][m], "SKIPPED") ELSE notice[t.id][m]]
    OBVIOUS
  <2>4. notice' = [notice EXCEPT ![t.id] = row]
    BY <2>1, <2>3
  <2>5. ASSUME NEW m \in Messengers PROVE row[m] \in Cell /\ CellOK(row[m])
    <3>1. PICK cur : cur = notice[t.id][m]
      OBVIOUS
    <3>2. cur \in Cell /\ CellOK(cur)
      BY <2>2, <3>1, CellFacts
    <3>3. Closed(cur, "SENT") \in Cell /\ CellOK(Closed(cur, "SENT"))
      BY <3>2, ClosedOK
    <3>4. Closed(cur, "SKIPPED") \in Cell /\ CellOK(Closed(cur, "SKIPPED"))
      BY <3>2, ClosedOK
    <3>5. row[m] \in {cur, Closed(cur, "SENT"), Closed(cur, "SKIPPED")}
      BY <2>3, <3>1
    <3> QED BY <3>2, <3>3, <3>4, <3>5
  <2>6. row \in Row /\ RowOK(row)
    BY <2>3, <2>5 DEF Row, RowOK
  <2>7. RowsOK(notice')
    BY <2>2, <2>4, <2>6, OneRow
  <2>8. PICK ids : ids = me.ids \ {t.id}
    OBVIOUS
  <2>9. ids \in SUBSET Notices
    BY <1>2, <2>8, Fields
  <2>10. PICK b : b = [me EXCEPT !.ids = ids]
    OBVIOUS
  <2>11. b \in Process
    BY <1>2, <2>9, <2>10 DEF Process
  <2>12. b.pc = "digestSent" /\ b.job = me.job /\ b.out = me.out /\ b.copy = me.copy /\ b.rows = me.rows /\ b.m = me.m
    BY <1>2, <2>10 DEF Process
  <2>13. (\A j \in b.out : JobOK(j)) /\ (\A u \in b.rows : RowOK(u.copy)) /\ b.pc \in PlainPcs
    BY <1>2, <2>12 DEF PlainPcs, HandlerOK
  <2>14. HandlerOK(c, b)
    BY <1>2, <2>11, <2>12, <2>13, Plain
  <2>15. ProcOK(proc')
    BY <1>2, <2>1, <2>8, <2>10, <2>14, OneHandler
  <2> QED BY <2>1, <2>7, <2>15 DEF DigestSent, RestOK, history
<1> QED BY <1>4, <1>5

LEMMA OfHandOn == ASSUME IInv, NEW c \in Consumers, HandOn(c), UNCHANGED setup PROVE IInv'
<1> USE DEF IInv
<1>1. PICK me : me = proc[c]
  OBVIOUS
<1>2. HandlerOK(c, me) /\ me \in Process /\ me.pc = "handOn" /\ me.m \in Messengers /\ c \in Procs /\ JobOK(me.job)
  BY <1>1, ConsumerFacts DEF HandOn
<1>3. (\A t \in me.rows : t \in Loaded /\ RowOK(t.copy) /\ t.id \in Notices) /\ me.ans \in {"FAILED", "SKIPPED"}
  BY <1>2, Fields, LoadedFacts DEF HandlerOK
<1>4. PICK t \in me.rows :
         /\ Update(t.id, me.m, Closed(notice[t.id][me.m], me.ans))
         /\ Set(c, [me EXCEPT !.rows = me.rows \ {t}, !.out = me.out \cup NextJobs(t.id, t.copy, me.m),
                              !.pc = IF me.rows = {t} THEN "follow" ELSE "handOn"])
  BY <1>1 DEF HandOn
<1>5. PICK cell : cell = Closed(notice[t.id][me.m], me.ans)
  OBVIOUS
<1>6. t.id \in Notices
  BY <1>3
<1>7. notice[t.id][me.m] \in Cell
  BY <1>2, <1>6, CellFacts
<1>8. cell \in Cell /\ CellOK(cell)
  BY <1>3, <1>5, <1>7, ClosedOK
<1>9. RowsOK(notice')
  BY <1>2, <1>4, <1>5, <1>6, <1>8, OneCell
<1>10. PICK out : out = me.out \cup NextJobs(t.id, t.copy, me.m)
  OBVIOUS
<1>11. \A j \in NextJobs(t.id, t.copy, me.m) : JobOK(j)
  BY <1>6, NextJobsOK
<1>12. \A j \in out : JobOK(j)
  BY <1>2, <1>10, <1>11 DEF HandlerOK
<1>13. PICK rows : rows = me.rows \ {t}
  OBVIOUS
<1>14. PICK pc \in {"follow", "handOn"} : pc = IF me.rows = {t} THEN "follow" ELSE "handOn"
  OBVIOUS
<1>15. PICK b : b = [me EXCEPT !.rows = rows, !.out = out, !.pc = pc]
  OBVIOUS
<1>16. rows \in SUBSET Loaded /\ out \in SUBSET Job
  BY <1>3, <1>12, <1>13 DEF JobOK
<1>17. b \in Process
  BY <1>2, <1>15, <1>16 DEF Process, Pcs
<1>18. b.pc = pc /\ b.job = me.job /\ b.out = out /\ b.copy = me.copy /\ b.rows = rows /\ b.m = me.m /\ b.ans = me.ans
  BY <1>2, <1>15 DEF Process
<1>19. \A u \in rows : RowOK(u.copy)
  BY <1>3, <1>13
<1>20. HandlerOK(c, b)
  BY <1>2, <1>3, <1>12, <1>17, <1>18, <1>19, Constants DEF HandlerOK, OfSend, OfNotice, OfConsumer
<1>21. ProcOK(proc')
  BY <1>2, <1>4, <1>10, <1>13, <1>14, <1>15, <1>20, OneHandler
<1> QED BY <1>9, <1>21 DEF HandOn, RestOK, redis, history

LEMMA OfDigestHold == ASSUME IInv, NEW c \in Consumers, DigestHold(c), UNCHANGED setup PROVE IInv'
<1> USE DEF IInv
<1>1. PICK me : me = proc[c]
  OBVIOUS
<1>2. HandlerOK(c, me) /\ me \in Process /\ me.pc = "digestHold" /\ me.m \in Messengers /\ c \in Procs /\ me.pc # "idle"
  BY <1>1, ConsumerFacts DEF DigestHold
<1>3. PICK b : b = [me EXCEPT !.pc = "digestLater"]
  OBVIOUS
<1>4. b \in Process
  BY <1>2, <1>3 DEF Process, Pcs
<1>5. b.pc = "digestLater" /\ b.job = me.job /\ b.out = me.out /\ b.copy = me.copy /\ b.rows = me.rows /\ b.m = me.m
  BY <1>2, <1>3 DEF Process
<1>6. (\A j \in b.out : JobOK(j)) /\ (\A t \in b.rows : RowOK(t.copy)) /\ b.pc \in PlainPcs
  BY <1>2, <1>5 DEF HandlerOK, PlainPcs
<1>7. HandlerOK(c, b)
  BY <1>2, <1>4, <1>5, <1>6, Plain
<1>8. ProcOK(proc')
  BY <1>1, <1>2, <1>3, <1>7, OneHandler DEF DigestHold
<1>9. PICK ids : ids = {t.id : t \in me.rows}
  OBVIOUS
<1>10. ids \in SUBSET Notices
  BY <1>2, <1>9, Fields, LoadedFacts
<1>11. RedisOK(window', held', scheduled')
  BY <1>1, <1>2, <1>9, <1>10 DEF DigestHold, RedisOK
<1> QED BY <1>8, <1>11 DEF DigestHold, RestOK, history

LEMMA OfDigestLater == ASSUME IInv, NEW c \in Consumers, DigestLater(c), UNCHANGED setup PROVE IInv'
<1> USE DEF IInv
<1>1. PICK me : me = proc[c]
  OBVIOUS
<1>2. HandlerOK(c, me) /\ me.pc = "digestLater" /\ me.m \in Messengers /\ c \in Procs /\ me.pc # "idle"
  BY <1>1, ConsumerFacts DEF DigestLater
<1>3. PICK out : out = {DigestJob(me.m, now + 1)}
  OBVIOUS
<1>4. now + 1 \in Nat
  BY DEF RestOK
<1>5. \A j \in out : JobOK(j)
  BY <1>2, <1>3, <1>4, DigestJobOK
<1>6. PICK b : b = [me EXCEPT !.pc = "follow", !.out = out]
  OBVIOUS
<1>7. HandlerOK(c, b)
  BY <1>2, <1>5, <1>6, ToFollow
<1>8. ProcOK(proc')
  BY <1>1, <1>2, <1>3, <1>6, <1>7, OneHandler DEF DigestLater
<1>9. RedisOK(window', held', scheduled')
  BY <1>1, <1>2 DEF DigestLater, RedisOK
<1> QED BY <1>8, <1>9 DEF DigestLater, RestOK, history

-----------------------------------------------------------------------------
(* The retry worker. *)

LEMMA WorkerFacts == ASSUME IInv PROVE "worker" \in Procs /\ HandlerOK("worker", proc["worker"]) /\ proc["worker"] \in Process
BY HandlerFacts DEF Procs

LEMMA OfTick == ASSUME IInv, Tick, UNCHANGED setup PROVE IInv'
<1> USE DEF IInv
<1>1. "worker" \in Procs /\ HandlerOK("worker", Idle) /\ Idle \in Process
  BY IdleOK DEF Procs, HandlerOK
<1>2. PICK b : b = [Idle EXCEPT !.pc = "due", !.at = now]
  OBVIOUS
<1>3. now \in Nat
  BY DEF RestOK
<1>4. b \in Process
  BY <1>1, <1>2, <1>3 DEF Process, Pcs
<1>5. b.pc = "due" /\ b.out = {} /\ b.rows = {} /\ b.copy = Idle.copy
  BY <1>1, <1>2 DEF Process, Idle
<1>6. HandlerOK("worker", b)
  BY <1>1, <1>4, <1>5, Constants DEF HandlerOK, OfSend, OfNotice, OfConsumer, OfWorker
<1>7. ProcOK(proc')
  BY <1>1, <1>2, <1>6, OneHandler DEF Tick
<1>8. ASSUME NEW n \in Notices PROVE FailExpired(n) \in Row /\ RowOK(FailExpired(n))
  <2>1. PICK row : row = FailExpired(n)
    OBVIOUS
  <2>2. ASSUME NEW m \in Messengers PROVE row[m] \in Cell /\ CellOK(row[m])
    <3>1. PICK cur : cur = notice[n][m]
      OBVIOUS
    <3>2. cur \in Cell /\ CellOK(cur)
      BY <3>1, CellFacts
    <3>3. Closed(cur, "FAILED") \in Cell /\ CellOK(Closed(cur, "FAILED"))
      BY <3>2, ClosedOK
    <3>4. row[m] \in {cur, Closed(cur, "FAILED")}
      BY <2>1, <3>1 DEF FailExpired
    <3> QED BY <3>2, <3>3, <3>4
  <2>3. row \in [Messengers -> Cell]
    BY <2>1, <2>2 DEF FailExpired
  <2> QED BY <2>1, <2>2, <2>3 DEF Row, RowOK
<1>9. RowsOK(notice')
  BY <1>8 DEF Tick, RowsOK
<1> QED BY <1>7, <1>9 DEF Tick, RestOK, redis, history

LEMMA OfFindDue == ASSUME IInv, FindDue, UNCHANGED setup PROVE IInv'
<1> USE DEF IInv
<1>1. PICK me : me = proc["worker"]
  OBVIOUS
<1>2. "worker" \in Procs /\ HandlerOK("worker", me) /\ me \in Process /\ me.pc = "due"
  BY <1>1, WorkerFacts DEF FindDue
<1>3. PICK rows : rows = {Load(n) : n \in {k \in Notices : Due(k, me.at)}}
  OBVIOUS
<1>4. \A t \in rows : t \in Loaded /\ RowOK(t.copy)
  BY <1>3, LoadOK
<1>5. PICK b : b = [me EXCEPT !.pc = "sweep", !.rows = rows]
  OBVIOUS
<1>6. rows \in SUBSET Loaded
  BY <1>4
<1>7. b \in Process
  BY <1>2, <1>5, <1>6 DEF Process, Pcs
<1>8. b.pc = "sweep" /\ b.out = me.out /\ b.rows = rows /\ b.copy = me.copy
  BY <1>2, <1>5 DEF Process
<1>9. HandlerOK("worker", b)
  BY <1>2, <1>4, <1>7, <1>8, Constants DEF HandlerOK, OfSend, OfNotice, OfConsumer, OfWorker
<1>10. Set("worker", Idle) \/ Set("worker", b)
  BY <1>1, <1>3, <1>5 DEF FindDue
<1>11. ProcOK(proc')
  BY <1>2, <1>9, <1>10, IdleOK, OneHandler
<1> QED BY <1>11 DEF FindDue, RestOK, redis, history

LEMMA OfSweepNext == ASSUME IInv, SweepNext, UNCHANGED setup PROVE IInv'
<1> USE DEF IInv
<1>1. PICK me : me = proc["worker"]
  OBVIOUS
<1>2. "worker" \in Procs /\ HandlerOK("worker", me) /\ me \in Process /\ me.pc = "sweep"
  BY <1>1, WorkerFacts DEF SweepNext
<1>3. PICK t \in me.rows :
        Set("worker", [me EXCEPT !.pc = "scan", !.rows = me.rows \ {t}, !.id = t.id, !.copy = t.copy,
                                 !.open = t.open, !.m = 1, !.has = AnySent(t.copy)])
  BY <1>1 DEF SweepNext
<1>4. t \in Loaded /\ RowOK(t.copy)
  BY <1>2, Fields DEF HandlerOK
<1>5. t.id \in Notices /\ t.copy \in Row /\ t.open \in BOOLEAN
  BY <1>4 DEF Loaded
<1>6. PICK has \in BOOLEAN : has = AnySent(t.copy)
  BY DEF AnySent
<1>7. PICK rows : rows = me.rows \ {t}
  OBVIOUS
<1>8. rows \in SUBSET Loaded /\ \A u \in rows : RowOK(u.copy)
  BY <1>2, <1>7, Fields DEF HandlerOK
<1>9. PICK b : b = [me EXCEPT !.pc = "scan", !.rows = rows, !.id = t.id, !.copy = t.copy, !.open = t.open, !.m = 1, !.has = has]
  OBVIOUS
<1>10. 1 \in 1..(M + 1)
  BY Constants
<1>11. b \in Process
  BY <1>2, <1>5, <1>8, <1>9, <1>10 DEF Process, Pcs
<1>12. b.pc = "scan" /\ b.out = me.out /\ b.rows = rows /\ b.copy = t.copy /\ b.id = t.id
  BY <1>2, <1>9 DEF Process
<1>13. HandlerOK("worker", b)
  BY <1>2, <1>4, <1>5, <1>8, <1>11, <1>12, Constants DEF HandlerOK, OfSend, OfNotice, OfConsumer, OfWorker
<1>14. ProcOK(proc')
  BY <1>2, <1>3, <1>6, <1>7, <1>9, <1>13, OneHandler
<1> QED BY <1>14 DEF SweepNext, RestOK, redis, history

LEMMA OfScan == ASSUME IInv, Scan("worker"), UNCHANGED setup PROVE IInv'
<1> USE DEF IInv
<1>1. PICK me : me = proc["worker"]
  OBVIOUS
<1>2. "worker" \in Procs /\ HandlerOK("worker", me) /\ me \in Process /\ me.pc = "scan"
  BY <1>1, WorkerFacts DEF Scan
<1>3. me.id \in Notices /\ RowOK(me.copy) /\ me.copy \in Row
  BY <1>2, Fields DEF HandlerOK, OfNotice
<1>4. PICK left : left = {m \in Pending(me.copy) : m >= me.m}
  OBVIOUS
<1>5. left \in SUBSET Messengers
  BY <1>4 DEF Pending
<1>6. CASE left = {}
  <2>1. PICK b : b = [me EXCEPT !.pc = "sweep"]
    OBVIOUS
  <2>2. b \in Process
    BY <1>2, <2>1 DEF Process, Pcs
  <2>3. b.pc = "sweep" /\ b.out = me.out /\ b.rows = me.rows /\ b.copy = me.copy
    BY <1>2, <2>1 DEF Process
  <2>4. HandlerOK("worker", b)
    BY <1>2, <2>2, <2>3, Constants DEF HandlerOK, OfSend, OfNotice, OfConsumer, OfWorker
  <2>5. (Set("worker", Idle) \/ Set("worker", b)) /\ notice' = notice
    BY <1>1, <1>4, <1>6, <2>1 DEF Scan
  <2>6. ProcOK(proc')
    BY <1>2, <2>4, <2>5, IdleOK, OneHandler
  <2> QED BY <2>5, <2>6 DEF Scan, RestOK, redis, history
<1>7. CASE left # {}
  <2>1. PICK k : k = First(left)
    OBVIOUS
  <2>2. k \in left /\ k \in Messengers
    BY <1>5, <1>7, <2>1, FirstFacts
  <2>3. me.copy[k].status = "PENDING"
    BY <1>4, <2>2 DEF Pending
  <2>4. k \in 1..(M + 1) /\ k + 1 \in 1..(M + 1)
    BY <2>2, Constants DEF Messengers
  <2>5. CASE me.has
    <3>1. PICK cell : cell = Closed(notice[me.id][k], "SKIPPED")
      OBVIOUS
    <3>2. notice[me.id][k] \in Cell
      BY <1>3, <2>2, CellFacts
    <3>3. cell \in Cell /\ CellOK(cell)
      BY <3>1, <3>2, ClosedOK
    <3>4. Update(me.id, k, cell) /\ Set("worker", [me EXCEPT !.m = k + 1])
      BY <1>1, <1>4, <1>7, <2>1, <2>5, <3>1 DEF Scan
    <3>5. RowsOK(notice')
      BY <1>3, <2>2, <3>3, <3>4, OneCell
    <3>6. PICK b : b = [me EXCEPT !.m = k + 1]
      OBVIOUS
    <3>7. b \in Process
      BY <1>2, <2>4, <3>6 DEF Process
    <3>8. b.pc = "scan" /\ b.out = me.out /\ b.rows = me.rows /\ b.copy = me.copy /\ b.id = me.id
      BY <1>2, <3>6 DEF Process
    <3>9. HandlerOK("worker", b)
      BY <1>2, <1>3, <3>7, <3>8, Constants DEF HandlerOK, OfSend, OfNotice, OfConsumer, OfWorker
    <3>10. ProcOK(proc')
      BY <1>2, <3>4, <3>6, <3>9, OneHandler
    <3> QED BY <3>5, <3>10 DEF Scan, RestOK, redis, history
  <2>6. CASE ~me.has /\ Ready(me.copy[k], me.at)
    <3>1. PICK b : b = [me EXCEPT !.pc = "send", !.m = k]
      OBVIOUS
    <3>2. b \in Process
      BY <1>2, <2>4, <3>1 DEF Process, Pcs
    <3>3. b.pc = "send" /\ b.out = me.out /\ b.rows = me.rows /\ b.copy = me.copy /\ b.id = me.id /\ b.m = k
      BY <1>2, <3>1 DEF Process
    <3>4. HandlerOK("worker", b)
      BY <1>2, <1>3, <2>2, <2>3, <3>2, <3>3, Constants DEF HandlerOK, OfSend, OfNotice, OfConsumer, OfWorker
    <3>5. Set("worker", b) /\ notice' = notice
      BY <1>1, <1>4, <1>7, <2>1, <2>6, <3>1 DEF Scan
    <3>6. ProcOK(proc')
      BY <1>2, <3>4, <3>5, OneHandler
    <3> QED BY <3>5, <3>6 DEF Scan, RestOK, redis, history
  <2>7. CASE ~me.has /\ ~Ready(me.copy[k], me.at)
    <3>1. PICK b : b = [me EXCEPT !.has = TRUE, !.m = k + 1]
      OBVIOUS
    <3>2. b \in Process
      BY <1>2, <2>4, <3>1 DEF Process
    <3>3. b.pc = "scan" /\ b.out = me.out /\ b.rows = me.rows /\ b.copy = me.copy /\ b.id = me.id
      BY <1>2, <3>1 DEF Process
    <3>4. HandlerOK("worker", b)
      BY <1>2, <1>3, <3>2, <3>3, Constants DEF HandlerOK, OfSend, OfNotice, OfConsumer, OfWorker
    <3>5. Set("worker", b) /\ notice' = notice
      BY <1>1, <1>4, <1>7, <2>1, <2>7, <3>1 DEF Scan
    <3>6. ProcOK(proc')
      BY <1>2, <3>4, <3>5, OneHandler
    <3> QED BY <3>5, <3>6 DEF Scan, RestOK, redis, history
  <2> QED BY <2>5, <2>6, <2>7
<1> QED BY <1>6, <1>7

-----------------------------------------------------------------------------
(* What goes wrong. *)

LEMMA FaultOK == ASSUME IInv, NEW kind, Fault(kind) PROVE faults' \in 0..MaxFaults
BY Constants DEF IInv, RestOK, Fault

LEMMA ThrownOK == ASSUME IInv, NEW c \in Consumers, proc[c].pc # "idle" PROVE HandlerOK(c, Thrown(proc[c]))
<1>1. PICK me : me = proc[c]
  OBVIOUS
<1>2. HandlerOK(c, me) /\ me \in Process /\ JobOK(me.job) /\ c \in Procs /\ me.pc # "idle"
  BY <1>1, ConsumerFacts
<1>3. me.job.tries + 1 \in Nat /\ now + 1 \in Nat
  BY <1>2 DEF JobOK, Job, IInv, RestOK
<1>4. PICK j : j = [me.job EXCEPT !.tries = me.job.tries + 1, !.at = now + 1]
  OBVIOUS
<1>5. JobOK(j)
  BY <1>2, <1>3, <1>4, AgainOK
<1>6. \A i \in {j} : JobOK(i)
  BY <1>5
<1>7. HandlerOK(c, [me EXCEPT !.pc = "follow", !.out = {j}])
  BY <1>2, <1>6, ToFollow
<1>8. Thrown(me) = Idle \/ Thrown(me) = [me EXCEPT !.pc = "follow", !.out = {j}]
  BY <1>4 DEF Thrown
<1> QED BY <1>1, <1>2, <1>7, <1>8, IdleOK

\* A summary under way is held again.
LEMMA HeldAgain ==
    ASSUME IInv, NEW c \in Consumers, proc[c].pc # "idle"
    PROVE  HandlerOK(c, [proc[c] EXCEPT !.pc = "digestHold"])
<1>1. PICK me : me = proc[c]
  OBVIOUS
<1>2. HandlerOK(c, me) /\ me \in Process /\ me.pc # "idle"
  BY <1>1, ConsumerFacts
<1>3. PICK b : b = [me EXCEPT !.pc = "digestHold"]
  OBVIOUS
<1>4. b \in Process
  BY <1>2, <1>3 DEF Process, Pcs
<1>5. b.pc = "digestHold" /\ b.job = me.job /\ b.out = me.out /\ b.copy = me.copy /\ b.rows = me.rows /\ b.m = me.m
  BY <1>2, <1>3 DEF Process
<1>6. (\A j \in b.out : JobOK(j)) /\ (\A t \in b.rows : RowOK(t.copy)) /\ b.pc \in PlainPcs
  BY <1>2, <1>5 DEF HandlerOK, PlainPcs
<1>7. HandlerOK(c, b)
  BY <1>2, <1>4, <1>5, <1>6, Plain
<1> QED BY <1>1, <1>3, <1>7

LEMMA OfDatabaseFails == ASSUME IInv, NEW p \in Procs, DatabaseFails(p), UNCHANGED setup PROVE IInv'
<1> USE DEF IInv
<1>1. PICK me : me = proc[p]
  OBVIOUS
<1>2. HandlerOK(p, me) /\ me \in Process /\ me.pc # "idle"
  BY <1>1, HandlerFacts DEF DatabaseFails
<1>3. ASSUME me.pc = "record", Set(p, [me EXCEPT !.ans = "temporary"]) PROVE ProcOK(proc')
  <2>1. PICK b : b = [me EXCEPT !.ans = "temporary"]
    OBVIOUS
  <2>2. b \in Process
    BY <1>2, <2>1 DEF Process, AllAnswers
  <2>3. /\ b.pc = "record" /\ b.ans = "temporary" /\ b.job = me.job /\ b.out = me.out /\ b.copy = me.copy /\ b.rows = me.rows
        /\ b.id = me.id /\ b.m = me.m
    BY <1>2, <1>3, <2>1 DEF Process
  <2>4. HandlerOK(p, b)
    BY <1>2, <1>3, <2>2, <2>3, Constants DEF HandlerOK, OfSend, OfNotice, OfConsumer, OfWorker, AllAnswers
  <2> QED BY <1>3, <2>1, <2>4, OneHandler
<1>4. ASSUME me.pc \in {"digestSend", "digestSent"}, Set(p, [me EXCEPT !.pc = "digestHold"]) PROVE ProcOK(proc')
  <2>1. p \in Consumers
    BY <1>2, <1>4 DEF HandlerOK, OfWorker, Procs
  <2>2. PICK b : b = [me EXCEPT !.pc = "digestHold"]
    OBVIOUS
  <2>3. HandlerOK(p, b)
    BY <1>1, <1>2, <2>1, <2>2, HeldAgain
  <2> QED BY <1>4, <2>2, <2>3, OneHandler
<1>5. ASSUME Set(p, IF p = "worker" THEN Idle ELSE Thrown(me)) PROVE ProcOK(proc')
  <2>1. PICK b : b = IF p = "worker" THEN Idle ELSE Thrown(me)
    OBVIOUS
  <2>2. HandlerOK(p, b)
    BY <1>1, <1>2, <2>1, IdleOK, ThrownOK DEF Procs
  <2> QED BY <1>5, <2>1, <2>2, OneHandler
<1>6. ProcOK(proc')
  BY <1>1, <1>3, <1>4, <1>5 DEF DatabaseFails
<1>7. faults' \in 0..MaxFaults
  BY FaultOK DEF DatabaseFails
<1> QED BY <1>6, <1>7 DEF DatabaseFails, RestOK, redis, history

LEMMA OfRedisFails == ASSUME IInv, NEW c \in Consumers, RedisFails(c), UNCHANGED setup PROVE IInv'
<1> USE DEF IInv
<1>1. PICK me : me = proc[c]
  OBVIOUS
<1>2. HandlerOK(c, me) /\ me \in Process /\ me.pc # "idle" /\ c \in Procs
  BY <1>1, ConsumerFacts DEF RedisFails
<1>3. ASSUME me.pc \in {"window", "hold", "schedule"}, Set(c, [me EXCEPT !.pc = "send"]) PROVE ProcOK(proc')
  <2>1. PICK b : b = [me EXCEPT !.pc = "send"]
    OBVIOUS
  <2>2. b \in Process
    BY <1>2, <2>1 DEF Process, Pcs
  <2>3. /\ b.pc = "send" /\ b.job = me.job /\ b.out = me.out /\ b.copy = me.copy /\ b.rows = me.rows
        /\ b.id = me.id /\ b.m = me.m
    BY <1>2, <2>1 DEF Process
  <2>4. HandlerOK(c, b)
    BY <1>2, <1>3, <2>2, <2>3, Constants DEF HandlerOK, OfSend, OfNotice, OfConsumer
  <2> QED BY <1>2, <1>3, <2>1, <2>4, OneHandler
<1>4. ASSUME Set(c, [me EXCEPT !.pc = "digestHold"]) PROVE ProcOK(proc')
  <2>1. PICK b : b = [me EXCEPT !.pc = "digestHold"]
    OBVIOUS
  <2>2. HandlerOK(c, b)
    BY <1>1, <1>2, <2>1, HeldAgain
  <2> QED BY <1>2, <1>4, <2>1, <2>2, OneHandler
<1>5. ASSUME Set(c, Thrown(me)) PROVE ProcOK(proc')
  <2>1. PICK b : b = Thrown(me)
    OBVIOUS
  <2>2. HandlerOK(c, b)
    BY <1>1, <1>2, <2>1, ThrownOK
  <2> QED BY <1>2, <1>5, <2>1, <2>2, OneHandler
<1>6. ProcOK(proc')
  BY <1>1, <1>3, <1>4, <1>5 DEF RedisFails
<1>7. faults' \in 0..MaxFaults
  BY FaultOK DEF RedisFails
<1> QED BY <1>6, <1>7 DEF RedisFails, RestOK, redis, history

LEMMA OfPublishFails == ASSUME IInv, NEW c \in Consumers, PublishFails(c), UNCHANGED setup PROVE IInv'
<1> USE DEF IInv
<1>1. PICK j : j = proc[c].job
  OBVIOUS
<1>2. c \in Procs /\ JobOK(j)
  BY <1>1, ConsumerFacts DEF PublishFails
<1>3. QueueOK(queue')
  BY <1>1, <1>2, OneJob DEF PublishFails
<1>4. ProcOK(proc')
  BY <1>2, IdleOK, OneHandler DEF PublishFails
<1>5. faults' \in 0..MaxFaults
  BY FaultOK DEF PublishFails
<1> QED BY <1>3, <1>4, <1>5 DEF PublishFails, RestOK, redis, history

LEMMA UnacknowledgedOK == ASSUME IInv PROVE QueueOK(Unacknowledged)
<1>1. PICK busy : busy = {c \in Consumers : proc[c].pc # "idle"}
  OBVIOUS
<1>2. PICK jobs : jobs = {proc[c].job : c \in busy}
  OBVIOUS
<1>3. PICK bag : bag = Unacknowledged
  OBVIOUS
<1>4. bag = [j \in jobs |-> Cardinality({c \in busy : proc[c].job = j})]
  BY <1>1, <1>2, <1>3 DEF Unacknowledged
<1>5. ASSUME NEW j \in jobs PROVE bag[j] \in {n \in Nat : n > 0}
  <2>1. PICK S : S = {c \in busy : proc[c].job = j}
    OBVIOUS
  <2>2. S \subseteq Consumers /\ S # {}
    BY <1>1, <1>2, <2>1
  <2>3. IsFiniteSet(S)
    BY <2>2, Constants, FS_Subset
  <2>4. Cardinality(S) \in Nat /\ Cardinality(S) # 0
    BY <2>2, <2>3, FS_CardinalityType, FS_EmptySet
  <2>5. Cardinality(S) > 0
    BY <2>4
  <2>6. bag[j] = Cardinality(S)
    BY <1>4, <2>1
  <2> QED BY <2>4, <2>5, <2>6
<1>6. DOMAIN bag = jobs /\ bag \in [jobs -> {n \in Nat : n > 0}]
  BY <1>4, <1>5
<1>7. \A j \in jobs : JobOK(j)
  BY <1>1, <1>2, ConsumerFacts
<1> QED BY <1>3, <1>6, <1>7 DEF QueueOK, IsABag, BagToSet

LEMMA OfCrash == ASSUME IInv, Crash, UNCHANGED setup PROVE IInv'
<1> USE DEF IInv
<1>1. PICK bag : bag = Unacknowledged
  OBVIOUS
<1>2. QueueOK(bag)
  BY <1>1, UnacknowledgedOK
<1>3. IsABag(queue (+) bag) /\ BagToSet(queue (+) bag) = BagToSet(queue) \cup BagToSet(bag)
  BY <1>2, AddBag DEF QueueOK
<1>4. queue' = queue (+) bag
  BY <1>1 DEF Crash
<1>5. QueueOK(queue')
  BY <1>2, <1>3, <1>4 DEF QueueOK
<1>6. \A p \in Procs : HandlerOK(p, Idle) /\ Idle \in Process
  BY IdleOK DEF HandlerOK
<1>7. ProcOK(proc')
  BY <1>6 DEF Crash, ProcOK
<1>8. AnnOK(ann')
  BY Constants DEF Crash, AnnOK
<1>9. faults' \in 0..MaxFaults
  BY FaultOK DEF Crash
<1> QED BY <1>5, <1>7, <1>8, <1>9 DEF Crash, RestOK, redis, history

-----------------------------------------------------------------------------
(* The theorems. *)

LEMMA Begin == Init => IInv
<1> SUFFICES ASSUME Init PROVE IInv
  OBVIOUS
<1>1. SetupOK(setup)
  BY SetupFacts DEF Init
<1>2. "worker" \in Procs
  BY DEF Procs
<1>3. HandlerOK("worker", Idle)
  BY <1>2, IdleOK
<1>4. Unset \in Row /\ RowOK(Unset)
  <2>1. Idle \in Process /\ RowOK(Idle.copy) /\ Idle.copy = Unset
    BY <1>3 DEF HandlerOK, Idle
  <2> QED BY <2>1 DEF Process
<1>5. RowsOK(notice)
  BY <1>4 DEF Init, RowsOK
<1>6. QueueOK(queue)
  BY DEF Init, QueueOK, EmptyBag, IsABag, BagToSet, SetToBag
<1>7. \A p \in Procs : HandlerOK(p, Idle) /\ Idle \in Process
  BY IdleOK DEF HandlerOK
<1>8. ProcOK(proc)
  BY <1>7 DEF Init, ProcOK
<1>9. RedisOK(window, held, scheduled)
  <2>1. (IF DigestWindow = 0 THEN NoTime ELSE 1 + DigestWindow) \in Nat /\ NoTime \in Nat
    BY <1>1 DEF SetupOK, DigestWindow, NoTime
  <2> QED BY <2>1 DEF Init, RedisOK
<1>10. AnnOK(ann)
  BY Constants DEF Init, AnnOK
<1>11. RestOK
  BY <1>1, Constants DEF Init, RestOK, NoTime, SetupOK
<1> QED BY <1>1, <1>5, <1>6, <1>8, <1>9, <1>10, <1>11 DEF IInv

LEMMA Keep == IInv /\ [Next]_vars => IInv'
<1> SUFFICES ASSUME IInv, [Next]_vars PROVE IInv'
  OBVIOUS
<1>1. CASE UNCHANGED vars
  BY <1>1 DEF vars, IInv, RestOK
<1>2. CASE Next
  <2>1. Step /\ UNCHANGED setup
    BY <1>2 DEF Next
  <2>2. ASSUME NEW n \in Notices, Announce(n) \/ AnnouncerStep(n) PROVE IInv'
    BY <2>1, <2>2, OfAnnounce, OfAnnounceRows, OfAnnounceQueue, OfScheduleRetry DEF AnnouncerStep
  <2>3. ASSUME NEW n \in Notices, LoadTaken(n) PROVE IInv'
    BY <2>1, <2>3 DEF LoadTaken, IInv, RestOK, redis, history
  <2>4. ASSUME NEW c \in Consumers, ConsumerStep(c) PROVE IInv'
    <3>1. c \in Procs
      BY DEF Procs
    <3>2. CASE \E j \in BagToSet(queue) : Take(c, j)
      BY <2>1, <3>2, OfTake
    <3>3. CASE Close(c) \/ Send(c) \/ Record(c) \/ SkipOthers(c) \/ Follow(c)
      BY <2>1, <3>1, <3>3, OfClose, OfSendStep, OfRecord, OfSkipOthers, OfFollow
    <3>4. CASE DigestWindowStep(c) \/ Hold(c) \/ Schedule(c) \/ DigestRead(c) \/ DigestClear(c)
      BY <2>1, <3>4, OfDigestWindowStep, OfHold, OfSchedule, OfDigestRead, OfDigestClear
    <3>5. CASE DigestRows(c) \/ DigestSift(c) \/ DigestSend(c)
      BY <2>1, <3>5, OfDigestRows, OfDigestSift, OfDigestSend
    <3>6. CASE DigestSent(c) \/ HandOn(c) \/ DigestHold(c) \/ DigestLater(c)
      BY <2>1, <3>6, OfDigestSent, OfHandOn, OfDigestHold, OfDigestLater
    <3> QED BY <2>4, <3>2, <3>3, <3>4, <3>5, <3>6 DEF ConsumerStep
  <2>5. ASSUME NEW c \in Consumers, RedisFails(c) \/ PublishFails(c) PROVE IInv'
    BY <2>1, <2>5, OfRedisFails, OfPublishFails
  <2>6. ASSUME NEW p \in Procs, DatabaseFails(p) PROVE IInv'
    BY <2>1, <2>6, OfDatabaseFails
  <2>7. CASE WorkerStep
    <3>1. "worker" \in Procs
      BY DEF Procs
    <3> QED BY <2>1, <2>7, <3>1, OfTick, OfFindDue, OfSweepNext, OfScan, OfSendStep, OfRecord DEF WorkerStep
  <2>8. CASE Crash
    BY <2>1, <2>8, OfCrash
  <2>9. CASE Wait
    <3>1. now' \in 1..MaxTime
      BY <2>9, Constants DEF Wait, IInv, RestOK
    <3> QED BY <2>1, <2>9, <3>1 DEF Wait, IInv, RestOK, redis, history
  <2>10. CASE ClockEnd
    BY <2>10 DEF ClockEnd, vars, IInv, RestOK
  <2> QED BY <2>1, <2>2, <2>3, <2>4, <2>5, <2>6, <2>7, <2>8, <2>9, <2>10 DEF Step
<1> QED BY <1>1, <1>2

\* Rows, jobs, the keys in Redis and the handlers under way keep their types, whatever fails
\* around the handlers (CargoNotificationService, CargoDeliveryQueue, CargoDeliveryRetryWorker).
THEOREM TypeCorrect == Spec => []TypeOK
<1>1. Init => IInv
  BY Begin
<1>2. IInv /\ [Next]_vars => IInv'
  BY Keep
<1>3. IInv => TypeOK
  BY Implies
<1> QED BY <1>1, <1>2, <1>3, PTL DEF Spec

\* No messenger of a notice counts more than MAX_DELIVERY_ATTEMPTS, and one that waits to be
\* tried again has attempts left: for any number of consumers and with the retry worker
\* beside them, each counting from the copy of the row it read before its send.
THEOREM Attempts == Spec => []AttemptsBounded
<1>1. Init => IInv
  BY Begin
<1>2. IInv /\ [Next]_vars => IInv'
  BY Keep
<1>3. IInv => AttemptsBounded
  BY Implies
<1> QED BY <1>1, <1>2, <1>3, PTL DEF Spec

-----------------------------------------------------------------------------
(* One sender: the queue alone or the retry worker alone, without summaries. *)

\* Nothing fails around the handlers, an answer of a messenger is heard, and a deployment
\* without summaries runs either the queue, with every load announced once, or the worker.
Undisturbed ==
    /\ Faults = {} /\ "lost" \notin Answers
    /\ \A s \in Setups : s.digest = 0 => (s.on = {"queue"} /\ s.announces <= 1) \/ s.on = {"worker"}

\* The messenger m is the next to try for a row of which none has sent.
Leading(r, m) == r[m].status = "PENDING" /\ ~AnySent(r) /\ \A k \in Pending(r) : m <= k

\* The handler has the turn of notice n: until it has published what follows.
Carries(me, n) ==
    /\ me.id = n
    /\ me.pc \in {"send", "record", "close", "skipOthers"} \/ (me.pc = "follow" /\ me.out # {})

\* A consumer where the queue is alone: what it read is still so.
QHandler(me) ==
    /\ me.pc \in {"idle", "send", "record", "close", "skipOthers", "follow"}
    /\ me.pc # "idle" => me.id \in Notices /\ me.job.kind = "send" /\ me.job.id = me.id
    /\ me.pc # "follow" => me.out = {}
    /\ \A i \in me.out, j \in me.out : i = j
    /\ \A j \in me.out : j.kind = "send" /\ j.id = me.id /\ Leading(notice[me.id], j.m)
    /\ me.pc \in {"send", "record", "close"} => me.copy = notice[me.id] /\ Leading(me.copy, me.m) /\ me.job.m = me.m
    /\ me.pc = "close" => me.ans = "FAILED" /\ Stale(me.id, now)
    /\ me.pc \in {"send", "record"} /\ ~me.open => me.id \in taken
    /\ me.pc = "record" /\ me.ans = "unlinked" => me.m \in tried[me.id] \/ me.id \in taken
    /\ me.pc = "skipOthers" => AnySent(notice[me.id]) /\ \A k \in me.todo : notice[me.id][k].status = "PENDING"

\* A job in the queue where the queue is alone.
QJob(j) ==
    /\ j.kind = "send" /\ queue[j] = 1 /\ Leading(notice[j.id], j.m)
    /\ ann[j.id].pc = "idle" /\ announces[j.id] # 0
    /\ \A c \in Consumers : ~Carries(proc[c], j.id)
    /\ \A i \in BagToSet(queue) : i.id = j.id => i = j

\* One turn per notice: the announcer, a job or a consumer has it.
QTurn(n) ==
    /\ ann[n].pc \in {"idle", "rows", "queue"}
    /\ ann[n].pc = "queue" => Leading(notice[n], ann[n].m)
    /\ announces[n] = 0 => ann[n].pc = "idle" /\ got[n] = 0 /\ created[n] = NoTime
    /\ \A c \in Consumers : Carries(proc[c], n) =>
          ann[n].pc = "idle" /\ announces[n] # 0 /\ \A d \in Consumers : Carries(proc[d], n) => d = c

QGot(n) ==
    /\ got[n] \in 0..1
    /\ got[n] = 1 => AnySent(notice[n]) \/ \E c \in Consumers : proc[c].pc = "record" /\ proc[c].ans = "sent" /\ proc[c].id = n
QPassed(n) ==
    created[n] # NoTime /\ n \notin taken /\ ~AnySent(notice[n]) =>
        \A m \in Routes : notice[n][m].status = "SKIPPED" => m \in tried[n]
QKept(n) ==
    created[n] # NoTime /\ n \notin taken /\ ~Stale(n, now) /\ Pending(notice[n]) # {} /\ ~AnySent(notice[n]) =>
        \/ ann[n].pc # "idle"
        \/ \E c \in Consumers : Carries(proc[c], n)
        \/ \E j \in BagToSet(queue) : j.id = n

QInv ==
    /\ proc["worker"].pc = "idle"
    /\ \A c \in Consumers : QHandler(proc[c])
    /\ \A j \in BagToSet(queue) : QJob(j)
    /\ \A n \in Notices : QTurn(n) /\ QGot(n) /\ QPassed(n) /\ QKept(n)

\* The retry worker alone: nobody else writes a status, so what it read is still so.
Agree(r, n, m) == created[n] # NoTime /\ \A k \in Messengers : k >= m => notice[n][k].status = r[k].status
WHandler(me) ==
    /\ \A t \in me.rows : Agree(t.copy, t.id, 1)
    /\ \A t \in me.rows, u \in me.rows : t.id = u.id => t = u
    /\ me.pc \in {"scan", "send", "record"} => Agree(me.copy, me.id, me.m) /\ \A t \in me.rows : t.id # me.id
    /\ me.pc \in {"send", "record"} \/ (me.pc = "scan" /\ ~me.has) => ~AnySent(notice[me.id])
WGot(n) ==
    /\ got[n] \in 0..1
    /\ created[n] = NoTime => got[n] = 0
    /\ got[n] = 1 => AnySent(notice[n]) \/ (proc["worker"].pc = "record" /\ proc["worker"].ans = "sent" /\ proc["worker"].id = n)
WKept(n) ==
    created[n] # NoTime /\ ann[n].pc = "idle" /\ ~AnySent(notice[n]) =>
        \A m \in Pending(notice[n]) : notice[n][m].at # NoTime
WInv ==
    /\ BagToSet(queue) = {} /\ \A c \in Consumers : proc[c].pc = "idle"
    /\ WHandler(proc["worker"])
    /\ \A n \in Notices : WGot(n) /\ WKept(n)

AInv == DigestWindow = 0 => IF QueueOn THEN QInv ELSE WInv

LEMMA NoFault == ASSUME Undisturbed, NEW kind PROVE ~Fault(kind)
BY DEF Undisturbed, Fault

-----------------------------------------------------------------------------
(* The retry worker alone. *)

WAlone == Undisturbed /\ DigestWindow = 0 /\ ~QueueOn /\ IInv /\ WInv

\* A step that leaves the handlers and the queue alone.
LEMMA WQuiet ==
    ASSUME WAlone, UNCHANGED <<queue, proc>>
    PROVE  BagToSet(queue') = {} /\ \A c \in Consumers : proc'[c].pc = "idle"
BY DEF WAlone, WInv

\* A step of the worker.
LEMMA WSet ==
    ASSUME WAlone, NEW b, Set("worker", b), UNCHANGED queue
    PROVE  proc'["worker"] = b /\ BagToSet(queue') = {} /\ \A c \in Consumers : proc'[c].pc = "idle"
<1>1. proc \in [Procs -> Process] /\ "worker" \notin Consumers
  BY Constants DEF WAlone, IInv, ProcOK
<1>2. \A c \in Consumers : c # "worker" /\ c \in Procs
  BY <1>1 DEF Procs
<1>3. "worker" \in Procs
  BY DEF Procs
<1>4. proc'["worker"] = b /\ \A c \in Consumers : proc'[c] = proc[c]
  BY <1>1, <1>2, <1>3 DEF Set
<1> QED BY <1>4 DEF WAlone, WInv

\* Facts about the worker's handler.
LEMMA WMe ==
    ASSUME WAlone, NEW me, me = proc["worker"]
    PROVE  /\ HandlerOK("worker", me) /\ me \in Process /\ WHandler(me)
           /\ \A t \in me.rows : t \in Loaded /\ t.id \in Notices /\ t.copy \in Row
<1>1. HandlerOK("worker", me) /\ me \in Process
  BY WorkerFacts DEF WAlone
<1>2. WHandler(me)
  BY DEF WAlone, WInv
<1> QED BY <1>1, <1>2, Fields, LoadedFacts

\* Statuses stay, and with them what the worker read.
LEMMA WSame ==
    ASSUME WAlone, created' = created, proc' = proc,
           \A n \in Notices, m \in Messengers : notice'[n][m].status = notice[n][m].status
    PROVE  WHandler(proc["worker"])' /\ \A n \in Notices : AnySent(notice'[n]) <=> AnySent(notice[n])
<1>1. PICK me : me = proc["worker"]
  OBVIOUS
<1>2. HandlerOK("worker", me) /\ me \in Process /\ WHandler(me) /\ \A t \in me.rows : t.id \in Notices
  BY <1>1, WMe
<1>3. me.pc \in {"scan", "send", "record"} => me.id \in Notices
  BY <1>2 DEF HandlerOK, OfNotice, OfSend
<1>4. \A n \in Notices : AnySent(notice'[n]) <=> AnySent(notice[n])
  BY DEF AnySent
<1>5. \A n \in Notices : \A r, m : Agree(r, n, m) => Agree(r, n, m)'
  BY DEF Agree
<1>6. WHandler(me)'
  BY <1>2, <1>3, <1>4, <1>5 DEF WHandler
<1> QED BY <1>1, <1>4, <1>6

LEMMA WAnnounce == ASSUME WAlone, NEW n \in Notices, Announce(n) PROVE WInv'
<1>1. BagToSet(queue') = {} /\ \A c \in Consumers : proc'[c].pc = "idle"
  BY WQuiet DEF Announce
<1>2. ann' = [ann EXCEPT ![n] = [pc |-> "rows", m |-> 1]] /\ got' = got /\ proc' = proc
      /\ ann \in [Notices -> [pc : {"idle", "rows", "queue", "schedule"}, m : Messengers]]
  BY DEF Announce, AtAnn, history, WAlone, IInv, AnnOK
<1>3. ann'[n].pc = "rows" /\ \A k \in Notices : k # n => ann'[k] = ann[k]
  BY <1>2
<1>4. PICK me : me = proc["worker"]
  OBVIOUS
<1>5. HandlerOK("worker", me) /\ WHandler(me) /\ \A t \in me.rows : t.id \in Notices
  BY <1>4, WMe
<1>6. CASE created[n] # NoTime
  <2>1. notice' = notice /\ created' = created
    BY <1>6 DEF Announce
  <2>2. WHandler(proc["worker"])'
    BY <1>2, <2>1, WSame
  <2>3. \A k \in Notices : WGot(k)'
    BY <1>2, <2>1 DEF WAlone, WInv, WGot
  <2>4. \A k \in Notices : WKept(k)'
    BY <1>3, <2>1 DEF WAlone, WInv, WKept
  <2> QED BY <1>1, <2>2, <2>3, <2>4 DEF WInv
<1>7. CASE created[n] = NoTime
  <2>1. created' = [created EXCEPT ![n] = now] /\ \A k \in Notices : k # n => notice'[k] = notice[k]
    BY <1>7 DEF Announce, WAlone, IInv, RowsOK
  <2>2. created \in [Notices -> 0..MaxTime] /\ now # NoTime
    BY Constants DEF WAlone, IInv, RestOK, NoTime
  <2>3. \A k \in Notices : k # n => created'[k] = created[k]
    BY <2>1, <2>2
  <2>4. created'[n] # NoTime
    BY <2>1, <2>2
  <2>5. \A k \in Notices : k # n => \A r, m : Agree(r, k, m) => Agree(r, k, m)'
    BY <2>1, <2>3 DEF Agree
  <2>6. \A r, m : ~Agree(r, n, m)
    BY <1>7 DEF Agree
  <2>7. me.pc \in {"scan", "send", "record"} => me.id \in Notices /\ me.id # n
    BY <1>5, <2>6 DEF HandlerOK, OfNotice, OfSend, WHandler
  <2>8. WHandler(me)'
    BY <1>5, <2>1, <2>5, <2>6, <2>7 DEF WHandler
  <2>9. got[n] = 0
    BY <1>7 DEF WAlone, WInv, WGot
  <2>10. \A k \in Notices : WGot(k)'
    BY <1>2, <2>1, <2>3, <2>9 DEF WAlone, WInv, WGot
  <2>11. \A k \in Notices : WKept(k)'
    BY <1>3, <2>1, <2>3 DEF WAlone, WInv, WKept
  <2> QED BY <1>1, <1>2, <1>4, <2>8, <2>10, <2>11 DEF WInv
<1> QED BY <1>6, <1>7

LEMMA WAnnounceRows == ASSUME WAlone, NEW n \in Notices, AnnounceRows(n) PROVE WInv'
<1>1. BagToSet(queue') = {} /\ \A c \in Consumers : proc'[c].pc = "idle"
  BY WQuiet DEF AnnounceRows
<1>2. notice' = notice /\ created' = created /\ got' = got /\ proc' = proc
  BY DEF AnnounceRows, history
<1>3. WHandler(proc["worker"])'
  BY <1>2, WSame
<1>4. \A k \in Notices : WGot(k)'
  BY <1>2 DEF WAlone, WInv, WGot
<1>5. ASSUME NEW k \in Notices PROVE WKept(k)'
  <2>1. ann \in [Notices -> [pc : {"idle", "rows", "queue", "schedule"}, m : Messengers]]
    BY DEF WAlone, IInv, AnnOK
  <2>2. CASE k # n
    <3>1. ann'[k] = ann[k]
      BY <2>1, <2>2 DEF AnnounceRows, AtAnn
    <3> QED BY <1>2, <3>1 DEF WAlone, WInv, WKept
  <2>3. CASE k = n
    <3>1. AnySent(notice[n]) \/ Pending(notice[n]) = {} \/ ann'[n].pc = "queue"
      BY <2>1 DEF AnnounceRows, AtAnn
    <3> QED BY <1>2, <2>3, <3>1 DEF WKept
  <2> QED BY <2>2, <2>3
<1> QED BY <1>1, <1>3, <1>4, <1>5 DEF WInv

LEMMA WAnnounceQueue == ASSUME WAlone, NEW n \in Notices, AnnounceQueue(n) PROVE WInv'
<1>1. queue' = queue /\ AtAnn(n, "schedule", 1)
  BY DEF AnnounceQueue, WAlone
<1>2. notice' = notice /\ created' = created /\ got' = got /\ proc' = proc
  BY DEF AnnounceQueue, history
<1>3. BagToSet(queue') = {} /\ \A c \in Consumers : proc'[c].pc = "idle"
  BY <1>1, <1>2, WQuiet
<1>4. WHandler(proc["worker"])'
  BY <1>2, WSame
<1>5. \A k \in Notices : WGot(k)'
  BY <1>2 DEF WAlone, WInv, WGot
<1>6. ann \in [Notices -> [pc : {"idle", "rows", "queue", "schedule"}, m : Messengers]]
  BY DEF WAlone, IInv, AnnOK
<1>7. ann'[n].pc = "schedule" /\ \A k \in Notices : k # n => ann'[k] = ann[k]
  BY <1>1, <1>6 DEF AtAnn
<1>8. \A k \in Notices : WKept(k)'
  BY <1>2, <1>7 DEF WAlone, WInv, WKept
<1> QED BY <1>3, <1>4, <1>5, <1>8 DEF WInv

LEMMA WScheduleRetry == ASSUME WAlone, NEW n \in Notices, ScheduleRetry(n) PROVE WInv'
<1>1. BagToSet(queue') = {} /\ \A c \in Consumers : proc'[c].pc = "idle"
  BY WQuiet DEF ScheduleRetry
<1>2. created' = created /\ got' = got /\ proc' = proc /\ RowsOK(notice)
  BY DEF ScheduleRetry, history, WAlone, IInv
<1>3. PICK row : row = [m \in Messengers |-> [notice[n][m] EXCEPT !.at = IF notice[n][m].status = "PENDING" THEN now ELSE NoTime]]
  OBVIOUS
<1>4. notice' = [notice EXCEPT ![n] = row]
  BY <1>3 DEF ScheduleRetry
<1>5. notice'[n] = row /\ \A k \in Notices : k # n => notice'[k] = notice[k]
  BY <1>2, <1>4 DEF RowsOK
<1>6. ASSUME NEW m \in Messengers
      PROVE  row[m].status = notice[n][m].status /\ (row[m].status = "PENDING" => row[m].at = now)
  <2>1. notice[n][m] \in Cell
    BY <1>2, CellFacts
  <2> QED BY <1>3, <2>1 DEF Cell
<1>7. \A k \in Notices, m \in Messengers : notice'[k][m].status = notice[k][m].status
  BY <1>5, <1>6
<1>8. WHandler(proc["worker"])' /\ \A k \in Notices : AnySent(notice'[k]) <=> AnySent(notice[k])
  BY <1>2, <1>7, WSame
<1>9. \A k \in Notices : WGot(k)'
  BY <1>2, <1>8 DEF WAlone, WInv, WGot
<1>10. ann \in [Notices -> [pc : {"idle", "rows", "queue", "schedule"}, m : Messengers]] /\ now # NoTime
  BY Constants DEF WAlone, IInv, AnnOK, RestOK, NoTime
<1>11. \A k \in Notices : k # n => ann'[k] = ann[k]
  BY <1>10 DEF ScheduleRetry, AtAnn
<1>12. ASSUME NEW k \in Notices PROVE WKept(k)'
  <2>1. CASE k # n
    BY <1>2, <1>5, <1>11, <2>1 DEF WAlone, WInv, WKept
  <2>2. CASE k = n
    BY <1>5, <1>6, <1>10, <2>2 DEF WKept, Pending
  <2> QED BY <2>1, <2>2
<1> QED BY <1>1, <1>8, <1>9, <1>12 DEF WInv

LEMMA WTick == ASSUME WAlone, Tick PROVE WInv'
<1>1. PICK b : b = [Idle EXCEPT !.pc = "due", !.at = now]
  OBVIOUS
<1>2. Set("worker", b) /\ UNCHANGED queue
  BY <1>1 DEF Tick
<1>3. proc'["worker"] = b /\ BagToSet(queue') = {} /\ \A c \in Consumers : proc'[c].pc = "idle"
  BY <1>2, WSet
<1>4. b.pc = "due" /\ b.rows = {}
  BY <1>1 DEF Idle
<1>5. WHandler(proc["worker"])'
  BY <1>3, <1>4 DEF WHandler
<1>6. created' = created /\ got' = got /\ ann' = ann /\ notice' = [n \in Notices |-> FailExpired(n)] /\ proc["worker"].pc = "idle"
  BY DEF Tick, history
<1>7. ASSUME NEW n \in Notices, NEW m \in Messengers
      PROVE  \/ notice'[n][m] = notice[n][m]
             \/ notice[n][m].status = "PENDING" /\ notice'[n][m].status = "FAILED"
  <2>1. notice[n][m] \in Cell
    BY CellFacts DEF WAlone, IInv
  <2>2. Closed(notice[n][m], "FAILED").status = "FAILED"
    BY <2>1, ClosedOK
  <2>3. notice'[n] = FailExpired(n)
    BY <1>6
  <2>4. notice'[n][m] = IF Expired(n) /\ notice[n][m].status = "PENDING" THEN Closed(notice[n][m], "FAILED") ELSE notice[n][m]
    BY <2>3 DEF FailExpired
  <2> QED BY <2>2, <2>4
<1>8. \A n \in Notices : AnySent(notice'[n]) <=> AnySent(notice[n])
  BY <1>7 DEF AnySent
<1>9. \A n \in Notices : WGot(n)'
  BY <1>6, <1>8 DEF WAlone, WInv, WGot
<1>10. \A n \in Notices : WKept(n)'
  BY <1>6, <1>7, <1>8 DEF WAlone, WInv, WKept, Pending
<1> QED BY <1>3, <1>5, <1>9, <1>10 DEF WInv

\* A step of the worker that writes nothing into the table.
LEMMA WMoves ==
    ASSUME WAlone, NEW b, Set("worker", b), UNCHANGED <<queue, notice, created, got, ann>>, WHandler(b),
           proc["worker"].pc # "record"
    PROVE  WInv'
<1>1. proc'["worker"] = b /\ BagToSet(queue') = {} /\ \A c \in Consumers : proc'[c].pc = "idle"
  BY WSet
<1>2. WHandler(proc["worker"])'
  BY <1>1 DEF WHandler, Agree
<1>3. \A n \in Notices : WGot(n)'
  BY DEF WAlone, WInv, WGot
<1>4. \A n \in Notices : WKept(n)'
  BY DEF WAlone, WInv, WKept
<1> QED BY <1>1, <1>2, <1>3, <1>4 DEF WInv

LEMMA WIdle == WHandler(Idle)
<1>1. Idle.rows = {} /\ Idle.pc = "idle"
  BY DEF Idle
<1> QED BY <1>1 DEF WHandler

LEMMA WFindDue == ASSUME WAlone, FindDue PROVE WInv'
<1>1. PICK me : me = proc["worker"]
  OBVIOUS
<1>2. me \in Process /\ me.pc = "due"
  BY <1>1, WMe DEF FindDue
<1>3. PICK rows : rows = {Load(n) : n \in {k \in Notices : Due(k, me.at)}}
  OBVIOUS
<1>4. ASSUME NEW t \in rows PROVE t.id \in Notices /\ t = Load(t.id) /\ Agree(t.copy, t.id, 1)
  <2>1. PICK n \in Notices : t = Load(n) /\ Due(n, me.at)
    BY <1>3
  <2>2. t.id = n /\ t.copy = notice[n] /\ created[n] # NoTime
    BY <2>1 DEF Load, Due
  <2> QED BY <2>1, <2>2 DEF Agree
<1>5. PICK b : b = [me EXCEPT !.pc = "sweep", !.rows = rows]
  OBVIOUS
<1>6. b.pc = "sweep" /\ b.rows = rows
  BY <1>2, <1>5 DEF Process
<1>7. WHandler(b)
  BY <1>4, <1>6 DEF WHandler
<1>8. Set("worker", Idle) \/ Set("worker", b)
  BY <1>1, <1>3, <1>5 DEF FindDue
<1>9. UNCHANGED <<queue, notice, created, got, ann>> /\ proc["worker"].pc # "record"
  BY DEF FindDue, history
<1> QED BY <1>7, <1>8, <1>9, WIdle, WMoves

LEMMA WSweepNext == ASSUME WAlone, SweepNext PROVE WInv'
<1>1. PICK me : me = proc["worker"]
  OBVIOUS
<1>2. me \in Process /\ me.pc = "sweep" /\ WHandler(me) /\ \A t \in me.rows : t.id \in Notices
  BY <1>1, WMe DEF SweepNext
<1>3. PICK t \in me.rows :
        Set("worker", [me EXCEPT !.pc = "scan", !.rows = me.rows \ {t}, !.id = t.id, !.copy = t.copy,
                                 !.open = t.open, !.m = 1, !.has = AnySent(t.copy)])
  BY <1>1 DEF SweepNext
<1>4. PICK has \in BOOLEAN : has = AnySent(t.copy)
  BY DEF AnySent
<1>5. PICK b : b = [me EXCEPT !.pc = "scan", !.rows = me.rows \ {t}, !.id = t.id, !.copy = t.copy,
                                  !.open = t.open, !.m = 1, !.has = has]
  OBVIOUS
<1>6. b.pc = "scan" /\ b.rows = me.rows \ {t} /\ b.id = t.id /\ b.copy = t.copy /\ b.m = 1 /\ b.has = has
  BY <1>2, <1>5 DEF Process
<1>7. Agree(t.copy, t.id, 1) /\ \A u \in me.rows : Agree(u.copy, u.id, 1) /\ (u.id = t.id => u = t)
  BY <1>2 DEF WHandler
<1>8. AnySent(notice[t.id]) => has
  <2>1. \A k \in Messengers : k >= 1
    BY DEF Messengers
  <2> QED BY <1>4, <1>7, <2>1 DEF Agree, AnySent
<1>9. WHandler(b)
  BY <1>2, <1>6, <1>7, <1>8 DEF WHandler
<1>10. UNCHANGED <<queue, notice, created, got, ann>> /\ proc["worker"].pc # "record" /\ Set("worker", b)
  BY <1>3, <1>4, <1>5 DEF SweepNext, history
<1> QED BY <1>9, <1>10, WMoves

\* The worker writes the columns of one messenger, pending until then, of the notice it is at.
LEMMA WWrites ==
    ASSUME WAlone, NEW me, me = proc["worker"], me.pc \in {"scan", "record"}, NEW k \in Messengers,
           notice[me.id][k].status = "PENDING",
           NEW cell \in Cell, Update(me.id, k, cell), NEW b, Set("worker", b), UNCHANGED <<queue, created, got, ann>>,
           b.pc = "scan", b.id = me.id, b.copy = me.copy, b.rows = me.rows, b.m = k + 1, me.m <= k,
           ~b.has => ~AnySent(notice[me.id]) /\ cell.status # "SENT",
           me.pc = "record" /\ me.ans = "sent" => cell.status = "SENT",
           cell.status = "PENDING" => cell.at # NoTime
    PROVE  WInv'
<1>1. proc'["worker"] = b /\ BagToSet(queue') = {} /\ \A c \in Consumers : proc'[c].pc = "idle"
  BY WSet
<1>2. HandlerOK("worker", me) /\ me \in Process /\ WHandler(me) /\ \A t \in me.rows : t.id \in Notices
  BY WMe
<1>3. me.id \in Notices /\ RowsOK(notice) /\ me.m \in Nat /\ \A t \in me.rows : t.id # me.id
  BY <1>2, Fields DEF HandlerOK, OfNotice, OfSend, WAlone, IInv, WHandler
<1>4. notice \in [Notices -> [Messengers -> Cell]]
  BY <1>3 DEF RowsOK, Row
<1>5. \A n \in Notices, m \in Messengers : notice'[n][m] = IF n = me.id /\ m = k THEN cell ELSE notice[n][m]
  BY <1>3, <1>4 DEF Update
<1>6. k \in Nat /\ \A m \in Messengers : m \in Nat
  BY DEF Messengers
<1>7. Agree(me.copy, me.id, me.m)
  BY <1>2 DEF WHandler
<1>8. Agree(b.copy, b.id, b.m)'
  <2>1. ASSUME NEW m \in Messengers, m >= k + 1 PROVE notice'[me.id][m].status = me.copy[m].status
    <3>1. m # k /\ m >= me.m
      <4>1. PICK i : i = me.m
        OBVIOUS
      <4>2. i \in Nat /\ m \in Nat /\ k \in Nat /\ i <= k /\ m >= k + 1
        BY <1>3, <1>6, <2>1, <4>1
      <4>3. m # k /\ m >= i
        BY ONLY <4>2
      <4> QED BY <4>1, <4>3
    <3>2. notice'[me.id][m] = notice[me.id][m]
      BY <1>3, <1>5, <3>1
    <3> QED BY <1>7, <3>1, <3>2 DEF Agree
  <2>2. created'[me.id] # NoTime
    BY <1>7 DEF Agree
  <2> QED BY <2>1, <2>2 DEF Agree
<1>9. \A t \in me.rows : Agree(t.copy, t.id, 1)'
  BY <1>2, <1>3, <1>5 DEF WHandler, Agree
<1>10. ~b.has => ~AnySent(notice[me.id])'
  BY <1>3, <1>5 DEF AnySent
<1>11. WHandler(b)'
  BY <1>2, <1>3, <1>8, <1>9, <1>10 DEF WHandler
<1>12. \A n \in Notices : AnySent(notice[n]) => AnySent(notice'[n])
  BY <1>3, <1>5 DEF AnySent
<1>13. cell.status = "SENT" => AnySent(notice'[me.id])
  BY <1>3, <1>5 DEF AnySent
<1>14. \A n \in Notices : WGot(n)'
  <2>1. ASSUME NEW n \in Notices, got[n] = 1 PROVE AnySent(notice'[n])
    <3>1. AnySent(notice[n]) \/ (me.pc = "record" /\ me.ans = "sent" /\ me.id = n)
      BY <2>1 DEF WAlone, WInv, WGot
    <3> QED BY <1>12, <1>13, <3>1
  <2> QED BY <2>1 DEF WAlone, WInv, WGot
<1>15. \A n \in Notices : WKept(n)'
  BY <1>5, <1>12 DEF WAlone, WInv, WKept, Pending
<1> QED BY <1>1, <1>11, <1>14, <1>15 DEF WInv

LEMMA WScan == ASSUME WAlone, Scan("worker") PROVE WInv'
<1>1. PICK me : me = proc["worker"]
  OBVIOUS
<1>2. HandlerOK("worker", me) /\ me \in Process /\ me.pc = "scan" /\ WHandler(me)
  BY <1>1, WMe DEF Scan
<1>3. me.id \in Notices /\ me.copy \in Row /\ me.m \in Nat /\ me.has \in BOOLEAN
  BY <1>2, Fields DEF HandlerOK, OfNotice
<1>4. PICK left : left = {m \in Pending(me.copy) : m >= me.m}
  OBVIOUS
<1>5. left \in SUBSET Messengers
  BY <1>4 DEF Pending
<1>6. UNCHANGED <<queue, created, got, ann>> /\ proc["worker"].pc # "record"
  BY DEF Scan, history
<1>7. Agree(me.copy, me.id, me.m) /\ (\A t \in me.rows : t.id # me.id) /\ (~me.has => ~AnySent(notice[me.id]))
  BY <1>2 DEF WHandler
<1>8. CASE left = {}
  <2>1. PICK b : b = [me EXCEPT !.pc = "sweep"]
    OBVIOUS
  <2>2. b.pc = "sweep" /\ b.rows = me.rows
    BY <1>2, <2>1 DEF Process
  <2>3. WHandler(b)
    BY <1>2, <2>2 DEF WHandler
  <2>4. (Set("worker", Idle) \/ Set("worker", b)) /\ notice' = notice
    BY <1>1, <1>4, <1>8, <2>1 DEF Scan
  <2> QED BY <1>6, <2>3, <2>4, WIdle, WMoves
<1>9. CASE left # {}
  <2>1. PICK k : k = First(left)
    OBVIOUS
  <2>2. k \in left /\ k \in Messengers
    BY <1>5, <1>9, <2>1, FirstFacts
  <2>3. me.copy[k].status = "PENDING" /\ k >= me.m /\ k \in Nat
    BY <1>4, <2>2 DEF Pending, Messengers
  <2>4. notice[me.id][k].status = "PENDING"
    BY <1>7, <2>2, <2>3 DEF Agree
  <2>5. Agree(me.copy, me.id, k) /\ Agree(me.copy, me.id, k + 1)
    BY <1>3, <1>7, <2>3 DEF Agree, Messengers
  <2>6. CASE me.has
    <3>1. PICK cell : cell = Closed(notice[me.id][k], "SKIPPED")
      OBVIOUS
    <3>2. notice[me.id][k] \in Cell
      BY <1>3, <2>2, CellFacts DEF WAlone, IInv
    <3>3. cell \in Cell /\ cell.status = "SKIPPED"
      BY <3>1, <3>2, ClosedOK
    <3>4. PICK b : b = [me EXCEPT !.m = k + 1]
      OBVIOUS
    <3>5. Update(me.id, k, cell) /\ Set("worker", b)
      BY <1>1, <1>4, <1>9, <2>1, <2>6, <3>1, <3>4 DEF Scan
    <3>6. b.pc = "scan" /\ b.rows = me.rows /\ b.copy = me.copy /\ b.id = me.id /\ b.m = k + 1 /\ b.has
      BY <1>2, <2>6, <3>4 DEF Process
    <3>7. me.m <= k
      BY <2>3, <1>3
    <3> QED BY <1>1, <1>2, <1>6, <2>2, <2>4, <3>3, <3>5, <3>6, <3>7, WWrites
  <2>7. CASE ~me.has /\ Ready(me.copy[k], me.at)
    <3>1. PICK b : b = [me EXCEPT !.pc = "send", !.m = k]
      OBVIOUS
    <3>2. b.pc = "send" /\ b.rows = me.rows /\ b.copy = me.copy /\ b.id = me.id /\ b.m = k
      BY <1>2, <3>1 DEF Process
    <3>3. WHandler(b)
      BY <1>2, <1>7, <2>5, <2>7, <3>2 DEF WHandler
    <3>4. Set("worker", b) /\ notice' = notice
      BY <1>1, <1>4, <1>9, <2>1, <2>7, <3>1 DEF Scan
    <3> QED BY <1>6, <3>3, <3>4, WMoves
  <2>8. CASE ~me.has /\ ~Ready(me.copy[k], me.at)
    <3>1. PICK b : b = [me EXCEPT !.has = TRUE, !.m = k + 1]
      OBVIOUS
    <3>2. b.pc = "scan" /\ b.rows = me.rows /\ b.copy = me.copy /\ b.id = me.id /\ b.m = k + 1 /\ b.has
      BY <1>2, <3>1 DEF Process
    <3>3. WHandler(b)
      BY <1>2, <1>7, <2>5, <3>2 DEF WHandler
    <3>4. Set("worker", b) /\ notice' = notice
      BY <1>1, <1>4, <1>9, <2>1, <2>8, <3>1 DEF Scan
    <3> QED BY <1>6, <3>3, <3>4, WMoves
  <2> QED BY <2>6, <2>7, <2>8
<1> QED BY <1>8, <1>9

LEMMA WSend == ASSUME WAlone, Send("worker") PROVE WInv'
<1>1. PICK me : me = proc["worker"]
  OBVIOUS
<1>2. HandlerOK("worker", me) /\ me \in Process /\ me.pc = "send" /\ WHandler(me)
  BY <1>1, WMe DEF Send
<1>3. me.id \in Notices
  BY <1>2 DEF HandlerOK, OfNotice, OfSend
<1>4. PICK ans \in IF me.open THEN AnswersOf(me.m) ELSE {"unlinked"} :
         /\ Set("worker", [me EXCEPT !.pc = "record", !.ans = IF ans = "lost" THEN "temporary" ELSE ans])
         /\ got' = IF ans \in {"sent", "lost"} /\ got[me.id] < 2 THEN [got EXCEPT ![me.id] = @ + 1] ELSE got
  BY <1>1 DEF Send
<1>5. ans # "lost"
  BY DEF WAlone, Undisturbed, AnswersOf
<1>6. PICK b : b = [me EXCEPT !.pc = "record", !.ans = ans]
  OBVIOUS
<1>7. Set("worker", b) /\ UNCHANGED <<queue, notice, created, ann>>
  BY <1>4, <1>5, <1>6 DEF Send
<1>8. proc'["worker"] = b /\ BagToSet(queue') = {} /\ \A c \in Consumers : proc'[c].pc = "idle"
  BY <1>7, WSet
<1>9. b.pc = "record" /\ b.ans = ans /\ b.rows = me.rows /\ b.copy = me.copy /\ b.id = me.id /\ b.m = me.m
  BY <1>2, <1>6 DEF Process
<1>10. WHandler(proc["worker"])'
  BY <1>2, <1>7, <1>8, <1>9 DEF WHandler, Agree
<1>11. ~AnySent(notice[me.id]) /\ created[me.id] # NoTime
  BY <1>2 DEF WHandler, Agree
<1>12. got \in [Notices -> 0..2] /\ \A n \in Notices : WGot(n)
  BY DEF WAlone, WInv, IInv, RestOK
<1>13. got[me.id] = 0
  BY <1>1, <1>2, <1>3, <1>11, <1>12 DEF WGot
<1>14. \A n \in Notices : got'[n] = IF ans = "sent" /\ n = me.id THEN 1 ELSE got[n]
  BY <1>3, <1>4, <1>5, <1>12, <1>13
<1>15. ASSUME NEW n \in Notices PROVE WGot(n)'
  <2>1. CASE ans = "sent" /\ n = me.id
    BY <1>7, <1>8, <1>9, <1>11, <1>14, <2>1 DEF WGot
  <2>2. CASE ~(ans = "sent" /\ n = me.id)
    BY <1>1, <1>2, <1>7, <1>12, <1>14, <2>2 DEF WGot
  <2> QED BY <2>1, <2>2
<1>16. \A n \in Notices : WKept(n)'
  BY <1>7 DEF WAlone, WInv, WKept
<1> QED BY <1>8, <1>10, <1>15, <1>16 DEF WInv

\* What Record writes: SENT for a send that was answered so, pending with a time.
LEMMA RecordedFacts ==
    ASSUME IInv, NEW p \in Procs, NEW me, me = proc[p], me.pc = "record"
    PROVE  /\ me.ans = "sent" => Recorded(me).status = "SENT" /\ Result(me) = "SENT"
           /\ me.ans = "limited" => Result(me) = "PENDING" /\ Recorded(me).status = notice[me.id][me.m].status
           /\ me.ans = "unlinked" => Result(me) = "SKIPPED"
           /\ me.ans # "limited" => Recorded(me).status = Result(me)
           /\ (me.ans = "limited" \/ Recorded(me).status = "PENDING") => Recorded(me).at # NoTime
           /\ Recorded(me).status = "SENT" => me.ans \in {"sent", "limited"}
           /\ Result(me) = "SENT" => me.ans = "sent"
           /\ Result(me) = "SKIPPED" => me.ans = "unlinked"
           /\ Result(me) \in Statuses
<1>1. HandlerOK(p, me)
  BY HandlerFacts
<1>2. me.id \in Notices /\ me.m \in Messengers /\ me.ans \in AllAnswers \ {"lost"}
  BY <1>1 DEF HandlerOK, OfSend, OfNotice, OfConsumer
<1>3. PICK cur : cur = notice[me.id][me.m]
  OBVIOUS
<1>4. cur \in Cell
  BY <1>2, <1>3, CellFacts DEF IInv
<1>5. PICK at : at = RetryAt(me)
  OBVIOUS
<1>6. at \in Nat /\ (me.ans = "limited" => at # NoTime)
  <2>1. me.ans = "limited" => at = now + 1
    BY <1>5 DEF RetryAt
  <2>2. now \in Nat
    BY DEF IInv, RestOK
  <2> QED BY <1>5, <2>1, <2>2, RetryFacts DEF NoTime
<1>7. CASE me.ans = "limited"
  <2>1. Recorded(me) = [cur EXCEPT !.at = at]
    BY <1>3, <1>5, <1>7 DEF Recorded
  <2>2. Recorded(me).status = cur.status /\ Recorded(me).at = at
    BY <1>4, <2>1 DEF Cell
  <2>3. Result(me) = "PENDING"
    BY <1>5, <1>6, <1>7 DEF Result
  <2> QED BY <1>3, <1>6, <1>7, <2>2, <2>3 DEF Statuses
<1>8. CASE me.ans = "unlinked"
  <2>1. Recorded(me) = Closed(cur, "SKIPPED")
    BY <1>3, <1>8 DEF Recorded
  <2>2. Recorded(me).status = "SKIPPED"
    BY <1>4, <2>1, ClosedOK
  <2>3. Result(me) = "SKIPPED"
    BY <1>8 DEF Result
  <2> QED BY <1>8, <2>2, <2>3 DEF Statuses
<1>9. CASE me.ans \notin {"limited", "unlinked"}
  <2>1. PICK s : s = Result(me)
    OBVIOUS
  <2>2. s = IF me.ans = "sent" THEN "SENT" ELSE IF at = NoTime THEN "FAILED" ELSE "PENDING"
    BY <1>5, <1>9, <2>1 DEF Result
  <2>3. PICK a : a = me.copy[me.m].attempts + 1
    OBVIOUS
  <2>4. Recorded(me) = [status |-> s, attempts |-> a, at |-> at]
    BY <1>5, <1>9, <2>1, <2>3 DEF Recorded
  <2>5. Recorded(me).status = s /\ Recorded(me).at = at
    BY <2>4
  <2> QED BY <1>9, <2>1, <2>2, <2>5 DEF Statuses
<1> QED BY <1>7, <1>8, <1>9

LEMMA WRecord == ASSUME WAlone, Record("worker") PROVE WInv'
<1>1. PICK me : me = proc["worker"]
  OBVIOUS
<1>2. HandlerOK("worker", me) /\ me \in Process /\ me.pc = "record" /\ WHandler(me) /\ "worker" \in Procs /\ IInv
  BY <1>1, WMe DEF Record, Procs, WAlone
<1>3. me.id \in Notices /\ me.m \in Messengers /\ me.copy[me.m].status = "PENDING" /\ me.ans \in AllAnswers \ {"lost"}
  BY <1>2 DEF HandlerOK, OfSend, OfNotice, OfConsumer
<1>4. PICK cell : cell = Recorded(me)
  OBVIOUS
<1>5. cell \in Cell
  BY <1>1, <1>2, <1>4, RecordedOK
<1>6. PICK has \in BOOLEAN : has = (Result(me) \in {"SENT", "PENDING"})
  <2>1. CASE Result(me) \in {"SENT", "PENDING"}
    BY <2>1
  <2>2. CASE Result(me) \notin {"SENT", "PENDING"}
    <3>1. FALSE = (Result(me) \in {"SENT", "PENDING"})
      BY <2>2
    <3> QED BY <3>1
  <2> QED BY <2>1, <2>2
<1>7. PICK b : b = [me EXCEPT !.pc = "scan", !.m = me.m + 1, !.has = has]
  OBVIOUS
<1>8. Set("worker", b) /\ Update(me.id, me.m, cell)
  BY <1>1, <1>4, <1>6, <1>7 DEF Record, AfterSwept
<1>9. b.pc = "scan" /\ b.rows = me.rows /\ b.copy = me.copy /\ b.id = me.id /\ b.m = me.m + 1 /\ b.has = has
  BY <1>2, <1>7 DEF Process
<1>10. ~AnySent(notice[me.id]) /\ notice[me.id][me.m].status = "PENDING" /\ me.m <= me.m
  <2>1. me.m >= me.m /\ me.m <= me.m
    BY <1>3 DEF Messengers
  <2> QED BY <1>2, <1>3, <2>1 DEF WHandler, Agree
<1>11. /\ me.ans = "sent" => cell.status = "SENT"
       /\ cell.status = "PENDING" => cell.at # NoTime
       /\ ~has => cell.status # "SENT"
  BY <1>1, <1>2, <1>4, <1>6, <1>10, RecordedFacts
<1>12. UNCHANGED <<queue, created, got, ann>>
  BY DEF Record, history
<1>13. ~b.has => ~AnySent(notice[me.id]) /\ cell.status # "SENT"
  BY <1>9, <1>10, <1>11
<1> QED BY <1>1, <1>2, <1>3, <1>5, <1>8, <1>9, <1>10, <1>11, <1>12, <1>13, WWrites

LEMMA WUntouched == ASSUME WAlone, UNCHANGED <<queue, proc, notice, created, got, ann>> PROVE WInv'
<1>1. BagToSet(queue') = {} /\ \A c \in Consumers : proc'[c].pc = "idle"
  BY WQuiet
<1>2. WHandler(proc["worker"])'
  BY WSame
<1>3. \A n \in Notices : WGot(n)'
  BY DEF WAlone, WInv, WGot
<1>4. \A n \in Notices : WKept(n)'
  BY DEF WAlone, WInv, WKept
<1> QED BY <1>1, <1>2, <1>3, <1>4 DEF WInv

LEMMA WNext == ASSUME WAlone, Step PROVE WInv'
<1>1. ASSUME NEW n \in Notices, Announce(n) \/ AnnouncerStep(n) PROVE WInv'
  BY <1>1, WAnnounce, WAnnounceRows, WAnnounceQueue, WScheduleRetry DEF AnnouncerStep
<1>2. ASSUME NEW n \in Notices, LoadTaken(n) PROVE WInv'
  BY <1>2, WUntouched DEF LoadTaken, history
<1>3. ASSUME NEW c \in Consumers PROVE ~ConsumerStep(c)
  <2>1. proc[c].pc = "idle" /\ BagToSet(queue) = {}
    BY DEF WAlone, WInv
  <2>2. ~Close(c) /\ ~Send(c) /\ ~Record(c) /\ ~SkipOthers(c) /\ ~Follow(c)
    BY <2>1 DEF Close, Send, Record, SkipOthers, Follow
  <2>3. ~DigestWindowStep(c) /\ ~Hold(c) /\ ~Schedule(c) /\ ~DigestRead(c) /\ ~DigestClear(c)
    BY <2>1 DEF DigestWindowStep, Hold, Schedule, DigestRead, DigestClear
  <2>4. ~DigestRows(c) /\ ~DigestSift(c) /\ ~DigestSend(c)
    BY <2>1 DEF DigestRows, DigestSift, DigestSend
  <2>5. ~DigestSent(c) /\ ~HandOn(c) /\ ~DigestHold(c) /\ ~DigestLater(c)
    BY <2>1 DEF DigestSent, HandOn, DigestHold, DigestLater
  <2> QED BY <2>1, <2>2, <2>3, <2>4, <2>5 DEF ConsumerStep
<1>4. ASSUME NEW c \in Consumers PROVE ~RedisFails(c) /\ ~PublishFails(c)
  BY NoFault DEF WAlone, RedisFails, PublishFails
<1>5. ASSUME NEW p \in Procs PROVE ~DatabaseFails(p)
  BY NoFault DEF WAlone, DatabaseFails
<1>6. ~Crash
  BY NoFault DEF WAlone, Crash
<1>7. ASSUME WorkerStep PROVE WInv'
  BY <1>7, WTick, WFindDue, WSweepNext, WScan, WSend, WRecord DEF WorkerStep
<1>8. ASSUME Wait PROVE WInv'
  BY <1>8, WUntouched DEF Wait, history
<1>9. ASSUME ClockEnd PROVE WInv'
  BY <1>9, WUntouched DEF ClockEnd, vars
<1> QED BY <1>1, <1>2, <1>3, <1>4, <1>5, <1>6, <1>7, <1>8, <1>9 DEF Step

-----------------------------------------------------------------------------
(* The queue alone. *)

QAlone == Undisturbed /\ DigestWindow = 0 /\ QueueOn /\ ~WorkerOn /\ setup.announces <= 1 /\ IInv /\ QInv

\* Facts about a consumer.
LEMMA QMe ==
    ASSUME QAlone, NEW c \in Consumers, NEW me, me = proc[c]
    PROVE  /\ HandlerOK(c, me) /\ me \in Process /\ QHandler(me) /\ c \in Procs /\ c # "worker" /\ me.m \in Messengers
           /\ me.pc # "idle" => me.id \in Notices /\ JobOK(me.job)
BY ConsumerFacts, Constants DEF QAlone, QInv, QHandler

\* A step of a consumer.
LEMMA QSet ==
    ASSUME QAlone, NEW c \in Consumers, NEW b, Set(c, b)
    PROVE  proc'["worker"].pc = "idle" /\ proc'[c] = b /\ \A d \in Consumers : d # c => proc'[d] = proc[d]
<1>1. proc \in [Procs -> Process] /\ c # "worker" /\ c \in Procs /\ "worker" \in Procs /\ Consumers \subseteq Procs
  BY Constants DEF QAlone, IInv, ProcOK, Procs
<1>2. proc' = [proc EXCEPT ![c] = b]
  BY DEF Set
<1>3. proc'["worker"] = proc["worker"] /\ proc'[c] = b /\ \A d \in Consumers : d # c => proc'[d] = proc[d]
  BY <1>1, <1>2
<1> QED BY <1>3 DEF QAlone, QInv

\* What a consumer knows stays so while nobody writes the row of its notice.
LEMMA QHandlerKept ==
    ASSUME NEW me, QHandler(me), me \in Process, \A j \in me.out : JobOK(j),
           me.id \in Notices => /\ notice'[me.id] = notice[me.id] /\ tried[me.id] \subseteq tried'[me.id]
                                /\ created'[me.id] = created[me.id] /\ (me.id \in taken => me.id \in taken'),
           now' \in Int, now \in Int, now <= now', created \in [Notices -> 0..MaxTime]
    PROVE  QHandler(me)'
<1>1. \A j \in me.out : j.kind = "send" => j.id \in Notices
  BY DEF JobOK
<1>2. me.out # {} => me.id \in Notices
  BY <1>1 DEF QHandler
<1>3. me.pc # "idle" => me.id \in Notices
  BY DEF QHandler
<1>4. me.id \in Notices /\ Stale(me.id, now) => Stale(me.id, now)'
  BY Constants DEF Stale
<1>5. me.id \in Notices => tried[me.id] \subseteq tried'[me.id] /\ (me.id \in taken => me.id \in taken')
  OBVIOUS
<1>6. me.pc = "record" /\ me.ans = "unlinked" => me.m \in tried'[me.id] \/ me.id \in taken'
  BY <1>3, <1>5 DEF QHandler
<1>7. \A r, m : Leading(r, m) = Leading(r, m)'
  BY DEF Leading
<1>8. me.id \in Notices => \A m : Leading(notice[me.id], m) = Leading(notice[me.id], m)'
  BY DEF Leading
<1>9. me.pc \in {"send", "record"} /\ ~me.open => me.id \in taken'
  BY <1>3, <1>5 DEF QHandler
<1> QED BY <1>2, <1>3, <1>4, <1>6, <1>7, <1>8, <1>9 DEF QHandler

\* A consumer that has not the turn of its notice does not depend on the row.
LEMMA QHandlerFree == ASSUME NEW me, QHandler(me), ~Carries(me, me.id) PROVE QHandler(me)'
<1>1. me.pc = "idle" \/ (me.pc = "follow" /\ me.out = {})
  BY DEF QHandler, Carries
<1>2. me.out = {}
  BY <1>1 DEF QHandler
<1> QED BY <1>1, <1>2 DEF QHandler

\* A step about one notice.
Local(n) ==
    /\ now' = now /\ setup' = setup
    /\ \A k \in Notices : k # n => /\ notice'[k] = notice[k] /\ ann'[k] = ann[k] /\ announces'[k] = announces[k]
                                   /\ got'[k] = got[k] /\ tried'[k] = tried[k] /\ created'[k] = created[k]
                                   /\ (k \in taken' <=> k \in taken)
    /\ \A d \in Consumers : proc'[d] # proc[d] => /\ proc[d].id = n \/ proc[d].pc = "idle"
                                                  /\ proc'[d].id = n \/ proc'[d].pc = "idle"
    /\ \A j \in BagToSet(queue) \cup BagToSet(queue') :
          j.id # n => j \in BagToSet(queue) /\ j \in BagToSet(queue') /\ queue'[j] = queue[j]

\* It leaves the other notices alone.
LEMMA QElsewhere ==
    ASSUME QAlone, NEW n \in Notices, Local(n)
    PROVE  /\ \A k \in Notices : k # n => QTurn(k)' /\ QGot(k)' /\ QPassed(k)' /\ QKept(k)'
           /\ \A j \in BagToSet(queue') : j.id # n => QJob(j)'
<1>1. ASSUME NEW k \in Notices, k # n, NEW d \in Consumers PROVE Carries(proc'[d], k) <=> Carries(proc[d], k)
  BY <1>1 DEF Local, Carries
<1>2. ASSUME NEW k \in Notices, k # n PROVE QTurn(k)'
  <2>1. QTurn(k)
    BY DEF QAlone, QInv
  <2>2. /\ notice'[k] = notice[k] /\ ann'[k] = ann[k] /\ announces'[k] = announces[k]
        /\ got'[k] = got[k] /\ created'[k] = created[k]
    BY <1>2 DEF Local
  <2>3. \A m : Leading(notice[k], m) => Leading(notice[k], m)'
    BY <2>2 DEF Leading
  <2> QED BY <1>1, <1>2, <2>1, <2>2, <2>3 DEF QTurn
<1>3. ASSUME NEW k \in Notices, k # n PROVE QGot(k)'
  <2>1. QGot(k)
    BY DEF QAlone, QInv
  <2>2. notice'[k] = notice[k] /\ got'[k] = got[k]
    BY <1>3 DEF Local
  <2>3. ASSUME NEW d \in Consumers, proc[d].pc = "record", proc[d].id = k PROVE proc'[d] = proc[d]
    BY <1>3, <2>3 DEF Local
  <2> QED BY <2>1, <2>2, <2>3 DEF QGot
<1>4. ASSUME NEW k \in Notices, k # n PROVE QPassed(k)'
  BY <1>4 DEF QAlone, QInv, QPassed, Local, Routes
<1>5. ASSUME NEW k \in Notices, k # n PROVE QKept(k)'
  <2>1. QKept(k)
    BY DEF QAlone, QInv
  <2>2. /\ notice'[k] = notice[k] /\ ann'[k] = ann[k] /\ created'[k] = created[k] /\ (k \in taken' <=> k \in taken) /\ now' = now
    BY <1>5 DEF Local
  <2>3. Stale(k, now)' = Stale(k, now)
    BY <2>2 DEF Stale
  <2>4. \A j \in BagToSet(queue) : j.id = k => j \in BagToSet(queue')
    BY <1>5 DEF Local
  <2>5. \A d \in Consumers : Carries(proc[d], k) => Carries(proc'[d], k)
    BY <1>1, <1>5
  <2> QED BY <2>1, <2>2, <2>3, <2>4, <2>5 DEF QKept
<1>6. ASSUME NEW j \in BagToSet(queue'), j.id # n PROVE QJob(j)'
  <2>1. j \in BagToSet(queue) /\ queue'[j] = queue[j]
    BY <1>6 DEF Local
  <2>2. QJob(j) /\ JobOK(j) /\ \A i \in BagToSet(queue) : JobOK(i)
    BY <2>1 DEF QAlone, QInv, IInv, QueueOK
  <2>3. j.id \in Notices
    BY <2>2 DEF QJob, JobOK
  <2>4. /\ notice'[j.id] = notice[j.id] /\ ann'[j.id] = ann[j.id] /\ announces'[j.id] = announces[j.id]
    BY <1>6, <2>3 DEF Local
  <2>5. \A d \in Consumers : ~Carries(proc'[d], j.id)
    BY <1>1, <1>6, <2>2, <2>3 DEF QJob
  <2>6. \A i \in BagToSet(queue') : i.id = j.id => i \in BagToSet(queue)
    BY <1>6 DEF Local
  <2>7. Leading(notice'[j.id], j.m)
    BY <2>2, <2>4 DEF QJob
  <2> QED BY <2>1, <2>2, <2>4, <2>5, <2>6, <2>7 DEF QJob
<1> QED BY <1>2, <1>3, <1>4, <1>5, <1>6

\* The consumers that have nothing to do with it.
LEMMA QBystanders ==
    ASSUME QAlone, IInv', NEW n \in Notices, Local(n), NEW d \in Consumers, proc'[d] = proc[d], ~Carries(proc[d], n)
    PROVE  QHandler(proc[d])'
<1>1. PICK me : me = proc[d]
  OBVIOUS
<1>2. QHandler(me) /\ me \in Process /\ HandlerOK(d, me) /\ ~Carries(me, n)
  BY <1>1, QMe
<1>3. CASE me.id = n
  <2>1. QHandler(me)'
    BY <1>2, <1>3, QHandlerFree
  <2> QED BY <1>1, <2>1
<1>4. CASE me.id # n
  <2>1. \A j \in me.out : JobOK(j)
    BY <1>2 DEF HandlerOK
  <2>2. me.id \in Notices => /\ notice'[me.id] = notice[me.id] /\ tried[me.id] \subseteq tried'[me.id]
                             /\ created'[me.id] = created[me.id] /\ (me.id \in taken => me.id \in taken')
    BY <1>4 DEF Local
  <2>3. now' \in Int /\ now \in Int /\ now <= now' /\ created \in [Notices -> 0..MaxTime]
    BY Constants DEF Local, QAlone, IInv, RestOK
  <2>4. QHandler(me)'
    BY <1>2, <2>1, <2>2, <2>3, QHandlerKept
  <2> QED BY <1>1, <2>4
<1> QED BY <1>3, <1>4

\* The whole invariant from its parts at the notice of the step.
LEMMA QTogether ==
    ASSUME QAlone, NEW n \in Notices, Local(n), proc'["worker"].pc = "idle",
           \A d \in Consumers : QHandler(proc[d])',
           \A j \in BagToSet(queue') : j.id = n => QJob(j)',
           QTurn(n)', QGot(n)', QPassed(n)', QKept(n)'
    PROVE  QInv'
<1>1. \A k \in Notices : QTurn(k)' /\ QGot(k)' /\ QPassed(k)' /\ QKept(k)'
  BY QElsewhere
<1>2. \A j \in BagToSet(queue') : QJob(j)'
  BY QElsewhere
<1> QED BY <1>1, <1>2 DEF QInv

LEMMA AddOne ==
    ASSUME NEW B, IsABag(B), NEW j, j \notin BagToSet(B), NEW D, D = B (+) SetToBag({j})
    PROVE  BagToSet(D) = BagToSet(B) \cup {j} /\ D[j] = 1 /\ \A e \in BagToSet(B) : D[e] = B[e]
<1>1. PICK C : C = SetToBag({j})
  OBVIOUS
<1>2. DOMAIN C = {j} /\ C[j] = 1
  BY <1>1 DEF SetToBag
<1>3. D = B (+) C
  BY <1>1
<1>4. D = [e \in (DOMAIN B) \cup (DOMAIN C) |-> (IF e \in DOMAIN B THEN B[e] ELSE 0) + (IF e \in DOMAIN C THEN C[e] ELSE 0)]
  BY <1>3 DEF (+)
<1>5. \A e \in DOMAIN B : B[e] \in Nat
  BY DEF IsABag
<1>6. DOMAIN D = DOMAIN B \cup {j}
  BY <1>2, <1>4
<1>7. D[j] = 1 /\ \A e \in DOMAIN B : D[e] = B[e]
  <2>1. j \notin DOMAIN B
    BY DEF BagToSet
  <2>2. D[j] = 1
    BY ONLY <1>2, <1>4, <2>1
  <2>3. \A e \in DOMAIN B : D[e] = B[e]
    BY ONLY <1>2, <1>4, <1>5, <2>1
  <2> QED BY <2>2, <2>3
<1> QED BY <1>6, <1>7 DEF BagToSet

LEMMA TakeOne ==
    ASSUME NEW B, IsABag(B), NEW j \in BagToSet(B), B[j] = 1, NEW D, D = B (-) SetToBag({j})
    PROVE  BagToSet(D) = BagToSet(B) \ {j} /\ \A e \in BagToSet(B) \ {j} : D[e] = B[e]
<1>1. PICK C : C = SetToBag({j})
  OBVIOUS
<1>2. DOMAIN C = {j} /\ C[j] = 1 /\ IsABag(C) /\ BagToSet(C) = {j}
  BY <1>1, OneBag DEF SetToBag
<1>3. /\ BagToSet(B (-) C) \subseteq BagToSet(B)
      /\ \A e \in BagToSet(B) : e \notin BagToSet(C) => e \in BagToSet(B (-) C) /\ (B (-) C)[e] = B[e]
      /\ \A e \in BagToSet(C) \cap BagToSet(B) : C[e] = B[e] => e \notin BagToSet(B (-) C)
  BY <1>2, TakeBag
<1>4. j \notin BagToSet(B (-) C)
  BY <1>2, <1>3
<1> QED BY <1>1, <1>2, <1>3, <1>4

LEMMA QTyped ==
    ASSUME QAlone
    PROVE  /\ notice \in [Notices -> Row] /\ created \in [Notices -> 0..MaxTime] /\ taken \subseteq Notices
           /\ ann \in [Notices -> [pc : {"idle", "rows", "queue", "schedule"}, m : Messengers]]
           /\ announces \in [Notices -> 0..setup.announces] /\ setup.announces \in Nat /\ setup.announces <= 1
           /\ got \in [Notices -> 0..2] /\ tried \in [Notices -> SUBSET Messengers] /\ now \in 1..MaxTime
           /\ IsABag(queue) /\ Routes \subseteq Messengers
           /\ \A n \in Notices : QTurn(n) /\ QGot(n) /\ QPassed(n) /\ QKept(n)
           /\ \A j \in BagToSet(queue) : QJob(j) /\ j \in Job /\ j.id \in Notices /\ j.m \in Messengers
           /\ proc["worker"].pc = "idle"
<1>1. \A j \in BagToSet(queue) : QJob(j) /\ JobOK(j)
  BY DEF QAlone, QInv, IInv, QueueOK
<1>2. \A j \in BagToSet(queue) : j \in Job /\ j.id \in Notices /\ j.m \in Messengers
  BY <1>1 DEF QJob, JobOK, Job
<1>3. /\ notice \in [Notices -> Row] /\ IsABag(queue) /\ Routes \subseteq Messengers /\ setup.announces \in Nat
      /\ ann \in [Notices -> [pc : {"idle", "rows", "queue", "schedule"}, m : Messengers]]
  BY DEF QAlone, IInv, RowsOK, QueueOK, SetupOK, AnnOK, Routes
<1>4. /\ created \in [Notices -> 0..MaxTime] /\ taken \subseteq Notices /\ announces \in [Notices -> 0..setup.announces]
      /\ got \in [Notices -> 0..2] /\ tried \in [Notices -> SUBSET Messengers] /\ now \in 1..MaxTime
  BY DEF QAlone, IInv, RestOK
<1> QED BY <1>1, <1>2, <1>3, <1>4 DEF QAlone, QInv

LEMMA QAnnounce == ASSUME QAlone, IInv', UNCHANGED setup, NEW n \in Notices, Announce(n) PROVE QInv'
<1>1. announces[n] = 0
  <2>1. announces[n] \in 0..setup.announces /\ announces[n] < setup.announces /\ setup.announces <= 1 /\ setup.announces \in Nat
    BY QTyped DEF Announce
  <2> QED BY <2>1
<1>2. ann[n].pc = "idle" /\ got[n] = 0 /\ created[n] = NoTime /\ \A c \in Consumers : ~Carries(proc[c], n)
  BY <1>1, QTyped DEF QTurn
<1>3. \A j \in BagToSet(queue) : j.id # n
  BY <1>1, QTyped DEF QJob
<1>4. proc' = proc /\ queue' = queue /\ got' = got /\ tried' = tried /\ taken' = taken /\ now' = now
  BY DEF Announce, history
<1>5. announces' = [announces EXCEPT ![n] = announces[n] + 1] /\ ann' = [ann EXCEPT ![n] = [pc |-> "rows", m |-> 1]]
  BY DEF Announce, AtAnn
<1>6. announces'[n] = 1 /\ ann'[n].pc = "rows" /\ \A k \in Notices : k # n => announces'[k] = announces[k] /\ ann'[k] = ann[k]
  BY <1>1, <1>5, QTyped
<1>7. PICK row : row = [m \in Messengers |-> IF m \in Routes THEN [Unset[m] EXCEPT !.status = "PENDING"] ELSE Unset[m]]
  OBVIOUS
<1>8. created' = [created EXCEPT ![n] = now] /\ notice' = [notice EXCEPT ![n] = row]
  BY <1>2, <1>7 DEF Announce
<1>9. notice'[n] = row /\ \A k \in Notices : k # n => notice'[k] = notice[k] /\ created'[k] = created[k]
  BY <1>8, QTyped
<1>10. Local(n)
  BY <1>4, <1>6, <1>9 DEF Local
<1>11. \A d \in Consumers : QHandler(proc[d])'
  BY <1>2, <1>4, <1>10, QBystanders
<1>12. QTurn(n)'
  BY <1>2, <1>4, <1>6 DEF QTurn
<1>13. QGot(n)'
  BY <1>2, <1>4 DEF QGot
<1>14. \A m \in Routes : row[m].status = "PENDING"
  BY <1>7, QTyped DEF Unset
<1>15. QPassed(n)'
  BY <1>9, <1>14 DEF QPassed, Routes
<1>16. QKept(n)'
  BY <1>6 DEF QKept
<1>17. proc'["worker"].pc = "idle"
  BY <1>4, QTyped
<1> QED BY <1>3, <1>4, <1>10, <1>11, <1>12, <1>13, <1>15, <1>16, <1>17, QTogether

LEMMA QAnnounceRows == ASSUME QAlone, IInv', UNCHANGED setup, NEW n \in Notices, AnnounceRows(n) PROVE QInv'
<1>1. /\ proc' = proc /\ queue' = queue /\ got' = got /\ tried' = tried /\ taken' = taken /\ now' = now
      /\ notice' = notice /\ created' = created /\ announces' = announces /\ ann[n].pc = "rows"
  BY DEF AnnounceRows, history
<1>2. announces[n] # 0 /\ \A c \in Consumers : ~Carries(proc[c], n)
  BY <1>1, QTyped DEF QTurn
<1>3. \A j \in BagToSet(queue) : j.id # n
  BY <1>1, QTyped DEF QJob
<1>4. /\ \A k \in Notices : k # n => ann'[k] = ann[k]
      /\ \/ ann'[n].pc = "idle" /\ (AnySent(notice[n]) \/ Pending(notice[n]) = {})
         \/ ann'[n] = [pc |-> "queue", m |-> First(Pending(notice[n]))] /\ ~AnySent(notice[n]) /\ Pending(notice[n]) # {}
  <2>1. ann \in [Notices -> [pc : {"idle", "rows", "queue", "schedule"}, m : Messengers]]
    BY QTyped
  <2> QED BY <2>1 DEF AnnounceRows, AtAnn
<1>5. Local(n)
  BY <1>1, <1>4 DEF Local
<1>6. \A d \in Consumers : QHandler(proc[d])'
  BY <1>1, <1>2, <1>5, QBystanders
<1>7. QTurn(n)'
  <2>1. ann'[n].pc = "queue" => Leading(notice[n], ann'[n].m)
    <3>1. SUFFICES ASSUME ann'[n].pc = "queue" PROVE Leading(notice[n], ann'[n].m)
      OBVIOUS
    <3>2. ann'[n].m = First(Pending(notice[n])) /\ ~AnySent(notice[n]) /\ Pending(notice[n]) # {}
      BY <1>4, <3>1
    <3>3. Pending(notice[n]) \in SUBSET Messengers
      BY DEF Pending
    <3>4. ann'[n].m \in Pending(notice[n]) /\ \A k \in Pending(notice[n]) : ann'[n].m <= k
      BY <3>2, <3>3, FirstFacts
    <3> QED BY <3>2, <3>4 DEF Leading, Pending
  <2>2. ann'[n].pc \in {"idle", "queue"}
    BY <1>4
  <2>3. (ann[n].pc = "queue" => Leading(notice[n], ann[n].m))'
    BY <1>1, <2>1
  <2> QED BY <1>1, <1>2, <2>2, <2>3 DEF QTurn
<1>8. QGot(n)'
  BY <1>1, QTyped DEF QGot
<1>9. QPassed(n)'
  BY <1>1, QTyped DEF QPassed, Routes
<1>10. QKept(n)'
  BY <1>1, <1>4 DEF QKept
<1>11. proc'["worker"].pc = "idle"
  BY <1>1, QTyped
<1> QED BY <1>1, <1>3, <1>5, <1>6, <1>7, <1>8, <1>9, <1>10, <1>11, QTogether

LEMMA QAnnounceQueue == ASSUME QAlone, IInv', UNCHANGED setup, NEW n \in Notices, AnnounceQueue(n) PROVE QInv'
<1>1. /\ proc' = proc /\ got' = got /\ tried' = tried /\ taken' = taken /\ now' = now
      /\ notice' = notice /\ created' = created /\ announces' = announces /\ ann[n].pc = "queue"
  BY DEF AnnounceQueue, history
<1>2. PICK j : j = SendJob(n, ann[n].m)
  OBVIOUS
<1>3. queue' = queue (+) SetToBag({j}) /\ ann' = [ann EXCEPT ![n] = [pc |-> "idle", m |-> 1]]
  BY <1>2, NoFault DEF AnnounceQueue, AtAnn, QAlone
<1>4. announces[n] # 0 /\ (\A c \in Consumers : ~Carries(proc[c], n)) /\ Leading(notice[n], ann[n].m)
  BY <1>1, QTyped DEF QTurn
<1>5. \A i \in BagToSet(queue) : i.id # n
  BY <1>1, QTyped DEF QJob
<1>6. j.id = n /\ j.kind = "send" /\ j.m = ann[n].m
  BY <1>2 DEF SendJob
<1>7. BagToSet(queue') = BagToSet(queue) \cup {j} /\ queue'[j] = 1 /\ \A e \in BagToSet(queue) : queue'[e] = queue[e]
  <2>1. j \notin BagToSet(queue) /\ IsABag(queue)
    BY <1>5, <1>6, QTyped
  <2> QED BY <1>3, <2>1, AddOne
<1>8. ann'[n].pc = "idle" /\ \A k \in Notices : k # n => ann'[k] = ann[k]
  BY <1>3, QTyped
<1>9. Local(n)
  BY <1>1, <1>6, <1>7, <1>8 DEF Local
<1>10. \A d \in Consumers : QHandler(proc[d])'
  BY <1>1, <1>4, <1>9, QBystanders
<1>11. Leading(notice'[n], j.m)
  BY <1>1, <1>4, <1>6
<1>12. \A i \in BagToSet(queue') : i.id = n => i = j
  BY <1>5, <1>7
<1>13. QJob(j)'
  BY <1>1, <1>4, <1>6, <1>7, <1>8, <1>11, <1>12 DEF QJob
<1>14. QTurn(n)'
  BY <1>1, <1>4, <1>8 DEF QTurn
<1>15. QGot(n)'
  BY <1>1, QTyped DEF QGot
<1>16. QPassed(n)'
  BY <1>1, QTyped DEF QPassed, Routes
<1>17. QKept(n)'
  BY <1>6, <1>7 DEF QKept
<1>18. proc'["worker"].pc = "idle"
  BY <1>1, QTyped
<1>19. \A i \in BagToSet(queue') : i.id = n => QJob(i)'
  BY <1>12, <1>13
<1> QED BY <1>9, <1>10, <1>14, <1>15, <1>16, <1>17, <1>18, <1>19, QTogether

LEMMA QLoadTaken == ASSUME QAlone, UNCHANGED setup, NEW n \in Notices, LoadTaken(n) PROVE QInv'
<1>1. /\ proc' = proc /\ queue' = queue /\ got' = got /\ tried' = tried /\ taken \subseteq taken' /\ now' = now
      /\ notice' = notice /\ created' = created /\ announces' = announces /\ ann' = ann
  BY DEF LoadTaken, history
<1>2. ASSUME NEW d \in Consumers PROVE QHandler(proc[d])'
  <2>1. PICK me : me = proc[d]
    OBVIOUS
  <2>2. QHandler(me) /\ me \in Process /\ \A j \in me.out : JobOK(j)
    BY <2>1, QMe DEF HandlerOK
  <2>3. now' \in Int /\ now \in Int /\ now <= now' /\ created \in [Notices -> 0..MaxTime]
    BY <1>1, QTyped
  <2>4. me.id \in Notices => /\ notice'[me.id] = notice[me.id] /\ tried[me.id] \subseteq tried'[me.id]
                             /\ created'[me.id] = created[me.id] /\ (me.id \in taken => me.id \in taken')
    BY <1>1
  <2>5. QHandler(me)'
    BY <2>2, <2>3, <2>4, QHandlerKept
  <2> QED BY <1>1, <2>1, <2>5
<1>3. \A j \in BagToSet(queue') : QJob(j)'
  BY <1>1, QTyped DEF QJob, Leading
<1>4. \A k \in Notices : QTurn(k)'
  BY <1>1, QTyped DEF QTurn, Leading
<1>5. \A k \in Notices : QGot(k)'
  BY <1>1, QTyped DEF QGot
<1>6. \A k \in Notices : QPassed(k)'
  BY <1>1, QTyped DEF QPassed, Routes
<1>7. \A k \in Notices : QKept(k)'
  BY <1>1, QTyped DEF QKept, Stale
<1>8. proc'["worker"].pc = "idle"
  BY <1>1, QTyped
<1> QED BY <1>2, <1>3, <1>4, <1>5, <1>6, <1>7, <1>8 DEF QInv

LEMMA QWait ==
    ASSUME QAlone, UNCHANGED <<setup, proc, queue, got, tried, taken, notice, created, announces, ann>>, now' \in Int, now <= now'
    PROVE  QInv'
<1>1. now \in Int /\ created \in [Notices -> 0..MaxTime]
  BY QTyped
<1>2. ASSUME NEW d \in Consumers PROVE QHandler(proc[d])'
  <2>1. PICK me : me = proc[d]
    OBVIOUS
  <2>2. QHandler(me) /\ me \in Process /\ \A j \in me.out : JobOK(j)
    BY <2>1, QMe DEF HandlerOK
  <2>3. me.id \in Notices => /\ notice'[me.id] = notice[me.id] /\ tried[me.id] \subseteq tried'[me.id]
                             /\ created'[me.id] = created[me.id] /\ (me.id \in taken => me.id \in taken')
    OBVIOUS
  <2>4. QHandler(me)'
    BY <1>1, <2>2, <2>3, QHandlerKept
  <2> QED BY <2>1, <2>4
<1>3. \A j \in BagToSet(queue') : QJob(j)'
  BY QTyped DEF QJob, Leading
<1>4. \A k \in Notices : QTurn(k)'
  BY QTyped DEF QTurn, Leading
<1>5. \A k \in Notices : QGot(k)'
  BY QTyped DEF QGot
<1>6. \A k \in Notices : QPassed(k)'
  BY QTyped DEF QPassed, Routes
<1>7. \A k \in Notices : Stale(k, now) => Stale(k, now)'
  BY <1>1, Constants DEF Stale
<1>8. \A k \in Notices : QKept(k)'
  BY <1>7, QTyped DEF QKept
<1>9. proc'["worker"].pc = "idle"
  BY QTyped
<1> QED BY <1>2, <1>3, <1>4, <1>5, <1>6, <1>8, <1>9 DEF QInv

LEMMA QTake ==
    ASSUME QAlone, IInv', UNCHANGED setup, NEW c \in Consumers, NEW j \in BagToSet(queue), Take(c, j)
    PROVE  QInv'
<1>1. PICK n : n = j.id
  OBVIOUS
<1>2. QJob(j) /\ j \in Job /\ n \in Notices /\ j.m \in Messengers /\ IsABag(queue)
  BY <1>1, QTyped
<1>3. /\ j.kind = "send" /\ queue[j] = 1 /\ Leading(notice[n], j.m) /\ ann[n].pc = "idle" /\ announces[n] # 0
      /\ (\A d \in Consumers : ~Carries(proc[d], n)) /\ \A i \in BagToSet(queue) : i.id = n => i = j
  BY <1>1, <1>2 DEF QJob
<1>4. /\ got' = got /\ tried' = tried /\ taken' = taken /\ now' = now /\ notice' = notice /\ created' = created
      /\ announces' = announces /\ ann' = ann /\ proc[c].pc = "idle" /\ queue' = queue (-) SetToBag({j})
  BY DEF Take, history
<1>5. BagToSet(queue') = BagToSet(queue) \ {j} /\ \A e \in BagToSet(queue) \ {j} : queue'[e] = queue[e]
  BY <1>2, <1>3, <1>4, TakeOne
<1>6. PICK b : b = Opened(j)
  OBVIOUS
<1>7. Set(c, b)
  BY <1>3, <1>6 DEF Take
<1>8. proc'["worker"].pc = "idle" /\ proc'[c] = b /\ \A d \in Consumers : d # c => proc'[d] = proc[d]
  BY <1>7, QSet
<1>9. notice[n][j.m].status = "PENDING" /\ ~AnySent(notice[n])
  BY <1>3 DEF Leading
<1>10. /\ b.id = n /\ b.job = j /\ b.copy = notice[n] /\ b.m = j.m /\ b.out = {} /\ b.open = (n \notin taken)
       /\ \/ b.pc = "close" /\ b.ans = "FAILED" /\ Stale(n, now)
          \/ b.pc = "send" /\ b.ans = "none"
  <2>1. PICK me : me = [Idle EXCEPT !.job = j, !.id = j.id, !.copy = notice[j.id], !.m = j.m, !.open = j.id \notin taken]
    OBVIOUS
  <2>2. /\ me = [pc |-> "idle", job |-> j, id |-> j.id, copy |-> notice[j.id], m |-> j.m, open |-> (j.id \notin taken),
                 ans |-> "none", todo |-> {}, ids |-> {}, rows |-> {}, out |-> {}, at |-> NoTime, has |-> FALSE]
    BY <2>1 DEF Idle
  <2>3. me.copy[j.m].status = "PENDING" /\ ~AnySent(me.copy)
    BY <1>1, <1>9, <2>2
  <2>4. CASE Stale(n, now)
    <3>1. b = [me EXCEPT !.pc = "close", !.ans = "FAILED"]
      BY <1>1, <1>6, <2>1, <2>3, <2>4 DEF Opened
    <3> QED BY <1>1, <2>2, <2>4, <3>1
  <2>5. CASE ~Stale(n, now)
    <3>1. DigestWindow = 0
      BY DEF QAlone
    <3>2. b = [me EXCEPT !.pc = "send"]
      BY <1>1, <1>6, <2>1, <2>3, <2>5, <3>1 DEF Opened
    <3> QED BY <1>1, <2>2, <3>2
  <2> QED BY <2>4, <2>5
<1>11. Local(n)
  BY <1>1, <1>3, <1>4, <1>5, <1>8, <1>10 DEF Local
<1>12. \A d \in Consumers : d # c => QHandler(proc[d])'
  BY <1>2, <1>3, <1>8, <1>11, QBystanders
<1>13. QHandler(b)
  BY <1>1, <1>2, <1>3, <1>10 DEF QHandler
<1>14. QHandler(b)'
  BY <1>4, <1>13 DEF QHandler, Leading, Stale
<1>15. \A d \in Consumers : QHandler(proc[d])'
  BY <1>8, <1>12, <1>14
<1>16. \A d \in Consumers : Carries(proc'[d], n) => d = c
  BY <1>3, <1>8
<1>17. QTurn(n)'
  BY <1>2, <1>3, <1>4, <1>16, QTyped DEF QTurn
<1>18. QGot(n)'
  <2>1. \A d \in Consumers : proc[d].pc = "record" => proc'[d] = proc[d]
    BY <1>4, <1>8
  <2> QED BY <1>2, <1>4, <2>1, QTyped DEF QGot
<1>19. QPassed(n)'
  BY <1>2, <1>4, QTyped DEF QPassed, Routes
<1>20. Carries(proc'[c], n)
  BY <1>8, <1>10 DEF Carries
<1>21. QKept(n)'
  BY <1>20 DEF QKept
<1>22. \A i \in BagToSet(queue') : i.id # n
  BY <1>3, <1>5
<1> QED BY <1>2, <1>8, <1>11, <1>15, <1>17, <1>18, <1>19, <1>21, <1>22, QTogether

\* The consumer that has the turn of a notice is the only one that has it.
LEMMA QCarrier ==
    ASSUME QAlone, NEW c \in Consumers, NEW n \in Notices, Carries(proc[c], n)
    PROVE  /\ ann[n].pc = "idle" /\ announces[n] # 0 /\ \A d \in Consumers : d # c => ~Carries(proc[d], n)
           /\ \A j \in BagToSet(queue) : j.id # n
           /\ got[n] = 1 => AnySent(notice[n]) \/ (proc[c].pc = "record" /\ proc[c].ans = "sent")
<1>1. ann[n].pc = "idle" /\ announces[n] # 0 /\ \A d \in Consumers : d # c => ~Carries(proc[d], n)
  BY QTyped DEF QTurn
<1>2. \A j \in BagToSet(queue) : j.id # n
  BY QTyped DEF QJob
<1>3. got[n] = 1 => AnySent(notice[n]) \/ \E d \in Consumers : proc[d].pc = "record" /\ proc[d].ans = "sent" /\ proc[d].id = n
  BY QTyped DEF QGot
<1>4. \A d \in Consumers : proc[d].pc = "record" /\ proc[d].id = n => Carries(proc[d], n)
  BY DEF Carries
<1> QED BY <1>1, <1>2, <1>3, <1>4

\* A consumer writes the columns of one messenger of the notice it has the turn of.
LEMMA QCells ==
    ASSUME QAlone, NEW n \in Notices, NEW k \in Messengers, NEW cell, Update(n, k, cell)
    PROVE  /\ \A i \in Notices : i # n => notice'[i] = notice[i]
           /\ \A m \in Messengers : notice'[n][m] = IF m = k THEN cell ELSE notice[n][m]
<1>1. notice \in [Notices -> [Messengers -> Cell]]
  BY QTyped DEF Row
<1> QED BY <1>1 DEF Update

\* The same for a step of it, with what is left to show about its own notice.
LEMMA QConsumes ==
    ASSUME QAlone, IInv', UNCHANGED <<setup, now, created, taken, announces, ann>>,
           NEW c \in Consumers, NEW n \in Notices, proc[c].id = n, Carries(proc[c], n), NEW b, Set(c, b),
           b.id = n \/ b.pc = "idle",
           \A k \in Notices : k # n => notice'[k] = notice[k] /\ got'[k] = got[k] /\ tried'[k] = tried[k],
           \A j \in BagToSet(queue) \cup BagToSet(queue') :
              j.id # n => j \in BagToSet(queue) /\ j \in BagToSet(queue') /\ queue'[j] = queue[j],
           QHandler(b)', \A j \in BagToSet(queue') : j.id = n => QJob(j)', QGot(n)', QPassed(n)', QKept(n)'
    PROVE  QInv'
<1>1. proc'["worker"].pc = "idle" /\ proc'[c] = b /\ \A d \in Consumers : d # c => proc'[d] = proc[d]
  BY QSet
<1>2. ann[n].pc = "idle" /\ announces[n] # 0 /\ \A d \in Consumers : d # c => ~Carries(proc[d], n)
  BY QCarrier
<1>3. Local(n)
  BY <1>1 DEF Local
<1>4. \A d \in Consumers : d # c => QHandler(proc[d])'
  BY <1>1, <1>2, <1>3, QBystanders
<1>5. \A d \in Consumers : QHandler(proc[d])'
  BY <1>1, <1>4
<1>6. \A d \in Consumers : Carries(proc'[d], n) => d = c
  BY <1>1, <1>2
<1>7. ann'[n].pc = "idle" /\ announces'[n] # 0
  BY <1>2
<1>8. QTurn(n)'
  BY <1>6, <1>7 DEF QTurn
<1> QED BY <1>1, <1>3, <1>5, <1>8, QTogether

LEMMA QClose == ASSUME QAlone, IInv', UNCHANGED setup, NEW c \in Consumers, Close(c) PROVE QInv'
<1>1. PICK me : me = proc[c]
  OBVIOUS
<1>2. me.pc = "close" /\ QHandler(me) /\ me \in Process /\ me.m \in Messengers
  BY <1>1, QMe DEF Close
<1>3. PICK n \in Notices : n = me.id
  BY <1>2 DEF QHandler
<1>4. Carries(me, n)
  BY <1>2, <1>3 DEF Carries
<1>5. /\ \A j \in BagToSet(queue) : j.id # n
      /\ got[n] = 1 => AnySent(notice[n])
  BY <1>1, <1>2, <1>4, QCarrier
<1>6. me.copy = notice[n] /\ Leading(notice[n], me.m) /\ me.ans = "FAILED" /\ Stale(n, now)
      /\ me.out = {} /\ me.job.kind = "send" /\ me.job.id = n
  BY <1>2, <1>3 DEF QHandler
<1>7. PICK cell : cell = Closed(notice[n][me.m], "FAILED")
  OBVIOUS
<1>8. notice[n][me.m] \in Cell
  BY <1>2, CellFacts DEF QAlone, IInv
<1>9. cell.status = "FAILED"
  BY <1>7, <1>8, ClosedOK
<1>10. PICK b : b = [me EXCEPT !.pc = "follow"]
  OBVIOUS
<1>11. Update(n, me.m, cell) /\ Set(c, b)
  BY <1>1, <1>3, <1>6, <1>7, <1>10 DEF Close
<1>12. b.pc = "follow" /\ b.out = {} /\ b.id = n /\ b.job = me.job
  BY <1>2, <1>3, <1>6, <1>10 DEF Process
<1>13. UNCHANGED <<setup, now, created, taken, announces, ann, queue, got, tried>>
  BY DEF Close, history
<1>14. /\ \A i \in Notices : i # n => notice'[i] = notice[i]
       /\ \A m \in Messengers : notice'[n][m] = IF m = me.m THEN cell ELSE notice[n][m]
  BY <1>2, <1>11, QCells
<1>15. QHandler(b)'
  BY <1>6, <1>12 DEF QHandler
<1>16. got[n] = 0 /\ ~AnySent(notice[n])
  <2>1. got[n] \in 0..1
    BY QTyped DEF QGot
  <2> QED BY <1>5, <1>6, <2>1 DEF Leading
<1>17. QGot(n)'
  BY <1>13, <1>16 DEF QGot
<1>18. ~AnySent(notice'[n])
  BY <1>9, <1>14, <1>16 DEF AnySent
<1>19. QPassed(n)'
  <2>1. Routes' = Routes /\ Routes \subseteq Messengers
    BY QTyped DEF Routes
  <2> QED BY <1>9, <1>13, <1>14, <1>16, <2>1, QTyped DEF QPassed
<1>20. QKept(n)'
  BY <1>6, <1>13 DEF QKept, Stale
<1> QED BY <1>1, <1>3, <1>4, <1>5, <1>11, <1>12, <1>13, <1>14, <1>15, <1>17, <1>19, <1>20, QConsumes

LEMMA QSend == ASSUME QAlone, IInv', UNCHANGED setup, NEW c \in Consumers, Send(c) PROVE QInv'
<1>1. PICK me : me = proc[c]
  OBVIOUS
<1>2. me.pc = "send" /\ QHandler(me) /\ me \in Process /\ me.m \in Messengers
  BY <1>1, QMe DEF Send
<1>3. PICK n \in Notices : n = me.id
  BY <1>2 DEF QHandler
<1>4. Carries(me, n)
  BY <1>2, <1>3 DEF Carries
<1>5. /\ \A j \in BagToSet(queue) : j.id # n
      /\ got[n] = 1 => AnySent(notice[n])
  BY <1>1, <1>2, <1>4, QCarrier
<1>6. /\ me.copy = notice[n] /\ Leading(notice[n], me.m) /\ me.out = {}
      /\ me.job.kind = "send" /\ me.job.id = n /\ me.job.m = me.m
      /\ (~me.open => n \in taken)
  BY <1>2, <1>3 DEF QHandler
<1>7. PICK ans \in IF me.open THEN AnswersOf(me.m) ELSE {"unlinked"} :
         /\ Set(c, [me EXCEPT !.pc = "record", !.ans = IF ans = "lost" THEN "temporary" ELSE ans])
         /\ got' = IF ans \in {"sent", "lost"} /\ got[me.id] < 2 THEN [got EXCEPT ![me.id] = @ + 1] ELSE got
  BY <1>1 DEF Send
<1>8. ans # "lost"
  BY DEF QAlone, Undisturbed, AnswersOf
<1>9. PICK b : b = [me EXCEPT !.pc = "record", !.ans = ans]
  OBVIOUS
<1>10. Set(c, b) /\ UNCHANGED <<setup, now, created, taken, announces, ann, queue, notice>>
  BY <1>7, <1>8, <1>9 DEF Send
<1>11. b.pc = "record" /\ b.ans = ans /\ b.copy = me.copy /\ b.id = n /\ b.m = me.m
       /\ b.out = {} /\ b.job = me.job /\ b.open = me.open
  BY <1>2, <1>3, <1>6, <1>9 DEF Process
<1>12. /\ \A k \in Notices : k # n => tried'[k] = tried[k]
       /\ me.open => tried'[n] = tried[n] \cup {me.m}
       /\ tried[n] \subseteq tried'[n]
  BY <1>1, <1>3, QTyped DEF Send
<1>13. ~AnySent(notice[n]) /\ got[n] = 0
  <2>1. got[n] \in 0..1
    BY QTyped DEF QGot
  <2> QED BY <1>5, <1>6, <2>1 DEF Leading
<1>14. \A k \in Notices : got'[k] = IF ans = "sent" /\ k = n THEN 1 ELSE got[k]
  BY <1>3, <1>7, <1>8, <1>13, QTyped
<1>15. QHandler(b)'
  <2>1. me.m \in tried'[n] \/ n \in taken'
    BY <1>6, <1>10, <1>12
  <2>2. Leading(notice'[n], me.m)
    BY <1>6, <1>10
  <2> QED BY <1>6, <1>10, <1>11, <2>1, <2>2 DEF QHandler, Leading
<1>16. proc'[c] = b
  BY <1>10, QSet
<1>17. QGot(n)'
  BY <1>11, <1>13, <1>14, <1>16 DEF QGot
<1>18. QPassed(n)'
  BY <1>10, <1>12, QTyped DEF QPassed, Routes
<1>19. Carries(proc'[c], n)
  BY <1>11, <1>16 DEF Carries
<1>20. QKept(n)'
  BY <1>19 DEF QKept
<1>21. \A k \in Notices : k # n => notice'[k] = notice[k] /\ got'[k] = got[k] /\ tried'[k] = tried[k]
  BY <1>10, <1>12, <1>14
<1> QED BY <1>1, <1>3, <1>4, <1>5, <1>10, <1>11, <1>15, <1>17, <1>18, <1>20, <1>21, QConsumes

LEMMA QSkipOthers == ASSUME QAlone, IInv', UNCHANGED setup, NEW c \in Consumers, SkipOthers(c) PROVE QInv'
<1>1. PICK me : me = proc[c]
  OBVIOUS
<1>2. me.pc = "skipOthers" /\ QHandler(me) /\ me \in Process /\ HandlerOK(c, me)
  BY <1>1, QMe DEF SkipOthers
<1>3. PICK n \in Notices : n = me.id
  BY <1>2 DEF QHandler
<1>4. Carries(me, n)
  BY <1>2, <1>3 DEF Carries
<1>5. \A j \in BagToSet(queue) : j.id # n
  BY <1>1, <1>4, QCarrier
<1>6. /\ AnySent(notice[n]) /\ (\A k \in me.todo : notice[n][k].status = "PENDING") /\ me.out = {}
      /\ me.job.kind = "send" /\ me.job.id = n /\ me.todo # {} /\ me.todo \in SUBSET Messengers
  BY <1>2, <1>3, Fields DEF QHandler, HandlerOK
<1>7. PICK k : k = First(me.todo)
  OBVIOUS
<1>8. k \in me.todo /\ k \in Messengers /\ notice[n][k].status = "PENDING"
  BY <1>6, <1>7, FirstFacts
<1>9. PICK cell : cell = Closed(notice[n][k], "SKIPPED")
  OBVIOUS
<1>10. PICK b : b = [me EXCEPT !.todo = me.todo \ {k}, !.pc = IF me.todo = {k} THEN "follow" ELSE "skipOthers"]
  OBVIOUS
<1>11. Update(n, k, cell) /\ Set(c, b)
  BY <1>1, <1>3, <1>7, <1>9, <1>10 DEF SkipOthers
<1>12. b.pc \in {"follow", "skipOthers"} /\ b.out = {} /\ b.id = n /\ b.job = me.job /\ b.todo = me.todo \ {k}
  BY <1>2, <1>3, <1>6, <1>10 DEF Process
<1>13. UNCHANGED <<setup, now, created, taken, announces, ann, queue, got, tried>>
  BY DEF SkipOthers, history
<1>14. /\ \A i \in Notices : i # n => notice'[i] = notice[i]
       /\ \A m \in Messengers : notice'[n][m] = IF m = k THEN cell ELSE notice[n][m]
  BY <1>8, <1>11, QCells
<1>15. AnySent(notice'[n])
  BY <1>6, <1>8, <1>14 DEF AnySent
<1>16. QHandler(b)'
  <2>1. \A m \in b.todo : notice'[n][m].status = "PENDING"
    BY <1>6, <1>12, <1>14
  <2> QED BY <1>6, <1>12, <1>15, <2>1 DEF QHandler
<1>17. QGot(n)'
  BY <1>13, <1>15, QTyped DEF QGot
<1>18. QPassed(n)' /\ QKept(n)'
  BY <1>15 DEF QPassed, QKept
<1> QED BY <1>1, <1>3, <1>4, <1>5, <1>11, <1>12, <1>13, <1>14, <1>16, <1>17, <1>18, QConsumes

LEMMA QRecord == ASSUME QAlone, IInv', UNCHANGED setup, NEW c \in Consumers, Record(c) PROVE QInv'
<1>1. PICK me : me = proc[c]
  OBVIOUS
<1>2. /\ me.pc = "record" /\ QHandler(me) /\ me \in Process /\ me.m \in Messengers /\ c \in Procs /\ c # "worker"
      /\ JobOK(me.job) /\ IInv
  BY <1>1, QMe DEF Record, QAlone
<1>3. PICK n \in Notices : n = me.id
  BY <1>2 DEF QHandler
<1>4. Carries(me, n)
  BY <1>2, <1>3 DEF Carries
<1>5. /\ \A j \in BagToSet(queue) : j.id # n
      /\ got[n] = 1 => AnySent(notice[n]) \/ me.ans = "sent"
  BY <1>1, <1>2, <1>4, QCarrier
<1>6. /\ me.copy = notice[n] /\ Leading(notice[n], me.m) /\ me.out = {}
      /\ me.job.kind = "send" /\ me.job.id = n /\ me.job.m = me.m
      /\ (~me.open => n \in taken) /\ (me.ans = "unlinked" => me.m \in tried[n] \/ n \in taken)
  BY <1>2, <1>3 DEF QHandler
<1>7. /\ notice[n][me.m].status = "PENDING" /\ ~AnySent(notice[n]) /\ \A k \in Pending(notice[n]) : me.m <= k
  BY <1>6 DEF Leading
<1>8. PICK cell : cell = Recorded(me)
  OBVIOUS
<1>9. PICK b : b = AfterQueued(me)
  OBVIOUS
<1>10. Update(n, me.m, cell) /\ Set(c, b)
  BY <1>1, <1>2, <1>3, <1>8, <1>9 DEF Record
<1>11. UNCHANGED <<setup, now, created, taken, announces, ann, queue, got, tried>>
  BY DEF Record, history
<1>12. /\ \A i \in Notices : i # n => notice'[i] = notice[i]
       /\ \A m \in Messengers : notice'[n][m] = IF m = me.m THEN cell ELSE notice[n][m]
  BY <1>2, <1>10, QCells
<1>13. /\ me.ans = "sent" => cell.status = "SENT" /\ Result(me) = "SENT"
       /\ me.ans = "limited" => Result(me) = "PENDING" /\ cell.status = "PENDING"
       /\ me.ans # "limited" => cell.status = Result(me)
       /\ Result(me) = "SENT" => me.ans = "sent"
       /\ Result(me) = "SKIPPED" => me.ans = "unlinked"
  BY <1>1, <1>2, <1>3, <1>7, <1>8, RecordedFacts
<1>14. proc'[c] = b
  BY <1>10, QSet
<1>15. QGot(n)'
  <2>1. got[n] = 1 => AnySent(notice'[n])
    BY <1>2, <1>5, <1>7, <1>12, <1>13 DEF AnySent
  <2> QED BY <1>11, <2>1, QTyped DEF QGot
<1>16. QPassed(n)'
  <2>1. ASSUME created[n] # NoTime, n \notin taken, NEW m \in Routes, notice'[n][m].status = "SKIPPED" PROVE m \in tried[n]
    <3>1. m \in Messengers
      BY QTyped
    <3>2. CASE m = me.m
      <4>1. cell.status = "SKIPPED"
        BY <1>12, <2>1, <3>1, <3>2
      <4>2. me.ans = "unlinked"
        BY <1>13, <4>1
      <4> QED BY <1>6, <2>1, <3>2, <4>2
    <3>3. CASE m # me.m
      BY <1>7, <1>12, <2>1, <3>1, <3>3, QTyped DEF QPassed
    <3> QED BY <3>2, <3>3
  <2>2. Routes' = Routes
    BY DEF Routes
  <2> QED BY <1>11, <2>1, <2>2 DEF QPassed
<1>17. (b.id = n) /\ QHandler(b)' /\ QKept(n)'
  <2>1. CASE Result(me) = "PENDING"
    <3>1. PICK j : j = [me.job EXCEPT !.at = RetryAt(me)]
      OBVIOUS
    <3>2. j.kind = "send" /\ j.id = n /\ j.m = me.m
      BY <1>2, <1>6, <3>1 DEF JobOK, Job
    <3>3. b = [me EXCEPT !.pc = "follow", !.out = {j}]
      BY <1>9, <2>1, <3>1 DEF AfterQueued
    <3>4. b.pc = "follow" /\ b.out = {j} /\ b.id = n /\ b.job = me.job
      BY <1>2, <1>3, <3>3 DEF Process
    <3>5. cell.status = "PENDING"
      BY <1>13, <2>1
    <3>6. \A m \in Messengers : notice'[n][m].status = notice[n][m].status
      BY <1>7, <1>12, <3>5
    <3>7. Leading(notice'[n], me.m)
      BY <1>2, <1>6, <3>6 DEF Leading, AnySent, Pending
    <3>8. QHandler(b)'
      BY <1>6, <3>2, <3>4, <3>7 DEF QHandler
    <3>9. Carries(proc'[c], n)
      BY <1>14, <3>4 DEF Carries
    <3> QED BY <3>4, <3>8, <3>9 DEF QKept
  <2>2. CASE Result(me) = "SENT"
    <3>1. PICK others : others = Pending(me.copy) \ {me.m}
      OBVIOUS
    <3>2. b = [me EXCEPT !.pc = IF others = {} THEN "follow" ELSE "skipOthers", !.todo = others]
      BY <1>9, <2>2, <3>1 DEF AfterQueued
    <3>3. b.pc \in {"follow", "skipOthers"} /\ b.out = {} /\ b.id = n /\ b.job = me.job /\ b.todo = others
      BY <1>2, <1>3, <1>6, <3>2 DEF Process
    <3>4. AnySent(notice'[n])
      BY <1>2, <1>12, <1>13, <2>2 DEF AnySent
    <3>5. \A k \in others : notice'[n][k].status = "PENDING"
      BY <1>6, <1>12, <3>1 DEF Pending
    <3>6. QHandler(b)'
      BY <1>6, <3>3, <3>4, <3>5 DEF QHandler
    <3> QED BY <3>3, <3>4, <3>6 DEF QKept
  <2>3. CASE Result(me) \notin {"PENDING", "SENT"}
    <3>1. PICK later : later = {k \in Pending(me.copy) : k > me.m}
      OBVIOUS
    <3>2. PICK out : out = IF me.open THEN NextJobs(n, me.copy, me.m) ELSE {}
      OBVIOUS
    <3>3. b = [me EXCEPT !.pc = "follow", !.out = out]
      BY <1>3, <1>9, <2>3, <3>2 DEF AfterQueued
    <3>4. b.pc = "follow" /\ b.out = out /\ b.id = n /\ b.job = me.job
      BY <1>2, <1>3, <3>3 DEF Process
    <3>5. cell.status \notin {"PENDING", "SENT"}
      BY <1>13, <2>3
    <3>6. ~AnySent(notice'[n])
      BY <1>7, <1>12, <3>5 DEF AnySent
    <3>7. Pending(notice'[n]) = Pending(notice[n]) \ {me.m}
      BY <1>2, <1>12, <3>5 DEF Pending
    <3>8. later = Pending(notice'[n]) /\ later \in SUBSET Messengers
      <4>1. \A k \in Pending(notice[n]) : k \in Nat /\ me.m \in Nat /\ me.m <= k
        BY <1>2, <1>7 DEF Pending, Messengers
      <4>2. \A k \in Pending(notice[n]) : k > me.m <=> k # me.m
        BY <4>1
      <4> QED BY <1>6, <3>1, <3>7, <4>2 DEF Pending
    <3>9. CASE out = {}
      <4>1. QHandler(b)'
        BY <1>6, <3>4, <3>9 DEF QHandler
      <4>2. me.open => later = {}
        BY <3>1, <3>2, <3>9 DEF NextJobs
      <4>3. QKept(n)'
        BY <1>6, <1>11, <3>8, <4>2 DEF QKept
      <4> QED BY <3>4, <4>1, <4>3
    <3>10. CASE out # {}
      <4>1. later # {} /\ out = {SendJob(n, First(later))}
        BY <3>1, <3>2, <3>10 DEF NextJobs
      <4>2. PICK m : m = First(later)
        OBVIOUS
      <4>3. m \in later /\ \A k \in later : m <= k
        BY <3>8, <4>1, <4>2, FirstFacts
      <4>4. PICK j : j = SendJob(n, m)
        OBVIOUS
      <4>5. j.kind = "send" /\ j.id = n /\ j.m = m /\ out = {j}
        BY <4>1, <4>2, <4>4 DEF SendJob
      <4>6. Leading(notice'[n], m)
        BY <3>6, <3>8, <4>3 DEF Leading, Pending
      <4>7. QHandler(b)'
        BY <1>6, <3>4, <4>5, <4>6 DEF QHandler
      <4>8. Carries(proc'[c], n)
        BY <1>14, <3>4, <3>10 DEF Carries
      <4> QED BY <3>4, <4>7, <4>8 DEF QKept
    <3> QED BY <3>9, <3>10
  <2> QED BY <2>1, <2>2, <2>3
<1> QED BY <1>1, <1>3, <1>4, <1>5, <1>10, <1>11, <1>12, <1>15, <1>16, <1>17, QConsumes

LEMMA QIdle == QHandler(Idle)'
<1>1. Idle.pc = "idle" /\ Idle.out = {}
  BY DEF Idle
<1> QED BY <1>1 DEF QHandler

LEMMA QFollow == ASSUME QAlone, IInv', UNCHANGED setup, NEW c \in Consumers, Follow(c) PROVE QInv'
<1>1. PICK me : me = proc[c]
  OBVIOUS
<1>2. me.pc = "follow" /\ QHandler(me) /\ me \in Process /\ \A j \in me.out : JobOK(j)
  BY <1>1, QMe DEF Follow, HandlerOK
<1>3. PICK n \in Notices : n = me.id
  BY <1>2 DEF QHandler
<1>4. UNCHANGED <<setup, now, created, taken, announces, ann, notice, got, tried>>
  BY DEF Follow, history
<1>5. CASE me.out = {} /\ Set(c, Idle) /\ UNCHANGED queue
  <2>1. proc'["worker"].pc = "idle" /\ proc'[c] = Idle /\ \A d \in Consumers : d # c => proc'[d] = proc[d]
    BY <1>5, QSet
  <2>2. Idle.pc = "idle"
    BY DEF Idle
  <2>3. ~Carries(proc[c], n) /\ ~Carries(proc'[c], n)
    BY <1>1, <1>2, <1>5, <2>1, <2>2 DEF Carries
  <2>4. \A d \in Consumers : Carries(proc'[d], n) <=> Carries(proc[d], n)
    BY <2>1, <2>3
  <2>5. Local(n)
    BY <1>1, <1>3, <1>4, <1>5, <2>1, <2>2 DEF Local
  <2>6. ASSUME NEW d \in Consumers PROVE QHandler(proc[d])'
    <3>1. CASE d = c
      <4>1. QHandler(Idle)'
        BY QIdle
      <4> QED BY <2>1, <3>1, <4>1
    <3>2. CASE d # c
      <4>1. PICK you : you = proc[d]
        OBVIOUS
      <4>2. QHandler(you) /\ you \in Process /\ (\A j \in you.out : JobOK(j)) /\ proc'[d] = you
        BY <2>1, <3>2, <4>1, QMe DEF HandlerOK
      <4>3. now' \in Int /\ now \in Int /\ now <= now' /\ created \in [Notices -> 0..MaxTime]
        BY <1>4, QTyped
      <4>4. you.id \in Notices => /\ notice'[you.id] = notice[you.id] /\ tried[you.id] \subseteq tried'[you.id]
                                  /\ created'[you.id] = created[you.id] /\ (you.id \in taken => you.id \in taken')
        BY <1>4
      <4>5. QHandler(you)'
        BY <4>2, <4>3, <4>4, QHandlerKept
      <4> QED BY <4>2, <4>5
    <3> QED BY <3>1, <3>2
  <2>7. QTurn(n)'
    <3>1. QTurn(n)
      BY QTyped
    <3> QED BY <1>4, <2>4, <3>1 DEF QTurn, Leading
  <2>8. QGot(n)'
    <3>1. QGot(n)
      BY QTyped
    <3>2. \A d \in Consumers : proc[d].pc = "record" => proc'[d] = proc[d]
      BY <1>1, <1>2, <2>1
    <3> QED BY <1>4, <3>1, <3>2 DEF QGot
  <2>9. QPassed(n)'
    BY <1>4, QTyped DEF QPassed, Routes
  <2>10. QKept(n)'
    <3>1. QKept(n)
      BY QTyped
    <3> QED BY <1>4, <1>5, <2>4, <3>1 DEF QKept, Stale
  <2>11. \A j \in BagToSet(queue') : j.id = n => QJob(j)'
    <3>1. ASSUME NEW j \in BagToSet(queue'), j.id = n PROVE QJob(j)'
      <4>1. QJob(j)
        BY <1>5, QTyped
      <4> QED BY <1>4, <1>5, <2>4, <3>1, <4>1 DEF QJob, Leading
    <3> QED BY <3>1
  <2> QED BY <2>1, <2>5, <2>6, <2>7, <2>8, <2>9, <2>10, <2>11, QTogether
<1>6. CASE \E j \in me.out : queue' = queue (+) SetToBag({j}) /\ Set(c, [me EXCEPT !.out = @ \ {j}])
  <2>1. PICK j \in me.out : queue' = queue (+) SetToBag({j}) /\ Set(c, [me EXCEPT !.out = me.out \ {j}])
    BY <1>6
  <2>2. Carries(me, n)
    BY <1>2, <1>3, <2>1 DEF Carries
  <2>3. /\ ann[n].pc = "idle" /\ announces[n] # 0 /\ (\A d \in Consumers : d # c => ~Carries(proc[d], n))
        /\ (\A i \in BagToSet(queue) : i.id # n) /\ (got[n] = 1 => AnySent(notice[n]))
    BY <1>1, <1>2, <2>2, QCarrier
  <2>4. j.kind = "send" /\ j.id = n /\ Leading(notice[n], j.m) /\ me.out = {j} /\ me.job.kind = "send" /\ me.job.id = n
    BY <1>2, <1>3, <2>1 DEF QHandler
  <2>5. PICK b : b = [me EXCEPT !.out = {}]
    OBVIOUS
  <2>6. Set(c, b)
    <3>1. me.out \ {j} = {}
      BY <2>4
    <3> QED BY <2>1, <2>5, <3>1
  <2>7. b.pc = "follow" /\ b.out = {} /\ b.id = n /\ b.job = me.job
    BY <1>2, <1>3, <2>5 DEF Process
  <2>8. BagToSet(queue') = BagToSet(queue) \cup {j} /\ queue'[j] = 1 /\ \A e \in BagToSet(queue) : queue'[e] = queue[e]
    <3>1. j \notin BagToSet(queue) /\ IsABag(queue)
      BY <2>3, <2>4, QTyped
    <3> QED BY <2>1, <3>1, AddOne
  <2>9. QHandler(b)'
    BY <2>4, <2>7 DEF QHandler
  <2>10. proc'[c] = b /\ \A d \in Consumers : d # c => proc'[d] = proc[d]
    BY <2>6, QSet
  <2>11. \A d \in Consumers : ~Carries(proc'[d], n)
    BY <2>3, <2>7, <2>10 DEF Carries
  <2>12. \A i \in BagToSet(queue') : i.id = n => i = j
    BY <2>3, <2>8
  <2>13. Leading(notice'[n], j.m)
    BY <1>4, <2>4
  <2>14. QJob(j)'
    BY <1>4, <2>3, <2>4, <2>8, <2>11, <2>12, <2>13 DEF QJob
  <2>15. QGot(n)'
    BY <1>4, <2>3, QTyped DEF QGot
  <2>16. QPassed(n)'
    BY <1>4, QTyped DEF QPassed, Routes
  <2>17. QKept(n)'
    BY <2>4, <2>8 DEF QKept
  <2>18. \A i \in BagToSet(queue') : i.id = n => QJob(i)'
    BY <2>12, <2>14
  <2>19. \A i \in BagToSet(queue) \cup BagToSet(queue') :
            i.id # n => i \in BagToSet(queue) /\ i \in BagToSet(queue') /\ queue'[i] = queue[i]
    BY <2>4, <2>8
  <2> QED BY <1>1, <1>3, <1>4, <2>2, <2>6, <2>7, <2>9, <2>15, <2>16, <2>17, <2>18, <2>19, QConsumes
<1> QED BY <1>1, <1>5, <1>6 DEF Follow

LEMMA QNext == ASSUME QAlone, IInv', UNCHANGED setup, Step PROVE QInv'
<1>1. ASSUME NEW n \in Notices, Announce(n) \/ AnnouncerStep(n) PROVE QInv'
  <2>1. ~ScheduleRetry(n)
    BY DEF QAlone, QInv, QTurn, ScheduleRetry
  <2> QED BY <1>1, <2>1, QAnnounce, QAnnounceRows, QAnnounceQueue DEF AnnouncerStep
<1>2. ASSUME NEW n \in Notices, LoadTaken(n) PROVE QInv'
  BY <1>2, QLoadTaken
<1>3. ASSUME NEW c \in Consumers, ConsumerStep(c) PROVE QInv'
  <2>1. proc[c].pc \in {"idle", "send", "record", "close", "skipOthers", "follow"}
    BY DEF QAlone, QInv, QHandler
  <2>2. ~DigestWindowStep(c) /\ ~Hold(c) /\ ~Schedule(c) /\ ~DigestRead(c) /\ ~DigestClear(c)
    BY <2>1 DEF DigestWindowStep, Hold, Schedule, DigestRead, DigestClear
  <2>3. ~DigestRows(c) /\ ~DigestSift(c) /\ ~DigestSend(c)
    BY <2>1 DEF DigestRows, DigestSift, DigestSend
  <2>4. ~DigestSent(c) /\ ~HandOn(c) /\ ~DigestHold(c) /\ ~DigestLater(c)
    BY <2>1 DEF DigestSent, HandOn, DigestHold, DigestLater
  <2>5. CASE \E j \in BagToSet(queue) : Take(c, j)
    BY <2>5, QTake
  <2>6. CASE Close(c) \/ Send(c) \/ Record(c) \/ SkipOthers(c) \/ Follow(c)
    BY <2>6, QClose, QSend, QRecord, QSkipOthers, QFollow
  <2> QED BY <1>3, <2>2, <2>3, <2>4, <2>5, <2>6 DEF ConsumerStep
<1>4. ASSUME NEW c \in Consumers PROVE ~RedisFails(c) /\ ~PublishFails(c)
  BY NoFault DEF QAlone, RedisFails, PublishFails
<1>5. ASSUME NEW p \in Procs PROVE ~DatabaseFails(p)
  BY NoFault DEF QAlone, DatabaseFails
<1>6. ~Crash
  BY NoFault DEF QAlone, Crash
<1>7. ~WorkerStep
  <2>1. proc["worker"].pc = "idle" /\ ~WorkerOn
    BY DEF QAlone, QInv
  <2> QED BY <2>1 DEF WorkerStep, Tick, FindDue, SweepNext, Scan, Send, Record
<1>8. ASSUME Wait PROVE QInv'
  <2>1. now' \in Int /\ now <= now'
    BY <1>8, QTyped DEF Wait
  <2> QED BY <1>8, <2>1, QWait DEF Wait, history
<1>9. ASSUME ClockEnd PROVE QInv'
  <2>1. UNCHANGED <<setup, proc, queue, got, tried, taken, notice, created, announces, ann, now>>
    BY <1>9 DEF ClockEnd, vars
  <2>2. now' \in Int /\ now <= now'
    BY <2>1, QTyped
  <2> QED BY <2>1, <2>2, QWait
<1> QED BY <1>1, <1>2, <1>3, <1>4, <1>5, <1>6, <1>7, <1>8, <1>9 DEF Step

-----------------------------------------------------------------------------
(* Either of them. *)

\* Which of the two is on where no summaries are sent.
LEMMA OneSender ==
    ASSUME Undisturbed, IInv, DigestWindow = 0
    PROVE  (QueueOn => ~WorkerOn /\ setup.announces <= 1) /\ (~QueueOn => WorkerOn)
BY DEF Undisturbed, IInv, SetupOK, DigestWindow, QueueOn, WorkerOn

LEMMA AloneBegin == ASSUME Undisturbed, Init PROVE AInv
<1>1. IInv
  BY Begin
<1>2. BagToSet(queue) = {}
  BY DEF Init, EmptyBag, BagToSet, SetToBag
<1>3. proc = [p \in Procs |-> Idle] /\ Consumers \subseteq Procs /\ "worker" \in Procs
  BY DEF Init, Procs
<1>4. \A p \in Procs : proc[p] = Idle
  BY <1>3
<1>5. /\ Idle.pc = "idle" /\ Idle.out = {} /\ Idle.rows = {}
  BY DEF Idle
<1>6. \A n \in Notices : ann[n].pc = "idle" /\ got[n] = 0 /\ created[n] = NoTime
  BY DEF Init
<1>7. QHandler(Idle)
  BY <1>5 DEF QHandler
<1>8. WHandler(Idle)
  BY <1>5 DEF WHandler
<1>9. \A n \in Notices : QTurn(n)
  BY <1>3, <1>4, <1>5, <1>6 DEF QTurn, Carries
<1>10. \A n \in Notices : QGot(n) /\ QPassed(n) /\ QKept(n) /\ WGot(n) /\ WKept(n)
  BY <1>6 DEF QGot, QPassed, QKept, WGot, WKept
<1>11. QInv
  BY <1>2, <1>3, <1>4, <1>5, <1>7, <1>9, <1>10 DEF QInv
<1>12. WInv
  BY <1>2, <1>3, <1>4, <1>5, <1>8, <1>10 DEF WInv
<1> QED BY <1>11, <1>12 DEF AInv

LEMMA AloneKeep == ASSUME Undisturbed, IInv, AInv, IInv', [Next]_vars PROVE AInv'
<1>1. UNCHANGED setup
  BY DEF Next, vars
<1>2. SUFFICES ASSUME DigestWindow' = 0 PROVE IF QueueOn' THEN QInv' ELSE WInv'
  BY DEF AInv
<1>3. DigestWindow = 0 /\ (QueueOn <=> QueueOn')
  BY <1>1, <1>2 DEF DigestWindow, QueueOn
<1>4. CASE QueueOn
  <2>1. QAlone
    BY <1>3, <1>4, OneSender DEF QAlone, AInv
  <2>2. ASSUME UNCHANGED vars PROVE QInv'
    <3>1. UNCHANGED <<setup, proc, queue, got, tried, taken, notice, created, announces, ann, now>>
      BY <2>2 DEF vars
    <3>2. now' \in Int /\ now <= now'
      BY <2>1, <3>1, QTyped
    <3> QED BY <2>1, <3>1, <3>2, QWait
  <2>3. QInv'
    BY <1>1, <2>1, <2>2, QNext DEF Next
  <2> QED BY <1>3, <1>4, <2>3
<1>5. CASE ~QueueOn
  <2>1. WAlone
    BY <1>3, <1>5 DEF WAlone, AInv
  <2>2. ASSUME UNCHANGED vars PROVE WInv'
    BY <2>1, <2>2, WUntouched DEF vars
  <2>3. WInv'
    BY <2>1, <2>2, WNext DEF Next
  <2> QED BY <1>3, <1>5, <2>3
<1> QED BY <1>4, <1>5

LEMMA AloneOnce == ASSUME Undisturbed, IInv, AInv PROVE SentOnce
<1>1. ASSUME NEW n \in Notices, DigestWindow = 0 PROVE got[n] \in 0..1
  BY <1>1 DEF AInv, QInv, WInv, QGot, WGot
<1> QED BY <1>1 DEF SentOnce

LEMMA AlonePassed == ASSUME Undisturbed, IInv, AInv PROVE DigestWindow = 0 => NotSwallowed
BY DEF AInv, QInv, QPassed, NotSwallowed

LEMMA AloneKept == ASSUME Undisturbed, IInv, AInv PROVE DigestWindow = 0 => NothingForgotten
<1> SUFFICES ASSUME DigestWindow = 0 PROVE NothingForgotten
  OBVIOUS
<1> SUFFICES ASSUME NEW n \in Notices, created[n] # NoTime, n \notin taken, ~Stale(n, now),
                    Pending(notice[n]) # {}, ~AnySent(notice[n])
             PROVE  ann[n].pc # "idle" \/ InHand(n) \/ Queued(n) \/ InSummary(n) \/ SweptLater(n)
  BY DEF NothingForgotten
<1>1. CASE QueueOn
  <2>1. QInv
    BY <1>1 DEF AInv
  <2>2. \/ ann[n].pc # "idle"
        \/ \E c \in Consumers : Carries(proc[c], n)
        \/ \E j \in BagToSet(queue) : j.id = n
    BY <2>1 DEF QInv, QKept
  <2>3. ASSUME NEW c \in Consumers, Carries(proc[c], n) PROVE InHand(n)
    BY <2>3 DEF Carries, InHand, Procs
  <2>4. ASSUME NEW j \in BagToSet(queue), j.id = n PROVE Queued(n)
    BY <2>1, <2>4 DEF QInv, QJob, Leading, Queued
  <2> QED BY <2>2, <2>3, <2>4
<1>2. CASE ~QueueOn
  <2>1. WInv /\ WorkerOn
    BY <1>2, OneSender DEF AInv
  <2>2. ASSUME ann[n].pc = "idle" PROVE SweptLater(n)
    BY <2>1, <2>2 DEF WInv, WKept, SweptLater
  <2> QED BY <2>2
<1> QED BY <1>1, <1>2

\* Where no summaries are sent, one notice reaches the driver once (deliverQueued and the jobs
\* it queues, or the sweeps of the retry worker): with any number of consumers, messengers and
\* loads, as long as one of the two sends and nothing fails around it.
THEOREM OneMessage == ASSUME Undisturbed PROVE Spec => []SentOnce
<1>1. Init => IInv /\ AInv
  BY Begin, AloneBegin
<1>2. IInv /\ AInv /\ [Next]_vars => IInv' /\ AInv'
  BY Keep, AloneKeep
<1>3. IInv /\ AInv => SentOnce
  BY AloneOnce
<1> QED BY <1>1, <1>2, <1>3, PTL DEF Spec

\* Where no summaries are sent, deliverQueued passes no messenger over: when all are through
\* and none sent the notice of an open load, every one the driver has linked was asked or
\* failed.
THEOREM NonePassedOver == ASSUME Undisturbed PROVE Spec => [](DigestWindow = 0 => NotSwallowed)
<1>1. Init => IInv /\ AInv
  BY Begin, AloneBegin
<1>2. IInv /\ AInv /\ [Next]_vars => IInv' /\ AInv'
  BY Keep, AloneKeep
<1>3. IInv /\ AInv => (DigestWindow = 0 => NotSwallowed)
  BY AlonePassed
<1> QED BY <1>1, <1>2, <1>3, PTL DEF Spec

\* Where no summaries are sent, no notice is forgotten: while it can still go through some
\* messenger, the announcer, a job, a consumer or the next sweep has it.
THEOREM Remembered == ASSUME Undisturbed PROVE Spec => [](DigestWindow = 0 => NothingForgotten)
<1>1. Init => IInv /\ AInv
  BY Begin, AloneBegin
<1>2. IInv /\ AInv /\ [Next]_vars => IInv' /\ AInv'
  BY Keep, AloneKeep
<1>3. IInv /\ AInv => (DigestWindow = 0 => NothingForgotten)
  BY AloneKept
<1> QED BY <1>1, <1>2, <1>3, PTL DEF Spec
=============================================================================
