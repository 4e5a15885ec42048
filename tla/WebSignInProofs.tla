---------------------------- MODULE WebSignInProofs ----------------------------
(***************************************************************************)
(* Proofs about WebSignIn, for every number of browsers, codes, sessions,   *)
(* tokens and faults and every limit on attempts and sends.                 *)
(*                                                                         *)
(* Both limits are kept in Redis by a read and a later write, so they hold  *)
(* only because withLock excludes: the inductive invariant is the exclusion *)
(* together with what the owner of the lock has done and not yet written.   *)
(***************************************************************************)
EXTENDS WebSignIn, TLAPS

\* The steps of requestOtp and verifyOtp that run under the lock.
Locked == {"sends", "cooldown", "send", "store", "count", "undo", "read", "wrong", "right", "start"}

\* withLock excludes: whoever is at one of these steps owns the lock.
Exclusive == \A d \in Devices : dev[d].pc \in Locked => lock = d

\* An SMS that has gone out and is not counted yet.
Uncounted == \E d \in Devices : dev[d].pc \in {"store", "count"}

SendsOK ==
    /\ \A d \in Devices : dev[d].pc \in {"cooldown", "send", "store", "count"} => sends < MaxSends
    /\ IF Uncounted THEN sms <= sends + faults + 1 ELSE sms <= sends + faults

\* A wrong code that was compared and is not written back yet.
Unwritten == \E d \in Devices : dev[d].pc = "wrong"

\* A code about to be stored is new; a copy about to be written back is the stored code.
CopyOK(d) ==
    /\ dev[d].pc = "store" => /\ dev[d].copy.code \in 1..codes /\ dev[d].copy.attempts = 0
                              /\ guesses[dev[d].copy.code] = 0
    /\ dev[d].pc = "wrong" => dev[d].copy = otp /\ otp.code # 0 /\ otp.attempts < MaxAttempts

GuessesOK ==
    /\ otp.attempts <= MaxAttempts
    /\ GuessesBounded
    /\ \A c \in 1..MaxCodes : c > codes => guesses[c] = 0
    /\ otp.code # 0 => guesses[otp.code] <= otp.attempts + faults + IF Unwritten THEN 1 ELSE 0
    /\ \A d \in Devices : CopyOK(d)

\* The inductive invariant.
IInv == TypeOK /\ Exclusive /\ SendsOK /\ GuessesOK

-----------------------------------------------------------------------------
(* Facts about the operators. *)

LEMMA Limits ==
    /\ MaxAttempts \in Nat /\ MaxAttempts > 0 /\ MaxSends \in Nat /\ MaxSends > 0 /\ MaxCodes \in Nat
    /\ None \notin Devices
BY SignInAssumption DEF SignInAssumption

\* The state of a browser that goes to another step, and of the others.
LEMMA GoToFacts ==
    ASSUME TypeOK, NEW d \in Devices, NEW pc \in Steps, GoTo(d, pc)
    PROVE  /\ dev' \in [Devices -> Device]
           /\ dev'[d].pc = pc /\ dev'[d].copy = dev[d].copy
           /\ \A e \in Devices \ {d} : dev'[e] = dev[e]
<1>1. PICK me : me = [dev[d] EXCEPT !.pc = pc]
  OBVIOUS
<1>2. dev[d] \in Device
  BY DEF TypeOK
<1>3. me \in Device /\ me.pc = pc /\ me.copy = dev[d].copy
  BY <1>1, <1>2 DEF Device
<1>4. dev' = [dev EXCEPT ![d] = me]
  BY <1>1 DEF GoTo
<1> QED BY <1>3, <1>4 DEF TypeOK

\* TypeOK but for the browsers.
RestTyped ==
    /\ lock \in Devices \cup {None}
    /\ otp \in Otp /\ live \subseteq 1..codes /\ otp.code \in 0..codes
    /\ sends \in 0..MaxSends /\ cooldown \in BOOLEAN
    /\ active \in 0..sids
    /\ tokens \subseteq [token : Nat, sid : Nat]
    /\ codes \in 0..MaxCodes /\ sids \in Nat /\ issued \in Nat /\ faults \in Nat /\ sms \in Nat
    /\ guesses \in [1..MaxCodes -> Nat]

\* The numbers the invariants compare.
LEMMA Numbers ==
    ASSUME IInv
    PROVE  /\ otp.code \in Nat /\ otp.attempts \in Nat /\ codes \in Nat /\ sends \in Nat
           /\ sms \in Nat /\ faults \in Nat
           /\ \A c \in 1..MaxCodes : guesses[c] \in Nat
           /\ otp.code # 0 => otp.code \in 1..MaxCodes /\ otp.code <= codes
           /\ codes <= MaxCodes
BY Limits DEF IInv, TypeOK, Otp

\* The owner of the lock is alone at the steps under it.
LEMMA Alone ==
    ASSUME IInv, NEW d \in Devices, dev[d].pc \in Locked
    PROVE  lock = d /\ \A e \in Devices \ {d} : dev[e].pc \notin Locked
BY DEF IInv, Exclusive

\* Exclusion when the owner moves, or anybody to a step that needs no lock.
LEMMA ExclusiveStays ==
    ASSUME IInv, NEW d \in Devices, \A e \in Devices \ {d} : dev'[e] = dev[e], lock' = lock,
           lock = d \/ dev'[d].pc \notin Locked
    PROVE  Exclusive'
BY DEF IInv, Exclusive

\* A step that leaves codes, counters and guesses alone.  Giving up what was sent or
\* compared takes a fault.
LEMMA QuietBounds ==
    ASSUME IInv, NEW d \in Devices, \A e \in Devices \ {d} : dev'[e] = dev[e],
           UNCHANGED <<otp, sends, codes, sms, guesses>>,
           faults' \in Nat, faults' >= faults,
           dev[d].pc \in {"store", "count", "wrong"} => faults' = faults + 1,
           dev'[d].pc \notin {"store", "count", "wrong"},
           dev'[d].pc \in {"cooldown", "send"} => sends < MaxSends
    PROVE  SendsOK' /\ GuessesOK'
<1> USE Numbers
<1>1. SendsOK'
  <2>1. \A e \in Devices : dev'[e].pc \in {"cooldown", "send", "store", "count"} => sends < MaxSends
    BY DEF IInv, SendsOK
  <2>2. Uncounted' => Uncounted
    BY DEF Uncounted
  <2>3. Uncounted /\ ~Uncounted' => faults' = faults + 1
    BY DEF Uncounted
  <2>4. IF Uncounted THEN sms <= sends + faults + 1 ELSE sms <= sends + faults
    BY DEF IInv, SendsOK
  <2>5. IF Uncounted' THEN sms <= sends + faults' + 1 ELSE sms <= sends + faults'
    BY <2>2, <2>3, <2>4
  <2> QED BY <2>1, <2>5 DEF SendsOK
<1>2. GuessesOK'
  <2>1. Unwritten' => Unwritten
    BY DEF Unwritten
  <2>2. Unwritten /\ ~Unwritten' => faults' = faults + 1
    BY DEF Unwritten
  <2>3. otp.code # 0 => guesses[otp.code] <= otp.attempts + faults + IF Unwritten THEN 1 ELSE 0
    BY DEF IInv, GuessesOK
  <2>4. otp.code # 0 => guesses[otp.code] <= otp.attempts + faults' + IF Unwritten' THEN 1 ELSE 0
    <3>1. CASE Unwritten = Unwritten'
      BY <2>3, <3>1
    <3>2. CASE Unwritten # Unwritten'
      BY <2>1, <2>2, <2>3, <3>2
    <3> QED BY <3>1, <3>2
  <2>5. GuessesBounded'
    BY Limits DEF IInv, GuessesOK, GuessesBounded
  <2>6. \A e \in Devices : CopyOK(e)'
    BY DEF IInv, GuessesOK, CopyOK
  <2> QED BY <2>4, <2>5, <2>6 DEF IInv, GuessesOK
<1> QED BY <1>1, <1>2

-----------------------------------------------------------------------------
(* Every step keeps the inductive invariant. *)

\* A step that only moves one browser and writes neither codes nor counters.
LEMMA QuietStep ==
    ASSUME IInv, NEW d \in Devices, dev' \in [Devices -> Device],
           \A e \in Devices \ {d} : dev'[e] = dev[e],
           RestTyped', UNCHANGED <<otp, sends, codes, sms, guesses>>, lock' = lock,
           lock = d \/ dev'[d].pc \notin Locked,
           faults' >= faults, dev[d].pc \in {"store", "count", "wrong"} => faults' = faults + 1,
           dev'[d].pc \notin {"store", "count", "wrong"},
           dev'[d].pc \in {"cooldown", "send"} => sends < MaxSends
    PROVE  IInv'
<1>1. faults' \in Nat
  BY DEF RestTyped
<1>2. SendsOK' /\ GuessesOK'
  BY <1>1, QuietBounds
<1>3. Exclusive'
  BY ExclusiveStays
<1>4. TypeOK'
  BY DEF TypeOK, RestTyped
<1> QED BY <1>2, <1>3, <1>4 DEF IInv

LEMMA LockInv ==
    ASSUME IInv, NEW d \in Devices, Lock(d)
    PROVE  IInv'
<1>1. PICK pc \in {"sends", "read"} : GoTo(d, pc)
  BY DEF Lock
<1>2. /\ dev' \in [Devices -> Device] /\ dev'[d].pc = pc
      /\ \A e \in Devices \ {d} : dev'[e] = dev[e]
  BY <1>1, GoToFacts DEF Steps, IInv
<1>3. lock = None /\ lock' = d /\ UNCHANGED <<otp, sends, codes, sms, guesses, faults>>
  BY DEF Lock, otps
<1>4. Exclusive'
  BY <1>2, <1>3, Limits DEF IInv, Exclusive
<1>5. SendsOK' /\ GuessesOK'
  <2>1. dev[d].pc = "idle"
    BY DEF Lock, At
  <2> QED BY <1>2, <1>3, <2>1, QuietBounds, Numbers
<1>6. TypeOK'
  BY <1>2, <1>3 DEF Lock, IInv, TypeOK, otps, sessions
<1> QED BY <1>4, <1>5, <1>6 DEF IInv

LEMMA UnlockInv ==
    ASSUME IInv, NEW d \in Devices, Unlock(d)
    PROVE  IInv'
<1>1. /\ dev' \in [Devices -> Device] /\ dev'[d].pc = "idle"
      /\ \A e \in Devices \ {d} : dev'[e] = dev[e]
  BY GoToFacts DEF Unlock, Steps, IInv
<1>2. /\ lock' = IF lock = d THEN None ELSE lock
      /\ UNCHANGED <<otp, sends, codes, sms, guesses, faults>> /\ dev[d].pc = "unlock"
  BY DEF Unlock, otps, At
<1>3. Exclusive'
  BY <1>1, <1>2 DEF IInv, Exclusive, Locked
<1>4. SendsOK' /\ GuessesOK'
  BY <1>1, <1>2, QuietBounds, Numbers
<1>5. TypeOK'
  BY <1>1, <1>2 DEF Unlock, IInv, TypeOK, otps, sessions
<1> QED BY <1>3, <1>4, <1>5 DEF IInv

\* A browser that goes on under the lock to a step where nothing is open.
LEMMA GoOnInv ==
    ASSUME IInv, NEW d \in Devices, dev[d].pc \in Locked \ {"store", "count", "wrong"},
           NEW pc \in Steps \ {"store", "count", "wrong"}, GoTo(d, pc),
           pc \in {"cooldown", "send"} => sends < MaxSends,
           UNCHANGED <<lock, otp, live, sends, codes, sms, guesses, sessions, faults>>,
           cooldown' \in BOOLEAN
    PROVE  IInv'
<1>1. lock = d
  BY Alone
<1>2. /\ dev' \in [Devices -> Device] /\ dev'[d].pc = pc
      /\ \A e \in Devices \ {d} : dev'[e] = dev[e]
  BY GoToFacts DEF IInv
<1>3. RestTyped'
  BY DEF IInv, TypeOK, RestTyped, sessions
<1> QED BY <1>1, <1>2, <1>3, Numbers, QuietStep

LEMMA CheckSendsInv ==
    ASSUME IInv, NEW d \in Devices, CheckSends(d)
    PROVE  IInv'
<1>1. PICK pc \in {"cooldown", "unlock"} : GoTo(d, pc) /\ (pc = "cooldown" => sends < MaxSends)
  BY DEF CheckSends, MaySend
<1>2. pc \in Steps \ {"store", "count", "wrong"} /\ dev[d].pc \in Locked \ {"store", "count", "wrong"}
  BY DEF Steps, Locked, CheckSends, At
<1>3. UNCHANGED <<lock, otp, live, sends, codes, sms, guesses, sessions, faults>> /\ cooldown' \in BOOLEAN
  BY DEF CheckSends, otps, IInv, TypeOK
<1> QED BY <1>1, <1>2, <1>3, GoOnInv

LEMMA StartCooldownInv ==
    ASSUME IInv, NEW d \in Devices, StartCooldown(d)
    PROVE  IInv'
<1>1. PICK pc \in {"send", "unlock"} : GoTo(d, pc)
  BY DEF StartCooldown
<1>2. pc \in Steps \ {"store", "count", "wrong"} /\ dev[d].pc \in Locked \ {"store", "count", "wrong"}
  BY DEF Steps, Locked, StartCooldown, At
<1>3. sends < MaxSends
  BY DEF StartCooldown, At, IInv, SendsOK
<1>4. UNCHANGED <<lock, otp, live, sends, codes, sms, guesses, sessions, faults>> /\ cooldown' \in BOOLEAN
  BY DEF StartCooldown
<1> QED BY <1>1, <1>2, <1>3, <1>4, GoOnInv

LEMMA SendOtpInv ==
    ASSUME IInv, NEW d \in Devices, SendOtp(d)
    PROVE  IInv'
<1>1. dev[d].pc = "send" /\ dev[d].pc \in Locked
  BY DEF SendOtp, At, Locked
<1>2. CASE GoTo(d, "undo") /\ UNCHANGED <<codes, sms, live>>
  <2>1. UNCHANGED <<lock, otp, live, sends, codes, sms, guesses, sessions, faults>> /\ cooldown' \in BOOLEAN
    BY <1>2 DEF SendOtp, IInv, TypeOK
  <2>2. "undo" \in Steps \ {"store", "count", "wrong"} /\ dev[d].pc \in Locked \ {"store", "count", "wrong"}
    BY <1>1 DEF Steps
  <2> QED BY <1>2, <2>1, <2>2, GoOnInv
<1>3. CASE /\ codes < MaxCodes /\ codes' = codes + 1 /\ sms' = sms + 1 /\ live' = live \cup {codes + 1}
           /\ dev' = [dev EXCEPT ![d].pc = "store", ![d].copy = [code |-> codes + 1, attempts |-> 0]]
  <2> USE Numbers
  <2>1. PICK copy : copy = [code |-> codes + 1, attempts |-> 0]
    OBVIOUS
  <2>2. copy \in Otp /\ copy.code = codes + 1 /\ copy.attempts = 0
    BY <2>1 DEF Otp
  <2>3. PICK me : me = [dev[d] EXCEPT !.pc = "store", !.copy = copy]
    OBVIOUS
  <2>4. dev[d] \in Device
    BY DEF IInv, TypeOK
  <2>5. me \in Device /\ me.pc = "store" /\ me.copy = copy
    BY <2>2, <2>3, <2>4 DEF Device, Steps
  <2>6. dev' = [dev EXCEPT ![d] = me]
    BY <1>3, <2>1, <2>3, <2>4 DEF IInv, TypeOK, Device
  <2>7. /\ dev' \in [Devices -> Device] /\ dev'[d] = me
        /\ \A e \in Devices \ {d} : dev'[e] = dev[e]
    BY <2>5, <2>6 DEF IInv, TypeOK
  <2>8. lock = d /\ \A e \in Devices \ {d} : dev[e].pc \notin Locked
    BY <1>1, Alone
  <2>9. UNCHANGED <<lock, otp, sends, cooldown, guesses, sessions, faults>>
    BY DEF SendOtp
  <2>10. TypeOK'
    <3>1. codes' \in 0..MaxCodes /\ sms' \in Nat
      BY <1>3, Limits
    <3>2. live' \subseteq 1..codes'
      BY <1>3 DEF IInv, TypeOK
    <3>3. otp'.code \in 0..codes'
      BY <1>3, <2>9 DEF IInv, TypeOK
    <3> QED BY <2>7, <2>9, <3>1, <3>2, <3>3 DEF IInv, TypeOK, sessions
  <2>11. Exclusive'
    BY <2>7, <2>8, <2>9, ExclusiveStays
  <2>12. \A e \in Devices : dev[e].pc \notin {"store", "count", "wrong"}
    BY <1>1, <2>8 DEF Locked
  <2>13. SendsOK'
    <3>1. ~Uncounted /\ Uncounted'
      BY <2>5, <2>7, <2>12 DEF Uncounted
    <3>2. sms <= sends + faults /\ sends < MaxSends
      BY <1>1, <3>1 DEF IInv, SendsOK
    <3> QED BY <1>3, <2>9, <3>1, <3>2 DEF SendsOK
  <2>14. GuessesOK'
    <3>1. ~Unwritten /\ ~Unwritten'
      BY <2>5, <2>7, <2>12 DEF Unwritten
    <3>2. codes + 1 \in 1..MaxCodes /\ guesses[codes + 1] = 0
      BY <1>3, Limits DEF IInv, GuessesOK
    <3>3. \A c \in 1..MaxCodes : c > codes' => guesses'[c] = 0
      BY <1>3, <2>9, Limits DEF IInv, GuessesOK
    <3>4. \A e \in Devices : CopyOK(e)'
      <4>1. CopyOK(d)'
        BY <1>3, <2>2, <2>5, <2>7, <2>9, <3>2 DEF CopyOK
      <4>2. ASSUME NEW e \in Devices \ {d} PROVE CopyOK(e)'
        BY <2>7, <2>12 DEF CopyOK
      <4> QED BY <4>1, <4>2
    <3> QED BY <2>9, <3>1, <3>3, <3>4 DEF IInv, GuessesOK, GuessesBounded
  <2> QED BY <2>10, <2>11, <2>13, <2>14 DEF IInv
<1> QED BY <1>2, <1>3 DEF SendOtp

LEMMA StoreCodeInv ==
    ASSUME IInv, NEW d \in Devices, StoreCode(d)
    PROVE  IInv'
<1> USE Numbers
<1>1. dev[d].pc = "store" /\ dev[d].pc \in Locked
  BY DEF StoreCode, At, Locked
<1>2. lock = d /\ \A e \in Devices \ {d} : dev[e].pc \notin Locked
  BY <1>1, Alone
<1>3. /\ dev' \in [Devices -> Device] /\ dev'[d].pc = "count"
      /\ \A e \in Devices \ {d} : dev'[e] = dev[e]
  BY GoToFacts DEF StoreCode, Steps, IInv
<1>4. UNCHANGED <<lock, live, sends, cooldown, codes, sms, guesses, sessions, faults>>
  BY DEF StoreCode
<1>5. /\ otp' = dev[d].copy /\ otp' \in Otp /\ otp'.code \in 1..codes /\ otp'.attempts = 0
      /\ guesses[otp'.code] = 0
  BY <1>1 DEF StoreCode, IInv, TypeOK, Device, GuessesOK, CopyOK
<1>6. TypeOK'
  BY <1>3, <1>4, <1>5 DEF IInv, TypeOK, sessions
<1>7. Exclusive'
  BY <1>2, <1>3, <1>4, ExclusiveStays
<1>8. \A e \in Devices : dev'[e].pc \notin {"store", "wrong"}
  BY <1>2, <1>3 DEF Locked
<1>9. SendsOK'
  <2>1. Uncounted /\ Uncounted'
    BY <1>1, <1>3 DEF Uncounted
  <2> QED BY <1>1, <1>3, <1>4, <2>1 DEF IInv, SendsOK
<1>10. GuessesOK'
  <2>1. ~Unwritten'
    BY <1>8 DEF Unwritten
  <2>2. \A e \in Devices : CopyOK(e)'
    BY <1>8 DEF CopyOK
  <2>3. guesses'[otp'.code] <= otp'.attempts + faults' + IF Unwritten' THEN 1 ELSE 0
    BY <1>4, <1>5, <2>1
  <2> QED BY <1>4, <1>5, <2>2, <2>3, Limits DEF IInv, GuessesOK, GuessesBounded
<1> QED BY <1>6, <1>7, <1>9, <1>10 DEF IInv

LEMMA CountSendInv ==
    ASSUME IInv, NEW d \in Devices, CountSend(d)
    PROVE  IInv'
<1> USE Numbers
<1>1. dev[d].pc = "count" /\ dev[d].pc \in Locked
  BY DEF CountSend, At, Locked
<1>2. lock = d /\ \A e \in Devices \ {d} : dev[e].pc \notin Locked
  BY <1>1, Alone
<1>3. /\ dev' \in [Devices -> Device] /\ dev'[d].pc = "unlock"
      /\ \A e \in Devices \ {d} : dev'[e] = dev[e]
  BY GoToFacts DEF CountSend, Steps, IInv
<1>4. UNCHANGED <<lock, otp, live, cooldown, codes, sms, guesses, sessions, faults>> /\ sends' = sends + 1
  BY DEF CountSend
<1>5. sends < MaxSends /\ sms <= sends + faults + 1
  BY <1>1 DEF IInv, SendsOK, Uncounted
<1>6. TypeOK'
  BY <1>3, <1>4, <1>5, Limits DEF IInv, TypeOK, sessions
<1>7. Exclusive'
  BY <1>2, <1>3, <1>4, ExclusiveStays
<1>8. \A e \in Devices : dev'[e].pc \notin Locked /\ dev[e].pc # "wrong"
  BY <1>1, <1>2, <1>3 DEF Locked
<1>9. SendsOK'
  BY <1>4, <1>5, <1>8 DEF SendsOK, Uncounted, Locked
<1>10. GuessesOK'
  <2>1. ~Unwritten' /\ ~Unwritten
    BY <1>8 DEF Unwritten, Locked
  <2>2. \A e \in Devices : CopyOK(e)'
    BY <1>8 DEF CopyOK, Locked
  <2> QED BY <1>4, <2>1, <2>2 DEF IInv, GuessesOK, GuessesBounded
<1> QED BY <1>6, <1>7, <1>9, <1>10 DEF IInv

\* The code is deleted, and with it what was counted against it.
LEMMA CodeGone ==
    ASSUME IInv, NEW d \in Devices, dev[d].pc \in Locked, dev[d].pc \notin {"store", "count", "wrong"},
           NEW pc \in {"unlock", "start"}, GoTo(d, pc), otp' = NoOtp,
           UNCHANGED <<lock, live, codes, guesses, sessions, faults>>, cooldown' \in BOOLEAN,
           \/ sends' = sends /\ sms' = sms
           \/ sends' = 0 /\ sms' = 0
    PROVE  IInv'
<1> USE Numbers
<1>1. lock = d /\ \A e \in Devices \ {d} : dev[e].pc \notin Locked
  BY Alone
<1>2. /\ dev' \in [Devices -> Device] /\ dev'[d].pc = pc
      /\ \A e \in Devices \ {d} : dev'[e] = dev[e]
  BY GoToFacts DEF Steps, IInv
<1>3. otp'.code = 0 /\ otp'.attempts = 0 /\ otp' \in Otp
  BY DEF NoOtp, Otp
<1>4. TypeOK'
  BY <1>2, <1>3, Limits DEF IInv, TypeOK, sessions
<1>5. Exclusive'
  BY <1>1, <1>2, ExclusiveStays
<1>6. \A e \in Devices : /\ dev'[e].pc \notin {"cooldown", "send", "store", "count", "wrong"}
                         /\ dev[e].pc \notin {"store", "count"}
  BY <1>1, <1>2 DEF Locked
<1>7. SendsOK'
  <2>1. ~Uncounted /\ ~Uncounted'
    BY <1>6 DEF Uncounted
  <2> QED BY <1>6, <2>1 DEF IInv, SendsOK
<1>8. GuessesOK'
  <2>1. \A e \in Devices : CopyOK(e)'
    BY <1>6 DEF CopyOK
  <2> QED BY <1>3, <2>1, Limits DEF IInv, GuessesOK, GuessesBounded
<1> QED BY <1>4, <1>5, <1>7, <1>8 DEF IInv

LEMMA UndoSendInv ==
    ASSUME IInv, NEW d \in Devices, UndoSend(d)
    PROVE  IInv'
BY CodeGone DEF UndoSend, At, Locked

LEMMA RightCodeInv ==
    ASSUME IInv, NEW d \in Devices, RightCode(d)
    PROVE  IInv'
<1>1. cooldown' \in BOOLEAN
  BY DEF RightCode, IInv, TypeOK
<1> QED BY <1>1, CodeGone DEF RightCode, At, Locked

LEMMA ReadCodeInv ==
    ASSUME IInv, NEW d \in Devices, ReadCode(d)
    PROVE  IInv'
<1>1. dev[d].pc = "read" /\ dev[d].pc \in Locked
  BY DEF ReadCode, At, Locked
<1>2. UNCHANGED <<lock, otp, live, sends, cooldown, codes, sms, sessions, faults>>
  BY DEF ReadCode
<1>3. ASSUME NEW pc \in {"right", "unlock"}, GoTo(d, pc), UNCHANGED guesses PROVE IInv'
  <2>1. pc \in Steps \ {"store", "count", "wrong"} /\ dev[d].pc \in Locked \ {"store", "count", "wrong"}
    BY <1>1 DEF Steps
  <2>2. cooldown' \in BOOLEAN
    BY <1>2 DEF IInv, TypeOK
  <2> QED BY <1>2, <1>3, <2>1, <2>2, GoOnInv
<1>4. CASE /\ otp.code \in live /\ MayGuess(otp)
           /\ dev' = [dev EXCEPT ![d].pc = "wrong", ![d].copy = otp]
           /\ guesses' = [guesses EXCEPT ![otp.code] = @ + 1]
  <2> USE Numbers
  <2>1. PICK c \in 1..MaxCodes : c = otp.code /\ c <= codes /\ c # 0
    BY <1>4 DEF IInv, TypeOK
  <2>2. PICK me : me = [dev[d] EXCEPT !.pc = "wrong", !.copy = otp]
    OBVIOUS
  <2>3. dev[d] \in Device /\ otp \in Otp
    BY DEF IInv, TypeOK
  <2>4. me \in Device /\ me.pc = "wrong" /\ me.copy = otp
    BY <2>2, <2>3 DEF Device, Steps
  <2>5. dev' = [dev EXCEPT ![d] = me]
    BY <1>4, <2>2, <2>3 DEF IInv, TypeOK, Device
  <2>6. /\ dev' \in [Devices -> Device] /\ dev'[d] = me
        /\ \A e \in Devices \ {d} : dev'[e] = dev[e]
    BY <2>4, <2>5 DEF IInv, TypeOK
  <2>7. lock = d /\ \A e \in Devices \ {d} : dev[e].pc \notin Locked
    BY <1>1, Alone
  <2>8. guesses' \in [1..MaxCodes -> Nat]
        /\ \A k \in 1..MaxCodes : guesses'[k] = IF k = c THEN guesses[c] + 1 ELSE guesses[k]
    BY <1>4, <2>1 DEF IInv, TypeOK
  <2>9. TypeOK'
    BY <1>2, <2>6, <2>8 DEF IInv, TypeOK, sessions
  <2>10. Exclusive'
    BY <1>2, <2>6, <2>7, ExclusiveStays
  <2>11. \A e \in Devices : dev[e].pc \notin {"store", "count", "wrong"}
    BY <1>1, <2>7 DEF Locked
  <2>12. SendsOK'
    <3>1. ~Uncounted /\ ~Uncounted'
      BY <2>4, <2>6, <2>11 DEF Uncounted
    <3> QED BY <1>2, <2>4, <2>6, <3>1 DEF IInv, SendsOK
  <2>13. GuessesOK'
    <3>1. ~Unwritten /\ Unwritten'
      BY <2>4, <2>6, <2>11 DEF Unwritten
    <3>2. otp.attempts < MaxAttempts /\ guesses[c] <= otp.attempts + faults
      BY <1>4, <2>1, <3>1 DEF MayGuess, IInv, GuessesOK
    <3>3. guesses'[c] <= otp.attempts + faults + 1 /\ guesses'[c] <= MaxAttempts + faults
      <4>1. guesses'[c] = guesses[c] + 1 /\ guesses[c] \in Nat
        BY <2>1, <2>8
      <4> QED BY <3>2, <4>1, Limits
    <3>4. GuessesBounded'
      BY <1>2, <2>8, <3>3 DEF IInv, GuessesOK, GuessesBounded
    <3>5. \A k \in 1..MaxCodes : k > codes' => guesses'[k] = 0
      BY <1>2, <2>1, <2>8 DEF IInv, GuessesOK
    <3>6. \A e \in Devices : CopyOK(e)'
      <4>1. CopyOK(d)'
        BY <1>2, <2>1, <2>4, <2>6, <3>2 DEF CopyOK
      <4>2. ASSUME NEW e \in Devices \ {d} PROVE CopyOK(e)'
        BY <2>6, <2>11 DEF CopyOK
      <4> QED BY <4>1, <4>2
    <3>7. guesses'[otp'.code] <= otp'.attempts + faults' + IF Unwritten' THEN 1 ELSE 0
      BY <1>2, <2>1, <3>1, <3>3
    <3> QED BY <1>2, <3>4, <3>5, <3>6, <3>7 DEF IInv, GuessesOK
  <2> QED BY <2>9, <2>10, <2>12, <2>13 DEF IInv
<1> QED BY <1>3, <1>4 DEF ReadCode

LEMMA WrongCodeInv ==
    ASSUME IInv, NEW d \in Devices, WrongCode(d)
    PROVE  IInv'
<1> USE Numbers
<1>1. dev[d].pc = "wrong" /\ dev[d].pc \in Locked
  BY DEF WrongCode, At, Locked
<1>2. lock = d /\ \A e \in Devices \ {d} : dev[e].pc \notin Locked
  BY <1>1, Alone
<1>3. /\ dev' \in [Devices -> Device] /\ dev'[d].pc = "unlock"
      /\ \A e \in Devices \ {d} : dev'[e] = dev[e]
  BY GoToFacts DEF WrongCode, Steps, IInv
<1>4. UNCHANGED <<lock, live, sends, cooldown, codes, sms, guesses, sessions, faults>>
  BY DEF WrongCode
<1>5. otp.attempts < MaxAttempts /\ otp.code # 0 /\ otp' = [otp EXCEPT !.attempts = otp.attempts + 1]
  BY <1>1 DEF WrongCode, AfterWrong, IInv, GuessesOK, CopyOK
<1>6. otp' \in Otp /\ otp'.code = otp.code /\ otp'.attempts = otp.attempts + 1
  <2>1. otp \in Otp
    BY DEF IInv, TypeOK
  <2>2. PICK k \in Nat : k = otp.attempts + 1
    OBVIOUS
  <2>3. otp' = [otp EXCEPT !.attempts = k]
    BY <1>5, <2>2
  <2> QED BY <2>1, <2>2, <2>3 DEF Otp
<1>7. TypeOK'
  BY <1>3, <1>4, <1>6 DEF IInv, TypeOK, sessions
<1>8. Exclusive'
  BY <1>2, <1>3, <1>4, ExclusiveStays
<1>9. \A e \in Devices : dev'[e].pc \notin Locked /\ dev[e].pc \notin {"store", "count"}
  BY <1>1, <1>2, <1>3 DEF Locked
<1>10. SendsOK'
  <2>1. ~Uncounted /\ ~Uncounted'
    BY <1>9 DEF Uncounted, Locked
  <2> QED BY <1>4, <1>9, <2>1 DEF IInv, SendsOK, Locked
<1>11. GuessesOK'
  <2>1. Unwritten /\ ~Unwritten'
    BY <1>1, <1>9 DEF Unwritten, Locked
  <2>2. guesses[otp.code] <= otp.attempts + faults + 1
    BY <1>5, <2>1 DEF IInv, GuessesOK
  <2>3. guesses'[otp'.code] <= otp'.attempts + faults' + IF Unwritten' THEN 1 ELSE 0
    BY <1>4, <1>5, <1>6, <2>1, <2>2
  <2>4. otp'.attempts <= MaxAttempts
    BY <1>5, <1>6, Limits
  <2>5. \A e \in Devices : CopyOK(e)'
    BY <1>9 DEF CopyOK, Locked
  <2> QED BY <1>4, <2>3, <2>4, <2>5 DEF IInv, GuessesOK, GuessesBounded
<1> QED BY <1>7, <1>8, <1>10, <1>11 DEF IInv

LEMMA StartSessionInv ==
    ASSUME IInv, NEW d \in Devices, StartSession(d)
    PROVE  IInv'
<1>1. dev[d].pc = "start" /\ dev[d].pc \in Locked /\ dev[d] \in Device /\ sids \in Nat
  BY DEF StartSession, At, Locked, IInv, TypeOK
<1>2. PICK k \in Nat : k = sids + 1
  BY <1>1
<1>3. PICK me : me = [dev[d] EXCEPT !.pc = "issue", !.sid = k]
  OBVIOUS
<1>4. me \in Device /\ me.pc = "issue"
  BY <1>1, <1>3 DEF Device, Steps
<1>5. dev' = [dev EXCEPT ![d] = me]
  BY <1>1, <1>2, <1>3 DEF StartSession, IInv, TypeOK, Device
<1>6. /\ dev' \in [Devices -> Device] /\ dev'[d] = me
      /\ \A e \in Devices \ {d} : dev'[e] = dev[e]
  BY <1>4, <1>5 DEF IInv, TypeOK
<1>7. UNCHANGED <<otp, sends, codes, sms, guesses, lock, faults>>
  BY DEF StartSession, otps
<1>8. RestTyped'
  BY <1>1 DEF StartSession, IInv, TypeOK, RestTyped, otps
<1> QED BY <1>1, <1>4, <1>6, <1>7, <1>8, Alone, Numbers, QuietStep

\* A browser that goes on without the lock.
LEMMA OutsideInv ==
    ASSUME IInv, NEW d \in Devices, dev[d].pc \notin Locked, NEW me \in Device, me.pc \notin Locked,
           dev' = [dev EXCEPT ![d] = me], UNCHANGED <<lock, otps, faults>>, RestTyped'
    PROVE  IInv'
<1>1. /\ dev' \in [Devices -> Device] /\ dev'[d] = me
      /\ \A e \in Devices \ {d} : dev'[e] = dev[e]
  BY DEF IInv, TypeOK
<1>2. UNCHANGED <<otp, sends, codes, sms, guesses>>
  BY DEF otps
<1>3. /\ me.pc \notin {"cooldown", "send", "store", "count", "wrong"}
      /\ dev[d].pc \notin {"store", "count", "wrong"}
  BY DEF Locked
<1> QED BY <1>1, <1>2, <1>3, Numbers, QuietStep

LEMMA IssueTokensInv ==
    ASSUME IInv, NEW d \in Devices, IssueTokens(d)
    PROVE  IInv'
<1>1. dev[d].pc = "issue" /\ dev[d].pc \notin Locked /\ dev[d] \in Device /\ issued \in Nat
  BY DEF IssueTokens, At, Locked, IInv, TypeOK
<1>2. PICK k \in Nat : k = issued + 1
  BY <1>1
<1>3. PICK me : me = [dev[d] EXCEPT !.pc = "unlock", !.token = k]
  OBVIOUS
<1>4. me \in Device /\ me.pc = "unlock"
  BY <1>1, <1>3 DEF Device, Steps
<1>5. dev' = [dev EXCEPT ![d] = me] /\ UNCHANGED <<lock, otps, faults>>
  BY <1>1, <1>2, <1>3 DEF IssueTokens, IInv, TypeOK, Device
<1>6. RestTyped'
  <2>1. [token |-> k, sid |-> dev[d].sid] \in [token : Nat, sid : Nat]
    BY <1>1 DEF Device
  <2>2. tokens' \subseteq [token : Nat, sid : Nat]
    BY <1>2, <2>1 DEF IssueTokens, IInv, TypeOK
  <2> QED BY <1>1, <2>2 DEF IssueTokens, IInv, TypeOK, RestTyped, otps
<1> QED BY <1>1, <1>4, <1>5, <1>6, OutsideInv DEF Locked

LEMMA TakeTokenInv ==
    ASSUME IInv, NEW d \in Devices, TakeToken(d)
    PROVE  IInv'
<1>1. dev[d].pc = "idle" /\ dev[d].pc \notin Locked /\ dev[d] \in Device
  BY DEF TakeToken, At, Locked, IInv, TypeOK
<1>2. PICK pc \in {"resume", "end", "idle"} : dev' = [dev EXCEPT ![d].token = 0, ![d].pc = pc]
  BY DEF TakeToken
<1>3. PICK me : me = [dev[d] EXCEPT !.token = 0, !.pc = pc]
  OBVIOUS
<1>4. me \in Device /\ me.pc = pc
  BY <1>1, <1>3 DEF Device, Steps
<1>5. dev' = [dev EXCEPT ![d] = me]
  BY <1>1, <1>2, <1>3 DEF IInv, TypeOK, Device
<1>6. RestTyped' /\ UNCHANGED <<lock, otps, faults>>
  BY DEF TakeToken, IInv, TypeOK, RestTyped, otps
<1> QED BY <1>1, <1>4, <1>5, <1>6, OutsideInv DEF Locked

LEMMA ResumeInv ==
    ASSUME IInv, NEW d \in Devices, Resume(d)
    PROVE  IInv'
<1>1. dev[d].pc \notin Locked /\ dev[d] \in Device
  BY DEF Resume, At, Locked, IInv, TypeOK
<1>2. PICK pc \in {"issue", "idle"} : dev' = [dev EXCEPT ![d].pc = pc]
  BY DEF Resume, GoTo
<1>3. PICK me : me = [dev[d] EXCEPT !.pc = pc]
  OBVIOUS
<1>4. me \in Device /\ me.pc = pc /\ dev' = [dev EXCEPT ![d] = me]
  BY <1>1, <1>2, <1>3 DEF Device, Steps
<1>5. RestTyped' /\ UNCHANGED <<lock, otps, faults>>
  BY DEF Resume, IInv, TypeOK, RestTyped, otps, sessions
<1> QED BY <1>1, <1>4, <1>5, OutsideInv DEF Locked

LEMMA EndSessionInv ==
    ASSUME IInv, NEW d \in Devices, EndSession(d)
    PROVE  IInv'
<1>1. dev[d].pc \notin Locked /\ dev[d] \in Device
  BY DEF EndSession, At, Locked, IInv, TypeOK
<1>2. PICK me : me = [dev[d] EXCEPT !.pc = "idle"]
  OBVIOUS
<1>3. me \in Device /\ me.pc = "idle" /\ dev' = [dev EXCEPT ![d] = me]
  BY <1>1, <1>2 DEF Device, Steps, EndSession, GoTo
<1>4. RestTyped' /\ UNCHANGED <<lock, otps, faults>>
  BY DEF EndSession, AfterEnd, IInv, TypeOK, RestTyped, otps
<1> QED BY <1>1, <1>3, <1>4, OutsideInv DEF Locked

LEMMA LockExpiresInv ==
    ASSUME IInv, NEW d \in Devices, LockExpires(d)
    PROVE  IInv'
<1>1. lock = d /\ lock' = None /\ dev[d].pc \notin Locked /\ UNCHANGED <<otps, sessions, dev, faults>>
  BY DEF LockExpires, LockLeft, At, Locked
<1>2. TypeOK'
  BY <1>1 DEF IInv, TypeOK, otps, sessions
<1>3. Exclusive'
  BY <1>1 DEF IInv, Exclusive
<1>4. SendsOK'
  BY <1>1 DEF IInv, SendsOK, Uncounted, otps
<1>5. GuessesOK'
  BY <1>1 DEF IInv, GuessesOK, GuessesBounded, Unwritten, CopyOK, otps
<1> QED BY <1>2, <1>3, <1>4, <1>5 DEF IInv

LEMMA CommandFailsInv ==
    ASSUME IInv, NEW d \in Devices, CommandFails(d)
    PROVE  IInv'
<1>1. PICK pc \in {"undo", "idle", "unlock"} :
          GoTo(d, pc) /\ (pc = "undo" => dev[d].pc \in {"store", "count"})
  BY DEF CommandFails
<1>2. /\ dev' \in [Devices -> Device] /\ dev'[d].pc = pc
      /\ \A e \in Devices \ {d} : dev'[e] = dev[e]
  BY <1>1, GoToFacts DEF Steps, IInv
<1>3. lock = d \/ pc \notin Locked
  <2>1. CASE pc = "undo"
    BY <1>1, <2>1, Alone DEF Locked
  <2>2. CASE pc # "undo"
    BY <1>1, <2>2 DEF Locked
  <2> QED BY <2>1, <2>2
<1>4. /\ RestTyped' /\ UNCHANGED <<lock, otp, sends, codes, sms, guesses>>
      /\ faults' = faults + 1 /\ faults \in Nat
  BY DEF CommandFails, Fault, IInv, TypeOK, RestTyped, otps, sessions
<1>5. faults' >= faults
  BY <1>4
<1>6. dev'[d].pc \notin {"store", "count", "wrong", "cooldown", "send"}
  BY <1>1, <1>2
<1> QED BY <1>2, <1>3, <1>4, <1>5, <1>6, QuietStep

LEMMA CrashInv ==
    ASSUME IInv, Crash
    PROVE  IInv'
<1> USE Numbers
<1>1. ASSUME NEW d \in Devices PROVE dev'[d] \in Device /\ dev'[d].pc = "idle"
  <2>1. dev[d] \in Device
    BY DEF IInv, TypeOK
  <2>2. dev'[d] = [dev[d] EXCEPT !.pc = "idle"]
    BY DEF Crash
  <2> QED BY <2>1, <2>2 DEF Device, Steps
<1>2. dev' \in [Devices -> Device]
  BY <1>1 DEF Crash
<1>3. UNCHANGED <<lock, otps, sessions>> /\ faults' = faults + 1
  BY DEF Crash, Fault
<1>4. TypeOK'
  BY <1>2, <1>3 DEF IInv, TypeOK, otps, sessions
<1>5. Exclusive'
  BY <1>1 DEF Exclusive, Locked
<1>6. SendsOK'
  <2>1. ~Uncounted'
    BY <1>1 DEF Uncounted
  <2>2. sms <= sends + faults + 1
    BY DEF IInv, SendsOK
  <2> QED BY <1>1, <1>3, <2>1, <2>2 DEF SendsOK, otps
<1>7. GuessesOK'
  <2>1. ~Unwritten' /\ \A d \in Devices : CopyOK(d)'
    BY <1>1 DEF Unwritten, CopyOK
  <2>2. otp.code # 0 => guesses[otp.code] <= otp.attempts + faults + 1
    <3>1. CASE Unwritten
      BY <3>1 DEF IInv, GuessesOK
    <3>2. CASE ~Unwritten
      BY <3>2 DEF IInv, GuessesOK
    <3> QED BY <3>1, <3>2
  <2>3. otp'.code # 0 => guesses'[otp'.code] <= otp'.attempts + faults' + IF Unwritten' THEN 1 ELSE 0
    BY <1>3, <2>1, <2>2 DEF otps
  <2>4. GuessesBounded'
    BY <1>3, Limits DEF IInv, GuessesOK, GuessesBounded, otps
  <2> QED BY <1>3, <2>1, <2>3, <2>4 DEF IInv, GuessesOK, otps
<1> QED BY <1>4, <1>5, <1>6, <1>7 DEF IInv

LEMMA SendsExpireInv ==
    ASSUME IInv, SendsExpire
    PROVE  IInv'
<1>1. /\ sends' = 0 /\ sms' = 0
      /\ UNCHANGED <<lock, otp, live, cooldown, codes, guesses, sessions, dev, faults>>
  BY DEF SendsExpire
<1>2. TypeOK'
  BY <1>1, Limits DEF IInv, TypeOK, sessions
<1>3. Exclusive'
  BY <1>1 DEF IInv, Exclusive
<1>4. SendsOK'
  BY <1>1, Limits, Numbers DEF SendsOK
<1>5. GuessesOK'
  BY <1>1 DEF IInv, GuessesOK, GuessesBounded, Unwritten, CopyOK
<1> QED BY <1>2, <1>3, <1>4, <1>5 DEF IInv

\* What Redis forgets otherwise is counted nowhere.
LEMMA ForgetsInv ==
    ASSUME IInv, CooldownExpires \/ CodeExpires \/ UNCHANGED vars
    PROVE  IInv'
<1>1. /\ UNCHANGED <<lock, otp, sends, codes, sms, guesses, sessions, dev, faults>>
      /\ live' \subseteq live /\ cooldown' \in BOOLEAN
  BY DEF CooldownExpires, CodeExpires, vars, otps, IInv, TypeOK
<1>2. TypeOK'
  BY <1>1 DEF IInv, TypeOK, sessions
<1>3. Exclusive'
  BY <1>1 DEF IInv, Exclusive
<1>4. SendsOK'
  BY <1>1 DEF IInv, SendsOK, Uncounted
<1>5. GuessesOK'
  BY <1>1 DEF IInv, GuessesOK, GuessesBounded, Unwritten, CopyOK
<1> QED BY <1>2, <1>3, <1>4, <1>5 DEF IInv

LEMMA InitInv == Init => IInv
<1> SUFFICES ASSUME Init PROVE IInv
  OBVIOUS
<1>1. NoDevice \in Device /\ NoDevice.pc = "idle" /\ NoOtp \in Otp /\ NoOtp.code = 0 /\ NoOtp.attempts = 0
  BY DEF NoDevice, Device, NoOtp, Otp, Steps
<1>2. TypeOK
  <2>1. guesses \in [1..MaxCodes -> Nat] /\ dev \in [Devices -> Device]
    BY <1>1 DEF Init
  <2>2. 0 \in 0..MaxSends /\ 0 \in 0..MaxCodes /\ 0 \in 0..0 /\ 0 \in Nat
    BY Limits
  <2>3. cooldown \in BOOLEAN
    BY DEF Init
  <2> QED BY <1>1, <2>1, <2>2, <2>3 DEF Init, TypeOK
<1>3. Exclusive
  BY <1>1 DEF Init, Exclusive, Locked
<1>4. SendsOK
  BY <1>1 DEF Init, SendsOK, Uncounted
<1>5. GuessesOK
  <2>1. \A d \in Devices : CopyOK(d)
    BY <1>1 DEF Init, CopyOK
  <2> QED BY <1>1, <2>1, Limits DEF Init, GuessesOK, GuessesBounded
<1> QED BY <1>2, <1>3, <1>4, <1>5 DEF IInv

LEMMA NextInv == IInv /\ [Next]_vars => IInv'
BY LockInv, UnlockInv, CheckSendsInv, StartCooldownInv, SendOtpInv, StoreCodeInv, CountSendInv,
   UndoSendInv, ReadCodeInv, WrongCodeInv, RightCodeInv, StartSessionInv, IssueTokensInv, TakeTokenInv,
   ResumeInv, EndSessionInv, LockExpiresInv, CommandFailsInv, CrashInv, SendsExpireInv, ForgetsInv
   DEF Next, Going, Sending, Verifying

LEMMA Inductive == Spec => []IInv
BY InitInv, NextInv, PTL DEF Spec

\* Redis keys and requests keep their shapes; in particular registrationSends stays within
\* MAX_SENDS and a stored code is one that was sent.
THEOREM TypeCorrect == Spec => []TypeOK
BY Inductive, PTL DEF IInv

\* A code is compared with at most MAX_ATTEMPTS wrong ones, one more for each fault,
\* although the counter is read, compared and written back in two commands.
THEOREM GuessLimit == Spec => []GuessesBounded
<1>1. IInv => GuessesBounded
  BY DEF IInv, GuessesOK
<1> QED BY <1>1, Inductive, PTL

\* At most MAX_SENDS codes go out until one is used or the hour is over, one more for each
\* fault, although the counter is written only after the SMS.
THEOREM SendLimit == Spec => []SendsBounded
<1>1. IInv => SendsBounded
  <2> SUFFICES ASSUME IInv PROVE sms <= MaxSends + faults
    BY DEF SendsBounded
  <2>1. CASE Uncounted
    <3>1. sends < MaxSends /\ sms <= sends + faults + 1
      BY <2>1 DEF IInv, SendsOK, Uncounted
    <3> QED BY <3>1, Numbers, Limits
  <2>2. CASE ~Uncounted
    <3>1. sends <= MaxSends /\ sms <= sends + faults
      BY <2>2 DEF IInv, SendsOK, TypeOK
    <3> QED BY <3>1, Numbers, Limits
  <2> QED BY <2>1, <2>2
<1> QED BY <1>1, Inductive, PTL

\* A session ends by its own browser's sign-out or by a newer sign-in, whatever tokens are
\* refreshed, replaced or revoked elsewhere at the same time.
THEOREM SessionsOwn == Spec => SessionEndsByOwn
<1>1. ASSUME [Next]_vars, active' # active
      PROVE  \/ active' = sids + 1
             \/ \E d \in Devices : At(d, "end") /\ dev[d].sid = active
  <2>1. ASSUME NEW d \in Devices, EndSession(d) PROVE At(d, "end") /\ dev[d].sid = active
    BY <1>1, <2>1 DEF EndSession, AfterEnd
  <2>2. ASSUME NEW d \in Devices, StartSession(d) PROVE active' = sids + 1
    BY <2>2 DEF StartSession
  <2>3. \/ \E d \in Devices : EndSession(d) \/ StartSession(d)
        \/ active' = active
    BY <1>1 DEF Next, Going, Sending, Verifying, Lock, Unlock, CheckSends, StartCooldown, SendOtp,
                StoreCode, CountSend, UndoSend, ReadCode, WrongCode, RightCode, IssueTokens, TakeToken,
                Resume, LockExpires, CommandFails, Crash, SendsExpire, CooldownExpires, CodeExpires,
                sessions, vars
  <2> QED BY <1>1, <2>1, <2>2, <2>3
<1>2. [Next]_vars => [\A s \in 1..sids : active = s /\ active' # s =>
                        (\E d \in Devices : At(d, "end") /\ dev[d].sid = s) \/ active' = sids + 1]_vars
  BY <1>1
<1> QED BY <1>2, PTL DEF Spec, SessionEndsByOwn
=============================================================================
