------------------------------- MODULE WebSignIn -------------------------------
(***************************************************************************)
(* The web sign-in of ONE phone number (RegistrationService) and the web     *)
(* session of its account (SessionService), from several browsers at once.  *)
(*                                                                         *)
(* requestOtp and verifyOtp run under a lock in Redis that ends after 120   *)
(* seconds; refresh and revoke have none.  An action is one Redis command,  *)
(* one script or one call of the SMS provider, with what the code does      *)
(* before the next await.  The number has an active account with a role     *)
(* (NumberInvite has the other cases) that is no parent company.            *)
(***************************************************************************)
EXTENDS Integers, FiniteSets

CONSTANTS
    Devices,        \* browsers, each with one request at a time
    None,           \* nobody holds the lock
    MaxAttempts,    \* MAX_ATTEMPTS
    MaxSends,       \* MAX_SENDS
    MaxCodes,       \* bound: codes sent
    MaxSessions,    \* bound: sign-ins
    MaxTokens,      \* bound: refresh tokens
    MaxFaults       \* bound: failed commands and crashes

ASSUME SignInAssumption ==
    /\ None \notin Devices
    /\ MaxAttempts \in Nat \ {0} /\ MaxSends \in Nat \ {0}
    /\ MaxCodes \in Nat /\ MaxSessions \in Nat /\ MaxTokens \in Nat /\ MaxFaults \in Nat

VARIABLES
    lock,       \* registrationLock: its owner
    otp,        \* registration: the PendingOtp, code 0: none
    live,       \* codes whose expiresAt has not come
    sends,      \* registrationSends
    cooldown,   \* registrationCooldown
    active,     \* activeSession, 0: none
    tokens,     \* refreshToken keys: token and session
    dev,        \* what each browser does and holds
    codes, sids, issued, faults,    \* how many there have been
    sms,        \* SMS sent since registrationSends was last cleared
    guesses     \* wrong codes compared with each code that was sent

otps == <<otp, live, sends, cooldown, codes, sms, guesses>>
sessions == <<active, tokens, sids, issued>>
vars == <<lock, otps, sessions, dev, faults>>

Otp == [code : Nat, attempts : Nat]
NoOtp == [code |-> 0, attempts |-> 0]
Steps == {"idle", "sends", "cooldown", "send", "store", "count", "undo", "read", "wrong", "right",
          "start", "issue", "resume", "end", "unlock"}
Device == [pc : Steps, sid : Nat, token : Nat, copy : Otp]
NoDevice == [pc |-> "idle", sid |-> 0, token |-> 0, copy |-> NoOtp]

Init ==
    /\ lock = None
    /\ otp = NoOtp /\ live = {} /\ sends = 0 /\ cooldown = FALSE
    /\ active = 0 /\ tokens = {}
    /\ dev = [d \in Devices |-> NoDevice]
    /\ codes = 0 /\ sids = 0 /\ issued = 0 /\ faults = 0
    /\ sms = 0 /\ guesses = [c \in 1..MaxCodes |-> 0]

At(d, pc) == dev[d].pc = pc
\* Within the bound on tokens, whatever runs.
TokensLeft == issued + Cardinality({d \in Devices : ~At(d, "idle")}) < MaxTokens
GoTo(d, pc) == dev' = [dev EXCEPT ![d].pc = pc]

(***************************************************************************)
(* withLock.                                                                *)
(***************************************************************************)
\* setIfAbsent; a request that finds the lock taken is refused.
Lock(d) ==
    /\ At(d, "idle") /\ lock = None /\ sids < MaxSessions /\ TokensLeft
    /\ lock' = d
    /\ GoTo(d, "sends") \/ GoTo(d, "read")
    /\ UNCHANGED <<otps, sessions, faults>>

\* deleteIfValue.
Unlock(d) ==
    /\ At(d, "unlock")
    /\ lock' = IF lock = d THEN None ELSE lock
    /\ GoTo(d, "idle")
    /\ UNCHANGED <<otps, sessions, faults>>

\* The lock of a request that died is there until its 120 seconds are over; a request that
\* runs takes less (the SMS provider has 10 seconds).
LockLeft_NoTtl(d) == FALSE
LockLeft(d) == lock = d /\ At(d, "idle")

LockExpires(d) ==
    /\ LockLeft(d)
    /\ lock' = None
    /\ UNCHANGED <<otps, sessions, dev, faults>>

(***************************************************************************)
(* requestOtp.                                                              *)
(***************************************************************************)
MaySend_OneMore == sends <= MaxSends
MaySend == sends < MaxSends

CheckSends(d) ==
    /\ At(d, "sends")
    /\ GoTo(d, IF MaySend THEN "cooldown" ELSE "unlock")
    /\ UNCHANGED <<lock, otps, sessions, faults>>

StartCooldown(d) ==
    /\ At(d, "cooldown")
    /\ cooldown' = TRUE
    /\ GoTo(d, IF cooldown THEN "unlock" ELSE "send")
    /\ UNCHANGED <<lock, otp, live, sends, codes, sms, guesses, sessions, faults>>

\* The provider makes the code and sends it, or refuses.
SendOtp(d) ==
    /\ At(d, "send")
    /\ \/ /\ codes < MaxCodes
          /\ codes' = codes + 1 /\ sms' = sms + 1
          /\ live' = live \cup {codes + 1}
          /\ dev' = [dev EXCEPT ![d].pc = "store", ![d].copy = [code |-> codes + 1, attempts |-> 0]]
       \/ GoTo(d, "undo") /\ UNCHANGED <<codes, sms, live>>
    /\ UNCHANGED <<lock, otp, sends, cooldown, guesses, sessions, faults>>

StoreCode(d) ==
    /\ At(d, "store")
    /\ otp' = dev[d].copy
    /\ GoTo(d, "count")
    /\ UNCHANGED <<lock, live, sends, cooldown, codes, sms, guesses, sessions, faults>>

CountSend(d) ==
    /\ At(d, "count")
    /\ sends' = sends + 1
    /\ GoTo(d, "unlock")
    /\ UNCHANGED <<lock, otp, live, cooldown, codes, sms, guesses, sessions, faults>>

\* The catch: the code and the cooldown are deleted.
UndoSend(d) ==
    /\ At(d, "undo")
    /\ otp' = NoOtp /\ cooldown' = FALSE
    /\ GoTo(d, "unlock")
    /\ UNCHANGED <<lock, live, sends, codes, sms, guesses, sessions, faults>>

(***************************************************************************)
(* verifyOtp of a code that is wrong or right.                              *)
(***************************************************************************)
MayGuess_OneMore(o) == o.attempts <= MaxAttempts
MayGuess(o) == o.attempts < MaxAttempts

ReadCode(d) ==
    /\ At(d, "read")
    /\ \/ /\ otp.code \in live /\ MayGuess(otp)
          /\ \/ /\ dev' = [dev EXCEPT ![d].pc = "wrong", ![d].copy = otp]
                /\ guesses' = [guesses EXCEPT ![otp.code] = @ + 1]
             \/ GoTo(d, "right") /\ UNCHANGED guesses
       \/ /\ ~(otp.code \in live /\ MayGuess(otp))
          /\ GoTo(d, "unlock") /\ UNCHANGED guesses
    /\ UNCHANGED <<lock, otp, live, sends, cooldown, codes, sms, sessions, faults>>

\* The copy that was read is written back with one attempt more.
AfterWrong(o) == [o EXCEPT !.attempts = @ + 1]

WrongCode(d) ==
    /\ At(d, "wrong")
    /\ otp' = AfterWrong(dev[d].copy)
    /\ GoTo(d, "unlock")
    /\ UNCHANGED <<lock, live, sends, cooldown, codes, sms, guesses, sessions, faults>>

RightCode(d) ==
    /\ At(d, "right")
    /\ otp' = NoOtp /\ sends' = 0 /\ sms' = 0
    /\ GoTo(d, "start")
    /\ UNCHANGED <<lock, live, cooldown, codes, guesses, sessions, faults>>

(***************************************************************************)
(* SessionService.start, issueTokens; refresh; revoke.                      *)
(***************************************************************************)
StartSession(d) ==
    /\ At(d, "start")
    /\ sids' = sids + 1 /\ active' = sids + 1
    /\ dev' = [dev EXCEPT ![d].pc = "issue", ![d].sid = sids + 1]
    /\ UNCHANGED <<lock, otps, tokens, issued, faults>>

\* issueTokens, the end of a sign-in and of a refresh.
IssueTokens(d) ==
    /\ At(d, "issue")
    /\ issued' = issued + 1
    /\ tokens' = tokens \cup {[token |-> issued + 1, sid |-> dev[d].sid]}
    /\ dev' = [dev EXCEPT ![d].pc = "unlock", ![d].token = issued + 1]
    /\ UNCHANGED <<lock, otps, active, sids, faults>>

Held(d) == {t \in tokens : t.token = dev[d].token}

\* take: refresh and revoke of the token the browser holds.
TakeToken(d) ==
    /\ At(d, "idle") /\ dev[d].token # 0 /\ TokensLeft
    /\ tokens' = tokens \ Held(d)
    /\ \E pc \in {"resume", "end"} :
         dev' = [dev EXCEPT ![d].token = 0, ![d].pc = IF Held(d) = {} THEN "idle" ELSE pc]
    /\ UNCHANGED <<lock, otps, active, sids, issued, faults>>

\* SessionService.resume: SESSION_REPLACED unless it is the current one.
Resume(d) ==
    /\ At(d, "resume")
    /\ GoTo(d, IF active = dev[d].sid THEN "issue" ELSE "idle")
    /\ UNCHANGED <<lock, otps, sessions, faults>>

\* The current session after «خروج» of session s.
AfterEnd_Any(s) == 0
AfterEnd(s) == IF active = s THEN 0 ELSE active

EndSession(d) ==
    /\ At(d, "end")
    /\ active' = AfterEnd(dev[d].sid)
    /\ GoTo(d, "idle")
    /\ UNCHANGED <<lock, otps, tokens, sids, issued, faults>>

(***************************************************************************)
(* Faults, and what Redis forgets in time.                                  *)
(***************************************************************************)
Fault == faults < MaxFaults /\ faults' = faults + 1

\* A command fails: once the SMS may have gone out, requestOtp undoes; the lock is given up;
\* a lock whose deletion failed is left to its time.
CommandFails(d) ==
    /\ Fault
    /\ ~At(d, "idle") /\ ~At(d, "send")
    /\ GoTo(d, CASE dev[d].pc \in {"store", "count"} -> "undo"
                 [] dev[d].pc \in {"unlock", "resume", "end"} -> "idle"
                 [] OTHER -> "unlock")
    /\ UNCHANGED <<lock, otps, sessions>>

\* The process dies with every request it served.
Crash ==
    /\ Fault
    /\ \E d \in Devices : ~At(d, "idle")
    /\ dev' = [d \in Devices |-> [dev[d] EXCEPT !.pc = "idle"]]
    /\ UNCHANGED <<lock, otps, sessions>>

\* An hour after the last SMS.
SendsExpire ==
    /\ sends > 0
    /\ sends' = 0 /\ sms' = 0
    /\ UNCHANGED <<lock, otp, live, cooldown, codes, guesses, sessions, dev, faults>>

CooldownExpires ==
    /\ cooldown
    /\ cooldown' = FALSE
    /\ UNCHANGED <<lock, otp, live, sends, codes, sms, guesses, sessions, dev, faults>>

CodeExpires ==
    /\ \E c \in live : live' = live \ {c}
    /\ UNCHANGED <<lock, otp, sends, cooldown, codes, sms, guesses, sessions, dev, faults>>

Sending(d) ==
    CheckSends(d) \/ StartCooldown(d) \/ SendOtp(d) \/ StoreCode(d) \/ CountSend(d) \/ UndoSend(d)
Verifying(d) == ReadCode(d) \/ WrongCode(d) \/ RightCode(d) \/ StartSession(d)
Going(d) == Sending(d) \/ Verifying(d) \/ IssueTokens(d) \/ Resume(d) \/ EndSession(d) \/ Unlock(d)

Next ==
    \/ \E d \in Devices : Lock(d) \/ TakeToken(d) \/ Going(d) \/ LockExpires(d) \/ CommandFails(d)
    \/ Crash \/ SendsExpire \/ CooldownExpires \/ CodeExpires

Spec == Init /\ [][Next]_vars

\* A request that began goes on, and Redis forgets the lock of one that died.
Fairness == \A d \in Devices : WF_vars(Going(d)) /\ WF_vars(LockExpires(d))

FairSpec == Spec /\ Fairness

(***************************************************************************)
(* Properties.                                                              *)
(***************************************************************************)
\* The keys in Redis and the devices' requests have their shapes; a stored code was issued,
\* the signed-in session was started, and the hour's counter (sendOtp) stays in its limit.
TypeOK ==
    /\ lock \in Devices \cup {None}
    /\ otp \in Otp /\ live \subseteq 1..codes /\ otp.code \in 0..codes
    /\ sends \in 0..MaxSends /\ cooldown \in BOOLEAN
    /\ active \in 0..sids
    /\ tokens \subseteq [token : Nat, sid : Nat]
    /\ dev \in [Devices -> Device]
    /\ codes \in 0..MaxCodes /\ sids \in Nat /\ issued \in Nat /\ faults \in Nat /\ sms \in Nat
    /\ guesses \in [1..MaxCodes -> Nat]

\* verifyOtp, MAX_ATTEMPTS: a code is compared with no more wrong ones, from however many
\* browsers they come, whatever request dies.  A wrong try that a fault kept from being
\* written is one more.
GuessesBounded == \A c \in 1..MaxCodes : guesses[c] <= MaxAttempts + faults

\* requestOtp, MAX_SENDS: no more codes go out until one is used or the hour is over, but
\* for one after each fault.
SendsBounded == sms <= MaxSends + faults

\* SessionService.end, "if it is still the current one": a session ends by its own browser's
\* sign-out or by another sign-in, never by a sign-out elsewhere.
SessionEndsByOwn ==
    [][\A s \in 1..sids : active = s /\ active' # s =>
         (\E d \in Devices : At(d, "end") /\ dev[d].sid = s) \/ active' = sids + 1]_vars

\* withLock: the number is not locked for good, whichever request dies.
LockFrees == lock # None ~> lock = None
=============================================================================
