------------------------------ MODULE NumberInvite ------------------------------
(***************************************************************************)
(* The invites of ONE phone number: companies invite it as a driver, a      *)
(* factory, a company or a broker (DriverInviteService, FactoryService,     *)
(* CompanyInviteService, BrokerInviteService) by the rules of inviteRules,  *)
(* InviteExpiryWorker sweeps the invites nobody used, and the number's      *)
(* owner comes in by the web panel (RegistrationService) or a messenger     *)
(* (BotAccessService).                                                      *)
(*                                                                         *)
(* An action is what one party does between two awaits that matter: an      *)
(* invite's transaction is its reads and its commit (READ COMMITTED, no row *)
(* is locked), the sweep is its SELECT and one transaction per invite.  The *)
(* clock counts hours: what happens within a minute happens at one time.    *)
(***************************************************************************)
EXTENDS Integers, FiniteSets

CONSTANTS
    Companies,      \* companies that invite
    Kinds,          \* kinds of invites, some of AllKinds
    MaxCompanies,   \* BrokerAccessPolicy.maxCompanies
    Expiry,         \* INVITE_EXPIRY_HOURS, in clock steps
    Serial,         \* TRUE: the people act one at a time; the worker runs beside them
    MaxRequests,    \* bound: requests of the companies
    MaxFaults,      \* bound: failed queries
    MaxTime         \* bound: the clock

AllKinds == {"driver", "factory", "company", "broker"}

ASSUME InviteAssumption ==
    /\ Kinds \subseteq AllKinds
    /\ MaxCompanies \in Nat \ {0} /\ Expiry \in Nat \ {0}
    /\ Serial \in BOOLEAN
    /\ MaxRequests \in Nat /\ MaxFaults \in Nat /\ MaxTime \in Nat

VARIABLES
    account,    \* the User with this mobile; id 0: none
    invite,     \* its DriverInvite, FactoryInvite, CompanyInvite, BrokerInvite rows
    tied,       \* DriverProfile.companyUserIds, FactoryCompany, invitedByCompanyUserId,
                \* BrokerAccessPeriod.companyUserIds
    came,       \* "no", "signed" in on the web, "in": its invites are marked or a messenger is linked
    req,        \* the request of each company
    visit,      \* the id of the account a sign-in has still to mark, 0: none
    todo,       \* the rows the sweep has still to expire
    requests, faults, made,  \* how many there have been
    now

counters == <<requests, faults, made>>
db == <<account, invite, tied>>
vars == <<db, came, req, visit, todo, counters, now>>

Ids == Nat
Account == [id : Ids, created : Nat, roles : SUBSET Kinds, linked : BOOLEAN, byInvite : BOOLEAN]
Row == [there : BOOLEAN, created : Nat, used : BOOLEAN, revoked : BOOLEAN]
Request == [pc : {"idle", "commit", "pick", "select", "untie", "save", "revoke"}, kind : AllKinds, id : Ids,
            old : {"none", "waiting", "over"}, ties : SUBSET Companies, direct : BOOLEAN, fresh : BOOLEAN]

NoAccount == [id |-> 0, created |-> 0, roles |-> {}, linked |-> FALSE, byInvite |-> FALSE]
NoRow == [there |-> FALSE, created |-> 0, used |-> FALSE, revoked |-> FALSE]
NoRows == [k \in Kinds |-> [c \in Companies |-> NoRow]]
NoTies == [k \in Kinds |-> {}]
Idle == [pc |-> "idle", kind |-> "driver", id |-> 0, old |-> "none", ties |-> {},
         direct |-> FALSE, fresh |-> FALSE]

Init ==
    /\ account = NoAccount /\ invite = NoRows /\ tied = NoTies
    /\ came = "no"
    /\ req = [c \in Companies |-> Idle]
    /\ visit = 0 /\ todo = {}
    /\ requests = 0 /\ faults = 0 /\ made = 0 /\ now = 0

\* Whether a person may act: the others are not in the middle of something.
Turn(c) == Serial => visit = 0 /\ \A d \in Companies \ {c} : req[d].pc = "idle"
OwnersTurn == Serial => \A d \in Companies : req[d].pc = "idle"

(***************************************************************************)
(* inviteRules.                                                             *)
(***************************************************************************)
isInviteExpired(r) == ~r.used /\ now - r.created > Expiry
isInviteWaiting(r) == r.there /\ ~r.revoked /\ ~r.used /\ ~isInviteExpired(r)
renewedInvite == [NoRow EXCEPT !.there = TRUE, !.created = now]

WaitingFor(k) == {c \in Companies : isInviteWaiting(invite[k][c])}

\* Only an invite made the account, and nobody came in with it.
MadeByInvite(k) ==
    /\ \E c \in Companies : invite[k][c].there /\ invite[k][c].created = account.created
    /\ \A c \in Companies : ~invite[k][c].used

assertInvitable_AnyInviter(k, c) == WaitingFor(k) # {} \/ MadeByInvite(k)
assertInvitable(k, c) == c \in WaitingFor(k) \/ (WaitingFor(k) = {} /\ MadeByInvite(k))

(***************************************************************************)
(* A company invites the number.                                            *)
(***************************************************************************)
\* The row an invite finds: a company account is the one row of its invite, in the other
\* tables the pair of company and account is.
OldRow(k, c) ==
    IF isInviteWaiting(invite[k][c]) THEN "waiting"
    ELSE IF invite[k][c].there \/ (k = "company" /\ \E d \in Companies : invite[k][d].there) THEN "over"
    ELSE "none"

\* What the invite's transaction reads: the account of the number and its roles, the invites
\* the account has, the driver's companies.  A refused invite changes nothing.  register:
\* the parent company's drivers are in at once.
InviteReads(c, k, register) ==
    /\ req[c].pc = "idle" /\ Turn(c) /\ requests < MaxRequests
    /\ register => k = "driver"
    /\ account.roles # {} => k \in account.roles /\ assertInvitable(k, c)
    /\ req' = [req EXCEPT ![c] = [pc |-> "commit", kind |-> k, id |-> account.id, old |-> OldRow(k, c),
                                  ties |-> tied[k], direct |-> register, fresh |-> account.roles = {}]]
    /\ requests' = requests + 1
    /\ UNCHANGED <<db, came, visit, todo, faults, made, now>>

\* The commit fails: the number got an account meanwhile (unique mobile) or lost it (foreign
\* keys), the account got the same role (unique user and role) or the company its one invite.
InviteFails(c) ==
    \/ req[c].id # account.id
    \/ req[c].fresh /\ req[c].kind \in account.roles
    \/ /\ req[c].kind = "company" /\ req[c].old = "none"
       /\ \E d \in Companies : invite["company"][d].there

\* The companies of the account after the invite; a broker's pick comes after the commit.
Joined_NewAccount(c) == IF req[c].fresh THEN {c} ELSE tied[req[c].kind]
Joined(c) ==
    LET k == req[c].kind IN
    CASE k = "driver" /\ c \notin req[c].ties -> req[c].ties \cup {c}
      [] k = "factory" -> tied[k] \cup {c}
      [] k = "company" /\ req[c].old # "waiting" -> {c}
      [] OTHER -> tied[k]

\* The rows of the kind after the invite.
Invited(c) ==
    LET k == req[c].kind
        row == IF req[c].old = "waiting" THEN invite[k][c] ELSE renewedInvite
    IN  [d \in Companies |->
            CASE d = c /\ req[c].direct -> [row EXCEPT !.used = TRUE, !.revoked = FALSE]
              [] d = c /\ ~req[c].direct -> row
              [] d # c /\ k = "company" /\ req[c].old # "waiting" -> NoRow
              [] OTHER -> invite[k][d]]

InviteCommits(c) ==
    LET k == req[c].kind IN
    /\ req[c].pc = "commit"
    /\ \/ /\ InviteFails(c)
          /\ req' = [req EXCEPT ![c] = Idle]
          /\ UNCHANGED <<db, made>>
       \/ /\ ~InviteFails(c)
          /\ account' = IF account.id = 0
                        THEN [NoAccount EXCEPT !.id = made + 1, !.created = now, !.roles = {k}, !.byInvite = TRUE]
                        ELSE [account EXCEPT !.roles = @ \cup {k}]
          /\ made' = IF account.id = 0 THEN made + 1 ELSE made
          /\ invite' = [invite EXCEPT ![k] = Invited(c)]
          /\ tied' = [tied EXCEPT ![k] = Joined(c)]
          /\ req' = [req EXCEPT ![c] = IF k = "broker" THEN [@ EXCEPT !.pc = "pick", !.id = account'.id] ELSE Idle]
    /\ UNCHANGED <<came, visit, todo, requests, faults, now>>

\* Room for one more in a broker's pick.
HasRoom(pick) == Cardinality(pick) < MaxCompanies

\* addInvitingCompany reads the broker's pick.
PickReads(c) ==
    /\ req[c].pc = "pick"
    /\ LET pick == IF account.id = req[c].id THEN tied["broker"] ELSE {} IN
       req' = [req EXCEPT ![c] = IF c \in pick \/ ~HasRoom(pick)
                                 THEN Idle
                                 ELSE [@ EXCEPT !.pc = "select", !.ties = pick]]
    /\ UNCHANGED <<db, came, visit, todo, counters, now>>

\* selectCompanies with the pick that was read and the company; refused when the account is
\* gone or no longer a broker's only.
PickWrites(c) ==
    /\ req[c].pc = "select"
    /\ tied' = IF account.id = req[c].id /\ account.roles = {"broker"}
               THEN [tied EXCEPT !["broker"] = req[c].ties \cup {c}]
               ELSE tied
    /\ req' = [req EXCEPT ![c] = Idle]
    /\ UNCHANGED <<account, invite, came, visit, todo, counters, now>>

(***************************************************************************)
(* A company takes the number off its list.                                 *)
(***************************************************************************)
\* The first statement: the invite is revoked; removeFactory deletes the membership.
RemoveStarts(c, k) ==
    /\ req[c].pc = "idle" /\ Turn(c) /\ requests < MaxRequests
    /\ \/ /\ k \in {"driver", "broker"}
          /\ invite[k][c].there /\ ~invite[k][c].revoked
          /\ invite' = [invite EXCEPT ![k][c].revoked = TRUE]
          /\ req' = [req EXCEPT ![c] = [Idle EXCEPT !.pc = "untie", !.kind = k, !.id = account.id]]
          /\ UNCHANGED tied
       \/ /\ k = "factory"
          /\ c \in tied[k]
          /\ tied' = [tied EXCEPT ![k] = @ \ {c}]
          /\ req' = [req EXCEPT ![c] = [Idle EXCEPT !.pc = "revoke", !.kind = k, !.id = account.id]]
          /\ UNCHANGED invite
    /\ requests' = requests + 1
    /\ UNCHANGED <<account, came, visit, todo, faults, made, now>>

\* dropCompany is one statement; the driver's companies are read, and saved later.
RemoveUnties(c) ==
    LET k == req[c].kind IN
    /\ req[c].pc = "untie"
    /\ \/ /\ k = "broker"
          /\ tied' = [tied EXCEPT ![k] = IF account.id = req[c].id THEN @ \ {c} ELSE @]
          /\ req' = [req EXCEPT ![c] = Idle]
       \/ /\ k = "driver"
          /\ req' = [req EXCEPT ![c] = IF account.id = req[c].id /\ c \in tied[k]
                                       THEN [@ EXCEPT !.pc = "save", !.ties = tied[k]]
                                       ELSE Idle]
          /\ UNCHANGED tied
    /\ UNCHANGED <<account, invite, came, visit, todo, counters, now>>

RemoveSaves(c) ==
    /\ req[c].pc = "save"
    /\ tied' = IF account.id = req[c].id THEN [tied EXCEPT !["driver"] = req[c].ties \ {c}] ELSE tied
    /\ req' = [req EXCEPT ![c] = Idle]
    /\ UNCHANGED <<account, invite, came, visit, todo, counters, now>>

\* removeFactory's second statement.
RemoveRevokes(c) ==
    /\ req[c].pc = "revoke"
    /\ invite' = IF account.id = req[c].id /\ invite["factory"][c].there
                 THEN [invite EXCEPT !["factory"][c].revoked = TRUE]
                 ELSE invite
    /\ req' = [req EXCEPT ![c] = Idle]
    /\ UNCHANGED <<account, tied, came, visit, todo, counters, now>>

(***************************************************************************)
(* InviteExpiryWorker: expireStaleInvites.                                  *)
(***************************************************************************)
\* The SELECT of one kind.
isStale_Twice(r) == r.there /\ ~r.used /\ ~r.revoked /\ now - r.created > Expiry + Expiry
isStale(r) == r.there /\ ~r.used /\ ~r.revoked /\ now - r.created > Expiry

FindStale(k) ==
    /\ todo = {}
    /\ \E c \in Companies : isStale(invite[k][c])
    /\ todo' = {[kind |-> k, company |-> c, id |-> account.id] : c \in {d \in Companies : isStale(invite[k][d])}}
    /\ UNCHANGED <<db, came, req, visit, counters, now>>

\* The row the SELECT found: its company invite may have another parent by now.
RowOf(t) ==
    IF t.kind # "company" THEN t.company
    ELSE CHOOSE c \in Companies : \/ invite["company"][c].there
                                  \/ c = t.company /\ \A d \in Companies : ~invite["company"][d].there

\* The DELETE of the account that the invite of c, now revoked, made.
NobodyCame(k, c) ==
    /\ invite[k][c].created = account.created
    /\ ~account.linked
    /\ \A d \in Companies : invite[k][d].there => ~invite[k][d].used /\ (invite[k][d].revoked \/ d = c)

\* One invite: revoked if it is still unused, what it tied undone, the account deleted with
\* all its rows; one transaction.
ExpireOne ==
    \E t \in todo :
        LET c == RowOf(t)
            k == t.kind
            row == invite[k][c]
        IN
        /\ todo' = todo \ {t}
        /\ IF account.id = t.id /\ row.there /\ ~row.used /\ ~row.revoked
           THEN IF NobodyCame(k, c)
                THEN account' = NoAccount /\ invite' = NoRows /\ tied' = NoTies /\ came' = "no"
                ELSE /\ invite' = [invite EXCEPT ![k][c].revoked = TRUE]
                     /\ tied' = [tied EXCEPT ![k] = @ \ {c}]
                     /\ UNCHANGED <<account, came>>
           ELSE UNCHANGED <<db, came>>
        /\ UNCHANGED <<req, visit, counters, now>>

(***************************************************************************)
(* The number's owner comes in.                                             *)
(***************************************************************************)
\* verifyOtp of an account with a role: a session first.
SignIn ==
    /\ visit = 0 /\ OwnersTurn
    /\ account.roles # {}
    /\ visit' = account.id
    /\ came' = IF came = "in" THEN "in" ELSE "signed"
    /\ UNCHANGED <<db, req, todo, counters, now>>

\* createAccount: the account is made with its role, or one without a role gets it
\* (completeRegistration; a messenger's button for the linked one).
SignUp(k) ==
    /\ visit = 0 /\ OwnersTurn
    /\ account.roles = {}
    /\ account.id = 0 => made < MaxRequests
    /\ account' = IF account.id = 0
                  THEN [NoAccount EXCEPT !.id = made + 1, !.created = now, !.roles = {k}]
                  ELSE [account EXCEPT !.roles = {k}]
    /\ made' = IF account.id = 0 THEN made + 1 ELSE made
    /\ visit' = account'.id
    /\ came' = IF came = "in" THEN "in" ELSE "signed"
    /\ UNCHANGED <<invite, tied, req, todo, requests, faults, now>>

\* A messenger sends the number: linkExistingUser, which marks its invites, or
\* registerNewUser, an account without a role and without invites.
LinkMessenger ==
    /\ visit = 0 /\ OwnersTurn
    /\ ~account.linked
    /\ account.id = 0 => made < MaxRequests
    /\ account' = IF account.id = 0
                  THEN [NoAccount EXCEPT !.id = made + 1, !.created = now, !.linked = TRUE]
                  ELSE [account EXCEPT !.linked = TRUE]
    /\ made' = IF account.id = 0 THEN made + 1 ELSE made
    /\ visit' = account.id
    /\ came' = "in"
    /\ UNCHANGED <<invite, tied, req, todo, requests, faults, now>>

\* The row of a number that came in.
MarkedUsed_InForce(r) == [r EXCEPT !.used = r.there /\ ~r.revoked]
MarkedUsed(r) == [r EXCEPT !.used = r.there]

\* markInvitesUsed: every row with this number.  A failure is swallowed.
MarkInvitesUsed ==
    /\ visit # 0
    /\ \/ /\ invite' = [k \in Kinds |-> [c \in Companies |-> MarkedUsed(invite[k][c])]]
          /\ came' = IF account.id = visit THEN "in" ELSE came
          /\ UNCHANGED faults
       \/ /\ faults < MaxFaults /\ faults' = faults + 1
          /\ UNCHANGED <<invite, came>>
    /\ visit' = 0
    /\ UNCHANGED <<account, tied, req, todo, requests, made, now>>

\* The owner picks companies: selectCompanies of a broker, the profile of a driver.
OwnerPicks(k, S) ==
    /\ came # "no" /\ visit = 0 /\ OwnersTurn /\ requests < MaxRequests
    /\ account.roles = {k}
    /\ \/ k = "driver"
       \/ k = "broker" /\ S # {} /\ Cardinality(S) <= MaxCompanies
    /\ tied' = [tied EXCEPT ![k] = S]
    /\ requests' = requests + 1
    /\ UNCHANGED <<account, invite, came, req, visit, todo, faults, made, now>>

\* A query of the sweep fails: the sweep ends.
SweepFails ==
    /\ todo # {} /\ faults < MaxFaults
    /\ todo' = {} /\ faults' = faults + 1
    /\ UNCHANGED <<db, came, req, visit, requests, made, now>>

\* A request takes less than a clock step.
Tick ==
    /\ now < MaxTime /\ visit = 0 /\ \A c \in Companies : req[c].pc = "idle"
    /\ now' = now + 1
    /\ UNCHANGED <<db, came, req, visit, todo, counters>>

RequestStep(c) ==
    \/ InviteCommits(c) \/ PickReads(c) \/ PickWrites(c)
    \/ RemoveUnties(c) \/ RemoveSaves(c) \/ RemoveRevokes(c)
Ask(c) ==
    \E k \in Kinds : RemoveStarts(c, k) \/ \E register \in BOOLEAN : InviteReads(c, k, register)
Owner == \E k \in Kinds : SignUp(k) \/ \E S \in SUBSET Companies : OwnerPicks(k, S)

Next ==
    \/ \E c \in Companies : Ask(c) \/ RequestStep(c)
    \/ \E k \in Kinds : FindStale(k)
    \/ ExpireOne \/ SweepFails
    \/ SignIn \/ LinkMessenger \/ MarkInvitesUsed \/ Owner
    \/ Tick

Spec == Init /\ [][Next]_vars

\* setInterval keeps the sweep coming and each sweep goes over every kind, a request that
\* began ends, time passes.  Nobody need invite or come in.
Fairness ==
    /\ \A c \in Companies : WF_vars(RequestStep(c))
    /\ \A k \in Kinds : SF_vars(FindStale(k))
    /\ WF_vars(ExpireOne)
    /\ WF_vars(MarkInvitesUsed)
    /\ WF_vars(Tick)

FairSpec == Spec /\ Fairness

(***************************************************************************)
(* Properties.                                                              *)
(***************************************************************************)
\* Rows, requests in hand and the sweep's list have the shape the code writes, and an
\* account has one parent company at most (the single parentCompanyId column, replaced when
\* a company joins).
TypeOK ==
    /\ account \in Account
    /\ invite \in [Kinds -> [Companies -> Row]]
    /\ tied \in [Kinds -> SUBSET Companies]
    /\ \A k \in Kinds : k = "company" => \A c, d \in tied[k] : c = d
    /\ came \in {"no", "signed", "in"}
    /\ req \in [Companies -> Request]
    /\ visit \in Ids
    /\ todo \subseteq [kind : Kinds, company : Companies, id : Ids]
    /\ requests \in Nat /\ faults \in Nat /\ made \in Nat /\ now \in Nat

\* inviteRules: a number one inviter's invite waits for belongs to that one until it is
\* used or its day is over.
OneWaiting ==
    \A k, l \in Kinds, c, d \in Companies :
        isInviteWaiting(invite[k][c]) /\ isInviteWaiting(invite[l][d]) => k = l /\ c = d

\* createInvite of a factory and of a company, removeFactory, untie: an invite in force has
\* its tie, whenever the sweep runs.
InForceTied ==
    \A k \in Kinds \cap {"factory", "company"}, c \in Companies :
        invite[k][c].there /\ ~invite[k][c].revoked /\ req[c].pc # "revoke" => c \in tied[k]

\* addInvitingCompany, selectCompanies: a broker's pick never outgrows maxCompanies, by
\* invites and picks in any order.
PickWithinLimit == "broker" \in Kinds => Cardinality(tied["broker"]) <= MaxCompanies

\* expireStaleInvites, "nobody ever came in with it": an account somebody came into, and
\* whose invites were marked or which is linked to a messenger, is never deleted.
CameInKept == [][came = "in" => account'.id = account.id]_vars

\* InviteExpiryWorker: an invite nobody used within its day is revoked, or goes with the
\* account it made, whatever query fails.
Overdue(r) == r.there /\ ~r.used /\ ~r.revoked /\ now - r.created > Expiry
InviteEnds ==
    \A k \in Kinds, c \in Companies : Overdue(invite[k][c]) ~> ~Overdue(invite[k][c])

\* assertInvitable, "Yes ... when only an invite made the account and nobody came in with it
\* (that invite's day over)": the number can be invited again.
InvitableAgain ==
    account.byInvite /\ came = "no" =>
        \A k \in account.roles, c \in Companies :
            (\A d \in Companies : invite[k][d].there => isInviteExpired(invite[k][d])) => assertInvitable(k, c)

\* expireStaleInvites, "Invites nobody used within their day": the sweep revokes no other.
FreshInviteStands ==
    [][\A k \in Kinds, c \in Companies :
         isInviteWaiting(invite[k][c]) /\ ~(\E d \in Companies : RemoveStarts(d, k) \/ RemoveRevokes(d)) =>
             ~invite[k][c]'.revoked /\ account'.id = account.id]_vars
=============================================================================
