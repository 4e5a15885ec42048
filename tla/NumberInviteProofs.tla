--------------------------- MODULE NumberInviteProofs ---------------------------
(***************************************************************************)
(* Proofs about NumberInvite, for every number of companies, every choice of *)
(* kinds, limits and bounds.                                                *)
(***************************************************************************)
EXTENDS NumberInvite, TLAPS

\* What a request in hand is about.
RequestOK(r) ==
    /\ r.pc # "idle" => r.kind \in Kinds
    /\ r.direct => r.kind = "driver"
    /\ r.pc \in {"pick", "select"} => r.kind = "broker"
    /\ r.pc = "save" => r.kind = "driver"
    /\ r.pc = "revoke" => r.kind = "factory"

\* A number without an account has no invites; an invite gives the account its role.
AccountOK ==
    /\ account.id = 0 => account.roles = {} /\ came = "no" /\ ~account.linked
    /\ \A k \in Kinds, c \in Companies : invite[k][c].there => k \in account.roles

\* An invite in force has its tie, except a factory's that is being removed.
InForce ==
    \A k \in Kinds \cap {"factory", "company"}, c \in Companies :
        invite[k][c].there /\ ~invite[k][c].revoked => c \in tied[k] \/ (k = "factory" /\ req[c].pc = "revoke")

\* The account a removal began with goes together with the invites.
RevokeOK ==
    \A c \in Companies : req[c].pc = "revoke" /\ req[c].id # account.id => \A k \in Kinds : ~invite[k][c].there

\* The inductive invariant, however the requests interleave.
IInv ==
    /\ TypeOK
    /\ \A c \in Companies : RequestOK(req[c])
    /\ AccountOK /\ InForce /\ RevokeOK

\* People that act one at a time.
OneActs ==
    /\ \A c, d \in Companies : req[c].pc # "idle" /\ req[d].pc # "idle" => c = d
    /\ visit # 0 => \A c \in Companies : req[c].pc = "idle"

\* An invite that is about to be committed still finds what its transaction read, but for
\* what the sweep undid meanwhile.
CommitOK(c) ==
    /\ req[c].pc = "commit" /\ req[c].id = 0 => account.id = 0
    /\ req[c].pc = "commit" /\ req[c].id = account.id =>
         /\ account.roles = IF req[c].fresh THEN {} ELSE {req[c].kind}
         /\ req[c].old # "waiting" => \A d \in Companies : ~isInviteWaiting(invite[req[c].kind][d])
         /\ came = "in" => account.linked

\* Somebody who came in is linked to a messenger or has no unused invite, and whoever is
\* about to have come in has a role at least.
CameOK ==
    /\ came = "in" => account.linked \/ (account.roles # {} /\ \A k \in Kinds, c \in Companies :
                                               invite[k][c].there => invite[k][c].used)
    /\ visit # 0 /\ visit = account.id => account.linked \/ account.roles # {}

\* The inductive invariant when the people act one at a time, whatever the sweep does.
SInv ==
    /\ IInv /\ OneActs
    /\ \A k, l \in account.roles : k = l
    /\ \A c \in Companies : CommitOK(c)
    /\ OneWaiting /\ CameOK

-----------------------------------------------------------------------------
(* Facts about the operators. *)

LEMMA Constants ==
    /\ Kinds \subseteq {"driver", "factory", "company", "broker"} /\ Serial \in BOOLEAN
    /\ MaxRequests \in Nat /\ MaxFaults \in Nat /\ MaxTime \in Nat
BY InviteAssumption DEF InviteAssumption, AllKinds

LEMMA IdleFacts ==
    /\ Idle \in Request /\ RequestOK(Idle) /\ Idle.pc = "idle"
<1>1. Idle.pc = "idle" /\ Idle.direct = FALSE
  BY DEF Idle
<1>2. Idle \in Request
  BY DEF Idle, Request, AllKinds, Ids
<1> QED BY <1>1, <1>2 DEF RequestOK

LEMMA BlankFacts ==
    /\ NoAccount \in Account /\ NoAccount.id = 0 /\ NoAccount.roles = {} /\ NoAccount.linked = FALSE
    /\ NoRow \in Row /\ NoRow.there = FALSE
    /\ NoRows \in [Kinds -> [Companies -> Row]] /\ \A k \in Kinds, c \in Companies : NoRows[k][c] = NoRow
    /\ NoTies \in [Kinds -> SUBSET Companies] /\ \A k \in Kinds : NoTies[k] = {}
<1>1. NoAccount \in Account
  BY DEF NoAccount, Account, Ids
<1>2. NoAccount.id = 0 /\ NoAccount.roles = {} /\ NoAccount.linked = FALSE
  BY DEF NoAccount
<1>3. NoRow \in Row /\ NoRow.there = FALSE
  BY DEF NoRow, Row
<1>4. NoRows \in [Kinds -> [Companies -> Row]] /\ \A k \in Kinds, c \in Companies : NoRows[k][c] = NoRow
  BY <1>3 DEF NoRows
<1>5. NoTies \in [Kinds -> SUBSET Companies] /\ \A k \in Kinds : NoTies[k] = {}
  BY DEF NoTies
<1> QED BY <1>1, <1>2, <1>3, <1>4, <1>5

LEMMA RenewedFacts ==
    ASSUME now \in Nat
    PROVE  /\ renewedInvite \in Row /\ renewedInvite.there /\ ~renewedInvite.used /\ ~renewedInvite.revoked
           /\ renewedInvite.created = now
<1>1. PICK r : r = [NoRow EXCEPT !.there = TRUE, !.created = now]
  OBVIOUS
<1>2. r \in Row
  BY <1>1, BlankFacts DEF Row
<1>3. r.there = TRUE /\ r.used = FALSE /\ r.revoked = FALSE /\ r.created = now
  BY <1>1 DEF NoRow
<1> QED BY <1>1, <1>2, <1>3 DEF renewedInvite

\* The types.
LEMMA Types ==
    ASSUME IInv
    PROVE  /\ account \in Account /\ account.id \in Nat /\ account.roles \subseteq Kinds
           /\ invite \in [Kinds -> [Companies -> Row]] /\ tied \in [Kinds -> SUBSET Companies]
           /\ (\A k \in Kinds : k = "company" => \A c, d \in tied[k] : c = d)
           /\ came \in {"no", "signed", "in"} /\ req \in [Companies -> Request] /\ visit \in Nat
           /\ todo \subseteq [kind : Kinds, company : Companies, id : Nat]
           /\ requests \in Nat /\ faults \in Nat /\ made \in Nat /\ now \in Nat
BY DEF IInv, TypeOK, Account, Ids

LEMMA RequestTypes ==
    ASSUME IInv, NEW c \in Companies
    PROVE  /\ req[c] \in Request /\ RequestOK(req[c]) /\ req[c].id \in Nat /\ req[c].ties \subseteq Companies
           /\ req[c].direct \in BOOLEAN /\ req[c].fresh \in BOOLEAN
BY Types DEF IInv, Request, Ids

LEMMA RowTypes ==
    ASSUME IInv, NEW k \in Kinds, NEW c \in Companies
    PROVE  /\ invite[k][c] \in Row /\ invite[k][c].there \in BOOLEAN /\ invite[k][c].used \in BOOLEAN
           /\ invite[k][c].revoked \in BOOLEAN /\ invite[k][c].created \in Nat
BY Types DEF Row

\* A step of the request of company c.
LEMMA Moved ==
    ASSUME IInv, NEW c \in Companies, NEW r \in Request, RequestOK(r), req' = [req EXCEPT ![c] = r]
    PROVE  /\ req' \in [Companies -> Request] /\ \A d \in Companies : RequestOK(req'[d])
           /\ req'[c] = r /\ \A d \in Companies : d # c => req'[d] = req[d]
BY Types DEF IInv

\* The request of c is over, or goes on as r.
LEMMA ToIdle ==
    ASSUME IInv, NEW c \in Companies, req' = [req EXCEPT ![c] = Idle]
    PROVE  /\ req' \in [Companies -> Request] /\ \A d \in Companies : RequestOK(req'[d])
           /\ req'[c].pc = "idle" /\ \A d \in Companies : d # c => req'[d] = req[d]
BY IdleFacts, Moved

-----------------------------------------------------------------------------
(* Every step keeps IInv: first what does not touch the account and the invites. *)

LEMMA Assemble ==
    ASSUME IInv, UNCHANGED <<account, invite, came>>, tied' \in [Kinds -> SUBSET Companies],
           \A k \in Kinds : k \in {"factory", "company"} => tied'[k] = tied[k],
           req' \in [Companies -> Request], \A c \in Companies : RequestOK(req'[c]),
           \A c \in Companies : /\ req'[c].pc = "revoke" => req[c].pc = "revoke" /\ req'[c].id = req[c].id
                                /\ req[c].pc = "revoke" => req'[c].pc = "revoke",
           visit' \in Nat, todo' \subseteq [kind : Kinds, company : Companies, id : Nat],
           requests' \in Nat, faults' \in Nat, made' \in Nat, now' \in Nat
    PROVE  IInv'
<1>1. TypeOK'
  BY Types DEF TypeOK, Ids
<1>2. \A c \in Companies : RequestOK(req[c])'
  BY DEF RequestOK
<1>3. AccountOK' /\ RevokeOK'
  BY DEF IInv, AccountOK, RevokeOK
<1>4. InForce'
  BY DEF IInv, InForce
<1> QED BY <1>1, <1>2, <1>3, <1>4 DEF IInv

LEMMA InviteReadsInv ==
    ASSUME IInv, NEW c \in Companies, NEW k \in Kinds, NEW register \in BOOLEAN, InviteReads(c, k, register)
    PROVE  IInv'
<1>1. UNCHANGED <<account, invite, tied, came, visit, todo, faults, made, now>> /\ requests' = requests + 1
      /\ req[c].pc = "idle" /\ (register => k = "driver")
  BY DEF InviteReads, db
<1>2. PICK old \in {"none", "waiting", "over"} : old = OldRow(k, c)
  BY DEF OldRow
<1>3. PICK fresh \in BOOLEAN : fresh = (account.roles = {})
  OBVIOUS
<1>4. PICK r : r = [pc |-> "commit", kind |-> k, id |-> account.id, old |-> old,
                    ties |-> tied[k], direct |-> register, fresh |-> fresh]
  OBVIOUS
<1>5. k \in AllKinds /\ tied[k] \subseteq Companies /\ account.id \in Nat
  BY Types, InviteAssumption DEF InviteAssumption
<1>6. r \in Request
  BY <1>4, <1>5 DEF Request, Ids
<1>7. r.pc = "commit" /\ r.kind = k /\ r.direct = register
  BY <1>4
<1>8. RequestOK(r)
  BY <1>1, <1>7 DEF RequestOK
<1>9. req' = [req EXCEPT ![c] = r]
  BY <1>2, <1>3, <1>4 DEF InviteReads
<1>10. /\ req' \in [Companies -> Request] /\ \A d \in Companies : RequestOK(req'[d])
       /\ req'[c] = r /\ \A d \in Companies : d # c => req'[d] = req[d]
  BY <1>6, <1>8, <1>9, Moved
<1>11. \A d \in Companies : /\ req'[d].pc = "revoke" => req[d].pc = "revoke" /\ req'[d].id = req[d].id
                            /\ req[d].pc = "revoke" => req'[d].pc = "revoke"
  BY <1>1, <1>7, <1>10
<1>12. requests' \in Nat
  BY <1>1, Types
<1> QED BY <1>1, <1>10, <1>11, <1>12, Types, Assemble

LEMMA PickReadsInv ==
    ASSUME IInv, NEW c \in Companies, PickReads(c)
    PROVE  IInv'
<1>1. UNCHANGED <<account, invite, tied, came, visit, todo, requests, faults, made, now>> /\ req[c].pc = "pick"
  BY DEF PickReads, db, counters
<1>2. req[c].kind = "broker" /\ "broker" \in Kinds
  BY <1>1, RequestTypes DEF RequestOK
<1>3. PICK pick \in SUBSET Companies : pick = IF account.id = req[c].id THEN tied["broker"] ELSE {}
  BY <1>2, Types
<1>4. PICK r : r = [req[c] EXCEPT !.pc = "select", !.ties = pick]
  OBVIOUS
<1>5. r \in Request
  <2>1. pick \subseteq Companies /\ req[c] \in Request
    BY <1>3, RequestTypes
  <2> QED BY <1>4, <2>1 DEF Request
<1>6. r.pc = "select" /\ r.kind = req[c].kind /\ r.direct = req[c].direct
  BY <1>4, RequestTypes DEF Request
<1>7. RequestOK(r)
  BY <1>2, <1>6, RequestTypes DEF RequestOK
<1>8. req' = [req EXCEPT ![c] = Idle] \/ req' = [req EXCEPT ![c] = r]
  BY <1>3, <1>4 DEF PickReads
<1>9. /\ req' \in [Companies -> Request] /\ \A d \in Companies : RequestOK(req'[d])
      /\ req'[c].pc # "revoke" /\ \A d \in Companies : d # c => req'[d] = req[d]
  BY <1>5, <1>6, <1>7, <1>8, IdleFacts, Moved
<1>10. \A d \in Companies : /\ req'[d].pc = "revoke" => req[d].pc = "revoke" /\ req'[d].id = req[d].id
                            /\ req[d].pc = "revoke" => req'[d].pc = "revoke"
  BY <1>1, <1>9
<1> QED BY <1>1, <1>9, <1>10, Types, Assemble

\* A step of a broker's or a driver's ties that ends the request.
LEMMA TiesEnd ==
    ASSUME IInv, NEW c \in Companies, req[c].pc # "revoke", req' = [req EXCEPT ![c] = Idle],
           UNCHANGED <<account, invite, came, visit, todo, requests, faults, made, now>>,
           NEW k \in {"driver", "broker"}, NEW S \in SUBSET Companies,
           tied' = [tied EXCEPT ![k] = S] \/ tied' = tied
    PROVE  IInv'
<1>1. /\ req' \in [Companies -> Request] /\ \A d \in Companies : RequestOK(req'[d])
      /\ req'[c].pc = "idle" /\ \A d \in Companies : d # c => req'[d] = req[d]
  BY ToIdle
<1>2. \A d \in Companies : /\ req'[d].pc = "revoke" => req[d].pc = "revoke" /\ req'[d].id = req[d].id
                           /\ req[d].pc = "revoke" => req'[d].pc = "revoke"
  BY <1>1
<1>3. tied' \in [Kinds -> SUBSET Companies] /\ \A l \in Kinds : l \in {"factory", "company"} => tied'[l] = tied[l]
  BY Types
<1> QED BY <1>1, <1>2, <1>3, Types, Assemble

LEMMA PickWritesInv ==
    ASSUME IInv, NEW c \in Companies, PickWrites(c)
    PROVE  IInv'
<1>1. UNCHANGED <<account, invite, came, visit, todo, requests, faults, made, now>> /\ req[c].pc = "select"
      /\ req' = [req EXCEPT ![c] = Idle]
  BY DEF PickWrites, counters
<1>2. PICK S : S = req[c].ties \cup {c}
  OBVIOUS
<1>3. S \in SUBSET Companies
  BY <1>2, RequestTypes
<1>4. tied' = [tied EXCEPT !["broker"] = S] \/ tied' = tied
  BY <1>2 DEF PickWrites
<1> QED BY <1>1, <1>3, <1>4, TiesEnd

LEMMA RemoveSavesInv ==
    ASSUME IInv, NEW c \in Companies, RemoveSaves(c)
    PROVE  IInv'
<1>1. UNCHANGED <<account, invite, came, visit, todo, requests, faults, made, now>> /\ req[c].pc = "save"
      /\ req' = [req EXCEPT ![c] = Idle]
  BY DEF RemoveSaves, counters
<1>2. PICK S : S = req[c].ties \ {c}
  OBVIOUS
<1>3. S \in SUBSET Companies
  BY <1>2, RequestTypes
<1>4. tied' = [tied EXCEPT !["driver"] = S] \/ tied' = tied
  BY <1>2 DEF RemoveSaves
<1> QED BY <1>1, <1>3, <1>4, TiesEnd

LEMMA RemoveUntiesInv ==
    ASSUME IInv, NEW c \in Companies, RemoveUnties(c)
    PROVE  IInv'
<1>1. UNCHANGED <<account, invite, came, visit, todo, requests, faults, made, now>> /\ req[c].pc = "untie"
  BY DEF RemoveUnties, counters
<1>2. PICK k \in Kinds : k = req[c].kind
  BY <1>1, RequestTypes DEF RequestOK
<1>3. CASE k = "broker"
  <2>1. PICK S : S = IF account.id = req[c].id THEN tied[k] \ {c} ELSE tied[k]
    OBVIOUS
  <2>2. S \in SUBSET Companies
    BY <2>1, Types
  <2>3. tied' = [tied EXCEPT ![k] = S] /\ req' = [req EXCEPT ![c] = Idle]
    BY <1>2, <1>3, <2>1 DEF RemoveUnties
  <2> QED BY <1>1, <1>3, <2>2, <2>3, TiesEnd
<1>4. CASE k = "driver"
  <2>1. PICK r : r = [req[c] EXCEPT !.pc = "save", !.ties = tied[k]]
    OBVIOUS
  <2>2. r \in Request
    BY <2>1, RequestTypes, Types, ZenonT(40) DEF Request
  <2>3. r.pc = "save" /\ r.kind = req[c].kind /\ r.direct = req[c].direct
    BY <2>1, RequestTypes DEF Request
  <2>4. RequestOK(r)
    BY <1>2, <1>4, <2>3, RequestTypes DEF RequestOK
  <2>5. (req' = [req EXCEPT ![c] = Idle] \/ req' = [req EXCEPT ![c] = r]) /\ tied' = tied
    BY <1>2, <1>4, <2>1 DEF RemoveUnties
  <2>6. /\ req' \in [Companies -> Request] /\ \A d \in Companies : RequestOK(req'[d])
        /\ req'[c].pc # "revoke" /\ \A d \in Companies : d # c => req'[d] = req[d]
    BY <2>2, <2>3, <2>4, <2>5, IdleFacts, Moved
  <2>7. \A d \in Companies : /\ req'[d].pc = "revoke" => req[d].pc = "revoke" /\ req'[d].id = req[d].id
                             /\ req[d].pc = "revoke" => req'[d].pc = "revoke"
    BY <1>1, <2>6
  <2> QED BY <1>1, <2>5, <2>6, <2>7, Types, Assemble
<1> QED BY <1>2, <1>3, <1>4 DEF RemoveUnties

LEMMA RemoveStartsInv ==
    ASSUME IInv, NEW c \in Companies, NEW k \in Kinds, RemoveStarts(c, k)
    PROVE  IInv'
<1>1. /\ UNCHANGED <<account, came, visit, todo, faults, made, now>> /\ requests' = requests + 1 /\ req[c].pc = "idle"
  BY DEF RemoveStarts
<1>2. requests' \in Nat
  BY <1>1, Types
<1>3. PICK pc \in {"untie", "revoke"} :
         /\ req' = [req EXCEPT ![c] = [Idle EXCEPT !.pc = pc, !.kind = k, !.id = account.id]]
         /\ \/ /\ pc = "untie" /\ k \in {"driver", "broker"} /\ tied' = tied
               /\ invite' = [invite EXCEPT ![k][c].revoked = TRUE]
            \/ pc = "revoke" /\ k = "factory" /\ tied' = [tied EXCEPT ![k] = @ \ {c}] /\ invite' = invite
  BY DEF RemoveStarts
<1>4. PICK r : r = [Idle EXCEPT !.pc = pc, !.kind = k, !.id = account.id]
  OBVIOUS
<1>5. k \in AllKinds /\ account.id \in Nat /\ Idle \in Request
  BY Types, IdleFacts, InviteAssumption DEF InviteAssumption
<1>6. r \in Request
  BY <1>3, <1>4, <1>5 DEF Request, Ids
<1>7. r.pc = pc /\ r.kind = k /\ r.id = account.id /\ r.direct = FALSE
  BY <1>4 DEF Idle
<1>8. RequestOK(r)
  BY <1>3, <1>7 DEF RequestOK
<1>9. req' = [req EXCEPT ![c] = r]
  BY <1>3, <1>4
<1>10. /\ req' \in [Companies -> Request] /\ \A d \in Companies : RequestOK(req'[d])
       /\ req'[c] = r /\ \A d \in Companies : d # c => req'[d] = req[d]
  BY <1>6, <1>8, <1>9, Moved
<1>11. CASE pc = "untie"
  <2>1. k \in {"driver", "broker"} /\ tied' = tied /\ invite' = [invite EXCEPT ![k][c].revoked = TRUE]
    BY <1>3, <1>11
  <2>2. PICK row : row = [invite[k][c] EXCEPT !.revoked = TRUE]
    OBVIOUS
  <2>3. row \in Row /\ row.there = invite[k][c].there
    BY <2>2, RowTypes DEF Row
  <2>4. invite' = [invite EXCEPT ![k] = [invite[k] EXCEPT ![c] = row]]
    BY <2>1, <2>2
  <2>5. /\ invite' \in [Kinds -> [Companies -> Row]]
        /\ \A l \in Kinds, d \in Companies : invite'[l][d] = IF l = k /\ d = c THEN row ELSE invite[l][d]
    BY <2>3, <2>4, Types
  <2>6. \A l \in Kinds, d \in Companies : /\ invite'[l][d].there = invite[l][d].there
                                          /\ l # k => invite'[l][d] = invite[l][d]
    BY <2>3, <2>5
  <2>7. TypeOK'
    BY <1>1, <1>2, <1>10, <2>1, <2>5, Types DEF TypeOK, Ids
  <2>8. AccountOK'
    BY <1>1, <2>6 DEF IInv, AccountOK
  <2>9. RevokeOK'
    BY <1>1, <1>7, <1>10, <1>11, <2>6 DEF IInv, RevokeOK
  <2>10. InForce'
    BY <1>1, <1>10, <2>1, <2>6 DEF IInv, InForce
  <2> QED BY <1>10, <2>7, <2>8, <2>9, <2>10 DEF IInv, RequestOK
<1>12. CASE pc = "revoke"
  <2>1. k = "factory" /\ tied' = [tied EXCEPT ![k] = @ \ {c}] /\ invite' = invite
    BY <1>3, <1>12
  <2>2. /\ tied' \in [Kinds -> SUBSET Companies]
        /\ \A l \in Kinds : tied'[l] = IF l = k THEN tied[k] \ {c} ELSE tied[l]
    BY <2>1, Types
  <2>3. TypeOK'
    BY <1>1, <1>2, <1>10, <2>1, <2>2, Types DEF TypeOK, Ids
  <2>4. AccountOK'
    BY <1>1, <2>1 DEF IInv, AccountOK
  <2>5. RevokeOK'
    BY <1>1, <1>7, <1>10, <2>1 DEF IInv, RevokeOK
  <2>6. InForce'
    BY <1>1, <1>7, <1>10, <1>12, <2>1, <2>2 DEF IInv, InForce
  <2> QED BY <1>10, <2>3, <2>4, <2>5, <2>6 DEF IInv, RequestOK
<1> QED BY <1>3, <1>11, <1>12

LEMMA RemoveRevokesInv ==
    ASSUME IInv, NEW c \in Companies, RemoveRevokes(c)
    PROVE  IInv'
<1>1. /\ UNCHANGED <<account, tied, came, visit, todo, requests, faults, made, now>> /\ req[c].pc = "revoke"
      /\ req' = [req EXCEPT ![c] = Idle]
  BY DEF RemoveRevokes, counters
<1>2. req[c].kind = "factory" /\ "factory" \in Kinds
  BY <1>1, RequestTypes DEF RequestOK
<1>3. /\ req' \in [Companies -> Request] /\ \A d \in Companies : RequestOK(req'[d])
      /\ req'[c].pc = "idle" /\ \A d \in Companies : d # c => req'[d] = req[d]
  BY <1>1, ToIdle
<1>4. CASE account.id = req[c].id /\ invite["factory"][c].there
  <2>1. PICK row : row = [invite["factory"][c] EXCEPT !.revoked = TRUE]
    OBVIOUS
  <2>2. row \in Row /\ row.there = invite["factory"][c].there /\ row.revoked = TRUE
    BY <1>2, <2>1, RowTypes DEF Row
  <2>3. invite' = [invite EXCEPT !["factory"] = [invite["factory"] EXCEPT ![c] = row]]
    BY <1>4, <2>1 DEF RemoveRevokes
  <2>4. /\ invite' \in [Kinds -> [Companies -> Row]]
        /\ \A l \in Kinds, d \in Companies : invite'[l][d] = IF l = "factory" /\ d = c THEN row ELSE invite[l][d]
    BY <1>2, <2>2, <2>3, Types
  <2>5. \A l \in Kinds, d \in Companies : invite'[l][d].there = invite[l][d].there
    BY <2>2, <2>4
  <2>6. TypeOK'
    BY <1>1, <1>3, <2>4, Types DEF TypeOK, Ids
  <2>7. AccountOK' /\ RevokeOK'
    BY <1>1, <1>3, <2>5 DEF IInv, AccountOK, RevokeOK
  <2>8. InForce'
    BY <1>1, <1>3, <2>2, <2>4 DEF IInv, InForce
  <2> QED BY <1>3, <2>6, <2>7, <2>8 DEF IInv, RequestOK
<1>5. CASE ~(account.id = req[c].id /\ invite["factory"][c].there)
  <2>1. invite' = invite
    BY <1>5 DEF RemoveRevokes
  <2>2. ~invite["factory"][c].there
    BY <1>1, <1>2, <1>5 DEF IInv, RevokeOK
  <2>3. TypeOK'
    BY <1>1, <1>3, <2>1, Types DEF TypeOK, Ids
  <2>4. AccountOK' /\ RevokeOK'
    BY <1>1, <1>3, <2>1 DEF IInv, AccountOK, RevokeOK
  <2>5. InForce'
    BY <1>1, <1>3, <2>1, <2>2 DEF IInv, InForce
  <2> QED BY <1>3, <2>3, <2>4, <2>5 DEF IInv, RequestOK
<1> QED BY <1>4, <1>5

LEMMA SameRequests ==
    ASSUME IInv, req' = req
    PROVE  /\ req' \in [Companies -> Request] /\ \A c \in Companies : RequestOK(req'[c])
           /\ \A c \in Companies : /\ req'[c].pc = "revoke" => req[c].pc = "revoke" /\ req'[c].id = req[c].id
                                   /\ req[c].pc = "revoke" => req'[c].pc = "revoke"
BY Types DEF IInv

LEMMA FindStaleInv ==
    ASSUME IInv, NEW k \in Kinds, FindStale(k)
    PROVE  IInv'
<1>1. UNCHANGED <<account, invite, tied, came, req, visit, requests, faults, made, now>>
  BY DEF FindStale, db, counters
<1>2. account.id \in Nat
  BY Types
<1>3. todo' \subseteq [kind : Kinds, company : Companies, id : Nat]
  BY <1>2 DEF FindStale
<1> QED BY <1>1, <1>3, SameRequests, Types, Assemble

LEMMA SweepFailsInv ==
    ASSUME IInv, SweepFails
    PROVE  IInv'
<1>1. UNCHANGED <<account, invite, tied, came, req, visit, requests, made, now>> /\ todo' = {} /\ faults' = faults + 1
  BY DEF SweepFails, db
<1>2. faults' \in Nat /\ todo' \subseteq [kind : Kinds, company : Companies, id : Nat]
  BY <1>1, Types
<1> QED BY <1>1, <1>2, SameRequests, Types, Assemble

LEMMA TickInv ==
    ASSUME IInv, Tick
    PROVE  IInv'
<1>1. UNCHANGED <<account, invite, tied, came, req, visit, todo, requests, faults, made>> /\ now' = now + 1
  BY DEF Tick, db, counters
<1>2. now' \in Nat
  BY <1>1, Types
<1> QED BY <1>1, <1>2, SameRequests, Types, Assemble

LEMMA OwnerPicksInv ==
    ASSUME IInv, NEW k \in Kinds, NEW S \in SUBSET Companies, OwnerPicks(k, S)
    PROVE  IInv'
<1>1. /\ UNCHANGED <<account, invite, came, req, visit, todo, faults, made, now>> /\ requests' = requests + 1
      /\ tied' = [tied EXCEPT ![k] = S] /\ k \in {"driver", "broker"}
  BY DEF OwnerPicks
<1>2. requests' \in Nat /\ tied' \in [Kinds -> SUBSET Companies]
      /\ \A l \in Kinds : l \in {"factory", "company"} => tied'[l] = tied[l]
  BY <1>1, Types
<1> QED BY <1>1, <1>2, SameRequests, Types, Assemble

LEMMA SameInv ==
    ASSUME IInv, UNCHANGED vars
    PROVE  IInv'
<1>1. UNCHANGED <<account, invite, tied, came, req, visit, todo, requests, faults, made, now>>
  BY DEF vars, db, counters
<1> QED BY <1>1, SameRequests, Types, Assemble

-----------------------------------------------------------------------------
(* The owner, the sweep and the invites' commits. *)

\* The owner comes in: the account stays the same or comes to be.
LEMMA OwnerStep ==
    ASSUME IInv, UNCHANGED <<invite, tied, req, todo, requests, faults, now>>,
           account' \in Account, account'.id # 0, account.roles \subseteq account'.roles,
           account'.id = account.id \/ account.id = 0,
           came' \in {"no", "signed", "in"}, visit' \in Nat, made' \in Nat
    PROVE  IInv'
<1>1. TypeOK'
  BY Types DEF TypeOK, Ids
<1>2. AccountOK'
  BY DEF IInv, AccountOK
<1>3. RevokeOK'
  BY DEF IInv, AccountOK, RevokeOK
<1>4. InForce'
  BY DEF IInv, InForce
<1> QED BY <1>1, <1>2, <1>3, <1>4, SameRequests DEF IInv, RequestOK

LEMMA SignInInv ==
    ASSUME IInv, SignIn
    PROVE  IInv'
<1>1. /\ UNCHANGED <<account, invite, tied, req, todo, requests, faults, made, now>>
      /\ account.roles # {} /\ visit' = account.id /\ came' = IF came = "in" THEN "in" ELSE "signed"
  BY DEF SignIn, db, counters
<1>2. account.id # 0
  BY <1>1 DEF IInv, AccountOK
<1> QED BY <1>1, <1>2, Types, OwnerStep

\* An account that the owner makes, or its own that changes.
LEMMA SignUpInv ==
    ASSUME IInv, NEW k \in Kinds, SignUp(k)
    PROVE  IInv'
<1>1. /\ UNCHANGED <<invite, tied, req, todo, requests, faults, now>>
      /\ account.roles = {} /\ visit' = account'.id /\ came' = IF came = "in" THEN "in" ELSE "signed"
      /\ made' = IF account.id = 0 THEN made + 1 ELSE made
  BY DEF SignUp
<1>2. PICK a : a = [NoAccount EXCEPT !.id = made + 1, !.created = now, !.roles = {k}]
  OBVIOUS
<1>3. PICK b : b = [account EXCEPT !.roles = {k}]
  OBVIOUS
<1>4. account' = IF account.id = 0 THEN a ELSE b
  BY <1>2, <1>3 DEF SignUp
<1>5. made + 1 \in Nat /\ made + 1 # 0 /\ now \in Nat
  BY Types
<1>6. a \in Account
  BY <1>2, <1>5, BlankFacts DEF Account, Ids
<1>7. a.id # 0
  BY <1>2, <1>5 DEF NoAccount
<1>8. b \in Account
  BY <1>3, Types DEF Account
<1>9. b.id = account.id
  BY <1>3, Types DEF Account
<1>10. account' \in Account /\ account'.id # 0 /\ (account'.id = account.id \/ account.id = 0)
  BY <1>4, <1>6, <1>7, <1>8, <1>9
<1>11. visit' \in Nat /\ made' \in Nat
  BY <1>1, <1>5, <1>10, Types DEF Account, Ids
<1> QED BY <1>1, <1>10, <1>11, Types, OwnerStep

LEMMA LinkMessengerInv ==
    ASSUME IInv, LinkMessenger
    PROVE  IInv'
<1>1. /\ UNCHANGED <<invite, tied, req, todo, requests, faults, now>>
      /\ visit' = account.id /\ came' = "in" /\ made' = IF account.id = 0 THEN made + 1 ELSE made
  BY DEF LinkMessenger
<1>2. PICK a : a = [NoAccount EXCEPT !.id = made + 1, !.created = now, !.linked = TRUE]
  OBVIOUS
<1>3. PICK b : b = [account EXCEPT !.linked = TRUE]
  OBVIOUS
<1>4. account' = IF account.id = 0 THEN a ELSE b
  BY <1>2, <1>3 DEF LinkMessenger
<1>5. made + 1 \in Nat /\ made + 1 # 0 /\ now \in Nat
  BY Types
<1>6. a \in Account
  BY <1>2, <1>5, BlankFacts DEF Account, Ids
<1>7. a.id # 0
  BY <1>2, <1>5 DEF NoAccount
<1>8. b \in Account
  BY <1>3, Types DEF Account
<1>9. b.id = account.id /\ b.roles = account.roles
  BY <1>3, Types DEF Account
<1>10. account.id = 0 => account.roles = {}
  BY DEF IInv, AccountOK
<1>11. /\ account' \in Account /\ account'.id # 0 /\ (account'.id = account.id \/ account.id = 0)
       /\ account.roles \subseteq account'.roles
  BY <1>4, <1>6, <1>7, <1>8, <1>9, <1>10
<1>12. visit' \in Nat /\ made' \in Nat
  BY <1>1, <1>5, Types
<1> QED BY <1>1, <1>11, <1>12, Types, OwnerStep

\* The rows that are marked.
LEMMA MarkedFacts ==
    ASSUME IInv, NEW k \in Kinds, NEW c \in Companies, NEW r, r = MarkedUsed(invite[k][c])
    PROVE  /\ r \in Row /\ r.there = invite[k][c].there /\ r.revoked = invite[k][c].revoked
           /\ r.created = invite[k][c].created /\ r.used = r.there
<1>1. PICK row \in Row : row = invite[k][c] /\ row.there \in BOOLEAN
  BY RowTypes
<1>2. r = [row EXCEPT !.used = row.there]
  BY <1>1 DEF MarkedUsed
<1>3. r \in Row
  BY <1>1, <1>2 DEF Row
<1>4. r.there = row.there /\ r.revoked = row.revoked /\ r.created = row.created /\ r.used = row.there
  BY <1>2 DEF Row
<1> QED BY <1>1, <1>3, <1>4

LEMMA MarkInvitesUsedInv ==
    ASSUME IInv, MarkInvitesUsed
    PROVE  IInv'
<1>1. UNCHANGED <<account, tied, req, todo, requests, made, now>> /\ visit # 0 /\ visit' = 0
  BY DEF MarkInvitesUsed
<1>2. faults' \in Nat
  BY Types DEF MarkInvitesUsed
<1>3. CASE /\ invite' = [k \in Kinds |-> [c \in Companies |-> MarkedUsed(invite[k][c])]]
           /\ came' = IF account.id = visit THEN "in" ELSE came
  <2>1. \A k \in Kinds, c \in Companies : invite'[k][c] = MarkedUsed(invite[k][c])
    BY <1>3
  <2>2. \A k \in Kinds, c \in Companies : MarkedUsed(invite[k][c]) \in Row
    BY MarkedFacts
  <2>3. invite' \in [Kinds -> [Companies -> Row]]
    BY <1>3, <2>2
  <2>4. \A k \in Kinds, c \in Companies : /\ invite'[k][c].there = invite[k][c].there
                                          /\ invite'[k][c].revoked = invite[k][c].revoked
    BY <2>1, MarkedFacts
  <2>5. TypeOK'
    BY <1>1, <1>2, <1>3, <2>3, Types DEF TypeOK, Ids
  <2>6. AccountOK'
    BY <1>1, <1>3, <2>4 DEF IInv, AccountOK
  <2>7. RevokeOK' /\ InForce'
    BY <1>1, <2>4 DEF IInv, RevokeOK, InForce
  <2> QED BY <1>1, <2>5, <2>6, <2>7, SameRequests DEF IInv, RequestOK
<1>4. CASE UNCHANGED <<invite, came>>
  BY <1>1, <1>2, <1>4, SameRequests, Types, Assemble
<1> QED BY <1>3, <1>4 DEF MarkInvitesUsed

LEMMA RowOfFacts ==
    ASSUME NEW t, t.company \in Companies
    PROVE  RowOf(t) \in Companies
<1>1. CASE t.kind # "company"
  BY <1>1 DEF RowOf
<1>2. CASE t.kind = "company"
  <2>1. \E c \in Companies : \/ invite["company"][c].there
                             \/ c = t.company /\ \A d \in Companies : ~invite["company"][d].there
    OBVIOUS
  <2> QED BY <1>2, <2>1 DEF RowOf
<1> QED BY <1>1, <1>2

\* What the sweep does to one invite.
ExpireCase(t, k, c) ==
    \/ /\ account.id = t.id /\ invite[k][c].there /\ ~invite[k][c].used /\ ~invite[k][c].revoked /\ NobodyCame(k, c)
       /\ account' = NoAccount /\ invite' = NoRows /\ tied' = NoTies /\ came' = "no"
    \/ /\ account.id = t.id /\ invite[k][c].there /\ ~invite[k][c].used /\ ~invite[k][c].revoked
       /\ invite' = [invite EXCEPT ![k][c].revoked = TRUE] /\ tied' = [tied EXCEPT ![k] = @ \ {c}]
       /\ UNCHANGED <<account, came>>
    \/ UNCHANGED <<account, invite, tied, came>>

LEMMA ExpireFacts ==
    ASSUME IInv, ExpireOne
    PROVE  /\ UNCHANGED <<req, visit, requests, faults, made, now>>
           /\ todo' \subseteq [kind : Kinds, company : Companies, id : Nat]
           /\ \E t \in todo, k \in Kinds, c \in Companies : ExpireCase(t, k, c)
<1>1. PICK t \in todo :
        LET c == RowOf(t)
            k == t.kind
            row == invite[k][c]
        IN
        /\ todo' = todo \ {t}
        /\ IF account.id = t.id /\ row.there /\ ~row.used /\ ~row.revoked
           THEN IF NobodyCame(k, c)
                THEN account' = NoAccount /\ invite' = NoRows /\ tied' = NoTies /\ came' = "no"
                ELSE /\ invite' = [invite EXCEPT ![k][c].revoked = TRUE]
                     /\ tied' = [tied EXCEPT ![k] = @ \ {c}]
                     /\ UNCHANGED <<account, came>>
           ELSE UNCHANGED <<db, came>>
        /\ UNCHANGED <<req, visit, counters, now>>
  BY DEF ExpireOne
<1>2. t.kind \in Kinds /\ t.company \in Companies
  BY Types
<1>3. PICK c \in Companies : c = RowOf(t)
  BY <1>2, RowOfFacts
<1>4. PICK k \in Kinds : k = t.kind
  BY <1>2
<1>5. ExpireCase(t, k, c)
  BY <1>1, <1>3, <1>4 DEF ExpireCase, db
<1> QED BY <1>1, <1>5, Types DEF counters

LEMMA ExpireOneInv ==
    ASSUME IInv, ExpireOne
    PROVE  IInv'
<1>1. /\ UNCHANGED <<req, visit, requests, faults, made, now>>
      /\ todo' \subseteq [kind : Kinds, company : Companies, id : Nat]
  BY ExpireFacts
<1>2. PICK t \in todo, k \in Kinds, c \in Companies : ExpireCase(t, k, c)
  BY ExpireFacts
<1>3. CASE account' = NoAccount /\ invite' = NoRows /\ tied' = NoTies /\ came' = "no"
  <2>1. TypeOK'
    BY <1>1, <1>3, Types, BlankFacts DEF TypeOK, Ids
  <2>2. AccountOK'
    BY <1>3, BlankFacts DEF AccountOK
  <2>3. RevokeOK' /\ InForce'
    BY <1>3, BlankFacts DEF RevokeOK, InForce
  <2> QED BY <1>1, <2>1, <2>2, <2>3, SameRequests DEF IInv, RequestOK
<1>4. CASE /\ invite' = [invite EXCEPT ![k][c].revoked = TRUE] /\ tied' = [tied EXCEPT ![k] = @ \ {c}]
           /\ UNCHANGED <<account, came>>
  <2>1. PICK row : row = [invite[k][c] EXCEPT !.revoked = TRUE]
    OBVIOUS
  <2>2. row \in Row /\ row.there = invite[k][c].there /\ row.revoked = TRUE
    BY <2>1, RowTypes DEF Row
  <2>3. invite' = [invite EXCEPT ![k] = [invite[k] EXCEPT ![c] = row]]
    BY <1>4, <2>1
  <2>4. /\ invite' \in [Kinds -> [Companies -> Row]]
        /\ \A l \in Kinds, d \in Companies : invite'[l][d] = IF l = k /\ d = c THEN row ELSE invite[l][d]
    BY <2>2, <2>3, Types
  <2>5. \A l \in Kinds, d \in Companies : invite'[l][d].there = invite[l][d].there
    BY <2>2, <2>4
  <2>6. /\ tied' \in [Kinds -> SUBSET Companies]
        /\ \A l \in Kinds : tied'[l] = IF l = k THEN tied[k] \ {c} ELSE tied[l]
    BY <1>4, Types
  <2>7. TypeOK'
    <3>1. \A l \in Kinds : l = "company" => \A d, e \in tied'[l] : d = e
      BY <2>6, Types
    <3> QED BY <1>1, <1>4, <2>4, <2>6, <3>1, Types DEF TypeOK, Ids
  <2>8. AccountOK' /\ RevokeOK'
    BY <1>1, <1>4, <2>5 DEF IInv, AccountOK, RevokeOK
  <2>9. InForce'
    BY <1>1, <2>2, <2>4, <2>6 DEF IInv, InForce
  <2> QED BY <1>1, <2>7, <2>8, <2>9, SameRequests DEF IInv, RequestOK
<1>5. CASE UNCHANGED <<account, invite, tied, came>>
  BY <1>1, <1>5, SameRequests, Types, Assemble
<1> QED BY <1>2, <1>3, <1>4, <1>5 DEF ExpireCase

\* The rows of an invite's kind after it.
LEMMA InvitedFacts ==
    ASSUME IInv, NEW c \in Companies, req[c].pc = "commit", NEW k \in Kinds, k = req[c].kind,
           NEW rows, rows = Invited(c)
    PROVE  /\ rows \in [Companies -> Row]
           /\ \A d \in Companies : d # c => rows[d] = invite[k][d] \/ rows[d] = NoRow
           /\ k = "company" /\ req[c].old # "waiting" => \A d \in Companies : d # c => rows[d] = NoRow
           /\ req[c].old = "waiting" /\ ~req[c].direct => rows[c] = invite[k][c]
           /\ req[c].old # "waiting" /\ ~req[c].direct => rows[c] = renewedInvite
           /\ req[c].direct => rows[c].used
<1>1. PICK row : row = IF req[c].old = "waiting" THEN invite[k][c] ELSE renewedInvite
  OBVIOUS
<1>2. row \in Row
  BY <1>1, RowTypes, RenewedFacts, Types
<1>3. PICK done : done = [row EXCEPT !.used = TRUE, !.revoked = FALSE]
  OBVIOUS
<1>4. done \in Row /\ done.used
  BY <1>2, <1>3 DEF Row
<1>5. rows = [d \in Companies |->
                 CASE d = c /\ req[c].direct -> done
                   [] d = c /\ ~req[c].direct -> row
                   [] d # c /\ k = "company" /\ req[c].old # "waiting" -> NoRow
                   [] OTHER -> invite[k][d]]
  BY <1>1, <1>3 DEF Invited
<1>6. req[c].direct \in BOOLEAN
  BY RequestTypes
<1>7. /\ req[c].direct => rows[c] = done
      /\ ~req[c].direct => rows[c] = row
      /\ \A d \in Companies : d # c /\ k = "company" /\ req[c].old # "waiting" => rows[d] = NoRow
      /\ \A d \in Companies : d # c /\ ~(k = "company" /\ req[c].old # "waiting") => rows[d] = invite[k][d]
  BY <1>5, <1>6
<1>8. \A d \in Companies : rows[d] \in Row
  <2> TAKE d \in Companies
  <2>1. CASE d = c
    BY <1>2, <1>4, <1>6, <1>7, <2>1
  <2>2. CASE d # c
    BY <1>7, <2>2, RowTypes, BlankFacts
  <2> QED BY <2>1, <2>2
<1>9. rows \in [Companies -> Row]
  BY <1>5, <1>8
<1> QED BY <1>1, <1>4, <1>7, <1>9

LEMMA JoinedFacts ==
    ASSUME IInv, NEW c \in Companies, req[c].pc = "commit", NEW k \in Kinds, k = req[c].kind, NEW S, S = Joined(c)
    PROVE  /\ S \subseteq Companies
           /\ k = "factory" => S = tied[k] \cup {c}
           /\ k = "company" => S = IF req[c].old # "waiting" THEN {c} ELSE tied[k]
<1>1. tied[k] \subseteq Companies /\ req[c].ties \subseteq Companies
  BY Types, RequestTypes
<1>2. k = "factory" => S = tied[k] \cup {c}
  BY DEF Joined
<1>3. k = "company" => S = IF req[c].old # "waiting" THEN {c} ELSE tied[k]
  BY DEF Joined
<1>4. S \in {req[c].ties \cup {c}, tied[k] \cup {c}, {c}, tied[k]}
  BY DEF Joined
<1> QED BY <1>1, <1>2, <1>3, <1>4

\* The account of the number after an invite.
LEMMA InviteeFacts ==
    ASSUME IInv, NEW c \in Companies, NEW k \in Kinds, NEW a,
           a = IF account.id = 0
               THEN [NoAccount EXCEPT !.id = made + 1, !.created = now, !.roles = {k}, !.byInvite = TRUE]
               ELSE [account EXCEPT !.roles = @ \cup {k}]
    PROVE  /\ a \in Account /\ a.id # 0 /\ a.roles = account.roles \cup {k} /\ a.linked = account.linked
           /\ account.id # 0 => a.id = account.id
<1>1. made + 1 \in Nat /\ made + 1 # 0 /\ now \in Nat
  BY Types
<1>2. CASE account.id = 0
  <2>1. a = [NoAccount EXCEPT !.id = made + 1, !.created = now, !.roles = {k}, !.byInvite = TRUE]
    BY <1>2
  <2>2. a \in Account
    <3>1. PICK n \in Nat : n = made + 1
      BY <1>1
    <3>2. PICK R \in SUBSET Kinds : R = {k}
      OBVIOUS
    <3>3. a = [NoAccount EXCEPT !.id = n, !.created = now, !.roles = R, !.byInvite = TRUE]
      BY <2>1, <3>1, <3>2
    <3>4. NoAccount \in Account /\ now \in Nat /\ R \subseteq Kinds
      BY <1>1, <3>2, BlankFacts
    <3> QED BY <3>1, <3>3, <3>4 DEF Account, Ids
  <2>3. a.id = made + 1 /\ a.roles = {k} /\ a.linked = FALSE
    BY <2>1 DEF NoAccount
  <2>4. account.roles = {} /\ ~account.linked /\ account.linked \in BOOLEAN
    BY <1>2, Types DEF IInv, AccountOK, Account
  <2> QED BY <1>1, <1>2, <2>2, <2>3, <2>4
<1>3. CASE account.id # 0
  <2>1. PICK R : R = account.roles \cup {k}
    OBVIOUS
  <2>2. a = [account EXCEPT !.roles = R] /\ R \subseteq Kinds
    BY <1>3, <2>1, Types
  <2>3. a \in Account
    BY <2>2, Types DEF Account
  <2>4. a.id = account.id /\ a.roles = R /\ a.linked = account.linked
    BY <2>2, Types DEF Account
  <2> QED BY <1>3, <2>1, <2>3, <2>4
<1> QED BY <1>2, <1>3

\* A commit that succeeds.
Committed(c, k, rows, S) ==
    /\ ~InviteFails(c) /\ req[c].pc = "commit" /\ k = req[c].kind /\ rows = Invited(c) /\ S = Joined(c)
    /\ account' = IF account.id = 0
                  THEN [NoAccount EXCEPT !.id = made + 1, !.created = now, !.roles = {k}, !.byInvite = TRUE]
                  ELSE [account EXCEPT !.roles = @ \cup {k}]
    /\ made' = IF account.id = 0 THEN made + 1 ELSE made
    /\ invite' = [invite EXCEPT ![k] = rows] /\ tied' = [tied EXCEPT ![k] = S]
    /\ req' = [req EXCEPT ![c] = Idle] \/ (k = "broker" /\ req' = [req EXCEPT ![c].pc = "pick", ![c].id = account'.id])

LEMMA CommitFacts ==
    ASSUME IInv, NEW c \in Companies, InviteCommits(c)
    PROVE  /\ UNCHANGED <<came, visit, todo, requests, faults, now>> /\ req[c].pc = "commit"
           /\ \/ UNCHANGED <<account, invite, tied, made>> /\ req' = [req EXCEPT ![c] = Idle]
              \/ \E k \in Kinds : \E rows, S : Committed(c, k, rows, S)
<1>1. UNCHANGED <<came, visit, todo, requests, faults, now>> /\ req[c].pc = "commit"
  BY DEF InviteCommits
<1>2. PICK k \in Kinds : k = req[c].kind
  BY <1>1, RequestTypes DEF RequestOK
<1>3. CASE InviteFails(c)
  BY <1>1, <1>3 DEF InviteCommits, db
<1>4. CASE ~InviteFails(c)
  <2>1. PICK rows : rows = Invited(c)
    OBVIOUS
  <2>2. PICK S : S = Joined(c)
    OBVIOUS
  <2>3. Committed(c, k, rows, S)
    BY <1>1, <1>2, <1>4, <2>1, <2>2 DEF InviteCommits, Committed
  <2> QED BY <1>1, <2>3
<1> QED BY <1>3, <1>4

LEMMA CommittedReq ==
    ASSUME IInv, NEW c \in Companies, NEW k \in Kinds, NEW rows, NEW S, Committed(c, k, rows, S)
    PROVE  /\ req' \in [Companies -> Request] /\ (\A d \in Companies : RequestOK(req'[d]))
           /\ req'[c].pc \in {"idle", "pick"} /\ \A d \in Companies : d # c => req'[d] = req[d]
<1>1. CASE req' = [req EXCEPT ![c] = Idle]
  BY <1>1, ToIdle
<1>2. CASE k = "broker" /\ req' = [req EXCEPT ![c].pc = "pick", ![c].id = account'.id]
  <2>1. PICK id \in Nat : id = account'.id
    <3>1. account' \in Account
      BY InviteeFacts DEF Committed
    <3> QED BY <3>1 DEF Account, Ids
  <2>2. PICK r : r = [req[c] EXCEPT !.pc = "pick", !.id = id]
    OBVIOUS
  <2>3. r \in Request
    <3>1. req[c] \in Request
      BY RequestTypes
    <3> QED BY <2>1, <2>2, <3>1 DEF Request, Ids
  <2>4. r.pc = "pick" /\ r.kind = req[c].kind /\ r.direct = req[c].direct
    BY <2>2, RequestTypes DEF Request
  <2>5. RequestOK(r)
    BY <1>2, <2>4, RequestTypes DEF RequestOK, Committed
  <2>6. req' = [req EXCEPT ![c] = r]
    BY <1>2, <2>1, <2>2
  <2> QED BY <2>3, <2>4, <2>5, <2>6, Moved
<1> QED BY <1>1, <1>2 DEF Committed

LEMMA CommittedInv ==
    ASSUME IInv, NEW c \in Companies, NEW k \in Kinds, NEW rows, NEW S, Committed(c, k, rows, S),
           UNCHANGED <<came, visit, todo, requests, faults, now>>
    PROVE  IInv'
<1>1. req[c].pc = "commit" /\ k = req[c].kind /\ rows = Invited(c) /\ S = Joined(c)
  BY DEF Committed
<1>2. /\ rows \in [Companies -> Row]
      /\ \A d \in Companies : d # c => rows[d] = invite[k][d] \/ rows[d] = NoRow
      /\ k = "company" /\ req[c].old # "waiting" => \A d \in Companies : d # c => rows[d] = NoRow
      /\ req[c].old = "waiting" /\ ~req[c].direct => rows[c] = invite[k][c]
  BY <1>1, InvitedFacts
<1>3. /\ S \subseteq Companies
      /\ k = "factory" => S = tied[k] \cup {c}
      /\ k = "company" => S = IF req[c].old # "waiting" THEN {c} ELSE tied[k]
  BY <1>1, JoinedFacts
<1>4. /\ account' \in Account /\ account'.id # 0 /\ account'.roles = account.roles \cup {k}
      /\ account.id # 0 => account'.id = account.id
  BY InviteeFacts DEF Committed
<1>5. /\ req' \in [Companies -> Request] /\ (\A d \in Companies : RequestOK(req'[d]))
      /\ req'[c].pc \in {"idle", "pick"} /\ \A d \in Companies : d # c => req'[d] = req[d]
  BY CommittedReq
<1>6. /\ invite' \in [Kinds -> [Companies -> Row]]
      /\ \A l \in Kinds : invite'[l] = IF l = k THEN rows ELSE invite[l]
  BY <1>2, Types DEF Committed
<1>7. /\ tied' \in [Kinds -> SUBSET Companies]
      /\ \A l \in Kinds : tied'[l] = IF l = k THEN S ELSE tied[l]
  BY <1>3, Types DEF Committed
<1>8. made' \in Nat
  BY Types DEF Committed
<1>9. TypeOK'
  <2>1. \A l \in Kinds : l = "company" => \A d, e \in tied'[l] : d = e
    BY <1>3, <1>7, Types
  <2> QED BY <1>4, <1>5, <1>6, <1>7, <1>8, <2>1, Types DEF TypeOK, Ids
<1>10. AccountOK'
  <2>1. \A l \in Kinds, d \in Companies : invite[l][d].there => l \in account.roles
    BY DEF IInv, AccountOK
  <2>2. \A l \in Kinds, d \in Companies : invite'[l][d].there => l \in account'.roles
    BY <1>4, <1>6, <2>1
  <2> QED BY <1>4, <2>2 DEF AccountOK
<1>11. RevokeOK'
  <2> SUFFICES ASSUME NEW d \in Companies, req'[d].pc = "revoke", req'[d].id # account'.id, NEW l \in Kinds
               PROVE  ~invite'[l][d].there
    BY DEF RevokeOK
  <2>1. d # c /\ req'[d] = req[d]
    BY <1>5
  <2>2. ~invite[l][d].there
    BY <1>4, <2>1 DEF IInv, AccountOK, RevokeOK
  <2> QED BY <1>2, <1>6, <2>1, <2>2, BlankFacts
<1>12. InForce'
  <2> SUFFICES ASSUME NEW l \in Kinds \cap {"factory", "company"}, NEW d \in Companies,
                      invite'[l][d].there, ~invite'[l][d].revoked
               PROVE  d \in tied'[l] \/ (l = "factory" /\ req'[d].pc = "revoke")
    BY DEF InForce
  <2>1. invite[l][d].there /\ ~invite[l][d].revoked => d \in tied[l] \/ (l = "factory" /\ req[d].pc = "revoke")
    BY DEF IInv, InForce
  <2>2. CASE l # k
    <3>1. d \in tied[l] \/ (l = "factory" /\ req[d].pc = "revoke")
      BY <1>6, <2>1, <2>2
    <3> QED BY <1>1, <1>5, <1>7, <2>2, <3>1
  <2>3. CASE l = k /\ l = "factory"
    <3>1. CASE d = c
      BY <1>3, <1>7, <2>3, <3>1
    <3>2. CASE d # c
      BY <1>2, <1>3, <1>5, <1>6, <1>7, <2>1, <2>3, <3>2, BlankFacts
    <3> QED BY <3>1, <3>2
  <2>4. CASE l = k /\ l = "company" /\ req[c].old # "waiting"
    BY <1>2, <1>3, <1>6, <1>7, <2>4, BlankFacts
  <2>5. CASE l = k /\ l = "company" /\ req[c].old = "waiting"
    <3>1. ~req[c].direct
      BY <1>1, <2>5, RequestTypes DEF RequestOK
    <3> QED BY <1>2, <1>3, <1>6, <1>7, <2>1, <2>5, <3>1, BlankFacts
  <2> QED BY <2>2, <2>3, <2>4, <2>5
<1> QED BY <1>5, <1>9, <1>10, <1>11, <1>12 DEF IInv, RequestOK

LEMMA InviteCommitsInv ==
    ASSUME IInv, NEW c \in Companies, InviteCommits(c)
    PROVE  IInv'
<1>1. UNCHANGED <<came, visit, todo, requests, faults, now>> /\ req[c].pc = "commit"
  BY CommitFacts
<1>2. CASE UNCHANGED <<account, invite, tied, made>> /\ req' = [req EXCEPT ![c] = Idle]
  <2>1. /\ req' \in [Companies -> Request] /\ \A d \in Companies : RequestOK(req'[d])
        /\ req'[c].pc = "idle" /\ \A d \in Companies : d # c => req'[d] = req[d]
    BY <1>2, ToIdle
  <2>2. \A d \in Companies : /\ req'[d].pc = "revoke" => req[d].pc = "revoke" /\ req'[d].id = req[d].id
                             /\ req[d].pc = "revoke" => req'[d].pc = "revoke"
    BY <1>1, <2>1
  <2> QED BY <1>1, <1>2, <2>1, <2>2, Types, Assemble
<1>3. ASSUME NEW k \in Kinds, NEW rows, NEW S, Committed(c, k, rows, S) PROVE IInv'
  BY <1>1, <1>3, CommittedInv
<1> QED BY <1>2, <1>3, CommitFacts

LEMMA InitInv == Init => IInv
<1> SUFFICES ASSUME Init PROVE IInv
  OBVIOUS
<1>1. \A c \in Companies : req[c] = Idle
  BY DEF Init
<1>2. req \in [Companies -> Request] /\ \A c \in Companies : RequestOK(req[c])
  BY <1>1, IdleFacts DEF Init
<1>3. account = NoAccount /\ invite = NoRows /\ tied = NoTies /\ came = "no"
  BY DEF Init
<1>4. AccountOK
  BY <1>3, BlankFacts DEF AccountOK
<1>5. InForce /\ RevokeOK
  BY <1>3, BlankFacts DEF InForce, RevokeOK
<1>6. visit = 0 /\ todo = {} /\ requests = 0 /\ faults = 0 /\ made = 0 /\ now = 0
  BY DEF Init
<1>7. TypeOK
  BY <1>2, <1>3, <1>6, BlankFacts DEF TypeOK, Ids
<1> QED BY <1>2, <1>4, <1>5, <1>7 DEF IInv

LEMMA NextInv == IInv /\ [Next]_vars => IInv'
<1> SUFFICES ASSUME IInv, [Next]_vars PROVE IInv'
  OBVIOUS
<1>1. ASSUME NEW c \in Companies, Ask(c) PROVE IInv'
  BY <1>1, RemoveStartsInv, InviteReadsInv DEF Ask
<1>2. ASSUME NEW c \in Companies, RequestStep(c) PROVE IInv'
  BY <1>2, InviteCommitsInv, PickReadsInv, PickWritesInv, RemoveUntiesInv, RemoveSavesInv, RemoveRevokesInv
  DEF RequestStep
<1>3. ASSUME Owner PROVE IInv'
  BY <1>3, SignUpInv, OwnerPicksInv DEF Owner
<1> QED BY <1>1, <1>2, <1>3, FindStaleInv, ExpireOneInv, SweepFailsInv, SignInInv, LinkMessengerInv, MarkInvitesUsedInv,
        TickInv, SameInv DEF Next

LEMMA Inductive == Spec => []IInv
BY InitInv, NextInv, PTL DEF Spec

\* Rows, requests and the sweep's list keep their shape, and an account has one parent
\* company at most, however requests, sweeps and visits interleave.
THEOREM TypeCorrect == Spec => []TypeOK
<1>1. IInv => TypeOK
  BY DEF IInv
<1> QED BY <1>1, Inductive, PTL

\* A factory's or a company's invite in force has its tie, also when two companies, the sweep
\* and the owner act at once.
THEOREM Tied == Spec => []InForceTied
<1>1. IInv => InForceTied
  BY DEF IInv, InForce, InForceTied
<1> QED BY <1>1, Inductive, PTL

-----------------------------------------------------------------------------
(* The people act one at a time, the sweep beside them. *)

LEMMA Acting ==
    ASSUME OneActs, NEW c \in Companies, req[c].pc # "idle" \/ (Serial /\ Turn(c)),
           \A d \in Companies : d # c => req'[d] = req[d], visit' = visit
    PROVE  OneActs' /\ \A d \in Companies : d # c => req'[d].pc = "idle"
BY DEF OneActs, Turn

\* Fewer invites wait when time passes and rows are marked or revoked.
Less(r, s) == r.there /\ ~r.used /\ ~r.revoked => s.there /\ ~s.used /\ ~s.revoked /\ r.created = s.created

LEMMA StillWaiting ==
    ASSUME now \in Nat, now' \in {now, now + 1}, NEW r, NEW s, s.created \in Nat, Less(r, s), isInviteWaiting(r)'
    PROVE  isInviteWaiting(s)
<1>1. r.there /\ ~r.used /\ ~r.revoked /\ ~(now' - r.created > Expiry)
  BY DEF isInviteWaiting, isInviteExpired
<1>2. s.there /\ ~s.used /\ ~s.revoked /\ r.created = s.created
  BY <1>1 DEF Less
<1>3. Expiry \in Nat
  BY InviteAssumption DEF InviteAssumption
<1>4. ~(now - s.created > Expiry)
  BY <1>1, <1>2, <1>3
<1> QED BY <1>2, <1>4 DEF isInviteWaiting, isInviteExpired

LEMMA Shrinks ==
    ASSUME IInv, now' \in {now, now + 1}, \A k \in Kinds, c \in Companies : Less(invite'[k][c], invite[k][c])
    PROVE  \A k \in Kinds, c \in Companies : isInviteWaiting(invite[k][c])' => isInviteWaiting(invite[k][c])
<1> TAKE k \in Kinds, c \in Companies
<1> HAVE isInviteWaiting(invite[k][c])'
<1>1. PICK r : r = invite'[k][c]
  OBVIOUS
<1>2. PICK s : s = invite[k][c]
  OBVIOUS
<1>3. isInviteWaiting(r)'
  BY <1>1 DEF isInviteWaiting, isInviteExpired
<1>4. now \in Nat /\ s.created \in Nat /\ Less(r, s)
  BY <1>1, <1>2, Types, RowTypes
<1>5. isInviteWaiting(s)
  BY <1>3, <1>4, StillWaiting
<1> QED BY <1>2, <1>5

\* A step after which no invite is about to be committed and no more invites wait.
LEMMA CalmStep ==
    ASSUME SInv, IInv', now' \in {now, now + 1}, OneActs', \A c \in Companies : req'[c].pc # "commit",
           \A k \in Kinds, c \in Companies : Less(invite'[k][c], invite[k][c]),
           \A k, l \in account'.roles : k = l, CameOK'
    PROVE  SInv'
<1>1. \A c \in Companies : CommitOK(c)'
  BY DEF CommitOK
<1>2. \A k \in Kinds, c \in Companies : isInviteWaiting(invite[k][c])' => isInviteWaiting(invite[k][c])
  BY Shrinks DEF SInv
<1>3. OneWaiting'
  BY <1>2 DEF SInv, OneWaiting
<1> QED BY <1>1, <1>3 DEF SInv

\* The rest of a request of company c, after its commit.
LEMMA RequestSerial ==
    ASSUME SInv, IInv', NEW c \in Companies, req[c].pc # "idle" \/ (Serial /\ Turn(c)), req'[c].pc # "commit",
           \A d \in Companies : d # c => req'[d] = req[d], UNCHANGED <<account, came, visit, now>>,
           \A k \in Kinds, d \in Companies : /\ Less(invite'[k][d], invite[k][d])
                                             /\ invite'[k][d].there => invite[k][d].there
                                             /\ invite'[k][d].used = invite[k][d].used
    PROVE  SInv'
<1>1. OneActs' /\ \A d \in Companies : d # c => req'[d].pc = "idle"
  BY Acting DEF SInv
<1>2. \A d \in Companies : req'[d].pc # "commit"
  BY <1>1
<1>3. CameOK'
  BY DEF SInv, CameOK
<1>4. \A k, l \in account'.roles : k = l
  BY DEF SInv
<1> QED BY <1>1, <1>2, <1>3, <1>4, CalmStep

LEMMA SameRows ==
    ASSUME invite' = invite
    PROVE  \A k \in Kinds, d \in Companies : /\ Less(invite'[k][d], invite[k][d])
                                             /\ invite'[k][d].there => invite[k][d].there
                                             /\ invite'[k][d].used = invite[k][d].used
BY DEF Less

\* A row that is revoked.
LEMMA RevokedRow ==
    ASSUME IInv, NEW k \in Kinds, NEW c \in Companies, invite' = [invite EXCEPT ![k][c].revoked = TRUE]
    PROVE  \A l \in Kinds, d \in Companies : /\ Less(invite'[l][d], invite[l][d])
                                             /\ invite'[l][d].there => invite[l][d].there
                                             /\ invite'[l][d].used = invite[l][d].used
<1> SUFFICES ASSUME NEW row, row = [invite[k][c] EXCEPT !.revoked = TRUE],
                    invite' = [invite EXCEPT ![k] = [invite[k] EXCEPT ![c] = row]]
             PROVE  \A l \in Kinds, d \in Companies : /\ Less(invite'[l][d], invite[l][d])
                                                      /\ invite'[l][d].there => invite[l][d].there
                                                      /\ invite'[l][d].used = invite[l][d].used
  OBVIOUS
<1>1. row \in Row /\ row.there = invite[k][c].there /\ row.used = invite[k][c].used /\ row.revoked = TRUE
  BY RowTypes DEF Row
<1>2. \A l \in Kinds, d \in Companies : invite'[l][d] = IF l = k /\ d = c THEN row ELSE invite[l][d]
  <2>1. PICK rows : rows = [invite[k] EXCEPT ![c] = row]
    OBVIOUS
  <2>2. rows[c] = row /\ \A d \in Companies : d # c => rows[d] = invite[k][d]
    BY <2>1, Types
  <2>3. invite'[k] = rows /\ \A l \in Kinds : l # k => invite'[l] = invite[l]
    BY <2>1, Types
  <2> QED BY <2>2, <2>3
<1> QED BY <1>1, <1>2 DEF Less

LEMMA PickReadsSerial ==
    ASSUME SInv, NEW c \in Companies, PickReads(c)
    PROVE  SInv'
<1>1. IInv' /\ UNCHANGED <<account, invite, came, visit, now>> /\ req[c].pc = "pick"
  BY PickReadsInv DEF SInv, PickReads, db
<1>2. req'[c].pc # "commit" /\ \A d \in Companies : d # c => req'[d] = req[d]
  <2>1. PICK pick : pick = IF account.id = req[c].id THEN tied["broker"] ELSE {}
    OBVIOUS
  <2>2. PICK r : r = [req[c] EXCEPT !.pc = "select", !.ties = pick]
    OBVIOUS
  <2>3. r.pc = "select"
    BY <2>2, RequestTypes DEF SInv, Request
  <2>4. req' = [req EXCEPT ![c] = Idle] \/ req' = [req EXCEPT ![c] = r]
    BY <2>1, <2>2 DEF PickReads
  <2> QED BY <2>3, <2>4, Types, IdleFacts DEF SInv
<1> QED BY <1>1, <1>2, SameRows, RequestSerial

\* The request of c ends.
LEMMA EndSerial ==
    ASSUME SInv, IInv', NEW c \in Companies, req[c].pc # "idle", req' = [req EXCEPT ![c] = Idle],
           UNCHANGED <<account, invite, came, visit, now>>
    PROVE  SInv'
<1>1. req'[c].pc # "commit" /\ \A d \in Companies : d # c => req'[d] = req[d]
  BY ToIdle DEF SInv
<1> QED BY <1>1, SameRows, RequestSerial

LEMMA PickWritesSerial ==
    ASSUME SInv, NEW c \in Companies, PickWrites(c)
    PROVE  SInv'
BY PickWritesInv, EndSerial DEF SInv, PickWrites

LEMMA RemoveSavesSerial ==
    ASSUME SInv, NEW c \in Companies, RemoveSaves(c)
    PROVE  SInv'
BY RemoveSavesInv, EndSerial DEF SInv, RemoveSaves

LEMMA RemoveUntiesSerial ==
    ASSUME SInv, NEW c \in Companies, RemoveUnties(c)
    PROVE  SInv'
<1>1. IInv' /\ UNCHANGED <<account, invite, came, visit, now>> /\ req[c].pc = "untie"
  BY RemoveUntiesInv DEF SInv, RemoveUnties
<1>2. req'[c].pc # "commit" /\ \A d \in Companies : d # c => req'[d] = req[d]
  <2>1. PICK r : r = [req[c] EXCEPT !.pc = "save", !.ties = tied[req[c].kind]]
    OBVIOUS
  <2>2. r.pc = "save"
    BY <2>1, RequestTypes DEF SInv, Request
  <2>3. req' = [req EXCEPT ![c] = Idle] \/ req' = [req EXCEPT ![c] = r]
    BY <2>1 DEF RemoveUnties
  <2> QED BY <2>2, <2>3, Types, IdleFacts DEF SInv
<1> QED BY <1>1, <1>2, SameRows, RequestSerial

LEMMA RemoveRevokesSerial ==
    ASSUME SInv, NEW c \in Companies, RemoveRevokes(c)
    PROVE  SInv'
<1>1. IInv /\ IInv' /\ UNCHANGED <<account, came, visit, now>> /\ req[c].pc = "revoke"
  BY RemoveRevokesInv DEF SInv, RemoveRevokes
<1>2. req'[c].pc # "commit" /\ \A d \in Companies : d # c => req'[d] = req[d]
  BY <1>1, ToIdle DEF RemoveRevokes
<1>3. "factory" \in Kinds
  BY <1>1, RequestTypes DEF RequestOK
<1>4. CASE invite' = invite
  BY <1>1, <1>2, <1>4, SameRows, RequestSerial
<1>5. CASE invite' = [invite EXCEPT !["factory"][c].revoked = TRUE]
  BY <1>1, <1>2, <1>3, <1>5, RevokedRow, RequestSerial
<1> QED BY <1>4, <1>5 DEF RemoveRevokes

LEMMA RemoveStartsSerial ==
    ASSUME Serial, SInv, NEW c \in Companies, NEW k \in Kinds, RemoveStarts(c, k)
    PROVE  SInv'
<1>1. IInv /\ IInv' /\ UNCHANGED <<account, came, visit, now>> /\ Turn(c)
  BY RemoveStartsInv DEF SInv, RemoveStarts
<1>2. PICK pc \in {"untie", "revoke"} :
         req' = [req EXCEPT ![c] = [Idle EXCEPT !.pc = pc, !.kind = k, !.id = account.id]]
  BY DEF RemoveStarts
<1>3. req'[c].pc # "commit" /\ \A d \in Companies : d # c => req'[d] = req[d]
  <2>1. PICK r : r = [Idle EXCEPT !.pc = pc, !.kind = k, !.id = account.id]
    OBVIOUS
  <2>2. r.pc = pc
    BY <2>1 DEF Idle
  <2>3. req' = [req EXCEPT ![c] = r]
    BY <1>2, <2>1
  <2> QED BY <1>1, <1>2, <2>2, <2>3, Types
<1>4. CASE invite' = invite
  BY <1>1, <1>3, <1>4, SameRows, RequestSerial
<1>5. CASE invite' = [invite EXCEPT ![k][c].revoked = TRUE]
  BY <1>1, <1>3, <1>5, RevokedRow, RequestSerial
<1> QED BY <1>4, <1>5 DEF RemoveStarts

\* What an invite's transaction reads is in order.
LEMMA InviteReadsSerial ==
    ASSUME Serial, SInv, NEW c \in Companies, NEW k \in Kinds, NEW register \in BOOLEAN, InviteReads(c, k, register)
    PROVE  SInv'
<1>1. IInv /\ IInv' /\ UNCHANGED <<account, invite, came, visit, now>> /\ Turn(c)
  BY InviteReadsInv DEF SInv, InviteReads, db
<1>2. account.roles # {} => k \in account.roles /\ assertInvitable(k, c)
  BY DEF InviteReads
<1>3. PICK r : r = [pc |-> "commit", kind |-> k, id |-> account.id, old |-> OldRow(k, c),
                    ties |-> tied[k], direct |-> register, fresh |-> account.roles = {}]
  OBVIOUS
<1>4. r.pc = "commit" /\ r.kind = k /\ r.id = account.id /\ r.old = OldRow(k, c) /\ r.fresh = (account.roles = {})
  BY <1>3
<1>5. req'[c] = r /\ \A d \in Companies : d # c => req'[d] = req[d]
  <2>1. req' = [req EXCEPT ![c] = r]
    BY <1>3 DEF InviteReads
  <2> QED BY <1>1, <2>1, Types
<1>6. OneActs' /\ \A d \in Companies : d # c => req'[d].pc = "idle"
  BY <1>1, <1>5, Acting DEF SInv
<1>7. CameOK'
  BY <1>1 DEF SInv, CameOK
<1>8. OneWaiting'
  <2>1. \A l \in Kinds, d \in Companies : isInviteWaiting(invite[l][d])' => isInviteWaiting(invite[l][d])
    BY <1>1 DEF isInviteWaiting, isInviteExpired
  <2> QED BY <2>1 DEF SInv, OneWaiting
<1>9. account.roles = IF r.fresh THEN {} ELSE {r.kind}
  BY <1>2, <1>4 DEF SInv
<1>10. r.old # "waiting" => \A d \in Companies : ~isInviteWaiting(invite[k][d])
  <2>1. CASE account.roles = {}
    BY <1>1, <2>1 DEF IInv, AccountOK, isInviteWaiting
  <2>2. CASE account.roles # {}
    <3>1. isInviteWaiting(invite[k][c]) => r.old = "waiting"
      BY <1>4 DEF OldRow
    <3> QED BY <1>2, <2>2, <3>1 DEF assertInvitable, WaitingFor
  <2> QED BY <2>1, <2>2
<1>11. came = "in" => account.linked
  <2>1. CASE account.roles = {}
    BY <2>1 DEF SInv, CameOK
  <2>2. CASE account.roles # {}
    <3>1. PICK d \in Companies : invite[k][d].there /\ ~invite[k][d].used
      BY <1>2, <2>2 DEF assertInvitable, WaitingFor, isInviteWaiting, MadeByInvite
    <3> QED BY <3>1 DEF SInv, CameOK
  <2> QED BY <2>1, <2>2
<1>12. \A d \in Companies : CommitOK(d)'
  <2> TAKE d \in Companies
  <2>1. CASE d # c
    BY <1>6, <2>1 DEF CommitOK
  <2>2. CASE d = c
    <3>1. \A e \in Companies : isInviteWaiting(invite[k][e])' => isInviteWaiting(invite[k][e])
      BY <1>1 DEF isInviteWaiting, isInviteExpired
    <3>2. r.old # "waiting" => \A e \in Companies : ~isInviteWaiting(invite[k][e])'
      BY <1>10, <3>1
    <3> QED BY <1>1, <1>4, <1>5, <1>9, <1>11, <2>2, <3>2 DEF CommitOK
  <2> QED BY <2>1, <2>2
<1> QED BY <1>1, <1>6, <1>7, <1>8, <1>12 DEF SInv

\* An invite that commits is the one that waits.
LEMMA CommittedSerial ==
    ASSUME SInv, IInv', NEW c \in Companies, NEW k \in Kinds, NEW rows, NEW S, Committed(c, k, rows, S),
           UNCHANGED <<came, visit, now>>
    PROVE  SInv'
<1>1. req[c].pc = "commit" /\ k = req[c].kind /\ rows = Invited(c) /\ req[c].id = account.id /\ IInv
  BY DEF Committed, InviteFails, SInv
<1>2. /\ account.roles = {} \/ account.roles = {k}
      /\ req[c].old # "waiting" => \A d \in Companies : ~isInviteWaiting(invite[k][d])
      /\ came = "in" => account.linked
  BY <1>1 DEF SInv, CommitOK
<1>3. account'.roles = account.roles \cup {k} /\ account'.linked = account.linked
  BY <1>1, InviteeFacts DEF Committed
<1>4. /\ req'[c].pc \in {"idle", "pick"} /\ \A d \in Companies : d # c => req'[d] = req[d]
  BY <1>1, CommittedReq
<1>5. OneActs' /\ \A d \in Companies : d # c => req'[d].pc = "idle"
  BY <1>1, <1>4, Acting DEF SInv
<1>6. \A d \in Companies : CommitOK(d)'
  BY <1>4, <1>5 DEF CommitOK
<1>7. CameOK'
  BY <1>2, <1>3 DEF CameOK
<1>8. account'.roles = {k}
  BY <1>2, <1>3
<1>9. /\ rows \in [Companies -> Row]
      /\ \A d \in Companies : d # c => rows[d] = invite[k][d] \/ rows[d] = NoRow
      /\ req[c].old = "waiting" /\ ~req[c].direct => rows[c] = invite[k][c]
      /\ req[c].direct => rows[c].used
  BY <1>1, InvitedFacts
<1>10. invite'[k] = rows
  BY <1>1, Types DEF Committed
<1>11. \A l \in Kinds, d \in Companies : isInviteWaiting(invite[l][d])' => l = k
  BY <1>8 DEF IInv, AccountOK, isInviteWaiting
<1>12. \A d \in Companies : isInviteWaiting(invite[k][d])' => isInviteWaiting(invite[k][d])
                                                             \/ (d = c /\ req[c].old # "waiting")
  <2> TAKE d \in Companies
  <2> HAVE isInviteWaiting(invite[k][d])'
  <2>1. PICK s : s = rows[d]
    OBVIOUS
  <2>2. isInviteWaiting(s) /\ s.there /\ ~s.used
    BY <1>10, <2>1 DEF isInviteWaiting, isInviteExpired
  <2>3. s = invite[k][d] \/ (d = c /\ req[c].old # "waiting")
    BY <1>9, <2>1, <2>2, BlankFacts
  <2> QED BY <2>2, <2>3
<1>13. OneWaiting'
  <2>1. \A d, e \in Companies : isInviteWaiting(invite[k][d])' /\ isInviteWaiting(invite[k][e])' => d = e
    BY <1>2, <1>12 DEF SInv, OneWaiting
  <2> QED BY <1>11, <2>1 DEF OneWaiting
<1> QED BY <1>5, <1>6, <1>7, <1>8, <1>13 DEF SInv

LEMMA InviteCommitsSerial ==
    ASSUME SInv, NEW c \in Companies, InviteCommits(c)
    PROVE  SInv'
<1>1. IInv /\ IInv'
  BY InviteCommitsInv DEF SInv
<1>2. UNCHANGED <<came, visit, now>> /\ req[c].pc = "commit"
  BY <1>1, CommitFacts
<1>3. CASE UNCHANGED <<account, invite, tied, made>> /\ req' = [req EXCEPT ![c] = Idle]
  BY <1>1, <1>2, <1>3, EndSerial
<1>4. ASSUME NEW k \in Kinds, NEW rows, NEW S, Committed(c, k, rows, S) PROVE SInv'
  BY <1>1, <1>2, <1>4, CommittedSerial
<1> QED BY <1>1, <1>3, <1>4, CommitFacts

\* The owner acts: every company waits.
LEMMA OwnerSerial ==
    ASSUME Serial, SInv, IInv', OwnersTurn, UNCHANGED <<invite, req, now>>,
           \A k, l \in account'.roles : k = l, CameOK'
    PROVE  SInv'
<1>1. \A c \in Companies : req[c].pc = "idle"
  BY DEF OwnersTurn
<1>2. OneActs' /\ \A c \in Companies : req'[c].pc # "commit"
  BY <1>1 DEF OneActs
<1> QED BY <1>2, SameRows, CalmStep

LEMMA SignInSerial ==
    ASSUME Serial, SInv, SignIn
    PROVE  SInv'
<1>1. IInv /\ IInv' /\ OwnersTurn /\ UNCHANGED <<account, invite, req, now>> /\ account.roles # {}
      /\ came' = IF came = "in" THEN "in" ELSE "signed"
  BY SignInInv DEF SInv, SignIn, db
<1>2. CameOK'
  BY <1>1 DEF SInv, CameOK
<1>3. \A k, l \in account'.roles : k = l
  BY <1>1 DEF SInv
<1> QED BY <1>1, <1>2, <1>3, OwnerSerial

LEMMA SignUpSerial ==
    ASSUME Serial, SInv, NEW k \in Kinds, SignUp(k)
    PROVE  SInv' /\ (came = "in" => account'.id = account.id)
<1>1. IInv /\ IInv' /\ OwnersTurn /\ UNCHANGED <<invite, req, now>> /\ account.roles = {}
      /\ came' = IF came = "in" THEN "in" ELSE "signed"
  BY SignUpInv DEF SInv, SignUp
<1>2. PICK a : a = [NoAccount EXCEPT !.id = made + 1, !.created = now, !.roles = {k}]
  OBVIOUS
<1>3. PICK b : b = [account EXCEPT !.roles = {k}]
  OBVIOUS
<1>4. account' = IF account.id = 0 THEN a ELSE b
  BY <1>2, <1>3 DEF SignUp
<1>5. a.roles = {k}
  BY <1>2 DEF NoAccount
<1>6. b.roles = {k} /\ b.linked = account.linked /\ b.id = account.id
  BY <1>1, <1>3, Types DEF Account
<1>7. came = "in" => account.linked /\ account.id # 0
  BY <1>1 DEF SInv, CameOK, IInv, AccountOK
<1>8. account'.roles = {k}
  BY <1>4, <1>5, <1>6
<1>9. CameOK'
  BY <1>1, <1>4, <1>6, <1>7, <1>8 DEF CameOK
<1> QED BY <1>1, <1>4, <1>6, <1>7, <1>8, <1>9, OwnerSerial

LEMMA LinkMessengerSerial ==
    ASSUME Serial, SInv, LinkMessenger
    PROVE  SInv' /\ (came = "in" => account'.id = account.id)
<1>1. IInv /\ IInv' /\ OwnersTurn /\ UNCHANGED <<invite, req, now>>
  BY LinkMessengerInv DEF SInv, LinkMessenger
<1>2. PICK a : a = [NoAccount EXCEPT !.id = made + 1, !.created = now, !.linked = TRUE]
  OBVIOUS
<1>3. PICK b : b = [account EXCEPT !.linked = TRUE]
  OBVIOUS
<1>4. account' = IF account.id = 0 THEN a ELSE b
  BY <1>2, <1>3 DEF LinkMessenger
<1>5. a.roles = {} /\ a.linked = TRUE
  BY <1>2 DEF NoAccount
<1>6. b.roles = account.roles /\ b.linked = TRUE /\ b.id = account.id
  BY <1>1, <1>3, Types DEF Account
<1>7. came = "in" => account.id # 0
  BY <1>1 DEF IInv, AccountOK
<1>8. \A k, l \in account'.roles : k = l
  BY <1>4, <1>5, <1>6 DEF SInv
<1>9. CameOK'
  BY <1>4, <1>5, <1>6 DEF CameOK
<1> QED BY <1>1, <1>4, <1>6, <1>7, <1>8, <1>9, OwnerSerial

LEMMA OwnerPicksSerial ==
    ASSUME Serial, SInv, NEW k \in Kinds, NEW S \in SUBSET Companies, OwnerPicks(k, S)
    PROVE  SInv'
<1>1. IInv /\ IInv' /\ OwnersTurn /\ UNCHANGED <<account, invite, came, req, visit, now>>
  BY OwnerPicksInv DEF SInv, OwnerPicks
<1>2. CameOK' /\ \A j, l \in account'.roles : j = l
  BY <1>1 DEF SInv, CameOK
<1> QED BY <1>1, <1>2, OwnerSerial

LEMMA TickSerial ==
    ASSUME SInv, Tick
    PROVE  SInv'
<1>1. IInv /\ IInv' /\ UNCHANGED <<account, invite, came, req, visit>> /\ now' = now + 1
      /\ \A c \in Companies : req[c].pc = "idle"
  BY TickInv DEF SInv, Tick, db
<1>2. CameOK' /\ \A j, l \in account'.roles : j = l
  BY <1>1 DEF SInv, CameOK
<1>3. OneActs' /\ \A c \in Companies : req'[c].pc # "commit"
  BY <1>1 DEF OneActs
<1> QED BY <1>1, <1>2, <1>3, SameRows, CalmStep

LEMMA MarkInvitesUsedSerial ==
    ASSUME SInv, MarkInvitesUsed
    PROVE  SInv'
<1>1. IInv /\ IInv' /\ UNCHANGED <<account, req, now>> /\ visit # 0 /\ visit' = 0
  BY MarkInvitesUsedInv DEF SInv, MarkInvitesUsed
<1>2. \A c \in Companies : req[c].pc = "idle"
  BY <1>1 DEF SInv, OneActs
<1>3. OneActs' /\ \A c \in Companies : req'[c].pc # "commit"
  BY <1>1, <1>2 DEF OneActs
<1>4. \A j, l \in account'.roles : j = l
  BY <1>1 DEF SInv
<1>5. CASE /\ invite' = [k \in Kinds |-> [c \in Companies |-> MarkedUsed(invite[k][c])]]
           /\ came' = IF account.id = visit THEN "in" ELSE came
  <2>1. \A k \in Kinds, c \in Companies :
           /\ invite'[k][c].there = invite[k][c].there /\ invite'[k][c].used = invite'[k][c].there
    BY <1>1, <1>5, MarkedFacts
  <2>2. \A k \in Kinds, c \in Companies : Less(invite'[k][c], invite[k][c])
    BY <2>1 DEF Less
  <2>3. CameOK'
    BY <1>1, <1>5, <2>1 DEF SInv, CameOK
  <2> QED BY <1>1, <1>3, <1>4, <2>2, <2>3, CalmStep
<1>6. CASE UNCHANGED <<invite, came>>
  <2>1. CameOK'
    BY <1>1, <1>6 DEF SInv, CameOK
  <2> QED BY <1>1, <1>3, <1>4, <1>6, <2>1, SameRows, CalmStep
<1> QED BY <1>5, <1>6 DEF MarkInvitesUsed

\* The sweep goes on beside the people.
LEMMA SweepSerial ==
    ASSUME SInv, IInv', UNCHANGED <<account, came, req, visit, now>>,
           \A k \in Kinds, d \in Companies : /\ Less(invite'[k][d], invite[k][d])
                                             /\ invite'[k][d].there => invite[k][d].there
                                             /\ invite'[k][d].used = invite[k][d].used
    PROVE  SInv'
<1>1. \A k \in Kinds, c \in Companies : isInviteWaiting(invite[k][c])' => isInviteWaiting(invite[k][c])
  BY Shrinks DEF SInv
<1>2. OneWaiting'
  BY <1>1 DEF SInv, OneWaiting
<1>3. OneActs' /\ CameOK' /\ \A j, l \in account'.roles : j = l
  BY DEF SInv, OneActs, CameOK
<1>4. \A c \in Companies : CommitOK(c)'
  <2> TAKE c \in Companies
  <2>1. CommitOK(c)
    BY DEF SInv
  <2>2. req[c].pc = "commit" => req[c].kind \in Kinds
    BY RequestTypes DEF SInv, RequestOK
  <2>3. ASSUME req[c].pc = "commit", \A d \in Companies : ~isInviteWaiting(invite[req[c].kind][d])
        PROVE  \A d \in Companies : ~isInviteWaiting(invite[req[c].kind][d])'
    <3>1. PICK k \in Kinds : k = req[c].kind
      BY <2>2, <2>3
    <3>2. \A d \in Companies : ~isInviteWaiting(invite[k][d])'
      BY <1>1, <2>3, <3>1
    <3>3. k = req'[c].kind
      BY <3>1
    <3> QED BY <3>2, <3>3 DEF isInviteWaiting, isInviteExpired
  <2> QED BY <2>1, <2>3 DEF CommitOK
<1> QED BY <1>2, <1>3, <1>4 DEF SInv

LEMMA FindStaleSerial ==
    ASSUME SInv, NEW k \in Kinds, FindStale(k)
    PROVE  SInv'
BY FindStaleInv, SameRows, SweepSerial DEF SInv, FindStale, db

LEMMA SweepFailsSerial ==
    ASSUME SInv, SweepFails
    PROVE  SInv'
BY SweepFailsInv, SameRows, SweepSerial DEF SInv, SweepFails, db

LEMMA SameSerial ==
    ASSUME SInv, UNCHANGED vars
    PROVE  SInv'
BY SameInv, SameRows, SweepSerial DEF SInv, vars, db

\* The sweep deletes no account somebody came into.
LEMMA ExpireOneSerial ==
    ASSUME SInv, ExpireOne
    PROVE  SInv' /\ (came = "in" => account'.id = account.id)
<1>1. IInv /\ IInv' /\ UNCHANGED <<req, visit, now>>
  BY ExpireOneInv, ExpireFacts DEF SInv
<1>2. PICK t \in todo, k \in Kinds, c \in Companies : ExpireCase(t, k, c)
  BY <1>1, ExpireFacts
<1>3. CASE /\ invite[k][c].there /\ ~invite[k][c].used /\ NobodyCame(k, c)
           /\ account' = NoAccount /\ invite' = NoRows /\ came' = "no"
  <2>1. came # "in"
    BY <1>3 DEF SInv, CameOK, NobodyCame
  <2>2. account.id # 0
    BY <1>1, <1>3 DEF IInv, AccountOK
  <2>3. \A d \in Companies : CommitOK(d)'
    <3> TAKE d \in Companies
    <3>1. ~(req[d].pc = "commit" /\ req[d].id = 0)
      BY <2>2 DEF SInv, CommitOK
    <3> QED BY <1>1, <1>3, <3>1, BlankFacts DEF CommitOK
  <2>4. OneWaiting'
    BY <1>3, BlankFacts DEF OneWaiting, isInviteWaiting
  <2>5. OneActs' /\ CameOK' /\ \A j, l \in account'.roles : j = l
    BY <1>1, <1>3, BlankFacts DEF SInv, OneActs, CameOK
  <2> QED BY <1>1, <2>1, <2>3, <2>4, <2>5 DEF SInv
<1>4. CASE invite' = [invite EXCEPT ![k][c].revoked = TRUE] /\ UNCHANGED <<account, came>>
  BY <1>1, <1>4, RevokedRow, SweepSerial
<1>5. CASE UNCHANGED <<account, invite, tied, came>>
  BY <1>1, <1>5, SameRows, SweepSerial
<1> QED BY <1>2, <1>3, <1>4, <1>5 DEF ExpireCase

LEMMA InitSerial == Init => SInv
<1> SUFFICES ASSUME Init PROVE SInv
  OBVIOUS
<1>1. IInv
  BY InitInv
<1>2. \A c \in Companies : req[c].pc = "idle"
  BY IdleFacts DEF Init
<1>3. account = NoAccount /\ invite = NoRows /\ came = "no" /\ visit = 0
  BY DEF Init
<1>4. OneActs /\ \A c \in Companies : CommitOK(c)
  BY <1>2, <1>3 DEF OneActs, CommitOK
<1>5. OneWaiting
  BY <1>3, BlankFacts DEF OneWaiting, isInviteWaiting
<1>6. CameOK /\ \A k, l \in account.roles : k = l
  BY <1>3, BlankFacts DEF CameOK
<1> QED BY <1>1, <1>4, <1>5, <1>6 DEF SInv

LEMMA NextSerial ==
    ASSUME Serial, SInv, [Next]_vars
    PROVE  SInv'
<1>1. ASSUME NEW c \in Companies, Ask(c) PROVE SInv'
  BY <1>1, RemoveStartsSerial, InviteReadsSerial DEF Ask
<1>2. ASSUME NEW c \in Companies, RequestStep(c) PROVE SInv'
  BY <1>2, InviteCommitsSerial, PickReadsSerial, PickWritesSerial, RemoveUntiesSerial, RemoveSavesSerial,
     RemoveRevokesSerial DEF RequestStep
<1>3. ASSUME Owner PROVE SInv'
  BY <1>3, SignUpSerial, OwnerPicksSerial DEF Owner
<1> QED BY <1>1, <1>2, <1>3, FindStaleSerial, ExpireOneSerial, SweepFailsSerial, SignInSerial, LinkMessengerSerial,
        MarkInvitesUsedSerial, TickSerial, SameSerial DEF Next

\* An account changes its id only when somebody makes it or the sweep deletes it.
LEMMA KeptStep ==
    ASSUME Serial, SInv, [Next]_vars
    PROVE  [came = "in" => account'.id = account.id]_vars
<1> SUFFICES ASSUME Next PROVE came = "in" => account'.id = account.id
  OBVIOUS
<1>1. ASSUME NEW c \in Companies, Ask(c) PROVE account' = account
  BY <1>1 DEF Ask, RemoveStarts, InviteReads, db
<1>2. ASSUME NEW c \in Companies, RequestStep(c) PROVE came = "in" => account'.id = account.id
  <2>1. CASE InviteCommits(c)
    <3>1. IInv /\ (came = "in" => account.id # 0)
      BY DEF SInv, IInv, AccountOK
    <3>2. ASSUME NEW k \in Kinds, NEW rows, NEW S, Committed(c, k, rows, S)
          PROVE  account.id # 0 => account'.id = account.id
      BY <3>1, <3>2, InviteeFacts DEF Committed
    <3> QED BY <2>1, <3>1, <3>2, CommitFacts
  <2>2. CASE PickReads(c) \/ PickWrites(c) \/ RemoveUnties(c) \/ RemoveSaves(c) \/ RemoveRevokes(c)
    BY <2>2 DEF PickReads, PickWrites, RemoveUnties, RemoveSaves, RemoveRevokes, db
  <2> QED BY <1>2, <2>1, <2>2 DEF RequestStep
<1>3. ASSUME Owner PROVE came = "in" => account'.id = account.id
  <2>1. ASSUME NEW k \in Kinds, NEW S \in SUBSET Companies, OwnerPicks(k, S) PROVE account' = account
    BY <2>1 DEF OwnerPicks
  <2> QED BY <1>3, <2>1, SignUpSerial DEF Owner
<1>4. ASSUME NEW k \in Kinds, FindStale(k) PROVE account' = account
  BY <1>4 DEF FindStale, db
<1>5. CASE SweepFails \/ SignIn \/ MarkInvitesUsed \/ Tick
  BY <1>5 DEF SweepFails, SignIn, MarkInvitesUsed, Tick, db
<1> QED BY <1>1, <1>2, <1>3, <1>4, <1>5, ExpireOneSerial, LinkMessengerSerial DEF Next

\* When the people act one at a time a number waits for one inviter at most, whenever the
\* sweep runs and whatever it undoes between an invite's reads and its commit.
THEOREM OneInviter ==
    ASSUME Serial
    PROVE  Spec => []OneWaiting
<1>1. SInv /\ [Next]_vars => SInv'
  BY NextSerial
<1>2. SInv => OneWaiting
  BY DEF SInv
<1> QED BY <1>1, <1>2, InitSerial, PTL DEF Spec

\* The sweep never deletes an account somebody came into and whose invites were marked or
\* which is linked, when the people act one at a time.
THEOREM AccountKept ==
    ASSUME Serial
    PROVE  Spec => CameInKept
<1>1. SInv /\ [Next]_vars => SInv'
  BY NextSerial
<1>2. SInv /\ [Next]_vars => [came = "in" => account'.id = account.id]_vars
  BY KeptStep
<1> QED BY <1>1, <1>2, InitSerial, PTL DEF Spec, CameInKept
=============================================================================
