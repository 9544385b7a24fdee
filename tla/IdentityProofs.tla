--------------------------- MODULE IdentityProofs ---------------------------
(***************************************************************************)
(* Proofs about accounts, for any number of them: what identifies them     *)
(* (Identity) and the sessions that pages hold (Sessions).                 *)
(*                                                                         *)
(* A number is free for one account only while nobody holds it, applies    *)
(* for it or asks for it; every transaction checks that again, the one     *)
(* that commits a registration included, so claims never meet.  What a     *)
(* reviewer has on screen is of a revision the application had, and every  *)
(* edit leaves that revision behind.                                       *)
(*                                                                         *)
(* The row of a session keeps its user as long as it exists, so a page     *)
(* that shows a user and holds a token holds a token of that user's; a     *)
(* write needs the cookie to be of the same session.  Every transaction    *)
(* that sets a password ends the other sessions of its account and takes   *)
(* away its links, whatever was true when its hash was begun.              *)
(***************************************************************************)
EXTENDS Identity, Sessions, FiniteSetTheorems, WellFoundedInduction, TLAPS

-----------------------------------------------------------------------------
(* The inductive invariant *)

Applicants == {u \in DOMAIN account : account[u].status \in Pending}
Actives == {u \in DOMAIN account : account[u].status = "ACTIVE"}
Holders == {u \in DOMAIN account : account[u].status \in {"ACTIVE", "DISABLED"}}

Account ==
    [status : Pending \cup {"ACTIVE", "DISABLED", "DELETED"}, name : Names \cup {NoUser},
     email : Emails \cup {NoEmail}, revision : Nat]
Owner == [user : Users, active : BOOLEAN]
Sent == [email : Emails, purpose : {"REGISTER", "EMAIL_CHANGE", "EMAIL_OLD"},
         user : Users \cup {NoUser}, state : {"open", "dead", "used"}]

\* What the tables hold
Rows ==
    /\ DOMAIN account \subseteq Users
    /\ \A u \in DOMAIN account : account[u] \in Account
    /\ DOMAIN number \subseteq Numbers
    /\ \A n \in DOMAIN number : number[n] \in Owner
    /\ \A u \in DOMAIN pendingNum : pendingNum[u] \in Numbers
    /\ \A u \in DOMAIN request : request[u].requested \in Numbers
    /\ DOMAIN registering \subseteq Users
    /\ \A u \in DOMAIN registering : u \notin DOMAIN account /\ registering[u] \in Form
    /\ \A c \in DOMAIN code : code[c] \in Sent

\* A number that is applied for has never been given, and one that is asked for is given to
\* nobody else; a holder has one active number.
Numbered ==
    /\ DOMAIN pendingNum = Applicants
    /\ DOMAIN request \subseteq Actives
    /\ \A u \in DOMAIN pendingNum : pendingNum[u] \notin DOMAIN number
    /\ \A u, v \in DOMAIN pendingNum : pendingNum[u] = pendingNum[v] => u = v
    /\ \A u \in DOMAIN request :
          request[u].requested \in DOMAIN number => number[request[u].requested].user = u
    /\ \A u \in DOMAIN request, v \in DOMAIN pendingNum : request[u].requested # pendingNum[v]
    /\ \A u, v \in DOMAIN request : request[u].requested = request[v].requested => u = v
    /\ \A n \in DOMAIN number : number[n].user \in Holders
    /\ \A u \in Holders : \E n \in Numbers : Held(u) = {n}

\* Names and addresses of two accounts differ, but for deleted ones.
Named ==
    \A u, v \in DOMAIN account :
        u # v => /\ account[u].name = account[v].name => account[u].name = NoUser
                 /\ account[u].email = account[v].email => account[u].email = NoEmail

\* A code that gave an account its address is used up.
Spent == \A c \in DOMAIN proofs : proofs[c] = 1 /\ c \in DOMAIN code /\ code[c].state = "used"

\* What is on screen is of a revision the application had; a clearing under way that takes the
\* account for a user's is not an applicant's.
Watched ==
    /\ DOMAIN reviewed \subseteq Applicants
    /\ \A u \in DOMAIN reviewed :
          /\ reviewed[u].revision \in Nat /\ reviewed[u].revision <= account[u].revision
          /\ reviewed[u].revision = account[u].revision => reviewed[u] = Application(u)
    /\ DOMAIN clearing \subseteq DOMAIN account
    /\ \A u \in DOMAIN clearing : clearing[u].pending \/ u \notin Applicants
    /\ ~surprised

IdentityInv == Rows /\ Numbered /\ RequestsCurrent /\ Named /\ Spent /\ Watched

-----------------------------------------------------------------------------
(* Rows *)

\* What an update of one field leaves of an account
LEMMA StatusRow ==
    ASSUME NEW row \in Account, NEW status \in Pending \cup {"ACTIVE", "DISABLED", "DELETED"}
    PROVE  /\ [row EXCEPT !.status = status] \in Account
           /\ [row EXCEPT !.status = status].status = status
           /\ [row EXCEPT !.status = status].name = row.name
           /\ [row EXCEPT !.status = status].email = row.email
           /\ [row EXCEPT !.status = status].revision = row.revision
BY DEF Account, Pending

LEMMA NameRow ==
    ASSUME NEW row \in Account, NEW name \in Names \cup {NoUser}
    PROVE  /\ [row EXCEPT !.name = name] \in Account
           /\ [row EXCEPT !.name = name].status = row.status
           /\ [row EXCEPT !.name = name].name = name
           /\ [row EXCEPT !.name = name].email = row.email
           /\ [row EXCEPT !.name = name].revision = row.revision
BY DEF Account, Pending

LEMMA EmailRow ==
    ASSUME NEW row \in Account, NEW email \in Emails \cup {NoEmail}
    PROVE  /\ [row EXCEPT !.email = email] \in Account
           /\ [row EXCEPT !.email = email].status = row.status
           /\ [row EXCEPT !.email = email].name = row.name
           /\ [row EXCEPT !.email = email].email = email
           /\ [row EXCEPT !.email = email].revision = row.revision
BY DEF Account, Pending

LEMMA ResubmittedRow ==
    ASSUME NEW row \in Account
    PROVE  /\ Resubmitted(row) \in Account
           /\ Resubmitted(row).status = "PENDING_APPROVAL"
           /\ Resubmitted(row).name = row.name
           /\ Resubmitted(row).email = row.email
           /\ Resubmitted(row).revision = row.revision + 1
<1> DEFINE a == [row EXCEPT !.status = "PENDING_APPROVAL"]
<1>1. /\ a \in Account /\ a.status = "PENDING_APPROVAL" /\ a.name = row.name
      /\ a.email = row.email /\ a.revision = row.revision
    BY DEF Account, Pending
<1> HIDE DEF a
<1> DEFINE b == [a EXCEPT !.revision = row.revision + 1]
<1>2. row.revision + 1 \in Nat
    BY DEF Account
<1>3. /\ b \in Account /\ b.status = a.status /\ b.name = a.name
      /\ b.email = a.email /\ b.revision = row.revision + 1
    BY <1>1, <1>2 DEF Account, Pending
<1> USE DEF a
<1>4. b = Resubmitted(row)
    BY Zenon DEF Resubmitted
<1> QED
    BY <1>1, <1>3, <1>4

-----------------------------------------------------------------------------
(* Steps of one account *)

\* One account's row is replaced.
Becomes(u, status, name, email, revision) ==
    /\ DOMAIN account' = DOMAIN account
    /\ \A v \in DOMAIN account : v # u => account'[v] = account[v]
    /\ account'[u] \in Account
    /\ account'[u].status = status /\ account'[u].name = name
    /\ account'[u].email = email /\ account'[u].revision = revision

LEMMA Replaced ==
    ASSUME NEW u \in DOMAIN account, NEW row \in Account, account' = [account EXCEPT ![u] = row]
    PROVE  Becomes(u, row.status, row.name, row.email, row.revision)
BY DEF Becomes

LEMMA StatusBecomes ==
    ASSUME Rows, NEW u \in DOMAIN account,
           NEW status \in Pending \cup {"ACTIVE", "DISABLED", "DELETED"},
           account' = [account EXCEPT ![u].status = status]
    PROVE  Becomes(u, status, account[u].name, account[u].email, account[u].revision)
<1> DEFINE row == [account[u] EXCEPT !.status = status]
<1>1. account[u] \in Account
    BY DEF Rows
<1>2. /\ row \in Account /\ row.status = status /\ row.name = account[u].name
      /\ row.email = account[u].email /\ row.revision = account[u].revision
    BY <1>1, StatusRow
<1>3. account' = [account EXCEPT ![u] = row]
    BY Zenon
<1> HIDE DEF row
<1> QED
    BY <1>2, <1>3, Replaced

LEMMA ResubmittedBecomes ==
    ASSUME Rows, NEW u \in DOMAIN account, account' = [account EXCEPT ![u] = Resubmitted(@)]
    PROVE  Becomes(u, "PENDING_APPROVAL", account[u].name, account[u].email,
                   account[u].revision + 1)
<1> DEFINE row == Resubmitted(account[u])
<1>1. account[u] \in Account
    BY DEF Rows
<1>2. /\ row \in Account /\ row.status = "PENDING_APPROVAL" /\ row.name = account[u].name
      /\ row.email = account[u].email /\ row.revision = account[u].revision + 1
    BY <1>1, ResubmittedRow
<1>3. account' = [account EXCEPT ![u] = row]
    BY Zenon
<1> HIDE DEF row
<1> QED
    BY <1>2, <1>3, Replaced

LEMMA NameBecomes ==
    ASSUME Rows, NEW u \in DOMAIN account, NEW name \in Names, ChangeUsername(u, name)
    PROVE  \/ /\ u \in Applicants
              /\ Becomes(u, "PENDING_APPROVAL", name, account[u].email, account[u].revision + 1)
           \/ /\ account[u].status = "ACTIVE"
              /\ Becomes(u, "ACTIVE", name, account[u].email, account[u].revision)
<1> DEFINE row == [account[u] EXCEPT !.name = name]
<1>1. account[u] \in Account
    BY DEF Rows
<1>2. /\ row \in Account /\ row.status = account[u].status /\ row.name = name
      /\ row.email = account[u].email /\ row.revision = account[u].revision
    BY <1>1, NameRow
<1>3. CASE Editable(u) /\ account' = [account EXCEPT ![u] = Resubmitted([@ EXCEPT !.name = name])]
    <2>1. account' = [account EXCEPT ![u] = Resubmitted(row)]
        BY <1>3, Zenon
    <2>2. u \in Applicants
        BY <1>3 DEF Editable, Applicants
    <2> HIDE DEF row
    <2> DEFINE new == Resubmitted(row)
    <2>3. /\ new \in Account /\ new.status = "PENDING_APPROVAL" /\ new.name = row.name
          /\ new.email = row.email /\ new.revision = row.revision + 1
        BY <1>2, ResubmittedRow
    <2> HIDE DEF new
    <2>4. account' = [account EXCEPT ![u] = new]
        BY <2>1 DEF new
    <2>5. Becomes(u, new.status, new.name, new.email, new.revision)
        BY <2>3, <2>4, Replaced
    <2> QED
        BY <1>2, <2>2, <2>3, <2>5
<1>4. CASE account[u].status = "ACTIVE" /\ account' = [account EXCEPT ![u].name = name]
    <2>1. account' = [account EXCEPT ![u] = row]
        BY <1>4, Zenon
    <2> HIDE DEF row
    <2>2. Becomes(u, row.status, row.name, row.email, row.revision)
        BY <1>2, <2>1, Replaced
    <2> QED
        BY <1>2, <1>4, <2>2
<1> QED
    BY <1>3, <1>4 DEF ChangeUsername

LEMMA EmailBecomes ==
    ASSUME Rows, NEW u \in DOMAIN account, NEW email \in Emails \cup {NoEmail},
           NEW pending, EmailChanged(u, email, pending)
    PROVE  \/ /\ pending /\ u \in Applicants
              /\ Becomes(u, "PENDING_APPROVAL", account[u].name, email, account[u].revision + 1)
           \/ /\ ~pending
              /\ Becomes(u, account[u].status, account[u].name, email, account[u].revision)
<1> DEFINE row == [account[u] EXCEPT !.email = email]
<1>1. account[u] \in Account
    BY DEF Rows
<1>2. /\ row \in Account /\ row.status = account[u].status /\ row.name = account[u].name
      /\ row.email = email /\ row.revision = account[u].revision
    BY <1>1, EmailRow
<1>3. CASE /\ pending /\ Editable(u)
           /\ account' = [account EXCEPT ![u] = Resubmitted([@ EXCEPT !.email = email])]
    <2>1. account' = [account EXCEPT ![u] = Resubmitted(row)]
        BY <1>3, Zenon
    <2>2. u \in Applicants
        BY <1>3 DEF Editable, Applicants
    <2> HIDE DEF row
    <2> DEFINE new == Resubmitted(row)
    <2>3. /\ new \in Account /\ new.status = "PENDING_APPROVAL" /\ new.name = row.name
          /\ new.email = row.email /\ new.revision = row.revision + 1
        BY <1>2, ResubmittedRow
    <2> HIDE DEF new
    <2>4. account' = [account EXCEPT ![u] = new]
        BY <2>1 DEF new
    <2>5. Becomes(u, new.status, new.name, new.email, new.revision)
        BY <2>3, <2>4, Replaced
    <2> QED
        BY <1>2, <1>3, <2>2, <2>3, <2>5
<1>4. CASE ~pending /\ account' = [account EXCEPT ![u].email = email]
    <2>1. account' = [account EXCEPT ![u] = row]
        BY <1>4, Zenon
    <2> HIDE DEF row
    <2>2. Becomes(u, row.status, row.name, row.email, row.revision)
        BY <1>2, <2>1, Replaced
    <2> QED
        BY <1>2, <1>4, <2>2
<1> QED
    BY <1>3, <1>4 DEF EmailChanged

LEMMA DeletedBecomes ==
    ASSUME Rows, NEW u \in DOMAIN account, Delete(u)
    PROVE  Becomes(u, "DELETED", NoUser, NoEmail, account[u].revision)
<1> DEFINE a == [account[u] EXCEPT !.status = "DELETED"]
           b == [a EXCEPT !.name = NoUser]
           c == [b EXCEPT !.email = NoEmail]
<1>1. account[u] \in Account
    BY DEF Rows
<1>2. a \in Account /\ a.status = "DELETED" /\ a.revision = account[u].revision
    BY <1>1, StatusRow
<1>3. account' = [account EXCEPT ![u] = c]
    BY Zenon DEF Delete
<1> HIDE DEF a
<1>4. b \in Account /\ b.status = a.status /\ b.name = NoUser /\ b.revision = a.revision
    BY <1>2, NameRow
<1> HIDE DEF b
<1>5. /\ c \in Account /\ c.status = b.status /\ c.name = b.name /\ c.email = NoEmail
      /\ c.revision = b.revision
    BY <1>4, EmailRow
<1> HIDE DEF c
<1> QED
    BY <1>2, <1>3, <1>4, <1>5, Replaced

\* Who applies, is active or holds a number after it
LEMMA Statuses ==
    ASSUME NEW u \in DOMAIN account, NEW status, NEW name, NEW email, NEW revision,
           Becomes(u, status, name, email, revision)
    PROVE  /\ Applicants' = IF status \in Pending THEN Applicants \cup {u} ELSE Applicants \ {u}
           /\ Actives' = IF status = "ACTIVE" THEN Actives \cup {u} ELSE Actives \ {u}
           /\ Holders' = IF status \in {"ACTIVE", "DISABLED"} THEN Holders \cup {u}
                         ELSE Holders \ {u}
<1>1. Applicants' = IF status \in Pending THEN Applicants \cup {u} ELSE Applicants \ {u}
    BY DEF Becomes, Applicants
<1>2. Actives' = IF status = "ACTIVE" THEN Actives \cup {u} ELSE Actives \ {u}
    BY DEF Becomes, Actives
<1>3. Holders' = IF status \in {"ACTIVE", "DISABLED"} THEN Holders \cup {u} ELSE Holders \ {u}
    BY DEF Becomes, Holders
<1> QED
    BY <1>1, <1>2, <1>3

LEMMA RowsOfBecomes ==
    ASSUME Rows, NEW u \in DOMAIN account, NEW status, NEW name, NEW email, NEW revision,
           Becomes(u, status, name, email, revision)
    PROVE  DOMAIN account' \subseteq Users /\ \A v \in DOMAIN account' : account'[v] \in Account
BY DEF Becomes, Rows

LEMMA NamedOfBecomes ==
    ASSUME Named, NEW u \in DOMAIN account, NEW status, NEW name, NEW email, NEW revision,
           Becomes(u, status, name, email, revision),
           name \in {NoUser, account[u].name} \/ NameFree(name, u),
           email \in {NoEmail, account[u].email} \/ EmailFree(email, u)
    PROVE  Named'
BY DEF Becomes, Named, NameFree, EmailFree

\* Nothing about numbers changes.
LEMMA NumberedKept ==
    ASSUME Numbered, RequestsCurrent, UNCHANGED <<number, pendingNum, request>>,
           Applicants' = Applicants, Actives' = Actives, Holders' = Holders
    PROVE  Numbered' /\ RequestsCurrent'
<1>1. \A u : Held(u)' = Held(u)
    BY DEF Held
<1>2. Numbered'
    BY <1>1 DEF Numbered
<1>3. \A u : Numbering(u)' = Numbering(u)
    BY <1>1 DEF Numbering
<1>4. RequestsCurrent'
    BY <1>3 DEF Numbered, RequestsCurrent, Actives
<1> QED
    BY <1>2, <1>4

\* Applications on screen stay what they were or fall behind.
LEMMA WatchedKept ==
    ASSUME Rows, Watched, UNCHANGED <<reviewed, surprised>>,
           DOMAIN account' = DOMAIN account, Applicants' = Applicants,
           \A u \in Applicants :
              \/ account'[u].revision = account[u].revision + 1
              \/ account'[u].revision = account[u].revision /\ Application(u)' = Application(u),
           DOMAIN clearing' \subseteq DOMAIN clearing,
           \A u \in DOMAIN clearing' : clearing'[u] = clearing[u]
    PROVE  Watched'
<1>1. \A u \in DOMAIN reviewed :
         /\ reviewed[u].revision \in Nat /\ reviewed[u].revision <= account[u].revision
         /\ account[u].revision \in Nat /\ u \in Applicants
    BY DEF Watched, Rows, Account, Applicants
<1>2. ASSUME NEW u \in DOMAIN reviewed
      PROVE  /\ reviewed[u].revision <= account'[u].revision
             /\ reviewed[u].revision = account'[u].revision => reviewed[u] = Application(u)'
    <2>1. CASE account'[u].revision = account[u].revision + 1
        BY <1>1, <2>1
    <2>2. CASE account'[u].revision = account[u].revision /\ Application(u)' = Application(u)
        BY <1>1, <2>2 DEF Watched
    <2> QED
        BY <1>1, <2>1, <2>2
<1> QED
    BY <1>1, <1>2 DEF Watched

\* Only codes, rules and work under way change.
LEMMA AccountsKept ==
    ASSUME IdentityInv, UNCHANGED <<account, number, pendingNum, request>>
    PROVE  /\ Numbered' /\ RequestsCurrent' /\ Named'
           /\ Applicants' = Applicants /\ DOMAIN account' = DOMAIN account
<1>1. Applicants' = Applicants /\ Actives' = Actives /\ Holders' = Holders
    BY DEF Applicants, Actives, Holders
<1>2. Numbered' /\ RequestsCurrent'
    BY <1>1, NumberedKept DEF IdentityInv
<1> QED
    BY <1>1, <1>2 DEF IdentityInv, Named

\* The active number of a holder
LEMMA NumberingFacts ==
    ASSUME Numbered, NEW u \in Holders
    PROVE  /\ Held(u) = {Numbering(u)} /\ Numbering(u) \in Numbers
           /\ Numbering(u) \in DOMAIN number
           /\ number[Numbering(u)].user = u /\ number[Numbering(u)].active
<1>1. PICK n \in Numbers : Held(u) = {n}
    BY DEF Numbered
<1>2. Numbering(u) = n
    BY <1>1 DEF Numbering
<1>3. n \in Held(u)
    BY <1>1
<1> QED
    BY <1>1, <1>2, <1>3 DEF Held

-----------------------------------------------------------------------------
(* Codes *)

LEMMA CodeRow ==
    ASSUME NEW row \in Sent, NEW state \in {"open", "dead", "used"}
    PROVE  /\ [row EXCEPT !.state = state] \in Sent
           /\ [row EXCEPT !.state = state].state = state
BY DEF Sent

\* A table of codes after some were used or died: what was used stays used.
Later(new) ==
    /\ DOMAIN new = DOMAIN code
    /\ \A x \in DOMAIN code :
          new[x] \in Sent /\ (code[x].state = "used" => new[x].state = "used")

LEMMA ConsumedLater ==
    ASSUME Rows, NEW c \in DOMAIN code
    PROVE  Later(Consumed(c)) /\ Consumed(c)[c].state = "used"
<1>1. \A x \in DOMAIN code : code[x] \in Sent
    BY DEF Rows
<1>2. DOMAIN Consumed(c) = DOMAIN code /\ \A x \in DOMAIN code \ {c} : Consumed(c)[x] = code[x]
    BY DEF Consumed
<1>3. Consumed(c)[c] = [code[c] EXCEPT !.state = "used"]
    BY Zenon DEF Consumed
<1> DEFINE row == [code[c] EXCEPT !.state = "used"]
<1>4. row \in Sent /\ row.state = "used"
    BY <1>1, CodeRow
<1> HIDE DEF row
<1>5. Consumed(c)[c] = row
    BY <1>3 DEF row
<1> QED
    BY <1>1, <1>2, <1>4, <1>5 DEF Later

\* The open codes of a user die with the account.
LEMMA DeadLater ==
    ASSUME Rows, NEW u
    PROVE  Later([c \in DOMAIN code |-> IF code[c].user = u /\ code[c].state = "open"
                                       THEN [code[c] EXCEPT !.state = "dead"] ELSE code[c]])
<1>1. \A x \in DOMAIN code :
         /\ code[x] \in Sent /\ [code[x] EXCEPT !.state = "dead"] \in Sent
    BY CodeRow DEF Rows
<1> QED
    BY <1>1 DEF Later

LEMMA SpentLater ==
    ASSUME Spent, Later(code'), proofs' = proofs
    PROVE  Spent'
BY DEF Spent, Later

\* A code that proves an address was open, so it proves one for the first time.
LEMMA SpentProven ==
    ASSUME Spent, NEW c \in DOMAIN code, code[c].state = "open", Later(code'),
           code'[c].state = "used",
           proofs' = With(proofs, c, IF c \in DOMAIN proofs THEN proofs[c] + 1 ELSE 1)
    PROVE  Spent'
<1>1. c \notin DOMAIN proofs
    BY DEF Spent
<1>2. proofs' = With(proofs, c, 1)
    BY <1>1
<1>3. /\ DOMAIN proofs' = DOMAIN proofs \cup {c} /\ proofs'[c] = 1
      /\ \A x \in DOMAIN proofs : proofs'[x] = proofs[x]
    BY <1>1, <1>2 DEF With
<1> QED
    BY <1>3 DEF Spent, Later

LEMMA VerifiedFacts ==
    ASSUME NEW c, NEW email, NEW purpose, NEW u, Verified(c, email, purpose, u)
    PROVE  c \in DOMAIN code /\ code[c].state = "open" /\ code[c].purpose = purpose
BY DEF Verified

-----------------------------------------------------------------------------
(* Codes, rules and work under way *)

LEMMA SendCodeInv ==
    ASSUME IdentityInv, NEW c, NEW email \in Emails, NEW u \in Users \cup {NoUser},
           NEW purpose \in {"REGISTER", "EMAIL_CHANGE", "EMAIL_OLD"},
           SendCode(c, email, purpose, u)
    PROVE  IdentityInv'
<1> DEFINE row == [email |-> email, purpose |-> purpose, user |-> u, state |-> "open"]
<1>1. row \in Sent
    BY DEF Sent
<1>2. c \notin DOMAIN code /\ code' = With(code, c, row)
    BY DEF SendCode
<1> HIDE DEF row
<1>3. /\ DOMAIN code' = DOMAIN code \cup {c} /\ code'[c] = row
      /\ \A x \in DOMAIN code : code'[x] = code[x]
    BY <1>2 DEF With
<1>4. UNCHANGED <<account, number, pendingNum, request, registering, clearing, reviewed, proofs,
                  surprised>>
    BY DEF SendCode
<1>5. Numbered' /\ RequestsCurrent' /\ Named' /\ Applicants' = Applicants
    BY <1>4, AccountsKept
<1>6. Rows'
    BY <1>1, <1>3, <1>4 DEF IdentityInv, Rows
<1>7. Spent'
    BY <1>3, <1>4 DEF IdentityInv, Spent
<1>8. Watched'
    BY <1>4, <1>5 DEF IdentityInv, Watched, Application
<1> QED
    BY <1>5, <1>6, <1>7, <1>8 DEF IdentityInv

LEMMA CodeDiesInv ==
    ASSUME IdentityInv, NEW c \in DOMAIN code, CodeDies(c)
    PROVE  IdentityInv'
<1> DEFINE row == [code[c] EXCEPT !.state = "dead"]
<1>1. row \in Sent /\ row.state = "dead"
    BY CodeRow DEF IdentityInv, Rows
<1>2. code[c].state = "open" /\ code' = [code EXCEPT ![c] = row]
    BY Zenon DEF CodeDies
<1> HIDE DEF row
<1>3. Later(code')
    BY <1>1, <1>2 DEF Later, IdentityInv, Rows
<1>4. UNCHANGED <<account, number, pendingNum, request, registering, clearing, reviewed, proofs,
                  surprised>>
    BY DEF CodeDies
<1>5. Numbered' /\ RequestsCurrent' /\ Named' /\ Applicants' = Applicants
    BY <1>4, AccountsKept
<1>6. Rows'
    BY <1>3, <1>4 DEF IdentityInv, Rows, Later
<1>7. Spent'
    BY <1>3, <1>4, SpentLater DEF IdentityInv
<1>8. Watched'
    BY <1>4, <1>5 DEF IdentityInv, Watched, Application
<1> QED
    BY <1>5, <1>6, <1>7, <1>8 DEF IdentityInv

LEMMA ChangeRulesInv ==
    ASSUME IdentityInv, NEW mail, NEW optional, ChangeRules(mail, optional)
    PROVE  IdentityInv'
<1>1. UNCHANGED <<account, number, pendingNum, request, code, registering, clearing, reviewed,
                  proofs, surprised>>
    BY DEF ChangeRules
<1>2. Numbered' /\ RequestsCurrent' /\ Named' /\ Applicants' = Applicants
    BY <1>1, AccountsKept
<1>3. Rows' /\ Spent'
    BY <1>1 DEF IdentityInv, Rows, Spent
<1>4. Watched'
    BY <1>1, <1>2 DEF IdentityInv, Watched, Application
<1> QED
    BY <1>2, <1>3, <1>4 DEF IdentityInv

LEMMA BeginRegistrationInv ==
    ASSUME IdentityInv, NEW u \in Users, NEW form \in Form, BeginRegistration(u, form)
    PROVE  IdentityInv'
<1>1. u \notin DOMAIN account /\ registering' = With(registering, u, form)
    BY DEF BeginRegistration
<1>2. /\ DOMAIN registering' = DOMAIN registering \cup {u} /\ registering'[u] = form
      /\ \A v \in DOMAIN registering : v # u => registering'[v] = registering[v]
    BY <1>1 DEF With
<1>3. UNCHANGED <<account, number, pendingNum, request, code, clearing, reviewed, proofs,
                  surprised>>
    BY DEF BeginRegistration
<1>4. Numbered' /\ RequestsCurrent' /\ Named' /\ Applicants' = Applicants
    BY <1>3, AccountsKept
<1>5. Rows'
    BY <1>1, <1>2, <1>3 DEF IdentityInv, Rows
<1>6. Spent'
    BY <1>3 DEF IdentityInv, Spent
<1>7. Watched'
    BY <1>3, <1>4 DEF IdentityInv, Watched, Application
<1> QED
    BY <1>4, <1>5, <1>6, <1>7 DEF IdentityInv

\* The account the session described as a user's is not an applicant's, then or later.
LEMMA BeginClearingInv ==
    ASSUME IdentityInv, NEW u \in DOMAIN account, BeginClearing(u)
    PROVE  IdentityInv'
<1> DEFINE row == [pending |-> account[u].status # "ACTIVE", rules |-> rules]
<1>1. row.pending \/ u \notin Applicants
    BY DEF BeginClearing, MayEditEmail, Applicants, Pending
<1>2. clearing' = With(clearing, u, row)
    BY DEF BeginClearing
<1> HIDE DEF row
<1>3. /\ DOMAIN clearing' = DOMAIN clearing \cup {u} /\ clearing'[u] = row
      /\ \A v \in DOMAIN clearing : v # u => clearing'[v] = clearing[v]
    BY <1>2 DEF With
<1>4. UNCHANGED <<account, number, pendingNum, request, code, registering, reviewed, proofs,
                  surprised>>
    BY DEF BeginClearing
<1>5. Numbered' /\ RequestsCurrent' /\ Named' /\ Applicants' = Applicants
    BY <1>4, AccountsKept
<1>6. Rows' /\ Spent'
    BY <1>4 DEF IdentityInv, Rows, Spent
<1>7. Watched'
    BY <1>1, <1>3, <1>4, <1>5 DEF IdentityInv, Watched, Application
<1> QED
    BY <1>5, <1>6, <1>7 DEF IdentityInv

LEMMA DropClearingInv ==
    ASSUME IdentityInv, NEW u, DropClearing(u)
    PROVE  IdentityInv'
<1>1. clearing' = Without(clearing, {u})
    BY DEF DropClearing
<1>2. /\ DOMAIN clearing' = DOMAIN clearing \ {u}
      /\ \A v \in DOMAIN clearing' : clearing'[v] = clearing[v]
    BY <1>1 DEF Without
<1>3. UNCHANGED <<account, number, pendingNum, request, code, registering, reviewed, proofs,
                  surprised>>
    BY DEF DropClearing
<1>4. Numbered' /\ RequestsCurrent' /\ Named' /\ Applicants' = Applicants
    BY <1>3, AccountsKept
<1>5. Rows' /\ Spent'
    BY <1>3 DEF IdentityInv, Rows, Spent
<1>6. Watched'
    BY <1>2, <1>3, <1>4 DEF IdentityInv, Watched, Application
<1> QED
    BY <1>4, <1>5, <1>6 DEF IdentityInv

LEMMA ReviewInv ==
    ASSUME IdentityInv, NEW u \in DOMAIN account, Review(u)
    PROVE  IdentityInv'
<1> DEFINE shown == Application(u)
<1>1. u \in Applicants /\ shown.revision = account[u].revision /\ account[u].revision \in Nat
    BY DEF Review, Applicants, Application, IdentityInv, Rows, Account
<1>2. reviewed' = With(reviewed, u, shown)
    BY DEF Review
<1>3. shown = Application(u)
    OBVIOUS
<1> HIDE DEF shown
<1>4. /\ DOMAIN reviewed' = DOMAIN reviewed \cup {u} /\ reviewed'[u] = shown
      /\ \A v \in DOMAIN reviewed : v # u => reviewed'[v] = reviewed[v]
    BY <1>2 DEF With
<1>5. UNCHANGED <<account, number, pendingNum, request, code, registering, clearing, proofs,
                  surprised>>
    BY DEF Review
<1>6. Numbered' /\ RequestsCurrent' /\ Named' /\ Applicants' = Applicants
    BY <1>5, AccountsKept
<1>7. Rows' /\ Spent'
    BY <1>5 DEF IdentityInv, Rows, Spent
<1>8. \A v : Application(v)' = Application(v)
    BY <1>5 DEF Application
<1>9. Watched'
    BY <1>1, <1>3, <1>4, <1>5, <1>6, <1>8 DEF IdentityInv, Watched
<1> QED
    BY <1>6, <1>7, <1>9 DEF IdentityInv

-----------------------------------------------------------------------------
(* Edits of an account *)

\* An application that is edited gets another revision; other accounts keep theirs.
Edited(u, name, email) ==
    \/ /\ u \in Applicants
       /\ Becomes(u, "PENDING_APPROVAL", name, email, account[u].revision + 1)
    \/ /\ u \notin Applicants
       /\ Becomes(u, account[u].status, name, email, account[u].revision)

LEMMA EditedKeeps ==
    ASSUME IdentityInv, NEW u \in DOMAIN account, NEW name, NEW email, Edited(u, name, email)
    PROVE  /\ Applicants' = Applicants /\ Actives' = Actives /\ Holders' = Holders
           /\ DOMAIN account' = DOMAIN account
           /\ \A v \in DOMAIN account' : account'[v] \in Account
           /\ \A v \in Applicants :
                 \/ account'[v].revision = account[v].revision + 1
                 \/ v # u /\ account'[v] = account[v]
<1>1. DOMAIN account' = DOMAIN account /\ \A v \in DOMAIN account' : account'[v] \in Account
    BY RowsOfBecomes DEF Edited, IdentityInv, Becomes
<1>2. CASE /\ u \in Applicants
           /\ Becomes(u, "PENDING_APPROVAL", name, email, account[u].revision + 1)
    <2>1. /\ Applicants' = Applicants \cup {u} /\ Actives' = Actives \ {u}
          /\ Holders' = Holders \ {u}
        BY <1>2, Statuses DEF Pending
    <2>2. u \notin Actives /\ u \notin Holders
        BY <1>2 DEF Applicants, Actives, Holders, Pending
    <2>3. \A v \in Applicants : \/ account'[v].revision = account[v].revision + 1
                                \/ v # u /\ account'[v] = account[v]
        BY <1>2 DEF Becomes, Applicants
    <2> QED
        BY <1>1, <1>2, <2>1, <2>2, <2>3
<1>3. CASE /\ u \notin Applicants
           /\ Becomes(u, account[u].status, name, email, account[u].revision)
    <2>1. /\ Applicants' = Applicants /\ Actives' = Actives /\ Holders' = Holders
        BY <1>3 DEF Becomes, Applicants, Actives, Holders
    <2>2. \A v \in Applicants : v # u /\ account'[v] = account[v]
        BY <1>3 DEF Becomes, Applicants
    <2> QED
        BY <1>1, <2>1, <2>2
<1> QED
    BY <1>2, <1>3 DEF Edited

LEMMA EditedInv ==
    ASSUME IdentityInv, NEW u \in DOMAIN account, NEW name, NEW email, Edited(u, name, email),
           name \in {NoUser, account[u].name} \/ NameFree(name, u),
           email \in {NoEmail, account[u].email} \/ EmailFree(email, u),
           UNCHANGED <<number, pendingNum, request, registering, reviewed, surprised>>,
           DOMAIN clearing' \subseteq DOMAIN clearing,
           \A v \in DOMAIN clearing' : clearing'[v] = clearing[v],
           Later(code')
    PROVE  Rows' /\ Numbered' /\ RequestsCurrent' /\ Named' /\ Watched'
<1>1. /\ Applicants' = Applicants /\ Actives' = Actives /\ Holders' = Holders
      /\ DOMAIN account' = DOMAIN account
      /\ \A v \in DOMAIN account' : account'[v] \in Account
      /\ \A v \in Applicants : \/ account'[v].revision = account[v].revision + 1
                               \/ v # u /\ account'[v] = account[v]
    BY EditedKeeps
<1>2. Rows'
    BY <1>1 DEF IdentityInv, Rows, Later
<1>3. Numbered' /\ RequestsCurrent'
    BY <1>1, NumberedKept DEF IdentityInv
<1>4. Named'
    BY NamedOfBecomes DEF Edited, IdentityInv
<1>5. \A v \in Applicants :
         \/ account'[v].revision = account[v].revision + 1
         \/ account'[v].revision = account[v].revision /\ Application(v)' = Application(v)
    BY <1>1 DEF Application
<1>6. Watched'
    BY <1>1, <1>5, WatchedKept DEF IdentityInv
<1> QED
    BY <1>2, <1>3, <1>4, <1>6

LEMMA ChangeUsernameInv ==
    ASSUME IdentityInv, NEW u \in DOMAIN account, NEW name \in Names, ChangeUsername(u, name)
    PROVE  IdentityInv'
<1>1. NameFree(name, u)
    BY DEF ChangeUsername
<1>2. Edited(u, name, account[u].email)
    BY NameBecomes DEF Edited, IdentityInv, Applicants, Pending
<1>3. UNCHANGED <<number, pendingNum, request, code, registering, clearing, reviewed, proofs,
                  surprised>>
    BY DEF ChangeUsername
<1>4. Later(code')
    BY <1>3 DEF Later, IdentityInv, Rows
<1>5. Rows' /\ Numbered' /\ RequestsCurrent' /\ Named' /\ Watched'
    BY <1>1, <1>2, <1>3, <1>4, EditedInv
<1>6. Spent'
    BY <1>3, <1>4, SpentLater DEF IdentityInv
<1> QED
    BY <1>5, <1>6 DEF IdentityInv

LEMMA EmailEdited ==
    ASSUME IdentityInv, NEW u \in DOMAIN account, NEW email \in Emails \cup {NoEmail}, NEW pending,
           EmailChanged(u, email, pending), pending \/ u \notin Applicants
    PROVE  Edited(u, account[u].name, email)
BY EmailBecomes DEF Edited, IdentityInv

\* The code that proves the new address, and the one sent to the present address, are used.
LEMMA SetEmailCodes ==
    ASSUME IdentityInv, NEW u \in DOMAIN account, NEW email \in Emails, NEW c, NEW old,
           SetEmail(u, email, c, old)
    PROVE  Later(code') /\ c \in DOMAIN code /\ code[c].state = "open" /\ code'[c].state = "used"
<1>1. c \in DOMAIN code /\ code[c].state = "open" /\ code[c].purpose = "EMAIL_CHANGE"
    BY VerifiedFacts DEF SetEmail
<1>2. Later(Consumed(c)) /\ Consumed(c)[c].state = "used"
    BY <1>1, ConsumedLater DEF IdentityInv
<1>3. CASE account[u].email = NoEmail
    <2>1. code' = Consumed(c)
        BY <1>3 DEF SetEmail
    <2> QED
        BY <1>1, <1>2, <2>1
<1>4. CASE account[u].email # NoEmail
    <2>1. old \in DOMAIN code /\ code[old].purpose = "EMAIL_OLD"
        BY <1>4, VerifiedFacts DEF SetEmail, OldProof
    <2>2. old # c
        BY <1>1, <2>1
    <2> DEFINE first == Consumed(c)
               row == [first[old] EXCEPT !.state = "used"]
    <2>3. first[old] \in Sent
        BY <1>2, <2>1 DEF Later
    <2>4. row \in Sent /\ row.state = "used"
        BY <2>3, CodeRow
    <2>5. code' = [first EXCEPT ![old] = row]
        BY <1>4, Zenon DEF SetEmail
    <2>6. Later(first) /\ first[c].state = "used"
        BY <1>2
    <2> HIDE DEF row, first
    <2> QED
        BY <1>1, <2>1, <2>2, <2>4, <2>5, <2>6 DEF Later
<1> QED
    BY <1>3, <1>4

LEMMA SetEmailInv ==
    ASSUME IdentityInv, NEW u \in DOMAIN account, NEW email \in Emails, NEW c, NEW old,
           SetEmail(u, email, c, old)
    PROVE  IdentityInv'
<1> DEFINE pending == account[u].status # "ACTIVE"
<1>1. EmailFree(email, u) /\ EmailChanged(u, email, pending)
    BY DEF SetEmail
<1>2. pending \/ u \notin Applicants
    BY DEF Applicants, Pending
<1>3. Edited(u, account[u].name, email)
    BY <1>1, <1>2, EmailEdited
<1>4. /\ Later(code') /\ c \in DOMAIN code /\ code[c].state = "open"
      /\ code'[c].state = "used"
    BY SetEmailCodes
<1>5. UNCHANGED <<number, pendingNum, request, registering, clearing, reviewed, surprised>>
    BY DEF SetEmail
<1>6. proofs' = With(proofs, c, IF c \in DOMAIN proofs THEN proofs[c] + 1 ELSE 1)
    BY DEF SetEmail
<1>7. Spent'
    BY <1>4, <1>6, SpentProven DEF IdentityInv
<1>8. Rows' /\ Numbered' /\ RequestsCurrent' /\ Named' /\ Watched'
    BY <1>1, <1>3, <1>4, <1>5, EditedInv
<1> QED
    BY <1>7, <1>8 DEF IdentityInv

LEMMA FinishClearingInv ==
    ASSUME IdentityInv, NEW u \in DOMAIN clearing, NEW old, FinishClearing(u, old)
    PROVE  IdentityInv'
<1>1. u \in DOMAIN account /\ (clearing[u].pending \/ u \notin Applicants)
    BY DEF IdentityInv, Watched
<1>2. EmailChanged(u, NoEmail, clearing[u].pending)
    BY DEF FinishClearing
<1>3. Edited(u, account[u].name, NoEmail)
    BY <1>1, <1>2, EmailEdited
<1>4. rules.mail => old \in DOMAIN code
    BY VerifiedFacts DEF FinishClearing, MayClear, OldProof
<1>5. code' = IF rules.mail THEN Consumed(old) ELSE code
    BY DEF FinishClearing
<1>6. Later(code')
    BY <1>4, <1>5, ConsumedLater DEF Later, IdentityInv, Rows
<1>7. clearing' = Without(clearing, {u})
    BY DEF FinishClearing
<1>8. /\ DOMAIN clearing' \subseteq DOMAIN clearing
      /\ \A v \in DOMAIN clearing' : clearing'[v] = clearing[v]
    BY <1>7 DEF Without
<1>9. UNCHANGED <<number, pendingNum, request, registering, reviewed, proofs, surprised>>
    BY DEF FinishClearing
<1>10. Rows' /\ Numbered' /\ RequestsCurrent' /\ Named' /\ Watched'
    BY <1>1, <1>3, <1>6, <1>8, <1>9, EditedInv
<1>11. Spent'
    BY <1>6, <1>9, SpentLater DEF IdentityInv
<1> QED
    BY <1>10, <1>11 DEF IdentityInv

-----------------------------------------------------------------------------
(* Claims to numbers *)

\* A number that is checked before an account takes it is claimed by no other.
LEMMA FreeFacts ==
    ASSUME Rows, Numbered, NEW n, NEW u, NEW v, NumberFree(n, u, v)
    PROVE  /\ n \notin DOMAIN number
           /\ \A w \in DOMAIN pendingNum : w # u => pendingNum[w] # n
           /\ \A w \in DOMAIN request : w # v => request[w].requested # n
BY DEF NumberFree

\* Nobody is called NoUser.
LEMMA NobodyIs ==
    ASSUME Rows, Numbered
    PROVE  NoUser \notin DOMAIN pendingNum /\ NoUser \notin DOMAIN request
BY Sentinels DEF Rows, Numbered, Applicants, Actives

\* One account's request, if any, is the only thing that changes.
LEMMA RequestsKept ==
    ASSUME RequestsCurrent, DOMAIN request' \subseteq DOMAIN request,
           \A w \in DOMAIN request' :
              /\ request'[w] = request[w] /\ account'[w].status = account[w].status
              /\ Held(w)' = Held(w)
    PROVE  RequestsCurrent'
<1>1. \A w \in DOMAIN request' : Numbering(w)' = Numbering(w)
    BY DEF Numbering
<1> QED
    BY <1>1 DEF RequestsCurrent

LEMMA EditApplicationInv ==
    ASSUME IdentityInv, NEW u \in DOMAIN account, NEW n \in Numbers, EditApplication(u, n)
    PROVE  IdentityInv'
<1>1. u \in Applicants
    BY DEF EditApplication, Editable, Applicants
<1>2. Becomes(u, "PENDING_APPROVAL", account[u].name, account[u].email, account[u].revision + 1)
    BY ResubmittedBecomes DEF EditApplication, IdentityInv
<1>3. /\ Applicants' = Applicants /\ Actives' = Actives /\ Holders' = Holders
      /\ DOMAIN account' = DOMAIN account
      /\ \A v \in DOMAIN account' : account'[v] \in Account
      /\ \A v \in Applicants : \/ account'[v].revision = account[v].revision + 1
                               \/ v # u /\ account'[v] = account[v]
    BY <1>1, <1>2, EditedKeeps DEF Edited
<1>4. pendingNum' = With(pendingNum, u, n)
    BY DEF EditApplication
<1>5. u \in DOMAIN pendingNum
    BY <1>1 DEF IdentityInv, Numbered
<1>6. /\ DOMAIN pendingNum' = DOMAIN pendingNum /\ pendingNum'[u] = n
      /\ \A v \in DOMAIN pendingNum : v # u => pendingNum'[v] = pendingNum[v]
    BY <1>4, <1>5 DEF With
<1>7. /\ n \notin DOMAIN number
      /\ \A w \in DOMAIN pendingNum : w # u => pendingNum[w] # n
      /\ \A w \in DOMAIN request : request[w].requested # n
    <2>1. CASE n = pendingNum[u]
        BY <1>5, <2>1 DEF IdentityInv, Numbered
    <2>2. CASE NumberFree(n, u, NoUser)
        BY <2>2, FreeFacts, NobodyIs DEF IdentityInv
    <2> QED
        BY <2>1, <2>2 DEF EditApplication
<1>8. UNCHANGED <<number, request, code, registering, clearing, reviewed, proofs, surprised>>
    BY DEF EditApplication
<1>9. Rows'
    BY <1>3, <1>6, <1>8 DEF IdentityInv, Rows
<1>10. \A w : Held(w)' = Held(w)
    BY <1>8 DEF Held
<1>11. Numbered'
    BY <1>3, <1>6, <1>7, <1>8, <1>10 DEF IdentityInv, Numbered
<1>12. RequestsCurrent'
    <2>1. \A w \in DOMAIN request : w \in Actives
        BY DEF IdentityInv, Numbered
    <2>2. \A w \in DOMAIN request : account'[w].status = account[w].status
        BY <1>3, <2>1 DEF Actives
    <2> QED
        BY <1>8, <1>10, <2>2, RequestsKept DEF IdentityInv
<1>13. Named'
    BY <1>2, NamedOfBecomes DEF IdentityInv
<1>14. \A v \in Applicants :
         \/ account'[v].revision = account[v].revision + 1
         \/ account'[v].revision = account[v].revision /\ Application(v)' = Application(v)
    BY <1>3, <1>6 DEF Application, IdentityInv, Numbered
<1>15. Watched'
    BY <1>3, <1>8, <1>14, WatchedKept DEF IdentityInv
<1>16. Spent'
    BY <1>8 DEF IdentityInv, Spent
<1> QED
    BY <1>9, <1>11, <1>12, <1>13, <1>15, <1>16 DEF IdentityInv

LEMMA RequestProfileChangeInv ==
    ASSUME IdentityInv, NEW u \in DOMAIN account, NEW n \in Numbers, RequestProfileChange(u, n)
    PROVE  IdentityInv'
<1> DEFINE row == [current |-> Numbering(u), requested |-> n]
<1>1. u \in Actives /\ u \in Holders
    BY DEF RequestProfileChange, Actives, Holders
<1>2. request' = With(request, u, row) /\ row.current = Numbering(u) /\ row.requested = n
    BY DEF RequestProfileChange
<1> HIDE DEF row
<1>3. /\ DOMAIN request' = DOMAIN request \cup {u} /\ request'[u] = row
      /\ \A v \in DOMAIN request : v # u => request'[v] = request[v]
    BY <1>2 DEF With
<1>4. /\ n \in DOMAIN number => number[n].user = u
      /\ \A w \in DOMAIN pendingNum : pendingNum[w] # n
      /\ \A w \in DOMAIN request : w # u => request[w].requested # n
    <2>1. CASE n = Numbering(u)
        BY <1>1, <2>1, NumberingFacts DEF IdentityInv, Numbered
    <2>2. CASE NumberFree(n, NoUser, NoUser)
        BY <2>2, FreeFacts, NobodyIs DEF IdentityInv
    <2> QED
        BY <2>1, <2>2 DEF RequestProfileChange
<1>5. UNCHANGED <<account, number, pendingNum, code, registering, clearing, reviewed, proofs,
                  surprised>>
    BY DEF RequestProfileChange
<1>6. Applicants' = Applicants /\ Actives' = Actives /\ Holders' = Holders
    BY <1>5 DEF Applicants, Actives, Holders
<1>7. \A w : Held(w)' = Held(w) /\ Numbering(w)' = Numbering(w)
    BY <1>5 DEF Held, Numbering
<1>8. Rows'
    BY <1>2, <1>3, <1>5 DEF IdentityInv, Rows
<1>9. Numbered'
    BY <1>1, <1>2, <1>3, <1>4, <1>5, <1>6, <1>7 DEF IdentityInv, Numbered
<1>10. RequestsCurrent'
    BY <1>1, <1>2, <1>3, <1>5, <1>7 DEF IdentityInv, RequestsCurrent, Actives
<1>11. Named' /\ Spent'
    BY <1>5 DEF IdentityInv, Named, Spent
<1>12. Watched'
    BY <1>5, <1>6 DEF IdentityInv, Watched, Application
<1> QED
    BY <1>8, <1>9, <1>10, <1>11, <1>12 DEF IdentityInv

LEMMA EndRequestInv ==
    ASSUME IdentityInv, NEW u, EndRequest(u)
    PROVE  IdentityInv'
<1>1. request' = Without(request, {u})
    BY DEF EndRequest
<1>2. /\ DOMAIN request' = DOMAIN request \ {u}
      /\ \A v \in DOMAIN request' : request'[v] = request[v]
    BY <1>1 DEF Without
<1>3. UNCHANGED <<account, number, pendingNum, code, registering, clearing, reviewed, proofs,
                  surprised>>
    BY DEF EndRequest
<1>4. Applicants' = Applicants /\ Actives' = Actives /\ Holders' = Holders
    BY <1>3 DEF Applicants, Actives, Holders
<1>5. \A w : Held(w)' = Held(w)
    BY <1>3 DEF Held
<1>6. Rows'
    BY <1>2, <1>3 DEF IdentityInv, Rows
<1>7. Numbered'
    BY <1>2, <1>3, <1>4, <1>5 DEF IdentityInv, Numbered
<1>8. RequestsCurrent'
    BY <1>2, <1>3, <1>5, RequestsKept DEF IdentityInv
<1>9. Named' /\ Spent'
    BY <1>3 DEF IdentityInv, Named, Spent
<1>10. Watched'
    BY <1>3, <1>4 DEF IdentityInv, Watched, Application
<1> QED
    BY <1>6, <1>7, <1>8, <1>9, <1>10 DEF IdentityInv

\* Another status, without a change of claims
LEMMA StatusInv ==
    ASSUME IdentityInv, NEW u \in DOMAIN account,
           NEW status \in Pending \cup {"ACTIVE", "DISABLED", "DELETED"},
           Becomes(u, status, account[u].name, account[u].email, account[u].revision)
    PROVE  /\ DOMAIN account' = DOMAIN account /\ DOMAIN account' \subseteq Users
           /\ \A v \in DOMAIN account' : account'[v] \in Account
           /\ Applicants' = IF status \in Pending THEN Applicants \cup {u} ELSE Applicants \ {u}
           /\ Actives' = IF status = "ACTIVE" THEN Actives \cup {u} ELSE Actives \ {u}
           /\ Holders' = IF status \in {"ACTIVE", "DISABLED"} THEN Holders \cup {u}
                         ELSE Holders \ {u}
           /\ \A v \in DOMAIN account : /\ account'[v].revision = account[v].revision
                                        /\ account'[v].name = account[v].name
                                        /\ account'[v].email = account[v].email
           /\ Named'
<1>1. Named'
    BY NamedOfBecomes DEF IdentityInv
<1>2. /\ DOMAIN account' = DOMAIN account /\ DOMAIN account' \subseteq Users
      /\ \A v \in DOMAIN account' : account'[v] \in Account
    BY RowsOfBecomes DEF IdentityInv, Becomes
<1>3. \A v \in DOMAIN account : /\ account'[v].revision = account[v].revision
                                /\ account'[v].name = account[v].name
                                /\ account'[v].email = account[v].email
    BY DEF Becomes
<1> QED
    BY <1>1, <1>2, <1>3, Statuses

LEMMA ReturnInv ==
    ASSUME IdentityInv, NEW u \in DOMAIN account, NEW overwrite, Return(u, overwrite)
    PROVE  IdentityInv'
<1>1. u \in Applicants /\ u \notin Actives /\ u \notin Holders
    BY DEF Return, Applicants, Actives, Holders, Pending
<1> DEFINE status == "CHANGES_REQUESTED"
<1>2. /\ Becomes(u, status, account[u].name, account[u].email, account[u].revision)
      /\ status \in Pending /\ status = "CHANGES_REQUESTED"
    <2>1. Rows /\ account' = [account EXCEPT ![u].status = status]
        BY DEF Return, IdentityInv
    <2>2. /\ status \in Pending \cup {"ACTIVE", "DISABLED", "DELETED"}
          /\ status \in Pending /\ status = "CHANGES_REQUESTED"
        BY DEF Pending
    <2> QED
        BY <2>1, <2>2, StatusBecomes, Zenon
<1> HIDE DEF status
<1>3. /\ DOMAIN account' = DOMAIN account /\ DOMAIN account' \subseteq Users
      /\ \A v \in DOMAIN account' : account'[v] \in Account
      /\ Applicants' = Applicants /\ Actives' = Actives /\ Holders' = Holders
      /\ \A v \in DOMAIN account : /\ account'[v].revision = account[v].revision
                                   /\ account'[v].name = account[v].name
                                   /\ account'[v].email = account[v].email
      /\ Named'
    <2>1. Applicants' = Applicants \cup {u} /\ Actives' = Actives \ {u}
        BY <1>2, StatusInv
    <2>2. Holders' = Holders \ {u} /\ Named'
        BY <1>2, StatusInv
    <2>3. /\ DOMAIN account' = DOMAIN account /\ DOMAIN account' \subseteq Users
          /\ \A v \in DOMAIN account' : account'[v] \in Account
        BY <1>2, StatusInv
    <2>4. \A v \in DOMAIN account : /\ account'[v].revision = account[v].revision
                                    /\ account'[v].name = account[v].name
                                    /\ account'[v].email = account[v].email
        BY <1>2, StatusInv
    <2> QED
        BY <1>1, <2>1, <2>2, <2>3, <2>4
<1>4. UNCHANGED <<number, pendingNum, request, code, registering, clearing, reviewed, proofs,
                  surprised>>
    BY DEF Return
<1>5. Numbered' /\ RequestsCurrent'
    BY <1>3, <1>4, NumberedKept DEF IdentityInv
<1>6. Rows' /\ Spent'
    BY <1>3, <1>4 DEF IdentityInv, Rows, Spent
<1>7. \A v \in Applicants : Application(v)' = Application(v)
    BY <1>3, <1>4 DEF Application, Applicants
<1>8. Watched'
    BY <1>3, <1>4, <1>7, WatchedKept DEF IdentityInv, Applicants
<1> QED
    BY <1>3, <1>5, <1>6, <1>8 DEF IdentityInv

LEMMA EnableInv ==
    ASSUME IdentityInv, NEW u \in DOMAIN account, Enable(u)
    PROVE  IdentityInv'
<1>1. u \notin Applicants /\ u \notin Actives /\ u \in Holders
    BY DEF Enable, Applicants, Actives, Holders, Pending
<1> DEFINE status == "ACTIVE"
<1>2. /\ Becomes(u, status, account[u].name, account[u].email, account[u].revision)
      /\ status \notin Pending /\ status = "ACTIVE"
    <2>1. Rows /\ account' = [account EXCEPT ![u].status = status]
        BY DEF Enable, IdentityInv
    <2>2. /\ status \in Pending \cup {"ACTIVE", "DISABLED", "DELETED"}
          /\ status \notin Pending /\ status = "ACTIVE"
        BY DEF Pending
    <2> QED
        BY <2>1, <2>2, StatusBecomes, Zenon
<1> HIDE DEF status
<1>3. /\ DOMAIN account' = DOMAIN account /\ DOMAIN account' \subseteq Users
      /\ \A v \in DOMAIN account' : account'[v] \in Account
      /\ Applicants' = Applicants /\ Actives' = Actives \cup {u} /\ Holders' = Holders
      /\ \A v \in DOMAIN account : /\ account'[v].revision = account[v].revision
                                   /\ account'[v].name = account[v].name
                                   /\ account'[v].email = account[v].email
      /\ Named'
    <2>1. Applicants' = Applicants \ {u} /\ Actives' = Actives \cup {u}
        BY <1>2, StatusInv
    <2>2. Holders' = Holders \cup {u} /\ Named'
        BY <1>2, StatusInv
    <2>3. /\ DOMAIN account' = DOMAIN account /\ DOMAIN account' \subseteq Users
          /\ \A v \in DOMAIN account' : account'[v] \in Account
        BY <1>2, StatusInv
    <2>4. \A v \in DOMAIN account : /\ account'[v].revision = account[v].revision
                                    /\ account'[v].name = account[v].name
                                    /\ account'[v].email = account[v].email
        BY <1>2, StatusInv
    <2> QED
        BY <1>1, <2>1, <2>2, <2>3, <2>4
<1>4. UNCHANGED <<number, pendingNum, request, code, registering, clearing, reviewed, proofs,
                  surprised>>
    BY DEF Enable
<1>5. \A w : Held(w)' = Held(w)
    BY <1>4 DEF Held
<1>6. Numbered'
    BY <1>3, <1>4, <1>5 DEF IdentityInv, Numbered
<1>7. RequestsCurrent'
    <2>1. \A w \in DOMAIN request : w \in Actives' /\ w \in Actives
        BY <1>3 DEF IdentityInv, Numbered
    <2>2. \A w \in DOMAIN request : account'[w].status = account[w].status
        BY <2>1 DEF Actives
    <2> QED
        BY <1>4, <1>5, <2>2, RequestsKept DEF IdentityInv
<1>8. Rows' /\ Spent'
    BY <1>3, <1>4 DEF IdentityInv, Rows, Spent
<1>9. \A v \in Applicants : Application(v)' = Application(v)
    BY <1>3, <1>4 DEF Application, Applicants
<1>10. Watched'
    BY <1>3, <1>4, <1>9, WatchedKept DEF IdentityInv, Applicants
<1> QED
    BY <1>3, <1>6, <1>7, <1>8, <1>10 DEF IdentityInv

\* Only an active account has a request, and its own request goes with it.
LEMMA DisableInv ==
    ASSUME IdentityInv, NEW u \in DOMAIN account, Disable(u)
    PROVE  IdentityInv'
<1>1. u \notin Applicants /\ u \in Actives /\ u \in Holders
    BY DEF Disable, Applicants, Actives, Holders, Pending
<1> DEFINE status == "DISABLED"
<1>2. /\ Becomes(u, status, account[u].name, account[u].email, account[u].revision)
      /\ status \notin Pending /\ status = "DISABLED"
    <2>1. Rows /\ account' = [account EXCEPT ![u].status = status]
        BY DEF Disable, IdentityInv
    <2>2. /\ status \in Pending \cup {"ACTIVE", "DISABLED", "DELETED"}
          /\ status \notin Pending /\ status = "DISABLED"
        BY DEF Pending
    <2> QED
        BY <2>1, <2>2, StatusBecomes, Zenon
<1> HIDE DEF status
<1>3. /\ DOMAIN account' = DOMAIN account /\ DOMAIN account' \subseteq Users
      /\ \A v \in DOMAIN account' : account'[v] \in Account
      /\ Applicants' = Applicants /\ Actives' = Actives \ {u} /\ Holders' = Holders
      /\ \A v \in DOMAIN account : /\ account'[v].revision = account[v].revision
                                   /\ account'[v].name = account[v].name
                                   /\ account'[v].email = account[v].email
      /\ Named'
    <2>1. Applicants' = Applicants \ {u} /\ Actives' = Actives \ {u}
        BY <1>2, StatusInv
    <2>2. Holders' = Holders \cup {u} /\ Named'
        BY <1>2, StatusInv
    <2>3. /\ DOMAIN account' = DOMAIN account /\ DOMAIN account' \subseteq Users
          /\ \A v \in DOMAIN account' : account'[v] \in Account
        BY <1>2, StatusInv
    <2>4. \A v \in DOMAIN account : /\ account'[v].revision = account[v].revision
                                    /\ account'[v].name = account[v].name
                                    /\ account'[v].email = account[v].email
        BY <1>2, StatusInv
    <2> QED
        BY <1>1, <2>1, <2>2, <2>3, <2>4
<1>4. UNCHANGED <<number, pendingNum, code, registering, clearing, reviewed, proofs,
                  surprised>>
    BY DEF Disable
<1>5. request' = Without(request, {u})
    BY DEF Disable, Cancelled
<1>6. /\ DOMAIN request' = DOMAIN request \ {u}
      /\ \A v \in DOMAIN request' : request'[v] = request[v]
    BY <1>5 DEF Without
<1>7. \A w : Held(w)' = Held(w)
    BY <1>4 DEF Held
<1>8. Numbered'
    BY <1>3, <1>4, <1>6, <1>7 DEF IdentityInv, Numbered
<1>9. RequestsCurrent'
    <2>1. \A w \in DOMAIN request' : w \in Actives' /\ w \in Actives
        BY <1>3, <1>6 DEF IdentityInv, Numbered
    <2>2. \A w \in DOMAIN request' : account'[w].status = account[w].status
        BY <2>1 DEF Actives
    <2> QED
        BY <1>6, <1>7, <2>2, RequestsKept DEF IdentityInv
<1>10. Rows' /\ Spent'
    BY <1>3, <1>4, <1>6 DEF IdentityInv, Rows, Spent
<1>11. \A v \in Applicants : Application(v)' = Application(v)
    BY <1>3, <1>4 DEF Application, Applicants
<1>12. Watched'
    BY <1>3, <1>4, <1>11, WatchedKept DEF IdentityInv, Applicants
<1> QED
    BY <1>3, <1>8, <1>9, <1>10, <1>12 DEF IdentityInv

-----------------------------------------------------------------------------
(* Numbers given and taken back *)

\* A holder's number becomes another, or stays: no other account's number changes.
LEMMA RenumberedFacts ==
    ASSUME Rows, Numbered, NEW u \in Holders, NEW n \in Numbers,
           n = Numbering(u) \/ n \notin DOMAIN number, number' = Renumbered(u, n)
    PROVE  /\ DOMAIN number' = DOMAIN number \cup {n} /\ number'[n].user = u
           /\ \A x \in DOMAIN number : number'[x].user = number[x].user
           /\ \A x \in DOMAIN number' : number'[x] \in Owner
           /\ Held(u)' = {n}
           /\ \A w : w # u => Held(w)' = Held(w)
<1> DEFINE old == Numbering(u)
           row == [number[old] EXCEPT !.active = FALSE]
           new == [user |-> u, active |-> TRUE]
<1>1. /\ Held(u) = {old} /\ old \in Numbers /\ old \in DOMAIN number
      /\ number[old].user = u /\ number[old].active
    BY NumberingFacts
<1>2. u \in Users /\ \A x \in DOMAIN number : number[x] \in Owner
    BY DEF Rows, Holders
<1>3. row \in Owner /\ row.user = u /\ ~row.active
    BY <1>1, <1>2 DEF Owner
<1>4. new \in Owner /\ new.user = u /\ new.active
    BY <1>2 DEF Owner
<1>5. number' = IF n = old THEN number ELSE With([number EXCEPT ![old] = row], n, new)
    BY Zenon DEF Renumbered
<1> HIDE DEF old, row, new
<1>6. CASE n = old
    <2>1. number' = number
        BY <1>5, <1>6
    <2>2. \A w : Held(w)' = Held(w)
        BY <2>1 DEF Held
    <2> QED
        BY <1>1, <1>2, <1>6, <2>1, <2>2
<1>7. CASE n # old
    <2>1. n \notin DOMAIN number
        BY <1>7 DEF old
    <2>2. /\ DOMAIN number' = DOMAIN number \cup {n} /\ number'[n] = new /\ number'[old] = row
          /\ \A x \in DOMAIN number : x # old => number'[x] = number[x]
        BY <1>1, <1>5, <1>7, <2>1 DEF With
    <2>3. Held(u)' = {n}
        BY <1>1, <1>3, <1>4, <2>1, <2>2 DEF Held
    <2>4. \A w : w # u => Held(w)' = Held(w)
        BY <1>1, <1>3, <1>4, <2>1, <2>2 DEF Held
    <2> QED
        BY <1>1, <1>2, <1>3, <1>4, <2>1, <2>2, <2>3, <2>4
<1> QED
    BY <1>6, <1>7

\* A number that nobody else claims becomes a holder's who asks for it or for nothing.
LEMMA RenumberedInv ==
    ASSUME IdentityInv, NEW u \in Holders, NEW n \in Numbers,
           n = Numbering(u) \/ NumberFree(n, NoUser, u), number' = Renumbered(u, n),
           UNCHANGED <<account, pendingNum, code, registering, clearing, reviewed, proofs,
                       surprised>>,
           DOMAIN request' = DOMAIN request \ {u},
           \A v \in DOMAIN request' : request'[v] = request[v]
    PROVE  IdentityInv'
<1>1. /\ n \in DOMAIN number => number[n].user = u
      /\ \A w \in DOMAIN pendingNum : pendingNum[w] # n
      /\ \A w \in DOMAIN request : w # u => request[w].requested # n
    <2>1. CASE n = Numbering(u)
        BY <2>1, NumberingFacts DEF IdentityInv, Numbered
    <2>2. CASE NumberFree(n, NoUser, u)
        BY <2>2, FreeFacts, NobodyIs DEF IdentityInv
    <2> QED
        BY <2>1, <2>2
<1>2. n = Numbering(u) \/ n \notin DOMAIN number
    BY DEF NumberFree
<1>3. /\ DOMAIN number' = DOMAIN number \cup {n} /\ number'[n].user = u
      /\ \A x \in DOMAIN number : number'[x].user = number[x].user
      /\ \A x \in DOMAIN number' : number'[x] \in Owner
      /\ Held(u)' = {n}
      /\ \A w : w # u => Held(w)' = Held(w)
    BY <1>2, RenumberedFacts DEF IdentityInv
<1>4. Applicants' = Applicants /\ Actives' = Actives /\ Holders' = Holders
    BY DEF Applicants, Actives, Holders
<1>5. Rows'
    BY <1>3 DEF IdentityInv, Rows
<1>6. Numbered'
    BY <1>1, <1>3, <1>4 DEF IdentityInv, Numbered
<1>7. RequestsCurrent'
    BY <1>3, RequestsKept DEF IdentityInv
<1>8. Named' /\ Spent'
    BY DEF IdentityInv, Named, Spent
<1>9. Watched'
    BY <1>4 DEF IdentityInv, Watched, Application
<1> QED
    BY <1>5, <1>6, <1>7, <1>8, <1>9 DEF IdentityInv

LEMMA ApproveProfileInv ==
    ASSUME IdentityInv, NEW u \in DOMAIN request, ApproveProfile(u)
    PROVE  IdentityInv'
<1> DEFINE n == request[u].requested
<1>1. n \in Numbers /\ u \in Holders
    BY DEF IdentityInv, Rows, Numbered, Actives, Holders
<1>2. n = Numbering(u) \/ NumberFree(n, NoUser, u)
    BY DEF ApproveProfile
<1>3. number' = Renumbered(u, n) /\ request' = Without(request, {u})
    BY DEF ApproveProfile
<1>4. UNCHANGED <<account, pendingNum, code, registering, clearing, reviewed, proofs, surprised>>
    BY DEF ApproveProfile
<1> HIDE DEF n
<1>5. /\ DOMAIN request' = DOMAIN request \ {u}
      /\ \A v \in DOMAIN request' : request'[v] = request[v]
    BY <1>3 DEF Without
<1> QED
    BY <1>1, <1>2, <1>3, <1>4, <1>5, RenumberedInv

LEMMA UpdateProfileInv ==
    ASSUME IdentityInv, NEW u \in DOMAIN account, NEW n \in Numbers, UpdateProfile(u, n)
    PROVE  IdentityInv'
<1>1. u \in Holders /\ u \notin DOMAIN request
    BY DEF UpdateProfile, Holders
<1>2. n = Numbering(u) \/ NumberFree(n, NoUser, u)
    BY <1>1, NobodyIs DEF UpdateProfile, NumberFree, IdentityInv
<1>3. number' = Renumbered(u, n) /\ request' = request
    BY DEF UpdateProfile
<1>4. UNCHANGED <<account, pendingNum, code, registering, clearing, reviewed, proofs, surprised>>
    BY DEF UpdateProfile
<1> QED
    BY <1>1, <1>2, <1>3, <1>4, RenumberedInv

\* Approval turns the application's number into the account's, as it was on screen.
LEMMA ApproveInv ==
    ASSUME IdentityInv, NEW u \in DOMAIN account, NEW overwrite, Approve(u, overwrite)
    PROVE  IdentityInv'
<1> DEFINE n == pendingNum[u]
           owner == [user |-> u, active |-> TRUE]
           status == "ACTIVE"
<1>1. u \in Applicants /\ u \notin Actives /\ u \notin Holders /\ u \in Users
    BY DEF Approve, Applicants, Actives, Holders, Pending, IdentityInv, Rows
<1>2. Becomes(u, status, account[u].name, account[u].email, account[u].revision)
    <2>1. Rows /\ account' = [account EXCEPT ![u].status = status]
        BY DEF Approve, IdentityInv
    <2>2. status \in Pending \cup {"ACTIVE", "DISABLED", "DELETED"}
        OBVIOUS
    <2> QED
        BY <2>1, <2>2, StatusBecomes, Zenon
<1>3. u \in DOMAIN pendingNum /\ n \in Numbers /\ n \notin DOMAIN number
    BY <1>1 DEF IdentityInv, Numbered, Rows
<1>4. /\ number' = With(number, n, owner) /\ pendingNum' = Without(pendingNum, {u})
      /\ reviewed' = Without(reviewed, {u})
      /\ UNCHANGED <<request, code, registering, clearing, proofs>>
    BY DEF Approve
<1>5. status \notin Pending /\ status = "ACTIVE"
    BY DEF Pending
<1>6. owner \in Owner /\ owner.user = u /\ owner.active
    BY <1>1 DEF Owner
<1>7. ~surprised'
    <2>1. overwrite \/ reviewed[u] = Application(u)
        BY DEF Approve, AsReviewed, IdentityInv, Watched
    <2>2. surprised' = (surprised \/ (~overwrite /\ reviewed[u] # Application(u)))
        BY Zenon DEF Approve
    <2>3. ~surprised
        BY DEF IdentityInv, Watched
    <2> QED
        BY <2>1, <2>2, <2>3, Zenon
<1> HIDE DEF status, owner
<1>8. /\ Applicants' = Applicants \ {u} /\ Actives' = Actives \cup {u}
      /\ Holders' = Holders \cup {u}
    BY <1>2, <1>5, Statuses
<1>9. /\ DOMAIN account' = DOMAIN account /\ DOMAIN account' \subseteq Users
      /\ \A v \in DOMAIN account' : account'[v] \in Account
      /\ \A v \in DOMAIN account : v # u => account'[v] = account[v]
    BY <1>2, RowsOfBecomes DEF IdentityInv, Becomes
<1>10. Named'
    BY <1>2, NamedOfBecomes DEF IdentityInv
<1>11. /\ DOMAIN number' = DOMAIN number \cup {n} /\ number'[n] = owner
       /\ \A x \in DOMAIN number : number'[x] = number[x]
    BY <1>3, <1>4 DEF With
<1>12. /\ DOMAIN pendingNum' = DOMAIN pendingNum \ {u}
       /\ \A v \in DOMAIN pendingNum' : pendingNum'[v] = pendingNum[v]
       /\ DOMAIN reviewed' = DOMAIN reviewed \ {u}
       /\ \A v \in DOMAIN reviewed' : reviewed'[v] = reviewed[v]
    BY <1>4 DEF Without
<1>13. \A x \in DOMAIN number : number[x].user # u
    BY <1>1 DEF IdentityInv, Numbered
<1>14. Held(u)' = {n} /\ \A w : w # u => Held(w)' = Held(w)
    BY <1>3, <1>6, <1>11, <1>13 DEF Held
<1>15. /\ \A w \in DOMAIN pendingNum : w # u => pendingNum[w] # n
       /\ \A w \in DOMAIN request : request[w].requested # n /\ w # u
    BY <1>1, <1>3 DEF IdentityInv, Numbered
<1>16. Rows'
    BY <1>3, <1>4, <1>6, <1>9, <1>11, <1>12, SMTT(60) DEF IdentityInv, Rows
<1> HIDE DEF n
<1>17. Numbered'
    <2>1. DOMAIN pendingNum' = Applicants' /\ DOMAIN request' \subseteq Actives'
        BY <1>1, <1>3, <1>4, <1>8, <1>12 DEF IdentityInv, Numbered
    <2>2. /\ \A v \in DOMAIN pendingNum' : pendingNum'[v] \notin DOMAIN number'
          /\ \A v, w \in DOMAIN pendingNum' : pendingNum'[v] = pendingNum'[w] => v = w
        BY <1>11, <1>12, <1>15 DEF IdentityInv, Numbered
    <2>3. \A v \in DOMAIN request' : request'[v].requested \in DOMAIN number'
                                      => number'[request'[v].requested].user = v
        BY <1>4, <1>11, <1>12, <1>15 DEF IdentityInv, Numbered
    <2>4. \A v \in DOMAIN request', w \in DOMAIN pendingNum' :
             request'[v].requested # pendingNum'[w]
        <3>1. \A v \in DOMAIN request, w \in DOMAIN pendingNum :
                 request[v].requested # pendingNum[w]
            BY DEF IdentityInv, Numbered
        <3>2. request' = request
            BY <1>4
        <3> QED
            BY <1>12, <3>1, <3>2
    <2>5. \A v, w \in DOMAIN request' : request'[v].requested = request'[w].requested => v = w
        BY <1>4, <1>11, <1>12, <1>15 DEF IdentityInv, Numbered
    <2>6. \A x \in DOMAIN number' : number'[x].user \in Holders'
        BY <1>6, <1>8, <1>11 DEF IdentityInv, Numbered
    <2>7. \A v \in Holders' : \E x \in Numbers : Held(v)' = {x}
        BY <1>3, <1>8, <1>14 DEF IdentityInv, Numbered
    <2> QED
        BY <2>1, <2>2, <2>3, <2>4, <2>5, <2>6, <2>7 DEF Numbered
<1>18. RequestsCurrent'
    <2>1. \A w \in DOMAIN request : w # u /\ w \in DOMAIN account
        BY <1>1 DEF IdentityInv, Numbered, Actives
    <2> QED
        BY <1>4, <1>9, <1>14, <2>1, RequestsKept DEF IdentityInv
<1>19. Spent'
    BY <1>4 DEF IdentityInv, Spent
<1>20. \A v \in DOMAIN reviewed' : Application(v)' = Application(v)
    BY <1>1, <1>8, <1>9, <1>12 DEF Application, IdentityInv, Watched, Numbered, Applicants
<1>21. Watched'
    <2>1. DOMAIN reviewed' \subseteq Applicants'
        BY <1>8, <1>12 DEF IdentityInv, Watched
    <2>2. \A v \in DOMAIN reviewed' : account'[v] = account[v] /\ reviewed'[v] = reviewed[v]
        BY <1>8, <1>9, <1>12 DEF IdentityInv, Watched, Applicants
    <2>3. \A v \in DOMAIN reviewed' :
             /\ reviewed'[v].revision \in Nat /\ reviewed'[v].revision <= account'[v].revision
             /\ reviewed'[v].revision = account'[v].revision => reviewed'[v] = Application(v)'
        BY <1>12, <1>20, <2>2 DEF IdentityInv, Watched
    <2>4. /\ DOMAIN clearing' \subseteq DOMAIN account'
          /\ \A v \in DOMAIN clearing' : clearing'[v].pending \/ v \notin Applicants'
        BY <1>4, <1>8, <1>9 DEF IdentityInv, Watched
    <2> QED
        BY <1>7, <2>1, <2>2, <2>3, <2>4 DEF IdentityInv, Watched
<1> QED
    BY <1>10, <1>16, <1>17, <1>18, <1>19, <1>21 DEF IdentityInv

\* A rejected application leaves nothing behind.
LEMMA RejectInv ==
    ASSUME IdentityInv, NEW u \in DOMAIN account, NEW overwrite, Reject(u, overwrite)
    PROVE  IdentityInv'
<1>1. u \in Applicants /\ u \notin Actives /\ u \notin Holders
    BY DEF Reject, Applicants, Actives, Holders, Pending
<1>2. /\ account' = Without(account, {u}) /\ pendingNum' = Without(pendingNum, {u})
      /\ reviewed' = Without(reviewed, {u}) /\ clearing' = Without(clearing, {u})
      /\ UNCHANGED <<number, request, registering, proofs, surprised>>
    BY DEF Reject
<1>3. Later(code')
    BY DeadLater DEF Reject, IdentityInv
<1>4. /\ DOMAIN account' = DOMAIN account \ {u}
      /\ \A v \in DOMAIN account' : account'[v] = account[v]
      /\ DOMAIN pendingNum' = DOMAIN pendingNum \ {u}
      /\ \A v \in DOMAIN pendingNum' : pendingNum'[v] = pendingNum[v]
    BY <1>2 DEF Without
<1>5. /\ DOMAIN reviewed' = DOMAIN reviewed \ {u}
      /\ \A v \in DOMAIN reviewed' : reviewed'[v] = reviewed[v]
      /\ DOMAIN clearing' = DOMAIN clearing \ {u}
      /\ \A v \in DOMAIN clearing' : clearing'[v] = clearing[v]
    BY <1>2 DEF Without
<1>6. Applicants' = Applicants \ {u} /\ Actives' = Actives /\ Holders' = Holders
    BY <1>1, <1>4 DEF Applicants, Actives, Holders
<1>7. \A w : Held(w)' = Held(w)
    BY <1>2 DEF Held
<1>8. Rows'
    BY <1>2, <1>3, <1>4 DEF IdentityInv, Rows, Later
<1>9. Numbered'
    <2>1. DOMAIN pendingNum' = Applicants' /\ DOMAIN request' \subseteq Actives'
        BY <1>2, <1>4, <1>6 DEF IdentityInv, Numbered
    <2>2. /\ \A v \in DOMAIN pendingNum' : pendingNum'[v] \notin DOMAIN number'
          /\ \A v, w \in DOMAIN pendingNum' : pendingNum'[v] = pendingNum'[w] => v = w
        BY <1>2, <1>4 DEF IdentityInv, Numbered
    <2>3. \A v \in DOMAIN request' : request'[v].requested \in DOMAIN number'
                                      => number'[request'[v].requested].user = v
        BY <1>2, <1>4 DEF IdentityInv, Numbered
    <2>4. \A v \in DOMAIN request', w \in DOMAIN pendingNum' :
             request'[v].requested # pendingNum'[w]
        <3>1. \A v \in DOMAIN request, w \in DOMAIN pendingNum :
                 request[v].requested # pendingNum[w]
            BY DEF IdentityInv, Numbered
        <3> QED
            BY <1>2, <1>4, <3>1, ZenonT(60)
    <2>5. \A v, w \in DOMAIN request' : request'[v].requested = request'[w].requested => v = w
        BY <1>2, <1>4 DEF IdentityInv, Numbered
    <2>6. \A x \in DOMAIN number' : number'[x].user \in Holders'
        BY <1>2, <1>6 DEF IdentityInv, Numbered
    <2>7. \A v \in Holders' : \E x \in Numbers : Held(v)' = {x}
        BY <1>6, <1>7 DEF IdentityInv, Numbered
    <2> QED
        BY <2>1, <2>2, <2>3, <2>4, <2>5, <2>6, <2>7 DEF Numbered
<1>10. RequestsCurrent'
    <2>1. \A w \in DOMAIN request : w # u /\ w \in DOMAIN account
        BY <1>1 DEF IdentityInv, Numbered, Actives
    <2> QED
        BY <1>2, <1>4, <1>7, <2>1, RequestsKept DEF IdentityInv
<1>11. Named'
    BY <1>4 DEF IdentityInv, Named
<1>12. Spent'
    BY <1>2, <1>3, SpentLater DEF IdentityInv
<1>13. \A v \in DOMAIN reviewed' : Application(v)' = Application(v)
    BY <1>4, <1>5 DEF Application, IdentityInv, Watched, Numbered, Applicants
<1>14. Watched'
    <2>1. DOMAIN reviewed' \subseteq Applicants'
        BY <1>5, <1>6 DEF IdentityInv, Watched
    <2>2. \A v \in DOMAIN reviewed' : account'[v] = account[v] /\ reviewed'[v] = reviewed[v]
        BY <1>4, <1>5, <1>6 DEF IdentityInv, Watched, Applicants
    <2>3. \A v \in DOMAIN reviewed' :
             /\ reviewed'[v].revision \in Nat /\ reviewed'[v].revision <= account'[v].revision
             /\ reviewed'[v].revision = account'[v].revision => reviewed'[v] = Application(v)'
        BY <1>5, <1>13, <2>2 DEF IdentityInv, Watched
    <2>4. /\ DOMAIN clearing' \subseteq DOMAIN account'
          /\ \A v \in DOMAIN clearing' : clearing'[v].pending \/ v \notin Applicants'
        BY <1>4, <1>5, <1>6 DEF IdentityInv, Watched
    <2> QED
        BY <1>2, <2>1, <2>2, <2>3, <2>4 DEF IdentityInv, Watched
<1> QED
    BY <1>8, <1>9, <1>10, <1>11, <1>12, <1>14 DEF IdentityInv

\* A deleted account's numbers, name and address are free again.
LEMMA DeleteInv ==
    ASSUME IdentityInv, NEW u \in DOMAIN account, Delete(u)
    PROVE  IdentityInv'
<1>1. u \notin Applicants /\ u \notin Actives
    BY DEF Delete, Applicants, Actives, Pending
<1> DEFINE status == "DELETED"
<1>2. Becomes(u, status, NoUser, NoEmail, account[u].revision)
    BY DeletedBecomes DEF IdentityInv
<1>3. status \notin Pending /\ status = "DELETED"
    BY DEF Pending
<1> HIDE DEF status
<1>4. Applicants' = Applicants /\ Actives' = Actives /\ Holders' = Holders \ {u}
    <2>1. Applicants' = Applicants \ {u} /\ Actives' = Actives \ {u} /\ Holders' = Holders \ {u}
        BY <1>2, <1>3, Statuses
    <2> QED
        BY <1>1, <2>1
<1>5. /\ DOMAIN account' = DOMAIN account /\ DOMAIN account' \subseteq Users
      /\ \A v \in DOMAIN account' : account'[v] \in Account
      /\ \A v \in DOMAIN account : v # u => account'[v] = account[v]
    BY <1>2, RowsOfBecomes DEF IdentityInv, Becomes
<1>6. Named'
    BY <1>2, NamedOfBecomes DEF IdentityInv
<1>7. /\ UNCHANGED <<pendingNum, registering, clearing, reviewed, proofs, surprised>>
      /\ request' = Without(request, {u}) /\ number' = Released(u)
    BY DEF Delete
<1>8. Later(code')
    BY DeadLater DEF Delete, IdentityInv
<1>9. /\ DOMAIN request' = DOMAIN request
      /\ \A v \in DOMAIN request : request'[v] = request[v]
    BY <1>1, <1>7 DEF Without, IdentityInv, Numbered
<1>10. /\ DOMAIN number' = {n \in DOMAIN number : number[n].user # u}
       /\ \A n \in DOMAIN number' : number'[n] = number[n]
    BY <1>7 DEF Released, Without
<1>11. \A w : w # u => Held(w)' = Held(w)
    BY <1>10 DEF Held
<1>12. Rows'
    BY <1>5, <1>7, <1>8, <1>9, <1>10 DEF IdentityInv, Rows, Later
<1>13. Numbered'
    <2>1. DOMAIN pendingNum' = Applicants' /\ DOMAIN request' \subseteq Actives'
        BY <1>4, <1>7, <1>9 DEF IdentityInv, Numbered
    <2>2. /\ \A v \in DOMAIN pendingNum' : pendingNum'[v] \notin DOMAIN number'
          /\ \A v, w \in DOMAIN pendingNum' : pendingNum'[v] = pendingNum'[w] => v = w
        BY <1>7, <1>10 DEF IdentityInv, Numbered
    <2>3. \A v \in DOMAIN request' : request'[v].requested \in DOMAIN number'
                                      => number'[request'[v].requested].user = v
        <3>1. \A v \in DOMAIN request :
                 request[v].requested \in DOMAIN number => number[request[v].requested].user = v
            BY DEF IdentityInv, Numbered
        <3> QED
            BY <1>7, <1>9, <1>10, <3>1
    <2>4. \A v \in DOMAIN request', w \in DOMAIN pendingNum' :
             request'[v].requested # pendingNum'[w]
        <3>1. \A v \in DOMAIN request, w \in DOMAIN pendingNum :
                 request[v].requested # pendingNum[w]
            BY DEF IdentityInv, Numbered
        <3> QED
            BY <1>7, <1>9, <1>10, <3>1
    <2>5. \A v, w \in DOMAIN request' : request'[v].requested = request'[w].requested => v = w
        BY <1>7, <1>9, <1>10 DEF IdentityInv, Numbered
    <2>6. \A x \in DOMAIN number' : number'[x].user \in Holders'
        BY <1>4, <1>10 DEF IdentityInv, Numbered
    <2>7. \A v \in Holders' : \E x \in Numbers : Held(v)' = {x}
        BY <1>4, <1>11 DEF IdentityInv, Numbered
    <2> QED
        BY <2>1, <2>2, <2>3, <2>4, <2>5, <2>6, <2>7 DEF Numbered
<1>14. RequestsCurrent'
    <2>1. \A w \in DOMAIN request : w # u /\ w \in DOMAIN account
        BY <1>1 DEF IdentityInv, Numbered, Actives
    <2> QED
        BY <1>5, <1>9, <1>11, <2>1, RequestsKept DEF IdentityInv
<1>15. Spent'
    BY <1>7, <1>8, SpentLater DEF IdentityInv
<1>16. \A v \in DOMAIN reviewed : Application(v)' = Application(v)
    BY <1>1, <1>5, <1>7 DEF Application, IdentityInv, Watched, Applicants
<1>17. Watched'
    BY <1>1, <1>4, <1>5, <1>7, <1>16 DEF IdentityInv, Watched, Applicants
<1> QED
    BY <1>6, <1>12, <1>13, <1>14, <1>15, <1>17 DEF IdentityInv

\* What is committed after the password hash is checked once more, so it meets no claim made
\* meanwhile.
LEMMA FinishRegistrationInv ==
    ASSUME IdentityInv, NEW u \in DOMAIN registering, FinishRegistration(u)
    PROVE  IdentityInv'
<1> DEFINE form == registering[u]
           row == [status |-> "PENDING_APPROVAL", name |-> form.name, email |-> form.email,
                   revision |-> 1]
<1>1. u \in Users /\ u \notin DOMAIN account /\ form \in Form
    BY DEF IdentityInv, Rows
<1>2. /\ registering' = Without(registering, {u})
      /\ UNCHANGED <<number, request, clearing, reviewed, surprised>>
    BY DEF FinishRegistration
<1>3. /\ DOMAIN registering' = DOMAIN registering \ {u}
      /\ \A v \in DOMAIN registering' : registering'[v] = registering[v]
    BY <1>2 DEF Without
<1>4. \A w : Held(w)' = Held(w)
    BY <1>2 DEF Held
<1>5. CASE UNCHANGED <<account, pendingNum, code, proofs>>
    <2>1. Numbered' /\ RequestsCurrent' /\ Named' /\ Applicants' = Applicants
        BY <1>2, <1>5, AccountsKept
    <2>2. Rows' /\ Spent'
        BY <1>3, <1>2, <1>5 DEF IdentityInv, Rows, Spent
    <2>3. Watched'
        BY <1>2, <1>5, <2>1 DEF IdentityInv, Watched, Application
    <2> QED
        BY <2>1, <2>2, <2>3 DEF IdentityInv
<1>6. CASE /\ FormAccepted(form)
           /\ account' = With(account, u, row)
           /\ pendingNum' = With(pendingNum, u, form.number)
           /\ IF form.email = NoEmail THEN UNCHANGED <<code, proofs>> ELSE Proven(form.code)
    <2> DEFINE n == form.number
    <2>1. n \in Numbers /\ row \in Account
        BY <1>1 DEF Form, Account, Pending
    <2>2. /\ row.status = "PENDING_APPROVAL" /\ row.name = form.name /\ row.email = form.email
        OBVIOUS
    <2>3. NameFree(form.name, NoUser) /\ EmailFree(form.email, NoUser)
        BY <1>6 DEF FormAccepted
    <2>4. /\ n \notin DOMAIN number
          /\ \A w \in DOMAIN pendingNum : pendingNum[w] # n
          /\ \A w \in DOMAIN request : request[w].requested # n
        <3>1. NumberFree(n, NoUser, NoUser)
            BY <1>6 DEF FormAccepted
        <3> QED
            BY <3>1, FreeFacts, NobodyIs DEF IdentityInv
    <2>5. Later(code') /\ Spent'
        <3>1. CASE form.email = NoEmail
            <4>1. code' = code /\ proofs' = proofs
                BY <1>6, <3>1
            <4> QED
                BY <4>1 DEF Later, IdentityInv, Rows, Spent
        <3>2. CASE form.email # NoEmail
            <4> DEFINE c == form.code
            <4>1. c \in DOMAIN code /\ code[c].state = "open"
                BY <1>6, <3>2, VerifiedFacts DEF FormAccepted
            <4>2. /\ code' = Consumed(c)
                  /\ proofs' = With(proofs, c, IF c \in DOMAIN proofs THEN proofs[c] + 1 ELSE 1)
                BY <1>6, <3>2 DEF Proven
            <4> HIDE DEF c
            <4>3. Later(code') /\ code'[c].state = "used"
                BY <4>1, <4>2, ConsumedLater DEF IdentityInv
            <4> QED
                BY <4>1, <4>2, <4>3, SpentProven DEF IdentityInv
        <3> QED
            BY <3>1, <3>2
    <2>6. account' = With(account, u, row) /\ pendingNum' = With(pendingNum, u, n)
        BY <1>6
    <2> HIDE DEF row, n
    <2>7. /\ DOMAIN account' = DOMAIN account \cup {u} /\ account'[u] = row
          /\ \A v \in DOMAIN account : v # u => account'[v] = account[v]
          /\ DOMAIN pendingNum' = DOMAIN pendingNum \cup {u} /\ pendingNum'[u] = n
          /\ \A v \in DOMAIN pendingNum : v # u => pendingNum'[v] = pendingNum[v]
        BY <2>6 DEF With
    <2>8. /\ Applicants' = Applicants \cup {u} /\ Actives' = Actives /\ Holders' = Holders
        BY <1>1, <2>2, <2>7 DEF Applicants, Actives, Holders, Pending
    <2>9. u \notin DOMAIN pendingNum /\ u \notin DOMAIN request
        BY <1>1 DEF IdentityInv, Numbered, Applicants, Actives
    <2>10. Rows'
        BY <1>1, <1>2, <1>3, <2>1, <2>5, <2>7 DEF IdentityInv, Rows, Later
    <2>11. Numbered'
        <3>1. DOMAIN pendingNum' = Applicants' /\ DOMAIN request' \subseteq Actives'
            BY <1>2, <2>7, <2>8 DEF IdentityInv, Numbered
        <3>2. \A v \in DOMAIN pendingNum' : pendingNum'[v] \notin DOMAIN number'
            BY <1>2, <2>4, <2>7 DEF IdentityInv, Numbered
        <3>3. \A v, w \in DOMAIN pendingNum' : pendingNum'[v] = pendingNum'[w] => v = w
            BY <2>4, <2>7 DEF IdentityInv, Numbered
        <3>4. \A v \in DOMAIN request' : request'[v].requested \in DOMAIN number'
                                          => number'[request'[v].requested].user = v
            BY <1>2 DEF IdentityInv, Numbered
        <3>5. \A v \in DOMAIN request', w \in DOMAIN pendingNum' :
                 request'[v].requested # pendingNum'[w]
            <4>1. \A v \in DOMAIN request, w \in DOMAIN pendingNum :
                     request[v].requested # pendingNum[w]
                BY DEF IdentityInv, Numbered
            <4>2. request' = request
                BY <1>2
            <4> QED
                BY <2>4, <2>7, <4>1, <4>2
        <3>6. \A v, w \in DOMAIN request' : request'[v].requested = request'[w].requested => v = w
            BY <1>2 DEF IdentityInv, Numbered
        <3>7. \A x \in DOMAIN number' : number'[x].user \in Holders'
            BY <1>2, <2>8 DEF IdentityInv, Numbered
        <3>8. \A v \in Holders' : \E x \in Numbers : Held(v)' = {x}
            BY <1>4, <2>8 DEF IdentityInv, Numbered
        <3> QED
            BY <3>1, <3>2, <3>3, <3>4, <3>5, <3>6, <3>7, <3>8 DEF Numbered
    <2>12. RequestsCurrent'
        <3>1. \A w \in DOMAIN request : w # u /\ w \in DOMAIN account
            BY <2>9 DEF IdentityInv, Numbered, Actives
        <3> QED
            BY <1>2, <1>4, <2>7, <3>1, RequestsKept DEF IdentityInv
    <2>13. Named'
        <3>1. /\ \A v \in DOMAIN account : account[v].name # form.name
              /\ form.email = NoEmail \/ \A v \in DOMAIN account : account[v].email # form.email
            <4>1. NoUser \notin DOMAIN account
                BY Sentinels DEF IdentityInv, Rows
            <4> QED
                BY <2>3, <4>1 DEF NameFree, EmailFree
        <3>2. \A v \in DOMAIN account' : v # u => v \in DOMAIN account /\ account'[v] = account[v]
            BY <2>7
        <3>3. account'[u].name = form.name /\ account'[u].email = form.email
            BY <2>2, <2>7
        <3> HIDE DEF form
        <3> QED
            BY <3>1, <3>2, <3>3 DEF IdentityInv, Named
    <2>14. Watched'
        <3>1. u \notin DOMAIN reviewed /\ u \notin DOMAIN clearing
            BY <1>1 DEF IdentityInv, Watched, Applicants
        <3>2. \A v \in DOMAIN reviewed : account'[v] = account[v] /\ pendingNum'[v] = pendingNum[v]
            BY <2>7, <3>1 DEF IdentityInv, Watched, Numbered, Applicants
        <3>3. \A v \in DOMAIN reviewed : Application(v)' = Application(v)
            BY <3>2 DEF Application
        <3>4. \A v \in DOMAIN reviewed :
                 /\ reviewed[v].revision \in Nat /\ reviewed[v].revision <= account'[v].revision
                 /\ reviewed[v].revision = account'[v].revision => reviewed[v] = Application(v)'
            BY <3>2, <3>3 DEF IdentityInv, Watched
        <3> QED
            BY <1>2, <2>7, <2>8, <3>1, <3>4 DEF IdentityInv, Watched
    <2> QED
        BY <2>5, <2>10, <2>11, <2>12, <2>13, <2>14 DEF IdentityInv
<1> QED
    BY <1>5, <1>6 DEF FinishRegistration, StillAccepted

-----------------------------------------------------------------------------
(* The specification *)

LEMMA InitIdentity == Init => IdentityInv
<1> SUFFICES ASSUME Init
             PROVE  IdentityInv
    OBVIOUS
<1>1. /\ DOMAIN account = {} /\ DOMAIN number = {} /\ DOMAIN pendingNum = {}
      /\ DOMAIN request = {} /\ DOMAIN code = {} /\ DOMAIN registering = {}
      /\ DOMAIN clearing = {} /\ DOMAIN reviewed = {} /\ DOMAIN proofs = {} /\ ~surprised
    BY DEF Init, NoRows
<1>2. Rows /\ Named /\ Spent /\ RequestsCurrent
    BY <1>1 DEF Rows, Named, Spent, RequestsCurrent
<1>3. Applicants = {} /\ Holders = {}
    BY <1>1 DEF Applicants, Holders
<1>4. Numbered
    BY <1>1, <1>3 DEF Numbered
<1>5. Watched
    BY <1>1 DEF Watched
<1> QED
    BY <1>2, <1>4, <1>5 DEF IdentityInv

LEMMA StutterIdentity == IdentityInv /\ UNCHANGED vars => IdentityInv'
<1> SUFFICES ASSUME IdentityInv, UNCHANGED vars
             PROVE  IdentityInv'
    OBVIOUS
<1>1. UNCHANGED <<account, number, pendingNum, request, code, registering, clearing, reviewed,
                  proofs, surprised>>
    BY DEF vars
<1>2. Numbered' /\ RequestsCurrent' /\ Named' /\ Applicants' = Applicants
    BY <1>1, AccountsKept
<1>3. Rows' /\ Spent'
    BY <1>1 DEF IdentityInv, Rows, Spent
<1>4. Watched'
    BY <1>1, <1>2 DEF IdentityInv, Watched, Application
<1> QED
    BY <1>2, <1>3, <1>4 DEF IdentityInv

LEMMA NextIdentity == IdentityInv /\ [Next]_vars => IdentityInv'
<1> SUFFICES ASSUME IdentityInv, [Next]_vars
             PROVE  IdentityInv'
    OBVIOUS
<1>1. CASE CodeStep
    BY <1>1, SendCodeInv, CodeDiesInv, ChangeRulesInv DEF CodeStep
<1>2. CASE UserStep
    <2>1. ASSUME NEW u \in Users, NEW form \in Form, BeginRegistration(u, form)
          PROVE  IdentityInv'
        BY <2>1, BeginRegistrationInv
    <2>2. ASSUME NEW u \in DOMAIN registering, FinishRegistration(u)
          PROVE  IdentityInv'
        BY <2>2, FinishRegistrationInv
    <2>3. ASSUME NEW u \in DOMAIN account, NEW name \in Names, ChangeUsername(u, name)
          PROVE  IdentityInv'
        BY <2>3, ChangeUsernameInv
    <2>4. ASSUME NEW u \in DOMAIN account, NEW n \in Numbers,
                 EditApplication(u, n) \/ RequestProfileChange(u, n)
          PROVE  IdentityInv'
        BY <2>4, EditApplicationInv, RequestProfileChangeInv
    <2>5. ASSUME NEW u \in DOMAIN account, NEW email \in Emails, NEW c \in Codes,
                 NEW old \in Codes, SetEmail(u, email, c, old)
          PROVE  IdentityInv'
        BY <2>5, SetEmailInv
    <2>6. ASSUME NEW u \in DOMAIN account, BeginClearing(u)
          PROVE  IdentityInv'
        BY <2>6, BeginClearingInv
    <2>7. ASSUME NEW u \in DOMAIN clearing, NEW old \in Codes, FinishClearing(u, old)
          PROVE  IdentityInv'
        BY <2>7, FinishClearingInv
    <2>8. ASSUME NEW u \in DOMAIN clearing, DropClearing(u)
          PROVE  IdentityInv'
        BY <2>8, DropClearingInv
    <2> QED
        BY <1>2, <2>1, <2>2, <2>3, <2>4, <2>5, <2>6, <2>7, <2>8 DEF UserStep
<1>3. CASE AdminStep
    <2>1. ASSUME NEW u \in DOMAIN account, Review(u)
          PROVE  IdentityInv'
        BY <2>1, ReviewInv
    <2>2. ASSUME NEW u \in DOMAIN account, NEW overwrite \in BOOLEAN,
                 Approve(u, overwrite) \/ Return(u, overwrite) \/ Reject(u, overwrite)
          PROVE  IdentityInv'
        BY <2>2, ApproveInv, ReturnInv, RejectInv
    <2>3. ASSUME NEW u \in DOMAIN account, NEW n \in Numbers, UpdateProfile(u, n)
          PROVE  IdentityInv'
        BY <2>3, UpdateProfileInv
    <2>4. ASSUME NEW u \in DOMAIN account, Disable(u) \/ Enable(u) \/ Delete(u)
          PROVE  IdentityInv'
        BY <2>4, DisableInv, EnableInv, DeleteInv
    <2>5. ASSUME NEW u \in DOMAIN request, ApproveProfile(u) \/ EndRequest(u)
          PROVE  IdentityInv'
        BY <2>5, ApproveProfileInv, EndRequestInv
    <2> QED
        BY <1>3, <2>1, <2>2, <2>3, <2>4, <2>5 DEF AdminStep
<1> QED
    BY <1>1, <1>2, <1>3, StutterIdentity DEF Next

\* The tables hold rows of their types, claims to numbers never meet, requests and what is on
\* screen fit the accounts, names and addresses differ, codes that proved an address are used
\* up: for any accounts, names, addresses, numbers and codes.
THEOREM IdentityInvariant == Spec => []IdentityInv
BY InitIdentity, NextIdentity, PTL DEF Spec

LEMMA OneElement ==
    ASSUME NEW S, \A a, b \in S : a = b
    PROVE  IsFiniteSet(S) /\ Cardinality(S) <= 1
<1>1. CASE S = {}
    BY <1>1, FS_EmptySet
<1>2. CASE S # {}
    <2>1. PICK a \in S : TRUE
        BY <1>2
    <2>2. S = {a}
        BY <2>1
    <2>3. IsFiniteSet({a}) /\ Cardinality({a}) = 1
        BY FS_Singleton
    <2> QED
        BY <2>2, <2>3
<1> QED
    BY <1>1, <1>2

\* An employee number, however it is claimed, belongs to one account, a holder has one active
\* number, and names and addresses of two accounts differ, although a registration awaits its
\* password hash between its check and its commit.
THEOREM NumbersClaimedOnce == Spec => []ClaimedOnce
<1>1. IdentityInv => ClaimedOnce
    <2> SUFFICES ASSUME IdentityInv
                 PROVE  ClaimedOnce
        OBVIOUS
    <2>1. ASSUME NEW n \in Numbers
          PROVE  Cardinality(Claims(n)) <= 1
        <3>1. ASSUME NEW a \in Claims(n), NEW b \in Claims(n)
              PROVE  a = b
            BY DEF Claims, IdentityInv, Numbered
        <3> QED
            BY <3>1, OneElement
    <2>2. ASSUME NEW u \in DOMAIN account
          PROVE  /\ u \in DOMAIN pendingNum <=> account[u].status \in Pending
                 /\ Cardinality(Held(u))
                       = IF account[u].status \in {"ACTIVE", "DISABLED"} THEN 1 ELSE 0
        <3>1. u \in DOMAIN pendingNum <=> account[u].status \in Pending
            BY DEF IdentityInv, Numbered, Applicants
        <3>2. CASE u \in Holders
            <4>1. PICK n \in Numbers : Held(u) = {n}
                BY <3>2 DEF IdentityInv, Numbered
            <4> QED
                BY <3>1, <3>2, <4>1, FS_Singleton DEF Holders
        <3>3. CASE u \notin Holders
            <4>1. Held(u) = {}
                BY <3>3 DEF IdentityInv, Numbered, Held
            <4> QED
                BY <3>1, <3>3, <4>1, FS_EmptySet DEF Holders
        <3> QED
            BY <3>2, <3>3
    <2>3. \A u, v \in DOMAIN account :
             u # v => /\ account[u].name = account[v].name => account[u].name = NoUser
                      /\ account[u].email = account[v].email => account[u].email = NoEmail
        BY DEF IdentityInv, Named
    <2> QED
        BY <2>1, <2>2, <2>3 DEF ClaimedOnce
<1> QED
    BY <1>1, IdentityInvariant, PTL

\* A code gives one account an address once, whatever is submitted with it meanwhile.
THEOREM CodesUsedOnce == Spec => []CodeUsedOnce
<1>1. IdentityInv => CodeUsedOnce
    BY DEF IdentityInv, Spent, CodeUsedOnce
<1> QED
    BY <1>1, IdentityInvariant, PTL

\* Requests to review are of active accounts with the number they show, and an application
\* is approved as it was on screen unless an overwrite is confirmed.
THEOREM ReviewsAreCurrent == Spec => []ReviewsCurrent
<1>1. IdentityInv => ReviewsCurrent
    BY DEF IdentityInv, Watched, ReviewsCurrent, ApprovedAsReviewed
<1> QED
    BY <1>1, IdentityInvariant, PTL

-----------------------------------------------------------------------------
(* Sessions: the inductive invariant *)

Standings == {"ACTIVE", "DISABLED", "DELETED"}
SessionRow == [state : {"open", "ended"}, user : People, outdated : BOOLEAN]
LinkRow == [state : {"valid", "gone"}, user : People, resets : Nat]
LinkIds == 1..MaxLinks
Tokens == Ids \cup {0}
Window == [shown : People \cup {Nobody}, csrf : Tokens, loading : BOOLEAN]
LoginCall == [kind : {"login"}, user : People, sent : Tokens, session : Tokens]
LogoutCall == [kind : {"logout"}, clears : BOOLEAN]
Answered == [state : {"answered"}, session : Tokens]
Change == [kind : {"change"}, user : People, session : Tokens]
Reset == [kind : {"reset"}, link : LinkIds, try : Nat]

\* A row that has been given out, as a session of u
Given(rows, s, u) == s \in Ids /\ rows[s] \in SessionRow /\ rows[s].user = u

SessionRows(rows) ==
    /\ rows \in [Ids -> SessionRow \cup {Unused}]
    /\ \A s \in Ids : rows[s] \in SessionRow => ~rows[s].outdated

LinkRows(rows) ==
    /\ rows \in [LinkIds -> LinkRow \cup {Unused}]
    /\ \A l \in LinkIds : rows[l] \in LinkRow =>
          rows[l].resets = 0 \/ (rows[l].resets = 1 /\ rows[l].state = "gone")
    /\ \A k, l \in LinkIds :
          rows[k].state = "valid" /\ rows[l].state = "valid" /\ rows[k].user = rows[l].user
          => k = l

\* What pages hold is of rows that have been given out.
TokensKnown ==
    /\ cookie \in [Pages -> Tokens]
    /\ window \in [Pages -> Window]
    /\ inquiry \in [Pages -> Answered \cup {NoRead}]
    /\ call \in [Pages -> LoginCall \cup LogoutCall \cup {NoCall}]
    /\ jobs \subseteq Change \cup Reset

ShownKnown(p) ==
    window[p].shown # Nobody /\ window[p].csrf # 0
    => Given(sessions, window[p].csrf, window[p].shown)

AskedKnown(p) ==
    inquiry[p] \in Answered /\ inquiry[p].session # 0
    => sessions[inquiry[p].session] \in SessionRow

CalledKnown(p) ==
    call[p] \in LoginCall /\ call[p].session # 0
    => Given(sessions, call[p].session, call[p].user)

Known == \A p \in Pages : ShownKnown(p) /\ AskedKnown(p) /\ CalledKnown(p)

SessionsInv ==
    /\ standing \in [People -> Standings]
    /\ SessionRows(sessions)
    /\ LinkRows(links)
    /\ TokensKnown
    /\ Known

-----------------------------------------------------------------------------
(* Rows *)

LEMMA IdFacts ==
    /\ 0 \notin Ids /\ Ids \subseteq Nat /\ LinkIds \subseteq Nat
    /\ Unused \notin SessionRow /\ Unused \notin LinkRow
    /\ Unused.state = "unused"
<1>1. 0 \notin Ids /\ Ids \subseteq Nat /\ LinkIds \subseteq Nat
    BY SessionBounds DEF Ids, LinkIds
<1>2. Unused.state = "unused"
    BY DEF Unused
<1>3. \A row \in SessionRow : row.state # "unused"
    BY DEF SessionRow
<1>4. \A row \in LinkRow : row.state # "unused"
    BY DEF LinkRow
<1>5. Unused \notin SessionRow
    BY <1>2, <1>3, Zenon
<1>6. Unused \notin LinkRow
    BY <1>2, <1>4, Zenon
<1> QED
    BY <1>1, <1>2, <1>5, <1>6

LEMMA OpenFacts ==
    ASSUME SessionRows(sessions), NEW s \in Ids
    PROVE  Open(s) <=> sessions[s] \in SessionRow /\ sessions[s].state = "open"
BY IdFacts DEF Open, SessionRows, Unused

LEMMA UsableFacts ==
    ASSUME LinkRows(links), NEW l \in LinkIds, Usable(l)
    PROVE  links[l] \in LinkRow /\ links[l].state = "valid" /\ links[l].resets = 0
BY IdFacts DEF Usable, LinkRows, Unused

\* Of the rows nobody has had there is a lowest.
LEMMA LowestFacts ==
    ASSUME NEW rows, NEW n \in Nat, DOMAIN rows = 1..n, Spare(rows)
    PROVE  Lowest(rows) \in 1..n /\ rows[Lowest(rows)] = Unused
<1> DEFINE T == {i \in 1..n : rows[i] = Unused}
<1>1. T # {} /\ T \subseteq Nat
    BY DEF Spare
<1>2. PICK i \in T : \A j \in T : ~(<<j, i>> \in OpToRel(<, Nat))
    <2> HIDE DEF T
    <2> QED
        BY <1>1, WFMin, NatLessThanWellFounded, Zenon
<1>3. ASSUME NEW j \in T
      PROVE  i <= j
    <2>1. i \in Nat /\ j \in Nat
        BY <1>1
    <2>2. CASE j < i
        <3>1. <<j, i>> \in OpToRel(<, Nat)
            BY <2>1, <2>2 DEF OpToRel
        <3> QED
            BY <1>2, <3>1
    <2> QED
        BY <2>1, <2>2
<1>4. \E k \in DOMAIN rows : rows[k] = Unused /\ \A j \in DOMAIN rows : rows[j] = Unused => k <= j
    BY <1>3
<1> QED
    BY <1>4 DEF Lowest

\* What every step does to the sessions: rows keep their users.
Kept(rows) ==
    /\ SessionRows(rows)
    /\ \A s \in Ids : sessions[s] \in SessionRow
          => rows[s] \in SessionRow /\ rows[s].user = sessions[s].user

LEMMA SameKept ==
    ASSUME SessionRows(sessions)
    PROVE  Kept(sessions)
BY DEF Kept

LEMMA EndedRow ==
    ASSUME NEW row \in SessionRow
    PROVE  /\ [row EXCEPT !.state = "ended", !.outdated = FALSE] \in SessionRow
           /\ [row EXCEPT !.state = "ended", !.outdated = FALSE].state = "ended"
           /\ [row EXCEPT !.state = "ended", !.outdated = FALSE].user = row.user
           /\ ~[row EXCEPT !.state = "ended", !.outdated = FALSE].outdated
<1> DEFINE a == [row EXCEPT !.state = "ended"]
           b == [a EXCEPT !.outdated = FALSE]
<1>1. a \in SessionRow /\ a.state = "ended" /\ a.user = row.user
    BY DEF SessionRow
<1> HIDE DEF a
<1>2. b \in SessionRow /\ b.state = a.state /\ b.user = a.user /\ b.outdated = FALSE
    BY <1>1 DEF SessionRow
<1>3. b = [row EXCEPT !.state = "ended", !.outdated = FALSE]
    BY Zenon DEF a
<1> HIDE DEF b
<1>4. b \in SessionRow /\ b.state = "ended" /\ b.user = row.user /\ ~b.outdated
    BY <1>1, <1>2
<1> QED
    BY <1>3, <1>4, Zenon

\* Ending sessions that are open
LEMMA EndedKept ==
    ASSUME SessionRows(sessions), NEW P, \A s \in P \cap Ids : Open(s)
    PROVE  /\ Kept(EndedWhere(P))
           /\ \A s \in Ids : EndedWhere(P)[s].state = "open" => s \notin P /\ Open(s)
           /\ \A s \in Ids : EndedWhere(P)[s] = Unused <=> sessions[s] = Unused
           /\ \A s \in Ids : s \notin P => EndedWhere(P)[s] = sessions[s]
<1> DEFINE ended(s) == [sessions[s] EXCEPT !.state = "ended", !.outdated = FALSE]
<1>1. \A s \in P \cap Ids : sessions[s] \in SessionRow
    BY OpenFacts
<1>2. \A s \in P \cap Ids : /\ ended(s) \in SessionRow /\ ended(s).state = "ended"
                            /\ ended(s).user = sessions[s].user /\ ~ended(s).outdated
    BY <1>1, EndedRow, Zenon
<1>3. \A s \in Ids : EndedWhere(P)[s] = IF s \in P THEN ended(s) ELSE sessions[s]
    BY Zenon DEF EndedWhere
<1>4. EndedWhere(P) = [s \in Ids |-> EndedWhere(P)[s]]
    BY Zenon DEF EndedWhere
<1> DEFINE rows == EndedWhere(P)
<1> HIDE DEF ended, rows
<1>5. \A s \in Ids : rows[s] = IF s \in P THEN ended(s) ELSE sessions[s]
    BY <1>3 DEF rows
<1>6. rows = [s \in Ids |-> rows[s]]
    BY <1>4 DEF rows
<1>7. \A s \in Ids : rows[s] \in SessionRow \cup {Unused}
    BY <1>2, <1>5 DEF SessionRows
<1>8. SessionRows(rows)
    BY <1>2, <1>5, <1>6, <1>7 DEF SessionRows
<1>9. Kept(rows)
    BY <1>2, <1>5, <1>8 DEF Kept
<1>10. \A s \in Ids : rows[s].state = "open" => s \notin P /\ Open(s)
    BY <1>2, <1>5, IdFacts DEF Open
<1>11. \A s \in Ids : rows[s] = Unused <=> sessions[s] = Unused
    BY <1>1, <1>2, <1>5, IdFacts
<1> QED
    BY <1>5, <1>9, <1>10, <1>11 DEF rows

\* A session is opened in a row nobody has had.
LEMMA OpenedKept ==
    ASSUME NEW rows, Kept(rows), NEW s \in Ids, sessions[s] = Unused,
           NEW u \in People, NEW row,
           row = [state |-> "open", user |-> u, outdated |-> FALSE]
    PROVE  Kept([rows EXCEPT ![s] = row]) /\ Given([rows EXCEPT ![s] = row], s, u)
<1>1. row \in SessionRow /\ row.user = u /\ ~row.outdated
    BY DEF SessionRow
<1>2. sessions[s] \notin SessionRow
    BY IdFacts
<1> DEFINE new == [rows EXCEPT ![s] = row]
<1>3. /\ new \in [Ids -> SessionRow \cup {Unused}]
      /\ \A t \in Ids : new[t] = IF t = s THEN row ELSE rows[t]
    BY <1>1 DEF Kept, SessionRows
<1> HIDE DEF new
<1>4. SessionRows(new)
    BY <1>1, <1>3 DEF Kept, SessionRows
<1>5. Kept(new)
    BY <1>2, <1>3, <1>4 DEF Kept
<1>6. Given(new, s, u)
    BY <1>1, <1>3 DEF Given
<1> QED
    BY <1>5, <1>6 DEF new

\* Whoever sets a password has ended the other sessions before, so none is left open that
\* was opened with another.
LEMMA OutdatedKept ==
    ASSUME NEW rows, Kept(rows), NEW S, \A s \in S \cap Ids : rows[s].state # "open"
    PROVE  Kept(Outdated(rows, S))
<1>1. Outdated(rows, S) = [t \in Ids |-> rows[t]]
    BY DEF Outdated
<1>2. Outdated(rows, S) = rows
    BY <1>1 DEF Kept, SessionRows
<1> QED
    BY <1>2

-----------------------------------------------------------------------------
(* Links *)

LEMMA GoneRow ==
    ASSUME NEW row \in LinkRow
    PROVE  /\ [row EXCEPT !.state = "gone"] \in LinkRow
           /\ [row EXCEPT !.state = "gone"].state = "gone"
           /\ [row EXCEPT !.state = "gone"].resets = row.resets
           /\ [row EXCEPT !.state = "gone"].user = row.user
BY DEF LinkRow

\* The links of an account are taken away; none of it works any more.
LEMMA WithoutLinksRows ==
    ASSUME LinkRows(links), NEW u
    PROVE  /\ LinkRows(WithoutLinks(u)) /\ DOMAIN WithoutLinks(u) = LinkIds
           /\ \A l \in LinkIds : WithoutLinks(u)[l].state = "valid"
                 => WithoutLinks(u)[l] = links[l] /\ links[l].user # u
           /\ \A l \in LinkIds : links[l] = Unused => WithoutLinks(u)[l] = Unused
           /\ \A l \in LinkIds : links[l] \in LinkRow =>
                 /\ WithoutLinks(u)[l] \in LinkRow
                 /\ WithoutLinks(u)[l].resets = links[l].resets
                 /\ WithoutLinks(u)[l].user = links[l].user
<1> DEFINE old(l) == [links[l] EXCEPT !.state = "gone"]
           taken(l) == links[l].state = "valid" /\ links[l].user = u
<1>1. \A l \in LinkIds : taken(l) => links[l] \in LinkRow
    BY UsableFacts DEF Usable
<1>2. \A l \in LinkIds : links[l] \in LinkRow =>
         /\ old(l) \in LinkRow /\ old(l).state = "gone" /\ old(l).resets = links[l].resets
         /\ old(l).user = links[l].user
    BY GoneRow, Zenon
<1>3. DOMAIN links = LinkIds
    BY DEF LinkRows
<1> DEFINE new == WithoutLinks(u)
<1>4. new = [l \in LinkIds |-> IF taken(l) THEN old(l) ELSE links[l]]
    BY <1>3, Zenon DEF WithoutLinks
<1> HIDE DEF old, taken, new
<1>5. \A l \in LinkIds : new[l] = IF taken(l) THEN old(l) ELSE links[l]
    BY <1>4
<1>6. new \in [LinkIds -> LinkRow \cup {Unused}]
    BY <1>1, <1>2, <1>4 DEF LinkRows
<1>7. \A l \in LinkIds : new[l].state = "valid"
         => new[l] = links[l] /\ links[l].user # u
    BY <1>1, <1>2, <1>5 DEF taken
<1>8. \A l \in LinkIds : links[l] \in LinkRow =>
         /\ new[l] \in LinkRow /\ new[l].resets = links[l].resets /\ new[l].user = links[l].user
    BY <1>2, <1>5
<1>9. \A l \in LinkIds : links[l] = Unused => new[l] = Unused
    BY <1>1, <1>5, IdFacts
<1>10. \A l \in LinkIds : new[l] \in LinkRow =>
          new[l].resets = 0 \/ (new[l].resets = 1 /\ new[l].state = "gone")
    <2> TAKE l \in LinkIds
    <2> HAVE new[l] \in LinkRow
    <2>1. CASE taken(l)
        BY <1>1, <1>2, <1>5, <2>1 DEF LinkRows
    <2>2. CASE ~taken(l)
        BY <1>5, <2>2 DEF LinkRows
    <2> QED
        BY <2>1, <2>2
<1>11. LinkRows(new)
    BY <1>6, <1>7, <1>10 DEF LinkRows
<1>12. DOMAIN new = LinkIds
    BY <1>4
<1> QED
    BY <1>7, <1>8, <1>9, <1>11, <1>12 DEF new

-----------------------------------------------------------------------------
(* Steps that leave what pages hold to rows that are kept *)

LEMMA KnownKept ==
    ASSUME SessionsInv, Kept(sessions'), NEW p \in Pages
    PROVE  /\ window'[p] = window[p] => ShownKnown(p)'
           /\ inquiry'[p] = inquiry[p] => AskedKnown(p)'
           /\ call'[p] = call[p] => CalledKnown(p)'
<1>1. window'[p] = window[p] => ShownKnown(p)'
    BY DEF SessionsInv, Known, ShownKnown, Kept, Given
<1>2. inquiry'[p] = inquiry[p] => AskedKnown(p)'
    BY DEF SessionsInv, Known, AskedKnown, Kept, Answered, Tokens
<1>3. call'[p] = call[p] => CalledKnown(p)'
    BY DEF SessionsInv, Known, CalledKnown, Kept, Given
<1> QED
    BY <1>1, <1>2, <1>3

\* What is shown, asked and called stays.
LEMMA SameKnown ==
    ASSUME SessionsInv, Kept(sessions'), UNCHANGED <<window, inquiry, call>>
    PROVE  Known'
BY KnownKept DEF Known

\* The cookie of a page, which the pages of a browser share
LEMMA JarFacts ==
    ASSUME SessionsInv, NEW p \in Pages, NEW s \in Tokens
    PROVE  Jar(p, s) \in [Pages -> Tokens]
BY DEF Jar, SessionsInv, TokensKnown

LEMMA LiveFacts ==
    ASSUME SessionsInv, NEW s \in Tokens, Live(s)
    PROVE  s \in Ids /\ Open(s) /\ sessions[s] \in SessionRow /\ sessions[s].user \in People
BY OpenFacts DEF Live, Open, Tokens, SessionsInv, SessionRow

LEMMA CheckedKept ==
    ASSUME SessionsInv, NEW s
    PROVE  Kept(Checked(s))
BY EndedKept DEF Checked, SessionsInv

-----------------------------------------------------------------------------
(* Logging in and out *)

LEMMA CallRow ==
    ASSUME NEW row \in LoginCall, NEW s \in Tokens
    PROVE  /\ [row EXCEPT !.session = s] \in LoginCall
           /\ [row EXCEPT !.session = s].session = s
           /\ [row EXCEPT !.session = s].user = row.user
BY DEF LoginCall

LEMMA CallFacts ==
    ASSUME SessionsInv, NEW p \in Pages
    PROVE  /\ call[p].kind = "login" => call[p] \in LoginCall
           /\ NoCall \notin LoginCall
           /\ \A row \in LogoutCall : row \notin LoginCall
<1>1. NoCall.kind = "none"
    BY DEF NoCall
<1>2. \A row \in LoginCall : row.kind = "login"
    BY DEF LoginCall
<1>3. \A row \in LogoutCall : row.kind = "logout"
    BY DEF LogoutCall
<1>4. NoCall \notin LoginCall
    BY <1>1, <1>2, Zenon
<1>5. call[p] \in LoginCall \cup LogoutCall \cup {NoCall}
    BY DEF SessionsInv, TokensKnown
<1> QED
    BY <1>1, <1>2, <1>3, <1>4, <1>5

LEMMA BeginLoginInv ==
    ASSUME SessionsInv, NEW p \in Pages, NEW u \in People, BeginLogin(p, u)
    PROVE  SessionsInv'
<1> DEFINE row == [kind |-> "login", user |-> u, sent |-> cookie[p], session |-> 0]
<1>1. row \in LoginCall /\ row.session = 0
    BY DEF LoginCall, Tokens, SessionsInv, TokensKnown
<1>2. call' = [call EXCEPT ![p] = row]
    BY DEF BeginLogin
<1> HIDE DEF row
<1>3. UNCHANGED <<standing, sessions, links, jobs, cookie, window, inquiry>>
    BY DEF BeginLogin
<1>4. TokensKnown'
    BY <1>1, <1>2, <1>3 DEF SessionsInv, TokensKnown
<1>5. Kept(sessions')
    BY <1>3, SameKept DEF SessionsInv
<1>6. Known'
    <2>1. ASSUME NEW q \in Pages
          PROVE  CalledKnown(q)'
        <3>1. CASE q = p
            BY <1>1, <1>2, <3>1 DEF CalledKnown, SessionsInv, TokensKnown
        <3>2. CASE q # p
            <4>1. call'[q] = call[q]
                BY <1>2, <3>2 DEF SessionsInv, TokensKnown
            <4> QED
                BY <1>5, <4>1, KnownKept
        <3> QED
            BY <3>1, <3>2
    <2> QED
        BY <1>3, <1>5, <2>1, KnownKept DEF Known
<1> QED
    BY <1>3, <1>4, <1>6 DEF SessionsInv

\* The page that answers to the login is told the session opened for its user.
LEMMA FinishLoginInv ==
    ASSUME SessionsInv, NEW p \in Pages, FinishLogin(p)
    PROVE  SessionsInv'
<1> DEFINE s == Lowest(sessions)
           ended == EndedWhere({t \in {call[p].sent} : Open(t)})
           opened == [state |-> "open", user |-> call[p].user, outdated |-> FALSE]
           row == [call[p] EXCEPT !.session = s]
<1>1. call[p] \in LoginCall /\ call[p].user \in People
    BY CallFacts DEF FinishLogin, LoginCall
<1>2. s \in Ids /\ sessions[s] = Unused
    BY LowestFacts, SessionBounds DEF FinishLogin, Ids, SessionsInv, SessionRows
<1>3. row \in LoginCall /\ row.session = s /\ row.user = call[p].user
    BY <1>1, <1>2, CallRow, Zenon DEF Tokens
<1>4. Kept(ended)
    BY EndedKept DEF SessionsInv
<1>5. sessions' = [ended EXCEPT ![s] = opened] /\ call' = [call EXCEPT ![p] = row]
    BY Zenon DEF FinishLogin
<1>6. opened = [state |-> "open", user |-> call[p].user, outdated |-> FALSE]
    OBVIOUS
<1> HIDE DEF s, ended, opened, row
<1>7. Kept(sessions') /\ Given(sessions', s, call[p].user)
    BY <1>1, <1>2, <1>4, <1>5, <1>6, OpenedKept
<1>8. UNCHANGED <<standing, links, jobs, cookie, window, inquiry>>
    BY DEF FinishLogin
<1>9. TokensKnown'
    BY <1>3, <1>5, <1>8 DEF SessionsInv, TokensKnown
<1>10. Known'
    <2>1. ASSUME NEW q \in Pages
          PROVE  CalledKnown(q)'
        <3>1. CASE q = p
            <4>1. call'[q] = row
                BY <1>5, <3>1 DEF SessionsInv, TokensKnown
            <4> QED
                BY <1>3, <1>7, <4>1 DEF CalledKnown
        <3>2. CASE q # p
            <4>1. call'[q] = call[q]
                BY <1>5, <3>2 DEF SessionsInv, TokensKnown
            <4> QED
                BY <1>7, <4>1, KnownKept
        <3> QED
            BY <3>1, <3>2
    <2> QED
        BY <1>7, <1>8, <2>1, KnownKept DEF Known
<1> QED
    BY <1>7, <1>8, <1>9, <1>10 DEF SessionsInv, Kept

\* One page takes an answer, or loses it: every other page keeps what it has.
LEMMA PageInv ==
    ASSUME SessionsInv, NEW p \in Pages, NEW shows, NEW asks, NEW calls,
           window' = [window EXCEPT ![p] = shows], inquiry' = [inquiry EXCEPT ![p] = asks],
           call' = [call EXCEPT ![p] = calls],
           shows \in Window,
           shows.shown # Nobody /\ shows.csrf # 0 => Given(sessions', shows.csrf, shows.shown),
           asks \in Answered \cup {NoRead},
           asks \in Answered /\ asks.session # 0 => sessions'[asks.session] \in SessionRow,
           calls \in LoginCall \cup LogoutCall \cup {NoCall},
           calls = call[p] \/ calls \notin LoginCall,
           cookie' \in [Pages -> Tokens], Kept(sessions'), UNCHANGED <<standing, links, jobs>>
    PROVE  SessionsInv'
<1>1. TokensKnown'
    BY DEF SessionsInv, TokensKnown
<1>2. ASSUME NEW q \in Pages
      PROVE  ShownKnown(q)' /\ AskedKnown(q)' /\ CalledKnown(q)'
    <2>1. CASE q = p
        <3>1. window'[q] = shows /\ inquiry'[q] = asks /\ call'[q] = calls
            BY <2>1 DEF SessionsInv, TokensKnown
        <3>2. ShownKnown(q)' /\ AskedKnown(q)'
            BY <3>1 DEF ShownKnown, AskedKnown
        <3>3. CalledKnown(q)'
            BY <2>1, <3>1, KnownKept DEF CalledKnown
        <3> QED
            BY <3>2, <3>3
    <2>2. CASE q # p
        <3>1. window'[q] = window[q] /\ inquiry'[q] = inquiry[q] /\ call'[q] = call[q]
            BY <2>2 DEF SessionsInv, TokensKnown
        <3> QED
            BY <3>1, KnownKept
    <2> QED
        BY <2>1, <2>2
<1> QED
    BY <1>1, <1>2 DEF SessionsInv, Known, Kept

\* What a page has, put back
LEMMA SamePage ==
    ASSUME SessionsInv, NEW p \in Pages
    PROVE  /\ window = [window EXCEPT ![p] = window[p]] /\ window[p] \in Window
           /\ inquiry = [inquiry EXCEPT ![p] = inquiry[p]]
           /\ inquiry[p] \in Answered \cup {NoRead}
           /\ call = [call EXCEPT ![p] = call[p]]
           /\ call[p] \in LoginCall \cup LogoutCall \cup {NoCall}
           /\ cookie \in [Pages -> Tokens]
           /\ ShownKnown(p) /\ AskedKnown(p) /\ Kept(sessions)
           /\ NoRead \notin Answered
<1>1. NoRead.state = "none"
    BY DEF NoRead
<1>2. \A row \in Answered : row.state = "answered"
    BY DEF Answered
<1>3. NoRead \notin Answered
    BY <1>1, <1>2, Zenon
<1> QED
    BY <1>3, SameKept DEF SessionsInv, TokensKnown, Known

LEMMA TakeLoginInv ==
    ASSUME SessionsInv, NEW p \in Pages, TakeLogin(p)
    PROVE  SessionsInv'
<1> DEFINE shows == [shown |-> call[p].user, csrf |-> call[p].session, loading |-> FALSE]
<1>1. call[p] \in LoginCall /\ call[p].user \in People /\ call[p].session \in Tokens
      /\ Given(sessions, call[p].session, call[p].user)
    BY CallFacts DEF TakeLogin, LoginCall, SessionsInv, Known, CalledKnown
<1>2. shows \in Window /\ Given(sessions, shows.csrf, shows.shown)
    BY <1>1 DEF Window
<1>3. /\ window' = [window EXCEPT ![p] = shows] /\ inquiry' = [inquiry EXCEPT ![p] = NoRead]
      /\ call' = [call EXCEPT ![p] = NoCall] /\ cookie' = Jar(p, call[p].session)
      /\ UNCHANGED <<standing, sessions, links, jobs>>
    BY DEF TakeLogin
<1>4. cookie' \in [Pages -> Tokens]
    BY <1>1, <1>3, JarFacts
<1> HIDE DEF shows
<1>5. Kept(sessions') /\ Given(sessions', shows.csrf, shows.shown)
    BY <1>2, <1>3, SamePage
<1> QED
    BY <1>2, <1>3, <1>4, <1>5, SamePage, CallFacts, PageInv

LEMMA LoseLoginInv ==
    ASSUME SessionsInv, NEW p \in Pages, LoseLogin(p)
    PROVE  SessionsInv'
<1>1. /\ call' = [call EXCEPT ![p] = NoCall]
      /\ UNCHANGED <<standing, sessions, links, jobs, cookie, window, inquiry>>
    BY DEF LoseLogin
<1>2. Known'
    <2>1. ASSUME NEW q \in Pages
          PROVE  CalledKnown(q)'
        <3>1. CASE q = p
            BY <1>1, <3>1, CallFacts DEF CalledKnown, SessionsInv, TokensKnown
        <3>2. CASE q # p
            BY <1>1, <3>2, KnownKept, SamePage DEF SessionsInv, TokensKnown
        <3> QED
            BY <3>1, <3>2
    <2> QED
        BY <1>1, <2>1, KnownKept, SamePage DEF Known
<1> QED
    BY <1>1, <1>2 DEF SessionsInv, TokensKnown

LEMMA LogoutInv ==
    ASSUME SessionsInv, NEW p \in Pages, NEW reaches \in BOOLEAN, Logout(p, reaches)
    PROVE  SessionsInv'
<1> DEFINE calls == [kind |-> "logout", clears |-> reaches /\ Accepts(p)]
<1>1. calls \in LogoutCall
    <2>1. (reaches /\ Accepts(p)) \in BOOLEAN
        BY Zenon
    <2> QED
        BY <2>1 DEF LogoutCall
<1>2. call' = [call EXCEPT ![p] = calls]
    BY DEF Logout
<1> HIDE DEF calls
<1>3. UNCHANGED <<standing, links, jobs, cookie, window, inquiry>>
    BY DEF Logout
<1>4. Kept(sessions')
    <2>1. sessions' \in {sessions, Checked(cookie[p])} \/ (Accepts(p) /\ sessions' = EndedWhere({cookie[p]}))
        BY DEF Logout
    <2>2. Kept(sessions) /\ Kept(Checked(cookie[p]))
        BY SamePage, CheckedKept
    <2>3. CASE Accepts(p) /\ sessions' = EndedWhere({cookie[p]})
        <3>1. Open(cookie[p])
            BY <2>3 DEF Accepts, Live
        <3> QED
            BY <2>3, <3>1, EndedKept DEF SessionsInv
    <2> QED
        BY <2>1, <2>2, <2>3
<1>5. ShownKnown(p)' /\ AskedKnown(p)'
    BY <1>3, <1>4, KnownKept
<1> QED
    BY <1>1, <1>2, <1>3, <1>4, <1>5, SamePage, CallFacts, PageInv DEF ShownKnown, AskedKnown

LEMMA EndLogoutInv ==
    ASSUME SessionsInv, NEW p \in Pages, NEW arrives \in BOOLEAN, EndLogout(p, arrives)
    PROVE  SessionsInv'
<1> DEFINE a == [window[p] EXCEPT !.shown = Nobody]
           b == [a EXCEPT !.csrf = 0]
<1>1. a \in Window /\ a.shown = Nobody
    BY SamePage DEF Window
<1>2. window' = [window EXCEPT ![p] = b]
    BY Zenon DEF EndLogout
<1> HIDE DEF a
<1>3. b \in Window /\ b.shown = Nobody
    BY <1>1 DEF Window, Tokens
<1> HIDE DEF b
<1>4. /\ call' = [call EXCEPT ![p] = NoCall]
      /\ UNCHANGED <<standing, sessions, links, jobs, inquiry>>
    BY DEF EndLogout
<1>5. cookie' \in [Pages -> Tokens]
    BY SamePage, JarFacts DEF EndLogout, Tokens
<1>6. Kept(sessions') /\ AskedKnown(p)'
    BY <1>4, SamePage, KnownKept
<1> QED
    BY <1>2, <1>3, <1>4, <1>5, <1>6, SamePage, CallFacts, PageInv DEF AskedKnown

-----------------------------------------------------------------------------
(* What a page knows *)

LEMMA AskSessionInv ==
    ASSUME SessionsInv, NEW p \in Pages, AskSession(p)
    PROVE  SessionsInv'
<1> DEFINE asks == [state |-> "answered", session |-> IF Live(cookie[p]) THEN cookie[p] ELSE 0]
<1>1. cookie[p] \in Tokens
    BY DEF SessionsInv, TokensKnown
<1>2. asks \in Answered /\ (asks.session # 0 => sessions[asks.session] \in SessionRow
                                                /\ asks.session \in Ids)
    BY <1>1, LiveFacts DEF Answered, Tokens
<1>3. /\ inquiry' = [inquiry EXCEPT ![p] = asks] /\ sessions' = Checked(cookie[p])
      /\ UNCHANGED <<standing, links, jobs, cookie, window, call>>
    BY DEF AskSession
<1> HIDE DEF asks
<1>4. Kept(sessions')
    BY <1>3, CheckedKept
<1>5. asks.session # 0 => sessions'[asks.session] \in SessionRow
    BY <1>2, <1>4 DEF Kept
<1>6. ShownKnown(p)'
    BY <1>3, <1>4, KnownKept
<1>7. window[p].shown # Nobody /\ window[p].csrf # 0
      => Given(sessions', window[p].csrf, window[p].shown)
    BY <1>3, <1>6 DEF ShownKnown
<1>8. /\ window' = [window EXCEPT ![p] = window[p]] /\ call' = [call EXCEPT ![p] = call[p]]
      /\ cookie' \in [Pages -> Tokens]
    BY <1>3, SamePage
<1>9. window[p] \in Window /\ call[p] \in LoginCall \cup LogoutCall \cup {NoCall}
      /\ asks \in Answered \cup {NoRead}
      /\ (asks \in Answered /\ asks.session # 0 => sessions'[asks.session] \in SessionRow)
      /\ inquiry' = [inquiry EXCEPT ![p] = asks]
      /\ UNCHANGED <<standing, links, jobs>>
    BY <1>2, <1>3, <1>5, SamePage
<1> QED
    BY <1>4, <1>7, <1>8, <1>9, PageInv, Zenon

LEMMA TakeSessionInv ==
    ASSUME SessionsInv, NEW p \in Pages, TakeSession(p)
    PROVE  SessionsInv'
<1> DEFINE s == inquiry[p].session
           a == [window[p] EXCEPT !.shown = Nobody]
           b == [a EXCEPT !.loading = FALSE]
           c == [shown |-> sessions[s].user, csrf |-> s, loading |-> FALSE]
           shows == IF s = 0 THEN b ELSE c
<1>1. inquiry[p] \in Answered
    BY SamePage DEF TakeSession, NoRead
<1>2. s \in Tokens /\ (s # 0 => s \in Ids /\ sessions[s] \in SessionRow)
    BY <1>1 DEF Answered, Tokens, SessionsInv, Known, AskedKnown
<1>3. a \in Window /\ a.shown = Nobody
    BY SamePage DEF Window
<1>4. window' = [window EXCEPT ![p] = shows]
    BY Zenon DEF TakeSession
<1>5. s # 0 => c \in Window /\ Given(sessions, c.csrf, c.shown)
    BY <1>2 DEF Window, SessionRow, Given
<1> HIDE DEF a
<1>6. b \in Window /\ b.shown = Nobody
    BY <1>3 DEF Window
<1> HIDE DEF b, c, s
<1>7. shows \in Window /\ (shows.shown # Nobody => Given(sessions, shows.csrf, shows.shown))
    BY <1>5, <1>6
<1> HIDE DEF shows
<1>8. /\ inquiry' = [inquiry EXCEPT ![p] = NoRead]
      /\ UNCHANGED <<standing, sessions, links, jobs, cookie, call>>
    BY DEF TakeSession
<1>9. Kept(sessions') /\ (shows.shown # Nobody => Given(sessions', shows.csrf, shows.shown))
    BY <1>7, <1>8, SamePage
<1> QED
    BY <1>4, <1>7, <1>8, <1>9, SamePage, PageInv

LEMMA LoseSessionInv ==
    ASSUME SessionsInv, NEW p \in Pages, LoseSession(p)
    PROVE  SessionsInv'
<1>1. /\ inquiry' = [inquiry EXCEPT ![p] = NoRead]
      /\ UNCHANGED <<standing, sessions, links, jobs, cookie, window, call>>
    BY DEF LoseSession
<1>2. Kept(sessions') /\ ShownKnown(p)'
    BY <1>1, SamePage, KnownKept
<1>3. window[p].shown # Nobody /\ window[p].csrf # 0
      => Given(sessions', window[p].csrf, window[p].shown)
    BY <1>1, <1>2 DEF ShownKnown
<1>4. /\ window' = [window EXCEPT ![p] = window[p]] /\ call' = [call EXCEPT ![p] = call[p]]
      /\ cookie' \in [Pages -> Tokens]
    BY <1>1, SamePage
<1>5. window[p] \in Window /\ call[p] \in LoginCall \cup LogoutCall \cup {NoCall}
      /\ NoRead \in Answered \cup {NoRead}
      /\ (NoRead \in Answered /\ NoRead.session # 0
            => sessions'[NoRead.session] \in SessionRow)
      /\ inquiry' = [inquiry EXCEPT ![p] = NoRead]
      /\ UNCHANGED <<standing, links, jobs>>
    BY <1>1, SamePage
<1> QED
    BY <1>2, <1>3, <1>4, <1>5, PageInv, Zenon

LEMMA SecurityInv ==
    ASSUME SessionsInv, NEW p \in Pages, NEW ended \in BOOLEAN, Security(p, ended)
    PROVE  SessionsInv'
<1> DEFINE shows == [shown |-> IF ended THEN Nobody ELSE window[p].shown, csrf |-> 0,
                     loading |-> ~ended]
<1>1. shows \in Window /\ shows.csrf = 0
    <2>1. (~ended) \in BOOLEAN
        BY Zenon
    <2> QED
        BY <2>1, SamePage DEF Window, Tokens
<1>2. window' = [window EXCEPT ![p] = shows]
    BY Zenon DEF Security
<1> HIDE DEF shows
<1>3. /\ inquiry' = [inquiry EXCEPT ![p] = NoRead]
      /\ UNCHANGED <<standing, sessions, links, jobs, cookie, call>>
    BY DEF Security
<1>4. Kept(sessions')
    BY <1>3, SamePage
<1> QED
    BY <1>1, <1>2, <1>3, <1>4, SamePage, PageInv

-----------------------------------------------------------------------------
(* Passwords and links *)

\* A step that leaves the pages alone
LEMMA ElsewhereInv ==
    ASSUME SessionsInv, Kept(sessions'), LinkRows(links'), jobs' \subseteq Change \cup Reset,
           standing' \in [People -> Standings], UNCHANGED <<cookie, window, inquiry, call>>
    PROVE  SessionsInv'
<1>1. Known'
    BY SameKnown
<1>2. TokensKnown'
    BY DEF SessionsInv, TokensKnown
<1> QED
    BY <1>1, <1>2 DEF SessionsInv, Kept

LEMMA OpenOfKept ==
    ASSUME SessionsInv, NEW u
    PROVE  Kept(EndedWhere(OpenOf(u)))
BY EndedKept DEF OpenOf, SessionsInv

LEMMA OthersKept ==
    ASSUME SessionsInv, NEW u, NEW s
    PROVE  Kept(OthersEnded(u, s))
BY EndedKept DEF OthersEnded, OpenOf, SessionsInv

LEMMA BeginChangeInv ==
    ASSUME SessionsInv, NEW p \in Pages, BeginChange(p)
    PROVE  SessionsInv'
<1> DEFINE job == [kind |-> "change", user |-> sessions[cookie[p]].user,
                   session |-> cookie[p]]
<1>1. cookie[p] \in Tokens /\ Live(cookie[p])
    BY DEF BeginChange, Writes, Accepts, SessionsInv, TokensKnown
<1>2. job \in Change
    BY <1>1, LiveFacts DEF Change
<1>3. jobs' = jobs \cup {job}
    BY DEF BeginChange
<1>4. UNCHANGED <<standing, sessions, links, cookie, window, inquiry, call>>
    BY DEF BeginChange
<1> HIDE DEF job
<1>5. jobs' \subseteq Change \cup Reset
    BY <1>2, <1>3 DEF SessionsInv, TokensKnown
<1>6. Kept(sessions') /\ LinkRows(links') /\ standing' \in [People -> Standings]
    BY <1>4, SameKept DEF SessionsInv
<1> QED
    BY <1>4, <1>5, <1>6, ElsewhereInv

\* The transaction ends every other session of the account before any of them could be
\* said to have outlived the password.
LEMMA FinishChangeInv ==
    ASSUME SessionsInv, NEW j \in jobs, FinishChange(j)
    PROVE  SessionsInv'
<1> DEFINE others == OpenOf(j.user) \ {j.session}
           ended == OthersEnded(j.user, j.session)
<1>1. /\ sessions' = Outdated(ended, others) /\ links' = WithoutLinks(j.user)
      /\ jobs' \subseteq jobs
      /\ UNCHANGED <<standing, cookie, window, inquiry, call>>
    BY DEF FinishChange
<1>2. /\ Kept(ended)
      /\ \A s \in Ids : ended[s].state = "open" => s \notin others
    BY EndedKept DEF OthersEnded, OpenOf, SessionsInv
<1> HIDE DEF others, ended
<1>3. Kept(sessions')
    BY <1>1, <1>2, OutdatedKept
<1>4. LinkRows(links')
    BY <1>1, WithoutLinksRows DEF SessionsInv
<1>5. jobs' \subseteq Change \cup Reset /\ standing' \in [People -> Standings]
    BY <1>1 DEF SessionsInv, TokensKnown
<1> QED
    BY <1>1, <1>3, <1>4, <1>5, ElsewhereInv

LEMMA EditProfileInv ==
    ASSUME SessionsInv, NEW p \in Pages, NEW email \in BOOLEAN, EditProfile(p, email)
    PROVE  SessionsInv'
<1> DEFINE u == sessions[cookie[p]].user
<1>1. /\ sessions' = OthersEnded(u, cookie[p])
      /\ links' \in {links, WithoutLinks(u)}
      /\ UNCHANGED <<standing, jobs, cookie, window, inquiry, call>>
    BY DEF EditProfile
<1> HIDE DEF u
<1>2. Kept(sessions')
    BY <1>1, OthersKept
<1>3. LinkRows(links')
    BY <1>1, WithoutLinksRows DEF SessionsInv
<1>4. jobs' \subseteq Change \cup Reset /\ standing' \in [People -> Standings]
    BY <1>1 DEF SessionsInv, TokensKnown
<1> QED
    BY <1>1, <1>2, <1>3, <1>4, ElsewhereInv

\* The links of the account made before are gone, so the new one is the only that works.
LEMMA NewLinkInv ==
    ASSUME SessionsInv, NEW u \in People, NewLink(u)
    PROVE  SessionsInv'
<1> DEFINE i == Lowest(links)
           row == [state |-> "valid", user |-> u, resets |-> 0]
           old == WithoutLinks(u)
<1>1. /\ links' = [old EXCEPT ![i] = row]
      /\ UNCHANGED <<standing, sessions, jobs, cookie, window, inquiry, call>>
    BY DEF NewLink
<1>2. i \in LinkIds
    <2>1. DOMAIN links = 1..MaxLinks
        BY DEF SessionsInv, LinkRows, LinkIds
    <2>2. Spare(links)
        BY DEF NewLink
    <2> QED
        BY <2>1, <2>2, LowestFacts, SessionBounds DEF LinkIds
<1>3. row \in LinkRow /\ row.resets = 0 /\ row.user = u
    BY DEF LinkRow
<1>4. /\ LinkRows(old) /\ DOMAIN old = LinkIds
      /\ \A l \in LinkIds : old[l].state = "valid" => old[l].user # u
    <2>1. LinkRows(links)
        BY DEF SessionsInv
    <2>2. \A l \in LinkIds : old[l].state = "valid" => old[l] = links[l] /\ links[l].user # u
        BY <2>1, WithoutLinksRows
    <2>3. LinkRows(old) /\ DOMAIN old = LinkIds
        BY <2>1, WithoutLinksRows
    <2> HIDE DEF old
    <2> QED
        BY <2>2, <2>3
<1> HIDE DEF i, row, old
<1>5. \A l \in LinkIds : links'[l] = IF l = i THEN row ELSE old[l]
    BY <1>1, <1>4
<1>6. links' \in [LinkIds -> LinkRow \cup {Unused}]
    BY <1>1, <1>3, <1>4 DEF LinkRows
<1>7. \A l \in LinkIds : links'[l] \in LinkRow =>
          links'[l].resets = 0 \/ (links'[l].resets = 1 /\ links'[l].state = "gone")
    BY <1>3, <1>4, <1>5 DEF LinkRows
<1>8. ASSUME NEW k \in LinkIds, NEW l \in LinkIds,
             links'[k].state = "valid", links'[l].state = "valid",
             links'[k].user = links'[l].user
      PROVE  k = l
    <2>1. CASE k # i /\ l # i
        BY <1>4, <1>5, <1>8, <2>1 DEF LinkRows
    <2>2. CASE k = i \/ l = i
        BY <1>3, <1>4, <1>5, <1>8, <2>2
    <2> QED
        BY <2>1, <2>2
<1>9. LinkRows(links')
    BY <1>6, <1>7, <1>8 DEF LinkRows
<1>10. Kept(sessions') /\ jobs' \subseteq Change \cup Reset /\ standing' \in [People -> Standings]
    BY <1>1, SameKept DEF SessionsInv, TokensKnown
<1> QED
    BY <1>1, <1>9, <1>10, ElsewhereInv

LEMMA BeginResetInv ==
    ASSUME SessionsInv, NEW l \in DOMAIN links, BeginReset(l)
    PROVE  SessionsInv'
<1>1. PICK try \in 1..MaxJobs : jobs' = jobs \cup {[kind |-> "reset", link |-> l, try |-> try]}
    BY DEF BeginReset
<1> DEFINE job == [kind |-> "reset", link |-> l, try |-> try]
<1>2. job \in Reset
    <2>1. l \in LinkIds /\ try \in Nat
        BY DEF SessionsInv, LinkRows
    <2> QED
        BY <2>1 DEF Reset
<1>3. jobs' = jobs \cup {job}
    BY <1>1
<1>4. UNCHANGED <<standing, sessions, links, cookie, window, inquiry, call>>
    BY DEF BeginReset
<1> HIDE DEF job
<1>5. jobs' \subseteq Change \cup Reset
    BY <1>2, <1>3 DEF SessionsInv, TokensKnown
<1>6. Kept(sessions') /\ LinkRows(links') /\ standing' \in [People -> Standings]
    BY <1>4, SameKept DEF SessionsInv
<1> QED
    BY <1>4, <1>5, <1>6, ElsewhereInv

LEMMA UsedRow ==
    ASSUME NEW row \in LinkRow
    PROVE  /\ [row EXCEPT !.resets = @ + 1] \in LinkRow
           /\ [row EXCEPT !.resets = @ + 1].state = row.state
           /\ [row EXCEPT !.resets = @ + 1].resets = row.resets + 1
BY DEF LinkRow

\* A link that still works has reset nothing, and goes as it resets the password.
LEMMA FinishResetInv ==
    ASSUME SessionsInv, NEW j \in jobs, FinishReset(j)
    PROVE  SessionsInv'
<1>1. jobs' \subseteq jobs /\ UNCHANGED <<standing, cookie, window, inquiry, call>>
    BY DEF FinishReset
<1>2. jobs' \subseteq Change \cup Reset /\ standing' \in [People -> Standings]
    BY <1>1 DEF SessionsInv, TokensKnown
<1>3. CASE ~StillUsable(j.link)
    <2>1. UNCHANGED <<sessions, links>>
        BY <1>3 DEF FinishReset
    <2>2. Kept(sessions') /\ LinkRows(links')
        BY <2>1, SameKept DEF SessionsInv
    <2> QED
        BY <1>1, <1>2, <2>2, ElsewhereInv
<1>4. CASE StillUsable(j.link)
    <2> DEFINE u == links[j.link].user
               ended == EndedWhere(OpenOf(u))
               old == WithoutLinks(u)
               row == [old[j.link] EXCEPT !.resets = @ + 1]
    <2>1. sessions' = Outdated(ended, OpenOf(u))
        BY <1>4, Zenon DEF FinishReset
    <2>2. links' = [old EXCEPT ![j.link] = row]
        <3>1. links' = [old EXCEPT ![j.link].resets = @ + 1]
            BY <1>4, Zenon DEF FinishReset
        <3> QED
            BY <3>1, Zenon
    <2>3. /\ Kept(ended)
          /\ \A s \in Ids : ended[s].state = "open" => s \notin OpenOf(u)
        BY EndedKept DEF OpenOf, SessionsInv
    <2>4. Kept(sessions')
        <3> HIDE DEF ended
        <3> QED
            BY <2>1, <2>3, OutdatedKept
    <2>5. j.link \in LinkIds
        <3>1. j.kind = "reset" /\ j \in Change \cup Reset
            BY DEF FinishReset, SessionsInv, TokensKnown
        <3>2. \A c \in Change : c.kind = "change"
            BY DEF Change
        <3>3. j \in Reset
            BY <3>1, <3>2
        <3> QED
            BY <3>3 DEF Reset
    <2>6. links[j.link] \in LinkRow /\ links[j.link].state = "valid" /\ links[j.link].resets = 0
        BY <1>4, <2>5, UsableFacts DEF StillUsable, SessionsInv
    <2>7. /\ LinkRows(old) /\ DOMAIN old = LinkIds
          /\ \A l \in LinkIds : old[l].state = "valid" => old[l] = links[l] /\ links[l].user # u
          /\ old[j.link] \in LinkRow /\ old[j.link].resets = 0
        <3>1. LinkRows(links)
            BY DEF SessionsInv
        <3> QED
            BY <2>5, <2>6, <3>1, WithoutLinksRows
    <2>8. row \in LinkRow /\ row.state = old[j.link].state /\ row.resets = old[j.link].resets + 1
        BY <2>7, UsedRow, Zenon
    <2>9. u = links[j.link].user
        OBVIOUS
    <2> HIDE DEF old, row, u
    <2>10. row.resets = 1
        BY <2>7, <2>8
    <2>11. old[j.link].state # "valid"
        BY <2>5, <2>7, <2>9
    <2>12. row.state = "gone"
        BY <2>7, <2>8, <2>11 DEF LinkRow
    <2>13. \A l \in LinkIds : links'[l] = IF l = j.link THEN row ELSE old[l]
        BY <2>2, <2>7
    <2>14. links' \in [LinkIds -> LinkRow \cup {Unused}]
        BY <2>2, <2>7, <2>8 DEF LinkRows
    <2>15. LinkRows(links')
        BY <2>7, <2>10, <2>12, <2>13, <2>14 DEF LinkRows
    <2> QED
        BY <1>1, <1>2, <2>4, <2>15, ElsewhereInv
<1> QED
    BY <1>3, <1>4

-----------------------------------------------------------------------------
(* Time, and administrators *)

LEMMA LinkExpiresInv ==
    ASSUME SessionsInv, NEW l \in DOMAIN links, LinkExpires(l)
    PROVE  SessionsInv'
<1> DEFINE row == [links[l] EXCEPT !.state = "gone"]
<1>1. LinkRows(links) /\ l \in LinkIds
    BY DEF SessionsInv, LinkRows
<1>2. links[l] \in LinkRow /\ links[l].resets = 0
    BY <1>1, UsableFacts DEF LinkExpires
<1>3. row \in LinkRow /\ row.state = "gone" /\ row.resets = 0
    BY <1>2, GoneRow
<1>4. /\ links' = [links EXCEPT ![l] = row]
      /\ UNCHANGED <<standing, sessions, jobs, cookie, window, inquiry, call>>
    BY Zenon DEF LinkExpires
<1> HIDE DEF row
<1>5. \A k \in LinkIds : links'[k] = IF k = l THEN row ELSE links[k]
    BY <1>1, <1>4 DEF LinkRows
<1>6. links' \in [LinkIds -> LinkRow \cup {Unused}]
    BY <1>1, <1>3, <1>4 DEF LinkRows
<1>7. LinkRows(links')
    BY <1>1, <1>3, <1>5, <1>6 DEF LinkRows
<1>8. Kept(sessions') /\ jobs' \subseteq Change \cup Reset /\ standing' \in [People -> Standings]
    BY <1>4, SameKept DEF SessionsInv, TokensKnown
<1> QED
    BY <1>4, <1>7, <1>8, ElsewhereInv

LEMMA SessionExpiresInv ==
    ASSUME SessionsInv, NEW s \in Ids, SessionExpires(s)
    PROVE  SessionsInv'
<1>1. /\ sessions' = EndedWhere({s}) /\ Open(s)
      /\ UNCHANGED <<standing, links, jobs, cookie, window, inquiry, call>>
    BY DEF SessionExpires
<1>2. Kept(sessions')
    BY <1>1, EndedKept DEF SessionsInv
<1>3. LinkRows(links') /\ jobs' \subseteq Change \cup Reset /\ standing' \in [People -> Standings]
    BY <1>1 DEF SessionsInv, TokensKnown
<1> QED
    BY <1>1, <1>2, <1>3, ElsewhereInv

LEMMA StandingInv ==
    ASSUME SessionsInv, NEW u \in People, DisableUser(u) \/ EnableUser(u) \/ DeleteUser(u)
    PROVE  SessionsInv'
<1>1. /\ sessions' \in {sessions, EndedWhere(OpenOf(u))} /\ links' \in {links, WithoutLinks(u)}
      /\ UNCHANGED <<jobs, cookie, window, inquiry, call>>
    BY DEF DisableUser, EnableUser, DeleteUser
<1>2. standing' \in [People -> Standings]
    BY DEF DisableUser, EnableUser, DeleteUser, Standings, SessionsInv
<1>3. Kept(sessions')
    BY <1>1, SameKept, OpenOfKept DEF SessionsInv
<1>4. LinkRows(links')
    BY <1>1, WithoutLinksRows DEF SessionsInv
<1>5. jobs' \subseteq Change \cup Reset
    BY <1>1 DEF SessionsInv, TokensKnown
<1> QED
    BY <1>1, <1>2, <1>3, <1>4, <1>5, ElsewhereInv

-----------------------------------------------------------------------------
(* Every behaviour *)

LEMMA FirstState ==
    ASSUME SessionsInit
    PROVE  SessionsInv
<1>1. standing \in [People -> Standings] /\ jobs = {}
    BY DEF SessionsInit, Standings
<1>2. SessionRows(sessions) /\ LinkRows(links)
    BY IdFacts DEF SessionsInit, SessionRows, LinkRows, LinkIds
<1> DEFINE shows == [shown |-> Nobody, csrf |-> 0, loading |-> FALSE]
<1>3. shows \in Window /\ shows.shown = Nobody
    BY DEF Window, Tokens
<1>4. window = [p \in Pages |-> shows]
    BY DEF SessionsInit
<1> HIDE DEF shows
<1>5. cookie = [p \in Pages |-> 0] /\ inquiry = [p \in Pages |-> NoRead]
      /\ call = [p \in Pages |-> NoCall]
    BY DEF SessionsInit
<1>6. TokensKnown
    BY <1>1, <1>3, <1>4, <1>5 DEF TokensKnown, Tokens
<1>7. NoRead \notin Answered /\ NoCall \notin LoginCall
    <2>1. NoRead.state = "none" /\ NoCall.kind = "none"
        BY DEF NoRead, NoCall
    <2>2. \A row \in Answered : row.state = "answered"
        BY DEF Answered
    <2>3. \A row \in LoginCall : row.kind = "login"
        BY DEF LoginCall
    <2> QED
        BY <2>1, <2>2, <2>3, Zenon
<1>8. Known
    BY <1>3, <1>4, <1>5, <1>7 DEF Known, ShownKnown, AskedKnown, CalledKnown
<1> QED
    BY <1>1, <1>2, <1>6, <1>8 DEF SessionsInv

LEMMA EveryStep ==
    ASSUME SessionsInv, [SessionsNext]_session
    PROVE  SessionsInv'
<1>1. CASE UNCHANGED session
    <2>1. UNCHANGED <<standing, sessions, links, jobs, cookie, window, inquiry, call>>
        BY <1>1 DEF session
    <2>2. Kept(sessions')
        BY <2>1, SameKept DEF SessionsInv
    <2> QED
        BY <2>1, <2>2, ElsewhereInv DEF SessionsInv, TokensKnown
<1>2. ASSUME NEW p \in Pages,
             \/ \E u \in People : BeginLogin(p, u)
             \/ FinishLogin(p) \/ TakeLogin(p) \/ LoseLogin(p)
             \/ \E b \in BOOLEAN : Logout(p, b) \/ EndLogout(p, b) \/ Security(p, b)
             \/ AskSession(p) \/ TakeSession(p) \/ LoseSession(p)
             \/ BeginChange(p)
             \/ \E email \in BOOLEAN : EditProfile(p, email)
      PROVE  SessionsInv'
    BY <1>2, BeginLoginInv, FinishLoginInv, TakeLoginInv, LoseLoginInv, LogoutInv,
       EndLogoutInv, SecurityInv, AskSessionInv, TakeSessionInv, LoseSessionInv,
       BeginChangeInv, EditProfileInv
<1>3. ASSUME NEW j \in jobs, FinishChange(j) \/ FinishReset(j)
      PROVE  SessionsInv'
    BY <1>3, FinishChangeInv, FinishResetInv
<1>4. ASSUME NEW l \in DOMAIN links, BeginReset(l) \/ LinkExpires(l)
      PROVE  SessionsInv'
    BY <1>4, BeginResetInv, LinkExpiresInv
<1>5. ASSUME NEW u \in People,
             \/ ForgotPassword(u) \/ CreateResetLink(u)
             \/ DisableUser(u) \/ EnableUser(u) \/ DeleteUser(u)
      PROVE  SessionsInv'
    BY <1>5, NewLinkInv, StandingInv DEF ForgotPassword, CreateResetLink
<1>6. ASSUME NEW s \in Ids, SessionExpires(s)
      PROVE  SessionsInv'
    BY <1>6, SessionExpiresInv
<1> QED
    BY <1>1, <1>2, <1>3, <1>4, <1>5, <1>6 DEF SessionsNext

\* The rows of sessions and links, and what pages hold of them, agree in every state.
THEOREM SessionsInvariant == SessionsSpec => []SessionsInv
<1>1. SessionsInit => SessionsInv
    BY FirstState
<1>2. SessionsInv /\ [SessionsNext]_session => SessionsInv'
    BY EveryStep
<1> QED
    BY <1>1, <1>2, PTL DEF SessionsSpec

\* requireAuth and assertCsrf together: what a page writes is written as the user it shows,
\* under a session that has seen no password set by another.
THEOREM WritesServedAsShown == SessionsSpec => []ServedAsShown
<1>1. SessionsInv => ServedAsShown
    <2> SUFFICES ASSUME SessionsInv, NEW p \in Pages, Writes(p)
                 PROVE  /\ sessions[cookie[p]].user = window[p].shown
                        /\ ~sessions[cookie[p]].outdated
        BY DEF ServedAsShown
    <2>1. cookie[p] \in Tokens /\ Live(cookie[p]) /\ window[p].csrf = cookie[p]
          /\ window[p].shown # Nobody
        BY DEF Writes, InUse, Accepts, Matches, SessionsInv, TokensKnown
    <2>2. cookie[p] \in Ids /\ sessions[cookie[p]] \in SessionRow
        BY <2>1, LiveFacts
    <2>3. Given(sessions, window[p].csrf, window[p].shown)
        BY <2>1, <2>2, IdFacts DEF SessionsInv, Known, ShownKnown
    <2> QED
        BY <2>1, <2>2, <2>3 DEF Given, SessionsInv, SessionRows
<1> QED
    BY <1>1, SessionsInvariant, PTL

\* consumeAuthToken and createAuthToken: a link resets a password once however often it is
\* submitted at a time, and an account has one that works at most.
THEOREM LinksUsedOnce == SessionsSpec => []LinkUsedOnce
<1>1. SessionsInv => LinkUsedOnce
    <2> SUFFICES ASSUME SessionsInv
                 PROVE  LinkUsedOnce
        OBVIOUS
    <2>1. LinkRows(links) /\ DOMAIN links = LinkIds
        BY DEF SessionsInv, LinkRows
    <2>2. \A l \in LinkIds : links[l] # Unused => links[l].resets <= 1
        BY <2>1 DEF LinkRows, LinkRow
    <2>3. \A k, l \in LinkIds :
             Usable(k) /\ Usable(l) /\ links[k].user = links[l].user => k = l
        BY <2>1 DEF LinkRows, Usable
    <2> QED
        BY <2>1, <2>2, <2>3 DEF LinkUsedOnce
<1> QED
    BY <1>1, SessionsInvariant, PTL
=============================================================================
