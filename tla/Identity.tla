------------------------------ MODULE Identity ------------------------------
(***************************************************************************)
(* Accounts and what identifies them (server/routes-auth.ts,               *)
(* server/identity.ts, server/admin/users-routes.ts): registration and its *)
(* review, user names, e-mail addresses proven by codes, employee numbers  *)
(* and the requests to change them.                                        *)
(*                                                                         *)
(* A request handler runs alone except where it awaits the password hash:  *)
(* a registration checks everything, awaits, and checks again inside its   *)
(* transaction; clearing an e-mail address awaits the password check with  *)
(* the account as the session described it.  Other requests come between.  *)
(*                                                                         *)
(* Passwords, sessions and display names are left out, and so are the      *)
(* limits on how often codes are sent.  A code that expires, is guessed    *)
(* wrong five times or whose row is removed is dead: all are refused       *)
(* alike.                                                                  *)
(***************************************************************************)
EXTENDS Naturals, FiniteSets

CONSTANTS
    Users,        \* bound: ids of accounts
    Names,        \* user names, normalised
    Emails,
    Numbers,      \* employee numbers, normalised
    Codes,        \* bound: rows of email_verification_challenges
    MaxRevision,  \* bound: submissions of one registration
    MaxRules      \* bound: revisions of the registration rules

VARIABLES
    account,     \* users: id -> row; rows removed by a rejection are absent
    number,      \* employee_numbers: number -> row
    pendingNum,  \* pending_registration_employee_numbers: user -> number
    request,     \* PENDING rows of profile_change_requests: user -> row
    code,        \* email_verification_challenges: id -> row
    rules,       \* the registration rules: whether mail is on, whether an address may be
                 \* left out where it is, and their revision
    registering, \* registrations that await their password hash: id -> what they ask
    clearing,    \* users whose clearing of the e-mail address awaits a password check
    reviewed,    \* the application an administrator has on screen: user -> it
    proofs,      \* history: how often each code has given an account an address
    surprised    \* history: whether an application was approved as nobody saw it

vars == <<account, number, pendingNum, request, code, rules, registering, clearing,
          reviewed, proofs, surprised>>

NoEmail == "none"
NoUser == "none"

ASSUME Sentinels == NoUser \notin Users \cup Names /\ NoEmail \notin Emails

Pending == {"PENDING_APPROVAL", "CHANGES_REQUESTED"}
Form == [name : Names, email : Emails \cup {NoEmail}, number : Numbers,
         code : Codes \cup {NoUser}, rules : 1..MaxRules]

Held(u) == {n \in DOMAIN number : number[n].user = u /\ number[n].active}

-----------------------------------------------------------------------------
NoRows == [x \in {} |-> {}]

With(table, x, row) == [y \in DOMAIN table \cup {x} |-> IF y = x THEN row ELSE table[y]]

Without(table, S) == [x \in DOMAIN table \ S |-> table[x]]

Numbering(u) == CHOOSE n \in Held(u) : TRUE

\* ensureUsernameAvailable, ensureEmailAvailable
NameFree(name, u) == \A v \in DOMAIN account \ {u} : account[v].name # name
EmailFree(email, u) ==
    email = NoEmail \/ \A v \in DOMAIN account \ {u} : account[v].email # email

\* ensureEmployeeNumberAvailable, not counting the registration of u and the profile
\* request of v
NumberFree(n, u, v) ==
    /\ n \notin DOMAIN number
    /\ \A w \in DOMAIN pendingNum \ {u} : pendingNum[w] # n
    /\ \A w \in DOMAIN request \ {v} : request[w].requested # n

\* verifyEmailChallenge with the right code
Verified(c, email, purpose, u) ==
    /\ c \in DOMAIN code
    /\ code[c] = [email |-> email, purpose |-> purpose, user |-> u, state |-> "open"]

\* Mutant of Consumed: the code stays open.
ConsumedNot(c) == code

\* consumeEmailChallenge
Consumed(c) == [code EXCEPT ![c].state = "used"]

\* An account is given the address that code c proves.
Proven(c) ==
    /\ code' = Consumed(c)
    /\ proofs' = With(proofs, c, IF c \in DOMAIN proofs THEN proofs[c] + 1 ELSE 1)

-----------------------------------------------------------------------------
(* Codes and rules *)

MayEditEmail(u) == account[u].status \in Pending \cup {"ACTIVE"}

MayBeSent(email, purpose, u) ==
    CASE purpose = "REGISTER" -> u = NoUser /\ EmailFree(email, NoUser)
      [] purpose = "EMAIL_CHANGE" ->
            u \in DOMAIN account /\ MayEditEmail(u) /\ EmailFree(email, u)
      [] OTHER -> u \in DOMAIN account /\ account[u].email = email

\* POST registration-email-code, email-change-code, old-email-code
SendCode(c, email, purpose, u) ==
    /\ rules.mail
    /\ c \notin DOMAIN code
    /\ MayBeSent(email, purpose, u)
    /\ code' = With(code, c, [email |-> email, purpose |-> purpose, user |-> u,
                              state |-> "open"])
    /\ UNCHANGED <<account, number, pendingNum, request, rules, registering, clearing,
                   reviewed, proofs, surprised>>

\* Ten minutes pass, or five wrong codes are entered.
CodeDies(c) ==
    /\ code[c].state = "open"
    /\ code' = [code EXCEPT ![c].state = "dead"]
    /\ UNCHANGED <<account, number, pendingNum, request, rules, registering, clearing,
                   reviewed, proofs, surprised>>

\* An administrator changes the registration rules.
ChangeRules(mail, optional) ==
    /\ rules.revision < MaxRules
    /\ rules' = [mail |-> mail, optional |-> optional, revision |-> rules.revision + 1]
    /\ UNCHANGED <<account, number, pendingNum, request, code, registering, clearing,
                   reviewed, proofs, surprised>>

-----------------------------------------------------------------------------
(* Registration *)

FormAccepted(form) ==
    /\ form.rules = rules.revision
    /\ IF form.email = NoEmail
       THEN rules.mail => rules.optional
       ELSE rules.mail /\ Verified(form.code, form.email, "REGISTER", NoUser)
    /\ NameFree(form.name, NoUser)
    /\ EmailFree(form.email, NoUser)
    /\ NumberFree(form.number, NoUser, NoUser)

\* POST /auth/register up to the password hash, which is awaited
BeginRegistration(u, form) ==
    /\ u \notin DOMAIN account \cup DOMAIN registering
    /\ FormAccepted(form)
    /\ registering' = With(registering, u, form)
    /\ UNCHANGED <<account, number, pendingNum, request, code, rules, clearing, reviewed,
                   proofs, surprised>>

\* Mutant of StillAccepted: what was checked before the hash is not checked again.
StillAcceptedUnchecked(form) == TRUE

StillAccepted(form) == FormAccepted(form)

\* The transaction of the registration, or its refusal
FinishRegistration(u) ==
    LET form == registering[u] IN
    /\ registering' = Without(registering, {u})
    /\ \/ /\ StillAccepted(form)
          /\ account' = With(account, u, [status |-> "PENDING_APPROVAL", name |-> form.name,
                                          email |-> form.email, revision |-> 1])
          /\ pendingNum' = With(pendingNum, u, form.number)
          /\ IF form.email = NoEmail THEN UNCHANGED <<code, proofs>> ELSE Proven(form.code)
       \/ /\ ~StillAccepted(form)
          /\ UNCHANGED <<account, pendingNum, code, proofs>>
    /\ UNCHANGED <<number, request, rules, clearing, reviewed, surprised>>

\* Mutant of Resubmitted: an edit keeps the revision of the application.
ResubmittedQuietly(row) == [row EXCEPT !.status = "PENDING_APPROVAL"]

\* updatePendingRegistration: the application is submitted once more.
Resubmitted(row) == [row EXCEPT !.status = "PENDING_APPROVAL", !.revision = @ + 1]

Editable(u) == account[u].status \in Pending /\ account[u].revision < MaxRevision

\* POST /auth/change-username
ChangeUsername(u, name) ==
    /\ account[u].name # name
    /\ NameFree(name, u)
    /\ \/ Editable(u) /\ account' = [account EXCEPT ![u] = Resubmitted([@ EXCEPT !.name = name])]
       \/ account[u].status = "ACTIVE" /\ account' = [account EXCEPT ![u].name = name]
    /\ UNCHANGED <<number, pendingNum, request, code, rules, registering, clearing, reviewed,
                   proofs, surprised>>

\* POST /auth/profile-change-requests by an applicant: the application is edited.
EditApplication(u, n) ==
    /\ Editable(u)
    /\ n = pendingNum[u] \/ NumberFree(n, u, NoUser)
    /\ pendingNum' = With(pendingNum, u, n)
    /\ account' = [account EXCEPT ![u] = Resubmitted(@)]
    /\ UNCHANGED <<number, request, code, rules, registering, clearing, reviewed, proofs,
                   surprised>>

\* The same by a user: a request is made.  One that keeps the number changes the name.
RequestProfileChange(u, n) ==
    /\ account[u].status = "ACTIVE"
    /\ u \notin DOMAIN request
    /\ n = Numbering(u) \/ NumberFree(n, NoUser, NoUser)
    /\ request' = With(request, u, [current |-> Numbering(u), requested |-> n])
    /\ UNCHANGED <<account, number, pendingNum, code, rules, registering, clearing, reviewed,
                   proofs, surprised>>

-----------------------------------------------------------------------------
(* E-mail addresses: POST /auth/change-email *)

\* The address of u becomes email; pending says what the session knew of the account.
EmailChanged(u, email, pending) ==
    \/ /\ pending /\ Editable(u)
       /\ account' = [account EXCEPT ![u] = Resubmitted([@ EXCEPT !.email = email])]
    \/ ~pending /\ account' = [account EXCEPT ![u].email = email]

\* The code sent to the present address is asked for where mail is on.
OldProof(u, mail, old) ==
    (mail /\ account[u].email # NoEmail) => Verified(old, account[u].email, "EMAIL_OLD", u)

SetEmail(u, email, c, old) ==
    /\ MayEditEmail(u)
    /\ rules.mail
    /\ account[u].email # email
    /\ OldProof(u, TRUE, old)
    /\ EmailFree(email, u)
    /\ Verified(c, email, "EMAIL_CHANGE", u)
    /\ EmailChanged(u, email, account[u].status # "ACTIVE")
    /\ code' = IF account[u].email = NoEmail THEN Consumed(c)
               ELSE [Consumed(c) EXCEPT ![old].state = "used"]
    /\ proofs' = With(proofs, c, IF c \in DOMAIN proofs THEN proofs[c] + 1 ELSE 1)
    /\ UNCHANGED <<number, pendingNum, request, rules, registering, clearing, reviewed,
                   surprised>>

\* Clearing the address up to the password check, which is awaited
BeginClearing(u) ==
    /\ MayEditEmail(u)
    /\ u \notin DOMAIN clearing
    /\ clearing' = With(clearing, u, [pending |-> account[u].status # "ACTIVE",
                                      rules |-> rules])
    /\ UNCHANGED <<account, number, pendingNum, request, code, rules, registering, reviewed,
                   proofs, surprised>>

MayClear(u, old) ==
    /\ u \in DOMAIN account
    /\ account[u].email # NoEmail
    /\ OldProof(u, clearing[u].rules.mail, old)
    /\ clearing[u].rules = rules

\* The rest of it; the account may have been approved, disabled or deleted since.
FinishClearing(u, old) ==
    /\ MayClear(u, old)
    /\ EmailChanged(u, NoEmail, clearing[u].pending)
    /\ code' = IF rules.mail THEN Consumed(old) ELSE code
    /\ clearing' = Without(clearing, {u})
    /\ UNCHANGED <<number, pendingNum, request, rules, registering, reviewed, proofs, surprised>>

\* The password is wrong, or what follows is refused.
DropClearing(u) ==
    /\ clearing' = Without(clearing, {u})
    /\ UNCHANGED <<account, number, pendingNum, request, code, rules, registering, reviewed,
                   proofs, surprised>>

-----------------------------------------------------------------------------
(* Administrators: server/admin/users-routes.ts *)

Application(u) == [revision |-> account[u].revision, name |-> account[u].name,
                   email |-> account[u].email, number |-> pendingNum[u]]

\* GET /admin/users
Review(u) ==
    /\ account[u].status \in Pending
    /\ reviewed' = With(reviewed, u, Application(u))
    /\ UNCHANGED <<account, number, pendingNum, request, code, rules, registering, clearing,
                   proofs, surprised>>

\* checkEditVersion on application_revision
AsReviewed(u, overwrite) ==
    u \in DOMAIN reviewed /\ (overwrite \/ reviewed[u].revision = account[u].revision)

\* POST /admin/users/:id/approve
Approve(u, overwrite) ==
    /\ account[u].status = "PENDING_APPROVAL"
    /\ AsReviewed(u, overwrite)
    /\ NameFree(account[u].name, u) /\ EmailFree(account[u].email, u)
    /\ NumberFree(pendingNum[u], u, NoUser)
    /\ number' = With(number, pendingNum[u], [user |-> u, active |-> TRUE])
    /\ pendingNum' = Without(pendingNum, {u})
    /\ account' = [account EXCEPT ![u].status = "ACTIVE"]
    /\ reviewed' = Without(reviewed, {u})
    /\ surprised' = (surprised \/ (~overwrite /\ reviewed[u] # Application(u)))
    /\ UNCHANGED <<request, code, rules, registering, clearing, proofs>>

\* POST /admin/users/:id/return
Return(u, overwrite) ==
    /\ account[u].status = "PENDING_APPROVAL"
    /\ AsReviewed(u, overwrite)
    /\ account' = [account EXCEPT ![u].status = "CHANGES_REQUESTED"]
    /\ UNCHANGED <<number, pendingNum, request, code, rules, registering, clearing, reviewed,
                   proofs, surprised>>

\* POST /admin/users/:id/reject, deleteUnapprovedUser: the rows of the user go too,
\* and a clearing under way finds no account.
Reject(u, overwrite) ==
    /\ account[u].status \in Pending
    /\ AsReviewed(u, overwrite)
    /\ account' = Without(account, {u})
    /\ pendingNum' = Without(pendingNum, {u})
    /\ code' = [c \in DOMAIN code |-> IF code[c].user = u /\ code[c].state = "open"
                                     THEN [code[c] EXCEPT !.state = "dead"] ELSE code[c]]
    /\ reviewed' = Without(reviewed, {u})
    /\ clearing' = Without(clearing, {u})
    /\ UNCHANGED <<number, request, rules, registering, proofs, surprised>>

\* The active number of u becomes n; the one before stays u's, inactive.
Renumbered(u, n) ==
    IF n = Numbering(u) THEN number
    ELSE With([number EXCEPT ![Numbering(u)].active = FALSE], n,
              [user |-> u, active |-> TRUE])

\* POST /admin/profile-change-requests/:id/approve
ApproveProfile(u) ==
    /\ account[u].status = "ACTIVE"
    /\ \/ request[u].requested = Numbering(u)
       \/ NumberFree(request[u].requested, NoUser, u)
    /\ number' = Renumbered(u, request[u].requested)
    /\ request' = Without(request, {u})
    /\ UNCHANGED <<account, pendingNum, code, rules, registering, clearing, reviewed, proofs,
                   surprised>>

\* POST /admin/profile-change-requests/:id/reject, and DELETE by the user
EndRequest(u) ==
    /\ request' = Without(request, {u})
    /\ UNCHANGED <<account, number, pendingNum, code, rules, registering, clearing, reviewed,
                   proofs, surprised>>

\* PATCH /admin/users/:id/profile
UpdateProfile(u, n) ==
    /\ account[u].status \in {"ACTIVE", "DISABLED"}
    /\ u \notin DOMAIN request
    /\ n = Numbering(u) \/ NumberFree(n, NoUser, NoUser)
    /\ number' = Renumbered(u, n)
    /\ UNCHANGED <<account, pendingNum, request, code, rules, registering, clearing, reviewed,
                   proofs, surprised>>

\* Mutant of Cancelled: disabling an account leaves its request to be reviewed.
CancelledNot(u) == request

\* What disabling an account does to its profile request.
Cancelled(u) == Without(request, {u})

\* POST /admin/users/:id/disable, enable
Disable(u) ==
    /\ account[u].status = "ACTIVE"
    /\ account' = [account EXCEPT ![u].status = "DISABLED"]
    /\ request' = Cancelled(u)
    /\ UNCHANGED <<number, pendingNum, code, rules, registering, clearing, reviewed, proofs,
                   surprised>>

Enable(u) ==
    /\ account[u].status = "DISABLED"
    /\ account' = [account EXCEPT ![u].status = "ACTIVE"]
    /\ UNCHANGED <<number, pendingNum, request, code, rules, registering, clearing, reviewed,
                   proofs, surprised>>

\* DELETE FROM employee_numbers WHERE user_id = ?
Released(u) == Without(number, {n \in DOMAIN number : number[n].user = u})

\* DELETE /admin/users/:id, deleteUserRecords: the name and the address are free again.
Delete(u) ==
    /\ account[u].status = "DISABLED"
    /\ account' = [account EXCEPT ![u].status = "DELETED", ![u].name = NoUser,
                                  ![u].email = NoEmail]
    /\ number' = Released(u)
    /\ request' = Without(request, {u})
    /\ code' = [c \in DOMAIN code |-> IF code[c].user = u /\ code[c].state = "open"
                                     THEN [code[c] EXCEPT !.state = "dead"] ELSE code[c]]
    /\ UNCHANGED <<pendingNum, rules, registering, clearing, reviewed, proofs, surprised>>

-----------------------------------------------------------------------------
Init ==
    /\ account = NoRows /\ number = NoRows /\ pendingNum = NoRows /\ request = NoRows
    /\ code = NoRows /\ registering = NoRows /\ clearing = NoRows /\ reviewed = NoRows
    /\ rules = [mail |-> TRUE, optional |-> TRUE, revision |-> 1]
    /\ proofs = NoRows
    /\ surprised = FALSE

CodeStep ==
    \/ \E c \in Codes, email \in Emails, u \in Users \cup {NoUser},
          purpose \in {"REGISTER", "EMAIL_CHANGE", "EMAIL_OLD"} : SendCode(c, email, purpose, u)
    \/ \E c \in DOMAIN code : CodeDies(c)
    \/ \E mail, optional \in BOOLEAN : ChangeRules(mail, optional)

UserStep ==
    \/ \E u \in Users, form \in Form : BeginRegistration(u, form)
    \/ \E u \in DOMAIN registering : FinishRegistration(u)
    \/ \E u \in DOMAIN account :
          \/ \E name \in Names : ChangeUsername(u, name)
          \/ \E n \in Numbers : EditApplication(u, n) \/ RequestProfileChange(u, n)
          \/ \E email \in Emails, c, old \in Codes : SetEmail(u, email, c, old)
          \/ BeginClearing(u)
    \/ \E u \in DOMAIN clearing :
          \/ \E old \in Codes : FinishClearing(u, old)
          \/ DropClearing(u)

AdminStep ==
    \/ \E u \in DOMAIN account :
          \/ Review(u)
          \/ \E overwrite \in BOOLEAN :
                Approve(u, overwrite) \/ Return(u, overwrite) \/ Reject(u, overwrite)
          \/ \E n \in Numbers : UpdateProfile(u, n)
          \/ Disable(u) \/ Enable(u) \/ Delete(u)
    \/ \E u \in DOMAIN request : ApproveProfile(u) \/ EndRequest(u)

Next == CodeStep \/ UserStep \/ AdminStep

Spec == Init /\ [][Next]_vars

-----------------------------------------------------------------------------
(* Properties *)

Claims(n) ==
    {u \in Users :
        \/ n \in DOMAIN number /\ number[n].user = u
        \/ u \in DOMAIN pendingNum /\ pendingNum[u] = n
        \/ u \in DOMAIN request /\ request[u].requested = n}

\* An employee number, active, given up, applied for or asked for, belongs to one
\* account, and so do a user name and an address, although registrations are checked
\* before their password is hashed and committed after it.  An account has one number:
\* one applied for while it is reviewed, an active one afterwards, none once deleted.
ClaimedOnce ==
    /\ \A n \in Numbers : Cardinality(Claims(n)) <= 1
    /\ \A u \in DOMAIN account :
          /\ u \in DOMAIN pendingNum <=> account[u].status \in Pending
          /\ Cardinality(Held(u)) = IF account[u].status \in {"ACTIVE", "DISABLED"} THEN 1 ELSE 0
    /\ \A u, v \in DOMAIN account :
          u # v => /\ account[u].name = account[v].name => account[u].name = NoUser
                   /\ account[u].email = account[v].email => account[u].email = NoEmail

\* A profile request that can still be approved is an active account's, and the number
\* it shows as the present one is.
RequestsCurrent ==
    \A u \in DOMAIN request :
        account[u].status = "ACTIVE" /\ request[u].current = Numbering(u)

\* One code gives at most one account an address, whoever submits it again meanwhile.
CodeUsedOnce == \A c \in DOMAIN proofs : proofs[c] = 1

\* Unless the administrator confirms an overwrite, an application is approved as it was
\* on screen: every edit an applicant can make counts.
ApprovedAsReviewed == ~surprised

\* What administrators decide on is what there is: requests and applications.
ReviewsCurrent == RequestsCurrent /\ ApprovedAsReviewed

=============================================================================
