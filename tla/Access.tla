------------------------------- MODULE Access -------------------------------
(***************************************************************************)
(* Applications for the use of a machine (server/routes-schedule.ts,       *)
(* server/admin/access-routes.ts, server/machine-access.ts,                *)
(* server/admin/machine-service.ts) and the reminders reviewers get of     *)
(* those that wait (server/admin-email-reminders.ts).                      *)
(*                                                                         *)
(* One user and one machine: applications of others meet in nothing but    *)
(* the reminders, and the reminders of one reviewer are as those of        *)
(* another. A user without a membership applies for one; a member whose    *)
(* membership expires applies for a later date. An application carries the *)
(* date it asks for and lapses on it; administrators change that date,     *)
(* approve or reject, each from the list on the screen; meanwhile the      *)
(* membership runs out, is removed, or its owner becomes a manager of the  *)
(* machine. Each handler is one transaction, after one that rejects the    *)
(* applications that have lapsed.                                          *)
(*                                                                         *)
(* Days stand for dates.  What a membership means for bookings is in       *)
(* Scheduling; deletion of the machine or the account is left out.         *)
(***************************************************************************)
EXTENDS Naturals, FiniteSets

CONSTANTS
    Reviewers,     \* who may manage the machine
    MaxDay,        \* bound: days
    MaxRequests,   \* bound: applications
    MaxVersion     \* bound: changes of one application

ASSUME Bounds == MaxDay \in Nat /\ MaxRequests \in Nat /\ MaxVersion \in Nat \ {0}

VARIABLES
    day,
    member,      \* machine_access_memberships: the expiry date, or NoMember
    manager,     \* machine_admins
    active,      \* users.status = 'ACTIVE'
    requests,    \* machine_access_requests: id -> row
    screen,      \* reviewer -> the pending application on the screen, or Nothing
    told,        \* history: id -> notifications of its decision
    overdue,     \* applications that have waited for 15 minutes
    reachable,   \* one reviewer: has an address, wants reminders, and SMTP is set up
    reminded,    \* admin_request_email_reminders of that reviewer: <<id, version>>
    mails        \* history: <<id, version>> -> reminders queued

core == <<day, member, manager, active>>
mail == <<overdue, reachable, reminded, mails>>
vars == <<core, requests, screen, told, mail>>

NoMember == 0
Forever == MaxDay + 1
Dates == 1..Forever
Ids == DOMAIN requests
Nothing == [id |-> 0]

Row == [expires : Dates, previous : {NoMember} \cup Dates,
        status : {"PENDING", "APPROVED", "REJECTED", "WITHDRAWN"},
        version : 1..(MaxVersion + 1), reviewer : Reviewers \cup {"nobody", "SYSTEM"}]

TypeOK ==
    /\ member \in {NoMember} \cup Dates
    /\ \A i \in Ids : requests[i] \in Row
    /\ DOMAIN told = Ids

Pending == {i \in Ids : requests[i].status = "PENDING"}

\* A membership that has not expired
Live == member # NoMember /\ member > day

\* parseAccessExpiry
LaterDates == {e \in Dates : e > day}

-----------------------------------------------------------------------------
(* expireMachineAccessRequests *)

Decided(row, status, reviewer) ==
    [row EXCEPT !.status = status, !.reviewer = reviewer, !.version = @ + 1]

Lapsed == {i \in Pending : requests[i].expires <= day}

Swept == [i \in Ids |-> IF i \in Lapsed THEN Decided(requests[i], "REJECTED", "SYSTEM")
                                        ELSE requests[i]]

Told(ids) == [i \in Ids |-> IF i \in ids THEN told[i] + 1 ELSE told[i]]

\* Mutant of Sweep: whoever is not there to decide is not told.
SweepSilently ==
    /\ Lapsed # {}
    /\ requests' = Swept
    /\ UNCHANGED <<told, core, screen, mail>>

\* Every 15 s, and before every handler of memberships and applications.  A handler that
\* finds an application lapsed does nothing else.
Sweep ==
    /\ Lapsed # {}
    /\ requests' = Swept
    /\ told' = Told(Lapsed)
    /\ UNCHANGED <<core, screen, mail>>

\* The handlers below run after it.
Fresh == Lapsed = {}

-----------------------------------------------------------------------------
(* The user *)

Earlier == IF Live THEN member ELSE NoMember

\* POST machines/:id/access-requests
Apply(e) ==
    /\ Fresh /\ active /\ Pending = {}
    /\ Live => member # Forever
    /\ e \in LaterDates \ {Forever} /\ e > Earlier
    /\ Cardinality(Ids) < MaxRequests
    /\ LET i == Cardinality(Ids) + 1
       IN /\ requests' = [j \in Ids \cup {i} |->
                IF j = i THEN [expires |-> e, previous |-> Earlier, status |-> "PENDING",
                               version |-> 1, reviewer |-> "nobody"]
                ELSE requests[j]]
          /\ told' = [j \in Ids \cup {i} |-> IF j = i THEN 0 ELSE told[j]]
    /\ UNCHANGED <<core, screen, mail>>

\* DELETE machine-access/requests/:id
Withdraw(i) ==
    /\ i \in Pending /\ requests[i].expires > day /\ active
    /\ requests' = [requests EXCEPT ![i].status = "WITHDRAWN", ![i].version = @ + 1]
    /\ UNCHANGED <<core, screen, told, mail>>

-----------------------------------------------------------------------------
(* Reviewers *)

\* GET machines/:id/access
Look(r) ==
    /\ Fresh
    /\ \E i \in Pending : screen' = [screen EXCEPT ![r] =
          [id |-> i, version |-> requests[i].version, expires |-> requests[i].expires]]
    /\ UNCHANGED <<core, requests, told, mail>>

\* Mutant of Deciding: what is on the screen may be old.
DecidingBlindly(r, i, overwrite) ==
    /\ screen[r].id = i /\ i \in Pending
    /\ requests[i].expires > day

\* The application is on the reviewer's screen, as it is unless he means to overwrite.
Deciding(r, i, overwrite) ==
    /\ screen[r].id = i /\ i \in Pending
    /\ requests[i].expires > day
    /\ overwrite \/ screen[r].version = requests[i].version

\* PATCH requests/:id/expiry
EditRequest(r, i, e, overwrite) ==
    /\ Deciding(r, i, overwrite)
    /\ e \in LaterDates /\ e > requests[i].previous
    /\ requests[i].version < MaxVersion
    /\ requests' = [requests EXCEPT ![i].expires = e, ![i].version = @ + 1]
    /\ screen' = [screen EXCEPT ![r] = [id |-> i, version |-> requests[i].version + 1,
                                        expires |-> e]]
    /\ UNCHANGED <<core, told, mail>>

\* Applications become memberships only where there is none, renewals only where there is one.
Grantable(row) == IF row.previous = NoMember THEN ~Live ELSE member # NoMember

\* The later of what is asked for and what there is
Effective(row) == IF member # NoMember /\ member > row.expires THEN member ELSE row.expires

\* POST requests/:id/approve
Approve(r, i, overwrite) ==
    /\ Deciding(r, i, overwrite)
    /\ active
    /\ Grantable(requests[i])
    /\ member' = Effective(requests[i])
    /\ requests' = [requests EXCEPT ![i] = Decided(@, "APPROVED", r)]
    /\ told' = Told({i})
    /\ UNCHANGED <<day, manager, active, screen, mail>>

\* POST requests/:id/reject
Reject(r, i, overwrite) ==
    /\ Fresh
    /\ Deciding(r, i, overwrite)
    /\ requests' = [requests EXCEPT ![i] = Decided(@, "REJECTED", r)]
    /\ told' = Told({i})
    /\ UNCHANGED <<core, screen, mail>>

\* POST machines/:id/members
Invite(e) ==
    /\ Fresh /\ active /\ Pending = {} /\ ~Live
    /\ e \in LaterDates
    /\ member' = e
    /\ UNCHANGED <<day, manager, active, requests, screen, told, mail>>

\* Mutant of MayReschedule: applications that wait are no obstacle.
MayRescheduleAnytime == Fresh /\ member # NoMember /\ ~manager

MayReschedule == Fresh /\ member # NoMember /\ ~manager /\ Pending = {}

\* PATCH members/:userId/expiry
SetExpiry(e) ==
    /\ MayReschedule
    /\ e \in LaterDates
    /\ member' = e
    /\ UNCHANGED <<day, manager, active, requests, screen, told, mail>>

\* removeMachineMembership, by a reviewer or by the member: a renewal that waits ends too.
Remove(r) ==
    /\ member # NoMember
    /\ member' = NoMember
    /\ manager' = FALSE
    /\ LET renewals == {i \in Pending : requests[i].previous # NoMember}
       IN /\ requests' = [i \in Ids |-> IF i \in renewals THEN Decided(requests[i], "REJECTED", r)
                                        ELSE requests[i]]
          /\ told' = Told(renewals)
    /\ UNCHANGED <<day, active, screen, mail>>

\* assignMachineManager; the trigger machine_manager_permanent.  A membership that has
\* expired will do.
Assign ==
    /\ Fresh /\ active /\ member # NoMember /\ ~manager /\ Pending = {}
    /\ manager' = TRUE
    /\ member' = Forever
    /\ UNCHANGED <<day, active, requests, screen, told, mail>>

Dismiss ==
    /\ manager
    /\ manager' = FALSE
    /\ UNCHANGED <<day, member, active, requests, screen, told, mail>>

SetActive(b) ==
    /\ active # b
    /\ active' = b
    /\ UNCHANGED <<day, member, manager, requests, screen, told, mail>>

-----------------------------------------------------------------------------
(* processAdminRequestEmailReminders, every half hour *)

Waiting == {<<i, requests[i].version>> : i \in Pending \cap overdue}

Due == Waiting \ reminded

\* Mutant of Recorded: what could not be queued counts as sent.
RecordedAnyway == reminded' = reminded \cup Due

\* The mail and the record that it was queued are written together, or not at all.
Recorded == reminded' = IF reachable THEN reminded \cup Due ELSE reminded

Remind ==
    /\ Due # {}
    /\ Recorded
    /\ mails' = IF ~reachable THEN mails
                ELSE [m \in DOMAIN mails \cup Due |->
                        (IF m \in DOMAIN mails THEN mails[m] ELSE 0)
                        + (IF m \in Due THEN 1 ELSE 0)]
    /\ UNCHANGED <<core, requests, screen, told, overdue, reachable>>

SetReachable(b) ==
    /\ reachable # b
    /\ reachable' = b
    /\ UNCHANGED <<core, requests, screen, told, overdue, reminded, mails>>

\* Fifteen minutes have passed.
Wait(i) ==
    /\ i \in Pending \ overdue
    /\ overdue' = overdue \cup {i}
    /\ UNCHANGED <<core, requests, screen, told, reachable, reminded, mails>>

NextDay ==
    /\ day < MaxDay
    /\ day' = day + 1
    /\ UNCHANGED <<member, manager, active, requests, screen, told, mail>>

-----------------------------------------------------------------------------
Init ==
    /\ day = 0 /\ member \in {NoMember} \cup Dates /\ manager = FALSE /\ active = TRUE
    /\ requests = [i \in {} |-> 0] /\ told = [i \in {} |-> 0]
    /\ screen = [r \in Reviewers |-> Nothing]
    /\ overdue = {} /\ reminded = {} /\ mails = [m \in {} |-> 0]
    /\ reachable \in BOOLEAN

Review ==
    \E r \in Reviewers :
       \/ Look(r) \/ Remove(r)
       \/ \E i \in Ids, overwrite \in BOOLEAN :
             \/ Approve(r, i, overwrite) \/ Reject(r, i, overwrite)
             \/ \E e \in Dates : EditRequest(r, i, e, overwrite)

Next ==
    \/ Sweep \/ Review
    \/ \E e \in Dates : Apply(e) \/ Invite(e) \/ SetExpiry(e)
    \/ \E i \in Ids : Withdraw(i) \/ Wait(i)
    \/ Assign \/ Dismiss
    \/ \E b \in BOOLEAN : SetActive(b) \/ SetReachable(b)
    \/ Remind \/ NextDay

Spec == Init /\ [][Next]_vars

\* The timers of index.ts; time passes.
Fairness ==
    /\ WF_vars(Sweep) /\ SF_vars(reachable /\ Remind)
    /\ \A i \in 1..MaxRequests : WF_vars(i \in Ids /\ Wait(i))

FairSpec == Spec /\ Fairness

-----------------------------------------------------------------------------
(* Properties *)

\* Nothing that happens to a membership makes an application that waits stand for something
\* else: a renewal waits only for the membership it was made for, with the date it was made
\* for, and any other only while there is no membership that is valid.
PendingMatchesMembership ==
    /\ \A i, j \in Pending : i = j
    /\ \A i \in Pending :
          IF requests[i].previous = NoMember THEN ~Live
          ELSE member = requests[i].previous /\ requests[i].expires > member /\ ~manager

\* What was approved without overwriting is what the reviewer had on the screen.
ApprovedAsSeen ==
    [][\A r \in Reviewers, i \in Ids :
          Approve(r, i, FALSE) => /\ requests[i].expires = screen[r].expires
                                  /\ member' = screen[r].expires]_vars

\* The applicant is told of the decision once, whoever made it: a reviewer, the date, or the
\* end of the membership; of a withdrawal never.
ToldOnce ==
    \A i \in Ids : told[i] = IF requests[i].status \in {"APPROVED", "REJECTED"} THEN 1 ELSE 0

\* Applications agree with memberships and with what applicants were told.
ApplicationsAgree == PendingMatchesMembership /\ ToldOnce

\* A reviewer who can be reached time and again is reminded of an application that waits,
\* and of every version of it no more than once.
Reminded ==
    /\ [](\A m \in DOMAIN mails : mails[m] = 1)
    /\ []<>reachable => <>[](Waiting \subseteq DOMAIN mails)

=============================================================================
