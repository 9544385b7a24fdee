---------------------------- MODULE AccessProofs ----------------------------
(***************************************************************************)
(* Proofs about Access, for any number of reviewers, days, applications    *)
(* and versions.                                                           *)
(*                                                                         *)
(* Whatever would change the membership under an application that waits is *)
(* refused meanwhile (Apply, Invite, SetExpiry, Assign) or decides it in   *)
(* the same transaction (Approve, Remove); that a membership runs out      *)
(* changes nothing an application stands for.  What reviewers approve is   *)
(* what they saw because no change of an application leaves its version.   *)
(***************************************************************************)
EXTENDS Access, FiniteSetTheorems, TLAPS

-----------------------------------------------------------------------------
(* The inductive invariant *)

\* A manager is a member for good; applications that wait have room for a decision.
Ranges ==
    /\ day \in 0..MaxDay
    /\ manager \in BOOLEAN
    /\ manager => member = Forever
    /\ \A i \in Pending : requests[i].version <= MaxVersion

\* Applications are numbered in order.
Numbered == \E n \in Nat : Ids = 1..n

\* A screen never runs ahead of the table, and equal versions mean equal dates.
Screens ==
    /\ DOMAIN screen = Reviewers
    /\ \A r \in Reviewers :
          \/ screen[r].id = 0
          \/ /\ screen[r].id \in Ids
             /\ screen[r].version \in Nat
             /\ screen[r].version <= requests[screen[r].id].version
             /\ screen[r].version = requests[screen[r].id].version =>
                   screen[r].expires = requests[screen[r].id].expires

\* Every mail about a version is on record, and was queued once.
MailInv ==
    /\ DOMAIN mails = reminded
    /\ \A m \in reminded : mails[m] = 1

AccessInv == TypeOK /\ Ranges /\ PendingMatchesMembership /\ ToldOnce

ScreenInv == Numbered /\ Screens

-----------------------------------------------------------------------------
(* Facts about rows *)

LEMMA DateFacts ==
    /\ MaxDay \in Nat /\ Forever \in Nat /\ Forever = MaxDay + 1
    /\ MaxVersion \in Nat \ {0}
    /\ NoMember = 0 /\ Dates = 1..Forever
BY Bounds DEF Forever, NoMember, Dates

\* What a decision leaves of a row
LEMMA DecidedRow ==
    ASSUME NEW row \in Row, row.version <= MaxVersion,
           NEW status \in {"APPROVED", "REJECTED"}, NEW reviewer \in Reviewers \cup {"SYSTEM"}
    PROVE  /\ Decided(row, status, reviewer) \in Row
           /\ Decided(row, status, reviewer).status = status
           /\ Decided(row, status, reviewer).version = row.version + 1
<1> DEFINE a == [row EXCEPT !.status = status]
           b == [a EXCEPT !.reviewer = reviewer]
           c == [b EXCEPT !.version = row.version + 1]
<1>1. row.version + 1 \in 1..(MaxVersion + 1)
    BY Bounds DEF Row
<1>2. a \in Row
    BY DEF Row
<1>3. b \in Row /\ b.status = status
    BY <1>2 DEF Row
<1> HIDE DEF b
<1>4. c \in Row /\ c.status = status /\ c.version = row.version + 1
    BY <1>1, <1>3 DEF Row
<1> USE DEF b
<1>5. c = Decided(row, status, reviewer)
    BY Zenon DEF Decided
<1> QED
    BY <1>4, <1>5

\* ... a withdrawal
LEMMA WithdrawnRow ==
    ASSUME NEW row \in Row, row.version <= MaxVersion
    PROVE  /\ [row EXCEPT !.status = "WITHDRAWN", !.version = @ + 1] \in Row
           /\ [row EXCEPT !.status = "WITHDRAWN", !.version = @ + 1].status = "WITHDRAWN"
<1> DEFINE a == [row EXCEPT !.status = "WITHDRAWN"]
<1>1. row.version + 1 \in 1..(MaxVersion + 1)
    BY Bounds DEF Row
<1>2. a \in Row /\ a.status = "WITHDRAWN"
    BY DEF Row
<1> HIDE DEF a
<1>3. /\ [a EXCEPT !.version = row.version + 1] \in Row
      /\ [a EXCEPT !.version = row.version + 1].status = "WITHDRAWN"
    BY <1>1, <1>2 DEF Row
<1> USE DEF a
<1> QED
    BY <1>3, Zenon

\* ... and a change of its date
LEMMA EditedRow ==
    ASSUME NEW row \in Row, row.version <= MaxVersion, NEW e \in Dates
    PROVE  /\ [row EXCEPT !.expires = e, !.version = @ + 1] \in Row
           /\ [row EXCEPT !.expires = e, !.version = @ + 1].status = row.status
           /\ [row EXCEPT !.expires = e, !.version = @ + 1].version = row.version + 1
           /\ [row EXCEPT !.expires = e, !.version = @ + 1].expires = e
           /\ [row EXCEPT !.expires = e, !.version = @ + 1].previous = row.previous
<1> DEFINE a == [row EXCEPT !.expires = e]
<1>1. row.version + 1 \in 1..(MaxVersion + 1)
    BY Bounds DEF Row
<1>2. a \in Row /\ a.status = row.status /\ a.expires = e /\ a.previous = row.previous
    BY DEF Row
<1> HIDE DEF a
<1>3. /\ [a EXCEPT !.version = row.version + 1] \in Row
      /\ [a EXCEPT !.version = row.version + 1].status = row.status
      /\ [a EXCEPT !.version = row.version + 1].version = row.version + 1
      /\ [a EXCEPT !.version = row.version + 1].expires = e
      /\ [a EXCEPT !.version = row.version + 1].previous = row.previous
    BY <1>1, <1>2 DEF Row
<1> USE DEF a
<1> QED
    BY <1>3, Zenon

\* Deciding applications that wait, once each: the rest of the table is as it was.
LEMMA DecidedKeeps ==
    ASSUME AccessInv, NEW S \in SUBSET Pending,
           NEW status \in {"APPROVED", "REJECTED"},
           NEW reviewer \in Reviewers \cup {"SYSTEM"},
           requests' = [i \in Ids |-> IF i \in S THEN Decided(requests[i], status, reviewer)
                                      ELSE requests[i]],
           told' = Told(S)
    PROVE  /\ \A i \in Ids' : requests'[i] \in Row
           /\ DOMAIN told' = Ids' /\ Ids' = Ids
           /\ Pending' = Pending \ S
           /\ \A i \in Pending' : requests'[i] = requests[i]
           /\ ToldOnce'
<1>1. Ids' = Ids /\ DOMAIN told' = Ids'
    BY DEF Ids, Told
<1>2. \A i \in S : /\ requests[i] \in Row /\ requests[i].version <= MaxVersion
                   /\ requests[i].status = "PENDING" /\ i \in Ids
    BY DEF AccessInv, TypeOK, Ranges, Pending
<1>3. ASSUME NEW i \in S
      PROVE  /\ requests'[i] \in Row /\ requests'[i].status = status
             /\ told[i] = 0 /\ told'[i] = 1
    <2>1. requests'[i] = Decided(requests[i], status, reviewer)
        BY <1>2
    <2>2. /\ requests'[i].status = status
          /\ requests'[i] \in Row
        BY <1>2, <2>1, DecidedRow
    <2>3. told[i] = 0
        BY <1>2 DEF AccessInv, ToldOnce
    <2> QED
        BY <1>2, <2>2, <2>3 DEF Told
<1>4. \A i \in Ids \ S : requests'[i] = requests[i] /\ told'[i] = told[i]
    BY DEF Told
<1>5. Pending' = Pending \ S
    BY <1>1, <1>3, <1>4 DEF Pending
<1>6. ToldOnce'
    BY <1>1, <1>3, <1>4 DEF AccessInv, ToldOnce
<1> QED
    BY <1>1, <1>3, <1>4, <1>5, <1>6 DEF AccessInv, TypeOK, Pending

\* What a table with fewer applications that wait, unchanged, leaves to be shown.
LEMMA FewerPending ==
    ASSUME AccessInv, Pending' \subseteq Pending,
           \A i \in Pending' : requests'[i] = requests[i],
           day' \in 0..MaxDay, manager' \in BOOLEAN, manager' => member' = Forever,
           Pending' # {} => member' = member /\ manager' = manager /\ day <= day',
           member' \in {NoMember} \cup Dates,
           \A i \in Ids' : requests'[i] \in Row, DOMAIN told' = Ids', ToldOnce'
    PROVE  AccessInv'
<1>1. TypeOK'
    BY DEF TypeOK
<1>2. Ranges'
    BY DEF AccessInv, Ranges
<1>3. ASSUME NEW i \in Pending'
      PROVE  IF requests'[i].previous = NoMember THEN ~Live'
             ELSE member' = requests'[i].previous /\ requests'[i].expires > member' /\ ~manager'
    <2>1. /\ i \in Pending /\ requests'[i] = requests[i]
          /\ member' = member /\ manager' = manager /\ day <= day'
        BY <1>3
    <2>2. Live' => Live
        BY <2>1, DateFacts DEF Live, AccessInv, TypeOK, Ranges
    <2> QED
        BY <2>1, <2>2 DEF AccessInv, PendingMatchesMembership
<1>4. PendingMatchesMembership'
    BY <1>3 DEF AccessInv, PendingMatchesMembership
<1> QED
    BY <1>1, <1>2, <1>4 DEF AccessInv

\* Steps that leave the applications alone and the membership of one that waits too
LEMMA MembershipOnly ==
    ASSUME AccessInv, UNCHANGED <<requests, told>>,
           day' \in 0..MaxDay, manager' \in BOOLEAN, manager' => member' = Forever,
           Pending # {} => member' = member /\ manager' = manager /\ day <= day',
           member' \in {NoMember} \cup Dates
    PROVE  AccessInv'
<1>1. Ids' = Ids /\ Pending' = Pending
    BY DEF Ids, Pending
<1>2. ToldOnce' /\ DOMAIN told' = Ids' /\ \A i \in Ids' : requests'[i] \in Row
    BY <1>1 DEF AccessInv, ToldOnce, TypeOK
<1> QED
    BY <1>1, <1>2, FewerPending DEF Pending

-----------------------------------------------------------------------------
(* The handlers, one by one *)

LEMMA SweepParts == AccessInv /\ Sweep => AccessInv'
<1> SUFFICES ASSUME AccessInv, Sweep PROVE AccessInv'
    OBVIOUS
<1>1. Lapsed \in SUBSET Pending
    BY DEF Lapsed
<1>2. requests' = [i \in Ids |-> IF i \in Lapsed THEN Decided(requests[i], "REJECTED", "SYSTEM")
                                 ELSE requests[i]]
    BY DEF Sweep, Swept
<1>3. told' = Told(Lapsed) /\ UNCHANGED <<day, member, manager>>
    BY DEF Sweep, core
<1>4. /\ \A i \in Ids' : requests'[i] \in Row
      /\ DOMAIN told' = Ids' /\ ToldOnce'
      /\ Pending' \subseteq Pending
      /\ \A i \in Pending' : requests'[i] = requests[i]
    BY <1>1, <1>2, <1>3, DecidedKeeps
<1> QED
    BY <1>3, <1>4, FewerPending DEF AccessInv, TypeOK, Ranges

LEMMA ApplyParts == \A e \in Dates : AccessInv /\ Apply(e) => AccessInv'
<1> SUFFICES ASSUME NEW e \in Dates, AccessInv, Apply(e) PROVE AccessInv'
    OBVIOUS
<1> DEFINE k == Cardinality(Ids) + 1
           new == [expires |-> e, previous |-> Earlier, status |-> "PENDING",
                   version |-> 1, reviewer |-> "nobody"]
<1>1. /\ Pending = {} /\ (Live => member # Forever)
      /\ e \in Dates /\ e > Earlier /\ e > day
      /\ requests' = [j \in Ids \cup {k} |-> IF j = k THEN new ELSE requests[j]]
      /\ told' = [j \in Ids \cup {k} |-> IF j = k THEN 0 ELSE told[j]]
      /\ UNCHANGED <<day, member, manager>>
    BY DEF Apply, core, LaterDates
<1> HIDE DEF k
<1>2. Ids' = Ids \cup {k} /\ DOMAIN told' = Ids' /\ k \in Ids'
    BY <1>1 DEF Ids
<1>3. requests'[k] = new /\ told'[k] = 0
    BY <1>1
<1>4. \A j \in Ids' : j # k => j \in Ids /\ requests'[j] = requests[j] /\ told'[j] = told[j]
    BY <1>1, <1>2
<1>5. new \in Row
    BY <1>1, DateFacts DEF Row, Earlier, AccessInv, TypeOK
<1>6. Pending' = {k}
    BY <1>1, <1>2, <1>3, <1>4 DEF Pending
<1>7. TypeOK'
    BY <1>1, <1>2, <1>3, <1>4, <1>5 DEF AccessInv, TypeOK
<1>8. Ranges'
    BY <1>1, <1>3, <1>6, DateFacts DEF AccessInv, Ranges
<1>9. PendingMatchesMembership'
    <2>1. CASE Live
        <3>1. Earlier = member /\ member # NoMember /\ ~manager
            BY <1>1, <2>1 DEF Earlier, Live, AccessInv, Ranges
        <3> QED
            BY <1>1, <1>3, <1>6, <3>1 DEF PendingMatchesMembership
    <2>2. CASE ~Live
        <3>1. Earlier = NoMember /\ ~Live'
            BY <1>1, <2>2 DEF Earlier, Live
        <3> QED
            BY <1>3, <1>6, <3>1 DEF PendingMatchesMembership
    <2> QED
        BY <2>1, <2>2
<1>10. ToldOnce'
    BY <1>2, <1>3, <1>4 DEF AccessInv, ToldOnce
<1> QED
    BY <1>7, <1>8, <1>9, <1>10 DEF AccessInv

LEMMA WithdrawParts == \A i \in Ids : AccessInv /\ Withdraw(i) => AccessInv'
<1> SUFFICES ASSUME NEW i \in Ids, AccessInv, Withdraw(i) PROVE AccessInv'
    OBVIOUS
<1>1. /\ i \in Pending /\ UNCHANGED <<day, member, manager, told>>
      /\ requests' = [requests EXCEPT ![i].status = "WITHDRAWN", ![i].version = @ + 1]
    BY DEF Withdraw, core
<1>2. /\ requests[i] \in Row /\ requests[i].version <= MaxVersion
      /\ requests[i].status = "PENDING" /\ told[i] = 0
    BY <1>1 DEF AccessInv, TypeOK, Ranges, Pending, ToldOnce
<1>3. Ids' = Ids /\ \A j \in Ids : j # i => requests'[j] = requests[j]
    BY <1>1 DEF Ids
<1>4. requests'[i] \in Row /\ requests'[i].status = "WITHDRAWN"
    <2>1. requests'[i] = [requests[i] EXCEPT !.status = "WITHDRAWN", !.version = @ + 1]
        BY <1>1 DEF Ids
    <2> QED
        BY <1>2, <2>1, WithdrawnRow
<1>5. Pending' = Pending \ {i}
    BY <1>3, <1>4 DEF Pending
<1>6. ToldOnce' /\ DOMAIN told' = Ids' /\ \A j \in Ids' : requests'[j] \in Row
    BY <1>1, <1>2, <1>3, <1>4 DEF AccessInv, ToldOnce, TypeOK
<1>7. Pending' \subseteq Pending /\ \A j \in Pending' : requests'[j] = requests[j]
    BY <1>3, <1>5 DEF Pending
<1>8. /\ day' \in 0..MaxDay /\ day <= day' /\ manager' \in BOOLEAN
      /\ manager' => member' = Forever
      /\ member' \in {NoMember} \cup Dates
    BY <1>1, DateFacts DEF AccessInv, TypeOK, Ranges
<1> QED
    BY <1>1, <1>6, <1>7, <1>8, FewerPending

LEMMA EditParts ==
    \A r \in Reviewers, i \in Ids, e \in Dates, overwrite \in BOOLEAN :
        AccessInv /\ EditRequest(r, i, e, overwrite) => AccessInv'
<1> SUFFICES ASSUME NEW r \in Reviewers, NEW i \in Ids, NEW e \in Dates,
                    NEW overwrite \in BOOLEAN, AccessInv, EditRequest(r, i, e, overwrite)
             PROVE  AccessInv'
    OBVIOUS
<1>1. /\ i \in Pending /\ UNCHANGED <<day, member, manager, told>>
      /\ e > requests[i].previous /\ requests[i].version < MaxVersion
      /\ requests' = [requests EXCEPT ![i].expires = e, ![i].version = @ + 1]
    BY DEF EditRequest, Deciding, core
<1>2. requests[i] \in Row /\ requests[i].status = "PENDING"
    BY <1>1 DEF AccessInv, TypeOK, Pending
<1>3. Ids' = Ids /\ \A j \in Ids : j # i => requests'[j] = requests[j]
    BY <1>1 DEF Ids
<1>4. requests'[i] = [requests[i] EXCEPT !.expires = e, !.version = @ + 1]
    BY <1>1 DEF Ids
<1>5. /\ requests'[i] \in Row /\ requests'[i].status = "PENDING"
      /\ requests'[i].version <= MaxVersion
      /\ requests'[i].expires = e /\ requests'[i].previous = requests[i].previous
    <2>1. requests[i].version <= MaxVersion /\ requests[i].version + 1 <= MaxVersion
        BY <1>1, <1>2, DateFacts DEF Row
    <2> DEFINE new == [requests[i] EXCEPT !.expires = e, !.version = @ + 1]
    <2>2. new \in Row
        BY <1>2, <2>1, EditedRow
    <2>3. new.status = requests[i].status /\ new.version = requests[i].version + 1
        BY <1>2, <2>1, EditedRow
    <2>4. new.expires = e /\ new.previous = requests[i].previous
        BY <1>2, <2>1, EditedRow
    <2>5. requests'[i] = new
        BY <1>4
    <2> HIDE DEF new
    <2> QED
        BY <1>2, <2>1, <2>2, <2>3, <2>4, <2>5
<1>6. Pending' = Pending
    BY <1>2, <1>3, <1>5 DEF Pending
<1>7. TypeOK' /\ Ranges' /\ ToldOnce'
    BY <1>1, <1>2, <1>3, <1>5, <1>6 DEF AccessInv, TypeOK, Ranges, ToldOnce, Pending
<1>8. Live' <=> Live
    BY <1>1 DEF Live
<1>9. \A j \in Pending : j = i
    BY <1>1 DEF AccessInv, PendingMatchesMembership
<1>10. PendingMatchesMembership'
    BY <1>1, <1>5, <1>6, <1>8, <1>9 DEF AccessInv, PendingMatchesMembership
<1> QED
    BY <1>7, <1>10 DEF AccessInv

LEMMA DecisionParts ==
    \A r \in Reviewers, i \in Ids, overwrite \in BOOLEAN :
        AccessInv /\ (Approve(r, i, overwrite) \/ Reject(r, i, overwrite)) => AccessInv'
<1> SUFFICES ASSUME NEW r \in Reviewers, NEW i \in Ids, NEW overwrite \in BOOLEAN, AccessInv,
                    Approve(r, i, overwrite) \/ Reject(r, i, overwrite)
             PROVE  AccessInv'
    OBVIOUS
<1>1. i \in Pending /\ told' = Told({i}) /\ UNCHANGED <<day, manager>>
    BY DEF Approve, Reject, Deciding, core
<1>2. \E status \in {"APPROVED", "REJECTED"} :
         requests' = [j \in Ids |-> IF j \in {i} THEN Decided(requests[j], status, r)
                                    ELSE requests[j]]
    BY DEF Approve, Reject, Ids
<1>3. /\ \A j \in Ids' : requests'[j] \in Row
      /\ DOMAIN told' = Ids' /\ ToldOnce'
      /\ Pending' = Pending \ {i}
    BY <1>1, <1>2, DecidedKeeps
<1>4. Pending' = {}
    BY <1>1, <1>3 DEF AccessInv, PendingMatchesMembership
<1>5. CASE Reject(r, i, overwrite)
    BY <1>1, <1>3, <1>4, <1>5, FewerPending DEF Reject, core, AccessInv, TypeOK, Ranges
<1>6. CASE Approve(r, i, overwrite)
    <2>1. requests[i] \in Row /\ member' = Effective(requests[i]) /\ Grantable(requests[i])
        BY <1>6 DEF Approve, AccessInv, TypeOK
    <2>2. member' \in Dates
        BY <2>1, DateFacts DEF Effective, Row, AccessInv, TypeOK
    <2>3. ~manager
        <3>1. manager => Live
            BY DateFacts DEF Live, AccessInv, Ranges
        <3> QED
            BY <1>1, <3>1 DEF AccessInv, PendingMatchesMembership
    <2> QED
        BY <1>1, <1>3, <1>4, <2>2, <2>3, FewerPending DEF AccessInv, Ranges
<1> QED
    BY <1>5, <1>6

LEMMA RemoveParts == \A r \in Reviewers : AccessInv /\ Remove(r) => AccessInv'
<1> SUFFICES ASSUME NEW r \in Reviewers, AccessInv, Remove(r) PROVE AccessInv'
    OBVIOUS
<1> DEFINE renewals == {i \in Pending : requests[i].previous # NoMember}
<1>1. /\ member # NoMember /\ member' = NoMember /\ manager' = FALSE /\ day' = day
      /\ requests' = [i \in Ids |-> IF i \in renewals THEN Decided(requests[i], "REJECTED", r)
                                    ELSE requests[i]]
      /\ told' = Told(renewals)
    BY DEF Remove
<1>2. renewals \in SUBSET Pending
    OBVIOUS
<1>3. /\ \A i \in Ids' : requests'[i] \in Row
      /\ DOMAIN told' = Ids' /\ ToldOnce'
      /\ Pending' = Pending \ renewals
      /\ \A i \in Pending' : requests'[i] = requests[i]
    BY <1>1, <1>2, DecidedKeeps
<1>4. TypeOK' /\ Ranges'
    BY <1>1, <1>3 DEF AccessInv, TypeOK, Ranges
<1>5. ~Live'
    BY <1>1 DEF Live
<1>6. PendingMatchesMembership'
    BY <1>3, <1>5 DEF AccessInv, PendingMatchesMembership
<1> QED
    BY <1>3, <1>4, <1>6 DEF AccessInv

-----------------------------------------------------------------------------
LEMMA AccessInit == Init => AccessInv
<1> SUFFICES ASSUME Init PROVE AccessInv
    OBVIOUS
<1>1. Ids = {} /\ Pending = {} /\ DOMAIN told = {}
    BY DEF Init, Ids, Pending
<1>2. /\ day = 0 /\ member \in {NoMember} \cup Dates /\ manager = FALSE
    BY DEF Init
<1>3. TypeOK
    BY <1>1, <1>2 DEF TypeOK
<1>4. Ranges
    <2>1. day \in 0..MaxDay
        BY <1>2, DateFacts
    <2> QED
        BY <1>1, <1>2, <2>1, Zenon DEF Ranges
<1> QED
    BY <1>1, <1>3, <1>4 DEF AccessInv, PendingMatchesMembership, ToldOnce

LEMMA AccessNext == AccessInv /\ [Next]_vars => AccessInv'
<1> SUFFICES ASSUME AccessInv, [Next]_vars PROVE AccessInv'
    OBVIOUS
<1>1. CASE Sweep
    BY <1>1, SweepParts
<1>2. CASE \E e \in Dates : Apply(e)
    BY <1>2, ApplyParts
<1>3. CASE \E i \in Ids : Withdraw(i)
    BY <1>3, WithdrawParts
<1>4. CASE \E r \in Reviewers : Remove(r)
    BY <1>4, RemoveParts
<1>5. CASE \E r \in Reviewers, i \in Ids, overwrite \in BOOLEAN :
              Approve(r, i, overwrite) \/ Reject(r, i, overwrite)
    BY <1>5, DecisionParts
<1>6. CASE \E r \in Reviewers, i \in Ids, overwrite \in BOOLEAN, e \in Dates :
              EditRequest(r, i, e, overwrite)
    BY <1>6, EditParts
<1>7. CASE \E e \in Dates : Invite(e) \/ SetExpiry(e)
    <2>1. manager => Live
        BY DateFacts DEF Live, AccessInv, Ranges
    <2>2. /\ Pending = {} /\ UNCHANGED <<requests, told, day, manager>> /\ ~manager
          /\ member' \in Dates
        BY <1>7, <2>1 DEF Invite, SetExpiry, MayReschedule, LaterDates
    <2> QED
        BY <2>2, MembershipOnly DEF AccessInv, Ranges
<1>8. CASE Assign \/ Dismiss
    <2>1. manager => Live
        BY DateFacts DEF Live, AccessInv, Ranges
    <2>2. manager => Pending = {}
        BY <2>1 DEF AccessInv, PendingMatchesMembership
    <2>3. /\ Pending = {} /\ UNCHANGED <<requests, told, day>>
          /\ manager' \in BOOLEAN
          /\ manager' => member' = Forever
          /\ member' \in {NoMember, member, Forever}
        BY <1>8, <2>2 DEF Assign, Dismiss, AccessInv, Ranges
    <2>4. member' \in {NoMember} \cup Dates /\ day' \in 0..MaxDay
        BY <2>3, DateFacts DEF AccessInv, Ranges, TypeOK
    <2> QED
        BY <2>3, <2>4, MembershipOnly
<1>9. CASE NextDay
    BY <1>9, MembershipOnly, DateFacts DEF NextDay, AccessInv, Ranges, TypeOK
<1>10. ASSUME UNCHANGED <<day, member, manager, requests, told>> PROVE AccessInv'
    BY <1>10, MembershipOnly DEF AccessInv, Ranges, TypeOK
<1>11. CASE \/ \E r \in Reviewers : Look(r)
            \/ \E i \in Ids : Wait(i)
            \/ \E b \in BOOLEAN : SetActive(b) \/ SetReachable(b)
            \/ Remind
            \/ UNCHANGED vars
    BY <1>10, <1>11 DEF Look, Wait, SetActive, SetReachable, Remind, core, vars
<1> QED
    BY <1>1, <1>2, <1>3, <1>4, <1>5, <1>6, <1>7, <1>8, <1>9, <1>11 DEF Next, Review

\* The rows of the tables stay well formed.
THEOREM AccessTypeCorrect == Spec => []TypeOK
<1>1. AccessInv => TypeOK
    BY DEF AccessInv
<1> QED
    BY <1>1, AccessInit, AccessNext, PTL DEF Spec

\* However memberships are granted, shortened, removed, run out and become those of managers,
\* an application that waits still stands for what it stood for when it was made.
THEOREM PendingFits == Spec => []PendingMatchesMembership
<1>1. AccessInv => PendingMatchesMembership
    BY DEF AccessInv
<1> QED
    BY <1>1, AccessInit, AccessNext, PTL DEF Spec

\* One decision, one notification, whoever decides.
THEOREM DecisionsToldOnce == Spec => []ToldOnce
<1>1. AccessInv => ToldOnce
    BY DEF AccessInv
<1> QED
    BY <1>1, AccessInit, AccessNext, PTL DEF Spec

\* Both together, for any number of applications, days and reviewers.
THEOREM ApplicationsAlwaysAgree == Spec => []ApplicationsAgree
BY PendingFits, DecisionsToldOnce, PTL DEF ApplicationsAgree

-----------------------------------------------------------------------------
(* Screens *)

LEMMA ScreenInit == Init => ScreenInv
<1> SUFFICES ASSUME Init PROVE ScreenInv
    OBVIOUS
<1>1. Ids = 1..0
    BY DEF Init, Ids
<1> QED
    BY <1>1 DEF Init, ScreenInv, Numbered, Screens, Nothing

\* A table in which the rows that changed have a later version leaves screens behind it.
LEMMA RowsMoveOn ==
    ASSUME AccessInv, ScreenInv, Ids' = Ids, screen' = screen,
           \A i \in Ids : \/ requests'[i] = requests[i]
                          \/ requests'[i].version = requests[i].version + 1
    PROVE  ScreenInv'
<1>1. \A i \in Ids : requests[i].version \in Nat
    BY DEF AccessInv, TypeOK, Row
<1>2. ASSUME NEW r \in Reviewers, screen[r].id # 0
      PROVE  /\ screen[r].id \in Ids
             /\ screen[r].version \in Nat
             /\ screen[r].version <= requests'[screen[r].id].version
             /\ screen[r].version = requests'[screen[r].id].version =>
                   screen[r].expires = requests'[screen[r].id].expires
    <2>1. /\ screen[r].id \in Ids /\ screen[r].version \in Nat
          /\ screen[r].version <= requests[screen[r].id].version
          /\ screen[r].version = requests[screen[r].id].version =>
                screen[r].expires = requests[screen[r].id].expires
        BY <1>2 DEF ScreenInv, Screens
    <2>2. CASE requests'[screen[r].id] = requests[screen[r].id]
        BY <2>1, <2>2
    <2>3. CASE requests'[screen[r].id].version = requests[screen[r].id].version + 1
        BY <1>1, <2>1, <2>3
    <2> QED
        BY <2>1, <2>2, <2>3
<1> QED
    BY <1>2 DEF ScreenInv, Numbered, Screens

LEMMA ScreenNext == AccessInv /\ ScreenInv /\ [Next]_vars => ScreenInv'
<1> SUFFICES ASSUME AccessInv, ScreenInv, [Next]_vars PROVE ScreenInv'
    OBVIOUS
<1>1. \A i \in Ids : requests[i] \in Row /\ requests[i].version \in Nat
    BY DEF AccessInv, TypeOK, Row
<1>2. CASE Sweep
    <2>1. Ids' = Ids /\ screen' = screen
        BY <1>2 DEF Sweep, Swept, Ids
    <2>2. \A i \in Ids : \/ requests'[i] = requests[i]
                         \/ requests'[i].version = requests[i].version + 1
        <3> TAKE i \in Ids
        <3>1. i \in Lapsed => requests[i].version <= MaxVersion
            BY DEF Lapsed, AccessInv, Ranges
        <3> QED
            BY <1>1, <1>2, <3>1, DecidedRow DEF Sweep, Swept
    <2> QED
        BY <2>1, <2>2, RowsMoveOn
<1>3. CASE \E e \in Dates : Apply(e)
    <2>1. PICK n \in Nat : Ids = 1..n
        BY DEF ScreenInv, Numbered
    <2>2. Cardinality(Ids) = n
        BY <2>1, FS_Interval
    <2>3. Ids' = Ids \cup {n + 1} /\ screen' = screen
        BY <1>3, <2>2 DEF Apply, Ids
    <2>4. \A i \in Ids : requests'[i] = requests[i]
        BY <1>3, <2>1, <2>2 DEF Apply
    <2>5. Ids' = 1..(n + 1)
        BY <2>1, <2>3
    <2> QED
        BY <2>3, <2>4, <2>5 DEF ScreenInv, Numbered, Screens
<1>4. CASE \E i \in Ids : Withdraw(i)
    <2>1. PICK i \in Ids : Withdraw(i)
        BY <1>4
    <2>2. Ids' = Ids /\ screen' = screen
        BY <2>1 DEF Withdraw, Ids
    <2>3. requests'[i] = [requests[i] EXCEPT !.status = "WITHDRAWN", !.version = @ + 1]
        BY <2>1 DEF Withdraw, Ids
    <2>4. requests'[i].version = requests[i].version + 1
        BY <1>1, <2>3 DEF Row
    <2>5. \A j \in Ids : j # i => requests'[j] = requests[j]
        BY <2>1 DEF Withdraw, Ids
    <2> QED
        BY <2>2, <2>4, <2>5, RowsMoveOn
<1>5. CASE \E r \in Reviewers : Remove(r)
    <2>1. Ids' = Ids /\ screen' = screen
        BY <1>5 DEF Remove, mail, Ids
    <2>2. \A i \in Ids : \/ requests'[i] = requests[i]
                         \/ requests'[i].version = requests[i].version + 1
        <3> TAKE i \in Ids
        <3>1. i \in Pending => requests[i].version <= MaxVersion
            BY DEF AccessInv, Ranges
        <3> QED
            BY <1>1, <1>5, <3>1, DecidedRow DEF Remove
    <2> QED
        BY <2>1, <2>2, RowsMoveOn
<1>6. CASE \E r \in Reviewers, i \in Ids, overwrite \in BOOLEAN :
              Approve(r, i, overwrite) \/ Reject(r, i, overwrite)
    <2>1. PICK r \in Reviewers, i \in Ids, overwrite \in BOOLEAN :
              Approve(r, i, overwrite) \/ Reject(r, i, overwrite)
        BY <1>6
    <2>2. Ids' = Ids /\ screen' = screen
        BY <2>1 DEF Approve, Reject, Ids
    <2>3. PICK status \in {"APPROVED", "REJECTED"} :
              requests'[i] = Decided(requests[i], status, r)
        BY <2>1 DEF Approve, Reject, Ids
    <2>4. requests'[i].version = requests[i].version + 1
        BY <1>1, <2>3 DEF Decided, Row
    <2>5. \A j \in Ids : j # i => requests'[j] = requests[j]
        BY <2>1 DEF Approve, Reject, Ids
    <2> QED
        BY <2>2, <2>4, <2>5, RowsMoveOn
<1>7. CASE \E r \in Reviewers, i \in Ids, overwrite \in BOOLEAN, e \in Dates :
              EditRequest(r, i, e, overwrite)
    <2>1. PICK r \in Reviewers, i \in Ids, overwrite \in BOOLEAN, e \in Dates :
              EditRequest(r, i, e, overwrite)
        BY <1>7
    <2>2. Ids' = Ids
        BY <2>1 DEF EditRequest, Ids
    <2>3. requests'[i].version = requests[i].version + 1 /\ requests'[i].expires = e
        <3>1. requests'[i] = [requests[i] EXCEPT !.expires = e, !.version = @ + 1]
            BY <2>1 DEF EditRequest, Ids
        <3> QED
            BY <1>1, <3>1 DEF Row
    <2>4. \A j \in Ids : j # i => requests'[j] = requests[j]
        BY <2>1 DEF EditRequest, Ids
    <2>5. screen' = [screen EXCEPT ![r] = [id |-> i, version |-> requests[i].version + 1,
                                          expires |-> e]]
        BY <2>1 DEF EditRequest
    <2>6. DOMAIN screen' = Reviewers /\ \A q \in Reviewers : q # r => screen'[q] = screen[q]
        BY <2>5 DEF ScreenInv, Screens
    <2>7. screen'[r] = [id |-> i, version |-> requests[i].version + 1, expires |-> e]
        BY <2>5 DEF ScreenInv, Screens
    <2>8. \A q \in Reviewers :
              \/ screen'[q].id = 0
              \/ /\ screen'[q].id \in Ids'
                 /\ screen'[q].version \in Nat
                 /\ screen'[q].version <= requests'[screen'[q].id].version
                 /\ screen'[q].version = requests'[screen'[q].id].version =>
                       screen'[q].expires = requests'[screen'[q].id].expires
        <3> TAKE q \in Reviewers
        <3>1. CASE q = r
            <4>1. /\ screen'[q].id = i /\ screen'[q].expires = e
                  /\ screen'[q].version = requests[i].version + 1
                BY <2>7, <3>1
            <4> QED
                BY <1>1, <2>2, <2>3, <4>1
        <3>2. CASE q # r
            <4>1. screen'[q] = screen[q]
                BY <2>6, <3>2
            <4>2. CASE screen[q].id = i
                <5>1. \/ screen'[q].id = 0
                      \/ /\ screen'[q].version \in Nat
                         /\ screen'[q].version < requests'[i].version
                    BY <1>1, <2>3, <4>1, <4>2 DEF ScreenInv, Screens
                <5> QED
                    BY <1>1, <2>2, <2>3, <4>1, <4>2, <5>1
            <4>3. CASE screen[q].id # i
                BY <2>2, <2>4, <4>1, <4>3 DEF ScreenInv, Screens
            <4> QED
                BY <4>2, <4>3
        <3> QED
            BY <3>1, <3>2
    <2> QED
        BY <2>2, <2>6, <2>8 DEF ScreenInv, Numbered, Screens
<1>8. CASE \E r \in Reviewers : Look(r)
    <2>1. PICK r \in Reviewers : Look(r)
        BY <1>8
    <2>2. PICK i \in Pending : screen' = [screen EXCEPT ![r] =
              [id |-> i, version |-> requests[i].version, expires |-> requests[i].expires]]
        BY <2>1 DEF Look
    <2>3. requests' = requests /\ Ids' = Ids /\ i \in Ids
        BY <2>1, <2>2 DEF Look, Ids, Pending
    <2> QED
        BY <1>1, <2>2, <2>3 DEF ScreenInv, Numbered, Screens
<1>9. ASSUME UNCHANGED <<requests, screen>> PROVE ScreenInv'
    BY <1>9 DEF ScreenInv, Numbered, Screens, Ids
<1>10. CASE \/ \E e \in Dates : Invite(e) \/ SetExpiry(e)
            \/ \E i \in Ids : Wait(i)
            \/ \E b \in BOOLEAN : SetActive(b) \/ SetReachable(b)
            \/ Assign \/ Dismiss \/ Remind \/ NextDay \/ UNCHANGED vars
    BY <1>9, <1>10 DEF Invite, SetExpiry, Wait, SetActive, SetReachable, Assign, Dismiss, Remind,
                       NextDay, vars
<1> QED
    BY <1>2, <1>3, <1>4, <1>5, <1>6, <1>7, <1>8, <1>10 DEF Next, Review

\* What is approved without overwriting is the date the reviewer saw, and the member gets it:
\* an application fits the membership it waits for, so the later date is always its own.
THEOREM SeenIsApproved == Spec => ApprovedAsSeen
<1> DEFINE Seen == \A r \in Reviewers, i \in Ids :
          Approve(r, i, FALSE) => /\ requests[i].expires = screen[r].expires
                                  /\ member' = screen[r].expires
<1>1. ASSUME AccessInv, ScreenInv, NEW r \in Reviewers, NEW i \in Ids, Approve(r, i, FALSE)
      PROVE  requests[i].expires = screen[r].expires /\ member' = screen[r].expires
    <2>1. /\ screen[r].id = i /\ i \in Pending /\ requests[i].expires > day
          /\ screen[r].version = requests[i].version
          /\ member' = Effective(requests[i])
        BY <1>1 DEF Approve, Deciding
    <2>2. i # 0
        BY <1>1 DEF ScreenInv, Numbered
    <2>3. requests[i].expires = screen[r].expires
        BY <1>1, <2>1, <2>2 DEF ScreenInv, Screens
    <2>4. ~(member # NoMember /\ member > requests[i].expires)
        <3>1. requests[i] \in Row /\ member \in Nat /\ day \in Nat
            BY <1>1, DateFacts DEF AccessInv, TypeOK, Ranges
        <3>2. CASE requests[i].previous = NoMember
            <4>1. ~Live
                BY <1>1, <2>1, <3>2 DEF AccessInv, PendingMatchesMembership
            <4> QED
                BY <2>1, <3>1, <4>1, DateFacts DEF Live, Row
        <3>3. CASE requests[i].previous # NoMember
            <4>1. requests[i].expires > member
                BY <1>1, <2>1, <3>3 DEF AccessInv, PendingMatchesMembership
            <4> QED
                BY <3>1, <4>1, DateFacts DEF Row
        <3> QED
            BY <3>2, <3>3
    <2> QED
        BY <2>1, <2>3, <2>4 DEF Effective
<1>2. AccessInv /\ ScreenInv => [Seen]_vars
    BY <1>1
<1>3. Spec => [](AccessInv /\ ScreenInv)
    BY AccessInit, AccessNext, ScreenInit, ScreenNext, PTL DEF Spec
<1> QED
    BY <1>2, <1>3, PTL DEF ApprovedAsSeen

-----------------------------------------------------------------------------
(* Reminders *)

\* However often reminders are processed and whoever can be reached, no version of an
\* application is mailed about twice.
THEOREM RemindedOnce == Spec => [](\A m \in DOMAIN mails : mails[m] = 1)
<1>1. Init => MailInv
    BY DEF Init, MailInv
<1>2. ASSUME MailInv, [Next]_vars PROVE MailInv'
    <2>1. CASE Remind
        <3>1. CASE reachable
            <4>1. /\ reminded' = reminded \cup Due /\ Due \cap reminded = {}
                  /\ mails' = [m \in DOMAIN mails \cup Due |->
                        (IF m \in DOMAIN mails THEN mails[m] ELSE 0)
                        + (IF m \in Due THEN 1 ELSE 0)]
                BY <2>1, <3>1 DEF Remind, Recorded, Due
            <4> QED
                BY <1>2, <4>1 DEF MailInv
        <3>2. CASE ~reachable
            BY <1>2, <2>1, <3>2 DEF Remind, Recorded, MailInv
        <3> QED
            BY <3>1, <3>2
    <2>2. ASSUME UNCHANGED <<reminded, mails>> PROVE MailInv'
        BY <1>2, <2>2 DEF MailInv
    <2>3. CASE [Next]_vars /\ ~Remind
        BY <2>2, <2>3, ZenonT(60) DEF Next, Review, Sweep, Apply, Withdraw, Look, EditRequest, Approve, Reject,
           Invite, SetExpiry, Remove, Assign, Dismiss, SetActive, SetReachable, Wait, NextDay,
           mail, vars
    <2> QED
        BY <1>2, <2>1, <2>3
<1>3. MailInv => \A m \in DOMAIN mails : mails[m] = 1
    BY DEF MailInv
<1> QED
    BY <1>1, <1>2, <1>3, PTL DEF Spec
=============================================================================
