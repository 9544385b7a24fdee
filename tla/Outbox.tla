------------------------------- MODULE Outbox -------------------------------
(***************************************************************************)
(* The mail outbox: the table email_outbox, the switch smtp_settings       *)
(* .enabled, and processEmailOutbox (server/mailer.ts), which a timer      *)
(* starts every ten seconds.  A pass reads its rows once and then awaits   *)
(* one sendMail after another; between the awaits the requests of users    *)
(* and administrators change the same rows.                                *)
(*                                                                         *)
(* JavaScript runs to the next await, so a pass has two kinds of step: its *)
(* start, up to the first send, and the end of a send, which records the   *)
(* outcome and begins the next.  The mail server is external: it accepts   *)
(* or refuses a mail, and its answer may be lost.                          *)
(*                                                                         *)
(* Times are left out: a code expires, and a back-off of some minutes      *)
(* ends, when the environment says so.                                     *)
(***************************************************************************)
EXTENDS Integers, Sequences, FiniteSets

CONSTANTS
    Passes,     \* activations of processEmailOutbox that may overlap in time
    Users,
    MaxMails,   \* bound: rows created in a behaviour, no more than the LIMIT of 20
    MaxFaults   \* bound: refused mails, lost answers and crashes

ASSUME BoundAssumption == MaxMails \in Nat /\ MaxFaults \in Nat

VARIABLES
    mails,      \* email_outbox: id -> row, numbered in the order of created_at
    created,    \* how many rows were ever inserted
    expired,    \* the mails whose expires_at has passed
    due,        \* the mails whose next_attempt_at has passed
    enabled,    \* getRuntimeSmtpSettings() # null
    processing, \* emailOutboxProcessing
    todo,       \* per pass: the rows it has read and not finished, in order
    delivered,  \* external: how often the mail server accepted each mail
    faults

rows == <<mails, created, expired, due>>
vars == <<mails, created, expired, due, enabled, processing, todo, delivered, faults>>

-----------------------------------------------------------------------------

Ids == 1..MaxMails
Statuses == {"PENDING", "SENT", "FAILED", "CANCELLED", "EXPIRED"}
Queued == {"PENDING", "FAILED"}

\* The flag is raised exactly while a pass is under way, whichever way it ended.
FlagTellsPass == processing <=> \E p \in Passes : todo[p] # <<>>

TypeOK ==
    /\ created \in 0..MaxMails
    /\ DOMAIN mails \subseteq 1..created
    /\ \A m \in DOMAIN mails : mails[m] \in [user : Users, status : Statuses]
    /\ expired \subseteq 1..created /\ due \subseteq 1..created
    /\ enabled \in BOOLEAN /\ processing \in BOOLEAN
    /\ todo \in [Passes -> Seq(Ids)]
    /\ delivered \in [Ids -> Nat]
    /\ faults \in 0..MaxFaults
    /\ FlagTellsPass

Init ==
    /\ mails = [m \in {} |-> <<>>]
    /\ created = 0 /\ expired = {} /\ due = {}
    /\ enabled \in BOOLEAN /\ processing = FALSE
    /\ todo = [p \in Passes |-> <<>>]
    /\ delivered = [m \in Ids |-> 0]
    /\ faults = 0

\* Rows of set S get status s.
Mark(S, s) == [m \in DOMAIN mails |->
                 IF m \in S THEN [mails[m] EXCEPT !.status = s] ELSE mails[m]]
QueuedMails == {m \in DOMAIN mails : mails[m].status \in Queued}

\* What a pass reads: rows to send or to send again, once their time has come.
DueRowsNew == {m \in DOMAIN mails : mails[m].status = "PENDING"} \cap due
DueRows == QueuedMails \cap due

\* ORDER BY created_at
InOrder(S) ==
    {s \in [1..Cardinality(S) -> S] : \A i, j \in DOMAIN s : i < j => s[i] < s[j]}

-----------------------------------------------------------------------------
(* Requests of users and administrators *)

\* queueEmail: without SMTP the caller is told that there is no mail.
QueueEmail(u) ==
    /\ enabled /\ created < MaxMails
    /\ created' = created + 1
    /\ mails' = [m \in DOMAIN mails \cup {created'} |->
                    IF m = created' THEN [user |-> u, status |-> "PENDING"] ELSE mails[m]]
    /\ due' = due \cup {created'}
    /\ UNCHANGED <<expired, enabled, processing, todo, delivered, faults>>

\* PATCH /api/v1/admin/smtp-settings with enabled: false, whatever it was before.
DisableSmtp ==
    /\ enabled' = FALSE
    /\ mails' = Mark(QueuedMails, "CANCELLED")
    /\ UNCHANGED <<created, expired, due, processing, todo, delivered, faults>>

EnableSmtp ==
    /\ ~enabled
    /\ enabled' = TRUE
    /\ UNCHANGED <<rows, processing, todo, delivered, faults>>

\* The rows of a deleted account go with it.
DeletePersonalData(u) ==
    /\ \E m \in DOMAIN mails : mails[m].user = u
    /\ mails' = [m \in {n \in DOMAIN mails : mails[n].user # u} |-> mails[m]]
    /\ UNCHANGED <<created, expired, due, enabled, processing, todo, delivered, faults>>

\* A rejected registration: what was not sent goes, what was sent is kept.
RejectRegistration(u) ==
    LET gone == {m \in DOMAIN mails : mails[m].user = u /\ mails[m].status # "SENT"}
    IN /\ gone # {}
       /\ mails' = [m \in DOMAIN mails \ gone |-> mails[m]]
       /\ UNCHANGED <<created, expired, due, enabled, processing, todo, delivered, faults>>

-----------------------------------------------------------------------------
(* Time *)

Expires(m) ==
    /\ m \in 1..created \ expired
    /\ expired' = expired \cup {m}
    /\ UNCHANGED <<mails, created, due, enabled, processing, todo, delivered, faults>>

BackoffEnds(m) ==
    /\ m \in 1..created \ due
    /\ due' = due \cup {m}
    /\ UNCHANGED <<mails, created, expired, enabled, processing, todo, delivered, faults>>

-----------------------------------------------------------------------------
(* processEmailOutbox *)

MayStartAlways == TRUE
MayStart == ~processing

\* Before each send: the pass ends when it finds the switch off.
Rest(rest) == IF enabled THEN rest ELSE <<>>

\* The finally block, which every way out of the pass goes through.
ProcessingAfter(rest) == rest # <<>>

\* Expire, read the due rows in the order of created_at, begin the first send.
\* Without SMTP, or without rows, the pass ends where it began.
StartPass(p) ==
    /\ MayStart /\ todo[p] = <<>>
    /\ enabled
    /\ LET old == QueuedMails \cap expired
       IN /\ mails' = Mark(old, "EXPIRED")
          /\ \E picked \in InOrder(DueRows \ old) :
                 /\ todo' = [todo EXCEPT ![p] = picked]
                 /\ processing' = (picked # <<>>)
    /\ UNCHANGED <<created, expired, due, enabled, delivered, faults>>

\* The pass goes on to the next row, or ends.
NextRow(p) ==
    LET rest == Rest(Tail(todo[p]))
    IN /\ todo' = [todo EXCEPT ![p] = rest]
       /\ processing' = ProcessingAfter(rest)

\* UPDATE ... SET status='SENT' WHERE id: whatever the status is by now.
SendSucceeds(p) ==
    /\ todo[p] # <<>>
    /\ mails' = Mark({Head(todo[p])}, "SENT")
    /\ delivered' = [delivered EXCEPT ![Head(todo[p])] = @ + 1]
    /\ NextRow(p)
    /\ UNCHANGED <<created, expired, due, enabled, faults>>

\* sendMail rejects, after the server refused the mail or after it accepted it
\* and the answer was lost: FAILED, whatever the status is, and a back-off.
SendFails(p) ==
    /\ todo[p] # <<>> /\ faults < MaxFaults
    /\ faults' = faults + 1
    /\ mails' = Mark({Head(todo[p])}, "FAILED")
    /\ due' = due \ {Head(todo[p])}
    /\ \E k \in {0, 1} : delivered' = [delivered EXCEPT ![Head(todo[p])] = @ + k]
    /\ NextRow(p)
    /\ UNCHANGED <<created, expired, enabled>>

\* The process stops, during a send or not; the mail may have been accepted.
Crash ==
    /\ faults < MaxFaults
    /\ faults' = faults + 1
    /\ \/ UNCHANGED delivered
       \/ \E p \in Passes : /\ todo[p] # <<>>
                            /\ delivered' = [delivered EXCEPT ![Head(todo[p])] = @ + 1]
    /\ todo' = [p \in Passes |-> <<>>]
    /\ processing' = FALSE
    /\ UNCHANGED <<rows, enabled>>

-----------------------------------------------------------------------------

SendEnds(p) == SendSucceeds(p) \/ SendFails(p)

Next ==
    \/ \E u \in Users : QueueEmail(u) \/ DeletePersonalData(u) \/ RejectRegistration(u)
    \/ DisableSmtp \/ EnableSmtp
    \/ \E m \in Ids : Expires(m) \/ BackoffEnds(m)
    \/ \E p \in Passes : StartPass(p) \/ SendEnds(p)
    \/ Crash

Spec == Init /\ [][Next]_vars

\* The timer starts passes for ever, sockets time out, back-offs end.  No user and
\* no administrator has to do anything.
Fairness ==
    /\ \A p \in Passes : WF_vars(SendEnds(p))
    /\ WF_vars(\E p \in Passes : StartPass(p))
    /\ \A m \in Ids : WF_vars(BackoffEnds(m))
FairSpec == Spec /\ Fairness

-----------------------------------------------------------------------------
(* Properties *)

\* A mail recorded as sent, or as expired, is not delivered again: the passes of
\* two timer ticks do not overlap, and no pass works on rows another one finished.
NotSentAgain ==
    [][\A m \in Ids :
          delivered'[m] > delivered[m] /\ m \in DOMAIN mails
              => mails[m].status \notin {"SENT", "EXPIRED"}]_vars

\* While mail stays switched on, no row waits for ever: it is sent, expires or is
\* removed, whatever failed and whatever pass was given up before.
NoMailStuck ==
    \A m \in Ids :
        <>[]enabled => []<>(m \notin QueuedMails)
=============================================================================
