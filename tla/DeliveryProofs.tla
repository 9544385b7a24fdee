---------------------------- MODULE DeliveryProofs ----------------------------
(***************************************************************************)
(* Proofs about the queues that must reach their ends, for any number of   *)
(* passes, mails, users, problems, machines, changes and faults: the mail  *)
(* outbox (Outbox), the assistance requests of a terminal (HelpDelivery)   *)
(* and the refresh queue of a page (Realtime).                             *)
(*                                                                         *)
(* A pass of the outbox works on rows it read earlier.  One pass at a time *)
(* holds rows, each of them once, and nobody but the pass records a row it *)
(* holds as sent or expired.                                               *)
(*                                                                         *)
(* An event leaves the terminal's queue when it was never sent, or when    *)
(* the platform has closed it for good; so whatever request of it is still *)
(* on its way finds its row resolved.                                      *)
(*                                                                         *)
(* A page that hears that rights changed aborts the read under way, so an  *)
(* answer that it takes was given no earlier than that.                    *)
(***************************************************************************)
EXTENDS MCDelivery, MCRealtime, FiniteSetTheorems, SequenceTheorems, WellFoundedInduction, TLAPS

-----------------------------------------------------------------------------
(* The outbox *)

MailRow == [user : Users, status : Statuses]

OutboxTyped ==
    /\ created \in 0..MaxMails
    /\ DOMAIN mails \subseteq 1..created
    /\ \A m \in DOMAIN mails : mails[m] \in MailRow
    /\ todo \in [Passes -> Seq(Ids)]
    /\ processing \in BOOLEAN
    /\ delivered \in [Ids -> Nat]

OnePass == \A p, q \in Passes : todo[p] # <<>> /\ todo[q] # <<>> => p = q

\* A pass holds each of its rows once, in their order.
Ascending == \A p \in Passes : \A i, j \in DOMAIN todo[p] : i < j => todo[p][i] < todo[p][j]

\* What the pass holds nobody has recorded as sent or expired.
Unsent ==
    \A p \in Passes : \A i \in DOMAIN todo[p] :
        /\ todo[p][i] <= created
        /\ todo[p][i] \in DOMAIN mails =>
              mails[todo[p][i]].status \notin {"SENT", "EXPIRED"}

OutboxInv == OutboxTyped /\ FlagTellsPass /\ OnePass /\ Ascending /\ Unsent

LEMMA OutboxStarts == Init => OutboxInv
<1> SUFFICES ASSUME Init PROVE OutboxInv
    OBVIOUS
<1>1. DOMAIN mails = {} /\ created \in 0..MaxMails
    BY BoundAssumption DEF Init
<1>a. <<>> \in Seq(Ids)
    OBVIOUS
<1>2. OutboxTyped
    <2>1. todo \in [Passes -> Seq(Ids)]
        BY <1>a DEF Init
    <2>2. delivered \in [Ids -> Nat] /\ processing \in BOOLEAN
        BY DEF Init
    <2> QED
        BY <1>1, <2>1, <2>2 DEF OutboxTyped
<1>3. \A p \in Passes : todo[p] = <<>> /\ DOMAIN todo[p] = {}
    BY DEF Init
<1>4. FlagTellsPass /\ OnePass
    BY <1>3 DEF Init, FlagTellsPass, OnePass
<1>5. Ascending /\ Unsent
    BY <1>3 DEF Ascending, Unsent
<1> QED
    BY <1>2, <1>4, <1>5 DEF OutboxInv

\* Rows that requests and timers mark or remove: those a pass holds are neither sent nor
\* expired afterwards.
LEMMA OthersKeepUnsent ==
    ASSUME OutboxInv, UNCHANGED <<todo, processing>>, created' >= created, created' \in 0..MaxMails,
           DOMAIN mails' \subseteq 1..created',
           \A m \in DOMAIN mails' : mails'[m] \in MailRow,
           \A m \in DOMAIN mails' : m > created \/ (m \in DOMAIN mails /\
               (mails'[m] = mails[m] \/ mails'[m].status = "CANCELLED")),
           delivered' = delivered
    PROVE  OutboxInv'
<1>1. OutboxTyped'
    BY DEF OutboxInv, OutboxTyped
<1>2. FlagTellsPass' /\ OnePass' /\ Ascending'
    BY DEF OutboxInv, FlagTellsPass, OnePass, Ascending
<1>3. Unsent'
    <2> SUFFICES ASSUME NEW p \in Passes, NEW i \in DOMAIN todo[p]
                 PROVE  /\ todo[p][i] <= created'
                        /\ todo[p][i] \in DOMAIN mails' =>
                              mails'[todo[p][i]].status \notin {"SENT", "EXPIRED"}
        BY DEF Unsent
    <2>1. todo[p][i] \in Ids
        BY DEF OutboxInv, OutboxTyped
    <2>2. created \in Nat /\ created' \in Nat /\ todo[p][i] \in Nat
        BY <2>1 DEF OutboxInv, OutboxTyped, Ids
    <2>3. /\ todo[p][i] <= created
          /\ todo[p][i] \in DOMAIN mails => mails[todo[p][i]].status \notin {"SENT", "EXPIRED"}
        BY DEF OutboxInv, Unsent
    <2>4. todo[p][i] <= created'
        BY <2>2, <2>3
    <2>5. ASSUME todo[p][i] \in DOMAIN mails'
          PROVE  mails'[todo[p][i]].status \notin {"SENT", "EXPIRED"}
        BY <2>2, <2>3, <2>5
    <2> QED
        BY <2>4, <2>5
<1> QED
    BY <1>1, <1>2, <1>3 DEF OutboxInv

LEMMA RestOfSequence ==
    ASSUME NEW S, NEW s \in Seq(S), s # <<>>, NEW i \in DOMAIN Tail(s)
    PROVE  i + 1 \in DOMAIN s /\ Tail(s)[i] = s[i + 1] /\ i \in Nat /\ 1 \in DOMAIN s /\ 1 < i + 1
<1>1. Len(s) \in Nat /\ DOMAIN s = 1..Len(s) /\ Len(s) > 0
    OBVIOUS
<1>2. Tail(s) \in Seq(S) /\ Len(Tail(s)) = Len(s) - 1
    OBVIOUS
<1>3. i \in 1..(Len(s) - 1)
    BY <1>1, <1>2
<1>4. Tail(s)[i] = s[i + 1]
    BY <1>1, <1>3
<1> QED
    BY <1>1, <1>3, <1>4

\* The pass goes on: its rows but the first are kept, or none.
LEMMA NextRowKeeps ==
    ASSUME OutboxInv, NEW p \in Passes, todo[p] # <<>>, NextRow(p),
           UNCHANGED created,
           \A m \in DOMAIN mails : mails'[m] = mails[m] \/ (m = Head(todo[p]) /\ mails'[m] \in MailRow),
           DOMAIN mails' = DOMAIN mails, delivered' \in [Ids -> Nat]
    PROVE  OutboxInv'
<1>0. todo[p] \in Seq(Ids) /\ Tail(todo[p]) \in Seq(Ids) /\ <<>> \in Seq(Ids)
    BY DEF OutboxInv, OutboxTyped
<1> DEFINE rest == Rest(Tail(todo[p]))
<1>1. rest \in Seq(Ids) /\ rest \in {Tail(todo[p]), <<>>}
    BY <1>0 DEF Rest
<1>2. todo' = [todo EXCEPT ![p] = rest] /\ processing' = (rest # <<>>)
    BY DEF NextRow, ProcessingAfter
<1>3. todo' \in [Passes -> Seq(Ids)]
    BY <1>1, <1>2 DEF OutboxInv, OutboxTyped
<1>4. \A q \in Passes : todo[q] # <<>> => q = p
    BY DEF OutboxInv, OnePass
<1>5. todo'[p] = rest /\ \A q \in Passes : q # p => todo'[q] = <<>>
    BY <1>2, <1>4 DEF OutboxInv, OutboxTyped
<1>6. OutboxTyped'
    BY <1>2, <1>3 DEF OutboxInv, OutboxTyped
<1>7. FlagTellsPass' /\ OnePass'
    BY <1>2, <1>5 DEF FlagTellsPass, OnePass
<1>8. \A i \in DOMAIN rest : i + 1 \in DOMAIN todo[p] /\ rest[i] = todo[p][i + 1] /\ i \in Nat
                             /\ 1 \in DOMAIN todo[p] /\ 1 < i + 1
    <2>1. CASE rest = <<>>
        BY <2>1
    <2>2. CASE rest = Tail(todo[p])
        BY <2>2, RestOfSequence, Zenon DEF OutboxInv, OutboxTyped
    <2> QED
        BY <1>1, <2>1, <2>2
<1>9. Ascending'
    <2> SUFFICES ASSUME NEW q \in Passes, NEW i \in DOMAIN todo'[q], NEW j \in DOMAIN todo'[q], i < j
                 PROVE  todo'[q][i] < todo'[q][j]
        BY DEF Ascending
    <2>1. q = p /\ todo'[q] = rest
        BY <1>5
    <2>2. i + 1 \in DOMAIN todo[p] /\ j + 1 \in DOMAIN todo[p] /\ i + 1 < j + 1
          /\ rest[i] = todo[p][i + 1] /\ rest[j] = todo[p][j + 1]
        BY <2>1, <1>8
    <2> QED
        BY <2>1, <2>2 DEF OutboxInv, Ascending
<1>10. Unsent'
    <2> SUFFICES ASSUME NEW q \in Passes, NEW i \in DOMAIN todo'[q]
                 PROVE  /\ todo'[q][i] <= created'
                        /\ todo'[q][i] \in DOMAIN mails' =>
                              mails'[todo'[q][i]].status \notin {"SENT", "EXPIRED"}
        BY DEF Unsent
    <2>1. q = p /\ todo'[q] = rest
        BY <1>5
    <2>2. i + 1 \in DOMAIN todo[p] /\ rest[i] = todo[p][i + 1] /\ 1 \in DOMAIN todo[p] /\ 1 < i + 1
        BY <2>1, <1>8
    <2>3. todo[p][1] < todo[p][i + 1] /\ Head(todo[p]) = todo[p][1]
        BY <2>2, <1>0 DEF OutboxInv, Ascending
    <2>4. todo[p][1] \in Ids /\ todo[p][i + 1] \in Ids
        BY <1>0, <2>2
    <2>5. todo[p][i + 1] # Head(todo[p])
        BY <2>3, <2>4 DEF Ids
    <2>6. /\ todo[p][i + 1] <= created
          /\ todo[p][i + 1] \in DOMAIN mails => mails[todo[p][i + 1]].status \notin {"SENT", "EXPIRED"}
        BY <2>2 DEF OutboxInv, Unsent
    <2> QED
        BY <2>1, <2>2, <2>5, <2>6
<1> QED
    BY <1>6, <1>7, <1>9, <1>10 DEF OutboxInv

\* Rows marked with a status keep everything else.
LEMMA MarkFacts ==
    ASSUME OutboxTyped, NEW S, NEW s \in Statuses
    PROVE  /\ DOMAIN Mark(S, s) = DOMAIN mails
           /\ \A m \in DOMAIN mails : /\ Mark(S, s)[m] \in MailRow
                                      /\ m \in S => Mark(S, s)[m].status = s
                                      /\ m \notin S => Mark(S, s)[m] = mails[m]
BY DEF Mark, OutboxTyped, MailRow

LEMMA SendKeeps ==
    ASSUME OutboxInv, NEW p \in Passes, SendEnds(p)
    PROVE  OutboxInv'
<1>0. todo[p] # <<>> /\ NextRow(p) /\ UNCHANGED created
    BY DEF SendEnds, SendSucceeds, SendFails
<1>1. PICK s \in {"SENT", "FAILED"} : mails' = Mark({Head(todo[p])}, s)
    BY DEF SendEnds, SendSucceeds, SendFails
<1>2. /\ DOMAIN mails' = DOMAIN mails
      /\ \A m \in DOMAIN mails : mails'[m] = mails[m] \/ (m = Head(todo[p]) /\ mails'[m] \in MailRow)
    BY <1>1, MarkFacts DEF OutboxInv, Statuses
<1>3. Head(todo[p]) \in Ids
    BY <1>0 DEF OutboxInv, OutboxTyped
<1>4. PICK k \in {0, 1} : delivered' = [delivered EXCEPT ![Head(todo[p])] = @ + k]
    BY DEF SendEnds, SendSucceeds, SendFails
<1>5. delivered' \in [Ids -> Nat]
    BY <1>3, <1>4 DEF OutboxInv, OutboxTyped
<1> QED
    BY <1>0, <1>2, <1>5, NextRowKeeps

LEMMA StartKeeps ==
    ASSUME OutboxInv, NEW p \in Passes, StartPass(p)
    PROVE  OutboxInv'
<1> DEFINE old == QueuedMails \cap expired
           S == DueRows \ old
<1>0. PICK picked \in InOrder(S) : todo' = [todo EXCEPT ![p] = picked] /\ processing' = (picked # <<>>)
    BY DEF StartPass
<1>1. mails' = Mark(old, "EXPIRED") /\ UNCHANGED <<created, delivered>> /\ ~processing
    BY DEF StartPass, MayStart
<1>2. \A q \in Passes : todo[q] = <<>>
    BY <1>1 DEF OutboxInv, FlagTellsPass
<1>3. picked \in [1..Cardinality(S) -> S]
      /\ \A i, j \in DOMAIN picked : i < j => picked[i] < picked[j]
    BY DEF InOrder
<1>4. S \subseteq DOMAIN mails /\ S \subseteq Ids
    BY BoundAssumption DEF DueRows, QueuedMails, OutboxInv, OutboxTyped, Ids
<1>5. Cardinality(S) \in Nat
    <2>1. IsFiniteSet(1..created)
        BY FS_Interval DEF OutboxInv, OutboxTyped
    <2>2. S \in SUBSET (1..created)
        BY <1>4 DEF OutboxInv, OutboxTyped
    <2> QED
        BY <2>1, <2>2, FS_Subset, FS_CardinalityType
<1>6. picked \in Seq(Ids)
    <2>1. picked \in [1..Cardinality(S) -> Ids]
        BY <1>3, <1>4
    <2> HIDE DEF S
    <2>2. Seq(Ids) = UNION {[1..n -> Ids] : n \in Nat}
        BY SeqDef, Zenon
    <2>3. [1..Cardinality(S) -> Ids] \in {[1..n -> Ids] : n \in Nat}
        BY <1>5, Zenon
    <2> QED
        BY <2>1, <2>2, <2>3, Zenon
<1>7. todo'[p] = picked /\ \A q \in Passes : q # p => todo'[q] = <<>> /\ DOMAIN todo'[q] = {}
    BY <1>0, <1>2 DEF OutboxInv, OutboxTyped
<1>8. DOMAIN mails' = DOMAIN mails /\ \A m \in DOMAIN mails' : mails'[m] \in MailRow
    BY <1>1, MarkFacts DEF OutboxInv, Statuses
<1>9. OutboxTyped'
    <2>1. todo' \in [Passes -> Seq(Ids)]
        BY <1>0, <1>6 DEF OutboxInv, OutboxTyped
    <2> QED
        BY <2>1, <1>0, <1>1, <1>8 DEF OutboxInv, OutboxTyped
<1>10. FlagTellsPass' /\ OnePass'
    BY <1>0, <1>7 DEF FlagTellsPass, OnePass
<1>11. Ascending'
    BY <1>3, <1>7 DEF Ascending
<1>12. Unsent'
    <2> SUFFICES ASSUME NEW q \in Passes, NEW i \in DOMAIN todo'[q]
                 PROVE  /\ todo'[q][i] <= created'
                        /\ todo'[q][i] \in DOMAIN mails' =>
                              mails'[todo'[q][i]].status \notin {"SENT", "EXPIRED"}
        BY DEF Unsent
    <2>1. q = p /\ todo'[q] = picked /\ picked[i] \in S
        BY <1>3, <1>7
    <2>2. picked[i] \notin old /\ picked[i] \in DOMAIN mails /\ mails[picked[i]].status \in Queued
        BY <2>1 DEF DueRows, QueuedMails
    <2>3. mails'[picked[i]] = mails[picked[i]]
        BY <2>2, <1>1, MarkFacts DEF OutboxInv, Statuses
    <2>4. picked[i] <= created
        BY <2>2 DEF OutboxInv, OutboxTyped
    <2> QED
        BY <2>1, <2>2, <2>3, <2>4, <1>1 DEF Queued
<1> QED
    BY <1>9, <1>10, <1>11, <1>12 DEF OutboxInv

LEMMA CrashKeeps ==
    ASSUME OutboxInv, Crash
    PROVE  OutboxInv'
<1>1. todo' = [p \in Passes |-> <<>>] /\ processing' = FALSE /\ UNCHANGED <<mails, created>>
    BY DEF Crash, rows
<1>2. \A p \in Passes : todo'[p] = <<>> /\ DOMAIN todo'[p] = {}
    BY <1>1
<1>3. delivered' \in [Ids -> Nat]
    <2>1. CASE UNCHANGED delivered
        BY <2>1 DEF OutboxInv, OutboxTyped
    <2>2. ASSUME NEW p \in Passes, todo[p] # <<>>,
                 delivered' = [delivered EXCEPT ![Head(todo[p])] = @ + 1]
          PROVE  delivered' \in [Ids -> Nat]
        BY <2>2 DEF OutboxInv, OutboxTyped
    <2> QED
        BY <2>1, <2>2 DEF Crash
<1>4. OutboxTyped'
    <2>1. <<>> \in Seq(Ids)
        OBVIOUS
    <2>2. todo' \in [Passes -> Seq(Ids)]
        BY <1>1, <2>1
    <2> QED
        BY <1>1, <1>3, <2>2 DEF OutboxInv, OutboxTyped
<1>5. FlagTellsPass' /\ OnePass' /\ Ascending' /\ Unsent'
    BY <1>1, <1>2 DEF FlagTellsPass, OnePass, Ascending, Unsent
<1> QED
    BY <1>4, <1>5 DEF OutboxInv

LEMMA OutboxKeeps == OutboxInv /\ [Next]_vars => OutboxInv'
<1> SUFFICES ASSUME OutboxInv, [Next]_vars PROVE OutboxInv'
    OBVIOUS
<1>0. /\ created \in Nat /\ MaxMails \in Nat /\ created <= MaxMails
      /\ DOMAIN mails \subseteq 1..created /\ \A m \in DOMAIN mails : mails[m] \in MailRow
    BY BoundAssumption DEF OutboxInv, OutboxTyped
<1>1. ASSUME NEW u \in Users, QueueEmail(u) PROVE OutboxInv'
    <2>1. created' = created + 1 /\ created' \in 0..MaxMails /\ UNCHANGED <<todo, processing, delivered>>
        BY <1>0, <1>1 DEF QueueEmail
    <2>2. DOMAIN mails' = DOMAIN mails \cup {created'} /\ DOMAIN mails' \subseteq 1..created'
        BY <1>0, <1>1, <2>1 DEF QueueEmail
    <2>3. \A m \in DOMAIN mails' : IF m = created' THEN mails'[m] = [user |-> u, status |-> "PENDING"]
                                   ELSE mails'[m] = mails[m]
        BY <1>1, <2>2 DEF QueueEmail
    <2>4. \A m \in DOMAIN mails' : mails'[m] \in MailRow
        BY <2>2, <2>3, <1>0 DEF MailRow, Statuses
    <2> QED
        BY <1>0, <2>1, <2>2, <2>3, <2>4, OthersKeepUnsent
<1>2. CASE DisableSmtp
    <2>1. /\ DOMAIN mails' = DOMAIN mails
          /\ \A m \in DOMAIN mails : /\ mails'[m] \in MailRow
                                     /\ mails'[m] = mails[m] \/ mails'[m].status = "CANCELLED"
        BY <1>2, MarkFacts DEF DisableSmtp, OutboxInv, Statuses
    <2> QED
        BY <1>0, <1>2, <2>1, OthersKeepUnsent DEF DisableSmtp
<1>3. ASSUME NEW u \in Users, DeletePersonalData(u) \/ RejectRegistration(u) PROVE OutboxInv'
    <2>1. /\ DOMAIN mails' \subseteq DOMAIN mails
          /\ \A m \in DOMAIN mails' : mails'[m] = mails[m]
          /\ UNCHANGED <<created, todo, processing, delivered>>
        BY <1>3 DEF DeletePersonalData, RejectRegistration
    <2> QED
        BY <1>0, <2>1, OthersKeepUnsent
<1>4. CASE EnableSmtp \/ (\E m \in Ids : Expires(m) \/ BackoffEnds(m)) \/ UNCHANGED vars
    <2>1. UNCHANGED <<mails, created, todo, processing, delivered>>
        BY <1>4 DEF EnableSmtp, Expires, BackoffEnds, vars, rows
    <2> QED
        BY <2>1 DEF OutboxInv, OutboxTyped, FlagTellsPass, OnePass, Ascending, Unsent
<1> QED
    BY <1>1, <1>2, <1>3, <1>4, StartKeeps, SendKeeps, CrashKeeps DEF Next

LEMMA OutboxInvariant == Spec => []OutboxInv
BY OutboxStarts, OutboxKeeps, PTL DEF Spec

LEMMA NeverSentAgain == Spec => NotSentAgain
<1> DEFINE Again(m) == delivered'[m] > delivered[m] /\ m \in DOMAIN mails
                          => mails[m].status \notin {"SENT", "EXPIRED"}
           Once == \A m \in Ids : Again(m)
<1>1. OutboxInv /\ [Next]_vars => [Once]_vars
    <2> SUFFICES ASSUME OutboxInv, Next, NEW m \in Ids, delivered'[m] > delivered[m], m \in DOMAIN mails
                 PROVE  mails[m].status \notin {"SENT", "EXPIRED"}
        BY DEF Once
    <2>0. delivered \in [Ids -> Nat] /\ delivered' # delivered
        BY DEF OutboxInv, OutboxTyped
    <2>1. \E p \in Passes : SendEnds(p) \/ (Crash /\ todo[p] # <<>>
                                 /\ delivered' = [delivered EXCEPT ![Head(todo[p])] = @ + 1])
        BY <2>0 DEF Next, QueueEmail, DeletePersonalData, RejectRegistration, DisableSmtp, EnableSmtp,
               Expires, BackoffEnds, StartPass, Crash, rows
    <2>2. PICK p \in Passes : todo[p] # <<>> /\ \E k \in {0, 1} :
                                 delivered' = [delivered EXCEPT ![Head(todo[p])] = @ + k]
        BY <2>1 DEF SendEnds, SendSucceeds, SendFails
    <2>3. m = Head(todo[p])
        BY <2>0, <2>2
    <2>4. todo[p] \in Seq(Ids) /\ 1 \in DOMAIN todo[p] /\ Head(todo[p]) = todo[p][1]
        BY <2>2 DEF OutboxInv, OutboxTyped
    <2> QED
        BY <2>3, <2>4 DEF OutboxInv, Unsent
<1> QED
    BY <1>1, OutboxInvariant, PTL DEF Spec, NotSentAgain

-----------------------------------------------------------------------------
(* Assistance requests: the inductive invariant *)

Standing == {"OPEN", "RESOLVED"}
EventRow == [id : Nat, kind : Kinds, severity : H!Severity, status : Standing, revision : Nat]
ItemRow == [event : EventRow, attempted : BOOLEAN, delivered : BOOLEAN]
HelpRow == [kind : Kinds, severity : H!Severity, status : Standing, revision : Nat,
            by : {"nobody", "MACHINE", "ADMIN"}]

OneEach(request) == \A d, e \in request : d.id = e.id => d = e

HelpTyped ==
    /\ problem \in [Kinds -> H!Severity \cup {"none"}]
    /\ \A i \in DOMAIN queue : queue[i] \in ItemRow /\ queue[i].event.id = i
    /\ \A i \in DOMAIN server : server[i] \in HelpRow
    /\ \A request \in wire : request \subseteq EventRow /\ OneEach(request)
    /\ answered \in BOOLEAN
    /\ \E b \in Nat : H!Used \subseteq 1..b
    /\ Cardinality(DOMAIN queue) <= MaxQueue

\* The queue stands still while an answer is awaited; an answer says that the platform has
\* seen it all.
AwaitedInv ==
    awaited # {} =>
        /\ awaited \in wire
        /\ \A e \in awaited : e.id \in DOMAIN queue /\ queue[e.id].event = e
        /\ answered => \A e \in awaited : H!Stale(e)

\* What is on its way is the event as it is or as it was; of an event that has left the
\* queue the platform takes nothing any more.
SentInv ==
    \A request \in wire : \A e \in request :
        IF e.id \in DOMAIN queue
        THEN /\ queue[e.id].attempted
             /\ e = queue[e.id].event \/ e.revision < queue[e.id].event.revision
        ELSE e.id \in DOMAIN server /\ server[e.id].status = "RESOLVED"

RowsInv ==
    \A i \in DOMAIN server :
        IF i \in DOMAIN queue
        THEN /\ queue[i].attempted
             /\ \/ server[i].revision < queue[i].event.revision
                \/ /\ server[i].revision = queue[i].event.revision
                   /\ server[i].status \in {queue[i].event.status, "RESOLVED"}
        ELSE server[i].status = "RESOLVED"

\* A notice is of a revision the row has reached.
NoticesInv ==
    \A n \in DOMAIN notices :
        /\ notices[n] = 1
        /\ n \in Nat \X Nat
        /\ n[1] \in DOMAIN server /\ n[2] <= server[n[1]].revision

HelpInv == HelpTyped /\ AwaitedInv /\ SentInv /\ RowsInv /\ NoticesInv

LEMMA HelpStarts == H!Init => HelpInv
<1> SUFFICES ASSUME H!Init PROVE HelpInv
    OBVIOUS
<1>1. DOMAIN queue = {} /\ DOMAIN server = {} /\ DOMAIN notices = {} /\ wire = {} /\ awaited = {}
    BY DEF H!Init
<1>2. H!Used = {}
    BY <1>1 DEF H!Used
<1>3. Cardinality(DOMAIN queue) <= MaxQueue
    BY <1>1, FS_EmptySet, QueueBounds
<1>4. H!Used \subseteq 1..0 /\ 0 \in Nat
    BY <1>2
<1>5. HelpTyped
    BY <1>1, <1>3, <1>4 DEF HelpTyped, H!Init
<1>6. AwaitedInv /\ SentInv /\ RowsInv /\ NoticesInv
    BY <1>1 DEF AwaitedInv, SentInv, RowsInv, NoticesInv
<1> QED
    BY <1>5, <1>6 DEF HelpInv

\* A bounded set of numbers has a greatest one.
LEMMA MaxOfBounded ==
    ASSUME NEW S, NEW b \in Nat, S \subseteq 1..b, S # {}
    PROVE  H!Max(S) \in S /\ \A y \in S : H!Max(S) >= y
<1> DEFINE T == {x \in Nat : \A y \in S : y <= x}
<1>1. T \subseteq Nat /\ b \in T
    OBVIOUS
<1>2. PICK m \in T : \A x \in T : ~(<<x, m>> \in OpToRel(<, Nat))
    <2> HIDE DEF T
    <2>1. T # {}
        BY <1>1
    <2> QED
        BY <1>1, <2>1, WFMin, NatLessThanWellFounded, Zenon
<1>3. m \in Nat /\ \A y \in S : y <= m
    OBVIOUS
<1>4. \A x \in T : ~(x < m)
    <2> SUFFICES ASSUME NEW x \in T, x < m PROVE FALSE
        OBVIOUS
    <2>1. <<x, m>> \in OpToRel(<, Nat)
        BY <1>1, <1>3 DEF OpToRel
    <2> QED
        BY <1>2, <2>1
<1>5. m \in S
    <2> SUFFICES ASSUME m \notin S PROVE FALSE
        OBVIOUS
    <2>1. PICK y \in S : y \in 1..b
        OBVIOUS
    <2>2. m > 0 /\ m - 1 \in Nat
        BY <1>3, <2>1
    <2>3. \A z \in S : z <= m - 1
        <3> SUFFICES ASSUME NEW z \in S PROVE z <= m - 1
            OBVIOUS
        <3>1. z \in Nat /\ z <= m /\ z # m
            BY <1>3
        <3> QED
            BY <3>1, <1>3
    <2>4. m - 1 \in T
        BY <2>2, <2>3
    <2> QED
        BY <1>3, <1>4, <2>4
<1>6. \E x \in S : \A y \in S : x >= y
    <2>1. \A y \in S : m >= y
        BY <1>3
    <2> QED
        BY <1>5, <2>1
<1> QED
    BY <1>6, Zenon DEF H!Max

LEMMA SameCardinality == ASSUME NEW S PROVE H!Cardinality(S) = Cardinality(S)
BY Zenon DEF H!Cardinality, Cardinality

\* As many numbers as there are new problems can be given to them, and then each is taken.
LEMMA PlacesForAll ==
    ASSUME NEW new \in SUBSET Kinds, NEW base \in Nat
    PROVE  /\ H!Cardinality(new) \in Nat
           /\ \E p \in [new -> (base + 1)..(base + H!Cardinality(new))] :
                 \A k, l \in new : k # l => p[k] # p[l]
           /\ \A p \in [new -> (base + 1)..(base + H!Cardinality(new))] :
                 (\A k, l \in new : k # l => p[k] # p[l])
                   => \A i \in (base + 1)..(base + H!Cardinality(new)) : \E k \in new : p[k] = i
<1>1. IsFiniteSet(new)
    BY QueueBounds, FS_Subset
<1> DEFINE n == Cardinality(new)
           R == (base + 1)..(base + n)
<1>2. n \in Nat /\ ExistsBijection(1..n, new)
    BY <1>1, FS_CardinalityType
<1>3. PICK f \in Bijection(1..n, new) : TRUE
    BY <1>2 DEF ExistsBijection
<1>4. f \in [1..n -> new] /\ \A k \in new : \E i \in 1..n : f[i] = k
    BY DEF Bijection, Injection, Surjection
<1> DEFINE at == [k \in new |-> CHOOSE i \in 1..n : f[i] = k]
           p0 == [k \in new |-> base + at[k]]
<1>5. \A k \in new : at[k] \in 1..n /\ f[at[k]] = k
    BY <1>4
<1>6. \A k \in new : p0[k] = base + at[k]
    OBVIOUS
<1> HIDE DEF at
<1>7. p0 \in [new -> R]
    BY <1>2, <1>5
<1>8. \A k, l \in new : k # l => p0[k] # p0[l]
    <2> SUFFICES ASSUME NEW k \in new, NEW l \in new, p0[k] = p0[l] PROVE k = l
        OBVIOUS
    <2>1. at[k] \in 1..n /\ at[l] \in 1..n /\ base + at[k] = base + at[l]
        BY <1>5, <1>6
    <2>2. at[k] = at[l]
        BY <2>1, <1>2
    <2> QED
        BY <2>2, <1>5
<1>9. IsFiniteSet(R) /\ Cardinality(R) = n
    BY <1>2, FS_Interval, SMTT(60)
<1>10. ASSUME NEW p \in [new -> R], \A k, l \in new : k # l => p[k] # p[l], NEW i \in R
       PROVE  \E k \in new : p[k] = i
    <2>1. p \in Injection(new, R)
        BY <1>10 DEF Injection, IsInjective
    <2> HIDE DEF R, n
    <2>2. p \in Surjection(new, R)
        BY <2>1, <1>9, FS_Injection DEF n
    <2> QED
        BY <2>2, <1>10 DEF Surjection
<1>11. H!Cardinality(new) = n
    BY SameCardinality
<1> QED
    BY <1>2, <1>7, <1>8, <1>10, <1>11

\* The events known so far lie below the next number.
LEMMA NextNumber ==
    ASSUME HelpTyped, NEW base, base = IF H!Used = {} THEN 0 ELSE H!Max(H!Used)
    PROVE  base \in Nat /\ \A u \in H!Used : u \in Nat /\ u > 0 /\ u <= base
<1>1. PICK b \in Nat : H!Used \subseteq 1..b
    BY DEF HelpTyped
<1>2. CASE H!Used = {}
    BY <1>2
<1>3. CASE H!Used # {}
    <2>1. H!Max(H!Used) \in H!Used /\ \A y \in H!Used : H!Max(H!Used) >= y
        BY <1>1, <1>3, MaxOfBounded, Zenon
    <2> QED
        BY <1>1, <1>3, <2>1
<1> QED
    BY <1>2, <1>3

\* A queued event after the comparison: as it was, or in a later revision.
LEMMA UpdatedFacts ==
    ASSUME HelpTyped, NEW seen \in SUBSET H!Present, NEW retry \in BOOLEAN, NEW i \in DOMAIN queue,
           NEW item, item = H!Updated(queue[i], seen, retry)
    PROVE  /\ item \in ItemRow /\ item.event.id = i
           /\ item.attempted = queue[i].attempted
           /\ item.event = queue[i].event \/ item.event.revision > queue[i].event.revision
<1> DEFINE old == queue[i]
<1>1. old \in ItemRow /\ old.event.id = i
    BY DEF HelpTyped
<1>2. \A k \in seen : k \in Kinds /\ problem[k] \in H!Severity
    BY DEF HelpTyped, H!Present
<1>3. ASSUME NEW severity \in H!Severity, NEW status \in Standing,
             item = H!Revised(old, severity, status)
      PROVE  item \in ItemRow /\ item.event.id = i /\ item.attempted = old.attempted
             /\ item.event.revision > old.event.revision
    <2> DEFINE event == [id |-> old.event.id, kind |-> old.event.kind, severity |-> severity,
                         status |-> status, revision |-> old.event.revision + 1]
    <2>1. event \in EventRow /\ event.id = i /\ event.revision > old.event.revision
        BY <1>1, <1>3 DEF EventRow, ItemRow
    <2>2. item = [event |-> event, attempted |-> old.attempted, delivered |-> FALSE]
        BY <1>1, <1>3 DEF H!Revised, ItemRow, EventRow
    <2> HIDE DEF event, old
    <2> QED
        BY <2>1, <2>2, <1>1 DEF ItemRow
<1>4. CASE item = old
    BY <1>1, <1>4
<1>5. item = old \/ \E severity \in H!Severity, status \in Standing : item = H!Revised(old, severity, status)
    <2>1. old.event.severity \in H!Severity
        BY <1>1 DEF ItemRow, EventRow
    <2> QED
        BY <2>1, <1>2 DEF H!Updated, Standing
<1> QED
    BY <1>3, <1>4, <1>5

\* updateHelp: events keep their numbers and never go back; new ones have new numbers; what
\* is dropped was never sent.
LEMMA ComparedFacts ==
    ASSUME HelpTyped, NEW seen \in SUBSET H!Present, NEW retry \in BOOLEAN,
           NEW items, items = H!Compared(seen, retry)
    PROVE  /\ \A i \in DOMAIN items :
                 /\ items[i] \in ItemRow /\ items[i].event.id = i
                 /\ IF i \in DOMAIN queue
                    THEN /\ items[i].attempted = queue[i].attempted
                         /\ \/ items[i].event = queue[i].event
                            \/ items[i].event.revision > queue[i].event.revision
                    ELSE i \notin H!Used
           /\ \A i \in DOMAIN queue \ DOMAIN items : ~queue[i].attempted
           /\ \E b \in Nat : H!Used \cup DOMAIN items \subseteq 1..b
<1> DEFINE kept == {i \in DOMAIN queue : ~(H!Solved(queue[i], seen, retry) /\ H!Dropped(queue[i]))}
           known == {queue[i].event.kind : i \in {j \in kept : queue[j].event.status = "OPEN"}}
           base == IF H!Used = {} THEN 0 ELSE H!Max(H!Used)
           new == {k \in seen : k \notin known}
           R == (base + 1)..(base + H!Cardinality(new))
           number == CHOOSE p \in [new -> R] : \A k, l \in new : k # l => p[k] # p[l]
           kindAt(i) == CHOOSE k \in new : number[k] = i
           fresh(i) == [event |-> [id |-> i, kind |-> kindAt(i), severity |-> problem[kindAt(i)],
                                   status |-> "OPEN", revision |-> 1],
                        attempted |-> FALSE, delivered |-> FALSE]
<1>1. items = [i \in kept \cup R |-> IF i \in kept THEN H!Updated(queue[i], seen, retry) ELSE fresh(i)]
    BY Zenon DEF H!Compared
<1>2. base \in Nat /\ \A u \in H!Used : u \in Nat /\ u > 0 /\ u <= base
    BY NextNumber
<1>3. seen \subseteq Kinds /\ new \subseteq Kinds /\ \A k \in new : problem[k] \in H!Severity
    BY DEF H!Present, HelpTyped
<1> HIDE DEF base
<1>4. H!Cardinality(new) \in Nat
    <2> HIDE DEF new
    <2> QED
        BY <1>2, <1>3, PlacesForAll
<1>5. \A i \in R : kindAt(i) \in new
    <2> HIDE DEF new
    <2>0. \E p \in [new -> R] : \A k, l \in new : k # l => p[k] # p[l]
        BY <1>2, <1>3, PlacesForAll
    <2>1. number \in [new -> R] /\ \A k, l \in new : k # l => number[k] # number[l]
        BY <2>0, Zenon
    <2> HIDE DEF number
    <2>2. \A i \in R : \E k \in new : number[k] = i
        BY <1>2, <1>3, <2>1, PlacesForAll
    <2> QED
        BY <2>2
<1> HIDE DEF number, new
<1>6. \A i \in R : i \in Nat /\ i > base /\ i <= base + H!Cardinality(new)
    BY <1>2, <1>4
<1>7. \A i \in R : i \notin H!Used
    BY <1>2, <1>6
<1>8. DOMAIN queue \subseteq H!Used /\ kept \subseteq DOMAIN queue
    BY DEF H!Used
<1>9. \A i \in R : fresh(i) \in ItemRow /\ fresh(i).event.id = i
    <2> SUFFICES ASSUME NEW i \in R PROVE fresh(i) \in ItemRow /\ fresh(i).event.id = i
        OBVIOUS
    <2>1. kindAt(i) \in Kinds /\ problem[kindAt(i)] \in H!Severity /\ i \in Nat
        BY <1>3, <1>5, <1>6
    <2> HIDE DEF kindAt
    <2> QED
        BY <2>1 DEF ItemRow, EventRow, Standing
<1> HIDE DEF kindAt, R
<1>10. DOMAIN items = kept \cup R
    BY <1>1
<1>11. ASSUME NEW i \in DOMAIN items
       PROVE  /\ items[i] \in ItemRow /\ items[i].event.id = i
              /\ IF i \in DOMAIN queue
                 THEN /\ items[i].attempted = queue[i].attempted
                      /\ \/ items[i].event = queue[i].event
                         \/ items[i].event.revision > queue[i].event.revision
                 ELSE i \notin H!Used
    <2>1. CASE i \in kept
        <3>1. items[i] = H!Updated(queue[i], seen, retry)
            BY <1>1, <2>1
        <3>2. i \in DOMAIN queue
            BY <2>1
        <3> QED
            BY <3>1, <3>2, UpdatedFacts
    <2>2. CASE i \notin kept
        <3>1. i \in R /\ items[i] = fresh(i)
            BY <1>1, <1>10, <2>2
        <3> HIDE DEF fresh, kept
        <3> QED
            BY <3>1, <1>7, <1>8, <1>9
    <2> QED
        BY <2>1, <2>2
<1>12. \A i \in DOMAIN queue \ DOMAIN items : ~queue[i].attempted
    BY <1>10 DEF H!Dropped
<1>13. \E b \in Nat : H!Used \cup DOMAIN items \subseteq 1..b
    <2> HIDE DEF kept
    <2>1. H!Used \cup DOMAIN items \subseteq 1..(base + H!Cardinality(new))
        BY <1>2, <1>4, <1>6, <1>8, <1>10
    <2> QED
        BY <2>1, <1>2, <1>4
<1> QED
    BY <1>11, <1>12, <1>13

\* The terminal stores its queue and sends.
LEMMA CycleKeeps ==
    ASSUME HelpInv, NEW seen \in SUBSET H!Present, NEW retry \in BOOLEAN, H!Cycle(seen, retry)
    PROVE  HelpInv'
<1>0. PICK items : items = H!Compared(seen, retry)
    OBVIOUS
<1> DEFINE batch == H!Batch(items)
           request == {items[i].event : i \in batch}
<1>1. /\ queue' = [i \in DOMAIN items |->
                     IF i \in batch THEN [items[i] EXCEPT !.attempted = TRUE] ELSE items[i]]
      /\ awaited' = request /\ answered' = FALSE
      /\ wire' = (IF request = {} THEN wire ELSE wire \cup {request})
      /\ UNCHANGED <<problem, changes, server, notices>>
      /\ H!Cardinality(DOMAIN items) <= MaxQueue
    BY <1>0 DEF H!Cycle
<1>2. /\ \A i \in DOMAIN items :
            /\ items[i] \in ItemRow /\ items[i].event.id = i
            /\ IF i \in DOMAIN queue
               THEN /\ items[i].attempted = queue[i].attempted
                    /\ \/ items[i].event = queue[i].event
                       \/ items[i].event.revision > queue[i].event.revision
               ELSE i \notin H!Used
      /\ \A i \in DOMAIN queue \ DOMAIN items : ~queue[i].attempted
      /\ \E b \in Nat : H!Used \cup DOMAIN items \subseteq 1..b
    BY <1>0, ComparedFacts DEF HelpInv
<1>3. batch \subseteq DOMAIN items
    BY DEF H!Batch
<1> HIDE DEF batch
<1>4. /\ DOMAIN queue' = DOMAIN items
      /\ \A i \in DOMAIN items : /\ queue'[i] \in ItemRow /\ queue'[i].event = items[i].event
                                 /\ i \in batch => queue'[i].attempted
                                 /\ items[i].attempted => queue'[i].attempted
    <2>1. DOMAIN queue' = DOMAIN items
        BY <1>1
    <2>2. ASSUME NEW i \in DOMAIN items
          PROVE  /\ queue'[i] \in ItemRow /\ queue'[i].event = items[i].event
                 /\ i \in batch => queue'[i].attempted
                 /\ items[i].attempted => queue'[i].attempted
        <3>1. items[i] \in ItemRow
            BY <1>2
        <3>2. queue'[i] = IF i \in batch THEN [items[i] EXCEPT !.attempted = TRUE] ELSE items[i]
            BY <1>1
        <3> QED
            BY <3>1, <3>2 DEF ItemRow
    <2> QED
        BY <2>1, <2>2
<1>5. \A e \in request : \E i \in batch : e = items[i].event /\ e.id = i /\ e \in EventRow
    BY <1>2, <1>3 DEF ItemRow
<1> HIDE DEF request
<1>6. \A r \in wire' : r \in wire \/ r = request
    BY <1>1
<1>7. HelpTyped'
    <2>1. \A i \in DOMAIN queue' : queue'[i] \in ItemRow /\ queue'[i].event.id = i
        BY <1>2, <1>4
    <2>2. \A r \in wire' : r \subseteq EventRow /\ OneEach(r)
        <3>1. request \subseteq EventRow /\ OneEach(request)
            BY <1>5 DEF OneEach
        <3> QED
            BY <3>1, <1>6 DEF HelpInv, HelpTyped
    <2>3. \E b \in Nat : H!Used' \subseteq 1..b
        <3>1. H!Used' \subseteq H!Used \cup DOMAIN items
            <4> SUFFICES ASSUME NEW u \in H!Used' PROVE u \in H!Used \cup DOMAIN items
                OBVIOUS
            <4>1. CASE u \in DOMAIN queue'
                BY <4>1, <1>4
            <4>2. CASE u \in DOMAIN server'
                BY <4>2, <1>1 DEF H!Used
            <4>3. CASE \E r \in wire' : \E e \in r : u = e.id
                <5>1. PICK r \in wire' : \E e \in r : u = e.id
                    BY <4>3
                <5>2. PICK e \in r : u = e.id
                    BY <5>1
                <5>3. CASE r \in wire
                    BY <5>2, <5>3 DEF H!Used
                <5>4. CASE r = request
                    BY <5>2, <5>4, <1>3, <1>5
                <5> QED
                    BY <1>6, <5>3, <5>4
            <4> QED
                BY <4>1, <4>2, <4>3 DEF H!Used
        <3> QED
            BY <3>1, <1>2
    <2>4. Cardinality(DOMAIN queue') <= MaxQueue
        BY <1>1, <1>4, SameCardinality
    <2> QED
        BY <1>1, <2>1, <2>2, <2>3, <2>4 DEF HelpInv, HelpTyped
<1>8. AwaitedInv'
    <2>1. ASSUME request # {} PROVE request \in wire'
        BY <2>1, <1>1
    <2>2. \A e \in request : e.id \in DOMAIN queue' /\ queue'[e.id].event = e
        BY <1>3, <1>4, <1>5
    <2> QED
        BY <1>1, <2>1, <2>2 DEF AwaitedInv
<1>9. SentInv'
    <2> SUFFICES ASSUME NEW r \in wire', NEW e \in r
                 PROVE  IF e.id \in DOMAIN queue'
                        THEN /\ queue'[e.id].attempted
                             /\ e = queue'[e.id].event \/ e.revision < queue'[e.id].event.revision
                        ELSE e.id \in DOMAIN server' /\ server'[e.id].status = "RESOLVED"
        BY DEF SentInv
    <2>1. CASE r = request
        BY <2>1, <1>3, <1>4, <1>5
    <2>2. CASE r \in wire
        <3>1. e \in EventRow /\ e.id \in H!Used
            BY <2>2 DEF HelpInv, HelpTyped, H!Used
        <3>2. IF e.id \in DOMAIN queue
              THEN /\ queue[e.id].attempted
                   /\ e = queue[e.id].event \/ e.revision < queue[e.id].event.revision
              ELSE e.id \in DOMAIN server /\ server[e.id].status = "RESOLVED"
            BY <2>2 DEF HelpInv, SentInv
        <3>3. CASE e.id \in DOMAIN items
            <4>1. e.id \in DOMAIN queue
                BY <3>1, <3>3, <1>2
            <4>2. queue[e.id] \in ItemRow /\ items[e.id] \in ItemRow
                BY <4>1, <3>3, <1>2 DEF HelpInv, HelpTyped
            <4>3. e.revision \in Nat /\ queue[e.id].event.revision \in Nat
                  /\ items[e.id].event.revision \in Nat
                BY <4>2, <3>1 DEF ItemRow, EventRow
            <4>4. queue[e.id].attempted /\ items[e.id].attempted
                BY <3>2, <3>3, <4>1, <1>2
            <4>5. e = items[e.id].event \/ e.revision < items[e.id].event.revision
                BY <3>2, <3>3, <4>1, <4>3, <1>2
            <4> QED
                BY <3>3, <4>4, <4>5, <1>4
        <3>4. CASE e.id \notin DOMAIN items
            <4>1. e.id \notin DOMAIN queue
                BY <3>2, <3>4, <1>2
            <4> QED
                BY <4>1, <3>2, <3>4, <1>1, <1>4
        <3> QED
            BY <3>3, <3>4
    <2> QED
        BY <2>1, <2>2, <1>6
<1>10. RowsInv'
    <2> SUFFICES ASSUME NEW i \in DOMAIN server
                 PROVE  IF i \in DOMAIN queue'
                        THEN /\ queue'[i].attempted
                             /\ \/ server[i].revision < queue'[i].event.revision
                                \/ /\ server[i].revision = queue'[i].event.revision
                                   /\ server[i].status \in {queue'[i].event.status, "RESOLVED"}
                        ELSE server[i].status = "RESOLVED"
        BY <1>1 DEF RowsInv
    <2>1. i \in H!Used /\ server[i] \in HelpRow
        BY DEF HelpInv, HelpTyped, H!Used
    <2>2. IF i \in DOMAIN queue
          THEN /\ queue[i].attempted
               /\ \/ server[i].revision < queue[i].event.revision
                  \/ /\ server[i].revision = queue[i].event.revision
                     /\ server[i].status \in {queue[i].event.status, "RESOLVED"}
          ELSE server[i].status = "RESOLVED"
        BY DEF HelpInv, RowsInv
    <2>3. CASE i \in DOMAIN items
        <3>1. i \in DOMAIN queue
            BY <2>1, <2>3, <1>2
        <3>2. queue[i] \in ItemRow /\ items[i] \in ItemRow
            BY <2>3, <3>1, <1>2 DEF HelpInv, HelpTyped
        <3>3. server[i].revision \in Nat /\ queue[i].event.revision \in Nat
              /\ items[i].event.revision \in Nat
            BY <3>2, <2>1 DEF ItemRow, EventRow, HelpRow
        <3>4. queue'[i].attempted /\ queue'[i].event = items[i].event
            BY <2>2, <2>3, <3>1, <1>2, <1>4
        <3>5. items[i].event = queue[i].event \/ items[i].event.revision > queue[i].event.revision
            BY <2>3, <3>1, <1>2
        <3>6. \/ server[i].revision < items[i].event.revision
              \/ /\ server[i].revision = items[i].event.revision
                 /\ server[i].status \in {items[i].event.status, "RESOLVED"}
            BY <2>2, <3>1, <3>3, <3>5
        <3> QED
            BY <2>3, <3>4, <3>6, <1>4
    <2>4. CASE i \notin DOMAIN items
        <3>1. i \notin DOMAIN queue
            BY <2>2, <2>4, <1>2
        <3> QED
            BY <2>2, <2>4, <3>1, <1>4
    <2> QED
        BY <2>3, <2>4
<1>11. NoticesInv'
    BY <1>1 DEF HelpInv, NoticesInv
<1> QED
    BY <1>7, <1>8, <1>9, <1>10, <1>11 DEF HelpInv

\* What the platform has is as new as the event, or is closed.
LEMMA AcknowledgedKeeps ==
    ASSUME HelpInv, H!Acknowledged
    PROVE  HelpInv'
<1> DEFINE ids == {e.id : e \in awaited}
           over == {i \in ids : queue[i].event.status = "RESOLVED"}
<1>1. /\ awaited # {} /\ answered /\ awaited' = {} /\ answered' = FALSE
      /\ queue' = [i \in DOMAIN queue \ over |->
                      IF i \in ids THEN [queue[i] EXCEPT !.delivered = TRUE] ELSE queue[i]]
      /\ UNCHANGED <<problem, changes, wire, server, notices>>
    BY DEF H!Acknowledged
<1>2. /\ awaited \in wire
      /\ \A e \in awaited : e.id \in DOMAIN queue /\ queue[e.id].event = e /\ H!Stale(e)
    BY <1>1 DEF HelpInv, AwaitedInv
<1>3. \A i \in over : i \in DOMAIN queue /\ i \in DOMAIN server /\ server[i].status = "RESOLVED"
    <2> SUFFICES ASSUME NEW e \in awaited, queue[e.id].event.status = "RESOLVED"
                 PROVE  /\ e.id \in DOMAIN queue /\ e.id \in DOMAIN server
                        /\ server[e.id].status = "RESOLVED"
        OBVIOUS
    <2>1. /\ e.id \in DOMAIN queue /\ queue[e.id].event = e /\ e.id \in DOMAIN server
          /\ e.revision <= server[e.id].revision \/ server[e.id].status = "RESOLVED"
        BY <1>2 DEF H!Stale
    <2>2. \/ server[e.id].revision < e.revision
          \/ /\ server[e.id].revision = e.revision
             /\ server[e.id].status \in {e.status, "RESOLVED"}
        BY <2>1 DEF HelpInv, RowsInv
    <2>3. server[e.id].revision \in Nat /\ e.revision \in Nat
        BY <2>1, <1>2 DEF HelpInv, HelpTyped, HelpRow, EventRow
    <2>4. e.status = "RESOLVED"
        BY <2>1
    <2> QED
        BY <2>1, <2>2, <2>3, <2>4
<1> HIDE DEF over, ids
<1>4. /\ DOMAIN queue' = DOMAIN queue \ over
      /\ \A i \in DOMAIN queue' : /\ queue'[i] \in ItemRow /\ queue'[i].event = queue[i].event
                                  /\ queue'[i].attempted = queue[i].attempted
    <2>1. DOMAIN queue' = DOMAIN queue \ over
        BY <1>1
    <2>2. ASSUME NEW i \in DOMAIN queue \ over
          PROVE  /\ queue'[i] \in ItemRow /\ queue'[i].event = queue[i].event
                 /\ queue'[i].attempted = queue[i].attempted
        <3>1. queue[i] \in ItemRow
            BY DEF HelpInv, HelpTyped
        <3>2. queue'[i] = IF i \in ids THEN [queue[i] EXCEPT !.delivered = TRUE] ELSE queue[i]
            BY <1>1
        <3> QED
            BY <3>1, <3>2 DEF ItemRow
    <2> QED
        BY <2>1, <2>2
<1>5. HelpTyped'
    <2>1. \A i \in DOMAIN queue' : queue'[i] \in ItemRow /\ queue'[i].event.id = i
        BY <1>4 DEF HelpInv, HelpTyped
    <2>2. H!Used' \subseteq H!Used
        BY <1>1, <1>4 DEF H!Used
    <2>3. Cardinality(DOMAIN queue') <= MaxQueue
        <3>1. PICK b \in Nat : H!Used \subseteq 1..b
            BY DEF HelpInv, HelpTyped
        <3>2. IsFiniteSet(1..b)
            BY <3>1, FS_Interval
        <3>3. DOMAIN queue \in SUBSET (1..b)
            BY <3>1 DEF H!Used
        <3>4. IsFiniteSet(DOMAIN queue)
            BY <3>2, <3>3, FS_Subset, Zenon
        <3>5. DOMAIN queue' \in SUBSET DOMAIN queue
            BY <1>4
        <3>6. /\ IsFiniteSet(DOMAIN queue')
              /\ Cardinality(DOMAIN queue') <= Cardinality(DOMAIN queue)
            BY <3>4, <3>5, FS_Subset
        <3>7. Cardinality(DOMAIN queue') \in Nat /\ Cardinality(DOMAIN queue) \in Nat
            BY <3>4, <3>6, FS_CardinalityType
        <3>8. Cardinality(DOMAIN queue) <= MaxQueue /\ MaxQueue \in Nat
            BY QueueBounds DEF HelpInv, HelpTyped
        <3> QED
            BY <3>6, <3>7, <3>8
    <2> QED
        BY <1>1, <2>1, <2>2, <2>3 DEF HelpInv, HelpTyped
<1>6. AwaitedInv'
    BY <1>1 DEF AwaitedInv
<1>7. SentInv'
    <2> SUFFICES ASSUME NEW r \in wire, NEW e \in r
                 PROVE  IF e.id \in DOMAIN queue'
                        THEN /\ queue'[e.id].attempted
                             /\ e = queue'[e.id].event \/ e.revision < queue'[e.id].event.revision
                        ELSE e.id \in DOMAIN server /\ server[e.id].status = "RESOLVED"
        BY <1>1 DEF SentInv
    <2>1. IF e.id \in DOMAIN queue
          THEN /\ queue[e.id].attempted
               /\ e = queue[e.id].event \/ e.revision < queue[e.id].event.revision
          ELSE e.id \in DOMAIN server /\ server[e.id].status = "RESOLVED"
        BY DEF HelpInv, SentInv
    <2> QED
        BY <2>1, <1>3, <1>4
<1>8. RowsInv'
    <2> SUFFICES ASSUME NEW i \in DOMAIN server
                 PROVE  IF i \in DOMAIN queue'
                        THEN /\ queue'[i].attempted
                             /\ \/ server[i].revision < queue'[i].event.revision
                                \/ /\ server[i].revision = queue'[i].event.revision
                                   /\ server[i].status \in {queue'[i].event.status, "RESOLVED"}
                        ELSE server[i].status = "RESOLVED"
        BY <1>1 DEF RowsInv
    <2>1. IF i \in DOMAIN queue
          THEN /\ queue[i].attempted
               /\ \/ server[i].revision < queue[i].event.revision
                  \/ /\ server[i].revision = queue[i].event.revision
                     /\ server[i].status \in {queue[i].event.status, "RESOLVED"}
          ELSE server[i].status = "RESOLVED"
        BY DEF HelpInv, RowsInv
    <2> QED
        BY <2>1, <1>3, <1>4
<1>9. NoticesInv'
    BY <1>1 DEF HelpInv, NoticesInv
<1> QED
    BY <1>5, <1>6, <1>7, <1>8, <1>9 DEF HelpInv

\* receiveTerminalHelp takes revisions newer than its rows, of rows that are open.
LEMMA ReceiveKeeps ==
    ASSUME HelpInv, NEW request \in wire, H!Receive(request)
    PROVE  HelpInv'
<1> DEFINE fresh == {e \in request : ~H!Stale(e)}
           of(i) == CHOOSE e \in fresh : e.id = i
           told == {<<e.id, e.revision>> : e \in {d \in fresh : H!Notified(d)}}
           row(e) == [kind |-> e.kind, severity |-> e.severity, status |-> e.status,
                      revision |-> e.revision,
                      by |-> IF e.status = "RESOLVED" THEN "MACHINE" ELSE "nobody"]
<1>1. /\ server' = [i \in DOMAIN server \cup {e.id : e \in fresh} |->
             IF \E e \in fresh : e.id = i THEN row(of(i)) ELSE server[i]]
      /\ notices' = [n \in DOMAIN notices \cup told |->
             (IF n \in DOMAIN notices THEN notices[n] ELSE 0) + IF n \in told THEN 1 ELSE 0]
      /\ answered' = (answered \/ request = awaited)
      /\ UNCHANGED <<problem, changes, queue, awaited, wire>>
    BY Zenon DEF H!Receive
<1>2. request \subseteq EventRow /\ OneEach(request) /\ fresh \subseteq request
    BY DEF HelpInv, HelpTyped
<1>3. \A e \in fresh : of(e.id) = e
    BY <1>2 DEF OneEach
<1>4. \A e \in fresh : \/ e.id \notin DOMAIN server
                       \/ server[e.id].revision < e.revision /\ server[e.id].status = "OPEN"
    <2> SUFFICES ASSUME NEW e \in fresh, e.id \in DOMAIN server
                 PROVE  server[e.id].revision < e.revision /\ server[e.id].status = "OPEN"
        OBVIOUS
    <2>1. ~(e.revision <= server[e.id].revision) /\ server[e.id].status # "RESOLVED"
        BY DEF H!Stale
    <2>2. server[e.id] \in HelpRow /\ e.revision \in Nat
        BY <1>2 DEF HelpInv, HelpTyped, EventRow
    <2> QED
        BY <2>1, <2>2 DEF HelpRow, Standing
<1> HIDE DEF of
<1>5. /\ DOMAIN server' = DOMAIN server \cup {e.id : e \in fresh}
      /\ \A e \in fresh : server'[e.id] = row(e)
      /\ \A i \in DOMAIN server : (\A e \in fresh : e.id # i) => server'[i] = server[i]
    <2>1. DOMAIN server' = DOMAIN server \cup {e.id : e \in fresh}
        BY <1>1
    <2>2. ASSUME NEW e \in fresh PROVE server'[e.id] = row(e)
        <3>1. server'[e.id] = row(of(e.id))
            BY <1>1
        <3> QED
            BY <3>1, <1>3
    <2>3. ASSUME NEW i \in DOMAIN server, \A e \in fresh : e.id # i PROVE server'[i] = server[i]
        BY <1>1, <2>3
    <2> QED
        BY <2>1, <2>2, <2>3
<1>6. \A e \in fresh : /\ e \in EventRow /\ row(e) \in HelpRow /\ row(e).revision = e.revision
                       /\ row(e).status = e.status
    BY <1>2 DEF EventRow, HelpRow, Standing
<1> HIDE DEF row, fresh
<1>7. \A i \in DOMAIN server : /\ i \in DOMAIN server' /\ server[i].revision <= server'[i].revision
                               /\ server[i].status = "RESOLVED" => server'[i] = server[i]
    <2> SUFFICES ASSUME NEW i \in DOMAIN server
                 PROVE  /\ i \in DOMAIN server' /\ server[i].revision <= server'[i].revision
                        /\ server[i].status = "RESOLVED" => server'[i] = server[i]
        OBVIOUS
    <2>1. server[i].revision \in Nat
        BY DEF HelpInv, HelpTyped, HelpRow
    <2>2. CASE \A e \in fresh : e.id # i
        BY <2>1, <2>2, <1>5
    <2>3. ASSUME NEW e \in fresh, e.id = i
          PROVE  /\ i \in DOMAIN server' /\ server[i].revision <= server'[i].revision
                 /\ server[i].status = "RESOLVED" => server'[i] = server[i]
        <3>1. server'[i].revision = e.revision /\ e.revision \in Nat
            BY <2>3, <1>5, <1>6 DEF EventRow
        <3> QED
            BY <2>1, <2>3, <3>1, <1>4, <1>5
    <2> QED
        BY <2>2, <2>3
<1>8. \A i \in DOMAIN server' : (i \in DOMAIN server /\ server'[i] = server[i])
                                \/ \E e \in fresh : e.id = i /\ server'[i] = row(e)
    BY <1>5
<1>9. \A e \in fresh : e.id \in DOMAIN queue
    <2> SUFFICES ASSUME NEW e \in fresh, e.id \notin DOMAIN queue PROVE FALSE
        OBVIOUS
    <2>1. e.id \in DOMAIN server /\ server[e.id].status = "RESOLVED"
        BY DEF HelpInv, SentInv, fresh
    <2> QED
        BY <2>1, <1>4
<1>10. HelpTyped'
    <2>1. \A i \in DOMAIN server' : server'[i] \in HelpRow
        BY <1>6, <1>8 DEF HelpInv, HelpTyped
    <2>2. H!Used' \subseteq H!Used
        BY <1>1, <1>5, <1>9 DEF H!Used
    <2>3. answered' \in BOOLEAN
        BY <1>1 DEF HelpInv, HelpTyped
    <2> QED
        BY <1>1, <2>1, <2>2, <2>3 DEF HelpInv, HelpTyped
<1>11. \A e \in EventRow : H!Stale(e) => H!Stale(e)'
    <2> SUFFICES ASSUME NEW e \in EventRow, H!Stale(e) PROVE H!Stale(e)'
        OBVIOUS
    <2>1. e.id \in DOMAIN server /\ (e.revision <= server[e.id].revision \/ server[e.id].status = "RESOLVED")
        BY DEF H!Stale
    <2>2. e.revision \in Nat /\ server[e.id].revision \in Nat
        BY <2>1 DEF HelpInv, HelpTyped, HelpRow, EventRow
    <2>3. e.id \in DOMAIN server' /\ server[e.id].revision <= server'[e.id].revision
          /\ (server[e.id].status = "RESOLVED" => server'[e.id] = server[e.id])
        BY <2>1, <1>7
    <2>4. server'[e.id].revision \in Nat
        BY <2>3, <1>10 DEF HelpTyped, HelpRow
    <2> QED
        BY <2>1, <2>2, <2>3, <2>4 DEF H!Stale
<1>12. \A e \in request : H!Stale(e)'
    <2> SUFFICES ASSUME NEW e \in request PROVE H!Stale(e)'
        OBVIOUS
    <2>1. CASE H!Stale(e)
        BY <2>1, <1>2, <1>11
    <2>2. CASE ~H!Stale(e)
        <3>1. e \in fresh
            BY <2>2 DEF fresh
        <3>2. e.id \in DOMAIN server' /\ server'[e.id].revision = e.revision /\ e.revision \in Nat
            BY <3>1, <1>5, <1>6 DEF EventRow
        <3> QED
            BY <3>2 DEF H!Stale
    <2> QED
        BY <2>1, <2>2
<1>13. AwaitedInv'
    <2> SUFFICES ASSUME awaited # {}
                 PROVE  /\ awaited \in wire
                        /\ \A e \in awaited : e.id \in DOMAIN queue /\ queue[e.id].event = e
                        /\ answered' => \A e \in awaited : H!Stale(e)'
        BY <1>1 DEF AwaitedInv
    <2>1. /\ awaited \in wire
          /\ \A e \in awaited : e.id \in DOMAIN queue /\ queue[e.id].event = e
          /\ answered => \A e \in awaited : H!Stale(e)
        BY DEF HelpInv, AwaitedInv
    <2>2. awaited \subseteq EventRow
        BY <2>1 DEF HelpInv, HelpTyped
    <2>3. ASSUME answered', NEW e \in awaited PROVE H!Stale(e)'
        <3>1. CASE answered
            BY <3>1, <2>1, <2>2, <1>11
        <3>2. CASE request = awaited
            BY <3>2, <1>12
        <3> QED
            BY <2>3, <3>1, <3>2, <1>1
    <2> QED
        BY <2>1, <2>3
<1>14. SentInv'
    <2> SUFFICES ASSUME NEW r \in wire, NEW e \in r
                 PROVE  IF e.id \in DOMAIN queue
                        THEN /\ queue[e.id].attempted
                             /\ e = queue[e.id].event \/ e.revision < queue[e.id].event.revision
                        ELSE e.id \in DOMAIN server' /\ server'[e.id].status = "RESOLVED"
        BY <1>1 DEF SentInv
    <2> QED
        BY <1>7 DEF HelpInv, SentInv
<1>15. RowsInv'
    <2> SUFFICES ASSUME NEW i \in DOMAIN server'
                 PROVE  IF i \in DOMAIN queue
                        THEN /\ queue[i].attempted
                             /\ \/ server'[i].revision < queue[i].event.revision
                                \/ /\ server'[i].revision = queue[i].event.revision
                                   /\ server'[i].status \in {queue[i].event.status, "RESOLVED"}
                        ELSE server'[i].status = "RESOLVED"
        BY <1>1 DEF RowsInv
    <2>1. CASE i \in DOMAIN server /\ server'[i] = server[i]
        BY <2>1 DEF HelpInv, RowsInv
    <2>2. ASSUME NEW e \in fresh, e.id = i, server'[i] = row(e)
          PROVE  /\ i \in DOMAIN queue /\ queue[i].attempted
                 /\ \/ server'[i].revision < queue[i].event.revision
                    \/ /\ server'[i].revision = queue[i].event.revision
                       /\ server'[i].status \in {queue[i].event.status, "RESOLVED"}
        <3>1. e.id \in DOMAIN queue /\ e \in request
            BY <1>9 DEF fresh
        <3>2. queue[i].attempted /\ (e = queue[i].event \/ e.revision < queue[i].event.revision)
            BY <2>2, <3>1 DEF HelpInv, SentInv
        <3> QED
            BY <2>2, <3>1, <3>2, <1>6
    <2> QED
        BY <2>1, <2>2, <1>8
<1>16. NoticesInv'
    <2>1. \A n \in told : n \notin DOMAIN notices /\ \E e \in fresh : n = <<e.id, e.revision>>
        <3> SUFFICES ASSUME NEW e \in fresh PROVE <<e.id, e.revision>> \notin DOMAIN notices
            OBVIOUS
        <3> SUFFICES ASSUME <<e.id, e.revision>> \in DOMAIN notices PROVE FALSE
            OBVIOUS
        <3>1. e.id \in DOMAIN server /\ e.revision <= server[e.id].revision
            BY DEF HelpInv, NoticesInv
        <3>2. e.revision \in Nat /\ server[e.id].revision \in Nat
            BY <3>1, <1>6 DEF HelpInv, HelpTyped, HelpRow, EventRow
        <3> QED
            BY <3>1, <3>2, <1>4
    <2> HIDE DEF told
    <2> SUFFICES ASSUME NEW n \in DOMAIN notices'
                 PROVE  /\ notices'[n] = 1
                        /\ n \in Nat \X Nat
                        /\ n[1] \in DOMAIN server' /\ n[2] <= server'[n[1]].revision
        BY DEF NoticesInv
    <2>2. CASE n \in told
        <3>1. notices'[n] = 1
            BY <1>1, <2>1, <2>2
        <3>2. PICK e \in fresh : n = <<e.id, e.revision>>
            BY <2>1, <2>2
        <3>3. /\ e.id \in Nat /\ e.revision \in Nat
              /\ e.id \in DOMAIN server' /\ server'[e.id].revision = e.revision
            BY <1>5, <1>6 DEF EventRow
        <3> QED
            BY <3>1, <3>2, <3>3
    <2>3. CASE n \in DOMAIN notices /\ n \notin told
        <3>1. /\ notices[n] = 1 /\ n \in Nat \X Nat
              /\ n[1] \in DOMAIN server /\ n[2] <= server[n[1]].revision
            BY <2>3 DEF HelpInv, NoticesInv
        <3>2. notices'[n] = notices[n] + 0
            BY <1>1, <2>3
        <3>3. n[1] \in DOMAIN server' /\ server[n[1]].revision <= server'[n[1]].revision
            BY <3>1, <1>7
        <3>4. server[n[1]].revision \in Nat /\ server'[n[1]].revision \in Nat /\ n[2] \in Nat
            BY <3>1, <3>3, <1>10 DEF HelpInv, HelpTyped, HelpRow
        <3> QED
            BY <3>1, <3>2, <3>3, <3>4
    <2> QED
        BY <2>2, <2>3, <1>1
<1> QED
    BY <1>10, <1>13, <1>14, <1>15, <1>16 DEF HelpInv


\* POST help/:eventId/resolve closes a row in the revision it has.
LEMMA ResolveKeeps ==
    ASSUME HelpInv, NEW i \in DOMAIN server, H!Resolve(i)
    PROVE  HelpInv'
<1>1. /\ server[i].status = "OPEN"
      /\ server' = [server EXCEPT ![i].status = "RESOLVED", ![i].by = "ADMIN"]
      /\ UNCHANGED <<problem, changes, queue, awaited, answered, wire, notices>>
    BY DEF H!Resolve
<1>2. \A j \in DOMAIN server : server[j] \in HelpRow
    BY DEF HelpInv, HelpTyped
<1>3. /\ DOMAIN server' = DOMAIN server
      /\ \A j \in DOMAIN server : j # i => server'[j] = server[j]
      /\ server'[i] = [[server[i] EXCEPT !.status = "RESOLVED"] EXCEPT !.by = "ADMIN"]
    BY <1>1
<1>4. server'[i] \in HelpRow /\ server'[i].status = "RESOLVED"
      /\ server'[i].revision = server[i].revision
    BY <1>2, <1>3 DEF HelpRow, Standing
<1>5. \A j \in DOMAIN server : /\ server'[j] \in HelpRow
                               /\ server'[j].revision = server[j].revision
                               /\ server'[j].status = server[j].status \/ server'[j].status = "RESOLVED"
    BY <1>2, <1>3, <1>4
<1>6. HelpTyped'
    BY <1>1, <1>3, <1>5 DEF HelpInv, HelpTyped, H!Used
<1>7. AwaitedInv'
    BY <1>1, <1>3, <1>5 DEF HelpInv, AwaitedInv, H!Stale
<1>8. SentInv'
    BY <1>1, <1>3, <1>5 DEF HelpInv, SentInv
<1>9. RowsInv'
    BY <1>1, <1>3, <1>5 DEF HelpInv, RowsInv
<1>10. NoticesInv'
    BY <1>1, <1>3, <1>5 DEF HelpInv, NoticesInv
<1> QED
    BY <1>6, <1>7, <1>8, <1>9, <1>10 DEF HelpInv

LEMMA HelpKeeps == HelpInv /\ [H!Next]_(H!vars) => HelpInv'
<1> SUFFICES ASSUME HelpInv, [H!Next]_(H!vars) PROVE HelpInv'
    OBVIOUS
<1>1. CASE H!FullCycle
    BY <1>1, CycleKeeps DEF H!FullCycle
<1>2. CASE H!CutCycle
    BY <1>2, CycleKeeps DEF H!CutCycle
<1>3. CASE H!GivenUp
    BY <1>3 DEF H!GivenUp, HelpInv, HelpTyped, AwaitedInv, SentInv, RowsInv, NoticesInv, H!Used
<1>4. ASSUME NEW k \in Kinds, NEW severity \in H!Severity \cup {"none"}, H!Change(k, severity)
      PROVE  HelpInv'
    <2>1. /\ problem' \in [Kinds -> H!Severity \cup {"none"}]
          /\ UNCHANGED <<queue, awaited, answered, wire, server, notices>>
        BY <1>4 DEF H!Change, HelpInv, HelpTyped
    <2> QED
        BY <2>1 DEF HelpInv, HelpTyped, AwaitedInv, SentInv, RowsInv, NoticesInv, H!Used, H!Stale
<1>5. CASE UNCHANGED H!vars
    BY <1>5 DEF H!vars, HelpInv, HelpTyped, AwaitedInv, SentInv, RowsInv, NoticesInv, H!Used, H!Stale
<1> QED
    BY <1>1, <1>2, <1>3, <1>4, <1>5, AcknowledgedKeeps, ReceiveKeeps, ResolveKeeps DEF H!Next

LEMMA HelpInvariant == H!Spec => []HelpInv
BY HelpStarts, HelpKeeps, PTL DEF H!Spec

\* Every open row has its event in the queue, which is finite and bounded.
LEMMA HelpAccounted == HelpInv => ReportsAccounted
<1> SUFFICES ASSUME HelpInv PROVE H!ReportsAccounted
    BY DEF ReportsAccounted
<1> DEFINE open == {i \in DOMAIN server : server[i].status = "OPEN"}
<1>1. \A i \in open : i \in DOMAIN queue
    BY DEF HelpInv, RowsInv
<1>2. PICK b \in Nat : H!Used \subseteq 1..b
    BY DEF HelpInv, HelpTyped
<1>3. DOMAIN queue \in SUBSET (1..b) /\ IsFiniteSet(1..b)
    BY <1>2, FS_Interval DEF H!Used
<1>4. IsFiniteSet(DOMAIN queue)
    BY <1>3, FS_Subset, Zenon
<1>5. open \in SUBSET DOMAIN queue
    BY <1>1
<1> HIDE DEF open
<1>6. IsFiniteSet(open) /\ Cardinality(open) <= Cardinality(DOMAIN queue)
    BY <1>4, <1>5, FS_Subset
<1>7. Cardinality(open) \in Nat /\ Cardinality(DOMAIN queue) \in Nat /\ MaxQueue \in Nat
    BY <1>4, <1>6, FS_CardinalityType, QueueBounds
<1>8. H!Cardinality(open) <= MaxQueue
    BY <1>6, <1>7, SameCardinality DEF HelpInv, HelpTyped
<1>9. \A n \in DOMAIN notices : notices[n] = 1
    BY DEF HelpInv, NoticesInv
<1> QED
    BY <1>1, <1>8, <1>9 DEF H!ReportsAccounted, open

-----------------------------------------------------------------------------
(* The two queues as they are checked together *)

\* Whatever queue a behaviour is about, the other one stutters.
LEMMA EitherParts == EitherSpec => Spec /\ H!Spec
<1>1. EitherInit => Init /\ H!Init
    BY DEF EitherInit
<1>2. [EitherNext]_eitherVars => [Next]_vars /\ [H!Next]_(H!vars)
    BY DEF EitherNext, InOutbox, InHelp, eitherVars, vars, H!vars
<1> QED
    BY <1>1, <1>2, PTL DEF EitherSpec, Spec, H!Spec

\* server/mailer.ts: whatever passes, users and administrators do between two sends, and
\* whatever fails, a mail recorded as sent or as expired is not handed over again.
THEOREM MailsNotSentAgain == EitherSpec => NotSentAgain
BY EitherParts, NeverSentAgain, PTL

\* terminal/help_linux.go, server/terminal-help.ts: however requests and answers are lost,
\* late or repeated, what the platform shows as open is still in the terminal's queue, the
\* queue and the open rows stay within the limit, and no revision is announced twice.
THEOREM ReportsStayAccounted == EitherSpec => []ReportsAccounted
<1>1. H!Spec => []ReportsAccounted
    BY HelpInvariant, HelpAccounted, PTL
<1> QED
    BY <1>1, EitherParts, PTL

-----------------------------------------------------------------------------
(* The refresh queue of a page (Realtime), beside the others *)

ReadSent == DOMAIN reading = {"phase", "since", "aborted"} /\ reading.phase = "sent"
ReadAnswered ==
    /\ DOMAIN reading = {"phase", "since", "aborted", "at", "authorized", "value"}
    /\ reading.phase = "answered"

\* What the page has asked and heard is of the past; a read that was answered is no older
\* than the request it answers and, unless aborted, than what the page heard.
RefreshInv ==
    /\ revision \in Nat
    /\ heard \in Nat /\ heard <= revision
    /\ asked \in Nat /\ asked <= revision
    /\ \E S : stream \in Seq(S) /\ \A event \in S : event.at \in Nat /\ event.at <= revision
    /\ reading = Q!Idle \/ ReadSent \/ ReadAnswered
    /\ ReadSent => reading.since \in Nat /\ reading.since <= revision
    /\ ReadAnswered =>
          /\ reading.at \in Nat /\ reading.since <= reading.at
          /\ topic = "session" /\ ~reading.aborted => reading.at >= heard

LEMMA ReadPhases ==
    /\ reading = Q!Idle => ~ReadSent /\ ~ReadAnswered /\ reading.phase = "none"
    /\ ReadSent => reading # Q!Idle /\ ~ReadAnswered
    /\ ReadAnswered => reading # Q!Idle /\ ~ReadSent
BY DEF Q!Idle, ReadSent, ReadAnswered

\* What a step may do to the read: nothing, end it, abort it, or a step of its own.
LEMMA AbortedFacts ==
    ASSUME RefreshInv, reading' = Q!Aborted
    PROVE  \/ reading' = Q!Idle
           \/ ReadSent' /\ ReadSent /\ reading'.since = reading.since /\ reading'.aborted
           \/ ReadAnswered' /\ ReadAnswered /\ reading'.since = reading.since /\ reading'.at = reading.at
              /\ reading'.aborted
<1>1. CASE reading = Q!Idle
    BY <1>1 DEF Q!Aborted
<1>2. CASE reading # Q!Idle
    <2>1. reading' = [reading EXCEPT !.aborted = TRUE]
        BY <1>2 DEF Q!Aborted
    <2> QED
        BY <1>2, <2>1 DEF RefreshInv, ReadSent, ReadAnswered
<1> QED
    BY <1>1, <1>2

\* The part of the invariant that is not about the read.
LEMMA WirePasses ==
    ASSUME RefreshInv, Q!Deliver
    PROVE  /\ \E S : stream' \in Seq(S) /\ \A event \in S : event.at \in Nat /\ event.at <= revision
           /\ Head(stream).at \in Nat /\ Head(stream).at <= revision
<1>1. PICK S : stream \in Seq(S) /\ \A event \in S : event.at \in Nat /\ event.at <= revision
    BY DEF RefreshInv
<1>2. stream' = Tail(stream) /\ stream # <<>>
    BY DEF Q!Deliver
<1>3. stream' \in Seq(S) /\ Head(stream) \in S
    BY <1>1, <1>2
<1> QED
    BY <1>1, <1>3

LEMMA WireGrows ==
    ASSUME RefreshInv, NEW event, event.at \in Nat, event.at <= revision,
           stream' \in {stream, Append(stream, event)}
    PROVE  \E S : stream' \in Seq(S) /\ \A e \in S : e.at \in Nat /\ e.at <= revision
<1>1. PICK S : stream \in Seq(S) /\ \A e \in S : e.at \in Nat /\ e.at <= revision
    BY DEF RefreshInv
<1>2. stream' \in Seq(S \cup {event})
    BY <1>1
<1>3. \A e \in S \cup {event} : e.at \in Nat /\ e.at <= revision
    BY <1>1
<1> QED
    BY <1>2, <1>3

LEMMA DataKeeps ==
    ASSUME RefreshInv, NEW noted, Q!Changed(noted)
    PROVE  RefreshInv'
<1>1. revision' = revision + 1 /\ UNCHANGED <<stream, topic, reading, asked, heard>>
    BY DEF Q!Changed, Q!queue, Q!page
<1>2. \E S : stream' \in Seq(S) /\ \A e \in S : e.at \in Nat /\ e.at <= revision'
    <2>1. PICK S : stream \in Seq(S) /\ \A e \in S : e.at \in Nat /\ e.at <= revision
        BY DEF RefreshInv
    <2>2. \A e \in S : e.at \in Nat /\ e.at <= revision'
        BY <1>1, <2>1 DEF RefreshInv
    <2> QED
        BY <1>1, <2>1, <2>2
<1> QED
    BY <1>1, <1>2 DEF RefreshInv, ReadSent, ReadAnswered

LEMMA ServerKeeps ==
    ASSUME RefreshInv,
           Q!AccessBoundary \/ Q!Drain \/ Q!Heartbeat \/ Q!Connect \/ Q!StreamLost
    PROVE  RefreshInv' /\ UNCHANGED <<display, reading>>
<1>1. UNCHANGED <<revision, topic, reading, asked, heard, display>>
    BY DEF Q!AccessBoundary, Q!Drain, Q!Heartbeat, Q!Connect, Q!StreamLost, Q!data, Q!queue, Q!page
<1>2. \E S : stream' \in Seq(S) /\ \A e \in S : e.at \in Nat /\ e.at <= revision
    <2>1. Q!Ended.at = 0 /\ Q!Full.at = 0 /\ Q!Note.at \in {revision, 0}
        BY DEF Q!Ended, Q!Full, Q!Note
    <2>2. CASE stream' = <<Q!Full>>
        <3>1. stream' \in Seq({Q!Full})
            BY <2>2
        <3> QED
            BY <2>1, <3>1 DEF RefreshInv
    <2>3. CASE stream' \in {stream, Append(stream, Q!Ended)}
        BY <2>1, <2>3, WireGrows DEF RefreshInv
    <2>4. CASE stream' \in {stream, Append(stream, Q!Note)}
        BY <2>1, <2>4, WireGrows DEF RefreshInv
    <2>5. \/ stream' = stream \/ stream' = Append(stream, Q!Ended) \/ stream' = Append(stream, Q!Note)
          \/ stream' = <<Q!Full>>
        <3> HIDE DEF Q!Ended, Q!Full, Q!Note, Q!Scopes
        <3> QED
            BY DEF Q!AccessBoundary, Q!Drain, Q!Heartbeat, Q!Connect, Q!StreamLost, Q!Connected
    <2> QED
        BY <2>2, <2>3, <2>4, <2>5
<1> QED
    BY <1>1, <1>2 DEF RefreshInv, ReadSent, ReadAnswered

LEMMA RestartKeeps ==
    ASSUME RefreshInv, Q!Restart
    PROVE  RefreshInv' /\ UNCHANGED <<display, reading>>
<1>1. revision' = revision + 1 /\ UNCHANGED <<stream, topic, reading, asked, heard, display>>
    BY DEF Q!Restart, Q!queue, Q!page
<1>2. \E S : stream' \in Seq(S) /\ \A e \in S : e.at \in Nat /\ e.at <= revision'
    <2>1. PICK S : stream \in Seq(S) /\ \A e \in S : e.at \in Nat /\ e.at <= revision
        BY DEF RefreshInv
    <2>2. \A e \in S : e.at \in Nat /\ e.at <= revision'
        BY <1>1, <2>1 DEF RefreshInv
    <2> QED
        BY <1>1, <2>1, <2>2
<1> QED
    BY <1>1, <1>2 DEF RefreshInv, ReadSent, ReadAnswered

\* The read: sent, answered, ended.
LEMMA ReadKeeps ==
    ASSUME RefreshInv, Q!Fire \/ Q!Serve \/ Q!Finish \/ Q!Fail
    PROVE  /\ RefreshInv'
           /\ topic = "session" /\ display'.state = "shown" /\ display' # display
                 => reading.at >= heard
<1>1. UNCHANGED <<revision, stream, topic, heard>>
    BY DEF Q!Fire, Q!Serve, Q!Finish, Q!Fail, Q!ReadEnds, Q!data, Q!page
<1>2. \E S : stream' \in Seq(S) /\ \A e \in S : e.at \in Nat /\ e.at <= revision'
    BY <1>1 DEF RefreshInv
<1>3. CASE Q!Fire
    <2>1. display' = display
        BY <1>3 DEF Q!Fire, Q!page
    <2>2. CASE wanted /\ (~hidden \/ urgent)
        <3>1. reading' = [phase |-> "sent", since |-> asked, aborted |-> FALSE] /\ asked' = 0
            BY <1>3, <2>2 DEF Q!Fire
        <3>2. ReadSent' /\ ~ReadAnswered' /\ reading'.since = asked
            BY <3>1 DEF ReadSent, ReadAnswered
        <3> QED
            BY <1>1, <1>2, <2>1, <3>1, <3>2 DEF RefreshInv
    <2>3. CASE ~(wanted /\ (~hidden \/ urgent))
        BY <1>1, <1>2, <1>3, <2>1, <2>3 DEF Q!Fire, RefreshInv, ReadSent, ReadAnswered
    <2> QED
        BY <2>2, <2>3
<1>4. CASE Q!Serve
    <2>1. UNCHANGED <<display, asked>>
        BY <1>4 DEF Q!Serve, Q!page
    <2>2. ReadSent
        BY <1>4, ReadPhases DEF Q!Serve, RefreshInv, ReadAnswered
    <2> DEFINE value == Q!View
    <2>3. reading' = [phase |-> "answered", since |-> reading.since, aborted |-> reading.aborted,
                      at |-> revision, authorized |-> live, value |-> value]
        BY <1>4 DEF Q!Serve
    <2> HIDE DEF value
    <2>4. ReadAnswered' /\ ~ReadSent' /\ reading'.at = revision /\ reading'.since = reading.since
        BY <2>3 DEF ReadSent, ReadAnswered
    <2> QED
        BY <1>1, <1>2, <2>1, <2>2, <2>4 DEF RefreshInv
<1>5. CASE Q!Finish \/ Q!Fail
    <2>1. reading' = Q!Idle /\ asked' = asked
        BY <1>5 DEF Q!Finish, Q!Fail, Q!ReadEnds
    <2>2. RefreshInv'
        BY <1>1, <1>2, <2>1, ReadPhases DEF RefreshInv, Q!Idle, ReadSent, ReadAnswered
    <2>3. CASE Q!Fail
        BY <2>2, <2>3 DEF Q!Fail, Q!Failed
    <2>4. CASE Q!Finish
        <3>1. ReadAnswered
            BY <2>4, ReadPhases DEF Q!Finish, RefreshInv, ReadSent
        <3>2. CASE reading.aborted
            BY <2>2, <2>4, <3>2 DEF Q!Finish, Q!Overtaken
        <3>3. CASE ~reading.aborted
            BY <2>2, <3>1, <3>3 DEF RefreshInv
        <3> QED
            BY <3>2, <3>3
    <2> QED
        BY <1>5, <2>3, <2>4
<1> QED
    BY <1>3, <1>4, <1>5

\* An event, a page that comes to the front, a poll: a request, at this time.
LEMMA PageKeeps ==
    ASSUME RefreshInv, Q!Deliver \/ Q!Notice \/ Q!Hide \/ Q!Show \/ Q!Poll
    PROVE  RefreshInv' /\ (display'.state = "shown" => display' = display)
<1>1. UNCHANGED <<revision, topic>>
    BY DEF Q!Deliver, Q!Notice, Q!Hide, Q!Show, Q!Poll, Q!data
<1>2. asked' \in {asked, revision}
    BY DEF Q!Deliver, Q!Notice, Q!Hide, Q!Show, Q!Poll, Q!queue, Q!Requests
<1>3. CASE Q!Deliver
    <2> DEFINE event == Head(stream)
               soon == event.accessChanged /\ topic = "session"
    <2>1. /\ \E S : stream' \in Seq(S) /\ \A e \in S : e.at \in Nat /\ e.at <= revision
          /\ event.at \in Nat /\ event.at <= revision
        BY <1>3, WirePasses
    <2>2. IF ~Q!Reaches(event) THEN UNCHANGED <<Q!queue, Q!page>>
          ELSE /\ heard' = IF soon /\ ~event.ended THEN event.at ELSE heard
               /\ display' = IF event.ended THEN Q!Out
                             ELSE IF soon /\ display # Q!Out THEN Q!Loading ELSE display
               /\ IF event.ended
                  THEN reading' = Q!Aborted
                  ELSE IF soon THEN reading' = Q!Aborted
                  ELSE reading' = reading
        BY <1>3 DEF Q!Deliver, Q!Requests, Q!queue
    <2> HIDE DEF event, soon
    <2>3. display'.state = "shown" => display' = display
        BY <2>2 DEF Q!Out, Q!Loading, Q!page
    <2>4. \/ reading' = reading /\ heard' = heard
          \/ reading' = Q!Aborted /\ heard' \in {heard, event.at}
        BY <2>2 DEF Q!queue, Q!page
    <2>5. CASE reading' = reading /\ heard' = heard
        BY <1>1, <1>2, <2>1, <2>3, <2>5 DEF RefreshInv, ReadSent, ReadAnswered
    <2>6. CASE reading' = Q!Aborted /\ heard' \in {heard, event.at}
        <3>1. \/ reading' = Q!Idle
              \/ ReadSent' /\ ReadSent /\ reading'.since = reading.since /\ reading'.aborted
              \/ ReadAnswered' /\ ReadAnswered /\ reading'.since = reading.since
                 /\ reading'.at = reading.at /\ reading'.aborted
            BY <2>6, AbortedFacts
        <3>2. CASE reading' = Q!Idle
            BY <1>1, <1>2, <2>1, <2>3, <2>6, <3>2 DEF RefreshInv, Q!Idle, ReadSent, ReadAnswered
        <3>3. CASE ReadSent' /\ ReadSent /\ reading'.since = reading.since
            BY <1>1, <1>2, <2>1, <2>3, <2>6, <3>3 DEF RefreshInv, ReadSent, ReadAnswered
        <3>4. CASE ReadAnswered' /\ ReadAnswered /\ reading'.since = reading.since
                   /\ reading'.at = reading.at /\ reading'.aborted
            BY <1>1, <1>2, <2>1, <2>3, <2>6, <3>4 DEF RefreshInv, ReadSent, ReadAnswered
        <3> QED
            BY <3>1, <3>2, <3>3, <3>4
    <2> QED
        BY <2>4, <2>5, <2>6
<1>4. CASE Q!Notice \/ Q!Hide \/ Q!Show \/ Q!Poll
    <2>1. UNCHANGED <<reading, heard, display>> /\ stream' \in {stream, <<>>}
        BY <1>4 DEF Q!Notice, Q!Hide, Q!Show, Q!Poll, Q!queue, Q!page, Q!Requests
    <2>2. \E S : stream' \in Seq(S) /\ \A e \in S : e.at \in Nat /\ e.at <= revision
        <3>1. PICK S : stream \in Seq(S) /\ \A e \in S : e.at \in Nat /\ e.at <= revision
            BY DEF RefreshInv
        <3>2. CASE stream' = stream
            BY <3>1, <3>2
        <3>3. CASE stream' = <<>>
            <4>1. <<>> \in Seq(S)
                OBVIOUS
            <4> QED
                BY <3>1, <3>3, <4>1
        <3> QED
            BY <2>1, <3>2, <3>3
    <2> QED
        BY <1>1, <1>2, <2>1, <2>2 DEF RefreshInv, ReadSent, ReadAnswered
<1> QED
    BY <1>3, <1>4

LEMMA RefreshStarts == Q!Init => RefreshInv
<1> SUFFICES ASSUME Q!Init PROVE RefreshInv
    OBVIOUS
<1>1. revision = 0 /\ heard = 0 /\ asked = 0 /\ reading = Q!Idle /\ stream = <<>>
    BY DEF Q!Init
<1>2. \E S : stream \in Seq(S) /\ \A event \in S : event.at \in Nat /\ event.at <= revision
    <2>1. stream \in Seq({})
        BY <1>1
    <2>2. \A event \in {} : event.at \in Nat /\ event.at <= revision
        OBVIOUS
    <2> WITNESS {}
    <2> QED
        BY <2>1, <2>2
<1>3. ~ReadSent /\ ~ReadAnswered
    BY <1>1, ReadPhases
<1>4. revision \in Nat /\ heard \in Nat /\ heard <= revision /\ asked \in Nat /\ asked <= revision
    BY <1>1
<1> QED
    BY <1>1, <1>2, <1>3, <1>4, Zenon DEF RefreshInv

LEMMA RefreshKeeps ==
    ASSUME RefreshInv, Q!Next
    PROVE  /\ RefreshInv'
           /\ topic = "session" /\ display'.state = "shown" /\ display' # display
                 => reading.at >= heard
<1>1. CASE \/ \E m \in Machines, s \in Slots \cup {0} : Q!Book(m, s)
           \/ \E m \in Machines : Q!Grant(m) \/ Q!Revoke(m) \/ Q!Lapse(m)
           \/ Q!EndSession({[kind |-> "session"]}) \/ Q!EndSession({})
    <2>1. \E noted : Q!Changed(noted)
        BY <1>1 DEF Q!Book, Q!Grant, Q!Revoke, Q!Lapse, Q!EndSession
    <2> QED
        BY <2>1, DataKeeps DEF Q!Changed, Q!page
<1>2. CASE Q!AccessBoundary \/ Q!Drain \/ Q!Heartbeat \/ Q!Connect \/ Q!StreamLost
    BY <1>2, ServerKeeps
<1>3. CASE Q!Restart
    BY <1>3, RestartKeeps
<1>4. CASE Q!Fire \/ Q!Serve \/ Q!Finish \/ Q!Fail
    BY <1>4, ReadKeeps
<1>5. CASE Q!Deliver \/ Q!Notice \/ Q!Hide \/ Q!Show \/ Q!Poll
    BY <1>5, PageKeeps
<1> QED
    BY <1>1, <1>2, <1>3, <1>4, <1>5 DEF Q!Next

LEMMA RefreshStays == RefreshInv /\ [Q!Next]_(Q!vars) => RefreshInv'
<1>1. RefreshInv /\ UNCHANGED Q!vars => RefreshInv'
    BY DEF Q!vars, Q!data, Q!server, Q!queue, Q!page, RefreshInv, ReadSent, ReadAnswered
<1> QED
    BY <1>1, RefreshKeeps

LEMMA RefreshInvariant == Q!Spec => []RefreshInv
BY RefreshStarts, RefreshStays, PTL DEF Q!Spec

\* src/refresh-queue.ts, src/useRealtimeRefresh.ts, src/app/useSession.ts: who waits for a
\* refresh gets data read after asking, and once the page has heard that rights changed it
\* never shows what was read before, for any number of machines, changes and restarts.
THEOREM AnswersStayCurrent == RefreshSpec => AnswersCurrent
<1>1. RefreshInv /\ RefreshInv' /\ [Q!Next]_(Q!vars)
        => [Q!AnswerIsFresh /\ Q!RightsRechecked]_(Q!vars)
    <2>1. RefreshInv' => Q!AnswerIsFresh
        BY DEF RefreshInv, Q!AnswerIsFresh, Q!Idle, ReadSent, ReadAnswered
    <2> QED
        BY <2>1, RefreshKeeps DEF Q!RightsRechecked
<1> QED
    BY <1>1, RefreshInvariant, PTL DEF RefreshSpec, Q!FairSpec, Q!Spec, AnswersCurrent, Q!AnswersCurrent
=============================================================================
