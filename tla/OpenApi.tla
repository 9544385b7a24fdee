------------------------------ MODULE OpenApi ------------------------------
(***************************************************************************)
(* The Open API of Allocube (server/open-api.ts, server/api-tokens.ts)     *)
(* over the booking core: access tokens, and operations that are prepared  *)
(* first and confirmed later, possibly more than once because the answer   *)
(* to a confirmation may be lost.                                          *)
(*                                                                         *)
(* A confirmation authenticates, executes the handler of scheduling.ts and *)
(* records its outcome without giving up the thread, the last two in one   *)
(* immediate transaction: one action.  A client that does not see the      *)
(* answer confirms again; the server cannot tell, so a lost answer is no   *)
(* state here, only another Confirm.                                       *)
(*                                                                         *)
(* Deadlines are in minutes from a moment inside the current one; in the   *)
(* minute a deadline falls into, either side of it is possible.            *)
(***************************************************************************)
EXTENDS Scheduling

CONSTANTS
    Tokens,           \* bound: rows of api_tokens
    Ops,              \* bound: rows of prepared_api_operations
    MaxActiveTokens,  \* MAX_ACTIVE_TOKENS (10 in the code)
    TokenLife,        \* a life time a token may be given, in minutes
    PreparedTtl,      \* PREPARED_OPERATION_TTL_MS (5 minutes)
    Retention         \* PREPARED_OPERATION_RETENTION_MS (24 hours)

ASSUME ApiAssumption ==
    /\ MaxActiveTokens \in Nat
    /\ TokenLife \in Nat \ {0}
    /\ PreparedTtl \in Nat
    /\ Retention \in Nat
    /\ PreparedTtl < Retention

VARIABLES
    token,     \* api_tokens: id -> row
    asking,    \* users a token request of whom waits for its password check
    prepared,  \* prepared_api_operations: id -> row
    history    \* for each operation ever prepared: how often its handler changed
               \* the schedule, and the outcomes its confirmations were answered with

apiVars == <<token, asking, prepared, history>>
allVars == <<vars, apiVars>>

Levels == {"READ_ONLY", "READ_WRITE"}
NoBooking == "none"
Request == [action : {"CREATE", "UPDATE", "CANCEL", "END"},
            segments : SUBSET Segment, booking : ResIds \cup {NoBooking}]

-----------------------------------------------------------------------------
(* Tokens: server/api-tokens.ts *)

\* The tokens the limit counts: those neither revoked nor expired.
Counted(u) ==
    {k \in DOMAIN token :
        token[k].user = u /\ ~token[k].revoked /\ token[k].expires > clock}

\* authenticateApiToken, and requireOpenAuth for a READ_WRITE route
Authenticated(k) ==
    /\ ~token[k].revoked
    /\ token[k].expires > clock
    /\ account[token[k].user] = "ACTIVE"

MayWrite(k) == Authenticated(k) /\ token[k].level = "READ_WRITE"

\* POST /auth/api-tokens up to the password check, which is awaited
AskToken(u) ==
    /\ account[u] = "ACTIVE"
    /\ asking' = asking \cup {u}
    /\ UNCHANGED <<vars, token, prepared, history>>

\* The rest of it; expiry is DistantFuture for a token that does not expire.
CreateToken(u, k, level, expiry) ==
    /\ u \in asking
    /\ asking' = asking \ {u}
    /\ k \notin DOMAIN token
    /\ \/ /\ Cardinality(Counted(u)) < MaxActiveTokens
          /\ token' = With(token, [x \in {k} |->
                [user |-> u, level |-> level, expires |-> expiry, revoked |-> FALSE]])
       \/ /\ Cardinality(Counted(u)) >= MaxActiveTokens
          /\ UNCHANGED token
    /\ UNCHANGED <<vars, prepared, history>>

Revoked(keys) ==
    [k \in DOMAIN token |-> IF k \in keys THEN [token[k] EXCEPT !.revoked = TRUE]
                                          ELSE token[k]]

\* Mutant of StoppedWith: prepared operations outlive their token.
StoppedNever(keys) == prepared

\* What revoking tokens does to the operations prepared with them.
StoppedWith(keys) ==
    [o \in DOMAIN prepared |->
        IF prepared[o].status = "PENDING" /\ prepared[o].token \in keys
        THEN [prepared[o] EXCEPT !.status = "REJECTED", !.code = "API_TOKEN_REVOKED"]
        ELSE prepared[o]]

\* DELETE /auth/api-tokens/:id
RevokeToken(k) ==
    /\ account[token[k].user] = "ACTIVE"
    /\ ~token[k].revoked
    /\ token' = Revoked({k})
    /\ prepared' = StoppedWith({k})
    /\ UNCHANGED <<vars, asking, history>>

TokensOf(u) == {k \in DOMAIN token : token[k].user = u}

\* revokeApiTokensForUser
RevokeTokensOf(u) ==
    /\ token' = Revoked(TokensOf(u))
    /\ prepared' = StoppedWith(TokensOf(u))
    /\ UNCHANGED <<asking, history>>

\* The two handlers that call it: an account is disabled or deleted.
AccountEnds(u) ==
    /\ \/ \E late \in LateReads : DisableUser(u, late)
       \/ DeleteUser(u)
    /\ RevokeTokensOf(u)

-----------------------------------------------------------------------------
(* Prepared operations: server/open-api.ts *)

UserOf(o) == token[prepared[o].token].user

SegmentOf(q) == CHOOSE s \in q.segments : TRUE

Own(u, i) == i \in Confirmed /\ res[i].user = u

\* The conditions on time of cancelReservation and endReservationEarly, which
\* previewOwnReservationAction shares.
InTime(action, i) ==
    \/ action = "CANCEL" /\ res[i].start > clock
    \/ action = "END" /\ res[i].start <= clock /\ clock < res[i].end

\* previewReservationBatch; what is stored are the normalised segments.
PreviewCreate(u, q) ==
    /\ q.action = "CREATE" /\ q.booking = NoBooking
    /\ \E req \in Requests :
          /\ OneScope(req)
          /\ RequestAccepted(u, req, {}, FALSE, clock)
          /\ q.segments = Exact(req)

\* previewReservationUpdate; the requested start is not compared with the clock.
PreviewUpdate(u, q) ==
    /\ q.action = "UPDATE" /\ q.booking \in Confirmed
    /\ MaySubmit(u)
    /\ OwnConfirmed(u, q.booking, clock)
    /\ \E start, end \in Minutes :
          LET row == res[q.booking]
              seg == [group |-> row.group, scope |-> row.scope,
                      start |-> start, end |-> end]
          IN /\ WithinExpiry(u, MachineOf[row.group], end)
             /\ row.end > clock
             /\ \/ row.start <= clock /\ start = row.start /\ end = row.end
                \/ /\ row.start > clock
                   /\ ValidTimes(Normalize(seg, clock), clock)
                   /\ Available(Normalize(seg, clock), {q.booking})
             /\ q.segments = {seg}

\* previewOwnReservationAction
PreviewRelease(u, q) ==
    /\ q.action \in {"CANCEL", "END"} /\ q.booking \in Confirmed
    /\ OwnConfirmed(u, q.booking, clock)
    /\ InTime(q.action, q.booking)
    /\ q.segments = {}

Previewed(u, q) == PreviewCreate(u, q) \/ PreviewUpdate(u, q) \/ PreviewRelease(u, q)

\* The requests worth enumerating: those a preview of u can let pass.
Sendable ==
    [action : {"CREATE"}, booking : {NoBooking}, segments : {Exact(r) : r \in Requests}]
    \cup [action : {"UPDATE"}, booking : Confirmed,
          segments : {{s} : s \in {x \in Segment : x.start < x.end}}]
    \cup [action : {"CANCEL", "END"}, booking : Confirmed, segments : {{}}]

\* createPreparedOperation
NewOperation(k, q) ==
    [token |-> k, request |-> q, status |-> "PENDING", code |-> "", result |-> 0,
     expires |-> clock + PreparedTtl, retain |-> clock + Retention]

\* POST /reservation-operations/prepare; a preview that is blocked stores nothing.
Prepare(k, o, q) ==
    /\ MayWrite(k)
    /\ o \notin DOMAIN history
    /\ Previewed(token[k].user, q)
    /\ prepared' = With(prepared, [x \in {o} |-> NewOperation(k, q)])
    /\ history' = With(history, [x \in {o} |-> [runs |-> 0, answers |-> {}]])
    /\ UNCHANGED <<vars, token, asking>>

Outcome(row) == [code |-> row.code, result |-> row.result]

Answer(o, row) == history' = [history EXCEPT ![o].answers = @ \cup {Outcome(row)}]

\* Mutant of MayExecute: a committed operation is executed again.
MayExecuteAgain(o) ==
    prepared[o].status # "REJECTED" /\ clock <= prepared[o].expires

MayExecute(o) == prepared[o].status = "PENDING" /\ clock <= prepared[o].expires

\* What the handler of an operation requires, with the clock reads it makes.
Accepted(o, validated, late) ==
    LET u == UserOf(o)
        q == prepared[o].request
        s == SegmentOf(q)
    IN  \/ /\ q.action = "CREATE"
           /\ OneScope(q.segments)
           /\ RequestAccepted(u, q.segments, {}, FALSE, late)
        \/ /\ q.action = "UPDATE" /\ q.booking \in Confirmed
           /\ UpdateAccepted(u, q.booking, s.start, s.end, validated, late)
        \/ /\ q.action \in {"CANCEL", "END"}
           /\ Own(u, q.booking) /\ InTime(q.action, q.booking)

\* Mutant of Handler: a batch is inserted as it was previewed.
HandlerTrustingPreview(o, validated, late) ==
    LET u == UserOf(o)
        q == prepared[o].request
    IN  /\ q.action = "CREATE"
        /\ \E idOf \in Injections(q.segments, FreeRes) :
              res' = With(res, NewBookings(u, q.segments, idOf))
        /\ Bump
        /\ UNCHANGED <<clock, win, status, deleted, access, account>>

\* The handler of scheduling.ts an operation stands for.
Handler(o, validated, late) ==
    LET u == UserOf(o)
        q == prepared[o].request
        s == SegmentOf(q)
    IN  \/ q.action = "CREATE" /\ CommitBatch(u, q.segments, FALSE, late)
        \/ /\ q.action = "UPDATE" /\ q.booking \in Confirmed
           /\ UpdateBooking(u, q.booking, s.start, s.end, validated, late)
        \/ /\ q.action = "CANCEL" /\ Own(u, q.booking) /\ CancelBooking(q.booking)
        \/ /\ q.action = "END" /\ Own(u, q.booking) /\ EndEarly(q.booking)

\* executePreparedOperation, the handler succeeds: COMMITTED with its result
Execute(o, validated, late) ==
    /\ MayExecute(o)
    /\ Handler(o, validated, late)
    /\ prepared' = [prepared EXCEPT ![o].status = "COMMITTED", ![o].result = revision']
    /\ history' = [history EXCEPT ![o].runs = @ + 1,
                                  ![o].answers = @ \cup {Outcome(prepared'[o])}]
    /\ UNCHANGED <<token, asking>>

\* Mutant of Rejected: the rejection is rolled back together with the handler.
RejectedNowhere(row, code) == IF code = "STATE_CHANGED" THEN row
                              ELSE [row EXCEPT !.status = "REJECTED", !.code = code]

Rejected(row, code) == [row EXCEPT !.status = "REJECTED", !.code = code]

\* The handler throws a BusinessError: its savepoint is rolled back, the rejection
\* stays.  The three codes for it are one here.  (Any other error rolls the whole
\* transaction back and leaves the operation PENDING.)
RejectChanged(o, validated, late) ==
    /\ MayExecute(o)
    /\ ~Accepted(o, validated, late)
    /\ prepared' = [prepared EXCEPT ![o] = Rejected(@, "STATE_CHANGED")]
    /\ Answer(o, Rejected(prepared[o], "STATE_CHANGED"))
    /\ clock' = late
    /\ UNCHANGED <<res, win, status, deleted, access, account, revision, token, asking>>

\* The confirmation comes too late.
RejectExpired(o) ==
    /\ prepared[o].status = "PENDING"
    /\ clock >= prepared[o].expires
    /\ prepared' = [prepared EXCEPT ![o] = Rejected(@, "OPERATION_EXPIRED")]
    /\ Answer(o, Rejected(prepared[o], "OPERATION_EXPIRED"))
    /\ UNCHANGED <<vars, token, asking>>

\* A decided operation is confirmed again: the stored outcome is the answer.
Replay(o) ==
    /\ prepared[o].status # "PENDING"
    /\ Answer(o, prepared[o])
    /\ UNCHANGED <<vars, token, asking, prepared>>

\* POST /reservation-operations/commit
Confirm(o) ==
    /\ MayWrite(prepared[o].token)
    /\ \/ \E late \in LateReads, validated \in LateReads :
             /\ validated <= late
             /\ Execute(o, validated, late) \/ RejectChanged(o, validated, late)
       \/ RejectExpired(o)
       \/ Replay(o)

\* cleanupExpiredSecurityRecords, at start and every hour; sessions and tokens of the
\* other features go with it.
Cleanup ==
    /\ \E o \in DOMAIN prepared : prepared[o].retain <= clock
    /\ prepared' = [o \in {x \in DOMAIN prepared : prepared[x].retain > clock} |-> prepared[o]]
    /\ UNCHANGED <<vars, token, asking, history>>

-----------------------------------------------------------------------------
ApiInit ==
    /\ Init
    /\ token = NoRows
    /\ asking = {}
    /\ prepared = NoRows
    /\ history = NoRows

\* Row ids are never used twice; those an operation still names are not reused here.
NamesKept ==
    \A o \in DOMAIN prepared :
        LET i == prepared[o].request.booking
        IN  i \in ResIds \ DOMAIN res => i \notin DOMAIN res'

\* What goes on beside the Open API.
OtherStep ==
    /\ \/ Tick
       \/ BookingStep
       \/ ReleaseStep
       \/ AvailabilityStep
       \/ MembershipStep
       \/ \E u \in Users : EnableUser(u)
    /\ NamesKept
    /\ UNCHANGED apiVars

TokenStep ==
    \/ \E u \in Users :
          \/ AskToken(u)
          \/ AccountEnds(u)
          \/ \E k \in Tokens, level \in Levels, expiry \in {clock + TokenLife, DistantFuture} :
                CreateToken(u, k, level, expiry)
    \/ \E k \in DOMAIN token : RevokeToken(k)

OperationStep ==
    \/ \E k \in DOMAIN token, o \in Ops, q \in Sendable : Prepare(k, o, q)
    \/ \E o \in DOMAIN prepared : Confirm(o) /\ NamesKept
    \/ Cleanup

ApiNext == OtherStep \/ TokenStep \/ OperationStep

ApiSpec == ApiInit /\ [][ApiNext]_allVars

-----------------------------------------------------------------------------
(* Properties *)

\* However often and whenever an operation is confirmed, its handler changes the
\* schedule at most once, and it has done so exactly when the operation is COMMITTED;
\* a rejected operation never will (executePreparedOperation).
ExecutedOnce ==
    /\ \A o \in DOMAIN history : history[o].runs \in {0, 1}
    /\ \A o \in DOMAIN prepared :
          history[o].runs = 1 <=> prepared[o].status = "COMMITTED"

\* All confirmations of one operation that get an answer about it get the same one:
\* a success is replayed with its result, a rejection with its reason.
OneAnswer ==
    \A o \in DOMAIN history : \A x, y \in history[o].answers : x = y

\* A prepared operation has one outcome, in the schedule and towards its client.
OneOutcome == ExecutedOnce /\ OneAnswer

\* An operation that can still be executed belongs to a token that has not been
\* revoked and to an active account: revoking, disabling and deleting stop them.
PendingHasToken ==
    \A o \in DOMAIN prepared :
        prepared[o].status = "PENDING" =>
            ~token[prepared[o].token].revoked /\ account[UserOf(o)] = "ACTIVE"

\* Operations confirmed late, after other bookings, windows, memberships and accounts
\* have changed, never do to the schedule what its own handlers could not do: the
\* Open API implements the booking core.
ImplementsScheduling == Init /\ [][Next]_vars

=============================================================================
