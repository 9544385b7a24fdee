----------------------------- MODULE Enrolment -----------------------------
(***************************************************************************)
(* How a machine's terminal is registered with the platform, proves that   *)
(* it is that machine, changes its identity key and reports that its       *)
(* installation is complete (server/terminal.ts; terminal/main_linux.go,   *)
(* config.go, platform_retry.go, confirmation_linux.go, help_linux.go).    *)
(*                                                                         *)
(* On the machine two programs run beside each other: a command of the     *)
(* administrator (init, setup, enroll, rotate) and a synchronization.      *)
(* Every request and every durable write is a step; a request or its       *)
(* answer may be lost, and a program may be killed between any two steps.  *)
(* On the platform administrators register the machine anew and disable    *)
(* its registration.                                                       *)
(*                                                                         *)
(* Keys are numbers in the order they are made, registrations in the order *)
(* of their creation, and a signature shows which key made it. A challenge *)
(* and the credential it is exchanged for are one request.  Which user     *)
(* keys an answer holds is in PersonalKeys, and what the terminal does     *)
(* with them in Terminal.  Rate limits, TLS, paths and ownership of files, *)
(* the timer, paused synchronization, the state of the machine itself and  *)
(* the signed assertions of older terminals are left out.                  *)
(***************************************************************************)
EXTENDS Naturals

CONSTANTS
    MaxRegs,    \* bound: registrations of the machine
    MaxKeys,    \* bound: identity keys made
    MaxFaults   \* bound: lost requests and answers

VARIABLES
    reg,        \* machine_terminals: the registration there is; id 0 if none
    creds,      \* terminal_credentials: the valid ones of kind MACHINE
    saved,      \* config.json: terminalId, 0 if there is no configuration
    identity,   \* identity.key, 0 if there is none
    pending,    \* identity.key.next, 0 if there is none
    stamp,      \* installation-confirmed
    proc,       \* the two programs
    made,       \* how many keys were made
    faults,
    synced      \* history: all keys were once written under the registration there is

platform == <<reg, creds>>
files == <<saved, identity, pending, stamp>>
enrolmentVars == <<platform, files, proc, made, faults, synced>>

Programs == {"command", "sync"}
Requests == {"token", "enroll", "rotate", "keys", "confirm"}
Steps == Requests \cup {"idle", "save", "makeIdentity", "configure", "makePending", "adopt",
                        "remove", "apply"}
NoStamp == [id |-> 0, key |-> 0]

\* goal: what the credential is wanted for; id and key: what the program read when it
\* started; has: a credential is at hand; refreshed: it was renewed once; required: run as
\* confirm-installation.
Idle == [at |-> "idle", goal |-> "none", id |-> 0, key |-> 0, has |-> FALSE,
         refreshed |-> FALSE, required |-> FALSE]

EnrolmentTypeOK ==
    /\ reg \in [id : 0..MaxRegs, key : 0..MaxKeys, enabled : BOOLEAN, token : BOOLEAN,
                confirmed : BOOLEAN]
    /\ creds \subseteq [id : 1..MaxRegs, key : 1..MaxKeys, by : Programs]
    /\ saved \in 0..MaxRegs /\ identity \in 0..MaxKeys /\ pending \in 0..MaxKeys
    /\ \A p \in Programs : proc[p].at \in Steps

EnrolmentInit ==
    /\ reg = [id |-> 0, key |-> 0, enabled |-> FALSE, token |-> FALSE, confirmed |-> FALSE]
    /\ creds = {}
    /\ saved = 0 /\ identity = 0 /\ pending = 0 /\ stamp = NoStamp
    /\ proc = [p \in Programs |-> Idle]
    /\ made = 0 /\ faults = 0
    /\ synced = FALSE

Become(p, r) == proc' = [proc EXCEPT ![p] = r]

-----------------------------------------------------------------------------
(* The platform *)

\* terminal(): the registration is the machine's and in use.
Registered(id) == reg.id = id /\ reg.enabled

\* authenticatedTerminal()
Authenticated(p) == \E c \in creds : c.id = proc[p].id /\ c.by = p

NewRowConfirmed(id) ==      \* variant of NewRow: the old row is updated
    [id |-> id, key |-> 0, enabled |-> TRUE, token |-> TRUE, confirmed |-> reg.confirmed]
NewRow(id) == [id |-> id, key |-> 0, enabled |-> TRUE, token |-> TRUE, confirmed |-> FALSE]

\* An administrator generates new credentials: the old row goes with all it owned.
Register ==
    /\ reg.id < MaxRegs
    /\ reg' = NewRow(reg.id + 1)
    /\ creds' = {} /\ synced' = FALSE
    /\ UNCHANGED <<files, proc, made, faults>>

DisableRegistration ==
    /\ reg.enabled
    /\ reg' = [reg EXCEPT !.enabled = FALSE]
    /\ UNCHANGED <<creds, files, proc, made, faults, synced>>

\* Times run out.
Expire ==
    /\ \/ reg.token /\ reg' = [reg EXCEPT !.token = FALSE] /\ UNCHANGED creds
       \/ \E c \in creds : creds' = creds \ {c} /\ UNCHANGED reg
    /\ UNCHANGED <<files, proc, made, faults, synced>>

\* What a request of program p does when it is accepted.  Under rotate every credential
\* of the registration goes, the unused one for enrolling too.
Accepted(p) ==
    LET r == proc[p]
    IN CASE r.at = "token" -> Registered(r.id) /\ reg.key = r.key
         [] r.at = "enroll" -> Registered(r.id) /\ reg.token /\ reg.key = 0
         [] OTHER -> Authenticated(p) /\ Registered(r.id)

RevokedAll(id) == {c \in creds : c.id # id}

Effect(p) ==
    LET r == proc[p]
    IN /\ reg' = CASE r.at = "enroll" -> [reg EXCEPT !.key = r.key, !.token = FALSE]
                   [] r.at = "rotate" -> [reg EXCEPT !.key = pending, !.token = FALSE]
                   [] r.at = "confirm" -> [reg EXCEPT !.confirmed = TRUE]
                   [] OTHER -> reg
       /\ creds' = CASE r.at = "token" -> creds \cup {[id |-> r.id, key |-> r.key, by |-> p]}
                     [] r.at = "rotate" -> RevokedAll(r.id)
                     [] OTHER -> creds
       /\ UNCHANGED synced

-----------------------------------------------------------------------------
(* Requests of the terminal *)

Checks == {"check", "recheck"}

\* call() and token(): a credential at hand is used unless its time is up.
Call(r, goal) ==
    LET c == [r EXCEPT !.goal = goal, !.refreshed = FALSE]
    IN {[c EXCEPT !.at = "token", !.has = FALSE]}
       \cup (IF r.has THEN {[c EXCEPT !.at = goal]} ELSE {})

\* A variant of GaveUp: takes an enrolment of unknown outcome for done
GaveUpSaving(r) ==
    CASE r.goal = "check" -> {[r EXCEPT !.at = "enroll", !.goal = "enroll", !.has = FALSE]}
      [] r.goal = "enroll" -> {[r EXCEPT !.at = "save"]}
      [] OTHER -> {Idle}

\* What a program does when its request has failed for good: setup enrols a registration
\* it cannot use yet, and looks again after an enrolment whose outcome it does not know.
GaveUp(r) ==
    CASE r.goal = "check" -> {[r EXCEPT !.at = "enroll", !.goal = "enroll", !.has = FALSE]}
      [] r.goal = "enroll" -> Call(r, "recheck")
      [] OTHER -> {Idle}

\* confirmInstallation, after a synchronization without problems: if the timer is enabled
\* and active by then. The stamp names the registration and the key it was made with.
Confirming(r) ==
    {Idle} \cup (IF stamp # [id |-> r.id, key |-> r.key] \/ r.required
                 THEN Call(r, "confirm") ELSE {})

\* After an answer that grants the request
Proceeds(r) ==
    CASE r.at = "token" -> [r EXCEPT !.has = TRUE,
                                     !.at = IF r.goal \in Checks THEN "save" ELSE r.goal]
      [] r.at = "enroll" -> IF r.goal = "plain" THEN Idle ELSE [r EXCEPT !.at = "save"]
      [] r.at = "rotate" -> [r EXCEPT !.at = "adopt"]
      [] r.at = "keys" -> [r EXCEPT !.at = "apply"]
      [] OTHER -> Idle

Granted(p) ==
    /\ proc[p].at \in Requests /\ Accepted(p)
    /\ Effect(p)
    /\ Become(p, Proceeds(proc[p]))
    /\ stamp' = IF proc[p].at = "confirm"
                THEN [id |-> proc[p].id, key |-> proc[p].key] ELSE stamp
    /\ UNCHANGED <<saved, identity, pending, made, faults>>

\* A credential that is no longer accepted is renewed once.
Refused(p) ==
    LET r == proc[p]
        renewable == r.at \in {"rotate", "keys", "confirm"} /\ ~Authenticated(p) /\ ~r.refreshed
    IN /\ r.at \in Requests /\ ~Accepted(p)
       /\ \E s \in IF renewable
                   THEN {[r EXCEPT !.at = "token", !.refreshed = TRUE, !.has = FALSE]}
                   ELSE GaveUp(r) : Become(p, s)
       /\ UNCHANGED <<platform, files, made, faults, synced>>

\* The request or its answer is lost.  Authentication, keys and the confirmation are tried
\* again while there is time, an enrolment and a rotation are not.
Lost(p) ==
    LET r == proc[p]
        retried == CASE r.at = "token" -> {r}
                     [] r.at \in {"keys", "confirm"} -> Call(r, r.goal)
                     [] OTHER -> {}
    IN /\ r.at \in Requests /\ faults < MaxFaults
       /\ faults' = faults + 1
       /\ IF Accepted(p) THEN Effect(p) \/ UNCHANGED <<platform, synced>>
          ELSE UNCHANGED <<platform, synced>>
       /\ \E s \in retried \cup GaveUp(r) : Become(p, s)
       /\ UNCHANGED <<files, made>>

-----------------------------------------------------------------------------
(* Commands of the machine's administrator *)

Ready(p) == proc[p].at = "idle"
Starting(id, step, goal) ==
    [Idle EXCEPT !.at = step, !.goal = goal, !.id = id, !.key = identity]

\* initialize: neither a configuration nor a key may be there.
StartInit(id) ==
    /\ Ready("command") /\ saved = 0 /\ identity = 0 /\ made < MaxKeys
    /\ Become("command", Starting(id, "makeIdentity", "plain"))
    /\ UNCHANGED <<platform, files, made, faults, synced>>

MakeIdentity ==
    /\ proc["command"].at = "makeIdentity"
    /\ made' = made + 1 /\ identity' = made + 1
    /\ Become("command", [proc["command"] EXCEPT !.at = "configure", !.key = made + 1])
    /\ UNCHANGED <<platform, saved, pending, stamp, faults, synced>>

Configure ==
    /\ proc["command"].at = "configure"
    /\ saved' = proc["command"].id
    /\ Become("command", [proc["command"] EXCEPT !.at = "enroll"])
    /\ UNCHANGED <<platform, identity, pending, stamp, made, faults, synced>>

\* setup over an existing configuration, for any registration shown so far.
StartSetup(id) ==
    /\ Ready("command") /\ saved # 0
    /\ Become("command", Starting(id, "token", "check"))
    /\ UNCHANGED <<platform, files, made, faults, synced>>

SaveRegistration ==
    /\ proc["command"].at = "save"
    /\ saved' = proc["command"].id
    /\ Become("command", Idle)
    /\ UNCHANGED <<platform, identity, pending, stamp, made, faults, synced>>

StartEnroll ==
    /\ Ready("command") /\ saved # 0
    /\ Become("command", Starting(saved, "enroll", "plain"))
    /\ UNCHANGED <<platform, files, made, faults, synced>>

MayRotateAgain == TRUE      \* variant of MayRotate
MayRotate == pending = 0

StartRotate ==
    /\ Ready("command") /\ saved # 0 /\ MayRotate /\ made < MaxKeys
    /\ Become("command", Starting(saved, "makePending", "rotate"))
    /\ UNCHANGED <<platform, files, made, faults, synced>>

MakePending ==
    /\ proc["command"].at = "makePending"
    /\ made' = made + 1 /\ pending' = made + 1
    /\ Become("command", [proc["command"] EXCEPT !.at = "token"])
    /\ UNCHANGED <<platform, saved, identity, stamp, faults, synced>>

Adopt ==
    /\ proc["command"].at = "adopt"
    /\ identity' = pending
    /\ Become("command", [proc["command"] EXCEPT !.at = "remove"])
    /\ UNCHANGED <<platform, saved, pending, stamp, made, faults, synced>>

RemovePending ==
    /\ proc["command"].at = "remove"
    /\ pending' = 0
    /\ Become("command", Idle)
    /\ UNCHANGED <<platform, saved, identity, stamp, made, faults, synced>>

\* The key of a rotation that was cut short is kept for the administrator, who keeps the
\* one the platform accepts. By then no request is under way any more.
Reconcile ==
    /\ Ready("command") /\ pending # 0
    /\ identity' = IF reg.id = saved /\ reg.key = pending THEN pending ELSE identity
    /\ pending' = 0
    /\ UNCHANGED <<platform, saved, stamp, proc, made, faults, synced>>

-----------------------------------------------------------------------------
(* Synchronization *)

\* By the timer, or as confirm-installation, whose own confirmation may not be left out.
StartRun(required) ==
    /\ Ready("sync") /\ saved # 0
    /\ Become("sync", [Starting(saved, "token", "keys") EXCEPT !.required = required])
    /\ UNCHANGED <<platform, files, made, faults, synced>>

\* The keys are written, and then the installation is confirmed.
WriteKeys ==
    LET r == proc["sync"]
    IN /\ r.at = "apply"
       /\ synced' = (synced \/ r.id = reg.id)
       /\ \E s \in Confirming(r) : Become("sync", s)
       /\ UNCHANGED <<platform, files, made, faults>>

KilledProgram(p) ==
    /\ ~Ready(p)
    /\ Become(p, Idle)
    /\ UNCHANGED <<platform, files, made, faults, synced>>

EnrolmentNext ==
    \/ Register \/ DisableRegistration \/ Expire
    \/ \E p \in Programs : Granted(p) \/ Refused(p) \/ Lost(p) \/ KilledProgram(p)
    \/ \E id \in 1..reg.id : StartInit(id) \/ StartSetup(id)
    \/ MakeIdentity \/ Configure \/ SaveRegistration \/ StartEnroll
    \/ StartRotate \/ MakePending \/ Adopt \/ RemovePending \/ Reconcile
    \/ \E required \in BOOLEAN : StartRun(required)
    \/ WriteKeys

EnrolmentSpec == EnrolmentInit /\ [][EnrolmentNext]_enrolmentVars

-----------------------------------------------------------------------------
(* Properties *)

\* Whatever request, answer or program is lost during a rotation: the machine has the key
\* the platform knows it by, in use or set aside.
KeyNotLost == reg.key # 0 => reg.key \in {identity, pending}

\* A configuration that was there is only ever given a registration of which this machine
\* has shown that it holds the key: an enrolment of unknown outcome is looked into first.
SavedProved ==
    [][saved' # saved /\ saved # 0 /\ saved' = reg.id => reg.key = identity]_enrolmentVars

\* The platform shows an installation as complete only after all keys were written under
\* this very registration, and the terminal stops reporting it only once it is shown.
ConfirmationTrue ==
    /\ reg.confirmed => synced
    /\ stamp.id = reg.id /\ reg.id # 0 => reg.confirmed

\* Machine and platform agree on the key and on how far the installation is.
BothSidesAgree == KeyNotLost /\ ConfirmationTrue
=============================================================================
