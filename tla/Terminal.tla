------------------------------ MODULE Terminal ------------------------------
(***************************************************************************)
(* The terminal program of one machine (terminal/sync_linux.go,            *)
(* automatic_linux.go, ssh_transaction_linux.go, ssh_plan_linux.go): it    *)
(* writes the public keys the platform grants to the managed accounts of   *)
(* the machine, and changes the SSH configurations so that these accounts  *)
(* are let in by those keys only.                                          *)
(*                                                                         *)
(* Runs exclude one another by a file lock: a synchronization of the       *)
(* timer, configure-ssh and recover-ssh.  Every durable write is a step of *)
(* its own. Between two steps the run may be killed, administrators edit   *)
(* files and recreate accounts, and the platform grants and revokes keys.  *)
(* A command of the run may fail at any step.                              *)
(*                                                                         *)
(* Every configuration file is the root file of one SSH service.  What a   *)
(* file says is reduced to how often it was edited by others and which     *)
(* accounts it subjects to the terminal's policy.  Included files,         *)
(* excluded accounts, paused synchronization and SELinux labels other than *)
(* their effect on keys are left out, and so is the comparison of a file   *)
(* right before it is replaced: both are one step.                         *)
(***************************************************************************)
EXTENDS Naturals, FiniteSets

CONSTANTS
    Files,      \* root configurations, one per SSH service
    Accounts,   \* names of managed local accounts
    Keys,       \* public keys
    MaxEdits,   \* bound: edits of one file by others
    MaxUid      \* bound: times an account is created

ASSUME NatBounds == MaxEdits \in Nat /\ MaxUid \in Nat

VARIABLES
    file,       \* the configuration files
    loaded,     \* the configuration each service runs with
    uid,        \* /etc/passwd: name -> uid, 0 if there is no such account yet
    grants,     \* platform: the keys each account is granted
    keyfile,    \* KeyDir: name -> keys
    bound,      \* sync-state.json: name -> the uid it was enrolled with, 0 if not
    inventory,  \* ssh-inventory.json: the files when coverage was last confirmed
    journal,    \* ssh-operation.json
    failed,     \* automatic-failure.json: the signature of the attempt
    run,        \* the run that holds the lock
    tried       \* history: what was last carried out automatically and not completed

vars == <<file, loaded, uid, grants, keyfile, bound, inventory, journal, failed, run, tried>>
host == <<file, loaded, uid, grants, keyfile, bound, inventory>>

Content == [edits : 0..MaxEdits, covers : SUBSET Accounts]
Plan == [before : [Files -> Content], after : [Files -> Content],
         uid : [Accounts -> 0..MaxUid], targets : SUBSET Accounts]
Unset == [f \in Files |-> [edits |-> 0, covers |-> {}]]
NoPlan == [before |-> Unset, after |-> Unset, uid |-> [a \in Accounts |-> 0], targets |-> {}]

\* automaticSignature: whom a plan enrols shows only in what it writes.
Signature(plan) == [before |-> plan.before, after |-> plan.after, uid |-> plan.uid]
NoAttempt == Signature(NoPlan)

NoInventory == [f \in {} |-> 0]

\* phase: of the phases in the code only the two that end an operation are told apart.
\* auto: automaticRecoveryAttempted
Journal == [phase : {"none", "unfinished", "complete", "restored"}, plan : Plan,
            auto : BOOLEAN]

\* plan, keys and todo are what the run remembers; ok: coverage was confirmed, or every
\* service reloaded so far.
Idle == [at |-> "idle", who |-> "nobody", plan |-> NoPlan,
         keys |-> [a \in Accounts |-> {}], todo |-> {}, ok |-> TRUE]

Changing == {"writeKeys", "writeFiles", "reload", "save", "bind", "complete"}
Steps == Changing \cup {"idle", "discard", "auto", "fetch", "mark", "check", "unmark",
                        "restore", "restoreFiles", "restoreReload", "keys", "ask", "apply"}

TypeOK ==
    /\ file \in [Files -> Content] /\ loaded \in [Files -> Content]
    /\ uid \in [Accounts -> 0..MaxUid] /\ bound \in [Accounts -> 0..MaxUid]
    /\ grants \in [Accounts -> SUBSET Keys] /\ keyfile \in [Accounts -> SUBSET Keys]
    /\ journal \in Journal
    /\ failed \in {Signature(plan) : plan \in Plan}
    /\ run.at \in Steps /\ run.who \in {"nobody", "sync", "configure", "recover"}
    /\ run.plan \in Plan /\ run.keys \in [Accounts -> SUBSET Keys]

-----------------------------------------------------------------------------
(* What the code reads off the machine *)

Local == {a \in Accounts : uid[a] # 0}

\* unfinishedSSH
Unfinished == journal.phase = "unfinished"

\* checkSSHInventory
Covered == inventory = file /\ ~Unfinished

\* prepareSSHPlanFor: the blocks of the targets are added, the others stay.
PlanFor(targets) ==
    [before |-> file,
     after |-> [f \in Files |-> [file[f] EXCEPT !.covers = @ \cup targets]],
     uid |-> uid, targets |-> targets]

\* SSHPlan.unchanged
Unchanged == file = run.plan.before /\ uid = run.plan.uid

Rewritten(plan) == {f \in Files : plan.before[f] # plan.after[f]}

Pending == {a \in Local : bound[a] = 0}

\* validatePlanBindings
BindingsValid(targets) == \A a \in targets : bound[a] \in {0, uid[a]}

\* What an operation, done or not, leads to
Leave == IF run.who = "sync" THEN [Idle EXCEPT !.at = "keys", !.who = "sync"] ELSE Idle

To(step, todo) == [run EXCEPT !.at = step, !.todo = todo]

-----------------------------------------------------------------------------
(* The surroundings *)

\* Somebody edits a configuration, keeping the terminal's blocks or not.
Edit(f, covers) ==
    /\ file[f].edits < MaxEdits
    /\ file' = [file EXCEPT ![f] = [edits |-> @.edits + 1, covers |-> covers]]
    /\ UNCHANGED <<loaded, uid, grants, keyfile, bound, inventory, journal, failed, run, tried>>

AdminReload(f) ==
    /\ loaded' = [loaded EXCEPT ![f] = file[f]]
    /\ UNCHANGED <<file, uid, grants, keyfile, bound, inventory, journal, failed, run, tried>>

\* An account is created, or deleted and created anew under another uid.
CreateAccount(a) ==
    /\ uid[a] < MaxUid
    /\ uid' = [uid EXCEPT ![a] = @ + 1]
    /\ UNCHANGED <<file, loaded, grants, keyfile, bound, inventory, journal, failed, run, tried>>

Grant(a, keys) ==
    /\ grants' = [grants EXCEPT ![a] = keys]
    /\ UNCHANGED <<file, loaded, uid, keyfile, bound, inventory, journal, failed, run, tried>>

\* The run is killed, by a shutdown or by systemd's time limit.
Killed ==
    /\ run.at # "idle"
    /\ run' = Idle
    /\ UNCHANGED <<host, journal, failed, tried>>

-----------------------------------------------------------------------------
(* Starting a run *)

StartSync ==
    /\ run.at = "idle"
    /\ run' = [Idle EXCEPT !.at = "discard", !.who = "sync"]
    /\ UNCHANGED <<host, journal, failed, tried>>

\* configure-ssh once confirmed: nothing the plan was made from has changed since.
StartConfigure ==
    /\ run.at = "idle"
    /\ ~Unfinished
    /\ ~(Covered /\ PlanFor(Local).after = file /\ \A a \in Local : bound[a] = uid[a])
    /\ run' = [Idle EXCEPT !.at = "fetch", !.who = "configure", !.plan = PlanFor(Local)]
    /\ UNCHANGED <<host, journal, failed, tried>>

\* recover-ssh
StartRecover ==
    /\ run.at = "idle"
    /\ Unfinished
    /\ run' = [Idle EXCEPT !.at = "restore", !.who = "recover"]
    /\ UNCHANGED <<host, journal, failed, tried>>

-----------------------------------------------------------------------------
(* autoManageAccounts *)

\* discardRecreatedKeys: the keys go first; killed or failing in between keeps the
\* binding, so that they are discarded once more.
Discard(a, unbind) ==
    /\ run.at = "discard"
    /\ a \in Local /\ bound[a] \notin {0, uid[a]}
    /\ keyfile' = [keyfile EXCEPT ![a] = {}]
    /\ \/ unbind /\ bound' = [bound EXCEPT ![a] = 0] /\ UNCHANGED run
       \/ ~unbind /\ run' = Leave /\ UNCHANGED bound
    /\ UNCHANGED <<file, loaded, uid, grants, inventory, journal, failed, tried>>

Discarded ==
    /\ run.at = "discard"
    /\ \A a \in Local : bound[a] \in {0, uid[a]}
    /\ run' = To("auto", {})
    /\ UNCHANGED <<host, journal, failed, tried>>

\* An unfinished operation is restored automatically once.
AutoRecover ==
    /\ run.at = "auto"
    /\ Unfinished
    /\ \/ ~journal.auto /\ journal' = [journal EXCEPT !.auto = TRUE]
          /\ run' = To("restore", {})
       \/ journal.auto /\ run' = Leave /\ UNCHANGED journal
    /\ UNCHANGED <<host, failed, tried>>

\* New accounts are enrolled where coverage is confirmed, unless that failed before
\* under the same conditions.
AutoEnroll ==
    /\ run.at = "auto"
    /\ ~Unfinished
    /\ \/ /\ Pending # {} /\ Covered /\ failed # Signature(PlanFor(Pending))
          /\ run' = [run EXCEPT !.at = "fetch", !.plan = PlanFor(Pending)]
       \/ /\ Pending = {} \/ ~Covered \/ failed = Signature(PlanFor(Pending))
          /\ run' = Leave
    /\ UNCHANGED <<host, journal, failed, tried>>

\* fetchPlanKeys
FetchPlanKeys ==
    /\ run.at = "fetch"
    /\ \/ run' = [run EXCEPT !.at = IF run.who = "sync" THEN "mark" ELSE "check",
                             !.keys = grants]
       \/ run' = Leave
    /\ UNCHANGED <<host, journal, failed, tried>>

\* Mutant of Marked: an attempt is never recorded.
MarkedLater == failed

\* automatic-failure.json names the attempt before anything is written.
Marked == Signature(run.plan)

Mark ==
    /\ run.at = "mark"
    /\ failed' = Marked
    /\ run' = To("check", {})
    /\ UNCHANGED <<host, journal, tried>>

-----------------------------------------------------------------------------
(* executeSSHPlan *)

BeginOperation ==
    /\ run.at = "check"
    /\ \/ /\ Unchanged /\ BindingsValid(run.plan.targets)
          /\ journal' = [phase |-> "unfinished", plan |-> run.plan, auto |-> FALSE]
          /\ run' = To("writeKeys", run.plan.targets)
          /\ tried' = IF run.who = "sync" THEN Signature(run.plan) ELSE tried
       \/ /\ ~(Unchanged /\ BindingsValid(run.plan.targets))
          /\ run' = Leave
          /\ UNCHANGED <<journal, tried>>
    /\ UNCHANGED <<host, failed>>

\* applyPlanKeys
WritePlanKeys(a) ==
    /\ run.at = "writeKeys" /\ a \in run.todo
    /\ uid[a] = run.plan.uid[a]
    /\ keyfile' = [keyfile EXCEPT ![a] = run.keys[a]]
    /\ run' = [run EXCEPT !.todo = @ \ {a}]
    /\ UNCHANGED <<file, loaded, uid, grants, bound, inventory, journal, failed, tried>>

KeysWritten ==
    /\ run.at = "writeKeys" /\ run.todo = {}
    /\ Unchanged
    /\ run' = To("writeFiles", Rewritten(run.plan))
    /\ UNCHANGED <<host, journal, failed, tried>>

WriteFile(f) ==
    /\ run.at = "writeFiles" /\ f \in run.todo
    /\ file[f] = run.plan.before[f]
    /\ file' = [file EXCEPT ![f] = run.plan.after[f]]
    /\ run' = [run EXCEPT !.todo = @ \ {f}]
    /\ UNCHANGED <<loaded, uid, grants, keyfile, bound, inventory, journal, failed, tried>>

FilesWritten ==
    /\ run.at = "writeFiles" /\ run.todo = {}
    /\ run' = To("reload", Rewritten(run.plan))
    /\ UNCHANGED <<host, journal, failed, tried>>

ReloadService(f) ==
    /\ run.at = "reload" /\ f \in run.todo
    /\ loaded' = [loaded EXCEPT ![f] = file[f]]
    /\ run' = [run EXCEPT !.todo = @ \ {f}]
    /\ UNCHANGED <<file, uid, grants, keyfile, bound, inventory, journal, failed, tried>>

\* The effective settings of every target are checked once more.
Verified ==
    /\ run.at = "reload" /\ run.todo = {}
    /\ \A f \in Files : run.plan.targets \subseteq file[f].covers
    /\ run' = To("save", {})
    /\ UNCHANGED <<host, journal, failed, tried>>

\* saveSSHInventory
SaveInventory ==
    /\ run.at = "save"
    /\ inventory' = file
    /\ run' = To("bind", {})
    /\ UNCHANGED <<file, loaded, uid, grants, keyfile, bound, journal, failed, tried>>

\* bindPlanAccounts
BindAccounts ==
    /\ run.at = "bind"
    /\ bound' = [a \in Accounts |-> IF a \in run.plan.targets THEN run.plan.uid[a] ELSE bound[a]]
    /\ run' = To("complete", {})
    /\ UNCHANGED <<file, loaded, uid, grants, keyfile, inventory, journal, failed, tried>>

CompleteOperation ==
    /\ run.at = "complete"
    /\ journal' = [journal EXCEPT !.phase = "complete"]
    /\ run' = To("unmark", {})
    /\ tried' = NoAttempt
    /\ UNCHANGED <<host, failed>>

Unmark ==
    /\ run.at = "unmark"
    /\ failed' = NoAttempt
    /\ run' = Leave
    /\ UNCHANGED <<host, journal, tried>>

\* fail: the journal is written again, with the phase in memory; that may fail too.
OperationFails(recorded) ==
    /\ run.at \in Changing
    /\ journal' = IF ~recorded THEN journal
                  ELSE [journal EXCEPT !.auto = TRUE,
                                       !.phase = IF run.at = "complete" THEN "complete" ELSE @]
    /\ run' = To("restore", {})
    /\ UNCHANGED <<host, failed, tried>>

-----------------------------------------------------------------------------
(* restoreSSHJournal *)

Before(f) == journal.plan.before[f]
After(f) == journal.plan.after[f]

\* Every file is as the operation found or left it; a recovery of a failed run, or an
\* automatic one, has been recorded as attempted.
BeginRestore ==
    /\ run.at = "restore"
    /\ \A f \in Files : file[f] \in {Before(f), After(f)}
    /\ journal' = [journal EXCEPT !.phase = "unfinished", !.auto = @ \/ run.who # "recover"]
    /\ run' = To("restoreFiles", Files)
    /\ UNCHANGED <<host, failed, tried>>

\* A check, a write or a command of the recovery fails: the operation stays unfinished.
RestoreFails ==
    /\ run.at \in {"restore", "restoreFiles"}
    /\ run' = Leave
    /\ UNCHANGED <<host, journal, failed, tried>>

\* Mutant of MayRestore: a file edited since it was checked is overwritten.
MayRestoreAnything(f) == TRUE

\* compareSSHFile
MayRestore(f) == file[f] \in {Before(f), After(f)}

RestoreFile(f) ==
    /\ run.at = "restoreFiles" /\ f \in run.todo
    /\ MayRestore(f)
    /\ file' = [file EXCEPT ![f] = Before(f)]
    /\ run' = [run EXCEPT !.todo = @ \ {f}]
    /\ UNCHANGED <<loaded, uid, grants, keyfile, bound, inventory, journal, failed, tried>>

\* Mutant of Restored: only services whose file is still to be restored are reloaded.
RestoredIfDue == {f \in Rewritten(journal.plan) : file[f] # Before(f)}

\* The services a recovery reloads: all, whatever it had to restore
Restored == Files

FilesRestored ==
    /\ run.at = "restoreFiles" /\ run.todo = {}
    /\ run' = [To("restoreReload", Restored) EXCEPT !.ok = TRUE]
    /\ UNCHANGED <<host, journal, failed, tried>>

RestoreReload(f) ==
    /\ run.at = "restoreReload" /\ f \in run.todo
    /\ \/ loaded' = [loaded EXCEPT ![f] = file[f]] /\ run' = [run EXCEPT !.todo = @ \ {f}]
       \/ run' = [run EXCEPT !.todo = @ \ {f}, !.ok = FALSE] /\ UNCHANGED loaded
    /\ UNCHANGED <<file, uid, grants, keyfile, bound, inventory, journal, failed, tried>>

EndRestore ==
    /\ run.at = "restoreReload" /\ run.todo = {}
    /\ \/ run.ok /\ journal' = [journal EXCEPT !.phase = "restored"]
       \/ UNCHANGED journal
    /\ run' = Leave
    /\ UNCHANGED <<host, failed, tried>>

-----------------------------------------------------------------------------
(* synchronizeKeys *)

\* Accounts, bindings and coverage are read before the platform is asked.
ReadMachine ==
    /\ run.at = "keys"
    /\ LET known == {a \in Local : bound[a] \in {0, uid[a]}}
       IN run' = [run EXCEPT !.at = "ask", !.ok = Covered,
                             !.plan = [@ EXCEPT !.uid = uid, !.targets = known]]
    /\ UNCHANGED <<host, journal, failed, tried>>

\* The answer may be missing, or unusable for some of the accounts.
AskPlatform(answered) ==
    /\ run.at = "ask"
    /\ answered \subseteq run.plan.targets
    /\ \/ run' = [run EXCEPT !.at = "apply", !.keys = grants, !.todo = answered,
                             !.plan = [@ EXCEPT !.targets = answered]]
       \/ run' = Idle
    /\ UNCHANGED <<host, journal, failed, tried>>

\* checkSyncSSH on top of the coverage
PolicyHolds(a) == run.ok /\ \A f \in Files : a \in file[f].covers

\* Mutant of NewKeys: drift holds back removals too.
NewKeysKept(a, drift) == IF PolicyHolds(a) /\ ~drift THEN run.keys[a] ELSE keyfile[a]

\* Where policy or label have drifted only removals are applied (removalOnly).
NewKeys(a, drift) ==
    IF PolicyHolds(a) /\ ~drift THEN run.keys[a] ELSE keyfile[a] \cap run.keys[a]

\* apply; drift: the SELinux label of the file is wrong.
ApplyKeys(a, drift) ==
    /\ run.at = "apply" /\ a \in run.todo
    /\ run' = [run EXCEPT !.todo = @ \ {a}]
    /\ \/ /\ uid[a] = run.plan.uid[a]
          /\ PolicyHolds(a) \/ bound[a] # 0
          /\ keyfile' = [keyfile EXCEPT ![a] = NewKeys(a, drift)]
          /\ bound' = IF drift THEN bound ELSE [bound EXCEPT ![a] = uid[a]]
       \/ /\ uid[a] # run.plan.uid[a] \/ ~(PolicyHolds(a) \/ bound[a] # 0)
          /\ UNCHANGED <<keyfile, bound>>
    /\ UNCHANGED <<file, loaded, uid, grants, inventory, journal, failed, tried>>

EndSync ==
    /\ run.at = "apply" /\ run.todo = {}
    /\ run' = Idle
    /\ UNCHANGED <<host, journal, failed, tried>>

-----------------------------------------------------------------------------
Init ==
    /\ file = Unset /\ loaded = Unset
    /\ uid = [a \in Accounts |-> 0] /\ bound = [a \in Accounts |-> 0]
    /\ grants = [a \in Accounts |-> {}] /\ keyfile = [a \in Accounts |-> {}]
    /\ inventory = NoInventory
    /\ journal = [phase |-> "none", plan |-> NoPlan, auto |-> FALSE]
    /\ failed = NoAttempt /\ tried = NoAttempt
    /\ run = Idle

Surroundings ==
    \/ \E f \in Files : AdminReload(f) \/ \E covers \in {{}, file[f].covers} : Edit(f, covers)
    \/ \E a \in Accounts : CreateAccount(a) \/ \E keys \in SUBSET Keys : Grant(a, keys)
    \/ Killed

Operation ==
    \/ FetchPlanKeys \/ Mark \/ BeginOperation
    \/ \E a \in Accounts : WritePlanKeys(a)
    \/ KeysWritten
    \/ \E f \in Files : WriteFile(f) \/ ReloadService(f)
    \/ FilesWritten \/ Verified \/ SaveInventory \/ BindAccounts \/ CompleteOperation \/ Unmark
    \/ \E recorded \in BOOLEAN : OperationFails(recorded)

Recovery ==
    \/ BeginRestore \/ RestoreFails \/ FilesRestored \/ EndRestore
    \/ \E f \in Files : RestoreFile(f) \/ RestoreReload(f)

Synchronization ==
    \/ \E a \in Accounts, unbind \in BOOLEAN : Discard(a, unbind)
    \/ Discarded \/ AutoRecover \/ AutoEnroll
    \/ ReadMachine \/ EndSync
    \/ \E answered \in SUBSET Accounts : AskPlatform(answered)
    \/ \E a \in Accounts, drift \in BOOLEAN : ApplyKeys(a, drift)

Next ==
    \/ Surroundings
    \/ StartSync \/ StartConfigure \/ StartRecover
    \/ Operation \/ Recovery \/ Synchronization

Spec == Init /\ [][Next]_vars

-----------------------------------------------------------------------------
(* Properties *)

\* What others edited is never overwritten: neither the operation nor its recovery
\* brings back a version of a file from before an edit.
EditsKept == [][\A f \in Files : file'[f].edits >= file[f].edits]_vars

\* Wherever the operation or its recovery were killed or failed, once the journal says
\* that it is complete or restored every service runs the policy its file states, except
\* for an edit nobody reloaded.
ServicesMatchFiles ==
    run.at = "idle" /\ ~Unfinished =>
        \A f \in Files : \/ loaded[f].covers = file[f].covers
                         \/ loaded[f].edits # file[f].edits

\* An automatic enrollment that did not complete is not carried out again under the same
\* conditions, even if it was killed before it could report anything.
TriedOnce ==
    [][run.at = "check" /\ run.who = "sync" /\ run'.at = "writeKeys"
      => Signature(run.plan) # tried]_vars

\* Coverage, policy and labels may have drifted and an operation may be unfinished:
\* an enrolled account keeps no key the platform's answer left out.
RevocationsApplied ==
    run.at = "apply" =>
        \A a \in run.plan.targets \ run.todo :
            bound[a] # 0 /\ bound[a] = run.plan.uid[a] /\ uid[a] = bound[a]
                => keyfile[a] \subseteq run.keys[a]

=============================================================================
