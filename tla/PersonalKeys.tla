---------------------------- MODULE PersonalKeys ----------------------------
(***************************************************************************)
(* The public SSH keys of one user (server/ssh-key-routes.ts, ssh-keys.ts; *)
(* features/account/SshKeySection.tsx, SshKeyActivationModal.tsx): added   *)
(* and removed with a code mailed for exactly that operation, activated on *)
(* the machines the user may use, and handed to their terminals.           *)
(*                                                                         *)
(* Pages of the user are open side by side.  A request is handled and its  *)
(* answer arrives in one step, or the answer or the whole request is lost: *)
(* a page does nothing else meanwhile.  Between two requests other pages   *)
(* act, the account, the mail service and the rule about accounts without  *)
(* an address change, and machines are gained and lost.                    *)
(*                                                                         *)
(* A key with its comment and its name is one value, told apart by its     *)
(* fingerprint.  Sessions, wrong codes, the pause between two codes, rate  *)
(* limits, the check for private keys and keys that cannot be parsed,      *)
(* which are refused before anything happens, are left out.                *)
(***************************************************************************)
EXTENDS Naturals, FiniteSets

CONSTANTS
    Machines,
    Prints,     \* keys, by their fingerprints
    Tabs,       \* open pages of the user
    MaxKeys,    \* keys a user may have: 10 in the code
    MaxIds,     \* bound: keys added
    MaxCodes,   \* bound: codes mailed
    MaxEvents,  \* bound: changes of the account, the mail service, machines, expired codes
    MaxLost     \* bound: lost requests and answers

VARIABLES
    owned,      \* user_ssh_keys
    added,      \* how many keys were added
    active,     \* machine_ssh_keys
    access,     \* the machines in use that the user may use or manages
    profile,    \* what the credential stamp is made of
    codes,      \* ssh_key_challenges and their mailed codes
    tab,        \* the pages
    lost,
    events

tables == <<owned, added, active, codes>>
keysVars == <<tables, access, profile, tab, lost, events>>

Ids == 1..MaxIds
NoOp == [kind |-> "NONE", print |-> "none", id |-> 0]
Adding(k) == [kind |-> "ADD", print |-> k, id |-> 0]
Removing(i) == [kind |-> "REMOVE", print |-> "none", id |-> i]
Operations == {NoOp} \cup {Adding(k) : k \in Prints} \cup {Removing(i) : i \in Ids}
Policies == {"REQUIRED", "SKIP", "BIND_REQUIRED"}

\* at: "list", "form" (mode is set), "dialog" (activationKey is set); proof: challengeId;
\* policy: emailVerification; rows: the keys shown; key, choice: the key of the dialog and the
\* machines selected; told: what the page just notified of.
FreshTab == [at |-> "loading", op |-> NoOp, proof |-> 0, policy |-> "REQUIRED", rows |-> {},
             key |-> 0, loaded |-> FALSE, choice |-> {}, told |-> "nothing"]

KeysTypeOK ==
    /\ owned \subseteq [id : Ids, print : Prints] /\ added \in 0..MaxIds
    /\ active \subseteq Machines \X Ids /\ access \subseteq Machines
    /\ DOMAIN codes \subseteq 1..MaxCodes
    /\ \A c \in DOMAIN codes : codes[c].op \in Operations /\ codes[c].uses \in 0..MaxIds
    /\ \A t \in Tabs : /\ tab[t].op \in Operations /\ tab[t].policy \in Policies
                       /\ tab[t].at \in {"loading", "list", "form", "dialog"}

KeysInit ==
    /\ owned = {} /\ added = 0 /\ active = {}
    /\ access = Machines
    /\ profile \in [email : BOOLEAN, rev : {0}, mailOn : {TRUE}, lacking : BOOLEAN]
    /\ profile.email => ~profile.lacking
    /\ codes = <<>>
    /\ tab = [t \in Tabs |-> FreshTab]
    /\ lost = 0 /\ events = 0

-----------------------------------------------------------------------------
(* The platform *)

Policy ==
    IF ~profile.mailOn THEN "SKIP"
    ELSE IF profile.email THEN "REQUIRED"
    ELSE IF profile.lacking THEN "SKIP" ELSE "BIND_REQUIRED"

Stamp == profile

OwnedIds == {k.id : k \in owned}

\* activationMachines, for a key
Offered(i) == {m \in Machines : <<m, i>> \in active \/ m \in access}

\* POST /terminal/machine/keys: what the terminal of machine m is handed.
Handed(m) == {k.id : k \in {x \in owned : m \in access /\ <<m, x.id>> \in active}}

\* normalizedOperation
Possible(op) == op.kind = "REMOVE" => op.id \in OwnedIds

\* checkProof
Proves(op, proof) ==
    \/ Policy = "SKIP"
    \/ /\ Policy = "REQUIRED" /\ proof # 0
       /\ codes[proof].op = op /\ codes[proof].stamp = Stamp /\ codes[proof].live

\* consumeEmailChallenge; uses counts what a code was accepted for.
ConsumedNot(c) == [c EXCEPT !.uses = @ + 1]     \* variant of Consumed
Consumed(c) == [c EXCEPT !.uses = @ + 1, !.live = FALSE]
Spent(proof) ==
    IF Policy = "REQUIRED" THEN [codes EXCEPT ![proof] = Consumed(@)] ELSE codes

\* POST /auth/ssh-keys and DELETE /auth/ssh-keys/:id
Accepts(r) ==
    /\ Possible(r.op) /\ Proves(r.op, r.proof)
    /\ r.op.kind = "ADD" => /\ \A k \in owned : k.print # r.op.print
                            /\ Cardinality(owned) < MaxKeys
                            /\ added < MaxIds

Changes(r, all) ==
    /\ codes' = Spent(r.proof)
    /\ \/ /\ r.op.kind = "ADD"
          /\ added' = added + 1
          /\ owned' = owned \cup {[id |-> added + 1, print |-> r.op.print]}
          /\ active' = active \cup (IF all THEN access \X {added + 1} ELSE {})
       \/ /\ r.op.kind = "REMOVE"
          /\ owned' = {k \in owned : k.id # r.op.id}
          /\ active' = {a \in active : a[2] # r.op.id}
          /\ UNCHANGED added

\* PUT /auth/ssh-keys/:id/activations
AcceptsChoice(r) == r.key \in OwnedIds /\ r.choice \subseteq Offered(r.key)

ActivatedToo(r) == active \cup (r.choice \X {r.key})    \* variant of Activated
Activated(r) == {a \in active : a[2] # r.key} \cup (r.choice \X {r.key})

-----------------------------------------------------------------------------
(* The page *)

Shows(t, r) == tab' = [tab EXCEPT ![t] = r]
Lists(r) == [r EXCEPT !.rows = {k.id : k \in owned'}, !.policy = Policy, !.at = "list"]
Page(t, r) ==
    Shows(t, [r EXCEPT !.told = "nothing"]) /\ UNCHANGED <<tables, access, profile, lost, events>>

\* An answer that never comes, and the request with it or not.
Loses(effect) ==
    /\ lost < MaxLost /\ lost' = lost + 1
    /\ effect \/ UNCHANGED tables
    /\ UNCHANGED <<access, profile, events>>

Load(t) ==
    LET r == tab[t]
    IN /\ r.at = "loading"
       /\ UNCHANGED <<tables, access, profile, events>>
       /\ \/ Shows(t, Lists(r)) /\ UNCHANGED lost
          \/ lost < MaxLost /\ lost' = lost + 1 /\ Shows(t, [r EXCEPT !.at = "list"])

StartAdd(t, k) ==
    /\ tab[t].at = "list" /\ Cardinality(tab[t].rows) < MaxKeys
    /\ Page(t, [tab[t] EXCEPT !.at = "form", !.op = Adding(k)])

\* Typing, or choosing a file
RetypedKeepingCode(r, k) == [r EXCEPT !.op = Adding(k)]     \* variant of Retyped
Retyped(r, k) == [r EXCEPT !.op = Adding(k), !.proof = 0]

Retype(t, k) ==
    /\ tab[t].at = "form" /\ tab[t].op.kind = "ADD" /\ tab[t].op.print # k
    /\ Page(t, Retyped(tab[t], k))

Closed(r) == [r EXCEPT !.at = "list", !.op = NoOp, !.proof = 0]

Close(t) == tab[t].at = "form" /\ Page(t, Closed(tab[t]))

\* The code that is mailed is bound to the operation on the form and to the account.
AskCode(t) ==
    LET r == tab[t]
        mails == /\ Possible(r.op) /\ Policy = "REQUIRED"
                 /\ Cardinality(DOMAIN codes) < MaxCodes
        id == Cardinality(DOMAIN codes) + 1
        mailed == /\ codes' = [c \in 1..id |-> IF c < id THEN codes[c]
                                  ELSE [op |-> r.op, stamp |-> Stamp, live |-> TRUE, uses |-> 0]]
                  /\ UNCHANGED <<owned, added, active>>
    IN /\ r.at = "form" /\ r.policy = "REQUIRED"
       /\ \/ mails /\ mailed /\ Shows(t, [r EXCEPT !.proof = id])
             /\ UNCHANGED <<access, profile, lost, events>>
          \/ Possible(r.op) /\ Policy = "SKIP" /\ Page(t, [r EXCEPT !.policy = "SKIP"])
          \/ mails /\ Loses(mailed) /\ UNCHANGED tab

\* A failure leaves the form as it is; the policy is read again, if that succeeds.
Failed(t) ==
    \E shown \in {Policy, tab[t].policy} : Shows(t, [tab[t] EXCEPT !.policy = shown])

\* all: autoActivateAll
Submit(t, all) ==
    LET r == tab[t]
        told == IF all THEN "ADD_ALL" ELSE r.op.kind
    IN /\ r.at = "form" /\ r.policy # "BIND_REQUIRED"
       /\ r.policy = "REQUIRED" => r.proof # 0
       /\ all => r.op.kind = "ADD"
       /\ \/ /\ Accepts(r) /\ Changes(r, all)
             /\ Shows(t, [Closed(Lists(r)) EXCEPT !.told = told])
             /\ UNCHANGED <<access, profile, lost, events>>
          \/ /\ ~Accepts(r) /\ Failed(t)
             /\ UNCHANGED <<tables, access, profile, lost, events>>
          \/ /\ Accepts(r) /\ Loses(Changes(r, all)) /\ Failed(t)

StartDialog(t, i) ==
    /\ tab[t].at = "list" /\ i \in tab[t].rows
    /\ Page(t, [tab[t] EXCEPT !.at = "dialog", !.key = i, !.loaded = FALSE])

\* The machines are loaded, and the user selects among them.
LoadDialog(t) ==
    LET r == tab[t]
    IN /\ r.at = "dialog" /\ ~r.loaded /\ r.key \in OwnedIds
       /\ \E choice \in SUBSET Offered(r.key) :
              Page(t, [r EXCEPT !.loaded = TRUE, !.choice = choice])

LeftDialog(r) == [r EXCEPT !.at = "list", !.key = 0, !.loaded = FALSE, !.choice = {}]

SaveDialog(t) ==
    LET r == tab[t]
        saved == active' = Activated(r) /\ UNCHANGED <<owned, added, codes>>
    IN /\ r.at = "dialog" /\ r.loaded /\ AcceptsChoice(r)
       /\ \/ /\ saved /\ Shows(t, [LeftDialog(r) EXCEPT !.rows = OwnedIds, !.told = "SAVED"])
             /\ UNCHANGED <<access, profile, lost, events>>
          \/ Loses(saved) /\ UNCHANGED tab

CloseDialog(t) == tab[t].at = "dialog" /\ Page(t, LeftDialog(tab[t]))

StartRemove(t) ==
    LET r == tab[t]
    IN /\ r.at = "dialog"
       /\ Page(t, [LeftDialog(r) EXCEPT !.at = "form", !.op = Removing(r.key), !.proof = 0])

-----------------------------------------------------------------------------
(* Others *)

Happens == events < MaxEvents /\ events' = events + 1

\* The user's address or password changes; nothing takes an address away.
ChangeCredentials ==
    /\ Happens
    /\ \E email \in {profile.email, TRUE} :
           profile' = [profile EXCEPT !.rev = events + 1, !.email = email]
    /\ UNCHANGED <<tables, access, tab, lost>>

SwitchMail ==
    /\ Happens
    /\ profile' = [profile EXCEPT !.mailOn = ~@]
    /\ UNCHANGED <<tables, access, tab, lost>>

ExpireCode ==
    /\ Happens
    /\ \E c \in DOMAIN codes : codes[c].live /\ codes' = [codes EXCEPT ![c].live = FALSE]
    /\ UNCHANGED <<owned, added, active, access, profile, tab, lost>>

AccessChanges ==
    /\ Happens
    /\ \E m \in Machines : access' = (access \ {m}) \cup ({m} \ access)
    /\ UNCHANGED <<tables, profile, tab, lost>>

KeysNext ==
    \/ \E t \in Tabs :
          \/ Load(t) \/ Close(t) \/ AskCode(t) \/ LoadDialog(t) \/ SaveDialog(t)
          \/ CloseDialog(t) \/ StartRemove(t)
          \/ \E all \in BOOLEAN : Submit(t, all)
          \/ \E k \in Prints : StartAdd(t, k) \/ Retype(t, k)
          \/ \E i \in Ids : StartDialog(t, i)
    \/ ChangeCredentials \/ SwitchMail \/ ExpireCode \/ AccessChanges

KeysSpec == KeysInit /\ [][KeysNext]_keysVars

-----------------------------------------------------------------------------
(* Properties *)

\* The code a page would send was mailed for the very operation on its form, however the
\* form was edited, closed and opened for something else since; and a code changes the keys
\* once, even if its answer was lost, another page undid the change and the form is
\* submitted again.
CodesBind ==
    /\ \A t \in Tabs : tab[t].proof # 0 =>
          tab[t].at = "form" /\ codes[tab[t].proof].op = tab[t].op
    /\ \A c \in DOMAIN codes : codes[c].uses <= 1

\* What a page tells the user to have happened is what the terminals of the machines will
\* be handed from then on.
ToldTrue ==
    [][\A t \in Tabs : tab[t].told = "nothing" =>
          LET r == tab[t]  told == tab'[t].told
          IN /\ told = "SAVED" => \A m \in Machines :
                    r.key \in Handed(m)' <=> m \in r.choice \cap access
             /\ told = "REMOVE" => \A m \in Machines : r.op.id \notin Handed(m)'
             /\ told = "ADD" => \E k \in owned' : k.print = r.op.print
             /\ told = "ADD_ALL" => \A m \in access : added' \in Handed(m)'
             /\ \A m \in Machines \ access' : Handed(m)' = {}]_keysVars
=============================================================================
