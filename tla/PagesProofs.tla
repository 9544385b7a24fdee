---------------------------- MODULE PagesProofs ----------------------------
(***************************************************************************)
(* Proofs about what users have on screen (MCPages), for any number of     *)
(* pages, keys, machines, images, sections, pools and requests.            *)
(*                                                                         *)
(* Keys: a page holds a code only while the form shows the operation it    *)
(* was mailed for; a code that is still live was never used.               *)
(*                                                                         *)
(* Ticket: a message, on its way or late, names a version, and the page    *)
(* has seen the ticket as it was at that version; an image that a message  *)
(* in flight adds is not recorded yet.                                     *)
(*                                                                         *)
(* Settings: the version a section would name in a write is that of the    *)
(* values its draft was made from.                                         *)
(*                                                                         *)
(* Resources: what others changed since the editor loaded it is stale in   *)
(* the editor, or unknown to it; every share fits its pool.  The sum of    *)
(* the shares of a capacity is the number of its parcels, one for each     *)
(* unit of each share, so that sums are compared as finite sets.           *)
(***************************************************************************)
EXTENDS MCPages, FiniteSetTheorems, TLAPS

-----------------------------------------------------------------------------
(* Keys: the inductive invariant *)

Places == {"loading", "list", "form", "dialog"}
Tellings == {"nothing", "ADD", "ADD_ALL", "REMOVE", "SAVED"}
Operation ==
    [kind : {"NONE"}, print : {"none"}, id : {0}] \cup [kind : {"ADD"}, print : Prints, id : {0}]
    \cup [kind : {"REMOVE"}, print : {"none"}, id : Nat]
TabRow ==
    [at : Places, op : Operation, proof : Nat, policy : K!Policies, rows : SUBSET Nat, key : Nat,
     loaded : BOOLEAN, choice : SUBSET Groups, told : Tellings]
Profile == [email : BOOLEAN, rev : Nat, mailOn : BOOLEAN, lacking : BOOLEAN]
CodeRow == [op : Operation, stamp : Profile, live : BOOLEAN, uses : Nat]
KeyRow == [id : Nat, print : Prints]

\* A live code was not used, and none is used twice.
CodesOnce(table) ==
    /\ \E n \in Nat : table \in [1..n -> CodeRow]
    /\ \A c \in DOMAIN table : table[c].uses <= 1 /\ (table[c].live => table[c].uses = 0)

\* The code of a page is of what its form shows.
BoundTo(r, table) ==
    r.proof # 0 => /\ r.at = "form" /\ r.proof \in DOMAIN table
                   /\ table[r.proof].op = r.op

KeysInv ==
    /\ owned \subseteq KeyRow /\ added \in Nat /\ events \in Nat
    /\ active \subseteq Groups \X Nat /\ access \subseteq Groups
    /\ profile \in Profile
    /\ CodesOnce(codes)
    /\ tab \in [Tabs -> TabRow]
    /\ \A t \in Tabs : BoundTo(tab[t], codes)

-----------------------------------------------------------------------------
(* Keys: one field of a page at a time *)

LEMMA SetAt ==
    ASSUME NEW r \in TabRow, NEW v \in Places, NEW s, s = [r EXCEPT !.at = v]
    PROVE  /\ s \in TabRow /\ s.at = v
           /\ s.op = r.op /\ s.proof = r.proof /\ s.policy = r.policy /\ s.rows = r.rows
           /\ s.key = r.key /\ s.loaded = r.loaded /\ s.choice = r.choice /\ s.told = r.told
BY DEF TabRow

LEMMA SetOp ==
    ASSUME NEW r \in TabRow, NEW v \in Operation, NEW s, s = [r EXCEPT !.op = v]
    PROVE  /\ s \in TabRow /\ s.op = v
           /\ s.at = r.at /\ s.proof = r.proof /\ s.policy = r.policy /\ s.rows = r.rows
           /\ s.key = r.key /\ s.loaded = r.loaded /\ s.choice = r.choice /\ s.told = r.told
BY DEF TabRow

LEMMA SetProof ==
    ASSUME NEW r \in TabRow, NEW v \in Nat, NEW s, s = [r EXCEPT !.proof = v]
    PROVE  /\ s \in TabRow /\ s.proof = v
           /\ s.at = r.at /\ s.op = r.op /\ s.policy = r.policy /\ s.rows = r.rows
           /\ s.key = r.key /\ s.loaded = r.loaded /\ s.choice = r.choice /\ s.told = r.told
BY DEF TabRow

LEMMA SetPolicy ==
    ASSUME NEW r \in TabRow, NEW v \in K!Policies, NEW s, s = [r EXCEPT !.policy = v]
    PROVE  /\ s \in TabRow /\ s.policy = v
           /\ s.at = r.at /\ s.op = r.op /\ s.proof = r.proof /\ s.rows = r.rows
           /\ s.key = r.key /\ s.loaded = r.loaded /\ s.choice = r.choice /\ s.told = r.told
BY DEF TabRow

LEMMA SetRows ==
    ASSUME NEW r \in TabRow, NEW v \in SUBSET Nat, NEW s, s = [r EXCEPT !.rows = v]
    PROVE  /\ s \in TabRow /\ s.rows = v
           /\ s.at = r.at /\ s.op = r.op /\ s.proof = r.proof /\ s.policy = r.policy
           /\ s.key = r.key /\ s.loaded = r.loaded /\ s.choice = r.choice /\ s.told = r.told
BY DEF TabRow

LEMMA SetKey ==
    ASSUME NEW r \in TabRow, NEW v \in Nat, NEW s, s = [r EXCEPT !.key = v]
    PROVE  /\ s \in TabRow /\ s.key = v
           /\ s.at = r.at /\ s.op = r.op /\ s.proof = r.proof /\ s.policy = r.policy
           /\ s.rows = r.rows /\ s.loaded = r.loaded /\ s.choice = r.choice /\ s.told = r.told
BY DEF TabRow

LEMMA SetChoice ==
    ASSUME NEW r \in TabRow, NEW v \in SUBSET Groups, NEW s, s = [r EXCEPT !.choice = v]
    PROVE  /\ s \in TabRow /\ s.choice = v
           /\ s.at = r.at /\ s.op = r.op /\ s.proof = r.proof /\ s.policy = r.policy
           /\ s.rows = r.rows /\ s.key = r.key /\ s.loaded = r.loaded /\ s.told = r.told
BY DEF TabRow

LEMMA SetTold ==
    ASSUME NEW r \in TabRow, NEW v \in Tellings, NEW s, s = [r EXCEPT !.told = v]
    PROVE  /\ s \in TabRow /\ s.told = v
           /\ s.at = r.at /\ s.op = r.op /\ s.proof = r.proof /\ s.policy = r.policy
           /\ s.rows = r.rows /\ s.key = r.key /\ s.loaded = r.loaded /\ s.choice = r.choice
BY DEF TabRow

-----------------------------------------------------------------------------
(* Keys: tables and pages *)

\* Rows stay rows, and the operation a code was mailed for stands.
TablesKept ==
    /\ owned' \subseteq KeyRow /\ added' \in Nat /\ active' \subseteq Groups \X Nat
    /\ CodesOnce(codes')
    /\ \A c \in DOMAIN codes : c \in DOMAIN codes' /\ codes'[c].op = codes[c].op

LEMMA TablesUnchanged == ASSUME KeysInv, UNCHANGED K!tables PROVE TablesKept
BY DEF KeysInv, TablesKept, K!tables

LEMMA OnePageChanges ==
    ASSUME KeysInv, TablesKept, access' \subseteq Groups, profile' \in Profile, events' \in Nat,
           NEW t \in Tabs, NEW s \in TabRow, K!Shows(t, s), BoundTo(s, codes')
    PROVE  KeysInv'
<1>1. tab' = [tab EXCEPT ![t] = s] /\ tab \in [Tabs -> TabRow]
    BY DEF K!Shows, KeysInv
<1>2. tab' \in [Tabs -> TabRow] /\ tab'[t] = s /\ \A u \in Tabs : u # t => tab'[u] = tab[u]
    BY <1>1
<1>3. ASSUME NEW u \in Tabs PROVE BoundTo(tab'[u], codes')
    <2>1. CASE u = t
        BY <1>2, <2>1
    <2>2. CASE u # t
        <3>1. BoundTo(tab[u], codes)
            BY DEF KeysInv
        <3> QED
            BY <1>2, <2>2, <3>1 DEF BoundTo, TablesKept
    <2> QED
        BY <2>1, <2>2
<1> QED
    BY <1>2, <1>3 DEF KeysInv, TablesKept

LEMMA NoPageChanges ==
    ASSUME KeysInv, TablesKept, access' \subseteq Groups, profile' \in Profile, events' \in Nat,
           UNCHANGED tab
    PROVE  KeysInv'
BY DEF KeysInv, TablesKept, BoundTo

LEMMA PageKeeps ==
    ASSUME KeysInv, NEW t \in Tabs, NEW r \in TabRow, BoundTo(r, codes), K!Page(t, r)
    PROVE  KeysInv' /\ \E s \in TabRow : tab' = [tab EXCEPT ![t] = s] /\ s.told = "nothing"
<1> DEFINE s == [r EXCEPT !.told = "nothing"]
<1>1. s \in TabRow /\ s.at = r.at /\ s.op = r.op /\ s.proof = r.proof /\ s.told = "nothing"
    BY SetTold DEF Tellings
<1>2. K!Shows(t, s) /\ UNCHANGED K!tables /\ UNCHANGED <<codes, access, profile, events>>
    BY DEF K!Page, K!tables
<1> HIDE DEF s
<1>3. BoundTo(s, codes')
    BY <1>1, <1>2 DEF BoundTo
<1>4. TablesKept
    BY <1>2, TablesUnchanged
<1>5. access' \subseteq Groups /\ profile' \in Profile /\ events' \in Nat
    BY <1>2 DEF KeysInv
<1>6. KeysInv'
    BY <1>1, <1>2, <1>3, <1>4, <1>5, OnePageChanges
<1> QED
    BY <1>1, <1>2, <1>6 DEF K!Shows

LEMMA PolicyType == K!Policy \in K!Policies
BY DEF K!Policy, K!Policies

\* POST /auth/ssh-keys and DELETE /auth/ssh-keys/:id
LEMMA ChangesKeep ==
    ASSUME KeysInv, NEW r \in TabRow, NEW all \in BOOLEAN, BoundTo(r, codes), K!Accepts(r),
           K!Changes(r, all)
    PROVE  TablesKept
<1>0. codes' = K!Spent(r.proof) /\ CodesOnce(codes)
    BY DEF K!Changes, KeysInv
<1>1. r.op \in Operation /\ r.proof \in Nat
    BY DEF TabRow
<1>2. owned' \subseteq KeyRow /\ added' \in Nat /\ active' \subseteq Groups \X Nat
    <2>1. CASE r.op.kind = "ADD"
        <3>1. r.op.print \in Prints
            BY <1>1, <2>1 DEF Operation
        <3>2. /\ added' = added + 1 /\ owned' = owned \cup {[id |-> added + 1, print |-> r.op.print]}
              /\ active' = active \cup (IF all THEN access \X {added + 1} ELSE {})
            BY <2>1 DEF K!Changes
        <3>3. added \in Nat /\ access \subseteq Groups /\ active \subseteq Groups \X Nat
              /\ owned \subseteq KeyRow
            BY DEF KeysInv
        <3>4. added + 1 \in Nat /\ [id |-> added + 1, print |-> r.op.print] \in KeyRow
            BY <3>1, <3>3 DEF KeyRow
        <3> QED
            BY <3>2, <3>3, <3>4
    <2>2. CASE r.op.kind = "REMOVE"
        BY <2>2 DEF K!Changes, KeysInv
    <2> QED
        BY <2>1, <2>2 DEF K!Changes
<1>3. CodesOnce(codes') /\ \A c \in DOMAIN codes : c \in DOMAIN codes' /\ codes'[c].op = codes[c].op
    <2>1. CASE K!Policy # "REQUIRED"
        BY <1>0, <2>1 DEF K!Spent
    <2>2. CASE K!Policy = "REQUIRED"
        <3> DEFINE p == r.proof
                   d1 == [codes[p] EXCEPT !.uses = codes[p].uses + 1]
                   d2 == [d1 EXCEPT !.live = FALSE]
        <3>1. p # 0 /\ codes[p].live
            BY <2>2 DEF K!Accepts, K!Proves
        <3>2. PICK n \in Nat : codes \in [1..n -> CodeRow]
            BY <1>0 DEF CodesOnce
        <3>3. p \in DOMAIN codes /\ codes[p] \in CodeRow /\ codes[p].uses = 0
            BY <1>0, <3>1, <3>2 DEF BoundTo, CodesOnce
        <3>4. d1 \in CodeRow /\ d1.uses = 1 /\ d1.op = codes[p].op
            BY <3>3 DEF CodeRow
        <3> HIDE DEF d1
        <3>5. d2 \in CodeRow /\ d2.uses = 1 /\ d2.op = codes[p].op /\ d2.live = FALSE
            BY <3>4 DEF CodeRow
        <3> HIDE DEF p
        <3>6. K!Consumed(codes[p]) = d2
            BY Zenon DEF K!Consumed, d1
        <3> HIDE DEF d2
        <3>7. codes' = [codes EXCEPT ![p] = d2]
            <4>1. codes' = [codes EXCEPT ![p] = K!Consumed(codes[p])]
                BY <1>0, <2>2, Zenon DEF K!Spent, p
            <4> QED
                BY <3>6, <4>1
        <3>8. codes' \in [1..n -> CodeRow]
            BY <3>2, <3>5, <3>7
        <3>9. DOMAIN codes' = DOMAIN codes /\ codes'[p] = d2
              /\ \A c \in DOMAIN codes : c # p => codes'[c] = codes[c]
            BY <3>2, <3>3, <3>7
        <3> QED
            BY <1>0, <3>3, <3>5, <3>8, <3>9 DEF CodesOnce
    <2> QED
        BY <2>1, <2>2
<1> QED
    BY <1>2, <1>3 DEF TablesKept

-----------------------------------------------------------------------------
(* Keys: what a page makes of itself *)

LEMMA ClosedRow ==
    ASSUME NEW r \in TabRow, NEW s, s = K!Closed(r)
    PROVE  s \in TabRow /\ s.at = "list" /\ s.proof = 0 /\ s.told = r.told /\ s.rows = r.rows
           /\ s.policy = r.policy
<1> DEFINE s1 == [r EXCEPT !.at = "list"]
           s2 == [s1 EXCEPT !.op = K!NoOp]
           s3 == [s2 EXCEPT !.proof = 0]
<1>1. s1 \in TabRow /\ s1.at = "list" /\ s1.told = r.told /\ s1.rows = r.rows /\ s1.policy = r.policy
    BY SetAt DEF Places
<1>2. K!NoOp \in Operation
    BY DEF K!NoOp, Operation
<1> HIDE DEF s1
<1>3. s2 \in TabRow /\ s2.at = "list" /\ s2.told = r.told /\ s2.rows = r.rows /\ s2.policy = r.policy
    BY <1>1, <1>2, SetOp
<1> HIDE DEF s2
<1>4. s3 \in TabRow /\ s3.at = "list" /\ s3.proof = 0 /\ s3.told = r.told /\ s3.rows = r.rows
      /\ s3.policy = r.policy
    BY <1>3, SetProof
<1>5. s = s3
    BY Zenon DEF K!Closed, s1, s2, s3
<1> HIDE DEF s3
<1> QED
    BY <1>4, <1>5

LEMMA ListedRow ==
    ASSUME owned' \subseteq KeyRow, NEW r \in TabRow, NEW s, s = K!Lists(r)
    PROVE  s \in TabRow /\ s.at = "list" /\ s.proof = r.proof /\ s.told = r.told
<1> DEFINE ids == {k.id : k \in owned'}
           s1 == [r EXCEPT !.rows = ids]
           s2 == [s1 EXCEPT !.policy = K!Policy]
           s3 == [s2 EXCEPT !.at = "list"]
<1>1. ids \in SUBSET Nat
    BY DEF KeyRow
<1> HIDE DEF ids
<1>2. s1 \in TabRow /\ s1.proof = r.proof /\ s1.told = r.told
    BY <1>1, SetRows
<1> HIDE DEF s1
<1>3. s2 \in TabRow /\ s2.proof = r.proof /\ s2.told = r.told
    BY <1>2, PolicyType, SetPolicy
<1> HIDE DEF s2
<1>4. s3 \in TabRow /\ s3.at = "list" /\ s3.proof = r.proof /\ s3.told = r.told
    BY <1>3, SetAt DEF Places
<1>5. s = s3
    BY Zenon DEF K!Lists, s1, s2, s3, ids
<1> HIDE DEF s3
<1> QED
    BY <1>4, <1>5

LEMMA LeftRow ==
    ASSUME NEW r \in TabRow, NEW s, s = K!LeftDialog(r)
    PROVE  s \in TabRow /\ s.at = "list" /\ s.proof = r.proof /\ s.told = r.told
<1> DEFINE s1 == [r EXCEPT !.at = "list"]
           s2 == [s1 EXCEPT !.key = 0]
           s3 == [s2 EXCEPT !.loaded = FALSE]
           s4 == [s3 EXCEPT !.choice = {}]
<1>1. s1 \in TabRow /\ s1.at = "list" /\ s1.proof = r.proof /\ s1.told = r.told
    BY SetAt DEF Places
<1> HIDE DEF s1
<1>2. s2 \in TabRow /\ s2.at = "list" /\ s2.proof = r.proof /\ s2.told = r.told
    BY <1>1, SetKey
<1> HIDE DEF s2
<1>3. s3 \in TabRow /\ s3.at = "list" /\ s3.proof = r.proof /\ s3.told = r.told
    BY <1>2 DEF TabRow
<1> HIDE DEF s3
<1>4. s4 \in TabRow /\ s4.at = "list" /\ s4.proof = r.proof /\ s4.told = r.told
    BY <1>3, SetChoice
<1>5. s = s4
    BY Zenon DEF K!LeftDialog, s1, s2, s3, s4
<1> HIDE DEF s4
<1> QED
    BY <1>4, <1>5

\* Steps that change nothing but what one page shows, and say nothing.
QuietSteps(t) ==
    \/ K!Close(t) \/ K!LoadDialog(t) \/ K!CloseDialog(t) \/ K!StartRemove(t)
    \/ \E k \in Prints : K!StartAdd(t, k) \/ K!Retype(t, k)
    \/ \E i \in K!Ids : K!StartDialog(t, i)

LEMMA QuietStep ==
    ASSUME KeysInv, NEW t \in Tabs, QuietSteps(t)
    PROVE  \E r \in TabRow : BoundTo(r, codes) /\ K!Page(t, r)
<1> DEFINE r == tab[t]
<1>0. r \in TabRow /\ BoundTo(r, codes)
    BY DEF KeysInv
<1>1. CASE K!Close(t)
    <2>1. PICK s : s = K!Closed(r)
        OBVIOUS
    <2> QED
        BY <1>0, <1>1, <2>1, ClosedRow DEF K!Close, BoundTo
<1>2. CASE K!LoadDialog(t)
    <2>1. PICK choice \in SUBSET K!Offered(r.key) :
              K!Page(t, [r EXCEPT !.loaded = TRUE, !.choice = choice])
        BY <1>2 DEF K!LoadDialog
    <2>2. choice \in SUBSET Groups
        BY <2>1 DEF K!Offered
    <2> DEFINE s1 == [r EXCEPT !.loaded = TRUE]
               s2 == [s1 EXCEPT !.choice = choice]
    <2>3. s1 \in TabRow /\ s1.at = r.at /\ s1.proof = r.proof /\ s1.op = r.op
        BY <1>0 DEF TabRow
    <2> HIDE DEF s1
    <2>4. s2 \in TabRow /\ s2.at = r.at /\ s2.proof = r.proof /\ s2.op = r.op
        BY <2>2, <2>3, SetChoice
    <2>5. K!Page(t, s2)
        BY <2>1, Zenon DEF s1, s2
    <2> HIDE DEF s2
    <2> QED
        BY <1>0, <2>4, <2>5 DEF BoundTo
<1>3. CASE K!CloseDialog(t)
    <2>1. PICK s : s = K!LeftDialog(r)
        OBVIOUS
    <2> QED
        BY <1>0, <1>3, <2>1, LeftRow DEF K!CloseDialog, BoundTo
<1>4. CASE K!StartRemove(t)
    <2> DEFINE s0 == K!LeftDialog(r)
               s1 == [s0 EXCEPT !.at = "form"]
               s2 == [s1 EXCEPT !.op = K!Removing(r.key)]
               s3 == [s2 EXCEPT !.proof = 0]
    <2>1. s0 \in TabRow
        BY <1>0, LeftRow
    <2> HIDE DEF s0
    <2>2. s1 \in TabRow
        BY <2>1, SetAt DEF Places
    <2>3. K!Removing(r.key) \in Operation
        BY <1>0 DEF K!Removing, Operation, TabRow
    <2> HIDE DEF s1
    <2>4. s2 \in TabRow
        BY <2>2, <2>3, SetOp
    <2> HIDE DEF s2
    <2>5. s3 \in TabRow /\ s3.proof = 0
        BY <2>4, SetProof
    <2>6. K!Page(t, s3)
        BY <1>4, Zenon DEF K!StartRemove, s0, s1, s2, s3
    <2> HIDE DEF s3
    <2> QED
        BY <2>5, <2>6 DEF BoundTo
<1>5. ASSUME NEW k \in Prints, K!StartAdd(t, k)
      PROVE  \E s \in TabRow : BoundTo(s, codes) /\ K!Page(t, s)
    <2> DEFINE s1 == [r EXCEPT !.at = "form"]
               s2 == [s1 EXCEPT !.op = K!Adding(k)]
    <2>1. r.proof = 0
        BY <1>0, <1>5 DEF K!StartAdd, BoundTo
    <2>2. s1 \in TabRow /\ s1.proof = 0
        BY <1>0, <2>1, SetAt DEF Places
    <2>3. K!Adding(k) \in Operation
        BY DEF K!Adding, Operation
    <2> HIDE DEF s1
    <2>4. s2 \in TabRow /\ s2.proof = 0
        BY <2>2, <2>3, SetOp
    <2>5. K!Page(t, s2)
        BY <1>5, Zenon DEF K!StartAdd, s1, s2
    <2> HIDE DEF s2
    <2> QED
        BY <2>4, <2>5 DEF BoundTo
<1>6. ASSUME NEW k \in Prints, K!Retype(t, k)
      PROVE  \E s \in TabRow : BoundTo(s, codes) /\ K!Page(t, s)
    <2> DEFINE s1 == [r EXCEPT !.op = K!Adding(k)]
               s2 == [s1 EXCEPT !.proof = 0]
    <2>1. K!Adding(k) \in Operation
        BY DEF K!Adding, Operation
    <2>2. s1 \in TabRow
        BY <1>0, <2>1, SetOp
    <2> HIDE DEF s1
    <2>3. s2 \in TabRow /\ s2.proof = 0
        BY <2>2, SetProof
    <2>4. K!Page(t, s2)
        BY <1>6, Zenon DEF K!Retype, K!Retyped, s1, s2
    <2> HIDE DEF s2
    <2> QED
        BY <2>3, <2>4 DEF BoundTo
<1>7. ASSUME NEW i \in K!Ids, K!StartDialog(t, i)
      PROVE  \E s \in TabRow : BoundTo(s, codes) /\ K!Page(t, s)
    <2> DEFINE s1 == [r EXCEPT !.at = "dialog"]
               s2 == [s1 EXCEPT !.key = i]
               s3 == [s2 EXCEPT !.loaded = FALSE]
    <2>1. r.proof = 0 /\ i \in Nat
        BY <1>0, <1>7 DEF K!StartDialog, BoundTo, K!Ids
    <2>2. s1 \in TabRow /\ s1.proof = 0
        BY <1>0, <2>1, SetAt DEF Places
    <2> HIDE DEF s1
    <2>3. s2 \in TabRow /\ s2.proof = 0
        BY <2>1, <2>2, SetKey
    <2> HIDE DEF s2
    <2>4. s3 \in TabRow /\ s3.proof = 0
        BY <2>3 DEF TabRow
    <2>5. K!Page(t, s3)
        BY <1>7, Zenon DEF K!StartDialog, s1, s2, s3
    <2> HIDE DEF s3
    <2> QED
        BY <2>4, <2>5 DEF BoundTo
<1> HIDE DEF r
<1> QED
    BY <1>1, <1>2, <1>3, <1>4, <1>5, <1>6, <1>7 DEF QuietSteps

-----------------------------------------------------------------------------
(* Keys: requests *)

LEMMA KeysCardinality == ASSUME NEW X PROVE K!Cardinality(X) = Cardinality(X)
BY Zenon DEF K!Cardinality, Cardinality

\* POST /auth/ssh-keys/challenge: the mailed code is of what the form shows.
LEMMA MailedKeeps ==
    ASSUME KeysInv, NEW r \in TabRow, NEW id, id = K!Cardinality(DOMAIN codes) + 1,
           codes' = [c \in 1..id |-> IF c < id THEN codes[c]
                        ELSE [op |-> r.op, stamp |-> K!Stamp, live |-> TRUE, uses |-> 0]],
           UNCHANGED <<owned, added, active>>
    PROVE  TablesKept /\ id \in Nat /\ id \in DOMAIN codes' /\ codes'[id].op = r.op
<1> DEFINE new == [op |-> r.op, stamp |-> K!Stamp, live |-> TRUE, uses |-> 0]
<1>0. CodesOnce(codes)
    BY DEF KeysInv
<1>1. PICK n \in Nat : codes \in [1..n -> CodeRow]
    BY <1>0 DEF CodesOnce
<1>2. K!Cardinality(DOMAIN codes) = n
    BY <1>1, KeysCardinality, FS_Interval
<1>3. id = n + 1
    BY <1>2
<1>4. new \in CodeRow /\ new.op = r.op /\ new.uses = 0
    BY DEF CodeRow, TabRow, KeysInv, K!Stamp
<1> HIDE DEF new
<1>5. codes' = [c \in 1..id |-> IF c < id THEN codes[c] ELSE new]
    BY Zenon DEF new
<1>6. /\ codes' \in [1..(n + 1) -> CodeRow]
      /\ \A c \in 1..n : codes'[c] = codes[c]
      /\ codes'[n + 1] = new
    <2>1. codes' = [c \in 1..(n + 1) |-> IF c < n + 1 THEN codes[c] ELSE new]
        BY <1>3, <1>5
    <2>2. \A c \in 1..n : c \in 1..(n + 1) /\ c < n + 1 /\ codes[c] \in CodeRow
        BY <1>1
    <2>3. \A c \in 1..(n + 1) : c < n + 1 => c \in 1..n
        BY <1>1
    <2>4. n + 1 \in 1..(n + 1) /\ ~(n + 1 < n + 1)
        BY <1>1
    <2> QED
        BY <1>4, <2>1, <2>2, <2>3, <2>4
<1>7. \A c \in 1..(n + 1) : c \in 1..n \/ c = n + 1
    BY <1>1
<1>8. CodesOnce(codes')
    <2>1. DOMAIN codes' = 1..(n + 1) /\ n + 1 \in Nat /\ DOMAIN codes = 1..n
        BY <1>1, <1>6
    <2>2. ASSUME NEW c \in 1..(n + 1)
          PROVE  codes'[c].uses <= 1 /\ (codes'[c].live => codes'[c].uses = 0)
        BY <1>0, <1>4, <1>6, <1>7, <2>1 DEF CodesOnce
    <2> QED
        BY <1>6, <2>1, <2>2 DEF CodesOnce
<1>9. \A c \in DOMAIN codes : c \in DOMAIN codes' /\ codes'[c].op = codes[c].op
    <2>1. DOMAIN codes = 1..n /\ DOMAIN codes' = 1..(n + 1) /\ 1..n \subseteq 1..(n + 1)
        BY <1>1, <1>6
    <2> QED
        BY <1>6, <2>1
<1>10. owned' \subseteq KeyRow /\ added' \in Nat /\ active' \subseteq Groups \X Nat
    BY DEF KeysInv
<1> QED
    BY <1>1, <1>3, <1>4, <1>6, <1>8, <1>9, <1>10 DEF TablesKept

LEMMA BoundStays ==
    ASSUME TablesKept, NEW r \in TabRow, BoundTo(r, codes), NEW s \in TabRow,
           s.at = r.at, s.op = r.op, s.proof = r.proof
    PROVE  BoundTo(s, codes')
BY DEF BoundTo, TablesKept

LEMMA LoadKeeps ==
    ASSUME KeysInv, NEW t \in Tabs, K!Load(t)
    PROVE  KeysInv' /\ \E s \in TabRow : tab' = [tab EXCEPT ![t] = s] /\ s.told = tab[t].told
<1> DEFINE r == tab[t]
<1>0. r \in TabRow /\ BoundTo(r, codes)
    BY DEF KeysInv
<1>1. /\ r.at = "loading" /\ TablesKept
      /\ access' \subseteq Groups /\ profile' \in Profile /\ events' \in Nat
    BY TablesUnchanged DEF K!Load, KeysInv
<1>2. r.proof = 0
    BY <1>0, <1>1 DEF BoundTo
<1>3. \E s \in TabRow : s.proof = 0 /\ s.told = r.told /\ K!Shows(t, s)
    <2> DEFINE s1 == K!Lists(r)
               s2 == [r EXCEPT !.at = "list"]
    <2>1. s1 \in TabRow /\ s1.proof = 0 /\ s1.told = r.told
        BY <1>0, <1>1, <1>2, ListedRow DEF TablesKept
    <2>2. s2 \in TabRow /\ s2.proof = 0 /\ s2.told = r.told
        BY <1>0, <1>2, SetAt DEF Places
    <2>3. K!Shows(t, s1) \/ K!Shows(t, s2)
        BY Zenon DEF K!Load
    <2> HIDE DEF s1, s2
    <2> QED
        BY <2>1, <2>2, <2>3
<1> HIDE DEF r
<1> QED
    BY <1>1, <1>3, OnePageChanges DEF BoundTo, K!Shows, r

LEMMA AskKeeps ==
    ASSUME KeysInv, NEW t \in Tabs, K!AskCode(t)
    PROVE  /\ KeysInv'
           /\ UNCHANGED tab \/ \E s \in TabRow : /\ tab' = [tab EXCEPT ![t] = s]
                                                 /\ s.told \in {"nothing", tab[t].told}
<1> DEFINE r == tab[t]
           id == K!Cardinality(DOMAIN codes) + 1
           mailed == /\ codes' = [c \in 1..id |-> IF c < id THEN codes[c]
                                     ELSE [op |-> r.op, stamp |-> K!Stamp, live |-> TRUE, uses |-> 0]]
                     /\ UNCHANGED <<owned, added, active>>
<1>0. r \in TabRow /\ BoundTo(r, codes)
    BY DEF KeysInv
<1>1. r.at = "form"
    BY DEF K!AskCode
<1>2. \/ mailed /\ K!Shows(t, [r EXCEPT !.proof = id]) /\ UNCHANGED <<access, profile, lost, events>>
      \/ K!Page(t, [r EXCEPT !.policy = "SKIP"])
      \/ K!Loses(mailed) /\ UNCHANGED tab
    BY Zenon DEF K!AskCode
<1>3. mailed => TablesKept /\ id \in Nat /\ id \in DOMAIN codes' /\ codes'[id].op = r.op
    BY <1>0, MailedKeeps
<1>4. CASE mailed /\ K!Shows(t, [r EXCEPT !.proof = id]) /\ UNCHANGED <<access, profile, lost, events>>
    <2> DEFINE s == [r EXCEPT !.proof = id]
    <2>0. id \in Nat /\ id \in DOMAIN codes' /\ codes'[id].op = r.op /\ TablesKept
        BY <1>3, <1>4
    <2>1. s \in TabRow /\ s.proof = id /\ s.at = r.at /\ s.op = r.op /\ s.told = r.told
        BY <1>0, <2>0, SetProof
    <2>2. K!Shows(t, s)
        BY <1>4
    <2>3. access' \subseteq Groups /\ profile' \in Profile /\ events' \in Nat
        BY <1>4 DEF KeysInv
    <2> HIDE DEF s, id
    <2>4. BoundTo(s, codes')
        BY <1>1, <2>0, <2>1 DEF BoundTo
    <2>5. KeysInv'
        BY <2>0, <2>1, <2>2, <2>3, <2>4, OnePageChanges
    <2> QED
        BY <2>1, <2>2, <2>5 DEF K!Shows
<1>5. CASE K!Page(t, [r EXCEPT !.policy = "SKIP"])
    <2> DEFINE s == [r EXCEPT !.policy = "SKIP"]
    <2>1. s \in TabRow /\ s.proof = r.proof /\ s.at = r.at /\ s.op = r.op
        BY <1>0, SetPolicy DEF K!Policies
    <2>2. K!Page(t, s)
        BY <1>5
    <2> HIDE DEF s
    <2>3. BoundTo(s, codes)
        BY <1>0, <2>1 DEF BoundTo
    <2> QED
        BY <2>1, <2>2, <2>3, PageKeeps
<1>6. CASE K!Loses(mailed) /\ UNCHANGED tab
    <2>1. (mailed \/ UNCHANGED K!tables) /\ UNCHANGED <<access, profile, events>>
        BY <1>6, Zenon DEF K!Loses
    <2> HIDE DEF mailed
    <2>2. TablesKept
        BY <1>3, <2>1, TablesUnchanged
    <2> QED
        BY <1>6, <2>1, <2>2, NoPageChanges DEF KeysInv
<1> QED
    BY <1>2, <1>4, <1>5, <1>6

\* What a step leaves unsaid: only the changed page may say something, and it says nothing new.
QuietAt(t) ==
    UNCHANGED tab \/ \E s \in TabRow : /\ tab' = [tab EXCEPT ![t] = s]
                                       /\ s.told \in {"nothing", tab[t].told}

LEMMA FailedRow ==
    ASSUME KeysInv, TablesKept, NEW t \in Tabs, K!Failed(t)
    PROVE  \E s \in TabRow : BoundTo(s, codes') /\ s.told = tab[t].told /\ K!Shows(t, s)
<1>1. PICK shown \in {K!Policy, tab[t].policy} : K!Shows(t, [tab[t] EXCEPT !.policy = shown])
    BY DEF K!Failed
<1>2. tab[t] \in TabRow /\ BoundTo(tab[t], codes)
    BY DEF KeysInv
<1>3. shown \in K!Policies
    BY <1>1, <1>2, PolicyType DEF TabRow
<1> DEFINE s == [tab[t] EXCEPT !.policy = shown]
<1>4. /\ s \in TabRow /\ s.at = tab[t].at /\ s.op = tab[t].op /\ s.proof = tab[t].proof
      /\ s.told = tab[t].told
    BY <1>2, <1>3, SetPolicy
<1>5. K!Shows(t, s)
    BY <1>1
<1> HIDE DEF s
<1>6. BoundTo(s, codes')
    BY <1>2, <1>4, BoundStays
<1> QED
    BY <1>4, <1>5, <1>6

LEMMA SubmitKeeps ==
    ASSUME KeysInv, NEW t \in Tabs, NEW all \in BOOLEAN, K!Submit(t, all)
    PROVE  /\ KeysInv'
           /\ \/ QuietAt(t)
              \/ /\ K!Accepts(tab[t]) /\ K!Changes(tab[t], all) /\ UNCHANGED access
                 /\ all => tab[t].op.kind = "ADD"
                 /\ \E s \in TabRow : /\ tab' = [tab EXCEPT ![t] = s]
                                      /\ s.told = IF all THEN "ADD_ALL" ELSE tab[t].op.kind
<1> DEFINE r == tab[t]
           told == IF all THEN "ADD_ALL" ELSE r.op.kind
<1>0. r \in TabRow /\ BoundTo(r, codes)
    BY DEF KeysInv
<1>1. /\ all => r.op.kind = "ADD"
      /\ \/ /\ K!Accepts(r) /\ K!Changes(r, all)
            /\ K!Shows(t, [K!Closed(K!Lists(r)) EXCEPT !.told = told])
            /\ UNCHANGED <<access, profile, lost, events>>
         \/ /\ K!Failed(t) /\ UNCHANGED <<K!tables, access, profile, lost, events>>
         \/ K!Accepts(r) /\ K!Loses(K!Changes(r, all)) /\ K!Failed(t)
    BY Zenon DEF K!Submit
<1>2. CASE /\ K!Accepts(r) /\ K!Changes(r, all)
           /\ K!Shows(t, [K!Closed(K!Lists(r)) EXCEPT !.told = told])
           /\ UNCHANGED <<access, profile, lost, events>>
    <2> DEFINE s0 == K!Lists(r)
               s1 == K!Closed(s0)
               s2 == [s1 EXCEPT !.told = told]
    <2>1. TablesKept
        BY <1>0, <1>2, ChangesKeep
    <2>2. s0 \in TabRow
        BY <1>0, <2>1, ListedRow DEF TablesKept
    <2> HIDE DEF s0
    <2>3. s1 \in TabRow /\ s1.proof = 0
        BY <2>2, ClosedRow
    <2>4. told \in Tellings
        BY <1>2 DEF K!Changes, Tellings
    <2> HIDE DEF s1, told
    <2>5. s2 \in TabRow /\ s2.proof = 0 /\ s2.told = told
        BY <2>3, <2>4, SetTold
    <2>6. K!Shows(t, s2)
        BY <1>2 DEF s0, s1
    <2> HIDE DEF s2
    <2>7. access' \subseteq Groups /\ profile' \in Profile /\ events' \in Nat
        BY <1>2 DEF KeysInv
    <2>8. KeysInv'
        BY <2>1, <2>5, <2>6, <2>7, OnePageChanges DEF BoundTo
    <2>9. \E s \in TabRow : tab' = [tab EXCEPT ![t] = s] /\ s.told = told
        BY <2>5, <2>6 DEF K!Shows
    <2> QED
        BY <1>1, <1>2, <2>8, <2>9 DEF told
<1>3. ASSUME TablesKept, K!Failed(t), UNCHANGED <<access, profile, events>>
      PROVE  KeysInv' /\ QuietAt(t)
    <2>1. PICK s \in TabRow : BoundTo(s, codes') /\ s.told = r.told /\ K!Shows(t, s)
        BY <1>3, FailedRow
    <2>2. access' \subseteq Groups /\ profile' \in Profile /\ events' \in Nat
        BY <1>3 DEF KeysInv
    <2>3. KeysInv'
        BY <1>3, <2>1, <2>2, OnePageChanges
    <2> QED
        BY <2>1, <2>3 DEF QuietAt, K!Shows
<1>4. CASE K!Failed(t) /\ UNCHANGED <<K!tables, access, profile, lost, events>>
    BY <1>3, <1>4, TablesUnchanged
<1>5. CASE K!Accepts(r) /\ K!Loses(K!Changes(r, all)) /\ K!Failed(t)
    <2>1. (K!Changes(r, all) \/ UNCHANGED K!tables) /\ UNCHANGED <<access, profile, events>>
        BY <1>5, Zenon DEF K!Loses
    <2>2. TablesKept
        BY <1>0, <1>5, <2>1, TablesUnchanged, ChangesKeep
    <2> QED
        BY <1>3, <1>5, <2>1, <2>2
<1> HIDE DEF r, told
<1> QED
    BY <1>1, <1>2, <1>4, <1>5 DEF r

LEMMA SaveKeeps ==
    ASSUME KeysInv, NEW t \in Tabs, K!SaveDialog(t)
    PROVE  /\ KeysInv'
           /\ \/ QuietAt(t)
              \/ /\ K!AcceptsChoice(tab[t]) /\ active' = K!Activated(tab[t])
                 /\ UNCHANGED <<owned, access>>
                 /\ \E s \in TabRow : tab' = [tab EXCEPT ![t] = s] /\ s.told = "SAVED"
<1> DEFINE r == tab[t]
           saved == active' = K!Activated(r) /\ UNCHANGED <<owned, added, codes>>
<1>0. r \in TabRow /\ BoundTo(r, codes) /\ K!AcceptsChoice(r) /\ r.at = "dialog"
    BY DEF KeysInv, K!SaveDialog
<1>1. \/ /\ saved /\ K!Shows(t, [K!LeftDialog(r) EXCEPT !.rows = K!OwnedIds, !.told = "SAVED"])
         /\ UNCHANGED <<access, profile, lost, events>>
      \/ K!Loses(saved) /\ UNCHANGED tab
    BY Zenon DEF K!SaveDialog
<1>2. r.proof = 0
    BY <1>0 DEF BoundTo
<1>3. saved => TablesKept
    <2>1. K!Activated(r) \subseteq Groups \X Nat
        BY <1>0 DEF K!Activated, TabRow, KeysInv
    <2> QED
        BY <2>1 DEF TablesKept, KeysInv
<1>4. CASE /\ saved
           /\ K!Shows(t, [K!LeftDialog(r) EXCEPT !.rows = K!OwnedIds, !.told = "SAVED"])
           /\ UNCHANGED <<access, profile, lost, events>>
    <2> DEFINE s0 == K!LeftDialog(r)
               s1 == [s0 EXCEPT !.rows = K!OwnedIds]
               s2 == [s1 EXCEPT !.told = "SAVED"]
    <2>1. s0 \in TabRow /\ s0.proof = 0
        BY <1>0, <1>2, LeftRow
    <2>2. K!OwnedIds \in SUBSET Nat
        BY DEF K!OwnedIds, KeysInv, KeyRow
    <2> HIDE DEF s0
    <2>3. s1 \in TabRow /\ s1.proof = 0
        BY <2>1, <2>2, SetRows, ZenonT(60)
    <2> HIDE DEF s1
    <2>4. s2 \in TabRow /\ s2.proof = 0 /\ s2.told = "SAVED"
        BY <2>3, SetTold DEF Tellings
    <2>5. K!Shows(t, s2)
        BY <1>4, Zenon DEF s0, s1, s2
    <2> HIDE DEF s2
    <2>6. access' \subseteq Groups /\ profile' \in Profile /\ events' \in Nat
        BY <1>4 DEF KeysInv
    <2>7. KeysInv'
        BY <1>3, <1>4, <2>4, <2>5, <2>6, OnePageChanges DEF BoundTo
    <2> QED
        BY <1>0, <1>4, <2>4, <2>5, <2>7 DEF K!Shows
<1>5. CASE K!Loses(saved) /\ UNCHANGED tab
    <2>1. (saved \/ UNCHANGED K!tables) /\ UNCHANGED <<access, profile, events>>
        BY <1>5, Zenon DEF K!Loses
    <2> HIDE DEF saved
    <2>2. TablesKept
        BY <1>3, <2>1, TablesUnchanged
    <2> QED
        BY <1>5, <2>1, <2>2, NoPageChanges DEF KeysInv, QuietAt
<1> HIDE DEF r, saved
<1> QED
    BY <1>1, <1>4, <1>5 DEF r, saved

LEMMA OthersKeep ==
    ASSUME KeysInv, K!ChangeCredentials \/ K!SwitchMail \/ K!ExpireCode \/ K!AccessChanges
    PROVE  KeysInv' /\ UNCHANGED tab
<1>0. events' \in Nat /\ UNCHANGED tab
    BY DEF K!Happens, K!ChangeCredentials, K!SwitchMail, K!ExpireCode, K!AccessChanges, KeysInv
<1>1. CASE K!ChangeCredentials
    <2>1. PICK email \in {profile.email, TRUE} :
              profile' = [profile EXCEPT !.rev = events + 1, !.email = email]
        BY <1>1 DEF K!ChangeCredentials
    <2> DEFINE p1 == [profile EXCEPT !.rev = events + 1]
               p2 == [p1 EXCEPT !.email = email]
    <2>2. profile \in Profile /\ events + 1 \in Nat
        BY DEF KeysInv
    <2>3. email \in BOOLEAN
        BY <2>1, <2>2 DEF Profile
    <2>4. p1 \in Profile
        BY <2>2 DEF Profile
    <2> HIDE DEF p1
    <2>5. p2 \in Profile
        BY <2>3, <2>4 DEF Profile
    <2>6. profile' = p2
        BY <2>1, Zenon DEF p1, p2
    <2> HIDE DEF p2
    <2> QED
        BY <1>0, <1>1, <2>5, <2>6, TablesUnchanged, NoPageChanges DEF K!ChangeCredentials, KeysInv
<1>2. CASE K!SwitchMail
    <2>1. profile' \in Profile
        BY <1>2 DEF K!SwitchMail, KeysInv, Profile
    <2> QED
        BY <1>0, <1>2, <2>1, TablesUnchanged, NoPageChanges DEF K!SwitchMail, KeysInv
<1>3. CASE K!ExpireCode
    <2>1. PICK c \in DOMAIN codes : codes' = [codes EXCEPT ![c].live = FALSE]
        BY <1>3 DEF K!ExpireCode
    <2> DEFINE d == [codes[c] EXCEPT !.live = FALSE]
    <2>2. CodesOnce(codes)
        BY DEF KeysInv
    <2>3. PICK n \in Nat : codes \in [1..n -> CodeRow]
        BY <2>2 DEF CodesOnce
    <2>4. d \in CodeRow /\ d.op = codes[c].op /\ d.uses = codes[c].uses /\ d.live = FALSE
        BY <2>1, <2>3 DEF CodeRow
    <2>5. codes' = [codes EXCEPT ![c] = d]
        BY <2>1, Zenon
    <2> HIDE DEF d
    <2>6. /\ codes' \in [1..n -> CodeRow] /\ codes'[c] = d
          /\ \A x \in DOMAIN codes : x # c => codes'[x] = codes[x]
        BY <2>1, <2>3, <2>4, <2>5
    <2>7. DOMAIN codes' = DOMAIN codes
        BY <2>3, <2>6
    <2>8. CodesOnce(codes')
        BY <2>1, <2>2, <2>4, <2>6, <2>7 DEF CodesOnce
    <2>9. TablesKept
        BY <1>3, <2>1, <2>4, <2>6, <2>7, <2>8 DEF K!ExpireCode, TablesKept, KeysInv
    <2> QED
        BY <1>0, <1>3, <2>9, NoPageChanges DEF K!ExpireCode, KeysInv
<1>4. CASE K!AccessChanges
    <2>1. access' \subseteq Groups
        BY <1>4 DEF K!AccessChanges, KeysInv
    <2> QED
        BY <1>0, <1>4, <2>1, TablesUnchanged, NoPageChanges DEF K!AccessChanges, KeysInv
<1> QED
    BY <1>0, <1>1, <1>2, <1>3, <1>4

-----------------------------------------------------------------------------
(* Keys: every behaviour *)

LEMMA KeysStart == K!KeysInit => KeysInv
<1> SUFFICES ASSUME K!KeysInit PROVE KeysInv
    OBVIOUS
<1>1. codes \in [1..0 -> CodeRow] /\ DOMAIN codes = {}
    BY DEF K!KeysInit
<1>2. CodesOnce(codes)
    BY <1>1 DEF CodesOnce
<1>3. K!FreshTab \in TabRow /\ K!FreshTab.proof = 0
    <2>1. K!NoOp \in Operation
        BY DEF K!NoOp, Operation
    <2> QED
        BY <2>1 DEF K!FreshTab, TabRow, Places, Tellings, K!Policies
<1>4. tab \in [Tabs -> TabRow] /\ \A t \in Tabs : BoundTo(tab[t], codes)
    <2>1. tab = [t \in Tabs |-> K!FreshTab]
        BY DEF K!KeysInit
    <2> HIDE DEF K!FreshTab
    <2> QED
        BY <2>1, <1>3 DEF BoundTo
<1>5. profile \in Profile
    <2>1. profile \in [email : BOOLEAN, rev : {0}, mailOn : {TRUE}, lacking : BOOLEAN]
        BY DEF K!KeysInit
    <2>2. {0} \subseteq Nat /\ {TRUE} \subseteq BOOLEAN
        OBVIOUS
    <2> QED
        BY <2>1, <2>2, Zenon DEF Profile
<1> QED
    BY <1>2, <1>4, <1>5 DEF KeysInv, K!KeysInit

LEMMA KeysKeep == KeysInv /\ [K!KeysNext]_(K!keysVars) => KeysInv'
<1> SUFFICES ASSUME KeysInv, [K!KeysNext]_(K!keysVars) PROVE KeysInv'
    OBVIOUS
<1>1. ASSUME NEW t \in Tabs, QuietSteps(t) PROVE KeysInv'
    <2>1. PICK r \in TabRow : BoundTo(r, codes) /\ K!Page(t, r)
        BY <1>1, QuietStep
    <2> QED
        BY <2>1, PageKeeps
<1>2. CASE UNCHANGED K!keysVars
    BY <1>2 DEF K!keysVars, K!tables, KeysInv, CodesOnce, BoundTo
<1>3. ASSUME NEW t \in Tabs, NEW all \in BOOLEAN, K!Submit(t, all) PROVE KeysInv'
    BY <1>3, SubmitKeeps
<1> QED
    BY <1>1, <1>2, <1>3, LoadKeeps, AskKeeps, SaveKeeps, OthersKeep DEF K!KeysNext, QuietSteps

LEMMA KeysInvariant == K!KeysSpec => []KeysInv
BY KeysStart, KeysKeep, PTL DEF K!KeysSpec

LEMMA KeysBind == KeysInv => CodesBind
<1> SUFFICES ASSUME KeysInv PROVE K!CodesBind
    BY DEF CodesBind
<1>1. ASSUME NEW t \in Tabs, tab[t].proof # 0
      PROVE  tab[t].at = "form" /\ codes[tab[t].proof].op = tab[t].op
    BY <1>1 DEF KeysInv, BoundTo
<1> QED
    BY <1>1 DEF K!CodesBind, KeysInv, CodesOnce

\* What a page says is said in the step that makes it true.
LEMMA KeysTold == K!KeysSpec => K!ToldTrue
<1> DEFINE said(t) == tab'[t].told
           SaidTrue(t) ==
               /\ said(t) = "SAVED" => \A m \in Groups :
                     tab[t].key \in K!Handed(m)' <=> m \in tab[t].choice \cap access
               /\ said(t) = "REMOVE" => \A m \in Groups : tab[t].op.id \notin K!Handed(m)'
               /\ said(t) = "ADD" => \E k \in owned' : k.print = tab[t].op.print
               /\ said(t) = "ADD_ALL" => \A m \in access : added' \in K!Handed(m)'
               /\ \A m \in Groups \ access' : K!Handed(m)' = {}
<1>1. ASSUME KeysInv, K!KeysNext \/ UNCHANGED K!keysVars, NEW u \in Tabs, tab[u].told = "nothing"
      PROVE  SaidTrue(u)
    <2>0. \A m \in Groups \ access' : K!Handed(m)' = {}
        BY DEF K!Handed
    <2>1. tab \in [Tabs -> TabRow]
        BY <1>1 DEF KeysInv
    <2>2. ASSUME NEW t \in Tabs, QuietAt(t) PROVE said(u) = "nothing"
        <3>1. CASE UNCHANGED tab
            BY <1>1, <3>1
        <3>2. ASSUME NEW s \in TabRow, tab' = [tab EXCEPT ![t] = s], s.told \in {"nothing", tab[t].told}
              PROVE  said(u) = "nothing"
            BY <1>1, <2>1, <3>2
        <3> QED
            BY <2>2, <3>1, <3>2 DEF QuietAt
    <2>3. ASSUME NEW t \in Tabs, NEW s \in TabRow, tab' = [tab EXCEPT ![t] = s]
          PROVE  said(u) = IF u = t THEN s.told ELSE "nothing"
        BY <1>1, <2>1, <2>3
    <2>4. CASE said(u) = "nothing"
        BY <2>0, <2>4
    <2>5. ASSUME NEW t \in Tabs, QuietSteps(t) PROVE said(u) = "nothing"
        <3>1. PICK r \in TabRow : BoundTo(r, codes) /\ K!Page(t, r)
            BY <1>1, <2>5, QuietStep
        <3> QED
            BY <1>1, <2>2, <3>1, PageKeeps DEF QuietAt
    <2>6. ASSUME NEW t \in Tabs, K!Load(t) \/ K!AskCode(t) PROVE said(u) = "nothing"
        BY <1>1, <2>2, <2>6, LoadKeeps, AskKeeps DEF QuietAt
    <2>7. ASSUME NEW t \in Tabs, NEW all \in BOOLEAN, K!Submit(t, all) PROVE SaidTrue(u)
        <3>1. CASE QuietAt(t)
            BY <2>2, <2>4, <3>1
        <3>2. CASE /\ K!Accepts(tab[t]) /\ K!Changes(tab[t], all) /\ UNCHANGED access
                   /\ all => tab[t].op.kind = "ADD"
                   /\ \E s \in TabRow : /\ tab' = [tab EXCEPT ![t] = s]
                                        /\ s.told = IF all THEN "ADD_ALL" ELSE tab[t].op.kind
            <4>1. said(u) = "nothing" \/ (u = t /\ said(u) = IF all THEN "ADD_ALL" ELSE tab[t].op.kind)
                <5> DEFINE word == IF all THEN "ADD_ALL" ELSE tab[t].op.kind
                <5>1. PICK s \in TabRow : tab' = [tab EXCEPT ![t] = s] /\ s.told = word
                    BY <3>2
                <5>2. said(u) = IF u = t THEN s.told ELSE "nothing"
                    BY <2>3, <5>1
                <5> HIDE DEF word, said
                <5>3. said(u) = "nothing" \/ (u = t /\ said(u) = word)
                    BY <5>1, <5>2
                <5> QED
                    BY <5>3, Zenon DEF word
            <4>2. CASE tab[t].op.kind = "ADD" /\ u = t /\ ~all /\ said(u) = "ADD"
                <5>1. owned' = owned \cup {[id |-> added + 1, print |-> tab[t].op.print]}
                    BY <3>2, <4>2 DEF K!Changes
                <5> DEFINE x == [id |-> added + 1, print |-> tab[t].op.print]
                <5>2. x \in owned' /\ x.print = tab[t].op.print
                    BY <5>1
                <5> HIDE DEF x
                <5> QED
                    BY <2>0, <4>2, <5>2
            <4>3. CASE tab[t].op.kind = "ADD" /\ u = t /\ all /\ said(u) = "ADD_ALL"
                <5>1. /\ added' = added + 1
                      /\ owned' = owned \cup {[id |-> added + 1, print |-> tab[t].op.print]}
                      /\ active' = active \cup (access \X {added + 1}) /\ access' = access
                    BY <3>2, <4>3 DEF K!Changes
                <5> DEFINE x == [id |-> added + 1, print |-> tab[t].op.print]
                <5>2. x \in owned' /\ x.id = added'
                    BY <5>1
                <5> HIDE DEF x
                <5>3. ASSUME NEW m \in access PROVE added' \in K!Handed(m)'
                    <6>1. m \in access' /\ <<m, x.id>> \in active'
                        BY <5>1, <5>2
                    <6> QED
                        BY <5>2, <6>1 DEF K!Handed
                <5> QED
                    BY <2>0, <4>3, <5>3
            <4>4. CASE tab[t].op.kind = "REMOVE" /\ u = t /\ ~all /\ said(u) = "REMOVE"
                <5>1. owned' = {k \in owned : k.id # tab[t].op.id}
                    BY <3>2, <4>4 DEF K!Changes
                <5>2. \A m \in Groups : tab[t].op.id \notin K!Handed(m)'
                    BY <5>1 DEF K!Handed
                <5> QED
                    BY <2>0, <4>4, <5>2
            <4>5. tab[t].op.kind \in {"ADD", "REMOVE"}
                BY <3>2 DEF K!Changes
            <4> QED
                BY <2>4, <3>2, <4>1, <4>2, <4>3, <4>4, <4>5
        <3> QED
            BY <1>1, <2>7, <3>1, <3>2, SubmitKeeps
    <2>8. ASSUME NEW t \in Tabs, K!SaveDialog(t) PROVE SaidTrue(u)
        <3>1. CASE QuietAt(t)
            BY <2>2, <2>4, <3>1
        <3>2. CASE /\ K!AcceptsChoice(tab[t]) /\ active' = K!Activated(tab[t])
                   /\ UNCHANGED <<owned, access>>
                   /\ \E s \in TabRow : tab' = [tab EXCEPT ![t] = s] /\ s.told = "SAVED"
            <4>1. said(u) = "nothing" \/ (u = t /\ said(u) = "SAVED")
                BY <2>3, <3>2
            <4>2. CASE u = t /\ said(u) = "SAVED"
                <5>1. PICK x \in owned : x.id = tab[t].key
                    BY <3>2 DEF K!AcceptsChoice, K!OwnedIds
                <5>2. ASSUME NEW m \in Groups
                      PROVE  tab[t].key \in K!Handed(m)' <=> m \in tab[t].choice \cap access
                    <6>1. <<m, tab[t].key>> \in active' <=> m \in tab[t].choice
                        BY <3>2 DEF K!Activated
                    <6>2. tab[t].key \in K!Handed(m)' <=> m \in access /\ <<m, tab[t].key>> \in active'
                        BY <3>2, <5>1 DEF K!Handed
                    <6> QED
                        BY <6>1, <6>2
                <5> QED
                    BY <2>0, <4>2, <5>2
            <4> QED
                BY <2>4, <4>1, <4>2
        <3> QED
            BY <1>1, <2>8, <3>1, <3>2, SaveKeeps
    <2>9. CASE \/ K!ChangeCredentials \/ K!SwitchMail \/ K!ExpireCode \/ K!AccessChanges
               \/ UNCHANGED K!keysVars
        <3>1. UNCHANGED tab
            BY <1>1, <2>9, OthersKeep DEF K!keysVars
        <3> QED
            BY <1>1, <2>4, <3>1
    <2> HIDE DEF SaidTrue, said
    <2> QED
        BY <1>1, <2>4, <2>5, <2>6, <2>7, <2>8, <2>9 DEF K!KeysNext, QuietSteps
<1>2. KeysInv /\ [K!KeysNext]_(K!keysVars)
          => [\A t \in Tabs : tab[t].told = "nothing" => SaidTrue(t)]_(K!keysVars)
    BY <1>1
<1> QED
    BY <1>2, KeysInvariant, PTL DEF K!KeysSpec, K!ToldTrue

-----------------------------------------------------------------------------
(* Tickets: the inductive invariant *)

Snap == [version : Nat, status : F!Statuses, level : F!Levels, images : SUBSET Groups]
Request ==
    [kind : F!Kinds \cup {"none"}, expected : Nat, seen : Snap, overwrite : BOOLEAN,
     level : F!Levels, status : F!Statuses, kept : SUBSET Groups, added : SUBSET Groups, draft : Nat]
Stages == {"idle", "asking", "sent", "done", "stale", "closed", "invalid"}
Sending == [stage : Stages, m : Request, reply : Snap]
Reading == [stage : {"none", "asked", "served"}, got : Snap]
Dialog == [open : BOOLEAN, saved : Snap, level : F!Levels, kept : SUBSET Groups, added : SUBSET Groups]
Viewing ==
    [shown : Snap, choice : F!Statuses \cup {"none"}, began : F!Statuses, base : Nat, draft : Nat,
     added : SUBSET Groups]

TicketTyped ==
    /\ ticket \in [version : Nat, status : F!Statuses, level : F!Levels]
    /\ rows \in [Groups -> {"none", "body", "comment", "removed", "purged"}]
    /\ files \in [Groups -> {"none", "staged", "stored"}]
    /\ posted \in [1..MaxDrafts -> Nat]
    /\ role \in {"owner", "admin"}
    /\ view \in Viewing /\ editor \in Dialog /\ loading \in Reading
    /\ sending \in Sending /\ late \in Request
    /\ unsure \subseteq F!Kinds /\ writes \in Nat

\* Before the ticket exists the page can do nothing but create it.
BeforeTicket ==
    ticket.version = 0 =>
        /\ view = F!FreshView /\ loading = F!NotLoading
        /\ \A d \in DOMAIN posted : posted[d] = 0
        /\ editor.saved.version = 0
        /\ sending.stage # "idle" => sending.stage = "sent" /\ sending.m.kind = "create"
        /\ late # F!NoMessage => late.kind = "create"

\* A request that may reach the server; what it adds was never recorded.
OutNow == sending.stage \notin {"idle", "asking", "done"}

Unrecorded(images, draft) ==
    /\ \A i \in images : rows[i] = "none"
    /\ draft \in DOMAIN posted => posted[draft] = 0

Apart(images, draft) ==
    /\ images \cap late.added = {}
    /\ draft # 0 => late.draft # draft

EditorKind == IF editor.saved.version = 0 THEN "create" ELSE "edit"
EditorDraft == IF editor.saved.version = 0 THEN 1 ELSE 0

\* What is drafted was never recorded, unless its kind of request is not sent any more.
DraftsUnsent ==
    /\ editor.open =>
          \/ EditorKind \in unsure
          \/ sending.stage = "done" /\ sending.m.kind = EditorKind
          \/ /\ Unrecorded(editor.added, EditorDraft) /\ Apart(editor.added, EditorDraft)
             /\ EditorKind = "create" => ticket.version = 0
    /\ \/ "comment" \in unsure
       \/ sending.stage = "done" /\ sending.m.kind = "comment"
       \/ Unrecorded(view.added, view.draft) /\ Apart(view.added, view.draft)
    /\ view.added \cap editor.added = {}
    /\ ~editor.open => editor.added = {}
    /\ role = "admin" => ~editor.open

\* A request carries what is drafted, and the drafts stand still while it is under way.
RequestIsDraft ==
    /\ sending.stage # "idle" =>
          \/ /\ sending.m.kind = EditorKind /\ sending.stage # "asking" /\ editor.open
             /\ sending.m.added = editor.added /\ sending.m.draft = EditorDraft
          \/ /\ sending.m.kind = "comment" /\ sending.stage # "asking" /\ ~editor.open
             /\ sending.m.added = view.added /\ sending.m.draft = view.draft
          \/ /\ sending.m.kind \in {"status", "level", "withdraw"} /\ ~editor.open
             /\ sending.m.added = {} /\ sending.m.draft = 0
    /\ OutNow =>
          /\ Unrecorded(sending.m.added, sending.m.draft)
          /\ Apart(sending.m.added, sending.m.draft)
          /\ sending.m.kind = "create" => ticket.version = 0
    /\ sending.stage = "asking" => sending.m.kind = "withdraw"
    /\ sending.stage \notin {"idle", "asking"} => sending.m.kind \notin unsure

LateUnrecorded ==
    /\ Unrecorded(late.added, late.draft)
    /\ late.kind = "create" => ticket.version = 0 /\ "create" \in unsure
    /\ late # F!NoMessage => late.kind \in F!Kinds

\* What was seen in the version the ticket still has is what the ticket is.
Accurate(s) ==
    /\ s.version <= ticket.version
    /\ s.version = ticket.version => s = F!Snapshot

ReplacesSeen(m) ==
    m.kind \in {"edit", "level", "status", "withdraw"} =>
        /\ m.expected <= ticket.version
        /\ m.expected = ticket.version =>
              /\ m.kind # "status" => m.seen.level = ticket.level
              /\ m.kind \in {"status", "withdraw"} => m.seen.status = ticket.status
              /\ m.kind \in {"edit", "withdraw"} => m.seen.images = F!BodyImages

SeenTrue ==
    /\ Accurate(view.shown) /\ Accurate(editor.saved)
    /\ loading.stage = "served" => Accurate(loading.got)
    /\ sending.stage = "done" => Accurate(sending.reply)
    /\ role = "admin" =>
          /\ view.base <= view.shown.version
          /\ view.choice # "none" /\ view.base = ticket.version => view.began = ticket.status
          /\ sending.stage = "done" => view.shown.version <= sending.reply.version
    /\ sending.stage \notin {"idle", "done"} => ReplacesSeen(sending.m)
    /\ ReplacesSeen(late)

\* An editor nobody touched shows what the page shows.
EditorFollows ==
    editor.open /\ editor.saved.version > 0 /\ ~F!Dirty(editor) /\ sending = F!Idle
        => editor.saved.version >= view.shown.version

TicketInv ==
    /\ TicketTyped /\ BeforeTicket /\ DraftsUnsent /\ RequestIsDraft /\ LateUnrecorded
    /\ SeenTrue /\ EditorFollows /\ F!RecordedOnce

-----------------------------------------------------------------------------
(* Tickets: what the server makes of the rows *)

LEMMA SnapshotType == ASSUME TicketTyped PROVE F!Snapshot \in Snap /\ F!Snapshot.version = ticket.version
    /\ F!Snapshot.status = ticket.status /\ F!Snapshot.level = ticket.level
    /\ F!Snapshot.images = F!BodyImages
BY DEF F!Snapshot, Snap, F!BodyImages, TicketTyped

LEMMA NothingType == F!Nothing \in Snap /\ F!Nothing.version = 0
BY DEF F!Nothing, Snap, F!Statuses, F!Levels

LEMMA NoMessageType == F!NoMessage \in Request /\ F!NoMessage.kind = "none" /\ F!NoMessage.added = {}
                       /\ F!NoMessage.draft = 0
BY NothingType DEF F!NoMessage, F!Message, Request, F!Statuses, F!Levels

\* What the server does leaves unrecorded what it was not sent, and makes a new version of
\* what others have seen, or leaves it as it is.
ServerKeeps(images, draft) ==
    /\ ticket' \in [version : Nat, status : F!Statuses, level : F!Levels]
    /\ rows' \in [Groups -> {"none", "body", "comment", "removed", "purged"}]
    /\ files' \in [Groups -> {"none", "staged", "stored"}]
    /\ posted' \in [1..MaxDrafts -> Nat]
    /\ F!RecordedOnce'
    /\ \A i \in Groups : rows[i] = "none" /\ i \notin images => rows'[i] = "none"
    /\ \A d \in 1..MaxDrafts : d # draft => posted'[d] = posted[d]
    /\ ticket.version <= ticket'.version
    /\ ticket'.version = ticket.version => ticket' = ticket /\ F!BodyImages' = F!BodyImages

LEMMA KeptUnrecorded ==
    ASSUME TicketTyped, NEW images, NEW draft, ServerKeeps(images, draft),
           NEW A \in SUBSET Groups, NEW d \in Nat, A \cap images = {}, d = 0 \/ d # draft,
           Unrecorded(A, d)
    PROVE  Unrecorded(A, d)'
<1>1. DOMAIN posted' = 1..MaxDrafts /\ DOMAIN posted = 1..MaxDrafts
    BY DEF TicketTyped, ServerKeeps
<1>2. 0 \notin 1..MaxDrafts
    OBVIOUS
<1> QED
    BY <1>1, <1>2 DEF Unrecorded, ServerKeeps

LEMMA KeptAccurate ==
    ASSUME TicketTyped, NEW images, NEW draft, ServerKeeps(images, draft), NEW s \in Snap,
           Accurate(s)
    PROVE  Accurate(s)'
<1>1. ticket.version \in Nat /\ ticket'.version \in Nat /\ s.version \in Nat
    BY DEF TicketTyped, ServerKeeps, Snap
<1>2. ticket.version <= ticket'.version
      /\ (ticket'.version = ticket.version => F!Snapshot' = F!Snapshot)
    BY DEF ServerKeeps, F!Snapshot
<1>3. s.version <= ticket.version /\ (s.version = ticket.version => s = F!Snapshot)
    BY DEF Accurate
<1> QED
    BY <1>1, <1>2, <1>3 DEF Accurate

LEMMA KeptSeen ==
    ASSUME TicketTyped, NEW images, NEW draft, ServerKeeps(images, draft), NEW m \in Request,
           ReplacesSeen(m)
    PROVE  ReplacesSeen(m)'
<1>1. ticket.version \in Nat /\ ticket'.version \in Nat /\ m.expected \in Nat
    BY DEF TicketTyped, ServerKeeps, Request
<1>2. /\ ticket.version <= ticket'.version
      /\ ticket'.version = ticket.version => ticket' = ticket /\ F!BodyImages' = F!BodyImages
    BY DEF ServerKeeps
<1> QED
    BY <1>1, <1>2 DEF ReplacesSeen

LEMMA TicketAfterFacts ==
    ASSUME TicketTyped, NEW m \in Request, m.kind \in F!Kinds, m.kind = "create" => ticket.version = 0,
           NEW t, t = F!TicketAfter(m)
    PROVE  /\ t \in [version : Nat, status : F!Statuses, level : F!Levels]
           /\ t.version = IF m.kind = "comment" THEN ticket.version ELSE ticket.version + 1
           /\ m.kind = "comment" => t = ticket
<1> DEFINE t1 == [ticket EXCEPT !.version = ticket.version + 1]
           tl == [t1 EXCEPT !.level = m.level]
           ts == [t1 EXCEPT !.status = m.status]
           tw == [t1 EXCEPT !.status = "withdrawn"]
           Rows == [version : Nat, status : F!Statuses, level : F!Levels]
<1>1. ticket \in Rows /\ m.level \in F!Levels /\ m.status \in F!Statuses /\ "withdrawn" \in F!Statuses
    BY DEF TicketTyped, Request, F!Statuses
<1>2. t1 \in Rows /\ t1.version = ticket.version + 1
    BY <1>1
<1> HIDE DEF t1
<1>3. tl \in Rows /\ tl.version = ticket.version + 1
    BY <1>1, <1>2
<1>4. ts \in Rows /\ ts.version = ticket.version + 1
    BY <1>1, <1>2
<1>5. tw \in Rows /\ tw.version = ticket.version + 1
    BY <1>1, <1>2
<1>6. F!Edited(m) = tl /\ F!LevelChanged(m) = tl /\ F!StatusChanged(m) = ts /\ F!Withdrawn = tw
    BY Zenon DEF F!Edited, F!LevelChanged, F!StatusChanged, F!Withdrawn, t1
<1> HIDE DEF tl, ts, tw
<1>7. m.kind = "create" => F!Created(m) \in Rows /\ F!Created(m).version = ticket.version + 1
    BY <1>1 DEF F!Created, F!Statuses
<1>8. CASE m.kind = "create"
    <2>1. t = F!Created(m)
        BY <1>8 DEF F!TicketAfter
    <2> HIDE DEF Rows
    <2> QED
        BY <1>7, <1>8, <2>1 DEF Rows
<1>9. CASE m.kind = "edit" \/ m.kind = "level"
    <2>1. t = tl
        BY <1>6, <1>9 DEF F!TicketAfter
    <2> QED
        BY <1>3, <1>9, <2>1
<1>10. CASE m.kind = "status"
    <2>1. t = ts
        BY <1>6, <1>10 DEF F!TicketAfter
    <2> QED
        BY <1>4, <1>10, <2>1
<1>11. CASE m.kind = "withdraw"
    <2>1. t = tw
        BY <1>6, <1>11 DEF F!TicketAfter
    <2> QED
        BY <1>5, <1>11, <2>1
<1>12. CASE m.kind = "comment"
    <2>1. t = ticket
        BY <1>12 DEF F!TicketAfter
    <2> QED
        BY <1>1, <1>12, <2>1
<1> QED
    BY <1>8, <1>9, <1>10, <1>11, <1>12 DEF F!Kinds

LEMMA CommitsKeep ==
    ASSUME TicketTyped, F!RecordedOnce, NEW m \in Request, m.kind \in F!Kinds,
           m.kind = "create" => ticket.version = 0,
           Unrecorded(m.added, m.draft), F!Commits(m)
    PROVE  /\ ServerKeeps(m.added, m.draft)
           /\ ticket'.version = IF m.kind = "comment" THEN ticket.version ELSE ticket.version + 1
<1> DEFINE A == m.added
           d0 == m.draft
<1>1. /\ ticket' = F!TicketAfter(m) /\ rows' = F!RowsAfter(m) /\ files' = F!FilesWith(A, {})
      /\ posted' = [d \in DOMAIN posted |-> posted[d] + IF d = d0 THEN 1 ELSE 0]
    BY DEF F!Commits
<1>2. A \subseteq Groups /\ d0 \in Nat
    BY DEF Request
<1>3. /\ ticket' \in [version : Nat, status : F!Statuses, level : F!Levels]
      /\ ticket'.version = IF m.kind = "comment" THEN ticket.version ELSE ticket.version + 1
      /\ m.kind = "comment" => ticket' = ticket
    BY <1>1, TicketAfterFacts
<1>4. /\ rows \in [Groups -> {"none", "body", "comment", "removed", "purged"}]
      /\ files \in [Groups -> {"none", "staged", "stored"}]
      /\ posted \in [1..MaxDrafts -> Nat] /\ ticket.version \in Nat
    BY DEF TicketTyped
<1>5. \A i \in A : rows[i] = "none"
    BY DEF Unrecorded
<1> HIDE DEF A, d0
<1>6. /\ rows' \in [Groups -> {"none", "body", "comment", "removed", "purged"}]
      /\ \A i \in Groups : i \notin A => rows'[i] \in {rows[i], "removed"}
      /\ \A i \in Groups : i \notin A /\ rows[i] = "none" => rows'[i] = "none"
      /\ m.kind = "comment" => \A i \in Groups : rows'[i] = "body" <=> rows[i] = "body"
    <2>1. rows' = [i \in Groups |->
              IF i \in A THEN (IF m.kind = "comment" THEN "comment" ELSE "body")
              ELSE IF m.kind = "edit" /\ rows[i] = "body" /\ i \notin m.kept THEN "removed"
              ELSE rows[i]]
        BY <1>1 DEF F!RowsAfter, A
    <2> QED
        BY <1>4, <1>5, <2>1
<1>7. /\ files' \in [Groups -> {"none", "staged", "stored"}]
      /\ \A i \in A : files'[i] = "stored"
      /\ \A i \in Groups : i \notin A => files'[i] = files[i]
    <2>1. files' = [i \in Groups |-> IF i \in A THEN "stored" ELSE IF i \in {} THEN "staged" ELSE files[i]]
        BY <1>1 DEF F!FilesWith
    <2> QED
        BY <1>2, <1>4, <2>1 DEF A
<1>8. /\ posted' \in [1..MaxDrafts -> Nat]
      /\ \A d \in 1..MaxDrafts : d # d0 => posted'[d] = posted[d]
      /\ d0 \in 1..MaxDrafts => posted'[d0] = posted[d0] + 1
    BY <1>1, <1>4
<1>9. F!RecordedOnce'
    <2>1. ASSUME NEW i \in Groups, rows'[i] \in {"body", "comment"} PROVE files'[i] = "stored"
        <3>1. CASE i \in A
            BY <1>7, <3>1
        <3>2. CASE i \notin A
            <4>1. rows[i] \in {"body", "comment"}
                BY <1>6, <2>1, <3>2
            <4> QED
                BY <1>7, <3>2, <4>1 DEF F!RecordedOnce
        <3> QED
            BY <3>1, <3>2
    <2>2. ASSUME NEW d \in 1..MaxDrafts PROVE posted'[d] <= 1
        <3>1. CASE d = d0
            <4>1. posted[d0] = 0
                BY <1>4, <3>1 DEF Unrecorded, d0
            <4> QED
                BY <1>8, <3>1, <4>1
        <3>2. CASE d # d0
            BY <1>4, <1>8, <3>2 DEF F!RecordedOnce
        <3> QED
            BY <3>1, <3>2
    <2>3. DOMAIN posted' = 1..MaxDrafts
        BY <1>8
    <2> QED
        BY <2>1, <2>2, <2>3 DEF F!RecordedOnce
<1>10. ticket.version <= ticket'.version
    BY <1>3, <1>4
<1>11. ticket'.version = ticket.version => ticket' = ticket /\ F!BodyImages' = F!BodyImages
    <2> SUFFICES ASSUME ticket'.version = ticket.version
                 PROVE  ticket' = ticket /\ F!BodyImages' = F!BodyImages
        OBVIOUS
    <2>1. m.kind = "comment" /\ ticket' = ticket
        BY <1>3, <1>4
    <2>2. F!BodyImages' = F!BodyImages
        BY <1>6, <2>1 DEF F!BodyImages
    <2> QED
        BY <2>1, <2>2
<1> QED
    BY <1>3, <1>6, <1>7, <1>8, <1>9, <1>10, <1>11 DEF ServerKeeps, A, d0

LEMMA StillKeeps ==
    ASSUME TicketTyped, F!RecordedOnce, UNCHANGED <<ticket, rows, files, posted>>
    PROVE  ServerKeeps({}, 0)
<1>1. F!RecordedOnce'
    BY DEF F!RecordedOnce
<1>2. F!BodyImages' = F!BodyImages
    BY DEF F!BodyImages
<1> QED
    BY <1>1, <1>2 DEF ServerKeeps, TicketTyped

LEMMA FilesKeep ==
    ASSUME TicketTyped, F!RecordedOnce, UNCHANGED <<ticket, rows, posted>>,
           files' \in [Groups -> {"none", "staged", "stored"}],
           \A i \in Groups : rows[i] \in {"body", "comment"} /\ files[i] = "stored" => files'[i] = "stored"
    PROVE  ServerKeeps({}, 0)
<1>1. F!RecordedOnce'
    BY DEF F!RecordedOnce
<1>2. F!BodyImages' = F!BodyImages
    BY DEF F!BodyImages
<1> QED
    BY <1>1, <1>2 DEF ServerKeeps, TicketTyped

\* What a stopped request leaves on disk belongs to no image that is recorded.
LEMMA InterruptedKeeps ==
    ASSUME TicketTyped, F!RecordedOnce, NEW m \in Request, Unrecorded(m.added, m.draft),
           F!Interrupted(m)
    PROVE  ServerKeeps({}, 0)
<1>1. PICK stored \in SUBSET m.added, staged \in SUBSET m.added : files' = F!FilesWith(stored, staged)
    BY DEF F!Interrupted
<1>2. files' = [i \in Groups |-> IF i \in stored THEN "stored"
                                 ELSE IF i \in staged THEN "staged" ELSE files[i]]
    BY <1>1 DEF F!FilesWith
<1>3. files' \in [Groups -> {"none", "staged", "stored"}]
    BY <1>2 DEF TicketTyped
<1>4. ASSUME NEW i \in Groups, rows[i] \in {"body", "comment"}, files[i] = "stored"
      PROVE  files'[i] = "stored"
    BY <1>2, <1>4 DEF Unrecorded
<1> QED
    BY <1>3, <1>4, FilesKeep DEF F!Interrupted

LEMMA PurgeKeeps ==
    ASSUME TicketTyped, F!RecordedOnce, F!Purge \/ F!DropStaged
    PROVE  ServerKeeps({}, 0)
<1>1. CASE F!DropStaged
    <2>1. files' = [i \in Groups |-> IF files[i] = "staged" THEN "none" ELSE files[i]]
        BY <1>1 DEF F!DropStaged
    <2> QED
        BY <1>1, <2>1, FilesKeep DEF F!DropStaged, TicketTyped
<1>2. CASE F!Purge
    <2>1. PICK i \in Groups :
              /\ rows[i] = "removed"
              /\ files' \in {files, [files EXCEPT ![i] = "none"]}
              /\ rows' \in {rows, [rows EXCEPT ![i] = "purged"]}
              /\ UNCHANGED <<ticket, posted>>
        BY <1>2 DEF F!Purge
    <2>2. /\ rows \in [Groups -> {"none", "body", "comment", "removed", "purged"}]
          /\ files \in [Groups -> {"none", "staged", "stored"}]
        BY DEF TicketTyped
    <2>3. /\ rows' \in [Groups -> {"none", "body", "comment", "removed", "purged"}]
          /\ files' \in [Groups -> {"none", "staged", "stored"}]
          /\ \A j \in Groups : j # i => rows'[j] = rows[j] /\ files'[j] = files[j]
          /\ rows'[i] \in {"removed", "purged"}
        BY <2>1, <2>2
    <2>4. F!RecordedOnce'
        <3>1. \A j \in Groups : rows'[j] \in {"body", "comment"} => files'[j] = "stored"
            BY <2>1, <2>3 DEF F!RecordedOnce
        <3> QED
            BY <2>1, <3>1 DEF F!RecordedOnce
    <2>5. F!BodyImages' = F!BodyImages
        BY <2>1, <2>3 DEF F!BodyImages
    <2> QED
        BY <2>1, <2>3, <2>4, <2>5 DEF ServerKeeps, TicketTyped
<1> QED
    BY <1>1, <1>2

LEMMA OthersKeepTicket ==
    ASSUME TicketTyped, F!RecordedOnce, F!Others
    PROVE  ServerKeeps({}, 0) /\ ticket.version > 0
<1>1. PICK kind \in F!Kinds \ {"create", "comment"}, level \in F!Levels, status \in F!Statuses,
           kept \in SUBSET F!BodyImages :
          F!Commits([F!Message(kind, ticket.version, F!Snapshot) EXCEPT
                        !.level = level, !.status = status, !.kept = kept])
    BY DEF F!Others
<1> DEFINE m0 == F!Message(kind, ticket.version, F!Snapshot)
           m1 == [m0 EXCEPT !.level = level]
           m2 == [m1 EXCEPT !.status = status]
           m3 == [m2 EXCEPT !.kept = kept]
<1>2. ticket.version \in Nat /\ F!Snapshot \in Snap /\ kept \subseteq Groups
      /\ kind \in F!Kinds \cup {"none"}
    BY <1>1, SnapshotType DEF TicketTyped, F!BodyImages
<1>3. m0 \in Request /\ m0.kind = kind /\ m0.added = {} /\ m0.draft = 0
    BY <1>2 DEF F!Message, Request, F!Statuses, F!Levels
<1> HIDE DEF m0
<1>4. m1 \in Request /\ m1.kind = kind /\ m1.added = {} /\ m1.draft = 0
    BY <1>3 DEF Request
<1> HIDE DEF m1
<1>5. m2 \in Request /\ m2.kind = kind /\ m2.added = {} /\ m2.draft = 0
    BY <1>4 DEF Request
<1> HIDE DEF m2
<1>6. m3 \in Request /\ m3.kind = kind /\ m3.added = {} /\ m3.draft = 0
    BY <1>2, <1>5 DEF Request
<1>7. F!Commits(m3)
    BY <1>1, Zenon DEF m0, m1, m2, m3
<1> HIDE DEF m3
<1>8. Unrecorded(m3.added, m3.draft)
    BY <1>6 DEF Unrecorded, TicketTyped
<1>9. ServerKeeps(m3.added, m3.draft)
    BY <1>1, <1>6, <1>7, <1>8, CommitsKeep
<1> QED
    BY <1>6, <1>9 DEF F!Others


-----------------------------------------------------------------------------
(* Tickets: steps the page does not take *)

LEMMA TicketFacts ==
    ASSUME TicketTyped
    PROVE  /\ ticket.version \in Nat
           /\ view \in Viewing /\ view.added \subseteq Groups /\ view.draft \in Nat
           /\ view.shown \in Snap /\ view.base \in Nat
           /\ editor \in Dialog /\ editor.added \subseteq Groups /\ editor.saved \in Snap
           /\ EditorDraft \in {0, 1} /\ EditorKind \in {"create", "edit"}
           /\ sending \in Sending /\ sending.m \in Request /\ sending.reply \in Snap
           /\ sending.m.added \subseteq Groups /\ sending.m.draft \in Nat
           /\ late \in Request /\ late.added \subseteq Groups /\ late.draft \in Nat
BY DEF TicketTyped, Viewing, Dialog, Sending, Request, EditorDraft, EditorKind

LEMMA NothingLate ==
    ASSUME TicketTyped
    PROVE  /\ Unrecorded(F!NoMessage.added, F!NoMessage.draft)
           /\ F!NoMessage.kind # "create" /\ ReplacesSeen(F!NoMessage)
           /\ \A A, d : A \cap F!NoMessage.added = {} /\ (d # 0 => F!NoMessage.draft # d)
BY NoMessageType DEF Unrecorded, TicketTyped, ReplacesSeen

\* The server takes a late request or none of the page's; the page may be read.
LEMMA ReadingKeeps ==
    ASSUME TicketInv, NEW images, NEW draft, ServerKeeps(images, draft),
           UNCHANGED <<role, view, editor, sending, unsure>>, writes' \in Nat,
           \/ images = {} /\ draft = 0 /\ late' \in {late, F!NoMessage}
              /\ (ticket.version = 0 => ticket'.version = 0)
           \/ images = late.added /\ draft = late.draft /\ late' = F!NoMessage
              /\ late # F!NoMessage /\ ticket'.version > 0
              /\ (ticket.version = 0 => late.kind = "create"),
           loading' \in Reading,
           loading'.stage = "served" => loading' = loading \/ Accurate(loading.got)',
           ticket'.version = 0 => loading' \in {loading, F!NotLoading}
    PROVE  TicketInv'
<1> USE DEF TicketInv
<1>1. TicketTyped /\ F!RecordedOnce /\ F!RecordedOnce'
    BY DEF ServerKeeps
<1>2. late' = late \/ late' = F!NoMessage
    OBVIOUS
<1>3. TicketTyped'
    BY <1>1, <1>2, NoMessageType DEF TicketTyped, ServerKeeps
<1>4. BeforeTicket'
    <2> SUFFICES ASSUME ticket'.version = 0 PROVE BeforeTicket'
        BY DEF BeforeTicket
    <2>1. ticket.version = 0
        BY TicketFacts DEF ServerKeeps
    <2>2. images = {} /\ draft = 0
        OBVIOUS
    <2>3. DOMAIN posted' = 1..MaxDrafts /\ DOMAIN posted = 1..MaxDrafts /\ 0 \notin 1..MaxDrafts
        BY DEF TicketTyped, ServerKeeps
    <2>4. \A d \in DOMAIN posted' : posted'[d] = 0
        BY <2>1, <2>2, <2>3 DEF ServerKeeps, BeforeTicket
    <2>5. late' # F!NoMessage => late'.kind = "create"
        BY <1>2, <2>1 DEF BeforeTicket
    <2>6. view = F!FreshView /\ loading = F!NotLoading /\ editor.saved.version = 0
          /\ (sending.stage # "idle" => sending.stage = "sent" /\ sending.m.kind = "create")
        BY <2>1 DEF BeforeTicket
    <2>7. view' = F!FreshView /\ loading' = F!NotLoading
        BY <2>6
    <2> QED
        BY <2>4, <2>5, <2>6, <2>7 DEF BeforeTicket
<1>5. ASSUME NEW A \in SUBSET Groups, NEW d \in Nat, Unrecorded(A, d), Apart(A, d)
      PROVE  Unrecorded(A, d)' /\ Apart(A, d)'
    <2>1. Unrecorded(A, d)'
        BY <1>1, <1>5, KeptUnrecorded DEF Apart
    <2>2. Apart(A, d)'
        BY <1>1, <1>2, <1>5, NoMessageType DEF Apart
    <2> QED
        BY <2>1, <2>2
<1>6. ticket'.version = ticket.version \/ ticket.version > 0 \/ "create" \in unsure
    BY TicketFacts DEF LateUnrecorded
<1>7. DraftsUnsent'
    <2>1. /\ editor.open =>
              \/ EditorKind \in unsure
              \/ sending.stage = "done" /\ sending.m.kind = EditorKind
              \/ /\ Unrecorded(editor.added, EditorDraft)' /\ Apart(editor.added, EditorDraft)'
                 /\ EditorKind = "create" => ticket.version = 0
        <3>1. CASE Unrecorded(editor.added, EditorDraft) /\ Apart(editor.added, EditorDraft)
            BY <1>5, <3>1, TicketFacts DEF Unrecorded, Apart, DraftsUnsent, EditorDraft
        <3> QED
            BY <3>1 DEF DraftsUnsent
    <2>2. \/ "comment" \in unsure
          \/ sending.stage = "done" /\ sending.m.kind = "comment"
          \/ Unrecorded(view.added, view.draft)' /\ Apart(view.added, view.draft)'
        BY <1>5, TicketFacts DEF Unrecorded, Apart, DraftsUnsent
    <2> QED
        BY <1>6, <2>1, <2>2 DEF DraftsUnsent, EditorKind, EditorDraft
<1>8. RequestIsDraft'
    <2>1. OutNow => Unrecorded(sending.m.added, sending.m.draft)' /\ Apart(sending.m.added, sending.m.draft)'
        BY <1>5, TicketFacts DEF Unrecorded, Apart, RequestIsDraft
    <2> QED
        BY <1>6, <2>1 DEF RequestIsDraft, EditorKind, EditorDraft, OutNow
<1>9. LateUnrecorded'
    <2>1. CASE late' = F!NoMessage
        <3>1. late'.added = {} /\ late'.draft = 0 /\ late'.kind = "none"
            BY <2>1, NoMessageType
        <3>2. DOMAIN posted' = 1..MaxDrafts /\ 0 \notin 1..MaxDrafts
            BY <1>3 DEF TicketTyped
        <3> QED
            BY <3>1, <3>2 DEF LateUnrecorded, Unrecorded
    <2>2. CASE late' = late /\ images = {} /\ draft = 0 /\ (ticket.version = 0 => ticket'.version = 0)
        <3>1. Unrecorded(late.added, late.draft)'
            <4>1. \A A \in SUBSET Groups, d \in Nat : Unrecorded(A, d) => Unrecorded(A, d)'
                BY <1>1, <2>2, KeptUnrecorded
            <4> QED
                BY <2>2, <4>1, TicketFacts DEF LateUnrecorded, Unrecorded
        <3> QED
            BY <2>2, <3>1 DEF LateUnrecorded, Unrecorded
    <2> QED
        BY <2>1, <2>2
<1>10. SeenTrue'
    <2>1. \A s \in Snap : Accurate(s) => Accurate(s)'
        BY <1>1, KeptAccurate
    <2>2. \A m \in Request : ReplacesSeen(m) => ReplacesSeen(m)'
        BY <1>1, KeptSeen
    <2>3. Accurate(view.shown)' /\ Accurate(editor.saved)'
          /\ (sending.stage = "done" => Accurate(sending.reply)')
        BY <2>1, TicketFacts DEF SeenTrue, Accurate
    <2>4. loading'.stage = "served" => Accurate(loading.got)'
        <3>1. loading.stage = "served" => loading.got \in Snap /\ Accurate(loading.got)
            BY DEF SeenTrue, TicketTyped, Reading
        <3>2. loading.stage = "served" /\ loading' = loading => Accurate(loading.got)'
            BY <2>1, <3>1 DEF Accurate
        <3> QED
            BY <3>2 DEF Accurate
    <2>5. sending.stage \notin {"idle", "done"} => ReplacesSeen(sending.m)'
        BY <2>2, TicketFacts DEF SeenTrue, ReplacesSeen
    <2>6. ReplacesSeen(late)'
        <3>1. CASE late' = late
            BY <2>2, <3>1, TicketFacts DEF SeenTrue, ReplacesSeen
        <3>2. CASE late' = F!NoMessage
            BY <3>2, NoMessageType DEF ReplacesSeen
        <3> QED
            BY <1>2, <3>1, <3>2
    <2>7. role = "admin" =>
              /\ view.base <= view.shown.version
              /\ view.choice # "none" /\ view.base = ticket'.version => view.began = ticket'.status
              /\ sending.stage = "done" => view.shown.version <= sending.reply.version
        <3>1. CASE ticket'.version = ticket.version
            BY <3>1 DEF SeenTrue, ServerKeeps
        <3>2. CASE ticket'.version # ticket.version
            <4>1. view.shown.version <= ticket.version /\ ticket.version < ticket'.version
                BY <3>2, TicketFacts DEF SeenTrue, Accurate, ServerKeeps
            <4> QED
                BY <4>1, TicketFacts DEF SeenTrue, Snap, ServerKeeps
        <3> QED
            BY <3>1, <3>2
    <2> QED
        BY <2>3, <2>4, <2>5, <2>6, <2>7 DEF SeenTrue, Accurate, ReplacesSeen
<1>11. EditorFollows'
    BY DEF EditorFollows, F!Dirty
<1> QED
    BY <1>1, <1>3, <1>4, <1>7, <1>8, <1>9, <1>10, <1>11

-----------------------------------------------------------------------------
(* Tickets: the page gives its drafts back *)

LEMMA OpenedFacts ==
    ASSUME NEW saved \in Snap, NEW e, e = F!Opened(saved)
    PROVE  e \in Dialog /\ e.open /\ e.saved = saved /\ e.added = {} /\ ~F!Dirty(e)
BY DEF F!Opened, Dialog, Snap, F!Dirty

LEMMA ClosedFacts ==
    F!Closed \in Dialog /\ ~F!Closed.open /\ F!Closed.saved.version = 0 /\ F!Closed.added = {}
    /\ F!Closed.saved = F!Nothing
BY NothingType DEF F!Closed, Dialog, F!Levels

LEMMA IdleFacts ==
    F!Idle \in Sending /\ F!Idle.stage = "idle" /\ F!Idle.m = F!NoMessage
BY NothingType, NoMessageType DEF F!Idle, Sending, Stages

LEMMA LoadingFacts ==
    /\ F!Loading \in Reading /\ F!Loading.stage = "asked"
    /\ F!NotLoading \in Reading /\ F!NotLoading.stage = "none"
BY NothingType DEF F!Loading, F!NotLoading, Reading

LEMMA FreshFacts ==
    /\ F!FreshView \in Viewing /\ F!FreshView.shown = F!Nothing /\ F!FreshView.choice = "none"
    /\ F!FreshView.base = 0 /\ F!FreshView.draft = 0 /\ F!FreshView.added = {}
BY NothingType DEF F!FreshView, Viewing, F!Statuses

LEMMA NothingAccurate == TicketTyped /\ ticket.version > 0 => Accurate(F!Nothing)
BY NothingType DEF Accurate, TicketTyped

LEMMA SyncedFacts ==
    ASSUME NEW e \in Dialog, NEW shown \in Snap, NEW s, s = F!Synced(e, shown)
    PROVE  /\ s \in Dialog /\ s.open = e.open /\ s.added = e.added
           /\ s.saved \in {e.saved, shown} /\ (s.saved.version = 0 <=> e.saved.version = 0)
           /\ s.open /\ s.saved.version > 0 /\ ~F!Dirty(s) => s.saved.version >= shown.version
           /\ F!Dirty(e) => s = e
<1>1. CASE e.open /\ shown.version > e.saved.version /\ e.saved.version > 0 /\ ~F!Dirty(e)
    <2>1. s = F!Opened(shown)
        BY <1>1 DEF F!Synced
    <2>2. s \in Dialog /\ s.open /\ s.saved = shown /\ s.added = {} /\ ~F!Dirty(s)
        BY <2>1, OpenedFacts
    <2>3. e.added = {}
        BY <1>1 DEF F!Dirty
    <2>4. shown.version \in Nat /\ e.saved.version \in Nat
        BY DEF Snap, Dialog
    <2>5. e.open = TRUE /\ s.open = TRUE
        BY <1>1, <2>2 DEF Dialog
    <2> QED
        BY <1>1, <2>2, <2>3, <2>4, <2>5
<1>2. CASE ~(e.open /\ shown.version > e.saved.version /\ e.saved.version > 0 /\ ~F!Dirty(e))
    <2>1. s = e
        BY <1>2 DEF F!Synced
    <2>2. shown.version \in Nat /\ e.saved.version \in Nat
        BY DEF Snap, Dialog
    <2> QED
        BY <1>2, <2>1, <2>2
<1> QED
    BY <1>1, <1>2

\* The request that is under way ends, refused or given up; what is drafted stays.
LEMMA DraftsBack ==
    ASSUME TicketInv, ServerKeeps({}, 0), UNCHANGED <<ticket, rows, posted, role, view>>,
           writes' \in Nat, sending.stage \notin {"idle", "asking"}, sending' = F!Idle,
           editor' = F!Synced(editor, view.shown),
           unsure' \subseteq F!Kinds, unsure \subseteq unsure',
           sending.stage = "done" => sending.m.kind \in unsure',
           late' = late \/ (late' = sending.m /\ sending.stage = "sent" /\ sending.m.kind \in unsure'),
           loading' \in {loading, F!NotLoading} \/ (loading' = F!Loading /\ sending.m.kind # "create")
    PROVE  TicketInv'
<1> USE DEF TicketInv
<1>1. TicketTyped /\ F!RecordedOnce /\ F!RecordedOnce'
    BY DEF ServerKeeps
<1>2. /\ editor' \in Dialog /\ editor'.open = editor.open /\ editor'.added = editor.added
      /\ editor'.saved \in {editor.saved, view.shown}
      /\ (editor'.saved.version = 0 <=> editor.saved.version = 0)
      /\ editor'.open /\ editor'.saved.version > 0 /\ ~F!Dirty(editor')
            => editor'.saved.version >= view.shown.version
    BY SyncedFacts, TicketFacts
<1>3. /\ sending' \in Sending /\ sending'.stage = "idle"
      /\ loading' \in Reading /\ (loading'.stage = "served" => loading' = loading)
    BY <1>1, IdleFacts, LoadingFacts DEF TicketTyped
<1>4. TicketTyped'
    BY <1>1, <1>2, <1>3 DEF TicketTyped, ServerKeeps, Sending
<1>5. ticket.version = 0 => sending.m.kind = "create" /\ loading' = F!NotLoading
    BY DEF BeforeTicket
<1>6. BeforeTicket'
    BY <1>2, <1>3, <1>5 DEF BeforeTicket
<1>7. EditorKind' = EditorKind /\ EditorDraft' = EditorDraft
    BY <1>2 DEF EditorKind, EditorDraft
<1>8. sending.m.kind \in unsure' \/ late' = late
    OBVIOUS
<1>9. \/ /\ sending.m.kind = EditorKind /\ editor.open
         /\ sending.m.added = editor.added /\ sending.m.draft = EditorDraft
      \/ /\ sending.m.kind = "comment" /\ ~editor.open
         /\ sending.m.added = view.added /\ sending.m.draft = view.draft
      \/ /\ sending.m.kind \in {"status", "level", "withdraw"} /\ ~editor.open
         /\ sending.m.added = {} /\ sending.m.draft = 0
    BY DEF RequestIsDraft
<1>10. DraftsUnsent'
    <2>1. editor.open =>
              \/ EditorKind \in unsure'
              \/ /\ Unrecorded(editor.added, EditorDraft) /\ Apart(editor.added, EditorDraft) /\ late' = late
                 /\ EditorKind = "create" => ticket.version = 0
        BY <1>8, <1>9, TicketFacts DEF DraftsUnsent
    <2>2. \/ "comment" \in unsure'
          \/ Unrecorded(view.added, view.draft) /\ Apart(view.added, view.draft)
        BY DEF DraftsUnsent
    <2>3. "comment" \in unsure' \/ (view.added \cap late'.added = {} /\ (view.draft # 0 => late'.draft # view.draft))
        <3>1. CASE late' = late
            BY <2>2, <3>1 DEF Apart
        <3>2. CASE late' = sending.m /\ sending.stage = "sent" /\ sending.m.kind \in unsure'
            <4>1. CASE sending.m.kind = EditorKind /\ sending.m.added = editor.added /\ sending.m.draft = EditorDraft
                <5>1. EditorDraft # 0 => view.draft = 0
                    BY <3>2, <4>1, FreshFacts DEF RequestIsDraft, OutNow, BeforeTicket, EditorDraft, EditorKind
                <5>2. view.added \cap editor.added = {}
                    BY DEF DraftsUnsent
                <5> QED
                    BY <3>2, <4>1, <5>1, <5>2
            <4> QED
                BY <1>9, <3>2, <4>1
        <3> QED
            BY <3>1, <3>2
    <2> QED
        BY <1>2, <1>7, <2>1, <2>2, <2>3 DEF DraftsUnsent, Unrecorded, Apart
<1>11. RequestIsDraft'
    BY <1>3 DEF RequestIsDraft, OutNow
<1>12. LateUnrecorded'
    BY DEF LateUnrecorded, RequestIsDraft, OutNow, Unrecorded
<1>13. SeenTrue'
    <2>1. F!Snapshot' = F!Snapshot /\ F!BodyImages' = F!BodyImages
        BY DEF F!Snapshot, F!BodyImages
    <2>2. ReplacesSeen(late)'
        <3>1. ReplacesSeen(late) /\ (sending.stage = "sent" => ReplacesSeen(sending.m))
            BY DEF SeenTrue
        <3> QED
            BY <2>1, <3>1 DEF ReplacesSeen
    <2> QED
        BY <1>2, <1>3, <2>1, <2>2 DEF SeenTrue, Accurate
<1>14. EditorFollows'
    BY <1>2 DEF EditorFollows
<1> QED
    BY <1>1, <1>4, <1>6, <1>10, <1>11, <1>12, <1>13, <1>14

-----------------------------------------------------------------------------
(* Tickets: drafting *)

\* What a page may change while the server and its own request stand still: the drafts, by
\* files nobody has sent, and what is shown, by what was read.
LEMMA DraftingKeeps ==
    ASSUME TicketInv, UNCHANGED <<ticket, rows, files, posted, role, sending, late, unsure, writes>>,
           view' \in Viewing, editor' \in Dialog, loading' \in {loading, F!NotLoading},
           view'.added \cap editor'.added = {},
           editor'.open => role = "owner",
           ~editor'.open => editor'.added = {},
           \/ view'.added = view.added /\ view'.draft = view.draft
           \/ /\ sending.stage = "idle" /\ ticket.version > 0
              /\ \/ "comment" \in unsure
                 \/ Unrecorded(view.added, view.draft)' /\ Apart(view.added, view.draft)',
           \/ /\ editor'.open = editor.open /\ editor'.added = editor.added
              /\ editor'.saved.version = 0 <=> editor.saved.version = 0
           \/ /\ sending.stage = "idle" /\ editor'.open
              /\ \/ EditorKind' \in unsure
                 \/ /\ Unrecorded(editor.added, EditorDraft)' /\ Apart(editor.added, EditorDraft)'
                    /\ EditorKind' = "create" => ticket.version = 0,
           ticket.version = 0 => view' = view /\ editor'.saved.version = 0,
           Accurate(view'.shown), Accurate(editor'.saved),
           role = "admin" =>
              /\ view'.base <= view'.shown.version
              /\ view'.choice # "none" /\ view'.base = ticket.version => view'.began = ticket.status
              /\ sending.stage = "done" => view'.shown.version <= sending.reply.version,
           editor'.open /\ editor'.saved.version > 0 /\ ~F!Dirty(editor') /\ sending = F!Idle
               => editor'.saved.version >= view'.shown.version
    PROVE  TicketInv'
<1> USE DEF TicketInv
<1>1. F!RecordedOnce'
    BY DEF F!RecordedOnce
<1>2. loading' \in Reading /\ (loading'.stage = "served" => loading' = loading)
    BY LoadingFacts DEF TicketTyped
<1>3. TicketTyped'
    BY <1>2 DEF TicketTyped
<1>4. BeforeTicket'
    BY DEF BeforeTicket
<1>5. DraftsUnsent'
    <2>1. editor'.open =>
              \/ EditorKind' \in unsure
              \/ sending.stage = "done" /\ sending.m.kind = EditorKind'
              \/ /\ Unrecorded(editor.added, EditorDraft)' /\ Apart(editor.added, EditorDraft)'
                 /\ EditorKind' = "create" => ticket.version = 0
        BY DEF DraftsUnsent, Unrecorded, Apart, EditorKind, EditorDraft
    <2>2. \/ "comment" \in unsure
          \/ sending.stage = "done" /\ sending.m.kind = "comment"
          \/ Unrecorded(view.added, view.draft)' /\ Apart(view.added, view.draft)'
        BY DEF DraftsUnsent, Unrecorded, Apart
    <2>3. role = "admin" => ~editor'.open
        OBVIOUS
    <2> QED
        BY <2>1, <2>2, <2>3 DEF DraftsUnsent
<1>6. RequestIsDraft'
    BY DEF RequestIsDraft, OutNow, Unrecorded, Apart, EditorKind, EditorDraft
<1>7. LateUnrecorded'
    BY DEF LateUnrecorded, Unrecorded
<1>8. SeenTrue'
    BY <1>2 DEF SeenTrue, Accurate, ReplacesSeen, F!Snapshot, F!BodyImages
<1>9. EditorFollows'
    BY DEF EditorFollows
<1> QED
    BY <1>1, <1>3, <1>4, <1>5, <1>6, <1>7, <1>8, <1>9

LEMMA ShowKeeps ==
    ASSUME TicketInv, F!Show
    PROVE  TicketInv'
<1> USE DEF TicketInv
<1>1. loading.stage = "served" /\ loading.got \in Snap /\ Accurate(loading.got) /\ loading' = F!NotLoading
    BY DEF F!Show, SeenTrue, TicketTyped, Reading
<1>2. ticket.version # 0
    BY <1>1, LoadingFacts DEF BeforeTicket
<1>3. view \in Viewing /\ editor \in Dialog /\ view.shown \in Snap /\ view.base \in Nat
    BY TicketFacts
<1> DEFINE shown == IF view.shown.version > loading.got.version THEN view.shown ELSE loading.got
           v1 == [view EXCEPT !.shown = shown]
           v2 == [v1 EXCEPT !.base = F!BaseAfter(loading.got)]
<1>4. shown \in Snap /\ Accurate(shown)
      /\ shown.version >= view.shown.version /\ shown.version >= loading.got.version
    BY <1>1, <1>3 DEF SeenTrue, Snap
<1> HIDE DEF shown
<1>5. F!BaseAfter(loading.got) \in Nat
      /\ (F!BaseAfter(loading.got) = view.base
          \/ (view.choice = "none" /\ F!BaseAfter(loading.got) = loading.got.version))
    BY <1>1, <1>3 DEF F!BaseAfter, Snap
<1>6. /\ v1 \in Viewing /\ v1.shown = shown /\ v1.choice = view.choice /\ v1.began = view.began
      /\ v1.draft = view.draft /\ v1.added = view.added
    BY <1>3, <1>4 DEF Viewing
<1> HIDE DEF v1
<1>7. /\ v2 \in Viewing /\ v2.shown = shown /\ v2.choice = view.choice /\ v2.began = view.began
      /\ v2.draft = view.draft /\ v2.added = view.added /\ v2.base = F!BaseAfter(loading.got)
    BY <1>5, <1>6 DEF Viewing
<1>8. \/ F!Writing /\ view' = view /\ editor' = editor
      \/ /\ ~F!Writing /\ view' = v2
         /\ editor' = IF F!Free THEN F!Synced(editor, shown) ELSE editor
    BY Zenon DEF F!Show, shown, v1, v2
<1> HIDE DEF v2
<1>9. UNCHANGED <<ticket, rows, files, posted, role, sending, late, unsure, writes>>
    BY DEF F!Show
<1>10. \/ F!Writing /\ view' = view /\ editor' = editor
       \/ /\ ~F!Writing /\ view' = v2
          /\ editor' \in Dialog /\ editor'.open = editor.open /\ editor'.added = editor.added
          /\ editor'.saved \in {editor.saved, shown}
          /\ (editor'.saved.version = 0 <=> editor.saved.version = 0)
          /\ F!Free /\ editor'.open /\ editor'.saved.version > 0 /\ ~F!Dirty(editor')
                => editor'.saved.version >= shown.version
    BY <1>3, <1>4, <1>8, SyncedFacts
<1>11. view' \in Viewing /\ view'.added = view.added /\ view'.draft = view.draft
       /\ editor' \in Dialog /\ editor'.open = editor.open /\ editor'.added = editor.added
       /\ (editor'.saved.version = 0 <=> editor.saved.version = 0)
    BY <1>3, <1>7, <1>10
<1>12. view.added \cap editor.added = {} /\ (editor.open => role = "owner") /\ (~editor.open => editor.added = {})
    BY DEF DraftsUnsent, TicketTyped
<1>13. Accurate(view.shown) /\ Accurate(editor.saved)
    BY DEF SeenTrue
<1>14. role = "admin" =>
              /\ view'.base <= view'.shown.version
              /\ view'.choice # "none" /\ view'.base = ticket.version => view'.began = ticket.status
              /\ sending.stage = "done" => view'.shown.version <= sending.reply.version
    <2> SUFFICES ASSUME role = "admin"
                 PROVE  /\ view'.base <= view'.shown.version
                        /\ view'.choice # "none" /\ view'.base = ticket.version => view'.began = ticket.status
                        /\ sending.stage = "done" => view'.shown.version <= sending.reply.version
        OBVIOUS
    <2>1. CASE view' = view
        BY <2>1 DEF SeenTrue
    <2>2. CASE ~F!Writing /\ view' = v2
        <3>1. sending.stage # "done"
            BY <1>12, <2>2 DEF F!Writing, RequestIsDraft, EditorKind
        <3>2. view'.base <= view'.shown.version
            BY <1>1, <1>3, <1>4, <1>5, <1>7, <2>2 DEF SeenTrue, Snap
        <3>3. view'.choice # "none" /\ view'.base = ticket.version => view'.began = ticket.status
            BY <1>5, <1>7, <2>2 DEF SeenTrue
        <3> QED
            BY <3>1, <3>2, <3>3
    <2> QED
        BY <1>8, <2>1, <2>2
<1>15. Accurate(view'.shown) /\ Accurate(editor'.saved)
    BY <1>4, <1>7, <1>10, <1>13
<1>16. editor'.open /\ editor'.saved.version > 0 /\ ~F!Dirty(editor') /\ sending = F!Idle
           => editor'.saved.version >= view'.shown.version
    <2>1. sending = F!Idle => F!Free
        BY IdleFacts DEF F!Free
    <2> QED
        BY <1>7, <1>10, <2>1, IdleFacts DEF EditorFollows, F!Writing
<1> QED
    BY <1>1, <1>2, <1>9, <1>11, <1>12, <1>14, <1>15, <1>16, DraftingKeeps

LEMMA OpenKeeps ==
    ASSUME TicketInv, F!OpenEditor
    PROVE  TicketInv'
<1> USE DEF TicketInv
<1>1. editor' = F!Opened(view.shown) /\ role = "owner" /\ sending.stage = "idle" /\ ~editor.open
      /\ UNCHANGED <<ticket, rows, files, posted, role, view, loading, sending, late, unsure, writes>>
    BY DEF F!OpenEditor, F!Free
<1>2. editor' \in Dialog /\ editor'.open /\ editor'.saved = view.shown /\ editor'.added = {}
    BY <1>1, OpenedFacts, TicketFacts
<1>3. (ticket.version = 0 => view.shown.version = 0) /\ (ticket.version > 0 => view.shown.version > 0)
    BY FreshFacts, NothingType, TicketFacts DEF F!OpenEditor, F!AtTicket, BeforeTicket
<1>4. ticket.version = 0 => late = F!NoMessage /\ \A d \in DOMAIN posted : posted[d] = 0
    BY FreshFacts, NothingType DEF F!OpenEditor, BeforeTicket, F!AtTicket
<1>5. Unrecorded(editor.added, EditorDraft)' /\ Apart(editor.added, EditorDraft)'
      /\ (EditorKind' = "create" => ticket.version = 0)
    <2>1. DOMAIN posted = 1..MaxDrafts /\ 0 \notin 1..MaxDrafts
        BY DEF TicketTyped
    <2>2. ticket.version \in Nat
        BY TicketFacts
    <2> QED
        BY <1>1, <1>2, <1>3, <1>4, <2>1, <2>2, NoMessageType
        DEF Unrecorded, Apart, EditorDraft, EditorKind
<1>6. Accurate(view.shown) /\ view \in Viewing /\ view.shown.version \in Nat
    BY TicketFacts DEF SeenTrue, Snap
<1>7. Accurate(view'.shown) /\ Accurate(editor'.saved)
    BY <1>1, <1>2, <1>6
<1>8. role = "admin" =>
              /\ view'.base <= view'.shown.version
              /\ view'.choice # "none" /\ view'.base = ticket.version => view'.began = ticket.status
              /\ sending.stage = "done" => view'.shown.version <= sending.reply.version
    BY <1>1
<1>9. editor'.saved.version >= view'.shown.version
    BY <1>1, <1>2, <1>6
<1>10. /\ view' \in Viewing /\ view'.added = view.added /\ view'.draft = view.draft /\ view' = view
       /\ view'.added \cap editor'.added = {} /\ (ticket.version = 0 => editor'.saved.version = 0)
    BY <1>1, <1>2, <1>3, <1>6
<1> QED
    BY <1>1, <1>2, <1>5, <1>7, <1>8, <1>9, <1>10, DraftingKeeps

LEMMA TypeKeeps ==
    ASSUME TicketInv, F!Type
    PROVE  TicketInv'
<1> USE DEF TicketInv
<1>1. sending.stage = "idle" /\ editor.open
      /\ UNCHANGED <<ticket, rows, files, posted, role, view, loading, sending, late, unsure, writes>>
    BY DEF F!Type, F!Free
<1>2. PICK level \in F!Levels, kept \in SUBSET editor.kept, files0 \in SUBSET (F!Unused \ view.added) :
          editor' = F!Synced([editor EXCEPT !.level = level, !.kept = kept, !.added = files0], view.shown)
    BY DEF F!Type
<1> DEFINE e1 == [editor EXCEPT !.level = level]
           e2 == [e1 EXCEPT !.kept = kept]
           e3 == [e2 EXCEPT !.added = files0]
<1>3. editor \in Dialog /\ view \in Viewing /\ view.shown \in Snap /\ files0 \subseteq Groups
    BY <1>2, TicketFacts DEF F!Unused
<1>4. e1 \in Dialog /\ e1.open = editor.open /\ e1.saved = editor.saved /\ e1.kept = editor.kept
    BY <1>3 DEF Dialog
<1> HIDE DEF e1
<1>5. e2 \in Dialog /\ e2.open = editor.open /\ e2.saved = editor.saved
    BY <1>4 DEF Dialog
<1> HIDE DEF e2
<1>6. e3 \in Dialog /\ e3.open = editor.open /\ e3.saved = editor.saved /\ e3.added = files0
    BY <1>3, <1>5 DEF Dialog
<1>7. editor' = F!Synced(e3, view.shown)
    BY <1>2, Zenon DEF e1, e2, e3
<1> HIDE DEF e3
<1>8. /\ editor' \in Dialog /\ editor'.open = e3.open /\ editor'.added = e3.added
      /\ editor'.saved \in {e3.saved, view.shown}
      /\ (editor'.saved.version = 0 <=> e3.saved.version = 0)
      /\ editor'.open /\ editor'.saved.version > 0 /\ ~F!Dirty(editor')
            => editor'.saved.version >= view.shown.version
    BY <1>3, <1>6, <1>7, SyncedFacts
<1>9. editor'.open = editor.open /\ editor'.added = files0
      /\ editor'.saved \in {editor.saved, view.shown}
      /\ (editor'.saved.version = 0 <=> editor.saved.version = 0)
    BY <1>6, <1>8
<1>10. EditorKind' = EditorKind /\ EditorDraft' = EditorDraft
    BY <1>9 DEF EditorKind, EditorDraft
<1>11. \/ EditorKind' \in unsure
       \/ /\ Unrecorded(editor.added, EditorDraft)' /\ Apart(editor.added, EditorDraft)'
          /\ EditorKind' = "create" => ticket.version = 0
    BY <1>1, <1>2, <1>9, <1>10 DEF DraftsUnsent, Unrecorded, Apart, F!Unused
<1>12. Accurate(view'.shown) /\ Accurate(editor'.saved)
    BY <1>1, <1>9 DEF SeenTrue
<1>13. role = "admin" =>
              /\ view'.base <= view'.shown.version
              /\ view'.choice # "none" /\ view'.base = ticket.version => view'.began = ticket.status
              /\ sending.stage = "done" => view'.shown.version <= sending.reply.version
    BY <1>1 DEF SeenTrue
<1>14. /\ view' \in Viewing /\ view'.added = view.added /\ view'.draft = view.draft /\ view' = view
       /\ view'.added \cap editor'.added = {} /\ (ticket.version = 0 => editor'.saved.version = 0)
       /\ editor'.open /\ role = "owner"
    BY <1>1, <1>2, <1>3, <1>9 DEF BeforeTicket, DraftsUnsent, TicketTyped
<1>15. editor'.open /\ editor'.saved.version > 0 /\ ~F!Dirty(editor') /\ sending = F!Idle
           => editor'.saved.version >= view'.shown.version
    BY <1>8, <1>14
<1> QED
    BY <1>1, <1>8, <1>11, <1>12, <1>13, <1>14, <1>15, DraftingKeeps

LEMMA ChooseKeeps ==
    ASSUME TicketInv, F!Choose
    PROVE  TicketInv'
<1> USE DEF TicketInv
<1>1. /\ role = "admin" /\ view.shown.version > 0
      /\ UNCHANGED <<ticket, rows, files, posted, role, editor, loading, sending, late, unsure, writes>>
    BY DEF F!Choose, F!AtTicket
<1>2. PICK s \in (F!Statuses \ {view.shown.status}) \cup {"none"} :
          view' = [view EXCEPT !.choice = s, !.began = IF view.choice = "none" THEN view.shown.status ELSE @]
    BY DEF F!Choose
<1> DEFINE v1 == [view EXCEPT !.choice = s]
           b == IF view.choice = "none" THEN view.shown.status ELSE view.began
           v2 == [v1 EXCEPT !.began = b]
<1>3. view \in Viewing /\ b \in F!Statuses /\ editor \in Dialog /\ view.shown \in Snap /\ view.base \in Nat
    BY TicketFacts DEF Viewing, Snap
<1>4. /\ v1 \in Viewing /\ v1.choice = s /\ v1.shown = view.shown /\ v1.base = view.base
      /\ v1.draft = view.draft /\ v1.added = view.added /\ v1.began = view.began
    BY <1>3 DEF Viewing
<1>5. view' = [v1 EXCEPT !.began = IF view.choice = "none" THEN view.shown.status ELSE @]
    BY <1>2, Zenon
<1> HIDE DEF v1
<1>6. view' = v2
    BY <1>4, <1>5
<1> HIDE DEF b
<1>7. /\ v2 \in Viewing /\ v2.choice = s /\ v2.shown = view.shown /\ v2.base = view.base
      /\ v2.draft = view.draft /\ v2.added = view.added /\ v2.began = b
    BY <1>3, <1>4 DEF Viewing
<1> HIDE DEF v2
<1>8. view.base = ticket.version /\ view.choice = "none" => view.shown.status = ticket.status
    <2>1. /\ view.base <= view.shown.version /\ view.shown.version <= ticket.version
          /\ view.shown.version = ticket.version => view.shown = F!Snapshot
        BY <1>1 DEF SeenTrue, Accurate
    <2> QED
        BY <1>3, <2>1, SnapshotType, TicketFacts DEF Snap
<1>9. role = "admin" =>
              /\ view'.base <= view'.shown.version
              /\ view'.choice # "none" /\ view'.base = ticket.version => view'.began = ticket.status
              /\ sending.stage = "done" => view'.shown.version <= sending.reply.version
    BY <1>6, <1>7, <1>8 DEF SeenTrue, b
<1>10. Accurate(view'.shown) /\ Accurate(editor'.saved)
    BY <1>1, <1>6, <1>7 DEF SeenTrue
<1>11. ticket.version # 0
    BY <1>1, FreshFacts, NothingType DEF BeforeTicket
<1>12. editor'.open /\ editor'.saved.version > 0 /\ ~F!Dirty(editor') /\ sending = F!Idle
           => editor'.saved.version >= view'.shown.version
    BY <1>1, <1>6, <1>7 DEF EditorFollows
<1>13. /\ view' \in Viewing /\ view'.added = view.added /\ view'.draft = view.draft
       /\ editor' \in Dialog /\ editor' = editor /\ view'.added \cap editor'.added = {}
       /\ (editor'.open => role = "owner") /\ (~editor'.open => editor'.added = {})
    BY <1>1, <1>3, <1>6, <1>7 DEF DraftsUnsent
<1> QED
    BY <1>1, <1>9, <1>10, <1>11, <1>12, <1>13, DraftingKeeps

LEMMA CommentKeeps ==
    ASSUME TicketInv, F!Comment
    PROVE  TicketInv'
<1> USE DEF TicketInv
<1>1. /\ sending.stage = "idle" /\ view.shown.version > 0 /\ ~editor.open
      /\ UNCHANGED <<ticket, rows, files, posted, role, editor, loading, sending, late, unsure, writes>>
    BY DEF F!Comment, F!AtTicket, F!Free
<1>2. PICK d \in 1..MaxDrafts, files0 \in SUBSET (F!Unused \ editor.added) :
          /\ d = view.draft \/ (view.draft = 0 /\ posted[d] = 0 /\ late.draft # d)
          /\ view' = [view EXCEPT !.draft = d, !.added = files0]
    BY DEF F!Comment
<1> DEFINE v1 == [view EXCEPT !.draft = d]
           v2 == [v1 EXCEPT !.added = files0]
<1>3. view \in Viewing /\ editor \in Dialog /\ d \in Nat /\ files0 \subseteq Groups
      /\ \A i \in files0 : rows[i] = "none" /\ i \notin late.added
    BY <1>2, TicketFacts DEF F!Unused
<1>4. /\ v1 \in Viewing /\ v1.shown = view.shown /\ v1.base = view.base /\ v1.choice = view.choice
      /\ v1.began = view.began /\ v1.draft = d
    BY <1>3 DEF Viewing
<1>5. view' = v2
    BY <1>2, Zenon
<1> HIDE DEF v1
<1>6. /\ v2 \in Viewing /\ v2.shown = view.shown /\ v2.base = view.base /\ v2.choice = view.choice
      /\ v2.began = view.began /\ v2.draft = d /\ v2.added = files0
    BY <1>3, <1>4 DEF Viewing
<1> HIDE DEF v2
<1>7. \/ "comment" \in unsure
      \/ Unrecorded(view.added, view.draft)' /\ Apart(view.added, view.draft)'
    BY <1>1, <1>2, <1>3, <1>5, <1>6 DEF DraftsUnsent, Unrecorded, Apart
<1>8. ticket.version > 0
    BY <1>1, FreshFacts, NothingType, TicketFacts DEF BeforeTicket
<1>9. role = "admin" =>
              /\ view'.base <= view'.shown.version
              /\ view'.choice # "none" /\ view'.base = ticket.version => view'.began = ticket.status
              /\ sending.stage = "done" => view'.shown.version <= sending.reply.version
    BY <1>5, <1>6 DEF SeenTrue
<1>10. Accurate(view'.shown) /\ Accurate(editor'.saved)
    BY <1>1, <1>5, <1>6 DEF SeenTrue
<1>11. /\ view' \in Viewing /\ editor' \in Dialog /\ editor' = editor /\ ~editor'.open
       /\ editor'.added = {} /\ view'.added \cap editor'.added = {}
    BY <1>1, <1>3, <1>5, <1>6 DEF DraftsUnsent
<1> QED
    BY <1>1, <1>7, <1>8, <1>9, <1>10, <1>11, DraftingKeeps

-----------------------------------------------------------------------------
(* Tickets: the page's requests *)

LEMMA MessageFacts ==
    ASSUME NEW kind \in F!Kinds, NEW expected \in Nat, NEW seen \in Snap, NEW m,
           m = F!Message(kind, expected, seen)
    PROVE  /\ m \in Request /\ m.kind = kind /\ m.expected = expected /\ m.seen = seen
           /\ m.added = {} /\ m.draft = 0
BY DEF F!Message, Request, F!Statuses, F!Levels

\* A request that is begun: it is what is drafted, and replaces what was seen.
LEMMA BegunKeeps ==
    ASSUME TicketInv, sending.stage = "idle",
           UNCHANGED <<ticket, rows, files, posted, role, view, editor, loading, late, unsure>>,
           writes' \in Nat, NEW m \in Request, NEW stage \in {"asking", "sent"},
           sending' = [stage |-> stage, m |-> m, reply |-> F!Nothing],
           stage = "asking" => m.kind = "withdraw",
           stage = "sent" => m.kind \notin unsure,
           \/ /\ m.kind = EditorKind /\ stage # "asking" /\ editor.open
              /\ m.added = editor.added /\ m.draft = EditorDraft
           \/ /\ m.kind = "comment" /\ stage # "asking" /\ ~editor.open
              /\ m.added = view.added /\ m.draft = view.draft
           \/ /\ m.kind \in {"status", "level", "withdraw"} /\ ~editor.open
              /\ m.added = {} /\ m.draft = 0,
           ticket.version = 0 => m.kind = "create",
           ReplacesSeen(m)
    PROVE  TicketInv'
<1> USE DEF TicketInv
<1>1. F!RecordedOnce'
    BY DEF F!RecordedOnce
<1>2. sending' \in Sending /\ sending'.stage = stage /\ sending'.m = m
    BY NothingType DEF Sending, Stages
<1>3. TicketTyped'
    BY <1>2 DEF TicketTyped
<1>4. EditorKind' = EditorKind /\ EditorDraft' = EditorDraft
    BY DEF EditorKind, EditorDraft
<1>5. BeforeTicket'
    BY <1>2 DEF BeforeTicket
<1>6. DraftsUnsent'
    BY <1>2, <1>4 DEF DraftsUnsent, Unrecorded, Apart
<1>7. RequestIsDraft'
    <2>1. stage = "sent" =>
              /\ Unrecorded(m.added, m.draft) /\ Apart(m.added, m.draft)
              /\ m.kind = "create" => ticket.version = 0
        <3>1. CASE m.kind = EditorKind /\ editor.open /\ m.added = editor.added /\ m.draft = EditorDraft
            BY <3>1 DEF DraftsUnsent
        <3>2. CASE m.kind = "comment" /\ m.added = view.added /\ m.draft = view.draft
            BY <3>2 DEF DraftsUnsent
        <3>3. CASE m.kind \in {"status", "level", "withdraw"} /\ m.added = {} /\ m.draft = 0
            BY <3>3 DEF Unrecorded, Apart, TicketTyped
        <3> QED
            BY <3>1, <3>2, <3>3
    <2> QED
        BY <1>2, <1>4, <2>1 DEF RequestIsDraft, OutNow, Unrecorded, Apart
<1>8. LateUnrecorded'
    BY DEF LateUnrecorded, Unrecorded
<1>9. SeenTrue'
    BY <1>2 DEF SeenTrue, Accurate, ReplacesSeen, F!Snapshot, F!BodyImages
<1>10. EditorFollows'
    BY <1>2, IdleFacts DEF EditorFollows
<1> QED
    BY <1>1, <1>3, <1>5, <1>6, <1>7, <1>8, <1>9, <1>10

LEMMA SendingFacts ==
    ASSUME TicketTyped, NEW m \in Request, F!Sends(m)
    PROVE  /\ sending' = [stage |-> "sent", m |-> m, reply |-> F!Nothing]
           /\ sending.stage = "idle" /\ m.kind \notin unsure /\ writes' \in Nat
           /\ UNCHANGED <<ticket, rows, files, posted, role, view, editor, loading, late, unsure>>
<1>1. sending' = [F!Idle EXCEPT !.stage = "sent", !.m = m]
    BY DEF F!Sends
<1>2. sending' = [stage |-> "sent", m |-> m, reply |-> F!Nothing]
    BY <1>1 DEF F!Idle
<1>3. writes' \in Nat
    BY DEF F!Sends, TicketTyped
<1> QED
    BY <1>2, <1>3 DEF F!Sends, F!Free

LEMMA SaveKeepsTicket ==
    ASSUME TicketInv, F!SaveEditor
    PROVE  TicketInv'
<1> USE DEF TicketInv
<1> DEFINE m0 == F!Message(EditorKind, editor.saved.version, editor.saved)
           m1 == [m0 EXCEPT !.level = editor.level]
           m2 == [m1 EXCEPT !.kept = editor.kept]
           m3 == [m2 EXCEPT !.added = editor.added]
           m4 == [m3 EXCEPT !.draft = EditorDraft]
<1>1. /\ editor.open /\ editor.saved \in Snap /\ editor.saved.version \in Nat /\ editor.kept \subseteq Groups
      /\ editor.added \subseteq Groups /\ editor.level \in F!Levels
      /\ EditorKind \in {"create", "edit"} /\ EditorKind \in F!Kinds /\ EditorDraft \in Nat
    BY TicketFacts DEF F!SaveEditor, Dialog, Snap, EditorKind, EditorDraft, F!Kinds
<1>2. F!Sends(m4)
    BY <1>1, Zenon DEF F!SaveEditor, EditorKind, EditorDraft
<1>3. /\ m0 \in Request /\ m0.kind = EditorKind /\ m0.expected = editor.saved.version
      /\ m0.seen = editor.saved
    BY <1>1, MessageFacts
<1> HIDE DEF m0
<1>4. m1 \in Request /\ m1.kind = m0.kind /\ m1.expected = m0.expected /\ m1.seen = m0.seen
    BY <1>1, <1>3 DEF Request
<1> HIDE DEF m1
<1>5. m2 \in Request /\ m2.kind = m0.kind /\ m2.expected = m0.expected /\ m2.seen = m0.seen
    BY <1>1, <1>4 DEF Request
<1> HIDE DEF m2
<1>6. /\ m3 \in Request /\ m3.kind = m0.kind /\ m3.expected = m0.expected /\ m3.seen = m0.seen
      /\ m3.added = editor.added
    BY <1>1, <1>5 DEF Request
<1> HIDE DEF m3
<1>7. /\ m4 \in Request /\ m4.kind = EditorKind /\ m4.expected = editor.saved.version
      /\ m4.seen = editor.saved /\ m4.added = editor.added /\ m4.draft = EditorDraft
    BY <1>1, <1>3, <1>6 DEF Request
<1> HIDE DEF m4
<1>8. ReplacesSeen(m4)
    BY <1>1, <1>7, SnapshotType DEF SeenTrue, Accurate, ReplacesSeen
<1>9. ticket.version = 0 => m4.kind = "create"
    BY <1>7 DEF BeforeTicket, EditorKind
<1>10. /\ sending' = [stage |-> "sent", m |-> m4, reply |-> F!Nothing]
       /\ sending.stage = "idle" /\ m4.kind \notin unsure /\ writes' \in Nat
       /\ UNCHANGED <<ticket, rows, files, posted, role, view, editor, loading, late, unsure>>
    BY <1>2, <1>7, SendingFacts
<1> QED
    BY <1>1, <1>7, <1>8, <1>9, <1>10, BegunKeeps

LEMMA StatusKeeps ==
    ASSUME TicketInv, F!SubmitStatus
    PROVE  TicketInv'
<1> USE DEF TicketInv
<1> DEFINE seen == [view.shown EXCEPT !.status = view.began]
           m0 == F!Message("status", view.base, seen)
           m1 == [m0 EXCEPT !.status = view.choice]
<1>1. /\ role = "admin" /\ view.choice # "none" /\ view.choice \in F!Statuses
      /\ view.base \in Nat /\ view.shown \in Snap /\ view.began \in F!Statuses /\ ~editor.open
    BY TicketFacts DEF F!SubmitStatus, Viewing, DraftsUnsent
<1>2. seen \in Snap /\ seen.status = view.began
    BY <1>1 DEF Snap
<1>3. F!Sends(m1)
    BY Zenon DEF F!SubmitStatus
<1> HIDE DEF seen
<1>4. /\ m0 \in Request /\ m0.kind = "status" /\ m0.expected = view.base /\ m0.seen = seen
      /\ m0.added = {} /\ m0.draft = 0
    BY <1>1, <1>2, MessageFacts DEF F!Kinds
<1> HIDE DEF m0
<1>5. /\ m1 \in Request /\ m1.kind = "status" /\ m1.expected = view.base /\ m1.seen = seen
      /\ m1.added = {} /\ m1.draft = 0
    BY <1>1, <1>4 DEF Request
<1> HIDE DEF m1
<1>6. ReplacesSeen(m1)
    <2>1. view.base <= view.shown.version /\ view.shown.version <= ticket.version
          /\ (view.base = ticket.version => view.began = ticket.status)
        BY <1>1 DEF SeenTrue, Accurate
    <2>2. view.base <= ticket.version
        BY <1>1, <2>1, TicketFacts DEF Snap
    <2> QED
        BY <1>2, <1>5, <2>1, <2>2 DEF ReplacesSeen
<1>7. ticket.version # 0
    BY <1>1, FreshFacts DEF BeforeTicket
<1>8. /\ sending' = [stage |-> "sent", m |-> m1, reply |-> F!Nothing]
      /\ sending.stage = "idle" /\ m1.kind \notin unsure /\ writes' \in Nat
      /\ UNCHANGED <<ticket, rows, files, posted, role, view, editor, loading, late, unsure>>
    BY <1>3, <1>5, SendingFacts
<1> QED
    BY <1>1, <1>5, <1>6, <1>7, <1>8, BegunKeeps

LEMMA LevelKeeps ==
    ASSUME TicketInv, F!ChangeLevel
    PROVE  TicketInv'
<1> USE DEF TicketInv
<1>1. PICK level \in F!Levels \ {view.shown.level} :
          F!Sends([F!Message("level", view.shown.version, view.shown) EXCEPT !.level = level])
    BY DEF F!ChangeLevel
<1> DEFINE m0 == F!Message("level", view.shown.version, view.shown)
           m1 == [m0 EXCEPT !.level = level]
<1>2. /\ role = "admin" /\ view.shown \in Snap /\ view.shown.version \in Nat /\ ~editor.open
      /\ view.shown.version > 0
    BY TicketFacts DEF F!ChangeLevel, Snap, DraftsUnsent, F!AtTicket
<1>3. F!Sends(m1)
    BY <1>1, Zenon
<1>4. /\ m0 \in Request /\ m0.kind = "level" /\ m0.expected = view.shown.version
      /\ m0.seen = view.shown /\ m0.added = {} /\ m0.draft = 0
    BY <1>2, MessageFacts DEF F!Kinds
<1> HIDE DEF m0
<1>5. /\ m1 \in Request /\ m1.kind = "level" /\ m1.expected = view.shown.version
      /\ m1.seen = view.shown /\ m1.added = {} /\ m1.draft = 0
    BY <1>1, <1>4 DEF Request
<1> HIDE DEF m1
<1>6. ReplacesSeen(m1)
    BY <1>5, SnapshotType DEF SeenTrue, Accurate, ReplacesSeen
<1>7. ticket.version # 0
    BY <1>2, FreshFacts, NothingType DEF BeforeTicket
<1>8. /\ sending' = [stage |-> "sent", m |-> m1, reply |-> F!Nothing]
      /\ sending.stage = "idle" /\ m1.kind \notin unsure /\ writes' \in Nat
      /\ UNCHANGED <<ticket, rows, files, posted, role, view, editor, loading, late, unsure>>
    BY <1>3, <1>5, SendingFacts
<1> QED
    BY <1>2, <1>5, <1>6, <1>7, <1>8, BegunKeeps

LEMMA SubmitCommentKeeps ==
    ASSUME TicketInv, F!SubmitComment
    PROVE  TicketInv'
<1> USE DEF TicketInv
<1> DEFINE m0 == F!Message("comment", 0, view.shown)
           m1 == [m0 EXCEPT !.draft = view.draft]
           m2 == [m1 EXCEPT !.added = view.added]
<1>1. /\ view.draft # 0 /\ view.draft \in Nat /\ view.shown \in Snap /\ view.added \subseteq Groups
      /\ ~editor.open
    BY TicketFacts DEF F!SubmitComment
<1>2. F!Sends(m2)
    BY Zenon DEF F!SubmitComment
<1>3. m0 \in Request /\ m0.kind = "comment"
    BY <1>1 DEF F!Message, Request, F!Kinds, F!Statuses, F!Levels
<1> HIDE DEF m0
<1>4. m1 \in Request /\ m1.kind = "comment" /\ m1.draft = view.draft
    BY <1>1, <1>3 DEF Request
<1> HIDE DEF m1
<1>5. m2 \in Request /\ m2.kind = "comment" /\ m2.draft = view.draft /\ m2.added = view.added
    BY <1>1, <1>4 DEF Request
<1> HIDE DEF m2
<1>6. ReplacesSeen(m2)
    BY <1>5 DEF ReplacesSeen
<1>7. ticket.version # 0
    BY <1>1, FreshFacts DEF BeforeTicket
<1>8. /\ sending' = [stage |-> "sent", m |-> m2, reply |-> F!Nothing]
      /\ sending.stage = "idle" /\ m2.kind \notin unsure /\ writes' \in Nat
      /\ UNCHANGED <<ticket, rows, files, posted, role, view, editor, loading, late, unsure>>
    BY <1>2, <1>5, SendingFacts
<1> QED
    BY <1>1, <1>5, <1>6, <1>7, <1>8, BegunKeeps

LEMMA AskKeepsTicket ==
    ASSUME TicketInv, F!AskWithdraw
    PROVE  TicketInv'
<1> USE DEF TicketInv
<1> DEFINE m == F!Message("withdraw", view.shown.version, view.shown)
<1>1. /\ view.shown \in Snap /\ view.shown.version \in Nat /\ ~editor.open /\ view.shown.version > 0
      /\ sending.stage = "idle" /\ writes' \in Nat
      /\ UNCHANGED <<ticket, rows, files, posted, role, view, editor, loading, late, unsure>>
    BY TicketFacts DEF F!AskWithdraw, Snap, F!AtTicket, F!Free, TicketTyped
<1>2. /\ m \in Request /\ m.kind = "withdraw" /\ m.expected = view.shown.version
      /\ m.seen = view.shown /\ m.added = {} /\ m.draft = 0
    BY <1>1, MessageFacts DEF F!Kinds
<1>3. sending' = [F!Idle EXCEPT !.stage = "asking", !.m = m]
    BY Zenon DEF F!AskWithdraw
<1> HIDE DEF m
<1>4. sending' = [stage |-> "asking", m |-> m, reply |-> F!Nothing]
    BY <1>3 DEF F!Idle
<1>5. ReplacesSeen(m)
    BY <1>2, SnapshotType DEF SeenTrue, Accurate, ReplacesSeen
<1>6. ticket.version # 0
    BY <1>1, FreshFacts, NothingType DEF BeforeTicket
<1> QED
    BY <1>1, <1>2, <1>4, <1>5, <1>6, BegunKeeps

LEMMA AnswerKeeps ==
    ASSUME TicketInv, F!AnswerWithdraw
    PROVE  TicketInv'
<1> USE DEF TicketInv
<1>1. /\ sending.stage = "asking" /\ writes' \in Nat
      /\ UNCHANGED <<ticket, rows, files, posted, role, view, editor, loading, late, unsure>>
    BY DEF F!AnswerWithdraw, TicketTyped
<1>2. sending.m.kind = "withdraw" \/ sending.m.kind \in {"status", "level"}
    BY <1>1 DEF RequestIsDraft
<1>3. ~editor.open /\ sending.m.added = {} /\ sending.m.draft = 0 /\ ReplacesSeen(sending.m)
      /\ sending.m.kind \notin {"create", "comment"} /\ ticket.version # 0
    BY <1>1, <1>2 DEF RequestIsDraft, SeenTrue, BeforeTicket, EditorKind
<1>4. \/ sending' = F!Idle
      \/ sending' = [sending EXCEPT !.stage = "sent"] /\ "withdraw" \notin unsure
    BY DEF F!AnswerWithdraw
<1>5. /\ sending' \in Sending
      /\ \/ sending'.stage = "idle"
         \/ sending'.stage = "sent" /\ sending'.m = sending.m /\ "withdraw" \notin unsure
    BY <1>4, IdleFacts, TicketFacts DEF Sending, Stages
<1>6. F!RecordedOnce'
    BY <1>1 DEF F!RecordedOnce
<1>7. TicketTyped'
    BY <1>1, <1>5 DEF TicketTyped
<1>8. BeforeTicket'
    BY <1>1, <1>3 DEF BeforeTicket
<1>9. DraftsUnsent'
    BY <1>1 DEF DraftsUnsent, Unrecorded, Apart, EditorKind, EditorDraft
<1>10. sending.m.kind = "withdraw"
    BY <1>1 DEF RequestIsDraft
<1>11. RequestIsDraft'
    <2>1. Unrecorded({}, 0) /\ Apart({}, 0)
        BY DEF Unrecorded, Apart, TicketTyped
    <2> QED
        BY <1>1, <1>3, <1>5, <1>10, <2>1 DEF RequestIsDraft, OutNow, Unrecorded, Apart, EditorKind, EditorDraft
<1>12. LateUnrecorded'
    BY <1>1 DEF LateUnrecorded, Unrecorded
<1>13. SeenTrue'
    BY <1>1, <1>3, <1>5 DEF SeenTrue, Accurate, ReplacesSeen, F!Snapshot, F!BodyImages
<1>14. EditorFollows'
    BY <1>1, <1>3 DEF EditorFollows
<1> QED
    BY <1>6, <1>7, <1>8, <1>9, <1>11, <1>12, <1>13, <1>14

LEMMA VerdictFacts ==
    ASSUME NEW m
    PROVE  F!Verdict(m) \in {"stale", "closed", "invalid", "done"}
           /\ (F!Verdict(m) = "done" => ~F!Stale(m))
BY DEF F!Verdict

\* A refusal leaves everything but the stage of the request.
LEMMA RefusingKeeps ==
    ASSUME TicketInv, UNCHANGED <<ticket, rows, files, posted, role, view, editor, loading, late, unsure, writes>>,
           sending.stage \notin {"idle", "asking", "done"}, sending' \in Sending,
           sending'.stage \in {"sent", "stale", "closed", "invalid"},
           sending'.m.kind = sending.m.kind, sending'.m.added = sending.m.added,
           sending'.m.draft = sending.m.draft, sending'.m.expected = sending.m.expected,
           sending'.m.seen = sending.m.seen,
           ticket.version = 0 => sending'.stage = "sent"
    PROVE  TicketInv'
<1> USE DEF TicketInv
<1>1. F!RecordedOnce'
    BY DEF F!RecordedOnce
<1>2. TicketTyped'
    BY DEF TicketTyped
<1>3. BeforeTicket'
    BY DEF BeforeTicket
<1>4. DraftsUnsent'
    BY DEF DraftsUnsent, Unrecorded, Apart, EditorKind, EditorDraft
<1>5. RequestIsDraft'
    BY DEF RequestIsDraft, OutNow, Unrecorded, Apart, EditorKind, EditorDraft
<1>6. LateUnrecorded'
    BY DEF LateUnrecorded, Unrecorded
<1>7. SeenTrue'
    BY DEF SeenTrue, Accurate, ReplacesSeen, F!Snapshot, F!BodyImages
<1>8. EditorFollows'
    <2>1. sending' # F!Idle
        BY IdleFacts
    <2> QED
        BY <2>1 DEF EditorFollows
<1> QED
    BY <1>1, <1>2, <1>3, <1>4, <1>5, <1>6, <1>7, <1>8

LEMMA HandleKeeps ==
    ASSUME TicketInv, F!Handle
    PROVE  TicketInv'
<1> USE DEF TicketInv
<1> DEFINE m == sending.m
<1>1. /\ sending.stage = "sent"
      /\ UNCHANGED <<role, view, editor, loading, late, unsure, writes>>
      /\ m \in Request /\ m.added \subseteq Groups /\ m.draft \in Nat
    BY TicketFacts DEF F!Handle
<1>2. /\ Unrecorded(m.added, m.draft) /\ Apart(m.added, m.draft)
      /\ (m.kind = "create" => ticket.version = 0) /\ m.kind \notin unsure /\ m.kind \in F!Kinds
      /\ (ticket.version = 0 => m.kind = "create")
    BY <1>1, TicketFacts DEF RequestIsDraft, OutNow, BeforeTicket, F!Kinds
<1>3. CASE F!Verdict(m) # "done"
    <2>1. sending' = [sending EXCEPT !.stage = F!Verdict(m)] /\ UNCHANGED <<ticket, rows, files, posted>>
        BY <1>3 DEF F!Handle
    <2>2. F!Verdict(m) \in {"stale", "closed", "invalid"} /\ sending \in Sending
        BY <1>3, VerdictFacts, TicketFacts
    <2>3. sending' \in Sending /\ sending'.stage = F!Verdict(m) /\ sending'.m = sending.m
        BY <2>1, <2>2 DEF Sending, Stages
    <2>4. m.kind # "create"
        BY <1>3 DEF F!Verdict, F!Stale, F!Closes, F!Invalid
    <2> QED
        BY <1>1, <1>2, <2>1, <2>2, <2>3, <2>4, RefusingKeeps
<1>4. CASE F!Verdict(m) = "done"
    <2>1. F!Commits(m) /\ sending' = [stage |-> "done", m |-> m, reply |-> F!Snapshot']
        BY <1>4 DEF F!Handle
    <2>2. /\ ServerKeeps(m.added, m.draft)
          /\ ticket'.version = IF m.kind = "comment" THEN ticket.version ELSE ticket.version + 1
        BY <1>1, <1>2, <2>1, CommitsKeep
    <2>3. /\ F!Snapshot' \in Snap /\ F!Snapshot'.version = ticket'.version
          /\ F!Snapshot'.status = ticket'.status /\ F!Snapshot'.level = ticket'.level
          /\ F!Snapshot'.images = F!BodyImages'
        BY <2>2 DEF F!Snapshot, Snap, F!BodyImages, ServerKeeps
    <2>4. sending' \in Sending /\ sending'.stage = "done" /\ sending'.m = m /\ sending'.reply = F!Snapshot'
        BY <1>1, <2>1, <2>3 DEF Sending, Stages
    <2>5. TicketTyped' /\ F!RecordedOnce'
        BY <1>1, <2>2, <2>4 DEF TicketTyped, ServerKeeps
    <2>6. ticket.version \in Nat /\ ticket'.version \in Nat /\ ticket'.version > 0
        BY <1>2, <2>2, TicketFacts
    <2>7. BeforeTicket'
        BY <2>6 DEF BeforeTicket
    <2>8. ASSUME NEW A \in SUBSET Groups, NEW d \in Nat, Unrecorded(A, d), A \cap m.added = {},
                 d = 0 \/ d # m.draft
          PROVE  Unrecorded(A, d)'
        BY <2>2, <2>8, KeptUnrecorded
    <2>9. DraftsUnsent'
        <3>1. editor.open => m.kind = EditorKind
            BY <1>1 DEF RequestIsDraft
        <3>2. \/ "comment" \in unsure \/ m.kind = "comment"
              \/ Unrecorded(view.added, view.draft)' /\ Apart(view.added, view.draft)
            <4>1. CASE m.kind = "comment" \/ "comment" \in unsure
                BY <4>1
            <4>2. CASE m.kind # "comment" /\ "comment" \notin unsure
                <5>1. Unrecorded(view.added, view.draft) /\ Apart(view.added, view.draft)
                    BY <1>1, <4>2 DEF DraftsUnsent
                <5>2. view.added \cap m.added = {} /\ (view.draft = 0 \/ view.draft # m.draft)
                    <6>1. CASE m.kind = EditorKind /\ m.added = editor.added /\ m.draft = EditorDraft
                        <7>1. EditorDraft # 0 => view.draft = 0
                            BY <1>2, <6>1, FreshFacts DEF BeforeTicket, EditorDraft, EditorKind
                        <7>2. view.added \cap editor.added = {}
                            BY DEF DraftsUnsent
                        <7> QED
                            BY <6>1, <7>1, <7>2
                    <6>2. CASE m.added = {} /\ m.draft = 0
                        BY <6>2
                    <6> QED
                        BY <1>1, <4>2, <6>1, <6>2 DEF RequestIsDraft
                <5>3. Unrecorded(view.added, view.draft)'
                    <6>1. view.added \in SUBSET Groups /\ view.draft \in Nat
                        BY TicketFacts
                    <6> QED
                        BY <1>1, <2>8, <5>1, <5>2, <6>1 DEF Unrecorded
                <5> QED
                    BY <5>1, <5>3
            <4> QED
                BY <4>1, <4>2
        <3> QED
            BY <1>1, <2>4, <3>1, <3>2 DEF DraftsUnsent, Apart, EditorKind, EditorDraft
    <2>10. RequestIsDraft'
        BY <1>1, <1>2, <2>4 DEF RequestIsDraft, OutNow, EditorKind, EditorDraft
    <2>11. LateUnrecorded'
        <3>1. late.kind = "create" => ticket.version = 0 /\ "create" \in unsure
            BY DEF LateUnrecorded
        <3>2. late.kind # "create"
            BY <1>2, <3>1
        <3>3. late.added \in SUBSET Groups /\ late.draft \in Nat /\ Unrecorded(late.added, late.draft)
            BY TicketFacts DEF LateUnrecorded
        <3>4. late.added \cap m.added = {} /\ (late.draft = 0 \/ late.draft # m.draft)
            BY <1>2 DEF Apart
        <3>5. Unrecorded(late.added, late.draft)'
            BY <1>1, <2>8, <3>3, <3>4 DEF Unrecorded
        <3> QED
            BY <1>1, <3>2, <3>5 DEF LateUnrecorded
    <2>12. SeenTrue'
        <3>1. /\ view.shown \in Snap /\ editor.saved \in Snap /\ view.base \in Nat /\ late \in Request
              /\ (loading.stage = "served" => loading.got \in Snap)
            BY TicketFacts DEF TicketTyped, Reading
        <3>2. \A s \in Snap : Accurate(s) => Accurate(s)'
            BY <2>2, KeptAccurate
        <3>3. ReplacesSeen(late)'
            <4>1. ReplacesSeen(late)
                BY DEF SeenTrue
            <4>2. ASSUME NEW x \in Request, ReplacesSeen(x) PROVE ReplacesSeen(x)'
                BY <2>2, <4>2, KeptSeen
            <4> QED
                BY <1>1, <3>1, <4>1, <4>2 DEF ReplacesSeen
        <3>4. Accurate(view.shown)' /\ Accurate(editor.saved)'
              /\ (loading.stage = "served" => Accurate(loading.got)')
            BY <1>1, <3>1, <3>2 DEF SeenTrue, Accurate
        <3>5. Accurate(sending.reply)'
            BY <2>3, <2>4, <2>6 DEF Accurate
        <3>6. view.shown.version <= ticket.version /\ ticket.version <= ticket'.version
            BY <2>2 DEF SeenTrue, Accurate, ServerKeeps
        <3>7. role = "admin" =>
                  /\ view.base <= view.shown.version
                  /\ view.choice # "none" /\ view.base = ticket'.version => view.began = ticket'.status
                  /\ view.shown.version <= F!Snapshot'.version
            <4>1. CASE ticket'.version = ticket.version
                BY <2>2, <2>3, <3>6, <4>1 DEF SeenTrue, ServerKeeps
            <4>2. CASE ticket'.version # ticket.version
                BY <2>3, <2>6, <3>1, <3>6, <4>2 DEF SeenTrue, Snap
            <4> QED
                BY <4>1, <4>2
        <3> QED
            BY <1>1, <2>4, <3>3, <3>4, <3>5, <3>7 DEF SeenTrue
    <2>13. EditorFollows'
        BY <2>4, IdleFacts DEF EditorFollows
    <2> QED
        BY <2>5, <2>7, <2>9, <2>10, <2>11, <2>12, <2>13
<1> QED
    BY <1>3, <1>4

LEMMA DoneKeeps ==
    ASSUME TicketInv, F!Done
    PROVE  TicketInv'
<1> USE DEF TicketInv
<1> DEFINE m == sending.m
           shown == IF m.kind = "create" THEN view.shown ELSE sending.reply
           v1 == [view EXCEPT !.shown = shown]
           vs1 == [v1 EXCEPT !.choice = "none"]
           vs2 == [vs1 EXCEPT !.base = shown.version]
           vc1 == [v1 EXCEPT !.draft = 0]
           vc2 == [vc1 EXCEPT !.added = {}]
<1>1. /\ sending.stage = "done" /\ sending' = F!Idle
      /\ editor' = IF m.kind \in {"create", "edit"} THEN F!Closed ELSE editor
      /\ loading' = IF m.kind = "create" THEN F!Loading ELSE loading
      /\ UNCHANGED <<ticket, rows, files, posted, role, late, unsure, writes>>
    BY DEF F!Done
<1>2. /\ ticket.version # 0 /\ view \in Viewing /\ editor \in Dialog /\ sending.reply \in Snap
      /\ view.shown \in Snap /\ view.base \in Nat
    BY <1>1, TicketFacts DEF BeforeTicket
<1>3. shown \in Snap /\ Accurate(shown) /\ (role = "admin" => view.shown.version <= shown.version)
    BY <1>1, <1>2 DEF SeenTrue, Snap
<1>4. view' = IF m.kind = "status" THEN vs2 ELSE IF m.kind = "comment" THEN vc2 ELSE v1
    <2>1. m.kind = "status" => view' = vs2
        BY Zenon DEF F!Done
    <2>2. m.kind = "comment" => view' = vc2
        BY DEF F!Done
    <2>3. m.kind \notin {"status", "comment"} => view' = v1
        BY DEF F!Done
    <2> QED
        BY <2>1, <2>2, <2>3
<1> HIDE DEF shown
<1>5. /\ v1 \in Viewing /\ v1.shown = shown /\ v1.choice = view.choice /\ v1.began = view.began
      /\ v1.base = view.base /\ v1.draft = view.draft /\ v1.added = view.added
    BY <1>2, <1>3 DEF Viewing
<1> HIDE DEF v1
<1>6. /\ vs1 \in Viewing /\ vs1.shown = shown /\ vs1.choice = "none"
      /\ vs1.draft = view.draft /\ vs1.added = view.added
    BY <1>5 DEF Viewing
<1> HIDE DEF vs1
<1>7. /\ vs2 \in Viewing /\ vs2.shown = shown /\ vs2.choice = "none" /\ vs2.base = shown.version
      /\ vs2.draft = view.draft /\ vs2.added = view.added
    BY <1>3, <1>6 DEF Viewing, Snap
<1> HIDE DEF vs2
<1>8. /\ vc1 \in Viewing /\ vc1.shown = shown /\ vc1.choice = view.choice /\ vc1.began = view.began
      /\ vc1.base = view.base /\ vc1.draft = 0
    BY <1>5 DEF Viewing
<1> HIDE DEF vc1
<1>9. /\ vc2 \in Viewing /\ vc2.shown = shown /\ vc2.choice = view.choice /\ vc2.began = view.began
      /\ vc2.base = view.base /\ vc2.draft = 0 /\ vc2.added = {}
    BY <1>8 DEF Viewing
<1> HIDE DEF vc2
<1>10. /\ view' \in Viewing /\ view'.shown = shown
       /\ IF m.kind = "comment" THEN view'.draft = 0 /\ view'.added = {}
          ELSE view'.draft = view.draft /\ view'.added = view.added
       /\ \/ view'.choice = "none" /\ view'.base = shown.version
          \/ view'.choice = view.choice /\ view'.base = view.base /\ view'.began = view.began
    BY <1>4, <1>5, <1>7, <1>9
<1>11. /\ editor' \in Dialog /\ ~editor'.open
       /\ (editor' = editor \/ editor' = F!Closed)
       /\ editor'.added = {} /\ Accurate(editor'.saved)
    <2>1. m.kind \notin {"create", "edit"} => ~editor.open /\ editor.added = {}
        BY <1>1 DEF RequestIsDraft, DraftsUnsent, EditorKind
    <2>2. Accurate(F!Nothing) /\ Accurate(editor.saved)
        BY <1>2, NothingAccurate, TicketFacts DEF SeenTrue
    <2> QED
        BY <1>1, <1>2, <2>1, <2>2, ClosedFacts
<1>12. loading' \in Reading /\ (loading'.stage = "served" => loading' = loading)
    BY <1>1, LoadingFacts DEF TicketTyped
<1>13. F!RecordedOnce'
    BY <1>1 DEF F!RecordedOnce
<1>14. TicketTyped'
    BY <1>1, <1>10, <1>11, <1>12, IdleFacts DEF TicketTyped
<1>15. BeforeTicket'
    BY <1>1, <1>2 DEF BeforeTicket
<1>16. DraftsUnsent'
    <2>1. \/ "comment" \in unsure
          \/ Unrecorded(view.added, view.draft)' /\ Apart(view.added, view.draft)'
        <3>1. CASE m.kind = "comment"
            BY <1>1, <1>10, <1>14, <3>1 DEF Unrecorded, Apart, TicketTyped
        <3>2. CASE m.kind # "comment"
            BY <1>1, <1>10, <3>2 DEF DraftsUnsent, Unrecorded, Apart
        <3> QED
            BY <3>1, <3>2
    <2> QED
        BY <1>1, <1>11, <2>1 DEF DraftsUnsent
<1>17. RequestIsDraft'
    BY <1>1, IdleFacts DEF RequestIsDraft, OutNow
<1>18. LateUnrecorded'
    BY <1>1 DEF LateUnrecorded, Unrecorded
<1>19. SeenTrue'
    <2>1. Accurate(view'.shown) /\ Accurate(editor'.saved)
        BY <1>3, <1>10, <1>11
    <2>2. role = "admin" =>
              /\ view'.base <= view'.shown.version
              /\ view'.choice # "none" /\ view'.base = ticket.version => view'.began = ticket.status
        BY <1>2, <1>3, <1>10 DEF SeenTrue, Snap
    <2> QED
        BY <1>1, <1>12, <2>1, <2>2, IdleFacts
        DEF SeenTrue, Accurate, ReplacesSeen, F!Snapshot, F!BodyImages
<1>20. EditorFollows'
    BY <1>11 DEF EditorFollows
<1> QED
    BY <1>13, <1>14, <1>15, <1>16, <1>17, <1>18, <1>19, <1>20

LEMMA RefusedKeeps ==
    ASSUME TicketInv, F!Refused
    PROVE  TicketInv'
<1> USE DEF TicketInv
<1>1. ServerKeeps({}, 0)
    BY StillKeeps DEF F!Refused
<1>2. loading' \in {loading, F!NotLoading} \/ (loading' = F!Loading /\ sending.m.kind # "create")
    BY DEF F!Refused
<1>3. writes' \in Nat /\ unsure' \subseteq F!Kinds
    BY DEF F!Refused, TicketTyped
<1> QED
    BY <1>1, <1>2, <1>3, DraftsBack DEF F!Refused

LEMMA OverwriteKeeps ==
    ASSUME TicketInv, F!AnswerOverwrite
    PROVE  TicketInv'
<1> USE DEF TicketInv
<1>1. sending.stage = "stale"
      /\ UNCHANGED <<ticket, rows, files, posted, role, view, loading, late, unsure, writes>>
    BY DEF F!AnswerOverwrite
<1>2. CASE sending' = F!Idle /\ editor' = F!Synced(editor, view.shown)
    <2>1. ServerKeeps({}, 0)
        BY <1>1, StillKeeps
    <2>2. writes' \in Nat /\ unsure' \subseteq F!Kinds
        BY <1>1 DEF TicketTyped
    <2> QED
        BY <1>1, <1>2, <2>1, <2>2, DraftsBack
<1>3. CASE sending' = [sending EXCEPT !.stage = "sent", !.m.overwrite = TRUE] /\ UNCHANGED editor
    <2> DEFINE m1 == [sending.m EXCEPT !.overwrite = TRUE]
               s1 == [sending EXCEPT !.stage = "sent"]
               s2 == [s1 EXCEPT !.m = m1]
    <2>1. sending \in Sending /\ sending.m \in Request
        BY TicketFacts
    <2>2. /\ m1 \in Request /\ m1.kind = sending.m.kind /\ m1.added = sending.m.added
          /\ m1.draft = sending.m.draft /\ m1.expected = sending.m.expected /\ m1.seen = sending.m.seen
        BY <2>1 DEF Request
    <2>3. s1 \in Sending /\ s1.stage = "sent" /\ s1.m = sending.m
        BY <2>1 DEF Sending, Stages
    <2>4. sending' = [s1 EXCEPT !.m.overwrite = TRUE]
        BY <1>3, Zenon
    <2> HIDE DEF s1
    <2>5. sending' = s2
        BY <2>3, <2>4
    <2> HIDE DEF m1
    <2>6. sending' \in Sending /\ sending'.stage = "sent" /\ sending'.m = m1
        BY <2>2, <2>3, <2>5 DEF Sending
    <2> QED
        BY <1>1, <1>3, <2>2, <2>6, RefusingKeeps
<1> QED
    BY <1>2, <1>3 DEF F!AnswerOverwrite

LEMMA GiveUpKeeps ==
    ASSUME TicketInv, F!GiveUp
    PROVE  TicketInv'
<1> USE DEF TicketInv
<1>1. ServerKeeps({}, 0)
    BY StillKeeps DEF F!GiveUp
<1>2. sending.stage \notin {"idle", "asking"} /\ sending.m.kind \in F!Kinds
    BY DEF F!GiveUp, RequestIsDraft, EditorKind, F!Kinds
<1>3. writes' \in Nat /\ unsure' \subseteq F!Kinds /\ unsure \subseteq unsure' /\ sending.m.kind \in unsure'
    BY <1>2 DEF F!GiveUp, TicketTyped
<1>4. late' = late \/ (late' = sending.m /\ sending.stage = "sent" /\ sending.m.kind \in unsure')
    BY <1>3 DEF F!GiveUp, F!Abandon
<1> QED
    BY <1>1, <1>2, <1>3, <1>4, DraftsBack DEF F!GiveUp

LEMMA CrashKeeps ==
    ASSUME TicketInv, F!Crash
    PROVE  TicketInv'
<1> USE DEF TicketInv
<1>1. sending.stage = "sent" /\ F!Interrupted(sending.m) /\ sending.m \in Request
      /\ Unrecorded(sending.m.added, sending.m.draft) /\ sending.m.kind \in F!Kinds
    BY TicketFacts DEF F!Crash, RequestIsDraft, OutNow, EditorKind, F!Kinds
<1>2. ServerKeeps({}, 0) /\ UNCHANGED <<ticket, rows, posted>>
    BY <1>1, InterruptedKeeps DEF F!Interrupted
<1>3. writes' \in Nat /\ unsure' \subseteq F!Kinds /\ unsure \subseteq unsure'
    BY <1>1 DEF F!Crash, TicketTyped
<1> QED
    BY <1>1, <1>2, <1>3, DraftsBack DEF F!Crash

\* The outcome of a request the page no longer waits for may be unknown; what it was is late.
LEMMA LeavingFacts ==
    ASSUME TicketInv, late = F!NoMessage, F!Abandon
    PROVE  /\ \/ late' = F!NoMessage
              \/ /\ late' = sending.m /\ sending.stage = "sent"
                 /\ Unrecorded(late'.added, late'.draft) /\ ReplacesSeen(late')
                 /\ late'.kind = "create" => ticket.version = 0
                 /\ late'.kind \in F!Kinds
           /\ late' \in Request
BY TicketFacts
DEF TicketInv, F!Abandon, RequestIsDraft, OutNow, SeenTrue, EditorKind, F!Kinds

LEMMA UnknownFacts ==
    ASSUME TicketInv, NEW u \in F!Unknown
    PROVE  /\ u \subseteq F!Kinds /\ unsure \subseteq u
           /\ u # unsure => sending.stage \notin {"idle", "asking"}
           /\ sending.stage \notin {"idle", "asking", "stale"} => sending.m.kind \in u
<1>1. sending.stage \notin {"idle", "asking"} => sending.m.kind \in F!Kinds
    BY DEF TicketInv, RequestIsDraft, EditorKind, F!Kinds
<1>2. unsure \subseteq F!Kinds
    BY DEF TicketInv, TicketTyped
<1> QED
    BY <1>1, <1>2 DEF F!Unknown

LEMMA CloseKeeps ==
    ASSUME TicketInv, F!CloseEditor
    PROVE  TicketInv'
<1> USE DEF TicketInv
<1>1. /\ editor.open /\ late = F!NoMessage /\ editor' = F!Closed /\ unsure' \in F!Unknown
      /\ F!Abandon /\ sending' = F!Idle
      /\ UNCHANGED <<ticket, rows, files, posted, role, view, loading, writes>>
    BY DEF F!CloseEditor
<1>2. /\ unsure' \subseteq F!Kinds /\ unsure \subseteq unsure'
      /\ sending.stage \notin {"idle", "asking", "stale"} => sending.m.kind \in unsure'
    BY <1>1, UnknownFacts
<1>3. /\ \/ late' = F!NoMessage
         \/ /\ late' = sending.m /\ sending.stage = "sent"
            /\ Unrecorded(late'.added, late'.draft) /\ ReplacesSeen(late')
            /\ late'.kind = "create" => ticket.version = 0
            /\ late'.kind \in F!Kinds
      /\ late' \in Request
    BY <1>1, LeavingFacts
<1>4. /\ editor' \in Dialog /\ ~editor'.open /\ editor'.saved = F!Nothing /\ editor'.saved.version = 0
      /\ editor'.added = {} /\ sending' \in Sending /\ sending'.stage = "idle"
    BY <1>1, ClosedFacts, IdleFacts
<1>5. F!RecordedOnce'
    BY <1>1 DEF F!RecordedOnce
<1>6. TicketTyped'
    BY <1>1, <1>2, <1>3, <1>4 DEF TicketTyped
<1>7. BeforeTicket'
    BY <1>1, <1>3, <1>4 DEF BeforeTicket
<1>8. sending.stage # "idle" =>
          /\ sending.m.kind = EditorKind /\ sending.m.added = editor.added
          /\ sending.m.draft = EditorDraft
    BY <1>1 DEF RequestIsDraft
<1>9. DraftsUnsent'
    <2>1. \/ "comment" \in unsure'
          \/ Unrecorded(view.added, view.draft)' /\ Apart(view.added, view.draft)'
        <3>1. CASE "comment" \in unsure
            BY <1>2, <3>1
        <3>2. CASE "comment" \notin unsure
            <4>1. Unrecorded(view.added, view.draft)
                BY <1>1, <1>8, <3>2 DEF DraftsUnsent, EditorKind
            <4>2. view.added \cap late'.added = {} /\ (view.draft # 0 => late'.draft # view.draft)
                <5>1. CASE late' = F!NoMessage
                    BY <5>1, NoMessageType
                <5>2. CASE late' = sending.m /\ sending.stage = "sent"
                    <6>1. EditorDraft # 0 => view.draft = 0
                        BY <1>8, <5>2, FreshFacts
                        DEF RequestIsDraft, OutNow, BeforeTicket, EditorDraft, EditorKind
                    <6>2. view.added \cap editor.added = {}
                        BY DEF DraftsUnsent
                    <6> QED
                        BY <1>8, <5>2, <6>1, <6>2
                <5> QED
                    BY <1>3, <5>1, <5>2
            <4> QED
                BY <1>1, <4>1, <4>2 DEF Unrecorded, Apart
        <3> QED
            BY <3>1, <3>2
    <2> QED
        BY <1>1, <1>4, <2>1 DEF DraftsUnsent
<1>10. RequestIsDraft'
    BY <1>4 DEF RequestIsDraft, OutNow
<1>11. LateUnrecorded'
    <2>1. Unrecorded(late'.added, late'.draft)
        BY <1>3, NothingLate
    <2>2. late'.kind = "create" => ticket.version = 0 /\ "create" \in unsure'
        BY <1>2, <1>3, NothingLate
    <2> QED
        BY <1>1, <1>3, <2>1, <2>2, NoMessageType DEF LateUnrecorded, Unrecorded, F!NoMessage
<1>12. SeenTrue'
    <2>1. ReplacesSeen(late')
        BY <1>3, NothingLate
    <2>2. Accurate(F!Nothing) \/ ticket.version = 0
        BY NothingAccurate, TicketFacts
    <2>3. Accurate(editor'.saved)
        <3>1. CASE ticket.version = 0
            BY <1>1, <1>4, <3>1, FreshFacts DEF BeforeTicket, SeenTrue
        <3> QED
            BY <1>4, <2>2, <3>1
    <2> QED
        BY <1>1, <1>4, <2>1, <2>3 DEF SeenTrue, Accurate, ReplacesSeen, F!Snapshot, F!BodyImages
<1>13. EditorFollows'
    BY <1>4 DEF EditorFollows
<1> QED
    BY <1>5, <1>6, <1>7, <1>9, <1>10, <1>11, <1>12, <1>13

LEMMA ReturnKeeps ==
    ASSUME TicketInv, F!Return
    PROVE  TicketInv'
<1> USE DEF TicketInv
<1>1. /\ ticket.version > 0 /\ late = F!NoMessage /\ view' = F!FreshView /\ editor' = F!Closed
      /\ loading' = F!Loading /\ unsure' \in F!Unknown \cup {{}} /\ F!Abandon /\ sending' = F!Idle
      /\ UNCHANGED <<ticket, rows, files, posted, role, writes>>
    BY DEF F!Return
<1>2. unsure' \subseteq F!Kinds
    BY <1>1, UnknownFacts
<1>3. /\ \/ late' = F!NoMessage
         \/ /\ late' = sending.m /\ sending.stage = "sent"
            /\ Unrecorded(late'.added, late'.draft) /\ ReplacesSeen(late')
            /\ late'.kind = "create" => ticket.version = 0
            /\ late'.kind \in F!Kinds
      /\ late' \in Request
    BY <1>1, LeavingFacts
<1>4. /\ editor' \in Dialog /\ ~editor'.open /\ editor'.saved = F!Nothing
      /\ editor'.added = {} /\ sending' \in Sending /\ sending'.stage = "idle"
      /\ loading' \in Reading /\ loading'.stage = "asked"
      /\ view' \in Viewing /\ view'.shown = F!Nothing /\ view'.choice = "none" /\ view'.base = 0
      /\ view'.draft = 0 /\ view'.added = {}
    BY <1>1, ClosedFacts, IdleFacts, LoadingFacts, FreshFacts
<1>5. F!RecordedOnce'
    BY <1>1 DEF F!RecordedOnce
<1>6. TicketTyped'
    BY <1>1, <1>2, <1>3, <1>4 DEF TicketTyped
<1>7. BeforeTicket'
    BY <1>1, TicketFacts DEF BeforeTicket
<1>8. DraftsUnsent'
    BY <1>4, <1>6 DEF DraftsUnsent, Unrecorded, Apart, TicketTyped
<1>9. RequestIsDraft'
    BY <1>4 DEF RequestIsDraft, OutNow
<1>10. LateUnrecorded'
    <2>1. Unrecorded(late'.added, late'.draft)
        BY <1>3, NothingLate
    <2>2. late'.kind # "create"
        BY <1>1, <1>3, NothingLate, TicketFacts
    <2> QED
        BY <1>1, <1>3, <2>1, <2>2, NoMessageType DEF LateUnrecorded, Unrecorded, F!NoMessage
<1>11. SeenTrue'
    <2>1. ReplacesSeen(late')
        BY <1>3, NothingLate
    <2>2. Accurate(F!Nothing)
        BY <1>1, NothingAccurate
    <2> QED
        BY <1>1, <1>4, <2>1, <2>2, NothingType
        DEF SeenTrue, Accurate, ReplacesSeen, F!Snapshot, F!BodyImages
<1>12. EditorFollows'
    BY <1>4 DEF EditorFollows
<1> QED
    BY <1>5, <1>6, <1>7, <1>8, <1>9, <1>10, <1>11, <1>12

LEMMA ArriveKeeps ==
    ASSUME TicketInv, F!Arrive
    PROVE  TicketInv'
<1> USE DEF TicketInv
<1>1. /\ late # F!NoMessage /\ late' = F!NoMessage
      /\ UNCHANGED <<role, view, editor, loading, sending, unsure, writes>>
    BY DEF F!Arrive
<1>2. writes' \in Nat /\ loading' \in Reading /\ (loading'.stage = "served" => loading' = loading)
    BY <1>1 DEF TicketTyped
<1>3. late \in Request /\ Unrecorded(late.added, late.draft) /\ ticket.version \in Nat
      /\ (late.kind = "create" => ticket.version = 0)
      /\ (ticket.version = 0 => late.kind = "create")
    BY <1>1, TicketFacts DEF LateUnrecorded, BeforeTicket
<1>4. CASE F!Verdict(late) = "done" /\ F!Commits(late)
    <2>1. late.kind \in F!Kinds
        BY <1>1 DEF LateUnrecorded
    <2>2. ServerKeeps(late.added, late.draft)
          /\ ticket'.version = IF late.kind = "comment" THEN ticket.version ELSE ticket.version + 1
        BY <1>3, <1>4, <2>1, CommitsKeep
    <2>3. ticket'.version > 0 /\ ticket'.version # 0
        BY <1>3, <2>2
    <2> QED
        BY <1>1, <1>2, <1>3, <2>2, <2>3, ReadingKeeps
<1>5. CASE F!Interrupted(late) \/ UNCHANGED <<ticket, rows, files, posted>>
    <2>1. ServerKeeps({}, 0) /\ ticket' = ticket
        BY <1>3, <1>5, InterruptedKeeps, StillKeeps DEF F!Interrupted
    <2> QED
        BY <1>1, <1>2, <2>1, ReadingKeeps
<1> QED
    BY <1>4, <1>5 DEF F!Arrive

LEMMA OthersSteps ==
    ASSUME TicketInv,
           F!Others \/ F!Purge \/ F!DropStaged \/ F!Event \/ F!Serve \/ F!FailRead
    PROVE  TicketInv'
<1> USE DEF TicketInv
<1>1. CASE F!Others
    <2>1. ServerKeeps({}, 0) /\ ticket.version > 0
        BY <1>1, OthersKeepTicket
    <2>2. ticket'.version # 0 /\ ticket.version # 0
        BY <2>1, TicketFacts DEF ServerKeeps
    <2>3. writes' = writes + 1 /\ UNCHANGED <<role, view, editor, loading, sending, late, unsure>>
        BY <1>1, Zenon DEF F!Others
    <2>4. writes' \in Nat /\ loading' \in Reading /\ loading' = loading
        BY <2>3 DEF TicketTyped
    <2> QED
        BY <2>1, <2>2, <2>3, <2>4, ReadingKeeps
<1>2. CASE F!Purge \/ F!DropStaged
    <2>1. ServerKeeps({}, 0)
        BY <1>2, PurgeKeeps
    <2>2. /\ ticket' = ticket /\ late' = late /\ loading' = loading /\ writes' = writes
          /\ UNCHANGED <<role, view, editor, sending, unsure>>
        BY <1>2 DEF F!Purge, F!DropStaged
    <2>3. writes' \in Nat /\ loading' \in Reading
        BY <2>2 DEF TicketTyped
    <2> QED
        BY <2>1, <2>2, <2>3, ReadingKeeps
<1>3. CASE F!Event \/ F!Serve \/ F!FailRead
    <2>1. /\ UNCHANGED <<ticket, rows, files, posted>> /\ late' = late /\ writes' = writes
          /\ UNCHANGED <<role, view, editor, sending, unsure>>
        BY <1>3 DEF F!Event, F!Serve, F!FailRead
    <2>2. ServerKeeps({}, 0)
        BY <2>1, StillKeeps
    <2>3. F!Snapshot' = F!Snapshot /\ Accurate(F!Snapshot)
        BY <2>1, SnapshotType, TicketFacts DEF F!Snapshot, F!BodyImages, Accurate
    <2>4. /\ loading' \in Reading
          /\ (loading'.stage = "served" => Accurate(loading.got)')
          /\ (ticket.version = 0 => loading' = F!NotLoading)
        <3>1. CASE F!Event
            BY <3>1, LoadingFacts DEF F!Event
        <3>2. CASE F!Serve
            <4>1. loading.stage = "asked" /\ loading' = [stage |-> "served", got |-> F!Snapshot]
                BY <3>2 DEF F!Serve
            <4>2. ticket.version # 0
                BY <4>1, LoadingFacts DEF BeforeTicket
            <4>3. loading' \in Reading /\ loading'.got = F!Snapshot
                BY <4>1, SnapshotType DEF Reading
            <4>4. Accurate(loading.got)'
                BY <2>1, <2>3, <4>3 DEF Accurate
            <4> QED
                BY <4>2, <4>3, <4>4
        <3>3. CASE F!FailRead
            BY <3>3, LoadingFacts DEF F!FailRead
        <3> QED
            BY <1>3, <3>1, <3>2, <3>3
    <2>5. writes' \in Nat
        BY <2>1 DEF TicketTyped
    <2> QED
        BY <2>1, <2>2, <2>4, <2>5, ReadingKeeps
<1> QED
    BY <1>1, <1>2, <1>3

-----------------------------------------------------------------------------
(* Tickets: every behaviour *)

LEMMA TicketStarts == F!FeedbackInit => TicketInv
<1> SUFFICES ASSUME F!FeedbackInit PROVE TicketInv
    OBVIOUS
<1>1. /\ role \in {"owner", "admin"}
      /\ posted = [d \in 1..MaxDrafts |-> 0]
      /\ view = F!FreshView /\ editor = F!Closed
      /\ sending = F!Idle /\ late = F!NoMessage
      /\ unsure = {} /\ writes = 0
    BY DEF F!FeedbackInit
<1>2. \/ \E first \in SUBSET Groups :
            /\ rows = [i \in Groups |-> IF i \in first THEN "body" ELSE "none"]
            /\ files = [i \in Groups |-> IF i \in first THEN "stored" ELSE "none"]
            /\ ticket = [version |-> 1, status |-> "open", level |-> "low"]
            /\ loading = F!Loading
      \/ /\ rows = [i \in Groups |-> "none"] /\ files = [i \in Groups |-> "none"]
         /\ ticket = [version |-> 0, status |-> "open", level |-> "low"]
         /\ loading = F!NotLoading
    BY Zenon DEF F!FeedbackInit
<1>3. /\ rows \in [Groups -> {"none", "body", "comment", "removed", "purged"}]
      /\ files \in [Groups -> {"none", "staged", "stored"}]
      /\ \A i \in Groups : rows[i] \in {"body", "comment"} => files[i] = "stored"
    BY <1>2
<1>4. /\ ticket \in [version : Nat, status : F!Statuses, level : F!Levels]
      /\ \/ ticket.version = 1 /\ loading = F!Loading
         \/ ticket.version = 0 /\ loading = F!NotLoading
    BY <1>2 DEF F!Statuses, F!Levels
<1>5. posted \in [1..MaxDrafts -> Nat] /\ 0 \notin 1..MaxDrafts
      /\ \A d \in DOMAIN posted : posted[d] = 0
    BY <1>1
<1>6. TicketTyped
    BY <1>1, <1>3, <1>4, <1>5, FreshFacts, ClosedFacts, IdleFacts, LoadingFacts, NoMessageType
    DEF TicketTyped
<1>7. BeforeTicket
    BY <1>1, <1>4, <1>5, ClosedFacts, IdleFacts DEF BeforeTicket
<1>8. DraftsUnsent
    BY <1>1, <1>5, FreshFacts, ClosedFacts DEF DraftsUnsent, Unrecorded, Apart
<1>9. RequestIsDraft
    BY <1>1, IdleFacts DEF RequestIsDraft, OutNow
<1>10. LateUnrecorded
    BY <1>1, <1>6, NothingLate DEF LateUnrecorded
<1>11. SeenTrue
    <2>1. Accurate(F!Nothing)
        <3>1. CASE ticket.version = 1
            BY <1>6, <3>1, NothingAccurate
        <3>2. CASE ticket.version = 0
            <4>1. /\ rows = [i \in Groups |-> "none"]
                  /\ ticket = [version |-> 0, status |-> "open", level |-> "low"]
                BY <1>2, <3>2
            <4>2. F!BodyImages = {}
                BY <4>1 DEF F!BodyImages
            <4>3. F!Snapshot = F!Nothing
                BY <4>1, <4>2 DEF F!Snapshot, F!Nothing
            <4> QED
                BY <3>2, <4>3, NothingType DEF Accurate
        <3> QED
            BY <1>4, <3>1, <3>2
    <2> QED
        BY <1>1, <1>4, <1>6, <2>1, FreshFacts, ClosedFacts, IdleFacts, LoadingFacts, NothingLate,
           NothingType
        DEF SeenTrue
<1>12. EditorFollows
    BY <1>1, ClosedFacts DEF EditorFollows
<1>13. F!RecordedOnce
    BY <1>3, <1>5 DEF F!RecordedOnce
<1> QED
    BY <1>6, <1>7, <1>8, <1>9, <1>10, <1>11, <1>12, <1>13 DEF TicketInv

LEMMA TicketStill == TicketInv /\ UNCHANGED F!feedback => TicketInv'
BY DEF F!feedback, TicketInv, TicketTyped, BeforeTicket, DraftsUnsent, RequestIsDraft,
       LateUnrecorded, SeenTrue, EditorFollows, F!RecordedOnce, Unrecorded, Apart, OutNow,
       EditorKind, EditorDraft, Accurate, ReplacesSeen, F!Snapshot, F!BodyImages

LEMMA TicketKeeps == TicketInv /\ [F!FeedbackNext]_(F!feedback) => TicketInv'
BY TicketStill, OthersSteps, ShowKeeps, OpenKeeps, TypeKeeps, ChooseKeeps, CommentKeeps,
   SaveKeepsTicket, StatusKeeps, LevelKeeps, SubmitCommentKeeps, AskKeepsTicket, AnswerKeeps,
   HandleKeeps, DoneKeeps, RefusedKeeps, OverwriteKeeps, GiveUpKeeps, CrashKeeps, CloseKeeps,
   ReturnKeeps, ArriveKeeps
DEF F!FeedbackNext

LEMMA TicketInvariant == F!FeedbackSpec => []TicketInv
BY TicketStarts, TicketKeeps, PTL DEF F!FeedbackSpec

\* Only the server does what a request says.
LEMMA OnlyHandles ==
    ASSUME TicketInv, F!FeedbackNext, sending.stage = "sent", sending'.stage = "done"
    PROVE  F!Verdict(sending.m) = "done"
<1>1. sending' # F!Idle /\ sending' # sending
    BY IdleFacts
<1>2. ~(F!Others \/ F!Purge \/ F!DropStaged \/ F!Event \/ F!Serve \/ F!Show \/ F!FailRead)
    <2>1. F!Others => sending' = sending
        BY Zenon DEF F!Others
    <2> QED
        BY <1>1, <2>1 DEF F!Purge, F!DropStaged, F!Event, F!Serve, F!Show, F!FailRead
<1>3. ~(F!OpenEditor \/ F!Type \/ F!Choose \/ F!Comment)
    BY DEF F!OpenEditor, F!Type, F!Choose, F!Comment, F!Free
<1>4. ~(F!SaveEditor \/ F!SubmitStatus \/ F!ChangeLevel \/ F!SubmitComment \/ F!AskWithdraw)
    <2>1. ASSUME NEW m PROVE ~F!Sends(m)
        BY DEF F!Sends, F!Free
    <2> QED
        BY <2>1 DEF F!SaveEditor, F!SubmitStatus, F!ChangeLevel, F!SubmitComment, F!AskWithdraw,
                    F!Free
<1>5. ~(F!AnswerWithdraw \/ F!Done \/ F!Refused \/ F!AnswerOverwrite)
    BY DEF F!AnswerWithdraw, F!Done, F!Refused, F!AnswerOverwrite
<1>6. ~(F!GiveUp \/ F!Crash \/ F!CloseEditor \/ F!Return \/ F!Arrive)
    BY <1>1 DEF F!GiveUp, F!Crash, F!CloseEditor, F!Return, F!Arrive
<1>7. F!Handle
    BY <1>2, <1>3, <1>4, <1>5, <1>6 DEF F!FeedbackNext
<1>8. CASE F!Verdict(sending.m) # "done"
    <2>1. sending' = [sending EXCEPT !.stage = F!Verdict(sending.m)]
        BY <1>7, <1>8 DEF F!Handle
    <2>2. sending'.stage = F!Verdict(sending.m)
        BY <2>1, TicketFacts DEF TicketInv, Sending
    <2> QED
        BY <1>8, <2>2
<1> QED
    BY <1>8

LEMMA OnlyArrives ==
    ASSUME TicketInv, F!FeedbackNext, late # F!NoMessage, late' = F!NoMessage, ticket' # ticket
    PROVE  F!Verdict(late) = "done"
<1>1. late' # late
    OBVIOUS
<1>2. ~(F!Others \/ F!Purge \/ F!DropStaged \/ F!Event \/ F!Serve \/ F!Show \/ F!FailRead)
    <2>1. F!Others => late' = late
        BY Zenon DEF F!Others
    <2> QED
        BY <1>1, <2>1 DEF F!Purge, F!DropStaged, F!Event, F!Serve, F!Show, F!FailRead
<1>3. ~(F!OpenEditor \/ F!Type \/ F!Choose \/ F!Comment)
    BY DEF F!OpenEditor, F!Type, F!Choose, F!Comment
<1>4. ~(F!SaveEditor \/ F!SubmitStatus \/ F!ChangeLevel \/ F!SubmitComment \/ F!AskWithdraw)
    <2>1. ASSUME NEW m PROVE ~F!Sends(m)
        BY DEF F!Sends
    <2> QED
        BY <2>1 DEF F!SaveEditor, F!SubmitStatus, F!ChangeLevel, F!SubmitComment, F!AskWithdraw
<1>5. ~(F!AnswerWithdraw \/ F!Done \/ F!Refused \/ F!AnswerOverwrite \/ F!Handle)
    BY DEF F!AnswerWithdraw, F!Done, F!Refused, F!AnswerOverwrite, F!Handle
<1>6. ~(F!GiveUp \/ F!Crash \/ F!CloseEditor \/ F!Return)
    BY DEF F!GiveUp, F!Crash, F!CloseEditor, F!Return
<1>7. F!Arrive
    BY <1>2, <1>3, <1>4, <1>5, <1>6 DEF F!FeedbackNext
<1> QED
    BY <1>7 DEF F!Arrive, F!Interrupted

\* A request is done only of a ticket that is as it was seen, unless its author confirmed.
LEMMA TicketReplaces ==
    ASSUME TicketInv, F!FeedbackNext, NEW m \in {sending.m, late}, F!Handles(m), ~m.overwrite
    PROVE  F!Replaced(m, F!Snapshot) = F!Replaced(m, m.seen)
<1>1. m \in Request /\ ReplacesSeen(m) /\ F!Verdict(m) = "done"
    <2>1. CASE sending.stage = "sent" /\ sending'.stage = "done" /\ m = sending.m
        <3>1. F!Verdict(m) = "done"
            BY <2>1, OnlyHandles
        <3> QED
            BY <2>1, <3>1, TicketFacts DEF TicketInv, SeenTrue
    <2>2. CASE late # F!NoMessage /\ late' = F!NoMessage /\ m = late /\ ticket' # ticket
        <3>1. F!Verdict(m) = "done"
            BY <2>2, OnlyArrives
        <3> QED
            BY <2>2, <3>1, TicketFacts DEF TicketInv, SeenTrue
    <2> QED
        BY <2>1, <2>2 DEF F!Handles
<1>2. m.kind \notin {"create", "comment"} => ticket.version = m.expected
    BY <1>1, VerdictFacts DEF F!Stale
<1>3. F!Snapshot.level = ticket.level /\ F!Snapshot.status = ticket.status
      /\ F!Snapshot.images = F!BodyImages
    BY SnapshotType DEF TicketInv
<1>4. m.kind \in F!Kinds \cup {"none"}
    BY <1>1 DEF Request
<1> QED
    BY <1>1, <1>2, <1>3, <1>4 DEF ReplacesSeen, F!Replaced, F!Kinds

LEMMA TicketsKeptLemma == F!FeedbackSpec => F!TicketsKept
<1>1. TicketInv /\ [F!FeedbackNext]_(F!feedback) =>
        [\A m \in {sending.m, late} :
            /\ F!Handles(m) /\ ~m.overwrite
            => F!Replaced(m, F!Snapshot) = F!Replaced(m, m.seen)]_(F!feedback)
    BY TicketReplaces
<1> QED
    BY <1>1, TicketInvariant, PTL DEF F!FeedbackSpec, F!TicketsKept

LEMMA ShowsLeave ==
    ASSUME TicketInv, F!Show
    PROVE  /\ F!Dirty(editor) => editor' = editor
           /\ <<view'.choice, view'.draft, view'.added>> = <<view.choice, view.draft, view.added>>
<1> DEFINE shown == IF view.shown.version > loading.got.version THEN view.shown ELSE loading.got
           v1 == [view EXCEPT !.shown = shown]
           v2 == [v1 EXCEPT !.base = F!BaseAfter(loading.got)]
<1>1. view \in Viewing /\ editor \in Dialog /\ shown \in Snap
    BY TicketFacts DEF TicketInv, F!Show, TicketTyped, Reading
<1>2. \/ view' = view /\ editor' = editor
      \/ view' = v2 /\ editor' = IF F!Free THEN F!Synced(editor, shown) ELSE editor
    BY Zenon DEF F!Show
<1> HIDE DEF shown
<1>3. v1.choice = view.choice /\ v1.draft = view.draft /\ v1.added = view.added
    BY <1>1 DEF Viewing
<1>4. DOMAIN v1 = DOMAIN view
    OBVIOUS
<1> HIDE DEF v1
<1>5. v2.choice = view.choice /\ v2.draft = view.draft /\ v2.added = view.added
    BY <1>1, <1>3, <1>4 DEF Viewing
<1> HIDE DEF v2
<1>6. F!Dirty(editor) => editor' = editor
    BY <1>1, <1>2, SyncedFacts
<1> QED
    BY <1>2, <1>5, <1>6

LEMMA TicketDraftsKept == F!FeedbackSpec => F!FeedbackDraftsKept
<1> DEFINE Left ==
        /\ F!Show => /\ F!Dirty(editor) => editor' = editor
                     /\ <<view'.choice, view'.draft, view'.added>> = <<view.choice, view.draft, view.added>>
        /\ editor'.open /\ editor'.saved.version > 0 /\ ~F!Dirty(editor') /\ sending' = F!Idle
           => editor'.saved.version >= view'.shown.version
<1>1. TicketInv /\ TicketInv' /\ [F!FeedbackNext]_(F!feedback) => [Left]_(F!feedback)
    <2>1. TicketInv' => (editor'.open /\ editor'.saved.version > 0 /\ ~F!Dirty(editor') /\ sending' = F!Idle
                            => editor'.saved.version >= view'.shown.version)
        BY DEF TicketInv, EditorFollows, F!Dirty, F!Idle, F!NoMessage, F!Message, F!Nothing
    <2> QED
        BY <2>1, ShowsLeave
<1> QED
    BY <1>1, TicketInvariant, PTL DEF F!FeedbackSpec, F!FeedbackDraftsKept

-----------------------------------------------------------------------------
(* Settings: the inductive invariant *)

PageFields ==
    {"at", "admin", "smtp", "versions", "form", "list", "input", "conf", "on", "secret",
     "formBase", "confBase"}

StoresTyped ==
    /\ DOMAIN store = {"form", "domains", "empty", "version"}
    /\ DOMAIN store.form = Forms /\ store.version \in Nat
    /\ mail.version \in Nat

\* What a section names as its version is the version of what its draft was made from.
DraftsBased ==
    /\ DOMAIN page = PageFields /\ page.versions \in [S!Paths -> Nat]
    /\ \A p \in S!Paths \ {"mail"} : page.versions[p] <= store.version
    /\ \A s \in Forms : page.versions[s] = store.version => page.formBase[s] = store.form[s]
    /\ page.versions["domains"] = store.version => page.list = store.domains
    /\ page.versions["mail"] <= mail.version
    /\ page.versions["mail"] = mail.version =>
          page.confBase = mail.conf /\ page.smtp.on = mail.on

ReadTrue ==
    /\ read.admin.version \in Nat /\ read.admin.version <= store.version
    /\ read.admin.version = store.version => read.admin = store
    /\ read.smtp.version \in Nat /\ read.smtp.version <= mail.version
    /\ read.smtp.version = mail.version => read.smtp = mail

\* A write says what is drafted.
WriteOfDraft(w) ==
    /\ DOMAIN w = {"kind", "path", "value", "version", "forced"} /\ w.path \in S!Paths
    /\ w.path \in Forms => w.value = page.form[w.path]
    /\ w.path = "mail" => w.value.switch \/ w.value.conf = page.conf

\* While the page asks whether to overwrite, the draft stands still.
AskedOfDraft ==
    /\ asked.kind \in {"switch off", "overwrite"} => page.at = "here"
    /\ asked.kind = "overwrite" => read = S!None /\ WriteOfDraft(asked.write)

SettingsInv ==
    /\ StoresTyped
    /\ page.at = "here" => DraftsBased
    /\ read # S!None => ReadTrue
    /\ AskedOfDraft

-----------------------------------------------------------------------------
(* Settings: writes *)

LEMMA SetField ==
    ASSUME NEW r, NEW f \in DOMAIN r, NEW v, NEW s, s = [r EXCEPT ![f] = v]
    PROVE  /\ DOMAIN s = DOMAIN r /\ s[f] = v
           /\ \A g \in DOMAIN r : g # f => s[g] = r[g]
OBVIOUS

LEMMA SectionsApart == /\ "mail" \notin Forms /\ "domains" \notin Forms /\ "empty" \notin Forms
                       /\ S!Paths = Forms \cup {"domains", "empty", "mail"}
BY FormsAssumption DEF S!Paths

\* Whatever is written moves the version it belongs to.
Moves ==
    /\ StoresTyped'
    /\ store.version <= store'.version /\ (store'.version = store.version => store' = store)
    /\ mail.version <= mail'.version /\ (mail'.version = mail.version => mail' = mail)

LEMMA WritesMove ==
    ASSUME StoresTyped, NEW w, w.path \in S!Paths, S!Writes(w)
    PROVE  /\ Moves
           /\ w.path # "mail" => store'.version = store.version + 1 /\ mail' = mail
           /\ w.path = "mail" => /\ store' = store /\ mail'.version = mail.version + 1
                                 /\ mail'.conf = w.value.conf /\ mail'.on = w.value.on
           /\ w.path # "domains" => store'.domains = store.domains
           /\ w.path = "domains" => store'.domains = w.value
           /\ \A s \in Forms : store'.form[s] = IF s = w.path THEN w.value ELSE store.form[s]
<1>1. store' = S!StoreAfter(w) /\ mail' = S!MailAfter(w)
    BY DEF S!Writes
<1>2. CASE w.path \in Forms
    <2> DEFINE v == store.version + 1
               f == [store.form EXCEPT ![w.path] = w.value]
               s1 == [store EXCEPT !.form = f]
               s2 == [s1 EXCEPT !.version = v]
    <2>1. store' = [store EXCEPT !.form[w.path] = w.value, !.version = @ + 1]
        BY <1>1, <1>2, SectionsApart DEF S!StoreAfter
    <2>2. /\ s1.form = f /\ s1.version = store.version /\ s1.domains = store.domains
          /\ DOMAIN s1 = DOMAIN store
        BY DEF StoresTyped
    <2>3. store' = [s1 EXCEPT !.version = @ + 1]
        BY <2>1, Zenon
    <2> HIDE DEF s1
    <2>4. store' = s2
        BY <2>2, <2>3
    <2> HIDE DEF v
    <2>5. /\ store'.form = f /\ store'.version = v /\ store'.domains = store.domains
          /\ DOMAIN store' = DOMAIN store
        BY <2>2, <2>4 DEF StoresTyped
    <2>6. DOMAIN f = Forms /\ \A s \in Forms : f[s] = IF s = w.path THEN w.value ELSE store.form[s]
        BY DEF StoresTyped
    <2> HIDE DEF f
    <2>7. mail' = mail /\ w.path # "mail" /\ w.path # "domains"
        BY <1>1, <1>2, SectionsApart DEF S!MailAfter
    <2> QED
        BY <1>2, <2>5, <2>6, <2>7 DEF StoresTyped, Moves, v
<1>3. CASE w.path = "domains"
    <2> DEFINE s1 == [store EXCEPT !.domains = w.value]
               s2 == [s1 EXCEPT !.version = store.version + 1]
    <2>1. store' = [store EXCEPT !.domains = w.value, !.version = @ + 1] /\ mail' = mail
        BY <1>1, <1>3, SectionsApart DEF S!StoreAfter, S!MailAfter
    <2>2. /\ s1.form = store.form /\ s1.version = store.version /\ s1.domains = w.value
          /\ DOMAIN s1 = DOMAIN store
        BY DEF StoresTyped
    <2>3. store' = [s1 EXCEPT !.version = @ + 1]
        BY <2>1, Zenon
    <2> HIDE DEF s1
    <2>4. store' = s2
        BY <2>2, <2>3
    <2>5. /\ store'.form = store.form /\ store'.version = store.version + 1 /\ store'.domains = w.value
          /\ DOMAIN store' = DOMAIN store
        BY <2>2, <2>4 DEF StoresTyped
    <2> QED
        BY <1>3, <2>1, <2>5, SectionsApart DEF StoresTyped, Moves
<1>4. CASE w.path = "empty"
    <2> DEFINE s1 == [store EXCEPT !.empty = w.value]
               s2 == [s1 EXCEPT !.version = store.version + 1]
    <2>1. store' = [store EXCEPT !.empty = w.value, !.version = @ + 1] /\ mail' = mail
        BY <1>1, <1>4, SectionsApart DEF S!StoreAfter, S!MailAfter
    <2>2. /\ s1.form = store.form /\ s1.version = store.version /\ s1.domains = store.domains
          /\ DOMAIN s1 = DOMAIN store
        BY DEF StoresTyped
    <2>3. store' = [s1 EXCEPT !.version = @ + 1]
        BY <2>1, Zenon
    <2> HIDE DEF s1
    <2>4. store' = s2
        BY <2>2, <2>3
    <2>5. /\ store'.form = store.form /\ store'.version = store.version + 1
          /\ store'.domains = store.domains /\ DOMAIN store' = DOMAIN store
        BY <2>2, <2>4 DEF StoresTyped
    <2> QED
        BY <1>4, <2>1, <2>5, SectionsApart DEF StoresTyped, Moves
<1>5. CASE w.path = "mail"
    <2>1. store' = store
        BY <1>1, <1>5, SectionsApart DEF S!StoreAfter
    <2>2. mail' = [conf |-> w.value.conf, on |-> w.value.on, secret |-> S!SecretAfter(w),
                   version |-> mail.version + 1]
        BY <1>1, <1>5 DEF S!MailAfter
    <2>3. mail'.version = mail.version + 1 /\ mail'.conf = w.value.conf /\ mail'.on = w.value.on
        BY <2>2
    <2> QED
        BY <1>5, <2>1, <2>3, SectionsApart DEF StoresTyped, Moves
<1> QED
    BY <1>2, <1>3, <1>4, <1>5, SectionsApart

LEMMA StillMoves == StoresTyped /\ UNCHANGED <<store, mail>> => Moves
BY DEF Moves, StoresTyped

\* What was drafted or read stays what it was, of the version it was of.
LEMMA BasedAfter ==
    ASSUME StoresTyped, DraftsBased, Moves,
           DOMAIN page' = PageFields, page'.versions = page.versions,
           page'.formBase = page.formBase, page'.list = page.list,
           page'.confBase = page.confBase, page'.smtp = page.smtp
    PROVE  DraftsBased'
BY SectionsApart DEF StoresTyped, DraftsBased, Moves

LEMMA ReadAfter ==
    ASSUME StoresTyped, Moves, read' = read, ReadTrue
    PROVE  ReadTrue'
BY DEF StoresTyped, ReadTrue, Moves

-----------------------------------------------------------------------------
(* Settings: what the page shows after a write *)

LEMMA SavedFacts ==
    ASSUME DraftsBased, NEW w, NEW a, a.version \in Nat, NEW r, r = S!Saved(w, a)
    PROVE  /\ DOMAIN r = PageFields /\ r.at = page.at /\ r.smtp = page.smtp
           /\ r.conf = page.conf /\ r.confBase = page.confBase
           /\ r.versions \in [S!Paths -> Nat]
           /\ \A p \in S!Paths : r.versions[p] = IF S!Adopts(p, w.path) THEN a.version ELSE page.versions[p]
           /\ \A s \in Forms :
                 /\ r.form[s] = IF S!Adopts(s, w.path) THEN a.form[s] ELSE page.form[s]
                 /\ r.formBase[s] = IF S!Adopts(s, w.path) THEN a.form[s] ELSE page.formBase[s]
           /\ r.list = IF S!Adopts("domains", w.path) THEN a.domains ELSE page.list
           /\ r.input = IF w.path = "domains" /\ page.input \in w.value \ page.list
                        THEN "none" ELSE page.input
<1> DEFINE forms(old) == [s \in Forms |-> IF S!Adopts(s, w.path) THEN a.form[s] ELSE old[s]]
           p1 == [page EXCEPT !.admin = a]
           p2 == [p1 EXCEPT !.versions =
                     [p \in S!Paths |-> IF S!VersionAdopted(p, w.path) THEN a.version ELSE page.versions[p]]]
           p3 == [p2 EXCEPT !.form = forms(page.form)]
           p4 == [p3 EXCEPT !.formBase = forms(page.formBase)]
           p5 == [p4 EXCEPT !.list = IF S!Adopts("domains", w.path) THEN a.domains ELSE page.list]
           p6 == [p5 EXCEPT !.input = IF w.path = "domains" /\ page.input \in w.value \ page.list
                                      THEN "none" ELSE page.input]
<1>1. r = p6
    BY Zenon DEF S!Saved
<1>2. DOMAIN page = PageFields /\ page.versions \in [S!Paths -> Nat]
    BY DEF DraftsBased
<1>3. /\ DOMAIN p1 = PageFields
      /\ \A f \in PageFields : f # "admin" => p1[f] = page[f]
    BY <1>2 DEF PageFields
<1> HIDE DEF p1
<1>4. /\ DOMAIN p2 = PageFields
      /\ p2.versions = [p \in S!Paths |-> IF S!VersionAdopted(p, w.path) THEN a.version ELSE page.versions[p]]
      /\ \A f \in PageFields : f # "versions" => p2[f] = p1[f]
    BY <1>3 DEF PageFields
<1> HIDE DEF p2
<1>5. /\ DOMAIN p3 = PageFields /\ p3.form = forms(page.form)
      /\ \A f \in PageFields : f # "form" => p3[f] = p2[f]
    BY <1>4 DEF PageFields
<1> HIDE DEF p3
<1>6. /\ DOMAIN p4 = PageFields /\ p4.formBase = forms(page.formBase)
      /\ \A f \in PageFields : f # "formBase" => p4[f] = p3[f]
    BY <1>5 DEF PageFields
<1> HIDE DEF p4
<1>7. /\ DOMAIN p5 = PageFields
      /\ p5.list = IF S!Adopts("domains", w.path) THEN a.domains ELSE page.list
      /\ \A f \in PageFields : f # "list" => p5[f] = p4[f]
    BY <1>6 DEF PageFields
<1> HIDE DEF p5
<1>8. /\ DOMAIN p6 = PageFields
      /\ p6.input = IF w.path = "domains" /\ page.input \in w.value \ page.list
                      THEN "none" ELSE page.input
      /\ \A f \in PageFields : f # "input" => p6[f] = p5[f]
    BY <1>7 DEF PageFields
<1> HIDE DEF p6
<1>9. /\ r.at = page.at /\ r.smtp = page.smtp /\ r.conf = page.conf /\ r.confBase = page.confBase
      /\ r.versions = p2.versions /\ r.form = p3.form /\ r.formBase = p4.formBase
      /\ r.list = p5.list /\ r.input = p6.input
    BY <1>1, <1>3, <1>4, <1>5, <1>6, <1>7, <1>8 DEF PageFields
<1>10. DOMAIN r = PageFields /\ r.versions \in [S!Paths -> Nat]
    BY <1>1, <1>2, <1>4, <1>8, <1>9
<1> QED
    BY <1>4, <1>5, <1>6, <1>7, <1>8, <1>9, <1>10 DEF S!VersionAdopted

LEMMA SavedMailFacts ==
    ASSUME DraftsBased, NEW s, s.version \in Nat, NEW r, r = S!SavedMail(s)
    PROVE  /\ DOMAIN r = PageFields /\ r.at = page.at /\ r.smtp = s
           /\ r.conf = s.conf /\ r.confBase = s.conf /\ r.form = page.form
           /\ r.formBase = page.formBase /\ r.list = page.list /\ r.input = page.input
           /\ r.versions = [page.versions EXCEPT !["mail"] = s.version]
<1> DEFINE p1 == [page EXCEPT !.smtp = s]
           p2 == [p1 EXCEPT !.versions["mail"] = s.version]
           p3 == [p2 EXCEPT !.conf = s.conf]
           p4 == [p3 EXCEPT !.on = s.on]
           p5 == [p4 EXCEPT !.secret = "keep"]
           p6 == [p5 EXCEPT !.confBase = s.conf]
<1>1. r = p6
    BY Zenon DEF S!SavedMail
<1>2. DOMAIN page = PageFields
    BY DEF DraftsBased
<1>3. DOMAIN p1 = PageFields /\ p1.smtp = s /\ \A f \in PageFields : f # "smtp" => p1[f] = page[f]
    BY <1>2 DEF PageFields
<1> HIDE DEF p1
<1>4. /\ DOMAIN p2 = PageFields /\ p2.versions = [p1.versions EXCEPT !["mail"] = s.version]
      /\ \A f \in PageFields : f # "versions" => p2[f] = p1[f]
    BY <1>3 DEF PageFields
<1> HIDE DEF p2
<1>5. DOMAIN p3 = PageFields /\ p3.conf = s.conf /\ \A f \in PageFields : f # "conf" => p3[f] = p2[f]
    BY <1>4 DEF PageFields
<1> HIDE DEF p3
<1>6. DOMAIN p4 = PageFields /\ \A f \in PageFields : f # "on" => p4[f] = p3[f]
    BY <1>5 DEF PageFields
<1> HIDE DEF p4
<1>7. DOMAIN p5 = PageFields /\ \A f \in PageFields : f # "secret" => p5[f] = p4[f]
    BY <1>6 DEF PageFields
<1> HIDE DEF p5
<1>8. /\ DOMAIN p6 = PageFields /\ p6.confBase = s.conf
      /\ \A f \in PageFields : f # "confBase" => p6[f] = p5[f]
    BY <1>7 DEF PageFields
<1> HIDE DEF p6
<1>9. r = p6
    BY <1>1
<1>10. r.versions = p2.versions /\ p1.versions = page.versions
    BY <1>3, <1>5, <1>6, <1>7, <1>8, <1>9 DEF PageFields
<1>11. r.smtp = s /\ r.conf = s.conf
    BY <1>3, <1>4, <1>5, <1>6, <1>7, <1>8, <1>9 DEF PageFields
<1>12. /\ r.at = page.at /\ r.form = page.form
       /\ r.formBase = page.formBase /\ r.list = page.list /\ r.input = page.input
    BY <1>3, <1>4, <1>5, <1>6, <1>7, <1>8, <1>9 DEF PageFields
<1> QED
    BY <1>4, <1>8, <1>9, <1>10, <1>11, <1>12

LEMMA SwitchedFacts ==
    ASSUME DraftsBased, NEW s, s.version \in Nat, NEW r, r = S!Switched(s)
    PROVE  /\ DOMAIN r = PageFields /\ r.at = page.at /\ r.smtp = s
           /\ r.conf = page.conf /\ r.confBase = s.conf /\ r.form = page.form
           /\ r.formBase = page.formBase /\ r.list = page.list /\ r.input = page.input
           /\ r.versions = [page.versions EXCEPT !["mail"] = IF S!Dirty("mail") THEN @ ELSE s.version]
<1> DEFINE p1 == [page EXCEPT !.smtp = s]
           p2 == [p1 EXCEPT !.on = s.on]
           p3 == [p2 EXCEPT !.confBase = s.conf]
           p4 == [p3 EXCEPT !.versions["mail"] = IF S!Dirty("mail") THEN @ ELSE s.version]
<1>1. r = p4
    BY Zenon DEF S!Switched
<1>2. DOMAIN page = PageFields
    BY DEF DraftsBased
<1>3. DOMAIN p1 = PageFields /\ p1.smtp = s /\ \A f \in PageFields : f # "smtp" => p1[f] = page[f]
    BY <1>2 DEF PageFields
<1> HIDE DEF p1
<1>4. DOMAIN p2 = PageFields /\ \A f \in PageFields : f # "on" => p2[f] = p1[f]
    BY <1>3 DEF PageFields
<1> HIDE DEF p2
<1>5. /\ DOMAIN p3 = PageFields /\ p3.confBase = s.conf
      /\ \A f \in PageFields : f # "confBase" => p3[f] = p2[f]
    BY <1>4 DEF PageFields
<1> HIDE DEF p3
<1>6. /\ DOMAIN p4 = PageFields
      /\ p4.versions = [p3.versions EXCEPT !["mail"] = IF S!Dirty("mail") THEN @ ELSE s.version]
      /\ \A f \in PageFields : f # "versions" => p4[f] = p3[f]
    BY <1>5 DEF PageFields
<1> HIDE DEF p4
<1>7. r = p4
    BY <1>1
<1>8. p3.versions = page.versions
    BY <1>3, <1>4, <1>5 DEF PageFields
<1>9. /\ r.at = page.at /\ r.form = page.form /\ r.conf = page.conf /\ r.smtp = s /\ r.confBase = s.conf
      /\ r.formBase = page.formBase /\ r.list = page.list /\ r.input = page.input
    BY <1>3, <1>4, <1>5, <1>6, <1>7 DEF PageFields
<1> QED
    BY <1>6, <1>7, <1>8, <1>9

\* A failure changes at most how the switch is shown.
LEMMA FailedFacts ==
    ASSUME DraftsBased, NEW w, NEW r, r = S!Failed(w)
    PROVE  /\ DOMAIN r = PageFields
           /\ \A f \in PageFields \ {"on"} : r[f] = page[f]
<1>1. DOMAIN page = PageFields
    BY DEF DraftsBased
<1>2. r = page \/ r = [page EXCEPT !.on = ~w.value.on]
    BY DEF S!Failed
<1> QED
    BY <1>1, <1>2 DEF PageFields

\* What is drafted stays, until it is saved.
DraftsStay ==
    /\ \A s \in Forms : S!Dirty(s) => page'.form[s] = page.form[s]
    /\ S!Dirty("mail") => page'.conf = page.conf
    /\ page'.input # page.input => page.input \in store'.domains

LEMMA AfterKeeps ==
    ASSUME StoresTyped, DraftsBased, NEW w, WriteOfDraft(w), S!Writes(w), page' = S!After(w)
    PROVE  DraftsBased' /\ page'.at = page.at /\ DraftsStay
<1>1. w.path \in S!Paths
    BY DEF WriteOfDraft
<1>2. /\ Moves
      /\ w.path # "mail" => store'.version = store.version + 1 /\ mail' = mail
      /\ w.path = "mail" => /\ store' = store /\ mail'.version = mail.version + 1
                            /\ mail'.conf = w.value.conf /\ mail'.on = w.value.on
      /\ w.path = "domains" => store'.domains = w.value
      /\ \A s \in Forms : store'.form[s] = IF s = w.path THEN w.value ELSE store.form[s]
    BY <1>1, WritesMove
<1>3. store.version \in Nat /\ mail.version \in Nat /\ store'.version \in Nat /\ mail'.version \in Nat
    BY <1>2 DEF StoresTyped, Moves
<1>4. /\ DOMAIN page = PageFields /\ page.versions \in [S!Paths -> Nat]
      /\ \A p \in S!Paths \ {"mail"} : page.versions[p] <= store.version
      /\ "mail" \in S!Paths /\ page.versions["mail"] <= mail.version
      /\ page.versions["mail"] = mail.version =>
            page.confBase = mail.conf /\ page.smtp.on = mail.on
    BY SectionsApart DEF DraftsBased
<1>5. CASE w.path # "mail"
    <2>1. page' = S!Saved(w, store')
        BY <1>5 DEF S!After
    <2>2. /\ DOMAIN page' = PageFields /\ page'.at = page.at /\ page'.smtp = page.smtp
          /\ page'.conf = page.conf /\ page'.confBase = page.confBase
          /\ page'.versions \in [S!Paths -> Nat]
          /\ \A p \in S!Paths : page'.versions[p] =
                IF S!Adopts(p, w.path) THEN store'.version ELSE page.versions[p]
          /\ \A s \in Forms :
                /\ page'.form[s] = IF S!Adopts(s, w.path) THEN store'.form[s] ELSE page.form[s]
                /\ page'.formBase[s] = IF S!Adopts(s, w.path) THEN store'.form[s] ELSE page.formBase[s]
          /\ page'.list = IF S!Adopts("domains", w.path) THEN store'.domains ELSE page.list
          /\ page'.input = IF w.path = "domains" /\ page.input \in w.value \ page.list
                           THEN "none" ELSE page.input
        BY <1>3, <2>1, SavedFacts
    <2>3. \A p \in S!Paths : page.versions[p] \in Nat
        BY <1>4
    <2>4. \A p \in S!Paths \ {"mail"} : page'.versions[p] <= store'.version
        BY <1>2, <1>3, <1>4, <1>5, <2>2, <2>3
    <2>5. \A p \in S!Paths \ {"mail"} : page'.versions[p] = store'.version => S!Adopts(p, w.path)
        BY <1>2, <1>3, <1>4, <1>5, <2>2, <2>3
    <2>6. \A s \in Forms : page'.versions[s] = store'.version => page'.formBase[s] = store'.form[s]
        BY <2>2, <2>5, SectionsApart
    <2>7. page'.versions["domains"] = store'.version => page'.list = store'.domains
        BY <2>2, <2>5, SectionsApart
    <2>8. page'.versions["mail"] = page.versions["mail"]
        BY <1>4, <2>2 DEF S!Adopts
    <2>9. DraftsBased'
        BY <1>2, <1>4, <1>5, <2>2, <2>4, <2>6, <2>7, <2>8 DEF DraftsBased
    <2>10. \A s \in Forms : S!Dirty(s) => page'.form[s] = page.form[s]
        BY <1>2, <2>2 DEF S!Adopts, WriteOfDraft
    <2> QED
        BY <1>2, <2>2, <2>9, <2>10 DEF DraftsStay
<1>6. CASE w.path = "mail" /\ ~w.value.switch
    <2>1. page' = S!SavedMail(mail')
        BY <1>6 DEF S!After
    <2>2. /\ DOMAIN page' = PageFields /\ page'.at = page.at /\ page'.smtp = mail'
          /\ page'.conf = mail'.conf /\ page'.confBase = mail'.conf /\ page'.form = page.form
          /\ page'.formBase = page.formBase /\ page'.list = page.list /\ page'.input = page.input
          /\ page'.versions = [page.versions EXCEPT !["mail"] = mail'.version]
        BY <1>3, <2>1, SavedMailFacts
    <2>3. DraftsBased'
        BY <1>2, <1>3, <1>4, <1>6, <2>2, SectionsApart DEF DraftsBased
    <2>4. page'.conf = page.conf
        BY <1>2, <1>6, <2>2 DEF WriteOfDraft
    <2> QED
        BY <2>2, <2>3, <2>4 DEF DraftsStay
<1>7. CASE w.path = "mail" /\ w.value.switch
    <2>1. page' = S!Switched(mail')
        BY <1>7 DEF S!After
    <2>2. /\ DOMAIN page' = PageFields /\ page'.at = page.at /\ page'.smtp = mail'
          /\ page'.conf = page.conf /\ page'.confBase = mail'.conf /\ page'.form = page.form
          /\ page'.formBase = page.formBase /\ page'.list = page.list /\ page'.input = page.input
          /\ page'.versions = [page.versions EXCEPT !["mail"] = IF S!Dirty("mail") THEN @ ELSE mail'.version]
        BY <1>3, <2>1, SwitchedFacts
    <2>3. DraftsBased'
        BY <1>2, <1>3, <1>4, <1>7, <2>2, SectionsApart DEF DraftsBased
    <2> QED
        BY <2>2, <2>3 DEF DraftsStay
<1> QED
    BY <1>5, <1>6, <1>7

LEMMA FailedKeeps ==
    ASSUME StoresTyped, DraftsBased, NEW w, Moves, page' = S!Failed(w)
    PROVE  DraftsBased' /\ page'.at = page.at /\ DraftsStay
<1>1. DOMAIN page' = PageFields /\ \A f \in PageFields \ {"on"} : page'[f] = page[f]
    BY FailedFacts
<1>2. /\ page'.at = page.at /\ page'.versions = page.versions /\ page'.form = page.form
      /\ page'.formBase = page.formBase /\ page'.list = page.list /\ page'.input = page.input
      /\ page'.confBase = page.confBase /\ page'.smtp = page.smtp /\ page'.conf = page.conf
    BY <1>1 DEF PageFields
<1> QED
    BY <1>1, <1>2, BasedAfter DEF DraftsStay

LEMMA SendsKeepSettings ==
    ASSUME SettingsInv, page.at = "here", NEW w, WriteOfDraft(w), S!Sends(w)
    PROVE  /\ SettingsInv' /\ DraftsStay
           /\ UNCHANGED <<store, mail>> \/ (S!Writes(w) /\ ~S!Conflicts(w))
<1> USE DEF SettingsInv
<1>1. read' = S!None /\ S!None.kind = "none"
    BY DEF S!Sends, S!None
<1>2. CASE ~S!Conflicts(w) /\ S!Writes(w) /\ page' = S!After(w) /\ asked' = S!None
    <2>1. DraftsBased' /\ page'.at = page.at /\ DraftsStay
        BY <1>2, AfterKeeps
    <2>2. StoresTyped'
        BY <1>2, WritesMove DEF WriteOfDraft, Moves
    <2> QED
        BY <1>1, <1>2, <2>1, <2>2 DEF AskedOfDraft
<1>3. CASE asked' = [kind |-> "overwrite", write |-> w] /\ UNCHANGED <<store, mail, page, uncertain>>
    <2>1. StoresTyped' /\ DraftsBased'
        BY <1>3 DEF StoresTyped, DraftsBased
    <2>2. AskedOfDraft'
        BY <1>1, <1>3 DEF AskedOfDraft, WriteOfDraft
    <2> QED
        BY <1>1, <1>3, <2>1, <2>2 DEF DraftsStay
<1>4. CASE /\ UNCHANGED <<store, mail>> \/ (~S!Conflicts(w) /\ S!Writes(w))
           /\ page' = S!Failed(w) /\ asked' = S!None
    <2>1. Moves
        BY <1>4, WritesMove, StillMoves DEF WriteOfDraft
    <2>2. DraftsBased' /\ page'.at = page.at /\ DraftsStay
        BY <1>4, <2>1, FailedKeeps
    <2> QED
        BY <1>1, <1>4, <2>1, <2>2 DEF AskedOfDraft, Moves
<1> QED
    BY <1>2, <1>3, <1>4 DEF S!Sends

-----------------------------------------------------------------------------
(* Settings: the steps *)

\* What is replaced is what the page's drafts were made from.
WrittenSeen ==
    /\ \A s \in Forms : store'.form[s] # store.form[s] => page.formBase[s] = store.form[s]
    /\ store'.domains # store.domains => page.list = store.domains
    /\ mail'.conf # mail.conf => page.confBase = mail.conf
    /\ mail'.on # mail.on => page.smtp.on = mail.on

StepKept ==
    /\ SettingsInv'
    /\ page.at = "here" /\ page'.at = "here" /\ ~S!Type => DraftsStay
    /\ S!PageWrites /\ asked = S!None => WrittenSeen

LEMMA FreeFacts == S!Free => page.at = "here" /\ asked = S!None /\ asked.kind = "none"
BY DEF S!Free, S!Here, S!None

LEMMA ReplacesSeenOnly ==
    ASSUME SettingsInv, page.at = "here", NEW path \in S!Paths, NEW value,
           S!Writes(S!Section(path, value, page.versions[path])),
           ~S!Conflicts(S!Section(path, value, page.versions[path]))
    PROVE  WrittenSeen
<1> DEFINE w == S!Section(path, value, page.versions[path])
<1>1. w.path = path /\ ~w.forced /\ w.version = page.versions[path]
    BY DEF S!Section
<1>2. S!Writes(w) /\ ~S!Conflicts(w)
    OBVIOUS
<1> HIDE DEF w
<1>3. /\ w.path # "mail" => store'.version = store.version + 1 /\ mail' = mail
      /\ w.path = "mail" => store' = store
      /\ w.path # "domains" => store'.domains = store.domains
      /\ \A s \in Forms : store'.form[s] = IF s = w.path THEN w.value ELSE store.form[s]
    BY <1>1, <1>2, WritesMove DEF SettingsInv
<1>4. page.versions[path] = IF path = "mail" THEN mail.version ELSE store.version
    BY <1>1, <1>2 DEF S!Conflicts, S!Version
<1> QED
    BY <1>1, <1>3, <1>4, SectionsApart DEF WrittenSeen, SettingsInv, DraftsBased

LEMMA SectionKeeps ==
    ASSUME SettingsInv, page.at = "here", NEW path \in S!Paths, NEW value,
           path \in Forms => value = page.form[path],
           path = "mail" => value.switch \/ value.conf = page.conf,
           S!Sends(S!Section(path, value, page.versions[path]))
    PROVE  StepKept
<1> DEFINE w == S!Section(path, value, page.versions[path])
<1>1. WriteOfDraft(w)
    BY DEF WriteOfDraft, S!Section
<1> HIDE DEF w
<1>2. S!Sends(w)
    BY DEF w
<1>3. /\ SettingsInv' /\ DraftsStay
      /\ UNCHANGED <<store, mail>> \/ (S!Writes(w) /\ ~S!Conflicts(w))
    BY <1>1, <1>2, SendsKeepSettings
<1>4. CASE UNCHANGED <<store, mail>>
    BY <1>3, <1>4 DEF StepKept, WrittenSeen
<1>5. CASE S!Writes(w) /\ ~S!Conflicts(w)
    BY <1>3, <1>5, ReplacesSeenOnly DEF StepKept, w
<1> QED
    BY <1>3, <1>4, <1>5

LEMMA SavingKeeps ==
    ASSUME SettingsInv,
           S!SaveForm \/ S!AppendDomain \/ S!RemoveDomain \/ S!ToggleEmpty \/ S!SaveMail \/ S!SwitchOn
    PROVE  StepKept
<1>1. page.at = "here"
    BY FreeFacts
    DEF S!SaveForm, S!AppendDomain, S!RemoveDomain, S!ToggleEmpty, S!SaveMail, S!SwitchOn
<1>2. CASE S!SaveForm
    <2>1. PICK s \in Forms : S!Sends(S!Section(s, page.form[s], page.versions[s]))
        BY <1>2 DEF S!SaveForm
    <2> QED
        BY <1>1, <2>1, SectionKeeps, SectionsApart
<1>3. CASE S!AppendDomain
    <2>1. S!Sends(S!Section("domains", page.list \cup {page.input}, page.versions["domains"]))
        BY <1>3 DEF S!AppendDomain
    <2> QED
        BY <1>1, <2>1, SectionKeeps, SectionsApart
<1>4. CASE S!RemoveDomain
    <2>1. PICK d \in page.list : S!Sends(S!Section("domains", page.list \ {d}, page.versions["domains"]))
        BY <1>4 DEF S!RemoveDomain
    <2> QED
        BY <1>1, <2>1, SectionKeeps, SectionsApart
<1>5. CASE S!ToggleEmpty
    <2>1. S!Sends(S!Section("empty", ~page.admin.empty, page.versions["empty"]))
        BY <1>5 DEF S!ToggleEmpty
    <2> QED
        BY <1>1, <2>1, SectionKeeps, SectionsApart
<1>6. CASE S!SaveMail
    <2> DEFINE v == [conf |-> page.conf, secret |-> page.secret, on |-> page.smtp.on, switch |-> FALSE]
    <2>1. S!Sends(S!Section("mail", v, page.versions["mail"])) /\ v.conf = page.conf
        BY <1>6 DEF S!SaveMail
    <2> HIDE DEF v
    <2> QED
        BY <1>1, <2>1, SectionKeeps, SectionsApart
<1>7. CASE S!SwitchOn
    <2> DEFINE v == [conf |-> page.smtp.conf, secret |-> "keep", on |-> ~page.smtp.on, switch |-> TRUE]
    <2>1. S!Sends(S!Section("mail", v, page.versions["mail"])) /\ v.switch
        BY <1>7 DEF S!SwitchOn, S!Switch
    <2> HIDE DEF v
    <2> QED
        BY <1>1, <2>1, SectionKeeps, SectionsApart
<1> QED
    BY <1>2, <1>3, <1>4, <1>5, <1>6, <1>7

LEMMA AnswersKeep ==
    ASSUME SettingsInv, S!AnswerSwitchOff \/ S!AnswerOverwrite
    PROVE  StepKept
<1> USE DEF SettingsInv
<1>1. asked.kind \in {"switch off", "overwrite"} /\ page.at = "here" /\ asked # S!None
    <2>1. asked.kind \in {"switch off", "overwrite"}
        BY DEF S!AnswerSwitchOff, S!AnswerOverwrite
    <2>2. S!None.kind = "none"
        BY DEF S!None
    <2> QED
        BY <2>1, <2>2 DEF AskedOfDraft
<1>2. CASE S!AnswerSwitchOff
    <2>1. CASE S!Switch(asked.smtp)
        <3> DEFINE v == [conf |-> asked.smtp.conf, secret |-> "keep", on |-> ~asked.smtp.on, switch |-> TRUE]
        <3>1. S!Sends(S!Section("mail", v, page.versions["mail"])) /\ v.switch
            BY <2>1 DEF S!Switch
        <3> HIDE DEF v
        <3> QED
            BY <1>1, <3>1, SectionKeeps, SectionsApart
    <2>2. CASE asked' = S!None /\ UNCHANGED <<store, mail, page, read, uncertain>>
        <3>1. asked'.kind = "none"
            BY <2>2 DEF S!None
        <3> QED
            BY <1>1, <2>2, <3>1
            DEF StepKept, DraftsStay, StoresTyped, DraftsBased, ReadTrue, AskedOfDraft
    <2> QED
        BY <1>2, <2>1, <2>2 DEF S!AnswerSwitchOff
<1>3. CASE S!AnswerOverwrite
    <2>1. WriteOfDraft(asked.write)
        BY <1>3 DEF S!AnswerOverwrite, AskedOfDraft
    <2>2. CASE S!Sends(S!Forced(asked.write))
        <3> DEFINE w == S!Forced(asked.write)
        <3>1. WriteOfDraft(w)
            BY <2>1 DEF WriteOfDraft, S!Forced
        <3> HIDE DEF w
        <3>2. S!Sends(w)
            BY <2>2 DEF w
        <3> QED
            BY <1>1, <3>1, <3>2, SendsKeepSettings DEF StepKept
    <2>3. CASE /\ page' = S!Failed(asked.write) /\ asked' = S!None
               /\ UNCHANGED <<store, mail, read, uncertain>>
        <3>1. DraftsBased' /\ page'.at = page.at /\ DraftsStay
            BY <1>1, <2>3, FailedKeeps, StillMoves
        <3>2. asked'.kind = "none"
            BY <2>3 DEF S!None
        <3> QED
            BY <1>1, <2>3, <3>1, <3>2 DEF StepKept, StoresTyped, ReadTrue, AskedOfDraft
    <2> QED
        BY <1>3, <2>2, <2>3 DEF S!AnswerOverwrite
<1> QED
    BY <1>2, <1>3

LEMMA TypingKeeps ==
    ASSUME SettingsInv, S!Type
    PROVE  StepKept
<1> USE DEF SettingsInv
<1>1. PICK f \in {"form", "input", "conf", "secret"} :
          /\ S!Free /\ DOMAIN page' = DOMAIN page
          /\ \A g \in DOMAIN page : g # f => page'[g] = page[g]
          /\ UNCHANGED <<store, mail, read, asked, uncertain>>
    <2>1. ASSUME NEW r, S!Types(r)
          PROVE  S!Free /\ page' = r /\ UNCHANGED <<store, mail, read, asked, uncertain>>
        BY <2>1 DEF S!Types
    <2>2. CASE S!TypeForm
        <3>1. PICK s \in Forms, v \in Groups : S!Types([page EXCEPT !.form[s] = v])
            BY <2>2 DEF S!TypeForm
        <3>2. page' = [page EXCEPT !.form[s] = v]
            BY <2>1, <3>1
        <3>3. DOMAIN page' = DOMAIN page /\ \A g \in DOMAIN page : g # "form" => page'[g] = page[g]
            BY <3>2
        <3> QED
            BY <2>1, <3>1, <3>3
    <2>3. CASE S!TypeDomain
        BY <2>1, <2>3 DEF S!TypeDomain
    <2>4. CASE S!TypeMail
        BY <2>1, <2>4 DEF S!TypeMail
    <2>5. CASE S!TypeSecret
        <3>1. \E x : S!Types([page EXCEPT !.secret = x])
            BY <2>5 DEF S!TypeSecret
        <3> QED
            BY <2>1, <3>1
    <2> QED
        BY <2>2, <2>3, <2>4, <2>5 DEF S!Type
<1>2. page.at = "here" /\ asked.kind = "none"
    BY <1>1, FreeFacts
<1>3. /\ DOMAIN page' = PageFields /\ page'.versions = page.versions
      /\ page'.formBase = page.formBase /\ page'.list = page.list
      /\ page'.confBase = page.confBase /\ page'.smtp = page.smtp
    BY <1>1, <1>2 DEF DraftsBased, PageFields
<1>4. DraftsBased'
    BY <1>1, <1>2, <1>3, BasedAfter, StillMoves
<1> QED
    BY <1>1, <1>2, <1>4 DEF StepKept, WrittenSeen, StoresTyped, ReadTrue, AskedOfDraft

LEMMA ReadsKeep ==
    ASSUME SettingsInv, S!StartRead \/ S!FinishRead
    PROVE  StepKept
<1> USE DEF SettingsInv
<1>1. UNCHANGED <<store, mail, asked, uncertain>> /\ StoresTyped'
    BY DEF S!StartRead, S!FinishRead, StoresTyped
<1>2. CASE S!StartRead
    <2>1. read' = [kind |-> "read", admin |-> store, smtp |-> mail] /\ page' = page
          /\ asked.kind # "overwrite"
        BY <1>2 DEF S!StartRead
    <2>2. ReadTrue'
        BY <1>1, <2>1 DEF ReadTrue, StoresTyped
    <2> QED
        BY <1>1, <2>1, <2>2 DEF StepKept, DraftsStay, WrittenSeen, DraftsBased, AskedOfDraft
<1>3. CASE S!FinishRead
    <2>1. read # S!None /\ read' = S!None /\ page.at # "away" /\ asked.kind # "overwrite"
        BY <1>3 DEF S!FinishRead, AskedOfDraft
    <2>2. CASE page' = page
        BY <1>1, <2>1, <2>2 DEF StepKept, DraftsStay, WrittenSeen, DraftsBased, AskedOfDraft
    <2>3. CASE page' = S!Shown(read.admin, read.smtp) /\ S!Applies
        <3>1. page'.at = "here" /\ DOMAIN page' = PageFields
              /\ page'.versions = [p \in S!Paths |-> IF p = "mail" THEN read.smtp.version ELSE read.admin.version]
              /\ page'.formBase = read.admin.form /\ page'.list = read.admin.domains
              /\ page'.confBase = read.smtp.conf /\ page'.smtp = read.smtp
            BY <2>3 DEF S!Shown, PageFields
        <3>2. ReadTrue
            BY <2>1
        <3>3. DraftsBased'
            BY <1>1, <3>1, <3>2, SectionsApart DEF DraftsBased, ReadTrue
        <3>4. page.at = "here" => DraftsStay
            <4> SUFFICES ASSUME page.at = "here" PROVE DraftsStay
                OBVIOUS
            <4>1. \A p \in S!Paths : ~S!Dirty(p)
                BY <2>3 DEF S!Applies, S!AnyDirty
            <4>2. page.input = "none"
                BY <4>1, SectionsApart DEF S!Dirty
            <4>3. page'.input = "none"
                BY <2>3 DEF S!Shown
            <4> QED
                BY <4>1, <4>2, <4>3, SectionsApart DEF DraftsStay
        <3> QED
            BY <1>1, <2>1, <3>1, <3>3, <3>4 DEF StepKept, WrittenSeen, AskedOfDraft
    <2> QED
        BY <1>3, <2>2, <2>3 DEF S!FinishRead
<1> QED
    BY <1>2, <1>3

LEMMA RestKeeps ==
    ASSUME SettingsInv,
           \/ S!AskSwitchOff \/ S!TestMail \/ S!Leave \/ S!Return \/ S!Reload
           \/ UNCHANGED S!settingsVars
    PROVE  StepKept
<1> USE DEF SettingsInv
<1>1. UNCHANGED <<store, mail>> /\ StoresTyped'
    BY DEF S!AskSwitchOff, S!TestMail, S!Leave, S!Return, S!Reload, S!settingsVars, StoresTyped
<1>2. S!None.kind = "none"
    BY DEF S!None
<1>3. CASE S!AskSwitchOff
    <2>1. page' = page /\ read' = read /\ asked'.kind = "switch off" /\ page.at = "here"
        BY <1>3, FreeFacts DEF S!AskSwitchOff
    <2> QED
        BY <1>1, <2>1 DEF StepKept, DraftsStay, WrittenSeen, DraftsBased, ReadTrue, AskedOfDraft
<1>4. CASE S!TestMail
    <2>1. page' = page /\ read' = S!None /\ asked' = asked /\ asked.kind = "none"
        BY <1>4, FreeFacts DEF S!TestMail
    <2> QED
        BY <1>1, <2>1 DEF StepKept, DraftsStay, WrittenSeen, DraftsBased, AskedOfDraft
<1>5. CASE S!Leave \/ S!Reload
    <2>1. page'.at # "here" /\ read' = S!None /\ asked' = S!None
        <3>1. S!Away.at = "away" /\ S!Loading.at = "loading"
            BY DEF S!Away, S!Loading
        <3>2. (page' = S!Away \/ page' = S!Loading) /\ read' = S!None /\ asked' = S!None
            BY <1>5 DEF S!Leave, S!Reload
        <3> QED
            BY <3>1, <3>2
    <2> QED
        BY <1>1, <1>2, <2>1 DEF StepKept, WrittenSeen, AskedOfDraft
<1>6. CASE S!Return
    <2>1. page'.at # "here" /\ page.at # "here" /\ read' = read /\ asked' = asked
        BY <1>6 DEF S!Return, S!Loading
    <2> QED
        BY <1>1, <2>1 DEF StepKept, WrittenSeen, ReadTrue, AskedOfDraft
<1>7. CASE UNCHANGED S!settingsVars
    BY <1>1, <1>7
    DEF S!settingsVars, StepKept, DraftsStay, WrittenSeen, DraftsBased, ReadTrue, AskedOfDraft,
        WriteOfDraft
<1> QED
    BY <1>3, <1>4, <1>5, <1>6, <1>7

LEMMA OtherAdministrators ==
    ASSUME SettingsInv, S!Others
    PROVE  StepKept
<1> USE DEF SettingsInv
<1>1. UNCHANGED <<page, read, asked, uncertain>>
    BY DEF S!Others
<1>2. PICK p, v : p \in S!Paths /\ S!Writes(S!Section(p, v, S!Version(p)))
    BY DEF S!Others
<1> DEFINE w == S!Section(p, v, S!Version(p))
<1>3. w.path = p /\ w.path \in S!Paths
    BY <1>2 DEF S!Section
<1>4. S!Writes(w)
    BY <1>2
<1> HIDE DEF w
<1>5. Moves
    BY <1>3, <1>4, WritesMove
<1>6. page.at = "here" => DraftsBased'
    BY <1>1, <1>5, BasedAfter DEF DraftsBased
<1>7. read # S!None => ReadTrue'
    BY <1>1, <1>5, ReadAfter
<1>8. AskedOfDraft'
    BY <1>1 DEF AskedOfDraft, WriteOfDraft
<1> QED
    BY <1>1, <1>5, <1>6, <1>7, <1>8 DEF StepKept, DraftsStay, Moves, S!PageWrites

LEMMA SettingsSteps ==
    ASSUME SettingsInv, [S!SettingsNext]_(S!settingsVars)
    PROVE  StepKept
BY SavingKeeps, AnswersKeep, TypingKeeps, ReadsKeep, RestKeeps, OtherAdministrators
DEF S!SettingsNext

LEMMA SettingsStart == S!SettingsInit => SettingsInv
<1> SUFFICES ASSUME S!SettingsInit PROVE SettingsInv
    OBVIOUS
<1>1. StoresTyped
    BY DEF S!SettingsInit, StoresTyped
<1>2. page.at = "loading" /\ read = S!None /\ asked.kind = "none"
    BY DEF S!SettingsInit, S!Loading, S!None
<1> QED
    BY <1>1, <1>2 DEF SettingsInv, AskedOfDraft

\* In a behaviour of the settings the invariant holds; in any other they stand still.
SettingsPart == part = "settings" => SettingsInv

LEMMA SettingsInvariant == PartSpec => []SettingsPart
<1>1. PartInit => SettingsPart
    BY SettingsStart DEF PartInit, SettingsPart
<1>2. SettingsPart /\ [PartNext]_<<part, resources, keys, settings, tickets>> => SettingsPart'
    <2> SUFFICES ASSUME SettingsPart, [PartNext]_<<part, resources, keys, settings, tickets>>
                 PROVE  SettingsPart'
        OBVIOUS
    <2>1. part' = part
        BY DEF PartNext, ResourcesNext, KeysNext, SettingsNext, TicketNext
    <2>2. CASE part = "settings"
        <3>1. [S!SettingsNext]_(S!settingsVars)
            BY <2>2 DEF PartNext, ResourcesNext, KeysNext, SettingsNext, TicketNext, settings,
                        S!settingsVars
        <3> QED
            BY <2>1, <2>2, <3>1, SettingsSteps DEF SettingsPart, StepKept
    <2> QED
        BY <2>1, <2>2 DEF SettingsPart
<1> QED
    BY <1>1, <1>2, PTL DEF PartSpec

\* In a step of any part, what a step of the settings keeps.
LEMMA SettingsStepKept ==
    ASSUME SettingsPart, [PartNext]_<<part, resources, keys, settings, tickets>>
    PROVE  UNCHANGED S!settingsVars \/ StepKept
<1>1. CASE part = "settings"
    <2>1. [S!SettingsNext]_(S!settingsVars)
        BY <1>1 DEF PartNext, ResourcesNext, KeysNext, SettingsNext, TicketNext, settings,
                    S!settingsVars
    <2> QED
        BY <1>1, <2>1, SettingsSteps DEF SettingsPart
<1>2. CASE part # "settings"
    BY <1>2 DEF PartNext, ResourcesNext, KeysNext, SettingsNext, TicketNext, settings,
                S!settingsVars
<1> QED
    BY <1>1, <1>2

LEMMA SettingsReplaceSeen == PartSpec => S!NothingOverwrittenUnseen
<1>1. SettingsPart /\ [PartNext]_<<part, resources, keys, settings, tickets>> =>
        [S!PageWrites /\ asked = S!None =>
          /\ \A s \in Forms : store'.form[s] # store.form[s] => page.formBase[s] = store.form[s]
          /\ store'.domains # store.domains => page.list = store.domains
          /\ mail'.conf # mail.conf => page.confBase = mail.conf
          /\ mail'.on # mail.on => page.smtp.on = mail.on]_(S!settingsVars)
    BY SettingsStepKept DEF StepKept, WrittenSeen
<1> QED
    BY <1>1, SettingsInvariant, PTL DEF PartSpec, S!NothingOverwrittenUnseen

LEMMA SettingsDraftsKept == PartSpec => S!DraftsKept
<1>1. SettingsPart /\ [PartNext]_<<part, resources, keys, settings, tickets>> =>
        [S!Here /\ page'.at = "here" /\ ~S!Type =>
          /\ \A s \in Forms : S!Dirty(s) => page'.form[s] = page.form[s]
          /\ S!Dirty("mail") => page'.conf = page.conf
          /\ page'.input # page.input => page.input \in store'.domains]_(S!settingsVars)
    BY SettingsStepKept DEF StepKept, DraftsStay, S!Here
<1> QED
    BY <1>1, SettingsInvariant, PTL DEF PartSpec, S!DraftsKept

-----------------------------------------------------------------------------
(* Resources: the inductive invariant *)

Shape == {"units", "quantity"}

RowsTyped ==
    /\ DOMAIN pool \subseteq Pools /\ DOMAIN group \subseteq Groups
    /\ \A g \in DOMAIN group : \A p \in DOMAIN group[g] : DOMAIN group[g][p] = Shape

\* What others changed is stale in the editor, or the editor does not know it.
ChangedSeen ==
    /\ loaded \subseteq Live \cup gone
    /\ \A x \in changed : x \in loaded \ fresh \/ x \in Live \ loaded

ResourcesInv == RowsTyped /\ ChangedSeen /\ SharesFit

LEMMA ResolvedFacts ==
    ASSUME NEW pools, NEW shares, \A p \in DOMAIN shares : DOMAIN shares[p] = Shape,
           NEW r, r = Resolved(pools, shares)
    PROVE  /\ DOMAIN r = DOMAIN shares
           /\ \A p \in DOMAIN shares :
                 /\ DOMAIN r[p] = Shape /\ r[p].units = shares[p].units
                 /\ p \in Capacities /\ pools[p].mode = "SHARED" => r[p].quantity = pools[p].capacity
<1>1. r = [p \in DOMAIN shares |->
              IF p \in Capacities /\ pools[p].mode = "SHARED"
              THEN [shares[p] EXCEPT !.quantity = pools[p].capacity]
              ELSE shares[p]]
    BY DEF Resolved
<1>2. ASSUME NEW p \in DOMAIN shares
      PROVE  /\ DOMAIN r[p] = Shape /\ r[p].units = shares[p].units
             /\ p \in Capacities /\ pools[p].mode = "SHARED" => r[p].quantity = pools[p].capacity
    <2> DEFINE s == [shares[p] EXCEPT !.quantity = pools[p].capacity]
    <2>1. DOMAIN s = Shape /\ s.units = shares[p].units /\ s.quantity = pools[p].capacity
        BY DEF Shape
    <2>2. r[p] = IF p \in Capacities /\ pools[p].mode = "SHARED" THEN s ELSE shares[p]
        BY <1>1
    <2> HIDE DEF s
    <2> QED
        BY <2>1, <2>2
<1> QED
    BY <1>1, <1>2

LEMMA RequestedFacts ==
    ASSUME NEW live, NEW shares \in Requested(live)
    PROVE  /\ DOMAIN shares \subseteq live
           /\ \A p \in DOMAIN shares :
                 DOMAIN shares[p] = Shape /\ (p \in Capacities => shares[p].units = {})
<1>1. PICK T \in SUBSET live : shares \in Allocations(T)
    BY DEF Requested
<1>2. shares \in [T -> Share] /\ \A p \in T : shares[p] \in ShareOf(p)
    BY <1>1 DEF Allocations
<1> QED
    BY <1>2 DEF Share, ShareOf, Shape

LEMMA ChangedKept ==
    ASSUME ChangedSeen, NEW x, Changed \subseteq {x},
           changed' = (changed \cup Changed) \ (gone' \ loaded), UNCHANGED loaded,
           fresh' \subseteq fresh, x \in loaded => x \notin fresh',
           Live \cup gone \subseteq Live' \cup gone', x \in Live' \cup gone'
    PROVE  ChangedSeen'
BY DEF ChangedSeen

-----------------------------------------------------------------------------
(* Resources: one pool or group at a time *)

LEMMA CreatePoolKeeps ==
    ASSUME ResourcesInv, NEW p \in Pools, NEW row, CreatePool(p, row),
           changed' = (changed \cup Changed) \ (gone' \ loaded)
    PROVE  ResourcesInv'
<1> USE DEF ResourcesInv
<1>1. /\ p \notin Live \cup gone /\ fresh' = fresh /\ loaded' = loaded
      /\ group' = group /\ gone' = gone
      /\ DOMAIN pool' = (DOMAIN pool) \cup {p}
      /\ \A q \in DOMAIN pool : pool'[q] = pool[q]
    <2>1. pool' = With(pool, [x \in {p} |-> row]) /\ p \notin Live \cup gone
        BY DEF CreatePool
    <2>2. p \notin DOMAIN pool
        BY <2>1 DEF Live
    <2>3. DOMAIN pool' = (DOMAIN pool) \cup {p} /\ \A q \in DOMAIN pool : pool'[q] = pool[q]
        BY <2>1, <2>2 DEF With
    <2> QED
        BY <2>1, <2>3 DEF CreatePool, Others
<1>2. RowsTyped'
    BY <1>1 DEF RowsTyped
<1>3. SharesFit'
    <2>1. UsersOf(group', p) = {}
        BY <1>1 DEF UsersOf, SharesFit, Live
    <2>2. \A q : UsersOf(group', q) = UsersOf(group, q)
        BY <1>1
    <2> QED
        BY <1>1, <2>1, <2>2 DEF SharesFit
<1>4. Changed \subseteq {p}
    BY <1>1 DEF Changed
<1>5. ChangedSeen'
    <2>1. p \notin loaded
        BY <1>1 DEF ChangedSeen
    <2> QED
        BY <1>1, <1>4, <2>1, ChangedKept DEF Live
<1> QED
    BY <1>2, <1>3, <1>5

LEMMA EditPoolKeeps ==
    ASSUME ResourcesInv, NEW p \in DOMAIN pool, NEW row, EditPool(p, row),
           changed' = (changed \cup Changed) \ (gone' \ loaded)
    PROVE  ResourcesInv'
<1> USE DEF ResourcesInv
<1>1. /\ fresh' = fresh \ {p} /\ loaded' = loaded /\ gone' = gone
      /\ pool' = [pool EXCEPT ![p] = row]
      /\ Claimed(group, p) \subseteq row.units
    BY DEF EditPool, Others
<1>2. DOMAIN pool' = DOMAIN pool /\ pool'[p] = row /\ \A q \in DOMAIN pool : q # p => pool'[q] = pool[q]
    BY <1>1
<1>3. group' = [g \in DOMAIN group |->
            IF g \in UsersOf(group, p)
            THEN [group[g] EXCEPT ![p] = Resolved(pool', group[g])[p]]
            ELSE group[g]]
    BY DEF EditPool
<1>4. DOMAIN group' = DOMAIN group
    BY <1>3
<1>5. ASSUME NEW g \in DOMAIN group
      PROVE  /\ DOMAIN group'[g] = DOMAIN group[g]
             /\ \A q \in DOMAIN group[g] :
                   /\ DOMAIN group'[g][q] = Shape /\ group'[g][q].units = group[g][q].units
                   /\ q # p => group'[g][q] = group[g][q]
                   /\ q = p /\ p \in Capacities /\ row.mode = "SHARED"
                         => group'[g][q].quantity = row.capacity
    <2>1. \A q \in DOMAIN group[g] : DOMAIN group[g][q] = Shape
        BY DEF RowsTyped
    <2> DEFINE r == Resolved(pool', group[g])
    <2>2. /\ DOMAIN r = DOMAIN group[g]
          /\ \A q \in DOMAIN group[g] :
                 /\ DOMAIN r[q] = Shape /\ r[q].units = group[g][q].units
                 /\ q \in Capacities /\ pool'[q].mode = "SHARED" => r[q].quantity = pool'[q].capacity
        BY <2>1, ResolvedFacts
    <2> HIDE DEF r
    <2>3. CASE g \in UsersOf(group, p)
        <3>1. group'[g] = [group[g] EXCEPT ![p] = r[p]] /\ p \in DOMAIN group[g]
            BY <1>3, <2>3 DEF r, UsersOf
        <3> QED
            BY <1>2, <2>1, <2>2, <3>1
    <2>4. CASE g \notin UsersOf(group, p)
        BY <1>3, <2>1, <2>4 DEF UsersOf
    <2> QED
        BY <2>3, <2>4
<1>6. RowsTyped'
    BY <1>2, <1>4, <1>5 DEF RowsTyped
<1>7. \A q : UsersOf(group, q)' = UsersOf(group, q)
    BY <1>4, <1>5 DEF UsersOf
<1>8. SharesFit'
    <2>1. ASSUME NEW g \in DOMAIN group', NEW q \in DOMAIN group'[g]
          PROVE  q \in DOMAIN pool' /\ group'[g][q].units \subseteq pool'[q].units
        <3>1. g \in DOMAIN group /\ q \in DOMAIN group[g] /\ group'[g][q].units = group[g][q].units
            BY <1>4, <1>5, <2>1
        <3>2. q \in DOMAIN pool /\ group[g][q].units \subseteq pool[q].units
            BY <3>1 DEF SharesFit
        <3>3. CASE q = p
            <4>1. group[g][p].units \subseteq Claimed(group, p)
                BY <3>1, <3>3 DEF Claimed, UsersOf
            <4> QED
                BY <1>1, <1>2, <3>1, <3>3, <4>1
        <3>4. CASE q # p
            BY <1>2, <3>1, <3>2, <3>4
        <3> QED
            BY <3>3, <3>4
    <2>2. ASSUME NEW q \in (DOMAIN pool') \cap Capacities, pool'[q].mode = "SHARED",
                 NEW g \in UsersOf(group, q)'
          PROVE  group'[g][q].quantity = pool'[q].capacity
        <3>1. g \in DOMAIN group /\ q \in DOMAIN group[g] /\ g \in UsersOf(group, q) /\ q \in DOMAIN pool
            BY <1>2, <1>7, <2>2 DEF UsersOf
        <3>2. CASE q = p
            BY <1>2, <1>5, <2>2, <3>1, <3>2
        <3>3. CASE q # p
            <4>1. group'[g][q] = group[g][q] /\ pool'[q] = pool[q]
                BY <1>2, <1>5, <3>1, <3>3
            <4> QED
                BY <2>2, <3>1, <4>1 DEF SharesFit
        <3> QED
            BY <3>2, <3>3
    <2> QED
        BY <2>1, <2>2 DEF SharesFit
<1>9. Changed \subseteq {p}
    <2> DEFINE Content(r) == [q \in DOMAIN r |-> r[q].units]
    <2>1. \A g \in DOMAIN group : Content(group[g]) = Content(group'[g])
        BY <1>5
    <2>2. Changed =
              {q \in Pools : (q \in DOMAIN pool) # (q \in DOMAIN pool')}
              \cup {q \in (DOMAIN pool) \cap DOMAIN pool' : pool[q] # pool'[q]}
              \cup {g \in Groups : (g \in DOMAIN group) # (g \in DOMAIN group')}
              \cup {g \in (DOMAIN group) \cap DOMAIN group' : Content(group[g]) # Content(group'[g])}
        BY Zenon DEF Changed
    <2> HIDE DEF Content
    <2> QED
        BY <1>2, <1>4, <2>1, <2>2
<1>10. ChangedSeen'
    BY <1>1, <1>2, <1>4, <1>9, ChangedKept DEF Live
<1> QED
    BY <1>6, <1>8, <1>10

LEMMA DeletePoolKeeps ==
    ASSUME ResourcesInv, NEW p \in DOMAIN pool, DeletePool(p),
           changed' = (changed \cup Changed) \ (gone' \ loaded)
    PROVE  ResourcesInv'
<1> USE DEF ResourcesInv
<1>1. /\ fresh' = fresh \ {p} /\ loaded' = loaded /\ gone' = gone \cup {p} /\ group' = group
      /\ UsersOf(group, p) = {}
      /\ DOMAIN pool' = (DOMAIN pool) \ {p} /\ \A q \in DOMAIN pool' : pool'[q] = pool[q]
    BY DEF DeletePool, Others, Without
<1>2. RowsTyped'
    BY <1>1 DEF RowsTyped
<1>3. SharesFit'
    <2>1. \A g \in DOMAIN group : p \notin DOMAIN group[g]
        BY <1>1 DEF UsersOf
    <2>2. \A q : UsersOf(group', q) = UsersOf(group, q)
        BY <1>1
    <2> QED
        BY <1>1, <2>1, <2>2 DEF SharesFit
<1>4. Changed \subseteq {p}
    BY <1>1 DEF Changed
<1>5. ChangedSeen'
    BY <1>1, <1>4, ChangedKept DEF Live
<1> QED
    BY <1>2, <1>3, <1>5

\* A group that is given accepted shares has shares that fit.
LEMMA AcceptedFit ==
    ASSUME NEW groups, NEW shares \in Requested(DOMAIN pool), SharesAccepted(groups, shares),
           NEW r, r = Resolved(pool, shares)
    PROVE  \A p \in DOMAIN r :
              /\ DOMAIN r[p] = Shape /\ p \in DOMAIN pool /\ r[p].units \subseteq pool[p].units
              /\ p \in Capacities /\ pool[p].mode = "SHARED" => r[p].quantity = pool[p].capacity
<1>1. \A p \in DOMAIN shares : DOMAIN shares[p] = Shape /\ (p \in Capacities => shares[p].units = {})
    BY RequestedFacts
<1>2. /\ DOMAIN r = DOMAIN shares
      /\ \A p \in DOMAIN shares :
            /\ DOMAIN r[p] = Shape /\ r[p].units = shares[p].units
            /\ p \in Capacities /\ pool[p].mode = "SHARED" => r[p].quantity = pool[p].capacity
    BY <1>1, ResolvedFacts
<1>3. ASSUME NEW p \in DOMAIN shares
      PROVE  p \in DOMAIN pool /\ (p \notin Capacities => shares[p].units \subseteq pool[p].units)
    BY DEF SharesAccepted, ShareAccepted
<1> QED
    BY <1>1, <1>2, <1>3

\* One group is given shares that fit; the pools and the other groups stay.
LEMMA GroupGiven ==
    ASSUME RowsTyped, SharesFit, NEW g \in Groups, UNCHANGED pool,
           DOMAIN group' = (DOMAIN group) \cup {g},
           \A h \in DOMAIN group : h # g => group'[h] = group[h],
           \A p \in DOMAIN group'[g] :
              /\ DOMAIN group'[g][p] = Shape /\ p \in DOMAIN pool
              /\ group'[g][p].units \subseteq pool[p].units
              /\ p \in Capacities /\ pool[p].mode = "SHARED"
                    => group'[g][p].quantity = pool[p].capacity
    PROVE  RowsTyped' /\ SharesFit' /\ Changed \subseteq {g}
<1>1. RowsTyped'
    BY DEF RowsTyped
<1>2. \A h \in DOMAIN group' : \A p \in DOMAIN group'[h] :
            p \in DOMAIN pool /\ group'[h][p].units \subseteq pool[p].units
    BY DEF SharesFit
<1>3. ASSUME NEW p \in (DOMAIN pool) \cap Capacities, pool[p].mode = "SHARED",
             NEW h \in UsersOf(group', p)
      PROVE  group'[h][p].quantity = pool[p].capacity
    <2>1. h \in DOMAIN group' /\ p \in DOMAIN group'[h]
        BY DEF UsersOf
    <2>2. CASE h # g
        <3>1. h \in UsersOf(group, p) /\ group'[h] = group[h]
            BY <2>1, <2>2 DEF UsersOf
        <3> QED
            BY <1>3, <3>1 DEF SharesFit
    <2> QED
        BY <1>3, <2>1, <2>2
<1>4. Changed \subseteq {g}
    BY DEF Changed
<1>5. SharesFit'
    BY <1>2, <1>3 DEF SharesFit
<1> QED
    BY <1>1, <1>4, <1>5

LEMMA CreateGroupKeeps ==
    ASSUME ResourcesInv, NEW g \in Groups, NEW shares \in Requested(DOMAIN pool),
           CreateGroup(g, shares), changed' = (changed \cup Changed) \ (gone' \ loaded)
    PROVE  ResourcesInv'
<1> USE DEF ResourcesInv
<1> DEFINE r == Resolved(pool, shares)
<1>1. \A p \in DOMAIN r :
          /\ DOMAIN r[p] = Shape /\ p \in DOMAIN pool /\ r[p].units \subseteq pool[p].units
          /\ p \in Capacities /\ pool[p].mode = "SHARED" => r[p].quantity = pool[p].capacity
    BY AcceptedFit DEF CreateGroup
<1>2. group' = With(group, [x \in {g} |-> r])
    BY DEF CreateGroup
<1> HIDE DEF r
<1>3. /\ g \notin Live \cup gone /\ fresh' = fresh /\ loaded' = loaded /\ gone' = gone
      /\ pool' = pool
    BY DEF CreateGroup, Others
<1>4. /\ DOMAIN group' = (DOMAIN group) \cup {g} /\ group'[g] = r
      /\ \A h \in DOMAIN group : h # g => group'[h] = group[h]
    BY <1>2 DEF With
<1>5. RowsTyped' /\ SharesFit' /\ Changed \subseteq {g}
    BY <1>1, <1>3, <1>4, GroupGiven
<1>6. g \notin loaded
    BY <1>3 DEF ChangedSeen
<1>7. ChangedSeen'
    BY <1>3, <1>4, <1>5, <1>6, ChangedKept DEF Live
<1> QED
    BY <1>5, <1>7

LEMMA EditGroupKeeps ==
    ASSUME ResourcesInv, NEW g \in DOMAIN group, NEW shares \in Requested(DOMAIN pool),
           EditGroup(g, shares), changed' = (changed \cup Changed) \ (gone' \ loaded)
    PROVE  ResourcesInv'
<1> USE DEF ResourcesInv
<1> DEFINE r == Resolved(pool, shares)
<1>1. \A p \in DOMAIN r :
          /\ DOMAIN r[p] = Shape /\ p \in DOMAIN pool /\ r[p].units \subseteq pool[p].units
          /\ p \in Capacities /\ pool[p].mode = "SHARED" => r[p].quantity = pool[p].capacity
    BY AcceptedFit DEF EditGroup
<1>2. group' = [group EXCEPT ![g] = r]
    BY DEF EditGroup
<1> HIDE DEF r
<1>3. fresh' = fresh \ {g} /\ loaded' = loaded /\ gone' = gone /\ pool' = pool
    BY DEF EditGroup, Others, Written
<1>4. /\ DOMAIN group' = (DOMAIN group) \cup {g} /\ group'[g] = r
      /\ \A h \in DOMAIN group : h # g => group'[h] = group[h]
    BY <1>2
<1>5. g \in Groups
    BY DEF RowsTyped
<1>6. RowsTyped' /\ SharesFit' /\ Changed \subseteq {g}
    BY <1>1, <1>3, <1>4, <1>5, GroupGiven
<1>7. ChangedSeen'
    BY <1>3, <1>4, <1>6, ChangedKept DEF Live
<1> QED
    BY <1>6, <1>7

LEMMA DeleteGroupKeeps ==
    ASSUME ResourcesInv, NEW g \in DOMAIN group, DeleteGroup(g),
           changed' = (changed \cup Changed) \ (gone' \ loaded)
    PROVE  ResourcesInv'
<1> USE DEF ResourcesInv
<1>1. /\ fresh' = fresh \ {g} /\ loaded' = loaded /\ gone' = gone \cup {g} /\ pool' = pool
      /\ DOMAIN group' = (DOMAIN group) \ {g} /\ \A h \in DOMAIN group' : group'[h] = group[h]
    BY DEF DeleteGroup, Others, Without
<1>2. RowsTyped'
    BY <1>1 DEF RowsTyped
<1>3. SharesFit'
    <2>1. \A q : \A h \in UsersOf(group', q) : h \in UsersOf(group, q) /\ group'[h] = group[h]
        BY <1>1 DEF UsersOf
    <2> QED
        BY <1>1, <2>1 DEF SharesFit
<1>4. Changed \subseteq {g}
    BY <1>1 DEF Changed
<1>5. ChangedSeen'
    BY <1>1, <1>4, ChangedKept DEF Live
<1> QED
    BY <1>2, <1>3, <1>5

LEMMA RowKeeps == ResourcesInv /\ RowStep => ResourcesInv'
BY CreatePoolKeeps, EditPoolKeeps, DeletePoolKeeps, CreateGroupKeeps, EditGroupKeeps,
   DeleteGroupKeeps
DEF RowStep

-----------------------------------------------------------------------------
(* Resources: the editor *)

LEMMA LoadKeepsRows == ResourcesInv /\ LoadStep => ResourcesInv'
<1> SUFFICES ASSUME ResourcesInv, LoadStep PROVE ResourcesInv'
    OBVIOUS
<1> USE DEF ResourcesInv
<1>1. UNCHANGED <<pool, group, gone>>
    BY DEF LoadStep, Load
<1>2. RowsTyped' /\ SharesFit'
    BY <1>1 DEF RowsTyped, SharesFit, UsersOf
<1>3. PICK which, ids : Load(which, ids) /\ ids \subseteq Live /\ ids \subseteq which
    BY DEF LoadStep, RowsTyped, Live
<1>4. /\ loaded' = (loaded \ which) \cup ids
      /\ fresh' = (fresh \ which) \cup ids
      /\ changed' = changed \ which
    BY <1>3 DEF Load
<1>5. Live' = Live
    BY <1>1 DEF Live
<1>6. loaded' \subseteq Live' \cup gone'
    BY <1>1, <1>3, <1>4, <1>5 DEF ChangedSeen
<1>7. ASSUME NEW x \in changed' PROVE x \in loaded' \ fresh' \/ x \in Live' \ loaded'
    <2>1. x \in changed /\ x \notin which /\ x \notin ids
        BY <1>3, <1>4, <1>7
    <2>2. x \in loaded \ fresh \/ x \in Live \ loaded
        BY <2>1 DEF ChangedSeen
    <2> QED
        BY <1>4, <1>5, <2>1, <2>2
<1>8. ChangedSeen'
    BY <1>6, <1>7 DEF ChangedSeen
<1> QED
    BY <1>2, <1>8

\* What a save submits are pools and groups of the machine, and shares of them.
LEMMA EditedRows ==
    ASSUME NEW table, NEW ids, NEW values, NEW new \in Edited(table, ids, values)
    PROVE  /\ DOMAIN new \subseteq (DOMAIN table) \cup ids
           /\ \E x : DOMAIN new \subseteq (DOMAIN table) \cup {x}
           /\ \A x \in DOMAIN new : (x \in DOMAIN table /\ new[x] = table[x]) \/ new[x] \in values
<1>1. PICK x \in ids : \E row \in values : new = With(table, [y \in {x} |-> row])
    BY SMTT(60) DEF Edited
<1>2. PICK row \in values : new = With(table, [y \in {x} |-> row])
    BY <1>1
<1> QED
    BY <1>2 DEF With

\* A saved configuration was valid as a whole; what is stored of it fits.
LEMMA ValidFits ==
    ASSUME NEW pools, NEW groups, Valid(pools, groups),
           \A g \in DOMAIN groups : \A p \in DOMAIN groups[g] : DOMAIN groups[g][p] = Shape,
           pool' = pools, group' = [g \in DOMAIN groups |-> Resolved(pools, groups[g])]
    PROVE  /\ SharesFit'
           /\ DOMAIN group' = DOMAIN groups
           /\ \A g \in DOMAIN groups :
                 /\ DOMAIN group'[g] = DOMAIN groups[g]
                 /\ \A p \in DOMAIN groups[g] :
                       DOMAIN group'[g][p] = Shape /\ group'[g][p].units = groups[g][p].units
<1>1. ASSUME NEW g \in DOMAIN groups
      PROVE  /\ DOMAIN group'[g] = DOMAIN groups[g]
             /\ \A p \in DOMAIN groups[g] :
                   /\ DOMAIN group'[g][p] = Shape /\ group'[g][p].units = groups[g][p].units
                   /\ p \in Capacities /\ pools[p].mode = "SHARED"
                         => group'[g][p].quantity = pools[p].capacity
    <2>1. group'[g] = Resolved(pools, groups[g])
        OBVIOUS
    <2> QED
        BY <2>1, ResolvedFacts
<1>2. DOMAIN group' = DOMAIN groups
    OBVIOUS
<1>3. ASSUME NEW g \in DOMAIN groups, NEW p \in DOMAIN groups[g]
      PROVE  p \in DOMAIN pools /\ groups[g][p].units \subseteq pools[p].units
    <2>1. p \in DOMAIN pools
        BY DEF Valid
    <2>2. Claimed(groups, p) \subseteq pools[p].units
        BY <2>1 DEF Valid
    <2>3. groups[g][p].units \subseteq Claimed(groups, p)
        BY DEF Claimed, UsersOf
    <2> QED
        BY <2>1, <2>2, <2>3
<1>4. SharesFit'
    BY <1>1, <1>2, <1>3 DEF SharesFit, UsersOf
<1> QED
    BY <1>1, <1>2, <1>4

LEMMA SaveKeepsRows ==
    ASSUME ResourcesInv, changed' = {},
           NEW pools, NEW groups, NEW removed, NEW overwrite, Save(pools, groups, removed, overwrite),
           DOMAIN pools \subseteq Pools, DOMAIN groups \subseteq Groups,
           \A g \in DOMAIN groups : \A p \in DOMAIN groups[g] : DOMAIN groups[g][p] = Shape
    PROVE  ResourcesInv'
<1> USE DEF ResourcesInv
<1> DEFINE allPools  == IF overwrite
                        THEN With(UnseenPools(DOMAIN pools \cup removed), pools) ELSE pools
           allGroups == IF overwrite
                        THEN With(UnseenGroups(DOMAIN groups), groups) ELSE groups
<1>1. /\ Valid(allPools, allGroups) /\ pool' = allPools
      /\ group' = [g \in DOMAIN allGroups |-> Resolved(allPools, allGroups[g])]
      /\ loaded' = DOMAIN pool' \cup DOMAIN group'
    BY DEF Save
<1>2. DOMAIN allPools \subseteq Pools
    <2>1. CASE overwrite
        <3>1. allPools = With(Without(pool, DOMAIN pools \cup removed), pools)
            BY <2>1 DEF UnseenPools
        <3> HIDE DEF allPools
        <3>2. DOMAIN allPools = ((DOMAIN pool) \ (DOMAIN pools \cup removed)) \cup DOMAIN pools
            BY <3>1 DEF With, Without
        <3> QED
            BY <3>2 DEF RowsTyped
    <2> QED
        BY <2>1
<1>3. /\ DOMAIN allGroups \subseteq Groups
      /\ \A g \in DOMAIN allGroups : \A p \in DOMAIN allGroups[g] : DOMAIN allGroups[g][p] = Shape
    <2>1. CASE overwrite
        <3>1. allGroups = With(Without(group, DOMAIN groups), groups)
            BY <2>1 DEF UnseenGroups
        <3> HIDE DEF allGroups
        <3>2. /\ DOMAIN allGroups = ((DOMAIN group) \ (DOMAIN groups)) \cup DOMAIN groups
              /\ \A x \in DOMAIN allGroups :
                    allGroups[x] = IF x \in DOMAIN groups THEN groups[x] ELSE group[x]
            BY <3>1 DEF With, Without
        <3> QED
            BY <3>2 DEF RowsTyped
    <2> QED
        BY <2>1
<1> HIDE DEF allPools, allGroups
<1>4. SharesFit' /\ RowsTyped'
    BY <1>1, <1>2, <1>3, ValidFits DEF RowsTyped
<1>5. ChangedSeen'
    BY <1>1 DEF ChangedSeen, Live
<1> QED
    BY <1>4, <1>5

\* What the editor sends: the stored rows it loaded, but for one.
Sent(pools, groups) ==
    /\ DOMAIN pools \subseteq Pools /\ DOMAIN groups \subseteq Groups
    /\ \A g \in DOMAIN groups : \A p \in DOMAIN groups[g] : DOMAIN groups[g][p] = Shape
    /\ \A p \in DOMAIN pools :
          (p \in DOMAIN pool /\ pools[p] = pool[p]) \/ \E q \in Pools : pools[p] \in PoolRow(q)
    /\ \A g \in DOMAIN groups :
          (g \in DOMAIN group /\ groups[g] = group[g]) \/ groups[g] \in Requested(DOMAIN pool)
    /\ \E x : DOMAIN groups \subseteq DOMAIN group \cup {x}

LEMMA SaveSends ==
    ASSUME RowsTyped, SaveStep
    PROVE  \E pools, groups, removed, overwrite :
              /\ Sent(pools, groups) /\ Save(pools, groups, removed, overwrite)
              /\ removed \subseteq loaded /\ overwrite \in BOOLEAN
<1>1. PICK overwrite \in {o \in BOOLEAN : Admitted(o)}, removed \in SUBSET (loaded \cap Pools) :
          LET pools  == Submitted(pool, (loaded \cap Pools) \ removed)
              groups == Submitted(group, loaded \cap Groups)
          IN  \/ Save(pools, groups, removed, overwrite)
              \/ \E p \in Pools \ removed : \E edited \in Edited(pools, {p}, PoolRow(p)) :
                    Save(edited, groups, removed, overwrite)
              \/ \E edited \in Edited(groups, Groups, Requested(DOMAIN pool)) :
                    Save(pools, edited, removed, overwrite)
    BY DEF SaveStep
<1> DEFINE pools  == Submitted(pool, (loaded \cap Pools) \ removed)
           groups == Submitted(group, loaded \cap Groups)
<1>2. \/ Save(pools, groups, removed, overwrite)
      \/ \E p \in Pools \ removed : \E edited \in Edited(pools, {p}, PoolRow(p)) :
            Save(edited, groups, removed, overwrite)
      \/ \E edited \in Edited(groups, Groups, Requested(DOMAIN pool)) :
            Save(pools, edited, removed, overwrite)
    BY <1>1
<1>3. DOMAIN pools \subseteq Pools /\ \A p \in DOMAIN pools : p \in DOMAIN pool /\ pools[p] = pool[p]
    BY DEF Submitted
<1>4. /\ DOMAIN groups \subseteq Groups /\ DOMAIN groups \subseteq DOMAIN group
      /\ \A g \in DOMAIN groups : g \in DOMAIN group /\ groups[g] = group[g]
    BY DEF Submitted
<1>5. \A g \in DOMAIN groups : \A p \in DOMAIN groups[g] : DOMAIN groups[g][p] = Shape
    BY DEF Submitted, RowsTyped
<1> HIDE DEF pools, groups
<1>6. removed \subseteq loaded /\ overwrite \in BOOLEAN
    OBVIOUS
<1>7. CASE Save(pools, groups, removed, overwrite)
    BY <1>3, <1>4, <1>5, <1>7, <1>6 DEF Sent
<1>8. ASSUME NEW p \in Pools \ removed, NEW edited \in Edited(pools, {p}, PoolRow(p)),
             Save(edited, groups, removed, overwrite)
      PROVE  \E a, b, c, d : Sent(a, b) /\ Save(a, b, c, d) /\ c \subseteq loaded /\ d \in BOOLEAN
    <2>1. /\ DOMAIN edited \subseteq (DOMAIN pools) \cup {p}
          /\ \A x \in DOMAIN edited : (x \in DOMAIN pools /\ edited[x] = pools[x]) \/ edited[x] \in PoolRow(p)
        BY EditedRows
    <2>2. /\ DOMAIN edited \subseteq Pools
          /\ \A x \in DOMAIN edited :
                (x \in DOMAIN pool /\ edited[x] = pool[x]) \/ \E q \in Pools : edited[x] \in PoolRow(q)
        BY <1>3, <2>1
    <2> QED
        BY <1>4, <1>5, <1>8, <1>6, <2>2 DEF Sent
<1>9. ASSUME NEW edited \in Edited(groups, Groups, Requested(DOMAIN pool)),
             Save(pools, edited, removed, overwrite)
      PROVE  \E a, b, c, d : Sent(a, b) /\ Save(a, b, c, d) /\ c \subseteq loaded /\ d \in BOOLEAN
    <2>1. /\ DOMAIN edited \subseteq (DOMAIN groups) \cup Groups
          /\ \A x \in DOMAIN edited :
                (x \in DOMAIN groups /\ edited[x] = groups[x]) \/ edited[x] \in Requested(DOMAIN pool)
        BY EditedRows
    <2>2. \E x : DOMAIN edited \subseteq DOMAIN group \cup {x}
        <3>1. PICK x : DOMAIN edited \subseteq (DOMAIN groups) \cup {x}
            BY EditedRows
        <3> QED
            BY <1>4, <3>1
    <2>3. \A g \in DOMAIN edited :
              (g \in DOMAIN group /\ edited[g] = group[g]) \/ edited[g] \in Requested(DOMAIN pool)
        BY <1>4, <2>1
    <2>4. ASSUME NEW g \in DOMAIN edited, NEW p \in DOMAIN edited[g]
          PROVE  DOMAIN edited[g][p] = Shape
        <3>1. CASE edited[g] \in Requested(DOMAIN pool)
            BY <2>4, <3>1, RequestedFacts
        <3>2. CASE g \in DOMAIN groups /\ edited[g] = groups[g]
            BY <1>5, <2>4, <3>2
        <3> QED
            BY <2>1, <3>1, <3>2
    <2> QED
        BY <1>3, <1>4, <1>9, <1>6, <2>1, <2>2, <2>3, <2>4 DEF Sent
<1> QED
    BY <1>2, <1>7, <1>8, <1>9, Zenon

LEMMA SaveStepKeeps == ResourcesInv /\ SaveStep => ResourcesInv'
<1> SUFFICES ASSUME ResourcesInv, SaveStep PROVE ResourcesInv'
    OBVIOUS
<1>1. changed' = {} /\ RowsTyped
    BY DEF SaveStep, ResourcesInv
<1>2. PICK pools, groups, removed, overwrite :
          Sent(pools, groups) /\ Save(pools, groups, removed, overwrite)
    BY <1>1, SaveSends
<1> QED
    BY <1>1, <1>2, SaveKeepsRows DEF Sent

LEMMA ResourcesKeep == ResourcesInv /\ [Next]_vars => ResourcesInv'
<1> SUFFICES ASSUME ResourcesInv, [Next]_vars PROVE ResourcesInv'
    OBVIOUS
<1>1. CASE UNCHANGED vars
    BY <1>1 DEF vars, ResourcesInv, RowsTyped, ChangedSeen, SharesFit, UsersOf, Live
<1> QED
    BY <1>1, RowKeeps, LoadKeepsRows, SaveStepKeeps DEF Next

LEMMA ResourcesInvariant == Spec => []ResourcesInv
<1>1. Init => ResourcesInv
    BY DEF Init, NoRows, ResourcesInv, RowsTyped, ChangedSeen, SharesFit
<1> QED
    BY <1>1, ResourcesKeep, PTL DEF Spec

-----------------------------------------------------------------------------
(* Resources: what a save replaces *)

\* A save that nothing was changed under, or one that keeps what it does not know.
SaveKept ==
    /\ last' = "save" => changed = {}
    /\ last' = "overwrite" =>
         /\ \A p \in DOMAIN pool \ loaded : p \in DOMAIN pool'
         /\ \A g \in DOMAIN group \ loaded :
               /\ g \in DOMAIN group'
               /\ DOMAIN group'[g] = DOMAIN group[g]
               /\ \A p \in DOMAIN group[g] : group'[g][p].units = group[g][p].units

LEMMA SaveKeepsOthers ==
    ASSUME ResourcesInv, NEW pools, NEW groups, NEW removed, NEW overwrite,
           Save(pools, groups, removed, overwrite), Sent(pools, groups),
           removed \subseteq loaded, overwrite \in BOOLEAN
    PROVE  SaveKept
<1> USE DEF ResourcesInv
<1> DEFINE allPools  == IF overwrite
                        THEN With(UnseenPools(DOMAIN pools \cup removed), pools) ELSE pools
           allGroups == IF overwrite
                        THEN With(UnseenGroups(DOMAIN groups), groups) ELSE groups
<1>1. /\ Valid(allPools, allGroups) /\ pool' = allPools
      /\ group' = [g \in DOMAIN allGroups |-> Resolved(allPools, allGroups[g])]
      /\ last' = (IF overwrite THEN "overwrite" ELSE "save")
      /\ Admitted(overwrite) /\ Draft(pools, groups, removed)
      /\ Complete(allPools, allGroups, removed)
    BY DEF Save
<1>2. DOMAIN pool \subseteq Pools /\ DOMAIN group \subseteq Groups /\ Pools \cap Groups = {}
    BY ResourceAssumption DEF RowsTyped
\* What the draft names and did not load is new.
<1>3. /\ \A p \in DOMAIN pool \ loaded : p \notin DOMAIN pools /\ p \notin removed
      /\ \A g \in DOMAIN group \ loaded : g \notin DOMAIN groups
    BY <1>1 DEF Draft, Live
\* Nothing is left out, so the draft loaded every live row.
<1>4. ASSUME last' = "save" PROVE changed = {}
    <2>1. ~overwrite
        BY <1>1, <1>4
    <2>2. allPools = pools /\ allGroups = groups
        BY <2>1
    <2>3. loaded \subseteq fresh
        BY <1>1, <2>1 DEF Admitted
    <2>4. Live \subseteq DOMAIN pools \cup DOMAIN groups \cup removed
        BY <1>1, <2>2 DEF Complete
    <2>5. ((DOMAIN pools \cup DOMAIN groups) \ loaded) \cap Live = {}
        BY <1>1 DEF Draft
    <2>6. Live \subseteq loaded
        BY <2>4, <2>5
    <2> QED
        BY <2>3, <2>6 DEF ChangedSeen
<1>5. ASSUME last' = "overwrite"
      PROVE  /\ \A p \in DOMAIN pool \ loaded : p \in DOMAIN pool'
             /\ \A g \in DOMAIN group \ loaded :
                   /\ g \in DOMAIN group'
                   /\ DOMAIN group'[g] = DOMAIN group[g]
                   /\ \A p \in DOMAIN group[g] : group'[g][p].units = group[g][p].units
    <2>1. overwrite
        BY <1>1, <1>5
    <2>2. /\ allPools = With(Without(pool, DOMAIN pools \cup removed), pools)
          /\ allGroups = With(Without(group, DOMAIN groups), groups)
        BY <2>1 DEF UnseenPools, UnseenGroups
    <2> HIDE DEF allPools, allGroups
    <2>3. DOMAIN allPools = ((DOMAIN pool) \ (DOMAIN pools \cup removed)) \cup DOMAIN pools
        BY <2>2 DEF With, Without
    <2>4. /\ DOMAIN allGroups = ((DOMAIN group) \ (DOMAIN groups)) \cup DOMAIN groups
          /\ \A x \in DOMAIN allGroups :
                allGroups[x] = IF x \in DOMAIN groups THEN groups[x] ELSE group[x]
        BY <2>2 DEF With, Without
    <2>5. \A g \in DOMAIN allGroups : \A p \in DOMAIN allGroups[g] : DOMAIN allGroups[g][p] = Shape
        BY <2>4 DEF Sent, RowsTyped
    <2>6. /\ DOMAIN group' = DOMAIN allGroups
          /\ \A g \in DOMAIN allGroups :
                /\ DOMAIN group'[g] = DOMAIN allGroups[g]
                /\ \A p \in DOMAIN allGroups[g] : group'[g][p].units = allGroups[g][p].units
        BY <1>1, <2>5, ValidFits
    <2>7. ASSUME NEW g \in DOMAIN group \ loaded
          PROVE  g \in DOMAIN allGroups /\ allGroups[g] = group[g]
        BY <1>3, <2>4
    <2>8. \A p \in DOMAIN pool \ loaded : p \in DOMAIN pool'
        BY <1>1, <1>3, <2>3
    <2>9. ASSUME NEW g \in DOMAIN group \ loaded
          PROVE  /\ g \in DOMAIN group' /\ DOMAIN group'[g] = DOMAIN group[g]
                 /\ \A p \in DOMAIN group[g] : group'[g][p].units = group[g][p].units
        BY <2>6, <2>7
    <2> QED
        BY <2>8, <2>9
<1> QED
    BY <1>4, <1>5 DEF SaveKept

LEMMA OthersKept ==
    ASSUME ResourcesInv, Next
    PROVE  SaveKept
<1>1. CASE RowStep
    <2>1. last' = "other"
        BY <1>1 DEF RowStep, CreatePool, EditPool, DeletePool, CreateGroup, EditGroup, DeleteGroup,
                    Others
    <2> QED
        BY <2>1 DEF SaveKept
<1>2. CASE LoadStep
    BY <1>2 DEF LoadStep, Load, SaveKept
<1>3. CASE SaveStep
    <2>1. PICK pools, groups, removed, overwrite :
              /\ Sent(pools, groups) /\ Save(pools, groups, removed, overwrite)
              /\ removed \subseteq loaded /\ overwrite \in BOOLEAN
        BY <1>3, SaveSends DEF ResourcesInv
    <2> QED
        BY <2>1, SaveKeepsOthers
<1> QED
    BY <1>1, <1>2, <1>3 DEF Next

LEMMA OthersEditsStay == Spec => OthersEditsKept
<1>1. ResourcesInv /\ [Next]_vars =>
        [/\ last' = "save" => changed = {}
         /\ last' = "overwrite" =>
              /\ \A p \in DOMAIN pool \ loaded : p \in DOMAIN pool'
              /\ \A g \in DOMAIN group \ loaded :
                    /\ g \in DOMAIN group'
                    /\ DOMAIN group'[g] = DOMAIN group[g]
                    /\ \A p \in DOMAIN group[g] : group'[g][p].units = group[g][p].units]_vars
    BY OthersKept DEF SaveKept
<1> QED
    BY <1>1, ResourcesInvariant, PTL DEF Spec, OthersEditsKept

-----------------------------------------------------------------------------
(* Resources: the sum of the shares of a capacity *)

Quantity == 0..MaxCapacity

\* What can be summed: finitely many groups, and quantities.
Counted(groups) ==
    /\ IsFiniteSet(DOMAIN groups)
    /\ \A g \in DOMAIN groups : \A p \in DOMAIN groups[g] : groups[g][p].quantity \in Quantity

\* The shares of p that the groups of T have, piece by piece.
Parcels(groups, p, T) ==
    {z \in T \X (1..MaxCapacity) : z[2] <= groups[z[1]][p].quantity}

Choice(T) == CHOOSE g \in T : TRUE

\* What the recursion of the sum says of sum.
Sums(sum, groups, p) ==
    sum = [T \in SUBSET UsersOf(groups, p) |->
              IF T = {} THEN 0 ELSE groups[Choice(T)][p].quantity + sum[T \ {Choice(T)}]]

\* One group more has as many parcels more as its share is large.
LEMMA ParcelsOfOne ==
    ASSUME NEW groups, NEW p, NEW T, IsFiniteSet(T), NEW g \in T,
           groups[g][p].quantity \in Quantity
    PROVE  /\ IsFiniteSet(Parcels(groups, p, T)) /\ IsFiniteSet(Parcels(groups, p, T \ {g}))
           /\ Cardinality(Parcels(groups, p, T \ {g})) \in Nat
           /\ Cardinality(Parcels(groups, p, T)) =
                 groups[g][p].quantity + Cardinality(Parcels(groups, p, T \ {g}))
<1> DEFINE q == groups[g][p].quantity
           rest == Parcels(groups, p, T \ {g})
           mine == {g} \X (1..q)
<1>1. q \in Nat /\ q <= MaxCapacity /\ MaxCapacity \in Nat
    BY ResourceAssumption DEF Quantity
<1>2. IsFiniteSet(T \X (1..MaxCapacity))
    <2>1. IsFiniteSet(1..MaxCapacity)
        BY <1>1, FS_Interval
    <2> QED
        BY <2>1, FS_Product
<1>3. rest \subseteq T \X (1..MaxCapacity) /\ Parcels(groups, p, T) \subseteq T \X (1..MaxCapacity)
    BY DEF Parcels
<1>4. IsFiniteSet(rest) /\ IsFiniteSet(Parcels(groups, p, T)) /\ Cardinality(rest) \in Nat
    BY <1>2, <1>3, FS_Subset, FS_CardinalityType
<1>5. IsFiniteSet(mine) /\ Cardinality(mine) = q
    <2>1. IsFiniteSet({g}) /\ Cardinality({g}) = 1
        BY FS_Singleton
    <2>2. IsFiniteSet(1..q) /\ Cardinality(1..q) = q
        <3> HIDE DEF q
        <3> QED
            BY <1>1, FS_Interval
    <2> HIDE DEF q
    <2>3. IsFiniteSet(mine) /\ Cardinality(mine) = Cardinality({g}) * Cardinality(1..q)
        BY <2>1, <2>2, FS_Product
    <2>4. 1 * q = q
        BY <1>1
    <2> QED
        BY <2>1, <2>2, <2>3, <2>4
<1>6. Parcels(groups, p, T) = mine \cup rest
    <2>1. ASSUME NEW z PROVE z \in Parcels(groups, p, T) <=> z \in mine \/ z \in rest
        <3>1. z \in Parcels(groups, p, T) <=>
                  \E x \in T, n \in 1..MaxCapacity : z = <<x, n>> /\ n <= groups[x][p].quantity
            BY DEF Parcels
        <3>2. z \in rest <=>
                  \E x \in T \ {g}, n \in 1..MaxCapacity : z = <<x, n>> /\ n <= groups[x][p].quantity
            BY DEF Parcels
        <3>3. z \in mine <=> \E n \in 1..MaxCapacity : z = <<g, n>> /\ n <= q
            BY <1>1
        <3> HIDE DEF rest, mine
        <3> QED
            BY <3>1, <3>2, <3>3
    <2> HIDE DEF rest, mine
    <2> QED
        BY <2>1
<1>7. mine \cap rest = {}
    BY DEF Parcels
<1> HIDE DEF rest, mine, q
<1>8. Cardinality(mine \cup rest) = q + Cardinality(rest) - Cardinality({})
    BY <1>4, <1>5, <1>7, FS_Union
<1> QED
    BY <1>1, <1>4, <1>6, <1>8, FS_EmptySet DEF rest, q

\* What satisfies the recursion counts the parcels.
LEMMA SumsCount ==
    ASSUME NEW groups, Counted(groups), NEW p, NEW sum, Sums(sum, groups, p)
    PROVE  sum[UsersOf(groups, p)] = Cardinality(Parcels(groups, p, UsersOf(groups, p)))
<1> DEFINE U == UsersOf(groups, p)
           Count(T) == Cardinality(Parcels(groups, p, T))
           Bad == {T \in SUBSET U : sum[T] # Count(T)}
<1>1. IsFiniteSet(U) /\ \A g \in U : groups[g][p].quantity \in Quantity
    <2>1. U \subseteq DOMAIN groups /\ \A g \in U : p \in DOMAIN groups[g]
        BY DEF UsersOf
    <2> QED
        BY <2>1, FS_Subset DEF Counted
<1>2. SUFFICES ASSUME Bad # {} PROVE FALSE
    OBVIOUS
<1>3. IsWellFoundedOn(StrictSubsetOrdering(U), SUBSET U)
    BY <1>1, FS_StrictSubsetOrderingWellFounded, FS_FiniteSubsetsOfFinite
<1>4. PICK T \in Bad : \A R \in Bad : ~(<<R, T>> \in StrictSubsetOrdering(U))
    <2>1. Bad \subseteq SUBSET U
        OBVIOUS
    <2> HIDE DEF Bad, U
    <2> QED
        BY <1>2, <1>3, <2>1, WFMin, Zenon
<1>5. T \subseteq U /\ sum[T] # Count(T) /\ IsFiniteSet(T)
    BY <1>1, FS_Subset
<1>6. CASE T = {}
    <2>1. sum[T] = 0
        BY <1>6 DEF Sums
    <2>2. Parcels(groups, p, T) = {}
        BY <1>6 DEF Parcels
    <2> QED
        BY <1>5, <2>1, <2>2, FS_EmptySet
<1>7. CASE T # {}
    <2> DEFINE g == Choice(T)
               R == T \ {g}
    <2>1. g \in T
        BY <1>7 DEF Choice
    <2> HIDE DEF g
    <2>2. sum[T] = groups[g][p].quantity + sum[R]
        BY <1>5, <1>7 DEF Sums, g
    <2>3. R \subseteq U /\ <<R, T>> \in StrictSubsetOrdering(U)
        BY <1>5, <2>1 DEF StrictSubsetOrdering
    <2>4. sum[R] = Count(R)
        BY <1>4, <2>3
    <2>5. Count(T) = groups[g][p].quantity + Count(R)
        BY <1>1, <1>5, <2>1, ParcelsOfOne
    <2> QED
        BY <1>5, <2>2, <2>4, <2>5
<1> QED
    BY <1>6, <1>7

\* The recursion has a solution.
LEMMA SumsExist ==
    ASSUME NEW groups, Counted(groups), NEW p
    PROVE  \E sum : Sums(sum, groups, p)
<1> DEFINE U == UsersOf(groups, p)
           sum == [T \in SUBSET U |-> Cardinality(Parcels(groups, p, T))]
<1>1. IsFiniteSet(U) /\ \A g \in U : groups[g][p].quantity \in Quantity
    <2>1. U \subseteq DOMAIN groups /\ \A g \in U : p \in DOMAIN groups[g]
        BY DEF UsersOf
    <2> QED
        BY <2>1, FS_Subset DEF Counted
<1>2. ASSUME NEW T \in SUBSET U
      PROVE  sum[T] = IF T = {} THEN 0 ELSE groups[Choice(T)][p].quantity + sum[T \ {Choice(T)}]
    <2>1. CASE T = {}
        <3>1. Parcels(groups, p, T) = {}
            BY <2>1 DEF Parcels
        <3> QED
            BY <2>1, <3>1, FS_EmptySet
    <2>2. CASE T # {}
        <3> DEFINE g == Choice(T)
        <3>1. g \in T
            BY <2>2 DEF Choice
        <3> HIDE DEF g
        <3>2. IsFiniteSet(T) /\ groups[g][p].quantity \in Quantity
            BY <1>1, <3>1, FS_Subset
        <3>3. Cardinality(Parcels(groups, p, T)) =
                  groups[g][p].quantity + Cardinality(Parcels(groups, p, T \ {g}))
            BY <3>1, <3>2, ParcelsOfOne
        <3>4. sum[T] = groups[g][p].quantity + sum[T \ {g}]
            BY <3>3
        <3> QED
            BY <2>2, <3>4 DEF g
    <2> QED
        BY <2>1, <2>2
<1>3. sum = [T \in SUBSET U |-> sum[T]]
    OBVIOUS
<1> HIDE DEF sum
<1>4. Sums(sum, groups, p)
    BY <1>2, <1>3 DEF Sums
<1> QED
    BY <1>4

LEMMA AllocatedSums ==
    ASSUME NEW groups, NEW p, NEW known, Sums(known, groups, p)
    PROVE  \E sum : Sums(sum, groups, p) /\ Allocated(groups, p) = sum[UsersOf(groups, p)]
<1> DEFINE sum == CHOOSE x : Sums(x, groups, p)
<1>1. Sums(sum, groups, p)
    BY Zenon
<1>2. Allocated(groups, p) = sum[UsersOf(groups, p)]
    BY Zenon DEF Sums, Allocated, MapThenSumSet, MapThenFoldSet, Choice
<1> QED
    BY <1>1, <1>2

\* SELECT SUM(quantity_milli) counts parcels, whatever order it adds in.
LEMMA AllocatedIs ==
    ASSUME NEW groups, Counted(groups), NEW p
    PROVE  /\ Allocated(groups, p) = Cardinality(Parcels(groups, p, UsersOf(groups, p)))
           /\ IsFiniteSet(Parcels(groups, p, UsersOf(groups, p)))
           /\ Allocated(groups, p) \in Nat
<1>1. PICK sum : Sums(sum, groups, p) /\ Allocated(groups, p) = sum[UsersOf(groups, p)]
    BY SumsExist, AllocatedSums
<1>2. Allocated(groups, p) = Cardinality(Parcels(groups, p, UsersOf(groups, p)))
    BY <1>1, SumsCount
<1>3. IsFiniteSet(Parcels(groups, p, UsersOf(groups, p)))
    <2>1. IsFiniteSet(UsersOf(groups, p))
        BY FS_Subset DEF UsersOf, Counted
    <2>2. IsFiniteSet(1..MaxCapacity)
        BY ResourceAssumption, FS_Interval
    <2>3. IsFiniteSet(UsersOf(groups, p) \X (1..MaxCapacity))
        BY <2>1, <2>2, FS_Product
    <2> QED
        BY <2>3, FS_Subset DEF Parcels
<1> QED
    BY <1>2, <1>3, FS_CardinalityType

-----------------------------------------------------------------------------
(* Resources: exclusive capacities *)

SumsInv ==
    /\ Counted(group)
    /\ \A p \in DOMAIN pool : pool[p].capacity \in Quantity
    /\ \A p \in (DOMAIN pool) \cap Capacities :
          pool[p].mode = "EXCLUSIVE" => Allocated(group, p) <= pool[p].capacity

LEMMA RowCapacity == \A p \in Pools : \A row \in PoolRow(p) : row.capacity \in Quantity
BY ResourceAssumption DEF PoolRow, Quantity

LEMMA RequestedQuantities ==
    ASSUME NEW live, NEW shares \in Requested(live)
    PROVE  \A p \in DOMAIN shares : shares[p].quantity \in Quantity
<1>1. PICK T \in SUBSET live : shares \in Allocations(T)
    BY DEF Requested
<1> QED
    BY <1>1 DEF Allocations, Share, Quantity

LEMMA ResolvedQuantities ==
    ASSUME NEW pools, NEW shares,
           \A p \in DOMAIN shares : DOMAIN shares[p] = Shape /\ shares[p].quantity \in Quantity,
           \A p \in DOMAIN shares : pools[p].capacity \in Quantity,
           NEW r, r = Resolved(pools, shares)
    PROVE  /\ DOMAIN r = DOMAIN shares
           /\ \A p \in DOMAIN shares :
                 /\ r[p].quantity \in Quantity
                 /\ pools[p].mode # "SHARED" => r[p] = shares[p]
<1>1. r = [p \in DOMAIN shares |->
              IF p \in Capacities /\ pools[p].mode = "SHARED"
              THEN [shares[p] EXCEPT !.quantity = pools[p].capacity]
              ELSE shares[p]]
    BY DEF Resolved
<1>2. ASSUME NEW p \in DOMAIN shares
      PROVE  [shares[p] EXCEPT !.quantity = pools[p].capacity].quantity \in Quantity
    BY DEF Shape
<1> QED
    BY <1>1, <1>2

\* Fewer users with the same shares have no more.
LEMMA FewerAllocated ==
    ASSUME NEW groups, Counted(groups), NEW others, Counted(others), NEW p,
           \A g \in UsersOf(others, p) :
              g \in UsersOf(groups, p) /\ others[g][p].quantity = groups[g][p].quantity
    PROVE  Allocated(others, p) <= Allocated(groups, p)
<1> DEFINE few == Parcels(others, p, UsersOf(others, p))
           many == Parcels(groups, p, UsersOf(groups, p))
<1>1. few \subseteq many
    BY DEF Parcels
<1>2. /\ Allocated(others, p) = Cardinality(few) /\ Allocated(groups, p) = Cardinality(many)
      /\ IsFiniteSet(many)
    BY AllocatedIs
<1> HIDE DEF few, many
<1> QED
    BY <1>1, <1>2, FS_Subset

\* A group that joins others adds its share.
LEMMA OneMoreAllocated ==
    ASSUME NEW groups, Counted(groups), NEW others, Counted(others), NEW g, NEW p,
           g \in UsersOf(groups, p), g \notin DOMAIN others,
           DOMAIN groups = DOMAIN others \cup {g}, \A h \in DOMAIN others : groups[h] = others[h]
    PROVE  Allocated(groups, p) = Allocated(others, p) + groups[g][p].quantity
<1> DEFINE U == UsersOf(groups, p)
<1>1. UsersOf(others, p) = U \ {g} /\ U \subseteq DOMAIN groups
    BY DEF UsersOf
<1>2. Parcels(others, p, UsersOf(others, p)) = Parcels(groups, p, U \ {g})
    <2>1. \A h \in U \ {g} : groups[h] = others[h]
        BY DEF UsersOf
    <2> QED
        BY <1>1, <2>1 DEF Parcels
<1>3. IsFiniteSet(U) /\ groups[g][p].quantity \in Quantity
    BY <1>1, FS_Subset DEF Counted, UsersOf
<1>4. /\ Cardinality(Parcels(groups, p, U \ {g})) \in Nat
      /\ Cardinality(Parcels(groups, p, U)) =
            groups[g][p].quantity + Cardinality(Parcels(groups, p, U \ {g}))
    BY <1>3, ParcelsOfOne
<1>5. /\ Allocated(others, p) = Cardinality(Parcels(groups, p, U \ {g}))
      /\ Allocated(groups, p) = Cardinality(Parcels(groups, p, U))
    BY <1>2, AllocatedIs
<1> QED
    BY <1>3, <1>4, <1>5, ResourceAssumption DEF Quantity

\* The quantities of pools whose users and shares stay.
LEMMA SameAllocated ==
    ASSUME NEW groups, Counted(groups), NEW others, Counted(others), NEW p,
           UsersOf(others, p) = UsersOf(groups, p),
           \A g \in UsersOf(groups, p) : others[g][p].quantity = groups[g][p].quantity
    PROVE  Allocated(others, p) = Allocated(groups, p)
<1>1. Allocated(others, p) <= Allocated(groups, p) /\ Allocated(groups, p) <= Allocated(others, p)
    BY FewerAllocated
<1> QED
    BY <1>1, AllocatedIs

-----------------------------------------------------------------------------
(* Resources: exclusive capacities, one pool or group at a time *)

LEMMA CreatePoolSums ==
    ASSUME ResourcesInv, SumsInv, NEW p \in Pools, NEW row \in PoolRow(p), CreatePool(p, row)
    PROVE  SumsInv'
<1>1. /\ p \notin DOMAIN pool /\ group' = group
      /\ DOMAIN pool' = (DOMAIN pool) \cup {p} /\ pool'[p] = row
      /\ \A q \in DOMAIN pool : pool'[q] = pool[q]
    BY DEF CreatePool, With, Live
<1>2. UsersOf(group, p) = {}
    BY <1>1 DEF UsersOf, ResourcesInv, SharesFit
<1>3. Allocated(group, p) = 0
    <2>1. Parcels(group, p, UsersOf(group, p)) = {}
        BY <1>2 DEF Parcels
    <2> QED
        BY <2>1, AllocatedIs, FS_EmptySet DEF SumsInv
<1>4. row.capacity \in Quantity /\ 0 <= row.capacity
    BY RowCapacity DEF Quantity
<1>5. \A q \in (DOMAIN pool') \cap Capacities :
          pool'[q].mode = "EXCLUSIVE" => Allocated(group, q) <= pool'[q].capacity
    BY <1>1, <1>3, <1>4 DEF SumsInv
<1>6. \A q : Allocated(group, q)' = Allocated(group, q)
    BY <1>1, Zenon
<1>7. Counted(group)'
    BY <1>1 DEF SumsInv, Counted
<1> QED
    BY <1>1, <1>4, <1>5, <1>6, <1>7 DEF SumsInv

LEMMA EditPoolSums ==
    ASSUME ResourcesInv, SumsInv, NEW p \in DOMAIN pool, NEW row \in PoolRow(p), EditPool(p, row)
    PROVE  SumsInv'
<1>1. /\ pool' = [pool EXCEPT ![p] = row]
      /\ p \in Capacities /\ row.mode = "EXCLUSIVE" => Allocated(group, p) <= row.capacity
      /\ group' = [g \in DOMAIN group |->
            IF g \in UsersOf(group, p)
            THEN [group[g] EXCEPT ![p] = Resolved(pool', group[g])[p]]
            ELSE group[g]]
    BY DEF EditPool
<1>2. p \in Pools /\ row.capacity \in Quantity
    BY RowCapacity DEF ResourcesInv, RowsTyped
<1>3. DOMAIN pool' = DOMAIN pool /\ pool'[p] = row /\ \A q \in DOMAIN pool : q # p => pool'[q] = pool[q]
    BY <1>1
<1>4. \A q \in DOMAIN pool : pool'[q].capacity \in Quantity
    BY <1>2, <1>3 DEF SumsInv
<1>5. ASSUME NEW g \in DOMAIN group
      PROVE  /\ DOMAIN group'[g] = DOMAIN group[g]
             /\ \A q \in DOMAIN group[g] :
                   /\ group'[g][q].quantity \in Quantity
                   /\ q # p \/ row.mode # "SHARED" => group'[g][q] = group[g][q]
    <2>1. \A q \in DOMAIN group[g] :
              DOMAIN group[g][q] = Shape /\ group[g][q].quantity \in Quantity /\ q \in DOMAIN pool
        BY DEF ResourcesInv, RowsTyped, SharesFit, SumsInv, Counted
    <2> DEFINE r == Resolved(pool', group[g])
    <2>2. /\ DOMAIN r = DOMAIN group[g]
          /\ \A q \in DOMAIN group[g] :
                r[q].quantity \in Quantity /\ (pool'[q].mode # "SHARED" => r[q] = group[g][q])
        BY <1>4, <2>1, ResolvedQuantities
    <2> HIDE DEF r
    <2>3. CASE g \in UsersOf(group, p)
        <3>1. group'[g] = [group[g] EXCEPT ![p] = r[p]] /\ p \in DOMAIN group[g]
            BY <1>1, <2>3 DEF r, UsersOf
        <3> QED
            BY <1>3, <2>1, <2>2, <3>1
    <2>4. CASE g \notin UsersOf(group, p)
        BY <1>1, <2>1, <2>4 DEF UsersOf
    <2> QED
        BY <2>3, <2>4
<1>6. DOMAIN group' = DOMAIN group
    BY <1>1
<1>7. Counted(group')
    BY <1>5, <1>6 DEF Counted, SumsInv
<1>8. \A q : UsersOf(group', q) = UsersOf(group, q)
    BY <1>5, <1>6 DEF UsersOf
<1>9. ASSUME NEW q \in (DOMAIN pool) \cap Capacities, pool'[q].mode = "EXCLUSIVE"
      PROVE  Allocated(group', q) <= pool'[q].capacity
    <2>1. \A g \in UsersOf(group, q) : group'[g][q] = group[g][q]
        BY <1>3, <1>5, <1>9 DEF UsersOf
    <2>2. Allocated(group', q) = Allocated(group, q)
        BY <1>7, <1>8, <2>1, SameAllocated DEF SumsInv
    <2> QED
        BY <1>1, <1>3, <1>9, <2>2 DEF SumsInv
<1>10. \A q : Allocated(group, q)' = Allocated(group', q)
    OBVIOUS
<1>11. Counted(group)'
    BY <1>7 DEF Counted
<1> QED
    BY <1>3, <1>4, <1>9, <1>10, <1>11 DEF SumsInv

LEMMA DeletePoolSums ==
    ASSUME SumsInv, NEW p \in DOMAIN pool, DeletePool(p)
    PROVE  SumsInv'
<1>1. /\ group' = group
      /\ DOMAIN pool' = (DOMAIN pool) \ {p} /\ \A q \in DOMAIN pool' : pool'[q] = pool[q]
    BY DEF DeletePool, Without
<1>2. \A q : Allocated(group, q)' = Allocated(group, q)
    BY <1>1, Zenon
<1>3. Counted(group)'
    BY <1>1 DEF SumsInv, Counted
<1> QED
    BY <1>1, <1>2, <1>3 DEF SumsInv

\* A group that others left room for.
LEMMA GivenSums ==
    ASSUME ResourcesInv, SumsInv, NEW others, NEW g, NEW shares \in Requested(DOMAIN pool),
           g \notin DOMAIN others, DOMAIN others \subseteq DOMAIN group,
           \A h \in DOMAIN others : others[h] = group[h],
           SharesAccepted(others, shares), pool' = pool,
           DOMAIN group' = DOMAIN others \cup {g}, group'[g] = Resolved(pool, shares),
           \A h \in DOMAIN others : group'[h] = others[h]
    PROVE  SumsInv'
<1>1. /\ DOMAIN shares \subseteq DOMAIN pool
      /\ \A p \in DOMAIN shares : DOMAIN shares[p] = Shape /\ shares[p].quantity \in Quantity
    BY RequestedFacts, RequestedQuantities
<1>2. /\ DOMAIN group'[g] = DOMAIN shares
      /\ \A p \in DOMAIN shares :
            /\ group'[g][p].quantity \in Quantity
            /\ pool[p].mode # "SHARED" => group'[g][p] = shares[p]
    <2>1. \A p \in DOMAIN shares : pool[p].capacity \in Quantity
        BY <1>1 DEF SumsInv
    <2> QED
        BY <1>1, <2>1, ResolvedQuantities
<1>3. Counted(others)
    BY FS_Subset DEF SumsInv, Counted
<1>4. Counted(group')
    <2>1. IsFiniteSet(DOMAIN others \cup {g})
        BY <1>3, FS_AddElement DEF Counted
    <2> QED
        BY <1>2, <1>3, <2>1 DEF Counted
<1>5. ASSUME NEW p \in (DOMAIN pool) \cap Capacities, pool[p].mode = "EXCLUSIVE"
      PROVE  Allocated(group', p) <= pool[p].capacity
    <2>1. CASE p \in DOMAIN shares
        <3>1. Allocated(others, p) + shares[p].quantity <= pool[p].capacity
            BY <1>5, <2>1 DEF SharesAccepted, ShareAccepted
        <3>2. g \in UsersOf(group', p)
            BY <1>2, <2>1 DEF UsersOf
        <3>3. Allocated(group', p) = Allocated(others, p) + group'[g][p].quantity
            BY <1>3, <1>4, <3>2, OneMoreAllocated
        <3> QED
            BY <1>2, <1>5, <2>1, <3>1, <3>3
    <2>2. CASE p \notin DOMAIN shares
        <3>1. \A h \in UsersOf(group', p) :
                  h \in UsersOf(group, p) /\ group'[h][p].quantity = group[h][p].quantity
            BY <1>2, <2>2 DEF UsersOf
        <3>2. Allocated(group', p) <= Allocated(group, p)
            BY <1>4, <3>1, FewerAllocated DEF SumsInv
        <3>3. /\ Allocated(group', p) \in Nat /\ Allocated(group, p) \in Nat
              /\ pool[p].capacity \in Nat /\ Allocated(group, p) <= pool[p].capacity
            BY <1>4, <1>5, AllocatedIs DEF SumsInv, Quantity
        <3> QED
            BY <3>2, <3>3
    <2> QED
        BY <2>1, <2>2
<1>6. \A q : Allocated(group, q)' = Allocated(group', q)
    OBVIOUS
<1>7. Counted(group)'
    BY <1>4 DEF Counted
<1> QED
    BY <1>5, <1>6, <1>7 DEF SumsInv

LEMMA CreateGroupSums ==
    ASSUME ResourcesInv, SumsInv, NEW g \in Groups, NEW shares \in Requested(DOMAIN pool),
           CreateGroup(g, shares)
    PROVE  SumsInv'
<1>1. /\ g \notin DOMAIN group /\ SharesAccepted(group, shares) /\ pool' = pool
      /\ group' = With(group, [x \in {g} |-> Resolved(pool, shares)])
    BY DEF CreateGroup, Live
<1>2. /\ DOMAIN group' = DOMAIN group \cup {g} /\ group'[g] = Resolved(pool, shares)
      /\ \A h \in DOMAIN group : group'[h] = group[h]
    BY <1>1 DEF With
<1> QED
    BY <1>1, <1>2, GivenSums

LEMMA EditGroupSums ==
    ASSUME ResourcesInv, SumsInv, NEW g \in DOMAIN group, NEW shares \in Requested(DOMAIN pool),
           EditGroup(g, shares)
    PROVE  SumsInv'
<1> DEFINE others == Without(group, {g})
<1>1. /\ SharesAccepted(others, shares) /\ pool' = pool
      /\ group' = [group EXCEPT ![g] = Resolved(pool, shares)]
    BY DEF EditGroup
<1>2. DOMAIN others = (DOMAIN group) \ {g} /\ \A h \in DOMAIN others : others[h] = group[h]
    BY DEF Without
<1> HIDE DEF others
<1>3. /\ DOMAIN group' = DOMAIN others \cup {g} /\ group'[g] = Resolved(pool, shares)
      /\ \A h \in DOMAIN others : group'[h] = others[h]
    BY <1>1, <1>2
<1> QED
    BY <1>1, <1>2, <1>3, GivenSums

LEMMA DeleteGroupSums ==
    ASSUME SumsInv, NEW g \in DOMAIN group, DeleteGroup(g)
    PROVE  SumsInv'
<1>1. /\ pool' = pool
      /\ DOMAIN group' = (DOMAIN group) \ {g} /\ \A h \in DOMAIN group' : group'[h] = group[h]
    BY DEF DeleteGroup, Without
<1>2. Counted(group')
    BY <1>1, FS_Subset DEF SumsInv, Counted
<1>3. ASSUME NEW p PROVE Allocated(group', p) <= Allocated(group, p)
    <2>1. \A h \in UsersOf(group', p) :
              h \in UsersOf(group, p) /\ group'[h][p].quantity = group[h][p].quantity
        BY <1>1 DEF UsersOf
    <2> QED
        BY <1>2, <2>1, FewerAllocated DEF SumsInv
<1>4. ASSUME NEW p \in (DOMAIN pool) \cap Capacities, pool[p].mode = "EXCLUSIVE"
      PROVE  Allocated(group', p) <= pool[p].capacity
    <2>1. /\ Allocated(group', p) \in Nat /\ Allocated(group, p) \in Nat
          /\ pool[p].capacity \in Nat /\ Allocated(group, p) <= pool[p].capacity
        BY <1>2, <1>4, AllocatedIs DEF SumsInv, Quantity
    <2> QED
        BY <1>3, <2>1
<1>5. \A q : Allocated(group, q)' = Allocated(group', q)
    OBVIOUS
<1>6. Counted(group)'
    BY <1>2 DEF Counted
<1> QED
    BY <1>1, <1>4, <1>5, <1>6 DEF SumsInv

LEMMA SaveSums ==
    ASSUME ResourcesInv, SumsInv, NEW pools, NEW groups, NEW removed, NEW overwrite,
           Save(pools, groups, removed, overwrite), Sent(pools, groups)
    PROVE  SumsInv'
<1> DEFINE allPools  == IF overwrite
                        THEN With(UnseenPools(DOMAIN pools \cup removed), pools) ELSE pools
           allGroups == IF overwrite
                        THEN With(UnseenGroups(DOMAIN groups), groups) ELSE groups
<1>1. /\ Valid(allPools, allGroups) /\ pool' = allPools
      /\ group' = [g \in DOMAIN allGroups |-> Resolved(allPools, allGroups[g])]
    BY DEF Save
<1>2. \A p \in DOMAIN pools : pools[p].capacity \in Quantity
    BY RowCapacity DEF Sent, SumsInv
<1>3. \A p \in DOMAIN allPools : allPools[p].capacity \in Quantity
    <2>1. CASE overwrite
        <3>1. allPools = With(Without(pool, DOMAIN pools \cup removed), pools)
            BY <2>1 DEF UnseenPools
        <3> HIDE DEF allPools
        <3>2. \A p \in DOMAIN allPools : (p \in DOMAIN pools /\ allPools[p] = pools[p])
                                         \/ (p \in DOMAIN pool /\ allPools[p] = pool[p])
            BY <3>1 DEF With, Without
        <3> QED
            BY <1>2, <3>2 DEF SumsInv
    <2> QED
        BY <1>2, <2>1
<1>4. ASSUME NEW g \in DOMAIN groups, NEW p \in DOMAIN groups[g]
      PROVE  DOMAIN groups[g][p] = Shape /\ groups[g][p].quantity \in Quantity
    <2>1. CASE g \in DOMAIN group /\ groups[g] = group[g]
        BY <2>1 DEF Sent, SumsInv, Counted
    <2>2. CASE groups[g] \in Requested(DOMAIN pool)
        BY <2>2, RequestedQuantities DEF Sent
    <2> QED
        BY <2>1, <2>2 DEF Sent
<1>5. /\ IsFiniteSet(DOMAIN allGroups)
      /\ \A g \in DOMAIN allGroups : \A p \in DOMAIN allGroups[g] :
            DOMAIN allGroups[g][p] = Shape /\ allGroups[g][p].quantity \in Quantity
    <2>1. PICK x : DOMAIN groups \subseteq DOMAIN group \cup {x}
        BY DEF Sent
    <2>2. IsFiniteSet(DOMAIN group \cup {x})
        BY FS_AddElement DEF SumsInv, Counted
    <2>3. CASE overwrite
        <3>1. allGroups = With(Without(group, DOMAIN groups), groups)
            BY <2>3 DEF UnseenGroups
        <3> HIDE DEF allGroups
        <3>2. /\ DOMAIN allGroups = ((DOMAIN group) \ (DOMAIN groups)) \cup DOMAIN groups
              /\ \A g \in DOMAIN allGroups :
                    allGroups[g] = IF g \in DOMAIN groups THEN groups[g] ELSE group[g]
            BY <3>1 DEF With, Without
        <3>3. IsFiniteSet(DOMAIN allGroups)
            BY <2>1, <2>2, <3>2, FS_Subset
        <3> QED
            BY <1>4, <3>2, <3>3 DEF SumsInv, Counted, ResourcesInv, RowsTyped
    <2>4. CASE ~overwrite
        BY <1>4, <2>1, <2>2, <2>4, FS_Subset
    <2> QED
        BY <2>3, <2>4
<1> HIDE DEF allPools, allGroups
<1>6. \A g \in DOMAIN allGroups : DOMAIN allGroups[g] \subseteq DOMAIN allPools
    BY <1>1 DEF Valid
<1>7. DOMAIN group' = DOMAIN allGroups
    BY <1>1
<1>8. ASSUME NEW g \in DOMAIN allGroups
      PROVE  /\ DOMAIN group'[g] = DOMAIN allGroups[g]
             /\ \A p \in DOMAIN allGroups[g] :
                   /\ group'[g][p].quantity \in Quantity
                   /\ allPools[p].mode # "SHARED" => group'[g][p] = allGroups[g][p]
    <2>1. group'[g] = Resolved(allPools, allGroups[g])
        BY <1>1
    <2>2. \A p \in DOMAIN allGroups[g] : allPools[p].capacity \in Quantity
        BY <1>3, <1>6
    <2> QED
        BY <1>5, <2>1, <2>2, ResolvedQuantities
<1>9. Counted(allGroups) /\ Counted(group')
    BY <1>5, <1>7, <1>8 DEF Counted
<1>10. ASSUME NEW p \in (DOMAIN allPools) \cap Capacities, allPools[p].mode = "EXCLUSIVE"
       PROVE  Allocated(group', p) <= allPools[p].capacity
    <2>1. Allocated(allGroups, p) <= allPools[p].capacity
        BY <1>1, <1>10 DEF Valid
    <2>2. UsersOf(group', p) = UsersOf(allGroups, p)
        BY <1>7, <1>8 DEF UsersOf
    <2>3. \A g \in UsersOf(allGroups, p) : group'[g][p] = allGroups[g][p]
        BY <1>8, <1>10 DEF UsersOf
    <2>4. Allocated(group', p) = Allocated(allGroups, p)
        BY <1>9, <2>2, <2>3, SameAllocated
    <2> QED
        BY <2>1, <2>4
<1>11. \A q : Allocated(group, q)' = Allocated(group', q)
    OBVIOUS
<1>12. Counted(group)'
    BY <1>9 DEF Counted
<1> QED
    BY <1>1, <1>3, <1>10, <1>11, <1>12 DEF SumsInv

LEMMA SumsKeep == ResourcesInv /\ SumsInv /\ [Next]_vars => SumsInv'
<1> SUFFICES ASSUME ResourcesInv, SumsInv, [Next]_vars PROVE SumsInv'
    OBVIOUS
<1>1. CASE UNCHANGED <<pool, group>>
    <2>1. \A q : Allocated(group, q)' = Allocated(group, q)
        BY <1>1, Zenon
    <2>2. Counted(group)'
        BY <1>1 DEF SumsInv, Counted
    <2> QED
        BY <1>1, <2>1, <2>2 DEF SumsInv
<1>2. CASE RowStep
    <2>1. DOMAIN pool \subseteq Pools
        BY DEF ResourcesInv, RowsTyped
    <2> QED
        BY <1>2, <2>1, CreatePoolSums, EditPoolSums, DeletePoolSums, CreateGroupSums, EditGroupSums,
           DeleteGroupSums
        DEF RowStep
<1>3. CASE SaveStep
    <2>1. PICK pools, groups, removed, overwrite :
              Sent(pools, groups) /\ Save(pools, groups, removed, overwrite)
        BY <1>3, SaveSends DEF ResourcesInv
    <2> QED
        BY <2>1, SaveSums
<1>4. LoadStep \/ UNCHANGED vars => UNCHANGED <<pool, group>>
    BY DEF LoadStep, Load, vars
<1> QED
    BY <1>1, <1>2, <1>3, <1>4 DEF Next

LEMMA SumsInvariant == Spec => []SumsInv
<1>1. Init => SumsInv
    BY FS_EmptySet DEF Init, NoRows, SumsInv, Counted
<1> QED
    BY <1>1, SumsKeep, ResourcesInvariant, PTL DEF Spec

LEMMA AllocationsStayFit == Spec => []AllocationsFit
<1>1. ResourcesInv /\ SumsInv => AllocationsFit
    BY DEF ResourcesInv, SumsInv, AllocationsFit
<1> QED
    BY <1>1, ResourcesInvariant, SumsInvariant, PTL

-----------------------------------------------------------------------------
(* A behaviour is of one part; the others stand still *)

LEMMA PartsOf == PartSpec => K!KeysSpec /\ F!FeedbackSpec /\ Spec
<1>1. PartInit => K!KeysInit /\ F!FeedbackInit /\ Init
    BY DEF PartInit
<1>2. [PartNext]_<<part, resources, keys, settings, tickets>>
          => [K!KeysNext]_(K!keysVars) /\ [F!FeedbackNext]_(F!feedback) /\ [Next]_vars
    BY DEF PartNext, ResourcesNext, KeysNext, SettingsNext, TicketNext, resources, keys, settings,
           tickets, K!keysVars, K!tables, F!feedback, vars
<1> QED
    BY <1>1, <1>2, PTL DEF PartSpec, K!KeysSpec, F!FeedbackSpec, Spec

\* server/ssh-key-routes.ts, SshKeySection.tsx: the code a page would send was mailed for the
\* operation on its form, and no code changes the keys twice, for any number of pages, keys,
\* codes and lost answers.
THEOREM CodesStayBound == PartSpec => []CodesBind
BY PartsOf, KeysInvariant, KeysBind, PTL

\* server/ssh-key-routes.ts, SshKeyActivationModal.tsx: what a page says it has done is what
\* the terminals of the machines are handed from that step on.
THEOREM PagesTellTheTruth == PartSpec => ToldTrue
BY PartsOf, KeysTold, PTL DEF ToldTrue

\* server/feedback.ts, FeedbackPages.tsx: an image that a ticket or a comment has is on disk,
\* whatever stops the process, and no draft is recorded twice, whatever answers are lost and
\* however often it is sent again.
THEOREM MessagesRecordedOnce == PartSpec => []RecordedOnce
<1>1. TicketInv => RecordedOnce
    BY DEF TicketInv, RecordedOnce
<1> QED
    BY <1>1, PartsOf, TicketInvariant, PTL

\* server/admin/resources-routes.ts, server/settings-routes.ts, server/feedback.ts and their
\* editors: what a save replaces without having been confirmed as an overwrite is what its
\* user was shown, for any number of rows, sections and messages, however pools and groups,
\* or two groups of settings, were loaded apart.
THEOREM EditorsReplaceWhatTheySaw == PartSpec => NothingOverwrittenUnseen
BY PartsOf, OthersEditsStay, SettingsReplaceSeen, TicketsKeptLemma, PTL
DEF NothingOverwrittenUnseen

\* useSettingsController.ts, FeedbackPages.tsx: an answer, a refresh or another
\* administrator's change never takes from a page what its user is typing.
THEOREM PagesKeepDrafts == PartSpec => DraftsKept
BY PartsOf, SettingsDraftsKept, TicketDraftsKept, PTL DEF DraftsKept

\* server/resources.ts: whichever of the two validations let a configuration in, every share
\* is of a live pool and within its units, a share of a shared capacity is all of it, and
\* the groups never have more of an exclusive capacity than there is.
THEOREM AllocationsAlwaysFit == PartSpec => []AllocationsFit
BY PartsOf, AllocationsStayFit, PTL

=============================================================================
