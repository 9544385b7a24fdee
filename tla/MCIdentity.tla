----------------------------- MODULE MCIdentity -----------------------------
(* Small instances of what concerns accounts: what identifies them          *)
(* (Identity) and the sessions that pages hold (Sessions). These share no   *)
(* state: a behaviour is one of one of them.                                *)
EXTENDS Identity, Sessions, TLC

VARIABLE part   \* what this behaviour is about: a page stands for the sessions of that page
                \* alone, with links, and with two changes or resets of a password at a time

EitherInit ==
    /\ part \in {"identity", "sessions"} \cup Pages
    /\ Init /\ SessionsInit
    /\ part # "sessions" => ~shared

IdentityNext == part = "identity" /\ Next /\ UNCHANGED <<part, session>>

\* Two pages and no link, or one page alone
LoginsNext ==
    /\ part # "identity"
    /\ SessionsNext
    /\ part = "sessions" => links' = links /\ Cardinality(jobs') <= 1
    /\ part \in Pages =>
          \A q \in Pages \ {part} : inquiry'[q] = inquiry[q] /\ call'[q] = call[q]
    /\ UNCHANGED <<part, vars>>

EitherNext == IdentityNext \/ LoginsNext

EitherSpec == EitherInit /\ [][EitherNext]_<<part, vars, session>>

\* The configuration calls the accounts of Sessions as those of Identity, and its pages as
\* the names: fewer permutations serve both.
RowSymmetry ==
    Permutations(Users) \cup Permutations(Names) \cup Permutations(Numbers)
    \cup Permutations(Codes)
=============================================================================
