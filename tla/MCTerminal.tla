----------------------------- MODULE MCTerminal -----------------------------
(* Small instances of the two parts of the terminal program, which share no *)
(* state: what it does with the SSH configuration and the keys (Terminal),  *)
(* and how it is registered (Enrolment). A behaviour is one of one part.    *)
EXTENDS Terminal, TLC

CONSTANTS MaxRegs, MaxKeys, MaxFaults

VARIABLES
    part,       \* the part this behaviour is about
    reg, creds, saved, identity, pending, stamp, proc, made, faults, synced

E == INSTANCE Enrolment

ASSUME EnrolmentBounds == MaxRegs \in Nat /\ MaxKeys \in Nat /\ MaxFaults \in Nat

EitherInit == Init /\ E!EnrolmentInit /\ part \in {"ssh", "enrolment"}

SshNext ==
    /\ part = "ssh"
    /\ Next
    /\ UNCHANGED <<part, reg, creds, saved, identity, pending, stamp, proc, made,
                   faults, synced>>

EnrolmentNext ==
    /\ part = "enrolment"
    /\ E!EnrolmentNext
    /\ UNCHANGED <<part, file, loaded, uid, grants, keyfile, bound, inventory, journal,
                   failed, run, tried>>

EitherNext == SshNext \/ EnrolmentNext

EitherSpec ==
    EitherInit /\ [][EitherNext]_<<part, vars, reg, creds, saved, identity, pending, stamp,
                                   proc, made, faults, synced>>

\* The machine has the key the platform knows it by, and the platform shows an installation
\* as complete only after its keys were written.
BothSidesAgree == E!BothSidesAgree

\* Nothing of unknown outcome is repeated blindly: an automatic attempt is made once for what
\* it found, and a configuration is only given a registration whose key the machine was shown
\* to hold.
NothingTriedBlindly == TriedOnce /\ E!SavedProved

HostSymmetry == Permutations(Files)
=============================================================================
