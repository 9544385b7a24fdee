----------------------------- MODULE MCDelivery -----------------------------
(* Small instances of two queues that must reach their ends and share no      *)
(* state: the mail outbox (Outbox) and the assistance requests of a terminal  *)
(* (HelpDelivery). A behaviour is one of one queue.                           *)
EXTENDS Outbox, TLC

CONSTANTS Kinds, MaxQueue, MaxBatch, MaxChanges

VARIABLES
    part,       \* the queue this behaviour is about
    problem, changes, queue, awaited, answered, wire, server, notices

H == INSTANCE HelpDelivery

ASSUME QueueBounds ==
    /\ MaxQueue \in Nat \ {0} /\ MaxBatch \in Nat \ {0} /\ MaxChanges \in Nat
    /\ IsFiniteSet(Kinds)
    /\ Cardinality(Kinds) + MaxChanges <= MaxQueue

\* The variables of a queue that the behaviour is not about have one value.
EitherInit ==
    /\ part \in {"outbox", "help"}
    /\ Init /\ H!Init
    /\ part = "help" => ~enabled

InOutbox(A) ==
    /\ part = "outbox" /\ A
    /\ UNCHANGED <<part, problem, changes, queue, awaited, answered, wire, server, notices>>

InHelp(A) ==
    /\ part = "help" /\ A
    /\ UNCHANGED <<part, mails, created, expired, due, enabled, processing, todo, delivered,
                   faults>>

EitherNext == InOutbox(Next) \/ InHelp(H!Next)

eitherVars == <<part, vars, problem, changes, queue, awaited, answered, wire, server, notices>>

\* The fairness of the two queues, each in the behaviours that are about it.
EitherFairness ==
    /\ \A p \in Passes : WF_eitherVars(InOutbox(SendEnds(p)))
    /\ WF_eitherVars(InOutbox(\E p \in Passes : StartPass(p)))
    /\ \A m \in Ids : WF_eitherVars(InOutbox(BackoffEnds(m)))
    /\ WF_eitherVars(InHelp(H!GivenUp \/ H!Acknowledged))
    /\ SF_eitherVars(InHelp(H!FullCycle)) /\ SF_eitherVars(InHelp(H!Answer))
    /\ SF_eitherVars(InHelp(H!Acknowledged))

EitherSpec == EitherInit /\ [][EitherNext]_eitherVars /\ EitherFairness

\* What the platform shows as open is still queued, and nobody is told twice.
ReportsAccounted == H!ReportsAccounted

\* No mail stays unsent for ever, and the platform comes to show what is wrong on the machine.
EverythingDelivered == NoMailStuck /\ H!PlatformCatchesUp
=============================================================================
