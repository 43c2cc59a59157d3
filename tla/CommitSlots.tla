----------------------------- MODULE CommitSlots -----------------------------
(* The answer commits of all sessions of a server process share a fixed     *)
(* number of slots (apps/server/src/session-service.ts).  A commit that ends *)
(* hands its slot to the one that waits longest, which takes it over when    *)
(* its promise continues.                                                    *)
EXTENDS Naturals, Sequences, FiniteSets

CONSTANTS
    Commits,        \* the calls of withAnswerCommitSlot
    MaxSlots        \* maximumConcurrentAnswerCommits

ASSUME SlotsAssumption == MaxSlots \in Nat \ {0}

VARIABLES
    active,     \* activeAnswerCommits
    waiters,    \* answerCommitWaiters
    commit      \* per call: "idle", "waiting", "handed" a slot, "working" or "over"

slotVars == << active, waiters, commit >>

SlotsInit == active = 0 /\ waiters = <<>> /\ commit = [c \in Commits |-> "idle"]

\* Mistaken: a call may have the slot that was just handed to a waiter.
FullWhenAllWork == Cardinality({c \in Commits : commit[c] = "working"}) >= MaxSlots

Full == active >= MaxSlots

TakeSlot(c) ==
    /\ commit[c] = "idle"
    /\ IF Full
       THEN /\ waiters' = Append(waiters, c) /\ commit' = [commit EXCEPT ![c] = "waiting"]
            /\ UNCHANGED active
       ELSE /\ active' = active + 1 /\ commit' = [commit EXCEPT ![c] = "working"]
            /\ UNCHANGED waiters

Continues(c) ==
    /\ commit[c] = "handed" /\ commit' = [commit EXCEPT ![c] = "working"]
    /\ UNCHANGED << active, waiters >>

\* finally, whether the work returned or threw.
HandOn(c) ==
    /\ commit[c] = "working"
    /\ IF waiters # <<>>
       THEN /\ commit' = [commit EXCEPT ![c] = "over", ![Head(waiters)] = "handed"]
            /\ waiters' = Tail(waiters) /\ UNCHANGED active
       ELSE /\ commit' = [commit EXCEPT ![c] = "over"]
            /\ active' = active - 1 /\ UNCHANGED waiters

SlotsNext == \E c \in Commits : TakeSlot(c) \/ Continues(c) \/ HandOn(c)

SlotsSpec == SlotsInit /\ [][SlotsNext]_slotVars
-----------------------------------------------------------------------------
\* The slots in use are those of the commits that work or are about to, never more than there
\* are, and nobody waits while one is free: a commit that throws cannot starve the sessions.
SlotsInv ==
    /\ active = Cardinality({c \in Commits : commit[c] \in {"handed", "working"}})
    /\ active <= MaxSlots
    /\ waiters # <<>> => active = MaxSlots
    /\ \A c \in Commits :
          commit[c] = "waiting" <=> \E i \in DOMAIN waiters : waiters[i] = c
==============================================================================
