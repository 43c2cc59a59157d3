----------------------------- MODULE MCLifecycles -----------------------------
(* A behaviour is the life of an uploaded asset, or one of two scenes with    *)
(* live rooms: rooms of both kinds compete for codes on one process, or one   *)
(* Round ends while two processes hold it.                                    *)
EXTENDS MediaAssets, LiveRooms, FiniteSets, TLC

VARIABLE scene

Symmetry == Permutations(Finalizers) \cup Permutations(Rounds) \cup Permutations(Processes)

\* Three of the four who handle an asset at a time; an attempt to finalize counts from its
\* claim on, since its update may still come.
MaxAtWork == 3

AtWork == {f \in Finalizers : finalizer[f] # "idle"}
          \cup {c \in Cleaners : cleaner[c] # IdleCleaner}
          \cup {d \in Deleters : deleter[d] # IdleDeleter}

FewAtWork == Cardinality(AtWork') <= MaxAtWork

\* Rooms are created, finished and expire on one process; nothing is deleted.
CompeteForCodes ==
    /\ ~fenced' /\ UNCHANGED loader /\ \A r \in Rooms : rooms'[r].status # "deleted"
    /\ \E p \in Processes : /\ \A r \in Rooms : creation'[r].p \in {p, Nobody}
                            /\ \A r \in Rounds : mutation'[r].p \in {p, Nobody}
                            /\ \A q \in Processes \ {p} : active'[q] = {}
    /\ \A r \in Rounds : MutationAt(r, "idle") => mutation'[r] = NoMutation
                                                  \/ mutation'[r].op = "finish"

\* One Round.
OneRound ==
    /\ \A r \in Presentations : creation'[r] = creation[r]
    /\ \A r, q \in Rounds : creation'[r] # NoCreation /\ creation'[q] # NoCreation => r = q

MCInit == Init /\ LiveRoomsInit /\ scene \in {"asset", "codes", "end"}

MCNext ==
    /\ UNCHANGED scene
    /\ \/ scene = "asset" /\ Next /\ FewAtWork /\ UNCHANGED liveRoomsVars
       \/ scene = "codes" /\ LiveRoomsNext /\ CompeteForCodes /\ UNCHANGED vars
       \/ scene = "end" /\ LiveRoomsNext /\ OneRound /\ UNCHANGED vars

MCSpec == MCInit /\ [][MCNext]_<< vars, liveRoomsVars, scene >>
================================================================================
