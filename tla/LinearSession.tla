---------------------------- MODULE LinearSession ----------------------------
(***************************************************************************)
(* What the server promises of one session, however many processes serve   *)
(* it: a single history every mutation is appended to once, and a          *)
(* mutation acknowledged to its client is in that history for good.        *)
(***************************************************************************)
EXTENDS Sequences

CONSTANT Ops         \* the mutations clients ask for, each with its own idempotency key

VARIABLES log,       \* the mutations applied, in order
          acked      \* the mutations acknowledged

Applied(o) == \E i \in DOMAIN log : log[i] = o

Apply(o, acknowledged) ==
    /\ ~Applied(o)
    /\ log' = Append(log, o)
    /\ acked' = IF acknowledged THEN acked \cup {o} ELSE acked

Acknowledge(o) ==
    /\ Applied(o)
    /\ acked' = acked \cup {o}
    /\ UNCHANGED log

LinearInit == log = <<>> /\ acked = {}

LinearNext ==
    \E o \in Ops : Acknowledge(o) \/ \E acknowledged \in BOOLEAN : Apply(o, acknowledged)

LinearSpec == LinearInit /\ [][LinearNext]_<<log, acked>>
===============================================================================
