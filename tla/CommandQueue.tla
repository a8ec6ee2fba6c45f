---------------------------- MODULE CommandQueue ----------------------------
(***************************************************************************)
(* What a client may rely on when it sends commands with retries: each     *)
(* command is accepted at most once, with one event for each acceptance,   *)
(* in one step, and an acceptance that is reported has happened.           *)
(***************************************************************************)
CONSTANT Commands

VARIABLES accepted,   \* commands that were carried out
          announced,  \* commands whose event is in the outbox
          confirmed   \* commands whose client was told so

queueVars == <<accepted, announced, confirmed>>

QueueInit == accepted = {} /\ announced = {} /\ confirmed = {}

Accept(c) ==
  /\ c \notin accepted
  /\ accepted' = accepted \cup {c}
  /\ announced' = announced \cup {c}
  /\ confirmed' \in {confirmed, confirmed \cup {c}}

Confirm(c) ==
  /\ c \in accepted
  /\ confirmed' = confirmed \cup {c}
  /\ UNCHANGED <<accepted, announced>>

QueueNext == \E c \in Commands : Accept(c) \/ Confirm(c)
Queue == QueueInit /\ [][QueueNext]_queueVars
=============================================================================
