-------------------------- MODULE ChangeLifecycle --------------------------
(***************************************************************************)
(* What a change token promises the person who reviewed its preview: the   *)
(* change is carried out at most once, only after it was confirmed, never  *)
(* after it was withdrawn, and once it is over it stays as it ended.       *)
(*                                                                         *)
(* `ran' is the fact the code keeps nowhere: the remote operation of the   *)
(* change was started.  It may start late: a token can be written off as   *)
(* "unknown" while the operation of a dying process has yet to begin.      *)
(***************************************************************************)
CONSTANT Change

VARIABLES
    state,  \* the recorded state of each change, "absent" before its preview
    ran     \* the changes whose remote operation was started

lifeVars == <<state, ran>>

\* How a confirmed change ends.
Outcome == {"succeeded", "unknown", "failed", "conflict", "partial"}

Terminal == Outcome \cup {"cancelled"}

State == {"absent", "previewed", "executing"} \cup Terminal

LifeTypeOK ==
    /\ state \in [Change -> State]
    /\ ran \in SUBSET Change

LifeInit ==
    /\ state = [c \in Change |-> "absent"]
    /\ ran = {}

Issue(c) ==
    /\ state[c] = "absent"
    /\ state' = [state EXCEPT ![c] = "previewed"]
    /\ UNCHANGED ran

Withdraw(c) ==
    /\ state[c] = "previewed"
    /\ state' = [state EXCEPT ![c] = "cancelled"]
    /\ UNCHANGED ran

Begin(c) ==
    /\ state[c] = "previewed"
    /\ state' = [state EXCEPT ![c] = "executing"]
    /\ UNCHANGED ran

Run(c) ==
    /\ state[c] \in {"executing", "unknown"}
    /\ c \notin ran
    /\ ran' = ran \cup {c}
    /\ UNCHANGED state

Conclude(c, o) ==
    /\ state[c] = "executing"
    /\ state' = [state EXCEPT ![c] = o]
    /\ UNCHANGED ran

\* Every change that was executing when the service died is given up at once.
GiveUp ==
    /\ \E c \in Change : state[c] = "executing"
    /\ state' = [c \in Change |->
                    IF state[c] = "executing" THEN "unknown" ELSE state[c]]
    /\ UNCHANGED ran

LifeNext ==
    \/ \E c \in Change :
        \/ Issue(c)
        \/ Withdraw(c)
        \/ Begin(c)
        \/ Run(c)
        \/ \E o \in Outcome : Conclude(c, o)
    \/ GiveUp

LifeSpec == LifeInit /\ [][LifeNext]_lifeVars
=============================================================================
