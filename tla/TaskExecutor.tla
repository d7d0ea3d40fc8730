---------------------------- MODULE TaskExecutor ----------------------------
(***************************************************************************)
(* What a task pool promises to its callers, without queue, workers or     *)
(* counters: a task is accepted or refused, an accepted task is settled    *)
(* once, nothing is accepted after the close, and the executor terminates  *)
(* only when everything it accepted is settled.                            *)
(***************************************************************************)
CONSTANT Tasks

VARIABLES phase,     (* "open", "closed" or "terminated" *)
          status     (* of each task                     *)

vars == <<phase, status>>

Status == {"new", "accepted", "refused", "settled"}

TypeOK ==
  /\ phase \in {"open", "closed", "terminated"}
  /\ status \in [Tasks -> Status]

Init ==
  /\ phase = "open"
  /\ status = [t \in Tasks |-> "new"]

Accept(t) ==
  /\ phase = "open"
  /\ status[t] = "new"
  /\ status' = [status EXCEPT ![t] = "accepted"]
  /\ UNCHANGED phase

Refuse(t) ==
  /\ status[t] = "new"
  /\ status' = [status EXCEPT ![t] = "refused"]
  /\ UNCHANGED phase

SettleTask(t) ==
  /\ phase # "terminated"
  /\ status[t] = "accepted"
  /\ status' = [status EXCEPT ![t] = "settled"]
  /\ UNCHANGED phase

Close ==
  /\ phase = "open"
  /\ phase' = "closed"
  /\ UNCHANGED status

Terminate ==
  /\ phase = "closed"
  /\ \A t \in Tasks : status[t] # "accepted"
  /\ phase' = "terminated"
  /\ UNCHANGED status

Next ==
  \/ Close
  \/ Terminate
  \/ \E t \in Tasks : Accept(t) \/ Refuse(t) \/ SettleTask(t)

Spec == Init /\ [][Next]_vars
=============================================================================
