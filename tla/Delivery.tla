------------------------------ MODULE Delivery ------------------------------
(***************************************************************************)
(* What the transactional outbox promises of every message, without        *)
(* dispatchers, claims, lanes, attempts or time: a stored message is       *)
(* offered to the broker while it is pending, is settled as published only *)
(* after the broker has it, and is otherwise given up, parked on the       *)
(* dead-letter queue and then marked so.  Settled rows are final.          *)
(*                                                                         *)
(* A storage error or a crash may hide that a message was sent: for each   *)
(* of them it may be sent once more, and it may be given up although the   *)
(* broker has it.  Once a run has outlived its leases (slow = 1) its late  *)
(* calls may reach a row in any state: the row may be sent, settled or     *)
(* given up again.                                                         *)
(***************************************************************************)
EXTENDS Naturals

CONSTANT Msg

VARIABLES
  status,  \* the state of the message's row
  sent,    \* how often the broker accepted it
  parked,  \* how often the dead-letter queue accepted it
  faults,  \* storage errors and crashes so far
  slow     \* 1 once a run has outlived its leases

vars == <<status, sent, parked, faults, slow>>

Init ==
  /\ status = [m \in Msg |-> "Absent"]
  /\ sent = [m \in Msg |-> 0]
  /\ parked = [m \in Msg |-> 0]
  /\ faults = 0
  /\ slow = 0

\* The row is in one of the states S, or a late call found it in another.
Open(m, S) == status[m] \in S \/ (slow = 1 /\ status[m] # "Absent")

\* All copies the broker has are owed to errors and crashes, or to late calls.
Unsent(m) == slow = 0 => sent[m] <= faults

Become(m, s) ==
  status' = [status EXCEPT ![m] = s] /\ UNCHANGED <<sent, parked, faults, slow>>

Store(m) == status[m] = "Absent" /\ Become(m, "Pending")

Send(m) ==
  /\ Open(m, {"Pending"}) /\ Unsent(m)
  /\ sent' = [sent EXCEPT ![m] = @ + 1]
  /\ UNCHANGED <<status, parked, faults, slow>>

Settle(m) == Open(m, {"Pending"}) /\ sent[m] > 0 /\ Become(m, "Published")

GiveUp(m) == Open(m, {"Pending"}) /\ Unsent(m) /\ Become(m, "Failed")

\* Two sweeps may park a row one after the other.
Park(m) ==
  /\ Open(m, {"Failed", "DeadLettered"})
  /\ parked' = [parked EXCEPT ![m] = @ + 1]
  /\ UNCHANGED <<status, sent, faults, slow>>

Bury(m) ==
  Open(m, {"Failed", "DeadLettered"}) /\ parked[m] > 0 /\ Become(m, "DeadLettered")

Fail == faults' = faults + 1 /\ UNCHANGED <<status, sent, parked, slow>>

Overrun == slow' = 1 /\ UNCHANGED <<status, sent, parked, faults>>

Next ==
  \/ \E m \in Msg : Store(m) \/ Send(m) \/ Settle(m) \/ GiveUp(m) \/ Park(m) \/ Bury(m)
  \/ Fail
  \/ Overrun

Spec == Init /\ [][Next]_vars
=============================================================================
