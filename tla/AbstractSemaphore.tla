------------------------- MODULE AbstractSemaphore -------------------------
(***************************************************************************)
(* What _CORE_semaphore_Seize, _CORE_semaphore_Surrender and               *)
(* _CORE_semaphore_Flush promise their callers: a counting semaphore on    *)
(* which every directive, every timeout and every return is one step.      *)
(***************************************************************************)
EXTENDS Naturals

CONSTANTS Client, InitialCount, MaximumCount

VARIABLES
  units,   \* the units the semaphore holds
  call     \* per client, its pending obtain and how it ended

absVars == <<units, call>>

Outcome == {"successful", "unsatisfied_nowait", "timeout"}
Waiting == {c \in Client : call[c] = "waiting"}

Init == units = InitialCount /\ call = [c \in Client |-> "none"]

\* An obtain that finds a unit takes it at once.
Take == units > 0 /\ units' = units - 1 /\ UNCHANGED call

\* An obtain that finds none waits.
Wait(c) ==
  /\ units = 0 /\ call[c] = "none"
  /\ call' = [call EXCEPT ![c] = "waiting"]
  /\ UNCHANGED units

\* A surrendered unit goes to one waiting client, else to the semaphore.
Hand(c) ==
  /\ call[c] = "waiting"
  /\ call' = [call EXCEPT ![c] = "successful"]
  /\ UNCHANGED units

Store ==
  /\ Waiting = {} /\ units < MaximumCount
  /\ units' = units + 1
  /\ UNCHANGED call

\* A timeout or a flush ends a wait without a unit.
Cancel(c) ==
  /\ call[c] = "waiting"
  /\ call' \in {[call EXCEPT ![c] = r] : r \in Outcome \ {"successful"}}
  /\ UNCHANGED units

Return(c) ==
  /\ call[c] \in Outcome
  /\ call' = [call EXCEPT ![c] = "none"]
  /\ UNCHANGED units

Next ==
  \/ Take \/ Store
  \/ \E c \in Client : Wait(c) \/ Hand(c) \/ Cancel(c) \/ Return(c)

Spec == Init /\ [][Next]_absVars
=============================================================================
