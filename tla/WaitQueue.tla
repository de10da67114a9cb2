------------------------------ MODULE WaitQueue ------------------------------
(***************************************************************************)
(* The thread queue as the reader/writer lock and the barrier see it: a    *)
(* FIFO queue whose waits begin and end in one step (ThreadQueue has what  *)
(* is inside a wait), time-outs, and a thread that releases the object     *)
(* with dispatching disabled while time-outs come between its steps.       *)
(***************************************************************************)
EXTENDS Integers, FiniteSets

CONSTANTS Thread, Nobody

ASSUME WaitQueueAssumption == Nobody \notin Thread /\ IsFiniteSet(Thread)

VARIABLES
  timed,     \* the callers may wait with a time-out, in all of a behaviour or never
  status,    \* per thread, Wait.return_code
  waiting,   \* the threads on Wait_queue
  ahead,     \* per thread that waits, those before it on the queue
  releaser   \* the thread in the release of the object

WaitQueueInit ==
  /\ timed \in BOOLEAN
  /\ status = [t \in Thread |-> "successful"]
  /\ waiting = {} /\ ahead = [t \in Thread |-> {}]
  /\ releaser = Nobody

\* Thread t may run: it is not blocked, and dispatching is enabled.
Runs(t) == releaser = Nobody /\ t \notin waiting

First(t) == t \in waiting /\ ahead[t] = {}

\* Put thread t at the end of the queue.
Enqueue(t) ==
  /\ status' = [status EXCEPT ![t] = "successful"]
  /\ waiting' = waiting \cup {t} /\ ahead' = [ahead EXCEPT ![t] = waiting]

\* Take thread t from the queue.
Extract(t) ==
  /\ waiting' = waiting \ {t}
  /\ ahead' = [u \in Thread |-> IF u = t THEN {} ELSE ahead[u] \ {t}]

\* _Thread_Timeout: the queue forgets the thread, its object does not.
Timeout(t) ==
  /\ timed /\ t \in waiting
  /\ Extract(t)
  /\ status' = [status EXCEPT ![t] = "timeout"]
=============================================================================
