--------------------------- MODULE MCMessageQueue ---------------------------
(***************************************************************************)
(* MessageQueue for TLC: POSIX queues with room for one and for two        *)
(* messages of two priorities, and a Classic queue with multiprocessing.   *)
(***************************************************************************)
EXTENDS MessageQueue

CONSTANTS x1

MinusThree == 0 - 3
ByPriority == [m \in Message |-> IF m = x1 THEN 0 - 1 ELSE 0]
ByRequest == [m \in Message |-> IF m = x1 THEN UrgentRequest ELSE SendRequest]

MCQueues ==
  [type : {ByPriority}, max : {1, 2}, blocking : {TRUE}, multiprocessing : {FALSE}]
    \cup [type : {ByRequest}, max : {2}, blocking : {FALSE}, multiprocessing : {TRUE}]
=============================================================================
