------------------------------ MODULE EventBusMC ------------------------------
(***************************************************************************)
(* The instance of bus.py for TLC: the event bus with one task, an actor   *)
(* and a background observe, and the queue of one stream() observer.       *)
(*                                                                         *)
(* The two share no variable, no property speaks of both, and put_nowait   *)
(* never makes the bus wait, so that their interleavings add nothing: a    *)
(* behaviour is one of the bus or one of the queue.                        *)
(***************************************************************************)
EXTENDS EventBus, ObserverQueue

CONSTANTS t1, a1, b1

MCOneTask == [r \in Runs |-> t1]

VARIABLE part  \* "bus" or "queue", for the whole behaviour

BusInit == part \in {"bus", "queue"} /\ Init /\ QueueInit

BusNext ==
  \/ part = "bus" /\ Next /\ UNCHANGED <<part, queueVars>>
  \/ part = "queue" /\ QueueNext /\ UNCHANGED <<part, vars>>

\* The observer's queue is empty in a behaviour of the bus and no round is open
\* in one of the queue, so that neither fairness asks anything of the other part.
BusSpec ==
  /\ BusInit /\ [][BusNext]_<<part, vars, queueVars>>
  /\ Fairness /\ WF_queueVars(Take)
===============================================================================
