----------------------------- MODULE FrameStream -----------------------------
(***************************************************************************)
(* What a viewer of the simulation is promised by MultiDomainBuffer.h:     *)
(* every domain produces its iterations one after the other, and from time *)
(* to time the consumer is handed a frame, the data of every domain for    *)
(* one iteration.  Frames only move forward, a frame is handed over only   *)
(* when every domain has produced its iteration, and there is never a      *)
(* second frame while the consumer still holds the first one.  Iterations  *)
(* may be skipped: nothing says that every frame is shown.                 *)
(***************************************************************************)
EXTENDS Integers

CONSTANTS
    Domains,  \* the domains of the simulated world
    NoFrame   \* "the consumer holds no frame", not a number

VARIABLES
    produced,   \* produced[d]: how many iterations domain d has handed over
    frame,      \* the iteration the consumer holds, or NoFrame
    delivered   \* the newest iteration ever handed to the consumer, or -1

vars == <<produced, frame, delivered>>

Init ==
    /\ produced = [d \in Domains |-> 0]
    /\ frame = NoFrame
    /\ delivered = -1

(* Domain d hands over its next iteration. *)
Produce(d) ==
    /\ produced' = [produced EXCEPT ![d] = @ + 1]
    /\ UNCHANGED <<frame, delivered>>

(* A newer iteration that every domain has produced is given to an idle    *)
(* consumer.                                                               *)
Deliver ==
    /\ frame = NoFrame
    /\ frame' \in Nat
    /\ frame' > delivered
    /\ \A d \in Domains : frame' < produced[d]
    /\ delivered' = frame'
    /\ UNCHANGED produced

(* The consumer is done with its frame. *)
Release ==
    /\ frame # NoFrame
    /\ frame' = NoFrame
    /\ UNCHANGED <<produced, delivered>>

Next ==
    \/ \E d \in Domains : Produce(d)
    \/ Deliver
    \/ Release

Spec == Init /\ [][Next]_vars
=============================================================================
