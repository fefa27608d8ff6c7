---------------------------- MODULE NBodyDomain ----------------------------
(***************************************************************************)
(* The steps of one active domain, MultiNBodyDomain.cu, on the CPU or on   *)
(* the GPU, and what it hands to the buffer in each iteration.             *)
(*                                                                         *)
(* A position is modelled by the number of steps that the body has been    *)
(* moved.  To move a body by a step, the forces on it must come from       *)
(* positions of all bodies after as many steps as its own; a position that *)
(* was reached in another way is Wrong for good.                           *)
(*                                                                         *)
(* The threads of the kernel, and the iterations of the loops that OpenMP  *)
(* may spread over threads, run in any order; each is the calculation for  *)
(* one body and reads the positions one after the other.                   *)
(***************************************************************************)
EXTENDS Integers

CONSTANTS
    np,         \* number of bodies; loadInput makes it a multiple of 32
    MaxIter     \* bound: the number of iterations that are run

Unroll == 4     \* calls in one round of the loop of computeNBodyGravitation

ASSUME DomainAssumption ==
    /\ np \in Nat \ {0} /\ np % Unroll = 0
    /\ MaxIter \in Nat

VARIABLES
    gpu,        \* whether the domain is on the GPU
    iter,       \* theWorld->getIter()
    pc,
    h_pos,      \* positions on the host
    d_pos,      \* the two arrays of positions on the device
    body,       \* what the calculation for each body is at
    j,          \* the next body whose position it reads
    seen        \* the positions its forces come from

vars == <<gpu, iter, pc, h_pos, d_pos, body, j, seen>>

Bodies == 0 .. np - 1
Unset == -1     \* memory that nobody has written
Wrong == -2

Moved(pos, from) == IF from = {pos} /\ pos >= 0 THEN pos + 1 ELSE Wrong

currentRead == iter % 2
-----------------------------------------------------------------------------
(* activate and init: the bodies are set on the host; on the GPU the first *)
(* of the two arrays gets a copy.                                          *)
Init ==
    /\ gpu \in BOOLEAN
    /\ iter = 0
    /\ pc = "step"
    /\ h_pos = [b \in Bodies |-> 0]
    /\ d_pos = [a \in 0 .. 1 |-> [b \in Bodies |-> IF gpu /\ a = 0 THEN 0 ELSE Unset]]
    /\ body = [b \in Bodies |-> "idle"]
    /\ j = [b \in Bodies |-> 0]
    /\ seen = [b \in Bodies |-> {}]

Calculate ==
    /\ body' = [b \in Bodies |-> "forces"]
    /\ j' = [b \in Bodies |-> 0]
    /\ seen' = [b \in Bodies |-> {}]

Finished(at) == \A b \in Bodies : body[b] = at

(* gpuIntegrateNBodySystem: the positions are copied to the host, and then *)
(* the kernel is launched to compute the next ones.                        *)
CopyToHost ==
    /\ gpu /\ pc = "step" /\ iter < MaxIter
    /\ h_pos' = d_pos[currentRead]
    /\ pc' = "kernel"
    /\ Calculate
    /\ UNCHANGED <<gpu, iter, d_pos>>

(* integrateNBodySystem: the forces on all bodies are computed first. *)
ComputeForces ==
    /\ ~gpu /\ pc = "step" /\ iter < MaxIter
    /\ pc' = "forces"
    /\ Calculate
    /\ UNCHANGED <<gpu, iter, h_pos, d_pos>>

(* Mutant of Goes: one body too many. *)
GoesOneTooFar(i) == i <= np \/ (~gpu /\ i % Unroll # 0)

(* Whether the loop over the other bodies goes on: on the CPU this is only *)
(* asked at the start of a round.                                          *)
Goes(i) == i < np \/ (~gpu /\ i % Unroll # 0)

Position(i) == IF i \notin Bodies THEN Unset
               ELSE IF gpu THEN d_pos[currentRead][i] ELSE h_pos[i]

(* bodyBodyInteraction: the force of one more body is added. *)
Interact(b) ==
    /\ body[b] = "forces" /\ Goes(j[b])
    /\ seen' = [seen EXCEPT ![b] = @ \cup {Position(j[b])}]
    /\ j' = [j EXCEPT ![b] = @ + 1]
    /\ UNCHANGED <<gpu, iter, pc, h_pos, d_pos, body>>

(* Mutant of StoreNew: one array for both. *)
StoreInPlace(b) ==
    /\ pc = "kernel" /\ body[b] = "forces" /\ ~Goes(j[b])
    /\ d_pos' = [d_pos EXCEPT ![currentRead][b] = Moved(d_pos[currentRead][b], seen[b])]
    /\ body' = [body EXCEPT ![b] = "moved"]
    /\ UNCHANGED <<gpu, iter, pc, h_pos, j, seen>>

(* A thread of the kernel stores the new position of its body, in the      *)
(* other array.                                                            *)
StoreNew(b) ==
    /\ pc = "kernel" /\ body[b] = "forces" /\ ~Goes(j[b])
    /\ d_pos' = [d_pos EXCEPT ![1 - currentRead][b] = Moved(d_pos[currentRead][b], seen[b])]
    /\ body' = [body EXCEPT ![b] = "moved"]
    /\ UNCHANGED <<gpu, iter, pc, h_pos, j, seen>>

(* Mutant of StoreForce: a body is moved as soon as its force is known. *)
StoreForceAndMove(b) ==
    /\ pc = "forces" /\ body[b] = "forces" /\ ~Goes(j[b])
    /\ h_pos' = [h_pos EXCEPT ![b] = Moved(h_pos[b], seen[b])]
    /\ body' = [body EXCEPT ![b] = "moved"]
    /\ UNCHANGED <<gpu, iter, pc, d_pos, j, seen>>

(* computeNBodyGravitation stores the force on a body, ... *)
StoreForce(b) ==
    /\ pc = "forces" /\ body[b] = "forces" /\ ~Goes(j[b])
    /\ body' = [body EXCEPT ![b] = "force"]
    /\ UNCHANGED <<gpu, iter, pc, h_pos, d_pos, j, seen>>

(* ... and when the forces on all are known, integrateNBodySystem moves    *)
(* the bodies.                                                             *)
ForcesDone ==
    /\ pc = "forces" /\ Finished("force")
    /\ pc' = "move"
    /\ UNCHANGED <<gpu, iter, h_pos, d_pos, body, j, seen>>

MoveBody(b) ==
    /\ pc = "move" /\ body[b] = "force"
    /\ h_pos' = [h_pos EXCEPT ![b] = Moved(h_pos[b], seen[b])]
    /\ body' = [body EXCEPT ![b] = "moved"]
    /\ UNCHANGED <<gpu, iter, pc, d_pos, j, seen>>

(* The loop has ended, or the host has waited for the kernel: the          *)
(* positions on the host go to the buffer.                                 *)
Buffer ==
    /\ pc \in {"kernel", "move"} /\ Finished("moved")
    /\ pc' = "buffered"
    /\ UNCHANGED <<gpu, iter, h_pos, d_pos, body, j, seen>>

(* Mutant of NextIteration: the iteration is not counted. *)
NextIterationUncounted ==
    /\ pc = "buffered"
    /\ pc' = "step"
    /\ UNCHANGED <<gpu, iter, h_pos, d_pos, body, j, seen>>

(* MultiNBodyWorld::run counts the iteration. *)
NextIteration ==
    /\ pc = "buffered"
    /\ iter' = iter + 1
    /\ pc' = "step"
    /\ UNCHANGED <<gpu, h_pos, d_pos, body, j, seen>>

HostStep == CopyToHost \/ ComputeForces \/ ForcesDone \/ Buffer \/ NextIteration
BodyStep(b) == Interact(b) \/ StoreNew(b) \/ StoreForce(b) \/ MoveBody(b)

Next == HostStep \/ \E b \in Bodies : BodyStep(b)

Spec == Init /\ [][Next]_vars
-----------------------------------------------------------------------------
Positions == {Unset, Wrong} \cup Nat

TypeOK ==
    /\ gpu \in BOOLEAN
    /\ iter \in 0 .. MaxIter
    /\ pc \in {"step", "kernel", "forces", "move", "buffered"}
    /\ h_pos \in [Bodies -> Positions]
    /\ d_pos \in [0 .. 1 -> [Bodies -> Positions]]
    /\ body \in [Bodies -> {"idle", "forces", "force", "moved"}]
    /\ j \in [Bodies -> 0 .. np]
    /\ seen \in [Bodies -> SUBSET Positions]

(* No body is ever moved by forces between positions of different moments, *)
(* or by a position that was never set or is not one of a body, whatever   *)
(* the order in which the bodies are calculated.                           *)
NothingWrong == \A b \in Bodies : h_pos[b] # Wrong /\ d_pos[0][b] # Wrong /\ d_pos[1][b] # Wrong

(* What the buffer gets in iteration n: on the GPU every body after n      *)
(* steps, since the copy is made before the kernel runs; on the CPU every  *)
(* body after n + 1.  In particular all bodies of a frame are shown at the *)
(* same moment.                                                            *)
FrameOfIteration ==
    pc = "buffered" => \A b \in Bodies : h_pos[b] = IF gpu THEN iter ELSE iter + 1
=============================================================================
