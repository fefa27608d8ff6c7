------------------------- MODULE NBodyDomain_proofs -------------------------
(***************************************************************************)
(* Proofs about NBodyDomain, for any number of bodies that the unrolled    *)
(* loop divides and any number of iterations.                              *)
(***************************************************************************)
EXTENDS NBodyDomain, TLAPS

(* The forces on b are computed from positions of this iteration only, and *)
(* once a position has been read, from those.                              *)
SeenNow(b) == seen[b] \subseteq {iter} /\ (j[b] > 0 => seen[b] = {iter})

(* On the GPU the array that is read holds every body after iter steps,    *)
(* and the other one gets them after one more.                             *)
GpuInv == gpu =>
    /\ pc \in {"step", "kernel", "buffered"}
    /\ \A b \in Bodies :
          /\ d_pos[currentRead][b] = iter
          /\ d_pos[1 - currentRead][b] # Wrong
          /\ pc \in {"kernel", "buffered"} => h_pos[b] = iter
          /\ pc = "step" => h_pos[b] # Wrong
          /\ pc = "kernel" => body[b] \in {"forces", "moved"} /\ SeenNow(b)
          /\ (pc = "kernel" /\ body[b] = "moved") \/ pc = "buffered"
                => d_pos[1 - currentRead][b] = iter + 1

(* On the CPU the one array is moved on when all forces are known. *)
CpuInv == ~gpu =>
    /\ pc \in {"step", "forces", "move", "buffered"}
    /\ \A b \in Bodies :
          /\ d_pos[0][b] = Unset /\ d_pos[1][b] = Unset
          /\ h_pos[b] = IF (pc = "move" /\ body[b] = "moved") \/ pc = "buffered"
                        THEN iter + 1 ELSE iter
          /\ pc = "forces" => body[b] \in {"forces", "force"} /\ SeenNow(b)
          /\ pc = "move" => body[b] \in {"force", "moved"}
          /\ pc \in {"forces", "move"} /\ body[b] = "force" => seen[b] = {iter}

(* The bodies are calculated in an iteration that is to be run. *)
Bounds ==
    /\ pc # "step" => iter < MaxIter
    /\ pc \in {"step", "buffered"} => \A b \in Bodies : body[b] \in {"idle", "moved"}

DomainInv == TypeOK /\ Bounds /\ GpuInv /\ CpuInv
-----------------------------------------------------------------------------
(* The loop of a body ends at np, unrolled or not. *)
LEMMA GoesInRange ==
    ASSUME NEW i \in 0 .. np, gpu \in BOOLEAN
    PROVE  Goes(i) <=> i < np
BY DomainAssumption, SMT DEF Goes, Unroll

LEMMA DomainInvInit == Init => DomainInv
BY DomainAssumption, SMT
DEF Init, DomainInv, TypeOK, Bounds, GpuInv, CpuInv, SeenNow, Positions, Bodies, currentRead, Unset, Wrong

-----------------------------------------------------------------------------
LEMMA CopyToHostInv == DomainInv /\ CopyToHost => DomainInv'
<1> SUFFICES ASSUME DomainInv, CopyToHost PROVE DomainInv'
    OBVIOUS
<1> USE DEF DomainInv, CopyToHost, Calculate
<1>1. TypeOK'
    BY DomainAssumption, SMT DEF TypeOK, Positions, Bodies, currentRead
<1>2. Bounds'
    BY SMT DEF Bounds, TypeOK
<1>3. GpuInv'
    BY SMT DEF GpuInv, TypeOK, Bodies, currentRead, SeenNow, Wrong
<1>4. CpuInv'
    BY SMT DEF CpuInv, TypeOK
<1> QED BY <1>1, <1>2, <1>3, <1>4

LEMMA ComputeForcesInv == DomainInv /\ ComputeForces => DomainInv'
<1> SUFFICES ASSUME DomainInv, ComputeForces PROVE DomainInv'
    OBVIOUS
<1> USE DEF DomainInv, ComputeForces, Calculate
<1>1. TypeOK'
    BY DomainAssumption, SMT DEF TypeOK, Positions, Bodies
<1>2. Bounds'
    BY SMT DEF Bounds, TypeOK
<1>3. GpuInv'
    BY SMT DEF GpuInv, TypeOK
<1>4. CpuInv'
    BY SMT DEF CpuInv, TypeOK, Bodies, SeenNow
<1> QED BY <1>1, <1>2, <1>3, <1>4

LEMMA InteractInv ==
    ASSUME NEW c \in Bodies
    PROVE  DomainInv /\ Interact(c) => DomainInv'
<1> SUFFICES ASSUME DomainInv, Interact(c) PROVE DomainInv'
    OBVIOUS
<1> USE DEF DomainInv, Interact
<1>1. j[c] \in 0 .. np - 1
    BY GoesInRange, DomainAssumption, SMT DEF TypeOK
<1>2. Position(j[c]) = iter
    BY <1>1, DomainAssumption, SMT DEF Position, Bodies, GpuInv, CpuInv, TypeOK, Bounds
<1>3. TypeOK'
    <2>1. seen' \in [Bodies -> SUBSET Positions]
        BY <1>2, SMT DEF TypeOK, Positions
    <2>2. j' \in [Bodies -> 0 .. np]
        BY <1>1, DomainAssumption, SMT DEF TypeOK
    <2> QED BY <2>1, <2>2 DEF TypeOK
<1>4. SeenNow(c)' /\ \A b \in Bodies \ {c} : SeenNow(b)' <=> SeenNow(b)
    <2>1. SeenNow(c)
        BY SMT DEF GpuInv, CpuInv, Bounds, TypeOK
    <2> QED BY <2>1, <1>1, <1>2, DomainAssumption, SMT DEF SeenNow, TypeOK
<1>5. Bounds'
    BY SMT DEF Bounds
<1>6. GpuInv'
    BY <1>4, SMT DEF GpuInv, currentRead
<1>7. CpuInv'
    BY <1>4, SMT DEF CpuInv, TypeOK
<1> QED BY <1>3, <1>5, <1>6, <1>7

LEMMA StoreNewInv ==
    ASSUME NEW c \in Bodies
    PROVE  DomainInv /\ StoreNew(c) => DomainInv'
<1> SUFFICES ASSUME DomainInv, StoreNew(c) PROVE DomainInv'
    OBVIOUS
<1> USE DEF DomainInv, StoreNew
<1>1. gpu /\ currentRead \in 0 .. 1 /\ currentRead' = currentRead
    BY SMT DEF CpuInv, TypeOK, currentRead
<1>2. seen[c] = {iter}
    BY <1>1, GoesInRange, DomainAssumption, SMT DEF GpuInv, SeenNow, TypeOK
<1>3. Moved(d_pos[currentRead][c], seen[c]) = iter + 1
    BY <1>1, <1>2, SMT DEF Moved, GpuInv, TypeOK
<1>4. d_pos' = [d_pos EXCEPT ![1 - currentRead][c] = iter + 1]
    BY <1>3
<1>5. TypeOK'
    BY <1>1, <1>4, SMT DEF TypeOK, Positions
<1>6. Bounds'
    BY SMT DEF Bounds
<1>7. GpuInv'
    BY <1>1, <1>4, SMT DEF GpuInv, TypeOK, SeenNow, Wrong
<1>8. CpuInv'
    BY <1>1, SMT DEF CpuInv
<1> QED BY <1>5, <1>6, <1>7, <1>8

LEMMA StoreForceInv ==
    ASSUME NEW c \in Bodies
    PROVE  DomainInv /\ StoreForce(c) => DomainInv'
<1> SUFFICES ASSUME DomainInv, StoreForce(c) PROVE DomainInv'
    OBVIOUS
<1> USE DEF DomainInv, StoreForce
<1>1. ~gpu
    BY DEF GpuInv
<1>2. seen[c] = {iter}
    BY <1>1, GoesInRange, DomainAssumption, SMT DEF CpuInv, SeenNow, TypeOK
<1>3. TypeOK' /\ Bounds'
    BY SMT DEF TypeOK, Bounds
<1>4. GpuInv'
    BY <1>1 DEF GpuInv
<1>5. CpuInv'
    BY <1>1, <1>2, SMT DEF CpuInv, SeenNow, TypeOK
<1> QED BY <1>3, <1>4, <1>5

LEMMA MoveBodyInv ==
    ASSUME NEW c \in Bodies
    PROVE  DomainInv /\ MoveBody(c) => DomainInv'
<1> SUFFICES ASSUME DomainInv, MoveBody(c) PROVE DomainInv'
    OBVIOUS
<1> USE DEF DomainInv, MoveBody
<1>1. ~gpu
    BY DEF GpuInv
<1>2. Moved(h_pos[c], seen[c]) = iter + 1
    BY <1>1, SMT DEF CpuInv, Moved, TypeOK
<1>3. h_pos' = [h_pos EXCEPT ![c] = iter + 1]
    BY <1>2
<1>4. TypeOK' /\ Bounds'
    BY <1>3, SMT DEF TypeOK, Bounds, Positions
<1>5. GpuInv'
    BY <1>1 DEF GpuInv
<1>6. CpuInv'
    BY <1>1, <1>3, SMT DEF CpuInv, SeenNow, TypeOK
<1> QED BY <1>4, <1>5, <1>6

LEMMA HostInv == DomainInv /\ (ForcesDone \/ Buffer) => DomainInv'
<1> SUFFICES ASSUME DomainInv, ForcesDone \/ Buffer PROVE DomainInv'
    OBVIOUS
<1> USE DEF DomainInv, ForcesDone, Buffer, Finished
<1>1. TypeOK'
    BY SMT DEF TypeOK
<1>2. Bounds'
    BY SMT DEF Bounds
<1>3. GpuInv'
    <2>1. CASE gpu
        <3>1. Buffer /\ pc = "kernel" /\ pc' = "buffered" /\ currentRead' = currentRead
            BY <2>1 DEF GpuInv, currentRead
        <3> QED BY <2>1, <3>1, SMT DEF GpuInv
    <2> QED BY <2>1 DEF GpuInv
<1>4. CpuInv'
    BY SMT DEF CpuInv, SeenNow
<1> QED BY <1>1, <1>2, <1>3, <1>4

LEMMA NextIterationInv == DomainInv /\ NextIteration => DomainInv'
<1> SUFFICES ASSUME DomainInv, NextIteration PROVE DomainInv'
    OBVIOUS
<1> USE DEF DomainInv, NextIteration
<1>1. currentRead' = 1 - currentRead /\ currentRead \in 0 .. 1
    BY SMT DEF currentRead, TypeOK
<1>2. TypeOK'
    BY DomainAssumption, SMT DEF TypeOK, Bounds
<1>3. Bounds'
    BY SMT DEF Bounds
<1>4. GpuInv'
    BY <1>1, SMT DEF GpuInv, TypeOK, Wrong
<1>5. CpuInv'
    BY SMT DEF CpuInv
<1> QED BY <1>2, <1>3, <1>4, <1>5
-----------------------------------------------------------------------------
LEMMA DomainInvStep == DomainInv /\ [Next]_vars => DomainInv'
<1> SUFFICES ASSUME DomainInv, [Next]_vars PROVE DomainInv'
    OBVIOUS
<1>1. CASE CopyToHost
    BY <1>1, CopyToHostInv
<1>2. CASE ComputeForces
    BY <1>2, ComputeForcesInv
<1>3. CASE ForcesDone \/ Buffer
    BY <1>3, HostInv
<1>4. CASE NextIteration
    BY <1>4, NextIterationInv
<1>5. ASSUME NEW b \in Bodies, BodyStep(b) PROVE DomainInv'
    BY <1>5, InteractInv, StoreNewInv, StoreForceInv, MoveBodyInv DEF BodyStep
<1>6. CASE UNCHANGED vars
    BY <1>6 DEF vars, DomainInv, TypeOK, Bounds, GpuInv, CpuInv, SeenNow, currentRead
<1> QED BY <1>1, <1>2, <1>3, <1>4, <1>5, <1>6 DEF Next, HostStep

LEMMA DomainInvariant == Spec => []DomainInv
BY DomainInvInit, DomainInvStep, PTL DEF Spec

(* Every variable of the domain keeps its type: in particular no body's    *)
(* calculation reads behind the last one.                                  *)
THEOREM TypeCorrect == Spec => []TypeOK
<1>1. DomainInv => TypeOK
    BY DEF DomainInv
<1> QED BY <1>1, DomainInvariant, PTL

(* No body is moved by forces between positions of different moments, on   *)
(* the CPU or on the GPU, in whatever order the bodies are calculated.     *)
THEOREM MovesRight == Spec => []NothingWrong
<1>1. DomainInv => NothingWrong
    <2> SUFFICES ASSUME DomainInv PROVE NothingWrong
        OBVIOUS
    <2> USE DEF DomainInv, NothingWrong
    <2>1. CASE gpu
        <3>1. currentRead = 0 \/ currentRead = 1
            BY SMT DEF currentRead, TypeOK
        <3> QED BY <2>1, <3>1, SMT DEF GpuInv, TypeOK, Wrong
    <2>2. CASE ~gpu
        BY <2>2, SMT DEF CpuInv, TypeOK, Wrong, Unset
    <2> QED BY <2>1, <2>2
<1> QED BY <1>1, DomainInvariant, PTL

(* The buffer gets every body after iter steps from the GPU and after one  *)
(* more from the CPU.                                                      *)
THEOREM FramesRight == Spec => []FrameOfIteration
<1>1. DomainInv => FrameOfIteration
    BY SMT DEF DomainInv, FrameOfIteration, GpuInv, CpuInv
<1> QED BY <1>1, DomainInvariant, PTL
=============================================================================
