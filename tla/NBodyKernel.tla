---------------------------- MODULE NBodyKernel ----------------------------
(***************************************************************************)
(* The GPU's step of a domain, MultiNBodyDomain.cu: the host chooses the   *)
(* shape of the blocks (gpuIntegrateNBodySystem), and the threads of a     *)
(* block compute accelerations (integrateBodies, computeBodyAccel); any    *)
(* block of the grid stands for all.  A block has q rows of p threads.     *)
(* The threads <<x, 0>>, ..., <<x, q-1>> share the work for one body: in   *)
(* each tile a thread loads the position of one body into shared memory    *)
(* and then uses the p positions of its row; in the end the threads of     *)
(* row 0 add up the rows.  Barriers separate the writes to a cell of       *)
(* shared memory from the reads of it.                                     *)
(*                                                                         *)
(* A sum of forces is modelled by how often each body is in it, so that a  *)
(* cell holds either one body or the partial sum of a thread.              *)
(***************************************************************************)
EXTENDS Integers

CONSTANTS
    p,                   \* threads in a row, 32 in the code
    np,                  \* number of bodies, which loadInput makes a multiple of p
    multiProcessorCount,
    SharedRows           \* rows of p positions that half of the shared memory holds

ASSUME KernelAssumption ==
    /\ p \in Nat \ {0}
    /\ np \in Nat \ {0} /\ np % p = 0
    /\ multiProcessorCount \in Nat \ {0}
    /\ SharedRows \in Nat \ {0}

VARIABLES
    hostPc, q,   \* the host: choosing q, the number of rows of a block
    blockIdx,    \* the block
    pc, tile,    \* where a thread is, and the tile it is at
    j,           \* the loop counter of gravitation and of the sum over the rows
    acc,         \* acc[t][b]: how often body b is in the sum of t
    sharedPos    \* one cell per thread of the block

host == <<hostPc, q>>
vars == <<host, blockIdx, pc, tile, j, acc, sharedPos>>

rows == np \div p                  \* the bodies, as rows of p
gridDim == (np + (p - 1)) \div p
numTiles == np \div (p * q)

Bodies == 0 .. np - 1
AllThreads == (0 .. p - 1) \X (0 .. rows - 1)  \* those of the largest block
Threads == (0 .. p - 1) \X (0 .. q - 1)
-----------------------------------------------------------------------------
Nobody == [b \in Bodies |-> 0]
Only(b) == [Nobody EXCEPT ![b] = 1]
Plus(s, r) == [b \in Bodies |-> s[b] + r[b]]

Init ==
    /\ hostPc = "divide" /\ q = 1
    /\ blockIdx \in 0 .. gridDim - 1
    /\ pc = [t \in AllThreads |-> "idle"]
    /\ tile = [t \in AllThreads |-> 0]
    /\ j = [t \in AllThreads |-> 0]
    /\ acc = [t \in AllThreads |-> Nobody]
    /\ sharedPos = [t \in AllThreads |-> Nobody]

(* The host looks for a power of two that divides np, ... *)
DoubleRows ==
    /\ hostPc = "divide" /\ np % (2 * q) = 0
    /\ q' = 2 * q
    /\ UNCHANGED <<hostPc, blockIdx, pc, tile, j, acc, sharedPos>>

(* Mutant of LimitRows: one minimum is forgotten. *)
LimitRowsProcessors ==
    /\ hostPc = "divide" /\ np % (2 * q) # 0
    /\ q' = multiProcessorCount
    /\ hostPc' = "fit"
    /\ UNCHANGED <<blockIdx, pc, tile, j, acc, sharedPos>>

(* ... and then takes as many rows as there are processors, or rows of     *)
(* bodies: the second of two assignments to q, whose value does not depend *)
(* on the first, ...                                                       *)
LimitRows ==
    /\ hostPc = "divide" /\ np % (2 * q) # 0
    /\ q' = IF multiProcessorCount < rows THEN multiProcessorCount ELSE rows
    /\ hostPc' = "fit"
    /\ UNCHANGED <<blockIdx, pc, tile, j, acc, sharedPos>>

(* ... and half as many until the tile fits into the shared memory. *)
HalveRows ==
    /\ hostPc = "fit" /\ q > SharedRows
    /\ q' = q \div 2
    /\ UNCHANGED <<hostPc, blockIdx, pc, tile, j, acc, sharedPos>>

AllTo(place) == [t \in AllThreads |-> IF t \in Threads THEN place ELSE "idle"]

Launch ==
    /\ hostPc = "fit" /\ q <= SharedRows
    /\ hostPc' = "launched"
    /\ pc' = AllTo("load")
    /\ UNCHANGED <<q, blockIdx, tile, j, acc, sharedPos>>
-----------------------------------------------------------------------------
WRAP(x, m) == IF x < m THEN x ELSE x - m

(* Mutants of Loaded: the row of the thread does not count; the rows of    *)
(* bodies do not start again after the last one.                           *)
LoadedSameRow(t, tl) == WRAP(blockIdx + q * tl, gridDim) * p + t[1]

LoadedUnwrapped(t, tl) == (blockIdx + q * tl + t[2]) * p + t[1]

(* The body whose position thread t loads in a tile. *)
Loaded(t, tl) == WRAP(blockIdx + q * tl + t[2], gridDim) * p + t[1]

(* A tile: every thread loads a position, ... *)
Load(t) ==
    /\ pc[t] = "load"
    /\ sharedPos' = [sharedPos EXCEPT ![t] = Only(Loaded(t, tile[t]))]
    /\ pc' = [pc EXCEPT ![t] = "loaded"]
    /\ UNCHANGED <<host, blockIdx, tile, j, acc>>

(* A barrier of the block: every thread has come to it. *)
AllAt(place) == hostPc = "launched" /\ \A t \in Threads : pc[t] = place

(* Mutant of SyncLoaded: no barrier after the load. *)
SyncLoadedMissing ==
    /\ \E t \in Threads : /\ pc[t] = "loaded"
                          /\ pc' = [pc EXCEPT ![t] = "gravitation"]
                          /\ j' = [j EXCEPT ![t] = 0]
    /\ UNCHANGED <<host, blockIdx, tile, acc, sharedPos>>

(* ... all wait for the others, ... *)
SyncLoaded ==
    /\ AllAt("loaded")
    /\ pc' = AllTo("gravitation")
    /\ j' = [t \in AllThreads |-> 0]
    /\ UNCHANGED <<host, blockIdx, tile, acc, sharedPos>>

(* ... each uses the positions of its row (SX), one by one, ... *)
Gravitation(t) ==
    /\ pc[t] = "gravitation"
    /\ acc' = [acc EXCEPT ![t] = Plus(acc[t], sharedPos[<<j[t], t[2]>>])]
    /\ j' = [j EXCEPT ![t] = j[t] + 1]
    /\ pc' = [pc EXCEPT ![t] = IF j[t] + 1 < p THEN "gravitation" ELSE "used"]
    /\ UNCHANGED <<host, blockIdx, tile, sharedPos>>

(* Mutant of SyncUsed: the loop ends at a tile of the row's own. *)
SyncUsedUneven ==
    /\ AllAt("used")
    /\ tile' = [t \in AllThreads |-> IF t \in Threads THEN tile[t] + 1 ELSE 0]
    /\ pc' = [t \in AllThreads |-> IF t \notin Threads THEN "idle"
                                ELSE IF tile[t] + 1 + t[2] < numTiles THEN "load" ELSE "partial"]
    /\ UNCHANGED <<host, blockIdx, j, acc, sharedPos>>

(* ... and all wait again before the next tile, or before the sums. *)
SyncUsed ==
    /\ AllAt("used")
    /\ tile' = [t \in AllThreads |-> IF t \in Threads THEN tile[t] + 1 ELSE 0]
    /\ pc' = [t \in AllThreads |-> IF t \notin Threads THEN "idle"
                                ELSE IF tile[t] + 1 < numTiles THEN "load" ELSE "partial"]
    /\ UNCHANGED <<host, blockIdx, j, acc, sharedPos>>

(* The sum of a thread goes to its cell (SX_SUM), ... *)
StorePartial(t) ==
    /\ pc[t] = "partial"
    /\ sharedPos' = [sharedPos EXCEPT ![t] = acc[t]]
    /\ pc' = [pc EXCEPT ![t] = "stored"]
    /\ UNCHANGED <<host, blockIdx, tile, j, acc>>

AfterSum(t, i) == IF t[2] = 0 /\ i < q THEN "sum" ELSE "done"

SyncStored ==
    /\ AllAt("stored")
    /\ pc' = [t \in AllThreads |-> IF t \in Threads THEN AfterSum(t, 1) ELSE "idle"]
    /\ j' = [t \in AllThreads |-> 1]
    /\ UNCHANGED <<host, blockIdx, tile, acc, sharedPos>>

(* ... and row 0 adds those of the other rows. *)
SumRow(t) ==
    /\ pc[t] = "sum"
    /\ acc' = [acc EXCEPT ![t] = Plus(acc[t], sharedPos[<<t[1], j[t]>>])]
    /\ j' = [j EXCEPT ![t] = j[t] + 1]
    /\ pc' = [pc EXCEPT ![t] = AfterSum(t, j[t] + 1)]
    /\ UNCHANGED <<host, blockIdx, tile, sharedPos>>

ThreadStep(t) == Load(t) \/ Gravitation(t) \/ StorePartial(t) \/ SumRow(t)
Sync == SyncLoaded \/ SyncUsed \/ SyncStored

HostStep == DoubleRows \/ LimitRows \/ HalveRows \/ Launch

Next == HostStep \/ Sync \/ \E t \in AllThreads : ThreadStep(t)

Spec == Init /\ [][Next]_vars

(* The host runs, and so do the threads of a resident block. *)
FairSpec == Spec /\ WF_vars(Next)
-----------------------------------------------------------------------------
TypeOK ==
    /\ hostPc \in {"divide", "fit", "launched"}
    /\ q \in Nat \ {0}
    /\ hostPc # "divide" => q \in 1 .. rows
    /\ blockIdx \in 0 .. gridDim - 1
    /\ pc \in [AllThreads -> {"idle", "load", "loaded", "gravitation", "used",
                              "partial", "stored", "sum", "done"}]
    /\ tile \in [AllThreads -> 0 .. np]
    /\ j \in [AllThreads -> 0 .. np]
    /\ acc \in [AllThreads -> [Bodies -> Nat]]
    /\ sharedPos \in [AllThreads -> [Bodies -> Nat]]

(* The cell that a thread reads or writes next, if it does. *)
Writes(t) == IF pc[t] \in {"load", "partial"} THEN {t} ELSE {}
Reads(t) == CASE pc[t] = "gravitation" -> {<<j[t], t[2]>>}
              [] pc[t] = "sum"         -> {<<t[1], j[t]>>}
              [] OTHER                 -> {}

(* No cell of shared memory is written by one thread of the block while    *)
(* another thread is about to read or to write it.                         *)
NoSharedRace ==
    \A t, u \in AllThreads : t # u => Writes(t) \cap (Reads(u) \cup Writes(u)) = {}

(* A thread only loads positions of bodies: the rows start again after the *)
(* last one, wherever the block starts.                                    *)
LoadsABody == \A t \in AllThreads : pc[t] = "load" => Loaded(t, tile[t]) \in Bodies

(* When the block is done, the acceleration of each of its bodies has the  *)
(* force of every body, its own included, exactly once.                    *)
EveryBodyOnce ==
    AllAt("done") =>
        \A x \in 0 .. p - 1 : \A b \in Bodies : acc[<<x, 0>>][b] = 1

(* The threads of the block agree on the barriers they come to, so that    *)
(* the block ends.                                                         *)
BlockFinishes == <>AllAt("done")
=============================================================================
