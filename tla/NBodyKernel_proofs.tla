------------------------- MODULE NBodyKernel_proofs -------------------------
(***************************************************************************)
(* Proofs about the kernel, for every number of bodies, every row length   *)
(* that divides it, every device and every schedule of the threads.        *)
(***************************************************************************)
EXTENDS NBodyKernel, TLAPS

Launched(t) == hostPc = "launched" /\ t \in Threads

(* The part of the kernel between two barriers that a place belongs to. *)
Phase(place) == CASE place \in {"load", "loaded"}      -> 1
                  [] place \in {"gravitation", "used"} -> 2
                  [] place \in {"partial", "stored"}   -> 3
                  [] place \in {"sum", "done"}         -> 4
                  [] OTHER                             -> 0

(* The threads that run are those of the block, ... *)
BlockRuns == \A t \in AllThreads : pc[t] # "idle" <=> Launched(t)

(* ... they are in the same part of the same tile, ... *)
Lockstep == \A t, u \in AllThreads : Launched(t) /\ Launched(u) =>
                /\ Phase(pc[t]) = Phase(pc[u])
                /\ tile[t] = tile[u]

(* ... and each counter is where the loops keep it. *)
Counters ==
    /\ \A t \in AllThreads : Launched(t) =>
           /\ pc[t] \in {"load", "loaded", "gravitation", "used"} => tile[t] < numTiles
           /\ pc[t] \in {"partial", "stored", "sum", "done"} => tile[t] = numTiles
           /\ pc[t] = "gravitation" => j[t] < p
           /\ pc[t] = "sum" => t[2] = 0 /\ j[t] \in 1 .. q - 1
    /\ hostPc # "launched" => \A t \in AllThreads : tile[t] = 0

KernelInv == TypeOK /\ BlockRuns /\ Lockstep /\ Counters
-----------------------------------------------------------------------------
(* The bodies are full rows, and there is a block for each. *)
LEMMA RowsFacts == /\ rows \in Nat \ {0} /\ np = rows * p /\ rows <= np
                   /\ gridDim = rows
<1>1. np = p * (np \div p) + (np % p) /\ np \div p \in Nat
    BY KernelAssumption
<1>2. rows \in Nat /\ np = p * rows
    BY <1>1, KernelAssumption DEF rows
<1>3. rows # 0
    BY <1>2, KernelAssumption
<1>4. p * rows >= rows
    BY <1>2, KernelAssumption
<1>5. (np + (p - 1)) \div p = rows
    <2>1. np + (p - 1) = p * rows + (p - 1) /\ 0 <= p - 1 /\ p - 1 < p
        BY <1>2, KernelAssumption
    <2> QED
        BY <2>1, <1>2, KernelAssumption
<1> QED
    BY <1>2, <1>3, <1>4, <1>5, KernelAssumption DEF gridDim

(* A block with no more rows than there are has at least one tile, and the *)
(* tiles do not have more rows than there are.                             *)
LEMMA TilesFacts ==
    ASSUME q \in 1 .. rows
    PROVE  numTiles \in Nat \ {0} /\ q * numTiles <= rows /\ numTiles <= np
<1> DEFINE w == p * q
<1>1. w \in Nat \ {0} /\ w <= np
    BY RowsFacts, KernelAssumption
<1>2. numTiles \in Nat /\ w * numTiles <= np /\ np < w * numTiles + w
    <2> HIDE DEF w
    <2>1. np = w * (np \div w) + (np % w) /\ np % w \in 0 .. w - 1 /\ np \div w \in Nat
        BY <1>1, KernelAssumption
    <2>2. numTiles = np \div w
        BY DEF w, numTiles
    <2> QED
        BY <2>1, <2>2, <1>1, KernelAssumption
<1>3. numTiles # 0
    <2> HIDE DEF w
    <2> SUFFICES ASSUME numTiles = 0 PROVE FALSE
        OBVIOUS
    <2>1. w * numTiles = 0
        BY <1>1
    <2> QED
        BY <2>1, <1>1, <1>2, KernelAssumption
<1>4. q * numTiles <= rows
    <2>1. p * (q * numTiles) <= p * rows
        BY <1>2, RowsFacts, KernelAssumption
    <2> QED
        BY <2>1, <1>2, RowsFacts, KernelAssumption
<1>5. numTiles <= q * numTiles
    BY <1>2
<1> QED
    BY <1>2, <1>3, <1>4, <1>5, RowsFacts

(* Every load of a tile is of a body. *)
LEMMA LoadedBody ==
    ASSUME q \in 1 .. rows, blockIdx \in 0 .. gridDim - 1,
           NEW t \in Threads, NEW tl \in 0 .. numTiles - 1
    PROVE  Loaded(t, tl) \in Bodies
<1>1. t[1] \in 0 .. p - 1 /\ t[2] \in 0 .. q - 1
    BY DEF Threads
<1>2. numTiles \in Nat /\ q * numTiles <= rows
    BY TilesFacts
<1>3. q * tl + t[2] \in 0 .. rows - 1
    <2>1. q * (tl + 1) <= q * numTiles
        BY <1>2
    <2>2. q * (tl + 1) = q * tl + q /\ q * tl \in Nat
        BY <1>2
    <2> QED
        BY <2>1, <2>2, <1>1, <1>2, RowsFacts
<1>4. PICK r \in 0 .. rows - 1 : Loaded(t, tl) = r * p + t[1]
    <2>1. WRAP(blockIdx + q * tl + t[2], gridDim) \in 0 .. rows - 1
        BY <1>3, <1>1, <1>2, RowsFacts DEF WRAP
    <2> QED
        BY <2>1 DEF Loaded
<1>5. r * p + t[1] <= (rows - 1) * p + p - 1 /\ r * p >= 0
    BY <1>1, RowsFacts, KernelAssumption
<1>6. (rows - 1) * p + p = np
    BY RowsFacts, KernelAssumption
<1>7. r * p \in Nat
    BY RowsFacts, KernelAssumption
<1> QED
    BY <1>1, <1>4, <1>5, <1>6, <1>7, RowsFacts, KernelAssumption DEF Bodies
-----------------------------------------------------------------------------
LEMMA InitKernelInv == Init => KernelInv
<1> SUFFICES ASSUME Init PROVE KernelInv
    OBVIOUS
<1>1. \A t \in AllThreads : tile[t] = 0 /\ pc[t] = "idle"
    BY DEF Init
<1>2. Nobody \in [Bodies -> Nat]
    BY DEF Nobody
<1>3. TypeOK
    BY <1>2, KernelAssumption DEF Init, TypeOK
<1> QED
    BY <1>1, <1>3 DEF Init, KernelInv, BlockRuns, Lockstep, Counters, Launched

LEMMA CountTypes ==
    /\ Nobody \in [Bodies -> Nat]
    /\ \A b \in Bodies : Only(b) \in [Bodies -> Nat]
    /\ \A s, r \in [Bodies -> Nat] : Plus(s, r) \in [Bodies -> Nat]
    BY DEF Nobody, Only, Plus

LEMMA KernelInvStep == KernelInv /\ [Next]_vars => KernelInv'
<1> SUFFICES ASSUME KernelInv, [Next]_vars PROVE KernelInv'
    OBVIOUS
<1>r. /\ rows \in Nat \ {0} /\ np \in Nat /\ rows <= np /\ p \in Nat \ {0} /\ p <= np
      /\ gridDim = rows
    BY RowsFacts, KernelAssumption
<1>a. \A t \in AllThreads : t[1] \in 0 .. p - 1 /\ t[2] \in 0 .. rows - 1 /\ t = <<t[1], t[2]>>
    BY DEF AllThreads
<1>q. hostPc = "launched" =>
          /\ q \in 1 .. rows
          /\ Threads \subseteq AllThreads
          /\ \A t \in Threads : t[2] \in 0 .. q - 1
          /\ numTiles \in Nat \ {0} /\ numTiles <= np
    <2> SUFFICES ASSUME hostPc = "launched" PROVE q \in 1 .. rows
        BY <1>r, TilesFacts DEF Threads, AllThreads
    <2> QED
        BY DEF KernelInv, TypeOK
<1>1. CASE HostStep
    <2>0. CASE DoubleRows
        BY <2>0 DEF DoubleRows, KernelInv, TypeOK, BlockRuns, Lockstep, Counters, Launched
    <2>1. CASE LimitRows
        BY <2>1, <1>r, KernelAssumption
        DEF LimitRows, KernelInv, TypeOK, BlockRuns, Lockstep, Counters, Launched
    <2>2. CASE HalveRows
        BY <2>2, <1>r, KernelAssumption
        DEF HalveRows, KernelInv, TypeOK, BlockRuns, Lockstep, Counters, Launched
    <2>3. CASE Launch
        <3>1. q \in 1 .. rows /\ numTiles \in Nat \ {0}
            BY <2>3, TilesFacts DEF Launch, KernelInv, TypeOK
        <3>2. TypeOK' /\ numTiles' = numTiles /\ Threads' = Threads
            BY <2>3 DEF Launch, KernelInv, TypeOK, AllTo, numTiles, Threads
        <3>3. \A t \in AllThreads : pc'[t] = IF t \in Threads THEN "load" ELSE "idle"
            BY <2>3 DEF Launch, AllTo
        <3>4. \A t \in AllThreads : tile'[t] = 0
            BY <2>3 DEF Launch, KernelInv, Counters
        <3> QED
            BY <2>3, <3>1, <3>2, <3>3, <3>4
            DEF Launch, KernelInv, BlockRuns, Lockstep, Counters, Launched, Phase
    <2> QED
        BY <1>1, <2>0, <2>1, <2>2, <2>3 DEF HostStep
<1>2. CASE Sync
    <2>1. /\ hostPc = "launched" /\ hostPc' = hostPc /\ q' = q /\ blockIdx' = blockIdx
          /\ numTiles' = numTiles /\ Threads' = Threads
        BY <1>2 DEF Sync, SyncLoaded, SyncUsed, SyncStored, AllAt, host, numTiles, Threads
    <2>2. CASE SyncLoaded
        BY <2>1, <2>2, <1>r, <1>a, <1>q
        DEF SyncLoaded, AllAt, AllTo, KernelInv, TypeOK, BlockRuns, Lockstep, Counters, Launched, Phase
    <2>3. CASE SyncUsed
        <3>1. \A t \in Threads : pc[t] = "used" /\ tile[t] + 1 \in 1 .. numTiles
            BY <2>1, <2>3, <1>q DEF SyncUsed, AllAt, KernelInv, TypeOK, Counters, Launched
        <3>2. \A t \in AllThreads :
                  /\ t \in Threads => /\ tile'[t] = tile[t] + 1
                                      /\ pc'[t] = IF tile[t] + 1 < numTiles THEN "load" ELSE "partial"
                  /\ t \notin Threads => tile'[t] = 0 /\ pc'[t] = "idle"
            BY <2>3 DEF SyncUsed
        <3>3. TypeOK'
            BY <2>1, <2>3, <3>1, <3>2, <1>r, <1>q DEF SyncUsed, KernelInv, TypeOK
        <3>4. BlockRuns' /\ Counters'
            BY <2>1, <3>1, <3>2, <1>q DEF BlockRuns, Counters, Launched
        <3>5. Lockstep'
            BY <2>1, <3>1, <3>2, <1>q DEF KernelInv, Lockstep, Launched, Phase
        <3> QED
            BY <3>3, <3>4, <3>5 DEF KernelInv
    <2>4. CASE SyncStored
        <3>1. \A t \in Threads : pc[t] = "stored"
            BY <2>4 DEF SyncStored, AllAt
        <3>2. \A t \in AllThreads :
                  /\ t \in Threads => pc'[t] = AfterSum(t, 1) /\ j'[t] = 1
                  /\ t \notin Threads => pc'[t] = "idle" /\ j'[t] = 1
            BY <2>4 DEF SyncStored
        <3>3. TypeOK'
            BY <2>1, <2>4, <3>2, <1>r DEF SyncStored, KernelInv, TypeOK, AfterSum, host
        <3>4. BlockRuns' /\ Counters'
            BY <2>1, <2>4, <3>1, <3>2, <1>q
            DEF SyncStored, KernelInv, TypeOK, BlockRuns, Counters, Launched, AfterSum
        <3>5. Lockstep'
            BY <2>1, <2>4, <3>1, <3>2, <1>q DEF SyncStored, KernelInv, Lockstep, Launched, Phase, AfterSum
        <3> QED
            BY <3>3, <3>4, <3>5 DEF KernelInv
    <2> QED
        BY <1>2, <2>2, <2>3, <2>4 DEF Sync
<1>3. ASSUME NEW t \in AllThreads, ThreadStep(t) PROVE KernelInv'
    <2>1. /\ Launched(t) /\ hostPc' = hostPc /\ q' = q /\ blockIdx' = blockIdx
          /\ numTiles' = numTiles /\ Threads' = Threads /\ tile' = tile
        BY <1>3 DEF ThreadStep, Load, Gravitation, StorePartial, SumRow, KernelInv, BlockRuns,
                    host, numTiles, Threads
    <2>2. \A u \in AllThreads : Launched(u)' <=> Launched(u)
        BY <2>1 DEF Launched
    <2>3. CASE Load(t)
        <3>1. Loaded(t, tile[t]) \in Bodies
            BY <2>1, <2>3, <1>q, LoadedBody DEF Load, KernelInv, TypeOK, Counters, Launched
        <3>2. TypeOK'
            BY <2>3, <3>1, CountTypes DEF Load, KernelInv, TypeOK, host
        <3>3. BlockRuns' /\ Lockstep' /\ Counters'
            BY <2>1, <2>2, <2>3
            DEF Load, KernelInv, TypeOK, BlockRuns, Lockstep, Counters, Launched, Phase
        <3> QED
            BY <3>2, <3>3 DEF KernelInv
    <2>4. CASE Gravitation(t)
        <3>1. j[t] \in 0 .. p - 1 /\ <<j[t], t[2]>> \in AllThreads
            BY <2>1, <2>4, <1>a, <1>r DEF Gravitation, KernelInv, TypeOK, Counters, AllThreads
        <3>2. TypeOK'
            <4>1. acc' \in [AllThreads -> [Bodies -> Nat]]
                <5>1. Plus(acc[t], sharedPos[<<j[t], t[2]>>]) \in [Bodies -> Nat]
                    BY <3>1, CountTypes DEF KernelInv, TypeOK
                <5> QED
                    BY <2>4, <5>1 DEF Gravitation, KernelInv, TypeOK
            <4>2. j' \in [AllThreads -> 0 .. np]
                BY <2>4, <3>1, <1>r DEF Gravitation, KernelInv, TypeOK
            <4> QED
                BY <2>4, <4>1, <4>2 DEF Gravitation, KernelInv, TypeOK, host
        <3>3. BlockRuns' /\ Lockstep' /\ Counters'
            BY <2>1, <2>2, <2>4, <3>1, <1>r
            DEF Gravitation, KernelInv, TypeOK, BlockRuns, Lockstep, Counters, Launched, Phase
        <3> QED
            BY <3>2, <3>3 DEF KernelInv
    <2>5. CASE StorePartial(t)
        <3>1. TypeOK'
            BY <2>5 DEF StorePartial, KernelInv, TypeOK, host
        <3>2. BlockRuns' /\ Lockstep' /\ Counters'
            BY <2>1, <2>2, <2>5
            DEF StorePartial, KernelInv, TypeOK, BlockRuns, Lockstep, Counters, Launched, Phase
        <3> QED
            BY <3>1, <3>2 DEF KernelInv
    <2>6. CASE SumRow(t)
        <3>1. j[t] \in 1 .. q - 1 /\ t[2] = 0 /\ <<t[1], j[t]>> \in AllThreads
            BY <2>1, <2>6, <1>a, <1>q, <1>r
            DEF SumRow, KernelInv, TypeOK, Counters, AllThreads, Launched
        <3>2. TypeOK'
            <4>1. acc' \in [AllThreads -> [Bodies -> Nat]]
                <5>1. Plus(acc[t], sharedPos[<<t[1], j[t]>>]) \in [Bodies -> Nat]
                    BY <3>1, CountTypes DEF KernelInv, TypeOK
                <5> QED
                    BY <2>6, <5>1 DEF SumRow, KernelInv, TypeOK
            <4>2. j' \in [AllThreads -> 0 .. np]
                <5>1. j[t] + 1 \in 0 .. np
                    BY <2>1, <3>1, <1>r, <1>q DEF Launched
                <5> QED
                    BY <2>6, <5>1 DEF SumRow, KernelInv, TypeOK
            <4> QED
                BY <2>6, <4>1, <4>2 DEF SumRow, KernelInv, TypeOK, host, AfterSum
        <3>3. BlockRuns' /\ Lockstep' /\ Counters'
            BY <2>1, <2>2, <2>6, <3>1, <1>q
            DEF SumRow, KernelInv, TypeOK, BlockRuns, Lockstep, Counters, Launched, Phase, AfterSum
        <3> QED
            BY <3>2, <3>3 DEF KernelInv
    <2> QED
        BY <1>3, <2>3, <2>4, <2>5, <2>6 DEF ThreadStep
<1>4. CASE UNCHANGED vars
    BY <1>4 DEF vars, host, KernelInv, TypeOK, BlockRuns, Lockstep, Counters, Launched,
                numTiles, Threads
<1> QED
    BY <1>1, <1>2, <1>3, <1>4 DEF Next

LEMMA KernelInvariant == Spec => []KernelInv
    BY InitKernelInv, KernelInvStep, PTL DEF Spec
-----------------------------------------------------------------------------
(***************************************************************************)
(* Every variable keeps its type; the host in particular never launches a  *)
(* block without rows or with more rows than there are.                    *)
(***************************************************************************)
THEOREM TypeCorrect == Spec => []TypeOK
<1>1. KernelInv => TypeOK
    BY DEF KernelInv
<1> QED
    BY KernelInvariant, <1>1, PTL

(***************************************************************************)
(* A thread of any block only loads positions of bodies.                   *)
(***************************************************************************)
THEOREM LoadsSafe == Spec => []LoadsABody
<1>1. KernelInv => LoadsABody
    <2> SUFFICES ASSUME KernelInv, NEW t \in AllThreads, pc[t] = "load"
                 PROVE  Loaded(t, tile[t]) \in Bodies
        BY DEF LoadsABody
    <2>1. Launched(t) /\ q \in 1 .. rows /\ blockIdx \in 0 .. gridDim - 1
        BY DEF KernelInv, TypeOK, BlockRuns, Launched
    <2>2. tile[t] \in 0 .. numTiles - 1
        BY <2>1, TilesFacts DEF KernelInv, TypeOK, Counters
    <2> QED
        BY <2>1, <2>2, LoadedBody DEF Launched
<1> QED
    BY KernelInvariant, <1>1, PTL

(***************************************************************************)
(* The barriers keep reads and writes of shared memory apart.              *)
(***************************************************************************)
THEOREM RaceFree == Spec => []NoSharedRace
<1>1. KernelInv => NoSharedRace
    BY DEF KernelInv, BlockRuns, Lockstep, Launched, Phase, NoSharedRace, Reads, Writes
<1> QED
    BY KernelInvariant, <1>1, PTL
-----------------------------------------------------------------------------
(* The body b as a place in the rows, counted from the row of the block:   *)
(* it is loaded by the thread in its column whose row is its lane, in its  *)
(* tile.                                                                   *)
Column(b) == b % p
Offset(b) == IF b \div p >= blockIdx THEN b \div p - blockIdx
                                     ELSE b \div p - blockIdx + rows
Lane(b) == Offset(b) % q
TileOf(b) == Offset(b) \div q

Once(counted) == IF counted THEN 1 ELSE 0

(* The cell of a thread holds the body of the current tile, or the sum of  *)
(* the thread over all tiles.  The thread has counted, once, the bodies of *)
(* its lane in the tiles that it is through with and in the part of the    *)
(* tile it is at; in the end, those of the lanes that it has added.        *)
CountOf(t, b) ==
    /\ pc[t] \in {"loaded", "gravitation", "used"} =>
           sharedPos[t][b] = Once(t[1] = Column(b) /\ t[2] = Lane(b) /\ tile[t] = TileOf(b))
    /\ pc[t] \in {"stored", "sum", "done"} =>
           sharedPos[t][b] = Once(t[2] = Lane(b) /\ TileOf(b) < numTiles)
    /\ pc[t] \in {"load", "loaded", "partial", "stored"} =>
           acc[t][b] = Once(t[2] = Lane(b) /\ TileOf(b) < tile[t])
    /\ pc[t] = "gravitation" =>
           acc[t][b] = Once(/\ t[2] = Lane(b)
                            /\ TileOf(b) < tile[t] \/ (TileOf(b) = tile[t] /\ Column(b) < j[t]))
    /\ pc[t] = "used" => acc[t][b] = Once(t[2] = Lane(b) /\ TileOf(b) <= tile[t])
    /\ pc[t] = "sum" => acc[t][b] = Once(Lane(b) < j[t] /\ TileOf(b) < numTiles)
    /\ pc[t] = "done" /\ t[2] = 0 => acc[t][b] = Once(TileOf(b) < numTiles)

Counts == hostPc = "launched" => \A t \in Threads : \A b \in Bodies : CountOf(t, b)

Unlaunched == hostPc # "launched" => \A t \in AllThreads : \A b \in Bodies : acc[t][b] = 0

CountInv == Counts /\ Unlaunched
-----------------------------------------------------------------------------
(* A number has one quotient and one remainder. *)
LEMMA Unique ==
    ASSUME NEW m \in Nat \ {0}, NEW a \in Int, NEW c \in Int,
           NEW x \in 0 .. m - 1, NEW y \in 0 .. m - 1
    PROVE  m * a + x = m * c + y <=> a = c /\ x = y
<1>1. ASSUME a < c PROVE m * a + x # m * c + y
    <2>1. m * (a + 1) <= m * c
        BY <1>1
    <2>2. m * (a + 1) = m * a + m
        OBVIOUS
    <2> QED
        BY <2>1, <2>2
<1>2. ASSUME c < a PROVE m * a + x # m * c + y
    <2>1. m * (c + 1) <= m * a
        BY <1>2
    <2>2. m * (c + 1) = m * c + m
        OBVIOUS
    <2> QED
        BY <2>1, <2>2
<1> QED
    BY <1>1, <1>2

LEMMA Division ==
    ASSUME NEW m \in Nat \ {0}, NEW k \in Nat
    PROVE  k \div m \in Nat /\ k % m \in 0 .. m - 1 /\ k = m * (k \div m) + (k % m)
    OBVIOUS

LEMMA BodyPlace ==
    ASSUME q \in 1 .. rows, blockIdx \in 0 .. gridDim - 1, NEW b \in Bodies
    PROVE  /\ Column(b) \in 0 .. p - 1 /\ b \div p \in 0 .. rows - 1
           /\ b = p * (b \div p) + Column(b)
           /\ Offset(b) \in 0 .. rows - 1
           /\ Lane(b) \in 0 .. q - 1 /\ TileOf(b) \in Nat
           /\ Offset(b) = q * TileOf(b) + Lane(b)
<1>1. b \in Nat /\ b < np /\ p \in Nat \ {0} /\ np = rows * p
    BY RowsFacts, KernelAssumption DEF Bodies
<1>2. b \div p \in Nat /\ b % p \in 0 .. p - 1 /\ b = p * (b \div p) + (b % p)
    BY <1>1, Division
<1>3. b \div p < rows
    <2> SUFFICES ASSUME b \div p >= rows PROVE FALSE
        BY <1>2, RowsFacts
    <2>1. p * (b \div p) >= p * rows
        BY <1>1, <1>2, RowsFacts
    <2> QED
        BY <2>1, <1>1, <1>2, RowsFacts
<1>4. Offset(b) \in 0 .. rows - 1
    BY <1>2, <1>3, RowsFacts DEF Offset
<1>5. Lane(b) \in 0 .. q - 1 /\ TileOf(b) \in Nat /\ Offset(b) = q * TileOf(b) + Lane(b)
    <2>1. q \in Nat \ {0} /\ Offset(b) \in Nat
        BY <1>4, RowsFacts
    <2>2. /\ Offset(b) \div q \in Nat /\ Offset(b) % q \in 0 .. q - 1
          /\ Offset(b) = q * (Offset(b) \div q) + (Offset(b) % q)
        BY <2>1, Division
    <2> QED
        BY <2>2 DEF Lane, TileOf
<1>6. Column(b) \in 0 .. p - 1 /\ b = p * (b \div p) + Column(b)
    BY <1>2 DEF Column
<1>7. b \div p \in 0 .. rows - 1
    BY <1>2, <1>3, RowsFacts
<1> QED
    BY <1>4, <1>5, <1>6, <1>7

(* Exactly one thread loads a body, in exactly one tile. *)
LEMMA LoadedIff ==
    ASSUME q \in 1 .. rows, blockIdx \in 0 .. gridDim - 1,
           NEW t \in Threads, NEW tl \in 0 .. numTiles - 1, NEW b \in Bodies
    PROVE  Loaded(t, tl) = b <=> t[1] = Column(b) /\ t[2] = Lane(b) /\ tl = TileOf(b)
<1> DEFINE k == q * tl + t[2]
           r == WRAP(blockIdx + q * tl + t[2], gridDim)
<1>1. t[1] \in 0 .. p - 1 /\ t[2] \in 0 .. q - 1 /\ tl \in Nat
    BY TilesFacts DEF Threads
<1>2. k \in 0 .. rows - 1
    <2>1. numTiles \in Nat /\ q * numTiles <= rows
        BY TilesFacts
    <2>2. q * (tl + 1) <= q * numTiles
        BY <2>1
    <2>3. q * (tl + 1) = q * tl + q /\ q * tl \in Nat
        BY <1>1
    <2> QED
        BY <2>1, <2>2, <2>3, <1>1, RowsFacts
<1>3. blockIdx + q * tl + t[2] = blockIdx + k /\ r = WRAP(blockIdx + k, rows)
    BY <1>1, RowsFacts
<1> HIDE DEF k
<1>4. r \in 0 .. rows - 1 /\ (r = b \div p <=> k = Offset(b))
    <2> HIDE DEF r
    <2> QED
        BY <1>2, <1>3, BodyPlace, RowsFacts DEF WRAP, Offset
<1>5. Loaded(t, tl) = p * r + t[1]
    BY <1>1, <1>4, RowsFacts, KernelAssumption DEF Loaded
<1> HIDE DEF r
<1>6. Loaded(t, tl) = b <=> r = b \div p /\ t[1] = Column(b)
    <2>1. b = p * (b \div p) + Column(b) /\ b \div p \in Int /\ Column(b) \in 0 .. p - 1
        BY BodyPlace
    <2>2. p * r + t[1] = p * (b \div p) + Column(b) <=> r = b \div p /\ t[1] = Column(b)
        <3>1. p \in Nat \ {0} /\ r \in Int /\ t[1] \in 0 .. p - 1
            BY <1>1, <1>4, RowsFacts, KernelAssumption
        <3> DEFINE rb == b \div p
                   cb == Column(b)
                   x == t[1]
        <3>2. rb \in Int /\ cb \in 0 .. p - 1 /\ x \in 0 .. p - 1
            BY <2>1, <3>1
        <3> HIDE DEF rb, cb, x
        <3>3. p * r + x = p * rb + cb <=> r = rb /\ x = cb
            BY <3>1, <3>2, Unique
        <3> QED
            BY <3>3 DEF rb, cb, x
    <2> QED
        BY <2>1, <2>2, <1>5
<1>7. k = Offset(b) <=> tl = TileOf(b) /\ t[2] = Lane(b)
    <2>1. q \in Nat \ {0} /\ Lane(b) \in 0 .. q - 1 /\ TileOf(b) \in Int
        BY BodyPlace, RowsFacts
    <2>2. q * tl + t[2] = q * TileOf(b) + Lane(b) <=> tl = TileOf(b) /\ t[2] = Lane(b)
        <3> DEFINE tb == TileOf(b)
                   lb == Lane(b)
                   y == t[2]
        <3>2. tl \in Int /\ tb \in Int /\ lb \in 0 .. q - 1 /\ y \in 0 .. q - 1
            BY <2>1, <1>1
        <3> HIDE DEF tb, lb, y
        <3>3. q * tl + y = q * tb + lb <=> tl = tb /\ y = lb
            BY <2>1, <3>2, Unique
        <3> QED
            BY <3>3 DEF tb, lb, y
    <2> QED
        BY <2>2, BodyPlace DEF k
<1> QED
    BY <1>4, <1>6, <1>7
-----------------------------------------------------------------------------
LEMMA CountInvInit == Init => CountInv
    BY DEF Init, CountInv, Counts, Unlaunched, Nobody

LEMMA CountInvStep == KernelInv /\ KernelInv' /\ CountInv /\ [Next]_vars => CountInv'
<1> SUFFICES ASSUME KernelInv, KernelInv', CountInv, [Next]_vars PROVE CountInv'
    OBVIOUS
<1>1. CASE HostStep
    <2>1. CASE Launch
        <3>1. q' = q /\ blockIdx' = blockIdx /\ numTiles' = numTiles /\ Threads' = Threads
              /\ tile' = tile /\ acc' = acc
            BY <2>1 DEF Launch, numTiles, Threads
        <3>2. \A b \in Bodies : TileOf(b) \in Nat /\ TileOf(b)' = TileOf(b) /\ Lane(b)' = Lane(b)
            BY <2>1, <3>1, BodyPlace DEF Launch, KernelInv, TypeOK, TileOf, Lane, Offset
        <3>3. \A t \in AllThreads : tile[t] = 0 /\ pc'[t] \in {"load", "idle"}
            BY <2>1 DEF Launch, AllTo, KernelInv, Counters
        <3>4. \A t \in AllThreads : \A b \in Bodies : acc[t][b] = 0
            BY <2>1 DEF Launch, CountInv, Unlaunched
        <3>5. hostPc' = "launched"
            BY <2>1 DEF Launch
        <3>6. \A t \in Threads : pc'[t] = "load" /\ t \in AllThreads
            BY <2>1, RowsFacts DEF Launch, AllTo, Threads, AllThreads, KernelInv, TypeOK
        <3>7. Counts'
            BY <3>1, <3>2, <3>3, <3>4, <3>6 DEF Counts, CountOf, Once
        <3> QED
            BY <3>5, <3>7 DEF CountInv, Unlaunched
    <2>2. CASE DoubleRows \/ LimitRows \/ HalveRows
        BY <2>2 DEF DoubleRows, LimitRows, HalveRows, CountInv, Counts, Unlaunched
    <2> QED
        BY <1>1, <2>1, <2>2 DEF HostStep
<1>2. CASE Sync \/ \E t \in AllThreads : ThreadStep(t)
    <2>1. /\ hostPc = "launched" /\ hostPc' = hostPc /\ q' = q /\ blockIdx' = blockIdx
        BY <1>2 DEF Sync, SyncLoaded, SyncUsed, SyncStored, AllAt, host,
                    ThreadStep, Load, Gravitation, StorePartial, SumRow, KernelInv, BlockRuns, Launched
    <2>2. q \in 1 .. rows /\ blockIdx \in 0 .. gridDim - 1 /\ Threads \subseteq AllThreads
        BY <2>1, RowsFacts DEF KernelInv, TypeOK, Threads, AllThreads
    <2>3. /\ numTiles' = numTiles /\ Threads' = Threads
          /\ \A b \in Bodies : TileOf(b)' = TileOf(b) /\ Lane(b)' = Lane(b)
          /\ \A t \in AllThreads : (Launched(t) <=> t \in Threads) /\ (Launched(t)' <=> t \in Threads)
        BY <2>1 DEF numTiles, Threads, TileOf, Lane, Offset, Launched
    <2>4. \A b \in Bodies : /\ Column(b) \in 0 .. p - 1
                            /\ Lane(b) \in 0 .. q - 1 /\ TileOf(b) \in Nat
        BY <2>2, BodyPlace
    <2>5. \A t \in Threads : /\ t[1] \in 0 .. p - 1 /\ t[2] \in 0 .. q - 1
                             /\ tile[t] \in Nat /\ j[t] \in Nat
                             /\ \A b \in Bodies : acc[t][b] \in Nat
        BY <2>2 DEF KernelInv, TypeOK, Threads
    <2>c. \A t \in Threads : \A b \in Bodies : CountOf(t, b)
        BY <2>1 DEF CountInv, Counts
    <2>g. SUFFICES \A t \in Threads : \A b \in Bodies : CountOf(t, b)'
        BY <2>1, <2>3 DEF CountInv, Counts, Unlaunched
    <2>6. CASE SyncLoaded
        <3>1. \A t \in Threads : /\ pc[t] = "loaded" /\ pc'[t] = "gravitation" /\ j'[t] = 0
                                 /\ tile'[t] = tile[t] /\ acc'[t] = acc[t]
                                 /\ sharedPos'[t] = sharedPos[t]
            BY <2>2, <2>6 DEF SyncLoaded, AllAt, AllTo
        <3> QED
            BY <2>3, <2>4, <2>5, <2>c, <3>1 DEF CountOf, Once
    <2>7. CASE SyncUsed
        <3>1. \A t \in Threads : /\ pc[t] = "used" /\ pc'[t] \in {"load", "partial"}
                                 /\ tile'[t] = tile[t] + 1 /\ acc'[t] = acc[t]
            BY <2>2, <2>7 DEF SyncUsed, AllAt
        <3> QED
            BY <2>3, <2>4, <2>5, <2>c, <3>1 DEF CountOf, Once
    <2>8. CASE SyncStored
        <3>1. \A t \in Threads : /\ pc[t] = "stored" /\ pc'[t] = AfterSum(t, 1) /\ j'[t] = 1
                                 /\ tile'[t] = tile[t] /\ acc'[t] = acc[t]
                                 /\ sharedPos'[t] = sharedPos[t] /\ tile[t] = numTiles
            BY <2>1, <2>2, <2>3, <2>8 DEF SyncStored, AllAt, KernelInv, Counters
        <3>2. \A t \in Threads : pc'[t] = "sum" => t[2] = 0
            BY <3>1 DEF AfterSum
        <3>3. \A t \in Threads : pc'[t] = "done" /\ t[2] = 0 => q = 1
            BY <2>2, <3>1, RowsFacts DEF AfterSum
        <3>4. \A t \in Threads : pc'[t] \in {"sum", "done"}
            BY <3>1 DEF AfterSum
        <3> QED
            BY <2>2, <2>3, <2>4, <2>5, <2>c, <3>1, <3>2, <3>3, <3>4, RowsFacts DEF CountOf, Once
    <2>9. ASSUME NEW t \in AllThreads, ThreadStep(t)
          PROVE  \A u \in Threads : \A b \in Bodies : CountOf(u, b)'
        <3>1. t \in Threads /\ t = <<t[1], t[2]>> /\ tile' = tile
            BY <2>3, <2>9 DEF ThreadStep, Load, Gravitation, StorePartial, SumRow, KernelInv,
                              BlockRuns, AllThreads
        <3>2. \A u \in Threads : u # t => /\ pc'[u] = pc[u] /\ j'[u] = j[u] /\ acc'[u] = acc[u]
                                          /\ sharedPos'[u] = sharedPos[u]
            BY <2>2, <2>9 DEF ThreadStep, Load, Gravitation, StorePartial, SumRow, KernelInv, TypeOK
        <3>3. CASE Load(t)
            <4>1. tile[t] \in 0 .. numTiles - 1 /\ numTiles \in Nat
                BY <2>2, <2>3, <3>1, <3>3, TilesFacts DEF Load, KernelInv, TypeOK, Counters
            <4>2. \A b \in Bodies : Loaded(t, tile[t]) = b
                                    <=> t[1] = Column(b) /\ t[2] = Lane(b) /\ tile[t] = TileOf(b)
                BY <2>2, <3>1, <4>1, LoadedIff
            <4>3. \A b \in Bodies : sharedPos'[t][b] = Once(Loaded(t, tile[t]) = b)
                BY <2>2, <3>1, <3>3 DEF Load, KernelInv, TypeOK, Only, Nobody, Once
            <4>4. pc[t] = "load" /\ pc'[t] = "loaded" /\ acc'[t] = acc[t]
                BY <2>2, <3>1, <3>3 DEF Load, KernelInv, TypeOK
            <4> QED
                BY <2>3, <2>c, <3>1, <3>2, <4>2, <4>3, <4>4 DEF CountOf, Once
        <3>4. CASE Gravitation(t)
            <4> DEFINE u == <<j[t], t[2]>>
            <4>1. pc[t] = "gravitation" /\ j[t] \in 0 .. p - 1 /\ u \in Threads
                <5>1. pc[t] = "gravitation" /\ j[t] < p
                    BY <2>3, <3>1, <3>4 DEF Gravitation, KernelInv, Counters, Threads
                <5> QED
                    BY <2>2, <2>5, <3>1, <5>1, KernelAssumption DEF Threads
            <4>2. pc[u] \in {"gravitation", "used"} /\ tile[u] = tile[t] /\ u[1] = j[t] /\ u[2] = t[2]
                <5>1. Phase(pc[u]) = Phase(pc[t]) /\ tile[u] = tile[t]
                    BY <2>2, <2>3, <3>1, <4>1 DEF KernelInv, Lockstep
                <5> QED
                    BY <4>1, <5>1 DEF Phase
            <4>3. \A b \in Bodies :
                      sharedPos[u][b] = Once(j[t] = Column(b) /\ t[2] = Lane(b) /\ tile[t] = TileOf(b))
                BY <2>c, <4>1, <4>2 DEF CountOf
            <4>4. /\ \A b \in Bodies : acc'[t][b] = acc[t][b] + sharedPos[u][b]
                  /\ j'[t] = j[t] + 1
                  /\ pc'[t] = IF j[t] + 1 < p THEN "gravitation" ELSE "used"
                  /\ sharedPos' = sharedPos
                BY <2>2, <3>1, <3>4 DEF Gravitation, KernelInv, TypeOK, Plus
            <4> HIDE DEF u
            <4>5. \A b \in Bodies :
                      acc'[t][b] = Once(/\ t[2] = Lane(b)
                                        /\ \/ TileOf(b) < tile[t]
                                           \/ TileOf(b) = tile[t] /\ Column(b) < j[t] + 1)
                BY <2>3, <2>4, <2>5, <2>c, <3>1, <4>1, <4>3, <4>4 DEF CountOf, Once
            <4>6. j[t] + 1 < p \/ j[t] + 1 = p
                BY <4>1, KernelAssumption
            <4> QED
                BY <2>3, <2>4, <2>5, <2>c, <3>1, <3>2, <4>1, <4>4, <4>5, <4>6 DEF CountOf, Once
        <3>5. CASE StorePartial(t)
            <4>1. /\ pc[t] = "partial" /\ pc'[t] = "stored" /\ acc'[t] = acc[t]
                  /\ sharedPos'[t] = acc[t] /\ tile[t] = numTiles
                BY <2>2, <2>3, <3>1, <3>5 DEF StorePartial, KernelInv, TypeOK, Counters
            <4> QED
                BY <2>3, <2>4, <2>5, <2>c, <3>1, <3>2, <4>1 DEF CountOf, Once
        <3>6. CASE SumRow(t)
            <4> DEFINE u == <<t[1], j[t]>>
            <4>1. pc[t] = "sum" /\ t[2] = 0 /\ j[t] \in 1 .. q - 1
                BY <2>2, <2>3, <3>1, <3>6 DEF SumRow, KernelInv, TypeOK, Counters
            <4>2. u \in Threads /\ u[2] = j[t]
                BY <2>2, <2>5, <3>1, <4>1, RowsFacts DEF Threads
            <4>3. pc[u] \in {"sum", "done"}
                BY <2>2, <2>3, <3>1, <4>1, <4>2 DEF KernelInv, Lockstep, Phase
            <4>4. \A b \in Bodies : sharedPos[u][b] = Once(j[t] = Lane(b) /\ TileOf(b) < numTiles)
                BY <2>c, <4>2, <4>3 DEF CountOf
            <4>5. /\ \A b \in Bodies : acc'[t][b] = acc[t][b] + sharedPos[u][b]
                  /\ j'[t] = j[t] + 1 /\ sharedPos' = sharedPos
                  /\ pc'[t] = IF j[t] + 1 < q THEN "sum" ELSE "done"
                BY <2>2, <3>1, <3>6, <4>1 DEF SumRow, KernelInv, TypeOK, Plus, AfterSum
            <4> HIDE DEF u
            <4>6. \A b \in Bodies : acc'[t][b] = Once(Lane(b) < j[t] + 1 /\ TileOf(b) < numTiles)
                BY <2>2, <2>3, <2>4, <2>5, <2>c, <3>1, <4>1, <4>4, <4>5, RowsFacts DEF CountOf, Once
            <4>7. j[t] + 1 < q \/ j[t] + 1 = q
                BY <2>2, <4>1, RowsFacts
            <4> QED
                BY <2>2, <2>3, <2>4, <2>5, <2>c, <3>1, <3>2, <4>1, <4>5, <4>6, <4>7, RowsFacts DEF CountOf, Once
        <3> QED
            BY <2>9, <3>3, <3>4, <3>5, <3>6 DEF ThreadStep
    <2> QED
        BY <1>2, <2>6, <2>7, <2>8, <2>9 DEF Sync
<1>3. CASE UNCHANGED vars
    <2>1. /\ hostPc' = hostPc /\ q' = q /\ blockIdx' = blockIdx /\ pc' = pc /\ tile' = tile
          /\ j' = j /\ acc' = acc /\ sharedPos' = sharedPos
        BY <1>3 DEF vars, host
    <2>2. /\ Threads' = Threads /\ numTiles' = numTiles
          /\ \A b \in Bodies : TileOf(b)' = TileOf(b) /\ Lane(b)' = Lane(b)
        BY <2>1 DEF Threads, numTiles, TileOf, Lane, Offset
    <2>3. Counts'
        BY <2>1, <2>2 DEF CountInv, Counts, CountOf, Once
    <2>4. Unlaunched'
        BY <2>1 DEF CountInv, Unlaunched
    <2> QED
        BY <2>3, <2>4 DEF CountInv
<1> QED
    BY <1>1, <1>2, <1>3 DEF Next

LEMMA CountInvariant == Spec => [](KernelInv /\ CountInv)
BY InitKernelInv, CountInvInit, KernelInvStep, CountInvStep, PTL DEF Spec

(* What a finished block has counted *)
LEMMA DoneCounts ==
    ASSUME KernelInv, CountInv, AllAt("done"), NEW x \in 0 .. p - 1, NEW b \in Bodies
    PROVE  /\ q \in 1 .. rows /\ blockIdx \in 0 .. gridDim - 1
           /\ acc[<<x, 0>>][b] = Once(TileOf(b) < numTiles)
<1>1. /\ q \in 1 .. rows /\ blockIdx \in 0 .. gridDim - 1 /\ hostPc = "launched"
      /\ <<x, 0>> \in Threads
    BY RowsFacts, KernelAssumption DEF KernelInv, TypeOK, AllAt, Threads
<1>2. acc[<<x, 0>>][b] = Once(TileOf(b) < numTiles)
    BY <1>1 DEF CountInv, Counts, CountOf, AllAt
<1> QED
    BY <1>1, <1>2

(* Full tiles are those that leave over no row of bodies. *)
LEMMA FullTiles ==
    ASSUME q \in 1 .. rows
    PROVE  np % (p * q) = 0 <=> rows = q * numTiles
<1> DEFINE w == p * q
<1>1. w \in Nat \ {0}
    BY RowsFacts, KernelAssumption
<1>2. np = w * numTiles + (np % w)
    <2>1. numTiles = np \div w
        BY DEF numTiles
    <2> HIDE DEF w
    <2> QED
        BY <1>1, <2>1, Division, KernelAssumption
<1>3. numTiles \in Nat /\ q \in Nat /\ rows \in Nat
    BY TilesFacts, RowsFacts
<1>4. w * numTiles = p * (q * numTiles) /\ np = p * rows
    BY <1>3, RowsFacts, KernelAssumption
<1>5. np % w \in Nat
    <2> HIDE DEF w
    <2> QED
        BY <1>1, Division, KernelAssumption
<1> DEFINE m == q * numTiles
<1>6. m \in Nat
    BY <1>3
<1> HIDE DEF w, m
<1>7. p * rows = p * m + (np % w)
    BY <1>2, <1>4 DEF m
<1>8. rows = m <=> p * rows = p * m
    BY <1>3, <1>6, KernelAssumption
<1>9. p * rows \in Int /\ p * m \in Int
    BY <1>3, <1>6, KernelAssumption
<1> QED
    BY <1>5, <1>7, <1>8, <1>9 DEF m, w

(* The place of a body is before the end of the last tile, if it is in one *)
(* of the tiles.                                                           *)
LEMMA InATile ==
    ASSUME q \in 1 .. rows, blockIdx \in 0 .. gridDim - 1, NEW b \in Bodies
    PROVE  TileOf(b) < numTiles <=> Offset(b) < q * numTiles
<1>1. /\ Offset(b) = q * TileOf(b) + Lane(b)
      /\ TileOf(b) \in Nat /\ Lane(b) \in 0 .. q - 1 /\ numTiles \in Nat /\ q \in Nat \ {0}
    BY BodyPlace, TilesFacts, RowsFacts
<1>2. ASSUME TileOf(b) < numTiles PROVE Offset(b) < q * numTiles
    <2>1. q * (TileOf(b) + 1) <= q * numTiles
        BY <1>1, <1>2
    <2>2. q * (TileOf(b) + 1) = q * TileOf(b) + q /\ q * TileOf(b) \in Nat
        BY <1>1
    <2> QED
        BY <1>1, <2>1, <2>2
<1>3. ASSUME TileOf(b) >= numTiles PROVE Offset(b) >= q * numTiles
    <2>1. q * TileOf(b) >= q * numTiles
        BY <1>1, <1>3
    <2> QED
        BY <1>1, <2>1
<1>4. Offset(b) \in Int /\ q * numTiles \in Int
    BY <1>1
<1> QED
    BY <1>1, <1>2, <1>3, <1>4

(* There is a body at the last place of the rows, seen from any block. *)
LEMMA LastPlace ==
    ASSUME blockIdx \in 0 .. gridDim - 1
    PROVE  \E b \in Bodies : Offset(b) = rows - 1
<1> DEFINE r == IF blockIdx = 0 THEN rows - 1 ELSE blockIdx - 1
<1>1. r \in 0 .. rows - 1 /\ rows \in Nat \ {0} /\ p \in Nat \ {0} /\ np = p * rows
    BY RowsFacts, KernelAssumption
<1>2. p * r \in Bodies
    <2>1. p * r <= p * (rows - 1) /\ p * r >= 0
        BY <1>1
    <2>2. p * (rows - 1) = np - p /\ p * r \in Int /\ np \in Int
        BY <1>1
    <2> QED
        BY <1>1, <2>1, <2>2 DEF Bodies
<1>3. (p * r) \div p = r
    <2> HIDE DEF r
    <2> QED
        BY <1>1
<1>4. Offset(p * r) = rows - 1
    BY <1>1, <1>3, RowsFacts DEF Offset
<1> QED
    BY <1>2, <1>4

(***************************************************************************)
(* When the tiles of the launch are full, every block counts every body    *)
(* exactly once: two bodies are never loaded by the same thread in the     *)
(* same tile, and no place of the rows is left over.                       *)
(***************************************************************************)
THEOREM FullTilesCount == Spec => [](np % (p * q) = 0 => EveryBodyOnce)
<1>1. KernelInv /\ CountInv => (np % (p * q) = 0 => EveryBodyOnce)
    <2> SUFFICES ASSUME KernelInv, CountInv, np % (p * q) = 0, AllAt("done"),
                        NEW x \in 0 .. p - 1, NEW b \in Bodies
                 PROVE  acc[<<x, 0>>][b] = 1
        BY DEF EveryBodyOnce
    <2>1. q \in 1 .. rows /\ blockIdx \in 0 .. gridDim - 1
        BY DoneCounts
    <2>2. Offset(b) < q * numTiles
        BY <2>1, FullTiles, BodyPlace, RowsFacts
    <2> QED
        BY <2>1, <2>2, DoneCounts, InATile DEF Once
<1> QED
    BY <1>1, CountInvariant, PTL

(***************************************************************************)
(* Only then: a launch whose tiles are not full is wrong in every block of *)
(* it, whatever the schedule.  The bodies behind the last tile are counted *)
(* nowhere, all others once.                                               *)
(***************************************************************************)
THEOREM FullTilesNeeded ==
    Spec => [](AllAt("done") => (EveryBodyOnce <=> np % (p * q) = 0))
<1>1. KernelInv /\ CountInv => (AllAt("done") /\ EveryBodyOnce => np % (p * q) = 0)
    <2> SUFFICES ASSUME KernelInv, CountInv, AllAt("done"), EveryBodyOnce
                 PROVE  np % (p * q) = 0
        OBVIOUS
    <2>1. PICK b \in Bodies : blockIdx \in 0 .. gridDim - 1 => Offset(b) = rows - 1
        BY LastPlace, KernelAssumption DEF Bodies
    <2>2. 0 \in 0 .. p - 1 /\ acc[<<0, 0>>][b] = 1
        BY KernelAssumption DEF EveryBodyOnce
    <2>3. q \in 1 .. rows /\ blockIdx \in 0 .. gridDim - 1 /\ TileOf(b) < numTiles
        BY <2>2, DoneCounts DEF Once
    <2>4. rows - 1 < q * numTiles
        BY <2>1, <2>3, InATile
    <2>5. q * numTiles <= rows /\ q * numTiles \in Int /\ rows \in Int
        BY <2>3, TilesFacts, RowsFacts
    <2> QED
        BY <2>3, <2>4, <2>5, FullTiles
<1> QED
    BY <1>1, FullTilesCount, CountInvariant, PTL

(***************************************************************************)
(* What the tail costs: in a finished block no body is counted twice, and  *)
(* those that are not counted are at the last places of the rows, fewer    *)
(* than a tile's worth of rows from the end.                               *)
(***************************************************************************)
LastRows(b) == q * numTiles <= Offset(b) /\ rows - q < q * numTiles

OnlyTailMissing ==
    AllAt("done") =>
        \A x \in 0 .. p - 1 : \A b \in Bodies :
            \/ acc[<<x, 0>>][b] = 1
            \/ acc[<<x, 0>>][b] = 0 /\ LastRows(b)

THEOREM TailLost == Spec => []OnlyTailMissing
<1>1. KernelInv /\ CountInv => OnlyTailMissing
    <2> SUFFICES ASSUME KernelInv, CountInv, AllAt("done"),
                        NEW x \in 0 .. p - 1, NEW b \in Bodies
                 PROVE  \/ acc[<<x, 0>>][b] = 1
                        \/ acc[<<x, 0>>][b] = 0 /\ LastRows(b)
        BY DEF OnlyTailMissing
    <2>1. q \in 1 .. rows /\ blockIdx \in 0 .. gridDim - 1
        BY DoneCounts
    <2>2. rows - q < q * numTiles
        <3>1. np < p * q * numTiles + p * q
            <4> DEFINE w == p * q
            <4>1. w \in Nat \ {0} /\ numTiles = np \div w
                BY <2>1, RowsFacts, KernelAssumption DEF numTiles
            <4> HIDE DEF w
            <4>2. np = w * (np \div w) + (np % w) /\ np % w \in 0 .. w - 1 /\ np \div w \in Nat
                BY <4>1, KernelAssumption
            <4>3. np < w * numTiles + w
                BY <4>1, <4>2, KernelAssumption
            <4> QED
                BY <4>3 DEF w
        <3>2. numTiles \in Nat /\ q \in Nat \ {0} /\ rows \in Nat /\ np = p * rows
            BY <2>1, TilesFacts, RowsFacts, KernelAssumption
        <3> DEFINE k == q * numTiles + q
        <3>3. k \in Nat /\ p * k = p * q * numTiles + p * q
            BY <3>2, KernelAssumption
        <3> HIDE DEF k
        <3>4. p * rows < p * k
            BY <3>1, <3>2, <3>3
        <3>5. rows < k
            BY <3>2, <3>3, <3>4, KernelAssumption
        <3> QED
            BY <3>2, <3>5 DEF k
    <2>3. CASE TileOf(b) < numTiles
        BY <2>3, DoneCounts DEF Once
    <2>4. CASE ~(TileOf(b) < numTiles)
        <3>1. acc[<<x, 0>>][b] = 0
            BY <2>4, DoneCounts DEF Once
        <3>2. Offset(b) \in Nat /\ q * numTiles \in Nat
            BY <2>1, BodyPlace, TilesFacts, RowsFacts
        <3> QED
            BY <2>1, <2>2, <2>4, <3>1, <3>2, InATile DEF LastRows
    <2> QED
        BY <2>3, <2>4
<1> QED
    BY <1>1, CountInvariant, PTL
=============================================================================
