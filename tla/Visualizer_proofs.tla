-------------------------- MODULE Visualizer_proofs --------------------------
(***************************************************************************)
(* Proofs about the visualizer: its ring buffer, for every number of       *)
(* particles and every way the incoming bytes are split into reads, and    *)
(* then the whole program, with the spheres, the keys and the exit from    *)
(* the keyboard.                                                           *)
(***************************************************************************)
EXTENDS Visualizer, Powers_proofs, SequenceTheorems, TLAPS

(* The data thread's position: at the start of a slot between two fills;   *)
(* during a fill, what is still to be read takes it to the end of the slot *)
(* that it has locked.                                                     *)
DataPlace ==
    /\ dataPc \in {"connect", "register"} => writePos = 0
    /\ dataPc = "first" => writePos + bytesToCopy = floatsPerBuffer
    /\ dataPc = "loop" => \E b \in Slots : writePos = b * floatsPerBuffer
    /\ dataPc = "copy" => /\ writePos + bytesToCopy = (dataBuf + 1) * floatsPerBuffer
                          /\ bufLocks[dataBuf] = "data"
    /\ dataPc \in {"first", "copy"} => bytesToCopy \in 1 .. floatsPerBuffer

(* The display's position: at the start of a slot between two frames;      *)
(* after some particles, that many into the slot that it has locked.       *)
DisplayPlace ==
    /\ displayPc = "idle" => \E b \in Slots : readPos = b * floatsPerBuffer
    /\ displayPc = "lock" => readPos = displayBuf * floatsPerBuffer
    /\ displayPc = "render" => /\ readPos = displayBuf * floatsPerBuffer + 4 * particle
                               /\ bufLocks[displayBuf] = "display"

(* The first fill, which locks nothing, is over before the display starts. *)
FirstAlone == dataPc \in {"connect", "register", "first"} => ~ready /\ displayPc = "idle"

RingInv == TypeOK /\ DataPlace /\ DisplayPlace /\ FirstAlone
-----------------------------------------------------------------------------
(* The start of a slot is found again from a position at it. *)
LEMMA SlotOfStart == ASSUME NEW b \in Slots PROVE (b * floatsPerBuffer) \div floatsPerBuffer = b
<1>1. floatsPerBuffer \in Nat /\ floatsPerBuffer > 0
    BY NumParticlesAssumption DEF floatsPerBuffer
<1>2. CASE b = 0
    BY <1>1, <1>2
<1>3. CASE b = 1
    BY <1>1, <1>3
<1>4. CASE b = 2
    BY <1>1, <1>4
<1> QED
    BY <1>2, <1>3, <1>4 DEF Slots

(* Two slots have no byte in common. *)
LEMMA SlotsApart ==
    ASSUME NEW b \in Slots, NEW c \in Slots, b # c
    PROVE  SlotBytes(b) \cap SlotBytes(c) = {}
<1>1. floatsPerBuffer \in Nat
    BY NumParticlesAssumption DEF floatsPerBuffer
<1>2. b + 1 <= c \/ c + 1 <= b
    BY DEF Slots
<1>3. /\ 4 * floatsPerBuffer * 0 = 0
      /\ 4 * floatsPerBuffer * (0 + 1) = 4 * floatsPerBuffer
      /\ 4 * floatsPerBuffer * 1 = 4 * floatsPerBuffer
      /\ 4 * floatsPerBuffer * (1 + 1) = 8 * floatsPerBuffer
      /\ 4 * floatsPerBuffer * 2 = 8 * floatsPerBuffer
      /\ 4 * floatsPerBuffer * (2 + 1) = 12 * floatsPerBuffer
    BY <1>1
<1> QED
    BY <1>1, <1>2, <1>3 DEF SlotBytes, Slots

LEMMA InitRingInv == Init => RingInv
<1> SUFFICES ASSUME Init PROVE RingInv
    OBVIOUS
<1>1. floatsPerBuffer \in Nat \ {0} /\ 0 = 0 * floatsPerBuffer
    BY NumParticlesAssumption DEF floatsPerBuffer
<1>2. ready \in BOOLEAN
    BY Zenon DEF Init
<1>3. TypeOK
    BY <1>1, <1>2, NumParticlesAssumption DEF Init, TypeOK, Slots, bufferSize, FrameBytes
<1>4. DataPlace /\ DisplayPlace /\ FirstAlone
    BY <1>1 DEF Init, DataPlace, DisplayPlace, FirstAlone, Slots
<1> QED
    BY <1>3, <1>4 DEF RingInv

LEMMA RingInvStep == RingInv /\ [Next]_vars => RingInv'
<1> SUFFICES ASSUME RingInv, [Next]_vars PROVE RingInv'
    OBVIOUS
<1>a. floatsPerBuffer \in Nat \ {0} /\ floatsPerBuffer = 4 * NumParticles
    BY NumParticlesAssumption DEF floatsPerBuffer
<1>b. bufferSize = 3 * floatsPerBuffer /\ FrameBytes = 4 * floatsPerBuffer
    BY DEF bufferSize, FrameBytes
<1>c. /\ 0 * floatsPerBuffer = 0
      /\ 1 * floatsPerBuffer = floatsPerBuffer
      /\ (0 + 1) * floatsPerBuffer = floatsPerBuffer
      /\ (1 + 1) * floatsPerBuffer = 2 * floatsPerBuffer
      /\ (2 + 1) * floatsPerBuffer = 3 * floatsPerBuffer
    BY <1>a
<1>d. \A b \in Slots : (b * floatsPerBuffer) \div floatsPerBuffer = b
    BY SlotOfStart
<1> USE <1>a, <1>b, <1>c, NumParticlesAssumption
    DEF RingInv, TypeOK, DataPlace, DisplayPlace, FirstAlone, Slots, data, display
<1>1. CASE GetConnection
    BY <1>1, <1>d DEF GetConnection, ExitProcess
<1>2. CASE ReadNumber
    BY <1>2, <1>d DEF ReadNumber, ExitProcess
<1>3. CASE ReadPart
    BY <1>3, <1>d DEF ReadPart, Arrives
<1>4. CASE FirstFull
    BY <1>4, <1>d DEF FirstFull, Arrives
<1>5. CASE LockSlot
    BY <1>5, <1>d DEF LockSlot
<1>6. CASE SlotFull
    BY <1>6, <1>d DEF SlotFull, Arrives
<1>7. CASE ReadFails
    BY <1>7, <1>d DEF ReadFails, ExitProcess
<1>8. CASE BeginDisplay
    BY <1>8, <1>d DEF BeginDisplay
<1>9. CASE LockDisplay
    BY <1>9, <1>d DEF LockDisplay
<1>10. CASE RenderParticle
    BY <1>10, <1>d DEF RenderParticle
<1>11. CASE EndDisplay
    BY <1>11, <1>d DEF EndDisplay
<1>12. CASE Disconnect
    BY <1>12, <1>d DEF Disconnect
<1>13. CASE UNCHANGED vars
    BY <1>13 DEF vars
<1> QED
    BY <1>1, <1>2, <1>3, <1>4, <1>5, <1>6, <1>7, <1>8, <1>9, <1>10, <1>11, <1>12, <1>13
    DEF Next, DataStep, DisplayStep

LEMMA RingInvariant == Spec => []RingInv
    BY InitRingInv, RingInvStep, PTL DEF Spec
-----------------------------------------------------------------------------
(***************************************************************************)
(* Every variable keeps its type: the two positions in particular stay     *)
(* within the buffer, whatever the sizes of the reads.                     *)
(***************************************************************************)
THEOREM TypeCorrect == Spec => []TypeOK
<1>1. RingInv => TypeOK
    BY DEF RingInv
<1> QED
    BY RingInvariant, <1>1, PTL

(* What the two safety invariants follow from *)
LEMMA RingInvWrites == RingInv => WritesInSlot
<1> SUFFICES ASSUME RingInv, dataPc = "copy", NEW byte \in WriteBytes
             PROVE  byte \in SlotBytes(dataBuf)
    BY DEF WritesInSlot
<1> DEFINE F == floatsPerBuffer
           start == F * dataBuf
<1>1. F \in Nat /\ start \in Nat /\ 4 * F * dataBuf = 4 * start
    BY NumParticlesAssumption DEF floatsPerBuffer, RingInv, TypeOK, Slots
<1>2. 4 * F * (dataBuf + 1) = 4 * start + 4 * F /\ (dataBuf + 1) * F = start + F
    BY NumParticlesAssumption DEF floatsPerBuffer, RingInv, TypeOK, Slots
<1>3. writePos + bytesToCopy = start + F /\ bytesToCopy \in 1 .. F /\ writePos \in Nat
    BY <1>2 DEF RingInv, DataPlace, TypeOK
<1>4. byte \in 4 * writePos .. 4 * writePos + bytesToCopy - 1
    BY DEF WriteBytes
<1>5. byte \in 4 * start .. 4 * start + 4 * F - 1
    <2> HIDE DEF F, start
    <2> QED
        BY <1>1, <1>3, <1>4
<1> QED
    BY <1>1, <1>2, <1>5 DEF SlotBytes

LEMMA RingInvRenders == RingInv /\ WritesInSlot => RendersQuietSlot
<1> SUFFICES ASSUME RingInv, WritesInSlot, displayPc = "render"
             PROVE  /\ SlotBytes(displayBuf) \cap WriteBytes = {}
                    /\ particle < NumParticles =>
                           4 * readPos .. 4 * readPos + 15 \subseteq SlotBytes(displayBuf)
    BY DEF RendersQuietSlot
<1>1. dataPc \in {"first", "copy"} => dataPc = "copy" /\ dataBuf # displayBuf
    BY DEF RingInv, FirstAlone, DataPlace, DisplayPlace
<1>2. dataBuf # displayBuf => SlotBytes(displayBuf) \cap SlotBytes(dataBuf) = {}
    BY SlotsApart DEF RingInv, TypeOK
<1>3. SlotBytes(displayBuf) \cap WriteBytes = {}
    BY <1>1, <1>2 DEF WritesInSlot, WriteBytes
<1>4. ASSUME particle < NumParticles
      PROVE  4 * readPos .. 4 * readPos + 15 \subseteq SlotBytes(displayBuf)
    <2>1. readPos = displayBuf * floatsPerBuffer + 4 * particle
        BY DEF RingInv, DisplayPlace
    <2>2. 4 * particle + 4 <= floatsPerBuffer /\ particle \in Nat /\ floatsPerBuffer \in Nat
        BY <1>4, NumParticlesAssumption DEF floatsPerBuffer, RingInv, TypeOK
    <2>3. CASE displayBuf = 0
        BY <2>1, <2>2, <2>3 DEF SlotBytes
    <2>4. CASE displayBuf = 1
        BY <2>1, <2>2, <2>4 DEF SlotBytes
    <2>5. CASE displayBuf = 2
        BY <2>1, <2>2, <2>5 DEF SlotBytes
    <2> QED
        BY <2>3, <2>4, <2>5 DEF RingInv, TypeOK, Slots
<1> QED
    BY <1>3, <1>4

(***************************************************************************)
(* The data thread only writes into the slot whose mutex it holds: a read  *)
(* writes fewer bytes than the position then moves floats.                 *)
(***************************************************************************)
THEOREM WritesSafe == Spec => []WritesInSlot
BY RingInvariant, RingInvWrites, PTL

(***************************************************************************)
(* The display renders from the slot whose mutex it holds, and the data    *)
(* thread writes to none of it meanwhile: each holds the mutex of its own  *)
(* slot, and the slots of two numbers have no byte in common.              *)
(***************************************************************************)
THEOREM RendersSafe == Spec => []RendersQuietSlot
BY RingInvariant, WritesSafe, RingInvRenders, PTL
-----------------------------------------------------------------------------
(* The whole program *)
ProgramInv == RingInv /\ SceneTypeOK
-----------------------------------------------------------------------------
(* A list of faces whose first one is replaced by four smaller ones *)
LEMMA DividedFaces ==
    ASSUME todo \in Seq(0 .. NUM_TIMES_TO_SUBDIVIDE), todo # <<>>
    PROVE  /\ Tail(todo) \in Seq(0 .. NUM_TIMES_TO_SUBDIVIDE)
           /\ Head(todo) > 0 =>
                  [f \in 1 .. 4 |-> Head(todo) - 1] \o Tail(todo) \in Seq(0 .. NUM_TIMES_TO_SUBDIVIDE)
<1>1. /\ Tail(todo) \in Seq(0 .. NUM_TIMES_TO_SUBDIVIDE)
      /\ Head(todo) \in 0 .. NUM_TIMES_TO_SUBDIVIDE
    BY HeadTailProperties
<1>2. ASSUME Head(todo) > 0
      PROVE  [f \in 1 .. 4 |-> Head(todo) - 1] \in Seq(0 .. NUM_TIMES_TO_SUBDIVIDE)
    <2>1. Head(todo) - 1 \in 0 .. NUM_TIMES_TO_SUBDIVIDE
        BY <1>1, <1>2, MeshAssumption, SMT
    <2>2. [f \in 1 .. 4 |-> Head(todo) - 1] \in [1 .. 4 -> 0 .. NUM_TIMES_TO_SUBDIVIDE]
        BY <2>1
    <2>3. 4 \in Nat
        OBVIOUS
    <2> QED BY <2>2, <2>3, SeqDef
<1> QED BY <1>1, <1>2, ConcatProperties

LEMMA ProgramInvInit == VisualizerInit => ProgramInv
<1> SUFFICES ASSUME VisualizerInit PROVE ProgramInv
    OBVIOUS
<1>1. RingInv
    BY InitRingInv DEF VisualizerInit
<1>2. todo \in Seq(0 .. NUM_TIMES_TO_SUBDIVIDE)
    <2>1. todo \in [1 .. 20 -> 0 .. NUM_TIMES_TO_SUBDIVIDE]
        BY MeshAssumption, SMT DEF VisualizerInit
    <2>2. 20 \in Nat
        OBVIOUS
    <2> QED BY <2>1, <2>2, SeqDef
<1>3. Index = 0 /\ speed = MIN_DIST_INCREMENT
    BY DEF VisualizerInit
<1>4. speed \in MIN_DIST_INCREMENT .. MAX_DIST_INCREMENT + SPEED_INCREMENT - 1
    BY <1>3, CameraAssumption, SMT
<1> QED BY <1>1, <1>2, <1>3, <1>4 DEF ProgramInv, SceneTypeOK

(* The scene is left alone by the data thread and by display. *)
LEMMA SceneKept == ASSUME SceneTypeOK, UNCHANGED scene PROVE SceneTypeOK'
BY DEF SceneTypeOK, scene, mesh

LEMMA MeshingKeeps == ASSUME SceneTypeOK, Meshing PROVE SceneTypeOK'
<1> USE DEF SceneTypeOK
<1>1. todo # <<>> /\ todo \in Seq(0 .. NUM_TIMES_TO_SUBDIVIDE) /\ UNCHANGED speed
    BY DEF Meshing, DivideTriangle, Triangle
<1>2. todo' \in Seq(0 .. NUM_TIMES_TO_SUBDIVIDE)
    BY <1>1, DividedFaces DEF Meshing, DivideTriangle, Triangle
<1>3. Index' \in Nat
    BY SMT DEF Meshing, DivideTriangle, Triangle
<1> QED BY <1>1, <1>2, <1>3

LEMMA KeysKeep == ASSUME SceneTypeOK, Move \/ Release PROVE SceneTypeOK'
<1> USE DEF SceneTypeOK
<1>1. UNCHANGED <<todo, Index>>
    BY DEF Move, Release, mesh
<1>2. CASE Move
    <2>1. speed' = IF speed < MAX_DIST_INCREMENT THEN speed + SPEED_INCREMENT ELSE speed
        BY <1>2 DEF Move
    <2>2. speed' \in MIN_DIST_INCREMENT .. MAX_DIST_INCREMENT + SPEED_INCREMENT - 1
        BY <2>1, CameraAssumption, SMT
    <2> QED BY <1>1, <2>2
<1>3. CASE Release
    <2>1. speed' = MIN_DIST_INCREMENT
        BY <1>3 DEF Release
    <2>2. speed' \in MIN_DIST_INCREMENT .. MAX_DIST_INCREMENT + SPEED_INCREMENT - 1
        BY <2>1, CameraAssumption, SMT
    <2> QED BY <1>1, <2>2
<1> QED BY <1>2, <1>3

(* The exit from the keyboard, of which VisualizerBuffer knows nothing *)
LEMMA QuitKeeps == ASSUME RingInv, Quit PROVE RingInv'
BY NumParticlesAssumption DEF Quit, ExitProcess, RingInv, TypeOK, DataPlace, DisplayPlace, FirstAlone,
       display, floatsPerBuffer, bufferSize, Slots

LEMMA ProgramInvNext == ProgramInv /\ [VisualizerNext]_<<vars, scene>> => ProgramInv'
<1> SUFFICES ASSUME ProgramInv, [VisualizerNext]_<<vars, scene>> PROVE ProgramInv'
    OBVIOUS
<1> USE DEF ProgramInv
<1>1. CASE (DataStep \/ Disconnect) /\ UNCHANGED scene
    BY <1>1, RingInvStep, SceneKept DEF Next
<1>2. CASE Meshing
    <2>1. UNCHANGED vars
        BY <1>2 DEF Meshing, DivideTriangle, Triangle
    <2> QED BY <1>2, <2>1, RingInvStep, MeshingKeeps
<1>3. CASE Displaying
    BY <1>3, RingInvStep, SceneKept DEF Displaying, Next
<1>4. CASE Quit
    <2>1. UNCHANGED scene
        BY <1>4 DEF Quit
    <2> QED BY <1>4, <2>1, QuitKeeps, SceneKept
<1>5. CASE Move \/ Release
    <2>1. UNCHANGED vars
        BY <1>5 DEF Move, Release
    <2> QED BY <1>5, <2>1, RingInvStep, KeysKeep
<1>6. CASE UNCHANGED <<vars, scene>>
    BY <1>6, RingInvStep, SceneKept
<1> QED BY <1>1, <1>2, <1>3, <1>4, <1>5, <1>6 DEF VisualizerNext, Keys

LEMMA ProgramInvariant == VisualizerSpec => []ProgramInv
BY ProgramInvInit, ProgramInvNext, PTL DEF VisualizerSpec

(* Every variable of the ring and of the two threads keeps its type, also  *)
(* while the display makes its spheres and when a key ends the program.    *)
THEOREM ProgramTypeCorrect == VisualizerSpec => []TypeOK
BY ProgramInvariant, PTL DEF ProgramInv, RingInv

(* Whatever else the GLUT thread does, the data thread writes only into    *)
(* the slot that it has locked, ...                                        *)
THEOREM ProgramWritesSafe == VisualizerSpec => []WritesInSlot
BY ProgramInvariant, RingInvWrites, PTL DEF ProgramInv

(* ... and the display renders only from its own.                          *)
THEOREM ProgramRendersSafe == VisualizerSpec => []RendersQuietSlot
BY ProgramInvariant, RingInvWrites, RingInvRenders, PTL DEF ProgramInv

(* The types of the mesh and the camera: the speed stays below the sum of  *)
(* its limit and one increment, however long a key is held.                *)
THEOREM SceneTypeCorrect == VisualizerSpec => []SceneTypeOK
BY ProgramInvariant, PTL DEF ProgramInv
-----------------------------------------------------------------------------
(* How many triangles the faces of a list will be divided into: rest sums  *)
(* them up from the end of the list.                                       *)
Triangles(faces, n) ==
    \E rest \in [1 .. Len(faces) + 1 -> Nat] :
        /\ rest[1] = n /\ rest[Len(faces) + 1] = 0
        /\ \A k \in 1 .. Len(faces) : rest[k] = Power(4, faces[k]) + rest[k + 1]

(* The triangles still to be made fill just the rest of the arrays, and    *)
(* display waits for them.                                                 *)
MeshInv ==
    /\ \E n \in Nat : Triangles(todo, n) /\ Index + 3 * n = ArraySize
    /\ displayPc # "idle" => todo = <<>>

LEMMA TrianglesOfTail ==
    ASSUME NEW faces \in Seq(Nat), faces # <<>>, NEW n \in Nat, Triangles(faces, n)
    PROVE  \E m \in Nat : Triangles(Tail(faces), m) /\ n = Power(4, Head(faces)) + m
<1> DEFINE tail == Tail(faces)
           last == Len(faces)
<1>1. /\ last \in Nat \ {0} /\ faces[1] = Head(faces) /\ tail \in Seq(Nat) /\ Len(tail) = last - 1
      /\ \A k \in 1 .. last - 1 : tail[k] = faces[k + 1]
    BY HeadTailProperties, EmptySeq
<1>2. PICK rest \in [1 .. last + 1 -> Nat] :
          /\ rest[1] = n /\ rest[last + 1] = 0
          /\ \A k \in 1 .. last : rest[k] = Power(4, faces[k]) + rest[k + 1]
    BY DEF Triangles
<1> DEFINE shifted == [k \in 1 .. last |-> rest[k + 1]]
<1> HIDE DEF tail, last
<1>3. shifted \in [1 .. Len(tail) + 1 -> Nat] /\ shifted[1] = rest[2] /\ shifted[Len(tail) + 1] = 0
    BY <1>1, <1>2, SMT
<1>4. ASSUME NEW k \in 1 .. Len(tail) PROVE shifted[k] = Power(4, tail[k]) + shifted[k + 1]
    <2>1. k + 1 \in 1 .. last /\ k \in 1 .. last /\ k \in 1 .. last - 1
        BY <1>1, SMT
    <2>2. shifted[k] = rest[k + 1] /\ shifted[k + 1] = rest[k + 1 + 1] /\ tail[k] = faces[k + 1]
        BY <1>1, <2>1
    <2> HIDE DEF shifted
    <2> QED BY <1>2, <2>1, <2>2
<1>5. Triangles(tail, rest[2])
    BY <1>3, <1>4 DEF Triangles
<1>6. rest[2] \in Nat /\ n = Power(4, faces[1]) + rest[2]
    BY <1>1, <1>2, SMT
<1> QED BY <1>1, <1>5, <1>6 DEF tail

(* j faces of the same size before the others *)
LEMMA TrianglesOfMore ==
    ASSUME NEW faces \in Seq(Nat), NEW n \in Nat, Triangles(faces, n), NEW j \in Nat, NEW h \in Nat
    PROVE  Triangles([f \in 1 .. j |-> h] \o faces, j * Power(4, h) + n)
<1> DEFINE first == [f \in 1 .. j |-> h]
           more == first \o faces
           last == Len(faces)
           size == Power(4, h)
<1>1. first \in Seq(Nat) /\ Len(first) = j
    BY SeqDef
<1>2. /\ more \in Seq(Nat) /\ Len(more) = j + last /\ last \in Nat
      /\ \A k \in 1 .. j + last : more[k] = IF k <= j THEN h ELSE faces[k - j]
    BY <1>1, ConcatProperties, LenProperties
<1>3. PICK rest \in [1 .. last + 1 -> Nat] :
          /\ rest[1] = n /\ rest[last + 1] = 0
          /\ \A k \in 1 .. last : rest[k] = Power(4, faces[k]) + rest[k + 1]
    BY DEF Triangles
<1>4. size \in Nat
    BY PowerEquation
<1> DEFINE longer == [k \in 1 .. j + last + 1 |-> IF k <= j THEN (j + 1 - k) * size + n ELSE rest[k - j]]
<1> HIDE DEF first, more, last, size
<1>5. 0 * size = 0 /\ \A x \in Nat : x * size \in Nat /\ (x + 1) * size = size + x * size
    BY <1>4, SMT
<1>6. longer \in [1 .. Len(more) + 1 -> Nat]
    <2>1. ASSUME NEW k \in 1 .. j + last + 1
          PROVE  (IF k <= j THEN (j + 1 - k) * size + n ELSE rest[k - j]) \in Nat
        <3>1. CASE k <= j
            <4>1. j + 1 - k \in Nat
                BY <3>1, SMT
            <4>2. (j + 1 - k) * size \in Nat
                BY <1>5, <4>1
            <4> QED BY <3>1, <4>2, SMT
        <3>2. CASE ~(k <= j)
            <4>1. k - j \in 1 .. last + 1
                BY <1>2, <3>2, SMT
            <4> QED BY <1>3, <3>2, <4>1
        <3> QED BY <3>1, <3>2
    <2> QED BY <1>2, <2>1
<1>7. longer[1] = j * size + n
    <2>1. CASE j = 0
        <3>1. 1 \in 1 .. j + last + 1 /\ ~(1 <= j) /\ 1 - j = 1
            BY <1>2, <2>1, SMT
        <3>2. longer[1] = rest[1]
            BY <3>1
        <3> HIDE DEF longer
        <3> QED BY <1>3, <1>5, <2>1, <3>2, SMT
    <2>2. CASE j # 0
        <3>1. 1 \in 1 .. j + last + 1 /\ 1 <= j /\ j + 1 - 1 = j
            BY <1>2, <2>2, SMT
        <3> QED BY <3>1
    <2> QED BY <2>1, <2>2
<1>8. longer[Len(more) + 1] = 0
    <2>1. ASSUME NEW k \in 1 .. j + last + 1, k = Len(more) + 1 PROVE longer[k] = 0
        <3>1. ~(k <= j) /\ k - j = last + 1
            BY <1>2, <2>1, SMT
        <3>2. longer[k] = rest[k - j]
            BY <3>1
        <3> HIDE DEF longer
        <3> QED BY <1>3, <3>1, <3>2
    <2>2. Len(more) + 1 \in 1 .. j + last + 1
        BY <1>2, SMT
    <2> HIDE DEF longer
    <2> QED BY <2>1, <2>2
<1>9. ASSUME NEW k \in 1 .. Len(more) PROVE longer[k] = Power(4, more[k]) + longer[k + 1]
    <2>1. k \in 1 .. j + last /\ k \in 1 .. j + last + 1 /\ k + 1 \in 1 .. j + last + 1
        BY <1>2, SMT
    <2>2. CASE k < j
        <3>1. k <= j /\ k + 1 <= j /\ j + 1 - (k + 1) \in Nat /\ j + 1 - k = (j + 1 - (k + 1)) + 1
            BY <2>1, <2>2, SMT
        <3>2. longer[k] = (j + 1 - k) * size + n /\ longer[k + 1] = (j + 1 - (k + 1)) * size + n /\ more[k] = h
            BY <1>2, <2>1, <3>1
        <3>3. (j + 1 - k) * size = size + (j + 1 - (k + 1)) * size /\ (j + 1 - (k + 1)) * size \in Nat
            BY <1>5, <3>1
        <3> HIDE DEF longer
        <3> QED BY <1>4, <3>2, <3>3, SMT DEF size
    <2>3. CASE k = j
        <3>1. k <= j /\ ~(k + 1 <= j) /\ j + 1 - k = 1 /\ k + 1 - j = 1
            BY <2>1, <2>3, SMT
        <3>2. longer[k] = 1 * size + n /\ longer[k + 1] = rest[1] /\ more[k] = h
            BY <1>2, <2>1, <3>1
        <3> HIDE DEF longer
        <3> QED BY <1>3, <1>4, <3>2, SMT DEF size
    <2>4. CASE k > j
        <3>1. ~(k <= j) /\ ~(k + 1 <= j) /\ k - j \in 1 .. last /\ k + 1 - j = k - j + 1
            BY <1>2, <2>1, <2>4, SMT
        <3>2. longer[k] = rest[k - j] /\ longer[k + 1] = rest[k - j + 1] /\ more[k] = faces[k - j]
            BY <1>2, <2>1, <3>1
        <3> HIDE DEF longer
        <3> QED BY <1>3, <3>1, <3>2
    <2> QED BY <2>1, <2>2, <2>3, <2>4, SMT
<1> HIDE DEF longer
<1> QED BY <1>6, <1>7, <1>8, <1>9 DEF Triangles, more, first, size

LEMMA MeshInvInit == VisualizerInit => MeshInv
<1> SUFFICES ASSUME VisualizerInit PROVE MeshInv
    OBVIOUS
<1> DEFINE size == Power(4, NUM_TIMES_TO_SUBDIVIDE)
<1>1. size \in Nat /\ NUM_TRIANGLES = 4 * size
    BY MeshAssumption, PowerEquation
<1>2. Triangles(<<>>, 0)
    <2> DEFINE rest == [k \in 1 .. 1 |-> 0]
    <2>1. Len(<<>>) = 0 /\ 0 + 1 = 1 /\ 1 .. 0 = {}
        BY EmptySeq, SMT
    <2>2. rest \in [1 .. 1 -> Nat] /\ rest[1] = 0
        BY SMT
    <2> HIDE DEF rest
    <2> QED BY <2>1, <2>2 DEF Triangles
<1>3. [f \in 1 .. 20 |-> NUM_TIMES_TO_SUBDIVIDE] \in Seq(Nat) /\ todo = [f \in 1 .. 20 |-> NUM_TIMES_TO_SUBDIVIDE]
    <2>1. [f \in 1 .. 20 |-> NUM_TIMES_TO_SUBDIVIDE] \in [1 .. 20 -> Nat] /\ 20 \in Nat
        BY MeshAssumption
    <2> QED BY <2>1, SeqDef DEF VisualizerInit
<1>4. <<>> \in Seq(Nat) /\ todo \o <<>> = todo
    BY <1>3, ConcatEmptySeq, EmptySeq
<1>5. Triangles(todo, 20 * size + 0)
    <2>1. Triangles([f \in 1 .. 20 |-> NUM_TIMES_TO_SUBDIVIDE] \o <<>>, 20 * size + 0)
        BY <1>2, <1>4, MeshAssumption, TrianglesOfMore
    <2> QED BY <1>3, <1>4, <2>1
<1> HIDE DEF size
<1>6. Index + 3 * (20 * size + 0) = ArraySize /\ 20 * size + 0 \in Nat
    BY <1>1, SMT DEF VisualizerInit, ArraySize, NUM_VERTICES
<1>7. Index = 0 /\ displayPc = "idle"
    BY DEF VisualizerInit, Init
<1> QED BY <1>5, <1>6, <1>7 DEF MeshInv

LEMMA MeshingKeepsMesh == ASSUME SceneTypeOK, MeshInv, Meshing PROVE MeshInv'
<1>1. /\ todo \in Seq(Nat) /\ todo # <<>> /\ Head(todo) \in Nat /\ Tail(todo) \in Seq(Nat)
      /\ Index \in Nat /\ displayPc = "idle" /\ displayPc' = displayPc
    <2>1. todo # <<>> /\ UNCHANGED vars
        BY DEF Meshing, DivideTriangle, Triangle
    <2>2. todo \in Seq(Nat) /\ Index \in Nat
        BY MeshAssumption, SeqMonotonic, SMT DEF SceneTypeOK
    <2> QED BY <2>1, <2>2, HeadTailProperties DEF MeshInv, vars, display
<1>2. PICK n \in Nat : Triangles(todo, n) /\ Index + 3 * n = ArraySize
    BY DEF MeshInv
<1>3. PICK m \in Nat : Triangles(Tail(todo), m) /\ n = Power(4, Head(todo)) + m
    BY <1>1, <1>2, TrianglesOfTail
<1>4. CASE DivideTriangle
    <2>1. /\ Head(todo) - 1 \in Nat /\ Head(todo) = (Head(todo) - 1) + 1
          /\ todo' = [f \in 1 .. 4 |-> Head(todo) - 1] \o Tail(todo) /\ UNCHANGED Index
        BY <1>1, <1>4, SMT DEF DivideTriangle
    <2>2. Triangles(todo', 4 * Power(4, Head(todo) - 1) + m)
        BY <1>1, <1>3, <2>1, TrianglesOfMore
    <2>3. 4 * Power(4, Head(todo) - 1) = Power(4, Head(todo))
        BY <2>1, PowerEquation
    <2> QED BY <1>1, <1>2, <1>3, <2>1, <2>2, <2>3 DEF MeshInv, ArraySize, NUM_VERTICES
<1>5. CASE Triangle
    <2>1. todo' = Tail(todo) /\ Head(todo) = 0 /\ Index' = Index + 3
        BY <1>1, <1>5, SMT DEF Triangle
    <2>2. n = 1 + m
        BY <1>3, <2>1, PowerEquation
    <2>3. Triangles(todo', m) /\ Index' + 3 * m = ArraySize
        BY <1>1, <1>2, <1>3, <2>1, <2>2, SMT
    <2> QED BY <1>1, <2>3 DEF MeshInv, ArraySize, NUM_VERTICES
<1> QED BY <1>4, <1>5 DEF Meshing

(* Everything else leaves the mesh alone, and display does not begin       *)
(* before it is made.                                                      *)
LEMMA MeshKept ==
    ASSUME MeshInv, UNCHANGED mesh, displayPc' = displayPc \/ todo = <<>>
    PROVE  MeshInv'
BY DEF MeshInv, mesh, ArraySize, NUM_VERTICES

LEMMA MeshInvNext == SceneTypeOK /\ MeshInv /\ [VisualizerNext]_<<vars, scene>> => MeshInv'
<1> SUFFICES ASSUME SceneTypeOK, MeshInv, [VisualizerNext]_<<vars, scene>> PROVE MeshInv'
    OBVIOUS
<1>1. CASE (DataStep \/ Disconnect) /\ UNCHANGED scene
    <2>1. displayPc' = displayPc
        BY <1>1 DEF DataStep, Disconnect, GetConnection, ReadNumber, ReadPart, FirstFull, LockSlot, SlotFull,
               ReadFails, ExitProcess, display
    <2> QED BY <1>1, <2>1, MeshKept DEF scene
<1>2. CASE Meshing
    BY <1>2, MeshingKeepsMesh
<1>3. CASE Displaying
    BY <1>3, MeshKept DEF Displaying, InMainLoop, scene
<1>4. CASE Quit
    BY <1>4, MeshKept DEF Quit, Handler, InMainLoop, scene
<1>5. CASE Move \/ Release
    BY <1>5, MeshKept DEF Move, Release, Handler, InMainLoop
<1>6. CASE UNCHANGED <<vars, scene>>
    BY <1>6, MeshKept DEF vars, display, scene
<1> QED BY <1>1, <1>2, <1>3, <1>4, <1>5, <1>6 DEF VisualizerNext, Keys

(* The spheres fill the arrays exactly, for any depth of the subdivision,  *)
(* and what display draws is all set before it renders.                    *)
THEOREM MeshFits == VisualizerSpec => []MeshFitsDrawing
<1>1. VisualizerInit => SceneTypeOK /\ MeshInv
    BY ProgramInvInit, MeshInvInit DEF ProgramInv
<1>2. ProgramInv /\ MeshInv /\ [VisualizerNext]_<<vars, scene>> => MeshInv'
    BY MeshInvNext DEF ProgramInv
<1>3. SceneTypeOK /\ MeshInv => MeshFitsDrawing
    <2> SUFFICES ASSUME SceneTypeOK, MeshInv PROVE MeshFitsDrawing
        OBVIOUS
    <2>1. PICK n \in Nat : Triangles(todo, n) /\ Index + 3 * n = ArraySize
        BY DEF MeshInv
    <2>2. Index <= ArraySize /\ Index \in Nat
        BY <2>1, SMT DEF SceneTypeOK
    <2>3. ASSUME displayPc = "render" PROVE \A v \in Drawn : v < Index
        <3>1. Len(todo) = 0 /\ todo = <<>>
            BY <2>3, EmptySeq DEF MeshInv
        <3>2. n = 0
            BY <2>1, <3>1, SMT DEF Triangles
        <3>3. NUM_TRIANGLES \in Nat
            BY MeshAssumption, PowerEquation
        <3> QED BY <2>1, <2>2, <3>2, <3>3, SMT DEF Drawn, ArraySize, NUM_VERTICES
    <2> QED BY <2>2, <2>3 DEF MeshFitsDrawing
<1> QED BY <1>1, <1>2, <1>3, ProgramInvariant, PTL DEF VisualizerSpec, ProgramInv
=============================================================================
