-------------------------- MODULE VisualizerBuffer --------------------------
(***************************************************************************)
(* The visualizer process, PV/particles.cpp.  Its data thread connects to  *)
(* the simulation and copies what it receives into a ring buffer of three  *)
(* slots; the GLUT thread renders one slot per display callback.  Each     *)
(* slot has a mutex.  The two positions are offsets into the array of      *)
(* floats, and the code moves writePos by the number of bytes it has read, *)
(* so a slot takes floatsPerBuffer bytes from the connection.              *)
(*                                                                         *)
(* What is in the slots is left out: the properties are about who is where *)
(* in the buffer.  ready and the sizes are written by one thread and read  *)
(* by the other without a mutex; ready is written last, behind system      *)
(* calls, so the display sees the sizes once it sees ready.                *)
(***************************************************************************)
EXTENDS Integers

CONSTANT NumParticles   \* the number the simulation has sent

ASSUME NumParticlesAssumption == NumParticles \in Nat \ {0}

VARIABLES
    connection,    \* the simulation's end: "open", "closed" (read returns 0)
                   \* or "broken" (read returns -1)
    ready,
    dataPc, writePos, bytesToCopy, dataBuf,   \* data thread; dataBuf is its bufNo
    displayPc, readPos, particle, displayBuf, \* GLUT thread; particle is display's i
    bufLocks

data == <<dataPc, writePos, bytesToCopy, dataBuf>>
display == <<displayPc, readPos, particle, displayBuf>>
vars == <<connection, ready, data, display, bufLocks>>

floatsPerBuffer == 4 * NumParticles
bufferSize == 3 * floatsPerBuffer
FrameBytes == 4 * floatsPerBuffer     \* 4 floats of 4 bytes per particle

Slots == 0 .. 2
-----------------------------------------------------------------------------
Init ==
    /\ connection = "open"
    /\ ready = FALSE
    /\ dataPc = "connect" /\ writePos = 0 /\ bytesToCopy = 0 /\ dataBuf = 0
    /\ displayPc = "idle" /\ readPos = 0 /\ particle = 0 /\ displayBuf = 0
    /\ bufLocks = [b \in Slots |-> "free"]

Running == dataPc # "exited"

(* The simulation has ended and all it had sent has been read, or its      *)
(* machine or the network fails.                                           *)
Disconnect ==
    /\ connection = "open"
    /\ connection' \in {"closed", "broken"}
    /\ UNCHANGED <<ready, data, display, bufLocks>>
-----------------------------------------------------------------------------
(* The data thread.  exit ends the process, the display included. *)
ExitProcess ==
    /\ dataPc' = "exited"
    /\ UNCHANGED <<connection, ready, writePos, bytesToCopy, dataBuf, display, bufLocks>>

GetConnection ==
    /\ dataPc = "connect"
    /\ \/ /\ connection = "open"
          /\ dataPc' = "register"
          /\ UNCHANGED <<connection, ready, writePos, bytesToCopy, dataBuf, display, bufLocks>>
       \/ ExitProcess

(* The number of particles is read and acknowledged, and the ring buffer   *)
(* is allocated for it.                                                    *)
ReadNumber ==
    /\ dataPc = "register"
    /\ \/ /\ connection = "open"
          /\ dataPc' = "first"
          /\ writePos' = 0 /\ readPos' = 0
          /\ bytesToCopy' = floatsPerBuffer
          /\ UNCHANGED <<connection, ready, dataBuf, displayPc, particle, displayBuf, bufLocks>>
       \/ /\ connection # "open"
          /\ ExitProcess

(* read returns n bytes, at most as many as it was asked for. *)
Arrives(n) ==
    /\ n \in 1 .. bytesToCopy
    /\ connection = "open"

(* A read that is shorter than asked for: the loop goes on with the rest. *)
ReadPart ==
    /\ dataPc \in {"first", "copy"}
    /\ \E n \in 1 .. bytesToCopy - 1 :
           /\ Arrives(n)
           /\ bytesToCopy' = bytesToCopy - n
           /\ writePos' = writePos + n
    /\ UNCHANGED <<connection, ready, dataPc, dataBuf, display, bufLocks>>

(* The first buffer is full, and the display may start. *)
FirstFull ==
    /\ dataPc = "first"
    /\ Arrives(bytesToCopy)
    /\ bytesToCopy' = 0
    /\ writePos' = writePos + bytesToCopy
    /\ ready' = TRUE
    /\ dataPc' = "loop"
    /\ UNCHANGED <<connection, dataBuf, display, bufLocks>>

(* Mutant of LockSlot: the size of a slot is asked for in bytes, while the *)
(* position still moves by what was read.                                  *)
LockSlotInBytes ==
    /\ dataPc = "loop"
    /\ dataBuf' = writePos \div floatsPerBuffer
    /\ bufLocks[dataBuf'] = "free"
    /\ bufLocks' = [bufLocks EXCEPT ![dataBuf'] = "data"]
    /\ bytesToCopy' = FrameBytes
    /\ dataPc' = "copy"
    /\ UNCHANGED <<connection, ready, writePos, display>>

(* mainReadLoop: the next slot is locked ... *)
LockSlot ==
    /\ dataPc = "loop"
    /\ dataBuf' = writePos \div floatsPerBuffer
    /\ bufLocks[dataBuf'] = "free"
    /\ bufLocks' = [bufLocks EXCEPT ![dataBuf'] = "data"]
    /\ bytesToCopy' = floatsPerBuffer
    /\ dataPc' = "copy"
    /\ UNCHANGED <<connection, ready, writePos, display>>

(* Mutant of SlotFull: the slot stays locked. *)
SlotFullKeepsLock ==
    /\ dataPc = "copy"
    /\ Arrives(bytesToCopy)
    /\ bytesToCopy' = 0
    /\ writePos' = (writePos + bytesToCopy) % bufferSize
    /\ dataPc' = "loop"
    /\ UNCHANGED <<connection, ready, dataBuf, display, bufLocks>>

(* ... and unlocked when it is full; the position wraps after the last. *)
SlotFull ==
    /\ dataPc = "copy"
    /\ Arrives(bytesToCopy)
    /\ bytesToCopy' = 0
    /\ writePos' = LET p == writePos + bytesToCopy
                   IN  IF p >= bufferSize THEN p - bufferSize ELSE p
    /\ bufLocks' = [bufLocks EXCEPT ![dataBuf] = "free"]
    /\ dataPc' = "loop"
    /\ UNCHANGED <<connection, ready, dataBuf, display>>

(* read returns -1: the process exits.  When it returns 0 the copying loop *)
(* reads again, for nothing: a step that changes nothing.                  *)
ReadFails ==
    /\ dataPc \in {"first", "copy"}
    /\ connection = "broken"
    /\ ExitProcess
-----------------------------------------------------------------------------
(* The GLUT thread: display does nothing until ready, ... *)
BeginDisplay ==
    /\ Running /\ ready /\ displayPc = "idle"
    /\ displayBuf' = readPos \div floatsPerBuffer
    /\ displayPc' = "lock"
    /\ UNCHANGED <<connection, ready, data, readPos, particle, bufLocks>>

(* Mutant of LockDisplay: the slot is rendered without its mutex. *)
LockDisplayNot ==
    /\ Running /\ displayPc = "lock"
    /\ displayPc' = "render" /\ particle' = 0
    /\ UNCHANGED <<connection, ready, data, readPos, displayBuf, bufLocks>>

(* ... locks the slot that readPos is in, ... *)
LockDisplay ==
    /\ Running /\ displayPc = "lock"
    /\ bufLocks[displayBuf] = "free"
    /\ bufLocks' = [bufLocks EXCEPT ![displayBuf] = "display"]
    /\ displayPc' = "render" /\ particle' = 0
    /\ UNCHANGED <<connection, ready, data, readPos, displayBuf>>

(* ... renders its particles, ... *)
RenderParticle ==
    /\ Running /\ displayPc = "render" /\ particle < NumParticles
    /\ particle' = particle + 1
    /\ readPos' = readPos + 4
    /\ UNCHANGED <<connection, ready, data, displayPc, displayBuf, bufLocks>>

(* Mutant of EndDisplay: the position is not wrapped when it is exactly at *)
(* the end of the buffer.                                                  *)
EndDisplayLate ==
    /\ Running /\ displayPc = "render" /\ particle = NumParticles
    /\ readPos' = IF readPos > bufferSize THEN readPos - bufferSize ELSE readPos
    /\ bufLocks' = [bufLocks EXCEPT ![displayBuf] = "free"]
    /\ displayPc' = "idle"
    /\ UNCHANGED <<connection, ready, data, particle, displayBuf>>

(* ... and unlocks it; the position wraps after the last slot. *)
EndDisplay ==
    /\ Running /\ displayPc = "render" /\ particle = NumParticles
    /\ readPos' = IF readPos >= bufferSize THEN readPos - bufferSize ELSE readPos
    /\ bufLocks' = [bufLocks EXCEPT ![displayBuf] = "free"]
    /\ displayPc' = "idle"
    /\ UNCHANGED <<connection, ready, data, particle, displayBuf>>
-----------------------------------------------------------------------------
DataStep ==
    \/ GetConnection \/ ReadNumber \/ ReadPart \/ FirstFull
    \/ LockSlot \/ SlotFull \/ ReadFails

DisplayStep == BeginDisplay \/ LockDisplay \/ RenderParticle \/ EndDisplay

Next == DataStep \/ DisplayStep \/ Disconnect

Spec == Init /\ [][Next]_vars

(* Both threads run whenever they can, and the simulation goes on sending  *)
(* while the connection is open.  The display waits for a mutex that the   *)
(* data thread frees again and again, and holds only while it fills one of *)
(* three slots: it gets it some time (SF).                                 *)
FairSpec ==
    /\ Spec
    /\ WF_vars(DataStep) /\ SF_vars(LockSlot)
    /\ WF_vars(DisplayStep) /\ SF_vars(LockDisplay)
-----------------------------------------------------------------------------
TypeOK ==
    /\ connection \in {"open", "closed", "broken"}
    /\ ready \in BOOLEAN
    /\ dataPc \in {"connect", "register", "first", "loop", "copy", "exited"}
    /\ writePos \in 0 .. bufferSize - 1
    /\ bytesToCopy \in 0 .. floatsPerBuffer
    /\ dataBuf \in Slots
    /\ displayPc \in {"idle", "lock", "render"}
    /\ readPos \in 0 .. bufferSize
    /\ particle \in 0 .. NumParticles
    /\ displayBuf \in Slots
    /\ bufLocks \in [Slots -> {"free", "data", "display"}]

(* The bytes of slot b, and those the data thread may write next. *)
SlotBytes(b) == 4 * floatsPerBuffer * b .. 4 * floatsPerBuffer * (b + 1) - 1
WriteBytes == IF dataPc \in {"first", "copy"} THEN 4 * writePos .. 4 * writePos + bytesToCopy - 1
                                              ELSE {}

(* Whatever the sizes of the reads, the data thread only writes into the   *)
(* slot it has locked, although it moves by bytes in an array of floats.   *)
WritesInSlot == dataPc = "copy" => WriteBytes \subseteq SlotBytes(dataBuf)

(* The display never renders a particle from memory that is being written, *)
(* nor one outside of the slot it has locked.                              *)
RendersQuietSlot ==
    displayPc = "render" =>
        /\ SlotBytes(displayBuf) \cap WriteBytes = {}
        /\ particle < NumParticles => 4 * readPos .. 4 * readPos + 15 \subseteq SlotBytes(displayBuf)

(* mainReadLoop says, where it calls exit: "Connection was closed: Time to *)
(* end".                                                                   *)
EndsWhenClosed == connection = "closed" ~> ~Running
=============================================================================
