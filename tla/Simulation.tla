----------------------------- MODULE Simulation -----------------------------
(***************************************************************************)
(* One process of the simulation, from end to end: the loop of             *)
(* MultiNBodyWorld::run steps the domains of its rank one after the other, *)
(* each hands its data to Buffer, and the call that completes an iteration *)
(* runs sendCallback, which sends the frame to the visualizers and unlocks *)
(* the buffer.  It composes MultiDomainBuffer and VisualizerServer: the    *)
(* main thread is in at most one of them at a time, and the visualizers    *)
(* and the registration thread go on meanwhile.                            *)
(*                                                                         *)
(* The ranks share nothing between the barriers before and after the loop, *)
(* so one of them, any one, stands for all.                                *)
(***************************************************************************)
EXTENDS Integers, Sequences

CONSTANTS
    nDoms,
    MaxProcs,       \* bound: processes that MPI may have started
    MaxIter,        \* iterations until the time limit
    Visualizers, DomainUnits, Room,     \* of VisualizerServer
    NoOne, NoFrame, NoCount, NoFD

ASSUME SimulationAssumption ==
    /\ nDoms \in Nat \ {0} /\ MaxProcs \in Nat \ {0} /\ MaxIter \in Nat
    /\ DomainUnits \in Nat \ {0} /\ Room \in Nat \ {0}
    /\ NoOne \notin Int /\ NoFrame \notin Int
    /\ NoCount \notin Nat /\ NoFD \notin Visualizers

VARIABLES
    n_proc, rank,   \* of this process
    loopPc, iter, di,
    (* MultiDomainBuffer *)
    nIter, domIter, completeBuffer, iterLockedBuffer, iterUnlockedBuffer,
    callback, bufferLocked, guard, pc, next, idx, held, delivered,
    (* VisualizerServer *)
    registeredVisualizers, visLock, numParticlesPerWorld, mainPc, frame, dom, i, sent,
    regPc, connectFD, fd, backlog, alive, told, acked, unread, stream

Doms == 0 .. nDoms - 1

Buf == INSTANCE MultiDomainBuffer WITH Domains <- Doms, overlap <- FALSE
Srv == INSTANCE VisualizerServer WITH NumDomains <- nDoms, Frames <- MaxIter

process == <<n_proc, rank>>
loop == <<loopPc, iter, di>>
buffer == <<nIter, domIter, completeBuffer, iterLockedBuffer, iterUnlockedBuffer,
            callback, bufferLocked, guard, pc, next, idx, held, delivered>>
sockets == <<fd, backlog, alive, told, acked, unread, stream>>
others == <<registeredVisualizers, visLock, numParticlesPerWorld, frame, dom, i, sent,
            regPc, connectFD, sockets>>
server == <<mainPc, others>>
vars == <<process, loop, buffer, server>>
-----------------------------------------------------------------------------
(* init distributes the domains over the ranks. *)
Active(d) == d % n_proc = rank
OwnsAll == \A d \in Doms : Active(d)

Init ==
    /\ n_proc \in 1 .. MaxProcs /\ rank \in 0 .. n_proc - 1
    /\ loopPc = "domain" /\ iter = 0 /\ di = 0
    /\ Buf!Init /\ Srv!Init

Startup ==
    /\ Srv!Startup /\ Buf!OnBufferComplete
    /\ UNCHANGED <<process, loop>>

(* while(time<tlim), with the time counted in steps *)
Goes == iter < MaxIter

(* A domain is stepped if it is active, and calls Buffer; ... *)
StepDomain ==
    /\ mainPc = "running" /\ loopPc = "domain" /\ Goes /\ di < nDoms
    /\ \/ /\ Active(di)
          /\ Buf!Call(di)
          /\ loopPc' = "call" /\ UNCHANGED di
       \/ /\ ~Active(di)
          /\ di' = di + 1 /\ UNCHANGED <<loopPc, buffer>>
    /\ UNCHANGED <<process, iter, server>>

(* ... the call goes on by itself, ... *)
InBuffer ==
    /\ loopPc = "call" /\ mainPc = "running"
    /\ \/ Buf!TestLocked(di) \/ Buf!LoadUnlocked(di) \/ Buf!TestUnlocked(di)
       \/ Buf!FillLocked(di) \/ Buf!FillUnlocked(di) \/ Buf!DropFrame(di)
       \/ Buf!CycleBuffers(di) \/ Buf!ReuseFree(di) \/ Buf!Renumber(di)
    /\ UNCHANGED <<process, loop, server>>

(* ... or into sendCallback, ... *)
EnterCallback ==
    /\ loopPc = "call"
    /\ Buf!InvokeCallback(di) /\ Srv!CompleteFrame
    /\ UNCHANGED <<process, loop>>

InCallback ==
    /\ Srv!LockVisualizers \/ Srv!Send \/ Srv!SendFailed
    /\ UNCHANGED <<process, loop, buffer>>

(* Mutant of NextDomain: sendCallback does not call UnlockBuffer. *)
NextDomainKeepsBuffer ==
    /\ Srv!NextDomain
    /\ UNCHANGED <<process, loop, buffer>>

(* Mutant of NextDomain: sendCallback calls UnlockBuffer in its loop. *)
NextDomainUnlocks ==
    /\ Srv!NextDomain
    /\ IF held # NoFrame THEN Buf!UnlockBuffer ELSE UNCHANGED buffer
    /\ UNCHANGED <<process, loop>>

(* ... which unlocks the buffer after the last domain; ... *)
NextDomain ==
    /\ Srv!NextDomain
    /\ IF mainPc' = "running" THEN Buf!UnlockBuffer ELSE UNCHANGED buffer
    /\ UNCHANGED <<process, loop>>

(* Mutants of Returned: the domain is counted twice; the last one is left  *)
(* out.                                                                    *)
ReturnedTwice ==
    /\ loopPc = "call" /\ pc[di] = "idle"
    /\ loopPc' = "domain" /\ di' = di + 2
    /\ UNCHANGED <<process, iter, buffer, server>>

ReturnedEarly ==
    /\ loopPc = "call" /\ pc[di] = "idle"
    /\ loopPc' = "domain" /\ di' = IF di + 2 = nDoms THEN nDoms ELSE di + 1
    /\ UNCHANGED <<process, iter, buffer, server>>

(* ... and when Buffer returns it is the turn of the next domain. *)
Returned ==
    /\ loopPc = "call" /\ pc[di] = "idle"
    /\ loopPc' = "domain" /\ di' = di + 1
    /\ UNCHANGED <<process, iter, buffer, server>>

NextIteration ==
    /\ loopPc = "domain" /\ di = nDoms
    /\ iter' = iter + 1 /\ di' = 0
    /\ UNCHANGED <<process, loopPc, buffer, server>>

(* The time limit is reached: main returns. *)
Exit ==
    /\ mainPc = "running" /\ loopPc = "domain" /\ di = 0 /\ ~Goes
    /\ mainPc' = "exited"
    /\ UNCHANGED <<process, loop, buffer, others>>

(* The other thread, and the other processes *)
Registration == Srv!RegistrationStep /\ UNCHANGED <<process, loop, buffer>>
Visualizer(v) == Srv!VisualizerStep(v) /\ UNCHANGED <<process, loop, buffer>>
Reader(v) == Srv!ReadData(v) /\ UNCHANGED <<process, loop, buffer>>
-----------------------------------------------------------------------------
MainStep ==
    \/ Startup \/ StepDomain \/ InBuffer \/ EnterCallback \/ InCallback
    \/ NextDomain \/ Returned \/ NextIteration \/ Exit

Next == MainStep \/ Registration \/ \E v \in Visualizers : Visualizer(v)

Spec == Init /\ [][Next]_vars

(* The two threads run whenever they can.  A visualizer that has not gone  *)
(* away reads what it is sent (PV's mainReadLoop does nothing else), but   *)
(* nothing makes it connect, answer or leave.                              *)
FairSpec ==
    /\ Spec
    /\ WF_vars(MainStep) /\ WF_vars(Registration)
    /\ \A v \in Visualizers : WF_vars(Reader(v))
-----------------------------------------------------------------------------
TypeOK ==
    /\ n_proc \in 1 .. MaxProcs /\ rank \in 0 .. n_proc - 1
    /\ loopPc \in {"domain", "call"} /\ iter \in 0 .. MaxIter /\ di \in 0 .. nDoms
    /\ Buf!TypeOK /\ Srv!TypeOK

(* A rank that owns all domains has sent every iteration when the next one *)
(* starts: no frame is dropped and none is late, however often a           *)
(* visualizer comes, goes or makes it wait.  Any other rank never sends a  *)
(* frame, since its buffer waits for data of domains that are elsewhere.   *)
FramesInTime ==
    (mainPc = "running" /\ loopPc = "domain" /\ di = 0) =>
        /\ delivered = IF OwnsAll THEN iter - 1 ELSE -1
        /\ frame = delivered
        /\ held = NoFrame

(* While a frame is being sent, however long the visualizers make it last, *)
(* the buffer it is sent from is held and has the data of every domain, of *)
(* the iteration that the world is in.                                     *)
SendsHeldFrame ==
    mainPc \in {"lock", "send"} =>
        /\ held # NoFrame
        /\ frame = iter
        /\ \A d \in Doms : domIter[held][d] = iter

(* What VisualizerServer leaves open, when a frame is completed and when   *)
(* the simulation exits, is as it says: a rank that owns all domains       *)
(* implements it.                                                          *)
ImplementsServer ==
    /\ OwnsAll => Srv!Init
    /\ [][OwnsAll => Srv!Next]_(server)

(* The simulation gets through all its iterations, with the two locks and  *)
(* the blocking sends, as long as the visualizers that stay go on reading. *)
SimulationEnds == <>(mainPc = "exited")
=============================================================================
