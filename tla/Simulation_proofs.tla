------------------------- MODULE Simulation_proofs -------------------------
(***************************************************************************)
(* Proofs about Simulation, for any number of domains and processes.  They *)
(* use what is proved of its two components: each step of the process is a *)
(* step of MultiDomainBuffer, where calls do not overlap, and, but for the *)
(* end of the process, one of VisualizerServer.                            *)
(***************************************************************************)
EXTENDS Simulation, TLAPS

BufP == INSTANCE MultiDomainBuffer_proofs WITH Domains <- Doms, overlap <- FALSE
SrvP == INSTANCE VisualizerServer_proofs WITH NumDomains <- nDoms, Frames <- MaxIter

(* The assumptions of the two components *)
LEMMA ComponentAssumptions ==
    /\ BufP!DomainsAssumption /\ BufP!MaxIterAssumption
    /\ BufP!NoFrameAssumption
    /\ SrvP!NumDomainsAssumption /\ SrvP!UnitsAssumption
    /\ SrvP!FramesAssumption /\ SrvP!NoFDAssumption
BY SimulationAssumption, SMT
DEF Doms, BufP!DomainsAssumption, BufP!MaxIterAssumption,
    BufP!NoFrameAssumption, SrvP!NumDomainsAssumption, SrvP!UnitsAssumption,
    SrvP!FramesAssumption, SrvP!NoFDAssumption

(* What Simulation instantiates is what the proofs are about. *)
LEMMA SameBufferStep ==
    ASSUME NEW d \in Doms, Buf!BufferStep(d)
    PROVE  BufP!BufferStep(d)
BY Zenon
DEF Buf!BufferStep, BufP!BufferStep, Buf!Call, BufP!Call, Buf!TestLocked, BufP!TestLocked,
    Buf!LoadUnlocked, BufP!LoadUnlocked, Buf!TestUnlocked, BufP!TestUnlocked,
    Buf!FillLocked, BufP!FillLocked, Buf!FillUnlocked, BufP!FillUnlocked,
    Buf!DropFrame, BufP!DropFrame, Buf!InvokeCallback, BufP!InvokeCallback,
    Buf!CycleBuffers, BufP!CycleBuffers, Buf!ReuseFree, BufP!ReuseFree,
    Buf!Renumber, BufP!Renumber, Buf!Goto, BufP!Goto, Buf!Return, BufP!Return,
    Buf!LockedComplete, BufP!LockedComplete, Buf!buffers, BufP!buffers,
    Buf!consumer, BufP!consumer, Buf!Buffers, BufP!Buffers

LEMMA SameServerStep ==
    ASSUME Srv!MainStep \/ Srv!RegistrationStep \/ \E v \in Visualizers : Srv!VisualizerStep(v)
    PROVE  SrvP!Next
<1> USE DEF Srv!lists, SrvP!lists, Srv!main, SrvP!main, Srv!registration, SrvP!registration,
            Srv!sockets, SrvP!sockets, Srv!FrameUnits, SrvP!FrameUnits, Srv!Up, SrvP!Up
<1>1. Srv!Startup \/ Srv!CompleteFrame \/ Srv!LockVisualizers \/ Srv!NextDomain \/ Srv!Exit
         => SrvP!MainStep
    BY Zenon DEF SrvP!MainStep, Srv!Startup, SrvP!Startup, Srv!CompleteFrame, SrvP!CompleteFrame,
        Srv!LockVisualizers, SrvP!LockVisualizers, Srv!NextDomain, SrvP!NextDomain,
        Srv!Exit, SrvP!Exit
<1>2. Srv!Send => SrvP!MainStep
    BY Zenon DEF SrvP!MainStep, Srv!Send, SrvP!Send
<1>3. Srv!SendFailed => SrvP!MainStep
    BY Zenon DEF SrvP!MainStep, Srv!SendFailed, SrvP!SendFailed, Srv!RemoveAt, SrvP!RemoveAt
<1>4. Srv!RegistrationStep => SrvP!RegistrationStep
    BY Zenon DEF Srv!RegistrationStep, SrvP!RegistrationStep, Srv!Accept, SrvP!Accept,
        Srv!SendCount, SrvP!SendCount, Srv!ReadAck, SrvP!ReadAck,
        Srv!Register, SrvP!Register, Srv!GiveUp, SrvP!GiveUp
<1>5. ASSUME NEW v \in Visualizers, Srv!VisualizerStep(v) PROVE SrvP!VisualizerStep(v)
    BY <1>5, Zenon DEF Srv!VisualizerStep, SrvP!VisualizerStep, Srv!Connect, SrvP!Connect,
        Srv!SendAck, SrvP!SendAck, Srv!ReadData, SrvP!ReadData, Srv!Leave, SrvP!Leave,
        Srv!ToSet, SrvP!ToSet
<1> QED BY <1>1, <1>2, <1>3, <1>4, <1>5 DEF SrvP!Next, Srv!MainStep

LEMMA SameServerTypes == SrvP!TypeOK => Srv!TypeOK
BY Zenon DEF Srv!TypeOK, SrvP!TypeOK, Srv!FrameUnits, SrvP!FrameUnits

LEMMA SameBufferTypes == BufP!TypeOK => Buf!TypeOK
BY Zenon DEF Buf!TypeOK, BufP!TypeOK, Buf!Buffers, BufP!Buffers, Buf!Labels, BufP!Labels,
             Buf!InSection, BufP!InSection

LEMMA SameInit == Init => BufP!Init /\ SrvP!Init
BY Zenon DEF Init, Buf!Init, BufP!Init, Srv!Init, SrvP!Init, Buf!Buffers, BufP!Buffers
-----------------------------------------------------------------------------
LoopTypes ==
    /\ n_proc \in 1 .. MaxProcs /\ rank \in 0 .. n_proc - 1
    /\ loopPc \in {"domain", "call"} /\ iter \in 0 .. MaxIter /\ di \in 0 .. nDoms

(* Only the domain whose turn it is is in a call, and each active domain   *)
(* has done the calls of this iteration or those of the one before.        *)
CallPlace ==
    /\ \A d \in Doms : pc[d] # "idle" => loopPc = "call" /\ d = di
    /\ loopPc = "call" => di \in Doms /\ Active(di)
    /\ loopPc = "call" \/ di > 0 => iter < MaxIter
    /\ \A d \in Doms : next[d] =
          IF ~Active(d) THEN 0
          ELSE IF d < di \/ (d = di /\ loopPc = "call" /\ pc[d] = "idle") THEN iter + 1
          ELSE iter

(* The main thread is in sendCallback only from inside a call. *)
InsideCall ==
    /\ mainPc \in {"startup", "exited"} => loopPc = "domain"
    /\ mainPc # "startup" => callback
    /\ mainPc \in {"lock", "send"} => loopPc = "call" /\ pc[di] = "callback"

Section == {"complete", "callback", "rotate", "renumber"}

(* All domains have handed over this iteration, and the buffer has moved   *)
(* on to the next one.                                                     *)
Finished == di = nDoms \/ (di + 1 = nDoms /\ loopPc = "call" /\ pc[di] = "idle")

Collecting(n) ==
    /\ nIter[iterLockedBuffer] = n /\ nIter[iterUnlockedBuffer] = n + 1
    /\ delivered = n - 1 /\ held = NoFrame

(* A rank that owns all domains: between the calls, and in those that do   *)
(* not complete the iteration, the buffer collects the iteration of the    *)
(* world; the call of the last domain completes it.                        *)
InTime == OwnsAll =>
    /\ \A d \in Doms : pc[d] \in {"idle", "testLocked", "waitLocked"} \cup Section
    /\ \A d \in Doms : pc[d] \in Section => d + 1 = nDoms
    /\ (\A d \in Doms : pc[d] \notin Section) => Collecting(IF Finished THEN iter + 1 ELSE iter)
    /\ \A d \in Doms :
          /\ pc[d] = "complete" => Collecting(iter)
          /\ pc[d] = "callback" =>
                /\ nIter[iterLockedBuffer] = iter /\ nIter[iterUnlockedBuffer] = iter + 1
                /\ delivered = iter
                /\ mainPc = "running" => held = NoFrame
                /\ mainPc \in {"lock", "send"} => held = iterLockedBuffer
          /\ pc[d] \in {"rotate", "renumber"} =>
                nIter[iterLockedBuffer] = iter + 1 /\ delivered = iter /\ held = NoFrame
    /\ frame = delivered

(* A rank that does not own all domains completes no iteration. *)
Incomplete == ~OwnsAll =>
    /\ \A d \in Doms : pc[d] \notin Section
    /\ delivered = -1 /\ frame = -1 /\ held = NoFrame

ComponentInv == BufP!TypeInv /\ BufP!BufferInv /\ BufP!SerialInv /\ SrvP!ServerInv
LoopInv == LoopTypes /\ CallPlace /\ InsideCall /\ InTime /\ Incomplete
SimInv == ComponentInv /\ LoopInv
-----------------------------------------------------------------------------
(* The views of a step of the process *)
LEMMA BufferView ==
    ASSUME LoopTypes, CallPlace, Next
    PROVE  [BufP!Next]_(BufP!vars)
<1> USE SimulationAssumption
<1>1. ASSUME NEW d \in Doms, Buf!BufferStep(d) PROVE BufP!Next
    BY <1>1, SameBufferStep DEF BufP!Next
<1>2. UNCHANGED buffer => UNCHANGED BufP!vars
    BY DEF buffer, BufP!vars, BufP!buffers, BufP!consumer, BufP!caller
<1>3. Buf!OnBufferComplete => BufP!Next
    BY DEF Buf!OnBufferComplete, BufP!OnBufferComplete, BufP!Next, Buf!buffers, BufP!buffers,
           Buf!caller, BufP!caller
<1>4. Buf!UnlockBuffer => BufP!Next
    BY DEF Buf!UnlockBuffer, BufP!UnlockBuffer, BufP!Next, Buf!buffers, BufP!buffers,
           Buf!caller, BufP!caller
<1>5. CASE Startup
    BY <1>5, <1>3 DEF Startup
<1>6. CASE StepDomain
    <2>1. di \in Doms
        BY <1>6, SMT DEF StepDomain, LoopTypes, Doms
    <2> QED BY <1>6, <2>1, <1>1, <1>2 DEF StepDomain, Buf!BufferStep
<1>7. CASE InBuffer \/ EnterCallback
    <2>1. di \in Doms
        BY <1>7 DEF InBuffer, EnterCallback, CallPlace
    <2> QED BY <1>7, <2>1, <1>1 DEF InBuffer, EnterCallback, Buf!BufferStep
<1>8. CASE NextDomain
    BY <1>8, <1>2, <1>4 DEF NextDomain
<1>9. CASE InCallback \/ Returned \/ NextIteration \/ Exit \/ Registration
              \/ \E v \in Visualizers : Visualizer(v)
    BY <1>9, <1>2 DEF InCallback, Returned, NextIteration, Exit, Registration, Visualizer
<1> QED BY <1>5, <1>6, <1>7, <1>8, <1>9 DEF Next, MainStep

LEMMA ServerView ==
    ASSUME Next
    PROVE  SrvP!Next \/ UNCHANGED server \/ Exit
<1>1. CASE Startup \/ EnterCallback \/ InCallback \/ NextDomain
    BY <1>1, SameServerStep DEF Startup, EnterCallback, InCallback, NextDomain, Srv!MainStep
<1>2. CASE Registration \/ \E v \in Visualizers : Visualizer(v)
    BY <1>2, SameServerStep DEF Registration, Visualizer
<1>3. CASE StepDomain \/ InBuffer \/ Returned \/ NextIteration
    BY <1>3 DEF StepDomain, InBuffer, Returned, NextIteration
<1> QED BY <1>1, <1>2, <1>3 DEF Next, MainStep

(* The process may end before it has completed all frames, which the       *)
(* server does not mind.                                                   *)
LEMMA ExitKeepsServer == ASSUME SrvP!ServerInv, Exit PROVE SrvP!ServerInv'
<1>1. /\ mainPc = "running" /\ mainPc' = "exited"
      /\ UNCHANGED <<registeredVisualizers, visLock, numParticlesPerWorld, frame, dom, i, sent,
                     regPc, connectFD, fd, backlog, alive, told, acked, unread, stream>>
    BY DEF Exit, others, sockets
<1> USE DEF SrvP!ServerInv
<1>2. SrvP!TypeOK' /\ SrvP!LockHeld' /\ SrvP!OnePlace' /\ SrvP!NothingYet'
    BY <1>1, SMT DEF SrvP!TypeOK, SrvP!LockHeld, SrvP!OnePlace, SrvP!Listed, SrvP!NothingYet,
                SrvP!Unsent
<1>3. SrvP!UpToDate'
    BY <1>1, SMT DEF SrvP!UpToDate, SrvP!Due, SrvP!AtFrameStart
<1>4. SrvP!Sequential'
    BY <1>1 DEF SrvP!Sequential
<1> QED BY <1>2, <1>3, <1>4

LEMMA ComponentsKeep ==
    ASSUME LoopTypes, CallPlace, ComponentInv, [Next]_vars
    PROVE  ComponentInv'
<1>1. [BufP!Next]_(BufP!vars)
    BY BufferView DEF vars, buffer, BufP!vars, BufP!buffers, BufP!consumer, BufP!caller
<1>2. BufP!TypeInv'
    BY <1>1, ComponentAssumptions, BufP!TypeStep DEF ComponentInv
<1>3. BufP!BufferInv'
    BY <1>1, <1>2, ComponentAssumptions, BufP!BufferInvStep DEF ComponentInv, BufP!TypeInv
<1>4. BufP!SerialInv'
    BY <1>1, <1>3, ComponentAssumptions, BufP!SerialInvStep DEF ComponentInv, BufP!TypeInv
<1>5. SrvP!ServerInv'
    <2>1. CASE Exit
        BY <2>1, ExitKeepsServer DEF ComponentInv
    <2>2. CASE SrvP!Next \/ UNCHANGED server
        BY <2>2, ComponentAssumptions, SrvP!ServerInvNext
        DEF ComponentInv, server, others, sockets, SrvP!vars, SrvP!lists, SrvP!main,
            SrvP!registration, SrvP!sockets
    <2> QED BY <2>1, <2>2, ServerView DEF vars
<1> QED BY <1>2, <1>3, <1>4, <1>5 DEF ComponentInv
-----------------------------------------------------------------------------
(* What the loop needs to know of the types and of the buffer *)
LEMMA PlainTypes ==
    ASSUME ComponentInv
    PROVE  /\ nIter \in [0 .. 2 -> Int] /\ domIter \in [0 .. 2 -> [Doms -> Int]]
           /\ {completeBuffer, iterLockedBuffer, iterUnlockedBuffer} \subseteq 0 .. 2
           /\ pc \in [Doms -> {"idle", "testLocked", "loadUnlocked", "testUnlocked",
                               "waitLocked", "waitUnlocked"} \cup Section]
           /\ next \in [Doms -> 0 .. MaxIter] /\ delivered \in Int /\ frame \in Int
           /\ Doms \subseteq Nat
BY SMT DEF ComponentInv, BufP!TypeInv, BufP!TypeOK, BufP!Buffers, BufP!Labels, BufP!InSection,
    Section, SrvP!ServerInv, SrvP!TypeOK, Doms

LEMMA PlainFacts ==
    ASSUME ComponentInv
    PROVE  /\ bufferLocked <=> held # NoFrame
           /\ 0 <= nIter[iterLockedBuffer]
           /\ iterLockedBuffer = iterUnlockedBuffer <=> \E d \in Doms : pc[d] = "rotate"
           /\ \A d \in Doms : pc[d] = "testLocked" => idx[d] = iterLockedBuffer
           /\ \A d \in Doms : pc[d] \in {"waitLocked", "complete", "callback"}
                                  => next[d] = nIter[iterLockedBuffer]
           /\ \A d \in Doms : pc[d] = "idle" => domIter[iterLockedBuffer][d] < next[d]
           /\ \A d \in Doms : pc[d] = "idle" /\ next[d] > nIter[iterLockedBuffer]
                                  => domIter[iterLockedBuffer][d] = nIter[iterLockedBuffer]
BY DEF ComponentInv, BufP!BufferInv, BufP!SerialInv, BufP!HeldPlace, BufP!IterOrder,
       BufP!RolesDistinct, BufP!ReadsFresh, BufP!SlotProduced, BufP!AwaitedDataToCome,
       BufP!produced, BufP!InSection, BufP!TypeInv, BufP!TypeOK

LEMMA ProcessKept ==
    ASSUME UNCHANGED process
    PROVE  (\A d \in Doms : Active(d)' <=> Active(d)) /\ (OwnsAll' <=> OwnsAll)
BY DEF process, Active, OwnsAll, Doms

LEMMA SimInvInit == Init => SimInv
<1> SUFFICES ASSUME Init PROVE SimInv
    OBVIOUS
<1>1. BufP!Init /\ SrvP!Init
    BY SameInit
<1>2. ComponentInv
    BY <1>1, ComponentAssumptions, BufP!InitTypeInv, BufP!InitBufferInv, BufP!InitSerialInv,
       SrvP!ServerInvInit DEF ComponentInv
<1>3. LoopTypes /\ CallPlace /\ InsideCall
    BY <1>1, SimulationAssumption
    DEF Init, LoopTypes, CallPlace, InsideCall, BufP!Init, SrvP!Init, Doms
<1>4. InTime /\ Incomplete
    BY <1>1, SimulationAssumption
    DEF Init, InTime, Incomplete, Section, Collecting, Finished, BufP!Init, SrvP!Init, Doms,
        BufP!Buffers
<1> QED BY <1>2, <1>3, <1>4 DEF SimInv, LoopInv
-----------------------------------------------------------------------------
(* The steps of the loop itself *)
LEMMA StartupKeeps == ASSUME SimInv, Startup PROVE LoopInv'
<1>1. /\ UNCHANGED <<process, loop, nIter, iterLockedBuffer, iterUnlockedBuffer, held, delivered,
                     pc, next, frame>>
      /\ mainPc = "startup" /\ mainPc' = "running" /\ callback'
    BY DEF Startup, Srv!Startup, Buf!OnBufferComplete, Buf!buffers, Buf!caller
<1>2. LoopTypes' /\ CallPlace'
    BY <1>1, ProcessKept DEF SimInv, LoopInv, LoopTypes, CallPlace, process, loop
<1>3. InsideCall'
    BY <1>1 DEF InsideCall, loop
<1>4. \A d \in Doms : pc[d] = "idle"
    BY <1>1 DEF SimInv, LoopInv, CallPlace, InsideCall
<1>5. InTime' /\ Incomplete'
    BY <1>1, <1>4, ProcessKept
    DEF SimInv, LoopInv, InTime, Incomplete, Collecting, Finished, Section, loop
<1> QED BY <1>2, <1>3, <1>5 DEF LoopInv

LEMMA StepDomainKeeps == ASSUME SimInv, StepDomain PROVE LoopInv'
<1> USE SimulationAssumption DEF SimInv
<1>1. /\ UNCHANGED <<process, iter, nIter, iterLockedBuffer, iterUnlockedBuffer, held, delivered,
                     next, frame, mainPc, callback>>
      /\ mainPc = "running" /\ loopPc = "domain" /\ iter < MaxIter /\ di < nDoms
    BY DEF StepDomain, server, others, buffer, Goes, Buf!Call, Buf!buffers, Buf!consumer
<1>2. di \in Doms /\ di \in Nat
    BY <1>1, SMT DEF LoopInv, LoopTypes, Doms
<1>3. \A d \in Doms : pc[d] = "idle"
    BY <1>1 DEF LoopInv, CallPlace
<1>4. CASE Active(di) /\ Buf!Call(di) /\ loopPc' = "call" /\ di' = di
    <2>1. pc' = [pc EXCEPT ![di] = "testLocked"]
        BY <1>4 DEF Buf!Call, Buf!Goto
    <2>2. LoopTypes'
        BY <1>1, <1>4 DEF LoopInv, LoopTypes, process
    <2>3. CallPlace'
        BY <1>1, <1>2, <1>3, <1>4, <2>1, ProcessKept, PlainTypes DEF LoopInv, CallPlace
    <2>4. InsideCall'
        BY <1>1, <1>4 DEF LoopInv, InsideCall
    <2>5. \A d \in Doms : pc'[d] \in {"idle", "testLocked"}
        BY <1>3, <2>1, PlainTypes
    <2>6. ~Finished /\ ~Finished'
        BY <1>1, <1>2, <1>3, <1>4, <2>1, PlainTypes DEF Finished, Doms
    <2>7. InTime' /\ Incomplete'
        BY <1>1, <1>3, <2>5, <2>6, ProcessKept
        DEF LoopInv, InTime, Incomplete, Collecting, Section
    <2> QED BY <2>2, <2>3, <2>4, <2>7 DEF LoopInv
<1>5. CASE ~Active(di) /\ di' = di + 1 /\ UNCHANGED <<loopPc, buffer>>
    <2>1. ~OwnsAll /\ pc' = pc
        BY <1>2, <1>5 DEF OwnsAll, buffer
    <2>2. LoopTypes'
        BY <1>1, <1>5 DEF LoopInv, LoopTypes, process
    <2>3. CallPlace'
        BY <1>1, <1>2, <1>3, <1>5, <2>1, ProcessKept, PlainTypes DEF LoopInv, CallPlace
    <2>4. InsideCall'
        BY <1>1, <1>5 DEF LoopInv, InsideCall
    <2>5. InTime' /\ Incomplete'
        BY <1>1, <2>1, ProcessKept DEF LoopInv, InTime, Incomplete
    <2> QED BY <2>2, <2>3, <2>4, <2>5 DEF LoopInv
<1> QED BY <1>4, <1>5 DEF StepDomain

LEMMA ReturnedKeeps == ASSUME SimInv, Returned PROVE LoopInv'
<1> USE SimulationAssumption DEF SimInv
<1>1. /\ UNCHANGED <<process, iter, nIter, iterLockedBuffer, iterUnlockedBuffer, held, delivered,
                     pc, next, frame, mainPc, callback>>
      /\ loopPc = "call" /\ loopPc' = "domain" /\ di' = di + 1 /\ pc[di] = "idle"
    BY DEF Returned, server, others, buffer
<1>2. di \in Doms /\ di \in Nat /\ di < nDoms /\ iter < MaxIter
    BY <1>1, SMT DEF LoopInv, CallPlace, Doms
<1>3. \A d \in Doms : pc[d] = "idle"
    BY <1>1 DEF LoopInv, CallPlace
<1>4. LoopTypes'
    BY <1>1, <1>2 DEF LoopInv, LoopTypes, process
<1>5. CallPlace'
    BY <1>1, <1>2, <1>3, ProcessKept, PlainTypes DEF LoopInv, CallPlace
<1>6. InsideCall'
    BY <1>1, <1>2 DEF LoopInv, InsideCall
<1>7. Finished' <=> Finished
    BY <1>1, <1>2 DEF Finished
<1>8. InTime' /\ Incomplete'
    BY <1>1, <1>3, <1>7, ProcessKept DEF LoopInv, InTime, Incomplete, Collecting, Section
<1> QED BY <1>4, <1>5, <1>6, <1>8 DEF LoopInv

LEMMA NextIterationKeeps == ASSUME SimInv, NextIteration PROVE LoopInv'
<1> USE SimulationAssumption DEF SimInv
<1>1. /\ UNCHANGED <<process, loopPc, nIter, iterLockedBuffer, iterUnlockedBuffer, held, delivered,
                     pc, next, frame, mainPc, callback>>
      /\ loopPc = "domain" /\ di = nDoms /\ iter' = iter + 1 /\ di' = 0
    BY DEF NextIteration, server, others, buffer
<1>2. iter < MaxIter /\ iter \in Nat
    BY <1>1 DEF LoopInv, CallPlace, LoopTypes
<1>3. \A d \in Doms : pc[d] = "idle"
    BY <1>1 DEF LoopInv, CallPlace
<1>4. LoopTypes'
    BY <1>1, <1>2 DEF LoopInv, LoopTypes, process
<1>5. CallPlace'
    <2>1. \A d \in Doms : d < nDoms /\ ~(d < 0)
        BY SMT DEF Doms
    <2> QED BY <1>1, <1>2, <1>3, <2>1, ProcessKept DEF LoopInv, CallPlace
<1>6. InsideCall'
    BY <1>1 DEF LoopInv, InsideCall
<1>7. Finished /\ ~Finished'
    BY <1>1 DEF Finished
<1>8. InTime' /\ Incomplete'
    BY <1>1, <1>3, <1>7, ProcessKept DEF LoopInv, InTime, Incomplete, Collecting, Section
<1> QED BY <1>4, <1>5, <1>6, <1>8 DEF LoopInv

(* The steps that leave the loop and the buffer alone *)
LEMMA AsideKeeps ==
    ASSUME SimInv, UNCHANGED <<process, loop, buffer, frame>>,
           \/ UNCHANGED mainPc
           \/ mainPc = "lock" /\ mainPc' = "send"
           \/ mainPc = "running" /\ mainPc' = "exited" /\ loopPc = "domain"
    PROVE  LoopInv'
<1> USE DEF SimInv, loop, buffer
<1>1. LoopTypes' /\ CallPlace'
    BY ProcessKept DEF LoopInv, LoopTypes, CallPlace, process
<1>2. InsideCall'
    BY DEF LoopInv, InsideCall
<1>3. /\ mainPc' = "running" => mainPc = "running"
      /\ mainPc' \in {"lock", "send"} => mainPc \in {"lock", "send"}
    OBVIOUS
<1>4. InTime' /\ Incomplete'
    BY <1>3, ProcessKept DEF LoopInv, InTime, Incomplete, Collecting, Finished, Section
<1> QED BY <1>1, <1>2, <1>4 DEF LoopInv
-----------------------------------------------------------------------------
(* The steps of a call.  What they have in common: *)
CallStep ==
    /\ UNCHANGED <<process, loop>>
    /\ loopPc = "call"
    /\ \A d \in Doms \ {di} : pc[d] = "idle" /\ pc'[d] = "idle" /\ next'[d] = next[d]
    /\ \/ pc'[di] # "idle" /\ next'[di] = next[di]
       \/ pc'[di] = "idle" /\ next'[di] = next[di] + 1

LEMMA CallStepKeeps ==
    ASSUME SimInv, CallStep, pc[di] # "idle"
    PROVE  /\ LoopTypes' /\ CallPlace'
           /\ di \in Doms /\ di \in Nat /\ next[di] = iter /\ iter \in Nat
           /\ Finished' <=> (di + 1 = nDoms /\ pc'[di] = "idle")
<1> USE SimulationAssumption DEF SimInv, CallStep, loop
<1>1. di \in Doms /\ di \in Nat /\ di < nDoms /\ Active(di) /\ iter \in Nat /\ iter < MaxIter
    BY SMT DEF LoopInv, CallPlace, LoopTypes, Doms
<1>2. next[di] = iter
    BY <1>1 DEF LoopInv, CallPlace
<1>3. LoopTypes'
    BY DEF LoopInv, LoopTypes, process
<1>4. CallPlace'
    BY <1>1, <1>2, ProcessKept, PlainTypes DEF LoopInv, CallPlace
<1>5. Finished' <=> (di + 1 = nDoms /\ pc'[di] = "idle")
    BY <1>1 DEF Finished
<1> QED BY <1>1, <1>2, <1>3, <1>4, <1>5

(* A rank that does not own all domains never completes its buffer: the    *)
(* slot of a domain that is elsewhere is never filled.                     *)
LEMMA NeverComplete ==
    ASSUME SimInv, ~OwnsAll, loopPc = "call"
    PROVE  \E d \in Doms \ {di} : domIter[iterLockedBuffer][d] # nIter[iterLockedBuffer]
<1>1. PICK d \in Doms : ~Active(d)
    BY DEF OwnsAll
<1>2. d # di /\ pc[d] = "idle" /\ next[d] = 0
    BY <1>1 DEF SimInv, LoopInv, CallPlace
<1>3. domIter[iterLockedBuffer][d] < 0 /\ 0 <= nIter[iterLockedBuffer]
    BY <1>1, <1>2, PlainFacts DEF SimInv
<1>4. domIter[iterLockedBuffer][d] \in Int /\ nIter[iterLockedBuffer] \in Int
    BY <1>1, PlainTypes DEF SimInv
<1> QED BY <1>2, <1>3, <1>4, SMT

(* The rank that owns all of them completes it in the call of the last one. *)
LEMMA CompleteAtLast ==
    ASSUME SimInv, OwnsAll, loopPc = "call", pc[di] = "waitLocked",
           nIter[iterLockedBuffer] = iter
    PROVE  (\A d \in Doms \ {di} : domIter[iterLockedBuffer][d] = iter) <=> di + 1 = nDoms
<1> USE SimulationAssumption DEF SimInv
<1>1. di \in Doms /\ di \in Nat /\ di < nDoms /\ iter \in Nat
    BY SMT DEF LoopInv, CallPlace, LoopTypes, Doms
<1>2. \A d \in Doms \ {di} : pc[d] = "idle" /\ Active(d)
    BY DEF LoopInv, CallPlace, OwnsAll
<1>3. ASSUME NEW d \in Doms \ {di}, d < di PROVE domIter[iterLockedBuffer][d] = iter
    <2>1. next[d] = iter + 1
        BY <1>1, <1>2, <1>3 DEF LoopInv, CallPlace
    <2> QED BY <1>1, <1>2, <2>1, PlainFacts
<1>4. ASSUME di + 1 # nDoms PROVE \E d \in Doms \ {di} : domIter[iterLockedBuffer][d] # iter
    <2>1. di + 1 \in Doms \ {di}
        BY <1>1, <1>4, SMT DEF Doms
    <2>2. next[di + 1] = iter
        BY <1>1, <1>2, <2>1, SMT DEF LoopInv, CallPlace
    <2>3. domIter[iterLockedBuffer][di + 1] < iter
        BY <1>2, <2>1, <2>2, PlainFacts
    <2> QED BY <1>1, <2>1, <2>3, PlainTypes
<1>5. ASSUME di + 1 = nDoms, NEW d \in Doms \ {di} PROVE d < di
    BY <1>1, <1>5, SMT DEF Doms
<1> QED BY <1>3, <1>4, <1>5

(* A rank that does not own all domains never comes to where a frame is    *)
(* dropped or delivered.                                                   *)
LEMMA IncompleteKept ==
    ASSUME SimInv, CallStep, UNCHANGED <<held, delivered, frame>>, ~OwnsAll,
           di \in Doms, pc'[di] \notin Section
    PROVE  InTime' /\ Incomplete'
<1>1. ~OwnsAll' /\ di' = di
    BY ProcessKept DEF CallStep, loop
<1>2. \A d \in Doms : pc'[d] \notin Section
    BY <1>1 DEF CallStep, Section
<1> QED BY <1>1, <1>2 DEF SimInv, LoopInv, InTime, Incomplete

LEMMA TestsKeep ==
    ASSUME SimInv, InBuffer,
           Buf!TestLocked(di) \/ Buf!LoadUnlocked(di) \/ Buf!TestUnlocked(di) \/ Buf!FillUnlocked(di)
    PROVE  LoopInv'
<1> USE DEF SimInv, Buf!TestLocked, Buf!LoadUnlocked, Buf!TestUnlocked, Buf!FillUnlocked,
            Buf!Goto, Buf!Return
<1>1. /\ loopPc = "call" /\ mainPc = "running"
      /\ UNCHANGED <<process, loop, frame, mainPc, callback, held, delivered,
                     iterLockedBuffer, iterUnlockedBuffer>>
    BY DEF InBuffer, server, others, Buf!buffers, Buf!consumer
<1>2. di \in Doms /\ \A d \in Doms \ {di} : pc[d] = "idle"
    BY <1>1 DEF LoopInv, CallPlace
<1>3. /\ pc[di] \in {"testLocked", "loadUnlocked", "testUnlocked", "waitUnlocked"}
      /\ pc'[di] \notin Section
      /\ CallStep
    BY <1>1, <1>2, PlainTypes, SMT DEF CallStep, Section
<1>4. /\ LoopTypes' /\ CallPlace'
      /\ Finished' <=> (di + 1 = nDoms /\ pc'[di] = "idle")
      /\ next[di] = iter
    BY <1>3, CallStepKeeps
<1>5. InsideCall'
    BY <1>1 DEF LoopInv, InsideCall, loop
<1>6. CASE ~OwnsAll
    BY <1>1, <1>2, <1>3, <1>4, <1>5, <1>6, IncompleteKept DEF LoopInv
<1>7. CASE OwnsAll
    <2>1. pc[di] = "testLocked" /\ Buf!TestLocked(di) /\ UNCHANGED nIter
        BY <1>2, <1>3, <1>7, SMT DEF LoopInv, InTime, Section, Buf!buffers
    <2>2. \A d \in Doms : pc[d] \notin Section
        BY <1>2, <2>1 DEF Section
    <2>3. ~Finished
        BY <1>1, <1>2, <2>1, SimulationAssumption, SMT DEF Finished, Doms
    <2>4. Collecting(iter)
        BY <1>7, <2>2, <2>3 DEF LoopInv, InTime
    <2>5. pc' = [pc EXCEPT ![di] = "waitLocked"]
        BY <1>2, <1>4, <2>1, <2>4, PlainFacts DEF Collecting
    <2>6. \A d \in Doms : pc'[d] \in {"idle", "waitLocked"}
        BY <1>2, <2>5, PlainTypes
    <2>7. ~Finished'
        BY <1>2, <1>4, <2>5, PlainTypes
    <2>8. Collecting(iter)' /\ iter' = iter
        BY <1>1, <2>1, <2>4 DEF Collecting, loop
    <2>9. InTime' /\ Incomplete'
        BY <1>1, <1>7, <2>6, <2>7, <2>8, ProcessKept
        DEF LoopInv, InTime, Incomplete, Section, Collecting
    <2> QED BY <1>4, <1>5, <2>9 DEF LoopInv
<1> QED BY <1>6, <1>7

LEMMA FillLockedKeeps == ASSUME SimInv, InBuffer, Buf!FillLocked(di) PROVE LoopInv'
<1> USE DEF SimInv
<1>1. /\ loopPc = "call" /\ mainPc = "running" /\ pc[di] = "waitLocked"
      /\ UNCHANGED <<process, loop, frame, mainPc, callback, held, delivered, nIter,
                     iterLockedBuffer, iterUnlockedBuffer>>
      /\ domIter' = [domIter EXCEPT ![iterLockedBuffer][di] = next[di]]
    BY DEF InBuffer, server, others, Buf!FillLocked, Buf!consumer, Buf!Goto, Buf!Return
<1>2. di \in Doms /\ \A d \in Doms \ {di} : pc[d] = "idle"
    BY <1>1 DEF LoopInv, CallPlace
<1>3. \/ /\ pc' = [pc EXCEPT ![di] = "complete"] /\ UNCHANGED next
         /\ Buf!LockedComplete
      \/ /\ pc' = [pc EXCEPT ![di] = "idle"] /\ next' = [next EXCEPT ![di] = @ + 1]
         /\ ~Buf!LockedComplete
    BY DEF Buf!FillLocked, Buf!Goto, Buf!Return
<1>4. CallStep
    BY <1>1, <1>2, <1>3, PlainTypes DEF CallStep
<1>5. /\ LoopTypes' /\ CallPlace'
      /\ Finished' <=> (di + 1 = nDoms /\ pc'[di] = "idle")
      /\ next[di] = iter /\ nIter[iterLockedBuffer] = iter
    BY <1>1, <1>2, <1>4, CallStepKeeps, PlainFacts
<1>6. InsideCall'
    BY <1>1 DEF LoopInv, InsideCall, loop
<1>7. Buf!LockedComplete <=> \A d \in Doms \ {di} : domIter[iterLockedBuffer][d] = iter
    <2>1. domIter'[iterLockedBuffer][di] = iter
        BY <1>1, <1>2, <1>5, PlainTypes
    <2>2. \A d \in Doms \ {di} : domIter'[iterLockedBuffer][d] = domIter[iterLockedBuffer][d]
        BY <1>1, <1>2, PlainTypes
    <2> QED BY <1>1, <1>2, <1>5, <2>1, <2>2 DEF Buf!LockedComplete
<1>8. CASE ~OwnsAll
    <2>1. ~Buf!LockedComplete
        BY <1>1, <1>5, <1>7, <1>8, NeverComplete
    <2>2. pc'[di] \notin Section
        BY <1>2, <1>3, <2>1, PlainTypes DEF Section
    <2> QED BY <1>1, <1>2, <1>4, <1>5, <1>6, <1>8, <2>2, IncompleteKept DEF LoopInv
<1>9. CASE OwnsAll
    <2>1. Buf!LockedComplete <=> di + 1 = nDoms
        BY <1>1, <1>5, <1>7, <1>9, CompleteAtLast
    <2>2. \A d \in Doms : pc[d] \notin Section
        BY <1>1, <1>2 DEF Section
    <2>3. ~Finished
        BY <1>1, <1>2, SimulationAssumption, SMT DEF Finished, Doms
    <2>4. Collecting(iter)' /\ iter' = iter /\ frame' = delivered'
        BY <1>1, <1>9, <2>2, <2>3 DEF LoopInv, InTime, Collecting, loop
    <2>5. CASE di + 1 = nDoms
        <3>1. \A d \in Doms : pc'[d] = IF d = di THEN "complete" ELSE "idle"
            BY <1>2, <1>3, <2>1, <2>5, PlainTypes
        <3> QED BY <1>2, <1>5, <1>6, <1>9, <2>4, <2>5, <3>1, <1>1, ProcessKept
                DEF LoopInv, InTime, Incomplete, Section
    <2>6. CASE di + 1 # nDoms
        <3>1. \A d \in Doms : pc'[d] = "idle"
            BY <1>2, <1>3, <2>1, <2>6, PlainTypes
        <3> QED BY <1>5, <1>6, <1>9, <2>4, <2>6, <3>1, <1>1, ProcessKept
                DEF LoopInv, InTime, Incomplete, Section
    <2> QED BY <2>5, <2>6
<1> QED BY <1>8, <1>9

(* From inside the section: the rank owns all domains, and only the last   *)
(* one of them is in a call.                                               *)
LEMMA InSectionFacts ==
    ASSUME SimInv, loopPc = "call", pc[di] \in Section
    PROVE  /\ di \in Doms /\ di \in Nat /\ di + 1 = nDoms /\ OwnsAll /\ frame = delivered
           /\ \A d \in Doms \ {di} : pc[d] = "idle"
<1>1. di \in Doms /\ di \in Nat /\ \A d \in Doms \ {di} : pc[d] = "idle"
    BY PlainTypes DEF SimInv, LoopInv, CallPlace
<1>2. OwnsAll
    BY <1>1 DEF SimInv, LoopInv, Incomplete
<1>3. di + 1 = nDoms /\ frame = delivered
    BY <1>1, <1>2 DEF SimInv, LoopInv, InTime
<1> QED BY <1>1, <1>2, <1>3

LEMMA DropFrameNever == ASSUME SimInv, InBuffer PROVE ~Buf!DropFrame(di)
<1> SUFFICES ASSUME Buf!DropFrame(di) PROVE FALSE
    OBVIOUS
<1>1. loopPc = "call" /\ mainPc = "running" /\ pc[di] = "complete"
    BY DEF InBuffer, Buf!DropFrame, Buf!Goto
<1>2. di \in Doms /\ OwnsAll
    BY <1>1, InSectionFacts DEF Section
<1>3. callback /\ held = NoFrame
    BY <1>1, <1>2 DEF SimInv, LoopInv, InsideCall, InTime, Collecting
<1>4. ~bufferLocked
    BY <1>3, PlainFacts DEF SimInv
<1> QED BY <1>3, <1>4 DEF Buf!DropFrame

LEMMA RotationKeeps ==
    ASSUME SimInv, InBuffer, Buf!CycleBuffers(di) \/ Buf!ReuseFree(di) \/ Buf!Renumber(di)
    PROVE  LoopInv'
<1> USE DEF SimInv, Buf!CycleBuffers, Buf!ReuseFree, Buf!Renumber, Buf!Goto, Buf!Return
<1>1. /\ loopPc = "call" /\ mainPc = "running" /\ pc[di] \in {"callback", "rotate", "renumber"}
      /\ UNCHANGED <<process, loop, frame, mainPc, callback, held, delivered>>
    BY DEF InBuffer, server, others, Buf!consumer
<1>2. /\ di \in Doms /\ di \in Nat /\ di + 1 = nDoms /\ OwnsAll /\ frame = delivered
      /\ \A d \in Doms \ {di} : pc[d] = "idle"
    BY <1>1, InSectionFacts DEF Section
<1>3. CallStep
    BY <1>1, <1>2, PlainTypes DEF CallStep
<1>4. /\ LoopTypes' /\ CallPlace'
      /\ Finished' <=> pc'[di] = "idle"
      /\ next[di] = iter /\ iter \in Nat
    BY <1>1, <1>2, <1>3, CallStepKeeps
<1>5. InsideCall'
    BY <1>1 DEF LoopInv, InsideCall, loop
<1>6. delivered = iter /\ held = NoFrame /\ iter' = iter /\ OwnsAll'
    BY <1>1, <1>2, ProcessKept DEF LoopInv, InTime, loop
<1>7. CASE Buf!CycleBuffers(di)
    <2>1. \A d \in Doms : pc'[d] = IF d = di THEN "rotate" ELSE "idle"
        BY <1>2, <1>7, PlainTypes
    <2>2. nIter'[iterLockedBuffer'] = iter + 1
        BY <1>1, <1>2, <1>7 DEF LoopInv, InTime
    <2>3. InTime' /\ Incomplete'
        BY <1>1, <1>2, <1>6, <2>1, <2>2 DEF InTime, Incomplete, Section
    <2> QED BY <1>4, <1>5, <2>3 DEF LoopInv
<1>8. CASE Buf!ReuseFree(di)
    <2>1. \A d \in Doms : pc'[d] = IF d = di THEN "renumber" ELSE "idle"
        BY <1>2, <1>8, PlainTypes
    <2>2. nIter'[iterLockedBuffer'] = iter + 1
        BY <1>1, <1>2, <1>8 DEF LoopInv, InTime
    <2>3. InTime' /\ Incomplete'
        BY <1>1, <1>2, <1>6, <2>1, <2>2 DEF InTime, Incomplete, Section
    <2> QED BY <1>4, <1>5, <2>3 DEF LoopInv
<1>9. CASE Buf!Renumber(di)
    <2>1. \A d \in Doms : pc'[d] = "idle"
        BY <1>2, <1>9, PlainTypes
    <2>2. iterLockedBuffer # iterUnlockedBuffer
        BY <1>2, <1>9, PlainFacts
    <2>3. nIter[iterLockedBuffer] = iter + 1
        BY <1>2, <1>9 DEF LoopInv, InTime
    <2>4. Collecting(iter + 1)'
        BY <1>1, <1>4, <1>6, <1>9, <2>2, <2>3, PlainTypes DEF Collecting
    <2>5. Finished'
        BY <1>2, <1>4, <2>1
    <2>6. InTime' /\ Incomplete'
        BY <1>1, <1>2, <1>6, <2>1, <2>4, <2>5 DEF InTime, Incomplete, Section, Collecting
    <2> QED BY <1>4, <1>5, <2>6 DEF LoopInv
<1> QED BY <1>7, <1>8, <1>9

LEMMA EnterCallbackKeeps == ASSUME SimInv, EnterCallback PROVE LoopInv'
<1> USE DEF SimInv
<1>1. /\ UNCHANGED <<process, loop, nIter, iterLockedBuffer, iterUnlockedBuffer, next, callback>>
      /\ loopPc = "call" /\ pc[di] = "complete" /\ pc' = [pc EXCEPT ![di] = "callback"]
      /\ delivered' = nIter[iterLockedBuffer] /\ held' = iterLockedBuffer
      /\ frame' = frame + 1 /\ mainPc' = "lock" /\ callback
    BY DEF EnterCallback, Buf!InvokeCallback, Srv!CompleteFrame, Buf!Goto, Buf!buffers
<1>2. /\ di \in Doms /\ di \in Nat /\ di + 1 = nDoms /\ OwnsAll /\ frame = delivered
      /\ \A d \in Doms \ {di} : pc[d] = "idle"
    BY <1>1, InSectionFacts DEF Section
<1>3. \A d \in Doms : pc'[d] = IF d = di THEN "callback" ELSE "idle"
    BY <1>1, <1>2, PlainTypes
<1>4. CallStep
    BY <1>1, <1>2, <1>3 DEF CallStep
<1>5. LoopTypes' /\ CallPlace' /\ iter \in Nat
    BY <1>1, <1>4, CallStepKeeps
<1>6. InsideCall'
    BY <1>1, <1>2, <1>3 DEF InsideCall, loop
<1>7. Collecting(iter) /\ iter' = iter /\ OwnsAll'
    BY <1>1, <1>2, ProcessKept DEF LoopInv, InTime, loop
<1>8. frame' = iter /\ delivered' = iter
    BY <1>1, <1>2, <1>5, <1>7 DEF Collecting
<1>9. InTime' /\ Incomplete'
    BY <1>1, <1>2, <1>3, <1>7, <1>8 DEF InTime, Incomplete, Section, Collecting
<1> QED BY <1>5, <1>6, <1>9 DEF LoopInv

LEMMA NextDomainKeeps == ASSUME SimInv, NextDomain PROVE LoopInv'
<1>1. CASE mainPc' # "running"
    <2>1. UNCHANGED <<process, loop, buffer, frame, mainPc>>
        BY <1>1, Zenon DEF NextDomain, Srv!NextDomain
    <2> QED BY <2>1, AsideKeeps
<1>2. CASE mainPc' = "running"
    <2> USE DEF SimInv
    <2>1. /\ UNCHANGED <<process, loop, nIter, iterLockedBuffer, iterUnlockedBuffer, delivered,
                         pc, next, frame, callback>>
          /\ mainPc = "send" /\ held' = NoFrame
        BY <1>2 DEF NextDomain, Srv!NextDomain, Buf!UnlockBuffer, Buf!buffers, Buf!caller
    <2>2. loopPc = "call" /\ pc[di] = "callback" /\ callback
        BY <2>1 DEF LoopInv, InsideCall
    <2>3. /\ di \in Doms /\ OwnsAll /\ frame = delivered
          /\ \A d \in Doms \ {di} : pc[d] = "idle"
        BY <2>2, InSectionFacts DEF Section
    <2>4. LoopTypes' /\ CallPlace'
        BY <2>1, ProcessKept DEF LoopInv, LoopTypes, CallPlace, process, loop
    <2>5. InsideCall'
        BY <1>2, <2>1, <2>2 DEF InsideCall, loop
    <2>6. InTime' /\ Incomplete'
        BY <1>2, <2>1, <2>2, <2>3, ProcessKept DEF LoopInv, InTime, Incomplete, Section, loop
    <2> QED BY <2>4, <2>5, <2>6 DEF LoopInv
<1> QED BY <1>1, <1>2
-----------------------------------------------------------------------------
LEMMA SimInvStep == SimInv /\ [Next]_vars => SimInv'
<1> SUFFICES ASSUME SimInv, [Next]_vars PROVE SimInv'
    OBVIOUS
<1>1. ComponentInv'
    BY ComponentsKeep DEF SimInv, LoopInv
<1>2. CASE Startup \/ StepDomain \/ Returned \/ NextIteration
    BY <1>2, StartupKeeps, StepDomainKeeps, ReturnedKeeps, NextIterationKeeps, <1>1 DEF SimInv
<1>3. CASE InBuffer
    <2>1. CASE Buf!TestLocked(di) \/ Buf!LoadUnlocked(di) \/ Buf!TestUnlocked(di)
                  \/ Buf!FillUnlocked(di)
        BY <1>3, <2>1, TestsKeep, <1>1 DEF SimInv
    <2>2. CASE Buf!FillLocked(di) \/ Buf!DropFrame(di)
        BY <1>3, <2>2, FillLockedKeeps, DropFrameNever, <1>1 DEF SimInv
    <2>3. CASE Buf!CycleBuffers(di) \/ Buf!ReuseFree(di) \/ Buf!Renumber(di)
        BY <1>3, <2>3, RotationKeeps, <1>1 DEF SimInv
    <2> QED BY <1>3, <2>1, <2>2, <2>3 DEF InBuffer
<1>4. CASE EnterCallback \/ NextDomain
    BY <1>4, EnterCallbackKeeps, NextDomainKeeps, <1>1 DEF SimInv
<1>5. CASE InCallback \/ Exit \/ Registration \/ (\E v \in Visualizers : Visualizer(v))
              \/ UNCHANGED vars
    <2>1. /\ UNCHANGED <<process, loop, buffer, frame>>
          /\ \/ UNCHANGED mainPc
             \/ mainPc = "lock" /\ mainPc' = "send"
             \/ mainPc = "running" /\ mainPc' = "exited" /\ loopPc = "domain"
        <3>1. CASE InCallback
            BY <3>1 DEF InCallback, Srv!LockVisualizers, Srv!Send, Srv!SendFailed
        <3>2. CASE Exit \/ UNCHANGED vars
            BY <3>2 DEF Exit, vars, server, others
        <3>3. CASE Registration
            BY <3>3 DEF Registration, Srv!RegistrationStep, Srv!Accept, Srv!SendCount,
                Srv!ReadAck, Srv!Register, Srv!main
        <3>4. CASE \E v \in Visualizers : Visualizer(v)
            BY <3>4 DEF Visualizer, Srv!VisualizerStep, Srv!Connect, Srv!SendAck, Srv!ReadData,
                Srv!Leave, Srv!main
        <3> QED BY <1>5, <3>1, <3>2, <3>3, <3>4
    <2> QED BY <2>1, AsideKeeps, <1>1 DEF SimInv
<1> QED BY <1>2, <1>3, <1>4, <1>5 DEF Next, MainStep

LEMMA SimInvariant == Spec => []SimInv
BY SimInvInit, SimInvStep, PTL DEF Spec

(***************************************************************************)
(* Every variable of the process keeps its type: the loop never runs past  *)
(* its last domain or iteration, and what its two components assume of     *)
(* their callers is so.                                                    *)
(***************************************************************************)
THEOREM TypeCorrect == Spec => []TypeOK
<1>1. SimInv => TypeOK
    BY SameBufferTypes, SameServerTypes
    DEF SimInv, ComponentInv, LoopInv, LoopTypes, TypeOK, BufP!TypeInv, SrvP!ServerInv
<1> QED BY SimInvariant, <1>1, PTL

(***************************************************************************)
(* When an iteration of the world starts, a rank that owns all domains has *)
(* delivered and sent the one before, and holds no frame; any other rank   *)
(* has never sent one.  However many domains, ranks and visualizers.       *)
(***************************************************************************)
THEOREM FramesInTimeSafe == Spec => []FramesInTime
<1>1. SimInv => FramesInTime
    <2> SUFFICES ASSUME SimInv, mainPc = "running", loopPc = "domain", di = 0
                 PROVE  /\ delivered = IF OwnsAll THEN iter - 1 ELSE -1
                        /\ frame = delivered
                        /\ held = NoFrame
        BY DEF FramesInTime
    <2>1. (\A d \in Doms : pc[d] = "idle") /\ ~Finished
        BY SimulationAssumption DEF SimInv, LoopInv, CallPlace, Finished
    <2>2. CASE OwnsAll
        BY <2>1, <2>2 DEF SimInv, LoopInv, InTime, Section, Collecting
    <2>3. CASE ~OwnsAll
        BY <2>3 DEF SimInv, LoopInv, Incomplete
    <2> QED BY <2>2, <2>3
<1> QED BY SimInvariant, <1>1, PTL

(***************************************************************************)
(* The buffer that a frame is sent from is held until its last domain is   *)
(* sent to the last visualizer, and has all domains' data of the iteration *)
(* of the world: what the loop, the buffer and the server each keep of it  *)
(* fits together.                                                          *)
(***************************************************************************)
THEOREM SendsHeldFrameSafe == Spec => []SendsHeldFrame
<1>1. SimInv => SendsHeldFrame
    <2> SUFFICES ASSUME SimInv, mainPc \in {"lock", "send"}
                 PROVE  /\ held # NoFrame
                        /\ frame = iter
                        /\ \A d \in Doms : domIter[held][d] = iter
        BY DEF SendsHeldFrame
    <2>1. loopPc = "call" /\ pc[di] = "callback"
        BY DEF SimInv, LoopInv, InsideCall
    <2>2. di \in Doms /\ OwnsAll /\ frame = delivered
        BY <2>1, InSectionFacts DEF Section
    <2>3. held = iterLockedBuffer /\ delivered = iter
        BY <2>1, <2>2 DEF SimInv, LoopInv, InTime
    <2>4. held # NoFrame
        BY <2>3, PlainTypes, SimulationAssumption DEF SimInv
    <2>5. \A d \in Doms : domIter[held][d] = delivered
        BY <2>4 DEF SimInv, ComponentInv, BufP!BufferInv, BufP!HeldFrameIntact
    <2> QED BY <2>2, <2>3, <2>4, <2>5
<1> QED BY SimInvariant, <1>1, PTL

(***************************************************************************)
(* Every call of Buffer is for the iteration the world is in, also those   *)
(* after a frame that took the visualizers long.                           *)
(***************************************************************************)
CallsCarryIter == \A d \in Doms : pc[d] # "idle" => next[d] = iter

THEOREM CallsCarryIterSafe == Spec => []CallsCarryIter
<1>1. SimInv => CallsCarryIter
    BY SimulationAssumption, SMT DEF SimInv, LoopInv, CallPlace, LoopTypes, CallsCarryIter, Doms
<1> QED BY SimInvariant, <1>1, PTL

(***************************************************************************)
(* A rank that owns all domains implements VisualizerServer: it completes  *)
(* the frames one by one, and all of them before it exits.                 *)
(***************************************************************************)
LEMMA ServerStep == ASSUME SimInv, [Next]_vars, OwnsAll PROVE Srv!Next \/ UNCHANGED server
<1>1. CASE Exit
    <2>1. mainPc = "running" /\ loopPc = "domain" /\ di = 0 /\ iter = MaxIter
        BY <1>1, SimulationAssumption DEF Exit, Goes, SimInv, LoopInv, LoopTypes
    <2>2. (\A d \in Doms : pc[d] = "idle") /\ ~Finished
        BY <2>1, SimulationAssumption DEF SimInv, LoopInv, CallPlace, Finished
    <2>3. frame + 1 = MaxIter
        BY <2>1, <2>2, SimulationAssumption DEF SimInv, LoopInv, InTime, Section, Collecting
    <2>4. Srv!Exit
        BY <1>1, <2>1, <2>3
        DEF Exit, Srv!Exit, others, Srv!lists, Srv!registration, Srv!sockets, sockets
    <2> QED BY <2>4 DEF Srv!Next, Srv!MainStep
<1>2. CASE Startup \/ EnterCallback \/ InCallback \/ NextDomain \/ Registration
              \/ \E v \in Visualizers : Visualizer(v)
    BY <1>2 DEF Startup, EnterCallback, InCallback, NextDomain, Registration, Visualizer,
        Srv!Next, Srv!MainStep
<1>3. CASE StepDomain \/ InBuffer \/ Returned \/ NextIteration \/ UNCHANGED vars
    BY <1>3 DEF StepDomain, InBuffer, Returned, NextIteration, vars
<1> QED BY <1>1, <1>2, <1>3 DEF Next, MainStep

THEOREM ServerRefinement == Spec => ImplementsServer
<1>1. Init => (OwnsAll => Srv!Init)
    BY DEF Init
<1>2. SimInv /\ [Next]_vars => [OwnsAll => Srv!Next]_(server)
    BY ServerStep
<1> QED BY SimInvariant, <1>1, <1>2, PTL DEF Spec, ImplementsServer

(***************************************************************************)
(* In any rank, also one that never completes a frame or that exits before *)
(* it has completed all, the visualizers get whole frames without a gap,   *)
(* the listed ones have all that was sent when the loop goes on, and the   *)
(* list has open connections only.                                         *)
(***************************************************************************)
ServerPromises == Srv!WholeFrames /\ Srv!NobodyLeftBehind /\ Srv!ListedAreOpen

THEOREM ServerSafe == Spec => []ServerPromises
<1>1. SimInv => SrvP!WholeFrames /\ SrvP!NobodyLeftBehind /\ SrvP!ListedAreOpen
    BY ComponentAssumptions, SrvP!InvWholeFrames, SrvP!InvNobodyLeftBehind, SrvP!InvListed
    DEF SimInv, ComponentInv
<1>2. SrvP!WholeFrames => Srv!WholeFrames
    BY DEF SrvP!WholeFrames, Srv!WholeFrames, SrvP!FrameUnits, Srv!FrameUnits
<1>3. SrvP!NobodyLeftBehind => Srv!NobodyLeftBehind
    BY Zenon DEF SrvP!NobodyLeftBehind, Srv!NobodyLeftBehind, SrvP!FrameUnits, Srv!FrameUnits,
        SrvP!ToSet, Srv!ToSet, SrvP!Last, Srv!Last
<1>4. SrvP!ListedAreOpen => Srv!ListedAreOpen
    BY Zenon DEF SrvP!ListedAreOpen, Srv!ListedAreOpen, SrvP!ToSet, Srv!ToSet,
        SrvP!IsInjective, Srv!IsInjective
<1>5. SimInv => ServerPromises
    BY <1>1, <1>2, <1>3, <1>4 DEF ServerPromises
<1> QED BY SimInvariant, <1>5, PTL

(***************************************************************************)
(* The process implements the stream of frames that the header of the      *)
(* buffer promises, with the loop for its producer and sendCallback for    *)
(* its consumer.                                                           *)
(***************************************************************************)
THEOREM StreamRefinement == Spec => Buf!ImplementsFrameStream
<1>1. Init => BufP!FS!Init
    BY SameInit, ComponentAssumptions
    DEF BufP!Init, BufP!FS!Init, BufP!produced, BufP!InSection, BufP!NoFrameAssumption
<1>2. SimInv /\ [Next]_vars => [BufP!FS!Next]_(BufP!FS!vars)
    <2> SUFFICES ASSUME SimInv, [Next]_vars PROVE [BufP!FS!Next]_(BufP!FS!vars)
        OBVIOUS
    <2>1. [BufP!Next]_(BufP!vars)
        BY BufferView
        DEF SimInv, LoopInv, vars, buffer, BufP!vars, BufP!buffers, BufP!consumer, BufP!caller
    <2> QED BY <2>1, ComponentAssumptions, BufP!FrameStep DEF SimInv, ComponentInv
<1>3. BufP!FS!Init => Buf!FS!Init
    BY DEF BufP!FS!Init, Buf!FS!Init, BufP!produced, Buf!produced, BufP!InSection, Buf!InSection
<1>4. [BufP!FS!Next]_(BufP!FS!vars) => [Buf!FS!Next]_(Buf!FS!vars)
    BY DEF BufP!FS!Next, Buf!FS!Next, BufP!FS!vars, Buf!FS!vars, BufP!FS!Produce, Buf!FS!Produce,
        BufP!FS!Deliver, Buf!FS!Deliver, BufP!FS!Release, Buf!FS!Release,
        BufP!produced, Buf!produced, BufP!InSection, Buf!InSection
<1>5. Init => Buf!FS!Init
    BY <1>1, <1>3
<1>6. SimInv /\ [Next]_vars => [Buf!FS!Next]_(Buf!FS!vars)
    BY <1>2, <1>4
<1> QED BY SimInvariant, <1>5, <1>6, PTL DEF Spec, Buf!ImplementsFrameStream, Buf!FS!Spec
=============================================================================
