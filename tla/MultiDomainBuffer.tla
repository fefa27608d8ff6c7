-------------------------- MODULE MultiDomainBuffer --------------------------
(***************************************************************************)
(* The triple buffer of simpleNBody2/src/MultiDomainBuffer.{h,cpp}.        *)
(*                                                                         *)
(* Every domain of the world calls Buffer(fBods, nIter, nDom) once per     *)
(* iteration, in the order of the iterations.  One of the three world      *)
(* buffers collects a fixed iteration ("locked"), one collects the newest  *)
(* iteration seen ("unlocked"), and one holds the last frame that was      *)
(* given to the callback ("complete").                                     *)
(*                                                                         *)
(* Buffer decides which branch it takes by reading two indices and two     *)
(* iteration numbers without the mutex, and takes the mutex afterwards:    *)
(* each of those reads is a step of its own here, and so is each write     *)
(* under the mutex that such a read can see.  The call of the callback is  *)
(* a step boundary too: the consumer may run while the caller is in it.    *)
(* A domain slot's nIter and its particle data are written together under  *)
(* the mutex, so one value stands for both.                                *)
(***************************************************************************)
EXTENDS Integers

CONSTANTS
    Domains,   \* domain numbers, 0 .. nDoms-1 in the code
    MaxIter,   \* bound: every domain buffers the iterations 0 .. MaxIter-1
    NoOne,     \* the mutex is free
    NoFrame    \* the consumer holds no frame

ASSUME DomainsAssumption == Domains # {} /\ NoOne \notin Domains
ASSUME MaxIterAssumption == MaxIter \in Nat
ASSUME NoFrameAssumption == NoFrame \notin Int

VARIABLES
    overlap,             \* the domains call from threads of their own; if not, one
                         \* call at a time, as MultiNBodyWorld::step calls
    nIter,               \* nIter[b]: pWorldBuf[b].nIter
    domIter,             \* domIter[b][d]: pWorldBuf[b].pDoms[d].nIter
    completeBuffer, iterLockedBuffer, iterUnlockedBuffer,
    callback,            \* a callback function is registered
    bufferLocked,
    guard,               \* owner of the mutex, or NoOne
    pc,                  \* where each domain's call of Buffer stands
    next,                \* next[d]: the nIter argument of d's present or next call
    idx,                 \* idx[d]: the buffer index d's call loaded without the mutex
    held,                \* index of the buffer the consumer holds, or NoFrame
    delivered            \* newest iteration given to the callback, or -1

buffers == <<nIter, domIter, completeBuffer, iterLockedBuffer, iterUnlockedBuffer>>
consumer == <<callback, bufferLocked, held, delivered>>
caller == <<pc, next, idx>>
vars == <<buffers, consumer, caller, guard>>

Buffers == 0 .. 2
-----------------------------------------------------------------------------
Init ==
    /\ overlap \in BOOLEAN
    /\ completeBuffer = 2
    /\ iterLockedBuffer = 0
    /\ iterUnlockedBuffer = 1
    /\ nIter = [b \in Buffers |-> IF b = 2 THEN -1 ELSE b]
    /\ domIter = [b \in Buffers |-> [d \in Domains |-> -1]]
    /\ callback = FALSE
    /\ bufferLocked = FALSE
    /\ guard = NoOne
    /\ pc = [d \in Domains |-> "idle"]
    /\ next = [d \in Domains |-> 0]
    /\ idx = [d \in Domains |-> 0]
    /\ held = NoFrame
    /\ delivered = -1

Goto(d, from, to) == pc[d] = from /\ pc' = [pc EXCEPT ![d] = to]

(* Buffer returns: the next call of this domain is for the next iteration. *)
Return(d, from) ==
    /\ Goto(d, from, "idle")
    /\ next' = [next EXCEPT ![d] = @ + 1]

(* isBufferComplete on the locked buffer, after slot d has been written. *)
LockedComplete == \A d \in Domains : domIter'[iterLockedBuffer][d] = nIter[iterLockedBuffer]
-----------------------------------------------------------------------------
(* Mutant of Call: one iteration too many, the loop's test is <=. *)
CallOneTooMany(d) ==
    /\ Goto(d, "idle", "testLocked")
    /\ next[d] <= MaxIter
    /\ overlap \/ \A e \in Domains : pc[e] = "idle"
    /\ idx' = [idx EXCEPT ![d] = iterLockedBuffer]
    /\ UNCHANGED <<buffers, consumer, next, guard>>

(* A call of Buffer begins and loads iterLockedBuffer, without the mutex. *)
Call(d) ==
    /\ Goto(d, "idle", "testLocked")
    /\ next[d] < MaxIter
    /\ overlap \/ \A e \in Domains : pc[e] = "idle"
    /\ idx' = [idx EXCEPT ![d] = iterLockedBuffer]
    /\ UNCHANGED <<buffers, consumer, next, guard>>

(* if(nIter == pWorldBuf[iterLockedBuffer].nIter), still without the mutex. *)
TestLocked(d) ==
    /\ Goto(d, "testLocked", IF nIter[idx[d]] = next[d] THEN "waitLocked" ELSE "loadUnlocked")
    /\ UNCHANGED <<buffers, consumer, next, idx, guard>>

(* The else branch loads iterUnlockedBuffer. *)
LoadUnlocked(d) ==
    /\ Goto(d, "loadUnlocked", "testUnlocked")
    /\ idx' = [idx EXCEPT ![d] = iterUnlockedBuffer]
    /\ UNCHANGED <<buffers, consumer, next, guard>>

(* Mutant of TestUnlocked: > for >=, so that only data which moves the     *)
(* unlocked buffer to a newer iteration is kept.                           *)
TestUnlockedStrict(d) ==
    /\ \/ /\ next[d] > nIter[idx[d]]
          /\ Goto(d, "testUnlocked", "waitUnlocked")
          /\ UNCHANGED next
       \/ /\ next[d] <= nIter[idx[d]]
          /\ Return(d, "testUnlocked")
    /\ UNCHANGED <<buffers, consumer, idx, guard>>

(* else if(nIter >= pWorldBuf[iterUnlockedBuffer].nIter): older data that  *)
(* is not for the locked iteration is ignored.                             *)
TestUnlocked(d) ==
    /\ \/ /\ next[d] >= nIter[idx[d]]
          /\ Goto(d, "testUnlocked", "waitUnlocked")
          /\ UNCHANGED next
       \/ /\ next[d] < nIter[idx[d]]
          /\ Return(d, "testUnlocked")
    /\ UNCHANGED <<buffers, consumer, idx, guard>>

(* First branch, under the mutex: store the data, and keep the mutex if    *)
(* the locked buffer is now complete.                                      *)
FillLocked(d) ==
    /\ guard = NoOne
    /\ domIter' = [domIter EXCEPT ![iterLockedBuffer][d] = next[d]]
    /\ \/ /\ LockedComplete
          /\ Goto(d, "waitLocked", "complete")
          /\ guard' = d
          /\ UNCHANGED next
       \/ /\ ~LockedComplete
          /\ Return(d, "waitLocked")
          /\ UNCHANGED guard
    /\ UNCHANGED <<nIter, completeBuffer, iterLockedBuffer, iterUnlockedBuffer, consumer, idx>>

(* Mutant of FillUnlocked: the buffer keeps its old iteration number when  *)
(* newer data is stored into it.                                           *)
FillUnlockedKeepsIter(d) ==
    /\ guard = NoOne
    /\ domIter' = [domIter EXCEPT ![iterUnlockedBuffer][d] = next[d]]
    /\ Return(d, "waitUnlocked")
    /\ UNCHANGED <<nIter, completeBuffer, iterLockedBuffer, iterUnlockedBuffer, consumer, idx, guard>>

(* Second branch, under the mutex: store the data, and move the unlocked   *)
(* buffer to this iteration if it is the newest one.                       *)
FillUnlocked(d) ==
    /\ guard = NoOne
    /\ domIter' = [domIter EXCEPT ![iterUnlockedBuffer][d] = next[d]]
    /\ nIter' = [nIter EXCEPT ![iterUnlockedBuffer] = IF next[d] > @ THEN next[d] ELSE @]
    /\ Return(d, "waitUnlocked")
    /\ UNCHANGED <<completeBuffer, iterLockedBuffer, iterUnlockedBuffer, consumer, idx, guard>>

(* Mutant of DropFrame: all three buffers rotate, as after the callback. *)
DropFrameCyclesAll(d) ==
    /\ ~callback \/ bufferLocked
    /\ Goto(d, "complete", "rotate")
    /\ completeBuffer' = iterLockedBuffer
    /\ iterLockedBuffer' = iterUnlockedBuffer
    /\ UNCHANGED <<nIter, domIter, iterUnlockedBuffer, consumer, next, idx, guard>>

(* Nobody listens, or the consumer still holds a frame: the complete       *)
(* iteration is dropped, and its buffer is the one that becomes free.      *)
DropFrame(d) ==
    /\ ~callback \/ bufferLocked
    /\ Goto(d, "complete", "rotate")
    /\ iterLockedBuffer' = iterUnlockedBuffer
    /\ UNCHANGED <<nIter, domIter, completeBuffer, iterUnlockedBuffer, consumer, next, idx, guard>>

(* Mutant of InvokeCallback: it does not ask whether the consumer still    *)
(* holds the frame before.                                                 *)
InvokeCallbackAnyway(d) ==
    /\ callback
    /\ Goto(d, "complete", "callback")
    /\ bufferLocked' = TRUE
    /\ held' = iterLockedBuffer
    /\ delivered' = nIter[iterLockedBuffer]
    /\ UNCHANGED <<buffers, callback, next, idx, guard>>

(* The callback is handed the locked buffer, before the buffers rotate. *)
InvokeCallback(d) ==
    /\ callback /\ ~bufferLocked
    /\ Goto(d, "complete", "callback")
    /\ bufferLocked' = TRUE
    /\ held' = iterLockedBuffer
    /\ delivered' = nIter[iterLockedBuffer]
    /\ UNCHANGED <<buffers, callback, next, idx, guard>>

(* The callback has returned: its buffer becomes the complete one, and the *)
(* one that was complete is free.  The consumer may or may not have called *)
(* UnlockBuffer.                                                           *)
CycleBuffers(d) ==
    /\ Goto(d, "callback", "rotate")
    /\ completeBuffer' = iterLockedBuffer
    /\ iterLockedBuffer' = iterUnlockedBuffer
    /\ UNCHANGED <<nIter, domIter, iterUnlockedBuffer, consumer, next, idx, guard>>

(* iterUnlockedBuffer = tempIdx: the free buffer, in both cases.  Calls    *)
(* that read the indices without the mutex see it with its old nIter ...   *)
ReuseFree(d) ==
    /\ Goto(d, "rotate", "renumber")
    /\ iterUnlockedBuffer' \in Buffers \ {iterLockedBuffer, completeBuffer}
    /\ UNCHANGED <<nIter, domIter, completeBuffer, iterLockedBuffer, consumer, next, idx, guard>>

(* Mutant of Renumber: the buffer that becomes free keeps its iteration. *)
RenumberNothing(d) ==
    /\ Return(d, "renumber")
    /\ guard' = NoOne
    /\ UNCHANGED <<nIter, domIter, completeBuffer, iterLockedBuffer, iterUnlockedBuffer, consumer, idx>>

(* Mutant of Renumber: Buffer returns with the mutex locked. *)
RenumberKeepsGuard(d) ==
    /\ Return(d, "renumber")
    /\ nIter' = [nIter EXCEPT ![iterUnlockedBuffer] = nIter[iterLockedBuffer] + 1]
    /\ UNCHANGED <<domIter, completeBuffer, iterLockedBuffer, iterUnlockedBuffer, consumer, idx, guard>>

(* ... until it starts to collect later iterations than the locked one.    *)
(* The mutex is released and Buffer returns.                               *)
Renumber(d) ==
    /\ Return(d, "renumber")
    /\ nIter' = [nIter EXCEPT ![iterUnlockedBuffer] = nIter[iterLockedBuffer] + 1]
    /\ guard' = NoOne
    /\ UNCHANGED <<domIter, completeBuffer, iterLockedBuffer, iterUnlockedBuffer, consumer, idx>>

(* OnBufferComplete and UnlockBuffer assign without taking the mutex. *)
OnBufferComplete ==
    /\ ~callback
    /\ callback' = TRUE
    /\ UNCHANGED <<buffers, bufferLocked, held, delivered, caller, guard>>

UnlockBuffer ==
    /\ held # NoFrame
    /\ held' = NoFrame
    /\ bufferLocked' = FALSE
    /\ UNCHANGED <<buffers, callback, delivered, caller, guard>>
-----------------------------------------------------------------------------
BufferStep(d) ==
    \/ Call(d)
    \/ TestLocked(d)
    \/ LoadUnlocked(d)
    \/ TestUnlocked(d)
    \/ FillLocked(d)
    \/ FillUnlocked(d)
    \/ DropFrame(d)
    \/ InvokeCallback(d)
    \/ CycleBuffers(d)
    \/ ReuseFree(d)
    \/ Renumber(d)

Next == (\E d \in Domains : BufferStep(d)) \/ OnBufferComplete \/ UnlockBuffer

(* How the domains call does not change while they run. *)
Spec == Init /\ [][Next /\ UNCHANGED overlap]_<<vars, overlap>>

(* A thread that can run does run: the simulation loop calls Buffer until  *)
(* it has done its last iteration, and a waiting thread gets the mutex     *)
(* once it is free for good.  Nothing makes the consumer call back.        *)
FairSpec == Spec /\ \A d \in Domains : WF_vars(BufferStep(d))
-----------------------------------------------------------------------------
InSection == {"complete", "callback", "rotate", "renumber"}
Labels == {"idle", "testLocked", "loadUnlocked", "testUnlocked", "waitLocked", "waitUnlocked"}
              \cup InSection

TypeOK ==
    /\ overlap \in BOOLEAN
    /\ nIter \in [Buffers -> Int]
    /\ domIter \in [Buffers -> [Domains -> Int]]
    /\ completeBuffer \in Buffers
    /\ iterLockedBuffer \in Buffers
    /\ iterUnlockedBuffer \in Buffers
    /\ callback \in BOOLEAN
    /\ bufferLocked \in BOOLEAN
    /\ guard \in Domains \cup {NoOne}
    /\ pc \in [Domains -> Labels]
    /\ next \in [Domains -> 0 .. MaxIter]
    /\ idx \in [Domains -> Buffers]
    /\ held \in Buffers \cup {NoFrame}
    /\ delivered \in Int

(* How many iterations d has handed over: the call that completed the      *)
(* locked buffer has stored its data before it returns.                    *)
produced == [d \in Domains |-> IF pc[d] \in InSection THEN next[d] + 1 ELSE next[d]]

(* From the invocation of the callback until UnlockBuffer the consumer's   *)
(* buffer holds every domain's data of the delivered iteration: no call of *)
(* Buffer, however it interleaves, writes into it or renumbers it.         *)
HeldFrameIntact ==
    held # NoFrame =>
        /\ bufferLocked
        /\ nIter[held] = delivered
        /\ \A d \in Domains : domIter[held][d] = delivered

(* If calls do not overlap, what the locked buffer still waits for is still *)
(* to come: a domain whose slot is not filled for the locked iteration has *)
(* not passed it yet.  Otherwise that iteration never completes, and as    *)
(* only its completion moves the buffers on, no frame is ever delivered    *)
(* again.                                                                  *)
AwaitedDataToCome ==
    ~overlap => \A d \in Domains :
        produced[d] > nIter[iterLockedBuffer]
            => domIter[iterLockedBuffer][d] = nIter[iterLockedBuffer]

(* If calls do not overlap, the locked buffer is never already complete    *)
(* between two of them: some domain has yet to produce its iteration.  A   *)
(* complete buffer nobody fills any more would stay locked for ever.       *)
SomeDomainOwes ==
    ~overlap /\ guard = NoOne => \E d \in Domains : next[d] <= nIter[iterLockedBuffer]

(* The callback is invoked the next time an iteration is fully buffered:   *)
(* once it is registered and the consumer holds no frame, the iteration    *)
(* the locked buffer collects is delivered, or a newer one.                *)
NextFrameDelivered ==
    \A n \in 0 .. MaxIter - 1 :
        (callback /\ ~bufferLocked /\ nIter[iterLockedBuffer] = n) ~> (delivered >= n)

(* The same of calls that do not overlap, the only ones the program makes. *)
NextFrameDeliveredSerially ==
    \A n \in 0 .. MaxIter - 1 :
        (~overlap /\ callback /\ ~bufferLocked /\ nIter[iterLockedBuffer] = n)
            ~> (delivered >= n)

(* Every call of Buffer returns, whatever the consumer does with its frame. *)
AllIterationsBuffered == <>(\A d \in Domains : next[d] = MaxIter)

(* The buffer implements the stream of frames its header promises. *)
FS == INSTANCE FrameStream
          WITH frame <- IF held = NoFrame THEN NoFrame ELSE nIter[held]
ImplementsFrameStream == FS!Spec
=============================================================================
