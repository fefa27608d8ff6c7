---------------------- MODULE MultiDomainBuffer_proofs ----------------------
(***************************************************************************)
(* Proofs about the triple buffer, for every set of domains and every      *)
(* number of iterations.                                                   *)
(***************************************************************************)
EXTENDS MultiDomainBuffer, TLAPS

(* The mutex is held exactly by the call that found the buffer complete. *)
GuardOwner == \A d \in Domains : pc[d] \in InSection <=> guard = d

(* The roles are played by three different buffers, but for the moment in  *)
(* which the locked and the unlocked one are the same.                     *)
RolesDistinct ==
    /\ completeBuffer \notin {iterLockedBuffer, iterUnlockedBuffer}
    /\ iterLockedBuffer = iterUnlockedBuffer <=> \E d \in Domains : pc[d] = "rotate"

(* The call that holds the mutex has found the locked buffer complete. *)
SectionComplete ==
    \A d \in Domains : pc[d] \in {"complete", "callback"} =>
        \A e \in Domains : domIter[iterLockedBuffer][e] = nIter[iterLockedBuffer]

(* The consumer holds the complete buffer, or, while the callback runs,    *)
(* the locked one; the flag says whether it holds one.                     *)
HeldPlace ==
    /\ bufferLocked <=> held # NoFrame
    /\ \A d \in Domains : pc[d] = "callback" => held \in {iterLockedBuffer, NoFrame}
    /\ (\A d \in Domains : pc[d] # "callback") => held \in {completeBuffer, NoFrame}

(* The iterations only move forward. *)
IterOrder ==
    /\ 0 <= nIter[iterLockedBuffer]
    /\ delivered <= nIter[iterLockedBuffer]
    /\ (\A d \in Domains : pc[d] # "callback") => delivered < nIter[iterLockedBuffer]
    /\ (\A d \in Domains : pc[d] \notin {"rotate", "renumber"})
           => nIter[iterLockedBuffer] < nIter[iterUnlockedBuffer]

(* A slot only holds an iteration its domain has produced. *)
SlotProduced == \A b \in Buffers, d \in Domains : domIter[b][d] < produced[d]

(* The inductive invariant of the buffer under any interleaving of calls. *)
BufferInv ==
    /\ TypeOK
    /\ GuardOwner
    /\ RolesDistinct
    /\ SectionComplete
    /\ HeldPlace
    /\ HeldFrameIntact
    /\ IterOrder
    /\ SlotProduced
-----------------------------------------------------------------------------
(* What holds in addition when calls do not overlap: at most one call is   *)
(* under way, ...                                                          *)
OneCall == \A d, e \in Domains : pc[d] # "idle" /\ pc[e] # "idle" => d = e

(* ... so what it read without the mutex is still true when it has it, ... *)
ReadsFresh ==
    \A d \in Domains :
        /\ pc[d] = "testLocked" => idx[d] = iterLockedBuffer
        /\ pc[d] = "testUnlocked" => idx[d] = iterUnlockedBuffer
        /\ pc[d] \in {"loadUnlocked", "testUnlocked"} => next[d] # nIter[iterLockedBuffer]
        /\ pc[d] \in {"waitLocked", "complete", "callback"} => next[d] = nIter[iterLockedBuffer]
        /\ pc[d] = "waitUnlocked" => next[d] >= nIter[iterUnlockedBuffer]
        /\ pc[d] \in {"rotate", "renumber"} => next[d] < nIter[iterLockedBuffer]

(* ... and the newest iteration any domain has reached is being collected  *)
(* by the unlocked buffer, or, during the rotation, by the locked one.     *)
NewestStored ==
    LET b == IF \E d \in Domains : pc[d] = "renumber" THEN iterLockedBuffer ELSE iterUnlockedBuffer
    IN  \A d \in Domains :
            /\ produced[d] <= nIter[b] + 1
            /\ produced[d] = nIter[b] + 1 => domIter[b][d] = nIter[b]

SerialInv ==
    /\ OneCall
    /\ ReadsFresh
    /\ AwaitedDataToCome
    /\ NewestStored
    /\ SomeDomainOwes
-----------------------------------------------------------------------------
(***************************************************************************)
(* Every variable keeps its type, under any interleaving of calls.  That   *)
(* next stays within its bound needs the loop condition under which a call *)
(* was begun.                                                              *)
(***************************************************************************)
CallBelowBound == \A d \in Domains : pc[d] # "idle" => next[d] < MaxIter

TypeInv == TypeOK /\ CallBelowBound

LEMMA TypeStep == TypeInv /\ [Next]_vars /\ overlap' = overlap => TypeInv'
<1> SUFFICES ASSUME TypeInv, [Next]_vars, overlap' = overlap PROVE TypeInv'
    OBVIOUS
<1> USE MaxIterAssumption DEF TypeInv, TypeOK, CallBelowBound, Labels, InSection, Buffers,
                              buffers, consumer, caller, Goto, Return
<1>1. ASSUME NEW d \in Domains, Call(d) PROVE TypeInv'
    BY <1>1 DEF Call
<1>2. ASSUME NEW d \in Domains, TestLocked(d) PROVE TypeInv'
    BY <1>2 DEF TestLocked
<1>3. ASSUME NEW d \in Domains, LoadUnlocked(d) PROVE TypeInv'
    BY <1>3 DEF LoadUnlocked
<1>4. ASSUME NEW d \in Domains, TestUnlocked(d) PROVE TypeInv'
    BY <1>4 DEF TestUnlocked
<1>5. ASSUME NEW d \in Domains, FillLocked(d) PROVE TypeInv'
    BY <1>5 DEF FillLocked
<1>6. ASSUME NEW d \in Domains, FillUnlocked(d) PROVE TypeInv'
    BY <1>6 DEF FillUnlocked
<1>7. ASSUME NEW d \in Domains, DropFrame(d) PROVE TypeInv'
    BY <1>7 DEF DropFrame
<1>8. ASSUME NEW d \in Domains, InvokeCallback(d) PROVE TypeInv'
    BY <1>8 DEF InvokeCallback
<1>9. ASSUME NEW d \in Domains, CycleBuffers(d) PROVE TypeInv'
    BY <1>9 DEF CycleBuffers
<1>10. ASSUME NEW d \in Domains, ReuseFree(d) PROVE TypeInv'
    BY <1>10 DEF ReuseFree
<1>11. ASSUME NEW d \in Domains, Renumber(d) PROVE TypeInv'
    BY <1>11 DEF Renumber
<1>12. CASE OnBufferComplete
    BY <1>12 DEF OnBufferComplete
<1>13. CASE UnlockBuffer
    BY <1>13 DEF UnlockBuffer
<1>14. CASE UNCHANGED vars
    BY <1>14 DEF vars
<1> QED
    BY <1>1, <1>2, <1>3, <1>4, <1>5, <1>6, <1>7, <1>8, <1>9, <1>10, <1>11, <1>12, <1>13, <1>14
    DEF Next, BufferStep

LEMMA InitTypeInv == Init => TypeInv
<1> SUFFICES ASSUME Init PROVE TypeInv
    OBVIOUS
<1> USE DomainsAssumption, MaxIterAssumption, NoFrameAssumption DEF Init, Buffers
<1>1. nIter \in [Buffers -> Int] /\ domIter \in [Buffers -> [Domains -> Int]]
    OBVIOUS
<1>2. /\ {completeBuffer, iterLockedBuffer, iterUnlockedBuffer} \subseteq Buffers
      /\ idx \in [Domains -> Buffers]
    OBVIOUS
<1>3. pc \in [Domains -> Labels] /\ next \in [Domains -> 0 .. MaxIter]
    BY DEF Labels
<1>4. overlap \in BOOLEAN /\ callback \in BOOLEAN /\ bufferLocked \in BOOLEAN
    BY Zenon
<1>5. /\ guard \in Domains \cup {NoOne}
      /\ held \in Buffers \cup {NoFrame}
      /\ delivered \in Int
    OBVIOUS
<1>6. CallBelowBound
    BY DEF CallBelowBound
<1> QED
    BY <1>1, <1>2, <1>3, <1>4, <1>5, <1>6 DEF TypeInv, TypeOK

(* How the domains call does not change, and every step is one of Next. *)
LEMMA StepOfNext == [Next /\ UNCHANGED overlap]_<<vars, overlap>> => [Next]_vars /\ overlap' = overlap
BY DEF vars

THEOREM TypeCorrect == Spec => []TypeOK
<1>1. TypeInv => TypeOK
    BY DEF TypeInv
<1> QED
    BY <1>1, InitTypeInv, TypeStep, StepOfNext, PTL DEF Spec
-----------------------------------------------------------------------------
(***************************************************************************)
(* The invariant of the buffer, under any interleaving of calls.           *)
(***************************************************************************)
LEMMA BufferInvStep == BufferInv /\ TypeOK' /\ [Next]_vars => BufferInv'
<1> SUFFICES ASSUME BufferInv, TypeOK', [Next]_vars PROVE BufferInv'
    OBVIOUS
<1> USE DomainsAssumption, NoFrameAssumption
    DEF BufferInv, TypeOK, RolesDistinct, GuardOwner, SectionComplete, HeldPlace,
        HeldFrameIntact, IterOrder, SlotProduced, produced,
        Labels, InSection, Buffers, buffers, consumer, caller, Goto, Return
<1>1. ASSUME NEW d \in Domains, Call(d) PROVE BufferInv'
    BY <1>1 DEF Call
<1>2. ASSUME NEW d \in Domains, TestLocked(d) PROVE BufferInv'
    BY <1>2 DEF TestLocked
<1>3. ASSUME NEW d \in Domains, LoadUnlocked(d) PROVE BufferInv'
    BY <1>3 DEF LoadUnlocked
<1>4. ASSUME NEW d \in Domains, TestUnlocked(d) PROVE BufferInv'
    BY <1>4 DEF TestUnlocked
<1>5. ASSUME NEW d \in Domains, FillLocked(d) PROVE BufferInv'
    BY <1>5 DEF FillLocked, LockedComplete
<1>6. ASSUME NEW d \in Domains, FillUnlocked(d) PROVE BufferInv'
    BY <1>6 DEF FillUnlocked
<1>7. ASSUME NEW d \in Domains, DropFrame(d) PROVE BufferInv'
    BY <1>7 DEF DropFrame
<1>8. ASSUME NEW d \in Domains, InvokeCallback(d) PROVE BufferInv'
    BY <1>8 DEF InvokeCallback
<1>9. ASSUME NEW d \in Domains, CycleBuffers(d) PROVE BufferInv'
    BY <1>9 DEF CycleBuffers
<1>10. ASSUME NEW d \in Domains, ReuseFree(d) PROVE BufferInv'
    BY <1>10 DEF ReuseFree
<1>11. ASSUME NEW d \in Domains, Renumber(d) PROVE BufferInv'
    BY <1>11 DEF Renumber
<1>12. CASE OnBufferComplete
    BY <1>12 DEF OnBufferComplete
<1>13. CASE UnlockBuffer
    BY <1>13 DEF UnlockBuffer
<1>14. CASE UNCHANGED vars
    BY <1>14 DEF vars
<1> QED
    BY <1>1, <1>2, <1>3, <1>4, <1>5, <1>6, <1>7, <1>8, <1>9, <1>10, <1>11, <1>12, <1>13, <1>14
    DEF Next, BufferStep

LEMMA InitBufferInv == Init => BufferInv
<1> SUFFICES ASSUME Init PROVE BufferInv
    OBVIOUS
<1>1. TypeOK
    BY InitTypeInv DEF TypeInv
<1>2. GuardOwner /\ SectionComplete
    BY DomainsAssumption DEF Init, GuardOwner, SectionComplete, InSection
<1>3. RolesDistinct /\ IterOrder /\ SlotProduced
    BY DEF Init, RolesDistinct, IterOrder, SlotProduced, produced, InSection, Buffers
<1>4. HeldPlace /\ HeldFrameIntact
    BY DEF Init, HeldPlace, HeldFrameIntact
<1> QED
    BY <1>1, <1>2, <1>3, <1>4 DEF BufferInv

LEMMA BufferInvariant == Spec => []BufferInv
<1>1. BufferInv /\ TypeOK' /\ [Next]_vars => BufferInv'
    BY BufferInvStep
<1> QED
    BY InitBufferInv, <1>1, TypeCorrect, StepOfNext, PTL DEF Spec

(***************************************************************************)
(* The frame the consumer holds stays whole until it gives it back, under  *)
(* any interleaving of calls of Buffer.  It is not inductive alone: that   *)
(* no call writes into it is because it is in the third buffer             *)
(* (RolesDistinct, HeldPlace), and that it was whole to begin with because *)
(* only the owner of the mutex delivers it (GuardOwner, SectionComplete).  *)
(***************************************************************************)
THEOREM HeldFrameSafe == Spec => []HeldFrameIntact
<1>1. BufferInv => HeldFrameIntact
    BY DEF BufferInv
<1> QED
    BY BufferInvariant, <1>1, PTL
-----------------------------------------------------------------------------
(***************************************************************************)
(* The buffer implements the stream of frames: storing data is Produce,    *)
(* the callback is Deliver, UnlockBuffer is Release, and every other step  *)
(* stutters.                                                               *)
(***************************************************************************)
LEMMA StoreIsProduce ==
    ASSUME BufferInv, NEW d \in Domains, FillLocked(d) \/ FillUnlocked(d)
    PROVE  FS!Produce(d)
<1> USE DEF BufferInv, TypeOK, Goto, Return, InSection, produced, consumer, FS!Produce
<1>1. produced' = [produced EXCEPT ![d] = @ + 1]
    BY DEF FillLocked, FillUnlocked
<1>2. held # NoFrame => nIter'[held] = nIter[held]
    BY DEF FillLocked, FillUnlocked, HeldPlace, GuardOwner, RolesDistinct, Buffers
<1> QED
    BY <1>1, <1>2 DEF FillLocked, FillUnlocked

LEMMA FrameStep == BufferInv /\ [Next]_vars => [FS!Next]_FS!vars
<1> SUFFICES ASSUME BufferInv, [Next]_vars PROVE [FS!Next]_FS!vars
    OBVIOUS
<1> USE NoFrameAssumption
    DEF BufferInv, TypeOK, RolesDistinct, GuardOwner, HeldPlace, InSection, Buffers,
        buffers, consumer, caller, Goto, Return, produced, FS!vars
<1>1. ASSUME NEW d \in Domains, Call(d) PROVE UNCHANGED FS!vars
    BY <1>1 DEF Call
<1>2. ASSUME NEW d \in Domains, TestLocked(d) PROVE UNCHANGED FS!vars
    BY <1>2 DEF TestLocked
<1>3. ASSUME NEW d \in Domains, LoadUnlocked(d) PROVE UNCHANGED FS!vars
    BY <1>3 DEF LoadUnlocked
<1>4. ASSUME NEW d \in Domains, TestUnlocked(d) PROVE [FS!Next]_FS!vars
    <2>1. CASE next[d] >= nIter[idx[d]]
        BY <1>4, <2>1 DEF TestUnlocked
    <2>2. CASE next[d] < nIter[idx[d]]
        <3>1. Return(d, "testUnlocked") /\ UNCHANGED <<buffers, consumer, idx, guard>>
            BY <1>4, <2>2 DEF TestUnlocked
        <3>2. produced' = [produced EXCEPT ![d] = @ + 1]
            BY <3>1
        <3>3. FS!Produce(d)
            BY <3>1, <3>2 DEF FS!Produce
        <3> QED
            BY <3>3 DEF FS!Next
    <2> QED
        BY <2>1, <2>2 DEF Labels
<1>5. ASSUME NEW d \in Domains, FillLocked(d) \/ FillUnlocked(d) PROVE FS!Next
    BY <1>5, StoreIsProduce DEF FS!Next
<1>6. ASSUME NEW d \in Domains, DropFrame(d) PROVE UNCHANGED FS!vars
    BY <1>6 DEF DropFrame
<1>7. ASSUME NEW d \in Domains, InvokeCallback(d) PROVE FS!Next
    <2>1. iterLockedBuffer # NoFrame /\ nIter[iterLockedBuffer] # NoFrame
        OBVIOUS
    <2>2. \A e \in Domains : nIter[iterLockedBuffer] < produced[e]
        BY <1>7 DEF InvokeCallback, SectionComplete, SlotProduced
    <2>3. FS!Deliver
        BY <1>7, <2>1, <2>2 DEF InvokeCallback, IterOrder, FS!Deliver
    <2> QED
        BY <2>3 DEF FS!Next
<1>8. ASSUME NEW d \in Domains, CycleBuffers(d) PROVE UNCHANGED FS!vars
    BY <1>8 DEF CycleBuffers
<1>9. ASSUME NEW d \in Domains, ReuseFree(d) PROVE UNCHANGED FS!vars
    BY <1>9 DEF ReuseFree
<1>10. ASSUME NEW d \in Domains, Renumber(d) PROVE UNCHANGED FS!vars
    BY <1>10 DEF Renumber
<1>11. CASE OnBufferComplete
    BY <1>11 DEF OnBufferComplete
<1>12. CASE UnlockBuffer
    <2>1. FS!Release
        BY <1>12 DEF UnlockBuffer, FS!Release
    <2> QED
        BY <2>1 DEF FS!Next
<1>13. CASE UNCHANGED vars
    BY <1>13 DEF vars
<1> QED
    BY <1>1, <1>2, <1>3, <1>4, <1>5, <1>6, <1>7, <1>8, <1>9, <1>10, <1>11, <1>12, <1>13
    DEF Next, BufferStep

(***************************************************************************)
(* Under any interleaving of calls, the buffer is a stream of frames: they *)
(* move forward, each has been produced by every domain, and the next one  *)
(* comes only after the consumer has given the last one back.              *)
(***************************************************************************)
THEOREM Refinement == Spec => ImplementsFrameStream
<1>1. Init => FS!Init
    BY NoFrameAssumption DEF Init, FS!Init, produced, InSection
<1> QED
    BY <1>1, BufferInvariant, FrameStep, StepOfNext, PTL DEF Spec, ImplementsFrameStream, FS!Spec
-----------------------------------------------------------------------------
(***************************************************************************)
(* One call at a time, as MultiNBodyWorld::step calls: then an iteration   *)
(* the locked buffer waits for can always still be completed, and after a  *)
(* call the locked buffer is never complete already.                       *)
(***************************************************************************)
LEMMA SerialInvStep ==
    ASSUME ~overlap, overlap' = overlap, BufferInv, BufferInv', CallBelowBound, SerialInv, [Next]_vars
    PROVE  SerialInv'
<1> USE DomainsAssumption, NoFrameAssumption
    DEF BufferInv, TypeOK, RolesDistinct, GuardOwner, SectionComplete, IterOrder, SlotProduced,
        produced, SerialInv, OneCall, ReadsFresh, AwaitedDataToCome, NewestStored, SomeDomainOwes,
        Labels, InSection, Buffers, buffers, consumer, caller, Goto, Return
<1>1. ASSUME NEW d \in Domains, Call(d) PROVE SerialInv'
    BY <1>1 DEF Call
<1>2. ASSUME NEW d \in Domains, TestLocked(d) PROVE SerialInv'
    BY <1>2 DEF TestLocked
<1>3. ASSUME NEW d \in Domains, LoadUnlocked(d) PROVE SerialInv'
    BY <1>3 DEF LoadUnlocked
<1>4. ASSUME NEW d \in Domains, TestUnlocked(d) PROVE SerialInv'
    <2>1. CASE next[d] >= nIter[idx[d]]
        BY <1>4, <2>1 DEF TestUnlocked
    <2>2. CASE next[d] < nIter[idx[d]]
        <3> USE <2>2
        <3>1. Return(d, "testUnlocked") /\ UNCHANGED <<buffers, consumer, idx, guard>>
            BY <1>4 DEF TestUnlocked
        <3>2. OneCall' /\ ReadsFresh'
            BY <3>1
        <3>3. AwaitedDataToCome'
            <4>1. \A e \in Domains \ {d} : produced'[e] = produced[e]
                BY <3>1
            <4>2. /\ produced[d] = next[d] /\ produced'[d] = next[d] + 1
                  /\ next[d] # nIter[iterLockedBuffer]
                BY <3>1
            <4>3. next[d] \in Int /\ nIter[iterLockedBuffer] \in Int
                OBVIOUS
            <4>4. produced'[d] > nIter[iterLockedBuffer] => produced[d] > nIter[iterLockedBuffer]
                BY ONLY <4>2, <4>3
            <4> QED
                BY ONLY ~overlap, overlap' = overlap, <3>1, <4>1, <4>4, AwaitedDataToCome DEF AwaitedDataToCome, buffers
        <3>4. NewestStored'
            BY <3>1
        <3>5. SomeDomainOwes'
            <4>1. /\ next[d] # nIter[iterLockedBuffer]
                  /\ next[d] \in Int /\ nIter[iterLockedBuffer] \in Int
                BY <3>1
            <4>2. CASE next[d] < nIter[iterLockedBuffer]
                BY <3>1, <4>2
            <4>3. CASE next[d] > nIter[iterLockedBuffer]
                <5>1. PICK e \in Domains : next[e] <= nIter[iterLockedBuffer]
                    BY <3>1
                <5>2. e # d
                    BY <4>3, <5>1
                <5> QED
                    BY <3>1, <5>1, <5>2
            <4>4. next[d] < nIter[iterLockedBuffer] \/ next[d] > nIter[iterLockedBuffer]
                BY ONLY <4>1
            <4> QED
                BY <4>2, <4>3, <4>4, Zenon
        <3> QED
            BY <3>2, <3>3, <3>4, <3>5
    <2> QED
        BY <2>1, <2>2
<1>5. ASSUME NEW d \in Domains, FillLocked(d) PROVE SerialInv'
    <2> USE <1>5 DEF FillLocked
    <2>1. OneCall' /\ ReadsFresh'
        OBVIOUS
    <2>2. AwaitedDataToCome'
        OBVIOUS
    <2>3. NewestStored'
        OBVIOUS
    <2>4. SomeDomainOwes'
        <3>1. CASE LockedComplete
            BY <3>1
        <3>2. CASE ~LockedComplete
            <4>1. PICK e \in Domains : domIter'[iterLockedBuffer][e] # nIter[iterLockedBuffer]
                BY <3>2 DEF LockedComplete
            <4>2. pc'[e] \notin InSection
                BY <3>2
            <4>3. next'[e] <= nIter'[iterLockedBuffer']
                BY <2>2, <4>1, <4>2
            <4> QED
                BY <4>3
        <3> QED
            BY <3>1, <3>2
    <2> QED
        BY <2>1, <2>2, <2>3, <2>4
<1>6. ASSUME NEW d \in Domains, FillUnlocked(d) PROVE SerialInv'
    <2> USE <1>6 DEF FillUnlocked
    <2>1. OneCall' /\ ReadsFresh'
        OBVIOUS
    <2>2. AwaitedDataToCome'
        OBVIOUS
    <2>3. NewestStored'
        OBVIOUS
    <2>4. SomeDomainOwes'
        OBVIOUS
    <2> QED
        BY <2>1, <2>2, <2>3, <2>4
<1>7. ASSUME NEW d \in Domains, DropFrame(d) PROVE SerialInv'
    BY <1>7 DEF DropFrame
<1>8. ASSUME NEW d \in Domains, InvokeCallback(d) PROVE SerialInv'
    BY <1>8 DEF InvokeCallback
<1>9. ASSUME NEW d \in Domains, CycleBuffers(d) PROVE SerialInv'
    BY <1>9 DEF CycleBuffers
<1>10. ASSUME NEW d \in Domains, ReuseFree(d) PROVE SerialInv'
    BY <1>10 DEF ReuseFree
<1>11. ASSUME NEW d \in Domains, Renumber(d) PROVE SerialInv'
    BY <1>11 DEF Renumber
<1>12. CASE OnBufferComplete
    BY <1>12 DEF OnBufferComplete
<1>13. CASE UnlockBuffer
    BY <1>13 DEF UnlockBuffer
<1>14. CASE UNCHANGED vars
    BY <1>14 DEF vars
<1> QED
    BY <1>1, <1>2, <1>3, <1>4, <1>5, <1>6, <1>7, <1>8, <1>9, <1>10, <1>11, <1>12, <1>13, <1>14
    DEF Next, BufferStep

LEMMA InitSerialInv == Init => SerialInv
BY DomainsAssumption
DEF Init, SerialInv, OneCall, ReadsFresh, AwaitedDataToCome, NewestStored, SomeDomainOwes,
    produced, InSection, Buffers

LEMMA SerialInvariant == Spec => [](BufferInv /\ (~overlap => SerialInv))
<1>1. Init => SerialInv
    BY InitSerialInv
<1>2. Init => TypeInv /\ BufferInv
    BY InitTypeInv, InitBufferInv
<1>3. TypeInv /\ BufferInv /\ [Next]_vars /\ overlap' = overlap => (TypeInv /\ BufferInv)'
    BY TypeStep, BufferInvStep DEF TypeInv
<1>4. TypeInv /\ BufferInv /\ BufferInv' /\ (~overlap => SerialInv)
      /\ [Next]_vars /\ overlap' = overlap
          => (~overlap => SerialInv)'
    BY SerialInvStep DEF TypeInv
<1> QED
    BY <1>1, <1>2, <1>3, <1>4, StepOfNext, PTL DEF Spec

(***************************************************************************)
(* With one call at a time, what the locked buffer waits for is always     *)
(* still to come, so its iteration can complete and the next frame can be  *)
(* delivered.                                                              *)
(***************************************************************************)
THEOREM SerialAwaited == Spec => []AwaitedDataToCome
<1>1. (~overlap => SerialInv) => AwaitedDataToCome
    BY DEF SerialInv, AwaitedDataToCome
<1> QED
    BY SerialInvariant, <1>1, PTL

(***************************************************************************)
(* ... and between two calls some domain owes the locked iteration.        *)
(***************************************************************************)
THEOREM SerialOwed == Spec => []SomeDomainOwes
<1>1. (~overlap => SerialInv) => SomeDomainOwes
    BY DEF SerialInv, SomeDomainOwes
<1> QED
    BY SerialInvariant, <1>1, PTL
=============================================================================
