-------------------------- MODULE VisualizerServer --------------------------
(***************************************************************************)
(* The simulation process as its visualizers see it,                       *)
(* simpleNBody2/src/simpleNBody.cpp: the registration thread accepts       *)
(* connections, tells each visualizer how many particles there are, waits  *)
(* for its ACK and registers it; the main thread sends every complete      *)
(* frame, domain by domain, to every registered visualizer, from inside    *)
(* the callback of the MultiDomainBuffer.  visLock protects the list.      *)
(*                                                                         *)
(* A visualizer (PV/particles.cpp) connects, reads the number, sends its   *)
(* ACK, reads the data, and may go away at any moment.  A socket holds a   *)
(* few units of data; sending to a full one blocks, a send may be short,   *)
(* and one to a visualizer that went away succeeds or fails.               *)
(***************************************************************************)
EXTENDS Integers, Sequences, SequencesExt

CONSTANTS
    Visualizers,   \* visualizer processes, each connects at most once
    NumDomains,
    DomainUnits,   \* units of data per domain, numParticlesPerDomain * 4 floats
    Room,          \* units a socket buffers
    Frames,        \* bound: frames the run completes
    NoCount,       \* the visualizer has not been told the number of particles
    NoFD           \* the registration thread has no connection in hand

ASSUME NumDomainsAssumption == NumDomains \in Nat \ {0}
ASSUME UnitsAssumption == DomainUnits \in Nat \ {0} /\ Room \in Nat \ {0}
ASSUME FramesAssumption == Frames \in Nat
ASSUME NoFDAssumption == NoFD \notin Visualizers /\ NoCount \notin Nat

VARIABLES
    registeredVisualizers, visLock, numParticlesPerWorld,
    mainPc, frame, dom, i, sent,   \* main thread: i is the position in the list
    regPc, connectFD,              \* registration thread
    fd,        \* fd[v]: the server's end of the connection of v
    backlog,   \* connections that wait to be accepted
    alive,     \* the visualizer process runs and has its socket open
    told,      \* the number of particles v was told
    acked,     \* v's ACK is on its way or read
    unread,    \* units in the socket of v
    stream     \* stream[v]: the units sent to v so far, by their number

lists == <<registeredVisualizers, visLock>>
main == <<mainPc, frame, dom, i, sent>>
registration == <<regPc, connectFD>>
sockets == <<fd, backlog, alive, told, acked, unread, stream>>
vars == <<lists, numParticlesPerWorld, main, registration, sockets>>

FrameUnits == NumDomains * DomainUnits

(* The main thread is still running, and the process with it. *)
Up == mainPc # "exited"
-----------------------------------------------------------------------------
(* main starts the registration thread before it knows the number of       *)
(* particles, which is a global and so 0 until then.                       *)
Init ==
    /\ registeredVisualizers = <<>>
    /\ visLock = "free"
    /\ numParticlesPerWorld = 0
    /\ mainPc = "startup" /\ frame = -1 /\ dom = 0 /\ i = 1 /\ sent = 0
    /\ regPc = "accept" /\ connectFD = NoFD
    /\ fd = [v \in Visualizers |-> "none"]
    /\ backlog = <<>>
    /\ alive = [v \in Visualizers |-> TRUE]
    /\ told = [v \in Visualizers |-> NoCount]
    /\ acked = [v \in Visualizers |-> FALSE]
    /\ unread = [v \in Visualizers |-> 0]
    /\ stream = [v \in Visualizers |-> <<>>]
-----------------------------------------------------------------------------
(* The visualizers. *)
Connect(v) ==
    /\ Up /\ alive[v] /\ fd[v] = "none" /\ v \notin ToSet(backlog)
    /\ backlog' = Append(backlog, v)
    /\ UNCHANGED <<lists, numParticlesPerWorld, main, registration,
                   fd, alive, told, acked, unread, stream>>

SendAck(v) ==
    /\ alive[v] /\ told[v] # NoCount /\ ~acked[v]
    /\ acked' = [acked EXCEPT ![v] = TRUE]
    /\ UNCHANGED <<lists, numParticlesPerWorld, main, registration,
                   fd, backlog, alive, told, unread, stream>>

ReadData(v) ==
    /\ alive[v] /\ unread[v] > 0
    /\ unread' = [unread EXCEPT ![v] = @ - 1]
    /\ UNCHANGED <<lists, numParticlesPerWorld, main, registration,
                   fd, backlog, alive, told, acked, stream>>

Leave(v) ==
    /\ alive[v]
    /\ alive' = [alive EXCEPT ![v] = FALSE]
    /\ UNCHANGED <<lists, numParticlesPerWorld, main, registration,
                   fd, backlog, told, acked, unread, stream>>
-----------------------------------------------------------------------------
(* The registration thread. *)
Accept ==
    /\ Up /\ regPc = "accept" /\ backlog # <<>>
    /\ connectFD' = Head(backlog)
    /\ backlog' = Tail(backlog)
    /\ fd' = [fd EXCEPT ![Head(backlog)] = "open"]
    /\ regPc' = "sendCount"
    /\ UNCHANGED <<lists, numParticlesPerWorld, main, alive, told, acked, unread, stream>>

(* The end of registerVisualizer when something went wrong: close. *)
GiveUp ==
    /\ fd' = [fd EXCEPT ![connectFD] = "closed"]
    /\ regPc' = "accept" /\ connectFD' = NoFD

SendCount ==
    /\ Up /\ regPc = "sendCount"
    /\ \/ /\ told' = [told EXCEPT ![connectFD] = numParticlesPerWorld]
          /\ regPc' = "readAck"
          /\ UNCHANGED <<connectFD, fd>>
       \/ /\ ~alive[connectFD]
          /\ GiveUp
          /\ UNCHANGED told
    /\ UNCHANGED <<lists, numParticlesPerWorld, main, backlog, alive, acked, unread, stream>>

(* The blocking read of the ACK: all of it, or too little of it, or the    *)
(* end of the connection.                                                  *)
ReadAck ==
    /\ Up /\ regPc = "readAck"
    /\ \/ /\ acked[connectFD]
          /\ regPc' = "register"
          /\ UNCHANGED <<connectFD, fd>>
       \/ /\ acked[connectFD] \/ ~alive[connectFD]
          /\ GiveUp
    /\ UNCHANGED <<lists, numParticlesPerWorld, main, backlog, alive, told, acked, unread, stream>>

(* Mutant of Register: it does not take visLock. *)
RegisterUnlocked ==
    /\ Up /\ regPc = "register"
    /\ registeredVisualizers' = Append(registeredVisualizers, connectFD)
    /\ regPc' = "accept" /\ connectFD' = NoFD
    /\ UNCHANGED <<visLock, numParticlesPerWorld, main, sockets>>

Register ==
    /\ Up /\ regPc = "register" /\ visLock = "free"
    /\ registeredVisualizers' = Append(registeredVisualizers, connectFD)
    /\ regPc' = "accept" /\ connectFD' = NoFD
    /\ UNCHANGED <<visLock, numParticlesPerWorld, main, sockets>>
-----------------------------------------------------------------------------
(* Mutant of Startup: the particles of one domain are counted. *)
StartupOneDomain ==
    /\ mainPc = "startup"
    /\ numParticlesPerWorld' = DomainUnits
    /\ mainPc' = "running"
    /\ UNCHANGED <<lists, frame, dom, i, sent, registration, sockets>>

(* The main thread: up to OnBufferComplete(sendCallback), ... *)
Startup ==
    /\ mainPc = "startup"
    /\ numParticlesPerWorld' = FrameUnits
    /\ mainPc' = "running"
    /\ UNCHANGED <<lists, frame, dom, i, sent, registration, sockets>>

(* ... then it runs the simulation, which calls sendCallback, ... *)
CompleteFrame ==
    /\ mainPc = "running" /\ frame + 1 < Frames
    /\ frame' = frame + 1
    /\ mainPc' = "lock"
    /\ UNCHANGED <<lists, numParticlesPerWorld, dom, i, sent, registration, sockets>>

LockVisualizers ==
    /\ mainPc = "lock" /\ visLock = "free"
    /\ visLock' = "main"
    /\ mainPc' = "send" /\ dom' = 0 /\ i' = 1 /\ sent' = 0
    /\ UNCHANGED <<registeredVisualizers, numParticlesPerWorld, frame, registration, sockets>>

(* ... which sends the rest of this domain's data, or some of it, to the   *)
(* visualizer at position i (the units are numbered by the data they are   *)
(* meant to be: the pointer that the code passes is that of the array of   *)
(* descriptors, moved by one byte per domain) ...                          *)
Send ==
    /\ mainPc = "send" /\ i <= Len(registeredVisualizers)
    /\ LET v == registeredVisualizers[i]
           first == frame * FrameUnits + dom * DomainUnits + sent
       IN  \E n \in 1 .. DomainUnits - sent :
               /\ alive[v] => unread[v] + n <= Room
               /\ unread' = [unread EXCEPT ![v] = IF alive[v] THEN @ + n ELSE @]
               /\ stream' = [stream EXCEPT ![v] = @ \o [k \in 1 .. n |-> first + k - 1]]
               /\ IF sent + n = DomainUnits
                  THEN i' = i + 1 /\ sent' = 0
                  ELSE sent' = sent + n /\ UNCHANGED i
    /\ UNCHANGED <<lists, numParticlesPerWorld, mainPc, frame, dom, registration,
                   fd, backlog, alive, told, acked>>

(* Mutant of SendFailed: the iterator is not moved back after the erase. *)
SendFailedSkips ==
    /\ mainPc = "send" /\ i <= Len(registeredVisualizers)
    /\ ~alive[registeredVisualizers[i]]
    /\ fd' = [fd EXCEPT ![registeredVisualizers[i]] = "closed"]
    /\ registeredVisualizers' = RemoveAt(registeredVisualizers, i)
    /\ sent' = 0 /\ i' = i + 1
    /\ UNCHANGED <<visLock, numParticlesPerWorld, mainPc, frame, dom, registration,
                   backlog, alive, told, acked, unread, stream>>

(* Mutant of SendFailed: the visualizer is closed and stays in the list. *)
SendFailedKeeps ==
    /\ mainPc = "send" /\ i <= Len(registeredVisualizers)
    /\ ~alive[registeredVisualizers[i]]
    /\ fd' = [fd EXCEPT ![registeredVisualizers[i]] = "closed"]
    /\ sent' = 0 /\ i' = i + 1
    /\ UNCHANGED <<lists, numParticlesPerWorld, mainPc, frame, dom, registration,
                   backlog, alive, told, acked, unread, stream>>

(* ... and closes and erases it when it is gone: i-- and the loop's i++    *)
(* leave the position on the next visualizer, ...                          *)
SendFailed ==
    /\ mainPc = "send" /\ i <= Len(registeredVisualizers)
    /\ ~alive[registeredVisualizers[i]]
    /\ fd' = [fd EXCEPT ![registeredVisualizers[i]] = "closed"]
    /\ registeredVisualizers' = RemoveAt(registeredVisualizers, i)
    /\ sent' = 0
    /\ UNCHANGED <<visLock, numParticlesPerWorld, mainPc, frame, dom, i, registration,
                   backlog, alive, told, acked, unread, stream>>

(* Mutant of NextDomain: the callback returns without visLock.unlock(). *)
NextDomainKeepsLock ==
    /\ mainPc = "send" /\ i > Len(registeredVisualizers)
    /\ \/ /\ dom + 1 < NumDomains
          /\ dom' = dom + 1 /\ i' = 1
          /\ UNCHANGED mainPc
       \/ /\ dom + 1 = NumDomains
          /\ mainPc' = "running"
          /\ UNCHANGED <<dom, i>>
    /\ UNCHANGED <<lists, numParticlesPerWorld, frame, sent, registration, sockets>>

(* ... until all have this domain and the next one starts, or the callback *)
(* is done with the last one and gives the buffer back.                    *)
NextDomain ==
    /\ mainPc = "send" /\ i > Len(registeredVisualizers)
    /\ \/ /\ dom + 1 < NumDomains
          /\ dom' = dom + 1 /\ i' = 1
          /\ UNCHANGED <<mainPc, visLock>>
       \/ /\ dom + 1 = NumDomains
          /\ mainPc' = "running" /\ visLock' = "free"
          /\ UNCHANGED <<dom, i>>
    /\ UNCHANGED <<registeredVisualizers, numParticlesPerWorld, frame, sent, registration, sockets>>

(* The time limit is reached and main returns. *)
Exit ==
    /\ mainPc = "running" /\ frame + 1 = Frames
    /\ mainPc' = "exited"
    /\ UNCHANGED <<lists, numParticlesPerWorld, frame, dom, i, sent, registration, sockets>>
-----------------------------------------------------------------------------
MainStep ==
    \/ Startup \/ CompleteFrame \/ LockVisualizers
    \/ Send \/ SendFailed \/ NextDomain \/ Exit

RegistrationStep == Accept \/ SendCount \/ ReadAck \/ Register

VisualizerStep(v) == Connect(v) \/ SendAck(v) \/ ReadData(v) \/ Leave(v)

Next == MainStep \/ RegistrationStep \/ \E v \in Visualizers : VisualizerStep(v)

Spec == Init /\ [][Next]_vars

-----------------------------------------------------------------------------
TypeOK ==
    /\ registeredVisualizers \in Seq(Visualizers)
    /\ visLock \in {"free", "main"}
    /\ numParticlesPerWorld \in {0, FrameUnits}
    /\ mainPc \in {"startup", "running", "lock", "send", "exited"}
    /\ frame \in -1 .. Frames - 1
    /\ dom \in 0 .. NumDomains - 1
    /\ i \in Nat \ {0}
    /\ sent \in 0 .. DomainUnits - 1
    /\ regPc \in {"accept", "sendCount", "readAck", "register"}
    /\ connectFD \in Visualizers \cup {NoFD}
    /\ fd \in [Visualizers -> {"none", "open", "closed"}]
    /\ backlog \in Seq(Visualizers)
    /\ alive \in [Visualizers -> BOOLEAN]
    /\ told \in [Visualizers -> {NoCount, 0, FrameUnits}]
    /\ acked \in [Visualizers -> BOOLEAN]
    /\ unread \in [Visualizers -> 0 .. Room]
    /\ stream \in [Visualizers -> Seq(Nat)]

(* Whoever joins or leaves while a frame is sent, the data a visualizer    *)
(* gets starts with the first domain of a frame and goes on without a gap, *)
(* a repetition or a change of order: it has nothing else to tell the      *)
(* frames apart by.                                                        *)
WholeFrames ==
    \A v \in Visualizers : \A k \in 1 .. Len(stream[v]) :
        IF k = 1 THEN stream[v][k] % FrameUnits = 0
                 ELSE stream[v][k] = stream[v][k - 1] + 1

(* When the callback returns, every visualizer in the list has all of the  *)
(* frame, unless it was registered after the frame was sent.               *)
NobodyLeftBehind ==
    mainPc = "running" =>
        \A v \in ToSet(registeredVisualizers) :
            stream[v] # <<>> => Last(stream[v]) = (frame + 1) * FrameUnits - 1

(* The list never has a connection twice, or one that has been closed: its *)
(* descriptor may by then belong to somebody else.                         *)
ListedAreOpen ==
    /\ IsInjective(registeredVisualizers)
    /\ \A v \in ToSet(registeredVisualizers) : fd[v] = "open" /\ acked[v] /\ v # connectFD

(* registerVisualizer says: "Send the number of particles in the world to  *)
(* the visualizer".                                                        *)
ToldTheNumber == \A v \in Visualizers : told[v] \in {NoCount, FrameUnits}
=============================================================================
