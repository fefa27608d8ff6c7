----------------------------- MODULE NBodyWorld -----------------------------
(***************************************************************************)
(* All processes of a simulation, from the command line to the end:        *)
(* main of simpleNBody.cpp with loadInput, init and run of the world.      *)
(* Each rank reads the command line for itself, takes its domains, and     *)
(* runs between two barriers.  A registration thread in each rank tries to *)
(* listen on the one port, and aborts the process if it cannot.  A rank    *)
(* that owns all domains sends each iteration and waits for visualizers    *)
(* that do not read; how it does that is the matter of Simulation.         *)
(***************************************************************************)
EXTENDS Integers, Sequences, WorldSetup

CONSTANTS
    MaxProcs,    \* bound: processes that MPI starts
    Hosts,
    ArgLists,    \* command lines, sequences of records of what sscanf finds
    Garbage,     \* what the variables that sscanf sets may hold before
    NoMatch,     \* sscanf did not get as far as this field
    Defaults     \* what the constructor sets

Settings == [numBodies : Int, nDoms : Int, dt : Int, tlim : Int]
Variables == [name : STRING, val : Int, fval : Int]
Scans == [name : STRING \cup {NoMatch}, val : Int \cup {NoMatch}, fval : Int \cup {NoMatch}]

ASSUME WorldAssumption ==
    /\ MaxProcs \in Nat \ {0}
    /\ ArgLists \subseteq Seq(Scans) /\ Garbage \subseteq Variables /\ Defaults \in Settings
    /\ NoMatch \notin STRING \cup Int

VARIABLES
    n_proc, host, args,         \* what the job is started with
    pc, ai, scanned, settings,  \* of each rank: loadInput, init
    time,                       \* run
    listener,                   \* its registration thread
    visualizer                  \* the visualizers registered with it

job == <<n_proc, host, args>>
setup == <<ai, scanned, settings>>
vars == <<job, pc, setup, time, listener, visualizer>>

AllRanks == 0 .. MaxProcs - 1
Ranks == 0 .. n_proc - 1

Doms(r) == 0 .. settings[r].nDoms - 1
Active(r) == {di \in Doms(r) : Owner(di, n_proc) = r}
SendsFrames(r) == Active(r) # {} /\ Active(r) = Doms(r)

Alive(r) == pc[r] \notin {"exited", "aborted"}
-----------------------------------------------------------------------------
Init ==
    /\ n_proc \in 1 .. MaxProcs
    /\ host \in [AllRanks -> Hosts]
    /\ args \in ArgLists
    /\ pc = [r \in AllRanks |-> "load"]
    /\ ai = [r \in AllRanks |-> 1]
    /\ scanned \in [AllRanks -> Garbage]
    /\ settings = [r \in AllRanks |-> Defaults]
    /\ time = [r \in AllRanks |-> 0]
    /\ listener = [r \in AllRanks |-> "start"]
    /\ visualizer = [r \in AllRanks |-> "none"]

Goto(r, at) == pc' = [pc EXCEPT ![r] = at]

(* Mutant of Scan: each argument is read as if nothing had been before. *)
ScanFresh(old, arg) == [f \in DOMAIN arg |-> arg[f]]

(* What sscanf does not find keeps the value of an earlier argument. *)
Scan(old, arg) == [f \in DOMAIN arg |-> IF arg[f] = NoMatch THEN old[f] ELSE arg[f]]

Assign(s, at) ==
    CASE at.name = "np" -> [s EXCEPT !.numBodies = RoundBodies(at.val)]
      [] at.name = "nd" -> [s EXCEPT !.nDoms = at.val]
      [] at.name = "dt" -> [s EXCEPT !.dt = at.fval]
      [] at.name = "tl" -> [s EXCEPT !.tlim = at.fval]
      [] OTHER -> s

(* One turn of the loop of loadInput *)
LoadArg(r) ==
    /\ pc[r] = "load" /\ ai[r] <= Len(args)
    /\ IF args[ai[r]].name = "help"
       THEN Goto(r, "exited") /\ UNCHANGED setup
       ELSE /\ scanned' = [scanned EXCEPT ![r] = Scan(@, args[ai[r]])]
            /\ settings' = [settings EXCEPT ![r] = Assign(@, scanned'[r])]
            /\ ai' = [ai EXCEPT ![r] = @ + 1]
            /\ UNCHANGED pc
    /\ UNCHANGED <<job, time, listener, visualizer>>

(* The buffer is allocated, which throws for a negative size, and init     *)
(* makes the domains; the rank arrives at the first barrier.               *)
InitWorld(r) ==
    /\ pc[r] = "load" /\ ai[r] > Len(args)
    /\ LET s == settings[r]
           negative == s.nDoms < 0 \/ (s.nDoms > 0 /\ s.numBodies < 0)
       IN  Goto(r, IF negative THEN "aborted" ELSE "ready")
    /\ UNCHANGED <<job, setup, time, listener, visualizer>>

(* The barrier lets a rank go when all have come to it. *)
Start(r) ==
    /\ pc[r] = "ready" /\ \A q \in Ranks : pc[q] \notin {"load", "aborted"}
    /\ Goto(r, "run")
    /\ UNCHANGED <<job, setup, time, listener, visualizer>>

(* Mutant of Goes: the time limit is hit or missed. *)
GoesPast(r) == time[r] # settings[r].tlim

Goes(r) == time[r] < settings[r].tlim

(* A step of the world, with the frame it may complete *)
StepWorld(r) ==
    /\ pc[r] = "run" /\ Goes(r)
    /\ SendsFrames(r) => visualizer[r] # "stuck"
    /\ time' = [time EXCEPT ![r] = TimeAfter(@, settings[r].dt)]
    /\ UNCHANGED <<job, pc, setup, listener, visualizer>>

RunEnds(r) ==
    /\ pc[r] = "run" /\ ~Goes(r)
    /\ Goto(r, "done")
    /\ UNCHANGED <<job, setup, time, listener, visualizer>>

(* Mutant of Exit: no barrier after the run. *)
ExitAtOnce(r) ==
    /\ pc[r] = "done"
    /\ Goto(r, "exited")
    /\ UNCHANGED <<job, setup, time, listener, visualizer>>

(* After the second barrier the process ends and frees its port. *)
Exit(r) ==
    /\ pc[r] = "done" /\ \A q \in Ranks : pc[q] \in {"done", "exited"}
    /\ Goto(r, "exited")
    /\ UNCHANGED <<job, setup, time, listener, visualizer>>

(* mpirun ends the other processes when one was aborted. *)
Killed(r) ==
    /\ Alive(r) /\ \E q \in Ranks : pc[q] = "aborted"
    /\ Goto(r, "aborted")
    /\ UNCHANGED <<job, setup, time, listener, visualizer>>
-----------------------------------------------------------------------------
(* Another rank on the same host has the port. *)
PortTaken(r) == \E q \in Ranks : q # r /\ host[q] = host[r] /\ Alive(q) /\ listener[q] = "listening"

(* Without the port no point in simulating, says the handler, and aborts.  *)
(* Besides another rank, another program or a connection of an earlier job *)
(* may have the port, and getaddrinfo, socket and listen may fail.         *)
Listen(r) ==
    /\ Alive(r) /\ listener[r] = "start"
    /\ \/ Goto(r, "aborted") /\ UNCHANGED listener
       \/ /\ ~PortTaken(r)
          /\ listener' = [listener EXCEPT ![r] = "listening"] /\ UNCHANGED pc
    /\ UNCHANGED <<job, setup, time, visualizer>>

(* A visualizer registers with a rank, it stops reading, and it reads on   *)
(* or goes away.                                                           *)
Visualize(r, from, to) ==
    /\ Alive(r) /\ visualizer[r] = from
    /\ visualizer' = [visualizer EXCEPT ![r] = to]
    /\ UNCHANGED <<job, pc, setup, time, listener>>

Register(r) == listener[r] = "listening" /\ Visualize(r, "none", "reads")
Stall(r) == Visualize(r, "reads", "stuck")
ReadOn(r) == \E to \in {"reads", "none"} : Visualize(r, "stuck", to)
-----------------------------------------------------------------------------
Main(r) ==
    \/ LoadArg(r) \/ InitWorld(r) \/ Start(r) \/ StepWorld(r) \/ RunEnds(r) \/ Exit(r)
    \/ Killed(r)

Next == \E r \in Ranks :
    Main(r) \/ Listen(r) \/ Register(r) \/ Stall(r) \/ ReadOn(r)

Spec == Init /\ [][Next]_vars

(* The threads of a rank run whenever they can.  A visualizer that stalls  *)
(* reads on or goes away some time, and a send that again and again finds  *)
(* room gets through (SF).                                                 *)
FairSpec ==
    /\ Spec
    /\ \A r \in AllRanks :
           /\ WF_vars(r \in Ranks /\ Main(r)) /\ SF_vars(r \in Ranks /\ StepWorld(r))
           /\ WF_vars(r \in Ranks /\ Listen(r)) /\ WF_vars(r \in Ranks /\ ReadOn(r))
-----------------------------------------------------------------------------
TypeOK ==
    /\ n_proc \in 1 .. MaxProcs /\ host \in [AllRanks -> Hosts] /\ args \in ArgLists
    /\ pc \in [AllRanks -> {"load", "ready", "run", "done", "exited", "aborted"}]
    /\ ai \in [AllRanks -> 1 .. Len(args) + 1]
    /\ scanned \in [AllRanks -> Variables] /\ settings \in [AllRanks -> Settings]
    /\ time \in [AllRanks -> Int]
    /\ listener \in [AllRanks -> {"start", "listening"}]
    /\ visualizer \in [AllRanks -> {"none", "reads", "stuck"}]

SetUp(r) == pc[r] \in {"ready", "run", "done"}

(* Every argument is an option with its number, or -use_gpu. *)
WellFormed ==
    \A a \in 1 .. Len(args) :
        LET arg == args[a] IN
        /\ arg.name # NoMatch
        /\ arg.name \in {"np", "nd"} => arg.val # NoMatch
        /\ arg.name \in {"dt", "tl"} => arg.fval # NoMatch

(* The last of the first n arguments that has this name *)
LastGiven(name, n) ==
    LET given == {a \in 1 .. n : args[a].name = name}
    IN  IF given = {} THEN 0 ELSE CHOOSE a \in given : \A b \in given : b <= a

(* loadInput keeps what it scans from one argument to the next, and starts *)
(* from memory that is not set.  Nevertheless each setting is that of the  *)
(* last argument that gives it, or the default, when all arguments are     *)
(* well-formed.                                                            *)
SettingsGiven ==
    WellFormed => \A r \in Ranks :
        LET given(name, field, default) ==
                LET a == LastGiven(name, ai[r] - 1) IN IF a = 0 THEN default ELSE args[a][field]
        IN  /\ settings[r].nDoms = given("nd", "val", Defaults.nDoms)
            /\ settings[r].dt = given("dt", "fval", Defaults.dt)
            /\ settings[r].tlim = given("tl", "fval", Defaults.tlim)
            /\ LET a == LastGiven("np", ai[r] - 1) IN
               IF a = 0 THEN settings[r].numBodies = Defaults.numBodies
               ELSE /\ settings[r].numBodies % 32 = 0
                    /\ args[a].val > 0 => settings[r].numBodies \in args[a].val .. args[a].val + 31

(* The ranks do not tell each other what they have read, and yet each      *)
(* domain is active in exactly one of them when the run has begun.         *)
OneOwner ==
    (WellFormed /\ \A r \in Ranks : SetUp(r)) =>
        \A r \in Ranks : \A di \in Doms(r) : \E q \in Ranks :
            \A o \in Ranks : di \in Active(o) <=> o = q

(* No rank steps its world before all have set up theirs, and a rank that  *)
(* has come to its end leaves no other behind in the run.                  *)
RunTogether ==
    \A r \in Ranks :
        /\ time[r] # 0 => \A q \in Ranks : pc[q] # "load"
        /\ (pc[r] = "exited" /\ time[r] # 0) => \A q \in Ranks : pc[q] # "run"

(* A float that dt is added to again and again grows up to 2^Precision     *)
(* times the power of two that is not below dt, and stays there.           *)
LimitInReach(s) ==
    \E e \in 0 .. s.dt :
        /\ Power(2, e) >= s.dt /\ s.dt > 0 /\ \A f \in 0 .. e - 1 : Power(2, f) < s.dt
        /\ s.tlim <= Power(2, Precision + e)

(* A run that began ends on every rank, if the time limit is in reach,     *)
(* however its visualizers come, stall and go: no rank is held up for good *)
(* by another one, in a send or at a barrier.                              *)
RunReachesEnd ==
    \A r \in AllRanks :
        (pc[r] = "run" /\ \A q \in Ranks : LimitInReach(settings[q])) ~> ~Alive(r)

(* While the limit is in reach, the next step of the world     *)
(* moves the time on: although the time grows and dt does not, the         *)
(* addition never rounds back before the limit.                            *)
StepsForward ==
    \A r \in Ranks :
        (pc[r] = "run" /\ Goes(r) /\ LimitInReach(settings[r])) =>
            TimeAfter(time[r], settings[r].dt) > time[r]

(* "-tl=#": "Time Limit (end)".  A run of positive time steps ends, on the *)
(* rank on which it began.  If the limit is not in reach it goes on for    *)
(* ever, in steps that leave the time as it is.                            *)
TimeLimitEnds ==
    \A r \in AllRanks : (pc[r] = "run" /\ settings[r].dt > 0) ~> ~Alive(r)
=============================================================================
