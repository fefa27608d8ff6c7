# Verification of the N-body simulation and its visualizer

The repository holds two programs. `src/simpleNBody2` simulates several independent
clusters of bodies ("domains") on CPU or GPU, one or more MPI processes, and streams
the positions over TCP. `src/PV` is an OpenGL visualizer that connects to the
simulation and draws what it receives. This directory models their concurrent and
stateful parts in TLA+, checks the models with TLC and proves the central facts with
TLAPS.

## 1. The system and its parts

| part | code | state | operations | modelled in |
|---|---|---|---|---|
| triple buffer | `MultiDomainBuffer.{h,cpp}` | three world buffers with an iteration number and one slot per domain, three role indices, `callback`, `bufferLocked`, `guard` | `Buffer`, `OnBufferComplete`, `UnlockBuffer`, `isBufferComplete` | `MultiDomainBuffer` |
| visualizer server | `simpleNBody.cpp` | `registeredVisualizers` under `visLock`, `numParticlesPerWorld`, sockets | accept loop, `registerVisualizer`, `sendCallback`, `sendDomainData`, `main` | `VisualizerServer` |
| visualizer | `PV/particles.cpp` | ring buffer of three slots with one mutex each, `readPos`, `writePos`, `ready` | `registerWithSimulation`, `mainReadLoop`, `display` | `VisualizerBuffer` |
| camera, keyboard, sphere mesh | `PV/particles.cpp` | camera position and speed, `Index` and the vertex arrays | key callbacks, `init`, `divide_triangle` | `Visualizer`, with all of the above |
| world | `MultiNBodyWorld.{h,cpp}`, `World.h`, `Domain.h` | `iter`, `time`, the domains, the command line's numbers | `loadInput`, `init`, `run`, `step` | `WorldSetup`, `NBodyWorld` for all ranks, `Simulation` for one |
| domain | `MultiNBodyDomain.{h,cu}` | positions, momenta and forces on host and device, device double buffer | `activate`, `init`, `step`, the kernels | `NBodyDomain`, `NBodyKernel` |
| support code | `PV/vec.h`, `mat.h`, `Angel.h`, `InitShader.cpp`, shaders | none | | not modelled |
| libraries | `src/lib` (boost, freeglut, glew) | | | not modelled |

How they interact. `main` starts the registration thread, then builds the world, asks
its buffer for the sizes, registers `sendCallback` and runs. Each step of the world
steps the domains one after the other; a domain that belongs to the process's rank
computes and calls `Buffer` with its positions. The call that completes an iteration
invokes `sendCallback` from inside `Buffer`, with `guard` held; it takes `visLock`, sends
the frame to every registered visualizer and unlocks the buffer. Concurrently the
registration thread accepts visualizers, tells each the number of particles, waits for
its "ACK" and adds it to the list under `visLock`. In the visualizer the data thread fills
the ring while GLUT's thread renders it; both lock one slot at a time.

What is hard in it, in short (PROJECT.json lists every hazard at its line):

* `Buffer` reads indices and iteration numbers before it takes the mutex;
* the consumer's buffer is read without the mutex while the other two rotate;
* visualizers come, stall and go while a frame is being sent to them, in pieces, from a
  vector that is edited during its own iteration;
* blocking sends happen under two locks;
* the visualizer mixes sizes in floats and in bytes, and treats end of file as "read more";
* with several ranks each one has its own buffer, but only some of the domains; what they
  agree on they work out from the command line, each for itself, and they meet at two
  barriers only, while one of them may be waiting for a visualizer;
* numbers from the command line are rounded in several ways, and the loop of the world
  counts a single-precision time.

## 2. The modules

`FrameStream` is the abstract specification of what a consumer of frames is promised:
every domain produces its iterations in order, and an idle consumer is at times given a
frame; frames are complete, move forward, and come one at a time. `produced`, `frame` and
`delivered` are its three variables.

`MultiDomainBuffer` is the triple buffer. `nIter`, `domIter` and the three indices are
the fields of the class; the data of a slot are written together with its number under
the mutex, so the number stands for both. Every domain is a caller that buffers the
iterations 0, 1, ... in order. The two tests of `Buffer` are four steps (`Call`,
`TestLocked`, `LoadUnlocked`, `TestUnlocked`): load an index, load the iteration number
of that buffer, and so again; another caller may run between any two. The bodies of the
branches run under the mutex. They are split where another thread can see the
difference: at the call of the callback, during which the consumer may run, and at each
write to an index or number that the unlocked tests read (`DropFrame` or `CycleBuffers`,
then `ReuseFree`, then `Renumber`). The code writes the roles in the same order in both
branches, so the last two steps are shared. The consumer is any client of the header:
`OnBufferComplete` at any time, `UnlockBuffer` at any time while it holds a frame,
inside the callback or after it. `overlap`, which never changes,
says whether calls may overlap: the program makes them one at a time
(`MultiNBodyWorld::step`), the comments of the class promise thread safety, and both are
checked. The test for a consumer and the first write of a drop are one step: both are made
under the mutex, and what can come between them, a step of the consumer or the load of
`Call`, could as well come after or before.

`VisualizerServer` is the simulation process as the visualizers see it. A frame that
the buffer completes is the action `CompleteFrame`; `LockVisualizers`, `Send`,
`SendFailed` and `NextDomain` are `sendCallback` and `sendDomainData`, one send at a
time; `i` and `sent` are the iterator and what remains of `bytesToWrite`. `Accept`,
`SendCount`, `ReadAck` and `Register` are the registration thread. A socket is a
counter of unread units, a visualizer can leave at any moment, and a send to one that
has left may still succeed or fail. The units that were sent to a visualizer are kept in
`stream`, numbered through the whole run. Setting up the listening socket is a matter
of `NBodyWorld`: it succeeds before any visualizer can connect or it aborts the process.

`Simulation` composes the last two with the loop of the world into one process. It
instantiates both modules over its own variables; each of its steps is a step of the
loop, of `MultiDomainBuffer`, of `VisualizerServer`, or of both where the code calls from
one into the other: `EnterCallback` is `InvokeCallback` and `CompleteFrame`, `NextDomain`
ends with `UnlockBuffer`. The consumer, which `MultiDomainBuffer` leaves free, is thereby
`sendCallback`. `n_proc` and `rank` are what MPI may have given the process. The barriers
are left to `NBodyWorld`: between them the ranks share nothing.

`WorldSetup` is the arithmetic of the world as operators: the rounding of the number of
bodies (`RoundBodies`, with C's division), the rank of a domain (`Owner`), and the addition of
floats (`TimeAfter`). The places that `init` computes for the domains are left out, since
nothing reads them (section 3). Times are whole numbers of some small unit, positive or negative, rounded to `Precision` significant bits, ties to even
and alike on both sides of 0. `Precision` is at least 2: with one bit there would be no even
number among the two neighbours of a tie. `Powers` has the powers that the floats and the
number of triangles are about.

`NBodyWorld` is the whole job: `n_proc` processes on their hosts, each with its `main`, its
registration thread and its visualizers. `LoadArg` is a turn of `loadInput`; an argument is
what the two `sscanf`s find in it, and `scanned` is the memory of `name`, `val` and `fval`,
which is not set at the start and keeps what an argument does not overwrite. `InitWorld`
is the constructor of the buffer, which throws for negative sizes, and `init`. `Start`
and `Exit` are the barriers. `Listen` is the start of the registration thread: it may abort
its process until it listens, for whatever reason `getaddrinfo`, `socket`, `bind` or `listen`
has, and cannot listen while another rank on the host does (`PortTaken`). `StepWorld`
is a step of the world as seen from outside: it takes its time, and a rank that sends
frames cannot take it while a visualizer does not read. `Killed` is what `mpirun` does when
a process was aborted. The flag `-use_gpu` is left out, since nothing here depends on it.

`Simulation` and `NBodyWorld` are two views of one process. The first has the locks, the
sends and the frames of one rank; the second has all ranks, with a send reduced to whether
it can go on.

`NBodyDomain` is one active domain: on the CPU the two loops of `integrateNBodySystem`
and `computeNBodyGravitation`, on the GPU the copy to the host, the kernel and the two
device arrays. A position is the number of steps the body has been moved, or `Wrong` if
it was moved by forces from positions of mixed moments. The bodies are calculated in any
order and interleaved, as kernel threads are, and the CPU's loops if OpenMP spreads them.
Velocities are left out: a thread reads and writes only that of its own body.

`NBodyKernel` is the inside of the kernel: the host's choice of `q`, and one block, any
block, of `q` rows of `p` threads with their shared memory and barriers. The sum of forces
is a count of how often each body is in it. A barrier is one step of the whole block,
enabled when every thread has come to it; between barriers the threads run in any
order. The two loops over one index (`gravitation`, the sum over the rows) are one step
per turn. `blockIdx.y` is 0 in a grid of height 1. The test for `index >= totalNumBodies`
never holds, as the grid has just `np` threads in row 0. The device is taken to
accept the launch: the code does not limit `p*q` by `maxThreadsPerBlock` (a hazard).

`VisualizerBuffer` is the visualizer's ring. `writePos` and `readPos` are offsets in floats,
as in the code, and are moved as the code moves them. Every read may return any number
of bytes. A render of a particle is one step. `connection` says what the next read
would return when no data is left.

`Visualizer` extends it to the whole program. The GLUT thread first makes five spheres,
while the data thread is already running: `todo` is the stack of the recursion of
`divide_triangle`, and `triangle` sets three vertices at `Index`. Which normals they are given
is left out. Then GLUT calls `display`, `SpecialKeys`, `Release` and `keyboard` one after the
other, in any order. A key that is held repeats, and one may
go up at any time. Speeds are in quarters, so all three
constants of the code are whole numbers. The position and the direction of the camera
are left out, as nothing is decided by them. `NUM_TRIANGLES` is the power of 4 that the comment
above it says, so that any depth of subdivision can be given.

Each module has the mutants its checks are tested with next to the action they change,
named for the mistake; no specification uses them. The MC modules extend the
specification for TLC.

## 3. What the runs check

| run | instance | result |
|---|---|---|
| `mdb` | 3 domains, 3 iterations, overlapping calls or one at a time | `HeldFrameIntact`, `ImplementsFrameStream`, `AllIterationsBuffered` hold; `AwaitedDataToCome`, `SomeDomainOwes`, `NextFrameDeliveredSerially`, which are about calls that do not overlap, hold |
| `mdb_race` | 2 domains, 3 iterations | `NextFrameDelivered` is violated |
| `server` | 3 visualizers, 2 domains of 2 units, sockets of 3 units, 2 frames | `WholeFrames`, `NobodyLeftBehind`, `ListedAreOpen` hold |
| `server_count` | 2 visualizers | `ToldTheNumber` is violated |
| `ring` | the whole visualizer: 2 particles (8 floats per slot), any split of the reads, 5 spheres of 16 triangles, the keys | `WritesInSlot`, `RendersQuietSlot`, `MeshFitsDrawing`, `DisplayComesUp` hold |
| `ring_closed` | 1 particle | `EndsWhenClosed` is violated |
| `kernel` | 12 bodies, `p` = 2, 7 processors, room for 4 rows: `q` is halved to 3, two tiles; any of the 6 blocks | `LoadsABody`, `NoSharedRace`, `EveryBodyOnce`, `BlockFinishes` hold |
| `kernel_tail` | 6 bodies, `p` = 2, 2 processors: `q` = 2, one tile of 4 | `EveryBodyOnce` is violated |
| `domain` | 4 bodies, 3 iterations, CPU or GPU | `NothingWrong`, `FrameOfIteration` hold |
| `simulation` | 2 domains, 1 or 2 processes, either rank, 2 visualizers with sockets of 1 unit, 3 iterations | `FramesInTime`, `SendsHeldFrame`, `ImplementsServer`, `SimulationEnds` hold |
| `world` | 1 or 2 ranks on 1 or 2 hosts, 9 command lines, 2 contents of the unset memory, floats of 3 bits | `SettingsGiven`, `OneOwner`, `RunTogether`, `StepsForward`, `RunReachesEnd` hold |
| `world_limit` | the same ranks, `dt` of 1 and a limit of 9, floats of 3 bits | `TimeLimitEnds` is violated |

The bounds. The locked and the unlocked buffer collect two iterations, so a third one
lets a domain run ahead by more than the buffers can hold, and every buffer is reused
after a rotation; two overlapping callers are enough for every conflict over an index, and
three let a domain be neither the first nor the last. Two units per domain make
short sends possible, three visualizers let one leave at each end and in the middle of
the list, and sockets smaller than a frame make sends block. Two particles are eight
bytes to read per slot, so a slot is filled by up to eight reads and the positions pass
the wrap. In `kernel` every block but the first wraps around the bodies, some in the
middle of a tile, and the 6 rows that do not fit into the shared memory are halved to 3;
in `domain` four bodies are one round of the unrolled loop, and three iterations use each
device array as source and as target. In `simulation` three iterations use each world
buffer once, and a socket for one unit makes every send wait for the reader of the one
before. In `ring` one subdivision makes 16 triangles of a tetrahedron, so each face is divided
once; the speed can pass its limit by a part of an increment, as in the code. In `world` the
command lines have an argument without its number before and after one that sets it, an
argument that is not an option, no argument that sets `-nd`, three domains for two ranks,
`dt` of 1, 2, 3, 0 and -1, time limits within and out of reach of 3-bit floats, and negative
numbers, one of which rounds to 0 while the others make the constructor throw. A float of the code has
24 bits; the rounding cares only for how the limit and `dt` compare, and with 3 bits `8 + 1`
is already `8`. All models stop: after their last frame or iteration, when the block is done, or
at `exit`. So deadlock is not checked, and the liveness properties say what has to be
reached.

What the violations show.

* `mdb_race`: a call decides for a branch, another call completes the locked iteration
  and rotates the buffers, and the first one stores its data into a buffer that now
  collects something else. The locked iteration never completes, and no frame comes any
  more. The comments at `MultiDomainBuffer.cpp:60` and `:108` promise a thread-safe
  class. The program calls it from one thread.
* `server_count`: the registration thread runs before `main` knows the number of
  particles, so an early visualizer is told 0.
* `ring_closed`: `read` returns 0 at the end of the stream, which the copying loops take
  for a short read; the thread spins with the slot locked and the display freezes.
* `world_limit`: `time + dt` rounds to `time` before the limit, and the run goes on for ever
  (`MultiNBodyWorld.h:30`). The help text says that `-tl=#` is the "Time Limit (end)". With the
  default `dt` of 0.001 the time stays at 32768, with `-dt=1e-8` at 0.25. `RunReachesEnd` says
  that a run does end while the limit is in reach, and `StepsForward` that no step is lost
  before.
* `kernel_tail`: the search for a `q` that divides `np` has no effect, because `q` is assigned
  again, and `computeBodyAccel` leaves out what is behind the last full tile. The
  comment above the search says that tiles must be full. With the default 4096
  bodies in rows of 32 it happens, for example, on a device with 14 multiprocessors.

More disagreements follow from the text of one place and need no run.

* `sendCallback` passes `wBuf->pDoms`, the array of the domains' descriptors, where it means
  the data they point to, and moves it by one byte per domain (`simpleNBody.cpp:76`, `:81`).
  `VisualizerServer` numbers the units by what they are meant to be, since what it shows is
  about how many are sent to whom, and when.
* `floatsPerBuffer` is used as a number of bytes (`particles.cpp:429`, `:511`), while positions
  move by as many floats. A slot takes a quarter of a frame, at its front if one read returns
  all of it and with gaps if not, and the display starts after the first quarter, where `:508`
  speaks of the first buffer.
* `randomizeBodies` takes the mass of a body from `h_pos[p]` after `p++`
  (`MultiNBodyDomain.cu:587-592`, `:647`, `:685`): that is the first coordinate of the next
  body, which is not set yet, and for the last body lies behind the array.
* `dom_edge` is said to be the "Ceil 3rd-root" (`MultiNBodyWorld.cpp:60`) and the domains to be
  placed "in dom_edge^3 cube" (`:67`). It is the ceiling of a third: `exp(log(x))` is `x`. And
  nothing reads the places: `m_x`, `m_y` and `m_z` are set at `:71-73`, but `randomizeBodies` uses
  only the scales, so every cluster is made around the origin.
* The smooth normals are all that of vertex `a` (`particles.cpp:93-95`): `y` and `z` are
  copies of `x`.
* A visualizer that was told 0 (`server_count`) divides by the size of its slots, 0
  (`particles.cpp:235`, `:431`). `VisualizerBuffer` is about one that was told a positive number.

Fairness. A thread of the simulation that can take a step takes one: the loops of `run`,
`sendCallback` and the registration thread have no other wait than the locks and
sockets in their guards, and a `boost::mutex` that becomes free for good is taken by a
waiter. Nothing makes a consumer of the buffer unlock it, a visualizer connect, answer or
leave, or the network fail. For `SimulationEnds`, which is stated for the whole process in
`Simulation`, visualizers that stay must read, which is all `mainReadLoop` does; without
that it does not hold, because `send` blocks. In the visualizer the mutexes are taken again
and again by the other thread, so that taking one is strongly fair: each thread holds one
slot of three at a time and leaves it free for the time it spends in the other two. `DisplayComesUp` is stated for a simulation that
keeps sending. It needs the making of the spheres to go on, but no fairness of the keys.
For `RunReachesEnd` the visualizers that stall read on or go away some time. One may
stall again before the rank has sent, so `StepWorld` is strongly fair: a send that finds
room again and again gets through. For `BlockFinishes` the host and the threads of a block
that has been given to a multiprocessor run.

## 4. What is proved

`MultiDomainBuffer_proofs` proves, for every non-empty set of domains and every number
of iterations:

* `TypeCorrect`: `Spec => []TypeOK`, from `TypeInv`, which adds that a call was begun
  below the bound of the loop;
* `HeldFrameSafe`: `Spec => []HeldFrameIntact`, under any interleaving of calls;
* `Refinement`: `Spec => ImplementsFrameStream`: storing data is `Produce`, the callback
  is `Deliver`, `UnlockBuffer` is `Release`, everything else stutters;
* `SerialAwaited` and `SerialOwed`: `[]AwaitedDataToCome` and `[]SomeDomainOwes`, which are
  about one call at a time.

The inductive invariant `BufferInv` says why. The mutex is held exactly by the call that
is past its test for completeness (`GuardOwner`), and while it is, the locked buffer is
complete (`SectionComplete`); the roles are played by different buffers except between
two writes of a rotation (`RolesDistinct`), and the consumer's frame is the third buffer,
or the locked one while the callback runs (`HeldPlace`), so nobody writes into it;
iterations only move forward (`IterOrder`), and a slot only holds what its domain has
produced (`SlotProduced`). `HeldFrameIntact` is not inductive without these: that no
call writes into the frame is a matter of where the frame is. For serial calls
`SerialInv` adds that what a call has read without the mutex is still true when it acts
on it (`ReadsFresh`), which is just what overlapping calls break, and that the newest
iteration any domain has reached is being collected (`NewestStored`). Both invariants
were checked with TLC before they were proved.

The assumptions are those of the module: there is a domain, the bound is a natural
number, and the two values that stand for "nobody" and "no frame" are neither domains
nor numbers.

`Visualizer_proofs` first proves `TypeCorrect`, `WritesSafe` (`[]WritesInSlot`) and
`RendersSafe` (`[]RendersQuietSlot`) of the ring alone, for every number of particles and every
split of the incoming bytes into reads. The invariant `RingInv` relates each thread's position to the
slot whose mutex it holds: during a fill, the position and the bytes still to be copied
add up to the end of the locked slot (`DataPlace`); the display is as many particles into
its slot as it has rendered (`DisplayPlace`); and the first fill, which locks nothing, is
over before the display is let in (`FirstAlone`). The positions alone are not inductive:
that they return to the start of a slot follows from the sum.

`NBodyKernel_proofs` proves, for any number of bodies that is a multiple of `p`, any device
and any block: `TypeCorrect`, `LoadsSafe` (`[]LoadsABody`: `WRAP`, which subtracts only once,
is enough), `RaceFree` (`[]NoSharedRace`), `FullTilesCount`: `EveryBodyOnce` holds whenever
`p*q` divides `np`, and `FullTilesNeeded`: it holds in no finished block otherwise. `TailLost`
says what is missing then: no body is counted twice, and those that are not counted are at the
places behind the last full tile, fewer than `q` rows, seen from the row of the block.
`KernelInv` says that the threads are in lockstep: all in the same tile
and within the same phase between two barriers. `CountInv` says which bodies are in each
sum after each turn; the tiles of a thread's row cover different rows of bodies, and full
tiles cover all of them (`InATile`, `FullTiles`). With a tile that is not full there is a body
at the last place of the rows, from wherever one starts to count (`LastPlace`). `kernel_tail`
is the smallest such launch.

`NBodyDomain_proofs` proves `TypeCorrect`, `MovesRight` (`[]NothingWrong`) and `FramesRight`
(`[]FrameOfIteration`) for any number of bodies that the unrolled loop divides and any number
of iterations. `DomainInv` says how many steps each array is ahead in each phase, and
that forces have been computed from positions of this iteration only (`SeenNow`).

The assumptions of these modules are a positive number of bodies that is a multiple of
`p` or of 4; `loadInput` rounds to 32, but lets 0 and less through (a hazard that is listed).

`VisualizerServer_proofs` proves `TypeCorrect`, `WholeFramesSafe` (`[]WholeFrames`),
`NobodyLeftBehindSafe` (`[]NobodyLeftBehind`) and `ListedOpen` (`[]ListedAreOpen`) for any set
of visualizers, any number of domains, units and frames, and any size of the sockets.
`ServerInv` says who holds `visLock` (`LockHeld`); that a descriptor is in one place only,
with the registration thread or in the list, and there once (`OnePlace`); that whoever is
not in the list has been sent nothing (`NothingYet`); how far into the frame each entry of
the list is, those before the iterator one domain ahead of those behind it (`UpToDate`);
and that each stream has its units in order without a gap (`Sequential`). The point of the
proof is `SendFailed`, which removes an entry of the list that is being walked: all later
ones move up by one, and the iterator stays.

`NBodyWorld_proofs` proves `TypeCorrect`, `SettingsGivenSafe`, `OneOwnerSafe`,
`RunTogetherSafe`, `StepsForwardSafe` and `EndsOnlyInReachSafe` for any number of processes, any hosts, any set of command lines and any
precision of at least two bits. `WorldInv` says that for a well-formed command line the settings
of a rank are those of the arguments it has read (`Read`), which holds although `scanned`
starts with garbage, because every argument sets the field that is used; that a rank that
is set up has read all of them (`Placed`); and what the barriers have let through (`Begun`).
That two ranks have the same settings follows from `Read` without comparing them step by step. The last argument of a name is found by a lemma on the next
one rather than by induction. `Timed` is about the loop: a time that comes of adding
`dt` is a float, and is never beyond `2^Precision` times any power of two that is not below
`dt`. That a step keeps it is `RoundBelow`, whose heart is `RoundBack`: from such a bound,
adding no more than half of the distance to the next float rounds back to it, since the bound
is even. `RoundTwice` says that a rounded number is a float. So a run whose limit is out of
reach never ends (`EndsOnlyInReach`), for any numbers: `world_limit` is no accident of small
floats. `StepsForward` is the converse, `RoundOn`: below the bound, floats are less than `2*dt` apart, so adding `dt` comes to the next
one at least. These lemmas know of `CHOOSE` in `Ulp` only that the exponent of a number is
unique (`ExponentExists`, `UlpOfExponent`).

`Powers_proofs` has what they need of powers: the recursive equation, sums of exponents,
monotony, and the least power that is not below a number. The library proves induction and
recursive definitions with operators as parameters, so it is done here once with sets: every
set of naturals has a least element, from the well-foundedness of their order; `Induction` is
about a set that contains 0 and each successor; and `PowerEquation` comes from the existence
and agreement of the functions that satisfy the equation up to some number
(`FirstPowersExist`, `FirstPowersAgree`).

For the whole program `Visualizer_proofs` proves `ProgramTypeCorrect`, carries `WritesInSlot`
and `RendersQuietSlot` over, since no other handler touches the ring, and proves
`SceneTypeCorrect` (`[]SceneTypeOK`) and `MeshFits` (`[]MeshFitsDrawing`) for any limits of the speed and any depth of the spheres. The last needs
how many triangles the stack of `divide_triangle` still stands for. `Triangles` states this
sum without recursion, by the sequence of its partial sums from the end, so that taking a face
off the stack and putting four smaller ones on it are two lemmas (`TrianglesOfTail`,
`TrianglesOfMore`); `MeshInv` says that they fill just what is left of the arrays, and that
`display` waits for an empty stack.

`Simulation_proofs` proves, for any number of domains, processes, iterations and
visualizers, `TypeCorrect`, `FramesInTimeSafe` (`[]FramesInTime`), `SendsHeldFrameSafe`
(`[]SendsHeldFrame`), `CallsCarryIterSafe` (`[]CallsCarryIter`), and two refinements:
`ServerRefinement` (`Spec => ImplementsServer`) and `StreamRefinement`, that the process
implements `FrameStream`. `ServerSafe` says that the promises of the server to its visualizers
hold in every rank, also in one that exits without having sent a frame. It composes what is
proved of the parts: every step of the process is a step of `MultiDomainBuffer` with one
call at a time (`BufferView`) and, but for the end of a rank that has sent nothing, one of
`VisualizerServer` (`ServerView`), so both modules' invariants hold of it (`ComponentsKeep`).
What `LoopInv` adds is the place of the loop: only the domain whose turn it is is in a call,
and which domains have done this iteration's (`CallPlace`); that `sendCallback` runs only
inside of a call (`InsideCall`); and how the buffers stand. On a rank that owns all
domains they collect the world's iteration until the call of the last domain, which finds
the buffer complete because all before it are stored (`CompleteAtLast`, from
`AwaitedDataToCome`), delivers it and gets it back before it returns (`InTime`); so `DropFrame` never happens there
(`DropFrameNever`). On any other rank the slot of a domain that is elsewhere is never filled
(`NeverComplete`, from `SlotProduced`), and no frame is ever sent (`Incomplete`).

`SendsHeldFrame` is where the three parts meet: `LoopInv` has that the callback runs with the
locked buffer held, `BufferInv` that this buffer is whole, and the server that the frame it
sends is the newest one. `CallsCarryIter`, that every call of `Buffer` is for the iteration of
the world, is a theorem only: a frame of another iteration would violate `SendsHeldFrame`.

Only model-checked are the liveness properties (`NextFrameDeliveredSerially`, `AllIterationsBuffered`,
`SimulationEnds`, `DisplayComesUp`, `BlockFinishes`, `RunReachesEnd`), which are out of the
prover's reach. Every invariant and every refinement that a passing run checks is proved, `EveryBodyOnce`
with the condition under which it holds.

## 5. What is left

* The frames that the visualizer shows: that the display may lap the data thread is a hazard
  that is listed, and nothing in the repository says what order is meant.

Not modelled, and why: the floating-point arithmetic of forces, integration and initial
conditions (its correctness is a matter of numerics), OpenGL calls and shaders (pure output), the
textbook's vector and matrix classes (stateless), the vendored libraries (the mutex, the
thread and the sockets are modelled by what they do where the program uses them), the
build files. `calculateForce`, `gpuComputeNBodyGravitation`, `cleanup` and the handlers of
`thread_interrupted` are never reached: `accept` and `read` are not interruption points, and
`glutMainLoop` does not return.
