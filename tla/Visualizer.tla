----------------------------- MODULE Visualizer -----------------------------
(***************************************************************************)
(* All of PV/particles.cpp: VisualizerBuffer with what else the GLUT       *)
(* thread does.  Before its main loop it fills the vertex arrays with five *)
(* spheres, of which display draws the last; then display and the handlers *)
(* of the keyboard run one after the other.  Of the camera the speed is    *)
(* modelled, in quarters: the handlers change it, and its position is a    *)
(* matter of numerics.                                                     *)
(***************************************************************************)
EXTENDS VisualizerBuffer, Sequences, Powers

CONSTANTS
    NUM_TIMES_TO_SUBDIVIDE, NUM_TRIANGLES,
    MIN_DIST_INCREMENT, MAX_DIST_INCREMENT, SPEED_INCREMENT

(* particles.h gives the number of triangles by hand, as 4 to the          *)
(* NUM_TIMES_TO_SUBDIVIDE + 1.                                             *)
ASSUME MeshAssumption ==
    /\ NUM_TIMES_TO_SUBDIVIDE \in Nat
    /\ NUM_TRIANGLES = Power(4, NUM_TIMES_TO_SUBDIVIDE + 1)
ASSUME CameraAssumption ==
    /\ MIN_DIST_INCREMENT \in Nat /\ SPEED_INCREMENT \in Nat \ {0}
    /\ MAX_DIST_INCREMENT >= MIN_DIST_INCREMENT /\ MAX_DIST_INCREMENT \in Nat

VARIABLES
    todo,           \* the faces still to be subdivided, by their counts
    Index,          \* of the next vertex: points and normals are set up to it
    speed           \* of the camera

NUM_VERTICES == 3 * NUM_TRIANGLES
ArraySize == 5 * NUM_VERTICES
Drawn == 4 * NUM_VERTICES .. 5 * NUM_VERTICES - 1    \* by glDrawArrays in display

mesh == <<todo, Index>>
scene == <<mesh, speed>>

(* Mutant of VisualizerInit: a sphere less. *)
VisualizerInitFour ==
    /\ Init
    /\ todo = [face \in 1 .. 4 * 4 |-> NUM_TIMES_TO_SUBDIVIDE]
    /\ Index = 0
    /\ speed = MIN_DIST_INCREMENT

VisualizerInit ==
    /\ Init
    /\ todo = [face \in 1 .. 5 * 4 |-> NUM_TIMES_TO_SUBDIVIDE]
    /\ Index = 0
    /\ speed = MIN_DIST_INCREMENT

InMainLoop == todo = <<>>

(* Mutant of DivideTriangle: one subdivision more. *)
DivideTriangleOnceMore ==
    /\ todo # <<>> /\ Head(todo) >= 0
    /\ todo' = [f \in 1 .. 4 |-> Head(todo) - 1] \o Tail(todo)
    /\ UNCHANGED <<Index, speed, vars>>

DivideTriangle ==
    /\ todo # <<>> /\ Head(todo) > 0
    /\ todo' = [f \in 1 .. 4 |-> Head(todo) - 1] \o Tail(todo)
    /\ UNCHANGED <<Index, speed, vars>>

(* triangle: three vertices with their normals.  The first sphere is given *)
(* the normals of its triangles, the others that of vertex a three times.  *)
Triangle ==
    /\ todo # <<>> /\ Head(todo) <= 0
    /\ todo' = Tail(todo)
    /\ Index' = Index + 3
    /\ UNCHANGED <<speed, vars>>
-----------------------------------------------------------------------------
Handler == Running /\ InMainLoop /\ displayPc = "idle"

(* SpecialKeys is called when a key goes down and again while it is held.  *)
Move ==
    /\ Handler
    /\ speed' = IF speed < MAX_DIST_INCREMENT THEN speed + SPEED_INCREMENT ELSE speed
    /\ UNCHANGED <<mesh, vars>>

(* One of the two keys goes up. *)
Release ==
    /\ Handler
    /\ speed' = MIN_DIST_INCREMENT
    /\ UNCHANGED <<mesh, vars>>

(* keyboard, for the letter q: exit *)
Quit ==
    /\ Handler
    /\ ExitProcess
    /\ UNCHANGED scene
-----------------------------------------------------------------------------
Meshing == DivideTriangle \/ Triangle
Keys == Quit \/ Move \/ Release
Displaying == InMainLoop /\ DisplayStep /\ UNCHANGED scene

VisualizerNext ==
    \/ (DataStep \/ Disconnect) /\ UNCHANGED scene
    \/ Running /\ Meshing
    \/ Displaying \/ Keys

(* The fairness of VisualizerBuffer, with the start of the GLUT thread *)
VisualizerSpec ==
    /\ VisualizerInit /\ [][VisualizerNext]_<<vars, scene>>
    /\ WF_vars(DataStep) /\ SF_vars(LockSlot)
    /\ WF_<<vars, scene>>(Running /\ Meshing)
    /\ WF_vars(Displaying) /\ SF_vars(InMainLoop /\ LockDisplay)
-----------------------------------------------------------------------------
SceneTypeOK ==
    /\ todo \in Seq(0 .. NUM_TIMES_TO_SUBDIVIDE) /\ Index \in Nat
    /\ speed \in MIN_DIST_INCREMENT .. MAX_DIST_INCREMENT + SPEED_INCREMENT - 1

(* The five spheres are never written beyond the end of the arrays, and    *)
(* all of the sphere that display draws, the last one, is set before it    *)
(* renders for the first time.                                             *)
MeshFitsDrawing ==
    /\ Index <= ArraySize
    /\ displayPc = "render" => \A v \in Drawn : v < Index

(* While the simulation sends, the display comes up and goes on, whatever  *)
(* keys are pressed: GLUT draws again and again once the spheres are made, *)
(* and the data thread, which starts before them, does not keep it out.    *)
DisplayComesUp ==
    [](connection # "closed") => [](ready => <>(displayPc = "render" \/ ~Running))
=============================================================================
