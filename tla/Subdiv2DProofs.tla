--------------------------- MODULE Subdiv2DProofs ---------------------------
(***************************************************************************)
(* Proofs about Subdiv2D for every value of its constants.                 *)
(*                                                                         *)
(* Many calls have the same effect on the object.  The definitions below   *)
(* list those effects, StepHasEffect shows that every step has one of      *)
(* them, and each invariant of the object is proved effect by effect.      *)
(*                                                                         *)
(* The second half proves that Subdiv2D implements SubdivisionContract:    *)
(* the listing of sites is ascending and complete (AscendingFacts); a      *)
(* Voronoi computation leaves nothing of a list of inserted points out     *)
(* (HoldingAll); and each effect is an action of the contract.             *)
(***************************************************************************)
EXTENDS Subdiv2D, FiniteSetTheorems, TLAPS

\* The caller is given the vertex of an inserted point, or none.
Issues(p) == \/ issued' = issued
             \/ \E v \in Sites \cup Super :
                   issued' = [issued EXCEPT ![v] = p[v]]

Quiet ==
    /\ Issues(pos)
    /\ UNCHANGED <<adaVars, live, usable, nativeVars>>

Initializes(op, r) ==
    /\ Descriptor(op, r) \in Valid[Factor(op)]
    /\ IF handle
       THEN InitHandle(Descriptor(op, r))
       ELSE CreateHandle(Descriptor(op, r))
    /\ Publish(op, r)
    /\ issued' = NothingIssued

InitializationBreaks(op, r) ==
    /\ Descriptor(op, r) \in Valid[Factor(op)]
    /\ InitHandleFails(Descriptor(op, r))
    /\ UNCHANGED <<mode, bounds, nativeBounds, issued>>

Inserts(p, v) ==
    /\ usable
    /\ InsertOne(p, v)
    /\ issued' = issued \/ issued' = [issued EXCEPT ![v] = pos'[v]]
    /\ UNCHANGED <<adaVars, live>>

\* The handle is marked unusable, whatever happened to the native object.
Breaks(p) ==
    /\ usable
    /\ usable' = FALSE
    /\ UNCHANGED nativeVars \/ NativeInsertBreaks(p)
                            \/ VoronoiComputed
    /\ UNCHANGED <<adaVars, live, issued>>

Computes ==
    /\ VoronoiComputed \/ VoronoiFailed
    /\ Issues(pos)
    /\ UNCHANGED <<adaVars, live, usable>>

Effect ==
    \/ Quiet
    \/ \E r \in IntRects : Initializes("Reset", r)
    \/ \E r \in Rects : Initializes("Reset_Float32", r)
    \/ \E r \in IntRects : InitializationBreaks("Reset", r)
    \/ \E r \in Rects : InitializationBreaks("Reset_Float32", r)
    \/ \E p : \E v \in Slot : Inserts(p, v)
    \/ \E p : Breaks(p)
    \/ Computes
    \/ Leave

-----------------------------------------------------------------------------
\* Every step has one of the effects.
LEMMA StepHasEffect == ASSUME [Next]_vars PROVE Effect
<1>1. CASE UNCHANGED vars
  BY <1>1 DEF vars, adaVars, nativeVars, Effect, Quiet, Issues
<1>2. CASE Declare
  BY <1>2 DEF Declare, Effect, Quiet, Issues
<1>3. CASE Leave
  BY <1>3 DEF Effect
<1>4. ASSUME NEW op, NEW r, Initialize(op, r)
      PROVE  \/ Quiet
             \/ Initializes(op, r)
             \/ InitializationBreaks(op, r)
  <2>1. CASE ResetRejected(op, r)
    BY <2>1 DEF ResetRejected, Raise, Quiet, Issues
  <2>2. CASE ResetSucceeds(op, r)
    BY <2>2 DEF ResetSucceeds, Initializes
  <2>3. CASE ResetFails(op, r)
    BY <2>3 DEF ResetFails, InitializationBreaks, CreateHandleFails, Quiet,
                Issues, adaVars
  <2>4. QED
    BY <1>4, <2>1, <2>2, <2>3 DEF Initialize
<1>5. CASE PointCall
  <2>1. PICK p \in Points \cup NonFinite :
           \/ InsertRefused(p)
           \/ InsertBreaks(p)
           \/ LocateEdge(p)
           \/ LocateRefused(p)
           \/ LocateUnknown(p)
           \/ FindNearestRaises(p)
           \/ FindNearestInvalid(p)
           \/ \E v \in Slot :
                 Insert(p, v) \/ LocateVertex(p, v) \/ FindNearest(p, v)
    BY <1>5 DEF PointCall
  <2>2. CASE InsertRefused(p) \/ LocateEdge(p) \/ LocateRefused(p)
    BY <2>2 DEF InsertRefused, LocateEdge, LocateRefused, Raise, Effect,
                Quiet, Issues
  <2>3. CASE InsertBreaks(p)
    BY <2>3 DEF InsertBreaks, InsertOneBreaks, Accepts, Effect, Breaks
  <2>4. CASE LocateUnknown(p)
    BY <2>4 DEF LocateUnknown, Accepts, Effect, Breaks
  <2>5. CASE FindNearestRaises(p)
    BY <2>5 DEF FindNearestRaises, Effect, Quiet, Computes, Issues
  <2>6. CASE FindNearestInvalid(p)
    BY <2>6 DEF FindNearestInvalid, Accepts, Effect, Breaks
  <2>7. ASSUME NEW v \in Slot, Insert(p, v)
        PROVE  Inserts(p, v)
    BY <2>7 DEF Insert, Accepts, Inserts
  <2>8. ASSUME NEW v \in Slot, LocateVertex(p, v)
        PROVE  Quiet
    BY <2>8 DEF LocateVertex, Return, Coincident, Quiet, Issues
  <2>9. ASSUME NEW v \in Slot, FindNearest(p, v)
        PROVE  Computes
    BY <2>9 DEF FindNearest, Return, Coincident, Computes, Issues
  <2>10. QED
    BY <2>1, <2>2, <2>3, <2>4, <2>5, <2>6, <2>7, <2>8, <2>9 DEF Effect
<1>6. CASE BatchCall
  <2>1. ASSUME NEW b \in Batches,
               BatchRejected(b) \/ BatchEmpty(b) \/ BatchStart(b)
        PROVE  Quiet
    BY <2>1 DEF BatchRejected, BatchEmpty, BatchStart, Raise, Quiet, Issues
  <2>2. ASSUME NEW v \in Slot, BatchInsert(v)
        PROVE  Inserts(NextPoint, v)
    BY <2>2 DEF BatchInsert, Inserts
  <2>3. CASE BatchRefused \/ BatchReturns
    BY <2>3 DEF BatchRefused, BatchReturns, BatchRaises, InsertOneRefused,
                Effect, Quiet, Issues
  <2>4. CASE BatchBreaks
    BY <2>4 DEF BatchBreaks, BatchRaises, InsertOneBreaks, Effect, Breaks
  <2>5. QED
    BY <1>6, <2>1, <2>2, <2>3, <2>4 DEF BatchCall, BatchStep, Effect
<1>7. CASE VoronoiCall
  <2>1. ASSUME NEW q, VoronoiRejected(q)
        PROVE  Quiet
    BY <2>1 DEF VoronoiRejected, Raise, Quiet, Issues
  <2>2. ASSUME NEW q, ReadVoronoi(q) \/ ReadVoronoiFails(q),
               UNCHANGED <<adaVars, live, usable, issued>>
        PROVE  Quiet \/ Computes
    BY <2>2 DEF ReadVoronoi, ReadVoronoiFails, Quiet, Computes, Issues
  <2>3. ASSUME NEW q, VoronoiCounts(q) \/ VoronoiCountsFails(q)
        PROVE  Quiet \/ Computes
    BY <2>2, <2>3 DEF VoronoiCounts, VoronoiCountsFails, VoronoiFails
  <2>4. CASE VoronoiStep
    BY <2>2, <2>4 DEF VoronoiStep, VoronoiFill, VoronoiFillFails,
                      VoronoiFails, Effect
  <2>5. QED
    BY <1>7, <2>1, <2>3, <2>4 DEF VoronoiCall, Effect
<1>8. QED
  BY <1>1, <1>2, <1>3, <1>4, <1>5, <1>6, <1>7 DEF Next, LifeCycle, Effect

-----------------------------------------------------------------------------
(* The object's variables have their types, and a usable handle has bounds *)
(* and a null slot that is never handed out.                               *)

ObjectType ==
    /\ handle \in BOOLEAN /\ usable \in BOOLEAN
    /\ mode \in {"none", "integer", "float32"}
    /\ bounds \in IntRects \cup {NoRect}
    /\ nativeBounds \in Rects \cup {NoRect}
    /\ frame \in Rects \cup {NoRect}
    /\ live \in Int
    /\ kind \in [Slot -> SlotKind]
    /\ pos \in [Slot -> Points \cup {NoPoint}]
    /\ qedges \in Nat
    /\ validGeometry \in BOOLEAN /\ torn \in BOOLEAN
    /\ diagram \in SUBSET Slot
    /\ issued \in [Slot -> Points \cup {NoPoint}]

UsableHasFrame == usable => frame \in Rects

\* Reset and Reset_Float32 pass on only accepted binary32 descriptors.
Argument(op, r) == \/ op = "Reset" /\ r \in IntRects
                   \/ op = "Reset_Float32" /\ r \in Rects

LEMMA DescriptorType ==
  ASSUME NEW op, NEW r, Argument(op, r)
  PROVE  Descriptor(op, r) \in Rects
<1>1. "Reset" # "Reset_Float32"
  OBVIOUS
<1>2. QED
  BY <1>1, ConstantsAssumption DEF Descriptor, Argument

\* A run of newPoint calls on storage k fills slots that held no point.
LEMMA VirtualSlotsType ==
  ASSUME NEW k, NEW S \in VirtualSlots(k)
  PROVE  /\ S \in SUBSET Slot
         /\ \A v \in S : k[v] \in {"free", "absent"}
BY DEF VirtualSlots, FreeSlots, AbsentSlots

\* calcVoronoi turns slots into Voronoi vertices or frees them, and neither
\* makes nor unmakes an inserted point.
LEMMA VoronoiKeepsPoints ==
  ASSUME ObjectType, VoronoiComputed \/ VoronoiFailed
  PROVE  /\ kind' \in [Slot -> SlotKind]
         /\ \A v \in Slot : kind'[v] = "delaunay" <=> kind[v] = "delaunay"
         /\ Sites' = Sites
<1>1. CASE kind' = kind
  BY <1>1 DEF ObjectType, Sites
<1>2. ASSUME NEW S \in VirtualSlots(ClearedKind),
             kind' = [v \in Slot |->
                        IF v \in S THEN "voronoi" ELSE ClearedKind[v]]
      PROVE  /\ kind' \in [Slot -> SlotKind]
             /\ \A v \in Slot : kind'[v] = "delaunay" <=> kind[v] = "delaunay"
  <2>1. \A v \in S : ClearedKind[v] \in {"free", "absent"}
    BY VirtualSlotsType
  <2>2. \A v \in Slot : /\ ClearedKind[v] \in SlotKind
                        /\ ClearedKind[v] = "delaunay" <=> kind[v] = "delaunay"
    BY DEF ClearedKind, ObjectType, SlotKind
  <2>3. QED
    BY <1>2, <2>1, <2>2 DEF SlotKind
<1>3. QED
  BY <1>1, <1>2 DEF VoronoiComputed, VoronoiFailed, Sites

ObjectInv == ObjectType /\ UsableHasFrame

\* A successful or failed initialization writes these values.
LEMMA InitializedType ==
  ASSUME NEW rect, NativeInit(rect) \/ NativeInitFails(rect)
  PROVE  /\ frame' = rect
         /\ kind' \in [Slot -> SlotKind]
         /\ pos' \in [Slot -> Points \cup {NoPoint}]
         /\ qedges' \in Nat
         /\ validGeometry' = FALSE
         /\ diagram' = {}
         /\ torn' \in BOOLEAN
<1>1. InitialKind \in [Slot -> SlotKind]
  BY DEF InitialKind, SlotKind, Slot
<1>2. [v \in Slot |-> "absent"] \in [Slot -> SlotKind]
  BY DEF SlotKind
<1>3. NoPositions \in [Slot -> Points \cup {NoPoint}]
  BY DEF NoPositions
<1>4. 0 \in Nat /\ InitialQuadEdges \in Nat
  BY DEF InitialQuadEdges
<1>5. QED
  BY <1>1, <1>2, <1>3, <1>4 DEF NativeInit, NativeInitFails

\* The slot newPoint takes.
LEMMA NewSlotsType ==
  ASSUME NEW v \in NewSlots(kind)
  PROVE  v \in Slot /\ kind[v] \in {"free", "absent"}
BY DEF NewSlots, FreeSlots, AbsentSlots

LEMMA ObjectInvInit == Init => ObjectInv
<1>1. [v \in Slot |-> "absent"] \in [Slot -> SlotKind]
  BY DEF SlotKind
<1>2. [v \in Slot |-> NoPoint] \in [Slot -> Points \cup {NoPoint}]
  OBVIOUS
<1>3. 0 \in Nat /\ 0 \in Int
  OBVIOUS
<1>4. QED
  BY <1>1, <1>2, <1>3
     DEF Init, NativeAbsent, ObjectInv, ObjectType, UsableHasFrame,
         NoPositions, NothingIssued

LEMMA ObjectInvNext == ObjectInv /\ [Next]_vars => ObjectInv'
<1> SUFFICES ASSUME ObjectInv, [Next]_vars
             PROVE  ObjectInv'
  OBVIOUS
<1>t. ObjectType /\ UsableHasFrame
  BY DEF ObjectInv
<1>i. ASSUME Issues(pos)
      PROVE  issued' \in [Slot -> Points \cup {NoPoint}]
  BY <1>t, <1>i, ConstantsAssumption DEF ObjectType, Issues, Sites, Super, Slot
<1>1. CASE Quiet
  BY <1>1, <1>t, <1>i DEF Quiet, adaVars, nativeVars, ObjectInv, ObjectType,
                          UsableHasFrame
<1>2. ASSUME NEW op, NEW r, Argument(op, r),
             Initializes(op, r) \/ InitializationBreaks(op, r)
      PROVE  ObjectInv'
  <2>1. Descriptor(op, r) \in Rects
    BY <1>2, DescriptorType
  <2>2. CASE Initializes(op, r)
    <3>1. NativeInit(Descriptor(op, r))
      BY <2>2 DEF Initializes, InitHandle, CreateHandle
    <3>2. /\ usable' = TRUE
          /\ handle' \in BOOLEAN
      BY <2>2, <1>t DEF Initializes, InitHandle, CreateHandle, ObjectType
    <3>a. live' = live \/ live' = live + 1
      BY <2>2 DEF Initializes, InitHandle, CreateHandle
    <3>b. live' \in Int
      BY <3>a, <1>t DEF ObjectType
    <3>3. /\ mode' \in {"none", "integer", "float32"}
          /\ bounds' \in IntRects \cup {NoRect}
          /\ nativeBounds' \in Rects \cup {NoRect}
      BY <2>2, <2>1, <1>2, <1>t
         DEF Initializes, Publish, Argument, ObjectType
    <3>4. issued' \in [Slot -> Points \cup {NoPoint}]
      BY <2>2 DEF Initializes, NothingIssued
    <3>5. QED
      BY <2>1, <3>1, <3>2, <3>b, <3>3, <3>4, InitializedType
         DEF ObjectInv, ObjectType, UsableHasFrame
  <2>3. CASE InitializationBreaks(op, r)
    <3>1. NativeInitFails(Descriptor(op, r)) /\ usable' = FALSE
      BY <2>3 DEF InitializationBreaks, InitHandleFails
    <3>2. UNCHANGED <<mode, bounds, nativeBounds, issued, live, handle>>
      BY <2>3 DEF InitializationBreaks, InitHandleFails
    <3>3. /\ frame' = Descriptor(op, r)
          /\ kind' \in [Slot -> SlotKind]
          /\ pos' \in [Slot -> Points \cup {NoPoint}]
          /\ qedges' \in Nat
          /\ validGeometry' = FALSE
          /\ diagram' = {}
          /\ torn' \in BOOLEAN
      BY <3>1, InitializedType
    <3>4. QED
      BY <1>t, <2>1, <3>1, <3>2, <3>3
         DEF ObjectInv, ObjectType, UsableHasFrame
  <2>4. QED
    BY <1>2, <2>2, <2>3
<1>3. ASSUME NEW p, NEW v \in Slot, Inserts(p, v)
      PROVE  ObjectInv'
  <2>1. usable /\ NativeInsert(p, v) /\ usable' = usable
    BY <1>3 DEF Inserts, InsertOne
  <2>2. p \in Points
    BY <1>t, <2>1, ConstantsAssumption DEF NativeInsert, UsableHasFrame
  <2>3. UNCHANGED <<handle, mode, bounds, nativeBounds, live>>
    BY <1>3 DEF Inserts, adaVars
  <2>a. kind' = kind \/ kind' = [kind EXCEPT ![v] = "delaunay"]
    BY <2>1 DEF NativeInsert, nativeVars
  <2>b. pos' = pos \/ pos' = [pos EXCEPT ![v] = p]
    BY <2>1 DEF NativeInsert, nativeVars
  <2>c. qedges' = qedges \/ qedges' = qedges + 3
    BY <2>1 DEF NativeInsert, nativeVars
  <2>d. qedges' \in Nat
    BY <2>c, <1>t DEF ObjectType
  <2>4. /\ kind' \in [Slot -> SlotKind]
        /\ pos' \in [Slot -> Points \cup {NoPoint}]
        /\ validGeometry' \in BOOLEAN
        /\ UNCHANGED <<frame, diagram, torn>>
    BY <1>t, <2>1, <2>2, <2>a, <2>b
       DEF NativeInsert, nativeVars, ObjectType, SlotKind
  <2>5. issued' \in [Slot -> Points \cup {NoPoint}]
    BY <1>t, <1>3, <2>4 DEF Inserts, ObjectType
  <2>6. QED
    BY <1>t, <2>1, <2>3, <2>d, <2>4, <2>5 DEF ObjectInv, ObjectType, UsableHasFrame
<1>4. ASSUME NEW p, Breaks(p)
      PROVE  ObjectInv'
  <2>1. /\ usable /\ usable' = FALSE
        /\ UNCHANGED <<handle, mode, bounds, nativeBounds, live, issued>>
    BY <1>4 DEF Breaks, adaVars
  <2>2. CASE UNCHANGED nativeVars
    BY <1>t, <2>1, <2>2 DEF nativeVars, ObjectInv, ObjectType, UsableHasFrame
  <2>3. CASE NativeInsertBreaks(p)
    <3>1. p \in Points
      BY <1>t, <2>1, <2>3, ConstantsAssumption
         DEF NativeInsertBreaks, UsableHasFrame
    <3>2. qedges' = qedges \/ qedges' \in qedges .. qedges + 2
      BY <2>3 DEF NativeInsertBreaks, nativeVars
    <3>3. qedges' \in Nat
      BY <1>t, <3>2 DEF ObjectType
    <3>4. /\ kind' \in [Slot -> SlotKind]
          /\ pos' \in [Slot -> Points \cup {NoPoint}]
          /\ validGeometry' \in BOOLEAN
          /\ torn' \in BOOLEAN
          /\ UNCHANGED <<frame, diagram>>
      <4>1. /\ kind \in [Slot -> SlotKind] /\ "delaunay" \in SlotKind
            /\ pos \in [Slot -> Points \cup {NoPoint}]
            /\ validGeometry \in BOOLEAN /\ torn \in BOOLEAN
        BY <1>t DEF ObjectType, SlotKind
      <4>2. CASE /\ torn' \in {torn, TRUE} /\ validGeometry' \in {validGeometry, FALSE}
                 /\ UNCHANGED <<frame, kind, pos, qedges, diagram>>
        BY <4>1, <4>2
      <4>3. ASSUME NEW v \in NewSlots(kind),
                   torn' = TRUE, kind' = [kind EXCEPT ![v] = "delaunay"],
                   pos' = [pos EXCEPT ![v] = p], validGeometry' = FALSE,
                   UNCHANGED <<frame, diagram>>
            PROVE  /\ kind' \in [Slot -> SlotKind]
                   /\ pos' \in [Slot -> Points \cup {NoPoint}]
                   /\ validGeometry' \in BOOLEAN
                   /\ torn' \in BOOLEAN
                   /\ UNCHANGED <<frame, diagram>>
        BY <3>1, <4>1, <4>3
      <4>4. QED
        BY <2>3, <4>2, <4>3 DEF NativeInsertBreaks
    <3>5. QED
      BY <1>t, <2>1, <3>3, <3>4 DEF ObjectInv, ObjectType, UsableHasFrame
  <2>4. CASE VoronoiComputed
    BY <1>t, <2>1, <2>4, VoronoiKeepsPoints
       DEF VoronoiComputed, ObjectInv, ObjectType, UsableHasFrame, Sites
  <2>5. QED
    BY <1>4, <2>2, <2>3, <2>4 DEF Breaks
<1>5. CASE Computes
  <2>1. UNCHANGED <<handle, mode, bounds, nativeBounds, live, usable>>
    BY <1>5 DEF Computes, adaVars
  <2>2. /\ kind' \in [Slot -> SlotKind]
        /\ validGeometry' \in BOOLEAN
        /\ diagram' \in SUBSET Slot
        /\ UNCHANGED <<frame, pos, qedges, torn>>
    BY <1>t, <1>5, VoronoiKeepsPoints
       DEF Computes, VoronoiComputed, VoronoiFailed, ObjectType, Sites
  <2>3. QED
    BY <1>t, <1>i, <1>5, <2>1, <2>2
       DEF Computes, ObjectInv, ObjectType, UsableHasFrame
<1>6. CASE Leave
  <2>1. live' \in Int
    BY <1>6, <1>t DEF Leave, ObjectType
  <2>2. [v \in Slot |-> "absent"] \in [Slot -> SlotKind]
    BY DEF SlotKind
  <2>3. NoPositions \in [Slot -> Points \cup {NoPoint}]
    BY DEF NoPositions
  <2>4. NothingIssued \in [Slot -> Points \cup {NoPoint}]
    BY DEF NothingIssued
  <2>5. 0 \in Nat
    OBVIOUS
  <2>6. QED
    BY <1>6, <2>1, <2>2, <2>3, <2>4, <2>5
       DEF Leave, ObjectInv, ObjectType, UsableHasFrame
<1>7. QED
  BY <1>1, <1>2, <1>3, <1>4, <1>5, <1>6, StepHasEffect DEF Effect, Argument

-----------------------------------------------------------------------------
(* Safety of the object.  Each invariant is inductive together with        *)
(* ObjectInv; the ones TLC checks follow from these.                       *)

\* A usable handle's bounds are the ones the Ada record publishes.
UsableBounds ==
    usable => /\ mode \in {"integer", "float32"}
              /\ frame = nativeBounds
              /\ mode = "integer" => /\ bounds \in IntRects
                                     /\ AsFloat32[bounds] = frame

\* A usable handle's null slot stays off the free list, and the vertices the
\* caller was given hold the points they held then.
UsableIssued ==
    usable => /\ kind[0] = "free"
              /\ \A v \in Slot : issued[v] # NoPoint =>
                    v # 0 /\ kind[v] = "delaunay" /\ pos[v] = issued[v]

UsableDiagram == usable /\ validGeometry => diagram = Sites

UsableRoom == usable => qedges <= MaximumQuadEdges

LEMMA WholeNext ==
  ASSUME [Next]_vars, UsableIsWhole
  PROVE  UsableIsWhole'
<1>1. ASSUME NEW op, NEW r, Initializes(op, r) \/ InitializationBreaks(op, r)
      PROVE  UsableIsWhole'
  BY <1>1 DEF Initializes, InitializationBreaks, InitHandle, CreateHandle,
              InitHandleFails, NativeInit, UsableIsWhole
<1>2. ASSUME NEW p, NEW v \in Slot, Inserts(p, v)
      PROVE  UsableIsWhole'
  BY <1>2 DEF Inserts, InsertOne, NativeInsert, nativeVars, UsableIsWhole
<1>3. ASSUME NEW p, Breaks(p)
      PROVE  UsableIsWhole'
  BY <1>3 DEF Breaks, UsableIsWhole
<1>4. CASE Computes
  BY <1>4 DEF Computes, VoronoiComputed, VoronoiFailed, UsableIsWhole
<1>5. CASE Quiet \/ Leave
  BY <1>5 DEF Quiet, Leave, nativeVars, UsableIsWhole
<1>6. QED
  BY <1>1, <1>2, <1>3, <1>4, <1>5, StepHasEffect DEF Effect

LEMMA OwnsNext ==
  ASSUME [Next]_vars, ObjectInv, HandleOwnsOne
  PROVE  HandleOwnsOne'
<1>t. handle \in BOOLEAN /\ live \in Int
  BY DEF ObjectInv, ObjectType
<1>1. ASSUME NEW op, NEW r, Initializes(op, r)
      PROVE  HandleOwnsOne'
  <2>1. CASE handle
    BY <1>1, <2>1 DEF Initializes, InitHandle, HandleOwnsOne
  <2>2. CASE ~handle
    BY <1>1, <2>2 DEF Initializes, CreateHandle, HandleOwnsOne
  <2>3. QED
    BY <2>1, <2>2
<1>2. ASSUME NEW op, NEW r, InitializationBreaks(op, r)
      PROVE  HandleOwnsOne'
  BY <1>2 DEF InitializationBreaks, InitHandleFails, HandleOwnsOne
<1>3. ASSUME UNCHANGED <<live, handle>>
      PROVE  HandleOwnsOne'
  BY <1>3 DEF HandleOwnsOne
<1>4. CASE Leave
  <2>1. CASE handle
    BY <1>4, <2>1 DEF Leave, HandleOwnsOne
  <2>2. CASE ~handle
    BY <1>4, <2>2 DEF Leave, HandleOwnsOne
  <2>3. QED
    BY <2>1, <2>2
<1>5. QED
  BY <1>1, <1>2, <1>3, <1>4, StepHasEffect
     DEF Effect, Quiet, Inserts, Breaks, Computes, adaVars

LEMMA BoundsNext ==
  ASSUME [Next]_vars, ObjectInv, UsableBounds
  PROVE  UsableBounds'
<1>1. ASSUME NEW op, NEW r, Argument(op, r), Initializes(op, r)
      PROVE  UsableBounds'
  <2>1. frame' = Descriptor(op, r)
    BY <1>1 DEF Initializes, InitHandle, CreateHandle, NativeInit
  <2>2. Publish(op, r)
    BY <1>1 DEF Initializes
  <2>3. CASE op = "Reset" /\ r \in IntRects
    BY <2>1, <2>2, <2>3 DEF Publish, Descriptor, UsableBounds
  <2>4. CASE op = "Reset_Float32" /\ r \in Rects
    <3>1. op # "Reset"
      BY <2>4
    <3>2. mode' = "float32" /\ mode' # "integer" /\ nativeBounds' = frame'
      BY <2>1, <2>2, <3>1 DEF Publish
    <3>3. QED
      BY <3>2 DEF UsableBounds
  <2>5. QED
    BY <1>1, <2>3, <2>4 DEF Argument
<1>2. ASSUME NEW op, NEW r, InitializationBreaks(op, r)
      PROVE  UsableBounds'
  BY <1>2 DEF InitializationBreaks, InitHandleFails, UsableBounds
<1>3. ASSUME UNCHANGED <<mode, bounds, nativeBounds, frame>>, usable' => usable
      PROVE  UsableBounds'
  BY <1>3 DEF UsableBounds
<1>4. ASSUME NEW p, NEW v \in Slot, Inserts(p, v)
      PROVE  UsableBounds'
  BY <1>3, <1>4 DEF Inserts, InsertOne, NativeInsert, nativeVars, adaVars
<1>5. ASSUME NEW p, Breaks(p)
      PROVE  UsableBounds'
  BY <1>5 DEF Breaks, UsableBounds
<1>6. CASE Computes
  BY <1>3, <1>6 DEF Computes, VoronoiComputed, VoronoiFailed, adaVars
<1>7. CASE Quiet \/ Leave
  BY <1>3, <1>7 DEF Quiet, Leave, nativeVars, adaVars, UsableBounds
<1>8. QED
  BY <1>1, <1>2, <1>4, <1>5, <1>6, <1>7, StepHasEffect DEF Effect, Argument

LEMMA RoomNext ==
  ASSUME [Next]_vars, ObjectInv, UsableRoom
  PROVE  UsableRoom'
<1>1. ASSUME NEW op, NEW r, Initializes(op, r)
      PROVE  UsableRoom'
  <2>1. qedges' = 4
    BY <1>1 DEF Initializes, InitHandle, CreateHandle, NativeInit,
                InitialQuadEdges
  <2>2. QED
    BY <2>1, ConstantsAssumption DEF UsableRoom, MaximumQuadEdges
<1>2. ASSUME NEW op, NEW r, InitializationBreaks(op, r)
      PROVE  UsableRoom'
  BY <1>2 DEF InitializationBreaks, InitHandleFails, UsableRoom
<1>3. ASSUME UNCHANGED qedges, usable' => usable
      PROVE  UsableRoom'
  BY <1>3 DEF UsableRoom, MaximumQuadEdges
<1>4. ASSUME NEW p, NEW v \in Slot, Inserts(p, v)
      PROVE  UsableRoom'
  <2>1. HasRoom /\ (qedges' = qedges \/ qedges' = qedges + 3)
    BY <1>4 DEF Inserts, InsertOne, NativeInsert, nativeVars
  <2>2. qedges \in Nat /\ MaximumQuadEdges \in Int
    BY ConstantsAssumption DEF ObjectInv, ObjectType, MaximumQuadEdges
  <2>3. qedges' <= MaximumQuadEdges
    BY <2>1, <2>2 DEF HasRoom
  <2>4. QED
    BY <2>3 DEF UsableRoom, MaximumQuadEdges
<1>5. ASSUME NEW p, Breaks(p)
      PROVE  UsableRoom'
  BY <1>5 DEF Breaks, UsableRoom
<1>6. CASE Computes
  BY <1>3, <1>6 DEF Computes, VoronoiComputed, VoronoiFailed
<1>7. CASE Quiet \/ Leave
  BY <1>3, <1>7 DEF Quiet, Leave, nativeVars, UsableRoom
<1>8. QED
  BY <1>1, <1>2, <1>4, <1>5, <1>6, <1>7, StepHasEffect DEF Effect

\* Voronoi vertices never take the null slot.
LEMMA VoronoiKeepsNull ==
  ASSUME ObjectType, VoronoiComputed \/ VoronoiFailed, kind[0] = "free"
  PROVE  kind'[0] = "free"
<1>1. 0 \in Slot
  BY ConstantsAssumption DEF Slot
<1>2. CASE kind' = kind
  BY <1>2
<1>3. ASSUME NEW S \in VirtualSlots(ClearedKind),
             kind' = [v \in Slot |->
                        IF v \in S THEN "voronoi" ELSE ClearedKind[v]]
      PROVE  kind'[0] = "free"
  <2>1. ClearedKind[0] = "free"
    BY <1>1 DEF ClearedKind
  <2>2. 0 \notin S
    BY <2>1 DEF VirtualSlots, FreeSlots, AbsentSlots
  <2>3. QED
    BY <1>1, <1>3, <2>1, <2>2
<1>4. QED
  BY <1>2, <1>3 DEF VoronoiComputed, VoronoiFailed

\* The super-triangle's slots stay its own, so newPoint never returns them.
UsableSuper == usable => \A v \in Super : kind[v] = "delaunay"

LEMMA SuperNext ==
  ASSUME [Next]_vars, ObjectInv, UsableSuper
  PROVE  UsableSuper'
<1>s. \A v \in Super : v \in Slot /\ v # 0
  BY ConstantsAssumption DEF Slot, Super
<1>t. ObjectType
  BY DEF ObjectInv
<1>1. ASSUME NEW op, NEW r, Initializes(op, r)
      PROVE  UsableSuper'
  <2>1. kind' = InitialKind
    BY <1>1 DEF Initializes, InitHandle, CreateHandle, NativeInit
  <2>2. \A v \in Super : v <= 3
    BY DEF Super
  <2>3. QED
    BY <1>s, <2>1, <2>2 DEF InitialKind, UsableSuper
<1>2. ASSUME ~usable'
      PROVE  UsableSuper'
  BY <1>2 DEF UsableSuper
<1>3. ASSUME usable, \A v \in Super : kind[v] = "delaunay"
                                          => kind'[v] = "delaunay"
      PROVE  UsableSuper'
  BY <1>3 DEF UsableSuper
<1>4. ASSUME NEW p, NEW v \in Slot, Inserts(p, v)
      PROVE  UsableSuper'
  <2>1. kind' = kind \/ kind' = [kind EXCEPT ![v] = "delaunay"]
    BY <1>4 DEF Inserts, InsertOne, NativeInsert, nativeVars
  <2>2. \A u \in Slot : kind[u] = "delaunay" => kind'[u] = "delaunay"
    BY <1>t, <2>1 DEF ObjectType
  <2>3. QED
    BY <1>s, <1>3, <1>4, <2>2 DEF Inserts
<1>5. CASE Computes /\ usable
  <2>1. \A v \in Slot : kind'[v] = "delaunay" <=> kind[v] = "delaunay"
    BY <1>t, <1>5, VoronoiKeepsPoints DEF Computes
  <2>2. QED
    BY <1>s, <1>3, <1>5, <2>1
<1>6. CASE Quiet /\ usable
  BY <1>3, <1>6 DEF Quiet, nativeVars
<1>7. ASSUME NEW op, NEW r, NEW p, \/ InitializationBreaks(op, r)
                                   \/ Breaks(p)
                                   \/ Leave
                                   \/ (Quiet \/ Computes) /\ ~usable
      PROVE  UsableSuper'
  BY <1>2, <1>7 DEF InitializationBreaks, InitHandleFails, Breaks, Leave,
                    Quiet, Computes
<1>8. QED
  BY <1>1, <1>4, <1>5, <1>6, <1>7, StepHasEffect DEF Effect

LEMMA IssuedNext ==
  ASSUME [Next]_vars, ObjectInv, UsableSuper, UsableIssued
  PROVE  UsableIssued'
<1>s. /\ 0 \in Slot
      /\ \A v \in Slot : v >= 4 => v # 0
      /\ \A v \in Super : v \in Slot /\ v # 0
  BY ConstantsAssumption DEF Slot, Super
<1>t. ObjectType
  BY DEF ObjectInv
<1>i. ASSUME Issues(pos), usable, UNCHANGED pos,
             kind'[0] = "free",
             \A v \in Slot : kind'[v] = "delaunay" <=> kind[v] = "delaunay"
      PROVE  UsableIssued'
  <2>1. CASE issued' = issued
    BY <1>i, <2>1 DEF UsableIssued
  <2>2. ASSUME NEW v \in Sites \cup Super, issued' = [issued EXCEPT ![v] = pos[v]]
        PROVE  UsableIssued'
    <3>1. v \in Slot /\ v # 0 /\ kind[v] = "delaunay" /\ issued'[v] = pos[v]
      BY <1>s, <1>t, <1>i, <2>2 DEF Sites, ObjectType, UsableSuper
    <3>2. \A u \in Slot : u # v => issued'[u] = issued[u]
      BY <1>t, <2>2 DEF ObjectType
    <3>3. QED
      BY <1>i, <3>1, <3>2 DEF UsableIssued
  <2>3. QED
    BY <1>i, <2>1, <2>2 DEF Issues
<1>1. ASSUME NEW op, NEW r, Initializes(op, r)
      PROVE  UsableIssued'
  <2>1. kind'[0] = "free"
    BY <1>1, <1>s DEF Initializes, InitHandle, CreateHandle, NativeInit,
                      InitialKind
  <2>2. \A v \in Slot : issued'[v] = NoPoint
    BY <1>1 DEF Initializes, NothingIssued
  <2>3. QED
    BY <2>1, <2>2 DEF UsableIssued
<1>2. ASSUME ~usable'
      PROVE  UsableIssued'
  BY <1>2 DEF UsableIssued
<1>3. ASSUME NEW p, NEW v \in Slot, Inserts(p, v)
      PROVE  UsableIssued'
  <2>1. usable /\ NativeInsert(p, v)
    BY <1>3 DEF Inserts, InsertOne
  <2>2. issued' = issued \/ issued' = [issued EXCEPT ![v] = pos'[v]]
    BY <1>3 DEF Inserts
  <2>3. \A u \in Slot : u # v => issued'[u] = issued[u]
    BY <1>t, <2>2 DEF ObjectType
  <2>4. issued'[v] = issued[v] \/ issued'[v] = pos'[v]
    BY <1>t, <2>2 DEF ObjectType
  <2>5. CASE v \in Coincident(p) /\ UNCHANGED nativeVars
    <3>1. v # 0 /\ kind[v] = "delaunay" /\ UNCHANGED <<kind, pos>>
      BY <1>s, <2>1, <2>5 DEF Coincident, Sites, nativeVars, UsableSuper
    <3>2. QED
      BY <2>1, <2>3, <2>4, <3>1 DEF UsableIssued
  <2>6. CASE /\ v \in NewSlots(kind)
             /\ kind' = [kind EXCEPT ![v] = "delaunay"]
             /\ pos' = [pos EXCEPT ![v] = p]
    <3>1. v # 0 /\ kind[v] # "delaunay"
      BY <2>1, <2>6, NewSlotsType DEF NewSlots, FreeSlots, AbsentSlots,
                                      UsableIssued
    <3>2. issued[v] = NoPoint
      BY <2>1, <3>1 DEF UsableIssued
    <3>3. kind'[v] = "delaunay" /\ pos'[v] = p
      BY <1>t, <2>6 DEF ObjectType
    <3>4. \A u \in Slot : u # v => kind'[u] = kind[u] /\ pos'[u] = pos[u]
      BY <1>t, <2>6 DEF ObjectType
    <3>5. kind'[0] = "free"
      BY <1>s, <2>1, <3>1, <3>4 DEF UsableIssued
    <3>6. ASSUME NEW u \in Slot, issued'[u] # NoPoint
          PROVE  u # 0 /\ kind'[u] = "delaunay" /\ pos'[u] = issued'[u]
      <4>1. CASE u = v
        BY <2>4, <3>1, <3>2, <3>3, <3>6, <4>1
      <4>2. CASE u # v
        BY <2>1, <2>3, <3>4, <3>6, <4>2 DEF UsableIssued
      <4>3. QED
        BY <4>1, <4>2
    <3>7. QED
      BY <3>5, <3>6 DEF UsableIssued
  <2>7. QED
    BY <2>1, <2>5, <2>6 DEF NativeInsert
<1>4. CASE Quiet /\ usable
  BY <1>i, <1>4 DEF Quiet, nativeVars, UsableIssued
<1>5. CASE Computes /\ usable
  <2>1. UNCHANGED pos /\ Issues(pos) /\ (VoronoiComputed \/ VoronoiFailed)
    BY <1>5 DEF Computes, VoronoiComputed, VoronoiFailed
  <2>2. QED
    BY <1>i, <1>t, <1>5, <2>1, VoronoiKeepsNull, VoronoiKeepsPoints
       DEF UsableIssued
<1>6. CASE (Quiet \/ Computes) /\ ~usable
  BY <1>2, <1>6 DEF Quiet, Computes
<1>7. ASSUME NEW op, NEW r, InitializationBreaks(op, r)
      PROVE  UsableIssued'
  BY <1>2, <1>7 DEF InitializationBreaks, InitHandleFails
<1>8. ASSUME NEW p, Breaks(p)
      PROVE  UsableIssued'
  BY <1>2, <1>8 DEF Breaks
<1>9. CASE Leave
  BY <1>2, <1>9 DEF Leave
<1>10. QED
  BY <1>1, <1>3, <1>4, <1>5, <1>6, <1>7, <1>8, <1>9, StepHasEffect DEF Effect

LEMMA DiagramNext ==
  ASSUME [Next]_vars, ObjectInv, UsableDiagram
  PROVE  UsableDiagram'
<1>t. ObjectType
  BY DEF ObjectInv
<1>1. ASSUME ~usable' \/ ~validGeometry'
      PROVE  UsableDiagram'
  BY <1>1 DEF UsableDiagram
<1>2. ASSUME UNCHANGED <<usable, kind, validGeometry, diagram>>
      PROVE  UsableDiagram'
  BY <1>2 DEF UsableDiagram, Sites
<1>3. ASSUME NEW op, NEW r, Initializes(op, r) \/ InitializationBreaks(op, r)
      PROVE  UsableDiagram'
  BY <1>1, <1>3 DEF Initializes, InitializationBreaks, InitHandle,
                    CreateHandle, InitHandleFails, NativeInit
<1>4. ASSUME NEW p, NEW v \in Slot, Inserts(p, v)
      PROVE  UsableDiagram'
  BY <1>1, <1>2, <1>4 DEF Inserts, InsertOne, NativeInsert, nativeVars
<1>5. ASSUME NEW p, Breaks(p)
      PROVE  UsableDiagram'
  BY <1>1, <1>5 DEF Breaks
<1>6. CASE Computes
  <2>1. Sites' = Sites /\ UNCHANGED usable
    BY <1>t, <1>6, VoronoiKeepsPoints DEF Computes
  <2>2. CASE UNCHANGED <<validGeometry, diagram>>
    BY <2>1, <2>2 DEF UsableDiagram
  <2>3. CASE diagram' = Sites
    BY <2>1, <2>3 DEF UsableDiagram
  <2>4. QED
    BY <1>6, <2>2, <2>3 DEF Computes, VoronoiComputed, VoronoiFailed
<1>7. CASE Quiet \/ Leave
  BY <1>1, <1>2, <1>7 DEF Quiet, Leave, nativeVars
<1>8. QED
  BY <1>3, <1>4, <1>5, <1>6, <1>7, StepHasEffect DEF Effect

-----------------------------------------------------------------------------
(* The call in progress.                                                   *)

\* A call in progress keeps its object in scope.
Control ==
    /\ scope \in BOOLEAN
    /\ call \in {"idle", "batch", "voronoi"}
    /\ answer.status \in {"ok", "error"}
    /\ call # "idle" => scope

\* What the steps that do not belong to a batch do to one: nothing.
Elsewhere ==
    /\ UNCHANGED batch
    /\ call = "batch" => UNCHANGED vars
    /\ call # "batch" => call' # "batch"

\* Answers with more fields filled in.
LEMMA AnswerStatus ==
  ASSUME NEW op, NEW x, NEW y
  PROVE  /\ [Answer(op, "ok") EXCEPT !.mode = x, !.rect = y].status = "ok"
         /\ [Answer(op, "ok") EXCEPT !.asked = x, !.sites = y].status = "ok"
BY Zenon DEF Answer

LEMMA ControlNext ==
  ASSUME [Next]_vars, Control
  PROVE  /\ Control'
         /\ Elsewhere \/ BatchStep \/ \E b \in Batches : BatchStart(b)
<1>1. CASE UNCHANGED vars
  BY <1>1 DEF vars, callVars, Control, Elsewhere
<1>2. CASE Declare \/ Leave
  BY <1>2 DEF Declare, Leave, Idle, callVars, Control, Elsewhere
<1>3. ASSUME NEW op, NEW r, Initialize(op, r)
      PROVE  Control' /\ Elsewhere
  <2>1. call = "idle"
    BY <1>3 DEF Initialize, ResetRejected, ResetSucceeds, ResetFails,
                MayReset, Idle, Control
  <2>2. scope' = scope \/ scope' = TRUE
    BY <1>3 DEF Initialize, ResetRejected, ResetSucceeds, ResetFails, Raise
  <2>3. UNCHANGED <<call, batch>>
    BY <1>3 DEF Initialize, ResetRejected, ResetSucceeds, ResetFails, Raise,
                callVars
  <2>4. answer'.status = "ok" \/ answer'.status = "error"
    <3>1. CASE ResetSucceeds(op, r)
      BY <3>1, AnswerStatus DEF ResetSucceeds
    <3>2. CASE ResetRejected(op, r) \/ ResetFails(op, r)
      BY <3>2 DEF ResetRejected, ResetFails, Raise, Raised, Answer
    <3>3. QED
      BY <1>3, <3>1, <3>2 DEF Initialize
  <2>5. QED
    BY <2>1, <2>2, <2>3, <2>4 DEF Control, Elsewhere
<1>4. ASSUME NEW p,
             \/ InsertRefused(p)
             \/ InsertBreaks(p)
             \/ LocateEdge(p)
             \/ LocateRefused(p)
             \/ LocateUnknown(p)
             \/ FindNearestRaises(p)
             \/ FindNearestInvalid(p)
      PROVE  Control' /\ Elsewhere
  BY <1>4 DEF InsertRefused, InsertBreaks, LocateEdge, LocateRefused,
              LocateUnknown, FindNearestRaises, FindNearestInvalid,
              Idle, Raise, Raised, Answer, callVars, Control, Elsewhere
<1>5. ASSUME NEW p, NEW v,
             Insert(p, v) \/ LocateVertex(p, v) \/ FindNearest(p, v)
      PROVE  Control' /\ Elsewhere
  BY <1>5 DEF Insert, LocateVertex, FindNearest, Return, Idle, Answer,
              callVars, Control, Elsewhere
<1>6. CASE PointCall
  BY <1>4, <1>5, <1>6 DEF PointCall
<1>7. CASE BatchCall
  <2>1. ASSUME NEW b \in Batches, BatchRejected(b) \/ BatchEmpty(b)
        PROVE  Control' /\ Elsewhere
    BY <2>1 DEF BatchRejected, BatchEmpty, Idle, Raise, Raised, Answer,
                callVars, Control, Elsewhere
  <2>2. ASSUME NEW b \in Batches, BatchStart(b)
        PROVE  Control'
    BY <2>2 DEF BatchStart, Idle, Control
  <2>3. CASE BatchStep
    BY <2>3 DEF BatchStep, BatchInsert, BatchRefused, BatchBreaks,
                BatchReturns, BatchRaises, Raised, Answer, Control
  <2>4. QED
    BY <1>7, <2>1, <2>2, <2>3 DEF BatchCall
<1>8. CASE VoronoiCall
  <2>a. ASSUME NEW q, NEW sites,
               VoronoiReturns(q, sites) \/ VoronoiRaises \/ InvalidResult
        PROVE  call' = "idle" /\ answer'.status \in {"ok", "error"}
    <3>1. CASE VoronoiReturns(q, sites)
      BY <3>1, AnswerStatus DEF VoronoiReturns
    <3>2. CASE VoronoiRaises \/ InvalidResult
      BY <3>2 DEF VoronoiRaises, InvalidResult, Raised, Answer
    <3>3. QED
      BY <2>a, <3>1, <3>2
  <2>1. ASSUME NEW q, VoronoiRejected(q)
        PROVE  Control' /\ Elsewhere
    BY <2>1 DEF VoronoiRejected, Idle, Raise, Raised, Answer, callVars,
                Control, Elsewhere
  <2>2. ASSUME NEW q, VoronoiCounts(q) \/ VoronoiCountsFails(q)
        PROVE  Control' /\ Elsewhere
    <3>1. call = "idle" /\ scope /\ UNCHANGED <<scope, batch>>
      BY <2>2 DEF VoronoiCounts, VoronoiCountsFails, VoronoiFails, Idle
    <3>2. \/ VoronoiReturns(q, <<>>) \/ VoronoiRaises \/ InvalidResult
          \/ call' = "voronoi" /\ answer' = answer
      BY <2>2 DEF VoronoiCounts, VoronoiCountsFails, VoronoiFails
    <3>3. QED
      BY <2>a, <3>1, <3>2 DEF Control, Elsewhere
  <2>3. CASE VoronoiStep
    <3>1. call = "voronoi" /\ UNCHANGED <<scope, batch>>
      BY <2>3 DEF VoronoiStep, VoronoiFill, VoronoiFillFails, VoronoiFails
    <3>2. \/ \E sites : VoronoiReturns(request, sites)
          \/ VoronoiRaises \/ InvalidResult
      BY <2>3 DEF VoronoiStep, VoronoiFill, VoronoiFillFails, VoronoiFails
    <3>3. QED
      BY <2>a, <3>1, <3>2 DEF Control, Elsewhere
  <2>4. QED
    BY <1>8, <2>1, <2>2, <2>3 DEF VoronoiCall
<1>9. QED
  BY <1>1, <1>2, <1>3, <1>6, <1>7, <1>8 DEF Next, LifeCycle

\* Where a batch stands: First and Remaining describe the rest of the array,
\* Inserted lies inside the chunk, and the point it names is the next one.
BatchInv ==
    /\ batch \in [base : Nat, points : Seq(Points), first : Nat,
                  remaining : Nat, inserted : Nat, done : Nat]
    /\ batch.base + Len(batch.points) - 1 <= NaturalLast
    /\ batch.first <= NaturalLast
    /\ batch.remaining = 0 => batch.done = Len(batch.points)
    /\ batch.remaining > 0 =>
          /\ batch.first + batch.remaining = batch.base + Len(batch.points)
          /\ batch.inserted < Count
          /\ batch.done = batch.first - batch.base + batch.inserted

LEMMA NoBatchInv == ASSUME batch = NoBatch PROVE BatchInv
<1>1. <<>> \in Seq(Points) /\ Len(<<>>) = 0
  OBVIOUS
<1>2. NoBatch \in [base : Nat, points : Seq(Points), first : Nat,
                   remaining : Nat, inserted : Nat, done : Nat]
  BY <1>1 DEF NoBatch
<1>3. NaturalLast \in Nat
  BY ConstantsAssumption
<1>4. /\ batch.base = 0 /\ batch.points = <<>> /\ batch.first = 0
      /\ batch.remaining = 0 /\ batch.done = 0
  BY DEF NoBatch
<1>5. QED
  BY <1>1, <1>2, <1>3, <1>4 DEF BatchInv

LEMMA BatchNext ==
  ASSUME [Next]_vars, Control, BatchInv
  PROVE  BatchInv'
<1>c. ChunkLength \in Nat \ {0} /\ NaturalLast \in Nat
  BY ConstantsAssumption
<1>1. CASE Elsewhere
  BY <1>1 DEF Elsewhere, BatchInv, Count
<1>2. ASSUME NEW b \in Batches, BatchStart(b)
      PROVE  BatchInv'
  <2>1. /\ b.first \in Nat /\ b.points \in Seq(Points)
        /\ Len(b.points) \in Nat /\ Len(b.points) > 0
        /\ b.first + Len(b.points) - 1 <= NaturalLast
    BY <1>2, BatchesAssumption DEF BatchStart
  <2>2. batch' = [base |-> b.first, points |-> b.points, first |-> b.first,
                  remaining |-> Len(b.points), inserted |-> 0, done |-> 0]
    BY <1>2 DEF BatchStart
  <2>3. QED
    BY <1>c, <2>1, <2>2 DEF BatchInv, Count
<1>3. ASSUME NEW v, BatchInsert(v)
      PROVE  BatchInv'
  <2>1. batch.remaining > 0
    BY <1>3 DEF BatchInsert, ChunkRuns
  <2>2. /\ Count \in Nat /\ Count > 0 /\ Count <= batch.remaining
        /\ batch.remaining > Count => Count = ChunkLength
    BY <1>c, <2>1 DEF Count, BatchInv
  <2>t. /\ batch.base \in Nat /\ batch.first \in Nat /\ batch.remaining \in Nat
        /\ batch.inserted \in Nat /\ batch.done \in Nat
        /\ Len(batch.points) \in Nat /\ batch.points \in Seq(Points)
    BY DEF BatchInv
  <2>3. CASE batch.inserted + 1 < Count
    <3>1. batch' = [batch EXCEPT !.inserted = @ + 1, !.done = @ + 1]
      BY <1>3, <2>3 DEF BatchInsert
    <3>a. batch.inserted + 1 \in Nat /\ batch.done + 1 \in Nat
      BY <2>t
    <3>2. /\ batch'.base = batch.base /\ batch'.points = batch.points
          /\ batch'.first = batch.first /\ batch'.remaining = batch.remaining
          /\ batch'.inserted = batch.inserted + 1
          /\ batch'.done = batch.done + 1
          /\ batch' \in [base : Nat, points : Seq(Points), first : Nat,
                         remaining : Nat, inserted : Nat, done : Nat]
      BY <3>1, <3>a, Zenon DEF BatchInv
    <3>3. Count' = Count
      BY <3>2 DEF Count
    <3>4. QED
      BY <2>1, <2>2, <2>3, <2>t, <3>2, <3>3 DEF BatchInv
  <2>4. CASE ~(batch.inserted + 1 < Count)
    <3>0. batch.inserted + 1 = Count
      BY <2>1, <2>2, <2>4, <2>t DEF BatchInv
    <3>1. batch' = [batch EXCEPT
                      !.remaining = @ - Count,
                      !.first = NextFirst,
                      !.inserted = 0,
                      !.done = @ + 1]
      BY <1>3, <2>4 DEF BatchInsert
    <3>a. /\ batch.done + 1 \in Nat /\ 0 \in Nat
          /\ batch.remaining - Count \in Nat
          /\ NextFirst \in Nat
      BY <2>2, <2>t DEF NextFirst
    <3>2. /\ batch'.base = batch.base /\ batch'.points = batch.points
          /\ batch'.first = NextFirst
          /\ batch'.remaining = batch.remaining - Count
          /\ batch'.inserted = 0
          /\ batch'.done = batch.done + 1
          /\ batch' \in [base : Nat, points : Seq(Points), first : Nat,
                         remaining : Nat, inserted : Nat, done : Nat]
      BY <3>1, <3>a, Zenon DEF BatchInv
    <3>3. CASE batch.remaining > Count
      <4>1. Count' > 0
        BY <1>c, <2>2, <2>t, <3>2, <3>3 DEF Count
      <4>2. PICK n \in Nat : n = Len(batch.points)
        BY <2>t
      <4>3. /\ batch.base \in Nat /\ batch.first \in Nat
            /\ batch.remaining \in Nat /\ batch.done \in Nat
            /\ batch.inserted \in Nat /\ Count \in Nat
        BY <2>2, <2>t
      <4>4. /\ batch.first + batch.remaining = batch.base + n
            /\ batch.done = batch.first - batch.base + batch.inserted
            /\ batch.base + n - 1 <= NaturalLast
        BY <2>1, <4>2 DEF BatchInv
      <4>5. /\ batch.remaining - Count > 0
            /\ (batch.first + Count) + (batch.remaining - Count)
                  = batch.base + n
            /\ batch.done + 1 = (batch.first + Count) - batch.base + 0
            /\ batch.first + Count <= NaturalLast
        BY <1>c, <3>0, <3>3, <4>3, <4>4
      <4>6. /\ batch'.first = batch.first + Count
            /\ Len(batch'.points) = n
        BY <3>2, <3>3, <4>2 DEF NextFirst
      <4>7. /\ batch'.remaining > 0
            /\ batch'.first + batch'.remaining
                  = batch'.base + Len(batch'.points)
            /\ batch'.done = batch'.first - batch'.base + batch'.inserted
            /\ batch'.base + Len(batch'.points) - 1 <= NaturalLast
            /\ batch'.first <= NaturalLast
        BY <3>2, <4>4, <4>5, <4>6
      <4>8. batch'.inserted < Count'
        BY <3>2, <4>1
      <4>9. QED
        BY <3>2, <4>7, <4>8 DEF BatchInv
    <3>4. CASE batch.remaining = Count
      BY <2>1, <2>2, <2>t, <3>0, <3>2, <3>4 DEF BatchInv, NextFirst
    <3>5. QED
      BY <2>2, <2>t, <3>3, <3>4
  <2>5. QED
    BY <2>3, <2>4
<1>4. CASE BatchRefused \/ BatchBreaks \/ BatchReturns
  <2>1. batch' = NoBatch
    BY <1>4 DEF BatchRefused, BatchBreaks, BatchReturns, BatchRaises
  <2>2. <<>> \in Seq(Points) /\ Len(<<>>) = 0
    OBVIOUS
  <2>3. batch' \in [base : Nat, points : Seq(Points), first : Nat,
                    remaining : Nat, inserted : Nat, done : Nat]
    BY <2>1, <2>2 DEF NoBatch
  <2>4. /\ batch'.base = 0 /\ batch'.points = <<>> /\ batch'.first = 0
        /\ batch'.remaining = 0 /\ batch'.done = 0
    BY <2>1 DEF NoBatch
  <2>5. QED
    BY <1>c, <2>2, <2>3, <2>4 DEF BatchInv
<1>5. QED
  BY <1>1, <1>2, <1>3, <1>4, ControlNext DEF BatchStep

-----------------------------------------------------------------------------
(* The points a batch has passed have vertices.                            *)

LEMMA PrefixNext ==
  ASSUME [Next]_vars, ObjectInv, Control, BatchInv, UsableIssued, UsableSuper,
         BatchPrefixInserted
  PROVE  BatchPrefixInserted'
<1>1. CASE Elsewhere
  BY <1>1 DEF Elsewhere, BatchPrefixInserted, Coincident, Sites, vars, callVars,
              nativeVars
<1>2. ASSUME NEW b \in Batches, BatchStart(b)
      PROVE  BatchPrefixInserted'
  <2>1. batch'.done = 0
    BY <1>2 DEF BatchStart
  <2>2. QED
    BY <2>1 DEF BatchPrefixInserted
<1>3. ASSUME NEW v \in Slot, BatchInsert(v)
      PROVE  BatchPrefixInserted'
  <2>1. /\ usable /\ call = "batch" /\ batch.remaining > 0
        /\ NativeInsert(NextPoint, v)
    BY <1>3 DEF BatchInsert, ChunkRuns, InsertOne
  <2>2. batch'.points = batch.points /\ batch'.done = batch.done + 1
    <3>1. \/ batch' = [batch EXCEPT !.inserted = @ + 1, !.done = @ + 1]
          \/ batch' = [batch EXCEPT
                         !.remaining = @ - Count,
                         !.first = NextFirst,
                         !.inserted = 0,
                         !.done = @ + 1]
      BY <1>3 DEF BatchInsert
    <3>2. QED
      BY <3>1, Zenon DEF BatchInv
  <2>3. batch.done \in Nat /\ NextPoint = batch.points[batch.done + 1]
    BY <2>1 DEF BatchInv, NextPoint
  <2>4. ObjectType /\ NextPoint \in Points
    BY <2>1, ConstantsAssumption
       DEF NativeInsert, ObjectInv, UsableHasFrame
  <2>5. \A u \in Sites : u \in Sites' /\ pos'[u] = pos[u]
    <3>1. CASE UNCHANGED nativeVars
      BY <3>1 DEF nativeVars, Sites
    <3>2. CASE /\ v \in NewSlots(kind)
               /\ kind' = [kind EXCEPT ![v] = "delaunay"]
               /\ pos' = [pos EXCEPT ![v] = NextPoint]
      <4>1. \A u \in Sites : u \in Slot /\ u >= 4 /\ u # v
        BY <3>2, NewSlotsType DEF Sites
      <4>2. \A u \in Slot : u # v => kind'[u] = kind[u] /\ pos'[u] = pos[u]
        BY <2>4, <3>2 DEF ObjectType
      <4>3. QED
        BY <4>1, <4>2 DEF Sites
    <3>3. QED
      BY <2>1, <3>1, <3>2 DEF NativeInsert
  <2>6. UNCHANGED frame
    BY <2>1 DEF NativeInsert, nativeVars
  <2>7. ASSUME NEW CONSTANT x, Coincident(x) # {}
        PROVE  Coincident(x)' # {}
    BY <2>5, <2>6, <2>7 DEF Coincident
  <2>8. ASSUME NEW CONSTANT x \in Points, x = NextPoint
        PROVE  Coincident(x)' # {}
    <3>1. CASE v \in Coincident(x)
      BY <2>7, <3>1
    <3>2. CASE /\ v \in NewSlots(kind)
               /\ kind' = [kind EXCEPT ![v] = "delaunay"]
               /\ pos' = [pos EXCEPT ![v] = x]
      <4>1. v # 0 /\ v \notin Super
        BY <2>1, <3>2, NewSlotsType
           DEF UsableSuper, UsableIssued, NewSlots, FreeSlots, AbsentSlots
      <4>2. v >= 4
        BY <4>1, ConstantsAssumption DEF Super, Slot
      <4>3. kind'[v] = "delaunay" /\ pos'[v] = x
        BY <2>4, <3>2 DEF ObjectType
      <4>4. v \in Sites'
        BY <4>2, <4>3 DEF Sites
      <4>5. <<x, x>> \in Near
        BY <2>8, ConstantsAssumption
      <4>6. QED
        BY <4>3, <4>4, <4>5 DEF Coincident
    <3>3. QED
      BY <2>1, <2>8, <3>1, <3>2 DEF NativeInsert
  <2>9. ASSUME NEW CONSTANT x, NEW CONSTANT i \in Nat,
               i >= 1, i <= batch.done + 1, x = batch.points[i]
        PROVE  Coincident(x)' # {}
    <3>1. CASE i = batch.done + 1
      BY <2>3, <2>4, <2>8, <2>9, <3>1
    <3>2. CASE i # batch.done + 1
      <4>1. i \in 1 .. batch.done
        BY <2>3, <2>9, <3>2
      <4>2. Coincident(x) # {}
        BY <2>1, <2>9, <4>1 DEF BatchPrefixInserted
      <4>3. QED
        BY <2>7, <4>2
    <3>3. QED
      BY <3>1, <3>2
  <2>10. QED
    BY <2>2, <2>3, <2>9 DEF BatchPrefixInserted, Coincident
<1>4. CASE BatchRefused \/ BatchBreaks \/ BatchReturns
  BY <1>4 DEF BatchRefused, BatchBreaks, BatchReturns, BatchRaises,
              BatchPrefixInserted
<1>5. QED
  BY <1>1, <1>2, <1>3, <1>4, ControlNext DEF BatchStep

-----------------------------------------------------------------------------
(* The theorems.                                                           *)

IInv ==
    /\ ObjectInv
    /\ Control
    /\ BatchInv
    /\ UsableIsWhole
    /\ HandleOwnsOne
    /\ UsableBounds
    /\ UsableIssued
    /\ UsableDiagram
    /\ UsableRoom
    /\ UsableSuper
    /\ BatchPrefixInserted

LEMMA IInvInit == Init => IInv
<1> SUFFICES ASSUME Init
             PROVE  IInv
  OBVIOUS
<1>1. ObjectInv
  BY ObjectInvInit
<1>2. BatchInv
  BY NoBatchInv DEF Init
<1>3. Control
  BY DEF Init, Control, Answer
<1>4. /\ ~usable /\ ~handle /\ live = 0 /\ torn = FALSE /\ call = "idle"
  BY DEF Init, NativeAbsent
<1>5. QED
  BY <1>1, <1>2, <1>3, <1>4
     DEF IInv, UsableIsWhole, HandleOwnsOne, UsableBounds, UsableIssued,
         UsableDiagram, UsableRoom, UsableSuper, BatchPrefixInserted

LEMMA IInvNext == IInv /\ [Next]_vars => IInv'
BY ObjectInvNext, ControlNext, BatchNext, WholeNext, OwnsNext, BoundsNext,
   IssuedNext, DiagramNext, RoomNext, SuperNext, PrefixNext DEF IInv

LEMMA AlwaysIInv == Spec => []IInv
BY IInvInit, IInvNext, PTL DEF Spec

\* Type correctness: every variable of the Ada record, the shim handle and
\* the native storage keeps to its set of values.
THEOREM TypeCorrect == Spec => []TypeOK
<1>1. IInv => TypeOK
  BY DEF IInv, ObjectInv, ObjectType, Control, TypeOK
<1>2. QED
  BY <1>1, AlwaysIInv, PTL

\* subdiv2d_insert_one and init_delaunay never leave a handle usable after a
\* modification that failed half-way.
THEOREM UsableAfterFailure == Spec => []UsableIsWhole
<1>1. IInv => UsableIsWhole
  BY DEF IInv
<1>2. QED
  BY <1>1, AlwaysIInv, PTL

\* Create, Reset and Finalize neither leak nor destroy twice, in any order
\* and however often they fail.
THEOREM NoLeak == Spec => []HandleOwnsOne
<1>1. IInv => HandleOwnsOne
  BY DEF IInv
<1>2. QED
  BY <1>1, AlwaysIInv, PTL

\* Bounds and Bounds_Float32 answer the rectangle OpenCV holds, through every
\* mix of integer, binary32 and failed initializations.
THEOREM BoundsAgree == Spec => []PublishedBoundsAreNative
<1>1. IInv => PublishedBoundsAreNative
  <2> SUFFICES ASSUME IInv, Ready
               PROVE  /\ BoundsFloat32Answer = frame
                      /\ BoundsAnswer # NoRect => AsFloat32[BoundsAnswer] = frame
    BY DEF PublishedBoundsAreNative
  <2>1. /\ mode \in {"integer", "float32"}
        /\ frame = nativeBounds
        /\ mode = "integer" => AsFloat32[bounds] = frame
    BY DEF IInv, UsableBounds, Ready
  <2>2. BoundsFloat32Answer = frame
    BY <2>1 DEF BoundsFloat32Answer
  <2>3. BoundsAnswer # NoRect => mode = "integer" /\ BoundsAnswer = bounds
    BY DEF BoundsAnswer
  <2>4. QED
    BY <2>1, <2>2, <2>3
<1>2. QED
  BY <1>1, AlwaysIInv, PTL

\* A vertex identifier given to the caller stays that vertex until the next
\* successful Reset, although Voronoi computations free and reuse slots.
THEOREM IdentifiersStable == Spec => []IssuedVerticesStay
<1>1. IInv => IssuedVerticesStay
  BY DEF IInv, UsableIssued, Ready, VertexPoint, IssuedVerticesStay
<1>2. QED
  BY <1>1, AlwaysIInv, PTL

\* Find_Nearest and Voronoi_Facets never use the Voronoi data of an earlier
\* set of points.
THEOREM VoronoiCurrent == Spec => []VoronoiDataCurrent
<1>1. IInv => VoronoiDataCurrent
  BY DEF IInv, UsableDiagram, Ready, VoronoiDataCurrent
<1>2. QED
  BY <1>1, AlwaysIInv, PTL

\* maximum_subdiv2d_quad_edges keeps every edge identifier, and the offset
\* OpenCV adds to one, within a signed int.
THEOREM EdgesFitInt == Spec => []EdgeArithmeticInRange
<1>1. ASSUME IInv, Ready
      PROVE  4 * qedges - 1 + 51 <= IntMax
  <2>1. qedges <= IntMax \div 4 - 16 /\ qedges \in Nat
    BY <1>1 DEF IInv, UsableRoom, Ready, MaximumQuadEdges, ObjectInv, ObjectType
  <2>2. IntMax \in Nat
    BY ConstantsAssumption
  <2>3. QED
    BY <2>1, <2>2
<1>2. IInv => EdgeArithmeticInRange
  BY <1>1 DEF EdgeArithmeticInRange
<1>3. QED
  BY <1>2, AlwaysIInv, PTL

\* The batch Insert never reads outside its array, nor steps First past
\* Natural'Last.
THEOREM BatchStaysInArray == Spec => []BatchIndexInRange
<1>1. ASSUME IInv
      PROVE  BatchIndexInRange
  <2>1. batch.first \in 0 .. NaturalLast
    BY <1>1, ConstantsAssumption DEF IInv, BatchInv
  <2>2. ASSUME ChunkRuns
        PROVE  batch.first + Count <= batch.base + Len(batch.points)
    <3>1. PICK n \in Nat : n = Len(batch.points)
      BY <1>1 DEF IInv, BatchInv
    <3>2. /\ batch.first + batch.remaining = batch.base + n
          /\ batch.first \in Nat /\ batch.remaining \in Nat
      BY <1>1, <2>2, <3>1 DEF IInv, BatchInv, ChunkRuns
    <3>3. Count \in Nat /\ Count <= batch.remaining
      BY <3>2, ConstantsAssumption DEF Count
    <3>4. batch.first + Count <= batch.base + n
      BY <3>2, <3>3
    <3>5. QED
      BY <3>1, <3>4
  <2>3. QED
    BY <2>1, <2>2 DEF BatchIndexInRange
<1>2. QED
  BY <1>1, AlwaysIInv, PTL

\* The points before the one a batch stands at are inserted.
THEOREM BatchKeepsPrefix == Spec => []BatchPrefixInserted
<1>1. IInv => BatchPrefixInserted
  BY DEF IInv
<1>2. QED
  BY <1>1, AlwaysIInv, PTL

\* A batch that returns has inserted every point, and one that raises names
\* the index of the first point it did not insert.
THEOREM BatchProgress == Spec => BatchReportsProgress
<1>1. ASSUME IInv, [Next]_vars, call = "batch", call' = "idle"
      PROVE  IF answer'.status = "ok"
             THEN batch.done = Len(batch.points)
             ELSE answer'.index = batch.base + batch.done
  <2>1. BatchStep
    <3>1. ~Elsewhere
      BY <1>1 DEF Elsewhere, vars, callVars
    <3>2. ~\E b \in Batches : BatchStart(b)
      BY <1>1 DEF BatchStart, Idle
    <3>3. QED
      BY <1>1, <3>1, <3>2, ControlNext DEF IInv
  <2>2. CASE BatchReturns
    BY <1>1, <2>2 DEF BatchReturns, Answer, IInv, BatchInv
  <2>3. CASE BatchRefused \/ BatchBreaks
    <3>1. batch.remaining > 0 /\ BatchRaises
      BY <2>3 DEF BatchRefused, BatchBreaks, ChunkRuns
    <3>2. /\ answer'.status = "error"
          /\ answer'.index = batch.first + batch.inserted
      BY <3>1 DEF BatchRaises, Raised, Answer
    <3>3. /\ batch.done = batch.first - batch.base + batch.inserted
          /\ batch.base \in Nat /\ batch.first \in Nat /\ batch.inserted \in Nat
      BY <1>1, <3>1 DEF IInv, BatchInv
    <3>4. batch.first + batch.inserted = batch.base + batch.done
      BY <3>3
    <3>5. QED
      BY <3>2, <3>4
  <2>4. CASE \E v \in Slot : BatchInsert(v)
    BY <1>1, <2>4 DEF BatchInsert
  <2>5. QED
    BY <2>1, <2>2, <2>3, <2>4 DEF BatchStep
<1>2. IInv /\ [Next]_vars =>
         [call = "batch" /\ call' = "idle" =>
             IF answer'.status = "ok"
             THEN batch.done = Len(batch.points)
             ELSE answer'.index = batch.base + batch.done]_vars
  BY <1>1
<1>3. QED
  BY <1>2, AlwaysIInv, PTL DEF Spec, BatchReportsProgress

-----------------------------------------------------------------------------
(* Listings.                                                               *)

\* Ascending lists a finite set of numbers, each once, in increasing order.
LEMMA AscendingFacts ==
  ASSUME NEW S \in SUBSET Nat, IsFiniteSet(S)
  PROVE  /\ Cardinality(S) \in Nat
         /\ Ascending(S) \in [1 .. Cardinality(S) -> S]
         /\ \A i \in 1 .. Cardinality(S) :
               Cardinality({u \in S : u < Ascending(S)[i]}) = i - 1
         /\ \A v \in S : \E i \in 1 .. Cardinality(S) : Ascending(S)[i] = v
         /\ \A i, j \in 1 .. Cardinality(S) :
               i < j => Ascending(S)[i] < Ascending(S)[j]
<1> DEFINE n == Cardinality(S)
           Below(v) == {u \in S : u < v}
           rank == [v \in S |-> Cardinality(Below(v))]
           Item(i) == CHOOSE v \in S : Cardinality(Below(v)) = i - 1
<1>a. n \in Nat /\ \A u \in S : u \in Nat
  BY FS_CardinalityType
<1>b. ASSUME NEW v \in S
      PROVE  /\ IsFiniteSet(Below(v)) /\ Cardinality(Below(v)) \in Nat
             /\ Cardinality(Below(v)) < n
  <2>1. Below(v) \in SUBSET S /\ v \notin Below(v)
    BY <1>a
  <2> HIDE DEF Below
  <2>2. /\ IsFiniteSet(Below(v)) /\ Cardinality(Below(v)) <= n
        /\ n = Cardinality(Below(v)) => S = Below(v)
    BY <2>1, FS_Subset
  <2>3. Cardinality(Below(v)) \in Nat
    BY <2>2, FS_CardinalityType
  <2>4. QED
    BY <1>a, <2>1, <2>2, <2>3
<1>c. ASSUME NEW v \in S, NEW w \in S, v < w
      PROVE  Cardinality(Below(v)) < Cardinality(Below(w))
  <2>1. \A u \in S : u < v => u < w
    <3>1. \A x, y, z \in Nat : x < y /\ y < z => x < z
      OBVIOUS
    <3>2. QED
      BY <1>a, <1>c, <3>1, Zenon
  <2>2. Below(v) \in SUBSET Below(w)
    BY <2>1, Zenon
  <2>a. v \in Below(w) /\ v \notin Below(v)
    BY <1>a, <1>c
  <2> HIDE DEF Below
  <2>3. /\ Cardinality(Below(v)) <= Cardinality(Below(w))
        /\ Cardinality(Below(w)) = Cardinality(Below(v)) => Below(w) = Below(v)
    BY <1>b, <2>2, FS_Subset
  <2>4. QED
    BY <1>b, <2>2, <2>a, <2>3
<1> HIDE DEF Below, n
<1>d. ASSUME NEW v \in S, NEW w \in S, Cardinality(Below(v)) = Cardinality(Below(w))
      PROVE  v = w
  <2>1. ~(v < w) /\ ~(w < v)
    BY <1>b, <1>c, <1>d
  <2>2. QED
    BY <1>a, <2>1
<1>e. ASSUME NEW i \in 1 .. n
      PROVE  \E v \in S : Cardinality(Below(v)) = i - 1
  <2>1. rank \in [S -> 0 .. n - 1]
    BY <1>a, <1>b
  <2>2. \A v, w \in S : rank[v] = rank[w] => v = w
    BY <1>d
  <2> HIDE DEF rank
  <2>3. rank \in Injection(S, 0 .. n - 1)
    BY <2>1, <2>2 DEF Injection, IsInjective
  <2>4. IsFiniteSet(0 .. n - 1) /\ Cardinality(0 .. n - 1) = n
    <3>1. 0 \in Int /\ n - 1 \in Int /\ n = IF 0 > n - 1 THEN 0 ELSE n - 1 - 0 + 1
      BY <1>a
    <3>2. QED
      BY <3>1, FS_Interval
  <2>5. rank \in Surjection(S, 0 .. n - 1)
    BY <2>3, <2>4, FS_Injection DEF n
  <2>6. i - 1 \in 0 .. n - 1
    BY <1>a
  <2>7. PICK v \in S : rank[v] = i - 1
    BY <2>5, <2>6 DEF Surjection
  <2>8. QED
    BY <2>7 DEF rank
<1>f. Ascending(S) = [i \in 1 .. n |-> Item(i)]
  BY Zenon DEF Ascending, n, Below
<1>g. ASSUME NEW i \in 1 .. n
      PROVE  Item(i) \in S /\ Cardinality(Below(Item(i))) = i - 1
  BY <1>e
<1>n. \A x, y \in Nat : x # y /\ ~(y < x) => x < y
  OBVIOUS
<1> HIDE DEF Item
<1>h. ASSUME NEW v \in S
      PROVE  \E i \in 1 .. n : Item(i) = v
  <2>1. PICK i \in 1 .. n : i - 1 = Cardinality(Below(v))
    <3>1. \A c \in Nat : c < n => c + 1 \in 1 .. n /\ (c + 1) - 1 = c
      BY <1>a
    <3>2. QED
      BY <1>b, <3>1
  <2>2. QED
    BY <1>d, <1>g, <2>1
<1>i. ASSUME NEW i \in 1 .. n, NEW j \in 1 .. n, i < j
      PROVE  Item(i) < Item(j)
  <2>1. PICK x \in S : x = Item(i) /\ Cardinality(Below(x)) = i - 1
    BY <1>g
  <2>2. PICK y \in S : y = Item(j) /\ Cardinality(Below(y)) = j - 1
    BY <1>g
  <2>3. x # y /\ ~(j - 1 < i - 1)
    BY <1>i, <2>1, <2>2
  <2>4. ~(y < x)
    BY <1>c, <2>1, <2>2, <2>3
  <2>5. QED
    BY <1>a, <1>n, <2>1, <2>2, <2>3, <2>4
<1>j. \A i \in 1 .. n : Ascending(S)[i] = Item(i)
  BY <1>f
<1>k. Ascending(S) \in [1 .. n -> S]
  BY <1>f, <1>g
<1>l. \A i \in 1 .. n : Cardinality({u \in S : u < Item(i)}) = i - 1
  BY <1>g DEF Below
<1>m. QED
  BY <1>a, <1>h, <1>i, <1>j, <1>k, <1>l DEF n

\* Listing an interval lists it as it is.
LEMMA AscendingInterval ==
  ASSUME NEW n \in Nat
  PROVE  Ascending(1 .. n) = [i \in 1 .. n |-> i]
<1>1. IsFiniteSet(1 .. n) /\ Cardinality(1 .. n) = n /\ 1 .. n \in SUBSET Nat
  <2>1. 1 \in Int /\ n \in Int /\ n = IF 1 > n THEN 0 ELSE n - 1 + 1
    OBVIOUS
  <2>2. QED
    BY <2>1, FS_Interval
<1>2. /\ Ascending(1 .. n) \in [1 .. n -> 1 .. n]
      /\ \A i \in 1 .. n : Cardinality({u \in 1 .. n : u < Ascending(1 .. n)[i]}) = i - 1
  BY <1>1, AscendingFacts
<1>3. ASSUME NEW i \in 1 .. n
      PROVE  Ascending(1 .. n)[i] = i
  <2>1. PICK x \in 1 .. n : x = Ascending(1 .. n)[i]
    BY <1>2
  <2>2. {u \in 1 .. n : u < x} = 1 .. x - 1
    OBVIOUS
  <2>3. Cardinality(1 .. x - 1) = i - 1
    BY <1>2, <2>1, <2>2
  <2>4. Cardinality(1 .. x - 1) = x - 1
    <3>1. 1 \in Int /\ x - 1 \in Int /\ x - 1 = IF 1 > x - 1 THEN 0 ELSE x - 1 - 1 + 1
      OBVIOUS
    <3>2. QED
      BY <3>1, FS_Interval
  <2>5. QED
    BY <2>1, <2>3, <2>4
<1>4. QED
  BY <1>2, <1>3

\* If every listed slot holds a point, no vertex is left out.
LEMMA HoldingAll ==
  ASSUME NEW s \in Seq(Nat), NEW k,
         \A i \in DOMAIN s : k[s[i]] = "delaunay"
  PROVE  Holding(s, k) = s
<1>1. PICK n \in Nat : n = Len(s)
  OBVIOUS
<1>2. DOMAIN s = 1 .. n /\ s = [i \in 1 .. n |-> s[i]]
  BY <1>1
<1>3. {i \in DOMAIN s : k[s[i]] = "delaunay"} = 1 .. n
  BY <1>2
<1>4. Holding(s, k) = [i \in DOMAIN Ascending(1 .. n) |-> s[Ascending(1 .. n)[i]]]
  BY <1>3 DEF Holding
<1>5. Holding(s, k) = [i \in 1 .. n |-> s[i]]
  BY <1>4, AscendingInterval
<1>6. QED
  BY <1>2, <1>5

LEMMA SitesListed ==
  /\ Sites \in SUBSET Nat /\ IsFiniteSet(Sites)
  /\ Ascending(Sites) \in Seq(Nat)
  /\ Len(Ascending(Sites)) = Cardinality(Sites)
<1>1. Sites \in SUBSET Slot /\ Slot \in SUBSET Nat
  BY ConstantsAssumption DEF Sites, Slot
<1>2. IsFiniteSet(Slot)
  BY ConstantsAssumption, FS_Interval DEF Slot
<1>3. Sites \in SUBSET Nat /\ IsFiniteSet(Sites)
  BY <1>1, <1>2, FS_Subset
<1>4. Ascending(Sites) \in [1 .. Cardinality(Sites) -> Sites] /\ Cardinality(Sites) \in Nat
  BY <1>3, AscendingFacts
<1>5. Ascending(Sites) \in [1 .. Cardinality(Sites) -> Nat]
  BY <1>3, <1>4
<1>6. QED
  BY <1>3, <1>4, <1>5

-----------------------------------------------------------------------------
(* A Voronoi request in progress.                                          *)

\* What Check_Site established when the call began.
RequestOK(req) ==
    /\ req.every => req.listed = <<>>
    /\ req.listed \in Seq(Nat)
    /\ CheckedSites(req.listed)

\* The counting call has counted the sites that the filling call will list.
RequestInv ==
    call = "voronoi" =>
        /\ Ready
        /\ RequestOK(request)
        /\ request.facets = Len(Listed(request))

LEMMA ListedType ==
  ASSUME NEW req, RequestOK(req)
  PROVE  /\ Listed(req) \in Seq(Nat)
         /\ \A i \in DOMAIN Listed(req) :
               Listed(req)[i] \in Slot /\ kind[Listed(req)[i]] = "delaunay"
<1>1. CASE req.every
  <2>1. Listed(req) = Ascending(Sites)
    BY <1>1 DEF Listed
  <2>2. \A i \in DOMAIN Ascending(Sites) : Ascending(Sites)[i] \in Sites
    BY SitesListed, AscendingFacts
  <2>3. QED
    BY <2>1, <2>2, SitesListed DEF Sites
<1>2. CASE ~req.every
  BY <1>2 DEF Listed, RequestOK, CheckedSites
<1>3. QED
  BY <1>1, <1>2

\* calcVoronoi takes none of the listed points, so all of them have a facet.
LEMMA FacetSitesAll ==
  ASSUME ObjectType, NEW req, RequestOK(req), ReadVoronoi(req)
  PROVE  FacetSites(req) = Listed(req)
<1>1. \A v \in Slot : kind[v] = "delaunay" => kind'[v] = "delaunay"
  BY VoronoiKeepsPoints DEF ReadVoronoi, nativeVars
<1>2. \A i \in DOMAIN Listed(req) : kind'[Listed(req)[i]] = "delaunay"
  BY <1>1, ListedType
<1>3. Holding(Listed(req), kind') = Listed(req)
  BY <1>2, ListedType, HoldingAll
<1>4. QED
  BY <1>3 DEF FacetSites, PairedSites

LEMMA QueriesOK ==
  ASSUME NEW q \in Queries, CheckedSites(q.listed)
  PROVE  RequestOK(q) /\ q.every \in BOOLEAN
<1>1. CASE q = [every |-> TRUE, listed |-> <<>>, facets |-> 0]
  BY <1>1 DEF RequestOK
<1>2. ASSUME NEW s \in Requests, q = [every |-> FALSE, listed |-> s, facets |-> 0]
      PROVE  RequestOK(q) /\ q.every \in BOOLEAN
  BY <1>2, RequestsAssumption DEF RequestOK
<1>3. QED
  BY <1>1, <1>2 DEF Queries

\* A request is under way after a step only if its counting call just ended.
LEMMA EntersVoronoi ==
  ASSUME [Next]_vars, Control, call' = "voronoi"
  PROVE  UNCHANGED vars \/ \E q \in Queries : VoronoiCounts(q)
<1>1. CASE LifeCycle
  <2>1. call = "idle" /\ UNCHANGED call
    BY <1>1 DEF LifeCycle, Declare, Leave, Initialize, ResetRejected,
                ResetSucceeds, ResetFails, MayReset, Idle, Raise, callVars, Control
  <2>2. QED
    BY <2>1
<1>2. CASE PointCall
  <2>1. call = "idle" /\ UNCHANGED call
    BY <1>2 DEF PointCall, InsertRefused, InsertBreaks, LocateEdge, LocateRefused,
                LocateUnknown, FindNearestRaises, FindNearestInvalid, Insert,
                LocateVertex, FindNearest, Idle, Raise, callVars
  <2>2. QED
    BY <2>1
<1>3. CASE BatchCall
  <2>1. call' \in {"idle", "batch"}
    BY <1>3 DEF BatchCall, BatchRejected, BatchEmpty, BatchStart, BatchStep,
                BatchInsert, BatchRefused, BatchBreaks, BatchRaises, BatchReturns,
                ChunkRuns, Idle, Raise, callVars
  <2>2. QED
    BY <2>1
<1>4. CASE VoronoiCall
  <2>1. ASSUME NEW q, VoronoiRejected(q) \/ VoronoiCountsFails(q)
        PROVE  FALSE
    BY <2>1 DEF VoronoiRejected, VoronoiCountsFails, VoronoiFails, VoronoiRaises,
                Idle, Raise, callVars
  <2>2. ~VoronoiStep
    BY DEF VoronoiStep, VoronoiFill, VoronoiFillFails, VoronoiFails,
           VoronoiRaises, VoronoiReturns, InvalidResult
  <2>3. QED
    BY <1>4, <2>1, <2>2 DEF VoronoiCall
<1>5. QED
  BY <1>1, <1>2, <1>3, <1>4 DEF Next

\* What the counting and filling calls read stays what it is while they compute.
LEMMA ReadVoronoiKeeps ==
  ASSUME ObjectType, NEW req, ReadVoronoi(req) \/ ReadVoronoiFails(req)
  PROVE  /\ UNCHANGED pos /\ Sites' = Sites
         /\ \A v \in Slot : kind[v] = "delaunay" => kind'[v] = "delaunay"
<1>1. CASE UNCHANGED nativeVars
  BY <1>1 DEF nativeVars, Sites
<1>2. CASE VoronoiComputed \/ VoronoiFailed
  BY <1>2, VoronoiKeepsPoints DEF VoronoiComputed, VoronoiFailed
<1>3. QED
  BY <1>1, <1>2 DEF ReadVoronoi, ReadVoronoiFails

LEMMA RequestNext ==
  ASSUME [Next]_vars, ObjectInv, Control, RequestInv
  PROVE  RequestInv'
<1> SUFFICES ASSUME call' = "voronoi"
             PROVE  RequestInv'
  BY DEF RequestInv
<1>1. CASE UNCHANGED vars
  BY <1>1 DEF vars, callVars, adaVars, nativeVars, RequestInv, Ready, RequestOK,
              CheckedSites, Listed, Sites
<1>2. ASSUME NEW q \in Queries, VoronoiCounts(q)
      PROVE  RequestInv'
  <2>1. /\ Ready /\ CheckedSites(q.listed) /\ ReadVoronoi(q)
        /\ UNCHANGED <<adaVars, usable>>
    BY <1>2 DEF VoronoiCounts
  <2>2. RequestOK(q) /\ FacetSites(q) = Listed(q)
    BY <2>1, QueriesOK, FacetSitesAll DEF ObjectInv
  <2>3. request' = [q EXCEPT !.facets = Len(FacetSites(q))]
    BY <1>2 DEF VoronoiCounts, VoronoiReturns, InvalidResult
  <2>4. /\ request'.every = q.every /\ request'.listed = q.listed
        /\ request'.facets = Len(Listed(q))
    BY <2>2, <2>3 DEF Queries
  <2>5. Sites' = Sites /\ \A v \in Slot : kind[v] = "delaunay" => kind'[v] = "delaunay"
    BY <2>1, ReadVoronoiKeeps DEF ObjectInv
  <2>6. RequestOK(request)'
    BY <2>2, <2>4, <2>5 DEF RequestOK, CheckedSites
  <2>7. Listed(request)' = Listed(q)
    BY <2>4, <2>5 DEF Listed
  <2>8. Ready'
    BY <2>1 DEF Ready, adaVars
  <2>9. QED
    BY <2>4, <2>6, <2>7, <2>8 DEF RequestInv
<1>3. QED
  BY <1>1, <1>2, EntersVoronoi

\* The counting call finds every site of its request.
LEMMA CountsAgree ==
  ASSUME ObjectInv, NEW q \in Queries, VoronoiCounts(q)
  PROVE  /\ FacetSites(q) = Listed(q) /\ RequestOK(q)
         /\ ~InvalidResult
<1>1. CheckedSites(q.listed) /\ ReadVoronoi(q)
  BY DEF VoronoiCounts
<1>2. RequestOK(q) /\ FacetSites(q) = Listed(q)
  BY <1>1, QueriesOK, FacetSitesAll DEF ObjectInv
<1>3. ~q.every => Len(FacetSites(q)) = Len(q.listed)
  BY <1>2 DEF Listed
<1>4. \/ VoronoiReturns(q, <<>>)
      \/ call' = "voronoi"
  BY <1>3 DEF VoronoiCounts
<1>5. ~InvalidResult
  <2>1. CASE call' = "voronoi"
    BY <2>1 DEF InvalidResult
  <2>2. CASE VoronoiReturns(q, <<>>)
    <3>1. answer'.status = "ok"
      BY <2>2, AnswerStatus DEF VoronoiReturns
    <3>2. QED
      BY <3>1 DEF InvalidResult, Answer
  <2>3. QED
    BY <1>4, <2>1, <2>2
<1>6. QED
  BY <1>2, <1>5

\* The filling call finds what the counting call has counted.
LEMMA FillAgrees ==
  ASSUME ObjectInv, RequestInv, VoronoiFill
  PROVE  /\ RequestOK(request) /\ FacetSites(request) = Listed(request)
         /\ VoronoiReturns(request, FacetSites(request))
<1>1. /\ RequestOK(request) /\ ReadVoronoi(request)
      /\ request.facets = Len(Listed(request))
  BY DEF RequestInv, VoronoiFill
<1>2. FacetSites(request) = Listed(request)
  BY <1>1, FacetSitesAll DEF ObjectInv
<1>3. ExpectedSites(request, FacetSites(request))
  <2>1. CASE request.every
    <3>1. Listed(request) = Ascending(Sites)
      BY <2>1 DEF Listed
    <3>2. PICK n \in Nat : n = Cardinality(Sites)
      BY SitesListed, FS_CardinalityType
    <3>3. /\ Ascending(Sites) \in [1 .. n -> Sites]
          /\ \A i, j \in 1 .. n : i < j => Ascending(Sites)[i] < Ascending(Sites)[j]
      BY <3>2, SitesListed, AscendingFacts
    <3>4. ASSUME NEW i \in 1 .. n
          PROVE  Ascending(Sites)[i] > (IF i = 1 THEN 3 ELSE Ascending(Sites)[i - 1])
      <4>1. Ascending(Sites)[i] \in Sites /\ \A v \in Sites : v \in Int /\ v >= 4
        BY <3>3, ConstantsAssumption DEF Sites, Slot
      <4>2. Ascending(Sites)[i] > 3
        BY <4>1
      <4>3. CASE i # 1
        <5>1. i - 1 \in 1 .. n /\ i - 1 < i
          BY <4>3
        <5>2. Ascending(Sites)[i - 1] < Ascending(Sites)[i]
          BY <3>3, <5>1
        <5>3. Ascending(Sites)[i - 1] \in Sites
          BY <3>3, <5>1
        <5>4. QED
          BY <4>1, <4>3, <5>2, <5>3
      <4>4. QED
        BY <4>2, <4>3
    <3>5. QED
      BY <1>2, <2>1, <3>1, <3>3, <3>4 DEF ExpectedSites
  <2>2. CASE ~request.every
    BY <1>2, <2>2 DEF ExpectedSites, Listed
  <2>3. QED
    BY <2>1, <2>2
<1>4. QED
  BY <1>1, <1>2, <1>3 DEF VoronoiFill

-----------------------------------------------------------------------------
(* No answer of OpenCV's is found inconsistent.                            *)

\* Answers keep their operation when more fields are filled in.
LEMMA AnswerOp ==
  ASSUME NEW op, NEW status, NEW x, NEW y
  PROVE  /\ Answer(op, status).op = op /\ Raised.op = "none"
         /\ [Answer(op, status) EXCEPT !.mode = x, !.rect = y].op = op
         /\ [Answer(op, status) EXCEPT !.vertex = x, !.point = y].op = op
         /\ [Answer(op, status) EXCEPT !.asked = x, !.sites = y].op = op
         /\ [Raised EXCEPT !.index = x].op = "none"
BY Zenon DEF Answer, Raised

LEMMA NoInvalidNext ==
  ASSUME [Next]_vars, ObjectInv, RequestInv, NoInvalidResult
  PROVE  NoInvalidResult'
<1>1. CASE UNCHANGED answer
  BY <1>1 DEF NoInvalidResult
<1>2. ASSUME NEW op \in {"Reset", "Reset_Float32"}, NEW r, Initialize(op, r)
      PROVE  NoInvalidResult'
  <2>1. CASE ResetSucceeds(op, r)
    BY <2>1, AnswerOp DEF ResetSucceeds, NoInvalidResult
  <2>2. CASE ResetRejected(op, r) \/ ResetFails(op, r)
    BY <2>2, AnswerOp DEF ResetRejected, ResetFails, Raise, NoInvalidResult
  <2>3. QED
    BY <1>2, <2>1, <2>2 DEF Initialize
<1>3. CASE PointCall
  <2>1. \/ answer' = Raised
        \/ answer' = Answer("Locate_Edge", "ok")
        \/ \E op \in {"Insert", "Locate_Vertex", "Find_Nearest"} : \E x, y :
              answer' = [Answer(op, "ok") EXCEPT !.vertex = x, !.point = y]
    BY <1>3 DEF PointCall, InsertRefused, InsertBreaks, LocateEdge, LocateRefused,
                LocateUnknown, FindNearestRaises, FindNearestInvalid, Insert,
                LocateVertex, FindNearest, Return, Raise
  <2>2. ASSUME NEW op \in {"Insert", "Locate_Vertex", "Find_Nearest"}, NEW x, NEW y,
               answer' = [Answer(op, "ok") EXCEPT !.vertex = x, !.point = y]
        PROVE  NoInvalidResult'
    <3>1. [Answer(op, "ok") EXCEPT !.vertex = x, !.point = y].op = op
      BY AnswerOp
    <3>2. answer'.op = op
      BY <2>2, <3>1, Zenon
    <3>3. QED
      BY <3>2 DEF NoInvalidResult
  <2>3. CASE answer' = Raised \/ answer' = Answer("Locate_Edge", "ok")
    BY <2>3 DEF Raised, Answer, NoInvalidResult
  <2>4. QED
    BY <2>1, <2>2, <2>3
<1>4. CASE BatchCall
  <2>1. \/ answer' = answer
        \/ answer' = Raised
        \/ answer' = Answer("Insert_Points", "ok")
        \/ \E x : answer' = [Raised EXCEPT !.index = x]
    BY <1>4 DEF BatchCall, BatchRejected, BatchEmpty, BatchStart, BatchStep,
                BatchInsert, BatchRefused, BatchBreaks, BatchRaises, BatchReturns, Raise
  <2>2. ASSUME NEW x, answer' = [Raised EXCEPT !.index = x]
        PROVE  NoInvalidResult'
    <3>1. answer'.op = "none"
      BY <2>2, AnswerOp, Zenon
    <3>2. QED
      BY <3>1 DEF NoInvalidResult
  <2>3. CASE answer' = Raised \/ answer' = Answer("Insert_Points", "ok")
    BY <2>3 DEF Raised, Answer, NoInvalidResult
  <2>4. QED
    BY <1>1, <2>1, <2>2, <2>3
<1>5. CASE VoronoiCall
  <2>a. ASSUME NEW req, NEW sites, VoronoiReturns(req, sites)
        PROVE  NoInvalidResult'
    <3>1. VoronoiOp(req) # "Invalid_Result"
      BY DEF VoronoiOp
    <3>2. answer'.op = VoronoiOp(req)
      BY <2>a, AnswerOp DEF VoronoiReturns
    <3>3. QED
      BY <3>1, <3>2 DEF NoInvalidResult
  <2>b. CASE answer' = Raised
    BY <2>b, AnswerOp DEF NoInvalidResult
  <2>1. ASSUME NEW q, VoronoiRejected(q) \/ VoronoiCountsFails(q)
        PROVE  answer' = Raised
    BY <2>1 DEF VoronoiRejected, VoronoiCountsFails, VoronoiFails, VoronoiRaises,
                Raise
  <2>2. ASSUME NEW q \in Queries, VoronoiCounts(q)
        PROVE  NoInvalidResult'
    <3>1. VoronoiReturns(q, <<>>) \/ UNCHANGED answer
      BY <2>2, CountsAgree DEF VoronoiCounts
    <3>2. QED
      BY <1>1, <2>a, <3>1
  <2>3. CASE VoronoiFill
    BY <2>3, <2>a, FillAgrees
  <2>4. CASE VoronoiFillFails
    BY <2>4, <2>b DEF VoronoiFillFails, VoronoiFails, VoronoiRaises
  <2>5. QED
    BY <1>5, <2>b, <2>1, <2>2, <2>3, <2>4 DEF VoronoiCall, VoronoiStep
<1>6. QED
  <2>1. CASE UNCHANGED vars
    BY <1>1, <2>1 DEF vars
  <2>2. CASE Declare \/ Leave
    BY <1>1, <2>2 DEF Declare, Leave
  <2>3. QED
    BY <1>2, <1>3, <1>4, <1>5, <2>1, <2>2 DEF Next, LifeCycle

-----------------------------------------------------------------------------
(* The state a caller sees.                                                *)

APublished == [mode |-> mode, bounds |-> BoundsAnswer, native |-> BoundsFloat32Answer]

ASites == IF Ready THEN [v \in Sites |-> pos[v]] ELSE [v \in {} |-> 0]

\* Only a handle the object has set is usable.
UsableHasHandle == usable => handle

LEMMA UsableHasHandleNext ==
  ASSUME [Next]_vars, UsableHasHandle
  PROVE  UsableHasHandle'
<1>1. ASSUME NEW op, NEW r, Initializes(op, r) \/ InitializationBreaks(op, r)
      PROVE  UsableHasHandle'
  BY <1>1 DEF Initializes, InitializationBreaks, InitHandle, CreateHandle,
              InitHandleFails, UsableHasHandle
<1>2. ASSUME NEW p, NEW v, Inserts(p, v)
      PROVE  UsableHasHandle'
  BY <1>2 DEF Inserts, InsertOne, adaVars, UsableHasHandle
<1>3. ASSUME NEW p, Breaks(p)
      PROVE  UsableHasHandle'
  BY <1>3 DEF Breaks, UsableHasHandle
<1>4. CASE Quiet \/ Computes
  BY <1>4 DEF Quiet, Computes, adaVars, UsableHasHandle
<1>5. CASE Leave
  BY <1>5 DEF Leave, UsableHasHandle
<1>6. QED
  BY <1>1, <1>2, <1>3, <1>4, <1>5, StepHasEffect DEF Effect

\* The caller sees nothing of a step that keeps these.
Unseen == UNCHANGED <<handle, usable, mode, bounds, nativeBounds, pos>> /\ Sites' = Sites

LEMMA SeesNothing ==
  ASSUME Unseen
  PROVE  UNCHANGED <<Ready, APublished, ASites>>
BY DEF Unseen, Ready, APublished, ASites, BoundsAnswer, BoundsFloat32Answer

LEMMA QuietUnseen ==
  ASSUME ObjectInv, Quiet \/ Computes
  PROVE  Unseen
<1>1. CASE Quiet
  BY <1>1 DEF Quiet, Unseen, adaVars, nativeVars, Sites
<1>2. CASE Computes
  BY <1>2, VoronoiKeepsPoints
     DEF Computes, VoronoiComputed, VoronoiFailed, Unseen, adaVars, ObjectInv
<1>3. QED
  BY <1>1, <1>2

LEMMA Refuses ==
  ASSUME Unseen, answer'.status = "error"
  PROVE  Contract!Next
<1>1. Contract!Refuse
  BY SeesNothing DEF Contract!Refuse, APublished, ASites
<1>2. QED
  BY <1>1 DEF Contract!Next

LEMMA Stutters ==
  ASSUME Unseen, UNCHANGED answer
  PROVE  UNCHANGED Contract!contractVars
BY SeesNothing DEF Contract!contractVars, APublished, ASites

LEMMA Breaking ==
  ASSUME usable' = FALSE, UNCHANGED <<mode, bounds, nativeBounds>>,
         answer'.status = "error"
  PROVE  Contract!Next
<1>1. Contract!Break
  BY DEF Contract!Break, Contract!NoSites, Ready, BoundsAnswer, BoundsFloat32Answer
<1>2. QED
  BY <1>1 DEF Contract!Next

\* v becomes or stays the vertex of p.
Adds(p, v) ==
    \/ /\ v \in DOMAIN ASites
       /\ <<p, ASites[v]>> \in Near
       /\ ASites' = ASites
    \/ /\ v \in 1 .. 3 /\ p \in SuperNear[APublished.native]
       /\ ASites' = ASites
    \/ /\ v \notin DOMAIN ASites
       /\ v >= 4
       /\ ASites' = [u \in DOMAIN ASites \cup {v} |->
                        IF u = v THEN p ELSE ASites[u]]

\* An insertion adds the vertex of its point, if there is none yet, and moves none.
LEMMA Adding ==
  ASSUME IInv, UsableHasHandle, NEW p, NEW v \in Slot, Inserts(p, v)
  PROVE  /\ Ready /\ UNCHANGED <<Ready, APublished>>
         /\ p \in Region[APublished.native]
         /\ Adds(p, v)
<1>1. /\ usable /\ NativeInsert(p, v) /\ ObjectType
      /\ UNCHANGED <<handle, usable, mode, bounds, nativeBounds>>
  BY DEF Inserts, InsertOne, adaVars, IInv, ObjectInv
<1>2. Ready /\ Ready'
  BY <1>1 DEF Ready, UsableHasHandle
<1>3. BoundsFloat32Answer = frame
  BY <1>1 DEF BoundsFloat32Answer, IInv, UsableBounds
<1>4. UNCHANGED APublished
  BY <1>1 DEF APublished, BoundsAnswer, BoundsFloat32Answer
<1>5. p \in Region[APublished.native]
  BY <1>1, <1>3 DEF NativeInsert, APublished
<1>6. ASSUME v \in Coincident(p), UNCHANGED nativeVars
      PROVE  Adds(p, v)
  <2>1. UNCHANGED ASites
    BY <1>1, <1>6, SeesNothing DEF Unseen, nativeVars, Sites
  <2>2. CASE v \in Sites /\ <<p, pos[v]>> \in Near
    <3>1. v \in DOMAIN ASites /\ ASites[v] = pos[v]
      BY <1>2, <2>2 DEF ASites
    <3>2. QED
      BY <2>1, <2>2, <3>1 DEF Adds
  <2>3. CASE v \in Super /\ p \in SuperNear[frame]
    <3>1. v \in 1 .. 3 /\ p \in SuperNear[APublished.native]
      BY <1>3, <2>3 DEF APublished, Super
    <3>2. QED
      BY <2>1, <3>1 DEF Adds
  <2>4. QED
    BY <1>6, <2>2, <2>3 DEF Coincident
<1>7. ASSUME v \in NewSlots(kind),
             kind' = [kind EXCEPT ![v] = "delaunay"],
             pos' = [pos EXCEPT ![v] = p]
      PROVE  Adds(p, v)
  <2>1. kind[v] \in {"free", "absent"} /\ v # 0 /\ v \notin Super
    BY <1>1, <1>7, NewSlotsType
       DEF IInv, UsableSuper, UsableIssued, NewSlots, FreeSlots, AbsentSlots
  <2>2. v >= 4 /\ v \notin Sites
    BY <2>1, ConstantsAssumption DEF Super, Slot, Sites
  <2>3. /\ \A u \in Slot : u # v => kind'[u] = kind[u] /\ pos'[u] = pos[u]
        /\ kind'[v] = "delaunay" /\ pos'[v] = p
    BY <1>1, <1>7 DEF ObjectType
  <2>4. Sites' = Sites \cup {v}
    BY <2>2, <2>3 DEF Sites
  <2>5. \A u \in Sites : u \in Slot /\ u # v
    BY <2>2 DEF Sites
  <2>6. [u \in Sites' |-> pos'[u]]
          = [u \in Sites \cup {v} |-> IF u = v THEN p ELSE pos[u]]
    BY <2>3, <2>4, <2>5
  <2>7. DOMAIN [u \in Sites |-> pos[u]] = Sites
    OBVIOUS
  <2>8. [u \in Sites \cup {v} |-> IF u = v THEN p ELSE pos[u]]
          = [u \in Sites \cup {v} |->
                IF u = v THEN p ELSE [w \in Sites |-> pos[w]][u]]
    OBVIOUS
  <2>9. /\ ASites = [u \in Sites |-> pos[u]]
        /\ ASites' = [u \in Sites' |-> pos'[u]]
    BY <1>2 DEF ASites
  <2>10. /\ v \notin DOMAIN ASites
         /\ v >= 4
         /\ ASites' = [u \in DOMAIN ASites \cup {v} |->
                          IF u = v THEN p ELSE ASites[u]]
    BY <2>2, <2>6, <2>7, <2>8, <2>9
  <2>11. QED
    BY <2>10 DEF Adds
<1>8. QED
  BY <1>1, <1>2, <1>4, <1>5, <1>6, <1>7 DEF NativeInsert

-----------------------------------------------------------------------------
(* Every step is one of the contract's, or nothing to the caller.          *)

LEMMA QueryMeans ==
  ASSUME Unseen, Ready, answer'.status = "ok",
         \/ answer'.op \in {"Insert_Points", "Locate_Edge"}
         \/ /\ answer'.op \in {"Locate_Vertex", "Find_Nearest"}
            /\ \/ /\ answer'.vertex \in DOMAIN ASites
                  /\ answer'.point = ASites[answer'.vertex]
               \/ \E p \in Points : /\ answer'.vertex \in 1 .. 3
                                    /\ p \in SuperNear[APublished.native]
         \/ /\ answer'.op = "Voronoi_Facets"
            /\ {answer'.sites[i] : i \in DOMAIN answer'.sites} = DOMAIN ASites
            /\ \A i, j \in DOMAIN answer'.sites :
                  i < j => answer'.sites[i] < answer'.sites[j]
         \/ /\ answer'.op = "Voronoi_Facets_Of"
            /\ answer'.sites = answer'.asked
            /\ \A i \in DOMAIN answer'.sites : answer'.sites[i] \in DOMAIN ASites
  PROVE  Contract!Next
<1>1. UNCHANGED <<Ready, APublished, ASites>>
  BY SeesNothing
<1>2. Contract!Query
  BY <1>1, Zenon DEF Contract!Query, Contract!AtSuper, ASites, APublished
<1>3. QED
  BY <1>2 DEF Contract!Next

LEMMA VertexAnswered ==
  ASSUME ObjectInv, UsableBounds, NEW p \in Points, NEW v \in Slot,
         NEW op \in {"Locate_Vertex", "Find_Nearest"},
         Unseen, Ready, v \in Sites \cup Coincident(p),
         answer' = [Answer(op, "ok") EXCEPT !.vertex = v, !.point = pos[v]]
  PROVE  Contract!Next
<1>1. answer'.status = "ok" /\ answer'.op = op /\ answer'.vertex = v
      /\ answer'.point = pos[v]
  BY DEF Answer
<1>2. CASE v \in Sites
  <2>1. v \in DOMAIN ASites /\ ASites[v] = pos[v]
    BY <1>2 DEF ASites
  <2>2. QED
    BY <1>1, <2>1, QueryMeans
<1>3. CASE v \in Super /\ p \in SuperNear[frame]
  <2>1. v \in 1 .. 3 /\ p \in SuperNear[APublished.native]
    BY <1>3 DEF Super, APublished, BoundsFloat32Answer, UsableBounds, Ready
  <2>2. QED
    BY <1>1, <2>1, QueryMeans
<1>4. QED
  BY <1>2, <1>3 DEF Coincident

LEMMA InitializeImplements ==
  ASSUME ObjectInv, NEW op, NEW r, Argument(op, r), Initialize(op, r)
  PROVE  Contract!Next
<1>1. CASE ResetRejected(op, r)
  BY <1>1, Refuses DEF ResetRejected, Raise, Raised, Answer, Unseen, adaVars,
                       nativeVars, Sites
<1>2. CASE ResetFails(op, r)
  <2>1. answer'.status = "error" /\ UNCHANGED <<mode, bounds, nativeBounds>>
    BY <1>2 DEF ResetFails, Raised, Answer
  <2>2. CASE handle
    BY <1>2, <2>1, <2>2, Breaking DEF ResetFails, InitHandleFails
  <2>3. CASE ~handle
    BY <1>2, <2>1, <2>3, Refuses DEF ResetFails, CreateHandleFails, Unseen,
                                     nativeVars, Sites
  <2>4. QED
    BY <2>2, <2>3
<1>3. CASE ResetSucceeds(op, r)
  <2>1. /\ handle' /\ usable' /\ kind' = InitialKind
        /\ Publish(op, r)
    BY <1>3 DEF ResetSucceeds, InitHandle, CreateHandle, NativeInit, ObjectInv,
                ObjectType
  <2>2. /\ answer'.status = "ok" /\ answer'.op = op /\ answer'.rect = r
        /\ answer'.mode = IF op = "Reset" THEN "integer" ELSE "float32"
    BY <1>3 DEF ResetSucceeds, Answer
  <2>3. Sites' = {}
    <3>1. \A v \in Slot : v >= 4 => v # 0 /\ ~(v <= 3)
      BY ConstantsAssumption DEF Slot
    <3>2. \A v \in Slot : v >= 4 => InitialKind[v] = "absent"
      BY <3>1 DEF InitialKind
    <3>3. QED
      BY <2>1, <3>2 DEF Sites
  <2>4. ASites' = [v \in {} |-> 0] /\ Ready'
    BY <2>1, <2>3 DEF ASites, Ready
  <2>5. /\ APublished'.mode = answer'.mode
        /\ APublished'.native = Descriptor(op, r)
        /\ op = "Reset" => APublished'.bounds = r
    BY <2>1, <2>2 DEF APublished, BoundsAnswer, BoundsFloat32Answer, Publish
  <2>6. \/ /\ answer'.op = "Reset"
           /\ APublished'.bounds = answer'.rect
           /\ APublished'.native = AsFloat32[answer'.rect]
        \/ /\ answer'.op = "Reset_Float32"
           /\ APublished'.native = answer'.rect
    BY <2>2, <2>5 DEF Argument, Descriptor
  <2>7. Contract!Reset
    BY <2>2, <2>4, <2>5, <2>6, Zenon DEF Contract!Reset, Contract!NoSites, ASites,
                                         APublished
  <2>8. QED
    BY <2>7 DEF Contract!Next
<1>4. QED
  BY <1>1, <1>2, <1>3 DEF Initialize

LEMMA InsertMeans ==
  ASSUME Ready, UNCHANGED <<Ready, APublished>>,
         NEW p, NEW v \in Slot, p \in Region[APublished.native], Adds(p, v),
         \/ answer' = [Answer("Insert", "ok") EXCEPT !.vertex = v, !.point = p]
         \/ UNCHANGED answer
  PROVE  Contract!Next
<1>1. CASE answer' = [Answer("Insert", "ok") EXCEPT !.vertex = v, !.point = p]
  <2>1. /\ answer'.status = "ok" /\ answer'.op = "Insert"
        /\ answer'.vertex = v /\ answer'.point = p
    BY <1>1 DEF Answer
  <2>2. Contract!Insert
    BY <2>1, Zenon DEF Adds, Contract!Insert, Contract!Added, Contract!AtSuper,
                       ASites, APublished
  <2>3. QED
    BY <2>2 DEF Contract!Next
<1>2. CASE UNCHANGED answer
  <2>1. Contract!InsertMore
    BY <1>2, Zenon DEF Adds, Contract!InsertMore, Contract!Added,
                       Contract!AtSuper, ASites, APublished
  <2>2. QED
    BY <2>1 DEF Contract!Next
<1>3. QED
  BY <1>1, <1>2

LEMMA PointCallImplements ==
  ASSUME IInv, UsableHasHandle, PointCall
  PROVE  Contract!Next
<1> USE DEF IInv
<1>1. PICK p \in Points \cup NonFinite :
         \/ InsertRefused(p)
         \/ InsertBreaks(p)
         \/ LocateEdge(p)
         \/ LocateRefused(p)
         \/ LocateUnknown(p)
         \/ FindNearestRaises(p)
         \/ FindNearestInvalid(p)
         \/ \E v \in Slot :
               Insert(p, v) \/ LocateVertex(p, v) \/ FindNearest(p, v)
  BY DEF PointCall
<1>2. CASE InsertRefused(p) \/ LocateRefused(p)
  BY <1>2, Refuses DEF InsertRefused, LocateRefused, Raise, Raised, Answer,
                       Unseen, adaVars, nativeVars, Sites
<1>3. CASE InsertBreaks(p) \/ LocateUnknown(p) \/ FindNearestInvalid(p)
  <2>1. usable' = FALSE /\ answer' = Raised /\ UNCHANGED adaVars
    BY <1>3 DEF InsertBreaks, InsertOneBreaks, LocateUnknown, FindNearestInvalid
  <2>2. QED
    BY <2>1, Breaking DEF Raised, Answer, adaVars
<1>4. CASE LocateEdge(p)
  <2>1. Unseen /\ Ready
    BY <1>4 DEF LocateEdge, Accepts, Ready, Unseen, adaVars, nativeVars, Sites
  <2>2. answer'.status = "ok" /\ answer'.op = "Locate_Edge"
    BY <1>4 DEF LocateEdge, Answer
  <2>3. QED
    BY <2>1, <2>2, QueryMeans
<1>5. CASE FindNearestRaises(p)
  <2>1. Quiet \/ Computes
    BY <1>5 DEF FindNearestRaises, Quiet, Computes, Issues
  <2>2. answer'.status = "error"
    BY <1>5 DEF FindNearestRaises, Raised, Answer
  <2>3. QED
    BY <2>1, <2>2, QuietUnseen, Refuses
<1>6. ASSUME NEW v \in Slot, Insert(p, v)
      PROVE  Contract!Next
  <2>1. Inserts(p, v)
    BY <1>6 DEF Insert, Accepts, Inserts
  <2>2. answer' = [Answer("Insert", "ok") EXCEPT !.vertex = v, !.point = p]
    BY <1>6 DEF Insert
  <2>3. QED
    BY <2>1, <2>2, Adding, InsertMeans
<1>7. ASSUME NEW v \in Slot, LocateVertex(p, v)
      PROVE  Contract!Next
  <2>1. Quiet /\ Ready /\ p \in Points /\ v \in Coincident(p)
    BY <1>7 DEF LocateVertex, Return, Accepts, Ready, Coincident, Quiet, Issues
  <2>2. answer' = [Answer("Locate_Vertex", "ok") EXCEPT !.vertex = v, !.point = pos[v]]
    BY <1>7 DEF LocateVertex, Return
  <2>3. QED
    BY <2>1, <2>2, QuietUnseen, VertexAnswered
<1>8. ASSUME NEW v \in Slot, FindNearest(p, v)
      PROVE  Contract!Next
  <2>1. Computes /\ Ready /\ p \in Points /\ v \in Sites \cup Coincident(p)
    BY <1>8 DEF FindNearest, Return, Accepts, Ready, Coincident, Computes, Issues
  <2>2. answer' = [Answer("Find_Nearest", "ok") EXCEPT !.vertex = v, !.point = pos[v]]
    BY <1>8 DEF FindNearest, Return
  <2>3. QED
    BY <2>1, <2>2, QuietUnseen, VertexAnswered
<1>9. QED
  BY <1>1, <1>2, <1>3, <1>4, <1>5, <1>6, <1>7, <1>8

\* A batch that has inserted its last point has a usable handle.
BatchDone == call = "batch" /\ batch.remaining = 0 => usable

LEMMA BatchDoneNext ==
  ASSUME [Next]_vars, Control, BatchDone
  PROVE  BatchDone'
<1>1. CASE Elsewhere
  BY <1>1 DEF Elsewhere, vars, callVars, BatchDone
<1>2. ASSUME NEW b \in Batches, BatchStart(b)
      PROVE  BatchDone'
  <2>1. batch'.remaining = Len(b.points) /\ b.points \in Seq(Points) /\ b.points # <<>>
    BY <1>2 DEF BatchStart
  <2>2. Len(b.points) # 0
    BY <2>1
  <2>3. QED
    BY <2>1, <2>2 DEF BatchDone
<1>3. ASSUME NEW v, BatchInsert(v)
      PROVE  BatchDone'
  BY <1>3 DEF BatchInsert, InsertOne, BatchDone
<1>4. CASE BatchRefused \/ BatchBreaks \/ BatchReturns
  BY <1>4 DEF BatchRefused, BatchBreaks, BatchReturns, BatchRaises, BatchDone
<1>5. QED
  BY <1>1, <1>2, <1>3, <1>4, ControlNext DEF BatchStep

LEMMA BatchCallImplements ==
  ASSUME IInv, UsableHasHandle, BatchDone, BatchCall
  PROVE  Contract!Next \/ UNCHANGED Contract!contractVars
<1>1. ASSUME NEW b, BatchRejected(b)
      PROVE  Contract!Next
  BY <1>1, Refuses DEF BatchRejected, Raise, Raised, Answer, Unseen, adaVars,
                       nativeVars, Sites
<1>2. ASSUME NEW b, BatchStart(b)
      PROVE  UNCHANGED Contract!contractVars
  BY <1>2, Stutters DEF BatchStart, Unseen, adaVars, nativeVars, Sites
<1>3. ASSUME NEW b, BatchEmpty(b)
      PROVE  Contract!Next
  <2>1. Unseen /\ Ready
    BY <1>3 DEF BatchEmpty, Unseen, adaVars, nativeVars, Sites
  <2>2. answer'.status = "ok" /\ answer'.op = "Insert_Points"
    BY <1>3 DEF BatchEmpty, Answer
  <2>3. QED
    BY <2>1, <2>2, QueryMeans
<1>4. ASSUME NEW v \in Slot, BatchInsert(v)
      PROVE  Contract!Next
  <2>1. Inserts(NextPoint, v) /\ UNCHANGED answer
    BY <1>4 DEF BatchInsert, Inserts
  <2>2. QED
    BY <2>1, Adding, InsertMeans
<1>5. CASE BatchRefused
  BY <1>5, Refuses DEF BatchRefused, BatchRaises, InsertOneRefused, Raised, Answer,
                       Unseen, adaVars, nativeVars, Sites
<1>6. CASE BatchBreaks
  BY <1>6, Breaking DEF BatchBreaks, BatchRaises, InsertOneBreaks, Raised, Answer,
                        adaVars
<1>7. CASE BatchReturns
  <2>1. Unseen /\ answer'.status = "ok" /\ answer'.op = "Insert_Points"
    BY <1>7 DEF BatchReturns, Answer, Unseen, adaVars, nativeVars, Sites
  <2>2. Ready
    BY <1>7 DEF BatchReturns, BatchDone, UsableHasHandle, Ready
  <2>3. QED
    BY <2>1, <2>2, QueryMeans
<1>8. QED
  BY <1>1, <1>2, <1>3, <1>4, <1>5, <1>6, <1>7 DEF BatchCall, BatchStep

LEMMA VoronoiCallImplements ==
  ASSUME IInv, RequestInv, UsableHasHandle, VoronoiCall
  PROVE  Contract!Next \/ UNCHANGED Contract!contractVars
<1>o. ObjectInv /\ ObjectType
  BY DEF IInv, ObjectInv
<1>a. ASSUME NEW req, ReadVoronoi(req) \/ ReadVoronoiFails(req),
             UNCHANGED <<adaVars, usable>>
      PROVE  Unseen
  BY <1>a, <1>o, ReadVoronoiKeeps DEF Unseen, adaVars
<1>b. ASSUME NEW req, RequestOK(req), Unseen, Ready,
             VoronoiReturns(req, Listed(req))
      PROVE  Contract!Next
  <2>1. /\ answer'.status = "ok" /\ answer'.op = VoronoiOp(req)
        /\ answer'.asked = req.listed /\ answer'.sites = Listed(req)
    BY <1>b DEF VoronoiReturns, Answer
  <2>2. DOMAIN ASites = Sites
    BY <1>b DEF ASites
  <2>3. CASE req.every
    <3>1. answer'.op = "Voronoi_Facets" /\ answer'.sites = Ascending(Sites)
      BY <2>1, <2>3 DEF VoronoiOp, Listed
    <3>2. PICK n \in Nat : n = Cardinality(Sites)
      BY SitesListed, FS_CardinalityType
    <3>3. /\ Ascending(Sites) \in [1 .. n -> Sites]
          /\ \A v \in Sites : \E i \in 1 .. n : Ascending(Sites)[i] = v
          /\ \A i, j \in 1 .. n : i < j => Ascending(Sites)[i] < Ascending(Sites)[j]
      BY <3>2, SitesListed, AscendingFacts
    <3>4. DOMAIN Ascending(Sites) = 1 .. n
      BY <3>3
    <3>5. {Ascending(Sites)[i] : i \in DOMAIN Ascending(Sites)} = Sites
      BY <3>3, <3>4
    <3>6. QED
      BY <1>b, <2>1, <2>2, <3>1, <3>3, <3>4, <3>5, QueryMeans
  <2>4. CASE ~req.every
    <3>1. /\ answer'.op = "Voronoi_Facets_Of" /\ answer'.sites = answer'.asked
          /\ answer'.sites = req.listed
      BY <2>1, <2>4 DEF VoronoiOp, Listed
    <3>2. \A i \in DOMAIN req.listed : req.listed[i] \in Sites
      BY <1>b DEF RequestOK, CheckedSites, Sites
    <3>3. QED
      BY <1>b, <2>1, <2>2, <3>1, <3>2, QueryMeans
  <2>5. QED
    BY <2>3, <2>4
<1>1. ASSUME NEW q, VoronoiRejected(q)
      PROVE  Contract!Next
  BY <1>1, Refuses DEF VoronoiRejected, Raise, Raised, Answer, Unseen, adaVars,
                       nativeVars, Sites
<1>2. ASSUME NEW q, VoronoiFails(q)
      PROVE  Contract!Next
  <2>1. Unseen
    BY <1>2, <1>a DEF VoronoiFails
  <2>2. answer'.status = "error"
    BY <1>2 DEF VoronoiFails, VoronoiRaises, Raised, Answer
  <2>3. QED
    BY <2>1, <2>2, Refuses
<1>3. ASSUME NEW q \in Queries, VoronoiCounts(q)
      PROVE  Contract!Next \/ UNCHANGED Contract!contractVars
  <2>1. Ready /\ ReadVoronoi(q) /\ UNCHANGED <<adaVars, usable>>
    BY <1>3 DEF VoronoiCounts
  <2>2. Unseen
    BY <1>a, <2>1
  <2>3. FacetSites(q) = Listed(q) /\ RequestOK(q) /\ ~InvalidResult
    BY <1>3, <1>o, CountsAgree
  <2>4. CASE Len(Listed(q)) = 0 /\ VoronoiReturns(q, <<>>)
    <3>1. Listed(q) = <<>>
      BY <2>3, <2>4, ListedType
    <3>2. QED
      BY <1>b, <2>1, <2>2, <2>3, <2>4, <3>1
  <2>5. CASE UNCHANGED answer
    BY <2>2, <2>5, Stutters
  <2>6. QED
    BY <1>3, <2>3, <2>4, <2>5 DEF VoronoiCounts
<1>4. CASE VoronoiFill
  <2>1. /\ Ready /\ RequestOK(request) /\ ReadVoronoi(request)
        /\ UNCHANGED <<adaVars, usable>>
    BY <1>4 DEF VoronoiFill, RequestInv
  <2>2. VoronoiReturns(request, Listed(request))
    BY <1>4, <1>o, FillAgrees
  <2>3. Unseen
    BY <1>a, <2>1
  <2>4. QED
    BY <1>b, <2>1, <2>2, <2>3
<1>5. QED
  BY <1>1, <1>2, <1>3, <1>4 DEF VoronoiCall, VoronoiStep, VoronoiCountsFails,
                                VoronoiFillFails

-----------------------------------------------------------------------------
(* The theorems.                                                           *)

ContractInv ==
    /\ IInv
    /\ RequestInv
    /\ UsableHasHandle
    /\ BatchDone
    /\ NoInvalidResult

LEMMA ContractInvInit == Init => ContractInv
<1> SUFFICES ASSUME Init
             PROVE  ContractInv
  OBVIOUS
<1>1. call = "idle" /\ ~usable /\ answer.op = "none"
  BY DEF Init, Answer
<1>2. QED
  BY <1>1, IInvInit DEF ContractInv, RequestInv, UsableHasHandle, BatchDone,
                        NoInvalidResult

LEMMA ContractInvNext == ContractInv /\ [Next]_vars => ContractInv'
BY IInvNext, RequestNext, UsableHasHandleNext, BatchDoneNext, NoInvalidNext
   DEF ContractInv, IInv

LEMMA AlwaysContractInv == Spec => []ContractInv
BY ContractInvInit, ContractInvNext, PTL DEF Spec

LEMMA InitImplements == Init => Contract!Init
<1> SUFFICES ASSUME Init
             PROVE  Contract!Init
  OBVIOUS
<1>1. ~Ready /\ mode = "none" /\ answer.status = "ok"
  BY DEF Init, Ready, Answer
<1>2. QED
  BY <1>1 DEF Contract!Init, Contract!NoSites

LEMMA StepImplements ==
  ASSUME ContractInv, [Next]_vars
  PROVE  Contract!Next \/ UNCHANGED Contract!contractVars
<1> USE DEF ContractInv
<1>1. CASE UNCHANGED vars
  BY <1>1, Stutters DEF vars, Unseen, adaVars, nativeVars, Sites
<1>2. CASE Declare
  BY <1>2, Stutters DEF Declare, Unseen, adaVars, nativeVars, Sites
<1>3. CASE Leave
  <2>1. Contract!Leave
    BY <1>3 DEF Leave, Contract!Leave, Contract!NoSites, Ready
  <2>2. QED
    BY <2>1 DEF Contract!Next
<1>4. ASSUME NEW op, NEW r, Argument(op, r), Initialize(op, r)
      PROVE  Contract!Next
  BY <1>4, InitializeImplements DEF IInv
<1>5. QED
  BY <1>1, <1>2, <1>3, <1>4, PointCallImplements, BatchCallImplements,
     VoronoiCallImplements DEF Next, LifeCycle, Argument

\* The consistency checks on OpenCV's two Voronoi answers never fire: the
\* sites are listed before calcVoronoi changes the slots, and it takes no
\* inserted point's slot; the second call lists what the first has counted.
THEOREM ChecksNeverFire == Spec => []NoInvalidResult
<1>1. ContractInv => NoInvalidResult
  BY DEF ContractInv
<1>2. QED
  BY <1>1, AlwaysContractInv, PTL

\* Every sequence of calls, whichever of them fail and however, does to the
\* caller-visible object what opencv-geometry-subdiv2d.ads promises.
THEOREM SubdivisionImplementsContract == Spec => ImplementsContract
<1>1. ContractInv /\ [Next]_vars => [Contract!Next]_(Contract!contractVars)
  BY StepImplements
<1>2. QED
  BY <1>1, InitImplements, AlwaysContractInv, PTL
     DEF Spec, ImplementsContract, Contract!Spec
=============================================================================
