------------------------------ MODULE Subdiv2D ------------------------------
(***************************************************************************)
(* One OpenCV.Geometry.Subdiv2D.Subdivision object: the Ada controlled     *)
(* record (src/src/opencv-geometry-subdiv2d.adb), the shim handle it owns  *)
(* (src/cpp/opencv_geometry_shim.cpp), and the part of the native          *)
(* cv::Subdiv2D that the two rely on: vertex slots, the number of          *)
(* quad-edges, and whether the Voronoi data is current.  Only the native   *)
(* part is external.                                                       *)
(*                                                                         *)
(* A subdivision is used by one task at a time, so a call is atomic,       *)
(* except for the calls that enter the shim several times: a batch         *)
(* insertion (one native insertion per step, chunk by chunk) and a Voronoi *)
(* request (a counting call, then a filling call).                         *)
(***************************************************************************)
EXTENDS Integers, Sequences, FiniteSets

CONSTANTS
    Points,         \* finite binary32 points
    NonFinite,      \* points with a NaN or infinite coordinate
    NoPoint,        \* the position of a slot that holds no inserted point
    IntRects,       \* integer rectangles
    Rects,          \* binary32 rectangle descriptors
    NoRect,         \* an absent rectangle
    AsFloat32,      \* Native_Descriptor: the binary32 image of an IntRect
    Valid,          \* Valid[f]: descriptors Validate_Native_Bounds accepts
                    \* with factor f
    IntegerFactor,  \* Integer_Bounds_Factor of the linked OpenCV release
    Region,         \* Region[r]: the points of the half-open region of r
    Near,           \* pairs <<p, q>>: OpenCV may find p coincident with q
    SuperNear,      \* SuperNear[r]: the points OpenCV may find coincident with
                    \* a super-triangle vertex of r, none unless r is tiny
    Unlocatable,    \* points whose search may not converge
    Batches,        \* arrays given to the batch Insert: [first, points]
    Requests,       \* Sites arguments given to Voronoi_Facets
    ChunkLength,    \* Insert_Chunk_Length
    NaturalLast,    \* Natural'Last
    IntMax,         \* INT32_MAX
    MaxSlots,       \* bound: vertex slots before memory runs out
    MaxVirtual      \* bound: Voronoi vertices one computation creates

ASSUME ConstantsAssumption ==
    /\ NoPoint \notin Points \cup NonFinite
    /\ NoRect \notin Rects \cup IntRects
    /\ AsFloat32 \in [IntRects -> Rects]
    /\ IntegerFactor \in {3, 6}
    /\ Valid \in [{3, 6} -> SUBSET Rects]
    /\ Region \in [Rects -> SUBSET Points]
    /\ Near \in SUBSET (Points \X Points)
    /\ \A p \in Points : <<p, p>> \in Near
    /\ SuperNear \in [Rects -> SUBSET Points]
    /\ Unlocatable \in SUBSET Points
    /\ ChunkLength \in Nat \ {0}
    /\ NaturalLast \in Nat
    /\ IntMax \in Nat /\ IntMax \div 4 - 16 >= 4
    /\ MaxSlots \in Nat /\ MaxSlots >= 4
    /\ MaxVirtual \in Nat

\* An Ada array's index range lies in Natural: the last index included.
ASSUME BatchesAssumption ==
    \A b \in Batches :
        /\ b.first \in Nat
        /\ b.points \in Seq(Points \cup NonFinite)
        /\ b.first + Len(b.points) - 1 <= NaturalLast

ASSUME RequestsAssumption == Requests \subseteq Seq(Nat)

VARIABLES
    scope,         \* a Subdivision object is declared
    handle,        \* Object.Handle /= null
    mode,          \* Object.Bounds_Mode
    bounds,        \* Object.Bounds
    nativeBounds,  \* Object.Native_Bounds
    live,          \* native objects allocated and not yet destroyed
    usable,        \* handle->usable
    frame,         \* native topLeft and bottomRight, as a descriptor
    kind,          \* vtx: the kind of each slot
    pos,           \* vtx: the position of each slot that holds a point
    qedges,        \* qedges.size()
    validGeometry, \* the Voronoi data is marked current
    diagram,       \* history: the sites the Voronoi data was computed for
    torn,          \* history: a modification failed half-way
    call,          \* the call in progress, if any
    batch,         \* the batch insertion in progress
    request,       \* the Voronoi request in progress
    issued,        \* history: the position of each identifier returned to
                   \* the caller since the last successful Reset
    answer         \* what the last completed call answered

adaVars == <<handle, mode, bounds, nativeBounds>>
vertexVars == <<kind, pos>>
nativeVars == <<frame, kind, pos, qedges, validGeometry, diagram, torn>>
callVars == <<call, batch, request>>
vars == <<scope, adaVars, live, usable, nativeVars, callVars, issued, answer>>

Slot == 0 .. MaxSlots - 1
SlotKind == {"absent", "free", "delaunay", "voronoi"}

\* The super-triangle's slots, and the inserted points'; slot 0 is "no vertex".
Super == 1 .. 3
Sites == {v \in Slot : v >= 4 /\ kind[v] = "delaunay"}

Ready == handle /\ usable

NoBatch == [base |-> 0, points |-> <<>>, first |-> 0,
            remaining |-> 0, inserted |-> 0, done |-> 0]
NoRequest == [every |-> TRUE, listed |-> <<>>, facets |-> 0]
NothingIssued == [v \in Slot |-> NoPoint]

\* The outcome of a call; one that raises answers nothing more.
Answer(op, status) ==
    [op |-> op, status |-> status, mode |-> "none", rect |-> NoRect,
     vertex |-> 0, point |-> NoPoint, index |-> -1,
     asked |-> <<>>, sites |-> <<>>]
Raised == Answer("none", "error")

-----------------------------------------------------------------------------
(* Native storage.                                                         *)

\* initDelaunay and initialize_float32_compat: the null slot 0, then the
\* three super-triangle vertices, and nothing free.
InitialKind == [v \in Slot |-> IF v = 0 THEN "free"
                               ELSE IF v <= 3 THEN "delaunay" ELSE "absent"]
NoPositions == [v \in Slot |-> NoPoint]
InitialQuadEdges == 4

\* Free slots newPoint may take; slot 0 is never on the free list.
FreeSlots(k) == {v \in Slot \ {0} : k[v] = "free"}
AbsentSlots(k) == {v \in Slot : k[v] = "absent"}

\* newPoint reuses a free slot, or else appends one; none when storage is full.
NewSlots(k) ==
    IF FreeSlots(k) # {} THEN FreeSlots(k)
    ELSE {v \in AbsentSlots(k) : \A u \in AbsentSlots(k) : v <= u}

\* clearVoronoi frees every virtual slot.
ClearedKind == [v \in Slot |-> IF kind[v] = "voronoi" THEN "free" ELSE kind[v]]

\* The slots a run of newPoint calls may fill, free ones first.
VirtualSlots(k) ==
    {S \in SUBSET (FreeSlots(k) \cup AbsentSlots(k)) :
        /\ Cardinality(S) <= MaxVirtual
        /\ \A v \in S \cap AbsentSlots(k) :
              /\ FreeSlots(k) \subseteq S
              /\ \A u \in AbsentSlots(k) : u < v => u \in S}

\* calcVoronoi, when it returns.
VoronoiComputed ==
    /\ IF validGeometry
       THEN UNCHANGED <<kind, validGeometry, diagram>>
       ELSE /\ \E S \in VirtualSlots(ClearedKind) :
                  kind' = [v \in Slot |->
                             IF v \in S THEN "voronoi" ELSE ClearedKind[v]]
            /\ validGeometry' = TRUE
            /\ diagram' = Sites
    /\ UNCHANGED <<frame, pos, qedges, torn>>

\* calcVoronoi, or an allocation after it, raises: some Voronoi vertices may
\* exist, and the data is not marked current unless it was before.
VoronoiFailed ==
    /\ \/ UNCHANGED kind
       \/ /\ ~validGeometry
          /\ \E S \in VirtualSlots(ClearedKind) :
                kind' = [v \in Slot |->
                           IF v \in S THEN "voronoi" ELSE ClearedKind[v]]
    /\ UNCHANGED <<frame, pos, qedges, validGeometry, diagram, torn>>

\* Mutant: initialize_float32_compat forgets validGeometry = false.
NativeInitKeepsGeometry(rect) ==
    /\ frame' = rect
    /\ kind' = InitialKind
    /\ pos' = NoPositions
    /\ qedges' = InitialQuadEdges
    /\ torn' = FALSE
    /\ UNCHANGED <<validGeometry, diagram>>

\* Native initialization completes.
NativeInit(rect) ==
    /\ frame' = rect
    /\ kind' = InitialKind
    /\ pos' = NoPositions
    /\ qedges' = InitialQuadEdges
    /\ validGeometry' = FALSE
    /\ diagram' = {}
    /\ torn' = FALSE

\* Native initialization clears its storage, then fails to allocate.
NativeInitFails(rect) ==
    /\ frame' = rect
    /\ kind' = [v \in Slot |-> "absent"]
    /\ pos' = NoPositions
    /\ qedges' = 0
    /\ validGeometry' = FALSE
    /\ diagram' = {}
    /\ torn' = TRUE

NativeAbsent ==
    /\ frame = NoRect
    /\ kind = [v \in Slot |-> "absent"]
    /\ pos = NoPositions
    /\ qedges = 0
    /\ validGeometry = FALSE
    /\ diagram = {}
    /\ torn = FALSE

-----------------------------------------------------------------------------
(* Native insertion, and the shim's subdiv2d_insert_one around it.         *)

MaximumQuadEdges == IntMax \div 4 - 16
\* Mutant: insertion without the shim's room check.
HasRoomAlways == TRUE

HasRoom == qedges + 4 <= MaximumQuadEdges

\* Vertices locate may report p at: closer than FLT_EPSILON, whatever the scale.
Coincident(p) ==
    {v \in Sites : <<p, pos[v]>> \in Near}
    \cup (IF p \in SuperNear[frame] THEN Super ELSE {})

\* cv::Subdiv2D::insert returns v: a vertex p coincides with, or a new one,
\* whose edges replace what was there and invalidate the Voronoi data.
NativeInsert(p, v) ==
    /\ p \in Region[frame]
    /\ \/ /\ v \in Coincident(p)
          /\ UNCHANGED nativeVars
       \/ /\ \A u \in Sites : pos[u] # p
          /\ v \in NewSlots(kind)
          /\ kind' = [kind EXCEPT ![v] = "delaunay"]
          /\ pos' = [pos EXCEPT ![v] = p]
          /\ qedges' = qedges + 3
          /\ validGeometry' = FALSE
          /\ UNCHANGED <<frame, diagram, torn>>

\* It raises anything but StsError, StsBadSize or StsOutOfRange: before any
\* change, after deleting the edge p lies on, or before p's vertex has its edges.
NativeInsertBreaks(p) ==
    /\ p \in Region[frame]
    /\ \/ /\ torn' \in {torn, TRUE}
          /\ validGeometry' \in {validGeometry, FALSE}
          /\ UNCHANGED <<frame, kind, pos, qedges, diagram>>
       \/ \E v \in NewSlots(kind) :
             /\ torn' = TRUE
             /\ kind' = [kind EXCEPT ![v] = "delaunay"]
             /\ pos' = [pos EXCEPT ![v] = p]
             /\ validGeometry' = FALSE
             /\ qedges' \in qedges .. qedges + 2
             /\ UNCHANGED <<frame, diagram>>

InsertOne(p, v) ==
    /\ HasRoom
    /\ NativeInsert(p, v)
    /\ UNCHANGED usable

\* No room, or an error code OpenCV raises before it modifies anything.
InsertOneRefused(p) ==
    /\ \/ ~HasRoom
       \/ p \notin Region[frame]
       \/ p \in Unlocatable
    /\ UNCHANGED <<usable, nativeVars>>

\* Mutant: only the error is reported, as for an error before mutation.
InsertOneBreaksUsable(p) ==
    /\ HasRoom
    /\ NativeInsertBreaks(p)
    /\ UNCHANGED usable

InsertOneBreaks(p) ==
    /\ HasRoom
    /\ NativeInsertBreaks(p)
    /\ usable' = FALSE

-----------------------------------------------------------------------------
(* The object's life: declaration, Create, Reset and Finalize.             *)

Idle == scope /\ call = "idle"

\* A call that raises OpenCV_Error and changes nothing.
Raise ==
    /\ answer' = Raised
    /\ UNCHANGED <<scope, adaVars, live, usable, nativeVars, callVars, issued>>

Declare ==
    /\ ~scope
    /\ scope' = TRUE
    /\ UNCHANGED <<adaVars, live, usable, nativeVars, callVars, issued, answer>>

Factor(op) == IF op = "Reset" THEN IntegerFactor ELSE 6
Descriptor(op, r) == IF op = "Reset" THEN AsFloat32[r] ELSE r

\* opencv_geometry_subdiv2d_create and _create_f32 publish a handle only
\* after the native object is initialized; a failure deletes what it built.
CreateHandle(rect) ==
    /\ live' = live + 1
    /\ NativeInit(rect)
    /\ usable' = TRUE
    /\ handle' = TRUE

CreateHandleFails == UNCHANGED <<live, nativeVars, usable, handle>>

\* opencv_geometry_subdiv2d_init_delaunay and _init_delaunay_f32.
InitHandle(rect) ==
    /\ NativeInit(rect)
    /\ usable' = TRUE
    /\ UNCHANGED <<live, handle>>

\* Mutants: the failure leaves the handle usable; the failure makes the Ada
\* object drop its handle without destroying it.
InitHandleFailsUsable(rect) ==
    /\ NativeInitFails(rect)
    /\ UNCHANGED <<live, handle, usable>>
InitHandleForgets(rect) ==
    /\ usable' = FALSE
    /\ NativeInitFails(rect)
    /\ handle' = FALSE
    /\ UNCHANGED live

InitHandleFails(rect) ==
    /\ usable' = FALSE
    /\ NativeInitFails(rect)
    /\ UNCHANGED <<live, handle>>

\* Mutants: Reset does not store Native_Bounds; Reset_Float32 stores its
\* rectangle in Object.Bounds.
PublishInteger(op, r) ==
    IF op = "Reset"
    THEN mode' = "integer" /\ bounds' = r /\ UNCHANGED nativeBounds
    ELSE mode' = "float32" /\ nativeBounds' = r /\ UNCHANGED bounds

\* Reset stores Bounds, Native_Bounds and Bounds_Mode; Reset_Float32 leaves
\* Object.Bounds as it was.
Publish(op, r) ==
    /\ nativeBounds' = Descriptor(op, r)
    /\ IF op = "Reset"
       THEN mode' = "integer" /\ bounds' = r
       ELSE mode' = "float32" /\ UNCHANGED bounds

\* Create and Create_Float32 are the same procedures on a new object, which
\* is finalized again, and never seen, unless they succeed.
MayReset == ~scope \/ Idle

ResetRejected(op, r) ==
    /\ MayReset
    /\ Descriptor(op, r) \notin Valid[Factor(op)]
    /\ Raise

ResetSucceeds(op, r) ==
    /\ MayReset
    /\ Descriptor(op, r) \in Valid[Factor(op)]
    /\ IF handle
       THEN InitHandle(Descriptor(op, r))
       ELSE CreateHandle(Descriptor(op, r))
    /\ Publish(op, r)
    /\ scope' = TRUE
    /\ issued' = NothingIssued
    /\ answer' = [Answer(op, "ok") EXCEPT
                    !.mode = IF op = "Reset" THEN "integer" ELSE "float32",
                    !.rect = r]
    /\ UNCHANGED callVars

\* Mutant: the new bounds are stored before the native call has succeeded.
ResetFailsPublished(op, r) ==
    /\ MayReset
    /\ Descriptor(op, r) \in Valid[Factor(op)]
    /\ IF handle
       THEN InitHandleFails(Descriptor(op, r))
       ELSE CreateHandleFails
    /\ Publish(op, r)
    /\ answer' = Raised
    /\ UNCHANGED <<scope, callVars, issued>>

ResetFails(op, r) ==
    /\ MayReset
    /\ Descriptor(op, r) \in Valid[Factor(op)]
    /\ IF handle
       THEN InitHandleFails(Descriptor(op, r))
       ELSE CreateHandleFails
    /\ answer' = Raised
    /\ UNCHANGED <<scope, mode, bounds, nativeBounds, callVars, issued>>

Initialize(op, r) ==
    ResetRejected(op, r) \/ ResetSucceeds(op, r) \/ ResetFails(op, r)

\* The object leaves its scope: Finalize destroys what it owns.  The record
\* of the next object declared starts from its defaults.
Leave ==
    /\ Idle
    /\ live' = IF handle THEN live - 1 ELSE live
    /\ handle' = FALSE
    /\ mode' = "none"
    /\ scope' = FALSE
    /\ bounds' = NoRect
    /\ nativeBounds' = NoRect
    /\ usable' = FALSE
    /\ frame' = NoRect
    /\ kind' = [v \in Slot |-> "absent"]
    /\ pos' = NoPositions
    /\ qedges' = 0
    /\ validGeometry' = FALSE
    /\ diagram' = {}
    /\ torn' = FALSE
    /\ issued' = NothingIssued
    /\ UNCHANGED <<callVars, answer>>

-----------------------------------------------------------------------------
(* Single insertion, Locate and Find_Nearest.                              *)

\* Validate_Point and Native_Handle raise before the shim is entered, and
\* the shim refuses a handle that is not usable.
Accepts(p) == p \in Points /\ handle /\ usable

Insert(p, v) ==
    /\ Idle
    /\ Accepts(p)
    /\ InsertOne(p, v)
    /\ issued' = [issued EXCEPT ![v] = pos'[v]]
    /\ answer' = [Answer("Insert", "ok") EXCEPT !.vertex = v, !.point = p]
    /\ UNCHANGED <<scope, adaVars, live, callVars>>

InsertRefused(p) ==
    /\ Idle
    /\ Accepts(p) => InsertOneRefused(p)
    /\ Raise

InsertBreaks(p) ==
    /\ Idle
    /\ Accepts(p)
    /\ InsertOneBreaks(p)
    /\ answer' = Raised
    /\ UNCHANGED <<scope, adaVars, live, callVars, issued>>

\* The answer names v, whose position the caller may read from now on.
Return(op, v) ==
    /\ issued' = [issued EXCEPT ![v] = pos[v]]
    /\ answer' = [Answer(op, "ok") EXCEPT !.vertex = v, !.point = pos[v]]

\* Locate moves only OpenCV's cached search start.
LocateVertex(p, v) ==
    /\ Idle
    /\ Accepts(p)
    /\ p \in Region[frame]
    /\ v \in Coincident(p)
    /\ Return("Locate_Vertex", v)
    /\ UNCHANGED <<scope, adaVars, live, usable, nativeVars, callVars>>

LocateEdge(p) ==
    /\ Idle
    /\ Accepts(p)
    /\ p \in Region[frame]
    /\ \A u \in Sites : pos[u] # p
    /\ answer' = Answer("Locate_Edge", "ok")
    /\ UNCHANGED <<scope, adaVars, live, usable, nativeVars, callVars, issued>>

\* A point outside the bounds, or a search that does not converge.
LocateRefused(p) ==
    /\ Idle
    /\ Accepts(p) => p \notin Region[frame] \/ p \in Unlocatable
    /\ Raise

\* An unknown location: the shim marks the handle unusable.
LocateUnknown(p) ==
    /\ Idle
    /\ Accepts(p)
    /\ usable' = FALSE
    /\ answer' = Raised
    /\ UNCHANGED <<scope, adaVars, live, nativeVars, callVars, issued>>

FindNearest(p, v) ==
    /\ Idle
    /\ Accepts(p)
    /\ VoronoiComputed
    /\ p \in Region[frame]
    /\ v \in Sites \cup Coincident(p)
    /\ Return("Find_Nearest", v)
    /\ UNCHANGED <<scope, adaVars, live, usable, callVars>>

\* No vertex reported, a point outside the bounds, a search that does not
\* converge, or a failed Voronoi computation: the object stays ready, though
\* its Voronoi data may have changed.
FindNearestRaises(p) ==
    /\ Idle
    /\ IF Accepts(p)
       THEN VoronoiComputed \/ VoronoiFailed
       ELSE UNCHANGED nativeVars
    /\ answer' = Raised
    /\ UNCHANGED <<scope, adaVars, live, usable, callVars, issued>>

\* A vertex beyond native storage: the shim marks the handle unusable.
FindNearestInvalid(p) ==
    /\ Idle
    /\ Accepts(p)
    /\ VoronoiComputed
    /\ usable' = FALSE
    /\ answer' = Raised
    /\ UNCHANGED <<scope, adaVars, live, callVars, issued>>

-----------------------------------------------------------------------------
(* Batch insertion.  batch.first is the Ada variable First, batch.inserted *)
(* the shim's *out_inserted_count in the current chunk; batch.base is      *)
(* Points'First and batch.done counts the points inserted in all.          *)

BatchRejected(b) ==
    /\ Idle
    /\ \/ \E i \in DOMAIN b.points : b.points[i] \in NonFinite
       \/ ~handle
       \/ b.points = <<>> /\ ~usable
    /\ Raise

BatchEmpty(b) ==
    /\ Idle
    /\ Ready
    /\ b.points = <<>>
    /\ answer' = Answer("Insert_Points", "ok")
    /\ UNCHANGED <<scope, adaVars, live, usable, nativeVars, callVars, issued>>

BatchStart(b) ==
    /\ Idle
    /\ b.points \in Seq(Points) /\ b.points # <<>>
    /\ handle
    /\ call' = "batch"
    /\ batch' = [base |-> b.first, points |-> b.points, first |-> b.first,
                 remaining |-> Len(b.points), inserted |-> 0, done |-> 0]
    /\ UNCHANGED <<scope, adaVars, live, usable, nativeVars, request, issued,
                   answer>>

Count == IF batch.remaining < ChunkLength THEN batch.remaining ELSE ChunkLength

\* Points (First + Offset), the next point of the chunk.
NextPoint == batch.points[batch.first - batch.base + batch.inserted + 1]

ChunkRuns == call = "batch" /\ batch.remaining > 0

\* Mutant: First advances after the last chunk too.
NextFirstAlways == batch.first + Count

\* First advances only while points remain, so that it never leaves the index
\* range of an array that ends at Natural'Last.
NextFirst ==
    IF batch.remaining > Count THEN batch.first + Count ELSE batch.first

\* The next point is inserted; the last one of a chunk ends the native call.
BatchInsert(v) ==
    /\ ChunkRuns
    /\ usable
    /\ InsertOne(NextPoint, v)
    /\ IF batch.inserted + 1 < Count
       THEN batch' = [batch EXCEPT !.inserted = @ + 1, !.done = @ + 1]
       ELSE batch' = [batch EXCEPT
                        !.remaining = @ - Count,
                        !.first = NextFirst,
                        !.inserted = 0,
                        !.done = @ + 1]
    /\ UNCHANGED <<scope, adaVars, live, call, request, issued, answer>>

BatchReturns ==
    /\ call = "batch"
    /\ batch.remaining = 0
    /\ call' = "idle"
    /\ batch' = NoBatch
    /\ answer' = Answer("Insert_Points", "ok")
    /\ UNCHANGED <<scope, adaVars, live, usable, nativeVars, request, issued>>

\* Mutant: the index counts from Points'First, as in the first chunk.
BatchRaisesFromBase ==
    /\ call' = "idle"
    /\ answer' = [Raised EXCEPT !.index = batch.base + batch.inserted]
    /\ batch' = NoBatch
    /\ UNCHANGED <<scope, adaVars, live, request, issued>>

\* The exception names First + Inserted.
BatchRaises ==
    /\ call' = "idle"
    /\ answer' = [Raised EXCEPT !.index = batch.first + batch.inserted]
    /\ batch' = NoBatch
    /\ UNCHANGED <<scope, adaVars, live, request, issued>>

\* Mutant: a chunk none of whose points was inserted is tried again.
BatchRefusedLater ==
    /\ ChunkRuns
    /\ batch.inserted > 0
    /\ IF usable
       THEN InsertOneRefused(NextPoint)
       ELSE UNCHANGED <<usable, nativeVars>>
    /\ BatchRaises

\* insert_points finds the handle not usable, or the point is refused.
BatchRefused ==
    /\ ChunkRuns
    /\ IF usable
       THEN InsertOneRefused(NextPoint)
       ELSE UNCHANGED <<usable, nativeVars>>
    /\ BatchRaises

BatchBreaks ==
    /\ ChunkRuns
    /\ usable
    /\ InsertOneBreaks(NextPoint)
    /\ BatchRaises

BatchStep ==
    \/ \E v \in Slot : BatchInsert(v)
    \/ BatchRefused
    \/ BatchBreaks
    \/ BatchReturns

-----------------------------------------------------------------------------
(* Voronoi_Facets, of every inserted point or of the listed Sites.         *)

\* Mutant: Check_Site compares the identifier, and not the slot's kind.
CheckedSiteNumbers(sites) ==
    \A i \in DOMAIN sites : sites[i] >= 4 /\ sites[i] \in Slot

\* Check_Site raises unless the site is an inserted point's vertex.
CheckedSites(sites) ==
    \A i \in DOMAIN sites :
        sites[i] >= 4 /\ sites[i] \in Slot /\ kind[sites[i]] = "delaunay"

\* The elements of S in increasing order: after i - 1 smaller ones, the i-th.
Ascending(S) ==
    [i \in 1 .. Cardinality(S) |->
        CHOOSE v \in S : Cardinality({u \in S : u < v}) = i - 1]

\* The vertices subdiv2d_read_voronoi lists, before the native call.
Listed(req) == IF req.every THEN Ascending(Sites) ELSE req.listed

\* The vertices of a list whose slots hold a point, in the list's order.
Holding(listed, k) ==
    LET at == Ascending({i \in DOMAIN listed : k[listed[i]] = "delaunay"})
    IN  [i \in DOMAIN at |-> listed[at[i]]]

\* getVoronoiFacetList emits a facet for each listed slot that holds a point
\* after calcVoronoi; it takes an empty list for every slot from 4 on.
NativeFacets(listed, k) ==
    Holding(IF listed = <<>> THEN Ascending({v \in Slot : v >= 4}) ELSE listed, k)

\* The sites the shim pairs with those facets.
PairedSites(listed, k) == Holding(listed, k)

\* What subdiv2d_read_voronoi pairs; an empty list never reaches OpenCV.
FacetSites(req) == PairedSites(Listed(req), kind')

Pairs(req) ==
    Len(FacetSites(req)) = Len(NativeFacets(Listed(req), kind'))

ReadVoronoi(req) ==
    IF Listed(req) = <<>>
    THEN UNCHANGED nativeVars
    ELSE VoronoiComputed /\ Pairs(req)

\* It fails: the computation raised, or the facets do not pair with the sites.
ReadVoronoiFails(req) ==
    /\ Listed(req) # <<>>
    /\ VoronoiFailed \/ (VoronoiComputed /\ ~Pairs(req))

VoronoiOp(req) == IF req.every THEN "Voronoi_Facets" ELSE "Voronoi_Facets_Of"

\* The call ends with the facets of these sites, or raises.
VoronoiReturns(req, sites) ==
    /\ call' = "idle"
    /\ request' = NoRequest
    /\ answer' = [Answer(VoronoiOp(req), "ok") EXCEPT
                    !.asked = req.listed, !.sites = sites]

VoronoiRaises ==
    /\ call' = "idle"
    /\ request' = NoRequest
    /\ answer' = Raised

\* Invalid_Result: the facets are not the ones the object must have.
InvalidResult ==
    /\ call' = "idle"
    /\ request' = NoRequest
    /\ answer' = Answer("Invalid_Result", "error")

VoronoiRejected(req) ==
    /\ Idle
    /\ ~Ready \/ ~CheckedSites(req.listed)
    /\ Raise

\* The first native call sizes the buffers; an empty diagram needs no more.
VoronoiCounts(req) ==
    /\ Idle
    /\ Ready
    /\ CheckedSites(req.listed)
    /\ ReadVoronoi(req)
    /\ LET counted == Len(FacetSites(req))
       IN  IF ~req.every /\ counted # Len(req.listed)
           THEN InvalidResult
           ELSE IF counted = 0
           THEN VoronoiReturns(req, <<>>)
           ELSE /\ call' = "voronoi"
                /\ request' = [req EXCEPT !.facets = counted]
                /\ UNCHANGED answer
    /\ UNCHANGED <<scope, adaVars, live, usable, batch, issued>>

\* Every inserted point once, in increasing order, or exactly the Sites.
ExpectedSites(req, sites) ==
    IF req.every
    THEN \A i \in DOMAIN sites :
            sites[i] > (IF i = 1 THEN 3 ELSE sites[i - 1])
    ELSE sites = req.listed

\* The second native call fills them.
VoronoiFill ==
    /\ call = "voronoi"
    /\ ReadVoronoi(request)
    /\ IF /\ Len(FacetSites(request)) = request.facets
          /\ ExpectedSites(request, FacetSites(request))
       THEN VoronoiReturns(request, FacetSites(request))
       ELSE InvalidResult
    /\ UNCHANGED <<scope, adaVars, live, usable, batch, issued>>

\* Either native call fails: the object stays ready.
VoronoiFails(req) ==
    /\ ReadVoronoiFails(req)
    /\ VoronoiRaises
    /\ UNCHANGED <<scope, adaVars, live, usable, batch, issued>>

VoronoiCountsFails(req) ==
    /\ Idle
    /\ Ready
    /\ CheckedSites(req.listed)
    /\ VoronoiFails(req)

VoronoiFillFails == call = "voronoi" /\ VoronoiFails(request)

VoronoiStep == VoronoiFill \/ VoronoiFillFails

-----------------------------------------------------------------------------
(* What the pure queries answer.                                           *)

BoundsAnswer == IF mode = "integer" THEN bounds ELSE NoRect
BoundsFloat32Answer == IF mode = "none" THEN NoRect ELSE nativeBounds

\* Vertex_Point: a free slot, or one beyond native storage, raises.
VertexPoint(v) ==
    IF Ready /\ v # 0 /\ kind[v] \in {"delaunay", "voronoi"} THEN pos[v]
    ELSE NoPoint

-----------------------------------------------------------------------------
Init ==
    /\ scope = FALSE
    /\ handle = FALSE
    /\ mode = "none"
    /\ bounds = NoRect
    /\ nativeBounds = NoRect
    /\ live = 0
    /\ usable = FALSE
    /\ NativeAbsent
    /\ call = "idle"
    /\ batch = NoBatch
    /\ request = NoRequest
    /\ issued = NothingIssued
    /\ answer = Answer("none", "ok")

Queries ==
    {[every |-> TRUE, listed |-> <<>>, facets |-> 0]}
    \cup {[every |-> FALSE, listed |-> s, facets |-> 0] : s \in Requests}

LifeCycle ==
    \/ Declare
    \/ Leave
    \/ \E r \in IntRects : Initialize("Reset", r)
    \/ \E r \in Rects : Initialize("Reset_Float32", r)

PointCall ==
    \E p \in Points \cup NonFinite :
        \/ InsertRefused(p)
        \/ InsertBreaks(p)
        \/ LocateEdge(p)
        \/ LocateRefused(p)
        \/ LocateUnknown(p)
        \/ FindNearestRaises(p)
        \/ FindNearestInvalid(p)
        \/ \E v \in Slot : Insert(p, v) \/ LocateVertex(p, v) \/ FindNearest(p, v)

BatchCall ==
    \/ \E b \in Batches : BatchRejected(b) \/ BatchEmpty(b) \/ BatchStart(b)
    \/ BatchStep

VoronoiCall ==
    \/ \E q \in Queries : VoronoiRejected(q) \/ VoronoiCounts(q)
                         \/ VoronoiCountsFails(q)
    \/ VoronoiStep

Next == LifeCycle \/ PointCall \/ BatchCall \/ VoronoiCall

\* A call in progress returns: the task that made it keeps running.
Spec ==
    /\ Init
    /\ [][Next]_vars
    /\ WF_vars(BatchStep)
    /\ WF_vars(VoronoiStep)

-----------------------------------------------------------------------------
(* Properties.                                                             *)

\* Types of the Ada record, the shim's handle and the native storage.
TypeOK ==
    /\ scope \in BOOLEAN /\ handle \in BOOLEAN /\ usable \in BOOLEAN
    /\ mode \in {"none", "integer", "float32"}
    /\ bounds \in IntRects \cup {NoRect}
    /\ nativeBounds \in Rects \cup {NoRect}
    /\ frame \in Rects \cup {NoRect}
    /\ live \in Int
    /\ kind \in [Slot -> SlotKind]
    /\ pos \in [Slot -> Points \cup {NoPoint}]
    /\ qedges \in Nat
    /\ validGeometry \in BOOLEAN /\ torn \in BOOLEAN
    /\ diagram \in SUBSET Slot
    /\ call \in {"idle", "batch", "voronoi"}
    /\ issued \in [Slot -> Points \cup {NoPoint}]
    /\ answer.status \in {"ok", "error"}

\* A handle that accepts operations holds a whole triangulation: whatever
\* raised half-way through an insertion or an initialization, the shim has
\* left usable false (subdiv2d_insert_one, init_delaunay).
UsableIsWhole == usable => ~torn

\* The object owns exactly one native object while its handle is set, and
\* none is left behind or destroyed twice over any sequence of failed and
\* repeated Create, Reset and Finalize.
HandleOwnsOne == live = (IF handle THEN 1 ELSE 0)

\* While the object is ready, the bounds its queries answer are those of the
\* triangulation OpenCV really holds, also after failed and mixed
\* initializations, and Bounds never rounds a Float32 rectangle.
PublishedBoundsAreNative ==
    Ready => /\ BoundsFloat32Answer = frame
             /\ BoundsAnswer # NoRect => AsFloat32[BoundsAnswer] = frame

\* "A vertex identifier of an inserted point stays valid until the next
\* Reset": Voronoi computations, which free and reuse slots, and later
\* insertions never move or free a vertex the caller was given.
IssuedVerticesStay ==
    Ready => \A v \in Slot : issued[v] # NoPoint => VertexPoint(v) = issued[v]

\* Voronoi data that Find_Nearest and Voronoi_Facets take as current was
\* computed for exactly the points there are now.
VoronoiDataCurrent == Ready /\ validGeometry => diagram = Sites

\* OpenCV computes edge identifiers and getEdge's edge + 0x33 in signed int:
\* after any sequence of insertions they fit.
EdgeArithmeticInRange == Ready => 4 * qedges - 1 + 51 <= IntMax

\* While a batch runs, First and the chunk it reads stay inside the array's
\* index range, even for an array that ends at Natural'Last.
BatchIndexInRange ==
    /\ batch.first \in 0 .. NaturalLast
    /\ ChunkRuns => batch.first + Count <= batch.base + Len(batch.points)

\* "The points before it remain inserted": every point the batch has passed
\* has a vertex.
BatchPrefixInserted ==
    call = "batch" =>
        \A i \in 1 .. batch.done : Coincident(batch.points[i]) # {}

\* The defensive checks on what the two native Voronoi calls answer never
\* fire: listing the sites before calcVoronoi changes the slots is harmless.
NoInvalidResult == answer.op # "Invalid_Result"

\* "The inserted vertex whose Voronoi facet contains Point ...  Raises
\* OpenCV_Error when no point has been inserted": Find_Nearest never answers
\* with a vertex of the super-triangle.
NearestIsInserted == answer.op = "Find_Nearest" => answer.vertex \notin Super

\* A batch that returns has inserted every point; one that raises names the
\* index of the first point that was not inserted, whatever the chunk.
BatchReportsProgress ==
    [][call = "batch" /\ call' = "idle" =>
          IF answer'.status = "ok"
          THEN batch.done = Len(batch.points)
          ELSE answer'.index = batch.base + batch.done]_vars

\* A call that enters the shim several times returns.
CallsReturn == call # "idle" ~> call = "idle"

\* Subdiv2D implements the contract its package specification states.
Contract == INSTANCE SubdivisionContract WITH
    Ids <- Slot,
    ready <- Ready,
    published <- [mode |-> mode, bounds |-> BoundsAnswer,
                  native |-> BoundsFloat32Answer],
    sites <- IF Ready THEN [v \in Sites |-> pos[v]] ELSE [v \in {} |-> 0]

\* Every call does to the caller-visible state what the contract allows.
ImplementsContract == Contract!Spec
=============================================================================
