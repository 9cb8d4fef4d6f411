------------------------- MODULE SubdivisionContract -------------------------
(***************************************************************************)
(* What OpenCV.Geometry.Subdiv2D promises its caller, in the terms of its  *)
(* package specification (src/src/opencv-geometry-subdiv2d.ads): whether   *)
(* the object is ready, the bounds of the last successful initialization,  *)
(* the vertex identifier and position of every inserted point, and what    *)
(* the last call answered.  Handles, slots, quad-edges, chunks and Voronoi *)
(* data do not appear: Subdiv2D.tla has them and implements this module.   *)
(***************************************************************************)
EXTENDS Integers, Sequences

CONSTANTS
    Points,     \* finite binary32 points
    IntRects,   \* integer rectangles
    Rects,      \* binary32 rectangle descriptors
    AsFloat32,  \* each integer field converted as native OpenCV does
    Region,     \* Region[r]: the points of the half-open region of r
    Near,       \* pairs <<p, q>>: OpenCV may find p coincident with q
    SuperNear,  \* SuperNear[r]: points that may coincide with a super-triangle
                \* vertex of r
    Ids         \* vertex identifiers

VARIABLES
    ready,      \* Is_Ready
    published,  \* the answers of Bounds and Bounds_Float32
    sites,      \* the inserted points: a function from identifier to position
    answer      \* what the last completed call answered

contractVars == <<ready, published, sites, answer>>

NoSites == [v \in {} |-> 0]

Init ==
    /\ ready = FALSE
    /\ published.mode = "none"
    /\ sites = NoSites
    /\ answer.status = "ok"

-----------------------------------------------------------------------------
\* The call raises and the object is as before: rejected arguments, an object
\* that is not ready, or a native refusal before any modification.
Refuse ==
    /\ answer'.status = "error"
    /\ UNCHANGED <<ready, published, sites>>

\* A native failure inside a modification: the object is not ready, keeps its
\* published bounds, and only Reset makes it ready again.
Break ==
    /\ answer'.status = "error"
    /\ ready' = FALSE
    /\ sites' = NoSites
    /\ UNCHANGED published

Reset ==
    /\ answer'.status = "ok"
    /\ ready' = TRUE
    /\ sites' = NoSites
    /\ published'.mode = answer'.mode
    /\ \/ /\ answer'.op = "Reset"
          /\ published'.bounds = answer'.rect
          /\ published'.native = AsFloat32[answer'.rect]
       \/ /\ answer'.op = "Reset_Float32"
          /\ published'.native = answer'.rect

\* OpenCV may report p, inside the bounds, at a super-triangle vertex.
AtSuper(p, v) == v \in 1 .. 3 /\ p \in SuperNear[published.native]

\* v is the vertex of p: an existing one that p coincides with, whose position
\* stays what it was, or a fresh identifier beyond the super-triangle's.
Added(p, v) ==
    \/ /\ v \in DOMAIN sites
       /\ <<p, sites[v]>> \in Near
       /\ sites' = sites
    \/ /\ AtSuper(p, v)
       /\ sites' = sites
    \/ /\ v \notin DOMAIN sites
       /\ v >= 4
       /\ sites' = [u \in DOMAIN sites \cup {v} |->
                       IF u = v THEN p ELSE sites[u]]

Insert ==
    /\ ready
    /\ answer'.status = "ok"
    /\ answer'.op = "Insert"
    /\ answer'.point \in Region[published.native]
    /\ Added(answer'.point, answer'.vertex)
    /\ UNCHANGED <<ready, published>>

\* One point of a batch, whose call goes on.
InsertMore ==
    /\ ready
    /\ \E p \in Region[published.native], v \in Ids : Added(p, v)
    /\ UNCHANGED <<ready, published, answer>>

\* A query answers about the sites there are, and changes none of this.
Query ==
    /\ ready
    /\ answer'.status = "ok"
    /\ UNCHANGED <<ready, published, sites>>
    /\ \/ answer'.op \in {"Insert_Points", "Locate_Edge"}
       \/ /\ answer'.op \in {"Locate_Vertex", "Find_Nearest"}
          /\ \/ /\ answer'.vertex \in DOMAIN sites
                /\ answer'.point = sites[answer'.vertex]
             \/ \E p \in Points : AtSuper(p, answer'.vertex)
       \/ /\ answer'.op = "Voronoi_Facets"
          /\ {answer'.sites[i] : i \in DOMAIN answer'.sites} = DOMAIN sites
          /\ \A i, j \in DOMAIN answer'.sites :
                i < j => answer'.sites[i] < answer'.sites[j]
       \/ /\ answer'.op = "Voronoi_Facets_Of"
          /\ answer'.sites = answer'.asked
          /\ \A i \in DOMAIN answer'.sites : answer'.sites[i] \in DOMAIN sites

\* The object leaves its scope.
Leave ==
    /\ ready' = FALSE
    /\ published'.mode = "none"
    /\ sites' = NoSites
    /\ UNCHANGED answer

Next == Refuse \/ Break \/ Reset \/ Insert \/ InsertMore \/ Query \/ Leave

Spec == Init /\ [][Next]_contractVars
=============================================================================
