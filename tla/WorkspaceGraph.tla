--------------------------- MODULE WorkspaceGraph ---------------------------
(***************************************************************************)
(* What a session sees of the knowledge in the module Answers: objects,    *)
(* entities, claims and graph (apps/api/src/workspace.ts, and the graph of *)
(* local-node-routes.ts).  Entities and claims belong to the node and are  *)
(* shared by its workspaces; a session is bound to a workspace or sees the *)
(* node, and each query filters by itself.                                 *)
(*                                                                         *)
(* A query is asked of the semantic claims and the claim_evidence rows     *)
(* there are, so that a property may ask it of fewer.  Limits, orders and  *)
(* text searches are left out, and so is lifecycle_status <> 'deleted' of  *)
(* listWorkspaceObjects, loadWorkspaceObject and the Local Node's graph    *)
(* (loadGraph has no such condition): nothing writes 'deleted'.            *)
(***************************************************************************)
EXTENDS Answers

CONSTANT HomeOf   \* the workspace of each object

EntireNode == ""     \* the workspace of a session that has none

Homes == {HomeOf[o] : o \in Objects}

ASSUME HomesAssumption == EntireNode \notin Homes

\* listWorkspaceObjects, and which ids loadWorkspaceObject opens.
ObjectsOf(w) == {o \in Objects : w \in {EntireNode, HomeOf[o]}}

Said == [relations |-> {k \in BagToSet(rows) : k[1] = "triple"}, links |-> links]

ObjectOf(link) == Text(link[2]).cko

\* loadWorkspaceObject: its claims.
ObjectClaims(d, o) == {l[1] : l \in {x \in d.links : ObjectOf(x) = o}}

Ends(k) == {Entity(k[3]), Entity(k[4])}

\* EXISTS (SELECT 1 FROM claim_evidence ...)
SaidIn(d, k, w) == w = EntireNode \/ \E l \in d.links : l[1] = k /\ HomeOf[ObjectOf(l)] = w

\* listSemanticEntities, each with its claim_count.
EntityList(d, w) ==
    LET Claims(e) == {k \in d.relations : e \in Ends(k) /\ SaidIn(d, k, w)}
        entities == UNION {Ends(k) : k \in d.relations} IN
    {<<e, Cardinality(Claims(e))>> : e \in {x \in entities : Claims(x) # {}}}

\* Mutant: the claims of an entity are not filtered.
EntityClaimsOfNode(d, w, e) ==
    {[claim |-> k, objects |-> {ObjectOf(l) : l \in {x \in d.links : x[1] = k}}] : k \in {r \in d.relations : e \in Ends(r)}}

\* loadSemanticEntity: its claims, with the objects they are evident from.
EntityClaims(d, w, e) ==
    {[claim |-> k, objects |-> {ObjectOf(l) : l \in {x \in d.links : x[1] = k}} \cap ObjectsOf(w)] :
       k \in {r \in d.relations : e \in Ends(r) /\ SaidIn(d, r, w)}}

\* loadGraph
Graph(d, w) ==
    LET edges == {k \in d.relations : SaidIn(d, k, w)} IN
    [edges |-> edges, nodes |-> UNION {Ends(k) : k \in edges}]

\* GET /v1/local/graph of a workspace, with what the principal may retrieve.
LocalGraph(d, w, allowed) ==
    {[claim |-> l[1], fragment |-> l[2], object |-> ObjectOf(l)] :
       l \in {x \in d.links : x[1] \in d.relations /\ ObjectOf(x) \in ObjectsOf(w) \cap allowed}}

Seen(d, w) ==
    [objects |-> [o \in ObjectsOf(w) |-> ObjectClaims(d, o)],
     entities |-> EntityList(d, w), graph |-> Graph(d, w),
     claims |-> [e \in {x[1] : x \in EntityList(d, w)} |-> EntityClaims(d, w, e)],
     local |-> LocalGraph(d, w, Objects)]

SaidAt(w) == LET here == {l \in links : HomeOf[ObjectOf(l)] = w} IN
             [relations |-> {k \in Said.relations : \E l \in here : l[1] = k}, links |-> here]

-----------------------------------------------------------------------------
(* A session bound to a workspace sees what it would see if nothing had    *)
(* ever been said outside it, though the claims and entities are shared.   *)
NothingSeenFromOutside ==
    \A w \in Homes : Seen(Said, w) = Seen(SaidAt(w), w)

(* What is seen can be followed home: a node of a graph is listed and      *)
(* opens, with the edges that touch it; a claim names objects the session  *)
(* opens, and they show it; the Local Node's graph, with everything        *)
(* allowed, has the same claims.                                           *)
WhatIsSeenLeadsHome ==
    \A w \in Homes :
        LET graph == Graph(Said, w)
            Edges(e) == {k \in graph.edges : e \in Ends(k)} IN
        /\ EntityList(Said, w) = {<<e, Cardinality(Edges(e))>> : e \in graph.nodes}
        /\ \A e \in graph.nodes : /\ {c.claim : c \in EntityClaims(Said, w, e)} = Edges(e)
                                  /\ \A c \in EntityClaims(Said, w, e) :
                                        /\ c.objects # {} /\ c.objects \subseteq ObjectsOf(w)
                                        /\ \A o \in c.objects : c.claim \in ObjectClaims(Said, o)
        /\ {x.claim : x \in LocalGraph(Said, w, Objects)} = graph.edges

(* A workspace's view of the shared graph is closed: it depends on nothing *)
(* outside the workspace, and leads nowhere outside it.                    *)
WorkspaceSeesItsOwn == NothingSeenFromOutside /\ WhatIsSeenLeadsHome
=============================================================================
