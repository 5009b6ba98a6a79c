------------------------------ MODULE ItemGraphs ------------------------------
(***************************************************************************)
(* The graphs of a batch on their way into the timeline: sanitizeAndEnhance,*)
(* processGraph, processRelationship, linkRelation and storeRelationship.   *)
(* Storing a node is an insertion or an update of the row of its key here   *)
(* (ItemStore and Entities have the details), or fails.                     *)
(***************************************************************************)
EXTENDS Integers, Sequences, FiniteSets

CONSTANTS
  None,
  Imports,    (* sequences of batches, a batch being a sequence of graphs    *)
  MaxBroken   (* the most keys that cannot be stored, in one batch           *)

(* Nodes are numbered from the root, which is 1, so that a node hangs on one*)
(* with a lower number.  A node has the key that it is found by (0 if it is *)
(* an empty entity); out says that an item is outside of the timeframe.     *)
(* Edges are in the order of the nodes that hold them, and lead from one    *)
(* node to another that hangs on it, either way, or connect two such nodes. *)
(* "" is the value of an edge that was made without one, None that of one   *)
(* with metadata from Apple Photos.                                         *)
Nodes(g) == DOMAIN g.nodes
Edges(g) == DOMAIN g.edges
GraphsAssumption ==
  /\ MaxBroken \in Nat
  /\ \A import \in Imports : \A b \in DOMAIN import : \A k \in DOMAIN import[b] :
       LET g == import[b][k] IN
         /\ \A x \in Nodes(g) : /\ g.nodes[x].kind \in {"item", "entity"} /\ g.nodes[x].out \in BOOLEAN
                                /\ g.nodes[x].out => g.nodes[x].kind = "item"
                                /\ g.nodes[x].key = 0 => g.nodes[x].kind = "entity"
         /\ \A e \in Edges(g) : /\ g.edges[e].holder \in Nodes(g)
                                /\ {g.edges[e].from, g.edges[e].to} \subseteq Nodes(g) \cup {None}
                                /\ {g.edges[e].from, g.edges[e].to} # {None}
         /\ \A x \in Nodes(g) : LET above == {e \in Edges(g) : x \in {g.edges[e].from, g.edges[e].to}} IN
              IF x = 1 THEN above = {} ELSE Cardinality(above) = 1 /\ \A e \in above : g.edges[e].holder < x

VARIABLES
  import, n,  (* the batches, and the one that is next                       *)
  at,         (* the graph of it that is processed                           *)
  phase,
  skipped,    (* the nodes, of each graph of the batch, that are skipped     *)
  broken,
  stack,      (* the calls that are under way, and those they go on with     *)
  ids,        (* the row IDs of the nodes that were processed, by their keys *)
  db, saved   (* rows and relationships, in the transaction and before it    *)

vars == <<import, n, at, phase, skipped, broken, stack, ids, db, saved>>

Batch == import[n]
Graph == Batch[at]
KeysOf(batch) == UNION {{batch[g].nodes[x].key : x \in Nodes(batch[g])} : g \in DOMAIN batch}

-----------------------------------------------------------------------------
(* sanitizeAndEnhance                                                       *)

Hanging(g, e) == {g.edges[e].from, g.edges[e].to} \ {None}
EdgeTo(g, x) == CHOOSE e \in Edges(g) : x \in Hanging(g, e)

(* What is below an item outside of the timeframe is not looked at.         *)
Sanitized(g) ==
  LET Reached[x \in Nodes(g)] ==
        x = 1 \/ LET holder == g.edges[EdgeTo(g, x)].holder IN Reached[holder] /\ ~g.nodes[holder].out
  IN {x \in Nodes(g) : Reached[x]}

Skipped(g) == {x \in Sanitized(g) : g.nodes[x].out}

Init ==
  /\ import \in Imports
  /\ n = 1 /\ at = 0 /\ phase = "sanitize"
  /\ skipped = <<>> /\ broken = {} /\ stack = <<>> /\ ids = <<>>
  /\ db = [rows |-> {}, rels |-> {}] /\ saved = db

Root == <<[do |-> "node", of |-> 1]>>

(* phase0, the begin of the transaction of phase2, and its first graph.     *)
Begin ==
  /\ phase = "sanitize" /\ n <= Len(import)
  /\ skipped' = [g \in DOMAIN Batch |-> Skipped(Batch[g])]
  /\ broken' \in {b \in SUBSET (KeysOf(Batch) \ {0}) : Cardinality(b) <= MaxBroken}
  /\ at' = 1 /\ stack' = Root /\ ids' = <<>>
  /\ saved' = db
  /\ phase' = "process"
  /\ UNCHANGED <<import, n, db>>

(* The context is cancelled: the error is logged, and the next batch sent.  *)
Cancelled ==
  /\ phase = "sanitize" /\ n <= Len(import)
  /\ n' = n + 1
  /\ UNCHANGED <<import, at, phase, skipped, broken, stack, ids, db, saved>>

-----------------------------------------------------------------------------
(* processGraph and processRelationship: a call is taken from the stack, and*)
(* puts those there that it makes.                                          *)

Calls(do) == phase = "process" /\ stack # <<>> /\ Head(stack).do = do
This == Head(stack).of
Failed(x) == ids[x] = None

(* The edges of a node, each as the side that it is from, that it is to, and*)
(* the relationship itself.                                                 *)
RECURSIVE EdgesOf(_, _)
EdgesOf(x, e) ==
  IF e > Len(Graph.edges) THEN <<>>
  ELSE (IF Graph.edges[e].holder = x
        THEN <<[do |-> "from", of |-> e], [do |-> "to", of |-> e], [do |-> "store", of |-> e]>> ELSE <<>>)
       \o EdgesOf(x, e + 1)

(* processItem or processEntity; when it fails, the edges of the node are   *)
(* not processed.  A skipped item has no ID, and its edges are.             *)
Identity(x) ==
  LET node == Graph.nodes[x] IN
  IF x \in skipped[at] THEN 0 ELSE IF node.key \in broken THEN None ELSE node.key

ProcessNode ==
  /\ Calls("node")
  /\ ids' = [x \in DOMAIN ids \cup {This} |-> IF x = This THEN Identity(x) ELSE ids[x]]
  /\ db' = [db EXCEPT !.rows = @ \cup ({Identity(This)} \ {0, None})]
  /\ stack' = (IF Identity(This) = None THEN <<>> ELSE EdgesOf(This, 1)) \o Tail(stack)
  /\ UNCHANGED <<import, n, at, phase, skipped, broken, saved>>

(* The node at an end of an edge: the one that is given, or the holder.     *)
End(e, side) == IF Graph.edges[e][side] # None THEN Graph.edges[e][side] ELSE Graph.edges[e].holder

(* An end that failed, or an entity that was empty and so has no row.       *)
Unlinkable(e, side) ==
  LET x == End(e, side) IN Failed(x) \/ (Graph.nodes[x].kind = "entity" /\ ids[x] = 0)

(* Mutant of LinkTo: goes on when the other side has failed.                *)
LinkToAnyway ==
  /\ Calls("to")
  /\ stack' = (IF Graph.edges[This].to = None THEN <<>> ELSE <<[do |-> "node", of |-> Graph.edges[This].to]>>)
              \o Tail(stack)
  /\ UNCHANGED <<import, n, at, phase, skipped, broken, ids, db, saved>>

LinkFrom ==
  /\ Calls("from")
  /\ stack' = (IF Graph.edges[This].from = None THEN <<>> ELSE <<[do |-> "node", of |-> Graph.edges[This].from]>>)
              \o Tail(stack)
  /\ UNCHANGED <<import, n, at, phase, skipped, broken, ids, db, saved>>

(* An error of the other side ends the relationship before this one.        *)
LinkTo ==
  /\ Calls("to")
  /\ stack' = CASE Unlinkable(This, "from") -> Tail(Tail(stack))
                [] Graph.edges[This].to = None -> Tail(stack)
                [] OTHER -> <<[do |-> "node", of |-> Graph.edges[This].to]>> \o Tail(stack)
  /\ UNCHANGED <<import, n, at, phase, skipped, broken, ids, db, saved>>

Rel(e) ==
  [label |-> Graph.edges[e].label, from |-> ids[End(e, "from")], to |-> ids[End(e, "to")],
   value |-> IF Graph.edges[e].value = "" THEN None ELSE Graph.edges[e].value,
   metadata |-> Graph.edges[e].metadata]

(* Mutant of Same: what the relationship is from does not tell it apart.    *)
SameTo(r, q) == r.label = q.label /\ r.to = q.to
Same(r, q) == r.label = q.label /\ r.from = q.from /\ r.to = q.to

(* An item that was skipped has no row, which the table's foreign keys ask  *)
(* for.  An existing relationship takes the value that is given now, even   *)
(* none, for what is compared with it is a pointer; it loses its metadata   *)
(* then, and keeps all that it has if there are metadata now, which are     *)
(* bound as a blob, and a strict table takes none in a column of text.      *)
Related(rels, e) ==
  LET same == {r \in rels : Same(r, Rel(e))} IN
  IF same = {} THEN IF 0 \in {Rel(e).from, Rel(e).to} THEN {rels} ELSE {rels \cup {Rel(e)}}
  ELSE {IF Rel(e).metadata \/ (Graph.edges[e].value = "" /\ r.value = None) THEN rels
        ELSE (rels \ {r}) \cup {Rel(e)} : r \in same}

StoreRelationship ==
  /\ Calls("store")
  /\ IF Unlinkable(This, "to") THEN UNCHANGED db
     ELSE \E rels \in Related(db.rels, This) : db' = [db EXCEPT !.rels = rels]
  /\ stack' = Tail(stack)
  /\ UNCHANGED <<import, n, at, phase, skipped, broken, ids, saved>>

NextGraph ==
  /\ phase = "process" /\ stack = <<>> /\ at < Len(Batch)
  /\ at' = at + 1 /\ stack' = Root /\ ids' = <<>>
  /\ UNCHANGED <<import, n, phase, skipped, broken, db, saved>>

(* The commit; or it fails, and all of the batch is gone.                   *)
EndBatch ==
  /\ phase = "process" /\ stack = <<>> /\ at = Len(Batch)
  /\ db' \in {db, saved}
  /\ n' = n + 1 /\ at' = 0 /\ ids' = <<>>
  /\ phase' = "sanitize"
  /\ UNCHANGED <<import, skipped, broken, stack, saved>>

Next == Begin \/ Cancelled \/ ProcessNode \/ LinkFrom \/ LinkTo \/ StoreRelationship \/ NextGraph \/ EndBatch

Spec == Init /\ [][Next]_vars

-----------------------------------------------------------------------------

TypeOK ==
  /\ n \in 1..Len(import) + 1
  /\ phase \in {"sanitize", "process"}
  /\ phase = "process" => at \in DOMAIN Batch /\ DOMAIN ids \subseteq Nodes(Graph)
  /\ \A r \in db.rels : r.metadata \in BOOLEAN

(* A node that the code gets to: all that it hangs on were stored or        *)
(* skipped, and so was the node on the other side of its edge, if it is the *)
(* second of two.                                                           *)
Stored(g, x) == g.nodes[x].key \notin broken \cup {0}
Due(g) ==
  LET Got[x \in Nodes(g)] ==
        x = 1 \/ LET edge == g.edges[EdgeTo(g, x)] IN
                 /\ Got[edge.holder] /\ (Stored(g, edge.holder) \/ g.nodes[edge.holder].key = 0
                                         \/ edge.holder \in Skipped(g))
                 /\ x = edge.to => LET other == IF edge.from = None THEN edge.holder ELSE edge.from IN
                                   Stored(g, other) \/ other \in Skipped(g)
  IN {x \in Nodes(g) : Got[x]}

(* One failure, a skipped item or an empty entity takes no more with it than*)
(* what hangs on it: all other nodes of the graph have their rows at its    *)
(* end, and every edge between two that have them is there once, however    *)
(* often they are imported (pipeline.go:617-763, processing.go:162-268).    *)
GraphsAreWhole ==
  /\ \A r, q \in db.rels : r.label = q.label /\ r.from = q.from /\ r.to = q.to => r = q
  /\ \A r \in db.rels : {r.from, r.to} \subseteq db.rows
  /\ phase = "process" /\ stack = <<>> =>
       /\ \A x \in Due(Graph) : Stored(Graph, x) /\ x \notin Skipped(Graph) => Graph.nodes[x].key \in db.rows
       /\ \A e \in Edges(Graph) :
            {End(e, "from"), End(e, "to"), Graph.edges[e].holder} \subseteq
              {x \in Due(Graph) : Stored(Graph, x) /\ x \notin Skipped(Graph)} =>
            \E r \in db.rels : /\ r.label = Graph.edges[e].label
                               /\ r.from = Graph.nodes[End(e, "from")].key
                               /\ r.to = Graph.nodes[End(e, "to")].key
       /\ \A key \in db.rows \ saved.rows : \E g \in 1..at : \E x \in Due(Batch[g]) \ Skipped(Batch[g]) :
            Batch[g].nodes[x].key = key /\ Stored(Batch[g], x)
==============================================================================
