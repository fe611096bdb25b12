-------------------------- MODULE PrismRewriteProofs --------------------------
(***************************************************************************)
(* Proofs about the stores and about the pass that rewrites them, for any  *)
(* stores, cursors, payloads and bounds.                                   *)
(*                                                                         *)
(* Of PrismStore: the stores stay sound, the adoption loop of a cross-     *)
(* store join keeps its invariant, the query a cursor stands for never     *)
(* changes (LineageStays), and a cross-store join reads the two queries it *)
(* was given (JoinsMeanBothSides).  The last two need induction over the   *)
(* plan, which Recursion provides.                                         *)
(*                                                                         *)
(* Of PrismRewrite: what the two loops of the pass keep, and what the      *)
(* derived view may be relied on for.  The facts about each loop are       *)
(* predicates of the lists it works on, so that the lemmas about one       *)
(* iteration do not mention the state.                                     *)
(***************************************************************************)
EXTENDS PrismRewrite, Lists, FiniteSetTheorems, TLAPS

-----------------------------------------------------------------------------
(* What the store proofs speak of.                                         *)

AnyPayload == UNION {Payload[k] : k \in Kind}

\* One store may only grow: what was at position i stays there.
Extends(old, new) ==
    /\ Len(old) <= Len(new)
    /\ \A i \in 1..Len(old) : new[i] = old[i]

-----------------------------------------------------------------------------
(* The breadth-first walk.                                                 *)

\* reachable_node_ids returns the tip, and with a node all of its inputs.
LEMMA ReachableClosed ==
    ASSUME NEW ns \in Seq(Node), NEW tip \in 1..Len(ns),
           \A i \in 1..Len(ns) : Inputs(ns[i]) \subseteq 1..(i - 1)
    PROVE  /\ tip \in Reachable(ns, tip)
           /\ Reachable(ns, tip) \subseteq 1..Len(ns)
           /\ InputClosed(ns, Reachable(ns, tip))
<1>1. tip \in Reachable(ns, tip)
  BY DEF Reachable
<1>2. Reachable(ns, tip) \subseteq 1..Len(ns)
  BY DEF Reachable
<1>3. ASSUME NEW j \in Reachable(ns, tip), NEW i \in Inputs(ns[j])
      PROVE  i \in Reachable(ns, tip)
  <2>1. j \in 1..Len(ns) /\ Len(ns) \in Nat
    BY <1>2, <1>3
  <2>2. i \in 1..(j - 1)
    BY <1>3, <2>1
  <2>3. i \in 1..Len(ns)
    BY <2>1, <2>2
  <2>4. ASSUME NEW C \in SUBSET (1..Len(ns)), tip \in C, InputClosed(ns, C)
        PROVE  i \in C
    <3>1. j \in C
      BY <1>3, <2>4 DEF Reachable
    <3>2. QED
      BY <3>1, <2>4, <1>3 DEF InputClosed
  <2>5. QED
    BY <2>3, <2>4 DEF Reachable
<1>4. QED
  BY <1>1, <1>2, <1>3 DEF InputClosed

-----------------------------------------------------------------------------
(* append_node.                                                            *)

\* An append whose inputs exist keeps ids dense and inputs backward, changes no
\* earlier node and no other store, and places the node at the next id.
LEMMA AppendSound ==
    ASSUME TypeOK, DenseIds, InputsPrecede,
           NEW s \in StoreId, NEW kind \in Kind, NEW payload \in AnyPayload,
           NEW inputs \in Seq(Nat),
           \A k \in 1..Len(inputs) : inputs[k] \in 1..Len(nodes[s]),
           AppendNode(s, kind, inputs, payload)
    PROVE  /\ nodes' \in [StoreId -> Seq(Node)]
           /\ nextId' \in [StoreId -> Nat]
           /\ DenseIds'
           /\ InputsPrecede'
           /\ \A t \in StoreId : Extends(nodes[t], nodes'[t])
           /\ \A t \in StoreId \ {s} : nodes'[t] = nodes[t]
           /\ nextId[s] = Len(nodes[s]) + 1
           /\ Len(nodes'[s]) = Len(nodes[s]) + 1
           /\ nodes'[s][nextId[s]].kind = kind
           /\ nodes'[s][nextId[s]].payload = payload
           /\ nodes'[s][nextId[s]].inputs = inputs
<1> DEFINE n == [id |-> nextId[s], kind |-> kind, inputs |-> inputs, payload |-> payload]
<1>1. /\ nodes \in [StoreId -> Seq(Node)]
      /\ nextId \in [StoreId -> Nat]
  BY DEF TypeOK
<1>2. n \in Node
  BY <1>1 DEF Node, AnyPayload
<1>3. /\ nodes' = [nodes EXCEPT ![s] = Append(nodes[s], n)]
      /\ nextId' = [nextId EXCEPT ![s] = nextId[s] + 1]
  BY DEF AppendNode
<1>4. nextId[s] = Len(nodes[s]) + 1 /\ Len(nodes[s]) \in Nat
  BY <1>1 DEF DenseIds
<1> HIDE DEF n
<1>5. /\ Append(nodes[s], n) \in Seq(Node)
      /\ Len(Append(nodes[s], n)) = Len(nodes[s]) + 1
      /\ Append(nodes[s], n)[Len(nodes[s]) + 1] = n
      /\ \A i \in 1..Len(nodes[s]) : Append(nodes[s], n)[i] = nodes[s][i]
  BY <1>1, <1>2
<1>6. /\ nodes'[s] = Append(nodes[s], n)
      /\ \A t \in StoreId \ {s} : nodes'[t] = nodes[t]
      /\ nextId'[s] = nextId[s] + 1
      /\ \A t \in StoreId \ {s} : nextId'[t] = nextId[t]
  BY <1>1, <1>3
<1>7. nodes' \in [StoreId -> Seq(Node)] /\ nextId' \in [StoreId -> Nat]
  BY <1>1, <1>3, <1>5
<1>8. DenseIds'
  <2>1. n.id = Len(nodes[s]) + 1
    BY <1>4 DEF n
  <2>2. ASSUME NEW t \in StoreId
        PROVE  /\ nextId'[t] = Len(nodes'[t]) + 1
               /\ \A i \in 1..Len(nodes'[t]) : nodes'[t][i].id = i
    <3>1. CASE t = s
      BY <3>1, <2>1, <1>4, <1>5, <1>6 DEF DenseIds
    <3>2. CASE t # s
      BY <3>2, <1>6 DEF DenseIds
    <3>3. QED
      BY <3>1, <3>2
  <2>3. QED
    BY <2>2 DEF DenseIds
<1>9. InputsPrecede'
  <2>1. Inputs(n) \subseteq 1..Len(nodes[s])
    BY DEF n, Inputs
  <2>2. ASSUME NEW t \in StoreId, NEW i \in 1..Len(nodes'[t])
        PROVE  Inputs(nodes'[t][i]) \subseteq 1..(i - 1)
    <3>1. CASE t = s /\ i = Len(nodes[s]) + 1
      BY <3>1, <2>1, <1>4, <1>5, <1>6
    <3>2. CASE t = s /\ i # Len(nodes[s]) + 1
      <4>1. i \in 1..Len(nodes[s]) /\ nodes'[t][i] = nodes[s][i]
        BY <3>2, <1>4, <1>5, <1>6
      <4>2. QED
        BY <4>1 DEF InputsPrecede
    <3>3. CASE t # s
      BY <3>3, <1>6 DEF InputsPrecede
    <3>4. QED
      BY <3>1, <3>2, <3>3
  <2>3. QED
    BY <2>2 DEF InputsPrecede
<1>10. ASSUME NEW t \in StoreId
       PROVE  Extends(nodes[t], nodes'[t])
  <2>1. CASE t = s
    BY <2>1, <1>4, <1>5, <1>6 DEF Extends
  <2>2. CASE t # s
    BY <2>2, <1>1, <1>6 DEF Extends
  <2>3. QED
    BY <2>1, <2>2
<1>11. nodes'[s][nextId[s]] = n
  BY <1>4, <1>5, <1>6
<1>12. n.kind = kind /\ n.payload = payload /\ n.inputs = inputs
  BY DEF n
<1>13. QED
  BY <1>4, <1>5, <1>6, <1>7, <1>8, <1>9, <1>10, <1>11, <1>12

\* Cursors resolve in any stores that extend those they resolved in.
LEMMA CursorsStayResolved ==
    ASSUME TypeOK, CursorsResolve, nodes' \in [StoreId -> Seq(Node)],
           \A t \in StoreId : Extends(nodes[t], nodes'[t])
    PROVE  \A c \in cursors : c.tip \in 1..Len(nodes'[c.store])
<1> SUFFICES ASSUME NEW c \in cursors
             PROVE  c.tip \in 1..Len(nodes'[c.store])
  OBVIOUS
<1>1. c.store \in StoreId /\ c.tip \in 1..Len(nodes[c.store])
  BY DEF TypeOK, Cursor, CursorsResolve
<1>2. Len(nodes[c.store]) \in Nat /\ Len(nodes'[c.store]) \in Nat
  BY <1>1 DEF TypeOK
<1>3. QED
  BY <1>1, <1>2 DEF Extends

-----------------------------------------------------------------------------
(* Calls that append one node, return its cursor and leave no join pending. *)

LEMMA AppendCursorSound ==
    ASSUME IInv,
           NEW s \in StoreId, NEW kind \in Kind, NEW payload \in AnyPayload,
           NEW inputs \in Seq(Nat),
           \A k \in 1..Len(inputs) : inputs[k] \in 1..Len(nodes[s]),
           AppendNode(s, kind, inputs, payload),
           allocated' \in 0..MaxStores, allocated <= allocated', s <= allocated',
           cursors' = cursors \cup {[store |-> s, tip |-> nextId[s]]},
           join' = NoJoin, todo' \in SUBSET Nat, idMap' \in Seq(Nat), adopted' \in Seq(Nat)
    PROVE  IInv'
<1>1. TypeOK /\ DenseIds /\ InputsPrecede /\ CursorsResolve /\ UnallocatedEmpty
  BY DEF IInv, StoreSound
<1>2. /\ nodes' \in [StoreId -> Seq(Node)]
      /\ nextId' \in [StoreId -> Nat]
      /\ DenseIds'
      /\ InputsPrecede'
      /\ \A t \in StoreId : Extends(nodes[t], nodes'[t])
      /\ \A t \in StoreId \ {s} : nodes'[t] = nodes[t]
      /\ nextId[s] = Len(nodes[s]) + 1
      /\ Len(nodes'[s]) = Len(nodes[s]) + 1
  BY <1>1, AppendSound
<1>3. nextId[s] \in Nat /\ Len(nodes[s]) \in Nat
  BY <1>1 DEF TypeOK
<1>4. [store |-> s, tip |-> nextId[s]] \in Cursor
  BY <1>3 DEF Cursor
<1>5. TypeOK'
  BY <1>1, <1>2, <1>4 DEF TypeOK
<1>6. CursorsResolve'
  <2>1. \A c \in cursors : c.tip \in 1..Len(nodes'[c.store])
    BY <1>1, <1>2, CursorsStayResolved
  <2>2. nextId[s] \in 1..Len(nodes'[s])
    BY <1>2, <1>3
  <2>3. QED
    BY <2>1, <2>2 DEF CursorsResolve
<1>7. UnallocatedEmpty'
  BY <1>1, <1>2 DEF UnallocatedEmpty, TypeOK, StoreId
<1>8. QED
  BY <1>2, <1>5, <1>6, <1>7 DEF IInv, StoreSound, AdoptionInProgress, AdoptionFaithful,
     AdoptionDedupsLocally, Idle

\* A cursor names an allocated store, for its node list is not empty.
LEMMA CursorAllocated ==
    ASSUME TypeOK, CursorsResolve, UnallocatedEmpty, NEW c \in cursors
    PROVE  /\ c.store \in StoreId /\ c.store <= allocated
           /\ c.tip \in 1..Len(nodes[c.store]) /\ c.tip \in Nat
<1>1. c.store \in StoreId /\ c.tip \in Nat /\ c.tip \in 1..Len(nodes[c.store])
  BY DEF TypeOK, Cursor, CursorsResolve
<1>2. nodes[c.store] # <<>>
  BY <1>1
<1>3. QED
  BY <1>1, <1>2 DEF UnallocatedEmpty, TypeOK, StoreId

LEMMA DeriveSound ==
    ASSUME IInv, NEW c \in cursors, NEW kind \in UnaryKind, NEW payload \in AnyPayload,
           Derive(c, kind, payload)
    PROVE  IInv'
<1>1. /\ c.store \in StoreId /\ c.store <= allocated
      /\ c.tip \in 1..Len(nodes[c.store]) /\ c.tip \in Nat
  BY CursorAllocated DEF IInv, StoreSound
<1>2. <<c.tip>> \in Seq(Nat) /\ \A k \in 1..Len(<<c.tip>>) : <<c.tip>>[k] \in 1..Len(nodes[c.store])
  BY <1>1
<1>3. kind \in Kind
  BY DEF Kind
<1>4. /\ AppendNode(c.store, kind, <<c.tip>>, payload)
      /\ cursors' = cursors \cup {[store |-> c.store, tip |-> nextId[c.store]]}
      /\ UNCHANGED <<allocated, join, todo, idMap, adopted>> /\ join = NoJoin
  BY DEF Derive, Idle, adoptVars
<1>5. /\ allocated' \in 0..MaxStores /\ allocated <= allocated' /\ c.store <= allocated'
      /\ todo' \in SUBSET Nat /\ idMap' \in Seq(Nat) /\ adopted' \in Seq(Nat) /\ join' = NoJoin
  BY <1>1, <1>4, BoundAssumption DEF IInv, TypeOK
<1>6. QED
  BY <1>1, <1>2, <1>3, <1>4, <1>5, AppendCursorSound

LEMMA NamedTableSound ==
    ASSUME IInv, NEW t \in Payload["ReadNamedTable"], NamedTable(t)
    PROVE  IInv'
<1>1. /\ allocated \in 0..MaxStores /\ allocated < MaxStores /\ allocated' = allocated + 1
      /\ join = NoJoin
  BY DEF NamedTable, Allocate, IInv, TypeOK, Idle
<1>2. /\ allocated + 1 \in StoreId /\ allocated' \in 0..MaxStores
      /\ allocated <= allocated' /\ allocated + 1 <= allocated'
  BY <1>1, BoundAssumption DEF StoreId
<1>3. "ReadNamedTable" \in Kind /\ t \in AnyPayload
  BY DEF Kind, AnyPayload
<1>4. <<>> \in Seq(Nat) /\ \A k \in 1..Len(<<>>) : <<>>[k] \in 1..Len(nodes[allocated + 1])
  OBVIOUS
<1>5. /\ AppendNode(allocated + 1, "ReadNamedTable", <<>>, t)
      /\ cursors' = cursors \cup {[store |-> allocated + 1, tip |-> nextId[allocated + 1]]}
      /\ UNCHANGED <<join, todo, idMap, adopted>>
  BY DEF NamedTable, adoptVars
<1>6. todo' \in SUBSET Nat /\ idMap' \in Seq(Nat) /\ adopted' \in Seq(Nat) /\ join' = NoJoin
  BY <1>1, <1>5 DEF IInv, TypeOK
<1>7. QED
  BY <1>2, <1>3, <1>4, <1>5, <1>6, AppendCursorSound

\* The refused read leaves an allocated store with no node: still sound.
LEMMA NamedTableRefusedSound ==
    ASSUME IInv, NEW t \in Payload["ReadNamedTable"], NamedTableRefused(t)
    PROVE  IInv'
<1>1. /\ allocated \in 0..MaxStores /\ allocated < MaxStores /\ allocated' = allocated + 1
      /\ join = NoJoin /\ UNCHANGED <<nodes, nextId, cursors, join, todo, idMap, adopted>>
  BY DEF NamedTableRefused, Allocate, IInv, TypeOK, Idle, adoptVars
<1>2. TypeOK'
  BY <1>1, BoundAssumption DEF IInv, TypeOK
<1>3. StoreSound'
  BY <1>1 DEF IInv, StoreSound, DenseIds, InputsPrecede, CursorsResolve, UnallocatedEmpty, StoreId
<1>4. QED
  BY <1>1, <1>2, <1>3 DEF IInv, AdoptionInProgress, AdoptionFaithful, AdoptionDedupsLocally, Idle

LEMMA JoinSameStoreSound ==
    ASSUME IInv, NEW l \in cursors, NEW r \in cursors, NEW p \in Payload["Join"],
           JoinSameStore(l, r, p)
    PROVE  IInv'
<1>1. /\ l.store \in StoreId /\ l.store <= allocated
      /\ l.tip \in 1..Len(nodes[l.store]) /\ l.tip \in Nat
      /\ r.tip \in 1..Len(nodes[r.store]) /\ r.tip \in Nat
  BY CursorAllocated DEF IInv, StoreSound
<1>2. /\ l.store = r.store /\ join = NoJoin
      /\ AppendNode(l.store, "Join", <<l.tip, r.tip>>, p)
      /\ cursors' = cursors \cup {[store |-> l.store, tip |-> nextId[l.store]]}
      /\ UNCHANGED <<allocated, join, todo, idMap, adopted>>
  BY DEF JoinSameStore, Idle, adoptVars
<1>3. /\ <<l.tip, r.tip>> \in Seq(Nat)
      /\ \A k \in 1..Len(<<l.tip, r.tip>>) : <<l.tip, r.tip>>[k] \in 1..Len(nodes[l.store])
  BY <1>1, <1>2
<1>4. "Join" \in Kind /\ p \in AnyPayload
  BY DEF Kind, AnyPayload
<1>5. /\ allocated' \in 0..MaxStores /\ allocated <= allocated' /\ l.store <= allocated'
      /\ todo' \in SUBSET Nat /\ idMap' \in Seq(Nat) /\ adopted' \in Seq(Nat) /\ join' = NoJoin
  BY <1>1, <1>2, BoundAssumption DEF IInv, TypeOK
<1>6. QED
  BY <1>1, <1>2, <1>3, <1>4, <1>5, AppendCursorSound
-----------------------------------------------------------------------------
(* The adoption loop.                                                      *)

LEMMA BeginAdoptionSound ==
    ASSUME IInv, NEW l \in cursors, NEW r \in cursors, NEW p \in Payload["Join"],
           BeginAdoption(l, r, p)
    PROVE  IInv'
<1>1. /\ l \in Cursor /\ r \in Cursor
      /\ r.store \in StoreId /\ r.tip \in 1..Len(nodes[r.store])
      /\ nodes[r.store] \in Seq(Node) /\ Len(nodes[r.store]) \in Nat
  BY CursorAllocated DEF IInv, StoreSound, TypeOK
<1>2. /\ l.store # r.store
      /\ todo' = Reachable(nodes[r.store], r.tip)
      /\ join' = [left |-> l, right |-> r, payload |-> p]
      /\ idMap' = [i \in 1..Len(nodes[r.store]) |-> 0]
      /\ adopted' = <<>>
      /\ UNCHANGED <<allocated, nodes, nextId, cursors>>
  BY DEF BeginAdoption, storeVars
<1>3. todo' \subseteq 1..Len(nodes[r.store])
  BY <1>2 DEF Reachable
<1>4. /\ idMap' \in Seq(Nat) /\ Len(idMap') = Len(nodes[r.store])
      /\ \A x \in 1..Len(nodes[r.store]) : idMap'[x] = 0
  BY <1>1, <1>2
<1>5. join' \in JoinRequest
  BY <1>1, <1>2 DEF JoinRequest
<1>6. TypeOK'
  BY <1>1, <1>2, <1>3, <1>4, <1>5 DEF IInv, TypeOK
<1>7. StoreSound'
  BY <1>2 DEF IInv, StoreSound, DenseIds, InputsPrecede, CursorsResolve, UnallocatedEmpty
<1>8. join'.left = l /\ join'.right = r
  BY <1>2
<1>9. AdoptionInProgress'
  BY <1>2, <1>4, <1>5, <1>8 DEF AdoptionInProgress, Target, Source
<1>10. AdoptionFaithful'
  BY <1>2, <1>4, <1>8 DEF AdoptionFaithful, Source
<1>11. AdoptionDedupsLocally'
  BY <1>1, <1>2, <1>4 DEF AdoptionDedupsLocally
<1>12. QED
  BY <1>6, <1>7, <1>9, <1>10, <1>11 DEF IInv

\* Ids are visited inputs first: when the loop reaches x, every input of x has
\* a copy, and no visited node reads from x.
LEMMA NextInputsMapped ==
    ASSUME IInv, ~Idle, NEW x \in todo, IsNextSourceId(x)
    PROVE  /\ Target \in StoreId /\ join.right.store \in StoreId
           /\ Source \in Seq(Node) /\ Len(Source) \in Nat
           /\ nodes[Target] \in Seq(Node) /\ Len(nodes[Target]) \in Nat
           /\ x \in 1..Len(Source) /\ x \in Reachable(Source, join.right.tip)
           /\ Source[x] \in Node
           /\ Reachable(Source, join.right.tip) \subseteq 1..Len(Source)
           /\ idMap \in Seq(Nat) /\ Len(idMap) = Len(Source)
           /\ Remap(Source[x].inputs, idMap) \in Seq(Nat)
           /\ \A k \in 1..Len(Remap(Source[x].inputs, idMap)) :
                 Remap(Source[x].inputs, idMap)[k] \in 1..Len(nodes[Target])
           /\ \A k \in 1..Len(Source[x].inputs) : Source[x].inputs[k] # x
           /\ \A y \in Reachable(Source, join.right.tip) \ todo :
                 /\ y # x
                 /\ \A k \in 1..Len(Source[y].inputs) : Source[y].inputs[k] # x
<1> DEFINE live == Reachable(Source, join.right.tip)
<1>1. /\ join \in JoinRequest /\ join.left \in cursors /\ join.right \in cursors
      /\ Len(idMap) = Len(Source) /\ todo \subseteq live
      /\ \A z \in todo : \A y \in live \ todo : y < z
  BY DEF IInv, AdoptionInProgress
<1>2. /\ Target \in StoreId /\ join.right.store \in StoreId
      /\ join.right.tip \in 1..Len(Source)
  BY <1>1, CursorAllocated DEF IInv, StoreSound, Target, Source
<1>3. /\ Source \in Seq(Node) /\ Len(Source) \in Nat
      /\ nodes[Target] \in Seq(Node) /\ Len(nodes[Target]) \in Nat
      /\ idMap \in Seq(Nat)
  BY <1>2 DEF IInv, TypeOK, Source
<1>4. \A i \in 1..Len(Source) : Inputs(Source[i]) \subseteq 1..(i - 1)
  BY <1>2 DEF IInv, StoreSound, InputsPrecede, Source
<1>5. live \subseteq 1..Len(Source) /\ InputClosed(Source, live)
  BY <1>2, <1>3, <1>4, ReachableClosed
<1>6. x \in live /\ x \in 1..Len(Source) /\ Source[x] \in Node
  BY <1>1, <1>3, <1>5
<1>7. ASSUME NEW y \in live, NEW k \in 1..Len(Source[y].inputs)
      PROVE  /\ Source[y].inputs[k] \in live
             /\ Source[y].inputs[k] \in 1..(y - 1)
  <2>1. Source[y].inputs[k] \in Inputs(Source[y])
    BY DEF Inputs
  <2>2. QED
    BY <2>1, <1>4, <1>5 DEF InputClosed
<1>8. ASSUME NEW k \in 1..Len(Source[x].inputs)
      PROVE  /\ Source[x].inputs[k] \in live \ todo
             /\ Source[x].inputs[k] \in 1..Len(Source)
             /\ Source[x].inputs[k] # x
             /\ idMap[Source[x].inputs[k]] \in 1..Len(nodes[Target])
  <2>1. Source[x].inputs[k] \in live /\ Source[x].inputs[k] \in 1..(x - 1)
    BY <1>6, <1>7
  <2>2. Source[x].inputs[k] \notin todo
    BY <2>1, <1>3, <1>6 DEF IsNextSourceId
  <2>3. Source[x].inputs[k] \in 1..Len(Source) /\ Source[x].inputs[k] # x
    BY <2>1, <1>3, <1>6
  <2>4. QED
    BY <2>1, <2>2, <2>3 DEF IInv, AdoptionFaithful
<1>9. Source[x].inputs \in Seq(Nat) /\ Len(Source[x].inputs) \in Nat
  BY <1>6 DEF Node
<1>10. /\ Remap(Source[x].inputs, idMap) \in Seq(Nat)
       /\ Len(Remap(Source[x].inputs, idMap)) = Len(Source[x].inputs)
       /\ \A k \in 1..Len(Source[x].inputs) :
             Remap(Source[x].inputs, idMap)[k] \in 1..Len(nodes[Target])
  BY <1>8, <1>9, <1>3 DEF Remap
<1>11. ASSUME NEW y \in live \ todo
       PROVE  y # x /\ \A k \in 1..Len(Source[y].inputs) : Source[y].inputs[k] # x
  <2>1. y < x /\ x \in Nat /\ y \in Nat
    BY <1>1, <1>3, <1>5, <1>6
  <2>2. QED
    BY <2>1, <1>7
<1>12. QED
  BY <1>1, <1>2, <1>3, <1>5, <1>6, <1>8, <1>10, <1>11

\* Mapping x to a target node of its structure keeps every mapped node faithful,
\* however the target store has grown meanwhile.
LEMMA MappingKeepsFaithful ==
    ASSUME IInv, ~Idle, NEW x \in todo, IsNextSourceId(x), NEW t \in Nat,
           UNCHANGED <<join, nodes[join.right.store]>>,
           nodes' \in [StoreId -> Seq(Node)],
           Extends(nodes[Target], nodes'[Target]),
           idMap' = [idMap EXCEPT ![x] = t],
           todo' = todo \ {x},
           t \in 1..Len(nodes'[Target]),
           SameStructure(nodes'[Target][t], Source[x], Remap(Source[x].inputs, idMap))
    PROVE  AdoptionFaithful'
<1> DEFINE live == Reachable(Source, join.right.tip)
<1>1. /\ Target \in StoreId /\ x \in 1..Len(Source) /\ x \in live
      /\ Source \in Seq(Node) /\ Len(Source) \in Nat /\ live \subseteq 1..Len(Source)
      /\ idMap \in Seq(Nat) /\ Len(idMap) = Len(Source)
      /\ nodes[Target] \in Seq(Node)
  BY NextInputsMapped
<1>2. \A k \in 1..Len(Source[x].inputs) : Source[x].inputs[k] # x
  BY NextInputsMapped
<1>3. \A y \in live \ todo : y # x /\ \A k \in 1..Len(Source[y].inputs) : Source[y].inputs[k] # x
  BY NextInputsMapped
<1>4. Source' = Source /\ Target' = Target /\ live' = live
  BY DEF Source, Target
<1>5. \A y \in 1..Len(Source) : idMap'[y] = IF y = x THEN t ELSE idMap[y]
  BY <1>1
<1>6. ASSUME NEW y \in live, \A k \in 1..Len(Source[y].inputs) : Source[y].inputs[k] # x
      PROVE  Remap(Source[y].inputs, idMap') = Remap(Source[y].inputs, idMap)
  <2>1. \A k \in 1..Len(Source[y].inputs) : idMap'[Source[y].inputs[k]] = idMap[Source[y].inputs[k]]
    BY <1>6
  <2>2. QED
    BY <2>1 DEF Remap
<1>7. /\ idMap'[x] \in 1..Len(nodes'[Target])
      /\ SameStructure(nodes'[Target][idMap'[x]], Source[x], Remap(Source[x].inputs, idMap'))
  BY <1>1, <1>2, <1>5, <1>6
<1>8. ASSUME NEW y \in live \ todo
      PROVE  /\ idMap'[y] \in 1..Len(nodes'[Target])
             /\ SameStructure(nodes'[Target][idMap'[y]], Source[y], Remap(Source[y].inputs, idMap'))
  <2>1. y \in 1..Len(Source) /\ y # x /\ idMap'[y] = idMap[y]
    BY <1>1, <1>3, <1>5, <1>8
  <2>2. /\ idMap[y] \in 1..Len(nodes[Target])
        /\ SameStructure(nodes[Target][idMap[y]], Source[y], Remap(Source[y].inputs, idMap))
    BY <2>1, <1>8 DEF IInv, AdoptionFaithful
  <2>3. Remap(Source[y].inputs, idMap') = Remap(Source[y].inputs, idMap)
    BY <1>3, <1>6, <1>8
  <2>4. idMap[y] \in 1..Len(nodes'[Target]) /\ nodes'[Target][idMap[y]] = nodes[Target][idMap[y]]
    BY <2>2, <1>1 DEF Extends
  <2>5. QED
    BY <2>1, <2>2, <2>3, <2>4
<1>9. ASSUME NEW y \in 1..Len(Source)
      PROVE  IF y \in live \ (todo \ {x})
             THEN /\ idMap'[y] \in 1..Len(nodes'[Target])
                  /\ SameStructure(nodes'[Target][idMap'[y]], Source[y],
                                   Remap(Source[y].inputs, idMap'))
             ELSE idMap'[y] = 0
  <2>1. CASE y = x
    BY <2>1, <1>1, <1>7
  <2>2. CASE y \in live \ todo
    BY <2>2, <1>8
  <2>3. CASE y # x /\ y \notin live \ todo
    <3>1. idMap[y] = 0
      BY <2>3 DEF IInv, AdoptionFaithful
    <3>2. QED
      BY <3>1, <2>3, <1>5
  <2>4. QED
    BY <2>1, <2>2, <2>3
<1>10. QED
  BY <1>4, <1>9 DEF AdoptionFaithful

\* The loop's bookkeeping, for an iteration that leaves the source store alone.
LEMMA VisitKeepsProgress ==
    ASSUME IInv, ~Idle, NEW x \in todo, IsNextSourceId(x), NEW t \in Nat,
           UNCHANGED <<join, cursors, nodes[join.right.store]>>,
           idMap' = [idMap EXCEPT ![x] = t],
           todo' = todo \ {x},
           \A k \in 1..Len(adopted') : adopted'[k] \in 1..Len(nodes'[Target])
    PROVE  AdoptionInProgress'
<1> DEFINE live == Reachable(Source, join.right.tip)
<1>1. /\ join \in JoinRequest /\ join.left \in cursors /\ join.right \in cursors
      /\ Target # join.right.store /\ todo \subseteq live
      /\ \A z \in todo : \A y \in live \ todo : y < z
  BY DEF IInv, AdoptionInProgress
<1>2. /\ x \in 1..Len(Source) /\ Len(Source) \in Nat /\ live \subseteq 1..Len(Source)
      /\ idMap \in Seq(Nat) /\ Len(idMap) = Len(Source)
  BY NextInputsMapped
<1>3. Source' = Source /\ Target' = Target /\ live' = live
  BY DEF Source, Target
<1>4. Len(idMap') = Len(Source)
  BY <1>2
<1>5. ASSUME NEW z \in todo \ {x}, NEW y \in live \ (todo \ {x})
      PROVE  y < z
  <2>1. CASE y = x
    <3>1. x <= z /\ x # z
      BY <1>5 DEF IsNextSourceId
    <3>2. x \in Nat /\ z \in Nat
      BY <1>1, <1>2, <1>5
    <3>3. QED
      BY <2>1, <3>1, <3>2
  <2>2. CASE y # x
    BY <2>2, <1>1, <1>5
  <2>3. QED
    BY <2>1, <2>2
<1>6. QED
  BY <1>1, <1>3, <1>4, <1>5 DEF AdoptionInProgress

LEMMA AdoptReuseSound ==
    ASSUME IInv, NEW x \in todo, AdoptReuse(x)
    PROVE  IInv'
<1>1. /\ ~Idle /\ IsNextSourceId(x) /\ todo' = todo \ {x}
      /\ UNCHANGED <<allocated, nodes, nextId, cursors, join, adopted>>
  BY DEF AdoptReuse, storeVars
<1>2. PICK k \in Matches(Source[x], Remap(Source[x].inputs, idMap)) :
         idMap' = [idMap EXCEPT ![x] = adopted[k]]
  BY DEF AdoptReuse
<1>3. /\ k \in 1..Len(adopted)
      /\ SameStructure(nodes[Target][adopted[k]], Source[x], Remap(Source[x].inputs, idMap))
  BY DEF Matches
<1>4. /\ TypeOK /\ StoreSound /\ AdoptionInProgress /\ AdoptionDedupsLocally
  BY DEF IInv
<1>5. /\ Target \in StoreId /\ nodes[Target] \in Seq(Node) /\ Len(nodes[Target]) \in Nat
      /\ x \in 1..Len(Source) /\ idMap \in Seq(Nat) /\ Len(idMap) = Len(Source)
  BY <1>1, NextInputsMapped
<1>6. /\ \A j \in 1..Len(adopted) : adopted[j] \in 1..Len(nodes[Target])
      /\ adopted[k] \in Nat /\ adopted[k] \in 1..Len(nodes[Target])
  BY <1>1, <1>3, <1>4, <1>5 DEF AdoptionInProgress
<1>7. idMap' \in Seq(Nat) /\ Len(idMap') = Len(idMap)
      /\ \A y \in 1..Len(idMap) : idMap'[y] = IF y = x THEN adopted[k] ELSE idMap[y]
  BY <1>2, <1>5, <1>6
<1>8. TypeOK'
  BY <1>1, <1>4, <1>7 DEF TypeOK
<1>9. StoreSound'
  BY <1>1, <1>4 DEF StoreSound, DenseIds, InputsPrecede, CursorsResolve, UnallocatedEmpty
<1>10. AdoptionInProgress'
  BY <1>1, <1>2, <1>6, VisitKeepsProgress
<1>11. AdoptionFaithful'
  <2>1. Extends(nodes[Target], nodes'[Target]) /\ nodes' \in [StoreId -> Seq(Node)]
    BY <1>1, <1>4, <1>5 DEF Extends, TypeOK
  <2>2. QED
    BY <2>1, <1>1, <1>2, <1>3, <1>6, MappingKeepsFaithful
<1>12. AdoptionDedupsLocally'
  <2>1. ASSUME NEW y \in 1..Len(idMap), idMap'[y] # 0
        PROVE  \E j \in 1..Len(adopted) : adopted[j] = idMap'[y]
    <3>1. CASE y = x
      BY <3>1, <1>3, <1>7
    <3>2. CASE y # x
      BY <3>2, <2>1, <1>1, <1>4, <1>7 DEF AdoptionDedupsLocally
    <3>3. QED
      BY <3>1, <3>2
  <2>2. QED
    BY <2>1, <1>1, <1>4, <1>7 DEF AdoptionDedupsLocally, Target
<1>13. QED
  BY <1>8, <1>9, <1>10, <1>11, <1>12 DEF IInv

LEMMA AdoptCopySound ==
    ASSUME IInv, NEW x \in todo, AdoptCopy(x)
    PROVE  IInv'
<1> DEFINE remapped == Remap(Source[x].inputs, idMap)
           id == nextId[Target]
           target == Target
           kind == Source[x].kind
           payload == Source[x].payload
<1>1. /\ ~Idle /\ IsNextSourceId(x) /\ Matches(Source[x], remapped) = {}
      /\ AppendNode(Target, Source[x].kind, remapped, Source[x].payload)
      /\ idMap' = [idMap EXCEPT ![x] = id]
      /\ adopted' = Append(adopted, id)
      /\ todo' = todo \ {x}
      /\ UNCHANGED <<allocated, cursors, join>>
  BY DEF AdoptCopy
<1>2. /\ TypeOK /\ DenseIds /\ InputsPrecede /\ CursorsResolve /\ UnallocatedEmpty
      /\ AdoptionInProgress /\ AdoptionDedupsLocally
  BY DEF IInv, StoreSound
<1>3. /\ Target \in StoreId /\ join.right.store \in StoreId
      /\ nodes[Target] \in Seq(Node) /\ Len(nodes[Target]) \in Nat
      /\ x \in 1..Len(Source) /\ idMap \in Seq(Nat) /\ Len(idMap) = Len(Source)
      /\ Source[x] \in Node /\ remapped \in Seq(Nat)
      /\ \A k \in 1..Len(remapped) : remapped[k] \in 1..Len(nodes[Target])
  BY <1>1, NextInputsMapped
<1>4. /\ target \in StoreId /\ kind \in Kind /\ payload \in AnyPayload
      /\ \A k \in 1..Len(remapped) : remapped[k] \in 1..Len(nodes[target])
      /\ AppendNode(target, kind, remapped, payload)
  BY <1>1, <1>3 DEF Node, AnyPayload
<1> HIDE DEF remapped, id, target, kind, payload
<1>5. /\ nodes' \in [StoreId -> Seq(Node)]
      /\ nextId' \in [StoreId -> Nat]
      /\ DenseIds'
      /\ InputsPrecede'
      /\ \A t \in StoreId : Extends(nodes[t], nodes'[t])
      /\ \A t \in StoreId \ {Target} : nodes'[t] = nodes[t]
      /\ nextId[Target] = Len(nodes[Target]) + 1
      /\ Len(nodes'[Target]) = Len(nodes[Target]) + 1
      /\ nodes'[Target][nextId[Target]].kind = Source[x].kind
      /\ nodes'[Target][nextId[Target]].payload = Source[x].payload
      /\ nodes'[Target][nextId[Target]].inputs = remapped
  <2>1. /\ nodes' \in [StoreId -> Seq(Node)]
        /\ nextId' \in [StoreId -> Nat]
        /\ DenseIds'
        /\ InputsPrecede'
        /\ \A t \in StoreId : Extends(nodes[t], nodes'[t])
        /\ \A t \in StoreId \ {target} : nodes'[t] = nodes[t]
        /\ nextId[target] = Len(nodes[target]) + 1
        /\ Len(nodes'[target]) = Len(nodes[target]) + 1
        /\ nodes'[target][nextId[target]].kind = kind
        /\ nodes'[target][nextId[target]].payload = payload
        /\ nodes'[target][nextId[target]].inputs = remapped
    BY <1>2, <1>3, <1>4, AppendSound
  <2>2. QED
    BY <2>1 DEF target, kind, payload
<1>6. id = Len(nodes[Target]) + 1 /\ id \in Nat /\ id \in 1..Len(nodes'[Target])
  BY <1>3, <1>5 DEF id
<1>7. nodes'[join.right.store] = nodes[join.right.store]
  BY <1>1, <1>2, <1>3, <1>5 DEF AdoptionInProgress
<1>8. \A j \in 1..Len(adopted) : adopted[j] \in 1..Len(nodes[Target])
  BY <1>1, <1>2 DEF AdoptionInProgress
<1>9. /\ adopted \in Seq(Nat) /\ adopted' \in Seq(Nat) /\ Len(adopted') = Len(adopted) + 1
      /\ adopted'[Len(adopted) + 1] = id
      /\ \A j \in 1..Len(adopted) : adopted'[j] = adopted[j]
  BY <1>1, <1>2, <1>6 DEF TypeOK
<1>10. /\ idMap' \in Seq(Nat) /\ Len(idMap') = Len(idMap)
       /\ \A y \in 1..Len(idMap) : idMap'[y] = IF y = x THEN id ELSE idMap[y]
  BY <1>1, <1>3, <1>6
<1>11. TypeOK'
  BY <1>1, <1>2, <1>5, <1>9, <1>10 DEF TypeOK
<1>12. StoreSound'
  <2>1. CursorsResolve'
    BY <1>1, <1>2, <1>5, CursorsStayResolved DEF CursorsResolve
  <2>2. Target <= allocated
    BY <1>1, <1>2, CursorAllocated DEF AdoptionInProgress, Target
  <2>3. UnallocatedEmpty'
    BY <2>2, <1>1, <1>2, <1>3, <1>5 DEF UnallocatedEmpty, TypeOK, StoreId
  <2>4. QED
    BY <2>1, <2>3, <1>5 DEF StoreSound
<1>13. AdoptionInProgress'
  <2>1. ASSUME NEW k \in 1..Len(adopted')
        PROVE  adopted'[k] \in 1..Len(nodes'[Target])
    <3>1. CASE k \in 1..Len(adopted)
      <4>1. adopted'[k] = adopted[k] /\ adopted[k] \in 1..Len(nodes[Target])
        BY <3>1, <1>8, <1>9
      <4>2. Len(nodes'[Target]) = Len(nodes[Target]) + 1 /\ Len(nodes[Target]) \in Nat
        BY <1>3, <1>5
      <4>3. QED
        BY <4>1, <4>2
    <3>2. CASE k = Len(adopted) + 1
      BY <3>2, <1>6, <1>9
    <3>3. QED
      BY <3>1, <3>2, <1>9
  <2>2. QED
    BY <2>1, <1>1, <1>6, <1>7, VisitKeepsProgress
<1>14. AdoptionFaithful'
  <2>1. SameStructure(nodes'[Target][id], Source[x], remapped)
    BY <1>5 DEF SameStructure, id
  <2>2. QED
    BY <2>1, <1>1, <1>3, <1>5, <1>6, <1>7, MappingKeepsFaithful DEF remapped
<1>15. AdoptionDedupsLocally'
  <2>1. ASSUME NEW y \in 1..Len(idMap), idMap'[y] # 0
        PROVE  \E j \in 1..Len(adopted') : adopted'[j] = idMap'[y]
    <3>1. CASE y = x
      BY <3>1, <1>9, <1>10
    <3>2. CASE y # x
      <4>1. PICK j \in 1..Len(adopted) : adopted[j] = idMap[y]
        BY <3>2, <2>1, <1>1, <1>2, <1>10 DEF AdoptionDedupsLocally
      <4>2. idMap'[y] = idMap[y]
        BY <3>2, <1>10
      <4>3. j \in 1..Len(adopted') /\ adopted'[j] = adopted[j]
        BY <4>1, <1>9
      <4>4. QED
        BY <4>1, <4>2, <4>3
    <3>3. QED
      BY <3>1, <3>2
  <2>2. \A j \in 1..Len(adopted) : nodes'[Target][adopted'[j]] = nodes[Target][adopted[j]]
    BY <1>3, <1>5, <1>8, <1>9 DEF Extends
  <2>3. ASSUME NEW j \in 1..Len(adopted),
               nodes[Target][adopted[j]].kind = Source[x].kind,
               Plain(nodes[Target][adopted[j]].payload) = Plain(Source[x].payload),
               nodes[Target][adopted[j]].inputs = remapped
        PROVE  FALSE
    BY <2>3, <1>1 DEF Matches, SameStructure
  <2>4. ASSUME NEW k \in 1..Len(adopted'), NEW m \in 1..Len(adopted'), k # m
        PROVE  ~SameStructure(nodes'[Target][adopted'[k]], nodes'[Target][adopted'[m]],
                              nodes'[Target][adopted'[m]].inputs)
    <3>1. CASE k \in 1..Len(adopted) /\ m \in 1..Len(adopted)
      BY <3>1, <2>2, <2>4, <1>1, <1>2 DEF AdoptionDedupsLocally
    <3>2. CASE k = Len(adopted) + 1
      <4>1. m \in 1..Len(adopted)
        BY <3>2, <2>4, <1>9
      <4>2. QED
        BY <4>1, <3>2, <2>2, <2>3, <1>5, <1>9 DEF SameStructure, id
    <3>3. CASE m = Len(adopted) + 1
      <4>1. k \in 1..Len(adopted)
        BY <3>3, <2>4, <1>9
      <4>2. QED
        BY <4>1, <3>3, <2>2, <2>3, <1>5, <1>9 DEF SameStructure, id
    <3>4. QED
      BY <3>1, <3>2, <3>3, <1>9
  <2>5. QED
    BY <2>1, <2>4, <1>1, <1>10 DEF AdoptionDedupsLocally, Target
<1>16. QED
  BY <1>11, <1>12, <1>13, <1>14, <1>15 DEF IInv

LEMMA FinishJoinSound ==
    ASSUME IInv, FinishJoin
    PROVE  IInv'
<1>1. /\ ~Idle /\ todo = {}
      /\ AppendNode(Target, "Join", <<join.left.tip, idMap[join.right.tip]>>, join.payload)
      /\ cursors' = cursors \cup {[store |-> Target, tip |-> nextId[Target]]}
      /\ join' = NoJoin /\ idMap' = <<>> /\ adopted' = <<>>
      /\ UNCHANGED <<allocated, todo>>
  BY DEF FinishJoin
<1>2. /\ TypeOK /\ DenseIds /\ InputsPrecede /\ CursorsResolve /\ UnallocatedEmpty
      /\ AdoptionInProgress /\ AdoptionFaithful
  BY DEF IInv, StoreSound
<1>3. join \in JoinRequest /\ join.left \in cursors /\ join.right \in cursors
  BY <1>1, <1>2 DEF AdoptionInProgress
<1>4. /\ Target \in StoreId /\ Target <= allocated
      /\ join.left.tip \in 1..Len(nodes[Target]) /\ join.left.tip \in Nat
      /\ join.right.store \in StoreId
      /\ join.right.tip \in 1..Len(Source)
  BY <1>2, <1>3, CursorAllocated DEF Target, Source
<1>5. /\ Source \in Seq(Node) /\ nodes[Target] \in Seq(Node)
      /\ \A i \in 1..Len(Source) : Inputs(Source[i]) \subseteq 1..(i - 1)
  BY <1>2, <1>4 DEF TypeOK, InputsPrecede, Source
<1>6. join.right.tip \in Reachable(Source, join.right.tip)
  BY <1>4, <1>5, ReachableClosed
<1>7. idMap[join.right.tip] \in 1..Len(nodes[Target])
  BY <1>1, <1>2, <1>4, <1>6 DEF AdoptionFaithful
<1> DEFINE both == <<join.left.tip, idMap[join.right.tip]>>
           target == Target
           payload == join.payload
<1>8. /\ target \in StoreId /\ target <= allocated
      /\ payload \in AnyPayload /\ "Join" \in Kind
      /\ both \in Seq(Nat) /\ \A k \in 1..Len(both) : both[k] \in 1..Len(nodes[target])
      /\ AppendNode(target, "Join", both, payload)
      /\ cursors' = cursors \cup {[store |-> target, tip |-> nextId[target]]}
  BY <1>1, <1>3, <1>4, <1>7 DEF JoinRequest, AnyPayload, Kind
<1> HIDE DEF both, target, payload
<1>9. /\ allocated' \in 0..MaxStores /\ allocated <= allocated' /\ target <= allocated'
      /\ todo' \in SUBSET Nat /\ idMap' \in Seq(Nat) /\ adopted' \in Seq(Nat) /\ join' = NoJoin
  BY <1>1, <1>2, <1>8, BoundAssumption DEF TypeOK
<1>10. QED
  BY <1>8, <1>9, AppendCursorSound

-----------------------------------------------------------------------------
(* The theorems.                                                           *)

LEMMA InitSound == Init => IInv
<1> SUFFICES ASSUME Init
             PROVE  IInv
  OBVIOUS
<1>1. TypeOK
  BY BoundAssumption DEF Init, TypeOK, StoreId
<1>2. StoreSound
  BY DEF Init, StoreSound, DenseIds, InputsPrecede, CursorsResolve, UnallocatedEmpty
<1>3. Idle
  BY DEF Init, Idle
<1>4. QED
  BY <1>1, <1>2, <1>3 DEF IInv, AdoptionInProgress, AdoptionFaithful, AdoptionDedupsLocally

\* Every call of the cursor API and every iteration of the adoption loop.
LEMMA StepSound == IInv /\ [Next]_vars => IInv'
<1> SUFFICES ASSUME IInv, [Next]_vars
             PROVE  IInv'
  OBVIOUS
<1>1. ASSUME NEW t \in Payload["ReadNamedTable"], NamedTable(t)
      PROVE  IInv'
  BY <1>1, NamedTableSound
<1>2. ASSUME NEW t \in Payload["ReadNamedTable"], NamedTableRefused(t)
      PROVE  IInv'
  BY <1>2, NamedTableRefusedSound
<1>3. ASSUME NEW c \in cursors, DeriveStep(c)
      PROVE  IInv'
  <2>1. PICK kind \in UnaryKind, p \in AnyPayload : Derive(c, kind, p)
    <3>1. ASSUME NEW k \in Kind, NEW p \in Payload[k]
          PROVE  p \in AnyPayload
      BY DEF AnyPayload
    <3>2. /\ \A k \in UnaryKind : k \in Kind
          /\ {"Filter", "Project", "SelectProject", "GroupBy", "Aggregate",
              "OrderBy", "Limit", "Generate", "Window"} \subseteq UnaryKind
      BY DEF Kind, UnaryKind
    <3>3. QED
      BY <1>3, <3>1, <3>2 DEF DeriveStep, Filter, WithColumn, Select, GroupBy, Agg, OrderBy,
         Limit, Generate, WithWindowColumn
  <2>2. QED
    BY <2>1, DeriveSound
<1>4. ASSUME NEW l \in cursors, NEW r \in cursors, NEW p \in Payload["Join"],
             JoinSameStore(l, r, p)
      PROVE  IInv'
  BY <1>4, JoinSameStoreSound
<1>5. ASSUME NEW l \in cursors, NEW r \in cursors, NEW p \in Payload["Join"],
             BeginAdoption(l, r, p)
      PROVE  IInv'
  BY <1>5, BeginAdoptionSound
<1>6. ASSUME NEW x \in todo, AdoptReuse(x)
      PROVE  IInv'
  BY <1>6, AdoptReuseSound
<1>7. ASSUME NEW x \in todo, AdoptCopy(x)
      PROVE  IInv'
  BY <1>7, AdoptCopySound
<1>8. CASE FinishJoin
  BY <1>8, FinishJoinSound
<1>9. CASE UNCHANGED vars
  <2>1. UNCHANGED <<allocated, nodes, nextId, cursors, join, todo, idMap, adopted>>
    BY <1>9 DEF vars, storeVars, adoptVars
  <2>2. TypeOK' /\ StoreSound'
    BY <2>1 DEF IInv, TypeOK, StoreSound, DenseIds, InputsPrecede, CursorsResolve, UnallocatedEmpty
  <2>3. AdoptionInProgress' /\ AdoptionFaithful' /\ AdoptionDedupsLocally'
    BY <2>1 DEF IInv, AdoptionInProgress, AdoptionFaithful, AdoptionDedupsLocally, Idle, Source, Target
  <2>4. QED
    BY <2>2, <2>3 DEF IInv
<1>10. QED
  BY <1>1, <1>2, <1>3, <1>4, <1>5, <1>6, <1>7, <1>8, <1>9 DEF Next, JoinStep, AdoptStep

\* The inductive invariant holds in every reachable state.
THEOREM Inductive == Spec => []IInv
BY InitSound, StepSound, PTL DEF Spec

\* Type correctness: the lists, counters, cursors and loop locals keep the
\* shapes the code gives them.
THEOREM TypeCorrect == Spec => []TypeOK
<1>1. IInv => TypeOK
  BY DEF IInv
<1>2. QED
  BY Inductive, <1>1, PTL

\* Whatever cursors are branched, joined and adopted in whatever order, each
\* store keeps dense ids and backward inputs and every cursor resolves.
THEOREM StoresStaySound == Spec => []StoreSound
<1>1. IInv => StoreSound
  BY DEF IInv
<1>2. QED
  BY Inductive, <1>1, PTL

\* At every iteration adopt_cursor_subgraph has copied exactly the visited part
\* of the right subgraph, with its structure.
THEOREM AdoptionIsFaithful == Spec => []AdoptionFaithful
<1>1. IInv => AdoptionFaithful
  BY DEF IInv
<1>2. QED
  BY Inductive, <1>1, PTL

\* Adoption reuses only nodes of the same pass and never adopts two equal ones.
THEOREM AdoptionDedups == Spec => []AdoptionDedupsLocally
<1>1. IInv => AdoptionDedupsLocally
  BY DEF IInv
<1>2. QED
  BY Inductive, <1>1, PTL

-----------------------------------------------------------------------------
(* The query of a node.  Query is a recursive function, so that it satisfies *)
(* its own equation is a theorem: every input is an earlier node.            *)

\* The steps of the two queries the properties name, in Recursion's terms.
AuthoredStep(ns, d, query, i) ==
    [kind |-> ns[i].kind, payload |-> AsAuthored(ns[i].payload),
     inputs |-> [k \in 1..Len(ns[i].inputs) |-> query[ns[i].inputs[k]]]]

PlainStep(ns, d, query, i) ==
    [kind |-> ns[i].kind, payload |-> Plain(ns[i].payload),
     inputs |-> [k \in 1..Len(ns[i].inputs) |-> query[ns[i].inputs[k]]]]

Querying == INSTANCE Recursion WITH Step <- AuthoredStep
BareQuerying == INSTANCE Recursion WITH Step <- PlainStep

\* A node list whose nodes read from earlier ones.
Backwards(ns) ==
    \A i \in 1..Len(ns) : /\ Len(ns[i].inputs) \in Nat
                          /\ \A k \in 1..Len(ns[i].inputs) : ns[i].inputs[k] \in 1..(i - 1)

LEMMA BackwardsRanked ==
    ASSUME NEW ns, Len(ns) \in Nat, Backwards(ns), NEW n \in 1..Len(ns), NEW i \in 1..n,
           NEW k \in 1..Len(ns[i].inputs)
    PROVE  ns[i].inputs[k] \in 1..n /\ Upto(n)[ns[i].inputs[k]] < Upto(n)[i]
<1>1. ns[i].inputs[k] \in 1..(i - 1)
    BY DEF Backwards
<1> QED
    BY <1>1 DEF Upto

LEMMA AuthoredQueryExists ==
    ASSUME NEW ns, Len(ns) \in Nat, Backwards(ns), NEW tip \in 1..Len(ns)
    PROVE  \E q : /\ \A i \in 1..tip : q[i] = AuthoredStep(ns, 0, q, i)
                  /\ q[tip] = Query(ns, tip, AsAuthored)
<1>1. Upto(tip) \in [1..tip -> 0..tip] /\ tip \in Nat
    BY DEF Upto
<1>2. Querying!Backward(ns, 0, 1..tip, Upto(tip))
  <2> SUFFICES ASSUME NEW i \in 1..tip, NEW g, NEW h,
                      \A j \in 1..tip : Upto(tip)[j] < Upto(tip)[i] => g[j] = h[j]
               PROVE  AuthoredStep(ns, 0, g, i) = AuthoredStep(ns, 0, h, i)
    BY DEF Querying!Backward
  <2>1. ASSUME NEW k \in 1..Len(ns[i].inputs)
        PROVE  g[ns[i].inputs[k]] = h[ns[i].inputs[k]]
    BY BackwardsRanked
  <2> QED
    BY <2>1 DEF AuthoredStep
<1> DEFINE D == 1..tip
           q == CHOOSE f : Querying!Solves(ns, 0, D, f)
<1>3. Querying!Solves(ns, 0, D, q)
  <2>1. \E f : Querying!Solves(ns, 0, D, f)
    BY <1>1, <1>2, Querying!SolutionExists
  <2> QED
    BY <2>1
<1>4. q[tip] = Query(ns, tip, AsAuthored)
    BY Zenon DEF Query, Querying!Solves, AuthoredStep
<1> HIDE DEF q
<1>5. \A i \in D : q[i] = AuthoredStep(ns, 0, q, i)
  <2> HIDE DEF D
  <2> QED
    BY <1>3, Querying!SolvesAt
<1> QED
    BY <1>4, <1>5

LEMMA BareQueryExists ==
    ASSUME NEW ns, Len(ns) \in Nat, Backwards(ns), NEW tip \in 1..Len(ns)
    PROVE  \E q : /\ \A i \in 1..tip : q[i] = PlainStep(ns, 0, q, i)
                  /\ q[tip] = Query(ns, tip, Plain)
<1>1. Upto(tip) \in [1..tip -> 0..tip] /\ tip \in Nat
    BY DEF Upto
<1>2. BareQuerying!Backward(ns, 0, 1..tip, Upto(tip))
  <2> SUFFICES ASSUME NEW i \in 1..tip, NEW g, NEW h,
                      \A j \in 1..tip : Upto(tip)[j] < Upto(tip)[i] => g[j] = h[j]
               PROVE  PlainStep(ns, 0, g, i) = PlainStep(ns, 0, h, i)
    BY DEF BareQuerying!Backward
  <2>1. ASSUME NEW k \in 1..Len(ns[i].inputs)
        PROVE  g[ns[i].inputs[k]] = h[ns[i].inputs[k]]
    BY BackwardsRanked
  <2> QED
    BY <2>1 DEF PlainStep
<1> DEFINE D == 1..tip
           q == CHOOSE f : BareQuerying!Solves(ns, 0, D, f)
<1>3. BareQuerying!Solves(ns, 0, D, q)
  <2>1. \E f : BareQuerying!Solves(ns, 0, D, f)
    BY <1>1, <1>2, BareQuerying!SolutionExists
  <2> QED
    BY <2>1
<1>4. q[tip] = Query(ns, tip, Plain)
    BY Zenon DEF Query, BareQuerying!Solves, PlainStep
<1> HIDE DEF q
<1>5. \A i \in D : q[i] = PlainStep(ns, 0, q, i)
  <2> HIDE DEF D
  <2> QED
    BY <1>3, BareQuerying!SolvesAt
<1> QED
    BY <1>4, <1>5

\* A query is its node's kind and payload over the queries of its inputs.
LEMMA AuthoredQueryUnfolds ==
    ASSUME NEW ns, Len(ns) \in Nat, Backwards(ns), NEW i \in 1..Len(ns)
    PROVE  Query(ns, i, AsAuthored) =
             [kind |-> ns[i].kind, payload |-> AsAuthored(ns[i].payload),
              inputs |-> [k \in 1..Len(ns[i].inputs) |-> Query(ns, ns[i].inputs[k], AsAuthored)]]
<1>1. PICK q : /\ \A j \in 1..i : q[j] = AuthoredStep(ns, 0, q, j)
               /\ q[i] = Query(ns, i, AsAuthored)
    BY AuthoredQueryExists
<1>2. ASSUME NEW j \in 1..i
      PROVE  q[j] = Query(ns, j, AsAuthored)
  <2>1. j \in 1..Len(ns) /\ j \in Nat /\ \A m \in 1..j : m \in 1..i /\ m \in 1..Len(ns)
    OBVIOUS
  <2>2. PICK r : /\ \A m \in 1..j : r[m] = AuthoredStep(ns, 0, r, m)
                 /\ r[j] = Query(ns, j, AsAuthored)
    BY <2>1, AuthoredQueryExists
  <2>3. \A m \in 1..j : q[m] = r[m]
    <3> DEFINE Bad == {m \in 1..j : q[m] # r[m]}
    <3> SUFFICES ASSUME Bad # {} PROVE FALSE
      OBVIOUS
    <3>1. PICK m \in Bad : \A x \in Bad : m <= x
      <4>1. Bad \in SUBSET Nat
        OBVIOUS
      <4> HIDE DEF Bad
      <4> QED
        BY <4>1, Querying!LeastNumber
    <3>2. m \in 1..j /\ m \in Nat /\ m \in 1..i /\ m \in 1..Len(ns) /\ q[m] # r[m]
      BY <2>1, <3>1
    <3>3. ASSUME NEW k \in 1..Len(ns[m].inputs)
          PROVE  q[ns[m].inputs[k]] = r[ns[m].inputs[k]]
      <4>1. ns[m].inputs[k] \in 1..(m - 1)
        BY <3>2 DEF Backwards
      <4>2. ns[m].inputs[k] \in 1..j /\ ~(m <= ns[m].inputs[k])
        BY <3>2, <4>1
      <4> QED
        BY <3>1, <4>2
    <3>4. AuthoredStep(ns, 0, q, m) = AuthoredStep(ns, 0, r, m)
      BY <3>3 DEF AuthoredStep
    <3>5. q[m] = AuthoredStep(ns, 0, q, m) /\ r[m] = AuthoredStep(ns, 0, r, m)
      BY <3>2, <1>1, <2>2
    <3> QED
      BY <3>2, <3>4, <3>5
  <2> QED
    BY <2>1, <2>2, <2>3
<1>3. \A k \in 1..Len(ns[i].inputs) :
         q[ns[i].inputs[k]] = Query(ns, ns[i].inputs[k], AsAuthored)
  <2>1. \A k \in 1..Len(ns[i].inputs) : ns[i].inputs[k] \in 1..i
    BY DEF Backwards
  <2> QED
    BY <1>2, <2>1
<1>4. Query(ns, i, AsAuthored) = AuthoredStep(ns, 0, q, i)
    BY <1>1
<1>5. [k \in 1..Len(ns[i].inputs) |-> q[ns[i].inputs[k]]] =
         [k \in 1..Len(ns[i].inputs) |-> Query(ns, ns[i].inputs[k], AsAuthored)]
    BY <1>3
<1> QED
    BY <1>4, <1>5, Zenon DEF AuthoredStep

\* The same of the query up to typed wrappers.
LEMMA BareQueryUnfolds ==
    ASSUME NEW ns, Len(ns) \in Nat, Backwards(ns), NEW i \in 1..Len(ns)
    PROVE  Query(ns, i, Plain) =
             [kind |-> ns[i].kind, payload |-> Plain(ns[i].payload),
              inputs |-> [k \in 1..Len(ns[i].inputs) |-> Query(ns, ns[i].inputs[k], Plain)]]
<1>1. PICK q : /\ \A j \in 1..i : q[j] = PlainStep(ns, 0, q, j)
               /\ q[i] = Query(ns, i, Plain)
    BY BareQueryExists
<1>2. ASSUME NEW j \in 1..i
      PROVE  q[j] = Query(ns, j, Plain)
  <2>1. j \in 1..Len(ns) /\ j \in Nat /\ \A m \in 1..j : m \in 1..i /\ m \in 1..Len(ns)
    OBVIOUS
  <2>2. PICK r : /\ \A m \in 1..j : r[m] = PlainStep(ns, 0, r, m)
                 /\ r[j] = Query(ns, j, Plain)
    BY <2>1, BareQueryExists
  <2>3. \A m \in 1..j : q[m] = r[m]
    <3> DEFINE Bad == {m \in 1..j : q[m] # r[m]}
    <3> SUFFICES ASSUME Bad # {} PROVE FALSE
      OBVIOUS
    <3>1. PICK m \in Bad : \A x \in Bad : m <= x
      <4>1. Bad \in SUBSET Nat
        OBVIOUS
      <4> HIDE DEF Bad
      <4> QED
        BY <4>1, BareQuerying!LeastNumber
    <3>2. m \in 1..j /\ m \in Nat /\ m \in 1..i /\ m \in 1..Len(ns) /\ q[m] # r[m]
      BY <2>1, <3>1
    <3>3. ASSUME NEW k \in 1..Len(ns[m].inputs)
          PROVE  q[ns[m].inputs[k]] = r[ns[m].inputs[k]]
      <4>1. ns[m].inputs[k] \in 1..(m - 1)
        BY <3>2 DEF Backwards
      <4>2. ns[m].inputs[k] \in 1..j /\ ~(m <= ns[m].inputs[k])
        BY <3>2, <4>1
      <4> QED
        BY <3>1, <4>2
    <3>4. PlainStep(ns, 0, q, m) = PlainStep(ns, 0, r, m)
      BY <3>3 DEF PlainStep
    <3>5. q[m] = PlainStep(ns, 0, q, m) /\ r[m] = PlainStep(ns, 0, r, m)
      BY <3>2, <1>1, <2>2
    <3> QED
      BY <3>2, <3>4, <3>5
  <2> QED
    BY <2>1, <2>2, <2>3
<1>3. \A k \in 1..Len(ns[i].inputs) :
         q[ns[i].inputs[k]] = Query(ns, ns[i].inputs[k], Plain)
  <2>1. \A k \in 1..Len(ns[i].inputs) : ns[i].inputs[k] \in 1..i
    BY DEF Backwards
  <2> QED
    BY <1>2, <2>1
<1>4. Query(ns, i, Plain) = PlainStep(ns, 0, q, i)
    BY <1>1
<1>5. [k \in 1..Len(ns[i].inputs) |-> q[ns[i].inputs[k]]] =
         [k \in 1..Len(ns[i].inputs) |-> Query(ns, ns[i].inputs[k], Plain)]
    BY <1>3
<1> QED
    BY <1>4, <1>5, Zenon DEF PlainStep

\* A store that grows keeps the queries of the nodes it had.
LEMMA AuthoredQueryPersists ==
    ASSUME NEW old, NEW new, Len(old) \in Nat, Len(new) \in Nat, Extends(old, new),
           Backwards(old), Backwards(new), NEW i \in 1..Len(old)
    PROVE  Query(new, i, AsAuthored) = Query(old, i, AsAuthored)
<1> DEFINE Bad == {j \in 1..Len(old) : Query(new, j, AsAuthored) # Query(old, j, AsAuthored)}
<1> SUFFICES ASSUME Bad # {} PROVE FALSE
    OBVIOUS
<1>1. PICK j \in Bad : \A x \in Bad : j <= x
  <2>1. Bad \in SUBSET Nat
    OBVIOUS
  <2> HIDE DEF Bad
  <2> QED
    BY <2>1, Querying!LeastNumber
<1>2. /\ j \in 1..Len(old) /\ j \in 1..Len(new) /\ new[j] = old[j]
      /\ Query(new, j, AsAuthored) # Query(old, j, AsAuthored)
    BY <1>1 DEF Extends
<1>3. ASSUME NEW k \in 1..Len(old[j].inputs)
      PROVE  Query(new, old[j].inputs[k], AsAuthored) = Query(old, old[j].inputs[k], AsAuthored)
  <2>1. old[j].inputs[k] \in 1..(j - 1)
    BY <1>2 DEF Backwards
  <2>2. old[j].inputs[k] \in 1..Len(old) /\ ~(j <= old[j].inputs[k])
    BY <1>2, <2>1
  <2>3. old[j].inputs[k] \notin Bad
    BY <1>1, <2>2
  <2> QED
    BY <2>2, <2>3
<1>4. [k \in 1..Len(old[j].inputs) |-> Query(new, old[j].inputs[k], AsAuthored)]
      = [k \in 1..Len(old[j].inputs) |-> Query(old, old[j].inputs[k], AsAuthored)]
  <2> HIDE DEF Bad
  <2> QED
    BY <1>3
<1>5. Query(old, j, AsAuthored) =
        [kind |-> old[j].kind, payload |-> AsAuthored(old[j].payload),
         inputs |-> [k \in 1..Len(old[j].inputs) |-> Query(old, old[j].inputs[k], AsAuthored)]]
    BY <1>2, AuthoredQueryUnfolds
<1>6. Query(new, j, AsAuthored) =
        [kind |-> old[j].kind, payload |-> AsAuthored(old[j].payload),
         inputs |-> [k \in 1..Len(old[j].inputs) |-> Query(new, old[j].inputs[k], AsAuthored)]]
  <2>1. Query(new, j, AsAuthored) =
        [kind |-> new[j].kind, payload |-> AsAuthored(new[j].payload),
         inputs |-> [k \in 1..Len(new[j].inputs) |-> Query(new, new[j].inputs[k], AsAuthored)]]
    BY <1>2, AuthoredQueryUnfolds
  <2> QED
    BY <1>2, <2>1, Zenon
<1> QED
    BY <1>2, <1>4, <1>5, <1>6, Zenon

LEMMA BareQueryPersists ==
    ASSUME NEW old, NEW new, Len(old) \in Nat, Len(new) \in Nat, Extends(old, new),
           Backwards(old), Backwards(new), NEW i \in 1..Len(old)
    PROVE  Query(new, i, Plain) = Query(old, i, Plain)
<1> DEFINE Bad == {j \in 1..Len(old) : Query(new, j, Plain) # Query(old, j, Plain)}
<1> SUFFICES ASSUME Bad # {} PROVE FALSE
    OBVIOUS
<1>1. PICK j \in Bad : \A x \in Bad : j <= x
  <2>1. Bad \in SUBSET Nat
    OBVIOUS
  <2> HIDE DEF Bad
  <2> QED
    BY <2>1, BareQuerying!LeastNumber
<1>2. /\ j \in 1..Len(old) /\ j \in 1..Len(new) /\ new[j] = old[j]
      /\ Query(new, j, Plain) # Query(old, j, Plain)
    BY <1>1 DEF Extends
<1>3. ASSUME NEW k \in 1..Len(old[j].inputs)
      PROVE  Query(new, old[j].inputs[k], Plain) = Query(old, old[j].inputs[k], Plain)
  <2>1. old[j].inputs[k] \in 1..(j - 1)
    BY <1>2 DEF Backwards
  <2>2. old[j].inputs[k] \in 1..Len(old) /\ ~(j <= old[j].inputs[k])
    BY <1>2, <2>1
  <2>3. old[j].inputs[k] \notin Bad
    BY <1>1, <2>2
  <2> QED
    BY <2>2, <2>3
<1>4. [k \in 1..Len(old[j].inputs) |-> Query(new, old[j].inputs[k], Plain)]
      = [k \in 1..Len(old[j].inputs) |-> Query(old, old[j].inputs[k], Plain)]
  <2> HIDE DEF Bad
  <2> QED
    BY <1>3
<1>5. Query(old, j, Plain) =
        [kind |-> old[j].kind, payload |-> Plain(old[j].payload),
         inputs |-> [k \in 1..Len(old[j].inputs) |-> Query(old, old[j].inputs[k], Plain)]]
    BY <1>2, BareQueryUnfolds
<1>6. Query(new, j, Plain) =
        [kind |-> old[j].kind, payload |-> Plain(old[j].payload),
         inputs |-> [k \in 1..Len(old[j].inputs) |-> Query(new, old[j].inputs[k], Plain)]]
  <2>1. Query(new, j, Plain) =
        [kind |-> new[j].kind, payload |-> Plain(new[j].payload),
         inputs |-> [k \in 1..Len(new[j].inputs) |-> Query(new, new[j].inputs[k], Plain)]]
    BY <1>2, BareQueryUnfolds
  <2> QED
    BY <1>2, <2>1, Zenon
<1> QED
    BY <1>2, <1>4, <1>5, <1>6, Zenon

\* The node list of a store whose inputs precede their consumers.
LEMMA ReadsBackward ==
    ASSUME NEW ns \in Seq(Node), \A i \in 1..Len(ns) : Inputs(ns[i]) \subseteq 1..(i - 1)
    PROVE  Len(ns) \in Nat /\ Backwards(ns)
<1>1. ASSUME NEW i \in 1..Len(ns)
      PROVE  /\ Len(ns[i].inputs) \in Nat
             /\ \A k \in 1..Len(ns[i].inputs) : ns[i].inputs[k] \in 1..(i - 1)
  <2>1. ns[i] \in Node
    OBVIOUS
  <2>2. Len(ns[i].inputs) \in Nat
    BY <2>1 DEF Node
  <2> QED
    BY <2>2 DEF Inputs
<1> QED
    BY <1>1 DEF Backwards

-----------------------------------------------------------------------------
(* Stores only grow.                                                       *)

LEMMA StoresStand ==
    ASSUME TypeOK, UNCHANGED nodes, NEW t \in StoreId
    PROVE  Extends(nodes[t], nodes'[t])
BY DEF TypeOK, Extends

\* The ids that join_with_kind appends its node over exist.
LEMMA BothSidesMapped ==
    ASSUME IInv, ~Idle, todo = {}
    PROVE  /\ Target \in StoreId /\ join.right.store \in StoreId
           /\ join.left.tip \in 1..Len(nodes[Target]) /\ join.left.tip \in Nat
           /\ join.right.tip \in Reachable(Source, join.right.tip)
           /\ idMap[join.right.tip] \in 1..Len(nodes[Target])
           /\ idMap[join.right.tip] \in Nat
           /\ join.payload \in AnyPayload
<1>1. /\ TypeOK /\ InputsPrecede /\ CursorsResolve /\ UnallocatedEmpty
      /\ AdoptionInProgress /\ AdoptionFaithful
    BY DEF IInv, StoreSound
<1>2. join \in JoinRequest /\ join.left \in cursors /\ join.right \in cursors
    BY <1>1 DEF AdoptionInProgress
<1>3. /\ Target \in StoreId /\ join.right.store \in StoreId
      /\ join.left.tip \in 1..Len(nodes[Target]) /\ join.left.tip \in Nat
      /\ join.right.tip \in 1..Len(Source)
    BY <1>1, <1>2, CursorAllocated DEF Target, Source
<1>4. /\ Source \in Seq(Node) /\ nodes[Target] \in Seq(Node)
      /\ \A i \in 1..Len(Source) : Inputs(Source[i]) \subseteq 1..(i - 1)
    BY <1>1, <1>3 DEF TypeOK, InputsPrecede, Source
<1>5. join.right.tip \in Reachable(Source, join.right.tip)
    BY <1>3, <1>4, ReachableClosed
<1>6. idMap[join.right.tip] \in 1..Len(nodes[Target])
    BY <1>1, <1>3, <1>5 DEF AdoptionFaithful
<1>7. join.payload \in AnyPayload
    BY <1>2 DEF JoinRequest, AnyPayload, Kind
<1> QED
    BY <1>3, <1>4, <1>5, <1>6, <1>7

\* No call changes a node that is there.
LEMMA StoresGrow ==
    ASSUME IInv, [Next]_vars, NEW t \in StoreId
    PROVE  Extends(nodes[t], nodes'[t])
<1>1. TypeOK /\ DenseIds /\ InputsPrecede /\ CursorsResolve /\ UnallocatedEmpty
    BY DEF IInv, StoreSound
<1>2. ASSUME NEW r \in Payload["ReadNamedTable"], NamedTable(r)
      PROVE  Extends(nodes[t], nodes'[t])
  <2>1. allocated \in 0..MaxStores /\ allocated < MaxStores
    BY <1>1, <1>2 DEF NamedTable, Allocate, TypeOK
  <2>2. /\ allocated + 1 \in StoreId /\ "ReadNamedTable" \in Kind /\ r \in AnyPayload
        /\ <<>> \in Seq(Nat)
        /\ \A k \in 1..Len(<<>>) : <<>>[k] \in 1..Len(nodes[allocated + 1])
    BY <2>1, BoundAssumption DEF StoreId, Kind, AnyPayload
  <2>3. AppendNode(allocated + 1, "ReadNamedTable", <<>>, r)
    BY <1>2 DEF NamedTable
  <2> QED
    BY <1>1, <2>2, <2>3, AppendSound
<1>3. ASSUME NEW r \in Payload["ReadNamedTable"], NamedTableRefused(r)
      PROVE  Extends(nodes[t], nodes'[t])
    BY <1>1, <1>3, StoresStand DEF NamedTableRefused
<1>4. ASSUME NEW c \in cursors, DeriveStep(c)
      PROVE  Extends(nodes[t], nodes'[t])
  <2>1. PICK kind \in Kind, p \in AnyPayload : Derive(c, kind, p)
    <3>1. ASSUME NEW k \in Kind, NEW p \in Payload[k]
          PROVE  p \in AnyPayload
      BY DEF AnyPayload
    <3>2. {"Filter", "Project", "SelectProject", "GroupBy", "Aggregate",
           "OrderBy", "Limit", "Generate", "Window"} \subseteq Kind
      BY DEF Kind, UnaryKind
    <3> QED
      BY <1>4, <3>1, <3>2 DEF DeriveStep, Filter, WithColumn, Select, GroupBy, Agg, OrderBy,
         Limit, Generate, WithWindowColumn
  <2>2. c.store \in StoreId /\ c.tip \in 1..Len(nodes[c.store]) /\ c.tip \in Nat
    BY <1>1, CursorAllocated
  <2>3. /\ <<c.tip>> \in Seq(Nat)
        /\ \A k \in 1..Len(<<c.tip>>) : <<c.tip>>[k] \in 1..Len(nodes[c.store])
    BY <2>2
  <2>4. AppendNode(c.store, kind, <<c.tip>>, p)
    BY <2>1 DEF Derive
  <2> QED
    BY <1>1, <2>2, <2>3, <2>4, AppendSound
<1>5. ASSUME NEW l \in cursors, NEW r \in cursors, NEW p \in Payload["Join"],
             JoinSameStore(l, r, p)
      PROVE  Extends(nodes[t], nodes'[t])
  <2>1. /\ l.store \in StoreId /\ l.tip \in 1..Len(nodes[l.store]) /\ l.tip \in Nat
        /\ r.tip \in 1..Len(nodes[r.store]) /\ r.tip \in Nat
    BY <1>1, CursorAllocated
  <2>2. l.store = r.store /\ AppendNode(l.store, "Join", <<l.tip, r.tip>>, p)
    BY <1>5 DEF JoinSameStore
  <2>3. /\ <<l.tip, r.tip>> \in Seq(Nat) /\ "Join" \in Kind /\ p \in AnyPayload
        /\ \A k \in 1..Len(<<l.tip, r.tip>>) : <<l.tip, r.tip>>[k] \in 1..Len(nodes[l.store])
    BY <2>1, <2>2 DEF Kind, AnyPayload
  <2> QED
    BY <1>1, <2>1, <2>2, <2>3, AppendSound
<1>6. ASSUME NEW l \in cursors, NEW r \in cursors, NEW p \in Payload["Join"],
             BeginAdoption(l, r, p)
      PROVE  Extends(nodes[t], nodes'[t])
    BY <1>1, <1>6, StoresStand DEF BeginAdoption, storeVars
<1>7. ASSUME NEW x \in todo, AdoptReuse(x)
      PROVE  Extends(nodes[t], nodes'[t])
    BY <1>1, <1>7, StoresStand DEF AdoptReuse, storeVars
<1>8. ASSUME NEW x \in todo, AdoptCopy(x)
      PROVE  Extends(nodes[t], nodes'[t])
  <2> DEFINE target == Target
             kind == Source[x].kind
             payload == Source[x].payload
             inputs == Remap(Source[x].inputs, idMap)
  <2>1. ~Idle /\ IsNextSourceId(x) /\ AppendNode(target, kind, inputs, payload)
    BY <1>8 DEF AdoptCopy
  <2>2. /\ target \in StoreId /\ kind \in Kind /\ payload \in AnyPayload /\ inputs \in Seq(Nat)
        /\ \A k \in 1..Len(inputs) : inputs[k] \in 1..Len(nodes[target])
    BY <2>1, NextInputsMapped DEF Node, AnyPayload
  <2> HIDE DEF target, kind, payload, inputs
  <2> QED
    BY <1>1, <2>1, <2>2, AppendSound
<1>9. CASE FinishJoin
  <2> DEFINE target == Target
             payload == join.payload
             inputs == <<join.left.tip, idMap[join.right.tip]>>
  <2>1. ~Idle /\ todo = {} /\ AppendNode(target, "Join", inputs, payload)
    BY <1>9 DEF FinishJoin
  <2>2. /\ target \in StoreId /\ "Join" \in Kind /\ payload \in AnyPayload
        /\ inputs \in Seq(Nat)
        /\ \A k \in 1..Len(inputs) : inputs[k] \in 1..Len(nodes[target])
    BY <2>1, BothSidesMapped DEF Kind
  <2> HIDE DEF target, payload, inputs
  <2> QED
    BY <1>1, <2>1, <2>2, AppendSound
<1>10. CASE UNCHANGED vars
    BY <1>1, <1>10, StoresStand DEF vars, storeVars
<1> QED
    BY <1>2, <1>3, <1>4, <1>5, <1>6, <1>7, <1>8, <1>9, <1>10 DEF Next, JoinStep, AdoptStep

-----------------------------------------------------------------------------
(* What a cursor and a finished join stand for.                            *)

\* Every cursor keeps its query through any step.
LEMMA StepKeepsQueries ==
    ASSUME IInv, [Next]_vars, NEW c \in cursors
    PROVE  Query(nodes[c.store], c.tip, AsAuthored) = Query(nodes'[c.store], c.tip, AsAuthored)
<1>1. TypeOK /\ InputsPrecede /\ CursorsResolve /\ UnallocatedEmpty /\ TypeOK' /\ InputsPrecede'
    BY StepSound DEF IInv, StoreSound
<1>2. c.store \in StoreId /\ c.tip \in 1..Len(nodes[c.store])
    BY <1>1, CursorAllocated
<1> DEFINE old == nodes[c.store]
           new == nodes'[c.store]
           tip == c.tip
<1>3. /\ Len(old) \in Nat /\ Backwards(old) /\ Extends(old, new)
      /\ Len(new) \in Nat /\ Backwards(new) /\ tip \in 1..Len(old)
  <2>1. Len(old) \in Nat /\ Backwards(old)
    BY <1>1, <1>2, ReadsBackward DEF TypeOK, InputsPrecede
  <2>2. Extends(old, new)
    BY <1>2, StoresGrow
  <2>3. Len(new) \in Nat /\ Backwards(new)
    BY <1>1, <1>2, ReadsBackward DEF TypeOK, InputsPrecede
  <2> QED
    BY <1>2, <2>1, <2>2, <2>3
<1> HIDE DEF old, new, tip
<1>4. Query(new, tip, AsAuthored) = Query(old, tip, AsAuthored)
    BY <1>3, AuthoredQueryPersists
<1> QED
    BY <1>4 DEF old, new, tip

\* Authoring is append-only: no call on any cursor or store, no adoption step
\* and no refused read changes the query an earlier cursor stands for.
THEOREM LineageStays == Spec => LineageStable
<1>1. IInv /\ [Next]_vars =>
        [\A c \in cursors : Query(nodes[c.store], c.tip, AsAuthored)
                            = Query(nodes'[c.store], c.tip, AsAuthored)]_vars
    BY StepKeepsQueries
<1> QED
    BY Inductive, <1>1, PTL DEF Spec, LineageStable

\* When the loop is done, each adopted node stands for its source's query.
LEMMA AdoptedQueriesAgree ==
    ASSUME IInv, ~Idle, todo = {}, NEW x \in Reachable(Source, join.right.tip)
    PROVE  Query(nodes[Target], idMap[x], Plain) = Query(Source, x, Plain)
<1> DEFINE live == Reachable(Source, join.right.tip)
           Bad == {y \in live : Query(nodes[Target], idMap[y], Plain) # Query(Source, y, Plain)}
<1> SUFFICES ASSUME Bad # {} PROVE FALSE
    OBVIOUS
<1>1. TypeOK /\ InputsPrecede /\ AdoptionFaithful
    BY DEF IInv, StoreSound
<1>2. /\ Target \in StoreId /\ join.right.store \in StoreId
      /\ Len(nodes[Target]) \in Nat /\ Backwards(nodes[Target])
      /\ Len(Source) \in Nat /\ Backwards(Source) /\ Source \in Seq(Node)
    BY <1>1, BothSidesMapped, ReadsBackward DEF Source, TypeOK, InputsPrecede
<1>3. live \subseteq 1..Len(Source) /\ InputClosed(Source, live)
  <2>1. \A i \in 1..Len(Source) : Inputs(Source[i]) \subseteq 1..(i - 1)
    BY <1>1, <1>2 DEF InputsPrecede, Source
  <2>2. join.right.tip \in 1..Len(Source)
    BY BothSidesMapped DEF Reachable
  <2> QED
    BY <1>2, <2>1, <2>2, ReachableClosed
<1>4. PICK y \in Bad : \A z \in Bad : y <= z
  <2>1. Bad \in SUBSET Nat
    BY <1>3
  <2> HIDE DEF Bad
  <2> QED
    BY <2>1, BareQuerying!LeastNumber
<1> DEFINE m == idMap[y]
           ns == nodes[Target]
           src == Source
           copied == Source[y].inputs
<1>5. /\ y \in live /\ y \in 1..Len(src)
      /\ Query(ns, m, Plain) # Query(src, y, Plain)
    BY <1>3, <1>4
<1>6. /\ m \in 1..Len(ns)
      /\ ns[m].kind = src[y].kind /\ Plain(ns[m].payload) = Plain(src[y].payload)
      /\ ns[m].inputs = [k \in 1..Len(copied) |-> idMap[copied[k]]]
    BY <1>1, <1>5 DEF AdoptionFaithful, SameStructure, Remap
<1>7. Len(copied) \in Nat /\ Len(ns[m].inputs) = Len(copied)
    BY <1>2, <1>5, <1>6 DEF Backwards
<1>8. ASSUME NEW k \in 1..Len(copied)
      PROVE  Query(ns, ns[m].inputs[k], Plain) = Query(src, copied[k], Plain)
  <2>1. copied[k] \in 1..(y - 1)
    BY <1>2, <1>5 DEF Backwards
  <2>2. copied[k] \in live
    BY <1>3, <1>5 DEF InputClosed, Inputs
  <2>3. copied[k] \notin Bad
    BY <1>2, <1>4, <1>5, <2>1
  <2>4. ns[m].inputs[k] = idMap[copied[k]]
    BY <1>6
  <2> QED
    BY <2>2, <2>3, <2>4
<1>9. [k \in 1..Len(ns[m].inputs) |-> Query(ns, ns[m].inputs[k], Plain)]
      = [k \in 1..Len(copied) |-> Query(src, copied[k], Plain)]
  <2> HIDE DEF Bad, live, m, ns, src, copied
  <2> QED
    BY <1>7, <1>8
<1>10. Query(src, y, Plain) =
         [kind |-> src[y].kind, payload |-> Plain(src[y].payload),
          inputs |-> [k \in 1..Len(copied) |-> Query(src, copied[k], Plain)]]
    BY <1>2, <1>5, BareQueryUnfolds
<1>11. Query(ns, m, Plain) =
         [kind |-> ns[m].kind, payload |-> Plain(ns[m].payload),
          inputs |-> [k \in 1..Len(ns[m].inputs) |-> Query(ns, ns[m].inputs[k], Plain)]]
    BY <1>2, <1>6, BareQueryUnfolds
<1> HIDE DEF Bad, live, m, ns, src, copied
<1> QED
    BY <1>5, <1>6, <1>9, <1>10, <1>11, Zenon

\* The step that ends a cross-store join.
LEMMA FinishedJoinReadsBoth ==
    ASSUME IInv, FinishJoin
    PROVE  LET ns == nodes'[Target]
               made == ns[Len(ns)]
           IN  /\ made.kind = "Join"
               /\ Query(ns, made.inputs[1], Plain) = Query(nodes[Target], join.left.tip, Plain)
               /\ Query(ns, made.inputs[2], Plain) = Query(Source, join.right.tip, Plain)
<1>1. /\ TypeOK /\ DenseIds /\ InputsPrecede /\ IInv' /\ ~Idle /\ todo = {}
    BY FinishJoinSound DEF FinishJoin, IInv, StoreSound
<1> DEFINE target == Target
           payload == join.payload
           copy == idMap[join.right.tip]
           left == join.left.tip
           inputs == <<left, copy>>
           old == nodes[Target]
           new == nodes'[Target]
<1>2. AppendNode(target, "Join", inputs, payload)
    BY DEF FinishJoin
<1>3. /\ target \in StoreId /\ "Join" \in Kind /\ payload \in AnyPayload
      /\ inputs \in Seq(Nat) /\ left \in 1..Len(old) /\ copy \in 1..Len(old)
      /\ \A k \in 1..Len(inputs) : inputs[k] \in 1..Len(nodes[target])
    BY <1>1, BothSidesMapped DEF Kind
<1>4. /\ Extends(old, new) /\ Len(new) = Len(old) + 1 /\ nextId[target] = Len(old) + 1
      /\ new[nextId[target]].kind = "Join"
      /\ new[nextId[target]].inputs = inputs
  <2> HIDE DEF inputs, payload
  <2>1. /\ Extends(nodes[target], nodes'[target])
        /\ Len(nodes'[target]) = Len(nodes[target]) + 1
        /\ nextId[target] = Len(nodes[target]) + 1
        /\ nodes'[target][nextId[target]].kind = "Join"
        /\ nodes'[target][nextId[target]].inputs = inputs
    <3> HIDE DEF target
    <3> QED
      BY <1>1, <1>2, <1>3, AppendSound
  <2> QED
    BY <2>1
<1>5. /\ Len(old) \in Nat /\ Backwards(old)
    BY <1>1, <1>3, ReadsBackward DEF TypeOK, InputsPrecede
<1>6. Len(new) \in Nat /\ Backwards(new)
  <2>1. TypeOK' /\ InputsPrecede'
    BY <1>1 DEF IInv, StoreSound
  <2> QED
    BY <1>3, <2>1, ReadsBackward DEF TypeOK, InputsPrecede
<1>7. Query(old, copy, Plain) = Query(Source, join.right.tip, Plain)
    BY <1>1, BothSidesMapped, AdoptedQueriesAgree
<1> HIDE DEF old, new, left, copy, target
<1>8. /\ Query(new, left, Plain) = Query(old, left, Plain)
      /\ Query(new, copy, Plain) = Query(old, copy, Plain)
    BY <1>3, <1>4, <1>5, <1>6, BareQueryPersists
<1>9. new[Len(new)].kind = "Join" /\ new[Len(new)].inputs[1] = left
      /\ new[Len(new)].inputs[2] = copy
    BY <1>4
<1>10. /\ new[Len(new)].kind = "Join"
       /\ Query(new, new[Len(new)].inputs[1], Plain) = Query(old, left, Plain)
       /\ Query(new, new[Len(new)].inputs[2], Plain) = Query(Source, join.right.tip, Plain)
    BY <1>7, <1>8, <1>9, Zenon
<1> QED
    BY <1>10, Zenon DEF old, new, left

\* A join of cursors of two stores stands for exactly the two queries it was
\* asked to join, the left one as it was and the right one as adopted.
THEOREM JoinsMeanBothSides == Spec => JoinMeansBothSides
<1> DEFINE Reads == LET ns == nodes'[Target]
                        made == ns[Len(ns)]
                    IN  /\ made.kind = "Join"
                        /\ Query(ns, made.inputs[1], Plain)
                           = Query(nodes[Target], join.left.tip, Plain)
                        /\ Query(ns, made.inputs[2], Plain)
                           = Query(Source, join.right.tip, Plain)
<1>1. IInv /\ [Next]_vars => [~Idle /\ join' = NoJoin => Reads]_vars
  <2> SUFFICES ASSUME IInv, [Next]_vars, ~Idle, join' = NoJoin
               PROVE  Reads
    OBVIOUS
  <2>1. FinishJoin
    BY DEF Next, NamedTable, NamedTableRefused, Allocate, DeriveStep, Derive, Filter, WithColumn,
       Select, GroupBy, Agg, OrderBy, Limit, Generate, WithWindowColumn, JoinStep, JoinSameStore,
       BeginAdoption, AdoptStep, AdoptReuse, AdoptCopy, Idle, vars, adoptVars
  <2> HIDE DEF Reads
  <2> QED
    BY <2>1, FinishedJoinReadsBoth DEF Reads
<1> QED
    BY Inductive, <1>1, PTL DEF Spec, JoinMeansBothSides

-----------------------------------------------------------------------------
(* What the rewrite proofs speak of.                                       *)

\* A list of nodes whose payloads may be anything.
Fields == {"id", "kind", "inputs", "payload"}

NodeList(ns) ==
    /\ IsList(ns)
    /\ \A i \in 1..Len(ns) :
          ns[i].kind \in Kind /\ ns[i].inputs \in Seq(Nat) /\ Fields \subseteq DOMAIN ns[i]

\* append_node checks it, and the rewrite relies on it.
HasArity(kind, inputs) ==
    /\ kind \in UnaryKind => Len(inputs) = 1
    /\ kind = "Join" => Len(inputs) = 2

Arity(ns) == \A i \in 1..Len(ns) : HasArity(ns[i].kind, ns[i].inputs)

\* The list new is w with e appended.
Appended(w, e, new) ==
    /\ IsList(new)
    /\ Len(new) = Len(w) + 1
    /\ new[Len(w) + 1] = e
    /\ \A i \in 1..Len(w) : new[i] = w[i]

\* No rule would apply to a node of this kind, inputs and payload over ns.
NodeCanonical(ns, kind, inputs, payload) ==
    /\ ~(kind = "Filter" /\ payload.predicate = TrueLiteral)
    /\ kind \in {"Limit", "Project", "OrderBy"} => ns[inputs[1]].kind # kind
    /\ kind = "Window" =>
          /\ IsList(payload.windows)
          /\ ns[inputs[1]].kind = "Window" =>
                ~ShareBoundary(ns[inputs[1]].payload.windows, payload.windows)

Canonical(ns) ==
    \A i \in 1..Len(ns) : NodeCanonical(ns, ns[i].kind, ns[i].inputs, ns[i].payload)

\* The list ns and the origins os that stand for some of the authored nodes done.
Emitted(A, done, ns, os) ==
    /\ NodeList(ns) /\ WellFormed(ns) /\ Arity(ns) /\ Canonical(ns)
    /\ os \in Seq(Nat) /\ Len(os) = Len(ns)
    /\ \A k \in 1..Len(os) :
          /\ os[k] \in done
          /\ ns[k].kind = A[os[k]].kind
          /\ \A j \in 1..(k - 1) : os[j] < os[k]

-----------------------------------------------------------------------------
(* Node lists.                                                             *)

LEMMA ListFacts ==
    ASSUME NEW ns, NodeList(ns)
    PROVE  /\ Len(ns) \in Nat
           /\ \A i \in 1..Len(ns) :
                 /\ ns[i].kind \in Kind /\ ns[i].inputs \in Seq(Nat)
                 /\ Fields \subseteq DOMAIN ns[i]
BY DEF NodeList, IsList

LEMMA AppendIsAppended ==
    ASSUME NEW w, IsList(w), NEW e
    PROVE  Appended(w, e, Append(w, e))
<1>1. PICK S : w \in Seq(S)
  BY DEF IsList
<1> DEFINE T == S \cup {e}
<1>2. w \in Seq(T) /\ e \in T
  <2>1. w = [i \in 1..Len(w) |-> w[i]] /\ Len(w) \in Nat
    BY <1>1
  <2>2. \A i \in 1..Len(w) : w[i] \in T
    BY <1>1
  <2> QED
    BY <2>1, <2>2
<1> HIDE DEF T
<1> DEFINE new == Append(w, e)
<1>3. /\ new \in Seq(T) /\ Len(w) \in Nat
      /\ Len(new) = Len(w) + 1
      /\ new[Len(w) + 1] = e
      /\ \A i \in 1..Len(w) : new[i] = w[i]
  BY <1>2
<1> HIDE DEF new
<1>4. Appended(w, e, new)
  BY <1>3 DEF IsList, Appended
<1> QED
  BY <1>4 DEF new

LEMMA ListAppend ==
    ASSUME NEW ns, NodeList(ns), NEW n, n.kind \in Kind, n.inputs \in Seq(Nat),
           Fields \subseteq DOMAIN n, NEW new, Appended(ns, n, new)
    PROVE  NodeList(new)
BY ListFacts DEF NodeList, Appended

LEMMA InputsExist ==
    ASSUME NEW ns, NodeList(ns), WellFormed(ns), NEW i \in 1..Len(ns),
           NEW k \in 1..Len(ns[i].inputs)
    PROVE  ns[i].inputs[k] \in 1..(i - 1) /\ ns[i].inputs[k] \in 1..Len(ns)
<1>1. Len(ns) \in Nat
  BY ListFacts
<1>2. ns[i].inputs[k] \in Inputs(ns[i])
  BY DEF Inputs
<1>3. ns[i].inputs[k] \in 1..(i - 1)
  BY <1>2 DEF WellFormed
<1> QED
  BY <1>1, <1>3

\* Appending a node that reads nodes of the list.
LEMMA AppendWellFormed ==
    ASSUME NEW ns, NodeList(ns), WellFormed(ns), NEW n, n.id = Len(ns) + 1,
           \A k \in 1..Len(n.inputs) : n.inputs[k] \in 1..Len(ns),
           NEW new, Appended(ns, n, new)
    PROVE  WellFormed(new)
<1>1. Len(ns) \in Nat
  BY ListFacts
<1> SUFFICES ASSUME NEW i \in 1..Len(new)
             PROVE  new[i].id = i /\ Inputs(new[i]) \subseteq 1..(i - 1)
  BY DEF WellFormed
<1>2. CASE i = Len(ns) + 1
  BY <1>1, <1>2 DEF Inputs, Appended
<1>3. CASE i \in 1..Len(ns)
  BY <1>1, <1>3 DEF WellFormed, Appended
<1> QED
  BY <1>1, <1>2, <1>3 DEF Appended

LEMMA AppendArity ==
    ASSUME NEW ns, NodeList(ns), Arity(ns), NEW n,
           HasArity(n.kind, n.inputs),
           NEW new, Appended(ns, n, new)
    PROVE  Arity(new)
<1>1. Len(ns) \in Nat
  BY ListFacts
<1> SUFFICES ASSUME NEW i \in 1..Len(new)
             PROVE  HasArity(new[i].kind, new[i].inputs)
  BY DEF Arity
<1>2. CASE i = Len(ns) + 1
  BY <1>1, <1>2 DEF Appended
<1>3. CASE i \in 1..Len(ns)
  BY <1>1, <1>3 DEF Arity, Appended
<1> QED
  BY <1>1, <1>2, <1>3 DEF Appended

\* Whether a node is canonical depends on the node it reads first.
LEMMA CanonicalOver ==
    ASSUME NEW ns, NEW new, NEW kind, NEW inputs, NEW payload,
           NodeCanonical(ns, kind, inputs, payload),
           kind \in UnaryKind => new[inputs[1]] = ns[inputs[1]]
    PROVE  NodeCanonical(new, kind, inputs, payload)
BY DEF NodeCanonical, UnaryKind

LEMMA AppendCanonical ==
    ASSUME NEW ns, NodeList(ns), WellFormed(ns), Arity(ns), Canonical(ns), NEW n,
           \A k \in 1..Len(n.inputs) : n.inputs[k] \in 1..Len(ns),
           HasArity(n.kind, n.inputs),
           NodeCanonical(ns, n.kind, n.inputs, n.payload),
           NEW new, Appended(ns, n, new)
    PROVE  Canonical(new)
<1>1. /\ Len(ns) \in Nat
      /\ Len(new) = Len(ns) + 1
      /\ new[Len(ns) + 1] = n
      /\ \A i \in 1..Len(ns) : new[i] = ns[i]
  BY ListFacts DEF Appended
<1> SUFFICES ASSUME NEW i \in 1..Len(new)
             PROVE  NodeCanonical(new, new[i].kind, new[i].inputs, new[i].payload)
  BY DEF Canonical
<1>2. CASE i = Len(ns) + 1
  <2>1. n.kind \in UnaryKind => new[n.inputs[1]] = ns[n.inputs[1]]
    BY <1>1 DEF HasArity
  <2>2. NodeCanonical(new, n.kind, n.inputs, n.payload)
    BY <2>1, CanonicalOver
  <2> QED
    BY <1>1, <1>2, <2>2
<1>3. CASE i \in 1..Len(ns)
  <2>1. new[i] = ns[i]
    BY <1>1, <1>3
  <2>2. ns[i].kind \in UnaryKind => ns[i].inputs[1] \in 1..Len(ns)
    BY <1>3, InputsExist DEF Arity, HasArity
  <2>3. ns[i].kind \in UnaryKind => new[ns[i].inputs[1]] = ns[ns[i].inputs[1]]
    BY <1>1, <2>2
  <2>4. NodeCanonical(ns, ns[i].kind, ns[i].inputs, ns[i].payload)
    BY <1>3 DEF Canonical
  <2>5. NodeCanonical(new, ns[i].kind, ns[i].inputs, ns[i].payload)
    BY <2>3, <2>4, CanonicalOver
  <2> QED
    BY <2>1, <2>5
<1> QED
  BY <1>1, <1>2, <1>3

-----------------------------------------------------------------------------
(* Walking a list.  Both loops visit what a root reaches, in list order.   *)

LEMMA WalkClosed ==
    ASSUME NEW ns, NodeList(ns), WellFormed(ns), NEW root \in 1..Len(ns)
    PROVE  /\ root \in Reachable(ns, root)
           /\ Reachable(ns, root) \subseteq 1..Len(ns)
           /\ InputClosed(ns, Reachable(ns, root))
<1>1. root \in Reachable(ns, root) /\ Reachable(ns, root) \subseteq 1..Len(ns)
  BY DEF Reachable
<1>2. ASSUME NEW j \in Reachable(ns, root), NEW i \in Inputs(ns[j])
      PROVE  i \in Reachable(ns, root)
  <2>1. j \in 1..Len(ns) /\ Len(ns) \in Nat
    BY <1>1, ListFacts
  <2>2. i \in 1..Len(ns)
    <3>1. i \in 1..(j - 1)
      BY <2>1 DEF WellFormed
    <3> QED
      BY <2>1, <3>1
  <2>3. ASSUME NEW C \in SUBSET (1..Len(ns)), root \in C, InputClosed(ns, C)
        PROVE  i \in C
    <3>1. j \in C
      BY <2>3 DEF Reachable
    <3> QED
      BY <2>3, <3>1 DEF InputClosed
  <2> QED
    BY <2>2, <2>3 DEF Reachable
<1> QED
  BY <1>1, <1>2 DEF InputClosed

\* What is left to visit comes after what was visited.
Ordered(live, rest) ==
    /\ rest \subseteq live
    /\ \A x \in rest : \A y \in live \ rest : y < x

\* What was visited is closed under inputs.
LEMMA VisitedClosed ==
    ASSUME NEW ns, NodeList(ns), WellFormed(ns),
           NEW live, live \subseteq 1..Len(ns), InputClosed(ns, live),
           NEW rest, Ordered(live, rest), NEW y \in live \ rest,
           NEW k \in 1..Len(ns[y].inputs)
    PROVE  ns[y].inputs[k] \in live \ rest
<1>1. y \in 1..Len(ns) /\ Len(ns) \in Nat
  BY ListFacts
<1>2. ns[y].inputs[k] \in 1..(y - 1)
  BY <1>1, InputsExist
<1>3. ns[y].inputs[k] \in live
  BY DEF InputClosed, Inputs
<1>4. ns[y].inputs[k] \in rest => y < ns[y].inputs[k]
  BY DEF Ordered
<1>5. y \in Nat /\ ns[y].inputs[k] \in Nat /\ ns[y].inputs[k] < y
  BY <1>1, <1>2
<1> QED
  BY <1>3, <1>4, <1>5

LEMMA NextReady ==
    ASSUME NEW ns, NodeList(ns), WellFormed(ns),
           NEW live, live \subseteq 1..Len(ns), InputClosed(ns, live),
           NEW rest, Ordered(live, rest), NEW x \in rest, \A y \in rest : x <= y
    PROVE  /\ x \in 1..Len(ns) /\ x \in Nat /\ x \notin live \ rest
           /\ \A k \in 1..Len(ns[x].inputs) : ns[x].inputs[k] \in live \ rest
           /\ \A y \in live \ rest :
                 /\ y \in 1..Len(ns) /\ y \in Nat /\ y < x
                 /\ \A k \in 1..Len(ns[y].inputs) : ns[y].inputs[k] \in live \ rest
           /\ Ordered(live, rest \ {x})
           /\ live \ (rest \ {x}) = (live \ rest) \cup {x}
<1> DEFINE done == live \ rest
<1>1. live \subseteq 1..Len(ns) /\ InputClosed(ns, live) /\ Len(ns) \in Nat
  BY ListFacts
<1>2. x \in live /\ x \in 1..Len(ns) /\ x \in Nat
  BY <1>1 DEF Ordered
<1>3. ASSUME NEW y \in live, y = x \/ y \in done, NEW k \in 1..Len(ns[y].inputs)
      PROVE  ns[y].inputs[k] \in done
  <2>1. y \in 1..Len(ns) /\ ns[y].inputs[k] \in live
    BY <1>1 DEF InputClosed, Inputs
  <2>2. ns[y].inputs[k] \in 1..(y - 1)
    BY <2>1, InputsExist
  <2>3. y <= x
    BY <1>1, <1>2, <1>3, <2>1 DEF Ordered
  <2>4. ns[y].inputs[k] < x /\ ns[y].inputs[k] \in Nat
    BY <1>2, <2>1, <2>2, <2>3
  <2>5. ns[y].inputs[k] \notin rest
    BY <1>2, <2>4
  <2> QED
    BY <2>1, <2>5
<1>4. \A y \in done : y \in 1..Len(ns) /\ y \in Nat /\ y < x
  BY <1>1 DEF Ordered
<1>5. Ordered(live, rest \ {x})
  <2>1. ASSUME NEW z \in rest \ {x}, NEW y \in live \ (rest \ {x})
        PROVE  y < z
    <3>1. z \in Nat /\ x < z
      BY <1>1, <1>2 DEF Ordered
    <3>2. y = x \/ y \in done
      OBVIOUS
    <3> QED
      BY <1>2, <1>4, <3>1, <3>2
  <2> QED
    BY <2>1 DEF Ordered
<1> QED
  BY <1>2, <1>3, <1>4, <1>5

-----------------------------------------------------------------------------
(* One iteration of the first loop.                                        *)

\* The id table m of the authored nodes A, of which done were visited.
DraftMap(A, done, m, ns, os) ==
    /\ m \in Seq(Nat) /\ Len(m) = Len(A)
    /\ \A x \in 1..Len(m) : IF x \in done THEN m[x] \in 1..Len(ns) ELSE m[x] = 0
    /\ \A x \in done : IF Erased(A, x) THEN m[x] = m[A[x].inputs[1]] ELSE os[m[x]] = x

LEMMA EmitKeeps ==
    ASSUME NEW A, NEW done, NEW ns, NEW os, Emitted(A, done, ns, os),
           NEW x \in Nat, \A y \in done : y \in Nat /\ y < x,
           NEW n, Fields \subseteq DOMAIN n,
           n.id = Len(ns) + 1, n.kind = A[x].kind, n.kind \in Kind, n.inputs \in Seq(Nat),
           \A k \in 1..Len(n.inputs) : n.inputs[k] \in 1..Len(ns),
           HasArity(n.kind, n.inputs),
           NodeCanonical(ns, n.kind, n.inputs, n.payload),
           NEW new, Appended(ns, n, new),
           NEW osnew, osnew = Append(os, x)
    PROVE  Emitted(A, done \cup {x}, new, osnew)
<1>1. NodeList(ns) /\ WellFormed(ns) /\ Arity(ns) /\ Canonical(ns)
  BY DEF Emitted
<1>2. NodeList(new)
  BY <1>1, ListAppend
<1>3. WellFormed(new)
  BY <1>1, AppendWellFormed
<1>4. Arity(new)
  BY <1>1, AppendArity
<1>5. Canonical(new)
  BY <1>1, AppendCanonical
<1>6. /\ Len(ns) \in Nat /\ Len(os) = Len(ns)
      /\ osnew \in Seq(Nat) /\ Len(osnew) = Len(os) + 1
      /\ osnew[Len(os) + 1] = x
      /\ \A k \in 1..Len(os) : osnew[k] = os[k]
  BY <1>1, ListFacts DEF Emitted
<1>7. /\ Len(new) = Len(ns) + 1
      /\ new[Len(ns) + 1].kind = A[x].kind
      /\ \A i \in 1..Len(ns) : new[i] = ns[i]
  BY DEF Appended
<1>8. ASSUME NEW k \in 1..Len(osnew)
      PROVE  /\ osnew[k] \in done \cup {x}
             /\ new[k].kind = A[osnew[k]].kind
             /\ \A j \in 1..(k - 1) : osnew[j] < osnew[k]
  <2>1. CASE k = Len(os) + 1
    <3>1. \A j \in 1..(k - 1) : j \in 1..Len(os) /\ osnew[j] \in done
      BY <1>6, <2>1 DEF Emitted
    <3> QED
      BY <1>6, <1>7, <2>1, <3>1
  <2>2. CASE k \in 1..Len(os)
    BY <1>6, <1>7, <2>2 DEF Emitted
  <2> QED
    BY <1>6, <2>1, <2>2
<1> QED
  BY <1>2, <1>3, <1>4, <1>5, <1>6, <1>7, <1>8 DEF Emitted

LEMMA EmitMaps ==
    ASSUME NEW A, NEW done, NEW m, NEW ns, NEW os, Len(ns) \in Nat,
           os \in Seq(Nat), Len(os) = Len(ns), DraftMap(A, done, m, ns, os),
           NEW x \in 1..Len(A), x \notin done, done \subseteq 1..Len(A),
           \A y \in done : Erased(A, y) => A[y].inputs[1] \in done,
           ~Erased(A, x),
           NEW new, Len(new) = Len(ns) + 1,
           NEW osnew, osnew = Append(os, x), x \in Nat,
           NEW mnew, mnew = [m EXCEPT ![x] = Len(ns) + 1]
    PROVE  DraftMap(A, done \cup {x}, mnew, new, osnew)
<1>1. m \in Seq(Nat) /\ Len(m) = Len(A)
  BY DEF DraftMap
<1>2. /\ mnew \in Seq(Nat) /\ Len(mnew) = Len(A)
      /\ \A y \in 1..Len(A) : mnew[y] = IF y = x THEN Len(ns) + 1 ELSE m[y]
  BY <1>1
<1>3. /\ osnew[Len(ns) + 1] = x
      /\ \A k \in 1..Len(ns) : osnew[k] = os[k]
  OBVIOUS
<1>4. ASSUME NEW y \in 1..Len(mnew)
      PROVE  IF y \in done \cup {x} THEN mnew[y] \in 1..Len(new) ELSE mnew[y] = 0
  BY <1>1, <1>2 DEF DraftMap
<1>5. ASSUME NEW y \in done \cup {x}
      PROVE  IF Erased(A, y) THEN mnew[y] = mnew[A[y].inputs[1]] ELSE osnew[mnew[y]] = y
  <2>1. CASE y = x
    BY <1>2, <1>3, <2>1
  <2>2. CASE y \in done
    <3>1. y # x /\ mnew[y] = m[y] /\ m[y] \in 1..Len(ns)
      BY <1>1, <1>2, <2>2 DEF DraftMap
    <3>2. CASE Erased(A, y)
      <4>1. A[y].inputs[1] \in done
        BY <2>2, <3>2
      <4>2. mnew[A[y].inputs[1]] = m[A[y].inputs[1]]
        BY <1>2, <4>1
      <4> QED
        BY <2>2, <3>1, <3>2, <4>2 DEF DraftMap
    <3>3. CASE ~Erased(A, y)
      BY <1>3, <2>2, <3>1, <3>3 DEF DraftMap
    <3> QED
      BY <3>2, <3>3
  <2> QED
    BY <2>1, <2>2
<1> QED
  BY <1>2, <1>4, <1>5 DEF DraftMap

LEMMA EraseMaps ==
    ASSUME NEW A, NEW done, NEW m, NEW ns, NEW os, Len(ns) \in Nat,
           DraftMap(A, done, m, ns, os),
           NEW x \in 1..Len(A), x \notin done, done \subseteq 1..Len(A),
           \A y \in done \cup {x} : Erased(A, y) => A[y].inputs[1] \in done,
           Erased(A, x),
           NEW mnew, mnew = [m EXCEPT ![x] = m[A[x].inputs[1]]]
    PROVE  DraftMap(A, done \cup {x}, mnew, ns, os)
<1>1. m \in Seq(Nat) /\ Len(m) = Len(A)
  BY DEF DraftMap
<1>2. A[x].inputs[1] \in done /\ A[x].inputs[1] \in 1..Len(A)
  OBVIOUS
<1>3. m[A[x].inputs[1]] \in 1..Len(ns) /\ m[A[x].inputs[1]] \in Nat
  BY <1>1, <1>2 DEF DraftMap
<1>4. /\ mnew \in Seq(Nat) /\ Len(mnew) = Len(A)
      /\ \A y \in 1..Len(A) : mnew[y] = IF y = x THEN m[A[x].inputs[1]] ELSE m[y]
  BY <1>1, <1>3
<1>5. ASSUME NEW y \in 1..Len(mnew)
      PROVE  IF y \in done \cup {x} THEN mnew[y] \in 1..Len(ns) ELSE mnew[y] = 0
  BY <1>1, <1>3, <1>4 DEF DraftMap
<1>6. ASSUME NEW y \in done \cup {x}
      PROVE  IF Erased(A, y) THEN mnew[y] = mnew[A[y].inputs[1]] ELSE os[mnew[y]] = y
  <2>1. Erased(A, y) => mnew[A[y].inputs[1]] = m[A[y].inputs[1]]
    BY <1>4
  <2>2. CASE y = x
    BY <1>4, <2>1, <2>2
  <2>3. CASE y \in done
    <3>1. mnew[y] = m[y]
      BY <1>4, <2>3
    <3> QED
      BY <2>1, <2>3, <3>1 DEF DraftMap
  <2> QED
    BY <2>2, <2>3
<1> QED
  BY <1>4, <1>5, <1>6 DEF DraftMap

\* A store that append_node filled, and a tip in it.
Authored(A, tip) ==
    /\ NodeList(A) /\ WellFormed(A) /\ Arity(A)
    /\ tip \in 1..Len(A)
    /\ \A i \in 1..Len(A) : IsList(A[i].payload.windows)

\* The invariant of the first loop, with the ids rest still to visit.
Rewriting(A, tip, rest, m, ns, os) ==
    /\ Ordered(Reachable(A, tip), rest)
    /\ Emitted(A, Reachable(A, tip) \ rest, ns, os)
    /\ DraftMap(A, Reachable(A, tip) \ rest, m, ns, os)

\* Whose turn it is has inputs that were visited.
LEMMA TurnFacts ==
    ASSUME NEW A, NEW tip, Authored(A, tip), NEW rest, NEW m, NEW ns, NEW os,
           Rewriting(A, tip, rest, m, ns, os), NEW x \in rest, \A y \in rest : x <= y,
           NEW read, read = Remap(A[x].inputs, m)
    PROVE  /\ x \in 1..Len(A) /\ x \in Nat
           /\ A[x].kind \in Kind /\ IsList(A[x].payload.windows)
           /\ Len(ns) \in Nat /\ NodeList(ns) /\ WellFormed(ns) /\ Arity(ns) /\ Canonical(ns)
           /\ read \in Seq(Nat) /\ Len(read) = Len(A[x].inputs)
           /\ \A k \in 1..Len(read) : read[k] \in 1..Len(ns)
           /\ HasArity(A[x].kind, read)
           /\ A[x].kind \in UnaryKind => Len(read) = 1 /\ read[1] = m[A[x].inputs[1]]
<1> DEFINE live == Reachable(A, tip)
           done == live \ rest
<1>1. NodeList(A) /\ WellFormed(A) /\ Arity(A) /\ tip \in 1..Len(A) /\ Ordered(live, rest)
  BY DEF Authored, Rewriting
<1> HIDE DEF live
<1>2. /\ x \in 1..Len(A) /\ x \in Nat
      /\ \A k \in 1..Len(A[x].inputs) : A[x].inputs[k] \in done
      /\ \A y \in done : y \in 1..Len(A)
  <2>1. live \subseteq 1..Len(A) /\ InputClosed(A, live)
    BY <1>1, WalkClosed DEF live
  <2> QED
    BY <1>1, <2>1, NextReady
<1>3. NodeList(ns) /\ WellFormed(ns) /\ Arity(ns) /\ Canonical(ns)
  BY DEF Rewriting, Emitted
<1>4. Len(ns) \in Nat
  BY <1>3, ListFacts
<1>5. A[x].kind \in Kind /\ A[x].inputs \in Seq(Nat)
  BY <1>1, <1>2, ListFacts
<1>6. ASSUME NEW k \in 1..Len(A[x].inputs)
      PROVE  m[A[x].inputs[k]] \in 1..Len(ns)
  <2>1. DraftMap(A, done, m, ns, os)
    BY DEF Rewriting, live
  <2> HIDE DEF done
  <2> QED
    BY <1>2, <2>1 DEF DraftMap
<1>7. /\ Len(A[x].inputs) \in Nat
      /\ read = [k \in 1..Len(A[x].inputs) |-> m[A[x].inputs[k]]]
  BY <1>5 DEF Remap
<1>8. read \in Seq(Nat) /\ Len(read) = Len(A[x].inputs)
  BY <1>4, <1>6, <1>7
<1>9. \A k \in 1..Len(read) : read[k] = m[A[x].inputs[k]]
  BY <1>7, <1>8
<1>10. HasArity(A[x].kind, A[x].inputs)
  BY <1>1, <1>2 DEF Arity
<1>11. IsList(A[x].payload.windows)
  BY <1>2 DEF Authored
<1>12. \A k \in 1..Len(read) : read[k] \in 1..Len(ns)
  BY <1>6, <1>8, <1>9
<1>13. /\ HasArity(A[x].kind, read)
       /\ A[x].kind \in UnaryKind => Len(read) = 1 /\ read[1] = m[A[x].inputs[1]]
  BY <1>8, <1>9, <1>10 DEF HasArity
<1> QED
  BY <1>2, <1>3, <1>4, <1>5, <1>8, <1>11, <1>12, <1>13, Zenon

LEMMA EmitStep ==
    ASSUME NEW A, NEW tip, Authored(A, tip), NEW rest, NEW m, NEW ns, NEW os,
           Rewriting(A, tip, rest, m, ns, os), NEW x \in rest, \A y \in rest : x <= y,
           ~Erased(A, x), NEW n, Fields \subseteq DOMAIN n,
           n.id = Len(ns) + 1, n.kind = A[x].kind, n.inputs \in Seq(Nat),
           \A k \in 1..Len(n.inputs) : n.inputs[k] \in 1..Len(ns),
           HasArity(n.kind, n.inputs),
           NodeCanonical(ns, n.kind, n.inputs, n.payload),
           NEW new, Appended(ns, n, new),
           NEW osnew, osnew = Append(os, x),
           NEW mnew, mnew = [m EXCEPT ![x] = Len(ns) + 1]
    PROVE  Rewriting(A, tip, rest \ {x}, mnew, new, osnew)
<1> DEFINE live == Reachable(A, tip)
           done == live \ rest
<1>1. NodeList(A) /\ WellFormed(A) /\ Arity(A) /\ tip \in 1..Len(A)
  BY DEF Authored
<1>2. Ordered(live, rest) /\ Emitted(A, done, ns, os) /\ DraftMap(A, done, m, ns, os)
  BY DEF Rewriting
<1>3. live \subseteq 1..Len(A) /\ InputClosed(A, live)
  BY <1>1, WalkClosed
<1> HIDE DEF live
<1>4. x \in 1..Len(A) /\ x \in Nat /\ x \notin done
  BY <1>1, <1>2, <1>3, NextReady
<1>5. ASSUME NEW y \in done
      PROVE  y \in 1..Len(A) /\ y \in Nat /\ y < x
  BY <1>1, <1>2, <1>3, ListFacts DEF Ordered
<1>6. ASSUME NEW y \in done, NEW k \in 1..Len(A[y].inputs)
      PROVE  A[y].inputs[k] \in done
  BY <1>1, <1>2, <1>3, VisitedClosed
<1>7. Ordered(live, rest \ {x})
  BY <1>1, <1>2, <1>3, NextReady, Zenon
<1>8. live \ (rest \ {x}) = done \cup {x}
  BY <1>2 DEF Ordered
<1> HIDE DEF done
<1>9. n.kind \in Kind
  BY <1>1, <1>4, ListFacts
<1>10. Emitted(A, done \cup {x}, new, osnew)
  BY <1>2, <1>4, <1>5, <1>9, EmitKeeps
<1>11. /\ Len(ns) \in Nat /\ os \in Seq(Nat) /\ Len(os) = Len(ns)
       /\ Len(new) = Len(ns) + 1
  BY <1>2, ListFacts DEF Emitted, Appended
<1>12. \A y \in done : Erased(A, y) => A[y].inputs[1] \in done
  BY <1>1, <1>5, <1>6 DEF Erased, Arity, HasArity, UnaryKind
<1>13. done \subseteq 1..Len(A)
  BY <1>5
<1>14. DraftMap(A, done \cup {x}, mnew, new, osnew)
  BY <1>2, <1>4, <1>11, <1>12, <1>13, EmitMaps
<1> QED
  BY <1>7, <1>8, <1>10, <1>14 DEF Rewriting, live

LEMMA EraseStep ==
    ASSUME NEW A, NEW tip, Authored(A, tip), NEW rest, NEW m, NEW ns, NEW os,
           Rewriting(A, tip, rest, m, ns, os), NEW x \in rest, \A y \in rest : x <= y,
           Erased(A, x),
           NEW mnew, mnew = [m EXCEPT ![x] = Remap(A[x].inputs, m)[1]]
    PROVE  Rewriting(A, tip, rest \ {x}, mnew, ns, os)
<1> DEFINE live == Reachable(A, tip)
           done == live \ rest
<1>1. NodeList(A) /\ WellFormed(A) /\ Arity(A) /\ tip \in 1..Len(A)
  BY DEF Authored
<1>2. Ordered(live, rest) /\ Emitted(A, done, ns, os) /\ DraftMap(A, done, m, ns, os)
  BY DEF Rewriting
<1>3. live \subseteq 1..Len(A) /\ InputClosed(A, live)
  BY <1>1, WalkClosed
<1>4. Remap(A[x].inputs, m)[1] = m[A[x].inputs[1]]
  BY TurnFacts DEF Erased, UnaryKind
<1> HIDE DEF live
<1>5. /\ x \in 1..Len(A) /\ x \notin done
      /\ \A k \in 1..Len(A[x].inputs) : A[x].inputs[k] \in done
  BY <1>1, <1>2, <1>3, NextReady
<1>6. \A y \in done : y \in 1..Len(A)
  BY <1>3
<1>7. ASSUME NEW y \in done, NEW k \in 1..Len(A[y].inputs)
      PROVE  A[y].inputs[k] \in done
  BY <1>1, <1>2, <1>3, VisitedClosed
<1>8. Ordered(live, rest \ {x})
  BY <1>1, <1>2, <1>3, NextReady, Zenon
<1>9. live \ (rest \ {x}) = done \cup {x}
  BY <1>2 DEF Ordered
<1> HIDE DEF done
<1>10. Emitted(A, done \cup {x}, ns, os)
  BY <1>2 DEF Emitted
<1>11. Len(ns) \in Nat
  BY <1>2, ListFacts DEF Emitted
<1>12. \A y \in done \cup {x} : Erased(A, y) => A[y].inputs[1] \in done
  BY <1>1, <1>5, <1>6, <1>7 DEF Erased, Arity, HasArity, UnaryKind
<1>13. done \subseteq 1..Len(A)
  BY <1>6
<1>14. DraftMap(A, done \cup {x}, mnew, ns, os)
  BY <1>2, <1>4, <1>5, <1>11, <1>12, <1>13, EraseMaps
<1> QED
  BY <1>8, <1>9, <1>10, <1>14 DEF Rewriting, live

\* EmitStep for the record that Emit appends.
LEMMA EmitRecord ==
    ASSUME NEW A, NEW tip, Authored(A, tip), NEW rest, NEW m, NEW ns, NEW os,
           Rewriting(A, tip, rest, m, ns, os), NEW x \in rest, \A y \in rest : x <= y,
           ~Erased(A, x), NEW inputs \in Seq(Nat), NEW payload,
           \A k \in 1..Len(inputs) : inputs[k] \in 1..Len(ns),
           HasArity(A[x].kind, inputs),
           NodeCanonical(ns, A[x].kind, inputs, payload)
    PROVE  Rewriting(A, tip, rest \ {x}, [m EXCEPT ![x] = Len(ns) + 1],
                     Append(ns, [id |-> Len(ns) + 1, kind |-> A[x].kind,
                                 inputs |-> inputs, payload |-> payload]),
                     Append(os, x))
<1> DEFINE n == [id |-> Len(ns) + 1, kind |-> A[x].kind,
                 inputs |-> inputs, payload |-> payload]
           new == Append(ns, n)
           osnew == Append(os, x)
           mnew == [m EXCEPT ![x] = Len(ns) + 1]
<1>1. n.id = Len(ns) + 1 /\ n.kind = A[x].kind /\ n.inputs = inputs /\ n.payload = payload
      /\ Fields \subseteq DOMAIN n
  BY DEF Fields
<1>2. osnew = Append(os, x) /\ mnew = [m EXCEPT ![x] = Len(ns) + 1] /\ new = Append(ns, n)
  OBVIOUS
<1>3. IsList(ns)
  BY DEF Rewriting, Emitted, NodeList
<1> HIDE DEF n, new, osnew, mnew
<1>4. Appended(ns, n, new)
  <2>1. Appended(ns, n, Append(ns, n))
    BY <1>3, AppendIsAppended
  <2> QED
    BY <2>1 DEF new
<1>5. Rewriting(A, tip, rest \ {x}, mnew, new, osnew)
  BY <1>1, <1>2, <1>4, EmitStep
<1> QED
  BY <1>5 DEF n, new, osnew, mnew

LEMMA ConcatIsList ==
    ASSUME NEW v, NEW w, IsList(v), IsList(w)
    PROVE  /\ IsList(v \o w) /\ Len(v) \in Nat /\ Len(w) \in Nat
           /\ Len(v \o w) = Len(v) + Len(w)
           /\ \A k \in 1..Len(v) : (v \o w)[k] = v[k]
<1>1. PICK S : v \in Seq(S)
  BY DEF IsList
<1>2. PICK T : w \in Seq(T)
  BY DEF IsList
<1> DEFINE U == S \cup T
<1>3. v \in Seq(U) /\ w \in Seq(U)
  <2>1. /\ v = [i \in 1..Len(v) |-> v[i]] /\ Len(v) \in Nat
        /\ \A i \in 1..Len(v) : v[i] \in U
    BY <1>1
  <2>2. /\ w = [i \in 1..Len(w) |-> w[i]] /\ Len(w) \in Nat
        /\ \A i \in 1..Len(w) : w[i] \in U
    BY <1>2
  <2> QED
    BY <2>1, <2>2
<1> HIDE DEF U
<1>4. /\ v \o w \in Seq(U) /\ Len(v) \in Nat /\ Len(w) \in Nat
      /\ Len(v \o w) = Len(v) + Len(w)
      /\ \A k \in 1..Len(v) : (v \o w)[k] = v[k]
  BY <1>3
<1> QED
  BY <1>4 DEF IsList

\* Windows that share a boundary with a longer group share it with its start.
LEMMA BoundaryOfStart ==
    ASSUME NEW g, NEW v, NEW w, IsList(v), IsList(w), v # <<>>, ShareBoundary(g, v \o w)
    PROVE  ShareBoundary(g, v)
BY ConcatIsList DEF ShareBoundary

\* A node that takes over its parent's input takes over what it stands on.
LEMMA CollapseCanonical ==
    ASSUME NEW ns, Canonical(ns), NEW p \in 1..Len(ns),
           NEW kind \in {"Limit", "Project", "OrderBy"}, ns[p].kind = kind,
           NEW inputs, inputs[1] = ns[p].inputs[1], NEW payload
    PROVE  NodeCanonical(ns, kind, inputs, payload)
<1>1. ns[ns[p].inputs[1]].kind # kind
  BY DEF Canonical, NodeCanonical
<1> QED
  BY <1>1 DEF NodeCanonical

LEMMA CollapseWindowCanonical ==
    ASSUME NEW ns, Canonical(ns), NEW p \in 1..Len(ns), ns[p].kind = "Window",
           NEW ws, IsList(ws), ShareBoundary(ns[p].payload.windows, ws),
           NEW inputs, inputs[1] = ns[p].inputs[1],
           NEW payload, payload.windows = ns[p].payload.windows \o ws
    PROVE  NodeCanonical(ns, "Window", inputs, payload)
<1> DEFINE q == ns[p].inputs[1]
           ps == ns[p].payload.windows
<1>1. /\ IsList(ps)
      /\ ns[q].kind = "Window" => ~ShareBoundary(ns[q].payload.windows, ps)
  BY DEF Canonical, NodeCanonical
<1>2. ps # <<>>
  BY DEF ShareBoundary
<1>3. payload.windows = ps \o ws /\ inputs[1] = q
  OBVIOUS
<1> HIDE DEF q, ps
<1>4. IsList(payload.windows)
  BY <1>1, <1>3, ConcatIsList
<1>5. ns[q].kind = "Window" => ~ShareBoundary(ns[q].payload.windows, payload.windows)
  BY <1>1, <1>2, <1>3, BoundaryOfStart
<1> QED
  BY <1>3, <1>4, <1>5 DEF NodeCanonical

-----------------------------------------------------------------------------
(* The second loop.                                                        *)

\* What the tip has over the origin of the draft's root was erased.
TipExplained(A, tip, os, root) ==
    \A x \in Reachable(A, tip) : x > os[root] => Erased(A, x)

\* The lists vn and vo of the view, with the id table m of the draft ns, os of
\* which the ids done were visited.
KeptNodes(ns, os, done, m, vn, vo) ==
    /\ NodeList(vn) /\ WellFormed(vn)
    /\ vo \in Seq(Nat) /\ Len(vo) = Len(vn)
    /\ m \in Seq(Nat) /\ Len(m) = Len(ns)
    /\ \A x \in done :
          /\ m[x] \in 1..Len(vn)
          /\ vn[m[x]].kind = ns[x].kind
          /\ vn[m[x]].payload = ns[x].payload
          /\ vn[m[x]].inputs = Remap(ns[x].inputs, m)
          /\ vo[m[x]] = os[x]
    /\ \A k \in 1..Len(vn) : \E x \in done : m[x] = k
    /\ \A k \in 1..Len(vn) : \A j \in 1..(k - 1) : vo[j] < vo[k]

\* The invariant of the second loop, with the ids rest still to visit.
Compacting(A, tip, rest, m, ns, os, v) ==
    /\ Emitted(A, Reachable(A, tip), ns, os)
    /\ v.root \in 1..Len(ns) /\ TipExplained(A, tip, os, v.root)
    /\ Ordered(Reachable(ns, v.root), rest)
    /\ KeptNodes(ns, os, Reachable(ns, v.root) \ rest, m, v.nodes, v.origins)

\* The first loop ends with a root for the tip.
LEMMA RewrittenRoot ==
    ASSUME NEW A, NEW tip, Authored(A, tip), NEW m, NEW ns, NEW os,
           Rewriting(A, tip, {}, m, ns, os)
    PROVE  /\ Emitted(A, Reachable(A, tip), ns, os)
           /\ m[tip] \in 1..Len(ns)
           /\ TipExplained(A, tip, os, m[tip])
<1> DEFINE live == Reachable(A, tip)
<1>1. NodeList(A) /\ WellFormed(A) /\ Arity(A) /\ tip \in 1..Len(A)
  BY DEF Authored
<1>2. live \ {} = live
  OBVIOUS
<1>3. Emitted(A, live, ns, os) /\ DraftMap(A, live, m, ns, os)
  BY <1>2 DEF Rewriting
<1>4. tip \in live /\ live \subseteq 1..Len(A) /\ InputClosed(A, live)
  BY <1>1, WalkClosed
<1>5. m[tip] \in 1..Len(ns)
  BY <1>1, <1>3, <1>4 DEF DraftMap
<1> DEFINE r == m[tip]
           o == os[r]
           C == {z \in live : z <= o \/ (Erased(A, z) /\ m[z] = r)}
<1>6. \A z \in live : IF Erased(A, z) THEN m[z] = m[A[z].inputs[1]] ELSE os[m[z]] = z
  BY <1>3 DEF DraftMap
<1>7. o \in Nat
  BY <1>3, <1>5 DEF Emitted
<1>8. tip \in C
  BY <1>1, <1>4, <1>6, ListFacts
<1>9. ASSUME NEW z \in C, NEW k \in 1..Len(A[z].inputs)
      PROVE  A[z].inputs[k] \in C
  <2> DEFINE y == A[z].inputs[k]
  <2>1. z \in 1..Len(A) /\ Len(A) \in Nat
    BY <1>1, <1>4, ListFacts
  <2>2. y \in 1..(z - 1) /\ y \in live
    BY <1>1, <1>4, <2>1, InputsExist DEF InputClosed, Inputs
  <2>3. CASE z <= o
    BY <1>7, <2>1, <2>2, <2>3
  <2>4. CASE Erased(A, z) /\ m[z] = r
    <3>1. k = 1
      <4>1. Len(A[z].inputs) = 1
        BY <1>1, <2>1, <2>4 DEF Erased, Arity, HasArity, UnaryKind
      <4> QED
        BY <4>1
    <3>2. m[y] = r
      BY <1>6, <2>4, <3>1
    <3>3. ~Erased(A, y) => y = o
      BY <1>6, <2>2, <3>2
    <3> QED
      BY <1>7, <2>2, <3>2, <3>3
  <2> QED
    BY <2>3, <2>4
<1>10. InputClosed(A, C)
  BY <1>9 DEF InputClosed, Inputs
<1>11. C \in SUBSET (1..Len(A))
  BY <1>4
<1>12. \A x \in live : x \in C
  BY <1>8, <1>10, <1>11 DEF Reachable
<1>13. ASSUME NEW x \in live, x > o
       PROVE  Erased(A, x)
  <2>1. x \in Nat /\ ~(x <= o)
    BY <1>4, <1>7, <1>13
  <2> QED
    BY <1>12, <2>1
<1> QED
  BY <1>3, <1>5, <1>13 DEF TipExplained

LEMMA CompactionBegins ==
    ASSUME NEW A, NEW tip, Authored(A, tip), NEW m, NEW ns, NEW os,
           Rewriting(A, tip, {}, m, ns, os), NEW v, v.root = m[tip],
           v.nodes = <<>>, v.origins = <<>>
    PROVE  Compacting(A, tip, Reachable(ns, m[tip]), [i \in 1..Len(ns) |-> 0], ns, os, v)
<1> DEFINE live == Reachable(ns, m[tip])
           zeros == [i \in 1..Len(ns) |-> 0]
<1>1. /\ Emitted(A, Reachable(A, tip), ns, os)
      /\ m[tip] \in 1..Len(ns)
      /\ TipExplained(A, tip, os, m[tip])
  BY RewrittenRoot
<1>2. Ordered(live, live)
  BY DEF Ordered
<1>3. Len(ns) \in Nat
  BY <1>1, ListFacts DEF Emitted
<1>4. zeros \in Seq(Nat) /\ Len(zeros) = Len(ns)
  BY <1>3
<1> HIDE DEF zeros
<1>5. NodeList(<<>>) /\ WellFormed(<<>>)
  BY DEF NodeList, IsList, WellFormed
<1>6. live \ live = {}
  OBVIOUS
<1>7. KeptNodes(ns, os, {}, zeros, <<>>, <<>>)
  BY <1>4, <1>5 DEF KeptNodes
<1>8. KeptNodes(ns, os, live \ live, zeros, v.nodes, v.origins)
  BY <1>6, <1>7
<1> QED
  BY <1>1, <1>2, <1>8 DEF Compacting, zeros


LEMMA KeepNode ==
    ASSUME NEW ns, NodeList(ns), NEW os, os \in Seq(Nat), Len(os) = Len(ns),
           \A i \in 1..Len(os) : \A j \in 1..(i - 1) : os[j] < os[i],
           NEW done, NEW m, NEW vn, NEW vo, KeptNodes(ns, os, done, m, vn, vo),
           NEW x \in 1..Len(ns), x \notin done,
           \A y \in done : y \in 1..Len(ns) /\ y < x,
           InputClosed(ns, done),
           \A k \in 1..Len(ns[x].inputs) : ns[x].inputs[k] \in done,
           NEW n, Fields \subseteq DOMAIN n, n.id = Len(vn) + 1, n.kind = ns[x].kind, n.payload = ns[x].payload,
           n.inputs = Remap(ns[x].inputs, m),
           NEW new, Appended(vn, n, new),
           NEW vonew, vonew = Append(vo, os[x]),
           NEW mnew, mnew = [m EXCEPT ![x] = Len(vn) + 1]
    PROVE  KeptNodes(ns, os, done \cup {x}, mnew, new, vonew)
<1>1. /\ NodeList(vn) /\ WellFormed(vn)
      /\ vo \in Seq(Nat) /\ Len(vo) = Len(vn)
      /\ m \in Seq(Nat) /\ Len(m) = Len(ns)
  BY DEF KeptNodes
<1>2. Len(vn) \in Nat /\ Len(ns) \in Nat
  BY <1>1, ListFacts
<1>3. ns[x].kind \in Kind /\ ns[x].inputs \in Seq(Nat)
  BY ListFacts
<1>4. os[x] \in Nat
  OBVIOUS
<1>5. ASSUME NEW k \in 1..Len(ns[x].inputs)
      PROVE  m[ns[x].inputs[k]] \in 1..Len(vn)
  BY DEF KeptNodes
<1>6. /\ n.inputs \in Seq(Nat) /\ Len(n.inputs) = Len(ns[x].inputs)
      /\ \A k \in 1..Len(n.inputs) : n.inputs[k] \in 1..Len(vn)
  <2>1. /\ Len(ns[x].inputs) \in Nat
        /\ n.inputs = [k \in 1..Len(ns[x].inputs) |-> m[ns[x].inputs[k]]]
    BY <1>3 DEF Remap
  <2>2. n.inputs \in Seq(Nat) /\ Len(n.inputs) = Len(ns[x].inputs)
    BY <1>2, <1>5, <2>1
  <2>3. \A k \in 1..Len(n.inputs) : n.inputs[k] = m[ns[x].inputs[k]]
    BY <2>1, <2>2
  <2> QED
    BY <1>5, <2>2, <2>3
<1>7. n.kind \in Kind
  BY <1>3
<1>8. NodeList(new)
  BY <1>1, <1>6, <1>7, ListAppend
<1>9. WellFormed(new)
  BY <1>1, <1>6, AppendWellFormed
<1>10. /\ mnew \in Seq(Nat) /\ Len(mnew) = Len(ns)
       /\ mnew[x] = Len(vn) + 1
       /\ \A y \in done : mnew[y] = m[y]
  BY <1>1, <1>2
<1>11. /\ vonew \in Seq(Nat) /\ Len(vonew) = Len(vo) + 1
       /\ vonew[Len(vo) + 1] = os[x]
       /\ \A k \in 1..Len(vo) : vonew[k] = vo[k]
  BY <1>1, <1>4
<1>12. /\ Len(new) = Len(vn) + 1 /\ new[Len(vn) + 1] = n
       /\ \A k \in 1..Len(vn) : new[k] = vn[k]
  BY DEF Appended
<1>13. ASSUME NEW y \in done \cup {x}
       PROVE  /\ mnew[y] \in 1..Len(new)
              /\ new[mnew[y]].kind = ns[y].kind
              /\ new[mnew[y]].payload = ns[y].payload
              /\ new[mnew[y]].inputs = Remap(ns[y].inputs, mnew)
              /\ vonew[mnew[y]] = os[y]
  <2>1. CASE y = x
    <3>1. \A k \in 1..Len(ns[x].inputs) : m[ns[x].inputs[k]] = mnew[ns[x].inputs[k]]
      BY <1>10
    <3>2. Remap(ns[x].inputs, m) = Remap(ns[x].inputs, mnew)
      BY <3>1 DEF Remap
    <3>3. mnew[x] \in 1..Len(new) /\ vonew[mnew[x]] = os[x]
      BY <1>1, <1>2, <1>10, <1>11, <1>12
    <3>4. new[mnew[x]] = n
      BY <1>10, <1>12
    <3> QED
      BY <2>1, <3>2, <3>3, <3>4
  <2>2. CASE y \in done
    <3>1. ns[y].inputs \in Seq(Nat)
      BY <2>2, ListFacts
    <3>2. \A k \in 1..Len(ns[y].inputs) : ns[y].inputs[k] \in done
      BY <2>2 DEF InputClosed, Inputs
    <3>3. Remap(ns[y].inputs, m) = Remap(ns[y].inputs, mnew)
      <4>1. \A k \in 1..Len(ns[y].inputs) : m[ns[y].inputs[k]] = mnew[ns[y].inputs[k]]
        BY <1>10, <3>2
      <4> QED
        BY <4>1 DEF Remap
    <3>4. /\ m[y] \in 1..Len(vn)
          /\ vn[m[y]].kind = ns[y].kind
          /\ vn[m[y]].payload = ns[y].payload
          /\ vn[m[y]].inputs = Remap(ns[y].inputs, m)
          /\ vo[m[y]] = os[y]
      BY <2>2 DEF KeptNodes
    <3>5. mnew[y] = m[y] /\ mnew[y] \in 1..Len(new)
      BY <1>2, <1>10, <1>12, <2>2, <3>4
    <3>6. new[mnew[y]] = vn[m[y]] /\ vonew[mnew[y]] = vo[m[y]]
      BY <1>1, <1>11, <1>12, <3>4, <3>5
    <3> QED
      BY <3>3, <3>4, <3>5, <3>6
  <2> QED
    BY <2>1, <2>2
<1>14. ASSUME NEW k \in 1..Len(new)
       PROVE  \E y \in done \cup {x} : mnew[y] = k
  <2>1. CASE k = Len(vn) + 1
    BY <1>10, <2>1
  <2>2. CASE k \in 1..Len(vn)
    <3>1. PICK y \in done : m[y] = k
      BY <2>2 DEF KeptNodes
    <3> QED
      BY <1>10, <3>1
  <2> QED
    BY <1>2, <1>12, <2>1, <2>2
<1>15. \A k \in 1..Len(new) : k = Len(vn) + 1 \/ k \in 1..Len(vn)
  BY <1>2, <1>12
<1>16. ASSUME NEW k \in 1..Len(new), NEW j \in 1..(k - 1)
       PROVE  vonew[j] < vonew[k]
  <2>1. j \in 1..Len(vn)
    BY <1>2, <1>12
  <2>2. CASE k = Len(vn) + 1
    <3>1. PICK y \in done : m[y] = j
      BY <2>1 DEF KeptNodes
    <3>2. vo[j] = os[y]
      BY <3>1 DEF KeptNodes
    <3>3. os[y] < os[x]
      <4>1. y \in 1..Len(ns) /\ y < x
        OBVIOUS
      <4>2. y \in 1..(x - 1)
        BY <1>2, <4>1
      <4> QED
        BY <4>2
    <3>4. vonew[k] = os[x] /\ vonew[j] = vo[j]
      BY <1>1, <1>11, <2>1, <2>2
    <3> QED
      BY <3>2, <3>3, <3>4
  <2>3. CASE k \in 1..Len(vn)
    <3>1. vo[j] < vo[k]
      BY <2>3 DEF KeptNodes
    <3>2. vonew[k] = vo[k] /\ vonew[j] = vo[j]
      BY <1>1, <1>11, <2>1, <2>3
    <3> QED
      BY <3>1, <3>2
  <2> QED
    BY <1>15, <2>2, <2>3
<1> QED
  BY <1>1, <1>8, <1>9, <1>10, <1>11, <1>12, <1>13, <1>14, <1>16 DEF KeptNodes

LEMMA CompactStep ==
    ASSUME NEW A, NEW tip, NEW rest, NEW m, NEW ns, NEW os, NEW v,
           Compacting(A, tip, rest, m, ns, os, v), NEW x \in rest, \A y \in rest : x <= y,
           NEW n, Fields \subseteq DOMAIN n, n.id = Len(v.nodes) + 1, n.kind = ns[x].kind,
           n.payload = ns[x].payload, n.inputs = Remap(ns[x].inputs, m),
           NEW w, w.root = v.root, Appended(v.nodes, n, w.nodes),
           w.origins = Append(v.origins, os[x]),
           NEW mnew, mnew = [m EXCEPT ![x] = Len(v.nodes) + 1]
    PROVE  Compacting(A, tip, rest \ {x}, mnew, ns, os, w)
<1> DEFINE live == Reachable(ns, v.root)
           done == live \ rest
<1>1. /\ Emitted(A, Reachable(A, tip), ns, os)
      /\ v.root \in 1..Len(ns) /\ TipExplained(A, tip, os, v.root)
      /\ Ordered(live, rest) /\ KeptNodes(ns, os, done, m, v.nodes, v.origins)
  BY DEF Compacting
<1>2. /\ NodeList(ns) /\ WellFormed(ns)
      /\ os \in Seq(Nat) /\ Len(os) = Len(ns)
      /\ \A i \in 1..Len(os) : \A j \in 1..(i - 1) : os[j] < os[i]
  BY <1>1 DEF Emitted
<1>3. live \subseteq 1..Len(ns) /\ InputClosed(ns, live)
  BY <1>1, <1>2, WalkClosed
<1> HIDE DEF live
<1>4. /\ x \in 1..Len(ns) /\ x \notin done
      /\ \A k \in 1..Len(ns[x].inputs) : ns[x].inputs[k] \in done
  <2>1. /\ x \in 1..Len(ns) /\ x \notin live \ rest
        /\ \A k \in 1..Len(ns[x].inputs) : ns[x].inputs[k] \in live \ rest
    <3>1. NodeList(ns) /\ WellFormed(ns) /\ live \subseteq 1..Len(ns)
          /\ InputClosed(ns, live) /\ Ordered(live, rest)
      BY <1>1, <1>2, <1>3
    <3> QED
      BY ONLY <3>1, x \in rest, \A y \in rest : x <= y, NextReady, Zenon
  <2> QED
    BY <2>1
<1>5. Ordered(live, rest \ {x})
  BY <1>1, <1>2, <1>3, NextReady, Zenon
<1>6. live \ (rest \ {x}) = done \cup {x}
  BY <1>1 DEF Ordered
<1>7. ASSUME NEW y \in done
      PROVE  y \in 1..Len(ns) /\ y < x
  BY <1>1, <1>2, <1>3, ListFacts DEF Ordered
<1>8. ASSUME NEW y \in done, NEW k \in 1..Len(ns[y].inputs)
      PROVE  ns[y].inputs[k] \in done
  BY <1>1, <1>2, <1>3, VisitedClosed
<1> HIDE DEF done
<1>9. InputClosed(ns, done)
  BY <1>8 DEF InputClosed, Inputs
<1>10. KeptNodes(ns, os, done \cup {x}, mnew, w.nodes, w.origins)
  BY <1>1, <1>2, <1>4, <1>7, <1>9, KeepNode
<1> QED
  BY <1>1, <1>5, <1>6, <1>10 DEF Compacting, live

\* What the derived view may be relied on for.
ViewOK(A, tip, v) ==
    /\ NodeList(v.nodes) /\ WellFormed(v.nodes) /\ Canonical(v.nodes)
    /\ v.root \in 1..Len(v.nodes)
    /\ Reachable(v.nodes, v.root) = 1..Len(v.nodes)
    /\ v.origins \in Seq(Nat) /\ Len(v.origins) = Len(v.nodes)
    /\ \A k \in 1..Len(v.origins) :
          /\ v.origins[k] \in Reachable(A, tip)
          /\ v.nodes[k].kind = A[v.origins[k]].kind
          /\ \A j \in 1..(k - 1) : v.origins[j] < v.origins[k]
    /\ TipExplained(A, tip, v.origins, v.root)

\* Every kept node is reached from the new root.
LEMMA AllReached ==
    ASSUME NEW ns, NodeList(ns), WellFormed(ns), NEW root \in 1..Len(ns),
           NEW os, NEW m, NEW vn, NEW vo, KeptNodes(ns, os, Reachable(ns, root), m, vn, vo)
    PROVE  Reachable(vn, m[root]) = 1..Len(vn)
<1> DEFINE live == Reachable(ns, root)
<1>1. root \in live /\ live \subseteq 1..Len(ns) /\ InputClosed(ns, live)
  BY WalkClosed
<1>2. ASSUME NEW C \in SUBSET (1..Len(vn)), m[root] \in C, InputClosed(vn, C),
             NEW k \in 1..Len(vn)
      PROVE  k \in C
  <2> DEFINE D == {x \in live : m[x] \in C}
  <2>1. root \in D /\ D \in SUBSET (1..Len(ns))
    BY <1>1, <1>2
  <2>2. ASSUME NEW x \in D, NEW j \in 1..Len(ns[x].inputs)
        PROVE  ns[x].inputs[j] \in D
    <3>1. ns[x].inputs[j] \in live
      BY <1>1 DEF InputClosed, Inputs
    <3>2. vn[m[x]].inputs = Remap(ns[x].inputs, m)
      BY DEF KeptNodes
    <3>3. ns[x].inputs \in Seq(Nat)
      BY <1>1, ListFacts
    <3>4. /\ j \in 1..Len(vn[m[x]].inputs)
          /\ vn[m[x]].inputs[j] = m[ns[x].inputs[j]]
      BY <3>2, <3>3 DEF Remap
    <3>5. m[ns[x].inputs[j]] \in Inputs(vn[m[x]])
      BY <3>4 DEF Inputs
    <3>6. m[ns[x].inputs[j]] \in C
      BY <1>2, <3>5 DEF InputClosed
    <3> QED
      BY <3>1, <3>6
  <2>3. InputClosed(ns, D)
    BY <2>2 DEF InputClosed, Inputs
  <2>4. \A x \in live : x \in D
    BY <2>1, <2>3 DEF Reachable
  <2>5. PICK x \in live : m[x] = k
    BY DEF KeptNodes
  <2> QED
    BY <2>4, <2>5
<1> QED
  BY <1>2 DEF Reachable

LEMMA ViewCanonicalOver ==
    ASSUME NEW ns, NodeList(ns), WellFormed(ns), Arity(ns), Canonical(ns),
           NEW os, NEW done, done \subseteq 1..Len(ns), InputClosed(ns, done),
           NEW m, NEW vn, NEW vo, KeptNodes(ns, os, done, m, vn, vo)
    PROVE  Canonical(vn)
<1> SUFFICES ASSUME NEW i \in 1..Len(vn)
             PROVE  NodeCanonical(vn, vn[i].kind, vn[i].inputs, vn[i].payload)
  BY DEF Canonical
<1>1. PICK x \in done : m[x] = i
  BY DEF KeptNodes
<1>2. /\ vn[i].kind = ns[x].kind /\ vn[i].payload = ns[x].payload
      /\ vn[i].inputs = Remap(ns[x].inputs, m)
  BY <1>1 DEF KeptNodes
<1>3. NodeCanonical(ns, ns[x].kind, ns[x].inputs, ns[x].payload)
  BY DEF Canonical
<1>4. ASSUME ns[x].kind \in UnaryKind
      PROVE  /\ vn[vn[i].inputs[1]].kind = ns[ns[x].inputs[1]].kind
             /\ vn[vn[i].inputs[1]].payload = ns[ns[x].inputs[1]].payload
  <2>1. ns[x].inputs \in Seq(Nat) /\ Len(ns[x].inputs) = 1
    BY <1>4, ListFacts DEF Arity, HasArity
  <2>2. ns[x].inputs[1] \in done
    BY <2>1 DEF InputClosed, Inputs
  <2>3. vn[i].inputs[1] = m[ns[x].inputs[1]]
    BY <1>2, <2>1 DEF Remap
  <2> QED
    BY <2>2, <2>3 DEF KeptNodes
<1> QED
  BY <1>2, <1>3, <1>4 DEF NodeCanonical, UnaryKind

LEMMA Compacted ==
    ASSUME NEW A, NEW tip, NEW m, NEW ns, NEW os, NEW v,
           Compacting(A, tip, {}, m, ns, os, v),
           NEW w, w.nodes = v.nodes, w.origins = v.origins, w.root = m[v.root]
    PROVE  ViewOK(A, tip, w)
<1> DEFINE live == Reachable(ns, v.root)
           vn == v.nodes
           vo == v.origins
<1>1. live \ {} = live
  OBVIOUS
<1>2. /\ Emitted(A, Reachable(A, tip), ns, os)
      /\ v.root \in 1..Len(ns) /\ TipExplained(A, tip, os, v.root)
      /\ KeptNodes(ns, os, live, m, vn, vo)
  BY <1>1 DEF Compacting
<1>3. NodeList(ns) /\ WellFormed(ns) /\ Arity(ns) /\ Canonical(ns)
  BY <1>2 DEF Emitted
<1>4. v.root \in live /\ live \subseteq 1..Len(ns) /\ InputClosed(ns, live)
  BY <1>2, <1>3, WalkClosed
<1>5. Reachable(vn, m[v.root]) = 1..Len(vn)
  BY <1>2, <1>3, AllReached
<1> HIDE DEF live
<1>6. Canonical(vn)
  BY <1>2, <1>3, <1>4, ViewCanonicalOver
<1>7. m[v.root] \in 1..Len(vn) /\ vo[m[v.root]] = os[v.root]
  BY <1>2, <1>4 DEF KeptNodes
<1>8. /\ NodeList(vn) /\ WellFormed(vn)
      /\ vo \in Seq(Nat) /\ Len(vo) = Len(vn)
  BY <1>2 DEF KeptNodes
<1>9. ASSUME NEW k \in 1..Len(vo)
      PROVE  /\ vo[k] \in Reachable(A, tip)
             /\ vn[k].kind = A[vo[k]].kind
             /\ \A j \in 1..(k - 1) : vo[j] < vo[k]
  <2>1. k \in 1..Len(vn)
    BY <1>8
  <2>2. PICK x \in live : m[x] = k
    BY <1>2, <2>1 DEF KeptNodes
  <2>3. vo[k] = os[x] /\ vn[k].kind = ns[x].kind
    BY <1>2, <2>2 DEF KeptNodes
  <2>4. \A j \in 1..(k - 1) : vo[j] < vo[k]
    BY <1>2, <2>1 DEF KeptNodes
  <2>5. x \in 1..Len(os)
    BY <1>2, <1>4 DEF Emitted
  <2>6. os[x] \in Reachable(A, tip) /\ ns[x].kind = A[os[x]].kind
    BY <1>2, <2>5 DEF Emitted
  <2> QED
    BY <2>3, <2>4, <2>6
<1>10. TipExplained(A, tip, vo, m[v.root])
  BY <1>2, <1>7 DEF TipExplained
<1> QED
  BY <1>5, <1>6, <1>7, <1>8, <1>9, <1>10 DEF ViewOK

-----------------------------------------------------------------------------
(* The stores the pass reads.                                              *)

StoreArity == \A s \in StoreId : Arity(nodes[s])

LEMMA AppendNodeArity ==
    ASSUME TypeOK, StoreArity, NEW s, NEW kind, NEW inputs, NEW payload,
           AppendNode(s, kind, inputs, payload)
    PROVE  StoreArity'
<1> DEFINE n == [id |-> nextId[s], kind |-> kind, inputs |-> inputs, payload |-> payload]
           new == Append(nodes[s], n)
<1>1. nodes' = [nodes EXCEPT ![s] = new]
  BY DEF AppendNode
<1>2. HasArity(n.kind, n.inputs)
  BY DEF AppendNode, ValidShape, HasArity
<1> SUFFICES ASSUME NEW t \in StoreId
             PROVE  Arity(nodes'[t])
  BY DEF StoreArity
<1>3. Arity(nodes[t]) /\ nodes[t] \in Seq(Node) /\ nodes \in [StoreId -> Seq(Node)]
  BY DEF StoreArity, TypeOK
<1>4. CASE t = s
  <2>1. IsList(nodes[s])
    BY <1>3, <1>4 DEF IsList
  <2> HIDE DEF n
  <2>2. Appended(nodes[s], n, new)
    BY <2>1, AppendIsAppended
  <2>3. Len(nodes[s]) \in Nat
    BY <1>3, <1>4
  <2> HIDE DEF new
  <2>4. Arity(new)
    <3> SUFFICES ASSUME NEW i \in 1..Len(new)
                 PROVE  HasArity(new[i].kind, new[i].inputs)
      BY DEF Arity
    <3>1. i = Len(nodes[s]) + 1 \/ i \in 1..Len(nodes[s])
      BY <2>2, <2>3 DEF Appended
    <3>2. CASE i = Len(nodes[s]) + 1
      BY <1>2, <2>2, <3>2 DEF Appended
    <3>3. CASE i \in 1..Len(nodes[s])
      BY <1>3, <1>4, <2>2, <3>3 DEF Appended, Arity
    <3> QED
      BY <3>1, <3>2, <3>3
  <2> QED
    BY <1>1, <1>3, <1>4, <2>4
<1>5. CASE t # s
  BY <1>1, <1>3, <1>5
<1> QED
  BY <1>4, <1>5

LEMMA NextArity ==
    ASSUME TypeOK, StoreArity, [Next]_vars
    PROVE  StoreArity'
<1>1. ASSUME NEW c, NEW kind, NEW p, Derive(c, kind, p)
      PROVE  StoreArity'
  BY <1>1, AppendNodeArity DEF Derive
<1>2. ASSUME UNCHANGED nodes
      PROVE  StoreArity'
  BY <1>2 DEF StoreArity
<1>3. CASE \E t \in Payload["ReadNamedTable"] : NamedTable(t) \/ NamedTableRefused(t)
  BY <1>2, <1>3, AppendNodeArity DEF NamedTable, NamedTableRefused
<1>4. CASE \E c \in cursors : DeriveStep(c)
  BY <1>1, <1>4 DEF DeriveStep, Filter, WithColumn, Select, GroupBy, Agg, OrderBy,
                    Limit, Generate, WithWindowColumn
<1>5. CASE \E l, r \in cursors : JoinStep(l, r)
  BY <1>2, <1>5, AppendNodeArity DEF JoinStep, JoinSameStore, BeginAdoption, storeVars
<1>6. CASE AdoptStep
  BY <1>2, <1>6, AppendNodeArity DEF AdoptStep, AdoptReuse, AdoptCopy, FinishJoin, storeVars
<1>7. CASE UNCHANGED vars
  BY <1>2, <1>7 DEF vars, storeVars
<1> QED
  BY <1>3, <1>4, <1>5, <1>6, <1>7 DEF Next

LEMMA RequestAuthored ==
    ASSUME IInv, StoreArity, request \in cursors
    PROVE  Authored(AuthoredNodes, request.tip)
<1> DEFINE s == request.store
<1>1. /\ nodes \in [StoreId -> Seq(Node)] /\ s \in StoreId
      /\ request.tip \in 1..Len(nodes[s])
  BY DEF IInv, TypeOK, StoreSound, CursorsResolve, Cursor
<1>2. nodes[s] \in Seq(Node) /\ Arity(nodes[s])
  BY <1>1 DEF StoreArity
<1>3. WellFormed(nodes[s])
  BY <1>1 DEF WellFormed, IInv, StoreSound, DenseIds, InputsPrecede
<1>4. \A n \in Node : /\ n.kind \in Kind /\ n.inputs \in Seq(Nat)
                      /\ IsList(n.payload.windows) /\ Fields \subseteq DOMAIN n
  BY RewriteAssumption DEF Node, IsList, Fields
<1> HIDE DEF s
<1>5. IsList(nodes[s]) /\ \A i \in 1..Len(nodes[s]) : nodes[s][i] \in Node
  BY <1>2 DEF IsList
<1>6. NodeList(nodes[s])
  BY <1>4, <1>5 DEF NodeList
<1> QED
  BY <1>1, <1>2, <1>3, <1>4, <1>5, <1>6 DEF Authored, AuthoredNodes, s

-----------------------------------------------------------------------------
(* The pass.                                                               *)

\* The invariant of the pass: its locals are empty between two derivations, and
\* within one each phase keeps what the next one starts from.
PassOK ==
    /\ phase \in {"resting", "rewriting", "compacting", "derived"}
    /\ phase = "resting" =>
          /\ request = NoRequest /\ unvisited = {}
          /\ newId = <<>> /\ draft = <<>> /\ origins = <<>>
    /\ phase \in {"resting", "rewriting"} => view = EmptyView
    /\ {"nodes", "origins", "root"} \subseteq DOMAIN view
    /\ phase # "resting" => request \in cursors
    /\ phase = "rewriting" =>
          Rewriting(AuthoredNodes, request.tip, unvisited, newId, draft, origins)
    /\ phase = "compacting" =>
          Compacting(AuthoredNodes, request.tip, unvisited, newId, draft, origins, view)
    /\ phase = "derived" =>
          /\ unvisited = {} /\ newId \in Seq(Nat)
          /\ Emitted(AuthoredNodes, AuthoredReachable, draft, origins)
          /\ ViewOK(AuthoredNodes, request.tip, view)

RewriteInv == IInv /\ StoreArity /\ PassOK

LEMMA RewriteInitSound == ASSUME RewriteInit PROVE RewriteInv
<1>1. IInv
  BY InitSound DEF RewriteInit
<1>2. StoreArity
  BY DEF RewriteInit, Init, StoreArity, Arity
<1>3. PassOK
  BY DEF RewriteInit, PassOK, EmptyView
<1> QED
  BY <1>1, <1>2, <1>3 DEF RewriteInv

LEMMA BeginDeriveSound ==
    ASSUME RewriteInv, NEW c \in cursors, BeginDerive(c), UNCHANGED vars
    PROVE  PassOK'
<1>1. /\ phase' = "rewriting" /\ request' = c
      /\ unvisited' = Reachable(nodes[c.store], c.tip)
      /\ newId' = [i \in 1..Len(nodes[c.store]) |-> 0]
      /\ UNCHANGED <<draft, origins, view, nodes, cursors>>
      /\ draft = <<>> /\ origins = <<>> /\ view = EmptyView
  BY DEF BeginDerive, vars, storeVars, RewriteInv, PassOK
<1> DEFINE A == nodes[c.store]
           live == Reachable(A, c.tip)
           zeros == [i \in 1..Len(A) |-> 0]
<1>2. Ordered(live, live)
  BY DEF Ordered
<1>3. live \ live = {}
  OBVIOUS
<1>4. Emitted(A, {}, <<>>, <<>>)
  BY DEF Emitted, NodeList, IsList, WellFormed, Arity, Canonical
<1>5. Len(A) \in Nat
  BY DEF RewriteInv, IInv, TypeOK, Cursor
<1>6. zeros \in Seq(Nat) /\ Len(zeros) = Len(A) /\ \A i \in 1..Len(A) : zeros[i] = 0
  BY <1>5
<1> HIDE DEF zeros
<1>7. DraftMap(A, {}, zeros, <<>>, <<>>)
  BY <1>6 DEF DraftMap
<1>8. Rewriting(A, c.tip, live, zeros, <<>>, <<>>)
  BY <1>2, <1>3, <1>4, <1>7 DEF Rewriting
<1>9. /\ AuthoredNodes' = A /\ request'.tip = c.tip /\ unvisited' = live
      /\ newId' = zeros /\ draft' = <<>> /\ origins' = <<>>
  BY <1>1 DEF AuthoredNodes, zeros
<1>10. Rewriting(AuthoredNodes', request'.tip, unvisited', newId', draft', origins')
  BY <1>8, <1>9
<1> QED
  BY <1>1, <1>10 DEF PassOK, EmptyView

\* An iteration of the first loop that keeps its invariant keeps PassOK.
LEMMA RewritingStep ==
    ASSUME PassOK, phase = "rewriting", UNCHANGED <<phase, request, view, nodes, cursors>>,
           Rewriting(AuthoredNodes, request.tip, unvisited', newId', draft', origins')
    PROVE  PassOK'
<1>1. AuthoredNodes' = AuthoredNodes /\ request'.tip = request.tip
  BY DEF AuthoredNodes
<1> QED
  BY <1>1 DEF PassOK

\* A node that takes its parent's input, where no rule applies to the result.
LEMMA CollapseSound ==
    ASSUME RewriteInv, NEW x \in unvisited, IsTurnOf(x, "rewriting"),
           AuthoredNodes[x].kind \in UnaryKind \ {"Filter"}, Parent(x).kind \in UnaryKind,
           NEW rule, NEW payload, Collapse(x, rule, payload),
           NodeCanonical(draft, AuthoredNodes[x].kind, <<Parent(x).inputs[1]>>, payload),
           UNCHANGED vars
    PROVE  PassOK'
<1> DEFINE A == AuthoredNodes
           tip == request.tip
           read == RemappedInputs(x)
           p == read[1]
           q == draft[p].inputs[1]
<1>1. phase = "rewriting" /\ \A y \in unvisited : x <= y
  BY DEF IsTurnOf
<1>2. Authored(A, tip) /\ Rewriting(A, tip, unvisited, newId, draft, origins)
  BY <1>1, RequestAuthored DEF RewriteInv, PassOK
<1>3. read = Remap(A[x].inputs, newId)
  BY DEF RemappedInputs
<1>4. /\ NodeList(draft) /\ WellFormed(draft) /\ Arity(draft) /\ Len(draft) \in Nat
      /\ p \in 1..Len(draft)
  BY <1>1, <1>2, <1>3, TurnFacts
<1>5. draft[p].kind \in UnaryKind /\ Parent(x).inputs[1] = q
  BY DEF Parent
<1>6. q \in 1..Len(draft) /\ q \in Nat
  BY <1>4, <1>5, InputsExist DEF Arity, HasArity
<1>7. ~Erased(A, x)
  BY DEF Erased
<1> DEFINE inputs == <<q>>
<1>8. inputs \in Seq(Nat) /\ Len(inputs) = 1 /\ \A k \in 1..Len(inputs) : inputs[k] \in 1..Len(draft)
  BY <1>6
<1>9. NodeCanonical(draft, A[x].kind, inputs, payload) /\ HasArity(A[x].kind, inputs)
  BY <1>5, <1>8 DEF HasArity, UnaryKind
<1>10. /\ unvisited' = unvisited \ {x} /\ UNCHANGED <<phase, request, view>>
       /\ draft' = Append(draft, [id |-> Len(draft) + 1, kind |-> A[x].kind,
                                  inputs |-> inputs, payload |-> payload])
       /\ origins' = Append(origins, x)
       /\ newId' = [newId EXCEPT ![x] = Len(draft) + 1]
  BY <1>5 DEF Collapse, Visit, Emit
<1> HIDE DEF A, tip, inputs
<1>11. Rewriting(A, tip, unvisited', newId', draft', origins')
  BY <1>1, <1>2, <1>7, <1>8, <1>9, <1>10, EmitRecord
<1> QED
  BY <1>1, <1>10, <1>11, RewritingStep DEF RewriteInv, A, tip, vars, storeVars

LEMMA ParentFacts ==
    ASSUME RewriteInv, NEW x \in unvisited, IsTurnOf(x, "rewriting"),
           AuthoredNodes[x].kind \in UnaryKind
    PROVE  /\ RemappedInputs(x)[1] \in 1..Len(draft)
           /\ Parent(x) = draft[RemappedInputs(x)[1]]
           /\ Canonical(draft)
           /\ IsList(AuthoredNodes[x].payload.windows)
<1>1. phase = "rewriting" /\ \A y \in unvisited : x <= y
  BY DEF IsTurnOf
<1>2. /\ Authored(AuthoredNodes, request.tip)
      /\ Rewriting(AuthoredNodes, request.tip, unvisited, newId, draft, origins)
  BY <1>1, RequestAuthored DEF RewriteInv, PassOK
<1> QED
  BY <1>1, <1>2, TurnFacts DEF Parent, RemappedInputs

LEMMA CollapsesSound ==
    ASSUME RewriteInv, NEW x \in unvisited, IsTurnOf(x, "rewriting"), UNCHANGED vars,
           \/ CollapseLimit(x) \/ CollapseProject(x) \/ CollapseOrderBy(x)
           \/ CollapseAggregate(x) \/ FuseGroupBy(x)
    PROVE  PassOK'
<1> DEFINE inputs == <<Parent(x).inputs[1]>>
<1>1. inputs[1] = Parent(x).inputs[1]
  OBVIOUS
<1> HIDE DEF inputs
<1>2. ASSUME NEW kind \in {"Limit", "Project", "OrderBy"}, NEW rule, NEW payload,
             Adjacent(x, kind, kind), Collapse(x, rule, payload)
      PROVE  PassOK'
  <2>1. /\ AuthoredNodes[x].kind = kind /\ Parent(x).kind = kind
        /\ kind \in UnaryKind \ {"Filter"}
    BY <1>2 DEF Adjacent, UnaryKind
  <2>2. /\ RemappedInputs(x)[1] \in 1..Len(draft)
        /\ Parent(x) = draft[RemappedInputs(x)[1]] /\ Canonical(draft)
    BY <2>1, ParentFacts
  <2>3. NodeCanonical(draft, kind, inputs, payload)
    BY <1>1, <2>1, <2>2, CollapseCanonical
  <2> QED
    BY <1>2, <2>1, <2>3, CollapseSound DEF inputs
<1>3. ASSUME NEW rule, NEW payload, AuthoredNodes[x].kind = "Aggregate",
             Parent(x).kind \in {"Aggregate", "GroupBy"}, Collapse(x, rule, payload)
      PROVE  PassOK'
  <2>1. NodeCanonical(draft, AuthoredNodes[x].kind, inputs, payload)
    BY <1>3 DEF NodeCanonical
  <2> QED
    BY <1>3, <2>1, CollapseSound DEF inputs, UnaryKind
<1>4. CASE CollapseLimit(x)
  BY <1>2, <1>4 DEF CollapseLimit
<1>5. CASE CollapseProject(x)
  BY <1>2, <1>5 DEF CollapseProject
<1>6. CASE CollapseOrderBy(x)
  BY <1>2, <1>6 DEF CollapseOrderBy
<1>7. CASE CollapseAggregate(x)
  BY <1>3, <1>7 DEF CollapseAggregate, Adjacent
<1>8. CASE FuseGroupBy(x)
  BY <1>3, <1>8 DEF FuseGroupBy, Adjacent
<1> QED
  BY <1>4, <1>5, <1>6, <1>7, <1>8

LEMMA CollapseWindowSound ==
    ASSUME RewriteInv, NEW x \in unvisited, IsTurnOf(x, "rewriting"), UNCHANGED vars,
           CollapseWindow(x)
    PROVE  PassOK'
<1> DEFINE inputs == <<Parent(x).inputs[1]>>
           ws == AuthoredNodes[x].payload.windows
           joined == Parent(x).payload.windows \o ws
           payload == [NoPayload EXCEPT !.windows = joined]
<1>1. inputs[1] = Parent(x).inputs[1]
  OBVIOUS
<1> HIDE DEF inputs
<1>2. /\ AuthoredNodes[x].kind = "Window" /\ Parent(x).kind = "Window"
      /\ ShareBoundary(Parent(x).payload.windows, ws)
      /\ Collapse(x, "collapse_adjacent_window", payload)
  BY DEF CollapseWindow, CanCollapseWindow, Adjacent
<1>3. /\ RemappedInputs(x)[1] \in 1..Len(draft)
      /\ Parent(x) = draft[RemappedInputs(x)[1]] /\ Canonical(draft) /\ IsList(ws)
  BY <1>2, ParentFacts DEF UnaryKind
<1> HIDE DEF joined
<1>4. payload.windows = joined
  BY RewriteAssumption
<1> HIDE DEF payload, ws
<1>5. NodeCanonical(draft, "Window", inputs, payload)
  BY <1>1, <1>2, <1>3, <1>4, CollapseWindowCanonical DEF joined
<1> QED
  BY <1>2, <1>5, CollapseSound DEF inputs, UnaryKind

LEMMA EliminateFilterTrueSound ==
    ASSUME RewriteInv, NEW x \in unvisited, IsTurnOf(x, "rewriting"), UNCHANGED vars,
           EliminateFilterTrue(x)
    PROVE  PassOK'
<1> DEFINE A == AuthoredNodes
           tip == request.tip
<1>1. phase = "rewriting" /\ \A y \in unvisited : x <= y
  BY DEF IsTurnOf
<1>2. Authored(A, tip) /\ Rewriting(A, tip, unvisited, newId, draft, origins)
  BY <1>1, RequestAuthored DEF RewriteInv, PassOK
<1>3. /\ unvisited' = unvisited \ {x}
      /\ newId' = [newId EXCEPT ![x] = Remap(A[x].inputs, newId)[1]]
      /\ UNCHANGED <<phase, request, draft, origins, view>>
  BY DEF EliminateFilterTrue, Visit, RemappedInputs
<1>4. Erased(A, x)
  BY DEF EliminateFilterTrue, CanEliminateFilterTrue, Erased
<1> HIDE DEF A, tip
<1>5. Rewriting(A, tip, unvisited \ {x}, newId', draft, origins)
  BY <1>1, <1>2, <1>3, <1>4, EraseStep
<1> QED
  BY <1>1, <1>3, <1>5, RewritingStep DEF RewriteInv, A, tip, vars, storeVars

LEMMA CopyNodeSound ==
    ASSUME RewriteInv, NEW x \in unvisited, IsTurnOf(x, "rewriting"), UNCHANGED vars,
           CopyNode(x)
    PROVE  PassOK'
<1> DEFINE A == AuthoredNodes
           tip == request.tip
           read == Remap(A[x].inputs, newId)
           payload == A[x].payload
<1>1. phase = "rewriting" /\ \A y \in unvisited : x <= y
  BY DEF IsTurnOf
<1>2. Authored(A, tip) /\ Rewriting(A, tip, unvisited, newId, draft, origins)
  BY <1>1, RequestAuthored DEF RewriteInv, PassOK
<1>3. /\ read \in Seq(Nat) /\ \A k \in 1..Len(read) : read[k] \in 1..Len(draft)
      /\ HasArity(A[x].kind, read)
      /\ IsList(payload.windows)
  BY <1>1, <1>2, TurnFacts
<1>4. ~Erased(A, x)
  BY DEF CopyNode, CanEliminateFilterTrue, Erased
<1>5. /\ unvisited' = unvisited \ {x} /\ UNCHANGED <<phase, request, view>>
      /\ draft' = Append(draft, [id |-> Len(draft) + 1, kind |-> A[x].kind,
                                 inputs |-> read, payload |-> payload])
      /\ origins' = Append(origins, x)
      /\ newId' = [newId EXCEPT ![x] = Len(draft) + 1]
  BY DEF CopyNode, Visit, Emit, RemappedInputs
<1>6. NodeCanonical(draft, A[x].kind, read, payload)
  <2>1. Parent(x) = draft[read[1]]
    BY DEF Parent, RemappedInputs
  <2>2. A[x].kind \in {"Limit", "Project", "OrderBy"} => draft[read[1]].kind # A[x].kind
    BY <2>1 DEF CopyNode, Adjacent
  <2>3. A[x].kind = "Window" /\ draft[read[1]].kind = "Window" =>
            ~ShareBoundary(draft[read[1]].payload.windows, payload.windows)
    BY <2>1 DEF CopyNode, CanCollapseWindow, Adjacent
  <2>4. ~(A[x].kind = "Filter" /\ payload.predicate = TrueLiteral)
    BY <1>4 DEF Erased
  <2> HIDE DEF A, read, payload
  <2> QED
    BY <1>3, <2>2, <2>3, <2>4 DEF NodeCanonical
<1> HIDE DEF A, tip, read
<1>7. Rewriting(A, tip, unvisited', newId', draft', origins')
  BY <1>1, <1>2, <1>3, <1>4, <1>5, <1>6, EmitRecord
<1> QED
  BY <1>1, <1>5, <1>7, RewritingStep DEF RewriteInv, A, tip, vars, storeVars

LEMMA BeginCompactionSound ==
    ASSUME RewriteInv, BeginCompaction, UNCHANGED vars
    PROVE  PassOK'
<1> DEFINE A == AuthoredNodes
           tip == request.tip
           v == view'
<1>1. /\ phase = "rewriting" /\ unvisited = {} /\ phase' = "compacting"
      /\ unvisited' = Reachable(draft, newId[tip])
      /\ newId' = [i \in 1..Len(draft) |-> 0]
      /\ UNCHANGED <<request, draft, origins, nodes, cursors>>
  BY DEF BeginCompaction, vars, storeVars
<1>2. Authored(A, tip) /\ Rewriting(A, tip, {}, newId, draft, origins)
  BY <1>1, RequestAuthored DEF RewriteInv, PassOK
<1>3. v.root = newId[tip] /\ v.nodes = <<>> /\ v.origins = <<>>
  BY <1>1 DEF BeginCompaction, RewriteInv, PassOK, EmptyView
<1>4. A' = A /\ tip' = tip /\ request \in cursors
  BY <1>1 DEF AuthoredNodes, RewriteInv, PassOK
<1>5. {"nodes", "origins", "root"} \subseteq DOMAIN v
  BY DEF BeginCompaction, RewriteInv, PassOK
<1> HIDE DEF A, tip, v
<1>6. Compacting(A, tip, Reachable(draft, newId[tip]), [i \in 1..Len(draft) |-> 0],
                 draft, origins, v)
  BY <1>2, <1>3, CompactionBegins
<1>7. Compacting(A', tip', unvisited', newId', draft', origins', v)
  BY <1>1, <1>4, <1>6
<1> QED
  BY <1>1, <1>4, <1>7, <1>5 DEF PassOK, A, tip, v

LEMMA CompactNodeSound ==
    ASSUME RewriteInv, NEW x \in unvisited, CompactNode(x), UNCHANGED vars
    PROVE  PassOK'
<1> DEFINE A == AuthoredNodes
           tip == request.tip
           v == view
           w == view'
           id == Len(v.nodes) + 1
           n == [draft[x] EXCEPT !.id = id, !.inputs = Remap(draft[x].inputs, newId)]
<1>1. /\ phase = "compacting" /\ \A y \in unvisited : x <= y
      /\ unvisited' = unvisited \ {x}
      /\ newId' = [newId EXCEPT ![x] = id]
      /\ UNCHANGED <<phase, request, draft, origins, nodes, cursors>>
  BY DEF CompactNode, IsTurnOf, Visit, vars, storeVars
<1>2. Compacting(A, tip, unvisited, newId, draft, origins, v)
  BY <1>1 DEF RewriteInv, PassOK
<1>3. w = [v EXCEPT !.nodes = Append(v.nodes, n), !.origins = Append(v.origins, origins[x])]
  BY DEF CompactNode
<1>4. {"nodes", "origins", "root"} \subseteq DOMAIN v
  BY DEF RewriteInv, PassOK
<1>5. x \in 1..Len(draft)
  <2>1. NodeList(draft) /\ WellFormed(draft) /\ v.root \in 1..Len(draft)
    BY <1>2 DEF Compacting, Emitted
  <2> QED
    BY <1>2, <2>1, WalkClosed DEF Compacting, Ordered
<1>6. Fields \subseteq DOMAIN draft[x]
  BY <1>2, <1>5, ListFacts DEF Compacting, Emitted
<1>7. /\ Fields \subseteq DOMAIN n /\ n.id = id /\ n.inputs = Remap(draft[x].inputs, newId)
      /\ n.kind = draft[x].kind /\ n.payload = draft[x].payload
  BY <1>6 DEF Fields
<1> HIDE DEF n
<1>8. /\ w.root = v.root /\ w.nodes = Append(v.nodes, n)
      /\ w.origins = Append(v.origins, origins[x])
      /\ {"nodes", "origins", "root"} \subseteq DOMAIN w
  BY <1>3, <1>4
<1>9. Appended(v.nodes, n, w.nodes)
  <2>1. IsList(v.nodes)
    BY <1>2 DEF Compacting, KeptNodes, NodeList
  <2> QED
    BY <1>8, <2>1, AppendIsAppended
<1>10. A' = A /\ tip' = tip /\ request \in cursors
  BY <1>1 DEF AuthoredNodes, RewriteInv, PassOK
<1> HIDE DEF A, tip, v, w
<1>11. Compacting(A, tip, unvisited \ {x}, newId', draft, origins, w)
  BY <1>1, <1>2, <1>7, <1>8, <1>9, CompactStep
<1>12. Compacting(A', tip', unvisited', newId', draft', origins', w)
  BY <1>1, <1>10, <1>11
<1> QED
  BY <1>1, <1>8, <1>10, <1>12 DEF PassOK, A, tip, w

LEMMA FinishCompactionSound ==
    ASSUME RewriteInv, FinishCompaction, UNCHANGED vars
    PROVE  PassOK'
<1> DEFINE A == AuthoredNodes
           tip == request.tip
           w == view'
<1>1. /\ phase = "compacting" /\ unvisited = {} /\ phase' = "derived"
      /\ UNCHANGED <<request, unvisited, newId, draft, origins, nodes, cursors>>
  BY DEF FinishCompaction, vars, storeVars
<1>2. Compacting(A, tip, {}, newId, draft, origins, view)
  BY <1>1 DEF RewriteInv, PassOK
<1>3. /\ w.root = newId[view.root] /\ w.nodes = view.nodes /\ w.origins = view.origins
      /\ {"nodes", "origins", "root"} \subseteq DOMAIN w
  BY DEF FinishCompaction, RewriteInv, PassOK
<1>4. A' = A /\ tip' = tip /\ AuthoredReachable' = AuthoredReachable /\ request \in cursors
  BY <1>1 DEF AuthoredNodes, AuthoredReachable, RewriteInv, PassOK
<1>5. newId \in Seq(Nat) /\ Emitted(A, Reachable(A, tip), draft, origins)
  BY <1>2 DEF Compacting, KeptNodes
<1> HIDE DEF w
<1>6. ViewOK(A, tip, w)
  BY <1>2, <1>3, Compacted
<1>7. ViewOK(A', tip', w) /\ Emitted(A', AuthoredReachable', draft', origins')
  BY <1>1, <1>4, <1>5, <1>6 DEF AuthoredReachable
<1> QED
  BY <1>1, <1>3, <1>4, <1>5, <1>7 DEF PassOK, w

LEMMA ReturnViewSound ==
    ASSUME RewriteInv, ReturnView
    PROVE  PassOK'
BY DEF ReturnView, RewriteInv, PassOK, EmptyView

\* Between two derivations the program may author what it likes.
LEMMA RestingSound ==
    ASSUME RewriteInv, phase = "resting", UNCHANGED rewriteVars
    PROVE  PassOK'
BY DEF RewriteInv, PassOK, rewriteVars

LEMMA UnchangedSound ==
    ASSUME RewriteInv, UNCHANGED allVars
    PROVE  PassOK'
<1>1. UNCHANGED <<nodes, cursors, phase, request, unvisited, newId, draft, origins, view>>
  BY DEF allVars, rewriteVars, vars, storeVars
<1>2. AuthoredNodes' = AuthoredNodes /\ AuthoredReachable' = AuthoredReachable
  BY <1>1 DEF AuthoredNodes, AuthoredReachable
<1> QED
  BY <1>1, <1>2 DEF RewriteInv, PassOK

LEMMA PassStepSound ==
    ASSUME RewriteInv, PassStep, UNCHANGED vars
    PROVE  PassOK'
<1>1. ASSUME NEW x \in unvisited, RewriteNode(x)
      PROVE  PassOK'
  <2>1. IsTurnOf(x, "rewriting")
    BY <1>1 DEF RewriteNode
  <2>2. CASE EliminateFilterTrue(x)
    BY <2>1, <2>2, EliminateFilterTrueSound
  <2>3. CASE CollapseWindow(x)
    BY <2>1, <2>3, CollapseWindowSound
  <2>4. CASE CopyNode(x)
    BY <2>1, <2>4, CopyNodeSound
  <2>5. CASE \/ CollapseLimit(x) \/ CollapseProject(x) \/ CollapseOrderBy(x)
             \/ CollapseAggregate(x) \/ FuseGroupBy(x)
    BY <2>1, <2>5, CollapsesSound
  <2> QED
    BY <1>1, <2>2, <2>3, <2>4, <2>5 DEF RewriteNode
<1>2. ASSUME NEW x \in unvisited, CompactNode(x)
      PROVE  PassOK'
  BY <1>2, CompactNodeSound
<1> QED
  BY <1>1, <1>2, BeginCompactionSound, FinishCompactionSound, ReturnViewSound DEF PassStep

LEMMA RewriteStepSound == RewriteInv /\ [RewriteNext]_allVars => RewriteInv'
<1> SUFFICES ASSUME RewriteInv, [RewriteNext]_allVars
             PROVE  RewriteInv'
  OBVIOUS
<1>1. [Next]_vars
  BY DEF RewriteNext, allVars
<1>2. IInv' /\ StoreArity'
  BY <1>1, StepSound, NextArity DEF RewriteInv, IInv
<1>3. PassOK'
  <2>1. CASE phase = "resting" /\ Next /\ UNCHANGED rewriteVars
    BY <2>1, RestingSound
  <2>2. CASE (\E c \in cursors : BeginDerive(c)) /\ UNCHANGED vars
    BY <2>2, BeginDeriveSound
  <2>3. CASE PassStep /\ UNCHANGED vars
    BY <2>3, PassStepSound
  <2>4. CASE UNCHANGED allVars
    BY <2>4, UnchangedSound
  <2> QED
    BY <2>1, <2>2, <2>3, <2>4 DEF RewriteNext
<1> QED
  BY <1>2, <1>3 DEF RewriteInv

LEMMA RewriteInductive == RewriteSpec => []RewriteInv
<1>1. RewriteInit => RewriteInv
  BY RewriteInitSound
<1> QED
  BY <1>1, RewriteStepSound, PTL DEF RewriteSpec

LEMMA PassTyped ==
    ASSUME RewriteInv
    PROVE  RewriteTypeOK
<1>1. cursors \subseteq Cursor
  BY DEF RewriteInv, IInv, TypeOK
<1>2. /\ phase \in {"resting", "rewriting", "compacting", "derived"}
      /\ request \in Cursor \cup {NoRequest}
      /\ request = NoRequest <=> phase = "resting"
  BY <1>1, RewriteAssumption DEF RewriteInv, PassOK
<1>3. NodeList(<<>>)
  BY DEF NodeList, IsList
<1>4. CASE phase = "resting"
  <2>1. unvisited = {} /\ newId = <<>> /\ draft = <<>> /\ origins = <<>> /\ view = EmptyView
    BY <1>4 DEF RewriteInv, PassOK
  <2> QED
    BY <1>2, <2>1 DEF RewriteTypeOK, EmptyView
<1>5. CASE phase = "rewriting"
  <2> DEFINE live == AuthoredReachable
  <2>1. /\ Authored(AuthoredNodes, request.tip) /\ view = EmptyView
        /\ Rewriting(AuthoredNodes, request.tip, unvisited, newId, draft, origins)
    BY <1>5, RequestAuthored DEF RewriteInv, PassOK
  <2>2. newId \in Seq(Nat) /\ origins \in Seq(Nat) /\ NodeList(draft)
    BY <2>1 DEF Rewriting, DraftMap, Emitted
  <2>3. unvisited \in SUBSET Nat
    <3>1. unvisited \subseteq Reachable(AuthoredNodes, request.tip)
      BY <2>1 DEF Rewriting, Ordered
    <3> QED
      BY <3>1 DEF Reachable
  <2>4. \A k \in 1..Len(draft) : draft[k].kind \in Kind /\ draft[k].inputs \in Seq(Nat)
    BY <2>2, ListFacts
  <2> QED
    BY <1>2, <2>1, <2>2, <2>3, <2>4 DEF RewriteTypeOK, EmptyView
<1>6. CASE phase \in {"compacting", "derived"}
  <2>1. /\ NodeList(draft) /\ NodeList(view.nodes)
        /\ newId \in Seq(Nat) /\ origins \in Seq(Nat) /\ view.origins \in Seq(Nat)
    BY <1>6 DEF RewriteInv, PassOK, Compacting, KeptNodes, Emitted, ViewOK
  <2>2. unvisited \in SUBSET Nat
    <3>1. CASE phase = "compacting"
      <4>1. unvisited \subseteq Reachable(draft, view.root)
        BY <3>1 DEF RewriteInv, PassOK, Compacting, Ordered
      <4> QED
        BY <4>1 DEF Reachable
    <3>2. CASE phase = "derived"
      BY <3>2 DEF RewriteInv, PassOK
    <3> QED
      BY <1>6, <3>1, <3>2
  <2>3. view.root \in Nat
    BY <1>6 DEF RewriteInv, PassOK, Compacting, ViewOK
  <2>4. \A k \in 1..Len(draft) : draft[k].kind \in Kind /\ draft[k].inputs \in Seq(Nat)
    BY <2>1, ListFacts
  <2>5. \A k \in 1..Len(view.nodes) :
            view.nodes[k].kind \in Kind /\ view.nodes[k].inputs \in Seq(Nat)
    BY <2>1, ListFacts
  <2> QED
    BY <1>2, <2>1, <2>2, <2>3, <2>4, <2>5 DEF RewriteTypeOK
<1> QED
  BY <1>2, <1>4, <1>5, <1>6

\* Type correctness: the locals of the pass keep their shapes, and a request is
\* there exactly while a view is derived.
THEOREM RewriteTypeCorrect == RewriteSpec => []RewriteTypeOK
BY RewriteInductive, PassTyped, PTL

\* After every iteration of the first loop exactly the visited ids are mapped,
\* each to a draft node, and the draft stands for visited ids in authored order.
THEOREM DraftStaysSound == RewriteSpec => []DraftSound
<1>1. ASSUME RewriteInv
      PROVE  DraftSound
  <2> SUFFICES ASSUME phase = "rewriting"
               PROVE  LET live == AuthoredReachable IN
                      /\ WellFormed(draft)
                      /\ \A x \in 1..Len(newId) :
                            IF x \in live \ unvisited THEN newId[x] \in 1..Len(draft)
                                                      ELSE newId[x] = 0
                      /\ Len(origins) = Len(draft)
                      /\ \A k \in 1..Len(origins) :
                            /\ origins[k] \in live \ unvisited
                            /\ \A j \in 1..(k - 1) : origins[j] < origins[k]
    BY DEF DraftSound
  <2>1. Rewriting(AuthoredNodes, request.tip, unvisited, newId, draft, origins)
    BY <1>1 DEF RewriteInv, PassOK
  <2> QED
    BY <2>1 DEF Rewriting, Emitted, DraftMap, AuthoredReachable
<1> QED
  BY <1>1, RewriteInductive, PTL

\* What a derived view is indexed by holds of every view of every cursor.
THEOREM DerivedViewSound == RewriteSpec => []ViewSound
<1>1. ASSUME RewriteInv
      PROVE  ViewSound
  BY <1>1 DEF RewriteInv, PassOK, ViewOK, ViewSound, AuthoredReachable
<1> QED
  BY <1>1, RewriteInductive, PTL

\* Every node of a derived view keeps the kind of the authored node its origin
\* names, and only filters on true separate the root's origin from the tip.
THEOREM OriginsExplainView == RewriteSpec => []OriginsExplain
<1>1. ASSUME RewriteInv
      PROVE  OriginsExplain
  BY <1>1 DEF RewriteInv, PassOK, ViewOK, OriginsExplain, AuthoredReachable,
              TipExplained, Erased, CanEliminateFilterTrue
<1> QED
  BY <1>1, RewriteInductive, PTL

\* One pass suffices: no rule would apply to a derived view, whatever was
\* chained or shared.
THEOREM DerivedViewCanonical == RewriteSpec => []ViewCanonical
<1>1. ASSUME RewriteInv
      PROVE  ViewCanonical
  BY <1>1 DEF RewriteInv, PassOK, ViewOK, ViewCanonical, Canonical, NodeCanonical
<1> QED
  BY <1>1, RewriteInductive, PTL

-----------------------------------------------------------------------------
(* rewrite_explain adds up: a view is at most as many nodes shorter than   *)
(* what was authored as there are recorded rules.                          *)
(*                                                                         *)
(* An erased node costs a rule.  A collapse costs one too, and at most one *)
(* draft node, the parent, that nothing reads any more.  The ledger keeps  *)
(* the set of these parents.                                               *)

\* The draft node of x reads the draft nodes of what x reads, or what these read
\* if they are among the parents K.
StandsFor(A, x, m, ns, K) ==
    \/ Erased(A, x)
    \/ ns[m[x]].inputs = Remap(A[x].inputs, m)
    \/ \A k \in 1..Len(A[x].inputs) :
          /\ m[A[x].inputs[k]] \in K
          /\ Inputs(ns[m[A[x].inputs[k]]]) \subseteq Inputs(ns[m[x]])

\* The rules rs pay for the nodes of done without one of their own in ns, and for
\* the parents that were collapsed; the others are mapped to the node they own.
Ledger(A, done, m, ns, os, rs) ==
    /\ IsList(rs)
    /\ \A k \in 1..Len(ns) : os[k] \in done /\ m[os[k]] = k
    /\ \E K \in SUBSET (1..Len(ns)) :
          /\ Cardinality(done) + Cardinality(K) <= Len(rs) + Len(ns)
          /\ Len(ns) <= Cardinality(done)
          /\ \A x \in done : StandsFor(A, x, m, ns, K)

-----------------------------------------------------------------------------
(* One iteration.                                                          *)

\* The ids m and the nodes ns of what was visited are still there.
CarriesOver(done, m, ns, mnew, new) ==
    /\ \A z \in done : m[z] \in 1..Len(ns) /\ mnew[z] = m[z]
    /\ \A i \in 1..Len(ns) : new[i] = ns[i]

LEMMA StandsForKept ==
    ASSUME NEW A, NEW done, NEW m, NEW ns, InputClosed(A, done), NEW y \in done,
           NEW mnew, NEW new, CarriesOver(done, m, ns, mnew, new),
           NEW K, StandsFor(A, y, m, ns, K), NEW G
    PROVE  StandsFor(A, y, mnew, new, K \cup G)
<1>2. new[mnew[y]] = ns[m[y]]
  BY DEF CarriesOver
<1>3. ASSUME NEW k \in 1..Len(A[y].inputs)
      PROVE  /\ mnew[A[y].inputs[k]] = m[A[y].inputs[k]]
             /\ new[mnew[A[y].inputs[k]]] = ns[m[A[y].inputs[k]]]
  <2>1. A[y].inputs[k] \in done
    BY DEF InputClosed, Inputs
  <2> QED
    BY <2>1 DEF CarriesOver
<1>4. Remap(A[y].inputs, m) = Remap(A[y].inputs, mnew)
  BY <1>3 DEF Remap
<1> QED
  BY <1>2, <1>3, <1>4 DEF StandsFor

LEMMA VisitedFacts ==
    ASSUME NEW A, NEW tip, Authored(A, tip), NEW rest, NEW m, NEW ns, NEW os,
           Rewriting(A, tip, rest, m, ns, os)
    PROVE  /\ Reachable(A, tip) \ rest \subseteq 1..Len(A)
           /\ InputClosed(A, Reachable(A, tip) \ rest)
           /\ IsFiniteSet(Reachable(A, tip) \ rest)
           /\ Cardinality(Reachable(A, tip) \ rest) \in Nat
           /\ DraftMap(A, Reachable(A, tip) \ rest, m, ns, os)
           /\ NodeList(ns) /\ Len(ns) \in Nat
<1> DEFINE live == Reachable(A, tip)
           done == live \ rest
<1>1. NodeList(A) /\ WellFormed(A) /\ tip \in 1..Len(A) /\ Ordered(live, rest)
  BY DEF Authored, Rewriting
<1>2. live \subseteq 1..Len(A) /\ InputClosed(A, live)
  BY <1>1, WalkClosed
<1>3. IsFiniteSet(1..Len(A))
  <2>1. Len(A) \in Int /\ 1 \in Int
    BY <1>1, ListFacts
  <2> QED
    BY <2>1, FS_Interval
<1>4. ASSUME NEW y \in done, NEW k \in 1..Len(A[y].inputs)
      PROVE  A[y].inputs[k] \in done
  BY <1>1, <1>2, VisitedClosed
<1>5. DraftMap(A, done, m, ns, os) /\ NodeList(ns)
  BY DEF Rewriting, Emitted
<1>6. Len(ns) \in Nat
  BY <1>5, ListFacts
<1>7. done \in SUBSET (1..Len(A))
  BY <1>2
<1> HIDE DEF live, done
<1>8. InputClosed(A, done)
  BY <1>4 DEF InputClosed, Inputs
<1>9. IsFiniteSet(done)
  BY <1>3, <1>7, FS_Subset
<1>10. Cardinality(done) \in Nat
  BY <1>9, FS_CardinalityType
<1> QED
  BY <1>5, <1>6, <1>7, <1>8, <1>9, <1>10 DEF done, live

LEMMA TurnLedger ==
    ASSUME NEW A, NEW tip, Authored(A, tip), NEW rest, NEW m, NEW ns, NEW os,
           Rewriting(A, tip, rest, m, ns, os), NEW x \in rest, \A y \in rest : x <= y
    PROVE  /\ x \in 1..Len(A) /\ x \notin Reachable(A, tip) \ rest
           /\ \A k \in 1..Len(A[x].inputs) : A[x].inputs[k] \in Reachable(A, tip) \ rest
           /\ Reachable(A, tip) \ (rest \ {x}) = (Reachable(A, tip) \ rest) \cup {x}
           /\ Cardinality((Reachable(A, tip) \ rest) \cup {x})
                = Cardinality(Reachable(A, tip) \ rest) + 1
<1> DEFINE live == Reachable(A, tip)
           done == live \ rest
<1>1. NodeList(A) /\ WellFormed(A) /\ tip \in 1..Len(A) /\ Ordered(live, rest)
  BY DEF Authored, Rewriting
<1>2. live \subseteq 1..Len(A) /\ InputClosed(A, live)
  BY <1>1, WalkClosed
<1>3. IsFiniteSet(done)
  BY VisitedFacts
<1> HIDE DEF live
<1>4. /\ x \in 1..Len(A) /\ x \notin done
      /\ \A k \in 1..Len(A[x].inputs) : A[x].inputs[k] \in done
  BY <1>1, <1>2, NextReady
<1>5. live \ (rest \ {x}) = done \cup {x}
  BY <1>1 DEF Ordered
<1> HIDE DEF done
<1>6. Cardinality(done \cup {x}) = Cardinality(done) + 1
  BY <1>3, <1>4, FS_AddElement
<1> QED
  BY <1>4, <1>5, <1>6 DEF done, live

LEMMA TurnReads ==
    ASSUME NEW A, NEW tip, Authored(A, tip), NEW rest, NEW m, NEW ns, NEW os,
           Rewriting(A, tip, rest, m, ns, os), NEW x \in rest, \A y \in rest : x <= y,
           NEW k \in 1..Len(A[x].inputs)
    PROVE  A[x].inputs[k] \in Reachable(A, tip) \ rest
<1>1. \A j \in 1..Len(A[x].inputs) : A[x].inputs[j] \in Reachable(A, tip) \ rest
  BY TurnLedger, Zenon
<1> QED
  BY <1>1

\* A node for x was appended to ns and os.
Recorded(x, ns, os, mnew, new, osnew) ==
    /\ Len(new) = Len(ns) + 1
    /\ mnew[x] = Len(ns) + 1
    /\ osnew[Len(ns) + 1] = x
    /\ \A i \in 1..Len(ns) : osnew[i] = os[i]

\* It reads what x reads, or what the parents G read.
Covers(A, x, m, ns, G, inputs) ==
    \/ inputs = Remap(A[x].inputs, m)
    \/ \A k \in 1..Len(A[x].inputs) :
          /\ m[A[x].inputs[k]] \in G
          /\ Inputs(ns[m[A[x].inputs[k]]]) \subseteq {inputs[j] : j \in 1..Len(inputs)}

\* A node was recorded: a copy, with no parents G, or a collapse onto the one in G.
LEMMA EmitLedger ==
    ASSUME NEW A, NEW tip, Authored(A, tip), NEW rest, NEW m, NEW ns, NEW os,
           Rewriting(A, tip, rest, m, ns, os), NEW x \in rest, \A y \in rest : x <= y,
           NEW rs, Ledger(A, Reachable(A, tip) \ rest, m, ns, os, rs),
           NEW new, NEW mnew, CarriesOver(Reachable(A, tip) \ rest, m, ns, mnew, new),
           NEW osnew, Recorded(x, ns, os, mnew, new, osnew),
           NEW G \in SUBSET (1..Len(ns)), Covers(A, x, m, ns, G, new[Len(ns) + 1].inputs),
           NEW rsnew, IsList(rsnew), Len(rsnew) = Len(rs) + Cardinality(G)
    PROVE  Ledger(A, Reachable(A, tip) \ (rest \ {x}), mnew, new, osnew, rsnew)
<1> DEFINE done == Reachable(A, tip) \ rest
<1>1. /\ done \subseteq 1..Len(A) /\ InputClosed(A, done)
      /\ Cardinality(done) \in Nat /\ DraftMap(A, done, m, ns, os) /\ Len(ns) \in Nat
  BY VisitedFacts
<1>2a. /\ x \notin done
       /\ Reachable(A, tip) \ (rest \ {x}) = done \cup {x}
       /\ Cardinality(done \cup {x}) = Cardinality(done) + 1
  <2>1. x \notin done
    BY TurnLedger
  <2>2. Ordered(Reachable(A, tip), rest)
    BY DEF Rewriting
  <2>3. Reachable(A, tip) \ (rest \ {x}) = done \cup {x}
    BY <2>2 DEF Ordered
  <2>4. IsFiniteSet(done)
    BY VisitedFacts
  <2>5. Cardinality(done \cup {x}) = Cardinality(done) + 1
    <3> HIDE DEF done
    <3> QED
      BY <2>1, <2>4, FS_AddElement
  <2> QED
    BY <2>1, <2>3, <2>5
<1>2b. ASSUME NEW k \in 1..Len(A[x].inputs)
       PROVE  A[x].inputs[k] \in done
  BY TurnReads
<1>3. PICK K \in SUBSET (1..Len(ns)) :
          /\ Cardinality(done) + Cardinality(K) <= Len(rs) + Len(ns)
          /\ Len(ns) <= Cardinality(done)
          /\ \A y \in done : StandsFor(A, y, m, ns, K)
  BY DEF Ledger
<1> DEFINE L == K \cup G
<1>4. CarriesOver(done, m, ns, mnew, new)
  OBVIOUS
<1> HIDE DEF done
<1>5. IsFiniteSet(1..Len(ns))
  BY <1>1, FS_Interval
<1>6. /\ IsFiniteSet(K) /\ IsFiniteSet(G)
      /\ Cardinality(K) \in Nat /\ Cardinality(G) \in Nat
  BY <1>5, FS_Subset, FS_CardinalityType
<1>7. Cardinality(L) <= Cardinality(K) + Cardinality(G) /\ Cardinality(L) \in Nat
  <2>1. /\ IsFiniteSet(L)
        /\ Cardinality(L) = Cardinality(K) + Cardinality(G) - Cardinality(K \cap G)
    BY <1>6, FS_Union
  <2>2. K \cap G \in SUBSET K
    OBVIOUS
  <2>3. IsFiniteSet(K \cap G)
    BY <1>6, <2>2, FS_Subset
  <2>4. Cardinality(K \cap G) \in Nat /\ Cardinality(L) \in Nat
    BY <2>1, <2>3, FS_CardinalityType
  <2> HIDE DEF L
  <2> QED
    BY <1>6, <2>1, <2>4
<1>8. Len(rs) \in Nat
  BY DEF Ledger, IsList
<1>9. Cardinality(done \cup {x}) + Cardinality(L) <= Len(rsnew) + Len(new)
  BY <1>1, <1>2a, <1>3, <1>6, <1>7, <1>8 DEF Recorded
<1>10. Len(new) <= Cardinality(done \cup {x})
  BY <1>1, <1>2a, <1>3 DEF Recorded
<1>11. L \in SUBSET (1..Len(new))
  BY <1>1 DEF Recorded
<1>12. ASSUME NEW y \in done
       PROVE  StandsFor(A, y, mnew, new, L)
  <2>1. StandsFor(A, y, m, ns, K)
    BY <1>3
  <2>2. InputClosed(A, done)
    BY <1>1
  <2> QED
    BY <1>4, <2>1, <2>2, StandsForKept, Zenon
<1>13. StandsFor(A, x, mnew, new, L)
  <2>1. \A k \in 1..Len(A[x].inputs) :
            /\ mnew[A[x].inputs[k]] = m[A[x].inputs[k]]
            /\ m[A[x].inputs[k]] \in 1..Len(ns)
            /\ new[mnew[A[x].inputs[k]]] = ns[m[A[x].inputs[k]]]
    BY <1>2b, <1>4 DEF CarriesOver
  <2>2. Remap(A[x].inputs, m) = Remap(A[x].inputs, mnew)
    BY <2>1 DEF Remap
  <2>3. new[mnew[x]].inputs = new[Len(ns) + 1].inputs
    BY DEF Recorded
  <2>4. Inputs(new[mnew[x]]) = {new[Len(ns) + 1].inputs[j] : j \in 1..Len(new[Len(ns) + 1].inputs)}
    BY <2>3 DEF Inputs
  <2>5. CASE new[Len(ns) + 1].inputs = Remap(A[x].inputs, m)
    BY <2>2, <2>3, <2>5 DEF StandsFor
  <2>6. CASE \A k \in 1..Len(A[x].inputs) :
                /\ m[A[x].inputs[k]] \in G
                /\ Inputs(ns[m[A[x].inputs[k]]]) \subseteq Inputs(new[mnew[x]])
    BY <2>1, <2>6 DEF StandsFor
  <2> QED
    BY <2>4, <2>5, <2>6 DEF Covers
<1> HIDE DEF L
<1>14. \A y \in done \cup {x} : StandsFor(A, y, mnew, new, L)
  BY <1>12, <1>13
<1>15. ASSUME NEW k \in 1..Len(new)
       PROVE  osnew[k] \in done \cup {x} /\ mnew[osnew[k]] = k
  <2>1. \A i \in 1..Len(ns) : os[i] \in done /\ m[os[i]] = i
    BY DEF Ledger, done
  <2>2. k \in 1..Len(ns) \/ k = Len(ns) + 1
    BY <1>1 DEF Recorded
  <2> QED
    BY <1>4, <2>1, <2>2 DEF CarriesOver, Recorded
<1>16. Ledger(A, done \cup {x}, mnew, new, osnew, rsnew)
  BY <1>9, <1>10, <1>11, <1>14, <1>15 DEF Ledger
<1> QED
  BY <1>2a, <1>16

\* A node was erased.
LEMMA EraseLedger ==
    ASSUME NEW A, NEW tip, Authored(A, tip), NEW rest, NEW m, NEW ns, NEW os,
           Rewriting(A, tip, rest, m, ns, os), NEW x \in rest, \A y \in rest : x <= y,
           Erased(A, x), NEW rs, Ledger(A, Reachable(A, tip) \ rest, m, ns, os, rs),
           NEW mnew, \A z \in Reachable(A, tip) \ rest : mnew[z] = m[z],
           NEW rsnew, IsList(rsnew), Len(rsnew) = Len(rs) + 1
    PROVE  Ledger(A, Reachable(A, tip) \ (rest \ {x}), mnew, ns, os, rsnew)
<1> DEFINE done == Reachable(A, tip) \ rest
<1>1. /\ InputClosed(A, done) /\ IsFiniteSet(done)
      /\ Cardinality(done) \in Nat /\ DraftMap(A, done, m, ns, os)
      /\ done \subseteq 1..Len(A) /\ Len(ns) \in Nat
  BY VisitedFacts
<1>2. x \notin done
  BY TurnLedger
<1>3. Reachable(A, tip) \ (rest \ {x}) = done \cup {x}
  <2>1. Ordered(Reachable(A, tip), rest)
    BY DEF Rewriting
  <2> QED
    BY <2>1 DEF Ordered
<1>4. PICK K \in SUBSET (1..Len(ns)) :
          /\ Cardinality(done) + Cardinality(K) <= Len(rs) + Len(ns)
          /\ Len(ns) <= Cardinality(done)
          /\ \A y \in done : StandsFor(A, y, m, ns, K)
  BY DEF Ledger
<1>5. \A z \in done : mnew[z] = m[z]
  OBVIOUS
<1> HIDE DEF done
<1>6. Cardinality(done \cup {x}) = Cardinality(done) + 1
  BY <1>1, <1>2, FS_AddElement
<1>7. IsFiniteSet(K) /\ Cardinality(K) \in Nat
  <2>1. IsFiniteSet(1..Len(ns))
    BY <1>1, FS_Interval
  <2> QED
    BY <2>1, FS_Subset, FS_CardinalityType
<1>8. Len(rs) \in Nat
  BY DEF Ledger, IsList
<1>9. Cardinality(done \cup {x}) + Cardinality(K) <= Len(rsnew) + Len(ns)
  BY <1>1, <1>4, <1>6, <1>7, <1>8
<1>10. Len(ns) <= Cardinality(done \cup {x})
  BY <1>1, <1>4, <1>6
<1>11. ASSUME NEW y \in done
       PROVE  StandsFor(A, y, mnew, ns, K)
  <2>1. StandsFor(A, y, m, ns, K)
    BY <1>4
  <2>2. InputClosed(A, done) /\ K \cup {} = K
    BY <1>1
  <2>3. CarriesOver(done, m, ns, mnew, ns)
    BY <1>1, <1>5 DEF CarriesOver, DraftMap
  <2>4. StandsFor(A, y, mnew, ns, K \cup {})
    BY <2>1, <2>2, <2>3, StandsForKept, Zenon
  <2> QED
    BY <2>2, <2>4
<1>12. \A y \in done \cup {x} : StandsFor(A, y, mnew, ns, K)
  BY <1>11 DEF StandsFor
<1>13. \A k \in 1..Len(ns) : os[k] \in done \cup {x} /\ mnew[os[k]] = k
  BY <1>5 DEF Ledger, done
<1>14. Ledger(A, done \cup {x}, mnew, ns, os, rsnew)
  BY <1>9, <1>10, <1>12, <1>13 DEF Ledger
<1> QED
  BY <1>3, <1>14

-----------------------------------------------------------------------------
(* The end of the first loop.                                              *)

\* The rules rs account for a view of count nodes of what was authored.
Accounts(live, count, rs) ==
    /\ IsList(rs)
    /\ Cardinality(live) - count <= Len(rs)
    /\ rs = <<>> => count = Cardinality(live)

\* What the new root does not reach was a parent.
LEMMA ReachedOrParent ==
    ASSUME NEW A, NEW tip, Authored(A, tip), NEW m, NEW ns, NEW os,
           Rewriting(A, tip, {}, m, ns, os),
           \A k \in 1..Len(ns) : os[k] \in Reachable(A, tip) /\ m[os[k]] = k,
           NEW K, \A x \in Reachable(A, tip) : StandsFor(A, x, m, ns, K)
    PROVE  1..Len(ns) \subseteq Reachable(ns, m[tip]) \cup K
<1> DEFINE live == Reachable(A, tip)
           R == Reachable(ns, m[tip])
           D == {x \in live : m[x] \in R \cup K /\ Inputs(ns[m[x]]) \subseteq R}
<1>1. NodeList(A) /\ WellFormed(A) /\ Arity(A) /\ tip \in 1..Len(A)
  BY DEF Authored
<1>2. live \ {} = live
  OBVIOUS
<1>3. Emitted(A, live, ns, os) /\ DraftMap(A, live, m, ns, os)
  BY <1>2 DEF Rewriting
<1>4. tip \in live /\ live \subseteq 1..Len(A) /\ InputClosed(A, live)
  BY <1>1, WalkClosed
<1>5. NodeList(ns) /\ WellFormed(ns) /\ m[tip] \in 1..Len(ns)
  BY <1>1, <1>3, <1>4 DEF DraftMap, Emitted
<1>6. m[tip] \in R /\ R \subseteq 1..Len(ns) /\ InputClosed(ns, R)
  BY <1>5, WalkClosed
<1> HIDE DEF R
<1>7. tip \in D
  BY <1>4, <1>6 DEF InputClosed
<1>8. ASSUME NEW x \in D, NEW k \in 1..Len(A[x].inputs)
      PROVE  A[x].inputs[k] \in D
  <2> DEFINE y == A[x].inputs[k]
  <2>1. y \in live
    BY <1>4 DEF InputClosed, Inputs
  <2>2. CASE Erased(A, x)
    <3>1. x \in 1..Len(A)
      BY <1>4
    <3>2. Len(A[x].inputs) = 1
      BY <1>1, <2>2, <3>1 DEF Erased, Arity, HasArity, UnaryKind
    <3>3. m[x] = m[y]
      BY <1>3, <2>2, <3>2 DEF DraftMap
    <3> QED
      BY <2>1, <3>3
  <2>3. CASE ns[m[x]].inputs = Remap(A[x].inputs, m)
    <3>1. A[x].inputs \in Seq(Nat)
      BY <1>1, <1>4, ListFacts
    <3>2. k \in 1..Len(ns[m[x]].inputs) /\ ns[m[x]].inputs[k] = m[y]
      BY <2>3, <3>1 DEF Remap
    <3>3. m[y] \in Inputs(ns[m[x]])
      BY <3>2 DEF Inputs
    <3>4. m[y] \in R
      BY <3>3
    <3>5. Inputs(ns[m[y]]) \subseteq R
      BY <1>6, <3>4 DEF InputClosed
    <3> QED
      BY <2>1, <3>4, <3>5
  <2>4. CASE m[y] \in K /\ Inputs(ns[m[y]]) \subseteq Inputs(ns[m[x]])
    BY <2>1, <2>4
  <2> QED
    BY <2>2, <2>3, <2>4 DEF StandsFor
<1>9. D \in SUBSET (1..Len(A))
  BY <1>4
<1> HIDE DEF D
<1>10. InputClosed(A, D)
  BY <1>8 DEF InputClosed, Inputs
<1>11. \A x \in live : x \in D
  BY <1>7, <1>9, <1>10 DEF Reachable
<1>12. ASSUME NEW i \in 1..Len(ns)
       PROVE  i \in R \cup K
  <2>1. os[i] \in D /\ m[os[i]] = i
    BY <1>11
  <2> QED
    BY <2>1 DEF D
<1> QED
  BY <1>12 DEF R

\* The rules account for what the root reaches.
LEMMA LedgerCloses ==
    ASSUME NEW A, NEW tip, Authored(A, tip), NEW m, NEW ns, NEW os,
           Rewriting(A, tip, {}, m, ns, os),
           NEW rs, Ledger(A, Reachable(A, tip), m, ns, os, rs)
    PROVE  Accounts(Reachable(A, tip), Cardinality(Reachable(ns, m[tip])), rs)
<1> DEFINE live == Reachable(A, tip)
           R == Reachable(ns, m[tip])
<1>1. live \ {} = live
  OBVIOUS
<1>2. Cardinality(live) \in Nat /\ Len(ns) \in Nat
  BY <1>1, VisitedFacts
<1>3. PICK K \in SUBSET (1..Len(ns)) :
          /\ Cardinality(live) + Cardinality(K) <= Len(rs) + Len(ns)
          /\ Len(ns) <= Cardinality(live)
          /\ \A y \in live : StandsFor(A, y, m, ns, K)
  BY DEF Ledger
<1>4. \A k \in 1..Len(ns) : os[k] \in live /\ m[os[k]] = k
  BY DEF Ledger
<1>5. 1..Len(ns) \subseteq R \cup K
  BY <1>3, <1>4, ReachedOrParent
<1>6. R \subseteq 1..Len(ns)
  BY DEF Reachable
<1> HIDE DEF live, R
<1>7. R \cup K = 1..Len(ns)
  BY <1>5, <1>6
<1>8. IsFiniteSet(1..Len(ns)) /\ Cardinality(1..Len(ns)) = Len(ns)
  <2>1. 1 \in Int /\ Len(ns) \in Int
    BY <1>2
  <2>2. /\ IsFiniteSet(1..Len(ns))
        /\ Cardinality(1..Len(ns)) = IF 1 > Len(ns) THEN 0 ELSE Len(ns) - 1 + 1
    BY <2>1, FS_Interval
  <2> QED
    BY <1>2, <2>2
<1>9. /\ IsFiniteSet(R) /\ IsFiniteSet(K)
      /\ Cardinality(R) \in Nat /\ Cardinality(K) \in Nat
  BY <1>6, <1>8, FS_Subset, FS_CardinalityType
<1>10. Cardinality(R) <= Len(ns)
  BY <1>6, <1>8, FS_Subset
<1>11. Len(ns) <= Cardinality(R) + Cardinality(K)
  <2>1. Cardinality(R \cup K) = Cardinality(R) + Cardinality(K) - Cardinality(R \cap K)
    BY <1>9, FS_Union
  <2>2. R \cap K \in SUBSET K
    OBVIOUS
  <2>3. Cardinality(R \cap K) \in Nat
    BY <1>9, <2>2, FS_Subset, FS_CardinalityType
  <2>4. Cardinality(R \cup K) = Len(ns)
    BY <1>7, <1>8
  <2> QED
    BY <1>2, <1>9, <2>1, <2>3, <2>4
<1>12. IsList(rs) /\ Len(rs) \in Nat
  BY DEF Ledger, IsList
<1>13. Cardinality(live) - Cardinality(R) <= Len(rs)
  BY <1>2, <1>3, <1>9, <1>11, <1>12
<1>14. rs = <<>> => Cardinality(R) = Cardinality(live)
  BY <1>2, <1>3, <1>9, <1>10, <1>11, <1>12
<1> QED
  BY <1>12, <1>13, <1>14 DEF Accounts, live, R

\* The second loop keeps one node for each that it visits.
LEMMA CompactCount ==
    ASSUME NEW A, NEW tip, NEW rest, NEW m, NEW ns, NEW os, NEW v,
           Compacting(A, tip, rest, m, ns, os, v), NEW x \in rest
    PROVE  Cardinality(Reachable(ns, v.root) \ (rest \ {x}))
             = Cardinality(Reachable(ns, v.root) \ rest) + 1
<1> DEFINE live == Reachable(ns, v.root)
           done == live \ rest
<1>1. NodeList(ns) /\ Ordered(live, rest)
  BY DEF Compacting, Emitted
<1>2. Len(ns) \in Int /\ 1 \in Int
  BY <1>1, ListFacts
<1>3. IsFiniteSet(1..Len(ns))
  BY <1>2, FS_Interval
<1>4. done \in SUBSET (1..Len(ns))
  BY DEF Reachable
<1> HIDE DEF live
<1>5. live \ (rest \ {x}) = done \cup {x} /\ x \notin done
  BY <1>1 DEF Ordered
<1> HIDE DEF done
<1>6. Cardinality(done \cup {x}) = Cardinality(done) + 1
  BY <1>3, <1>4, <1>5, FS_Subset, FS_AddElement
<1> QED
  BY <1>5, <1>6 DEF done, live

-----------------------------------------------------------------------------
(* The pass.                                                               *)

\* What each phase still owes to the account.
PassLedger ==
    /\ phase = "resting" => rules = <<>>
    /\ phase = "rewriting" =>
          Ledger(AuthoredNodes, AuthoredReachable \ unvisited, newId, draft, origins, rules)
    /\ phase = "compacting" =>
          /\ Accounts(AuthoredReachable, Cardinality(Reachable(draft, view.root)), rules)
          /\ Len(view.nodes) = Cardinality(Reachable(draft, view.root) \ unvisited)
    /\ phase = "derived" =>
          Accounts(AuthoredReachable, Len(view.nodes), rules)

LEMMA BeginDeriveLedger ==
    ASSUME PassLedger, RewriteInv, NEW c \in cursors, BeginDerive(c), UNCHANGED vars
    PROVE  PassLedger'
<1> DEFINE A == nodes[c.store]
           live == Reachable(A, c.tip)
           zeros == [i \in 1..Len(A) |-> 0]
<1>1. /\ phase' = "rewriting" /\ unvisited' = live /\ newId' = zeros
      /\ draft' = <<>> /\ origins' = <<>> /\ rules' = <<>>
  BY DEF BeginDerive, RewriteInv, PassOK, PassLedger
<1>2. AuthoredNodes' = A /\ AuthoredReachable' = live
  BY DEF BeginDerive, AuthoredNodes, AuthoredReachable, vars, storeVars
<1>3. live \ live = {}
  OBVIOUS
<1>4. Cardinality({}) = 0
  BY FS_EmptySet
<1> HIDE DEF A, live, zeros
<1>5. Ledger(A, {}, zeros, <<>>, <<>>, <<>>)
  <2>1. IsList(<<>>)
    BY DEF IsList
  <2>2. {} \in SUBSET (1..Len(<<>>)) /\ Len(<<>>) = 0
    OBVIOUS
  <2> QED
    BY <1>4, <2>1, <2>2 DEF Ledger
<1> QED
  BY <1>1, <1>2, <1>3, <1>5 DEF PassLedger

\* What the first loop knows when it visits x.
LEMMA TurnState ==
    ASSUME PassLedger, RewriteInv, NEW x \in unvisited, IsTurnOf(x, "rewriting")
    PROVE  /\ phase = "rewriting" /\ \A y \in unvisited : x <= y
           /\ Authored(AuthoredNodes, request.tip)
           /\ Rewriting(AuthoredNodes, request.tip, unvisited, newId, draft, origins)
           /\ Ledger(AuthoredNodes, Reachable(AuthoredNodes, request.tip) \ unvisited,
                     newId, draft, origins, rules)
<1>1. phase = "rewriting" /\ \A y \in unvisited : x <= y
  BY DEF IsTurnOf
<1>2. request \in cursors /\ IInv /\ StoreArity
  BY <1>1 DEF RewriteInv, PassOK
<1>3. Authored(AuthoredNodes, request.tip)
  BY <1>2, RequestAuthored
<1> QED
  BY <1>1, <1>3 DEF RewriteInv, PassOK, PassLedger, AuthoredReachable

\* An iteration of the first loop that keeps the ledger.
LEMMA LedgerStep ==
    ASSUME NEW x \in unvisited, IsTurnOf(x, "rewriting"), Visit(x), UNCHANGED vars,
           Ledger(AuthoredNodes, Reachable(AuthoredNodes, request.tip) \ (unvisited \ {x}),
                  newId', draft', origins', rules')
    PROVE  PassLedger'
<1>1. AuthoredNodes' = AuthoredNodes /\ AuthoredReachable' = AuthoredReachable
  BY DEF AuthoredNodes, AuthoredReachable, Visit, vars, storeVars
<1>2. phase' = "rewriting" /\ unvisited' = unvisited \ {x}
  BY DEF Visit, IsTurnOf
<1> QED
  BY <1>1, <1>2 DEF PassLedger, AuthoredReachable

\* Emit appends.
LEMMA EmitAppends ==
    ASSUME PassLedger, RewriteInv, NEW x \in unvisited, IsTurnOf(x, "rewriting"),
           NEW kind, NEW inputs, NEW payload, Emit(x, kind, inputs, payload)
    PROVE  /\ Len(draft) \in Nat /\ Len(draft') = Len(draft) + 1
           /\ draft'[Len(draft) + 1].kind = kind
           /\ draft'[Len(draft) + 1].inputs = inputs
           /\ draft'[Len(draft) + 1].payload = payload
           /\ \A i \in 1..Len(draft) : draft'[i] = draft[i] /\ origins'[i] = origins[i]
           /\ origins'[Len(draft) + 1] = x
           /\ newId'[x] = Len(draft) + 1
           /\ \A z \in Reachable(AuthoredNodes, request.tip) \ unvisited : newId'[z] = newId[z]
<1> DEFINE A == AuthoredNodes
           tip == request.tip
           done == Reachable(A, tip) \ unvisited
           n == [id |-> Len(draft) + 1, kind |-> kind, inputs |-> inputs, payload |-> payload]
<1>1. /\ phase = "rewriting" /\ \A y \in unvisited : x <= y
      /\ Authored(A, tip) /\ Rewriting(A, tip, unvisited, newId, draft, origins)
  BY TurnState
<1>2. /\ draft' = Append(draft, n) /\ origins' = Append(origins, x)
      /\ newId' = [newId EXCEPT ![x] = Len(draft) + 1]
  BY DEF Emit
<1>3. IsList(draft) /\ IsList(origins) /\ Len(origins) = Len(draft) /\ Len(draft) \in Nat
  BY <1>1, ListFacts DEF Rewriting, Emitted, NodeList, IsList
<1>4. n.kind = kind /\ n.inputs = inputs /\ n.payload = payload
  OBVIOUS
<1> HIDE DEF n
<1>5. Appended(draft, n, draft') /\ Appended(origins, x, origins')
  BY <1>2, <1>3, AppendIsAppended
<1>6. x \in 1..Len(A) /\ x \notin done
  BY <1>1, TurnLedger
<1>7. done \subseteq 1..Len(A) /\ newId \in Seq(Nat) /\ Len(newId) = Len(A)
  BY <1>1, VisitedFacts DEF DraftMap
<1> HIDE DEF A, tip, done
<1>8. newId'[x] = Len(draft) + 1 /\ \A z \in done : newId'[z] = newId[z]
  BY <1>2, <1>6, <1>7
<1> QED
  BY <1>3, <1>4, <1>5, <1>8 DEF Appended, done, A, tip

\* A recorded node that reads what x reads, or what the parents G read.
LEMMA EmitPays ==
    ASSUME PassLedger, RewriteInv, NEW x \in unvisited, IsTurnOf(x, "rewriting"),
           Visit(x), UNCHANGED vars,
           NEW kind, NEW inputs, NEW payload, Emit(x, kind, inputs, payload),
           NEW G \in SUBSET (1..Len(draft)), IsList(rules'),
           Len(rules') = Len(rules) + Cardinality(G),
           Covers(AuthoredNodes, x, newId, draft, G, inputs)
    PROVE  PassLedger'
<1> DEFINE A == AuthoredNodes
           tip == request.tip
           new == draft'
           osnew == origins'
           mnew == newId'
           rsnew == rules'
<1>1. /\ \A y \in unvisited : x <= y
      /\ Authored(A, tip) /\ Rewriting(A, tip, unvisited, newId, draft, origins)
      /\ Ledger(A, Reachable(A, tip) \ unvisited, newId, draft, origins, rules)
  BY TurnState
<1>2. Recorded(x, draft, origins, mnew, new, osnew) /\ new[Len(draft) + 1].inputs = inputs
  BY EmitAppends DEF Recorded
<1>3. CarriesOver(Reachable(A, tip) \ unvisited, newId, draft, mnew, new)
  <2>1. \A z \in Reachable(A, tip) \ unvisited : newId[z] \in 1..Len(draft)
    BY <1>1, VisitedFacts DEF DraftMap
  <2> QED
    BY <2>1, EmitAppends DEF CarriesOver
<1>4. Covers(A, x, newId, draft, G, new[Len(draft) + 1].inputs)
  BY <1>2
<1>5. IsList(rsnew) /\ Len(rsnew) = Len(rules) + Cardinality(G)
  OBVIOUS
<1> HIDE DEF A, tip, new, osnew, mnew, rsnew
<1>6. Ledger(A, Reachable(A, tip) \ (unvisited \ {x}), mnew, new, osnew, rsnew)
  BY <1>1, <1>2, <1>3, <1>4, <1>5, EmitLedger
<1> QED
  BY <1>6, LedgerStep DEF A, tip, new, osnew, mnew, rsnew

\* A collapse pays for its parent.
LEMMA CollapsePays ==
    ASSUME PassLedger, RewriteInv, NEW x \in unvisited, IsTurnOf(x, "rewriting"),
           UNCHANGED vars, AuthoredNodes[x].kind \in UnaryKind, Parent(x).kind \in UnaryKind,
           NEW rule, NEW payload, Collapse(x, rule, payload)
    PROVE  PassLedger'
<1> DEFINE A == AuthoredNodes
           tip == request.tip
           p == RemappedInputs(x)[1]
           q == draft[p].inputs[1]
           inputs == <<Parent(x).inputs[1]>>
           G == {p}
<1>1. /\ \A y \in unvisited : x <= y
      /\ Authored(A, tip) /\ Rewriting(A, tip, unvisited, newId, draft, origins)
      /\ Ledger(A, Reachable(A, tip) \ unvisited, newId, draft, origins, rules)
  BY TurnState
<1>2. /\ x \in 1..Len(A) /\ p \in 1..Len(draft) /\ p = newId[A[x].inputs[1]]
      /\ Arity(draft)
  BY <1>1, TurnFacts DEF RemappedInputs
<1>3. Len(A[x].inputs) = 1
  BY <1>1, <1>2 DEF Authored, Arity, HasArity
<1>4. Len(draft[p].inputs) = 1 /\ Parent(x) = draft[p]
  BY <1>2 DEF Arity, HasArity, Parent
<1>5. Inputs(draft[p]) = {q}
  BY <1>4 DEF Inputs
<1>6. inputs = <<q>>
  BY <1>4
<1>7. q \in {inputs[j] : j \in 1..Len(inputs)}
  BY <1>6
<1>8. IsList(rules') /\ Len(rules') = Len(rules) + 1
  <2>1. IsList(rules) /\ rules' = Append(rules, rule)
    BY <1>1 DEF Ledger, Collapse
  <2> QED
    BY <2>1, AppendIsAppended DEF Appended
<1>9. G \in SUBSET (1..Len(draft)) /\ Cardinality(G) = 1
  BY <1>2, FS_Singleton
<1>10. Visit(x) /\ Emit(x, A[x].kind, inputs, payload)
  BY DEF Collapse
<1>11. ASSUME NEW k \in 1..Len(A[x].inputs)
       PROVE  /\ newId[A[x].inputs[k]] \in G
              /\ Inputs(draft[newId[A[x].inputs[k]]]) \subseteq {inputs[j] : j \in 1..Len(inputs)}
  <2>1. newId[A[x].inputs[k]] = p
    BY <1>2, <1>3
  <2> QED
    BY <1>5, <1>7, <2>1
<1>12. Covers(A, x, newId, draft, G, inputs)
  BY <1>11 DEF Covers
<1> HIDE DEF G, inputs, p
<1>13. Len(rules') = Len(rules) + Cardinality(G)
  BY <1>8, <1>9
<1> QED
  BY <1>8, <1>9, <1>10, <1>12, <1>13, EmitPays

LEMMA CopyPays ==
    ASSUME PassLedger, RewriteInv, NEW x \in unvisited, IsTurnOf(x, "rewriting"),
           UNCHANGED vars, CopyNode(x)
    PROVE  PassLedger'
<1> DEFINE G == {}
           inputs == RemappedInputs(x)
<1>1. Ledger(AuthoredNodes, Reachable(AuthoredNodes, request.tip) \ unvisited,
             newId, draft, origins, rules)
  BY TurnState
<1>2. IsList(rules') /\ Len(rules') = Len(rules) /\ Len(rules) \in Nat
  BY <1>1 DEF CopyNode, Ledger, IsList
<1>3. G \in SUBSET (1..Len(draft)) /\ Cardinality(G) = 0
  BY FS_EmptySet
<1>4. /\ Visit(x)
      /\ Emit(x, AuthoredNodes[x].kind, inputs, AuthoredNodes[x].payload)
  BY DEF CopyNode
<1>5. Covers(AuthoredNodes, x, newId, draft, G, inputs)
  BY DEF RemappedInputs, Covers
<1> HIDE DEF G, inputs
<1>6. Len(rules') = Len(rules) + Cardinality(G)
  BY <1>2, <1>3
<1> QED
  BY <1>2, <1>3, <1>4, <1>5, <1>6, EmitPays

LEMMA ErasePays ==
    ASSUME PassLedger, RewriteInv, NEW x \in unvisited, IsTurnOf(x, "rewriting"),
           UNCHANGED vars, EliminateFilterTrue(x)
    PROVE  PassLedger'
<1> DEFINE A == AuthoredNodes
           tip == request.tip
           done == Reachable(A, tip) \ unvisited
<1>1. /\ \A y \in unvisited : x <= y
      /\ Authored(A, tip) /\ Rewriting(A, tip, unvisited, newId, draft, origins)
      /\ Ledger(A, done, newId, draft, origins, rules)
  BY TurnState
<1>2. Erased(A, x)
  BY DEF EliminateFilterTrue, CanEliminateFilterTrue, Erased
<1>3. /\ Visit(x) /\ draft' = draft /\ origins' = origins
      /\ newId' = [newId EXCEPT ![x] = RemappedInputs(x)[1]]
      /\ rules' = Append(rules, "eliminate_filter_true")
  BY DEF EliminateFilterTrue
<1>4. IsList(rules') /\ Len(rules') = Len(rules) + 1
  <2>1. IsList(rules)
    BY <1>1 DEF Ledger
  <2> QED
    BY <1>3, <2>1, AppendIsAppended DEF Appended
<1>5. done \subseteq 1..Len(A) /\ newId \in Seq(Nat) /\ Len(newId) = Len(A)
  BY <1>1, VisitedFacts DEF DraftMap
<1>6. x \notin done
  BY <1>1, TurnLedger
<1> HIDE DEF done
<1>7. \A z \in done : newId'[z] = newId[z]
  BY <1>3, <1>5, <1>6
<1> DEFINE mnew == newId'
           rsnew == rules'
<1>8. /\ \A z \in Reachable(A, tip) \ unvisited : mnew[z] = newId[z]
      /\ IsList(rsnew) /\ Len(rsnew) = Len(rules) + 1
  BY <1>4, <1>7 DEF done
<1>9. Ledger(A, Reachable(A, tip) \ unvisited, newId, draft, origins, rules)
  BY <1>1 DEF done
<1> HIDE DEF A, tip, mnew, rsnew
<1>10. Ledger(A, Reachable(A, tip) \ (unvisited \ {x}), mnew, draft, origins, rsnew)
  BY <1>1, <1>2, <1>8, <1>9, EraseLedger
<1> QED
  BY <1>3, <1>10, LedgerStep DEF A, tip, mnew, rsnew

LEMMA BeginCompactionLedger ==
    ASSUME PassLedger, RewriteInv, BeginCompaction, UNCHANGED vars
    PROVE  PassLedger'
<1> DEFINE A == AuthoredNodes
           tip == request.tip
           R == Reachable(draft, newId[tip])
<1>1. /\ phase = "rewriting" /\ unvisited = {} /\ phase' = "compacting"
      /\ unvisited' = R /\ request' = request /\ draft' = draft /\ rules' = rules
      /\ nodes' = nodes
  BY DEF BeginCompaction, vars, storeVars
<1>2. request \in cursors /\ IInv /\ StoreArity /\ view = EmptyView
  BY <1>1 DEF RewriteInv, PassOK
<1>3. view'.root = newId[tip] /\ view'.nodes = <<>>
  BY <1>1, <1>2 DEF BeginCompaction, EmptyView
<1>4. Authored(A, tip) /\ Rewriting(A, tip, {}, newId, draft, origins)
  BY <1>1, <1>2, RequestAuthored DEF RewriteInv, PassOK
<1>5. Ledger(A, Reachable(A, tip), newId, draft, origins, rules)
  <2>1. Reachable(A, tip) \ {} = Reachable(A, tip)
    OBVIOUS
  <2> QED
    BY <1>1, <2>1 DEF PassLedger, AuthoredReachable
<1>6. AuthoredReachable' = Reachable(A, tip)
  BY <1>1 DEF AuthoredReachable, AuthoredNodes
<1> HIDE DEF A, tip
<1>7. Accounts(Reachable(A, tip), Cardinality(R), rules)
  BY <1>4, <1>5, LedgerCloses
<1>8. Cardinality(R \ R) = 0
  <2>1. R \ R = {}
    OBVIOUS
  <2> QED
    BY <2>1, FS_EmptySet
<1>9. Reachable(draft', view'.root) = R
  BY <1>1, <1>3
<1> HIDE DEF R
<1>10. Len(view'.nodes) = Cardinality(R \ R)
  BY <1>3, <1>8
<1> QED
  BY <1>1, <1>6, <1>7, <1>9, <1>10 DEF PassLedger

LEMMA CompactNodeLedger ==
    ASSUME PassLedger, RewriteInv, NEW x \in unvisited, CompactNode(x), UNCHANGED vars
    PROVE  PassLedger'
<1> DEFINE n == [draft[x] EXCEPT !.id = Len(view.nodes) + 1,
                                 !.inputs = Remap(draft[x].inputs, newId)]
           R == Reachable(draft, view.root)
<1>1. /\ phase = "compacting" /\ phase' = "compacting" /\ unvisited' = unvisited \ {x}
      /\ draft' = draft /\ rules' = rules /\ request' = request /\ nodes' = nodes
  BY DEF CompactNode, IsTurnOf, Visit, vars, storeVars
<1>2. /\ view' = [view EXCEPT !.nodes = Append(view.nodes, n),
                              !.origins = Append(view.origins, origins[x])]
      /\ {"nodes", "origins", "root"} \subseteq DOMAIN view
  BY DEF CompactNode, RewriteInv, PassOK
<1> HIDE DEF n
<1>3. view'.root = view.root /\ view'.nodes = Append(view.nodes, n)
  BY <1>2
<1>4. Compacting(AuthoredNodes, request.tip, unvisited, newId, draft, origins, view)
  BY <1>1 DEF RewriteInv, PassOK
<1>5. Len(view'.nodes) = Len(view.nodes) + 1
  <2>1. IsList(view.nodes)
    BY <1>4 DEF Compacting, KeptNodes, NodeList
  <2> QED
    BY <1>3, <2>1, AppendIsAppended DEF Appended
<1>6. Cardinality(R \ (unvisited \ {x})) = Cardinality(R \ unvisited) + 1
  BY <1>4, CompactCount
<1>7. AuthoredReachable' = AuthoredReachable /\ Reachable(draft', view'.root) = R
  BY <1>1, <1>3 DEF AuthoredReachable, AuthoredNodes
<1>8. Accounts(AuthoredReachable, Cardinality(R), rules) /\ Len(view.nodes) = Cardinality(R \ unvisited)
  BY <1>1 DEF PassLedger
<1> HIDE DEF R
<1>9. Len(view'.nodes) = Cardinality(R \ unvisited')
  BY <1>1, <1>5, <1>6, <1>8
<1> QED
  BY <1>1, <1>7, <1>8, <1>9 DEF PassLedger

LEMMA FinishCompactionLedger ==
    ASSUME PassLedger, RewriteInv, FinishCompaction, UNCHANGED vars
    PROVE  PassLedger'
<1> DEFINE R == Reachable(draft, view.root)
<1>1. /\ phase = "compacting" /\ unvisited = {} /\ phase' = "derived"
      /\ rules' = rules /\ request' = request /\ nodes' = nodes
  BY DEF FinishCompaction, vars, storeVars
<1>2. view'.nodes = view.nodes
  BY DEF FinishCompaction, RewriteInv, PassOK
<1>3. R \ unvisited = R
  BY <1>1
<1>4. Accounts(AuthoredReachable, Cardinality(R), rules) /\ Len(view.nodes) = Cardinality(R)
  BY <1>1, <1>3 DEF PassLedger
<1>5. AuthoredReachable' = AuthoredReachable
  BY <1>1 DEF AuthoredReachable, AuthoredNodes
<1> QED
  BY <1>1, <1>2, <1>4, <1>5 DEF PassLedger

LEMMA PassStepLedger ==
    ASSUME PassLedger, RewriteInv, PassStep, UNCHANGED vars
    PROVE  PassLedger'
<1>1. ASSUME NEW x \in unvisited, RewriteNode(x)
      PROVE  PassLedger'
  <2>1. IsTurnOf(x, "rewriting")
    BY <1>1 DEF RewriteNode
  <2>2. CASE EliminateFilterTrue(x)
    BY <2>1, <2>2, ErasePays
  <2>3. CASE CopyNode(x)
    BY <2>1, <2>3, CopyPays
  <2>4. ASSUME NEW kind \in UnaryKind, NEW parentKind \in UnaryKind,
               Adjacent(x, kind, parentKind), NEW rule, NEW payload, Collapse(x, rule, payload)
        PROVE  PassLedger'
    BY <2>1, <2>4, CollapsePays DEF Adjacent
  <2>5. CASE CollapseLimit(x)
    BY <2>4, <2>5 DEF CollapseLimit, UnaryKind
  <2>6. CASE CollapseProject(x)
    BY <2>4, <2>6 DEF CollapseProject, UnaryKind
  <2>7. CASE CollapseAggregate(x)
    BY <2>4, <2>7 DEF CollapseAggregate, UnaryKind
  <2>8. CASE FuseGroupBy(x)
    BY <2>4, <2>8 DEF FuseGroupBy, UnaryKind
  <2>9. CASE CollapseOrderBy(x)
    BY <2>4, <2>9 DEF CollapseOrderBy, UnaryKind
  <2>10. CASE CollapseWindow(x)
    BY <2>4, <2>10 DEF CollapseWindow, CanCollapseWindow, UnaryKind
  <2> QED
    BY <1>1, <2>2, <2>3, <2>5, <2>6, <2>7, <2>8, <2>9, <2>10 DEF RewriteNode
<1>2. ASSUME NEW x \in unvisited, CompactNode(x)
      PROVE  PassLedger'
  BY <1>2, CompactNodeLedger
<1>3. CASE ReturnView
  BY <1>3 DEF ReturnView, PassLedger
<1> QED
  BY <1>1, <1>2, <1>3, BeginCompactionLedger, FinishCompactionLedger DEF PassStep

LEMMA LedgerInductive ==
    PassLedger /\ RewriteInv /\ [RewriteNext]_allVars => PassLedger'
<1> SUFFICES ASSUME PassLedger, RewriteInv, [RewriteNext]_allVars
             PROVE  PassLedger'
  OBVIOUS
<1>1. CASE phase = "resting" /\ Next /\ UNCHANGED rewriteVars
  BY <1>1 DEF PassLedger, rewriteVars
<1>2. CASE (\E c \in cursors : BeginDerive(c)) /\ UNCHANGED vars
  BY <1>2, BeginDeriveLedger
<1>3. CASE PassStep /\ UNCHANGED vars
  BY <1>3, PassStepLedger
<1>4. CASE UNCHANGED allVars
  <2>1. UNCHANGED <<nodes, phase, request, unvisited, newId, draft, origins, rules, view>>
    BY <1>4 DEF allVars, rewriteVars, vars, storeVars
  <2>2. AuthoredNodes' = AuthoredNodes /\ AuthoredReachable' = AuthoredReachable
    BY <2>1 DEF AuthoredNodes, AuthoredReachable
  <2> QED
    BY <2>1, <2>2 DEF PassLedger
<1> QED
  BY <1>1, <1>2, <1>3, <1>4 DEF RewriteNext

\* rewrite_explain adds up: a view lost at most one node for each recorded rule,
\* and none if no rule is recorded.
THEOREM ExplainAddsUp == RewriteSpec => []ExplainAccounts
<1>1. RewriteInit => PassLedger
  BY DEF RewriteInit, PassLedger
<1>2. PassLedger => ExplainAccounts
  BY DEF PassLedger, ExplainAccounts, Accounts
<1> QED
  BY <1>1, <1>2, LedgerInductive, RewriteInductive, PTL DEF RewriteSpec

=============================================================================
