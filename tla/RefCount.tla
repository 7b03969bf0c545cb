------------------------------ MODULE RefCount ------------------------------
(***************************************************************************)
(* a08/q2-3: elements with a reference count (refcount.c), shared by a      *)
(* client, a doubly linked list (list.c) and a binary tree (tree.c).  An    *)
(* element is an int or a string; every owner keeps a reference, and the    *)
(* element is freed with the last one.                                      *)
(*                                                                          *)
(* A client calls the interfaces in any order, with elements it has a       *)
(* reference to.                                                            *)
(***************************************************************************)
EXTENDS Elements, Sequences, SequencesExt, FiniteSetsExt

CONSTANTS Values,    \* the contents of elements: [class, value]
          Elements,  \* addresses of elements: numbers
          Nodes,     \* addresses of list nodes: numbers
          Height,    \* of the tree
          MaxRefs,   \* of the client to one element
          NULL

CountsAssumption == /\ Elements \subseteq Nat /\ Nodes \subseteq Nat /\ IsFiniteSet(Nodes)
                    /\ NULL \notin Nodes
                    /\ Values \subseteq [class : {"int", "str"}, value : Int]
                    /\ Height \in Nat \ {0} /\ MaxRefs \in Nat

VARIABLES heap,   \* the allocated elements: [class, value, refcount]
          held,   \* how many references of each the client has
          list,   \* [head, tail, node]; node has the allocated nodes
          tree,   \* its elements by their place, a sequence of "left" and "right"
          added   \* history: the nodes that were added to the list and not deleted

vars == <<heap, held, list, tree, added>>

Without(f, x) == [y \in DOMAIN f \ {x} |-> f[y]]
With(f, x, v) == [y \in DOMAIN f \cup {x} |-> IF y = x THEN v ELSE f[y]]

rc_keep_ref(h, e) == [h EXCEPT ![e].refcount = @ + 1]

(* the finalizer frees what the element alone owns: its string goes with it *)
rc_free_ref(h, e) == IF h[e].refcount = 1 THEN Without(h, e)
                     ELSE [h EXCEPT ![e].refcount = @ - 1]

(* a reference to each of a sequence of elements is given back, in turn *)
Released(h, es) == LET after[k \in 0..Len(es)] ==
                         IF k = 0 THEN h ELSE rc_free_ref(after[k - 1], es[k])
                   IN after[Len(es)]

-----------------------------------------------------------------------------
list_new == [head |-> NULL, tail |-> NULL, node |-> <<>>]

Init == /\ heap = <<>>
        /\ held = [e \in Elements |-> 0]
        /\ list = list_new
        /\ tree = <<>>
        /\ added = <<>>

rc_malloc(v) ==
  LET e == Min(Elements \ DOMAIN heap) IN
  /\ Elements \ DOMAIN heap # {}
  /\ heap' = With(heap, e, [class |-> v.class, value |-> v.value, refcount |-> 1])
  /\ held' = [held EXCEPT ![e] = 1]
  /\ UNCHANGED <<list, tree, added>>

int_element_new(v) == v.class = "int" /\ rc_malloc(v)
str_element_new(v) == v.class = "str" /\ rc_malloc(v)

Keep(e) == /\ held[e] \in 1..(MaxRefs - 1)
           /\ heap' = rc_keep_ref(heap, e)
           /\ held' = [held EXCEPT ![e] = @ + 1]
           /\ UNCHANGED <<list, tree, added>>

(* list_node_get_element: "Caller should keep_ref" *)
list_node_get_element(n) ==
  /\ held[list.node[n].elem] < MaxRefs
  /\ heap' = rc_keep_ref(heap, list.node[n].elem)
  /\ held' = [held EXCEPT ![list.node[n].elem] = @ + 1]
  /\ UNCHANGED <<list, tree, added>>

FreeRef(e) == /\ held[e] > 0
              /\ heap' = rc_free_ref(heap, e)
              /\ held' = [held EXCEPT ![e] = @ - 1]
              /\ UNCHANGED <<list, tree, added>>

-----------------------------------------------------------------------------
list_add_element(e) ==
  LET n == Min(Nodes \ DOMAIN list.node)
      new == With(list.node, n, [elem |-> e, prev |-> list.tail, next |-> NULL])
  IN /\ held[e] > 0 /\ Nodes \ DOMAIN list.node # {}
     /\ heap' = rc_keep_ref(heap, e)
     /\ list' = IF list.head = NULL
                THEN [head |-> n, tail |-> n, node |-> new]
                ELSE [head |-> list.head, tail |-> n,
                      node |-> [new EXCEPT ![list.tail].next = n]]
     /\ added' = Append(added, n)
     /\ UNCHANGED <<held, tree>>

Unlinked(l, n) ==
  LET node == l.node
      forward == IF n = l.head THEN node ELSE [node EXCEPT ![node[n].prev].next = node[n].next]
      both == IF n = l.tail THEN forward
              ELSE [forward EXCEPT ![node[n].next].prev = node[n].prev]
  IN [head |-> IF n = l.head THEN node[n].next ELSE l.head,
      tail |-> IF n = l.tail THEN node[n].prev ELSE l.tail,
      node |-> Without(both, n)]

Dropped(s, x) == RemoveAt(s, CHOOSE k \in DOMAIN s : s[k] = x)

(* list_delete_element that frees the node only *)
UnlinkOnly(n) ==
  /\ heap' = heap
  /\ list' = Unlinked(list, n)
  /\ added' = Dropped(added, n)
  /\ UNCHANGED <<held, tree>>

list_delete_element(n) ==
  /\ heap' = rc_free_ref(heap, list.node[n].elem)
  /\ list' = Unlinked(list, n)
  /\ added' = Dropped(added, n)
  /\ UNCHANGED <<held, tree>>

(* the list's nodes from its head on, as a walk along next finds them *)
Walk(l) == LET from[k \in 0..Cardinality(Nodes)] ==
                 IF k = 0 THEN <<l.head>>
                 ELSE LET s == from[k - 1]
                      IN IF Last(s) = NULL THEN s ELSE Append(s, l.node[Last(s)].next)
           IN from[Cardinality(Nodes)]

(* list_delete, and a new list *)
list_delete ==
  LET ns == Front(Walk(list))
  IN /\ list.head # NULL
     /\ heap' = Released(heap, [k \in 1..Len(ns) |-> list.node[ns[k]].elem])
     /\ list' = list_new
     /\ added' = <<>>
     /\ UNCHANGED <<held, tree>>

-----------------------------------------------------------------------------
Places == SeqOf({"left", "right"}, Height - 1)

(* tree_insert_node_helper goes left of what is as large or larger, and right of what is
   smaller, until it finds no node *)
PlaceOf(e) ==
  CHOOSE p \in Places :
    /\ p \notin DOMAIN tree
    /\ \A k \in DOMAIN p :
         LET above == SubSeq(p, 1, k - 1)
         IN /\ above \in DOMAIN tree
            /\ p[k] = IF compare(heap[e], heap[tree[above]]) <= 0 THEN "left" ELSE "right"

tree_insert_node(e) ==
  /\ held[e] > 0 /\ \A p \in DOMAIN tree : Len(p) < Height - 1
  /\ heap' = rc_keep_ref(heap, e)
  /\ tree' = With(tree, PlaceOf(e), e)
  /\ UNCHANGED <<held, list, added>>

(* tree_delete_helper visits every node once; and a new tree *)
tree_delete ==
  LET ps == SetToSeq(DOMAIN tree)
  IN /\ tree # <<>>
     /\ heap' = Released(heap, [k \in 1..Len(ps) |-> tree[ps[k]]])
     /\ tree' = <<>>
     /\ UNCHANGED <<held, list, added>>

Next == \/ \E v \in Values : int_element_new(v) \/ str_element_new(v)
        \/ \E e \in Elements : \/ Keep(e) \/ FreeRef(e)
                               \/ list_add_element(e) \/ tree_insert_node(e)
        \/ \E n \in DOMAIN list.node : list_node_get_element(n) \/ list_delete_element(n)
        \/ list_delete
        \/ tree_delete

-----------------------------------------------------------------------------
Owners(e) == /\ heap[e].refcount > 0
             /\ heap[e].refcount = held[e]
                                   + Quantify(DOMAIN list.node, LAMBDA n : list.node[n].elem = e)
                                   + Quantify(DOMAIN tree, LAMBDA p : tree[p] = e)

(* Links in both directions spell what was added and not deleted, and no node is left over. *)
LinksSpellAdded ==
  /\ Walk(list) = Append(added, NULL)
  /\ DOMAIN list.node = Range(added)
  /\ list.tail = IF added = <<>> THEN NULL ELSE Last(added)
  /\ \A k \in DOMAIN added : list.node[added[k]].prev = IF k = 1 THEN NULL ELSE added[k - 1]

(* A node has no larger element below it on the left, and only larger ones on the right. *)
TreeSorted ==
  \A p, q \in DOMAIN tree :
    IsStrictPrefix(p, q) =>
      (compare(heap[tree[q]], heap[tree[p]]) <= 0 <=> q[Len(p) + 1] = "left")

(* refcount.c: however its references are passed around, an element is counted once for
   each of its owners, and it is freed exactly when it has none: nothing is used after it
   is freed (an element of the tree outlives the list it came from, main.c:102-104), and
   nothing leaks. *)
OwnersCounted ==
  /\ \A e \in DOMAIN heap : Owners(e)
  /\ \A e \in Elements : held[e] > 0 => e \in DOMAIN heap
  /\ {list.node[n].elem : n \in DOMAIN list.node} \cup Range(tree) \subseteq DOMAIN heap
  /\ LinksSpellAdded
  /\ TreeSorted
=============================================================================
