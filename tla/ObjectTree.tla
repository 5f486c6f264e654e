------------------------------ MODULE ObjectTree ------------------------------
(***************************************************************************)
(* The tree of message handlers of a connection, dbus-object-tree.c, and   *)
(* the dispatch of a message through it.                                   *)
(*                                                                         *)
(* The tree is changed under the connection's lock; a dispatch holds that  *)
(* lock while it finds the handlers and lets go of it around every call of *)
(* one, so the handler itself, or any other thread, may register and       *)
(* unregister paths in between.                                            *)
(*                                                                         *)
(* A subtree is an index of `nodes'; index 0 is NULL, 1 the root.  A freed *)
(* index is reused, as memory is.  `registered' is what callers were told: *)
(* for each path with a handler, the handler and whether it is a fallback. *)
(***************************************************************************)
EXTENDS Integers, Sequences, SequencesExt

CONSTANTS Paths,        \* byte strings of object paths
          Handlers,     \* vtables with their user data
          MaxNodes,     \* bound on the subtree structures that exist at once
          None          \* no handler

VARIABLES nodes, root, dispatch, registered

vars == <<nodes, root, dispatch, registered>>

Slash == 47
Ids == 1 .. MaxNodes
Absent == [refcount |-> 0]
Idle == [at |-> <<>>, list |-> <<>>, link |-> 0, running |-> None]

(* strcmp of two path components.                                          *)
RECURSIVE Before(_, _)
Before(a, b) ==
  IF b = <<>> THEN FALSE ELSE IF a = <<>> THEN TRUE
  ELSE a[1] < b[1] \/ (a[1] = b[1] /\ Before(Tail(a), Tail(b)))

(* The components counted by the slashes, then cut out one after the other. *)
dbus_decompose_path(data) ==
  LET n == IF Len(data) > 1 THEN Cardinality({i \in DOMAIN data : data[i] = Slash}) ELSE 0
      RECURSIVE Component(_, _)
      Component(i, comp) ==
        IF comp = n THEN <<>>
        ELSE LET s == IF data[i] = Slash THEN i + 1 ELSE i
                 ends == {j \in s .. Len(data) : data[j] = Slash}
                 j == IF ends = {} THEN Len(data) + 1 ELSE Min(ends)
             IN  <<SubSeq(data, s, j - 1)>> \o Component(j, comp + 1)
  IN  Component(1, 0)

-----------------------------------------------------------------------------
dbus_object_subtree_new(name) ==
  [name |-> name, parent |-> 0, subtrees |-> <<>>, function |-> None, fallback |-> FALSE, refcount |-> 1]

dbus_object_subtree_ref(T, n) == [T EXCEPT ![n].refcount = @ + 1]

(* The last reference frees the structure, which must have no handler.     *)
dbus_object_subtree_unref(T, n) ==
  IF T[n].refcount = 1 THEN [T EXCEPT ![n] = Absent] ELSE [T EXCEPT ![n].refcount = @ - 1]

Fresh(T) == {n \in Ids : T[n] = Absent}

(* The binary search over the sorted children: the index of the child, or  *)
(* the index where it belongs.                                             *)
RECURSIVE Search(_, _, _, _, _)
Search(T, subtrees, name, i, j) ==
  IF i >= j THEN [found |-> FALSE, at |-> i]
  ELSE LET k == (i + j) \div 2
           child == T[subtrees[k + 1]].name
       IN  IF name = child THEN [found |-> TRUE, at |-> k]
           ELSE IF Before(name, child) THEN Search(T, subtrees, name, i, k)
           ELSE Search(T, subtrees, name, k + 1, j)

(* create and deepest are create_if_not_found and return_deepest_match;    *)
(* memory is how many children can still be allocated.                     *)
RECURSIVE find_subtree_recurse(_, _, _, _, _, _, _)
find_subtree_recurse(T, n, path, create, deepest, memory, index) ==
  IF path = <<>> THEN [T |-> T, n |-> n, index |-> index, exact |-> TRUE]
  ELSE
    LET s == Search(T, T[n].subtrees, path[1], 0, Len(T[n].subtrees))
        Nothing == [T |-> T, n |-> 0, index |-> index, exact |-> FALSE]
        Here == [Nothing EXCEPT !.n = n]
    IN  IF s.found
        THEN LET next == find_subtree_recurse(T, T[n].subtrees[s.at + 1], Tail(path), create, deepest, memory, s.at)
             IN  IF deepest /\ next.n = 0 /\ T[n].fallback THEN Here ELSE next
        ELSE IF create
        THEN IF memory = 0 THEN Nothing
             ELSE LET child == Min(Fresh(T))
                      T1 == [T EXCEPT ![child] = [dbus_object_subtree_new(path[1]) EXCEPT !.parent = n],
                                      ![n].subtrees = InsertAt(@, s.at + 1, child)]
                  IN  find_subtree_recurse(T1, child, Tail(path), create, deepest, memory - 1, s.at)
        ELSE IF deepest /\ T[n].fallback THEN Here ELSE Nothing

lookup_subtree(T, path) == find_subtree_recurse(T, root, path, FALSE, FALSE, 0, 0)
find_handler(T, path) == find_subtree_recurse(T, root, path, FALSE, TRUE, 0, 0)
ensure_subtree(T, path, memory) == find_subtree_recurse(T, root, path, TRUE, FALSE, memory, 0)

find_subtree(T, path) ==
  LET f == lookup_subtree(T, path) IN
  IF f.n # 0 /\ T[f.n].function = None THEN [f EXCEPT !.n = 0] ELSE f

dbus_object_tree_list_registered(T, path) ==
  LET f == lookup_subtree(T, path) IN
  IF f.n = 0 THEN <<>> ELSE [i \in DOMAIN T[f.n].subtrees |-> T[T[f.n].subtrees[i]].name]

dbus_object_tree_get_user_data(T, path) ==
  LET f == find_handler(T, path) IN IF f.n = 0 \/ ~f.exact THEN None ELSE T[f.n].function

(* The handlers that cover a path, from the deepest node up.               *)
RECURSIVE Covering(_, _, _)
Covering(T, n, exact) ==
  IF n = 0 THEN <<>>
  ELSE (IF T[n].function # None /\ (exact \/ T[n].fallback) THEN <<n>> ELSE <<>>) \o Covering(T, T[n].parent, FALSE)

CoveringPath(T, path) == LET f == find_handler(T, path) IN Covering(T, f.n, f.exact)

-----------------------------------------------------------------------------
Init ==
  /\ nodes = [n \in Ids |-> IF n = 1 THEN [dbus_object_subtree_new(<<Slash>>) EXCEPT !.fallback = TRUE] ELSE Absent]
  /\ root = 1
  /\ dispatch = Idle
  /\ registered = <<>>

With(f, k, v) == [x \in DOMAIN f \cup {k} |-> IF x = k THEN v ELSE f[x]]
Without(f, S) == [x \in DOMAIN f \ S |-> f[x]]

(* The nodes made before memory ran out stay in the tree.                  *)
dbus_object_tree_register(p, h, fallback, memory) ==
  LET f == ensure_subtree(nodes, dbus_decompose_path(p), memory) IN
  /\ IF f.n = 0 \/ f.T[f.n].function # None
     THEN nodes' = f.T /\ UNCHANGED registered
     ELSE /\ nodes' = [f.T EXCEPT ![f.n].function = h, ![f.n].fallback = fallback]
          /\ registered' = With(registered, p, [h |-> h, fallback |-> fallback])
  /\ UNCHANGED <<root, dispatch>>

(* A mutant: a node is taken out of the tree with the children it has.     *)
DetachAlways(T, n, i) ==
  IF T[n].parent # 0
  THEN dbus_object_subtree_unref([T EXCEPT ![n].parent = 0, ![T[n].parent].subtrees = RemoveAt(@, i + 1)], n)
  ELSE T

Detach(T, n, i) ==
  IF T[n].parent # 0 /\ T[n].subtrees = <<>>
  THEN dbus_object_subtree_unref([T EXCEPT ![n].parent = 0, ![T[n].parent].subtrees = RemoveAt(@, i + 1)], n)
  ELSE T

(* The unregister function is called after the lock is released; nothing   *)
(* of the tree is touched then.                                            *)
dbus_object_tree_unregister_and_unlock(p) ==
  LET f == find_subtree(nodes, dbus_decompose_path(p)) IN
  /\ f.n # 0
  /\ nodes' = Detach([nodes EXCEPT ![f.n].function = None], f.n, f.index)
  /\ registered' = Without(registered, {p})
  /\ UNCHANGED <<root, dispatch>>

(* Children from the last one on, then the node: its unregister function   *)
(* is called and its own reference goes.                                   *)
RECURSIVE free_subtree_recurse(_, _)
free_subtree_recurse(T, n) ==
  IF T[n].subtrees # <<>>
  THEN LET child == Last(T[n].subtrees)
           T1 == [T EXCEPT ![n].subtrees = Front(@), ![child].parent = 0]
           below == free_subtree_recurse(T1, child)
           rest == free_subtree_recurse(below.T, n)
       IN  [T |-> rest.T, called |-> below.called \cup rest.called]
  ELSE [T |-> dbus_object_subtree_unref([T EXCEPT ![n].function = None], n), called |-> {T[n].function} \ {None}]

(* The last reference to the connection: no dispatch holds one.            *)
dbus_object_tree_free_all_unlocked ==
  LET all == free_subtree_recurse(nodes, root) IN
  /\ root # 0 /\ dispatch = Idle
  /\ nodes' = all.T
  /\ root' = 0
  /\ registered' = Without(registered, {p \in DOMAIN registered : registered[p].h \in all.called})
  /\ UNCHANGED dispatch

RefAll(T, list) == FoldLeft(dbus_object_subtree_ref, T, list)
UnrefAll(T, list) == FoldLeft(dbus_object_subtree_unref, T, list)

(* The next link whose subtree has a handler now; without one the dispatch *)
(* is over: the default Introspect reply reads the tree once more and the  *)
(* references go.                                                          *)
Advance(d, T) ==
  LET S == {i \in d.link + 1 .. Len(d.list) : T[d.list[i]].function # None} IN
  IF S = {} THEN [d |-> Idle, T |-> UnrefAll(T, d.list)]
  ELSE [d |-> [d EXCEPT !.link = Min(S), !.running = T[d.list[Min(S)]].function], T |-> T]

(* With no memory for the list the dispatch ends at once.                  *)
dbus_object_tree_dispatch(p) ==
  LET list == CoveringPath(nodes, dbus_decompose_path(p))
      next == Advance([Idle EXCEPT !.at = p, !.list = list], RefAll(nodes, list))
  IN  /\ root # 0 /\ dispatch = Idle
      /\ nodes' = next.T /\ dispatch' = next.d
      /\ UNCHANGED <<root, registered>>

HandlerReturns(handled) ==
  LET next == IF handled THEN [d |-> Idle, T |-> UnrefAll(nodes, dispatch.list)]
              ELSE Advance([dispatch EXCEPT !.running = None], nodes)
  IN  /\ dispatch.running # None
      /\ nodes' = next.T /\ dispatch' = next.d
      /\ UNCHANGED <<root, registered>>

Next ==
  \/ /\ root # 0
     /\ \E p \in Paths, h \in Handlers, fallback \in BOOLEAN :
          /\ \A q \in DOMAIN registered : registered[q].h # h
          /\ \E memory \in 0 .. 2 :
               /\ memory <= Cardinality(Fresh(nodes))
               /\ dbus_object_tree_register(p, h, fallback, memory)
  \/ root # 0 /\ \E p \in Paths : dbus_object_tree_unregister_and_unlock(p)
  \/ \E p \in Paths : dbus_object_tree_dispatch(p)
  \/ \E handled \in BOOLEAN : HandlerReturns(handled)
  \/ dbus_object_tree_free_all_unlocked

Spec == Init /\ [][Next]_vars

-----------------------------------------------------------------------------
(* The handlers a message to p should meet: the one at p, then the         *)
(* fallbacks above it, the deepest first.                                  *)
Above(p) == {q \in DOMAIN registered : IsPrefix(dbus_decompose_path(q), dbus_decompose_path(p))}
Reference(p) ==
  LET S == {q \in Above(p) : q = p \/ registered[q].fallback} IN
  [i \in 1 .. Cardinality(S) |->
     registered[CHOOSE q \in S : Cardinality({r \in S : Len(r) > Len(q)}) = i - 1].h]

(* After any sequence of registrations, failed ones included, and of       *)
(* unregistrations, also during a dispatch, the handlers found for a path  *)
(* are the registered one and the registered fallbacks above it, deepest   *)
(* first; the data of a path is its handler's; every child with a handler  *)
(* below it is listed; and once the tree is freed every registered handler *)
(* has been told so.                                                       *)
HandlersExact ==
  IF root = 0 THEN registered = <<>>
  ELSE \A p \in Paths :
    LET path == dbus_decompose_path(p)
        list == CoveringPath(nodes, path)
        children == dbus_object_tree_list_registered(nodes, path)
    IN  /\ [i \in DOMAIN list |-> nodes[list[i]].function] = Reference(p)
        /\ dbus_object_tree_get_user_data(nodes, path)
             = IF p \in DOMAIN registered THEN registered[p].h ELSE None
        /\ \A q \in DOMAIN registered :
             LET below == dbus_decompose_path(q) IN
             IsStrictPrefix(path, below) => below[Len(path) + 1] \in ToSet(children)

(* A structure is freed when neither the tree nor the running dispatch     *)
(* refers to it, and not before; a node knows its parent, and the children *)
(* are sorted, as the search expects.                                      *)
TreeSound ==
  LET Attached == {n \in Ids : n = root \/ \E m \in Ids : nodes[m] # Absent /\ n \in ToSet(nodes[m].subtrees)}
  IN  \A n \in Ids :
        LET refs == (IF n \in Attached THEN 1 ELSE 0) + Cardinality({i \in DOMAIN dispatch.list : dispatch.list[i] = n})
        IN  /\ nodes[n].refcount = refs
            /\ refs > 0 =>
                 /\ nodes[n].parent = 0 <=> n = root \/ n \notin Attached
                 /\ \A i \in DOMAIN nodes[n].subtrees :
                      /\ nodes[nodes[n].subtrees[i]].parent = n
                      /\ i > 1 => Before(nodes[nodes[n].subtrees[i - 1]].name, nodes[nodes[n].subtrees[i]].name)

(* A handler that is called was registered for the path of the message, or *)
(* for one above it as a fallback.                                         *)
CalledForItsPath ==
  [][dispatch'.link > dispatch.link =>
       \E q \in Above(dispatch'.at) :
         registered[q].h = dispatch'.running /\ (q = dispatch'.at \/ registered[q].fallback)]_vars
=============================================================================
