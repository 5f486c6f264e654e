------------------------ MODULE RegistryTransaction ------------------------
(***************************************************************************)
(* How the name registry edits the queue of one service inside a           *)
(* transaction: BusOwner objects with reference counts, the links to them, *)
(* and the cancel hooks that are run when memory runs out before the       *)
(* handler is done (bus/services.c, bus/connection.c).                     *)
(*                                                                         *)
(* NameRegistry says what a handler does to the queue as a whole.  Here an *)
(* action is one step of a handler: a step either fails for want of memory *)
(* without having changed anything, or does all of its work.  The flags of *)
(* a request only choose between the steps, so the choice is left open.    *)
(***************************************************************************)
EXTENDS Integers, Sequences, SequencesExt, FiniteSets

CONSTANTS
  Conns,      \* connections
  Objs,       \* the slots of registry->owner_pool
  NoObj,      \* a NULL BusOwner
  NoConn,     \* no requester
  LateOom     \* whether memory may run out once a primary owner was unlinked

\* What is asked of the constants.
TransactionAssumption == NoObj \notin Objs /\ NoConn \notin Conns /\ LateOom \in BOOLEAN

VARIABLES
  owners,     \* service->owners, a list of links to BusOwner objects
  refcount,   \* of every object; 0: returned to the pool
  conn,       \* owner->conn
  owned,      \* links to this service in d->services_owned, per connection
  hooks,      \* transaction->cancel_hooks, newest first
  step,       \* what the handler does next
  client,     \* the connection whose request is handled
  saved       \* owners when the transaction was begun

vars == <<owners, refcount, conn, owned, hooks, step, client, saved>>

Hook == [kind : {"cancel", "restore"}, owner : Objs, before : Objs \cup {NoObj}]

-----------------------------------------------------------------------------
(***************************************************************************)
(* The heap: h has the fields owners, refcount, conn, owned.               *)
(***************************************************************************)
Heap == [owners |-> owners, refcount |-> refcount, conn |-> conn, owned |-> owned]

Ref(h, o) == [h EXCEPT !.refcount[o] = @ + 1]

\* The last reference takes the service off the connection's list.
Unref(h, o) ==
  [h EXCEPT !.refcount[o] = @ - 1,
            !.owned[h.conn[o]] = IF h.refcount[o] = 1 THEN @ - 1 ELSE @]

LastLink(q, o) == CHOOSE i \in DOMAIN q : q[i] = o /\ \A j \in DOMAIN q : q[j] = o => j <= i

\* bus_service_unlink_owner
UnlinkOwner(h, o) == Unref([h EXCEPT !.owners = RemoveAt(@, LastLink(@, o))], o)

FindOwnerLink(c) == CHOOSE i \in DOMAIN owners : conn[owners[i]] = c

HasLink(c) == \E i \in DOMAIN owners : conn[owners[i]] = c

\* bus_owner_new
NewOwner(h, o, c) ==
  [h EXCEPT !.refcount[o] = 1, !.conn[o] = c, !.owned[c] = @ + 1]

-----------------------------------------------------------------------------
(***************************************************************************)
(* Cancel hooks.                                                           *)
(***************************************************************************)
\* Mutant: the last link of the queue is taken off, whoever's it is.
CancelOwnershipLast(h, k) == UnlinkOwner(h, Last(h.owners))

CancelOwnership(h, k) == UnlinkOwner(h, k.owner)

\* The link goes back in front of the owner it stood in front of.
RestoreOwnership(h, k) ==
  LET q == h.owners
      at == IF \E i \in DOMAIN q : q[i] = k.before
            THEN CHOOSE i \in DOMAIN q : q[i] = k.before /\ \A j \in 1..(i-1) : q[j] # k.before
            ELSE Len(q) + 1
  IN  [h EXCEPT !.owners = InsertAt(q, at, k.owner), !.owned[h.conn[k.owner]] = @ + 1]

RunHook(h, k) == IF k.kind = "cancel" THEN CancelOwnership(h, k) ELSE RestoreOwnership(h, k)

FreeHooks(h) == FoldLeft(LAMBDA g, k : Unref(g, k.owner), h, hooks)

CancelHooks(h) == FreeHooks(FoldLeft(RunHook, h, hooks))

AddHook(kind, o, before) == hooks' = <<[kind |-> kind, owner |-> o, before |-> before]>> \o hooks

Update(h) ==
  /\ owners' = h.owners
  /\ refcount' = h.refcount
  /\ conn' = h.conn
  /\ owned' = h.owned

-----------------------------------------------------------------------------
(***************************************************************************)
(* Steps of a handler.                                                     *)
(***************************************************************************)
Init ==
  /\ owners = << >>
  /\ refcount = [o \in Objs |-> 0]
  /\ conn \in [Objs -> {CHOOSE c \in Conns : TRUE}]
  /\ owned = [c \in Conns |-> 0]
  /\ hooks = << >>
  /\ step = "idle"
  /\ client = NoConn
  /\ saved = << >>

Begin(c, s) ==
  /\ step = "idle"
  /\ step' = s
  /\ client' = c
  /\ saved' = owners
  /\ UNCHANGED <<owners, refcount, conn, owned, hooks>>

Goto(s) == step' = s /\ UNCHANGED <<client, saved>>

\* bus_service_add_owner: the connection is linked at position at, after the
\* primary owner or last; if it is linked already, its link is moved or left.
AddOwner(at, next) ==
  /\ IF HasLink(client)
     THEN LET i == FindOwnerLink(client)
              j == IF at = 2 THEN 2 ELSE i
          IN  /\ Update([Heap EXCEPT !.owners = InsertAt(RemoveAt(@, i), j, owners[i])])
              /\ UNCHANGED hooks
     ELSE \E o \in Objs :
            LET h == NewOwner(Heap, o, client)
            IN  /\ refcount[o] = 0
                /\ Update(Ref([h EXCEPT !.owners = InsertAt(@, at, o)], o))
                /\ AddHook("cancel", o, NoObj)
  /\ Goto(next)

\* A connection that may not wait is taken off the queue.
LeaveQueue ==
  /\ IF HasLink(client)
     THEN LET i == FindOwnerLink(client)
          IN  Update(Unref([Heap EXCEPT !.owners = RemoveAt(@, i)], owners[i]))
     ELSE UNCHANGED <<owners, refcount, conn, owned>>
  /\ Goto("reply")
  /\ UNCHANGED hooks

\* The owner behind the primary one, in front of which a hook would restore it.
Second == IF Len(owners) = 1 THEN NoObj ELSE owners[2]

RemovePrimary(next) ==
  LET o == owners[1]
  IN  /\ AddHook("restore", o, Second)
      /\ Update(UnlinkOwner(Ref(Heap, o), o))
      /\ Goto(next)

SwapOwner ==
  /\ AddHook("restore", owners[1], Second)
  /\ Update(Ref([Heap EXCEPT !.owners = <<owners[2], owners[1]>> \o SubSeq(@, 3, Len(@))],
                owners[1]))
  /\ Goto("reply")

\* bus_registry_release_service
Release ==
  /\ step = "release"
  /\ IF owners # << >> /\ conn[owners[1]] = client THEN RemovePrimary("reply") ELSE LeaveQueue

\* _dbus_registry_release_old_service_win_if_unique.  If the queue is now empty
\* the request makes a new BusService, with the same name and another list.
ReleaseOld ==
  /\ step = "release_old"
  /\ IF owners # << >>
     THEN RemovePrimary("acquire")
     ELSE Goto("acquire") /\ UNCHANGED <<owners, refcount, conn, owned, hooks>>

\* bus_registry_acquire_service, by the choices its flags can make.
Acquire ==
  /\ step = "acquire"
  /\ IF owners = << >> THEN AddOwner(1, "reply")
     ELSE IF conn[owners[1]] = client
     THEN Goto("reply") /\ UNCHANGED <<owners, refcount, conn, owned, hooks>>
     ELSE \/ LeaveQueue
          \/ \E at \in {2, Len(owners) + 1} : AddOwner(at, "reply")
          \/ AddOwner(2, "evict")

\* The client is second now; the primary owner is removed or changes places.
Evict ==
  /\ step = "evict"
  /\ RemovePrimary("reply") \/ SwapOwner

Done ==
  /\ hooks' = << >>
  /\ step' = "idle"
  /\ client' = NoConn
  /\ saved' = << >>

\* The reply is queued and the transaction executed.
Execute ==
  /\ step = "reply"
  /\ Update(FreeHooks(Heap))
  /\ Done

\* An allocation fails: the error goes out by itself, the transaction is
\* cancelled.
OutOfMemory ==
  /\ step # "idle"
  /\ LateOom \/ \A i \in DOMAIN hooks : hooks[i].kind = "cancel"
  /\ Update(CancelHooks(Heap))
  /\ Done

Next ==
  \/ \E c \in Conns, s \in {"acquire", "release_old", "release"} : Begin(c, s)
  \/ Release
  \/ ReleaseOld
  \/ Acquire
  \/ Evict
  \/ Execute
  \/ OutOfMemory

Spec == Init /\ [][Next]_vars

-----------------------------------------------------------------------------
Links(o) == Cardinality({i \in DOMAIN owners : owners[i] = o})
HooksOf(o) == Cardinality({i \in DOMAIN hooks : hooks[i].owner = o})

\* The heap is what it should be after every step: each BusOwner is referenced
\* by its link in the queue and by the hooks that hold it and by nothing else,
\* no connection is linked twice, and a connection lists the service once for
\* every live BusOwner it has.
RefsExact ==
  /\ \A o \in Objs : refcount[o] = Links(o) + HooksOf(o)
  /\ \A i, j \in DOMAIN owners : conn[owners[i]] = conn[owners[j]] => i = j
  /\ \A c \in Conns : owned[c] = Cardinality({o \in Objs : refcount[o] > 0 /\ conn[o] = c})

\* A cancelled handler leaves no trace on other connections: the ones that owned
\* or waited for the name before it do so after it, in the same order.
CancelKeepsQueue ==
  [][OutOfMemory =>
       LET others(q) == SelectSeq(q, LAMBDA o : conn[o] # client)
       IN  others(owners') = others(saved)
           /\ (owners' = << >> <=> saved = << >>)]_vars

\* "this function is self-cancelling if you cancel the transaction"
\* (bus/services.c, above bus_service_remove_owner): once the handler is over,
\* executed or cancelled, every link in the queue is to a live BusOwner.
SelfCancelling ==
  step = "idle" => \A i \in DOMAIN owners : refcount[owners[i]] > 0
=============================================================================
