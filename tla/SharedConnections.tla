-------------------------- MODULE SharedConnections --------------------------
(***************************************************************************)
(* The connections that dbus_connection_open and dbus_bus_get share among  *)
(* the threads of an application (dbus/dbus-connection.c, dbus/dbus-bus.c).*)
(*                                                                         *)
(* shared_connections finds a connection by the guid of the server, and    *)
(* libdbus keeps a reference to every shareable connection until its       *)
(* Disconnected message is processed.  bus_connections is a weak reference *)
(* to the connection to the bus, cleared when the loss of the connection   *)
(* is noticed.  The application knows one address; it has a guid or not.   *)
(*                                                                         *)
(* The three locks are variables: that of bus_connections, that of the     *)
(* shared connections and that of each connection.  A step is what a       *)
(* thread does between two points where it may have to wait for one.       *)
(***************************************************************************)
EXTENDS Integers, FiniteSets

CONSTANTS
  Threads,
  Conns,      \* connections, in the order of their creation
  None,       \* no thread, no connection
  BusLocked   \* the loss of a connection is noted under the bus lock: not so
              \* in the builds for Windows

SharedAssumption ==
  /\ IsFiniteSet(Threads) /\ None \notin Threads \cup Conns
  /\ BusLocked \in BOOLEAN

VARIABLES
  hasGuid,    \* does the address have a guid
  conn,       \* the connections
  table,      \* shared_connections: the connection filed under the guid
  noGuid,     \* shared_connections_no_guid
  slot,       \* bus_connections[type]
  bus,        \* who holds the bus lock
  pool,       \* who holds the lock of the shared connections
  thread,     \* what each thread does
  crash       \* "none", or the assertion that failed

vars == <<hasGuid, conn, table, noGuid, slot, bus, pool, thread, crash>>

(***************************************************************************)
(* A connection: its reference count, is it connected, is the Disconnected *)
(* message still to be queued (link), in the queue, arrived, processed; is *)
(* server_guid set; its lock; does BusData say is_well_known; was libdbus' *)
(* reference lost.                                                         *)
(***************************************************************************)
Unborn == [refs |-> 0, born |-> FALSE, freed |-> FALSE, connected |-> FALSE,
           link |-> TRUE, queued |-> FALSE, arrived |-> FALSE, processed |-> FALSE,
           guid |-> FALSE, lock |-> None, wellKnown |-> FALSE, leaked |-> FALSE]

\* A thread is at a place, in the course of dbus_bus_get or not, works on a
\* connection and has references of its own.
Idle == [at |-> "idle", busGet |-> FALSE, arg |-> None, holds |-> {}]

At(t, place) == thread[t].at = place /\ crash = "none"
Arg(t) == thread[t].arg
Becomes(t, r) == thread' = [thread EXCEPT ![t] = r]
Go(t, place) == Becomes(t, [thread[t] EXCEPT !.at = place])
Free(lock, t) == lock \in {None, t}
Unlocked(c) == conn[c].lock = None
ConnBecomes(c, r) == conn' = [conn EXCEPT ![c] = r]

\* dbus_bus_get or dbus_connection_open returns c.
Return(t, c) == Becomes(t, [Idle EXCEPT !.holds = thread[t].holds \cup {c}])
Fail(t) == Becomes(t, [Idle EXCEPT !.holds = thread[t].holds])

Init ==
  /\ hasGuid \in BOOLEAN
  /\ conn = [c \in Conns |-> Unborn]
  /\ table = None /\ noGuid = {} /\ slot = None
  /\ bus = None /\ pool = None
  /\ thread = [t \in Threads |-> Idle]
  /\ crash = "none"

-----------------------------------------------------------------------------
(* Getting a connection *)

\* A thread has one reference to a connection, and opens another one when it
\* has none that works.
MayOpen(t) ==
  /\ At(t, "idle")
  /\ \A c \in thread[t].holds : ~conn[c].connected /\ slot # c

DbusConnectionOpen(t) ==
  /\ MayOpen(t)
  /\ Go(t, "lookup")
  /\ UNCHANGED <<hasGuid, conn, table, noGuid, slot, bus, pool, crash>>

\* internal_bus_get: a connection that is there is used, whatever it is doing.
DbusBusGet(t) ==
  /\ MayOpen(t)
  /\ bus = None
  /\ IF slot # None
     THEN /\ ConnBecomes(slot, [conn[slot] EXCEPT !.refs = @ + 1])
          /\ Return(t, slot)
          /\ UNCHANGED bus
     ELSE /\ bus' = t
          /\ Becomes(t, [thread[t] EXCEPT !.at = "lookup", !.busGet = TRUE])
          /\ UNCHANGED conn
  /\ UNCHANGED <<hasGuid, table, noGuid, slot, pool, crash>>

\* What becomes of the connection that was found or made.
Opened(t, c) ==
  IF thread[t].busGet
  THEN Becomes(t, [thread[t] EXCEPT !.at = "register", !.arg = c])
  ELSE Return(t, c)

\* connection_lookup_shared takes the lock of the table, then that of the
\* connection it finds there.
LookupShared(t) ==
  /\ At(t, "lookup")
  /\ pool = None
  /\ IF hasGuid /\ table # None
     THEN pool' = t /\ Go(t, "peek")
     ELSE Go(t, "create") /\ UNCHANGED pool
  /\ UNCHANGED <<hasGuid, conn, table, noGuid, slot, bus, crash>>

Peek(c) == conn[c].connected

LookupConnection(t) ==
  /\ At(t, "peek")
  /\ Unlocked(table)
  /\ pool' = None
  /\ IF Peek(table)
     THEN ConnBecomes(table, [conn[table] EXCEPT !.refs = @ + 1]) /\ Opened(t, table)
     ELSE Go(t, "create") /\ UNCHANGED conn
  /\ UNCHANGED <<hasGuid, table, noGuid, slot, bus, crash>>

\* connection_try_from_address_entry, which may fail.
TryFromAddressEntry(t) ==
  /\ At(t, "create")
  /\ \/ /\ \E c \in Conns :
             /\ ~conn[c].born
             /\ ConnBecomes(c, [conn[c] EXCEPT !.born = TRUE, !.connected = TRUE,
                                                !.refs = 1, !.lock = t])
             /\ Becomes(t, [thread[t] EXCEPT !.at = "record", !.arg = c])
        /\ UNCHANGED bus
     \/ /\ Fail(t)
        /\ bus' = IF thread[t].busGet THEN None ELSE bus
        /\ UNCHANGED conn
  /\ UNCHANGED <<hasGuid, table, noGuid, slot, pool, crash>>

\* connection_record_shared_unlocked: a connection that was in the table
\* under this guid is not there any more.
RecordShared(t) ==
  LET c == Arg(t) IN
  /\ At(t, "record")
  /\ pool = None
  /\ ConnBecomes(c, [conn[c] EXCEPT !.refs = @ + 1, !.lock = None, !.guid = hasGuid])
  /\ IF hasGuid
     THEN table' = c /\ UNCHANGED noGuid
     ELSE noGuid' = noGuid \cup {c} /\ UNCHANGED table
  /\ Opened(t, c)
  /\ UNCHANGED <<hasGuid, slot, bus, pool, crash>>

\* Without memory the connection is closed, but the reference that the table
\* would have had is not dropped.
RecordSharedFails(t) ==
  LET c == Arg(t) IN
  /\ At(t, "record")
  /\ ConnBecomes(c, [conn[c] EXCEPT !.refs = @ + 1, !.lock = None, !.leaked = TRUE])
  /\ Go(t, "close")
  /\ UNCHANGED <<hasGuid, table, noGuid, slot, bus, pool, crash>>

\* dbus_bus_register, done or failed.  A failure closes the connection.
Register(t) ==
  /\ At(t, "register")
  /\ Unlocked(Arg(t))
  /\ \/ conn[Arg(t)].connected /\ Go(t, "store")
     \/ Go(t, "close")
  /\ UNCHANGED <<hasGuid, conn, table, noGuid, slot, bus, pool, crash>>

Store(t) ==
  /\ At(t, "store")
  /\ slot' = Arg(t)
  /\ Go(t, "mark")
  /\ UNCHANGED <<hasGuid, conn, table, noGuid, bus, pool, crash>>

\* dbus_connection_set_exit_on_disconnect takes the connection's lock.
Mark(t) ==
  /\ At(t, "mark")
  /\ Unlocked(Arg(t))
  /\ ConnBecomes(Arg(t), [conn[Arg(t)] EXCEPT !.wellKnown = TRUE])
  /\ bus' = None
  /\ Return(t, Arg(t))
  /\ UNCHANGED <<hasGuid, table, noGuid, slot, pool, crash>>

-----------------------------------------------------------------------------
(* Losing a connection *)

\* A thread that has a reference dispatches: it takes the connection's lock
\* and another reference, and may find that the peer is gone.
Dispatch(t, c) ==
  /\ At(t, "idle")
  /\ c \in thread[t].holds
  /\ Unlocked(c)
  /\ \E connected \in {conn[c].connected, FALSE} :
       /\ ConnBecomes(c, [conn[c] EXCEPT !.lock = t, !.refs = @ + 1, !.connected = connected])
       /\ Becomes(t, [thread[t] EXCEPT !.arg = c,
            !.at = IF conn[c].queued THEN "pop" ELSE IF connected THEN "update" ELSE "notify"])
  /\ UNCHANGED <<hasGuid, table, noGuid, slot, bus, pool, crash>>

\* _dbus_connection_close_possibly_shared_and_unlock.
Close(t) ==
  LET c == Arg(t) IN
  /\ At(t, "close")
  /\ Unlocked(c)
  /\ ConnBecomes(c, [conn[c] EXCEPT !.lock = t, !.connected = FALSE])
  /\ Go(t, IF conn[c].queued THEN "update" ELSE "notify")
  /\ UNCHANGED <<hasGuid, table, noGuid, slot, bus, pool, crash>>

\* Mutant: the weak reference is left alone.
ClearSlotNever(c) == UNCHANGED slot
ClearSlot(c) == slot' = IF slot = c THEN None ELSE slot

\* notify_disconnected_unlocked and
\* notify_disconnected_and_dispatch_complete_unlocked.  The bus lock may be
\* taken twice by a thread.
NotifyDisconnected(t) ==
  LET c == Arg(t) IN
  /\ At(t, "notify")
  /\ BusLocked => Free(bus, t)
  /\ ClearSlot(c)
  /\ ConnBecomes(c, [conn[c] EXCEPT !.link = FALSE, !.queued = conn[c].link \/ @])
  /\ Go(t, "update")
  /\ UNCHANGED <<hasGuid, table, noGuid, bus, pool, crash>>

\* check_disconnected_message_arrived_unlocked, when the message is taken
\* out of the queue.
PopDisconnected(t) ==
  /\ At(t, "pop")
  /\ ConnBecomes(Arg(t), [conn[Arg(t)] EXCEPT !.queued = FALSE, !.arrived = TRUE])
  /\ Go(t, "update")
  /\ UNCHANGED <<hasGuid, table, noGuid, slot, bus, pool, crash>>

\* The last reference dropped finalizes the connection.
Dropped(r) == [r EXCEPT !.refs = @ - 1]

\* _dbus_connection_update_dispatch_status_and_unlock, when it is over: the
\* temporary reference goes; a failed dbus_bus_get drops its own too, below.
UpdateDone(t, rec, c) ==
  /\ ConnBecomes(c, [rec EXCEPT !.lock = None])
  /\ Go(t, "unref")

UpdateDispatchStatus(t) ==
  LET c == Arg(t) IN
  /\ At(t, "update")
  /\ IF conn[c].arrived /\ ~conn[c].processed
     THEN /\ ConnBecomes(c, [conn[c] EXCEPT !.processed = TRUE])
          /\ Go(t, "forget")
     ELSE UpdateDone(t, conn[c], c)
  /\ UNCHANGED <<hasGuid, table, noGuid, slot, bus, pool, crash>>

\* connection_forget_shared_unlocked, with the connection's lock held.  It
\* removes what it finds under the guid.
ForgetShared(t) ==
  LET c == Arg(t) IN
  /\ At(t, "forget")
  /\ pool = None
  /\ IF conn[c].guid /\ table = None
     THEN /\ crash' = "connection was not in the shared table"
          /\ UNCHANGED <<conn, table, noGuid, thread>>
     ELSE /\ table' = IF conn[c].guid THEN None ELSE table
          /\ noGuid' = noGuid \ {c}
          /\ UpdateDone(t, Dropped([conn[c] EXCEPT !.guid = FALSE]), c)
          /\ UNCHANGED crash
  /\ UNCHANGED <<hasGuid, slot, bus, pool>>

\* dbus_connection_unref: the temporary reference of a dispatch, or the one
\* that a failed dbus_bus_get has, and its lock.
Unref(t) ==
  LET c == Arg(t) IN
  /\ At(t, "unref")
  /\ ConnBecomes(c, Dropped(conn[c]))
  /\ bus' = IF thread[t].busGet THEN None ELSE bus
  /\ IF conn[c].refs = 1
     THEN Becomes(t, [thread[t] EXCEPT !.at = "finalize", !.busGet = FALSE])
     ELSE Fail(t)
  /\ UNCHANGED <<hasGuid, table, noGuid, slot, pool, crash>>

\* The application drops a reference of its own.
DbusConnectionUnref(t, c) ==
  /\ At(t, "idle")
  /\ c \in thread[t].holds
  /\ ConnBecomes(c, Dropped(conn[c]))
  /\ Becomes(t, [Idle EXCEPT !.holds = thread[t].holds \ {c},
                              !.arg = IF conn[c].refs = 1 THEN c ELSE None,
                              !.at = IF conn[c].refs = 1 THEN "finalize" ELSE "idle"])
  /\ UNCHANGED <<hasGuid, table, noGuid, slot, bus, pool, crash>>

\* _dbus_connection_last_unref, with bus_data_free.
LastUnref(t) ==
  LET c == Arg(t) IN
  /\ At(t, "finalize")
  /\ conn[c].wellKnown => bus = None
  /\ IF conn[c].connected \/ conn[c].guid
     THEN crash' = "finalized too soon" /\ UNCHANGED <<conn, slot, thread>>
     ELSE /\ ConnBecomes(c, [conn[c] EXCEPT !.freed = TRUE])
          /\ IF conn[c].wellKnown THEN ClearSlot(c) ELSE UNCHANGED slot
          /\ Fail(t)
          /\ UNCHANGED crash
  /\ UNCHANGED <<hasGuid, table, noGuid, bus, pool>>

Next == \E t \in Threads :
  \/ DbusConnectionOpen(t) \/ DbusBusGet(t)
  \/ LookupShared(t) \/ LookupConnection(t)
  \/ TryFromAddressEntry(t) \/ RecordShared(t) \/ RecordSharedFails(t)
  \/ Register(t) \/ Store(t) \/ Mark(t)
  \/ \E c \in Conns : Dispatch(t, c) \/ DbusConnectionUnref(t, c)
  \/ Close(t) \/ NotifyDisconnected(t) \/ PopDisconnected(t)
  \/ UpdateDispatchStatus(t) \/ ForgetShared(t) \/ Unref(t) \/ LastUnref(t)

Spec == Init /\ [][Next]_vars

-----------------------------------------------------------------------------
(* Properties *)

\* The reference count of a connection is the number of references there are:
\* one of each thread that has it, one of the thread that works on it, one of
\* libdbus while it is shared.  So no thread, and not the weak reference of
\* dbus-bus.c either, names a connection that is finalized.
References(c) ==
  Cardinality({t \in Threads : c \in thread[t].holds})
  + Cardinality({t \in Threads : Arg(t) = c /\ thread[t].at \notin {"idle", "finalize"}})
  + (IF conn[c].guid \/ c \in noGuid \/ conn[c].leaked THEN 1 ELSE 0)

SharedSound ==
  /\ \A c \in Conns : conn[c].refs = References(c)
  /\ slot # None => conn[slot].refs > 0 /\ ~conn[slot].freed

\* "After the disconnect message link is queued, dbus_bus_get and
\* dbus_connection_open should never again return the newly-disconnected
\* connection."
NeverReturnedAgain ==
  [][\A t \in Threads, c \in Conns :
       c \in thread'[t].holds /\ c \notin thread[t].holds
         => conn[c].link]_vars

\* The assertion of connection_forget_shared_unlocked: a connection whose
\* server_guid is set is in the table until it is forgotten.
ForgottenIsShared == crash # "connection was not in the shared table"
=============================================================================
