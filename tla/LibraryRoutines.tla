-------------------------- MODULE LibraryRoutines ---------------------------
(***************************************************************************)
(* Routines of the library: its servers, its connections, and what an      *)
(* application asks of the message bus.                                    *)
(***************************************************************************)
EXTENDS Routine

-----------------------------------------------------------------------------
(***************************************************************************)
(* Routines of dbus/dbus-server.c, dbus/dbus-server-socket.c and           *)
(* dbus/dbus-server-unix.c: listening on an address and accepting          *)
(* connections.  The lock is the server's mutex.                           *)
(***************************************************************************)

(* The server *)

copy_address_with_guid_appended == Silent({}, {"retval"},
  Quiet({"with_guid"}, Nothing) \o
  Quiet({}, Frees({"with_guid"})) \o
  Quiet({"retval"}, Frees({"with_guid"})) \o
  Put({"with_guid"}))

dbus_server_init_base ==
  LET all == {"guid_hex", "address", "mutex", "watches", "timeouts"}
      failed == FreesAnd({"guid_hex"}, IfHeld(all \ {"guid_hex"}))
  IN Silent({}, all,
       Quiet({"guid_hex"}, Nothing) \o
       Quiet({}, failed) \o                      \* encode the guid
       Quiet({"address"}, failed) \o
       Quiet({"mutex"}, failed) \o
       Quiet({"watches"}, failed) \o
       Quiet({"timeouts"}, failed))

\* The list is taken out of the server while the lock is dropped for the call
\* to the application; meanwhile another change finds none and fails.
ProtectedChange ==
  LET away == {"list", "server", "unlocked"} IN
  Silent({}, {},
    Opt(StopQuiet(Nothing)) \o
    Get(away) \o
    Quiet({}, Frees(away)) \o
    Put(away))

protected_change_watch == ProtectedChange
protected_change_timeout == ProtectedChange

\* The error kept is that of the first address that did not work, and is not
\* freed if a later one does, or is malformed.
dbus_server_listen == Leaking({"first_connect_error"}, Routine({}, {"server"},
  Do({"entries"}, Nothing) \o
  Loop(Opt(IfElse({"first_connect_error"}, << >>, Get({"first_connect_error"})))) \o
  Opt(Get({"server"}) \o Put({"entries"}) \o Return({"server"})) \o
  Opt(Stop(Frees({"entries"}))) \o               \* malformed, or none is known
  Stop(FreesAnd({"entries"}, IfHeld({"first_connect_error"})))))

dbus_server_disconnect == Silent({}, {},
  Get({"lock"}) \o
  Get({"server"}) \o
  Put({"lock"}) \o
  Put({"server"}))

dbus_server_get_address == Silent({}, {"retval"},
  Get({"lock"}) \o
  Quiet({"retval"}, Frees({"lock"})) \o
  Put({"lock"}))
dbus_server_get_id == dbus_server_get_address

\* The old data is freed without the lock.
dbus_server_set_new_connection_function == Silent({"old_data"}, {},
  Get({"lock"}) \o
  Put({"lock"}) \o
  Put({"old_data"}))

\* The lock is dropped while the functions are called for what is in the list.
SetServerFunctions ==
  LET away == {"list", "unlocked"} IN
  Silent({}, {},
    Get({"lock"}) \o
    Opt(StopQuiet(Frees({"lock"}))) \o           \* a call from within a call
    Get(away) \o
    Quiet({}, Frees(away \cup {"lock"})) \o
    Put(away) \o
    Put({"lock"}))

dbus_server_set_watch_functions == SetServerFunctions
dbus_server_set_timeout_functions == SetServerFunctions

\* With no memory for the copy the lock is not released.
dbus_server_set_auth_mechanisms == Leaking({"lock"}, Silent({}, {},
  Get({"lock"}) \o
  Opt(Quiet({"copy"}, Nothing) \o Put({"copy"})) \o
  Put({"lock"})))

dbus_server_set_data == Silent({"old_data"}, {},
  Get({"lock"}) \o
  Quiet({}, Frees({"lock", "old_data"})) \o
  Put({"lock"}) \o
  Put({"old_data"}))

-----------------------------------------------------------------------------
(* Sockets *)

\* Without a socket that does not block the connection is dropped, and its
\* descriptor not closed.  The transport owns the descriptor, the connection
\* the transport; the connection dies if the application keeps no reference.
handle_new_client_fd_and_unlock ==
  LET unlock == Frees({"lock"}) IN
  Leaking({"client_fd"}, Silent({"lock", "client_fd"}, {},
    Opt(Put({"lock"}) \o Return({})) \o
    Quiet({"transport"}, FreesAnd({"client_fd"}, unlock)) \o
    Put({"client_fd"}) \o
    Quiet({}, FreesAnd({"transport"}, unlock)) \o
    Quiet({"connection"}, FreesAnd({"transport"}, unlock)) \o
    Put({"transport"}) \o
    Get({"server"}) \o
    Put({"lock"}) \o
    Put({"server"}) \o
    Put({"connection"})))

\* The lock is released by whoever handles a new connection; with no news to
\* read it is not released.
socket_handle_watch == Leaking({"lock"}, Silent({}, {},
  Get({"lock"}) \o
  Opt(Either(Put({"lock"}),                      \* nothing to accept
             Get({"client_fd"}) \o Put({"lock", "client_fd"})))))

dbus_server_new_for_socket ==
  LET failed_0 == Frees({"socket_server"})
      failed_1 == FreesAnd({"fds"}, failed_0)
      failed_2 == FreesAnd({"watch"}, failed_1)
      watches == [failed_2 EXCEPT !.may = {"watches"}]
  IN Silent({}, {"socket_server", "fds", "watch", "watches", "base"},
       Quiet({"socket_server"}, Nothing) \o
       Quiet({"fds"}, failed_0) \o
       Quiet({"watch"}, failed_1) \o
       Quiet({"watches"}, failed_2) \o
       Loop(Quiet({}, watches)) \o
       Quiet({"base"}, watches) \o
       Get({"lock"}) \o
       Loop(Quiet({}, FreesAnd({"lock", "base"}, watches))) \o
       Put({"lock"}))

dbus_server_new_for_tcp_socket ==
  LET failed_0 == Frees({"address"})
      failed_1 == FreesAnd({"port_str"}, failed_0)
      failed_2 == FreesAnd({"listen_fds"}, failed_1)
  IN Routine({}, {"server"},
       Do({"address"}, Nothing) \o
       Do({"port_str"}, failed_0) \o
       Do({"listen_fds"}, failed_1) \o
       Test(failed_2) \o                         \* host and port
       Opt(Test(failed_2)) \o                    \* family
       Do({"server"}, failed_2) \o
       Put({"port_str", "address", "listen_fds"}))

\* Another method is for another function, without an error.
dbus_server_listen_socket == Routine({}, {},
  Opt(Return({})) \o
  Do({"server"}, Nothing) \o
  Return({"server"}))

dbus_server_listen_platform_specific ==
  LET strings == Frees({"full_path", "filename"}) IN
  Routine({}, {"server"},
    Opt(Return({})) \o                           \* not unix
    Test(Nothing) \o                             \* none or two of the keys
    Test(Nothing) \o
    Either(Do({"full_path"}, Nothing) \o         \* tmpdir
           Do({"filename"}, Frees({"full_path"})) \o
           Test(strings) \o
           Do({"server"}, strings) \o
           Put({"full_path", "filename"}),
           Do({"server"}, Nothing)))

dbus_server_new_for_domain_socket ==
  LET failed_0 == Frees({"address"})
      failed_1 == FreesAnd({"path_copy"}, failed_0)
      failed_2 == FreesAnd({"listen_fd"}, failed_1)
  IN Routine({}, {"server"},
       Do({"address"}, Nothing) \o
       Test(failed_0) \o
       Do({"path_copy"}, failed_0) \o
       Do({"listen_fd"}, failed_1) \o
       Do({"server"}, failed_2) \o
       Put({"path_copy", "listen_fd"}) \o        \* the server's now
       Put({"address"}))

-----------------------------------------------------------------------------
(***************************************************************************)
(* Routines of dbus/dbus-bus.c: what an application asks of the message    *)
(* bus, and of dbus/dbus-spawn.c: starting a child with its babysitter.    *)
(* The locks are the global ones of dbus/dbus-bus.c.                       *)
(***************************************************************************)

(* Addresses and per-connection data *)

get_from_env == Silent({}, {},
  Opt(Quiet({"address"}, Nothing) \o Return({"address"})))

\* Whatever was set before a failure stays set: the addresses are globals and
\* the next call goes on from there.
init_connections_unlocked == Silent({}, {},
  Opt(Return({})) \o                             \* initialized
  Quiet({}, Nothing) \o                          \* system, environment
  Quiet({}, Nothing) \o                          \* system, default
  Quiet({}, Nothing) \o                          \* session, environment
  Quiet({}, Nothing) \o                          \* session, default
  Quiet({}, Nothing) \o                          \* starter
  Quiet({}, Nothing) \o                          \* starter, as the session
  Quiet({}, Nothing) \o Quiet({}, Nothing) \o    \* the environment is cleaned
  Quiet({}, Nothing))                            \* the shutdown function

\* The data of a connection holds the reference to the slot.
ensure_bus_data == Silent({}, {},
  Quiet({"slot"}, Nothing) \o
  Opt(Put({"slot"}) \o Return({})) \o            \* there already
  Quiet({"bd"}, Frees({"slot"})) \o
  Quiet({}, Frees({"slot", "bd"})) \o
  Put({"slot", "bd"}))                           \* the connection's now

internal_bus_get == Routine({}, {"connection"},
  Get({"bus"}) \o
  Test(Frees({"bus"})) \o                        \* the addresses
  Opt(Get({"connection"}) \o Put({"bus"}) \o Return({"connection"})) \o
  Test(Frees({"bus"})) \o                        \* no address
  Do({"connection"}, Frees({"bus"})) \o
  Test(Frees({"bus", "connection"})) \o          \* dbus_bus_register
  Get({"bus_datas"}) \o
  Put({"bus_datas"}) \o
  Put({"bus"}))

dbus_bus_register ==
  LET unlock == Frees({"bus_datas"})
      out == FreesAnd({"reply"}, unlock)
  IN Routine({}, {},
       Get({"bus_datas"}) \o
       Test(unlock) \o                           \* ensure_bus_data
       Opt(Put({"bus_datas"}) \o Return({})) \o  \* has a name
       Do({"message"}, unlock) \o
       Do({"reply"}, FreesAnd({"message"}, unlock)) \o
       Put({"message"}) \o
       Test(out) \o                              \* an error reply
       Test(out) \o                              \* its arguments
       Test(out) \o                              \* the copy of the name
       Put({"reply"}) \o
       Put({"bus_datas"}))

\* Without data for the connection both return with the lock taken.
dbus_bus_set_unique_name == Leaking({"bus_datas"}, Silent({}, {},
  Get({"bus_datas"}) \o
  Quiet({}, Nothing) \o
  Quiet({}, Frees({"bus_datas"})) \o
  Put({"bus_datas"})))

dbus_bus_get_unique_name == Leaking({"bus_datas"}, Silent({}, {},
  Get({"bus_datas"}) \o
  Quiet({}, Nothing) \o
  Put({"bus_datas"})))

-----------------------------------------------------------------------------
(* Calls to the bus *)

\* A call with arguments, and the answer.
Called ==
  Do({"message"}, Nothing) \o
  Test(Frees({"message"})) \o
  Do({"reply"}, Frees({"message"})) \o
  Put({"message"})

Answered == Called \o
  Test(Frees({"reply"})) \o                      \* an error reply
  Test(Frees({"reply"})) \o                      \* its arguments
  Put({"reply"})

dbus_bus_get_unix_user == Routine({}, {}, Answered)
dbus_bus_request_name == Routine({}, {}, Answered)
dbus_bus_release_name == Routine({}, {}, Answered)

dbus_bus_get_id == Routine({}, {"id"},
  Do({"message"}, Nothing) \o
  Do({"reply"}, Frees({"message"})) \o
  Put({"message"}) \o
  Test(Frees({"reply"})) \o
  Test(Frees({"reply"})) \o
  Do({"id"}, Frees({"reply"})) \o
  Put({"reply"}))

\* An error reply is told by its arguments, which are not a Boolean.
dbus_bus_name_has_owner == Routine({}, {},
  Called \o
  Test(Frees({"reply"})) \o
  Put({"reply"}))

\* That there is no message is noticed when its arguments are appended.
dbus_bus_start_service_by_name == Routine({}, {},
  Called \o
  Test(Frees({"reply"})) \o
  Opt(Test(Frees({"reply"}))) \o
  Put({"reply"}))

\* The caller that gives no error does not wait for the reply.
send_no_return_values == Routine({}, {},
  Opt(Do({"reply"}, Nothing) \o Put({"reply"})))

dbus_bus_add_match == Routine({}, {},
  Do({"message"}, Nothing) \o
  Test(Frees({"message"})) \o
  Test(Frees({"message"})) \o                    \* send_no_return_values
  Put({"message"}))

dbus_bus_remove_match == dbus_bus_add_match

-----------------------------------------------------------------------------
(* A child and its babysitter, in the parent *)

dbus_babysitter_new == Silent({}, {"sitter", "watches"},
  Quiet({"sitter"}, Nothing) \o
  Quiet({"watches"}, Frees({"sitter"})))

\* Nothing can fail after the fork.
dbus_spawn_async_with_babysitter ==
  LET cleanup_and_fail == FreesAnd({"sitter"},
        IfHeld({"executable", "err_pipe", "sitter_pipe", "error_watch", "sitter_watch"}))
      owned == {"executable", "error_watch", "sitter_watch"}
  IN Routine({}, {"child"},
       Do({"sitter"}, Nothing) \o
       Do({"executable"}, cleanup_and_fail) \o
       Do({"err_pipe"}, cleanup_and_fail) \o
       Do({"sitter_pipe"}, cleanup_and_fail) \o
       Do({"error_watch"}, cleanup_and_fail) \o
       Test(cleanup_and_fail) \o
       Do({"sitter_watch"}, cleanup_and_fail) \o
       Test(cleanup_and_fail) \o
       Do({"child"}, cleanup_and_fail) \o
       Put({"err_pipe", "sitter_pipe"}) \o       \* the sitter's, or closed
       Put(owned) \o
       Put({"sitter"}))

-----------------------------------------------------------------------------
(***************************************************************************)
(* Routines of dbus/dbus-connection.c: the calls of the public interface   *)
(* around the core that ClientConnection models, the built-in answers, and *)
(* the introspection of dbus/dbus-object-tree.c.  The lock is the          *)
(* connection's mutex, dispatch the right to dispatch; a routine whose     *)
(* name ends in and_unlock takes the lock over from its caller.            *)
(***************************************************************************)

(* Sending *)

dbus_connection_preallocate_send_unlocked ==
  LET failed_0 == Frees({"preallocated"}) IN
  Silent({}, {"preallocated", "queue_link", "counter_link", "counter"},
    Quiet({"preallocated"}, Nothing) \o
    Either(Get({"queue_link"}), Quiet({"queue_link"}, failed_0)) \o
    Either(Get({"counter_link"}), Quiet({"counter_link"}, FreesAnd({"queue_link"}, failed_0))) \o
    Get({"counter"}))

dbus_connection_preallocate_send == Silent({}, {"preallocated"},
  Get({"lock"}) \o
  Quiet({"preallocated"}, Frees({"lock"})) \o
  Put({"lock"}))

dbus_connection_free_preallocated_send ==
  Silent({"preallocated", "queue_link", "counter_link", "counter"}, {},
    Put({"queue_link"}) \o
    Put({"counter"}) \o
    Put({"counter_link"}) \o
    Put({"preallocated"}))

\* The message is queued, then the dispatch status told without the lock.
dbus_connection_send_preallocated_and_unlock == Silent({"lock", "preallocated"}, {},
  Put({"preallocated"}) \o
  Put({"lock"}))

dbus_connection_send_preallocated == Silent({"preallocated"}, {},
  Get({"lock"}) \o
  Put({"lock", "preallocated"}))

dbus_connection_send_unlocked_no_update == Silent({}, {},
  Quiet({"preallocated"}, Nothing) \o
  Put({"preallocated"}))

dbus_connection_send_and_unlock == Silent({"lock"}, {},
  Quiet({"preallocated"}, Frees({"lock"})) \o
  Put({"lock", "preallocated"}))

dbus_connection_send == Silent({}, {},
  Get({"lock"}) \o
  Quiet({}, Frees({"lock"})) \o
  Put({"lock"}))

generate_local_error_message ==
  LET failed == Frees({"message"}) IN
  Silent({}, {"message"},
    Quiet({"message"}, Nothing) \o
    Quiet({}, failed) \o                         \* the error name
    Quiet({}, failed) \o                         \* the reply serial
    Opt(Quiet({}, failed)))                      \* the text

free_outgoing_message == Silent({"counted", "message"}, {},
  Put({"counted"}) \o
  Put({"message"}))

-----------------------------------------------------------------------------
(* Iterating and taking messages *)

dbus_connection_do_iteration_unlocked == Silent({"lock"}, {"lock"},
  Opt(Get({"io_path"}) \o                        \* or another thread has it
      Put({"io_path"})))

dbus_connection_flush == Silent({}, {},
  Get({"lock"}) \o
  Put({"lock"}))

dbus_connection_read_write_dispatch == Silent({}, {},
  Get({"connection"}) \o
  Opt(Get({"dispatch"}) \o Put({"dispatch"})) \o
  Get({"lock"}) \o
  Put({"lock"}) \o
  Put({"connection"}))

dbus_connection_get_dispatch_status == Silent({}, {},
  Get({"lock"}) \o
  Put({"lock"}))

\* The right to dispatch is kept while a message is borrowed.
dbus_connection_borrow_message == Silent({}, {"dispatch", "message"},
  Opt(StopQuiet(Nothing)) \o                     \* nothing to dispatch
  Get({"lock"}) \o
  Get({"dispatch"}) \o
  Quiet({"message"}, Frees({"dispatch", "lock"})) \o
  Put({"lock"}))

dbus_connection_return_message == Silent({"dispatch", "message"}, {},
  Get({"lock"}) \o
  Put({"message"}) \o
  Put({"dispatch"}) \o
  Put({"lock"}))

\* The message leaves the queue and is the caller's.
dbus_connection_steal_borrowed_message == Silent({"dispatch", "message"}, {"message"},
  Get({"lock"}) \o
  Put({"dispatch"}) \o
  Put({"lock"}))

dbus_connection_pop_message_link_unlocked == Silent({}, {"link", "message"},
  Quiet({"link", "message"}, Nothing))           \* or the queue is empty

dbus_connection_pop_message_unlocked == Silent({}, {"message"},
  Quiet({"link", "message"}, Nothing) \o
  Put({"link"}))

dbus_connection_putback_message_link_unlocked == Silent({"link", "message"}, {},
  Put({"link", "message"}))
dbus_connection_failed_pop == dbus_connection_putback_message_link_unlocked

dbus_connection_pop_message ==
  Silent({}, {"message"},
    Opt(StopQuiet(Nothing)) \o
    Get({"lock"}) \o
    Get({"dispatch"}) \o
    Quiet({"message"}, Frees({"dispatch", "lock"})) \o
    Put({"dispatch"}) \o
    Put({"lock"}))

-----------------------------------------------------------------------------
(* The answers a connection gives by itself *)

\* The reply is dropped whether or not it could be sent.
dbus_connection_peer_filter_unlocked_no_update == Silent({}, {},
  Opt(Return({})) \o                             \* not for the Peer interface
  Quiet({"ret"}, Nothing) \o
  Either(Quiet({}, Frees({"ret"})),              \* Ping, or an unknown method
         Get({"uuid"}) \o                        \* GetMachineId
         Quiet({}, Frees({"uuid", "ret"})) \o
         Quiet({}, Frees({"uuid", "ret"})) \o
         Quiet({}, Frees({"uuid", "ret"})) \o
         Put({"uuid"})) \o
  Put({"ret"}))

flatten_path == Silent({}, {"s"},
  Quiet({"str"}, Nothing) \o
  Loop(Quiet({}, Frees({"str"}))) \o
  Quiet({"s"}, Frees({"str"})) \o
  Put({"str"}))

dbus_object_tree_list_registered_and_unlock == Silent({"lock"}, {"child_entries"},
  Quiet({"child_entries"}, Frees({"lock"})) \o
  Put({"lock"}))

\* Sending releases the lock, whether or not the reply could be queued.
handle_default_introspect_and_unlock ==
  LET out == FreesAnd({"xml"}, IfHeld({"lock", "children", "reply"})) IN
  Silent({"lock"}, {},
    Opt(Put({"lock"}) \o Return({})) \o          \* not Introspect
    Quiet({"xml"}, Frees({"lock"})) \o
    Quiet({"children"}, out) \o
    Quiet({}, out) \o                            \* the doctype and the node
    Loop(Quiet({}, out)) \o                      \* the children
    Quiet({}, out) \o
    Quiet({"reply"}, out) \o
    Quiet({}, out) \o                            \* append the text
    Put({"lock"}) \o
    Quiet({}, out) \o                            \* send
    Put({"xml", "children", "reply"}))

-----------------------------------------------------------------------------
(* References and the end *)

dbus_connection_ref == Silent({}, {"connection"}, Get({"connection"}))
dbus_connection_ref_unlocked == dbus_connection_ref
dbus_message_filter_ref == Silent({}, {"filter"}, Get({"filter"}))

\* The user data goes with the last reference.
dbus_message_filter_unref == Silent({"filter", "user_data"}, {},
  Either(Put({"user_data"}) \o
         Put({"filter"}),
         Put({"filter", "user_data"})))          \* someone else holds them

\* The lock is passed on to the function that closes.
dbus_connection_close_possibly_shared == Silent({}, {},
  Get({"lock"}) \o
  Put({"lock"}))

dbus_connection_close_if_only_one_ref == Silent({}, {},
  Get({"lock"}) \o
  Put({"lock"}))

close_connection_on_shutdown == Silent({}, {},
  Get({"connection"}) \o
  Get({"lock"}) \o
  Put({"lock"}) \o
  Loop(Get({"message"}) \o Put({"message"})) \o
  Put({"connection"}))

\* The table's lock is dropped around every close, which takes the connection
\* out of the table; a connection of the list is taken out before.
shared_connections_shutdown == Silent({"table"}, {},
  Get({"shared_lock"}) \o
  Loop(Put({"shared_lock"}) \o Get({"shared_lock"})) \o
  Put({"table"}) \o
  Loop(Get({"no_guid"}) \o Put({"shared_lock"}) \o Put({"no_guid"}) \o Get({"shared_lock"})) \o
  Put({"shared_lock"}))

-----------------------------------------------------------------------------
(* What the connection was told *)

\* A value is read or written under the lock.
Accessor == Silent({}, {}, Get({"lock"}) \o Put({"lock"}))

dbus_connection_get_is_connected == Accessor
dbus_connection_get_is_authenticated == Accessor
dbus_connection_get_is_anonymous == Accessor
dbus_connection_set_exit_on_disconnect == Accessor
dbus_connection_get_socket == Accessor
dbus_connection_set_allow_anonymous == Accessor
dbus_connection_set_route_peer_messages == Accessor
dbus_connection_get_data == Accessor
dbus_connection_set_max_message_size == Accessor
dbus_connection_get_max_message_size == Accessor
dbus_connection_set_max_received_size == Accessor
dbus_connection_get_max_received_size == Accessor
dbus_connection_get_outgoing_size == Accessor

dbus_connection_get_server_id == Silent({}, {"id"},
  Get({"lock"}) \o
  Quiet({"id"}, Frees({"lock"})) \o
  Put({"lock"}))

\* Only an authenticated connection knows its peer.
GetIdentity == Silent({}, {},
  Get({"lock"}) \o
  Opt(StopQuiet(Frees({"lock"}))) \o
  Quiet({}, Frees({"lock"})) \o
  Put({"lock"}))

dbus_connection_get_unix_user == GetIdentity
dbus_connection_get_unix_process_id == GetIdentity
dbus_connection_get_adt_audit_session_data == GetIdentity

\* The caller frees the copy of the sid.
dbus_connection_get_windows_user == Silent({}, {"windows_sid"},
  Get({"lock"}) \o
  Opt(StopQuiet(Frees({"lock"}))) \o
  Quiet({"windows_sid"}, Frees({"lock"})) \o
  Put({"lock"}))

\* The old data is freed without the lock.
Replace == Silent({"old_data"}, {},
  Get({"lock"}) \o
  Put({"lock"}) \o
  Put({"old_data"}))

dbus_connection_set_wakeup_main_function == Replace
dbus_connection_set_dispatch_status_function == Replace
dbus_connection_set_unix_user_function == Replace
dbus_connection_set_windows_user_function == Replace

\* Old data stays in its slot if the new data cannot be stored.
dbus_connection_set_data == Silent({"old_data"}, {},
  Get({"lock"}) \o
  Quiet({}, Frees({"lock", "old_data"})) \o
  Put({"lock"}) \o
  Put({"old_data"}))

\* The list is taken out of the connection while the lock is dropped for the
\* call to the application; meanwhile another change finds none and fails.
connection_change_watch ==
  LET away == {"list", "connection", "unlocked"} IN
  Silent({}, {},
    Opt(StopQuiet(Nothing)) \o
    Get(away) \o
    Quiet({}, Frees(away)) \o
    Put(away))

\* A call from within a call returns with the lock held.
SetConnectionFunctions ==
  LET away == {"list", "unlocked"} IN
  Leaking({"lock"}, Silent({}, {},
    Get({"lock"}) \o
    Opt(StopQuiet(Nothing)) \o
    Get({"connection"}) \o
    Get(away) \o
    Quiet({}, Frees(away \cup {"lock", "connection"})) \o
    Put(away) \o
    Put({"lock"}) \o
    Put({"connection"})))

dbus_connection_set_watch_functions == SetConnectionFunctions
dbus_connection_set_timeout_functions == SetConnectionFunctions

dbus_connection_add_filter == Silent({}, {"filter", "user_data"},
  Quiet({"filter"}, Nothing) \o
  Get({"lock"}) \o
  Quiet({}, Frees({"filter", "lock"})) \o
  Get({"user_data"}) \o
  Put({"lock"}))

\* The filter that was found; the last one looked at if none matched.
dbus_connection_remove_filter == Silent({"filter", "user_data"}, {},
  Get({"lock"}) \o
  Put({"lock"}) \o
  Put({"user_data"}) \o
  Put({"filter"}))

\* With no memory for the path no error is set.
TryRegister == Careless(Routine({}, {"handler"},
  Quiet({"decomposed_path"}, Nothing) \o
  Get({"lock"}) \o
  Do({"handler"}, Frees({"lock", "decomposed_path"})) \o
  Put({"lock"}) \o
  Put({"decomposed_path"})))

dbus_connection_try_register_object_path == TryRegister
dbus_connection_try_register_fallback == TryRegister

\* The error the tree sets is not the one that is freed here.
Register == Leaking({"error"}, Silent({}, {"handler"},
  Quiet({"decomposed_path"}, Nothing) \o
  Get({"lock"}) \o
  Opt(Get({"error"}) \o
      Put({"lock", "decomposed_path"}) \o
      StopQuiet(Nothing)) \o
  Get({"handler"}) \o
  Put({"lock"}) \o
  Put({"decomposed_path"})))

dbus_connection_register_object_path == Register
dbus_connection_register_fallback == Register

\* The tree releases the lock.
dbus_connection_unregister_object_path == Silent({"handler"}, {},
  Quiet({"decomposed_path"}, Frees({"handler"})) \o
  Get({"lock"}) \o
  Put({"lock", "handler"}) \o
  Put({"decomposed_path"}))

dbus_connection_get_object_path_data == Silent({}, {},
  Quiet({"decomposed_path"}, Nothing) \o
  Get({"lock"}) \o
  Put({"lock"}) \o
  Put({"decomposed_path"}))

dbus_connection_list_registered == Silent({}, {"child_entries"},
  Quiet({"decomposed_path"}, Nothing) \o
  Get({"lock"}) \o
  Quiet({"child_entries"}, Frees({"lock", "decomposed_path"})) \o
  Put({"lock"}) \o
  Put({"decomposed_path"}))
=============================================================================
