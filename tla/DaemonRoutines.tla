--------------------------- MODULE DaemonRoutines ---------------------------
(***************************************************************************)
(* Routines of the daemon: its start and reload, the handlers of its       *)
(* driver, and the helpers that read its files and start its services.     *)
(***************************************************************************)
EXTENDS Routine

-----------------------------------------------------------------------------
(***************************************************************************)
(* Routines of the daemon's start and reload: bus/bus.c.  What a routine   *)
(* stores in the BusContext belongs to the context, which its caller       *)
(* unreferences on failure, and is not counted here.                       *)
(***************************************************************************)

server_get_context == Silent({}, {},
  Quiet({"slot"}, Nothing) \o
  Opt(StopQuiet(Frees({"slot"}))) \o             \* no data
  Put({"slot"}))

\* The server owns the data once it is set.
setup_server == Routine({}, {},
  Opt(Stop(Nothing)) \o                          \* no memory for bd
  Get({"bd"}) \o
  Test(Frees({"bd"})) \o
  Put({"bd"}) \o
  Test(Nothing) \o                               \* mechanisms
  Test(Nothing) \o                               \* watches
  Test(Nothing))                                 \* timeouts

\* Each mechanism is stored in the first element of the array, over the one
\* before; a server that cannot be set up or listed is not unreferenced.
process_config_first_time_only ==
  LET failed == IfHeld({"auth_mechanisms", "mechanism"}) IN
  Leaking({"mechanism", "server"}, Routine({}, {},
    Test(Nothing) \o                             \* the pid file exists
    Opt(Do({"auth_mechanisms"}, failed) \o
        Do({"mechanism"}, failed) \o
        Loop(Do({"mechanism"}, failed))) \o
    Loop(Do({"server"}, failed) \o               \* listen
         Test(failed) \o                         \* setup_server
         Test(failed) \o                         \* list it
         Put({"server"})) \o
    Opt(Test(failed)) \o                         \* type
    Opt(Test(failed)) \o                         \* user
    PutIfHeld({"auth_mechanisms", "mechanism"})))

\* A reload replaces the context's policy without unreferencing the old one,
\* and frees its address before there is a new one.
process_config_every_time ==
  LET failed == FreesAnd({"full_address"}, IfHeld({"addr"})) IN
  Routine({}, {},
    Do({"full_address"}, Nothing) \o
    Loop(Do({"addr"}, failed) \o                 \* of a server
         Opt(Test(failed)) \o                    \* the separator
         Test(failed) \o
         Put({"addr"})) \o
    Test(failed) \o                              \* address
    Opt(Test(failed)) \o                         \* servicehelper
    Do({"new_activation"}, failed) \o
    Put({"new_activation"}) \o                   \* the context's now
    Put({"full_address"}))

\* The table of the parser, stolen, is not unreferenced on failure.
process_config_postinit == Leaking({"service_context_table"}, Routine({}, {},
  Get({"service_context_table"}) \o
  Test(Nothing) \o
  Put({"service_context_table"})))

\* The context owns a second reference to the slot; unreferencing the context
\* gives one back, after which the slot may be gone.
bus_context_new ==
  LET failed == IfHeld({"slot", "context's slot", "context", "parser"}) IN
  Routine({}, {"context", "context's slot"},
    Do({"slot"}, Nothing) \o
    Do({"context"}, failed) \o
    Test(failed) \o                              \* config_file
    Test(failed) \o                              \* loop
    Test(failed) \o                              \* registry
    Do({"parser"}, failed) \o
    Test(failed) \o                              \* first time only
    Test(failed) \o                              \* every time
    Get({"context's slot"}) \o
    Opt(Do({"addr"}, failed) \o
        Test(FreesAnd({"addr"}, failed)) \o
        Test(FreesAnd({"addr"}, failed)) \o      \* write, or a short write
        Put({"addr"})) \o
    Test(failed) \o                              \* connections
    Test(failed) \o                              \* matchmaker
    Opt(Test(failed)) \o                         \* the user is not known
    Either(Test(failed), Test(failed)) \o        \* daemon, or pid file
    Test(failed) \o                              \* postinit
    Put({"parser"}) \o
    Opt(Test(failed)) \o                         \* change to the user
    Put({"slot"}))

bus_context_reload_config == Routine({}, {},
  Do({"parser"}, Nothing) \o
  Test(Frees({"parser"})) \o
  Test(Frees({"parser"})) \o
  Put({"parser"}))

-----------------------------------------------------------------------------
(***************************************************************************)
(* The handlers of bus/driver.c as routines: the reply each builds, the    *)
(* failures it reports to the caller and what it releases.  A reply that   *)
(* was sent belongs to the transaction, which holds its own reference.     *)
(***************************************************************************)

\* A reply is made, filled and sent; its reference is dropped in any case.
\* The other things held on the way are in path.
Reply(path) == Do({"reply"}, path)
Fill(path) == Test(FreesAnd({"reply"}, path))
SendReply(path) == Test(FreesAnd({"reply"}, path)) \o Put({"reply"})

\* The names of the bus itself and of the others, in an array.
ListNames ==
  LET filling == Frees({"services", "reply"}) IN
  Routine({}, {},
    Reply(Nothing) \o
    Do({"services"}, Frees({"reply"})) \o
    Test(filling) \o                             \* open the array
    Test(filling) \o                             \* the bus
    Loop(Test(filling)) \o
    Put({"services"}) \o
    Fill(Nothing) \o                             \* close it
    SendReply(Nothing))

bus_driver_send_welcome_message ==
  Routine({}, {}, Reply(Nothing) \o Fill(Nothing) \o SendReply(Nothing))

bus_driver_handle_list_services == ListNames
bus_driver_handle_list_activatable_services == ListNames

\* The numbers are appended in four steps, and taken off again if the name
\* exists; a failure leaves the string to its owner.
create_unique_client_name ==
  LET Name == Quiet({}, Nothing) \o Quiet({}, Nothing) \o
              Quiet({}, Nothing) \o Quiet({}, Nothing)
  IN Silent({}, {}, Loop(Name) \o Name)

bus_driver_handle_release_service == Routine({}, {},
  Test(Nothing) \o                               \* the arguments
  Test(Nothing) \o                               \* release
  Reply(Nothing) \o Fill(Nothing) \o SendReply(Nothing))

bus_driver_handle_service_exists == Routine({}, {},
  Test(Nothing) \o
  Reply(Nothing) \o Fill(Nothing) \o SendReply(Nothing))

bus_driver_handle_activate_service == Routine({}, {}, Test(Nothing) \o Test(Nothing))

send_ack_reply == Routine({}, {}, Reply(Nothing) \o SendReply(Nothing))

\* The keys and values are collected, then set one by one; a failure leaves
\* those set that were set.
bus_driver_handle_update_activation_environment ==
  LET out == IfHeld({"keys", "values"}) IN
  Routine({}, {},
    Loop(Test(out) \o Move({}, {"keys"}) \o
         Test(out) \o Move({}, {"values"})) \o
    Loop(Test(out)) \o                           \* set one
    Test(out) \o                                 \* acknowledge
    PutIfHeld({"keys", "values"}))

bus_driver_handle_get_service_owner == Routine({}, {},
  Test(Nothing) \o                               \* the arguments
  Opt(Test(Nothing)) \o                          \* no such name
  Reply(Nothing) \o Fill(Nothing) \o SendReply(Nothing))

\* The list of names is cleared on failure only.
bus_driver_handle_list_queued_owners ==
  LET failed == Frees({"base_names"}) IN
  Leaking({"base_names"}, Routine({}, {},
    Test(Nothing) \o
    Do({"base_names"}, Nothing) \o               \* or no such name
    Reply(failed) \o
    Fill(failed) \o                              \* open the array
    Loop(Fill(failed)) \o
    Fill(failed) \o                              \* close it
    SendReply(failed)))

\* Facts about the connection that owns a name.
GetConnectionFact == Routine({}, {},
  Test(Nothing) \o                               \* the arguments
  Test(Nothing) \o                               \* no such name
  Reply(Nothing) \o
  Fill(Nothing) \o                               \* it is not known
  Fill(Nothing) \o
  SendReply(Nothing))

bus_driver_handle_get_connection_unix_user == GetConnectionFact
bus_driver_handle_get_connection_unix_process_id == GetConnectionFact
bus_driver_handle_get_adt_audit_session_data == GetConnectionFact
bus_driver_handle_get_connection_selinux_security_context == GetConnectionFact

bus_driver_handle_reload_config == Routine({}, {},
  Test(Nothing) \o
  Reply(Nothing) \o SendReply(Nothing))

bus_driver_handle_get_id ==
  LET oom == Frees({"uuid"}) IN
  Routine({}, {},
    Do({"uuid"}, Nothing) \o
    Test(oom) \o
    Reply(oom) \o
    Fill(oom) \o
    SendReply(oom) \o
    Put({"uuid"}))

write_args_for_direction == Silent({}, {},
  Loop(Quiet({}, Nothing) \o Quiet({}, Nothing) \o Quiet({}, Nothing)))

\* The document is appended piece by piece, the methods from the table of
\* handlers; a failure leaves the string to its owner.
bus_driver_generate_introspect_string == Silent({}, {},
  Loop(Quiet({}, Nothing)) \o
  Loop(Quiet({}, Nothing) \o                     \* a method
       Quiet({}, Nothing) \o Quiet({}, Nothing) \o
       Quiet({}, Nothing)) \o
  Loop(Quiet({}, Nothing)))

bus_driver_handle_introspect ==
  LET oom == Frees({"xml"}) IN
  Routine({}, {},
    Test(Nothing) \o
    Do({"xml"}, Nothing) \o
    Test(oom) \o
    Reply(oom) \o
    Fill(oom) \o
    SendReply(oom) \o
    Put({"xml"}))

\* What is not a call is ignored; a call of an unknown method or with the
\* wrong arguments is an error.
bus_driver_handle_message == Routine({}, {},
  Opt(Return({})) \o
  Opt(Test(Nothing) \o Return({})) \o            \* Introspect
  Test(Nothing) \o                               \* the interface
  Test(Nothing) \o                               \* no such method
  Test(Nothing) \o                               \* the signature
  Test(Nothing))                                 \* the handler

-----------------------------------------------------------------------------
(***************************************************************************)
(* Routines of the system launch helper (bus/activation-helper.c with the  *)
(* parser of bus/config-parser-trivial.c), of service files                *)
(* (bus/desktop-file.c), of the loader of the configuration                *)
(* (bus/config-loader-libxml.c) and of SELinux (bus/selinux.c).            *)
(***************************************************************************)

(* The launch helper *)

bus_config_parser_new == Silent({}, {"parser", "user", "type", "helper"},
  Quiet({"parser"}, Nothing) \o
  Quiet({"user"}, Frees({"parser"})) \o
  Quiet({"type"}, Frees({"user", "parser"})) \o
  Quiet({"helper"}, Frees({"type", "user", "parser"})))

\* The directories are moved to the parser one by one.
bus_config_parser_start_element == Routine({}, {},
  Opt(Do({"dirs"}, Nothing) \o Put({"dirs"})))

bus_config_parser_content == Routine({}, {},
  Do({"sane"}, Nothing) \o
  Test(Frees({"sane"})) \o
  Opt(Either(Do({"path"}, Frees({"sane"})) \o              \* servicedir
             Test(Frees({"path", "sane"})) \o Put({"path"}),
             Test(Frees({"sane"})))) \o                     \* helper, user, type
  Put({"sane"}))

\* Any error but lack of memory means that the file is not there.
desktop_file_for_name ==
  LET out == Frees({"full_path", "filename"})
  IN Routine({}, {"desktop_file"},
       Do({"filename"}, Nothing) \o
       Do({"full_path"}, Frees({"filename"})) \o
       Test(out) \o
       Loop(Test(out) \o
            Try({"desktop_file"},
                Put({"full_path", "filename"}) \o Return({"desktop_file"}),
                Opt(StopQuiet(out)) \o ClearError)) \o
       Stop(out))

clear_environment == Routine({}, {}, Test(Nothing))

check_permissions == Routine({}, {},
  Test(Nothing) \o                               \* the user of the bus
  Test(Nothing) \o                               \* who runs this
  Test(Nothing))                                 \* as root

check_service_name == Routine({}, {},
  Do({"name"}, Nothing) \o
  Test(Frees({"name"})) \o
  Put({"name"}))

get_parameters_for_service ==
  LET failed == IfHeld({"exec", "user"})
  IN Routine({}, {"exec", "user"},
       Test(failed) \o
       Do({"exec"}, failed) \o
       Do({"user"}, failed))

\* The groups, the group and the user, in this order; a failure leaves the
\* process with what was changed so far.
switch_user == Routine({}, {},
  Test(Nothing) \o
  Test(Nothing) \o
  Test(Nothing) \o
  Test(Nothing))

exec_for_correct_user == Routine({}, {},
  Test(Nothing) \o
  Do({"argv"}, Nothing) \o
  Stop(Frees({"argv"})))                         \* execv returns when it fails

check_bus_name == Routine({}, {}, Test(Nothing))

get_correct_parser == Routine({}, {"parser"},
  Do({"config_file"}, Nothing) \o
  Test(Frees({"config_file"})) \o
  Do({"parser"}, Frees({"config_file"})) \o
  Put({"config_file"}))

launch_bus_name == Routine({}, {},
  Do({"desktop_file"}, Nothing) \o
  Do({"exec", "user"}, Frees({"desktop_file"})) \o
  Test(Frees({"exec", "user", "desktop_file"})) \o
  Put({"exec", "user", "desktop_file"}))

check_dbus_user == Routine({}, {},
  Test(Nothing) \o
  Test(Nothing))

run_launch_helper == Routine({}, {},
  Test(Nothing) \o                               \* clear_environment
  Test(Nothing) \o                               \* check_bus_name
  Do({"parser"}, Nothing) \o
  Test(Frees({"parser"})) \o                     \* check_dbus_user
  Test(Frees({"parser"})) \o                     \* launch_bus_name
  Put({"parser"}))

-----------------------------------------------------------------------------
(* Service files *)

unescape_string == Routine({}, {"text"},
  Do({"text"}, Nothing) \o
  Loop(Test(Frees({"text"}))))

new_section == Silent({}, {"name", "lines"},
  Opt(Quiet({}, Nothing)) \o
  Quiet({"name"}, Nothing) \o
  Quiet({"lines"}, Frees({"name"})))

\* A parser that fails is freed by the function that noticed.
parse_section_start == Routine({"parser"}, {"parser"},
  Test(Frees({"parser"})) \o
  Do({"section_name"}, Frees({"parser"})) \o
  Test(Frees({"parser", "section_name"})) \o
  Test(Frees({"parser", "section_name"})) \o
  Put({"section_name"}))

parse_key_value ==
  LET freed == Frees({"value", "parser"})
  IN Routine({"parser"}, {"parser"},
       Test(Frees({"parser"})) \o                \* no key
       Opt(Return({"parser"})) \o                \* a translation
       Test(Frees({"parser"})) \o
       Test(Frees({"parser"})) \o                \* no '='
       Do({"value"}, Frees({"parser"})) \o
       Test(freed) \o                            \* new_line
       Do({"key"}, freed) \o
       Test(FreesAnd({"key"}, freed)) \o
       Test(FreesAnd({"key"}, freed)) \o
       Put({"key"}) \o
       Put({"value"}))                           \* the line's now

bus_desktop_file_load == Routine({}, {"desktop_file"},
  Test(Nothing) \o                               \* stat
  Test(Nothing) \o                               \* too large
  Do({"data"}, Nothing) \o
  Test(Frees({"data"})) \o
  Test(Frees({"data"})) \o
  Do({"desktop_file"}, Frees({"data"})) \o
  Loop(Test(Frees({"desktop_file", "data"}))) \o
  Put({"data"}))

bus_desktop_file_get_string == Routine({}, {"value"},
  Test(Nothing) \o
  Do({"value"}, Nothing))

-----------------------------------------------------------------------------
(* Loading a configuration file *)

xml_text_start_element ==
  LET out == IfHeld({"names", "values"})
  IN Routine({}, {},
       Test(out) \o
       Do({"names"}, out) \o
       Do({"values"}, out) \o
       Loop(Test(out)) \o
       Test(out) \o
       Test(out) \o                              \* start_element
       Opt(Test(out)) \o                         \* end_element
       Put({"names", "values"}))

\* The reader is freed before the error it met is passed on.
bus_config_load ==
  LET failed == FreesAnd({"dirname", "data"}, IfHeld({"parser"}))
  IN Routine({}, {"parser"},
       Do({"dirname"}, Nothing) \o
       Do({"data"}, Frees({"dirname"})) \o
       Test(failed) \o
       Do({"parser"}, failed) \o
       Test(failed) \o
       Do({"reader"}, failed) \o
       Loop(Test(FreesAnd({"reader"}, failed))) \o
       Put({"reader"}) \o
       Test(failed) \o
       Put({"dirname", "data"}))

-----------------------------------------------------------------------------
(* SELinux *)

avc_alloc_lock == Silent({}, {"mutex"}, Get({"mutex"}))

bus_selinux_pre_init == Silent({}, {}, Quiet({}, Nothing))

\* The cache is destroyed when the callback cannot be added; when the context
\* of the bus cannot be found it stays.
bus_selinux_full_init == Leaking({"avc"}, Silent({}, {},
  Opt(Return({})) \o                             \* not enabled
  Quiet({"avc"}, Nothing) \o
  Quiet({}, Frees({"avc"})) \o
  Quiet({"context"}, Nothing) \o
  Quiet({"sid"}, Frees({"context"})) \o
  Put({"context"}) \o
  Put({"avc", "sid"})))                          \* until shutdown

\* A denial is not an error of the program: the caller sets the error.
bus_selinux_allows_acquire_service == Careless(Routine({}, {},
  Opt(Return({})) \o
  Do({"auxdata"}, Nothing) \o
  Loop(Test(Frees({"auxdata"}))) \o
  Quiet({}, Frees({"auxdata"})) \o
  Put({"auxdata"})))

bus_selinux_allows_send == bus_selinux_allows_acquire_service

\* The context is not freed when it cannot be appended.
bus_selinux_append_context == Leaking({"context"}, Routine({}, {},
  Do({"context"}, Nothing) \o
  Test(Nothing) \o
  Put({"context"})))

bus_connection_read_selinux_context == Silent({}, {"context"},
  Opt(StopQuiet(Nothing)) \o
  Quiet({}, Nothing) \o
  Quiet({"context"}, Nothing))

bus_selinux_init_connection_id == Routine({}, {"sid"},
  Do({"context"}, Nothing) \o
  Do({"sid"}, Frees({"context"})) \o
  Put({"context"}))

bus_selinux_id_table_insert == Silent({}, {},
  Opt(Return({})) \o
  Quiet({"key"}, Nothing) \o
  Quiet({"sid"}, Frees({"key"})) \o
  Quiet({}, Frees({"sid", "key"})) \o
  Put({"sid", "key"}))                           \* the table's now

bus_selinux_shutdown == Silent({"avc", "sid"}, {},
  Put({"sid"}) \o
  Put({"avc"}))
=============================================================================
