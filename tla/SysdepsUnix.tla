----------------------------- MODULE SysdepsUnix -----------------------------
(***************************************************************************)
(* Routines of dbus/dbus-sysdeps-unix.c: sockets, files, the user database *)
(* and dbus-launch.  System calls interrupted by a signal are repeated by  *)
(* the code and are one step here.                                         *)
(***************************************************************************)
EXTENDS Routine

dbus_open_socket == Routine({}, {"fd"}, Do({"fd"}, Nothing))

dbus_close == Routine({"fd"}, {}, Test(Frees({"fd"})) \o Put({"fd"}))

\* The buffer is lengthened first and cut to what was read.
dbus_read == Silent({}, {"bytes"},
  Quiet({"room"}, Nothing) \o
  Quiet({"bytes"}, Frees({"room"})) \o
  Put({"room"}))

dbus_connect_unix_socket == Routine({}, {"fd"},
  Do({"fd"}, Nothing) \o
  Test(Frees({"fd"})) \o        \* the name is too long
  Test(Frees({"fd"})) \o        \* connect
  Test(Frees({"fd"})))          \* nonblocking

\* Mutant: a failed bind returns with the socket open.
dbus_listen_unix_socket_mutant == Routine({}, {"listen_fd"},
  Do({"listen_fd"}, Nothing) \o
  Test(Frees({"listen_fd"})) \o
  Test(Nothing) \o
  Test(Frees({"listen_fd"})) \o
  Test(Frees({"listen_fd"})) \o
  Test(Frees({"listen_fd"})))
dbus_listen_unix_socket == Routine({}, {"listen_fd"},
  Do({"listen_fd"}, Nothing) \o
  Test(Frees({"listen_fd"})) \o      \* the name is too long
  Test(Frees({"listen_fd"})) \o      \* bind
  Test(Frees({"listen_fd"})) \o      \* listen
  Test(Frees({"listen_fd"})) \o      \* LOCAL_CREDS
  Test(Frees({"listen_fd"})))        \* nonblocking

\* The first socket is not used: it is not closed if the family is not
\* known, and the loop over the addresses puts another one in its place.
dbus_connect_tcp_socket == Leaking({"fd"}, Routine({}, {"fd"},
  Do({"fd"}, Nothing) \o
  Test(Nothing) \o                                          \* unknown family
  Do({"ai"}, Frees({"fd"})) \o
  Loop(Do({"fd"}, Frees({"ai"})) \o Put({"fd"})) \o         \* connect fails
  Do({"fd"}, Frees({"ai"})) \o
  Opt(Put({"fd"})) \o                                       \* the last one too
  Put({"ai"}) \o
  Require({"fd"}, Nothing) \o
  Test(Frees({"fd"}))))                                     \* nonblocking

\* If the kernel chose the port, the addresses are looked up again with it;
\* when this lookup fails, the socket opened so far is left open.
dbus_listen_tcp_socket ==
  LET failed == IfHeld({"ai", "listen_fds"})
      InUse == Do({"fd"}, failed) \o Put({"fd"})
      Listen == Do({"fd"}, failed) \o
                Test(FreesAnd({"fd"}, failed)) \o     \* bind
                Test(FreesAnd({"fd"}, failed)) \o     \* listen
                Test(FreesAnd({"fd"}, failed)) \o     \* realloc
                Move({"fd"}, {"listen_fds"})
      ChoosePort == Do({"ai"}, Nothing) \o
                    Loop(InUse) \o
                    Listen \o
                    Test(failed) \o                   \* getnameinfo
                    Test(failed) \o
                    Put({"ai"})
  IN Leaking({"listen_fds"}, Routine({}, {"listen_fds"},
       Test(Nothing) \o                               \* unknown family
       Opt(ChoosePort) \o
       Do({"ai"}, Nothing) \o
       Loop(Either(InUse, Listen \o Opt(Test(failed)))) \o
       Put({"ai"}) \o
       Require({"listen_fds"}, Nothing) \o
       Test(failed)))                                 \* nonblocking

write_credentials_byte == Routine({}, {}, Test(Nothing) \o Test(Nothing))

dbus_read_credentials_socket == Routine({}, {},
  Test(Nothing) \o               \* recvmsg
  Test(Nothing) \o               \* no byte, or not nul
  Opt(Test(Nothing)) \o          \* no memory for the pid
  Opt(Test(Nothing)))            \* no memory for the uid

dbus_check_dir_is_private_to_user == Routine({}, {}, Test(Nothing) \o Test(Nothing))

\* The names stay in the DBusUserInfo, which the caller frees.
fill_user_info_from_passwd == Routine({}, {}, Test(Nothing))

fill_user_info == Routine({}, {},
  Loop(Do({"buf"}, Nothing) \o Put({"buf"})) \o       \* too small
  Do({"buf"}, Nothing) \o
  Test(Frees({"buf"})) \o                             \* no such user, or no memory
  Put({"buf"}) \o
  Do({"groups"}, Nothing) \o
  Opt(Test(Frees({"groups"})) \o                      \* more groups than fit
      Test(Frees({"groups"}))) \o
  Test(Frees({"groups"})) \o
  Put({"groups"}))

dbus_credentials_add_from_current_process ==
  Silent({}, {}, Quiet({}, Nothing) \o Quiet({}, Nothing))

dbus_parse_uid ==
  Silent({}, {}, Quiet({}, Nothing) \o Quiet({}, Nothing) \o Quiet({}, Nothing))

dbus_file_get_contents == Routine({}, {},
  Do({"fd"}, Nothing) \o
  Test(Frees({"fd"})) \o                                     \* fstat
  Test(Frees({"fd"})) \o                                     \* too large
  Opt(Loop(Test(FreesAnd({"fd"}, IfHeld({"data"}))) \o       \* a regular file
           Move({}, {"data"})) \o
      Put({"fd"} ) \o
      IfElse({"data"}, Return({"data"}), Return({}))) \o
  Opt(Stop(Frees({"fd"}))) \o                                \* not empty either
  Put({"fd"}))

\* The file is written under another name and renamed.
dbus_string_save_to_file ==
  LET out == FreesAnd({"tmp_filename"}, IfHeld({"fd", "tmp file"})) IN
  Routine({}, {"file"},
    Do({"tmp_filename"}, Nothing) \o
    Test(Frees({"tmp_filename"})) \o
    Test(Frees({"tmp_filename"})) \o
    Test(Frees({"tmp_filename"})) \o
    Do({"fd", "tmp file"}, out) \o
    Loop(Test(out)) \o                   \* write
    Test(out) \o                         \* fsync
    Test(out) \o                         \* close
    Put({"fd"}) \o
    Test(out) \o                         \* rename
    Move({"tmp file"}, {"file"}) \o
    Put({"tmp_filename"}))

dbus_make_file_world_readable == Routine({}, {}, Test(Nothing))

dbus_create_file_exclusively == Routine({}, {},
  Do({"fd"}, Nothing) \o
  Test(Frees({"fd"})) \o                 \* close
  Put({"fd"}))

dbus_delete_file == Routine({}, {}, Test(Nothing))

\* A directory that exists is fine.
dbus_create_directory == Routine({}, {}, Test(Nothing))

dbus_concat_dir_and_file == Silent({}, {},
  Opt(Return({})) \o
  Opt(Quiet({}, Nothing)) \o
  Quiet({}, Nothing))

\* Random bytes are made up if the device cannot be read.
dbus_generate_random_bytes == Silent({}, {"bytes"},
  Opt(Get({"fd"}) \o
      Opt(Move({"fd"}, {"bytes"}) \o Return({"bytes"})) \o
      Put({"fd"})) \o
  Quiet({"bytes"}, Nothing))

dbus_set_fd_nonblocking == Routine({}, {}, Test(Nothing) \o Test(Nothing))

dbus_full_duplex_pipe == Routine({}, {"fd1", "fd2"},
  Do({"fd1", "fd2"}, Nothing) \o
  Test(Frees({"fd1", "fd2"})))

\* dbus-launch runs with its output and its errors in two pipes and is
\* waited for; the message built from its errors is not freed.
dbus_get_autolaunch_address ==
  LET out == FreesAnd({"uuid"}, IfHeld({"address read", "address write",
                                        "errors read", "errors write"}))
  IN Leaking({"error_message"}, Routine({}, {"address"},
    Do({"uuid"}, Nothing) \o
    Test(out) \o
    Do({"address read", "address write"}, out) \o
    Do({"errors read", "errors write"}, out) \o
    Do({"child"}, out) \o                          \* fork
    Put({"address write", "errors write"}) \o
    Put({"child"}) \o                              \* waitpid
    Opt(Get({"error_message"}) \o Stop(out)) \o
    Get({"address"}) \o
    Put({"address read", "errors read", "uuid"})))

dbus_get_standard_session_servicedirs ==
  LET oom == Frees({"servicedir_path"}) IN
  Silent({}, {"dirs"},
    Quiet({"servicedir_path"}, Nothing) \o
    Quiet({}, oom) \o                              \* XDG_DATA_DIRS or the default
    Quiet({}, oom) \o                              \* the configured directory
    Quiet({}, oom) \o                              \* the user's
    Quiet({"dirs"}, oom) \o
    Put({"servicedir_path"}))

dbus_get_standard_system_servicedirs ==
  LET oom == Frees({"servicedir_path"}) IN
  Silent({}, {"dirs"},
    Quiet({"servicedir_path"}, Nothing) \o
    Quiet({}, oom) \o
    Quiet({}, oom) \o
    Quiet({"dirs"}, oom) \o
    Put({"servicedir_path"}))

dbus_append_keyring_directory_for_credentials ==
  LET failed == Frees({"homedir"}) IN
  Silent({}, {"directory"},
    Quiet({"homedir"}, Nothing) \o
    Quiet({}, failed) \o
    Quiet({}, failed) \o
    Quiet({"directory"}, failed) \o
    Put({"homedir"}))
=============================================================================
