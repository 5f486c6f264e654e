------------------------------ MODULE SysdepsWin ------------------------------
(***************************************************************************)
(* Routines of dbus/dbus-sysdeps-win.c and dbus/dbus-sysdeps-util-win.c.   *)
(* win_f is the Windows version of _dbus_f.                                *)
(***************************************************************************)
EXTENDS Routine

-----------------------------------------------------------------------------
(* Files and sockets *)

win_file_open == Silent({}, {"file"}, Quiet({"file"}, Nothing))

win_file_close == Routine({"file"}, {}, Test(Frees({"file"})) \o Put({"file"}))

\* The buffer is lengthened first and cut to what was read.
ReadBytes == Silent({}, {"bytes"},
  Quiet({"room"}, Nothing) \o
  Quiet({"bytes"}, Frees({"room"})) \o
  Put({"room"}))
win_file_read == ReadBytes
win_read_socket == ReadBytes

win_pipe_write == Routine({}, {}, Test(Nothing))

\* The result of closing the file, a Boolean, is never negative: a failure
\* sets the error and is not seen.
win_pipe_close == Careless(Routine({"pipe"}, {},
  Try({}, << >>, << >>) \o
  Put({"pipe"})))

win_close_socket == Routine({"fd"}, {}, Test(Frees({"fd"})) \o Put({"fd"}))

win_set_fd_nonblocking == Routine({}, {}, Test(Nothing))

\* A listening socket is made, a second socket connects to it.
win_full_duplex_pipe ==
  LET out0 == Frees({"temp"})
      out1 == FreesAnd({"socket1"}, out0)
      out2 == FreesAnd({"socket2"}, out1)
  IN Routine({}, {"socket1", "socket2"},
       Do({"temp"}, Nothing) \o
       Test(out0) \o                      \* nonblocking
       Test(out0) \o                      \* bind
       Test(out0) \o                      \* listen
       Test(out0) \o                      \* getsockname
       Do({"socket1"}, out0) \o
       Test(out1) \o                      \* nonblocking
       Test(out1) \o                      \* connect
       Test(out1) \o                      \* select
       Do({"socket2"}, out1) \o           \* accept
       Test(out2) \o                      \* select
       Either(Test(out2) \o Test(out2), Test(out2)) \o
       Put({"temp"}))

\* As on Unix, the first socket is not used and not closed.
win_connect_tcp_socket == Leaking({"fd"}, Routine({}, {"fd"},
  Do({"fd"}, Nothing) \o
  Test(Nothing) \o                                          \* unknown family
  Do({"ai"}, Frees({"fd"})) \o
  Loop(Do({"fd"}, Frees({"ai"})) \o Put({"fd"})) \o         \* connect fails
  Do({"fd"}, Frees({"ai"})) \o
  Opt(Put({"fd"})) \o                                       \* the last one too
  Put({"ai"}) \o
  Require({"fd"}, Nothing) \o
  Test(Frees({"fd"}))))                                     \* nonblocking

\* An address in use is an error here.
win_listen_tcp_socket ==
  LET failed == IfHeld({"ai", "listen_fds"})
      Listen == Do({"fd"}, failed) \o
                Test(FreesAnd({"fd"}, failed)) \o     \* bind
                Test(FreesAnd({"fd"}, failed)) \o     \* listen
                Test(FreesAnd({"fd"}, failed)) \o     \* realloc
                Move({"fd"}, {"listen_fds"})
      ChoosePort == Do({"ai"}, Nothing) \o
                    Listen \o
                    Test(failed) \o                   \* getsockname
                    Test(failed) \o
                    Put({"ai"})
  IN Leaking({"listen_fds"}, Routine({}, {"listen_fds"},
       Test(Nothing) \o                               \* unknown family
       Opt(ChoosePort) \o
       Do({"ai"}, Nothing) \o
       Loop(Listen \o Opt(Test(failed))) \o
       Put({"ai"}) \o
       Require({"listen_fds"}, Nothing) \o
       Test(failed)))                                 \* nonblocking

win_send_credentials_socket == Routine({}, {}, Test(Nothing) \o Test(Nothing))

\* What is read, and whether it is read, does not matter.
win_read_credentials_socket == Routine({}, {}, Opt(Get({"buf"}) \o Put({"buf"})))

win_concat_dir_and_file == Silent({}, {},
  Opt(Return({})) \o
  Opt(Quiet({}, Nothing)) \o
  Quiet({}, Nothing))

win_file_get_contents == Routine({}, {},
  Do({"file"}, Nothing) \o
  Test(Frees({"file"})) \o                                   \* fstat
  Test(Frees({"file"})) \o                                   \* too large
  Opt(Test(Frees({"file"})) \o                               \* a regular file
      Get({"data"}) \o
      Loop(Test(Frees({"file", "data"}))) \o
      Put({"file"}) \o
      Return({"data"})) \o
  Opt(Stop(Frees({"file"}))) \o                              \* not empty either
  Put({"file"}))

\* The old file is unlinked before the new one is renamed: a failure between
\* the two leaves none.
win_string_save_to_file ==
  LET out == FreesAnd({"tmp_filename"}, IfHeld({"file", "tmp file"})) IN
  Routine({}, {"new file"},
    Do({"tmp_filename"}, Nothing) \o
    Test(Frees({"tmp_filename"})) \o
    Test(Frees({"tmp_filename"})) \o
    Test(Frees({"tmp_filename"})) \o
    Do({"file", "tmp file"}, out) \o
    Loop(Test(out)) \o                   \* write
    Test(out) \o                         \* close
    Put({"file"}) \o
    Test(out) \o                         \* unlink
    Test(out) \o                         \* rename
    Move({"tmp file"}, {"new file"}) \o
    Put({"tmp_filename"}))

win_create_file_exclusively == Routine({}, {},
  Do({"file"}, Nothing) \o
  Test(Frees({"file"})) \o               \* close
  Put({"file"}))

\* A directory that exists is fine.
win_create_directory == Routine({}, {}, Test(Nothing))

win_delete_file == Routine({}, {}, Test(Nothing))

pseudorandom_generate_random_bytes == Silent({}, {"bytes"}, Quiet({"bytes"}, Nothing))

-----------------------------------------------------------------------------
(* Strings, accounts and processes *)

win_win_utf8_to_utf16 == Routine({}, {"retval"},
  Test(Nothing) \o                       \* not UTF-8
  Test(Nothing) \o                       \* its length
  Do({"retval"}, Nothing) \o
  Test(Frees({"retval"})))

win_win_utf16_to_utf8 == Routine({}, {"retval"},
  Test(Nothing) \o
  Do({"retval"}, Nothing) \o
  Test(Frees({"retval"})))

win_win_account_to_sid ==
  LET out2 == Frees({"wdomain", "ppsid"}) IN
  Routine({}, {"ppsid"},
    Test(Nothing) \o
    Do({"ppsid"}, Nothing) \o
    Do({"wdomain"}, Frees({"ppsid"})) \o
    Test(out2) \o
    Test(out2) \o                        \* the sid is not valid
    Put({"wdomain"}))

win_getsid ==
  LET failed == Frees({"process_token"}) IN
  Silent({}, {"sid"},
    Quiet({"process_token"}, Nothing) \o
    Quiet({}, failed) \o
    Quiet({}, failed) \o
    Quiet({"sid"}, failed) \o
    Put({"process_token"}))

win_credentials_add_from_current_process == Silent({}, {},
  Quiet({"sid"}, Nothing) \o
  Quiet({}, Frees({"sid"})) \o
  Quiet({}, Frees({"sid"})) \o
  Put({"sid"}))

win_append_user_from_current_process == Silent({}, {},
  Quiet({"sid"}, Nothing) \o
  Quiet({}, Frees({"sid"})) \o
  Put({"sid"}))

win_write_pid_file == Routine({}, {},
  Do({"file"}, Nothing) \o
  Do({"f"}, Frees({"file"})) \o          \* fdopen
  Put({"file"}) \o
  Test(Frees({"f"})) \o                  \* fprintf
  Test(Frees({"f"})) \o                  \* fclose
  Put({"f"}))

\* A short write to the pipe is an error of its own.
win_write_pid_to_file_and_pipe == Routine({}, {},
  Opt(Test(Nothing)) \o
  Opt(Do({"pid"}, Nothing) \o
      Test(Frees({"pid"})) \o
      Test(Frees({"pid"})) \o
      Put({"pid"})))

\* When nobody is logged on, the answer is FALSE, no error is set and the
\* window station stays open.
win_user_at_console ==
  LET out2 == Frees({"wusername", "user_sid"})
      out3 == FreesAnd({"winsta"}, out2)
      out4 == FreesAnd({"console_user_sid"}, out3)
  IN Leaking({"winsta"}, Routine({}, {},
       Do({"wusername"}, Nothing) \o
       Do({"user_sid"}, Frees({"wusername"})) \o
       Do({"winsta"}, out2) \o
       Opt(Put({"wusername", "user_sid"}) \o Return({})) \o     \* nobody
       Test(out3) \o                                            \* its length
       Do({"console_user_sid"}, out3) \o
       Test(out4) \o
       Test(out4) \o                                            \* not valid
       Put({"console_user_sid", "winsta", "user_sid", "wusername"})))

win_delete_directory == Routine({}, {}, Test(Nothing))

win_file_exists == Silent({}, {}, Quiet({"h"}, Nothing) \o Put({"h"}))

win_stat == Routine({}, {},
  Test(Nothing) \o
  Do({"sd"}, Nothing) \o
  Put({"sd"}))

win_directory_open == Routine({}, {"iter"},
  Do({"d"}, Nothing) \o
  Do({"iter"}, Frees({"d"})) \o
  Put({"d"}))

\* The end of the directory is no error; "." and ".." are passed over.
win_directory_get_next_file == Routine({}, {},
  Loop(Test(Nothing)) \o
  Test(Nothing) \o
  Opt(Return({})) \o
  Test(Nothing))

win_get_standard_session_servicedirs ==
  LET oom == Frees({"servicedir_path"}) IN
  Silent({}, {"dirs"},
    Quiet({"servicedir_path"}, Nothing) \o
    Quiet({}, oom) \o
    Opt(Quiet({}, oom) \o Quiet({}, oom)) \o     \* CommonProgramFiles
    Quiet({"dirs"}, oom) \o
    Put({"servicedir_path"}))

\* The file is looked for below etc, then below bus.
win_get_config_file_name == Silent({}, {},
  Quiet({}, Nothing) \o                          \* the root
  Quiet({}, Nothing) \o                          \* too long
  Either(Quiet({}, Nothing),
         Quiet({}, Nothing) \o
         Quiet({}, Nothing) \o
         Opt(Quiet({}, Nothing))))

\* Not finding room for HOMEDRIVE and HOMEPATH is not noticed.
win_append_keyring_directory_for_credentials ==
  LET failed == Frees({"homedir"}) IN
  Silent({}, {"directory"},
    Quiet({"homedir"}, Nothing) \o
    Quiet({}, failed) \o
    Quiet({"directory"}, failed) \o
    Put({"homedir"}))
=============================================================================
