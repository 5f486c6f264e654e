----------------------------- MODULE SysdepsUtil -----------------------------
(***************************************************************************)
(* Routines of dbus/dbus-sysdeps-util-unix.c, dbus/dbus-sysdeps.c,         *)
(* dbus/dbus-userdb.c, dbus/dbus-userdb-util.c and dbus/dbus-internals.c:  *)
(* becoming a daemon, directories, the environment, the cached user        *)
(* database and the machine's UUID.                                        *)
(***************************************************************************)
EXTENDS Routine

-----------------------------------------------------------------------------
(* Daemon *)

\* The parent writes the pid of the child, and ends the child if it cannot.
dbus_become_daemon == Routine({}, {},
  Test(Nothing) \o                               \* chdir
  Do({"child"}, Nothing) \o                      \* fork
  Opt(Test(Frees({"child"}))) \o                 \* the parent's pid file
  Put({"child"}))

dbus_write_pid_file == Routine({}, {},
  Do({"fd"}, Nothing) \o
  Do({"f"}, Frees({"fd"})) \o                    \* fdopen
  Put({"fd"}) \o
  Test(Frees({"f"})) \o                          \* fprintf
  Test(Frees({"f"})) \o                          \* fclose
  Put({"f"}))

\* A short write to the pipe is an error of its own.
dbus_write_pid_to_file_and_pipe == Routine({}, {},
  Opt(Test(Nothing)) \o
  Opt(Do({"pid"}, Nothing) \o
      Test(Frees({"pid"})) \o
      Test(Frees({"pid"})) \o
      Put({"pid"})))

\* The capabilities to keep are released on the failure path only if the
\* process was not root, when there are none.
dbus_change_to_daemon_user == Leaking({"new_caps"}, Routine({}, {},
  Test(Nothing) \o                               \* no such user
  Opt(Do({"tmp_caps"}, Nothing) \o               \* root
      Do({"new_caps"}, Frees({"tmp_caps"})) \o
      Test(Frees({"tmp_caps"})) \o               \* keep capabilities
      Test(Frees({"tmp_caps"})) \o               \* set them
      Put({"tmp_caps"})) \o
  Test(Nothing) \o                               \* setgid
  Test(Nothing) \o                               \* setuid
  If({"new_caps"},
      Test(Nothing) \o
      Put({"new_caps"}) \o
      Test(Nothing))))

-----------------------------------------------------------------------------
(* Files and processes *)

dbus_delete_directory == Routine({}, {}, Test(Nothing))

dbus_user_at_console == Routine({}, {},
  Do({"f"}, Nothing) \o
  Test(Frees({"f"})) \o
  Test(Frees({"f"})) \o
  Put({"f"}))

dbus_stat == Routine({}, {}, Test(Nothing))

dbus_directory_open == Routine({}, {"iter"},
  Do({"d"}, Nothing) \o
  Do({"iter"}, Frees({"d"})) \o
  Put({"d"}))

\* The end of the directory is no error; "." and ".." are passed over.
dbus_directory_get_next_file == Routine({}, {},
  Test(Nothing) \o
  Do({"d"}, Nothing) \o
  Loop(Test(Frees({"d"}))) \o                    \* readdir_r
  Test(Frees({"d"})) \o
  Opt(Put({"d"}) \o Return({})) \o               \* no more entries
  Test(Frees({"d"})) \o
  Put({"d"}))

fill_user_info_from_group == Routine({}, {}, Test(Nothing))

fill_group_info == Routine({}, {},
  Do({"buf"}, Nothing) \o
  Loop(Put({"buf"}) \o Do({"buf"}, Nothing)) \o  \* too small: a larger one
  Test(Frees({"buf"})) \o                        \* no such group, or no memory
  Put({"buf"}))

\* A read of nothing leaves the file open.
dbus_command_for_pid ==
  LET fail == Frees({"cmdline", "path"}) IN
  Leaking({"fd"}, Routine({}, {},
    Do({"path"}, Nothing) \o
    Do({"cmdline"}, Frees({"path"})) \o
    Test(fail) \o
    Do({"fd"}, fail) \o
    Test(fail) \o                                \* read
    Test(FreesAnd({"fd"}, fail)) \o              \* close
    Put({"fd"}) \o
    Test(fail) \o
    Put({"cmdline", "path"})))

dbus_get_environment == Silent({}, {"environment"},
  Quiet({"environment"}, Nothing) \o
  Loop(Quiet({}, Frees({"environment"}))))

dbus_setenv == Silent({}, {},
  Quiet({"putenv_value"}, Nothing) \o
  Quiet({}, Frees({"putenv_value"})) \o
  Put({"putenv_value"}))

\* The directories appended so far go with the failure.
dbus_split_paths_and_append ==
  LET oom == IfHeld({"dir_list"})
      AddDirectory ==
        Quiet({}, FreesAnd({"path"}, oom)) \o            \* suffix
        Quiet({"cpath"}, FreesAnd({"path"}, oom)) \o
        Quiet({}, FreesAnd({"path", "cpath"}, oom)) \o
        Move({"cpath"}, {"dir_list"})
      Part == Quiet({"path"}, oom) \o Quiet({}, FreesAnd({"path"}, oom))
  IN Silent({"dir_list"}, {"dir_list"},
       Loop(Part \o Opt(AddDirectory) \o Put({"path"})) \o     \* empty parts are skipped
       Opt(Part \o AddDirectory \o Put({"path"})))

-----------------------------------------------------------------------------
(* The user database *)

\* The entry is in two tables; the table by number owns it.
Lookup(table) == Routine({}, {},
  Opt(Return({})) \o                             \* cached
  Do({"info"}, Nothing) \o
  Test(Frees({"info"})) \o                       \* fill it
  Test(Frees({"info"})) \o                       \* by number
  Move({"info"}, {table}) \o
  Test(Frees({table})) \o                        \* by name
  Put({table}))

dbus_user_database_lookup == Lookup("users")
dbus_user_database_lookup_group == Lookup("groups")

\* The error of the lookup is the routine's own and is freed.
init_system_db ==
  LET all == {"system_db", "process_username", "process_homedir"} IN
  Silent({}, all,
    Quiet({"system_db"}, Nothing) \o
    Try({}, << >>, Put({"system_db"}) \o ClearError \o StopQuiet(Nothing)) \o
    Quiet({"process_username"}, Frees({"system_db"})) \o
    Quiet({"process_homedir"}, Frees({"system_db", "process_username"})) \o
    Quiet({}, Frees(all)))

\* A look into the database; every exit unlocks it.
LookUp == Quiet({}, Frees({"lock"}))
UnderDatabaseLock(steps) ==
  Silent({}, {}, Get({"lock"}) \o steps \o Put({"lock"}))

dbus_username_from_current_process == UnderDatabaseLock(LookUp)
dbus_homedir_from_current_process == UnderDatabaseLock(LookUp)
dbus_homedir_from_username == UnderDatabaseLock(LookUp \o LookUp \o LookUp)
dbus_homedir_from_uid == UnderDatabaseLock(LookUp \o LookUp \o LookUp)
dbus_credentials_add_from_user == UnderDatabaseLock(LookUp \o LookUp \o LookUp)
dbus_get_group_id == UnderDatabaseLock(LookUp \o LookUp)
dbus_get_user_id_and_primary_group == UnderDatabaseLock(LookUp \o LookUp)

\* A user without groups gets no array.
dbus_groups_from_uid == Silent({}, {},
  Get({"lock"}) \o LookUp \o LookUp \o
  Opt(Quiet({"group_ids"}, Frees({"lock"})) \o
      Put({"lock"}) \o
      Return({"group_ids"})) \o
  Put({"lock"}))

dbus_is_console_user ==
  LET failed == Frees({"lock"}) IN
  Routine({}, {},
    Do({"f"}, Nothing) \o
    Test(Frees({"f"})) \o
    Put({"f"}) \o
    Opt(Return({})) \o                           \* owner of the console file
    Get({"lock"}) \o
    Test(failed) \o Test(failed) \o Test(failed) \o
    Put({"lock"}))

dbus_user_database_new ==
  LET failed == FreesAnd({"db"}, IfHeld({"users", "groups", "users_by_name"})) IN
  Silent({}, {"db", "users", "groups", "users_by_name", "groups_by_name"},
    Quiet({"db"}, Nothing) \o
    Quiet({"users"}, failed) \o
    Quiet({"groups"}, failed) \o
    Quiet({"users_by_name"}, failed) \o
    Quiet({"groups_by_name"}, failed))

-----------------------------------------------------------------------------
(* UUIDs and arrays of strings *)

dbus_dup_string_array == Silent({}, {"copy"},
  Quiet({"copy"}, Nothing) \o
  Loop(Quiet({}, Frees({"copy"}))))

dbus_read_uuid_file_without_creating ==
  LET fail == Frees({"contents", "decoded"}) IN
  Routine({}, {},
    Do({"contents"}, Nothing) \o
    Do({"decoded"}, Frees({"contents"})) \o
    Test(fail) \o                                \* read the file
    Test(fail) \o                                \* its length
    Test(fail) \o                                \* no memory
    Test(fail) \o                                \* not hex
    Test(fail) \o                                \* too short
    Put({"decoded", "contents"}))

dbus_create_uuid_file_exclusively ==
  LET fail == Frees({"encoded"}) IN
  Routine({}, {},
    Do({"encoded"}, Nothing) \o
    Test(fail) \o                                \* encode
    Test(fail) \o                                \* create it empty
    Test(fail) \o
    Test(fail) \o                                \* write it
    Test(fail) \o                                \* world readable
    Put({"encoded"}))

\* The error of reading is moved to the caller, unless the file is to be
\* created and was not there.
dbus_read_uuid_file == Routine({}, {},
  Try({}, Return({}),
      Opt(StopQuiet(Nothing)) \o
      ClearError \o
      Test(Nothing)))

dbus_get_local_machine_uuid_encoded == Silent({}, {},
  Get({"lock"}) \o
  Opt(Try({}, << >>, ClearError)) \o
  LookUp \o
  Put({"lock"}))
=============================================================================
