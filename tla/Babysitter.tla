----------------------------- MODULE Babysitter -----------------------------
(***************************************************************************)
(* Spawning a service and learning how it ends (dbus/dbus-spawn.c): the    *)
(* bus daemon, the babysitter process it forks and the grandchild that the *)
(* babysitter forks and that executes the service.                         *)
(*                                                                         *)
(* The babysitter writes to a socket whose other end is the daemon's, the  *)
(* grandchild to the error pipe.  Both write ends are open in the          *)
(* babysitter until it ends and in the grandchild until it executes the    *)
(* program, so the daemon reads end-of-file when both are through.  A note *)
(* is two writes, what it says and its argument.  Reads are taken to be    *)
(* uninterrupted.                                                          *)
(***************************************************************************)
EXTENDS Naturals, Sequences

VARIABLES
  sitter,   \* the DBusBabysitter of the daemon
  doing,    \* what the daemon does with it
  process,  \* where the babysitter process is
  child,    \* what the grandchild does
  socket,   \* what is to be read from the babysitter's socket
  errpipe,  \* what is to be read from the error pipe
  sigchld   \* is the handler installed, is a byte in the babysitter's pipe

vars == <<sitter, doing, process, child, socket, errpipe, sigchld>>

\* socket_to_babysitter and error_pipe_from_child, the pid, the flags and the
\* status; told is what the daemon was told about the end of the child.
NewSitter == [socket |-> TRUE, errpipe |-> TRUE, pid |-> FALSE,
              have_child_status |-> FALSE, have_exec_errnum |-> FALSE,
              have_fork_errnum |-> FALSE, status |-> "none", told |-> "nothing"]

\* How a grandchild ends: with an exit status, by a signal, or with the exit
\* status of a failed exec.
Ends == {"exited", "signaled"}
Dead == Ends \cup {"exec failed"}

Init ==
  /\ sitter = NewSitter
  /\ doing = "idle"
  /\ process = "fork"
  /\ child = "none"
  /\ socket = <<>> /\ errpipe = <<>>
  /\ sigchld = [handler |-> FALSE, byte |-> FALSE]

-----------------------------------------------------------------------------
(* The grandchild *)

\* SIGCHLD runs the handler, which writes a byte, if it is installed.
Ended(how) ==
  /\ child' = how
  /\ sigchld' = [sigchld EXCEPT !.byte = @ \/ sigchld.handler]

\* do_exec
Exec ==
  /\ child = "started"
  /\ child' \in {"running", "cannot exec"}
  /\ UNCHANGED <<sitter, doing, process, socket, errpipe, sigchld>>

\* write_err_and_exit; writing to a pipe that nobody reads kills the process.
ExecFailed ==
  /\ \/ /\ child = "cannot exec" /\ sitter.errpipe
        /\ errpipe' = Append(errpipe, "exec failed")
        /\ child' = "writes errno"
        /\ UNCHANGED sigchld
     \/ /\ child = "writes errno" /\ sitter.errpipe
        /\ errpipe' = Append(errpipe, "errno")
        /\ Ended("exec failed")
     \/ /\ child \in {"cannot exec", "writes errno"} /\ ~sitter.errpipe
        /\ Ended("signaled")
        /\ UNCHANGED errpipe
  /\ UNCHANGED <<sitter, doing, process, socket>>

ChildEnds ==
  /\ child = "running"
  /\ \E how \in Ends : Ended(how)
  /\ UNCHANGED <<sitter, doing, process, socket, errpipe>>

-----------------------------------------------------------------------------
(* The babysitter process *)

\* The second half of _dbus_spawn_async_with_babysitter.
Fork ==
  /\ process = "fork"
  /\ \/ process' = "babysit" /\ child' = "started"
     \/ process' = "fork failed" /\ UNCHANGED child
  /\ UNCHANGED <<sitter, doing, socket, errpipe, sigchld>>

\* babysit: a process that cannot have a pipe ends, whatever its child does.
Babysit ==
  /\ process = "babysit"
  /\ \/ process' = "pid" /\ sigchld' = [sigchld EXCEPT !.handler = TRUE]
     \/ process' = "gone" /\ UNCHANGED sigchld
  /\ UNCHANGED <<sitter, doing, child, socket, errpipe>>

\* do_write of half a note; SIGPIPE is fatal here.
WriteHalf(from, note, to) ==
  /\ process = from
  /\ IF sitter.socket
     THEN process' = to /\ socket' = Append(socket, note)
     ELSE process' = "gone" /\ UNCHANGED socket
  /\ UNCHANGED <<sitter, doing, child, errpipe, sigchld>>

WriteForkFailed ==
  \/ WriteHalf("fork failed", "fork failed", "fork errno")
  \/ WriteHalf("fork errno", "errno", "gone")

\* Mutant: the child may end before the handler is there, unnoticed.
AfterPidPoll == "poll"
AfterPid == "check"

WritePid ==
  \/ WriteHalf("pid", "pid", "pid value")
  \/ WriteHalf("pid value", "value", AfterPid)

WriteStatus ==
  \/ WriteHalf("exited", "exited", "status")
  \/ WriteHalf("status", child, "gone")

\* check_babysit_events, revents 0.
CheckBabysitEvents ==
  /\ process = "check"
  /\ process' = IF child \in Dead THEN "exited" ELSE "poll"
  /\ UNCHANGED <<sitter, doing, child, socket, errpipe, sigchld>>

\* The loop of babysit: a hangup of the daemon ends the process, unless the
\* child is gone too; the handler's byte makes it look.
BabysitPoll ==
  /\ process = "poll"
  /\ \/ /\ ~sitter.socket
        /\ process' = IF child \in Dead THEN "exited" ELSE "gone"
        /\ UNCHANGED sigchld
     \/ /\ sitter.socket /\ sigchld.byte
        /\ process' = "check"
        /\ sigchld' = [sigchld EXCEPT !.byte = FALSE]
  /\ UNCHANGED <<sitter, doing, child, socket, errpipe>>

\* Some other process kills the babysitter.
Killed ==
  /\ process # "gone"
  /\ process' = "gone"
  /\ UNCHANGED <<sitter, doing, child, socket, errpipe, sigchld>>

-----------------------------------------------------------------------------
(* The daemon *)

NoWriter == process = "gone" /\ child \in Dead \cup {"none", "running"}

\* Poll reports data or a hangup.
Ready(open, pipe) == open /\ (pipe # <<>> \/ NoWriter)

\* read_data blocks for the second half of a note.
Blocks(open, pipe) == Ready(open, pipe) /\ Len(pipe) = 1 /\ ~NoWriter

Noted(s, note, arg) ==
  CASE note = "exited" -> [s EXCEPT !.have_child_status = TRUE, !.status = arg]
    [] note = "fork failed" -> [s EXCEPT !.have_fork_errnum = TRUE]
    [] note = "exec failed" -> [s EXCEPT !.have_exec_errnum = TRUE]
    [] note = "pid" -> [s EXCEPT !.pid = TRUE]

\* handle_babysitter_socket, when the socket is ready.
HandleSocket(s) ==
  IF Len(socket) > 1 THEN Noted(s, socket[1], socket[2]) ELSE [s EXCEPT !.socket = FALSE]

\* handle_error_pipe
HandleErrorPipe(s) ==
  IF Len(errpipe) > 1 THEN Noted(s, errpipe[1], errpipe[2]) ELSE [s EXCEPT !.errpipe = FALSE]

Rest(pipe, read) == IF read /\ Len(pipe) > 1 THEN Tail(Tail(pipe)) ELSE pipe

SocketReady == Ready(sitter.socket, socket)
ErrorReady == Ready(sitter.errpipe, errpipe)
LiveChildren(s) == s.socket \/ s.errpipe

\* babysitter_iteration, when there is something to read: the socket first.
Iteration ==
  /\ ~Blocks(sitter.socket, socket) /\ ~Blocks(sitter.errpipe, errpipe)
  /\ LET s == IF SocketReady THEN HandleSocket(sitter) ELSE sitter
     IN sitter' = IF ErrorReady THEN HandleErrorPipe(s) ELSE s
  /\ socket' = Rest(socket, SocketReady)
  /\ errpipe' = Rest(errpipe, ErrorReady)

\* handle_watch: one of the two descriptors, then all there is.
HandleWatch ==
  /\ doing = "idle"
  /\ SocketReady \/ ErrorReady
  /\ doing' = "watch"
  /\ UNCHANGED <<sitter, process, child, socket, errpipe, sigchld>>

\* _dbus_babysitter_get_child_exited
GetChildExited ==
  /\ doing = "idle"
  /\ sitter.told = "nothing"
  /\ doing' = "ask"
  /\ UNCHANGED <<sitter, process, child, socket, errpipe, sigchld>>

\* _dbus_babysitter_set_child_exit_error
ExitError(s) ==
  CASE s.have_exec_errnum -> "exec failed"
    [] s.have_fork_errnum -> "fork failed"
    [] s.have_child_status -> s.status
    [] OTHER -> "reason unknown"

\* The loop of both goes on while an iteration finds something.
Drain ==
  /\ doing \in {"watch", "ask"}
  /\ IF SocketReady \/ ErrorReady
     THEN Iteration /\ UNCHANGED <<doing, process, child, sigchld>>
     ELSE /\ doing' = "idle"
          /\ sitter' = [sitter EXCEPT !.told =
               IF doing = "ask" /\ ~sitter.socket THEN ExitError(sitter) ELSE @]
          /\ UNCHANGED <<process, child, socket, errpipe, sigchld>>

\* _dbus_babysitter_kill_child waits for the pid, or for all to be over.
KillChild ==
  \/ /\ doing = "idle" /\ child \notin Dead
     /\ doing' = "kill"
     /\ UNCHANGED <<sitter, process, child, socket, errpipe, sigchld>>
  \/ /\ doing = "kill" /\ LiveChildren(sitter) /\ ~sitter.pid
     /\ SocketReady \/ ErrorReady
     /\ Iteration
     /\ UNCHANGED <<doing, process, child, sigchld>>
  \/ /\ doing = "kill" /\ (sitter.pid \/ ~LiveChildren(sitter))
     /\ doing' = "idle"
     /\ IF sitter.pid /\ child \in {"started", "cannot exec", "writes errno", "running"}
        THEN Ended("signaled")
        ELSE UNCHANGED <<child, sigchld>>
     /\ UNCHANGED <<sitter, process, socket, errpipe>>

\* The last _dbus_babysitter_unref: close both, reap the babysitter, killed if
\* it still runs.
UnrefSitter ==
  /\ doing = "idle"
  /\ doing' = "done"
  /\ sitter' = [sitter EXCEPT !.socket = FALSE, !.errpipe = FALSE]
  /\ process' = "gone"
  /\ UNCHANGED <<child, socket, errpipe, sigchld>>

Sitting == Fork \/ Babysit \/ WriteForkFailed \/ WritePid \/ WriteStatus
           \/ CheckBabysitEvents \/ BabysitPoll
Daemon == HandleWatch \/ GetChildExited \/ Drain \/ KillChild
Next == Exec \/ ExecFailed \/ ChildEnds \/ Sitting \/ Killed \/ Daemon \/ UnrefSitter

\* The processes run; the daemon's main loop handles its watches.
Fairness ==
  /\ WF_vars(Exec \/ ExecFailed)
  /\ WF_vars(Sitting)
  /\ WF_vars(HandleWatch \/ Drain \/ (doing = "kill" /\ KillChild))

Spec == Init /\ [][Next]_vars /\ Fairness

-----------------------------------------------------------------------------
(* Properties *)

\* _dbus_babysitter_set_child_exit_error names the reason: a program that could
\* not be executed is not reported as one that exited, although its exit status
\* is known as well.  The reason is unknown only when the babysitter ended
\* before it could tell: nothing that was written is left unread.
ReasonTrue ==
  CASE sitter.told = "exec failed" -> child = "exec failed"
    [] sitter.told \in Ends -> child = sitter.told
    [] sitter.told = "fork failed" -> child = "none"
    [] sitter.told = "reason unknown" -> Len(socket) < 2 /\ child # "exec failed"
    [] sitter.told = "nothing" -> TRUE

\* The end of the child, at whatever moment of the babysitter's start it comes,
\* closes the daemon's socket in the end: no SIGCHLD is lost.
EndNoticed == (child \in Dead) ~> ~sitter.socket
=============================================================================
