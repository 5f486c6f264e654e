-------------------------- MODULE ClientConnection --------------------------
(***************************************************************************)
(* One DBusConnection of libdbus shared by several threads                 *)
(* (dbus/dbus-connection.c, dbus/dbus-pending-call.c): threads that make a *)
(* blocking method call each, and threads that run a main loop, which      *)
(* handles the socket's watch, fires the timeouts of the pending calls and *)
(* dispatches.                                                             *)
(*                                                                         *)
(* The connection lock is a variable, so a step is what a thread does      *)
(* between two points where it takes or drops that lock.  The code drops   *)
(* it while it waits for the I/O path or the dispatcher, while it polls,   *)
(* while it runs application callbacks, and while it adds a timeout to the *)
(* timeout list or removes one.  The identity of a call is the thread that *)
(* makes it; it stands for the call's serial number.                       *)
(*                                                                         *)
(* A failed assertion, a NULL or stale pointer followed, ends the program: *)
(* crash says which it was and nothing happens after it.                   *)
(***************************************************************************)
EXTENDS Integers, Sequences, FiniteSets

CONSTANTS
  Callers,   \* threads that make one blocking call each
  Loops,     \* threads that run the main loop
  Nobody,    \* no thread, no call
  Casts      \* the sets of threads that take part in a behaviour

Threads == Callers \cup Loops

ASSUME ClientAssumption ==
  /\ Callers \cap Loops = {} /\ Nobody \notin Threads
  /\ IsFiniteSet(Threads)

VARIABLES
  lock,            \* who holds the connection's mutex
  thread,          \* where each thread is
  io,              \* who has the I/O path, io_path_acquired
  dispatcher,      \* who may dispatch, dispatch_acquired
  connected,       \* is the transport connected
  hungUp,          \* has the peer closed its end
  outgoing,        \* outgoing_messages, the next one to write first
  sent,            \* calls the peer received and did not answer
  arrived,         \* answers in the socket
  incoming,        \* incoming_messages
  n_incoming,      \* its length as the connection counts it
  disconnectLink,  \* disconnect_message_link is not NULL
  timeouts,        \* calls whose timeout is in the timeout list
  listTaken,       \* who took the timeout list out of the connection
  call,            \* the pending calls
  expired,         \* calls whose time is up
  crash            \* "none", or what ended the program

paths  == <<io, dispatcher>>
wire   == <<connected, hungUp, sent, arrived>>
queues == <<outgoing, incoming, n_incoming, disconnectLink>>
timers == <<timeouts, listTaken, call, expired>>
shared == <<paths, wire, queues, timers, crash>>
vars   == <<lock, thread, shared>>

(***************************************************************************)
(* A DBusPendingCall is attached while pending_replies holds it;           *)
(* timeout_link is the error prepared for the time it times out.  A        *)
(* message of the incoming queue has a kind and the call it answers.       *)
(***************************************************************************)
Results == {"reply", "timeout", "disconnected"}

NewCall == [attached |-> FALSE, timeout_added |-> FALSE, timeout_link |-> FALSE,
            reply |-> "none", completed |-> FALSE]

Note(kind, c) == [kind |-> kind, serial |-> c]

\* Where a thread is, where it goes on after the I/O or the completion it is
\* in (ret) and after the dispatch status is computed (next), the call it
\* works on, and whether its iteration reads and writes.
Start == [at |-> "idle", ret |-> "idle", next |-> "idle", arg |-> Nobody, flags |-> {}]

Crashed == crash # "none"
At(t, l) == thread[t].at = l /\ ~Crashed
Go(t, l) == thread' = [thread EXCEPT ![t].at = l]
Fresh(l) == [Start EXCEPT !.at = l]
GoFresh(t, l) == thread' = [thread EXCEPT ![t] = Fresh(l)]
GoIo(t, l, r, f) ==
  thread' = [thread EXCEPT ![t].at = l, ![t].ret = r, ![t].flags = f]
GoArg(t, l, r, c) ==
  thread' = [thread EXCEPT ![t].at = l, ![t].ret = r, ![t].arg = c]

Free == lock = Nobody
Holds(t) == lock = t
Unlock(t) == Holds(t) /\ lock' = Nobody

\* Nothing has a reference to call c any more: its caller is back in the
\* application, pending_replies does not hold it, no thread completes it.
Freed(c) ==
  /\ thread[c].at \in {"done", "refused"}
  /\ ~call[c].attached
  /\ \A t \in Threads : thread[t].arg = c =>
       thread[t].at \notin {"notify", "detach", "forget", "drainTimer"}

Die(why) ==
  /\ crash' = why
  /\ UNCHANGED <<lock, thread, paths, wire, queues, timers>>

\* protected_change_timeout takes the list out of the connection, drops the
\* lock, changes the list and puts it back.  When another thread has the
\* list, nothing is added and nothing is removed.
ListThere == listTaken = Nobody
AddTimeout(c) == listTaken' = Nobody /\ timeouts' = timeouts \cup {c}
RemoveTimeout(c) == listTaken' = Nobody /\ timeouts' = timeouts \ {c}

\* Mutant: a message queued while the lock was dropped is not counted.
CountMessageNever == UNCHANGED n_incoming
CountMessage == n_incoming' = n_incoming + 1

Position(c) == {i \in 1..Len(incoming) : incoming[i].serial = c}

Init ==
  /\ lock = Nobody /\ io = Nobody /\ dispatcher = Nobody /\ listTaken = Nobody
  /\ \E cast \in Casts :
       thread = [t \in Threads |-> IF t \in cast THEN Start ELSE Fresh("refused")]
  /\ connected = TRUE /\ hungUp = FALSE /\ disconnectLink = TRUE /\ crash = "none"
  /\ outgoing = <<>> /\ sent = {} /\ arrived = {}
  /\ incoming = <<>> /\ n_incoming = 0
  /\ timeouts = {} /\ expired = {}
  /\ call = [c \in Callers |-> NewCall]

-----------------------------------------------------------------------------
(***************************************************************************)
(* The dispatch status, and what is done the first time it is computed     *)
(* with no message left after the transport was disconnected: the pending  *)
(* calls are timed out one by one and Disconnected is queued.  Thread t    *)
(* goes on at l, the lock dropped if that is outside the library.          *)
(***************************************************************************)
Unlocking == {"idle", "block", "steal"}
LockAt(t, l) == IF l \in Unlocking THEN Nobody ELSE t

StatusKnown == n_incoming' > 0 \/ connected' \/ (~disconnectLink' /\ outgoing' = <<>>)

\* The rest of an action that ends in get_dispatch_status.
AfterStatus(t, l) ==
  /\ lock' = IF StatusKnown THEN LockAt(t, l) ELSE t
  /\ thread' = [thread EXCEPT ![t] =
                  IF StatusKnown THEN Fresh(l) ELSE [Fresh("status") EXCEPT !.next = l]]

Return(t) ==
  /\ GoFresh(t, thread[t].next)
  /\ lock' = LockAt(t, thread[t].next)

Disconnected(t) ==
  /\ At(t, "status") /\ Holds(t)
  /\ outgoing' = <<>>
  /\ IF disconnectLink THEN Go(t, "drain") /\ UNCHANGED lock ELSE Return(t)
  /\ UNCHANGED <<paths, wire, incoming, n_incoming, disconnectLink, timeouts,
                 listTaken, call, expired, crash>>

QueueTimeoutError(c) ==
  IF call[c].timeout_link
  THEN /\ incoming' = Append(incoming, Note("timeout", c))
       /\ n_incoming' = n_incoming + 1
  ELSE UNCHANGED <<incoming, n_incoming>>

DrainOne(t, c) ==
  /\ At(t, "drain") /\ lock \in {Nobody, t} /\ call[c].attached
  /\ QueueTimeoutError(c)
  /\ lock' = Nobody
  /\ IF ListThere
     THEN /\ listTaken' = t
          /\ call' = [call EXCEPT ![c].timeout_link = FALSE]
          /\ thread' = [thread EXCEPT ![t].at = "drainTimer", ![t].arg = c]
     ELSE /\ call' = [call EXCEPT ![c].timeout_link = FALSE,
                        ![c].timeout_added = FALSE, ![c].attached = FALSE]
          /\ UNCHANGED <<listTaken, thread>>
  /\ UNCHANGED <<paths, wire, outgoing, disconnectLink, timeouts, expired, crash>>

\* Back with the list; the iterator is stale if someone detached the call.
DrainTimer(t) ==
  LET c == thread[t].arg IN
  /\ At(t, "drainTimer") /\ Free
  /\ IF ~call[c].attached THEN Die("stale iterator")
     ELSE /\ RemoveTimeout(c)
          /\ call' = [call EXCEPT ![c].timeout_added = FALSE, ![c].attached = FALSE]
          /\ thread' = [thread EXCEPT ![t].at = "drain", ![t].arg = Nobody]
          /\ UNCHANGED <<lock, paths, wire, queues, expired, crash>>

Drained(t) ==
  /\ At(t, "drain") /\ lock \in {Nobody, t}
  /\ \A c \in Callers : ~call[c].attached
  /\ IF ~disconnectLink THEN Die("no Disconnected link")
     ELSE /\ incoming' = Append(incoming, Note("disconnected", Nobody))
          /\ n_incoming' = n_incoming + 1
          /\ disconnectLink' = FALSE
          /\ Return(t)
          /\ UNCHANGED <<paths, wire, outgoing, timers, crash>>

\* _dbus_list_remove_link.
RemoveLink(list, i) == SubSeq(list, 1, i - 1) \o SubSeq(list, i + 1, Len(list))

-----------------------------------------------------------------------------
(***************************************************************************)
(* Sending.  dbus_connection_send_with_reply on a closed connection gives  *)
(* no pending call; otherwise the call's timeout is added, for which the   *)
(* lock is dropped and the list taken out of the connection.  Adding       *)
(* fails, as if memory had run out, when another thread has the list.      *)
(***************************************************************************)
SendWithReply(c) ==
  /\ At(c, "idle") /\ Free
  /\ \/ /\ ~connected \/ ~ListThere
        /\ Go(c, "refused")
        /\ UNCHANGED <<listTaken, call>>
     \/ /\ connected /\ ListThere
        /\ call' = [call EXCEPT ![c].timeout_link = TRUE]
        /\ listTaken' = c
        /\ Go(c, "attach")
  /\ UNCHANGED <<lock, paths, wire, queues, timeouts, expired, crash>>

\* The list is put back, the call hashed and the message queued.
Attach(c) ==
  /\ At(c, "attach") /\ Free
  /\ AddTimeout(c)
  /\ call' = [call EXCEPT ![c].attached = TRUE, ![c].timeout_added = TRUE]
  /\ outgoing' = Append(outgoing, c)
  /\ Go(c, "write")
  /\ UNCHANGED <<lock, paths, wire, incoming, n_incoming, disconnectLink,
                 expired, crash>>

\* No memory to queue the message: the call is detached again.
NoMemoryToSend(c) ==
  /\ At(c, "attach") /\ Free
  /\ timeouts' = timeouts \cup {c}
  /\ call' = [call EXCEPT ![c].timeout_added = TRUE]
  /\ GoArg(c, "forget", "refused", c)
  /\ UNCHANGED <<lock, paths, wire, queues, listTaken, expired, crash>>

\* do_writing with room in the socket: the whole queue goes out.
DoWriting ==
  /\ sent' = IF hungUp \/ ~connected THEN sent ELSE sent \cup {outgoing[i] : i \in DOMAIN outgoing}
  /\ outgoing' = IF connected THEN <<>> ELSE outgoing

\* The iteration of send_preallocated, which waits neither for the I/O path
\* nor for room in the socket.
SendNow(c) ==
  /\ At(c, "write") /\ Free
  /\ \/ io = Nobody /\ DoWriting
     \/ UNCHANGED <<outgoing, sent>>
  /\ UNCHANGED <<paths, connected, hungUp, arrived, incoming, n_incoming,
                 disconnectLink, timers, crash>>
  /\ AfterStatus(c, "block")

-----------------------------------------------------------------------------
(***************************************************************************)
(* The I/O path.  A thread that finds it taken sleeps on the condition     *)
(* variable; whoever releases it wakes one sleeper, which tries again.  A  *)
(* timed wait is not repeated: awake or out of time, the thread takes the  *)
(* path if it is free and goes on without it otherwise.                    *)
(***************************************************************************)
AcquireIo(t) ==
  /\ At(t, "waitIo") \/ At(t, "waitIoTimed")
  /\ io = Nobody
  /\ io' = t
  /\ Go(t, IF t \in Loops THEN "read" ELSE "poll")
  /\ UNCHANGED <<lock, dispatcher, wire, queues, timers, crash>>

SleepIo(t) ==
  /\ io # Nobody
  /\ \/ At(t, "waitIo") /\ Go(t, "sleepIo")
     \/ At(t, "waitIoTimed") /\ Go(t, "sleepIoTimed")
  /\ UNCHANGED <<lock, shared>>

\* The time is up: take the path or go back without it.
SleptEnough(t) ==
  /\ At(t, "sleepIoTimed") /\ t \in expired
  /\ IF io = Nobody THEN io' = t /\ Go(t, "poll")
                    ELSE UNCHANGED io /\ Go(t, thread[t].ret)
  /\ UNCHANGED <<lock, dispatcher, wire, queues, timers, crash>>

\* What a thread woken from the I/O condition variable finds.
Woken(t) ==
  IF thread[t].at = "sleepIo" THEN "waitIo" ELSE "retryIo"

RetryIo(t) ==
  /\ At(t, "retryIo")
  /\ IF io = Nobody THEN io' = t /\ Go(t, "poll")
                    ELSE UNCHANGED io /\ Go(t, thread[t].ret)
  /\ UNCHANGED <<lock, dispatcher, wire, queues, timers, crash>>

\* Mutant: nobody is woken.
SleepersForgotten == {}
Sleepers == {u \in Threads : thread[u].at \in {"sleepIo", "sleepIoTimed"}}

ReleaseIo(t) ==
  LET mine == [thread EXCEPT ![t].at = thread[t].ret, ![t].ret = "idle", ![t].flags = {}]
  IN /\ io' = Nobody
     /\ IF Sleepers = {} THEN thread' = mine
        ELSE \E u \in Sleepers : thread' = [mine EXCEPT ![u].at = Woken(u)]

\* poll() returns: data, the peer's hang-up, room to write, or the deadline.
PollReturns(t) ==
  /\ At(t, "poll") /\ Free /\ lock' = t
  /\ \/ arrived # {} \/ hungUp \/ ~connected
     \/ "w" \in thread[t].flags
     \/ thread[t].ret = "recheck" /\ t \in expired
  /\ Go(t, "read")
  /\ UNCHANGED shared

\* A message off the socket is queued and its call's timeout removed, which
\* may drop the lock before the message is counted.
DoReading(t, c) ==
  /\ At(t, "read") /\ lock \in {Nobody, t}
  /\ "r" \in thread[t].flags /\ connected /\ c \in arrived
  /\ arrived' = arrived \ {c}
  /\ incoming' = Append(incoming, Note("reply", c))
  /\ IF call[c].attached /\ call[c].timeout_added /\ ListThere
     THEN /\ listTaken' = t
          /\ lock' = Nobody
          /\ thread' = [thread EXCEPT ![t].at = "unarm", ![t].arg = c]
          /\ UNCHANGED <<call, n_incoming>>
     ELSE /\ lock' = t
          /\ n_incoming' = n_incoming + 1
          /\ call' = IF call[c].attached
                     THEN [call EXCEPT ![c].timeout_added = FALSE] ELSE call
          /\ UNCHANGED <<listTaken, thread>>
  /\ UNCHANGED <<paths, connected, hungUp, sent, outgoing, disconnectLink,
                 timeouts, expired, crash>>

Unarm(t) ==
  LET c == thread[t].arg IN
  /\ At(t, "unarm") /\ Free
  /\ IF Freed(c) THEN Die("freed call")
     ELSE /\ lock' = t
          /\ RemoveTimeout(c)
          /\ call' = [call EXCEPT ![c].timeout_added = FALSE]
          /\ CountMessage
          /\ thread' = [thread EXCEPT ![t].at = "read", ![t].arg = Nobody]
          /\ UNCHANGED <<paths, wire, outgoing, incoming, disconnectLink,
                         expired, crash>>

\* Nothing left to read: end of file disconnects; then write if asked to.
DoneReading(t) ==
  /\ At(t, "read") /\ lock \in {Nobody, t} /\ lock' = t
  /\ "r" \in thread[t].flags /\ connected => arrived = {}
  /\ IF "r" \in thread[t].flags /\ connected /\ hungUp
     THEN connected' = FALSE /\ UNCHANGED <<outgoing, sent>>
     ELSE /\ UNCHANGED connected
          /\ IF "w" \in thread[t].flags THEN DoWriting ELSE UNCHANGED <<outgoing, sent>>
  /\ ReleaseIo(t)
  /\ UNCHANGED <<dispatcher, hungUp, arrived, incoming, n_incoming, disconnectLink,
                 timers, crash>>

-----------------------------------------------------------------------------
(***************************************************************************)
(* Completing.  set_reply asserts that there is no reply yet, and takes    *)
(* the prepared timeout error when it is given none; the call is detached, *)
(* and completed, with its callback, after the lock is dropped.            *)
(***************************************************************************)
\* Mutant: with assertions disabled the reply is set again.
SetReplyFailsNever(c, useLink) == useLink /\ ~call[c].timeout_link
SetReplyFails(c, useLink) ==
  call[c].reply # "none" \/ (useLink /\ ~call[c].timeout_link)

DetachPendingCall(t, c, kind, useLink) ==
  LET window == call[c].timeout_added /\ ListThere IN
  /\ call' = [call EXCEPT ![c].reply = kind, ![c].attached = FALSE,
                ![c].timeout_link = @ /\ ~useLink,
                ![c].timeout_added = window]
  /\ listTaken' = IF window THEN t ELSE listTaken
  /\ lock' = Nobody

CompletePendingCall(t, c, kind, useLink, r, queue) ==
  IF SetReplyFails(c, useLink)
  THEN Die(IF useLink /\ ~call[c].timeout_link THEN "no timeout error" ELSE "second reply")
  ELSE /\ DetachPendingCall(t, c, kind, useLink)
       /\ incoming' = queue
       /\ n_incoming' = n_incoming - (Len(incoming) - Len(queue))
       /\ GoArg(t, IF call[c].timeout_added /\ ListThere THEN "detach" ELSE "notify",
                r, c)
       /\ UNCHANGED <<paths, wire, outgoing, disconnectLink, timeouts, expired, crash>>

Detached(t) ==
  LET c == thread[t].arg IN
  /\ At(t, "detach") \/ At(t, "forget")
  /\ Free
  /\ RemoveTimeout(c)
  /\ call' = [call EXCEPT ![c].timeout_added = FALSE]
  /\ IF At(t, "detach") THEN Go(t, "notify") ELSE GoFresh(t, thread[t].ret)
  /\ UNCHANGED <<lock, paths, wire, queues, expired, crash>>

PendingCallComplete(t) ==
  LET c == thread[t].arg IN
  /\ At(t, "notify")
  /\ IF call[c].completed THEN Die("completed twice")
     ELSE /\ call' = [call EXCEPT ![c].completed = TRUE]
          /\ GoFresh(t, thread[t].ret)
          /\ UNCHANGED <<lock, paths, wire, queues, timeouts, listTaken, expired, crash>>

-----------------------------------------------------------------------------
(***************************************************************************)
(* dbus_pending_call_block: flush, look for the reply in the queue, then   *)
(* read until the reply is there, someone else completed the call, the     *)
(* connection is closed or the time is up.                                 *)
(***************************************************************************)
Block(c) ==
  /\ At(c, "block") /\ Free
  /\ Go(c, IF call[c].completed THEN "steal" ELSE "flush")
  /\ UNCHANGED <<lock, shared>>

Flush(c) ==
  /\ At(c, "flush") /\ lock \in {Nobody, c}
  /\ UNCHANGED shared
  /\ IF outgoing # <<>> /\ connected
     THEN lock' = Nobody /\ GoIo(c, "waitIo", "flush", {"r", "w"})
     ELSE AfterStatus(c, "check")

\* check_for_reply takes the first reply to c out of the queue.
Reply(c) == CHOOSE i \in Position(c) : \A j \in Position(c) : i <= j

TakeReply(c) ==
  CompletePendingCall(c, c, incoming[Reply(c)].kind, FALSE, "last",
                      RemoveLink(incoming, Reply(c)))

WaitForReply(c) ==
  /\ lock' = Nobody
  /\ GoIo(c, "waitIoTimed", "recheck", {"r"})
  /\ UNCHANGED shared

CheckForReply(c) ==
  /\ At(c, "check") /\ Holds(c)
  /\ IF Position(c) # {} THEN TakeReply(c) ELSE WaitForReply(c)

Recheck(c) ==
  /\ At(c, "recheck") /\ lock \in {Nobody, c}
  /\ UNCHANGED shared
  /\ AfterStatus(c, "judge")

CompletedElsewhere(c) ==
  /\ At(c, "judge") /\ Unlock(c) /\ call[c].completed
  /\ Go(c, "steal")
  /\ UNCHANGED shared

Judge(c) ==
  /\ At(c, "judge") /\ Holds(c) /\ ~call[c].completed
  /\ IF n_incoming > 0 /\ Position(c) # {} THEN TakeReply(c)
     ELSE IF ~connected
     THEN CompletePendingCall(c, c, "disconnected", FALSE, "steal", incoming)
     ELSE IF c \in expired \/ ~disconnectLink
     THEN CompletePendingCall(c, c, "timeout", TRUE, "last", incoming)
     ELSE WaitForReply(c)

LastStatus(c) ==
  /\ At(c, "last") /\ Free
  /\ UNCHANGED shared
  /\ AfterStatus(c, "steal")

StealReply(c) ==
  /\ At(c, "steal") /\ Free
  /\ Go(c, "done")
  /\ UNCHANGED <<lock, shared>>

-----------------------------------------------------------------------------
(***************************************************************************)
(* The main loop: the watch, the timeouts, dispatching, and what the       *)
(* application may do between: close the connection, cancel a call.        *)
(***************************************************************************)
HandleWatch(t) ==
  /\ At(t, "idle") /\ t \in Loops /\ Free /\ connected
  /\ \/ /\ arrived # {} \/ hungUp
        /\ thread' = [thread EXCEPT ![t].at = "waitIo", ![t].ret = "watched",
                        ![t].flags = {"r"}]
     \/ /\ outgoing # <<>>
        /\ thread' = [thread EXCEPT ![t].at = "waitIo", ![t].ret = "watched",
                        ![t].flags = {"w"}]
  /\ UNCHANGED <<lock, shared>>

Watched(t) ==
  /\ At(t, "watched") /\ Holds(t)
  /\ UNCHANGED shared
  /\ AfterStatus(t, "idle")

\* reply_handler_timeout; its call may have been freed by then.
FireTimer(t, c) ==
  /\ At(t, "idle") /\ t \in Loops /\ Free
  /\ c \in timeouts \cap expired
  /\ IF Freed(c) THEN Die("freed call")
     ELSE /\ QueueTimeoutError(c)
          /\ UNCHANGED <<paths, wire, outgoing, disconnectLink, timeouts, expired, crash>>
          /\ IF ListThere
             THEN /\ listTaken' = t
                  /\ call' = [call EXCEPT ![c].timeout_link = FALSE]
                  /\ thread' = [thread EXCEPT ![t].at = "fireTimer", ![t].arg = c]
                  /\ UNCHANGED lock
             ELSE /\ call' = [call EXCEPT ![c].timeout_link = FALSE,
                                ![c].timeout_added = FALSE]
                  /\ AfterStatus(t, "idle")
                  /\ UNCHANGED listTaken

TimerFired(t) ==
  LET c == thread[t].arg IN
  /\ At(t, "fireTimer") /\ Free
  /\ IF Freed(c) THEN Die("freed call")
     ELSE /\ RemoveTimeout(c)
          /\ call' = [call EXCEPT ![c].timeout_added = FALSE]
          /\ UNCHANGED <<paths, wire, queues, expired, crash>>
          /\ AfterStatus(t, "idle")

Dispatch(t) ==
  /\ At(t, "idle") /\ t \in Loops /\ Free
  /\ n_incoming > 0 \/ (~connected /\ disconnectLink)
  /\ UNCHANGED shared
  /\ AfterStatus(t, "dispatch")

\* acquire_dispatch drops the lock and may sleep.
WantDispatch(t) ==
  /\ At(t, "dispatch") /\ Unlock(t)
  /\ Go(t, IF n_incoming > 0 THEN "waitDispatch" ELSE "idle")
  /\ UNCHANGED shared

AcquireDispatch(t) ==
  /\ At(t, "waitDispatch")
  /\ IF dispatcher = Nobody
     THEN dispatcher' = t /\ Go(t, "pop")
     ELSE UNCHANGED dispatcher /\ Go(t, "sleepDispatch")
  /\ UNCHANGED <<lock, io, wire, queues, timers, crash>>

ReleaseDispatch(t) ==
  LET sleepers == {u \in Threads : thread[u].at = "sleepDispatch"}
      mine == [thread EXCEPT ![t] =
                 IF StatusKnown THEN Start ELSE Fresh("status")]
  IN /\ dispatcher' = Nobody
     /\ lock' = IF StatusKnown THEN Nobody ELSE t
     /\ IF sleepers = {} THEN thread' = mine
        ELSE \E u \in sleepers : thread' = [mine EXCEPT ![u].at = "waitDispatch"]

\* The first message: a pending call's answer completes it; anything else
\* goes to the filters and the object tree, called without the lock.
PopMessage(t) ==
  /\ At(t, "pop") /\ Free
  /\ IF n_incoming <= 0
     THEN /\ UNCHANGED <<incoming, n_incoming, io, wire, outgoing,
                         disconnectLink, timers, crash>>
          /\ ReleaseDispatch(t)
     ELSE LET m == Head(incoming) IN
          IF m.serial # Nobody /\ call[m.serial].attached
          THEN CompletePendingCall(t, m.serial, m.kind, FALSE, "dispatched", Tail(incoming))
          ELSE /\ incoming' = Tail(incoming)
               /\ n_incoming' = n_incoming - 1
               /\ Go(t, "handlers")
               /\ UNCHANGED <<lock, paths, wire, outgoing, disconnectLink, timeouts,
                              listTaken, call, expired, crash>>

RunHandlers(t) ==
  /\ At(t, "handlers")
  /\ Go(t, "dispatched")
  /\ UNCHANGED <<lock, shared>>

Dispatched(t) ==
  /\ At(t, "dispatched") /\ Free
  /\ UNCHANGED <<io, wire, queues, timers, crash>>
  /\ ReleaseDispatch(t)

\* dbus_pending_call_cancel, while the caller still has its reference.
Cancel(t, c) ==
  LET window == call[c].timeout_added /\ ListThere IN
  /\ At(t, "idle") /\ t \in Loops /\ Free /\ call[c].attached
  /\ call' = [call EXCEPT ![c].attached = FALSE, ![c].timeout_added = window]
  /\ IF window THEN listTaken' = t /\ GoArg(t, "forget", "idle", c)
               ELSE UNCHANGED <<listTaken, thread>>
  /\ UNCHANGED <<lock, paths, wire, queues, timeouts, expired, crash>>

\* dbus_connection_close: the socket is closed under whoever polls it.
Close(t) ==
  /\ At(t, "idle") /\ t \in Loops /\ Free /\ connected
  /\ connected' = FALSE
  /\ UNCHANGED <<paths, hungUp, sent, arrived, queues, timers, crash>>
  /\ AfterStatus(t, "idle")

-----------------------------------------------------------------------------
(***************************************************************************)
(* The peer and the clock.                                                 *)
(***************************************************************************)
Answer(c) ==
  /\ c \in sent /\ ~hungUp /\ ~Crashed
  /\ sent' = sent \ {c}
  /\ arrived' = arrived \cup {c}
  /\ UNCHANGED <<lock, thread, paths, connected, hungUp, queues, timers, crash>>

HangUp ==
  /\ ~hungUp /\ ~Crashed
  /\ hungUp' = TRUE
  /\ UNCHANGED <<lock, thread, paths, connected, sent, arrived, queues, timers, crash>>

Expire(c) ==
  /\ c \notin expired /\ ~Crashed
  /\ thread[c].at \notin {"idle", "attach", "forget", "done", "refused"}
  /\ expired' = expired \cup {c}
  /\ UNCHANGED <<lock, thread, paths, wire, queues, timeouts, listTaken, call, crash>>

Step(t) ==
  \/ Disconnected(t) \/ Drained(t) \/ DrainTimer(t)
  \/ \E c \in Callers : DrainOne(t, c) \/ DoReading(t, c)
  \/ AcquireIo(t) \/ SleepIo(t) \/ SleptEnough(t) \/ RetryIo(t)
  \/ PollReturns(t) \/ Unarm(t) \/ DoneReading(t)
  \/ Detached(t) \/ PendingCallComplete(t)

CallerStep(c) ==
  \/ Attach(c) \/ NoMemoryToSend(c) \/ SendNow(c) \/ Block(c) \/ Flush(c) \/ CheckForReply(c)
  \/ Recheck(c) \/ CompletedElsewhere(c) \/ Judge(c) \/ LastStatus(c) \/ StealReply(c)

LoopStep(t) ==
  \/ Watched(t) \/ TimerFired(t) \/ WantDispatch(t) \/ AcquireDispatch(t)
  \/ PopMessage(t) \/ RunHandlers(t) \/ Dispatched(t)

Event(t) ==
  \/ HandleWatch(t) \/ Dispatch(t) \/ Close(t)
  \/ \E c \in Callers : FireTimer(t, c) \/ Cancel(t, c)

Next ==
  \/ \E t \in Threads : Step(t)
  \/ \E c \in Callers : SendWithReply(c) \/ CallerStep(c) \/ Answer(c) \/ Expire(c)
  \/ \E t \in Loops : LoopStep(t) \/ Event(t)
  \/ HangUp

(***************************************************************************)
(* A thread that is not waiting goes on, deadlines pass, and the peer      *)
(* reads what is written to it or hangs up: a flush has no deadline.  The  *)
(* peer need not answer, nor the main loop handle events.                  *)
(***************************************************************************)
Spec ==
  /\ Init /\ [][Next]_vars
  /\ \A t \in Threads : WF_vars(Step(t))
  /\ \A c \in Callers : WF_vars(CallerStep(c)) /\ WF_vars(Expire(c))
  /\ \A t \in Loops : WF_vars(LoopStep(t))

-----------------------------------------------------------------------------
(***************************************************************************)
(* What the application sees of a call is an abstract pending call: sent,  *)
(* then completed once with one result, then returned to the caller.       *)
(***************************************************************************)
CallState(c) ==
  CASE thread[c].at \in {"idle", "attach", "forget"} -> "unsent"
    [] thread[c].at = "refused" -> "refused"
    [] thread[c].at = "done" -> "returned"
    [] OTHER -> IF call[c].completed THEN "completed" ELSE "waiting"

Abstract == INSTANCE PendingCalls WITH
  state  <- [c \in Callers |-> CallState(c)],
  result <- [c \in Callers |-> IF call[c].completed THEN call[c].reply ELSE "none"],
  crashed <- Crashed

\* Whatever the interleaving of the callers, the main loop and the peer, a
\* call completes at most once, its result never changes, its caller gets
\* that result, and every call that was sent returns (dbus_pending_call_block
\* and dispatch share the completion of a call).
CallsRefine == Abstract!Spec

\* A sleeper is never forgotten: while a thread sleeps on the condition
\* variable of the I/O path or the dispatcher, someone has the path or is
\* awake to take it (release_io_path and release_dispatch wake one).
NoLostWakeup ==
  /\ (\E t \in Threads : thread[t].at \in {"sleepIo", "sleepIoTimed"}) =>
       io # Nobody \/ \E u \in Threads : thread[u].at \in {"waitIo", "waitIoTimed", "retryIo"}
  /\ (\E t \in Threads : thread[t].at = "sleepDispatch") =>
       dispatcher # Nobody \/ \E u \in Threads : thread[u].at = "waitDispatch"

\* n_incoming is the length of the queue, but for messages that a thread has
\* queued and not counted yet (queue_received_message_link drops the lock
\* between the two).
QueueCounted ==
  Crashed \/ n_incoming = Len(incoming) - Cardinality({t \in Threads : thread[t].at = "unarm"})

\* The assertion of _dbus_pending_call_set_reply_unlocked: a pending call is
\* given a reply once.
ReplyAssertion == crash # "second reply"
=============================================================================
