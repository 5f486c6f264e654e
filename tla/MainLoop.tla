------------------------------ MODULE MainLoop ------------------------------
(***************************************************************************)
(* The main loop of the bus daemon (dbus/dbus-mainloop.c).  A handler that *)
(* the loop calls may add and remove watches and timeouts, enable and      *)
(* disable them, ask for a connection to be dispatched, quit the loop, and *)
(* run it again: frames is the stack of iterations under way.              *)
(*                                                                         *)
(* A callback is polled by an iteration (a watch) or has an interval (a    *)
(* timeout).  Time is whether a timeout is due.                            *)
(***************************************************************************)
EXTENDS Integers, Sequences, FiniteSets

CONSTANTS
  Watches, Timeouts,  \* callbacks, each added once
  Casts,              \* the sets of callbacks that take part in a behaviour
  MaxDepth,           \* bound on loops run from handlers
  MaxDispatch         \* bound on the connections that wait for dispatch

VARIABLES
  loop,     \* the DBusLoop
  cb,       \* the callbacks
  frames    \* the iterations under way, the innermost last

vars == <<loop, cb, frames>>

Callbacks == Watches \cup Timeouts

\* A callback is new, then in the list, then removed; refcount, enabled, the
\* last call ran out of memory (watches), the interval is over (timeouts).
NewCallback == [refcount |-> 0, enabled |-> TRUE, oom |-> FALSE, due |-> FALSE,
                new |-> TRUE]

Elements(list) == {list[k] : k \in DOMAIN list}
Listed(c) == c \in Elements(loop.callbacks)
CallbackBecomes(c, r) == cb' = [cb EXCEPT ![c] = r]

Top == frames[Len(frames)]
At(places) == frames # <<>> /\ Top.at \in places
SetTop(f) == frames' = [frames EXCEPT ![Len(frames)] = f]
InHandler == At({"timeout", "watch", "dispatch"})

Init ==
  /\ loop = [callbacks |-> <<>>, watch_count |-> 0, timeout_count |-> 0,
             depth |-> 1, need_dispatch |-> 0]
  /\ \E cast \in Casts :
       cb = [c \in Callbacks |-> [NewCallback EXCEPT !.new = c \in cast]]
  /\ frames = <<>>

-----------------------------------------------------------------------------
(* What handlers do; before the loop runs, so does the program. *)

\* A handler makes at most one change.
MayChange == frames = <<>> \/ (InHandler /\ ~Top.acted)
Acted == [k \in DOMAIN frames |-> [frames[k] EXCEPT !.acted = @ \/ k = Len(frames)]]

\* callback_list_serial goes up: it is not any more what the iterations under
\* way took down after poll.
Bump == [k \in DOMAIN frames |-> [frames[k] EXCEPT !.acted = @ \/ k = Len(frames),
                                                !.serialSame = FALSE]]

\* _dbus_loop_add_watch, _dbus_loop_add_timeout, add_callback
AddCallback(c) ==
  /\ MayChange /\ cb[c].new
  /\ CallbackBecomes(c, [cb[c] EXCEPT !.new = FALSE, !.refcount = 1])
  /\ loop' = [loop EXCEPT !.callbacks = Append(@, c),
                          !.watch_count = @ + (IF c \in Watches THEN 1 ELSE 0),
                          !.timeout_count = @ + (IF c \in Timeouts THEN 1 ELSE 0)]
  /\ frames' = Bump

\* _dbus_list_remove_link
RemoveLink(list, i) == [k \in 1 .. Len(list) - 1 |-> IF k < i THEN list[k] ELSE list[k + 1]]

\* _dbus_loop_remove_watch, _dbus_loop_remove_timeout, remove_callback
RemoveCallback(c) ==
  /\ MayChange
  /\ CallbackBecomes(c, [cb[c] EXCEPT !.refcount = @ - 1])
  /\ \E i \in DOMAIN loop.callbacks :
       /\ loop.callbacks[i] = c
       /\ loop' = [loop EXCEPT !.callbacks = RemoveLink(@, i),
                               !.watch_count = @ - (IF c \in Watches THEN 1 ELSE 0),
                               !.timeout_count = @ - (IF c \in Timeouts THEN 1 ELSE 0)]
  /\ frames' = Bump

\* dbus_watch_toggle and dbus_timeout_toggle do not change the list.
Toggle(c) ==
  /\ MayChange /\ Listed(c)
  /\ CallbackBecomes(c, [cb[c] EXCEPT !.enabled = ~@])
  /\ frames' = Acted
  /\ UNCHANGED loop

QueueDispatch ==
  /\ MayChange /\ loop.need_dispatch < MaxDispatch
  /\ loop' = [loop EXCEPT !.need_dispatch = @ + 1]
  /\ frames' = Acted
  /\ UNCHANGED cb

\* _dbus_loop_quit ends the innermost loop.
Quit ==
  /\ InHandler /\ ~Top.acted /\ loop.depth > Top.exit
  /\ loop' = [loop EXCEPT !.depth = @ - 1]
  /\ frames' = Acted
  /\ UNCHANGED cb

TimePasses(c) ==
  /\ Listed(c) /\ c \in Timeouts /\ ~cb[c].due
  /\ CallbackBecomes(c, [cb[c] EXCEPT !.due = TRUE])
  /\ UNCHANGED <<loop, frames>>

-----------------------------------------------------------------------------
(* An iteration *)

\* The watches to poll: those that are enabled, less those that ran out of
\* memory in the last iteration and sit out this one.
Polled == {c \in Elements(loop.callbacks) \cap Watches : ~cb[c].oom /\ cb[c].enabled}
Skipped == {c \in Elements(loop.callbacks) \cap Watches : cb[c].oom}

Enabled == {c \in Elements(loop.callbacks) \cap Timeouts : cb[c].enabled}

\* How long to wait: -1 for ever, 0, or a while.  MIN of the time the timeouts
\* leave and that of a watch without memory is taken as it is, -1 or not.
OomWait == 1
Wait ==
  LET timeout == IF loop.need_dispatch > 0 \/ \E c \in Enabled : cb[c].due THEN 0
                 ELSE IF Enabled # {} THEN 2 ELSE -1
  IN IF Skipped # {} /\ OomWait < timeout THEN OomWait ELSE timeout

\* An iteration: the watches in its array (fds), which are in the order of the
\* list as it was (list), those that are ready, where it is in the list or the
\* array (i), the serial and the depth it started with, how long it may wait and
\* whether a watch sits it out, the depth its loop ends at.
Frame(exit, depth) ==
  [at |-> IF loop.callbacks = <<>> THEN "end" ELSE "poll", list |-> loop.callbacks, fds |-> Polled,
   ready |-> {}, i |-> 1, serialSame |-> TRUE, acted |-> FALSE, depth |-> depth, wait |-> Wait,
   skips |-> Skipped # {}, exit |-> exit]

\* The array has a reference to each watch in it.
Prepared == [c \in Callbacks |->
  [cb[c] EXCEPT !.oom = @ /\ c \notin Skipped,
                !.refcount = @ + (IF c \in Polled THEN 1 ELSE 0)]]

\* The loop of the program goes on until the depth is 0 again.
Iterate ==
  /\ frames = <<>> /\ loop.depth > 0
  /\ frames' = <<Frame(0, loop.depth)>>
  /\ cb' = Prepared
  /\ UNCHANGED loop

\* _dbus_loop_run, from a handler.
NestedRun ==
  /\ InHandler /\ ~Top.acted /\ Len(frames) < MaxDepth
  /\ frames' = Append(Acted, Frame(loop.depth, loop.depth + 1))
  /\ cb' = Prepared
  /\ loop' = [loop EXCEPT !.depth = @ + 1]

Poll ==
  /\ At({"poll"})
  /\ \E ready \in SUBSET Top.fds :
       /\ ready = {} => Top.wait # -1
       /\ SetTop([Top EXCEPT !.at = "timeouts", !.ready = ready])
  /\ UNCHANGED <<loop, cb>>

\* Mutant: a loop that was quit goes on calling handlers.
ChangedList == ~Top.serialSame
Changed == ~Top.serialSame \/ loop.depth # Top.depth

\* The timeouts that are due, in the order of the list.
FireTimeouts ==
  /\ At({"timeouts"})
  /\ IF Changed THEN SetTop([Top EXCEPT !.at = "end"]) /\ UNCHANGED cb
     ELSE IF Top.i > Len(loop.callbacks)
     THEN SetTop([Top EXCEPT !.at = "watches", !.i = 1]) /\ UNCHANGED cb
     ELSE LET c == loop.callbacks[Top.i] IN
          IF c \in Enabled /\ cb[c].due
          THEN /\ CallbackBecomes(c, [cb[c] EXCEPT !.due = FALSE])
               /\ SetTop([Top EXCEPT !.at = "timeout"])
          ELSE SetTop([Top EXCEPT !.i = @ + 1]) /\ UNCHANGED cb
  /\ UNCHANGED loop

\* The watches that are ready and still enabled, in the order of the array.
HandleWatches ==
  /\ At({"watches"})
  /\ IF Top.ready = {} \/ Top.i > Len(Top.list) \/ Changed
     THEN SetTop([Top EXCEPT !.at = "end"])
     ELSE LET c == Top.list[Top.i] IN
          IF c \in Top.ready /\ cb[c].enabled
          THEN SetTop([Top EXCEPT !.at = "watch"])
          ELSE SetTop([Top EXCEPT !.i = @ + 1])
  /\ UNCHANGED <<loop, cb>>

\* A handler returns; that of a watch may say that it had no memory, which the
\* callback notes, removed or not.
HandlerReturns ==
  \/ /\ At({"timeout"})
     /\ SetTop([Top EXCEPT !.at = "timeouts", !.i = @ + 1, !.acted = FALSE])
     /\ UNCHANGED <<loop, cb>>
  \/ /\ At({"watch"})
     /\ \E oom \in BOOLEAN :
          LET c == Top.list[Top.i] IN CallbackBecomes(c, [cb[c] EXCEPT !.oom = oom \/ @])
     /\ SetTop([Top EXCEPT !.at = "watches", !.i = @ + 1, !.acted = FALSE])
     /\ UNCHANGED loop
  \/ /\ At({"dispatch"})
     /\ SetTop([Top EXCEPT !.at = "dispatches", !.acted = FALSE])
     /\ UNCHANGED <<loop, cb>>

\* next_iteration: the references go.
NextIteration ==
  /\ At({"end"})
  /\ cb' = [c \in Callbacks |->
       [cb[c] EXCEPT !.refcount = @ - (IF c \in Top.fds THEN 1 ELSE 0)]]
  /\ SetTop([Top EXCEPT !.at = "dispatches", !.list = <<>>, !.fds = {}])
  /\ UNCHANGED loop

\* _dbus_loop_dispatch, and the next iteration if the loop was not quit.
DispatchAll ==
  /\ At({"dispatches"})
  /\ IF loop.need_dispatch > 0
     THEN /\ loop' = [loop EXCEPT !.need_dispatch = @ - 1]
          /\ SetTop([Top EXCEPT !.at = "dispatch"])
          /\ UNCHANGED cb
     ELSE /\ UNCHANGED loop
          /\ IF loop.depth = Top.exit
             THEN frames' = SubSeq(frames, 1, Len(frames) - 1) /\ UNCHANGED cb
             ELSE SetTop(Frame(Top.exit, loop.depth)) /\ cb' = Prepared

Handlers ==
  \/ \E c \in Callbacks : AddCallback(c) \/ RemoveCallback(c) \/ Toggle(c)
  \/ QueueDispatch \/ Quit \/ NestedRun \/ HandlerReturns

Next ==
  \/ Handlers
  \/ \E c \in Timeouts : TimePasses(c)
  \/ Iterate \/ Poll \/ FireTimeouts \/ HandleWatches \/ NextIteration \/ DispatchAll

Spec == Init /\ [][Next]_vars

-----------------------------------------------------------------------------
(* Properties *)

\* The counts are those of the list, and the reference count of a callback is
\* the number of its holders, the list and the iterations that poll it: none
\* of them finds it freed, whatever handlers remove.
LoopSound ==
  /\ loop.watch_count = Cardinality(Elements(loop.callbacks) \cap Watches)
  /\ loop.timeout_count = Cardinality(Elements(loop.callbacks) \cap Timeouts)
  /\ \A c \in Callbacks :
       cb[c].refcount = (IF Listed(c) THEN 1 ELSE 0)
         + Cardinality({k \in DOMAIN frames : c \in frames[k].fds})

\* A handler is called only while its watch or timeout is in the list and
\* enabled and its loop runs: a watch found ready is not handled after another
\* handler removed or disabled it, or quit the loop.
Calls(place) == frames' # <<>> /\ frames'[Len(frames')].at = place

CalledWhileListed ==
  [][/\ At({"timeouts"}) /\ Calls("timeout") =>
          /\ Top.i <= Len(loop.callbacks)
          /\ cb[loop.callbacks[Top.i]].enabled /\ loop.depth > Top.exit
     /\ At({"watches"}) /\ Calls("watch") =>
          /\ Listed(Top.list[Top.i])
          /\ cb[Top.list[Top.i]].enabled /\ loop.depth > Top.exit]_vars

\* "If a watch is OOM, don't wait longer than the OOM wait to re-enable it":
\* an iteration that a watch sits out does not wait for ever for the others.
OomWaitBounded ==
  \A k \in DOMAIN frames :
    frames[k].at = "poll" /\ frames[k].skips => frames[k].wait \in 0..OomWait
=============================================================================
