----------------------------- MODULE Transport -----------------------------
(***************************************************************************)
(* One end of a socket transport (dbus/dbus-transport.c,                   *)
(* dbus/dbus-transport-socket.c) and the counter of live messages          *)
(* (dbus/dbus-resources.c): what is read and written before and after the  *)
(* end is authenticated, when the read and the write watch are enabled,    *)
(* and how reading stops while the messages received and not yet finalized *)
(* take up too much memory.                                                *)
(*                                                                         *)
(* The conversation itself is module Authentication; here it is the number *)
(* of lines still expected from the peer and what _dbus_auth_do_work says. *)
(* What the peer wrote is a sequence of lines, messages (their sizes), a   *)
(* message that is not valid, and the end of file.                         *)
(***************************************************************************)
EXTENDS Integers, Sequences, FiniteSets, SequencesExt

CONSTANTS
  Sizes,       \* sizes of messages
  MaxLive,     \* max_live_messages_size
  MaxItems,    \* what the peer sends after its lines, at most
  ReadSize,    \* max_bytes_read_per_iteration, in items
  MaxNoMemory  \* how often memory runs out

VARIABLES
  t,         \* the transport
  wire,      \* items in the socket, the end of file last
  peer,      \* what the peer has sent: lines left, items, open
  held,      \* messages dispatched and not finalized, a sequence of sizes
  noMemory   \* how often memory ran out

vars == <<t, wire, peer, held, noMemory>>

\* Items of the wire that are not messages, and a message that is not valid.
Line == -1
BadLine == -2
EndOfFile == -3
Corrupt == 0

-----------------------------------------------------------------------------
(***************************************************************************)
(* Authenticated, and the watches.                                         *)
(***************************************************************************)
Disconnect(u) == [u EXCEPT !.connected = FALSE, !.readWatch = FALSE, !.writeWatch = FALSE]

\* _dbus_transport_get_is_authenticated settles the question once the
\* conversation is over: the server asks whether the user may connect, the
\* client compares the server's GUID.  A no disconnects.
Settle(u) ==
  IF u.authenticated \/ ~u.connected \/ u.credentials # "done" \/ u.auth # "done" THEN u
  ELSE IF u.welcome THEN [u EXCEPT !.authenticated = TRUE]
  ELSE Disconnect(u)

NeedRead(u) ==
  IF u.authenticated THEN u.live < MaxLive
  ELSE u.credentials = "receive" \/ u.auth \in {"input", "memory", "done"}

NeedWrite(u) ==
  IF u.authenticated THEN u.outgoing > 0
  ELSE u.credentials = "send" \/ u.auth \in {"bytes", "memory"}

CheckReadWatch(u) ==
  LET v == Settle(u) IN IF v.connected THEN [v EXCEPT !.readWatch = NeedRead(v)] ELSE v

CheckWriteWatch(u) ==
  LET v == Settle(u) IN IF v.connected THEN [v EXCEPT !.writeWatch = NeedWrite(v)] ELSE v

\* _dbus_counter_adjust: the notify function runs when the value crosses
\* the guard, and checks the read watch.
\* Mutant: only crossing it upwards counts.
AdjustUp(u, delta) ==
  LET v == [u EXCEPT !.live = @ + delta]
  IN IF u.live < MaxLive /\ v.live >= MaxLive THEN CheckReadWatch(v) ELSE v
Adjust(u, delta) ==
  LET v == [u EXCEPT !.live = @ + delta]
  IN IF (u.live < MaxLive) # (v.live < MaxLive) THEN CheckReadWatch(v) ELSE v

-----------------------------------------------------------------------------
(***************************************************************************)
(* From bytes to messages of the connection.  The loader keeps what was    *)
(* read; messages leave it for the connection's queue while the live       *)
(* messages are below the limit.                                           *)
(***************************************************************************)
RecoverUnused(u) ==
  [u EXCEPT !.loader = @ \o u.unused, !.unused = <<>>]

\* Mutant: the limit is looked at once, not before each message.
RECURSIVE QueueMessages(_)
QueueMessages(u) ==
  LET s == Settle(u)
      r == RecoverUnused(s)
  IN IF u.live >= MaxLive THEN u
     ELSE IF ~s.authenticated THEN s
     ELSE IF r.loader = <<>> THEN r
     ELSE IF Head(r.loader) = Corrupt THEN Disconnect(r)
     ELSE QueueMessages(Adjust([r EXCEPT !.loader = Tail(@), !.queue = Append(@, Head(r.loader))],
                               Head(r.loader)))

\* The end of every call of the connection: its dispatch status, for which
\* messages are queued if there is none.
DispatchStatus(u) == IF u.queue # <<>> THEN u ELSE QueueMessages(u)

-----------------------------------------------------------------------------
(***************************************************************************)
(* Reading and writing.  An operator takes and returns the transport and   *)
(* the wire.                                                               *)
(***************************************************************************)
On(u, w) == [t |-> u, wire |-> w]

\* What one read() returns: a few items, not beyond the end of file.
Taken(w) ==
  LET n == CHOOSE k \in 0..Len(w) :
             /\ k <= ReadSize /\ \A i \in 1..k : w[i] # EndOfFile
             /\ k = ReadSize \/ k = Len(w) \/ w[k + 1] = EndOfFile
  IN SubSeq(w, 1, n)

Rest(w) == SubSeq(w, Len(Taken(w)) + 1, Len(w))

\* A read in the authentication phase may bring messages after the last
\* line: they stay in the conversation's buffer.
ReadDataIntoAuth(u, w) ==
  LET got == Taken(w)
      left == u.lines - 1
  IN IF Head(w) = EndOfFile THEN On(Disconnect(u), w)
     ELSE On([u EXCEPT !.lines = left, !.unused = Tail(got),
                !.auth = IF Head(w) = BadLine THEN "failed"
                         ELSE IF u.server /\ left = 0 THEN "done" ELSE "bytes"],
             Rest(w))

WriteDataFromAuth(u) ==
  [u EXCEPT !.auth = IF ~u.server /\ u.lines = 0 THEN "done" ELSE "input"]

ExchangeCredentials(s, reading, writing) ==
  LET u == s.t IN
  IF u.credentials = "send" /\ writing
  THEN On([u EXCEPT !.credentials = "done"], s.wire)
  ELSE IF u.credentials = "receive" /\ reading /\ s.wire # <<>>
  THEN IF Head(s.wire) = EndOfFile THEN On(Disconnect(u), s.wire)
       ELSE On([u EXCEPT !.credentials = "done"], s.wire)
  ELSE s

RECURSIVE AuthLoop(_, _, _)
AuthLoop(s, reading, writing) ==
  LET u == Settle(s.t)
      x == ExchangeCredentials(On(u, s.wire), reading, writing)
  IN IF u.authenticated \/ ~u.connected THEN On(u, s.wire)
     ELSE IF x.t.credentials # "done" \/ ~x.t.connected THEN x
     ELSE CASE x.t.auth = "input" /\ reading /\ x.wire # <<>> ->
                 AuthLoop(ReadDataIntoAuth(x.t, x.wire), reading, writing)
            [] x.t.auth = "bytes" /\ writing ->
                 AuthLoop(On(WriteDataFromAuth(x.t), x.wire), reading, writing)
            [] x.t.auth = "failed" -> On(Disconnect(x.t), x.wire)
            [] x.t.auth = "done" -> AuthLoop(x, reading, writing)
            [] OTHER -> x

DoAuthentication(s, reading, writing) ==
  IF Settle(s.t).authenticated THEN On(Settle(s.t), s.wire)
  ELSE LET x == AuthLoop(s, reading, writing)
       IN On(CheckWriteWatch(CheckReadWatch(x.t)), x.wire)

RECURSIVE DoReading(_, _)
DoReading(s, total) ==
  LET u == CheckReadWatch(s.t) IN
  IF ~Settle(s.t).authenticated THEN On(Settle(s.t), s.wire)
  ELSE IF total > ReadSize \/ ~u.connected \/ ~u.readWatch \/ s.wire = <<>> THEN On(u, s.wire)
  ELSE IF Head(s.wire) = EndOfFile THEN On(Disconnect(u), s.wire)
  ELSE DoReading(On(QueueMessages([u EXCEPT !.loader = @ \o Taken(s.wire)]), Rest(s.wire)),
                 total + Len(Taken(s.wire)))

\* The socket takes n messages before it would block.
DoWriting(u, n) ==
  IF u.authenticated /\ u.connected
  THEN [u EXCEPT !.outgoing = IF @ < n THEN 0 ELSE @ - n] ELSE u

-----------------------------------------------------------------------------
Server == [server |-> TRUE, lines |-> 2, auth |-> "input", credentials |-> "receive"]
Client == [server |-> FALSE, lines |-> 1, auth |-> "bytes", credentials |-> "send"]

Init ==
  /\ \E e \in {Server, Client}, w \in BOOLEAN :
       t = CheckWriteWatch(CheckReadWatch(
             [server |-> e.server, lines |-> e.lines, auth |-> e.auth,
              credentials |-> e.credentials, welcome |-> w,
              connected |-> TRUE, authenticated |-> FALSE, readWatch |-> FALSE,
              writeWatch |-> FALSE, unused |-> <<>>, loader |-> <<>>, live |-> 0,
              queue |-> <<>>, outgoing |-> 0]))
  /\ wire = <<>>
  /\ peer = [lines |-> t.lines, items |-> 0, open |-> TRUE]
  /\ held = <<>>
  /\ noMemory = 0

Becomes(s) == t' = s.t /\ wire' = s.wire

\* socket_handle_watch for the read watch: no reading right after the
\* conversation ended.
HandleReadWatch ==
  /\ t.connected /\ t.readWatch /\ wire # <<>>
  /\ LET a == DoAuthentication(On(t, wire), TRUE, FALSE)
         s == IF t.authenticated THEN DoReading(a, 0) ELSE a
     IN Becomes(On(DispatchStatus(s.t), s.wire))
  /\ UNCHANGED <<peer, held, noMemory>>

HandleWriteWatch ==
  /\ t.connected /\ t.writeWatch
  /\ \E n \in 1..2 :
       LET a == DoAuthentication(On(t, wire), FALSE, TRUE)
       IN Becomes(On(DispatchStatus(CheckWriteWatch(DoWriting(a.t, n))), a.wire))
  /\ UNCHANGED <<peer, held, noMemory>>

\* An error or a hang-up without data on the watch.
WatchError ==
  /\ t.connected /\ ~peer.open
  /\ t' = DispatchStatus(Disconnect(t))
  /\ UNCHANGED <<wire, peer, held, noMemory>>

\* dbus_connection_send queues a message and iterates for writing; the
\* iteration polls for what authentication waits for.
Send ==
  /\ t.connected /\ t.outgoing = 0
  /\ \E n \in 0..1 :
       LET u == [t EXCEPT !.outgoing = @ + 1]
           a == DoAuthentication(On(u, wire), wire # <<>> /\ ~t.authenticated, TRUE)
           d == IF t.authenticated THEN DoWriting(a.t, n) ELSE a.t
       IN Becomes(On(DispatchStatus(CheckWriteWatch(d)), a.wire))
  /\ UNCHANGED <<peer, held, noMemory>>

\* A blocking read iteration.
Iterate ==
  /\ t.connected /\ wire # <<>>
  /\ LET a == DoAuthentication(On(t, wire), TRUE, FALSE)
         s == IF t.authenticated THEN DoReading(a, 0) ELSE a
     IN Becomes(On(DispatchStatus(CheckWriteWatch(s.t)), s.wire))
  /\ UNCHANGED <<peer, held, noMemory>>

\* The message is unreferenced before the status is computed; a handler may
\* have kept a reference (the bus does while it waits to be written).
Dispatch ==
  /\ t.queue # <<>>
  /\ LET u == [t EXCEPT !.queue = Tail(@)] IN
     \/ held' = Append(held, Head(t.queue)) /\ t' = DispatchStatus(u)
     \/ held' = held /\ t' = DispatchStatus(Adjust(u, -Head(t.queue)))
  /\ UNCHANGED <<wire, peer, noMemory>>

\* The last reference to a message goes: its size is taken off the counter.
Finalize ==
  /\ held # <<>>
  /\ held' = Tail(held)
  /\ t' = Adjust(t, -Head(held))
  /\ UNCHANGED <<wire, peer, noMemory>>

\* No memory for an auth line: the same line is tried again by the next
\* event, for which both watches are enabled.
NoMemoryInAuth ==
  /\ noMemory < MaxNoMemory
  /\ t.connected /\ t.credentials = "done" /\ t.auth = "input" /\ wire # <<>>
  /\ Head(wire) # EndOfFile
  /\ t' = [t EXCEPT !.readWatch = TRUE, !.writeWatch = TRUE]
  /\ noMemory' = noMemory + 1
  /\ UNCHANGED <<wire, peer, held>>

Close ==
  /\ t.connected
  /\ t' = DispatchStatus(Disconnect(t))
  /\ UNCHANGED <<wire, peer, held, noMemory>>

PeerSendsLine ==
  /\ peer.open /\ peer.lines > 0
  /\ t.server => \/ peer.lines = 2
                 \/ t.lines = 1 /\ t.auth = "input"
  /\ ~t.server => t.auth = "input"
  /\ wire' = Append(wire, Line) \/ wire' = Append(wire, BadLine)
  /\ peer' = [peer EXCEPT !.lines = @ - 1]
  /\ UNCHANGED <<t, held, noMemory>>

PeerSends ==
  /\ peer.open /\ peer.lines = 0 /\ peer.items < MaxItems
  /\ ~t.server => t.auth = "done"
  /\ \E i \in Sizes \cup {Corrupt} : wire' = Append(wire, i)
  /\ peer' = [peer EXCEPT !.items = @ + 1]
  /\ UNCHANGED <<t, held, noMemory>>

PeerCloses ==
  /\ peer.open
  /\ wire' = Append(wire, EndOfFile)
  /\ peer' = [peer EXCEPT !.open = FALSE]
  /\ UNCHANGED <<t, held, noMemory>>

Next ==
  \/ HandleReadWatch \/ HandleWriteWatch \/ WatchError \/ Send \/ Iterate
  \/ Dispatch \/ Finalize \/ NoMemoryInAuth \/ Close
  \/ PeerSendsLine \/ PeerSends \/ PeerCloses

Spec == Init /\ [][Next]_vars

-----------------------------------------------------------------------------
Bytes(s) == FoldSeq(LAMBDA x, y : x + y, 0, s)

\* No message reaches the connection from a peer that is not authenticated
\* and welcome; the counter is the size of the messages queued or held; the
\* limit is exceeded by less than one message; and the watches are enabled
\* exactly when they are needed, however the limit was crossed
\* (check_read_watch, check_write_watch, _dbus_counter_adjust).
Backpressure ==
  /\ t.queue # <<>> \/ held # <<>> => t.authenticated /\ t.welcome
  /\ t.live = Bytes(t.queue) + Bytes(held)
  /\ \A n \in Sizes : (\A m \in Sizes : m <= n) => t.live < MaxLive + n
  /\ t.connected /\ noMemory = 0 => t.readWatch = NeedRead(t) /\ t.writeWatch = NeedWrite(t)
=============================================================================
