------------------------------ MODULE Dispatch ------------------------------
(***************************************************************************)
(* Routing of method calls and replies by the message bus: bus_dispatch    *)
(* (bus/dispatch.c), the security check every message passes (bus/bus.c),  *)
(* the list of pending replies (bus/connection.c) and its expiry           *)
(* (bus/expirelist.c).                                                     *)
(*                                                                         *)
(* The daemon handles one message at a time in one transaction, so one     *)
(* action is one message, one firing of the expiry timer or one            *)
(* disconnection.  A destination is given by the connection that owns the  *)
(* name; NoConn is a name nobody owns, Driver the bus itself.  What the    *)
(* policy rules say is a set of tuples <<sender, recipient, type,          *)
(* requested>>; whether a connection's outgoing queue is over its limit is *)
(* up to how fast the peer reads.                                          *)
(***************************************************************************)
EXTENDS Integers, FiniteSets

CONSTANTS
  Conns,       \* connections
  NoConn,      \* no owner
  Driver,      \* the bus driver as a sender or recipient
  Serials,     \* serial numbers clients use
  MaySend,     \* messages the sender's rules let out
  MayReceive,  \* messages the recipient's rules let in
  Slow,        \* connections whose outgoing queue may fill up
  MaxReplies,  \* max_replies_per_connection
  MaxOwed      \* bound: unanswered calls with one serial

Types == {"call", "reply"}
Route == (Conns \cup {Driver}) \X (Conns \cup {Driver}) \X Types \X BOOLEAN

ASSUME DispatchAssumption ==
  /\ {NoConn, Driver} \cap Conns = {} /\ NoConn # Driver
  /\ MaySend \subseteq Route /\ MayReceive \subseteq Route
  /\ Slow \subseteq Conns
  /\ MaxReplies \in Nat \ {0} /\ MaxOwed \in Nat

VARIABLES
  state,      \* "incomplete" until Hello, then "active", "gone" when freed
  connected,  \* connections whose transport is up
  full,       \* outgoing size above max_outgoing_bytes
  pending,    \* connections->pending_replies
  timer,      \* is the expiry timeout enabled
  owed        \* owed[c][s]: calls of c with serial s that want an answer, less
              \* the answers to serial s delivered to c

vars == <<state, connected, full, pending, timer, owed>>

(***************************************************************************)
(* BusPendingReply.  to is the callee; dropped says will_send_reply was    *)
(* set to NULL because the callee went away; due that expire_after has     *)
(* passed since the call, or that added_tv_sec was reset.                  *)
(***************************************************************************)
PendingReply == [get : Conns, to : Conns, serial : Serials,
                 dropped : BOOLEAN, due : BOOLEAN]

Expecting(a, b, s) ==
  {p \in pending : p.get = a /\ p.to = b /\ p.serial = s /\ ~p.dropped}

-----------------------------------------------------------------------------
(***************************************************************************)
(* Sending.  A message for a closed connection is dropped, one from the    *)
(* driver that the recipient may not get is eaten.                         *)
(***************************************************************************)
DriverReaches(a) ==
  a \in connected /\ a \notin full /\ <<Driver, a, "reply", TRUE>> \in MayReceive

Allowed(a, b, type, requested) ==
  /\ <<a, b, type, requested>> \in MaySend
  /\ <<a, b, type, requested>> \in MayReceive
  /\ b \notin full

\* The change of owed[a][s] by n calls and by one answer, if it is delivered.
Owe(a, s, n, answered) ==
  /\ n = 1 => owed[a][s] < MaxOwed
  /\ owed' = [owed EXCEPT ![a][s] = @ + n - (IF answered THEN 1 ELSE 0)]

\* Mutant: one pending reply more than the limit.
ExpectReplyRefusedLate(a, b, s) ==
  \/ Expecting(a, b, s) # {}
  \/ Cardinality({p \in pending : p.get = a}) > MaxReplies

ExpectReplyRefused(a, b, s) ==
  \/ Expecting(a, b, s) # {}
  \/ Cardinality({p \in pending : p.get = a}) >= MaxReplies

Refused(a, b, s, no_reply) ==
  \/ b = NoConn
  \/ ~Allowed(a, b, "call", FALSE)
  \/ ~no_reply /\ ExpectReplyRefused(a, b, s)

NewPending(a, b, s) ==
  [get |-> a, to |-> b, serial |-> s, dropped |-> FALSE, due |-> FALSE]

-----------------------------------------------------------------------------
Init ==
  /\ state = [c \in Conns |-> "incomplete"]
  /\ connected = Conns
  /\ full = {}
  /\ pending = {}
  /\ timer = FALSE
  /\ owed = [c \in Conns |-> [s \in Serials |-> 0]]

\* The only message an incomplete connection may send.
Hello(c) ==
  /\ state[c] = "incomplete"
  /\ state' = [state EXCEPT ![c] = "active"]
  /\ UNCHANGED <<connected, full, pending, timer, owed>>

\* Any other destination than the driver: the connection is closed.
NotRegistered(c) ==
  /\ state[c] = "incomplete"
  /\ connected' = connected \ {c}
  /\ UNCHANGED <<state, full, pending, timer, owed>>

\* A call to the bus itself is answered, with an error or a reply, at once.
CallDriver(a, s) ==
  /\ state[a] = "active"
  /\ Owe(a, s, 1, DriverReaches(a))
  /\ UNCHANGED <<state, connected, full, pending, timer>>

\* A call that is refused is answered with an error by the driver.
Call(a, b, s, no_reply) ==
  /\ state[a] = "active"
  /\ b # NoConn => state[b] = "active"
  /\ IF Refused(a, b, s, no_reply)
     THEN Owe(a, s, 1, DriverReaches(a)) /\ UNCHANGED <<pending, timer>>
     ELSE IF no_reply
     THEN UNCHANGED <<pending, timer, owed>>
     ELSE /\ Owe(a, s, 1, FALSE)
          /\ pending' = pending \cup {NewPending(a, b, s)}
          /\ timer' = TRUE
  /\ UNCHANGED <<state, connected, full>>

\* Memory runs out, before or after the reply was recorded.  The preallocated
\* error is sent and the transaction cancelled; the cancel hook takes the pending
\* reply back.  For a caller whose transport is closed there is no error, and the
\* transaction is executed as far as it got.
CallOom(a, b, s) ==
  /\ state[a] = "active"
  /\ b # NoConn => state[b] = "active"
  /\ Owe(a, s, 1, a \in connected)
  /\ \/ UNCHANGED <<pending, timer>>
     \/ /\ ~Refused(a, b, s, FALSE)
        /\ pending' = IF a \in connected THEN pending
                                         ELSE pending \cup {NewPending(a, b, s)}
        /\ timer' = TRUE
  /\ UNCHANGED <<state, connected, full>>

\* Mutant: the pending reply stays on the list.
ReplyKept(b, a, s) ==
  /\ state[b] = "active" /\ state[a] = "active"
  /\ Owe(a, s, 0, Allowed(b, a, "reply", Expecting(a, b, s) # {}) /\ a \in connected)
  /\ UNCHANGED <<state, connected, full, pending, timer>>

\* bus_connections_check_reply takes the pending reply off the list before the
\* rules and the limit are looked at.
Reply(b, a, s) ==
  /\ state[b] = "active" /\ state[a] = "active"
  /\ LET requested == Expecting(a, b, s) # {}
     IN  /\ pending' = pending \ Expecting(a, b, s)
         /\ Owe(a, s, 0, Allowed(b, a, "reply", requested) /\ a \in connected)
  /\ UNCHANGED <<state, connected, full, timer>>

\* Memory runs out after the pending reply was taken off: the cancel hook puts it
\* back, but the transaction of a replier whose transport is closed is executed.
ReplyOom(b, a, s) ==
  /\ state[b] = "active" /\ state[a] = "active"
  /\ Expecting(a, b, s) # {}
  /\ IF b \in connected
     THEN timer' = TRUE /\ UNCHANGED pending
     ELSE pending' = pending \ Expecting(a, b, s) /\ UNCHANGED timer
  /\ UNCHANGED <<state, connected, full, owed>>

-----------------------------------------------------------------------------
(***************************************************************************)
(* Expiry.                                                                 *)
(***************************************************************************)
TimePasses(p) ==
  /\ p \in pending /\ ~p.due
  /\ pending' = (pending \ {p}) \cup {[p EXCEPT !.due = TRUE]}
  /\ UNCHANGED <<state, connected, full, timer, owed>>

\* How many of the replies in P are for serial s of a.
NumberFor(P, a, s) == Cardinality({p \in P : p.get = a /\ p.serial = s})

\* Mutant: a reply whose error cannot be delivered is kept.
ExpireSomeDelivered(P) ==
  LET sent == {p \in P : DriverReaches(p.get)}
  IN  /\ timer
      /\ pending' = pending \ sent
      /\ owed' = [a \in Conns |-> [s \in Serials |-> owed[a][s] - NumberFor(sent, a, s)]]
      /\ timer' = (pending \ sent # {})
      /\ UNCHANGED <<state, connected, full>>

ExpireSome(P) ==
  /\ timer
  /\ pending' = pending \ P
  /\ owed' = [a \in Conns |-> [s \in Serials |->
                owed[a][s] - (IF DriverReaches(a) THEN NumberFor(P, a, s) ELSE 0)]]
  /\ timer' = (pending \ P # {})
  /\ UNCHANGED <<state, connected, full>>

Due == {p \in pending : p.due}

Expire == ExpireSome(Due)

\* Memory runs out: the rest, any part of the list here, is left for the next time.
ExpireOom ==
  /\ Due # {}
  /\ \E P \in SUBSET Due : P # Due /\ ExpireSome(P)

-----------------------------------------------------------------------------
(***************************************************************************)
(* The peers.                                                              *)
(***************************************************************************)
TransportClosed(c) ==
  /\ c \in connected
  /\ connected' = connected \ {c}
  /\ UNCHANGED <<state, full, pending, timer, owed>>

\* Mutant: the replies the connection was to send are dropped as well.
DropBothSides(c) == {p \in pending : p.get # c /\ p.to # c}

\* bus_connection_drop_pending_replies.
DropPendingReplies(c) ==
  {[p EXCEPT !.dropped = @ \/ p.to = c, !.due = @ \/ (p.to = c /\ ~p.dropped)] :
     p \in {q \in pending : q.get # c}}

Disconnected(c) ==
  /\ c \notin connected /\ state[c] # "gone"
  /\ state' = [state EXCEPT ![c] = "gone"]
  /\ full' = full \ {c}
  /\ pending' = DropPendingReplies(c)
  /\ timer' = (timer \/ \E p \in pending : p.get # c /\ p.to = c /\ ~p.dropped)
  /\ UNCHANGED <<connected, owed>>

QueueFills(c) ==
  /\ c \in Slow /\ c \in connected /\ c \notin full
  /\ full' = full \cup {c}
  /\ UNCHANGED <<state, connected, pending, timer, owed>>

QueueDrains(c) ==
  /\ c \in full
  /\ full' = full \ {c}
  /\ UNCHANGED <<state, connected, pending, timer, owed>>

Next ==
  \/ \E c \in Conns : \/ Hello(c)
                      \/ NotRegistered(c)
                      \/ TransportClosed(c)
                      \/ Disconnected(c)
                      \/ QueueFills(c)
                      \/ QueueDrains(c)
  \/ \E a \in Conns, s \in Serials : CallDriver(a, s)
  \/ \E a \in Conns, b \in Conns \cup {NoConn}, s \in Serials :
       \/ \E no_reply \in BOOLEAN : Call(a, b, s, no_reply)
       \/ CallOom(a, b, s)
  \/ \E a, b \in Conns, s \in Serials : Reply(b, a, s) \/ ReplyOom(b, a, s)
  \/ \E p \in pending : TimePasses(p)
  \/ Expire
  \/ ExpireOom

(***************************************************************************)
(* Time passes, the main loop runs the timeout when it is due, and memory  *)
(* does not run out for ever.                                              *)
(***************************************************************************)
Fairness ==
  /\ \A p \in PendingReply : WF_vars(TimePasses(p))
  /\ WF_vars(Expire)
  /\ \A c \in Conns : WF_vars(Disconnected(c))

Spec == Init /\ [][Next]_vars /\ Fairness

-----------------------------------------------------------------------------
(***************************************************************************)
(* Properties.                                                             *)
(***************************************************************************)

\* The shape of the pending replies and of the counts of calls and answers.
TypeOK ==
  /\ state \in [Conns -> {"incomplete", "active", "gone"}]
  /\ connected \subseteq Conns
  /\ full \subseteq Conns
  /\ pending \subseteq PendingReply
  /\ timer \in BOOLEAN
  /\ owed \in [Conns -> [Serials -> Int]]

\* A pending reply never refers to a connection that was freed, one that lost
\* its callee is to expire, two never stand for the same caller, callee and
\* serial, nobody has more of them than max_replies_per_connection, and the
\* expiry timeout is enabled whenever there is something to expire, after every
\* order of adding, answering, cancelling, expiring and dropping.
PendingSound ==
  /\ TypeOK
  /\ \A p \in pending :
       /\ state[p.get] = "active"
       /\ IF p.dropped THEN state[p.to] = "gone" /\ p.due ELSE state[p.to] = "active"
  /\ \A p, q \in pending :
       p.get = q.get /\ p.to = q.to /\ p.serial = q.serial => p = q
  /\ \A c \in Conns : Cardinality({p \in pending : p.get = c}) <= MaxReplies
  /\ pending # {} => timer

StrictPolicy ==
  \A a, b \in Conns : <<a, b, "reply", FALSE>> \notin MaySend \cap MayReceive

\* Where the rules only let requested replies through, a caller never gets more
\* answers than it made calls, whatever repliers send and whether the reply, the
\* expiry of the call or an error comes first; and the answer to every call that
\* is still pending is yet to come.
NoSpuriousAnswer ==
  StrictPolicy =>
    \A a \in Conns, s \in Serials : NumberFor(pending, a, s) <= owed[a][s]

OpenTo(a) ==
  /\ a \notin Slow
  /\ <<Driver, a, "reply", TRUE>> \in MayReceive
  /\ \A b \in Conns : <<b, a, "reply", TRUE>> \in MaySend \cap MayReceive

\* No answer is lost for a caller that may receive replies and reads its
\* messages: in every step, what it is owed stays equal to what is pending for
\* it.  The one exception is memory running out on the reply of a replier that
\* has gone, whose transaction bus_dispatch does not cancel.
NoAnswerLost ==
  [][\A a \in connected', s \in Serials :
       StrictPolicy /\ OpenTo(a) =>
         \/ owed'[a][s] - NumberFor(pending', a, s) = owed[a][s] - NumberFor(pending, a, s)
         \/ \E b \in Conns \ connected : ReplyOom(b, a, s)]_vars

\* No pending reply stays for ever, even if the callee never answers, the caller
\* never reads or a callee goes away.
PendingEnds ==
  \A a, b \in Conns, s \in Serials :
    (\E p \in pending : p.get = a /\ p.to = b /\ p.serial = s)
      ~> ~(\E p \in pending : p.get = a /\ p.to = b /\ p.serial = s)
=============================================================================
