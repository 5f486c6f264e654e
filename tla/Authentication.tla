--------------------------- MODULE Authentication ---------------------------
(***************************************************************************)
(* The authentication conversation of dbus/dbus-auth.c: the client's and   *)
(* the server's state machine, the mechanisms EXTERNAL, DBUS_COOKIE_SHA1   *)
(* and ANONYMOUS, and the lines between them.  Either end may also be      *)
(* another implementation, which sends any command at any time.            *)
(*                                                                         *)
(* A line is a command with its arguments; how it is cut out of the byte   *)
(* stream and how data is hex encoded is left out, but for the arguments   *)
(* that do not decode.  A handler that runs out of memory is called again  *)
(* with the same line: what it changed before stays changed.               *)
(***************************************************************************)
EXTENDS Integers, Sequences, FiniteSets, SequencesExt

CONSTANTS
  Me,           \* the user of the client process
  Other,        \* another user
  MaxFailures,  \* rejections before the server disconnects, 6 in the code
  MaxBuffer,    \* lines an end buffers before it disconnects
  MaxNoMemory   \* how often memory runs out in one conversation

AuthAssumption == MaxFailures \in Nat \ {0} /\ MaxBuffer \in Nat \ {0}

VARIABLES
  ends,       \* which ends are this library's
  client,     \* DBusAuthClient
  server,     \* DBusAuthServer
  toServer,   \* lines on their way to the server
  toClient,   \* lines on their way to the client
  noMemory,   \* how often memory ran out
  world       \* what the ends can know: credentials, keyrings, mechanisms

vars == <<ends, client, server, toServer, toClient, noMemory, world>>

Mechanisms == <<"EXTERNAL", "COOKIE", "ANONYMOUS">>

\* Decoded arguments of DATA and AUTH: "proof" is the right answer to the
\* server's challenge, "wrong" another one, "bad" does not decode.
Data == {"", Me, Other, "proof", "wrong", "bad"}

Line(c) == [cmd |-> c, mech |-> "", data |-> ""]
AuthLine(m, d) == [cmd |-> "AUTH", mech |-> m, data |-> d]
DataLine(d) == [cmd |-> "DATA", mech |-> "", data |-> d]

EndStates == {"Authenticated", "NeedDisconnect", "Closed"}

\* What a handler may do: the new end, the lines sent, was there memory.
Done(e, out) == {[end |-> e, out |-> out, mem |-> TRUE]}
NoMem(es) == {[end |-> e, out |-> <<>>, mem |-> FALSE] : e \in es}

-----------------------------------------------------------------------------
(***************************************************************************)
(* The server.                                                             *)
(***************************************************************************)
ServerNew == [state |-> "WaitingForAuth", mech |-> "", identity |-> "", desired |-> {},
              authorized |-> {}, cookie |-> FALSE, asked |-> FALSE, failures |-> 0]

ShutdownMech(s) ==
  [s EXCEPT !.mech = "", !.identity = "", !.desired = {}, !.authorized = {},
            !.asked = FALSE, !.cookie = IF s.mech = "COOKIE" THEN FALSE ELSE @]

\* The mechanism shut down is the one of the conversation, if there is one.
SendRejected(s) ==
  Done([ShutdownMech(s) EXCEPT !.failures = @ + 1,
          !.state = IF s.failures + 1 >= MaxFailures
                    THEN "NeedDisconnect" ELSE "WaitingForAuth"],
       <<Line("REJECTED")>>) \cup NoMem({s})

SendError(e) == Done(e, <<Line("ERROR")>>) \cup NoMem({e})

SendOk(s) ==
  Done([s EXCEPT !.state = "WaitingForBegin"], <<Line("OK")>>) \cup NoMem({s})

AddFromUser(d) == IF d \in world.users THEN {d} ELSE {}

ServerDataExternal(s, d) ==
  LET t == IF d # "" THEN [s EXCEPT !.identity = d] ELSE s
      u == [t EXCEPT !.desired = IF t.identity = "" THEN world.credentials
                                 ELSE AddFromUser(t.identity)]
      v == [u EXCEPT !.authorized = u.desired]
  IN IF world.credentials = {} \/ (d # "" /\ s.identity # "")
     THEN SendRejected(s)
     ELSE NoMem({s, t}) \cup
          IF t.identity = "" /\ ~t.asked
          THEN Done([t EXCEPT !.asked = TRUE, !.state = "WaitingForData"], <<DataLine("")>>)
          ELSE IF u.desired # {} /\ u.desired \subseteq world.credentials
          THEN NoMem({u}) \cup SendOk(v)
          ELSE SendRejected(u)

\* The first response names the user whose keyring holds the cookie; the
\* challenge is sent once a key is found.
Sha1HandleFirstClientResponse(s, d) ==
  LET t == IF d # "" THEN [s EXCEPT !.identity = d] ELSE s
      u == [t EXCEPT !.desired = @ \cup AddFromUser(d)]
      v == [u EXCEPT !.cookie = TRUE]
  IN IF d # "" /\ s.identity # "" THEN SendRejected(s)
     ELSE NoMem({s}) \cup
          IF AddFromUser(d) = {} THEN SendRejected(t)
          ELSE NoMem({u}) \cup
               IF ~world.serverKeyring THEN SendRejected(u)
               ELSE NoMem({v}) \cup
                    Done([v EXCEPT !.state = "WaitingForData"], <<DataLine("challenge")>>)

\* The second must be the client's challenge and the hash of both and the
\* cookie.
Sha1HandleSecondClientResponse(s, d) ==
  LET t == [s EXCEPT !.authorized = @ \cup s.desired]
  IN IF d # "proof" THEN SendRejected(s)
     ELSE NoMem({s}) \cup SendOk(t)

ServerDataCookie(s, d) ==
  IF s.cookie THEN Sha1HandleSecondClientResponse(s, d)
  ELSE Sha1HandleFirstClientResponse(s, d)

ServerDataAnonymous(s, d) ==
  IF d = "wrong" THEN SendRejected(s)
  ELSE SendOk([s EXCEPT !.desired = {}])

ServerData(s, d) ==
  IF d = "bad" THEN SendError(s)
  ELSE CASE s.mech = "EXTERNAL"  -> ServerDataExternal(s, d)
         [] s.mech = "COOKIE"    -> ServerDataCookie(s, d)
         [] s.mech = "ANONYMOUS" -> ServerDataAnonymous(s, d)

FindMech(m) == m \in ToSet(Mechanisms) /\ m \in world.allowed

\* handle_auth forgets the mechanism when memory runs out.
HandleAuth(s, line) ==
  LET forget(os) == {IF o.mem THEN o ELSE [o EXCEPT !.end.mech = ""] : o \in os}
  IN IF FindMech(line.mech)
     THEN forget(ServerData([s EXCEPT !.mech = line.mech], line.data))
     ELSE forget(SendRejected([s EXCEPT !.mech = ""]))

ServerWaitingForAuth(s, line) ==
  CASE line.cmd = "AUTH" -> HandleAuth(s, line)
    [] line.cmd = "BEGIN" -> Done([s EXCEPT !.state = "NeedDisconnect"], <<>>)
    [] line.cmd = "ERROR" -> SendRejected(s)
    [] OTHER -> SendError(s)

ServerWaitingForData(s, line) ==
  CASE line.cmd \in {"CANCEL", "ERROR"} -> SendRejected(s)
    [] line.cmd = "DATA" -> ServerData(s, line.data)
    [] line.cmd = "BEGIN" -> Done([s EXCEPT !.state = "NeedDisconnect"], <<>>)
    [] OTHER -> SendError(s)

ServerWaitingForBegin(s, line) ==
  CASE line.cmd = "BEGIN" -> Done([s EXCEPT !.state = "Authenticated"], <<>>)
    [] line.cmd \in {"CANCEL", "ERROR"} -> SendRejected(s)
    [] OTHER -> SendError(s)

HandleServer(s, line) ==
  CASE s.state = "WaitingForAuth"  -> ServerWaitingForAuth(s, line)
    [] s.state = "WaitingForData"  -> ServerWaitingForData(s, line)
    [] s.state = "WaitingForBegin" -> ServerWaitingForBegin(s, line)

-----------------------------------------------------------------------------
(***************************************************************************)
(* The client.                                                             *)
(***************************************************************************)
InitialResponse(m) ==
  CASE m \in {"EXTERNAL", "COOKIE"} -> Me [] OTHER -> "trace"

SendAuth(c, m) ==
  Done([c EXCEPT !.mech = m, !.state = "WaitingForData"],
       <<AuthLine(m, InitialResponse(m))>>) \cup NoMem({c})

\* EXTERNAL is the one tried first and is not tried again.
RecordMechanisms(c) ==
  IF c.gotMechanisms THEN c
  ELSE [c EXCEPT !.gotMechanisms = TRUE, !.toTry = Tail(Mechanisms)]

ProcessRejected(c) ==
  LET d == RecordMechanisms(c) IN
  NoMem({c, d}) \cup
  IF d.toTry = <<>> THEN Done([d EXCEPT !.state = "NeedDisconnect"], <<>>)
  ELSE {IF o.mem THEN [o EXCEPT !.end.toTry = Tail(@)] ELSE o : o \in SendAuth(d, Head(d.toTry))}

SendBegin(c, line) ==
  IF line.data = "bad" THEN Done([c EXCEPT !.state = "NeedDisconnect"], <<>>)
  ELSE Done([c EXCEPT !.state = "Authenticated"], <<Line("BEGIN")>>) \cup NoMem({c})

SendCancel(c) ==
  Done([c EXCEPT !.state = "WaitingForReject"], <<Line("CANCEL")>>) \cup NoMem({c})

\* Mutant: a client without the cookie says nothing.
ClientDataCookieQuiet(c, d) ==
  IF d = "challenge" /\ world.clientKeyring THEN Done(c, <<DataLine("proof")>>) ELSE Done(c, <<>>)
ClientDataCookie(c, d) ==
  IF d = "challenge" /\ world.clientKeyring
  THEN Done(c, <<DataLine("proof")>>) \cup NoMem({c})
  ELSE SendError(c)

\* The client answers no DATA in EXTERNAL and ANONYMOUS.
ClientData(c, d) ==
  IF d = "bad" THEN SendError(c)
  ELSE IF c.mech = "COOKIE" THEN ClientDataCookie(c, d)
  ELSE Done(c, <<>>)

ClientWaitingForData(c, line) ==
  CASE line.cmd = "DATA" -> ClientData(c, line.data)
    [] line.cmd = "REJECTED" -> ProcessRejected(c)
    [] line.cmd = "OK" -> SendBegin(c, line)
    [] line.cmd = "ERROR" -> SendCancel(c)
    [] OTHER -> SendError(c)

ClientWaitingForReject(c, line) ==
  IF line.cmd = "REJECTED" THEN ProcessRejected(c)
  ELSE Done([c EXCEPT !.state = "NeedDisconnect"], <<>>)

HandleClient(c, line) ==
  CASE c.state = "WaitingForData"   -> ClientWaitingForData(c, line)
    [] c.state = "WaitingForReject" -> ClientWaitingForReject(c, line)

\* client_state_waiting_for_ok is never entered.
ClientNew == [state |-> "WaitingForData", mech |-> "EXTERNAL", toTry |-> <<>>,
              gotMechanisms |-> FALSE]

-----------------------------------------------------------------------------
Init ==
  /\ ends \in {{"client", "server"}, {"client"}, {"server"}}
  /\ world \in [users : {{Me, Other}, {Other}},
                credentials : {{}, {Me}, {Other}},
                serverKeyring : BOOLEAN, clientKeyring : BOOLEAN,
                allowed : {ToSet(Mechanisms), {"COOKIE"}}]
  /\ "client" \notin ends => world.clientKeyring /\ world.users = {Me, Other}
  /\ "server" \notin ends => world.serverKeyring /\ world.credentials = {} /\ world.users = {Me, Other}
  /\ client = ClientNew /\ server = ServerNew
  /\ toServer = IF "client" \in ends THEN <<AuthLine("EXTERNAL", Me)>> ELSE <<>>
  /\ toClient = <<>>
  /\ noMemory = 0

\* _dbus_auth_do_work: one line after the other until an end state.
ServerWork ==
  /\ "server" \in ends /\ server.state \notin EndStates /\ toServer # <<>>
  /\ \E o \in HandleServer(server, Head(toServer)) :
       /\ ~o.mem => noMemory < MaxNoMemory
       /\ server' = o.end
       /\ toServer' = IF o.mem THEN Tail(toServer) ELSE toServer
       /\ toClient' = toClient \o o.out
       /\ noMemory' = noMemory + IF o.mem THEN 0 ELSE 1
  /\ UNCHANGED <<ends, client, world>>

ClientWork ==
  /\ "client" \in ends /\ client.state \notin EndStates /\ toClient # <<>>
  /\ \E o \in HandleClient(client, Head(toClient)) :
       /\ ~o.mem => noMemory < MaxNoMemory
       /\ client' = o.end
       /\ toClient' = IF o.mem THEN Tail(toClient) ELSE toClient
       /\ toServer' = toServer \o o.out
       /\ noMemory' = noMemory + IF o.mem THEN 0 ELSE 1
  /\ UNCHANGED <<ends, server, world>>

\* Too much buffered: disconnect.
ServerOverflow ==
  /\ "server" \in ends /\ server.state \notin EndStates /\ Len(toServer) > MaxBuffer
  /\ server' = [server EXCEPT !.state = "NeedDisconnect"]
  /\ UNCHANGED <<ends, client, toServer, toClient, noMemory, world>>

\* do_authentication closes the socket once what is left was written; the
\* other end sees the end of file after the lines before it.
ServerCloses ==
  /\ "server" \in ends /\ server.state # "Closed"
  /\ \/ server.state = "NeedDisconnect"
     \/ "client" \in ends /\ client.state = "Closed" /\ toServer = <<>>
        /\ server.state # "Authenticated"
  /\ server' = [server EXCEPT !.state = "Closed"]
  /\ UNCHANGED <<ends, client, toServer, toClient, noMemory, world>>

ClientCloses ==
  /\ "client" \in ends /\ client.state # "Closed"
  /\ \/ client.state = "NeedDisconnect"
     \/ "server" \in ends /\ server.state = "Closed" /\ toClient = <<>>
  /\ client' = [client EXCEPT !.state = "Closed"]
  /\ UNCHANGED <<ends, server, toServer, toClient, noMemory, world>>

\* Another implementation talks to ours.
ForeignClient ==
  /\ "client" \notin ends /\ toServer = <<>> /\ server.state \notin EndStates
  /\ \E l \in {AuthLine(m, d) : m \in ToSet(Mechanisms) \cup {""}, d \in Data}
              \cup {DataLine(d) : d \in Data}
              \cup {Line(c) : c \in {"CANCEL", "BEGIN", "ERROR", "OK"}} :
       toServer' = <<l>>
  /\ toClient' = <<>>
  /\ UNCHANGED <<ends, client, server, noMemory, world>>

\* It sends without waiting for answers.
ForeignFlood ==
  /\ "client" \notin ends /\ toServer = <<>> /\ server.state \notin EndStates
  /\ toServer' = [i \in 1..(MaxBuffer + 1) |-> Line("CANCEL")]
  /\ toClient' = <<>>
  /\ UNCHANGED <<ends, client, server, noMemory, world>>

ForeignServer ==
  /\ "server" \notin ends /\ toClient = <<>> /\ client.state \notin EndStates
  /\ \E l \in {DataLine(d) : d \in {"", "challenge", "bad"}} \cup {Line(c) :
               c \in {"REJECTED", "OK", "ERROR", "BEGIN"}} \cup {[Line("OK") EXCEPT !.data = "bad"]} :
       toClient' = <<l>>
  /\ toServer' = <<>>
  /\ UNCHANGED <<ends, client, server, noMemory, world>>

Next ==
  \/ ServerWork \/ ClientWork \/ ServerOverflow \/ ServerCloses \/ ClientCloses
  \/ ForeignClient \/ ForeignFlood \/ ForeignServer

Progress == ServerWork \/ ClientWork \/ ServerCloses \/ ClientCloses
Fairness == WF_vars(Progress)
Spec == Init /\ [][Next]_vars /\ Fairness

-----------------------------------------------------------------------------
\* The server authenticates nobody who proved nothing: what it authorized
\* are users of the socket's credentials, or the one whose cookie the client
\* knew, or nobody, with a mechanism it allows, whatever commands came in
\* whatever order and wherever memory ran out.  And a client of this library
\* that takes itself to be authenticated has the server's OK.
AuthSound ==
  /\ server.state \in {"WaitingForBegin", "Authenticated"} =>
       /\ server.mech \in world.allowed
       /\ server.mech = "EXTERNAL" => server.authorized \subseteq world.credentials
       /\ server.mech = "COOKIE" =>
            server.cookie /\ world.serverKeyring /\ server.authorized = {server.identity}
       /\ server.mech = "ANONYMOUS" => server.authorized = {}
  /\ ends = {"client", "server"} /\ client.state = "Authenticated" =>
       server.state = "Authenticated" \/
       (server.state = "WaitingForBegin" /\ toServer = <<Line("BEGIN")>>)

\* Two ends of this library come to an end, authenticated or disconnected;
\* they never wait for each other (the comment at the top of dbus-auth.c
\* says they sometimes do).
ConversationEnds ==
  ends = {"client", "server"} ~> client.state \in EndStates /\ server.state \in EndStates
=============================================================================
