---------------------------- MODULE PendingCalls ----------------------------
(***************************************************************************)
(* What libdbus promises of blocking method calls: a call is refused or    *)
(* sent; once sent it is completed once, by a reply, by a timeout or by    *)
(* the loss of the connection, and then returned to its caller.            *)
(***************************************************************************)
CONSTANTS Callers, Results

VARIABLES state, result, crashed

vars == <<state, result, crashed>>

Init ==
  /\ state \in [Callers -> {"unsent", "refused"}]
  /\ result = [c \in Callers |-> "none"]
  /\ crashed = FALSE

Move(c, from, to) == ~crashed /\ state[c] = from /\ state' = [state EXCEPT ![c] = to]

Send(c)   == Move(c, "unsent", "waiting") /\ UNCHANGED <<result, crashed>>
Refuse(c) == Move(c, "unsent", "refused") /\ UNCHANGED <<result, crashed>>

Complete(c) ==
  /\ Move(c, "waiting", "completed")
  /\ \E r \in Results : result' = [result EXCEPT ![c] = r]
  /\ UNCHANGED crashed

Return(c) == Move(c, "completed", "returned") /\ UNCHANGED <<result, crashed>>

Crash == ~crashed /\ crashed' = TRUE /\ UNCHANGED <<state, result>>

Next ==
  \/ Crash
  \/ \E c \in Callers : Send(c) \/ Refuse(c) \/ Complete(c) \/ Return(c)

Safety == Init /\ [][Next]_vars

Spec ==
  /\ Safety
  /\ \A c \in Callers : WF_vars(Complete(c)) /\ WF_vars(Return(c))
=============================================================================
