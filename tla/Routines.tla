------------------------------ MODULE Routines ------------------------------
(***************************************************************************)
(* The discipline that the sequential C code of D-Bus follows: a function  *)
(* takes resources one by one, any of these steps may fail, and a function *)
(* that fails releases what it holds and reports why in the DBusError it   *)
(* was given.  The machine below runs any routine of the table Code, with  *)
(* a failure at any step that can fail.                                    *)
(***************************************************************************)
EXTENDS Integers, Sequences, FiniteSets

CONSTANT Code   \* name -> routine (module Routine)

VARIABLES
  name,     \* the routine
  pc,       \* the next step
  held,     \* resources held
  error,    \* the DBusError is set
  status,   \* "runs", "done", "failed"
  promise,  \* what is to be held at the end
  faults    \* released what was not held, took what was held, set an error twice

vars == <<name, pc, held, error, status, promise, faults>>

Body == Code[name].steps
Now == Body[pc]

Init ==
  /\ name \in DOMAIN Code
  /\ pc = 1
  /\ held = Code[name].takes
  /\ error = FALSE
  /\ status = "runs"
  /\ promise = Code[name].gives
  /\ faults = {}

Running == status = "runs" /\ pc \in DOMAIN Body

\* The step goes the way the code tests for, or the other way.
MayPass == Now.falls /\ Now.needs \subseteq held
MayTurn == Now.needs = {} \/ ~(Now.needs \subseteq held)

Fault(kind, condition) == IF condition THEN {kind} ELSE {}

Succeed ==
  /\ Running /\ MayPass
  /\ held' = ((held \ Now.put) \ Now.drop) \cup Now.get
  /\ faults' = faults
       \cup Fault("released twice", ~(Now.put \subseteq held))
       \cup Fault("overwritten", ~(Now.get \cap ((held \ Now.put) \ Now.drop)
                                     \subseteq Code[name].leaks))
  /\ error' = (error /\ ~Now.clears)
  /\ pc' = pc + 1
  /\ UNCHANGED <<name, status, promise>>

\* It fails, and the routine leaves along the error path.
Fail ==
  /\ Running /\ Now.fails /\ MayTurn
  /\ held' = (held \ Now.must) \ Now.may
  /\ faults' = faults
       \cup Fault("released twice", ~(Now.must \subseteq held))
       \cup Fault("error set twice", error /\ Now.sets)
  /\ error' = (error \/ Now.sets)
  /\ status' = "failed"
  /\ promise' = {}
  /\ UNCHANGED <<name, pc>>

\* It goes on somewhere else; a failed attempt sets the error.
Turn ==
  /\ Running /\ Now.jump # 0 /\ MayTurn
  /\ pc' = pc + Now.jump
  /\ faults' = faults \cup Fault("error set twice", error /\ Now.sets)
  /\ error' = (error \/ Now.sets)
  /\ UNCHANGED <<name, held, status, promise>>

LeaveEarly ==
  /\ Running /\ Now.leaves
  /\ status' = "done"
  /\ promise' = Now.get
  /\ UNCHANGED <<name, pc, held, error, faults>>

Finish ==
  /\ status = "runs" /\ pc = Len(Body) + 1
  /\ status' = "done"
  /\ UNCHANGED <<name, pc, held, error, promise, faults>>

Next == Succeed \/ Fail \/ Turn \/ LeaveEarly \/ Finish

Spec == Init /\ [][Next]_vars

-----------------------------------------------------------------------------
\* However far a function got, it leaves behind what it promised, nothing if
\* it failed, and released nothing that it did not hold.
NoLeak ==
  /\ faults \cap {"released twice", "overwritten"} = {}
  /\ pc \in 1..(Len(Body) + 1)
  /\ status # "runs" => held \ Code[name].leaks = promise \ Code[name].leaks

\* A function that reports errors has set its DBusError exactly when it
\* fails, and never sets one that is set.
ErrorContract ==
  /\ "error set twice" \notin faults
  /\ status = "done" => ~error \/ Code[name].careless
  /\ status = "failed" /\ Code[name].reports => error \/ Code[name].careless
=============================================================================
