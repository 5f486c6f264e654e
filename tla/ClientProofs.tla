---------------------------- MODULE ClientProofs ----------------------------
(***************************************************************************)
(* A connection shared by any number of threads loses no wake-up, counts   *)
(* its queue right and completes every call at most once: the safety part  *)
(* of the refinement of PendingCalls.                                      *)
(***************************************************************************)
EXTENDS ClientConnection, FiniteSetTheorems, WellFoundedInduction, NaturalsInduction, TLAPS

-----------------------------------------------------------------------------
(***************************************************************************)
(* Where threads can be.                                                   *)
(***************************************************************************)
Waits  == {"waitIo", "waitIoTimed", "retryIo", "waitDispatch"}
Sleeps == {"sleepIo", "sleepIoTimed", "sleepDispatch"}
IoPath == {"waitIo", "waitIoTimed", "retryIo", "sleepIo", "sleepIoTimed", "poll", "read", "unarm"}
Status == {"status", "drain", "drainTimer"}
Ends   == {"detach", "notify"}

CallerLabels ==
  IoPath \cup Status \cup Ends \cup
    {"idle", "refused", "attach", "write", "forget", "block", "flush", "check", "recheck",
     "judge", "last", "steal", "done"}

LoopLabels ==
  Status \cup Ends \cup
    {"idle", "refused", "waitIo", "sleepIo", "read", "unarm", "watched", "fireTimer", "dispatch",
     "waitDispatch", "sleepDispatch", "pop", "handlers", "dispatched", "forget"}

Labels == CallerLabels \cup LoopLabels
Labeled == [at : Labels, ret : Labels, next : Labels, arg : Callers \cup {Nobody},
            flags : SUBSET {"r", "w"}]
CallType == [attached : BOOLEAN, timeout_added : BOOLEAN, timeout_link : BOOLEAN,
             reply : Results \cup {"none"}, completed : BOOLEAN]
Notes == [kind : Results, serial : Callers \cup {Nobody}]

TypeOK ==
  /\ thread \in [Threads -> Labeled]
  /\ call \in [Callers -> CallType]
  /\ incoming \in Seq(Notes)
  /\ n_incoming \in Int

\* What a thread knows of its way: where it returns to and the call it works on.
Sane(t) ==
  LET w == thread[t] IN
  /\ t \in Callers => w.at \in CallerLabels
  /\ t \in Loops => w.at \in LoopLabels
  /\ w.at \in IoPath => w.ret \in (IF t \in Callers THEN {"flush", "recheck"} ELSE {"watched"})
  /\ w.at \in Status => w.next \in (IF t \in Callers THEN {"block", "check", "judge", "steal"}
                                                     ELSE {"idle", "dispatch"})
  /\ w.at \in Ends => w.ret \in (IF t \in Callers THEN {"last", "steal"} ELSE {"dispatched"})
  /\ w.at = "forget" => w.ret = (IF t \in Callers THEN "refused" ELSE "idle")
  /\ w.at \in Ends \cup {"forget", "unarm", "fireTimer", "drainTimer"} => w.arg \in Callers
  /\ t \in Callers /\ w.at \in Ends => w.arg = t

\* The stages of a call, by where its caller is.
Unsent == {"idle", "attach", "forget"}
Pre == Unsent \cup {"refused"}

\* What a thread's place says of the calls: one that is past its completion, or
\* in the middle of one.
Timely(t) ==
  LET w == thread[t] IN
  /\ w.at \in {"last", "steal", "done"} => call[t].completed
  /\ w.at \in Status /\ w.next = "steal" => call[t].completed
  /\ w.at \in Ends => call[w.arg].reply \in Results /\ thread[w.arg].at \notin Pre

\* What a call's state says of its caller.
CallOk(c) ==
  /\ call[c].attached \/ call[c].completed => thread[c].at \notin Pre
  /\ call[c].completed => call[c].reply \in Results

Unarming == {t \in Threads : thread[t].at = "unarm"}
Counted == n_incoming = Len(incoming) - Cardinality(Unarming)

Inv ==
  /\ TypeOK
  /\ \A t \in Threads : Sane(t) /\ Timely(t)
  /\ \A c \in Callers : CallOk(c)
  /\ NoLostWakeup
  /\ Counted

\* What the calls do in a step is a step of PendingCalls, or nothing.
Refines == Abstract!Next \/ UNCHANGED Abstract!vars

-----------------------------------------------------------------------------
(***************************************************************************)
(* How threads move.                                                       *)
(***************************************************************************)
Others(t) == \A u \in Threads \ {t} : thread'[u] = thread[u]

\* Thread t is at l, with the rest of what it knows given.
Lands(t, l, r, n, a) ==
  /\ thread' \in [Threads -> Labeled] /\ Others(t)
  /\ thread'[t].at = l /\ thread'[t].ret = r /\ thread'[t].next = n /\ thread'[t].arg = a

\* A thread goes to another place.
LEMMA GoLands ==
  ASSUME TypeOK, NEW t \in Threads, NEW l \in Labels, Go(t, l)
  PROVE  Lands(t, l, thread[t].ret, thread[t].next, thread[t].arg)
  BY Zenon DEF TypeOK, Go, Lands, Others, Labeled

\* A thread goes to another place and forgets its way.
LEMMA FreshLands ==
  ASSUME TypeOK, NEW t \in Threads, NEW l \in Labels, GoFresh(t, l)
  PROVE  Lands(t, l, "idle", "idle", Nobody)
  BY Zenon DEF TypeOK, GoFresh, Fresh, Start, Lands, Others, Labeled, Labels, CallerLabels

\* A thread goes along the I/O path and knows where to return.
LEMMA IoLands ==
  ASSUME TypeOK, NEW t \in Threads, NEW l \in Labels, NEW r \in Labels,
         NEW f \in SUBSET {"r", "w"}, GoIo(t, l, r, f)
  PROVE  Lands(t, l, r, thread[t].next, thread[t].arg)
  BY ZenonT(40) DEF TypeOK, GoIo, Lands, Others, Labeled

\* A thread goes on with a call.
LEMMA ArgLands ==
  ASSUME TypeOK, NEW t \in Threads, NEW l \in Labels, NEW r \in Labels,
         NEW c \in Callers, GoArg(t, l, r, c)
  PROVE  Lands(t, l, r, thread[t].next, c)
  BY ZenonT(40) DEF TypeOK, GoArg, Lands, Others, Labeled

\* A thread whose action ends in get_dispatch_status goes on, or has the
\* disconnection to see to first.
LEMMA StatusLands ==
  ASSUME TypeOK, NEW t \in Threads, NEW l \in Labels, AfterStatus(t, l)
  PROVE  Lands(t, l, "idle", "idle", Nobody) \/ Lands(t, "status", "idle", l, Nobody)
<1>1. CASE StatusKnown
  <2>1. GoFresh(t, l)
    BY <1>1, Zenon DEF AfterStatus, GoFresh
  <2> QED
    BY <2>1, FreshLands, Zenon
<1>2. CASE ~StatusKnown
  <2>1. thread' = [thread EXCEPT ![t] = [Fresh("status") EXCEPT !.next = l]]
    BY <1>2, Zenon DEF AfterStatus
  <2> QED
    BY <2>1, Zenon
       DEF TypeOK, Fresh, Start, Lands, Others, Labeled, Labels, CallerLabels, Status
<1> QED
  BY <1>1, <1>2, Zenon

-----------------------------------------------------------------------------
(***************************************************************************)
(* What a step keeps.                                                      *)
(***************************************************************************)

\* A thread that was not about to take the path and does not go to sleep loses
\* nobody's wake-up.
LEMMA WakeKept ==
  ASSUME NoLostWakeup, NEW t \in Threads, Others(t), UNCHANGED <<io, dispatcher>>,
         thread[t].at \notin Waits, thread'[t].at \notin Sleeps
  PROVE  NoLostWakeup'
  BY Zenon DEF NoLostWakeup, Others, Waits, Sleeps

\* The number of messages queued and not counted is finite.
LEMMA UnarmingFinite ==
  ASSUME NEW T \in SUBSET Threads
  PROVE  IsFiniteSet(T) /\ Cardinality(T) \in Nat
  BY ClientAssumption, FS_Subset, FS_CardinalityType, Zenon

\* The count stays right when it changes with the queue.
LEMMA CountKept ==
  ASSUME TypeOK, Counted, NEW t \in Threads, Others(t),
         thread[t].at = "unarm" <=> thread'[t].at = "unarm",
         incoming' \in Seq(Notes), n_incoming' \in Int,
         n_incoming' - Len(incoming') = n_incoming - Len(incoming)
  PROVE  Counted'
<1>1. Unarming' = Unarming
  BY Zenon DEF Unarming, Others
<1>2. Cardinality(Unarming) \in Nat
  BY UnarmingFinite, Zenon DEF Unarming
<1>3. Len(incoming) \in Nat /\ Len(incoming') \in Nat /\ n_incoming \in Int
  BY DEF TypeOK
<1>4. n_incoming = Len(incoming) - Cardinality(Unarming)
  BY Zenon DEF Counted
<1>5. n_incoming' = Len(incoming') - Cardinality(Unarming')
  BY <1>1, <1>2, <1>3, <1>4
<1> QED
  BY <1>5, Zenon DEF Counted

\* Calls keep their replies, and once completed stay so.
CallsGrow ==
  \A c \in Callers :
    /\ call[c].completed => call'[c].completed
    /\ call[c].reply \in Results => call'[c].reply = call[c].reply

\* A step of one thread keeps what the places of the others say of the calls.
LEMMA PlacesKept ==
  ASSUME Inv, NEW t \in Threads, Others(t), CallsGrow,
         t \in Callers /\ thread'[t].at \in Pre => thread[t].at \in Pre,
         Sane(t)', Timely(t)', NEW u \in Threads
  PROVE  Sane(u)' /\ Timely(u)'
<1>1. CASE u = t
  BY <1>1, Zenon
<1>2. CASE u # t
  <2>1. thread'[u] = thread[u] /\ Sane(u) /\ Timely(u)
    BY <1>2, Zenon DEF Others, Inv
  <2>2. Sane(u)'
    BY <2>1, Zenon DEF Sane
  <2>3. thread[u].at \in {"last", "steal", "done"} => u \in Callers
    BY <2>1, Zenon DEF Sane, LoopLabels, Status, Ends, Threads
  <2>4. thread[u].at \in Status /\ thread[u].next = "steal" => u \in Callers
    BY <2>1, Zenon DEF Sane, Threads
  <2>5. thread[u].at \in Ends => thread[u].arg \in Callers /\ thread[u].arg \in Threads
    BY <2>1, Zenon DEF Sane, Threads
  <2>6. \A c \in Callers : thread[c].at \notin Pre => thread'[c].at \notin Pre
    BY Zenon DEF Others, Threads
  <2> QED
    BY <2>1, <2>2, <2>3, <2>4, <2>5, <2>6, Zenon DEF Timely, CallsGrow
<1> QED
  BY <1>1, <1>2, Zenon

\* The stage of a call, but for its completion.
Stage(l) ==
  IF l \in Unsent THEN "unsent" ELSE IF l = "refused" THEN "refused"
  ELSE IF l = "done" THEN "returned" ELSE "sent"

\* CallState in terms of stages.
LEMMA StateOf ==
  ASSUME NEW c \in Callers
  PROVE  CallState(c) = IF Stage(thread[c].at) = "sent"
                        THEN IF call[c].completed THEN "completed" ELSE "waiting"
                        ELSE Stage(thread[c].at)
  BY Zenon DEF CallState, Stage, Unsent

\* ... and in the next state.
LEMMA StateOfPrime ==
  ASSUME NEW c \in Callers
  PROVE  CallState(c)' = IF Stage(thread'[c].at) = "sent"
                         THEN IF call'[c].completed THEN "completed" ELSE "waiting"
                         ELSE Stage(thread'[c].at)
  BY Zenon DEF CallState, Stage, Unsent

\* A step that moves no call on is none of PendingCalls.
LEMMA Stutters ==
  ASSUME NEW t \in Threads, Others(t), crash' = crash,
         \A c \in Callers : /\ call'[c].completed = call[c].completed
                            /\ call[c].completed => call'[c].reply = call[c].reply,
         t \in Callers => Stage(thread'[t].at) = Stage(thread[t].at)
  PROVE  UNCHANGED Abstract!vars
<1>1. ASSUME NEW c \in Callers
      PROVE  CallState(c)' = CallState(c)
  <2>1. Stage(thread'[c].at) = Stage(thread[c].at)
    BY Zenon DEF Others, Threads
  <2> QED
    BY <2>1, StateOf, StateOfPrime, Zenon
<1>2. [c \in Callers |-> CallState(c)]' = [c \in Callers |-> CallState(c)]
  BY <1>1, Zenon
<1>3. [c \in Callers |-> IF call[c].completed THEN call[c].reply ELSE "none"]'
        = [c \in Callers |-> IF call[c].completed THEN call[c].reply ELSE "none"]
  BY Zenon
<1>4. Crashed' = Crashed
  BY Zenon DEF Crashed
<1> QED
  BY <1>2, <1>3, <1>4, Zenon DEF Abstract!vars

\* A step inside the library that completes nothing, wakes nobody and counts
\* what it queues.
Calm ==
  /\ call' \in [Callers -> CallType]
  /\ \A c \in Callers : /\ call'[c].completed = call[c].completed
                        /\ call'[c].reply = call[c].reply
                        /\ call'[c].attached => call[c].attached
  /\ incoming' \in Seq(Notes) /\ n_incoming' \in Int
  /\ n_incoming' - Len(incoming') = n_incoming - Len(incoming)
  /\ UNCHANGED <<io, dispatcher, crash>>

Quiet(t) == thread' \in [Threads -> Labeled] /\ Others(t) /\ Calm

\* A step of one thread keeps the invariant if it does so for that thread and for
\* the calls.
LEMMA InvKeeps ==
  ASSUME Inv, TypeOK', NEW t \in Threads, Others(t), CallsGrow, UNCHANGED <<io, dispatcher>>,
         thread[t].at \notin Waits \cup {"unarm"}, thread'[t].at \notin Sleeps \cup {"unarm"},
         n_incoming' - Len(incoming') = n_incoming - Len(incoming),
         t \in Callers /\ thread'[t].at \in Pre => thread[t].at \in Pre,
         Sane(t)', Timely(t)', \A c \in Callers : CallOk(c)'
  PROVE  Inv'
<1>1. NoLostWakeup'
  BY WakeKept, Zenon DEF Inv
<1>2. incoming' \in Seq(Notes) /\ n_incoming' \in Int
  BY Zenon DEF TypeOK
<1>3. Counted'
  BY <1>2, CountKept, Zenon DEF Inv
<1>4. \A u \in Threads : Sane(u)' /\ Timely(u)'
  BY PlacesKept, Zenon
<1> QED
  BY <1>1, <1>3, <1>4, Zenon DEF Inv

\* A quiet step that leaves its call in the stage it is in keeps the invariant and is
\* none of PendingCalls.
LEMMA QuietKeeps ==
  ASSUME Inv, NEW t \in Threads, Quiet(t),
         thread[t].at \notin Waits, thread'[t].at \notin Sleeps,
         thread[t].at # "unarm", thread'[t].at # "unarm",
         t \in Callers => Stage(thread'[t].at) = Stage(thread[t].at),
         Sane(t)', Timely(t)'
  PROVE  Inv' /\ Refines
<1>1. TypeOK'
  BY Zenon DEF Quiet, Calm, TypeOK
<1>2. CallsGrow
  BY Zenon DEF Quiet, Calm, CallsGrow
<1>3. t \in Callers /\ thread'[t].at \in Pre => thread[t].at \in Pre
  BY Zenon DEF Stage, Pre, Unsent
<1>4. ASSUME NEW c \in Callers
      PROVE  CallOk(c)'
  <2>1. thread[c].at \notin Pre => thread'[c].at \notin Pre
    BY <1>3, Zenon DEF Quiet, Others, Threads
  <2> QED
    BY <2>1, Zenon DEF Inv, CallOk, Quiet, Calm
<1>5. Inv'
  BY <1>1, <1>2, <1>3, <1>4, InvKeeps, Zenon DEF Quiet, Calm
<1>6. Refines
  BY Stutters, Zenon DEF Quiet, Calm, Refines
<1> QED
  BY <1>5, <1>6, Zenon

\* A step that only moves the call of thread c on is a step of PendingCalls.
LEMMA OneMoves ==
  ASSUME NEW c \in Callers, Others(c), crash' = crash,
         \A d \in Callers : /\ call'[d].completed = call[d].completed
                            /\ call[d].completed => call'[d].reply = call[d].reply
  PROVE  /\ [d \in Callers |-> CallState(d)]'
              = [[d \in Callers |-> CallState(d)] EXCEPT ![c] = CallState(c)']
         /\ [d \in Callers |-> IF call[d].completed THEN call[d].reply ELSE "none"]'
              = [d \in Callers |-> IF call[d].completed THEN call[d].reply ELSE "none"]
         /\ Crashed' = Crashed
<1>1. ASSUME NEW d \in Callers, d # c
      PROVE  CallState(d)' = CallState(d)
  <2>1. thread'[d] = thread[d]
    BY <1>1, Zenon DEF Others, Threads
  <2> QED
    BY <2>1, StateOf, StateOfPrime, Zenon
<1>2. [d \in Callers |-> CallState(d)]'
        = [[d \in Callers |-> CallState(d)] EXCEPT ![c] = CallState(c)']
  BY <1>1, Zenon
<1>3. [d \in Callers |-> IF call[d].completed THEN call[d].reply ELSE "none"]'
        = [d \in Callers |-> IF call[d].completed THEN call[d].reply ELSE "none"]
  BY Zenon
<1>4. Crashed' = Crashed
  BY Zenon DEF Crashed
<1> QED
  BY <1>2, <1>3, <1>4, Zenon

\* A step that leaves the calls and the queue alone is calm.
LEMMA SameCalm ==
  ASSUME TypeOK, UNCHANGED <<io, dispatcher, crash, call, incoming, n_incoming>>
  PROVE  Calm
  BY Zenon DEF TypeOK, Calm

PlainCaller == {"idle", "refused", "attach", "write", "block", "flush", "check", "recheck",
                "judge", "last", "steal", "done"}
PlainLoop == {"idle", "watched", "dispatch", "waitDispatch", "pop", "handlers", "dispatched"}

\* A thread goes on to a place that says nothing but, for a caller, whether its
\* call is completed.
LEMMA PlainKeeps ==
  ASSUME Inv, Calm, NEW t \in Threads, NEW l, NEW r, NEW n, NEW a, Lands(t, l, r, n, a),
         thread[t].at \notin Waits \cup {"unarm"},
         \/ /\ t \in Callers /\ l \in PlainCaller
            /\ Stage(l) = Stage(thread[t].at)
            /\ l \in {"last", "steal", "done"} => call[t].completed
         \/ t \in Loops /\ l \in PlainLoop
  PROVE  Inv' /\ Refines
<1>1. t \in Callers <=> t \notin Loops
  BY ClientAssumption, Zenon DEF Threads
<1>2. l \notin IoPath \cup Status \cup Ends \cup Sleeps \cup {"forget", "unarm", "fireTimer", "drainTimer"}
  BY Zenon DEF PlainCaller, PlainLoop, IoPath, Status, Ends, Sleeps
<1>3. (t \in Callers => l \in CallerLabels) /\ (t \in Loops => l \in LoopLabels)
  BY <1>1, Zenon DEF PlainCaller, PlainLoop, CallerLabels, LoopLabels
<1>4. thread'[t].at = l
  BY Zenon DEF Lands
<1>5. Sane(t)'
  BY <1>2, <1>3, <1>4, Zenon DEF Sane
<1>6. l \in {"last", "steal", "done"} => call'[t].completed
  BY <1>1, Zenon DEF PlainLoop, Calm
<1>7. Timely(t)'
  BY <1>2, <1>4, <1>6, Zenon DEF Timely
<1>8. Quiet(t)
  BY Zenon DEF Lands, Quiet
<1>9. t \in Callers => Stage(thread'[t].at) = Stage(thread[t].at)
  BY <1>1, <1>4, Zenon
<1>10. thread'[t].at \notin Sleeps /\ thread'[t].at # "unarm"
  BY <1>2, <1>4, Zenon
<1> QED
  BY <1>5, <1>7, <1>8, <1>9, <1>10, QuietKeeps, Zenon

NextOf(t) == IF t \in Callers THEN {"block", "check", "judge", "steal"} ELSE {"idle", "dispatch"}

\* The end of an action in get_dispatch_status.
LEMMA StatusKeeps ==
  ASSUME Inv, Calm, NEW t \in Threads, NEW l \in NextOf(t), AfterStatus(t, l),
         thread[t].at \notin Waits \cup {"unarm"},
         t \in Callers => Stage(thread[t].at) = "sent",
         l = "steal" => call[t].completed
  PROVE  Inv' /\ Refines
<1>1. t \in Callers <=> t \notin Loops
  BY ClientAssumption, Zenon DEF Threads
<1>2. l \in Labels /\ TypeOK
  BY Zenon DEF NextOf, Labels, CallerLabels, LoopLabels, Inv
<1>3. CASE Lands(t, l, "idle", "idle", Nobody)
  <2>1. \/ /\ t \in Callers /\ l \in PlainCaller /\ Stage(l) = "sent"
           /\ l \in {"last", "steal", "done"} => call[t].completed
        \/ t \in Loops /\ l \in PlainLoop
    BY <1>1, Zenon DEF NextOf, PlainCaller, PlainLoop, Stage, Unsent
  <2> QED
    BY <1>3, <2>1, PlainKeeps, Zenon
<1>4. CASE Lands(t, "status", "idle", l, Nobody)
  <2>1. thread'[t].at = "status" /\ thread'[t].next = l
    BY <1>4, Zenon DEF Lands
  <2>2. Sane(t)'
    BY <2>1, Zenon DEF Sane, NextOf, CallerLabels, LoopLabels, IoPath, Status, Ends
  <2>3. l = "steal" => call'[t].completed
    BY <1>1, Zenon DEF Calm, NextOf
  <2>4. Timely(t)'
    BY <2>1, <2>3, Zenon DEF Timely, Ends
  <2>5. Quiet(t)
    BY <1>4, Zenon DEF Lands, Quiet
  <2>6. /\ Stage("status") = "sent" /\ "status" \notin Sleeps
    BY Zenon DEF Stage, Unsent, Sleeps
  <2> QED
    BY <2>1, <2>2, <2>4, <2>5, <2>6, QuietKeeps, Zenon
<1> QED
  BY <1>2, <1>3, <1>4, StatusLands, Zenon

RetOf(t) == IF t \in Callers THEN {"flush", "recheck"} ELSE {"watched"}

\* A thread goes along the I/O path.
LEMMA IoKeeps ==
  ASSUME Inv, Calm, NEW t \in Threads, NEW l, NEW r \in RetOf(t), NEW n, NEW a,
         Lands(t, l, r, n, a), thread[t].at \notin Waits \cup {"unarm"},
         t \in Callers => Stage(thread[t].at) = "sent",
         l \in (IF t \in Callers THEN {"waitIo", "waitIoTimed", "read"} ELSE {"waitIo"})
  PROVE  Inv' /\ Refines
<1>1. t \in Callers <=> t \notin Loops
  BY ClientAssumption, Zenon DEF Threads
<1>2. thread'[t].at = l /\ thread'[t].ret = r
  BY Zenon DEF Lands
<1>3. Sane(t)'
  BY <1>1, <1>2, Zenon DEF Sane, RetOf, CallerLabels, LoopLabels, IoPath, Status, Ends
<1>4. Timely(t)'
  BY <1>2, Zenon DEF Timely, Ends, Status
<1>5. Quiet(t)
  BY Zenon DEF Lands, Quiet
<1>6. /\ thread'[t].at \notin Sleeps /\ thread'[t].at # "unarm" /\ Stage(l) = "sent"
  BY <1>2, Zenon DEF Stage, Unsent, Sleeps
<1> QED
  BY <1>2, <1>3, <1>4, <1>5, <1>6, QuietKeeps, Zenon

\* The program ends.
LEMMA DieKeeps ==
  ASSUME Inv, ~Crashed, NEW why, why # "none", Die(why)
  PROVE  Inv' /\ Refines
<1>1. UNCHANGED <<thread, call, incoming, n_incoming, io, dispatcher>> /\ crash' = why
  BY Zenon DEF Die, paths, queues, timers
<1>2. Inv'
  BY <1>1 DEF Inv, TypeOK, Sane, Timely, CallOk, NoLostWakeup, Counted, Unarming
<1>3. ASSUME NEW c \in Callers PROVE CallState(c)' = CallState(c)
  BY <1>1, StateOf, StateOfPrime, Zenon
<1>4. [c \in Callers |-> CallState(c)]' = [c \in Callers |-> CallState(c)]
  BY <1>3, Zenon
<1>5. [c \in Callers |-> IF call[c].completed THEN call[c].reply ELSE "none"]'
        = [c \in Callers |-> IF call[c].completed THEN call[c].reply ELSE "none"]
  BY <1>1, Zenon
<1>6. Crashed' = TRUE
  BY <1>1, Zenon DEF Crashed
<1>7. Abstract!Crash
  BY <1>4, <1>5, <1>6, Zenon DEF Abstract!Crash
<1> QED
  BY <1>2, <1>7, Zenon DEF Refines, Abstract!Next

-----------------------------------------------------------------------------
(***************************************************************************)
(* The actions.                                                            *)
(***************************************************************************)

\* What is known of a thread at its place.
LEMMA Known ==
  ASSUME Inv, NEW t \in Threads
  PROVE  /\ TypeOK /\ thread[t] \in Labeled /\ Sane(t) /\ Timely(t)
         /\ t \in Callers <=> t \notin Loops
  BY ClientAssumption, Zenon DEF Inv, TypeOK, Threads

\* A thread changes its place and the call it works on.
LEMMA PlaceLands ==
  ASSUME TypeOK, NEW t \in Threads, NEW l \in Labels, NEW a \in Callers \cup {Nobody},
         thread' = [thread EXCEPT ![t].at = l, ![t].arg = a]
  PROVE  Lands(t, l, thread[t].ret, thread[t].next, a)
  BY Zenon DEF TypeOK, Lands, Others, Labeled

\* A thread stays where it is.
LEMMA StayLands ==
  ASSUME TypeOK, NEW t \in Threads, thread' = thread
  PROVE  Lands(t, thread[t].at, thread[t].ret, thread[t].next, thread[t].arg)
  BY Zenon DEF TypeOK, Lands, Others

\* Notes put at the end of the queue and counted.
LEMMA QueueGrows ==
  ASSUME TypeOK, NEW m \in Notes, incoming' = Append(incoming, m), n_incoming' = n_incoming + 1
  PROVE  /\ incoming' \in Seq(Notes) /\ n_incoming' \in Int
         /\ n_incoming' - Len(incoming') = n_incoming - Len(incoming)
<1>1. incoming' \in Seq(Notes) /\ Len(incoming') = Len(incoming) + 1 /\ Len(incoming) \in Nat
  BY DEF TypeOK
<1> QED
  BY <1>1 DEF TypeOK

\* The error prepared for the timeout of a call is queued, and counted, or was
\* queued before.
LEMMA TimeoutQueued ==
  ASSUME TypeOK, NEW c \in Callers, QueueTimeoutError(c)
  PROVE  /\ incoming' \in Seq(Notes) /\ n_incoming' \in Int
         /\ n_incoming' - Len(incoming') = n_incoming - Len(incoming)
<1>1. Note("timeout", c) \in Notes
  BY Zenon DEF Note, Notes, Results
<1>2. CASE call[c].timeout_link
  BY <1>1, <1>2, QueueGrows, Zenon DEF QueueTimeoutError
<1>3. CASE ~call[c].timeout_link
  <2>1. incoming' = incoming /\ n_incoming' = n_incoming
    BY <1>3, Zenon DEF QueueTimeoutError
  <2> QED
    BY <2>1, Zenon DEF TypeOK
<1> QED
  BY <1>2, <1>3, Zenon

\* A thread that times out the pending calls goes on doing so.
LEMMA DrainKeeps ==
  ASSUME Inv, Calm, NEW t \in Threads, thread[t].at \in Status, NEW r,
         NEW l \in {"drain", "drainTimer"}, NEW a, l = "drainTimer" => a \in Callers,
         Lands(t, l, r, thread[t].next, a)
  PROVE  Inv' /\ Refines
<1>1. /\ TypeOK /\ thread[t] \in Labeled /\ Sane(t) /\ Timely(t)
      /\ t \in Callers <=> t \notin Loops
  BY Known, Zenon
<1>2. thread'[t].at = l /\ thread'[t].next = thread[t].next /\ thread'[t].arg = a
  BY Zenon DEF Lands
<1>3. Sane(t)'
  BY <1>1, <1>2, Zenon DEF Sane, CallerLabels, LoopLabels, IoPath, Status, Ends
<1>4. thread[t].next = "steal" => t \in Callers /\ call[t].completed
  BY <1>1, Zenon DEF Sane, Timely
<1>5. Timely(t)'
  BY <1>2, <1>4, Zenon DEF Timely, Ends, Status, Calm
<1>6. Quiet(t)
  BY Zenon DEF Lands, Quiet
<1>7. /\ l \notin Sleeps /\ l # "unarm" /\ Stage(l) = "sent" /\ Stage(thread[t].at) = "sent"
      /\ thread[t].at \notin Waits /\ thread[t].at # "unarm"
  BY Zenon DEF Stage, Unsent, Sleeps, Waits, Status
<1> QED
  BY <1>2, <1>3, <1>5, <1>6, <1>7, QuietKeeps, Zenon

\* ... until none is left, and returns to what it was doing.
LEMMA ReturnKeeps ==
  ASSUME Inv, Calm, NEW t \in Threads, thread[t].at \in Status, Return(t)
  PROVE  Inv' /\ Refines
<1>1. /\ TypeOK /\ thread[t] \in Labeled /\ Sane(t) /\ Timely(t)
      /\ t \in Callers <=> t \notin Loops
  BY Known, Zenon
<1>2. thread[t].next \in Labels
  BY <1>1, Zenon DEF Labeled
<1>3. Lands(t, thread[t].next, "idle", "idle", Nobody)
  BY <1>1, <1>2, FreshLands, Zenon DEF Return
<1>4. /\ Stage(thread[t].at) = "sent" /\ thread[t].at \notin Waits \cup {"unarm"}
  BY Zenon DEF Stage, Unsent, Waits, Status
<1>5. \/ /\ t \in Callers /\ thread[t].next \in PlainCaller /\ Stage(thread[t].next) = "sent"
         /\ thread[t].next \in {"last", "steal", "done"} => call[t].completed
      \/ t \in Loops /\ thread[t].next \in PlainLoop
  BY <1>1, Zenon DEF Sane, Timely, PlainCaller, PlainLoop, Stage, Unsent, Threads
<1> QED
  BY <1>3, <1>4, <1>5, PlainKeeps, Zenon

\* The dispatch status of a lost connection: the first thread to compute it drops
\* what is not written and times out the calls.
LEMMA DisconnectedKeeps ==
  ASSUME Inv, NEW t \in Threads, Disconnected(t)
  PROVE  Inv' /\ Refines
<1>1. TypeOK /\ thread[t].at = "status" /\ "status" \in Status /\ "drain" \in Labels
  BY Zenon DEF Inv, Disconnected, At, Status, Labels, CallerLabels
<1>2. Calm
  BY <1>1, SameCalm, Zenon DEF Disconnected, paths
<1>3. CASE disconnectLink
  <2>1. Go(t, "drain")
    BY <1>3, Zenon DEF Disconnected
  <2>2. Lands(t, "drain", thread[t].ret, thread[t].next, thread[t].arg)
    BY <1>1, <2>1, GoLands, Zenon
  <2> QED
    BY <1>1, <1>2, <2>2, DrainKeeps, Zenon
<1>4. CASE ~disconnectLink
  BY <1>1, <1>2, <1>4, ReturnKeeps, Zenon DEF Disconnected
<1> QED
  BY <1>3, <1>4, Zenon

\* One call is timed out; its timeout comes off the list if nobody has the list.
LEMMA DrainOneKeeps ==
  ASSUME Inv, NEW t \in Threads, NEW c \in Callers, DrainOne(t, c)
  PROVE  Inv' /\ Refines
<1>1. TypeOK /\ thread[t].at = "drain" /\ "drain" \in Status /\ "drainTimer" \in Labels
  BY Zenon DEF Inv, DrainOne, At, Status, Labels, CallerLabels
<1>2. /\ incoming' \in Seq(Notes) /\ n_incoming' \in Int
      /\ n_incoming' - Len(incoming') = n_incoming - Len(incoming)
  BY <1>1, TimeoutQueued, Zenon DEF DrainOne
<1>3. CASE ListThere
  <2>1. /\ call' = [call EXCEPT ![c].timeout_link = FALSE]
        /\ thread' = [thread EXCEPT ![t].at = "drainTimer", ![t].arg = c]
    BY <1>3, Zenon DEF DrainOne
  <2>2. Calm
    BY <1>1, <1>2, <2>1, ZenonT(40) DEF DrainOne, Calm, TypeOK, CallType, paths
  <2>3. Lands(t, "drainTimer", thread[t].ret, thread[t].next, c)
    BY <1>1, <2>1, PlaceLands, Zenon
  <2> QED
    BY <1>1, <2>2, <2>3, DrainKeeps, Zenon
<1>4. CASE ~ListThere
  <2>1. /\ call' = [call EXCEPT ![c].timeout_link = FALSE,
                      ![c].timeout_added = FALSE, ![c].attached = FALSE]
        /\ thread' = thread
    BY <1>4, Zenon DEF DrainOne
  <2>2. Calm
    BY <1>1, <1>2, <2>1, ZenonT(40) DEF DrainOne, Calm, TypeOK, CallType, paths
  <2>3. Lands(t, "drain", thread[t].ret, thread[t].next, thread[t].arg)
    BY <1>1, <2>1, StayLands, Zenon
  <2> QED
    BY <1>1, <2>2, <2>3, DrainKeeps, Zenon
<1> QED
  BY <1>3, <1>4, Zenon

\* The timeout of the call that is timed out is off the list.
LEMMA DrainTimerKeeps ==
  ASSUME Inv, NEW t \in Threads, DrainTimer(t)
  PROVE  Inv' /\ Refines
<1> DEFINE c == thread[t].arg
<1>1. /\ TypeOK /\ thread[t].at = "drainTimer" /\ "drainTimer" \in Status /\ "drain" \in Labels
      /\ ~Crashed /\ c \in Callers
  BY Zenon DEF Inv, DrainTimer, At, Status, Labels, CallerLabels, Sane
<1>2. CASE ~call[c].attached
  BY <1>1, <1>2, DieKeeps, Zenon DEF DrainTimer
<1>3. CASE call[c].attached
  <2>1. /\ call' = [call EXCEPT ![c].timeout_added = FALSE, ![c].attached = FALSE]
        /\ thread' = [thread EXCEPT ![t].at = "drain", ![t].arg = Nobody]
        /\ UNCHANGED <<io, dispatcher, incoming, n_incoming, crash>>
    BY <1>3, Zenon DEF DrainTimer, paths, queues
  <2>2. Calm
    <3> HIDE DEF c
    <3> QED
      BY <1>1, <2>1, Zenon DEF Calm, TypeOK, CallType
  <2>3. Lands(t, "drain", thread[t].ret, thread[t].next, Nobody)
    BY <1>1, <2>1, PlaceLands, Zenon
  <2> QED
    BY <1>1, <2>2, <2>3, DrainKeeps, Zenon
<1> QED
  BY <1>2, <1>3, Zenon

\* No call is left, and Disconnected is queued.
LEMMA DrainedKeeps ==
  ASSUME Inv, NEW t \in Threads, Drained(t)
  PROVE  Inv' /\ Refines
<1>1. TypeOK /\ thread[t].at = "drain" /\ "drain" \in Status /\ ~Crashed
  BY Zenon DEF Inv, Drained, At, Status
<1>2. CASE ~disconnectLink
  BY <1>1, <1>2, DieKeeps, Zenon DEF Drained
<1>3. CASE disconnectLink
  <2>1. Note("disconnected", Nobody) \in Notes
    BY Zenon DEF Note, Notes, Results
  <2>2. /\ incoming' \in Seq(Notes) /\ n_incoming' \in Int
        /\ n_incoming' - Len(incoming') = n_incoming - Len(incoming)
    BY <1>1, <1>3, <2>1, QueueGrows, Zenon DEF Drained
  <2>3. Calm
    BY <1>1, <1>3, <2>2, Zenon DEF Drained, Calm, TypeOK, paths, timers
  <2> QED
    BY <1>1, <1>3, <2>3, ReturnKeeps, Zenon DEF Drained
<1> QED
  BY <1>2, <1>3, Zenon

\* A call is refused, or its caller adds its timeout.
LEMMA SendKeeps ==
  ASSUME Inv, NEW c \in Callers, SendWithReply(c)
  PROVE  Inv' /\ Refines
<1>1. /\ TypeOK /\ c \in Threads /\ thread[c].at = "idle" /\ ~Crashed
      /\ "refused" \in Labels /\ "attach" \in Labels
      /\ UNCHANGED <<io, dispatcher, incoming, n_incoming, crash>>
  BY Zenon DEF Inv, SendWithReply, At, Labels, CallerLabels, Threads, paths, queues
<1>2. CASE Go(c, "attach") /\ call' = [call EXCEPT ![c].timeout_link = TRUE]
  <2>1. Calm
    BY <1>1, <1>2, Zenon DEF Calm, TypeOK, CallType
  <2>2. Lands(c, "attach", thread[c].ret, thread[c].next, thread[c].arg)
    BY <1>1, <1>2, GoLands, Zenon
  <2>3. /\ "attach" \in PlainCaller /\ Stage("attach") = Stage("idle")
        /\ "attach" \notin {"last", "steal", "done"} /\ "idle" \notin Waits \cup {"unarm"}
    BY Zenon DEF PlainCaller, Stage, Unsent, Waits
  <2> QED
    BY <1>1, <2>1, <2>2, <2>3, PlainKeeps, Zenon
<1>3. CASE Go(c, "refused") /\ call' = call
  <2>1. Lands(c, "refused", thread[c].ret, thread[c].next, thread[c].arg)
    BY <1>1, <1>3, GoLands, Zenon
  <2>2. thread'[c].at = "refused" /\ Others(c) /\ thread' \in [Threads -> Labeled]
    BY <2>1, Zenon DEF Lands
  <2>3. TypeOK' /\ CallsGrow
    BY <1>1, <1>3, <2>2, Zenon DEF TypeOK, CallsGrow
  <2>4. Sane(c)' /\ Timely(c)'
    BY <1>1, <2>2, ClientAssumption, Zenon
       DEF Sane, Timely, CallerLabels, IoPath, Status, Ends, Threads
  <2>5. ASSUME NEW d \in Callers PROVE CallOk(d)'
    BY <1>1, <1>3, <2>2, Zenon DEF CallOk, Inv, Pre, Unsent, Others, Threads
  <2>6. /\ "idle" \notin Waits \cup {"unarm"} /\ "refused" \notin Sleeps \cup {"unarm"}
        /\ "idle" \in Pre
    BY Zenon DEF Waits, Sleeps, Pre, Unsent
  <2>7. Inv'
    BY <1>1, <1>3, <2>2, <2>3, <2>4, <2>5, <2>6, InvKeeps, Zenon
  <2>8. CallState(c) = "unsent" /\ CallState(c)' = "refused"
    BY <1>1, <2>2, StateOf, StateOfPrime, Zenon DEF Stage, Unsent
  <2>9. /\ [d \in Callers |-> CallState(d)]'
             = [[d \in Callers |-> CallState(d)] EXCEPT ![c] = CallState(c)']
        /\ [d \in Callers |-> IF call[d].completed THEN call[d].reply ELSE "none"]'
             = [d \in Callers |-> IF call[d].completed THEN call[d].reply ELSE "none"]
        /\ Crashed' = Crashed
    BY <1>1, <1>3, <2>2, OneMoves, Zenon
  <2>10. Abstract!Refuse(c)
    BY <1>1, <2>8, <2>9, Zenon DEF Abstract!Refuse, Abstract!Move
  <2> QED
    BY <2>7, <2>10, Zenon DEF Refines, Abstract!Next
<1> QED
  BY <1>2, <1>3, Zenon DEF SendWithReply

\* A call is sent: it is in pending_replies, its timeout on the list.
LEMMA AttachKeeps ==
  ASSUME Inv, NEW c \in Callers, Attach(c)
  PROVE  Inv' /\ Refines
<1>1. /\ TypeOK /\ c \in Threads /\ thread[c].at = "attach" /\ ~Crashed /\ "write" \in Labels
      /\ UNCHANGED <<io, dispatcher, incoming, n_incoming, crash>>
      /\ call' = [call EXCEPT ![c].attached = TRUE, ![c].timeout_added = TRUE]
  BY Zenon DEF Inv, Attach, At, Labels, CallerLabels, Threads, paths
<1>2. Lands(c, "write", thread[c].ret, thread[c].next, thread[c].arg)
  BY <1>1, GoLands, Zenon DEF Attach
<1>3. thread'[c].at = "write" /\ Others(c) /\ thread' \in [Threads -> Labeled]
  BY <1>2, Zenon DEF Lands
<1>4. /\ call' \in [Callers -> CallType]
      /\ \A d \in Callers : /\ call'[d].completed = call[d].completed
                            /\ call'[d].reply = call[d].reply
                            /\ d # c => call'[d] = call[d]
  BY <1>1, Zenon DEF TypeOK, CallType
<1>5. TypeOK' /\ CallsGrow
  BY <1>1, <1>3, <1>4, Zenon DEF TypeOK, CallsGrow
<1>6. Sane(c)' /\ Timely(c)'
  BY <1>1, <1>3, ClientAssumption, Zenon
     DEF Sane, Timely, CallerLabels, IoPath, Status, Ends, Threads
<1>7. ASSUME NEW d \in Callers PROVE CallOk(d)'
  <2>1. thread[d].at \notin Pre => thread'[d].at \notin Pre
    BY <1>1, <1>3, Zenon DEF Pre, Unsent, Others, Threads
  <2>2. d = c => thread'[d].at \notin Pre
    BY <1>3, Zenon DEF Pre, Unsent
  <2> QED
    BY <1>4, <2>1, <2>2, Zenon DEF CallOk, Inv
<1>8. "attach" \notin Waits \cup {"unarm"} /\ "write" \notin Sleeps \cup {"unarm"} \cup Pre
  BY Zenon DEF Waits, Sleeps, Pre, Unsent
<1>9. Inv'
  BY <1>1, <1>3, <1>5, <1>6, <1>7, <1>8, InvKeeps, Zenon
<1>10. CallState(c) = "unsent" /\ CallState(c)' = "waiting"
  <2>1. ~call'[c].completed
    BY <1>1, <1>4, Zenon DEF Inv, CallOk, Pre, Unsent
  <2> QED
    BY <1>1, <1>3, <2>1, StateOf, StateOfPrime, Zenon DEF Stage, Unsent
<1>11. /\ [d \in Callers |-> CallState(d)]'
            = [[d \in Callers |-> CallState(d)] EXCEPT ![c] = CallState(c)']
       /\ [d \in Callers |-> IF call[d].completed THEN call[d].reply ELSE "none"]'
            = [d \in Callers |-> IF call[d].completed THEN call[d].reply ELSE "none"]
       /\ Crashed' = Crashed
  BY <1>1, <1>3, <1>4, OneMoves, Zenon
<1>12. Abstract!Send(c)
  BY <1>1, <1>10, <1>11, Zenon DEF Abstract!Send, Abstract!Move
<1> QED
  BY <1>9, <1>12, Zenon DEF Refines, Abstract!Next

\* A thread is about to take a timeout off the list and then drop the call.
LEMMA ForgetKeeps ==
  ASSUME Inv, Calm, NEW t \in Threads, NEW r, NEW n, NEW c \in Callers,
         Lands(t, "forget", r, n, c), thread[t].at \notin Waits \cup {"unarm"},
         IF t \in Callers THEN r = "refused" /\ Stage(thread[t].at) = "unsent" ELSE r = "idle"
  PROVE  Inv' /\ Refines
<1>1. t \in Callers <=> t \notin Loops
  BY ClientAssumption, Zenon DEF Threads
<1>2. thread'[t].at = "forget" /\ thread'[t].ret = r /\ thread'[t].arg = c
  BY Zenon DEF Lands
<1>3. Sane(t)'
  BY <1>1, <1>2, Zenon DEF Sane, CallerLabels, LoopLabels, IoPath, Status, Ends
<1>4. Timely(t)'
  BY <1>2, Zenon DEF Timely, Ends, Status
<1>5. Quiet(t)
  BY Zenon DEF Lands, Quiet
<1>6. /\ "forget" \notin Sleeps /\ Stage("forget") = "unsent"
  BY Zenon DEF Stage, Unsent, Sleeps
<1> QED
  BY <1>2, <1>3, <1>4, <1>5, <1>6, QuietKeeps, Zenon

\* A call whose message cannot be queued is dropped.
LEMMA NoMemoryKeeps ==
  ASSUME Inv, NEW c \in Callers, NoMemoryToSend(c)
  PROVE  Inv' /\ Refines
<1>1. /\ TypeOK /\ c \in Threads /\ thread[c].at = "attach"
      /\ {"forget", "refused"} \subseteq Labels
      /\ UNCHANGED <<io, dispatcher, incoming, n_incoming, crash>>
      /\ call' = [call EXCEPT ![c].timeout_added = TRUE]
  BY Zenon DEF Inv, NoMemoryToSend, At, Labels, CallerLabels, Threads, paths, queues
<1>2. Calm
  BY <1>1, Zenon DEF Calm, TypeOK, CallType
<1>3. Lands(c, "forget", "refused", thread[c].next, c)
  BY <1>1, ArgLands, Zenon DEF NoMemoryToSend
<1>4. "attach" \notin Waits \cup {"unarm"} /\ Stage("attach") = "unsent"
  BY Zenon DEF Waits, Stage, Unsent
<1> QED
  BY <1>1, <1>2, <1>3, <1>4, ForgetKeeps, Zenon

\* The message is written, or left for later.
LEMMA SendNowKeeps ==
  ASSUME Inv, NEW c \in Callers, SendNow(c)
  PROVE  Inv' /\ Refines
<1>1. /\ TypeOK /\ c \in Threads /\ thread[c].at = "write"
      /\ UNCHANGED <<io, dispatcher, incoming, n_incoming, crash, call>>
  BY Zenon DEF Inv, SendNow, At, Threads, paths, timers
<1>2. Calm
  BY <1>1, SameCalm, Zenon
<1>3. "write" \notin Waits \cup {"unarm"} /\ Stage("write") = "sent" /\ "block" \in NextOf(c)
  BY Zenon DEF Waits, Stage, Unsent, NextOf
<1> QED
  BY <1>1, <1>2, <1>3, StatusKeeps, Zenon DEF SendNow

\* The steps of a blocked caller that touch no call.
LEMMA BlockKeeps ==
  ASSUME Inv, NEW c \in Callers,
         \/ Block(c) \/ Flush(c) \/ Recheck(c) \/ CompletedElsewhere(c) \/ LastStatus(c)
  PROVE  Inv' /\ Refines
<1>1. /\ TypeOK /\ c \in Threads /\ {"steal", "flush", "waitIo"} \subseteq Labels
      /\ UNCHANGED <<io, dispatcher, incoming, n_incoming, crash, call>>
  BY Zenon
     DEF Inv, Block, Flush, Recheck, CompletedElsewhere, LastStatus, Threads, shared, paths,
         queues, timers, Labels, CallerLabels, IoPath
<1>2. Calm
  BY <1>1, SameCalm, Zenon
<1>3. ASSUME NEW l \in {"block", "flush", "recheck", "judge", "last"}
      PROVE  l \notin Waits \cup {"unarm"} /\ Stage(l) = "sent"
  BY Zenon DEF Waits, Stage, Unsent
<1>4. /\ {"steal", "flush"} \subseteq PlainCaller /\ Stage("steal") = "sent"
      /\ {"check", "judge", "steal"} \subseteq NextOf(c) /\ "flush" \in RetOf(c)
  BY Zenon DEF PlainCaller, Stage, Unsent, NextOf, RetOf
<1>5. CASE Block(c)
  <2>1. thread[c].at = "block" /\ Go(c, IF call[c].completed THEN "steal" ELSE "flush")
    BY <1>5, Zenon DEF Block, At
  <2>2. CASE call[c].completed
    <3>1. Lands(c, "steal", thread[c].ret, thread[c].next, thread[c].arg)
      BY <1>1, <2>1, <2>2, GoLands, Zenon
    <3> QED
      BY <1>1, <1>2, <1>3, <1>4, <2>1, <2>2, <3>1, PlainKeeps, Zenon
  <2>3. CASE ~call[c].completed
    <3>1. Lands(c, "flush", thread[c].ret, thread[c].next, thread[c].arg)
      BY <1>1, <2>1, <2>3, GoLands, Zenon
    <3> QED
      BY <1>1, <1>2, <1>3, <1>4, <2>1, <3>1, PlainKeeps, Zenon
  <2> QED
    BY <2>2, <2>3, Zenon
<1>6. CASE Flush(c)
  <2>1. thread[c].at = "flush"
    BY <1>6, Zenon DEF Flush, At
  <2>2. CASE AfterStatus(c, "check")
    BY <1>1, <1>2, <1>3, <1>4, <2>1, <2>2, StatusKeeps, Zenon
  <2>3. CASE GoIo(c, "waitIo", "flush", {"r", "w"})
    <3>1. Lands(c, "waitIo", "flush", thread[c].next, thread[c].arg)
      BY <1>1, <2>3, IoLands, Zenon
    <3> QED
      BY <1>1, <1>2, <1>3, <1>4, <2>1, <3>1, IoKeeps, Zenon
  <2> QED
    BY <1>6, <2>2, <2>3, Zenon DEF Flush
<1>7. CASE Recheck(c)
  BY <1>1, <1>2, <1>3, <1>4, <1>7, StatusKeeps, Zenon DEF Recheck, At
<1>8. CASE CompletedElsewhere(c)
  <2>1. thread[c].at = "judge" /\ Go(c, "steal") /\ call[c].completed
    BY <1>8, Zenon DEF CompletedElsewhere, At
  <2>2. Lands(c, "steal", thread[c].ret, thread[c].next, thread[c].arg)
    BY <1>1, <2>1, GoLands, Zenon
  <2> QED
    BY <1>1, <1>2, <1>3, <1>4, <2>1, <2>2, PlainKeeps, Zenon
<1>9. CASE LastStatus(c)
  <2>1. thread[c].at = "last" /\ AfterStatus(c, "steal")
    BY <1>9, Zenon DEF LastStatus, At
  <2>2. call[c].completed
    BY <1>1, <2>1, Zenon DEF Inv, Timely
  <2> QED
    BY <1>1, <1>2, <1>3, <1>4, <2>1, <2>2, StatusKeeps, Zenon
<1> QED
  BY <1>5, <1>6, <1>7, <1>8, <1>9, Zenon

\* The caller of a completed call returns with its reply.
LEMMA StealKeeps ==
  ASSUME Inv, NEW c \in Callers, StealReply(c)
  PROVE  Inv' /\ Refines
<1>1. /\ TypeOK /\ c \in Threads /\ thread[c].at = "steal" /\ ~Crashed /\ "done" \in Labels
      /\ UNCHANGED <<io, dispatcher, incoming, n_incoming, crash, call>>
  BY Zenon
     DEF Inv, StealReply, At, Labels, CallerLabels, Threads, shared, paths, queues, timers
<1>2. Lands(c, "done", thread[c].ret, thread[c].next, thread[c].arg)
  BY <1>1, GoLands, Zenon DEF StealReply
<1>3. thread'[c].at = "done" /\ Others(c) /\ thread' \in [Threads -> Labeled]
  BY <1>2, Zenon DEF Lands
<1>4. TypeOK' /\ CallsGrow
  BY <1>1, <1>3, Zenon DEF TypeOK, CallsGrow
<1>5. call[c].completed
  BY <1>1, Zenon DEF Inv, Timely
<1>6. Sane(c)' /\ Timely(c)'
  BY <1>1, <1>3, <1>5, ClientAssumption, Zenon
     DEF Sane, Timely, CallerLabels, IoPath, Status, Ends, Threads
<1>7. ASSUME NEW d \in Callers PROVE CallOk(d)'
  <2>1. thread[d].at \notin Pre => thread'[d].at \notin Pre
    BY <1>1, <1>3, Zenon DEF Pre, Unsent, Others, Threads
  <2> QED
    BY <1>1, <2>1, Zenon DEF CallOk, Inv
<1>8. "steal" \notin Waits \cup {"unarm"} /\ "done" \notin Sleeps \cup {"unarm"} \cup Pre
  BY Zenon DEF Waits, Sleeps, Pre, Unsent
<1>9. Inv'
  BY <1>1, <1>3, <1>4, <1>6, <1>7, <1>8, InvKeeps, Zenon
<1>10. CallState(c) = "completed" /\ CallState(c)' = "returned"
  BY <1>1, <1>3, <1>5, StateOf, StateOfPrime, Zenon DEF Stage, Unsent
<1>11. /\ [d \in Callers |-> CallState(d)]'
            = [[d \in Callers |-> CallState(d)] EXCEPT ![c] = CallState(c)']
       /\ [d \in Callers |-> IF call[d].completed THEN call[d].reply ELSE "none"]'
            = [d \in Callers |-> IF call[d].completed THEN call[d].reply ELSE "none"]
       /\ Crashed' = Crashed
  BY <1>1, <1>3, OneMoves, Zenon
<1>12. Abstract!Return(c)
  BY <1>1, <1>10, <1>11, Zenon DEF Abstract!Return, Abstract!Move
<1> QED
  BY <1>9, <1>12, Zenon DEF Refines, Abstract!Next

\* Nothing the invariant or the calls' states speak of has moved.
LEMMA Unmoved ==
  ASSUME Inv, UNCHANGED <<thread, call, incoming, n_incoming, io, dispatcher, crash>>
  PROVE  Inv' /\ UNCHANGED Abstract!vars
<1>1. TypeOK'
  BY Zenon DEF Inv, TypeOK
<1>2. ASSUME NEW t \in Threads PROVE Sane(t)' /\ Timely(t)'
  <2>1. Sane(t) /\ Timely(t)
    BY Zenon DEF Inv
  <2>2. Sane(t)'
    BY <2>1, Zenon DEF Sane
  <2>3. Timely(t)'
    BY <2>1, Zenon DEF Timely
  <2> QED
    BY <2>2, <2>3, Zenon
<1>3. ASSUME NEW c \in Callers PROVE CallOk(c)'
  BY Zenon DEF Inv, CallOk
<1>4. NoLostWakeup'
  BY Zenon DEF Inv, NoLostWakeup
<1>5. Counted'
  BY Zenon DEF Inv, Counted, Unarming
<1>6. Inv'
  BY <1>1, <1>2, <1>3, <1>4, <1>5, Zenon DEF Inv
<1>7. ASSUME NEW c \in Callers PROVE CallState(c)' = CallState(c)
  BY StateOf, StateOfPrime, Zenon
<1>8. [c \in Callers |-> CallState(c)]' = [c \in Callers |-> CallState(c)]
  BY <1>7, Zenon
<1>9. [c \in Callers |-> IF call[c].completed THEN call[c].reply ELSE "none"]'
        = [c \in Callers |-> IF call[c].completed THEN call[c].reply ELSE "none"]
  BY Zenon
<1>10. Crashed' = Crashed
  BY Zenon DEF Crashed
<1> QED
  BY <1>6, <1>8, <1>9, <1>10, Zenon DEF Abstract!vars

\* What the peer and the clock do moves no thread.
LEMMA StillKeeps ==
  ASSUME Inv, \/ HangUp \/ \E c \in Callers : Answer(c) \/ Expire(c)
  PROVE  Inv' /\ Refines
<1>1. UNCHANGED <<thread, call, incoming, n_incoming, io, dispatcher, crash>>
  BY Zenon DEF HangUp, Answer, Expire, paths, queues, timers
<1> QED
  BY <1>1, Unmoved, Zenon DEF Refines

\* The steps of a main loop that only move it on.
LEMMA LoopKeeps ==
  ASSUME Inv, NEW t \in Loops,
         \/ HandleWatch(t) \/ Watched(t) \/ Dispatch(t) \/ WantDispatch(t)
         \/ RunHandlers(t) \/ Close(t)
  PROVE  Inv' /\ Refines
<1>1. /\ TypeOK /\ t \in Threads /\ t \notin Callers
      /\ {"waitIo", "watched", "idle", "waitDispatch", "dispatched"} \subseteq Labels
      /\ UNCHANGED <<io, dispatcher, incoming, n_incoming, crash, call>>
  BY ClientAssumption, Zenon
     DEF Inv, HandleWatch, Watched, Dispatch, WantDispatch, RunHandlers, Close, Threads, shared,
         paths, queues, timers, Labels, LoopLabels
<1>2. Calm
  BY <1>1, SameCalm, Zenon
<1>3. ASSUME NEW l \in {"idle", "watched", "dispatch", "handlers"}
      PROVE  l \notin Waits \cup {"unarm"}
  BY Zenon DEF Waits
<1>4. /\ {"idle", "waitDispatch", "dispatched"} \subseteq PlainLoop
      /\ {"idle", "dispatch"} \subseteq NextOf(t) /\ "watched" \in RetOf(t)
  BY <1>1, Zenon DEF PlainLoop, NextOf, RetOf
<1>5. CASE HandleWatch(t)
  <2>1. PICK f \in {{"r"}, {"w"}} : thread[t].at = "idle" /\ GoIo(t, "waitIo", "watched", f)
    BY <1>5, Zenon DEF HandleWatch, At, GoIo
  <2>2. f \in SUBSET {"r", "w"}
    BY <2>1, Zenon
  <2>3. Lands(t, "waitIo", "watched", thread[t].next, thread[t].arg)
    BY <1>1, <2>1, <2>2, IoLands, Zenon
  <2> QED
    BY <1>1, <1>2, <1>3, <1>4, <2>1, <2>3, IoKeeps, Zenon
<1>6. CASE Watched(t)
  BY <1>1, <1>2, <1>3, <1>4, <1>6, StatusKeeps, Zenon DEF Watched, At
<1>7. CASE Dispatch(t)
  BY <1>1, <1>2, <1>3, <1>4, <1>7, StatusKeeps, Zenon DEF Dispatch, At
<1>8. CASE Close(t)
  BY <1>1, <1>2, <1>3, <1>4, <1>8, StatusKeeps, Zenon DEF Close, At
<1>9. CASE WantDispatch(t)
  <2>1. PICK l \in {"waitDispatch", "idle"} : thread[t].at = "dispatch" /\ Go(t, l)
    BY <1>9, Zenon DEF WantDispatch, At
  <2>2. Lands(t, l, thread[t].ret, thread[t].next, thread[t].arg)
    BY <1>1, <2>1, GoLands, Zenon
  <2> QED
    BY <1>1, <1>2, <1>3, <1>4, <2>1, <2>2, PlainKeeps, Zenon
<1>10. CASE RunHandlers(t)
  <2>1. thread[t].at = "handlers" /\ Go(t, "dispatched")
    BY <1>10, Zenon DEF RunHandlers, At
  <2>2. Lands(t, "dispatched", thread[t].ret, thread[t].next, thread[t].arg)
    BY <1>1, <2>1, GoLands, Zenon
  <2> QED
    BY <1>1, <1>2, <1>3, <1>4, <2>1, <2>2, PlainKeeps, Zenon
<1> QED
  BY <1>5, <1>6, <1>7, <1>8, <1>9, <1>10, Zenon

\* A main loop fires the timeout of a call ...
LEMMA FireTimerKeeps ==
  ASSUME Inv, NEW t \in Loops, NEW c \in Callers, FireTimer(t, c)
  PROVE  Inv' /\ Refines
<1>1. /\ TypeOK /\ t \in Threads /\ t \notin Callers /\ thread[t].at = "idle" /\ ~Crashed
      /\ "fireTimer" \in Labels
  BY ClientAssumption, Zenon DEF Inv, FireTimer, At, Threads, Labels, LoopLabels
<1>2. CASE Freed(c)
  BY <1>1, <1>2, DieKeeps, Zenon DEF FireTimer
<1>3. CASE ~Freed(c)
  <2>1. /\ incoming' \in Seq(Notes) /\ n_incoming' \in Int
        /\ n_incoming' - Len(incoming') = n_incoming - Len(incoming)
        /\ UNCHANGED <<io, dispatcher, crash>>
    BY <1>1, <1>3, TimeoutQueued, Zenon DEF FireTimer, paths
  <2>2. CASE ListThere
    <3>1. /\ call' = [call EXCEPT ![c].timeout_link = FALSE]
          /\ thread' = [thread EXCEPT ![t].at = "fireTimer", ![t].arg = c]
      BY <1>3, <2>2, Zenon DEF FireTimer
    <3>2. Calm
      BY <1>1, <2>1, <3>1, ZenonT(40) DEF Calm, TypeOK, CallType
    <3>3. Lands(t, "fireTimer", thread[t].ret, thread[t].next, c)
      BY <1>1, <3>1, PlaceLands, Zenon
    <3>4. thread'[t].at = "fireTimer" /\ thread'[t].arg = c /\ Quiet(t)
      BY <3>2, <3>3, Zenon DEF Lands, Quiet
    <3>5. Sane(t)' /\ Timely(t)'
      BY <1>1, <3>4, Zenon DEF Sane, Timely, LoopLabels, IoPath, Status, Ends
    <3>6. "idle" \notin Waits \cup {"unarm"} /\ "fireTimer" \notin Sleeps \cup {"unarm"}
      BY Zenon DEF Waits, Sleeps
    <3> QED
      BY <1>1, <3>4, <3>5, <3>6, QuietKeeps, Zenon
  <2>3. CASE ~ListThere
    <3>1. /\ call' = [call EXCEPT ![c].timeout_link = FALSE, ![c].timeout_added = FALSE]
          /\ AfterStatus(t, "idle")
      BY <1>3, <2>3, Zenon DEF FireTimer
    <3>2. Calm
      BY <1>1, <2>1, <3>1, ZenonT(40) DEF Calm, TypeOK, CallType
    <3>3. "idle" \notin Waits \cup {"unarm"} /\ "idle" \in NextOf(t)
      BY <1>1, Zenon DEF Waits, NextOf
    <3> QED
      BY <1>1, <3>1, <3>2, <3>3, StatusKeeps, Zenon
  <2> QED
    BY <2>2, <2>3, Zenon
<1> QED
  BY <1>2, <1>3, Zenon

\* ... and takes it off the list.
LEMMA TimerFiredKeeps ==
  ASSUME Inv, NEW t \in Loops, TimerFired(t)
  PROVE  Inv' /\ Refines
<1> DEFINE c == thread[t].arg
<1>1. /\ TypeOK /\ t \in Threads /\ t \notin Callers /\ thread[t].at = "fireTimer" /\ ~Crashed
      /\ c \in Callers
  BY ClientAssumption, Zenon DEF Inv, TimerFired, At, Threads, Sane
<1>2. CASE Freed(c)
  BY <1>1, <1>2, DieKeeps, Zenon DEF TimerFired
<1>3. CASE ~Freed(c)
  <2>1. /\ call' = [call EXCEPT ![c].timeout_added = FALSE] /\ AfterStatus(t, "idle")
        /\ UNCHANGED <<io, dispatcher, incoming, n_incoming, crash>>
    BY <1>3, Zenon DEF TimerFired, paths, queues
  <2>2. Calm
    <3> HIDE DEF c
    <3> QED
      BY <1>1, <2>1, Zenon DEF Calm, TypeOK, CallType
  <2>3. "fireTimer" \notin Waits \cup {"unarm"} /\ "idle" \in NextOf(t)
    BY <1>1, Zenon DEF Waits, NextOf
  <2> QED
    BY <1>1, <2>1, <2>2, <2>3, StatusKeeps, Zenon
<1> QED
  BY <1>2, <1>3, Zenon

\* A call is cancelled.
LEMMA CancelKeeps ==
  ASSUME Inv, NEW t \in Loops, NEW c \in Callers, Cancel(t, c)
  PROVE  Inv' /\ Refines
<1> DEFINE window == call[c].timeout_added /\ ListThere
<1>1. /\ TypeOK /\ t \in Threads /\ t \notin Callers /\ thread[t].at = "idle"
      /\ {"forget", "idle"} \subseteq Labels
      /\ UNCHANGED <<io, dispatcher, incoming, n_incoming, crash>>
  BY ClientAssumption, Zenon DEF Inv, Cancel, At, Threads, Labels, LoopLabels, paths, queues
<1>2. CASE window
  <2>1. /\ call' = [call EXCEPT ![c].attached = FALSE, ![c].timeout_added = TRUE]
        /\ GoArg(t, "forget", "idle", c)
    BY <1>2, Zenon DEF Cancel
  <2>2. Calm
    BY <1>1, <2>1, Zenon DEF Calm, TypeOK, CallType
  <2>3. Lands(t, "forget", "idle", thread[t].next, c)
    BY <1>1, <2>1, ArgLands, Zenon
  <2>4. "idle" \notin Waits \cup {"unarm"}
    BY Zenon DEF Waits
  <2> QED
    BY <1>1, <2>2, <2>3, <2>4, ForgetKeeps, Zenon
<1>3. CASE ~window
  <2>1. /\ call' = [call EXCEPT ![c].attached = FALSE, ![c].timeout_added = FALSE]
        /\ thread' = thread
    BY <1>3, Zenon DEF Cancel
  <2>2. Calm
    BY <1>1, <2>1, ZenonT(40) DEF Calm, TypeOK, CallType
  <2>3. Lands(t, "idle", thread[t].ret, thread[t].next, thread[t].arg)
    BY <1>1, <2>1, StayLands, Zenon
  <2>4. "idle" \notin Waits \cup {"unarm"} /\ "idle" \in PlainLoop
    BY Zenon DEF Waits, PlainLoop
  <2> QED
    BY <1>1, <2>2, <2>3, <2>4, PlainKeeps, Zenon
<1> QED
  BY <1>2, <1>3, Zenon
\* Threads that move along the paths, waking one another, keep the invariant when
\* no wake-up is lost.
LEMMA MovesKeep ==
  ASSUME Inv, UNCHANGED <<call, incoming, n_incoming, crash>>,
         thread' \in [Threads -> Labeled], NoLostWakeup',
         \A u \in Threads : /\ thread'[u].at = "unarm" <=> thread[u].at = "unarm"
                            /\ u \in Callers => Stage(thread'[u].at) = Stage(thread[u].at)
                            /\ Sane(u)'
                            /\ thread'[u] = thread[u] \/ Timely(u)'
  PROVE  Inv' /\ Refines
<1>1. TypeOK' /\ Counted'
  <2>1. Unarming' = Unarming
    BY Zenon DEF Unarming
  <2> QED
    BY <2>1, Zenon DEF Inv, TypeOK, Counted
<1>2. \A c \in Callers : thread[c].at \in Pre <=> thread'[c].at \in Pre
  BY Zenon DEF Stage, Pre, Unsent, Threads
<1>3. ASSUME NEW u \in Threads PROVE Timely(u)'
  <2>1. CASE thread'[u] = thread[u]
    <3>1. Timely(u) /\ Sane(u)
      BY Zenon DEF Inv
    <3>2. thread[u].at \in Ends => thread[u].arg \in Callers
      BY <3>1, Zenon DEF Sane
    <3> QED
      BY <1>2, <2>1, <3>1, <3>2, Zenon DEF Timely
  <2> QED
    BY <2>1, Zenon
<1>4. ASSUME NEW c \in Callers PROVE CallOk(c)'
  BY <1>2, Zenon DEF Inv, CallOk
<1>5. Inv'
  BY <1>1, <1>3, <1>4, Zenon DEF Inv
<1>6. ASSUME NEW c \in Callers PROVE CallState(c)' = CallState(c)
  <2>1. Stage(thread'[c].at) = Stage(thread[c].at)
    BY Zenon DEF Threads
  <2> QED
    BY <2>1, StateOf, StateOfPrime, Zenon
<1>7. [c \in Callers |-> CallState(c)]' = [c \in Callers |-> CallState(c)]
  BY <1>6, Zenon
<1>8. [c \in Callers |-> IF call[c].completed THEN call[c].reply ELSE "none"]'
        = [c \in Callers |-> IF call[c].completed THEN call[c].reply ELSE "none"]
  BY Zenon
<1>9. Crashed' = Crashed
  BY Zenon DEF Crashed
<1> QED
  BY <1>5, <1>7, <1>8, <1>9, Zenon DEF Refines, Abstract!vars

\* Places along the paths, each with what the thread that is there may be.
Along == {"waitIo", "waitIoTimed", "retryIo", "sleepIo", "sleepIoTimed", "poll", "read"}

\* One thread moves along the I/O path.
LEMMA AlongKeeps ==
  ASSUME Inv, UNCHANGED <<call, incoming, n_incoming, crash>>, NEW t \in Threads,
         thread[t].at \in Along, NEW l, NoLostWakeup',
         Lands(t, l, thread[t].ret, thread[t].next, thread[t].arg),
         \/ t \in Callers /\ l \in Along \cup {thread[t].ret}
         \/ t \in Loops /\ l \in {"read", "sleepIo"}
  PROVE  Inv' /\ Refines
<1>1. /\ TypeOK /\ thread[t] \in Labeled /\ Sane(t) /\ Timely(t)
      /\ t \in Callers <=> t \notin Loops
  BY Known, Zenon
<1>2. /\ thread'[t].at = l /\ thread'[t].ret = thread[t].ret /\ Others(t)
      /\ thread' \in [Threads -> Labeled]
  BY Zenon DEF Lands
<1>3. /\ thread[t].at \in IoPath
      /\ t \in Callers => thread[t].ret \in {"flush", "recheck"}
      /\ t \in Loops => thread[t].ret = "watched"
  BY <1>1, Zenon DEF Sane, Along, IoPath
<1>4. Sane(t)' /\ Timely(t)'
  BY <1>1, <1>2, <1>3, Zenon
     DEF Sane, Timely, Along, CallerLabels, LoopLabels, IoPath, Status, Ends
<1>5. /\ l # "unarm" /\ thread[t].at # "unarm"
      /\ Stage(l) = "sent" /\ Stage(thread[t].at) = "sent"
  BY <1>1, <1>3, Zenon DEF Along, Stage, Unsent
<1>6. ASSUME NEW u \in Threads
      PROVE  /\ thread'[u].at = "unarm" <=> thread[u].at = "unarm"
             /\ u \in Callers => Stage(thread'[u].at) = Stage(thread[u].at)
             /\ Sane(u)'
             /\ thread'[u] = thread[u] \/ Timely(u)'
  <2>1. CASE u = t
    BY <1>2, <1>4, <1>5, <2>1, Zenon
  <2>2. CASE u # t
    <3>1. thread'[u] = thread[u] /\ Sane(u)
      BY <1>2, <2>2, Zenon DEF Others, Inv
    <3>2. Sane(u)'
      BY <3>1, Zenon DEF Sane
    <3> QED
      BY <3>1, <3>2, Zenon
  <2> QED
    BY <2>1, <2>2, Zenon
<1> QED
  BY <1>2, <1>6, MovesKeep, Zenon

\* A thread takes the I/O path, or finds it taken: no wake-up is lost.
LEMMA TakenKeeps ==
  ASSUME Inv, NEW t \in Threads, thread[t].at \in Along, Others(t),
         thread'[t].at # "sleepDispatch", io' # Nobody, UNCHANGED dispatcher
  PROVE  NoLostWakeup'
  BY Zenon DEF Inv, NoLostWakeup, Others, Along

\* The steps that take the I/O path or sleep until it is free.
LEMMA AcquireIoKeeps ==
  ASSUME Inv, NEW t \in Threads,
         AcquireIo(t) \/ SleepIo(t) \/ SleptEnough(t) \/ RetryIo(t)
  PROVE  Inv' /\ Refines
<1>1. /\ TypeOK /\ thread[t] \in Labeled /\ Sane(t) /\ Timely(t)
      /\ t \in Callers <=> t \notin Loops
  BY Known, Zenon
<1>2. /\ UNCHANGED <<call, incoming, n_incoming, crash, dispatcher>>
      /\ t # Nobody /\ io' # Nobody
  BY ClientAssumption, Zenon
     DEF AcquireIo, SleepIo, SleptEnough, RetryIo, shared, paths, queues, timers
<1>3. thread[t].at \in IoPath => thread[t].ret \in Labels
  BY <1>1, Zenon DEF Labeled
<1>4. PICK l \in Labels :
        /\ Go(t, l) /\ thread[t].at \in Along /\ l # "sleepDispatch"
        /\ \/ t \in Callers /\ l \in Along \cup {thread[t].ret}
           \/ t \in Loops /\ l \in {"read", "sleepIo"}
  <2>1. {"read", "poll", "sleepIo", "sleepIoTimed"} \subseteq Labels
    BY Zenon DEF Labels, CallerLabels, IoPath
  <2>2. thread[t].at \in {"retryIo", "sleepIoTimed", "waitIoTimed"} => t \in Callers
    BY <1>1, Zenon DEF Sane, LoopLabels, Status, Ends
  <2>3. thread[t].at \in IoPath /\ t \in Callers => thread[t].ret \in {"flush", "recheck"}
    BY <1>1, Zenon DEF Sane
  <2>4. CASE AcquireIo(t)
    BY <1>1, <2>1, <2>4, Zenon DEF AcquireIo, At, Along
  <2>5. CASE SleepIo(t)
    BY <1>1, <2>1, <2>2, <2>5, Zenon DEF SleepIo, At, Along
  <2>6. CASE SleptEnough(t)
    BY <1>1, <1>3, <2>1, <2>2, <2>3, <2>6, Zenon
       DEF SleptEnough, At, Along, IoPath
  <2>7. CASE RetryIo(t)
    BY <1>1, <1>3, <2>1, <2>2, <2>3, <2>7, Zenon
       DEF RetryIo, At, Along, IoPath
  <2> QED
    BY <2>4, <2>5, <2>6, <2>7, Zenon
<1>5. Lands(t, l, thread[t].ret, thread[t].next, thread[t].arg)
  BY <1>1, <1>4, GoLands, Zenon
<1>6. NoLostWakeup'
  BY <1>2, <1>4, <1>5, TakenKeeps, Zenon DEF Lands
<1> QED
  BY <1>2, <1>4, <1>5, <1>6, AlongKeeps, Zenon

\* The wait on the socket ends.
LEMMA PollKeeps ==
  ASSUME Inv, NEW t \in Threads, PollReturns(t)
  PROVE  Inv' /\ Refines
<1>1. /\ TypeOK /\ thread[t] \in Labeled /\ Sane(t) /\ Timely(t)
      /\ t \in Callers <=> t \notin Loops
  BY Known, Zenon
<1>2. /\ thread[t].at = "poll" /\ Go(t, "read") /\ "read" \in Labels
      /\ UNCHANGED <<io, dispatcher, incoming, n_incoming, crash, call>>
  BY Zenon DEF PollReturns, At, Labels, CallerLabels, IoPath, shared, paths, queues, timers
<1>3. t \in Callers /\ thread[t].ret \in RetOf(t)
  BY <1>1, <1>2, Zenon DEF Sane, LoopLabels, Status, Ends, RetOf, IoPath
<1>4. Lands(t, "read", thread[t].ret, thread[t].next, thread[t].arg)
  BY <1>1, <1>2, GoLands, Zenon
<1>5. "poll" \notin Waits \cup {"unarm"} /\ Stage("poll") = "sent"
  BY Zenon DEF Waits, Stage, Unsent
<1>6. Calm
  BY <1>1, <1>2, SameCalm, Zenon
<1> QED
  BY <1>2, <1>3, <1>4, <1>5, <1>6, IoKeeps, Zenon

\* A main loop takes the dispatcher, or finds it taken.
LEMMA AcquireDispatchKeeps ==
  ASSUME Inv, NEW t \in Loops, AcquireDispatch(t)
  PROVE  Inv' /\ Refines
<1>1. /\ TypeOK /\ t \in Threads /\ t \notin Callers /\ thread[t].at = "waitDispatch"
      /\ UNCHANGED <<call, incoming, n_incoming, crash, io>>
      /\ t # Nobody /\ dispatcher' # Nobody
  BY ClientAssumption, Zenon DEF Inv, AcquireDispatch, At, Threads, queues, timers
<1>2. PICK l \in {"pop", "sleepDispatch"} : Go(t, l)
  BY Zenon DEF AcquireDispatch
<1>3. l \in Labels
  BY <1>2, Zenon DEF Labels, LoopLabels
<1>4. Lands(t, l, thread[t].ret, thread[t].next, thread[t].arg)
  BY <1>1, <1>2, <1>3, GoLands, Zenon
<1>5. thread'[t].at = l /\ Others(t) /\ thread' \in [Threads -> Labeled]
  BY <1>4, Zenon DEF Lands
<1>6. NoLostWakeup'
  BY <1>1, <1>2, <1>5, Zenon DEF Inv, NoLostWakeup, Others
<1>7. Sane(t)' /\ Timely(t)'
  BY <1>1, <1>2, <1>5, Zenon DEF Sane, Timely, LoopLabels, IoPath, Status, Ends
<1>8. ASSUME NEW u \in Threads
      PROVE  /\ thread'[u].at = "unarm" <=> thread[u].at = "unarm"
             /\ u \in Callers => Stage(thread'[u].at) = Stage(thread[u].at)
             /\ Sane(u)'
             /\ thread'[u] = thread[u] \/ Timely(u)'
  <2>1. CASE u = t
    BY <1>1, <1>2, <1>5, <1>7, <2>1, Zenon
  <2>2. CASE u # t
    <3>1. thread'[u] = thread[u] /\ Sane(u)
      BY <1>5, <2>2, Zenon DEF Others, Inv
    <3>2. Sane(u)'
      BY <3>1, Zenon DEF Sane
    <3> QED
      BY <3>1, <3>2, Zenon
  <2> QED
    BY <2>1, <2>2, Zenon
<1> QED
  BY <1>1, <1>5, <1>6, <1>8, MovesKeep, Zenon

\* The thread that has the I/O path gives it up and wakes a sleeper.
LEMMA DoneReadingKeeps ==
  ASSUME Inv, NEW t \in Threads, DoneReading(t)
  PROVE  Inv' /\ Refines
<1> DEFINE mine == [thread EXCEPT ![t].at = thread[t].ret, ![t].ret = "idle", ![t].flags = {}]
<1>1. /\ TypeOK /\ thread[t] \in Labeled /\ Sane(t) /\ Timely(t)
      /\ t \in Callers <=> t \notin Loops
  BY Known, Zenon
<1>2. /\ UNCHANGED <<call, incoming, n_incoming, crash, dispatcher>>
      /\ thread[t].at = "read" /\ io' = Nobody /\ "idle" \in Labels
      /\ \/ Sleepers = {} /\ thread' = mine
         \/ \E u \in Sleepers : thread' = [mine EXCEPT ![u].at = Woken(u)]
  BY Zenon DEF DoneReading, ReleaseIo, At, timers, Labels, CallerLabels
<1>3. /\ mine \in [Threads -> Labeled] /\ mine[t].at = thread[t].ret
      /\ \A u \in Threads \ {t} : mine[u] = thread[u]
  BY <1>1, <1>2, Zenon DEF Labeled, TypeOK
<1>4. thread[t].ret \in (IF t \in Callers THEN {"flush", "recheck"} ELSE {"watched"})
  BY <1>1, <1>2, Zenon DEF Sane, IoPath
<1> HIDE DEF mine
<1>5. ASSUME NEW u \in Sleepers
      PROVE  /\ u \in Threads /\ u # t /\ Sane(u) /\ Woken(u) \in Labels
             /\ IF u \in Callers THEN Woken(u) \in {"waitIo", "retryIo"} ELSE Woken(u) = "waitIo"
             /\ thread[u].at \in {"sleepIo", "sleepIoTimed"}
  <2>1. u \in Threads /\ u # t /\ thread[u].at \in {"sleepIo", "sleepIoTimed"}
    BY <1>2, Zenon DEF Sleepers
  <2>2. Sane(u) /\ (u \in Callers <=> u \notin Loops)
    BY <2>1, Known, Zenon
  <2>3. u \notin Callers => thread[u].at = "sleepIo"
    BY <2>1, <2>2, Zenon DEF Sane, LoopLabels, Status, Ends
  <2> QED
    BY <2>1, <2>2, <2>3, Zenon DEF Woken, Labels, CallerLabels, IoPath
<1>6. PICK w \in SUBSET Sleepers :
        /\ Sleepers # {} => w # {}
        /\ thread' \in [Threads -> Labeled]
        /\ thread'[t].at = thread[t].ret
        /\ \A u \in Threads \ {t} : IF u \in w THEN thread'[u] = [thread[u] EXCEPT !.at = Woken(u)]
                                               ELSE thread'[u] = thread[u]
  <2>1. CASE Sleepers = {} /\ thread' = mine
    BY <1>3, <2>1, Zenon
  <2>2. ASSUME NEW u \in Sleepers, thread' = [mine EXCEPT ![u].at = Woken(u)]
        PROVE  /\ {u} \in SUBSET Sleepers /\ {u} # {}
               /\ thread' \in [Threads -> Labeled]
               /\ thread'[t].at = thread[t].ret
               /\ \A v \in Threads \ {t} :
                    IF v \in {u} THEN thread'[v] = [thread[v] EXCEPT !.at = Woken(v)]
                                 ELSE thread'[v] = thread[v]
    BY <1>3, <1>5, <2>2, ZenonT(40) DEF Labeled
  <2> QED
    BY <1>2, <2>1, <2>2, Zenon
<1>7. NoLostWakeup'
  <2>1. ASSUME NEW u \in Threads, thread'[u].at \in {"sleepIo", "sleepIoTimed"}
        PROVE  \E v \in Threads : thread'[v].at \in {"waitIo", "waitIoTimed", "retryIo"}
    <3>1. u # t
      BY <1>4, <1>6, <2>1, Zenon
    <3>2. u \in Sleepers
      BY <1>5, <1>6, <2>1, <3>1, Zenon DEF Sleepers
    <3>3. PICK v \in w : v \in Sleepers
      BY <1>6, <3>2, Zenon
    <3>4. thread'[v].at = Woken(v) /\ v \in Threads
      BY <1>1, <1>5, <1>6, <3>3, SMTT(30) DEF Labeled, TypeOK
    <3> QED
      BY <1>5, <3>3, <3>4, Zenon
  <2>2. ASSUME NEW u \in Threads
        PROVE  /\ thread'[u].at = "sleepDispatch" <=> thread[u].at = "sleepDispatch"
               /\ thread'[u].at = "waitDispatch" <=> thread[u].at = "waitDispatch"
    <3>1. CASE u = t
      BY <1>2, <1>4, <1>6, <3>1, Zenon
    <3>2. CASE u # t /\ u \in w
      BY <1>1, <1>5, <1>6, <3>2, ZenonT(40) DEF Labeled, TypeOK
    <3>3. CASE u # t /\ u \notin w
      BY <1>6, <3>3, Zenon
    <3> QED
      BY <3>1, <3>2, <3>3, Zenon
  <2> QED
    BY <1>2, <2>1, <2>2, Zenon DEF Inv, NoLostWakeup
<1>8. ASSUME NEW u \in Threads
      PROVE  /\ thread'[u].at = "unarm" <=> thread[u].at = "unarm"
             /\ u \in Callers => Stage(thread'[u].at) = Stage(thread[u].at)
             /\ Sane(u)'
             /\ thread'[u] = thread[u] \/ Timely(u)'
  <2>1. CASE u = t
    <3>1. Sane(u)' /\ Timely(u)'
      BY <1>1, <1>4, <1>6, <2>1, Zenon
         DEF Sane, Timely, CallerLabels, LoopLabels, IoPath, Status, Ends
    <3>2. Stage("read") = "sent" /\ (u \in Callers => Stage(thread[u].ret) = "sent")
      BY <1>4, <2>1, Zenon DEF Stage, Unsent
    <3> QED
      BY <1>2, <1>4, <1>6, <2>1, <3>1, <3>2, Zenon
  <2>2. CASE u # t /\ u \in w
    <3>1. /\ thread'[u].at = Woken(u) /\ thread'[u].ret = thread[u].ret
          /\ Sane(u) /\ thread[u].at \in {"sleepIo", "sleepIoTimed"}
          /\ IF u \in Callers THEN Woken(u) \in {"waitIo", "retryIo"} ELSE Woken(u) = "waitIo"
      BY <1>1, <1>5, <1>6, <2>2 DEF Labeled, TypeOK
    <3>2. u \in Callers <=> u \notin Loops
      BY Known, Zenon
    <3>3. Sane(u)' /\ Timely(u)'
      BY <3>1, <3>2, Zenon
         DEF Sane, Timely, CallerLabels, LoopLabels, IoPath, Status, Ends
    <3>4. Stage(thread'[u].at) = Stage(thread[u].at)
      BY <3>1, Zenon DEF Stage, Unsent
    <3> QED
      BY <3>1, <3>3, <3>4, Zenon
  <2>3. CASE u # t /\ u \notin w
    <3>1. thread'[u] = thread[u] /\ Sane(u)
      BY <1>6, <2>3, Zenon DEF Inv
    <3>2. Sane(u)'
      BY <3>1, Zenon DEF Sane
    <3> QED
      BY <3>1, <3>2, Zenon
  <2> QED
    BY <2>1, <2>2, <2>3, Zenon
<1> QED
  BY <1>2, <1>6, <1>7, <1>8, MovesKeep, Zenon

\* The main loop that dispatches gives the dispatcher up and wakes a sleeper.
LEMMA ReleaseDispatchKeeps ==
  ASSUME Inv, NEW t \in Loops, ReleaseDispatch(t), thread[t].at \in {"pop", "dispatched"},
         UNCHANGED <<call, incoming, n_incoming, crash, io>>
  PROVE  Inv' /\ Refines
<1> DEFINE sleepers == {u \in Threads : thread[u].at = "sleepDispatch"}
           mine == [thread EXCEPT ![t] = IF StatusKnown THEN Start ELSE Fresh("status")]
<1>1. /\ TypeOK /\ t \in Threads /\ t \notin Callers /\ "waitDispatch" \in Labels
  BY ClientAssumption, Zenon DEF Inv, Threads, Labels, LoopLabels
<1>2. /\ dispatcher' = Nobody
      /\ \/ sleepers = {} /\ thread' = mine
         \/ \E u \in sleepers : thread' = [mine EXCEPT ![u].at = "waitDispatch"]
  BY Zenon DEF ReleaseDispatch
<1>3. /\ mine \in [Threads -> Labeled] /\ mine[t].at \in {"idle", "status"} /\ mine[t].next = "idle"
      /\ \A u \in Threads \ {t} : mine[u] = thread[u]
  <2>1. CASE StatusKnown
    BY <1>1, <2>1, Zenon DEF Labeled, TypeOK, Start, Labels, LoopLabels
  <2>2. CASE ~StatusKnown
    BY <1>1, <2>2, Zenon
       DEF Labeled, TypeOK, Start, Fresh, Labels, LoopLabels, Status
  <2> QED
    BY <2>1, <2>2, Zenon
<1> HIDE DEF mine
<1>4. ASSUME NEW u \in sleepers
      PROVE  u \in Threads /\ u # t /\ u \notin Callers /\ thread[u].at = "sleepDispatch"
  <2>1. Sane(u) /\ thread[u].at = "sleepDispatch"
    BY Zenon DEF Inv
  <2> QED
    BY <2>1, Zenon DEF Sane, CallerLabels, IoPath, Status, Ends
<1>5. PICK w \in SUBSET sleepers :
        /\ sleepers # {} => w # {}
        /\ thread' \in [Threads -> Labeled]
        /\ thread'[t].at \in {"idle", "status"} /\ thread'[t].next = "idle"
        /\ \A u \in Threads \ {t} : IF u \in w THEN thread'[u] = [thread[u] EXCEPT !.at = "waitDispatch"]
                                               ELSE thread'[u] = thread[u]
  <2>1. CASE sleepers = {} /\ thread' = mine
    BY <1>3, <2>1, Zenon
  <2>2. ASSUME NEW u \in sleepers, thread' = [mine EXCEPT ![u].at = "waitDispatch"]
        PROVE  /\ {u} \in SUBSET sleepers /\ {u} # {}
               /\ thread' \in [Threads -> Labeled]
               /\ thread'[t].at \in {"idle", "status"} /\ thread'[t].next = "idle"
               /\ \A v \in Threads \ {t} :
                    IF v \in {u} THEN thread'[v] = [thread[v] EXCEPT !.at = "waitDispatch"]
                                 ELSE thread'[v] = thread[v]
    BY <1>1, <1>3, <1>4, <2>2, ZenonT(40) DEF Labeled
  <2> QED
    BY <1>2, <2>1, <2>2, Zenon
<1>6. ASSUME NEW u \in Threads, u # t, u \in w
      PROVE  /\ thread'[u].at = "waitDispatch" /\ thread[u].at = "sleepDispatch"
             /\ u \notin Callers
  BY <1>1, <1>4, <1>5, <1>6, ZenonT(40) DEF Labeled, TypeOK
<1>7. NoLostWakeup'
  <2>1. ASSUME NEW u \in Threads, thread'[u].at = "sleepDispatch"
        PROVE  \E v \in Threads : thread'[v].at = "waitDispatch"
    <3>1. u # t
      BY <1>5, <2>1, Zenon
    <3>2. u \in sleepers
      BY <1>5, <1>6, <2>1, <3>1, Zenon
    <3>3. PICK v \in w : v \in sleepers
      BY <1>5, <3>2, Zenon
    <3> QED
      BY <1>4, <1>6, <3>3, Zenon
  <2>2. ASSUME NEW u \in Threads, NEW l \in Along
        PROVE  thread'[u].at = l <=> thread[u].at = l
    <3>1. CASE u = t
      BY <1>5, <3>1, Zenon DEF Along
    <3>2. CASE u # t /\ u \in w
      BY <1>6, <3>2, Zenon DEF Along
    <3>3. CASE u # t /\ u \notin w
      BY <1>5, <3>3, Zenon
    <3> QED
      BY <3>1, <3>2, <3>3, Zenon
  <2> QED
    BY <1>2, <2>1, <2>2, Zenon DEF Inv, NoLostWakeup, Along
<1>8. ASSUME NEW u \in Threads
      PROVE  /\ thread'[u].at = "unarm" <=> thread[u].at = "unarm"
             /\ u \in Callers => Stage(thread'[u].at) = Stage(thread[u].at)
             /\ Sane(u)'
             /\ thread'[u] = thread[u] \/ Timely(u)'
  <2>1. CASE u = t
    <3>1. Sane(u)' /\ Timely(u)'
      BY <1>1, <1>5, <2>1, Zenon
         DEF Sane, Timely, LoopLabels, IoPath, Status, Ends
    <3> QED
      BY <1>1, <1>5, <2>1, <3>1, Zenon
  <2>2. CASE u # t /\ u \in w
    <3>1. Sane(u)' /\ Timely(u)'
      BY <1>6, <2>2, Zenon
         DEF Sane, Timely, LoopLabels, IoPath, Status, Ends
    <3> QED
      BY <1>6, <2>2, <3>1, Zenon
  <2>3. CASE u # t /\ u \notin w
    <3>1. thread'[u] = thread[u] /\ Sane(u)
      BY <1>5, <2>3, Zenon DEF Inv
    <3>2. Sane(u)'
      BY <3>1, Zenon DEF Sane
    <3> QED
      BY <3>1, <3>2, Zenon
  <2> QED
    BY <2>1, <2>2, <2>3, Zenon
<1> QED
  BY <1>5, <1>7, <1>8, MovesKeep, Zenon
\* A thread that reads a message queues it and, with the lock dropped before it is
\* counted, or after, unarms the timeout of its call.
LEMMA ReadKeeps ==
  ASSUME Inv, TypeOK', Counted', NEW t \in Threads, Others(t),
         UNCHANGED <<io, dispatcher, crash>>,
         {thread[t].at, thread'[t].at} = {"read", "unarm"},
         thread'[t].ret = thread[t].ret, thread'[t].at = "unarm" => thread'[t].arg \in Callers,
         \A c \in Callers : /\ call'[c].completed = call[c].completed
                            /\ call'[c].reply = call[c].reply
                            /\ call'[c].attached = call[c].attached
  PROVE  Inv' /\ Refines
<1>1. /\ TypeOK /\ thread[t] \in Labeled /\ Sane(t) /\ Timely(t)
      /\ t \in Callers <=> t \notin Loops
  BY Known, Zenon
<1>2. thread[t].at \in {"read", "unarm"} /\ thread'[t].at \in {"read", "unarm"}
  BY Zenon
<1>3. Sane(t)' /\ Timely(t)'
  BY <1>1, <1>2, Zenon
     DEF Sane, Timely, CallerLabels, LoopLabels, IoPath, Status, Ends
<1>4. /\ thread[t].at \notin Waits \cup Pre /\ thread'[t].at \notin Sleeps \cup Pre
      /\ Stage(thread[t].at) = "sent" /\ Stage(thread'[t].at) = "sent"
  BY <1>2, Zenon DEF Waits, Sleeps, Pre, Unsent, Stage
<1>5. NoLostWakeup'
  <2>1. NoLostWakeup /\ UNCHANGED <<io, dispatcher>>
    BY Zenon DEF Inv
  <2>2. thread[t].at \notin Waits /\ thread'[t].at \notin Sleeps
    BY <1>4, Zenon
  <2> QED
    BY <2>1, <2>2, WakeKept, Zenon
<1>6. CallsGrow
  BY Zenon DEF CallsGrow
<1>7. \A u \in Threads : Sane(u)' /\ Timely(u)'
  <2>1. thread'[t].at \notin Pre
    BY <1>4, Zenon
  <2> QED
    BY <1>3, <1>6, <2>1, PlacesKept, Zenon
<1>8. ASSUME NEW c \in Callers PROVE CallOk(c)'
  <2>1. thread[c].at \notin Pre => thread'[c].at \notin Pre
    BY <1>4, Zenon DEF Others, Threads
  <2>2. /\ CallOk(c) /\ call'[c].completed = call[c].completed
        /\ call'[c].reply = call[c].reply /\ call'[c].attached = call[c].attached
    BY Zenon DEF Inv
  <2> QED
    BY <2>1, <2>2, Zenon DEF CallOk
<1>9. UNCHANGED Abstract!vars
  BY <1>4, Stutters, Zenon
<1> QED
  BY <1>5, <1>7, <1>8, <1>9, Zenon DEF Inv, Refines

\* A message is read ...
LEMMA DoReadingKeeps ==
  ASSUME Inv, NEW t \in Threads, NEW c \in Callers, DoReading(t, c)
  PROVE  Inv' /\ Refines
<1>1. /\ TypeOK /\ thread[t] \in Labeled /\ Sane(t) /\ Timely(t)
      /\ t \in Callers <=> t \notin Loops
  BY Known, Zenon
<1>2. /\ thread[t].at = "read" /\ "unarm" \in Labels
      /\ incoming' = Append(incoming, Note("reply", c))
      /\ UNCHANGED <<io, dispatcher, crash>> /\ Note("reply", c) \in Notes
  BY Zenon DEF DoReading, At, paths, Note, Notes, Results, Labels, CallerLabels, IoPath
<1>3. /\ incoming' \in Seq(Notes) /\ Len(incoming') = Len(incoming) + 1
      /\ Len(incoming) \in Nat /\ n_incoming \in Int
  BY <1>1, <1>2 DEF TypeOK
<1>4. CASE call[c].attached /\ call[c].timeout_added /\ ListThere
  <2>1. /\ thread' = [thread EXCEPT ![t].at = "unarm", ![t].arg = c]
        /\ UNCHANGED <<call, n_incoming>>
    BY <1>4, Zenon DEF DoReading
  <2>2. Lands(t, "unarm", thread[t].ret, thread[t].next, c)
    BY <1>1, <1>2, <2>1, PlaceLands, Zenon
  <2>3. /\ thread' \in [Threads -> Labeled] /\ Others(t) /\ thread'[t].at = "unarm"
        /\ thread'[t].ret = thread[t].ret /\ thread'[t].arg = c
    BY <2>2, Zenon DEF Lands
  <2>4. TypeOK'
    BY <1>1, <1>3, <2>1, <2>3, Zenon DEF TypeOK
  <2>5. Unarming' = Unarming \cup {t} /\ t \notin Unarming
    BY <1>2, <2>3, Zenon DEF Unarming, Others
  <2>6. IsFiniteSet(Unarming) /\ Cardinality(Unarming) \in Nat
    BY UnarmingFinite, Zenon DEF Unarming
  <2>7. Cardinality(Unarming') = Cardinality(Unarming) + 1
    BY <2>5, <2>6, FS_AddElement, Zenon
  <2>8. Counted'
    <3>1. n_incoming = Len(incoming) - Cardinality(Unarming)
      BY Zenon DEF Inv, Counted
    <3>2. n_incoming' = Len(incoming') - Cardinality(Unarming')
      BY <1>3, <2>1, <2>6, <2>7, <3>1
    <3> QED
      BY <3>2, Zenon DEF Counted
  <2> QED
    BY <1>2, <2>1, <2>3, <2>4, <2>8, ReadKeeps, Zenon
<1>5. CASE ~(call[c].attached /\ call[c].timeout_added /\ ListThere)
  <2>1. /\ n_incoming' = n_incoming + 1 /\ thread' = thread
        /\ call' = IF call[c].attached THEN [call EXCEPT ![c].timeout_added = FALSE] ELSE call
    BY <1>5, Zenon DEF DoReading
  <2>2. Calm
    <3>1. /\ incoming' \in Seq(Notes) /\ n_incoming' \in Int
          /\ n_incoming' - Len(incoming') = n_incoming - Len(incoming)
      BY <1>3, <2>1
    <3> QED
      BY <1>1, <1>2, <2>1, <3>1, Zenon DEF Calm, TypeOK, CallType
  <2>3. Quiet(t)
    BY <1>1, <2>1, <2>2, Zenon DEF Quiet, Others, TypeOK
  <2>4. Sane(t)' /\ Timely(t)'
    BY <1>1, <1>2, <2>1, Zenon DEF Sane, Timely, IoPath, Status, Ends
  <2>5. "read" \notin Waits \cup Sleeps \cup {"unarm"}
    BY Zenon DEF Waits, Sleeps
  <2> QED
    BY <1>2, <2>1, <2>3, <2>4, <2>5, QuietKeeps, Zenon
<1> QED
  BY <1>4, <1>5, Zenon

\* ... and counted.
LEMMA UnarmKeeps ==
  ASSUME Inv, NEW t \in Threads, Unarm(t)
  PROVE  Inv' /\ Refines
<1> DEFINE c == thread[t].arg
<1>1. /\ TypeOK /\ thread[t] \in Labeled /\ Sane(t) /\ Timely(t)
      /\ t \in Callers <=> t \notin Loops
  BY Known, Zenon
<1>2. /\ thread[t].at = "unarm" /\ ~Crashed /\ "read" \in Labels /\ c \in Callers
  BY <1>1, Zenon DEF Unarm, At, Sane, Labels, CallerLabels, IoPath
<1>3. CASE Freed(c)
  BY <1>2, <1>3, DieKeeps, Zenon DEF Unarm
<1>4. CASE ~Freed(c)
  <2>1. /\ call' = [call EXCEPT ![c].timeout_added = FALSE]
        /\ n_incoming' = n_incoming + 1
        /\ thread' = [thread EXCEPT ![t].at = "read", ![t].arg = Nobody]
        /\ UNCHANGED <<io, dispatcher, crash, incoming>>
    BY <1>4, Zenon DEF Unarm, CountMessage, paths
  <2>2. Lands(t, "read", thread[t].ret, thread[t].next, Nobody)
    BY <1>1, <1>2, <2>1, PlaceLands, Zenon
  <2>3. /\ thread' \in [Threads -> Labeled] /\ Others(t) /\ thread'[t].at = "read"
        /\ thread'[t].ret = thread[t].ret
    BY <2>2, Zenon DEF Lands
  <2>4. /\ call' \in [Callers -> CallType]
        /\ \A d \in Callers : /\ call'[d].completed = call[d].completed
                              /\ call'[d].reply = call[d].reply
                              /\ call'[d].attached = call[d].attached
    <3> HIDE DEF c
    <3> QED
      BY <1>1, <1>2, <2>1, Zenon DEF TypeOK, CallType
  <2>5. TypeOK'
    BY <1>1, <2>1, <2>3, <2>4 DEF TypeOK
  <2>6. Unarming' = Unarming \ {t} /\ t \in Unarming
    BY <1>2, <2>3, Zenon DEF Unarming, Others
  <2>7. IsFiniteSet(Unarming) /\ Cardinality(Unarming) \in Nat
    BY UnarmingFinite, Zenon DEF Unarming
  <2>8. Cardinality(Unarming') = Cardinality(Unarming) - 1
    BY <2>6, <2>7, FS_RemoveElement, Zenon
  <2>9. Counted'
    <3>1. n_incoming = Len(incoming) - Cardinality(Unarming)
      BY Zenon DEF Inv, Counted
    <3>2. Len(incoming) \in Nat
      BY <1>1 DEF TypeOK
    <3>3. n_incoming' = Len(incoming') - Cardinality(Unarming')
      BY <2>1, <2>7, <2>8, <3>1, <3>2, SMTT(30)
    <3> QED
      BY <3>3, Zenon DEF Counted
  <2> QED
    BY <1>2, <2>1, <2>3, <2>4, <2>5, <2>9, ReadKeeps
<1> QED
  BY <1>3, <1>4, Zenon
-----------------------------------------------------------------------------
(***************************************************************************)
(* Completing calls.                                                       *)
(***************************************************************************)

\* A thread that sets the reply of a call, or finds it set, goes on to complete it.
LEMMA CompleteKeeps ==
  ASSUME Inv, ~Crashed, NEW t \in Threads, NEW c \in Callers, NEW kind \in Results,
         NEW useLink, NEW r, NEW queue \in Seq(Notes),
         CompletePendingCall(t, c, kind, useLink, r, queue),
         thread[t].at \notin Waits \cup {"unarm"}, thread[c].at \notin Pre,
         IF t \in Callers THEN c = t /\ r \in {"last", "steal"} /\ Stage(thread[t].at) = "sent"
                          ELSE r = "dispatched"
  PROVE  Inv' /\ Refines
<1>1. /\ TypeOK /\ thread[t] \in Labeled /\ Sane(t) /\ Timely(t)
      /\ t \in Callers <=> t \notin Loops
  BY Known, Zenon
<1>2. CASE SetReplyFails(c, useLink)
  <2>1. PICK why \in {"no timeout error", "second reply"} : Die(why)
    BY <1>2, Zenon DEF CompletePendingCall
  <2> QED
    BY <2>1, DieKeeps, Zenon
<1>3. CASE ~SetReplyFails(c, useLink)
  <2>1. /\ call' = [call EXCEPT ![c].reply = kind, ![c].attached = FALSE,
                      ![c].timeout_link = @ /\ ~useLink,
                      ![c].timeout_added = (call[c].timeout_added /\ ListThere)]
        /\ incoming' = queue
        /\ n_incoming' = n_incoming - (Len(incoming) - Len(queue))
        /\ UNCHANGED <<io, dispatcher, crash>>
        /\ call[c].reply = "none"
    BY <1>3, Zenon
       DEF CompletePendingCall, DetachPendingCall, paths, SetReplyFails
  <2>2. PICK l \in Ends : GoArg(t, l, r, c)
    BY <1>3, Zenon DEF CompletePendingCall, Ends
  <2>3. l \in Labels /\ r \in Labels
    BY <2>2, Zenon DEF Ends, Labels, CallerLabels, LoopLabels
  <2>4. Lands(t, l, r, thread[t].next, c)
    BY <1>1, <2>2, <2>3, ArgLands, Zenon
  <2>5. /\ thread' \in [Threads -> Labeled] /\ Others(t)
        /\ thread'[t].at = l /\ thread'[t].ret = r /\ thread'[t].arg = c
    BY <2>4, Zenon DEF Lands
  <2>6. /\ call' \in [Callers -> CallType]
        /\ \A d \in Callers \ {c} : call'[d] = call[d]
        /\ call'[c].reply = kind /\ call'[c].completed = call[c].completed
        /\ call'[c].attached = FALSE
    <3> DEFINE a == call[c].timeout_link /\ ~useLink
               b == call[c].timeout_added /\ ListThere
               R == [call[c] EXCEPT !.reply = kind, !.attached = FALSE,
                                    !.timeout_link = a, !.timeout_added = b]
    <3>1. a \in BOOLEAN /\ b \in BOOLEAN
      BY Zenon
    <3>2. call' = [call EXCEPT ![c] = R]
      <4> HIDE DEF a, b
      <4>1. call' = [call EXCEPT ![c].reply = kind, ![c].attached = FALSE,
                       ![c].timeout_link = a, ![c].timeout_added = b]
        BY <2>1, Zenon DEF a, b
      <4> QED
        BY <1>1, <4>1, Zenon DEF TypeOK
    <3> HIDE DEF a, b
    <3>3. /\ R \in CallType /\ R.reply = kind /\ R.attached = FALSE
          /\ R.completed = call[c].completed
      BY <1>1, <3>1, Zenon DEF TypeOK, CallType
    <3> HIDE DEF R
    <3> QED
      BY <1>1, <3>2, <3>3, Zenon DEF TypeOK
  <2>7. Len(incoming) \in Nat /\ Len(queue) \in Nat /\ n_incoming \in Int
    BY <1>1 DEF TypeOK
  <2>8. n_incoming' \in Int /\ n_incoming' - Len(incoming') = n_incoming - Len(incoming)
    BY <2>1, <2>7
  <2>9. TypeOK'
    BY <2>1, <2>5, <2>6, <2>8, Zenon DEF TypeOK
  <2>10. "none" \notin Results /\ ~call[c].completed
    BY <2>1, Zenon DEF Results, Inv, CallOk
  <2>11. CallsGrow
    BY <2>1, <2>6, <2>10, Zenon DEF CallsGrow
  <2>12. /\ l \notin Sleeps \cup {"unarm"} \cup Pre /\ Stage(l) = "sent"
    BY <2>2, Zenon DEF Ends, Sleeps, Pre, Unsent, Stage
  <2>13. Sane(t)'
    BY <1>1, <2>2, <2>5, Zenon
       DEF Sane, CallerLabels, LoopLabels, IoPath, Status, Ends
  <2>14. \A d \in Callers : thread[d].at \notin Pre => thread'[d].at \notin Pre
    BY <2>5, <2>12, Zenon DEF Others, Threads
  <2>15. Timely(t)'
    BY <2>2, <2>5, <2>6, <2>14, Zenon DEF Timely, Status, Ends
  <2>16. ASSUME NEW d \in Callers PROVE CallOk(d)'
    BY <2>6, <2>10, <2>14, Zenon DEF Inv, CallOk
  <2>17. Inv'
    BY <2>1, <2>5, <2>8, <2>9, <2>11, <2>12, <2>13, <2>15, <2>16, InvKeeps, Zenon
  <2>18. \A d \in Callers : /\ call'[d].completed = call[d].completed
                            /\ call[d].completed => call'[d].reply = call[d].reply
    BY <2>6, <2>10, Zenon
  <2>19. UNCHANGED Abstract!vars
    BY <2>1, <2>5, <2>12, <2>18, Stutters, Zenon
  <2> QED
    BY <2>17, <2>19, Zenon DEF Refines
<1> QED
  BY <1>2, <1>3, Zenon

\* A set of positions that is not empty has a least one, the reply found first.
LEMMA ReplyThere ==
  ASSUME TypeOK, NEW c \in Callers, Position(c) # {}
  PROVE  /\ Reply(c) \in 1..Len(incoming)
         /\ incoming[Reply(c)].kind \in Results
         /\ RemoveLink(incoming, Reply(c)) \in Seq(Notes)
<1>1. Len(incoming) \in Nat /\ incoming \in Seq(Notes)
  BY DEF TypeOK
<1>2. Position(c) \in SUBSET Nat
  BY <1>1 DEF Position
<1>3. PICK i \in Position(c) : \A j \in Position(c) : <<j, i>> \notin OpToRel(<, Nat)
  BY <1>2, NatLessThanWellFounded, WFMin, Zenon
<1>4. ASSUME NEW j \in Position(c) PROVE i <= j
  <2>1. i \in Nat /\ j \in Nat
    BY <1>2, <1>3, Zenon
  <2>2. ~(j < i)
    BY <1>3, <2>1, Zenon DEF OpToRel
  <2> QED
    BY <2>1, <2>2
<1>5. Reply(c) \in Position(c)
  BY <1>3, <1>4, Zenon DEF Reply
<1>6. Reply(c) \in 1..Len(incoming)
  BY <1>5, Zenon DEF Position
<1> DEFINE i0 == Reply(c)
<1>7. i0 \in Nat /\ 1 <= i0 /\ i0 <= Len(incoming)
  BY <1>1, <1>6
<1> HIDE DEF i0
<1>8. incoming[i0].kind \in Results
  <2>1. incoming[i0] \in Notes
    BY <1>1, <1>7
  <2> QED
    BY <2>1, Zenon DEF Notes
<1>9. RemoveLink(incoming, i0) \in Seq(Notes)
  <2>1. SubSeq(incoming, 1, i0 - 1) \in Seq(Notes)
    BY <1>1, <1>7
  <2>2. SubSeq(incoming, i0 + 1, Len(incoming)) \in Seq(Notes)
    BY <1>1, <1>7, SMTT(30)
  <2> QED
    BY <2>1, <2>2 DEF RemoveLink
<1> QED
  BY <1>6, <1>8, <1>9, Zenon DEF i0

\* A caller takes the reply to its call out of the queue ...
LEMMA TakeKeeps ==
  ASSUME Inv, ~Crashed, NEW c \in Callers, thread[c].at \in {"check", "judge"},
         Position(c) # {}, TakeReply(c)
  PROVE  Inv' /\ Refines
<1>1. TypeOK /\ c \in Threads
  BY Zenon DEF Inv, Threads
<1>2. /\ incoming[Reply(c)].kind \in Results /\ RemoveLink(incoming, Reply(c)) \in Seq(Notes)
  BY <1>1, ReplyThere, Zenon
<1>3. thread[c].at \notin Waits \cup {"unarm"} \cup Pre /\ Stage(thread[c].at) = "sent"
  BY Zenon DEF Waits, Pre, Unsent, Stage
<1> QED
  BY <1>1, <1>2, <1>3, CompleteKeeps, Zenon DEF TakeReply

\* ... or waits for it.
LEMMA WaitKeeps ==
  ASSUME Inv, NEW c \in Callers, thread[c].at \in {"check", "judge"}, WaitForReply(c)
  PROVE  Inv' /\ Refines
<1>1. /\ TypeOK /\ c \in Threads /\ {"waitIoTimed", "recheck"} \subseteq Labels
      /\ UNCHANGED <<io, dispatcher, incoming, n_incoming, crash, call>>
      /\ GoIo(c, "waitIoTimed", "recheck", {"r"})
  BY Zenon
     DEF Inv, Threads, WaitForReply, shared, paths, queues, timers, Labels, CallerLabels, IoPath
<1>2. Lands(c, "waitIoTimed", "recheck", thread[c].next, thread[c].arg)
  BY <1>1, IoLands, Zenon
<1>3. /\ thread[c].at \notin Waits \cup {"unarm"} /\ Stage(thread[c].at) = "sent"
      /\ "recheck" \in RetOf(c)
  BY Zenon DEF Waits, Unsent, Stage, RetOf
<1>4. Calm
  BY <1>1, SameCalm, Zenon
<1> QED
  BY <1>1, <1>2, <1>3, <1>4, IoKeeps, Zenon

\* A blocked caller looks for its reply: it takes it, gives up, or waits.
LEMMA JudgeKeeps ==
  ASSUME Inv, NEW c \in Callers, CheckForReply(c) \/ Judge(c)
  PROVE  Inv' /\ Refines
<1>1. ~Crashed /\ TypeOK /\ c \in Threads /\ thread[c].at \in {"check", "judge"}
  BY Zenon DEF Inv, CheckForReply, Judge, At, Threads
<1>2. /\ thread[c].at \notin Waits \cup {"unarm"} \cup Pre /\ Stage(thread[c].at) = "sent"
      /\ {"disconnected", "timeout"} \subseteq Results /\ incoming \in Seq(Notes)
  BY <1>1, Zenon DEF Waits, Pre, Unsent, Stage, Results, TypeOK
<1>3. CASE Position(c) # {} /\ TakeReply(c)
  BY <1>1, <1>3, TakeKeeps, Zenon
<1>4. CASE WaitForReply(c)
  BY <1>1, <1>4, WaitKeeps, Zenon
<1>5. CASE CompletePendingCall(c, c, "disconnected", FALSE, "steal", incoming)
  BY <1>1, <1>2, <1>5, CompleteKeeps, Zenon
<1>6. CASE CompletePendingCall(c, c, "timeout", TRUE, "last", incoming)
  BY <1>1, <1>2, <1>6, CompleteKeeps, Zenon
<1> QED
  BY <1>3, <1>4, <1>5, <1>6, Zenon DEF CheckForReply, Judge

\* A main loop takes the first message.
LEMMA PopKeeps ==
  ASSUME Inv, NEW t \in Loops, PopMessage(t)
  PROVE  Inv' /\ Refines
<1>1. /\ TypeOK /\ t \in Threads /\ t \notin Callers /\ thread[t].at = "pop" /\ ~Crashed
  BY ClientAssumption, Zenon DEF Inv, PopMessage, At, Threads
<1>2. CASE n_incoming <= 0
  BY <1>1, <1>2, ReleaseDispatchKeeps, Zenon DEF PopMessage, timers
<1>3. CASE ~(n_incoming <= 0)
  <2> DEFINE m == Head(incoming)
  <2>1. incoming # <<>>
    <3>1. n_incoming = Len(incoming) - Cardinality(Unarming)
      BY Zenon DEF Inv, Counted
    <3>2. Cardinality(Unarming) \in Nat /\ n_incoming \in Int /\ incoming \in Seq(Notes)
      BY <1>1, UnarmingFinite, Zenon DEF Unarming, TypeOK
    <3>3. Len(incoming) > 0
      BY <1>3, <3>1, <3>2
    <3> QED
      BY <3>2, <3>3
  <2>2. /\ m \in Notes /\ Tail(incoming) \in Seq(Notes)
        /\ Len(Tail(incoming)) = Len(incoming) - 1 /\ Len(incoming) \in Nat /\ n_incoming \in Int
    BY <1>1, <2>1 DEF TypeOK
  <2>3. "pop" \notin Waits \cup {"unarm"} /\ "handlers" \in PlainLoop /\ "handlers" \in Labels
    BY Zenon DEF Waits, PlainLoop, Labels, LoopLabels
  <2>4. CASE m.serial # Nobody /\ call[m.serial].attached
    <3>1. CompletePendingCall(t, m.serial, m.kind, FALSE, "dispatched", Tail(incoming))
      BY <1>3, <2>4, Zenon DEF PopMessage
    <3>2. m.serial \in Callers /\ m.kind \in Results
      BY <2>2, <2>4, Zenon DEF Notes
    <3>3. thread[m.serial].at \notin Pre
      BY <2>4, <3>2, Zenon DEF Inv, CallOk
    <3> HIDE DEF m
    <3> QED
      BY <1>1, <2>2, <2>3, <3>1, <3>2, <3>3, CompleteKeeps, Zenon
  <2>5. CASE ~(m.serial # Nobody /\ call[m.serial].attached)
    <3>1. /\ incoming' = Tail(incoming) /\ n_incoming' = n_incoming - 1 /\ Go(t, "handlers")
          /\ UNCHANGED <<io, dispatcher, call, crash>>
      BY <1>3, <2>5, Zenon DEF PopMessage, paths
    <3>2. /\ incoming' \in Seq(Notes) /\ n_incoming' \in Int
          /\ n_incoming' - Len(incoming') = n_incoming - Len(incoming)
      BY <2>2, <3>1
    <3>3. Calm
      BY <1>1, <3>1, <3>2, Zenon DEF Calm, TypeOK
    <3>4. Lands(t, "handlers", thread[t].ret, thread[t].next, thread[t].arg)
      BY <1>1, <2>3, <3>1, GoLands, Zenon
    <3> QED
      BY <1>1, <2>3, <3>3, <3>4, PlainKeeps, Zenon
  <2> QED
    BY <2>4, <2>5, Zenon
<1> QED
  BY <1>2, <1>3, Zenon
\* The timeout of a call that is completed or dropped is off the list.
LEMMA DetachedKeeps ==
  ASSUME Inv, NEW t \in Threads, Detached(t)
  PROVE  Inv' /\ Refines
<1> DEFINE c == thread[t].arg
<1>1. /\ TypeOK /\ thread[t] \in Labeled /\ Sane(t) /\ Timely(t)
      /\ t \in Callers <=> t \notin Loops
  BY Known, Zenon
<1>2. /\ thread[t].at \in {"detach", "forget"} /\ ~Crashed
      /\ {"notify", "refused", "idle"} \subseteq Labels
      /\ UNCHANGED <<io, dispatcher, incoming, n_incoming, crash>>
      /\ call' = [call EXCEPT ![c].timeout_added = FALSE]
  BY Zenon DEF Detached, At, Labels, CallerLabels, Ends, paths, queues
<1>3. c \in Callers
  BY <1>1, <1>2, Zenon DEF Sane, Ends
<1>4. /\ call' \in [Callers -> CallType]
      /\ \A d \in Callers : /\ call'[d].completed = call[d].completed
                            /\ call'[d].reply = call[d].reply
                            /\ call'[d].attached = call[d].attached
  <2> HIDE DEF c
  <2> QED
    BY <1>1, <1>2, <1>3, Zenon DEF TypeOK, CallType
<1>5. Calm
  BY <1>1, <1>2, <1>4, Zenon DEF Calm, TypeOK
<1>6. CASE thread[t].at = "detach"
  <2>1. Go(t, "notify")
    BY <1>2, <1>6, Zenon DEF Detached, At
  <2>2. Lands(t, "notify", thread[t].ret, thread[t].next, thread[t].arg)
    BY <1>1, <1>2, <2>1, GoLands, Zenon
  <2>3. /\ thread'[t].at = "notify" /\ thread'[t].ret = thread[t].ret
        /\ thread'[t].arg = thread[t].arg /\ Others(t)
    BY <2>2, Zenon DEF Lands
  <2>4. Sane(t)'
    BY <1>1, <1>6, <2>3, Zenon
       DEF Sane, CallerLabels, LoopLabels, IoPath, Status, Ends
  <2>5. thread'[c].at \notin Pre
    BY <1>1, <1>3, <1>6, <2>3, Zenon
       DEF Timely, Ends, Others, Threads, Pre, Unsent
  <2>6. Timely(t)'
    BY <1>1, <1>3, <1>4, <1>6, <2>3, <2>5, Zenon DEF Timely, Status, Ends
  <2>7. /\ "detach" \notin Waits \cup {"unarm"} /\ "notify" \notin Sleeps \cup {"unarm"}
        /\ Stage("detach") = Stage("notify")
    BY Zenon DEF Waits, Sleeps, Stage, Unsent
  <2>8. Quiet(t)
    BY <1>5, <2>2, Zenon DEF Lands, Quiet
  <2> QED
    BY <1>6, <2>3, <2>4, <2>6, <2>7, <2>8, QuietKeeps, Zenon
<1>7. CASE thread[t].at = "forget" /\ t \in Loops
  <2>1. GoFresh(t, "idle")
    BY <1>1, <1>2, <1>7, Zenon DEF Detached, At, Sane
  <2>2. Lands(t, "idle", "idle", "idle", Nobody)
    BY <1>1, <1>2, <2>1, FreshLands, Zenon
  <2>3. "forget" \notin Waits \cup {"unarm"} /\ "idle" \in PlainLoop
    BY Zenon DEF Waits, PlainLoop
  <2> QED
    BY <1>1, <1>5, <1>7, <2>2, <2>3, PlainKeeps, Zenon
<1>8. CASE thread[t].at = "forget" /\ t \in Callers
  <2>1. GoFresh(t, "refused")
    BY <1>1, <1>2, <1>8, Zenon DEF Detached, At, Sane
  <2>2. Lands(t, "refused", "idle", "idle", Nobody)
    BY <1>1, <1>2, <2>1, FreshLands, Zenon
  <2>3. thread'[t].at = "refused" /\ Others(t) /\ thread' \in [Threads -> Labeled]
    BY <2>2, Zenon DEF Lands
  <2>4. TypeOK' /\ CallsGrow
    BY <1>1, <1>2, <1>4, <2>3, Zenon DEF TypeOK, CallsGrow
  <2>5. Sane(t)' /\ Timely(t)'
    BY <1>1, <1>8, <2>3, Zenon DEF Sane, Timely, CallerLabels, IoPath, Status, Ends
  <2>6. ASSUME NEW d \in Callers PROVE CallOk(d)'
    <3>1. thread[d].at \notin Pre => thread'[d].at \notin Pre
      BY <1>8, <2>3, Zenon DEF Others, Threads, Pre, Unsent
    <3> QED
      BY <1>4, <3>1, Zenon DEF CallOk, Inv
  <2>7. /\ "forget" \notin Waits \cup {"unarm"} /\ "refused" \notin Sleeps \cup {"unarm"}
        /\ "forget" \in Pre
    BY Zenon DEF Waits, Sleeps, Pre, Unsent
  <2>8. n_incoming' - Len(incoming') = n_incoming - Len(incoming)
    BY <1>2, Zenon
  <2>9. Inv'
    BY <1>2, <1>8, <2>3, <2>4, <2>5, <2>6, <2>7, <2>8, InvKeeps, Zenon
  <2>10. CallState(t) = "unsent" /\ CallState(t)' = "refused"
    BY <1>8, <2>3, StateOf, StateOfPrime, Zenon DEF Stage, Unsent
  <2>11. /\ [d \in Callers |-> CallState(d)]'
              = [[d \in Callers |-> CallState(d)] EXCEPT ![t] = CallState(t)']
         /\ [d \in Callers |-> IF call[d].completed THEN call[d].reply ELSE "none"]'
              = [d \in Callers |-> IF call[d].completed THEN call[d].reply ELSE "none"]
         /\ Crashed' = Crashed
    BY <1>2, <1>4, <1>8, <2>3, OneMoves, Zenon
  <2>12. Abstract!Refuse(t)
    BY <1>2, <1>8, <2>10, <2>11, Zenon DEF Abstract!Refuse, Abstract!Move
  <2> QED
    BY <1>8, <2>9, <2>12, Zenon DEF Refines, Abstract!Next
<1> QED
  BY <1>1, <1>2, <1>6, <1>7, <1>8, Zenon

\* A call is completed: the step of PendingCalls that gives it its result.
LEMMA NotifyKeeps ==
  ASSUME Inv, NEW t \in Threads, PendingCallComplete(t)
  PROVE  Inv' /\ Refines
<1>1. /\ TypeOK /\ thread[t] \in Labeled /\ Sane(t) /\ Timely(t)
      /\ t \in Callers <=> t \notin Loops
  BY Known, Zenon
<1>2. thread[t].at = "notify" /\ ~Crashed
  BY Zenon DEF PendingCallComplete, At
<1>3. PICK c \in Callers :
        /\ c = thread[t].arg /\ c \in Threads
        /\ call[c].reply \in Results /\ thread[c].at \notin Pre
        /\ t \in Callers => c = t
  BY <1>1, <1>2, Zenon DEF Sane, Timely, Ends, Threads
<1>4. CASE call[c].completed
  BY <1>2, <1>3, <1>4, DieKeeps, Zenon DEF PendingCallComplete
<1>5. CASE ~call[c].completed
  <2>1. /\ call' = [call EXCEPT ![c].completed = TRUE]
        /\ GoFresh(t, thread[t].ret)
        /\ UNCHANGED <<io, dispatcher, incoming, n_incoming, crash>>
    BY <1>3, <1>5, Zenon DEF PendingCallComplete, paths, queues
  <2>2. /\ call' \in [Callers -> CallType]
        /\ call'[c].completed
        /\ \A d \in Callers : /\ call'[d].reply = call[d].reply
                              /\ call'[d].attached = call[d].attached
                              /\ d # c => call'[d].completed = call[d].completed
    BY <1>1, <1>3, <2>1, ZenonT(40) DEF TypeOK, CallType
  <2>3. /\ thread[t].ret \in Labels
        /\ thread[t].ret \in (IF t \in Callers THEN {"last", "steal"} ELSE {"dispatched"})
    BY <1>1, <1>2, Zenon DEF Sane, Ends, Labeled
  <2>4. Lands(t, thread[t].ret, "idle", "idle", Nobody)
    BY <1>1, <2>1, <2>3, FreshLands, Zenon
  <2>5. thread'[t].at = thread[t].ret /\ Others(t) /\ thread' \in [Threads -> Labeled]
    BY <2>4, Zenon DEF Lands
  <2>6. TypeOK' /\ CallsGrow
    BY <1>1, <2>1, <2>2, <2>5, Zenon DEF TypeOK, CallsGrow
  <2>7. Sane(t)' /\ Timely(t)'
    BY <1>1, <1>3, <2>2, <2>3, <2>5, Zenon
       DEF Sane, Timely, CallerLabels, LoopLabels, IoPath, Status, Ends
  <2>8. \A d \in Callers : thread[d].at \notin Pre => thread'[d].at \notin Pre
    BY <2>3, <2>5, Zenon DEF Others, Threads, Pre, Unsent
  <2>9. ASSUME NEW d \in Callers PROVE CallOk(d)'
    BY <1>3, <2>2, <2>8, Zenon DEF CallOk, Inv
  <2>10. /\ "notify" \notin Waits \cup {"unarm"} \cup Pre
         /\ thread[t].ret \notin Sleeps \cup {"unarm"} \cup Pre
    BY <2>3, Zenon DEF Waits, Sleeps, Pre, Unsent
  <2>11. n_incoming' - Len(incoming') = n_incoming - Len(incoming)
    BY <2>1, Zenon
  <2>12. Inv'
    BY <1>2, <2>1, <2>5, <2>6, <2>7, <2>9, <2>10, <2>11, InvKeeps, Zenon
  <2>13. Stage(thread[c].at) = "sent" /\ Stage(thread'[c].at) = "sent"
    <3>1. thread[c].at # "done"
      BY <1>3, <1>5, Zenon DEF Inv, Timely
    <3>2. thread'[c].at # "done"
      BY <1>3, <2>3, <2>5, <3>1, Zenon DEF Others
    <3> QED
      BY <1>3, <2>8, <3>1, <3>2, Zenon DEF Stage, Pre
  <2>14. CallState(c) = "waiting" /\ CallState(c)' = "completed"
    BY <1>3, <1>5, <2>2, <2>13, StateOf, StateOfPrime, Zenon
  <2>15. ASSUME NEW d \in Callers, d # c
         PROVE  CallState(d)' = CallState(d)
    <3>1. Stage(thread'[d].at) = Stage(thread[d].at) /\ call'[d].completed = call[d].completed
      <4>1. d # t
        BY <1>3, <2>15, Zenon
      <4> QED
        BY <2>2, <2>5, <2>15, <4>1, Zenon DEF Others, Threads
    <3> QED
      BY <3>1, StateOf, StateOfPrime, Zenon
  <2>16. [d \in Callers |-> CallState(d)]'
           = [[d \in Callers |-> CallState(d)] EXCEPT ![c] = "completed"]
    BY <2>14, <2>15, Zenon
  <2>17. [d \in Callers |-> IF call[d].completed THEN call[d].reply ELSE "none"]'
           = [[d \in Callers |-> IF call[d].completed THEN call[d].reply ELSE "none"]
                EXCEPT ![c] = call[c].reply]
    BY <1>3, <2>2, Zenon
  <2>18. Crashed' = Crashed
    BY <2>1, Zenon DEF Crashed
  <2>19. Abstract!Complete(c)
    BY <1>2, <1>3, <2>14, <2>16, <2>17, <2>18, Zenon DEF Abstract!Complete, Abstract!Move
  <2> QED
    BY <1>3, <2>12, <2>19, Zenon DEF Refines, Abstract!Next
<1> QED
  BY <1>4, <1>5, Zenon
-----------------------------------------------------------------------------
(***************************************************************************)
(* The invariant is inductive, and every step refines.                     *)
(***************************************************************************)
\* Initially the invariant holds and no call is sent.
LEMMA InvInit ==
  ASSUME Init
  PROVE  Inv /\ Abstract!Init
<1>1. PICK cast \in Casts :
        thread = [t \in Threads |-> IF t \in cast THEN Start ELSE Fresh("refused")]
  BY Zenon DEF Init
<1>2. /\ thread \in [Threads -> Labeled]
      /\ \A t \in Threads : thread[t].at \in {"idle", "refused"} /\ thread[t].arg = Nobody
  <2>1. Start \in Labeled /\ Fresh("refused") \in Labeled
    BY Zenon DEF Start, Fresh, Labeled, Labels, CallerLabels
  <2>2. Start.at = "idle" /\ Fresh("refused").at = "refused"
        /\ Start.arg = Nobody /\ Fresh("refused").arg = Nobody
    BY Zenon DEF Start, Fresh
  <2> QED
    BY <1>1, <2>1, <2>2, Zenon
<1>3. /\ call = [c \in Callers |-> NewCall] /\ NewCall \in CallType
      /\ ~NewCall.attached /\ ~NewCall.completed
  BY Zenon DEF Init, NewCall, CallType
<1>4. incoming = <<>> /\ n_incoming = 0 /\ crash = "none"
  BY Zenon DEF Init
<1>5. TypeOK
  BY <1>2, <1>3, <1>4, SMTT(60) DEF TypeOK
<1>6. ASSUME NEW t \in Threads PROVE Sane(t) /\ Timely(t)
  BY <1>2, Zenon DEF Sane, Timely, CallerLabels, LoopLabels, IoPath, Status, Ends
<1>7. ASSUME NEW c \in Callers PROVE CallOk(c)
  BY <1>3, Zenon DEF CallOk
<1>8. NoLostWakeup
  BY <1>2, Zenon DEF NoLostWakeup
<1>9. Counted
  <2>1. Unarming = {}
    BY <1>2, Zenon DEF Unarming
  <2>2. Cardinality(Unarming) = 0 /\ Len(incoming) = 0
    BY <1>4, <2>1, FS_EmptySet, Zenon
  <2> QED
    BY <1>4, <2>2 DEF Counted
<1>10. ASSUME NEW c \in Callers PROVE CallState(c) \in {"unsent", "refused"}
  BY <1>2, Zenon DEF CallState, Threads
<1>11. Abstract!Init
  BY <1>3, <1>4, <1>10, Zenon DEF Abstract!Init, Crashed
<1> QED
  BY <1>5, <1>6, <1>7, <1>8, <1>9, <1>11, Zenon DEF Inv

\* Every step keeps the invariant and is a step of PendingCalls, or none.
LEMMA InvNext ==
  ASSUME Inv, [Next]_vars
  PROVE  Inv' /\ [Abstract!Next]_(Abstract!vars)
<1>1. CASE Next
  <2>1. ASSUME NEW t \in Threads, Step(t) PROVE Inv' /\ Refines
    BY <2>1, DisconnectedKeeps, DrainedKeeps, DrainTimerKeeps, DrainOneKeeps,
       DoReadingKeeps,
       AcquireIoKeeps, PollKeeps, UnarmKeeps, DoneReadingKeeps, DetachedKeeps, NotifyKeeps, Zenon
       DEF Step
  <2>2. ASSUME NEW c \in Callers, SendWithReply(c) \/ CallerStep(c) PROVE Inv' /\ Refines
    BY <2>2, SendKeeps, AttachKeeps, NoMemoryKeeps, SendNowKeeps, BlockKeeps, JudgeKeeps,
       StealKeeps, Zenon
       DEF CallerStep
  <2>3. ASSUME NEW t \in Loops, LoopStep(t) PROVE Inv' /\ Refines
    <3>1. CASE Dispatched(t)
      BY <3>1, ReleaseDispatchKeeps, Zenon
         DEF Dispatched, At, queues, timers
    <3> QED
      BY <2>3, <3>1, LoopKeeps, TimerFiredKeeps, AcquireDispatchKeeps, PopKeeps, Zenon
         DEF LoopStep
  <2>4. ASSUME NEW t \in Loops, Event(t) PROVE Inv' /\ Refines
    BY <2>4, LoopKeeps, FireTimerKeeps, CancelKeeps, Zenon DEF Event
  <2>5. ASSUME HangUp \/ \E c \in Callers : Answer(c) \/ Expire(c) PROVE Inv' /\ Refines
    BY <2>5, StillKeeps, Zenon
  <2>6. Inv' /\ Refines
    BY <1>1, <2>1, <2>2, <2>3, <2>4, <2>5, Zenon DEF Next
  <2> QED
    BY <2>6, Zenon DEF Refines
<1>2. CASE UNCHANGED vars
  <2>1. UNCHANGED <<thread, call, incoming, n_incoming, io, dispatcher, crash>>
    BY <1>2, Zenon DEF vars, shared, paths, queues, timers
  <2> QED
    BY <2>1, Unmoved, Zenon
<1> QED
  BY <1>1, <1>2, Zenon

\* The invariant holds in every reachable state.
LEMMA InvAlways == Spec => []Inv
<1>1. Init => Inv
  BY InvInit, Zenon
<1>2. Inv /\ [Next]_vars => Inv'
  BY InvNext, Zenon
<1> QED
  BY <1>1, <1>2, PTL DEF Spec

\* While a thread sleeps on the I/O path or the dispatcher, someone has it or is
\* awake to take it: release_io_path and release_dispatch, which wake one thread
\* each, never leave the others asleep for good.
THEOREM WakeupsCorrect == Spec => []NoLostWakeup
<1>1. Inv => NoLostWakeup
  BY Zenon DEF Inv
<1> QED
  BY <1>1, InvAlways, PTL

\* n_incoming differs from the length of the queue by the messages that threads
\* have queued and not counted yet, however many threads read, complete and pop.
THEOREM QueueCountCorrect == Spec => []QueueCounted
<1>1. Inv => QueueCounted
  BY Zenon DEF Inv, Counted, Unarming, QueueCounted
<1> QED
  BY <1>1, InvAlways, PTL

\* The safety part of CallsRefine: a call is sent or refused once, completes once
\* with one of the results, and only then returns, with that result.
THEOREM CallsRefineSafely == Spec => Abstract!Safety
<1>1. Init => Abstract!Init
  BY InvInit, Zenon
<1>2. Inv /\ [Next]_vars => [Abstract!Next]_(Abstract!vars)
  BY InvNext, Zenon
<1> QED
  BY <1>1, <1>2, InvAlways, PTL DEF Spec, Abstract!Safety
=============================================================================
