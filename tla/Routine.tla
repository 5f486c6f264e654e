------------------------------- MODULE Routine -------------------------------
(***************************************************************************)
(* The vocabulary in which sequential C functions are written down as      *)
(* routines: their steps in the order of the code, and for each step what  *)
(* it acquires (memory, descriptors, references, locks, files on disk),    *)
(* what it releases or hands over, and what the error path it takes when   *)
(* it fails releases.  A condition on data is a choice, an if that tests a *)
(* pointer is a test of what is held.  A call of another function is one   *)
(* step that acquires what that function promises.  Module Routines runs   *)
(* them, with a failure at any step.                                       *)
(***************************************************************************)
EXTENDS Integers, Sequences

\* A step gets and puts resources (drop: puts what is held of them); it may
\* fail, with the error set or not, along a path that releases what must be
\* and what may be held; or go on somewhere else (jump), perhaps always
\* (~falls); or leave the routine; or free the error.  If it needs resources
\* it falls through exactly when they are held.
Plain == [get |-> {}, put |-> {}, drop |-> {}, needs |-> {}, fails |-> FALSE,
          sets |-> FALSE, must |-> {}, may |-> {}, jump |-> 0, falls |-> TRUE,
          leaves |-> FALSE, clears |-> FALSE]

\* Error paths.
Nothing == [must |-> {}, may |-> {}]
Frees(S) == [must |-> S, may |-> {}]
IfHeld(S) == [must |-> {}, may |-> S]
FreesAnd(S, path) == [path EXCEPT !.must = @ \cup S]

\* Steps are put together with \o, so that each of these is a sequence.
\* A call that acquires get, or fails with the error set; one that acquires
\* nothing; one that fails without setting an error; a failure that is
\* certain; the test of a pointer.
Step(get, path) ==
  [Plain EXCEPT !.get = get, !.fails = TRUE, !.sets = TRUE,
                !.must = path.must, !.may = path.may]
Do(get, path) == << Step(get, path) >>
Test(path) == Do({}, path)
Quiet(get, path) == << [Step(get, path) EXCEPT !.sets = FALSE] >>
Stop(path) == << [Step({}, path) EXCEPT !.falls = FALSE] >>
StopQuiet(path) == << [Step({}, path) EXCEPT !.falls = FALSE, !.sets = FALSE] >>
Require(S, path) == << [Step({}, path) EXCEPT !.needs = S] >>

\* Steps that cannot fail.  Move gets to, whether or not part of it is held.
Get(get) == << [Plain EXCEPT !.get = get] >>
Put(put) == << [Plain EXCEPT !.put = put] >>
PutIfHeld(S) == << [Plain EXCEPT !.drop = S] >>
Move(from, to) == << [Plain EXCEPT !.put = from, !.drop = to, !.get = to] >>
ClearError == << [Plain EXCEPT !.clears = TRUE] >>

\* Leave the routine; what it promises here is S.
Return(S) == << [Plain EXCEPT !.leaves = TRUE, !.falls = FALSE, !.get = S] >>

\* Choices: do a or not; a or b; a any number of times; a if S is held, else
\* b; a call whose failure sets the error, then a, or b if it failed.
Skip(n) == << [Plain EXCEPT !.jump = n + 1, !.falls = FALSE] >>
Opt(a) == << [Plain EXCEPT !.jump = Len(a) + 1] >> \o a
Either(a, b) == Opt(a \o Skip(Len(b))) \o b
Loop(a) == Opt(a \o Skip(-Len(a) - 2))
If(S, a) == << [Plain EXCEPT !.jump = Len(a) + 1, !.needs = S] >> \o a
IfElse(S, a, b) == If(S, a \o Skip(Len(b))) \o b
Try(get, a, b) ==
  << [Plain EXCEPT !.get = get, !.sets = TRUE, !.jump = Len(a) + 2] >>
    \o a \o Skip(Len(b)) \o b

\* A routine takes over resources of its caller, promises what it holds when
\* it succeeds, and reports errors or is silent.  What the code is known not
\* to release, and where it is known to return an error it does not set or to
\* set one it does not return, is said with the routine.
Routine(takes, gives, steps) ==
  [takes |-> takes, gives |-> gives, steps |-> steps, reports |-> TRUE,
   leaks |-> {}, careless |-> FALSE]
Silent(takes, gives, steps) ==
  [Routine(takes, gives, steps) EXCEPT !.reports = FALSE]
Leaking(S, routine) == [routine EXCEPT !.leaks = S]
Careless(routine) == [routine EXCEPT !.careless = TRUE]
=============================================================================
