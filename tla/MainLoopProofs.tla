--------------------------- MODULE MainLoopProofs ---------------------------
(***************************************************************************)
(* Proofs about MainLoop, for any number of watches, of timeouts and of    *)
(* loops run from handlers, and about WatchList, for any number of watches *)
(* and of main loops.                                                      *)
(***************************************************************************)
EXTENDS MainLoop, FiniteSetTheorems, TLAPS

-----------------------------------------------------------------------------
(***************************************************************************)
(* The inductive invariant.  The counts are exact because a callback is in *)
(* the list once and nobody knows a new one; a handler is called in time   *)
(* because an iteration goes through the list as it is while the serial is *)
(* the same, and because the depths of the loops under way are ordered.    *)
(***************************************************************************)
IterationPlaces ==
  {"poll", "timeouts", "timeout", "watches", "watch", "end", "dispatches", "dispatch"}
Iteration ==
  [at : IterationPlaces, list : Seq(Callbacks), fds : SUBSET Callbacks, ready : SUBSET Callbacks,
   i : Nat \ {0}, serialSame : BOOLEAN, acted : BOOLEAN, depth : Nat, wait : Int,
   skips : BOOLEAN, exit : Nat]
Callback == [refcount : Int, enabled : BOOLEAN, oom : BOOLEAN, due : BOOLEAN, new : BOOLEAN]
DBusLoop ==
  [callbacks : Seq(Callbacks), watch_count : Int, timeout_count : Int, depth : Nat,
   need_dispatch : Nat]

LoopTyped == loop \in DBusLoop /\ cb \in [Callbacks -> Callback] /\ frames \in Seq(Iteration)

\* A callback is in the list once, and nobody knows it before it was added.
Once(list) == \A i, j \in DOMAIN list : list[i] = list[j] => i = j
ListSound ==
  /\ Once(loop.callbacks)
  /\ \A c \in Callbacks : cb[c].new => ~Listed(c) /\ cb[c].refcount = 0
  /\ loop.watch_count = Cardinality(Elements(loop.callbacks) \cap Watches)
  /\ loop.timeout_count = Cardinality(Elements(loop.callbacks) \cap Timeouts)

\* The iterations that have a reference to a callback.
Polls(fs, c) == {k \in DOMAIN fs : c \in fs[k].fds}
RefsSound ==
  \A c \in Callbacks :
    cb[c].refcount = (IF Listed(c) THEN 1 ELSE 0) + Cardinality(Polls(frames, c))

\* An iteration began before its loop ended, has given its references back before
\* it dispatches, and goes through the list as it is while the serial is the same.
IterationSound(f) ==
  /\ f.depth > f.exit
  /\ f.at \in {"dispatches", "dispatch"} => f.fds = {}
  /\ f.at \notin {"end", "dispatches", "dispatch"} /\ f.serialSame => f.list = loop.callbacks

\* A loop that runs in a handler ends before the one it was run from.
Nested ==
  /\ frames # <<>> => loop.depth >= Top.exit
  /\ \A k \in 1 .. Len(frames) - 1 : frames[k].exit <= frames[k + 1].exit

FramesSound == (\A k \in DOMAIN frames : IterationSound(frames[k])) /\ Nested

LoopInv == LoopTyped /\ ListSound /\ RefsSound /\ FramesSound

-----------------------------------------------------------------------------
(***************************************************************************)
(* The iterations that poll a callback.                                    *)
(***************************************************************************)
One(b) == IF b THEN 1 ELSE 0

\* The iterations that poll a callback are finitely many.
LEMMA PollsFinite ==
  ASSUME NEW fs \in Seq(Iteration), NEW c
  PROVE  IsFiniteSet(Polls(fs, c)) /\ Cardinality(Polls(fs, c)) \in Nat
<1>1. Polls(fs, c) \subseteq 1 .. Len(fs) /\ Len(fs) \in Nat
  BY DEF Polls
<1>2. IsFiniteSet(1 .. Len(fs))
  BY <1>1, FS_Interval
<1> QED
  BY <1>1, <1>2, FS_Subset, FS_CardinalityType, Zenon

\* One more iteration.
LEMMA PollsPush ==
  ASSUME NEW fs \in Seq(Iteration), NEW gs \in Seq(Iteration), NEW c, Len(gs) = Len(fs) + 1,
         \A k \in 1 .. Len(fs) : gs[k].fds = fs[k].fds
  PROVE  Cardinality(Polls(gs, c)) = Cardinality(Polls(fs, c)) + One(c \in gs[Len(gs)].fds)
<1> DEFINE n == Len(fs) + 1
<1>1. /\ n \in Nat /\ DOMAIN fs = 1 .. Len(fs) /\ DOMAIN gs = 1 .. n /\ Len(gs) = n
      /\ n \notin Polls(fs, c)
  BY DEF Polls
<1>2. c \in gs[n].fds => Polls(gs, c) = Polls(fs, c) \cup {n}
  BY <1>1 DEF Polls
<1>3. c \notin gs[n].fds => Polls(gs, c) = Polls(fs, c)
  BY <1>1 DEF Polls
<1>4. Cardinality(Polls(fs, c) \cup {n}) = Cardinality(Polls(fs, c)) + 1
  BY <1>1, PollsFinite, FS_AddElement, Zenon
<1>5. Cardinality(Polls(fs, c)) \in Nat
  BY PollsFinite, Zenon
<1>6. Cardinality(Polls(fs, c)) + 0 = Cardinality(Polls(fs, c))
  BY <1>5
<1> HIDE DEF n
<1>7. CASE c \in gs[n].fds
  BY <1>1, <1>2, <1>4, <1>7, Zenon DEF One
<1>8. CASE c \notin gs[n].fds
  BY <1>1, <1>3, <1>6, <1>8, Zenon DEF One
<1> QED
  BY <1>7, <1>8, Zenon

\* The iterations but the innermost.
LEMMA OuterIs ==
  ASSUME NEW fs \in Seq(Iteration), fs # <<>>
  PROVE  /\ SubSeq(fs, 1, Len(fs) - 1) \in Seq(Iteration)
         /\ Len(SubSeq(fs, 1, Len(fs) - 1)) = Len(fs) - 1
         /\ \A k \in 1 .. Len(fs) - 1 : SubSeq(fs, 1, Len(fs) - 1)[k] = fs[k]
<1>1. Len(fs) \in Nat /\ Len(fs) # 0
  OBVIOUS
<1> DEFINE n == Len(fs) - 1
<1>2. n \in Nat /\ n <= Len(fs)
  BY <1>1
<1> HIDE DEF n
<1>3. Len(SubSeq(fs, 1, n)) = n
  BY <1>2
<1>4. \A k \in 1 .. n : SubSeq(fs, 1, n)[k] = fs[k]
  BY <1>2
<1>5. SubSeq(fs, 1, n) \in Seq(Iteration)
  BY <1>2
<1> QED
  BY <1>3, <1>4, <1>5, Zenon DEF n

\* Another innermost iteration.
LEMMA PollsTop ==
  ASSUME NEW fs \in Seq(Iteration), NEW gs \in Seq(Iteration), NEW c, fs # <<>>, Len(gs) = Len(fs),
         \A k \in 1 .. Len(fs) - 1 : gs[k].fds = fs[k].fds
  PROVE  Cardinality(Polls(gs, c))
           = Cardinality(Polls(fs, c)) - One(c \in fs[Len(fs)].fds) + One(c \in gs[Len(fs)].fds)
<1> DEFINE es == SubSeq(fs, 1, Len(fs) - 1)
<1>1. /\ es \in Seq(Iteration) /\ Len(fs) \in Nat /\ Len(es) = Len(fs) - 1
      /\ \A k \in 1 .. Len(es) : es[k] = fs[k]
  BY OuterIs
<1> HIDE DEF es
<1>2. Len(fs) = Len(es) + 1 /\ Len(gs) = Len(es) + 1
  BY <1>1
<1>3. Cardinality(Polls(fs, c)) = Cardinality(Polls(es, c)) + One(c \in fs[Len(fs)].fds)
  BY <1>1, <1>2, PollsPush, Zenon
<1>4. \A k \in 1 .. Len(es) : gs[k].fds = es[k].fds
  BY <1>1, Zenon
<1>5. Cardinality(Polls(gs, c)) = Cardinality(Polls(es, c)) + One(c \in gs[Len(gs)].fds)
  BY <1>1, <1>2, <1>4, PollsPush, Zenon
<1> QED
  BY <1>1, <1>3, <1>5, PollsFinite DEF One

\* Nobody begins or ends to poll.
LEMMA PollsSame ==
  ASSUME NEW fs \in Seq(Iteration), NEW gs \in Seq(Iteration), NEW c, Len(gs) = Len(fs),
         \A k \in 1 .. Len(fs) : gs[k].fds = fs[k].fds
  PROVE  Polls(gs, c) = Polls(fs, c)
<1>1. DOMAIN fs = 1 .. Len(fs) /\ DOMAIN gs = 1 .. Len(fs)
  OBVIOUS
<1> QED
  BY <1>1 DEF Polls

-----------------------------------------------------------------------------
(***************************************************************************)
(* The list of callbacks.                                                  *)
(***************************************************************************)

\* The elements of a list are finitely many.
LEMMA ElementsFinite ==
  ASSUME NEW list \in Seq(Callbacks), NEW S
  PROVE  /\ IsFiniteSet(Elements(list) \cap S) /\ Cardinality(Elements(list) \cap S) \in Nat
         /\ Elements(list) \subseteq Callbacks
<1>1. list \in [1 .. Len(list) -> Callbacks] /\ Len(list) \in Nat
  OBVIOUS
<1>2. IsFiniteSet(1 .. Len(list))
  BY <1>1, FS_Interval
<1>3. DOMAIN list = 1 .. Len(list)
  BY <1>1, Zenon
<1>4. Elements(list) \subseteq Callbacks /\ list \in [1 .. Len(list) -> Elements(list)]
  BY <1>1, <1>3, Zenon DEF Elements
<1>6. list \in Surjection(1 .. Len(list), Elements(list))
  BY <1>3, <1>4, Zenon DEF Surjection, Elements
<1>7. IsFiniteSet(Elements(list))
  BY <1>2, <1>6, FS_Surjection, Zenon
<1>5. IsFiniteSet(Elements(list) \cap S)
  BY <1>7, FS_Subset, Zenon
<1> QED
  BY <1>1, <1>4, <1>5, FS_CardinalityType, Zenon

\* add_callback appends what was not in the list.
LEMMA Appended ==
  ASSUME NEW list \in Seq(Callbacks), NEW c \in Callbacks, c \notin Elements(list), Once(list)
  PROVE  /\ Append(list, c) \in Seq(Callbacks) /\ Once(Append(list, c))
         /\ Elements(Append(list, c)) = Elements(list) \cup {c}
<1> DEFINE l == Append(list, c)
<1>1. /\ l \in Seq(Callbacks) /\ Len(list) \in Nat /\ Len(l) = Len(list) + 1
      /\ DOMAIN list = 1 .. Len(list) /\ DOMAIN l = 1 .. Len(list) + 1
      /\ l[Len(list) + 1] = c /\ \A k \in 1 .. Len(list) : l[k] = list[k]
  OBVIOUS
<1> HIDE DEF l
<1>2. \A k \in DOMAIN l : (k \in DOMAIN list /\ l[k] = list[k]) \/ (k = Len(list) + 1 /\ l[k] = c)
  BY <1>1
<1>3. Once(l)
  BY <1>2, Zenon DEF Once, Elements
<1>4. Elements(l) \subseteq Elements(list) \cup {c}
  BY <1>2, Zenon DEF Elements
<1>5. c \in Elements(l)
  BY <1>1 DEF Elements
<1>6. Elements(list) \subseteq Elements(l)
  BY <1>1 DEF Elements
<1> QED
  BY <1>1, <1>3, <1>4, <1>5, <1>6, Zenon DEF l

\* _dbus_list_remove_link removes the only link of its callback.
LEMMA Removed ==
  ASSUME NEW list \in Seq(Callbacks), NEW i \in DOMAIN list, Once(list)
  PROVE  /\ RemoveLink(list, i) \in Seq(Callbacks) /\ Once(RemoveLink(list, i))
         /\ Elements(RemoveLink(list, i)) = Elements(list) \ {list[i]}
<1> DEFINE l == RemoveLink(list, i)
<1>1. /\ Len(list) \in Nat /\ DOMAIN list = 1 .. Len(list) /\ i \in 1 .. Len(list)
      /\ \A k \in DOMAIN list : list[k] \in Callbacks
  OBVIOUS
<1>2. /\ DOMAIN l = 1 .. Len(list) - 1
      /\ \A k \in 1 .. Len(list) - 1 : l[k] = IF k < i THEN list[k] ELSE list[k + 1]
  BY Zenon DEF RemoveLink
<1> HIDE DEF l
<1>3. \A k \in DOMAIN l : (IF k < i THEN k ELSE k + 1) \in DOMAIN list \ {i}
  BY <1>1, <1>2
<1>4. l \in Seq(Callbacks)
  <2>1. l \in [1 .. Len(list) - 1 -> Callbacks]
    <3>1. \A k \in 1 .. Len(list) - 1 : l[k] \in Callbacks
      BY <1>1, <1>2, <1>3, Zenon
    <3>2. l = [k \in 1 .. Len(list) - 1 |-> l[k]]
      BY <1>2, Zenon DEF l, RemoveLink
    <3> QED
      BY <3>1, <3>2, Zenon
  <2>2. Len(list) - 1 \in Nat
    BY <1>1
  <2> QED
    BY <2>1, <2>2
<1>5. Once(l)
  BY <1>1, <1>2, <1>3 DEF Once
<1>6. Elements(l) \subseteq Elements(list) \ {list[i]}
  <2> SUFFICES ASSUME NEW k \in DOMAIN l PROVE l[k] \in Elements(list) /\ l[k] # list[i]
    BY Zenon DEF Elements
  <2>1. PICK j \in DOMAIN list : j # i /\ l[k] = list[j]
    BY <1>1, <1>2, <1>3, Zenon
  <2> QED
    BY <2>1, Zenon DEF Elements, Once
<1>7. Elements(list) \ {list[i]} \subseteq Elements(l)
  <2> SUFFICES ASSUME NEW j \in DOMAIN list, list[j] # list[i] PROVE \E k \in DOMAIN l : list[j] = l[k]
    BY Zenon DEF Elements
  <2>1. CASE j < i
    BY <1>1, <1>2, <2>1
  <2>2. CASE j > i
    <3>1. j - 1 \in DOMAIN l /\ l[j - 1] = list[j]
      BY <1>1, <1>2, <2>2
    <3> QED
      BY <3>1, Zenon
  <2> QED
    BY <1>1, <2>1, <2>2
<1> QED
  BY <1>4, <1>5, <1>6, <1>7, Zenon DEF l

-----------------------------------------------------------------------------
(***************************************************************************)
(* The stack of iterations, in each of the ways it changes.                *)
(***************************************************************************)

\* An iteration is as it was, but for the notes of what its handlers did.
SameIteration(g, f) ==
  g.at = f.at /\ g.list = f.list /\ g.fds = f.fds /\ g.depth = f.depth /\ g.exit = f.exit

\* What Acted and Bump make of the iterations.
LEMMA MarkedIs ==
  ASSUME frames \in Seq(Iteration), NEW fs, fs = Acted \/ fs = Bump
  PROVE  /\ fs \in Seq(Iteration) /\ Len(fs) = Len(frames)
         /\ \A k \in 1 .. Len(frames) :
              SameIteration(fs[k], frames[k]) /\ (fs[k].serialSame => frames[k].serialSame /\ fs # Bump)
<1>1. DOMAIN frames = 1 .. Len(frames) /\ Len(frames) \in Nat /\ \A k \in 1 .. Len(frames) : frames[k] \in Iteration
  OBVIOUS
<1> DEFINE act(k) == frames[k].acted \/ k = Len(frames)
<1> DEFINE a(k) == [frames[k] EXCEPT !.acted = act(k)]
           b(k) == [frames[k] EXCEPT !.acted = act(k), !.serialSame = FALSE]
<1>2. /\ Acted = [k \in 1 .. Len(frames) |-> a(k)] /\ Bump = [k \in 1 .. Len(frames) |-> b(k)]
  <2>1. \A k \in 1 .. Len(frames) : a(k) = [frames[k] EXCEPT !.acted = @ \/ k = Len(frames)]
    BY <1>1, Zenon
  <2>2. \A k \in 1 .. Len(frames) :
          b(k) = [frames[k] EXCEPT !.acted = @ \/ k = Len(frames), !.serialSame = FALSE]
    BY <1>1, Zenon
  <2> QED
    BY <1>1, <2>1, <2>2, Zenon DEF Acted, Bump
<1>3. ASSUME NEW k \in 1 .. Len(frames)
      PROVE  /\ a(k) \in Iteration /\ SameIteration(a(k), frames[k])
             /\ a(k).serialSame = frames[k].serialSame
             /\ b(k) \in Iteration /\ SameIteration(b(k), frames[k]) /\ b(k).serialSame = FALSE
  <2>1. frames[k] \in Iteration /\ act(k) \in BOOLEAN
    BY <1>1, Zenon DEF Iteration
  <2> HIDE DEF act
  <2>2. a(k) \in Iteration /\ b(k) \in Iteration
    BY <2>1, Zenon DEF Iteration
  <2>3. SameIteration(a(k), frames[k]) /\ a(k).serialSame = frames[k].serialSame
    BY <2>1, Zenon DEF Iteration, SameIteration
  <2>4. SameIteration(b(k), frames[k]) /\ b(k).serialSame = FALSE
    BY <2>1, Zenon DEF Iteration, SameIteration
  <2> QED
    BY <2>2, <2>3, <2>4, Zenon
<1> HIDE DEF a, b
<1>4. CASE fs = Acted /\ fs # Bump
  <2>1. fs \in [1 .. Len(frames) -> Iteration] /\ \A k \in 1 .. Len(frames) : fs[k] = a(k)
    BY <1>2, <1>3, <1>4, Zenon
  <2>2. fs \in Seq(Iteration) /\ Len(fs) = Len(frames)
    BY <1>1, <2>1
  <2> QED
    BY <1>3, <1>4, <2>1, <2>2, Zenon
<1>5. CASE fs = Bump
  <2>1. fs \in [1 .. Len(frames) -> Iteration] /\ \A k \in 1 .. Len(frames) : fs[k] = b(k)
    BY <1>2, <1>3, <1>5, Zenon
  <2>2. fs \in Seq(Iteration) /\ Len(fs) = Len(frames)
    BY <1>1, <2>1
  <2> QED
    BY <1>3, <1>5, <2>1, <2>2, Zenon
<1> QED
  BY <1>4, <1>5, Zenon

\* A handler changes something: the iterations under way stay sound.
LEMMA MarkedKeeps ==
  ASSUME LoopTyped, FramesSound, loop' \in DBusLoop,
         frames' = Bump \/ (frames' = Acted /\ loop'.callbacks = loop.callbacks),
         frames # <<>> => loop'.depth >= Top.exit
  PROVE  /\ frames' \in Seq(Iteration) /\ FramesSound'
         /\ \A c : Polls(frames', c) = Polls(frames, c)
<1>1. frames \in Seq(Iteration)
  BY Zenon DEF LoopTyped
<1>2. /\ frames' \in Seq(Iteration) /\ Len(frames') = Len(frames)
      /\ \A k \in 1 .. Len(frames) :
           /\ SameIteration(frames'[k], frames[k])
           /\ frames'[k].serialSame => frames[k].serialSame /\ frames' # Bump
  BY <1>1, MarkedIs, Zenon
<1>3. /\ DOMAIN frames = 1 .. Len(frames) /\ DOMAIN frames' = 1 .. Len(frames)
      /\ frames' # <<>> => frames # <<>> /\ Len(frames) \in 1 .. Len(frames)
      /\ \A k \in 1 .. Len(frames) - 1 : k \in 1 .. Len(frames) /\ k + 1 \in 1 .. Len(frames)
  BY <1>1, <1>2
<1>4. ASSUME NEW k \in DOMAIN frames' PROVE IterationSound(frames[k])'
  <2>1. IterationSound(frames[k])
    BY <1>3, Zenon DEF FramesSound
  <2> QED
    BY <1>2, <1>3, <2>1, Zenon DEF IterationSound, SameIteration
<1>5. Nested'
  BY <1>2, <1>3, Zenon DEF FramesSound, Nested, Top, SameIteration
<1>6. \A c : Polls(frames', c) = Polls(frames, c)
  BY <1>1, <1>2, PollsSame, Zenon DEF SameIteration
<1> QED
  BY <1>2, <1>4, <1>5, <1>6, Zenon DEF FramesSound

\* The places of a stack of n iterations.
LEMMA Below ==
  ASSUME NEW n \in Nat
  PROVE  /\ \A k \in 1 .. n - 1 : k \in 1 .. n /\ k + 1 \in 1 .. n
         /\ \A k \in 1 .. n : k # n => k \in 1 .. n - 1
         /\ n # 0 => n \in 1 .. n
  OBVIOUS

\* The innermost iteration is another one.
LEMMA TopIs ==
  ASSUME NEW fs \in Seq(Iteration), fs # <<>>, NEW f \in Iteration, NEW gs, gs = [fs EXCEPT ![Len(fs)] = f]
  PROVE  /\ gs \in Seq(Iteration) /\ Len(gs) = Len(fs) /\ gs # <<>> /\ gs[Len(fs)] = f
         /\ DOMAIN gs = 1 .. Len(fs)
         /\ \A k \in 1 .. Len(fs) - 1 : gs[k] = fs[k]
  OBVIOUS

\* The innermost iteration is gone.
LEMMA PoppedIs ==
  ASSUME NEW fs \in Seq(Iteration), fs # <<>>, NEW gs, gs = SubSeq(fs, 1, Len(fs) - 1)
  PROVE  /\ gs \in Seq(Iteration) /\ Len(fs) = Len(gs) + 1 /\ Len(gs) \in Nat
         /\ DOMAIN gs = 1 .. Len(gs) /\ (gs # <<>> => Len(gs) # 0)
         /\ Len(gs) = Len(fs) - 1 /\ \A k \in 1 .. Len(gs) : gs[k] = fs[k]
<1>1. Len(fs) \in Nat /\ Len(fs) # 0
  OBVIOUS
<1>2. gs \in Seq(Iteration) /\ Len(gs) = Len(fs) - 1 /\ \A k \in 1 .. Len(fs) - 1 : gs[k] = fs[k]
  BY OuterIs, Zenon
<1>3. Len(gs) \in Nat /\ DOMAIN gs = 1 .. Len(gs) /\ Len(fs) = Len(gs) + 1
  BY <1>1, <1>2
<1>4. gs # <<>> => Len(gs) # 0
  BY <1>2
<1> QED
  BY <1>2, <1>3, <1>4, Zenon

\* The innermost iteration goes on.
LEMMA TopKeeps ==
  ASSUME LoopTyped, FramesSound, frames # <<>>, NEW f \in Iteration, SetTop(f),
         loop'.callbacks = loop.callbacks, loop'.depth = loop.depth,
         f.exit = Top.exit, IterationSound(f)
  PROVE  /\ frames' \in Seq(Iteration) /\ FramesSound'
         /\ \A c : Cardinality(Polls(frames', c))
                     = Cardinality(Polls(frames, c)) - One(c \in Top.fds) + One(c \in f.fds)
<1>1. frames \in Seq(Iteration) /\ Len(frames) \in 1 .. Len(frames) /\ DOMAIN frames = 1 .. Len(frames)
  BY DEF LoopTyped
<1>s. frames' = [frames EXCEPT ![Len(frames)] = f]
  BY Zenon DEF SetTop
<1>t. \A gs : gs = [frames EXCEPT ![Len(frames)] = f] =>
        /\ gs \in Seq(Iteration) /\ Len(gs) = Len(frames) /\ gs # <<>> /\ gs[Len(frames)] = f
        /\ DOMAIN gs = 1 .. Len(frames)
        /\ \A k \in 1 .. Len(frames) - 1 : gs[k] = frames[k]
  BY <1>1, TopIs, Zenon
<1>2. /\ frames' \in Seq(Iteration) /\ Len(frames') = Len(frames) /\ frames' # <<>>
      /\ frames'[Len(frames)] = f /\ DOMAIN frames' = 1 .. Len(frames)
      /\ \A k \in 1 .. Len(frames) - 1 : frames'[k] = frames[k]
  BY <1>s, <1>t, Zenon
<1>n. Len(frames) \in Nat
  BY <1>1
<1>3. /\ \A k \in 1 .. Len(frames) - 1 : k \in 1 .. Len(frames) /\ k + 1 \in 1 .. Len(frames)
      /\ \A k \in 1 .. Len(frames) : k # Len(frames) => k \in 1 .. Len(frames) - 1
  BY <1>n, Below, Zenon
<1>4. ASSUME NEW k \in DOMAIN frames' PROVE IterationSound(frames[k])'
  <2>1. frames'[k] = f \/ (k \in DOMAIN frames /\ frames'[k] = frames[k])
    BY <1>1, <1>2, <1>3, Zenon
  <2>2. IterationSound(frames'[k])
    BY <2>1, Zenon DEF FramesSound
  <2> QED
    BY <2>2, Zenon DEF IterationSound
<1>5. \A k \in 1 .. Len(frames) : frames'[k].exit = frames[k].exit
  BY <1>1, <1>2, <1>3, Zenon DEF Top
<1>6. Nested'
  BY <1>1, <1>2, <1>3, <1>5, Zenon DEF FramesSound, Nested, Top
<1>7. ASSUME NEW c
      PROVE  Cardinality(Polls(frames', c))
               = Cardinality(Polls(frames, c)) - One(c \in Top.fds) + One(c \in f.fds)
  <2>1. \A k \in 1 .. Len(frames) - 1 : frames'[k].fds = frames[k].fds
    BY <1>2, Zenon
  <2> QED
    BY <1>1, <1>2, <2>1, PollsTop, Zenon DEF Top
<1> QED
  BY <1>2, <1>4, <1>6, <1>7, Zenon DEF FramesSound

\* One more iteration begins.
LEMMA PushKeeps ==
  ASSUME LoopTyped, FramesSound, NEW f \in Iteration, frames' \in Seq(Iteration),
         Len(frames') = Len(frames) + 1, frames'[Len(frames) + 1] = f,
         \A k \in 1 .. Len(frames) :
           SameIteration(frames'[k], frames[k]) /\ (frames'[k].serialSame => frames[k].serialSame),
         loop'.callbacks = loop.callbacks, loop'.depth >= f.exit,
         frames # <<>> => f.exit >= Top.exit, f.exit \in Nat, IterationSound(f)
  PROVE  FramesSound' /\ \A c : Cardinality(Polls(frames', c)) = Cardinality(Polls(frames, c)) + One(c \in f.fds)
<1>1. /\ frames \in Seq(Iteration) /\ Len(frames) \in Nat /\ DOMAIN frames = 1 .. Len(frames)
      /\ DOMAIN frames' = 1 .. Len(frames) + 1
  BY DEF LoopTyped
<1>2. ASSUME NEW k \in DOMAIN frames' PROVE IterationSound(frames[k])'
  <2>1. CASE k = Len(frames) + 1
    BY <2>1, Zenon DEF IterationSound
  <2>2. CASE k # Len(frames) + 1
    <3>1. k \in 1 .. Len(frames)
      BY <1>1, <2>2
    <3>2. IterationSound(frames[k])
      BY <1>1, <3>1, Zenon DEF FramesSound
    <3> QED
      BY <3>1, <3>2, Zenon DEF IterationSound, SameIteration
  <2> QED
    BY <2>1, <2>2, Zenon
<1>3. Nested'
  <2>1. frames' # <<>> => Top' = f
    BY Zenon DEF Top
  <2>2. ASSUME NEW k \in 1 .. Len(frames') - 1 PROVE frames'[k].exit <= frames'[k + 1].exit
    <3>1. CASE k = Len(frames)
      <4>1. frames # <<>> /\ k \in 1 .. Len(frames)
        BY <1>1, <3>1
      <4>2. frames'[k].exit = Top.exit /\ frames'[k + 1] = f /\ Top.exit <= f.exit
        <5>1. Top \in Iteration
          BY <1>1, <3>1, <4>1 DEF Top
        <5>2. Top.exit \in Nat
          BY <5>1, Zenon DEF Iteration
        <5>3. Top.exit <= f.exit
          BY <4>1, <5>2, Zenon
        <5> QED
          BY <3>1, <4>1, <5>3, Zenon DEF Top, SameIteration
      <4> QED
        BY <4>2, Zenon
    <3>2. CASE k # Len(frames)
      <4>1. k \in 1 .. Len(frames) - 1
        <5>1. \A n \in Nat : \A m \in 1 .. n + 1 - 1 : m # n => m \in 1 .. n - 1
          OBVIOUS
        <5>2. k \in 1 .. Len(frames) + 1 - 1
          OBVIOUS
        <5> QED
          BY <1>1, <3>2, <5>1, <5>2, Zenon
      <4>2. k \in 1 .. Len(frames) /\ k + 1 \in 1 .. Len(frames)
        BY <1>1, <4>1, Below, Zenon
      <4> QED
        BY <4>1, <4>2, Zenon DEF FramesSound, Nested, SameIteration
    <3> QED
      BY <3>1, <3>2, Zenon
  <2> QED
    BY <2>1, <2>2, Zenon DEF Nested
<1>4. ASSUME NEW c
      PROVE  Cardinality(Polls(frames', c)) = Cardinality(Polls(frames, c)) + One(c \in f.fds)
  <2>1. \A k \in 1 .. Len(frames) : frames'[k].fds = frames[k].fds
    BY Zenon DEF SameIteration
  <2> QED
    BY <1>1, <2>1, PollsPush, Zenon
<1> QED
  BY <1>2, <1>3, <1>4, Zenon DEF FramesSound

\* A loop ends, and the iteration that it was run from is the innermost again.
LEMMA PopKeeps ==
  ASSUME LoopTyped, FramesSound, frames # <<>>, frames' = SubSeq(frames, 1, Len(frames) - 1),
         loop' = loop, loop.depth = Top.exit, Top.fds = {}
  PROVE  /\ frames' \in Seq(Iteration) /\ FramesSound'
         /\ \A c : Cardinality(Polls(frames', c)) = Cardinality(Polls(frames, c))
<1>1. frames \in Seq(Iteration) /\ Len(frames) \in 1 .. Len(frames) /\ DOMAIN frames = 1 .. Len(frames)
  BY DEF LoopTyped
<1> DEFINE n == Len(frames')
<1>p. /\ frames' \in Seq(Iteration) /\ Len(frames) = n + 1 /\ n \in Nat /\ DOMAIN frames' = 1 .. n
      /\ (frames' # <<>> => n # 0) /\ n = Len(frames) - 1 /\ \A k \in 1 .. n : frames'[k] = frames[k]
  BY <1>1, PoppedIs, Zenon
<1>n. /\ \A k \in 1 .. n : k \in 1 .. Len(frames)
      /\ \A k \in 1 .. n - 1 : k \in 1 .. n /\ k + 1 \in 1 .. n
      /\ n # 0 => n \in 1 .. n
  <2>1. \A k \in 1 .. Len(frames) - 1 : k \in 1 .. Len(frames)
    BY <1>p
  <2> QED
    BY <1>p, <2>1, Below, Zenon
<1>2. ASSUME NEW k \in DOMAIN frames' PROVE IterationSound(frames[k])'
  BY <1>1, <1>p, <1>n, ZenonT(40) DEF FramesSound, IterationSound
<1>3. Nested'
  <2>1. ASSUME frames' # <<>> PROVE loop.depth >= frames'[Len(frames')].exit
    <3>1. /\ frames'[Len(frames')] = frames[Len(frames')] /\ frames[Len(frames')] \in Iteration
          /\ frames[Len(frames')].exit <= Top.exit
      <4>1. n \in 1 .. n /\ n \in 1 .. Len(frames) - 1
        BY <1>p, <1>n, <2>1, Zenon
      <4>2. frames[n].exit <= frames[n + 1].exit
        BY <4>1, Zenon DEF FramesSound, Nested
      <4> QED
        <5>1. frames[n] \in Iteration
          BY <1>1, <1>n, <4>1
        <5>2. Top = frames[n + 1]
          BY <1>p, Zenon DEF Top
        <5> QED
          BY <1>p, <4>1, <4>2, <5>1, <5>2, Zenon
    <3>2. loop.depth \in Nat /\ frames[Len(frames')].exit \in Nat
      BY <3>1, Zenon DEF LoopTyped, DBusLoop, Iteration
    <3> QED
      BY <3>1, <3>2, Zenon
  <2>2. ASSUME NEW k \in 1 .. Len(frames') - 1 PROVE frames'[k].exit <= frames'[k + 1].exit
    BY <1>p, <1>n, Zenon DEF FramesSound, Nested
  <2> QED
    BY <2>1, <2>2, Zenon DEF Nested, Top
<1>4. ASSUME NEW c PROVE Cardinality(Polls(frames', c)) = Cardinality(Polls(frames, c))
  <2>1. \A k \in 1 .. Len(frames') : frames[k].fds = frames'[k].fds
    BY <1>p, Zenon
  <2>2. Cardinality(Polls(frames, c)) = Cardinality(Polls(frames', c)) + One(c \in frames[Len(frames)].fds)
    BY <1>1, <1>p, <2>1, PollsPush, Zenon
  <2>3. One(c \in frames[Len(frames)].fds) = 0
    BY Zenon DEF One, Top
  <2>4. Cardinality(Polls(frames', c)) \in Nat
    BY <1>p, PollsFinite, Zenon
  <2> QED
    BY <2>2, <2>3, <2>4
<1> QED
  BY <1>p, <1>2, <1>3, <1>4, Zenon DEF FramesSound

-----------------------------------------------------------------------------
(***************************************************************************)
(* Steps that leave the list and the references alone.                     *)
(***************************************************************************)

\* What a step leaves of the list, and of the references that the list and the
\* iterations have.
SameList ==
  /\ loop'.callbacks = loop.callbacks /\ loop'.watch_count = loop.watch_count
  /\ loop'.timeout_count = loop.timeout_count
SameCallbacks ==
  /\ cb' \in [Callbacks -> Callback]
  /\ \A c \in Callbacks : cb'[c].new = cb[c].new /\ cb'[c].refcount = cb[c].refcount

\* A step that leaves the list alone leaves its counts right.
LEMMA ListSame ==
  ASSUME ListSound, SameList, SameCallbacks
  PROVE  ListSound'
  BY Zenon DEF ListSound, SameList, SameCallbacks, Listed

\* And so the references, when nobody begins or ends to poll.
LEMMA RefsSame ==
  ASSUME RefsSound, SameList, SameCallbacks,
         \A c : Cardinality(Polls(frames', c)) = Cardinality(Polls(frames, c))
  PROVE  RefsSound'
  BY Zenon DEF RefsSound, SameList, SameCallbacks, Listed

\* What CallbackBecomes does.
LEMMA CallbackIs ==
  ASSUME LoopTyped, NEW c, NEW r, c \in Callbacks => r \in Callback, CallbackBecomes(c, r)
  PROVE  /\ cb' \in [Callbacks -> Callback] /\ (c \in Callbacks => cb'[c] = r)
         /\ \A d \in Callbacks : d # c => cb'[d] = cb[d]
  BY Zenon DEF LoopTyped, CallbackBecomes

\* There is an innermost iteration.
LEMMA TopTyped ==
  ASSUME LoopTyped, frames # <<>>
  PROVE  Top \in Iteration /\ Len(frames) \in DOMAIN frames
  BY DEF LoopTyped, Top

\* The innermost iteration goes on, and polls what it polled.
LEMMA TopGoes ==
  ASSUME LoopInv, frames # <<>>, NEW f \in Iteration, SetTop(f), loop' \in DBusLoop, SameList,
         loop'.depth = loop.depth, SameCallbacks, f.exit = Top.exit, f.fds = Top.fds, IterationSound(f)
  PROVE  LoopInv'
<1> USE DEF LoopInv
<1>1. /\ frames' \in Seq(Iteration) /\ FramesSound'
      /\ \A c : Cardinality(Polls(frames', c))
                  = Cardinality(Polls(frames, c)) - One(c \in Top.fds) + One(c \in f.fds)
  BY TopKeeps, Zenon DEF SameList
<1>2. LoopTyped'
  BY <1>1, Zenon DEF LoopTyped, SameCallbacks
<1>3. \A c : Cardinality(Polls(frames', c)) = Cardinality(Polls(frames, c))
  <2> SUFFICES ASSUME NEW c PROVE Cardinality(Polls(frames', c)) = Cardinality(Polls(frames, c))
    BY Zenon
  <2>1. Cardinality(Polls(frames, c)) \in Nat
    BY PollsFinite, Zenon DEF LoopTyped
  <2>2. One(c \in f.fds) = One(c \in Top.fds) /\ One(c \in Top.fds) \in Nat
    BY Zenon DEF One
  <2> QED
    BY <1>1, <2>1, <2>2
<1>4. ListSound' /\ RefsSound'
  BY <1>3, ListSame, RefsSame, Zenon
<1> QED
  BY <1>1, <1>2, <1>4, Zenon

\* A handler does something else than to add and to remove.
LEMMA MarksGo ==
  ASSUME LoopInv, frames' = Acted, loop' \in DBusLoop, SameList, SameCallbacks,
         frames # <<>> => loop'.depth >= Top.exit
  PROVE  LoopInv'
<1> USE DEF LoopInv
<1>1. /\ frames' \in Seq(Iteration) /\ FramesSound'
      /\ \A c : Polls(frames', c) = Polls(frames, c)
  BY MarkedKeeps, Zenon DEF SameList
<1>2. LoopTyped'
  BY <1>1, Zenon DEF LoopTyped, SameCallbacks
<1>3. ListSound' /\ RefsSound'
  BY <1>1, ListSame, RefsSame, Zenon
<1> QED
  BY <1>1, <1>2, <1>3, Zenon

-----------------------------------------------------------------------------
(***************************************************************************)
(* Every action keeps the invariant.                                       *)
(***************************************************************************)

\* _dbus_loop_add_watch, _dbus_loop_add_timeout
LEMMA AddCallbackKeeps ==
  ASSUME LoopInv, NEW c \in Callbacks, AddCallback(c) PROVE LoopInv'
<1> USE DEF LoopInv
<1> DEFINE r == [cb[c] EXCEPT !.new = FALSE, !.refcount = 1]
           list == Append(loop.callbacks, c)
           wc == loop.watch_count + (IF c \in Watches THEN 1 ELSE 0)
           tc == loop.timeout_count + (IF c \in Timeouts THEN 1 ELSE 0)
<1>1. cb[c] \in Callback /\ loop \in DBusLoop /\ loop.callbacks \in Seq(Callbacks)
  BY Zenon DEF LoopTyped, DBusLoop
<1>2. ~Listed(c) /\ Once(loop.callbacks) /\ cb[c].new
  BY Zenon DEF AddCallback, ListSound
<1>3. list \in Seq(Callbacks) /\ Once(list) /\ Elements(list) = Elements(loop.callbacks) \cup {c}
  BY <1>1, <1>2, Appended, Zenon DEF Listed
<1>4. wc \in Int /\ tc \in Int
  <2>1. loop.watch_count \in Int /\ loop.timeout_count \in Int
    BY <1>1, Zenon DEF DBusLoop
  <2> QED
    BY <2>1
<1>5. loop' = [loop EXCEPT !.callbacks = list, !.watch_count = wc, !.timeout_count = tc]
  BY <1>1, Zenon DEF AddCallback, DBusLoop
<1> HIDE DEF list, wc, tc
<1>6. /\ loop' \in DBusLoop /\ loop'.callbacks = list /\ loop'.watch_count = wc
      /\ loop'.timeout_count = tc /\ loop'.depth = loop.depth
  <2>1. loop' \in DBusLoop
    BY <1>1, <1>3, <1>4, <1>5, Zenon DEF DBusLoop
  <2> QED
    BY <1>1, <1>5, <2>1, Zenon DEF DBusLoop
<1>7. r \in Callback /\ r.new = FALSE /\ r.refcount = 1
  <2>1. 1 \in Int
    OBVIOUS
  <2> QED
    BY <1>1, <2>1, Zenon DEF Callback
<1>8. cb' \in [Callbacks -> Callback] /\ cb'[c] = r /\ \A d \in Callbacks : d # c => cb'[d] = cb[d]
  BY <1>7, CallbackIs, Zenon DEF AddCallback
<1>9. /\ frames' \in Seq(Iteration) /\ FramesSound' /\ \A d : Polls(frames', d) = Polls(frames, d)
  <2>1. frames # <<>> => loop'.depth >= Top.exit
    BY <1>6, Zenon DEF FramesSound, Nested
  <2>2. frames' = Bump
    BY Zenon DEF AddCallback
  <2> QED
    BY <1>6, <2>1, <2>2, MarkedKeeps, Zenon
<1>10. Elements(loop.callbacks)' = Elements(loop.callbacks) \cup {c}
  BY <1>3, <1>6, Zenon
<1>11. ListSound'
  <2>1. \A d \in Callbacks : cb'[d].new => ~Listed(d)' /\ cb'[d].refcount = 0
    BY <1>7, <1>8, <1>10, Zenon DEF ListSound, Listed
  <2>2. ASSUME NEW S PROVE Cardinality((Elements(loop.callbacks) \cup {c}) \cap S)
                             = Cardinality(Elements(loop.callbacks) \cap S) + (IF c \in S THEN 1 ELSE 0)
    <3> DEFINE E == Elements(loop.callbacks) \cap S
    <3>1. IsFiniteSet(E) /\ Cardinality(E) \in Nat
      BY <1>1, ElementsFinite, Zenon
    <3>2. c \notin E
      BY <1>2, Zenon DEF Listed
    <3>3. Cardinality(E \cup {c}) = Cardinality(E) + 1
      BY <3>1, <3>2, FS_AddElement, Zenon
    <3>4. Cardinality(E) + 0 = Cardinality(E)
      BY <3>1
    <3>5. CASE c \in S
      <4>1. (Elements(loop.callbacks) \cup {c}) \cap S = E \cup {c}
        BY <3>5, Zenon
      <4> QED
        BY <3>3, <3>5, <4>1, Zenon
    <3>6. CASE c \notin S
      <4>1. (Elements(loop.callbacks) \cup {c}) \cap S = E
        BY <3>6, Zenon
      <4> QED
        BY <3>4, <3>6, <4>1, Zenon
    <3> QED
      BY <3>5, <3>6, Zenon
  <2>3. loop'.watch_count = Cardinality(Elements(loop'.callbacks) \cap Watches)
    BY <1>6, <1>10, <2>2, Zenon DEF ListSound, wc
  <2>4. loop'.timeout_count = Cardinality(Elements(loop'.callbacks) \cap Timeouts)
    BY <1>6, <1>10, <2>2, Zenon DEF ListSound, tc
  <2> QED
    BY <1>3, <1>6, <2>1, <2>3, <2>4, Zenon DEF ListSound
<1>12. RefsSound'
  <2> SUFFICES ASSUME NEW d \in Callbacks
               PROVE  cb'[d].refcount = (IF Listed(d)' THEN 1 ELSE 0) + Cardinality(Polls(frames', d))
    BY Zenon DEF RefsSound
  <2>1. CASE d = c
    <3>1. cb[c].refcount = 0 + Cardinality(Polls(frames, c)) /\ cb[c].refcount = 0
      BY <1>2, Zenon DEF RefsSound, ListSound
    <3>2. Cardinality(Polls(frames, c)) \in Nat
      BY PollsFinite, Zenon DEF LoopTyped
    <3>3. 1 = 1 + Cardinality(Polls(frames, c))
      BY <3>1, <3>2
    <3>4. Listed(c)'
      BY <1>10, Zenon DEF Listed
    <3> QED
      BY <1>7, <1>8, <1>9, <2>1, <3>3, <3>4, Zenon
  <2>2. CASE d # c
    <3>1. Listed(d)' <=> Listed(d)
      BY <1>10, <2>2, Zenon DEF Listed
    <3> QED
      BY <1>8, <1>9, <2>2, <3>1, Zenon DEF RefsSound
  <2> QED
    BY <2>1, <2>2, Zenon
<1> QED
  BY <1>6, <1>8, <1>9, <1>11, <1>12, Zenon DEF LoopTyped

\* _dbus_loop_remove_watch, _dbus_loop_remove_timeout
LEMMA RemoveCallbackKeeps ==
  ASSUME LoopInv, NEW c \in Callbacks, RemoveCallback(c) PROVE LoopInv'
<1> USE DEF LoopInv
<1>1. /\ cb[c] \in Callback /\ loop \in DBusLoop /\ loop.callbacks \in Seq(Callbacks)
      /\ loop.watch_count \in Int /\ loop.timeout_count \in Int /\ cb[c].refcount \in Int
  BY Zenon DEF LoopTyped, DBusLoop, Callback
<1> DEFINE r == [cb[c] EXCEPT !.refcount = cb[c].refcount - 1]
           wc == loop.watch_count - (IF c \in Watches THEN 1 ELSE 0)
           tc == loop.timeout_count - (IF c \in Timeouts THEN 1 ELSE 0)
<1>2. PICK i \in DOMAIN loop.callbacks :
        /\ loop.callbacks[i] = c
        /\ loop' = [loop EXCEPT !.callbacks = RemoveLink(@, i),
                                !.watch_count = @ - (IF c \in Watches THEN 1 ELSE 0),
                                !.timeout_count = @ - (IF c \in Timeouts THEN 1 ELSE 0)]
  BY Zenon DEF RemoveCallback
<1> DEFINE list == RemoveLink(loop.callbacks, i)
<1>3. list \in Seq(Callbacks) /\ Once(list) /\ Elements(list) = Elements(loop.callbacks) \ {c}
  BY <1>1, <1>2, Removed, Zenon DEF ListSound
<1>4. wc \in Int /\ tc \in Int /\ cb[c].refcount - 1 \in Int
  BY <1>1
<1>5. loop' = [loop EXCEPT !.callbacks = list, !.watch_count = wc, !.timeout_count = tc]
  BY <1>1, <1>2, Zenon DEF DBusLoop
<1> HIDE DEF list, wc, tc
<1>6. /\ loop' \in DBusLoop /\ loop'.callbacks = list /\ loop'.watch_count = wc
      /\ loop'.timeout_count = tc /\ loop'.depth = loop.depth
  <2>1. loop' \in DBusLoop
    BY <1>1, <1>3, <1>4, <1>5, Zenon DEF DBusLoop
  <2> QED
    BY <1>1, <1>5, <2>1, Zenon DEF DBusLoop
<1>7. r \in Callback /\ r.new = cb[c].new /\ r.refcount = cb[c].refcount - 1
  BY <1>1, <1>4, Zenon DEF Callback
<1>8. cb' \in [Callbacks -> Callback] /\ cb'[c] = r /\ \A d \in Callbacks : d # c => cb'[d] = cb[d]
  <2>1. CallbackBecomes(c, r)
    BY <1>1, Zenon DEF RemoveCallback, Callback
  <2> QED
    BY <1>7, <2>1, CallbackIs, Zenon
<1>9. /\ frames' \in Seq(Iteration) /\ FramesSound' /\ \A d : Polls(frames', d) = Polls(frames, d)
  <2>1. frames # <<>> => loop'.depth >= Top.exit
    BY <1>6, Zenon DEF FramesSound, Nested
  <2>2. frames' = Bump
    BY Zenon DEF RemoveCallback
  <2> QED
    BY <1>6, <2>1, <2>2, MarkedKeeps, Zenon
<1>10. Elements(loop.callbacks)' = Elements(loop.callbacks) \ {c} /\ Listed(c)
  BY <1>2, <1>3, <1>6, Zenon DEF Listed, Elements
<1>11. ListSound'
  <2>1. \A d \in Callbacks : cb'[d].new => ~Listed(d)' /\ cb'[d].refcount = 0
    BY <1>7, <1>8, <1>10, Zenon DEF ListSound, Listed
  <2>2. ASSUME NEW S PROVE Cardinality((Elements(loop.callbacks) \ {c}) \cap S)
                             = Cardinality(Elements(loop.callbacks) \cap S) - (IF c \in S THEN 1 ELSE 0)
    <3> DEFINE E == Elements(loop.callbacks) \cap S
    <3>1. IsFiniteSet(E) /\ Cardinality(E) \in Nat
      BY <1>1, ElementsFinite, Zenon
    <3>4. Cardinality(E) - 0 = Cardinality(E)
      BY <3>1
    <3>5. CASE c \in S
      <4>1. (Elements(loop.callbacks) \ {c}) \cap S = E \ {c} /\ c \in E
        BY <1>10, <3>5, Zenon DEF Listed
      <4>2. Cardinality(E \ {c}) = Cardinality(E) - 1
        BY <3>1, <4>1, FS_RemoveElement, Zenon
      <4> QED
        BY <3>5, <4>1, <4>2, Zenon
    <3>6. CASE c \notin S
      <4>1. (Elements(loop.callbacks) \ {c}) \cap S = E
        BY <3>6, Zenon
      <4> QED
        BY <3>4, <3>6, <4>1, Zenon
    <3> QED
      BY <3>5, <3>6, Zenon
  <2>3. loop'.watch_count = Cardinality(Elements(loop'.callbacks) \cap Watches)
    BY <1>6, <1>10, <2>2, Zenon DEF ListSound, wc
  <2>4. loop'.timeout_count = Cardinality(Elements(loop'.callbacks) \cap Timeouts)
    BY <1>6, <1>10, <2>2, Zenon DEF ListSound, tc
  <2> QED
    BY <1>3, <1>6, <2>1, <2>3, <2>4, Zenon DEF ListSound
<1>12. RefsSound'
  <2> SUFFICES ASSUME NEW d \in Callbacks
               PROVE  cb'[d].refcount = (IF Listed(d)' THEN 1 ELSE 0) + Cardinality(Polls(frames', d))
    BY Zenon DEF RefsSound
  <2>1. CASE d = c
    <3>1. cb[c].refcount = 1 + Cardinality(Polls(frames, c))
      BY <1>10, Zenon DEF RefsSound
    <3>2. Cardinality(Polls(frames, c)) \in Nat
      BY PollsFinite, Zenon DEF LoopTyped
    <3>3. cb[c].refcount - 1 = 0 + Cardinality(Polls(frames, c))
      BY <3>1, <3>2
    <3>4. ~Listed(c)'
      BY <1>10, Zenon DEF Listed
    <3> QED
      BY <1>7, <1>8, <1>9, <2>1, <3>3, <3>4, Zenon
  <2>2. CASE d # c
    <3>1. Listed(d)' <=> Listed(d)
      BY <1>10, <2>2, Zenon DEF Listed
    <3> QED
      BY <1>8, <1>9, <2>2, <3>1, Zenon DEF RefsSound
  <2> QED
    BY <2>1, <2>2, Zenon
<1> QED
  BY <1>6, <1>8, <1>9, <1>11, <1>12, Zenon DEF LoopTyped

\* dbus_watch_toggle, dbus_timeout_toggle
LEMMA ToggleKeeps ==
  ASSUME LoopInv, NEW c \in Callbacks, Toggle(c) PROVE LoopInv'
<1> USE DEF LoopInv
<1> DEFINE r == [cb[c] EXCEPT !.enabled = ~cb[c].enabled]
<1>1. cb[c] \in Callback /\ loop \in DBusLoop
  BY Zenon DEF LoopTyped
<1>2. r \in Callback /\ r.new = cb[c].new /\ r.refcount = cb[c].refcount
  BY <1>1, Zenon DEF Callback
<1>3. CallbackBecomes(c, r) /\ frames' = Acted /\ loop' = loop
  BY <1>1, Zenon DEF Toggle, Callback
<1>4. SameCallbacks
  BY <1>2, <1>3, CallbackIs, Zenon DEF SameCallbacks
<1>5. SameList /\ (frames # <<>> => loop'.depth >= Top.exit)
  BY <1>3, Zenon DEF SameList, FramesSound, Nested
<1> QED
  BY <1>1, <1>3, <1>4, <1>5, MarksGo, Zenon

\* A timeout becomes due.
LEMMA TimePassesKeeps ==
  ASSUME LoopInv, NEW c \in Timeouts, TimePasses(c) PROVE LoopInv'
<1> USE DEF LoopInv
<1> DEFINE r == [cb[c] EXCEPT !.due = TRUE]
<1>1. c \in Callbacks /\ cb[c] \in Callback /\ loop \in DBusLoop
  BY Zenon DEF LoopTyped, Callbacks
<1>2. r \in Callback /\ r.new = cb[c].new /\ r.refcount = cb[c].refcount
  BY <1>1, Zenon DEF Callback
<1>3. CallbackBecomes(c, r) /\ frames' = frames /\ loop' = loop
  BY Zenon DEF TimePasses
<1>4. SameCallbacks
  BY <1>1, <1>2, <1>3, CallbackIs, Zenon DEF SameCallbacks
<1>5. SameList /\ LoopTyped' /\ FramesSound'
  BY <1>3, <1>4, Zenon DEF SameList, SameCallbacks, LoopTyped, FramesSound, Nested,
     IterationSound, Top
<1> QED
  BY <1>3, <1>4, <1>5, ListSame, RefsSame, Zenon

\* _dbus_loop_queue_dispatch
LEMMA QueueDispatchKeeps ==
  ASSUME LoopInv, QueueDispatch PROVE LoopInv'
<1> USE DEF LoopInv
<1>1. loop \in DBusLoop /\ loop.need_dispatch \in Nat
  BY Zenon DEF LoopTyped, DBusLoop
<1> DEFINE n == loop.need_dispatch + 1
<1>2. n \in Nat
  BY <1>1
<1>3. loop' = [loop EXCEPT !.need_dispatch = n] /\ frames' = Acted /\ cb' = cb
  BY <1>1, Zenon DEF QueueDispatch, DBusLoop
<1> HIDE DEF n
<1>4. loop' \in DBusLoop
  BY <1>1, <1>2, <1>3, Zenon DEF DBusLoop
<1>5. SameList /\ loop'.depth = loop.depth
  BY <1>1, <1>3, Zenon DEF DBusLoop, SameList
<1>6. SameCallbacks
  BY <1>3, Zenon DEF SameCallbacks, LoopTyped
<1> QED
  BY <1>3, <1>4, <1>5, <1>6, MarksGo, Zenon DEF FramesSound, Nested

\* _dbus_loop_quit
LEMMA QuitKeeps ==
  ASSUME LoopInv, Quit PROVE LoopInv'
<1> USE DEF LoopInv
<1>1. loop \in DBusLoop /\ loop.depth \in Nat /\ frames # <<>> /\ loop.depth > Top.exit
  BY Zenon DEF LoopTyped, DBusLoop, Quit, InHandler, At
<1>2. Top.exit \in Nat
  BY <1>1, TopTyped, Zenon DEF Iteration
<1> DEFINE n == loop.depth - 1
<1>3. n \in Nat /\ n >= Top.exit
  BY <1>1, <1>2
<1>4. loop' = [loop EXCEPT !.depth = n] /\ frames' = Acted /\ cb' = cb
  BY <1>1, Zenon DEF Quit, DBusLoop
<1> HIDE DEF n
<1>5. loop' \in DBusLoop
  BY <1>1, <1>3, <1>4, Zenon DEF DBusLoop
<1>6. SameList /\ loop'.depth = n
  BY <1>1, <1>4, Zenon DEF DBusLoop, SameList
<1>7. SameCallbacks
  BY <1>4, Zenon DEF SameCallbacks, LoopTyped
<1> QED
  BY <1>3, <1>4, <1>5, <1>6, <1>7, MarksGo, Zenon

\* _dbus_poll says which watches are ready.
LEMMA PollKeeps ==
  ASSUME LoopInv, Poll PROVE LoopInv'
<1> USE DEF LoopInv
<1>1. frames # <<>> /\ Top.at = "poll" /\ loop' = loop /\ cb' = cb
  BY Zenon DEF Poll, At
<1>2. PICK ready \in SUBSET Top.fds : SetTop([Top EXCEPT !.at = "timeouts", !.ready = ready])
  BY Zenon DEF Poll
<1>3. Top \in Iteration /\ IterationSound(Top)
  BY <1>1, TopTyped, Zenon DEF FramesSound, Top
<1>4. ready \in SUBSET Callbacks /\ "timeouts" \in IterationPlaces
  BY <1>3, Zenon DEF Iteration, IterationPlaces
<1> DEFINE f == [Top EXCEPT !.at = "timeouts", !.ready = ready]
<1>5. f \in Iteration
  BY <1>3, <1>4, Zenon DEF Iteration
<1>6. /\ f.at = "timeouts" /\ f.exit = Top.exit /\ f.fds = Top.fds /\ f.depth = Top.depth
      /\ f.list = Top.list /\ f.serialSame = Top.serialSame
  BY <1>3, Zenon DEF Iteration
<1>7. IterationSound(f)
  BY <1>1, <1>3, <1>6, Zenon DEF IterationSound
<1>8. SameList /\ SameCallbacks /\ loop' \in DBusLoop /\ loop'.depth = loop.depth
  BY <1>1, Zenon DEF SameList, SameCallbacks, LoopTyped
<1> HIDE DEF f
<1> QED
  BY <1>1, <1>2, <1>5, <1>6, <1>7, <1>8, TopGoes, Zenon DEF f

\* The innermost iteration is at another place, with the array that it had.
LEMMA Goes ==
  ASSUME LoopInv, frames # <<>>, NEW place \in IterationPlaces, NEW n \in Nat \ {0}, NEW acted \in BOOLEAN,
         SetTop([Top EXCEPT !.at = place, !.i = n, !.acted = acted]),
         loop' \in DBusLoop, SameList, loop'.depth = loop.depth, SameCallbacks,
         place \in {"end"} \/ (Top.at \notin {"end", "dispatches", "dispatch"}
                                 /\ place \notin {"dispatches", "dispatch"})
           \/ (Top.at \in {"dispatches", "dispatch"} /\ place \in {"dispatches", "dispatch"})
  PROVE  LoopInv'
<1> USE DEF LoopInv
<1> DEFINE f == [Top EXCEPT !.at = place, !.i = n, !.acted = acted]
<1>1. Top \in Iteration /\ IterationSound(Top)
  BY TopTyped, Zenon DEF FramesSound, Top
<1>2. f \in Iteration
  BY <1>1, Zenon DEF Iteration
<1>3. /\ f.at = place /\ f.exit = Top.exit /\ f.fds = Top.fds /\ f.depth = Top.depth
      /\ f.list = Top.list /\ f.serialSame = Top.serialSame
  BY <1>1, Zenon DEF Iteration
<1>4. IterationSound(f)
  BY <1>1, <1>3, Zenon DEF IterationSound
<1> HIDE DEF f
<1> QED
  BY <1>2, <1>3, <1>4, TopGoes, Zenon DEF f

\* The shorter forms in which the actions say so.
LEMMA TopForms ==
  ASSUME Top \in Iteration, NEW place, NEW n
  PROVE  /\ [Top EXCEPT !.at = place] = [Top EXCEPT !.at = place, !.i = Top.i, !.acted = Top.acted]
         /\ [Top EXCEPT !.i = n] = [Top EXCEPT !.at = Top.at, !.i = n, !.acted = Top.acted]
         /\ [Top EXCEPT !.at = place, !.i = n] = [Top EXCEPT !.at = place, !.i = n, !.acted = Top.acted]
         /\ [Top EXCEPT !.at = place, !.acted = FALSE] = [Top EXCEPT !.at = place, !.i = Top.i, !.acted = FALSE]
  BY Zenon DEF Iteration

\* The timeouts that are due are called, one by one.
LEMMA FireTimeoutsKeeps ==
  ASSUME LoopInv, FireTimeouts PROVE LoopInv'
<1> USE DEF LoopInv
<1>1. frames # <<>> /\ Top.at = "timeouts" /\ loop' = loop
  BY Zenon DEF FireTimeouts, At
<1>2. Top \in Iteration /\ Top.i \in Nat \ {0} /\ Top.acted \in BOOLEAN
  BY <1>1, TopTyped, Zenon DEF Iteration
<1>3. /\ {"end", "watches", "timeout", "timeouts"} \subseteq IterationPlaces /\ 1 \in Nat \ {0} /\ Top.i + 1 \in Nat \ {0}
  BY <1>2 DEF IterationPlaces
<1>4. SameList /\ loop' \in DBusLoop /\ loop'.depth = loop.depth
  BY <1>1, Zenon DEF SameList, LoopTyped
<1>5. cb' = cb => SameCallbacks
  BY Zenon DEF SameCallbacks, LoopTyped
<1>6. CASE SetTop([Top EXCEPT !.at = "end"]) /\ UNCHANGED cb
  <2>1. SetTop([Top EXCEPT !.at = "end", !.i = Top.i, !.acted = Top.acted])
    BY <1>2, <1>6, TopForms, Zenon
  <2> QED
    BY <1>1, <1>2, <1>3, <1>4, <1>5, <1>6, <2>1, Goes, Zenon
<1>7. CASE SetTop([Top EXCEPT !.at = "watches", !.i = 1]) /\ UNCHANGED cb
  <2>1. SetTop([Top EXCEPT !.at = "watches", !.i = 1, !.acted = Top.acted])
    BY <1>2, <1>7, TopForms, Zenon
  <2> QED
    BY <1>1, <1>2, <1>3, <1>4, <1>5, <1>7, <2>1, Goes, Zenon
<1>8. CASE SetTop([Top EXCEPT !.i = @ + 1]) /\ UNCHANGED cb
  <2>1. SetTop([Top EXCEPT !.i = Top.i + 1])
    BY <1>2, <1>8, Zenon DEF Iteration
  <2>2. SetTop([Top EXCEPT !.at = "timeouts", !.i = Top.i + 1, !.acted = Top.acted])
    BY <1>1, <1>2, <2>1, TopForms, Zenon
  <2> QED
    BY <1>1, <1>2, <1>3, <1>4, <1>5, <1>8, <2>2, Goes, Zenon
<1>9. ASSUME NEW c \in Callbacks, CallbackBecomes(c, [cb[c] EXCEPT !.due = FALSE]),
             SetTop([Top EXCEPT !.at = "timeout"])
      PROVE  LoopInv'
  <2>1. cb[c] \in Callback
    BY Zenon DEF LoopTyped
  <2> DEFINE r == [cb[c] EXCEPT !.due = FALSE]
  <2>2. r \in Callback /\ r.new = cb[c].new /\ r.refcount = cb[c].refcount
    BY <2>1, Zenon DEF Callback
  <2>3. SameCallbacks
    BY <1>9, <2>2, CallbackIs, Zenon DEF SameCallbacks
  <2>4. SetTop([Top EXCEPT !.at = "timeout", !.i = Top.i, !.acted = Top.acted])
    BY <1>2, <1>9, TopForms, Zenon
  <2> QED
    BY <1>1, <1>2, <1>3, <1>4, <2>3, <2>4, Goes, Zenon
<1>10. Enabled \subseteq Callbacks
  BY Zenon DEF Enabled, Callbacks
<1> QED
  BY <1>6, <1>7, <1>8, <1>9, <1>10, Zenon DEF FireTimeouts

\* The watches that are ready are called, one by one.
LEMMA HandleWatchesKeeps ==
  ASSUME LoopInv, HandleWatches PROVE LoopInv'
<1> USE DEF LoopInv
<1>1. frames # <<>> /\ Top.at = "watches" /\ loop' = loop /\ cb' = cb
  BY Zenon DEF HandleWatches, At
<1>2. Top \in Iteration /\ Top.i \in Nat \ {0} /\ Top.acted \in BOOLEAN
  BY <1>1, TopTyped, Zenon DEF Iteration
<1>3. /\ {"end", "watches", "watch"} \subseteq IterationPlaces /\ Top.i + 1 \in Nat \ {0}
  BY <1>2 DEF IterationPlaces
<1>4. SameList /\ loop' \in DBusLoop /\ loop'.depth = loop.depth /\ SameCallbacks
  BY <1>1, Zenon DEF SameList, LoopTyped, SameCallbacks
<1>5. CASE SetTop([Top EXCEPT !.at = "end"])
  <2>1. SetTop([Top EXCEPT !.at = "end", !.i = Top.i, !.acted = Top.acted])
    BY <1>2, <1>5, TopForms, Zenon
  <2> QED
    BY <1>1, <1>2, <1>3, <1>4, <2>1, Goes, Zenon
<1>6. CASE SetTop([Top EXCEPT !.at = "watch"])
  <2>1. SetTop([Top EXCEPT !.at = "watch", !.i = Top.i, !.acted = Top.acted])
    BY <1>2, <1>6, TopForms, Zenon
  <2> QED
    BY <1>1, <1>2, <1>3, <1>4, <2>1, Goes, Zenon
<1>7. CASE SetTop([Top EXCEPT !.i = @ + 1])
  <2>1. SetTop([Top EXCEPT !.i = Top.i + 1])
    BY <1>2, <1>7, Zenon DEF Iteration
  <2>2. SetTop([Top EXCEPT !.at = "watches", !.i = Top.i + 1, !.acted = Top.acted])
    BY <1>1, <1>2, <2>1, TopForms, Zenon
  <2> QED
    BY <1>1, <1>2, <1>3, <1>4, <2>2, Goes, Zenon
<1> QED
  BY <1>5, <1>6, <1>7, Zenon DEF HandleWatches

\* A handler returns to the iteration that called it.
LEMMA HandlerReturnsKeeps ==
  ASSUME LoopInv, HandlerReturns PROVE LoopInv'
<1> USE DEF LoopInv
<1>1. frames # <<>> /\ loop' = loop
  BY Zenon DEF HandlerReturns, At
<1>2. Top \in Iteration /\ Top.i \in Nat \ {0}
  BY <1>1, TopTyped, Zenon DEF Iteration
<1>3. /\ {"timeouts", "watches", "dispatches"} \subseteq IterationPlaces /\ Top.i + 1 \in Nat \ {0}
      /\ FALSE \in BOOLEAN
  BY <1>2 DEF IterationPlaces
<1>4. SameList /\ loop' \in DBusLoop /\ loop'.depth = loop.depth
  BY <1>1, Zenon DEF SameList, LoopTyped
<1>5. ASSUME At({"timeout"}), SetTop([Top EXCEPT !.at = "timeouts", !.i = @ + 1, !.acted = FALSE]),
             cb' = cb
      PROVE  LoopInv'
  <2>1. SetTop([Top EXCEPT !.at = "timeouts", !.i = Top.i + 1, !.acted = FALSE])
    BY <1>2, <1>5, Zenon DEF Iteration
  <2>2. SameCallbacks
    BY <1>5, Zenon DEF SameCallbacks, LoopTyped
  <2> QED
    BY <1>1, <1>3, <1>4, <1>5, <2>1, <2>2, Goes, Zenon DEF At
<1>6. ASSUME At({"watch"}), SetTop([Top EXCEPT !.at = "watches", !.i = @ + 1, !.acted = FALSE]),
             NEW c, NEW oom \in BOOLEAN, CallbackBecomes(c, [cb[c] EXCEPT !.oom = oom \/ @])
      PROVE  LoopInv'
  <2>1. SetTop([Top EXCEPT !.at = "watches", !.i = Top.i + 1, !.acted = FALSE])
    BY <1>2, <1>6, Zenon DEF Iteration
  <2> DEFINE r == [cb[c] EXCEPT !.oom = oom \/ @]
  <2>2. ASSUME c \in Callbacks PROVE r \in Callback /\ r.new = cb[c].new /\ r.refcount = cb[c].refcount
    <3>1. cb[c] \in Callback /\ (oom \/ cb[c].oom) \in BOOLEAN
      BY <2>2, Zenon DEF LoopTyped, Callback
    <3>2. r = [cb[c] EXCEPT !.oom = oom \/ cb[c].oom]
      BY <3>1, Zenon DEF Callback
    <3> QED
      BY <3>1, <3>2, Zenon DEF Callback
  <2>3. SameCallbacks
    <3> HIDE DEF r
    <3>1. CallbackBecomes(c, r)
      BY <1>6, Zenon DEF r
    <3> QED
      BY <2>2, <3>1, CallbackIs, Zenon DEF SameCallbacks
  <2> QED
    BY <1>1, <1>3, <1>4, <1>6, <2>1, <2>3, Goes, Zenon DEF At
<1>7. ASSUME At({"dispatch"}), SetTop([Top EXCEPT !.at = "dispatches", !.acted = FALSE]), cb' = cb
      PROVE  LoopInv'
  <2>1. SetTop([Top EXCEPT !.at = "dispatches", !.i = Top.i, !.acted = FALSE])
    BY <1>2, <1>7, TopForms, Zenon
  <2>2. SameCallbacks
    BY <1>7, Zenon DEF SameCallbacks, LoopTyped
  <2> QED
    BY <1>1, <1>2, <1>3, <1>4, <1>7, <2>1, <2>2, Goes, Zenon DEF At
<1> QED
  BY <1>5, <1>6, <1>7, Zenon DEF HandlerReturns

\* The iteration that begins.
LEMMA FrameTyped ==
  ASSUME LoopTyped, NEW exit \in Nat, NEW depth \in Nat, depth > exit
  PROVE  /\ Frame(exit, depth) \in Iteration /\ IterationSound(Frame(exit, depth))
         /\ Frame(exit, depth).fds = Polled /\ Frame(exit, depth).exit = exit
<1>1. Wait \in Int
  <2> DEFINE t == IF loop.need_dispatch > 0 \/ \E c \in Enabled : cb[c].due THEN 0
                  ELSE IF Enabled # {} THEN 2 ELSE -1
  <2>1. t \in Int
    OBVIOUS
  <2> HIDE DEF t
  <2>2. (IF Skipped # {} /\ OomWait < t THEN OomWait ELSE t) \in Int
    BY <2>1 DEF OomWait
  <2> QED
    BY <2>2, Zenon DEF Wait, t
<1>2. loop.callbacks \in Seq(Callbacks) /\ Polled \in SUBSET Callbacks
  BY Zenon DEF LoopTyped, DBusLoop, Polled, Callbacks
<1>3. (IF loop.callbacks = <<>> THEN "end" ELSE "poll") \in {"end", "poll"}
  BY Zenon
<1>4. 1 \in Nat \ {0}
  OBVIOUS
<1>5. Frame(exit, depth) \in Iteration
  <2>1. (IF loop.callbacks = <<>> THEN "end" ELSE "poll") \in IterationPlaces
    BY <1>3, Zenon DEF IterationPlaces
  <2> QED
    BY <1>1, <1>2, <1>4, <2>1, Zenon DEF Frame, Iteration
<1>6. /\ Frame(exit, depth).at \in {"end", "poll"} /\ Frame(exit, depth).list = loop.callbacks
      /\ Frame(exit, depth).depth = depth /\ Frame(exit, depth).fds = Polled
      /\ Frame(exit, depth).exit = exit
  BY <1>3, Zenon DEF Frame
<1>7. IterationSound(Frame(exit, depth))
  BY <1>6, Zenon DEF IterationSound
<1> QED
  BY <1>5, <1>6, <1>7, Zenon

\* callback_ref for each watch in the array.
LEMMA PreparedKeeps ==
  ASSUME LoopInv, cb' = Prepared, SameList,
         \A c : Cardinality(Polls(frames', c)) = Cardinality(Polls(frames, c)) + One(c \in Polled)
  PROVE  cb' \in [Callbacks -> Callback] /\ ListSound' /\ RefsSound'
<1> USE DEF LoopInv
<1>1. ASSUME NEW c \in Callbacks
      PROVE  /\ cb'[c] \in Callback /\ cb'[c].new = cb[c].new
             /\ cb'[c].refcount = cb[c].refcount + One(c \in Polled)
  <2> DEFINE oom == cb[c].oom /\ c \notin Skipped
             n == cb[c].refcount + One(c \in Polled)
  <2>1. cb[c] \in Callback /\ cb[c].refcount \in Int /\ oom \in BOOLEAN
    BY Zenon DEF LoopTyped, Callback
  <2>2. n \in Int
    BY <2>1 DEF One
  <2>3. cb'[c] = [cb[c] EXCEPT !.oom = oom, !.refcount = n]
    BY <2>1, Zenon DEF Prepared, Callback, One
  <2> HIDE DEF n, oom
  <2>4. [cb[c] EXCEPT !.oom = oom, !.refcount = n] \in Callback
    BY <2>1, <2>2, Zenon DEF Callback
  <2>5. /\ [cb[c] EXCEPT !.oom = oom, !.refcount = n].new = cb[c].new
        /\ [cb[c] EXCEPT !.oom = oom, !.refcount = n].refcount = n
    BY <2>1, Zenon DEF Callback
  <2> QED
    BY <2>3, <2>4, <2>5, Zenon DEF n
<1>2. cb' \in [Callbacks -> Callback]
  <2>1. cb' = [c \in Callbacks |-> cb'[c]]
    BY Zenon DEF Prepared
  <2> QED
    BY <1>1, <2>1, Zenon
<1>3. ListSound'
  <2>1. ASSUME NEW c \in Callbacks, cb'[c].new PROVE ~Listed(c)' /\ cb'[c].refcount = 0
    <3>1. ~Listed(c) /\ cb[c].refcount = 0 /\ c \notin Polled
      BY <1>1, <2>1, Zenon DEF ListSound, Polled, Listed
    <3>2. cb'[c].refcount = 0 + 0
      BY <1>1, <3>1, Zenon DEF One
    <3> QED
      BY <3>1, <3>2 DEF Listed, SameList
  <2> QED
    BY <2>1, Zenon DEF ListSound, SameList
<1>4. RefsSound'
  <2> SUFFICES ASSUME NEW c \in Callbacks
               PROVE  cb'[c].refcount = (IF Listed(c)' THEN 1 ELSE 0) + Cardinality(Polls(frames', c))
    BY Zenon DEF RefsSound
  <2> DEFINE l == IF Listed(c) THEN 1 ELSE 0
  <2>1. Cardinality(Polls(frames, c)) \in Nat
    BY PollsFinite, Zenon DEF LoopTyped
  <2>2. l \in Nat /\ One(c \in Polled) \in Nat /\ l = IF Listed(c)' THEN 1 ELSE 0
    BY Zenon DEF One, SameList, Listed
  <2>3. cb[c].refcount = l + Cardinality(Polls(frames, c))
    BY Zenon DEF RefsSound
  <2> HIDE DEF l
  <2>4. cb'[c].refcount = l + Cardinality(Polls(frames', c))
    BY <1>1, <2>1, <2>2, <2>3
  <2> QED
    BY <2>2, <2>4, Zenon
<1> QED
  BY <1>2, <1>3, <1>4, Zenon

\* _dbus_loop_run, of the program
LEMMA IterateKeeps ==
  ASSUME LoopInv, Iterate PROVE LoopInv'
<1> USE DEF LoopInv
<1>1. frames = <<>> /\ loop.depth > 0 /\ cb' = Prepared /\ loop' = loop /\ loop.depth \in Nat /\ 0 \in Nat
  BY Zenon DEF Iterate, LoopTyped, DBusLoop
<1> DEFINE f == Frame(0, loop.depth)
<1>2. f \in Iteration /\ IterationSound(f) /\ f.fds = Polled /\ f.exit = 0
  BY <1>1, FrameTyped, Zenon
<1>3. frames' = <<f>>
  BY Zenon DEF Iterate
<1> HIDE DEF f
<1>4. /\ frames' \in Seq(Iteration) /\ Len(frames) = 0 /\ Len(frames') = Len(frames) + 1
      /\ frames'[Len(frames) + 1] = f
  BY <1>1, <1>2, <1>3
<1>5. \A k \in 1 .. Len(frames) : FALSE
  BY <1>4
<1>6. SameList /\ loop'.depth >= f.exit /\ f.exit \in Nat
  BY <1>1, <1>2 DEF SameList
<1>7. FramesSound' /\ \A c : Cardinality(Polls(frames', c)) = Cardinality(Polls(frames, c)) + One(c \in f.fds)
  BY <1>1, <1>2, <1>4, <1>5, <1>6, PushKeeps, Zenon DEF SameList
<1>8. cb' \in [Callbacks -> Callback] /\ ListSound' /\ RefsSound'
  BY <1>1, <1>2, <1>6, <1>7, PreparedKeeps, Zenon
<1> QED
  BY <1>1, <1>4, <1>7, <1>8, Zenon DEF LoopTyped

\* _dbus_loop_run, from a handler
LEMMA NestedRunKeeps ==
  ASSUME LoopInv, NestedRun PROVE LoopInv'
<1> USE DEF LoopInv
<1> DEFINE n == loop.depth + 1
           f == Frame(loop.depth, n)
<1>1. /\ frames # <<>> /\ frames' = Append(Acted, f) /\ cb' = Prepared
      /\ loop \in DBusLoop /\ loop.depth \in Nat /\ frames \in Seq(Iteration)
      /\ loop' = [loop EXCEPT !.depth = n]
  BY Zenon DEF NestedRun, LoopTyped, DBusLoop, InHandler, At
<1>2. n \in Nat /\ n > loop.depth /\ n >= loop.depth
  BY <1>1
<1>3. f \in Iteration /\ IterationSound(f) /\ f.fds = Polled /\ f.exit = loop.depth
  BY <1>1, <1>2, FrameTyped, Zenon
<1> HIDE DEF f, n
<1>4. loop' \in DBusLoop
  BY <1>1, <1>2, Zenon DEF DBusLoop
<1>5. SameList /\ loop'.depth = n
  BY <1>1, Zenon DEF DBusLoop, SameList
<1>6. /\ Acted \in Seq(Iteration) /\ Len(Acted) = Len(frames)
      /\ \A k \in 1 .. Len(frames) :
           SameIteration(Acted[k], frames[k]) /\ (Acted[k].serialSame => frames[k].serialSame)
  BY <1>1, MarkedIs, Zenon
<1>7. /\ frames' \in Seq(Iteration) /\ Len(frames') = Len(frames) + 1
      /\ frames'[Len(frames) + 1] = f /\ \A k \in 1 .. Len(frames) : frames'[k] = Acted[k]
  <2>1. ASSUME NEW fs \in Seq(Iteration)
        PROVE  /\ Append(fs, f) \in Seq(Iteration) /\ Len(Append(fs, f)) = Len(fs) + 1
               /\ Append(fs, f)[Len(fs) + 1] = f /\ \A k \in 1 .. Len(fs) : Append(fs, f)[k] = fs[k]
    BY <1>3
  <2> QED
    BY <1>1, <1>6, <2>1, Zenon
<1>8. \A k \in 1 .. Len(frames) :
        SameIteration(frames'[k], frames[k]) /\ (frames'[k].serialSame => frames[k].serialSame)
  BY <1>6, <1>7, Zenon
<1>9. FramesSound' /\ \A c : Cardinality(Polls(frames', c)) = Cardinality(Polls(frames, c)) + One(c \in f.fds)
  BY <1>1, <1>2, <1>3, <1>5, <1>7, <1>8, PushKeeps, Zenon DEF SameList, FramesSound, Nested
<1>10. cb' \in [Callbacks -> Callback] /\ ListSound' /\ RefsSound'
  BY <1>1, <1>3, <1>5, <1>9, PreparedKeeps, Zenon
<1> QED
  BY <1>4, <1>7, <1>9, <1>10, Zenon DEF LoopTyped

\* callback_unref for each watch in the array.
LEMMA NextIterationKeeps ==
  ASSUME LoopInv, NextIteration PROVE LoopInv'
<1> USE DEF LoopInv
<1> DEFINE f == [Top EXCEPT !.at = "dispatches", !.list = <<>>, !.fds = {}]
<1>1. frames # <<>> /\ loop' = loop /\ SetTop(f)
  BY Zenon DEF NextIteration, At
<1>2. Top \in Iteration /\ IterationSound(Top)
  BY <1>1, TopTyped, Zenon DEF FramesSound, Top
<1>3. f \in Iteration
  <2>1. <<>> \in Seq(Callbacks) /\ {} \in SUBSET Callbacks /\ "dispatches" \in IterationPlaces
    BY DEF IterationPlaces
  <2> QED
    BY <1>2, <2>1, Zenon DEF Iteration
<1>4. f.at = "dispatches" /\ f.fds = {} /\ f.exit = Top.exit /\ f.depth = Top.depth
  BY <1>2, Zenon DEF Iteration
<1>5. IterationSound(f)
  BY <1>2, <1>4, Zenon DEF IterationSound
<1> HIDE DEF f
<1>6. /\ frames' \in Seq(Iteration) /\ FramesSound'
      /\ \A c : Cardinality(Polls(frames', c))
                  = Cardinality(Polls(frames, c)) - One(c \in Top.fds) + One(c \in f.fds)
  BY <1>1, <1>3, <1>4, <1>5, TopKeeps, Zenon
<1>7. ASSUME NEW c \in Callbacks
      PROVE  /\ cb'[c] \in Callback /\ cb'[c].new = cb[c].new
             /\ cb'[c].refcount = cb[c].refcount - One(c \in Top.fds)
  <2> DEFINE n == cb[c].refcount - One(c \in Top.fds)
  <2>1. cb[c] \in Callback /\ cb[c].refcount \in Int
    BY Zenon DEF LoopTyped, Callback
  <2>2. n \in Int
    BY <2>1 DEF One
  <2>3. cb'[c] = [cb[c] EXCEPT !.refcount = n]
    BY <2>1, Zenon DEF NextIteration, Callback, One
  <2> HIDE DEF n
  <2>4. [cb[c] EXCEPT !.refcount = n] \in Callback
    BY <2>1, <2>2, Zenon DEF Callback
  <2>5. [cb[c] EXCEPT !.refcount = n].new = cb[c].new /\ [cb[c] EXCEPT !.refcount = n].refcount = n
    BY <2>1, Zenon DEF Callback
  <2> QED
    BY <2>3, <2>4, <2>5, Zenon DEF n
<1>8. cb' \in [Callbacks -> Callback]
  <2>1. cb' = [c \in Callbacks |-> cb'[c]]
    BY Zenon DEF NextIteration
  <2> QED
    BY <1>7, <2>1, Zenon
<1>9. ASSUME NEW c \in Callbacks
      PROVE  /\ cb'[c].refcount = (IF Listed(c) THEN 1 ELSE 0) + Cardinality(Polls(frames', c))
             /\ cb[c].new => cb'[c].refcount = 0
  <2> DEFINE l == IF Listed(c) THEN 1 ELSE 0
             o == One(c \in Top.fds)
  <2>1. Cardinality(Polls(frames, c)) \in Nat /\ Cardinality(Polls(frames', c)) \in Nat
    BY <1>6, PollsFinite, Zenon DEF LoopTyped
  <2>2. l \in Nat /\ o \in Nat /\ (~Listed(c) => l = 0)
    BY Zenon DEF One
  <2>3. cb[c].refcount = l + Cardinality(Polls(frames, c)) /\ cb'[c].refcount = cb[c].refcount - o
    BY <1>7, Zenon DEF RefsSound
  <2>4. Cardinality(Polls(frames', c)) = Cardinality(Polls(frames, c)) - o + 0
    BY <1>4, <1>6, Zenon DEF One
  <2>5. cb[c].new => cb[c].refcount = 0 /\ l = 0
    BY <2>2, Zenon DEF ListSound
  <2> HIDE DEF l, o
  <2>6. cb'[c].refcount = l + Cardinality(Polls(frames', c)) /\ (cb[c].new => cb'[c].refcount = 0)
    BY <2>1, <2>2, <2>3, <2>4, <2>5
  <2> QED
    BY <2>6, Zenon DEF l
<1>10. ListSound' /\ RefsSound'
  BY <1>1, <1>7, <1>9, Zenon DEF ListSound, RefsSound, Listed
<1> QED
  BY <1>1, <1>6, <1>8, <1>10, Zenon DEF LoopTyped

\* _dbus_loop_dispatch, the end of a loop and its next iteration.
LEMMA DispatchAllKeeps ==
  ASSUME LoopInv, DispatchAll PROVE LoopInv'
<1> USE DEF LoopInv
<1>1. frames # <<>> /\ Top.at = "dispatches"
  BY Zenon DEF DispatchAll, At
<1>2. Top \in Iteration /\ Top.i \in Nat \ {0} /\ Top.acted \in BOOLEAN /\ Top.exit \in Nat
  BY <1>1, TopTyped, Zenon DEF Iteration
<1>3. Top.fds = {} /\ loop.depth >= Top.exit
  BY <1>1, TopTyped, Zenon DEF FramesSound, IterationSound, Nested, Top
<1>4. loop \in DBusLoop /\ loop.need_dispatch \in Nat /\ loop.depth \in Nat
  BY Zenon DEF LoopTyped, DBusLoop
<1>5. CASE loop.need_dispatch > 0
  <2> DEFINE n == loop.need_dispatch - 1
  <2>1. n \in Nat
    BY <1>4, <1>5
  <2>2. loop' = [loop EXCEPT !.need_dispatch = n] /\ SetTop([Top EXCEPT !.at = "dispatch"]) /\ cb' = cb
    BY <1>4, <1>5, Zenon DEF DispatchAll, DBusLoop
  <2> HIDE DEF n
  <2>3. loop' \in DBusLoop
    BY <1>4, <2>1, <2>2, Zenon DEF DBusLoop
  <2>4. SameList /\ loop'.depth = loop.depth
    BY <1>4, <2>2, Zenon DEF DBusLoop, SameList
  <2>5. SameCallbacks
    BY <2>2, Zenon DEF SameCallbacks, LoopTyped
  <2>6. SetTop([Top EXCEPT !.at = "dispatch", !.i = Top.i, !.acted = Top.acted])
    BY <1>2, <2>2, TopForms, Zenon
  <2>7. "dispatch" \in IterationPlaces
    BY Zenon DEF IterationPlaces
  <2> QED
    BY <1>1, <1>2, <2>3, <2>4, <2>5, <2>6, <2>7, Goes, Zenon
<1>6. CASE ~(loop.need_dispatch > 0) /\ loop.depth = Top.exit
  <2>1. loop' = loop /\ cb' = cb /\ frames' = SubSeq(frames, 1, Len(frames) - 1)
    BY <1>6, Zenon DEF DispatchAll
  <2>2. /\ frames' \in Seq(Iteration) /\ FramesSound'
        /\ \A c : Cardinality(Polls(frames', c)) = Cardinality(Polls(frames, c))
    BY <1>1, <1>3, <1>6, <2>1, PopKeeps, Zenon
  <2>3. SameList /\ SameCallbacks /\ LoopTyped'
    BY <2>1, <2>2, Zenon DEF SameList, SameCallbacks, LoopTyped
  <2> QED
    BY <2>2, <2>3, ListSame, RefsSame, Zenon
<1>7. CASE ~(loop.need_dispatch > 0) /\ loop.depth # Top.exit
  <2> DEFINE f == Frame(Top.exit, loop.depth)
  <2>1. loop' = loop /\ cb' = Prepared /\ SetTop(f)
    BY <1>7, Zenon DEF DispatchAll
  <2>2. loop.depth > Top.exit
    BY <1>2, <1>3, <1>4, <1>7
  <2>3. f \in Iteration /\ IterationSound(f) /\ f.fds = Polled /\ f.exit = Top.exit
    BY <1>2, <1>4, <2>2, FrameTyped, Zenon
  <2> HIDE DEF f
  <2>4. SameList
    BY <2>1, Zenon DEF SameList
  <2>5. /\ frames' \in Seq(Iteration) /\ FramesSound'
        /\ \A c : Cardinality(Polls(frames', c))
                    = Cardinality(Polls(frames, c)) - One(c \in Top.fds) + One(c \in f.fds)
    BY <1>1, <2>1, <2>3, TopKeeps, Zenon
  <2>6. ASSUME NEW c
        PROVE  Cardinality(Polls(frames', c)) = Cardinality(Polls(frames, c)) + One(c \in Polled)
    <3>1. Cardinality(Polls(frames, c)) \in Nat
      BY PollsFinite, Zenon DEF LoopTyped
    <3>2. One(c \in Top.fds) = 0 /\ One(c \in Polled) \in Nat
      BY <1>3, Zenon DEF One
    <3>3. Cardinality(Polls(frames', c))
            = Cardinality(Polls(frames, c)) - One(c \in Top.fds) + One(c \in Polled)
      BY <2>3, <2>5, Zenon
    <3> QED
      BY <3>1, <3>2, <3>3
  <2>7. cb' \in [Callbacks -> Callback] /\ ListSound' /\ RefsSound'
    BY <2>1, <2>4, <2>6, PreparedKeeps, Zenon
  <2> QED
    BY <1>4, <2>1, <2>5, <2>7, Zenon DEF LoopTyped
<1> QED
  BY <1>5, <1>6, <1>7, Zenon

-----------------------------------------------------------------------------
(***************************************************************************)
(* The theorems.                                                           *)
(***************************************************************************)

\* _dbus_loop_new
LEMMA LoopInit == Init => LoopInv
<1> SUFFICES ASSUME Init PROVE LoopInv
  BY Zenon
<1>1. /\ loop = [callbacks |-> <<>>, watch_count |-> 0, timeout_count |-> 0, depth |-> 1, need_dispatch |-> 0]
      /\ frames = <<>>
  BY Zenon DEF Init
<1>2. PICK cast : cb = [c \in Callbacks |-> [NewCallback EXCEPT !.new = c \in cast]]
  BY Zenon DEF Init
<1>3. ASSUME NEW c \in Callbacks PROVE cb[c] \in Callback /\ cb[c].refcount = 0
  <2>1. 0 \in Int /\ (c \in cast) \in BOOLEAN
    OBVIOUS
  <2>2. NewCallback \in Callback /\ NewCallback.refcount = 0
    BY <2>1, Zenon DEF NewCallback, Callback
  <2>3. cb[c] = [NewCallback EXCEPT !.new = c \in cast]
    BY <1>2, Zenon
  <2> QED
    BY <2>1, <2>2, <2>3, Zenon DEF Callback
<1>4. LoopTyped
  <2>1. cb \in [Callbacks -> Callback]
    <3>1. cb = [c \in Callbacks |-> cb[c]]
      BY <1>2, Zenon
    <3> QED
      BY <1>3, <3>1, Zenon
  <2>2. loop \in DBusLoop
    <3>1. <<>> \in Seq(Callbacks) /\ 0 \in Int /\ 0 \in Nat /\ 1 \in Nat
      OBVIOUS
    <3> QED
      BY <1>1, <3>1, Zenon DEF DBusLoop
  <2>3. frames \in Seq(Iteration)
    BY <1>1
  <2> QED
    BY <2>1, <2>2, <2>3, Zenon DEF LoopTyped
<1>5. loop.callbacks = <<>> /\ loop.watch_count = 0 /\ loop.timeout_count = 0
  BY <1>1, Zenon
<1>6. Elements(loop.callbacks) = {} /\ Once(loop.callbacks)
  <2>1. \A k \in DOMAIN loop.callbacks : FALSE
    BY <1>5
  <2> QED
    BY <2>1, Zenon DEF Elements, Once
<1>7. ListSound
  <2>1. \A S : Elements(loop.callbacks) \cap S = {}
    BY <1>6, Zenon
  <2>2. Cardinality({}) = 0
    BY FS_EmptySet, Zenon
  <2> QED
    BY <1>3, <1>5, <1>6, <2>1, <2>2, Zenon DEF ListSound, Listed
<1>8. RefsSound
  <2>1. \A k \in DOMAIN frames : FALSE
    BY <1>1
  <2>2. \A c : Polls(frames, c) = {}
    BY <2>1, Zenon DEF Polls
  <2>3. \A c \in Callbacks : cb[c].refcount = 0 + 0
    BY <1>3
  <2>4. Cardinality({}) = 0
    BY FS_EmptySet, Zenon
  <2> QED
    BY <1>6, <2>2, <2>3, <2>4, Zenon DEF RefsSound, Listed
<1>9. FramesSound
  BY <1>1 DEF FramesSound, Nested
<1> QED
  BY <1>4, <1>7, <1>8, <1>9, Zenon DEF LoopInv

\* Every step keeps the invariant.
LEMMA LoopStep == LoopInv /\ [Next]_vars => LoopInv'
<1> SUFFICES ASSUME LoopInv, [Next]_vars PROVE LoopInv'
  BY Zenon
<1>1. CASE Handlers
  BY <1>1, AddCallbackKeeps, RemoveCallbackKeeps, ToggleKeeps, QueueDispatchKeeps, QuitKeeps,
     NestedRunKeeps, HandlerReturnsKeeps, Zenon DEF Handlers
<1>2. CASE Next
  BY <1>1, <1>2, TimePassesKeeps, IterateKeeps, PollKeeps, FireTimeoutsKeeps, HandleWatchesKeeps,
     NextIterationKeeps, DispatchAllKeeps, Zenon DEF Next
<1>3. CASE UNCHANGED vars
  <2>1. loop' = loop /\ cb' = cb /\ frames' = frames
    BY <1>3, Zenon DEF vars
  <2> QED
    BY <2>1, Zenon DEF LoopInv, LoopTyped, ListSound, RefsSound, FramesSound, Nested,
       IterationSound,
       Listed, Top
<1> QED
  BY <1>2, <1>3, Zenon

\* The invariant holds in every state.
LEMMA LoopAlways == Spec => []LoopInv
  BY LoopInit, LoopStep, PTL DEF Spec

\* The counts of a loop are those of its list, and the reference count of a
\* callback is the number of its holders, the list and the iterations that poll
\* it: in any number of nested loops, no iteration of _dbus_loop_iterate finds a
\* watch of its array freed, whatever the handlers removed.
THEOREM LoopCountsExact == Spec => []LoopSound
<1>1. LoopInv => LoopSound
  BY Zenon DEF LoopInv, ListSound, RefsSound, LoopSound, Polls
<1> QED
  BY <1>1, LoopAlways, PTL

\* _dbus_loop_iterate calls a handler only while its watch or timeout is in the
\* list and enabled and its loop runs: the serial and the depth that it compares
\* are enough, however many loops the handlers before it ran.
THEOREM CallsAreTimely == Spec => CalledWhileListed
<1> DEFINE Timely ==
      /\ At({"timeouts"}) /\ Calls("timeout") =>
           /\ Top.i <= Len(loop.callbacks)
           /\ cb[loop.callbacks[Top.i]].enabled /\ loop.depth > Top.exit
      /\ At({"watches"}) /\ Calls("watch") =>
           /\ Listed(Top.list[Top.i])
           /\ cb[Top.list[Top.i]].enabled /\ loop.depth > Top.exit
<1>1. ASSUME LoopInv, Next PROVE Timely
  <2> USE DEF LoopInv
  <2>1. ASSUME frames # <<>>, Top.at \in {"timeouts", "watches"}
        PROVE  FireTimeouts \/ HandleWatches \/ frames' = frames
    <3>1. ~InHandler /\ ~MayChange
      BY <2>1, Zenon DEF InHandler, At, MayChange
    <3>2. ~Handlers
      BY <2>1, <3>1, Zenon DEF Handlers, AddCallback, RemoveCallback, Toggle, QueueDispatch, Quit,
         NestedRun, HandlerReturns, At
    <3> QED
      BY <1>1, <2>1, <3>2, Zenon DEF Next, TimePasses, Iterate, Poll, NextIteration, DispatchAll, At
  <2>2. ASSUME frames # <<>> PROVE frames' = frames => \A place : Calls(place) => Top.at = place
    BY Zenon DEF Calls, Top
  <2>3. ASSUME frames # <<>> PROVE /\ Top \in Iteration /\ IterationSound(Top) /\ Top.i \in Nat \ {0}
    BY <1>1, <2>3, TopTyped, Zenon DEF FramesSound, Top, Iteration
  <2>4. ASSUME frames # <<>>, NEW f \in Iteration, SetTop(f), NEW place, Calls(place) PROVE f.at = place
    <3>1. frames \in Seq(Iteration)
      BY <1>1, Zenon DEF LoopTyped
    <3>2. \A gs : gs = [frames EXCEPT ![Len(frames)] = f] => Len(gs) = Len(frames) /\ gs[Len(frames)] = f
      BY <2>4, <3>1, TopIs, Zenon
    <3> QED
      BY <2>4, <3>2, Zenon DEF SetTop, Calls
  <2>5. ASSUME frames # <<>>, ~Changed PROVE loop.depth > Top.exit /\ Top.serialSame
    BY <2>3, <2>5, Zenon DEF Changed, IterationSound
  <2>6. ASSUME At({"timeouts"}), Calls("timeout")
        PROVE  /\ Top.i <= Len(loop.callbacks)
               /\ cb[loop.callbacks[Top.i]].enabled /\ loop.depth > Top.exit
    <3>1. frames # <<>> /\ Top.at = "timeouts"
      BY <2>6, Zenon DEF At
    <3>2. FireTimeouts
      BY <2>1, <2>2, <2>6, <3>1, Zenon DEF HandleWatches, At
    <3>3. ASSUME NEW f \in Iteration, f.at # "timeout" PROVE ~SetTop(f)
      BY <2>4, <2>6, <3>1, <3>3, Zenon
    <3>4. ~SetTop([Top EXCEPT !.at = "end"])
      <4>1. "end" \in IterationPlaces
        BY Zenon DEF IterationPlaces
      <4>2. [Top EXCEPT !.at = "end"] \in Iteration /\ [Top EXCEPT !.at = "end"].at = "end"
        BY <2>3, <3>1, <4>1, Zenon DEF Iteration
      <4> QED
        BY <3>3, <4>2, Zenon
    <3>5. ~SetTop([Top EXCEPT !.at = "watches", !.i = 1])
      <4>1. "watches" \in IterationPlaces /\ 1 \in Nat \ {0}
        BY DEF IterationPlaces
      <4>2. /\ [Top EXCEPT !.at = "watches", !.i = 1] \in Iteration
            /\ [Top EXCEPT !.at = "watches", !.i = 1].at = "watches"
        BY <2>3, <3>1, <4>1, Zenon DEF Iteration
      <4> QED
        BY <3>3, <4>2, Zenon
    <3>6. ~SetTop([Top EXCEPT !.i = @ + 1])
      <4>1. Top.i + 1 \in Nat \ {0}
        BY <2>3, <3>1
      <4>2. [Top EXCEPT !.i = @ + 1] = [Top EXCEPT !.i = Top.i + 1]
        BY <2>3, <3>1, Zenon DEF Iteration
      <4>3. [Top EXCEPT !.i = Top.i + 1] \in Iteration /\ [Top EXCEPT !.i = Top.i + 1].at = Top.at
        BY <2>3, <3>1, <4>1, Zenon DEF Iteration
      <4> QED
        BY <3>1, <3>3, <4>2, <4>3, Zenon
    <3>7. ~Changed /\ ~(Top.i > Len(loop.callbacks)) /\ loop.callbacks[Top.i] \in Enabled
      BY <3>2, <3>4, <3>5, <3>6, Zenon DEF FireTimeouts
    <3>8. Top.i <= Len(loop.callbacks)
      <4>1. Len(loop.callbacks) \in Nat /\ Top.i \in Nat \ {0}
        <5>1. loop.callbacks \in Seq(Callbacks)
          BY <1>1, Zenon DEF LoopTyped, DBusLoop
        <5> QED
          BY <2>3, <3>1, <5>1
      <4> QED
        BY <3>7, <4>1
    <3> QED
      BY <2>5, <3>1, <3>7, <3>8, Zenon DEF Enabled
  <2>7. ASSUME At({"watches"}), Calls("watch")
        PROVE  /\ Listed(Top.list[Top.i])
               /\ cb[Top.list[Top.i]].enabled /\ loop.depth > Top.exit
    <3>1. frames # <<>> /\ Top.at = "watches"
      BY <2>7, Zenon DEF At
    <3>2. HandleWatches
      BY <2>1, <2>2, <2>7, <3>1, Zenon DEF FireTimeouts, At
    <3>3. ASSUME NEW f \in Iteration, f.at # "watch" PROVE ~SetTop(f)
      BY <2>4, <2>7, <3>1, <3>3, Zenon
    <3>4. ~SetTop([Top EXCEPT !.at = "end"])
      <4>1. "end" \in IterationPlaces
        BY Zenon DEF IterationPlaces
      <4>2. [Top EXCEPT !.at = "end"] \in Iteration /\ [Top EXCEPT !.at = "end"].at = "end"
        BY <2>3, <3>1, <4>1, Zenon DEF Iteration
      <4> QED
        BY <3>3, <4>2, Zenon
    <3>5. ~SetTop([Top EXCEPT !.i = @ + 1])
      <4>1. Top.i + 1 \in Nat \ {0}
        BY <2>3, <3>1
      <4>2. [Top EXCEPT !.i = @ + 1] = [Top EXCEPT !.i = Top.i + 1]
        BY <2>3, <3>1, Zenon DEF Iteration
      <4>3. [Top EXCEPT !.i = Top.i + 1] \in Iteration /\ [Top EXCEPT !.i = Top.i + 1].at = Top.at
        BY <2>3, <3>1, <4>1, Zenon DEF Iteration
      <4> QED
        BY <3>1, <3>3, <4>2, <4>3, Zenon
    <3>6. ~Changed /\ ~(Top.i > Len(Top.list)) /\ cb[Top.list[Top.i]].enabled
      BY <3>2, <3>4, <3>5, Zenon DEF HandleWatches
    <3>7. Top.list = loop.callbacks /\ loop.depth > Top.exit
      BY <2>3, <2>5, <3>1, <3>6, Zenon DEF IterationSound
    <3>8. Top.i \in DOMAIN loop.callbacks
      <4>1. loop.callbacks \in Seq(Callbacks)
        BY <1>1, Zenon DEF LoopTyped, DBusLoop
      <4> QED
        BY <2>3, <3>1, <3>6, <3>7, <4>1
    <3> QED
      BY <3>6, <3>7, <3>8, Zenon DEF Listed, Elements
  <2> QED
    BY <2>6, <2>7, Zenon
<1> QED
  BY <1>1, LoopAlways, PTL DEF Spec, CalledWhileListed

-----------------------------------------------------------------------------
(***************************************************************************)
(* Watch lists (WatchList), for any number of watches and of main loops.   *)
(***************************************************************************)
CONSTANTS Items, Loops, NoLoop
VARIABLES watches, enabled, watcher, added, told

Watching == INSTANCE WatchList WITH loop <- watcher

WatchInv == Watching!TypeOK /\ Watching!LoopsAgree

\* Every operation of the list keeps what the main loops know in step with it.
LEMMA WatchingKeeps ==
  ASSUME Watching!LoopAssumption PROVE WatchInv /\ [Watching!Next]_(Watching!vars) => WatchInv'
<1> SUFFICES ASSUME WatchInv, [Watching!Next]_(Watching!vars) PROVE WatchInv'
  OBVIOUS
<1> USE DEF WatchInv, Watching!TypeOK, Watching!LoopsAgree, Watching!LoopAssumption
<1>1. ASSUME NEW w \in Items, Watching!AddWatch(w) PROVE WatchInv'
  <2>1. CASE UNCHANGED <<watches, added, told>>
    BY <1>1, <2>1 DEF Watching!AddWatch
  <2>2. CASE watches' = watches \cup {w} /\ watcher = NoLoop
    BY <1>1, <2>2, Zenon DEF Watching!AddWatch
  <2>3. CASE watches' = watches \cup {w} /\ watcher # NoLoop
    <3>1. Watching!Learns(watcher, {w}) \/ UNCHANGED <<watches, added, told>>
      BY <1>1, <2>3, Zenon DEF Watching!AddWatch
    <3>2. CASE Watching!Learns(watcher, {w})
      BY <1>1, <2>3, <3>2 DEF Watching!AddWatch, Watching!Learns
    <3> QED
      BY <2>1, <3>1, <3>2, Zenon
  <2> QED
    BY <1>1, <2>1, <2>2, <2>3, Zenon DEF Watching!AddWatch
<1>2. ASSUME NEW w \in Items, Watching!RemoveWatch(w) PROVE WatchInv'
  <2>1. Watching!TypeOK'
    BY <1>2 DEF Watching!RemoveWatch, Watching!Forgets
  <2>2. CASE watcher = NoLoop
    BY <1>2, <2>1, <2>2 DEF Watching!RemoveWatch
  <2>3. CASE watcher # NoLoop
    <3>1. added'[watcher] = watches' /\ told'[watcher] = watches' \cap enabled'
      BY <1>2, <2>3 DEF Watching!RemoveWatch, Watching!Forgets
    <3>2. \A l \in Loops : l # watcher => added'[l] = {} /\ told'[l] = {}
      BY <1>2, <2>3 DEF Watching!RemoveWatch, Watching!Forgets
    <3>3. watcher' = watcher
      BY <1>2 DEF Watching!RemoveWatch
    <3> QED
      BY <2>1, <3>1, <3>2, <3>3
  <2> QED
    BY <2>2, <2>3
<1>3. ASSUME NEW w \in Items, Watching!ToggleWatch(w) PROVE WatchInv'
  BY <1>3, Zenon DEF Watching!ToggleWatch
<1>4. ASSUME NEW l \in Loops, Watching!SetFunctions(l) PROVE WatchInv'
  BY <1>4, Zenon DEF Watching!SetFunctions
<1>5. ASSUME NEW l \in Loops, NEW S \in SUBSET Items, Watching!SetFunctionsFails(l, S)
      PROVE WatchInv'
  BY <1>5, SMTT(30) DEF Watching!SetFunctionsFails
<1>6. CASE Watching!UnsetFunctions
  BY <1>6 DEF Watching!UnsetFunctions, Watching!Forgets
<1>7. CASE UNCHANGED Watching!vars
  BY <1>7 DEF Watching!vars
<1> QED
  BY <1>1, <1>2, <1>3, <1>4, <1>5, <1>6, <1>7 DEF Watching!Next

\* In every state the main loop whose functions are set watches exactly what is
\* in the list, and no other one watches anything: what
\* _dbus_watch_list_set_functions promises when it succeeds and when it fails.
THEOREM LoopsAlwaysAgree ==
  ASSUME Watching!LoopAssumption PROVE Watching!Spec => []Watching!LoopsAgree
<1>1. Watching!Init => WatchInv
  BY DEF Watching!Init, WatchInv, Watching!TypeOK, Watching!LoopsAgree, Watching!LoopAssumption
<1>2. QED
  BY <1>1, WatchingKeeps, PTL DEF Watching!Spec, WatchInv
=============================================================================
