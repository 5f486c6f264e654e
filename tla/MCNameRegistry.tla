--------------------------- MODULE MCNameRegistry ---------------------------
(***************************************************************************)
(* Small instances of NameRegistry.                                        *)
(***************************************************************************)
EXTENDS NameRegistry, TLC

CONSTANTS c1, c2, c3, n1, n2, p1, p2, p3

\* Three connections of one process.
OneProcess == [c \in Conns |-> p1]
EachItsOwn == c1 :> p1 @@ c2 :> p2
ThreeProcesses == EachItsOwn @@ c3 :> p3

AllMayOwn == {c1, c2, c3} \X {n1, n2}
\* Only c1 may own n2.
SomeMayOwn == {<<c1, n1>>, <<c2, n1>>, <<c1, n2>>}

\* Connections of one process with the same policy are interchangeable.
ConnSymmetry == Permutations({c1, c2, c3})

\* reply is written by every action and read by none: states that differ in it
\* alone have the same successors.
AllButReply == <<owners, services_owned, conn_state, connected, closing,
                 unique_pid_hash, processes, told, announced, coherent>>
=============================================================================
