----------------------------- MODULE MCDispatch -----------------------------
(***************************************************************************)
(* A small instance of Dispatch.                                           *)
(***************************************************************************)
EXTENDS Dispatch

CONSTANTS c1, c2, c3

\* Everyone may send calls and requested replies, except that c2 does not
\* accept calls from itself.
SystemRules == {r \in Route : r[3] = "call" \/ r[4]}
SystemReceive == SystemRules \ {<<c2, c2, "call", FALSE>>}
=============================================================================
