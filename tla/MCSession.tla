------------------------------ MODULE MCSession ------------------------------
(***************************************************************************)
(* Session for TLC: symmetry.  The run Session_Sequential takes OneAtATime *)
(* as a constraint: a state where operations overlap is not explored       *)
(* further.                                                                *)
(***************************************************************************)
EXTENDS Session, TLC

\* Clients of the same attach mode are interchangeable.
Symmetry == Permutations(FrameClients) \cup Permutations(BytesClients)

=============================================================================
