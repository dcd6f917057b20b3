----------------------- MODULE MCOperationController -----------------------
(* Finite instances of OperationController. *)
EXTENDS OperationController, TLC

CommandsAreAlike == Permutations(Ops)

=============================================================================
