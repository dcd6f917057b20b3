------------------------------ MODULE MCIngress ------------------------------
(* Finite instances of Ingress: one upload and one release artifact more     *)
(* than the registry holds.                                                  *)
EXTENDS Ingress

=============================================================================
