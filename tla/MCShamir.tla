------------------------------ MODULE MCShamir ------------------------------
(* Secrets of two and three bytes of two bits, in subsecrets of three. *)
EXTENDS Shamir
SmallSecrets == {<<{0,1}, {0,1}>>, <<{0}, {1}, {0,1}>>, <<{0,1}, {0,1}, {0,1}>>}
=============================================================================
