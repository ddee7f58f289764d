------------------------------ MODULE MCSignIn -----------------------------
(* Instances of SignIn in which one node asks for every sign-in. *)
EXTENDS SignIn

CONSTANT node

OneNode == [i \in Id |-> node]
=============================================================================
