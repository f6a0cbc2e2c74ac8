----------------------------- MODULE MCCppBackend -----------------------------
(* The instance of TypeResolver, for the back end.                         *)
EXTENDS CppBackend, MCTypeResolver
=============================================================================
