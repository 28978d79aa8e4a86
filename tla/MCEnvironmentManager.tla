------------------------ MODULE MCEnvironmentManager ------------------------
(***************************************************************************)
(* A small instance of EnvironmentManager: four environments are blocks    *)
(* and functions inside one another, so that a lookup can pass scopes      *)
(* without the name, find a shadowing binding, and be stopped by the edge  *)
(* of a function with the caller's binding just beyond it.                 *)
(***************************************************************************)
EXTENDS EnvironmentManager
=============================================================================
