----------------------------- MODULE MCKernEnv -----------------------------
(* KernEnv on two processors and a few environment slots. *)
EXTENDS KernEnv
=============================================================================
