----------------------------- MODULE MCPageMem -----------------------------
(* PageMem with a few interchangeable pages; the addresses share one page    *)
(* table, so that the first mapping of an environment needs one.             *)
EXTENDS PageMem, TLC

CONSTANTS p1, p2, p3, p4, p5, a, b, c0, c1, t1

OneTable == 1 :> t1 @@ 2 :> t1
PageSymmetry == Permutations(Pages)
=============================================================================
