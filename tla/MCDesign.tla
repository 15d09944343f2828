------------------------------ MODULE MCDesign -------------------------------
(* One component is always answered as a page, others the second time only, so that a   *)
(* page may hang below a page, beside one or above what is none.  Runs are              *)
(* interchangeable for TLC.                                                             *)
EXTENDS Design, TLC

CONSTANT Page

AnsweredAsPage ==
    {id \in BoundedIds : id[1] = Page \/ (id[1] # DesignRoot /\ id[2] = 2)}

Symmetry == Permutations(Designers) \union Permutations(Architects)
=============================================================================
