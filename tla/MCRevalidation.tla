--------------------------- MODULE MCRevalidation ---------------------------
(* Two months of three times, the middle one during a session; one spec has *)
(* a study and the other has none.                                          *)
EXTENDS Revalidation, TLC

TwoMonths == 0 :> 1 @@ 1 :> 1 @@ 2 :> 2
=============================================================================
