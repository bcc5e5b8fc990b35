--------------------------- MODULE MCSubjectData ---------------------------
(* A small instance of SubjectData: two turns beside each other in each     *)
(* part, two facts of which one may stay, one thread, two stores, one       *)
(* erasure.                                                                 *)
EXTENDS SubjectData, TLC

CONSTANTS h1, s1, s2, ana

BothStores == <<s1, s2>>
OwnedByAna == h1 :> ana
=============================================================================
