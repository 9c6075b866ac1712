------------------------------ MODULE MCApply ------------------------------
(***************************************************************************)
(* The update that the runs apply and, in MCUndo, take out again: the      *)
(* ChangeSet file, two files that swap their names, one of which was       *)
(* created elsewhere, a new file, and one that goes back to the name it    *)
(* was created with.                                                       *)
(***************************************************************************)
EXTENDS Apply, TLC

CONSTANTS k_c, k_a, k_b, k_n, k_m,      \* keys
          s_c, s_a, s_b, s_n, s_m, s_x  \* s.files

MCHome == k_c :> s_c @@ k_a :> s_a @@ k_b :> s_n @@ k_n :> s_n @@ k_m :> s_x
MCFrom == k_c :> s_c @@ k_a :> s_a @@ k_b :> s_b @@ k_n :> None @@ k_m :> s_m
MCTo == k_c :> s_c @@ k_a :> s_b @@ k_b :> s_a @@ k_n :> s_n @@ k_m :> s_x
CsetFirst == <<k_c, k_m, k_a, k_b, k_n>>
============================================================================
