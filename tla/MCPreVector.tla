---- MODULE MCPreVector ----
(* Instance of PreVector: two elements in the object, values 0 and 1. *)
EXTENDS PreVector

MCVal == {0, 1}
====
