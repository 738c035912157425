---------------------------- MODULE MCMergePatch ----------------------------
(* Two callers and every kind of object: one names up to two fields of it, the
   other one.  The calls are strings, for they are also the values they give. *)
EXTENDS MergePatch

MCCalls == {"c1", "c2"}
MCBody == [c \in MCCalls |-> c]
MCMaxNamed == [c \in MCCalls |-> IF c = "c1" THEN 2 ELSE 1]
=============================================================================
