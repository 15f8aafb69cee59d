------------------------------- MODULE MCUsers -------------------------------
(***************************************************************************)
(* Bounded inputs for Users: every text of up to three characters made of *)
(* a letter and a space, so that blank, padded and inner-space names all  *)
(* occur.                                                                  *)
(***************************************************************************)
EXTENDS Users

MCTyped == UNION {[1..n -> {" ", "a"}] : n \in 0..3}

MCCreatedIn == {"null", "", "date", "text"}
=============================================================================
