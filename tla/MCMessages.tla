----------------------------- MODULE MCMessages -----------------------------
(***************************************************************************)
(* Message mode on its own, with a sender that goes on after it has skipped *)
(* numbers.                                                                *)
(***************************************************************************)
EXTENDS Messages

(* Three messages of one packet each.                                      *)
OneEach == <<1, 1, 1>>
=============================================================================
