------------------------------ MODULE Optional -------------------------------
(* Rust's Option: None is an absent value, different from all others.      *)

CONSTANT None
=============================================================================
