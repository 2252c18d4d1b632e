---------------------------- MODULE MCStorefront ----------------------------
(* Four acts of one user, calls among them, at most two calls under way at a time, and *)
(* two currencies.  A failed query is not asked again: the user's acts ask it.         *)
EXTENDS Storefront
=============================================================================
