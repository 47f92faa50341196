------------------------------- MODULE MCSignIn -------------------------------
(* An instance of SignIn for TLC: two browsers, of an account each. *)
EXTENDS SignIn, TLC

CONSTANTS a1, a2, b1, b2

MCAccountOf == (b1 :> a1) @@ (b2 :> a2)

\* Addresses are interchangeable, and so are the accounts, each with its browser.
Swap == (a1 :> a2) @@ (a2 :> a1) @@ (b1 :> b2) @@ (b2 :> b1)
Symmetry == Permutations(Emails) \cup {Swap}
=============================================================================
