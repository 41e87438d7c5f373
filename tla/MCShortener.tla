---------------------------- MODULE MCShortener -----------------------------
(* Instances of Shortener for TLC: clients, codes, users and URLs are interchangeable. *)
EXTENDS Shortener

Symmetry == Permutations(Clients) \cup Permutations(Codes) \cup Permutations(Users)
            \cup Permutations(URLs)
=============================================================================
