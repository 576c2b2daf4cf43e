----------------------------- MODULE MCAuthSession -----------------------------
(* Instances of AuthSession small enough for TLC. *)
EXTENDS AuthSession, TLC

Symmetric == Permutations(Users) \union Permutations(Nonces)
             \union Permutations(Attempts) \union Permutations(Secrets)

\* A route for everyone who is signed in, and one for administrators.
MCGuards == {{"user", "admin"}, {"admin"}}
===============================================================================
