---------------------------- MODULE MCCredentials -----------------------------
(* Instances of Credentials for TLC. *)
EXTENDS Credentials, TLC

Interchangeable == Permutations(Users) \union Permutations(Emails) \union Permutations(Keys)
                     \union Permutations(Codes) \union Permutations(Reqs)

===============================================================================
