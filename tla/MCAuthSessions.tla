--------------------------- MODULE MCAuthSessions ---------------------------
(* Model-checking instances of the account and session service. *)
EXTENDS AuthSessions, TLC

\* Ids, requests and tokens are interchangeable (safety runs only).
AuthSymmetry == Permutations(Users) \cup Permutations(Names)
                \cup Permutations(Reqs) \cup Permutations(Tokens)
=============================================================================
