----------------------------- MODULE MCGroqPool -----------------------------
(* Threads that all serve requests, as the API process has them. *)
EXTENDS GroqPool, TLC

MCRoles == {"serve"}

MCRoleGroups == [r \in MCRoles |-> {1, 2}]

MCRoleOf == [c \in Callers |-> "serve"]

\* The threads differ only in name, and no liveness is checked with this.
CallerSymmetry == Permutations(Callers)
=============================================================================
