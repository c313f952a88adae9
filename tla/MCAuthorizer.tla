---------------------------- MODULE MCAuthorizer ----------------------------
(* Authorizer with one repository and one resource. The calls make the same   *)
(* request from a branch; if Request has main, p2 makes it from there.        *)
EXTENDS Authorizer, TLC

CONSTANTS p1, p2, branch, main, repo, scope

MCRequestOf == [p \in Proc |-> IF p = p2 /\ main \in Request THEN main ELSE branch]
MCRefOf == [q \in Request |-> q]
MCRepositoryOf == [q \in Request |-> repo]
MCScopeOf == [q \in Request |-> scope]

\* Two calls with the same request play the same part.
Symmetry == Permutations(Proc)
=============================================================================
