-------------------------- MODULE MCCandidateStore --------------------------
(* A small instance of CandidateStore for TLC: both cases are of one group. *)
EXTENDS CandidateStore, TLC

CONSTANTS s1, r1, a, b, f

MCGroup == <<f, f>>
MCLimits == {[pending |-> n, project |-> n] : n \in 1 .. 2}
MCPolicies == {None, [maxPerGroup |-> 1, maxPerCallable |-> 1]}
Interchangeable == Permutations({a, b})
=============================================================================
