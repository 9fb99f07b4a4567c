---------------------------- MODULE MCChangeFeed ----------------------------
(* Instances of ChangeFeed for TLC. *)
EXTENDS ChangeFeed

CONSTANTS s1, s2, sub, k1, k2, f1, f2, w

\* Two filesystems with one record each, and a scope of f1 that a store with
\* a single fenced writer refuses.
TwoFilesystems == (s1 :> f1) @@ (s2 :> f2) @@ (sub :> f1)
                  @@ (k1 :> f1) @@ (k2 :> f2)

FirstWatched == w :> f1

\* Mutation identities are alike, and so are lease operations.
IdentitySymmetry == Permutations(Mutations) \cup Permutations(LeaseOps)
=============================================================================
