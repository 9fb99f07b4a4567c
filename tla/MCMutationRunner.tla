-------------------------- MODULE MCMutationRunner --------------------------
(* Instances of MutationRunner for TLC. *)
EXTENDS MutationRunner, TLC

CONSTANTS m1, m2, m3, k1, c1, c2, c3, create, update, remove

Op(m, f) == [mutation |-> m, fingerprint |-> f]

ThreeChanges == (create :> "create") @@ (update :> "update")
                @@ (remove :> "remove")

OneKey == [f \in {create, update, remove} |-> k1]

\* A record is created twice, updated and removed; one mutation identity is
\* used for different requests.
Lifecycle == {Op(m1, create), Op(m2, update), Op(m3, remove), Op(m3, create)}

\* One engine is configured to replan after a conflict, the others give up.
OneRetries == (c1 :> 1) @@ (c2 :> 0) @@ (c3 :> 0)

CallSymmetry == Permutations({c2, c3}) \cup Permutations(LeaseOps)

AllValues == SUBSET Mutations
=============================================================================
