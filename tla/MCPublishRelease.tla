--------------------------- MODULE MCPublishRelease ---------------------------
(* Three releases, two of one version and one of a higher, of two variants.   *)
EXTENDS PublishRelease, TLC

CONSTANTS amd64, arm64

Two  == {amd64, arm64}
Swap == Permutations(Two)

ThreeBuilds == {[up |-> 1, rev |-> 1], [up |-> 1, rev |-> 2], [up |-> 2, rev |-> 1]}
=============================================================================
