---------------------------- MODULE MCBlobStore -----------------------------
(***************************************************************************)
(* Two payloads, three sessions of writing and two collections.            *)
(***************************************************************************)
EXTENDS BlobStore, TLC

CONSTANTS h1, h2

MCPayload == {h1, h2}
Symmetry == Permutations(MCPayload)
=============================================================================
