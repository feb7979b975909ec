---------------------------- MODULE MCLspServer ----------------------------
(***************************************************************************)
(* Two documents and a bounded session for TLC.                            *)
(***************************************************************************)
EXTENDS LspServer, TLC

UriSymmetry == Permutations(Uris)
=============================================================================
