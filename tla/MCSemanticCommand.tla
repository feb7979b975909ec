-------------------------- MODULE MCSemanticCommand --------------------------
(* The sidecar, scripts around it, older and silent ones, and no command. *)
EXTENDS SemanticCommand

MCProtocol == "bend-intel/1"

MCCommands ==
  [starts : {TRUE}, script : Scripts, protocol : {MCProtocol, "bend-intel/0", ""}]
  \cup [starts : {FALSE}, script : {"none"}, protocol : {MCProtocol}]
=============================================================================
