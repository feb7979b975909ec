---------------------------- MODULE MCWorkspace ----------------------------
(* Workspace for TLC: three files, two of which an import of util may mean, *)
(* and the third with a character in its name that editors escape.          *)
EXTENDS Workspace

Util == <<"util", Extension>>
LibUtil == <<"lib", "util", Extension>>
LibMain == <<"lib", "main", Extension>>

MCWalkOrder == <<LibMain, LibUtil, Util>>

Doc(defines, uses, imports) == [defines |-> defines, uses |-> uses, imports |-> imports]

MCContents ==
  {Doc({"f"}, {}, {}), Doc({}, {"f"}, {Util}), Doc({"f"}, {"f"}, {<<"util">>, <<"lib">>})}
MCNames == {"f"}
MCPaths == {Util, <<"util">>, <<"lib">>}
MCEscaped == {Util}
=============================================================================
