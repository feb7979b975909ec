---------------------------- MODULE MCAlgorithms ----------------------------
(* Two names; a root with a directory, and a file elsewhere whose path looks *)
(* like one below the root.                                                  *)
EXTENDS Algorithms

MCNames == {"a", "b"}
MCBase == <<"ws">>

File(path) == [scheme |-> "file", path |-> path]
MCTarget == File(<<"ws", "main">>)
MCUris == <<File(<<"lib", "util">>), File(<<"ws", "lib", "io">>), File(<<"ws", "lib", "util">>),
            MCTarget, File(<<"ws", "util">>), [scheme |-> "untitled", path |-> <<>>]>>
MCOnDisk == {<<"main">>, <<"util">>, <<"io">>, <<"lib", "util">>, <<"lib", "io">>}

From(type, prefix, files) ==
  [type |-> type, from |-> TRUE, prefix |-> prefix, files |-> files]
MCImports ==
  {[type |-> "Single", from |-> FALSE, prefix |-> p, files |-> {f}] :
     p \in {<<>>, <<"lib">>}, f \in {"util", "io"}}
  \cup {From("Single", p, {"io"}) : p \in {<<"lib">>, <<"util">>, <<"lib", "util">>}}
  \cup {From("List", p, {"util", "io"}) : p \in {<<>>, <<"lib">>}}
  \cup {From("Glob", p, {}) : p \in {<<>>, <<"lib">>}}

\* For the violations: a file of a directory is open and imported, with another or as the
\* path of `from path import names`.
MCOpenUris == <<MCTarget, File(<<"ws", "lib", "util">>)>>
MCListImports == {From("List", <<"lib">>, {"util", "io"})}
MCFileImports == {From("Single", <<"lib", "util">>, {"io"})}

Typed == <<"(", "x", ":", " ", "T", ")", " ", "-", ">", " ", "T">>
MCWritten ==
  {<<>>,
   <<"def", " ", "f">> \o Typed \o <<":">>,
   <<"def", " ", "f", ":", "CR">>,
   <<"def", " ", "f", "-", "g", ":">>,
   <<"def", " ", "f", "(", "x", ":", "T">>,
   <<"unchecked", " ", "def", " ", "f">> \o Typed \o <<":">>,
   <<"unchecked", " ", "def", " ", "f", "(", "x", ")", ":">>,
   <<"const", " ", "f", " ", "=", " ", "0">>,
   <<"f">> \o Typed,
   <<"(", "f", " ", "(", "x", ":", "T", ")", ")", ":", "T", " ", "=", " ", "x", " ", "<", "<", " ", "0">>,
   <<"(", "f", ")", " ", ":", " ", "T", " ", "-", ">", " ", "T", " ", "=", " ", "f", "/", "g">>,
   <<"def", " ", "f", "-", "g", "(", "x", ")", ":">>,
   <<"type", " ", "T", "(", "x", ")", ":">>,
   <<"TAB", "f", "{", "x", ":", "T", ",", "y", ":", "(", "T", ",", "T", ")", "}">>,
   <<"type", " ", "T", " ", "x", " ", "=", " ", "(", "f", " ", "(", "x", ":", "T", ")", ")">>,
   <<"object", " ", "T", "{", "x", "}">>,
   <<"hvm", " ", "f", "/", "g", ":">>,
   <<"from", " ", "f", "/", "g", " ", "import", " ", "x">>,
   <<"TAB", "return", " ", "f", "/", "g", "+", "0", " ", "#", " ", "DOUBLE", "CR">>,
   <<" ", " ", "x", "=", "DOUBLE", "WIDE", "BACKSLASH", "DOUBLE", "#", "DOUBLE", ">", ">", "(", "x", ")">>,
   <<" ", " ", "x">>,
   <<" ", "return", " ", "f", "/", "g", " ", "BACKSLASH", "SINGLE", "WIDE">>,
   <<" ", " ", "y", ")", ":">>,
   <<"#", " ", "def", " ", "SINGLE">>}
=============================================================================
