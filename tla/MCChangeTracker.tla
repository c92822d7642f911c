-------------------------- MODULE MCChangeTracker --------------------------
EXTENDS ChangeTracker, TLC

Symbol(name, space, shape) == [name |-> name, space |-> space, shape |-> shape]
File(module, imports, symbols) == [module |-> module, imports |-> imports, symbols |-> symbols]

MCPaths == 1..3

\* Modules that import each other in rings of one, two and three or in a line, a
\* symbol in two shapes and in two namespaces, and one name of a module in two files.
MCContents ==
  {File("a", {"b"}, {Symbol("x", "value", 1)}), File("a", {Std}, {Symbol("x", "value", 2)}),
   File("b", {"c", "gone"}, {Symbol("y", "type", 1)}), File("c", {"a"}, {}),
   File("a", {"c"}, {Symbol("x", "type", 3)}), File("c", {"b", "c"}, {})}

\* A table that an agent kept: of a module that still is, and of one that is gone.
MCKept == {(<<"a", "x">> :> 1) @@ (<<"d", "z">> :> 1)}
=============================================================================
