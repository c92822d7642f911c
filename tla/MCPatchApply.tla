---------------------------- MODULE MCPatchApply ----------------------------
(***************************************************************************)
(* A file of four lines: the module declaration, a function, a line of its *)
(* body that quotes the function's name, and another function; and one of  *)
(* five with a blank line, a node too, between the functions.              *)
(***************************************************************************)
EXTENDS PatchApply

FourLines == <<[name |-> "m", quoted |-> FALSE], [name |-> "f", quoted |-> FALSE],
               [name |-> "f", quoted |-> TRUE], [name |-> "g", quoted |-> FALSE]>>

FiveLines == SubSeq(FourLines, 1, 3) \o <<Blank, FourLines[4]>>
============================================================================
