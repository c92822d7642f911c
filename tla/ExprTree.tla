------------------------------ MODULE ExprTree ------------------------------
(***************************************************************************)
(* The parts of an expression, as the walkers of the compiler's passes     *)
(* visit them. An expression is a tuple whose first element names its      *)
(* shape; <<>> stands where a part is left out. A statement is             *)
(* <<"Let", init, name>>, <<"Expr", e>> or <<"Return", e>>.                *)
(***************************************************************************)
EXTENDS Integers, Sequences, FiniteSetsExt, SequencesExt

Opt(e) == IF e = <<>> THEN <<>> ELSE <<e>>

\* The subexpressions, in the order of the source.
Parts(e) ==
  CASE e[1] = "Call" -> <<e[2]>> \o e[3]
    [] e[1] = "If" -> <<e[2], e[3]>> \o Opt(e[4])
    [] e[1] = "Match" -> <<e[2]>> \o [i \in DOMAIN e[3] |-> e[3][i][2]]
    [] e[1] = "Block" -> FlattenSeq([i \in DOMAIN e[2] |-> Opt(e[2][i][2])]) \o Opt(e[3])
    [] e[1] \in {"Field", "Try", "Return", "Unary"} -> Opt(e[2])
    [] e[1] = "Construct" -> e[3]
    [] e[1] = "Tuple" -> e[2]
    [] e[1] = "InterpString" -> SelectSeq(e[2], LAMBDA p : p[1] /= "Text")
    [] e[1] = "Record" -> [i \in DOMAIN e[2] |-> e[2][i][2]]
    [] e[1] = "Lambda" -> <<e[3]>>
    [] e[1] = "Binary" -> <<e[3], e[4]>>
    [] OTHER -> <<>>

\* visit_var_uses: every name an expression mentions, a lambda's own parameters too
\* where its body uses them.
RECURSIVE visit_var_uses(_)
visit_var_uses(e) ==
  IF e[1] = "Var" THEN <<e[2]>>
  ELSE LET p == Parts(e) IN FlattenSeq([i \in DOMAIN p |-> visit_var_uses(p[i])])

\* An item in brackets at depth 0 keeps its commas: split_top_level_commas, which the
\* passes that read signatures each have a copy of. A text is a sequence of words.
RECURSIVE split_at_commas(_, _, _, _)
split_at_commas(text, depth, part, parts) ==
  IF text = <<>> THEN IF part = <<>> THEN parts ELSE Append(parts, part)
  ELSE LET c == Head(text)
           open == IF c \in {"(", "["} THEN 1 ELSE IF c \in {")", "]"} THEN -1 ELSE 0
       IN  IF c = "," /\ depth = 0 THEN split_at_commas(Tail(text), depth, <<>>, Append(parts, part))
           ELSE split_at_commas(Tail(text), depth + open, Append(part, c), parts)
split_top_level_commas(text) == split_at_commas(text, 0, <<>>, <<>>)

\* The first position of a word, or 0.
position(text, word) ==
  LET at == {i \in DOMAIN text : text[i] = word} IN IF at = {} THEN 0 ELSE Min(at)
before(text, i) == SubSeq(text, 1, i - 1)
after(text, i) == SubSeq(text, i + 1, Len(text))

\* find_matching_close: the parenthesis that closes the one before the text, or 0.
RECURSIVE matching_close(_, _, _)
matching_close(text, i, depth) ==
  CASE i > Len(text) -> 0
    [] i <= Len(text) /\ text[i] \in {"(", "["} -> matching_close(text, i + 1, depth + 1)
    [] i <= Len(text) /\ text[i] = ")" /\ depth = 0 -> i
    [] i <= Len(text) /\ text[i] \in {"]", ")"} /\ ~(text[i] = ")" /\ depth = 0) ->
         matching_close(text, i + 1, depth - 1)
    [] OTHER -> matching_close(text, i + 1, depth)
=============================================================================
