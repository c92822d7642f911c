----------------------------- MODULE StringLits -----------------------------
(***************************************************************************)
(* The string literals of crates/ori-compiler/src/string_lits.rs, over     *)
(* sequences of characters. A literal is [kind, parts, used]: what form it *)
(* has, its parts (<<"Lit", text>> and <<"Interp", text>>), and how many   *)
(* characters it takes; or [kind |-> code] when it is refused.             *)
(***************************************************************************)
EXTENDS Integers, Sequences, FiniteSetsExt

LOCAL INSTANCE SequencesExt

MAX_RAW_HASHES == 4
Quote == "\""
Slash == "\\"
Newline == "\n"
Bad(code) == [kind |-> code]
Char(s, i) == IF i \in DOMAIN s THEN s[i] ELSE "eof"
Literal(kind, parts, used) == [kind |-> kind, parts |-> parts, used |-> used]

\* lex_raw: nothing is special before the quote with as many hashes after it.
lex_raw(s, hashes) ==
  LET first == hashes + 3
      closes == {i \in first..Len(s) : s[i] = Quote /\ \A k \in 1..hashes : Char(s, i + k) = "#"}
  IN  IF hashes > MAX_RAW_HASHES THEN Bad("S1301")
      ELSE IF closes = {} THEN Bad("S1300")
      ELSE Literal("Raw", <<<<"Lit", SubSeq(s, first, Min(closes) - 1)>>>>, Min(closes) + hashes)

\* What the character after a backslash stands for; one that is not known keeps it.
Escape(c) == IF c \in {Slash, Quote, "{", "}"} THEN <<c>>
             ELSE IF c = "n" THEN <<Newline>> ELSE <<Slash, c>>

\* The position of the brace that closes the hole opened before i, or 0: the end of
\* the text and a quote come first.
RECURSIVE hole_end(_, _, _)
hole_end(s, i, depth) ==
  CASE Char(s, i) \in {"eof", Quote} -> 0
    [] Char(s, i) = "{" -> hole_end(s, i + 1, depth + 1)
    [] Char(s, i) = "}" -> IF depth = 1 THEN i ELSE hole_end(s, i + 1, depth - 1)
    [] OTHER -> hole_end(s, i + 1, depth)

\* The loop of lex_plain_or_interp: `lit` is the text since the last hole.
RECURSIVE lex_plain(_, _, _, _)
lex_plain(s, i, lit, parts) ==
  CASE Char(s, i) = "eof" -> Bad("S1300")
    [] Char(s, i) = Quote ->
         Literal(IF parts = <<>> THEN "Plain" ELSE "Interpolated", Append(parts, <<"Lit", lit>>), i)
    [] Char(s, i) = Slash ->
         IF Char(s, i + 1) = "eof" THEN Bad("S1300")
         ELSE lex_plain(s, i + 2, lit \o Escape(s[i + 1]), parts)
    [] Char(s, i) = "{" ->
         LET close == hole_end(s, i + 1, 1)
         IN  IF close = 0 THEN Bad("S1302")
             ELSE lex_plain(s, close + 1, <<>>,
                            parts \o <<<<"Lit", lit>>, <<"Interp", SubSeq(s, i + 1, close - 1)>>>>)
    [] Char(s, i) = "}" -> Bad("S1302")
    [] OTHER -> lex_plain(s, i + 1, Append(lit, s[i]), parts)

\* A tab counts four.
Width(c) == IF c = "\t" THEN 4 ELSE 1
IsBlank(line) == \A i \in DOMAIN line : line[i] \in {" ", "\t"}
RECURSIVE indent(_), strip(_, _), lines_of(_)
indent(line) == IF Char(line, 1) \in {" ", "\t"} THEN Width(line[1]) + indent(Tail(line)) ELSE 0
strip(line, n) ==
  IF n <= 0 \/ Char(line, 1) \notin {" ", "\t"} THEN line ELSE strip(Tail(line), n - Width(line[1]))
lines_of(s) ==
  LET breaks == {i \in DOMAIN s : s[i] = Newline}
  IN  IF breaks = {} THEN <<s>>
      ELSE <<SubSeq(s, 1, Min(breaks) - 1)>> \o lines_of(SubSeq(s, Min(breaks) + 1, Len(s)))

\* strip_common_indent: the smallest indent of a line that is not blank is taken from
\* all of them, and blank lines become empty.
strip_common_indent(body) ==
  LET lines == lines_of(body)
      solid == {i \in DOMAIN lines : ~IsBlank(lines[i])}
      common == IF solid = {} THEN 0 ELSE Min({indent(lines[i]) : i \in solid})
  IN  IF common = 0 THEN lines
      ELSE [i \in DOMAIN lines |-> IF i \in solid THEN strip(lines[i], common) ELSE <<>>]

\* lex_multiline: a backslash hides the next character, a brace is refused.
RECURSIVE multiline_end(_, _)
multiline_end(s, i) ==
  CASE Char(s, i) = "eof" -> <<"S1300", 0>>
    [] Char(s, i) = Quote /\ Char(s, i + 1) = Quote /\ Char(s, i + 2) = Quote -> <<"end", i>>
    [] Char(s, i) = Slash -> multiline_end(s, i + 2)
    [] Char(s, i) = "{" -> <<"S1303", 0>>
    [] OTHER -> multiline_end(s, i + 1)
lex_multiline(s) ==
  LET e == multiline_end(s, 4)
  IN  IF e[1] /= "end" THEN Bad(e[1])
      ELSE Literal("Multiline", <<<<"Lit", strip_common_indent(SubSeq(s, 4, e[2] - 1))>>>>, e[2] + 2)

\* lex_string_extended.
lex_string_extended(s) ==
  LET others == {i \in 2..Len(s) : s[i] /= "#"}
      after == IF others = {} THEN Len(s) + 1 ELSE Min(others)
  IN  CASE s = <<>> -> Bad("S1300")
        [] Char(s, 1) = "r" /\ Char(s, after) = Quote -> lex_raw(s, after - 2)
        [] Char(s, 1) = Quote /\ Char(s, 2) = Quote /\ Char(s, 3) = Quote -> lex_multiline(s)
        [] Char(s, 1) = Quote /\ ~(Char(s, 2) = Quote /\ Char(s, 3) = Quote) ->
             lex_plain(s, 2, <<>>, <<>>)
        [] OTHER -> Bad("S1300")

is_interpolated(lit) == lit.kind = "Interpolated"
----------------------------------------------------------------------------
\* Every text can be written as a plain literal, by a backslash before what is
\* special, and as a raw one with a hash more than it has in a row; each is read back
\* whole, and nothing after the literal is taken.
Escaped(text) ==
  FlattenSeq([i \in DOMAIN text |->
                CASE text[i] \in {Slash, Quote, "{", "}"} -> <<Slash, text[i]>>
                  [] text[i] = Newline -> <<Slash, "n">>
                  [] OTHER -> <<text[i]>>])
Hashes(n) == [i \in 1..n |-> "#"]
LiteralsAreExact(text, rest) ==
  LET plain == <<Quote>> \o Escaped(text) \o <<Quote>>
      raw(n) == <<"r">> \o Hashes(n) \o <<Quote>> \o text \o <<Quote>> \o Hashes(n)
      p == lex_string_extended(plain \o rest)
      r == lex_string_extended(raw(3) \o rest)
  IN  /\ text /= <<>> \/ Char(rest, 1) /= Quote =>
           p = Literal("Plain", <<<<"Lit", text>>>>, Len(plain))
      /\ r = Literal("Raw", <<<<"Lit", text>>>>, Len(raw(3)))

\* A multiline literal keeps what is not white space, line by line, and how far its
\* lines are indented against each other.
IndentIsShared(body) ==
  LET before == lines_of(body)
      after == strip_common_indent(body)
      solid == {i \in DOMAIN before : ~IsBlank(before[i])}
      spaces == \A i \in DOMAIN body : body[i] /= "\t"
  IN  /\ Len(after) = Len(before)
      /\ \A i \in solid : strip(after[i], 1000) = strip(before[i], 1000)
      /\ spaces => \A i, j \in solid :
                     indent(after[i]) - indent(after[j]) = indent(before[i]) - indent(before[j])
=============================================================================
