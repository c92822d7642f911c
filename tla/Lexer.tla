------------------------------- MODULE Lexer -------------------------------
(***************************************************************************)
(* The lexer (crates/ori-compiler/src/lexer.rs).  The text is a sequence   *)
(* of characters and a token is where it stands in it: the positions       *)
(* from..to, the line and column it starts and ends at.  Line and column   *)
(* are kept as the line and the position before its first column.          *)
(* Numeric literals are read by numeric_lit.rs: the largest integer is a   *)
(* parameter, so that literals past it are short enough to enumerate; a    *)
(* float keeps its digits, whose conversion is the library's.              *)
(***************************************************************************)
EXTENDS Integers, Sequences, SequencesExt, FiniteSetsExt, FiniteSets

Digits == <<"0", "1", "2", "3", "4", "5", "6", "7", "8", "9", "a", "b", "c", "d", "e", "f">>
Value(ch) == (CHOOSE i \in DOMAIN Digits : Digits[i] = ch) - 1
radix(base) == CASE base = "Decimal" -> 10 [] base = "Hex" -> 16 [] base = "Binary" -> 2 [] base = "Octal" -> 8
is_digit_for_base(ch, base) == \E i \in 1..radix(base) : Digits[i] = ch

Prefixed == [x |-> "Hex", b |-> "Binary", o |-> "Octal"]
HasPrefix(text) == Len(text) >= 2 /\ text[1] = "0" /\ text[2] \in DOMAIN Prefixed
detect_base(text) == IF HasPrefix(text) THEN Prefixed[text[2]] ELSE "Decimal"
body_of(text) == IF HasPrefix(text) THEN SubSeq(text, 3, Len(text)) ELSE text

Fail(id) == [err |-> id]
Lit(kind, v, base) == [err |-> "", kind |-> kind, v |-> v, base |-> base]
NotUnderscore(ch) == ch /= "_"
\* Two underscores next to each other are refused here, the others by the
\* caller.
clean_underscores(body) == SelectSeq(body, NotUnderscore)
doubled(body) == \E i \in 1..(Len(body) - 1) : body[i] = "_" /\ body[i + 1] = "_"
validate_digits(digits, base) ==
  CASE digits = <<>> -> "N1404"
    [] \E i \in DOMAIN digits : ~is_digit_for_base(digits[i], base) -> "N1401"
    [] OTHER -> ""
RECURSIVE positional(_, _)
positional(digits, r) == IF digits = <<>> THEN 0 ELSE r * positional(Front(digits), r) + Value(Last(digits))

\* An integer that does not fit keeps its digits.
integer(body, base, max) ==
  LET digits == clean_underscores(body)
      v == positional(digits, radix(base))
  IN  CASE doubled(body) -> Fail("N1403")
        [] ~doubled(body) /\ validate_digits(digits, base) /= "" -> Fail(validate_digits(digits, base))
        [] OTHER -> IF v <= max THEN Lit("Int", v, base) ELSE Lit("BigInt", digits, base)

\* The first dot that is misplaced, in the order of the text, decides.
dots(body) == {i \in DOMAIN body : body[i] = "."}
dot_error(body, i) ==
  CASE (\E j \in dots(body) : j < i) \/ i \in {1, Len(body)} -> "N1401"
    [] OTHER -> IF "_" \in {body[i - 1], body[i + 1]} THEN "N1403" ELSE ""
misplaced(body) == {i \in dots(body) : dot_error(body, i) /= ""}
decimal(body, max) ==
  LET digits == clean_underscores(body)
  IN  CASE body[1] = "_" \/ Last(body) = "_" -> Fail("N1403")
        [] ~(body[1] = "_" \/ Last(body) = "_") /\ misplaced(body) /= {} -> Fail(dot_error(body, Min(misplaced(body))))
        [] OTHER -> IF dots(body) = {} THEN integer(body, "Decimal", max)
                    ELSE IF doubled(body) THEN Fail("N1403")
                    ELSE IF \E i \in DOMAIN digits : digits[i] /= "." /\ ~is_digit_for_base(digits[i], "Decimal") THEN Fail("N1401")
                    ELSE Lit("Float", digits, "Decimal")

parse_numeric(text, max) ==
  IF text = <<>> THEN Fail("N1400")
  ELSE IF detect_base(text) = "Decimal" THEN decimal(text, max)
  ELSE IF body_of(text) = <<>> THEN Fail("N1404")
  ELSE IF body_of(text)[1] = "_" THEN Fail("N1403")
  ELSE integer(body_of(text), detect_base(text), max)
----------------------------------------------------------------------------
\* An underscore has a digit or a letter on either side of it.
Between(body) == \A i \in DOMAIN body : body[i] = "_" =>
                   i \notin {1, Len(body)} /\ body[i - 1] \notin {"_", "."} /\ body[i + 1] \notin {"_", "."}
Plain(body, base) == \A i \in DOMAIN body : body[i] \in {"_"} \cup {Digits[k] : k \in 1..radix(base)}
IsFloat(body) == Cardinality(dots(body)) = 1 /\ dots(body) \cap {1, Len(body)} = {}
Trailing(text) == HasPrefix(text) /\ body_of(text) /= <<>> /\ Last(body_of(text)) = "_"

\* A literal is accepted exactly when its digits belong to its base and its
\* underscores stand between two of them (one at the end of a literal with a
\* prefix aside); separators never change what it means, an integer has the
\* value of its digits, and one too large keeps every digit.
NumbersAreExact(text, max) ==
  LET base == detect_base(text)
      body == body_of(text)
      r == parse_numeric(text, max)
      real == base = "Decimal" /\ IsFloat(body)
      wellFormed == /\ body /= <<>> /\ Between(body)
                    /\ IF real THEN Plain(SelectSeq(body, LAMBDA ch : ch /= "."), base) ELSE Plain(body, base)
      bare == (IF HasPrefix(text) THEN SubSeq(text, 1, 2) ELSE <<>>) \o clean_underscores(body)
  IN  /\ ~Trailing(text) => (r.err = "") = wellFormed
      /\ r.err = "" => /\ r = parse_numeric(bare, max)
                       /\ r.kind = "Float" <=> real
                       /\ ~real => (r.kind = "Int") = (positional(clean_underscores(body), radix(base)) <= max)
                       /\ r.kind = "Int" => r.v = positional(clean_underscores(body), radix(base))
                       /\ r.kind /= "Int" => r.v = clean_underscores(body)

\* An underscore at the end of a literal is refused.
NoTrailingUnderscore(text, max) == text /= <<>> /\ Last(text) = "_" => parse_numeric(text, max).err /= ""
----------------------------------------------------------------------------
Letter == {"a", "b", "x", "A", "_"}
Digit == {"0", "1", "2"}
Blank == {" ", "\n"}
Pairs == {<<"-", ">">>, <<"=", ">">>, <<"=", "=">>, <<".", ".">>}
\* The first position from i on whose character is not in S.
RunEnd(chars, i, S) ==
  LET stops == {k \in i..Len(chars) : chars[k] \notin S} IN IF stops = {} THEN Len(chars) + 1 ELSE Min(stops)
At(chars, i) == IF i \in DOMAIN chars THEN chars[i] ELSE ""

Token(kind, here, i, k, there) ==
  [kind |-> kind, from |-> i, to |-> k - 1, line |-> here.line, col |-> i - here.base,
   end_line |-> there.line, end_col |-> k - there.base]

\* A prefixed literal takes every letter and digit; a decimal one a single
\* dot, and only before a digit.
scan_numeric(chars, i) ==
  LET body == RunEnd(chars, i, Digit \cup {"_"})
  IN  IF chars[i] = "0" /\ At(chars, i + 1) \in DOMAIN Prefixed THEN RunEnd(chars, i + 2, Letter \cup Digit)
      ELSE IF At(chars, body) = "." /\ At(chars, body + 1) \in Digit THEN RunEnd(chars, body + 1, Digit \cup {"_"})
      ELSE body

\* Mutant: a string ends at the next quote, escaped or not.
string_end_mutant(chars, i, at) ==
  LET quotes == {k \in i..Len(chars) : chars[k] = "\""}
  IN  [i |-> IF quotes = {} THEN Len(chars) + 1 ELSE Min(quotes), at |-> at]

\* Where a string that begins before i ends and the line it ends on: at an
\* unescaped quote or the end of the text.  A line break that is escaped
\* starts no new line.
RECURSIVE string_end(_, _, _)
string_end(chars, i, at) ==
  CASE i > Len(chars) \/ At(chars, i) = "\"" -> [i |-> i, at |-> at]
    [] At(chars, i) = "\\" -> string_end(chars, IF i = Len(chars) THEN i + 1 ELSE i + 2, at)
    [] At(chars, i) = "\n" -> string_end(chars, i + 1, [line |-> at.line + 1, base |-> i])
    [] OTHER -> string_end(chars, i + 1, at)

RECURSIVE lex_from(_, _, _)
lex_from(chars, i, at) ==
  LET ch == chars[i]
      emit(kind, k) == <<Token(kind, at, i, k, at)>> \o lex_from(chars, k, at)
      closed == string_end(chars, i + 1, at)
      past == IF closed.i > Len(chars) THEN closed.i ELSE closed.i + 1
  IN  IF i > Len(chars) THEN <<Token("Eof", at, i, i, at)>>
      ELSE CASE ch = "\n" -> lex_from(chars, i + 1, [line |-> at.line + 1, base |-> i])
             [] ch = " " -> lex_from(chars, i + 1, at)
             [] ch = "/" /\ At(chars, i + 1) = "/" ->
                  LET breaks == {k \in i..Len(chars) : chars[k] = "\n"}
                  IN  lex_from(chars, IF breaks = {} THEN Len(chars) + 1 ELSE Min(breaks), at)
             [] ch \in Letter -> emit("Ident", RunEnd(chars, i, Letter \cup Digit))
             [] ch \in Digit -> emit("Number", scan_numeric(chars, i))
             [] ch = "\"" -> <<Token("String", at, i, past, closed.at)>> \o lex_from(chars, past, closed.at)
             [] OTHER -> emit("Symbol", IF <<ch, At(chars, i + 1)>> \in Pairs THEN i + 2 ELSE i + 1)
lex(chars) == lex_from(chars, 1, [line |-> 1, base |-> 0])
Slice(chars, t) == SubSeq(chars, t.from, t.to)

\* A literal too large for an integer is no error.
numeric_diagnostics(chars, max) ==
  LET numbers == SelectSeq(lex(chars), LAMBDA t : t.kind = "Number")
      bad == SelectSeq(numbers, LAMBDA t : parse_numeric(Slice(chars, t), max).err /= "")
  IN  [i \in DOMAIN bad |-> parse_numeric(Slice(chars, bad[i]), max).err]
----------------------------------------------------------------------------
Comments(chars, ts) ==
  {i \in DOMAIN chars : \E k \in 1..i :
     /\ At(chars, k) = "/" /\ At(chars, k + 1) = "/"
     /\ ~\E t \in ToSet(ts) : t.from < k /\ k <= t.to
     /\ \A j \in k..i : chars[j] /= "\n"}
Escaped(chars) == \E i \in DOMAIN chars : chars[i] = "\\" /\ At(chars, i + 1) = "\n"

\* The tokens stand one after the other and hold every character that is
\* neither blank nor in a comment; each says the line and the column it
\* starts at and the ones after its end (unless a string escapes a line
\* break); and each, alone, is read as that one token, so no token depends on
\* what follows it.
TokensAreExact(chars) ==
  LET ts == lex(chars)
      line(i) == 1 + Cardinality({k \in 1..(i - 1) : chars[k] = "\n"})
      col(i) == i - Max({0} \cup {k \in 1..(i - 1) : chars[k] = "\n"})
      held == UNION {ts[n].from..ts[n].to : n \in DOMAIN ts}
  IN  /\ \A n \in 1..(Len(ts) - 1) : ts[n].from <= ts[n].to /\ ts[n].to < ts[n + 1].from
      /\ \A i \in (DOMAIN chars) \ held : chars[i] \in Blank \/ i \in Comments(chars, ts)
      /\ held \cap Comments(chars, ts) = {}
      /\ ~Escaped(chars) => \A n \in DOMAIN ts :
           /\ ts[n].line = line(ts[n].from) /\ ts[n].col = col(ts[n].from)
           /\ ts[n].end_line = line(ts[n].to + 1) /\ ts[n].end_col = col(ts[n].to + 1)
      /\ \A n \in 1..(Len(ts) - 1) : LET alone == lex(Slice(chars, ts[n]))
                                     IN  Len(alone) = 2 /\ alone[1].kind = ts[n].kind

\* Every literal that is accepted is one token, however it continues the
\* digit it starts with, and nothing is reported of it.
LiteralsAreTokens(text, max) ==
  parse_numeric(text, max).err = "" => /\ Len(lex(text)) = 2 /\ lex(text)[1].kind = "Number"
                                         /\ numeric_diagnostics(text, max) = <<>>
=============================================================================
