------------------------------ MODULE LspText ------------------------------
(***************************************************************************)
(* What the language server computes from the text of a document           *)
(* (crates/ori-lsp/src/server.rs, the functions below the handlers, and    *)
(* diagnostics.rs).  A text is a sequence of characters, all ASCII, as the *)
(* code assumes; a position is <<line, character>>, both from 0, and a     *)
(* range a pair of them.  A result that the code sorts by position is the  *)
(* set of its elements.  Labels, wording and JSON are left out.            *)
(***************************************************************************)
EXTENDS ExprTree, FiniteSets

LOCAL INSTANCE Lexer

Punctuation == {" ", "\t", "\n", "\r", "\"", "\\", "#", "/", ":", ";", "{", "}", "(", ")", "=", "|", ",", "-", ">", "."}
Digits10 == {"0", "1", "2"}
is_ident_byte(ch) == ch \notin Punctuation
is_valid_identifier(name) ==
  name /= <<>> /\ name[1] \notin Digits10 /\ \A i \in DOMAIN name : is_ident_byte(name[i])
----------------------------------------------------------------------------
(* Positions.  The i-th character, or the end of the text.                 *)
advance(text, i) ==
  LET breaks == {k \in 1..(i - 1) : text[k] = "\n"}
  IN  <<Cardinality(breaks), i - 1 - Max({0} \cup breaks)>>
\* The index of a position, or 0.
position_to_byte_offset(text, pos) ==
  LET at == {i \in 1..(Len(text) + 1) : advance(text, i) = pos} IN IF at = {} THEN 0 ELSE Min(at)
full_document_range(text) == <<<<0, 0>>, advance(text, Len(text) + 1)>>

\* split('\n'), and lines(), which knows no empty last line and takes the
\* carriage return off the end of each.
RECURSIVE split_lines(_)
split_lines(text) ==
  LET breaks == {k \in DOMAIN text : text[k] = "\n"}
  IN  IF breaks = {} THEN <<text>>
      ELSE <<SubSeq(text, 1, Min(breaks) - 1)>> \o split_lines(SubSeq(text, Min(breaks) + 1, Len(text)))
chomp(line) == IF line /= <<>> /\ Last(line) = "\r" THEN Front(line) ELSE line
lines_of(text) ==
  LET all == split_lines(text)
      kept == IF Last(all) = <<>> THEN Front(all) ELSE all
  IN  [i \in DOMAIN kept |-> chomp(kept[i])]

Leq(p, q) == p[1] < q[1] \/ (p[1] = q[1] /\ p[2] <= q[2])
Less(p, q) == Leq(p, q) /\ p /= q
position_in_range(range, pos) == Leq(range[1], pos) /\ Leq(pos, range[2])
range_contains(outer, inner) == Leq(outer[1], inner[1]) /\ Less(inner[1], outer[2])
\* A span of the compiler is <<line, column>> from 1, its end included.
zero_based(n) == IF n = 0 THEN 0 ELSE n - 1
span_to_range(span) == <<<<zero_based(span[1][1]), zero_based(span[1][2])>>, <<zero_based(span[2][1]), zero_based(span[2][2])>>>>
span_contains(span, line, column) ==
  /\ span[1][1] <= line /\ line <= span[2][1]
  /\ line = span[1][1] => span[1][2] <= column
  /\ line = span[2][1] => column <= span[2][2]
----------------------------------------------------------------------------
(* The scanners.  Each keeps whether it is in a string, after a backslash  *)
(* in one, or in a comment; they differ in what starts a comment.          *)
Opens(text, i, comment) ==
  CASE comment = "none" -> FALSE
    [] comment = "#" -> text[i] = "#"
    [] comment = "//" -> text[i] = "/" /\ i < Len(text) /\ text[i + 1] = "/"
\* How the character after ch is read, and how the i-th is.
next_mode(mode, ch, opens) ==
  CASE mode = "comment" -> IF ch = "\n" THEN "code" ELSE "comment"
    [] mode = "escape" -> "string"
    [] mode = "string" -> (CASE ch = "\\" -> "escape" [] ch = "\"" -> "code" [] OTHER -> "string")
    [] mode = "code" -> (CASE ch = "\"" -> "string" [] opens -> "comment" [] OTHER -> "code")
RECURSIVE modes(_, _, _)
modes(text, comment, so_far) ==
  LET i == Len(so_far)
  IN  IF i > Len(text) THEN so_far
      ELSE modes(text, comment, Append(so_far, next_mode(so_far[i], text[i], Opens(text, i, comment))))
Mode(text, comment) == modes(text, comment, <<"code">>)

\* The identifiers that are not in a string or a comment: first and last
\* character.
Words(text, comment) ==
  LET mode == Mode(text, comment)
      part(k) == k \in DOMAIN text /\ mode[k] = "code" /\ is_ident_byte(text[k])
      starts == {i \in DOMAIN text : part(i) /\ ~part(i - 1)}
  IN  {<<i, Min({k \in i..Len(text) : ~part(k + 1)})>> : i \in starts}
Found(text, comment, name) == {w \in Words(text, comment) : SubSeq(text, w[1], w[2]) = name}
RangeOf(text, w) == <<advance(text, w[1]), advance(text, w[2] + 1)>>

identifier_occurrences(text, needle) ==
  IF needle = <<>> THEN {} ELSE {RangeOf(text, w) : w \in Found(text, "#", needle)}

\* Mutant: an identifier is found anywhere, in a longer one too.
identifier_edits_mutant(text, from, to) ==
  {[range |-> RangeOf(text, <<i, i + Len(from) - 1>>), new_text |-> to] :
     i \in {k \in 1..(Len(text) - Len(from) + 1) : SubSeq(text, k, k + Len(from) - 1) = from}}

identifier_edits(text, from, to) ==
  {[range |-> RangeOf(text, w), new_text |-> to] : w \in Found(text, "none", from)}
----------------------------------------------------------------------------
(* The identifier under the cursor.                                        *)
\* The run of identifier bytes around an index (from 0) of a line, its end
\* excluded.
Around(line, anchor) ==
  <<Min({s \in 0..anchor : \A k \in (s + 1)..anchor : is_ident_byte(line[k])}),
    Max({e \in anchor..Len(line) : \A k \in (anchor + 1)..e : is_ident_byte(line[k])})>>
NoWord == <<>>
\* An index past the line ends the process.
Panic == <<"panic">>
Probe(line, column) == IF column < Len(line) THEN column ELSE Len(line) - 1
TakeWord(line, anchor) ==
  LET run == Around(line, anchor) IN IF run[1] = run[2] THEN NoWord ELSE run

\* identifier_at falls back to the byte before the cursor, identifier_range_at
\* to the one before the byte it looked at.
at_cursor(line, column) ==
  LET probe == Probe(line, column)
  IN  CASE line = <<>> -> NoWord
        [] line /= <<>> /\ is_ident_byte(line[probe + 1]) -> TakeWord(line, probe)
        [] line /= <<>> /\ ~is_ident_byte(line[probe + 1]) ->
             IF column = 0 THEN NoWord
             ELSE IF column > Len(line) THEN Panic
             ELSE IF is_ident_byte(line[column]) THEN TakeWord(line, probe) ELSE NoWord
identifier_at(text, pos) ==
  LET lines == lines_of(text)
      line == lines[pos[1] + 1]
      run == at_cursor(line, pos[2])
  IN  IF pos[1] >= Len(lines) THEN NoWord
      ELSE IF run \in {NoWord, Panic} THEN run ELSE SubSeq(line, run[1] + 1, run[2])
identifier_range_at(text, pos) ==
  LET lines == lines_of(text)
      line == lines[pos[1] + 1]
      probe == Probe(line, pos[2])
      run == TakeWord(line, probe)
  IN  IF pos[1] >= Len(lines) THEN NoWord
      ELSE IF line = <<>> THEN NoWord
      ELSE IF ~is_ident_byte(line[probe + 1]) /\ (probe = 0 \/ ~is_ident_byte(line[probe])) THEN NoWord
      ELSE IF run = NoWord THEN NoWord ELSE <<<<pos[1], run[1]>>, <<pos[1], run[2]>>>>
----------------------------------------------------------------------------
(* Declarations are [name, kind, span].                                    *)
symbol_at(symbols, pos) ==
  LET hits == {i \in DOMAIN symbols : symbols[i].kind /= "Module" /\ span_contains(symbols[i].span, pos[1] + 1, pos[2] + 1)}
  IN  IF hits /= {} THEN <<symbols[Min(hits)]>> ELSE IF symbols /= <<>> THEN <<symbols[1]>> ELSE <<>>

range_area(range) ==
  LET lines == range[2][1] - range[1][1]
      wide(n) == IF n < 0 THEN 0 ELSE n
  IN  IF lines <= 0 THEN wide(range[2][2] - range[1][2]) ELSE lines * 10000 + range[2][2]
line_range_at(text, line) ==
  LET lines == split_lines(text)
      idx == IF line < Len(lines) THEN line ELSE Len(lines) - 1
  IN  <<<<line, 0>>, <<line, Len(lines[idx + 1])>>>>
\* The frames from the document inwards; of the declarations at the cursor
\* the smallest, the first of equals.
build_selection_range(text, symbols, pos) ==
  LET hits == {i \in DOMAIN symbols : symbols[i].kind /= "Module" /\ span_contains(symbols[i].span, pos[1] + 1, pos[2] + 1)}
      area(i) == range_area(span_to_range(symbols[i].span))
      best == Min({i \in hits : \A j \in hits : area(i) <= area(j)})
      word == identifier_range_at(text, pos)
  IN  <<full_document_range(text)>> \o (IF hits = {} THEN <<>> ELSE <<span_to_range(symbols[best].span)>>)
      \o <<line_range_at(text, pos[1])>> \o (IF word = NoWord THEN <<>> ELSE <<word>>)
----------------------------------------------------------------------------
(* Semantic tokens: <<line, column, length, category>>, 0-based.           *)
\* The lexeme of a string comes without its quotes; two are added again,
\* for a string that is never closed as well.
lexeme_token_length(text, t) ==
  LET len == t.to - t.from + 1
  IN  IF t.kind = "String" /\ Mode(text, "//")[t.to + 1] /= "code" THEN len + 1 ELSE len
Upper == {"A"}
\* No word over the letters of the model is a keyword or a builtin type.
category(t, lexeme, types, functions) ==
  CASE t.kind = "Number" -> "number"
    [] t.kind = "String" -> "string"
    [] t.kind = "Symbol" -> "operator"
    [] t.kind = "Ident" -> IF lexeme \in types THEN "type" ELSE IF lexeme \in functions THEN "function"
                           ELSE IF lexeme[1] \in Upper THEN "type" ELSE "variable"
token_runs(text, types, functions) ==
  {<<zero_based(t.line), zero_based(t.col), lexeme_token_length(text, t), category(t, Slice(text, t), types, functions)>> :
     t \in {u \in ToSet(lex(text)) : u.kind /= "Eof"}}
\* The lexer drops comments; they are found again in the text.
comment_runs(text) ==
  LET mode == Mode(text, "//")
      starts == {i \in DOMAIN text : mode[i] = "code" /\ Opens(text, i, "//")}
      stop(i) == Min({k \in i..(Len(text) + 1) : k = Len(text) + 1 \/ text[k] = "\n"})
  IN  {advance(text, i) \o <<stop(i) - i, "comment">> : i \in starts}
RECURSIVE InOrder(_)
InOrder(runs) ==
  IF runs = {} THEN <<>>
  ELSE LET first == CHOOSE r \in runs : \A s \in runs : Leq(r, s) IN <<first>> \o InOrder(runs \ {first})
\* Each run relative to the one before; the subtractions stop at 0.
compute_semantic_tokens(text, types, functions) ==
  LET runs == InOrder(comment_runs(text) \cup token_runs(text, types, functions))
      last(i) == IF i = 1 THEN <<0, 0>> ELSE runs[i - 1]
      lines(i) == runs[i][1] - last(i)[1]
  IN  [i \in DOMAIN runs |-> <<lines(i), IF lines(i) = 0 THEN runs[i][2] - last(i)[2] ELSE runs[i][2], runs[i][3], runs[i][4]>>]
----------------------------------------------------------------------------
(* Calls and bindings in a body.                                           *)
\* The names called in an expression, in the order of the walk.
RECURSIVE calls_in(_)
calls_in(e) ==
  LET parts == Parts(e)
  IN  (IF e[1] = "Call" /\ e[2][1] = "Var" THEN <<e[2][2]>> ELSE <<>>)
      \o FlattenSeq([i \in DOMAIN parts |-> calls_in(parts[i])])
CountOf(name, names) == Cardinality({i \in DOMAIN names : names[i] = name})
collect_call_targets(e, names) ==
  [n \in names \cap ToSet(calls_in(e)) |-> CountOf(n, calls_in(e))]

\* The names bound by a let without a type; a let with one has it as its
\* fourth part.  What a let is given is not searched for more of them.
RECURSIVE collect_let_bindings(_)
collect_let_bindings(e) ==
  LET parts == Parts(e)
      OfStmt(s) == CASE s[1] = "Let" -> IF Len(s) = 3 THEN <<s[3]>> ELSE <<>>
                     [] s[1] /= "Let" -> IF s[2] = <<>> THEN <<>> ELSE collect_let_bindings(s[2])
  IN  IF e[1] = "Block"
        THEN FlattenSeq([i \in DOMAIN e[2] |-> OfStmt(e[2][i])]) \o (IF e[3] = <<>> THEN <<>> ELSE collect_let_bindings(e[3]))
        ELSE FlattenSeq([i \in DOMAIN parts |-> collect_let_bindings(parts[i])])

\* Where the text says `let` and a name: the name and the position after it.
\* The scan goes on after the name.
LetWord == <<"l", "e", "t">>
RECURSIVE let_positions(_, _, _)
let_positions(text, mode, i) ==
  LET byte(k) == k \in DOMAIN text /\ is_ident_byte(text[k])
      here == /\ mode[i] = "code" /\ SubSeq(text, i, i + 2) = LetWord
              /\ ~byte(i - 1) /\ ~byte(i + 3)
      from == Min({k \in (i + 3)..(Len(text) + 1) : k = Len(text) + 1 \/ text[k] \notin {" ", "\t"}})
      to == Min({k \in from..(Len(text) + 1) : ~byte(k)})
  IN  IF i + 2 > Len(text) THEN <<>>
      ELSE IF here /\ to > from
      THEN <<[name |-> SubSeq(text, from, to - 1), position |-> advance(text, to)]>> \o let_positions(text, mode, to)
      ELSE let_positions(text, mode, i + 1)
find_let_positions(text) == let_positions(text, Mode(text, "//"), 1)

\* The n-th place a name is bound at, if there are as many.
next_for(positions, name, n) ==
  LET of == SelectSeq(positions, LAMBDA p : p.name = name) IN IF n <= Len(of) THEN <<of[n].position>> ELSE <<>>

\* One hint for each such binding of each function, in the order the places
\* come in the text; every function counts from the first place again.
compute_inlay_hints(bodies, text) ==
  LET places == find_let_positions(text)
      names(f) == collect_let_bindings(bodies[f])
      nth(f, i) == CountOf(names(f)[i], SubSeq(names(f), 1, i))
  IN  [f \in DOMAIN bodies |-> [i \in DOMAIN names(f) |-> [name |-> names(f)[i], at |-> next_for(places, names(f)[i], nth(f, i))]]]
----------------------------------------------------------------------------
(* Folding.  A line is [indent, form]: blank and comment lines have no     *)
(* indent; a block or match header ends in a colon or a brace.             *)
indent_of(line) == IF line.form \in {"blank", "comment"} THEN <<>> ELSE <<line.indent>>
compute_folding_ranges(lines) ==
  LET headers == {i \in DOMAIN lines : lines[i].form \in {"block", "match"}}
      closes(i, j) == indent_of(lines[j]) /= <<>> /\ lines[j].indent <= lines[i].indent
      inside(i) == {j \in (i + 1)..Len(lines) : indent_of(lines[j]) /= <<>> /\ \A k \in (i + 1)..j : ~closes(i, k)}
  IN  {[start |-> i, end |-> Max(inside(i)), kind |-> IF lines[i].form = "match" THEN "region" ELSE ""] :
         i \in {h \in headers : inside(h) /= {}}}
----------------------------------------------------------------------------
(* What they promise.                                                      *)
\* A client applies the edits of one answer to the text they were made for.
RECURSIVE edited(_, _, _)
edited(text, edits, i) ==
  LET here == {e \in edits : position_to_byte_offset(text, e.range[1]) = i}
      e == CHOOSE x \in here : TRUE
  IN  IF here /= {} THEN e.new_text \o edited(text, edits \ {e}, position_to_byte_offset(text, e.range[2]))
      ELSE IF i > Len(text) THEN <<>> ELSE <<text[i]>> \o edited(text, edits, i + 1)
Apply(text, edits) == edited(text, edits, 1)

\* The tokens of a text as the compiler reads it, where a name is used, and what stands
\* in comments, which are in no token.
TokensOf(text) == [i \in DOMAIN lex(text) |-> <<lex(text)[i].kind, Slice(text, lex(text)[i])>>]
Uses(text, name) ==
  {RangeOf(text, <<t.from, t.to>>) : t \in {u \in ToSet(lex(text)) : u.kind = "Ident" /\ Slice(text, u) = name}}
Remarks(text) ==
  {i \in DOMAIN text : text[i] \notin {" ", "\n"} /\ \A t \in ToSet(lex(text)) : i \notin t.from..t.to}
\* Neither scanner knows a // comment: a quote in one is taken for the start of a string.
QuotedRemark(text) == \E i \in Remarks(text) : text[i] = "\""

\* Where no comment holds a quote, a rename changes every use of the name, as the
\* compiler's lexer finds them, and else at most the name in comments: the tokens are
\* those of before with the new name for the old, and strings stay as they are.
\* References finds the same where the text has no # sign. A name the text does not
\* hold, in whatever place, is renamed back to the text there was.
RenameIsExact(text, from, to) ==
  LET edits == identifier_edits(text, from, to)
      out == Apply(text, edits)
      tokens == TokensOf(text)
      Exact(found) == /\ Uses(text, from) \subseteq found
                      /\ \A r \in found \ Uses(text, from) : position_to_byte_offset(text, r[1]) \in Remarks(text)
      holds == \E i \in DOMAIN text : SubSeq(text, i, i + Len(to) - 1) = to
  IN  /\ ~QuotedRemark(text) =>
           /\ Exact({e.range : e \in edits})
           /\ TokensOf(out) = [i \in DOMAIN tokens |-> IF tokens[i] = <<"Ident", from>> THEN <<"Ident", to>> ELSE tokens[i]]
           /\ "#" \notin ToSet(text) => Exact(identifier_occurrences(text, from))
      /\ ~holds => Apply(out, identifier_edits(out, to, from)) = text
      /\ \A r \in identifier_occurrences(text, from) :
           SubSeq(text, position_to_byte_offset(text, r[1]), position_to_byte_offset(text, r[2]) - 1) = from

\* The word at a cursor in a line is the one whose bytes it touches, and the
\* two ways to find it agree before the end of the line; a cursor past the
\* end of a line that ends in punctuation is the only one that panics.
CursorFindsWord(text, pos) ==
  LET lines == lines_of(text)
      line == lines[pos[1] + 1]
      word == identifier_at(text, pos)
      range == identifier_range_at(text, pos)
      touching == {w \in Words(line, "none") : w[1] - 1 <= pos[2] /\ pos[2] <= w[2]}
      bare == "\"" \notin ToSet(line)
  IN  pos[1] < Len(lines) =>
        /\ (word = Panic) = (line /= <<>> /\ pos[2] > Len(line) /\ ~is_ident_byte(Last(line)))
        /\ pos[2] < Len(line) => (word = NoWord) = (range = NoWord)
        /\ pos[2] <= Len(line) /\ bare =>
             /\ (word = NoWord) = (touching = {})
             /\ word /= NoWord => \E w \in touching : word = SubSeq(line, w[1], w[2])
        /\ range /= NoWord => is_valid_identifier(SubSeq(line, range[1][2] + 1, range[2][2])) \/ line[range[1][2] + 1] \in Digits10

\* The frames of a selection lie in the document, the word in its line, and
\* hover takes the declaration that selection takes where no two declarations
\* share a place.
SelectionsNest(text, symbols, pos) ==
  LET frames == build_selection_range(text, symbols, pos)
      within(r, s) == Leq(s[1], r[1]) /\ Leq(r[2], s[2])
      decls == {i \in DOMAIN symbols : symbols[i].kind /= "Module"}
      apart == \A i, j \in decls : i /= j => symbols[i].span[1][1] /= symbols[j].span[1][1]
      at == symbol_at(symbols, pos)
  IN  pos[1] < Len(split_lines(text)) =>
        /\ \A i \in DOMAIN frames : within(frames[i], frames[1])
        /\ identifier_range_at(text, pos) /= NoWord => within(Last(frames), frames[Len(frames) - 1])
        /\ apart /\ at /= <<>> /\ at[1].kind /= "Module" => frames[2] = span_to_range(at[1].span)

\* Decoding the stream gives the runs back: one for each token and comment,
\* each over its own characters and no two over the same, unless a string
\* holds a line break or is never closed.
RECURSIVE decoded(_, _)
decoded(data, from) ==
  IF data = <<>> THEN <<>>
  ELSE LET d == Head(data)
           start == <<from[1] + d[1], IF d[1] = 0 THEN from[2] + d[2] ELSE d[2]>>
       IN  <<start \o <<d[3], d[4]>>>> \o decoded(Tail(data), start)
TokensCoverText(text, types, functions) ==
  LET runs == decoded(compute_semantic_tokens(text, types, functions), <<0, 0>>)
      from(r) == position_to_byte_offset(text, <<r[1], r[2]>>)
      chars(r) == from(r)..(from(r) + r[3] - 1)
      mode == Mode(text, "//")
      plain == mode[Len(text) + 1] \in {"code", "comment"} /\ \A i \in DOMAIN text : text[i] = "\n" => mode[i] \in {"code", "comment"}
  IN  plain => /\ \A i, j \in DOMAIN runs : i < j => chars(runs[i]) \cap chars(runs[j]) = {}
               /\ UNION {chars(runs[i]) : i \in DOMAIN runs} = {i \in DOMAIN text : text[i] \notin {" ", "\n"} \/ (mode[i] /= "code" /\ text[i] /= "\n")}
               /\ \A i \in DOMAIN runs : (runs[i][4] = "string") = (text[from(runs[i])] = "\"")

\* A hint stands after a let of its name, and after the let of its own
\* binding where the file binds the name once.  At `places` the file binds
\* names in code, in order.
HintsFollowNames(bodies, text, places) ==
  LET hints == compute_inlay_hints(bodies, text)
  IN  /\ ToSet(find_let_positions(text)) = places
      /\ \A f \in DOMAIN hints : \A i \in DOMAIN hints[f] :
           /\ hints[f][i].at /= <<>>
           /\ [name |-> hints[f][i].name, position |-> hints[f][i].at[1]] \in places

\* Folding ranges nest: two of them are apart or one lies in the other; each
\* holds only deeper lines after its header and ends before a line that is
\* not deeper.
FoldsNest(lines) ==
  LET folds == compute_folding_ranges(lines)
      code(j) == lines[j].form \notin {"blank", "comment"}
  IN  /\ \A a, b \in folds : a.start < b.start => b.start > a.end \/ b.end <= a.end
      /\ \A a \in folds :
           /\ \A j \in (a.start + 1)..a.end : code(j) => lines[j].indent > lines[a.start].indent
           /\ LET later == {j \in (a.end + 1)..Len(lines) : code(j)}
              IN  later /= {} => lines[Min(later)].indent <= lines[a.start].indent
=============================================================================
