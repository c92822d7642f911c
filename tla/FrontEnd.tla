------------------------------ MODULE FrontEnd ------------------------------
(***************************************************************************)
(* The declarations of a source file and the checks `ori check` makes of   *)
(* them (crates/ori-compiler/src/parser.rs and compiler.rs).  A token is   *)
(* its kind, text and line; a dotted name, an effect and a signature are   *)
(* the sequence of their texts; a diagnostic is its identifier and what it *)
(* is about.                                                               *)
(***************************************************************************)
EXTENDS Integers, Sequences, SequencesExt, FiniteSetsExt

Tok(k, t, l) == [k |-> k, t |-> t, l |-> l]
DeclKind == [fn |-> "Function", type |-> "Type", service |-> "Service", view |-> "View", actor |-> "Actor",
             query |-> "Query", migration |-> "Migration", capability |-> "Capability"]
Texts(tokens) == [i \in DOMAIN tokens |-> tokens[i].t]
IsKeyword(token, t) == token.k = "Keyword" /\ token.t = t
Indices(tokens, P(_)) == SetToSortSeq({i \in DOMAIN tokens : P(tokens[i])}, <)

\* A known effect, or a name that looks like a capability's.
Known == {<<"db", ".", "read">>, <<"time">>, <<"Mailer">>}
is_known_effect_or_capability(effect) == effect \in Known
----------------------------------------------------------------------------
\* The longest run of identifiers with dots between them that starts at i
\* and stays in the lines given.
Alternates(tokens, i, k, lines) ==
  \A n \in i..k : /\ tokens[n].l \in lines
                  /\ IF (n - i) % 2 = 0 THEN tokens[n].k = "Ident" ELSE tokens[n].k = "Symbol" /\ tokens[n].t = "."
dotted(tokens, i, lines) ==
  Texts(SubSeq(tokens, i, Max({k \in (i - 1)..Len(tokens) : Alternates(tokens, i, k, lines)})))
Incomplete(name) == name = <<>> \/ Last(name) = "."

\* Only the first `module` counts; the file's own name replaces one that is
\* missing or incomplete.
parse_module_name(tokens, file) ==
  LET at == {i \in DOMAIN tokens : IsKeyword(tokens[i], "module")}
      name == dotted(tokens, Min(at) + 1, {tokens[i].l : i \in DOMAIN tokens})
  IN  CASE at = {} -> [name |-> file, diags |-> <<<<"E0001", file>>>>]
        [] at /= {} /\ Incomplete(name) -> [name |-> file, diags |-> <<<<"E0002", file>>>>]
        [] OTHER -> [name |-> name, diags |-> <<>>]

parse_imports(tokens) ==
  LET at == Indices(tokens, LAMBDA t : IsKeyword(t, "import"))
      names == [n \in DOMAIN at |-> dotted(tokens, at[n] + 1, {tokens[at[n]].l})]
  IN  [imports |-> SelectSeq(names, LAMBDA name : ~Incomplete(name)),
       diags |-> [n \in DOMAIN SelectSeq(names, Incomplete) |-> <<"E0003", <<>>>>]]

\* The tokens of a line from position i on.
line_from(tokens, i) ==
  LET off == {k \in i..Len(tokens) : tokens[k].l /= tokens[i].l}
  IN  SubSeq(tokens, i, IF off = {} THEN Len(tokens) ELSE Min(off) - 1)
collect_signature(tokens, i) ==
  LET parts == Texts(SelectSeq(line_from(tokens, i), LAMBDA t : t.k /= "Eof"))
  IN  IF parts /= <<>> /\ Last(parts) = ":" THEN Front(parts) ELSE parts

\* What stands between `uses` and a colon or an arrow, split at the commas;
\* only names and dots are kept, and an empty part is not.
RECURSIVE split_effects(_, _)
split_effects(tokens, current) ==
  LET flush == IF current = <<>> THEN <<>> ELSE <<current>>
  IN  IF tokens = <<>> \/ Head(tokens).t \in {":", "->"} THEN flush
      ELSE IF Head(tokens).t = "," THEN flush \o split_effects(Tail(tokens), <<>>)
      ELSE split_effects(Tail(tokens), IF Head(tokens).t = "." \/ Head(tokens).k \in {"Ident", "Keyword"}
                                       THEN Append(current, Head(tokens).t) ELSE current)
collect_effects(tokens, i) ==
  LET line == line_from(tokens, i)
      uses == {k \in DOMAIN line : line[k].t = "uses"}
  IN  IF uses = {} THEN <<>> ELSE split_effects(SubSeq(line, Min(uses) + 1, Len(line)), <<>>)

\* Every declaration keyword, wherever it stands, that a name follows.
Declares(t) == t.k = "Keyword" /\ t.t \in DOMAIN DeclKind
parse_symbols(tokens) ==
  LET at == Indices(tokens, Declares)
      named(i) == tokens[i + 1].k = "Ident"
      good == SelectSeq(at, named)
      bad == SelectSeq(at, LAMBDA i : ~named(i))
  IN  [symbols |-> [n \in DOMAIN good |->
                      [name |-> tokens[good[n] + 1].t, kind |-> DeclKind[tokens[good[n]].t],
                       signature |-> collect_signature(tokens, good[n]), effects |-> collect_effects(tokens, good[n]),
                       line |-> tokens[good[n]].l]],
       diags |-> [n \in DOMAIN bad |-> <<"E0200", tokens[bad[n]].t>>]]

scan_for_reserved_runtime_hazards(tokens) ==
  FlattenSeq([i \in DOMAIN tokens |->
    CASE tokens[i].k = "Ident" /\ tokens[i].t = "null" -> <<<<"E0100", "null">>>>
      [] tokens[i].t = "throw" -> <<<<"E0101", "throw">>>>
      [] OTHER -> <<>>])

\* What is reported of a symbol that is kept.
symbol_diagnostics(s) ==
  LET unknown == SelectSeq(s.effects, LAMBDA e : ~is_known_effect_or_capability(e))
      untyped == s.kind = "Function" /\ "->" \notin ToSet(s.signature)
  IN  [i \in DOMAIN unknown |-> <<"W0401", s.name>>] \o (IF untyped THEN <<<<"W0301", s.name>>>> ELSE <<>>)

\* A symbol is known by its name alone: the second of one name is dropped,
\* whatever it declares.
Repeated(symbols, n) == \E k \in 1..(n - 1) : symbols[k].name = symbols[n].name
parse_source(tokens, file) ==
  LET m == parse_module_name(tokens, file)
      imp == parse_imports(tokens)
      sym == parse_symbols(tokens)
      ss == sym.symbols
      each == [n \in DOMAIN ss |-> IF Repeated(ss, n) THEN <<<<"E0201", ss[n].name>>>> ELSE symbol_diagnostics(ss[n])]
      kept == SetToSortSeq({n \in DOMAIN ss : ~Repeated(ss, n)}, <)
  IN  [name |-> m.name, imports |-> imp.imports, symbols |-> [i \in DOMAIN kept |-> ss[kept[i]]],
       diags |-> m.diags \o imp.diags \o sym.diags \o FlattenSeq(each) \o scan_for_reserved_runtime_hazards(tokens)]

\* One warning a line with a tab in it; tabs lists the lines that have one.
add_style_diagnostics(tabs, diags) == diags \o [i \in DOMAIN tabs |-> <<"W9001", tabs[i]>>]
check_source(tokens, file, tabs) ==
  LET out == parse_source(tokens, file) IN [out EXCEPT !.diags = add_style_diagnostics(tabs, @)]

\* `ori fmt`: a text is a sequence of characters; both kinds of line end
\* become one, a line loses its trailing blanks, and the last line is ended.
RECURSIVE normalized(_), lines(_), trim_end(_)
normalized(text) ==
  IF text = <<>> THEN <<>>
  ELSE IF Head(text) = "\r" THEN <<"\n">> \o normalized(IF Len(text) > 1 /\ text[2] = "\n" THEN Tail(Tail(text)) ELSE Tail(text))
  ELSE <<Head(text)>> \o normalized(Tail(text))
lines(text) ==
  LET breaks == {i \in DOMAIN text : text[i] = "\n"}
  IN  IF text = <<>> THEN <<>>
      ELSE IF breaks = {} THEN <<text>>
      ELSE <<SubSeq(text, 1, Min(breaks) - 1)>> \o lines(SubSeq(text, Min(breaks) + 1, Len(text)))
trim_end(line) == IF line /= <<>> /\ Last(line) \in {" ", "\t"} THEN trim_end(Front(line)) ELSE line
format_source(text) ==
  LET ls == lines(normalized(text)) IN FlattenSeq([i \in DOMAIN ls |-> Append(trim_end(ls[i]), "\n")])
----------------------------------------------------------------------------
(* A file written out: a module line, imports, and declarations each with  *)
(* the lines of its body.                                                  *)
Word(t, l) == Tok(IF t \in DOMAIN DeclKind \cup {"module", "import", "uses", "let"} THEN "Keyword"
                  ELSE IF t \in {"(", ")", ":", ",", ".", "->", "=", "[", "]"} THEN "Symbol" ELSE "Ident", t, l)
OnLine(words, l) == [i \in DOMAIN words |-> Word(words[i], l)]
Commas(effects) == FlattenSeq([i \in DOMAIN effects |-> (IF i = 1 THEN <<"uses">> ELSE <<",">>) \o effects[i]])
Heading(d) == <<d.keyword, d.name>> \o d.params \o (IF d.uses_first THEN Commas(d.effects) \o d.result
                                                   ELSE d.result \o Commas(d.effects)) \o <<":">>
Written(f) ==
  LET imports == [i \in DOMAIN f.imports |-> OnLine(<<"import">> \o f.imports[i], 1 + i)]
      start == 2 + Len(f.imports)
      decls == [i \in DOMAIN f.decls |-> OnLine(Heading(f.decls[i]), start + 2 * i) \o OnLine(f.decls[i].body, start + 2 * i + 1)]
  IN  OnLine(<<"module">> \o f.name, 1) \o FlattenSeq(imports) \o FlattenSeq(decls) \o <<Tok("Eof", "", start + 2 * Len(f.decls) + 2)>>

\* What was written is what is read: the module's name, the imports, and of
\* every name the first declaration with its kind, effects and heading; each
\* later one is reported, so are an effect nobody declares and a function
\* that names no result, and nothing else is, whatever the bodies hold.
FilesAreReadBack(f) ==
  LET r == parse_source(Written(f), <<"file">>)
      first == {i \in DOMAIN f.decls : \A j \in 1..(i - 1) : f.decls[j].name /= f.decls[i].name}
      expected(i) == LET d == f.decls[i] IN
        IF i \notin first THEN {<<"E0201", d.name>>}
        ELSE {<<"W0401", d.name>> : e \in {e \in ToSet(d.effects) : e \notin Known}}
             \cup {<<"W0301", d.name>> : x \in {x \in {1} : d.keyword = "fn" /\ d.result = <<>>}}
  IN  /\ r.name = f.name
      /\ r.imports = f.imports
      /\ {<<s.name, s.kind, s.effects, s.signature>> : s \in ToSet(r.symbols)} =
           {<<f.decls[i].name, DeclKind[f.decls[i].keyword], f.decls[i].effects, Front(Heading(f.decls[i]))>> : i \in first}
      /\ Len(r.symbols) = Cardinality(first)
      /\ ToSet(r.diags) = UNION {expected(i) : i \in DOMAIN f.decls}

\* Formatting is done once and for all, leaves no trailing blank, and keeps
\* every character that is not blank.
FormattingSettles(text) ==
  LET out == format_source(text)
      solid(t) == SelectSeq(t, LAMBDA c : c \notin {" ", "\t", "\r", "\n"})
  IN  /\ format_source(out) = out
      /\ solid(out) = solid(text)
      /\ \A i \in DOMAIN out : out[i] = "\n" /\ i > 1 => out[i - 1] \notin {" ", "\t", "\r"}
      /\ text /= <<>> => Last(out) = "\n"
=============================================================================
