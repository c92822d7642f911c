------------------------------ MODULE Refactor ------------------------------
(***************************************************************************)
(* Call hierarchy, type hierarchy and the two refactorings of the language *)
(* server (crates/ori-lsp/src/refactor.rs).  A document is [uri, text,     *)
(* symbols, bodies]: what the compiler makes of the text is given with it, *)
(* bodies being a function on the ids of the functions that have one.      *)
(* Documents are numbered in the order of their uris.  Lines are counted   *)
(* from 1 here and from 0 in positions.                                    *)
(***************************************************************************)
EXTENDS LspText

Doc(docs, uri) == SelectSeq(docs, LAMBDA d : d.uri = uri)
OfKind(doc, kind) == SelectSeq(doc.symbols, LAMBDA s : s.kind = kind)
symbol_to_item(uri, s) == [uri |-> uri, name |-> s.name, range |-> span_to_range(s.span), id |-> s.id]
At(s, pos) == span_contains(s.span, pos[1] + 1, pos[2] + 1)
----------------------------------------------------------------------------
(* Call hierarchy.                                                         *)
count_calls_to(e, target) == CountOf(target, calls_in(e))
collect_call_names(e) == [n \in ToSet(calls_in(e)) |-> count_calls_to(e, n)]

\* The functions at the cursor, or else those with the name at it; of two on
\* one line the first.
prepare_call_hierarchy(docs, uri, pos) ==
  LET doc == Doc(docs, uri)[1]
      fns == ToSet(OfKind(doc, "Function"))
      exact == {s \in fns : At(s, pos)}
      named == {s \in fns : s.name = identifier_at(doc.text, pos)}
      hits == IF exact /= {} THEN exact ELSE named
  IN  IF Doc(docs, uri) = <<>> THEN {}
      ELSE {symbol_to_item(uri, s) : s \in {t \in hits : \A u \in hits : u.span[1][1] = t.span[1][1] => t.span[1][2] <= u.span[1][2]}}

\* Every function that calls the name, whatever document declares it, with
\* the number of calls; of two with one id the later stands for both.
incoming_calls(docs, item) ==
  UNION {LET doc == docs[d]
             fns == OfKind(doc, "Function")
             count(s) == count_calls_to(doc.bodies[s.id], item.name)
             callers == {i \in DOMAIN fns : /\ fns[i].id \in DOMAIN doc.bodies /\ count(fns[i]) > 0
                                            /\ \A j \in DOMAIN fns : fns[j].id = fns[i].id => j <= i}
         IN  {[from |-> symbol_to_item(doc.uri, fns[i]), count |-> count(fns[i])] : i \in callers}
         : d \in DOMAIN docs}

\* Mutant: a callee is looked for in the item's own document only.
resolve_callee_mutant(docs, name) ==
  LET fns == SelectSeq(OfKind(docs[1], "Function"), LAMBDA s : s.name = name)
  IN  {symbol_to_item(docs[1].uri, fns[i]) : i \in DOMAIN fns}

\* The functions of a name in the first document that declares one.
resolve_callee(docs, name) ==
  LET named(d) == {s \in ToSet(OfKind(docs[d], "Function")) : s.name = name}
      with == {d \in DOMAIN docs : named(d) /= {}}
  IN  IF with = {} THEN {} ELSE {symbol_to_item(docs[Min(with)].uri, s) : s \in named(Min(with))}

\* What the first function with the item's name, in its document, calls.
outgoing_calls(docs, item) ==
  LET doc == Doc(docs, item.uri)[1]
      fns == SelectSeq(OfKind(doc, "Function"), LAMBDA s : s.name = item.name)
      counts == collect_call_names(doc.bodies[fns[1].id])
  IN  IF Doc(docs, item.uri) = <<>> THEN {}
      ELSE IF fns = <<>> THEN {}
      ELSE IF fns[1].id \notin DOMAIN doc.bodies THEN {}
      ELSE UNION {{[to |-> to, count |-> counts[n]] : to \in resolve_callee(docs, n)} : n \in DOMAIN counts}
----------------------------------------------------------------------------
(* Lines.                                                                  *)
IsBlank(line) == \A i \in DOMAIN line : line[i] \in {" ", "\t", "\r"}
Spaces(n) == [i \in 1..n |-> " "]
leading_space_len(line) == Max({n \in 0..Len(line) : \A i \in 1..n : line[i] = " "})
RECURSIVE trim_start(_), trim_end(_)
trim_start(line) == IF line /= <<>> /\ Head(line) \in {" ", "\t", "\r"} THEN trim_start(Tail(line)) ELSE line
trim_end(line) == IF line /= <<>> /\ Last(line) \in {" ", "\t", "\r"} THEN trim_end(Front(line)) ELSE line
Trimmed(line) == trim_start(trim_end(line))
HeaderOf(s) == s.span[1][1]

\* The last line of the body: the walk passes blank lines and ends at one
\* that is not deeper than the header.
function_body_end_line(lines, header) ==
  LET base == leading_space_len(lines[header])
      out(j) == ~IsBlank(lines[j]) /\ leading_space_len(lines[j]) <= base
      body == {j \in (header + 1)..Len(lines) : ~IsBlank(lines[j]) /\ \A k \in (header + 1)..j : ~out(k)}
  IN  IF header > Len(lines) THEN Len(lines) ELSE Max({header} \cup body)
host_body_indent(lines, header) ==
  LET base == leading_space_len(lines[header])
      code == {j \in (header + 1)..Len(lines) : ~IsBlank(lines[j])}
      first == leading_space_len(lines[Min(code)])
  IN  IF header > Len(lines) THEN 0
      ELSE IF code /= {} /\ first > base THEN first ELSE base + 2
----------------------------------------------------------------------------
(* Type hierarchy.                                                         *)
\* The constructors after a declaration: the lines that begin with a bar,
\* up to one that does not and is not deeper than the declaration.
find_variants(lines, s) ==
  LET base == leading_space_len(lines[HeaderOf(s)])
      bar(j) == trim_start(lines[j]) /= <<>> /\ Head(trim_start(lines[j])) = "|"
      stop(j) == ~IsBlank(lines[j]) /\ leading_space_len(lines[j]) <= base /\ ~bar(j)
      within == {j \in (HeaderOf(s) + 1)..Len(lines) : bar(j) /\ \A k \in (HeaderOf(s) + 1)..j : ~stop(k)}
      rest(j) == trim_start(Tail(trim_start(trim_end(lines[j]))))
      len(j) == Max({n \in 0..Len(rest(j)) : \A i \in 1..n : is_ident_byte(rest(j)[i])})
      skipped(j) == SubSeq(lines[j], leading_space_len(lines[j]) + 2, Len(lines[j]))
      column(j) == leading_space_len(lines[j]) + 1 + leading_space_len(skipped(j))
  IN  IF HeaderOf(s) > Len(lines) THEN {}
      ELSE {[name |-> SubSeq(rest(j), 1, len(j)), range |-> <<<<j - 1, column(j)>>, <<j - 1, column(j) + len(j)>>>>] :
              j \in {k \in within : len(k) > 0}}
type_symbol_to_item(uri, s) ==
  [uri |-> uri, name |-> s.name, range |-> span_to_range(s.span), kind |-> "type", owner |-> s.name]
variant_item(uri, v, owner) == [uri |-> uri, name |-> v.name, range |-> v.range, kind |-> "variant", owner |-> owner]
VariantsOf(doc, s) == {variant_item(doc.uri, v, s.name) : v \in find_variants(split_lines(doc.text), s)}

prepare_type_hierarchy(docs, uri, pos) ==
  LET doc == Doc(docs, uri)[1]
      types == ToSet(OfKind(doc, "Type"))
      exact == {s \in types : At(s, pos)}
      name == identifier_at(doc.text, pos)
  IN  IF Doc(docs, uri) = <<>> THEN {}
      ELSE IF exact /= {} THEN {type_symbol_to_item(uri, s) : s \in exact}
      ELSE {v \in UNION {VariantsOf(doc, s) : s \in types} : v.name = name}
\* The types with the name of the item's owner, in every document; a type is
\* its own owner.
supertypes(docs, item) ==
  UNION {{type_symbol_to_item(docs[d].uri, s) : s \in {t \in ToSet(OfKind(docs[d], "Type")) : t.name = item.owner}} : d \in DOMAIN docs}
subtypes(docs, item) ==
  LET doc == Doc(docs, item.uri)[1]
  IN  IF item.kind = "variant" \/ Doc(docs, item.uri) = <<>> THEN {}
      ELSE UNION {VariantsOf(doc, s) : s \in {t \in ToSet(OfKind(doc, "Type")) : t.name = item.name}}
----------------------------------------------------------------------------
(* Refactorings.  An outcome is the reason of a refusal or the edits.      *)
Rejected(reason) == [reason |-> reason, edits |-> {}]
Edits(edits) == [reason |-> "", edits |-> edits]

\* A function's body runs to the line before the next function, whatever
\* stands between them; the last one's has no end.
find_enclosing_function(doc, start, end) ==
  LET fns == OfKind(doc, "Function")
      hosts == {i \in DOMAIN fns : /\ start + 1 > HeaderOf(fns[i])
                                   /\ i < Len(fns) => end + 1 < HeaderOf(fns[i + 1])}
  IN  IF hosts = {} THEN <<>> ELSE <<fns[Min(hosts)]>>
strip_common_indent(line, base) ==
  LET drop == Min({leading_space_len(line), base + 2}) IN SubSeq(line, drop + 1, Len(line))
\* The words around the name are one element each.
NewHeader(name) == <<"fn ">> \o name \o <<"() -> Unit:">>

extract_function(doc, start, end, name) ==
  LET lines == split_lines(doc.text)
      host == find_enclosing_function(doc, start, end)
      indent == host_body_indent(lines, HeaderOf(host[1]))
      last == function_body_end_line(lines, HeaderOf(host[1]))
      moved(j) == Spaces(indent + 2) \o strip_common_indent(lines[j], indent) \o <<"\n">>
      call == [range |-> <<<<start, 0>>, <<end, Len(lines[end + 1])>>>>,
               new_text |-> Spaces(leading_space_len(lines[start + 1])) \o name \o <<"(", ")">>]
      decl == [range |-> <<<<last, 0>>, <<last, 0>>>>,
               new_text |-> <<"\n">> \o NewHeader(name) \o <<"\n">> \o FlattenSeq([k \in 1..(end - start + 1) |-> moved(start + k)])]
  IN  IF ~is_valid_identifier(name) THEN Rejected("not an identifier")
      ELSE IF \E s \in ToSet(doc.symbols) : s.kind /= "Module" /\ s.name = name THEN Rejected("exists")
      ELSE IF start > end THEN Rejected("start after end")
      ELSE IF host = <<>> THEN Rejected("not in a function")
      ELSE IF end >= Len(lines) THEN Rejected("past the end")
      ELSE IF \A j \in (start + 1)..(end + 1) : IsBlank(lines[j]) THEN Rejected("empty")
      ELSE Edits({call, decl})

extract_body_text(lines, header) ==
  IF header > Len(lines) THEN <<>> ELSE SubSeq(lines, header + 1, function_body_end_line(lines, header))
\* From the end of a name in a line: the parenthesis that closes the call, or 0.
call_end(line, from) ==
  LET open == Min({k \in from..Len(line) : k = Len(line) \/ line[k + 1] \notin {" ", "\t"}})
      depth(k) == Cardinality({i \in (open + 1)..k : line[i] = "("}) - Cardinality({i \in (open + 1)..k : line[i] = ")"})
  IN  IF open = Len(line) THEN 0
      ELSE IF line[open + 1] /= "(" THEN 0
      ELSE Min({k \in (open + 1)..Len(line) : line[k] = ")" /\ depth(k) = 0} \cup {Len(line) + 1}) % (Len(line) + 1)
\* The call of the name under the cursor, to the parenthesis that closes it on the line.
call_of(line, pos, run, name) ==
  IF SubSeq(line, run[1] + 1, run[2]) /= name THEN NoWord
  ELSE IF call_end(line, run[2]) = 0 THEN NoWord
  ELSE <<<<pos[1], run[1]>>, <<pos[1], call_end(line, run[2])>>>>
call_site_range(lines, pos, name) ==
  LET line == lines[pos[1] + 1]
      looked == Probe(line, pos[2])
  IN  IF pos[1] >= Len(lines) THEN NoWord
      ELSE IF line = <<>> THEN NoWord
      ELSE IF is_ident_byte(line[looked + 1]) THEN call_of(line, pos, Around(line, looked), name)
      ELSE IF pos[2] > 0 /\ is_ident_byte(line[pos[2]]) THEN call_of(line, pos, Around(line, pos[2] - 1), name)
      ELSE NoWord

\* The lines of the body one below the other, as deep as the call.
inlined(body, indent) ==
  LET piece(i) == IF IsBlank(body[i]) THEN IF 1 < i /\ i < Len(body) THEN <<"\n">> ELSE <<>>
                  ELSE (IF i > 1 THEN <<"\n">> \o indent ELSE <<>>) \o Trimmed(body[i])
  IN  FlattenSeq([i \in DOMAIN body |-> piece(i)])
inline_function(doc, fn, lines, pos, body, range) ==
  IF fn.id \notin DOMAIN doc.bodies THEN Rejected("no body")
  ELSE IF count_calls_to(doc.bodies[fn.id], fn.name) > 0 THEN Rejected("recursive")
  ELSE IF \A i \in DOMAIN body : IsBlank(body[i]) THEN Rejected("no body")
  ELSE IF range = NoWord THEN Rejected("no call")
  ELSE Edits({[range |-> range, new_text |-> inlined(body, Spaces(leading_space_len(lines[pos[1] + 1])))]})
inline_name(doc, pos, name, lines) ==
  LET fns == SelectSeq(OfKind(doc, "Function"), LAMBDA s : s.name = name)
  IN  IF name = Panic THEN Rejected("panic")
      ELSE IF name = NoWord THEN Rejected("no identifier")
      ELSE IF fns = <<>> THEN Rejected("no function")
      ELSE inline_function(doc, fns[1], lines, pos, extract_body_text(lines, HeaderOf(fns[1])), call_site_range(lines, pos, name))
inline(doc, pos) == inline_name(doc, pos, identifier_at(doc.text, pos), split_lines(doc.text))
----------------------------------------------------------------------------
(* What they promise.                                                      *)
\* A call that one direction reports the other reports as well, with the same
\* count, where no two functions of the workspace share a name.
CallsAgree(docs) ==
  LET fns == {<<d, i>> \in (DOMAIN docs) \X (1..8) : i <= Len(OfKind(docs[d], "Function"))}
      item(f) == symbol_to_item(docs[f[1]].uri, OfKind(docs[f[1]], "Function")[f[2]])
      unique == \A f, g \in fns : item(f).name = item(g).name => f = g
  IN  unique => \A f, g \in fns, n \in 1..4 :
        [from |-> item(f), count |-> n] \in incoming_calls(docs, item(g)) <=> [to |-> item(g), count |-> n] \in outgoing_calls(docs, item(f))

\* A constructor's supertype is the type that declares it, whose subtypes hold
\* it, at the place of its name; the cursor on that name finds it.
ConstructorsHaveTypes(docs, doc) ==
  LET lines == split_lines(doc.text)
  IN  \A s \in ToSet(OfKind(doc, "Type")) :
        LET item == type_symbol_to_item(doc.uri, s)
        IN  \A v \in subtypes(docs, item) :
              /\ item \in supertypes(docs, v) /\ subtypes(docs, v) = {}
              /\ SubSeq(lines[v.range[1][1] + 1], v.range[1][2] + 1, v.range[2][2]) = v.name
              /\ v \in prepare_type_hierarchy(docs, doc.uri, v.range[1])

\* A selection inside the body of its function, in a text that goes on after
\* it, moves: the lines around it stay, one call stands where it was, and the
\* new function, which ends where its lines end, has the selected lines, as
\* deep against each other as they were when all were equally deep.
ExtractMoves(doc, start, end, name) ==
  LET lines == split_lines(doc.text)
      out == extract_function(doc, start, end, name)
      host == find_enclosing_function(doc, start, end)[1]
      last == function_body_end_line(lines, HeaderOf(host))
      new == split_lines(Apply(doc.text, out.edits))
      n == end - start + 1
      header == last - n + 3
      lower == {j \in (start + 1)..(end + 1) : ~IsBlank(lines[j])}
      deep(j) == leading_space_len(lines[j])
  IN  out.reason = "" /\ end < last /\ last < Len(lines) =>
        /\ new = SubSeq(lines, 1, start) \o <<Spaces(deep(start + 1)) \o name \o <<"(", ")">>>> \o SubSeq(lines, end + 2, last)
                 \o <<<<>>, NewHeader(name)>> \o SubSeq(new, header + 1, header + n) \o SubSeq(lines, last + 1, Len(lines))
        /\ \A k \in 1..n : Trimmed(new[header + k]) = Trimmed(lines[start + k])
        /\ function_body_end_line(new, header) = header + Max(lower) - start
        /\ \A i, j \in lower : deep(i) = deep(j) => leading_space_len(new[header + i - start]) = leading_space_len(new[header + j - start])

\* An inlined call is replaced as a whole and by the lines of the body, and
\* nothing else of the text changes; a recursive function is refused.
ReplacesCall(doc, pos, lines, name, edit) ==
  LET call == SubSeq(lines[pos[1] + 1], edit.range[1][2] + 1, edit.range[2][2])
      fn == SelectSeq(OfKind(doc, "Function"), LAMBDA s : s.name = name)[1]
      content(ls) == LET code == SelectSeq(ls, LAMBDA l : ~IsBlank(l)) IN [i \in DOMAIN code |-> Trimmed(code[i])]
      count(ch) == Cardinality({i \in DOMAIN call : call[i] = ch})
  IN  /\ edit.range[1][1] = edit.range[2][1] /\ edit.range[1][2] <= pos[2] /\ pos[2] <= edit.range[2][2]
      /\ SubSeq(call, 1, Len(name)) = name /\ Last(call) = ")" /\ count("(") = count(")")
      /\ content(split_lines(edit.new_text)) = content(extract_body_text(lines, HeaderOf(fn)))
      /\ count_calls_to(doc.bodies[fn.id], name) = 0
InlineReplacesCall(doc, pos) ==
  \A edit \in inline(doc, pos).edits :
    ReplacesCall(doc, pos, split_lines(doc.text), identifier_at(doc.text, pos), edit)
=============================================================================
