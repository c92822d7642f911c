------------------------------- MODULE Traits -------------------------------
(***************************************************************************)
(* Protocols and their implementations (crates/ori-compiler/src/traits.rs):*)
(* both are found by scanning a module's tokens, and checked against each  *)
(* other.  A text is a sequence of pieces, words, symbols and blanks.  A    *)
(* token has a kind and a text: one piece, or for a string what stands     *)
(* between the quotes; a signature and the identifier of a method are      *)
(* texts, and a position is an index into the tokens.                      *)
(***************************************************************************)
EXTENDS Integers, Sequences, FiniteSets, SequencesExt, FiniteSetsExt

Keywords == {"protocol", "impl", "for", "fn", "uses", "let"}
Symbols == {"[", "]", "{", "}", "(", ")", "->", "=", ",", ":"}
Eof == [kind |-> "Eof", lexeme |-> <<>>]
String(text) == [kind |-> "String", lexeme |-> text]
\* The token a word of the source becomes.
Word(text) == [kind |-> IF text \in Keywords THEN "Keyword" ELSE IF text \in Symbols THEN "Symbol" ELSE "Ident", lexeme |-> <<text>>]
Name(t) == Head(t.lexeme)
IsIdent(t) == t.kind = "Ident"
IsSymbol(t, text) == t = [kind |-> "Symbol", lexeme |-> <<text>>]
IsKeyword(t, text) == t = [kind |-> "Keyword", lexeme |-> <<text>>]
At(tokens, i) == IF i \in DOMAIN tokens THEN tokens[i] ELSE [kind |-> "None", lexeme |-> <<>>]

\* The pieces of the model in the order of their bytes; none is a prefix of another that
\* it is compared with, so that texts compare piece by piece.
Alphabetical == <<" ", "(", ")", ",", "->", ".", ":", "::", "=", "A", "B", "P", "Q", "R", "T", "U", "[", "]", "__missing_method__:",
                  "__missing_protocol__", "__orphan__", "__signature_mismatch__:", "a", "b", "fn", "for", "impl", "impl:",
                  "let", "m", "n", "protocol", "self", "sym", "uses", "{", "}">>
Rank(piece) == CHOOSE i \in DOMAIN Alphabetical : Alphabetical[i] = piece
Less(s, t) ==
  \E k \in 1..Len(t) : /\ \A j \in 1..k - 1 : j <= Len(s) /\ s[j] = t[j]
                       /\ k > Len(s) \/ (k <= Len(s) /\ Rank(s[k]) < Rank(t[k]))
LessEq(s, t) == s = t \/ Less(s, t)
Smallest(texts) == CHOOSE s \in texts : \A t \in texts : LessEq(s, t)

\* A set in the order of a relation that tells any two of its elements apart, and sort_by:
\* elements with the same key stay in order.
InOrder(S, Before(_, _)) == [k \in 1..Cardinality(S) |-> CHOOSE x \in S : Cardinality({y \in S : Before(y, x)}) = k - 1]
sort_by(s, Before(_, _)) ==
  LET order == InOrder(DOMAIN s, LAMBDA i, j : Before(s[i], s[j]) \/ (~Before(s[j], s[i]) /\ i < j))
  IN  [i \in DOMAIN s |-> s[order[i]]]
----------------------------------------------------------------------------
(* Printing. *)
\* canonicalize_signature: one blank for several, none first or last.
canonicalize_signature(text) ==
  LET Kept(i) == text[i] = " " => i < Len(text) /\ text[i + 1] /= " " /\ \E j \in 1..i : text[j] /= " "
      kept == SelectSeq([i \in DOMAIN text |-> i], Kept)
  IN  [i \in DOMAIN kept |-> text[kept[i]]]
compact_signature(parts) ==
  LET Put(out, part) ==
        LET joined == \/ out = <<>> \/ (Len(part) = 1 /\ part[1] \in {")", "]", ",", ":", ".", "(", "["})
                      \/ Last(out) \in {"(", "[", "."}
        IN  out \o (IF joined THEN <<>> ELSE <<" ">>) \o part
  IN  canonicalize_signature(FoldLeft(Put, <<>>, parts))
----------------------------------------------------------------------------
(* Scanning. *)
\* The position after the bracket that closes a list of type parameters
\* begun before position i; the end when nothing closes it.
after_brackets(tokens, i) ==
  LET closes == {k \in i..Len(tokens) : IsSymbol(tokens[k], "]")}
  IN  IF closes = {} THEN Len(tokens) + 1 ELSE Min(closes) + 1
skip_brackets(tokens, i) == IF IsSymbol(At(tokens, i), "[") THEN after_brackets(tokens, i + 1) ELSE i

\* How many more of one symbol than of another there are between two positions.
Excess(tokens, i, k, open, close) ==
  Cardinality({j \in i..k : IsSymbol(tokens[j], open)}) - Cardinality({j \in i..k : IsSymbol(tokens[j], close)})

\* Mutant: the first closing brace is taken.
after_body_mutant(tokens, i) ==
  LET closes == {k \in i..Len(tokens) : IsSymbol(tokens[k], "}")}
  IN  IF closes = {} THEN Len(tokens) + 1 ELSE Min(closes) + 1

\* The position after the brace that closes a body begun before position i.
after_body(tokens, i) ==
  LET closes == {k \in i..Len(tokens) : IsSymbol(tokens[k], "}") /\ Excess(tokens, i, k, "{", "}") = -1}
  IN  IF closes = {} THEN Len(tokens) + 1 ELSE Min(closes) + 1

\* A signature runs to the parenthesis that closes its parameters (a string of that text
\* counts when none is open); an arrow after it adds everything up to a body, another
\* function or the end.  It stops before a body or an `=` outside parentheses.
FirstOr(S, other) == IF S = {} THEN other ELSE Min(S)
Stops(t) == t.kind = "Symbol" /\ Name(t) \in {"{", "=", "}"}
collect_method_signature(tokens, start) ==
  LET end == Len(tokens) + 1
      Balanced(k) == Excess(tokens, start, k, "(", ")") = 0
      stop == FirstOr({k \in start..Len(tokens) : Stops(tokens[k]) /\ Balanced(k)}, end)
      close == FirstOr({k \in start..Len(tokens) : tokens[k].lexeme = <<")">> /\ Balanced(k)}, end)
      last == FirstOr({k \in close + 2..Len(tokens) : Stops(tokens[k]) \/ IsKeyword(tokens[k], "fn")}, end)
      next == IF stop < close \/ close = end THEN stop
              ELSE IF IsSymbol(At(tokens, close + 1), "->") THEN last ELSE close + 1
  IN  [signature |-> compact_signature([i \in 1..next - start |-> tokens[start + i - 1].lexeme]), next |-> next]

\* The functions of a body in order.  A signature is never searched for a
\* second one.
RECURSIVE scan_methods(_, _)
scan_methods(tokens, i) ==
  IF i > Len(tokens) THEN <<>>
  ELSE IF IsKeyword(tokens[i], "fn") /\ IsIdent(At(tokens, i + 1))
       THEN LET found == collect_method_signature(tokens, i)
            IN  <<[name |-> Name(tokens[i + 1]), signature |-> found.signature]>> \o scan_methods(tokens, found.next)
       ELSE scan_methods(tokens, i + 1)
\* The methods of the body that opens at position i, if one does: all but
\* the last token of what the body spans, which closes it or ends the file.
body_methods(tokens, i) ==
  IF IsSymbol(At(tokens, i), "{") THEN scan_methods(SubSeq(tokens, i + 1, after_body(tokens, i + 1) - 2), 1) ELSE <<>>
past_body(tokens, i) == IF IsSymbol(At(tokens, i), "{") THEN after_body(tokens, i + 1) ELSE i

NoBlock == [ok |-> FALSE]
parse_protocol_block(tokens, start) ==
  LET open == start + 1
      body == skip_brackets(tokens, open)
      params == SelectSeq(IF body = open THEN <<>> ELSE SubSeq(tokens, open + 1, body - 1), IsIdent)
  IN  IF ~IsIdent(At(tokens, start)) THEN NoBlock
      ELSE [ok |-> TRUE, next |-> past_body(tokens, body),
            item |-> [name |-> Name(tokens[start]), type_params |-> [i \in DOMAIN params |-> Name(params[i])],
                      methods |-> body_methods(tokens, body)]]

\* The identifier of a method ends in its signature.  A name that is defined
\* twice keeps its last definition.
method_id(protocol, for_type, m) == <<"impl:", protocol, ".", for_type, ".", m.name, "::">> \o m.signature
impl_methods(protocol, for_type, methods) ==
  [name \in {methods[i].name : i \in DOMAIN methods} |->
     method_id(protocol, for_type, methods[Max({i \in DOMAIN methods : methods[i].name = name})])]
parse_impl_block(tokens, start) ==
  LET at_for == skip_brackets(tokens, start + 1)
      type_tok == At(tokens, at_for + 1)
      protocol == Name(tokens[start])
      for_type == Name(type_tok)
      body == skip_brackets(tokens, at_for + 2)
  IN  IF \/ ~IsIdent(At(tokens, start)) \/ At(tokens, at_for).lexeme /= <<"for">>
         \/ type_tok.kind \notin {"Ident", "Keyword"}
      THEN NoBlock
      ELSE [ok |-> TRUE, next |-> past_body(tokens, body),
            item |-> [protocol |-> protocol, for_type |-> for_type,
                      methods |-> impl_methods(protocol, for_type, body_methods(tokens, body))]]

\* A keyword that begins no block is passed over alone.
RECURSIVE scan_protocols(_, _), scan_impls(_, _)
scan_protocols(tokens, i) ==
  IF i > Len(tokens) THEN <<>>
  ELSE LET block == parse_protocol_block(tokens, i + 1)
       IN  IF IsKeyword(tokens[i], "protocol") /\ block.ok THEN <<block.item>> \o scan_protocols(tokens, block.next)
           ELSE scan_protocols(tokens, i + 1)
scan_impls(tokens, i) ==
  IF i > Len(tokens) THEN <<>>
  ELSE LET block == parse_impl_block(tokens, i + 1)
       IN  IF IsKeyword(tokens[i], "impl") /\ block.ok THEN <<block.item>> \o scan_impls(tokens, block.next)
           ELSE scan_impls(tokens, i + 1)

\* read_module_source: nothing for a module without a path or whose file cannot be read.
read_module_source(module) == IF module.path = "" \/ ~module.readable THEN <<>> ELSE module.tokens
ByName(a, b) == Rank(a.name) < Rank(b.name)
ByTarget(a, b) == Rank(a.protocol) < Rank(b.protocol) \/ (a.protocol = b.protocol /\ Rank(a.for_type) < Rank(b.for_type))
extract_protocols(module) == sort_by(scan_protocols(read_module_source(module), 1), ByName)
extract_impls(module) == sort_by(scan_impls(read_module_source(module), 1), ByTarget)
----------------------------------------------------------------------------
(* Coherence. *)
best_impl_id(imp) ==
  IF DOMAIN imp.methods = {} THEN <<"impl:", imp.protocol, ".", imp.for_type>>
  ELSE Smallest({imp.methods[n] : n \in DOMAIN imp.methods})
Conflict(imp, a, b) == [protocol |-> imp.protocol, for_type |-> imp.for_type, impl_a |-> a, impl_b |-> b]
\* Only the type parameters of protocols count as declared types.
collect_declared_types(protocols) == UNION {ToSet(protocols[i].type_params) : i \in DOMAIN protocols}
protocol_by_name(protocols, name) == protocols[Max({i \in DOMAIN protocols : protocols[i].name = name})]

\* sig_from_method_id: what follows the first "::", or none.
sig_from_method_id(id) ==
  LET at == {i \in DOMAIN id : id[i] = "::"} IN IF at = {} THEN <<>> ELSE << SubSeq(id, Min(at) + 1, Len(id)) >>
signature_matches(expected, found) == canonicalize_signature(expected) = canonicalize_signature(found)
Mismatch(m, id) == LET sig == sig_from_method_id(id) IN sig /= <<>> /\ ~signature_matches(m.signature, sig[1])

impl_conflicts(protocols, imp) ==
  IF ~\E i \in DOMAIN protocols : protocols[i].name = imp.protocol
  THEN {Conflict(imp, IF imp.for_type \in collect_declared_types(protocols) THEN <<"__missing_protocol__">> ELSE <<"__orphan__">>,
                 best_impl_id(imp))}
  ELSE LET required == ToSet(protocol_by_name(protocols, imp.protocol).methods)
           present == {m \in required : m.name \in DOMAIN imp.methods}
       IN  {Conflict(imp, <<"__missing_method__:", m.name>>, best_impl_id(imp)) : m \in required \ present}
           \cup {Conflict(imp, <<"__signature_mismatch__:", m.name>>, imp.methods[m.name]) :
                   m \in {m \in present : Mismatch(m, imp.methods[m.name])}}
\* The identifiers of the implementations of one protocol for one type, in pairs.
overlaps(impls) ==
  LET group(i) == {j \in DOMAIN impls : impls[j].protocol = impls[i].protocol /\ impls[j].for_type = impls[i].for_type}
      id(i) == best_impl_id(impls[i])
  IN  UNION {{Conflict(impls[i], id(i), id(j)) : j \in {j \in group(i) \ {i} : LessEq(id(i), id(j))}} : i \in DOMAIN impls}
ByConflict(a, b) ==
  \/ ByTarget(a, b)
  \/ a.protocol = b.protocol /\ a.for_type = b.for_type /\ (Less(a.impl_a, b.impl_a) \/ (a.impl_a = b.impl_a /\ Less(a.impl_b, b.impl_b)))

\* The report: everything sorted, each conflict once.
check_coherence(protocols, impls) ==
  LET sorted_protocols == sort_by(protocols, ByName)
      sorted_impls == sort_by(impls, ByTarget)
      conflicts == UNION {impl_conflicts(sorted_protocols, sorted_impls[i]) : i \in DOMAIN impls} \cup overlaps(sorted_impls)
  IN  [protocols |-> sorted_protocols, impls |-> sorted_impls, conflicts |-> InOrder(conflicts, ByConflict)]

\* The smallest identifier of a method of that name, or none.
resolve_method(method, for_type, impls) ==
  LET hits == {impls[i].methods[method] : i \in {i \in DOMAIN impls : impls[i].for_type = for_type /\ method \in DOMAIN impls[i].methods}}
  IN  IF hits = {} THEN <<>> ELSE << Smallest(hits) >>
----------------------------------------------------------------------------
(* What the scan and the report promise.                                   *)
\* A declaration written out: methods with and without a body, which may
\* nest braces and hold lambdas.
Words(texts) == [i \in DOMAIN texts |-> Word(texts[i])]
Signature(m) == Words(<<"fn", m.name>>) \o m.rest
Methods(ms) == FlattenSeq([i \in DOMAIN ms |-> Signature(ms[i]) \o ms[i].body])
Brackets(names) == IF names = <<>> THEN <<>> ELSE Words(<<"[">> \o names \o <<"]">>)
Body(ms) == IF ms = <<>> THEN <<>> ELSE Words(<<"{">>) \o Methods(ms) \o Words(<<"}">>)
Written(d) == IF d.kind = "protocol" THEN Words(<<"protocol", d.name>>) \o Brackets(d.params) \o Body(d.methods)
              ELSE Words(<<"impl", d.name>>) \o Brackets(d.params) \o Words(<<"for", d.for_type>>) \o Brackets(d.args) \o Body(d.methods)
Lexemes(tokens) == [i \in DOMAIN tokens |-> tokens[i].lexeme]
Read(ms) == [i \in DOMAIN ms |-> [name |-> ms[i].name, signature |-> compact_signature(Lexemes(Signature(ms[i])))]]
IsProtocol(d) == d.kind = "protocol"
IsImpl(d) == d.kind = "impl"

\* Protocols and implementations written one after the other are scanned
\* back as they were written, whatever the bodies between them hold; printing
\* loses nothing but the blanks of strings; a file that cannot be read has none.
ScansAreExact(decls, readable) ==
  LET tokens == FlattenSeq([i \in DOMAIN decls |-> Written(decls[i])]) \o <<Eof>>
      module == [path |-> "m", readable |-> readable, tokens |-> tokens]
      ps == SelectSeq(decls, IsProtocol)
      is == SelectSeq(decls, IsImpl)
      protocols == [i \in DOMAIN ps |-> [name |-> ps[i].name, type_params |-> ps[i].params, methods |-> Read(ps[i].methods)]]
      impls == [i \in DOMAIN is |-> [protocol |-> is[i].name, for_type |-> is[i].for_type,
                                     methods |-> impl_methods(is[i].name, is[i].for_type, Read(is[i].methods))]]
      NotBlank(piece) == piece /= " "
      Solid(lexemes) == SelectSeq(FlattenSeq(lexemes), NotBlank)
  IN  /\ readable => /\ scan_protocols(tokens, 1) = protocols /\ scan_impls(tokens, 1) = impls
                     /\ ToSet(extract_protocols(module)) = ToSet(protocols)
                     /\ ToSet(extract_impls(module)) = ToSet(impls)
      /\ ~readable => extract_protocols(module) = <<>> /\ extract_impls(module) = <<>>
      /\ \A i \in DOMAIN ps : \A j \in DOMAIN ps[i].methods :
           SelectSeq(protocols[i].methods[j].signature, NotBlank) = Solid(Lexemes(Signature(ps[i].methods[j])))

\* Nothing is reported exactly when every implementation is of a declared
\* protocol, has each of its methods with the protocol's signature, and is
\* the only one of that protocol for its type; a method that one protocol
\* alone offers then has one meaning for each type. What is reported and how
\* a method resolves does not depend on the order of the implementations.
CoherenceIsExact(protocols, impls) ==
  LET conflicts == check_coherence(protocols, impls).conflicts
      clean == conflicts = <<>>
      SameSig(id, sig) == sig_from_method_id(id) \in {<<>>, <<sig>>}
      complete(imp) == \E p \in ToSet(protocols) :
        /\ p.name = imp.protocol
        /\ \A m \in ToSet(p.methods) : m.name \in DOMAIN imp.methods /\ SameSig(imp.methods[m.name], m.signature)
      offering(type, method) == {i \in DOMAIN impls : impls[i].for_type = type /\ method \in DOMAIN impls[i].methods}
  IN  /\ clean = /\ \A i \in DOMAIN impls : complete(impls[i])
                 /\ \A i, j \in DOMAIN impls : i /= j => <<impls[i].protocol, impls[i].for_type>> /= <<impls[j].protocol, impls[j].for_type>>
      /\ clean => \A i \in DOMAIN impls : \A method \in DOMAIN impls[i].methods :
           (\A j \in offering(impls[i].for_type, method) : impls[j].protocol = impls[i].protocol)
             => resolve_method(method, impls[i].for_type, impls) = <<impls[i].methods[method]>>
      /\ check_coherence(protocols, Reverse(impls)).conflicts = conflicts
      /\ \A i \in DOMAIN impls : \A method \in DOMAIN impls[i].methods :
           resolve_method(method, impls[i].for_type, Reverse(impls)) = resolve_method(method, impls[i].for_type, impls)
=============================================================================
