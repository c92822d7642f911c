------------------------------ MODULE Preproc ------------------------------
(***************************************************************************)
(* The preprocessor (crates/ori-compiler/src/preproc.rs).  A text is a     *)
(* sequence of characters, the word `orison` of a marker being one.  The   *)
(* scanner's line and column follow from its position, also where a marker *)
(* is given up and the scanner goes back, so a position stands for them.   *)
(* The environment may change while a text is read: what it gives for a    *)
(* name is the sequence of what one read after the other returns, each <<>> *)
(* or <<value>>.  `reads` records the names asked for; nothing looks at it.  *)
(***************************************************************************)
EXTENDS Integers, Sequences, SequencesExt, FiniteSetsExt

Quote == "\""
Letters == {"orison", "A", "B", "k"}
IdentChars == Letters \cup {"_"}
ConstNameChars == IdentChars \cup {"-", ".", "/"}
Orison == <<"@", "orison", "/">>
peek(text, i) == IF i \in DOMAIN text THEN text[i] ELSE ""
starts_with_at(text, pos, needle) == \A k \in DOMAIN needle : peek(text, pos + k - 1) = needle[k]
FirstOr(S, other) == IF S = {} THEN other ELSE Min(S)

\* PreprocessConfig: the constants of a later with_const replace earlier ones, and a
\* name is allowed once.
NoConfig == [allow_env |-> <<>>, constants |-> <<>>]
with_const(config, key, value) ==
  [config EXCEPT !.constants = [k \in DOMAIN config.constants \cup {key} |-> IF k = key THEN value ELSE config.constants[k]]]
allow_env_var(config, name) ==
  [config EXCEPT !.allow_env = IF name \in Range(config.allow_env) THEN config.allow_env ELSE Append(config.allow_env, name)]
----------------------------------------------------------------------------
\* Where the characters of a name end that begins at position i.
name_end(text, i, chars) == FirstOr({k \in i..Len(text) : text[k] \notin chars}, Len(text) + 1)
NoMarker == [ok |-> FALSE]
Marker(text, pos, first, end, next) == [ok |-> TRUE, from |-> pos, name |-> SubSeq(text, first, end - 1), next |-> next]

\* ${NAME}, closed and not empty; @orison/name, as long as it goes.
parse_brace_name(text, pos) ==
  LET end == name_end(text, pos + 2, IdentChars)
  IN  IF starts_with_at(text, pos, <<"$", "{">>) /\ end > pos + 2 /\ peek(text, end) = "}"
      THEN Marker(text, pos, pos + 2, end, end + 1) ELSE NoMarker
parse_const_name(text, pos) ==
  LET end == name_end(text, pos + 3, ConstNameChars)
  IN  IF starts_with_at(text, pos, Orison) /\ end > pos + 3 THEN Marker(text, pos, pos + 3, end, end) ELSE NoMarker
----------------------------------------------------------------------------
\* The scan: its position, what it wrote and reported, the values it has read.
Start == [pos |-> 1, out |-> <<>>, diagnostics |-> <<>>, env_cache |-> <<>>, reads |-> <<>>]
Report(id, from, to, about) == [id |-> id, from |-> from, to |-> to, about |-> about]
Copied(text, st, next) == [st EXCEPT !.pos = next, !.out = @ \o SubSeq(text, st.pos, next - 1)]
\* The marker stays as it is.
Kept(text, st, marker, id) ==
  [Copied(text, st, marker.next) EXCEPT !.diagnostics = Append(@, Report(id, marker.from, marker.next, marker.name))]
Expanded(st, marker, value) == [st EXCEPT !.pos = marker.next, !.out = @ \o value]

\* Is the character at i of a literal that opens at `open` escaped: does an odd number
\* of backslashes stand before it.
Escaped(text, open, i) == (i - 1 - Max({k \in open..i - 1 : text[k] /= "\\"})) % 2 = 1

\* copy_string_literal: up to the quote that is not escaped, or to the end.  The first
\* marker inside is reported, once the literal is closed.
copy_string_literal(text, st) ==
  LET open == st.pos
      close == FirstOr({k \in open + 1..Len(text) : text[k] = Quote /\ ~Escaped(text, open, k)}, 0)
      next == IF close = 0 THEN Len(text) + 1 ELSE close + 1
      markers == {k \in open + 1..next - 1 : ~Escaped(text, open, k) /\ (parse_brace_name(text, k).ok \/ parse_const_name(text, k).ok)}
      first == Min(markers)
      marker == IF parse_brace_name(text, first).ok THEN parse_brace_name(text, first) ELSE parse_const_name(text, first)
      done == Copied(text, st, next)
  IN  IF close = 0 \/ markers = {} THEN done
      ELSE [done EXCEPT !.diagnostics = Append(@, Report("P3030", first, next, marker.name))]

\* copy_line_comment: up to the end of the line.
copy_line_comment(text, st) == Copied(text, st, FirstOr({k \in st.pos..Len(text) : text[k] = "\n"}, Len(text) + 1))

\* What the environment returns to the n-th read of a name.
Env(env, name, n) == IF name \in DOMAIN env THEN env[name][Min({n, Len(env[name])})] ELSE <<>>
Put(f, k, v) == [x \in DOMAIN f \cup {k} |-> IF x = k THEN v ELSE f[x]]

\* The value of a name, from the cache when it was read before.
read_env(st, env, name) ==
  IF name \in DOMAIN st.env_cache THEN st
  ELSE [st EXCEPT !.env_cache = Put(@, name, Env(env, name, Len(SelectSeq(st.reads, LAMBDA x : x = name)) + 1)), !.reads = Append(@, name)]

\* try_expand_env: a name that is not allowed is never read.
try_expand_env(text, st, marker, config, env) ==
  LET read == read_env(st, env, marker.name)
      value == read.env_cache[marker.name]
  IN  IF marker.name \notin Range(config.allow_env) THEN Kept(text, st, marker, "P3010")
      ELSE IF value = <<>> THEN Kept(text, read, marker, "P3010") ELSE Expanded(read, marker, value[1])

try_expand_const(text, st, marker, config) ==
  IF marker.name \in DOMAIN config.constants THEN Expanded(st, marker, config.constants[marker.name])
  ELSE Kept(text, st, marker, "P3020")

\* preprocess: a literal, a comment, a marker or one character after the other.
RECURSIVE scan(_, _, _, _)
scan(text, st, config, env) ==
  IF st.pos > Len(text) THEN st
  ELSE LET brace == parse_brace_name(text, st.pos)
           const == parse_const_name(text, st.pos)
           after == CASE text[st.pos] = Quote -> copy_string_literal(text, st)
                      [] starts_with_at(text, st.pos, <<"/", "/">>) -> copy_line_comment(text, st)
                      [] brace.ok -> try_expand_env(text, st, brace, config, env)
                      [] const.ok -> try_expand_const(text, st, const, config)
                      [] OTHER -> Copied(text, st, st.pos + 1)
       IN  scan(text, after, config, env)
preprocess(text, config, env) == scan(text, Start, config, env)

----------------------------------------------------------------------------
\* Only names that are allowed are read, each once, so that a marker has one value in a
\* text whatever happens to the environment meanwhile.  Putting the markers back where
\* their values stand gives the text: nothing else was changed (values here are words
\* that no text contains).  Each marker that stays outside literals and comments is
\* reported where it is, and nothing else is.
ExpansionIsExact(text, config, env) ==
  LET done == preprocess(text, config, env)
      steady == [n \in DOMAIN env |-> <<env[n][1]>>]
      Source(piece) ==
        LET names == {n \in Range(config.allow_env) \cap DOMAIN env : env[n][1] = <<<<piece>>>>}
            consts == {n \in DOMAIN config.constants : config.constants[n] = <<piece>>}
        IN  IF names /= {} THEN <<"$", "{">> \o (CHOOSE n \in names : TRUE) \o <<"}">>
            ELSE IF consts /= {} THEN Orison \o (CHOOSE n \in consts : TRUE) ELSE <<piece>>
      At(d) == IF d.id = "P3010" THEN parse_brace_name(text, d.from)
               ELSE IF parse_const_name(text, d.from).ok THEN parse_const_name(text, d.from) ELSE parse_brace_name(text, d.from)
  IN  /\ Range(done.reads) \subseteq Range(config.allow_env)
      /\ Cardinality(Range(done.reads)) = Len(done.reads)
      /\ done.out = preprocess(text, config, steady).out
      /\ FlattenSeq([i \in DOMAIN done.out |-> Source(done.out[i])]) = text
      /\ \A d \in Range(done.diagnostics) : At(d).ok /\ At(d).name = d.about
      /\ \A i \in DOMAIN done.diagnostics : i > 1 => done.diagnostics[i - 1].to <= done.diagnostics[i].from

\* A literal and a comment stand for themselves whatever they hold: text before the first
\* of them and text after it come out as if they were alone (a name that follows `@orison/`
\* holds slashes too, so what stands before has no marker of a constant).
LiteralsAreKept(text, config, env) ==
  LET Out(t) == preprocess(t, config, env).out
      Plain(t) == \A i \in DOMAIN t : t[i] \notin {Quote, "/", "@"}
      Cut(i, j) == Out(text) = Out(SubSeq(text, 1, i - 1)) \o SubSeq(text, i, j) \o Out(SubSeq(text, j + 1, Len(text)))
  IN  \A i \in DOMAIN text : Plain(SubSeq(text, 1, i - 1)) =>
        /\ \A j \in i + 1..Len(text) :
             text[i] = Quote /\ text[j] = Quote /\ Range(SubSeq(text, i + 1, j - 1)) \cap {Quote, "\\"} = {} => Cut(i, j)
        /\ \A j \in i..Len(text) :
             starts_with_at(text, i, <<"/", "/">>) /\ text[j] = "\n" /\ "\n" \notin Range(SubSeq(text, i, j - 1)) => Cut(i, j)
=============================================================================
