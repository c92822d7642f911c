--------------------------- MODULE PackageManifest ---------------------------
(***************************************************************************)
(* crates/ori-pkg/src/manifest.rs, from the lines of a document to the     *)
(* manifest. A line is [kind, name, value]: a header opens the section     *)
(* `name`, an entry gives the key `name` a value, as the reader finds it. A *)
(* value is [type, blank, text, items]: a string that is blank or has a    *)
(* text, or an array of items; the text of a version or a requirement is   *)
(* one of SemVer's.                                                        *)
(***************************************************************************)
EXTENDS SemVer

LOCAL INSTANCE SequencesExt
LOCAL INSTANCE TLC

(***************************************************************************)
(* The reader, crates/ori-pkg/src/toml_lite.rs, one line at a time. A line is *)
(* a sequence of characters; a character is a member of Chars: the ones the *)
(* parser tells apart stand for themselves, "a" is any bare-key character  *)
(* and "." any other one.                                                  *)
(***************************************************************************)
Chars == {"\"", "\\", "#", "[", "]", "=", ",", " ", "\t", "a", "."}
Blank(c) == c \in {" ", "\t"}
trim_start(s) ==
  LET used == {i \in DOMAIN s : ~Blank(s[i])}
  IN  IF used = {} THEN <<>> ELSE SubSeq(s, CHOOSE i \in used : \A j \in used : i <= j, Len(s))
trim(s) == Reverse(trim_start(Reverse(trim_start(s))))

RECURSIVE scan_comment(_, _, _, _)

\* Mutant: a backslash in a string hides nothing.
scan_comment_mutant(line, i, in_string, escape) ==
  CASE i > Len(line) -> Len(line)
    [] i <= Len(line) /\ line[i] = "\"" -> scan_comment(line, i + 1, ~in_string, FALSE)
    [] i <= Len(line) /\ line[i] = "#" /\ ~in_string -> i - 1
    [] OTHER -> scan_comment(line, i + 1, in_string, FALSE)

\* The length of the line up to a `#` outside a string.
scan_comment(line, i, in_string, escape) ==
  CASE i > Len(line) -> Len(line)
    [] i <= Len(line) /\ in_string /\ escape -> scan_comment(line, i + 1, TRUE, FALSE)
    [] i <= Len(line) /\ in_string /\ ~escape ->
         scan_comment(line, i + 1, line[i] /= "\"", line[i] = "\\")
    [] i <= Len(line) /\ ~in_string /\ line[i] = "#" -> i - 1
    [] OTHER -> scan_comment(line, i + 1, line[i] = "\"", FALSE)

strip_inline_comment(line) == SubSeq(line, 1, scan_comment(line, 1, FALSE, FALSE))

RECURSIVE parse_string(_, _, _), parse_string_array(_, _, _)

\* From position i, after the opening quote: [error, value, next].
parse_string(s, i, out) ==
  CASE i > Len(s) -> [error |-> "UnterminatedString", value |-> out, next |-> i]
    [] i <= Len(s) /\ s[i] = "\"" -> [error |-> "", value |-> out, next |-> i + 1]
    [] i <= Len(s) /\ s[i] = "\\" ->
         IF i = Len(s) THEN [error |-> "UnterminatedString", value |-> out, next |-> i]
         ELSE IF s[i + 1] \in {"\\", "\""} THEN parse_string(s, i + 2, Append(out, s[i + 1]))
         ELSE [error |-> "UnknownEscape", value |-> out, next |-> i]
    [] OTHER -> parse_string(s, i + 1, Append(out, s[i]))

skip(s, i) ==
  LET used == {j \in i..Len(s) : ~Blank(s[j])}
  IN  IF used = {} THEN Len(s) + 1 ELSE CHOOSE j \in used : \A k \in used : j <= k

\* From position i, after the opening bracket; a comma may precede the closing one.
parse_string_array(s, i, items) ==
  LET at == skip(s, i)
      str == parse_string(s, at + 1, <<>>)
      sep == skip(s, str.next)
  IN  CASE at > Len(s) -> [error |-> "Unexpected", value |-> items]
        [] at <= Len(s) /\ s[at] = "]" ->
             [error |-> IF skip(s, at + 1) > Len(s) THEN "" ELSE "Unexpected", value |-> items]
        [] at <= Len(s) /\ s[at] = "\"" ->
             IF str.error /= "" THEN [error |-> str.error, value |-> items]
             ELSE IF sep > Len(s) \/ s[sep] \notin {",", "]"}
               THEN [error |-> "Unexpected", value |-> items]
             ELSE parse_string_array(s, IF s[sep] = "," THEN sep + 1 ELSE sep,
                                     Append(items, str.value))
        [] OTHER -> [error |-> "Unexpected", value |-> items]

\* [error, kind, value]; the text is trimmed at its start.
parse_value(text) ==
  LET s == trim(text)
      str == parse_string(s, 2, <<>>)
      arr == parse_string_array(s, 2, <<>>)
  IN  CASE s /= <<>> /\ s[1] = "\"" ->
             [error |-> IF str.error /= "" THEN str.error
                        ELSE IF str.next <= Len(s) THEN "Unexpected" ELSE "",
              kind |-> "string", value |-> str.value]
        [] s /= <<>> /\ s[1] = "[" -> [error |-> arr.error, kind |-> "array", value |-> arr.value]
        [] OTHER -> [error |-> "UnsupportedValue", kind |-> "string", value |-> <<>>]

\* read_key: the error of the key that starts a trimmed line, and its end.
key_end(s) ==
  LET ends == {i \in DOMAIN s : s[i] /= "a"}
  IN  IF ends = {} THEN Len(s) + 1 ELSE CHOOSE i \in ends : \A j \in ends : i <= j
read_key_error(s) ==
  LET end == key_end(s)
  IN  CASE end <= Len(s) /\ s[end] = "\t" -> "TabInKey"
        [] end <= Len(s) /\ s[end] \notin {" ", "=", "\t"} -> "Unexpected"
        [] (end > Len(s) \/ s[end] \in {" ", "="}) /\ end = 1 -> "Unexpected"
        [] OTHER -> ""

\* A header is dotted segments of key characters, each with blanks around it.
is_valid_header(h) ==
  LET dots == {i \in DOMAIN h : h[i] = "."} \cup {0, Len(h) + 1}
  IN  \A i, j \in dots : (i < j /\ ~\E k \in dots : i < k /\ k < j) =>
        LET segment == trim(SubSeq(h, i + 1, j - 1))
        IN  segment /= <<>> /\ \A k \in DOMAIN segment : segment[k] = "a"

\* One line of parse_manifest, before the key is looked up in its table:
\* [kind, error, type, value] with kind blank, header or entry.
parse_line(raw) ==
  LET text == trim_start(strip_inline_comment(raw))
      line == trim(text)
      header == trim(SubSeq(line, 2, Len(line) - 1))
      rest == trim_start(SubSeq(text, key_end(text), Len(text)))
      value == parse_value(trim_start(Tail(rest)))
      Entry(e, k, v) == [kind |-> "entry", error |-> e, type |-> k, value |-> v]
  IN  CASE line = <<>> -> [kind |-> "blank", error |-> "", type |-> "", value |-> <<>>]
        [] line /= <<>> /\ line[1] = "[" ->
             [kind |-> "header", type |-> "", value |-> header,
              error |-> IF line[Len(line)] /= "]" THEN "UnterminatedHeader"
                        ELSE IF header = <<>> \/ ~is_valid_header(header) THEN "InvalidHeader"
                        ELSE ""]
        [] OTHER ->
             IF read_key_error(text) /= "" THEN Entry(read_key_error(text), "string", <<>>)
             ELSE IF rest = <<>> \/ rest[1] /= "=" THEN Entry("ExpectedEquals", "string", <<>>)
             ELSE Entry(value.error, value.kind, value.value)
----------------------------------------------------------------------------
\* How a writer puts a string on a line: quoted, with the two escapes.
Quoted(content) ==
  <<"\"">> \o FlattenSeq([i \in DOMAIN content |->
                            IF content[i] \in {"\"", "\\"} THEN <<"\\", content[i]>>
                            ELSE <<content[i]>>]) \o <<"\"">>

\* What is quoted on a line is read back as it was, whatever characters it has and
\* whatever comment follows it, alone and in an array with a trailing comma: the
\* comment stripper and the string parser, two separate scanners, agree on where
\* the string ends.
QuotedIsReadBack(content, comment) ==
  LET key == <<"a", " ", "=", " ">>
      tail == IF comment = <<>> THEN <<>> ELSE <<" ", "#">> \o comment
  IN  /\ parse_line(key \o Quoted(content) \o tail)
           = [kind |-> "entry", error |-> "", type |-> "string", value |-> content]
      /\ parse_line(key \o <<"[">> \o Quoted(content) \o <<",", " ">> \o Quoted(content)
                      \o <<",", "]">> \o tail)
           = [kind |-> "entry", error |-> "", type |-> "array", value |-> <<content, content>>]

\* No character is lost: whatever line the parser accepts as a string is the quoted
\* form of what it returns, up to blanks and a comment.
AcceptedIsQuoted(rest) ==
  LET line == parse_line(<<"a", "=">> \o rest)
  IN  line.kind = "entry" /\ line.type = "string" /\ line.error = "" =>
        \E n \in 0..Len(rest) :
          /\ trim(SubSeq(rest, 1, n)) = Quoted(line.value)
          /\ n = Len(rest) \/ rest[n + 1] = "#"
----------------------------------------------------------------------------
\* The sections and their keys, in the order of the sorted maps that hold them;
\* "other" stands for every name that is not known.
Sections == <<"", "capabilities", "dependencies", "dependencies.dep", "other",
              "package", "scripts">>
Keys(section) ==
  CASE section = "" -> <<"other", "schema">>
    [] section = "capabilities" -> <<"declared", "denied", "other">>
    [] section = "dependencies" -> <<"dep", "lib">>
    [] section = "dependencies.dep" -> <<"other", "path", "version">>
    [] section = "package" -> <<"description", "edition", "license", "name", "other", "version">>
    [] OTHER -> <<"other">>

Has(f, x) == x \in DOMAIN f

\* One line of toml_lite::parse_manifest. A section may be opened again; a key of
\* its table may be given once.
add_line(line, st) ==
  CASE st.error /= "" -> st
    [] st.error = "" /\ line.kind = "header" ->
         [st EXCEPT !.section = line.name, !.doc = @ @@ (line.name :> <<>>)]
    [] st.error = "" /\ line.kind = "entry" ->
         IF Has(st.doc[st.section], line.name) THEN [st EXCEPT !.error = "DuplicateKey"]
         ELSE [st EXCEPT !.doc[st.section] = @ @@ (line.name :> line.value)]

parse_document(lines) ==
  LET start == [error |-> "", section |-> "", doc |-> ("" :> <<>>)]
      read[n \in 0..Len(lines)] ==
        IF n = 0 THEN start ELSE add_line(lines[n], read[n - 1])
  IN  read[Len(lines)]

\* What one key of a section gets wrong: expect_string, expect_string_array, the
\* schema's value and the keys that are not known.
key_error(section, key, v) ==
  CASE section = "scripts" -> IF v.type = "string" THEN "" ELSE "WrongType"
    [] section = "dependencies" -> IF v.type = "string" THEN "" ELSE "InvalidDependency"
    [] section \notin {"scripts", "dependencies"} /\ key = "other" -> "UnknownKey"
    [] section = "capabilities" /\ key /= "other" -> IF v.type = "array" THEN "" ELSE "WrongType"
    [] section = "" /\ key /= "other" ->
         IF v.type /= "string" THEN "WrongType"
         ELSE IF v.text /= "ori.manifest.v1" THEN "UnsupportedSchema" ELSE ""
    [] OTHER -> IF v.type = "string" THEN "" ELSE "WrongType"

section_error(doc, section) ==
  CASE ~Has(doc, section) -> ""
    [] Has(doc, section) /\ section = "other" -> "UnknownSection"
    [] OTHER -> FirstError([i \in DOMAIN Keys(section) |->
                  LET key == Keys(section)[i]
                  IN  IF Has(doc[section], key)
                        THEN key_error(section, key, doc[section][key]) ELSE ""])

\* The core of a manifest's version are three runs of digits of any length, what
\* follows the first hyphen is any word; build metadata is refused.
validate_version(text) ==
  IF /\ Len(text.core) = 3
     /\ \A i \in 1..3 : text.core[i][1] \in {"num", "zeros", "huge"}
     /\ text.build = NoSuffix
     /\ \/ text.pre = NoSuffix
        \/ /\ text.pre /= << <<"bad", 0>> >>
           /\ \A i \in DOMAIN text.pre : text.pre[i] /= <<"bad", 1>>
    THEN "" ELSE "InvalidVersion"

validate_capabilities(items) ==
  IF \A i \in DOMAIN items : items[i] = "word" THEN "" ELSE "InvalidCapability"

\* The two forms of a dependency: a requirement, or a path with an optional one.
\* pin is the text of the requirement, NoPin for none.
NoPin == [op |-> "none"]
DepSpecs(doc) ==
  LET inline == IF Has(doc, "dependencies") THEN doc["dependencies"] ELSE <<>>
      table == IF Has(doc, "dependencies.dep") THEN doc["dependencies.dep"] ELSE <<>>
      Version(v) == [path |-> FALSE, blank |-> v.blank, pin |-> v.text]
      Path == [path |-> TRUE, blank |-> table["path"].blank,
               pin |-> IF Has(table, "version") THEN table["version"].text ELSE NoPin]
  IN  [n \in DOMAIN inline |-> Version(inline[n])]
        @@ IF Has(table, "path") THEN "dep" :> Path ELSE <<>>

merge_error(doc) ==
  IF Has(doc, "dependencies.dep")
       /\ (~Has(doc["dependencies.dep"], "path")
            \/ (Has(doc, "dependencies") /\ Has(doc["dependencies"], "dep")))
    THEN "InvalidDependency" ELSE ""

dep_error(spec) ==
  IF spec.blank \/ (spec.pin /= NoPin /\ constraint_error(spec.pin) /= "")
    THEN "InvalidDependency" ELSE ""

\* Manifest::parse: the first error of a document, in the order of the checks.
manifest_error(doc) ==
  LET Value(section, key) == doc[section][key]
      Missing(key) == ~Has(doc, "package") \/ ~Has(doc["package"], key)
      Caps(key) == IF Has(doc, "capabilities") /\ Has(doc["capabilities"], key)
                     THEN Value("capabilities", key).items ELSE <<>>
      sections == FirstError([i \in DOMAIN Sections |-> section_error(doc, Sections[i])])
      specs == DepSpecs(doc)
  IN  IF sections /= "" THEN sections
      ELSE IF merge_error(doc) /= "" THEN merge_error(doc)
      ELSE IF \E key \in {"name", "version", "edition"} : Missing(key) THEN "MissingKey"
      ELSE FirstError(
             <<IF Value("package", "name").blank THEN "EmptyField" ELSE "",
               validate_version(Value("package", "version").text),
               IF Value("package", "edition").blank THEN "EmptyField" ELSE "",
               validate_capabilities(Caps("declared") \o Caps("denied"))>>
             \o [i \in 1..2 |-> LET n == <<"dep", "lib">>[i]
                               IN  IF Has(specs, n) THEN dep_error(specs[n]) ELSE ""])

\* [error, version, deps] of a document, as the resolver gets it.
parse(lines) ==
  LET st == parse_document(lines)
      error == IF st.error /= "" THEN st.error ELSE manifest_error(st.doc)
  IN  IF error /= "" THEN [error |-> error]
      ELSE [error |-> "", version |-> st.doc["package"]["version"].text,
            deps |-> DepSpecs(st.doc)]
----------------------------------------------------------------------------
\* Moving a section of a manifest to another place changes nothing: the same
\* manifest is read, or it is refused in both places. A key given in two parts of
\* one section would otherwise depend on their order.
SectionsMayMove(before, block, after) ==
  LET here == parse(before \o block \o after)
      there == parse(before \o after \o block)
  IN  /\ here.error = "" <=> there.error = ""
      /\ here.error = "" => here = there

\* "callers never see syntactically-invalid `^foo` strings escape the manifest
\* layer": the requirements of an accepted manifest parse, so that the resolver
\* never compares a pin as a string for the pin's sake. The version of an accepted
\* manifest may still be none for the resolver, but only where it has leading
\* zeros, a number beyond u32 or an empty prerelease identifier.
AcceptedIsResolvable(lines) ==
  LET mf == parse(lines)
  IN  mf.error = "" =>
        /\ \A n \in DOMAIN mf.deps :
             mf.deps[n].pin /= NoPin => constraint_error(mf.deps[n].pin) = ""
        /\ version_error(mf.version) /= "" =>
             \/ \E i \in 1..3 : ~fits(mf.version.core[i])
             \/ \E i \in DOMAIN mf.version.pre : mf.version.pre[i][1] \in {"zeros", "bad"}
=============================================================================
