----------------------------- MODULE PatchApply -----------------------------
(***************************************************************************)
(* Patch IR: crates/ori-compiler/src/patch.rs (`ori patch check`) and      *)
(* crates/ori-compiler/src/patch_apply.rs (`ori patch apply`), on one      *)
(* source file.                                                            *)
(*                                                                         *)
(* A patch is a list of operations on nodes of the file. The model takes   *)
(* any operation next, so every patch of up to MaxOps operations is        *)
(* explored; check and apply read the same patch. A source line is         *)
(* abstracted to the identifier it mentions and whether that is quoted; a  *)
(* blank line mentions nothing. A node is the line of the unpatched file   *)
(* it starts on. The text is a list of lines and whether it ends in a      *)
(* newline, and is split anew for every operation, as the code does.       *)
(***************************************************************************)
EXTENDS Integers, Sequences, FiniteSets, SequencesExt

CONSTANTS
  Names,        \* what a line may mention; "" is nothing, a blank line
  Source,       \* the lines of the file
  Nodes,        \* the lines a node starts on
  Header,       \* those of the module declaration and the imports
  FinalNewline, \* whether the file may or may not end in a newline
  Identifiers,  \* what rename_symbol may be given; "" is the empty string
  HeaderErrors, \* the sets of errors check may find in schema and intent
  Heights,      \* the numbers of lines of payloads; 0 is an empty payload
  MaxOps        \* bound on the operations of a patch

Line == [name : Names, quoted : BOOLEAN]

ASSUME PatchAssumption ==
  /\ Source \in Seq(Line)
  /\ Header \subseteq Nodes /\ Nodes \subseteq DOMAIN Source
  /\ FinalNewline \subseteq BOOLEAN /\ Identifiers \subseteq Names
  /\ {"", "new"} \subseteq Names
  /\ HeaderErrors \subseteq SUBSET {"P0001", "P0004"}
  /\ Heights \subseteq Nat /\ MaxOps \in Nat

VARIABLES
  lines, newline,   \* the text
  attempted, applied,   \* operations_attempted, operations_applied
  codes,            \* the ids of the diagnostics of apply, all of them errors
  check_codes,      \* the ids of the errors of check
  report,           \* what apply_patch returns
  wanted,           \* history: the text the patch means, each line with the
                    \* line of the file it is
  lowest,           \* history: the line the latest edit was aimed at
  upward,           \* history: every edit was aimed above the one before it
  touched, distinct, \* history: the lines aimed at, and that none was twice
  missed            \* history: an insertion was to go below a line that is gone

text == <<lines, newline>>
history == <<wanted, lowest, upward, touched, distinct, missed>>
vars == <<text, attempted, applied, codes, check_codes, report, history>>

Stale == 0           \* an id that names no node
Absent == -1         \* the field is missing
Target == Nodes \cup {Stale, Absent}
Blank == [name |-> "", quoted |-> FALSE]
Fresh == [name |-> "new", quoted |-> FALSE]
NoReport == [applied |-> FALSE, after |-> <<>>]

\* The lines of a payload once its trailing newlines are trimmed.
Payload(height) == IF height = 0 THEN <<Blank>> ELSE [i \in 1..height |-> Fresh]
----------------------------------------------------------------------------
(***************************************************************************)
(* The line helpers of patch_apply.rs. Each splits the text into lines,    *)
(* edits the list and joins it again.                                      *)
(***************************************************************************)

\* What the next split makes of the joined lines. Without a final newline a
\* last line that is empty vanishes, and the separator before it becomes the
\* final newline.
rejoin(ls, ends_with_newline) ==
  CASE ends_with_newline ->
         [lines |-> IF ls = <<>> THEN <<Blank>> ELSE ls, newline |-> TRUE]
    [] ~ends_with_newline /\ Len(ls) > 1 /\ Last(ls) = Blank ->
         [lines |-> Front(ls), newline |-> TRUE]
    [] OTHER ->
         [lines |-> IF ls = <<Blank>> THEN <<>> ELSE ls, newline |-> FALSE]

\* ls with n of its lines after the i-th replaced by the payload.
Splice(ls, i, n, payload) ==
  SubSeq(ls, 1, i) \o payload \o SubSeq(ls, i + n + 1, Len(ls))

\* Mutant: the line number is off by one.
insert_index_mutant(ls, line, position) ==
  LET idx == IF position = "before" THEN line - 2 ELSE line - 1
  IN  IF idx < 0 THEN 0 ELSE IF idx > Len(ls) THEN Len(ls) ELSE idx

\* How many lines stay above the inserted one.
insert_index(ls, line, position) ==
  LET idx == IF position = "before" THEN line - 1 ELSE line
  IN  IF idx > Len(ls) THEN Len(ls) ELSE idx

insert_line(line, position, payload) ==
  Splice(lines, insert_index(lines, line, position), 0, payload)

replace_line(line, payload) ==
  IF line <= Len(lines) THEN Splice(lines, line - 1, 1, payload)
                        ELSE lines \o payload

delete_line(line) ==
  IF line <= Len(lines) THEN Splice(lines, line - 1, 1, <<>>) ELSE lines

\* rename_identifier and flush_ident: whole identifiers outside of strings.
Renamed(ls, from, to) ==
  [i \in DOMAIN ls |-> IF ls[i].name = from /\ ~ls[i].quoted
                         THEN [ls[i] EXCEPT !.name = to] ELSE ls[i]]

rename_identifier(from, to) == Renamed(lines, from, to)

\* cst.find, then the symbols of the AST, of the file as it was: 0 if neither
\* knows the id.
resolve_line(id) == IF id \in Nodes THEN id ELSE 0

\* resolve_position: an anchor "before:<id>" or "after:<id>" that resolves
\* replaces the target; one that does not leaves a directive that insert_line
\* takes for "after".
resolve_position(position, anchor, default_line) ==
  CASE anchor = Absent -> [position |-> position, line |-> default_line]
    [] resolve_line(anchor) /= 0 -> [position |-> position, line |-> resolve_line(anchor)]
    [] OTHER -> [position |-> "after", line |-> default_line]

\* The line add_import inserts after: the last line of the header, or 1.
import_line == CHOOSE l \in Header \cup {1} : \A k \in Header : k <= l
----------------------------------------------------------------------------
(***************************************************************************)
(* Reference, not in the code: the edits made to the nodes themselves. A   *)
(* line of the wanted text knows the line of the unpatched file it is, and *)
(* an edit looks its node up there; 0 is a line the patch added.           *)
(***************************************************************************)
Added(payload) == [i \in DOMAIN payload |-> [node |-> 0, line |-> payload[i]]]
Home(line) == {i \in DOMAIN wanted : wanted[i].node = line}

\* n lines from the one `up` lines above the end of the node's line on become the
\* payload. A node that is gone takes no edits.
AtNode(line, up, n, payload) ==
  IF Home(line) = {} THEN wanted
  ELSE Splice(wanted, (CHOOSE i \in Home(line) : TRUE) - up, n, Added(payload))

Put(line, position, payload) ==
  AtNode(line, IF position = "before" THEN 1 ELSE 0, 0, payload)
Replaced(line, payload) == AtNode(line, 1, 1, payload)
WantedLines == [i \in DOMAIN wanted |-> wanted[i].line]
WantedNames(from, to) ==
  LET names == Renamed(WantedLines, from, to)
  IN  [i \in DOMAIN wanted |-> [wanted[i] EXCEPT !.line = names[i]]]
----------------------------------------------------------------------------
(***************************************************************************)
(* patch.rs: validate_operation and the kinds and fields it knows.         *)
(***************************************************************************)
KNOWN_OPERATIONS ==
  {"replace_node", "insert_node", "delete_node", "rename_symbol", "add_import",
   "remove_import", "change_signature", "insert_match_arm", "add_field",
   "remove_field", "add_protocol_impl", "update_route", "update_view",
   "add_test"}

\* `missing` is whether one of required_fields(op) is not there.
validate_operation(op, missing) ==
  check_codes' = check_codes \cup
    (CASE op \notin KNOWN_OPERATIONS -> {"P1002"}
       [] op \in KNOWN_OPERATIONS /\ missing -> {"P1003"}
       [] OTHER -> {})

\* finish: nothing that check found is an error.
check_valid == check_codes = {}
----------------------------------------------------------------------------
(***************************************************************************)
(* apply_patch.                                                            *)
(***************************************************************************)
\* The lines are what a split makes of some text.
Init ==
  /\ lines = Source /\ newline \in FinalNewline
  /\ rejoin(lines, newline) = [lines |-> lines, newline |-> newline]
  /\ attempted = 0 /\ applied = 0 /\ codes = {}
  /\ check_codes \in HeaderErrors
  /\ report = NoReport
  /\ wanted = [i \in DOMAIN Source |-> [node |-> i, line |-> Source[i]]]
  /\ lowest = Len(Source) + 1 /\ upward = TRUE
  /\ touched = {} /\ distinct = TRUE /\ missed = FALSE

\* The loop takes up the next operation.
Attempt ==
  /\ report = NoReport /\ attempted < MaxOps
  /\ attempted' = attempted + 1
  /\ UNCHANGED report

\* It changes the text into `edited` ...
Edit(edited, new_wanted) ==
  LET new == rejoin(edited, newline)
  IN  /\ Attempt
      /\ lines' = new.lines /\ newline' = new.newline
      /\ applied' = applied + 1 /\ codes' = codes
      /\ wanted' = new_wanted

\* ... at a line ...
Aim(line) ==
  /\ lowest' = line /\ upward' = (upward /\ line < lowest)
  /\ touched' = touched \cup {line} /\ distinct' = (distinct /\ line \notin touched)

\* ... by an insertion, which is clamped to the end of the text if the line it
\* goes below is not there any more ...
Insert(line, position, payload) ==
  /\ Edit(insert_line(line, position, payload), Put(line, position, payload))
  /\ Aim(line)
  /\ missed' = (missed \/ (position = "after" /\ line > Len(lines)))

\* ... or by putting a payload in its place, ...
Rewrite(line, edited, payload) ==
  /\ Edit(edited, Replaced(line, payload))
  /\ Aim(line)
  /\ UNCHANGED missed

\* ... or leaves it alone with a diagnostic.
Refuse(code) ==
  /\ Attempt
  /\ codes' = codes \cup {code}
  /\ UNCHANGED <<text, applied, history>>

\* insert_node. Check wants the position, apply takes "after" by default.
insert_node(target, position, anchor, height) ==
  LET where == IF position = "absent" THEN "after" ELSE position
      pos   == resolve_position(where, anchor, resolve_line(target))
  IN  /\ position = "absent" => anchor = Absent
      /\ validate_operation("insert_node", target = Absent \/ position = "absent")
      /\ IF resolve_line(target) = 0
           THEN Refuse("P1010")
           ELSE Insert(pos.line, pos.position, Payload(height))

\* insert_after, which check does not know.
insert_after(target, height) ==
  /\ validate_operation("insert_after", FALSE)
  /\ IF resolve_line(target) = 0
       THEN Refuse("P1010")
       ELSE Insert(target, "after", Payload(height))

\* replace_node, and the kinds handled like it that also need a text.
replace_node(op, target, height, text_given) ==
  /\ ~text_given => height = 0
  /\ validate_operation(op, \/ target = Absent
                            \/ op /= "replace_node" /\ ~text_given)
  /\ IF resolve_line(target) = 0
       THEN Refuse("P1010")
       ELSE Rewrite(target, replace_line(target, Payload(height)), Payload(height))

delete_node(target) ==
  /\ validate_operation("delete_node", target = Absent)
  /\ IF resolve_line(target) = 0
       THEN Refuse("P1010")
       ELSE Rewrite(target, delete_line(target), <<>>)

\* add_import: without a text it inserts a blank line.
add_import(height, text_given) ==
  /\ ~text_given => height = 0
  /\ validate_operation("add_import", ~text_given)
  /\ Insert(import_line, "after", Payload(height))

\* rename_symbol: a field that is missing is an empty string to apply.
rename_symbol(from, to, given) ==
  /\ ~given => from = "" \/ to = ""
  /\ validate_operation("rename_symbol", ~given)
  /\ IF from = "" \/ to = ""
       THEN Refuse("P1003")
       ELSE /\ Edit(rename_identifier(from, to), WantedNames(from, to))
            /\ UNCHANGED <<lowest, upward, touched, distinct, missed>>

\* insert_match_arm and add_arm; pattern and body have defaults.
insert_match_arm(op, target, given) ==
  /\ validate_operation(op, target = Absent \/ ~given)
  /\ IF resolve_line(target) = 0
       THEN Refuse("P1010")
       ELSE Insert(target, "after", Payload(1))

\* The kinds that apply does not support, known to check or not.
unsupported(op, missing) ==
  /\ validate_operation(op, missing)
  /\ Refuse("P1002")

\* An operation that is no object, or has no kind: both say so.
malformed(code) ==
  /\ check_codes' = check_codes \cup {code}
  /\ Refuse(code)

\* Mutant: a stale target is fatal like the others.
fatal_codes_mutant == {"P1000", "P1001", "P1002", "P1003", "P1010"}

\* The diagnostics that abort the whole patch. P1010 skips one operation.
fatal_codes == {"P1000", "P1001", "P1002", "P1003"}

\* A document with no list of operations in it: invalid JSON, no object, no
\* operations, or operations that are no list, which apply does not tell apart
\* from none.
bad_document(code) ==
  /\ report = NoReport /\ attempted = 0
  /\ check_codes' = (IF code \in {"P0000", "P0003"} THEN {} ELSE check_codes) \cup {code}
  /\ codes' = IF code = "P0005" THEN {"P0002"} ELSE {code}
  /\ report' = [applied |-> FALSE, after |-> <<>>, made |-> TRUE]
  /\ UNCHANGED <<text, attempted, applied, history>>

\* The end of apply_patch. A list without operations passes apply, not check.
\* The command prints the report and writes no file.
finish ==
  /\ report = NoReport
  /\ report' = [applied |-> codes \cap fatal_codes = {} /\ applied > 0,
                after |-> IF codes \cap fatal_codes = {} /\ applied > 0
                            THEN lines ELSE <<>>,
                made |-> TRUE]
  /\ check_codes' = check_codes \cup (IF attempted = 0 THEN {"P0002"} ELSE {})
  /\ UNCHANGED <<text, attempted, applied, codes, history>>

Next ==
  \/ \E t \in Target, a \in Target, h \in Heights :
       \E p \in {"before", "after", "absent"} : insert_node(t, p, a, h)
  \/ \E t \in Target, h \in Heights : insert_after(t, h)
  \/ \E op \in {"replace_node", "change_signature"}, t \in Target, h \in Heights :
       \E given \in BOOLEAN : replace_node(op, t, h, given)
  \/ \E t \in Target : delete_node(t)
  \/ \E h \in Heights, given \in BOOLEAN : add_import(h, given)
  \/ \E from, to \in Identifiers, given \in BOOLEAN : rename_symbol(from, to, given)
  \/ \E op \in {"insert_match_arm", "add_arm"}, t \in Target, given \in BOOLEAN :
       insert_match_arm(op, t, given)
  \/ \E op \in {"add_test", "bogus"}, missing \in BOOLEAN : unsupported(op, missing)
  \/ \E code \in {"P1000", "P1001"} : malformed(code)
  \/ \E code \in {"P0000", "P0002", "P0003", "P0005"} : bad_document(code)
  \/ finish

Spec == Init /\ [][Next]_vars
----------------------------------------------------------------------------
(***************************************************************************)
(* Properties.                                                             *)
(***************************************************************************)

\* The texts differ at most in blank lines at their end.
LineAt(ls, i) == IF i \in DOMAIN ls THEN ls[i] ELSE Blank
SameText(ls, ks) == \A i \in DOMAIN ls \cup DOMAIN ks : LineAt(ls, i) = LineAt(ks, i)

\* The text, the counters and the diagnostics have the shape of the report.
TypeOK ==
  /\ lines \in Seq(Line) /\ newline \in BOOLEAN
  /\ attempted \in 0..MaxOps /\ applied \in 0..attempted
  /\ codes \subseteq {"P0000", "P0002", "P0003"} \cup fatal_codes \cup {"P1010"}
  /\ check_codes \subseteq {"P0000", "P0001", "P0002", "P0003", "P0004", "P0005"}
                              \cup fatal_codes

\* Line numbers are resolved once, in the file as it was, and used in the text
\* as it is: a patch whose edits go strictly upwards through the file does
\* exactly what it would do to the nodes themselves, whatever the mix of
\* insertions, replacements by several lines, deletions and renames. A blank line
\* is a node too: an edit that leaves it last in a file without a final newline
\* lets the next split take it for that newline, and what is then to go below it
\* lands at its place (`missed`).
BottomUpIsExact == upward /\ ~missed => SameText(lines, WantedLines)

\* No sequence of line edits, each of which splits and joins the text, takes
\* away the newline at the end of the file.
NewlineIsKept == [][newline => newline']_newline

\* A patch whose only failures are stale targets (P1010) is applied in part: the
\* text after the operations that did apply, the skipped ones leaving no trace in
\* it, is returned. An operation that is not applied is reported.
PartialApply ==
  /\ report /= NoReport /\ codes \subseteq {"P1010"} /\ applied > 0
       => /\ report.applied /\ report.after = lines
          /\ upward /\ ~missed => SameText(report.after, WantedLines)
  /\ codes = {} => applied = attempted

\* cst.rs: structural patches "target nodes by identity rather than by
\* line/col". Aimed at different nodes, edits end up at those nodes.
TargetsByIdentity == distinct => SameText(lines, WantedLines)

\* patch_apply.rs: "a uniform contract whether validating or applying". What
\* check accepts, apply does not abort.
UniformContract == check_valid => codes \cap fatal_codes = {}
============================================================================
