------------------------ MODULE ChangeTrackerProofs ------------------------
(***************************************************************************)
(* What an agent that follows the reports of `ori agent changed` knows,    *)
(* and what the search for circular imports finds, for any number of files *)
(* of any content.                                                         *)
(***************************************************************************)
EXTENDS WellFoundedInduction, ChangeTracker, TLAPS

\* The naturals have no infinite descent.
LEMMA LessIsWellFounded == IsWellFoundedOn({ss \in Nat \X Nat : ss[1] < ss[2]}, Nat)
BY NatLessThanWellFounded DEF OpToRel

\* Hence every set of naturals that is not empty has a least member.
LEMMA LeastNat ==
  ASSUME NEW T \in SUBSET Nat, T /= {}
  PROVE  \E m \in T : \A k \in T : m <= k
<1> DEFINE R == {ss \in Nat \X Nat : ss[1] < ss[2]}
<1>1. \A x, y \in Nat : y < x => <<y, x>> \in R
  OBVIOUS
<1>2. T \subseteq Nat /\ IsWellFoundedOn(R, Nat)
  BY LessIsWellFounded
<1> HIDE DEF R
<1>3. PICK x \in T : \A y \in T : ~(<<y, x>> \in R)
  BY <1>2, WFMin, Zenon
<1>4. \A y \in T : ~(y < x)
  BY <1>1, <1>3
<1> QED BY <1>4

\* Of several files one comes last.
LEMMA LastPath ==
  ASSUME NEW S \in SUBSET Paths, S /= {}
  PROVE  \E p \in S : \A q \in S : q <= p
<1>1. PICK last \in Paths : \A p \in Paths : p <= last
  BY PathsAssumption
<1>2. last \in Nat /\ \A p \in S : p \in Nat /\ p <= last
  BY <1>1, PathsAssumption
<1> DEFINE T == {last - p : p \in S}
<1>3. T \in SUBSET Nat /\ T /= {}
  <2>1. \A p \in S : last - p \in Nat
    BY <1>2
  <2> QED BY <2>1
<1>4. PICK m \in T : \A k \in T : m <= k
  BY <1>3, LeastNat
<1>5. PICK p \in S : m = last - p
  BY <1>4
<1>6. \A q \in S : last - p <= last - q
  BY <1>4, <1>5
<1>7. \A q \in S : q <= p
  BY <1>2, <1>6
<1> QED BY <1>7

\* The fingerprint of an id is that of a symbol the files have.
LEMMA FingerprintIsOfASymbol ==
  ASSUME NEW paths \in SUBSET Paths, NEW id \in DOMAIN combined_fingerprints(paths)
  PROVE  \E x \in Symbols(paths) :
            x[1] = id /\ x[2].shape = combined_fingerprints(paths)[id]
<1> DEFINE owners == {p \in paths : \E s \in files[p].symbols : Id(files[p], s) = id}
           o == CHOOSE p \in owners : \A q \in owners : q <= p
           sym == CHOOSE s \in files[o].symbols : Id(files[o], s) = id
<1>1. id \in {x[1] : x \in Symbols(paths)} /\ combined_fingerprints(paths)[id] = sym.shape
  BY DEF combined_fingerprints
<1>2. owners /= {}
  <2>1. PICK x \in Symbols(paths) : x[1] = id
    BY <1>1
  <2>2. PICK p \in paths : x \in {<<Id(files[p], s), s>> : s \in files[p].symbols}
    BY <2>1 DEF Symbols
  <2>3. PICK s \in files[p].symbols : x = <<Id(files[p], s), s>>
    BY <2>2
  <2>4. x[1] = Id(files[p], s)
    BY <2>3
  <2> QED BY <2>1, <2>4
<1>3. o \in owners
  <2>1. owners \in SUBSET Paths
    OBVIOUS
  <2>2. \E p \in owners : \A q \in owners : q <= p
    BY <1>2, <2>1, LastPath
  <2> QED BY <2>2
<1>4. o \in paths /\ sym \in files[o].symbols /\ Id(files[o], sym) = id
  BY <1>3
<1> HIDE DEF sym, o, owners
<1>5. <<id, sym>> \in Symbols(paths)
  BY <1>4 DEF Symbols
<1> QED BY <1>1, <1>5

\* One report applied to the table before it gives the table after it: what is
\* not mentioned has not changed, although every symbol is compared and of two
\* with one id only the last is in the table.
LEMMA ReportTellsAll ==
  ASSUME NEW paths \in SUBSET Paths, NEW prev, NEW edges
  PROVE  LET current == combined_fingerprints(paths)
             new == build_agent_changed_report(prev, paths, edges)
         IN  /\ (DOMAIN prev \cup new.added) \ new.removed = DOMAIN current
             /\ \A id \in DOMAIN current \ (new.added \cup new.modified) : prev[id] = current[id]
<1> DEFINE current == combined_fingerprints(paths)
           new == build_agent_changed_report(prev, paths, edges)
<1>1. /\ new.added = DOMAIN current \ DOMAIN prev /\ new.removed = DOMAIN prev \ DOMAIN current
      /\ new.modified = {x[1] : x \in {y \in Symbols(paths) :
                           y[1] \in DOMAIN prev /\ prev[y[1]] /= y[2].shape}}
  BY DEF build_agent_changed_report
<1>2. ASSUME NEW id \in DOMAIN current, id \notin new.added, id \notin new.modified
      PROVE  prev[id] = current[id]
  <2>1. PICK x \in Symbols(paths) : x[1] = id /\ x[2].shape = current[id]
    BY <1>2, FingerprintIsOfASymbol
  <2>2. id \in DOMAIN prev
    BY <1>1, <1>2
  <2> HIDE DEF current, new
  <2>3. prev[x[1]] = x[2].shape
    BY <1>1, <1>2, <2>1, <2>2
  <2> QED BY <2>1, <2>3
<1> HIDE DEF current, new
<1>3. (DOMAIN prev \cup new.added) \ new.removed = DOMAIN current
  BY <1>1
<1> QED BY <1>2, <1>3 DEF current, new

\* A command reads files of its directory.
RunningOK == running \in SUBSET Paths

LEMMA RunningIsSound == Spec => []RunningOK
<1>1. Init => RunningOK
  BY DEF Init, RunningOK
<1>2. RunningOK /\ [Next]_vars => RunningOK'
  <2> SUFFICES ASSUME RunningOK, [Next]_vars PROVE RunningOK'
    OBVIOUS
  <2>1. ASSUME NEW p \in Paths, NEW c, Edit(p, c) PROVE RunningOK'
    BY <2>1 DEF Edit, RunningOK
  <2>2. ASSUME NEW target \in {Paths} \cup {{p} : p \in Paths}, cmd_agent_changed(target)
        PROVE  RunningOK'
    BY <2>2 DEF cmd_agent_changed, collect_ori_files, RunningOK
  <2>3. CASE detect_cycles
    BY <2>3 DEF detect_cycles, RunningOK
  <2>4. ASSUME NEW baseline, NEW outcome, report_changed(baseline, outcome) PROVE RunningOK'
    BY <2>4 DEF report_changed, RunningOK
  <2>5. CASE Lose
    BY <2>5 DEF Lose, RunningOK
  <2>6. CASE UNCHANGED vars
    BY <2>6 DEF vars, RunningOK
  <2> QED BY <2>1, <2>2, <2>3, <2>4, <2>5, <2>6 DEF Next
<1> QED BY <1>1, <1>2, PTL DEF Spec

\* Only a whole file has entries.
ReplayInv ==
  /\ ReplayIsExact
  /\ condition \in {"missing", "torn", "whole"} /\ (condition /= "whole" => table = <<>>)

LEMMA ReportKeepsReplay ==
  ASSUME ReplayInv, RunningOK, NEW baseline \in Baselines,
         NEW outcome \in {"written", "torn", "kept"}, report_changed(baseline, outcome)
  PROVE  ReplayInv'
<1> DEFINE current == combined_fingerprints(running)
           new == build_agent_changed_report(baseline.map, running, resolve(running).graph)
           base == IF baseline.from = "prev" \/ baseline.noted THEN baseline.map ELSE replica
           known == [id \in (DOMAIN base \cup new.added) \ new.removed |->
                       IF id \in new.added \cup new.modified THEN current[id] ELSE base[id]]
<1>1. /\ persist(outcome, current)
      /\ outcome = "written" =>
           /\ replica' = known
           /\ misled' = (/\ baseline.from /= "prev" /\ ~baseline.noted
                         /\ misled \/ (silent(baseline) /\ replica /= <<>>))
      /\ outcome /= "written" => UNCHANGED agent
  BY DEF report_changed
<1>2. /\ (DOMAIN baseline.map \cup new.added) \ new.removed = DOMAIN current
      /\ \A id \in DOMAIN current \ (new.added \cup new.modified) : baseline.map[id] = current[id]
      /\ new.added = DOMAIN current \ DOMAIN baseline.map
      /\ new.removed = DOMAIN baseline.map \ DOMAIN current
  <2>1. running \in SUBSET Paths
    BY DEF RunningOK
  <2>2. /\ new.added = DOMAIN current \ DOMAIN baseline.map
        /\ new.removed = DOMAIN baseline.map \ DOMAIN current
    BY DEF build_agent_changed_report
  <2> QED BY <2>1, <2>2, ReportTellsAll
<1>3. current = [id \in DOMAIN current |-> current[id]]
  BY DEF combined_fingerprints
<1>4. DOMAIN <<>> = {}
  OBVIOUS
<1> HIDE DEF current, new
<1>5. CASE outcome = "torn"
  BY <1>1, <1>4, <1>5 DEF persist, ReplayInv, ReplayIsExact, agent
<1>6. CASE outcome = "kept"
  BY <1>1, <1>6 DEF persist, persisted, ReplayInv, ReplayIsExact, agent
<1>7. CASE outcome = "written"
  <2>1. condition' = "whole" /\ table' = current /\ replica' = known
    BY <1>1, <1>7 DEF persist, persist_fingerprints
  <2>2. ASSUME base = baseline.map PROVE known = current
    <3>1. known = [id \in DOMAIN current |->
                     IF id \in new.added \cup new.modified THEN current[id] ELSE baseline.map[id]]
      BY <1>2, <2>2
    <3>2. known = [id \in DOMAIN current |-> current[id]]
      BY <1>2, <3>1
    <3> QED BY <1>3, <3>2
  <2>3. CASE baseline.from = "prev" \/ baseline.noted
    BY <2>1, <2>2, <2>3 DEF ReplayInv, ReplayIsExact
  <2>4. CASE baseline.from /= "prev" /\ ~baseline.noted
    <3>1. /\ base = replica
          /\ \/ baseline.map = table /\ baseline.from = "table" /\ condition /= "torn"
             \/ baseline.map = <<>> /\ baseline.from = "unread"
      <4>0. base = replica
        BY <2>4, Zenon
      <4>1. CASE baseline = [from |-> "table", map |-> table, noted |-> condition = "torn"]
        <5>1. baseline.from = "table" /\ baseline.map = table
          BY <4>1
        <5>2. baseline.noted = (condition = "torn")
          BY <4>1, Zenon
        <5>3. condition /= "torn"
          BY <2>4, <5>2, Zenon
        <5> QED BY <4>0, <5>1, <5>3
      <4>2. CASE baseline = [from |-> "unread", map |-> <<>>, noted |-> FALSE]
        BY <2>4, <4>2
      <4>3. CASE baseline = [from |-> "prev", map |-> <<>>, noted |-> TRUE]
        BY <2>4, <4>3
      <4>4. ASSUME NEW kept \in Kept, baseline = [from |-> "prev", map |-> kept, noted |-> FALSE]
            PROVE  FALSE
        BY <2>4, <4>4
      <4> QED BY <4>1, <4>2, <4>3, <4>4 DEF Baselines
    <3>2. \A id \in DOMAIN baseline.map : id \in DOMAIN base /\ base[id] = baseline.map[id]
      BY <1>4, <3>1 DEF ReplayInv, ReplayIsExact
    <3> HIDE DEF base
    <3>3. \A id \in DOMAIN current : id \in DOMAIN known /\ known[id] = current[id]
      BY <1>2, <3>2
    <3>4. ASSUME ~misled' PROVE known = current
      <4>1. ~misled /\ (silent(baseline) => replica = <<>>)
        BY <1>1, <1>7, <2>4, <3>4
      <4>2. replica = baseline.map
        <5>1. CASE baseline.from = "unread"
          BY <3>1, <4>1, <5>1 DEF silent
        <5>2. CASE baseline.from = "table" /\ condition = "missing"
          BY <3>1, <4>1, <5>2 DEF silent, ReplayInv
        <5>3. CASE baseline.from = "table" /\ condition = "whole"
          BY <3>1, <4>1, <5>3 DEF ReplayInv, ReplayIsExact
        <5> QED BY <3>1, <5>1, <5>2, <5>3 DEF ReplayInv
      <4> QED BY <2>2, <3>1, <4>2
    <3> QED BY <2>1, <3>3, <3>4 DEF ReplayInv, ReplayIsExact
  <2> QED BY <2>3, <2>4
<1> QED BY <1>5, <1>6, <1>7

\* An agent that applies the reports one after the other knows what the table has,
\* whichever files it asked about, whatever was edited in between and whatever
\* became of the table.
THEOREM ReportsCanBeReplayed == Spec => []ReplayIsExact
<1>1. Init => ReplayInv
  <2>1. DOMAIN <<>> = {}
    OBVIOUS
  <2> QED BY <2>1 DEF Init, ReplayInv, ReplayIsExact
<1>2. ReplayInv /\ RunningOK /\ [Next]_vars => ReplayInv'
  <2> SUFFICES ASSUME ReplayInv, RunningOK, [Next]_vars PROVE ReplayInv'
    OBVIOUS
  <2>1. ASSUME UNCHANGED <<persisted, agent>> PROVE ReplayInv'
    BY <2>1 DEF persisted, agent, ReplayInv, ReplayIsExact
  <2>2. ASSUME NEW p \in Paths, NEW c, Edit(p, c) PROVE ReplayInv'
    BY <2>1, <2>2 DEF Edit
  <2>3. ASSUME NEW target, cmd_agent_changed(target) PROVE ReplayInv'
    BY <2>1, <2>3 DEF cmd_agent_changed
  <2>4. CASE detect_cycles
    BY <2>1, <2>4 DEF detect_cycles
  <2>5. CASE Lose
    <3>1. DOMAIN <<>> = {}
      OBVIOUS
    <3> QED BY <2>5, <3>1 DEF Lose, ReplayInv, ReplayIsExact
  <2>6. ASSUME NEW baseline \in Baselines, NEW outcome \in {"written", "torn", "kept"},
               report_changed(baseline, outcome)
        PROVE  ReplayInv'
    BY <2>6, ReportKeepsReplay
  <2>7. CASE UNCHANGED vars
    BY <2>1, <2>7 DEF vars
  <2> QED BY <2>2, <2>3, <2>4, <2>5, <2>6, <2>7 DEF Next
<1>3. ReplayInv => ReplayIsExact
  BY DEF ReplayInv
<1> QED BY <1>1, <1>2, <1>3, RunningIsSound, PTL DEF Spec
----------------------------------------------------------------------------
(***************************************************************************)
(* The search for circular imports. E is the graph, s the stack, l the     *)
(* neighbours that are left for each of its nodes, v the visited nodes and *)
(* c the cycles found.                                                     *)
(***************************************************************************)
Imports == [n \in Nodes |-> neighbours(n)]

\* The nodes dfs has returned from.
Done(s, v) == {n \in v : \A i \in 1..Len(s) : s[i] /= n}

\* The stack holds visited nodes, none twice, and what is left of each are neighbours.
Shape(E, s, l, v) ==
  /\ s \in Seq(DOMAIN E) /\ l \in Seq(SUBSET DOMAIN E) /\ Len(l) = Len(s) /\ v \in SUBSET DOMAIN E
  /\ \A i \in 1..Len(s) : s[i] \in v
  /\ \A i, j \in 1..Len(s) : s[i] = s[j] => i = j
  /\ \A i \in 1..Len(s) : l[i] \subseteq E[s[i]]

\* Each node but the first is imported by the one before it.
Chain(E, s) == \A i \in 1..(Len(s) - 1) : s[i + 1] \in E[s[i]]

\* A neighbour that was looked at is done, or dfs is in it.
Looked(E, s, l, v) ==
  \A i \in 1..Len(s) : \A n \in E[s[i]] \ l[i] : n \in Done(s, v) \/ (i < Len(s) /\ n = s[i + 1])

\* The nodes of D import nodes of D only.
Settled(E, D) == \A n \in D : E[n] \subseteq D

\* Among any nodes of D one imports none of them.
NoCircle(E, D) == \A T \in SUBSET D : T /= {} => \E m \in T : E[m] \cap T = {}

Walk(E, c) == c \in Seq(DOMAIN E) /\ Len(c) > 1 /\ c[Len(c)] = c[1] /\ Chain(E, c)

\* As long as no cycle was found, the nodes that are done contain none and import
\* done ones only: this is what makes it safe to skip a visited node.
Sound(E, s, l, v, c) ==
  /\ Shape(E, s, l, v) /\ Chain(E, s)
  /\ c = {} => Looked(E, s, l, v) /\ Settled(E, Done(s, v)) /\ NoCircle(E, Done(s, v))
  /\ \A w \in c : Walk(E, w)

SearchInv ==
  /\ Sound(Imports, stack, left, visited, cycles)
  /\ running = {} => stack = <<>> /\ left = <<>> /\ visited = {} /\ cycles = {}

\* Nothing is found and nothing is wrong before the search.
LEMMA EmptyIsSound ==
  ASSUME NEW E
  PROVE  Sound(E, <<>>, <<>>, {}, {})
<1>1. Done(<<>>, {}) = {}
  BY DEF Done
<1>2. Shape(E, <<>>, <<>>, {})
  BY DEF Shape
<1>3. Chain(E, <<>>) /\ Looked(E, <<>>, <<>>, {})
  BY DEF Chain, Looked
<1>4. Settled(E, {}) /\ NoCircle(E, {})
  BY DEF Settled, NoCircle
<1> QED BY <1>1, <1>2, <1>3, <1>4 DEF Sound

\* A node that imports done nodes only, and not itself, may join them.
LEMMA NoCircleGrows ==
  ASSUME NEW E, NEW D, NEW x, Settled(E, D), NoCircle(E, D), E[x] \subseteq D, x \notin D
  PROVE  NoCircle(E, D \cup {x})
<1> SUFFICES ASSUME NEW T \in SUBSET (D \cup {x}), T /= {}
             PROVE  \E m \in T : E[m] \cap T = {}
  BY DEF NoCircle
<1>1. CASE T \ {x} = {}
  <2>1. T = {x}
    BY <1>1
  <2> QED BY <2>1
<1>2. CASE T \ {x} /= {}
  <2>1. PICK m \in T \ {x} : E[m] \cap (T \ {x}) = {}
    <3>1. T \ {x} \in SUBSET D
      OBVIOUS
    <3> QED BY <1>2, <3>1 DEF NoCircle
  <2>2. E[m] \subseteq D
    BY <2>1 DEF Settled
  <2>3. E[m] \cap T = {}
    BY <2>1, <2>2
  <2> QED BY <2>1, <2>3
<1> QED BY <1>1, <1>2

\* dfs enters a node that was not visited: a root, or a neighbour of the last node.
LEMMA EnterIsSound ==
  ASSUME NEW E, E \in [DOMAIN E -> SUBSET DOMAIN E], NEW s, NEW l, NEW v, NEW c, NEW n \in DOMAIN E,
         NEW f \in Seq(SUBSET DOMAIN E),
         Sound(E, s, l, v, c), n \notin v, Len(f) = Len(s),
         s /= <<>> => n \in E[s[Len(s)]],
         \A i \in 1..Len(s) : f[i] \subseteq l[i],
         \A i \in 1..Len(s) : \A k \in l[i] \ f[i] : i = Len(s) /\ k = n
  PROVE  Sound(E, Append(s, n), Append(f, E[n]), v \cup {n}, c)
<1> DEFINE t == Append(s, n)
           g == Append(f, E[n])
           w == v \cup {n}
<1>1. /\ s \in Seq(DOMAIN E) /\ Len(l) = Len(s) /\ v \in SUBSET DOMAIN E
      /\ \A i \in 1..Len(s) : s[i] \in v
      /\ \A i, j \in 1..Len(s) : s[i] = s[j] => i = j
      /\ \A i \in 1..Len(s) : l[i] \subseteq E[s[i]]
  BY DEF Sound, Shape
<1>2. /\ t \in Seq(DOMAIN E) /\ Len(t) = Len(s) + 1 /\ Len(s) \in Nat
      /\ t[Len(s) + 1] = n /\ \A i \in 1..Len(s) : t[i] = s[i]
  BY <1>1
<1>3. /\ g \in Seq(SUBSET DOMAIN E) /\ Len(g) = Len(s) + 1
      /\ g[Len(s) + 1] = E[n] /\ \A i \in 1..Len(s) : g[i] = f[i]
  OBVIOUS
<1>4. \A i \in 1..Len(t) : i = Len(s) + 1 \/ i \in 1..Len(s)
  BY <1>2
<1> HIDE DEF t, g
<1>5. Shape(E, t, g, w)
  <2>1. w \in SUBSET DOMAIN E
    BY <1>1
  <2>2. \A i \in 1..Len(t) : t[i] \in w
    BY <1>1, <1>2, <1>4
  <2>3. \A i, j \in 1..Len(t) : t[i] = t[j] => i = j
    BY <1>1, <1>2, <1>4
  <2>4. \A i \in 1..Len(t) : g[i] \subseteq E[t[i]]
    BY <1>1, <1>2, <1>3, <1>4
  <2> QED BY <1>2, <1>3, <2>1, <2>2, <2>3, <2>4 DEF Shape
<1>6. Chain(E, t)
  <2> SUFFICES ASSUME NEW i \in 1..(Len(t) - 1) PROVE t[i + 1] \in E[t[i]]
    BY DEF Chain
  <2>1. i \in 1..Len(s) /\ t[i] = s[i]
    BY <1>2
  <2>2. CASE i = Len(s)
    BY <1>2, <2>1, <2>2
  <2>3. CASE i /= Len(s)
    <3>1. i \in 1..(Len(s) - 1) /\ i + 1 \in 1..Len(s)
      BY <1>2, <2>1, <2>3
    <3> QED BY <1>2, <2>1, <3>1 DEF Sound, Chain
  <2> QED BY <2>2, <2>3
<1>7. Done(t, w) = Done(s, v)
  <2>1. ASSUME NEW m \in Done(t, w) PROVE m \in Done(s, v)
    <3>1. m \in w /\ \A i \in 1..Len(t) : t[i] /= m
      BY <2>1 DEF Done
    <3>2. m /= n
      BY <1>2, <3>1
    <3>3. \A i \in 1..Len(s) : i \in 1..Len(t) /\ t[i] = s[i]
      BY <1>2
    <3> QED BY <3>1, <3>2, <3>3 DEF Done
  <2>2. ASSUME NEW m \in Done(s, v) PROVE m \in Done(t, w)
    <3>1. m \in v /\ m /= n /\ \A i \in 1..Len(s) : s[i] /= m
      BY <2>2 DEF Done
    <3> QED BY <1>2, <1>4, <3>1 DEF Done
  <2> QED BY <2>1, <2>2
<1>8. ASSUME c = {} PROVE Looked(E, t, g, w)
  <2> SUFFICES ASSUME NEW i \in 1..Len(t), NEW k \in E[t[i]] \ g[i]
               PROVE  k \in Done(s, v) \/ (i < Len(t) /\ k = t[i + 1])
    BY <1>7 DEF Looked
  <2>1. i \in 1..Len(s) /\ t[i] = s[i] /\ g[i] = f[i]
    BY <1>2, <1>3, <1>4
  <2>2. CASE k \in l[i]
    <3>1. i = Len(s) /\ k = n
      BY <2>1, <2>2
    <3> QED BY <1>2, <3>1
  <2>3. CASE k \notin l[i]
    <3>1. k \in Done(s, v) \/ (i < Len(s) /\ k = s[i + 1])
      BY <1>8, <2>1, <2>3 DEF Sound, Looked
    <3>2. ASSUME i < Len(s), k = s[i + 1] PROVE i < Len(t) /\ k = t[i + 1]
      <4>1. i + 1 \in 1..Len(s)
        BY <1>2, <2>1, <3>2
      <4> QED BY <1>2, <3>2, <4>1
    <3> QED BY <3>1, <3>2
  <2> QED BY <2>2, <2>3
<1> QED BY <1>5, <1>6, <1>7, <1>8 DEF Sound, t, g

\* A neighbour that was visited is passed over: it is done, or it is on the stack
\* and a cycle has been found.
LEMMA PassIsSound ==
  ASSUME NEW E, E \in [DOMAIN E -> SUBSET DOMAIN E], NEW s, NEW l, NEW v, NEW c, NEW n \in v,
         NEW f \in Seq(SUBSET DOMAIN E), NEW d,
         Sound(E, s, l, v, c), Len(f) = Len(s),
         \A i \in 1..Len(s) : f[i] \subseteq l[i],
         \A i \in 1..Len(s) : \A k \in l[i] \ f[i] : k = n,
         d = {} => c = {} /\ \A i \in 1..Len(s) : s[i] /= n,
         \A w \in d : w \in c \/ Walk(E, w)
  PROVE  Sound(E, s, f, v, d)
<1>1. Shape(E, s, f, v)
  <2>1. Shape(E, s, l, v)
    BY DEF Sound
  <2>2. \A i \in 1..Len(s) : f[i] \subseteq E[s[i]]
    BY <2>1 DEF Shape
  <2> QED BY <2>1, <2>2 DEF Shape
<1>2. ASSUME d = {} PROVE Looked(E, s, f, v)
  <2> SUFFICES ASSUME NEW i \in 1..Len(s), NEW k \in E[s[i]] \ f[i]
               PROVE  k \in Done(s, v) \/ (i < Len(s) /\ k = s[i + 1])
    BY DEF Looked
  <2>1. CASE k \in l[i]
    <3>1. k = n
      BY <2>1
    <3> QED BY <1>2, <3>1 DEF Done
  <2>2. CASE k \notin l[i]
    BY <1>2, <2>2 DEF Sound, Looked
  <2> QED BY <2>1, <2>2
<1>3. \A w \in d : Walk(E, w)
  BY DEF Sound
<1> QED BY <1>1, <1>2, <1>3 DEF Sound

\* The part of the stack from a node on, closed by an import of that node.
LEMMA StackClosesWalk ==
  ASSUME NEW E, E \in [DOMAIN E -> SUBSET DOMAIN E], NEW s \in Seq(DOMAIN E), NEW i \in 1..Len(s), Chain(E, s),
         s[i] \in E[s[Len(s)]]
  PROVE  Walk(E, Append(SubSeq(s, i, Len(s)), s[i]))
<1> DEFINE u == SubSeq(s, i, Len(s))
           w == Append(u, s[i])
           k == Len(s) - i + 1
<1>1. u \in Seq(DOMAIN E) /\ Len(u) = k /\ k \in Nat /\ k > 0
  OBVIOUS
<1>2. \A j \in 1..k : u[j] = s[i + j - 1]
  OBVIOUS
<1> HIDE DEF u
<1>3. w \in Seq(DOMAIN E) /\ Len(w) = k + 1 /\ w[k + 1] = s[i] /\ \A j \in 1..k : w[j] = u[j]
  BY <1>1
<1>4. w[1] = s[i]
  BY <1>1, <1>2, <1>3
<1>5. Chain(E, w)
  <2> HIDE DEF w
  <2> SUFFICES ASSUME NEW j \in 1..(Len(w) - 1) PROVE w[j + 1] \in E[w[j]]
    BY DEF Chain
  <2>1. j \in 1..k /\ w[j] = s[i + j - 1]
    BY <1>1, <1>2, <1>3
  <2>2. CASE j = k
    <3>1. i + j - 1 = Len(s) /\ w[j + 1] = s[i]
      BY <1>3, <2>2
    <3> QED BY <2>1, <3>1
  <2>3. CASE j /= k
    <3>0. j \in 1..(k - 1)
      BY <1>1, <2>1, <2>3
    <3>1. j + 1 \in 1..k /\ i + j - 1 \in 1..(Len(s) - 1)
      <4>1. j + 1 \in 1..k
        BY <1>1, <3>0
      <4>2. i + j - 1 \in 1..(Len(s) - 1)
        BY <1>1, <3>0
      <4> QED BY <4>1, <4>2
    <3>2. w[j + 1] = s[(i + j - 1) + 1]
      <4>1. w[j + 1] = s[i + (j + 1) - 1]
        BY <1>2, <1>3, <3>1
      <4>2. i + (j + 1) - 1 = (i + j - 1) + 1
        OBVIOUS
      <4> QED BY <4>1, <4>2
    <3> QED BY <2>1, <3>1, <3>2 DEF Chain
  <2> QED BY <2>2, <2>3
<1>6. Len(w) > 1 /\ w[Len(w)] = w[1]
  BY <1>1, <1>3, <1>4
<1>7. Walk(E, w)
  <2> HIDE DEF w
  <2> QED BY <1>3, <1>5, <1>6 DEF Walk
<1> QED BY <1>7 DEF u

\* dfs returns from a node whose neighbours were all looked at.
LEMMA LeaveIsSound ==
  ASSUME NEW E, E \in [DOMAIN E -> SUBSET DOMAIN E], NEW s, NEW l, NEW v, NEW c,
         Sound(E, s, l, v, c), s /= <<>>, l[Len(l)] = {}
  PROVE  Sound(E, SubSeq(s, 1, Len(s) - 1), SubSeq(l, 1, Len(l) - 1), v, c)
<1> DEFINE t == SubSeq(s, 1, Len(s) - 1)
           g == SubSeq(l, 1, Len(l) - 1)
           x == s[Len(s)]
           k == Len(s) - 1
<1>1. /\ s \in Seq(DOMAIN E) /\ l \in Seq(SUBSET DOMAIN E) /\ Len(l) = Len(s)
      /\ v \in SUBSET DOMAIN E /\ \A i \in 1..Len(s) : s[i] \in v
      /\ \A i, j \in 1..Len(s) : s[i] = s[j] => i = j
      /\ \A i \in 1..Len(s) : l[i] \subseteq E[s[i]]
  BY DEF Sound, Shape
<1>2. k \in Nat /\ Len(s) = k + 1
  BY <1>1
<1>3. t \in Seq(DOMAIN E) /\ Len(t) = k /\ \A i \in 1..k : t[i] = s[i]
  BY <1>1, <1>2
<1>4. g \in Seq(SUBSET DOMAIN E) /\ Len(g) = k /\ \A i \in 1..k : g[i] = l[i]
  BY <1>1, <1>2
<1>5. \A i \in 1..k : i \in 1..Len(s)
  BY <1>2
<1> HIDE DEF t, g, k
<1>6. Shape(E, t, g, v)
  BY <1>1, <1>3, <1>4, <1>5 DEF Shape
<1>7. Chain(E, t)
  <2> SUFFICES ASSUME NEW i \in 1..(Len(t) - 1) PROVE t[i + 1] \in E[t[i]]
    BY DEF Chain
  <2>1. i \in 1..k /\ i + 1 \in 1..k /\ i \in 1..(Len(s) - 1)
    BY <1>2, <1>3
  <2> QED BY <1>3, <2>1 DEF Sound, Chain
<1>8. x \in v /\ x \notin Done(s, v)
  <2>1. Len(s) \in 1..Len(s)
    BY <1>2
  <2> QED BY <1>1, <2>1 DEF Done
<1>9. Done(t, v) = Done(s, v) \cup {x}
  <2>1. \A i \in 1..Len(s) : i \in 1..k \/ i = Len(s)
    BY <1>2
  <2>2. \A i \in 1..k : s[i] /= x
    <3>1. \A i \in 1..k : i /= Len(s) /\ Len(s) \in 1..Len(s)
      BY <1>2
    <3> QED BY <1>1, <1>5, <3>1
  <2>3. ASSUME NEW m PROVE m \in Done(t, v) <=> m \in Done(s, v) \cup {x}
    BY <1>3, <1>5, <1>8, <2>1, <2>2 DEF Done
  <2> QED BY <2>3
<1>10. ASSUME c = {}
       PROVE  Looked(E, t, g, v) /\ Settled(E, Done(t, v)) /\ NoCircle(E, Done(t, v))
  <2>1. Looked(E, s, l, v) /\ Settled(E, Done(s, v)) /\ NoCircle(E, Done(s, v))
    BY <1>10 DEF Sound
  <2>2. E[x] \subseteq Done(s, v)
    <3>1. Len(s) \in 1..Len(s) /\ ~(Len(s) < Len(s)) /\ l[Len(s)] = {}
      BY <1>1, <1>2
    <3> QED BY <2>1, <3>1 DEF Looked
  <2>3. Settled(E, Done(t, v))
    BY <1>9, <2>1, <2>2 DEF Settled
  <2>4. NoCircle(E, Done(t, v))
    BY <1>8, <1>9, <2>1, <2>2, NoCircleGrows
  <2>5. Looked(E, t, g, v)
    <3> SUFFICES ASSUME NEW i \in 1..Len(t), NEW n \in E[t[i]] \ g[i]
                 PROVE  n \in Done(t, v) \/ (i < Len(t) /\ n = t[i + 1])
      BY DEF Looked
    <3>1. i \in 1..k /\ i \in 1..Len(s) /\ n \in E[s[i]] \ l[i]
      BY <1>3, <1>4, <1>5
    <3>2. n \in Done(s, v) \/ (i < Len(s) /\ n = s[i + 1])
      BY <2>1, <3>1 DEF Looked
    <3>3. CASE i = k
      <4>1. i + 1 = Len(s)
        BY <1>2, <3>3
      <4> QED BY <1>9, <3>2, <4>1
    <3>4. CASE i /= k
      <4>1. i + 1 \in 1..k /\ i < Len(t)
        BY <1>2, <1>3, <3>1, <3>4
      <4> QED BY <1>3, <1>9, <3>2, <4>1
    <3> QED BY <3>3, <3>4
  <2> QED BY <2>3, <2>4, <2>5
<1> QED BY <1>6, <1>7, <1>10 DEF Sound, t, g

\* One step of the search keeps the invariant.
LEMMA SearchStep ==
  ASSUME SearchInv, running /= {}, detect_cycles
  PROVE  SearchInv'
<1> DEFINE E == Imports
<1>1. UNCHANGED <<files, running>>
  BY DEF detect_cycles
<1>2. graph(running)' = graph(running)
  BY <1>1 DEF graph
<1>3. Imports' = Imports
  BY <1>2 DEF Imports, Nodes, neighbours
<1>4. E \in [DOMAIN E -> SUBSET DOMAIN E] /\ DOMAIN E = Nodes /\ \A n \in Nodes : E[n] = neighbours(n)
  BY DEF Imports, neighbours
<1>5. Sound(E, stack, left, visited, cycles)
  BY DEF SearchInv
<1>6. /\ stack \in Seq(DOMAIN E) /\ left \in Seq(SUBSET DOMAIN E) /\ Len(left) = Len(stack)
      /\ visited \in SUBSET DOMAIN E /\ Chain(E, stack)
      /\ \A i \in 1..Len(stack) : stack[i] \in visited
      /\ \A i \in 1..Len(stack) : left[i] \subseteq E[stack[i]]
  BY <1>5 DEF Sound, Shape
<1> HIDE DEF E
<1> SUFFICES Sound(E, stack', left', visited', cycles')
  BY <1>1, <1>3 DEF SearchInv, E
<1>7. ASSUME stack = <<>>, NEW start \in Nodes \ visited, dfs(start, left), UNCHANGED cycles
      PROVE  Sound(E, stack', left', visited', cycles')
  <2>1. /\ stack' = Append(stack, start) /\ left' = Append(left, E[start])
        /\ visited' = visited \cup {start}
    BY <1>4, <1>7 DEF dfs
  <2>2. \A i \in 1..Len(stack) : left[i] \subseteq left[i] /\ \A k \in left[i] \ left[i] : i = Len(stack) /\ k = start
    OBVIOUS
  <2>3. Sound(E, Append(stack, start), Append(left, E[start]), visited \cup {start}, cycles)
    BY <1>4, <1>5, <1>6, <1>7, <2>2, EnterIsSound
  <2> QED BY <1>7, <2>1, <2>3
<1>8. ASSUME stack /= <<>>, NEW n \in left[Len(left)], look_at(n)
      PROVE  Sound(E, stack', left', visited', cycles')
  <2> DEFINE f == [left EXCEPT ![Len(left)] = @ \ {n}]
             idx == CHOOSE i \in DOMAIN stack : stack[i] = n
  <2>1. Len(stack) \in 1..Len(stack) /\ n \in E[stack[Len(stack)]] /\ n \in DOMAIN E
    BY <1>4, <1>6, <1>8
  <2>2. f \in Seq(SUBSET DOMAIN E) /\ Len(f) = Len(stack)
    BY <1>6, <2>1
  <2>3. /\ \A i \in 1..Len(stack) : f[i] \subseteq left[i]
        /\ \A i \in 1..Len(stack) : \A k \in left[i] \ f[i] : i = Len(stack) /\ k = n
    BY <1>6
  <2> HIDE DEF f
  <2>4. ASSUME closes_cycle(n), left' = f, UNCHANGED <<stack, visited>>,
               cycles' = cycles \cup {Append(SubSeq(stack, idx, Len(stack)), n)}
        PROVE  Sound(E, stack', left', visited', cycles')
    <3>1. idx \in 1..Len(stack) /\ stack[idx] = n
      BY <1>6, <2>4 DEF closes_cycle
    <3> HIDE DEF idx
    <3>2. Walk(E, Append(SubSeq(stack, idx, Len(stack)), stack[idx]))
      BY <1>4, <1>6, <2>1, <3>1, StackClosesWalk
    <3>3. n \in visited
      BY <1>6, <3>1
    <3>4. cycles' /= {} /\ \A w \in cycles' : w \in cycles \/ Walk(E, w)
      BY <2>4, <3>1, <3>2
    <3>5. Sound(E, stack, f, visited, cycles')
      BY <1>4, <1>5, <2>2, <2>3, <3>3, <3>4, PassIsSound
    <3> QED BY <2>4, <3>5
  <2>5. ASSUME ~closes_cycle(n), n \in visited, left' = f, UNCHANGED <<stack, visited, cycles>>
        PROVE  Sound(E, stack', left', visited', cycles')
    <3>1. \A i \in 1..Len(stack) : stack[i] /= n
      BY <1>6, <2>5 DEF closes_cycle
    <3>2. Sound(E, stack, f, visited, cycles)
      BY <1>4, <1>5, <2>2, <2>3, <2>5, <3>1, PassIsSound
    <3> QED BY <2>5, <3>2
  <2>6. ASSUME n \notin visited, dfs(n, f), UNCHANGED cycles
        PROVE  Sound(E, stack', left', visited', cycles')
    <3>1. /\ stack' = Append(stack, n) /\ left' = Append(f, E[n]) /\ visited' = visited \cup {n}
      BY <1>4, <2>1, <2>6 DEF dfs
    <3>2. Sound(E, Append(stack, n), Append(f, E[n]), visited \cup {n}, cycles)
      BY <1>4, <1>5, <2>1, <2>2, <2>3, <2>6, EnterIsSound
    <3> QED BY <2>6, <3>1, <3>2
  <2> QED BY <1>8, <2>4, <2>5, <2>6 DEF look_at, f
<1>9. ASSUME stack /= <<>>, leave PROVE Sound(E, stack', left', visited', cycles')
  <2>1. Sound(E, SubSeq(stack, 1, Len(stack) - 1), SubSeq(left, 1, Len(left) - 1), visited, cycles)
    BY <1>4, <1>5, <1>9, LeaveIsSound DEF leave
  <2> QED BY <1>9, <2>1 DEF leave
<1> QED BY <1>7, <1>8, <1>9 DEF detect_cycles

LEMMA SearchIsSound == Spec => []SearchInv
<1>1. Init => SearchInv
  BY EmptyIsSound DEF Init, SearchInv
<1>2. SearchInv /\ [Next]_vars => SearchInv'
  <2> SUFFICES ASSUME SearchInv, [Next]_vars PROVE SearchInv'
    OBVIOUS
  <2>1. ASSUME UNCHANGED search, running = {} PROVE SearchInv'
    <3>1. stack' = <<>> /\ left' = <<>> /\ visited' = {} /\ cycles' = {}
      BY <2>1 DEF SearchInv, search
    <3>2. Sound(Imports', stack', left', visited', cycles')
      BY <3>1, EmptyIsSound
    <3> QED BY <3>1, <3>2 DEF SearchInv
  <2>2. ASSUME NEW p \in Paths, NEW c, Edit(p, c) PROVE SearchInv'
    BY <2>1, <2>2 DEF Edit
  <2>3. ASSUME NEW target, cmd_agent_changed(target) PROVE SearchInv'
    BY <2>1, <2>3 DEF cmd_agent_changed
  <2>4. CASE running /= {} /\ detect_cycles
    BY <2>4, SearchStep
  <2>5. ASSUME NEW baseline, NEW outcome, report_changed(baseline, outcome) PROVE SearchInv'
    <3>1. stack' = <<>> /\ left' = <<>> /\ visited' = {} /\ cycles' = {}
      BY <2>5 DEF report_changed
    <3>2. Sound(Imports', stack', left', visited', cycles')
      BY <3>1, EmptyIsSound
    <3> QED BY <3>1, <3>2 DEF SearchInv
  <2>6. CASE Lose
    <3>1. UNCHANGED <<files, running, stack, left, visited, cycles>>
      BY <2>6 DEF Lose, search
    <3>2. graph(running)' = graph(running)
      BY <3>1 DEF graph
    <3>3. Imports' = Imports
      BY <3>2 DEF Imports, Nodes, neighbours
    <3> QED BY <3>1, <3>3 DEF SearchInv
  <2>7. CASE UNCHANGED vars
    <3>1. UNCHANGED <<files, running, stack, left, visited, cycles>>
      BY <2>7 DEF vars, search
    <3>2. graph(running)' = graph(running)
      BY <3>1 DEF graph
    <3>3. Imports' = Imports
      BY <3>2 DEF Imports, Nodes, neighbours
    <3> QED BY <3>1, <3>3 DEF SearchInv
  <2> QED BY <2>2, <2>3, <2>4, <2>5, <2>6, <2>7 DEF Next
<1> QED BY <1>1, <1>2, PTL DEF Spec

\* Modules that are resolved without E0230 import each other in no circle, and every
\* E0230 names a circle of imports: for any number of modules, in whatever order the
\* search goes through them.
THEOREM CircularImportsAreReported == Spec => []CyclesAreFound
<1>1. SearchInv => CyclesAreFound
  <2> SUFFICES ASSUME SearchInv, searched
               PROVE  /\ cycles = {} => ~\E S \in SUBSET Nodes : Circular(S)
                      /\ \A c \in cycles : ClosedWalk(c)
    BY DEF CyclesAreFound
  <2>1. DOMAIN Imports = Nodes /\ \A n \in Nodes : Imports[n] = neighbours(n)
    BY DEF Imports
  <2>2. Sound(Imports, stack, left, visited, cycles)
    BY DEF SearchInv
  <2>3. ASSUME cycles = {}, NEW S \in SUBSET Nodes, Circular(S) PROVE FALSE
    <3>1. Done(stack, visited) = Nodes
      BY DEF searched, Done
    <3>2. NoCircle(Imports, Nodes)
      BY <2>2, <2>3, <3>1 DEF Sound
    <3>3. PICK m \in S : Imports[m] \cap S = {}
      BY <2>3, <3>2 DEF NoCircle, Circular
    <3> QED BY <2>1, <2>3, <3>3 DEF Circular
  <2>4. ASSUME NEW c \in cycles PROVE ClosedWalk(c)
    <3>1. Walk(Imports, c)
      BY <2>2 DEF Sound
    <3>2. c \in Seq(Nodes) /\ Len(c) \in Nat
      BY <2>1, <3>1 DEF Walk
    <3>3. ASSUME NEW i \in 1..(Len(c) - 1) PROVE c[i + 1] \in neighbours(c[i])
      <4>1. c[i] \in Nodes
        BY <3>2
      <4> QED BY <2>1, <3>1, <4>1 DEF Walk, Chain
    <3> QED BY <3>1, <3>2, <3>3 DEF Walk, ClosedWalk
  <2> QED BY <2>3, <2>4
<1> QED BY <1>1, SearchIsSound, PTL
============================================================================
