------------------------ MODULE LocalRegistryProofs ------------------------
(***************************************************************************)
(* Theorems about the registry, for every set of packages, publishers and  *)
(* readers and any number of attempts, deaths and I/O errors.              *)
(*                                                                         *)
(* That the index never forgets without a race needs no assumption. That   *)
(* what is listed is backed needs one, because nothing in the registry is  *)
(* locked: no two processes publish the same version (Unshared). Two that  *)
(* do may both find the tarball absent and write over each other.          *)
(***************************************************************************)
EXTENDS LocalRegistry, TLAPS

\* Every version has one publisher at most, as the runs assume too.
Unshared ==
  \A p, q \in Publishers : p /= q => MayPublish[p] \cap MayPublish[q] = {}

Pcs == {"idle", "checks", "list", "exists", "create_tarball", "write_tarball",
        "create_provenance", "write_provenance", "read_index", "create_index",
        "write_index"}
Updating == {"create_index", "write_index"}
Fetch == [pkg : Packages, status : {"yanked", "reading", "ok", "not found"},
          file : File(Tarball), listed : SUBSET Tarball]

\* The processes: a publisher at work has a job of its own.
Processes ==
  /\ pc \in [Publishers -> Pcs]
  /\ job \in [Publishers -> {NoJob} \cup [pkg : Packages, body : Bodies, dry : BOOLEAN]]
  /\ \A p \in Publishers :
       pc[p] /= "idle" => /\ job[p] \in [pkg : MayPublish[p], body : Bodies, dry : BOOLEAN]
                          /\ job[p].pkg \in Packages
  /\ read \in [Publishers -> SUBSET Tarball]
  /\ fetching \in [Readers -> {NoJob} \cup Fetch]
  /\ raced \in BOOLEAN /\ accepted \subseteq Packages

Shape == TypeOK /\ Processes

\* Each index has the entries of its own name, and so has what a publisher read.
OwnNames ==
  /\ \A n \in Names : \A entry \in IndexEntries(n) : entry.pkg.name = n
  /\ \A p \in Publishers : pc[p] \in Updating =>
       \A entry \in read[p] : entry.pkg.name = job[p].pkg.name
----------------------------------------------------------------------------
\* The names of the packages are what the index files are named after.
LEMMA NameOf == \A pkg \in Packages : pkg.name \in Names
  BY DEF Names

\* The states of a file are told apart by their tag.
LEMMA FileStates ==
  /\ Absent /= Partial /\ Absent /= Garbled /\ Partial /= Garbled
  /\ \A d : Whole(d) \notin {Absent, Partial, Garbled}
  /\ \A d : Whole(d).state = "whole" /\ Whole(d).data = d
  /\ Absent.state /= "whole" /\ Partial.state /= "whole" /\ Garbled.state /= "whole"
  BY DEF Absent, Partial, Garbled, Whole

\* A write leaves the bytes or garbage, and garbage only over other bytes.
LEMMA OverwriteResult ==
  ASSUME NEW S, NEW file, NEW d \in S, NEW bytes \in Overwrite(file, d)
  PROVE  /\ bytes \in File(S)
         /\ bytes = Whole(d) \/ bytes = Garbled
         /\ file \in {Absent, Partial} => bytes = Whole(d)
  BY DEF Overwrite, File

\* A file of a set of contents is in one of four states.
LEMMA FileCases ==
  ASSUME NEW S, NEW file \in File(S)
  PROVE  /\ file = Absent \/ file = Partial \/ file = Garbled \/ \E d \in S : file = Whole(d)
         /\ file.state = "whole" => file = Whole(file.data) /\ file.data \in S
  BY FileStates DEF File

\* The index after a write holds what was read and the new entry.
Extended(p) == {entry \in read[p] : entry.pkg /= job[p].pkg} \cup {IndexEntry(p)}

\* Nothing is published and nobody is at work.
LEMMA ShapeInit == Init => Shape
<1> SUFFICES ASSUME Init PROVE Shape
  OBVIOUS
<1> USE RegistryAssumption DEF Init, File
<1>1. TypeOK
  BY DEF TypeOK
<1>2. Processes
  BY DEF Processes, Pcs
<1> QED BY <1>1, <1>2 DEF Shape

\* Each step keeps the state well formed.
LEMMA ShapeStep == Shape /\ [Next]_vars => Shape'
<1> SUFFICES ASSUME Shape, [Next]_vars PROVE Shape'
  OBVIOUS
<1> USE RegistryAssumption DEF Shape, TypeOK, Processes, files, history
<1>1. ASSUME NEW p \in Publishers, NEW pkg \in Packages, NEW body \in Bodies,
             NEW dry_run \in BOOLEAN, publish_with_options(p, pkg, body, dry_run)
      PROVE  Shape'
  <2>1. job' = [job EXCEPT ![p] = [pkg |-> pkg, body |-> body, dry |-> dry_run]]
    BY <1>1 DEF publish_with_options
  <2>2. pkg \in MayPublish[p] /\ attempts' \in 0..MaxAttempts
    BY <1>1 DEF publish_with_options
  <2>3. TypeOK'
    BY <1>1, <2>2 DEF publish_with_options
  <2>4. pc' \in [Publishers -> Pcs] /\ \A q \in Publishers : q /= p => pc'[q] = pc[q]
    BY <1>1 DEF publish_with_options, Goto, Pcs
  <2>5. job' \in [Publishers -> {NoJob} \cup [pkg : Packages, body : Bodies, dry : BOOLEAN]]
    BY <2>1
  <2>6. ASSUME NEW q \in Publishers, pc'[q] /= "idle"
        PROVE  /\ job'[q] \in [pkg : MayPublish[q], body : Bodies, dry : BOOLEAN]
               /\ job'[q].pkg \in Packages
    <3>1. CASE q = p
      BY <2>1, <2>2, <3>1
    <3>2. CASE q /= p
      BY <2>1, <2>4, <2>6, <3>2
    <3> QED BY <3>1, <3>2
  <2> QED BY <1>1, <2>3, <2>4, <2>5, <2>6 DEF publish_with_options
<1>2. ASSUME NEW p \in Publishers, checks_reject(p) \/ checks_pass(p)
      PROVE  Shape'
  BY <1>2 DEF checks_reject, checks_pass, Ends, Goto, Pcs
<1>3. ASSUME NEW p \in Publishers, check_conflict(p) \/ check_exists(p) \/ fail(p)
      PROVE  Shape'
  BY <1>3 DEF check_conflict, check_exists, fail, Ends, Goto, Pcs, After
<1>4. ASSUME NEW p \in Publishers, create_tarball(p) \/ create_provenance(p)
      PROVE  Shape'
  BY <1>4 DEF create_tarball, create_provenance, Goto, Pcs, File
<1>5. ASSUME NEW p \in Publishers, write_tarball(p)
      PROVE  Shape'
  <2>1. [pkg |-> job[p].pkg, body |-> job[p].body] \in Tarball
    BY <1>5 DEF write_tarball, Tarball
  <2>2. tarball' \in [Packages -> File(Tarball)]
    BY <1>5, <2>1, OverwriteResult DEF write_tarball
  <2> QED BY <1>5, <2>2 DEF write_tarball, Goto, Pcs, After
<1>6. ASSUME NEW p \in Publishers, write_provenance(p)
      PROVE  Shape'
  <2>1. provenance' \in [Packages -> File(Packages)]
    BY <1>6, OverwriteResult DEF write_provenance
  <2> QED BY <1>6, <2>1 DEF write_provenance, Goto, Pcs, After
<1>7. ASSUME NEW p \in Publishers, read_index(p)
      PROVE  Shape'
  <2>1. job[p].pkg.name \in Names
    BY <1>7, NameOf DEF read_index
  <2>2. index[job[p].pkg.name] \notin {Partial, Garbled}
          => parsed_index(job[p].pkg.name) \subseteq Tarball
    BY <2>1, FileCases, FileStates DEF parsed_index
  <2>3. read' \in [Publishers -> SUBSET Tarball] /\ raced' \in BOOLEAN
    BY <1>7, <2>2 DEF read_index
  <2>4. pc' \in [Publishers -> Pcs] /\ \A q \in Publishers : q /= p => pc'[q] = pc[q]
    BY <1>7 DEF read_index, Ends, Goto, Pcs
  <2>5. pc[p] /= "idle"
    BY <1>7 DEF read_index
  <2> QED BY <1>7, <2>3, <2>4, <2>5 DEF read_index
<1>8. ASSUME NEW p \in Publishers, create_index(p)
      PROVE  Shape'
  BY <1>8, NameOf DEF create_index, Goto, Pcs, File
<1>9. ASSUME NEW p \in Publishers, write_index(p)
      PROVE  Shape'
  <2>1. Extended(p) \in SUBSET Tarball
    BY <1>9 DEF write_index, Extended, IndexEntry, Tarball
  <2>2. job[p].pkg.name \in Names
    BY <1>9, NameOf DEF write_index
  <2>3. PICK bytes \in Overwrite(index[job[p].pkg.name], Extended(p)) :
          index' = [index EXCEPT ![job[p].pkg.name] = bytes]
    BY <1>9 DEF write_index, Extended
  <2>4. bytes \in File(SUBSET Tarball)
    BY <2>1, OverwriteResult
  <2>5. index' \in [Names -> File(SUBSET Tarball)]
    BY <2>2, <2>3, <2>4
  <2>6. TypeOK'
    BY <1>9, <2>5 DEF write_index
  <2>7. accepted' \subseteq Packages
    BY <1>9 DEF write_index
  <2>8. pc' \in [Publishers -> Pcs] /\ \A q \in Publishers : pc'[q] /= "idle" => pc[q] /= "idle"
    BY <1>9 DEF write_index, Ends, Goto, Pcs
  <2> QED BY <1>9, <2>6, <2>7, <2>8 DEF write_index
<1>10. ASSUME NEW pkg \in Packages, yank(pkg)
       PROVE  Shape'
  BY <1>10 DEF yank
<1>11. ASSUME NEW r \in Readers, NEW pkg \in Packages, fetch(r, pkg)
       PROVE  Shape'
  <2>1. Entries \subseteq Tarball
    BY FileCases DEF Entries, IndexEntries
  <2>2. fetching' \in [Readers -> {NoJob} \cup Fetch]
    BY <1>11, <2>1 DEF fetch, Fetch, File
  <2> QED BY <1>11, <2>2 DEF fetch
<1>12. ASSUME NEW r \in Readers, fetch_bytes(r) \/ fetch_done(r)
       PROVE  Shape'
  <2>1. fetching' \in [Readers -> {NoJob} \cup Fetch]
    <3>1. CASE fetch_done(r)
      BY <3>1 DEF fetch_done
    <3>2. CASE fetch_bytes(r)
      <4>1. fetching[r] \in Fetch
        BY <3>2 DEF fetch_bytes
      <4>2. tarball[fetching[r].pkg] \in File(Tarball)
        BY <4>1 DEF Fetch
      <4> QED BY <3>2, <4>1, <4>2 DEF fetch_bytes, Fetch
    <3> QED BY <1>12, <3>1, <3>2
  <2> QED BY <1>12, <2>1 DEF fetch_bytes, fetch_done
<1>13. CASE UNCHANGED vars
  BY <1>13 DEF vars
<1> HIDE DEF Shape, TypeOK, Processes
<1> QED
  BY <1>1, <1>2, <1>3, <1>4, <1>5, <1>6, <1>7, <1>8, <1>9, <1>10, <1>11, <1>12, <1>13
  DEF Next, Publish

\* The registry's files and processes keep their shape.
THEOREM TypeCorrect == Spec => []TypeOK
<1>1. Shape => TypeOK
  BY DEF Shape
<1> QED BY ShapeInit, ShapeStep, <1>1, PTL DEF Spec
----------------------------------------------------------------------------
(***************************************************************************)
(* The index.                                                              *)
(***************************************************************************)

\* Only upsert_index reads or writes an index file.
LEMMA IndexFrame ==
  ASSUME Shape, [Next]_vars
  PROVE  \/ \E p \in Publishers : read_index(p) \/ create_index(p) \/ write_index(p)
         \/ /\ UNCHANGED <<index, read, accepted, raced>>
            /\ \A q \in Publishers :
                 pc'[q] \in Updating => pc[q] \in Updating /\ job'[q] = job[q]
<1> DEFINE Framed ==
       /\ UNCHANGED <<index, read, accepted, raced>>
       /\ \A q \in Publishers :
            pc'[q] \in Updating => pc[q] \in Updating /\ job'[q] = job[q]
<1> USE DEF Shape, Processes, files, history, Updating
<1>1. ASSUME NEW p \in Publishers, NEW pkg \in Packages, NEW body \in Bodies,
             NEW dry_run \in BOOLEAN, publish_with_options(p, pkg, body, dry_run)
      PROVE  Framed
  BY <1>1 DEF publish_with_options, Goto
<1>2. ASSUME NEW p \in Publishers,
             \/ checks_reject(p) \/ checks_pass(p) \/ check_conflict(p)
             \/ check_exists(p) \/ fail(p)
      PROVE  Framed
  BY <1>2 DEF checks_reject, checks_pass, check_conflict, check_exists, fail, Ends, Goto,
              After
<1>3. ASSUME NEW p \in Publishers, create_tarball(p) \/ write_tarball(p)
      PROVE  Framed
  BY <1>3 DEF create_tarball, write_tarball, Goto, After
<1>4. ASSUME NEW p \in Publishers, create_provenance(p) \/ write_provenance(p)
      PROVE  Framed
  BY <1>4 DEF create_provenance, write_provenance, Goto, After
<1>5. ASSUME NEW pkg \in Packages, yank(pkg) PROVE Framed
  BY <1>5 DEF yank
<1>6. ASSUME NEW r \in Readers, NEW pkg \in Packages, fetch(r, pkg) PROVE Framed
  BY <1>6 DEF fetch
<1>7. ASSUME NEW r \in Readers, fetch_bytes(r) \/ fetch_done(r) PROVE Framed
  BY <1>7 DEF fetch_bytes, fetch_done
<1>8. ASSUME UNCHANGED vars PROVE Framed
  BY <1>8 DEF vars
<1> HIDE DEF Shape, Processes, Framed
<1>9. Framed \/ \E p \in Publishers : read_index(p) \/ create_index(p) \/ write_index(p)
  BY <1>1, <1>2, <1>3, <1>4, <1>5, <1>6, <1>7, <1>8 DEF Next, Publish
<1> QED BY <1>9 DEF Framed

\* What upsert_index does to the index of its name and to its publisher.
LEMMA ReadEffect ==
  ASSUME Shape, NEW p \in Publishers, read_index(p)
  PROVE  /\ job[p].pkg.name \in Names /\ job' = job /\ index' = index
         /\ accepted' = accepted
         /\ \A q \in Publishers : q /= p => pc'[q] = pc[q] /\ read'[q] = read[q]
         /\ pc'[p] \in Updating =>
              /\ index[job[p].pkg.name] \notin {Partial, Garbled}
              /\ read'[p] = parsed_index(job[p].pkg.name)
              /\ raced' = (raced \/ \E q \in Publishers \ {p} :
                             pc[q] \in Updating /\ job[q].pkg.name = job[p].pkg.name)
         /\ pc'[p] \notin Updating => raced' = raced
<1> USE DEF Shape, TypeOK, Processes, files, read_index, Updating
<1>1. job[p].pkg.name \in Names
  BY NameOf
<1>2. CASE index[job[p].pkg.name] \in {Partial, Garbled}
  BY <1>1, <1>2 DEF Ends, Goto
<1>3. CASE index[job[p].pkg.name] \notin {Partial, Garbled}
  BY <1>1, <1>3 DEF Goto
<1> QED BY <1>2, <1>3

LEMMA CreateEffect ==
  ASSUME Shape, NEW p \in Publishers, create_index(p)
  PROVE  /\ job[p].pkg.name \in Names
         /\ index' = [index EXCEPT ![job[p].pkg.name] = Partial]
         /\ UNCHANGED <<job, read, accepted, raced>>
         /\ \A q \in Publishers : pc'[q] \in Updating => pc[q] \in Updating
         /\ pc[p] \in Updating
<1> USE DEF Shape, TypeOK, Processes, history, create_index, Updating
<1>1. job[p].pkg.name \in Names
  BY NameOf
<1> QED BY <1>1 DEF Goto

LEMMA WriteEffect ==
  ASSUME Shape, NEW p \in Publishers, write_index(p)
  PROVE  /\ job[p].pkg.name \in Names /\ job[p].pkg \in Packages
         /\ index'[job[p].pkg.name] \in {Whole(Extended(p)), Garbled}
         /\ \A n \in Names : n /= job[p].pkg.name => index'[n] = index[n]
         /\ accepted' = accepted \cup {job[p].pkg}
         /\ UNCHANGED <<job, read, raced>>
         /\ \A q \in Publishers : pc'[q] \in Updating => pc[q] \in Updating /\ q /= p
         /\ pc[p] \in Updating
<1> USE DEF Shape, TypeOK, Processes, write_index
<1>1. job[p].pkg.name \in Names /\ job[p].pkg \in Packages
  BY NameOf
<1>2. PICK bytes \in Overwrite(index[job[p].pkg.name], Extended(p)) :
        index' = [index EXCEPT ![job[p].pkg.name] = bytes]
  BY DEF Extended
<1>3. bytes \in {Whole(Extended(p)), Garbled}
  BY DEF Overwrite
<1>4. \A q \in Publishers : pc'[q] \in Updating => pc[q] \in Updating /\ q /= p
  BY DEF Ends, Goto, Updating
<1> QED BY <1>1, <1>2, <1>3, <1>4 DEF Updating

\* An index lists versions of its own name only, and so does what a publisher read.
LEMMA OwnNamesStep == Shape /\ OwnNames /\ [Next]_vars => OwnNames'
<1> SUFFICES ASSUME Shape, OwnNames, [Next]_vars PROVE OwnNames'
  OBVIOUS
<1>1. CASE /\ UNCHANGED <<index, read, accepted, raced>>
           /\ \A q \in Publishers :
                pc'[q] \in Updating => pc[q] \in Updating /\ job'[q] = job[q]
  BY <1>1 DEF OwnNames, IndexEntries
<1>2. ASSUME NEW p \in Publishers, read_index(p) PROVE OwnNames'
  <2> DEFINE n == job[p].pkg.name
  <2>1. index[n] \notin {Partial, Garbled} => parsed_index(n) = IndexEntries(n)
    <3>1. index[n] \in File(SUBSET Tarball)
      BY <1>2, ReadEffect DEF Shape, TypeOK
    <3>2. index[n].state = "whole" \/ index[n] \in {Absent, Partial, Garbled}
      BY <3>1, FileCases, FileStates
    <3> QED BY <3>2, FileStates DEF parsed_index, IndexEntries
  <2> QED BY <1>2, <2>1, ReadEffect DEF OwnNames, IndexEntries
<1>3. ASSUME NEW p \in Publishers, create_index(p) PROVE OwnNames'
  <2>1. \A n \in Names : index'[n] = index[n] \/ index'[n] = Partial
    BY <1>3, CreateEffect DEF Shape, TypeOK
  <2> QED BY <1>3, <2>1, CreateEffect, FileStates DEF OwnNames, IndexEntries
<1>4. ASSUME NEW p \in Publishers, write_index(p) PROVE OwnNames'
  <2>1. \A entry \in Extended(p) : entry.pkg.name = job[p].pkg.name
    <3>1. \A entry \in read[p] : entry.pkg.name = job[p].pkg.name
      BY <1>4, WriteEffect DEF OwnNames
    <3>2. IndexEntry(p).pkg = job[p].pkg
      BY DEF IndexEntry
    <3> QED BY <3>1, <3>2 DEF Extended
  <2>2. \A entry \in IndexEntries(job[p].pkg.name)' : entry.pkg.name = job[p].pkg.name
    BY <1>4, <2>1, WriteEffect, FileStates DEF IndexEntries
  <2>3. \A n \in Names : n /= job[p].pkg.name => IndexEntries(n)' = IndexEntries(n)
    BY <1>4, WriteEffect DEF IndexEntries
  <2> QED BY <1>4, <2>2, <2>3, WriteEffect DEF OwnNames
<1> QED BY <1>1, <1>2, <1>3, <1>4, IndexFrame

\* A name without an index file has no accepted version. Without a race one
\* publisher at a time updates an index, and it has read all accepted versions.
Remembers ==
  /\ \A n \in Names : index[n] = Absent => \A pkg \in accepted : pkg.name /= n
  /\ ~raced =>
       /\ \A p, q \in Publishers :
            p /= q /\ pc[p] \in Updating /\ pc[q] \in Updating
              => job[p].pkg.name /= job[q].pkg.name
       /\ \A p \in Publishers : pc[p] \in Updating =>
            \A pkg \in accepted : pkg.name = job[p].pkg.name =>
              \E entry \in read[p] : entry.pkg = pkg
       /\ \A pkg \in accepted : index[pkg.name].state = "whole" =>
            \E entry \in index[pkg.name].data : entry.pkg = pkg

\* A step outside upsert_index, one that reads, truncates or writes the index.
LEMMA RemembersStep ==
  Shape /\ OwnNames /\ Remembers /\ [Next]_vars => Remembers'
<1> SUFFICES ASSUME Shape, OwnNames, Remembers, [Next]_vars PROVE Remembers'
  OBVIOUS
<1>0. accepted \subseteq Packages /\ raced \in BOOLEAN
  BY DEF Shape, Processes
<1>1. CASE /\ UNCHANGED <<index, read, accepted, raced>>
           /\ \A q \in Publishers :
                pc'[q] \in Updating => pc[q] \in Updating /\ job'[q] = job[q]
  BY <1>1 DEF Remembers
<1>2. ASSUME NEW p \in Publishers, read_index(p) PROVE Remembers'
  <2> DEFINE n == job[p].pkg.name
  <2>1. n \in Names /\ index[n] \in File(SUBSET Tarball)
    BY <1>2, ReadEffect DEF Shape, TypeOK
  <2>2. CASE pc'[p] \notin Updating
    BY <1>2, <2>2, ReadEffect DEF Remembers
  <2>3. CASE pc'[p] \in Updating
    <3>1. index[n] = Absent \/ index[n].state = "whole"
      BY <1>2, <2>1, <2>3, ReadEffect, FileCases, FileStates
    <3>2. ~raced => \A pkg \in accepted : pkg.name = n =>
                      \E entry \in read'[p] : entry.pkg = pkg
      <4>1. CASE index[n] = Absent
        BY <2>1, <4>1 DEF Remembers
      <4>2. CASE index[n].state = "whole"
        <5>1. read'[p] = index[n].data
          BY <1>2, <2>3, <4>2, ReadEffect, FileStates DEF parsed_index
        <5> QED BY <4>2, <5>1 DEF Remembers
      <4> QED BY <3>1, <4>1, <4>2
    <3>3. raced' = (raced \/ \E q \in Publishers \ {p} :
                              pc[q] \in Updating /\ job[q].pkg.name = n)
      BY <1>2, <2>3, ReadEffect
    <3>4. /\ job' = job /\ index' = index /\ accepted' = accepted
          /\ \A q \in Publishers : q /= p => pc'[q] = pc[q] /\ read'[q] = read[q]
      BY <1>2, ReadEffect
    <3>5. ~raced' => \A q1, q2 \in Publishers :
                        q1 /= q2 /\ pc'[q1] \in Updating /\ pc'[q2] \in Updating
                          => job'[q1].pkg.name /= job'[q2].pkg.name
      BY <1>0, <3>3, <3>4, ZenonT(40) DEF Remembers
    <3>6. ~raced' => \A q \in Publishers : pc'[q] \in Updating =>
                        \A pkg \in accepted : pkg.name = job[q].pkg.name =>
                          \E entry \in read'[q] : entry.pkg = pkg
      BY <1>0, <3>2, <3>3, <3>4 DEF Remembers
    <3>7. ~raced' => ~raced
      BY <1>0, <3>3
    <3> QED BY <3>4, <3>5, <3>6, <3>7 DEF Remembers
  <2> QED BY <2>2, <2>3
<1>3. ASSUME NEW p \in Publishers, create_index(p) PROVE Remembers'
  <2>1. \A n \in Names : index'[n] = index[n] \/ index'[n] = Partial
    BY <1>3, CreateEffect DEF Shape, TypeOK
  <2>2. \A pkg \in accepted : pkg.name \in Names
    BY <1>0, NameOf
  <2> QED BY <1>3, <2>1, <2>2, CreateEffect, FileStates DEF Remembers
<1>4. ASSUME NEW p \in Publishers, write_index(p) PROVE Remembers'
  <2> DEFINE n == job[p].pkg.name
  <2> USE <1>4, WriteEffect
  <2>1. index'[n] = Garbled \/ index'[n] = Whole(Extended(p))
    OBVIOUS
  <2>2. index'[n] /= Absent /\ accepted' = accepted \cup {job[p].pkg}
    BY <2>1, FileStates
  <2>3. IndexEntry(p).pkg = job[p].pkg /\ IndexEntry(p) \in Extended(p)
    BY DEF IndexEntry, Extended
  <2>4. ASSUME ~raced, NEW pkg \in accepted', pkg.name = n
        PROVE  \E entry \in Extended(p) : entry.pkg = pkg
    <3>1. CASE pkg = job[p].pkg
      BY <2>3, <3>1
    <3>2. CASE pkg /= job[p].pkg
      <4>1. PICK entry \in read[p] : entry.pkg = pkg
        BY <2>2, <2>4, <3>2 DEF Remembers
      <4> QED BY <3>2, <4>1 DEF Extended
    <3> QED BY <3>1, <3>2
  <2>5. \A k \in Names : index'[k] = Absent => \A pkg \in accepted' : pkg.name /= k
    BY <2>2 DEF Remembers
  <2>6. ASSUME ~raced, NEW pkg \in accepted', index'[pkg.name].state = "whole"
        PROVE  \E entry \in index'[pkg.name].data : entry.pkg = pkg
    <3>1. CASE pkg.name = n
      BY <2>1, <2>4, <2>6, <3>1, FileStates
    <3>2. CASE pkg.name /= n
      <4>1. pkg \in accepted /\ pkg.name \in Names
        BY <1>0, <2>2, <3>2, NameOf
      <4> QED BY <2>6, <3>2, <4>1 DEF Remembers
    <3> QED BY <3>1, <3>2
  <2>7. ~raced => \A q \in Publishers : pc'[q] \in Updating => job[q].pkg.name /= n
    BY DEF Remembers
  <2>8. UNCHANGED <<job, read, raced>>
    OBVIOUS
  <2>9. \A q \in Publishers : pc'[q] \in Updating => pc[q] \in Updating
    OBVIOUS
  <2> QED BY <2>2, <2>5, <2>6, <2>7, <2>8, <2>9 DEF Remembers
<1> QED BY <1>1, <1>2, <1>3, <1>4, IndexFrame

\* An index that parses has every version that was accepted, unless two updates
\* of one index overlapped, wherever publishers died or failed: upsert_index
\* refuses an index that does not parse instead of starting a new one.
THEOREM IndexForgetsOnlyInRaces == Spec => []OnlyRacesForget
<1> DEFINE Inv == Shape /\ OwnNames /\ Remembers
<1>1. Init => Inv
  <2>1. Init => OwnNames /\ Remembers
    BY FileStates DEF Init, OwnNames, Remembers, IndexEntries, Updating
  <2> QED BY <2>1, ShapeInit
<1>2. Inv /\ [Next]_vars => Inv'
  BY ShapeStep, OwnNamesStep, RemembersStep
<1>3. Inv => OnlyRacesForget
  <2> SUFFICES ASSUME Inv, ~raced, NEW pkg \in accepted, index[pkg.name].state = "whole"
               PROVE  pkg \in Listed
    BY DEF OnlyRacesForget, IndexRemembers
  <2>1. PICK entry \in index[pkg.name].data : entry.pkg = pkg
    BY DEF Remembers
  <2>2. pkg.name \in Names
    BY NameOf DEF Shape, Processes
  <2>3. entry \in Entries
    BY <2>2 DEF Entries, IndexEntries
  <2> QED BY <2>1, <2>3 DEF Listed
<1> QED BY <1>1, <1>2, <1>3, PTL DEF Spec
----------------------------------------------------------------------------
(***************************************************************************)
(* The files of a package.                                                 *)
(***************************************************************************)
Backed(entry) ==
  /\ tarball[entry.pkg] = Whole(entry)
  /\ provenance[entry.pkg] = Whole(entry.pkg)

Recording == {"read_index", "create_index", "write_index"}

\* Which files a publisher has written, by the place it is at.
Written(p) ==
  LET pkg == job[p].pkg IN
  /\ pc[p] = "create_tarball" => tarball[pkg] = Absent
  /\ pc[p] = "write_tarball" => tarball[pkg] = Partial /\ provenance[pkg] = Absent
  /\ pc[p] = "create_provenance" => tarball[pkg] = Whole(IndexEntry(p))
                                    /\ provenance[pkg] = Absent
  /\ pc[p] = "write_provenance" => tarball[pkg] = Whole(IndexEntry(p))
                                   /\ provenance[pkg] = Partial
  /\ pc[p] \in Recording => Backed(IndexEntry(p))

\* A provenance document comes after its tarball, and every publisher is where
\* its files say.
InOrder ==
  /\ \A pkg \in Packages : tarball[pkg] = Absent => provenance[pkg] = Absent
  /\ \A p \in Publishers : Written(p)

\* One of the four file-system calls on the files of p's package.
Writes(p) ==
  \/ /\ pc[p] = "create_tarball" /\ pc'[p] = "write_tarball"
     /\ tarball' = [tarball EXCEPT ![job[p].pkg] = Partial]
     /\ UNCHANGED provenance
  \/ /\ pc[p] = "write_tarball" /\ pc'[p] = "create_provenance"
     /\ \E bytes \in Overwrite(tarball[job[p].pkg], IndexEntry(p)) :
          tarball' = [tarball EXCEPT ![job[p].pkg] = bytes]
     /\ UNCHANGED provenance
  \/ /\ pc[p] = "create_provenance" /\ pc'[p] = "write_provenance"
     /\ provenance' = [provenance EXCEPT ![job[p].pkg] = Partial]
     /\ UNCHANGED tarball
  \/ /\ pc[p] = "write_provenance" /\ pc'[p] = "read_index"
     /\ \E bytes \in Overwrite(provenance[job[p].pkg], job[p].pkg) :
          provenance' = [provenance EXCEPT ![job[p].pkg] = bytes]
     /\ UNCHANGED tarball

\* How a publisher moves in a step that writes none of those files.
Moves(q) ==
  \/ pc'[q] \in {"idle", "checks", "list", "exists"}
  \/ job'[q] = job[q] /\ \/ pc'[q] = pc[q]
                         \/ pc'[q] = "create_tarball" /\ tarball[job[q].pkg] = Absent
                         \/ pc[q] \in Recording /\ pc'[q] \in Recording

\* Every step is one of the two.
LEMMA FileFrame ==
  ASSUME Shape, [Next]_vars
  PROVE  \/ \E p \in Publishers : /\ Writes(p)
                                  /\ job' = job /\ UNCHANGED <<index, read, fetching>>
                                  /\ \A q \in Publishers \ {p} : pc'[q] = pc[q]
         \/ UNCHANGED <<tarball, provenance>> /\ \A q \in Publishers : Moves(q)
<1> DEFINE Wrote(p) == /\ Writes(p)
                       /\ job' = job /\ UNCHANGED <<index, read, fetching>>
                       /\ \A q \in Publishers \ {p} : pc'[q] = pc[q]
           Moved == UNCHANGED <<tarball, provenance>> /\ \A q \in Publishers : Moves(q)
<1> USE DEF Shape, Processes, files, history, Moves, Recording
<1>1. ASSUME NEW p \in Publishers, NEW pkg \in Packages, NEW body \in Bodies,
             NEW dry_run \in BOOLEAN, publish_with_options(p, pkg, body, dry_run)
      PROVE  Moved
  BY <1>1 DEF publish_with_options, Goto
<1>2. ASSUME NEW p \in Publishers,
             \/ checks_reject(p) \/ checks_pass(p) \/ check_conflict(p) \/ fail(p)
      PROVE  Moved
  BY <1>2 DEF checks_reject, checks_pass, check_conflict, fail, Ends, Goto
<1>3. ASSUME NEW p \in Publishers, check_exists(p)
      PROVE  Moved
  BY <1>3 DEF check_exists, tarball_exists, Ends, Goto, After
<1>4. ASSUME NEW p \in Publishers, create_tarball(p) \/ create_provenance(p)
      PROVE  Wrote(p)
  BY <1>4 DEF create_tarball, create_provenance, Goto, Writes
<1>5. ASSUME NEW p \in Publishers, write_tarball(p) \/ write_provenance(p)
      PROVE  Wrote(p)
  BY <1>5 DEF write_tarball, write_provenance, Goto, After, Writes, IndexEntry
<1>6. ASSUME NEW p \in Publishers, read_index(p) \/ create_index(p) \/ write_index(p)
      PROVE  Moved
  BY <1>6 DEF read_index, create_index, write_index, Ends, Goto
<1>7. ASSUME NEW pkg \in Packages, yank(pkg) PROVE Moved
  BY <1>7 DEF yank
<1>8. ASSUME NEW r \in Readers, NEW pkg \in Packages, fetch(r, pkg) PROVE Moved
  BY <1>8 DEF fetch
<1>9. ASSUME NEW r \in Readers, fetch_bytes(r) \/ fetch_done(r) PROVE Moved
  BY <1>9 DEF fetch_bytes, fetch_done
<1>10. ASSUME UNCHANGED vars PROVE Moved
  BY <1>10 DEF vars
<1> HIDE DEF Shape, Processes, Moved, Wrote
<1>11. Moved \/ \E p \in Publishers : Wrote(p)
  BY <1>1, <1>2, <1>3, <1>4, <1>5, <1>6, <1>7, <1>8, <1>9, <1>10 DEF Next, Publish
<1> QED BY <1>11 DEF Moved, Wrote

\* Two publishers at work have different packages.
LEMMA OwnPackages ==
  ASSUME Shape, Unshared, NEW p \in Publishers, NEW q \in Publishers, p /= q,
         pc[p] /= "idle", pc[q] /= "idle"
  PROVE  job[p].pkg /= job[q].pkg
  BY DEF Shape, Processes, Unshared

\* What a write does to the files of p's package, and that it leaves the others.
LEMMA WritesEffect ==
  ASSUME Shape, InOrder, NEW p \in Publishers, Writes(p), job' = job
  PROVE  /\ job[p].pkg \in Packages
         /\ \A pkg \in Packages : pkg /= job[p].pkg =>
              tarball'[pkg] = tarball[pkg] /\ provenance'[pkg] = provenance[pkg]
         /\ tarball[job[p].pkg].state = "whole" =>
              tarball'[job[p].pkg] = tarball[job[p].pkg]
         /\ provenance[job[p].pkg] \in {Absent, Partial}
         /\ tarball'[job[p].pkg] /= Absent
         /\ Written(p)'
<1> USE DEF Shape, TypeOK, Processes
<1>0. job[p].pkg \in Packages /\ Written(p)
  BY DEF Writes, InOrder
<1>1. CASE pc[p] = "create_tarball"
  BY <1>0, <1>1, FileStates DEF Writes, Written, Recording, InOrder
<1>2. CASE pc[p] = "write_tarball"
  <2>1. tarball[job[p].pkg] = Partial /\ provenance[job[p].pkg] = Absent
    BY <1>0, <1>2 DEF Written
  <2>2. tarball' = [tarball EXCEPT ![job[p].pkg] = Whole(IndexEntry(p))]
    BY <1>2, <2>1 DEF Writes, Overwrite
  <2> QED BY <1>0, <1>2, <2>1, <2>2, FileStates DEF Writes, Written, Recording, IndexEntry
<1>3. CASE pc[p] = "create_provenance"
  BY <1>0, <1>3, FileStates DEF Writes, Written, Recording, IndexEntry
<1>4. CASE pc[p] = "write_provenance"
  <2>1. /\ tarball[job[p].pkg] = Whole(IndexEntry(p))
        /\ provenance[job[p].pkg] = Partial
    BY <1>0, <1>4 DEF Written
  <2>2. provenance' = [provenance EXCEPT ![job[p].pkg] = Whole(job[p].pkg)]
    BY <1>4, <2>1 DEF Writes, Overwrite
  <2> QED BY <1>0, <1>4, <2>1, <2>2, FileStates
          DEF Writes, Written, Recording, IndexEntry, Backed
<1> QED BY <1>1, <1>2, <1>3, <1>4 DEF Writes

\* Publishers keep their order on the files of a package.
LEMMA InOrderStep == Unshared /\ Shape /\ InOrder /\ [Next]_vars => InOrder'
<1> SUFFICES ASSUME Unshared, Shape, InOrder, [Next]_vars PROVE InOrder'
  OBVIOUS
<1>1. ASSUME NEW p \in Publishers, Writes(p), job' = job,
             \A q \in Publishers \ {p} : pc'[q] = pc[q]
      PROVE  InOrder'
  <2>1. ASSUME NEW q \in Publishers, q /= p PROVE Written(q)'
    <3>1. CASE pc[q] = "idle"
      BY <1>1, <2>1, <3>1 DEF Written, Recording
    <3>2. CASE pc[q] /= "idle"
      <4>1. job[q].pkg /= job[p].pkg /\ job[q].pkg \in Packages
        BY <1>1, <2>1, <3>2, OwnPackages DEF Writes, Shape, Processes
      <4>2. tarball'[job[q].pkg] = tarball[job[q].pkg]
            /\ provenance'[job[q].pkg] = provenance[job[q].pkg]
        BY <1>1, <4>1, WritesEffect
      <4>3. Written(q)
        BY DEF InOrder
      <4> QED BY <1>1, <2>1, <4>2, <4>3 DEF Written, Recording, Backed, IndexEntry
    <3> QED BY <3>1, <3>2
  <2>2. Written(p)'
    BY <1>1, WritesEffect
  <2>3. \A pkg \in Packages : tarball'[pkg] = Absent => provenance'[pkg] = Absent
    BY <1>1, WritesEffect DEF InOrder
  <2> QED BY <2>1, <2>2, <2>3 DEF InOrder
<1>2. CASE UNCHANGED <<tarball, provenance>> /\ \A q \in Publishers : Moves(q)
  <2>1. ASSUME NEW q \in Publishers PROVE Written(q)'
    <3>1. Written(q) /\ Moves(q)
      BY <1>2 DEF InOrder
    <3> QED BY <1>2, <3>1 DEF Written, Moves, Recording, Backed, IndexEntry
  <2> QED BY <1>2, <2>1 DEF InOrder
<1> QED BY <1>1, <1>2, FileFrame

\* A tarball that is whole is never touched again.
LEMMA TarballStep ==
  Shape /\ InOrder /\ [Next]_vars =>
    \A pkg \in Packages : tarball[pkg].state = "whole" => tarball'[pkg] = tarball[pkg]
  BY FileFrame, WritesEffect

\* The files behind an entry stay as they are.
LEMMA BackedStep ==
  ASSUME Shape, InOrder, [Next]_vars, NEW entry \in Tarball, Backed(entry)
  PROVE  Backed(entry)'
<1>1. entry.pkg \in Packages
  BY DEF Tarball
<1>2. tarball'[entry.pkg] = tarball[entry.pkg]
  BY <1>1, TarballStep, FileStates DEF Backed
<1>3. provenance'[entry.pkg] = provenance[entry.pkg]
  BY <1>1, FileFrame, WritesEffect, FileStates DEF Backed
<1> QED BY <1>2, <1>3 DEF Backed

\* Everything that anybody has seen in an index is backed: the entries
\* themselves, what a publisher read of them, and what a fetch was promised.
Promised ==
  /\ ListedIsBacked
  /\ \A p \in Publishers : pc[p] \in Updating => \A entry \in read[p] : Backed(entry)
  /\ \A r \in Readers : fetching[r] /= NoJob =>
       \A entry \in fetching[r].listed :
         /\ entry.pkg = fetching[r].pkg
         /\ Backed(entry)
         /\ fetching[r].status \in {"ok", "not found"} => fetching[r].file = Whole(entry)

\* Only a fetch changes what is fetched.
LEMMA FetchFrame ==
  ASSUME [Next]_vars
  PROVE  \/ \E r \in Readers, pkg \in Packages : fetch(r, pkg)
         \/ \E r \in Readers : fetch_bytes(r) \/ fetch_done(r)
         \/ UNCHANGED fetching
<1>1. ASSUME NEW p \in Publishers, Publish(p) PROVE UNCHANGED fetching
  BY <1>1 DEF Publish, publish_with_options, checks_reject, checks_pass, check_conflict,
     check_exists, create_tarball, write_tarball, create_provenance, write_provenance,
     read_index, create_index, write_index, fail
<1>2. ASSUME NEW pkg \in Packages, yank(pkg) PROVE UNCHANGED fetching
  BY <1>2 DEF yank
<1>3. CASE UNCHANGED vars
  BY <1>3 DEF vars
<1> QED BY <1>1, <1>2, <1>3 DEF Next

\* The entries of the index stay backed, and so does what a publisher read.
LEMMA EntriesStep ==
  ASSUME Shape, InOrder, Promised, [Next]_vars
  PROVE  /\ \A entry \in Entries' : Backed(entry)'
         /\ \A p \in Publishers : pc'[p] \in Updating => \A entry \in read'[p] : Backed(entry)'
<1>1. Entries \subseteq Tarball /\ \A p \in Publishers : read[p] \subseteq Tarball
  BY FileCases DEF Entries, IndexEntries, Shape, TypeOK
<1>2. \A entry \in Entries : Backed(entry)'
  <2> SUFFICES ASSUME NEW entry \in Entries PROVE Backed(entry)'
    OBVIOUS
  <2> QED BY <1>1, BackedStep DEF Promised, ListedIsBacked, Backed
<1>3. ASSUME NEW p \in Publishers, pc[p] \in Updating
      PROVE  \A entry \in read[p] : Backed(entry)'
  BY <1>1, <1>3, BackedStep DEF Promised
<1>4. CASE /\ UNCHANGED <<index, read, accepted, raced>>
           /\ \A q \in Publishers :
                pc'[q] \in Updating => pc[q] \in Updating /\ job'[q] = job[q]
  BY <1>2, <1>3, <1>4 DEF Entries, IndexEntries
<1>5. ASSUME NEW p \in Publishers, read_index(p)
      PROVE  /\ Entries' = Entries
             /\ \A q \in Publishers : pc'[q] \in Updating =>
                  \A entry \in read'[q] : Backed(entry)'
  <2> DEFINE n == job[p].pkg.name
  <2>0. index' = index
    BY <1>5, ReadEffect
  <2>1. Entries' = Entries /\ n \in Names /\ index[n] \in File(SUBSET Tarball)
    <3>1. Entries' = Entries
      BY <2>0 DEF Entries, IndexEntries
    <3>2. n \in Names
      BY <1>5, ReadEffect
    <3> QED BY <3>1, <3>2 DEF Shape, TypeOK
  <2>2. index[n] \notin {Partial, Garbled} => parsed_index(n) \subseteq Entries
    BY <2>1, FileCases, FileStates DEF parsed_index, Entries, IndexEntries
  <2>3. ASSUME NEW q \in Publishers, pc'[q] \in Updating
        PROVE  \A entry \in read'[q] : Backed(entry)'
    <3>1. CASE q = p
      BY <1>2, <1>5, <2>2, <2>3, <3>1, ReadEffect
    <3>2. CASE q /= p
      BY <1>3, <1>5, <2>3, <3>2, ReadEffect
    <3> QED BY <3>1, <3>2
  <2> QED BY <2>1, <2>3
<1>6. ASSUME NEW p \in Publishers, create_index(p)
      PROVE  Entries' \subseteq Entries /\ read' = read
  <2>1. \A n \in Names : index'[n] = index[n] \/ index'[n] = Partial
    BY <1>6, CreateEffect DEF Shape, TypeOK
  <2> QED BY <1>6, <2>1, CreateEffect, FileStates DEF Entries, IndexEntries
<1>7. ASSUME NEW p \in Publishers, write_index(p)
      PROVE  Entries' \subseteq Entries \cup Extended(p) /\ read' = read
  <2>1. \A n \in Names : \/ index'[n] = index[n] \/ index'[n] = Garbled
                          \/ index'[n] = Whole(Extended(p))
    BY <1>7, WriteEffect
  <2> QED BY <1>7, <2>1, WriteEffect, FileStates DEF Entries, IndexEntries
<1>8. ASSUME NEW p \in Publishers, write_index(p)
      PROVE  \A entry \in Extended(p) : Backed(entry)'
  <2>1. pc[p] \in Updating /\ pc[p] \in Recording
    BY <1>8 DEF write_index, Updating, Recording
  <2>2. Backed(IndexEntry(p)) /\ IndexEntry(p) \in Tarball
    BY <1>8, <2>1 DEF InOrder, Written, write_index, IndexEntry, Tarball, Shape, Processes
  <2>3. Backed(IndexEntry(p))'
    <3>1. job'[p] = job[p]
      BY <1>8, WriteEffect
    <3> QED BY <2>2, <3>1, BackedStep DEF IndexEntry
  <2>4. IndexEntry(p)' = IndexEntry(p)
    BY <1>8, WriteEffect DEF IndexEntry
  <2> QED BY <1>3, <2>1, <2>3, <2>4 DEF Extended
<1>9. ASSUME NEW p \in Publishers, create_index(p) \/ write_index(p), NEW q \in Publishers,
             pc'[q] \in Updating
      PROVE  pc[q] \in Updating
  BY <1>9, CreateEffect, WriteEffect
<1> QED BY <1>2, <1>3, <1>4, <1>5, <1>6, <1>7, <1>8, <1>9, IndexFrame

\* What a fetch was promised stays true until it is read, and is what it reads.
LEMMA FetchesStep ==
  ASSUME Shape, InOrder, Promised, [Next]_vars, NEW r \in Readers,
         fetching'[r] /= NoJob, NEW entry \in fetching'[r].listed
  PROVE  /\ entry.pkg = fetching'[r].pkg
         /\ Backed(entry)'
         /\ fetching'[r].status \in {"ok", "not found"}
              => fetching'[r].file = Whole(entry)
<1> USE DEF Shape, Processes
<1>1. CASE UNCHANGED fetching
  <2>1. entry \in Tarball /\ fetching[r] \in Fetch
    BY <1>1 DEF Fetch
  <2> QED BY <1>1, <2>1, BackedStep DEF Promised
<1>2. ASSUME NEW k \in Readers, NEW pkg \in Packages, fetch(k, pkg), k = r
      PROVE  /\ entry.pkg = fetching'[r].pkg
             /\ entry \in Entries
             /\ fetching'[r].status \notin {"ok", "not found"}
  BY <1>2 DEF fetch
<1>3. ASSUME entry \in Entries PROVE Backed(entry)'
  <2>1. entry \in Tarball
    BY <1>3, FileCases DEF Entries, IndexEntries, TypeOK
  <2> QED BY <1>3, <2>1, BackedStep DEF Promised, ListedIsBacked, Backed
<1>4. ASSUME NEW k \in Readers, k /= r,
             (\E pkg \in Packages : fetch(k, pkg)) \/ fetch_bytes(k) \/ fetch_done(k)
      PROVE  fetching'[r] = fetching[r]
  BY <1>4 DEF fetch, fetch_bytes, fetch_done
<1>5. CASE fetching'[r] = fetching[r]
  <2>1. entry \in Tarball /\ fetching[r] \in Fetch
    BY <1>5 DEF Fetch
  <2> QED BY <1>5, <2>1, BackedStep DEF Promised
<1>6. CASE fetch_done(r)
  BY <1>6 DEF fetch_done
<1>7. CASE fetch_bytes(r)
  <2>1. fetching[r] \in Fetch /\ fetching[r] /= NoJob
    BY <1>7 DEF fetch_bytes
  <2>2. /\ fetching'[r].pkg = fetching[r].pkg /\ fetching'[r].listed = fetching[r].listed
        /\ fetching'[r].file = tarball[fetching[r].pkg]
    BY <1>7 DEF fetch_bytes
  <2>3. entry \in Tarball
    BY <2>1, <2>2 DEF Fetch
  <2>4. entry.pkg = fetching[r].pkg /\ Backed(entry)
    BY <2>1, <2>2 DEF Promised
  <2>5. tarball[fetching[r].pkg] = Whole(entry)
    BY <2>4 DEF Backed
  <2> QED BY <2>2, <2>3, <2>4, <2>5, BackedStep
<1> QED BY <1>1, <1>2, <1>3, <1>4, <1>5, <1>6, <1>7, FetchFrame

\* The files are in order from the start.
LEMMA InOrderInit == Init => InOrder /\ Promised
<1> SUFFICES ASSUME Init PROVE InOrder /\ Promised
  OBVIOUS
<1>1. InOrder
  BY DEF Init, InOrder, Written, Recording
<1>2. Entries = {}
  BY FileStates DEF Init, Entries, IndexEntries
<1>3. Promised
  BY <1>2 DEF Init, Promised, ListedIsBacked, Updating
<1> QED BY <1>1, <1>3

\* A package that the index lists can be fetched: its tarball has the listed
\* checksum and its provenance is whole, and a fetch that began when it was listed
\* returns exactly those bytes, wherever publishers died, whatever else they were
\* publishing. publish writes the index last.
THEOREM ListedCanBeFetched ==
  ASSUME Unshared
  PROVE  Spec => []ListedIsFetched
<1> DEFINE Inv == Shape /\ InOrder /\ Promised
<1>1. Init => Inv
  BY ShapeInit, InOrderInit
<1>2. Inv /\ [Next]_vars => Inv'
  <2> SUFFICES ASSUME Inv, [Next]_vars PROVE Inv'
    OBVIOUS
  <2>1. Shape' /\ InOrder'
    BY Unshared, ShapeStep, InOrderStep
  <2>2. ListedIsBacked'
    BY EntriesStep DEF ListedIsBacked, Backed
  <2>3. Promised'
    BY <2>2, EntriesStep, FetchesStep DEF Promised
  <2> QED BY <2>1, <2>3
<1>3. Inv => ListedIsFetched
  BY DEF Shape, Promised, ListedIsFetched, ListedFetchIsWhole
<1> QED BY <1>1, <1>2, <1>3, PTL DEF Spec

\* A published tarball is never rewritten, not even by a later publish of the
\* same version that got past the list because the list failed.
THEOREM TarballsAreImmutable ==
  ASSUME Unshared
  PROVE  Spec => TarballIsImmutable
<1> DEFINE Inv == Shape /\ InOrder
<1>1. Init => Inv
  BY ShapeInit, InOrderInit
<1>2. Inv /\ [Next]_vars => Inv'
  BY Unshared, ShapeStep, InOrderStep
<1>3. Inv /\ [Next]_vars => [\A pkg \in Packages :
        tarball[pkg].state = "whole" => tarball'[pkg] = tarball[pkg]]_vars
  BY TarballStep
<1> QED BY <1>1, <1>2, <1>3, PTL DEF Spec, TarballIsImmutable
============================================================================
