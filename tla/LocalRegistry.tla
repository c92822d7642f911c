---------------------------- MODULE LocalRegistry ----------------------------
(***************************************************************************)
(* The file-system registry of crates/ori-pkg/src/registry.rs and the      *)
(* publish workflow of crates/ori-pkg/src/publish.rs that drives it.       *)
(*                                                                         *)
(* Nothing is locked. A publisher is one `ori publish` process; a reader   *)
(* fetches. Every file-system call is a step of its own, and fs::write is  *)
(* two: it creates or truncates the file, then writes the bytes. A process *)
(* may die, or get an I/O error, before any of its steps.                  *)
(*                                                                         *)
(* A file is Absent, Partial (created or truncated, its bytes not all      *)
(* written) or Whole; writes of two processes may leave it Garbled. An     *)
(* index file that is Partial or Garbled does not parse.                   *)
(***************************************************************************)
EXTENDS Naturals

CONSTANTS
  Publishers,   \* the processes that run `ori publish`
  Readers,      \* the processes that run `ori fetch`
  Packages,     \* [name, version] records
  Bodies,       \* what a tarball may hold besides its name and version
  MayPublish,   \* the packages each publisher publishes
  MayFail,      \* whether processes die or meet I/O errors
  MaxAttempts   \* bound on publish attempts

Names == {pkg.name : pkg \in Packages}

ASSUME RegistryAssumption ==
  /\ \A pkg \in Packages : DOMAIN pkg = {"name", "version"}
  /\ MayPublish \in [Publishers -> SUBSET Packages]
  /\ MayFail \in BOOLEAN
  /\ MaxAttempts \in Nat

Absent == [state |-> "absent"]
Partial == [state |-> "partial"]
Garbled == [state |-> "garbled"]
Whole(data) == [state |-> "whole", data |-> data]
NoJob == [dry |-> FALSE]

VARIABLES
  tarball,      \* packages/{name}-{version}.ori-pkg
  provenance,   \* provenance/{name}-{version}.json
  index,        \* index/{name}.json: the tarballs it lists, by checksum
  yanked,       \* the packages yanked.log names
  pc, job,      \* where each publisher is, and what it publishes
  read,         \* the index a publisher read and is about to extend
  fetching,     \* what each reader is fetching, and what it got
  attempts,     \* bound: publishes started
  accepted,     \* history: the packages whose publish returned Ok
  raced         \* history: two publishers were updating one index at a time

files == <<tarball, provenance, index, yanked>>
history == <<attempts, accepted, raced>>
vars == <<files, pc, job, read, fetching, history>>

Tarball == [pkg : Packages, body : Bodies]

Init ==
  /\ tarball = [pkg \in Packages |-> Absent]
  /\ provenance = [pkg \in Packages |-> Absent]
  /\ index = [n \in Names |-> Absent]
  /\ yanked = {}
  /\ pc = [p \in Publishers |-> "idle"]
  /\ job = [p \in Publishers |-> NoJob]
  /\ read = [p \in Publishers |-> {}]
  /\ fetching = [r \in Readers |-> NoJob]
  /\ attempts = 0 /\ accepted = {} /\ raced = FALSE
----------------------------------------------------------------------------
\* LocalRegistry::list: it fails if one index file is not whole JSON;
\* otherwise it shows every version of every index.
list_fails == \E n \in Names : index[n] \in {Partial, Garbled}
IndexEntries(n) == IF index[n].state = "whole" THEN index[n].data ELSE {}
Entries == UNION {IndexEntries(n) : n \in Names}
Listed == {entry.pkg : entry \in Entries}

\* std::fs::write once the file is open: bytes that another writer put there
\* since it was truncated may show through, if there were more of them.
Overwrite(file, bytes) ==
  IF file \in {Absent, Partial} THEN {Whole(bytes)} ELSE {Whole(bytes), Garbled}

Goto(p, place) == pc' = [pc EXCEPT ![p] = place]

\* Mutant: no provenance is written.
After_mutant == [exists |-> "create_tarball", write_tarball |-> "read_index",
                 write_provenance |-> "read_index"]

\* The order in which publish writes its three files.
After == [exists |-> "create_tarball", write_tarball |-> "create_provenance",
          write_provenance |-> "read_index"]

\* Mutant: publish relies on the list alone.
tarball_exists_mutant(p) == FALSE

tarball_exists(p) == tarball[job[p].pkg] /= Absent

\* The index entry of p's package: its checksum stands for the tarball.
IndexEntry(p) == [pkg |-> job[p].pkg, body |-> job[p].body]

\* Mutant: the index is written anew.
parsed_index_mutant(n) == {}

\* The entries upsert_index starts from.
parsed_index(n) == IF index[n] = Absent THEN {} ELSE index[n].data

\* The publish of p returns: skipped, accepted or with an error code.
Ends(p) == Goto(p, "idle")
----------------------------------------------------------------------------
(***************************************************************************)
(* publish_with_options.                                                   *)
(***************************************************************************)

\* The call: a manifest, a payload for it, and the --dry-run flag.
publish_with_options(p, pkg, body, dry_run) ==
  /\ pc[p] = "idle" /\ attempts < MaxAttempts
  /\ pkg \in MayPublish[p]
  /\ attempts' = attempts + 1
  /\ job' = [job EXCEPT ![p] = [pkg |-> pkg, body |-> body, dry |-> dry_run]]
  /\ Goto(p, "checks")
  /\ UNCHANGED <<files, read, fetching, accepted, raced>>

\* The checks that look at no package file: manifest (PUB0001), audit
\* (PUB0003), registry directory (PUB0004), signature round trip (PUB0005).
checks_reject(p) ==
  /\ pc[p] = "checks"
  /\ Ends(p)
  /\ UNCHANGED <<files, job, read, fetching, history>>

\* Past them a dry run is over; the look at the list is for real ones only.
checks_pass(p) ==
  /\ pc[p] = "checks"
  /\ IF job[p].dry
       THEN Ends(p)
       ELSE Goto(p, "list")
  /\ UNCHANGED <<files, job, read, fetching, history>>

\* A listed version is a conflict; a list that fails is only a warning.
check_conflict(p) ==
  /\ pc[p] = "list"
  /\ IF ~list_fails /\ job[p].pkg \in Listed
       THEN Ends(p)
       ELSE Goto(p, "exists")
  /\ UNCHANGED <<files, job, read, fetching, history>>
----------------------------------------------------------------------------
(***************************************************************************)
(* LocalRegistry::publish.                                                 *)
(***************************************************************************)

\* A tarball that exists, whole or not, is AlreadyExists.
check_exists(p) ==
  /\ pc[p] = "exists"
  /\ IF tarball_exists(p)
       THEN Ends(p)
       ELSE Goto(p, After.exists)
  /\ UNCHANGED <<files, job, read, fetching, history>>

create_tarball(p) ==
  /\ pc[p] = "create_tarball"
  /\ tarball' = [tarball EXCEPT ![job[p].pkg] = Partial]
  /\ Goto(p, "write_tarball")
  /\ UNCHANGED <<provenance, index, yanked, job, read, fetching, history>>

write_tarball(p) ==
  /\ pc[p] = "write_tarball"
  /\ \E bytes \in Overwrite(tarball[job[p].pkg],
                            [pkg |-> job[p].pkg, body |-> job[p].body]) :
       tarball' = [tarball EXCEPT ![job[p].pkg] = bytes]
  /\ Goto(p, After.write_tarball)
  /\ UNCHANGED <<provenance, index, yanked, job, read, fetching, history>>

create_provenance(p) ==
  /\ pc[p] = "create_provenance"
  /\ provenance' = [provenance EXCEPT ![job[p].pkg] = Partial]
  /\ Goto(p, "write_provenance")
  /\ UNCHANGED <<tarball, index, yanked, job, read, fetching, history>>

write_provenance(p) ==
  /\ pc[p] = "write_provenance"
  /\ \E bytes \in Overwrite(provenance[job[p].pkg], job[p].pkg) :
       provenance' = [provenance EXCEPT ![job[p].pkg] = bytes]
  /\ Goto(p, After.write_provenance)
  /\ UNCHANGED <<tarball, index, yanked, job, read, fetching, history>>

\* upsert_index, the read: an index that does not parse ends the publish with
\* an Invalid error, which becomes PUB0001.
read_index(p) ==
  LET n == job[p].pkg.name IN
  /\ pc[p] = "read_index"
  /\ IF index[n] \in {Partial, Garbled}
       THEN Ends(p) /\ UNCHANGED <<read, raced>>
       ELSE /\ read' = [read EXCEPT ![p] = parsed_index(n)]
            /\ raced' = (raced \/ \E q \in Publishers \ {p} :
                                    /\ pc[q] \in {"create_index", "write_index"}
                                    /\ job[q].pkg.name = n)
            /\ Goto(p, "create_index")
  /\ UNCHANGED <<files, job, fetching, attempts, accepted>>

create_index(p) ==
  /\ pc[p] = "create_index"
  /\ index' = [index EXCEPT ![job[p].pkg.name] = Partial]
  /\ Goto(p, "write_index")
  /\ UNCHANGED <<tarball, provenance, yanked, job, read, fetching, history>>

\* upsert_index, the write, and the receipt.
write_index(p) ==
  LET pkg == job[p].pkg
      new == {entry \in read[p] : entry.pkg /= pkg}
               \cup {IndexEntry(p)}
  IN  /\ pc[p] = "write_index"
      /\ \E bytes \in Overwrite(index[pkg.name], new) :
           index' = [index EXCEPT ![pkg.name] = bytes]
      /\ accepted' = accepted \cup {pkg}
      /\ Ends(p)
      /\ UNCHANGED <<tarball, provenance, yanked, job, read, fetching, attempts,
                     raced>>

\* A publisher dies, or one of its file-system calls fails (PUB0004).
fail(p) ==
  /\ MayFail /\ pc[p] \notin {"idle", "checks"}
  /\ Ends(p)
  /\ UNCHANGED <<files, job, read, fetching, history>>
----------------------------------------------------------------------------
\* LocalRegistry::yank: the tarball must exist; one line is appended. The
\* append is one step, and no tarball is ever removed after the test.
yank(pkg) ==
  /\ tarball[pkg] /= Absent
  /\ pkg \notin yanked
  /\ yanked' = yanked \cup {pkg}
  /\ UNCHANGED <<tarball, provenance, index, pc, job, read, fetching, history>>

\* LocalRegistry::fetch: first the log ... `listed` is history: the index entry
\* of the package when the fetch began.
fetch(r, pkg) ==
  /\ fetching[r] = NoJob
  /\ fetching' = [fetching EXCEPT ![r] =
       [pkg |-> pkg, status |-> IF pkg \in yanked THEN "yanked" ELSE "reading",
        file |-> Absent,
        listed |-> {entry \in Entries : entry.pkg = pkg}]]
  /\ UNCHANGED <<files, pc, job, read, history>>

\* ... then the bytes, which may be none; a missing file is NotFound.
fetch_bytes(r) ==
  LET file == tarball[fetching[r].pkg] IN
  /\ fetching[r] /= NoJob /\ fetching[r].status = "reading"
  /\ fetching' = [fetching EXCEPT ![r] =
       [pkg |-> @.pkg, status |-> IF file = Absent THEN "not found" ELSE "ok",
        file |-> file, listed |-> @.listed]]
  /\ UNCHANGED <<files, pc, job, read, history>>

\* The result is used and forgotten.
fetch_done(r) ==
  /\ fetching[r] /= NoJob /\ fetching[r].status /= "reading"
  /\ fetching' = [fetching EXCEPT ![r] = NoJob]
  /\ UNCHANGED <<files, pc, job, read, history>>
----------------------------------------------------------------------------
Publish(p) ==
  \/ \E pkg \in Packages, body \in Bodies, dry_run \in BOOLEAN :
       publish_with_options(p, pkg, body, dry_run)
  \/ checks_reject(p)
  \/ checks_pass(p)
  \/ check_conflict(p)
  \/ check_exists(p)
  \/ create_tarball(p)
  \/ write_tarball(p)
  \/ create_provenance(p)
  \/ write_provenance(p)
  \/ read_index(p)
  \/ create_index(p)
  \/ write_index(p)
  \/ fail(p)

Next ==
  \/ \E p \in Publishers : Publish(p)
  \/ \E pkg \in Packages : yank(pkg)
  \/ \E r \in Readers, pkg \in Packages : fetch(r, pkg)
  \/ \E r \in Readers : fetch_bytes(r) \/ fetch_done(r)

Spec == Init /\ [][Next]_vars
----------------------------------------------------------------------------
(***************************************************************************)
(* Properties.                                                             *)
(***************************************************************************)

\* The state has the shape of the registry directory and of its processes.
File(content) == {Absent, Partial, Garbled} \cup {Whole(data) : data \in content}
TypeOK ==
  /\ tarball \in [Packages -> File(Tarball)]
  /\ provenance \in [Packages -> File(Packages)]
  /\ index \in [Names -> File(SUBSET Tarball)]
  /\ yanked \subseteq Packages
  /\ \A p \in Publishers : read[p] \subseteq Tarball
  /\ attempts \in 0..MaxAttempts

\* What the index lists is there, once: the tarball has the listed checksum and
\* the provenance document is whole, wherever a publisher stopped and whoever
\* else was publishing other packages. publish writes the index last.
ListedIsBacked ==
  \A entry \in Entries :
    /\ tarball[entry.pkg] = Whole(entry)
    /\ provenance[entry.pkg] = Whole(entry.pkg)

\* A published tarball is never rewritten, not even by a later publish of the
\* same version that got past the list because the list failed.
TarballIsImmutable ==
  [][\A pkg \in Packages :
       tarball[pkg].state = "whole" => tarball'[pkg] = tarball[pkg]]_vars

\* An index that parses has not forgotten a version that was accepted.
IndexRemembers ==
  \A pkg \in accepted : index[pkg.name].state = "whole" => pkg \in Listed

\* Deaths and partial writes alone make an index unreadable but never make it
\* forget: only two overlapping updates of one index do.
OnlyRacesForget == ~raced => IndexRemembers

\* A fetch of a version that was listed when it began returns exactly the
\* listed bytes, unless it was yanked.
ListedFetchIsWhole ==
  \A r \in Readers :
    fetching[r] /= NoJob /\ fetching[r].status \in {"ok", "not found"}
      => \A entry \in fetching[r].listed : fetching[r].file = Whole(entry)

\* Whatever was interrupted or overlapped, a package that can be found in the index
\* can be fetched, and what is fetched is what was listed.
ListedIsFetched == TypeOK /\ ListedIsBacked /\ ListedFetchIsWhole

\* "Failures partway through leave a recoverable state": with no publisher at
\* work, a tarball that makes every further attempt fail is at least listed.
RecoverableByRetry ==
  (\A p \in Publishers : pc[p] = "idle")
    => \A pkg \in Packages : tarball[pkg] /= Absent => pkg \in Listed
============================================================================
