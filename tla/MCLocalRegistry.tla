--------------------------- MODULE MCLocalRegistry ---------------------------
(* Instances of the registry for TLC. *)
EXTENDS LocalRegistry

Pkg(n, v) == [name |-> n, version |-> v]

\* Two versions of one name and one version of another.
ThreePackages == {Pkg("a", 1), Pkg("a", 2), Pkg("b", 1)}
TwoVersions == {Pkg("a", 1), Pkg("a", 2)}

\* Each publisher has its own versions.
p1OwnsVersion1 == [p \in Publishers |->
  {pkg \in Packages : pkg.version = IF p = "p1" THEN 1 ELSE 2}]
============================================================================
