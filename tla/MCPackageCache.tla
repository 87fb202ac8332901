---------------------------- MODULE MCPackageCache ----------------------------
(* PackageCache with what TLC needs: Runners and packages are interchangeable. *)
EXTENDS PackageCache, TLC

Interchangeable == Permutations(Runners) \cup Permutations(Packages)
=============================================================================
