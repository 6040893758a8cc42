------------------------------ MODULE MCSheets ------------------------------
(***************************************************************************)
(* Instances of Sheets and SheetReads for TLC.                             *)
(***************************************************************************)
EXTENDS SheetReads, TLC

CONSTANTS a, b

\* A list, its reverse with a part less, none, and one that repeats a part.
SomeBodies == {<<a, b>>, <<b>>, <<a, a>>, <<>>}

OneKind == {[o \in Owners |-> k] : k \in SheetKinds}
Monster == {[o \in Owners |-> "monster"]}

\* The spell is in the last table, the other part in the first.
SomeTables   == [p \in Parts |-> IF p = a THEN 3 ELSE 1]
SomeIncludes == {Tables, {3}}

AllOperations == {"post", "admin", "patch", "learn", "delete", "fail"}
Symmetry == Permutations(Requests)
=============================================================================
