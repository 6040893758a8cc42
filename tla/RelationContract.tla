--------------------------- MODULE RelationContract ---------------------------
(***************************************************************************)
(* What the lists that hang on an NPC or a monster promise (the comments   *)
(* above updateWithRelations in both repositories): a list is replaced as  *)
(* a whole by one that a request in flight asks for, or a part is added to *)
(* it.  Nothing else takes a part away.                                    *)
(***************************************************************************)
CONSTANTS Owners, Parts

VARIABLES
    list,     \* [Owners -> SUBSET Parts]
    pending   \* the replacements that requests ask for: pairs <<owner, list>>

RelationInit ==
    /\ list = [o \in Owners |-> {}]
    /\ pending = {}

Ask(o, S) ==
    /\ pending' = pending \cup {<<o, S>>}
    /\ UNCHANGED list

\* The answer, also when the list could not be replaced.
Drop(o, S) ==
    /\ pending' = pending \ {<<o, S>>}
    /\ UNCHANGED list

\* (Another request may ask for the same.)
Replace(o, S) ==
    /\ <<o, S>> \in pending
    /\ list' = [list EXCEPT ![o] = S]
    /\ pending' \in {pending, pending \ {<<o, S>>}}

Grow(o, p) ==
    /\ list' = [list EXCEPT ![o] = @ \cup {p}]
    /\ UNCHANGED pending

RelationNext ==
    \E o \in Owners :
        \/ \E S \in SUBSET Parts : Ask(o, S) \/ Drop(o, S) \/ Replace(o, S)
        \/ \E p \in Parts : Grow(o, p)

RelationSpec == RelationInit /\ [][RelationNext]_<<list, pending>>
===============================================================================
