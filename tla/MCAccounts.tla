----------------------------- MODULE MCAccounts -----------------------------
(***************************************************************************)
(* Accounts for TLC.                                                       *)
(***************************************************************************)
EXTENDS Accounts, TLC

CONSTANTS ana, bia, nick, p1, p2, r1, r2

MCNames     == {ana, bia, nick}
MCEmails    == {ana, bia}
MCPasswords == {p1, p2}
MCRequests  == {r1, r2}

\* The e-mails, the passwords and the requests are alike.
Symmetry == Permutations(MCEmails) \cup Permutations(MCPasswords) \cup Permutations(MCRequests)
=============================================================================
