---------------------------- MODULE MCAccounts ----------------------------
(* Accounts with the seeded owner and one more user.                       *)
EXTENDS Accounts

CONSTANT owner

\* The owner's password is set, and then changed or reset once; that of the other
\* user, once given, stays.
MCMaxPasswords == [u \in Users |-> IF u = owner THEN 2 ELSE 1]
===========================================================================
