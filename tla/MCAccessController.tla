------------------------- MODULE MCAccessController -------------------------
(***************************************************************************)
(* A small instance of AccessController.                                   *)
(***************************************************************************)
EXTENDS AccessController

CONSTANTS owner, friend, bank

\* the owner's rules, and the rules after a friend helped to replace the owner's key
Before == [primary |-> {owner}, recovery |-> {friend}, confirmation |-> {bank}]
After == [primary |-> {friend}, recovery |-> {bank}, confirmation |-> {bank, friend}]

MCRuleSets == {Before, After}
=============================================================================
