----------------------------- MODULE MCAccounts ------------------------------
(***************************************************************************)
(* An instance of Accounts for TLC.                                        *)
(***************************************************************************)
EXTENDS Accounts, TLC

Anybody == UNION {Permutations(S) : S \in {Requests, UserIds, Emails, Passwords, LinkIds, TokenIds}}
=============================================================================
