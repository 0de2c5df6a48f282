--------------------------- MODULE MCCredentials ---------------------------
(***************************************************************************)
(* Instances of Credentials for TLC.                                       *)
(***************************************************************************)
EXTENDS Credentials, TLC

CONSTANTS p1, p2, s1, s2

Ask(ops, headers, newPasswords, flags, given, secrets) ==
  [op : ops, header : headers, newPassword : newPasswords, flag : flags, gives : given,
   secret : secrets]

AnyHeader == Passwords \union {NoPassword}
AnyFlag   == {"true", "false", "absent"}

\* Requests whose body does not matter, or only partly.
Change1 == Ask({"updateMasterPassword"}, Passwords, Passwords, {"absent"}, {{}}, {s1})
Plain1(op) == Ask({op}, AnyHeader, {p1}, {"absent"}, {{}}, {s1})

\* All there are.
Everything ==
  Ask({"update", "restore"}, AnyHeader, {p1}, AnyFlag, {{"login"}, Fields}, Secrets)
    \union Change1 \union UNION {Plain1(op) : op \in
             {"createProperties", "findTables", "createAction", "delete"}}

\* What leaves a protected connection protected: a password comes with every
\* body, no body turns the protection off, and the tables are not listed.
Protecting ==
  Ask({"update", "restore"}, Passwords, {p1}, {"true"}, {{"login"}, Fields}, {s1})
    \union Ask({"update"}, Passwords, {p1}, {"absent"}, {{"login"}}, {s1})
    \union Change1
    \union Ask({"createProperties", "delete"}, Passwords, {p1}, {"absent"}, {{}}, {s1})

OneListing     == Ask({"findTables"}, {p1}, {p1}, {"absent"}, {{}}, {s1})
OneRestoration == Ask({"restore"}, {p2}, {p1}, {"true"}, {Fields}, {s1})

Slots == Permutations(Requests)
=============================================================================
