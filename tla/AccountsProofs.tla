--------------------------- MODULE AccountsProofs ----------------------------
(***************************************************************************)
(* Safety of accounts and their links, for any number of users, links and  *)
(* overlapping requests; and of the reminders that accounts are sent and   *)
(* of the job row they are sent under, for any number of instances and     *)
(* faults and any interleaving with the requests of the user.              *)
(***************************************************************************)
EXTENDS Accounts, Reminders, TLAPS

(***************************************************************************)
(* What a request knows at each place of its handler.                      *)
(***************************************************************************)
Placed(q) ==
  /\ q.pc \notin {"idle", "find"} => q.copy.active \in BOOLEAN
  /\ q.pc = "insert" /\ q.user = None => q.copy \in RowOf
  /\ q.pc \notin {"idle", "insert"} => q.user \in UserIds
  /\ q.pc \in {"old", "retire", "new"} => q.kind \in Kinds
  /\ q.pc \in {"retire", "spend"} => q.link \in LinkIds
  /\ q.pc = "find" => q.op = "find"
\* The link it follows: its row was there, and in the end is not.
Uses(q, rows) ==
  /\ q.pc = "spend" => q.op = "use"
  /\ q.op = "use" => /\ q.pc \in {"save", "spend", "done"}
                     /\ q.link \in LinkIds /\ rows[q.link] # None
                     /\ q.pc = "done" => rows[q.link] = Gone
\* Where an active account that it will save comes from.
Vouched(q, known) ==
  q.copy.active = TRUE =>
    /\ q.pc = "insert" => q.op # "register"
    /\ q.pc \in {"again", "furnish", "new", "old", "retire"} => q.user \in known
    /\ q.pc = "save" => q.user \in known \/ q.kind = "verify"
Knows(q, rows, known) == Placed(q) /\ Uses(q, rows) /\ Vouched(q, known)

Inv == /\ TypeOK
       /\ \A r \in Requests : Knows(req[r], links, confirmed)
       /\ ActiveWasConfirmed
       /\ \A l \in spent : links[l] = Gone

\* Two states of a request that differ in nothing but whom it met.
Same(q, p) == /\ q.op = p.op /\ q.pc = p.pc /\ q.user = p.user /\ q.kind = p.kind
              /\ q.link = p.link /\ q.copy = p.copy
\* Links are made once and never come back.
Aged(rows, later) ==
  \A l \in LinkIds :
    /\ rows[l] # None => later[l] # None
    /\ rows[l] = Gone => later[l] = Gone

(***************************************************************************)
(* What a request knows is not disturbed by the others.                    *)
(***************************************************************************)
LEMMA KnowsStays ==
  ASSUME NEW q, NEW p, Same(q, p), NEW rows, NEW later, NEW known, NEW more,
         Knows(p, rows, known), Aged(rows, later), known \subseteq more
  PROVE  Knows(q, later, more)
<1>1. Placed(q)
  BY DEF Same, Knows, Placed
<1>2. Uses(q, later)
  <2>1. Uses(p, rows) /\ q.op = p.op /\ q.pc = p.pc /\ q.link = p.link
    BY DEF Same, Knows
  <2>2. p.op = "use" => /\ p.link \in LinkIds /\ rows[p.link] # None
                        /\ p.pc = "done" => rows[p.link] = Gone
    BY <2>1 DEF Uses
  <2>3. p.op = "use" => /\ later[p.link] # None
                        /\ p.pc = "done" => later[p.link] = Gone
    BY <2>2 DEF Aged
  <2>4. QED
    BY <2>1, <2>2, <2>3 DEF Uses
<1>3. Vouched(q, more)
  BY DEF Same, Knows, Vouched
<1>4. QED
  BY <1>1, <1>2, <1>3 DEF Knows

(***************************************************************************)
(* A step of request r keeps the invariant when it keeps the types, leaves *)
(* the others alone, and what it leads to is known.                        *)
(***************************************************************************)
Apart(r) == \A x \in Requests \ {r} : Same(req'[x], req[x])
LEMMA StepKeepsInv ==
  ASSUME Inv, NEW r \in Requests, TypeOK', Apart(r), Knows(req'[r], links', confirmed'),
         Aged(links, links'), confirmed \subseteq confirmed',
         ActiveWasConfirmed', \A l \in spent' : links'[l] = Gone
  PROVE  Inv'
<1>1. \A x \in Requests \ {r} : Knows(req'[x], links', confirmed')
  BY KnowsStays DEF Inv, Apart
<1>2. \A x \in Requests : Knows(req'[x], links', confirmed')
  BY <1>1
<1>3. QED
  BY <1>2 DEF Inv

(***************************************************************************)
(* A request that starts, or goes on, as q.                                *)
(***************************************************************************)
LEMMA GoesType ==
  ASSUME TypeOK, NEW r \in Requests, NEW q \in ReqOf, Goes(r, q)
  PROVE  req' \in [Requests -> ReqOf] /\ Apart(r) /\ Same(req'[r], q)
<1> DEFINE e == [q EXCEPT !.alone = @ /\ Met(r, q) = {}]
           f(x) == [req[x] EXCEPT !.alone = FALSE]
<1>1. e \in ReqOf /\ Same(e, q)
  BY DEF ReqOf, Same
<1>2. \A x \in Requests : req[x] \in ReqOf
  BY DEF TypeOK
<1>3. \A x \in Requests : f(x) \in ReqOf /\ Same(f(x), req[x]) /\ Same(req[x], req[x])
  BY <1>2 DEF ReqOf, Same
<1>4. req' = [x \in Requests |-> IF x = r THEN e ELSE IF x \in Met(r, q) THEN f(x) ELSE req[x]]
  BY DEF Goes
<1> HIDE DEF e, f
<1>5. QED
  BY <1>1, <1>2, <1>3, <1>4 DEF Apart

LEMMA StartKeepsInv ==
  ASSUME Inv, NEW r \in Requests, NEW q \in ReqOf, Starts(r, q), Knows(q, links, confirmed),
         UNCHANGED <<users, links, confirmed, buried, spent>>,
         session' \in [TokenIds -> [user : UserIds, over : BOOLEAN] \union {None}]
  PROVE  Inv'
<1>1. TypeOK /\ Goes(r, q) /\ served' \in 0..MaxRequests
  BY DistinctValues DEF Inv, Starts, TypeOK
<1>2. req' \in [Requests -> ReqOf] /\ Apart(r) /\ Same(req'[r], q)
  BY <1>1, GoesType
<1>3. TypeOK'
  BY <1>1, <1>2 DEF TypeOK
<1>4. Aged(links, links) /\ confirmed \subseteq confirmed
  BY DEF Aged
<1>5. Knows(req'[r], links', confirmed')
  BY <1>2, <1>4, KnowsStays
<1>6. ActiveWasConfirmed' /\ (\A l \in spent' : links'[l] = Gone) /\ Aged(links, links')
  BY <1>4 DEF Inv, ActiveWasConfirmed
<1>7. QED
  BY <1>2, <1>3, <1>5, <1>6, StepKeepsInv

(***************************************************************************)
(* The requests that start.                                                *)
(***************************************************************************)
LEMMA RowsAreCopies ==
  ASSUME TypeOK, NEW u \in UserIds, Stored(users[u])
  PROVE  users[u] \in RowOf /\ users[u] \in CopyOf
<1>1. users[u] \in RowOf
  BY DEF TypeOK, Stored
<1>2. RowOf \subseteq CopyOf
  BY DEF RowOf, CopyOf
<1>3. QED
  BY <1>1, <1>2

LEMMA IssuedType ==
  ASSUME TypeOK, NEW u \in UserIds, Issued(u)
  PROVE  session' \in [TokenIds -> [user : UserIds, over : BOOLEAN] \union {None}]
<1> DEFINE Token == [user : UserIds, over : BOOLEAN]
<1>1. session \in [TokenIds -> Token \union {None}]
  BY DEF TypeOK
<1>2. [user |-> u, over |-> FALSE] \in Token
  OBVIOUS
<1>3. session' = session \/ \E t \in TokenIds : session' = [session EXCEPT ![t] = [user |-> u, over |-> FALSE]]
  BY DEF Issued
<1> HIDE DEF Token
<1>4. session' \in [TokenIds -> Token \union {None}]
  BY <1>1, <1>2, <1>3
<1>5. QED
  BY <1>4 DEF Token

\* A request about a user that was read.
LEMMA ReadsKnows ==
  ASSUME Inv, NEW u \in UserIds, Stored(users[u]), NEW q, q.op # "use",
         q.pc \in {"save", "old", "remove"}, q.user = u, q.copy = users[u],
         q.pc = "old" => q.kind \in Kinds
  PROVE  Knows(q, links, confirmed)
<1>1. users[u] \in RowOf
  BY RowsAreCopies DEF Inv
<1>2. Placed(q)
  BY <1>1 DEF Placed, RowOf
<1>3. Uses(q, links)
  BY DEF Uses
<1>4. users[u].active = TRUE => u \in confirmed
  BY DEF Inv, ActiveWasConfirmed
<1>5. Vouched(q, confirmed)
  BY <1>4 DEF Vouched
<1>6. QED
  BY <1>2, <1>3, <1>5 DEF Knows

LEMMA RegisterStarts ==
  ASSUME Inv, NEW r \in Requests, Register(r)
  PROVE  Inv'
<1>1. PICK e \in Emails, p \in Passwords :
        /\ Starts(r, [New("register", "insert") EXCEPT !.email = e, !.password = p,
                        !.copy = [email |-> e, password |-> p, active |-> FALSE]])
        /\ UNCHANGED <<users, links, session, confirmed, buried, spent>>
  BY DEF Register
<1> DEFINE c == [email |-> e, password |-> p, active |-> FALSE]
           q == [New("register", "insert") EXCEPT !.email = e, !.password = p, !.copy = c]
<1>2. c \in RowOf /\ c \in CopyOf /\ c.active = FALSE
  BY DEF RowOf, CopyOf
<1> HIDE DEF c
<1>3. q \in ReqOf
  BY <1>2 DEF ReqOf, Ops, Places, New, Idle
<1>4. q.op = "register" /\ q.pc = "insert" /\ q.copy = c
  BY DEF New, Idle
<1>5. Starts(r, q)
  BY <1>1 DEF c
<1> HIDE DEF q
<1>6. Knows(q, links, confirmed)
  BY <1>2, <1>4 DEF Knows, Placed, Uses, Vouched
<1>7. session' \in [TokenIds -> [user : UserIds, over : BOOLEAN] \union {None}]
  BY <1>1 DEF Inv, TypeOK
<1>8. QED
  BY <1>1, <1>3, <1>5, <1>6, <1>7, StartKeepsInv

LEMMA SocialRegisterStarts ==
  ASSUME Inv, NEW r \in Requests, SocialRegister(r)
  PROVE  Inv'
<1>1. PICK e \in Emails :
        /\ Starts(r, [New("social", "insert") EXCEPT !.email = e,
                        !.copy = [email |-> e, password |-> None, active |-> TRUE]])
        /\ UNCHANGED <<users, links, session, confirmed, buried, spent>>
  BY DEF SocialRegister
<1> DEFINE c == [email |-> e, password |-> None, active |-> TRUE]
           q == [New("social", "insert") EXCEPT !.email = e, !.copy = c]
<1>2. c \in RowOf /\ c \in CopyOf /\ c.active = TRUE
  BY DEF RowOf, CopyOf
<1> HIDE DEF c
<1>3. q \in ReqOf
  BY <1>2 DEF ReqOf, Ops, Places, New, Idle
<1>4. q.op = "social" /\ q.pc = "insert" /\ q.copy = c
  BY DEF New, Idle
<1>5. Starts(r, q)
  BY <1>1 DEF c
<1> HIDE DEF q
<1>6. Knows(q, links, confirmed)
  BY <1>2, <1>4 DEF Knows, Placed, Uses, Vouched
<1>7. session' \in [TokenIds -> [user : UserIds, over : BOOLEAN] \union {None}]
  BY <1>1 DEF Inv, TypeOK
<1>8. QED
  BY <1>1, <1>3, <1>5, <1>6, <1>7, StartKeepsInv

\* The requests that first read a user, and keep the copy.
LEMMA ReadsType ==
  ASSUME TypeOK, NEW u \in UserIds, Stored(users[u]), NEW op \in Ops, NEW place \in Places
  PROVE  /\ Reads(New(op, place), u) \in ReqOf
         /\ Reads(New(op, place), u).op = op /\ Reads(New(op, place), u).pc = place
         /\ Reads(New(op, place), u).user = u /\ Reads(New(op, place), u).copy = users[u]
         /\ Reads(New(op, place), u).before = users[u]
<1>1. users[u] \in RowOf /\ users[u] \in CopyOf
  BY RowsAreCopies
<1>2. QED
  BY <1>1 DEF ReqOf, Reads, New, Idle

LEMMA ReadStarts ==
  ASSUME Inv, NEW r \in Requests, NEW u \in UserIds, Stored(users[u]),
         NEW op \in {"ask", "delete", "rename"}, NEW kind \in Kinds \union {None},
         NEW place \in {"old", "remove", "save"}, place = "old" => kind \in Kinds,
         \/ kind = None /\ Starts(r, Reads(New(op, place), u))
         \/ Starts(r, [Reads(New(op, place), u) EXCEPT !.kind = kind]),
         UNCHANGED <<users, links, confirmed, buried, spent>>,
         session' \in [TokenIds -> [user : UserIds, over : BOOLEAN] \union {None}]
  PROVE  Inv'
<1> DEFINE q == Reads(New(op, place), u)
           k == [q EXCEPT !.kind = kind]
<1>1. q \in ReqOf /\ q.op = op /\ q.pc = place /\ q.user = u /\ q.copy = users[u]
  BY ReadsType DEF Inv, Ops, Places
<1>2. (kind = None /\ Starts(r, q)) \/ Starts(r, k)
  OBVIOUS
<1> HIDE DEF q
<1>3. k \in ReqOf /\ k.op = op /\ k.pc = place /\ k.user = u /\ k.copy = users[u] /\ k.kind = kind
  BY <1>1 DEF ReqOf
<1> HIDE DEF k
<1>4. CASE Starts(r, k)
  <2>1. Knows(k, links, confirmed)
    BY <1>3, ReadsKnows
  <2>2. QED
    BY <1>3, <1>4, <2>1, StartKeepsInv
<1>5. CASE kind = None /\ Starts(r, q)
  <2>1. place # "old"
    BY <1>5, DistinctValues DEF Kinds
  <2>2. Knows(q, links, confirmed)
    BY <1>1, <2>1, ReadsKnows
  <2>3. QED
    BY <1>1, <1>5, <2>2, StartKeepsInv
<1>6. QED
  BY <1>2, <1>4, <1>5

LEMMA AskStarts ==
  ASSUME Inv, NEW r \in Requests, AskForPassword(r) \/ AskForEmail(r) \/ AskToVerify(r)
  PROVE  Inv'
<1>1. session' \in [TokenIds -> [user : UserIds, over : BOOLEAN] \union {None}]
  BY DEF Inv, TypeOK, AskForPassword, AskForEmail, AskToVerify
<1>2. \A t \in TokenIds : Admitted(t) => session[t].user \in UserIds /\ Stored(users[session[t].user])
  BY DEF Admitted, Inv, TypeOK
<1>3. PICK u \in UserIds, kind \in Kinds :
        /\ Stored(users[u])
        /\ Starts(r, [Reads(New("ask", "old"), u) EXCEPT !.kind = kind])
        /\ UNCHANGED <<users, links, confirmed, buried, spent>>
  <2>1. CASE AskForPassword(r)
    BY <2>1 DEF AskForPassword, UsersWith, Kinds
  <2>2. CASE AskForEmail(r)
    BY <2>2, <1>2 DEF AskForEmail, Kinds
  <2>3. CASE AskToVerify(r)
    BY <2>3, <1>2 DEF AskToVerify, Kinds
  <2>4. QED
    BY <2>1, <2>2, <2>3
<1>4. QED
  BY <1>1, <1>3, ReadStarts

LEMMA DeleteStarts ==
  ASSUME Inv, NEW r \in Requests, Delete(r) PROVE Inv'
<1>1. PICK t \in TokenIds :
        /\ Admitted(t)
        /\ Starts(r, Reads(New("delete", "remove"), session[t].user))
        /\ UNCHANGED <<users, links, session, confirmed, buried, spent>>
  BY DEF Delete
<1>2. session[t].user \in UserIds /\ Stored(users[session[t].user])
  BY <1>1 DEF Admitted, Inv, TypeOK
<1>3. session' \in [TokenIds -> [user : UserIds, over : BOOLEAN] \union {None}]
  BY <1>1 DEF Inv, TypeOK
<1>4. QED
  BY <1>1, <1>2, <1>3, ReadStarts

LEMMA SocialLoginStarts ==
  ASSUME Inv, NEW r \in Requests, SocialLogin(r) PROVE Inv'
<1>1. PICK u \in UserIds :
        /\ Stored(users[u])
        /\ \/ Starts(r, Reads(New("rename", "save"), u)) /\ UNCHANGED session
           \/ Issued(u) /\ UNCHANGED <<req, served>>
        /\ UNCHANGED <<users, links, confirmed, buried, spent>>
  BY DEF SocialLogin, UsersWith
<1>2. u \in UserIds /\ Stored(users[u])
  BY <1>1
<1>3. CASE Starts(r, Reads(New("rename", "save"), u)) /\ UNCHANGED session
  <2>1. session' \in [TokenIds -> [user : UserIds, over : BOOLEAN] \union {None}]
    BY <1>3 DEF Inv, TypeOK
  <2>2. QED
    BY <1>1, <1>2, <1>3, <2>1, ReadStarts
<1>4. CASE Issued(u) /\ UNCHANGED <<req, served>>
  <2>1. session' \in [TokenIds -> [user : UserIds, over : BOOLEAN] \union {None}]
    BY <1>2, <1>4, IssuedType DEF Inv
  <2>2. QED
    BY <1>1, <1>4, <2>1 DEF Inv, TypeOK, ActiveWasConfirmed
<1>5. QED
  BY <1>1, <1>3, <1>4

LEMMA ChangePasswordStarts ==
  ASSUME Inv, NEW r \in Requests, ChangePassword(r) PROVE Inv'
<1>1. PICK u \in UserIds, new \in Passwords :
        /\ Stored(users[u])
        /\ Starts(r, [Reads(New("change", "save"), u) EXCEPT !.password = new, !.copy.password = new])
        /\ UNCHANGED <<users, links, session, confirmed, buried, spent>>
  BY DEF ChangePassword, UsersWith
<1> DEFINE q == Reads(New("change", "save"), u)
           k == [q EXCEPT !.password = new, !.copy.password = new]
<1>2. u \in UserIds /\ Stored(users[u])
  BY <1>1
<1>3. q \in ReqOf /\ q.op = "change" /\ q.pc = "save" /\ q.user = u /\ q.copy = users[u]
  BY <1>2, ReadsType DEF Inv, Ops, Places
<1>4. Starts(r, k)
  BY <1>1
<1> HIDE DEF q
<1>5. q.copy \in RowOf
  BY <1>2, <1>3, RowsAreCopies DEF Inv
<1>6. [q.copy EXCEPT !.password = new] \in CopyOf
  BY <1>5 DEF RowOf, CopyOf
<1>7. k \in ReqOf
  BY <1>3, <1>6 DEF ReqOf
<1>8. k.op = "change" /\ k.pc = "save" /\ k.user = u /\ k.copy.active = users[u].active
  BY <1>3, <1>5 DEF ReqOf, RowOf
<1> HIDE DEF k
<1>9. users[u].active \in BOOLEAN /\ (users[u].active = TRUE => u \in confirmed)
  BY <1>2, <1>3, <1>5 DEF RowOf, Inv, ActiveWasConfirmed
<1>10. Knows(k, links, confirmed)
  BY <1>2, <1>8, <1>9 DEF Knows, Placed, Uses, Vouched
<1>11. session' \in [TokenIds -> [user : UserIds, over : BOOLEAN] \union {None}]
  BY <1>1 DEF Inv, TypeOK
<1>12. QED
  BY <1>1, <1>4, <1>7, <1>10, <1>11, StartKeepsInv

LEMMA FindMeStarts ==
  ASSUME Inv, NEW r \in Requests, FindMe(r) PROVE Inv'
<1>1. PICK t \in TokenIds :
        /\ Admitted(t)
        /\ Starts(r, [New("find", "find") EXCEPT !.user = session[t].user])
        /\ UNCHANGED <<users, links, session, confirmed, buried, spent>>
  BY DEF FindMe
<1> DEFINE q == [New("find", "find") EXCEPT !.user = session[t].user]
<1>2. session[t].user \in UserIds
  BY <1>1 DEF Admitted, Inv, TypeOK
<1>3. Nobody \in CopyOf
  BY DEF Nobody, CopyOf
<1>4. q \in ReqOf
  BY <1>2, <1>3 DEF ReqOf, Ops, Places, New, Idle
<1>5. q.op = "find" /\ q.pc = "find" /\ q.user = session[t].user /\ q.copy = Nobody
  BY DEF New, Idle
<1>6. Starts(r, q)
  BY <1>1
<1> HIDE DEF q
<1>7. Nobody.active # TRUE
  BY DistinctValues DEF Nobody
<1>8. Knows(q, links, confirmed)
  BY <1>2, <1>5, <1>7 DEF Knows, Placed, Uses, Vouched
<1>9. session' \in [TokenIds -> [user : UserIds, over : BOOLEAN] \union {None}]
  BY <1>1 DEF Inv, TypeOK
<1>10. QED
  BY <1>1, <1>4, <1>6, <1>8, <1>9, StartKeepsInv

(***************************************************************************)
(* A link is followed: its user is read, and the copy changed.             *)
(***************************************************************************)
LEMMA FollowStarts ==
  ASSUME Inv, NEW r \in Requests, NEW l \in LinkIds, Stored(links[l]),
         NEW kind \in Kinds, NEW e \in Emails \union {None},
         NEW p \in Passwords \union {None, Undefined}, Stored(users[links[l].user]),
         NEW c \in CopyOf, c.active \in BOOLEAN,
         c.active = TRUE => kind = "verify" \/ users[links[l].user].active = TRUE,
         Starts(r, [Reads(New("use", "save"), links[l].user) EXCEPT
                      !.kind = kind, !.link = l, !.email = e, !.password = p, !.copy = c]),
         UNCHANGED <<users, links, session, confirmed, buried, spent>>
  PROVE  Inv'
<1> DEFINE u == links[l].user
           q == Reads(New("use", "save"), u)
           k == [q EXCEPT !.kind = kind, !.link = l, !.email = e, !.password = p, !.copy = c]
<1>1. u \in UserIds
  BY DEF Inv, TypeOK, LinkOf, Stored
<1>2. q \in ReqOf /\ q.op = "use" /\ q.pc = "save" /\ q.user = u
  BY <1>1, ReadsType DEF Inv, Ops, Places
<1>3. Starts(r, k)
  OBVIOUS
<1> HIDE DEF q
<1>4. k \in ReqOf
  BY <1>2 DEF ReqOf
<1>5. k.op = "use" /\ k.pc = "save" /\ k.user = u /\ k.copy = c /\ k.kind = kind /\ k.link = l
  BY <1>2 DEF ReqOf
<1> HIDE DEF k
<1>6. c.active = TRUE => u \in confirmed \/ kind = "verify"
  BY <1>1 DEF Inv, ActiveWasConfirmed
<1>7. links[l] # None
  BY DEF Stored
<1> HIDE DEF u
<1>8. Placed(k) /\ Uses(k, links)
  BY <1>1, <1>5, <1>7 DEF Placed, Uses
<1>9. Vouched(k, confirmed)
  BY <1>5, <1>6 DEF Vouched
<1>10. session' \in [TokenIds -> [user : UserIds, over : BOOLEAN] \union {None}]
  BY DEF Inv, TypeOK
<1>11. QED
  BY <1>3, <1>4, <1>8, <1>9, <1>10, StartKeepsInv DEF Knows

LEMMA ResetStarts ==
  ASSUME Inv, NEW r \in Requests, ResetPassword(r) PROVE Inv'
<1>1. PICK p \in Passwords \union {Undefined}, l \in LinkIds :
        /\ Stored(links[l]) /\ Stored(users[links[l].user])
        /\ Starts(r, [Reads(New("use", "save"), links[l].user) EXCEPT
                        !.kind = "password", !.link = l, !.email = None, !.password = p,
                        !.copy = [users[links[l].user] EXCEPT !.password = p]])
        /\ UNCHANGED <<users, links, session, confirmed, buried, spent>>
  BY DEF ResetPassword, Follow
<1> DEFINE row == users[links[l].user]
           c   == [row EXCEPT !.password = p]
<1>2. row \in RowOf
  BY <1>1, RowsAreCopies DEF Inv, TypeOK, LinkOf, Stored
<1>3. c \in CopyOf /\ c.active = row.active /\ c.active \in BOOLEAN
  BY <1>2 DEF RowOf, CopyOf
<1> HIDE DEF c
<1>4. QED
  BY <1>1, <1>3, FollowStarts DEF Kinds, c

LEMMA ChangeEmailStarts ==
  ASSUME Inv, NEW r \in Requests, ChangeEmail(r) PROVE Inv'
<1>1. PICK e \in Emails, l \in LinkIds :
        /\ Stored(links[l]) /\ Stored(users[links[l].user])
        /\ Starts(r, [Reads(New("use", "save"), links[l].user) EXCEPT
                        !.kind = "email", !.link = l, !.email = e, !.password = None,
                        !.copy = [users[links[l].user] EXCEPT !.email = e]])
        /\ UNCHANGED <<users, links, session, confirmed, buried, spent>>
  BY DEF ChangeEmail, Follow
<1> DEFINE row == users[links[l].user]
           c   == [row EXCEPT !.email = e]
<1>2. row \in RowOf
  BY <1>1, RowsAreCopies DEF Inv, TypeOK, LinkOf, Stored
<1>3. c \in CopyOf /\ c.active = row.active /\ c.active \in BOOLEAN
  BY <1>2 DEF RowOf, CopyOf
<1> HIDE DEF c
<1>4. QED
  BY <1>1, <1>3, FollowStarts DEF Kinds, c

LEMMA VerifyStarts ==
  ASSUME Inv, NEW r \in Requests, VerifyEmail(r) PROVE Inv'
<1>1. PICK l \in LinkIds :
        /\ Stored(links[l]) /\ Stored(users[links[l].user])
        /\ Starts(r, [Reads(New("use", "save"), links[l].user) EXCEPT
                        !.kind = "verify", !.link = l, !.email = None, !.password = None,
                        !.copy = [users[links[l].user] EXCEPT !.active = TRUE]])
        /\ UNCHANGED <<users, links, session, confirmed, buried, spent>>
  BY DEF VerifyEmail, Follow
<1> DEFINE row == users[links[l].user]
           c   == [row EXCEPT !.active = TRUE]
<1>2. row \in RowOf
  BY <1>1, RowsAreCopies DEF Inv, TypeOK, LinkOf, Stored
<1>3. c \in CopyOf /\ c.active \in BOOLEAN
  BY <1>2 DEF RowOf, CopyOf
<1> HIDE DEF c
<1>4. QED
  BY <1>1, <1>3, FollowStarts DEF Kinds, c

(***************************************************************************)
(* What a save leaves in the table.                                        *)
(***************************************************************************)
LEMMA SavedRow ==
  ASSUME NEW row \in RowOf \union {None, Gone}, NEW copy \in CopyOf, copy.active \in BOOLEAN
  PROVE  Saved(row, copy) \in RowOf /\ Saved(row, copy).active = copy.active
<1>1. Kept(None, copy.email) \in Emails \union {None}
  BY DEF Kept, CopyOf
<1>2. \A old : Kept(old, copy.active) = copy.active
  BY DistinctValues DEF Kept
<1>3. CASE Stored(row)
  <2>1. row \in RowOf
    BY <1>3 DEF Stored
  <2>2. Kept(row.email, copy.email) \in Emails \union {None}
    BY <2>1 DEF Kept, CopyOf, RowOf
  <2>3. Kept(row.password, copy.password) \in Passwords \union {None, Lost}
    BY <2>1 DEF Kept, CopyOf, RowOf
  <2>4. QED
    BY <1>2, <1>3, <2>2, <2>3 DEF Saved, RowOf
<1>4. CASE ~Stored(row)
  BY <1>1, <1>2, <1>4 DEF Saved, RowOf
<1>5. QED
  BY <1>3, <1>4

LEMMA SavedKeeps ==
  ASSUME Inv, NEW u \in UserIds, NEW copy \in CopyOf, copy.active \in BOOLEAN,
         users' = SavedUsers(u, copy), confirmed \subseteq confirmed',
         copy.active = TRUE => u \in confirmed'
  PROVE  /\ users' \in [UserIds -> RowOf \union {None, Gone}]
         /\ ActiveWasConfirmed'
<1>1. users \in [UserIds -> RowOf \union {None, Gone}]
  BY DEF Inv, TypeOK
<1> DEFINE row == Saved(users[u], copy)
<1>2. row \in RowOf /\ row.active = copy.active
  BY <1>1, SavedRow
<1>3. users' = [users EXCEPT ![u] = row]
  BY DEF SavedUsers
<1> HIDE DEF row
<1>4. users' \in [UserIds -> RowOf \union {None, Gone}]
  BY <1>1, <1>2, <1>3
<1>5. \A v \in UserIds : users'[v] = IF v = u THEN row ELSE users[v]
  BY <1>1, <1>3
<1>6. \A v \in UserIds : Stored(users[v]) /\ users[v].active = TRUE => v \in confirmed
  BY DEF Inv, ActiveWasConfirmed
<1>7. \A v \in UserIds : Stored(users'[v]) /\ users'[v].active = TRUE => v \in confirmed'
  BY <1>2, <1>5, <1>6
<1>8. QED
  BY <1>4, <1>7 DEF ActiveWasConfirmed

(***************************************************************************)
(* A step of request r, which goes on as q, that leaves users alone, and   *)
(* one that saves the copy of r.                                           *)
(***************************************************************************)
LEMMA QuietStep ==
  ASSUME Inv, NEW r \in Requests, NEW q \in ReqOf, req' = [req EXCEPT ![r] = q],
         Knows(q, links', confirmed), UNCHANGED <<users, confirmed>>,
         links' \in [LinkIds -> LinkOf \union {None, Gone}], Aged(links, links'),
         session' \in [TokenIds -> [user : UserIds, over : BOOLEAN] \union {None}],
         buried' \subseteq UserIds, spent' \subseteq LinkIds, UNCHANGED served,
         \A l \in spent' : links'[l] = Gone
  PROVE  Inv'
<1>1. req \in [Requests -> ReqOf]
  BY DEF Inv, TypeOK
<1>2. req' \in [Requests -> ReqOf] /\ req'[r] = q
  BY <1>1
<1>3. Apart(r)
  BY <1>1 DEF Apart, Same
<1>4. TypeOK'
  BY <1>2 DEF Inv, TypeOK
<1>5. ActiveWasConfirmed'
  BY DEF Inv, ActiveWasConfirmed
<1>6. QED
  BY <1>2, <1>3, <1>4, <1>5, StepKeepsInv

LEMMA SavingStep ==
  ASSUME Inv, NEW r \in Requests, NEW q \in ReqOf, req' = [req EXCEPT ![r] = q],
         Knows(q, links', confirmed'), users' = SavedUsers(req[r].user, req[r].copy),
         req[r].pc \in {"again", "new", "save"},
         confirmed' \subseteq UserIds, confirmed \subseteq confirmed',
         req[r].copy.active = TRUE => req[r].user \in confirmed',
         links' \in [LinkIds -> LinkOf \union {None, Gone}], Aged(links, links'),
         UNCHANGED <<session, buried, spent, served>>
  PROVE  Inv'
<1>1. req \in [Requests -> ReqOf]
  BY DEF Inv, TypeOK
<1>2. req' \in [Requests -> ReqOf] /\ req'[r] = q
  BY <1>1
<1>3. Apart(r)
  BY <1>1 DEF Apart, Same
<1>4. req[r].user \in UserIds /\ req[r].copy \in CopyOf /\ req[r].copy.active \in BOOLEAN
  BY <1>1 DEF Inv, Knows, Placed, ReqOf
<1>5. users' \in [UserIds -> RowOf \union {None, Gone}] /\ ActiveWasConfirmed'
  BY <1>4, SavedKeeps
<1>6. TypeOK'
  BY <1>2, <1>5 DEF Inv, TypeOK
<1>7. \A l \in spent' : links'[l] = Gone
  BY DEF Inv, TypeOK, Aged
<1>8. QED
  BY <1>2, <1>3, <1>5, <1>6, <1>7, StepKeepsInv

(***************************************************************************)
(* Requests that go on.                                                    *)
(***************************************************************************)
\* A request that takes its next step.
LEMMA StepGives ==
  ASSUME Inv, NEW r \in Requests, NEW place \in Places, Step(r, place)
  PROVE  \E q \in ReqOf :
           /\ req' = [req EXCEPT ![r] = q] /\ q.pc = place
           /\ q.op = req[r].op /\ q.user = req[r].user /\ q.kind = req[r].kind
           /\ q.link = req[r].link /\ q.copy = req[r].copy
<1> DEFINE q == [req[r] EXCEPT !.pc = place]
<1>1. req[r] \in ReqOf
  BY DEF Inv, TypeOK
<1>2. /\ q \in ReqOf /\ q.pc = place
      /\ q.op = req[r].op /\ q.user = req[r].user /\ q.kind = req[r].kind
      /\ q.link = req[r].link /\ q.copy = req[r].copy
  BY <1>1 DEF ReqOf
<1>3. req' = [req EXCEPT ![r] = q]
  BY DEF Step
<1> HIDE DEF q
<1>4. QED
  BY <1>2, <1>3

LEMMA SaveAgainStep ==
  ASSUME Inv, NEW r \in Requests, SaveAgain(r) PROVE Inv'
<1>1. PICK q \in ReqOf :
        /\ req' = [req EXCEPT ![r] = q] /\ q.pc = "furnish"
        /\ q.op = req[r].op /\ q.user = req[r].user /\ q.kind = req[r].kind
        /\ q.link = req[r].link /\ q.copy = req[r].copy
  BY StepGives DEF SaveAgain, Places
<1>2. /\ req[r].pc = "again" /\ users' = SavedUsers(req[r].user, req[r].copy)
      /\ UNCHANGED <<links, session, confirmed, buried, spent, served>>
  BY DEF SaveAgain
<1>3. Knows(req[r], links, confirmed)
  BY DEF Inv
<1>4. Knows(q, links, confirmed)
  BY <1>1, <1>2, <1>3 DEF Knows, Placed, Uses, Vouched
<1>5. req[r].copy.active = TRUE => req[r].user \in confirmed
  BY <1>2, <1>3 DEF Knows, Vouched
<1>6. links \in [LinkIds -> LinkOf \union {None, Gone}] /\ confirmed \subseteq UserIds
  BY DEF Inv, TypeOK
<1>7. Aged(links, links)
  BY DEF Aged
<1>8. QED
  BY <1>1, <1>2, <1>4, <1>5, <1>6, <1>7, SavingStep

LEMMA SaveStep ==
  ASSUME Inv, NEW r \in Requests, Save(r) PROVE Inv'
<1>1. PICK q \in ReqOf :
        /\ req' = [req EXCEPT ![r] = q]
        /\ q.pc = IF req[r].op = "use" THEN "spend" ELSE "done"
        /\ q.op = req[r].op /\ q.user = req[r].user /\ q.kind = req[r].kind
        /\ q.link = req[r].link /\ q.copy = req[r].copy
  BY StepGives DEF Save, Places
<1>2. /\ req[r].pc = "save" /\ users' = SavedUsers(req[r].user, req[r].copy)
      /\ UNCHANGED <<links, session, buried, spent, served>>
      /\ confirmed' = IF req[r].kind = "verify" THEN confirmed \union {req[r].user} ELSE confirmed
  BY DEF Save
<1>3. Knows(req[r], links, confirmed)
  BY DEF Inv
<1>4. Placed(q) /\ Uses(q, links) /\ Vouched(q, confirmed')
  BY <1>1, <1>2, <1>3 DEF Knows, Placed, Uses, Vouched
<1>5. req[r].copy.active = TRUE => req[r].user \in confirmed'
  BY <1>2, <1>3 DEF Knows, Vouched
<1>6. links \in [LinkIds -> LinkOf \union {None, Gone}] /\ confirmed \subseteq UserIds
  BY DEF Inv, TypeOK
<1>7. confirmed' \subseteq UserIds /\ confirmed \subseteq confirmed'
  BY <1>2, <1>3, <1>6 DEF Knows, Placed
<1>8. Aged(links, links)
  BY DEF Aged
<1>9. Knows(q, links, confirmed')
  BY <1>4 DEF Knows
<1>10. QED
  BY <1>1, <1>2, <1>5, <1>6, <1>7, <1>8, <1>9, SavingStep

\* A link is made where there was none.
LEMMA NewLinkStep ==
  ASSUME Inv, NEW r \in Requests, NewLink(r) PROVE Inv'
<1>1. PICK l \in LinkIds :
        /\ links[l] = None
        /\ links' = [links EXCEPT ![l] = [kind |-> req[r].kind, user |-> req[r].user]]
        /\ req' = [req EXCEPT ![r].pc = "done", ![r].link = l]
  BY DEF NewLink, FreshLinks
<1>2. /\ req[r].pc = "new" /\ users' = SavedUsers(req[r].user, req[r].copy)
      /\ UNCHANGED <<session, confirmed, buried, spent, served>>
  BY DEF NewLink
<1>3. Knows(req[r], links, confirmed) /\ req[r] \in ReqOf
  BY DEF Inv, TypeOK
<1>4. links \in [LinkIds -> LinkOf \union {None, Gone}] /\ confirmed \subseteq UserIds
  BY DEF Inv, TypeOK
<1> DEFINE q == [req[r] EXCEPT !.pc = "done", !.link = l]
           row == [kind |-> req[r].kind, user |-> req[r].user]
<1>5. q \in ReqOf /\ q.pc = "done" /\ q.op = req[r].op /\ q.user = req[r].user /\ q.copy = req[r].copy
  BY <1>3 DEF ReqOf, Places
<1>6. req' = [req EXCEPT ![r] = q]
  BY <1>1
<1>7. row \in LinkOf /\ row # None /\ row # Gone
  BY <1>2, <1>3, DistinctValues DEF Knows, Placed, LinkOf
<1>8. links' = [links EXCEPT ![l] = row]
  BY <1>1
<1> HIDE DEF q, row
<1>9. links' \in [LinkIds -> LinkOf \union {None, Gone}] /\ Aged(links, links')
  BY <1>1, <1>4, <1>7, <1>8, DistinctValues DEF Aged
<1>10. Knows(q, links', confirmed)
  BY <1>2, <1>3, <1>5 DEF Knows, Placed, Uses, Vouched
<1>11. req[r].copy.active = TRUE => req[r].user \in confirmed
  BY <1>2, <1>3 DEF Knows, Vouched
<1>12. QED
  BY <1>2, <1>4, <1>5, <1>6, <1>9, <1>10, <1>11, SavingStep

LEMMA FurnishStep ==
  ASSUME Inv, NEW r \in Requests, Furnish(r) PROVE Inv'
<1> DEFINE first == req[r].op = "register"
           kind  == IF first THEN "verify" ELSE req[r].kind
           place == IF first THEN "new" ELSE "done"
           q     == [req[r] EXCEPT !.pc = place, !.kind = kind]
<1>1. Knows(req[r], links, confirmed) /\ req[r] \in ReqOf
  BY DEF Inv, TypeOK
<1>2. req[r].pc = "furnish" /\ UNCHANGED <<users, links, session, confirmed, buried, spent, served>>
  BY DEF Furnish
<1>3. req' = [req EXCEPT ![r].pc = place, ![r].kind = kind]
  <2>1. req \in [Requests -> ReqOf]
    BY DEF Inv, TypeOK
  <2>2. QED
    BY <1>1, <2>1 DEF Furnish, ReqOf
<1>4. req' = [req EXCEPT ![r] = q]
  BY <1>3
<1>5. kind \in Kinds \union {None} /\ (place = "new" => kind \in Kinds) /\ place \in {"new", "done"}
  BY <1>1 DEF ReqOf, Kinds
<1> HIDE DEF place, kind
<1>6. /\ q \in ReqOf /\ q.pc = place /\ q.kind = kind /\ q.op = req[r].op
      /\ q.user = req[r].user /\ q.copy = req[r].copy
  BY <1>1, <1>5 DEF ReqOf, Places
<1> HIDE DEF q
<1>8. Knows(q, links, confirmed)
  BY <1>1, <1>2, <1>5, <1>6 DEF Knows, Placed, Uses, Vouched
<1>9. Aged(links, links)
  BY DEF Aged
<1>10. QED
  BY <1>2, <1>4, <1>6, <1>8, <1>9, QuietStep DEF Inv, TypeOK

\* The old link of its kind is removed next, or there is none.
LEMMA FindOldGives ==
  ASSUME Inv, NEW r \in Requests, FindOld(r)
  PROVE  \E q \in ReqOf :
           /\ req' = [req EXCEPT ![r] = q]
           /\ q.op = req[r].op /\ q.user = req[r].user
           /\ q.kind = req[r].kind /\ q.copy = req[r].copy
           /\ q.pc = "new" \/ (q.pc = "retire" /\ q.link \in LinkIds)
<1>1. CASE Step(r, "new")
  BY <1>1, StepGives DEF Places
<1>2. CASE \E l \in LinkIds : req' = [req EXCEPT ![r].pc = "retire", ![r].link = l]
  <2>1. PICK l \in LinkIds : req' = [req EXCEPT ![r].pc = "retire", ![r].link = l]
    BY <1>2
  <2>2. req[r] \in ReqOf
    BY DEF Inv, TypeOK
  <2> DEFINE q == [req[r] EXCEPT !.pc = "retire", !.link = l]
  <2>3. /\ q \in ReqOf /\ q.pc = "retire" /\ q.link = l /\ q.op = req[r].op
        /\ q.user = req[r].user /\ q.kind = req[r].kind /\ q.copy = req[r].copy
    BY <2>2 DEF ReqOf, Places
  <2>4. req' = [req EXCEPT ![r] = q]
    BY <2>1
  <2> HIDE DEF q
  <2>5. QED
    BY <2>3, <2>4
<1>3. QED
  BY <1>1, <1>2 DEF FindOld, LinksOf

LEMMA FindOldStep ==
  ASSUME Inv, NEW r \in Requests, FindOld(r) PROVE Inv'
<1>1. Knows(req[r], links, confirmed)
  BY DEF Inv
<1>2. req[r].pc = "old" /\ UNCHANGED <<users, links, session, confirmed, buried, spent, served>>
  BY DEF FindOld
<1>3. PICK q \in ReqOf :
        /\ req' = [req EXCEPT ![r] = q]
        /\ q.op = req[r].op /\ q.user = req[r].user
        /\ q.kind = req[r].kind /\ q.copy = req[r].copy
        /\ q.pc = "new" \/ (q.pc = "retire" /\ q.link \in LinkIds)
  BY FindOldGives
<1>4. Knows(q, links, confirmed)
  BY <1>1, <1>2, <1>3 DEF Knows, Placed, Uses, Vouched
<1>5. Aged(links, links)
  BY DEF Aged
<1>6. QED
  BY <1>2, <1>3, <1>4, <1>5, QuietStep DEF Inv, TypeOK

\* A link that is removed is gone, if it ever was.
LEMMA RemovedLinksAge ==
  ASSUME TypeOK, NEW l \in LinkIds, links' = RemovedLinks(l)
  PROVE  /\ links' \in [LinkIds -> LinkOf \union {None, Gone}] /\ Aged(links, links')
         /\ links[l] # None => links'[l] = Gone
<1>1. links \in [LinkIds -> LinkOf \union {None, Gone}]
  BY DEF TypeOK
<1>2. links' = [links EXCEPT ![l] = IF Stored(links[l]) THEN Gone ELSE links[l]]
  BY DEF RemovedLinks
<1>3. QED
  BY <1>1, <1>2, DistinctValues DEF Stored, Aged

LEMMA RetireOldStep ==
  ASSUME Inv, NEW r \in Requests, RetireOld(r) PROVE Inv'
<1>1. PICK q \in ReqOf :
        /\ req' = [req EXCEPT ![r] = q] /\ q.pc = "new"
        /\ q.op = req[r].op /\ q.user = req[r].user /\ q.kind = req[r].kind
        /\ q.link = req[r].link /\ q.copy = req[r].copy
  BY StepGives DEF RetireOld, Places
<1>2. /\ req[r].pc = "retire" /\ links' = RemovedLinks(req[r].link)
      /\ UNCHANGED <<users, session, confirmed, buried, spent, served>>
  BY DEF RetireOld
<1>3. Knows(req[r], links, confirmed)
  BY DEF Inv
<1>4. Knows(q, links', confirmed)
  BY <1>1, <1>2, <1>3 DEF Knows, Placed, Uses, Vouched
<1>5. req[r].link \in LinkIds
  BY <1>2, <1>3 DEF Knows, Placed
<1>6. links' \in [LinkIds -> LinkOf \union {None, Gone}] /\ Aged(links, links')
  BY <1>2, <1>5, RemovedLinksAge DEF Inv
<1>7. \A l \in spent' : links'[l] = Gone
  BY <1>2, <1>6 DEF Inv, TypeOK, Aged
<1>8. QED
  BY <1>1, <1>2, <1>4, <1>6, <1>7, QuietStep DEF Inv, TypeOK

LEMMA SpendStep ==
  ASSUME Inv, NEW r \in Requests, Spend(r) PROVE Inv'
<1>1. PICK q \in ReqOf :
        /\ req' = [req EXCEPT ![r] = q] /\ q.pc = "done"
        /\ q.op = req[r].op /\ q.user = req[r].user /\ q.kind = req[r].kind
        /\ q.link = req[r].link /\ q.copy = req[r].copy
  BY StepGives DEF Spend, Places
<1>2. /\ req[r].pc = "spend" /\ links' = RemovedLinks(req[r].link)
      /\ UNCHANGED <<users, session, confirmed, buried, spent, served>>
  BY DEF Spend
<1>3. Knows(req[r], links, confirmed)
  BY DEF Inv
<1>4. req[r].link \in LinkIds /\ links[req[r].link] # None
  BY <1>2, <1>3 DEF Knows, Placed, Uses
<1>5. /\ links' \in [LinkIds -> LinkOf \union {None, Gone}] /\ Aged(links, links')
      /\ links'[req[r].link] = Gone
  BY <1>2, <1>4, RemovedLinksAge DEF Inv
<1>6. Placed(q) /\ Vouched(q, confirmed)
  BY <1>1, <1>2, <1>3 DEF Knows, Placed, Vouched
<1>7. Uses(q, links')
  BY <1>1, <1>4, <1>5, DistinctValues DEF Uses
<1>8. Knows(q, links', confirmed)
  BY <1>6, <1>7 DEF Knows
<1>9. \A l \in spent' : links'[l] = Gone
  BY <1>2, <1>5 DEF Inv, TypeOK, Aged
<1>10. QED
  BY <1>1, <1>2, <1>5, <1>8, <1>9, QuietStep DEF Inv, TypeOK

\* A request that is over knows nothing.
LEMMA IdleKnows ==
  ASSUME NEW rows, NEW known
  PROVE  Idle \in ReqOf /\ Knows(Idle, rows, known)
<1>1. Nobody \in CopyOf /\ Nobody.active # TRUE
  BY DistinctValues DEF Nobody, CopyOf
<1>2. Idle \in ReqOf
  BY <1>1 DEF Idle, ReqOf, Places
<1>3. Idle.op # "use" /\ Idle.pc = "idle" /\ Idle.copy = Nobody
  BY DistinctValues DEF Idle, Ops
<1>4. Placed(Idle) /\ Uses(Idle, rows) /\ Vouched(Idle, known)
  BY <1>1, <1>3 DEF Placed, Uses, Vouched
<1>5. QED
  BY <1>2, <1>4 DEF Knows

LEMMA FailStep ==
  ASSUME Inv, NEW r \in Requests, Fail(r) PROVE Inv'
<1>1. /\ req' = [req EXCEPT ![r] = Idle]
      /\ UNCHANGED <<users, links, session, confirmed, buried, spent, served>>
  BY DEF Fail
<1>2. Idle \in ReqOf /\ Knows(Idle, links', confirmed)
  BY IdleKnows
<1>3. Aged(links, links')
  BY <1>1 DEF Aged
<1>4. QED
  BY <1>1, <1>2, <1>3, QuietStep DEF Inv, TypeOK

LEMMA AnswerStep ==
  ASSUME Inv, NEW r \in Requests, Answer(r) PROVE Inv'
<1>1. /\ req[r].pc = "done" /\ req' = [req EXCEPT ![r] = Idle]
      /\ Issued(req[r].user) \/ UNCHANGED session
      /\ buried' = IF req[r].op = "delete" /\ req[r].alone THEN buried \union {req[r].user} ELSE buried
      /\ spent' = IF req[r].op = "use" THEN spent \union {req[r].link} ELSE spent
      /\ UNCHANGED <<users, links, confirmed, served>>
  BY DEF Answer
<1>2. Idle \in ReqOf /\ Knows(Idle, links', confirmed)
  BY IdleKnows
<1>3. Aged(links, links')
  BY <1>1 DEF Aged
<1>4. /\ req[r].user \in UserIds
      /\ req[r].op = "use" => req[r].link \in LinkIds /\ links[req[r].link] = Gone
  BY <1>1 DEF Inv, Knows, Placed, Uses
<1>5. session' \in [TokenIds -> [user : UserIds, over : BOOLEAN] \union {None}]
  BY <1>1, <1>4, IssuedType DEF Inv, TypeOK
<1>6. buried' \subseteq UserIds /\ spent' \subseteq LinkIds
  BY <1>1, <1>4 DEF Inv, TypeOK
<1>7. \A l \in spent' : links'[l] = Gone
  BY <1>1, <1>4 DEF Inv
<1>8. QED
  BY <1>1, <1>2, <1>3, <1>5, <1>6, <1>7, QuietStep DEF Inv, TypeOK

\* A user who is made with the id of a token.
LEMMA FindStep ==
  ASSUME Inv, NEW r \in Requests, Find(r) PROVE Inv'
<1>1. /\ req[r].pc = "find"
      /\ UNCHANGED <<users, links, session, confirmed, buried, spent, served>>
  BY DEF Find
<1>2. Knows(req[r], links, confirmed) /\ req[r] \in ReqOf
  BY DEF Inv, TypeOK
<1> DEFINE c == [req[r].copy EXCEPT !.active = TRUE]
           q == [req[r] EXCEPT !.pc = "insert", !.copy = c]
<1>3. c \in CopyOf /\ c.active = TRUE
  BY <1>2 DEF ReqOf, CopyOf
<1>4. req' = [req EXCEPT ![r] = Idle] \/ req' = [req EXCEPT ![r] = q]
  BY DEF Find
<1> HIDE DEF c
<1>5. q \in ReqOf /\ q.pc = "insert" /\ q.copy = c /\ q.op = req[r].op /\ q.user = req[r].user
  BY <1>2, <1>3 DEF ReqOf, Places
<1> HIDE DEF q
<1>6. q.op = "find" /\ q.user \in UserIds /\ q.user # None
  BY <1>1, <1>2, <1>5, DistinctValues DEF Knows, Placed
<1>7. Knows(q, links', confirmed)
  BY <1>3, <1>5, <1>6 DEF Knows, Placed, Uses, Vouched
<1>8. Idle \in ReqOf /\ Knows(Idle, links', confirmed)
  BY IdleKnows
<1>9. Aged(links, links')
  BY <1>1 DEF Aged
<1>10. PICK k \in ReqOf : req' = [req EXCEPT ![r] = k] /\ Knows(k, links', confirmed)
  BY <1>4, <1>5, <1>7, <1>8
<1>11. QED
  BY <1>1, <1>9, <1>10, QuietStep DEF Inv, TypeOK

(***************************************************************************)
(* The first save of a new user, and the removal of a user.                *)
(***************************************************************************)
LEMMA InsertStep ==
  ASSUME Inv, NEW r \in Requests, Insert(r) PROVE Inv'
<1>1. PICK u \in UserIds :
        /\ IF req[r].user = None THEN users[u] = None ELSE u = req[r].user
        /\ users' = IF req[r].user = None THEN [users EXCEPT ![u] = req[r].copy]
                    ELSE SavedUsers(u, req[r].copy)
        /\ Goes(r, [req[r] EXCEPT !.user = u, !.pc = "again"])
        /\ confirmed' = IF req[r].op = "register" THEN confirmed ELSE confirmed \union {u}
  BY DEF Insert
<1>2. req[r].pc = "insert" /\ UNCHANGED <<links, session, buried, spent, served>>
  BY DEF Insert
<1>3. Knows(req[r], links, confirmed) /\ req[r] \in ReqOf /\ TypeOK
  BY DEF Inv, TypeOK
<1> DEFINE q == [req[r] EXCEPT !.user = u, !.pc = "again"]
<1>4. /\ q \in ReqOf /\ q.pc = "again" /\ q.user = u
      /\ q.op = req[r].op /\ q.copy = req[r].copy
  BY <1>3 DEF ReqOf, Places
<1>5. Goes(r, q)
  BY <1>1
<1> HIDE DEF q
<1>6. req' \in [Requests -> ReqOf] /\ Apart(r) /\ Same(req'[r], q)
  BY <1>3, <1>4, <1>5, GoesType
<1>7. /\ req[r].copy \in CopyOf /\ req[r].copy.active \in BOOLEAN
      /\ req[r].user = None => req[r].copy \in RowOf
      /\ req[r].op # "use"
      /\ req[r].copy.active = TRUE => req[r].op # "register"
  BY <1>2, <1>3 DEF ReqOf, Knows, Placed, Uses, Vouched
<1>8. /\ confirmed \subseteq confirmed' /\ confirmed' \subseteq UserIds
      /\ req[r].copy.active = TRUE => u \in confirmed'
  BY <1>1, <1>3, <1>7 DEF TypeOK
<1>9. Knows(q, links, confirmed')
  BY <1>4, <1>7, <1>8 DEF Knows, Placed, Uses, Vouched
<1>10. Aged(links, links) /\ Aged(links, links')
  BY <1>2 DEF Aged
<1>11. Knows(req'[r], links', confirmed')
  BY <1>2, <1>6, <1>9, <1>10, KnowsStays
<1>12. users' \in [UserIds -> RowOf \union {None, Gone}] /\ ActiveWasConfirmed'
  <2>1. CASE req[r].user = None
    <3>1. users' = [users EXCEPT ![u] = req[r].copy] /\ req[r].copy \in RowOf
      BY <1>1, <1>7, <2>1
    <3>2. users' \in [UserIds -> RowOf \union {None, Gone}]
      BY <1>3, <3>1 DEF TypeOK
    <3>3. \A v \in UserIds : users'[v] = IF v = u THEN req[r].copy ELSE users[v]
      BY <1>3, <3>1 DEF TypeOK
    <3>4. \A v \in UserIds : Stored(users[v]) /\ users[v].active = TRUE => v \in confirmed
      BY DEF Inv, ActiveWasConfirmed
    <3>5. \A v \in UserIds : Stored(users'[v]) /\ users'[v].active = TRUE => v \in confirmed'
      BY <1>8, <3>3, <3>4
    <3>6. QED
      BY <3>2, <3>5 DEF ActiveWasConfirmed
  <2>2. CASE req[r].user # None
    <3>1. users' = SavedUsers(u, req[r].copy)
      BY <1>1, <2>2
    <3>2. QED
      BY <1>7, <1>8, <3>1, SavedKeeps
  <2>3. QED
    BY <2>1, <2>2
<1>13. TypeOK'
  BY <1>2, <1>3, <1>6, <1>8, <1>12 DEF TypeOK
<1>14. \A l \in spent' : links'[l] = Gone
  BY <1>2 DEF Inv
<1>15. QED
  BY <1>6, <1>8, <1>10, <1>11, <1>12, <1>13, <1>14, StepKeepsInv

LEMMA RemoveStep ==
  ASSUME Inv, NEW r \in Requests, Remove(r) PROVE Inv'
<1>1. PICK q \in ReqOf :
        /\ req' = [req EXCEPT ![r] = q] /\ q.pc = "done"
        /\ q.op = req[r].op /\ q.user = req[r].user /\ q.kind = req[r].kind
        /\ q.link = req[r].link /\ q.copy = req[r].copy
  BY StepGives DEF Remove, Places
<1>2. /\ req[r].pc = "remove"
      /\ users' = [users EXCEPT ![req[r].user] = IF Stored(@) THEN Gone ELSE @]
      /\ links' = OrphansRemoved(req[r].user)
      /\ UNCHANGED <<session, confirmed, buried, spent, served>>
  BY DEF Remove
<1>3. Knows(req[r], links, confirmed) /\ TypeOK
  BY DEF Inv
<1>4. req[r].user \in UserIds /\ req[r].op # "use"
  BY <1>2, <1>3 DEF Knows, Placed, Uses
<1>5. links' \in [LinkIds -> LinkOf \union {None, Gone}] /\ Aged(links, links')
  BY <1>2, <1>3, DistinctValues DEF OrphansRemoved, TypeOK, Aged, Stored
<1>6. users' \in [UserIds -> RowOf \union {None, Gone}]
  BY <1>2, <1>3 DEF TypeOK
<1>7. \A v \in UserIds : users'[v] = users[v] \/ users'[v] = Gone
  BY <1>2, <1>3, <1>4 DEF TypeOK
<1>8. ActiveWasConfirmed'
  BY <1>2, <1>7 DEF Inv, ActiveWasConfirmed, Stored
<1>9. req' \in [Requests -> ReqOf] /\ req'[r] = q
  BY <1>1, <1>3 DEF TypeOK
<1>10. Apart(r)
  BY <1>1, <1>3 DEF Apart, Same, TypeOK
<1>11. TypeOK'
  BY <1>2, <1>3, <1>5, <1>6, <1>9 DEF TypeOK
<1>12. Knows(q, links', confirmed')
  BY <1>1, <1>2, <1>4, <1>3 DEF Knows, Placed, Uses, Vouched
<1>13. \A l \in spent' : links'[l] = Gone
  BY <1>2, <1>3, <1>5 DEF Inv, TypeOK, Aged
<1>14. confirmed \subseteq confirmed' /\ Knows(req'[r], links', confirmed')
  BY <1>2, <1>9, <1>12
<1>15. QED
  BY <1>5, <1>8, <1>10, <1>11, <1>13, <1>14, StepKeepsInv

\* Log in, log out, and a token that is too old: only sessions change.
LEMMA SessionStep ==
  ASSUME Inv, Login \/ LogOut \/ Expire PROVE Inv'
<1> DEFINE Token == [user : UserIds, over : BOOLEAN]
<1>1. session \in [TokenIds -> Token \union {None}] /\ TypeOK
  BY DEF Inv, TypeOK
<1>2. UNCHANGED <<users, links, req, confirmed, buried, spent, served>>
  BY DEF Login, LogOut, Expire
<1>3. session' \in [TokenIds -> Token \union {None}]
  <2>1. CASE Login
    BY <1>1, <2>1, IssuedType DEF Login, UsersWith
  <2>2. CASE LogOut \/ Expire
    <3>1. PICK t \in TokenIds : session[t] # None /\ session' = [session EXCEPT ![t].over = TRUE]
      BY <2>2 DEF LogOut, Expire, Admitted
    <3>2. [session[t] EXCEPT !.over = TRUE] \in Token
      BY <1>1, <3>1
    <3>3. QED
      BY <1>1, <3>1, <3>2
  <2>3. QED
    BY <2>1, <2>2
<1>4. QED
  BY <1>2, <1>3 DEF Inv, TypeOK, ActiveWasConfirmed

(***************************************************************************)
(* The invariant.                                                          *)
(***************************************************************************)
LEMMA InitHasInv == Init => Inv
<1> SUFFICES ASSUME Init PROVE Inv
  OBVIOUS
<1>1. Idle \in ReqOf /\ \A r \in Requests : Knows(req[r], links, confirmed)
  BY IdleKnows DEF Init
<1>2. TypeOK
  BY <1>1, DistinctValues DEF Init, TypeOK
<1>3. ActiveWasConfirmed
  BY DEF Init, ActiveWasConfirmed, Stored
<1>4. \A l \in spent : links[l] = Gone
  BY DEF Init
<1>5. QED
  BY <1>1, <1>2, <1>3, <1>4 DEF Inv

LEMMA RequestKeepsInv ==
  ASSUME Inv, NEW r \in Requests,
         \/ Register(r) \/ SocialRegister(r) \/ Insert(r) \/ SaveAgain(r) \/ Furnish(r) \/ NewLink(r)
         \/ SocialLogin(r) \/ ChangePassword(r)
         \/ AskForPassword(r) \/ AskForEmail(r) \/ AskToVerify(r) \/ FindOld(r) \/ RetireOld(r)
         \/ ResetPassword(r) \/ ChangeEmail(r) \/ VerifyEmail(r) \/ Save(r) \/ Spend(r)
         \/ Delete(r) \/ Remove(r) \/ FindMe(r) \/ Find(r)
         \/ Answer(r) \/ Fail(r)
  PROVE  Inv'
<1>1. CASE Register(r) \/ SocialRegister(r) \/ Insert(r)
  BY <1>1, RegisterStarts, SocialRegisterStarts, InsertStep
<1>2. CASE SaveAgain(r) \/ Furnish(r) \/ NewLink(r)
  BY <1>2, SaveAgainStep, FurnishStep, NewLinkStep
<1>3. CASE SocialLogin(r) \/ ChangePassword(r)
  BY <1>3, SocialLoginStarts, ChangePasswordStarts
<1>4. CASE AskForPassword(r) \/ AskForEmail(r) \/ AskToVerify(r)
  BY <1>4, AskStarts
<1>5. CASE FindOld(r) \/ RetireOld(r)
  BY <1>5, FindOldStep, RetireOldStep
<1>6. CASE ResetPassword(r) \/ ChangeEmail(r) \/ VerifyEmail(r)
  BY <1>6, ResetStarts, ChangeEmailStarts, VerifyStarts
<1>7. CASE Save(r) \/ Spend(r)
  BY <1>7, SaveStep, SpendStep
<1>8. CASE Delete(r) \/ Remove(r) \/ FindMe(r) \/ Find(r)
  BY <1>8, DeleteStarts, RemoveStep, FindMeStarts, FindStep
<1>9. CASE Answer(r) \/ Fail(r)
  BY <1>9, AnswerStep, FailStep
<1>10. QED
  BY <1>1, <1>2, <1>3, <1>4, <1>5, <1>6, <1>7, <1>8, <1>9

LEMMA NextKeepsInv == Inv /\ [Next]_vars => Inv'
<1> SUFFICES ASSUME Inv, [Next]_vars PROVE Inv'
  OBVIOUS
<1>1. CASE UNCHANGED vars
  BY <1>1 DEF Inv, TypeOK, ActiveWasConfirmed, Stored, vars
<1>2. CASE Login \/ LogOut \/ Expire
  BY <1>2, SessionStep
<1>3. CASE \E r \in Requests :
             \/ Register(r) \/ SocialRegister(r) \/ Insert(r) \/ SaveAgain(r) \/ Furnish(r) \/ NewLink(r)
             \/ SocialLogin(r) \/ ChangePassword(r)
             \/ AskForPassword(r) \/ AskForEmail(r) \/ AskToVerify(r) \/ FindOld(r) \/ RetireOld(r)
             \/ ResetPassword(r) \/ ChangeEmail(r) \/ VerifyEmail(r) \/ Save(r) \/ Spend(r)
             \/ Delete(r) \/ Remove(r) \/ FindMe(r) \/ Find(r)
             \/ Answer(r) \/ Fail(r)
  BY <1>3, RequestKeepsInv
<1>4. QED
  BY <1>1, <1>2, <1>3 DEF Next

LEMMA SpecKeepsInv == Spec => []Inv
BY InitHasInv, NextKeepsInv, PTL DEF Spec

(***************************************************************************)
(* Rows and requests have their types in every order of the requests:      *)
(* whatever a stale copy writes back is a row (user.entity.ts:8-76).       *)
(***************************************************************************)
THEOREM AccountsTypeCorrect == Spec => []TypeOK
<1>1. Inv => TypeOK
  BY DEF Inv
<1>2. QED
  BY SpecKeepsInv, <1>1, PTL

(***************************************************************************)
(* No order of stale saves, failures and removed accounts activates an     *)
(* account that was neither verified through its link nor vouched for.     *)
(***************************************************************************)
THEOREM OnlyConfirmedAreActive == Spec => []ActiveWasConfirmed
<1>1. Inv => ActiveWasConfirmed
  BY DEF Inv
<1>2. QED
  BY SpecKeepsInv, <1>1, PTL

(***************************************************************************)
(* A link whose use was answered is in no table, whatever requests for     *)
(* new links come after it: it cannot be followed a second time.           *)
(***************************************************************************)
THEOREM UsedLinksStayGone == Spec => []SpentLinksAreGone
<1>1. Inv => SpentLinksAreGone
  BY DEF Inv, SpentLinksAreGone, Stored
<1>2. QED
  BY SpecKeepsInv, <1>1, PTL

(***************************************************************************)
(* Answers.  What a request is about by its operation and its place: a     *)
(* copy of the user as it registers, or of the row it read, changed or     *)
(* not.                                                                    *)
(***************************************************************************)
Founds   == {"register", "social"}
Rewrites == {"rename", "change", "ask", "use"}
PlacesOf(op) ==
  CASE op = "register" -> {"insert", "again", "furnish", "new", "done"}
    [] op = "social"   -> {"insert", "again", "furnish", "done"}
    [] op \in {"rename", "change"} -> {"save", "done"}
    [] op = "ask"      -> {"old", "retire", "new", "done"}
    [] op = "use"      -> {"save", "spend", "done"}
    [] op = "delete"   -> {"remove", "done"}
    [] op = "find"     -> {"find", "insert", "again", "furnish", "done"}
    [] OTHER           -> {"idle"}
Founding(q) ==
  /\ q.email \in Emails
  /\ q.user = None <=> q.pc = "insert"
  /\ q.op = "register" => q.copy = [email |-> q.email, password |-> q.password, active |-> FALSE]
  /\ q.op = "social" => q.copy = [email |-> q.email, password |-> None, active |-> TRUE]
  /\ q.op = "register" /\ q.pc \in {"new", "done"} => q.kind = "verify"
Rewriting(q) ==
  /\ q.before \in RowOf
  /\ q.op \in {"rename", "ask"} => q.copy = q.before
  /\ q.op = "change" => q.password \in Passwords /\ q.copy = [q.before EXCEPT !.password = q.password]
  /\ q.op \in {"ask", "use"} => q.kind \in Kinds
  /\ q.op = "use" => /\ q.kind = "password" => q.copy.password = q.password
                     /\ q.kind = "verify" => q.copy.active = TRUE
Shape(q) ==
  /\ q.pc \in PlacesOf(q.op)
  /\ q.op \in Founds => Founding(q)
  /\ q.op \in Rewrites => Rewriting(q)
  /\ q.op = None => q = Idle
  /\ q.op \notin Founds \union {None} => q.user \in UserIds

\* What a request that met no other may be sure of.
With(rows, e)    == {u \in UserIds : Stored(rows[u]) /\ rows[u].email = e}
Of(all, u, kind) == {l \in LinkIds : all[l] = [kind |-> kind, user |-> u]}
Sure(q, rows, all) ==
  /\ q.op \in Founds =>
       IF q.pc = "insert" THEN With(rows, q.email) = {}
       ELSE rows[q.user] = q.copy /\ With(rows, q.email) = {q.user}
  /\ q.op \in Rewrites =>
       rows[q.user] = IF q.pc \in {"spend", "done"} THEN Saved(q.before, q.copy) ELSE q.before
  /\ q.op \in {"register", "ask"} /\ q.pc = "done" => Of(all, q.user, q.kind) = {q.link}
  /\ q.op = "use" => Of(all, q.user, q.kind) \subseteq IF q.pc = "done" THEN {} ELSE {q.link}
  /\ q.op = "delete" /\ q.pc = "done" =>
       rows[q.user] = Gone /\ \A kind \in Kinds : Of(all, q.user, kind) = {}
  /\ q.op = "find" => q.pc = "find" /\ Stored(rows[q.user])

\* The link a request holds is one of its user.
Linked(q, all) ==
  q.op = "use" \/ q.pc = "retire" =>
    /\ q.link \in LinkIds /\ all[q.link] # None
    /\ Stored(all[q.link]) => all[q.link] = [kind |-> q.kind, user |-> q.user]
Facts(q, rows, all) ==
  /\ Shape(q) /\ Linked(q, all)
  /\ q.user # None => rows[q.user] # None
Unmet(r) == \A x \in Requests \ {r} : req[x].pc # "idle" => ~Meets(req[x], req[r])
Certain(r) == req[r].alone => Sure(req[r], users, links) /\ Unmet(r)
Apiece(all) == \A l, m \in LinkIds : Stored(all[l]) /\ all[l] = all[m] => l = m
Unseen(u)   == users[u] = Gone /\ \A r \in Requests : req[r].user # u
AnswerInv ==
  /\ \A r \in Requests : Facts(req[r], users, links) /\ Certain(r)
  /\ Apiece(links)
  /\ \A u \in buried : Unseen(u)

(***************************************************************************)
(* What a step of a request that goes on as q may do: it writes the row of *)
(* its user, with an address of its own or the one that was there, and it  *)
(* removes links of its user or makes new ones.                            *)
(***************************************************************************)
TouchesRows(q, rows, later) ==
  \A u \in UserIds : later[u] # rows[u] =>
    /\ q.pc # "idle" /\ u = q.user /\ later[u] # None
    /\ Stored(later[u]) =>
         \/ later[u].email \in Addresses(q) \union {None}
         \/ Stored(rows[u]) /\ later[u].email = rows[u].email
TouchesLinks(q, all, next) ==
  \A l \in LinkIds : next[l] # all[l] =>
    /\ q.pc # "idle"
    /\ \/ Stored(all[l]) /\ all[l].user = q.user /\ next[l] = Gone
       \/ all[l] = None /\ \E kind \in Kinds : next[l] = [kind |-> kind, user |-> q.user]
\* The others go on as before, and those it meets are not alone any more.
Dimmed(q)   == [q EXCEPT !.alone = FALSE]
Separate(r) ==
  \A x \in Requests \ {r} :
    /\ req'[x] \in {req[x], Dimmed(req[x])}
    /\ req[x].pc # "idle" /\ req'[r].pc # "idle" /\ (req'[x].alone \/ req'[r].alone) =>
         ~Meets(req'[r], req[x])

\* A request is there as long as it is about something.
LEMMA IdleOrBusy ==
  ASSUME NEW q \in ReqOf, Shape(q)
  PROVE  /\ q.pc = "idle" <=> q.op = None
         /\ q.pc = "idle" => q = Idle /\ q.user = None /\ q.alone = FALSE
<1>1. q.op \in Ops \union {None}
  BY DEF ReqOf
<1>2. None \notin Ops
  BY DistinctValues
<1>3. q.op = None => q = Idle
  BY DEF Shape
<1>4. q.op \in Ops => q.pc # "idle"
  BY <1>2 DEF Shape, PlacesOf, Ops
<1>5. Idle.pc = "idle" /\ Idle.user = None /\ Idle.alone = FALSE
  BY DEF Idle
<1>6. QED
  BY <1>1, <1>3, <1>4, <1>5

LEMMA MeetsBothWays ==
  ASSUME NEW q, NEW p
  PROVE  Meets(q, p) <=> Meets(p, q)
BY DEF Meets

(***************************************************************************)
(* What a request is sure of does not depend on those it does not meet.    *)
(***************************************************************************)
LEMMA RowStays ==
  ASSUME NEW q, NEW p, NEW rows, NEW later, TouchesRows(q, rows, later),
         q.pc = "idle" \/ ~Meets(q, p), p.user \in UserIds
  PROVE  later[p.user] = rows[p.user]
<1> SUFFICES ASSUME later[p.user] # rows[p.user] PROVE FALSE
  OBVIOUS
<1>1. q.pc # "idle" /\ p.user = q.user
  BY DEF TouchesRows
<1>2. p.user # None
  BY DistinctValues
<1>3. QED
  BY <1>1, <1>2 DEF Meets

LEMMA LinksStay ==
  ASSUME NEW q, NEW p, NEW all, NEW next, TouchesLinks(q, all, next),
         q.pc = "idle" \/ ~Meets(q, p), p.user \in UserIds, NEW kind \in Kinds
  PROVE  Of(next, p.user, kind) = Of(all, p.user, kind)
<1> DEFINE row == [kind |-> kind, user |-> p.user]
<1>1. p.user # None /\ row.user = p.user /\ row \in LinkOf /\ row # None /\ row # Gone
  BY DistinctValues DEF LinkOf
<1>2. q.pc # "idle" => q.user # p.user
  BY <1>1 DEF Meets
<1> HIDE DEF row
<1>3. ASSUME NEW l \in LinkIds, next[l] # all[l] PROVE next[l] # row /\ all[l] # row
  <2>1. q.user # p.user
    BY <1>2, <1>3 DEF TouchesLinks
  <2>2. CASE Stored(all[l]) /\ all[l].user = q.user /\ next[l] = Gone
    BY <1>1, <2>1, <2>2
  <2>3. CASE all[l] = None /\ \E k \in Kinds : next[l] = [kind |-> k, user |-> q.user]
    BY <1>1, <2>1, <2>3
  <2>4. QED
    BY <1>3, <2>2, <2>3 DEF TouchesLinks
<1>4. QED
  BY <1>3 DEF Of, row

LEMMA AddressStays ==
  ASSUME NEW q, NEW p, NEW rows, NEW later, TouchesRows(q, rows, later),
         q.pc = "idle" \/ ~Meets(q, p), p.email \in Emails, p.user \in UserIds \union {None},
         With(rows, p.email) \subseteq {p.user}
  PROVE  With(later, p.email) = With(rows, p.email)
<1>1. p.email \notin {None, Undefined}
  BY DistinctValues
<1>2. ASSUME NEW u \in UserIds, later[u] # rows[u]
      PROVE  u \notin With(rows, p.email) /\ u \notin With(later, p.email)
  <2>1. q.pc # "idle" /\ u = q.user /\ ~Meets(q, p)
    BY <1>2 DEF TouchesRows
  <2>2. u # None
    BY DistinctValues
  <2>3. p.user # u
    BY <2>1, <2>2 DEF Meets
  <2>4. u \notin With(rows, p.email)
    BY <2>3
  <2>5. p.email \in Addresses(p) /\ p.email \notin Addresses(q)
    BY <1>1, <2>1 DEF Meets, Addresses
  <2>6. ASSUME Stored(later[u]), later[u].email = p.email PROVE FALSE
    <3>1. Stored(rows[u]) /\ rows[u].email = p.email
      BY <1>1, <1>2, <2>5, <2>6 DEF TouchesRows
    <3>2. QED
      BY <2>4, <3>1 DEF With
  <2>7. QED
    BY <2>4, <2>6 DEF With
<1>3. QED
  BY <1>2 DEF With

LEMMA SureStays ==
  ASSUME NEW q, NEW p \in ReqOf, Shape(p), NEW rows, NEW later, NEW all, NEW next,
         TouchesRows(q, rows, later), TouchesLinks(q, all, next),
         q.pc = "idle" \/ ~Meets(q, p), Sure(p, rows, all)
  PROVE  Sure(p, later, next)
<1>1. p.user \in UserIds \union {None} /\ p.kind \in Kinds \union {None}
  BY DEF ReqOf
<1>2. p.user \in UserIds => later[p.user] = rows[p.user]
  BY RowStays
<1>3. p.user \in UserIds => \A kind \in Kinds : Of(next, p.user, kind) = Of(all, p.user, kind)
  BY LinksStay
<1>4. p.op \in Founds /\ p.pc # "insert" => p.user \in UserIds
  BY <1>1 DEF Shape, Founding
<1>5. p.op \in Rewrites \union {"delete", "find"} => p.user \in UserIds
  BY <1>1, DistinctValues DEF Shape, Founds, Rewrites, Ops
<1>6. p.op \in Founds => With(later, p.email) = With(rows, p.email)
  <2>1. SUFFICES ASSUME p.op \in Founds PROVE With(later, p.email) = With(rows, p.email)
    OBVIOUS
  <2>2. p.email \in Emails
    BY <2>1 DEF Shape, Founding
  <2>3. With(rows, p.email) \subseteq {p.user}
    BY <2>1 DEF Sure
  <2>4. QED
    BY <1>1, <2>2, <2>3, AddressStays
<1>7. p.op \in {"register", "ask"} /\ p.pc = "done" => p.user \in UserIds /\ p.kind \in Kinds
  BY <1>4, <1>5 DEF Founds, Rewrites, Shape, Founding, Rewriting, Kinds
<1>8. p.op = "use" => p.user \in UserIds /\ p.kind \in Kinds
  BY <1>5 DEF Shape, Rewriting, Rewrites
<1>9. QED
  BY <1>2, <1>3, <1>4, <1>5, <1>6, <1>7, <1>8 DEF Sure

(***************************************************************************)
(* A step of request r keeps the invariant when what it goes on as is      *)
(* known, it touches what is its own, and it knows whom it meets.          *)
(***************************************************************************)
LEMMA FactsStay ==
  ASSUME Inv, NEW q, NEW p \in ReqOf, NEW z \in {p, Dimmed(p)},
         TouchesRows(q, users, users'), TouchesLinks(q, links, links'), Facts(p, users, links)
  PROVE  Facts(z, users', links')
<1>1. /\ z.op = p.op /\ z.pc = p.pc /\ z.user = p.user /\ z.email = p.email /\ z.password = p.password
      /\ z.kind = p.kind /\ z.link = p.link /\ z.copy = p.copy /\ z.before = p.before
  BY DEF Dimmed, ReqOf
<1>2. Shape(z)
  <2>1. Shape(p)
    BY DEF Facts
  <2>2. p.op = None => z = Idle
    BY <2>1 DEF Shape, Dimmed, Idle
  <2>3. QED
    BY <1>1, <2>1, <2>2 DEF Shape, Founding, Rewriting
<1>3. Linked(z, links')
  <2>1. SUFFICES ASSUME p.op = "use" \/ p.pc = "retire"
                 PROVE  /\ p.link \in LinkIds /\ links'[p.link] # None
                        /\ Stored(links'[p.link]) => links'[p.link] = [kind |-> p.kind, user |-> p.user]
    BY <1>1 DEF Linked
  <2>2. /\ p.link \in LinkIds /\ links[p.link] # None
        /\ Stored(links[p.link]) => links[p.link] = [kind |-> p.kind, user |-> p.user]
    BY <2>1 DEF Facts, Linked
  <2>3. links'[p.link] = links[p.link] \/ links'[p.link] = Gone
    BY <2>2 DEF TouchesLinks
  <2>4. QED
    BY <2>2, <2>3, DistinctValues DEF Stored
<1>4. p.user # None => users'[p.user] # None
  <2>1. SUFFICES ASSUME p.user # None PROVE users'[p.user] # None
    OBVIOUS
  <2>2. p.user \in UserIds /\ users[p.user] # None
    BY <2>1 DEF Facts, ReqOf
  <2>3. QED
    BY <2>2 DEF TouchesRows
<1>5. QED
  BY <1>1, <1>2, <1>3, <1>4 DEF Facts

LEMMA StepKeepsAnswers ==
  ASSUME Inv, AnswerInv, NEW r \in Requests, req' \in [Requests -> ReqOf], Separate(r),
         TouchesRows(req'[r], users, users'), TouchesLinks(req'[r], links, links'),
         Facts(req'[r], users', links'),
         req'[r].alone => Sure(req'[r], users', links'),
         Apiece(links'), req'[r].user \notin buried,
         \A u \in buried' : u \in buried \/ Unseen(u)'
  PROVE  AnswerInv'
<1>1. \A x \in Requests : req[x] \in ReqOf /\ req'[x] \in ReqOf
  BY DEF Inv, TypeOK
<1>2. \A x \in Requests : Facts(req[x], users, links) /\ Certain(x)
  BY DEF AnswerInv
<1>3. \A x \in Requests \ {r} : req'[x] \in {req[x], Dimmed(req[x])}
  BY DEF Separate
<1>4. \A x \in Requests \ {r} : Facts(req'[x], users', links')
  BY <1>1, <1>2, <1>3, FactsStay
<1>5. \A x \in Requests \ {r} :
        /\ req'[x].pc = req[x].pc /\ req'[x].user = req[x].user /\ Addresses(req'[x]) = Addresses(req[x])
        /\ req'[x].alone => req'[x] = req[x]
  BY <1>1, <1>3 DEF Dimmed, ReqOf, Addresses
<1>6. ASSUME NEW x \in Requests \ {r}, req'[x].alone
      PROVE  Sure(req'[x], users', links') /\ Unmet(x)'
  <2>1. req'[x] = req[x] /\ req[x].alone
    BY <1>5, <1>6
  <2>2. Sure(req[x], users, links) /\ Unmet(x) /\ req[x].pc # "idle"
    BY <1>1, <1>2, <2>1, IdleOrBusy DEF Certain, Facts
  <2>3. req'[r].pc = "idle" \/ ~Meets(req'[r], req[x])
    BY <1>6, <2>2 DEF Separate
  <2>4. Sure(req[x], users', links')
    <3>1. Shape(req[x])
      BY <1>2 DEF Facts
    <3>2. QED
      BY <1>1, <2>2, <2>3, <3>1, SureStays
  <2>5. ASSUME NEW y \in Requests \ {x}, req'[y].pc # "idle" PROVE ~Meets(req'[y], req'[x])
    <3>1. CASE y = r
      BY <2>1, <2>3, <2>5, <3>1
    <3>2. CASE y # r
      <4>1. req[y].pc # "idle" /\ req'[y].user = req[y].user /\ Addresses(req'[y]) = Addresses(req[y])
        BY <1>5, <2>5, <3>2
      <4>2. ~Meets(req[y], req[x])
        BY <2>2, <4>1 DEF Unmet
      <4>3. QED
        BY <2>1, <4>1, <4>2 DEF Meets
    <3>3. QED
      BY <3>1, <3>2
  <2>6. QED
    BY <2>1, <2>4, <2>5 DEF Unmet
<1>7. ASSUME req'[r].alone PROVE Sure(req'[r], users', links') /\ Unmet(r)'
  <2>1. req'[r].pc # "idle"
    BY <1>1, <1>7, IdleOrBusy DEF Facts
  <2>2. ASSUME NEW y \in Requests \ {r}, req'[y].pc # "idle" PROVE ~Meets(req'[y], req'[r])
    <3>1. req[y].pc # "idle" /\ req'[y].user = req[y].user /\ Addresses(req'[y]) = Addresses(req[y])
      BY <1>5, <2>2
    <3>2. ~Meets(req'[r], req[y])
      BY <1>7, <2>1, <3>1 DEF Separate
    <3>3. QED
      BY <3>1, <3>2, MeetsBothWays DEF Meets
  <2>3. QED
    BY <1>7, <2>2 DEF Unmet
<1>8. ASSUME NEW u \in buried' PROVE Unseen(u)'
  <2> SUFFICES ASSUME u \in buried PROVE Unseen(u)'
    BY <1>8
  <2>1. users[u] = Gone /\ (\A x \in Requests : req[x].user # u) /\ u \in UserIds /\ u # req'[r].user
    BY DEF AnswerInv, Unseen, Inv, TypeOK
  <2>2. users'[u] = Gone
    BY <2>1 DEF TouchesRows
  <2>3. \A x \in Requests : req'[x].user # u
    BY <1>5, <2>1
  <2>4. QED
    BY <2>2, <2>3 DEF Unseen
<1>9. \A x \in Requests : Facts(req'[x], users', links') /\ Certain(x)'
  BY <1>4, <1>6, <1>7 DEF Certain
<1>10. QED
  BY <1>8, <1>9 DEF AnswerInv

\* A request that starts, or goes on with another user: it sees whom it meets.
LEMMA GoesApart ==
  ASSUME Inv, NEW r \in Requests, NEW q \in ReqOf, Goes(r, q)
  PROVE  /\ req' \in [Requests -> ReqOf] /\ Separate(r)
         /\ req'[r] = [q EXCEPT !.alone = @ /\ Met(r, q) = {}]
<1>1. req' \in [Requests -> ReqOf]
  BY GoesType DEF Inv
<1>2. req'[r] = [q EXCEPT !.alone = @ /\ Met(r, q) = {}]
  BY DEF Goes
<1>3. \A x \in Requests \ {r} : req'[x] = IF x \in Met(r, q) THEN Dimmed(req[x]) ELSE req[x]
  BY DEF Goes, Dimmed
<1>4. \A x \in Requests : req[x] \in ReqOf
  BY DEF Inv, TypeOK
<1>5. ASSUME NEW x \in Requests \ {r}, req[x].pc # "idle", req'[x].alone \/ req'[r].alone
      PROVE  ~Meets(req'[r], req[x])
  <2>1. x \notin Met(r, q)
    <3>1. CASE req'[r].alone
      BY <1>2, <3>1 DEF ReqOf
    <3>2. CASE req'[x].alone
      <4>1. Dimmed(req[x]).alone = FALSE
        BY <1>4 DEF Dimmed, ReqOf
      <4>2. QED
        BY <1>3, <3>2, <4>1
    <3>3. QED
      BY <1>5, <3>1, <3>2
  <2>2. ~Meets(req[x], q)
    BY <1>5, <2>1 DEF Met
  <2>3. req'[r].user = q.user /\ req'[r].email = q.email /\ req'[r].copy = q.copy
    BY <1>2 DEF ReqOf
  <2>4. QED
    BY <2>2, <2>3 DEF Meets, Addresses
<1>6. QED
  BY <1>1, <1>2, <1>3, <1>5 DEF Separate

\* A request that takes its next step, or ends.
LEMMA StepApart ==
  ASSUME Inv, AnswerInv, NEW r \in Requests, NEW q \in ReqOf, req' = [req EXCEPT ![r] = q],
         \/ q.pc = "idle"
         \/ /\ req[r].pc # "idle" /\ q.alone = req[r].alone
            /\ q.user = req[r].user /\ Addresses(q) = Addresses(req[r])
  PROVE  req' \in [Requests -> ReqOf] /\ Separate(r) /\ req'[r] = q
<1>1. req \in [Requests -> ReqOf]
  BY DEF Inv, TypeOK
<1>2. req' \in [Requests -> ReqOf] /\ req'[r] = q /\ \A x \in Requests \ {r} : req'[x] = req[x]
  BY <1>1
<1>3. ASSUME NEW x \in Requests \ {r}, req[x].pc # "idle", q.pc # "idle", req[x].alone \/ q.alone
      PROVE  ~Meets(q, req[x])
  <2>1. CASE req[x].alone
    <3>1. ~Meets(req[r], req[x])
      BY <1>3, <2>1 DEF AnswerInv, Certain, Unmet
    <3>2. QED
      BY <1>3, <3>1 DEF Meets
  <2>2. CASE q.alone
    <3>1. ~Meets(req[x], req[r])
      BY <1>3, <2>2 DEF AnswerInv, Certain, Unmet
    <3>2. QED
      BY <1>3, <3>1, MeetsBothWays DEF Meets
  <2>3. QED
    BY <1>3, <2>1, <2>2
<1>4. QED
  BY <1>2, <1>3 DEF Separate

LEMMA NothingTouched ==
  ASSUME NEW q, NEW rows, NEW all
  PROVE  TouchesRows(q, rows, rows) /\ TouchesLinks(q, all, all)
BY DEF TouchesRows, TouchesLinks

(***************************************************************************)
(* The requests that start.  What they read is so in the step they read    *)
(* it.                                                                     *)
(***************************************************************************)
\* Whom it met is not among what is known of a request.
LEMMA MetOrNot ==
  ASSUME NEW q \in ReqOf, q.op # None, NEW b \in BOOLEAN, NEW z, z = [q EXCEPT !.alone = b],
         NEW rows, NEW all
  PROVE  /\ Facts(q, rows, all) => Facts(z, rows, all)
         /\ Sure(q, rows, all) => Sure(z, rows, all)
<1>1. /\ z.op = q.op /\ z.pc = q.pc /\ z.user = q.user /\ z.email = q.email /\ z.password = q.password
      /\ z.kind = q.kind /\ z.link = q.link /\ z.copy = q.copy /\ z.before = q.before
  BY DEF ReqOf
<1>2. Shape(q) => Shape(z)
  BY <1>1 DEF Shape, Founding, Rewriting
<1>3. Sure(q, rows, all) => Sure(z, rows, all)
  BY <1>1 DEF Sure
<1>4. QED
  BY <1>1, <1>2, <1>3 DEF Facts, Linked

LEMMA StartKeepsAnswers ==
  ASSUME Inv, AnswerInv, NEW r \in Requests, NEW q \in ReqOf, Starts(r, q), q.op # None,
         Facts(q, users, links), Sure(q, users, links), q.user \notin buried,
         UNCHANGED <<users, links, buried>>
  PROVE  AnswerInv'
<1>1. /\ req' \in [Requests -> ReqOf] /\ Separate(r)
      /\ req'[r] = [q EXCEPT !.alone = @ /\ Met(r, q) = {}]
  BY GoesApart DEF Starts
<1>2. q.alone \in BOOLEAN /\ req'[r].user = q.user
  BY <1>1 DEF ReqOf
<1>3. Facts(req'[r], users', links') /\ Sure(req'[r], users', links')
  BY <1>1, <1>2, MetOrNot
<1>4. TouchesRows(req'[r], users, users') /\ TouchesLinks(req'[r], links, links')
  BY NothingTouched
<1>5. Apiece(links')
  BY DEF AnswerInv
<1>6. QED
  BY <1>1, <1>2, <1>3, <1>4, <1>5, StepKeepsAnswers

LEMMA RegisterAnswers ==
  ASSUME Inv, AnswerInv, NEW r \in Requests, Register(r) PROVE AnswerInv'
<1>1. PICK e \in Emails, p \in Passwords :
        /\ Free(e)
        /\ Starts(r, [New("register", "insert") EXCEPT !.email = e, !.password = p,
                        !.copy = [email |-> e, password |-> p, active |-> FALSE]])
        /\ UNCHANGED <<users, links, session, confirmed, buried, spent>>
  BY DEF Register
<1> DEFINE c == [email |-> e, password |-> p, active |-> FALSE]
           q == [New("register", "insert") EXCEPT !.email = e, !.password = p, !.copy = c]
<1>2. c \in CopyOf
  BY DEF CopyOf
<1>3. Starts(r, q)
  BY <1>1
<1> HIDE DEF c
<1>4. q \in ReqOf
  BY <1>2 DEF ReqOf, Ops, Places, New, Idle
<1>5. /\ q.op = "register" /\ q.pc = "insert" /\ q.user = None
      /\ q.email = e /\ q.password = p /\ q.copy = c
  BY DEF New, Idle
<1> HIDE DEF q
<1>6. Shape(q)
  BY <1>5, DistinctValues DEF Shape, PlacesOf, Founding, Founds, Rewrites, Ops, c
<1>7. Facts(q, users, links)
  BY <1>5, <1>6 DEF Facts, Linked
<1>8. Sure(q, users, links)
  BY <1>1, <1>5 DEF Sure, Founds, Rewrites, Free, UsersWith, With
<1>9. q.user \notin buried /\ q.op # None
  BY <1>5, DistinctValues DEF Inv, TypeOK, Ops
<1>10. QED
  BY <1>1, <1>3, <1>4, <1>7, <1>8, <1>9, StartKeepsAnswers

LEMMA SocialRegisterAnswers ==
  ASSUME Inv, AnswerInv, NEW r \in Requests, SocialRegister(r) PROVE AnswerInv'
<1>1. PICK e \in Emails :
        /\ Free(e)
        /\ Starts(r, [New("social", "insert") EXCEPT !.email = e,
                        !.copy = [email |-> e, password |-> None, active |-> TRUE]])
        /\ UNCHANGED <<users, links, session, confirmed, buried, spent>>
  BY DEF SocialRegister
<1> DEFINE c == [email |-> e, password |-> None, active |-> TRUE]
           q == [New("social", "insert") EXCEPT !.email = e, !.copy = c]
<1>2. c \in CopyOf
  BY DEF CopyOf
<1>3. Starts(r, q)
  BY <1>1
<1> HIDE DEF c
<1>4. q \in ReqOf
  BY <1>2 DEF ReqOf, Ops, Places, New, Idle
<1>5. q.op = "social" /\ q.pc = "insert" /\ q.user = None /\ q.email = e /\ q.copy = c
  BY DEF New, Idle
<1> HIDE DEF q
<1>6. Shape(q)
  BY <1>5, DistinctValues DEF Shape, PlacesOf, Founding, Founds, Rewrites, Ops, c
<1>7. Facts(q, users, links)
  BY <1>5, <1>6 DEF Facts, Linked
<1>8. Sure(q, users, links)
  BY <1>1, <1>5 DEF Sure, Founds, Rewrites, Free, UsersWith, With
<1>9. q.user \notin buried /\ q.op # None
  BY <1>5, DistinctValues DEF Inv, TypeOK, Ops
<1>10. QED
  BY <1>1, <1>3, <1>4, <1>7, <1>8, <1>9, StartKeepsAnswers

\* A request about a user it read: the row is there, so nobody was told that it is deleted.
LEMMA ReaderKeepsAnswers ==
  ASSUME Inv, AnswerInv, NEW r \in Requests, NEW u \in UserIds, Stored(users[u]),
         NEW q \in ReqOf, Starts(r, q), q.user = u, q.before = users[u],
         \/ q.op \in {"rename", "delete"} /\ q.pc \in PlacesOf(q.op) \ {"done"} /\ q.copy = users[u]
         \/ q.op = "ask" /\ q.pc = "old" /\ q.kind \in Kinds /\ q.copy = users[u]
         \/ /\ q.op = "change" /\ q.pc = "save" /\ q.password \in Passwords
            /\ q.copy = [users[u] EXCEPT !.password = q.password]
         \/ /\ q.op = "use" /\ q.pc = "save" /\ q.kind \in Kinds
            /\ q.link \in LinkIds /\ links[q.link] = [kind |-> q.kind, user |-> u] /\ Stored(links[q.link])
            /\ q.kind = "password" => q.copy.password = q.password
            /\ q.kind = "verify" => q.copy.active = TRUE,
         UNCHANGED <<users, links, buried>>
  PROVE  AnswerInv'
<1>1. users[u] \in RowOf /\ users[u] # None /\ users[u] # Gone
  BY RowsAreCopies DEF Inv, Stored
<1>2. q.op \in {"rename", "delete", "ask", "change", "use"} /\ q.op # None /\ q.pc # "done"
  BY DistinctValues DEF Ops
<1>3. q.op \notin Founds
  BY <1>2 DEF Founds
<1>4. q.pc \in PlacesOf(q.op)
  BY DEF PlacesOf
<1>5. q.op \in Rewrites => Rewriting(q)
  BY <1>1 DEF Rewrites, Rewriting
<1>6. Shape(q)
  BY <1>2, <1>3, <1>4, <1>5 DEF Shape
<1>7. Linked(q, links)
  BY <1>2, DistinctValues DEF Linked, PlacesOf, Stored
<1>8. Facts(q, users, links)
  BY <1>1, <1>6, <1>7 DEF Facts
<1>9. q.op = "use" => Of(links, q.user, q.kind) \subseteq {q.link}
  BY DEF AnswerInv, Apiece, Of
<1>10. q.op \in Rewrites => q.pc \notin {"spend", "done"}
  BY <1>2 DEF Rewrites, PlacesOf
<1>11. Sure(q, users, links)
  BY <1>2, <1>3, <1>9, <1>10 DEF Sure
<1>12. q.user \notin buried
  BY <1>1 DEF AnswerInv, Unseen
<1>13. QED
  BY <1>2, <1>8, <1>11, <1>12, StartKeepsAnswers

LEMMA AskAnswers ==
  ASSUME Inv, AnswerInv, NEW r \in Requests, AskForPassword(r) \/ AskForEmail(r) \/ AskToVerify(r)
  PROVE  AnswerInv'
<1>1. \A t \in TokenIds : Admitted(t) => session[t].user \in UserIds /\ Stored(users[session[t].user])
  BY DEF Admitted, Inv, TypeOK
<1>2. PICK u \in UserIds, kind \in Kinds :
        /\ Stored(users[u])
        /\ Starts(r, [Reads(New("ask", "old"), u) EXCEPT !.kind = kind])
        /\ UNCHANGED <<users, links, confirmed, buried, spent>>
  <2>1. CASE AskForPassword(r)
    BY <2>1 DEF AskForPassword, UsersWith, Kinds
  <2>2. CASE AskForEmail(r)
    BY <2>2, <1>1 DEF AskForEmail, Kinds
  <2>3. CASE AskToVerify(r)
    BY <2>3, <1>1 DEF AskToVerify, Kinds
  <2>4. QED
    BY <2>1, <2>2, <2>3
<1> DEFINE q == Reads(New("ask", "old"), u)
           k == [q EXCEPT !.kind = kind]
<1>3. q \in ReqOf /\ q.op = "ask" /\ q.pc = "old" /\ q.user = u /\ q.copy = users[u]
      /\ q.before = users[u]
  BY <1>2, ReadsType DEF Inv, Ops, Places
<1>4. Starts(r, k)
  BY <1>2
<1> HIDE DEF q
<1>5. k \in ReqOf /\ k.op = "ask" /\ k.pc = "old" /\ k.user = u /\ k.copy = users[u]
      /\ k.before = users[u] /\ k.kind = kind
  BY <1>3 DEF ReqOf
<1> HIDE DEF k
<1>6. QED
  BY <1>2, <1>4, <1>5, ReaderKeepsAnswers

LEMMA DeleteAnswers ==
  ASSUME Inv, AnswerInv, NEW r \in Requests, Delete(r) PROVE AnswerInv'
<1>1. PICK t \in TokenIds :
        /\ Admitted(t)
        /\ Starts(r, Reads(New("delete", "remove"), session[t].user))
        /\ UNCHANGED <<users, links, session, confirmed, buried, spent>>
  BY DEF Delete
<1> DEFINE u == session[t].user
           q == Reads(New("delete", "remove"), u)
<1>2. u \in UserIds /\ Stored(users[u])
  BY <1>1 DEF Admitted, Inv, TypeOK
<1>3. q \in ReqOf /\ q.op = "delete" /\ q.pc = "remove" /\ q.user = u /\ q.copy = users[u]
      /\ q.before = users[u]
  BY <1>2, ReadsType DEF Inv, Ops, Places
<1>4. Starts(r, q)
  BY <1>1
<1> HIDE DEF q, u
<1>5. q.pc \in PlacesOf(q.op) \ {"done"}
  BY <1>3 DEF PlacesOf
<1>6. QED
  BY <1>1, <1>2, <1>3, <1>4, <1>5, ReaderKeepsAnswers

LEMMA SameRequests ==
  ASSUME AnswerInv, UNCHANGED <<users, links, req, buried>> PROVE AnswerInv'
<1>1. \A r \in Requests : Facts(req'[r], users', links') /\ Certain(r)'
  BY DEF AnswerInv, Certain, Unmet
<1>2. \A u \in buried' : Unseen(u)'
  BY DEF AnswerInv, Unseen
<1>3. QED
  BY <1>1, <1>2 DEF AnswerInv

LEMMA SocialLoginAnswers ==
  ASSUME Inv, AnswerInv, NEW r \in Requests, SocialLogin(r) PROVE AnswerInv'
<1>1. PICK u \in UserIds :
        /\ Stored(users[u])
        /\ \/ Starts(r, Reads(New("rename", "save"), u)) /\ UNCHANGED session
           \/ Issued(u) /\ UNCHANGED <<req, served>>
        /\ UNCHANGED <<users, links, confirmed, buried, spent>>
  BY DEF SocialLogin, UsersWith
<1>2. CASE Starts(r, Reads(New("rename", "save"), u))
  <2> DEFINE q == Reads(New("rename", "save"), u)
  <2>1. q \in ReqOf /\ q.op = "rename" /\ q.pc = "save" /\ q.user = u /\ q.copy = users[u]
        /\ q.before = users[u]
    BY <1>1, ReadsType DEF Inv, Ops, Places
  <2>2. Starts(r, q)
    BY <1>2
  <2> HIDE DEF q
  <2>3. q.pc \in PlacesOf(q.op) \ {"done"}
    BY <2>1 DEF PlacesOf
  <2>4. QED
    BY <1>1, <2>1, <2>2, <2>3, ReaderKeepsAnswers
<1>3. CASE UNCHANGED req
  BY <1>1, <1>3, SameRequests
<1>4. QED
  BY <1>1, <1>2, <1>3

LEMMA ChangePasswordAnswers ==
  ASSUME Inv, AnswerInv, NEW r \in Requests, ChangePassword(r) PROVE AnswerInv'
<1>1. PICK u \in UserIds, new \in Passwords :
        /\ Stored(users[u])
        /\ Starts(r, [Reads(New("change", "save"), u) EXCEPT !.password = new, !.copy.password = new])
        /\ UNCHANGED <<users, links, session, confirmed, buried, spent>>
  BY DEF ChangePassword, UsersWith
<1> DEFINE q == Reads(New("change", "save"), u)
           k == [q EXCEPT !.password = new, !.copy.password = new]
<1>2. q \in ReqOf /\ q.op = "change" /\ q.pc = "save" /\ q.user = u /\ q.copy = users[u]
      /\ q.before = users[u]
  BY <1>1, ReadsType DEF Inv, Ops, Places
<1>3. Starts(r, k)
  BY <1>1
<1> HIDE DEF q
<1>4. q.copy \in RowOf
  BY <1>1, <1>2, RowsAreCopies DEF Inv
<1>5. [q.copy EXCEPT !.password = new] \in CopyOf
  BY <1>4 DEF RowOf, CopyOf
<1>6. /\ k \in ReqOf /\ k.op = "change" /\ k.pc = "save" /\ k.user = u /\ k.password = new
      /\ k.copy = [users[u] EXCEPT !.password = new]
      /\ k.before = users[u]
  BY <1>2, <1>5 DEF ReqOf
<1> HIDE DEF k
<1>7. QED
  BY <1>1, <1>3, <1>6, ReaderKeepsAnswers

LEMMA FindMeAnswers ==
  ASSUME Inv, AnswerInv, NEW r \in Requests, FindMe(r) PROVE AnswerInv'
<1>1. PICK t \in TokenIds :
        /\ Admitted(t)
        /\ Starts(r, [New("find", "find") EXCEPT !.user = session[t].user])
        /\ UNCHANGED <<users, links, session, confirmed, buried, spent>>
  BY DEF FindMe
<1> DEFINE u == session[t].user
           q == [New("find", "find") EXCEPT !.user = u]
<1>2. u \in UserIds /\ Stored(users[u])
  BY <1>1 DEF Admitted, Inv, TypeOK
<1>3. Starts(r, q)
  BY <1>1
<1> HIDE DEF u
<1>4. Nobody \in CopyOf
  BY DEF Nobody, CopyOf
<1>5. q \in ReqOf
  BY <1>2, <1>4 DEF ReqOf, Ops, Places, New, Idle
<1>6. q.op = "find" /\ q.pc = "find" /\ q.user = u
  BY DEF New, Idle
<1> HIDE DEF q
<1>7. Shape(q)
  BY <1>2, <1>6, DistinctValues DEF Shape, PlacesOf, Founds, Rewrites, Ops
<1>8. Facts(q, users, links)
  BY <1>2, <1>6, <1>7 DEF Facts, Linked, Stored
<1>9. Sure(q, users, links)
  BY <1>2, <1>6 DEF Sure, Founds, Rewrites
<1>10. q.user \notin buried /\ q.op # None
  BY <1>2, <1>6, DistinctValues DEF AnswerInv, Unseen, Stored, Ops
<1>11. QED
  BY <1>1, <1>3, <1>5, <1>8, <1>9, <1>10, StartKeepsAnswers

(***************************************************************************)
(* A link is followed: its user is read, and the copy changed.             *)
(***************************************************************************)
LEMMA FollowerType ==
  ASSUME NEW q \in ReqOf, NEW l \in LinkIds, NEW kind \in Kinds, NEW e \in Emails \union {None},
         NEW p \in Passwords \union {None, Undefined}, NEW c \in CopyOf
  PROVE  [q EXCEPT !.kind = kind, !.link = l, !.email = e, !.password = p, !.copy = c] \in ReqOf
BY DEF ReqOf

LEMMA FollowAnswers ==
  ASSUME Inv, AnswerInv, NEW r \in Requests, NEW l \in LinkIds, Stored(links[l]),
         NEW kind \in Kinds, links[l].kind = kind, NEW e \in Emails \union {None},
         NEW p \in Passwords \union {None, Undefined}, Stored(users[links[l].user]),
         NEW c \in CopyOf, kind = "password" => c.password = p, kind = "verify" => c.active = TRUE,
         Starts(r, [Reads(New("use", "save"), links[l].user) EXCEPT
                      !.kind = kind, !.link = l, !.email = e, !.password = p, !.copy = c]),
         UNCHANGED <<users, links, session, confirmed, buried, spent>>
  PROVE  AnswerInv'
<1> DEFINE u == links[l].user
           q == Reads(New("use", "save"), u)
           k == [q EXCEPT !.kind = kind, !.link = l, !.email = e, !.password = p, !.copy = c]
<1>1. u \in UserIds /\ links[l] = [kind |-> kind, user |-> u]
  BY DEF Inv, TypeOK, LinkOf, Stored
<1>2. q \in ReqOf /\ q.op = "use" /\ q.pc = "save" /\ q.user = u /\ q.before = users[u]
  BY <1>1, ReadsType DEF Inv, Ops, Places
<1>3. Starts(r, k) /\ Stored(users[u])
  OBVIOUS
<1> HIDE DEF q, u
<1>4. k \in ReqOf
  BY <1>2, FollowerType
<1>5. /\ k.op = "use" /\ k.pc = "save" /\ k.user = u /\ k.before = users[u]
      /\ k.kind = kind /\ k.link = l /\ k.copy = c /\ k.password = p
  BY <1>2 DEF ReqOf
<1> HIDE DEF k
<1>6. QED
  BY <1>1, <1>3, <1>4, <1>5, ReaderKeepsAnswers

LEMMA ResetAnswers ==
  ASSUME Inv, AnswerInv, NEW r \in Requests, ResetPassword(r) PROVE AnswerInv'
<1>1. PICK p \in Passwords \union {Undefined}, l \in LinkIds :
        /\ Stored(links[l]) /\ links[l].kind = "password" /\ Stored(users[links[l].user])
        /\ Starts(r, [Reads(New("use", "save"), links[l].user) EXCEPT
                        !.kind = "password", !.link = l, !.email = None, !.password = p,
                        !.copy = [users[links[l].user] EXCEPT !.password = p]])
        /\ UNCHANGED <<users, links, session, confirmed, buried, spent>>
  BY DEF ResetPassword, Follow
<1> DEFINE row == users[links[l].user]
           c   == [row EXCEPT !.password = p]
<1>2. row \in RowOf
  BY <1>1, RowsAreCopies DEF Inv, TypeOK, LinkOf, Stored
<1>3. c \in CopyOf /\ c.password = p
  BY <1>2 DEF RowOf, CopyOf
<1> HIDE DEF c
<1>4. QED
  BY <1>1, <1>3, FollowAnswers DEF Kinds, c

LEMMA ChangeEmailAnswers ==
  ASSUME Inv, AnswerInv, NEW r \in Requests, ChangeEmail(r) PROVE AnswerInv'
<1>1. PICK e \in Emails, l \in LinkIds :
        /\ Stored(links[l]) /\ links[l].kind = "email" /\ Stored(users[links[l].user])
        /\ Starts(r, [Reads(New("use", "save"), links[l].user) EXCEPT
                        !.kind = "email", !.link = l, !.email = e, !.password = None,
                        !.copy = [users[links[l].user] EXCEPT !.email = e]])
        /\ UNCHANGED <<users, links, session, confirmed, buried, spent>>
  BY DEF ChangeEmail, Follow
<1> DEFINE row == users[links[l].user]
           c   == [row EXCEPT !.email = e]
<1>2. row \in RowOf
  BY <1>1, RowsAreCopies DEF Inv, TypeOK, LinkOf, Stored
<1>3. c \in CopyOf
  BY <1>2 DEF RowOf, CopyOf
<1> HIDE DEF c
<1>4. QED
  BY <1>1, <1>3, FollowAnswers DEF Kinds, c

LEMMA VerifyAnswers ==
  ASSUME Inv, AnswerInv, NEW r \in Requests, VerifyEmail(r) PROVE AnswerInv'
<1>1. PICK l \in LinkIds :
        /\ Stored(links[l]) /\ links[l].kind = "verify" /\ Stored(users[links[l].user])
        /\ Starts(r, [Reads(New("use", "save"), links[l].user) EXCEPT
                        !.kind = "verify", !.link = l, !.email = None, !.password = None,
                        !.copy = [users[links[l].user] EXCEPT !.active = TRUE]])
        /\ UNCHANGED <<users, links, session, confirmed, buried, spent>>
  BY DEF VerifyEmail, Follow
<1> DEFINE row == users[links[l].user]
           c   == [row EXCEPT !.active = TRUE]
<1>2. row \in RowOf
  BY <1>1, RowsAreCopies DEF Inv, TypeOK, LinkOf, Stored
<1>3. c \in CopyOf /\ c.active = TRUE
  BY <1>2 DEF RowOf, CopyOf
<1> HIDE DEF c
<1>4. QED
  BY <1>1, <1>3, FollowAnswers DEF Kinds, c

(***************************************************************************)
(* What saving a copy and removing a link touch.                           *)
(***************************************************************************)
LEMMA SaveTouches ==
  ASSUME Inv, NEW q \in ReqOf, q.pc # "idle", q.user \in UserIds, q.copy.active \in BOOLEAN,
         users' = SavedUsers(q.user, q.copy)
  PROVE  /\ TouchesRows(q, users, users')
         /\ users'[q.user] = Saved(users[q.user], q.copy) /\ users'[q.user] \in RowOf
         /\ \A v \in UserIds \ {q.user} : users'[v] = users[v]
<1> DEFINE u == q.user
           row == Saved(users[u], q.copy)
<1>1. users \in [UserIds -> RowOf \union {None, Gone}] /\ q.copy \in CopyOf
  BY DEF Inv, TypeOK, ReqOf
<1>2. row \in RowOf /\ row # None
  BY <1>1, SavedRow, DistinctValues
<1>3. row.email \in Addresses(q) \union {None} \/ (Stored(users[u]) /\ row.email = users[u].email)
  <2>1. q.copy.email \in Addresses(q) \union {None, Undefined}
    BY DEF Addresses
  <2>2. row.email = Kept(IF Stored(users[u]) THEN users[u].email ELSE None, q.copy.email)
    BY DEF Saved
  <2>3. QED
    BY <2>1, <2>2 DEF Kept
<1>4. users' = [users EXCEPT ![u] = row]
  BY DEF SavedUsers
<1> HIDE DEF row
<1>5. users'[u] = row /\ \A v \in UserIds \ {u} : users'[v] = users[v]
  BY <1>1, <1>4
<1>6. TouchesRows(q, users, users')
  BY <1>2, <1>3, <1>5 DEF TouchesRows
<1>7. QED
  BY <1>2, <1>5, <1>6 DEF row

\* Saving again what is in the row changes nothing.
LEMMA SavedAsIs ==
  ASSUME NEW row \in RowOf
  PROVE  Saved(row, row) = row /\ Stored(row)
<1>1. Stored(row)
  BY DistinctValues DEF Stored
<1>2. \A x : Kept(x, x) = x
  BY DEF Kept
<1>3. QED
  BY <1>1, <1>2 DEF Saved, RowOf

LEMMA SaveChangesNothing ==
  ASSUME Inv, NEW q \in ReqOf, q.pc # "idle", q.user \in UserIds, q.copy \in RowOf,
         users[q.user] = q.copy, users' = SavedUsers(q.user, q.copy)
  PROVE  \A v \in UserIds : users'[v] = users[v]
<1>1. q.copy.active \in BOOLEAN
  BY DEF RowOf
<1>2. users'[q.user] = users[q.user] /\ \A v \in UserIds \ {q.user} : users'[v] = users[v]
  BY <1>1, SaveTouches, SavedAsIs
<1>3. QED
  BY <1>2

LEMMA RemoveTouches ==
  ASSUME Inv, AnswerInv, NEW q, q.pc # "idle", NEW l \in LinkIds, links' = RemovedLinks(l),
         Stored(links[l]) => links[l].user = q.user
  PROVE  /\ TouchesLinks(q, links, links') /\ Apiece(links') /\ ~Stored(links'[l])
         /\ \A u \in UserIds, kind \in Kinds : Of(links', u, kind) \subseteq Of(links, u, kind) \ {l}
<1>1. links \in [LinkIds -> LinkOf \union {None, Gone}]
  BY DEF Inv, TypeOK
<1>2. links' = [links EXCEPT ![l] = IF Stored(links[l]) THEN Gone ELSE links[l]]
  BY DEF RemovedLinks
<1>3. /\ \A m \in LinkIds \ {l} : links'[m] = links[m]
      /\ links'[l] = IF Stored(links[l]) THEN Gone ELSE links[l]
  BY <1>1, <1>2
<1>4. ~Stored(links'[l])
  BY <1>3 DEF Stored
<1>5. TouchesLinks(q, links, links')
  BY <1>3 DEF TouchesLinks
<1>6. Apiece(links')
  BY <1>3, <1>4 DEF AnswerInv, Apiece
<1>7. ASSUME NEW u \in UserIds, NEW kind \in Kinds
      PROVE  Of(links', u, kind) \subseteq Of(links, u, kind) \ {l}
  <2>1. [kind |-> kind, user |-> u] \in LinkOf
    BY DEF LinkOf
  <2>2. links'[l] # [kind |-> kind, user |-> u]
    BY <1>4, <2>1, DistinctValues DEF Stored
  <2>3. QED
    BY <1>3, <2>2 DEF Of
<1>8. QED
  BY <1>4, <1>5, <1>6, <1>7

(***************************************************************************)
(* Requests that go on.                                                    *)
(***************************************************************************)
Onward(q, p) ==
  /\ q.op = p.op /\ q.user = p.user /\ q.email = p.email /\ q.password = p.password
  /\ q.copy = p.copy /\ q.before = p.before /\ q.alone = p.alone

LEMMA NextPlace ==
  ASSUME Inv, NEW r \in Requests, NEW place \in Places, Step(r, place)
  PROVE  \E q \in ReqOf : /\ req' = [req EXCEPT ![r] = q] /\ Onward(q, req[r])
                          /\ q.pc = place /\ q.kind = req[r].kind /\ q.link = req[r].link
<1> DEFINE q == [req[r] EXCEPT !.pc = place]
<1>1. req[r] \in ReqOf
  BY DEF Inv, TypeOK
<1>2. q \in ReqOf
  BY <1>1 DEF ReqOf
<1>3. Onward(q, req[r]) /\ q.pc = place /\ q.kind = req[r].kind /\ q.link = req[r].link
  BY <1>1 DEF ReqOf, Onward
<1>4. req' = [req EXCEPT ![r] = q]
  BY DEF Step
<1> HIDE DEF q
<1>5. QED
  BY <1>2, <1>3, <1>4

LEMMA OnwardKeepsAnswers ==
  ASSUME Inv, AnswerInv, NEW r \in Requests, NEW q \in ReqOf, req' = [req EXCEPT ![r] = q],
         req[r].pc # "idle", Onward(q, req[r]),
         TouchesRows(q, users, users'), TouchesLinks(q, links, links'),
         Shape(q), Linked(q, links'), q.alone => Sure(q, users', links'),
         Apiece(links'), buried' = buried
  PROVE  AnswerInv'
<1>1. req' \in [Requests -> ReqOf] /\ Separate(r) /\ req'[r] = q
  BY StepApart DEF Onward, Addresses
<1>2. q.user \notin buried
  BY DEF AnswerInv, Unseen, Onward
<1>3. q.user # None => users'[q.user] # None
  <2>1. SUFFICES ASSUME q.user # None PROVE users'[q.user] # None
    OBVIOUS
  <2>2. q.user \in UserIds /\ users[q.user] # None
    BY <2>1 DEF AnswerInv, Facts, Onward, ReqOf
  <2>3. QED
    BY <2>2 DEF TouchesRows
<1>4. Facts(q, users', links')
  BY <1>3 DEF Facts
<1>5. QED
  BY <1>1, <1>2, <1>4, StepKeepsAnswers

\* Which operations a place belongs to.
LEMMA WhoIsWhere ==
  ASSUME NEW q \in ReqOf, Shape(q)
  PROVE  /\ q.pc \in {"insert", "again", "furnish"} => q.op \in Founds \union {"find"}
         /\ q.pc = "new" => q.op \in {"register", "ask"}
         /\ q.pc \in {"old", "retire"} => q.op = "ask"
         /\ q.pc = "save" => q.op \in {"rename", "change", "use"}
         /\ q.pc = "spend" => q.op = "use"
         /\ q.pc = "remove" => q.op = "delete"
         /\ q.pc = "find" => q.op = "find"
<1>1. q.op \in Ops \union {None} /\ None \notin Ops
  BY DistinctValues DEF ReqOf
<1>2. q.op = None => q.pc = "idle"
  BY IdleOrBusy
<1>3. q.op \in Ops => q.pc \in PlacesOf(q.op)
  BY DEF Shape
<1>4. QED
  BY <1>1, <1>2, <1>3 DEF PlacesOf, Ops, Founds

LEMMA SaveAgainAnswers ==
  ASSUME Inv, AnswerInv, NEW r \in Requests, SaveAgain(r) PROVE AnswerInv'
<1>1. PICK q \in ReqOf : /\ req' = [req EXCEPT ![r] = q] /\ Onward(q, req[r])
                         /\ q.pc = "furnish" /\ q.kind = req[r].kind /\ q.link = req[r].link
  BY NextPlace DEF SaveAgain, Places
<1>2. /\ req[r].pc = "again" /\ users' = SavedUsers(q.user, q.copy)
      /\ UNCHANGED <<links, buried>>
  BY <1>1 DEF SaveAgain, Onward
<1>3. Shape(req[r]) /\ req[r] \in ReqOf /\ Knows(req[r], links, confirmed)
  BY DEF AnswerInv, Facts, Inv, TypeOK
<1>4. q.op \in Founds \union {"find"}
  BY <1>1, <1>2, <1>3, WhoIsWhere DEF Onward
<1>5. q.user \in UserIds /\ q.copy.active \in BOOLEAN
  BY <1>1, <1>2, <1>3 DEF Knows, Placed, Onward
<1>6. TouchesRows(q, users, users') /\ TouchesLinks(q, links, links')
  BY <1>1, <1>2, <1>5, SaveTouches, NothingTouched
<1>7. q.pc \in PlacesOf(q.op) /\ q.op # None
  BY <1>1, <1>4, DistinctValues DEF PlacesOf, Founds, Ops
<1>8. Shape(q) /\ Linked(q, links')
  BY <1>1, <1>2, <1>3, <1>4, <1>5, <1>7 DEF Shape, Founding, Founds, Rewrites, Onward, Linked
<1>9. ASSUME q.alone PROVE Sure(q, users', links')
  <2>1. Sure(req[r], users, links)
    BY <1>1, <1>9 DEF AnswerInv, Certain, Onward
  <2>2. q.op \in Founds
    BY <1>1, <1>2, <1>4, <2>1 DEF Sure, Onward
  <2>3. users[q.user] = q.copy /\ With(users, q.email) = {q.user}
    BY <1>1, <1>2, <2>1, <2>2 DEF Sure, Onward
  <2>4. q.copy \in RowOf
    <3>1. q.copy \in CopyOf /\ users[q.user] \in RowOf \union {None, Gone}
      BY <1>5 DEF ReqOf, Inv, TypeOK
    <3>2. q.user \in With(users, q.email)
      BY <2>3
    <3>3. QED
      BY <1>5, <2>3, <3>1, <3>2 DEF With, Stored
  <2>5. \A v \in UserIds : users'[v] = users[v]
    BY <1>1, <1>2, <1>5, <2>3, <2>4, SaveChangesNothing
  <2>6. users'[q.user] = q.copy /\ With(users', q.email) = {q.user}
    BY <1>5, <2>3, <2>5 DEF With
  <2>7. QED
    BY <1>1, <2>2, <2>6 DEF Sure, Founds, Rewrites
<1>10. Apiece(links')
  BY <1>2 DEF AnswerInv
<1>11. QED
  BY <1>1, <1>2, <1>6, <1>8, <1>9, <1>10, OnwardKeepsAnswers

LEMMA FurnishAnswers ==
  ASSUME Inv, AnswerInv, NEW r \in Requests, Furnish(r) PROVE AnswerInv'
<1> DEFINE first == req[r].op = "register"
           kind  == IF first THEN "verify" ELSE req[r].kind
           place == IF first THEN "new" ELSE "done"
           q     == [req[r] EXCEPT !.pc = place, !.kind = kind]
<1>1. /\ Shape(req[r]) /\ req[r] \in ReqOf /\ Knows(req[r], links, confirmed)
      /\ req \in [Requests -> ReqOf]
  BY DEF AnswerInv, Facts, Inv, TypeOK
<1>2. req[r].pc = "furnish" /\ UNCHANGED <<users, links, buried>>
  BY DEF Furnish
<1>3. req' = [req EXCEPT ![r] = q]
  BY <1>1 DEF Furnish, ReqOf
<1>4. kind \in Kinds \union {None} /\ place \in {"new", "done"}
  BY <1>1 DEF ReqOf, Kinds
<1>5. (first => place = "new" /\ kind = "verify") /\ (~first => place = "done")
  OBVIOUS
<1> HIDE DEF place, kind
<1>6. q \in ReqOf
  BY <1>1, <1>4 DEF ReqOf, Places
<1>7. Onward(q, req[r]) /\ q.pc = place /\ q.kind = kind
  BY <1>1 DEF Onward, ReqOf
<1> HIDE DEF q
<1>8. q.op \in Founds \union {"find"} /\ req[r].op = q.op
  BY <1>1, <1>2, <1>7, WhoIsWhere DEF Onward
<1>9. q.user \in UserIds
  BY <1>1, <1>2, <1>7 DEF Knows, Placed, Onward
<1>10. q.pc \in PlacesOf(q.op) /\ q.op # None
  BY <1>5, <1>7, <1>8, DistinctValues DEF PlacesOf, Founds, Ops
<1>11. q.op \in Founds => Founding(q)
  <2>1. SUFFICES ASSUME q.op \in Founds PROVE Founding(q)
    OBVIOUS
  <2>2. Founding(req[r])
    BY <1>1, <1>8, <2>1 DEF Shape
  <2>3. q.user # None /\ q.pc # "insert" /\ (q.op = "register" => q.kind = "verify")
    BY <1>4, <1>5, <1>7, <1>8, <1>9, DistinctValues
  <2>4. QED
    BY <1>7, <2>2, <2>3 DEF Founding, Onward
<1>12. Shape(q) /\ Linked(q, links')
  BY <1>4, <1>7, <1>8, <1>9, <1>10, <1>11 DEF Shape, Founds, Rewrites, Linked
<1>13. ASSUME q.alone PROVE Sure(q, users', links')
  <2>1. Sure(req[r], users, links)
    BY <1>7, <1>13 DEF AnswerInv, Certain, Onward
  <2>2. q.op \in Founds
    BY <1>2, <1>8, <2>1 DEF Sure
  <2>3. users[q.user] = q.copy /\ With(users, q.email) = {q.user}
    BY <1>2, <1>7, <1>8, <2>1, <2>2 DEF Sure, Onward
  <2>4. q.pc # "insert" /\ ~(q.op = "register" /\ q.pc = "done")
    BY <1>4, <1>5, <1>7, <1>8
  <2>5. QED
    BY <1>2, <2>2, <2>3, <2>4 DEF Sure, Founds, Rewrites
<1>14. TouchesRows(q, users, users') /\ TouchesLinks(q, links, links') /\ Apiece(links')
  BY <1>2, NothingTouched DEF AnswerInv
<1>15. QED
  BY <1>2, <1>3, <1>6, <1>7, <1>12, <1>13, <1>14, OnwardKeepsAnswers

LEMMA FindOldAnswers ==
  ASSUME Inv, AnswerInv, NEW r \in Requests, FindOld(r) PROVE AnswerInv'
<1>1. /\ Shape(req[r]) /\ req[r] \in ReqOf /\ req \in [Requests -> ReqOf]
  BY DEF AnswerInv, Facts, Inv, TypeOK
<1>2. req[r].pc = "old" /\ UNCHANGED <<users, links, buried>>
  BY DEF FindOld
<1>3. req[r].op = "ask"
  BY <1>1, <1>2, WhoIsWhere
<1>4. PICK q \in ReqOf :
        /\ req' = [req EXCEPT ![r] = q] /\ Onward(q, req[r]) /\ q.kind = req[r].kind
        /\ \/ q.pc = "new"
           \/ q.pc = "retire" /\ q.link \in LinkIds /\ links[q.link] = [kind |-> q.kind, user |-> q.user]
  <2>1. CASE Step(r, "new")
    BY <2>1, NextPlace DEF Places
  <2>2. CASE \E l \in LinksOf(req[r].user, req[r].kind) :
               req' = [req EXCEPT ![r].pc = "retire", ![r].link = l]
    <3>1. PICK l \in LinkIds : /\ links[l] = [kind |-> req[r].kind, user |-> req[r].user]
                               /\ req' = [req EXCEPT ![r].pc = "retire", ![r].link = l]
      BY <2>2 DEF LinksOf
    <3> DEFINE q == [req[r] EXCEPT !.pc = "retire", !.link = l]
    <3>2. q \in ReqOf
      BY <1>1 DEF ReqOf, Places
    <3>3. Onward(q, req[r]) /\ q.kind = req[r].kind /\ q.pc = "retire" /\ q.link = l /\ q.user = req[r].user
      BY <1>1 DEF Onward, ReqOf
    <3>4. req' = [req EXCEPT ![r] = q]
      BY <3>1
    <3> HIDE DEF q
    <3>5. QED
      BY <3>1, <3>2, <3>3, <3>4
  <2>3. QED
    BY <2>1, <2>2 DEF FindOld
<1>5. q.op = "ask" /\ q.op # None /\ q.pc \in {"new", "retire"}
  BY <1>3, <1>4, DistinctValues DEF Onward, Ops
<1>6. Shape(q)
  BY <1>1, <1>3, <1>4, <1>5 DEF Shape, PlacesOf, Founds, Rewrites, Rewriting, Onward
<1>7. Linked(q, links')
  <2>1. q.kind \in Kinds /\ q.user \in UserIds
    BY <1>5, <1>6 DEF Shape, Rewriting, Rewrites, Founds
  <2>2. [kind |-> q.kind, user |-> q.user] # None
    BY <2>1, DistinctValues DEF LinkOf
  <2>3. QED
    BY <1>2, <1>4, <1>5, <2>2 DEF Linked
<1>8. q.alone => Sure(q, users', links')
  BY <1>2, <1>3, <1>4, <1>5 DEF AnswerInv, Certain, Sure, Onward, Founds, Rewrites
<1>9. TouchesRows(q, users, users') /\ TouchesLinks(q, links, links') /\ Apiece(links')
  BY <1>2, NothingTouched DEF AnswerInv
<1>10. QED
  BY <1>2, <1>4, <1>6, <1>7, <1>8, <1>9, OnwardKeepsAnswers

LEMMA RetireOldAnswers ==
  ASSUME Inv, AnswerInv, NEW r \in Requests, RetireOld(r) PROVE AnswerInv'
<1>1. PICK q \in ReqOf : /\ req' = [req EXCEPT ![r] = q] /\ Onward(q, req[r])
                         /\ q.pc = "new" /\ q.kind = req[r].kind /\ q.link = req[r].link
  BY NextPlace DEF RetireOld, Places
<1>2. req[r].pc = "retire" /\ links' = RemovedLinks(q.link) /\ UNCHANGED <<users, buried>>
  BY <1>1 DEF RetireOld
<1>3. Shape(req[r]) /\ req[r] \in ReqOf /\ Linked(req[r], links)
  BY DEF AnswerInv, Facts, Inv, TypeOK
<1>4. req[r].op = "ask" /\ q.op = "ask" /\ q.op # None
  BY <1>1, <1>2, <1>3, WhoIsWhere, DistinctValues DEF Onward, Ops
<1>5. q.link \in LinkIds /\ (Stored(links[q.link]) => links[q.link].user = q.user)
  BY <1>1, <1>2, <1>3 DEF Linked, Onward
<1>6. TouchesLinks(q, links, links') /\ Apiece(links')
  BY <1>1, <1>2, <1>5, RemoveTouches
<1>7. TouchesRows(q, users, users')
  BY <1>2, NothingTouched
<1>8. Shape(q) /\ Linked(q, links')
  <2>1. q.pc \in PlacesOf(q.op)
    BY <1>1, <1>4 DEF PlacesOf
  <2>2. Rewriting(q) /\ q.user \in UserIds
    BY <1>1, <1>3, <1>4 DEF Shape, Founds, Rewrites, Rewriting, Onward
  <2>3. QED
    BY <1>1, <1>4, <2>1, <2>2 DEF Shape, Founds, Rewrites, Linked
<1>9. ASSUME q.alone PROVE Sure(q, users', links')
  <2>1. Sure(req[r], users, links)
    BY <1>1, <1>9 DEF AnswerInv, Certain, Onward
  <2>2. users'[q.user] = q.before
    BY <1>1, <1>2, <1>4, <2>1 DEF Sure, Onward, Rewrites
  <2>3. QED
    BY <1>1, <1>4, <2>2 DEF Sure, Founds, Rewrites
<1>10. QED
  BY <1>1, <1>2, <1>6, <1>7, <1>8, <1>9, OnwardKeepsAnswers

\* The user is saved with the link that is made.
LEMMA NewLinkAnswers ==
  ASSUME Inv, AnswerInv, NEW r \in Requests, NewLink(r) PROVE AnswerInv'
<1>1. PICK l \in LinkIds :
        /\ links[l] = None
        /\ links' = [links EXCEPT ![l] = [kind |-> req[r].kind, user |-> req[r].user]]
        /\ req' = [req EXCEPT ![r].pc = "done", ![r].link = l]
  BY DEF NewLink, FreshLinks
<1>2. /\ req[r].pc = "new" /\ Of(links, req[r].user, req[r].kind) = {} /\ buried' = buried
      /\ users' = SavedUsers(req[r].user, req[r].copy)
  BY DEF NewLink, LinksOf, Of
<1>3. /\ Shape(req[r]) /\ req[r] \in ReqOf /\ Knows(req[r], links, confirmed)
      /\ links \in [LinkIds -> LinkOf \union {None, Gone}]
  BY DEF AnswerInv, Facts, Inv, TypeOK
<1> DEFINE q   == [req[r] EXCEPT !.pc = "done", !.link = l]
           row == [kind |-> q.kind, user |-> q.user]
<1>4. q \in ReqOf
  BY <1>3 DEF ReqOf, Places
<1>5. Onward(q, req[r]) /\ q.pc = "done" /\ q.link = l /\ q.kind = req[r].kind
  BY <1>3 DEF Onward, ReqOf
<1>6. req' = [req EXCEPT ![r] = q]
  BY <1>1
<1> HIDE DEF q
<1>7. /\ q.user = req[r].user /\ q.copy = req[r].copy /\ q.op = req[r].op
      /\ q.user \in UserIds /\ q.kind \in Kinds /\ q.copy.active \in BOOLEAN
  BY <1>2, <1>3, <1>5 DEF Knows, Placed, Onward
<1>8. row \in LinkOf /\ row # None /\ row # Gone /\ row.user = q.user
  BY <1>7, DistinctValues DEF LinkOf
<1>9. links' = [links EXCEPT ![l] = row] /\ Of(links, q.user, q.kind) = {}
      /\ users' = SavedUsers(q.user, q.copy)
  BY <1>1, <1>2, <1>5, <1>7
<1>10. \A m \in LinkIds : links[m] # row
  BY <1>9 DEF Of
<1>11. \A m \in LinkIds : links'[m] = IF m = l THEN row ELSE links[m]
  BY <1>3, <1>9
<1>12. TouchesLinks(q, links, links')
  BY <1>1, <1>5, <1>7, <1>11 DEF TouchesLinks
<1>13. Of(links', q.user, q.kind) = {l}
  BY <1>10, <1>11 DEF Of
<1> HIDE DEF row
<1>14. Apiece(links')
  BY <1>10, <1>11 DEF AnswerInv, Apiece
<1>15. TouchesRows(q, users, users')
  BY <1>4, <1>5, <1>7, <1>9, SaveTouches
<1>16. q.op \in {"register", "ask"} /\ q.op # None
  BY <1>2, <1>3, <1>7, WhoIsWhere, DistinctValues DEF Ops
<1>17. q.pc \in PlacesOf(q.op)
  BY <1>5, <1>16 DEF PlacesOf
<1>18. q.op = "register" => Founding(q)
  <2>1. SUFFICES ASSUME q.op = "register" PROVE Founding(q)
    OBVIOUS
  <2>2. Founding(req[r]) /\ q.user # None
    BY <1>3, <1>7, <2>1, DistinctValues DEF Shape, Founds
  <2>3. QED
    BY <1>2, <1>5, <2>1, <2>2 DEF Founding, Onward
<1>19. q.op = "ask" => Rewriting(q)
  BY <1>3, <1>5, <1>7 DEF Shape, Rewrites, Rewriting, Onward
<1>20. Shape(q) /\ Linked(q, links')
  BY <1>5, <1>7, <1>16, <1>17, <1>18, <1>19 DEF Shape, Founds, Rewrites, Linked
<1>21. ASSUME q.alone PROVE Sure(q, users', links')
  <2>1. Sure(req[r], users, links)
    BY <1>5, <1>21 DEF AnswerInv, Certain, Onward
  <2>2. users[q.user] = q.copy
    <3>1. CASE q.op = "register"
      BY <1>2, <1>7, <2>1, <3>1 DEF Sure, Founds
    <3>2. CASE q.op = "ask"
      BY <1>2, <1>3, <1>5, <1>7, <2>1, <3>2 DEF Sure, Rewrites, Shape, Rewriting, Onward
    <3>3. QED
      BY <1>16, <3>1, <3>2
  <2>3. q.copy \in RowOf
    <3>1. CASE q.op = "register"
      <4>1. q.user \in With(users, q.email)
        BY <1>2, <1>5, <1>7, <2>1, <3>1 DEF Sure, Founds, Onward
      <4>2. QED
        BY <1>7, <2>2, <4>1, RowsAreCopies DEF With, Inv
    <3>2. CASE q.op = "ask"
      BY <1>19, <3>2 DEF Rewriting
    <3>3. QED
      BY <1>16, <3>1, <3>2
  <2>4. \A v \in UserIds : users'[v] = users[v]
    BY <1>4, <1>5, <1>7, <1>9, <2>2, <2>3, SaveChangesNothing
  <2>5. users'[q.user] = q.copy /\ With(users', q.email) = With(users, q.email)
    BY <1>7, <2>2, <2>4 DEF With
  <2>6. CASE q.op = "register"
    <3>1. With(users', q.email) = {q.user}
      BY <1>2, <1>5, <1>7, <2>1, <2>5, <2>6 DEF Sure, Founds, Onward
    <3>2. QED
      BY <1>5, <1>13, <2>5, <2>6, <3>1 DEF Sure, Founds, Rewrites
  <2>7. CASE q.op = "ask"
    <3>1. q.before \in RowOf /\ q.copy = q.before
      BY <1>19, <2>7 DEF Rewriting
    <3>2. users'[q.user] = Saved(q.before, q.copy)
      BY <2>5, <3>1, SavedAsIs
    <3>3. QED
      BY <1>5, <1>13, <2>7, <3>2 DEF Sure, Founds, Rewrites
  <2>8. QED
    BY <1>16, <2>6, <2>7
<1>22. QED
  BY <1>2, <1>4, <1>5, <1>6, <1>12, <1>14, <1>15, <1>20, <1>21, OnwardKeepsAnswers

LEMMA SaveAnswers ==
  ASSUME Inv, AnswerInv, NEW r \in Requests, Save(r) PROVE AnswerInv'
<1>1. PICK q \in ReqOf :
        /\ req' = [req EXCEPT ![r] = q] /\ Onward(q, req[r])
        /\ q.pc = IF req[r].op = "use" THEN "spend" ELSE "done"
        /\ q.kind = req[r].kind /\ q.link = req[r].link
  BY NextPlace DEF Save, Places
<1>2. /\ req[r].pc = "save" /\ users' = SavedUsers(q.user, q.copy)
      /\ UNCHANGED <<links, buried>>
  BY <1>1 DEF Save, Onward
<1>3. /\ Shape(req[r]) /\ req[r] \in ReqOf /\ Knows(req[r], links, confirmed)
      /\ Linked(req[r], links)
  BY DEF AnswerInv, Facts, Inv, TypeOK
<1>4. /\ q.op = req[r].op /\ q.op \in {"rename", "change", "use"} /\ q.op # None
      /\ q.pc = IF q.op = "use" THEN "spend" ELSE "done"
  BY <1>1, <1>2, <1>3, WhoIsWhere, DistinctValues DEF Onward, Ops
<1>5. q.user \in UserIds /\ q.copy.active \in BOOLEAN
  BY <1>1, <1>2, <1>3 DEF Knows, Placed, Onward
<1>6. /\ TouchesRows(q, users, users') /\ users'[q.user] = Saved(users[q.user], q.copy)
      /\ TouchesLinks(q, links, links')
  BY <1>2, <1>4, <1>5, SaveTouches, NothingTouched
<1>7. q.pc \in PlacesOf(q.op)
  BY <1>4 DEF PlacesOf
<1>8. Rewriting(q)
  BY <1>1, <1>3, <1>4 DEF Shape, Rewrites, Rewriting, Onward
<1>9. Shape(q)
  BY <1>4, <1>5, <1>7, <1>8 DEF Shape, Founds
<1>10. Linked(q, links')
  BY <1>1, <1>2, <1>3, <1>4 DEF Linked, Onward
<1>11. ASSUME q.alone PROVE Sure(q, users', links')
  <2>1. Sure(req[r], users, links)
    BY <1>1, <1>11 DEF AnswerInv, Certain, Onward
  <2>2. users'[q.user] = Saved(q.before, q.copy)
    BY <1>1, <1>2, <1>4, <1>6, <2>1 DEF Sure, Onward, Rewrites
  <2>3. q.op = "use" => Of(links', q.user, q.kind) \subseteq {q.link}
    BY <1>1, <1>2, <1>4, <2>1 DEF Sure, Onward
  <2>4. QED
    BY <1>4, <2>2, <2>3 DEF Sure, Founds, Rewrites
<1>12. Apiece(links')
  BY <1>2 DEF AnswerInv
<1>13. QED
  BY <1>1, <1>2, <1>6, <1>9, <1>10, <1>11, <1>12, OnwardKeepsAnswers

LEMMA SpendAnswers ==
  ASSUME Inv, AnswerInv, NEW r \in Requests, Spend(r) PROVE AnswerInv'
<1>1. PICK q \in ReqOf : /\ req' = [req EXCEPT ![r] = q] /\ Onward(q, req[r])
                         /\ q.pc = "done" /\ q.kind = req[r].kind /\ q.link = req[r].link
  BY NextPlace DEF Spend, Places
<1>2. req[r].pc = "spend" /\ links' = RemovedLinks(q.link) /\ UNCHANGED <<users, buried>>
  BY <1>1 DEF Spend
<1>3. Shape(req[r]) /\ req[r] \in ReqOf /\ Linked(req[r], links) /\ Facts(req[r], users, links)
  BY DEF AnswerInv, Facts, Inv, TypeOK
<1>4. req[r].op = "use" /\ q.op = "use" /\ q.op # None
  BY <1>1, <1>2, <1>3, WhoIsWhere, DistinctValues DEF Onward, Ops
<1>5. q.link \in LinkIds /\ links[q.link] # None /\ (Stored(links[q.link]) => links[q.link].user = q.user)
  BY <1>1, <1>3, <1>4 DEF Linked, Onward
<1>6. Rewriting(q) /\ q.user \in UserIds /\ q.kind \in Kinds
  BY <1>1, <1>3, <1>4 DEF Shape, Founds, Rewrites, Rewriting, Onward
<1>7. /\ TouchesLinks(q, links, links') /\ Apiece(links') /\ ~Stored(links'[q.link])
      /\ Of(links', q.user, q.kind) \subseteq Of(links, q.user, q.kind) \ {q.link}
  BY <1>1, <1>2, <1>5, <1>6, RemoveTouches
<1>8. TouchesRows(q, users, users')
  BY <1>2, NothingTouched
<1>9. q.pc \in PlacesOf(q.op)
  BY <1>1, <1>4 DEF PlacesOf
<1>10. Shape(q)
  BY <1>1, <1>4, <1>6, <1>9 DEF Shape, Founds, Rewrites
<1>11. Linked(q, links')
  <2>1. links'[q.link] # None
    BY <1>2, <1>5, RemovedLinksAge DEF Inv, Aged
  <2>2. QED
    BY <1>5, <1>7, <2>1 DEF Linked
<1>12. ASSUME q.alone PROVE Sure(q, users', links')
  <2>1. Sure(req[r], users, links)
    BY <1>1, <1>12 DEF AnswerInv, Certain, Onward
  <2>2. users'[q.user] = Saved(q.before, q.copy)
    BY <1>1, <1>2, <1>4, <2>1 DEF Sure, Onward, Rewrites
  <2>3. Of(links, q.user, q.kind) \subseteq {q.link}
    BY <1>1, <1>2, <1>4, <2>1 DEF Sure, Onward
  <2>4. QED
    BY <1>1, <1>4, <1>7, <2>2, <2>3 DEF Sure, Founds, Rewrites
<1>13. QED
  BY <1>1, <1>2, <1>7, <1>8, <1>10, <1>11, <1>12, OnwardKeepsAnswers

\* The row goes, and the links with it.
LEMMA RemoveAnswers ==
  ASSUME Inv, AnswerInv, NEW r \in Requests, Remove(r) PROVE AnswerInv'
<1>1. PICK q \in ReqOf : /\ req' = [req EXCEPT ![r] = q] /\ Onward(q, req[r])
                         /\ q.pc = "done" /\ q.kind = req[r].kind /\ q.link = req[r].link
  BY NextPlace DEF Remove, Places
<1>2. /\ req[r].pc = "remove" /\ buried' = buried
      /\ users' = [users EXCEPT ![q.user] = IF Stored(@) THEN Gone ELSE @]
      /\ links' = OrphansRemoved(q.user)
  BY <1>1 DEF Remove, Onward
<1>3. /\ Shape(req[r]) /\ req[r] \in ReqOf /\ Facts(req[r], users, links)
      /\ users \in [UserIds -> RowOf \union {None, Gone}]
      /\ links \in [LinkIds -> LinkOf \union {None, Gone}]
  BY DEF AnswerInv, Facts, Inv, TypeOK
<1>4. req[r].op = "delete" /\ q.op = "delete" /\ q.op # None
  BY <1>1, <1>2, <1>3, WhoIsWhere, DistinctValues DEF Onward, Ops
<1>5. q.user \in UserIds /\ users[q.user] # None
  BY <1>1, <1>3, <1>4, DistinctValues DEF Shape, Founds, Onward, Facts
<1>6. users'[q.user] = Gone /\ \A v \in UserIds \ {q.user} : users'[v] = users[v]
  BY <1>2, <1>3, <1>5 DEF Stored
<1>7. TouchesRows(q, users, users')
  BY <1>1, <1>6, DistinctValues DEF TouchesRows, Stored
<1>8. \A l \in LinkIds :
        links'[l] = IF Stored(links[l]) /\ links[l].user = q.user THEN Gone ELSE links[l]
  BY <1>2 DEF OrphansRemoved
<1>9. TouchesLinks(q, links, links')
  BY <1>1, <1>8 DEF TouchesLinks
<1>10. Apiece(links')
  BY <1>8 DEF AnswerInv, Apiece, Stored
<1>11. \A kind \in Kinds : Of(links', q.user, kind) = {}
  <2>1. SUFFICES ASSUME NEW kind \in Kinds, NEW l \in LinkIds, links'[l] = [kind |-> kind, user |-> q.user]
                 PROVE  FALSE
    BY DEF Of
  <2>2. links'[l] \in LinkOf /\ links'[l].user = q.user
    BY <1>5, <2>1 DEF LinkOf
  <2>3. links'[l] # Gone /\ links'[l] # None
    BY <2>2, DistinctValues
  <2>4. QED
    BY <1>8, <2>2, <2>3 DEF Stored
<1>12. q.pc \in PlacesOf(q.op)
  BY <1>1, <1>4 DEF PlacesOf
<1>13. Shape(q) /\ Linked(q, links')
  BY <1>1, <1>4, <1>5, <1>12 DEF Shape, Founds, Rewrites, Linked
<1>14. Sure(q, users', links')
  BY <1>4, <1>6, <1>11 DEF Sure, Founds, Rewrites
<1>15. QED
  BY <1>1, <1>2, <1>7, <1>9, <1>10, <1>13, <1>14, OnwardKeepsAnswers

\* The insert gives a new user its id; findUser inserts a row that was there before.
LEMMA InsertAnswers ==
  ASSUME Inv, AnswerInv, NEW r \in Requests, Insert(r) PROVE AnswerInv'
<1>1. PICK u \in UserIds :
        /\ IF req[r].user = None THEN users[u] = None ELSE u = req[r].user
        /\ users' = IF req[r].user = None THEN [users EXCEPT ![u] = req[r].copy]
                    ELSE SavedUsers(u, req[r].copy)
        /\ Goes(r, [req[r] EXCEPT !.user = u, !.pc = "again"])
  BY DEF Insert
<1>2. req[r].pc = "insert" /\ UNCHANGED <<links, buried>>
  BY DEF Insert
<1>3. /\ Shape(req[r]) /\ req[r] \in ReqOf /\ Knows(req[r], links, confirmed)
      /\ users \in [UserIds -> RowOf \union {None, Gone}]
  BY DEF AnswerInv, Facts, Inv, TypeOK
<1> DEFINE q == [req[r] EXCEPT !.user = u, !.pc = "again"]
<1>4. q \in ReqOf
  BY <1>3 DEF ReqOf, Places
<1>5. /\ q.op = req[r].op /\ q.email = req[r].email /\ q.password = req[r].password
      /\ q.kind = req[r].kind /\ q.link = req[r].link /\ q.copy = req[r].copy
      /\ q.before = req[r].before /\ q.alone = req[r].alone
      /\ q.pc = "again" /\ q.user = u
  BY <1>3 DEF ReqOf
<1>6. Goes(r, q)
  BY <1>1
<1> HIDE DEF q
<1>7. /\ req' \in [Requests -> ReqOf] /\ Separate(r)
      /\ req'[r] = [q EXCEPT !.alone = @ /\ Met(r, q) = {}]
  BY <1>4, <1>6, GoesApart
<1>8. q.op \in Founds \union {"find"} /\ q.op # None
  BY <1>2, <1>3, <1>5, WhoIsWhere, DistinctValues DEF Founds, Ops
<1>9. q.copy.active \in BOOLEAN /\ u # None
  BY <1>2, <1>3, <1>5, DistinctValues DEF Knows, Placed
<1>10. q.pc \in PlacesOf(q.op)
  BY <1>5, <1>8 DEF PlacesOf, Founds
<1>11. q.op \in Founds => Founding(q)
  BY <1>3, <1>5, <1>9 DEF Shape, Founding
<1>12. Shape(q)
  BY <1>5, <1>8, <1>10, <1>11 DEF Shape, Founds, Rewrites
<1>13. Linked(q, links')
  BY <1>5, <1>8 DEF Linked, Founds
<1>14. /\ TouchesRows(q, users, users') /\ users'[u] # None /\ u \notin buried
       /\ q.alone => Sure(q, users', links')
  <2>1. CASE req[r].user = None
    <3>1. q.op \in Founds /\ q.copy \in RowOf
      BY <1>2, <1>3, <1>5, <1>8, <2>1, DistinctValues DEF Knows, Placed, Shape, Founds
    <3>2. users[u] = None /\ users' = [users EXCEPT ![u] = q.copy]
      BY <1>1, <1>5, <2>1
    <3>3. users'[u] = q.copy /\ \A v \in UserIds \ {u} : users'[v] = users[v]
      BY <1>3, <3>2
    <3>4. q.copy # None /\ q.copy # Gone /\ q.email \in Emails /\ q.copy.email = q.email
      BY <1>11, <3>1, DistinctValues DEF Founding, Founds
    <3>5. q.copy.email \in Addresses(q)
      BY <3>4, DistinctValues DEF Addresses
    <3>6. TouchesRows(q, users, users')
      BY <1>5, <3>3, <3>4, <3>5 DEF TouchesRows
    <3>7. u \notin buried
      BY <3>2, DistinctValues DEF AnswerInv, Unseen
    <3>8. ASSUME q.alone PROVE Sure(q, users', links')
      <4>1. With(users, q.email) = {}
        BY <1>2, <1>5, <3>1, <3>8 DEF AnswerInv, Certain, Sure
      <4>2. With(users', q.email) = {u}
        BY <3>3, <3>4, <4>1 DEF With, Stored
      <4>3. QED
        BY <1>5, <3>1, <3>3, <4>2 DEF Sure, Founds, Rewrites
    <3>9. QED
      BY <3>3, <3>4, <3>6, <3>7, <3>8
  <2>2. CASE req[r].user # None
    <3>1. q.op = "find" /\ u = req[r].user
      BY <1>1, <1>2, <1>3, <1>5, <1>8, <2>2 DEF Shape, Founding
    <3>2. users' = SavedUsers(q.user, q.copy)
      BY <1>1, <1>5, <2>2
    <3>3. TouchesRows(q, users, users') /\ users'[u] \in RowOf
      BY <1>4, <1>5, <1>9, <3>2, SaveTouches
    <3>4. u \notin buried
      BY <3>1 DEF AnswerInv, Unseen
    <3>5. ~q.alone
      BY <1>2, <1>5, <3>1 DEF AnswerInv, Certain, Sure
    <3>6. QED
      BY <3>3, <3>4, <3>5, DistinctValues
  <2>3. QED
    BY <2>1, <2>2
<1>15. Facts(q, users', links')
  BY <1>5, <1>12, <1>13, <1>14 DEF Facts
<1>16. q.alone \in BOOLEAN /\ (req'[r].alone => q.alone) /\ req'[r].user = u /\ req'[r].pc = q.pc
       /\ req'[r].copy = q.copy /\ req'[r].email = q.email
  BY <1>4, <1>5, <1>7 DEF ReqOf
<1>17. Facts(req'[r], users', links') /\ (req'[r].alone => Sure(req'[r], users', links'))
  BY <1>4, <1>7, <1>8, <1>14, <1>15, <1>16, MetOrNot
<1>18. TouchesRows(req'[r], users, users') /\ TouchesLinks(req'[r], links, links') /\ Apiece(links')
  BY <1>2, <1>5, <1>14, <1>16, NothingTouched DEF TouchesRows, Addresses, AnswerInv
<1>19. QED
  BY <1>2, <1>7, <1>14, <1>16, <1>17, <1>18, StepKeepsAnswers

\* A request that ends leaves nothing behind.
LEMMA IdleFacts ==
  ASSUME NEW rows, NEW all
  PROVE  Idle \in ReqOf /\ Facts(Idle, rows, all) /\ ~Idle.alone /\ Idle.user = None /\ Idle.pc = "idle"
<1>1. Idle.op = None /\ Idle.pc = "idle" /\ Idle.user = None /\ Idle.alone = FALSE
  BY DEF Idle
<1>2. None \notin Ops
  BY DistinctValues
<1>3. PlacesOf(None) = {"idle"}
  BY <1>2 DEF PlacesOf, Ops
<1>4. Shape(Idle)
  BY <1>1, <1>2, <1>3 DEF Shape, Founds, Rewrites, Ops
<1>5. Linked(Idle, all)
  BY <1>1, <1>2 DEF Linked, Ops
<1>6. QED
  BY <1>1, <1>4, <1>5, IdleKnows DEF Facts

LEMMA EndKeepsAnswers ==
  ASSUME Inv, AnswerInv, NEW r \in Requests, req' = [req EXCEPT ![r] = Idle],
         UNCHANGED <<users, links>>, \A u \in buried' : u \in buried \/ Unseen(u)'
  PROVE  AnswerInv'
<1>1. Idle \in ReqOf /\ ~Idle.alone /\ Idle.user = None /\ Idle.pc = "idle" /\ Facts(Idle, users', links')
  BY IdleFacts
<1>2. req' \in [Requests -> ReqOf] /\ Separate(r) /\ req'[r] = Idle
  BY <1>1, StepApart
<1>3. TouchesRows(Idle, users, users') /\ TouchesLinks(Idle, links, links') /\ Apiece(links')
  BY NothingTouched DEF AnswerInv
<1>4. Idle.user \notin buried
  BY <1>1, DistinctValues DEF Inv, TypeOK
<1>5. QED
  BY <1>1, <1>2, <1>3, <1>4, StepKeepsAnswers

\* A deletion that met no other: nobody is about the user any more.
LEMMA AnswerAnswers ==
  ASSUME Inv, AnswerInv, NEW r \in Requests, Answer(r) PROVE AnswerInv'
<1>1. /\ req[r].pc = "done" /\ req' = [req EXCEPT ![r] = Idle] /\ UNCHANGED <<users, links>>
      /\ buried' = IF req[r].op = "delete" /\ req[r].alone THEN buried \union {req[r].user} ELSE buried
  BY DEF Answer
<1>2. \A x \in Requests : req[x] \in ReqOf /\ Shape(req[x])
  BY DEF AnswerInv, Facts, Inv, TypeOK
<1>3. ASSUME NEW u \in buried', u \notin buried PROVE Unseen(u)'
  <2>1. req[r].op = "delete" /\ req[r].alone /\ u = req[r].user
    BY <1>1, <1>3
  <2>2. users[u] = Gone
    BY <1>1, <2>1 DEF AnswerInv, Certain, Sure
  <2>3. u # None
    BY <1>2, <2>1, DistinctValues DEF Shape, Founds, Ops
  <2>4. ASSUME NEW x \in Requests \ {r} PROVE req[x].user # u
    <3>1. CASE req[x].pc = "idle"
      BY <1>2, <2>3, <3>1, IdleOrBusy
    <3>2. CASE req[x].pc # "idle"
      BY <2>1, <2>3, <3>2 DEF AnswerInv, Certain, Unmet, Meets
    <3>3. QED
      BY <3>1, <3>2
  <2>5. \A x \in Requests : req'[x].user # u
    <3>1. req \in [Requests -> ReqOf] /\ Idle.user = None
      BY IdleFacts DEF Inv, TypeOK
    <3>2. QED
      BY <1>1, <2>3, <2>4, <3>1
  <2>6. QED
    BY <1>1, <2>2, <2>5 DEF Unseen
<1>4. \A u \in buried' : u \in buried \/ Unseen(u)'
  BY <1>3
<1>5. QED
  BY <1>1, <1>4, EndKeepsAnswers

LEMMA FailAnswers ==
  ASSUME Inv, AnswerInv, NEW r \in Requests, Fail(r) PROVE AnswerInv'
BY EndKeepsAnswers DEF Fail

LEMMA FindAnswers ==
  ASSUME Inv, AnswerInv, NEW r \in Requests, Find(r) PROVE AnswerInv'
<1>1. req[r].pc = "find" /\ UNCHANGED <<users, links, buried>>
  BY DEF Find
<1>2. CASE Stored(users[req[r].user])
  <2>1. req' = [req EXCEPT ![r] = Idle]
    BY <1>2 DEF Find
  <2>2. QED
    BY <1>1, <2>1, EndKeepsAnswers
<1>3. CASE ~Stored(users[req[r].user])
  <2> DEFINE c == [req[r].copy EXCEPT !.active = TRUE]
             q == [req[r] EXCEPT !.pc = "insert", !.copy = c]
  <2>1. Shape(req[r]) /\ req[r] \in ReqOf /\ req[r].copy \in CopyOf
    BY DEF AnswerInv, Facts, Inv, TypeOK, ReqOf
  <2>2. req' = [req EXCEPT ![r] = q]
    BY <1>3 DEF Find
  <2>3. c \in CopyOf /\ c.email = req[r].copy.email
    BY <2>1 DEF CopyOf
  <2> HIDE DEF c
  <2>4. q \in ReqOf
    BY <2>1, <2>3 DEF ReqOf, Places
  <2>5. /\ q.op = req[r].op /\ q.user = req[r].user /\ q.email = req[r].email
        /\ q.alone = req[r].alone /\ q.pc = "insert" /\ q.copy = c
    BY <2>1 DEF ReqOf
  <2> HIDE DEF q
  <2>6. q.op = "find" /\ q.op # None /\ q.user \in UserIds
    BY <1>1, <2>1, <2>5, WhoIsWhere, DistinctValues DEF Shape, Founds, Ops
  <2>7. req' \in [Requests -> ReqOf] /\ Separate(r) /\ req'[r] = q
    BY <1>1, <2>2, <2>3, <2>4, <2>5, StepApart DEF Addresses
  <2>8. q.pc \in PlacesOf(q.op)
    BY <2>5, <2>6 DEF PlacesOf
  <2>9. Shape(q) /\ Linked(q, links')
    BY <2>5, <2>6, <2>8 DEF Shape, Linked, Founds, Rewrites
  <2>10. q.user \notin buried /\ users'[q.user] # None
    BY <1>1, <2>5, <2>6, DistinctValues DEF AnswerInv, Unseen, Facts
  <2>11. Facts(q, users', links')
    BY <2>9, <2>10 DEF Facts
  <2>12. ~q.alone
    BY <1>3, <2>5, <2>6 DEF AnswerInv, Certain, Sure
  <2>13. TouchesRows(q, users, users') /\ TouchesLinks(q, links, links') /\ Apiece(links')
    BY <1>1, NothingTouched DEF AnswerInv
  <2>14. QED
    BY <1>1, <2>7, <2>10, <2>11, <2>12, <2>13, StepKeepsAnswers
<1>4. QED
  BY <1>2, <1>3

LEMMA InitHasAnswers == Init => AnswerInv
<1> SUFFICES ASSUME Init PROVE AnswerInv
  OBVIOUS
<1>1. \A r \in Requests : req[r] = Idle
  BY DEF Init
<1>2. \A r \in Requests : Facts(req[r], users, links) /\ ~req[r].alone
  BY <1>1, IdleFacts
<1>3. Apiece(links) /\ buried = {}
  BY DEF Init, Apiece, Stored
<1>4. QED
  BY <1>2, <1>3 DEF AnswerInv, Certain

LEMMA RequestKeepsAnswers ==
  ASSUME Inv, AnswerInv, NEW r \in Requests,
         \/ Register(r) \/ SocialRegister(r) \/ Insert(r) \/ SaveAgain(r) \/ Furnish(r) \/ NewLink(r)
         \/ SocialLogin(r) \/ ChangePassword(r)
         \/ AskForPassword(r) \/ AskForEmail(r) \/ AskToVerify(r) \/ FindOld(r) \/ RetireOld(r)
         \/ ResetPassword(r) \/ ChangeEmail(r) \/ VerifyEmail(r) \/ Save(r) \/ Spend(r)
         \/ Delete(r) \/ Remove(r) \/ FindMe(r) \/ Find(r)
         \/ Answer(r) \/ Fail(r)
  PROVE  AnswerInv'
<1>1. CASE Register(r) \/ SocialRegister(r) \/ Insert(r)
  BY <1>1, RegisterAnswers, SocialRegisterAnswers, InsertAnswers
<1>2. CASE SaveAgain(r) \/ Furnish(r) \/ NewLink(r)
  BY <1>2, SaveAgainAnswers, FurnishAnswers, NewLinkAnswers
<1>3. CASE SocialLogin(r) \/ ChangePassword(r)
  BY <1>3, SocialLoginAnswers, ChangePasswordAnswers
<1>4. CASE AskForPassword(r) \/ AskForEmail(r) \/ AskToVerify(r)
  BY <1>4, AskAnswers
<1>5. CASE FindOld(r) \/ RetireOld(r)
  BY <1>5, FindOldAnswers, RetireOldAnswers
<1>6. CASE ResetPassword(r) \/ ChangeEmail(r) \/ VerifyEmail(r)
  BY <1>6, ResetAnswers, ChangeEmailAnswers, VerifyAnswers
<1>7. CASE Save(r) \/ Spend(r)
  BY <1>7, SaveAnswers, SpendAnswers
<1>8. CASE Delete(r) \/ Remove(r) \/ FindMe(r) \/ Find(r)
  BY <1>8, DeleteAnswers, RemoveAnswers, FindMeAnswers, FindAnswers
<1>9. CASE Answer(r) \/ Fail(r)
  BY <1>9, AnswerAnswers, FailAnswers
<1>10. QED
  BY <1>1, <1>2, <1>3, <1>4, <1>5, <1>6, <1>7, <1>8, <1>9

LEMMA NextKeepsAnswers == Inv /\ AnswerInv /\ [Next]_vars => AnswerInv'
<1> SUFFICES ASSUME Inv, AnswerInv, [Next]_vars PROVE AnswerInv'
  OBVIOUS
<1>1. CASE UNCHANGED vars
  BY <1>1, SameRequests DEF vars
<1>2. CASE Login \/ LogOut \/ Expire
  BY <1>2, SameRequests DEF Login, LogOut, Expire
<1>3. CASE \E r \in Requests :
             \/ Register(r) \/ SocialRegister(r) \/ Insert(r) \/ SaveAgain(r) \/ Furnish(r) \/ NewLink(r)
             \/ SocialLogin(r) \/ ChangePassword(r)
             \/ AskForPassword(r) \/ AskForEmail(r) \/ AskToVerify(r) \/ FindOld(r) \/ RetireOld(r)
             \/ ResetPassword(r) \/ ChangeEmail(r) \/ VerifyEmail(r) \/ Save(r) \/ Spend(r)
             \/ Delete(r) \/ Remove(r) \/ FindMe(r) \/ Find(r)
             \/ Answer(r) \/ Fail(r)
  BY <1>3, RequestKeepsAnswers
<1>4. QED
  BY <1>1, <1>2, <1>3 DEF Next

LEMMA SpecKeepsAnswers == Spec => []AnswerInv
<1>1. Init => AnswerInv
  BY InitHasAnswers
<1>2. Inv /\ AnswerInv /\ [Next]_vars => AnswerInv'
  BY NextKeepsAnswers
<1>3. QED
  BY <1>1, <1>2, SpecKeepsInv, PTL DEF Spec

(***************************************************************************)
(* A user whose deletion was answered, and met no other request, is never  *)
(* there again: no copy of the row is in the memory of a request that      *)
(* would save it, no link of the user is left, and no token of it is let   *)
(* in (delete-user-account-use-case.ts:31).                                *)
(***************************************************************************)
THEOREM DeletedAlwaysStayDeleted == Spec => []DeletedStaysDeleted
<1>1. AnswerInv => DeletedStaysDeleted
  BY DEF AnswerInv, Unseen, DeletedStaysDeleted, Stored
<1>2. QED
  BY <1>1, SpecKeepsAnswers, PTL

(***************************************************************************)
(* What the answer of a request that met no other promises is so when it   *)
(* is given, however many requests about others are under way.             *)
(***************************************************************************)
LEMMA KeptPromise ==
  ASSUME NEW q \in ReqOf, Shape(q), Sure(q, users, links), q.pc = "done"
  PROVE  Promised(q)
<1>1. /\ \A e : UsersWith(e) = With(users, e)
      /\ \A u, kind : LinksOf(u, kind) = Of(links, u, kind)
  BY DEF UsersWith, With, LinksOf, Of
<1>2. q.op \in Founds => /\ Founding(q) /\ users[q.user] = q.copy
                         /\ With(users, q.email) = {q.user}
  BY DEF Shape, Sure
<1>3. q.op \in Rewrites => Rewriting(q) /\ users[q.user] = Saved(q.before, q.copy)
  BY DEF Shape, Sure
<1>4. q.op \in {"register", "ask"} => Of(links, q.user, q.kind) = {q.link}
  BY DEF Sure
<1>5. q.op = "register" => q.kind = "verify"
  BY <1>2 DEF Founding, Founds
<1>6. q.op = "register" => users[q.user] = [email |-> q.email, password |-> q.password, active |-> FALSE]
  BY <1>2 DEF Founding, Founds
<1>7. q.op = "social" => users[q.user] = [email |-> q.email, password |-> None, active |-> TRUE]
  BY <1>2 DEF Founding, Founds
<1>8. q.op \in {"rename", "ask"} => users[q.user] = q.before
  BY <1>3, SavedAsIs DEF Rewriting, Rewrites
<1>9. q.op = "change" => users[q.user] = [q.before EXCEPT !.password = q.password]
  <2>1. SUFFICES ASSUME q.op = "change" PROVE users[q.user] = [q.before EXCEPT !.password = q.password]
    OBVIOUS
  <2>2. /\ q.before \in RowOf /\ Stored(q.before) /\ q.password \in Passwords
        /\ q.copy = [q.before EXCEPT !.password = q.password]
    BY <1>3, <2>1, SavedAsIs DEF Rewriting, Rewrites
  <2>3. q.password # Undefined
    BY <2>2, DistinctValues
  <2>4. Saved(q.before, q.copy) = q.copy
    BY <2>2, <2>3 DEF Saved, Kept, RowOf
  <2>5. QED
    BY <1>3, <2>1, <2>2, <2>4 DEF Rewrites
<1>10. ASSUME q.op = "use"
       PROVE  /\ users[q.user] = Saved(q.before, q.copy) /\ Of(links, q.user, q.kind) = {}
              /\ q.kind = "password" /\ q.password # Undefined => users[q.user].password = q.password
              /\ q.kind = "verify" => users[q.user].active = TRUE
  <2>1. /\ q.before \in RowOf /\ Stored(q.before) /\ users[q.user] = Saved(q.before, q.copy)
        /\ q.kind = "password" => q.copy.password = q.password
        /\ q.kind = "verify" => q.copy.active = TRUE
    BY <1>3, <1>10, SavedAsIs DEF Rewriting, Rewrites
  <2>2. users[q.user].password = Kept(q.before.password, q.copy.password)
    BY <2>1 DEF Saved
  <2>3. users[q.user].active = Kept(q.before.active, q.copy.active)
    BY <2>1 DEF Saved
  <2>4. TRUE # Undefined
    BY DistinctValues
  <2>5. Of(links, q.user, q.kind) = {}
    BY <1>10 DEF Sure
  <2>6. QED
    BY <2>1, <2>2, <2>3, <2>4, <2>5 DEF Kept
<1>11. q.op = "delete" => users[q.user] = Gone /\ \A kind \in Kinds : Of(links, q.user, kind) = {}
  BY DEF Sure
<1>12. q.op # "find"
  BY DEF Sure
<1>13. QED
  BY <1>1, <1>2, <1>4, <1>5, <1>6, <1>7, <1>8, <1>9, <1>10, <1>11, <1>12
     DEF Promised, Founds, Stored

(***************************************************************************)
(* The answer of a request that met no other is true: the password that    *)
(* was changed or reset logs in, the address that was registered has one   *)
(* account, the link that was mailed is the only one of its kind, a link   *)
(* that was followed is gone, and the rest is as the request found it.     *)
(***************************************************************************)
THEOREM AnswersAreAlwaysTrue == Spec => []AnswersAreTrue
<1>1. Inv /\ AnswerInv => AnswersAreTrue
  BY KeptPromise DEF AnswersAreTrue, AnswerInv, Facts, Certain, Inv, TypeOK
<1>2. QED
  BY <1>1, SpecKeepsInv, SpecKeepsAnswers, PTL
-----------------------------------------------------------------------------
(***************************************************************************)
(* The reminders of the accounts, and the lock their job runs under.       *)
(***************************************************************************)

(***************************************************************************)
(* A step of the lock keeps its variables in their types ...               *)
(***************************************************************************)
LEMMA LockTypeStep == LockTypeOK /\ [LockNext]_lockVars => LockTypeOK'
<1> SUFFICES ASSUME LockTypeOK, [LockNext]_lockVars
             PROVE  LockTypeOK'
  OBVIOUS
<1>1. CASE UNCHANGED lockVars
  BY <1>1 DEF lockVars, LockTypeOK
<1>2. ASSUME NEW i \in Instances, Tick(i) \/ LockStep(i) \/ FinishBody(i)
      PROVE  LockTypeOK'
  BY <1>2 DEF LockTypeOK, LockPlaces, Move, Tick, LockStep, FindJob, SaveSelect,
              SaveInsert, FinishBody, FindToRemove, RemoveJob
<1>3. ASSUME NEW i \in Instances, StatementFails(i) \/ Crash(i) \/ BodyFails(i)
      PROVE  LockTypeOK'
  <2>1. faults' \in 0..MaxFaults
    BY <1>3, MaxFaultsAssumption DEF LockTypeOK, StatementFails, Crash, BodyFails
  <2>2. QED
    BY <1>3, <2>1 DEF LockTypeOK, LockPlaces, Move, StatementFails, Crash, BodyFails
<1>4. QED
  BY <1>1, <1>2, <1>3 DEF LockNext

(***************************************************************************)
(* ... and leaves somebody who will remove the row.                        *)
(***************************************************************************)
LEMMA RemoverStep ==
  LockTypeOK /\ LockTypeOK' /\ RowHasARemover /\ [LockNext]_lockVars => RowHasARemover'
<1> SUFFICES ASSUME LockTypeOK, LockTypeOK', RowHasARemover,
                    [LockNext]_lockVars, JobKey \in jobList', faults' = 0
             PROVE  \E k \in Instances : pc'[k] \in Held
  BY DEF RowHasARemover
<1> USE DEF Held, LockTypeOK
<1>1. CASE UNCHANGED lockVars
  BY <1>1 DEF lockVars, RowHasARemover
<1>2. ASSUME NEW i \in Instances, StatementFails(i) \/ Crash(i) \/ BodyFails(i)
      PROVE  \E k \in Instances : pc'[k] \in Held
  BY <1>2 DEF StatementFails, Crash, BodyFails
<1>3. ASSUME NEW i \in Instances, SaveInsert(i)
      PROVE  pc'[i] \in Held
  BY <1>3 DEF SaveInsert, Move
<1>4. ASSUME NEW i \in Instances, RemoveJob(i)
      PROVE  \E k \in Instances : pc'[k] \in Held
  BY <1>4 DEF RemoveJob
<1>5. ASSUME NEW i \in Instances,
             Tick(i) \/ FindJob(i) \/ SaveSelect(i) \/ FinishBody(i) \/ FindToRemove(i)
      PROVE  \E k \in Instances : pc'[k] \in Held
  <2>1. PICK k \in Instances : pc[k] \in Held
    BY <1>5 DEF RowHasARemover, Tick, FindJob, SaveSelect, FinishBody, FindToRemove
  <2>2. pc'[k] \in Held
    BY <1>5, <2>1 DEF Move, Tick, FindJob, SaveSelect, FinishBody, FindToRemove
  <2>3. QED
    BY <2>2
<1>6. QED
  BY <1>1, <1>2, <1>3, <1>4, <1>5 DEF LockNext, LockStep

(***************************************************************************)
(* Every variable of the job lock keeps its type.                          *)
(***************************************************************************)
THEOREM LockTypeCorrect == LockSpec => []LockTypeOK
<1>1. LockInit => LockTypeOK
  BY MaxFaultsAssumption DEF LockInit, LockTypeOK, LockPlaces
<1>2. QED
  BY <1>1, LockTypeStep, PTL DEF LockSpec

(***************************************************************************)
(* With no crash and no failed statement, a row in job_list always has an  *)
(* instance that is still going to remove it, however many instances run   *)
(* the handler and whichever of them inserted the row.                     *)
(***************************************************************************)
THEOREM RowAlwaysHasARemover == LockSpec => []RowHasARemover
<1>1. LockInit => RowHasARemover
  BY DEF LockInit, RowHasARemover
<1>2. QED
  BY <1>1, RemoverStep, LockTypeCorrect, PTL DEF LockSpec
-----------------------------------------------------------------------------
(***************************************************************************)
(* What each step does to the lock: a step of the job and of the requests  *)
(* is a step of the lock's own specification, or leaves it alone.          *)
(***************************************************************************)
LEMMA StepKeepsLock == [RemindersNext]_reminderVars => [LockNext]_lockVars
<1> SUFFICES ASSUME [RemindersNext]_reminderVars PROVE [LockNext]_lockVars
  OBVIOUS
<1>1. CASE UNCHANGED reminderVars
  BY <1>1 DEF reminderVars, lockVars
<1>2. ASSUME NEW i \in Instances, LockMoves(i)
      PROVE  LockNext
  BY <1>2 DEF LockMoves, Around, LockNext
<1>3. ASSUME NEW i \in Instances, Work(i)
      PROVE  UNCHANGED lockVars
  BY <1>3 DEF Work, FindUsers, FindUnsent, Mark, AddAction, Mail, lockVars
<1>4. ASSUME NEW i \in Instances, EndOfJob(i) \/ WorkFails(i) \/ Crashes(i)
      PROVE  LockNext
  BY <1>4 DEF EndOfJob, WorkFails, Crashes, LockNext
<1>5. ASSUME UseTable \/ PostAction \/ ListActions \/ ReadAction \/ SaveAction
      PROVE  UNCHANGED lockVars
  BY <1>5 DEF UseTable, PostAction, ListActions, ReadAction, SaveAction, lockVars
<1>6. QED
  BY <1>1, <1>2, <1>3, <1>4, <1>5 DEF RemindersNext

(***************************************************************************)
(* The reminder job implements the specification of the job lock, so what  *)
(* holds of the lock holds of the job.                                     *)
(***************************************************************************)
THEOREM RemindersKeepTheLock == RemindersSpec => LockInit /\ [][LockNext]_lockVars
<1>1. RemindersInit => LockInit
  BY DEF RemindersInit
<1>2. QED
  BY <1>1, StepKeepsLock, PTL DEF RemindersSpec

(***************************************************************************)
(* The steps of the lock leave instances that are at work where they are.  *)
(***************************************************************************)
LEMMA LockMovesOthers ==
  ASSUME LockTypeOK, NEW i \in Instances, LockMoves(i), NEW x \in Instances
  PROVE  pc[x] = "body" => pc'[x] = "body"
<1> USE DEF LockTypeOK, Move
<1>1. ASSUME Tick(i) \/ StatementFails(i) PROVE pc[x] = "body" => pc'[x] = "body"
  BY <1>1 DEF Tick, StatementFails
<1>2. ASSUME LockStep(i) PROVE pc[x] = "body" => pc'[x] = "body"
  BY <1>2 DEF LockStep, FindJob, SaveSelect, SaveInsert, FindToRemove, RemoveJob
<1>3. QED
  BY <1>1, <1>2 DEF LockMoves, Around

(***************************************************************************)
(* A step keeps the types.                                                 *)
(***************************************************************************)
JobTypeOK ==
  /\ action \in Rows \union {NoAction}
  /\ logs \in BOOLEAN
  /\ job \in [Instances -> [at : Stages, copy : Rows \union {NoAction}]]
  /\ writer \in [at : {"none", "read", "save"}, copy : Rows \union {NoAction}, finished : BOOLEAN]
  /\ mails \in 0..MaxMails
JobsPlaced ==
  \A x \in Instances : /\ pc[x] # "body" => job[x].at = "start"
                       /\ job[x].at = "mark" => job[x].copy # NoAction

LEMMA WorkTypes ==
  ASSUME RemindersTypeOK, NEW i \in Instances, Work(i)
  PROVE  JobTypeOK' /\ JobsPlaced'
<1> USE MaxMailsAssumption DEF RemindersTypeOK, JobTypeOK, JobsPlaced, In, Then, Stages, Rows, lockVars
<1>1. CASE FindUsers(i)
  BY <1>1 DEF FindUsers
<1>2. CASE FindUnsent(i)
  BY <1>2 DEF FindUnsent
<1>3. CASE Mark(i)
  BY <1>3 DEF Mark
<1>4. CASE AddAction(i)
  BY <1>4 DEF AddAction
<1>5. CASE Mail(i)
  BY <1>5 DEF Mail
<1>6. QED
  BY <1>1, <1>2, <1>3, <1>4, <1>5 DEF Work

LEMMA TypeStep == RemindersTypeOK /\ [RemindersNext]_reminderVars => RemindersTypeOK'
<1> SUFFICES ASSUME RemindersTypeOK, [RemindersNext]_reminderVars PROVE RemindersTypeOK'
  OBVIOUS
<1>1. LockTypeOK'
  BY StepKeepsLock, LockTypeStep DEF RemindersTypeOK
<1>2. SUFFICES JobTypeOK' /\ JobsPlaced'
  BY <1>1 DEF RemindersTypeOK, JobTypeOK, JobsPlaced
<1>3. CASE UNCHANGED reminderVars
  BY <1>3 DEF reminderVars, lockVars, jobVars, RemindersTypeOK, JobTypeOK, JobsPlaced
<1>4. ASSUME NEW i \in Instances, LockMoves(i)
      PROVE  JobTypeOK' /\ JobsPlaced'
  <2>1. \A x \in Instances : pc[x] = "body" => pc'[x] = "body"
    BY <1>4, LockMovesOthers DEF RemindersTypeOK
  <2>2. UNCHANGED <<action, logs, job, writer, mails>>
    BY <1>4 DEF LockMoves, Around
  <2>3. QED
    BY <2>1, <2>2 DEF RemindersTypeOK, JobTypeOK, JobsPlaced
<1>5. ASSUME NEW i \in Instances, Work(i)
      PROVE  JobTypeOK' /\ JobsPlaced'
  BY <1>5, WorkTypes
<1>6. ASSUME NEW i \in Instances, EndOfJob(i) \/ Crashes(i)
      PROVE  JobTypeOK' /\ JobsPlaced'
  <2>1. /\ job' = [job EXCEPT ![i] = [at |-> "start", copy |-> NoAction]]
        /\ UNCHANGED <<action, logs, writer, mails>>
    BY <1>6 DEF EndOfJob, Crashes, Then
  <2>2. \A x \in Instances \ {i} : pc'[x] = pc[x]
    BY <1>6 DEF EndOfJob, Crashes, Crash, FinishBody, Move, RemindersTypeOK, LockTypeOK
  <2>3. QED
    BY <2>1, <2>2 DEF RemindersTypeOK, JobTypeOK, JobsPlaced, Stages
<1>7. ASSUME NEW i \in Instances, WorkFails(i)
      PROVE  JobTypeOK' /\ JobsPlaced'
  <2>1. PICK at \in {"done", "mail"} : job' = [job EXCEPT ![i] = [at |-> at, copy |-> NoAction]]
    BY <1>7 DEF WorkFails, Then
  <2>2. pc[i] = "body" /\ UNCHANGED <<pc, action, logs, writer, mails>>
    BY <1>7 DEF WorkFails, BodyFails
  <2>3. QED
    BY <2>1, <2>2 DEF RemindersTypeOK, JobTypeOK, JobsPlaced, Stages
<1>8. ASSUME UseTable \/ PostAction \/ ListActions \/ ReadAction \/ SaveAction
      PROVE  JobTypeOK' /\ JobsPlaced'
  <2>1. UNCHANGED <<pc, job, mails>>
    BY <1>8 DEF UseTable, PostAction, ListActions, ReadAction, SaveAction, lockVars
  <2>2. JobsPlaced'
    BY <2>1 DEF RemindersTypeOK, JobsPlaced
  <2>3. logs' \in BOOLEAN
    BY <1>8 DEF RemindersTypeOK, UseTable, PostAction, ListActions, ReadAction, SaveAction
  <2>4. writer' \in [at : {"none", "read", "save"}, copy : Rows \union {NoAction}, finished : BOOLEAN]
    <3>1. \/ writer' = writer \/ writer' = NoWriter \/ writer' = [NoWriter EXCEPT !.at = "read"]
          \/ \E f \in BOOLEAN : writer' = [at |-> "save", copy |-> action, finished |-> f]
      BY <1>8 DEF UseTable, PostAction, ListActions, ReadAction, SaveAction
    <3>2. action \in Rows \union {NoAction}
      BY DEF RemindersTypeOK
    <3> DEFINE W == [at : {"none", "read", "save"}, copy : Rows \union {NoAction}, finished : BOOLEAN]
    <3>3. NoWriter \in W
      BY DEF NoWriter
    <3>4. [NoWriter EXCEPT !.at = "read"] \in W
      BY DEF NoWriter
    <3>5. \A f \in BOOLEAN : [at |-> "save", copy |-> action, finished |-> f] \in W
      BY <3>2
    <3>6. writer \in W
      BY DEF RemindersTypeOK
    <3> HIDE DEF W
    <3>7. writer' \in W
      BY <3>1, <3>3, <3>4, <3>5, <3>6
    <3>8. QED
      BY <3>7 DEF W
  <2>5. action' \in Rows \union {NoAction}
    <3>1. action' = action \/ action' = Written(writer)
      BY <1>8 DEF UseTable, PostAction, ListActions, ReadAction, SaveAction
    <3>2. /\ writer.copy \in Rows \union {NoAction} /\ writer.finished \in BOOLEAN
          /\ action \in Rows \union {NoAction}
      BY DEF RemindersTypeOK
    <3>3. writer.copy \in Rows => [writer.copy EXCEPT !.finished = writer.finished] \in Rows
      BY <3>2 DEF Rows
    <3>4. [finished |-> writer.finished, sent |-> FALSE] \in Rows
      BY <3>2 DEF Rows
    <3>5. Written(writer) \in Rows \union {NoAction}
      BY <3>2, <3>3, <3>4 DEF Written
    <3>6. QED
      BY <3>1, <3>2, <3>5
  <2>6. QED
    BY <2>1, <2>2, <2>3, <2>4, <2>5 DEF RemindersTypeOK, JobTypeOK
<1>9. QED
  BY <1>3, <1>4, <1>5, <1>6, <1>7, <1>8 DEF RemindersNext

(***************************************************************************)
(* Every variable keeps its type, the lock's included.                     *)
(***************************************************************************)
THEOREM RemindersTypeCorrect == RemindersSpec => []RemindersTypeOK
<1>1. RemindersInit => RemindersTypeOK
  <2> SUFFICES ASSUME RemindersInit PROVE RemindersTypeOK
    OBVIOUS
  <2>1. LockTypeOK
    BY MaxFaultsAssumption DEF RemindersInit, LockInit, LockTypeOK, LockPlaces
  <2>2. action \in Rows \union {NoAction} /\ logs \in BOOLEAN /\ mails \in 0..MaxMails
    <3>1. [finished : BOOLEAN, sent : {FALSE}] \subseteq Rows
      BY DEF Rows
    <3>2. action \in {NoAction} \union [finished : BOOLEAN, sent : {FALSE}]
      BY DEF RemindersInit
    <3>3. logs \in BOOLEAN /\ mails = 0
      BY DEF RemindersInit
    <3>4. action \in Rows \union {NoAction}
      BY <3>1, <3>2
    <3>5. mails \in 0..MaxMails
      BY <3>3, MaxMailsAssumption
    <3>6. QED
      BY <3>3, <3>4, <3>5
  <2>3. /\ job \in [Instances -> [at : Stages, copy : Rows \union {NoAction}]]
        /\ \A i \in Instances : job[i].at = "start"
    BY DEF RemindersInit, NoJob, Stages
  <2>4. writer \in [at : {"none", "read", "save"}, copy : Rows \union {NoAction}, finished : BOOLEAN]
    BY DEF RemindersInit, NoWriter
  <2>5. QED
    BY <2>1, <2>2, <2>3, <2>4 DEF RemindersTypeOK
<1>2. QED
  BY <1>1, TypeStep, PTL DEF RemindersSpec

(***************************************************************************)
(* What makes a mark true: the mail went out, will go out next, or a step  *)
(* failed.  A copy of a marked row, which a request may save back, is no   *)
(* younger than the mark.                                                  *)
(***************************************************************************)
AtMail(i) == In(i, "add") \/ In(i, "mail")
Excused   == mails > 0 \/ "fault" \in excuses \/ \E i \in Instances : AtMail(i)
Marked(row) == row # NoAction /\ row.sent
MarksAreMeant == Marked(action) \/ Marked(writer.copy) => Excused

LEMMA ExcuseStays == RemindersTypeOK /\ [RemindersNext]_reminderVars /\ Excused => Excused'
<1> SUFFICES ASSUME RemindersTypeOK, [RemindersNext]_reminderVars, Excused PROVE Excused'
  OBVIOUS
<1> USE DEF Excused, AtMail, In
<1>1. CASE UNCHANGED reminderVars
  BY <1>1 DEF reminderVars, lockVars, jobVars
<1>2. ASSUME NEW i \in Instances, LockMoves(i) PROVE Excused'
  <2>1. \A x \in Instances : pc[x] = "body" => pc'[x] = "body"
    BY <1>2, LockMovesOthers DEF RemindersTypeOK
  <2>2. UNCHANGED <<job, mails>> /\ excuses \subseteq excuses'
    BY <1>2 DEF LockMoves, Around
  <2>3. QED
    BY <2>1, <2>2
<1>3. ASSUME NEW i \in Instances, FindUsers(i) \/ FindUnsent(i) \/ Mark(i)
      PROVE Excused'
  <2>1. /\ UNCHANGED <<pc, mails, excuses>>
        /\ \A x \in Instances \ {i} : job'[x] = job[x]
        /\ ~AtMail(i)
    BY <1>3 DEF FindUsers, FindUnsent, Mark, Then, RemindersTypeOK, lockVars
  <2>2. QED
    BY <2>1
<1>4. ASSUME NEW i \in Instances, AddAction(i) PROVE Excused'
  BY <1>4 DEF AddAction, Then, RemindersTypeOK, lockVars
<1>5. ASSUME NEW i \in Instances, Mail(i) PROVE mails' > 0
  BY <1>5, MaxMailsAssumption DEF Mail, RemindersTypeOK
<1>6. ASSUME NEW i \in Instances, EndOfJob(i) PROVE Excused'
  <2>1. /\ UNCHANGED <<mails, excuses>> /\ ~AtMail(i)
        /\ \A x \in Instances \ {i} : job'[x] = job[x] /\ pc'[x] = pc[x]
    BY <1>6 DEF EndOfJob, Then, FinishBody, Move, RemindersTypeOK, LockTypeOK
  <2>2. QED
    BY <2>1
<1>7. ASSUME NEW i \in Instances, WorkFails(i) \/ Crashes(i) PROVE "fault" \in excuses'
  BY <1>7 DEF WorkFails, Crashes
<1>8. ASSUME UseTable \/ PostAction \/ ListActions \/ ReadAction \/ SaveAction
      PROVE  Excused'
  <2>1. UNCHANGED <<pc, job, mails>> /\ excuses \subseteq excuses'
    BY <1>8 DEF UseTable, PostAction, ListActions, ReadAction, SaveAction, lockVars
  <2>2. QED
    BY <2>1
<1>9. QED
  BY <1>1, <1>2, <1>3, <1>4, <1>5, <1>6, <1>7, <1>8 DEF RemindersNext, Work

LEMMA MarksStep == RemindersTypeOK /\ MarksAreMeant /\ [RemindersNext]_reminderVars => MarksAreMeant'
<1> SUFFICES ASSUME RemindersTypeOK, MarksAreMeant, [RemindersNext]_reminderVars,
                    Marked(action') \/ Marked(writer'.copy), ~Excused
             PROVE  Excused'
  BY ExcuseStays DEF MarksAreMeant, Marked
<1>1. ~Marked(action) /\ ~Marked(writer.copy)
  BY DEF MarksAreMeant
<1>2. CASE UNCHANGED reminderVars
  BY <1>1, <1>2 DEF reminderVars, jobVars
<1>3. ASSUME NEW i \in Instances, LockMoves(i) \/ EndOfJob(i) \/ WorkFails(i) \/ Crashes(i)
      PROVE  FALSE
  <2>1. UNCHANGED <<action, writer>>
    BY <1>3 DEF LockMoves, Around, EndOfJob, WorkFails, Crashes
  <2>2. QED
    BY <1>1, <2>1
<1>4. ASSUME NEW i \in Instances, FindUsers(i) \/ FindUnsent(i) \/ Mail(i)
      PROVE  FALSE
  BY <1>1, <1>4 DEF FindUsers, FindUnsent, Mail
<1>5. ASSUME NEW i \in Instances, Mark(i) PROVE Excused'
  BY <1>5 DEF Mark, Then, In, RemindersTypeOK, Excused, AtMail, lockVars
<1>6. ASSUME NEW i \in Instances, AddAction(i) PROVE Excused'
  BY <1>6 DEF AddAction, Then, In, RemindersTypeOK, Excused, AtMail, lockVars
<1>7. ASSUME UseTable \/ ListActions PROVE FALSE
  BY <1>1, <1>7 DEF UseTable, ListActions, Marked, NoWriter
<1>8. ASSUME PostAction \/ ReadAction PROVE FALSE
  <2>1. action' = action /\ (writer'.copy = action \/ writer'.copy = NoAction)
    BY <1>8 DEF PostAction, ReadAction, NoWriter
  <2>2. QED
    BY <1>1, <2>1 DEF Marked
<1>9. ASSUME SaveAction PROVE FALSE
  <2>1. writer'.copy = NoAction /\ action' = Written(writer)
    BY <1>9 DEF SaveAction, NoWriter
  <2>2. CASE writer.copy # NoAction
    <3>1. Written(writer).sent = writer.copy.sent
      BY <2>2 DEF Written, RemindersTypeOK, Rows
    <3>2. QED
      BY <1>1, <2>1, <2>2, <3>1 DEF Marked
  <2>3. CASE writer.copy = NoAction /\ action = NoAction
    BY <1>1, <2>1, <2>3 DEF Marked, Written
  <2>4. CASE writer.copy = NoAction /\ action # NoAction
    BY <1>1, <2>1, <2>4 DEF Marked, Written
  <2>5. QED
    BY <2>2, <2>3, <2>4
<1>10. QED
  BY <1>2, <1>3, <1>4, <1>5, <1>6, <1>7, <1>8, <1>9 DEF RemindersNext, Work

(***************************************************************************)
(* A row that says the mail was sent tells the truth, unless a step failed *)
(* or the instance that marked it is about to send it; whatever the        *)
(* requests that write the same row have read, and when.                   *)
(***************************************************************************)
THEOREM MarkedRowsWereMailed == RemindersSpec => []MarkedWasMailed
<1>1. RemindersInit => MarksAreMeant
  <2> SUFFICES ASSUME RemindersInit PROVE ~Marked(action) /\ ~Marked(writer.copy)
    BY DEF MarksAreMeant
  <2>1. action \in {NoAction} \union [finished : BOOLEAN, sent : {FALSE}]
    BY DEF RemindersInit
  <2>2. ~Marked(action)
    BY <2>1 DEF Marked
  <2>3. writer.copy = NoAction
    BY DEF RemindersInit, NoWriter
  <2>4. QED
    BY <2>2, <2>3 DEF Marked
<1>2. MarksAreMeant => MarkedWasMailed
  BY DEF MarksAreMeant, Marked, Excused, AtMail, MarkedWasMailed
<1>3. QED
  BY <1>1, <1>2, MarksStep, RemindersTypeCorrect, PTL DEF RemindersSpec

(***************************************************************************)
(* While nothing went wrong one instance is at work, and it finds the user *)
(* due only as long as no mail went out.                                   *)
(***************************************************************************)
Alone    == \A i, x \in Instances : pc[i] = "body" /\ pc[x] = "body" => i = x
Busy(i)  == pc[i] = "body" /\ job[i].at \in {"find", "mark", "add", "mail"}
OnceInv  == /\ Alone
            /\ mails > 0 => mails = 1 /\ Marked(action)
            /\ \A i \in Instances : /\ Busy(i) => mails = 0
                                    /\ In(i, "mail") => Marked(action)
MailedOnce == excuses = {} => OnceInv

LEMMA WorkKeepsOnce ==
  ASSUME RemindersTypeOK, OnceInv, NEW i \in Instances, Work(i), excuses' = {}
  PROVE  OnceInv'
<1>1. /\ pc[i] = "body" /\ pc' = pc /\ Alone /\ Alone'
      /\ \A x \in Instances \ {i} : pc'[x] # "body"
  BY DEF Work, FindUsers, FindUnsent, Mark, AddAction, Mail, In, lockVars, OnceInv, Alone
<1>2. \A x \in Instances \ {i} : ~(Busy(x)') /\ ~(In(x, "mail")')
  BY <1>1 DEF Busy, In
<1> SUFFICES /\ mails' > 0 => mails' = 1 /\ Marked(action)'
             /\ Busy(i)' => mails' = 0
             /\ In(i, "mail")' => Marked(action)'
  BY <1>1, <1>2 DEF OnceInv
<1>3. job \in [Instances -> [at : Stages, copy : Rows \union {NoAction}]] /\ mails \in Nat
  BY MaxMailsAssumption DEF RemindersTypeOK
<1>4. CASE FindUsers(i)
  <2>1. mails' = mails /\ action' = action /\ job'[i].at = (IF Due THEN "find" ELSE "done")
    BY <1>3, <1>4 DEF FindUsers, Then
  <2>2. Due => ~Marked(action)
    BY DEF Due, Marked
  <2>3. QED
    BY <1>1, <1>3, <2>1, <2>2 DEF OnceInv, Busy, In, Marked
<1>5. CASE FindUnsent(i)
  <2>1. mails' = mails /\ action' = action /\ job'[i].at \in {"mark", "add"}
    BY <1>3, <1>5 DEF FindUnsent, Then
  <2>2. mails = 0
    BY <1>5 DEF FindUnsent, In, OnceInv, Busy
  <2>3. QED
    BY <2>1, <2>2 DEF In
<1>6. CASE Mark(i)
  <2>1. mails' = mails /\ job'[i].at = "add"
    BY <1>3, <1>6 DEF Mark, Then
  <2>2. mails = 0
    BY <1>6 DEF Mark, In, OnceInv, Busy
  <2>3. QED
    BY <2>1, <2>2 DEF In
<1>7. CASE AddAction(i)
  <2>1. mails' = mails /\ mails = 0
    BY <1>7 DEF AddAction, In, OnceInv, Busy
  <2>2. CASE action = NoAction
    <3>1. action' = [finished |-> FALSE, sent |-> TRUE]
      BY <1>7, <2>2 DEF AddAction
    <3>2. action' \in Rows /\ action'.sent
      BY <3>1 DEF Rows
    <3>3. QED
      BY <2>1, <3>2, NoActionAssumption DEF Marked
  <2>3. CASE action # NoAction
    <3>1. action' = action
      BY <1>7, <2>3 DEF AddAction
    <3>2. action.sent
      BY <1>7, <2>3 DEF AddAction
    <3>3. QED
      BY <2>1, <2>3, <3>1, <3>2 DEF Marked
  <2>4. QED
    BY <2>2, <2>3
<1>8. CASE Mail(i)
  <2>1. mails = 0 /\ Marked(action) /\ action' = action
    BY <1>8 DEF Mail, In, OnceInv, Busy
  <2>2. mails' = 1 /\ job'[i].at = "done"
    BY <1>3, <1>8, <2>1, MaxMailsAssumption DEF Mail, Then
  <2>3. QED
    BY <2>1, <2>2 DEF Busy, In, Marked
<1>9. QED
  BY <1>4, <1>5, <1>6, <1>7, <1>8 DEF Work

LEMMA OnceStep == RemindersTypeOK /\ MailedOnce /\ [RemindersNext]_reminderVars => MailedOnce'
<1> SUFFICES ASSUME RemindersTypeOK, MailedOnce, [RemindersNext]_reminderVars, excuses' = {}
             PROVE  OnceInv'
  BY DEF MailedOnce
<1>1. CASE UNCHANGED reminderVars
  BY <1>1 DEF reminderVars, lockVars, jobVars, MailedOnce, OnceInv, Alone, Busy, In, Marked
<1>2. ASSUME NEW i \in Instances, LockMoves(i) PROVE OnceInv'
  <2>1. /\ UNCHANGED <<action, job, mails>> /\ ~(Overlap') /\ excuses = {}
    BY <1>2 DEF LockMoves, Around
  <2>2. Alone'
    BY <2>1 DEF Overlap, Alone
  <2>3. \A x \in Instances : (Busy(x)' => Busy(x)) /\ (In(x, "mail")' => In(x, "mail"))
    BY <2>1 DEF RemindersTypeOK, Busy, In
  <2>4. QED
    BY <2>1, <2>2, <2>3 DEF MailedOnce, OnceInv, Marked
<1>3. ASSUME NEW i \in Instances, Work(i) PROVE OnceInv'
  <2>1. excuses = {}
    BY <1>3 DEF Work, FindUsers, FindUnsent, Mark, AddAction, Mail
  <2>2. QED
    BY <1>3, <2>1, WorkKeepsOnce DEF MailedOnce
<1>4. ASSUME NEW i \in Instances, EndOfJob(i) PROVE OnceInv'
  <2>1. UNCHANGED <<action, mails, excuses>> /\ job'[i].at = "start"
    BY <1>4 DEF EndOfJob, Then, RemindersTypeOK
  <2>2. \A x \in Instances \ {i} : job'[x] = job[x] /\ pc'[x] = pc[x]
    BY <1>4 DEF EndOfJob, Then, FinishBody, Move, RemindersTypeOK, LockTypeOK
  <2>3. pc'[i] # "body"
    BY <1>4 DEF EndOfJob, FinishBody, Move, RemindersTypeOK, LockTypeOK
  <2>4. OnceInv
    BY <2>1 DEF MailedOnce
  <2>5. Alone'
    BY <2>2, <2>3, <2>4 DEF OnceInv, Alone
  <2>6. \A x \in Instances : (Busy(x)' => Busy(x)) /\ (In(x, "mail")' => In(x, "mail"))
    BY <2>1, <2>2, <2>3 DEF Busy, In
  <2>7. QED
    BY <2>1, <2>4, <2>5, <2>6 DEF OnceInv, Marked
<1>5. ASSUME NEW i \in Instances, WorkFails(i) \/ Crashes(i) PROVE FALSE
  BY <1>5 DEF WorkFails, Crashes
<1>6. ASSUME UseTable \/ PostAction \/ ListActions \/ ReadAction PROVE OnceInv'
  <2>1. UNCHANGED <<pc, job, action, mails, excuses>>
    BY <1>6 DEF UseTable, PostAction, ListActions, ReadAction, lockVars
  <2>2. QED
    BY <2>1 DEF MailedOnce, OnceInv, Alone, Busy, In, Marked
<1>7. ASSUME SaveAction PROVE OnceInv'
  <2>1. UNCHANGED <<pc, job, mails>> /\ action' = Written(writer) /\ excuses = {}
    BY <1>7 DEF SaveAction, lockVars
  <2>2. action # NoAction /\ action.sent => Written(writer).sent
    BY <1>7 DEF SaveAction
  <2>3. action # NoAction => Written(writer) # NoAction
    <3>1. writer.copy \in Rows \union {NoAction} /\ writer.finished \in BOOLEAN
      BY DEF RemindersTypeOK
    <3>2. writer.copy \in Rows => [writer.copy EXCEPT !.finished = writer.finished] \in Rows
      BY <3>1 DEF Rows
    <3>3. QED
      BY <3>1, <3>2, NoActionAssumption DEF Written
  <2>4. Marked(action) => Marked(action')
    BY <2>1, <2>2, <2>3 DEF Marked
  <2>5. OnceInv
    BY <2>1 DEF MailedOnce
  <2>6. Alone' /\ \A x \in Instances : (Busy(x)' => Busy(x)) /\ (In(x, "mail")' => In(x, "mail"))
    BY <2>1, <2>5 DEF OnceInv, Alone, Busy, In
  <2>7. QED
    BY <2>1, <2>4, <2>5, <2>6 DEF OnceInv
<1>8. QED
  BY <1>1, <1>2, <1>3, <1>4, <1>5, <1>6, <1>7 DEF RemindersNext

(***************************************************************************)
(* The user is reminded once, however many instances run the job and       *)
(* however often, unless two of them worked at a time, a step failed, or a *)
(* request wrote the row between the statements of the job.                *)
(***************************************************************************)
THEOREM UserIsRemindedOnce == RemindersSpec => []RemindedOnce
<1>1. RemindersInit => MailedOnce
  BY DEF RemindersInit, LockInit, MailedOnce, OnceInv, Alone, Busy, In
<1>2. RemindersTypeOK /\ MailedOnce => RemindedOnce
  BY MaxMailsAssumption DEF RemindersTypeOK, MailedOnce, OnceInv, RemindedOnce
<1>3. QED
  BY <1>1, <1>2, OnceStep, RemindersTypeCorrect, PTL DEF RemindersSpec
=============================================================================
