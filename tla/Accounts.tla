------------------------------ MODULE Accounts -------------------------------
(***************************************************************************)
(* Accounts, sessions and confirmation links (entities/user, email,        *)
(* log-out, authorization/auth.middleware.ts).  A user is a row; a link is *)
(* a row of password_reset, email_change or email_verification that holds  *)
(* the string mailed to the user.  Every handler reads the user, may wait  *)
(* for a hash, for Stripe or for the mail, and saves the whole row it      *)
(* read; no transaction spans its statements                               *)
(* (common/abstract-use.case.ts:14).  Requests that are refused before     *)
(* they write anything are guards.  Names, Stripe ids and the mails are    *)
(* left out; a stored password stands for its hash.  Invitations to a      *)
(* group are in module Membership.                                         *)
(***************************************************************************)
EXTENDS Naturals, FiniteSets

CONSTANTS Requests,     \* requests that are served at a time
          UserIds,      \* ids of users, each given once
          Emails,       \* addresses
          Passwords,    \* passwords people know
          LinkIds,      \* strings of links, each given once
          TokenIds,     \* the JWTs that are followed, each issued once
          None,         \* null; a row that never was
          Undefined,    \* a property that is not there: save() skips it
          Gone,         \* a row that was removed
          Lost,         \* the hash of a hash: no password fits it
          MaxRequests   \* bound on the requests that are served

Kinds  == {"password", "email", "verify"}
Ops    == {"register", "social", "rename", "change", "ask", "use", "delete", "find"}
RowOf  == [email : Emails \union {None}, password : Passwords \union {None, Lost},
           active : BOOLEAN]
LinkOf == [kind : Kinds, user : UserIds]

ASSUME DistinctValues ==
  /\ None \notin {Undefined, Gone, Lost} /\ Undefined \notin {Gone, Lost} /\ Gone # Lost
  /\ {None, Undefined, Gone, Lost} \intersect
       (Requests \union UserIds \union Emails \union Passwords \union LinkIds \union TokenIds) = {}
  /\ {None, Gone} \intersect (RowOf \union LinkOf \union Kinds \union Ops) = {}
  /\ Undefined \notin BOOLEAN
  /\ MaxRequests \in Nat

VARIABLES users,     \* [email, password, active], None or Gone
          links,     \* [kind, user], None or Gone
          session,   \* of a token: [user, over], or None while it is not issued
          req,       \* what each request has read and has yet to do
          confirmed, \* history: users whose address, or whose id, was vouched for
          buried,    \* history: users whose deletion was answered and met no other request
          spent,     \* history: links whose use was answered
          served     \* requests so far

vars == <<users, links, session, req, confirmed, buried, spent, served>>

Nobody == [email |-> Undefined, password |-> Undefined, active |-> Undefined]
Idle == [op |-> None, pc |-> "idle", user |-> None, email |-> None, password |-> None,
         kind |-> None, link |-> None, copy |-> Nobody, before |-> None, alone |-> FALSE]
-----------------------------------------------------------------------------
(***************************************************************************)
(* Rows.                                                                   *)
(***************************************************************************)
Stored(row)  == row \notin {None, Gone}
UsersWith(e) == {u \in UserIds : Stored(users[u]) /\ users[u].email = e}
LinksOf(u, kind) == {l \in LinkIds : links[l] = [kind |-> kind, user |-> u]}
FreshLinks   == {l \in LinkIds : links[l] = None}

\* save(): the properties that are there replace those of the row; when the
\* row is gone it is inserted again, and the hook BeforeInsert hashes whatever
\* is in the password, which by then is a hash.
Kept(old, new) == IF new = Undefined THEN old ELSE new
Saved(row, copy) ==
  IF Stored(row)
    THEN [email    |-> Kept(row.email, copy.email),
          password |-> Kept(row.password, copy.password),
          active   |-> Kept(row.active, copy.active)]
    ELSE [email    |-> Kept(None, copy.email),
          password |-> IF copy.password \in {None, Undefined} THEN None ELSE Lost,
          active   |-> Kept(None, copy.active)]
SavedUsers(u, copy) == [users EXCEPT ![u] = Saved(@, copy)]
\* remove() of a row: nothing happens when it is gone.
RemovedLinks(l) == [links EXCEPT ![l] = IF Stored(@) THEN Gone ELSE @]
\* The links of a user go with the user (onDelete: CASCADE).
OrphansRemoved(u) ==
  [l \in LinkIds |-> IF Stored(links[l]) /\ links[l].user = u THEN Gone ELSE links[l]]

\* Two requests meet when they are about the same user or the same address.
Addresses(q) == {q.email, q.copy.email} \ {None, Undefined}
Meets(q, p) == \/ q.user # None /\ q.user = p.user
               \/ Addresses(q) \intersect Addresses(p) # {}
Met(r, q) == {x \in Requests \ {r} : req[x].pc # "idle" /\ Meets(req[x], q)}
\* Request r goes on as q: from now on it is known whom it meets.
Goes(r, q) ==
  req' = [x \in Requests |->
            IF x = r THEN [q EXCEPT !.alone = @ /\ Met(r, q) = {}]
            ELSE IF x \in Met(r, q) THEN [req[x] EXCEPT !.alone = FALSE] ELSE req[x]]
Step(r, pc) == req' = [req EXCEPT ![r].pc = pc]

Starts(r, q) ==
  /\ req[r] = Idle /\ served < MaxRequests
  /\ served' = served + 1
  /\ Goes(r, q)
New(op, pc) == [Idle EXCEPT !.op = op, !.pc = pc, !.alone = TRUE]
\* About a user whose row was read.
Reads(q, u) == [q EXCEPT !.user = u, !.copy = users[u], !.before = users[u]]

\* A token for a user; only so many of them are followed.
Issued(u) ==
  \/ UNCHANGED session
  \/ \E t \in TokenIds : /\ session[t] = None
                         /\ session' = [session EXCEPT ![t] = [user |-> u, over |-> FALSE]]
\* findOneUserById, in the handlers.
Found(t) == Stored(users[session[t].user])
\* AuthMiddleware: the token was not logged out, is not too old, and its user
\* is there; and a variant that believes the token.
AdmittedByToken(t) == session[t] # None /\ ~session[t].over
Admitted(t) == session[t] # None /\ ~session[t].over /\ Stored(users[session[t].user])
-----------------------------------------------------------------------------
(***************************************************************************)
(* Registration.  An address is free when nobody has it; the column is not *)
(* unique.  The user is saved before and after a customer is made at       *)
(* Stripe, then test connections, their groups, permissions and settings   *)
(* are made.  One who registers with a password gets a link to verify the  *)
(* address; saving a link saves its user too (cascade).                    *)
(***************************************************************************)
\* A variant that does not look whether the address is taken.
FreeUnchecked(e) == TRUE
Free(e) == UsersWith(e) = {}
\* A variant that makes the user active at once.
RegisterActive(r) ==
  \E e \in Emails, p \in Passwords :
    /\ Free(e)
    /\ Starts(r, [New("register", "insert") EXCEPT !.email = e, !.password = p,
                    !.copy = [email |-> e, password |-> p, active |-> TRUE]])
    /\ UNCHANGED <<users, links, session, confirmed, buried, spent>>
Register(r) ==
  \E e \in Emails, p \in Passwords :
    /\ Free(e)
    /\ Starts(r, [New("register", "insert") EXCEPT !.email = e, !.password = p,
                    !.copy = [email |-> e, password |-> p, active |-> FALSE]])
    /\ UNCHANGED <<users, links, session, confirmed, buried, spent>>
SocialRegister(r) ==
  \E e \in Emails :
    /\ Free(e)
    /\ Starts(r, [New("social", "insert") EXCEPT !.email = e,
                    !.copy = [email |-> e, password |-> None, active |-> TRUE]])
    /\ UNCHANGED <<users, links, session, confirmed, buried, spent>>

\* The insert gives the id, except to findUser, which has one; the hook
\* hashes the password that was typed.  Google, Facebook and the token of
\* findUser vouch for the user.
Insert(r) ==
  /\ req[r].pc = "insert"
  /\ \E u \in UserIds :
       /\ IF req[r].user = None THEN users[u] = None ELSE u = req[r].user
       /\ users' = IF req[r].user = None THEN [users EXCEPT ![u] = req[r].copy]
                   ELSE SavedUsers(u, req[r].copy)
       /\ Goes(r, [req[r] EXCEPT !.user = u, !.pc = "again"])
       /\ confirmed' = IF req[r].op = "register" THEN confirmed ELSE confirmed \union {u}
  /\ UNCHANGED <<links, session, buried, spent, served>>
SaveAgain(r) ==
  /\ req[r].pc = "again"
  /\ users' = SavedUsers(req[r].user, req[r].copy)
  /\ Step(r, "furnish")
  /\ UNCHANGED <<links, session, confirmed, buried, spent, served>>
Furnish(r) ==
  /\ req[r].pc = "furnish"
  /\ req' = [req EXCEPT ![r].pc = IF req[r].op = "register" THEN "new" ELSE "done",
                        ![r].kind = IF req[r].op = "register" THEN "verify" ELSE @]
  /\ UNCHANGED <<users, links, session, confirmed, buried, spent, served>>

\* The unique column of the user lets no second link of the kind in.
NewLink(r) ==
  /\ req[r].pc = "new"
  /\ LinksOf(req[r].user, req[r].kind) = {}
  /\ \E l \in FreshLinks :
       /\ links' = [links EXCEPT ![l] = [kind |-> req[r].kind, user |-> req[r].user]]
       /\ req' = [req EXCEPT ![r].pc = "done", ![r].link = l]
  /\ users' = SavedUsers(req[r].user, req[r].copy)
  /\ UNCHANGED <<session, confirmed, buried, spent, served>>
-----------------------------------------------------------------------------
(***************************************************************************)
(* Sessions.  The first user with the address is the one.                  *)
(***************************************************************************)
Login ==
  /\ \E e \in Emails, p \in Passwords : \E u \in UsersWith(e) :
       users[u].password = p /\ Issued(u)
  /\ UNCHANGED <<users, links, req, confirmed, buried, spent, served>>
\* Google or Facebook name a user who is there: with another name the row is
\* saved, otherwise it is a login.
SocialLogin(r) ==
  \E e \in Emails : \E u \in UsersWith(e) :
    /\ \/ /\ Starts(r, Reads(New("rename", "save"), u))
          /\ UNCHANGED session
       \/ Issued(u) /\ UNCHANGED <<req, served>>
    /\ UNCHANGED <<users, links, confirmed, buried, spent>>
LogOut ==
  /\ \E t \in TokenIds : /\ Admitted(t)
                         /\ session' = [session EXCEPT ![t].over = TRUE]
  /\ UNCHANGED <<users, links, req, confirmed, buried, spent, served>>
\* Seven days after it was issued.
Expire ==
  /\ \E t \in TokenIds : /\ session[t] # None /\ ~session[t].over
                         /\ session' = [session EXCEPT ![t].over = TRUE]
  /\ UNCHANGED <<users, links, req, confirmed, buried, spent, served>>
-----------------------------------------------------------------------------
(***************************************************************************)
(* A new password for one who knows the old one.                           *)
(***************************************************************************)
ChangePassword(r) ==
  \E e \in Emails, old \in Passwords, new \in Passwords : \E u \in UsersWith(e) :
    /\ users[u].password = old
    /\ Starts(r, [Reads(New("change", "save"), u) EXCEPT !.password = new, !.copy.password = new])
    /\ UNCHANGED <<users, links, session, confirmed, buried, spent>>

(***************************************************************************)
(* Asking for a link.  For a new password by address and for a new address *)
(* by token, of an active user: the old link is looked for and removed.    *)
(* For the verification of an address by token, of a user who is not       *)
(* active: the link was read with the user and is looked for again.        *)
(***************************************************************************)
AskForPassword(r) ==
  \E e \in Emails : \E u \in UsersWith(e) :
    /\ users[u].active
    /\ Starts(r, [Reads(New("ask", "old"), u) EXCEPT !.kind = "password"])
    /\ UNCHANGED <<users, links, session, confirmed, buried, spent>>
AskForEmail(r) ==
  \E t \in TokenIds :
    /\ Admitted(t) /\ Found(t) /\ users[session[t].user].active
    /\ Starts(r, [Reads(New("ask", "old"), session[t].user) EXCEPT !.kind = "email"])
    /\ UNCHANGED <<users, links, session, confirmed, buried, spent>>
AskToVerify(r) ==
  \E t \in TokenIds :
    /\ Admitted(t) /\ Found(t) /\ ~users[session[t].user].active
    /\ Starts(r, [Reads(New("ask", "old"), session[t].user) EXCEPT !.kind = "verify"])
    /\ UNCHANGED <<users, links, session, confirmed, buried, spent>>
FindOld(r) ==
  /\ req[r].pc = "old"
  /\ LET u == req[r].user  kind == req[r].kind
     IN IF LinksOf(u, kind) = {} THEN Step(r, "new")
        ELSE \E l \in LinksOf(u, kind) :
               req' = [req EXCEPT ![r].pc = "retire", ![r].link = l]
  /\ UNCHANGED <<users, links, session, confirmed, buried, spent, served>>
\* A link to verify is looked for by its id first, and remove(null) throws.
RetireOld(r) ==
  /\ req[r].pc = "retire"
  /\ req[r].kind = "verify" => Stored(links[req[r].link])
  /\ links' = RemovedLinks(req[r].link)
  /\ Step(r, "new")
  /\ UNCHANGED <<users, session, confirmed, buried, spent, served>>

(***************************************************************************)
(* Following a link: its user is read, changed and saved, and only then is *)
(* the link removed.  The new password may be missing from the body; the   *)
(* new address is one nobody was asked about.                              *)
(***************************************************************************)
Follow(r, kind, e, p, Changed(_)) ==
  \E l \in LinkIds :
    /\ Stored(links[l]) /\ links[l].kind = kind
    /\ Stored(users[links[l].user])
    /\ LET q == Reads(New("use", "save"), links[l].user)
       IN Starts(r, [q EXCEPT !.kind = kind, !.link = l, !.email = e, !.password = p,
                              !.copy = Changed(users[links[l].user])])
    /\ UNCHANGED <<users, links, session, confirmed, buried, spent>>
ResetPassword(r) == \E p \in Passwords \union {Undefined} :
                      LET Changed(row) == [row EXCEPT !.password = p]
                      IN Follow(r, "password", None, p, Changed)
ChangeEmail(r)   == \E e \in Emails :
                      LET Changed(row) == [row EXCEPT !.email = e]
                      IN Follow(r, "email", e, None, Changed)
VerifyEmail(r)   == LET Changed(row) == [row EXCEPT !.active = TRUE]
                    IN Follow(r, "verify", None, None, Changed)

Save(r) ==
  /\ req[r].pc = "save"
  /\ users' = SavedUsers(req[r].user, req[r].copy)
  /\ Step(r, IF req[r].op = "use" THEN "spend" ELSE "done")
  /\ confirmed' = IF req[r].kind = "verify" THEN confirmed \union {req[r].user} ELSE confirmed
  /\ UNCHANGED <<links, session, buried, spent, served>>
\* A variant that keeps the link.
KeepLink(r) ==
  /\ req[r].pc = "spend"
  /\ Step(r, "done")
  /\ UNCHANGED <<users, links, session, confirmed, buried, spent, served>>
Spend(r) ==
  /\ req[r].pc = "spend"
  /\ links' = RemovedLinks(req[r].link)
  /\ Step(r, "done")
  /\ UNCHANGED <<users, session, confirmed, buried, spent, served>>
-----------------------------------------------------------------------------
(***************************************************************************)
(* The owner of a token deletes the account, or asks who they are; the     *)
(* latter makes a user with the id of the token when there is none any     *)
(* more.                                                                   *)
(***************************************************************************)
Delete(r) ==
  \E t \in TokenIds :
    /\ Admitted(t) /\ Found(t)
    /\ Starts(r, Reads(New("delete", "remove"), session[t].user))
    /\ UNCHANGED <<users, links, session, confirmed, buried, spent>>
Remove(r) ==
  /\ req[r].pc = "remove"
  /\ LET u == req[r].user
     IN /\ users' = [users EXCEPT ![u] = IF Stored(@) THEN Gone ELSE @]
        /\ links' = OrphansRemoved(u)
  /\ Step(r, "done")
  /\ UNCHANGED <<session, confirmed, buried, spent, served>>
FindMe(r) ==
  \E t \in TokenIds :
    /\ Admitted(t)
    /\ Starts(r, [New("find", "find") EXCEPT !.user = session[t].user])
    /\ UNCHANGED <<users, links, session, confirmed, buried, spent>>
Find(r) ==
  /\ req[r].pc = "find"
  /\ req' = [req EXCEPT ![r] = IF Stored(users[req[r].user]) THEN Idle
                               ELSE [@ EXCEPT !.pc = "insert", !.copy.active = TRUE]]
  /\ UNCHANGED <<users, links, session, confirmed, buried, spent, served>>

\* The answer; whoever proved who they are gets a token with it.
Answer(r) ==
  /\ req[r].pc = "done"
  /\ IF \/ req[r].op \in {"register", "social", "rename", "change"}
        \/ req[r].op = "use" /\ req[r].kind = "password"
       THEN Issued(req[r].user) ELSE UNCHANGED session
  /\ buried' = IF req[r].op = "delete" /\ req[r].alone THEN buried \union {req[r].user} ELSE buried
  /\ spent' = IF req[r].op = "use" THEN spent \union {req[r].link} ELSE spent
  /\ req' = [req EXCEPT ![r] = Idle]
  /\ UNCHANGED <<users, links, confirmed, served>>

\* A statement fails, Stripe does not answer, or the process ends: what was
\* written stays.
Fail(r) ==
  /\ req[r].pc \notin {"idle", "done"}
  /\ req' = [req EXCEPT ![r] = Idle]
  /\ UNCHANGED <<users, links, session, confirmed, buried, spent, served>>
-----------------------------------------------------------------------------
Init ==
  /\ users = [u \in UserIds |-> None]
  /\ links = [l \in LinkIds |-> None]
  /\ session = [t \in TokenIds |-> None]
  /\ req = [r \in Requests |-> Idle]
  /\ confirmed = {} /\ buried = {} /\ spent = {}
  /\ served = 0

Next ==
  \/ Login \/ LogOut \/ Expire
  \/ \E r \in Requests :
       \/ Register(r) \/ SocialRegister(r) \/ Insert(r) \/ SaveAgain(r) \/ Furnish(r) \/ NewLink(r)
       \/ SocialLogin(r) \/ ChangePassword(r)
       \/ AskForPassword(r) \/ AskForEmail(r) \/ AskToVerify(r) \/ FindOld(r) \/ RetireOld(r)
       \/ ResetPassword(r) \/ ChangeEmail(r) \/ VerifyEmail(r) \/ Save(r) \/ Spend(r)
       \/ Delete(r) \/ Remove(r) \/ FindMe(r) \/ Find(r)
       \/ Answer(r) \/ Fail(r)

Spec == Init /\ [][Next]_vars
-----------------------------------------------------------------------------
CopyOf == [email : Emails \union {None, Undefined},
           password : Passwords \union {None, Undefined, Lost}, active : BOOLEAN \union {Undefined}]
Places == {"idle", "insert", "again", "furnish", "new", "save", "old", "retire", "spend",
           "remove", "find", "done"}
ReqOf  == [op : Ops \union {None}, pc : Places, user : UserIds \union {None}, email : Emails \union {None},
           password : Passwords \union {None, Undefined}, kind : Kinds \union {None},
           link : LinkIds \union {None}, copy : CopyOf, before : RowOf \union {None}, alone : BOOLEAN]
\* The variables have the types of the rows and of the requests.
TypeOK ==
  /\ users \in [UserIds -> RowOf \union {None, Gone}]
  /\ links \in [LinkIds -> LinkOf \union {None, Gone}]
  /\ session \in [TokenIds -> [user : UserIds, over : BOOLEAN] \union {None}]
  /\ req \in [Requests -> ReqOf]
  /\ confirmed \subseteq UserIds /\ buried \subseteq UserIds /\ spent \subseteq LinkIds
  /\ served \in 0..MaxRequests

\* Whoever may act as a confirmed user was confirmed: no order of stale saves,
\* failures and removed accounts makes an account active that was neither
\* verified through its link nor vouched for by Google, Facebook or a token.
ActiveWasConfirmed ==
  \A u \in UserIds : Stored(users[u]) /\ users[u].active = TRUE => u \in confirmed

\* A link whose use was answered is in no table any more, whatever requests
\* for new links and saves that insert rows again came between
\* (verify-reset-user-password.use.case.ts:48 and its two siblings).
SpentLinksAreGone == \A l \in spent : ~Stored(links[l])

\* A user whose deletion was answered, and overlapped no other request about
\* that user or address, is never there again: no later save inserts the row
\* and no token of it is let in (delete-user-account-use-case.ts:31).
DeletedStaysDeleted == \A u \in buried : ~Stored(users[u])

\* The answer of a request that met no other is true: what it was about is as
\* it promised, and the rest of the account is as it found it.  A password
\* that was changed or reset is the one that logs in, an address that was
\* registered has one account, a link that was mailed is the only one of its
\* kind, a link that was followed is gone.
Promised(q) ==
  /\ q.op = "register" => /\ users[q.user] = [email |-> q.email, password |-> q.password, active |-> FALSE]
                          /\ UsersWith(q.email) = {q.user}
                          /\ LinksOf(q.user, "verify") = {q.link}
  /\ q.op = "social" => /\ users[q.user] = [email |-> q.email, password |-> None, active |-> TRUE]
                        /\ UsersWith(q.email) = {q.user}
  /\ q.op = "rename" => users[q.user] = q.before
  /\ q.op = "change" => users[q.user] = [q.before EXCEPT !.password = q.password]
  /\ q.op = "ask"    => /\ users[q.user] = q.before
                        /\ LinksOf(q.user, q.kind) = {q.link}
  /\ q.op = "use"    => /\ users[q.user] = Saved(q.before, q.copy)
                        /\ LinksOf(q.user, q.kind) = {}
                        /\ q.kind = "password" /\ q.password # Undefined => users[q.user].password = q.password
                        /\ q.kind = "verify" => users[q.user].active = TRUE
  /\ q.op = "delete" => ~Stored(users[q.user]) /\ \A kind \in Kinds : LinksOf(q.user, kind) = {}
  /\ q.op # "find"
AnswersAreTrue ==
  \A r \in Requests : req[r].pc = "done" /\ req[r].alone => Promised(req[r])
=============================================================================
