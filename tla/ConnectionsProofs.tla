-------------------------- MODULE ConnectionsProofs --------------------------
(***************************************************************************)
(* Safety of the life of connections, for any number of connections,       *)
(* overlapping requests, failures and pools.                               *)
(***************************************************************************)
EXTENDS Connections, TLAPS

(***************************************************************************)
(* What a request knows at each place of its handler, whatever the others  *)
(* do.                                                                     *)
(***************************************************************************)
Rowless == {None, "delete", "refresh"}
Knows(q) ==
  /\ q.op = None <=> q.pc = "idle"
  /\ q.pc # "idle" => q.conn \in ConnIds
  /\ q.op = "create" => q.pc \in {"insert", "createAgent", "group", "permissions", "answered"}
  /\ q.op = "refresh" => q.pc \in {"findAgent", "findConn", "createAgent", "renew", "answered"}
  /\ q.op = "delete" => q.pc = "remove"
  /\ q.pc \in {"insert", "group", "permissions"} => q.op = "create"
  /\ q.pc = "renew" => q.agent \in Tokens
  /\ q.pc \in {"tunnel", "driver", "query"} => q.port \in Ports
  /\ q.pc = "tunnel" => q.copy.type = "ssh"
  /\ q.op \notin Rowless => q.copy.type \in Types
  /\ q.copy.type = "plain" => q.copy.host \in Hosts

\* What the creator of a connection knows of it and of the others.
Secluded(r) == \A x \in Requests \ {r} : req[x].conn # req[r].conn
Creates(r) ==
  LET q == req[r]  c == q.conn IN
  q.op = "create" =>
    /\ \A x \in Requests \ {r} : req[x].conn = c => req[x].op # "create"
    /\ q.pc \in {"insert", "createAgent", "group"} => rights[c] = None /\ Secluded(r)
    /\ q.pc \in {"createAgent", "group"} => Stored(conns[c])
    /\ q.pc = "permissions" => rights[c] # 2
    /\ q.pc = "answered" /\ Stored(conns[c]) => rights[c] = 2 \/ broken[c] # {}

\* A connection whose Admin group is not complete has a creator, or a cause;
\* and one that is reached directly has a host that was entered.
Fine(c) ==
  Stored(conns[c]) =>
    /\ conns[c].type = "plain" => conns[c].host \in Hosts
    /\ rights[c] = 2 \/ broken[c] # {} \/ \E r \in Requests : req[r].conn = c /\ req[r].op = "create"

Inv == /\ TypeOK
       /\ \A r \in Requests : Knows(req[r]) /\ Creates(r)
       /\ \A c \in ConnIds : Fine(c)

Same(q, p) == /\ q.op = p.op /\ q.pc = p.pc /\ q.conn = p.conn
              /\ q.agent = p.agent /\ q.port = p.port /\ q.copy = p.copy
Apart(r) == \A x \in Requests \ {r} : Same(req'[x], req[x])
PoolsOK ==
  /\ pools \in [Ports -> PoolOf \union {None}]
  /\ knexCache \subseteq Entries /\ tunnelCache \subseteq Entries /\ driverCache \subseteq Entries
  /\ \A e \in knexCache \union tunnelCache \union driverCache : pools[e.pool] # None
RowsOK ==
  /\ conns \in [ConnIds -> RowOf \union {None, Gone}]
  /\ agents \in [Tokens -> AgentOf \union {None, Gone}]
  /\ rights \in [ConnIds -> {None, 0, 1, 2}]
  /\ \A c \in ConnIds : rights[c] # None => Stored(conns[c])
  /\ broken \in [ConnIds -> SUBSET Causes]
  /\ issued \subseteq Tokens /\ clock \in Nat

LEMMA TypeParts ==
  TypeOK <=> /\ RowsOK /\ PoolsOK /\ req \in [Requests -> ReqOf]
             /\ served \in 0..MaxRequests /\ faults \in 0..MaxFaults
BY DEF TypeOK, RowsOK, PoolsOK

(***************************************************************************)
(* What a step of request r about connection c must not do to the others:  *)
(* it changes the rows of c only, and at c it builds up, or leaves the     *)
(* rights alone, or removes everything.                                    *)
(***************************************************************************)
OnlyAt(r, c) ==
  /\ Apart(r)
  /\ (req'[r].op = req[r].op /\ req'[r].conn = c) \/ (req'[r].op = None /\ req'[r].conn = None)
  /\ \A d \in ConnIds \ {c} : conns'[d] = conns[d] /\ rights'[d] = rights[d] /\ broken'[d] = broken[d]
  /\ broken[c] \subseteq broken'[c]
KindAt(r, c) ==
  \/ req[r].op = "create"
  \/ /\ rights'[c] = rights[c]
     /\ Stored(conns[c]) => Stored(conns'[c])
     /\ Stored(conns'[c]) => Stored(conns[c]) \/ broken'[c] # {}
  \/ rights'[c] = None /\ ~Stored(conns'[c])

LEMMA OthersCreate ==
  ASSUME Inv, NEW r \in Requests, NEW c \in ConnIds, req[r].conn = c, OnlyAt(r, c), KindAt(r, c),
         NEW x \in Requests \ {r}
  PROVE  Creates(x)'
<1> SUFFICES ASSUME req'[x].op = "create" PROVE Creates(x)'
  BY DEF Creates
<1> DEFINE d == req[x].conn
<1>1. /\ req'[x].op = req[x].op /\ req'[x].pc = req[x].pc /\ req'[x].conn = d
      /\ \A y \in Requests \ {r} : req'[y].op = req[y].op /\ req'[y].conn = req[y].conn
  BY DEF OnlyAt, Apart, Same
<1>2. /\ req[x].op = "create" /\ Creates(x) /\ Knows(req[x])
      /\ req[x].pc \in {"insert", "createAgent", "group", "permissions", "answered"}
  BY <1>1 DEF Inv, Knows
<1>3. d \in ConnIds
  BY <1>2 DEF Knows
<1>4. /\ \A y \in Requests \ {x} : req[y].conn = d => req[y].op # "create"
      /\ req[x].pc \in {"insert", "createAgent", "group"} =>
           rights[d] = None /\ \A y \in Requests \ {x} : req[y].conn # d
      /\ req[x].pc \in {"createAgent", "group"} => Stored(conns[d])
      /\ req[x].pc = "permissions" => rights[d] # 2
      /\ req[x].pc = "answered" /\ Stored(conns[d]) => rights[d] = 2 \/ broken[d] # {}
  BY <1>2 DEF Creates, Secluded
<1>5. \A y \in Requests \ {x} : req'[y].conn = d => req[y].conn = d /\ req'[y].op = req[y].op
  BY <1>1, <1>3, DistinctValues DEF OnlyAt
<1>6. CASE d # c
  <2>1. conns'[d] = conns[d] /\ rights'[d] = rights[d] /\ broken'[d] = broken[d]
    BY <1>3, <1>6 DEF OnlyAt
  <2>2. QED
    BY <1>1, <1>4, <1>5, <2>1 DEF Creates, Secluded, Stored
<1>7. CASE d = c
  <2>1. req[r].op # "create" /\ req[x].pc \notin {"insert", "createAgent", "group"}
    BY <1>4, <1>7
  <2>2. \/ /\ rights'[c] = rights[c]
           /\ Stored(conns'[c]) => Stored(conns[c]) \/ broken'[c] # {}
        \/ rights'[c] = None /\ ~Stored(conns'[c])
    BY <2>1 DEF KindAt
  <2>3. req[x].pc = "permissions" => rights'[c] # 2
    BY <1>4, <1>7, <2>2, DistinctValues
  <2>4. req[x].pc = "answered" /\ Stored(conns'[c]) => rights'[c] = 2 \/ broken'[c] # {}
    BY <1>4, <1>7, <2>2 DEF OnlyAt
  <2>5. QED
    BY <1>1, <1>2, <1>4, <1>5, <1>7, <2>1, <2>3, <2>4 DEF Creates, Secluded, Stored
<1>8. QED
  BY <1>6, <1>7

LEMMA OthersFine ==
  ASSUME Inv, NEW r \in Requests, NEW c \in ConnIds, req[r].conn = c, OnlyAt(r, c),
         NEW d \in ConnIds \ {c}
  PROVE  Fine(d)'
<1>1. Fine(d) /\ conns'[d] = conns[d] /\ rights'[d] = rights[d] /\ broken'[d] = broken[d]
  BY DEF Inv, OnlyAt
<1>2. \A x \in Requests : req[x].conn = d /\ req[x].op = "create" => req'[x].conn = d /\ req'[x].op = "create"
  BY DEF OnlyAt, Apart, Same
<1>3. QED
  BY <1>1, <1>2 DEF Fine, Stored

LEMMA StepKeepsInv ==
  ASSUME Inv, NEW r \in Requests, NEW c \in ConnIds, req[r].conn = c, OnlyAt(r, c), KindAt(r, c),
         TypeOK', Knows(req'[r]), Creates(r)', Fine(c)'
  PROVE  Inv'
<1>1. \A x \in Requests \ {r} : Knows(req'[x])
  BY DEF Inv, OnlyAt, Apart, Same, Knows
<1>2. \A x \in Requests : Knows(req'[x])
  BY <1>1
<1>3. \A x \in Requests : Creates(x)'
  BY OthersCreate
<1>4. \A d \in ConnIds : Fine(d)'
  BY OthersFine
<1>5. QED
  BY <1>2, <1>3, <1>4 DEF Inv

(***************************************************************************)
(* A request that starts as q: on a connection that lets somebody in, or   *)
(* on a new id.                                                            *)
(***************************************************************************)
LEMMA IdleKnows == Idle \in ReqOf /\ Knows(Idle) /\ Idle.op = None /\ Idle.conn = None /\ Idle.pc = "idle"
<1>1. NoCopy \in CopyOf /\ NoCopy.type = None /\ None # "plain"
  BY DistinctValues DEF NoCopy, CopyOf, Types
<1>2. Idle \in ReqOf /\ Idle.op = None /\ Idle.conn = None /\ Idle.pc = "idle" /\ Idle.copy = NoCopy
  BY <1>1 DEF Idle, ReqOf, Places
<1>3. None \notin Ops /\ None \in Rowless
  BY DistinctValues DEF Rowless
<1>4. Knows(Idle)
  BY <1>1, <1>2, <1>3 DEF Knows, Ops
<1>5. QED
  BY <1>2, <1>4

LEMMA StartTypes ==
  ASSUME TypeOK, NEW r \in Requests, NEW q \in ReqOf, Starts(r, q)
  PROVE  /\ req' \in [Requests -> ReqOf] /\ served' \in 0..MaxRequests
         /\ Apart(r) /\ Same(req'[r], q)
<1> DEFINE e == [q EXCEPT !.alone = Others(r, q.conn) = {}]
           f(x) == [req[x] EXCEPT !.alone = FALSE]
<1>1. e \in ReqOf /\ Same(e, q)
  BY DEF ReqOf, Same
<1>2. \A x \in Requests : req[x] \in ReqOf
  BY DEF TypeOK
<1>3. \A x \in Requests : f(x) \in ReqOf /\ Same(f(x), req[x]) /\ Same(req[x], req[x])
  BY <1>2 DEF ReqOf, Same
<1>4. req' = [x \in Requests |-> IF x = r THEN e ELSE IF x \in Others(r, q.conn) THEN f(x) ELSE req[x]]
  BY DEF Starts
<1>5. served' \in 0..MaxRequests
  BY DistinctValues DEF Starts, TypeOK
<1> HIDE DEF e, f
<1>6. QED
  BY <1>1, <1>2, <1>3, <1>4, <1>5 DEF Apart

LEMMA StartKeepsInv ==
  ASSUME Inv, NEW r \in Requests, NEW q \in ReqOf, Starts(r, q), Knows(q), q.op # None,
         UNCHANGED <<rowVars, cacheVars, faults>>,
         \/ q.op # "create" /\ rights[q.conn] # None
         \/ /\ q.op = "create" /\ q.pc = "insert" /\ conns[q.conn] = None
            /\ \A x \in Requests : req[x].conn # q.conn
  PROVE  Inv'
<1> DEFINE c == q.conn
<1>1. c \in ConnIds
  BY DEF Knows
<1>2. /\ req' \in [Requests -> ReqOf] /\ served' \in 0..MaxRequests
      /\ Apart(r) /\ Same(req'[r], q)
  BY StartTypes DEF Inv
<1>3. TypeOK'
  BY <1>2 DEF Inv, TypeOK, rowVars, cacheVars, Stored
<1>4. \A x \in Requests : Knows(req'[x])
  BY <1>2 DEF Inv, Apart, Same, Knows
<1>5. req[r].op = None
  BY IdleKnows DEF Starts
<1>6. UNCHANGED <<conns, rights, broken>>
  BY DEF rowVars
<1>7. \A d \in ConnIds : Fine(d)'
  <2> SUFFICES ASSUME NEW d \in ConnIds PROVE Fine(d)'
    OBVIOUS
  <2>1. \A x \in Requests : req[x].op = "create" => req'[x].op = "create" /\ req'[x].conn = req[x].conn
    BY <1>2, <1>5, DistinctValues DEF Apart, Same, Ops
  <2>2. QED
    BY <1>6, <2>1 DEF Inv, Fine, Stored
<1>8. req'[r].op = q.op /\ req'[r].pc = q.pc /\ req'[r].conn = c
  BY <1>2 DEF Same
<1>9. \A y \in Requests \ {r} : req'[y].op = req[y].op /\ req'[y].pc = req[y].pc /\ req'[y].conn = req[y].conn
  BY <1>2 DEF Apart, Same
<1>10. Creates(r)'
  <2>1. CASE q.op # "create"
    BY <1>8, <2>1 DEF Creates
  <2>2. CASE q.op = "create"
    <3>1. q.pc = "insert" /\ conns[c] = None /\ \A x \in Requests : req[x].conn # c
      BY <2>2
    <3>2. rights[c] = None
      BY <1>1, <3>1 DEF Inv, TypeOK, Stored
    <3>3. QED
      BY <1>6, <1>8, <1>9, <3>1, <3>2 DEF Creates, Secluded, Stored
  <2>3. QED
    BY <2>1, <2>2
<1>11. \A x \in Requests \ {r} : Creates(x)'
  <2> SUFFICES ASSUME NEW x \in Requests \ {r}, req[x].op = "create" PROVE Creates(x)'
    BY <1>9 DEF Creates
  <2>1. Creates(x)
    BY DEF Inv
  <2>2. req[x].pc \in {"insert", "createAgent", "group"} => req[x].conn # c
    BY <2>1 DEF Creates
  <2>3. req[x].conn = c => q.op # "create"
    OBVIOUS
  <2>4. QED
    BY <1>6, <1>8, <1>9, <2>1, <2>2, <2>3 DEF Creates, Secluded, Stored
<1>12. QED
  BY <1>3, <1>4, <1>7, <1>10, <1>11 DEF Inv

(***************************************************************************)
(* A request that goes on as q and changes no connection and no right.     *)
(***************************************************************************)
LEMMA GoesTypes ==
  ASSUME TypeOK, NEW r \in Requests, NEW q \in ReqOf, Goes(r, q)
  PROVE  req' \in [Requests -> ReqOf] /\ req'[r] = q /\ Apart(r)
BY DEF TypeOK, Goes, Apart, Same

LEMMA MoveKeepsInv ==
  ASSUME Inv, NEW r \in Requests, NEW c \in ConnIds, req[r].conn = c, NEW q \in ReqOf,
         Goes(r, q), Knows(q), req[r].pc # "idle",
         \/ q = Idle /\ (req[r].op = "create" => req[r].pc = "answered")
         \/ /\ q.op = req[r].op /\ q.conn = req[r].conn
            /\ req[r].op = "create" => req[r].pc = "createAgent" /\ q.pc = "group",
         UNCHANGED <<conns, rights, broken, clock, served>>,
         agents' \in [Tokens -> AgentOf \union {None, Gone}], issued' \subseteq Tokens,
         PoolsOK', faults' \in 0..MaxFaults
  PROVE  Inv'
<1>1. TypeOK /\ Knows(req[r]) /\ Creates(r)
  BY DEF Inv
<1>2. req' \in [Requests -> ReqOf] /\ req'[r] = q /\ Apart(r)
  BY <1>1, GoesTypes
<1>3. RowsOK'
  BY <1>1 DEF TypeOK, RowsOK, Stored
<1>4. TypeOK'
  BY <1>1, <1>2, <1>3, TypeParts DEF TypeOK, RowsOK, PoolsOK
<1>5. OnlyAt(r, c)
  BY <1>2, IdleKnows DEF OnlyAt
<1>6. KindAt(r, c)
  BY DEF KindAt, Stored
<1>7. \A y \in Requests \ {r} : req'[y].op = req[y].op /\ req'[y].conn = req[y].conn
  BY <1>2 DEF Apart, Same
<1>8. Creates(r)'
  <2>1. CASE q.op # "create"
    BY <1>2, <2>1 DEF Creates
  <2>2. CASE q.op = "create"
    <3>1. q.conn = c /\ req[r].op = "create" /\ req[r].pc = "createAgent" /\ q.pc = "group"
      BY <2>2, IdleKnows, DistinctValues DEF Ops
    <3>2. QED
      BY <1>1, <1>2, <1>7, <3>1 DEF Creates, Secluded, Stored
  <2>3. QED
    BY <2>1, <2>2
<1>9. Fine(c)'
  <2>1. Fine(c) /\ UNCHANGED <<conns, rights, broken>>
    BY DEF Inv
  <2>2. ASSUME req[r].op = "create", req[r].pc = "answered" PROVE Fine(c)'
    BY <1>1, <2>1, <2>2 DEF Creates, Fine, Stored
  <2>3. ASSUME ~(req[r].op = "create" /\ req[r].pc = "answered") PROVE Fine(c)'
    <3>1. req[r].op = "create" => req'[r].op = "create" /\ req'[r].conn = req[r].conn
      BY <1>2, <2>3
    <3>2. \A x \in Requests : req[x].op = "create" => req'[x].op = "create" /\ req'[x].conn = req[x].conn
      BY <1>7, <3>1
    <3>3. QED
      BY <2>1, <3>2 DEF Fine, Stored
  <2>4. QED
    BY <2>2, <2>3
<1>10. Knows(req'[r])
  BY <1>2
<1>11. QED
  BY <1>4, <1>5, <1>6, <1>8, <1>9, <1>10, StepKeepsInv

(***************************************************************************)
(* The requests that start.                                                *)
(***************************************************************************)
LEMMA OpenRows ==
  ASSUME Inv, NEW c \in Open
  PROVE  /\ c \in ConnIds /\ rights[c] # None /\ conns[c] \in RowOf
         /\ conns[c].type = "plain" => conns[c].host \in Hosts
<1>1. c \in ConnIds /\ rights[c] # None
  BY DEF Open
<1>2. Stored(conns[c]) /\ Fine(c)
  BY <1>1 DEF Inv, TypeOK
<1>3. conns[c] \in RowOf \union {None, Gone}
  BY <1>1 DEF Inv, TypeOK
<1>4. QED
  BY <1>1, <1>2, <1>3 DEF Stored, Fine

LEMMA CopyTypes ==
  ASSUME Inv, NEW c \in Open
  PROVE  /\ \A a \in Tokens \union {None, Undefined} :
              /\ Loaded(c, a) \in CopyOf
              /\ Loaded(c, a).type = conns[c].type /\ Loaded(c, a).host = conns[c].host
         /\ \A copy \in WithAgent(c) : \E a \in Tokens \union {None, Undefined} : copy = Loaded(c, a)
<1>1. conns[c] \in RowOf
  BY OpenRows
<1>2. \A a \in Tokens \union {None, Undefined} :
         /\ Loaded(c, a) \in CopyOf
         /\ Loaded(c, a).type = conns[c].type /\ Loaded(c, a).host = conns[c].host
  BY <1>1 DEF Loaded, RowOf, CopyOf
<1>3. \A copy \in WithAgent(c) : \E a \in Tokens \union {None, Undefined} : copy = Loaded(c, a)
  BY DEF WithAgent, AgentsOf
<1>4. QED
  BY <1>2, <1>3

\* What is entered over a copy: of a connection of an agent the host stays.
LEMMA EnteredTypes ==
  ASSUME NEW copy \in CopyOf, NEW type \in Types, NEW host \in Hosts
  PROVE  /\ Entered(copy, type, host) \in CopyOf
         /\ Entered(copy, type, host).type = type
         /\ type = "plain" => Entered(copy, type, host).host = host
BY DEF Entered, CopyOf, Types

LEMMA NewTypes ==
  ASSUME NEW op \in Ops, NEW pc \in Places, NEW c \in ConnIds
  PROVE  /\ New(op, pc, c) \in ReqOf
         /\ New(op, pc, c).op = op /\ New(op, pc, c).pc = pc /\ New(op, pc, c).conn = c
BY IdleKnows DEF New, ReqOf

LEMMA NoneIsNoOp == None \notin Ops
BY DistinctValues

LEMMA KeepsCreate ==
  ASSUME Inv, NEW r \in Requests, Create(r)
  PROVE  Inv'
<1>1. PICK c \in ConnIds, type \in {"plain", "agent"}, host \in Hosts :
        /\ conns[c] = None /\ \A x \in Requests : req[x].conn # c
        /\ Starts(r, [New("create", "insert", c) EXCEPT !.copy = Entered(NoCopy, type, host), !.owner = c])
        /\ UNCHANGED <<rowVars, cacheVars, faults>>
  BY DEF Create
<1> DEFINE n == New("create", "insert", c)
           q == [n EXCEPT !.copy = Entered(NoCopy, type, host), !.owner = c]
<1>2. n \in ReqOf /\ n.op = "create" /\ n.pc = "insert" /\ n.conn = c
  BY NewTypes DEF Ops, Places
<1>3. NoCopy \in CopyOf /\ type \in Types
  BY DEF NoCopy, CopyOf, Types
<1> DEFINE e == Entered(NoCopy, type, host)
<1>4. e \in CopyOf /\ e.type = type /\ (type = "plain" => e.host = host)
  BY <1>3, EnteredTypes
<1> HIDE DEF n, e
<1>5. q \in ReqOf /\ q.op = "create" /\ q.pc = "insert" /\ q.conn = c /\ q.copy = e
  BY <1>2, <1>4 DEF ReqOf, e
<1>6. Starts(r, q)
  BY <1>1 DEF n
<1> HIDE DEF q
<1>7. Knows(q)
  BY <1>3, <1>4, <1>5, NoneIsNoOp DEF Knows, Ops, Rowless
<1>8. QED
  BY <1>1, <1>5, <1>6, <1>7, NoneIsNoOp, StartKeepsInv DEF Ops

\* A request that starts on an open connection with a copy of it, or without.
LEMMA KeepsStart ==
  ASSUME Inv, NEW r \in Requests, NEW c \in Open, NEW q \in ReqOf, Starts(r, q),
         q.op \in Ops \ {"create"}, q.conn = c, Knows(q),
         UNCHANGED <<rowVars, cacheVars, faults>>
  PROVE  Inv'
<1>1. rights[c] # None
  BY OpenRows
<1>2. q.op # None /\ q.op # "create"
  BY NoneIsNoOp
<1>3. QED
  BY <1>1, <1>2, StartKeepsInv

LEMMA KeepsUpdate ==
  ASSUME Inv, NEW r \in Requests, Update(r)
  PROVE  Inv'
<1>1. PICK c \in Open, type \in {"plain", "agent"}, host \in Hosts : \E copy \in WithAgent(c) :
        /\ Starts(r, [New("update", IF type = "agent" THEN "findAgent" ELSE "save", c) EXCEPT
                        !.copy = Entered(copy, type, host)])
        /\ UNCHANGED <<rowVars, cacheVars, faults>>
  BY DEF Update
<1>2. PICK copy \in WithAgent(c) :
        /\ Starts(r, [New("update", IF type = "agent" THEN "findAgent" ELSE "save", c) EXCEPT
                        !.copy = Entered(copy, type, host)])
        /\ UNCHANGED <<rowVars, cacheVars, faults>>
  BY <1>1
<1> DEFINE n == New("update", IF type = "agent" THEN "findAgent" ELSE "save", c)
           e == Entered(copy, type, host)
           q == [n EXCEPT !.copy = e]
<1>3. n \in ReqOf /\ n.op = "update" /\ n.pc \in {"findAgent", "save"} /\ n.conn = c
  BY NewTypes, OpenRows DEF Ops, Places
<1>4. copy \in CopyOf /\ type \in Types
  BY CopyTypes DEF Types
<1>5. e \in CopyOf /\ e.type = type /\ (type = "plain" => e.host = host)
  BY <1>4, EnteredTypes
<1>6. Starts(r, q)
  BY <1>2
<1> HIDE DEF n, e
<1>7. q \in ReqOf /\ q.op = "update" /\ q.pc = n.pc /\ q.conn = c /\ q.copy = e
  BY <1>3, <1>5 DEF ReqOf
<1> HIDE DEF q
<1>8. Knows(q)
  BY <1>3, <1>4, <1>5, <1>7, OpenRows, NoneIsNoOp DEF Knows, Ops, Rowless
<1>9. QED
  BY <1>2, <1>6, <1>7, <1>8, KeepsStart DEF Ops

LEMMA KeepsRestore ==
  ASSUME Inv, NEW r \in Requests, Restore(r)
  PROVE  Inv'
<1>1. PICK c \in Open, type \in Types, host \in Hosts :
        /\ Starts(r, [New("restore", IF type = "agent" THEN "createAgent" ELSE "save", c) EXCEPT
                        !.copy = Entered(Loaded(c, Undefined), type, host), !.owner = c])
        /\ UNCHANGED <<rowVars, cacheVars, faults>>
  BY DEF Restore
<1> DEFINE n == New("restore", IF type = "agent" THEN "createAgent" ELSE "save", c)
           e == Entered(Loaded(c, Undefined), type, host)
           q == [n EXCEPT !.copy = e, !.owner = c]
<1>2. n \in ReqOf /\ n.op = "restore" /\ n.pc \in {"createAgent", "save"} /\ n.conn = c
  BY NewTypes, OpenRows DEF Ops, Places
<1>3. e \in CopyOf /\ e.type = type /\ (type = "plain" => e.host = host)
  BY CopyTypes, EnteredTypes
<1>4. Starts(r, q)
  BY <1>1
<1> HIDE DEF n, e
<1>5. q \in ReqOf /\ q.op = "restore" /\ q.pc = n.pc /\ q.conn = c /\ q.copy = e
  BY <1>2, <1>3, OpenRows DEF ReqOf
<1> HIDE DEF q
<1>6. Knows(q)
  BY <1>2, <1>3, <1>5, OpenRows, NoneIsNoOp DEF Knows, Ops, Rowless
<1>7. QED
  BY <1>1, <1>4, <1>5, <1>6, KeepsStart DEF Ops

LEMMA KeepsUpdateMasterPwd ==
  ASSUME Inv, NEW r \in Requests, UpdateMasterPwd(r)
  PROVE  Inv'
<1>1. PICK c \in Open : \E copy \in WithAgent(c) :
        /\ Starts(r, [New("password", "save", c) EXCEPT !.copy = copy])
        /\ UNCHANGED <<rowVars, cacheVars, faults>>
  BY DEF UpdateMasterPwd
<1>2. PICK copy \in WithAgent(c) :
        /\ Starts(r, [New("password", "save", c) EXCEPT !.copy = copy])
        /\ UNCHANGED <<rowVars, cacheVars, faults>>
  BY <1>1
<1> DEFINE n == New("password", "save", c)
           q == [n EXCEPT !.copy = copy]
<1>3. n \in ReqOf /\ n.op = "password" /\ n.pc = "save" /\ n.conn = c
  BY NewTypes, OpenRows DEF Ops, Places
<1>4. copy \in CopyOf /\ copy.type = conns[c].type /\ copy.host = conns[c].host
  BY CopyTypes
<1>5. conns[c].type \in Types /\ (conns[c].type = "plain" => conns[c].host \in Hosts)
  BY OpenRows DEF RowOf
<1>6. Starts(r, q)
  BY <1>2
<1> HIDE DEF n
<1>7. q \in ReqOf /\ q.op = "password" /\ q.pc = "save" /\ q.conn = c /\ q.copy = copy
  BY <1>3, <1>4 DEF ReqOf
<1> HIDE DEF q
<1>8. Knows(q)
  BY <1>4, <1>5, <1>7, OpenRows, NoneIsNoOp DEF Knows, Ops, Rowless
<1>9. QED
  BY <1>2, <1>6, <1>7, <1>8, KeepsStart DEF Ops

\* Those that start without a copy.
LEMMA KeepsBareStart ==
  ASSUME Inv, NEW r \in Requests, NEW op \in {"delete", "refresh"}, NEW pc \in {"remove", "findAgent"},
         op = "delete" <=> pc = "remove", NEW c \in Open, Starts(r, New(op, pc, c)),
         UNCHANGED <<rowVars, cacheVars, faults>>
  PROVE  Inv'
<1> DEFINE n == New(op, pc, c)
<1>1. n \in ReqOf /\ n.op = op /\ n.pc = pc /\ n.conn = c
  BY NewTypes, OpenRows DEF Ops, Places
<1>2. n.copy.type = None /\ None # "plain"
  BY DistinctValues DEF New, Idle, NoCopy, Types
<1> HIDE DEF n
<1>3. Knows(n)
  BY <1>1, <1>2, OpenRows, NoneIsNoOp DEF Knows, Ops, Rowless
<1>4. QED
  BY <1>1, <1>3, KeepsStart DEF n, Ops

LEMMA KeepsDelete ==
  ASSUME Inv, NEW r \in Requests, Delete(r)
  PROVE  Inv'
BY KeepsBareStart DEF Delete

LEMMA KeepsRefreshToken ==
  ASSUME Inv, NEW r \in Requests, RefreshToken(r)
  PROVE  Inv'
BY KeepsBareStart DEF RefreshToken

LEMMA QueryTypes ==
  ASSUME Inv, NEW c \in Open, NEW op \in {"rows", "tables", "properties"}, NEW copy \in WithAgent(c)
  PROVE  LET q == QueryOf(op, c, copy) IN
         q \in ReqOf /\ q.op = op /\ q.conn = c /\ Knows(q)
<1> DEFINE n == New(op, IF copy.type = "agent" THEN "save" ELSE "dao", c)
           e == [copy EXCEPT !.listed = @ \/ (copy.type = "agent" /\ op = "tables")]
           uses == IF op = "rows" \/ (op = "tables" /\ ~copy.listed) THEN 2 ELSE 1
           q == [n EXCEPT !.copy = e, !.read = copy.host, !.uses = uses]
<1>1. n \in ReqOf /\ n.op = op /\ n.pc \in {"dao", "save"} /\ n.conn = c
  BY NewTypes, OpenRows DEF Ops, Places
<1>2. copy \in CopyOf /\ copy.type = conns[c].type /\ copy.host = conns[c].host
  BY CopyTypes
<1>3. conns[c].type \in Types /\ (conns[c].type = "plain" => conns[c].host \in Hosts)
  BY OpenRows DEF RowOf
<1>4. copy.listed \in BOOLEAN
  BY <1>2 DEF CopyOf
<1>5. e \in CopyOf /\ e.type = copy.type /\ e.host = copy.host
  BY <1>2, <1>4 DEF CopyOf
<1>6. copy.host \in Hosts \union Ports \union {None} /\ uses \in 0..2
  BY <1>2 DEF CopyOf
<1>7. QueryOf(op, c, copy) = q
  BY DEF QueryOf
<1> HIDE DEF n, e, uses
<1>8. q \in ReqOf /\ q.op = op /\ q.pc = n.pc /\ q.conn = c /\ q.copy = e
  BY <1>1, <1>5, <1>6 DEF ReqOf
<1> HIDE DEF q
<1>9. Knows(q)
  BY <1>1, <1>2, <1>3, <1>5, <1>8, OpenRows, NoneIsNoOp DEF Knows, Ops, Rowless
<1>10. QED
  BY <1>7, <1>8, <1>9

LEMMA KeepsQueries ==
  ASSUME Inv, NEW r \in Requests, Queries(r)
  PROVE  Inv'
<1>1. PICK c \in Open, op \in {"rows", "tables", "properties"} : \E copy \in WithAgent(c) :
        Starts(r, QueryOf(op, c, copy)) /\ UNCHANGED <<rowVars, cacheVars, faults>>
  BY DEF Queries
<1>2. PICK copy \in WithAgent(c) :
        Starts(r, QueryOf(op, c, copy)) /\ UNCHANGED <<rowVars, cacheVars, faults>>
  BY <1>1
<1> DEFINE q == QueryOf(op, c, copy)
<1>3. q \in ReqOf /\ q.op = op /\ q.conn = c /\ Knows(q)
  BY QueryTypes
<1> HIDE DEF q
<1>4. Starts(r, q) /\ UNCHANGED <<rowVars, cacheVars, faults>>
  BY <1>2 DEF q
<1>5. QED
  BY <1>3, <1>4, KeepsStart DEF Ops

(***************************************************************************)
(* Requests that go on.  First those that only read.                       *)
(***************************************************************************)
LEMMA ReqTypes ==
  ASSUME Inv, NEW r \in Requests
  PROVE  /\ req[r] \in ReqOf /\ Knows(req[r]) /\ Creates(r)
         /\ req[r].pc # "idle" => req[r].conn \in ConnIds /\ req[r].op \in Ops
<1>1. req[r] \in ReqOf /\ Knows(req[r]) /\ Creates(r)
  BY DEF Inv, TypeOK
<1>2. QED
  BY <1>1 DEF Knows, ReqOf

LEMMA QuietKeepsInv ==
  ASSUME Inv, NEW r \in Requests, NEW q \in ReqOf, Goes(r, q), Knows(q), req[r].pc # "idle",
         \/ q = Idle /\ (req[r].op = "create" => req[r].pc = "answered")
         \/ req[r].op # "create" /\ q.op = req[r].op /\ q.conn = req[r].conn,
         UNCHANGED <<rowVars, cacheVars, served>>, faults' \in 0..MaxFaults
  PROVE  Inv'
<1>1. PICK c \in ConnIds : req[r].conn = c
  BY ReqTypes
<1>2. TypeOK
  BY DEF Inv
<1>3. UNCHANGED <<conns, agents, rights, issued, broken, clock, served, knexCache, tunnelCache, driverCache, pools>>
  BY DEF rowVars, cacheVars
<1>4. agents' \in [Tokens -> AgentOf \union {None, Gone}] /\ issued' \subseteq Tokens
  BY <1>2, <1>3 DEF TypeOK
<1>5. PoolsOK'
  BY <1>2, <1>3, TypeParts DEF PoolsOK
<1>6. QED
  BY <1>1, <1>3, <1>4, <1>5, MoveKeepsInv

LEMMA KeepsFindAgent ==
  ASSUME Inv, NEW r \in Requests, FindAgent(r)
  PROVE  Inv'
<1>1. /\ req[r] \in ReqOf /\ Knows(req[r]) /\ req[r].pc = "findAgent"
      /\ UNCHANGED <<rowVars, cacheVars, served, faults>>
  BY ReqTypes DEF FindAgent, At
<1>2. req[r].op # "create" /\ req[r].op # "delete" /\ req[r].op # None
  BY <1>1 DEF Knows
<1>3. faults' \in 0..MaxFaults
  BY <1>1 DEF Inv, TypeOK
<1>4. CASE AgentsOf(req[r].conn) = {}
  <2> DEFINE q == [req[r] EXCEPT !.pc = "findConn"]
  <2>1. q \in ReqOf /\ q.op = req[r].op /\ q.conn = req[r].conn /\ q.copy = req[r].copy /\ q.pc = "findConn"
    BY <1>1 DEF ReqOf, Places
  <2>2. Goes(r, q)
    BY <1>4 DEF FindAgent
  <2> HIDE DEF q
  <2>3. Knows(q)
    BY <1>1, <1>2, <2>1 DEF Knows
  <2>4. QED
    BY <1>1, <1>2, <1>3, <2>1, <2>2, <2>3, QuietKeepsInv
<1>5. CASE AgentsOf(req[r].conn) # {}
  <2>1. PICK a \in AgentsOf(req[r].conn) : Goes(r, [req[r] EXCEPT !.pc = "renew", !.agent = a])
    BY <1>5 DEF FindAgent
  <2> DEFINE q == [req[r] EXCEPT !.pc = "renew", !.agent = a]
  <2>2. a \in Tokens
    BY DEF AgentsOf
  <2>3. /\ q \in ReqOf /\ q.op = req[r].op /\ q.conn = req[r].conn /\ q.copy = req[r].copy /\ q.pc = "renew"
        /\ q.agent = a
    BY <1>1, <2>2 DEF ReqOf, Places
  <2> HIDE DEF q
  <2>4. Knows(q)
    BY <1>1, <1>2, <2>2, <2>3 DEF Knows
  <2>5. Goes(r, q)
    BY <2>1 DEF q
  <2>6. QED
    BY <1>1, <1>2, <1>3, <2>3, <2>4, <2>5, QuietKeepsInv
<1>6. QED
  BY <1>4, <1>5

LEMMA KeepsFindConn ==
  ASSUME Inv, NEW r \in Requests, FindConn(r)
  PROVE  Inv'
<1>1. /\ req[r] \in ReqOf /\ Knows(req[r]) /\ req[r].pc = "findConn" /\ req[r].conn \in ConnIds
      /\ UNCHANGED <<rowVars, cacheVars, served, faults>>
  BY ReqTypes DEF FindConn, At
<1>2. req[r].op # "create" /\ req[r].op # "delete" /\ req[r].op # None
  BY <1>1 DEF Knows
<1>3. faults' \in 0..MaxFaults
  BY <1>1 DEF Inv, TypeOK
<1> DEFINE o == IF Stored(conns[req[r].conn]) THEN req[r].conn ELSE None
           q == [req[r] EXCEPT !.pc = "createAgent", !.owner = o]
<1>4. o \in ConnIds \union {None}
  BY <1>1
<1>5. Goes(r, q)
  BY DEF FindConn
<1> HIDE DEF o
<1>6. q \in ReqOf /\ q.op = req[r].op /\ q.conn = req[r].conn /\ q.copy = req[r].copy /\ q.pc = "createAgent"
  BY <1>1, <1>4 DEF ReqOf, Places
<1> HIDE DEF q
<1>7. Knows(q)
  BY <1>1, <1>2, <1>6 DEF Knows
<1>8. QED
  BY <1>1, <1>2, <1>3, <1>5, <1>6, <1>7, QuietKeepsInv

LEMMA KeepsLeave ==
  ASSUME Inv, NEW r \in Requests, Leave(r)
  PROVE  Inv'
<1>1. req[r].pc = "answered" /\ Goes(r, Idle) /\ UNCHANGED <<rowVars, cacheVars, served, faults>>
  BY DEF Leave, At, Ends
<1>2. faults' \in 0..MaxFaults
  BY <1>1 DEF Inv, TypeOK
<1>3. QED
  BY <1>1, <1>2, IdleKnows, QuietKeepsInv

\* What is known of a request that is about to reach a database or does so.
AtPool == {"dao", "tunnel", "driver", "query"}
LEMMA PoolRequest ==
  ASSUME Inv, NEW r \in Requests, req[r].pc \in AtPool
  PROVE  /\ req[r] \in ReqOf /\ Knows(req[r]) /\ req[r].conn \in ConnIds
         /\ req[r].op \in Ops \ {"create", "delete", "refresh"} /\ req[r].copy \in CopyOf
BY ReqTypes DEF AtPool, Knows, ReqOf

ToPool(r, pc, p) == [req[r] EXCEPT !.pc = pc, !.port = p]
LEMMA GoesToPool ==
  ASSUME Inv, NEW r \in Requests, req[r].pc \in AtPool, NEW p \in Ports,
         NEW pc \in {"tunnel", "driver", "query"}, pc = "tunnel" => req[r].copy.type = "ssh"
  PROVE  LET q == ToPool(r, pc, p) IN
         /\ q \in ReqOf /\ Knows(q) /\ q.op = req[r].op /\ q.conn = req[r].conn
         /\ q.copy = req[r].copy /\ q.pc = pc /\ q.port = p
<1> DEFINE q == [req[r] EXCEPT !.pc = pc, !.port = p]
<1>1. /\ req[r] \in ReqOf /\ Knows(req[r]) /\ req[r].conn \in ConnIds
      /\ req[r].op \in Ops \ {"create", "delete", "refresh"}
  BY PoolRequest
<1>2. q \in ReqOf /\ q.op = req[r].op /\ q.conn = req[r].conn /\ q.copy = req[r].copy /\ q.pc = pc /\ q.port = p
  BY <1>1 DEF ReqOf, Places
<1> HIDE DEF q
<1>3. Knows(q)
  BY <1>1, <1>2, NoneIsNoOp DEF Knows
<1>4. QED
  BY <1>2, <1>3 DEF q, ToPool

LEMMA QuietToPool ==
  ASSUME Inv, NEW r \in Requests, req[r].pc \in AtPool, NEW p \in Ports,
         NEW pc \in {"tunnel", "driver", "query"}, pc = "tunnel" => req[r].copy.type = "ssh",
         Goes(r, ToPool(r, pc, p)), UNCHANGED <<rowVars, cacheVars, served, faults>>
  PROVE  Inv'
<1> DEFINE q == ToPool(r, pc, p)
<1>1. q \in ReqOf /\ Knows(q) /\ q.op = req[r].op /\ q.conn = req[r].conn
  BY GoesToPool
<1>2. req[r].op # "create" /\ req[r].pc # "idle"
  BY PoolRequest DEF AtPool
<1>3. faults' \in 0..MaxFaults
  BY DEF Inv, TypeOK
<1> HIDE DEF q
<1>4. Goes(r, q)
  BY DEF q
<1>5. QED
  BY <1>1, <1>2, <1>3, <1>4, QuietKeepsInv

LEMMA CachedIsPort ==
  ASSUME Inv, NEW q, NEW cache \in {knexCache, tunnelCache, driverCache}
  PROVE  \A p \in Cached(cache, q) : p \in Ports /\ pools[p] # None
BY DEF Inv, TypeOK, Cached, Entries

LEMMA KeepsCachedKnex ==
  ASSUME Inv, NEW r \in Requests, CachedKnex(r)
  PROVE  Inv'
<1>1. req[r].pc \in AtPool
  BY DEF CachedKnex, At, AtPool
<1>2. PICK p \in Cached(knexCache, req[r]) : Goes(r, [req[r] EXCEPT !.pc = "query", !.port = p])
  BY DEF CachedKnex, Querying
<1>3. p \in Ports
  BY CachedIsPort
<1>4. QED
  BY <1>1, <1>2, <1>3, QuietToPool DEF CachedKnex, ToPool

LEMMA KeepsCachedDriver ==
  ASSUME Inv, NEW r \in Requests, CachedDriver(r)
  PROVE  Inv'
<1>1. req[r].pc \in AtPool
  BY DEF CachedDriver, At, AtPool
<1>2. PICK p \in Cached(driverCache, req[r]) : Goes(r, [req[r] EXCEPT !.pc = "query", !.port = p])
  BY DEF CachedDriver, Querying
<1>3. p \in Ports
  BY CachedIsPort
<1>4. QED
  BY <1>1, <1>2, <1>3, QuietToPool DEF CachedDriver, ToPool

LEMMA KeepsStartTunnel ==
  ASSUME Inv, NEW r \in Requests, StartTunnel(r)
  PROVE  Inv'
<1>1. req[r].pc \in AtPool /\ req[r].copy.type = "ssh"
  BY DEF StartTunnel, At, AtPool
<1>2. PICK p \in Ports : Goes(r, [req[r] EXCEPT !.pc = "tunnel", !.port = p])
  BY DEF StartTunnel, FreePorts
<1>3. QED
  BY <1>1, <1>2, QuietToPool DEF StartTunnel, ToPool

LEMMA KeepsStartDriver ==
  ASSUME Inv, NEW r \in Requests, StartDriver(r)
  PROVE  Inv'
<1>1. req[r].pc \in AtPool
  BY DEF StartDriver, At, AtPool
<1>2. PICK p \in Ports : Goes(r, [req[r] EXCEPT !.pc = "driver", !.port = p])
  BY DEF StartDriver, FreePorts
<1>3. QED
  BY <1>1, <1>2, QuietToPool DEF StartDriver, ToPool

LEMMA KeepsTunnelFails ==
  ASSUME Inv, NEW r \in Requests, TunnelFails(r)
  PROVE  Inv'
<1>1. req[r].pc = "tunnel" /\ req[r].pc \in AtPool /\ UNCHANGED <<rowVars, cacheVars, served>>
  BY DEF TunnelFails, At, AtPool
<1>2. /\ req[r] \in ReqOf /\ Knows(req[r]) /\ req[r].conn \in ConnIds
      /\ req[r].op \in Ops \ {"create", "delete", "refresh"}
  BY <1>1, PoolRequest
<1> DEFINE q == [req[r] EXCEPT !.pc = "hung"]
<1>3. Goes(r, q) /\ faults' \in 0..MaxFaults
  BY DistinctValues DEF TunnelFails, Inv, TypeOK
<1>4. q \in ReqOf /\ q.op = req[r].op /\ q.conn = req[r].conn /\ q.copy = req[r].copy /\ q.pc = "hung"
  BY <1>2 DEF ReqOf, Places
<1> HIDE DEF q
<1>5. Knows(q)
  BY <1>2, <1>4, NoneIsNoOp DEF Knows
<1>6. QED
  BY <1>1, <1>2, <1>3, <1>4, <1>5, QuietKeepsInv

LEMMA KeepsQuery ==
  ASSUME Inv, NEW r \in Requests, Query(r)
  PROVE  Inv'
<1>1. req[r].pc = "query" /\ req[r].pc \in AtPool /\ UNCHANGED <<rowVars, cacheVars, served, faults>>
  BY DEF Query, At, AtPool
<1>2. /\ req[r] \in ReqOf /\ Knows(req[r]) /\ req[r].conn \in ConnIds
      /\ req[r].op \in Ops \ {"create", "delete", "refresh"} /\ req[r].copy \in CopyOf
  BY <1>1, PoolRequest
<1>3. faults' \in 0..MaxFaults
  BY <1>1 DEF Inv, TypeOK
<1> DEFINE c == [req[r].copy EXCEPT !.listed = @ \/ req[r].op = "tables"]
           u == req[r].uses - 1
           again == [req[r] EXCEPT !.pc = "dao", !.uses = u]
           saving == [req[r] EXCEPT !.pc = "save", !.copy = c]
<1>4. CASE req[r].uses > 1
  <2>1. Goes(r, again)
    BY <1>4 DEF Query
  <2>2. u \in 0..2
    <3>1. req[r].uses \in 0..2
      BY <1>2 DEF ReqOf
    <3>2. QED
      BY <1>4, <3>1
  <2> HIDE DEF u
  <2>3. /\ again \in ReqOf /\ again.op = req[r].op /\ again.conn = req[r].conn /\ again.copy = req[r].copy
        /\ again.pc = "dao"
    BY <1>2, <2>2 DEF ReqOf, Places
  <2> HIDE DEF again
  <2>4. Knows(again)
    BY <1>2, <2>3, NoneIsNoOp DEF Knows
  <2>5. QED
    BY <1>1, <1>2, <1>3, <2>1, <2>3, <2>4, QuietKeepsInv
<1>5. ASSUME Goes(r, saving) PROVE Inv'
  <2>1. req[r].copy.listed \in BOOLEAN
    BY <1>2 DEF CopyOf
  <2>2. c \in CopyOf /\ c.type = req[r].copy.type /\ c.host = req[r].copy.host
    BY <1>2, <2>1 DEF CopyOf
  <2> HIDE DEF c
  <2>3. /\ saving \in ReqOf /\ saving.op = req[r].op /\ saving.conn = req[r].conn /\ saving.copy = c
        /\ saving.pc = "save"
    BY <1>2, <2>2 DEF ReqOf, Places
  <2> HIDE DEF saving
  <2>4. Knows(saving)
    BY <1>2, <2>2, <2>3, NoneIsNoOp DEF Knows
  <2>5. QED
    BY <1>1, <1>2, <1>3, <1>5, <2>3, <2>4, QuietKeepsInv
<1>6. ASSUME Goes(r, Idle) PROVE Inv'
  BY <1>1, <1>2, <1>3, <1>6, IdleKnows, QuietKeepsInv
<1>7. ASSUME ~(req[r].uses > 1) PROVE Goes(r, saving) \/ Goes(r, Idle)
  BY <1>7 DEF Query
<1>8. QED
  BY <1>4, <1>5, <1>6, <1>7

(***************************************************************************)
(* Requests that open or cache a pool.                                     *)
(***************************************************************************)
EndOf == Hosts \union Ports \union {None}
KeyOf == (ConnIds \X CopyOf) \union {None}

LEMMA OpenedTypes ==
  ASSUME PoolsOK, NEW p \in Ports, NEW to \in EndOf, NEW key \in KeyOf
  PROVE  /\ Opened(p, to, key) \in [Ports -> PoolOf \union {None}]
         /\ \A x \in Ports : pools[x] # None \/ x = p => Opened(p, to, key)[x] # None
<1> DEFINE row == [to |-> to, open |-> TRUE, key |-> key]
<1>1. row \in PoolOf
  BY DEF PoolOf, EndOf, KeyOf
<1>2. None \notin PoolOf
  BY DistinctValues
<1> HIDE DEF row
<1>3. Opened(p, to, key) = [pools EXCEPT ![p] = row]
  BY DEF Opened, row
<1>4. QED
  BY <1>1, <1>2, <1>3 DEF PoolsOK

LEMMA CachesTypes ==
  ASSUME NEW q \in ReqOf, q.conn \in ConnIds, NEW p \in Ports
  PROVE  Caches(q, p) \in Entries /\ Caches(q, p).pool = p /\ Caches(q, p).key = Key(q) /\ Key(q) \in KeyOf
BY DEF Caches, Entries, Key, ReqOf, KeyOf

\* Pools stay as they are but for one that is opened, and the entries that are
\* added are of an opened pool.
LEMMA PoolTypes ==
  ASSUME PoolsOK, NEW p \in Ports, NEW e \in Entries, e.pool = p, pools'[p] # None,
         pools' \in [Ports -> PoolOf \union {None}], \A x \in Ports : pools[x] # None => pools'[x] # None,
         knexCache' \subseteq knexCache \union {e}, tunnelCache' \subseteq tunnelCache \union {e},
         driverCache' \subseteq driverCache \union {e}
  PROVE  PoolsOK'
<1>1. knexCache' \subseteq Entries /\ tunnelCache' \subseteq Entries /\ driverCache' \subseteq Entries
  BY DEF PoolsOK
<1>2. ASSUME NEW x \in knexCache' \union tunnelCache' \union driverCache' PROVE pools'[x.pool] # None
  <2>1. CASE x = e
    BY <2>1
  <2>2. CASE x # e
    <3>1. x \in knexCache \union tunnelCache \union driverCache /\ x \in Entries
      BY <1>1, <2>2
    <3>2. pools[x.pool] # None /\ x.pool \in Ports
      BY <3>1 DEF PoolsOK, Entries
    <3>3. QED
      BY <3>2
  <2>3. QED
    BY <2>1, <2>2
<1>3. QED
  BY <1>1, <1>2 DEF PoolsOK

LEMMA PoolKeepsInv ==
  ASSUME Inv, NEW r \in Requests, req[r].pc \in AtPool, NEW q \in ReqOf, Goes(r, q), Knows(q),
         q.op = req[r].op, q.conn = req[r].conn, UNCHANGED <<rowVars, served, faults>>, PoolsOK'
  PROVE  Inv'
<1>1. PICK c \in ConnIds : req[r].conn = c
  BY PoolRequest
<1>2. req[r].op # "create" /\ req[r].pc # "idle"
  BY PoolRequest DEF AtPool
<1>3. UNCHANGED <<conns, agents, rights, issued, broken, clock, served>>
  BY DEF rowVars
<1>4. /\ agents' \in [Tokens -> AgentOf \union {None, Gone}] /\ issued' \subseteq Tokens
      /\ faults' \in 0..MaxFaults
  BY <1>3 DEF Inv, TypeOK
<1>5. QED
  BY <1>1, <1>2, <1>3, <1>4, MoveKeepsInv

LEMMA KeepsNewKnex ==
  ASSUME Inv, NEW r \in Requests, NewKnex(r)
  PROVE  Inv'
<1>1. req[r].pc \in AtPool /\ UNCHANGED <<rowVars, tunnelCache, driverCache, served, faults>>
  BY DEF NewKnex, At, AtPool
<1>2. PICK p \in Ports : /\ pools' = Opened(p, req[r].copy.host, None)
                         /\ knexCache' = knexCache \union {Caches(req[r], p)}
                         /\ Goes(r, ToPool(r, "query", p))
  BY DEF NewKnex, FreePorts, Querying, ToPool
<1>3. req[r] \in ReqOf /\ req[r].conn \in ConnIds /\ req[r].copy.host \in EndOf
  BY <1>1, PoolRequest DEF CopyOf, EndOf
<1>4. PoolsOK
  BY TypeParts DEF Inv
<1>5. None \in KeyOf
  BY DEF KeyOf
<1> DEFINE e == Caches(req[r], p)
<1>6. e \in Entries /\ e.pool = p
  BY <1>3, CachesTypes
<1>7. /\ pools' \in [Ports -> PoolOf \union {None}]
      /\ \A x \in Ports : pools[x] # None \/ x = p => pools'[x] # None
  BY <1>2, <1>3, <1>4, <1>5, OpenedTypes
<1> HIDE DEF e
<1>8. knexCache' \subseteq knexCache \union {e} /\ tunnelCache' = tunnelCache /\ driverCache' = driverCache
  BY <1>1, <1>2 DEF e
<1>9. PoolsOK'
  BY <1>4, <1>6, <1>7, <1>8, PoolTypes
<1> DEFINE q == ToPool(r, "query", p)
<1>10. q \in ReqOf /\ Knows(q) /\ q.op = req[r].op /\ q.conn = req[r].conn
  BY <1>1, GoesToPool
<1>11. Goes(r, q)
  BY <1>2
<1> HIDE DEF q
<1>12. QED
  BY <1>1, <1>9, <1>10, <1>11, PoolKeepsInv

LEMMA KeepsCachedTunnel ==
  ASSUME Inv, NEW r \in Requests, CachedTunnel(r)
  PROVE  Inv'
<1>1. req[r].pc \in AtPool /\ UNCHANGED <<rowVars, tunnelCache, driverCache, pools, served, faults>>
  BY DEF CachedTunnel, At, AtPool
<1>2. PICK p \in Cached(tunnelCache, req[r]) : /\ knexCache' = knexCache \union {Caches(req[r], p)}
                                               /\ Goes(r, ToPool(r, "query", p))
  BY DEF CachedTunnel, Querying, ToPool
<1>3. p \in Ports /\ pools[p] # None
  BY CachedIsPort
<1>4. req[r] \in ReqOf /\ req[r].conn \in ConnIds
  BY <1>1, PoolRequest
<1>5. PoolsOK
  BY TypeParts DEF Inv
<1> DEFINE e == Caches(req[r], p)
<1>6. e \in Entries /\ e.pool = p
  BY <1>3, <1>4, CachesTypes
<1>7. pools' \in [Ports -> PoolOf \union {None}] /\ pools' = pools
  BY <1>1, <1>5 DEF PoolsOK
<1> HIDE DEF e
<1>8. knexCache' \subseteq knexCache \union {e} /\ tunnelCache' = tunnelCache /\ driverCache' = driverCache
  BY <1>1, <1>2 DEF e
<1>9. PoolsOK'
  BY <1>3, <1>5, <1>6, <1>7, <1>8, PoolTypes
<1> DEFINE q == ToPool(r, "query", p)
<1>10. q \in ReqOf /\ Knows(q) /\ q.op = req[r].op /\ q.conn = req[r].conn
  BY <1>1, <1>3, GoesToPool
<1>11. Goes(r, q)
  BY <1>2
<1> HIDE DEF q
<1>12. QED
  BY <1>1, <1>9, <1>10, <1>11, PoolKeepsInv

LEMMA KeepsDriverIsUp ==
  ASSUME Inv, NEW r \in Requests, DriverIsUp(r)
  PROVE  Inv'
<1> DEFINE p == req[r].port
           e == Caches(req[r], p)
<1>1. /\ req[r].pc = "driver" /\ req[r].pc \in AtPool
      /\ UNCHANGED <<rowVars, knexCache, tunnelCache, served, faults>>
      /\ pools' = Opened(p, req[r].copy.host, Key(req[r]))
      /\ driverCache' = {x \in driverCache : x.key # Key(req[r])} \union {e}
      /\ Goes(r, ToPool(r, "query", p))
  BY DEF DriverIsUp, At, AtPool, Querying, ToPool
<1>2. req[r] \in ReqOf /\ Knows(req[r]) /\ req[r].conn \in ConnIds /\ req[r].copy.host \in EndOf
  BY <1>1, PoolRequest DEF CopyOf, EndOf
<1>3. p \in Ports
  BY <1>1, <1>2 DEF Knows
<1>4. PoolsOK
  BY TypeParts DEF Inv
<1>5. e \in Entries /\ e.pool = p /\ Key(req[r]) \in KeyOf
  BY <1>2, <1>3, CachesTypes
<1>6. /\ pools' \in [Ports -> PoolOf \union {None}]
      /\ \A x \in Ports : pools[x] # None \/ x = p => pools'[x] # None
  BY <1>1, <1>2, <1>3, <1>4, <1>5, OpenedTypes
<1> DEFINE q == ToPool(r, "query", p)
<1>7. q \in ReqOf /\ Knows(q) /\ q.op = req[r].op /\ q.conn = req[r].conn
  BY <1>1, <1>3, GoesToPool
<1> HIDE DEF e, p, q
<1>8. driverCache' \subseteq driverCache \union {e} /\ tunnelCache' = tunnelCache /\ knexCache' = knexCache
  BY <1>1
<1>9. PoolsOK'
  BY <1>3, <1>4, <1>5, <1>6, <1>8, PoolTypes
<1>10. Goes(r, q)
  BY <1>1 DEF q
<1>11. QED
  BY <1>1, <1>7, <1>9, <1>10, PoolKeepsInv

LEMMA KeepsTunnelIsUp ==
  ASSUME Inv, NEW r \in Requests, TunnelIsUp(r)
  PROVE  Inv'
<1> DEFINE p == req[r].port
           s == [req[r] EXCEPT !.copy.host = p]
           e == Caches(s, p)
           q == [s EXCEPT !.pc = "query", !.port = p]
<1>1. /\ req[r].pc = "tunnel" /\ req[r].pc \in AtPool
      /\ UNCHANGED <<rowVars, driverCache, served, faults>>
      /\ pools' = Opened(p, req[r].copy.host, None)
      /\ knexCache' = knexCache \union {e} /\ tunnelCache' = tunnelCache \union {e}
      /\ Goes(r, q)
  BY DEF TunnelIsUp, At, AtPool, Querying
<1>2. /\ req[r] \in ReqOf /\ Knows(req[r]) /\ req[r].conn \in ConnIds /\ req[r].copy.host \in EndOf
      /\ req[r].copy \in CopyOf /\ req[r].op \in Ops \ {"create", "delete", "refresh"}
  BY <1>1, PoolRequest DEF CopyOf, EndOf
<1>3. p \in Ports /\ req[r].copy.type = "ssh"
  BY <1>1, <1>2 DEF Knows
<1>4. PoolsOK /\ None \in KeyOf
  BY TypeParts DEF Inv, KeyOf
<1>5. /\ pools' \in [Ports -> PoolOf \union {None}]
      /\ \A x \in Ports : pools[x] # None \/ x = p => pools'[x] # None
  BY <1>1, <1>2, <1>3, <1>4, OpenedTypes
<1> DEFINE h == [req[r].copy EXCEPT !.host = p]
<1>6. h \in CopyOf /\ h.type = "ssh"
  BY <1>2, <1>3 DEF CopyOf
<1>7. s = [req[r] EXCEPT !.copy = h]
  OBVIOUS
<1> HIDE DEF h, p
<1>8. s \in ReqOf /\ s.op = req[r].op /\ s.conn = req[r].conn /\ s.copy = h
  BY <1>2, <1>6, <1>7 DEF ReqOf
<1> HIDE DEF s
<1>9. /\ q \in ReqOf /\ q.op = req[r].op /\ q.conn = req[r].conn /\ q.copy = h
      /\ q.pc = "query" /\ q.port = p
  BY <1>3, <1>8 DEF ReqOf, Places
<1>10. e \in Entries /\ e.pool = p
  BY <1>2, <1>3, <1>8, CachesTypes
<1> HIDE DEF e, q
<1>11. Knows(q)
  BY <1>2, <1>3, <1>6, <1>9, NoneIsNoOp DEF Knows, Types
<1>12. /\ knexCache' \subseteq knexCache \union {e} /\ tunnelCache' \subseteq tunnelCache \union {e}
       /\ driverCache' = driverCache
  BY <1>1
<1>13. PoolsOK'
  BY <1>3, <1>4, <1>5, <1>10, <1>12, PoolTypes
<1>14. QED
  BY <1>1, <1>9, <1>11, <1>13, PoolKeepsInv

(***************************************************************************)
(* Agents and their tokens.                                                *)
(***************************************************************************)
LEMMA WithTokenTypes ==
  ASSUME NEW q \in ReqOf, Knows(q), q.pc \in {"createAgent", "renew"}, q.pc = "renew" => q.op # "create",
         NEW a \in Tokens, NEW t \in Tokens
  PROVE  LET n == WithToken(q, a, t) IN
         n \in ReqOf /\ Knows(n) /\ n.op = q.op /\ n.conn = q.conn /\ (q.op = "create" => n.pc = "group")
<1> DEFINE pc == CASE q.op = "create" -> "group" [] q.op = "refresh" -> "answered" [] OTHER -> "save"
           h == [q.copy EXCEPT !.agent = IF q.op = "restore" THEN a ELSE @]
           n == [q EXCEPT !.token = t, !.pc = pc, !.copy = h]
<1>1. /\ pc \in Places /\ pc \in {"group", "answered", "save"}
      /\ (q.op = "create" <=> pc = "group") /\ (q.op = "refresh" => pc = "answered")
      /\ (pc = "answered" => q.op = "refresh")
  BY DEF Places
<1>2. q.copy \in CopyOf
  BY DEF ReqOf
<1>3. h \in CopyOf /\ h.type = q.copy.type /\ h.host = q.copy.host
  BY <1>2 DEF CopyOf
<1>4. WithToken(q, a, t) = n
  BY DEF WithToken
<1> HIDE DEF pc, h
<1>5. n \in ReqOf /\ n.op = q.op /\ n.conn = q.conn /\ n.pc = pc /\ n.copy = h
  BY <1>1, <1>3 DEF ReqOf
<1>6. q.op # None /\ q.op # "delete"
  BY DEF Knows
<1> HIDE DEF n
<1>7. Knows(n)
  BY <1>1, <1>3, <1>5, <1>6 DEF Knows
<1>8. QED
  BY <1>1, <1>4, <1>5, <1>7

LEMMA KeepsSavesAgent ==
  ASSUME Inv, NEW r \in Requests, req[r].pc \in {"createAgent", "renew"},
         NEW a \in Tokens \union {None}, NEW c \in ConnIds \union {None}, SavesAgent(r, a, c)
  PROVE  Inv'
<1>1. PICK t \in Tokens \ issued :
        LET row == IF a = None THEN t ELSE a IN
        /\ agents' = SavedAgent(row, c, t)
        /\ issued' = issued \union {t}
        /\ Goes(r, WithToken(req[r], row, t))
        /\ UNCHANGED <<conns, rights, broken, clock, cacheVars, served, faults>>
  BY DEF SavesAgent
<1> DEFINE row == IF a = None THEN t ELSE a
           q == WithToken(req[r], row, t)
<1>2. row \in Tokens
  OBVIOUS
<1>3. req[r] \in ReqOf /\ Knows(req[r])
  BY ReqTypes
<1>4. req[r].pc = "renew" => req[r].op # "create"
  BY <1>3 DEF Knows
<1>5. PICK d \in ConnIds : req[r].conn = d
  BY ReqTypes
<1>6. agents' = SavedAgent(row, c, t) /\ issued' = issued \union {t} /\ Goes(r, q)
  BY <1>1
<1> HIDE DEF row
<1>7. q \in ReqOf /\ Knows(q) /\ q.op = req[r].op /\ q.conn = d /\ (req[r].op = "create" => q.pc = "group")
  BY <1>2, <1>3, <1>4, <1>5, WithTokenTypes
<1>8. TypeOK /\ PoolsOK
  BY TypeParts DEF Inv
<1>9. [conn |-> c, token |-> t] \in AgentOf
  BY DEF AgentOf
<1>10. agents' \in [Tokens -> AgentOf \union {None, Gone}] /\ issued' \subseteq Tokens
  BY <1>2, <1>6, <1>8, <1>9 DEF TypeOK, SavedAgent
<1>11. PoolsOK' /\ faults' \in 0..MaxFaults
  BY <1>1, <1>8 DEF PoolsOK, cacheVars, TypeOK
<1> HIDE DEF q
<1>12. UNCHANGED <<conns, rights, broken, clock, served>>
  BY <1>1
<1>13. req[r].pc # "idle" /\ (req[r].op = "create" => req[r].pc = "createAgent")
  BY <1>4
<1>14. QED
  BY <1>5, <1>6, <1>7, <1>10, <1>11, <1>12, <1>13, MoveKeepsInv

LEMMA KeepsCreateAgent ==
  ASSUME Inv, NEW r \in Requests, CreateAgent(r)
  PROVE  Inv'
<1>1. req[r].pc = "createAgent" /\ SavesAgent(r, None, req[r].owner)
  BY DEF CreateAgent, At
<1>2. req[r].owner \in ConnIds \union {None}
  BY ReqTypes DEF ReqOf
<1>3. QED
  BY <1>1, <1>2, KeepsSavesAgent

LEMMA KeepsRenewAgent ==
  ASSUME Inv, NEW r \in Requests, RenewAgent(r)
  PROVE  Inv'
<1>1. req[r].pc = "renew" /\ SavesAgent(r, req[r].agent, req[r].conn)
  BY DEF RenewAgent, At
<1>2. req[r].conn \in ConnIds /\ req[r].agent \in Tokens
  BY <1>1, ReqTypes DEF Knows
<1>3. QED
  BY <1>1, <1>2, KeepsSavesAgent

(***************************************************************************)
(* A request that is refused: its creation is to blame for what is left.   *)
(***************************************************************************)
LEMMA KeepsRefuses ==
  ASSUME Inv, NEW r \in Requests, req[r].pc # "idle", Refuses(r), faults' \in 0..MaxFaults
  PROVE  Inv'
<1>1. PICK c \in ConnIds : req[r].conn = c
  BY ReqTypes
<1>2. /\ Goes(r, Idle) /\ broken' = Blamed(r)
      /\ UNCHANGED <<conns, agents, rights, issued, clock, served, knexCache, tunnelCache, driverCache, pools>>
  BY DEF Refuses, Ends, cacheVars
<1>3. TypeOK /\ Idle \in ReqOf /\ Knows(Idle) /\ Idle.op = None /\ Idle.conn = None /\ None # "create"
  BY IdleKnows, NoneIsNoOp DEF Inv, Ops
<1>4. req' \in [Requests -> ReqOf] /\ req'[r] = Idle /\ Apart(r)
  BY <1>2, <1>3, GoesTypes
<1>5. /\ \A d \in ConnIds \ {c} : broken'[d] = broken[d]
      /\ broken[c] \subseteq broken'[c] /\ broken' \in [ConnIds -> SUBSET Causes]
      /\ req[r].op = "create" /\ Stored(conns[c]) => broken'[c] # {}
  BY <1>1, <1>2, <1>3 DEF Blamed, TypeOK, Causes
<1>6. RowsOK /\ PoolsOK
  BY <1>3, TypeParts
<1>7. RowsOK'
  BY <1>2, <1>5, <1>6 DEF RowsOK, Stored
<1>8. PoolsOK'
  BY <1>2, <1>6 DEF PoolsOK
<1>9. TypeOK'
  BY <1>2, <1>3, <1>4, <1>7, <1>8, TypeParts DEF TypeOK, RowsOK, PoolsOK
<1>10. OnlyAt(r, c)
  BY <1>2, <1>3, <1>4, <1>5 DEF OnlyAt
<1>11. KindAt(r, c)
  BY <1>2 DEF KindAt, Stored
<1>12. Creates(r)'
  BY <1>3, <1>4 DEF Creates
<1>13. Fine(c)'
  <2>1. Fine(c) /\ conns' = conns /\ rights' = rights
    BY <1>2 DEF Inv
  <2>2. CASE req[r].op = "create"
    BY <1>5, <2>1, <2>2 DEF Fine, Stored
  <2>3. CASE req[r].op # "create"
    <3>1. \A x \in Requests : req[x].op = "create" => req'[x].op = "create" /\ req'[x].conn = req[x].conn
      BY <1>4, <2>3 DEF Apart, Same
    <3>2. broken[c] # {} => broken'[c] # {}
      BY <1>5
    <3>3. QED
      BY <2>1, <3>1, <3>2 DEF Fine, Stored
  <2>4. QED
    BY <2>2, <2>3
<1>14. QED
  BY <1>1, <1>3, <1>4, <1>9, <1>10, <1>11, <1>12, <1>13, StepKeepsInv

LEMMA SameFaults == Inv /\ UNCHANGED faults => faults' \in 0..MaxFaults
BY DEF Inv, TypeOK

LEMMA KeepsGroupIsGone ==
  ASSUME Inv, NEW r \in Requests, GroupIsGone(r)
  PROVE  Inv'
BY SameFaults, KeepsRefuses DEF GroupIsGone, At

LEMMA KeepsAgentIsRefused ==
  ASSUME Inv, NEW r \in Requests, AgentIsRefused(r)
  PROVE  Inv'
BY SameFaults, KeepsRefuses DEF AgentIsRefused, At

LEMMA KeepsLinkIsRefused ==
  ASSUME Inv, NEW r \in Requests, LinkIsRefused(r)
  PROVE  Inv'
BY SameFaults, KeepsRefuses DEF LinkIsRefused, At

LEMMA KeepsPoolIsClosed ==
  ASSUME Inv, NEW r \in Requests, PoolIsClosed(r)
  PROVE  Inv'
BY SameFaults, KeepsRefuses DEF PoolIsClosed, At

LEMMA KeepsStatementFails ==
  ASSUME Inv, NEW r \in Requests, StatementFails(r)
  PROVE  Inv'
<1>1. faults' \in 0..MaxFaults
  BY DistinctValues DEF Inv, TypeOK, StatementFails
<1>2. QED
  BY <1>1, KeepsRefuses DEF StatementFails

(***************************************************************************)
(* Rows are written.                                                       *)
(***************************************************************************)
LEMMA BareTypes ==
  ASSUME NEW copy \in CopyOf, copy.type \in Types, NEW n \in Nat
  PROVE  /\ Bare(copy) \in RowOf /\ Bare(copy).type = copy.type /\ Bare(copy).host = copy.host
         /\ [Bare(copy) EXCEPT !.ver = n] \in RowOf
         /\ [Bare(copy) EXCEPT !.ver = n].type = copy.type /\ [Bare(copy) EXCEPT !.ver = n].host = copy.host
BY DEF Bare, CopyOf, RowOf

LEMMA RowIsStored == \A row \in RowOf : Stored(row)
BY DistinctValues DEF Stored

\* What a request becomes that is answered.
LEMMA AnswersTypes ==
  ASSUME Inv, NEW r \in Requests, req[r].pc \in {"permissions", "save"}, Answers(r)
  PROVE  \E q \in ReqOf : /\ Goes(r, q) /\ Knows(q)
                          /\ q = Idle \/ (q.op = req[r].op /\ q.conn = req[r].conn /\ q.pc = "answered")
<1>1. req[r] \in ReqOf /\ Knows(req[r])
  BY ReqTypes
<1> DEFINE q == [req[r] EXCEPT !.pc = "answered"]
<1>2. q \in ReqOf /\ q.op = req[r].op /\ q.conn = req[r].conn /\ q.pc = "answered" /\ q.copy = req[r].copy
  BY <1>1 DEF ReqOf, Places
<1>3. Goes(r, Idle) \/ Goes(r, q)
  BY DEF Answers
<1> HIDE DEF q
<1>4. Knows(q)
  BY <1>1, <1>2 DEF Knows
<1>5. QED
  BY <1>2, <1>3, <1>4, IdleKnows

LEMMA KeepsInsert ==
  ASSUME Inv, NEW r \in Requests, Insert(r)
  PROVE  Inv'
<1>1. req[r] \in ReqOf /\ Knows(req[r]) /\ Creates(r) /\ req[r].pc = "insert"
  BY ReqTypes DEF Insert, At
<1>2. PICK c \in ConnIds : req[r].conn = c
  BY <1>1, ReqTypes
<1>3. req[r].op = "create" /\ req[r].copy \in CopyOf /\ req[r].copy.type \in Types
  BY <1>1, NoneIsNoOp DEF Knows, Rowless, ReqOf, Ops
<1>4. rights[c] = None /\ Secluded(r) /\ \A x \in Requests \ {r} : req[x].conn # c
  BY <1>1, <1>2, <1>3 DEF Creates, Secluded
<1> DEFINE row == [Bare(req[r].copy) EXCEPT !.ver = clock + 1]
           pc == IF req[r].copy.type = "agent" THEN "createAgent" ELSE "group"
           q == [req[r] EXCEPT !.pc = pc]
<1>5. /\ conns' = [conns EXCEPT ![c] = row] /\ clock' = clock + 1 /\ Goes(r, q)
      /\ UNCHANGED <<agents, rights, issued, broken, served, faults, knexCache, tunnelCache, driverCache, pools>>
  BY <1>2 DEF Insert, cacheVars
<1>6. TypeOK /\ RowsOK /\ PoolsOK /\ clock + 1 \in Nat
  BY TypeParts DEF Inv, RowsOK
<1>7. row \in RowOf /\ row.type = req[r].copy.type /\ row.host = req[r].copy.host
  BY <1>3, <1>6, BareTypes
<1> HIDE DEF row
<1>8. pc \in Places /\ pc \in {"createAgent", "group"}
  BY DEF Places
<1> HIDE DEF pc
<1>9. q \in ReqOf /\ q.op = "create" /\ q.conn = c /\ q.pc = pc /\ q.copy = req[r].copy
  BY <1>1, <1>2, <1>3, <1>8 DEF ReqOf
<1> HIDE DEF q
<1>10. Knows(q)
  BY <1>1, <1>2, <1>3, <1>8, <1>9 DEF Knows, Rowless
<1>11. req' \in [Requests -> ReqOf] /\ req'[r] = q /\ Apart(r)
  BY <1>5, <1>6, <1>9, GoesTypes
<1>12. conns'[c] = row /\ Stored(row) /\ \A d \in ConnIds \ {c} : conns'[d] = conns[d]
  BY <1>5, <1>6, <1>7, RowIsStored DEF RowsOK
<1>13. conns' \in [ConnIds -> RowOf \union {None, Gone}]
  BY <1>5, <1>6, <1>7 DEF RowsOK
<1>14. \A d \in ConnIds : rights'[d] # None => Stored(conns'[d])
  BY <1>5, <1>6, <1>12 DEF RowsOK, Stored
<1>15. RowsOK'
  BY <1>5, <1>6, <1>13, <1>14 DEF RowsOK
<1>16. PoolsOK' /\ served' \in 0..MaxRequests /\ faults' \in 0..MaxFaults
  BY <1>5, <1>6 DEF PoolsOK, TypeOK
<1>17. TypeOK'
  BY <1>11, <1>15, <1>16, TypeParts DEF TypeOK, RowsOK, PoolsOK
<1>18. OnlyAt(r, c)
  BY <1>3, <1>5, <1>9, <1>11, <1>12 DEF OnlyAt
<1>19. KindAt(r, c)
  BY <1>3 DEF KindAt
<1>20. \A x \in Requests \ {r} : req'[x].conn # c
  BY <1>4, <1>11 DEF Apart, Same
<1>21. Creates(r)'
  BY <1>4, <1>5, <1>8, <1>9, <1>11, <1>12, <1>20 DEF Creates, Secluded, Stored
<1>22. Fine(c)'
  <2>1. row.type = "plain" => row.host \in Hosts
    BY <1>1, <1>7 DEF Knows
  <2>2. req'[r].conn = c /\ req'[r].op = "create"
    BY <1>9, <1>11
  <2>3. QED
    BY <1>12, <2>1, <2>2 DEF Fine
<1>23. QED
  BY <1>2, <1>10, <1>11, <1>17, <1>18, <1>19, <1>21, <1>22, StepKeepsInv

LEMMA KeepsRemove ==
  ASSUME Inv, NEW r \in Requests, Remove(r)
  PROVE  Inv'
<1>1. req[r].pc = "remove" /\ Knows(req[r])
  BY ReqTypes DEF Remove, At
<1>2. PICK c \in ConnIds : req[r].conn = c
  BY <1>1, ReqTypes
<1>3. /\ conns' = [conns EXCEPT ![c] = Gone] /\ rights' = [rights EXCEPT ![c] = None] /\ Goes(r, Idle)
      /\ agents' = [a \in Tokens |-> IF a \in AgentsOf(c) THEN Gone ELSE agents[a]]
      /\ UNCHANGED <<issued, broken, clock, served, faults, knexCache, tunnelCache, driverCache, pools>>
  BY <1>2 DEF Remove, Ends, cacheVars
<1>4. TypeOK /\ RowsOK /\ PoolsOK
  BY TypeParts DEF Inv
<1>5. Idle \in ReqOf /\ Knows(Idle) /\ Idle.op = None /\ Idle.conn = None /\ None # "create"
  BY IdleKnows, NoneIsNoOp DEF Ops
<1>6. req' \in [Requests -> ReqOf] /\ req'[r] = Idle /\ Apart(r)
  BY <1>3, <1>4, <1>5, GoesTypes
<1>7. /\ conns'[c] = Gone /\ rights'[c] = None
      /\ \A d \in ConnIds \ {c} : conns'[d] = conns[d] /\ rights'[d] = rights[d]
  BY <1>3, <1>4 DEF RowsOK
<1>8. \A d \in ConnIds : rights'[d] # None => Stored(conns'[d])
  BY <1>4, <1>7 DEF RowsOK, Stored
<1>9. /\ conns' \in [ConnIds -> RowOf \union {None, Gone}] /\ rights' \in [ConnIds -> {None, 0, 1, 2}]
      /\ agents' \in [Tokens -> AgentOf \union {None, Gone}]
  BY <1>3, <1>4 DEF RowsOK
<1>10. RowsOK'
  BY <1>3, <1>4, <1>8, <1>9 DEF RowsOK
<1>11. PoolsOK' /\ served' \in 0..MaxRequests /\ faults' \in 0..MaxFaults
  BY <1>3, <1>4 DEF PoolsOK, TypeOK
<1>12. TypeOK'
  BY <1>6, <1>10, <1>11, TypeParts DEF TypeOK, RowsOK, PoolsOK
<1>13. OnlyAt(r, c)
  BY <1>3, <1>5, <1>6, <1>7 DEF OnlyAt
<1>14. KindAt(r, c)
  BY <1>7 DEF KindAt, Stored
<1>15. Creates(r)'
  BY <1>5, <1>6 DEF Creates
<1>16. Fine(c)'
  BY <1>7 DEF Fine, Stored
<1>17. QED
  BY <1>2, <1>5, <1>6, <1>12, <1>13, <1>14, <1>15, <1>16, StepKeepsInv

LEMMA KeepsAddGroup ==
  ASSUME Inv, NEW r \in Requests, AddGroup(r)
  PROVE  Inv'
<1>1. req[r] \in ReqOf /\ Knows(req[r]) /\ Creates(r) /\ req[r].pc = "group"
  BY ReqTypes DEF AddGroup, At
<1>2. PICK c \in ConnIds : req[r].conn = c
  BY <1>1, ReqTypes
<1>3. req[r].op = "create"
  BY <1>1 DEF Knows
<1>4. Stored(conns[c]) /\ \A x \in Requests \ {r} : req[x].conn # c
  BY <1>1, <1>2, <1>3 DEF Creates, Secluded
<1> DEFINE q == [req[r] EXCEPT !.pc = "permissions"]
<1>5. /\ rights' = [rights EXCEPT ![c] = 0] /\ Goes(r, q)
      /\ UNCHANGED <<conns, agents, issued, broken, clock, served, faults, knexCache, tunnelCache, driverCache, pools>>
  BY <1>2 DEF AddGroup, cacheVars
<1>6. TypeOK /\ RowsOK /\ PoolsOK
  BY TypeParts DEF Inv
<1>7. q \in ReqOf /\ q.op = "create" /\ q.conn = c /\ q.pc = "permissions" /\ q.copy = req[r].copy
  BY <1>1, <1>2, <1>3 DEF ReqOf, Places
<1> HIDE DEF q
<1>8. Knows(q)
  BY <1>1, <1>2, <1>3, <1>7 DEF Knows, Rowless
<1>9. req' \in [Requests -> ReqOf] /\ req'[r] = q /\ Apart(r)
  BY <1>5, <1>6, <1>7, GoesTypes
<1>10. rights'[c] = 0 /\ \A d \in ConnIds \ {c} : rights'[d] = rights[d]
  BY <1>5, <1>6 DEF RowsOK
<1>11. rights' \in [ConnIds -> {None, 0, 1, 2}]
  BY <1>5, <1>6 DEF RowsOK
<1>12. \A d \in ConnIds : rights'[d] # None => Stored(conns'[d])
  BY <1>4, <1>5, <1>6, <1>10 DEF RowsOK, Stored
<1>13. RowsOK'
  BY <1>5, <1>6, <1>11, <1>12 DEF RowsOK
<1>14. PoolsOK' /\ served' \in 0..MaxRequests /\ faults' \in 0..MaxFaults
  BY <1>5, <1>6 DEF PoolsOK, TypeOK
<1>15. TypeOK'
  BY <1>9, <1>13, <1>14, TypeParts DEF TypeOK, RowsOK, PoolsOK
<1>16. OnlyAt(r, c)
  BY <1>3, <1>5, <1>7, <1>9, <1>10 DEF OnlyAt
<1>17. KindAt(r, c)
  BY <1>3 DEF KindAt
<1>18. \A x \in Requests \ {r} : req'[x].conn # c
  BY <1>4, <1>9 DEF Apart, Same
<1>19. Creates(r)'
  BY <1>7, <1>9, <1>10, <1>18 DEF Creates, Secluded
<1>20. Fine(c)'
  <2>1. Fine(c) /\ conns' = conns
    BY <1>5 DEF Inv
  <2>2. req'[r].conn = c /\ req'[r].op = "create"
    BY <1>7, <1>9
  <2>3. QED
    BY <2>1, <2>2 DEF Fine, Stored
<1>21. QED
  BY <1>2, <1>8, <1>9, <1>15, <1>16, <1>17, <1>19, <1>20, StepKeepsInv

LEMMA KeepsAddPermission ==
  ASSUME Inv, NEW r \in Requests, AddPermission(r)
  PROVE  Inv'
<1>1. req[r] \in ReqOf /\ Knows(req[r]) /\ Creates(r) /\ req[r].pc = "permissions"
  BY ReqTypes DEF AddPermission, At
<1>2. PICK c \in ConnIds : req[r].conn = c
  BY <1>1, ReqTypes
<1>3. req[r].op = "create"
  BY <1>1 DEF Knows
<1>4. TypeOK /\ RowsOK /\ PoolsOK
  BY TypeParts DEF Inv
<1>5. /\ rights[c] # None /\ rights' = [rights EXCEPT ![c] = @ + 1]
      /\ IF rights[c] = 0 THEN UNCHANGED req ELSE Answers(r)
      /\ UNCHANGED <<conns, agents, issued, broken, clock, served, faults, knexCache, tunnelCache, driverCache, pools>>
  BY <1>2 DEF AddPermission, cacheVars
<1>6. /\ rights[c] # 2 /\ Stored(conns[c])
      /\ \A x \in Requests \ {r} : req[x].conn = c => req[x].op # "create"
  BY <1>1, <1>2, <1>3, <1>4, <1>5 DEF Creates, RowsOK
<1>7. rights[c] \in {0, 1}
  BY <1>4, <1>5, <1>6 DEF RowsOK
<1>8. /\ rights'[c] = rights[c] + 1 /\ rights'[c] \in {1, 2}
      /\ \A d \in ConnIds \ {c} : rights'[d] = rights[d]
  BY <1>4, <1>5, <1>7 DEF RowsOK
<1>9. \E q \in ReqOf : /\ Goes(r, q) /\ Knows(q)
                       /\ \/ q = req[r] /\ rights'[c] = 1
                          \/ /\ rights'[c] = 2
                             /\ q = Idle \/ (q.op = req[r].op /\ q.conn = req[r].conn /\ q.pc = "answered")
  <2>1. CASE rights[c] = 0
    <3>1. Goes(r, req[r])
      BY <1>4, <1>5, <2>1 DEF Goes, TypeOK
    <3>2. QED
      BY <1>1, <1>8, <2>1, <3>1
  <2>2. CASE rights[c] = 1
    <3>1. Answers(r) /\ rights'[c] = 2
      BY <1>5, <1>8, <2>2
    <3>2. QED
      BY <1>1, <3>1, AnswersTypes
  <2>3. QED
    BY <1>7, <2>1, <2>2
<1>10. PICK q \in ReqOf : /\ Goes(r, q) /\ Knows(q)
                          /\ \/ q = req[r] /\ rights'[c] = 1
                             \/ /\ rights'[c] = 2
                                /\ q = Idle \/ (q.op = req[r].op /\ q.conn = req[r].conn /\ q.pc = "answered")
  BY <1>9
<1>11. req' \in [Requests -> ReqOf] /\ req'[r] = q /\ Apart(r)
  BY <1>4, <1>10, GoesTypes
<1>12. \A d \in ConnIds : rights'[d] # None => Stored(conns'[d])
  BY <1>4, <1>5, <1>6, <1>8 DEF RowsOK, Stored
<1>13. rights' \in [ConnIds -> {None, 0, 1, 2}]
  BY <1>4, <1>5, <1>8 DEF RowsOK
<1>14. RowsOK'
  BY <1>4, <1>5, <1>12, <1>13 DEF RowsOK
<1>15. PoolsOK' /\ served' \in 0..MaxRequests /\ faults' \in 0..MaxFaults
  BY <1>4, <1>5 DEF PoolsOK, TypeOK
<1>16. TypeOK'
  BY <1>11, <1>14, <1>15, TypeParts DEF TypeOK, RowsOK, PoolsOK
<1>17. OnlyAt(r, c)
  BY <1>2, <1>5, <1>8, <1>10, <1>11, IdleKnows DEF OnlyAt
<1>18. KindAt(r, c)
  BY <1>3 DEF KindAt
<1>19. Creates(r)'
  <2>1. \A x \in Requests \ {r} : req'[x].conn = c => req'[x].op # "create"
    BY <1>6, <1>11 DEF Apart, Same
  <2>2. CASE q = req[r] /\ rights'[c] = 1
    BY <1>1, <1>2, <1>11, <2>1, <2>2 DEF Creates
  <2>3. CASE q = Idle
    BY <1>11, <2>3, IdleKnows, NoneIsNoOp DEF Creates, Ops
  <2>4. CASE rights'[c] = 2 /\ q.op = req[r].op /\ q.conn = req[r].conn /\ q.pc = "answered"
    BY <1>2, <1>11, <2>1, <2>4 DEF Creates
  <2>5. QED
    BY <1>10, <2>2, <2>3, <2>4
<1>20. Fine(c)'
  <2>1. Fine(c) /\ conns' = conns
    BY <1>5 DEF Inv
  <2>2. rights'[c] = 2 \/ (req'[r].conn = c /\ req'[r].op = "create")
    BY <1>2, <1>3, <1>10, <1>11
  <2>3. QED
    BY <2>1, <2>2 DEF Fine, Stored
<1>21. QED
  BY <1>2, <1>10, <1>11, <1>16, <1>17, <1>18, <1>19, <1>20, StepKeepsInv

LEMMA KeepsSave ==
  ASSUME Inv, NEW r \in Requests, Save(r)
  PROVE  Inv'
<1>1. req[r] \in ReqOf /\ Knows(req[r]) /\ req[r].pc = "save"
  BY ReqTypes DEF Save, At
<1>2. PICK c \in ConnIds : req[r].conn = c
  BY <1>1, ReqTypes
<1>3. /\ req[r].op \in Ops \ {"create", "delete", "refresh"}
      /\ req[r].copy \in CopyOf /\ req[r].copy.type \in Types
  BY <1>1, NoneIsNoOp DEF Knows, Rowless, ReqOf
<1> DEFINE copy == req[r].copy
           row == [Bare(copy) EXCEPT !.ver = clock + 1]
<1>4. TypeOK /\ RowsOK /\ PoolsOK /\ clock + 1 \in Nat
  BY TypeParts DEF Inv, RowsOK
<1>5. /\ Bare(copy) \in RowOf /\ Bare(copy).type = copy.type /\ Bare(copy).host = copy.host
      /\ row \in RowOf /\ row.type = copy.type /\ row.host = copy.host
  BY <1>3, <1>4, BareTypes
<1>6. /\ conns' = [conns EXCEPT ![c] = IF @ = Bare(copy) THEN @ ELSE row]
      /\ clock' = IF conns' = conns THEN clock ELSE clock + 1
      /\ agents' = SavedLink(c, copy.agent)
      /\ broken' = IF Stored(conns[c]) THEN broken ELSE [broken EXCEPT ![c] = @ \union {"saved again"}]
      /\ Answers(r)
      /\ UNCHANGED <<rights, issued, served, faults, knexCache, tunnelCache, driverCache, pools>>
  BY <1>2 DEF Save, SavedConn, cacheVars
<1>7. copy.agent \in Tokens \union {None, Undefined}
  BY <1>3 DEF CopyOf
<1> HIDE DEF copy, row
<1>8. /\ conns'[c] \in RowOf /\ conns'[c].type = copy.type /\ conns'[c].host = copy.host
      /\ \A d \in ConnIds \ {c} : conns'[d] = conns[d]
      /\ conns' \in [ConnIds -> RowOf \union {None, Gone}]
  BY <1>4, <1>5, <1>6 DEF RowsOK
<1>9. clock' \in Nat
  BY <1>4, <1>6 DEF RowsOK
<1>10. agents' \in [Tokens -> AgentOf \union {None, Gone}]
  <2>1. \A x \in Tokens : Stored(agents[x]) => agents[x] \in AgentOf
    BY <1>4 DEF RowsOK, Stored
  <2>2. \A x \in Tokens : Stored(agents[x]) =>
          [agents[x] EXCEPT !.conn = None] \in AgentOf /\ [agents[x] EXCEPT !.conn = c] \in AgentOf
    BY <2>1 DEF AgentOf
  <2>3. QED
    BY <1>4, <1>6, <2>2 DEF SavedLink, RowsOK
<1>11. /\ broken' \in [ConnIds -> SUBSET Causes] /\ broken[c] \subseteq broken'[c]
       /\ \A d \in ConnIds \ {c} : broken'[d] = broken[d]
       /\ Stored(conns[c]) \/ broken'[c] # {}
  BY <1>4, <1>6 DEF RowsOK, Causes
<1>12. Stored(conns'[c])
  BY <1>8, RowIsStored
<1>13. \A d \in ConnIds : rights'[d] # None => Stored(conns'[d])
  BY <1>4, <1>6, <1>8, <1>12 DEF RowsOK, Stored
<1>14. RowsOK'
  BY <1>4, <1>6, <1>8, <1>9, <1>10, <1>11, <1>13 DEF RowsOK
<1>15. PoolsOK' /\ served' \in 0..MaxRequests /\ faults' \in 0..MaxFaults
  BY <1>4, <1>6 DEF PoolsOK, TypeOK
<1>16. PICK q \in ReqOf : /\ Goes(r, q) /\ Knows(q)
                          /\ q = Idle \/ (q.op = req[r].op /\ q.conn = req[r].conn /\ q.pc = "answered")
  BY <1>1, <1>6, AnswersTypes
<1>17. req' \in [Requests -> ReqOf] /\ req'[r] = q /\ Apart(r)
  BY <1>4, <1>16, GoesTypes
<1>18. TypeOK'
  BY <1>14, <1>15, <1>17, TypeParts DEF TypeOK, RowsOK, PoolsOK
<1>19. OnlyAt(r, c)
  BY <1>2, <1>6, <1>8, <1>11, <1>16, <1>17, IdleKnows DEF OnlyAt
<1>20. KindAt(r, c)
  BY <1>6, <1>11, <1>12 DEF KindAt
<1>21. Creates(r)'
  BY <1>3, <1>16, <1>17, IdleKnows, NoneIsNoOp DEF Creates, Ops
<1>22. Fine(c)'
  <2>1. conns'[c].type = "plain" => conns'[c].host \in Hosts
    BY <1>1, <1>8 DEF Knows, copy
  <2>2. CASE Stored(conns[c])
    <3>1. rights[c] = 2 \/ broken[c] # {} \/ \E x \in Requests : req[x].conn = c /\ req[x].op = "create"
      BY <2>2 DEF Inv, Fine
    <3>2. \A x \in Requests : req[x].op = "create" => req'[x].op = "create" /\ req'[x].conn = req[x].conn
      BY <1>3, <1>17 DEF Apart, Same
    <3>3. QED
      BY <1>6, <1>11, <2>1, <3>1, <3>2 DEF Fine
  <2>3. CASE ~Stored(conns[c])
    BY <1>11, <2>1, <2>3 DEF Fine
  <2>4. QED
    BY <2>2, <2>3
<1>23. QED
  BY <1>2, <1>16, <1>17, <1>18, <1>19, <1>20, <1>21, <1>22, StepKeepsInv

(***************************************************************************)
(* Evictions touch the caches and the pools only.                          *)
(***************************************************************************)
LEMMA CachesKeepInv ==
  ASSUME Inv, UNCHANGED <<rowVars, req, served>>, PoolsOK', faults' \in 0..MaxFaults
  PROVE  Inv'
<1>1. UNCHANGED <<conns, agents, rights, issued, broken, clock, req, served>>
  BY DEF rowVars
<1>2. RowsOK /\ TypeOK
  BY TypeParts DEF Inv
<1>3. RowsOK'
  BY <1>1, <1>2 DEF RowsOK, Stored
<1>4. TypeOK'
  BY <1>1, <1>2, <1>3, TypeParts DEF TypeOK, RowsOK, PoolsOK
<1>5. \A r \in Requests : Knows(req'[r]) /\ Creates(r)'
  BY <1>1 DEF Inv, Creates, Secluded, Stored
<1>6. \A c \in ConnIds : Fine(c)'
  BY <1>1 DEF Inv, Fine, Stored
<1>7. QED
  BY <1>4, <1>5, <1>6 DEF Inv

LEMMA ClosedTypes ==
  ASSUME PoolsOK, NEW p \in Ports, pools[p] # None
  PROVE  /\ [pools EXCEPT ![p].open = FALSE] \in [Ports -> PoolOf \union {None}]
         /\ \A x \in Ports : pools[x] # None => [pools EXCEPT ![p].open = FALSE][x] # None
<1> DEFINE row == [pools[p] EXCEPT !.open = FALSE]
<1>1. row \in PoolOf
  BY DEF PoolsOK, PoolOf
<1>2. None \notin PoolOf
  BY DistinctValues
<1>3. [pools EXCEPT ![p].open = FALSE] = [pools EXCEPT ![p] = row]
  OBVIOUS
<1> HIDE DEF row
<1>4. QED
  BY <1>1, <1>2, <1>3 DEF PoolsOK

\* Entries leave, and no pool is forgotten.
LEMMA FewerEntries ==
  ASSUME PoolsOK, pools' \in [Ports -> PoolOf \union {None}],
         \A x \in Ports : pools[x] # None => pools'[x] # None,
         knexCache' \subseteq knexCache, tunnelCache' \subseteq tunnelCache, driverCache' \subseteq driverCache
  PROVE  PoolsOK'
BY DEF PoolsOK, Entries

LEMMA FaultsCount ==
  ASSUME Inv, faults < MaxFaults, faults' = faults + 1
  PROVE  faults' \in 0..MaxFaults
BY DistinctValues DEF Inv, TypeOK

LEMMA KeepsEvict ==
  ASSUME Inv, Evict
  PROVE  Inv'
<1>1. PICK e \in knexCache : knexCache' = knexCache \ {e} /\ pools' = [pools EXCEPT ![e.pool].open = FALSE]
  BY DEF Evict
<1>2. UNCHANGED <<rowVars, tunnelCache, driverCache, req, served>> /\ faults' \in 0..MaxFaults
  BY FaultsCount DEF Evict
<1>3. PoolsOK
  BY TypeParts DEF Inv
<1>4. e.pool \in Ports /\ pools[e.pool] # None
  BY <1>3 DEF PoolsOK, Entries
<1> DEFINE p == e.pool
<1>5. /\ pools' \in [Ports -> PoolOf \union {None}]
      /\ \A x \in Ports : pools[x] # None => pools'[x] # None
  BY <1>1, <1>3, <1>4, ClosedTypes
<1>6. PoolsOK'
  BY <1>1, <1>2, <1>3, <1>5, FewerEntries
<1>7. QED
  BY <1>2, <1>6, CachesKeepInv

LEMMA KeepsEvictTunnel ==
  ASSUME Inv, EvictTunnel
  PROVE  Inv'
<1>1. UNCHANGED <<rowVars, pools, knexCache, driverCache, req, served>> /\ faults' \in 0..MaxFaults
  BY FaultsCount DEF EvictTunnel
<1>2. tunnelCache' \subseteq tunnelCache
  BY DEF EvictTunnel
<1>3. PoolsOK
  BY TypeParts DEF Inv
<1>4. PoolsOK'
  BY <1>1, <1>2, <1>3 DEF PoolsOK
<1>5. QED
  BY <1>1, <1>4, CachesKeepInv

LEMMA KeepsEvictDriver ==
  ASSUME Inv, EvictDriver
  PROVE  Inv'
<1>1. UNCHANGED <<rowVars, pools, knexCache, tunnelCache, req, served>> /\ faults' \in 0..MaxFaults
  BY FaultsCount DEF EvictDriver
<1>2. driverCache' \subseteq driverCache
  BY DEF EvictDriver
<1>3. PoolsOK
  BY TypeParts DEF Inv
<1>4. PoolsOK'
  BY <1>1, <1>2, <1>3 DEF PoolsOK
<1>5. QED
  BY <1>1, <1>4, CachesKeepInv

LEMMA KeepsDriverCloses ==
  ASSUME Inv, DriverCloses
  PROVE  Inv'
<1>1. PICK p \in Ports : /\ pools[p] # None /\ pools' = [pools EXCEPT ![p].open = FALSE]
                         /\ driverCache' = {e \in driverCache : e.key # pools[p].key}
  BY DEF DriverCloses
<1>2. UNCHANGED <<rowVars, knexCache, tunnelCache, req, served>> /\ faults' \in 0..MaxFaults
  BY FaultsCount DEF DriverCloses
<1>3. PoolsOK
  BY TypeParts DEF Inv
<1>4. /\ pools' \in [Ports -> PoolOf \union {None}]
      /\ \A x \in Ports : pools[x] # None => pools'[x] # None
  BY <1>1, <1>3, ClosedTypes
<1>5. driverCache' \subseteq driverCache
  BY <1>1
<1>6. PoolsOK'
  BY <1>2, <1>3, <1>4, <1>5, FewerEntries
<1>7. QED
  BY <1>2, <1>6, CachesKeepInv

(***************************************************************************)
(* The invariant holds at first and is kept by every step.                 *)
(***************************************************************************)
LEMMA InitInv == Init => Inv
<1> SUFFICES ASSUME Init PROVE Inv
  OBVIOUS
<1>1. \A c \in ConnIds : conns[c] = None \/ (conns[c] \in RowOf /\ conns[c].host \in Hosts)
  <2>1. PICK type \in Types, host \in Hosts, shown \in SUBSET ConnIds :
          conns = [c \in ConnIds |-> IF c \notin shown THEN None
                                     ELSE [type |-> type, host |-> host, listed |-> FALSE, ver |-> 0]]
    BY DEF Init
  <2> DEFINE row == [type |-> type, host |-> host, listed |-> FALSE, ver |-> 0]
  <2>2. row \in RowOf /\ row.host \in Hosts
    BY DEF RowOf
  <2> HIDE DEF row
  <2>3. conns = [c \in ConnIds |-> IF c \notin shown THEN None ELSE row]
    BY <2>1 DEF row
  <2>4. QED
    BY <2>2, <2>3
<1>2. conns \in [ConnIds -> RowOf \union {None, Gone}]
  <2>1. conns = [c \in ConnIds |-> conns[c]]
    BY DEF Init
  <2>2. QED
    BY <1>1, <2>1
<1>3. rights \in [ConnIds -> {None, 0, 1, 2}] /\ \A c \in ConnIds : rights[c] # None => conns[c] # None /\ rights[c] = 2
  BY DEF Init
<1>4. \A c \in ConnIds : rights[c] = (IF conns[c] = None THEN None ELSE 2)
  BY DEF Init
<1>5. \A c \in ConnIds : rights[c] # None => Stored(conns[c])
  BY <1>1, <1>3, RowIsStored
<1>6. RowsOK
  BY <1>2, <1>3, <1>5 DEF Init, RowsOK, Causes
<1>7. PoolsOK
  BY DEF Init, PoolsOK
<1>8. req \in [Requests -> ReqOf] /\ \A r \in Requests : req[r] = Idle
  BY IdleKnows DEF Init
<1>9. served \in 0..MaxRequests /\ faults \in 0..MaxFaults
  BY DistinctValues DEF Init
<1>10. TypeOK
  BY <1>6, <1>7, <1>8, <1>9, TypeParts
<1>11. \A r \in Requests : Knows(req[r]) /\ Creates(r)
  BY <1>8, IdleKnows, NoneIsNoOp DEF Creates, Ops
<1>12. \A c \in ConnIds : Fine(c)
  BY <1>1, <1>4 DEF Fine, Stored
<1>13. QED
  BY <1>10, <1>11, <1>12 DEF Inv

LEMMA HandleKeepsInv ==
  ASSUME Inv, NEW r \in Requests, Handle(r)
  PROVE  Inv'
BY KeepsCreate, KeepsUpdate, KeepsRestore, KeepsUpdateMasterPwd, KeepsDelete, KeepsRefreshToken, KeepsQueries,
   KeepsInsert, KeepsAddGroup, KeepsAddPermission, KeepsGroupIsGone, KeepsFindAgent, KeepsFindConn,
   KeepsCreateAgent, KeepsRenewAgent, KeepsAgentIsRefused, KeepsSave, KeepsLinkIsRefused, KeepsRemove, KeepsLeave,
   KeepsCachedKnex, KeepsNewKnex, KeepsCachedTunnel, KeepsStartTunnel, KeepsCachedDriver, KeepsStartDriver,
   KeepsDriverIsUp, KeepsTunnelIsUp, KeepsTunnelFails, KeepsQuery, KeepsPoolIsClosed, KeepsStatementFails
DEF Handle

LEMMA NextKeepsInv == Inv /\ [Next]_vars => Inv'
<1> SUFFICES ASSUME Inv, [Next]_vars PROVE Inv'
  OBVIOUS
<1>1. CASE UNCHANGED vars
  <2>1. UNCHANGED <<rowVars, req, served, faults, pools, knexCache, tunnelCache, driverCache>>
    BY <1>1 DEF vars, cacheVars
  <2>2. PoolsOK
    BY TypeParts DEF Inv
  <2>3. PoolsOK'
    BY <2>1, <2>2 DEF PoolsOK
  <2>4. QED
    BY <2>1, <2>3, SameFaults, CachesKeepInv
<1>2. ASSUME NEW r \in Requests, Handle(r) PROVE Inv'
  BY <1>2, HandleKeepsInv
<1>3. QED
  BY <1>1, <1>2, KeepsEvict, KeepsEvictTunnel, KeepsEvictDriver, KeepsDriverCloses DEF Next

LEMMA AlwaysInv == Spec => []Inv
BY InitInv, NextKeepsInv, PTL DEF Spec

\* Rows, requests, caches and pools keep their types, a group goes with its
\* connection, and what is cached was opened, whatever overlaps and fails.
THEOREM ConnectionsTypeCorrect == Spec => []TypeOK
<1>1. Inv => TypeOK
  BY DEF Inv
<1>2. QED
  BY <1>1, AlwaysInv, PTL

\* A stored connection without its complete Admin group is being created, or
\* was left by a creation that failed or by a save after its removal: no other
\* order of handlers leaves one behind.
THEOREM OrphansAlwaysHaveACause == Spec => []OrphansHaveACause
<1>1. Inv => OrphansHaveACause
  BY DEF Inv, Fine, OrphansHaveACause
<1>2. QED
  BY <1>1, AlwaysInv, PTL

\* The local end of a tunnel is never saved as the address of a database that
\* is reached directly, whoever saves a copy and when.
THEOREM DirectHostsWereAlwaysEntered == Spec => []DirectHostsWereEntered
<1>1. Inv => DirectHostsWereEntered
  BY DEF Inv, Fine, DirectHostsWereEntered
<1>2. QED
  BY <1>1, AlwaysInv, PTL

(***************************************************************************)
(* What is cached, and where it leads.  A version of a connection that is  *)
(* stored, or that a request read which queries, names one host, and each  *)
(* pool that is cached under this version leads to that host, or, when     *)
(* something failed, to the local end of a tunnel that led there.          *)
(***************************************************************************)
Asks(q)  == q.op \in {"rows", "tables", "properties"}
Kind(e)  == e.key[2].type
Leads(p, type, host) == pools[p].to = host \/ (type = "ssh" /\ faults > 0 /\ pools[p].to \in Ports)
AllCached == knexCache \union tunnelCache \union driverCache

\* A port that is being opened is nobody else's.
Opening(q)  == q.pc \in {"tunnel", "driver"}
OwnsPort(r) ==
  Opening(req[r]) => pools[req[r].port] = None /\ \A x \in Requests \ {r} : req[x].port # req[r].port

\* A knex that is not behind a tunnel has its pool for itself.
CachesFit ==
  /\ \A e \in knexCache :
       /\ Kind(e) \in {"plain", "ssh"} /\ pools[e.pool].key = None
       /\ pools[e.pool].open \/ (Kind(e) = "ssh" /\ faults > 0)
       /\ \A f \in knexCache \union tunnelCache : f.pool = e.pool /\ Kind(e) # "ssh" => f = e
  /\ \A e \in tunnelCache :
       Kind(e) = "ssh" /\ pools[e.pool].key = None /\ (pools[e.pool].open \/ faults > 0)
  /\ \A e \in driverCache : Kind(e) = "mysql_ssh" /\ pools[e.pool].open /\ pools[e.pool].key = e.key
  /\ \A p \in Ports :
       pools[p] # None /\ pools[p].open /\ pools[p].key = None => \E e \in knexCache : e.pool = p

\* A request whose copy does not hold the host it read has tunnelled, and its
\* tunnel is cached under the copy as it is now, unless it was evicted.
Bent(q) ==
  /\ q.copy.type = "ssh" /\ q.copy.host \in Ports
  /\ faults > 0 \/ (q.pc \in {"dao", "query"} /\ \E e \in knexCache : e.key = Key(q))
Reaches(q) ==
  /\ q.pc \in AtPool => Asks(q) /\ (q.copy.host = q.read \/ Bent(q))
  /\ q.pc = "driver" => q.copy.type = "mysql_ssh"
  /\ q.pc = "query" => pools[q.port] # None /\ Leads(q.port, q.copy.type, q.read)

RowSays(c, v, h)     == Stored(conns[c]) /\ conns[c].ver = v /\ conns[c].host = h
ReadSays(q, c, v, h) == Asks(q) /\ q.conn = c /\ q.copy.ver = v /\ q.read = h
Says(c, v, h)        == RowSays(c, v, h) \/ \E r \in Requests : ReadSays(req[r], c, v, h)
VersionsFit ==
  /\ \A c \in ConnIds, v \in Nat, h \in EndOf : Says(c, v, h) => v <= clock
  /\ \A c \in ConnIds, v \in Nat, h, g \in EndOf : Says(c, v, h) /\ Says(c, v, g) => h = g
  /\ \A e \in AllCached :
       /\ e.key[2].ver <= clock
       /\ \A h \in EndOf : Says(e.key[1], e.key[2].ver, h) => Leads(e.pool, Kind(e), h)

PoolInv == CachesFit /\ VersionsFit /\ \A r \in Requests : OwnsPort(r) /\ Reaches(req[r])

(***************************************************************************)
(* Pools are opened and never taken away, and nothing is evicted without a *)
(* fault being counted.                                                    *)
(***************************************************************************)
PoolsGrow ==
  /\ \A p \in Ports : pools[p] # None => pools'[p] # None /\ pools'[p].to = pools[p].to
  /\ faults' \in Nat /\ faults' >= faults
  /\ knexCache \subseteq knexCache' \/ faults' > 0
Alike(q, p)     == /\ q.op = p.op /\ q.pc = p.pc /\ q.conn = p.conn
                   /\ q.copy = p.copy /\ q.read = p.read /\ q.port = p.port
OthersAlike(r)  == \A x \in Requests \ {r} : Alike(req'[x], req[x])
\* Only the port of r may be opened, and it is not one that another opens.
OnlyOpens(r) ==
  /\ \A x \in Requests \ {r} : Opening(req[x]) => req[x].port # req'[r].port
  /\ \A p \in Ports \ {req'[r].port} : pools[p] = None => pools'[p] = None

LEMMA LeadsOn ==
  ASSUME Inv, PoolsGrow, NEW p \in Ports, pools[p] # None, NEW type, NEW host, Leads(p, type, host)
  PROVE  Leads(p, type, host)'
<1>1. faults \in Nat /\ faults' \in Nat /\ faults' >= faults
  BY DistinctValues DEF Inv, TypeOK, PoolsGrow
<1>2. pools'[p].to = pools[p].to
  BY DEF PoolsGrow
<1>3. faults > 0 => faults' > 0
  BY <1>1
<1>4. QED
  BY <1>2, <1>3 DEF Leads

LEMMA ReachesOn ==
  ASSUME Inv, PoolsGrow, NEW q \in ReqOf, Knows(q), Reaches(q)
  PROVE  Reaches(q)'
<1>1. faults \in Nat /\ faults' \in Nat /\ faults' >= faults
  BY DistinctValues DEF Inv, TypeOK, PoolsGrow
<1>2. faults > 0 => faults' > 0
  BY <1>1
<1>3. Bent(q) => Bent(q)'
  BY <1>2 DEF Bent, PoolsGrow
<1>4. ASSUME q.pc = "query" PROVE pools'[q.port] # None /\ Leads(q.port, q.copy.type, q.read)'
  <2>1. q.port \in Ports /\ pools[q.port] # None /\ Leads(q.port, q.copy.type, q.read)
    BY <1>4 DEF Knows, Reaches
  <2>2. QED
    BY <2>1, LeadsOn DEF PoolsGrow
<1>5. QED
  BY <1>3, <1>4 DEF Reaches, Asks

LEMMA OthersReach ==
  ASSUME Inv, PoolInv, NEW r \in Requests, PoolsGrow, OthersAlike(r), NEW x \in Requests \ {r}
  PROVE  Reaches(req[x])'
<1>1. PICK q \in ReqOf : q = req[x] /\ Knows(q) /\ Reaches(q)
  BY ReqTypes DEF PoolInv
<1>2. Reaches(q)'
  BY <1>1, ReachesOn
<1>3. Alike(req'[x], q)
  BY <1>1 DEF OthersAlike
<1>4. QED
  BY <1>2, <1>3 DEF Alike, Reaches, Bent, Asks, Key

LEMMA OthersOwn ==
  ASSUME Inv, PoolInv, NEW r \in Requests, OnlyOpens(r), OthersAlike(r), NEW x \in Requests \ {r}
  PROVE  OwnsPort(x)'
<1> SUFFICES ASSUME Opening(req'[x]) PROVE OwnsPort(x)'
  BY DEF OwnsPort
<1>1. req'[x].port = req[x].port /\ Opening(req[x])
  BY DEF OthersAlike, Alike, Opening
<1>2. pools[req[x].port] = None /\ \A y \in Requests \ {x} : req[y].port # req[x].port
  BY <1>1 DEF PoolInv, OwnsPort
<1>3. req[x].port \in Ports
  BY <1>1, ReqTypes DEF Knows, Opening
<1>4. req'[r].port # req[x].port /\ pools'[req[x].port] = None
  BY <1>1, <1>2, <1>3 DEF OnlyOpens
<1>5. \A y \in Requests \ {x, r} : req'[y].port = req[y].port
  BY DEF OthersAlike, Alike
<1>6. QED
  BY <1>1, <1>2, <1>4, <1>5 DEF OwnsPort

(***************************************************************************)
(* Versions.  A step writes at most one row, of connection c with host h,  *)
(* under a version that is above all others.                               *)
(***************************************************************************)
WritesAtMost(c, h) ==
  /\ clock' \in Nat /\ clock' >= clock
  /\ \A d \in ConnIds : Stored(conns'[d]) =>
       \/ conns'[d] = conns[d]
       \/ d = c /\ conns'[d].ver = clock + 1 /\ conns'[d].host = h /\ clock' = clock + 1
\* What a request asks with was read before, or is read now.
AsksAsRead(r) ==
  Asks(req'[r]) => Says(req'[r].conn, req'[r].copy.ver, req'[r].read)

LEMMA SaysOn ==
  ASSUME NEW r \in Requests, OthersAlike(r), AsksAsRead(r), NEW c, NEW h, WritesAtMost(c, h),
         NEW d \in ConnIds, NEW v \in Nat, NEW g \in EndOf, Says(d, v, g)'
  PROVE  Says(d, v, g) \/ (d = c /\ v = clock + 1 /\ g = h /\ clock' = clock + 1)
<1>1. CASE RowSays(d, v, g)'
  BY <1>1 DEF RowSays, WritesAtMost, Stored, Says
<1>2. ASSUME NEW x \in Requests, ReadSays(req'[x], d, v, g) PROVE Says(d, v, g)
  <2>1. CASE x = r
    BY <1>2, <2>1 DEF AsksAsRead, ReadSays
  <2>2. CASE x # r
    BY <1>2, <2>2 DEF OthersAlike, Alike, ReadSays, Says, Asks
  <2>3. QED
    BY <2>1, <2>2
<1>3. QED
  BY <1>1, <1>2 DEF Says, ReadSays, Asks

\* An entry is as old as its version, and leads to what the version says.
EntryFits(e) ==
  /\ e.key[2].ver <= clock
  /\ \A h \in EndOf : Says(e.key[1], e.key[2].ver, h) => Leads(e.pool, Kind(e), h)

LEMMA VersionsOn ==
  ASSUME Inv, VersionsFit, PoolsGrow, NEW r \in Requests, OthersAlike(r), AsksAsRead(r),
         NEW c, NEW h, WritesAtMost(c, h),
         \A e \in AllCached' : e \in AllCached \/ EntryFits(e)'
  PROVE  VersionsFit'
<1>1. clock \in Nat /\ clock' \in Nat /\ clock' >= clock
  BY DEF Inv, TypeOK, WritesAtMost
<1>2. \A d \in ConnIds, v \in Nat, g \in EndOf :
        Says(d, v, g)' => Says(d, v, g) \/ (d = c /\ v = clock + 1 /\ g = h /\ clock' = clock + 1)
  BY SaysOn
<1>3. \A d \in ConnIds, v \in Nat, g \in EndOf : Says(d, v, g) => v <= clock
  BY DEF VersionsFit
<1>4. \A d \in ConnIds, v \in Nat, g \in EndOf : Says(d, v, g)' => v <= clock'
  BY <1>1, <1>2, <1>3
<1>5. ASSUME NEW d \in ConnIds, NEW v \in Nat, NEW g \in EndOf, NEW k \in EndOf, Says(d, v, g)', Says(d, v, k)'
      PROVE  g = k
  <2>1. CASE v = clock + 1
    <3>1. ~Says(d, v, g) /\ ~Says(d, v, k)
      BY <1>1, <1>3, <2>1
    <3>2. QED
      BY <1>2, <1>5, <3>1
  <2>2. CASE v # clock + 1
    <3>1. Says(d, v, g) /\ Says(d, v, k)
      BY <1>2, <1>5, <2>2
    <3>2. QED
      BY <3>1 DEF VersionsFit
  <2>3. QED
    BY <2>1, <2>2
<1>6. ASSUME NEW e \in AllCached' PROVE EntryFits(e)'
  <2>1. CASE e \in AllCached
    <3>1. e \in Entries /\ pools[e.pool] # None
      BY <2>1 DEF Inv, TypeOK, AllCached
    <3>2. e.key[1] \in ConnIds /\ e.key[2].ver \in Nat /\ e.pool \in Ports
      BY <3>1 DEF Entries, CopyOf
    <3>3. e.key[2].ver <= clock /\ \A g \in EndOf : Says(e.key[1], e.key[2].ver, g) => Leads(e.pool, Kind(e), g)
      BY <2>1 DEF VersionsFit
    <3>4. ASSUME NEW g \in EndOf, Says(e.key[1], e.key[2].ver, g)' PROVE Leads(e.pool, Kind(e), g)'
      <4>1. Says(e.key[1], e.key[2].ver, g)
        BY <1>1, <1>2, <3>2, <3>3, <3>4
      <4>2. QED
        BY <3>1, <3>2, <3>3, <4>1, LeadsOn
    <3>5. QED
      BY <1>1, <3>2, <3>3, <3>4 DEF EntryFits, Kind
  <2>2. CASE e \notin AllCached
    BY <1>6, <2>2
  <2>3. QED
    BY <2>1, <2>2
<1>7. QED
  BY <1>4, <1>5, <1>6 DEF VersionsFit, EntryFits

(***************************************************************************)
(* Steps that leave what is cached as it is: nothing is opened, and the    *)
(* request is not at a pool any more, or starts to query.                   *)
(***************************************************************************)
LEMMA CachesOn ==
  ASSUME Inv, CachesFit, UNCHANGED cacheVars, faults' \in Nat, faults' >= faults
  PROVE  CachesFit' /\ PoolsGrow
<1>1. faults \in Nat /\ (faults > 0 => faults' > 0)
  BY DistinctValues DEF Inv, TypeOK
<1>2. CachesFit'
  BY <1>1 DEF CachesFit, Kind, cacheVars
<1>3. PoolsGrow
  BY DEF PoolsGrow, cacheVars
<1>4. QED
  BY <1>2, <1>3

LEMMA CalmStep ==
  ASSUME Inv, PoolInv, UNCHANGED cacheVars, faults' \in Nat, faults' >= faults,
         NEW r \in Requests, OthersAlike(r), AsksAsRead(r), NEW c, NEW h, WritesAtMost(c, h),
         OnlyOpens(r), OwnsPort(r)', Reaches(req[r])'
  PROVE  PoolInv'
<1>1. CachesFit' /\ PoolsGrow
  BY CachesOn DEF PoolInv
<1>2. AllCached' = AllCached
  BY DEF AllCached, cacheVars
<1>3. VersionsFit'
  BY <1>1, <1>2, VersionsOn DEF PoolInv
<1>4. \A x \in Requests \ {r} : OwnsPort(x)' /\ Reaches(req[x])'
  BY <1>1, OthersOwn, OthersReach
<1>5. QED
  BY <1>1, <1>3, <1>4 DEF PoolInv

\* A request that is not about to query, or not any more, is as before or
\* holds no port.
Elsewhere == {"idle", "insert", "group", "permissions", "findAgent", "findConn", "createAgent", "renew",
              "save", "remove", "answered", "hung"}
LEMMA AwayStep ==
  ASSUME Inv, PoolInv, UNCHANGED cacheVars, faults' \in Nat, faults' >= faults,
         NEW r \in Requests, OthersAlike(r), NEW c, NEW h, WritesAtMost(c, h),
         req'[r].pc \in Elsewhere, req'[r].port \in {None, req[r].port}, AsksAsRead(r)
  PROVE  PoolInv'
<1>1. OwnsPort(r)' /\ Reaches(req[r])'
  BY DEF OwnsPort, Opening, Reaches, Elsewhere, AtPool
<1>2. \A x \in Requests \ {r} : Opening(req[x]) =>
        req[x].port # req[r].port /\ req[x].port \in Ports
  BY ReqTypes DEF PoolInv, OwnsPort, Knows, Opening
<1>3. OnlyOpens(r)
  BY <1>2, DistinctValues DEF OnlyOpens, cacheVars
<1>4. QED
  BY <1>1, <1>3, CalmStep

\* A request that goes on as q.
LEMMA AwayMove ==
  ASSUME Inv, PoolInv, UNCHANGED cacheVars, faults' \in Nat, faults' >= faults,
         NEW r \in Requests, NEW q, Goes(r, q), NEW c, NEW h, WritesAtMost(c, h),
         q.pc \in Elsewhere,
         q = Idle \/ (/\ q.port = req[r].port /\ q.op = req[r].op /\ q.conn = req[r].conn
                      /\ q.copy.ver = req[r].copy.ver /\ q.read = req[r].read)
  PROVE  PoolInv'
<1>1. req'[r] = q /\ \A x \in Requests \ {r} : req'[x] = req[x]
  BY DEF Goes, Inv, TypeOK
<1>2. OthersAlike(r)
  BY <1>1 DEF OthersAlike, Alike
<1>3. AsksAsRead(r)
  <2>1. CASE q = Idle
    BY <1>1, <2>1, DistinctValues DEF AsksAsRead, Asks, Idle, Ops
  <2>2. CASE q # Idle
    BY <1>1, <2>2 DEF AsksAsRead, Asks, Says, ReadSays
  <2>3. QED
    BY <2>1, <2>2
<1>4. q.port \in {None, req[r].port}
  BY DEF Idle
<1>5. QED
  BY <1>1, <1>2, <1>3, <1>4, AwayStep

\* Nothing is written.
LEMMA NothingWritten ==
  ASSUME Inv, UNCHANGED <<conns, clock>> \/ UNCHANGED rowVars
  PROVE  WritesAtMost(None, None)
BY DEF WritesAtMost, rowVars, Inv, TypeOK

LEMMA FaultsNat ==
  ASSUME Inv
  PROVE  faults \in Nat /\ (faults' = faults => faults' \in Nat /\ faults' >= faults)
         /\ (faults' = faults + 1 => faults' \in Nat /\ faults' >= faults)
BY DistinctValues DEF Inv, TypeOK

LEMMA StartAlike ==
  ASSUME Inv, NEW r \in Requests, NEW q \in ReqOf, Starts(r, q)
  PROVE  OthersAlike(r) /\ Alike(req'[r], q)
<1> DEFINE e == [q EXCEPT !.alone = Others(r, q.conn) = {}]
           f(x) == [req[x] EXCEPT !.alone = FALSE]
<1>1. Alike(e, q)
  BY DEF ReqOf, Alike
<1>2. \A x \in Requests : req[x] \in ReqOf
  BY DEF Inv, TypeOK
<1>3. \A x \in Requests : Alike(f(x), req[x]) /\ Alike(req[x], req[x])
  BY <1>2 DEF ReqOf, Alike
<1>4. req' = [x \in Requests |-> IF x = r THEN e ELSE IF x \in Others(r, q.conn) THEN f(x) ELSE req[x]]
  BY DEF Starts
<1> HIDE DEF e, f
<1>5. QED
  BY <1>1, <1>3, <1>4 DEF OthersAlike

\* A request that starts without a query.
LEMMA AwayStart ==
  ASSUME Inv, PoolInv, NEW r \in Requests, NEW q \in ReqOf, Starts(r, q),
         UNCHANGED <<rowVars, cacheVars, faults>>, q.pc \in Elsewhere, q.port = None,
         Asks(q) => Says(q.conn, q.copy.ver, q.read)
  PROVE  PoolInv'
<1>1. OthersAlike(r) /\ Alike(req'[r], q)
  BY StartAlike
<1>2. faults' \in Nat /\ faults' >= faults /\ WritesAtMost(None, None)
  BY FaultsNat, NothingWritten
<1>3. AsksAsRead(r)
  BY <1>1 DEF AsksAsRead, Alike, Asks
<1>4. req'[r].pc \in Elsewhere /\ req'[r].port \in {None, req[r].port}
  BY <1>1 DEF Alike
<1>5. QED
  BY <1>1, <1>2, <1>3, <1>4, AwayStep

(***************************************************************************)
(* The requests that start, one after the other.                           *)
(***************************************************************************)
LEMMA NewHoldsNothing ==
  ASSUME NEW op, NEW pc, NEW c
  PROVE  New(op, pc, c).port = None /\ New(op, pc, c).read = None
BY DEF New, Idle

LEMMA PoolCreate ==
  ASSUME Inv, PoolInv, NEW r \in Requests, Create(r)
  PROVE  PoolInv'
<1>1. PICK c \in ConnIds, type \in {"plain", "agent"}, host \in Hosts :
        /\ Starts(r, [New("create", "insert", c) EXCEPT !.copy = Entered(NoCopy, type, host), !.owner = c])
        /\ UNCHANGED <<rowVars, cacheVars, faults>>
  BY DEF Create
<1> DEFINE n == New("create", "insert", c)
           e == Entered(NoCopy, type, host)
           q == [n EXCEPT !.copy = e, !.owner = c]
<1>2. n \in ReqOf /\ n.op = "create" /\ n.pc = "insert" /\ n.port = None
  BY NewTypes, NewHoldsNothing DEF Ops, Places
<1>3. NoCopy \in CopyOf /\ type \in Types
  BY DEF NoCopy, CopyOf, Types
<1>4. e \in CopyOf
  BY <1>3, EnteredTypes
<1>5. Starts(r, q)
  BY <1>1
<1> HIDE DEF n, e
<1>6. q \in ReqOf /\ q.op = "create" /\ q.pc = "insert" /\ q.port = None
  BY <1>2, <1>4 DEF ReqOf
<1> HIDE DEF q
<1>7. QED
  BY <1>1, <1>5, <1>6, AwayStart DEF Asks, Elsewhere

LEMMA PoolUpdate ==
  ASSUME Inv, PoolInv, NEW r \in Requests, Update(r)
  PROVE  PoolInv'
<1>1. PICK c \in Open, type \in {"plain", "agent"}, host \in Hosts : \E copy \in WithAgent(c) :
        /\ Starts(r, [New("update", IF type = "agent" THEN "findAgent" ELSE "save", c) EXCEPT
                        !.copy = Entered(copy, type, host)])
        /\ UNCHANGED <<rowVars, cacheVars, faults>>
  BY DEF Update
<1>2. PICK copy \in WithAgent(c) :
        /\ Starts(r, [New("update", IF type = "agent" THEN "findAgent" ELSE "save", c) EXCEPT
                        !.copy = Entered(copy, type, host)])
        /\ UNCHANGED <<rowVars, cacheVars, faults>>
  BY <1>1
<1> DEFINE n == New("update", IF type = "agent" THEN "findAgent" ELSE "save", c)
           e == Entered(copy, type, host)
           q == [n EXCEPT !.copy = e]
<1>3. n \in ReqOf /\ n.op = "update" /\ n.pc \in {"findAgent", "save"} /\ n.port = None
  BY NewTypes, OpenRows, NewHoldsNothing DEF Ops, Places
<1>4. copy \in CopyOf /\ type \in Types
  BY CopyTypes DEF Types
<1>5. e \in CopyOf
  BY <1>4, EnteredTypes
<1>6. Starts(r, q)
  BY <1>2
<1> HIDE DEF n, e
<1>7. q \in ReqOf /\ q.op = "update" /\ q.pc = n.pc /\ q.port = None
  BY <1>3, <1>5 DEF ReqOf
<1> HIDE DEF q
<1>8. QED
  BY <1>2, <1>3, <1>6, <1>7, AwayStart DEF Asks, Elsewhere

LEMMA PoolRestore ==
  ASSUME Inv, PoolInv, NEW r \in Requests, Restore(r)
  PROVE  PoolInv'
<1>1. PICK c \in Open, type \in Types, host \in Hosts :
        /\ Starts(r, [New("restore", IF type = "agent" THEN "createAgent" ELSE "save", c) EXCEPT
                        !.copy = Entered(Loaded(c, Undefined), type, host), !.owner = c])
        /\ UNCHANGED <<rowVars, cacheVars, faults>>
  BY DEF Restore
<1> DEFINE n == New("restore", IF type = "agent" THEN "createAgent" ELSE "save", c)
           e == Entered(Loaded(c, Undefined), type, host)
           q == [n EXCEPT !.copy = e, !.owner = c]
<1>2. n \in ReqOf /\ n.op = "restore" /\ n.pc \in {"createAgent", "save"} /\ n.port = None
  BY NewTypes, OpenRows, NewHoldsNothing DEF Ops, Places
<1>3. e \in CopyOf
  BY CopyTypes, EnteredTypes
<1>4. Starts(r, q)
  BY <1>1
<1> HIDE DEF n, e
<1>5. q \in ReqOf /\ q.op = "restore" /\ q.pc = n.pc /\ q.port = None
  BY <1>2, <1>3, OpenRows DEF ReqOf
<1> HIDE DEF q
<1>6. QED
  BY <1>1, <1>2, <1>4, <1>5, AwayStart DEF Asks, Elsewhere

LEMMA PoolUpdateMasterPwd ==
  ASSUME Inv, PoolInv, NEW r \in Requests, UpdateMasterPwd(r)
  PROVE  PoolInv'
<1>1. PICK c \in Open : \E copy \in WithAgent(c) :
        /\ Starts(r, [New("password", "save", c) EXCEPT !.copy = copy])
        /\ UNCHANGED <<rowVars, cacheVars, faults>>
  BY DEF UpdateMasterPwd
<1>2. PICK copy \in WithAgent(c) :
        /\ Starts(r, [New("password", "save", c) EXCEPT !.copy = copy])
        /\ UNCHANGED <<rowVars, cacheVars, faults>>
  BY <1>1
<1> DEFINE n == New("password", "save", c)
           q == [n EXCEPT !.copy = copy]
<1>3. n \in ReqOf /\ n.op = "password" /\ n.pc = "save" /\ n.port = None
  BY NewTypes, OpenRows, NewHoldsNothing DEF Ops, Places
<1>4. copy \in CopyOf
  BY CopyTypes
<1>5. Starts(r, q)
  BY <1>2
<1> HIDE DEF n
<1>6. q \in ReqOf /\ q.op = "password" /\ q.pc = "save" /\ q.port = None
  BY <1>3, <1>4 DEF ReqOf
<1> HIDE DEF q
<1>7. QED
  BY <1>2, <1>5, <1>6, AwayStart DEF Asks, Elsewhere

LEMMA PoolBareStart ==
  ASSUME Inv, PoolInv, NEW r \in Requests, Delete(r) \/ RefreshToken(r)
  PROVE  PoolInv'
<1>1. PICK c \in Open, op \in {"delete", "refresh"}, pc \in {"remove", "findAgent"} :
        Starts(r, New(op, pc, c)) /\ UNCHANGED <<rowVars, cacheVars, faults>>
  BY DEF Delete, RefreshToken
<1> DEFINE n == New(op, pc, c)
<1>2. n \in ReqOf /\ n.op = op /\ n.pc = pc /\ n.port = None
  BY NewTypes, OpenRows, NewHoldsNothing DEF Ops, Places
<1> HIDE DEF n
<1>3. Starts(r, n)
  BY <1>1 DEF n
<1>4. QED
  BY <1>1, <1>2, <1>3, AwayStart DEF Asks, Elsewhere

\* A query asks with what the row says at that moment.
LEMMA PoolQueries ==
  ASSUME Inv, PoolInv, NEW r \in Requests, Queries(r)
  PROVE  PoolInv'
<1>1. PICK c \in Open, op \in {"rows", "tables", "properties"} : \E copy \in WithAgent(c) :
        Starts(r, QueryOf(op, c, copy)) /\ UNCHANGED <<rowVars, cacheVars, faults>>
  BY DEF Queries
<1>2. PICK copy \in WithAgent(c) :
        Starts(r, QueryOf(op, c, copy)) /\ UNCHANGED <<rowVars, cacheVars, faults>>
  BY <1>1
<1> DEFINE q == QueryOf(op, c, copy)
<1>3. q \in ReqOf /\ q.op = op /\ q.conn = c
  BY QueryTypes
<1>4. c \in ConnIds /\ Stored(conns[c])
  BY OpenRows, RowIsStored
<1>5. copy \in CopyOf /\ copy.host = conns[c].host /\ copy.ver = conns[c].ver
  BY CopyTypes DEF Loaded
<1>6. /\ q.pc \in {"dao", "save"} /\ q.port = None /\ q.copy.ver = copy.ver /\ q.copy.host = copy.host
      /\ q.read = copy.host
  <2> DEFINE n == New(op, IF copy.type = "agent" THEN "save" ELSE "dao", c)
             listed == copy.listed \/ (copy.type = "agent" /\ op = "tables")
             e == [copy EXCEPT !.listed = listed]
             uses == IF op = "rows" \/ (op = "tables" /\ ~copy.listed) THEN 2 ELSE 1
  <2>1. n \in ReqOf /\ n.pc \in {"dao", "save"} /\ n.port = None
    BY <1>4, NewTypes, NewHoldsNothing DEF Ops, Places
  <2>2. e.ver = copy.ver /\ e.host = copy.host
    BY <1>5 DEF CopyOf
  <2>3. q = [n EXCEPT !.copy = e, !.read = copy.host, !.uses = uses]
    BY DEF QueryOf
  <2> HIDE DEF n, e, uses, q
  <2>4. QED
    BY <2>1, <2>2, <2>3 DEF ReqOf
<1> HIDE DEF q
<1>7. Says(q.conn, q.copy.ver, q.read)
  BY <1>3, <1>4, <1>5, <1>6 DEF Says, RowSays
<1>8. OthersAlike(r) /\ Alike(req'[r], q)
  BY <1>2, <1>3, StartAlike DEF q
<1>9. faults' \in Nat /\ faults' >= faults /\ WritesAtMost(None, None)
  BY <1>2, FaultsNat, NothingWritten
<1>10. AsksAsRead(r)
  BY <1>7, <1>8 DEF AsksAsRead, Alike
<1>11. OwnsPort(r)' /\ Reaches(req[r])'
  BY <1>3, <1>6, <1>8 DEF OwnsPort, Opening, Reaches, Alike, Asks
<1>12. OnlyOpens(r)
  <2>1. req'[r].port = None
    BY <1>6, <1>8 DEF Alike
  <2>2. \A x \in Requests : Opening(req[x]) => req[x].port \in Ports
    BY ReqTypes DEF Opening, Knows
  <2>3. QED
    BY <1>2, <2>1, <2>2, DistinctValues DEF OnlyOpens, cacheVars
<1>13. QED
  BY <1>2, <1>8, <1>9, <1>10, <1>11, <1>12, CalmStep

(***************************************************************************)
(* The requests that read or write rows, or end.                           *)
(***************************************************************************)
\* A request that goes on as q, or ends, and writes no connection.
LEMMA QuietMove ==
  ASSUME Inv, PoolInv, UNCHANGED <<conns, clock>>, UNCHANGED cacheVars,
         faults' = faults \/ faults' = faults + 1, NEW r \in Requests, NEW q, Goes(r, q),
         q.pc \in Elsewhere,
         q = Idle \/ (/\ q.port = req[r].port /\ q.op = req[r].op /\ q.conn = req[r].conn
                      /\ q.copy.ver = req[r].copy.ver /\ q.read = req[r].read)
  PROVE  PoolInv'
<1>1. faults' \in Nat /\ faults' >= faults /\ WritesAtMost(None, None)
  BY FaultsNat, NothingWritten
<1>2. QED
  BY <1>1, AwayMove

LEMMA IdleElsewhere == Idle.pc \in Elsewhere
BY DEF Idle, Elsewhere

LEMMA PoolRefuses ==
  ASSUME Inv, PoolInv, NEW r \in Requests, Refuses(r), faults' = faults \/ faults' = faults + 1
  PROVE  PoolInv'
BY QuietMove, IdleElsewhere DEF Refuses, Ends

LEMMA PoolRefused ==
  ASSUME Inv, PoolInv, NEW r \in Requests,
         \/ GroupIsGone(r) \/ AgentIsRefused(r) \/ LinkIsRefused(r) \/ PoolIsClosed(r) \/ StatementFails(r)
  PROVE  PoolInv'
BY PoolRefuses DEF GroupIsGone, AgentIsRefused, LinkIsRefused, PoolIsClosed, StatementFails

LEMMA PoolLeave ==
  ASSUME Inv, PoolInv, NEW r \in Requests, Leave(r)
  PROVE  PoolInv'
BY QuietMove, IdleElsewhere DEF Leave, Ends, rowVars

\* What a request becomes that is answered, for the pools.
LEMMA AnswersAway ==
  ASSUME Inv, NEW r \in Requests, Answers(r)
  PROVE  \E q : /\ Goes(r, q) /\ q.pc \in Elsewhere
                /\ q = Idle \/ (/\ q.port = req[r].port /\ q.op = req[r].op /\ q.conn = req[r].conn
                                /\ q.copy.ver = req[r].copy.ver /\ q.read = req[r].read)
<1> DEFINE q == [req[r] EXCEPT !.pc = "answered"]
<1>1. req[r] \in ReqOf
  BY ReqTypes
<1>2. /\ q.port = req[r].port /\ q.op = req[r].op /\ q.conn = req[r].conn /\ q.pc = "answered"
      /\ q.copy.ver = req[r].copy.ver /\ q.read = req[r].read
  BY <1>1 DEF ReqOf
<1>3. Goes(r, Idle) \/ Goes(r, q)
  BY DEF Answers
<1> HIDE DEF q
<1>4. QED
  BY <1>2, <1>3, IdleElsewhere DEF Elsewhere

LEMMA PoolAddGroup ==
  ASSUME Inv, PoolInv, NEW r \in Requests, AddGroup(r)
  PROVE  PoolInv'
<1> DEFINE q == [req[r] EXCEPT !.pc = "permissions"]
<1>1. /\ q.port = req[r].port /\ q.op = req[r].op /\ q.conn = req[r].conn /\ q.pc = "permissions"
      /\ q.copy.ver = req[r].copy.ver /\ q.read = req[r].read
  BY ReqTypes DEF ReqOf
<1>2. Goes(r, q) /\ UNCHANGED <<conns, clock>> /\ UNCHANGED cacheVars /\ faults' = faults
  BY DEF AddGroup
<1> HIDE DEF q
<1>3. QED
  BY <1>1, <1>2, QuietMove DEF Elsewhere

LEMMA PoolAddPermission ==
  ASSUME Inv, PoolInv, NEW r \in Requests, AddPermission(r)
  PROVE  PoolInv'
<1>1. UNCHANGED <<conns, clock>> /\ UNCHANGED cacheVars /\ faults' = faults /\ req[r].pc = "permissions"
  BY DEF AddPermission, At
<1>2. CASE Answers(r)
  BY <1>1, <1>2, AnswersAway, QuietMove
<1>3. CASE req' = req
  <2>1. req' = [req EXCEPT ![r] = req[r]]
    BY <1>3 DEF Inv, TypeOK
  <2>2. QED
    BY <1>1, <2>1, QuietMove DEF Goes, Elsewhere
<1>4. QED
  BY <1>2, <1>3 DEF AddPermission

LEMMA PoolFindAgent ==
  ASSUME Inv, PoolInv, NEW r \in Requests, FindAgent(r)
  PROVE  PoolInv'
<1>1. UNCHANGED <<conns, clock>> /\ UNCHANGED cacheVars /\ faults' = faults /\ req[r] \in ReqOf
  BY ReqTypes DEF FindAgent, rowVars
<1>2. CASE Goes(r, [req[r] EXCEPT !.pc = "findConn"])
  <2> DEFINE q == [req[r] EXCEPT !.pc = "findConn"]
  <2>1. /\ q.pc = "findConn" /\ q.port = req[r].port /\ q.op = req[r].op /\ q.conn = req[r].conn
        /\ q.copy.ver = req[r].copy.ver /\ q.read = req[r].read
    BY <1>1 DEF ReqOf
  <2>2. Goes(r, q)
    BY <1>2
  <2> HIDE DEF q
  <2>3. QED
    BY <1>1, <2>1, <2>2, QuietMove DEF Elsewhere
<1>3. ASSUME NEW a \in Tokens, Goes(r, [req[r] EXCEPT !.pc = "renew", !.agent = a]) PROVE PoolInv'
  <2> DEFINE q == [req[r] EXCEPT !.pc = "renew", !.agent = a]
  <2>1. /\ q.pc = "renew" /\ q.port = req[r].port /\ q.op = req[r].op /\ q.conn = req[r].conn
        /\ q.copy.ver = req[r].copy.ver /\ q.read = req[r].read
    BY <1>1 DEF ReqOf
  <2>2. Goes(r, q)
    BY <1>3
  <2> HIDE DEF q
  <2>3. QED
    BY <1>1, <2>1, <2>2, QuietMove DEF Elsewhere
<1>4. QED
  BY <1>2, <1>3 DEF FindAgent, AgentsOf

LEMMA PoolFindConn ==
  ASSUME Inv, PoolInv, NEW r \in Requests, FindConn(r)
  PROVE  PoolInv'
<1> DEFINE o == IF Stored(conns[req[r].conn]) THEN req[r].conn ELSE None
           q == [req[r] EXCEPT !.pc = "createAgent", !.owner = o]
<1>1. UNCHANGED <<conns, clock>> /\ UNCHANGED cacheVars /\ faults' = faults /\ Goes(r, q)
  BY DEF FindConn, rowVars
<1> HIDE DEF o
<1>2. /\ q.port = req[r].port /\ q.op = req[r].op /\ q.conn = req[r].conn /\ q.pc = "createAgent"
      /\ q.copy.ver = req[r].copy.ver /\ q.read = req[r].read
  BY ReqTypes DEF ReqOf
<1> HIDE DEF q
<1>3. QED
  BY <1>1, <1>2, QuietMove DEF Elsewhere

LEMMA WithTokenAway ==
  ASSUME NEW q \in ReqOf, NEW a, NEW t
  PROVE  LET n == WithToken(q, a, t) IN
         /\ n.port = q.port /\ n.op = q.op /\ n.conn = q.conn /\ n.read = q.read
         /\ n.copy.ver = q.copy.ver /\ n.pc \in Elsewhere
<1> DEFINE pc == CASE q.op = "create" -> "group" [] q.op = "refresh" -> "answered" [] OTHER -> "save"
           h == [q.copy EXCEPT !.agent = IF q.op = "restore" THEN a ELSE @]
           n == [q EXCEPT !.token = t, !.pc = pc, !.copy = h]
<1>1. pc \in Elsewhere
  BY DEF Elsewhere
<1>2. q.copy \in CopyOf
  BY DEF ReqOf
<1>3. h.ver = q.copy.ver
  BY <1>2 DEF CopyOf
<1>4. WithToken(q, a, t) = n
  BY DEF WithToken
<1> HIDE DEF pc, h
<1>5. n.port = q.port /\ n.op = q.op /\ n.conn = q.conn /\ n.read = q.read /\ n.copy = h /\ n.pc = pc
  BY DEF ReqOf
<1> HIDE DEF n
<1>6. QED
  BY <1>1, <1>3, <1>4, <1>5

LEMMA PoolSavesAgent ==
  ASSUME Inv, PoolInv, NEW r \in Requests, CreateAgent(r) \/ RenewAgent(r)
  PROVE  PoolInv'
<1>1. PICK a, c : SavesAgent(r, a, c)
  BY DEF CreateAgent, RenewAgent
<1>2. PICK row, t : Goes(r, WithToken(req[r], row, t)) /\ UNCHANGED <<conns, clock>>
                    /\ UNCHANGED cacheVars /\ faults' = faults
  BY <1>1 DEF SavesAgent
<1> DEFINE q == WithToken(req[r], row, t)
<1>3. /\ q.port = req[r].port /\ q.op = req[r].op /\ q.conn = req[r].conn /\ q.read = req[r].read
      /\ q.copy.ver = req[r].copy.ver /\ q.pc \in Elsewhere
  BY ReqTypes, WithTokenAway
<1> HIDE DEF q
<1>4. Goes(r, q)
  BY <1>2 DEF q
<1>5. QED
  BY <1>2, <1>3, <1>4, QuietMove

LEMMA PoolInsert ==
  ASSUME Inv, PoolInv, NEW r \in Requests, Insert(r)
  PROVE  PoolInv'
<1>1. req[r] \in ReqOf /\ Knows(req[r]) /\ req[r].pc = "insert" /\ req[r].conn \in ConnIds
  BY ReqTypes DEF Insert, At
<1>2. req[r].op = "create" /\ req[r].copy \in CopyOf /\ req[r].copy.type \in Types
  BY <1>1, NoneIsNoOp DEF Knows, Rowless, ReqOf, Ops
<1> DEFINE row == [Bare(req[r].copy) EXCEPT !.ver = clock + 1]
           pc == IF req[r].copy.type = "agent" THEN "createAgent" ELSE "group"
           q == [req[r] EXCEPT !.pc = pc]
<1>3. /\ conns' = [conns EXCEPT ![req[r].conn] = row] /\ clock' = clock + 1 /\ Goes(r, q)
      /\ UNCHANGED cacheVars /\ faults' = faults
  BY DEF Insert
<1>4. clock \in Nat /\ conns \in [ConnIds -> RowOf \union {None, Gone}]
  BY DEF Inv, TypeOK
<1>5. row.ver = clock + 1 /\ row.host = req[r].copy.host
  BY <1>2 DEF Bare
<1> HIDE DEF row
<1>6. WritesAtMost(req[r].conn, req[r].copy.host)
  BY <1>3, <1>4, <1>5 DEF WritesAtMost
<1>7. pc \in Elsewhere
  BY DEF Elsewhere
<1> HIDE DEF pc
<1>8. /\ q.port = req[r].port /\ q.op = req[r].op /\ q.conn = req[r].conn /\ q.read = req[r].read
      /\ q.copy.ver = req[r].copy.ver /\ q.pc \in Elsewhere
  BY <1>1, <1>7 DEF ReqOf
<1> HIDE DEF q
<1>9. faults' \in Nat /\ faults' >= faults
  BY <1>3, FaultsNat
<1>10. QED
  BY <1>3, <1>6, <1>8, <1>9, AwayMove

LEMMA PoolSave ==
  ASSUME Inv, PoolInv, NEW r \in Requests, Save(r)
  PROVE  PoolInv'
<1>1. req[r] \in ReqOf /\ req[r].conn \in ConnIds /\ req[r].copy \in CopyOf
  BY ReqTypes DEF Save, At, ReqOf
<1> DEFINE copy == req[r].copy
           row == [Bare(copy) EXCEPT !.ver = clock + 1]
<1>2. /\ conns' = [conns EXCEPT ![req[r].conn] = IF @ = Bare(copy) THEN @ ELSE row]
      /\ clock' = IF conns' = conns THEN clock ELSE clock + 1
      /\ Answers(r) /\ UNCHANGED cacheVars /\ faults' = faults
  BY DEF Save, SavedConn
<1>3. clock \in Nat /\ conns \in [ConnIds -> RowOf \union {None, Gone}]
  BY DEF Inv, TypeOK
<1>4. row.ver = clock + 1 /\ row.host = copy.host
  BY DEF Bare
<1> HIDE DEF row, copy
<1>5. WritesAtMost(req[r].conn, copy.host)
  <2>1. CASE conns' = conns
    BY <1>2, <1>3, <2>1 DEF WritesAtMost
  <2>2. CASE conns' # conns
    BY <1>2, <1>3, <1>4, <2>2 DEF WritesAtMost
  <2>3. QED
    BY <2>1, <2>2
<1>6. faults' \in Nat /\ faults' >= faults
  BY <1>2, FaultsNat
<1>7. QED
  BY <1>2, <1>5, <1>6, AnswersAway, AwayMove

LEMMA PoolRemove ==
  ASSUME Inv, PoolInv, NEW r \in Requests, Remove(r)
  PROVE  PoolInv'
<1>1. /\ conns' = [conns EXCEPT ![req[r].conn] = Gone] /\ clock' = clock /\ Goes(r, Idle)
      /\ UNCHANGED cacheVars /\ faults' = faults
  BY DEF Remove, Ends
<1>2. clock \in Nat /\ conns \in [ConnIds -> RowOf \union {None, Gone}]
  BY DEF Inv, TypeOK
<1>3. WritesAtMost(None, None)
  BY <1>1, <1>2 DEF WritesAtMost, Stored
<1>4. faults' \in Nat /\ faults' >= faults
  BY <1>1, FaultsNat
<1>5. QED
  BY <1>1, <1>3, <1>4, IdleElsewhere, AwayMove

(***************************************************************************)
(* The requests at a pool.                                                 *)
(***************************************************************************)
\* Request r goes on as q, with the version and the host it has read.
GoesOnAs(r, q) ==
  /\ Goes(r, q) /\ q.op = req[r].op /\ q.conn = req[r].conn
  /\ q.copy.ver = req[r].copy.ver /\ q.read = req[r].read
\* An entry of what q asks with.
EntryOf(e, q) ==
  e.key[1] = q.conn /\ e.key[2].ver = q.copy.ver /\ Leads(e.pool, Kind(e), q.read)

LEMMA PoolStep ==
  ASSUME Inv, PoolInv, NEW r \in Requests, req[r].pc \in AtPool, NEW q \in ReqOf, GoesOnAs(r, q),
         UNCHANGED <<rowVars, faults>>, CachesFit', PoolsGrow, OnlyOpens(r),
         OwnsPort(r)', Reaches(q)', \A e \in AllCached' : e \in AllCached \/ EntryOf(e, q)'
  PROVE  PoolInv'
<1>1. req'[r] = q /\ \A x \in Requests \ {r} : req'[x] = req[x]
  BY DEF Goes, GoesOnAs, Inv, TypeOK
<1>2. OthersAlike(r)
  BY <1>1 DEF OthersAlike, Alike
<1>3. Asks(req[r]) /\ Asks(q) /\ q.conn \in ConnIds
  BY PoolRequest DEF PoolInv, Reaches, GoesOnAs, Asks
<1>4. q.copy.ver \in Nat /\ q.read \in EndOf
  BY DEF ReqOf, CopyOf, EndOf
<1>5. Says(q.conn, q.copy.ver, q.read)
  BY <1>3 DEF Says, ReadSays, GoesOnAs
<1>6. AsksAsRead(r)
  BY <1>1, <1>5 DEF AsksAsRead
<1>7. WritesAtMost(None, None) /\ clock' = clock
  BY NothingWritten DEF rowVars
<1>8. q.copy.ver <= clock /\ \A h \in EndOf : Says(q.conn, q.copy.ver, h) => h = q.read
  BY <1>3, <1>4, <1>5 DEF PoolInv, VersionsFit
<1>9. \A h \in EndOf : Says(q.conn, q.copy.ver, h)' => Says(q.conn, q.copy.ver, h)
  BY <1>2, <1>3, <1>4, <1>6, <1>7, SaysOn, DistinctValues
<1>10. ASSUME NEW e, EntryOf(e, q)' PROVE EntryFits(e)'
  <2>1. e.key[1] = q.conn /\ e.key[2].ver = q.copy.ver /\ Leads(e.pool, Kind(e), q.read)'
    BY <1>10 DEF EntryOf, Kind
  <2>2. \A h \in EndOf : Says(e.key[1], e.key[2].ver, h)' => Leads(e.pool, Kind(e), h)'
    BY <1>8, <1>9, <2>1
  <2>3. QED
    BY <1>7, <1>8, <2>1, <2>2 DEF EntryFits, Kind
<1>11. VersionsFit'
  BY <1>2, <1>6, <1>7, <1>10, VersionsOn DEF PoolInv
<1>12. \A x \in Requests \ {r} : OwnsPort(x)' /\ Reaches(req[x])'
  BY <1>2, OthersOwn, OthersReach
<1>13. Reaches(req[r])'
  BY <1>1 DEF Reaches, Bent, Asks, Key
<1>14. QED
  BY <1>11, <1>12, <1>13 DEF PoolInv

\* Of a request that goes to a pool, what r is then.
LEMMA ToPoolGoes ==
  ASSUME Inv, NEW r \in Requests, NEW pc, NEW p, Goes(r, ToPool(r, pc, p))
  PROVE  /\ GoesOnAs(r, ToPool(r, pc, p)) /\ req'[r] = ToPool(r, pc, p)
         /\ ToPool(r, pc, p).read = req[r].read
         /\ \A x \in Requests \ {r} : req'[x] = req[x]
<1>1. req[r] \in ReqOf /\ req \in [Requests -> ReqOf]
  BY ReqTypes DEF Inv, TypeOK
<1> DEFINE q == [req[r] EXCEPT !.pc = pc, !.port = p]
<1>2. q.op = req[r].op /\ q.conn = req[r].conn /\ q.copy = req[r].copy /\ q.read = req[r].read
  BY <1>1 DEF ReqOf
<1> HIDE DEF q
<1>3. Goes(r, q) /\ q = ToPool(r, pc, p)
  BY DEF q, ToPool
<1>4. req'[r] = q /\ \A x \in Requests \ {r} : req'[x] = req[x]
  BY <1>1, <1>3 DEF Goes
<1>5. QED
  BY <1>2, <1>3, <1>4 DEF GoesOnAs

\* Ports that others open differ from one that is in use.
LEMMA UsedIsNotOpened ==
  ASSUME Inv, PoolInv, NEW r \in Requests, NEW p \in Ports, pools[p] # None, pools' = pools, req'[r].port = p
  PROVE  OnlyOpens(r)
BY DEF OnlyOpens, PoolInv, OwnsPort

\* Of an entry that is cached under what a request asks with, where it leads.
LEMMA CachedLeads ==
  ASSUME Inv, PoolInv, NEW r \in Requests, req[r].pc \in AtPool, NEW e \in AllCached, e.key = Key(req[r])
  PROVE  /\ Leads(e.pool, req[r].copy.type, req[r].read) /\ pools[e.pool] # None /\ e.pool \in Ports
         /\ Kind(e) = req[r].copy.type /\ e.key[1] = req[r].conn /\ e.key[2].ver = req[r].copy.ver
<1>1. e.key[1] = req[r].conn /\ e.key[2] = req[r].copy
  BY DEF Key
<1>2. e \in Entries /\ pools[e.pool] # None
  BY DEF Inv, TypeOK, AllCached
<1>3. Asks(req[r]) /\ req[r].read \in EndOf
  BY PoolRequest DEF PoolInv, Reaches, ReqOf, EndOf
<1>4. Says(req[r].conn, req[r].copy.ver, req[r].read)
  BY <1>3 DEF Says, ReadSays
<1>5. Leads(e.pool, Kind(e), req[r].read)
  BY <1>1, <1>3, <1>4 DEF PoolInv, VersionsFit
<1>6. QED
  BY <1>1, <1>2, <1>5 DEF Kind, Entries

\* A pool that is cached is used.
LEMMA PoolUsesCached ==
  ASSUME Inv, PoolInv, NEW r \in Requests, req[r].pc = "dao",
         NEW cache \in {knexCache, driverCache}, NEW p \in Cached(cache, req[r]),
         Goes(r, Querying(req[r], p)), UNCHANGED <<rowVars, cacheVars, faults>>
  PROVE  PoolInv'
<1>1. req[r].pc \in AtPool
  BY DEF AtPool
<1>2. PICK e \in AllCached : e.key = Key(req[r]) /\ e.pool = p
  BY DEF Cached, AllCached
<1>3. Leads(p, req[r].copy.type, req[r].read) /\ pools[p] # None /\ p \in Ports
  BY <1>1, <1>2, CachedLeads
<1>4. Goes(r, ToPool(r, "query", p))
  BY DEF Querying, ToPool
<1>5. PICK q \in ReqOf : q = ToPool(r, "query", p)
  BY <1>1, <1>3, GoesToPool
<1>6. /\ GoesOnAs(r, q) /\ req'[r] = q /\ q.read = req[r].read /\ q.op = req[r].op /\ q.conn = req[r].conn
      /\ q.copy = req[r].copy /\ q.pc = "query" /\ q.port = p
  BY <1>1, <1>3, <1>4, <1>5, GoesToPool, ToPoolGoes
<1>7. UNCHANGED <<knexCache, tunnelCache, driverCache, pools>>
  BY DEF cacheVars
<1>8. CachesFit' /\ PoolsGrow
  BY FaultsNat, CachesOn DEF PoolInv
<1>9. OnlyOpens(r)
  BY <1>3, <1>6, <1>7, UsedIsNotOpened
<1>10. OwnsPort(r)'
  BY <1>5, <1>6 DEF OwnsPort, Opening
<1>11. Reaches(req[r])
  BY DEF PoolInv
<1>12. Bent(req[r]) => Bent(q)'
  BY <1>6, <1>7 DEF Bent, Key
<1>13. Reaches(q)'
  BY <1>1, <1>3, <1>5, <1>6, <1>7, <1>11, <1>12 DEF Reaches, Asks, Leads, AtPool
<1>14. AllCached' = AllCached
  BY <1>7 DEF AllCached
<1>15. QED
  BY <1>1, <1>5, <1>6, <1>8, <1>9, <1>10, <1>13, <1>14, PoolStep

LEMMA PoolCachedKnex ==
  ASSUME Inv, PoolInv, NEW r \in Requests, CachedKnex(r)
  PROVE  PoolInv'
BY PoolUsesCached DEF CachedKnex, At

LEMMA PoolCachedDriver ==
  ASSUME Inv, PoolInv, NEW r \in Requests, CachedDriver(r)
  PROVE  PoolInv'
BY PoolUsesCached DEF CachedDriver, At

\* A port is taken to be opened.
LEMMA PoolTakesPort ==
  ASSUME Inv, PoolInv, NEW r \in Requests, req[r].pc = "dao", NEW pc \in {"tunnel", "driver"},
         pc = "tunnel" => req[r].copy.type = "ssh", pc = "driver" => req[r].copy.type = "mysql_ssh",
         ~\E e \in knexCache : pc = "tunnel" /\ e.key = Key(req[r]),
         NEW p \in FreePorts, Goes(r, ToPool(r, pc, p)), UNCHANGED <<rowVars, cacheVars, faults>>
  PROVE  PoolInv'
<1>1. req[r].pc \in AtPool /\ Reaches(req[r])
  BY DEF AtPool, PoolInv
<1>2. p \in Ports /\ pools[p] = None /\ \A x \in Requests : req[x].port # p
  BY DEF FreePorts
<1>3. PICK q \in ReqOf : q = ToPool(r, pc, p)
  BY <1>1, <1>2, GoesToPool
<1>4. /\ GoesOnAs(r, q) /\ req'[r] = q /\ q.read = req[r].read /\ \A x \in Requests \ {r} : req'[x] = req[x]
      /\ q.op = req[r].op /\ q.conn = req[r].conn /\ q.copy = req[r].copy /\ q.pc = pc /\ q.port = p
  BY <1>1, <1>2, <1>3, GoesToPool, ToPoolGoes
<1>5. UNCHANGED <<knexCache, tunnelCache, driverCache, pools>>
  BY DEF cacheVars
<1>6. CachesFit' /\ PoolsGrow
  BY FaultsNat, CachesOn DEF PoolInv
<1>7. OnlyOpens(r)
  BY <1>2, <1>3, <1>4, <1>5 DEF OnlyOpens
<1>8. OwnsPort(r)'
  BY <1>2, <1>3, <1>4, <1>5 DEF OwnsPort
<1>9. Bent(req[r]) => pc = "tunnel" /\ faults > 0
  <2>1. "ssh" # "mysql_ssh"
    OBVIOUS
  <2>2. QED
    BY <2>1 DEF Bent
<1>10. Bent(req[r]) => Bent(q)'
  BY <1>4, <1>5, <1>9 DEF Bent
<1>11. Reaches(q)'
  BY <1>1, <1>3, <1>4, <1>10 DEF Reaches, Asks, AtPool
<1>12. AllCached' = AllCached
  BY <1>5 DEF AllCached
<1>13. QED
  BY <1>1, <1>3, <1>4, <1>6, <1>7, <1>8, <1>11, <1>12, PoolStep

LEMMA PoolStartTunnel ==
  ASSUME Inv, PoolInv, NEW r \in Requests, StartTunnel(r)
  PROVE  PoolInv'
<1>1. PICK p \in FreePorts : Goes(r, ToPool(r, "tunnel", p))
  BY DEF StartTunnel, ToPool
<1>2. /\ req[r].pc = "dao" /\ req[r].copy.type = "ssh" /\ ~\E e \in knexCache : e.key = Key(req[r])
      /\ UNCHANGED <<rowVars, cacheVars, faults>>
  BY DEF StartTunnel, At, Cached
<1>3. QED
  BY <1>1, <1>2, PoolTakesPort

LEMMA PoolStartDriver ==
  ASSUME Inv, PoolInv, NEW r \in Requests, StartDriver(r)
  PROVE  PoolInv'
<1>1. PICK p \in FreePorts : Goes(r, ToPool(r, "driver", p))
  BY DEF StartDriver, ToPool
<1>2. /\ req[r].pc = "dao" /\ req[r].copy.type = "mysql_ssh"
      /\ UNCHANGED <<rowVars, cacheVars, faults>>
  BY DEF StartDriver, At
<1>3. QED
  BY <1>1, <1>2, PoolTakesPort

(***************************************************************************)
(* A pool is opened on a port that nobody used.                            *)
(***************************************************************************)
LEMMA OpensFresh ==
  ASSUME Inv, NEW p \in Ports, pools[p] = None, NEW to \in EndOf, NEW key \in KeyOf, pools' = Opened(p, to, key)
  PROVE  /\ pools'[p].to = to /\ pools'[p].open /\ pools'[p].key = key /\ pools'[p] # None
         /\ \A x \in Ports \ {p} : pools'[x] = pools[x]
         /\ \A e \in AllCached : e.pool \in Ports \ {p} /\ pools'[e.pool] = pools[e.pool]
<1> DEFINE row == [to |-> to, open |-> TRUE, key |-> key]
<1>1. pools \in [Ports -> PoolOf \union {None}]
  BY DEF Inv, TypeOK
<1>2. \A e \in AllCached : e.pool \in Ports /\ pools[e.pool] # None
  BY DEF Inv, TypeOK, AllCached, Entries
<1>3. pools' = [pools EXCEPT ![p] = row]
  BY DEF Opened
<1>4. row.to = to /\ row.open /\ row.key = key /\ row \in PoolOf
  BY DEF PoolOf, EndOf, KeyOf
<1> HIDE DEF row
<1>5. pools'[p] = row /\ \A x \in Ports \ {p} : pools'[x] = pools[x]
  BY <1>1, <1>3
<1>6. None \notin PoolOf
  BY DistinctValues
<1>7. QED
  BY <1>2, <1>4, <1>5, <1>6

LEMMA KnexOnFresh ==
  ASSUME Inv, CachesFit, NEW p \in Ports, pools[p] = None, NEW to \in EndOf, pools' = Opened(p, to, None),
         NEW e \in Entries, e.pool = p, Kind(e) \in {"plain", "ssh"}, UNCHANGED <<driverCache, faults>>,
         knexCache' = knexCache \union {e},
         tunnelCache' = tunnelCache \/ (Kind(e) = "ssh" /\ tunnelCache' = tunnelCache \union {e})
  PROVE  CachesFit' /\ PoolsGrow
<1>1. None \in KeyOf
  BY DEF KeyOf
<1>2. /\ pools'[p].to = to /\ pools'[p].open /\ pools'[p].key = None /\ pools'[p] # None
      /\ \A x \in Ports \ {p} : pools'[x] = pools[x]
      /\ \A f \in AllCached : f.pool \in Ports \ {p} /\ pools'[f.pool] = pools[f.pool]
  BY <1>1, OpensFresh
<1>3. \A f \in knexCache' : f \in knexCache \/ f = e
  OBVIOUS
<1>4. \A f \in tunnelCache' : f \in tunnelCache \/ (f = e /\ Kind(e) = "ssh")
  OBVIOUS
<1>5. ASSUME NEW f \in knexCache'
      PROVE  /\ Kind(f) \in {"plain", "ssh"} /\ pools'[f.pool].key = None
             /\ pools'[f.pool].open \/ (Kind(f) = "ssh" /\ faults > 0)
             /\ \A g \in knexCache' \union tunnelCache' : g.pool = f.pool /\ Kind(f) # "ssh" => g = f
  <2>1. CASE f = e
    BY <1>2, <1>3, <1>4, <2>1 DEF AllCached
  <2>2. CASE f \in knexCache
    <3>1. f.pool # p /\ pools'[f.pool] = pools[f.pool]
      BY <1>2, <2>2 DEF AllCached
    <3>2. /\ Kind(f) \in {"plain", "ssh"} /\ pools[f.pool].key = None
          /\ pools[f.pool].open \/ (Kind(f) = "ssh" /\ faults > 0)
          /\ \A g \in knexCache \union tunnelCache : g.pool = f.pool /\ Kind(f) # "ssh" => g = f
      BY <2>2 DEF CachesFit
    <3>3. QED
      BY <1>3, <1>4, <3>1, <3>2
  <2>3. QED
    BY <1>3, <1>5, <2>1, <2>2
<1>6. ASSUME NEW f \in tunnelCache'
      PROVE  Kind(f) = "ssh" /\ pools'[f.pool].key = None /\ (pools'[f.pool].open \/ faults > 0)
  <2>1. CASE f = e /\ Kind(e) = "ssh"
    BY <1>2, <2>1
  <2>2. CASE f \in tunnelCache
    <3>1. pools'[f.pool] = pools[f.pool]
      BY <1>2, <2>2 DEF AllCached
    <3>2. QED
      BY <2>2, <3>1 DEF CachesFit
  <2>3. QED
    BY <1>4, <1>6, <2>1, <2>2
<1>7. ASSUME NEW f \in driverCache'
      PROVE  Kind(f) = "mysql_ssh" /\ pools'[f.pool].open /\ pools'[f.pool].key = f.key
  <2>1. f \in driverCache /\ pools'[f.pool] = pools[f.pool]
    BY <1>2, <1>7 DEF AllCached
  <2>2. QED
    BY <2>1 DEF CachesFit
<1>8. ASSUME NEW x \in Ports, pools'[x] # None, pools'[x].open, pools'[x].key = None
      PROVE  \E f \in knexCache' : f.pool = x
  BY <1>2, <1>8 DEF CachesFit
<1>9. CachesFit'
  BY <1>5, <1>6, <1>7, <1>8 DEF CachesFit, Kind
<1>10. PoolsGrow
  BY <1>2, FaultsNat DEF PoolsGrow
<1>11. QED
  BY <1>9, <1>10

LEMMA DriverOnFresh ==
  ASSUME Inv, CachesFit, NEW p \in Ports, pools[p] = None, NEW to \in EndOf,
         NEW e \in Entries, e.pool = p, Kind(e) = "mysql_ssh", pools' = Opened(p, to, e.key),
         UNCHANGED <<knexCache, tunnelCache, faults>>, driverCache' \subseteq driverCache \union {e}
  PROVE  CachesFit' /\ PoolsGrow
<1>1. e.key \in KeyOf /\ e.key # None
  BY DistinctValues DEF KeyOf, Entries
<1>2. /\ pools'[p].to = to /\ pools'[p].open /\ pools'[p].key = e.key /\ pools'[p] # None
      /\ \A x \in Ports \ {p} : pools'[x] = pools[x]
      /\ \A f \in AllCached : f.pool \in Ports \ {p} /\ pools'[f.pool] = pools[f.pool]
  BY <1>1, OpensFresh
<1>3. \A f \in knexCache \union tunnelCache : pools'[f.pool] = pools[f.pool]
  BY <1>2 DEF AllCached
<1>4. ASSUME NEW f \in driverCache'
      PROVE  Kind(f) = "mysql_ssh" /\ pools'[f.pool].open /\ pools'[f.pool].key = f.key
  <2>1. CASE f = e
    BY <1>2, <2>1
  <2>2. CASE f \in driverCache
    <3>1. pools'[f.pool] = pools[f.pool]
      BY <1>2, <2>2 DEF AllCached
    <3>2. QED
      BY <2>2, <3>1 DEF CachesFit
  <2>3. QED
    BY <1>4, <2>1, <2>2
<1>5. ASSUME NEW x \in Ports, pools'[x] # None, pools'[x].open, pools'[x].key = None
      PROVE  \E f \in knexCache : f.pool = x
  BY <1>1, <1>2, <1>5 DEF CachesFit
<1>6. CachesFit'
  BY <1>3, <1>4, <1>5 DEF CachesFit, Kind
<1>7. PoolsGrow
  BY <1>2, FaultsNat DEF PoolsGrow
<1>8. QED
  BY <1>6, <1>7

\* A request that opens port p, which is its own or nobody's.
LEMMA OpensOwnPort ==
  ASSUME Inv, PoolInv, NEW r \in Requests, NEW p \in Ports, \A x \in Requests \ {r} : req[x].port # p,
         \A x \in Ports \ {p} : pools'[x] = pools[x], req'[r].port = p
  PROVE  OnlyOpens(r)
BY DEF OnlyOpens

LEMMA PoolNewKnex ==
  ASSUME Inv, PoolInv, NEW r \in Requests, NewKnex(r)
  PROVE  PoolInv'
<1>1. /\ req[r].pc = "dao" /\ req[r].pc \in AtPool /\ req[r].copy.type = "plain"
      /\ UNCHANGED <<rowVars, tunnelCache, driverCache, faults>>
  BY DEF NewKnex, At, AtPool
<1>2. PICK p \in FreePorts : /\ pools' = Opened(p, req[r].copy.host, None)
                             /\ knexCache' = knexCache \union {Caches(req[r], p)}
                             /\ Goes(r, ToPool(r, "query", p))
  BY DEF NewKnex, Querying, ToPool
<1>3. p \in Ports /\ pools[p] = None /\ \A x \in Requests : req[x].port # p
  BY DEF FreePorts
<1>4. req[r] \in ReqOf /\ req[r].conn \in ConnIds /\ req[r].copy.host \in EndOf
  BY <1>1, PoolRequest DEF CopyOf, EndOf
<1>5. PICK q \in ReqOf : q = ToPool(r, "query", p)
  BY <1>1, <1>3, GoesToPool
<1>6. /\ GoesOnAs(r, q) /\ req'[r] = q /\ q.read = req[r].read /\ q.op = req[r].op /\ q.conn = req[r].conn
      /\ q.copy = req[r].copy /\ q.pc = "query" /\ q.port = p
  BY <1>1, <1>2, <1>3, <1>5, GoesToPool, ToPoolGoes
<1>7. PICK e \in Entries : e = Caches(req[r], p) /\ e.pool = p /\ e.key = Key(req[r])
  BY <1>3, <1>4, CachesTypes
<1>8. Kind(e) = "plain" /\ e.key[1] = q.conn /\ e.key[2].ver = q.copy.ver
  BY <1>1, <1>6, <1>7 DEF Kind, Key
<1>9. CachesFit' /\ PoolsGrow
  BY <1>1, <1>2, <1>3, <1>4, <1>7, <1>8, KnexOnFresh DEF PoolInv
<1>10. None \in KeyOf
  BY DEF KeyOf
<1>11. pools'[p].to = req[r].copy.host /\ pools'[p] # None /\ \A x \in Ports \ {p} : pools'[x] = pools[x]
  BY <1>2, <1>3, <1>4, <1>10, OpensFresh
<1>12. Asks(req[r]) /\ req[r].copy.host = req[r].read
  BY <1>1 DEF PoolInv, Reaches, Bent
<1>13. OnlyOpens(r)
  BY <1>3, <1>6, <1>11, OpensOwnPort
<1>14. OwnsPort(r)'
  BY <1>6 DEF OwnsPort, Opening
<1>15. Reaches(q)'
  BY <1>6, <1>11, <1>12 DEF Reaches, Asks, Leads
<1>16. EntryOf(e, q)'
  BY <1>6, <1>7, <1>8, <1>11, <1>12 DEF EntryOf, Leads
<1>17. \A f \in AllCached' : f \in AllCached \/ f = e
  BY <1>1, <1>2, <1>7 DEF AllCached
<1>18. QED
  BY <1>1, <1>6, <1>9, <1>13, <1>14, <1>15, <1>16, <1>17, PoolStep

LEMMA PoolCachedTunnel ==
  ASSUME Inv, PoolInv, NEW r \in Requests, CachedTunnel(r)
  PROVE  PoolInv'
<1>1. /\ req[r].pc = "dao" /\ req[r].pc \in AtPool /\ req[r].copy.type = "ssh"
      /\ UNCHANGED <<rowVars, tunnelCache, driverCache, pools, faults>>
  BY DEF CachedTunnel, At, AtPool
<1>2. PICK p \in Cached(tunnelCache, req[r]) : /\ knexCache' = knexCache \union {Caches(req[r], p)}
                                               /\ Goes(r, ToPool(r, "query", p))
  BY DEF CachedTunnel, Querying, ToPool
<1>3. PICK f \in tunnelCache : f.key = Key(req[r]) /\ f.pool = p
  BY DEF Cached
<1>4. Leads(p, req[r].copy.type, req[r].read) /\ pools[p] # None /\ p \in Ports
  BY <1>1, <1>3, CachedLeads DEF AllCached
<1>5. req[r] \in ReqOf /\ req[r].conn \in ConnIds
  BY <1>1, PoolRequest
<1>6. PICK q \in ReqOf : q = ToPool(r, "query", p)
  BY <1>1, <1>4, GoesToPool
<1>7. /\ GoesOnAs(r, q) /\ req'[r] = q /\ q.read = req[r].read /\ q.op = req[r].op /\ q.conn = req[r].conn
      /\ q.copy = req[r].copy /\ q.pc = "query" /\ q.port = p
  BY <1>1, <1>2, <1>4, <1>6, GoesToPool, ToPoolGoes
<1>8. PICK e \in Entries : e = Caches(req[r], p) /\ e.pool = p /\ e.key = Key(req[r])
  BY <1>4, <1>5, CachesTypes
<1>9. Kind(e) = "ssh" /\ Kind(f) = "ssh" /\ e.key[1] = q.conn /\ e.key[2].ver = q.copy.ver
  BY <1>1, <1>3, <1>7, <1>8 DEF Kind, Key
<1>10. pools[p].key = None /\ (pools[p].open \/ faults > 0)
  BY <1>3 DEF PoolInv, CachesFit
<1>11. CachesFit'
  <2>1. CachesFit
    BY DEF PoolInv
  <2>2. ASSUME NEW g \in knexCache, g.pool = p PROVE Kind(g) = "ssh"
    BY <1>3, <1>9, <2>1, <2>2 DEF CachesFit
  <2>3. ASSUME NEW g \in knexCache'
        PROVE  /\ Kind(g) \in {"plain", "ssh"} /\ pools[g.pool].key = None
               /\ pools[g.pool].open \/ (Kind(g) = "ssh" /\ faults > 0)
               /\ \A h \in knexCache' \union tunnelCache : h.pool = g.pool /\ Kind(g) # "ssh" => h = g
    <3>1. CASE g = e
      BY <1>8, <1>9, <1>10, <3>1
    <3>2. CASE g \in knexCache
      <4>1. /\ Kind(g) \in {"plain", "ssh"} /\ pools[g.pool].key = None
            /\ pools[g.pool].open \/ (Kind(g) = "ssh" /\ faults > 0)
            /\ \A h \in knexCache \union tunnelCache : h.pool = g.pool /\ Kind(g) # "ssh" => h = g
        BY <2>1, <3>2 DEF CachesFit
      <4>2. Kind(g) # "ssh" => e.pool # g.pool
        BY <1>8, <2>2, <3>2
      <4>3. QED
        BY <1>2, <1>8, <4>1, <4>2
    <3>3. QED
      BY <1>2, <1>8, <2>3, <3>1, <3>2
  <2>4. \A g \in tunnelCache :
          Kind(g) = "ssh" /\ pools[g.pool].key = None /\ (pools[g.pool].open \/ faults > 0)
    BY <2>1 DEF CachesFit
  <2>5. \A g \in driverCache : Kind(g) = "mysql_ssh" /\ pools[g.pool].open /\ pools[g.pool].key = g.key
    BY <2>1 DEF CachesFit
  <2>6. \A x \in Ports :
          pools[x] # None /\ pools[x].open /\ pools[x].key = None => \E g \in knexCache' : g.pool = x
    BY <1>2, <2>1 DEF CachesFit
  <2>7. QED
    BY <1>1, <2>3, <2>4, <2>5, <2>6 DEF CachesFit, Kind
<1>12. PoolsGrow
  BY <1>1, <1>2, FaultsNat DEF PoolsGrow
<1>13. OnlyOpens(r)
  BY <1>1, <1>4, <1>7, UsedIsNotOpened
<1>14. OwnsPort(r)'
  BY <1>7 DEF OwnsPort, Opening
<1>15. Reaches(req[r])
  BY DEF PoolInv
<1>16. Bent(req[r]) => Bent(q)'
  BY <1>1, <1>2, <1>7 DEF Bent, Key
<1>17. Reaches(q)'
  BY <1>1, <1>4, <1>7, <1>15, <1>16 DEF Reaches, Asks, Leads
<1>18. EntryOf(e, q)'
  BY <1>1, <1>4, <1>7, <1>8, <1>9 DEF EntryOf, Leads
<1>19. \A g \in AllCached' : g \in AllCached \/ g = e
  BY <1>1, <1>2, <1>8 DEF AllCached
<1>20. QED
  BY <1>1, <1>7, <1>11, <1>12, <1>13, <1>14, <1>17, <1>18, <1>19, PoolStep

\* The tunnel leads to the host of the copy, and the copy to the tunnel.
LEMMA PoolTunnelIsUp ==
  ASSUME Inv, PoolInv, NEW r \in Requests, TunnelIsUp(r)
  PROVE  PoolInv'
<1> DEFINE b == [req[r].copy EXCEPT !.host = req[r].port]
           n == [req[r] EXCEPT !.copy = b, !.pc = "query", !.port = req[r].port]
<1>1. /\ req[r].pc = "tunnel" /\ req[r].pc \in AtPool /\ UNCHANGED <<rowVars, driverCache, faults>>
  BY DEF TunnelIsUp, At, AtPool
<1>2. /\ req[r] \in ReqOf /\ Knows(req[r]) /\ req[r].conn \in ConnIds /\ req[r].copy.host \in EndOf
      /\ req[r].copy \in CopyOf
  BY <1>1, PoolRequest DEF CopyOf, EndOf
<1>3. PICK p \in Ports : req[r].port = p
  BY <1>1, <1>2 DEF Knows
<1>4. req[r].copy.type = "ssh"
  BY <1>1, <1>2 DEF Knows
<1>5. b \in CopyOf /\ b.type = "ssh" /\ b.host = p /\ b.ver = req[r].copy.ver
  BY <1>2, <1>3, <1>4 DEF CopyOf
<1> HIDE DEF b
<1>6. /\ n \in ReqOf /\ n.pc = "query" /\ n.port = p /\ n.copy = b /\ n.op = req[r].op
      /\ n.conn = req[r].conn /\ n.read = req[r].read
  BY <1>2, <1>3, <1>5 DEF ReqOf, Places
<1> HIDE DEF n
<1>7. PICK q \in ReqOf : q = n
  BY <1>6
<1>8. PICK e \in Entries : e = [key |-> <<req[r].conn, b>>, pool |-> p]
  BY <1>2, <1>5 DEF Entries
<1>9. e.key = Key(q) /\ e.pool = p /\ Kind(e) = "ssh" /\ e.key[1] = q.conn /\ e.key[2].ver = q.copy.ver
  BY <1>5, <1>6, <1>7, <1>8 DEF Kind, Key
<1>10. /\ pools' = Opened(p, req[r].copy.host, None)
       /\ knexCache' = knexCache \union {e} /\ tunnelCache' = tunnelCache \union {e}
  <2>1. req[r].conn = [req[r] EXCEPT !.copy.host = req[r].port].conn
    BY <1>2 DEF ReqOf
  <2>2. b = [req[r] EXCEPT !.copy.host = req[r].port].copy
    BY <1>2 DEF ReqOf, b
  <2>3. QED
    BY <1>3, <1>8, <2>1, <2>2 DEF TunnelIsUp, Caches, Key
<1>11. Goes(r, q)
  <2>1. [req[r] EXCEPT !.copy.host = req[r].port] = [req[r] EXCEPT !.copy = b]
    BY DEF b
  <2>2. [[req[r] EXCEPT !.copy = b] EXCEPT !.pc = "query", !.port = req[r].port] = n
    BY DEF n
  <2>3. QED
    BY <1>7, <2>1, <2>2 DEF TunnelIsUp, Querying
<1>12. /\ GoesOnAs(r, q) /\ req'[r] = q
  BY <1>2, <1>5, <1>6, <1>7, <1>11 DEF GoesOnAs, Goes, Inv, TypeOK
<1>13. pools[p] = None /\ \A x \in Requests \ {r} : req[x].port # p
  BY <1>1, <1>3 DEF PoolInv, OwnsPort, Opening
<1>14. CachesFit' /\ PoolsGrow
  BY <1>1, <1>2, <1>9, <1>10, <1>13, KnexOnFresh DEF PoolInv
<1>15. None \in KeyOf
  BY DEF KeyOf
<1>16. pools'[p].to = req[r].copy.host /\ pools'[p] # None /\ \A x \in Ports \ {p} : pools'[x] = pools[x]
  BY <1>2, <1>10, <1>13, <1>15, OpensFresh
<1>17. Asks(req[r])
  BY <1>1 DEF PoolInv, Reaches
<1>18. req[r].copy.host = req[r].read \/ (faults > 0 /\ req[r].copy.host \in Ports)
  BY <1>1 DEF PoolInv, Reaches, Bent
<1>19. Leads(p, "ssh", req[r].read)'
  <2>1. pools'[p].to = req[r].read \/ (faults' > 0 /\ pools'[p].to \in Ports)
    BY <1>1, <1>16, <1>18
  <2>2. PICK h : h = req[r].read
    OBVIOUS
  <2>3. Leads(p, "ssh", h)'
    BY <2>1, <2>2 DEF Leads
  <2>4. q.read = h
    BY <1>6, <1>7, <2>2
  <2>5. QED
    BY <1>12, <2>3, <2>4
<1>20. OnlyOpens(r)
  BY <1>6, <1>7, <1>12, <1>13, <1>16, OpensOwnPort
<1>21. OwnsPort(r)'
  BY <1>6, <1>7, <1>12 DEF OwnsPort, Opening
<1>22. Bent(q)'
  BY <1>5, <1>6, <1>7, <1>9, <1>10 DEF Bent
<1>23. Reaches(q)'
  BY <1>5, <1>6, <1>7, <1>12, <1>16, <1>17, <1>19, <1>22 DEF Reaches, Asks, Leads
<1>24. EntryOf(e, q)'
  BY <1>6, <1>7, <1>9, <1>12, <1>19 DEF EntryOf, Leads
<1>25. \A f \in AllCached' : f \in AllCached \/ f = e
  BY <1>1, <1>10 DEF AllCached
<1>26. QED
  BY <1>1, <1>12, <1>14, <1>20, <1>21, <1>23, <1>24, <1>25, PoolStep

LEMMA PoolDriverIsUp ==
  ASSUME Inv, PoolInv, NEW r \in Requests, DriverIsUp(r)
  PROVE  PoolInv'
<1>1. req[r].pc = "driver" /\ req[r].pc \in AtPool /\ UNCHANGED <<rowVars, knexCache, tunnelCache, faults>>
  BY DEF DriverIsUp, At, AtPool
<1>2. req[r] \in ReqOf /\ Knows(req[r]) /\ req[r].conn \in ConnIds /\ req[r].copy.host \in EndOf
  BY <1>1, PoolRequest DEF CopyOf, EndOf
<1>3. PICK p \in Ports : req[r].port = p
  BY <1>1, <1>2 DEF Knows
<1>4. /\ req[r].copy.type = "mysql_ssh" /\ Asks(req[r]) /\ req[r].copy.host = req[r].read
  BY <1>1 DEF PoolInv, Reaches, Bent
<1>5. PICK e \in Entries : e = Caches(req[r], p) /\ e.pool = p /\ e.key = Key(req[r])
  BY <1>2, CachesTypes
<1>6. /\ pools' = Opened(p, req[r].copy.host, e.key)
      /\ driverCache' \subseteq driverCache \union {e} /\ Goes(r, ToPool(r, "query", p))
  BY <1>3, <1>5 DEF DriverIsUp, Querying, ToPool
<1>7. PICK q \in ReqOf : q = ToPool(r, "query", p)
  BY <1>1, GoesToPool
<1>8. /\ GoesOnAs(r, q) /\ req'[r] = q /\ q.read = req[r].read /\ q.op = req[r].op /\ q.conn = req[r].conn
      /\ q.copy = req[r].copy /\ q.pc = "query" /\ q.port = p
  BY <1>1, <1>6, <1>7, GoesToPool, ToPoolGoes
<1>9. Kind(e) = "mysql_ssh" /\ e.key[1] = q.conn /\ e.key[2].ver = q.copy.ver /\ e.key \in KeyOf
  BY <1>4, <1>5, <1>8 DEF Kind, Key, KeyOf, Entries
<1>10. pools[p] = None /\ \A x \in Requests \ {r} : req[x].port # p
  BY <1>1, <1>3 DEF PoolInv, OwnsPort, Opening
<1>11. CachesFit' /\ PoolsGrow
  BY <1>1, <1>2, <1>5, <1>6, <1>9, <1>10, DriverOnFresh DEF PoolInv
<1>12. pools'[p].to = req[r].copy.host /\ pools'[p] # None /\ \A x \in Ports \ {p} : pools'[x] = pools[x]
  BY <1>2, <1>6, <1>9, <1>10, OpensFresh
<1>13. OnlyOpens(r)
  BY <1>8, <1>10, <1>12, OpensOwnPort
<1>14. OwnsPort(r)'
  BY <1>8 DEF OwnsPort, Opening
<1>15. Reaches(q)'
  BY <1>4, <1>8, <1>12 DEF Reaches, Asks, Leads
<1>16. EntryOf(e, q)'
  BY <1>4, <1>5, <1>8, <1>9, <1>12 DEF EntryOf, Leads
<1>17. \A f \in AllCached' : f \in AllCached \/ f = e
  BY <1>1, <1>6 DEF AllCached
<1>18. QED
  BY <1>1, <1>8, <1>11, <1>13, <1>14, <1>15, <1>16, <1>17, PoolStep

LEMMA PoolTunnelFails ==
  ASSUME Inv, PoolInv, NEW r \in Requests, TunnelFails(r)
  PROVE  PoolInv'
<1> DEFINE q == [req[r] EXCEPT !.pc = "hung"]
<1>1. /\ q.port = req[r].port /\ q.op = req[r].op /\ q.conn = req[r].conn /\ q.pc = "hung"
      /\ q.copy.ver = req[r].copy.ver /\ q.read = req[r].read
  BY ReqTypes DEF ReqOf
<1>2. Goes(r, q) /\ UNCHANGED <<conns, clock>> /\ UNCHANGED cacheVars /\ faults' = faults + 1
  BY DEF TunnelFails, rowVars
<1> HIDE DEF q
<1>3. QED
  BY <1>1, <1>2, QuietMove DEF Elsewhere

\* A query is answered: the copy stays, with its host, for the next one.
LEMMA PoolQuery ==
  ASSUME Inv, PoolInv, NEW r \in Requests, Query(r)
  PROVE  PoolInv'
<1>1. /\ req[r].pc = "query" /\ req[r].pc \in AtPool /\ UNCHANGED <<conns, clock>>
      /\ UNCHANGED rowVars /\ UNCHANGED cacheVars /\ faults' = faults
  BY DEF Query, At, AtPool, rowVars
<1>2. req[r] \in ReqOf /\ Knows(req[r]) /\ req[r].conn \in ConnIds /\ req[r].copy \in CopyOf
  BY <1>1, PoolRequest
<1> DEFINE c == [req[r].copy EXCEPT !.listed = @ \/ req[r].op = "tables"]
           u == req[r].uses - 1
           again == [req[r] EXCEPT !.pc = "dao", !.uses = u]
           saving == [req[r] EXCEPT !.pc = "save", !.copy = c]
<1>3. CASE req[r].uses > 1
  <2>1. Goes(r, again)
    BY <1>3 DEF Query
  <2>2. u \in 0..2
    <3>1. req[r].uses \in 0..2
      BY <1>2 DEF ReqOf
    <3>2. QED
      BY <1>3, <3>1
  <2> HIDE DEF u
  <2>3. /\ again \in ReqOf /\ again.pc = "dao" /\ again.port = req[r].port /\ again.op = req[r].op
        /\ again.conn = req[r].conn /\ again.copy = req[r].copy /\ again.read = req[r].read
    BY <1>2, <2>2 DEF ReqOf, Places
  <2>4. PICK q \in ReqOf : q = again
    BY <2>3
  <2> HIDE DEF again
  <2>5. GoesOnAs(r, q) /\ req'[r] = q
    BY <2>1, <2>3, <2>4 DEF GoesOnAs, Goes, Inv, TypeOK
  <2>6. UNCHANGED <<knexCache, tunnelCache, driverCache, pools>>
    BY <1>1 DEF cacheVars
  <2>7. CachesFit' /\ PoolsGrow
    BY <1>1, FaultsNat, CachesOn DEF PoolInv
  <2>8. Reaches(req[r]) /\ pools[req[r].port] # None /\ req[r].port \in Ports
    BY <1>1, <1>2 DEF PoolInv, Reaches, Knows
  <2>9. OnlyOpens(r)
    BY <2>3, <2>4, <2>5, <2>6, <2>8, UsedIsNotOpened
  <2>10. OwnsPort(r)'
    BY <2>3, <2>4, <2>5 DEF OwnsPort, Opening
  <2>11. Bent(req[r]) => Bent(q)'
    BY <1>1, <2>3, <2>4, <2>6 DEF Bent, Key
  <2>12. Reaches(q)'
    BY <1>1, <2>3, <2>4, <2>8, <2>11 DEF Reaches, Asks
  <2>13. AllCached' = AllCached
    BY <2>6 DEF AllCached
  <2>14. QED
    BY <1>1, <2>5, <2>7, <2>9, <2>10, <2>12, <2>13, PoolStep
<1>4. ASSUME Goes(r, saving) PROVE PoolInv'
  <2>1. c.ver = req[r].copy.ver
    BY <1>2 DEF CopyOf
  <2> HIDE DEF c
  <2>2. /\ saving.port = req[r].port /\ saving.op = req[r].op /\ saving.conn = req[r].conn /\ saving.pc = "save"
        /\ saving.copy.ver = req[r].copy.ver /\ saving.read = req[r].read
    BY <1>2, <2>1 DEF ReqOf
  <2> HIDE DEF saving
  <2>3. QED
    BY <1>1, <1>4, <2>2, QuietMove DEF Elsewhere
<1>5. ASSUME Goes(r, Idle) PROVE PoolInv'
  BY <1>1, <1>5, IdleElsewhere, QuietMove
<1>6. ASSUME ~(req[r].uses > 1) PROVE Goes(r, saving) \/ Goes(r, Idle)
  BY <1>6 DEF Query
<1>7. QED
  BY <1>3, <1>4, <1>5, <1>6

(***************************************************************************)
(* Evictions.                                                              *)
(***************************************************************************)
LEMMA EvictionStep ==
  ASSUME Inv, PoolInv, UNCHANGED <<rowVars, req>>, CachesFit', PoolsGrow, AllCached' \subseteq AllCached,
         \A p \in Ports : pools[p] = None => pools'[p] = None
  PROVE  PoolInv'
<1>1. UNCHANGED <<conns, clock, req>>
  BY DEF rowVars
<1>2. \A c, v, h : Says(c, v, h)' <=> Says(c, v, h)
  BY <1>1 DEF Says, RowSays, ReadSays, Stored, Asks
<1>3. ASSUME NEW e \in AllCached' PROVE EntryFits(e)'
  <2>1. e \in AllCached /\ e.pool \in Ports /\ pools[e.pool] # None
    BY <1>3 DEF Inv, TypeOK, AllCached, Entries
  <2>2. e.key[2].ver <= clock /\ \A h \in EndOf : Says(e.key[1], e.key[2].ver, h) => Leads(e.pool, Kind(e), h)
    BY <2>1 DEF PoolInv, VersionsFit
  <2>3. ASSUME NEW h \in EndOf, Says(e.key[1], e.key[2].ver, h)' PROVE Leads(e.pool, Kind(e), h)'
    <3>1. Leads(e.pool, Kind(e), h)
      BY <1>2, <2>2, <2>3
    <3>2. QED
      BY <2>1, <3>1, LeadsOn
  <2>4. QED
    BY <1>1, <2>2, <2>3 DEF EntryFits, Kind
<1>4. VersionsFit'
  <2>1. /\ \A c \in ConnIds, v \in Nat, h \in EndOf : Says(c, v, h) => v <= clock
        /\ \A c \in ConnIds, v \in Nat, h, g \in EndOf : Says(c, v, h) /\ Says(c, v, g) => h = g
    BY DEF PoolInv, VersionsFit
  <2>2. /\ \A c \in ConnIds, v \in Nat, h \in EndOf : Says(c, v, h)' => v <= clock'
        /\ \A c \in ConnIds, v \in Nat, h, g \in EndOf : Says(c, v, h)' /\ Says(c, v, g)' => h = g
    BY <1>1, <1>2, <2>1
  <2>3. QED
    BY <1>3, <2>2 DEF VersionsFit, EntryFits
<1>5. ASSUME NEW x \in Requests PROVE OwnsPort(x)' /\ Reaches(req[x])'
  <2>1. PICK q \in ReqOf : q = req[x] /\ Knows(q) /\ Reaches(q)
    BY ReqTypes DEF PoolInv
  <2>2. Reaches(q)'
    BY <2>1, ReachesOn
  <2>3. Reaches(req[x])'
    BY <1>1, <2>1, <2>2
  <2>4. Opening(req[x]) => req[x].port \in Ports
    BY <2>1 DEF Opening, Knows
  <2>5. OwnsPort(x)
    BY DEF PoolInv
  <2>6. OwnsPort(x)'
    BY <1>1, <2>4, <2>5 DEF OwnsPort, Opening
  <2>7. QED
    BY <2>3, <2>6
<1>6. QED
  BY <1>4, <1>5 DEF PoolInv

\* A pool is closed, and a fault was counted.
LEMMA ClosedOne ==
  ASSUME Inv, NEW p \in Ports, pools[p] # None, pools' = [pools EXCEPT ![p].open = FALSE], faults' = faults + 1
  PROVE  /\ pools'[p].to = pools[p].to /\ ~pools'[p].open /\ pools'[p].key = pools[p].key /\ pools'[p] # None
         /\ \A x \in Ports \ {p} : pools'[x] = pools[x]
         /\ PoolsGrow /\ faults' > 0
<1> DEFINE row == [pools[p] EXCEPT !.open = FALSE]
<1>1. pools \in [Ports -> PoolOf \union {None}] /\ pools[p] \in PoolOf
  BY DEF Inv, TypeOK
<1>2. row.to = pools[p].to /\ ~row.open /\ row.key = pools[p].key /\ row \in PoolOf
  BY <1>1 DEF PoolOf
<1>3. pools'[p] = row /\ \A x \in Ports \ {p} : pools'[x] = pools[x]
  BY <1>1
<1> HIDE DEF row
<1>4. row # None
  BY <1>2, DistinctValues
<1>5. faults \in Nat /\ faults' \in Nat /\ faults' >= faults /\ faults' > 0
  BY FaultsNat
<1>6. PoolsGrow
  BY <1>2, <1>3, <1>4, <1>5 DEF PoolsGrow
<1>7. QED
  BY <1>2, <1>3, <1>4, <1>5, <1>6

LEMMA PoolEvict ==
  ASSUME Inv, PoolInv, Evict
  PROVE  PoolInv'
<1>1. PICK e \in knexCache : knexCache' = knexCache \ {e} /\ pools' = [pools EXCEPT ![e.pool].open = FALSE]
  BY DEF Evict
<1>2. UNCHANGED <<rowVars, tunnelCache, driverCache, req>> /\ faults' = faults + 1
  BY DEF Evict
<1>3. e.pool \in Ports /\ pools[e.pool] # None
  BY DEF Inv, TypeOK, Entries
<1>4. /\ ~pools'[e.pool].open /\ pools'[e.pool].key = pools[e.pool].key /\ pools'[e.pool] # None
      /\ \A x \in Ports \ {e.pool} : pools'[x] = pools[x]
      /\ PoolsGrow /\ faults' > 0
  BY <1>1, <1>2, <1>3, ClosedOne
<1>5. CachesFit
  BY DEF PoolInv
<1>6. \A f \in AllCached : f.pool \in Ports /\ pools[f.pool] # None
  BY DEF Inv, TypeOK, Entries, AllCached
<1>7. \A f \in AllCached : pools'[f.pool].key = pools[f.pool].key
  BY <1>4, <1>6
<1>8. ASSUME NEW f \in knexCache'
      PROVE  /\ Kind(f) \in {"plain", "ssh"} /\ pools'[f.pool].key = None
             /\ pools'[f.pool].open \/ (Kind(f) = "ssh" /\ faults' > 0)
             /\ \A g \in knexCache' \union tunnelCache' : g.pool = f.pool /\ Kind(f) # "ssh" => g = f
  <2>1. f \in knexCache /\ f # e
    BY <1>1, <1>8
  <2>2. /\ Kind(f) \in {"plain", "ssh"} /\ pools'[f.pool].key = None
        /\ pools[f.pool].open \/ Kind(f) = "ssh"
        /\ \A g \in knexCache \union tunnelCache : g.pool = f.pool /\ Kind(f) # "ssh" => g = f
    BY <1>5, <1>7, <2>1 DEF CachesFit, AllCached
  <2>3. f.pool = e.pool => Kind(f) = "ssh"
    BY <2>1, <2>2
  <2>4. f.pool # e.pool => pools'[f.pool] = pools[f.pool]
    BY <1>4, <1>6, <2>1 DEF AllCached
  <2>5. QED
    BY <1>1, <1>2, <1>4, <2>2, <2>3, <2>4
<1>9. \A f \in tunnelCache : Kind(f) = "ssh" /\ pools'[f.pool].key = None /\ faults' > 0
  BY <1>4, <1>5, <1>7 DEF CachesFit, AllCached
<1>10. ASSUME NEW f \in driverCache
       PROVE  Kind(f) = "mysql_ssh" /\ pools'[f.pool].open /\ pools'[f.pool].key = f.key
  <2>1. Kind(f) = "mysql_ssh" /\ pools[f.pool].open /\ pools[f.pool].key = f.key
    BY <1>5 DEF CachesFit
  <2>2. f \in Entries
    BY DEF Inv, TypeOK
  <2>3. f.key \in ConnIds \X CopyOf
    BY <2>2 DEF Entries
  <2>4. f.key # None
    BY <2>3, DistinctValues
  <2>5. f.pool # e.pool
    BY <1>5, <2>1, <2>4 DEF CachesFit
  <2>6. QED
    BY <1>4, <1>6, <2>1, <2>5 DEF AllCached
<1>11. ASSUME NEW x \in Ports, pools'[x] # None, pools'[x].open, pools'[x].key = None
       PROVE  \E f \in knexCache' : f.pool = x
  <2>1. x # e.pool /\ pools'[x] = pools[x]
    BY <1>4, <1>11
  <2>2. PICK f \in knexCache : f.pool = x
    BY <1>5, <1>11, <2>1 DEF CachesFit
  <2>3. QED
    BY <1>1, <2>1, <2>2
<1>12. CachesFit'
  BY <1>2, <1>8, <1>9, <1>10, <1>11 DEF CachesFit, Kind
<1>13. AllCached' \subseteq AllCached
  BY <1>1, <1>2 DEF AllCached
<1>14. \A x \in Ports : pools[x] = None => pools'[x] = None
  BY <1>3, <1>4
<1>15. QED
  BY <1>2, <1>4, <1>12, <1>13, <1>14, EvictionStep

LEMMA PoolEvictElse ==
  ASSUME Inv, PoolInv, EvictTunnel \/ EvictDriver
  PROVE  PoolInv'
<1>1. /\ UNCHANGED <<rowVars, pools, knexCache, req>> /\ faults' = faults + 1
      /\ tunnelCache' \subseteq tunnelCache /\ driverCache' \subseteq driverCache
  BY DEF EvictTunnel, EvictDriver
<1>2. faults \in Nat /\ faults' \in Nat /\ faults' >= faults /\ faults' > 0
  BY <1>1, FaultsNat
<1>3. CachesFit
  BY DEF PoolInv
<1>4. CachesFit'
  BY <1>1, <1>2, <1>3 DEF CachesFit, Kind
<1>5. PoolsGrow
  BY <1>1, <1>2 DEF PoolsGrow
<1>6. AllCached' \subseteq AllCached
  BY <1>1 DEF AllCached
<1>7. QED
  BY <1>1, <1>4, <1>5, <1>6, EvictionStep

LEMMA PoolDriverCloses ==
  ASSUME Inv, PoolInv, DriverCloses
  PROVE  PoolInv'
<1>1. PICK p \in Ports : /\ pools[p] # None /\ pools[p].open /\ pools[p].key # None
                         /\ pools' = [pools EXCEPT ![p].open = FALSE]
                         /\ driverCache' = {e \in driverCache : e.key # pools[p].key}
  BY DEF DriverCloses
<1>2. UNCHANGED <<rowVars, knexCache, tunnelCache, req>> /\ faults' = faults + 1
  BY DEF DriverCloses
<1>3. /\ ~pools'[p].open /\ pools'[p] # None
      /\ \A x \in Ports \ {p} : pools'[x] = pools[x]
      /\ PoolsGrow /\ faults' > 0
  BY <1>1, <1>2, ClosedOne
<1>4. CachesFit
  BY DEF PoolInv
<1>5. \A f \in AllCached : f.pool \in Ports
  BY DEF Inv, TypeOK, Entries, AllCached
<1>6. \A f \in knexCache \union tunnelCache : f.pool # p /\ pools'[f.pool] = pools[f.pool]
  BY <1>1, <1>3, <1>4, <1>5 DEF CachesFit, AllCached
<1>7. \A f \in driverCache' : f \in driverCache /\ f.pool # p /\ pools'[f.pool] = pools[f.pool]
  BY <1>1, <1>3, <1>4, <1>5 DEF CachesFit, AllCached
<1>8. ASSUME NEW x \in Ports, pools'[x] # None, pools'[x].open, pools'[x].key = None
      PROVE  \E f \in knexCache : f.pool = x
  BY <1>3, <1>4, <1>8 DEF CachesFit
<1>9. CachesFit'
  BY <1>2, <1>3, <1>4, <1>6, <1>7, <1>8 DEF CachesFit, Kind
<1>10. AllCached' \subseteq AllCached
  BY <1>2, <1>7 DEF AllCached
<1>11. \A x \in Ports : pools[x] = None => pools'[x] = None
  BY <1>1, <1>3
<1>12. QED
  BY <1>2, <1>3, <1>9, <1>10, <1>11, EvictionStep

LEMMA InitPools == Init => PoolInv
<1> SUFFICES ASSUME Init PROVE PoolInv
  OBVIOUS
<1>1. /\ knexCache = {} /\ tunnelCache = {} /\ driverCache = {} /\ \A p \in Ports : pools[p] = None
      /\ \A r \in Requests : req[r] = Idle
      /\ clock = 0
  BY DEF Init
<1>2. CachesFit
  BY <1>1 DEF CachesFit
<1>3. ASSUME NEW r \in Requests PROVE OwnsPort(r) /\ Reaches(req[r]) /\ ~Asks(req[r])
  BY <1>1, <1>3, DistinctValues DEF OwnsPort, Opening, Reaches, Asks, Idle, AtPool, Ops
<1>4. PICK type \in Types, host \in Hosts, shown \in SUBSET ConnIds :
        conns = [c \in ConnIds |-> IF c \notin shown THEN None
                                   ELSE [type |-> type, host |-> host, listed |-> FALSE, ver |-> 0]]
  BY DEF Init
<1>5. \A c \in ConnIds : \A v, h : Says(c, v, h) => v = 0 /\ h = host
  BY <1>3, <1>4 DEF Says, RowSays, ReadSays, Stored
<1>6. VersionsFit
  BY <1>1, <1>5 DEF VersionsFit, AllCached
<1>7. QED
  BY <1>2, <1>3, <1>6 DEF PoolInv

LEMMA HandleKeepsPools ==
  ASSUME Inv, PoolInv, NEW r \in Requests, Handle(r)
  PROVE  PoolInv'
BY PoolCreate, PoolUpdate, PoolRestore, PoolUpdateMasterPwd, PoolBareStart, PoolQueries, PoolInsert,
   PoolAddGroup, PoolAddPermission, PoolRefused, PoolFindAgent, PoolFindConn, PoolSavesAgent, PoolSave,
   PoolRemove, PoolLeave, PoolCachedKnex, PoolNewKnex, PoolCachedTunnel, PoolStartTunnel, PoolCachedDriver,
   PoolStartDriver, PoolDriverIsUp, PoolTunnelIsUp, PoolTunnelFails, PoolQuery
DEF Handle

LEMMA NextKeepsPools == Inv /\ PoolInv /\ [Next]_vars => PoolInv'
<1> SUFFICES ASSUME Inv, PoolInv, [Next]_vars PROVE PoolInv'
  OBVIOUS
<1>1. CASE Next
  BY <1>1, HandleKeepsPools, PoolEvict, PoolEvictElse, PoolDriverCloses DEF Next
<1>2. CASE UNCHANGED vars
  <2>1. UNCHANGED <<rowVars, cacheVars, req, faults>> /\ UNCHANGED <<pools, knexCache, tunnelCache, driverCache>>
    BY <1>2 DEF vars, cacheVars
  <2>2. CachesFit' /\ PoolsGrow
    BY <2>1, FaultsNat, CachesOn DEF PoolInv
  <2>3. AllCached' = AllCached
    BY <2>1 DEF AllCached
  <2>4. QED
    BY <2>1, <2>2, <2>3, EvictionStep
<1>3. QED
  BY <1>1, <1>2

LEMMA AlwaysPools == Spec => []PoolInv
<1>1. Inv /\ PoolInv /\ [Next]_vars => PoolInv'
  BY NextKeepsPools
<1>2. QED
  BY <1>1, InitPools, AlwaysInv, PTL DEF Spec

(***************************************************************************)
(* A query goes to the host and port that its request has read, whatever   *)
(* is changed, cached and evicted meanwhile; a tunnel that left the caches *)
(* in the middle of a request is the one exception                         *)
(* (tunnel-creator.ts:26-34, cacher.ts:42-63).                             *)
(***************************************************************************)
THEOREM QueriesAlwaysGoWhereTheRowSays == Spec => []QueriesGoWhereTheRowSays
<1>1. Inv /\ PoolInv => QueriesGoWhereTheRowSays
  <2> SUFFICES ASSUME Inv, PoolInv, NEW r \in Requests, At(r, "query"), pools[req[r].port].to # req[r].read
               PROVE  req[r].copy.type = "ssh" /\ faults > 0 /\ pools[req[r].port].to \in Ports
    BY DEF QueriesGoWhereTheRowSays
  <2>1. Leads(req[r].port, req[r].copy.type, req[r].read)
    BY DEF PoolInv, Reaches, At
  <2>2. QED
    BY <2>1 DEF Leads
<1>2. QED
  BY <1>1, AlwaysInv, AlwaysPools, PTL

(***************************************************************************)
(* What is found in a cache is open, unless the tunnel of an evicted pool  *)
(* brought it back, and a pool that is open can still be evicted           *)
(* (tunnel-creator.ts:18-21, constants.ts:62-66).                          *)
(***************************************************************************)
THEOREM CachesAlwaysHoldOpenPools == Spec => []CachesHoldOpenPools
<1>1. PoolInv => CachesHoldOpenPools
  BY DEF PoolInv, CachesFit, CachesHoldOpenPools, Kind
<1>2. QED
  BY <1>1, AlwaysPools, PTL

(***************************************************************************)
(* Tokens.  A row of an agent is about one connection for good: whoever    *)
(* holds its id, as the agent that was found or with the copy that was     *)
(* read, is about that connection, and so is the row, unless it is         *)
(* unlinked.                                                               *)
(***************************************************************************)
Holds(q) == {q.agent, q.copy.agent} \intersect Tokens
AgentsFit ==
  /\ \A a \in Tokens : agents[a] # None => a \in issued
  /\ \A r \in Requests : \A a \in Holds(req[r]) :
       /\ a \in issued
       /\ Stored(agents[a]) => agents[a].conn \in {req[r].conn, None}
       /\ \A x \in Requests : a \in Holds(req[x]) => req[x].conn = req[r].conn

Renews(q) == q.op \in {"create", "update", "restore", "refresh"}
Stands(q) ==
  /\ q.pc \in {"findAgent", "findConn", "renew"} => q.op \in {"update", "refresh"}
  /\ q.pc = "createAgent" => Renews(q)
Owned(q) ==
  /\ Stands(q)
  /\ q.owner \in {q.conn, None}
  /\ q.op \in {"create", "restore"} => q.owner = q.conn
  /\ q.op = "update" => q.copy.agent \in Tokens \union {None}
  /\ q.token # None => Renews(q) /\ q.pc # "insert"

\* What a request that met no other knows of the agents of its connection.
OneAgent(c, t) == \E a \in Tokens : AgentsOf(c) = {a} /\ agents[a].token = t
Unlinks(q)     == q.op = "update" /\ q.copy.agent = None
Expects(r) ==
  LET q == req[r]  c == q.conn IN
  q.alone =>
    /\ c \in ConnIds /\ Secluded(r)
    /\ q.op = "refresh" => Stored(conns[c])
    /\ q.op = "refresh" /\ q.pc = "createAgent" => q.owner = c
    /\ q.op = "update" /\ q.copy.agent \in Tokens /\ q.pc \in {"findAgent", "findConn", "createAgent", "renew"} =>
         q.copy.agent \in AgentsOf(c) /\ q.pc \in {"findAgent", "renew"}
    /\ q.token # None /\ q.pc \in {"group", "permissions", "save"} /\ ~Unlinks(q) =>
         OneAgent(c, q.token) /\ (q.pc = "save" => q.copy.agent \in AgentsOf(c))

TokenInv == AgentsFit /\ \A r \in Requests : Owned(req[r]) /\ Expects(r)

(***************************************************************************)
(* What a step of request r may do to the rows of agents: it writes those  *)
(* of its connection, those it holds and new ones, and leaves them there.  *)
(***************************************************************************)
RowsOfOne(r) ==
  LET c == req[r].conn IN
  /\ issued \subseteq issued'
  /\ \A d \in ConnIds \ {c} : conns'[d] = conns[d]
  /\ \A a \in Tokens :
       \/ agents'[a] = agents[a]
       \/ /\ Stored(agents[a]) => agents[a].conn \in {c, None}
          /\ Stored(agents'[a]) => agents'[a].conn \in {c, None}
          /\ a \in Holds(req[r]) \/ a \notin issued \/ a \in AgentsOf(c)
          /\ a \in issued'
HoldsOfOne(r) ==
  LET c == req[r].conn IN
  \A a \in Holds(req'[r]) : /\ req'[r].conn = c /\ a \in issued'
                            /\ a \in Holds(req[r]) \/ a \in AgentsOf(c) \/ a \notin issued
OthersStay(r) == \A x \in Requests \ {r} : req'[x] = req[x]

LEMMA AgentTypes ==
  ASSUME Inv
  PROVE  /\ \A a \in Tokens : Stored(agents[a]) => agents[a].conn \in ConnIds \union {None}
         /\ \A a \in Tokens : agents[a] \in AgentOf => Stored(agents[a])
         /\ None \notin ConnIds \union Tokens
<1>1. \A a \in Tokens : agents[a] \in AgentOf \union {None, Gone}
  BY DEF Inv, TypeOK
<1>2. \A a \in Tokens : Stored(agents[a]) => agents[a].conn \in ConnIds \union {None}
  BY <1>1 DEF Stored, AgentOf
<1>3. \A row \in AgentOf : Stored(row)
  BY DistinctValues DEF Stored
<1>4. QED
  BY <1>2, <1>3, DistinctValues

LEMMA StepAgentsFit ==
  ASSUME Inv, AgentsFit, NEW r \in Requests, req[r].conn \in ConnIds,
         OthersStay(r), RowsOfOne(r), HoldsOfOne(r)
  PROVE  AgentsFit'
<1> DEFINE c == req[r].conn
<1>1. c # None
  BY AgentTypes
<1>2. /\ \A a \in Tokens : agents[a] # None => a \in issued
      /\ \A y \in Requests : \A a \in Holds(req[y]) :
           /\ a \in issued
           /\ Stored(agents[a]) => agents[a].conn \in {req[y].conn, None}
           /\ \A x \in Requests : a \in Holds(req[x]) => req[x].conn = req[y].conn
  BY DEF AgentsFit
<1>3. issued \subseteq issued'
  BY DEF RowsOfOne
<1>4. ASSUME NEW a \in Tokens, agents'[a] # None PROVE a \in issued'
  BY <1>2, <1>3, <1>4 DEF RowsOfOne
<1>5. ASSUME NEW y \in Requests, NEW a \in Holds(req[y]), a \in AgentsOf(c) \/ a \in Holds(req[r])
      PROVE  req[y].conn = c
  <2>1. CASE a \in AgentsOf(c)
    <3>1. Stored(agents[a]) /\ agents[a].conn = c
      BY <2>1 DEF AgentsOf
    <3>2. QED
      BY <1>1, <1>2, <3>1
  <2>2. CASE a \in Holds(req[r])
    BY <1>2, <2>2
  <2>3. QED
    BY <1>5, <2>1, <2>2
\* Whoever holds an agent after the step is about the connection of its row.
<1>6. ASSUME NEW y \in Requests, NEW a \in Tokens, a \in Holds(req'[y])
      PROVE  /\ a \in issued' /\ (y # r => a \in Holds(req[y]) /\ req'[y].conn = req[y].conn)
             /\ y = r => req'[y].conn = c
             /\ Stored(agents'[a]) => agents'[a].conn \in {req'[y].conn, None}
  <2>1. CASE y = r
    <3>1. /\ req'[r].conn = c /\ a \in issued'
          /\ a \in Holds(req[r]) \/ a \in AgentsOf(c) \/ a \notin issued
      BY <1>6, <2>1 DEF HoldsOfOne
    <3>2. Stored(agents[a]) => agents[a].conn \in {c, None}
      BY <1>2, <3>1 DEF AgentsOf, Stored
    <3>3. QED
      BY <2>1, <3>1, <3>2 DEF RowsOfOne
  <2>2. CASE y # r
    <3>1. req'[y] = req[y]
      BY <2>2 DEF OthersStay
    <3>2. a \in Holds(req[y]) /\ req'[y].conn = req[y].conn
      BY <1>6, <3>1 DEF Holds
    <3>3. a \in issued /\ (Stored(agents[a]) => agents[a].conn \in {req[y].conn, None})
      BY <1>2, <3>2
    <3>4. a \in AgentsOf(c) \/ a \in Holds(req[r]) => req[y].conn = c
      BY <1>5, <3>2
    <3>5. QED
      BY <1>3, <2>2, <3>2, <3>3, <3>4 DEF RowsOfOne
  <2>3. QED
    BY <2>1, <2>2
<1>7. ASSUME NEW y \in Requests, NEW x \in Requests, NEW a \in Tokens, a \in Holds(req'[y]), a \in Holds(req'[x])
      PROVE  req'[x].conn = req'[y].conn
  <2>1. CASE y # r /\ x # r
    BY <1>2, <1>6, <1>7, <2>1
  <2>2. ASSUME NEW z \in Requests \ {r}, a \in Holds(req'[z]), a \in Holds(req'[r])
        PROVE  req'[z].conn = c
    <3>1. a \in Holds(req[z]) /\ req'[z].conn = req[z].conn /\ a \in issued
      BY <1>2, <1>6, <2>2
    <3>2. a \in Holds(req[r]) \/ a \in AgentsOf(c)
      BY <2>2, <3>1 DEF HoldsOfOne
    <3>3. QED
      BY <1>5, <3>1, <3>2
  <2>3. a \in Holds(req'[r]) => req'[r].conn = c
    BY <1>6
  <2>4. QED
    BY <1>7, <2>1, <2>2, <2>3
<1>8. \A q : Holds(q) \subseteq Tokens
  BY DEF Holds
<1>9. \A y \in Requests : Holds(req[y])' = Holds(req'[y])
  BY DEF Holds
<1>10. QED
  BY <1>4, <1>6, <1>7, <1>8, <1>9 DEF AgentsFit, Stored, Holds

\* The agents of another connection stay as they are.
LEMMA OtherAgents ==
  ASSUME Inv, NEW r \in Requests, RowsOfOne(r), NEW d \in ConnIds, d # req[r].conn
  PROVE  AgentsOf(d)' = AgentsOf(d) /\ (\A a \in AgentsOf(d) : agents'[a] = agents[a]) /\ conns'[d] = conns[d]
<1>1. d # None
  BY AgentTypes
<1>2. \A a \in Tokens : (Stored(agents'[a]) /\ agents'[a].conn = d) <=> (Stored(agents[a]) /\ agents[a].conn = d)
  BY <1>1 DEF RowsOfOne
<1>3. \A a \in AgentsOf(d) : agents'[a] = agents[a]
  BY <1>1 DEF RowsOfOne, AgentsOf
<1>4. QED
  BY <1>2, <1>3 DEF AgentsOf, Stored, RowsOfOne

LEMMA StepKeepsTokens ==
  ASSUME Inv, TokenInv, NEW r \in Requests, req[r].conn \in ConnIds,
         OthersStay(r), RowsOfOne(r), HoldsOfOne(r), req'[r].conn \in {req[r].conn, None},
         Owned(req'[r]), Expects(r)'
  PROVE  TokenInv'
<1>1. AgentsFit'
  BY StepAgentsFit DEF TokenInv
<1>2. ASSUME NEW x \in Requests \ {r} PROVE Owned(req'[x]) /\ Expects(x)'
  <2>1. req'[x] = req[x] /\ Owned(req[x]) /\ Expects(x)
    BY DEF OthersStay, TokenInv
  <2> SUFFICES ASSUME req[x].alone PROVE Owned(req'[x]) /\ Expects(x)'
    BY <2>1 DEF Expects
  <2>0. PICK d \in ConnIds : d = req[x].conn
    BY <2>1 DEF Expects
  <2>2. d # None /\ (\A y \in Requests \ {x} : req[y].conn # d) /\ d # req[r].conn
    BY <2>0, <2>1, AgentTypes DEF Expects, Secluded
  <2>3. \A y \in Requests \ {x} : req'[y].conn # d
    BY <2>2 DEF OthersStay
  <2>4. AgentsOf(d)' = AgentsOf(d) /\ (\A a \in AgentsOf(d) : agents'[a] = agents[a]) /\ conns'[d] = conns[d]
    BY <2>2, OtherAgents
  <2>5. OneAgent(d, req[x].token) => OneAgent(d, req[x].token)'
    BY <2>1, <2>4 DEF OneAgent
  <2>6. /\ req[x].op = "refresh" => Stored(conns[d])
        /\ req[x].op = "refresh" /\ req[x].pc = "createAgent" => req[x].owner = d
        /\ (req[x].op = "update" /\ req[x].copy.agent \in Tokens
              /\ req[x].pc \in {"findAgent", "findConn", "createAgent", "renew"}) =>
             req[x].copy.agent \in AgentsOf(d) /\ req[x].pc \in {"findAgent", "renew"}
        /\ (req[x].token # None /\ req[x].pc \in {"group", "permissions", "save"} /\ ~Unlinks(req[x])) =>
             OneAgent(d, req[x].token) /\ (req[x].pc = "save" => req[x].copy.agent \in AgentsOf(d))
    BY <2>0, <2>1 DEF Expects
  <2>8. Secluded(x)'
    BY <2>0, <2>1, <2>3 DEF Secluded
  <2>9. Stored(conns[d]) => Stored(conns'[d])
    BY <2>4
  <2>10. Owned(req'[x])
    BY <2>1
  <2>11. Expects(x)'
    <3>1. req'[x] = req[x] /\ d = req'[x].conn
      BY <2>0, <2>1
    <3>2. (req[x].token # None /\ req[x].pc \in {"group", "permissions", "save"} /\ ~Unlinks(req[x])) =>
             OneAgent(d, req[x].token)' /\ (req[x].pc = "save" => req[x].copy.agent \in AgentsOf(d)')
      BY <2>4, <2>5, <2>6
    <3>3. (req[x].op = "update" /\ req[x].copy.agent \in Tokens
              /\ req[x].pc \in {"findAgent", "findConn", "createAgent", "renew"}) =>
             req[x].copy.agent \in AgentsOf(d)' /\ req[x].pc \in {"findAgent", "renew"}
      BY <2>4, <2>6
    <3>4. req[x].op = "refresh" => Stored(conns[d])'
      BY <2>4, <2>6 DEF Stored
    <3>5. QED
      BY <2>6, <2>8, <3>1, <3>2, <3>3, <3>4 DEF Expects, Unlinks
  <2>12. QED
    BY <2>10, <2>11
<1>3. QED
  BY <1>1, <1>2 DEF TokenInv, Owned

(***************************************************************************)
(* A request that starts holds at most an agent of its connection.         *)
(***************************************************************************)
StartsWell(q, c) ==
  /\ q.conn = c /\ q.agent = None /\ q.token = None /\ q.owner \in {c, None} /\ Stands(q)
  /\ q.op \in {"create", "restore"} => q.owner = c
  /\ q.copy.agent \in AgentsOf(c) \union {None, Undefined}
  /\ q.op = "update" => q.copy.agent # Undefined /\ q.pc \in {"findAgent", "save"}
  /\ q.op = "refresh" => q.pc = "findAgent" /\ Stored(conns[c])

LEMMA StartKeepsTokens ==
  ASSUME Inv, TokenInv, NEW r \in Requests, NEW q \in ReqOf, Starts(r, q), NEW c \in ConnIds,
         StartsWell(q, c), UNCHANGED rowVars
  PROVE  TokenInv'
<1> DEFINE e == [q EXCEPT !.alone = Others(r, c) = {}]
           f(x) == [req[x] EXCEPT !.alone = FALSE]
<1>1. q.conn = c /\ c # None /\ q.agent = None /\ q.token = None
  BY AgentTypes DEF StartsWell
<1>2. /\ e.conn = c /\ e.agent = None /\ e.token = None /\ e.op = q.op /\ e.pc = q.pc /\ e.owner = q.owner
      /\ e.copy = q.copy /\ (e.alone => Others(r, c) = {})
  BY <1>1 DEF ReqOf
<1>3. \A x \in Requests :
        /\ f(x).op = req[x].op /\ f(x).pc = req[x].pc /\ f(x).conn = req[x].conn /\ f(x).copy = req[x].copy
        /\ f(x).agent = req[x].agent /\ f(x).owner = req[x].owner /\ f(x).token = req[x].token /\ ~f(x).alone
  BY DEF Inv, TypeOK, ReqOf
<1>4. req' = [x \in Requests |-> IF x = r THEN e ELSE IF x \in Others(r, c) THEN f(x) ELSE req[x]]
  BY <1>1 DEF Starts
<1> HIDE DEF e, f
<1>5. req'[r] = e
  BY <1>4
<1>6. ASSUME NEW x \in Requests \ {r}
      PROVE  /\ req'[x].op = req[x].op /\ req'[x].pc = req[x].pc /\ req'[x].conn = req[x].conn
             /\ req'[x].copy = req[x].copy /\ req'[x].agent = req[x].agent /\ req'[x].owner = req[x].owner
             /\ req'[x].token = req[x].token
             /\ req'[x].alone => req'[x] = req[x] /\ req[x].conn # c
  BY <1>3, <1>4 DEF Others
<1>7. /\ agents' = agents /\ conns' = conns /\ issued' = issued
  BY DEF rowVars
<1>8. Holds(e) \subseteq AgentsOf(c)
  BY <1>2, DistinctValues DEF Holds, StartsWell
<1>9. \A x \in Requests \ {r} : Holds(req'[x]) = Holds(req[x]) /\ req'[x].conn = req[x].conn
  BY <1>6 DEF Holds
<1>10. AgentsFit'
  <2>1. \A x \in Requests : \A a \in Holds(req'[x]) :
          /\ a \in Tokens /\ a \in issued /\ (Stored(agents[a]) => agents[a].conn \in {req'[x].conn, None})
          /\ a \in AgentsOf(c) => req'[x].conn = c
    <3>1. \A a \in AgentsOf(c) : a \in Tokens /\ a \in issued /\ Stored(agents[a]) /\ agents[a].conn = c
      BY DEF AgentsOf, TokenInv, AgentsFit, Stored
    <3>2. \A a \in Holds(req'[r]) : a \in AgentsOf(c)
      BY <1>5, <1>8
    <3>3. \A x \in Requests \ {r} : \A a \in Holds(req'[x]) :
            a \in Tokens /\ a \in issued /\ (Stored(agents[a]) => agents[a].conn \in {req'[x].conn, None})
      BY <1>9 DEF TokenInv, AgentsFit, Holds
    <3>4. QED
      BY <1>1, <1>2, <1>5, <3>1, <3>2, <3>3
  <2>2. \A x, y \in Requests : \A a \in Holds(req'[x]) :
          a \in Holds(req'[y]) => req'[x].conn = req'[y].conn
    <3>1. \A x, y \in Requests \ {r} : \A a \in Holds(req[x]) :
            a \in Holds(req[y]) => req[x].conn = req[y].conn
      BY DEF TokenInv, AgentsFit
    <3>2. \A x, y \in Requests \ {r} : \A a \in Holds(req'[x]) :
            a \in Holds(req'[y]) => req'[x].conn = req'[y].conn
      BY <1>9, <3>1
    <3>3. \A a \in Holds(req'[r]) : a \in AgentsOf(c)
      BY <1>5, <1>8
    <3>4. QED
      BY <1>2, <1>5, <2>1, <3>2, <3>3
  <2>3. \A a \in Tokens : agents[a] # None => a \in issued
    BY DEF TokenInv, AgentsFit
  <2>4. \A x \in Requests : Holds(req[x])' = Holds(req'[x])
    BY DEF Holds
  <2>5. QED
    BY <1>7, <2>1, <2>2, <2>3, <2>4 DEF AgentsFit, Stored
<1>11. Owned(req'[r])
  <2>1. AgentsOf(c) \subseteq Tokens
    BY DEF AgentsOf
  <2>2. QED
    BY <1>2, <1>5, <2>1 DEF StartsWell, Owned, Stands, Renews
<1>12. Expects(r)'
  <2>1. SUFFICES ASSUME e.alone PROVE Expects(r)'
    BY <1>5 DEF Expects
  <2>2. Secluded(r)'
    BY <1>2, <1>5, <1>6, <2>1 DEF Secluded, Others
  <2>3. AgentsOf(c)' = AgentsOf(c) /\ conns'[c] = conns[c]
    BY <1>7 DEF AgentsOf, Stored
  <2>4. /\ e.op = "refresh" => e.pc = "findAgent" /\ Stored(conns[c])'
        /\ e.op = "update" => e.pc \in {"findAgent", "save"} /\ e.copy.agent \in AgentsOf(c)' \union {None}
    BY <1>2, <2>3 DEF StartsWell, Stored
  <2>5. None \notin Tokens
    BY DistinctValues
  <2>6. QED
    BY <1>2, <1>5, <2>2, <2>4, <2>5 DEF Expects
<1>13. ASSUME NEW x \in Requests \ {r} PROVE Owned(req'[x]) /\ Expects(x)'
  <2>1. Owned(req[x]) /\ Expects(x)
    BY DEF TokenInv
  <2>2. Owned(req'[x])
    BY <1>6, <2>1 DEF Owned, Stands, Renews
  <2>3. SUFFICES ASSUME req'[x].alone PROVE Expects(x)'
    BY <2>2 DEF Expects
  <2>4. req'[x] = req[x] /\ req[x].conn # c
    BY <1>6, <2>3
  <2>5. Secluded(x)'
    <3>1. Secluded(x)
      BY <2>1, <2>3, <2>4 DEF Expects
    <3>2. \A y \in Requests \ {x} : req'[y].conn # req[x].conn
      BY <1>2, <1>5, <1>6, <2>4, <3>1 DEF Secluded
    <3>3. QED
      BY <2>4, <3>2 DEF Secluded
  <2>6. QED
    BY <1>7, <2>1, <2>3, <2>4, <2>5 DEF Expects, Stored, AgentsOf, OneAgent, Unlinks
<1>14. QED
  BY <1>10, <1>11, <1>12, <1>13 DEF TokenInv, Owned

(***************************************************************************)
(* A request that moves on, or ends, and writes no agent.                  *)
(***************************************************************************)
LEMMA IdleHoldsNothing ==
  /\ Holds(Idle) = {} /\ Owned(Idle) /\ ~Idle.alone /\ Idle.conn = None /\ Idle \in ReqOf
<1>1. None \notin Tokens /\ Undefined \notin Tokens
  BY DistinctValues
<1>2. Holds(Idle) = {}
  BY <1>1 DEF Holds, Idle, NoCopy
<1>3. Idle.op \notin {"create", "restore", "update"}
  BY NoneIsNoOp DEF Idle, Ops
<1>4. QED
  BY <1>2, <1>3, IdleKnows DEF Owned, Stands, Idle

Carries(p, q) ==
  /\ q.op = p.op /\ q.conn = p.conn /\ q.agent = p.agent /\ q.copy.agent = p.copy.agent
  /\ q.owner = p.owner /\ q.token = p.token /\ q.alone = p.alone

LEMMA EndKeepsTokens ==
  ASSUME Inv, TokenInv, NEW r \in Requests, req[r].pc # "idle", Ends(r), RowsOfOne(r)
  PROVE  TokenInv'
<1>1. req'[r] = Idle /\ OthersStay(r) /\ req[r].conn \in ConnIds
  BY ReqTypes DEF Ends, Goes, OthersStay, Inv, TypeOK
<1>2. HoldsOfOne(r) /\ Owned(req'[r]) /\ req'[r].conn = None
  BY <1>1, IdleHoldsNothing DEF HoldsOfOne
<1>3. Expects(r)'
  BY <1>1, IdleHoldsNothing DEF Expects
<1>4. QED
  BY <1>1, <1>2, <1>3, StepKeepsTokens

LEMMA MoveKeepsTokens ==
  ASSUME Inv, TokenInv, NEW r \in Requests, req[r].pc # "idle", NEW q \in ReqOf, Goes(r, q), RowsOfOne(r),
         Carries(req[r], q), q.pc # "insert", Stands(q), Expects(r)'
  PROVE  TokenInv'
<1>1. req'[r] = q /\ OthersStay(r) /\ req[r].conn \in ConnIds
  BY ReqTypes DEF Goes, OthersStay, Inv, TypeOK
<1>2. Owned(q)
  BY DEF TokenInv, Owned, Carries, Renews
<1>3. HoldsOfOne(r)
  <2>1. \A a \in Holds(req[r]) : a \in issued
    BY DEF TokenInv, AgentsFit
  <2>2. Holds(q) = Holds(req[r]) /\ q.conn = req[r].conn
    BY DEF Holds, Carries
  <2>3. QED
    BY <1>1, <2>1, <2>2 DEF HoldsOfOne, RowsOfOne
<1>4. QED
  BY <1>1, <1>2, <1>3, StepKeepsTokens DEF Carries

\* Places where nothing is expected of a token.
Calm == {"dao", "tunnel", "driver", "query", "hung", "answered"}
LEMMA CalmKeepsTokens ==
  ASSUME Inv, TokenInv, NEW r \in Requests, req[r].pc # "idle", NEW q \in ReqOf, Goes(r, q),
         UNCHANGED <<conns, agents, issued>>, Carries(req[r], q),
         q.pc \in Calm \/ (q.pc = "save" /\ ~Renews(q))
  PROVE  TokenInv'
<1>1. req'[r] = q /\ \A x \in Requests \ {r} : req'[x] = req[x]
  BY DEF Goes, Inv, TypeOK
<1>2. Owned(req[r]) /\ Expects(r)
  BY DEF TokenInv
<1>3. q.op = "refresh" /\ q.alone => Stored(conns[q.conn])
  BY <1>2 DEF Expects, Carries
<1>4. q.alone => q.conn \in ConnIds /\ Secluded(r)'
  BY <1>1, <1>2 DEF Expects, Carries, Secluded
<1>5. ~Renews(q) => q.token = None
  BY <1>2 DEF Owned, Carries, Renews
<1>6. q.pc \in Calm => q.pc \notin {"createAgent", "findAgent", "findConn", "renew", "group", "permissions", "save"}
  BY DEF Calm
<1>7. Expects(r)'
  <2>1. CASE q.pc \in Calm
    BY <1>1, <1>3, <1>4, <1>6, <2>1 DEF Expects, Stored
  <2>2. CASE q.pc = "save" /\ ~Renews(q)
    BY <1>1, <1>3, <1>4, <1>5, <2>2 DEF Expects, Stored, Renews
  <2>3. QED
    BY <2>1, <2>2
<1>8. RowsOfOne(r)
  BY DEF RowsOfOne
<1>9. Stands(q) /\ q.pc # "insert"
  BY DEF Stands, Calm
<1>10. QED
  BY <1>7, <1>8, <1>9, MoveKeepsTokens

(***************************************************************************)
(* The requests that start, one after the other.                           *)
(***************************************************************************)
LEMMA CopiesHold ==
  ASSUME Inv, NEW c \in Open
  PROVE  /\ \A copy \in WithAgent(c) : copy.agent \in AgentsOf(c) \union {None}
         /\ Loaded(c, Undefined).agent = Undefined /\ Stored(conns[c])
BY OpenRows, RowIsStored DEF WithAgent, Loaded

LEMMA EnteredHolds ==
  ASSUME NEW copy \in CopyOf, NEW type \in Types, NEW host \in Hosts
  PROVE  Entered(copy, type, host).agent = copy.agent
BY DEF Entered, CopyOf

LEMMA NewIsBare ==
  ASSUME NEW op, NEW pc, NEW c
  PROVE  LET n == New(op, pc, c) IN
         n.agent = None /\ n.token = None /\ n.owner = None /\ n.copy.agent = Undefined
BY DEF New, Idle, NoCopy

LEMMA TokenCreate ==
  ASSUME Inv, TokenInv, NEW r \in Requests, Create(r)
  PROVE  TokenInv'
<1>1. PICK c \in ConnIds, type \in {"plain", "agent"}, host \in Hosts :
        /\ Starts(r, [New("create", "insert", c) EXCEPT !.copy = Entered(NoCopy, type, host), !.owner = c])
        /\ UNCHANGED <<rowVars, cacheVars, faults>>
  BY DEF Create
<1> DEFINE n == New("create", "insert", c)
           e == Entered(NoCopy, type, host)
           q == [n EXCEPT !.copy = e, !.owner = c]
<1>2. n \in ReqOf /\ n.op = "create" /\ n.pc = "insert" /\ n.conn = c /\ n.agent = None /\ n.token = None
  BY NewTypes, NewIsBare DEF Ops, Places
<1>3. NoCopy \in CopyOf /\ type \in Types /\ NoCopy.agent = Undefined
  BY DEF NoCopy, CopyOf, Types
<1>4. e \in CopyOf /\ e.agent = Undefined
  BY <1>3, EnteredTypes, EnteredHolds
<1>5. Starts(r, q)
  BY <1>1
<1> HIDE DEF n, e
<1>6. /\ q \in ReqOf /\ q.op = "create" /\ q.pc = "insert" /\ q.conn = c
      /\ q.agent = None /\ q.token = None /\ q.owner = c /\ q.copy.agent = Undefined
  BY <1>2, <1>4 DEF ReqOf
<1> HIDE DEF q
<1>7. QED
  BY <1>1, <1>5, <1>6, StartKeepsTokens DEF StartsWell, Stands, Renews

LEMMA TokenUpdate ==
  ASSUME Inv, TokenInv, NEW r \in Requests, Update(r)
  PROVE  TokenInv'
<1>1. PICK c \in Open, type \in {"plain", "agent"}, host \in Hosts : \E copy \in WithAgent(c) :
        /\ Starts(r, [New("update", IF type = "agent" THEN "findAgent" ELSE "save", c) EXCEPT
                        !.copy = Entered(copy, type, host)])
        /\ UNCHANGED <<rowVars, cacheVars, faults>>
  BY DEF Update
<1>2. PICK copy \in WithAgent(c) :
        /\ Starts(r, [New("update", IF type = "agent" THEN "findAgent" ELSE "save", c) EXCEPT
                        !.copy = Entered(copy, type, host)])
        /\ UNCHANGED <<rowVars, cacheVars, faults>>
  BY <1>1
<1> DEFINE n == New("update", IF type = "agent" THEN "findAgent" ELSE "save", c)
           e == Entered(copy, type, host)
           q == [n EXCEPT !.copy = e]
<1>3. /\ n \in ReqOf /\ n.op = "update" /\ n.pc \in {"findAgent", "save"} /\ n.conn = c
      /\ n.agent = None /\ n.token = None /\ n.owner = None
  BY NewTypes, OpenRows, NewIsBare DEF Ops, Places
<1>4. copy \in CopyOf /\ type \in Types
  BY CopyTypes DEF Types
<1>5. e \in CopyOf /\ e.agent \in AgentsOf(c) \union {None}
  BY <1>4, EnteredTypes, EnteredHolds, CopiesHold
<1>6. Starts(r, q)
  BY <1>2
<1> HIDE DEF n, e
<1>7. /\ q \in ReqOf /\ q.op = "update" /\ q.pc \in {"findAgent", "save"} /\ q.conn = c
      /\ q.agent = None /\ q.token = None /\ q.owner = None /\ q.copy.agent = e.agent
  BY <1>3, <1>5 DEF ReqOf
<1> HIDE DEF q
<1>8. e.agent # Undefined /\ c \in ConnIds
  BY <1>5, DistinctValues, OpenRows DEF AgentsOf
<1>9. QED
  BY <1>2, <1>5, <1>6, <1>7, <1>8, StartKeepsTokens DEF StartsWell, Stands, Renews

LEMMA TokenRestore ==
  ASSUME Inv, TokenInv, NEW r \in Requests, Restore(r)
  PROVE  TokenInv'
<1>1. PICK c \in Open, type \in Types, host \in Hosts :
        /\ Starts(r, [New("restore", IF type = "agent" THEN "createAgent" ELSE "save", c) EXCEPT
                        !.copy = Entered(Loaded(c, Undefined), type, host), !.owner = c])
        /\ UNCHANGED <<rowVars, cacheVars, faults>>
  BY DEF Restore
<1> DEFINE n == New("restore", IF type = "agent" THEN "createAgent" ELSE "save", c)
           e == Entered(Loaded(c, Undefined), type, host)
           q == [n EXCEPT !.copy = e, !.owner = c]
<1>2. /\ n \in ReqOf /\ n.op = "restore" /\ n.pc \in {"createAgent", "save"} /\ n.conn = c
      /\ n.agent = None /\ n.token = None
  BY NewTypes, OpenRows, NewIsBare DEF Ops, Places
<1>3. e \in CopyOf /\ e.agent = Undefined
  BY CopyTypes, CopiesHold, EnteredTypes, EnteredHolds
<1>4. Starts(r, q) /\ c \in ConnIds
  BY <1>1, OpenRows
<1> HIDE DEF n, e
<1>5. /\ q \in ReqOf /\ q.op = "restore" /\ q.pc \in {"createAgent", "save"} /\ q.conn = c
      /\ q.agent = None /\ q.token = None /\ q.owner = c /\ q.copy.agent = Undefined
  BY <1>2, <1>3, <1>4 DEF ReqOf
<1> HIDE DEF q
<1>6. QED
  BY <1>1, <1>4, <1>5, StartKeepsTokens DEF StartsWell, Stands, Renews

LEMMA TokenUpdateMasterPwd ==
  ASSUME Inv, TokenInv, NEW r \in Requests, UpdateMasterPwd(r)
  PROVE  TokenInv'
<1>1. PICK c \in Open : \E copy \in WithAgent(c) :
        /\ Starts(r, [New("password", "save", c) EXCEPT !.copy = copy])
        /\ UNCHANGED <<rowVars, cacheVars, faults>>
  BY DEF UpdateMasterPwd
<1>2. PICK copy \in WithAgent(c) :
        /\ Starts(r, [New("password", "save", c) EXCEPT !.copy = copy])
        /\ UNCHANGED <<rowVars, cacheVars, faults>>
  BY <1>1
<1> DEFINE n == New("password", "save", c)
           q == [n EXCEPT !.copy = copy]
<1>3. /\ n \in ReqOf /\ n.op = "password" /\ n.pc = "save" /\ n.conn = c
      /\ n.agent = None /\ n.token = None /\ n.owner = None
  BY NewTypes, OpenRows, NewIsBare DEF Ops, Places
<1>4. copy \in CopyOf /\ copy.agent \in AgentsOf(c) \union {None} /\ c \in ConnIds
  BY CopyTypes, CopiesHold, OpenRows
<1>5. Starts(r, q)
  BY <1>2
<1> HIDE DEF n
<1>6. /\ q \in ReqOf /\ q.op = "password" /\ q.pc = "save" /\ q.conn = c
      /\ q.agent = None /\ q.token = None /\ q.owner = None
      /\ q.copy = copy
  BY <1>3, <1>4 DEF ReqOf
<1> HIDE DEF q
<1>7. QED
  BY <1>2, <1>4, <1>5, <1>6, StartKeepsTokens DEF StartsWell, Stands, Renews

LEMMA TokenBareStart ==
  ASSUME Inv, TokenInv, NEW r \in Requests, Delete(r) \/ RefreshToken(r)
  PROVE  TokenInv'
<1>1. PICK c \in Open, op \in {"delete", "refresh"}, pc \in {"remove", "findAgent"} :
        /\ <<op, pc>> \in {<<"delete", "remove">>, <<"refresh", "findAgent">>}
        /\ Starts(r, New(op, pc, c)) /\ UNCHANGED <<rowVars, cacheVars, faults>>
  BY DEF Delete, RefreshToken
<1> DEFINE n == New(op, pc, c)
<1>2. /\ n \in ReqOf /\ n.op = op /\ n.pc = pc /\ n.conn = c /\ c \in ConnIds
      /\ n.agent = None /\ n.token = None /\ n.owner = None /\ n.copy.agent = Undefined
  BY NewTypes, OpenRows, NewIsBare DEF Ops, Places
<1> HIDE DEF n
<1>3. Starts(r, n)
  BY <1>1 DEF n
<1>4. QED
  BY <1>1, <1>2, <1>3, CopiesHold, StartKeepsTokens DEF StartsWell, Stands, Renews

LEMMA TokenQueries ==
  ASSUME Inv, TokenInv, NEW r \in Requests, Queries(r)
  PROVE  TokenInv'
<1>1. PICK c \in Open, op \in {"rows", "tables", "properties"} : \E copy \in WithAgent(c) :
        Starts(r, QueryOf(op, c, copy)) /\ UNCHANGED <<rowVars, cacheVars, faults>>
  BY DEF Queries
<1>2. PICK copy \in WithAgent(c) :
        Starts(r, QueryOf(op, c, copy)) /\ UNCHANGED <<rowVars, cacheVars, faults>>
  BY <1>1
<1> DEFINE q == QueryOf(op, c, copy)
<1>3. q \in ReqOf /\ q.op = op /\ q.conn = c /\ c \in ConnIds
  BY QueryTypes, OpenRows
<1>4. copy \in CopyOf /\ copy.agent \in AgentsOf(c) \union {None}
  BY CopyTypes, CopiesHold
<1>5. q.pc \in {"dao", "save"} /\ q.agent = None /\ q.token = None /\ q.owner = None /\ q.copy.agent = copy.agent
  <2> DEFINE n == New(op, IF copy.type = "agent" THEN "save" ELSE "dao", c)
             listed == copy.listed \/ (copy.type = "agent" /\ op = "tables")
             e == [copy EXCEPT !.listed = listed]
             uses == IF op = "rows" \/ (op = "tables" /\ ~copy.listed) THEN 2 ELSE 1
  <2>1. n \in ReqOf /\ n.pc \in {"dao", "save"} /\ n.agent = None /\ n.token = None /\ n.owner = None
    BY <1>3, NewTypes, NewIsBare DEF Ops, Places
  <2>2. e.agent = copy.agent
    BY <1>4 DEF CopyOf
  <2>3. q = [n EXCEPT !.copy = e, !.read = copy.host, !.uses = uses]
    BY DEF QueryOf
  <2> HIDE DEF n, e, uses, q
  <2>4. QED
    BY <2>1, <2>2, <2>3 DEF ReqOf
<1>6. Starts(r, q)
  BY <1>2
<1> HIDE DEF q
<1>7. QED
  BY <1>2, <1>3, <1>4, <1>5, <1>6, StartKeepsTokens DEF StartsWell, Stands, Renews

(***************************************************************************)
(* The requests that go on, one after the other.                           *)
(***************************************************************************)
LEMMA RowsUnwritten ==
  ASSUME NEW r, UNCHANGED <<conns, agents, issued>>
  PROVE  RowsOfOne(r)
BY DEF RowsOfOne

LEMMA TokenRefused ==
  ASSUME Inv, TokenInv, NEW r \in Requests,
         \/ GroupIsGone(r) \/ AgentIsRefused(r) \/ LinkIsRefused(r) \/ PoolIsClosed(r) \/ StatementFails(r)
  PROVE  TokenInv'
<1>1. Refuses(r) /\ req[r].pc # "idle"
  BY DEF GroupIsGone, AgentIsRefused, LinkIsRefused, PoolIsClosed, StatementFails, At
<1>2. Ends(r) /\ RowsOfOne(r)
  BY <1>1, RowsUnwritten DEF Refuses
<1>3. QED
  BY <1>1, <1>2, EndKeepsTokens

LEMMA TokenLeave ==
  ASSUME Inv, TokenInv, NEW r \in Requests, Leave(r)
  PROVE  TokenInv'
BY EndKeepsTokens, RowsUnwritten DEF Leave, At, rowVars

\* What is expected of a request that is alone, of the connection it is about.
LEMMA Alone ==
  ASSUME Inv, TokenInv, NEW r \in Requests, req[r].pc # "idle"
  PROVE  /\ req[r] \in ReqOf /\ req[r].copy \in CopyOf /\ Knows(req[r]) /\ Owned(req[r]) /\ Stands(req[r])
         /\ Expects(r) /\ req[r].conn \in ConnIds
BY ReqTypes DEF TokenInv, Owned, ReqOf

LEMMA MovesAlone ==
  ASSUME Inv, TokenInv, NEW r \in Requests, NEW q, Goes(r, q), q.conn = req[r].conn
  PROVE  req'[r] = q /\ (\A x \in Requests \ {r} : req'[x] = req[x]) /\ (Secluded(r) => Secluded(r)')
<1>1. req'[r] = q /\ \A x \in Requests \ {r} : req'[x] = req[x]
  BY DEF Goes, Inv, TypeOK
<1>2. QED
  BY <1>1 DEF Secluded

LEMMA TokenInsert ==
  ASSUME Inv, TokenInv, NEW r \in Requests, Insert(r)
  PROVE  TokenInv'
<1>1. req[r].pc = "insert" /\ req[r].pc # "idle"
  BY DEF Insert, At
<1>2. /\ req[r] \in ReqOf /\ Expects(r) /\ req[r].op = "create" /\ req[r].token = None
      /\ req[r].conn \in ConnIds
  BY <1>1, Alone DEF Knows, Owned
<1> DEFINE pc == IF req[r].copy.type = "agent" THEN "createAgent" ELSE "group"
           q == [req[r] EXCEPT !.pc = pc]
<1>3. pc \in Places /\ pc \in {"createAgent", "group"}
  BY DEF Places
<1>4. Goes(r, q)
  BY DEF Insert
<1> HIDE DEF pc
<1>5. q \in ReqOf /\ Carries(req[r], q) /\ q.pc \in {"createAgent", "group"}
  BY <1>2, <1>3 DEF ReqOf, Carries
<1> HIDE DEF q
<1>6. Stands(q) /\ q.pc # "insert"
  BY <1>2, <1>5 DEF Stands, Renews, Carries
<1>7. Expects(r)'
  BY <1>2, <1>4, <1>5, MovesAlone DEF Expects, Carries
<1>8. RowsOfOne(r)
  BY <1>2 DEF RowsOfOne, Insert, Inv, TypeOK
<1>9. QED
  BY <1>1, <1>4, <1>5, <1>6, <1>7, <1>8, MoveKeepsTokens

LEMMA TokenAddGroup ==
  ASSUME Inv, TokenInv, NEW r \in Requests, AddGroup(r)
  PROVE  TokenInv'
<1>1. req[r].pc = "group" /\ req[r].pc # "idle" /\ UNCHANGED <<conns, agents, issued>>
  BY DEF AddGroup, At
<1>2. req[r] \in ReqOf /\ Expects(r) /\ req[r].op = "create"
  BY <1>1, Alone DEF Knows
<1> DEFINE q == [req[r] EXCEPT !.pc = "permissions"]
<1>3. Goes(r, q)
  BY DEF AddGroup
<1>4. q \in ReqOf /\ Carries(req[r], q) /\ q.pc = "permissions"
  BY <1>2 DEF ReqOf, Carries, Places
<1> HIDE DEF q
<1>5. Stands(q)
  BY <1>4 DEF Stands
<1>6. req'[r] = q /\ (Secluded(r) => Secluded(r)')
  BY <1>3, <1>4, MovesAlone DEF Carries
<1>7. ASSUME q.alone PROVE Expects(r)'
  <2>1. q.conn = req[r].conn /\ q.token = req[r].token /\ q.op = "create" /\ req[r].alone
    BY <1>2, <1>4, <1>7 DEF Carries
  <2>2. q.token # None => OneAgent(q.conn, q.token)
    BY <1>1, <1>2, <2>1 DEF Expects, Unlinks
  <2>3. OneAgent(q.conn, q.token) => OneAgent(req[r].conn, req[r].token)'
    BY <1>1, <1>6 DEF OneAgent, AgentsOf, Stored
  <2>4. q.conn \in ConnIds /\ Secluded(r)'
    BY <1>2, <1>6, <2>1 DEF Expects
  <2>5. QED
    BY <1>4, <1>6, <2>1, <2>2, <2>3, <2>4 DEF Expects
<1>8. Expects(r)'
  BY <1>6, <1>7 DEF Expects
<1>9. QED
  BY <1>1, <1>3, <1>4, <1>5, <1>8, MoveKeepsTokens, RowsUnwritten

LEMMA AnswerCarries ==
  ASSUME NEW q \in ReqOf
  PROVE  LET n == [q EXCEPT !.pc = "answered"] IN n \in ReqOf /\ Carries(q, n) /\ n.pc = "answered"
BY DEF ReqOf, Carries, Places

LEMMA TokenAddPermission ==
  ASSUME Inv, TokenInv, NEW r \in Requests, AddPermission(r)
  PROVE  TokenInv'
<1>1. req[r].pc = "permissions" /\ req[r].pc # "idle" /\ UNCHANGED <<conns, agents, issued>>
  BY DEF AddPermission, At
<1>2. req[r] \in ReqOf
  BY <1>1, Alone
<1> DEFINE q == [req[r] EXCEPT !.pc = "answered"]
<1>3. UNCHANGED req \/ Ends(r) \/ Goes(r, q)
  BY DEF AddPermission, Answers, Ends
<1>4. q \in ReqOf /\ Carries(req[r], q) /\ q.pc = "answered"
  BY <1>2, AnswerCarries
<1> HIDE DEF q
<1>5. CASE UNCHANGED req
  BY <1>1, <1>5 DEF TokenInv, AgentsFit, Owned, Expects, Secluded, Stored, AgentsOf, OneAgent
<1>6. CASE Ends(r)
  BY <1>1, <1>6, EndKeepsTokens, RowsUnwritten
<1>7. CASE Goes(r, q)
  BY <1>1, <1>4, <1>7, CalmKeepsTokens DEF Calm
<1>8. QED
  BY <1>3, <1>5, <1>6, <1>7

\* Agents that are found are of the connection, and whoever found none and had
\* read of none has none to keep.
LEMMA TokenFindAgent ==
  ASSUME Inv, TokenInv, NEW r \in Requests, FindAgent(r)
  PROVE  TokenInv'
<1>1. req[r].pc = "findAgent" /\ req[r].pc # "idle" /\ UNCHANGED <<conns, agents, issued>>
  BY DEF FindAgent, At, rowVars
<1>2. PICK c \in ConnIds : c = req[r].conn
  BY <1>1, Alone
<1>3. req[r] \in ReqOf /\ Expects(r) /\ Owned(req[r]) /\ req[r].op \in {"update", "refresh"}
  BY <1>1, Alone DEF Stands
<1>4. /\ AgentsOf(c)' = AgentsOf(c)
      /\ \A a \in AgentsOf(c) : a \in Tokens /\ a \in issued
  BY <1>1 DEF AgentsOf, Stored, TokenInv, AgentsFit
<1>5. ASSUME NEW q \in ReqOf, Goes(r, q), q.op = req[r].op, q.conn = c, q.copy = req[r].copy,
             q.owner = req[r].owner, q.token = req[r].token, q.alone = req[r].alone,
             \/ q.pc = "findConn" /\ q.agent = req[r].agent /\ AgentsOf(c) = {}
             \/ q.pc = "renew" /\ q.agent \in AgentsOf(c)
      PROVE  TokenInv'
  <2>1. req'[r] = q /\ OthersStay(r) /\ (Secluded(r) => Secluded(r)')
    BY <1>2, <1>5, MovesAlone DEF OthersStay
  <2>2. Owned(q) /\ q.pc \notin {"insert", "group", "permissions", "save", "createAgent"}
    BY <1>2, <1>3, <1>5 DEF Owned, Stands, Renews
  <2>3. HoldsOfOne(r)
    <3>1. \A a \in Holds(req[r]) : a \in issued
      BY DEF TokenInv, AgentsFit
    <3>2. Holds(q) \subseteq Holds(req[r]) \union AgentsOf(c)
      BY <1>5 DEF Holds
    <3>3. QED
      BY <1>1, <1>2, <1>4, <1>5, <2>1, <3>1, <3>2 DEF HoldsOfOne
  <2>4. Expects(r)'
    <3>1. SUFFICES ASSUME q.alone PROVE Expects(r)'
      BY <2>1 DEF Expects
    <3>2. /\ Secluded(r)' /\ (q.op = "refresh" => Stored(conns[c]))
          /\ q.op = "update" /\ q.copy.agent \in Tokens => q.copy.agent \in AgentsOf(c)
      BY <1>1, <1>2, <1>3, <1>5, <2>1, <3>1 DEF Expects
    <3>3. QED
      BY <1>1, <1>4, <1>5, <2>1, <2>2, <3>2 DEF Expects, Stored
  <2>5. QED
    BY <1>1, <1>2, <1>5, <2>1, <2>2, <2>3, <2>4, StepKeepsTokens, RowsUnwritten
<1>6. CASE AgentsOf(c) = {}
  <2> DEFINE q == [req[r] EXCEPT !.pc = "findConn"]
  <2>1. /\ q \in ReqOf /\ q.op = req[r].op /\ q.conn = c /\ q.copy = req[r].copy /\ q.owner = req[r].owner
        /\ q.token = req[r].token /\ q.alone = req[r].alone /\ q.pc = "findConn" /\ q.agent = req[r].agent
    BY <1>2, <1>3 DEF ReqOf, Places
  <2>2. Goes(r, q)
    BY <1>2, <1>6 DEF FindAgent
  <2> HIDE DEF q
  <2>3. QED
    BY <1>5, <1>6, <2>1, <2>2
<1>7. CASE AgentsOf(c) # {}
  <2>1. PICK a \in AgentsOf(c) : Goes(r, [req[r] EXCEPT !.pc = "renew", !.agent = a])
    BY <1>2, <1>7 DEF FindAgent
  <2> DEFINE q == [req[r] EXCEPT !.pc = "renew", !.agent = a]
  <2>2. /\ q \in ReqOf /\ q.op = req[r].op /\ q.conn = c /\ q.copy = req[r].copy /\ q.owner = req[r].owner
        /\ q.token = req[r].token /\ q.alone = req[r].alone /\ q.pc = "renew" /\ q.agent = a
    BY <1>2, <1>3, <1>4 DEF ReqOf, Places
  <2>3. Goes(r, q)
    BY <2>1
  <2> HIDE DEF q
  <2>4. QED
    BY <1>5, <2>2, <2>3
<1>8. QED
  BY <1>6, <1>7

LEMMA OwnerTypes ==
  ASSUME NEW p \in ReqOf, NEW o \in ConnIds \union {None}
  PROVE  LET q == [p EXCEPT !.pc = "createAgent", !.owner = o] IN
         /\ q \in ReqOf /\ q.op = p.op /\ q.conn = p.conn /\ q.copy = p.copy /\ q.agent = p.agent
         /\ q.owner = o /\ q.token = p.token /\ q.alone = p.alone /\ q.pc = "createAgent"
<1>1. "createAgent" \in Places
  BY DEF Places
<1>2. QED
  BY <1>1 DEF ReqOf

LEMMA TokenFindConn ==
  ASSUME Inv, TokenInv, NEW r \in Requests, FindConn(r)
  PROVE  TokenInv'
<1>1. req[r].pc = "findConn" /\ req[r].pc # "idle" /\ UNCHANGED <<conns, agents, issued>>
  BY DEF FindConn, At, rowVars
<1>2. PICK c \in ConnIds : c = req[r].conn
  BY <1>1, Alone
<1>3. req[r] \in ReqOf /\ Expects(r) /\ Owned(req[r]) /\ req[r].op \in {"update", "refresh"}
  BY <1>1, Alone DEF Stands
<1>4. PICK o \in {c, None} : /\ Stored(conns[c]) => o = c
                             /\ Goes(r, [req[r] EXCEPT !.pc = "createAgent", !.owner = o])
  BY <1>2 DEF FindConn
<1> DEFINE q == [req[r] EXCEPT !.pc = "createAgent", !.owner = o]
<1>5. Goes(r, q)
  BY <1>4
<1>6. /\ q \in ReqOf /\ q.op = req[r].op /\ q.conn = c /\ q.copy = req[r].copy /\ q.agent = req[r].agent
      /\ q.owner = o /\ q.token = req[r].token /\ q.alone = req[r].alone /\ q.pc = "createAgent"
  <2>1. o \in ConnIds \union {None} /\ req[r] \in ReqOf /\ req[r].conn = c
    BY <1>2, <1>3
  <2>2. /\ q \in ReqOf /\ q.op = req[r].op /\ q.conn = req[r].conn /\ q.copy = req[r].copy
        /\ q.agent = req[r].agent /\ q.owner = o /\ q.token = req[r].token /\ q.alone = req[r].alone
        /\ q.pc = "createAgent"
    BY <2>1, OwnerTypes
  <2> HIDE DEF q
  <2>3. QED
    BY <2>1, <2>2
<1> HIDE DEF q
<1>7. req'[r] = q /\ OthersStay(r) /\ (Secluded(r) => Secluded(r)')
  BY <1>2, <1>5, <1>6, MovesAlone DEF OthersStay
<1>8. Owned(q)
  BY <1>3, <1>4, <1>6 DEF Owned, Stands, Renews
<1>9. HoldsOfOne(r)
  <2>1. \A a \in Holds(req[r]) : a \in issued
    BY DEF TokenInv, AgentsFit
  <2>2. Holds(q) = Holds(req[r])
    BY <1>6 DEF Holds
  <2>3. QED
    BY <1>1, <1>2, <1>6, <1>7, <2>1, <2>2 DEF HoldsOfOne
<1>10. Expects(r)'
  <2>1. SUFFICES ASSUME q.alone PROVE Expects(r)'
    BY <1>7 DEF Expects
  <2>2. /\ Secluded(r)' /\ (q.op = "refresh" => Stored(conns[c]))
        /\ ~(q.op = "update" /\ q.copy.agent \in Tokens)
    BY <1>1, <1>2, <1>3, <1>6, <1>7, <2>1 DEF Expects
  <2>3. QED
    BY <1>1, <1>4, <1>6, <1>7, <2>2 DEF Expects, Stored
<1>11. QED
  BY <1>1, <1>2, <1>6, <1>7, <1>8, <1>9, <1>10, StepKeepsTokens, RowsUnwritten

(***************************************************************************)
(* Requests that reach a database write no agent.                          *)
(***************************************************************************)
LEMMA ToPoolKeepsTokens ==
  ASSUME Inv, TokenInv, NEW r \in Requests, req[r].pc \in AtPool, NEW p \in Ports,
         NEW pc \in {"tunnel", "driver", "query"}, Goes(r, ToPool(r, pc, p)), UNCHANGED rowVars
  PROVE  TokenInv'
<1> DEFINE q == [req[r] EXCEPT !.pc = pc, !.port = p]
<1>1. req[r] \in ReqOf /\ req[r].pc # "idle"
  BY PoolRequest DEF AtPool
<1>2. q \in ReqOf /\ Carries(req[r], q) /\ q.pc = pc
  <2>1. pc \in Places
    BY DEF Places
  <2>2. q \in ReqOf
    BY <1>1, <2>1 DEF ReqOf
  <2>3. QED
    BY <1>1, <2>2 DEF ReqOf, Carries
<1>3. Goes(r, q)
  BY DEF ToPool
<1> HIDE DEF q
<1>4. q.pc \in Calm
  BY <1>2 DEF Calm
<1>5. UNCHANGED <<conns, agents, issued>>
  BY DEF rowVars
<1>6. QED
  BY <1>1, <1>2, <1>3, <1>4, <1>5, CalmKeepsTokens

LEMMA TokenToPool ==
  ASSUME Inv, TokenInv, NEW r \in Requests,
         \/ CachedKnex(r) \/ CachedTunnel(r) \/ CachedDriver(r) \/ NewKnex(r)
         \/ StartTunnel(r) \/ StartDriver(r) \/ DriverIsUp(r)
  PROVE  TokenInv'
<1>1. req[r].pc \in AtPool /\ UNCHANGED rowVars
  BY DEF CachedKnex, CachedTunnel, CachedDriver, NewKnex, StartTunnel, StartDriver, DriverIsUp, At, AtPool
<1>2. \E p \in Ports, pc \in {"tunnel", "driver", "query"} : Goes(r, ToPool(r, pc, p))
  <2>1. CASE CachedKnex(r)
    BY <2>1, CachedIsPort DEF CachedKnex, Querying, ToPool
  <2>2. CASE CachedTunnel(r)
    BY <2>2, CachedIsPort DEF CachedTunnel, Querying, ToPool
  <2>3. CASE CachedDriver(r)
    BY <2>3, CachedIsPort DEF CachedDriver, Querying, ToPool
  <2>4. CASE NewKnex(r)
    BY <2>4 DEF NewKnex, FreePorts, Querying, ToPool
  <2>5. CASE StartTunnel(r)
    BY <2>5 DEF StartTunnel, FreePorts, ToPool
  <2>6. CASE StartDriver(r)
    BY <2>6 DEF StartDriver, FreePorts, ToPool
  <2>7. CASE DriverIsUp(r)
    <3>1. req[r].port \in Ports
      BY <2>7, ReqTypes DEF DriverIsUp, At, Knows
    <3>2. QED
      BY <2>7, <3>1 DEF DriverIsUp, Querying, ToPool
  <2>8. QED
    BY <2>1, <2>2, <2>3, <2>4, <2>5, <2>6, <2>7
<1>3. QED
  BY <1>1, <1>2, ToPoolKeepsTokens

LEMMA TokenTunnelIsUp ==
  ASSUME Inv, TokenInv, NEW r \in Requests, TunnelIsUp(r)
  PROVE  TokenInv'
<1>1. req[r].pc = "tunnel" /\ req[r].pc \in AtPool /\ UNCHANGED rowVars
  BY DEF TunnelIsUp, At, AtPool
<1>2. PICK p \in Ports : p = req[r].port
  BY <1>1, ReqTypes DEF Knows
<1> DEFINE h == [req[r].copy EXCEPT !.host = p]
           q == [req[r] EXCEPT !.copy = h, !.pc = "query", !.port = p]
<1>3. req[r] \in ReqOf /\ req[r].copy \in CopyOf
  BY <1>1, PoolRequest
<1>4. h \in CopyOf /\ h.agent = req[r].copy.agent
  BY <1>3 DEF CopyOf
<1>5. Goes(r, q)
  <2>1. [[req[r] EXCEPT !.copy.host = p] EXCEPT !.pc = "query", !.port = p] = q
    BY <1>3 DEF ReqOf
  <2>2. QED
    BY <1>2, <2>1 DEF TunnelIsUp, Querying
<1> HIDE DEF h
<1>6. q \in ReqOf /\ Carries(req[r], q) /\ q.pc = "query"
  BY <1>3, <1>4 DEF ReqOf, Places, Carries
<1> HIDE DEF q
<1>7. UNCHANGED <<conns, agents, issued>> /\ q.pc \in Calm
  BY <1>1, <1>6 DEF rowVars, Calm
<1>8. QED
  BY <1>1, <1>5, <1>6, <1>7, CalmKeepsTokens

LEMMA TokenTunnelFails ==
  ASSUME Inv, TokenInv, NEW r \in Requests, TunnelFails(r)
  PROVE  TokenInv'
<1>1. req[r].pc = "tunnel" /\ req[r].pc # "idle" /\ UNCHANGED <<conns, agents, issued>>
  BY DEF TunnelFails, At, rowVars
<1> DEFINE q == [req[r] EXCEPT !.pc = "hung"]
<1>2. req[r] \in ReqOf
  BY ReqTypes
<1>3. q \in ReqOf /\ Carries(req[r], q) /\ q.pc \in Calm
  BY <1>2 DEF ReqOf, Places, Carries, Calm
<1>4. Goes(r, q)
  BY DEF TunnelFails
<1> HIDE DEF q
<1>5. QED
  BY <1>1, <1>3, <1>4, CalmKeepsTokens

LEMMA TokenQuery ==
  ASSUME Inv, TokenInv, NEW r \in Requests, Query(r)
  PROVE  TokenInv'
<1>1. req[r].pc = "query" /\ req[r].pc # "idle" /\ UNCHANGED <<conns, agents, issued>>
  BY DEF Query, At, rowVars
<1>2. req[r] \in ReqOf /\ req[r].copy \in CopyOf
  BY <1>1, PoolRequest DEF AtPool
<1> DEFINE c == [req[r].copy EXCEPT !.listed = @ \/ req[r].op = "tables"]
           u == req[r].uses - 1
           again == [req[r] EXCEPT !.pc = "dao", !.uses = u]
           saving == [req[r] EXCEPT !.pc = "save", !.copy = c]
<1>3. CASE req[r].uses > 1
  <2>1. Goes(r, again)
    BY <1>3 DEF Query
  <2>2. u \in 0..2
    <3>1. req[r].uses \in 0..2
      BY <1>2 DEF ReqOf
    <3>2. QED
      BY <1>3, <3>1
  <2> HIDE DEF u
  <2>3. again \in ReqOf /\ Carries(req[r], again) /\ again.pc \in Calm
    BY <1>2, <2>2 DEF ReqOf, Places, Carries, Calm
  <2> HIDE DEF again
  <2>4. QED
    BY <1>1, <2>1, <2>3, CalmKeepsTokens
<1>4. ASSUME Goes(r, saving), req[r].op \in {"properties", "tables"} PROVE TokenInv'
  <2>1. req[r].copy.listed \in BOOLEAN
    BY <1>2 DEF CopyOf
  <2>2. c \in CopyOf /\ c.agent = req[r].copy.agent
    BY <1>2, <2>1 DEF CopyOf
  <2> HIDE DEF c
  <2>3. saving \in ReqOf /\ Carries(req[r], saving) /\ saving.pc = "save"
    BY <1>2, <2>2 DEF ReqOf, Places, Carries
  <2> HIDE DEF saving
  <2>4. ~Renews(saving)
    BY <1>4, <2>3 DEF Renews, Carries
  <2>5. QED
    BY <1>1, <1>4, <2>3, <2>4, CalmKeepsTokens
<1>5. ASSUME Goes(r, Idle) PROVE TokenInv'
  BY <1>1, <1>5, EndKeepsTokens, RowsUnwritten DEF Ends
<1>6. ASSUME ~(req[r].uses > 1)
      PROVE  (Goes(r, saving) /\ req[r].op \in {"properties", "tables"}) \/ Goes(r, Idle)
  BY <1>6 DEF Query
<1>7. QED
  BY <1>3, <1>4, <1>5, <1>6

(***************************************************************************)
(* Requests that write agents.                                             *)
(***************************************************************************)
LEMMA WithTokenSays ==
  ASSUME NEW q \in ReqOf, NEW a \in Tokens, NEW t \in Tokens
  PROVE  LET n == WithToken(q, a, t) IN
         /\ n.op = q.op /\ n.conn = q.conn /\ n.agent = q.agent /\ n.owner = q.owner /\ n.alone = q.alone
         /\ n.token = t /\ n.copy.agent = (IF q.op = "restore" THEN a ELSE q.copy.agent)
         /\ q.op = "create" => n.pc = "group"
         /\ q.op = "refresh" => n.pc = "answered"
         /\ q.op \notin {"create", "refresh"} => n.pc = "save"
<1> DEFINE pc == CASE q.op = "create" -> "group" [] q.op = "refresh" -> "answered" [] OTHER -> "save"
           h == [q.copy EXCEPT !.agent = IF q.op = "restore" THEN a ELSE @]
           n == [q EXCEPT !.token = t, !.pc = pc, !.copy = h]
<1>1. q.copy \in CopyOf
  BY DEF ReqOf
<1>2. h.agent = IF q.op = "restore" THEN a ELSE q.copy.agent
  BY <1>1 DEF CopyOf
<1>3. /\ q.op = "create" => pc = "group"
      /\ q.op = "refresh" => pc = "answered"
      /\ q.op \notin {"create", "refresh"} => pc = "save"
  OBVIOUS
<1>4. WithToken(q, a, t) = n
  BY DEF WithToken
<1> HIDE DEF pc, h
<1>5. n.op = q.op /\ n.conn = q.conn /\ n.agent = q.agent /\ n.owner = q.owner /\ n.alone = q.alone
      /\ n.token = t /\ n.pc = pc /\ n.copy = h
  BY DEF ReqOf
<1> HIDE DEF n
<1>6. QED
  BY <1>2, <1>3, <1>4, <1>5

LEMMA SavedAgentSays ==
  ASSUME Inv, NEW row \in Tokens, NEW o, NEW t, agents' = SavedAgent(row, o, t)
  PROVE  /\ agents'[row].conn = o /\ agents'[row].token = t
         /\ o \in ConnIds \union {None} /\ t \in Tokens => Stored(agents'[row])
         /\ \A x \in Tokens \ {row} : agents'[x] = agents[x]
<1>1. agents'[row] = [conn |-> o, token |-> t] /\ \A x \in Tokens \ {row} : agents'[x] = agents[x]
  BY DEF SavedAgent, Inv, TypeOK
<1>2. o \in ConnIds \union {None} /\ t \in Tokens => agents'[row] \in AgentOf
  BY <1>1 DEF AgentOf
<1>3. agents'[row] \in AgentOf => Stored(agents'[row])
  BY DistinctValues DEF Stored
<1>4. QED
  BY <1>1, <1>2, <1>3

LEMMA TokenSavesAgent ==
  ASSUME Inv, TokenInv, NEW r \in Requests, req[r].pc \in {"createAgent", "renew"},
         \/ req[r].pc = "createAgent" /\ SavesAgent(r, None, req[r].owner)
         \/ req[r].pc = "renew" /\ SavesAgent(r, req[r].agent, req[r].conn)
  PROVE  TokenInv'
<1>1. req[r].pc # "idle"
  OBVIOUS
<1>2. PICK c \in ConnIds : c = req[r].conn
  BY <1>1, Alone
<1>3. /\ req[r] \in ReqOf /\ Expects(r) /\ Owned(req[r]) /\ Stands(req[r])
      /\ req[r].pc = "renew" => req[r].agent \in Tokens
  BY <1>1, Alone DEF Knows
<1>4. None \notin Tokens /\ None \notin ConnIds
  BY DistinctValues
<1>5. PICK t \in Tokens \ issued, row \in Tokens, o \in ConnIds \union {None} :
        /\ \/ req[r].pc = "createAgent" /\ row = t /\ o = req[r].owner
           \/ req[r].pc = "renew" /\ row = req[r].agent /\ o = c
        /\ ~AgentRefused(row, o)
        /\ agents' = SavedAgent(row, o, t)
        /\ issued' = issued \union {t}
        /\ Goes(r, WithToken(req[r], row, t))
        /\ UNCHANGED conns
  <2>1. CASE req[r].pc = "createAgent"
    <3>1. req[r].owner \in ConnIds \union {None} /\ SavesAgent(r, None, req[r].owner)
      BY <1>3, <2>1 DEF ReqOf
    <3>2. QED
      BY <2>1, <3>1 DEF SavesAgent
  <2>2. CASE req[r].pc = "renew"
    <3>1. req[r].agent \in Tokens /\ req[r].agent # None /\ SavesAgent(r, req[r].agent, c)
      BY <1>2, <1>3, <1>4, <2>2
    <3>2. QED
      BY <2>2, <3>1 DEF SavesAgent
  <2>3. QED
    BY <2>1, <2>2
<1>6. o \in {c, None} /\ t \notin issued /\ t \in Tokens
  BY <1>2, <1>3, <1>5 DEF Owned
<1>7. PICK n \in ReqOf : n = WithToken(req[r], row, t)
  BY <1>3, WithTokenTypes, ReqTypes DEF Knows
<1>8. /\ n.op = req[r].op /\ n.conn = c /\ n.agent = req[r].agent /\ n.owner = req[r].owner
      /\ n.alone = req[r].alone /\ n.token = t
      /\ n.copy.agent = (IF req[r].op = "restore" THEN row ELSE req[r].copy.agent)
      /\ n.op = "create" => n.pc = "group"
      /\ n.op = "refresh" => n.pc = "answered"
      /\ n.op \notin {"create", "refresh"} => n.pc = "save"
  BY <1>2, <1>3, <1>7, WithTokenSays
<1>9. req'[r] = n /\ OthersStay(r) /\ (Secluded(r) => Secluded(r)')
  BY <1>2, <1>5, <1>7, <1>8, MovesAlone DEF OthersStay
<1>10. agents'[row].conn = o /\ agents'[row].token = t /\ Stored(agents'[row])
       /\ \A x \in Tokens \ {row} : agents'[x] = agents[x]
  BY <1>5, SavedAgentSays
<1>11. row \in Holds(req[r]) \/ row \notin issued
  BY <1>5 DEF Holds
<1>12. (Stored(agents[row]) => agents[row].conn \in {c, None}) /\ row \in issued'
  <2>1. CASE row \in Holds(req[r])
    BY <1>2, <1>5, <2>1 DEF TokenInv, AgentsFit
  <2>2. CASE row = t
    BY <1>5, <2>2 DEF TokenInv, AgentsFit, Stored
  <2>3. QED
    BY <1>5, <2>1, <2>2 DEF Holds
<1>13. RowsOfOne(r)
  BY <1>2, <1>5, <1>6, <1>10, <1>11, <1>12 DEF RowsOfOne
<1>14. HoldsOfOne(r)
  <2>1. \A a \in Holds(req[r]) : a \in issued
    BY DEF TokenInv, AgentsFit
  <2>2. Holds(n) \subseteq Holds(req[r]) \union {row}
    BY <1>8 DEF Holds
  <2>3. QED
    BY <1>2, <1>5, <1>8, <1>9, <1>11, <1>12, <2>1, <2>2 DEF HoldsOfOne
<1>15. req[r].op \in {"create", "restore", "update", "refresh"}
  BY <1>3 DEF Stands, Renews
<1>16. Owned(n)
  <2>1. n.op = req[r].op /\ n.pc \in {"group", "answered", "save"} /\ Renews(n)
    BY <1>8, <1>15 DEF Renews
  <2>2. n.owner \in {c, None} /\ (n.op \in {"create", "restore"} => n.owner = c)
    BY <1>2, <1>3, <1>8 DEF Owned
  <2>3. n.op = "update" => n.copy.agent \in Tokens \union {None}
    BY <1>3, <1>8 DEF Owned
  <2>4. QED
    BY <1>8, <2>1, <2>2, <2>3 DEF Owned, Stands
\* Its agent is then the one agent of the connection.
<1>17. ASSUME o = c
       PROVE  AgentsOf(c)' = {row} /\ OneAgent(c, t)'
  <2>1. AgentsOf(c) \subseteq {row}
    BY <1>4, <1>5, <1>17 DEF AgentRefused
  <2>2. AgentsOf(c)' = {x \in Tokens : Stored(agents'[x]) /\ agents'[x].conn = c}
    BY DEF AgentsOf, Stored
  <2>3. AgentsOf(c)' = {row}
    BY <1>10, <1>17, <2>1, <2>2 DEF AgentsOf
  <2>4. QED
    BY <1>10, <2>3 DEF OneAgent
<1>18. Expects(r)'
  <2>1. SUFFICES ASSUME n.alone PROVE Expects(r)'
    BY <1>9 DEF Expects
  <2>2. Secluded(r)' /\ (n.op = "refresh" => Stored(conns[c])')
    BY <1>2, <1>3, <1>5, <1>8, <1>9, <2>1 DEF Expects, Stored
  <2>3. n.op \in {"create", "restore"} => o = c
    BY <1>2, <1>3, <1>5, <1>8, <1>15 DEF Owned, Stands
  <2>4. n.op = "update" /\ ~Unlinks(n) => o = c /\ n.copy.agent = row
    <3>1. SUFFICES ASSUME n.op = "update", ~Unlinks(n) PROVE o = c /\ n.copy.agent = row
      OBVIOUS
    <3>2. n.copy.agent = req[r].copy.agent /\ req[r].copy.agent \in Tokens /\ req[r].op = "update"
      BY <1>3, <1>8, <3>1 DEF Owned, Unlinks
    <3>3. req[r].copy.agent \in AgentsOf(c) /\ req[r].pc = "renew"
      BY <1>2, <1>3, <1>8, <2>1, <3>2 DEF Expects
    <3>4. o = c /\ AgentsOf(c) \subseteq {row}
      BY <1>4, <1>5, <3>3 DEF AgentRefused
    <3>5. QED
      BY <3>2, <3>3, <3>4
  <2>5. n.pc \in {"group", "save", "answered"} /\ (n.pc = "save" => n.op \in {"update", "restore"})
        /\ (n.pc = "group" => n.op = "create")
    BY <1>8, <1>15
  <2>6. n.op = "restore" => n.copy.agent = row
    BY <1>8
  <2>7. QED
    BY <1>8, <1>9, <1>17, <2>2, <2>3, <2>4, <2>5, <2>6 DEF Expects
<1>19. QED
  BY <1>2, <1>8, <1>9, <1>13, <1>14, <1>16, <1>18, StepKeepsTokens

\* save() of a connection with its agent.
LEMMA SavedLinkSays ==
  ASSUME Inv, NEW c \in ConnIds, NEW a, agents' = SavedLink(c, a)
  PROVE  \A x \in Tokens :
           \/ agents'[x] = agents[x]
           \/ Stored(agents[x]) /\ agents[x].conn = c /\ agents'[x].conn = None
           \/ x = a /\ Stored(agents[x]) /\ agents'[x].conn = c
<1>1. \A x \in Tokens : Stored(agents[x]) => agents[x] \in AgentOf
  BY DEF Inv, TypeOK, Stored
<1>2. \A row \in AgentOf : [row EXCEPT !.conn = None].conn = None /\ [row EXCEPT !.conn = c].conn = c
  BY DEF AgentOf
<1>3. QED
  BY <1>1, <1>2 DEF SavedLink

LEMMA TokenSave ==
  ASSUME Inv, TokenInv, NEW r \in Requests, Save(r)
  PROVE  TokenInv'
<1>1. req[r].pc = "save" /\ req[r].pc # "idle"
  BY DEF Save, At
<1>2. PICK c \in ConnIds : c = req[r].conn
  BY <1>1, Alone
<1>3. /\ req[r] \in ReqOf /\ Expects(r) /\ req[r].op # "refresh"
  BY <1>1, Alone DEF Knows
<1>4. PICK a : a = req[r].copy.agent
  OBVIOUS
<1>5. /\ conns' = SavedConn(c, req[r].copy) /\ agents' = SavedLink(c, a) /\ issued' = issued /\ Answers(r)
  BY <1>2, <1>4 DEF Save
<1>6. \A d \in ConnIds \ {c} : conns'[d] = conns[d]
  BY <1>5 DEF SavedConn, Inv, TypeOK
<1>7. \A x \in Tokens :
        \/ agents'[x] = agents[x]
        \/ Stored(agents[x]) /\ agents[x].conn = c /\ agents'[x].conn = None
        \/ x = a /\ Stored(agents[x]) /\ agents'[x].conn = c
  BY <1>5, SavedLinkSays
<1>8. RowsOfOne(r)
  <2>1. ASSUME NEW x \in Tokens, Stored(agents[x]), agents[x].conn = c
        PROVE  x \in AgentsOf(c) /\ x \in issued
    BY <2>1 DEF AgentsOf, TokenInv, AgentsFit, Stored
  <2>2. ASSUME NEW x \in Tokens, x = a
        PROVE  x \in Holds(req[r]) /\ x \in issued /\ (Stored(agents[x]) => agents[x].conn \in {c, None})
    BY <1>2, <1>4, <2>2 DEF Holds, TokenInv, AgentsFit
  <2>3. QED
    BY <1>2, <1>5, <1>6, <1>7, <2>1, <2>2 DEF RowsOfOne
<1> DEFINE q == [req[r] EXCEPT !.pc = "answered"]
<1>9. Ends(r) \/ Goes(r, q)
  BY <1>5 DEF Answers, Ends
<1>10. q \in ReqOf /\ Carries(req[r], q) /\ q.pc = "answered"
  BY <1>3, AnswerCarries
<1> HIDE DEF q
<1>11. CASE Ends(r)
  BY <1>1, <1>8, <1>11, EndKeepsTokens
<1>12. CASE Goes(r, q)
  <2>1. req'[r] = q /\ (Secluded(r) => Secluded(r)')
    BY <1>10, <1>12, MovesAlone DEF Carries
  <2>2. Expects(r)' /\ Stands(q)
    BY <1>3, <1>10, <2>1 DEF Expects, Carries, Stands
  <2>3. QED
    BY <1>1, <1>8, <1>10, <1>12, <2>2, MoveKeepsTokens
<1>13. QED
  BY <1>9, <1>11, <1>12

LEMMA TokenRemove ==
  ASSUME Inv, TokenInv, NEW r \in Requests, Remove(r)
  PROVE  TokenInv'
<1>1. req[r].pc = "remove" /\ req[r].pc # "idle" /\ Ends(r)
  BY DEF Remove, At
<1>2. PICK c \in ConnIds : c = req[r].conn
  BY <1>1, Alone
<1>3. /\ conns' = [conns EXCEPT ![c] = Gone] /\ issued' = issued
      /\ agents' = [a \in Tokens |-> IF a \in AgentsOf(c) THEN Gone ELSE agents[a]]
  BY <1>2 DEF Remove
<1>4. \A d \in ConnIds \ {c} : conns'[d] = conns[d]
  BY <1>3 DEF Inv, TypeOK
<1>5. ASSUME NEW a \in Tokens
      PROVE  \/ agents'[a] = agents[a]
             \/ a \in AgentsOf(c) /\ agents[a].conn = c /\ ~Stored(agents'[a]) /\ a \in issued
  BY <1>3 DEF AgentsOf, Stored, TokenInv, AgentsFit
<1>6. RowsOfOne(r)
  BY <1>2, <1>3, <1>4, <1>5 DEF RowsOfOne
<1>7. QED
  BY <1>1, <1>6, EndKeepsTokens

\* Evictions touch no agent and no request.
LEMMA TokenUnchanged ==
  ASSUME TokenInv, UNCHANGED <<conns, agents, issued, req>>
  PROVE  TokenInv'
BY DEF TokenInv, AgentsFit, Owned, Expects, Secluded, Stored, AgentsOf, OneAgent

LEMMA InitTokens == Init => TokenInv
<1> SUFFICES ASSUME Init PROVE TokenInv
  OBVIOUS
<1>1. \A r \in Requests : req[r] = Idle
  BY DEF Init
<1>2. \A a \in Tokens : agents[a] = None
  BY DEF Init
<1>3. AgentsFit
  BY <1>1, <1>2, IdleHoldsNothing DEF AgentsFit
<1>4. QED
  BY <1>1, <1>3, IdleHoldsNothing DEF TokenInv, Expects

LEMMA HandleKeepsTokens ==
  ASSUME Inv, TokenInv, NEW r \in Requests, Handle(r)
  PROVE  TokenInv'
<1>1. ASSUME CreateAgent(r) \/ RenewAgent(r) PROVE TokenInv'
  BY <1>1, TokenSavesAgent DEF CreateAgent, RenewAgent, At
<1>2. QED
  BY <1>1, TokenCreate, TokenUpdate, TokenRestore, TokenUpdateMasterPwd, TokenBareStart, TokenQueries, TokenInsert,
     TokenAddGroup, TokenAddPermission, TokenRefused, TokenFindAgent, TokenFindConn, TokenSave, TokenRemove,
     TokenLeave, TokenToPool, TokenTunnelIsUp, TokenTunnelFails, TokenQuery
  DEF Handle

LEMMA NextKeepsTokens == Inv /\ TokenInv /\ [Next]_vars => TokenInv'
<1> SUFFICES ASSUME Inv, TokenInv, [Next]_vars PROVE TokenInv'
  OBVIOUS
<1>1. CASE UNCHANGED vars
  BY <1>1, TokenUnchanged DEF vars, rowVars
<1>2. CASE Evict \/ EvictTunnel \/ EvictDriver \/ DriverCloses
  BY <1>2, TokenUnchanged DEF Evict, EvictTunnel, EvictDriver, DriverCloses, rowVars
<1>3. QED
  BY <1>1, <1>2, HandleKeepsTokens DEF Next

LEMMA AlwaysTokens == Spec => []TokenInv
BY InitTokens, AlwaysInv, NextKeepsTokens, PTL DEF Spec

(***************************************************************************)
(* Answers.  What opens the connection once a request is answered.         *)
(***************************************************************************)
LEMMA OneAgentOpens ==
  ASSUME Inv, NEW c \in ConnIds, NEW t, OneAgent(c, t)
  PROVE  {u \in Tokens : Opens(u, c)} = {t}
<1>1. PICK a \in Tokens : AgentsOf(c) = {a} /\ agents[a].token = t
  BY DEF OneAgent
<1>2. agents[a] \in AgentOf
  BY <1>1 DEF AgentsOf, Stored, Inv, TypeOK
<1>3. t \in Tokens
  BY <1>1, <1>2 DEF AgentOf
<1>4. QED
  BY <1>1, <1>3 DEF Opens

\* Every step of a request lets the others stay where they are.
LEMMA OneMoves ==
  ASSUME Inv, NEW x \in Requests, Handle(x), NEW r \in Requests \ {x}
  PROVE  req'[r].pc = req[r].pc
<1>1. req[r] \in ReqOf /\ req \in [Requests -> ReqOf]
  BY DEF Inv, TypeOK
<1>2. ASSUME NEW q, Starts(x, q) PROVE req'[r].pc = req[r].pc
  BY <1>1, <1>2 DEF Starts, ReqOf
<1>3. ASSUME NEW q, Goes(x, q) PROVE req'[r].pc = req[r].pc
  BY <1>1, <1>3 DEF Goes
<1>4. CASE Create(x) \/ Update(x) \/ Restore(x) \/ UpdateMasterPwd(x) \/ Delete(x) \/ RefreshToken(x) \/ Queries(x)
  BY <1>2, <1>4 DEF Create, Update, Restore, UpdateMasterPwd, Delete, RefreshToken, Queries
<1>5. CASE GroupIsGone(x) \/ AgentIsRefused(x) \/ LinkIsRefused(x) \/ PoolIsClosed(x) \/ StatementFails(x)
           \/ Remove(x) \/ Leave(x)
  BY <1>3, <1>5 DEF GroupIsGone, AgentIsRefused, LinkIsRefused, PoolIsClosed, StatementFails, Refuses, Ends,
    Remove, Leave
<1>6. CASE Insert(x) \/ AddGroup(x) \/ AddPermission(x) \/ FindAgent(x) \/ FindConn(x) \/ Save(x)
  BY <1>3, <1>6 DEF Insert, AddGroup, AddPermission, FindAgent, FindConn, Save, Answers
<1>7. CASE CreateAgent(x) \/ RenewAgent(x)
  BY <1>3, <1>7 DEF CreateAgent, RenewAgent, SavesAgent
<1>8. CASE \/ CachedKnex(x) \/ NewKnex(x) \/ CachedTunnel(x) \/ StartTunnel(x) \/ CachedDriver(x) \/ StartDriver(x)
           \/ DriverIsUp(x) \/ TunnelIsUp(x) \/ TunnelFails(x) \/ Query(x)
  BY <1>3, <1>8 DEF CachedKnex, NewKnex, CachedTunnel, StartTunnel, CachedDriver, StartDriver, DriverIsUp,
    TunnelIsUp, TunnelFails, Query
<1>9. QED
  BY <1>4, <1>5, <1>6, <1>7, <1>8 DEF Handle

\* The steps that answer with a token.
LEMMA StartsAt ==
  ASSUME NEW r \in Requests, NEW op, NEW pc, NEW c, NEW e, NEW o, NEW u, NEW q, Starts(r, q),
         \/ q = New(op, pc, c)
         \/ q = [New(op, pc, c) EXCEPT !.copy = e]
         \/ q = [New(op, pc, c) EXCEPT !.copy = e, !.owner = o]
         \/ q = [New(op, pc, c) EXCEPT !.copy = e, !.read = o, !.uses = u]
  PROVE  req'[r].pc = pc
<1>1. q.pc = pc /\ "pc" \in DOMAIN q
  BY DEF New, Idle
<1>2. req'[r] = [q EXCEPT !.alone = Others(r, q.conn) = {}]
  BY DEF Starts
<1>3. QED
  BY <1>1, <1>2

LEMMA NoStartAnswers ==
  ASSUME Inv, NEW r \in Requests,
         \/ Create(r) \/ Update(r) \/ Restore(r) \/ UpdateMasterPwd(r) \/ Delete(r) \/ RefreshToken(r) \/ Queries(r)
  PROVE  req'[r].pc # "answered"
<1>1. CASE Create(r)
  BY <1>1, StartsAt DEF Create
<1>2. CASE Update(r)
  <2>1. PICK c \in Open, type \in {"plain", "agent"}, host \in Hosts : \E copy \in WithAgent(c) :
          Starts(r, [New("update", IF type = "agent" THEN "findAgent" ELSE "save", c) EXCEPT
                       !.copy = Entered(copy, type, host)])
    BY <1>2 DEF Update
  <2>2. req'[r].pc = IF type = "agent" THEN "findAgent" ELSE "save"
    BY <2>1, StartsAt
  <2>3. QED
    BY <2>2
<1>3. CASE Restore(r)
  <2>1. PICK c \in Open, type \in Types, host \in Hosts :
          Starts(r, [New("restore", IF type = "agent" THEN "createAgent" ELSE "save", c) EXCEPT
                       !.copy = Entered(Loaded(c, Undefined), type, host), !.owner = c])
    BY <1>3 DEF Restore
  <2>2. req'[r].pc = IF type = "agent" THEN "createAgent" ELSE "save"
    BY <2>1, StartsAt
  <2>3. QED
    BY <2>2
<1>4. CASE UpdateMasterPwd(r)
  BY <1>4, StartsAt DEF UpdateMasterPwd
<1>5. CASE Delete(r) \/ RefreshToken(r)
  BY <1>5, StartsAt DEF Delete, RefreshToken
<1>6. CASE Queries(r)
  <2>1. PICK c \in Open, op \in {"rows", "tables", "properties"} :
          \E copy \in WithAgent(c) : Starts(r, QueryOf(op, c, copy))
    BY <1>6 DEF Queries
  <2>2. PICK copy \in WithAgent(c) : Starts(r, QueryOf(op, c, copy))
    BY <2>1
  <2>3. req'[r].pc = IF copy.type = "agent" THEN "save" ELSE "dao"
    BY <2>2, StartsAt DEF QueryOf
  <2>4. QED
    BY <2>3
<1>7. QED
  BY <1>1, <1>2, <1>3, <1>4, <1>5, <1>6

LEMMA WhoAnswers ==
  ASSUME Inv, NEW r \in Requests, Handle(r), req[r].pc # "answered", req'[r].pc = "answered"
  PROVE  AddPermission(r) \/ Save(r) \/ CreateAgent(r) \/ RenewAgent(r)
<1>1. req[r] \in ReqOf /\ req \in [Requests -> ReqOf] /\ Idle.pc # "answered"
  BY IdleKnows DEF Inv, TypeOK
<1>2. ASSUME NEW q, Goes(r, q) PROVE q.pc = "answered"
  BY <1>1, <1>2 DEF Goes
<1>3. ~(GroupIsGone(r) \/ AgentIsRefused(r) \/ LinkIsRefused(r) \/ PoolIsClosed(r) \/ StatementFails(r)
        \/ Remove(r) \/ Leave(r))
  BY <1>1, <1>2 DEF GroupIsGone, AgentIsRefused, LinkIsRefused, PoolIsClosed, StatementFails, Refuses, Ends,
    Remove, Leave
<1>5. ~(Insert(r) \/ AddGroup(r) \/ FindAgent(r) \/ FindConn(r))
  <2>1. Insert(r) => req'[r].pc \in {"createAgent", "group"}
    BY <1>1 DEF Insert, Goes, ReqOf
  <2>2. AddGroup(r) => req'[r].pc = "permissions"
    BY <1>1 DEF AddGroup, Goes, ReqOf
  <2>3. FindAgent(r) => req'[r].pc \in {"findConn", "renew"}
    <3>1. FindAgent(r) => \/ req'[r] = [req[r] EXCEPT !.pc = "findConn"]
                          \/ \E a \in Tokens : req'[r] = [req[r] EXCEPT !.pc = "renew", !.agent = a]
      BY <1>1 DEF FindAgent, Goes, AgentsOf
    <3>2. QED
      BY <1>1, <3>1 DEF ReqOf
  <2>4. FindConn(r) => req'[r].pc = "createAgent"
    <3>1. FindConn(r) => \E o \in ConnIds \union {None} : req'[r] = [req[r] EXCEPT !.pc = "createAgent", !.owner = o]
      BY <1>1 DEF FindConn, Goes, ReqOf
    <3>2. QED
      BY <1>1, <3>1 DEF ReqOf
  <2>5. QED
    BY <2>1, <2>2, <2>3, <2>4
<1>6. ~(\/ CachedKnex(r) \/ NewKnex(r) \/ CachedTunnel(r) \/ CachedDriver(r) \/ DriverIsUp(r)
        \/ StartTunnel(r) \/ StartDriver(r) \/ TunnelFails(r))
  <2>1. \A p : [req[r] EXCEPT !.pc = "query", !.port = p].pc = "query"
               /\ [req[r] EXCEPT !.pc = "tunnel", !.port = p].pc = "tunnel"
               /\ [req[r] EXCEPT !.pc = "driver", !.port = p].pc = "driver"
    BY <1>1 DEF ReqOf
  <2>2. ~(CachedKnex(r) \/ NewKnex(r) \/ CachedTunnel(r) \/ CachedDriver(r) \/ DriverIsUp(r))
    <3>1. ASSUME CachedKnex(r) \/ NewKnex(r) \/ CachedTunnel(r) \/ CachedDriver(r) \/ DriverIsUp(r)
          PROVE  \E p : Goes(r, Querying(req[r], p))
      BY <3>1 DEF CachedKnex, NewKnex, CachedTunnel, CachedDriver, DriverIsUp
    <3>2. \A p : Querying(req[r], p).pc = "query"
      BY <2>1 DEF Querying
    <3>3. QED
      BY <1>2, <3>1, <3>2
  <2>3. ~(StartTunnel(r) \/ StartDriver(r))
    <3>1. ASSUME StartTunnel(r) PROVE FALSE
      <4>1. PICK p : Goes(r, [req[r] EXCEPT !.pc = "tunnel", !.port = p])
        BY <3>1 DEF StartTunnel
      <4>2. QED
        BY <1>2, <2>1, <4>1
    <3>2. ASSUME StartDriver(r) PROVE FALSE
      <4>1. PICK p : Goes(r, [req[r] EXCEPT !.pc = "driver", !.port = p])
        BY <3>2 DEF StartDriver
      <4>2. QED
        BY <1>2, <2>1, <4>1
    <3>3. QED
      BY <3>1, <3>2
  <2>4. ~TunnelFails(r)
    <3>1. TunnelFails(r) => req'[r].pc = "hung"
      BY <1>1 DEF TunnelFails, Goes, ReqOf
    <3>2. QED
      BY <3>1
  <2>5. QED
    BY <2>2, <2>3, <2>4
<1>7. ~TunnelIsUp(r)
  <2>1. PICK p : p = req[r].port
    OBVIOUS
  <2>2. [[req[r] EXCEPT !.copy.host = p] EXCEPT !.pc = "query", !.port = p].pc = "query"
    BY <1>1 DEF ReqOf
  <2>3. TunnelIsUp(r) => Goes(r, [[req[r] EXCEPT !.copy.host = p] EXCEPT !.pc = "query", !.port = p])
    BY <2>1 DEF TunnelIsUp, Querying
  <2>4. QED
    BY <1>2, <2>2, <2>3
<1>8. ~Query(r)
  <2> DEFINE again  == [req[r] EXCEPT !.pc = "dao", !.uses = @ - 1]
             saving == [req[r] EXCEPT !.pc = "save", !.copy.listed = @ \/ req[r].op = "tables"]
  <2>1. Query(r) => Goes(r, again) \/ Goes(r, saving) \/ Goes(r, Idle)
    BY DEF Query
  <2>2. again.pc = "dao" /\ saving.pc = "save"
    BY <1>1 DEF ReqOf
  <2> HIDE DEF again, saving
  <2>3. QED
    BY <1>1, <1>2, <2>1, <2>2
<1>9. QED
  BY <1>3, <1>5, <1>6, <1>7, <1>8, NoStartAnswers DEF Handle

\* What it takes for a token to be answered.
LEMMA AnswersWhat ==
  ASSUME Inv, NEW r \in Requests, req[r].pc \in {"permissions", "save"}, Answers(r), req'[r].pc = "answered"
  PROVE  req'[r].token = req[r].token /\ req'[r].conn = req[r].conn /\ req[r].token # None
<1>1. req[r] \in ReqOf /\ req \in [Requests -> ReqOf] /\ Idle.pc # "answered"
  BY IdleKnows DEF Inv, TypeOK
<1>2. /\ [req[r] EXCEPT !.pc = "answered"].token = req[r].token
      /\ [req[r] EXCEPT !.pc = "answered"].conn = req[r].conn
  BY <1>1 DEF ReqOf
<1>3. QED
  BY <1>1, <1>2 DEF Answers, Goes

LEMMA SavesOneAgent ==
  ASSUME Inv, TokenInv, NEW r \in Requests, req[r].pc \in {"createAgent", "renew"}, req[r].op = "refresh", req[r].alone,
         \/ req[r].pc = "createAgent" /\ SavesAgent(r, None, req[r].owner)
         \/ req[r].pc = "renew" /\ SavesAgent(r, req[r].agent, req[r].conn),
         NEW c \in ConnIds, c = req[r].conn
  PROVE  req'[r].conn = c /\ \E t \in Tokens : req'[r].token = t /\ OneAgent(c, t)'
<1>1. req[r] \in ReqOf /\ Knows(req[r]) /\ Expects(r)
  BY Alone
<1>2. req[r].pc = "createAgent" => req[r].owner = c
  BY <1>1 DEF Expects
<1>3. None \notin Tokens /\ None \notin ConnIds
  BY DistinctValues
<1>4. PICK t \in Tokens, row \in Tokens :
        ~AgentRefused(row, c) /\ agents' = SavedAgent(row, c, t) /\ Goes(r, WithToken(req[r], row, t))
  <2>1. CASE req[r].pc = "createAgent"
    BY <1>2, <2>1 DEF SavesAgent
  <2>2. CASE req[r].pc = "renew"
    <3>1. req[r].agent \in Tokens /\ req[r].agent # None /\ SavesAgent(r, req[r].agent, c)
      BY <1>1, <1>3, <2>2 DEF Knows
    <3>2. QED
      BY <3>1 DEF SavesAgent
  <2>3. QED
    BY <2>1, <2>2
<1>5. agents'[row].conn = c /\ agents'[row].token = t /\ Stored(agents'[row])
      /\ \A x \in Tokens \ {row} : agents'[x] = agents[x]
  BY <1>4, SavedAgentSays
<1>6. AgentsOf(c) \subseteq {row}
  BY <1>3, <1>4 DEF AgentRefused
<1>7. AgentsOf(c)' = {x \in Tokens : Stored(agents'[x]) /\ agents'[x].conn = c}
  BY DEF AgentsOf, Stored
<1>8. AgentsOf(c)' = {row}
  BY <1>5, <1>6, <1>7 DEF AgentsOf
<1>9. req'[r] = WithToken(req[r], row, t)
  BY <1>4 DEF Goes, Inv, TypeOK
<1>10. req'[r].token = t /\ req'[r].conn = c
  BY <1>1, <1>9, WithTokenSays
<1>11. QED
  BY <1>5, <1>8, <1>10 DEF OneAgent

LEMMA AnswerOpens ==
  ASSUME Inv, TokenInv, Inv', [Next]_vars, NEW r \in Requests,
         req[r].pc # "answered", req'[r].pc = "answered", req[r].alone, ~Unlinks(req[r])
  PROVE  {t \in Tokens : Opens(t, req[r].conn)'} = {req'[r].token}
<1>1. Handle(r)
  <2>1. ~(UNCHANGED vars \/ Evict \/ EvictTunnel \/ EvictDriver \/ DriverCloses)
    BY DEF vars, Evict, EvictTunnel, EvictDriver, DriverCloses
  <2>2. QED
    BY <2>1, OneMoves DEF Next
<1>2. AddPermission(r) \/ Save(r) \/ CreateAgent(r) \/ RenewAgent(r)
  BY <1>1, WhoAnswers
<1>3. req[r].pc # "idle"
  BY <1>2 DEF AddPermission, Save, CreateAgent, RenewAgent, At
<1>4. PICK c \in ConnIds : c = req[r].conn
  BY <1>3, Alone
<1>5. req[r] \in ReqOf /\ Knows(req[r]) /\ Expects(r) /\ Stands(req[r])
  BY <1>3, Alone
<1>6. req'[r].conn = c /\ \E t \in Tokens : req'[r].token = t /\ OneAgent(c, t)'
  <2>1. CASE AddPermission(r)
    <3>1. req[r].pc = "permissions" /\ UNCHANGED <<conns, agents>> /\ Answers(r)
      BY <2>1 DEF AddPermission, At
    <3>2. req'[r].token = req[r].token /\ req'[r].conn = c /\ req[r].token # None /\ req[r].token \in Tokens
      BY <1>4, <1>5, <3>1, AnswersWhat DEF ReqOf
    <3>3. OneAgent(c, req[r].token)
      BY <1>4, <1>5, <3>1, <3>2 DEF Expects
    <3>4. PICK t \in Tokens : t = req[r].token
      BY <3>2
    <3>5. OneAgent(c, t)'
      BY <3>1, <3>3, <3>4 DEF OneAgent, AgentsOf, Stored
    <3>6. QED
      BY <3>2, <3>4, <3>5
  <2>2. CASE Save(r)
    <3>1. req[r].pc = "save" /\ Answers(r) /\ agents' = SavedLink(c, req[r].copy.agent)
      BY <1>4, <2>2 DEF Save, At
    <3>2. req'[r].token = req[r].token /\ req'[r].conn = c /\ req[r].token # None /\ req[r].token \in Tokens
      BY <1>4, <1>5, <3>1, AnswersWhat DEF ReqOf
    <3>3. PICK t \in Tokens, a \in Tokens : /\ t = req[r].token /\ AgentsOf(c) = {a} /\ agents[a].token = t
                                            /\ req[r].copy.agent = a
      BY <1>4, <1>5, <3>1, <3>2 DEF Expects, OneAgent
    <3>4. None \notin Tokens
      BY DistinctValues
    <3>5. agents[a] \in AgentOf /\ agents[a].conn = c /\ agents \in [Tokens -> AgentOf \union {None, Gone}]
      BY <3>3 DEF AgentsOf, Stored, Inv, TypeOK
    <3>6. [agents[a] EXCEPT !.conn = c].conn = c /\ [agents[a] EXCEPT !.conn = c].token = t
      BY <3>3, <3>5 DEF AgentOf
    <3>7. /\ agents'[a].conn = c /\ agents'[a].token = t
          /\ \A x \in Tokens \ {a} : agents'[x] = agents[x]
      BY <3>1, <3>3, <3>4, <3>5, <3>6 DEF SavedLink
    <3>8. Stored(agents'[a])
      <4>1. [agents[a] EXCEPT !.conn = c] \in AgentOf
        BY <3>5 DEF AgentOf
      <4>2. agents'[a] \in AgentOf
        BY <3>1, <3>3, <3>4, <3>5, <4>1 DEF SavedLink
      <4>3. QED
        BY <4>2, DistinctValues DEF Stored
    <3>9. AgentsOf(c)' = {x \in Tokens : Stored(agents'[x]) /\ agents'[x].conn = c}
      BY DEF AgentsOf, Stored
    <3>10. AgentsOf(c)' = {a}
      BY <3>3, <3>7, <3>8, <3>9 DEF AgentsOf
    <3>11. QED
      BY <3>2, <3>3, <3>7, <3>10 DEF OneAgent
  <2>3. CASE CreateAgent(r) \/ RenewAgent(r)
    <3>1. /\ req[r].pc \in {"createAgent", "renew"}
          /\ \/ req[r].pc = "createAgent" /\ SavesAgent(r, None, req[r].owner)
             \/ req[r].pc = "renew" /\ SavesAgent(r, req[r].agent, req[r].conn)
      BY <2>3 DEF CreateAgent, RenewAgent, At
    <3>2. PICK a \in Tokens, t \in Tokens : Goes(r, WithToken(req[r], a, t))
      BY <1>5, <3>1 DEF SavesAgent, Knows
    <3>3. req'[r] = WithToken(req[r], a, t)
      BY <3>2 DEF Goes, Inv, TypeOK
    <3>4. req[r].op = "refresh"
      BY <1>5, <3>3, WithTokenSays
    <3>5. QED
      BY <1>4, <3>1, <3>4, SavesOneAgent
  <2>4. QED
    BY <1>2, <2>1, <2>2, <2>3
<1>7. PICK t \in Tokens : req'[r].token = t /\ OneAgent(c, t)'
  BY <1>6
<1>8. \A u \in Tokens : Opens(u, req[r].conn)' <=> \E a \in AgentsOf(c)' : agents'[a].token = u
  BY <1>6 DEF Opens, AgentsOf, Stored
<1>9. QED
  BY <1>7, <1>8 DEF OneAgent

\* A token that is answered to a request that met no other is the one token
\* that opens its connection, however the requests for other connections, and
\* those that came before and after, run; but for the first agent of an update.
THEOREM AnsweredTokensAlwaysOpen == Spec => AnsweredTokenOpens
<1>1. ASSUME Inv, TokenInv, Inv', [Next]_vars
      PROVE  \A r \in Requests :
               LET q == req[r] IN
               /\ ~At(r, "answered") /\ req'[r].pc = "answered" /\ q.alone
               /\ ~(q.op = "update" /\ q.copy.agent = None)
               => {t \in Tokens : Opens(t, q.conn)'} = {req'[r].token}
  BY <1>1, AnswerOpens DEF At, Unlinks
<1>2. Inv /\ TokenInv /\ Inv' /\ [Next]_vars =>
        [\A r \in Requests :
               LET q == req[r] IN
               /\ ~At(r, "answered") /\ req'[r].pc = "answered" /\ q.alone
               /\ ~(q.op = "update" /\ q.copy.agent = None)
               => {t \in Tokens : Opens(t, q.conn)'} = {req'[r].token}]_vars
  BY <1>1
<1>3. QED
  BY <1>2, AlwaysInv, AlwaysTokens, PTL DEF Spec, AnsweredTokenOpens
=============================================================================
