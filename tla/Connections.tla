----------------------------- MODULE Connections -----------------------------
(***************************************************************************)
(* The life of a connection (entities/connection, agent and                *)
(* connection-properties), and the pools its requests query through        *)
(* (helpers/cache/cacher.ts, dal/shared/tunnel-creator.ts).                *)
(*                                                                         *)
(* A connection has a row, its Admin group with two permissions, without   *)
(* which no guard lets anybody in, and, when an agent serves it, a row     *)
(* with the token of the agent.  Every handler reads the row, waits, and   *)
(* saves all it has read; no transaction spans its statements.  A pool is  *)
(* cached under the whole row that was read, and a tunnel rewrites the     *)
(* host and port of that copy.  Credentials and master passwords are in    *)
(* module Credentials, the tables of a connection in TableConfig.          *)
(***************************************************************************)
EXTENDS Naturals, FiniteSets

CONSTANTS Requests,     \* requests that are served at a time
          ConnIds,      \* ids of connections, each given once
          Hosts,        \* host and port of databases, as users enter them
          Ports,        \* free local ports; each also names the pool opened on it
          Tokens,       \* tokens of agents, each made once; it names its agent row too
          None,         \* null; a row that never was
          Undefined,    \* a property that is not there: save() skips it
          Gone,         \* a row that was removed
          MaxRequests,  \* bound on the requests that are served
          MaxFaults     \* bound on failed statements, failed tunnels and evictions

\* Reached directly, through a tunnel, through the stream of an SSH client
\* (MySQL behind ssh), or by an agent.
Types  == {"plain", "ssh", "mysql_ssh", "agent"}
Ops    == {"create", "update", "restore", "password", "delete", "refresh", "rows", "tables", "properties"}
Causes == {"creation", "saved again"}
RowOf   == [type : Types, host : Hosts \union Ports \union {None}, listed : BOOLEAN, ver : Nat]
AgentOf == [conn : ConnIds \union {None}, token : Tokens]
CopyOf  == [type : Types \union {None}, host : Hosts \union Ports \union {None}, listed : BOOLEAN,
            ver : Nat, agent : Tokens \union {None, Undefined}]
PoolOf  == [to : Hosts \union Ports \union {None}, open : BOOLEAN, key : (ConnIds \X CopyOf) \union {None}]

ASSUME DistinctValues ==
  /\ None \notin {Undefined, Gone} /\ Undefined # Gone
  /\ {None, Undefined, Gone} \intersect (ConnIds \union Hosts \union Ports \union Tokens) = {}
  /\ {None, Gone} \intersect (RowOf \union AgentOf \union PoolOf \union (ConnIds \X CopyOf)
                           \union Types \union Ops \union 0..2) = {}
  /\ Hosts \intersect Ports = {}
  /\ MaxRequests \in Nat /\ MaxFaults \in Nat

VARIABLES conns,       \* [type, host, listed, ver], None or Gone
          agents,      \* agent rows: [conn, token], None or Gone
          rights,      \* of a connection: permissions of its Admin group, or None without the group
          knexCache, tunnelCache, driverCache,   \* what is cached: [key, pool]
          pools,       \* of a port: [to, open, key], None before it is opened
          issued,      \* the tokens that were made
          req,         \* what each request has read and has yet to do
          broken,      \* history: why a connection may have no Admin group
          clock,       \* counts the writes of connections: updatedAt
          served,      \* requests so far
          faults       \* faults so far

rowVars   == <<conns, agents, rights, issued, broken, clock>>
cacheVars == <<knexCache, tunnelCache, driverCache, pools>>
vars      == <<rowVars, cacheVars, req, served, faults>>

NoCopy   == [type |-> None, host |-> None, listed |-> FALSE, ver |-> 0, agent |-> Undefined]
Idle     == [op |-> None, pc |-> "idle", conn |-> None, copy |-> NoCopy,
             read |-> None, agent |-> None, owner |-> None, token |-> None, port |-> None, uses |-> 0, alone |-> FALSE]
-----------------------------------------------------------------------------
(***************************************************************************)
(* Rows.                                                                   *)
(***************************************************************************)
Stored(row)  == row \notin {None, Gone}
AgentsOf(c)  == {a \in Tokens : Stored(agents[a]) /\ agents[a].conn = c}
\* ConnectionEditGuard and ConnectionReadGuard: someone has a right on the
\* connection as soon as the first permission of its Admin group is there.
Open         == {c \in ConnIds : rights[c] # None /\ rights[c] > 0}
\* The token is accepted: findOneAgentConnectionByToken.
Opens(t, c)  == \E a \in AgentsOf(c) : agents[a].token = t

\* findAndDecryptConnection joins the agent, null when there is none; findOne
\* leaves the property out.
Loaded(c, agent) == [type |-> conns[c].type, host |-> conns[c].host, listed |-> conns[c].listed,
                     ver |-> conns[c].ver, agent |-> agent]
WithAgent(c)     == {Loaded(c, a) : a \in IF AgentsOf(c) = {} THEN {None} ELSE AgentsOf(c)}

Bare(copy) == [type |-> copy.type, host |-> copy.host, listed |-> copy.listed, ver |-> copy.ver]
\* save() of a connection: nothing is written when nothing differs, the hook
\* stamps what is, and a row that is gone is inserted again, without what the
\* removal took along.
SavedConn(c, copy) ==
  [conns EXCEPT ![c] = IF @ = Bare(copy) THEN @ ELSE [Bare(copy) EXCEPT !.ver = clock + 1]]
\* The other side of a one-to-one that was loaded is written with it: null
\* unlinks the agent that is linked by now, and an agent that was unlinked
\* since is linked again, which the unique key refuses beside another one.
SavedLink(c, a) ==
  [x \in Tokens |->
     IF a = None /\ Stored(agents[x]) /\ agents[x].conn = c THEN [agents[x] EXCEPT !.conn = None]
     ELSE IF x = a /\ Stored(agents[x]) THEN [agents[x] EXCEPT !.conn = c] ELSE agents[x]]
LinkRefused(c, a) == a \in Tokens /\ Stored(agents[a]) /\ AgentsOf(c) \ {a} # {}

\* save() of an agent row (and a variant that keeps the token of one that is
\* there), and when the keys of the database refuse it.
SavedNewAgent(a, c, t) ==
  [agents EXCEPT ![a] = [conn |-> c, token |-> IF Stored(agents[a]) THEN agents[a].token ELSE t]]
SavedAgent(a, c, t) == [agents EXCEPT ![a] = [conn |-> c, token |-> t]]
AgentRefused(a, c)  == c # None /\ (~Stored(conns[c]) \/ AgentsOf(c) \ {a} # {})
-----------------------------------------------------------------------------
(***************************************************************************)
(* Requests.  Two that are about one connection and served at the same     *)
(* time are not alone.                                                     *)
(***************************************************************************)
Others(r, c) == {x \in Requests \ {r} : req[x].conn = c}
Starts(r, q) ==
  /\ req[r] = Idle /\ served < MaxRequests
  /\ served' = served + 1
  /\ req' = [x \in Requests |->
               IF x = r THEN [q EXCEPT !.alone = Others(r, q.conn) = {}]
               ELSE IF x \in Others(r, q.conn) THEN [req[x] EXCEPT !.alone = FALSE] ELSE req[x]]
New(op, pc, c) == [Idle EXCEPT !.op = op, !.pc = pc, !.conn = c]
Goes(r, q)  == req' = [req EXCEPT ![r] = q]
At(r, pc)   == req[r].pc = pc
Ends(r)     == Goes(r, Idle)
\* An answer with a token is kept for a moment; of others nothing is said.
Answers(r)  == Goes(r, IF req[r].token = None THEN Idle ELSE [req[r] EXCEPT !.pc = "answered"])
Blamed(r)   == IF req[r].op = "create" /\ Stored(conns[req[r].conn])
               THEN [broken EXCEPT ![req[r].conn] = @ \union {"creation"}] ELSE broken
\* The request is refused where it stands: what it has saved stays.
Refuses(r)  == /\ Ends(r)
               /\ broken' = Blamed(r)
               /\ UNCHANGED <<conns, agents, rights, issued, clock, cacheVars, served>>
-----------------------------------------------------------------------------
(***************************************************************************)
(* Starting: what the handler reads before its first write.  The validator *)
(* of new parameters refuses every connection with ssh; only restoring     *)
(* one lets ssh in.  What is entered for a connection of an agent has no   *)
(* host, and update and restore then leave the host as it was.             *)
(***************************************************************************)
\* A variant that keeps the host that is stored.
EnteredType(copy, type, host) == [copy EXCEPT !.type = type]
Entered(copy, type, host) ==
  [copy EXCEPT !.type = type, !.host = IF type = "agent" THEN @ ELSE host]

Create(r) ==
  \E c \in ConnIds, type \in {"plain", "agent"}, host \in Hosts :
    /\ conns[c] = None /\ \A x \in Requests : req[x].conn # c
    /\ Starts(r, [New("create", "insert", c) EXCEPT
                    !.copy = Entered(NoCopy, type, host), !.owner = c])
    /\ UNCHANGED <<rowVars, cacheVars, faults>>
Update(r) ==
  \E c \in Open, type \in {"plain", "agent"}, host \in Hosts : \E copy \in WithAgent(c) :
    /\ Starts(r, [New("update", IF type = "agent" THEN "findAgent" ELSE "save", c) EXCEPT
                    !.copy = Entered(copy, type, host)])
    /\ UNCHANGED <<rowVars, cacheVars, faults>>
Restore(r) ==
  \E c \in Open, type \in Types, host \in Hosts :
    /\ Starts(r, [New("restore", IF type = "agent" THEN "createAgent" ELSE "save", c) EXCEPT
                    !.copy = Entered(Loaded(c, Undefined), type, host), !.owner = c])
    /\ UNCHANGED <<rowVars, cacheVars, faults>>
UpdateMasterPwd(r) ==
  \E c \in Open : \E copy \in WithAgent(c) :
    /\ Starts(r, [New("password", "save", c) EXCEPT !.copy = copy])
    /\ UNCHANGED <<rowVars, cacheVars, faults>>
Delete(r) ==
  \E c \in Open :
    /\ Starts(r, New("delete", "remove", c))
    /\ UNCHANGED <<rowVars, cacheVars, faults>>
RefreshToken(r) ==
  \E c \in Open :
    /\ Starts(r, New("refresh", "findAgent", c))
    /\ UNCHANGED <<rowVars, cacheVars, faults>>
\* What queries the database of the customer: rows (twice in a request), the
\* list of tables, which the first time goes on in the background, and the
\* properties of a connection, which look at the list.  An agent is asked
\* over HTTP, without a pool.
QueryOf(op, c, copy) ==
  [New(op, IF copy.type = "agent" THEN "save" ELSE "dao", c) EXCEPT
     !.copy = [copy EXCEPT !.listed = @ \/ (copy.type = "agent" /\ op = "tables")],
     !.read = copy.host,
     !.uses = IF op = "rows" \/ (op = "tables" /\ ~copy.listed) THEN 2 ELSE 1]
Queries(r) ==
  \E c \in Open : \E op \in {"rows", "tables", "properties"}, copy \in WithAgent(c) :
    /\ copy.type = "agent" => op = "properties" \/ (op = "tables" /\ ~copy.listed)
    /\ Starts(r, QueryOf(op, c, copy))
    /\ UNCHANGED <<rowVars, cacheVars, faults>>
-----------------------------------------------------------------------------
(***************************************************************************)
(* Rows are written.                                                       *)
(***************************************************************************)
Insert(r) ==
  LET q == req[r] IN
  /\ At(r, "insert")
  /\ conns' = [conns EXCEPT ![q.conn] = [Bare(q.copy) EXCEPT !.ver = clock + 1]]
  /\ clock' = clock + 1
  /\ Goes(r, [q EXCEPT !.pc = IF q.copy.type = "agent" THEN "createAgent" ELSE "group"])
  /\ UNCHANGED <<agents, rights, issued, broken, cacheVars, served, faults>>

\* createdAdminGroupInConnection and the two permissions of
\* createdDefaultAdminPermissionsInGroup, three saves.
AddGroup(r) ==
  LET c == req[r].conn IN
  /\ At(r, "group")
  /\ rights' = [rights EXCEPT ![c] = 0]
  /\ Goes(r, [req[r] EXCEPT !.pc = "permissions"])
  /\ UNCHANGED <<conns, agents, issued, broken, clock, cacheVars, served, faults>>
\* A variant that saves one permission.
AddOnePermission(r) ==
  LET c == req[r].conn IN
  /\ At(r, "permissions")
  /\ rights[c] # None
  /\ rights' = [rights EXCEPT ![c] = 1]
  /\ Answers(r)
  /\ UNCHANGED <<conns, agents, issued, broken, clock, cacheVars, served, faults>>
AddPermission(r) ==
  LET c == req[r].conn IN
  /\ At(r, "permissions")
  /\ rights[c] # None
  /\ rights' = [rights EXCEPT ![c] = @ + 1]
  /\ IF rights[c] = 0 THEN UNCHANGED req ELSE Answers(r)
  /\ UNCHANGED <<conns, agents, issued, broken, clock, cacheVars, served, faults>>
\* The group went with its connection.
GroupIsGone(r) == At(r, "permissions") /\ rights[req[r].conn] = None /\ Refuses(r) /\ UNCHANGED faults

\* renewOrCreateConnectionToken looks for the agent, then for the connection,
\* and does not ask whether it found one.
FindAgent(r) ==
  /\ At(r, "findAgent")
  /\ IF AgentsOf(req[r].conn) = {} THEN Goes(r, [req[r] EXCEPT !.pc = "findConn"])
     ELSE \E a \in AgentsOf(req[r].conn) : Goes(r, [req[r] EXCEPT !.pc = "renew", !.agent = a])
  /\ UNCHANGED <<rowVars, cacheVars, served, faults>>
FindConn(r) ==
  LET c == req[r].conn IN
  /\ At(r, "findConn")
  /\ Goes(r, [req[r] EXCEPT !.pc = "createAgent", !.owner = IF Stored(conns[c]) THEN c ELSE None])
  /\ UNCHANGED <<rowVars, cacheVars, served, faults>>
\* Where a request goes with its new token.
WithToken(q, a, t) ==
  [q EXCEPT !.token = t,
            !.pc = CASE q.op = "create" -> "group" [] q.op = "refresh" -> "answered" [] OTHER -> "save",
            !.copy.agent = IF q.op = "restore" THEN a ELSE @]
SavesAgent(r, a, c) ==
  \E t \in Tokens \ issued :
    LET row == IF a = None THEN t ELSE a IN
    /\ ~AgentRefused(row, c)
    /\ agents' = SavedAgent(row, c, t)
    /\ issued' = issued \union {t}
    /\ Goes(r, WithToken(req[r], row, t))
    /\ UNCHANGED <<conns, rights, broken, clock, cacheVars, served, faults>>
CreateAgent(r) == At(r, "createAgent") /\ SavesAgent(r, None, req[r].owner)
RenewAgent(r)  == At(r, "renew") /\ SavesAgent(r, req[r].agent, req[r].conn)
AgentIsRefused(r) ==
  /\ \/ At(r, "createAgent") /\ AgentRefused(None, req[r].owner)
     \/ At(r, "renew") /\ AgentRefused(req[r].agent, req[r].conn)
  /\ Refuses(r) /\ UNCHANGED faults

\* saveNewConnection, saveUpdatedConnection.
Save(r) ==
  LET q == req[r]  c == q.conn IN
  /\ At(r, "save") /\ ~LinkRefused(c, q.copy.agent)
  /\ conns' = SavedConn(c, q.copy)
  /\ clock' = IF conns' = conns THEN clock ELSE clock + 1
  /\ agents' = SavedLink(c, q.copy.agent)
  /\ broken' = IF Stored(conns[c]) THEN broken ELSE [broken EXCEPT ![c] = @ \union {"saved again"}]
  /\ Answers(r)
  /\ UNCHANGED <<rights, issued, cacheVars, served, faults>>
LinkIsRefused(r) ==
  At(r, "save") /\ LinkRefused(req[r].conn, req[r].copy.agent) /\ Refuses(r) /\ UNCHANGED faults

\* removeConnection: agent and groups go along (onDelete: CASCADE).
Remove(r) ==
  LET c == req[r].conn IN
  /\ At(r, "remove")
  /\ conns' = [conns EXCEPT ![c] = Gone]
  /\ agents' = [a \in Tokens |-> IF a \in AgentsOf(c) THEN Gone ELSE agents[a]]
  /\ rights' = [rights EXCEPT ![c] = None]
  /\ Ends(r)
  /\ UNCHANGED <<issued, broken, clock, cacheVars, served, faults>>

Leave(r) == At(r, "answered") /\ Ends(r) /\ UNCHANGED <<rowVars, cacheVars, served, faults>>
-----------------------------------------------------------------------------
(***************************************************************************)
(* Pools.  configureKnex looks in knexCache, then, behind ssh, in          *)
(* tunnelCache, under the copy as it is at that moment.                    *)
(***************************************************************************)
\* A variant of the key that is the id of the connection and how it is reached.
KeyById(q)  == <<q.conn, [NoCopy EXCEPT !.type = q.copy.type]>>
Key(q)      == <<q.conn, q.copy>>
Cached(cache, q) == {e.pool : e \in {x \in cache : x.key = Key(q)}}
Caches(q, p)  == [key |-> Key(q), pool |-> p]
FreePorts   == {p \in Ports : pools[p] = None /\ \A x \in Requests : req[x].port # p}
Opened(p, to, key) == [pools EXCEPT ![p] = [to |-> to, open |-> TRUE, key |-> key]]
Querying(q, p) == [q EXCEPT !.pc = "query", !.port = p]

CachedKnex(r) ==
  LET q == req[r] IN
  /\ At(r, "dao")
  /\ \E p \in Cached(knexCache, q) : Goes(r, Querying(q, p))
  /\ UNCHANGED <<rowVars, cacheVars, served, faults>>
\* getPostgresKnex and its likes: nothing is awaited between looking and caching.
NewKnex(r) ==
  LET q == req[r] IN
  /\ At(r, "dao") /\ q.copy.type = "plain" /\ Cached(knexCache, q) = {}
  /\ \E p \in FreePorts :
       /\ pools' = Opened(p, q.copy.host, None)
       /\ knexCache' = knexCache \union {Caches(q, p)}
       /\ Goes(r, Querying(q, p))
  /\ UNCHANGED <<rowVars, tunnelCache, driverCache, served, faults>>
\* createTunneledKnex: the knex of a cached tunnel, or a new tunnel from a
\* free port to the host of the copy ...
CachedTunnel(r) ==
  LET q == req[r] IN
  /\ At(r, "dao") /\ q.copy.type = "ssh" /\ Cached(knexCache, q) = {}
  /\ \E p \in Cached(tunnelCache, q) :
       /\ knexCache' = knexCache \union {Caches(q, p)}
       /\ Goes(r, Querying(q, p))
  /\ UNCHANGED <<rowVars, tunnelCache, driverCache, pools, served, faults>>
StartTunnel(r) ==
  LET q == req[r] IN
  /\ At(r, "dao") /\ q.copy.type = "ssh" /\ Cached(knexCache, q) = {} /\ Cached(tunnelCache, q) = {}
  /\ \E p \in FreePorts : Goes(r, [q EXCEPT !.pc = "tunnel", !.port = p])
  /\ UNCHANGED <<rowVars, cacheVars, served, faults>>
\* ... whose callback writes the local end into the copy, and then caches.
TunnelIsUp(r) ==
  LET p == req[r].port
      q == [req[r] EXCEPT !.copy.host = p] IN
  /\ At(r, "tunnel")
  /\ pools' = Opened(p, req[r].copy.host, None)
  /\ knexCache' = knexCache \union {Caches(q, p)}
  /\ tunnelCache' = tunnelCache \union {Caches(q, p)}
  /\ Goes(r, Querying(q, p))
  /\ UNCHANGED <<rowVars, driverCache, served, faults>>
\* What is thrown in the callback settles no promise: the request hangs.
TunnelFails(r) ==
  /\ At(r, "tunnel") /\ faults < MaxFaults
  /\ Goes(r, [req[r] EXCEPT !.pc = "hung"])
  /\ faults' = faults + 1
  /\ UNCHANGED <<rowVars, cacheVars, served>>

\* getMySqlDriver: an SSH client and the driver on its stream.  Two requests
\* that find none make two, and the second takes the place of the first.
CachedDriver(r) ==
  /\ At(r, "dao") /\ req[r].copy.type = "mysql_ssh"
  /\ \E p \in Cached(driverCache, req[r]) : Goes(r, Querying(req[r], p))
  /\ UNCHANGED <<rowVars, cacheVars, served, faults>>
StartDriver(r) ==
  LET q == req[r] IN
  /\ At(r, "dao") /\ q.copy.type = "mysql_ssh" /\ Cached(driverCache, q) = {}
  /\ \E p \in FreePorts : Goes(r, [q EXCEPT !.pc = "driver", !.port = p])
  /\ UNCHANGED <<rowVars, cacheVars, served, faults>>
DriverIsUp(r) ==
  LET q == req[r]  p == q.port IN
  /\ At(r, "driver")
  /\ pools' = Opened(p, q.copy.host, Key(q))
  /\ driverCache' = {e \in driverCache : e.key # Key(q)} \union {Caches(q, p)}
  /\ Goes(r, Querying(q, p))
  /\ UNCHANGED <<rowVars, knexCache, tunnelCache, served, faults>>
\* The SSH client closes: whatever is cached under its key is forgotten (and in
\* a variant nothing is).
DriverClosesUnnoticed ==
  /\ faults < MaxFaults /\ faults' = faults + 1
  /\ \E p \in Ports :
       /\ pools[p] # None /\ pools[p].open /\ pools[p].key # None
       /\ pools' = [pools EXCEPT ![p].open = FALSE]
  /\ UNCHANGED <<rowVars, knexCache, tunnelCache, driverCache, req, served>>
DriverCloses ==
  /\ faults < MaxFaults /\ faults' = faults + 1
  /\ \E p \in Ports :
       /\ pools[p] # None /\ pools[p].open /\ pools[p].key # None
       /\ pools' = [pools EXCEPT ![p].open = FALSE]
       /\ driverCache' = {e \in driverCache : e.key # pools[p].key}
  /\ UNCHANGED <<rowVars, knexCache, tunnelCache, req, served>>

\* The query is answered, and the handler queries again or goes on.
Query(r) ==
  LET q == req[r]
      saves == q.op = "properties" \/ (q.op = "tables" /\ ~q.copy.listed) IN
  /\ At(r, "query") /\ pools[q.port].open
  /\ Goes(r, IF q.uses > 1 THEN [q EXCEPT !.pc = "dao", !.uses = @ - 1]
             ELSE IF saves THEN [q EXCEPT !.pc = "save", !.copy.listed = @ \/ q.op = "tables"]
             ELSE Idle)
  /\ UNCHANGED <<rowVars, cacheVars, served, faults>>
PoolIsClosed(r) ==
  At(r, "query") /\ ~pools[req[r].port].open /\ Refuses(r) /\ UNCHANGED faults

\* An entry is too old or one too many, whoever uses it: dispose destroys the
\* knex; what it calls on a cached tunnel, which is not the tunnel, fails.  A
\* tunnel that breaks leaves its cache as well.
Evict ==
  /\ faults < MaxFaults /\ faults' = faults + 1
  /\ \E e \in knexCache : /\ knexCache' = knexCache \ {e}
                          /\ pools' = [pools EXCEPT ![e.pool].open = FALSE]
  /\ UNCHANGED <<rowVars, tunnelCache, driverCache, req, served>>
\* Nothing is disposed of with a cached driver.
EvictDriver ==
  /\ faults < MaxFaults /\ faults' = faults + 1
  /\ \E e \in driverCache : driverCache' = driverCache \ {e}
  /\ UNCHANGED <<rowVars, pools, knexCache, tunnelCache, req, served>>
EvictTunnel ==
  /\ faults < MaxFaults /\ faults' = faults + 1
  /\ \E e \in tunnelCache : tunnelCache' = tunnelCache \ {e}
  /\ UNCHANGED <<rowVars, pools, knexCache, driverCache, req, served>>
-----------------------------------------------------------------------------
Init ==
  /\ \E type \in Types, host \in Hosts, shown \in SUBSET ConnIds :
       conns = [c \in ConnIds |-> IF c \notin shown THEN None
                                  ELSE [type |-> type, host |-> host, listed |-> FALSE, ver |-> 0]]
  /\ agents = [a \in Tokens |-> None]
  /\ rights = [c \in ConnIds |-> IF conns[c] = None THEN None ELSE 2]
  /\ broken = [c \in ConnIds |-> {}]
  /\ issued = {} /\ knexCache = {} /\ tunnelCache = {} /\ driverCache = {}
  /\ pools = [p \in Ports |-> None]
  /\ req = [r \in Requests |-> Idle]
  /\ clock = 0 /\ served = 0 /\ faults = 0

\* A statement of a request is rejected.
StatementFails(r) ==
  /\ req[r].pc \notin {"idle", "answered", "hung", "dao", "tunnel"}
  /\ faults < MaxFaults /\ faults' = faults + 1
  /\ Refuses(r)

Handle(r) ==
  \/ Create(r) \/ Update(r) \/ Restore(r) \/ UpdateMasterPwd(r) \/ Delete(r)
  \/ RefreshToken(r) \/ Queries(r)
  \/ Insert(r) \/ AddGroup(r) \/ AddPermission(r) \/ GroupIsGone(r)
  \/ FindAgent(r) \/ FindConn(r) \/ CreateAgent(r) \/ RenewAgent(r) \/ AgentIsRefused(r)
  \/ Save(r) \/ LinkIsRefused(r) \/ Remove(r) \/ Leave(r)
  \/ CachedKnex(r) \/ NewKnex(r) \/ CachedTunnel(r) \/ StartTunnel(r)
  \/ CachedDriver(r) \/ StartDriver(r) \/ DriverIsUp(r)
  \/ TunnelIsUp(r) \/ TunnelFails(r) \/ Query(r) \/ PoolIsClosed(r)
  \/ StatementFails(r)
Next == (\E r \in Requests : Handle(r)) \/ Evict \/ EvictTunnel \/ EvictDriver \/ DriverCloses
Spec == Init /\ [][Next]_vars
-----------------------------------------------------------------------------
Places == {"idle", "insert", "group", "permissions", "findAgent", "findConn", "createAgent", "renew",
           "save", "remove", "answered", "dao", "tunnel", "driver", "query", "hung"}

ReqOf  == [op : Ops \union {None}, pc : Places, conn : ConnIds \union {None}, copy : CopyOf,
           read : Hosts \union Ports \union {None}, agent : Tokens \union {None},
           owner : ConnIds \union {None}, token : Tokens \union {None},
           port : Ports \union {None}, uses : 0..2, alone : BOOLEAN]
Entries == [key : ConnIds \X CopyOf, pool : Ports]

\* Rows, requests and caches have their types; a group goes with its
\* connection, and what is cached was opened.
TypeOK ==
  /\ conns \in [ConnIds -> RowOf \union {None, Gone}]
  /\ agents \in [Tokens -> AgentOf \union {None, Gone}]
  /\ rights \in [ConnIds -> {None, 0, 1, 2}]
  /\ \A c \in ConnIds : rights[c] # None => Stored(conns[c])
  /\ broken \in [ConnIds -> SUBSET Causes]
  /\ issued \subseteq Tokens
  /\ pools \in [Ports -> PoolOf \union {None}]
  /\ knexCache \subseteq Entries /\ tunnelCache \subseteq Entries /\ driverCache \subseteq Entries
  /\ \A e \in knexCache \union tunnelCache \union driverCache : pools[e.pool] # None
  /\ req \in [Requests -> ReqOf]
  /\ clock \in Nat /\ served \in 0..MaxRequests /\ faults \in 0..MaxFaults

(***************************************************************************)
(* A stored connection whose Admin group is not complete lets nobody in,   *)
(* so that nobody can use or delete it.  There is one only while it is     *)
(* being created (create-connection.use.case.ts:43-52), after a statement  *)
(* of its creation failed, or because a request that held a copy saved it  *)
(* after it was deleted.                                                   *)
(***************************************************************************)
OrphansHaveACause ==
  \A c \in ConnIds : Stored(conns[c]) /\ rights[c] # 2 =>
    broken[c] # {} \/ \E r \in Requests : req[r].conn = c /\ req[r].op = "create"

(***************************************************************************)
(* A token that is answered (create, update, restore, refresh) to a        *)
(* request that met no other is the one token that opens its connection,   *)
(* unless an update gave a connection its first agent: the copy it saves   *)
(* last was read before and unlinks that agent again                       *)
(* (update-connection.use.case.ts:63-68).                                  *)
(***************************************************************************)
AnsweredTokenOpens ==
  [][\A r \in Requests :
       LET q == req[r] IN
       /\ ~At(r, "answered") /\ req'[r].pc = "answered" /\ q.alone
       /\ ~(q.op = "update" /\ q.copy.agent = None)
       => {t \in Tokens : Opens(t, q.conn)'} = {req'[r].token}]_vars

(***************************************************************************)
(* The pool a request queries leads to the host and port it has read,      *)
(* whatever is changed and cached meanwhile.  Only when its own tunnel     *)
(* left the caches in the middle of the request does the next one lead to  *)
(* the local end of the first, at the far side (tunnel-creator.ts:26-34).  *)
(***************************************************************************)
QueriesGoWhereTheRowSays ==
  \A r \in Requests :
    At(r, "query") /\ pools[req[r].port].to # req[r].read =>
      req[r].copy.type = "ssh" /\ faults > 0 /\ pools[req[r].port].to \in Ports

(***************************************************************************)
(* A local port that a tunnel wrote into a copy is saved with the copy (by *)
(* create-connection-properties and by the background part of find-tables),*)
(* but never as the address of a database that is reached directly.        *)
(***************************************************************************)
DirectHostsWereEntered ==
  \A c \in ConnIds : Stored(conns[c]) /\ conns[c].type = "plain" => conns[c].host \in Hosts

(***************************************************************************)
(* A pool in knexCache is open, unless the tunnel of an evicted pool       *)
(* brought it back (tunnel-creator.ts:18-21), and an open pool is there to *)
(* be evicted.  A driver in driverCache is open; one that is not there any *)
(* more may stay open for good.                                            *)
(***************************************************************************)
CachesHoldOpenPools ==
  /\ \A e \in knexCache : pools[e.pool].open \/ (e.key[2].type = "ssh" /\ faults > 0)
  /\ \A e \in driverCache : pools[e.pool].open
  /\ \A p \in Ports :
       pools[p] # None /\ pools[p].open /\ pools[p].key = None => \E e \in knexCache : e.pool = p
=============================================================================
