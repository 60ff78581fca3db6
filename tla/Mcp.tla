------------------------------- MODULE Mcp --------------------------------
(* The MCP runtime of Forge (crates/pulsing-forge/src/mcp and
   handlers/mcp.rs): which servers the configuration yields, how a refresh
   replaces the runtime in the shared slot while tool calls use it, and which
   tools a runtime offers to the model under which names.

   The slot is a tokio RwLock, which serves its waiters in the order they
   came: `queue' holds the waiting threads, `readers' and `writer' the
   holders.  A name is a sequence of characters.  A server in `silent' takes
   requests and never answers them.  *)
EXTENDS Naturals, Sequences, FiniteSets, SequencesExt

CONSTANTS
  Threads,     \* threads that call tools or refresh the runtime
  Homes,       \* the contents CODEX_HOME can have
  Listing,     \* Listing[s]: the tools server s lists, in order
  Letters,     \* the characters a model-visible name may contain
  MaxToolName, \* MAX_TOOL_NAME_BYTES
  KeptRuntime, \* a refresh runs on a tokio runtime that outlives it
  MaxRefresh, MaxCalls, MaxSilent   \* bounds on what a behaviour contains

VARIABLES
  home,      \* what config.toml and the plugin cache hold now
  slot,      \* the shared runtime, or NoRuntime
  readers, writer, queue,   \* the slot's lock
  pc, req,   \* what each thread is doing, and the request it serves
  work,      \* servers the thread still has to close, connect to or ask
  listing,   \* servers whose handshake is done and whose tools are awaited
  built,     \* the clients of the runtime the thread is starting
  busy,      \* busy[t]: the server whose client mutex thread t holds, or NoServer
  open,      \* connections that are open, as <<runtime, server>>
  silent,    \* servers that take requests and no longer answer
  refreshes, calls

lock == <<readers, writer, queue>>
vars == <<home, slot, readers, writer, queue, pc, req, work, listing, built,
          busy, open, silent, refreshes, calls>>

NoRuntime ==
  [id |-> 0, clients |-> {}, tools |-> <<>>,
   home |-> [plugins |-> <<>>, config |-> {}]]
NoServer == <<>>
None == "none"

-----------------------------------------------------------------------------
(* Configuration: from the raw entries to the catalog.  *)

\* TryFrom<RawMcpServerConfig>: an entry needs a command or a URL, and the
\* environment variables of a command come from a known source.  An entry that
\* is no table or object has neither.
ValidEntry(raw) ==
  \/ raw.command /\ raw.source \in {"none", "local", "remote"}
  \/ ~raw.command /\ raw.url

\* parse_plugin_mcp_config: the entries that parse, each with its place in the
\* walk over the plugin cache.
PluginEntries(h) ==
  LET plugins == SelectSeq(h.plugins, LAMBDA e : ValidEntry(e.raw))
  IN  {[server |-> plugins[i].server, tier |-> 0, order |-> i,
        config |-> plugins[i].raw] : i \in DOMAIN plugins}

\* load_config_mcp_servers: an entry that does not parse is skipped.
ConfigEntries(h) ==
  {[server |-> e.server, tier |-> 1, order |-> 0, config |-> e.raw] :
     e \in {f \in h.config : ValidEntry(f.raw)}}

\* load_codex_mcp_catalog.
Registrations(h) == PluginEntries(h) \cup ConfigEntries(h)

\* RegistrationPrecedence: the configuration outranks the plugins, and of two
\* plugins the one found first.
Outranks(r, q) ==
  r.tier > q.tier \/ (r.tier = q.tier /\ r.order < q.order)

\* McpCatalogBuilder::build: per name the registration of highest precedence.
catalog(h) ==
  LET all == Registrations(h)
  IN  {r \in all : \A q \in all : q.server = r.server => q = r \/ Outranks(r, q)}

\* McpConnectionManager::start, the servers it connects to.
Enabled ==
  [h \in Homes |-> {r.server : r \in {q \in catalog(h) : q.config.enabled}}]

Config(h, s) == (CHOOSE r \in catalog(h) : r.server = s).config

-----------------------------------------------------------------------------
(* Tools and their names.  *)

\* ToolFilter::allows.
allows(config, name) ==
  /\ config.only = {} \/ name \in config.only
  /\ name \notin config.never

\* The tools a client keeps (filter_tools) that the model may see.
ToolsOf ==
  [h \in Homes |-> [s \in Enabled[h] |->
     LET kept == SelectSeq(Listing[s],
                   LAMBDA t : allows(Config(h, s), t.name) /\ t.visible)
     IN  [i \in DOMAIN kept |-> [server |-> s, name |-> kept[i].name]]]]

\* sanitize_responses_api_tool_name.
sanitize(name) ==
  IF name = <<>> THEN <<"t", "o", "o", "l">>
  ELSE [i \in DOMAIN name |-> IF name[i] \in Letters THEN name[i] ELSE "_"]

\* truncate_to_bytes: a long name keeps a prefix and ends in a digest of it
\* all (the digest is the name itself here: it tells apart what it digests).
truncate_to_bytes(name) ==
  IF Len(name) <= MaxToolName THEN name
  ELSE SubSeq(name, 1, MaxToolName - 1) \o <<ToString(name)>>

\* ToolInfo::model_tool_name after normalize_tools_for_model.
ModelName(tool) ==
  truncate_to_bytes(<<"m", "c", "p", "_", "_">> \o sanitize(tool.server))
  \o <<"_", "_">> \o truncate_to_bytes(sanitize(tool.name))

\* The model-visible name of every tool some server lists.
Named ==
  [tool \in UNION {{[server |-> s, name |-> Listing[s][i].name] :
                     i \in DOMAIN Listing[s]} : s \in DOMAIN Listing}
     |-> ModelName(tool)]

\* Mutant of AddTool: only a repetition of the same tool is skipped.
AddDistinct(out, tool) ==
  IF \E i \in DOMAIN out : out[i] = tool THEN out ELSE Append(out, tool)

\* normalize_tools_for_model, one tool: skipped when this tool or its
\* model-visible name is there already.
AddTool(out, tool) ==
  IF \E i \in DOMAIN out : out[i] = tool \/ Named[out[i]] = Named[tool]
  THEN out
  ELSE Append(out, tool)

normalize_tools_for_model(tools) == FoldLeft(AddTool, <<>>, tools)

\* The tools of a runtime whose clients are visited in the given order (the
\* clients are in a HashMap, so any order is possible).
AllTools(h, order) ==
  normalize_tools_for_model(
    FlattenSeq([i \in DOMAIN order |-> ToolsOf[h][order[i]]]))

\* McpConnectionManager::find_tool: the first tool of that name.
find_tool(rt, name) ==
  {rt.tools[i] : i \in {j \in DOMAIN rt.tools :
      Named[rt.tools[j]] = name
      /\ \A k \in 1..(j - 1) : Named[rt.tools[k]] # name}}

-----------------------------------------------------------------------------
(* The slot's lock.  *)

Waits(t, mode) == queue' = Append(queue, [thread |-> t, mode |-> mode])

\* Thread t is the next waiter and the lock can be given to it.
Granted(t, mode) ==
  /\ queue # <<>>
  /\ Head(queue) = [thread |-> t, mode |-> mode]
  /\ writer = None
  /\ mode = "write" => readers = {}

-----------------------------------------------------------------------------
Init ==
  /\ home \in Homes
  /\ slot = NoRuntime
  /\ readers = {} /\ writer = None /\ queue = <<>>
  /\ pc = [t \in Threads |-> "idle"]
  /\ req = [t \in Threads |-> [kind |-> None]]
  /\ work = [t \in Threads |-> {}]
  /\ listing = [t \in Threads |-> {}]
  /\ built = [t \in Threads |-> NoRuntime]
  /\ busy = [t \in Threads |-> NoServer]
  /\ open = {}
  /\ silent = {}
  /\ refreshes = 0 /\ calls = 0

Goto(t, l) == pc' = [pc EXCEPT ![t] = l]

\* The user edits the configuration or installs a plugin.
EditHome ==
  /\ \E h \in Homes \ {home} : home' = h
  /\ refreshes < MaxRefresh
  /\ UNCHANGED <<slot, lock, pc, req, work, listing, built, busy, open,
                 silent, refreshes, calls>>

\* A server stops answering.
FallSilent ==
  /\ Cardinality(silent) < MaxSilent
  /\ \E s \in DOMAIN Listing \ silent : silent' = silent \cup {s}
  /\ UNCHANGED <<home, slot, lock, pc, req, work, listing, built, busy, open,
                 refreshes, calls>>

\* refresh_mcp_runtime is called (when the runtime is made, or by refresh_mcp).
Refresh(t) ==
  /\ pc[t] = "idle" /\ refreshes < MaxRefresh
  /\ refreshes' = refreshes + 1
  /\ req' = [req EXCEPT ![t] = [kind |-> "refresh", id |-> refreshes + 1]]
  /\ Waits(t, "write") /\ Goto(t, "take")
  /\ UNCHANGED <<home, slot, readers, writer, work, listing, built, busy, open,
                 silent, calls>>

\* Under the write lock the old runtime leaves the slot.
TakeOld(t) ==
  /\ pc[t] = "take" /\ Granted(t, "write")
  /\ queue' = Tail(queue) /\ writer' = t
  /\ slot' = NoRuntime
  /\ built' = [built EXCEPT ![t] = slot]
  /\ work' = [work EXCEPT ![t] = slot.clients]
  /\ Goto(t, "closing")
  /\ UNCHANGED <<home, readers, req, listing, busy, open, silent, refreshes, calls>>

\* McpConnectionManager::shutdown, one client.
CloseClient(t) ==
  /\ pc[t] = "closing"
  /\ \E s \in work[t] :
       /\ open' = open \ {<<built[t].id, s>>}
       /\ work' = [work EXCEPT ![t] = @ \ {s}]
  /\ UNCHANGED <<home, slot, lock, pc, req, listing, built, busy, silent,
                 refreshes, calls>>

\* The lock is released, the catalog is read and a connection to every enabled
\* server is begun (from_codex_home, McpConnectionManager::start).
StartServers(t) ==
  /\ pc[t] = "closing" /\ work[t] = {}
  /\ writer' = IF writer = t THEN None ELSE writer
  /\ built' = [built EXCEPT ![t] = [NoRuntime EXCEPT !.id = req[t].id,
                                                    !.home = home]]
  /\ work' = [work EXCEPT ![t] = Enabled[home]]
  /\ Goto(t, "starting")
  /\ UNCHANGED <<home, slot, readers, queue, req, listing, busy, open,
                 silent, refreshes, calls>>

\* A handshake ends: a connection, an error, or the startup timeout.
Handshake(t) ==
  /\ pc[t] = "starting"
  /\ \E s \in work[t] :
       /\ work' = [work EXCEPT ![t] = @ \ {s}]
       /\ \/ /\ listing' = [listing EXCEPT ![t] = @ \cup {s}]
             /\ open' = open \cup {<<built[t].id, s>>}
          \/ UNCHANGED <<listing, open>>
  /\ UNCHANGED <<home, slot, lock, pc, req, built, busy, silent, refreshes, calls>>

\* The server has listed its tools, or failed to; this wait has no timeout.
ListTools(t) ==
  /\ pc[t] = "starting"
  /\ \E s \in listing[t] \ silent :
       /\ listing' = [listing EXCEPT ![t] = @ \ {s}]
       /\ \/ /\ built' = [built EXCEPT ![t].clients = @ \cup {s}]
             /\ open' = open
          \/ /\ built' = built
             /\ open' = open \ {<<built[t].id, s>>}
  /\ UNCHANGED <<home, slot, lock, pc, req, work, busy, silent, refreshes, calls>>

\* Every server is ready or has failed: the tools are named, and the thread
\* waits to install the runtime.
Built(t) ==
  /\ pc[t] = "starting" /\ work[t] = {} /\ listing[t] = {}
  /\ \E order \in SetToSeqs(built[t].clients) :
       built' = [built EXCEPT ![t].tools = AllTools(built[t].home, order),
                              ![t].home = NoRuntime.home]
  /\ Waits(t, "write") /\ Goto(t, "install")
  /\ UNCHANGED <<home, slot, readers, writer, req, work, listing, busy, open,
                 silent, refreshes, calls>>

\* block_on_tool: connections live as long as the tokio runtime they were made on,
\* the caller's own or one made for this refresh alone.
Outlives(c, t) == KeptRuntime \/ c[1] # built[t].id

\* The runtime enters the slot; the one a concurrent refresh may have put there
\* is dropped, which closes its connections.  A tokio runtime made for this
\* refresh alone ends here, and takes the connections' tasks with it.
Install(t) ==
  /\ pc[t] = "install" /\ Granted(t, "write")
  /\ queue' = Tail(queue)
  /\ slot' = built[t]
  /\ open' = {c \in open : c[1] # slot.id /\ Outlives(c, t)}
  /\ built' = [built EXCEPT ![t] = NoRuntime]
  /\ req' = [req EXCEPT ![t] = [kind |-> None]]
  /\ Goto(t, "idle")
  /\ UNCHANGED <<home, readers, writer, work, listing, busy, silent, refreshes, calls>>

-----------------------------------------------------------------------------
(* Calls.  They hold the slot's read lock from the lookup to the answer.  *)

\* A tool call reaches the MCP handlers: a dynamic tool by its model name, or
\* one of the resource tools, which names a server or none.
Asks ==
  {[kind |-> "tool", name |-> Named[tool]] : tool \in DOMAIN Named}
  \cup {[kind |-> "resource", name |-> s] : s \in DOMAIN Listing}
  \cup {[kind |-> "list_all", name |-> NoServer]}

Ask(t, r) ==
  /\ pc[t] = "idle" /\ calls < MaxCalls
  /\ calls' = calls + 1
  /\ req' = [req EXCEPT ![t] = r]
  /\ Waits(t, "read") /\ Goto(t, "ask")
  /\ UNCHANGED <<home, slot, readers, writer, work, listing, built, busy, open,
                 silent, refreshes>>

\* The servers a request asks: none when the runtime is not started, the tool
\* is unknown, or its server is not connected (dispatch_mcp_dynamic_tool,
\* try_call_mcp_dynamic_tool, dispatch_mcp_host_tool).
Asked(rt, r) ==
  CASE r.kind = "tool" -> {tool.server : tool \in find_tool(rt, r.name)} \cap rt.clients
    [] r.kind = "resource" -> {r.name} \cap rt.clients
    [] r.kind = "list_all" -> rt.clients

\* The read lock is granted; an unanswerable request releases it at once.
Lookup(t) ==
  /\ pc[t] = "ask" /\ Granted(t, "read")
  /\ queue' = Tail(queue)
  /\ LET asked == Asked(slot, req[t])
     IN  IF asked = {}
         THEN Goto(t, "idle") /\ UNCHANGED <<readers, work>>
         ELSE /\ Goto(t, "call")
              /\ readers' = readers \cup {t}
              /\ work' = [work EXCEPT ![t] = asked]
  /\ UNCHANGED <<home, slot, writer, req, listing, built, busy, open, silent,
                 refreshes, calls>>

\* The client's mutex is taken and the request sent.
Send(t) ==
  /\ pc[t] = "call" /\ busy[t] = NoServer
  /\ \E s \in work[t] :
       /\ \A u \in Threads : busy[u] # s
       /\ busy' = [busy EXCEPT ![t] = s]
  /\ UNCHANGED <<home, slot, lock, pc, req, work, listing, built, open,
                 silent, refreshes, calls>>

\* The request has its result: the mutex goes, and with the last server asked
\* the read lock.
Result(t) ==
  /\ work' = [work EXCEPT ![t] = @ \ {busy[t]}]
  /\ busy' = [busy EXCEPT ![t] = NoServer]
  /\ IF work[t] = {busy[t]}
     THEN Goto(t, "idle") /\ readers' = readers \ {t}
     ELSE UNCHANGED <<pc, readers>>
  /\ UNCHANGED <<home, slot, writer, queue, req, listing, built, open,
                 silent, refreshes, calls>>

Answer(t) ==
  /\ pc[t] = "call" /\ busy[t] # NoServer
  /\ busy[t] \notin silent \/ <<slot.id, busy[t]>> \notin open
  /\ Result(t)

\* McpManagedClient::call_tool gives up; the resource requests have no timeout.
ToolTimeout(t) ==
  /\ pc[t] = "call" /\ busy[t] # NoServer
  /\ req[t].kind = "tool"
  /\ Result(t)

-----------------------------------------------------------------------------
\* Thread t, once it has begun, goes on.
Step(t) ==
  \/ TakeOld(t) \/ CloseClient(t) \/ StartServers(t) \/ Handshake(t)
  \/ ListTools(t) \/ Built(t) \/ Install(t)
  \/ Lookup(t) \/ Send(t) \/ Answer(t) \/ ToolTimeout(t)

Next ==
  \/ EditHome \/ FallSilent
  \/ \E t \in Threads :
       \/ Refresh(t)
       \/ \E r \in Asks : Ask(t, r)
       \/ Step(t)

\* Every thread that can go on does: the executor polls what is woken, a server
\* that is not silent answers, and the timers of the startup and of tool calls
\* fire.
Fairness == \A t \in Threads : WF_vars(Step(t))

Spec == Init /\ [][Next]_vars /\ Fairness

-----------------------------------------------------------------------------

\* Every tool a runtime offers is reached by the name it is offered under: a
\* name that two tools would get after the characters are replaced, or after
\* the server's and the tool's part are joined, is given to one of them only.
OfferedIsReached ==
  \A i \in DOMAIN slot.tools :
    find_tool(slot, Named[slot.tools[i]]) = {slot.tools[i]}

=============================================================================
