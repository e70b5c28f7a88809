---------------------------- MODULE ExecutorLink ----------------------------
(***************************************************************************)
(* The connection between the executor agents and the control plane: the   *)
(* agent's websocket client (executor/ws-client.js, executor/agent.mjs),   *)
(* the socket endpoint (src/executor-ws.js), the registry of live          *)
(* connections (src/executor-registry.js) and the node's row               *)
(* (src/services/executor-node-service.js, src/dao/executor-node-dao.js).  *)
(*                                                                         *)
(* One node uuid is modelled; Agents are the processes that register with  *)
(* it.  Sockets come from a small pool and are used again once both ends   *)
(* are closed and nothing of the control plane refers to them.  An agent   *)
(* has at most one browser session; its action log is the number of steps  *)
(* recorded, and an action_log_sync message carries the whole log.         *)
(***************************************************************************)
EXTENDS Naturals, Sequences, FiniteSets

CONSTANTS
    Agents,     \* agent processes that share the node uuid
    Sockets,    \* pool of websocket connections
    NoSocket,   \* this.ws before the first connect, entry.ws while in grace
    MaxLog,     \* steps an agent's session records
    QueueMax,   \* messages that fit into the 32 MB buffer
    MaxFaults,  \* network and database failures, and control plane restarts
    Scenarios   \* each a set of operations that may happen in a behaviour

ASSUME LinkAssumption ==
    /\ NoSocket \notin Sockets
    /\ \A s \in Scenarios : s \subseteq {"open", "stop", "drain", "twin", "calm"}
    /\ MaxLog \in Nat /\ QueueMax \in Nat \ {0} /\ MaxFaults \in Nat

VARIABLES
    agent,    \* the client object and the session of each process
    queue,    \* pendingQueue of each process
    sock,     \* both ends of each connection
    up,       \* messages on their way to the control plane
    down,     \* messages on their way to the agent
    entry,    \* the registry's entry of the node
    node,     \* the row of executor_node, and the age of its heartbeat
    session,  \* what the control plane knows of each agent's session
    job,      \* where the grace and sweep handlers and the unregister handler
              \* of each socket are
    takenOff, \* history: a node with a live socket was taken off
    faults,   \* failures so far
    ops       \* the operations of this behaviour; never changes

agentVars == <<agent, queue>>
netVars   == <<sock, up, down>>
planeVars == <<entry, node, session, job, takenOff>>
bounds    == <<faults, ops>>
vars      == <<agentVars, netVars, planeVars, bounds>>

Ends     == {"none", "opening", "open", "closing", "closed"}
RegPcs   == {"idle", "upsert", "attach", "reconcile"}
Jobs     == {"grace", "sweep"} \cup Sockets
JobPcs   == {"idle", "offline", "crash", "purge", "reply"}
Statuses == {"offline", "online", "draining"}
Snapshot == [type : {"log"}, steps : 1..MaxLog]
UpMsg    == Snapshot \cup [type : {"register", "unregister"}]
DownMsg  == {"registered", "unregistered", "drain"}
NoEntry  == [present |-> FALSE, ws |-> NoSocket, grace |-> FALSE]
NewSock  == [owner |-> "nobody", aEnd |-> "none", sEnd |-> "none",
             broken |-> FALSE, known |-> FALSE, reg |-> "idle"]

TypeOK ==
    /\ agent \in [Agents -> [ws : Sockets \cup {NoSocket}, registered : BOOLEAN,
                             timer : BOOLEAN, watchdog : BOOLEAN, had : BOOLEAN,
                             resync : BOOLEAN, stopping : BOOLEAN,
                             draining : BOOLEAN, log : 0..MaxLog, live : BOOLEAN]]
    /\ queue \in [Agents -> Seq(Snapshot)] /\ \A a \in Agents : Len(queue[a]) <= QueueMax
    /\ sock \in [Sockets -> [owner : Agents \cup {"nobody"}, aEnd : Ends, sEnd : Ends,
                             broken : BOOLEAN, known : BOOLEAN, reg : RegPcs]]
    /\ up \in [Sockets -> Seq(UpMsg)]
    /\ down \in [Sockets -> Seq(DownMsg)]
    /\ entry \in [present : BOOLEAN, ws : Sockets \cup {NoSocket}, grace : BOOLEAN]
    /\ node \in [status : Statuses, fresh : BOOLEAN]
    /\ session \in [Agents -> [row : BOOLEAN, bound : BOOLEAN, seen : 0..MaxLog]]
    /\ job \in [Jobs -> JobPcs]
    /\ takenOff \in BOOLEAN
    /\ faults \in 0..MaxFaults
    /\ ops \in Scenarios

\* a second process with the same uuid only runs in some scenarios
Started(a) == "twin" \in ops \/ a = CHOOSE b \in Agents : TRUE

Init ==
    /\ ops \in Scenarios
    /\ agent = [a \in Agents |->
                  [ws |-> NoSocket, registered |-> FALSE, timer |-> Started(a),
                   watchdog |-> FALSE, had |-> FALSE, resync |-> FALSE,
                   stopping |-> FALSE, draining |-> FALSE, log |-> 0, live |-> FALSE]]
    /\ queue = [a \in Agents |-> <<>>]
    /\ sock = [c \in Sockets |-> NewSock]
    /\ up = [c \in Sockets |-> <<>>]
    /\ down = [c \in Sockets |-> <<>>]
    /\ entry = NoEntry
    /\ node = [status |-> "offline", fresh |-> FALSE]
    /\ session = [a \in Agents |-> [row |-> FALSE, bound |-> FALSE, seen |-> 0]]
    /\ job = [j \in Jobs |-> "idle"]
    /\ takenOff = FALSE
    /\ faults = IF "calm" \in ops THEN MaxFaults ELSE 0

Fault == faults < MaxFaults /\ faults' = faults + 1 /\ UNCHANGED ops

(***************************************************************************)
(* The agent                                                               *)
(***************************************************************************)
AgentOpen(a) == agent[a].ws # NoSocket /\ sock[agent[a].ws].aEnd = "open"

\* pushes a message to pendingQueue; the oldest ones make room for it
Buffered(q, m) ==
    LET full == Append(q, m)
    IN  IF Len(full) > QueueMax THEN Tail(full) ELSE full

\* what is sent on socket c is lost: the network is gone, or the server has
\* closed its end and the agent does not know yet
Swallows(c) == sock[c].broken \/ sock[c].sEnd = "closed"

\* send(): the socket when it is open, nothing when the client stops, the
\* buffer otherwise
Send(a, m) ==
    IF AgentOpen(a)
    THEN /\ up' = IF Swallows(agent[a].ws) THEN up
                  ELSE [up EXCEPT ![agent[a].ws] = Append(@, m)]
         /\ UNCHANGED queue
    ELSE /\ queue' = IF agent[a].stopping THEN queue
                     ELSE [queue EXCEPT ![a] = Buffered(@, m)]
         /\ UNCHANGED up

\* a socket nothing refers to any more
Free(c) ==
    /\ sock[c].aEnd \in {"none", "closed"} /\ sock[c].sEnd \in {"none", "closed"}
    /\ sock[c].reg = "idle" /\ job[c] = "idle" /\ entry.ws # c
    /\ \A a \in Agents : agent[a].ws # c

\* the reconnect timer, or the start of the process: connect()
Connect(a) ==
    /\ agent[a].timer /\ ~agent[a].stopping
    /\ \E c \in Sockets :
         /\ Free(c) /\ c = CHOOSE d \in Sockets : Free(d)
         /\ sock' = [sock EXCEPT ![c] = [NewSock EXCEPT !.owner = a, !.aEnd = "opening"]]
         /\ agent' = [agent EXCEPT ![a].ws = c, ![a].timer = FALSE]
    /\ UNCHANGED <<queue, up, down, planeVars, bounds>>

\* the 'open' event: the watchdog is cleared and the register message sent
SocketOpens(a) ==
    LET c == agent[a].ws IN
    /\ c # NoSocket /\ sock[c].aEnd = "opening"
    /\ sock' = [sock EXCEPT ![c].aEnd = "open", ![c].sEnd = "open"]
    /\ up' = [up EXCEPT ![c] = <<[type |-> "register"]>>]
    /\ agent' = [agent EXCEPT ![a].watchdog = FALSE]
    /\ UNCHANGED <<queue, down, planeVars, bounds>>

\* the connection is refused
ConnectFails(a) ==
    LET c == agent[a].ws IN
    /\ c # NoSocket /\ sock[c].aEnd = "opening"
    /\ Fault
    /\ sock' = [sock EXCEPT ![c].aEnd = "closing"]
    /\ UNCHANGED <<agentVars, up, down, planeVars>>

\* the 'close' event at the agent: watchdog and reconnect timer are set
SocketClosed(a) ==
    LET c == agent[a].ws IN
    /\ c # NoSocket /\ sock[c].aEnd = "closing"
    /\ sock' = [sock EXCEPT ![c].aEnd = "closed"]
    /\ down' = [down EXCEPT ![c] = <<>>]
    /\ agent' = [agent EXCEPT ![a].ws = NoSocket, ![a].registered = FALSE,
                              ![a].had = TRUE,
                              ![a].watchdog = ~agent[a].stopping,
                              ![a].timer = ~agent[a].stopping]
    /\ UNCHANGED <<queue, up, planeVars, bounds>>

\* the buffer is flushed before the answer to the registration
Bug_GetRegistered(a) ==
    LET c == agent[a].ws IN
    /\ AgentOpen(a) /\ down[c] # <<>> /\ Head(down[c]) = "registered"
    /\ down' = [down EXCEPT ![c] = Tail(@)]
    /\ agent' = [agent EXCEPT ![a].registered = TRUE, ![a].had = FALSE,
                              ![a].resync = agent[a].resync \/ agent[a].had]
    /\ UNCHANGED <<queue, sock, up, planeVars, bounds>>

\* executor.registered: the logs are fetched again if the link was down, and
\* the buffer is flushed to the socket
GetRegistered(a) ==
    LET c == agent[a].ws IN
    /\ AgentOpen(a) /\ down[c] # <<>> /\ Head(down[c]) = "registered"
    /\ down' = [down EXCEPT ![c] = Tail(@)]
    /\ agent' = [agent EXCEPT ![a].registered = TRUE, ![a].had = FALSE,
                              ![a].resync = agent[a].resync \/ agent[a].had]
    /\ up' = IF Swallows(c) THEN up ELSE [up EXCEPT ![c] = @ \o queue[a]]
    /\ queue' = [queue EXCEPT ![a] = <<>>]
    /\ UNCHANGED <<sock, planeVars, bounds>>

\* executor.drain is remembered for the life of the process
GetDrain(a) ==
    LET c == agent[a].ws IN
    /\ AgentOpen(a) /\ down[c] # <<>> /\ Head(down[c]) = "drain"
    /\ down' = [down EXCEPT ![c] = Tail(@)]
    /\ agent' = [agent EXCEPT ![a].draining = TRUE]
    /\ UNCHANGED <<queue, sock, up, planeVars, bounds>>

\* the session records a step and reports its log
Record(a) ==
    /\ agent[a].live /\ agent[a].log < MaxLog
    /\ agent' = [agent EXCEPT ![a].log = @ + 1]
    /\ Send(a, [type |-> "log", steps |-> agent[a].log + 1])
    /\ UNCHANGED <<sock, down, planeVars, bounds>>

\* the resync is only asked for, never answered
Bug_Resync(a) ==
    /\ agent[a].resync
    /\ agent' = [agent EXCEPT ![a].resync = FALSE]
    /\ UNCHANGED <<queue, netVars, planeVars, bounds>>

\* the answer to get_action_log asked for by onRegistered
Resync(a) ==
    /\ agent[a].resync
    /\ agent' = [agent EXCEPT ![a].resync = FALSE]
    /\ IF agent[a].live /\ agent[a].log > 0
       THEN Send(a, [type |-> "log", steps |-> agent[a].log])
       ELSE UNCHANGED <<queue, up>>
    /\ UNCHANGED <<sock, down, planeVars, bounds>>

\* the disconnect watchdog: every session of the process is closed
Watchdog(a) ==
    /\ agent[a].watchdog
    /\ agent' = [agent EXCEPT ![a].watchdog = FALSE, ![a].live = FALSE]
    /\ UNCHANGED <<queue, netVars, planeVars, bounds>>

\* no heartbeat answer for 40 s: the socket is terminated; only a registered
\* client sends heartbeats
AckTimeout(a) ==
    LET c == agent[a].ws IN
    /\ AgentOpen(a) /\ agent[a].registered /\ sock[c].broken
    /\ sock' = [sock EXCEPT ![c].aEnd = "closing"]
    /\ UNCHANGED <<agentVars, up, down, planeVars, bounds>>

\* SIGTERM: sessions are closed, then stop() unregisters a registered client
\* and waits for the answer, and closes the socket of any other
Stop(a) ==
    LET c == agent[a].ws IN
    /\ "stop" \in ops /\ ~agent[a].stopping
    /\ agent' = [agent EXCEPT ![a].stopping = TRUE, ![a].timer = FALSE,
                              ![a].watchdog = FALSE, ![a].live = FALSE]
    /\ IF AgentOpen(a) /\ agent[a].registered
       THEN Send(a, [type |-> "unregister"]) /\ UNCHANGED sock
       ELSE /\ sock' = IF c = NoSocket THEN sock ELSE [sock EXCEPT ![c].aEnd = "closing"]
            /\ UNCHANGED <<queue, up>>
    /\ UNCHANGED <<down, planeVars, bounds>>

\* the answer to unregister, or three seconds without one
StopCloses(a) ==
    LET c == agent[a].ws IN
    /\ agent[a].stopping /\ AgentOpen(a)
    /\ sock' = [sock EXCEPT ![c].aEnd = "closing"]
    /\ UNCHANGED <<agentVars, up, down, planeVars, bounds>>

(***************************************************************************)
(* The network                                                             *)
(***************************************************************************)
\* half-open: both ends believe in the connection, nothing passes any more
Breaks(c) ==
    /\ sock[c].aEnd = "open" /\ sock[c].sEnd = "open" /\ ~sock[c].broken
    /\ Fault
    /\ sock' = [sock EXCEPT ![c].broken = TRUE]
    /\ up' = [up EXCEPT ![c] = <<>>]
    /\ down' = [down EXCEPT ![c] = <<>>]
    /\ UNCHANGED <<agentVars, planeVars>>

\* one end learns that the other has closed, after what was sent before
EndLearns(c) ==
    /\ ~sock[c].broken
    /\ \/ /\ sock[c].aEnd = "open" /\ sock[c].sEnd \in {"closing", "closed"} /\ down[c] = <<>>
          /\ sock' = [sock EXCEPT ![c].aEnd = "closing"]
       \/ /\ sock[c].sEnd = "open" /\ sock[c].aEnd \in {"closing", "closed"} /\ up[c] = <<>>
          /\ sock' = [sock EXCEPT ![c].sEnd = "closing"]
    /\ UNCHANGED <<agentVars, up, down, planeVars, bounds>>

(***************************************************************************)
(* The control plane                                                       *)
(***************************************************************************)
\* a message leaves the control plane on socket c, unless the network is gone
\* or the agent has closed its end
Down(c, m) ==
    IF sock[c].broken \/ sock[c].aEnd = "closed" THEN down ELSE [down EXCEPT ![c] = Append(@, m)]

\* action_log_sync: the steps of a bound session are persisted
ReceiveLog(c) ==
    LET a == sock[c].owner IN
    /\ up[c] # <<>> /\ Head(up[c]).type = "log"
    /\ up' = [up EXCEPT ![c] = Tail(@)]
    /\ session' = IF session[a].bound /\ Head(up[c]).steps > session[a].seen
                  THEN [session EXCEPT ![a].seen = Head(up[c]).steps] ELSE session
    /\ UNCHANGED <<agentVars, sock, down, entry, node, job, takenOff, bounds>>

\* handleRegister starts the upsert of the node's row
ReceiveRegister(c) ==
    /\ up[c] # <<>> /\ Head(up[c]).type = "register"
    /\ up' = [up EXCEPT ![c] = Tail(@)]
    /\ sock' = [sock EXCEPT ![c].reg = "upsert"]
    /\ UNCHANGED <<agentVars, down, planeVars, bounds>>

\* the upsert sets the row online and its heartbeat
Upsert(c) ==
    /\ sock[c].reg = "upsert"
    /\ sock' = [sock EXCEPT ![c].reg = "attach"]
    /\ node' = [status |-> "online", fresh |-> TRUE]
    /\ UNCHANGED <<agentVars, up, down, entry, session, job, takenOff, bounds>>

\* the upsert fails: executor.error, which the agent only prints
UpsertFails(c) ==
    /\ sock[c].reg = "upsert"
    /\ Fault
    /\ sock' = [sock EXCEPT ![c].reg = "idle"]
    /\ UNCHANGED <<agentVars, up, down, planeVars>>

\* another process is being served on an open socket
ServedByOther(c) ==
    /\ entry.ws \in Sockets \ {c}
    /\ sock[entry.ws].sEnd = "open" /\ sock[entry.ws].owner # sock[c].owner

\* registry.attach refuses the second process with close code 4001
Reject(c) ==
    /\ sock[c].reg = "attach" /\ ServedByOther(c)
    /\ sock' = [sock EXCEPT ![c].reg = "idle",
                            ![c].sEnd = IF @ = "open" THEN "closing" ELSE @]
    /\ UNCHANGED <<agentVars, up, down, planeVars, bounds>>

\* socket d when c is attached: c is identified and its registration goes on,
\* an open older one begins to close
WithAttached(c, d) ==
    [sock[d] EXCEPT !.known = @ \/ d = c,
                    !.reg = IF d = c THEN "reconcile" ELSE @,
                    !.sEnd = IF d # c /\ d = entry.ws /\ @ = "open" THEN "closing" ELSE @]

\* registry.attach: the timer is cleared, an open older socket closed with
\* 4000, and the agent told; also when c has been closed meanwhile
Attach(c) ==
    /\ sock[c].reg = "attach" /\ ~ServedByOther(c)
    /\ sock' = [d \in Sockets |-> WithAttached(c, d)]
    /\ entry' = [present |-> TRUE, ws |-> c, grace |-> FALSE]
    /\ down' = IF sock[c].sEnd = "open" THEN Down(c, "registered") ELSE down
    /\ UNCHANGED <<agentVars, up, node, session, job, takenOff, bounds>>

\* reconcileOrphanSessions: sessions of the node that neither a row nor the
\* memory of the control plane knows are closed on the executor
Reconcile(c) ==
    LET a == sock[entry.ws].owner IN
    /\ sock[c].reg = "reconcile"
    /\ sock' = [sock EXCEPT ![c].reg = "idle"]
    /\ agent' = IF /\ entry.ws # NoSocket /\ sock[entry.ws].sEnd = "open"
                   /\ ~sock[entry.ws].broken
                   /\ agent[a].ws = entry.ws /\ AgentOpen(a)
                   /\ ~session[a].row /\ ~session[a].bound
                THEN [agent EXCEPT ![a].live = FALSE] ELSE agent
    /\ UNCHANGED <<queue, up, down, planeVars, bounds>>

\* unregister of a registered socket
ReceiveUnregister(c) ==
    /\ up[c] # <<>> /\ Head(up[c]).type = "unregister"
    /\ up' = [up EXCEPT ![c] = Tail(@)]
    /\ IF sock[c].known
       THEN /\ sock' = [sock EXCEPT ![c].known = FALSE]
            /\ job' = [job EXCEPT ![c] = "offline"]
       ELSE UNCHANGED <<sock, job>>
    /\ UNCHANGED <<agentVars, down, entry, node, session, takenOff, bounds>>

\* the answer to unregister, and the close of its socket
Unregistered(c) ==
    /\ job[c] = "reply"
    /\ job' = [job EXCEPT ![c] = "idle"]
    /\ IF sock[c].sEnd = "open"
       THEN /\ down' = Down(c, "unregistered")
            /\ sock' = [sock EXCEPT ![c].sEnd = "closing"]
       ELSE UNCHANGED <<down, sock>>
    /\ UNCHANGED <<agentVars, up, entry, node, session, takenOff, bounds>>

\* a missing pong: the socket is terminated
PingTimeout(c) ==
    /\ sock[c].broken /\ sock[c].sEnd = "open"
    /\ sock' = [sock EXCEPT ![c].sEnd = "closing"]
    /\ UNCHANGED <<agentVars, up, down, planeVars, bounds>>

\* every close of an identified socket is taken for the close of the node
Bug_ServerClosed(c) ==
    /\ sock[c].sEnd = "closing"
    /\ sock' = [sock EXCEPT ![c].sEnd = "closed"]
    /\ up' = [up EXCEPT ![c] = <<>>]
    /\ entry' = IF sock[c].known /\ entry.present
                THEN [entry EXCEPT !.ws = NoSocket, !.grace = TRUE] ELSE entry
    /\ UNCHANGED <<agentVars, down, node, session, job, takenOff, bounds>>

\* the 'close' event: ignored for a socket that was replaced, otherwise the
\* entry keeps the node for the grace period
ServerClosed(c) ==
    /\ sock[c].sEnd = "closing"
    /\ sock' = [sock EXCEPT ![c].sEnd = "closed"]
    /\ up' = [up EXCEPT ![c] = <<>>]
    /\ entry' = IF sock[c].known /\ entry.present /\ entry.ws \in {c, NoSocket}
                THEN [entry EXCEPT !.ws = NoSocket, !.grace = TRUE] ELSE entry
    /\ UNCHANGED <<agentVars, down, node, session, job, takenOff, bounds>>

\* a heartbeat or a pong over a healthy socket touches the row
Heartbeat(c) ==
    /\ sock[c].known /\ sock[c].sEnd = "open" /\ ~sock[c].broken /\ ~node.fresh
    /\ node' = [node EXCEPT !.fresh = TRUE]
    /\ UNCHANGED <<agentVars, netVars, entry, session, job, takenOff, bounds>>

HeartbeatsFlow == \E c \in Sockets : sock[c].known /\ sock[c].sEnd = "open" /\ ~sock[c].broken

\* 45 s without a heartbeat: none comes, or (a fault) none is written
HeartbeatAges ==
    /\ node.fresh
    /\ IF HeartbeatsFlow THEN Fault ELSE UNCHANGED bounds
    /\ node' = [node EXCEPT !.fresh = FALSE]
    /\ UNCHANGED <<agentVars, netVars, entry, session, job, takenOff>>

\* the grace timer removes the entry; the database is told afterwards
GraceExpires ==
    /\ entry.grace /\ job["grace"] = "idle"
    /\ entry' = NoEntry
    /\ job' = [job EXCEPT !["grace"] = "offline"]
    /\ UNCHANGED <<agentVars, netVars, node, session, takenOff, bounds>>

\* the sweep trusts the registry and spares a node that has an entry
Bug_SweepSelects ==
    /\ job["sweep"] = "idle" /\ node.status # "offline" /\ ~node.fresh
    /\ ~entry.present
    /\ job' = [job EXCEPT !["sweep"] = "offline"]
    /\ UNCHANGED <<agentVars, netVars, entry, node, session, takenOff, bounds>>

\* the sweep reads the stale rows
SweepSelects ==
    /\ job["sweep"] = "idle" /\ node.status # "offline" /\ ~node.fresh
    /\ job' = [job EXCEPT !["sweep"] = "offline"]
    /\ UNCHANGED <<agentVars, netVars, entry, node, session, takenOff, bounds>>

Attached == entry.ws # NoSocket /\ sock[entry.ws].sEnd = "open"

\* a socket is attached, or will be without another look at the row
InService ==
    \/ Attached /\ sock[entry.ws].known
    \/ \E c \in Sockets : sock[c].reg = "attach"

\* the handlers set the row offline
SetOffline(j) ==
    /\ job[j] = "offline"
    /\ job' = [job EXCEPT ![j] = "crash"]
    /\ node' = [node EXCEPT !.status = "offline"]
    /\ takenOff' = (takenOff \/ InService)
    /\ UNCHANGED <<agentVars, netVars, entry, session, bounds>>

\* crashActiveSessions
CrashRows(j) ==
    /\ job[j] = "crash"
    /\ job' = [job EXCEPT ![j] = "purge"]
    /\ session' = [a \in Agents |-> [session[a] EXCEPT !.row = FALSE]]
    /\ UNCHANGED <<agentVars, netVars, entry, node, takenOff, bounds>>

\* purgeNodeBindings; sweep and unregister also drop the registry's entry
Purge(j) ==
    /\ job[j] = "purge"
    /\ job' = [job EXCEPT ![j] = IF j \in Sockets THEN "reply" ELSE "idle"]
    /\ session' = [a \in Agents |-> [session[a] EXCEPT !.bound = FALSE]]
    /\ entry' = IF j = "grace" THEN entry ELSE NoEntry
    /\ takenOff' = (takenOff \/ InService)
    /\ UNCHANGED <<agentVars, netVars, node, bounds>>

\* an operator drains the node
Drain ==
    /\ "drain" \in ops /\ node.status = "online"
    /\ node' = [node EXCEPT !.status = "draining"]
    /\ down' = IF Attached THEN Down(entry.ws, "drain") ELSE down
    /\ UNCHANGED <<agentVars, sock, up, entry, session, job, takenOff, bounds>>

\* a session is opened on the connected agent (ExecutorSlots has the details)
OpenSession ==
    LET a == sock[entry.ws].owner IN
    /\ "open" \in ops /\ Attached /\ node.status = "online"
    /\ agent[a].ws = entry.ws /\ agent[a].registered /\ ~agent[a].draining
    /\ ~agent[a].live /\ agent[a].log = 0 /\ ~agent[a].stopping
    /\ agent' = [agent EXCEPT ![a].live = TRUE]
    /\ session' = [session EXCEPT ![a].row = TRUE, ![a].bound = TRUE]
    /\ UNCHANGED <<queue, netVars, entry, node, job, takenOff, bounds>>

\* socket c when the control plane is gone
WithoutServer(c) ==
    [sock[c] EXCEPT !.sEnd = IF @ \in {"open", "closing"} THEN "closed" ELSE @,
                    !.known = FALSE, !.reg = "idle"]

\* the control plane restarts: its memory is empty, its sockets are gone
Restart ==
    /\ Fault
    /\ entry' = NoEntry
    /\ job' = [j \in DOMAIN job |-> "idle"]
    /\ session' = [a \in Agents |-> [session[a] EXCEPT !.bound = FALSE]]
    /\ sock' = [c \in Sockets |-> WithoutServer(c)]
    /\ up' = [c \in Sockets |-> <<>>]
    /\ UNCHANGED <<agentVars, down, node, takenOff>>

AgentStep(a) ==
    \/ Connect(a) \/ SocketOpens(a) \/ ConnectFails(a) \/ SocketClosed(a)
    \/ GetRegistered(a) \/ GetDrain(a) \/ Record(a) \/ Resync(a) \/ Watchdog(a)
    \/ AckTimeout(a) \/ Stop(a) \/ StopCloses(a)

SocketStep(c) ==
    \/ Breaks(c) \/ EndLearns(c) \/ ReceiveLog(c) \/ ReceiveRegister(c)
    \/ Upsert(c) \/ UpsertFails(c) \/ Reject(c) \/ Attach(c) \/ Reconcile(c)
    \/ ReceiveUnregister(c) \/ Unregistered(c) \/ PingTimeout(c)
    \/ ServerClosed(c) \/ Heartbeat(c)

NodeStep ==
    \/ HeartbeatAges \/ GraceExpires \/ SweepSelects
    \/ (\E j \in DOMAIN job : SetOffline(j) \/ CrashRows(j) \/ Purge(j))
    \/ Drain \/ OpenSession \/ Restart

Next ==
    \/ \E a \in Agents : AgentStep(a)
    \/ \E c \in Sockets : SocketStep(c)
    \/ NodeStep

\* Timers, awaited calls and messages of a live connection all come to an
\* end; nobody has to record, stop, drain, open a session or fail.
Fairness ==
    /\ \A a \in Agents :
         /\ WF_vars(Connect(a)) /\ WF_vars(SocketOpens(a)) /\ WF_vars(SocketClosed(a))
         /\ WF_vars(GetRegistered(a)) /\ WF_vars(GetDrain(a)) /\ WF_vars(Resync(a))
         /\ WF_vars(AckTimeout(a)) /\ WF_vars(StopCloses(a)) /\ WF_vars(Watchdog(a))
    /\ \A c \in Sockets :
         /\ WF_vars(EndLearns(c)) /\ WF_vars(ReceiveLog(c)) /\ WF_vars(ReceiveRegister(c))
         /\ WF_vars(Upsert(c)) /\ WF_vars(Reject(c)) /\ WF_vars(Attach(c)) /\ WF_vars(Reconcile(c))
         /\ WF_vars(ReceiveUnregister(c)) /\ WF_vars(Unregistered(c))
         /\ WF_vars(PingTimeout(c)) /\ WF_vars(ServerClosed(c)) /\ WF_vars(Heartbeat(c))
    /\ WF_vars(GraceExpires) /\ WF_vars(SweepSelects) /\ WF_vars(HeartbeatAges /\ ~HeartbeatsFlow)
    /\ \A j \in Jobs : WF_vars(SetOffline(j)) /\ WF_vars(CrashRows(j)) /\ WF_vars(Purge(j))

Spec == Init /\ [][Next]_vars /\ Fairness

(***************************************************************************)
(* Properties                                                              *)
(***************************************************************************)
\* While a client is registered on an open socket its buffer is empty: no
\* event waits for a reconnect that will not come (ws-client.js:137,
\* flushPending).
NothingStranded ==
    \A a \in Agents : agent[a].registered /\ AgentOpen(a) => queue[a] = <<>>

\* Commands go to the one socket that serves the node: a socket the registry
\* has identified and that is still open is the one of the entry, so neither
\* the late close of a replaced socket nor a second process takes the route
\* away (executor-ws.js:316, executor-registry.js:29).  Only a node that was
\* taken off while in service has a socket without an entry.
KnownIsRouted ==
    takenOff \/ \A c \in Sockets : sock[c].known /\ sock[c].sEnd = "open" => entry.ws = c

\* a client that waits for an answer nobody will send: its registration
\* failed, or the connection broke before the heartbeats began
Unanswered(a) ==
    LET c == agent[a].ws IN
    /\ AgentOpen(a) /\ ~agent[a].registered
    /\ sock[c].broken \/ (up[c] = <<>> /\ down[c] = <<>> /\ sock[c].reg = "idle")

Reachable(a) ==
    LET c == agent[a].ws IN
    /\ AgentOpen(a) /\ agent[a].registered
    /\ entry.ws = c /\ sock[c].sEnd = "open" /\ node.status # "offline"

\* When the failures end, a process is registered, routed to and not offline
\* for good, unless each one stopped or waits for an answer that was lost, or
\* the node was taken off in service.
LinkRecovers ==
    <>[](\/ takenOff
         \/ \E a \in Agents : Reachable(a)
         \/ \A a \in Agents : Started(a) => agent[a].stopping \/ Unanswered(a))

\* Every step recorded by a session the control plane follows is persisted in
\* the end, whatever the network lost and the buffer dropped, unless the
\* session ends: the log does not stay ahead of what has arrived
\* (agent.mjs:71, the resync after a reconnect).
StepsArrive ==
    \A a \in Agents :
        []<>(\/ session[a].seen = agent[a].log
             \/ ~agent[a].live \/ ~session[a].bound
             \/ Unanswered(a))

\* An executor session that the control plane has forgotten does not live on:
\* the watchdog of the agent closes it or the reconciliation after its
\* registration (executor-orphan-session-service.js:34).
GhostsEnd ==
    \A a \in Agents :
        []<>(\/ ~agent[a].live \/ session[a].row \/ session[a].bound
             \/ takenOff \/ Unanswered(a))

\* A socket that closed while its registration was under way is attached dead,
\* with no close event to come; it does not stay the route of a node that
\* looks online (the stale sweep, executor-node-service.js:172).
DeadRouteEnds ==
    []<>(entry.ws = NoSocket \/ sock[entry.ws].sEnd # "closed" \/ node.status = "offline")

\* The state of both ends of the link, and an empty buffer on a registered one.
LinkInv == TypeOK /\ NothingStranded

\* The route to a node heals: live processes get it back, dead sockets lose it.
RouteRecovers == LinkRecovers /\ DeadRouteEnds

\* What both sides know of the sessions converges after a break: steps arrive, and
\* sessions the control plane has forgotten end.
SessionsConverge == StepsArrive /\ GhostsEnd
=============================================================================
