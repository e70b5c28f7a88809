------------------------- MODULE ExecutorLinkProofs -------------------------
(***************************************************************************)
(* The route to a node and the buffer of its agents, for any number of     *)
(* processes with the uuid, sockets, failures and restarts: LinkInv and    *)
(* KnownIsRouted.                                                          *)
(*                                                                         *)
(* The invariant says what each end of a connection may still hold: what   *)
(* the agent's client knows of its socket, that nothing is on its way to a *)
(* server that has closed, and that a socket which is being opened carries *)
(* nothing of an earlier use.  The actions are first brought to the few    *)
(* effects that these parts tell apart (StepDoes).                         *)
(***************************************************************************)
EXTENDS ExecutorLink, SequenceTheorems, TLAPS

-----------------------------------------------------------------------------
(* The inductive invariant.                                                *)

AgentRecord == [ws : Sockets \cup {NoSocket}, registered : BOOLEAN,
                timer : BOOLEAN, watchdog : BOOLEAN, had : BOOLEAN,
                resync : BOOLEAN, stopping : BOOLEAN,
                draining : BOOLEAN, log : 0..MaxLog, live : BOOLEAN]
SockRecord  == [owner : Agents \cup {"nobody"}, aEnd : Ends, sEnd : Ends,
                broken : BOOLEAN, known : BOOLEAN, reg : RegPcs]
EntryRecord == [present : BOOLEAN, ws : Sockets \cup {NoSocket}, grace : BOOLEAN]
NodeRecord  == [status : Statuses, fresh : BOOLEAN]
SessRecord  == [row : BOOLEAN, bound : BOOLEAN, seen : 0..MaxLog]

\* TypeOK with names for its records.
Types ==
    /\ agent \in [Agents -> AgentRecord]
    /\ queue \in [Agents -> Seq(Snapshot)] /\ \A a \in Agents : Len(queue[a]) <= QueueMax
    /\ sock \in [Sockets -> SockRecord]
    /\ up \in [Sockets -> Seq(UpMsg)]
    /\ down \in [Sockets -> Seq(DownMsg)]
    /\ entry \in EntryRecord
    /\ node \in NodeRecord
    /\ session \in [Agents -> SessRecord]
    /\ job \in [Jobs -> JobPcs]
    /\ takenOff \in BOOLEAN
    /\ faults \in 0..MaxFaults
    /\ ops \in Scenarios

\* Nothing is on its way to a server that has closed its end, or has none.
Wires(c) == sock[c].sEnd \in {"none", "closed"} => up[c] = <<>>

\* A socket that is being opened carries nothing of an earlier use, and an open one
\* has had a server.
Opening(c) ==
    /\ sock[c].aEnd = "opening" =>
           sock[c].sEnd = "none" /\ ~sock[c].known /\ sock[c].reg = "idle"
    /\ sock[c].aEnd = "open" => sock[c].sEnd # "none"

\* The socket of a client is its own and not yet closed.  It reconnects only without
\* one, is registered only on one that was opened, and has then sent what it kept.
AgentEnd(a) ==
    /\ agent[a].ws # NoSocket =>
           sock[agent[a].ws].owner = a
             /\ sock[agent[a].ws].aEnd \in {"opening", "open", "closing"}
    /\ agent[a].timer => agent[a].ws = NoSocket
    /\ agent[a].registered =>
           /\ agent[a].ws # NoSocket /\ sock[agent[a].ws].aEnd \in {"open", "closing"}
           /\ sock[agent[a].ws].aEnd = "open" => queue[a] = <<>>

\* The grace timer runs only while no socket serves the node.
GraceIsLoose == entry.grace => entry.ws = NoSocket

\* KnownIsRouted, one socket at a time.
Routed(c) == takenOff \/ (sock[c].known /\ sock[c].sEnd = "open" => entry.ws = c)

RouteInv ==
    /\ Types /\ GraceIsLoose
    /\ \A c \in Sockets : Wires(c) /\ Opening(c) /\ Routed(c)
    /\ \A a \in Agents : AgentEnd(a)

-----------------------------------------------------------------------------
(***************************************************************************)
(* The effects of the steps.                                               *)
(***************************************************************************)

\* Socket c gets these fields (broken does not matter here), the others keep theirs.
SockPut(c, owner, aEnd, sEnd, known, reg) ==
    \A d \in Sockets :
        /\ sock'[d].owner = IF d = c THEN owner ELSE sock[d].owner
        /\ sock'[d].aEnd = IF d = c THEN aEnd ELSE sock[d].aEnd
        /\ sock'[d].sEnd = IF d = c THEN sEnd ELSE sock[d].sEnd
        /\ sock'[d].known <=> IF d = c THEN known ELSE sock[d].known
        /\ sock'[d].reg = IF d = c THEN reg ELSE sock[d].reg

\* The client of a gets these fields; what else it has does not matter here.
AgentPut(a, ws, registered, timer) ==
    \A b \in Agents :
        /\ agent'[b].ws = IF b = a THEN ws ELSE agent[b].ws
        /\ agent'[b].registered <=> IF b = a THEN registered ELSE agent[b].registered
        /\ agent'[b].timer <=> IF b = a THEN timer ELSE agent[b].timer

AgentsStay ==
    \A b \in Agents : /\ agent'[b].ws = agent[b].ws
                      /\ agent'[b].registered <=> agent[b].registered
                      /\ agent'[b].timer => agent[b].timer

SocksStay ==
    \A d \in Sockets : /\ sock'[d].owner = sock[d].owner
                       /\ sock'[d].aEnd = sock[d].aEnd
                       /\ sock'[d].sEnd = sock[d].sEnd
                       /\ sock'[d].known <=> sock[d].known
                       /\ sock'[d].reg = sock[d].reg

Connects(a, c) ==
    /\ agent[a].timer /\ Free(c)
    /\ SockPut(c, a, "opening", "none", FALSE, "idle")
    /\ AgentPut(a, c, agent[a].registered, FALSE)
    /\ UNCHANGED <<queue, up, entry, takenOff>>

Opens(a, c) ==
    /\ c = agent[a].ws /\ sock[c].aEnd = "opening"
    /\ SockPut(c, sock[c].owner, "open", "open", sock[c].known, sock[c].reg)
    /\ up' = [up EXCEPT ![c] = <<[type |-> "register"]>>]
    /\ AgentsStay
    /\ UNCHANGED <<queue, entry, takenOff>>

Closes(a, c) ==
    /\ c = agent[a].ws /\ sock[c].aEnd = "closing"
    /\ SockPut(c, sock[c].owner, "closed", sock[c].sEnd, sock[c].known, sock[c].reg)
    /\ \E timer \in BOOLEAN : AgentPut(a, NoSocket, FALSE, timer)
    /\ UNCHANGED <<queue, up, entry, takenOff>>

\* The agent's end of c begins to close: refused, timed out, stopped or told so.
HangsUp(c) ==
    /\ sock[c].aEnd # "closed" /\ sock[c].aEnd # "none"
    /\ SockPut(c, sock[c].owner, "closing", sock[c].sEnd, sock[c].known, sock[c].reg)
    /\ AgentsStay
    /\ UNCHANGED <<queue, up, entry, takenOff>>

\* A client sends to the server or keeps what it has to send.
Says(a) ==
    /\ \/ /\ AgentOpen(a) /\ queue' = queue
          /\ \A c \in Sockets :
                 up'[c] = up[c] \/ (c = agent[a].ws /\ sock[c].sEnd # "closed")
       \/ /\ ~AgentOpen(a) /\ up' = up
          /\ \A b \in Agents : b # a => queue'[b] = queue[b]
    /\ AgentsStay
    /\ UNCHANGED <<sock, entry, takenOff>>

Registers(a) ==
    /\ AgentOpen(a)
    /\ queue' = [queue EXCEPT ![a] = <<>>]
    /\ \A c \in Sockets :
           up'[c] = up[c] \/ (c = agent[a].ws /\ sock[c].sEnd # "closed")
    /\ AgentPut(a, agent[a].ws, TRUE, agent[a].timer)
    /\ UNCHANGED <<sock, entry, takenOff>>

\* The server takes the next message of c, which may begin its registration or end
\* its service.
Takes(c) ==
    /\ up[c] # <<>>
    /\ \A d \in Sockets : d # c => up'[d] = up[d]
    /\ \E known \in BOOLEAN, reg \in RegPcs :
           /\ known => sock[c].known
           /\ SockPut(c, sock[c].owner, sock[c].aEnd, sock[c].sEnd, known, reg)
    /\ UNCHANGED <<agent, queue, entry, takenOff>>

\* The registration of c goes on.
RegMoves(c) ==
    /\ sock[c].reg # "idle"
    /\ \E reg \in RegPcs :
           SockPut(c, sock[c].owner, sock[c].aEnd, sock[c].sEnd, sock[c].known, reg)
    /\ AgentsStay
    /\ UNCHANGED <<queue, up, entry, takenOff>>

Attaches(c) ==
    /\ sock[c].reg = "attach"
    /\ \A d \in Sockets :
           /\ sock'[d].owner = sock[d].owner
           /\ sock'[d].aEnd = sock[d].aEnd
           /\ sock'[d].sEnd = IF d # c /\ d = entry.ws /\ sock[d].sEnd = "open"
                              THEN "closing" ELSE sock[d].sEnd
           /\ sock'[d].known <=> (d = c \/ sock[d].known)
           /\ sock'[d].reg = IF d = c THEN "reconcile" ELSE sock[d].reg
    /\ entry'.ws = c /\ entry'.grace = FALSE
    /\ UNCHANGED <<agent, queue, up, takenOff>>

\* The server's end of c begins to close: refused, timed out, unregistered or told so.
ServerHangsUp(c) ==
    /\ sock[c].sEnd = "open"
    /\ \E reg \in {sock[c].reg, "idle"} :
           SockPut(c, sock[c].owner, sock[c].aEnd, "closing", sock[c].known, reg)
    /\ UNCHANGED <<agent, queue, up, entry, takenOff>>

ServerCloses(c) ==
    /\ sock[c].sEnd = "closing"
    /\ SockPut(c, sock[c].owner, sock[c].aEnd, "closed", sock[c].known, sock[c].reg)
    /\ up' = [up EXCEPT ![c] = <<>>]
    /\ \/ entry' = entry
       \/ entry.ws \in {c, NoSocket} /\ entry'.ws = NoSocket
    /\ UNCHANGED <<agent, queue, takenOff>>

\* The registry forgets the node: when the grace is over, or by a purge.
Forgets ==
    /\ entry'.ws = NoSocket /\ entry'.grace = FALSE
    /\ entry.grace \/ takenOff' \/ ~InService
    /\ takenOff => takenOff'
    /\ UNCHANGED <<agent, queue, sock, up>>

Restarts ==
    /\ \A d \in Sockets :
           /\ sock'[d].owner = sock[d].owner
           /\ sock'[d].aEnd = sock[d].aEnd
          
             /\ sock'[d].sEnd = IF sock[d].sEnd \in {"open", "closing"} THEN "closed" ELSE sock[d].sEnd
           /\ sock'[d].known = FALSE
           /\ sock'[d].reg = "idle"
           /\ up'[d] = <<>>
    /\ entry'.ws = NoSocket /\ entry'.grace = FALSE
    /\ UNCHANGED <<agent, queue, takenOff>>

\* Nothing that matters here, unless the connection breaks.
Elsewhere ==
    /\ SocksStay /\ AgentsStay
    /\ \A c \in Sockets : up'[c] \in {up[c], <<>>}
    /\ takenOff => takenOff'
    /\ UNCHANGED <<queue, entry>>

StepDoes ==
    \/ \E a \in Agents, c \in Sockets : Connects(a, c) \/ Opens(a, c) \/ Closes(a, c)
    \/ \E a \in Agents : Says(a) \/ Registers(a)
    \/ \E c \in Sockets : \/ HangsUp(c) \/ Takes(c) \/ RegMoves(c) \/ Attaches(c)
                          \/ ServerHangsUp(c) \/ ServerCloses(c)
    \/ Forgets \/ Restarts \/ Elsewhere

\* What Types says of the fields that matter.
LEMMA Fields ==
    ASSUME Types
    PROVE  /\ \A a \in Agents : /\ agent[a].ws \in Sockets \cup {NoSocket}
                                /\ agent[a].registered \in BOOLEAN /\ agent[a].timer \in BOOLEAN
           /\ \A c \in Sockets : /\ sock[c].owner \in Agents \cup {"nobody"}
                                 /\ sock[c].aEnd \in Ends /\ sock[c].sEnd \in Ends
                                 /\ sock[c].known \in BOOLEAN /\ sock[c].reg \in RegPcs
           /\ entry.ws \in Sockets \cup {NoSocket} /\ entry.grace \in BOOLEAN
           /\ up = [c \in Sockets |-> up[c]] /\ queue = [a \in Agents |-> queue[a]]
           /\ NoSocket \notin Sockets /\ takenOff \in BOOLEAN
BY LinkAssumption DEF Types, AgentRecord, SockRecord, EntryRecord

-----------------------------------------------------------------------------
(***************************************************************************)
(* Each effect keeps each part of the invariant.                           *)
(***************************************************************************)

LEMMA WiresKept ==
    ASSUME RouteInv, StepDoes, NEW d \in Sockets
    PROVE  Wires(d)'
<1>0. Types BY DEF RouteInv
<1>1. /\ \A c \in Sockets : Wires(c) /\ Opening(c) /\ Routed(c)
      /\ \A a \in Agents : AgentEnd(a)
      /\ GraceIsLoose
  BY DEF RouteInv
<1> USE DEF Ends, RegPcs
<1>2. ASSUME NEW a \in Agents, NEW c \in Sockets, Connects(a, c)
      PROVE  Wires(d)'
  BY <1>0, <1>1, <1>2, Fields DEF Connects, SockPut, AgentPut, Free, Wires, Opening, AgentEnd
<1>3. ASSUME NEW a \in Agents, NEW c \in Sockets, Opens(a, c)
      PROVE  Wires(d)'
  BY <1>0, <1>1, <1>3, Fields DEF Opens, SockPut, AgentsStay, Wires, Opening, AgentEnd
<1>4. ASSUME NEW a \in Agents, NEW c \in Sockets, Closes(a, c)
      PROVE  Wires(d)'
  BY <1>0, <1>1, <1>4, Fields DEF Closes, SockPut, AgentPut, Wires, Opening, AgentEnd
<1>5. ASSUME NEW a \in Agents, Says(a)
      PROVE  Wires(d)'
  BY <1>0, <1>1, <1>5, Fields DEF Says, AgentsStay, AgentOpen, Wires, Opening, AgentEnd
<1>6. ASSUME NEW a \in Agents, Registers(a)
      PROVE  Wires(d)'
  BY <1>0, <1>1, <1>6, Fields DEF Registers, AgentPut, AgentOpen, Wires, Opening, AgentEnd
<1>7. ASSUME NEW c \in Sockets, HangsUp(c)
      PROVE  Wires(d)'
  BY <1>0, <1>1, <1>7, Fields DEF HangsUp, SockPut, AgentsStay, Wires, Opening, AgentEnd
<1>8. ASSUME NEW c \in Sockets, Takes(c)
      PROVE  Wires(d)'
  BY <1>0, <1>1, <1>8, Fields DEF Takes, SockPut, Wires, Opening, AgentEnd
<1>9. ASSUME NEW c \in Sockets, RegMoves(c)
      PROVE  Wires(d)'
  BY <1>0, <1>1, <1>9, Fields DEF RegMoves, SockPut, AgentsStay, Wires, Opening, AgentEnd
<1>10. ASSUME NEW c \in Sockets, Attaches(c)
      PROVE  Wires(d)'
  BY <1>0, <1>1, <1>10, Fields DEF Attaches, Wires, Opening, AgentEnd
<1>11. ASSUME NEW c \in Sockets, ServerHangsUp(c)
      PROVE  Wires(d)'
  BY <1>0, <1>1, <1>11, Fields DEF ServerHangsUp, SockPut, Wires, Opening, AgentEnd
<1>12. ASSUME NEW c \in Sockets, ServerCloses(c)
      PROVE  Wires(d)'
  BY <1>0, <1>1, <1>12, Fields DEF ServerCloses, SockPut, Wires, Opening, AgentEnd
<1>13. CASE Forgets
  BY <1>0, <1>1, <1>13, Fields DEF Forgets, InService, Attached, Wires, Opening, AgentEnd
<1>14. CASE Restarts BY <1>0, <1>1, <1>14, Fields DEF Restarts, Wires, Opening, AgentEnd
<1>15. CASE Elsewhere
  BY <1>0, <1>1, <1>15, Fields DEF Elsewhere, SocksStay, AgentsStay, Wires, Opening, AgentEnd
<1> QED
  BY <1>2, <1>3, <1>4, <1>5, <1>6, <1>7, <1>8, <1>9, <1>10, <1>11, <1>12, <1>13, <1>14, <1>15
       DEF StepDoes

LEMMA OpeningKept ==
    ASSUME RouteInv, StepDoes, NEW d \in Sockets
    PROVE  Opening(d)'
<1>0. Types BY DEF RouteInv
<1>1. /\ \A c \in Sockets : Wires(c) /\ Opening(c) /\ Routed(c)
      /\ \A a \in Agents : AgentEnd(a)
      /\ GraceIsLoose
  BY DEF RouteInv
<1> USE DEF Ends, RegPcs
<1>2. ASSUME NEW a \in Agents, NEW c \in Sockets, Connects(a, c)
      PROVE  Opening(d)'
  BY <1>0, <1>1, <1>2, Fields DEF Connects, SockPut, AgentPut, Free, Wires, Opening, AgentEnd
<1>3. ASSUME NEW a \in Agents, NEW c \in Sockets, Opens(a, c)
      PROVE  Opening(d)'
  BY <1>0, <1>1, <1>3, Fields DEF Opens, SockPut, AgentsStay, Wires, Opening, AgentEnd
<1>4. ASSUME NEW a \in Agents, NEW c \in Sockets, Closes(a, c)
      PROVE  Opening(d)'
  BY <1>0, <1>1, <1>4, Fields DEF Closes, SockPut, AgentPut, Wires, Opening, AgentEnd
<1>5. ASSUME NEW a \in Agents, Says(a)
      PROVE  Opening(d)'
  BY <1>0, <1>1, <1>5, Fields DEF Says, AgentsStay, AgentOpen, Wires, Opening, AgentEnd
<1>6. ASSUME NEW a \in Agents, Registers(a)
      PROVE  Opening(d)'
  BY <1>0, <1>1, <1>6, Fields DEF Registers, AgentPut, AgentOpen, Wires, Opening, AgentEnd
<1>7. ASSUME NEW c \in Sockets, HangsUp(c)
      PROVE  Opening(d)'
  BY <1>0, <1>1, <1>7, Fields DEF HangsUp, SockPut, AgentsStay, Wires, Opening, AgentEnd
<1>8. ASSUME NEW c \in Sockets, Takes(c)
      PROVE  Opening(d)'
  BY <1>0, <1>1, <1>8, Fields DEF Takes, SockPut, Wires, Opening, AgentEnd
<1>9. ASSUME NEW c \in Sockets, RegMoves(c)
      PROVE  Opening(d)'
  BY <1>0, <1>1, <1>9, Fields DEF RegMoves, SockPut, AgentsStay, Wires, Opening, AgentEnd
<1>10. ASSUME NEW c \in Sockets, Attaches(c)
      PROVE  Opening(d)'
  BY <1>0, <1>1, <1>10, Fields DEF Attaches, Wires, Opening, AgentEnd
<1>11. ASSUME NEW c \in Sockets, ServerHangsUp(c)
      PROVE  Opening(d)'
  BY <1>0, <1>1, <1>11, Fields DEF ServerHangsUp, SockPut, Wires, Opening, AgentEnd
<1>12. ASSUME NEW c \in Sockets, ServerCloses(c)
      PROVE  Opening(d)'
  BY <1>0, <1>1, <1>12, Fields DEF ServerCloses, SockPut, Wires, Opening, AgentEnd
<1>13. CASE Forgets
  BY <1>0, <1>1, <1>13, Fields DEF Forgets, InService, Attached, Wires, Opening, AgentEnd
<1>14. CASE Restarts BY <1>0, <1>1, <1>14, Fields DEF Restarts, Wires, Opening, AgentEnd
<1>15. CASE Elsewhere
  BY <1>0, <1>1, <1>15, Fields DEF Elsewhere, SocksStay, AgentsStay, Wires, Opening, AgentEnd
<1> QED
  BY <1>2, <1>3, <1>4, <1>5, <1>6, <1>7, <1>8, <1>9, <1>10, <1>11, <1>12, <1>13, <1>14, <1>15
       DEF StepDoes

LEMMA RoutedKept ==
    ASSUME RouteInv, StepDoes, NEW d \in Sockets
    PROVE  Routed(d)'
<1>0. Types BY DEF RouteInv
<1>1. /\ \A c \in Sockets : Wires(c) /\ Opening(c) /\ Routed(c)
      /\ \A a \in Agents : AgentEnd(a)
      /\ GraceIsLoose
  BY DEF RouteInv
<1> USE DEF Ends, RegPcs
<1>2. ASSUME NEW a \in Agents, NEW c \in Sockets, Connects(a, c)
      PROVE  Routed(d)'
  BY <1>0, <1>1, <1>2, Fields DEF Connects, SockPut, AgentPut, Free, Routed, Opening, GraceIsLoose
<1>3. ASSUME NEW a \in Agents, NEW c \in Sockets, Opens(a, c)
      PROVE  Routed(d)'
  BY <1>0, <1>1, <1>3, Fields DEF Opens, SockPut, AgentsStay, Routed, Opening, GraceIsLoose
<1>4. ASSUME NEW a \in Agents, NEW c \in Sockets, Closes(a, c)
      PROVE  Routed(d)'
  BY <1>0, <1>1, <1>4, Fields DEF Closes, SockPut, AgentPut, Routed, Opening, GraceIsLoose
<1>5. ASSUME NEW a \in Agents, Says(a)
      PROVE  Routed(d)'
  BY <1>0, <1>1, <1>5, Fields DEF Says, AgentsStay, AgentOpen, Routed, Opening, GraceIsLoose
<1>6. ASSUME NEW a \in Agents, Registers(a)
      PROVE  Routed(d)'
  BY <1>0, <1>1, <1>6, Fields DEF Registers, AgentPut, AgentOpen, Routed, Opening, GraceIsLoose
<1>7. ASSUME NEW c \in Sockets, HangsUp(c)
      PROVE  Routed(d)'
  BY <1>0, <1>1, <1>7, Fields DEF HangsUp, SockPut, AgentsStay, Routed, Opening, GraceIsLoose
<1>8. ASSUME NEW c \in Sockets, Takes(c)
      PROVE  Routed(d)'
  BY <1>0, <1>1, <1>8, Fields DEF Takes, SockPut, Routed, Opening, GraceIsLoose
<1>9. ASSUME NEW c \in Sockets, RegMoves(c)
      PROVE  Routed(d)'
  BY <1>0, <1>1, <1>9, Fields DEF RegMoves, SockPut, AgentsStay, Routed, Opening, GraceIsLoose
<1>10. ASSUME NEW c \in Sockets, Attaches(c)
      PROVE  Routed(d)'
  BY <1>0, <1>1, <1>10, Fields DEF Attaches, Routed, Opening, GraceIsLoose
<1>11. ASSUME NEW c \in Sockets, ServerHangsUp(c)
      PROVE  Routed(d)'
  BY <1>0, <1>1, <1>11, Fields DEF ServerHangsUp, SockPut, Routed, Opening, GraceIsLoose
<1>12. ASSUME NEW c \in Sockets, ServerCloses(c)
      PROVE  Routed(d)'
  BY <1>0, <1>1, <1>12, Fields DEF ServerCloses, SockPut, Routed, Opening, GraceIsLoose
<1>13. CASE Forgets
  BY <1>0, <1>1, <1>13, Fields DEF Forgets, InService, Attached, Routed, Opening, GraceIsLoose
<1>14. CASE Restarts BY <1>0, <1>1, <1>14, Fields DEF Restarts, Routed, Opening, GraceIsLoose
<1>15. CASE Elsewhere
  BY <1>0, <1>1, <1>15, Fields DEF Elsewhere, SocksStay, AgentsStay, Routed, Opening, GraceIsLoose
<1> QED
  BY <1>2, <1>3, <1>4, <1>5, <1>6, <1>7, <1>8, <1>9, <1>10, <1>11, <1>12, <1>13, <1>14, <1>15
       DEF StepDoes

LEMMA AgentEndKept ==
    ASSUME RouteInv, StepDoes, NEW b \in Agents
    PROVE  AgentEnd(b)'
<1>0. Types BY DEF RouteInv
<1>1. /\ \A c \in Sockets : Wires(c) /\ Opening(c) /\ Routed(c)
      /\ \A a \in Agents : AgentEnd(a)
      /\ GraceIsLoose
  BY DEF RouteInv
<1> USE DEF Ends, RegPcs
<1>2. ASSUME NEW a \in Agents, NEW c \in Sockets, Connects(a, c)
      PROVE  AgentEnd(b)'
  BY <1>0, <1>1, <1>2, Fields DEF Connects, SockPut, AgentPut, Free, AgentEnd, Opening
<1>3. ASSUME NEW a \in Agents, NEW c \in Sockets, Opens(a, c)
      PROVE  AgentEnd(b)'
  BY <1>0, <1>1, <1>3, Fields DEF Opens, SockPut, AgentsStay, AgentEnd, Opening
<1>4. ASSUME NEW a \in Agents, NEW c \in Sockets, Closes(a, c)
      PROVE  AgentEnd(b)'
  BY <1>0, <1>1, <1>4, Fields DEF Closes, SockPut, AgentPut, AgentEnd, Opening
<1>5. ASSUME NEW a \in Agents, Says(a)
      PROVE  AgentEnd(b)'
  BY <1>0, <1>1, <1>5, Fields DEF Says, AgentsStay, AgentOpen, AgentEnd, Opening
<1>6. ASSUME NEW a \in Agents, Registers(a)
      PROVE  AgentEnd(b)'
  BY <1>0, <1>1, <1>6, Fields DEF Registers, AgentPut, AgentOpen, AgentEnd, Opening
<1>7. ASSUME NEW c \in Sockets, HangsUp(c)
      PROVE  AgentEnd(b)'
  BY <1>0, <1>1, <1>7, Fields DEF HangsUp, SockPut, AgentsStay, AgentEnd, Opening
<1>8. ASSUME NEW c \in Sockets, Takes(c)
      PROVE  AgentEnd(b)'
  BY <1>0, <1>1, <1>8, Fields DEF Takes, SockPut, AgentEnd, Opening
<1>9. ASSUME NEW c \in Sockets, RegMoves(c)
      PROVE  AgentEnd(b)'
  BY <1>0, <1>1, <1>9, Fields DEF RegMoves, SockPut, AgentsStay, AgentEnd, Opening
<1>10. ASSUME NEW c \in Sockets, Attaches(c)
      PROVE  AgentEnd(b)'
  BY <1>0, <1>1, <1>10, Fields DEF Attaches, AgentEnd, Opening
<1>11. ASSUME NEW c \in Sockets, ServerHangsUp(c)
      PROVE  AgentEnd(b)'
  BY <1>0, <1>1, <1>11, Fields DEF ServerHangsUp, SockPut, AgentEnd, Opening
<1>12. ASSUME NEW c \in Sockets, ServerCloses(c)
      PROVE  AgentEnd(b)'
  BY <1>0, <1>1, <1>12, Fields DEF ServerCloses, SockPut, AgentEnd, Opening
<1>13. CASE Forgets
  BY <1>0, <1>1, <1>13, Fields DEF Forgets, InService, Attached, AgentEnd, Opening
<1>14. CASE Restarts BY <1>0, <1>1, <1>14, Fields DEF Restarts, AgentEnd, Opening
<1>15. CASE Elsewhere
  BY <1>0, <1>1, <1>15, Fields DEF Elsewhere, SocksStay, AgentsStay, AgentEnd, Opening
<1> QED
  BY <1>2, <1>3, <1>4, <1>5, <1>6, <1>7, <1>8, <1>9, <1>10, <1>11, <1>12, <1>13, <1>14, <1>15
       DEF StepDoes

LEMMA GraceIsLooseKept ==
    ASSUME RouteInv, StepDoes
    PROVE  GraceIsLoose'
<1>0. Types BY DEF RouteInv
<1>1. /\ \A c \in Sockets : Wires(c) /\ Opening(c) /\ Routed(c)
      /\ \A a \in Agents : AgentEnd(a)
      /\ GraceIsLoose
  BY DEF RouteInv
<1> USE DEF Ends, RegPcs
<1>2. ASSUME NEW a \in Agents, NEW c \in Sockets, Connects(a, c)
      PROVE  GraceIsLoose'
  BY <1>0, <1>1, <1>2, Fields DEF Connects, SockPut, AgentPut, Free, GraceIsLoose
<1>3. ASSUME NEW a \in Agents, NEW c \in Sockets, Opens(a, c)
      PROVE  GraceIsLoose'
  BY <1>0, <1>1, <1>3, Fields DEF Opens, SockPut, AgentsStay, GraceIsLoose
<1>4. ASSUME NEW a \in Agents, NEW c \in Sockets, Closes(a, c)
      PROVE  GraceIsLoose'
  BY <1>0, <1>1, <1>4, Fields DEF Closes, SockPut, AgentPut, GraceIsLoose
<1>5. ASSUME NEW a \in Agents, Says(a)
      PROVE  GraceIsLoose'
  BY <1>0, <1>1, <1>5, Fields DEF Says, AgentsStay, AgentOpen, GraceIsLoose
<1>6. ASSUME NEW a \in Agents, Registers(a)
      PROVE  GraceIsLoose'
  BY <1>0, <1>1, <1>6, Fields DEF Registers, AgentPut, AgentOpen, GraceIsLoose
<1>7. ASSUME NEW c \in Sockets, HangsUp(c)
      PROVE  GraceIsLoose'
  BY <1>0, <1>1, <1>7, Fields DEF HangsUp, SockPut, AgentsStay, GraceIsLoose
<1>8. ASSUME NEW c \in Sockets, Takes(c)
      PROVE  GraceIsLoose'
  BY <1>0, <1>1, <1>8, Fields DEF Takes, SockPut, GraceIsLoose
<1>9. ASSUME NEW c \in Sockets, RegMoves(c)
      PROVE  GraceIsLoose'
  BY <1>0, <1>1, <1>9, Fields DEF RegMoves, SockPut, AgentsStay, GraceIsLoose
<1>10. ASSUME NEW c \in Sockets, Attaches(c)
      PROVE  GraceIsLoose'
  BY <1>0, <1>1, <1>10, Fields DEF Attaches, GraceIsLoose
<1>11. ASSUME NEW c \in Sockets, ServerHangsUp(c)
      PROVE  GraceIsLoose'
  BY <1>0, <1>1, <1>11, Fields DEF ServerHangsUp, SockPut, GraceIsLoose
<1>12. ASSUME NEW c \in Sockets, ServerCloses(c)
      PROVE  GraceIsLoose'
  BY <1>0, <1>1, <1>12, Fields DEF ServerCloses, SockPut, GraceIsLoose
<1>13. CASE Forgets BY <1>0, <1>1, <1>13, Fields DEF Forgets, InService, Attached, GraceIsLoose
<1>14. CASE Restarts BY <1>0, <1>1, <1>14, Fields DEF Restarts, GraceIsLoose
<1>15. CASE Elsewhere
  BY <1>0, <1>1, <1>15, Fields DEF Elsewhere, SocksStay, AgentsStay, GraceIsLoose
<1> QED
  BY <1>2, <1>3, <1>4, <1>5, <1>6, <1>7, <1>8, <1>9, <1>10, <1>11, <1>12, <1>13, <1>14, <1>15
       DEF StepDoes

-----------------------------------------------------------------------------
(***************************************************************************)
(* Every step of the link has one of the effects.                          *)
(***************************************************************************)

\* A record written to a socket.
LEMMA SockWritten ==
    ASSUME Types, NEW c \in Sockets, NEW r \in SockRecord, sock' = [sock EXCEPT ![c] = r]
    PROVE  /\ sock' \in [Sockets -> SockRecord]
           /\ SockPut(c, r.owner, r.aEnd, r.sEnd, r.known, r.reg)
BY DEF Types, SockPut

LEMMA SockAgentEnd ==
    ASSUME Types, NEW c \in Sockets, NEW x \in Ends, sock' = [sock EXCEPT ![c].aEnd = x]
    PROVE  /\ sock' \in [Sockets -> SockRecord]
           /\ SockPut(c, sock[c].owner, x, sock[c].sEnd, sock[c].known, sock[c].reg)
<1>1. [sock[c] EXCEPT !.aEnd = x] \in SockRecord  BY DEF Types, SockRecord
<1>2. sock' \in [Sockets -> SockRecord]  BY <1>1 DEF Types
<1>3. QED  BY <1>2 DEF Types, SockPut, SockRecord

LEMMA SockServerEnd ==
    ASSUME Types, NEW c \in Sockets, NEW y \in Ends, sock' = [sock EXCEPT ![c].sEnd = y]
    PROVE  /\ sock' \in [Sockets -> SockRecord]
           /\ SockPut(c, sock[c].owner, sock[c].aEnd, y, sock[c].known, sock[c].reg)
<1>1. [sock[c] EXCEPT !.sEnd = y] \in SockRecord  BY DEF Types, SockRecord
<1>2. sock' \in [Sockets -> SockRecord]  BY <1>1 DEF Types
<1>3. QED  BY <1>2 DEF Types, SockPut, SockRecord

LEMMA SockRegistration ==
    ASSUME Types, NEW c \in Sockets, NEW g \in RegPcs, sock' = [sock EXCEPT ![c].reg = g]
    PROVE  /\ sock' \in [Sockets -> SockRecord]
           /\ SockPut(c, sock[c].owner, sock[c].aEnd, sock[c].sEnd, sock[c].known, g)
<1>1. [sock[c] EXCEPT !.reg = g] \in SockRecord  BY DEF Types, SockRecord
<1>2. sock' \in [Sockets -> SockRecord]  BY <1>1 DEF Types
<1>3. QED  BY <1>2 DEF Types, SockPut, SockRecord

\* A record written to a client.
LEMMA AgentWritten ==
    ASSUME Types, NEW a \in Agents, NEW r \in AgentRecord, agent' = [agent EXCEPT ![a] = r]
    PROVE  /\ agent' \in [Agents -> AgentRecord]
           /\ AgentPut(a, r.ws, r.registered, r.timer)
BY DEF Types, AgentPut

\* The client gets a socket.
LEMMA AgentWs ==
    ASSUME Types, NEW a \in Agents, NEW w \in Sockets,
           agent' = [agent EXCEPT ![a].ws = w, ![a].timer = FALSE]
    PROVE  /\ agent' \in [Agents -> AgentRecord]
           /\ AgentPut(a, w, agent[a].registered, FALSE)
<1> DEFINE r == [agent[a] EXCEPT !.ws = w, !.timer = FALSE]
<1>1. agent[a] \in AgentRecord  BY DEF Types
<1>2. r \in AgentRecord  BY <1>1 DEF AgentRecord
<1>3. /\ r.ws = w
      /\ r.registered <=> agent[a].registered
      /\ r.timer <=> FALSE
      BY <1>1 DEF AgentRecord
<1>4. agent' = [agent EXCEPT ![a] = r]  BY DEF Types
<1> HIDE DEF r
<1>5. agent' \in [Agents -> AgentRecord] /\ AgentPut(a, r.ws, r.registered, r.timer)
      BY <1>2, <1>4, AgentWritten
<1>6. QED  BY <1>3, <1>5 DEF AgentPut

\* The client loses its socket.
LEMMA AgentGone ==
    ASSUME Types, NEW a \in Agents,
           SocketClosed(a)
    PROVE  /\ agent' \in [Agents -> AgentRecord]
           /\ AgentPut(a, NoSocket, FALSE, ~agent[a].stopping)
<1> DEFINE b == ~agent[a].stopping
           r == [agent[a] EXCEPT !.ws = NoSocket, !.registered = FALSE, !.had = TRUE, !.watchdog = b, !.timer = b]
<1>1. agent[a] \in AgentRecord  BY DEF Types
<1>0. b \in BOOLEAN  BY <1>1 DEF AgentRecord
<1>2. r \in AgentRecord  BY <1>1, LinkAssumption DEF AgentRecord
<1>3. /\ r.ws = NoSocket
      /\ r.registered <=> FALSE
      /\ r.timer <=> b
      BY <1>1 DEF AgentRecord
<1>4. agent' = [agent EXCEPT ![a] = r]  BY DEF Types, SocketClosed
<1> HIDE DEF r
<1>5. agent' \in [Agents -> AgentRecord] /\ AgentPut(a, r.ws, r.registered, r.timer)
      BY <1>2, <1>4, AgentWritten
<1>6. QED  BY <1>3, <1>5 DEF AgentPut

\* The client is registered.
LEMMA AgentReg ==
    ASSUME Types, NEW a \in Agents,
           GetRegistered(a)
    PROVE  /\ agent' \in [Agents -> AgentRecord]
           /\ AgentPut(a, agent[a].ws, TRUE, agent[a].timer)
<1> DEFINE b == agent[a].resync \/ agent[a].had
           r == [agent[a] EXCEPT !.registered = TRUE, !.had = FALSE, !.resync = b]
<1>1. agent[a] \in AgentRecord  BY DEF Types
<1>0. b \in BOOLEAN  BY <1>1 DEF AgentRecord
<1>2. r \in AgentRecord  BY <1>1 DEF AgentRecord
<1>3. /\ r.ws = agent[a].ws
      /\ r.registered <=> TRUE
      /\ r.timer <=> agent[a].timer
      BY <1>1 DEF AgentRecord
<1>4. agent' = [agent EXCEPT ![a] = r]  BY DEF Types, GetRegistered
<1> HIDE DEF r
<1>5. agent' \in [Agents -> AgentRecord] /\ AgentPut(a, r.ws, r.registered, r.timer)
      BY <1>2, <1>4, AgentWritten
<1>6. QED  BY <1>3, <1>5 DEF AgentPut

\* The client stops.
LEMMA AgentStopping ==
    ASSUME Types, NEW a \in Agents,
           Stop(a)
    PROVE  /\ agent' \in [Agents -> AgentRecord]
           /\ AgentsStay
<1> DEFINE r == [agent[a] EXCEPT !.stopping = TRUE, !.timer = FALSE, !.watchdog = FALSE, !.live = FALSE]
<1>1. agent[a] \in AgentRecord  BY DEF Types
<1>2. r \in AgentRecord  BY <1>1 DEF AgentRecord
<1>3. /\ r.ws = agent[a].ws
      /\ r.registered <=> agent[a].registered
      /\ r.timer <=> FALSE
      BY <1>1 DEF AgentRecord
<1>4. agent' = [agent EXCEPT ![a] = r]  BY DEF Types, Stop
<1> HIDE DEF r
<1>5. agent' \in [Agents -> AgentRecord] /\ AgentPut(a, r.ws, r.registered, r.timer)
      BY <1>2, <1>4, AgentWritten
<1>6. QED  BY <1>3, <1>5 DEF AgentPut, AgentsStay

\* The other writes touch neither socket nor registration.
LEMMA AgentWatchdog ==
    ASSUME Types, NEW a \in Agents, NEW b \in BOOLEAN,
           agent' = [agent EXCEPT ![a].watchdog = b]
    PROVE  /\ agent' \in [Agents -> AgentRecord]
           /\ AgentsStay
<1> DEFINE r == [agent[a] EXCEPT !.watchdog = b]
<1>1. agent[a] \in AgentRecord  BY DEF Types
<1>2. r \in AgentRecord  BY <1>1 DEF AgentRecord
<1>3. /\ r.ws = agent[a].ws
      /\ r.registered <=> agent[a].registered
      /\ r.timer <=> agent[a].timer
      BY <1>1 DEF AgentRecord
<1>4. agent' = [agent EXCEPT ![a] = r]  BY DEF Types
<1> HIDE DEF r
<1>5. agent' \in [Agents -> AgentRecord] /\ AgentPut(a, r.ws, r.registered, r.timer)
      BY <1>2, <1>4, AgentWritten
<1>6. QED  BY <1>3, <1>5 DEF AgentPut, AgentsStay

LEMMA AgentDraining ==
    ASSUME Types, NEW a \in Agents, NEW b \in BOOLEAN,
           agent' = [agent EXCEPT ![a].draining = b]
    PROVE  /\ agent' \in [Agents -> AgentRecord]
           /\ AgentsStay
<1> DEFINE r == [agent[a] EXCEPT !.draining = b]
<1>1. agent[a] \in AgentRecord  BY DEF Types
<1>2. r \in AgentRecord  BY <1>1 DEF AgentRecord
<1>3. /\ r.ws = agent[a].ws
      /\ r.registered <=> agent[a].registered
      /\ r.timer <=> agent[a].timer
      BY <1>1 DEF AgentRecord
<1>4. agent' = [agent EXCEPT ![a] = r]  BY DEF Types
<1> HIDE DEF r
<1>5. agent' \in [Agents -> AgentRecord] /\ AgentPut(a, r.ws, r.registered, r.timer)
      BY <1>2, <1>4, AgentWritten
<1>6. QED  BY <1>3, <1>5 DEF AgentPut, AgentsStay

LEMMA AgentResync ==
    ASSUME Types, NEW a \in Agents, NEW b \in BOOLEAN,
           agent' = [agent EXCEPT ![a].resync = b]
    PROVE  /\ agent' \in [Agents -> AgentRecord]
           /\ AgentsStay
<1> DEFINE r == [agent[a] EXCEPT !.resync = b]
<1>1. agent[a] \in AgentRecord  BY DEF Types
<1>2. r \in AgentRecord  BY <1>1 DEF AgentRecord
<1>3. /\ r.ws = agent[a].ws
      /\ r.registered <=> agent[a].registered
      /\ r.timer <=> agent[a].timer
      BY <1>1 DEF AgentRecord
<1>4. agent' = [agent EXCEPT ![a] = r]  BY DEF Types
<1> HIDE DEF r
<1>5. agent' \in [Agents -> AgentRecord] /\ AgentPut(a, r.ws, r.registered, r.timer)
      BY <1>2, <1>4, AgentWritten
<1>6. QED  BY <1>3, <1>5 DEF AgentPut, AgentsStay

LEMMA AgentLive ==
    ASSUME Types, NEW a \in Agents, NEW b \in BOOLEAN,
           agent' = [agent EXCEPT ![a].live = b]
    PROVE  /\ agent' \in [Agents -> AgentRecord]
           /\ AgentsStay
<1> DEFINE r == [agent[a] EXCEPT !.live = b]
<1>1. agent[a] \in AgentRecord  BY DEF Types
<1>2. r \in AgentRecord  BY <1>1 DEF AgentRecord
<1>3. /\ r.ws = agent[a].ws
      /\ r.registered <=> agent[a].registered
      /\ r.timer <=> agent[a].timer
      BY <1>1 DEF AgentRecord
<1>4. agent' = [agent EXCEPT ![a] = r]  BY DEF Types
<1> HIDE DEF r
<1>5. agent' \in [Agents -> AgentRecord] /\ AgentPut(a, r.ws, r.registered, r.timer)
      BY <1>2, <1>4, AgentWritten
<1>6. QED  BY <1>3, <1>5 DEF AgentPut, AgentsStay

LEMMA AgentLog ==
    ASSUME Types, NEW a \in Agents, NEW n \in 0..MaxLog,
           agent' = [agent EXCEPT ![a].log = n]
    PROVE  /\ agent' \in [Agents -> AgentRecord]
           /\ AgentsStay
<1> DEFINE r == [agent[a] EXCEPT !.log = n]
<1>1. agent[a] \in AgentRecord  BY DEF Types
<1>2. r \in AgentRecord  BY <1>1 DEF AgentRecord
<1>3. /\ r.ws = agent[a].ws
      /\ r.registered <=> agent[a].registered
      /\ r.timer <=> agent[a].timer
      BY <1>1 DEF AgentRecord
<1>4. agent' = [agent EXCEPT ![a] = r]  BY DEF Types
<1> HIDE DEF r
<1>5. agent' \in [Agents -> AgentRecord] /\ AgentPut(a, r.ws, r.registered, r.timer)
      BY <1>2, <1>4, AgentWritten
<1>6. QED  BY <1>3, <1>5 DEF AgentPut, AgentsStay

LEMMA AgentDies ==
    ASSUME Types, NEW a \in Agents,
           agent' = [agent EXCEPT ![a].watchdog = FALSE, ![a].live = FALSE]
    PROVE  /\ agent' \in [Agents -> AgentRecord]
           /\ AgentsStay
<1> DEFINE r == [agent[a] EXCEPT !.watchdog = FALSE, !.live = FALSE]
<1>1. agent[a] \in AgentRecord  BY DEF Types
<1>2. r \in AgentRecord  BY <1>1 DEF AgentRecord
<1>3. /\ r.ws = agent[a].ws
      /\ r.registered <=> agent[a].registered
      /\ r.timer <=> agent[a].timer
      BY <1>1 DEF AgentRecord
<1>4. agent' = [agent EXCEPT ![a] = r]  BY DEF Types
<1> HIDE DEF r
<1>5. agent' \in [Agents -> AgentRecord] /\ AgentPut(a, r.ws, r.registered, r.timer)
      BY <1>2, <1>4, AgentWritten
<1>6. QED  BY <1>3, <1>5 DEF AgentPut, AgentsStay

LEMMA SockBroken ==
    ASSUME Types, NEW c \in Sockets, sock' = [sock EXCEPT ![c].broken = TRUE]
    PROVE  sock' \in [Sockets -> SockRecord] /\ SocksStay
<1>1. [sock[c] EXCEPT !.broken = TRUE] \in SockRecord  BY DEF Types, SockRecord
<1>2. sock' \in [Sockets -> SockRecord]  BY <1>1 DEF Types
<1>3. QED  BY <1>2 DEF Types, SocksStay, SockRecord

LEMMA SockKnown ==
    ASSUME Types, NEW c \in Sockets, sock' = [sock EXCEPT ![c].known = FALSE]
    PROVE  /\ sock' \in [Sockets -> SockRecord]
           /\ SockPut(c, sock[c].owner, sock[c].aEnd, sock[c].sEnd, FALSE, sock[c].reg)
<1>1. [sock[c] EXCEPT !.known = FALSE] \in SockRecord  BY DEF Types, SockRecord
<1>2. sock' \in [Sockets -> SockRecord]  BY <1>1 DEF Types
<1>3. QED  BY <1>2 DEF Types, SockPut, SockRecord

LEMMA SockBothEnds ==
    ASSUME Types, NEW c \in Sockets, NEW x \in Ends, NEW y \in Ends,
           sock' = [sock EXCEPT ![c].aEnd = x, ![c].sEnd = y]
    PROVE  /\ sock' \in [Sockets -> SockRecord]
           /\ SockPut(c, sock[c].owner, x, y, sock[c].known, sock[c].reg)
<1>1. [sock[c] EXCEPT !.aEnd = x, !.sEnd = y] \in SockRecord  BY DEF Types, SockRecord
<1>2. sock' \in [Sockets -> SockRecord]  BY <1>1 DEF Types
<1>3. QED  BY <1>2 DEF Types, SockPut, SockRecord

\* What is sent.
LEMMA Messages ==
    /\ [type |-> "register"] \in UpMsg /\ [type |-> "unregister"] \in UpMsg
    /\ \A n \in 1..MaxLog : [type |-> "log", steps |-> n] \in Snapshot
    /\ Snapshot \subseteq UpMsg
BY DEF UpMsg, Snapshot

LEMMA KeptIsSent ==
    ASSUME NEW q \in Seq(Snapshot)  PROVE q \in Seq(UpMsg)
<1>1. \A i \in 1..Len(q) : q[i] \in UpMsg  BY Messages
<1>2. QED  BY <1>1, SeqDef

\* The buffer stays within its limit.
LEMMA BufferedType ==
    ASSUME NEW q \in Seq(Snapshot), Len(q) <= QueueMax, NEW m \in Snapshot
    PROVE  Buffered(q, m) \in Seq(Snapshot) /\ Len(Buffered(q, m)) <= QueueMax
<1> DEFINE full == Append(q, m)
<1>1. full \in Seq(Snapshot) /\ Len(full) = Len(q) + 1 /\ full # <<>>  OBVIOUS
<1>2. Tail(full) \in Seq(Snapshot) /\ Len(Tail(full)) = Len(full) - 1
      BY <1>1, HeadTailProperties
<1>3. Len(q) \in Nat /\ QueueMax \in Nat  BY LinkAssumption
<1>4. Buffered(q, m) = IF Len(full) > QueueMax THEN Tail(full) ELSE full  BY DEF Buffered
<1> HIDE DEF full
<1>5. QED  BY <1>1, <1>2, <1>3, <1>4

LEMMA SendSays ==
    ASSUME Types, NEW a \in Agents, NEW m \in UpMsg, Send(a, m), m \in Snapshot \/ AgentOpen(a)
    PROVE  /\ up' \in [Sockets -> Seq(UpMsg)]
           /\ queue' \in [Agents -> Seq(Snapshot)] /\ \A b \in Agents : Len(queue'[b]) <= QueueMax
           /\ \/ /\ AgentOpen(a) /\ queue' = queue
                 /\ \A c \in Sockets :
                        up'[c] = up[c] \/ (c = agent[a].ws /\ sock[c].sEnd # "closed")
              \/ /\ ~AgentOpen(a) /\ up' = up
                 /\ \A b \in Agents : b # a => queue'[b] = queue[b]
<1>1. CASE AgentOpen(a)
  <2>1. agent[a].ws \in Sockets  BY <1>1, Fields DEF AgentOpen
  <2>2. queue' = queue
        /\ up' = IF Swallows(agent[a].ws) THEN up
                 ELSE [up EXCEPT ![agent[a].ws] = Append(@, m)]
        BY <1>1 DEF Send
  <2>3. QED  BY <1>1, <2>1, <2>2 DEF Types, Swallows
<1>2. CASE ~AgentOpen(a)
  <2>1. up' = up /\ queue' = IF agent[a].stopping THEN queue
                             ELSE [queue EXCEPT ![a] = Buffered(@, m)]
        BY <1>2 DEF Send
  <2>2. Buffered(queue[a], m) \in Seq(Snapshot) /\ Len(Buffered(queue[a], m)) <= QueueMax
        BY <1>2, BufferedType DEF Types
  <2>3. QED  BY <1>2, <2>1, <2>2 DEF Types
<1>3. QED  BY <1>1, <1>2

-----------------------------------------------------------------------------
(* The steps of the agent.                                                 *)

LEMMA ConnectIs ==
    ASSUME Types, NEW a \in Agents, Connect(a)
    PROVE  StepDoes /\ Types'
<1> USE DEF planeVars, bounds
<1>1. PICK c \in Sockets :
          /\ Free(c)
          /\ sock' = [sock EXCEPT ![c] = [NewSock EXCEPT !.owner = a, !.aEnd = "opening"]]
          /\ agent' = [agent EXCEPT ![a].ws = c, ![a].timer = FALSE]
      BY DEF Connect
<1>2. agent[a].timer /\ UNCHANGED <<queue, up, down, planeVars, bounds>>  BY DEF Connect
<1> DEFINE r == [NewSock EXCEPT !.owner = a, !.aEnd = "opening"]
<1>3. r \in SockRecord  BY DEF NewSock, SockRecord, Ends, RegPcs
<1>4. /\ r.owner = a /\ r.aEnd = "opening" /\ r.sEnd = "none"
      /\ (r.known <=> FALSE) /\ r.reg = "idle"
      BY DEF NewSock
<1>5. sock' = [sock EXCEPT ![c] = r]  BY <1>1
<1> HIDE DEF r
<1>6. sock' \in [Sockets -> SockRecord] /\ SockPut(c, r.owner, r.aEnd, r.sEnd, r.known, r.reg)
      BY <1>3, <1>5, SockWritten
<1>7. SockPut(c, a, "opening", "none", FALSE, "idle")  BY <1>4, <1>6 DEF SockPut
<1>8. agent' \in [Agents -> AgentRecord] /\ AgentPut(a, c, agent[a].registered, FALSE)
      BY <1>1, AgentWs, LinkAssumption
<1>9. Connects(a, c)  BY <1>1, <1>2, <1>7, <1>8 DEF Connects
<1>10. Types'  BY <1>2, <1>6, <1>8 DEF Types
<1>11. QED  BY <1>9, <1>10 DEF StepDoes

LEMMA SocketOpensIs ==
    ASSUME Types, NEW a \in Agents, SocketOpens(a)
    PROVE  StepDoes /\ Types'
<1> USE DEF planeVars, bounds
<1> DEFINE c == agent[a].ws
<1>1. c \in Sockets  BY Fields DEF SocketOpens
<1>2. sock' \in [Sockets -> SockRecord]
      /\ SockPut(c, sock[c].owner, "open", "open", sock[c].known, sock[c].reg)
  <2>1. sock' = [sock EXCEPT ![c].aEnd = "open", ![c].sEnd = "open"]  BY DEF SocketOpens
  <2>2. "open" \in Ends  BY DEF Ends
  <2> HIDE DEF c
  <2>3. QED  BY <1>1, <2>1, <2>2, SockBothEnds
<1>3. agent' \in [Agents -> AgentRecord] /\ AgentsStay
  <2>1. agent' = [agent EXCEPT ![a].watchdog = FALSE]  BY DEF SocketOpens
  <2>2. QED  BY <2>1, AgentWatchdog
<1>4. up' \in [Sockets -> Seq(UpMsg)]  BY <1>1, Messages DEF SocketOpens, Types
<1>5. Opens(a, c)  BY <1>1, <1>2, <1>3 DEF Opens, SocketOpens
<1>6. Types'  BY <1>2, <1>3, <1>4 DEF Types, SocketOpens
<1>7. QED  BY <1>1, <1>5, <1>6 DEF StepDoes

\* The steps that begin to close the agent's end, and nothing else that matters here.
LEMMA HangsUpTypes ==
    ASSUME Types, NEW c \in Sockets, sock[c].aEnd \in {"opening", "open", "closing"},
           sock' = [sock EXCEPT ![c].aEnd = "closing"],
           AgentsStay, agent' \in [Agents -> AgentRecord],
           UNCHANGED <<queue, up, down, planeVars, ops>>, faults' \in 0..MaxFaults
    PROVE  StepDoes /\ Types'
<1>1. sock' \in [Sockets -> SockRecord]
      /\ SockPut(c, sock[c].owner, "closing", sock[c].sEnd, sock[c].known, sock[c].reg)
      BY SockAgentEnd DEF Ends
<1>2. HangsUp(c)  BY <1>1 DEF HangsUp, planeVars
<1>3. Types'  BY <1>1 DEF Types, planeVars
<1>4. QED  BY <1>2, <1>3 DEF StepDoes

LEMMA AgentClosesIs ==
    ASSUME Types, NEW a \in Agents, ConnectFails(a) \/ AckTimeout(a) \/ StopCloses(a)
    PROVE  StepDoes /\ Types'
<1> DEFINE c == agent[a].ws
<1>1. c \in Sockets /\ sock[c].aEnd \in {"opening", "open", "closing"}
      BY Fields DEF ConnectFails, AckTimeout, StopCloses, AgentOpen
<1>2. /\ sock' = [sock EXCEPT ![c].aEnd = "closing"]
      /\ UNCHANGED <<agent, queue, up, down, planeVars, ops>>
      BY DEF ConnectFails, AckTimeout, StopCloses, agentVars, bounds, Fault
<1>3. faults' \in 0..MaxFaults
      BY LinkAssumption DEF ConnectFails, AckTimeout, StopCloses, bounds, Fault, Types
<1>4. AgentsStay /\ agent' \in [Agents -> AgentRecord]  BY <1>2 DEF AgentsStay, Types
<1> HIDE DEF c
<1>5. QED  BY <1>1, <1>2, <1>3, <1>4, HangsUpTypes

LEMMA SocketClosedIs ==
    ASSUME Types, NEW a \in Agents, SocketClosed(a)
    PROVE  StepDoes /\ Types'
<1> USE DEF planeVars, bounds
<1> DEFINE c == agent[a].ws
           t == ~agent[a].stopping
<1>1. c \in Sockets /\ sock[c].aEnd = "closing"  BY Fields DEF SocketClosed
<1>2. sock' \in [Sockets -> SockRecord]
      /\ SockPut(c, sock[c].owner, "closed", sock[c].sEnd, sock[c].known, sock[c].reg)
      BY <1>1, SockAgentEnd DEF SocketClosed, Ends
<1>3. agent' \in [Agents -> AgentRecord] /\ AgentPut(a, NoSocket, FALSE, t)
      BY AgentGone
<1>4. t \in BOOLEAN  OBVIOUS
<1> HIDE DEF t
<1>5. down' \in [Sockets -> Seq(DownMsg)]  BY <1>1 DEF SocketClosed, Types
<1>6. Closes(a, c)  BY <1>1, <1>2, <1>3, <1>4 DEF Closes, SocketClosed
<1>7. Types'  BY <1>2, <1>3, <1>5 DEF Types, SocketClosed
<1>8. QED  BY <1>1, <1>6, <1>7 DEF StepDoes

LEMMA GetRegisteredIs ==
    ASSUME Types, NEW a \in Agents, GetRegistered(a)
    PROVE  StepDoes /\ Types'
<1> USE DEF planeVars, bounds
<1> DEFINE c == agent[a].ws
<1>1. c \in Sockets  BY Fields DEF GetRegistered, AgentOpen
<1>2. up' = IF Swallows(c) THEN up ELSE [up EXCEPT ![c] = @ \o queue[a]]
      BY DEF GetRegistered
<1>3. agent' \in [Agents -> AgentRecord] /\ AgentPut(a, agent[a].ws, TRUE, agent[a].timer)
      BY AgentReg
<1>4. queue[a] \in Seq(UpMsg) /\ up[c] \in Seq(UpMsg)  BY <1>1, KeptIsSent DEF Types
<1>5. up[c] \o queue[a] \in Seq(UpMsg)  BY <1>4
<1>6. up' \in [Sockets -> Seq(UpMsg)]  BY <1>1, <1>2, <1>5 DEF Types
<1>7. queue' = [queue EXCEPT ![a] = <<>>]  BY DEF GetRegistered
<1>8. queue' \in [Agents -> Seq(Snapshot)] /\ \A b \in Agents : Len(queue'[b]) <= QueueMax
       BY <1>7, LinkAssumption DEF Types
<1>9. down' \in [Sockets -> Seq(DownMsg)]
  <2>1. down[c] \in Seq(DownMsg) /\ down[c] # <<>> /\ down' = [down EXCEPT ![c] = Tail(@)]
        BY <1>1 DEF GetRegistered, Types
  <2>2. Tail(down[c]) \in Seq(DownMsg)  BY <2>1, HeadTailProperties
  <2>3. QED  BY <2>1, <2>2 DEF Types
<1>10. \A s \in Sockets : up'[s] = up[s] \/ (s = c /\ sock[s].sEnd # "closed")
       BY <1>1, <1>2 DEF Swallows, Types
<1>11. Registers(a)  BY <1>3, <1>7, <1>10 DEF Registers, GetRegistered
<1>12. Types'  BY <1>3, <1>6, <1>8, <1>9 DEF Types, GetRegistered
<1>13. QED  BY <1>11, <1>12 DEF StepDoes

LEMMA SaysIs ==
    ASSUME Types, NEW a \in Agents, Record(a) \/ Resync(a)
    PROVE  StepDoes /\ Types'
<1> USE DEF planeVars, bounds
<1>1. agent[a] \in AgentRecord  BY DEF Types
<1>2. agent[a].log \in 0..MaxLog /\ MaxLog \in Nat  BY <1>1, LinkAssumption DEF AgentRecord
<1>3. UNCHANGED <<sock, down, planeVars, bounds>>  BY DEF Record, Resync
<1>4. ASSUME AgentsStay, agent' \in [Agents -> AgentRecord],
             NEW m \in Snapshot, Send(a, m)
      PROVE  StepDoes /\ Types'
  <2>1. m \in UpMsg  BY Messages
  <2>2. Says(a)  BY <1>3, <1>4, <2>1, SendSays DEF Says
  <2>3. Types'  BY <1>3, <1>4, <2>1, SendSays DEF Types
  <2>4. QED  BY <2>2, <2>3 DEF StepDoes
<1>5. CASE Record(a)
  <2>1. agent[a].log + 1 \in 1..MaxLog  BY <1>2, <1>5 DEF Record
  <2>2. AgentsStay /\ agent' \in [Agents -> AgentRecord]
    <3>1. agent[a].log + 1 \in 0..MaxLog  BY <2>1
    <3>2. agent' = [agent EXCEPT ![a].log = agent[a].log + 1]  BY <1>5 DEF Record
    <3>3. agent[a].log + 1 \in 0..MaxLog => AgentsStay /\ agent' \in [Agents -> AgentRecord]
          BY <3>2, AgentLog
    <3>4. QED  BY <3>1, <3>3
  <2>3. [type |-> "log", steps |-> agent[a].log + 1] \in Snapshot  BY <2>1, Messages
  <2>4. Send(a, [type |-> "log", steps |-> agent[a].log + 1])  BY <1>5 DEF Record
  <2>5. QED  BY <1>4, <2>2, <2>3, <2>4
<1>6. CASE Resync(a)
  <2>1. AgentsStay /\ agent' \in [Agents -> AgentRecord]
    <3>1. agent' = [agent EXCEPT ![a].resync = FALSE]  BY <1>6 DEF Resync
    <3>2. QED  BY <3>1, AgentResync
  <2>2. CASE agent[a].live /\ agent[a].log > 0
    <3>1. agent[a].log \in 1..MaxLog  BY <1>2, <2>2
    <3>2. [type |-> "log", steps |-> agent[a].log] \in Snapshot  BY <3>1, Messages
    <3>3. Send(a, [type |-> "log", steps |-> agent[a].log])  BY <1>6, <2>2 DEF Resync
    <3>4. QED  BY <1>4, <2>1, <3>2, <3>3
  <2>3. CASE ~(agent[a].live /\ agent[a].log > 0)
    <3>1. UNCHANGED <<queue, up>>  BY <1>6, <2>3 DEF Resync
    <3>2. Elsewhere  BY <1>3, <2>1, <3>1 DEF Elsewhere, SocksStay
    <3>3. Types'  BY <1>3, <2>1, <3>1 DEF Types
    <3>4. QED  BY <3>2, <3>3 DEF StepDoes
  <2>4. QED  BY <2>2, <2>3
<1>7. QED  BY <1>5, <1>6

LEMMA AgentElsewhereIs ==
    ASSUME Types, NEW a \in Agents, GetDrain(a) \/ Watchdog(a)
    PROVE  StepDoes /\ Types'
<1> USE DEF planeVars, bounds, netVars
<1>1. AgentsStay /\ agent' \in [Agents -> AgentRecord]
  <2>1. CASE GetDrain(a)
    <3>1. agent' = [agent EXCEPT ![a].draining = TRUE]  BY <2>1 DEF GetDrain
    <3>2. QED  BY <3>1, AgentDraining
  <2>2. CASE Watchdog(a)
    <3>1. agent' = [agent EXCEPT ![a].watchdog = FALSE, ![a].live = FALSE]  BY <2>2 DEF Watchdog
    <3>2. QED  BY <3>1, AgentDies
  <2>3. QED  BY <2>1, <2>2
<1>2. down' \in [Sockets -> Seq(DownMsg)]
  <2>1. CASE GetDrain(a)
    <3> DEFINE c == agent[a].ws
    <3>1. c \in Sockets  BY <2>1, Fields DEF GetDrain, AgentOpen
    <3>2. down[c] \in Seq(DownMsg) /\ down[c] # <<>> /\ down' = [down EXCEPT ![c] = Tail(@)]
          BY <2>1, <3>1 DEF GetDrain, Types
    <3>3. Tail(down[c]) \in Seq(DownMsg)  BY <3>2, HeadTailProperties
    <3>4. QED  BY <3>2, <3>3 DEF Types
  <2>2. CASE Watchdog(a)  BY <2>2 DEF Watchdog, Types
  <2>3. QED  BY <2>1, <2>2
<1>3. UNCHANGED <<queue, sock, up, planeVars, bounds>>  BY DEF GetDrain, Watchdog
<1>4. Elsewhere  BY <1>1, <1>3 DEF Elsewhere, SocksStay
<1>5. Types'  BY <1>1, <1>2, <1>3 DEF Types
<1>6. QED  BY <1>4, <1>5 DEF StepDoes

LEMMA StopIs ==
    ASSUME Types, NEW a \in Agents, AgentEnd(a), Stop(a)
    PROVE  StepDoes /\ Types'
<1> USE DEF planeVars, bounds
<1> DEFINE c == agent[a].ws
<1>1. AgentsStay /\ agent' \in [Agents -> AgentRecord]  BY AgentStopping
<1>2. UNCHANGED <<down, planeVars, bounds>>  BY DEF Stop
<1>3. CASE AgentOpen(a) /\ agent[a].registered
  <2>1. Send(a, [type |-> "unregister"]) /\ UNCHANGED sock  BY <1>3 DEF Stop
  <2>2. Says(a)  BY <1>1, <1>2, <1>3, <2>1, SendSays, Messages DEF Says
  <2>3. Types'  BY <1>1, <1>2, <1>3, <2>1, SendSays, Messages DEF Types
  <2>4. QED  BY <2>2, <2>3 DEF StepDoes
<1>4. CASE ~(AgentOpen(a) /\ agent[a].registered)
  <2>1. /\ sock' = IF c = NoSocket THEN sock ELSE [sock EXCEPT ![c].aEnd = "closing"]
        /\ UNCHANGED <<queue, up>>
        BY <1>4 DEF Stop
  <2>2. CASE c = NoSocket
    <3>1. Elsewhere  BY <1>1, <1>2, <2>1, <2>2 DEF Elsewhere, SocksStay
    <3>2. Types'  BY <1>1, <1>2, <2>1, <2>2 DEF Types
    <3>3. QED  BY <3>1, <3>2 DEF StepDoes
  <2>3. CASE c # NoSocket
    <3>1. c \in Sockets  BY <2>3, Fields
    <3>2. sock[c].aEnd \in {"opening", "open", "closing"}  BY <2>3 DEF AgentEnd
    <3>3. faults' \in 0..MaxFaults  BY <1>2 DEF Types
    <3> HIDE DEF c
    <3>4. QED  BY <1>1, <1>2, <2>1, <2>3, <3>1, <3>2, <3>3, HangsUpTypes
  <2>4. QED  BY <2>2, <2>3
<1>5. QED  BY <1>3, <1>4

-----------------------------------------------------------------------------
(* The steps of a connection.                                              *)

\* What is taken from a queue leaves a queue.
LEMMA UpTail ==
    ASSUME Types, NEW c \in Sockets, up[c] # <<>>, up' = [up EXCEPT ![c] = Tail(@)]
    PROVE  /\ up' \in [Sockets -> Seq(UpMsg)]
           /\ \A d \in Sockets : d # c => up'[d] = up[d]
<1>1. up[c] \in Seq(UpMsg)  BY DEF Types
<1>2. Tail(up[c]) \in Seq(UpMsg)  BY <1>1, HeadTailProperties
<1>3. QED  BY <1>2 DEF Types

LEMMA DownType ==
    ASSUME Types, NEW c \in Sockets, NEW m \in DownMsg
    PROVE  Down(c, m) \in [Sockets -> Seq(DownMsg)]
<1>1. down[c] \in Seq(DownMsg)  BY DEF Types
<1>2. Append(down[c], m) \in Seq(DownMsg)  BY <1>1
<1>3. QED  BY <1>2 DEF Types, Down

\* The steps that begin to close the server's end, and nothing else that matters here.
LEMMA ServerHangsUpTypes ==
    ASSUME Types, NEW c \in Sockets, sock[c].sEnd = "open",
           sock' = [sock EXCEPT ![c].sEnd = "closing"],
           down' \in [Sockets -> Seq(DownMsg)], job' \in [Jobs -> JobPcs],
           UNCHANGED <<agentVars, up, entry, node, session, takenOff, bounds>>
    PROVE  StepDoes /\ Types'
<1> USE DEF agentVars, bounds
<1>1. sock' \in [Sockets -> SockRecord]
      /\ SockPut(c, sock[c].owner, sock[c].aEnd, "closing", sock[c].known, sock[c].reg)
      BY SockServerEnd DEF Ends
<1>2. ServerHangsUp(c)  BY <1>1 DEF ServerHangsUp
<1>3. Types'  BY <1>1 DEF Types
<1>4. QED  BY <1>2, <1>3 DEF StepDoes

\* The steps of a registration that neither attach nor reject.
LEMMA RegMovesTypes ==
    ASSUME Types, NEW c \in Sockets, NEW g \in RegPcs, sock[c].reg # "idle",
           sock' = [sock EXCEPT ![c].reg = g],
           AgentsStay, agent' \in [Agents -> AgentRecord],
           node' \in NodeRecord, faults' \in 0..MaxFaults,
           UNCHANGED <<queue, up, down, entry, session, job, takenOff, ops>>
    PROVE  StepDoes /\ Types'
<1>1. sock' \in [Sockets -> SockRecord]
      /\ SockPut(c, sock[c].owner, sock[c].aEnd, sock[c].sEnd, sock[c].known, g)
      BY SockRegistration
<1>2. RegMoves(c)  BY <1>1 DEF RegMoves
<1>3. Types'  BY <1>1 DEF Types
<1>4. QED  BY <1>2, <1>3 DEF StepDoes

LEMMA BreaksIs ==
    ASSUME Types, NEW c \in Sockets, Breaks(c)
    PROVE  StepDoes /\ Types'
<1> USE DEF planeVars, agentVars
<1>1. sock' \in [Sockets -> SockRecord] /\ SocksStay
  <2>1. sock' = [sock EXCEPT ![c].broken = TRUE]  BY DEF Breaks
  <2>2. QED  BY <2>1, SockBroken
<1>2. /\ up' = [up EXCEPT ![c] = <<>>] /\ down' = [down EXCEPT ![c] = <<>>]
      /\ UNCHANGED <<agentVars, planeVars, ops>>
      BY DEF Breaks, Fault
<1>3. faults' \in 0..MaxFaults  BY LinkAssumption DEF Breaks, Fault, Types
<1>4. up' \in [Sockets -> Seq(UpMsg)] /\ down' \in [Sockets -> Seq(DownMsg)]
      BY <1>2 DEF Types
<1>5. \A d \in Sockets : up'[d] \in {up[d], <<>>}  BY <1>2 DEF Types
<1>6. Elsewhere  BY <1>1, <1>2, <1>5 DEF Elsewhere, AgentsStay
<1>7. Types'  BY <1>1, <1>2, <1>3, <1>4 DEF Types
<1>8. QED  BY <1>6, <1>7 DEF StepDoes

LEMMA EndLearnsIs ==
    ASSUME Types, NEW c \in Sockets, EndLearns(c)
    PROVE  StepDoes /\ Types'
<1>1. UNCHANGED <<agentVars, up, down, planeVars, bounds>>  BY DEF EndLearns
<1>2. /\ UNCHANGED <<agent, queue, up, down, planeVars, ops>>
      /\ UNCHANGED <<agentVars, up, entry, node, session, takenOff, bounds>>
      /\ AgentsStay /\ agent' \in [Agents -> AgentRecord] /\ faults' \in 0..MaxFaults
      /\ down' \in [Sockets -> Seq(DownMsg)] /\ job' \in [Jobs -> JobPcs]
      BY <1>1 DEF agentVars, planeVars, bounds, AgentsStay, Types
<1>3. CASE sock[c].aEnd = "open" /\ sock' = [sock EXCEPT ![c].aEnd = "closing"]
      BY <1>2, <1>3, HangsUpTypes
<1>4. CASE sock[c].sEnd = "open" /\ sock' = [sock EXCEPT ![c].sEnd = "closing"]
      BY <1>2, <1>4, ServerHangsUpTypes
<1>5. QED  BY <1>3, <1>4 DEF EndLearns

LEMMA ReceiveLogIs ==
    ASSUME Types, NEW c \in Sockets, ReceiveLog(c)
    PROVE  StepDoes /\ Types'
<1> USE DEF agentVars, bounds
<1> DEFINE a == sock[c].owner
           n == Head(up[c]).steps
<1>1. UNCHANGED <<agentVars, sock, down, entry, node, job, takenOff, bounds>>
      BY DEF ReceiveLog
<1>2. up[c] # <<>> /\ up' = [up EXCEPT ![c] = Tail(@)]  BY DEF ReceiveLog
<1>3. up' \in [Sockets -> Seq(UpMsg)] /\ \A d \in Sockets : d # c => up'[d] = up[d]
      BY <1>2, UpTail
<1>4. n \in 0..MaxLog
  <2>1. Head(up[c]) \in UpMsg  BY <1>2, HeadTailProperties DEF Types
  <2>2. Head(up[c]).type = "log"  BY DEF ReceiveLog
  <2>3. Head(up[c]) \in Snapshot  BY <2>1, <2>2 DEF UpMsg
  <2>4. n \in 1..MaxLog  BY <2>3 DEF Snapshot
  <2>5. QED  BY <2>4
<1>5. session' = IF session[a].bound /\ n > session[a].seen
                 THEN [session EXCEPT ![a].seen = n] ELSE session
      BY DEF ReceiveLog
<1> HIDE DEF n, a
<1>6. session' \in [Agents -> SessRecord]
  <2>1. CASE a \in Agents
    <3>1. session[a] \in SessRecord  BY <2>1 DEF Types
    <3>2. [session[a] EXCEPT !.seen = n] \in SessRecord  BY <1>4, <3>1 DEF SessRecord
    <3>3. QED  BY <1>5, <2>1, <3>2 DEF Types
  <2>2. CASE a \notin Agents
    <3>1. [session EXCEPT ![a].seen = n] = session  BY <2>2 DEF Types
    <3>2. QED  BY <1>5, <3>1 DEF Types
  <2>3. QED  BY <2>1, <2>2
<1>7. SockPut(c, sock[c].owner, sock[c].aEnd, sock[c].sEnd, sock[c].known, sock[c].reg)
      BY <1>1 DEF SockPut
<1>8. Takes(c)  BY <1>1, <1>2, <1>3, <1>7, Fields DEF Takes
<1>9. Types'  BY <1>1, <1>3, <1>6 DEF Types
<1>10. QED  BY <1>8, <1>9 DEF StepDoes

LEMMA ReceiveRegisterIs ==
    ASSUME Types, NEW c \in Sockets, ReceiveRegister(c)
    PROVE  StepDoes /\ Types'
<1> USE DEF agentVars, planeVars, bounds
<1>1. UNCHANGED <<agentVars, down, planeVars, bounds>>  BY DEF ReceiveRegister
<1>2. up[c] # <<>> /\ up' = [up EXCEPT ![c] = Tail(@)]  BY DEF ReceiveRegister
<1>3. up' \in [Sockets -> Seq(UpMsg)] /\ \A d \in Sockets : d # c => up'[d] = up[d]
      BY <1>2, UpTail
<1>4. "upsert" \in RegPcs  BY DEF RegPcs
<1>5. sock' \in [Sockets -> SockRecord]
      /\ SockPut(c, sock[c].owner, sock[c].aEnd, sock[c].sEnd, sock[c].known, "upsert")
  <2>1. sock' = [sock EXCEPT ![c].reg = "upsert"]  BY DEF ReceiveRegister
  <2>2. QED  BY <1>4, <2>1, SockRegistration
<1>6. Takes(c)  BY <1>1, <1>2, <1>3, <1>4, <1>5, Fields DEF Takes
<1>7. Types'  BY <1>1, <1>3, <1>5 DEF Types
<1>8. QED  BY <1>6, <1>7 DEF StepDoes

LEMMA ReceiveUnregisterIs ==
    ASSUME Types, NEW c \in Sockets, ReceiveUnregister(c)
    PROVE  StepDoes /\ Types'
<1> USE DEF agentVars, bounds
<1>1. UNCHANGED <<agentVars, down, entry, node, session, takenOff, bounds>>
      BY DEF ReceiveUnregister
<1>2. up[c] # <<>> /\ up' = [up EXCEPT ![c] = Tail(@)]  BY DEF ReceiveUnregister
<1>3. up' \in [Sockets -> Seq(UpMsg)] /\ \A d \in Sockets : d # c => up'[d] = up[d]
      BY <1>2, UpTail
<1>4. CASE sock[c].known
  <2>1. sock' = [sock EXCEPT ![c].known = FALSE] /\ job' = [job EXCEPT ![c] = "offline"]
        BY <1>4 DEF ReceiveUnregister
  <2>2. sock' \in [Sockets -> SockRecord]
        /\ SockPut(c, sock[c].owner, sock[c].aEnd, sock[c].sEnd, FALSE, sock[c].reg)
        BY <2>1, SockKnown
  <2>3. job' \in [Jobs -> JobPcs]  BY <2>1 DEF Types, Jobs, JobPcs
  <2>4. Takes(c)  BY <1>1, <1>2, <1>3, <1>4, <2>2, Fields DEF Takes
  <2>5. Types'  BY <1>1, <1>3, <2>2, <2>3 DEF Types
  <2>6. QED  BY <2>4, <2>5 DEF StepDoes
<1>5. CASE ~sock[c].known
  <2>1. UNCHANGED <<sock, job>>  BY <1>5 DEF ReceiveUnregister
  <2>2. SockPut(c, sock[c].owner, sock[c].aEnd, sock[c].sEnd, sock[c].known, sock[c].reg)
        BY <2>1 DEF SockPut
  <2>3. Takes(c)  BY <1>1, <1>2, <1>3, <2>2, Fields DEF Takes
  <2>4. Types'  BY <1>1, <1>3, <2>1 DEF Types
  <2>5. QED  BY <2>3, <2>4 DEF StepDoes
<1>6. QED  BY <1>4, <1>5

LEMMA RegMovesIs ==
    ASSUME Types, NEW c \in Sockets, Upsert(c) \/ UpsertFails(c) \/ Reconcile(c)
    PROVE  StepDoes /\ Types'
<1> USE DEF agentVars, planeVars, bounds
<1>1. PICK g \in RegPcs : sock' = [sock EXCEPT ![c].reg = g] /\ sock[c].reg # "idle"
      BY DEF Upsert, UpsertFails, Reconcile, RegPcs
<1>2. UNCHANGED <<queue, up, down, entry, session, job, takenOff, ops>>
      BY DEF Upsert, UpsertFails, Reconcile, Fault
<1>3. node' \in NodeRecord
  <2>1. [status |-> "online", fresh |-> TRUE] \in NodeRecord  BY DEF NodeRecord, Statuses
  <2>2. node' = node \/ node' = [status |-> "online", fresh |-> TRUE]
        BY DEF Upsert, UpsertFails, Reconcile
  <2>3. QED  BY <2>1, <2>2 DEF Types
<1>4. faults' \in 0..MaxFaults
      BY LinkAssumption DEF Upsert, UpsertFails, Reconcile, Fault, Types
<1>5. AgentsStay /\ agent' \in [Agents -> AgentRecord]
  <2>1. CASE agent' = agent  BY <2>1 DEF AgentsStay, Types
  <2>2. CASE Reconcile(c) /\ agent' # agent
    <3> DEFINE a == sock[entry.ws].owner
    <3>1. /\ entry.ws # NoSocket /\ agent[a].ws = entry.ws
          /\ agent' = [agent EXCEPT ![a].live = FALSE]
          BY <2>2 DEF Reconcile
    <3> HIDE DEF a
    <3>2. CASE a \in Agents  BY <3>1, <3>2, AgentLive
    <3>3. CASE a \notin Agents  BY <2>2, <3>1, <3>3 DEF Types
    <3>4. QED  BY <3>2, <3>3
  <2>3. QED  BY <2>1, <2>2 DEF Upsert, UpsertFails
<1>6. QED  BY <1>1, <1>2, <1>3, <1>4, <1>5, RegMovesTypes

LEMMA RejectIs ==
    ASSUME Types, NEW c \in Sockets, Reject(c)
    PROVE  StepDoes /\ Types'
<1> USE DEF agentVars, planeVars, bounds
<1> DEFINE e == IF sock[c].sEnd = "open" THEN "closing" ELSE sock[c].sEnd
           r == [sock[c] EXCEPT !.reg = "idle", !.sEnd = e]
<1>1. sock[c] \in SockRecord /\ sock[c].reg = "attach"  BY DEF Types, Reject
<1>2. r \in SockRecord  BY <1>1 DEF SockRecord, Ends, RegPcs
<1>3. /\ r.owner = sock[c].owner /\ r.aEnd = sock[c].aEnd /\ r.sEnd = e
      /\ r.known <=> sock[c].known
      /\ r.reg = "idle"
      BY <1>1 DEF SockRecord
<1>4. sock' = [sock EXCEPT ![c] = r]  BY DEF Reject, Types
<1>5. UNCHANGED <<agentVars, up, down, planeVars, bounds>>  BY DEF Reject
<1> HIDE DEF r
<1>6. sock' \in [Sockets -> SockRecord] /\ SockPut(c, r.owner, r.aEnd, r.sEnd, r.known, r.reg)
      BY <1>2, <1>4, SockWritten
<1>7. SockPut(c, sock[c].owner, sock[c].aEnd, e, sock[c].known, "idle")
      BY <1>3, <1>6 DEF SockPut
<1>8. Types'  BY <1>5, <1>6 DEF Types
<1>9. CASE sock[c].sEnd = "open"
  <2>1. ServerHangsUp(c)  BY <1>5, <1>7, <1>9 DEF ServerHangsUp
  <2>2. QED  BY <1>8, <2>1 DEF StepDoes
<1>10. CASE sock[c].sEnd # "open"
  <2>1. RegMoves(c)  BY <1>1, <1>5, <1>7, <1>10 DEF RegMoves, RegPcs, AgentsStay
  <2>2. QED  BY <1>8, <2>1 DEF StepDoes
<1>11. QED  BY <1>9, <1>10

LEMMA AttachIs ==
    ASSUME Types, NEW c \in Sockets, Attach(c)
    PROVE  StepDoes /\ Types'
<1> USE DEF agentVars, bounds
<1> DEFINE r(d) == WithAttached(c, d)
<1>1. sock' = [d \in Sockets |-> r(d)]  BY DEF Attach
<1>2. ASSUME NEW d \in Sockets
      PROVE  /\ r(d) \in SockRecord
             /\ r(d).owner = sock[d].owner /\ r(d).aEnd = sock[d].aEnd
             /\ r(d).sEnd = IF d # c /\ d = entry.ws /\ sock[d].sEnd = "open"
                            THEN "closing" ELSE sock[d].sEnd
             /\ r(d).known <=> (d = c \/ sock[d].known)
             /\ r(d).reg = IF d = c THEN "reconcile" ELSE sock[d].reg
  <2>1. sock[d] \in SockRecord  BY DEF Types
  <2>2. QED  BY <2>1 DEF WithAttached, SockRecord, RegPcs, Ends
<1> HIDE DEF r
<1>3. sock' \in [Sockets -> SockRecord]  BY <1>1, <1>2
<1>4. UNCHANGED <<agentVars, up, node, session, job, takenOff, bounds>>  BY DEF Attach
<1>5. entry' = [present |-> TRUE, ws |-> c, grace |-> FALSE] /\ sock[c].reg = "attach"
      BY DEF Attach
<1>6. entry' \in EntryRecord /\ entry'.ws = c /\ entry'.grace = FALSE
      BY <1>5 DEF EntryRecord
<1>7. down' \in [Sockets -> Seq(DownMsg)]
  <2>1. "registered" \in DownMsg  BY DEF DownMsg
  <2>2. down' = Down(c, "registered") \/ down' = down  BY DEF Attach
  <2>3. QED  BY <2>1, <2>2, DownType DEF Types
<1>8. Attaches(c)  BY <1>1, <1>2, <1>4, <1>5, <1>6 DEF Attaches
<1>9. Types'  BY <1>3, <1>4, <1>6, <1>7 DEF Types
<1>10. QED  BY <1>8, <1>9 DEF StepDoes

LEMMA ServerHangsUpIs ==
    ASSUME Types, NEW c \in Sockets, Unregistered(c) \/ PingTimeout(c)
    PROVE  StepDoes /\ Types'
<1>1. CASE PingTimeout(c)
      BY <1>1, ServerHangsUpTypes DEF PingTimeout, planeVars, Types
<1>2. CASE Unregistered(c)
  <2>1. job' \in [Jobs -> JobPcs]  BY <1>2 DEF Unregistered, Types, Jobs, JobPcs
  <2>2. UNCHANGED <<agentVars, up, entry, node, session, takenOff, bounds>>
        BY <1>2 DEF Unregistered
  <2>3. CASE sock[c].sEnd = "open"
    <3>1. "unregistered" \in DownMsg  BY DEF DownMsg
    <3>2. down' = Down(c, "unregistered") /\ sock' = [sock EXCEPT ![c].sEnd = "closing"]
          BY <1>2, <2>3 DEF Unregistered
    <3>3. QED  BY <2>1, <2>2, <2>3, <3>1, <3>2, DownType, ServerHangsUpTypes
  <2>4. CASE sock[c].sEnd # "open"
    <3>1. UNCHANGED <<down, sock>>  BY <1>2, <2>4 DEF Unregistered
    <3>2. Elsewhere  BY <2>2, <3>1 DEF Elsewhere, SocksStay, AgentsStay, agentVars
    <3>3. Types'  BY <2>1, <2>2, <3>1 DEF Types, agentVars, bounds
    <3>4. QED  BY <3>2, <3>3 DEF StepDoes
  <2>5. QED  BY <2>3, <2>4
<1>3. QED  BY <1>1, <1>2

LEMMA ServerClosedIs ==
    ASSUME Types, NEW c \in Sockets, ServerClosed(c)
    PROVE  StepDoes /\ Types'
<1> USE DEF agentVars, bounds
<1>1. sock' \in [Sockets -> SockRecord]
      /\ SockPut(c, sock[c].owner, sock[c].aEnd, "closed", sock[c].known, sock[c].reg)
  <2>1. "closed" \in Ends /\ sock' = [sock EXCEPT ![c].sEnd = "closed"]
        BY DEF ServerClosed, Ends
  <2>2. QED  BY <2>1, SockServerEnd
<1>2. up' = [up EXCEPT ![c] = <<>>] /\ sock[c].sEnd = "closing"  BY DEF ServerClosed
<1>3. up' \in [Sockets -> Seq(UpMsg)]  BY <1>2 DEF Types
<1>4. entry' \in EntryRecord
      /\ (entry' = entry \/ (entry.ws \in {c, NoSocket} /\ entry'.ws = NoSocket))
  <2>1. entry \in EntryRecord  BY DEF Types
  <2>2. entry' = entry \/ (/\ entry' = [entry EXCEPT !.ws = NoSocket, !.grace = TRUE]
                           /\ entry.ws \in {c, NoSocket})
        BY DEF ServerClosed
  <2>3. QED  BY <2>1, <2>2 DEF EntryRecord
<1>5. UNCHANGED <<agentVars, down, node, session, job, takenOff, bounds>>  BY DEF ServerClosed
<1>6. ServerCloses(c)  BY <1>1, <1>2, <1>4, <1>5 DEF ServerCloses
<1>7. Types'  BY <1>1, <1>3, <1>4, <1>5 DEF Types
<1>8. QED  BY <1>6, <1>7 DEF StepDoes

-----------------------------------------------------------------------------
(* The steps of the node.                                                  *)

LEMMA NoEntryType == NoEntry \in EntryRecord /\ NoEntry.ws = NoSocket /\ NoEntry.grace = FALSE
BY DEF NoEntry, EntryRecord

LEMMA FreshType ==
    ASSUME Types, NEW b \in BOOLEAN, NEW s \in Statuses
    PROVE  [node EXCEPT !.fresh = b] \in NodeRecord /\ [node EXCEPT !.status = s] \in NodeRecord
BY DEF Types, NodeRecord

\* What a node step may write without touching the route.
LEMMA ElsewhereTypes ==
    ASSUME Types, node' \in NodeRecord, job' \in [Jobs -> JobPcs], faults' \in 0..MaxFaults,
           session' \in [Agents -> SessRecord], down' \in [Sockets -> Seq(DownMsg)],
           takenOff' \in BOOLEAN, takenOff => takenOff',
           AgentsStay, agent' \in [Agents -> AgentRecord],
           UNCHANGED <<queue, sock, up, entry, ops>>
    PROVE  StepDoes /\ Types'
<1>1. Elsewhere  BY Fields DEF Elsewhere, SocksStay
<1>2. Types'  BY DEF Types
<1>3. QED  BY <1>1, <1>2 DEF StepDoes

LEMMA NodeElsewhereIs ==
    ASSUME Types, \/ HeartbeatAges \/ SweepSelects \/ Drain
                  \/ \E c \in Sockets : Heartbeat(c)
                  \/ \E j \in Jobs : SetOffline(j) \/ CrashRows(j)
    PROVE  StepDoes /\ Types'
<1> USE DEF agentVars, netVars, bounds
<1>1. UNCHANGED <<agent, queue, sock, up, entry, ops>>
      BY DEF HeartbeatAges, SweepSelects, Drain, Heartbeat, SetOffline, CrashRows, Fault
<1>2. AgentsStay /\ agent' \in [Agents -> AgentRecord]  BY <1>1 DEF AgentsStay, Types
<1>3. faults' \in 0..MaxFaults
      BY LinkAssumption
      DEF HeartbeatAges, SweepSelects, Drain, Heartbeat, SetOffline, CrashRows, Fault, Types
<1>4. node' \in NodeRecord
  <2>1. \/ node' = node \/ node' = [node EXCEPT !.fresh = TRUE]
        \/ node' = [node EXCEPT !.fresh = FALSE] \/ node' = [node EXCEPT !.status = "offline"]
        \/ node' = [node EXCEPT !.status = "draining"]
        BY DEF HeartbeatAges, SweepSelects, Drain, Heartbeat, SetOffline, CrashRows
  <2>2. "offline" \in Statuses /\ "draining" \in Statuses /\ TRUE \in BOOLEAN /\ FALSE \in BOOLEAN
        BY DEF Statuses
  <2>3. QED  BY <2>1, <2>2, FreshType DEF Types
<1>5. job' \in [Jobs -> JobPcs]
  <2>1. \/ job' = job
        \/ \E j \in Jobs : \E p \in JobPcs : job' = [job EXCEPT ![j] = p]
        BY DEF HeartbeatAges, SweepSelects, Drain, Heartbeat, SetOffline, CrashRows, Jobs, JobPcs
  <2>2. QED  BY <2>1 DEF Types
<1>6. session' \in [Agents -> SessRecord]
  <2>1. session' = session \/ session' = [a \in Agents |-> [session[a] EXCEPT !.row = FALSE]]
        BY DEF HeartbeatAges, SweepSelects, Drain, Heartbeat, SetOffline, CrashRows
  <2>2. \A a \in Agents : [session[a] EXCEPT !.row = FALSE] \in SessRecord
        BY DEF Types, SessRecord
  <2>3. QED  BY <2>1, <2>2 DEF Types
<1>7. down' \in [Sockets -> Seq(DownMsg)]
  <2>1. down' = down \/ (entry.ws \in Sockets /\ down' = Down(entry.ws, "drain"))
        BY Fields
             DEF HeartbeatAges, SweepSelects, Drain, Heartbeat, SetOffline, CrashRows, Attached
  <2>2. "drain" \in DownMsg  BY DEF DownMsg
  <2>3. QED  BY <2>1, <2>2, DownType DEF Types
<1>8. takenOff' \in BOOLEAN /\ (takenOff => takenOff')
  <2>1. takenOff' = takenOff \/ takenOff' = (takenOff \/ InService)
        BY DEF HeartbeatAges, SweepSelects, Drain, Heartbeat, SetOffline, CrashRows
  <2>2. QED  BY <2>1 DEF Types
<1>9. QED  BY <1>1, <1>2, <1>3, <1>4, <1>5, <1>6, <1>7, <1>8, ElsewhereTypes

LEMMA OpenSessionIs ==
    ASSUME Types, OpenSession
    PROVE  StepDoes /\ Types'
<1> USE DEF netVars, bounds
<1> DEFINE a == sock[entry.ws].owner
<1>1. UNCHANGED <<queue, netVars, entry, node, job, takenOff, bounds>>  BY DEF OpenSession
<1>2. /\ agent[a].ws = entry.ws /\ Attached
      /\ agent' = [agent EXCEPT ![a].live = TRUE]
      /\ session' = [session EXCEPT ![a].row = TRUE, ![a].bound = TRUE]
      BY DEF OpenSession
<1> HIDE DEF a
<1>3. AgentsStay /\ agent' \in [Agents -> AgentRecord]
  <2>1. CASE a \in Agents  BY <1>2, <2>1, AgentLive
  <2>2. CASE a \notin Agents
    <3>1. agent' = agent  BY <1>2, <2>2 DEF Types
    <3>2. QED  BY <3>1 DEF AgentsStay, Types
  <2>3. QED  BY <2>1, <2>2
<1>4. session' \in [Agents -> SessRecord]
  <2>1. CASE a \in Agents
    <3>1. [session[a] EXCEPT !.row = TRUE, !.bound = TRUE] \in SessRecord
          BY <2>1 DEF Types, SessRecord
    <3>2. QED  BY <1>2, <2>1, <3>1 DEF Types
  <2>2. CASE a \notin Agents  BY <1>2, <2>2 DEF Types
  <2>3. QED  BY <2>1, <2>2
<1>5. QED  BY <1>1, <1>3, <1>4, ElsewhereTypes DEF Types

LEMMA ForgetsIs ==
    ASSUME Types, GraceExpires \/ \E j \in Jobs : Purge(j)
    PROVE  StepDoes /\ Types'
<1> USE DEF agentVars, netVars, bounds
<1>1. CASE GraceExpires
  <2>1. /\ UNCHANGED <<agentVars, netVars, node, session, takenOff, bounds>>
        /\ entry' = NoEntry /\ entry.grace /\ job' = [job EXCEPT !["grace"] = "offline"]
        BY <1>1 DEF GraceExpires
  <2>2. Forgets  BY <2>1, NoEntryType DEF Forgets
  <2>3. job' \in [Jobs -> JobPcs]  BY <2>1 DEF Types, Jobs, JobPcs
  <2>4. Types'  BY <2>1, <2>3, NoEntryType DEF Types
  <2>5. QED  BY <2>2, <2>4 DEF StepDoes
<1>2. ASSUME NEW j \in Jobs, Purge(j)  PROVE StepDoes /\ Types'
  <2>1. /\ UNCHANGED <<agentVars, netVars, node, bounds>>
        /\ takenOff' = (takenOff \/ InService)
        /\ session' = [a \in Agents |-> [session[a] EXCEPT !.bound = FALSE]]
        BY <1>2 DEF Purge
  <2>2. job' \in [Jobs -> JobPcs]
    <3>1. \E p \in JobPcs : job' = [job EXCEPT ![j] = p]  BY <1>2 DEF Purge, JobPcs
    <3>2. QED  BY <3>1 DEF Types
  <2>3. session' \in [Agents -> SessRecord]
    <3>1. \A a \in Agents : [session[a] EXCEPT !.bound = FALSE] \in SessRecord
          BY DEF Types, SessRecord
    <3>2. QED  BY <2>1, <3>1
  <2>4. takenOff' \in BOOLEAN /\ (takenOff => takenOff') /\ (takenOff' \/ ~InService)
        BY <2>1 DEF Types
  <2>5. entry' = entry \/ entry' = NoEntry  BY <1>2 DEF Purge
  <2>6. Types'  BY <2>1, <2>2, <2>3, <2>4, <2>5, NoEntryType DEF Types
  <2>7. CASE entry' = entry
    <3>1. Elsewhere  BY <2>1, <2>4, <2>7 DEF Elsewhere, SocksStay, AgentsStay
    <3>2. QED  BY <2>6, <3>1 DEF StepDoes
  <2>8. CASE entry' = NoEntry
    <3>1. Forgets  BY <2>1, <2>4, <2>8, NoEntryType DEF Forgets
    <3>2. QED  BY <2>6, <3>1 DEF StepDoes
  <2>9. QED  BY <2>5, <2>7, <2>8
<1>3. QED  BY <1>1, <1>2

LEMMA RestartIs ==
    ASSUME Types, Restart
    PROVE  StepDoes /\ Types'
<1> USE DEF agentVars
<1> DEFINE r(d) == WithoutServer(d)
<1>1. sock' = [d \in Sockets |-> r(d)]  BY DEF Restart
<1>2. ASSUME NEW d \in Sockets
      PROVE  /\ r(d) \in SockRecord
             /\ r(d).owner = sock[d].owner /\ r(d).aEnd = sock[d].aEnd
            
               /\ r(d).sEnd = IF sock[d].sEnd \in {"open", "closing"} THEN "closed" ELSE sock[d].sEnd
             /\ r(d).known = FALSE /\ r(d).reg = "idle"
  <2>1. sock[d] \in SockRecord  BY DEF Types
  <2>2. QED  BY <2>1 DEF WithoutServer, SockRecord, RegPcs, Ends
<1> HIDE DEF r
<1>3. sock' \in [Sockets -> SockRecord]  BY <1>1, <1>2
<1>4. /\ UNCHANGED <<agentVars, down, node, takenOff, ops>>
      /\ entry' = NoEntry /\ up' = [c \in Sockets |-> <<>>]
      /\ job' = [j \in DOMAIN job |-> "idle"]
      /\ session' = [a \in Agents |-> [session[a] EXCEPT !.bound = FALSE]]
      BY DEF Restart, Fault
<1>5. faults' \in 0..MaxFaults  BY LinkAssumption DEF Restart, Fault, Types
<1>6. job' \in [Jobs -> JobPcs]  BY <1>4 DEF Types, JobPcs
<1>7. session' \in [Agents -> SessRecord]
  <2>1. \A a \in Agents : [session[a] EXCEPT !.bound = FALSE] \in SessRecord
        BY DEF Types, SessRecord
  <2>2. QED  BY <1>4, <2>1
<1>8. up' \in [Sockets -> Seq(UpMsg)]  BY <1>4
<1>9. Restarts  BY <1>1, <1>2, <1>4, NoEntryType DEF Restarts
<1>10. Types'  BY <1>3, <1>4, <1>5, <1>6, <1>7, <1>8, NoEntryType DEF Types
<1>11. QED  BY <1>9, <1>10 DEF StepDoes

-----------------------------------------------------------------------------
LEMMA NextDoes ==
    ASSUME RouteInv, Next
    PROVE  StepDoes /\ Types'
<1>1. Types /\ \A a \in Agents : AgentEnd(a)  BY DEF RouteInv
<1>2. ASSUME NEW a \in Agents, AgentStep(a)  PROVE StepDoes /\ Types'
      BY <1>1, <1>2, ConnectIs, SocketOpensIs, AgentClosesIs, SocketClosedIs, GetRegisteredIs,
         SaysIs, AgentElsewhereIs, StopIs
      DEF AgentStep
<1>3. ASSUME NEW c \in Sockets, SocketStep(c)  PROVE StepDoes /\ Types'
      BY <1>1, <1>3, BreaksIs, EndLearnsIs, ReceiveLogIs, ReceiveRegisterIs, RegMovesIs,
         RejectIs, AttachIs, ReceiveUnregisterIs, ServerHangsUpIs, ServerClosedIs,
         NodeElsewhereIs
      DEF SocketStep
<1>4. DOMAIN job = Jobs  BY <1>1 DEF Types
<1>5. CASE NodeStep
      BY <1>1, <1>4, <1>5, NodeElsewhereIs, ForgetsIs, OpenSessionIs, RestartIs DEF NodeStep
<1>6. QED  BY <1>2, <1>3, <1>5 DEF Next

LEMMA RouteInvInit ==
    ASSUME Init
    PROVE  RouteInv
<1> USE DEF Init
<1>1. Types
  <2>1. agent \in [Agents -> AgentRecord]  BY LinkAssumption DEF AgentRecord, Started
  <2>2. queue \in [Agents -> Seq(Snapshot)] /\ \A a \in Agents : Len(queue[a]) <= QueueMax
        BY LinkAssumption
  <2>3. sock \in [Sockets -> SockRecord]  BY DEF SockRecord, NewSock, Ends, RegPcs
  <2>4. up \in [Sockets -> Seq(UpMsg)] /\ down \in [Sockets -> Seq(DownMsg)]  OBVIOUS
  <2>5. entry \in EntryRecord  BY NoEntryType
  <2>6. node \in NodeRecord  BY DEF NodeRecord, Statuses
  <2>7. session \in [Agents -> SessRecord]  BY LinkAssumption DEF SessRecord
  <2>8. job \in [Jobs -> JobPcs] /\ takenOff \in BOOLEAN /\ ops \in Scenarios  BY DEF JobPcs
  <2>9. faults \in 0..MaxFaults  BY LinkAssumption
  <2>10. QED  BY <2>1, <2>2, <2>3, <2>4, <2>5, <2>6, <2>7, <2>8, <2>9 DEF Types
<1>2. GraceIsLoose  BY NoEntryType DEF GraceIsLoose
<1>3. ASSUME NEW c \in Sockets  PROVE Wires(c) /\ Opening(c) /\ Routed(c)
      BY <1>3 DEF Wires, Opening, Routed, NewSock
<1>4. ASSUME NEW a \in Agents  PROVE AgentEnd(a)
      BY <1>4 DEF AgentEnd
<1>5. QED  BY <1>1, <1>2, <1>3, <1>4 DEF RouteInv

LEMMA RouteInvStep ==
    ASSUME RouteInv, [Next]_vars
    PROVE  RouteInv'
<1>1. CASE Next
  <2>1. StepDoes /\ Types'  BY <1>1, NextDoes
  <2>2. QED
        BY <2>1, WiresKept, OpeningKept, RoutedKept, AgentEndKept, GraceIsLooseKept DEF RouteInv
<1>2. CASE UNCHANGED vars
      BY <1>2 DEF RouteInv, vars, agentVars, netVars, planeVars, bounds, Types, Wires, Opening,
                  Routed, AgentEnd, GraceIsLoose, InService
<1>3. QED  BY <1>1, <1>2

LEMMA RouteInvHolds == Spec => []RouteInv
<1>1. Init => RouteInv  BY RouteInvInit
<1>2. RouteInv /\ [Next]_vars => RouteInv'  BY RouteInvStep
<1>3. QED  BY <1>1, <1>2, PTL DEF Spec

\* While a client is registered on an open connection nothing waits in its buffer
\* (ws-client.js flushPending), for any number of processes, sockets and failures.
THEOREM LinkBufferEmpty == Spec => []LinkInv
<1>1. RouteInv => LinkInv
  <2>1. Types => TypeOK
        BY DEF Types, TypeOK, AgentRecord, SockRecord, EntryRecord, NodeRecord, SessRecord
  <2>2. RouteInv => NothingStranded  BY DEF RouteInv, AgentEnd, NothingStranded, AgentOpen
  <2>3. QED  BY <2>1, <2>2 DEF LinkInv, RouteInv
<1>2. QED  BY <1>1, RouteInvHolds, PTL

\* A socket the registry has identified and that is still open is the route of the
\* node (executor-registry.js attach, executor-ws.js close handler), unless the node was
\* taken off while in service.
THEOREM LinkRouted == Spec => []KnownIsRouted
<1>1. RouteInv => KnownIsRouted  BY DEF RouteInv, Routed, KnownIsRouted
<1>2. QED  BY <1>1, RouteInvHolds, PTL
=============================================================================
