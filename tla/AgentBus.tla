------------------------------ MODULE AgentBus ------------------------------
(***************************************************************************)
(* The message bus daemon, scripts/agent_bus.py: one asyncio process with  *)
(* a handler task for every connection of its Unix socket.  The tasks run  *)
(* in turns: a frame is read, its method changes the registry and writes   *)
(* to other connections without giving up the turn, and only the drain     *)
(* after the reply lets other tasks in.                                    *)
(*                                                                         *)
(* The clients are the environment: each plays a script of frames, closes  *)
(* its end when it likes, and need not read what it is sent.               *)
(***************************************************************************)
EXTENDS Sequences, SequencesExt

CONSTANTS
  Conn,      \* connections, in the order of no importance
  Agent,     \* values of agent_id
  Pattern,   \* topics one can subscribe to: [path, wild]
  Scripts,   \* Scripts[c]: the sequences of frames the client of c may send
  NoConn, NoAgent

ASSUME NoneAssumption == NoConn \notin Conn /\ NoAgent \notin Agent

\* The frames that clients send.
Frame == UNION {{s[i] : i \in DOMAIN s} : s \in UNION {Scripts[c] : c \in Conn}}

ASSUME FrameAssumption ==
  /\ \A c \in Conn : Scripts[c] \subseteq Seq(Frame)
  /\ \A f \in Frame :
       /\ f.method = "register" => f.agent \in Agent
       /\ f.method = "subscribe" => f.topics \subseteq Pattern
       /\ f.method = "send" => f.to \in Agent

\* A client that registers does so once.
RegistersOnce(s) ==
  \A i, j \in DOMAIN s : s[i].method = "register" /\ s[j].method = "register" => i = j

VARIABLES
  peer,           \* the client's end: "none", "open" or "closed"
  script,         \* frames the client has still to send
  inbox,          \* frames sent and not read by the handler
  task,           \* the handler: "none", "reading", "draining" or "done"
  transport,      \* "up", or "lost" after a write met a closed end
  clients,        \* MessageBroker.clients: agent_id to connection
  writers_to_id,  \* MessageBroker.writers_to_id: connection to agent_id
  subscriptions,  \* MessageBroker.subscriptions: pattern to agent_ids
  acked,          \* history: <<agent_id, pattern>> the client was told it has
  got,            \* history: events and messages that reached the client
  shared          \* history: agent_ids registered while another had them

vars == <<peer, script, inbox, task, transport, clients, writers_to_id,
          subscriptions, acked, got, shared>>
history == <<acked, got, shared>>
registry == <<clients, writers_to_id, subscriptions>>
client == <<peer, script>>

TypeOK ==
  /\ peer \in [Conn -> {"none", "open", "closed"}]
  /\ task \in [Conn -> {"none", "reading", "draining", "done"}]
  /\ transport \in [Conn -> {"up", "lost"}]
  /\ clients \in [Agent -> Conn \cup {NoConn}]
  /\ writers_to_id \in [Conn -> Agent \cup {NoAgent}]
  /\ subscriptions \in [Pattern -> SUBSET Agent]
  /\ acked \in [Conn -> SUBSET (Agent \X Pattern)]
  /\ shared \subseteq Agent

Init ==
  /\ peer = [c \in Conn |-> "none"]
  /\ script = [c \in Conn |-> <<>>]
  /\ inbox = [c \in Conn |-> <<>>]
  /\ task = [c \in Conn |-> "none"]
  /\ transport = [c \in Conn |-> "up"]
  /\ clients = [a \in Agent |-> NoConn]
  /\ writers_to_id = [c \in Conn |-> NoAgent]
  /\ subscriptions = [p \in Pattern |-> {}]
  /\ acked = [c \in Conn |-> {}]
  /\ got = [c \in Conn |-> {}]
  /\ shared = {}

-----------------------------------------------------------------------------
(* Helpers *)

\* A topic is the sequence of its dotted segments.  A pattern matches the
\* topic it spells, and "ns.*" also "ns" and whatever starts with "ns.".
Matches(p, topic) ==
  \/ ~p.wild /\ p.path = topic
  \/ p.wild /\ IsPrefix(p.path, topic)

\* Mutant: the loop ends at the first pattern that matches.
Targets_FirstOnly(topic, c) ==
  LET hits == {p \in Pattern : Matches(p, topic)} IN
  {a \in Agent : /\ clients[a] \notin {NoConn, c}
                 /\ hits # {} /\ a \in subscriptions[CHOOSE p \in hits : TRUE]}

\* Mutant: is_match is not reset for the next pattern.
Targets_NoReset(topic, c) ==
  {a \in Agent : /\ clients[a] \notin {NoConn, c}
                 /\ \E p \in Pattern : Matches(p, topic)
                 /\ \E p \in Pattern : a \in subscriptions[p]}

\* The agent_ids an event goes to.  One subscribed by two patterns that match
\* is written to twice; a set does not tell.
Targets(topic, c) ==
  {a \in Agent : /\ clients[a] \notin {NoConn, c}
                 /\ \E p \in Pattern : Matches(p, topic) /\ a \in subscriptions[p]}

Event(topic, a) == [kind |-> "event", topic |-> topic, to |-> a]
Message(a) == [kind |-> "message", to |-> a]

\* A write reaches a client whose end is open and whose handler runs.
Reaches(d) == task[d] \in {"reading", "draining"} /\ peer[d] = "open"
                /\ transport[d] = "up"

\* asyncio notices a closed end when it writes, not before (external).
WriteTo(D) ==
  transport' = [d \in Conn |-> IF d \in D /\ peer[d] = "closed"
                               THEN "lost" ELSE transport[d]]

\* Each item is written to the connection of the agent_id it is for.
Deliver(items) ==
  got' = [d \in Conn |-> got[d] \cup
            {i \in items : clients[i.to] = d /\ Reaches(d)}]

\* Mutant: whoever has the agent_id now is unregistered.
Unregister_AnyOwner(c) ==
  LET a == writers_to_id[c] IN
  /\ writers_to_id' = [writers_to_id EXCEPT ![c] = NoAgent]
  /\ clients' = IF a # NoAgent THEN [clients EXCEPT ![a] = NoConn] ELSE clients
  /\ subscriptions' = [p \in Pattern |-> subscriptions[p] \ {a}]

\* Mutant: the subscriptions are not cleaned up.
Unregister_KeepsSubscriptions(c) ==
  LET a == writers_to_id[c]
      owner == a # NoAgent /\ clients[a] = c
  IN /\ writers_to_id' = [writers_to_id EXCEPT ![c] = NoAgent]
     /\ clients' = IF owner THEN [clients EXCEPT ![a] = NoConn] ELSE clients
     /\ UNCHANGED subscriptions

\* Mutant: the registration stays.
Unregister_KeepsClient(c) ==
  /\ writers_to_id' = [writers_to_id EXCEPT ![c] = NoAgent]
  /\ UNCHANGED <<clients, subscriptions>>

\* MessageBroker.unregister: the registration goes only if the connection
\* still owns it, and the subscriptions of the agent_id go with it.
Unregister(c) ==
  LET a == writers_to_id[c]
      owner == a # NoAgent /\ clients[a] = c
  IN /\ writers_to_id' = [writers_to_id EXCEPT ![c] = NoAgent]
     /\ clients' = IF owner THEN [clients EXCEPT ![a] = NoConn] ELSE clients
     /\ subscriptions' = IF owner
                         THEN [p \in Pattern |-> subscriptions[p] \ {a}]
                         ELSE subscriptions

\* Mutant: the handler has no finally block.
EndTask_NoFinally(c) ==
  /\ task' = [task EXCEPT ![c] = "done"]
  /\ UNCHANGED registry

\* The finally block of handle_client; what was not read is never read.
EndTask(c) ==
  /\ Unregister(c)
  /\ task' = [task EXCEPT ![c] = "done"]

\* handle_client has read a frame whose method is m.
Reads(c, m) ==
  /\ task[c] = "reading"
  /\ inbox[c] # <<>>
  /\ Head(inbox[c]).method = m
  /\ inbox' = [inbox EXCEPT ![c] = Tail(@)]

\* The frame was answered and the task awaits the drain of the answer.
Answers(c) == task' = [task EXCEPT ![c] = "draining"]

-----------------------------------------------------------------------------
(* The clients *)

Connect(c) ==
  /\ peer[c] = "none"
  /\ peer' = [peer EXCEPT ![c] = "open"]
  /\ \E s \in Scripts[c] : script' = [script EXCEPT ![c] = s]
  /\ task' = [task EXCEPT ![c] = "reading"]
  /\ UNCHANGED <<inbox, transport, registry, history>>

SendFrame(c) ==
  /\ peer[c] = "open"
  /\ script[c] # <<>>
  /\ script' = [script EXCEPT ![c] = Tail(@)]
  /\ inbox' = [inbox EXCEPT ![c] = Append(@, Head(script[c]))]
  /\ UNCHANGED <<peer, task, transport, registry, history>>

\* A client that leaves answers unread resets the connection.
Disconnect(c) ==
  /\ peer[c] = "open"
  /\ peer' = [peer EXCEPT ![c] = "closed"]
  /\ script' = [script EXCEPT ![c] = <<>>]
  /\ \/ UNCHANGED transport
     \/ /\ acked[c] # {} \/ got[c] # {} \/ writers_to_id[c] # NoAgent
        /\ transport' = [transport EXCEPT ![c] = "lost"]
  /\ UNCHANGED <<inbox, task, registry, history>>

-----------------------------------------------------------------------------
(* The handlers: process_rpc and handle_client *)

Register(c) ==
  LET a == Head(inbox[c]).agent IN
  /\ Reads(c, "register")
  /\ clients' = [clients EXCEPT ![a] = c]
  /\ writers_to_id' = [writers_to_id EXCEPT ![c] = a]
  /\ shared' = shared \cup {b \in {a} : \E d \in Conn \ {c} : writers_to_id[d] = b}
  /\ WriteTo({c})
  /\ Answers(c)
  /\ UNCHANGED <<client, subscriptions, acked, got>>

\* Mutant: the set of a topic is made anew by each subscriber.
Subscribe_Overwrites(c) ==
  LET topics == Head(inbox[c]).topics
      a == writers_to_id[c]
  IN
  /\ Reads(c, "subscribe")
  /\ subscriptions' = [p \in Pattern |-> IF p \in topics /\ a # NoAgent
                         THEN {a} ELSE subscriptions[p]]
  /\ acked' = [acked EXCEPT ![c] = IF a = NoAgent THEN @ ELSE @ \cup ({a} \X topics)]
  /\ WriteTo({c})
  /\ Answers(c)
  /\ UNCHANGED <<client, clients, writers_to_id, got, shared>>

\* An unregistered client is told the same, and nothing is stored for it.
Subscribe(c) ==
  LET topics == Head(inbox[c]).topics
      a == writers_to_id[c]
  IN
  /\ Reads(c, "subscribe")
  /\ subscriptions' = IF a = NoAgent THEN subscriptions
                      ELSE [p \in Pattern |-> IF p \in topics
                              THEN subscriptions[p] \cup {a}
                              ELSE subscriptions[p]]
  /\ acked' = [acked EXCEPT ![c] = IF a = NoAgent THEN @ ELSE @ \cup ({a} \X topics)]
  /\ WriteTo({c})
  /\ Answers(c)
  /\ UNCHANGED <<client, clients, writers_to_id, got, shared>>

Publish(c) ==
  LET topic == Head(inbox[c]).topic IN
  /\ Reads(c, "publish")
  /\ Deliver({Event(topic, a) : a \in Targets(topic, c)})
  /\ WriteTo({clients[a] : a \in Targets(topic, c)} \cup {c})
  /\ Answers(c)
  /\ UNCHANGED <<client, registry, acked, shared>>

\* The answer says delivered when the recipient has a registration.
Send(c) ==
  LET to == Head(inbox[c]).to IN
  /\ Reads(c, "send")
  /\ Deliver({Message(to)})
  /\ WriteTo({clients[to], c})
  /\ Answers(c)
  /\ UNCHANGED <<client, registry, acked, shared>>

\* ping, an unknown method, bad JSON: an answer and nothing else.
AnswerOther(c) ==
  /\ Reads(c, "other")
  /\ WriteTo({c})
  /\ Answers(c)
  /\ UNCHANGED <<client, registry, history>>

\* A line beyond the reader's limit, or params that are no object: the
\* handler leaves its loop.
ReadFatal(c) ==
  /\ Reads(c, "fatal")
  /\ EndTask(c)
  /\ UNCHANGED <<client, transport, history>>

Drained(c) ==
  /\ task[c] = "draining"
  /\ transport[c] = "up"
  /\ task' = [task EXCEPT ![c] = "reading"]
  /\ UNCHANGED <<client, inbox, transport, registry, history>>

\* drain or readline raises on a lost connection.
Aborted(c) ==
  /\ task[c] \in {"reading", "draining"}
  /\ transport[c] = "lost"
  /\ EndTask(c)
  /\ UNCHANGED <<client, inbox, transport, history>>

ReadEof(c) ==
  /\ task[c] = "reading"
  /\ transport[c] = "up"
  /\ peer[c] = "closed"
  /\ inbox[c] = <<>>
  /\ EndTask(c)
  /\ UNCHANGED <<client, inbox, transport, history>>

\* The daemon dies, or is stopped, and a new one takes the socket over: the
\* registry was in memory only, and every open connection is closed.
Restart ==
  /\ clients' = [a \in Agent |-> NoConn]
  /\ writers_to_id' = [c \in Conn |-> NoAgent]
  /\ subscriptions' = [p \in Pattern |-> {}]
  /\ peer' = [c \in Conn |-> IF peer[c] = "open" THEN "closed" ELSE peer[c]]
  /\ task' = [c \in Conn |-> IF task[c] = "none" THEN "none" ELSE "done"]
  /\ script' = [c \in Conn |-> <<>>]
  /\ inbox' = [c \in Conn |-> <<>>]
  /\ UNCHANGED <<transport, history>>

HandlerStep(c) ==
  \/ Register(c) \/ Subscribe(c) \/ Publish(c) \/ Send(c) \/ AnswerOther(c)
  \/ ReadFatal(c) \/ Drained(c) \/ Aborted(c) \/ ReadEof(c)

ClientStep(c) == Connect(c) \/ SendFrame(c) \/ Disconnect(c)

Next == Restart \/ \E c \in Conn : ClientStep(c) \/ HandlerStep(c)

Spec == Init /\ [][Next]_vars

\* The event loop gives every handler that can go on its turn.
FairSpec == Spec /\ \A c \in Conn : WF_vars(HandlerStep(c))

-----------------------------------------------------------------------------
(* Properties *)

\* Nobody is registered under a connection whose handler has ended: a send
\* would answer "delivered" for good (agent_bus.py:197-217, 244-251).
NoDeadClients ==
  \A a \in Agent : clients[a] # NoConn =>
    task[clients[a]] \in {"reading", "draining"}

\* The two maps agree: the connection registered under an agent_id is one
\* that knows itself by that agent_id, so unregister will find it.
MapsAgree ==
  \A a \in Agent : clients[a] # NoConn => writers_to_id[clients[a]] = a

BusInv == TypeOK /\ MapsAgree

\* Subscriptions belong to registered agents: nothing is left behind for a
\* later client to inherit.  (Not so when two connections share an agent_id.)
NoOrphanSubscriptions ==
  \A p \in Pattern : \A a \in subscriptions[p] \ shared : clients[a] # NoConn

\* What a client was told it has subscribed to is what the broker has, as
\* long as the agent_id is its own.
AckedIsStored ==
  \A c \in Conn : Reaches(c) => \A s \in acked[c] :
    clients[s[1]] = c => s[1] \in subscriptions[s[2]]

\* Events come only to agents that asked for them, on this connection or on
\* the one it took the agent_id over from.
OnlyWhatWasAsked ==
  \A c \in Conn : \A e \in got[c] : e.kind = "event" =>
    \E d \in Conn : \E s \in acked[d] : s[1] = e.to /\ Matches(s[2], e.topic)

\* A published event reaches every client that was told it has a matching
\* subscription, is still there and has kept its agent_id
\* (agent_bus.py:166-180).
PublishReaches ==
  [][\A c, d \in Conn : Publish(c) /\ d # c /\ Reaches(d) =>
       LET topic == Head(inbox[c]).topic IN
       \A s \in acked[d] : Matches(s[2], topic) /\ clients[s[1]] = d
         => Event(topic, s[1]) \in got'[d]]_vars

\* A registration ends only with its own connection, or when another takes
\* the agent_id: the late clean-up of a dead connection never removes the
\* registration of the client that reconnected (agent_bus.py:248).
SuccessorSurvives ==
  [][\A a \in Agent : (clients[a] # NoConn /\ clients'[a] = NoConn)
       => task'[clients[a]] = "done"]_vars

\* A connection the client closed is out of the registry in the end.
ClosedIsForgotten ==
  \A c \in Conn : peer[c] = "closed" ~>
    \A a \in Agent : clients[a] # c

\* Every frame a client sent before it closed was read.
EveryFrameIsRead ==
  \A c \in Conn : task[c] = "done" => inbox[c] = <<>>
=============================================================================
