--------------------------- MODULE AgentBusProofs ---------------------------
(***************************************************************************)
(* Proofs about the bus daemon, for any connections, agents, patterns and  *)
(* scripts of the clients, and any number of restarts.                     *)
(***************************************************************************)
EXTENDS AgentBus, SequenceTheorems, TLAPS

-----------------------------------------------------------------------------
(* Types *)

\* TypeOK, and what the clients have sent and have still to send.
BusType ==
  /\ TypeOK
  /\ inbox \in [Conn -> Seq(Frame)]
  /\ script \in [Conn -> Seq(Frame)]

\* What a handler has read.
LEMMA FrameRead ==
  ASSUME BusType, NEW c \in Conn, NEW m, Reads(c, m)
  PROVE  /\ Head(inbox[c]) \in Frame /\ Head(inbox[c]).method = m
         /\ inbox' \in [Conn -> Seq(Frame)]
         /\ task[c] = "reading" /\ inbox[c] # <<>>
<1>1. inbox[c] \in Seq(Frame) /\ inbox[c] # <<>>
  BY DEF BusType, Reads
<1>2. Head(inbox[c]) \in Frame /\ Tail(inbox[c]) \in Seq(Frame)
  BY <1>1, HeadTailProperties
<1> QED
  BY <1>1, <1>2 DEF Reads, BusType

\* The end of a handler: whose registration goes, and what with it.
LEMMA TaskEnds ==
  ASSUME TypeOK, NEW c \in Conn, EndTask(c)
  PROVE  /\ task' = [task EXCEPT ![c] = "done"]
         /\ writers_to_id' = [writers_to_id EXCEPT ![c] = NoAgent]
         /\ \/ /\ writers_to_id[c] # NoAgent /\ clients[writers_to_id[c]] = c
               /\ clients' = [clients EXCEPT ![writers_to_id[c]] = NoConn]
               /\ subscriptions' = [p \in Pattern |-> subscriptions[p] \ {writers_to_id[c]}]
            \/ /\ ~(writers_to_id[c] # NoAgent /\ clients[writers_to_id[c]] = c)
               /\ UNCHANGED <<clients, subscriptions>>
BY DEF EndTask, Unregister

\* What a handler leaves behind it is of the right type.
LEMMA TaskEndTypes ==
  ASSUME TypeOK, NEW c \in Conn, EndTask(c)
  PROVE  /\ task' \in [Conn -> {"none", "reading", "draining", "done"}]
         /\ clients' \in [Agent -> Conn \cup {NoConn}]
         /\ writers_to_id' \in [Conn -> Agent \cup {NoAgent}]
         /\ subscriptions' \in [Pattern -> SUBSET Agent]
BY TaskEnds DEF TypeOK

\* The state that TypeOK describes is kept by every step.
LEMMA BusTypeStep == BusType /\ [Next]_vars => BusType'
<1> SUFFICES ASSUME BusType, [Next]_vars PROVE BusType'
  OBVIOUS
<1>0. TypeOK /\ inbox \in [Conn -> Seq(Frame)] /\ script \in [Conn -> Seq(Frame)]
  BY DEF BusType
<1>w. \A D : WriteTo(D) => transport' \in [Conn -> {"up", "lost"}]
  BY <1>0 DEF WriteTo, TypeOK
<1>1. ASSUME NEW c \in Conn, Connect(c)
      PROVE  BusType'
  <2>1. PICK s \in Scripts[c] : script' = [script EXCEPT ![c] = s]
    BY <1>1 DEF Connect
  <2>2. s \in Seq(Frame)
    BY FrameAssumption
  <2> QED
    BY <1>0, <1>1, <2>1, <2>2 DEF Connect, BusType, TypeOK, registry, history
<1>2. ASSUME NEW c \in Conn, SendFrame(c)
      PROVE  BusType'
  <2>1. script[c] \in Seq(Frame) /\ script[c] # <<>> /\ inbox[c] \in Seq(Frame)
    BY <1>0, <1>2 DEF SendFrame
  <2>2. /\ Head(script[c]) \in Frame /\ Tail(script[c]) \in Seq(Frame)
        /\ Append(inbox[c], Head(script[c])) \in Seq(Frame)
    BY <2>1, HeadTailProperties, AppendProperties
  <2> QED
    BY <1>0, <1>2, <2>2 DEF SendFrame, BusType, TypeOK, registry, history
<1>3. ASSUME NEW c \in Conn, Disconnect(c)
      PROVE  BusType'
  <2>1. transport' \in [Conn -> {"up", "lost"}] /\ peer' \in [Conn -> {"none", "open", "closed"}]
    BY <1>0, <1>3 DEF Disconnect, TypeOK
  <2>2. script' \in [Conn -> Seq(Frame)]
    <3>1. <<>> \in Seq(Frame)
      BY EmptySeq
    <3> QED
      BY <1>0, <1>3, <3>1 DEF Disconnect
  <2> QED
    BY <1>0, <1>3, <2>1, <2>2 DEF Disconnect, BusType, TypeOK, registry, history
<1>4. ASSUME NEW c \in Conn, Register(c)
      PROVE  BusType'
  <2>1. /\ Head(inbox[c]).agent \in Agent /\ inbox' \in [Conn -> Seq(Frame)]
    BY <1>4, FrameRead, FrameAssumption DEF Register
  <2>2. transport' \in [Conn -> {"up", "lost"}]
    BY <1>4, <1>w DEF Register
  <2> QED
    BY <1>0, <1>4, <2>1, <2>2 DEF Register, Answers, BusType, TypeOK, client
<1>5. ASSUME NEW c \in Conn, Subscribe(c)
      PROVE  BusType'
  <2>1. /\ Head(inbox[c]).topics \subseteq Pattern /\ inbox' \in [Conn -> Seq(Frame)]
    BY <1>5, FrameRead, FrameAssumption DEF Subscribe
  <2>2. transport' \in [Conn -> {"up", "lost"}]
    BY <1>5, <1>w DEF Subscribe
  <2>3. writers_to_id[c] # NoAgent => writers_to_id[c] \in Agent
    BY <1>0 DEF TypeOK
  <2>4. subscriptions' \in [Pattern -> SUBSET Agent] /\ acked' \in [Conn -> SUBSET (Agent \X Pattern)]
    BY <1>0, <1>5, <2>1, <2>3 DEF Subscribe, TypeOK
  <2> QED
    BY <1>0, <1>5, <2>1, <2>2, <2>4 DEF Subscribe, Answers, BusType, TypeOK, client
<1>6. ASSUME NEW c \in Conn, Publish(c) \/ Send(c) \/ AnswerOther(c)
      PROVE  BusType'
  <2>1. inbox' \in [Conn -> Seq(Frame)]
    BY <1>6, FrameRead DEF Publish, Send, AnswerOther
  <2>2. transport' \in [Conn -> {"up", "lost"}]
    BY <1>6, <1>w DEF Publish, Send, AnswerOther
  <2> QED
    BY <1>0, <1>6, <2>1, <2>2
    DEF Publish, Send, AnswerOther, Answers, BusType, TypeOK, client, registry, history
<1>7. ASSUME NEW c \in Conn, ReadFatal(c) \/ Aborted(c) \/ ReadEof(c)
      PROVE  BusType'
  <2>1. inbox' \in [Conn -> Seq(Frame)]
    BY <1>0, <1>7, FrameRead DEF ReadFatal, Aborted, ReadEof
  <2>2. EndTask(c) /\ UNCHANGED <<client, transport, history>>
    BY <1>7 DEF ReadFatal, Aborted, ReadEof
  <2> QED
    BY <1>0, <2>1, <2>2, TaskEndTypes DEF BusType, TypeOK, client, history
<1>8. ASSUME NEW c \in Conn, Drained(c)
      PROVE  BusType'
  BY <1>0, <1>8 DEF Drained, BusType, TypeOK, client, registry, history
<1>9. CASE Restart
  <2>1. inbox' \in [Conn -> Seq(Frame)] /\ script' \in [Conn -> Seq(Frame)]
    <3>1. <<>> \in Seq(Frame)
      BY EmptySeq
    <3> QED
      BY <1>9, <3>1 DEF Restart
  <2> QED
    BY <1>0, <1>9, <2>1 DEF Restart, BusType, TypeOK, history
<1>10. CASE UNCHANGED vars
  BY <1>10 DEF vars, BusType, TypeOK
<1> QED
  BY <1>1, <1>2, <1>3, <1>4, <1>5, <1>6, <1>7, <1>8, <1>9, <1>10 DEF Next, ClientStep, HandlerStep

\* A daemon that has just started is in such a state.
LEMMA BusTypeInit == Init => BusType
<1>1. <<>> \in Seq(Frame)
  BY EmptySeq
<1> QED
  BY <1>1 DEF Init, BusType, TypeOK

\* The registry and what the clients see of it are as the daemon's tables say
\* (MessageBroker, agent_bus.py).
THEOREM TypeCorrect == Spec => []TypeOK
<1>1. BusType => TypeOK
  BY DEF BusType
<1> QED
  BY <1>1, BusTypeInit, BusTypeStep, PTL DEF Spec

-----------------------------------------------------------------------------
(* Whatever the clients send *)

\* What is stored or was delivered was asked for by somebody.
Asked ==
  /\ \A p \in Pattern : \A a \in subscriptions[p] : \E d \in Conn : <<a, p>> \in acked[d]
  /\ OnlyWhatWasAsked

\* What a step tells clients they have, they keep.
LEMMA AskedMore ==
  ASSUME TypeOK, Asked, TypeOK', UNCHANGED got,
         \A d \in Conn : acked[d] \subseteq acked'[d],
         \A p \in Pattern : \A a \in subscriptions'[p] :
           a \in subscriptions[p] \/ \E d \in Conn : <<a, p>> \in acked'[d]
  PROVE  Asked'
<1>1. \A p \in Pattern : \A a \in subscriptions'[p] : \E d \in Conn : <<a, p>> \in acked'[d]
  BY DEF Asked
<1>2. OnlyWhatWasAsked'
  BY DEF Asked, OnlyWhatWasAsked
<1> QED
  BY <1>1, <1>2 DEF Asked

\* No step delivers what nobody asked for.
LEMMA AskedStep == BusType /\ Asked /\ [Next]_vars => Asked'
<1> SUFFICES ASSUME BusType, Asked, [Next]_vars PROVE Asked'
  OBVIOUS
<1>0. TypeOK /\ TypeOK'
  BY BusTypeStep DEF BusType
<1>1. ASSUME NEW c \in Conn, Subscribe(c)
      PROVE  Asked'
  <2> DEFINE a == writers_to_id[c]
             topics == Head(inbox[c]).topics
  <2>1. /\ acked' = [acked EXCEPT ![c] = IF a = NoAgent THEN @ ELSE @ \cup ({a} \X topics)]
        /\ subscriptions' = IF a = NoAgent THEN subscriptions
             ELSE [p \in Pattern |-> IF p \in topics THEN subscriptions[p] \cup {a} ELSE subscriptions[p]]
        /\ UNCHANGED got
    BY <1>1 DEF Subscribe
  <2> HIDE DEF a, topics
  <2>2. \A d \in Conn : acked[d] \subseteq acked'[d]
    BY <1>0, <2>1 DEF TypeOK
  <2>3. ASSUME NEW p \in Pattern, NEW b \in subscriptions'[p], b \notin subscriptions[p]
        PROVE  <<b, p>> \in acked'[c]
    <3>1. a # NoAgent /\ p \in topics /\ b = a
      BY <2>1, <2>3
    <3>2. acked'[c] = acked[c] \cup ({a} \X topics)
      BY <1>0, <2>1, <3>1 DEF TypeOK
    <3> QED
      BY <3>1, <3>2
  <2> QED
    BY <1>0, <2>1, <2>2, <2>3, AskedMore
<1>2. ASSUME NEW c \in Conn, Publish(c)
      PROVE  Asked'
  <2> DEFINE topic == Head(inbox[c]).topic
  <2>1. ASSUME NEW d \in Conn, NEW e \in got'[d], e \notin got[d]
        PROVE  \E b \in Agent : e = Event(topic, b) /\
                 \E p \in Pattern : Matches(p, topic) /\ b \in subscriptions[p]
    BY <1>2, <2>1 DEF Publish, Deliver, Targets
  <2>2. UNCHANGED <<acked, subscriptions>>
    BY <1>2 DEF Publish, registry
  <2> HIDE DEF topic
  <2>3. ASSUME NEW d \in Conn, NEW e \in got'[d], e.kind = "event"
        PROVE  \E f \in Conn : \E s \in acked[f] : s[1] = e.to /\ Matches(s[2], e.topic)
    <3>1. CASE e \in got[d]
      BY <2>3, <3>1 DEF Asked, OnlyWhatWasAsked
    <3>2. CASE e \notin got[d]
      <4>1. PICK b \in Agent : e = Event(topic, b) /\
              \E p \in Pattern : Matches(p, topic) /\ b \in subscriptions[p]
        BY <2>1, <3>2
      <4>2. PICK p \in Pattern : Matches(p, topic) /\ b \in subscriptions[p]
        BY <4>1
      <4>3. PICK f \in Conn : <<b, p>> \in acked[f]
        BY <4>2 DEF Asked
      <4>4. e.to = b /\ e.topic = topic
        BY <4>1 DEF Event
      <4> QED
        BY <4>2, <4>3, <4>4
    <3> QED
      BY <3>1, <3>2
  <2> QED
    BY <2>2, <2>3 DEF Asked, OnlyWhatWasAsked
<1>3. ASSUME NEW c \in Conn, Send(c)
      PROVE  Asked'
  <2>1. UNCHANGED <<acked, subscriptions>>
    BY <1>3 DEF Send, registry
  <2>2. \A d \in Conn : \A e \in got'[d] : e \in got[d] \/ e.kind = "message"
    BY <1>3 DEF Send, Deliver, Message
  <2> QED
    BY <2>1, <2>2 DEF Asked, OnlyWhatWasAsked
<1>4. ASSUME NEW c \in Conn, ReadFatal(c) \/ Aborted(c) \/ ReadEof(c)
      PROVE  Asked'
  <2>1. EndTask(c) /\ UNCHANGED history
    BY <1>4 DEF ReadFatal, Aborted, ReadEof
  <2>2. \A p \in Pattern : subscriptions'[p] \subseteq subscriptions[p]
    BY <1>0, <2>1, TaskEnds
  <2> QED
    BY <1>0, <2>1, <2>2, AskedMore DEF history
<1>5. CASE Restart
  <2>1. \A p \in Pattern : subscriptions'[p] = {}
    BY <1>5 DEF Restart
  <2> QED
    BY <1>0, <1>5, <2>1, AskedMore DEF Restart, history
<1>6. CASE UNCHANGED <<acked, got, subscriptions>>
  BY <1>0, <1>6, AskedMore
<1>7. ASSUME NEW c \in Conn,
             ClientStep(c) \/ Register(c) \/ AnswerOther(c) \/ Drained(c)
      PROVE  UNCHANGED <<acked, got, subscriptions>>
  BY <1>7 DEF ClientStep, Connect, SendFrame, Disconnect, Register, AnswerOther, Drained,
    registry, history
<1> QED
  BY <1>1, <1>2, <1>3, <1>4, <1>5, <1>6, <1>7 DEF Next, HandlerStep, vars

\* Whatever clients send, reuse and leave behind, an event reaches only agents
\* whose client was told that it has a subscription that matches (process_rpc,
\* publish).
THEOREM EventsWereAsked == Spec => []OnlyWhatWasAsked
<1> DEFINE I == BusType /\ Asked
<1>1. Init => I
  BY BusTypeInit DEF Init, Asked, OnlyWhatWasAsked
<1>2. I /\ [Next]_vars => I'
  BY BusTypeStep, AskedStep
<1>3. I => OnlyWhatWasAsked
  BY DEF Asked
<1> QED
  BY <1>1, <1>2, <1>3, PTL DEF Spec

\* An agent_id that one connection at a time has used is its connection's, and a
\* handler has begun on each that is registered.
OwnName ==
  /\ \A a \in Agent, c \in Conn :
       writers_to_id[c] = a /\ a \notin shared => clients[a] = c
  /\ NoOrphanSubscriptions
  /\ \A a \in Agent : clients[a] # NoConn => task[clients[a]] # "none"

\* A step that leaves the registry and starts handlers at most.
LEMMA OwnNameKept ==
  ASSUME TypeOK, OwnName, UNCHANGED <<registry, shared>>,
         \A c \in Conn : task'[c] = "none" => task[c] = "none"
  PROVE  OwnName'
BY DEF TypeOK, OwnName, NoOrphanSubscriptions, registry

\* No step leaves a subscription of nobody's.
LEMMA OwnNameStep == BusType /\ OwnName /\ [Next]_vars => OwnName'
<1> SUFFICES ASSUME BusType, OwnName, [Next]_vars PROVE OwnName'
  OBVIOUS
<1>0. TypeOK /\ TypeOK'
  BY BusTypeStep DEF BusType
<1>1. ASSUME NEW c \in Conn, Register(c)
      PROVE  OwnName'
  <2> DEFINE a == Head(inbox[c]).agent
  <2>1. a \in Agent
    BY <1>1, FrameRead, FrameAssumption DEF Register
  <2>2. /\ clients' = [clients EXCEPT ![a] = c]
        /\ writers_to_id' = [writers_to_id EXCEPT ![c] = a]
        /\ shared' = shared \cup {b \in {a} : \E d \in Conn \ {c} : writers_to_id[d] = b}
        /\ task' = [task EXCEPT ![c] = "draining"]
        /\ UNCHANGED subscriptions
    BY <1>1 DEF Register, Answers
  <2> HIDE DEF a
  <2>3. ASSUME NEW b \in Agent, NEW d \in Conn, writers_to_id'[d] = b, b \notin shared'
        PROVE  clients'[b] = d
    BY <1>0, <2>1, <2>2, <2>3 DEF OwnName, TypeOK
  <2>4. NoOrphanSubscriptions'
    BY <1>0, <2>1, <2>2, NoneAssumption DEF OwnName, NoOrphanSubscriptions, TypeOK
  <2>5. \A b \in Agent : clients'[b] # NoConn => task'[clients'[b]] # "none"
    BY <1>0, <2>1, <2>2 DEF OwnName, TypeOK
  <2> QED
    BY <2>3, <2>4, <2>5 DEF OwnName
<1>2. ASSUME NEW c \in Conn, Subscribe(c)
      PROVE  OwnName'
  <2>1. /\ \A p \in Pattern : \A a \in subscriptions'[p] : a \in subscriptions[p] \/ a = writers_to_id[c]
        /\ UNCHANGED <<clients, writers_to_id, shared>>
        /\ \A d \in Conn : task'[d] = "none" => task[d] = "none"
    BY <1>0, <1>2 DEF Subscribe, Answers, TypeOK
  <2>2. NoOrphanSubscriptions'
    <3> SUFFICES ASSUME NEW p \in Pattern, NEW a \in subscriptions'[p] \ shared'
                 PROVE  clients'[a] # NoConn
      BY DEF NoOrphanSubscriptions
    <3>1. a \in Agent
      BY <1>0 DEF TypeOK
    <3> QED
      BY <1>0, <2>1, <3>1, NoneAssumption DEF OwnName, NoOrphanSubscriptions
  <2> QED
    BY <1>0, <2>1, <2>2 DEF OwnName, TypeOK
<1>3. ASSUME NEW c \in Conn, ReadFatal(c) \/ Aborted(c) \/ ReadEof(c)
      PROVE  OwnName'
  <2>1. EndTask(c) /\ UNCHANGED shared
    BY <1>3 DEF ReadFatal, Aborted, ReadEof, history
  <2> DEFINE a == writers_to_id[c]
  <2>2. /\ writers_to_id' = [writers_to_id EXCEPT ![c] = NoAgent]
        /\ task' = [task EXCEPT ![c] = "done"]
    BY <1>0, <2>1, TaskEnds
  <2>3. CASE /\ a # NoAgent /\ clients[a] = c
             /\ clients' = [clients EXCEPT ![a] = NoConn]
             /\ subscriptions' = [p \in Pattern |-> subscriptions[p] \ {a}]
    <3>1. a \in Agent
      BY <1>0, <2>3 DEF TypeOK
    <3> HIDE DEF a
    <3>2. \A b \in Agent, d \in Conn : writers_to_id'[d] = b /\ b \notin shared' => clients'[b] = d
      BY <1>0, <2>1, <2>2, <2>3, <3>1, NoneAssumption DEF OwnName, TypeOK
    <3>3. NoOrphanSubscriptions'
      BY <1>0, <2>1, <2>3, <3>1 DEF OwnName, NoOrphanSubscriptions, TypeOK
    <3>4. \A b \in Agent : clients'[b] # NoConn => task'[clients'[b]] # "none"
      BY <1>0, <2>2, <2>3, <3>1 DEF OwnName, TypeOK
    <3> QED
      BY <3>2, <3>3, <3>4 DEF OwnName
  <2>4. CASE UNCHANGED <<clients, subscriptions>>
    <3>1. \A b \in Agent, d \in Conn : writers_to_id'[d] = b /\ b \notin shared' => clients'[b] = d
      BY <1>0, <2>1, <2>2, <2>4, NoneAssumption DEF OwnName, TypeOK
    <3>2. NoOrphanSubscriptions'
      BY <2>1, <2>4 DEF OwnName, NoOrphanSubscriptions
    <3>3. \A b \in Agent : clients'[b] # NoConn => task'[clients'[b]] # "none"
      BY <1>0, <2>2, <2>4 DEF OwnName, TypeOK
    <3> QED
      BY <3>1, <3>2, <3>3 DEF OwnName
  <2> QED
    BY <1>0, <2>1, <2>3, <2>4, TaskEnds
<1>4. CASE Restart
  <2>1. /\ \A a \in Agent : clients'[a] = NoConn
        /\ \A c \in Conn : writers_to_id'[c] = NoAgent
        /\ \A p \in Pattern : subscriptions'[p] = {}
    BY <1>4 DEF Restart
  <2> QED
    BY <2>1, NoneAssumption DEF OwnName, NoOrphanSubscriptions
<1>5. ASSUME NEW c \in Conn,
             ClientStep(c) \/ Publish(c) \/ Send(c) \/ AnswerOther(c) \/ Drained(c)
      PROVE  OwnName'
  <2>1. UNCHANGED <<registry, shared>>
    BY <1>5 DEF ClientStep, Connect, SendFrame, Disconnect, Publish, Send, AnswerOther, Drained, history
  <2>2. \A d \in Conn : task'[d] = "none" => task[d] = "none"
    BY <1>0, <1>5 DEF ClientStep, Connect, SendFrame, Disconnect, Publish, Send, AnswerOther,
      Drained, Answers, TypeOK
  <2> QED
    BY <1>0, <2>1, <2>2, OwnNameKept
<1>6. CASE UNCHANGED vars
  BY <1>0, <1>6, OwnNameKept DEF vars, registry
<1> QED
  BY <1>1, <1>2, <1>3, <1>4, <1>5, <1>6 DEF Next, HandlerStep

\* Even with clients that change their agent_id, no subscription outlives its
\* agent, unless two connections shared the agent_id (unregister).
THEOREM NoOrphans == Spec => []NoOrphanSubscriptions
<1> DEFINE I == BusType /\ OwnName
<1>1. Init => I
  BY BusTypeInit, NoneAssumption DEF Init, OwnName, NoOrphanSubscriptions
<1>2. I /\ [Next]_vars => I'
  BY BusTypeStep, OwnNameStep
<1>3. I => NoOrphanSubscriptions
  BY DEF OwnName
<1> QED
  BY <1>1, <1>2, <1>3, PTL DEF Spec

\* The clean-up of a connection removes no registration but its own, whatever
\* clients reconnect meanwhile (unregister, agent_bus.py).
THEOREM SuccessorIsKept == Spec => SuccessorSurvives
<1> DEFINE I == BusType /\ OwnName
           A == \A a \in Agent : (clients[a] # NoConn /\ clients'[a] = NoConn)
                  => task'[clients[a]] = "done"
<1>1. Init => I
  BY BusTypeInit, NoneAssumption DEF Init, OwnName, NoOrphanSubscriptions
<1>2. I /\ [Next]_vars => I'
  BY BusTypeStep, OwnNameStep
<1>3. I /\ [Next]_vars => A
  <2> SUFFICES ASSUME I, [Next]_vars, NEW a \in Agent, clients[a] # NoConn, clients'[a] = NoConn
               PROVE  task'[clients[a]] = "done"
    OBVIOUS
  <2>0. TypeOK
    BY DEF BusType
  <2>1. CASE Restart
    BY <2>0, <2>1 DEF Restart, OwnName, TypeOK
  <2>2. ASSUME NEW c \in Conn, ReadFatal(c) \/ Aborted(c) \/ ReadEof(c)
        PROVE  task'[clients[a]] = "done"
    <3>1. EndTask(c)
      BY <2>2 DEF ReadFatal, Aborted, ReadEof
    <3> QED
      BY <2>0, <3>1, TaskEnds DEF TypeOK
  <2>3. ASSUME NEW c \in Conn, Register(c)
        PROVE  FALSE
    BY <2>0, <2>3, NoneAssumption DEF Register, TypeOK
  <2>4. CASE UNCHANGED clients
    BY <2>4
  <2>5. ASSUME NEW c \in Conn,
               ClientStep(c) \/ Subscribe(c) \/ Publish(c) \/ Send(c) \/ AnswerOther(c) \/ Drained(c)
        PROVE  UNCHANGED clients
    BY <2>5 DEF ClientStep, Connect, SendFrame, Disconnect, Subscribe, Publish, Send, AnswerOther,
      Drained, registry
  <2> QED
    BY <2>1, <2>2, <2>3, <2>4, <2>5 DEF Next, HandlerStep, vars
<1> QED
  BY <1>1, <1>2, <1>3, PTL DEF Spec, SuccessorSurvives

-----------------------------------------------------------------------------
(* Clients that register once *)

EachRegistersOnce == \A c \in Conn : \A s \in Scripts[c] : RegistersOnce(s)

NoneIn(s) == \A i \in DOMAIN s : s[i].method # "register"

\* A client whose registration the daemon has read has no other before it.
Once ==
  \A c \in Conn :
    /\ RegistersOnce(inbox[c]) /\ RegistersOnce(script[c])
    /\ NoneIn(inbox[c]) \/ NoneIn(script[c])
    /\ acked[c] # {} \/ writers_to_id[c] # NoAgent => NoneIn(inbox[c]) /\ NoneIn(script[c])
    /\ peer[c] = "none" => inbox[c] = <<>> /\ acked[c] = {} /\ writers_to_id[c] = NoAgent

\* No frames.
LEMMA NoFrames == RegistersOnce(<<>>) /\ NoneIn(<<>>)
BY DEF RegistersOnce, NoneIn

\* What is left after the first frame.
LEMMA FramesLeft ==
  ASSUME NEW s \in Seq(Frame), s # <<>>
  PROVE  /\ RegistersOnce(s) => RegistersOnce(Tail(s))
         /\ RegistersOnce(s) /\ Head(s).method = "register" => NoneIn(Tail(s))
         /\ NoneIn(s) => NoneIn(Tail(s)) /\ Head(s).method # "register"
<1>1. /\ Head(s) = s[1] /\ Len(s) \in Nat \ {0} /\ DOMAIN s = 1..Len(s)
      /\ DOMAIN Tail(s) = 1..(Len(s) - 1)
      /\ \A i \in 1..(Len(s) - 1) : Tail(s)[i] = s[i + 1]
  BY HeadTailProperties, LenProperties, EmptySeq
<1>2. 1 \in DOMAIN s /\ \A i \in DOMAIN Tail(s) :
        i + 1 \in DOMAIN s /\ i + 1 # 1 /\ Tail(s)[i] = s[i + 1]
  BY <1>1
<1>3. \A i, j \in DOMAIN Tail(s) : i + 1 = j + 1 => i = j
  BY <1>1
<1>4. RegistersOnce(s) => RegistersOnce(Tail(s))
  BY <1>2, <1>3 DEF RegistersOnce
<1>5. RegistersOnce(s) /\ Head(s).method = "register" => NoneIn(Tail(s))
  BY <1>1, <1>2 DEF RegistersOnce, NoneIn
<1>6. NoneIn(s) => NoneIn(Tail(s)) /\ Head(s).method # "register"
  BY <1>1, <1>2 DEF NoneIn
<1> QED
  BY <1>4, <1>5, <1>6

\* One frame more.
LEMMA FrameAdded ==
  ASSUME NEW s \in Seq(Frame), NEW f \in Frame
  PROVE  /\ NoneIn(s) => RegistersOnce(Append(s, f))
         /\ f.method # "register" =>
              /\ RegistersOnce(s) => RegistersOnce(Append(s, f))
              /\ NoneIn(s) => NoneIn(Append(s, f))
<1> DEFINE t == Append(s, f)
<1>1. /\ Len(s) \in Nat /\ DOMAIN s = 1..Len(s) /\ DOMAIN t = 1..(Len(s) + 1)
      /\ \A i \in 1..Len(s) : t[i] = s[i]
      /\ t[Len(s) + 1] = f
  BY AppendProperties, LenProperties
<1> HIDE DEF t
<1>2. \A i \in DOMAIN t : (i = Len(s) + 1 /\ t[i] = f) \/ (i \in DOMAIN s /\ t[i] = s[i])
  BY <1>1
<1>3. NoneIn(s) => RegistersOnce(t)
  BY <1>2 DEF NoneIn, RegistersOnce
<1>4. f.method # "register" /\ RegistersOnce(s) => RegistersOnce(t)
  BY <1>2 DEF RegistersOnce
<1>5. f.method # "register" /\ NoneIn(s) => NoneIn(t)
  BY <1>2 DEF NoneIn
<1> QED
  BY <1>3, <1>4, <1>5 DEF t

\* A frame that is read, of a method other than register or of that.
LEMMA OnceRead ==
  ASSUME BusType, Once, NEW c \in Conn, NEW m, Reads(c, m), UNCHANGED client,
         \A d \in Conn \ {c} : acked'[d] = acked[d] /\ writers_to_id'[d] = writers_to_id[d],
         acked'[c] # {} \/ writers_to_id'[c] # NoAgent =>
           m = "register" \/ acked[c] # {} \/ writers_to_id[c] # NoAgent
  PROVE  Once'
<1>1. /\ inbox' = [inbox EXCEPT ![c] = Tail(@)] /\ inbox[c] \in Seq(Frame) /\ inbox[c] # <<>>
      /\ Head(inbox[c]).method = m
      /\ inbox \in [Conn -> Seq(Frame)]
      /\ UNCHANGED <<peer, script>>
  BY DEF Reads, BusType, client
<1>2. /\ RegistersOnce(inbox[c]) => RegistersOnce(Tail(inbox[c]))
      /\ RegistersOnce(inbox[c]) /\ m = "register" => NoneIn(Tail(inbox[c]))
      /\ NoneIn(inbox[c]) => NoneIn(Tail(inbox[c])) /\ m # "register"
  BY <1>1, FramesLeft
<1>3. ASSUME NEW d \in Conn
      PROVE  /\ RegistersOnce(inbox'[d]) /\ RegistersOnce(script'[d])
             /\ NoneIn(inbox'[d]) \/ NoneIn(script'[d])
             /\ acked'[d] # {} \/ writers_to_id'[d] # NoAgent => NoneIn(inbox'[d]) /\ NoneIn(script'[d])
             /\ peer'[d] = "none" => inbox'[d] = <<>> /\ acked'[d] = {} /\ writers_to_id'[d] = NoAgent
  <2>1. CASE d = c
    BY <1>1, <1>2, <2>1 DEF Once
  <2>2. CASE d # c
    BY <1>1, <2>2 DEF Once
  <2> QED
    BY <2>1, <2>2
<1> QED
  BY <1>3 DEF Once, RegistersOnce, NoneIn

\* A step that reads nothing and registers nobody.
LEMMA OnceKept ==
  ASSUME Once, UNCHANGED <<inbox, script, acked>>,
         \A c \in Conn : peer'[c] = "none" => peer[c] = "none",
         \A c \in Conn : writers_to_id'[c] \in {writers_to_id[c], NoAgent}
  PROVE  Once'
BY DEF Once

\* No client comes to register twice.
LEMMA OnceStep ==
  ASSUME EachRegistersOnce, BusType, Once, [Next]_vars
  PROVE  Once'
<1>0. /\ TypeOK /\ inbox \in [Conn -> Seq(Frame)] /\ script \in [Conn -> Seq(Frame)]
  BY DEF BusType
<1>1. ASSUME NEW c \in Conn, Connect(c)
      PROVE  Once'
  <2>1. PICK s \in Scripts[c] : script' = [script EXCEPT ![c] = s]
    BY <1>1 DEF Connect
  <2>2. RegistersOnce(s) /\ peer[c] = "none" /\ peer' = [peer EXCEPT ![c] = "open"]
        /\ UNCHANGED <<inbox, acked, writers_to_id>>
    BY <1>1 DEF Connect, registry, history, EachRegistersOnce
  <2>3. inbox[c] = <<>> /\ acked[c] = {} /\ writers_to_id[c] = NoAgent
    BY <2>2 DEF Once
  <2> QED
    BY <1>0, <2>1, <2>2, <2>3, NoFrames DEF Once, TypeOK
<1>2. ASSUME NEW c \in Conn, SendFrame(c)
      PROVE  Once'
  <2> DEFINE f == Head(script[c])
             rest == Tail(script[c])
             more == Append(inbox[c], f)
  <2>1. /\ script[c] \in Seq(Frame) /\ script[c] # <<>> /\ inbox[c] \in Seq(Frame)
        /\ peer[c] = "open"
        /\ script' = [script EXCEPT ![c] = rest]
        /\ inbox' = [inbox EXCEPT ![c] = more]
        /\ UNCHANGED <<peer, acked, writers_to_id>>
    BY <1>0, <1>2 DEF SendFrame, registry, history
  <2>2. f \in Frame
    BY <2>1, HeadTailProperties
  <2>3. /\ RegistersOnce(script[c]) => RegistersOnce(rest)
        /\ RegistersOnce(script[c]) /\ f.method = "register" => NoneIn(rest)
        /\ NoneIn(script[c]) => NoneIn(rest) /\ f.method # "register"
    BY <2>1, FramesLeft
  <2> HIDE DEF f, rest
  <2>4. /\ NoneIn(inbox[c]) => RegistersOnce(more)
        /\ f.method # "register" =>
             /\ RegistersOnce(inbox[c]) => RegistersOnce(more)
             /\ NoneIn(inbox[c]) => NoneIn(more)
    BY <2>1, <2>2, FrameAdded
  <2> HIDE DEF more
  <2>5. /\ RegistersOnce(more) /\ RegistersOnce(rest) /\ (NoneIn(more) \/ NoneIn(rest))
        /\ acked[c] # {} \/ writers_to_id[c] # NoAgent => NoneIn(more) /\ NoneIn(rest)
    BY <2>3, <2>4 DEF Once
  <2> QED
    BY <1>0, <2>1, <2>5 DEF Once
<1>3. ASSUME NEW c \in Conn, Disconnect(c)
      PROVE  Once'
  BY <1>0, <1>3, NoFrames DEF Disconnect, Once, TypeOK, registry, history
<1>4. ASSUME NEW c \in Conn, Register(c) \/ Publish(c) \/ Send(c) \/ AnswerOther(c)
      PROVE  Once'
  <2>1. CASE Register(c)
    <3>1. /\ Reads(c, "register") /\ UNCHANGED client
          /\ \A d \in Conn \ {c} : acked'[d] = acked[d] /\ writers_to_id'[d] = writers_to_id[d]
      BY <1>0, <2>1 DEF Register, TypeOK
    <3> QED
      BY <3>1, OnceRead
  <2>2. CASE ~Register(c)
    <3>1. PICK m \in {"publish", "send", "other"} : Reads(c, m)
      BY <1>4, <2>2 DEF Publish, Send, AnswerOther
    <3>2. UNCHANGED <<client, acked, writers_to_id>>
      BY <1>4, <2>2 DEF Publish, Send, AnswerOther, registry, history
    <3> QED
      BY <3>1, <3>2, OnceRead
  <2> QED
    BY <2>1, <2>2
<1>5. ASSUME NEW c \in Conn, Subscribe(c)
      PROVE  Once'
  <2>1. /\ Reads(c, "subscribe") /\ UNCHANGED <<client, writers_to_id>>
        /\ \A d \in Conn \ {c} : acked'[d] = acked[d]
        /\ writers_to_id[c] = NoAgent => acked'[c] = acked[c]
    BY <1>0, <1>5 DEF Subscribe, TypeOK
  <2> QED
    BY <2>1, OnceRead
<1>6. ASSUME NEW c \in Conn, ReadFatal(c)
      PROVE  Once'
  <2>1. /\ Reads(c, "fatal") /\ UNCHANGED <<client, acked>>
        /\ writers_to_id' = [writers_to_id EXCEPT ![c] = NoAgent]
    BY <1>0, <1>6, TaskEnds DEF ReadFatal, history
  <2> QED
    BY <1>0, <2>1, OnceRead DEF TypeOK
<1>7. ASSUME NEW c \in Conn, Aborted(c) \/ ReadEof(c)
      PROVE  Once'
  <2>1. /\ EndTask(c) /\ UNCHANGED <<peer, inbox, script, acked>>
    BY <1>7 DEF Aborted, ReadEof, client, history
  <2>2. writers_to_id' = [writers_to_id EXCEPT ![c] = NoAgent]
    BY <1>0, <2>1, TaskEnds
  <2> QED
    BY <1>0, <2>1, <2>2, OnceKept DEF TypeOK
<1>8. CASE Restart
  <2>1. \A c \in Conn : /\ inbox'[c] = <<>> /\ script'[c] = <<>> /\ writers_to_id'[c] = NoAgent
                        /\ peer'[c] = "none" => peer[c] = "none"
                        /\ acked'[c] = acked[c]
    BY <1>8 DEF Restart, history
  <2> QED
    BY <2>1, NoFrames DEF Once
<1>9. ASSUME NEW c \in Conn, Drained(c)
      PROVE  Once'
  BY <1>9, OnceKept DEF Drained, client, registry, history
<1>10. CASE UNCHANGED vars
  BY <1>10, OnceKept DEF vars
<1> QED
  BY <1>1, <1>2, <1>3, <1>4, <1>5, <1>6, <1>7, <1>8, <1>9, <1>10 DEF Next, ClientStep, HandlerStep

\* The registry is that of live connections, and has what they were told.
Consistent ==
  /\ MapsAgree /\ NoDeadClients
  /\ \A c \in Conn : \A s \in acked[c] : clients[s[1]] = c => s[1] \in subscriptions[s[2]]

\* A step that leaves the registry and ends no handler.
LEMMA ConsistentKept ==
  ASSUME TypeOK, Consistent, UNCHANGED <<registry, acked>>,
         \A c \in Conn : task[c] \in {"reading", "draining"} => task'[c] \in {"reading", "draining"}
  PROVE  Consistent'
BY DEF TypeOK, Consistent, MapsAgree, NoDeadClients, registry

\* No step leaves a registration whose connection is gone or somebody else's.
LEMMA ConsistentStep ==
  ASSUME BusType, Once, Consistent, [Next]_vars
  PROVE  Consistent'
<1>0. TypeOK /\ TypeOK'
  BY BusTypeStep DEF BusType
<1>1. ASSUME NEW c \in Conn, Register(c)
      PROVE  Consistent'
  <2> DEFINE a == Head(inbox[c]).agent
  <2>1. a \in Agent
    BY <1>1, FrameRead, FrameAssumption DEF Register
  <2>2. acked[c] = {} /\ writers_to_id[c] = NoAgent
    <3>1. inbox[c] \in Seq(Frame) /\ inbox[c] # <<>> /\ Head(inbox[c]).method = "register"
      BY <1>1 DEF Register, Reads, BusType
    <3> QED
      BY <3>1, FramesLeft DEF Once
  <2>3. /\ clients' = [clients EXCEPT ![a] = c]
        /\ writers_to_id' = [writers_to_id EXCEPT ![c] = a]
        /\ task' = [task EXCEPT ![c] = "draining"]
        /\ UNCHANGED <<subscriptions, acked>>
    BY <1>1 DEF Register, Answers
  <2> HIDE DEF a
  <2>4. MapsAgree'
    BY <1>0, <2>1, <2>2, <2>3, NoneAssumption DEF Consistent, MapsAgree, TypeOK
  <2>5. NoDeadClients'
    BY <1>0, <2>1, <2>3 DEF Consistent, NoDeadClients, TypeOK
  <2>6. ASSUME NEW d \in Conn, NEW s \in acked'[d], clients'[s[1]] = d
        PROVE  s[1] \in subscriptions'[s[2]]
    <3>1. s \in acked[d] /\ d # c /\ s[1] \in Agent
      BY <1>0, <2>2, <2>3, <2>6 DEF TypeOK
    <3>2. clients[s[1]] = d
      BY <1>0, <2>1, <2>3, <2>6, <3>1 DEF TypeOK
    <3> QED
      BY <2>3, <3>1, <3>2 DEF Consistent
  <2> QED
    BY <2>4, <2>5, <2>6 DEF Consistent
<1>2. ASSUME NEW c \in Conn, Subscribe(c)
      PROVE  Consistent'
  <2> DEFINE a == writers_to_id[c]
             topics == Head(inbox[c]).topics
  <2>1. /\ acked' = [acked EXCEPT ![c] = IF a = NoAgent THEN @ ELSE @ \cup ({a} \X topics)]
        /\ subscriptions' = IF a = NoAgent THEN subscriptions
             ELSE [p \in Pattern |-> IF p \in topics THEN subscriptions[p] \cup {a} ELSE subscriptions[p]]
        /\ UNCHANGED <<clients, writers_to_id>>
        /\ task' = [task EXCEPT ![c] = "draining"]
    BY <1>2 DEF Subscribe, Answers
  <2> HIDE DEF a, topics
  <2>2. MapsAgree' /\ NoDeadClients'
    BY <1>0, <2>1 DEF Consistent, MapsAgree, NoDeadClients, TypeOK
  <2>3. ASSUME NEW d \in Conn, NEW s \in acked'[d], clients'[s[1]] = d
        PROVE  s[1] \in subscriptions'[s[2]]
    <3>1. s[1] \in Agent /\ s[2] \in Pattern /\ clients[s[1]] = d
      BY <1>0, <2>1, <2>3 DEF TypeOK
    <3>2. CASE s \in acked[d]
      <4>1. s[1] \in subscriptions[s[2]]
        BY <3>1, <3>2 DEF Consistent
      <4> QED
        BY <1>0, <2>1, <3>1, <4>1 DEF TypeOK
    <3>3. CASE s \notin acked[d]
      <4>1. a # NoAgent /\ s \in {a} \X topics
        BY <1>0, <2>1, <2>3, <3>3 DEF TypeOK
      <4>2. s[1] = a /\ s[2] \in topics
        BY <4>1
      <4> QED
        BY <1>0, <2>1, <3>1, <4>1, <4>2 DEF TypeOK
    <3> QED
      BY <3>2, <3>3
  <2> QED
    BY <2>2, <2>3 DEF Consistent
<1>3. ASSUME NEW c \in Conn, ReadFatal(c) \/ Aborted(c) \/ ReadEof(c)
      PROVE  Consistent'
  <2>1. EndTask(c) /\ UNCHANGED acked
    BY <1>3 DEF ReadFatal, Aborted, ReadEof, history
  <2> DEFINE a == writers_to_id[c]
  <2>2. /\ writers_to_id' = [writers_to_id EXCEPT ![c] = NoAgent]
        /\ task' = [task EXCEPT ![c] = "done"]
    BY <1>0, <2>1, TaskEnds
  <2>3. CASE /\ a # NoAgent /\ clients[a] = c
             /\ clients' = [clients EXCEPT ![a] = NoConn]
             /\ subscriptions' = [p \in Pattern |-> subscriptions[p] \ {a}]
    <3>1. a \in Agent
      BY <1>0, <2>3 DEF TypeOK
    <3>2. \A b \in Agent : clients[b] = c => b = a
      BY NoneAssumption DEF Consistent, MapsAgree
    <3> HIDE DEF a
    <3>3. MapsAgree'
      BY <1>0, <2>2, <2>3, <3>1, <3>2 DEF Consistent, MapsAgree, TypeOK
    <3>4. NoDeadClients'
      BY <1>0, <2>2, <2>3, <3>1, <3>2 DEF Consistent, NoDeadClients, TypeOK
    <3>5. ASSUME NEW d \in Conn, NEW s \in acked'[d], clients'[s[1]] = d
          PROVE  s[1] \in subscriptions'[s[2]]
      <4>1. s \in acked[d] /\ s[1] \in Agent /\ s[2] \in Pattern
        BY <1>0, <2>1, <3>5 DEF TypeOK
      <4>2. s[1] # a /\ clients[s[1]] = d
        BY <1>0, <2>3, <3>1, <3>5, <4>1, NoneAssumption DEF TypeOK
      <4> QED
        BY <2>3, <4>1, <4>2 DEF Consistent
    <3> QED
      BY <3>3, <3>4, <3>5 DEF Consistent
  <2>4. CASE ~(a # NoAgent /\ clients[a] = c) /\ UNCHANGED <<clients, subscriptions>>
    <3>1. \A b \in Agent : clients[b] # c
      BY <2>4, NoneAssumption DEF Consistent, MapsAgree
    <3>2. MapsAgree' /\ NoDeadClients'
      BY <1>0, <2>2, <2>4, <3>1 DEF Consistent, MapsAgree, NoDeadClients, TypeOK
    <3> QED
      BY <2>1, <2>4, <3>2 DEF Consistent
  <2> QED
    BY <1>0, <2>1, <2>3, <2>4, TaskEnds
<1>4. CASE Restart
  <2>1. \A a \in Agent : clients'[a] = NoConn
    BY <1>4 DEF Restart
  <2>2. \A c \in Conn : \A s \in acked'[c] : s[1] \in Agent
    BY <1>0 DEF TypeOK
  <2> QED
    BY <2>1, <2>2, NoneAssumption DEF Consistent, MapsAgree, NoDeadClients
<1>5. ASSUME NEW c \in Conn,
             ClientStep(c) \/ Publish(c) \/ Send(c) \/ AnswerOther(c) \/ Drained(c)
      PROVE  Consistent'
  <2>1. UNCHANGED <<registry, acked>>
    BY <1>5 DEF ClientStep, Connect, SendFrame, Disconnect, Publish, Send, AnswerOther, Drained, history
  <2>2. \A d \in Conn : task[d] \in {"reading", "draining"} => task'[d] \in {"reading", "draining"}
    BY <1>0, <1>5 DEF ClientStep, Connect, SendFrame, Disconnect, Publish, Send, AnswerOther,
      Drained, Answers, TypeOK
  <2> QED
    BY <1>0, <2>1, <2>2, ConsistentKept
<1>6. CASE UNCHANGED vars
  BY <1>0, <1>6, ConsistentKept DEF vars, registry
<1> QED
  BY <1>1, <1>2, <1>3, <1>4, <1>5, <1>6 DEF Next, HandlerStep

\* What the theorems below rest on.
BusIInv == BusType /\ Once /\ Consistent

\* The inductive invariant holds at the start and after each step.
LEMMA BusIInvHolds ==
  ASSUME EachRegistersOnce
  PROVE  (Init => BusIInv) /\ (BusIInv /\ [Next]_vars => BusIInv')
<1>1. Init => BusIInv
  BY BusTypeInit, NoFrames, NoneAssumption
  DEF Init, BusIInv, Once, Consistent, MapsAgree, NoDeadClients
<1>2. BusIInv /\ [Next]_vars => BusIInv'
  BY BusTypeStep, OnceStep, ConsistentStep DEF BusIInv
<1> QED
  BY <1>1, <1>2

\* With clients that register once, the two tables of the broker agree
\* (clients, writers_to_id).
THEOREM TablesAgree ==
  ASSUME EachRegistersOnce
  PROVE  Spec => []BusInv
<1>1. BusIInv => BusInv
  BY DEF BusIInv, BusType, Consistent, BusInv
<1> QED
  BY <1>1, BusIInvHolds, PTL DEF Spec

\* Nobody is registered under a connection whose handler has ended (the finally
\* block of handle_client).
THEOREM RegisteredAreAlive ==
  ASSUME EachRegistersOnce
  PROVE  Spec => []NoDeadClients
<1>1. BusIInv => NoDeadClients
  BY DEF BusIInv, Consistent
<1> QED
  BY <1>1, BusIInvHolds, PTL DEF Spec

\* The broker has what it told clients, reconnections and restarts included
\* (subscribe).
THEOREM ToldIsStored ==
  ASSUME EachRegistersOnce
  PROVE  Spec => []AckedIsStored
<1>1. BusIInv => AckedIsStored
  BY DEF BusIInv, Consistent, AckedIsStored
<1> QED
  BY <1>1, BusIInvHolds, PTL DEF Spec

\* A published event is written to every client that is there and was told it
\* has a subscription that matches (publish).
THEOREM PublishedReaches ==
  ASSUME EachRegistersOnce
  PROVE  Spec => PublishReaches
<1> DEFINE A == \A c, d \in Conn : Publish(c) /\ d # c /\ Reaches(d) =>
                  LET topic == Head(inbox[c]).topic IN
                  \A s \in acked[d] : Matches(s[2], topic) /\ clients[s[1]] = d
                    => Event(topic, s[1]) \in got'[d]
<1>1. BusIInv => A
  <2> SUFFICES ASSUME BusIInv, NEW c \in Conn, NEW d \in Conn, Publish(c), d # c, Reaches(d),
                      NEW s \in acked[d], Matches(s[2], Head(inbox[c]).topic), clients[s[1]] = d
               PROVE  Event(Head(inbox[c]).topic, s[1]) \in got'[d]
    OBVIOUS
  <2> DEFINE topic == Head(inbox[c]).topic
  <2>1. s[1] \in Agent /\ s[2] \in Pattern /\ s[1] \in subscriptions[s[2]]
    BY DEF BusIInv, BusType, TypeOK, Consistent
  <2>2. s[1] \in Targets(topic, c)
    BY <2>1, NoneAssumption DEF Targets
  <2>3. Deliver({Event(topic, a) : a \in Targets(topic, c)})
    BY DEF Publish
  <2>4. Event(topic, s[1]).to = s[1]
    BY DEF Event
  <2> HIDE DEF topic
  <2> QED
    BY <2>2, <2>3, <2>4 DEF Deliver, topic
<1> QED
  BY <1>1, BusIInvHolds, PTL DEF Spec, PublishReaches
=============================================================================
