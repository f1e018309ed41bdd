----------------------------- MODULE MCAgentBus -----------------------------
(* Small instances of AgentBus: what the clients send. *)
EXTENDS AgentBus, TLC

CONSTANTS c1, c2, c3, A, B, C

RegisterAs(a) == [method |-> "register", agent |-> a]
SubscribeTo(ps) == [method |-> "subscribe", topics |-> ps]
PublishOn(t) == [method |-> "publish", topic |-> t]
SendTo(a) == [method |-> "send", to |-> a]
Other == [method |-> "other"]
Fatal == [method |-> "fatal"]

\* The topics "task" and "task.a", the patterns "task.*" and "task.a".
Task == <<"task">>
TaskA == <<"task", "a">>
AllTasks == [path |-> Task, wild |-> TRUE]
OnlyA == [path |-> TaskA, wild |-> FALSE]
Patterns == {AllTasks, OnlyA}

\* Each connection has an agent_id of its own, or c2 is c1's agent again,
\* after it reconnected or while it is still there.
MixedScripts ==
  c1 :> {<<RegisterAs(A), SubscribeTo({AllTasks})>>, <<Other, Fatal>>}
  @@ c2 :> {<<RegisterAs(A), SubscribeTo({AllTasks})>>,
            <<RegisterAs(B), PublishOn(Task), SendTo(A)>>,
            <<RegisterAs(B), SubscribeTo({OnlyA})>>}
  @@ c3 :> {<<RegisterAs(C), SubscribeTo({OnlyA})>>, <<PublishOn(TaskA)>>}

\* AgentBusProofs has theorems about such clients.
ASSUME OnceAssumption == \A c \in DOMAIN MixedScripts : \A s \in MixedScripts[c] : RegistersOnce(s)

\* c1 registers once more, under another agent_id.
RenameScripts ==
  c1 :> {<<RegisterAs(A), RegisterAs(B)>>}
  @@ c2 :> {<<RegisterAs(C), SendTo(A)>>}

\* c2 is scripts/bus_send.sh: it registers, sends one request and closes.
BusSendScripts == c2 :> {<<RegisterAs(B), PublishOn(Task)>>}
=============================================================================
