------------------------------ MODULE AiGateway ------------------------------
(***************************************************************************)
(* osm ai start, stop, restart and claude (commands/ai.py, ai_claude.py):  *)
(* 9Router may run as a unit, as a transient unit, in a GNOME scope or as  *)
(* a plain process, and the one that has port 20128 serves; Headroom is a  *)
(* unit.  Calls overlap with each other, with the login of GNOME, with     *)
(* processes that end, and with another program that takes the port.       *)
(***************************************************************************)
EXTENDS Naturals, Sequences

CONSTANTS
  Call,    \* invocations of osm ai
  Action,  \* Action[c]: "start", "stop", "restart", "claude", what c may be
  MaxPid   \* bound: router processes in a behaviour

VARIABLES
  router,    \* router[pid]: what it runs as, and how far it is
  port,      \* who listens on 20128: 0 nobody, a pid, or OtherProgram
  headroom,  \* headroom-default.service runs
  job,       \* the invocations
  spoiled    \* history: calls since whose beginning a start, a failure or
             \* something outside may have undone what they did

vars == <<router, port, headroom, job, spoiled>>

Pid == 1..MaxPid
OtherProgram == MaxPid + 1
Source == {"autostart", "transient", "scope", "process"}
Unit == {"autostart", "transient"}

Absent == [source |-> "none", state |-> "absent"]

\* A process that has ended keeps its number.
Running(pid) == router[pid].state \in {"starting", "serving", "hung", "ending"}
FreePids == {pid \in Pid : router[pid].state = "absent"}
OfSource(s) == {pid \in Pid : Running(pid) /\ router[pid].source = s}

is_port_in_use == port # 0
RouterOnline == port \in Pid /\ router[port].state = "serving"
check_gateway_health == [headroom |-> headroom, router |-> RouterOnline]

-----------------------------------------------------------------------------
(* The calls, as the steps they make *)

\* Mutant: no gate.
DrainGate_None == <<>>

DrainGate == <<"drain">>

StopSteps == <<"stop_headroom", "stop_units", "scopes", "stop_scopes", "fallback">>
               \o DrainGate
StartSteps == <<"health", "start_router", "start_headroom">>

Steps(action) ==
  CASE action = "start" -> StartSteps
    [] action = "stop" -> StopSteps
    [] action = "restart" -> StopSteps \o StartSteps
    [] action = "claude" -> <<"ensure">>

Idle == [action |-> "none", todo |-> <<>>, found |-> {},
         health |-> [headroom |-> FALSE, router |-> FALSE], rc |-> 0]

Init ==
  /\ router = [pid \in Pid |-> Absent]
  /\ port \in {0, OtherProgram}
  /\ headroom = FALSE
  /\ job = [c \in Call |-> Idle]
  /\ spoiled = {}

Begin(c) ==
  /\ job[c].action = "none"
  /\ \E a \in Action[c] :
       job' = [job EXCEPT ![c].action = a, ![c].todo = Steps(a)]
  /\ spoiled' = IF port = OtherProgram \/ \E pid \in Pid : router[pid].state = "starting"
                THEN spoiled \cup {c} ELSE spoiled
  /\ UNCHANGED <<router, port, headroom>>

Before(c, step) == job[c].todo # <<>> /\ Head(job[c].todo) = step

\* What a call has read goes with its last step.
Step(j) == IF Len(j.todo) > 1 THEN [j EXCEPT !.todo = Tail(@)]
           ELSE [Idle EXCEPT !.action = j.action, !.rc = j.rc]
Then(c) == job' = [job EXCEPT ![c] = Step(@)]

\* The processes end, and the port with them.
End(pids) ==
  /\ router' = [pid \in Pid |-> IF pid \in pids THEN [router[pid] EXCEPT !.state = "ended"]
                                                ELSE router[pid]]
  /\ port' = IF port \in pids THEN 0 ELSE port

\* The calls that would have had the router down, or up.
Downs == {c \in Call : job[c].action = "stop"}
Ups == {c \in Call : job[c].action = "restart"}

\* A router that comes up meanwhile is in the way of these: sent SIGTERM before
\* it has the port, it still ends when the unit is started again.
Stopping == Downs \cup {c \in Ups : \E i \in DOMAIN job[c].todo : job[c].todo[i] = "drain"}

StopHeadroom(c) ==
  /\ Before(c, "stop_headroom")
  /\ headroom' = FALSE
  /\ spoiled' = spoiled \cup (Ups \ {c})
  /\ Then(c)
  /\ UNCHANGED <<router, port>>

\* systemctl waits for the end, and kills what does not end.
StopUnits(c) ==
  /\ Before(c, "stop_units")
  /\ End(UNION {OfSource(s) : s \in Unit})
  /\ spoiled' = spoiled \cup (Ups \ {c})
  /\ Then(c)
  /\ UNCHANGED headroom

\* find_gnome_9router_scopes.
FindScopes(c) ==
  /\ Before(c, "scopes")
  /\ job' = [job EXCEPT ![c].todo = Tail(@), ![c].found = OfSource("scope")]
  /\ UNCHANGED <<router, port, headroom, spoiled>>

StopScopes(c) ==
  /\ Before(c, "stop_scopes")
  /\ End({pid \in job[c].found : Running(pid)})
  /\ spoiled' = spoiled \cup (Ups \ {c})
  /\ Then(c)
  /\ UNCHANGED headroom

\* find_9router_pids, if the port is still in use; SIGTERM.
Fallback(c) ==
  /\ Before(c, "fallback") /\ is_port_in_use
  /\ LET pids == {pid \in Pid : Running(pid)}
     IN  /\ router' = [pid \in Pid |-> IF pid \in pids THEN [router[pid] EXCEPT !.state = "ending"]
                                                       ELSE router[pid]]
         /\ job' = [job EXCEPT ![c].found = pids,
                      ![c].todo = (IF pids = {} THEN <<>> ELSE <<"escalate">>) \o Tail(@)]
  /\ spoiled' = spoiled \cup (Ups \ {c})
  /\ UNCHANGED <<port, headroom>>

NoFallback(c) ==
  /\ Before(c, "fallback") /\ ~is_port_in_use
  /\ Then(c)
  /\ UNCHANGED <<router, port, headroom, spoiled>>

\* One second later: SIGKILL of the processes found then, if the port is in use.
Escalate(c) ==
  /\ Before(c, "escalate")
  /\ End(IF is_port_in_use THEN {pid \in job[c].found : Running(pid)} ELSE {})
  /\ spoiled' = spoiled \cup (Ups \ {c})
  /\ Then(c)
  /\ UNCHANGED headroom

Drained(c) ==
  /\ Before(c, "drain") /\ ~is_port_in_use
  /\ Then(c)
  /\ UNCHANGED <<router, port, headroom, spoiled>>

\* Three seconds; restart goes on all the same.
NotDrained(c) ==
  /\ Before(c, "drain") /\ is_port_in_use
  /\ job' = [job EXCEPT ![c] = Step([@ EXCEPT !.rc = 1])]
  /\ UNCHANGED <<router, port, headroom, spoiled>>

\* The answer of a router may be late.
ReadHealth(c) ==
  /\ Before(c, "health")
  /\ job' = [job EXCEPT ![c].todo = Tail(@), ![c].health = check_gateway_health]
  /\ UNCHANGED <<router, port, headroom, spoiled>>

AlreadyOnline(c) ==
  /\ Before(c, "start_router") /\ job[c].health.router /\ is_port_in_use
  /\ Then(c)
  /\ UNCHANGED <<router, port, headroom, spoiled>>

\* The unit, else systemd-run, else mise itself.  A unit that runs is not
\* started twice, and its name is refused to systemd-run.
StartRouter(c) ==
  /\ Before(c, "start_router") /\ ~(job[c].health.router /\ is_port_in_use)
  /\ \/ /\ OfSource("autostart") # {}
        /\ UNCHANGED router
     \/ \E pid \in FreePids, s \in {"autostart", "transient", "process"} :
          /\ s \in Unit => OfSource(s) = {}
          /\ router' = [router EXCEPT ![pid] = [source |-> s, state |-> "starting"]]
  /\ spoiled' = spoiled \cup Stopping
  /\ Then(c)
  /\ UNCHANGED <<port, headroom>>

\* systemctl start, unless its port is in use; a failure is a warning.
StartHeadroom(c) ==
  /\ Before(c, "start_headroom")
  /\ headroom' = TRUE
  /\ spoiled' = IF headroom' = headroom THEN spoiled ELSE spoiled \cup Downs
  /\ Then(c)
  /\ UNCHANGED <<router, port>>

\* launch_claude: a start if one of the two is offline.
Ensure(c) ==
  /\ Before(c, "ensure")
  /\ LET h == check_gateway_health
     IN  job' = [job EXCEPT ![c].todo = IF h.headroom /\ h.router THEN <<>> ELSE StartSteps]
  /\ UNCHANGED <<router, port, headroom, spoiled>>

\* check=False, and a spawn that raises is printed: the answer is the same.
CommandFails(c) ==
  /\ \E step \in {"stop_headroom", "stop_units", "scopes", "stop_scopes",
                  "start_router", "start_headroom"} : Before(c, step)
  /\ job' = [job EXCEPT ![c] = Step([@ EXCEPT !.found = {}])]
  /\ spoiled' = spoiled \cup {c}
  /\ UNCHANGED <<router, port, headroom>>

-----------------------------------------------------------------------------
(* The session *)

\* A router binds the port, or ends when it is taken.
Bind(pid) ==
  /\ router[pid].state = "starting"
  /\ router' = [router EXCEPT ![pid].state = IF port = 0 THEN "serving" ELSE "ended"]
  /\ port' = IF port = 0 THEN pid ELSE port
  /\ spoiled' = spoiled \cup IF port = 0 THEN Downs ELSE {}
  /\ UNCHANGED <<headroom, job>>

\* A process that was sent SIGTERM ends.
Ends(pid) ==
  /\ router[pid].state = "ending"
  /\ End({pid})
  /\ UNCHANGED <<headroom, job, spoiled>>

Hangs(pid) ==
  /\ router[pid].state = "serving"
  /\ router' = [router EXCEPT ![pid].state = "hung"]
  /\ UNCHANGED <<port, headroom, job, spoiled>>

GnomeStarts ==
  /\ OfSource("scope") = {}
  /\ \E pid \in FreePids :
       router' = [router EXCEPT ![pid] = [source |-> "scope", state |-> "starting"]]
  /\ spoiled' = spoiled \cup Stopping
  /\ UNCHANGED <<port, headroom, job>>

\* Another program takes the port, or gives it back.
OtherBinds ==
  /\ port = 0
  /\ port' = OtherProgram
  /\ spoiled' = spoiled \cup Ups
  /\ UNCHANGED <<router, headroom, job>>

OtherLeaves ==
  /\ port = OtherProgram
  /\ port' = 0
  /\ UNCHANGED <<router, headroom, job, spoiled>>

CallStep(c) ==
  \/ Begin(c) \/ StopHeadroom(c) \/ StopUnits(c) \/ FindScopes(c) \/ StopScopes(c)
  \/ Fallback(c) \/ NoFallback(c) \/ Escalate(c) \/ Drained(c) \/ NotDrained(c)
  \/ ReadHealth(c) \/ AlreadyOnline(c) \/ StartRouter(c) \/ StartHeadroom(c)
  \/ Ensure(c) \/ CommandFails(c)

Next ==
  \/ GnomeStarts \/ OtherBinds \/ OtherLeaves
  \/ \E pid \in Pid : Bind(pid) \/ Ends(pid) \/ Hangs(pid)
  \/ \E c \in Call : CallStep(c)

Spec == Init /\ [][Next]_vars

-----------------------------------------------------------------------------
(* Properties *)

Answered(c, action) ==
  job[c].action = action /\ job[c].todo = <<>> /\ job[c].rc = 0 /\ c \notin spoiled

Lives(pid) == router[pid].state \in {"starting", "serving", "hung"}

\* A stop that answers 0, of which no command failed, has left neither router
\* nor proxy, whatever the routers ran as: unless something was coming up when
\* it began, or was started later.
StoppedIsDown ==
  \A c \in Call : Answered(c, "stop") =>
    ~headroom /\ \A pid \in Pid : ~Lives(pid)

\* A restart that answers 0 has a router that runs and is not about to end: the
\* start does not take the old one, that still answers, for the new.
RestartServes ==
  \A c \in Call : Answered(c, "restart") =>
    headroom /\ \E pid \in Pid : Lives(pid)

\* What stop and restart answer is so.
GatewayAsAnswered == StoppedIsDown /\ RestartServes
=============================================================================
