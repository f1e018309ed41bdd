--------------------------- MODULE MetricsExporter ---------------------------
(***************************************************************************)
(* scripts/metrics_exporter.py: a server that takes one connection after   *)
(* the other and, for each scrape, reads /proc, asks systemd and counts    *)
(* the lines of two logs.  The logs grow while it reads: each hook of the  *)
(* harness appends a line to the audit log as it ends                      *)
(* (scripts/hooks/lib/trace_helper.sh), and the hook of failed tools one   *)
(* to the error log before (scripts/hooks/post_tool_failure.sh).           *)
(***************************************************************************)
EXTENDS Naturals, Sequences, FiniteSetsExt

CONSTANTS
  Client,    \* connections
  HookRun,   \* runs of hooks
  Meminfo,   \* contents of /proc/meminfo, in kB
  Loadavg,   \* contents of /proc/loadavg
  Failed     \* number of units that have failed, in either scope

VARIABLES
  audit,   \* harness_audit.jsonl; the line of a run is whole or not yet
  errors,  \* runs whose line is in harness_errors.jsonl
  hook,    \* the runs of hooks
  client,  \* the connections
  queue,   \* those that the server has not accepted
  server   \* the connection it serves, what it does next, what it has gathered

vars == <<audit, errors, hook, client, queue, server>>

Hook == {"PreToolUse", "PostToolUseFailure"}
Path == {"/metrics", "/health", "/other"}

-----------------------------------------------------------------------------
(* Parsing *)

\* Fewer than three fields, or no file: no load.
ParseLoadavg(content) ==
  IF Len(content) < 3 THEN [m1 |-> 0, m5 |-> 0, m15 |-> 0]
  ELSE [m1 |-> content[1], m5 |-> content[2], m15 |-> content[3]]

\* A key that is not there counts as 0, MemAvailable as MemFree.
ParseMeminfo(raw) ==
  LET kb(key) == IF key \in DOMAIN raw THEN raw[key] ELSE 0
  IN  [total |-> kb("MemTotal"), free |-> kb("MemFree"),
       available |-> IF "MemAvailable" \in DOMAIN raw THEN kb("MemAvailable") ELSE kb("MemFree"),
       swap_used |-> IF kb("SwapTotal") > kb("SwapFree")
                     THEN kb("SwapTotal") - kb("SwapFree") ELSE 0]

\* A line that is not whole is not JSON and is skipped.
Records(h) == {l \in audit : l.whole /\ l.hook = h}
hook_executions == [h \in Hook |-> Cardinality(Records(h))]
hook_blocks == [h \in Hook |-> Cardinality({l \in Records(h) : l.exit_code = 2})]
tool_failures_total == Cardinality(errors)

-----------------------------------------------------------------------------
(* A scrape *)

\* Mutant: the error log first.
HarnessSteps_Errors == <<"errors", "audit">>

HarnessSteps == <<"audit", "errors">>

CollectAll == <<"host", "systemd">> \o HarnessSteps

None == [p \in {} |-> 0]

Init ==
  /\ audit = {} /\ errors = {}
  /\ hook = [r \in HookRun |-> "down"]
  /\ client = [c \in Client |-> [pc |-> "down", path |-> "none", status |-> 0, answer |-> None]]
  /\ queue = <<>>
  /\ server = [serves |-> "none", todo |-> <<>>, data |-> None, floor |-> [h \in Hook |-> 0]]

Connect(c) ==
  /\ client[c].pc = "down"
  /\ client' = [client EXCEPT ![c].pc = "connected"]
  /\ queue' = Append(queue, c)
  /\ UNCHANGED <<audit, errors, hook, server>>

Send(c) ==
  /\ client[c].pc = "connected"
  /\ \E path \in Path : client' = [client EXCEPT ![c].pc = "sent", ![c].path = path]
  /\ UNCHANGED <<audit, errors, hook, queue, server>>

\* A client that waits no longer; the server finds out when it writes.
Leave(c) ==
  /\ client[c].pc \in {"connected", "sent"}
  /\ client' = [client EXCEPT ![c].pc = "gone"]
  /\ UNCHANGED <<audit, errors, hook, queue, server>>

\* One connection at a time, without a timeout.
Accept ==
  /\ server.serves = "none" /\ queue # <<>>
  /\ server' = [server EXCEPT !.serves = Head(queue), !.todo = <<"request">>, !.data = None]
  /\ queue' = Tail(queue)
  /\ UNCHANGED <<audit, errors, hook, client>>

Before(step) == server.todo # <<>> /\ Head(server.todo) = step

\* do_GET.
Route ==
  /\ Before("request") /\ client[server.serves].pc = "sent"
  /\ server' = [server EXCEPT
       !.todo = (IF client[server.serves].path = "/metrics" THEN CollectAll ELSE <<>>) \o <<"write">>,
       !.floor = hook_executions]
  /\ UNCHANGED <<audit, errors, hook, client, queue>>

\* The line of the request does not come.
Hangup ==
  /\ Before("request") /\ client[server.serves].pc = "gone"
  /\ server' = [server EXCEPT !.serves = "none", !.todo = <<>>]
  /\ UNCHANGED <<audit, errors, hook, client, queue>>

\* Puts the value of a key among what was gathered.
Gather(step, key, value) ==
  /\ Before(step)
  /\ server' = [server EXCEPT !.todo = Tail(@),
       !.data = [k \in DOMAIN server.data \cup {key} |-> IF k = key THEN value ELSE server.data[k]]]
  /\ UNCHANGED <<audit, errors, hook, client, queue>>

\* /proc and statvfs; what cannot be read is 0.
ReadHost ==
  \E load \in Loadavg, raw \in Meminfo, storage \in {0, 1} :
    Gather("host", "host", [cpu_load |-> ParseLoadavg(load), memory |-> ParseMeminfo(raw),
                            storage |-> storage])

\* Four queries; one that fails or takes a second leaves 0, nothing has failed
\* and nothing runs.
AskSystemd ==
  \E units \in Failed \cup {0}, running \in {0, 1} :
    Gather("systemd", "systemd", [failed_units |-> units, running |-> running])

ReadAudit ==
  Gather("audit", "hooks", [executions |-> hook_executions, blocks |-> hook_blocks])

ReadErrors == Gather("errors", "tool_failures_total", tool_failures_total)

\* format_prometheus_metrics, the headers and the body.
Answer ==
  /\ Before("write")
  /\ LET c == server.serves
     IN  client' = IF client[c].pc # "sent" THEN client
                   ELSE [client EXCEPT ![c].pc = "answered", ![c].answer = server.data,
                           ![c].status = IF client[c].path = "/other" THEN 404 ELSE 200]
  /\ server' = [server EXCEPT !.serves = "none", !.todo = <<>>, !.data = None]
  /\ UNCHANGED <<audit, errors, hook, queue>>

\* The process ends; systemd starts it again, and the connections are lost.
Restart ==
  /\ server.serves # "none"
  /\ server' = [server EXCEPT !.serves = "none", !.todo = <<>>, !.data = None]
  /\ queue' = <<>>
  /\ client' = [c \in Client |-> IF client[c].pc \in {"connected", "sent"}
                                 THEN [client[c] EXCEPT !.pc = "gone"] ELSE client[c]]
  /\ UNCHANGED <<audit, errors, hook>>

-----------------------------------------------------------------------------
(* The harness *)

\* post_tool_failure.sh: the line of the error log.
LogError(r) ==
  /\ hook[r] = "down"
  /\ errors' = errors \cup {r}
  /\ hook' = [hook EXCEPT ![r] = "PostToolUseFailure"]
  /\ UNCHANGED <<audit, client, queue, server>>

\* trace_finish of the other hooks; exit code 2 blocks the tool.
OtherHook(r) ==
  /\ hook[r] = "down"
  /\ hook' = [hook EXCEPT ![r] = "PreToolUse"]
  /\ UNCHANGED <<audit, errors, client, queue, server>>

AppendTrace(r) ==
  /\ hook[r] \in Hook
  /\ \E code \in IF hook[r] = "PreToolUse" THEN {0, 2} ELSE {0} :
       audit' = audit \cup {[run |-> r, hook |-> hook[r], exit_code |-> code, whole |-> FALSE]}
  /\ hook' = [hook EXCEPT ![r] = "writing"]
  /\ UNCHANGED <<errors, client, queue, server>>

WriteTrace(r) ==
  /\ hook[r] = "writing"
  /\ audit' = {IF l.run = r THEN [l EXCEPT !.whole = TRUE] ELSE l : l \in audit}
  /\ hook' = [hook EXCEPT ![r] = "done"]
  /\ UNCHANGED <<errors, client, queue, server>>

\* A hook that is killed leaves no line, or a torn one.
KillHook(r) ==
  /\ hook[r] \in Hook \cup {"writing"}
  /\ hook' = [hook EXCEPT ![r] = "done"]
  /\ UNCHANGED <<audit, errors, client, queue, server>>

Serve ==
  Accept \/ Route \/ Hangup \/ ReadHost \/ AskSystemd \/ ReadAudit \/ ReadErrors \/ Answer \/ Restart

Next ==
  \/ Serve
  \/ \E c \in Client : Connect(c) \/ Send(c) \/ Leave(c)
  \/ \E r \in HookRun : LogError(r) \/ OtherHook(r) \/ AppendTrace(r) \/ WriteTrace(r) \/ KillHook(r)

Spec == Init /\ [][Next]_vars

-----------------------------------------------------------------------------
(* Properties *)

Scraped == {c \in Client : client[c].pc = "answered" /\ client[c].path = "/metrics"}

\* What is gathered for a scrape, or was answered, is of one harness: a failed
\* tool whose hook is counted is counted as a failure, although the two logs
\* are read one after the other while both grow; no more executions are blocked
\* than there are; and no execution that was logged before the request is
\* missing.
CountersAgree(d) ==
  /\ \A h \in Hook : d.hooks.blocks[h] <= d.hooks.executions[h]
  /\ "tool_failures_total" \in DOMAIN d =>
       d.tool_failures_total >= d.hooks.executions["PostToolUseFailure"]

ScrapesAgree ==
  /\ \A c \in Scraped : CountersAgree(client[c].answer)
  /\ "hooks" \in DOMAIN server.data =>
       \A h \in Hook : server.data.hooks.executions[h] >= server.floor[h]
=============================================================================
