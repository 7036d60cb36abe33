---------------------------- MODULE JobExecution ----------------------------
(***************************************************************************)
(* How a node answers one inference job: the health report that admits it, *)
(* the choice of runtime, the attempts and fallbacks, and what is streamed *)
(* on the way (agents/node/src/worker.rs, with the model and tool parts of *)
(* main.rs).                                                               *)
(*                                                                         *)
(* The worker reads the model cache while CLI commands change it, asks a   *)
(* warm server that was started with the model active at that time, and    *)
(* may be asked for any model.  A generated text is a sequence of          *)
(* characters, each <<generation, position, character>>, where "_" is      *)
(* white space; a tool fragment is <<generation, position, "tool">>.       *)
(***************************************************************************)
EXTENDS ModelCache, SequencesExt

CONSTANTS
    Backends,    \* the nodes looked at: "llama" (auto, CUDA, Vulkan), "mlx", "vllm"
    Requests,    \* the jobs sent: the model asked for or 0, the kind, whether it is
                 \* streamed, and whether the backend is left to the node (own)
    ListsTools,  \* the cluster's listing names tool use among its capabilities
    Hold,        \* STREAM_TAIL_HOLD_CHARS
    MaxBody,     \* bound: characters of a generation
    MaxChanges   \* bound: changes of the node's surroundings

ASSUME ExecutionAssumption ==
    /\ Backends \subseteq {"llama", "mlx", "vllm"}
    /\ Requests \subseteq [asked : Models \cup {0}, kind : {"text", "speakai", "native"},
                            live : BOOLEAN, own : BOOLEAN]
    /\ {Hold, MaxBody, MaxChanges} \subseteq Nat
    /\ ListsTools \in BOOLEAN

VARIABLES
    backend,     \* the node's backend
    tools,       \* the executables that pass verification
    server,      \* the persistent runtime: [up, model, url]
    cluster,     \* the user's own cluster: [up, serves, tools]
    adopted,     \* contributed_cluster of the configuration
    probe,       \* the tool probe: what it asked, or "none"
    report,      \* the last heartbeat: [healthy, fresh, models, tools]
    job,
    changes

nodeVars == <<backend, tools, server, cluster, adopted, probe, report, changes>>
vars == <<cacheVars, nodeVars, job>>

\* The executables that are probed, and what the probes of the power supply and
\* of the GPU can answer.
Tools == {"llama-cli", "llama-server", "mlx"}
PowerStates == {"ac", "battery", "low"}
Devices == BOOLEAN

Attempts == 3    \* SPEAKAI_MAX_ATTEMPTS
nobody == [some |-> FALSE, model |-> none, models |-> {}, tools |-> FALSE]
waiting == [pc |-> "none", asked |-> none, model |-> none, kind |-> "text", live |-> FALSE,
            own |-> FALSE, route |-> "none", attempt |-> 0, gens |-> 0, started |-> FALSE,
            path |-> none, deltas |-> <<>>, prose |-> <<>>, content |-> <<>>, calls |-> <<>>,
            by |-> none, error |-> "none", checked |-> FALSE, offered |-> FALSE]

\* A node whose runtime runs, or one that contributes a cluster.
Init ==
    /\ CacheInit
    /\ backend \in Backends
    /\ tools = Tools
    /\ \E m \in Models : cluster = [up |-> TRUE, serves |-> {m}, tools |-> TRUE]
    /\ \/ /\ server = [up |-> active # none, model |-> active, url |-> active # none]
          /\ adopted = nobody
       \/ /\ server = [up |-> FALSE, model |-> none, url |-> FALSE]
          /\ \E m \in cluster.serves :
                adopted = [some |-> TRUE, model |-> m, models |-> cluster.serves, tools |-> FALSE]
    /\ probe = nobody
    /\ report = [healthy |-> FALSE, fresh |-> FALSE, models |-> {}, tools |-> FALSE]
    /\ job = waiting /\ changes = 0

-----------------------------------------------------------------------------
(* Resolving a model to a file.                                            *)

\* The file a manifest names: catalogue models have no path in theirs.
PathIn(m) == IF manifest[m].source /\ "imported" \in files[m] THEN m ELSE none

Unreadable == \E m \in DOMAIN manifest : ~manifest[m].readable

\* The answers of one pass over the manifests in any order: the model's own
\* file, else the active model's; an unreadable manifest ends the pass.
imported_model_path_from_cache(name) ==
    LET ok   == {m \in DOMAIN manifest : manifest[m].readable}
        own  == {m \in ok : IF name # none THEN m = name ELSE manifest[m].active}
        hits == {PathIn(m) : m \in own} \ {none}
        fall == {PathIn(m) : m \in {n \in ok \ own : manifest[n].active}} \ {none}
    IN  (IF hits # {} THEN hits ELSE IF fall # {} THEN fall ELSE {none})
            \cup (IF Unreadable THEN {none} ELSE {})

active_model_name_from_cache ==
    {m \in DOMAIN manifest : manifest[m].readable /\ manifest[m].active}

\* The directories searched when no manifest helps.
Searched(name) ==
    IF name # none THEN {name}
    ELSE IF active_model_name_from_cache # {} THEN active_model_name_from_cache ELSE Models

resolve_model_path(name) ==
    LET found == imported_model_path_from_cache(name)
        dir   == {m \in Searched(name) : "managed" \in files[m]}
    IN  (found \ {none}) \cup (IF none \notin found THEN {} ELSE IF dir = {} THEN {none} ELSE dir)

\* Without a model in the job and in the configuration: the active manifest, or
\* for SpeakAI a usable one; "active", a name no model has, if there is none.
preferred_speakai_model_name(asked, speakai) ==
    IF asked # none THEN {asked}
    ELSE LET usable == {m \in DOMAIN manifest : /\ manifest[m].readable /\ ~manifest[m].rejected
                                                /\ PathIn(m) # none}
             all == active_model_name_from_cache \cup (IF speakai THEN usable ELSE {})
         IN  IF all = {} THEN {-1} ELSE all

FileOf(name) == IF name = -1 THEN imported_model_path_from_cache(name)
                ELSE resolve_model_path(name)

-----------------------------------------------------------------------------
(* The surroundings.  Each change makes the health report stale.           *)

Changes == changes < MaxChanges /\ changes' = changes + 1
Stale   == /\ report' = [report EXCEPT !.fresh = FALSE]
           /\ job' = [job EXCEPT !.checked = FALSE]

\* The agent starts: the runtime is loaded with the model active now, and the
\* agent's environment gets its URL (see NodeControl for the start itself).
ServerStarts ==
    /\ Changes /\ Stale /\ ~server.up /\ active # none
    /\ \/ /\ backend = "llama" /\ "llama-server" \in tools
          /\ \E f \in resolve_model_path(active) \ {none} :
                server' = [up |-> TRUE, model |-> f, url |-> TRUE]
       \/ /\ backend \in {"mlx", "vllm"} /\ (backend = "mlx" => "mlx" \in tools)
          /\ server' = [up |-> TRUE, model |-> active, url |-> TRUE]
    /\ UNCHANGED <<cacheVars, backend, tools, cluster, adopted, probe>>

ServerDies ==
    /\ Changes /\ Stale /\ server.up
    /\ server' = [server EXCEPT !.up = FALSE]
    /\ UNCHANGED <<cacheVars, backend, tools, cluster, adopted, probe>>

ClusterChanges ==
    /\ Changes /\ Stale
    /\ \/ cluster' = [cluster EXCEPT !.up = ~@]
       \/ \E m \in Models, t \in BOOLEAN :
             cluster' = [cluster EXCEPT !.serves = {m}, !.tools = t] /\ cluster' # cluster
    /\ UNCHANGED <<cacheVars, backend, tools, server, adopted, probe>>

\* cluster use: what is recorded is what the probe saw, with or without tools.
run_cluster_use ==
    /\ Changes /\ Stale /\ cluster.up /\ cluster.serves # {}
    /\ \E m \in cluster.serves, t \in {FALSE, cluster.tools} :
          adopted' = [some |-> TRUE, model |-> m, models |-> cluster.serves, tools |-> t]
    /\ UNCHANGED <<cacheVars, backend, tools, server, cluster, probe>>

run_cluster_forget ==
    /\ Changes /\ Stale /\ adopted.some
    /\ adopted' = nobody
    /\ UNCHANGED <<cacheVars, backend, tools, server, cluster, probe>>

\* trusted_runtime_executable: an executable that no longer matches its pin.
ToolUntrusted ==
    /\ Changes /\ Stale
    /\ \E t \in tools : tools' = tools \ {t}
    /\ UNCHANGED <<cacheVars, backend, server, cluster, adopted, probe>>

\* The background probe of native tool calls, and its answer: it is recorded
\* for the cluster that is adopted when it arrives.
ToolProbeStarts ==
    /\ adopted.some /\ ~adopted.tools /\ ~probe.some
    /\ probe' = [adopted EXCEPT !.tools = cluster.up /\ cluster.tools]
    /\ UNCHANGED <<cacheVars, backend, tools, server, cluster, adopted, report, job, changes>>

ToolProbeEnds ==
    /\ probe.some
    /\ adopted' = IF probe.tools /\ adopted.some THEN [adopted EXCEPT !.tools = TRUE] ELSE adopted
    /\ probe' = nobody
    /\ UNCHANGED <<cacheVars, backend, tools, server, cluster, report, job, changes>>

-----------------------------------------------------------------------------
(* Health and policy.                                                      *)

contributed_cluster_health == cluster.up /\ adopted.model # none

Warm == server.up /\ server.url

HealthOfTools(path, device) ==
    CASE backend = "vllm" -> active # none /\ Warm
      [] backend = "mlx"  -> active # none /\ ("mlx" \in tools \/ Warm)
      [] OTHER            -> ("llama-cli" \in tools \/ Warm) /\ device

\* The report for the node's own runtimes; path is what the model resolves to,
\* device whether the GPU the backend needs, if any, was found.
LocalHealth(path, device) ==
    LET mlx   == backend = "mlx" /\ "mlx" \in tools
        local == "llama-cli" \in tools \/ Warm \/ mlx
    IN  CASE backend = "vllm" -> active # none /\ Warm
          [] backend = "mlx"  -> active # none /\ (mlx \/ Warm)
          [] OTHER            -> path # none /\ local /\ device

\* power: "ac", "battery" or "low"; a contribution of 20 percent is the most
\* a machine on battery may give.
probe_worker_policy(healthy, percent, power) ==
    /\ healthy /\ percent # 0
    /\ power # "ac" => percent <= 20 /\ power # "low"

\* The manifests that promise a file: the path they name is not looked up.
available_model_capabilities ==
    {m \in DOMAIN manifest : manifest[m].readable /\ ~manifest[m].rejected /\ manifest[m].source}

\* The configured model's manifest, else an active one; the pass over the
\* manifests ends at an unreadable one.  Failing that, the configured name.
active_model_capability ==
    LET own  == {m \in DOMAIN manifest : manifest[m].readable /\ m = active}
        hits == IF own # {} THEN own ELSE active_model_name_from_cache
    IN  hits \cup (IF hits = {} \/ Unreadable THEN {active} ELSE {})

\* Mutant of build_scheduler_capabilities: every manifest is advertised.
AdvertisesAll(fits, one) ==
    IF adopted.some THEN adopted.models \cup {adopted.model} ELSE DOMAIN manifest

\* The models advertised to the scheduler: the cluster's, or the installed ones
\* that fit the VRAM budget, or else the active one.
build_scheduler_capabilities(fits, one) ==
    IF adopted.some THEN adopted.models \cup {adopted.model}
    ELSE IF available_model_capabilities \cap fits # {}
    THEN available_model_capabilities \cap fits
    ELSE {one} \ {none}

\* The capability array of the listing counts as much as a verified probe.
supports_tools == adopted.some /\ (adopted.tools \/ ListsTools)

probe_worker_health ==
    /\ job.pc = "none"
    /\ \E path \in resolve_model_path(active), percent \in {0, 20, 21},
          power \in PowerStates, device \in Devices,
          fits \in SUBSET Models, one \in active_model_capability :
          LET healthy == IF adopted.some THEN contributed_cluster_health ELSE LocalHealth(path, device)
          IN  report' = [healthy |-> probe_worker_policy(healthy, percent, power),
                         fresh |-> op.kind = "idle",
                         models |-> build_scheduler_capabilities(fits, one),
                         tools |-> supports_tools]
    /\ UNCHANGED <<cacheVars, backend, tools, server, cluster, adopted, probe, job, changes>>

-----------------------------------------------------------------------------
(* A job is claimed, and its runtime chosen.                               *)

resolve_job_model(asked) == IF asked # none THEN asked ELSE active

Claims ==
    /\ job.pc = "none" /\ report.healthy
    /\ \E r \in Requests :
          job' = [waiting EXCEPT !.pc = "claimed", !.asked = r.asked, !.kind = r.kind,
                                 !.live = r.live, !.own = r.own,
                                 !.model = resolve_job_model(r.asked),
                                 !.checked = report.fresh,
                                 !.offered = /\ r.asked \in report.models
                                             /\ r.kind = "native" => report.tools]
    /\ UNCHANGED <<cacheVars, nodeVars>>

Ends(j, why) == [j EXCEPT !.pc = "failed", !.error = why]

\* run_contributed_cluster_request up to its first attempt.
ClusterRequest(j) ==
    LET model == IF j.model # none THEN j.model ELSE adopted.model
    IN  IF ~cluster.up \/ adopted.model = none THEN Ends(j, "unhealthy")
        ELSE IF j.model # none /\ j.model # adopted.model /\ j.model \notin adopted.models
        THEN Ends(j, "refused")
        ELSE IF j.kind = "native" /\ ~adopted.tools THEN Ends(j, "refused")
        ELSE [j EXCEPT !.pc = IF j.kind = "native" THEN "native" ELSE "cluster",
                       !.route = "cluster", !.model = model]

run_vllm_request(j) ==
    IF ~server.url \/ backend # "vllm" THEN Ends(j, "refused")
    ELSE IF ~server.up THEN Ends(j, "unhealthy")
    ELSE IF j.model = none THEN Ends(j, "refused")
    ELSE [j EXCEPT !.pc = "vllm", !.route = "vllm"]

execute_request_with_cluster ==
    /\ job.pc = "claimed"
    /\ \E route \in IF job.own THEN {backend} ELSE {"llama", "mlx", "vllm"},
          m \in preferred_speakai_model_name(job.model, job.kind = "speakai") :
          job' = CASE adopted.some -> ClusterRequest(job)
                   [] ~adopted.some /\ route = "vllm" -> run_vllm_request(job)
                   [] OTHER -> [job EXCEPT !.pc = IF route = "mlx" THEN "mlx" ELSE "path",
                                           !.route = route, !.model = m]
    /\ UNCHANGED <<cacheVars, nodeVars>>

-----------------------------------------------------------------------------
(* One generation.                                                         *)

\* Of a SpeakAI answer only its validity matters, which Judged chooses.
Bodies == IF job.kind = "speakai" THEN {<<"a">>}
          ELSE UNION {[1..n -> {"a", "_"}] : n \in 0..MaxBody}
Chars(g, body) == [i \in DOMAIN body |-> <<g, i, body[i]>>]
Solid(c) == c[3] # "_"

TrimStart(t) ==
    LET first == {i \in DOMAIN t : Solid(t[i])}
    IN  IF first = {} THEN <<>> ELSE SubSeq(t, CHOOSE i \in first : \A k \in first : i <= k, Len(t))
TrimEnd(t) == Reverse(TrimStart(Reverse(t)))

\* What a request leaves: whether it succeeded, the text, what was streamed.
Outcome(ok, text, sent) == [ok |-> ok, text |-> text, sent |-> sent]
Lost == Outcome(FALSE, <<>>, <<>>)

parse_openai_stream_at_once(g) ==
    UNION {LET all  == TrimStart(Chars(g, body))
               text == TrimEnd(all)
           IN  {Outcome(end = "terminal" /\ text # <<>>, text, SubSeq(all, 1, k)) :
                   k \in 0..Len(all), end \in {"terminal", "eof"}}
           : body \in Bodies}

\* What is returned for a text: a text cut off at the generation limit (finish
\* reason "length") follows the words "[truncated: hit the generation limit]".
Mark == <<0, 0, "truncated">>
Marked(text) == {text, <<Mark>> \o text}

\* A stream: its last characters are kept back until a terminal event (a
\* finish reason or DONE) confirms the text; k characters were sent before.
\* What is sent has no mark.
Streams(all, text, safe) ==
    {Outcome(FALSE, <<>>, SubSeq(all, 1, k)) : k \in 0..safe} \cup
    (IF text = <<>> THEN {}
     ELSE UNION {{Outcome(TRUE, answer, IF Len(text) > k THEN text ELSE SubSeq(all, 1, k)) :
                     k \in 0..safe} : answer \in Marked(text)})

\* What may be sent early leaves Hold characters.
parse_openai_stream(g) ==
    UNION {LET all == TrimStart(Chars(g, body))
           IN  Streams(all, TrimEnd(all), IF Len(all) > Hold THEN Len(all) - Hold ELSE 0)
           : body \in Bodies}

\* A plain answer: its trimmed content, or an error when it is empty.
Answer(g) == {Outcome(TrimEnd(TrimStart(Chars(g, body))) # <<>>,
                      TrimEnd(TrimStart(Chars(g, body))), <<>>) : body \in Bodies}

\* The same from an OpenAI-compatible server, which says why the text ended.
MarkedAnswer(g) == UNION {{[out EXCEPT !.text = text] : text \in Marked(out.text)} : out \in Answer(g)}

run_vllm_completion(g, live) ==
    {Lost} \cup (IF live THEN parse_openai_stream(g) ELSE MarkedAnswer(g))

\* A structured request is not streamed; refused for its format it is repeated
\* without one, and then it is.
run_openai_compatible_completion(g, j) ==
    run_vllm_completion(g, j.live)
        \cup (IF j.kind = "speakai" THEN MarkedAnswer(g) ELSE {})

\* What follows an attempt of a route that restarts at pc: the answer, another
\* attempt, or the end.
Judged(j, out, by, again) ==
    LET k == [j EXCEPT !.gens = @ + 1, !.deltas = @ \o out.sent, !.started = TRUE]
    IN  IF j.kind # "speakai" THEN {[k EXCEPT !.pc = "completed", !.content = out.text, !.by = by]}
        ELSE {[k EXCEPT !.pc = "completed", !.content = out.text, !.by = by],
              IF j.attempt + 1 < Attempts
              THEN [k EXCEPT !.pc = again, !.attempt = @ + 1]
              ELSE Ends(k, "schema")}

Failed(j, out, next) ==
    LET k == [j EXCEPT !.gens = @ + 1, !.deltas = @ \o out.sent]
    IN  IF next = "failed" THEN Ends(k, "runtime") ELSE [k EXCEPT !.pc = next]

\* An external runtime answers for the model it serves and refuses others.
RemoteAttempt ==
    /\ job.pc \in {"cluster", "vllm"}
    /\ LET here == IF job.pc = "cluster" THEN cluster.up /\ job.model \in cluster.serves
                   ELSE server.up /\ server.model = job.model
           outs == IF here THEN run_openai_compatible_completion(job.gens + 1, job) ELSE {Lost}
       IN  \E out \in outs :
              IF out.ok THEN job' \in Judged(job, out, job.model, job.pc)
              ELSE job' = Failed(job, out, "failed")
    /\ UNCHANGED <<cacheVars, nodeVars>>

-----------------------------------------------------------------------------
(* A native tool turn, streamed or not, at the cluster.                    *)

\* A generation: prose, and the calls it ends with.
Calls == {<<>>, <<"good">>, <<"good", "good">>, <<"good", "incomplete">>, <<"oversized">>, <<"unnamed">>}

validate_native_tool_message(calls) ==
    IF calls = <<>> \/ Range(calls) = {"good"} THEN "valid"
    ELSE IF "unnamed" \in Range(calls) THEN "invalid"
    ELSE "rejected"

ToolFragments(g, calls) == [i \in DOMAIN calls |-> <<g, i, "tool">>]

Releases(verdict, calls, g) == IF verdict = "valid" THEN ToolFragments(g, calls) ELSE <<>>

StreamedProse(retry, prose) == IF retry THEN <<>> ELSE prose

\* One attempt: complete or cut short.  On a retry the prose is not streamed
\* and the message keeps the prose of the first attempt.
NativeAttempt(retry, after) ==
    LET g == job.gens + 1
    IN  /\ \E prose \in {Chars(g, b) : b \in {<<>>, <<"a">>, <<"a", "a">>}}, calls \in Calls,
              ended \in BOOLEAN, length \in BOOLEAN :
              LET sent    == IF job.live THEN StreamedProse(retry, prose) ELSE <<>>
                  verdict == IF length /\ calls # <<>> THEN "rejected"
                             ELSE IF retry /\ calls = <<>> THEN "invalid"
                             ELSE validate_native_tool_message(calls)
                  frags   == IF job.live /\ ended THEN Releases(verdict, calls, g) ELSE <<>>
                  seen    == [job EXCEPT !.gens = g, !.deltas = @ \o sent \o frags,
                                         !.prose = @ \o sent]
              IN  job' = IF ~(cluster.up /\ job.model \in cluster.serves)
                         THEN Ends(job, "runtime")
                         ELSE IF ~ended THEN Ends(seen, "runtime")
                         ELSE IF verdict = "valid"
                         THEN [seen EXCEPT !.pc = "completed", !.by = job.model,
                                 !.content = IF job.live THEN seen.prose ELSE prose,
                                 !.calls = ToolFragments(g, calls)]
                         ELSE IF verdict = "rejected" /\ after # "failed"
                         THEN [seen EXCEPT !.pc = after]
                         ELSE Ends(seen, "runtime")
        /\ UNCHANGED <<cacheVars, nodeVars>>

run_native_tool_attempts ==
    \/ job.pc = "native" /\ NativeAttempt(FALSE, "native again")
    \/ job.pc = "native again" /\ NativeAttempt(TRUE, "failed")

-----------------------------------------------------------------------------
(* The node's own runtimes.                                                *)

\* The warm MLX server, which loads the model it is asked for; if there is
\* none or it fails, the command.
MlxWarm ==
    /\ job.pc = "mlx"
    /\ IF backend = "mlx" /\ Warm
       THEN \E out \in run_openai_compatible_completion(job.gens + 1, job) :
               IF out.ok THEN job' \in Judged(job, out, job.model, "mlx")
               ELSE job' = Failed(job, out, "mlx command")
       ELSE job' = [job EXCEPT !.pc = "mlx command"]
    /\ UNCHANGED <<cacheVars, nodeVars>>

\* Before any MLX generation has succeeded its failure means llama.cpp.
run_mlx_command ==
    /\ job.pc = "mlx command"
    /\ \/ /\ "mlx" \in tools /\ backend = "mlx"
          /\ \E out \in Answer(job.gens + 1) : out.ok /\ job' \in Judged(job, out, job.model, "mlx")
       \/ job' = Failed(job, Lost, IF job.started THEN "failed" ELSE "path")
    /\ UNCHANGED <<cacheVars, nodeVars>>

LlamaResolves ==
    /\ job.pc = "path"
    /\ \E f \in FileOf(job.model) :
          job' = IF f = none THEN Ends(job, IF job.gens > 0 THEN "runtime" ELSE "refused")
                 ELSE [job EXCEPT !.pc = "llama", !.path = f, !.attempt = 0]
    /\ UNCHANGED <<cacheVars, nodeVars>>

\* The warm llama-server is asked without a model: it answers with its own.
run_llama_server_completion ==
    /\ job.pc = "llama"
    /\ IF backend = "llama" /\ Warm
       THEN \E out \in {Lost} \cup Answer(job.gens + 1) :
               IF out.ok THEN job' \in Judged(job, out, server.model, "llama")
               ELSE job' = Failed(job, out, "llama command")
       ELSE job' = [job EXCEPT !.pc = "llama command"]
    /\ UNCHANGED <<cacheVars, nodeVars>>

run_llama_command ==
    /\ job.pc = "llama command"
    /\ \/ /\ "llama-cli" \in tools /\ files[job.path] # {}
          /\ \E out \in Answer(job.gens + 1) : out.ok /\ job' \in Judged(job, out, job.path, "llama")
       \/ job' = Failed(job, Lost, "failed")
    /\ UNCHANGED <<cacheVars, nodeVars>>

\* The response is reported (WorkerJob) and the slot is free again.
Reported ==
    /\ job.pc \in {"completed", "failed"}
    /\ job' = waiting
    /\ UNCHANGED <<cacheVars, nodeVars>>

Surroundings ==
    \/ ServerStarts \/ ServerDies \/ ClusterChanges \/ run_cluster_use \/ run_cluster_forget
    \/ ToolUntrusted \/ ToolProbeStarts \/ ToolProbeEnds
    \/ CacheStep /\ Stale /\ UNCHANGED <<backend, tools, server, cluster, adopted, probe, changes>>

Worker ==
    \/ execute_request_with_cluster \/ RemoteAttempt \/ run_native_tool_attempts
    \/ MlxWarm \/ run_mlx_command \/ LlamaResolves
    \/ run_llama_server_completion \/ run_llama_command \/ Reported

Next == Surroundings \/ probe_worker_health \/ Claims \/ Worker

Spec == Init /\ [][Next]_vars

-----------------------------------------------------------------------------
(* Properties.                                                             *)

IsTool(d) == d[3] = "tool"

\* When a streamed job of the cluster or of vLLM completes, what was streamed is
\* its answer: the text, once, whatever was held back, cut short or generated
\* again, and then exactly the tool calls of the message (parse_openai_stream,
\* parse_native_openai_stream_with_output, run_native_tool_attempts).  The answer
\* may say before the text that it was cut off; nothing else sets them apart.
StreamMatchesAnswer ==
    /\ job.pc = "completed" /\ job.live /\ job.kind # "speakai"
    /\ job.route \in {"cluster", "vllm"}
    => \E n \in 0..Len(job.deltas) :
          /\ job.content \in Marked(TrimEnd(SubSeq(job.deltas, 1, n)))
          /\ SubSeq(job.deltas, n + 1, Len(job.deltas)) = job.calls
          /\ \A i \in 1..n : ~IsTool(job.deltas[i])

\* What a reader of the stream is told of an answer that was cut off: the mark.
\* The code breaks it: the mark is only in the answer that is returned.
CutIsStreamed ==
    job.pc = "completed" /\ job.live /\ Mark \in Range(job.content) => Mark \in Range(job.deltas)

\* No fragment of a tool call leaves the worker before the whole batch was found
\* valid: a job that failed, or that generates again, has released none, and one
\* that completed has released exactly those of its message.
ToolsReleasedWhole ==
    \A i \in DOMAIN job.deltas :
       IsTool(job.deltas[i]) =>
          /\ job.pc = "completed"
          /\ \E n \in 1..i : SubSeq(job.deltas, n, Len(job.deltas)) = job.calls

\* The health report and the execution agree: if nothing changed since a report
\* that admitted the node, and no manifest is unreadable, a job for the active
\* model is not refused for want of a model, a runtime or a URL; it fails only if
\* a generation does (probe_worker_health, execute_request_with_cluster).
HealthyServes ==
    /\ job.pc = "failed" /\ job.checked /\ job.own /\ ~adopted.some /\ ~Unreadable
    /\ active # none /\ job.asked \in {none, active}
    => job.error \in {"runtime", "schema"}

\* What the node advertises it serves: if nothing changed since the heartbeat that
\* listed a model, a job for that model is not refused; it fails only if the
\* server or a generation does (build_scheduler_capabilities, resolve_model_path,
\* run_contributed_cluster_request).  A source file the user deleted, or a manifest
\* a killed command left, is still advertised: the promise needs faults = 0.
AdvertisedIsServed ==
    /\ job.pc = "failed" /\ job.checked /\ job.own /\ ~Unreadable
    /\ job.offered /\ job.kind # "native" /\ faults = 0
    => job.error # "refused"

\* The same for the tool support in that heartbeat (native_tool_calls_v1).  The
\* code breaks it: the capability array of a listing is advertised, while the
\* worker asks for a verified probe.
AdvertisedToolsAreServed ==
    /\ job.pc = "failed" /\ job.checked /\ job.offered /\ job.kind = "native"
    => job.error # "refused"

\* What the comment in execute_request_with_cluster says ("A contributed cluster
\* serves every job for this node"): a job that names no model is not refused by
\* a node whose cluster answers.
ClusterServesEveryJob ==
    /\ job.pc = "failed" /\ job.checked /\ adopted.some
    /\ job.asked = none /\ job.kind # "native"
    => job.error # "refused"
=============================================================================
