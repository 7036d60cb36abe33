---------------------------- MODULE AgentSession ----------------------------
(***************************************************************************)
(* The local agent: the agent server (apps/agent-server) runs every chat   *)
(* request in a thread of its own, AgentRunner (packages/agent-core) takes *)
(* the model through its turns, and each step is recorded in the session's *)
(* event stream, an SQLite table with UNIQUE(session_id, sequence).        *)
(*                                                                         *)
(* One session: rows and the cancellation set are keyed by session, so     *)
(* that sessions do not meet.  Event contents are left out but for whose   *)
(* event it is; a transcript is the set of requests whose answer it holds. *)
(***************************************************************************)
EXTENDS Naturals, FiniteSets, FiniteSetsExt

CONSTANTS Requests,      \* chat requests that name this session
          Granted,       \* those sent with X-MundusX-Allow-Mutations: true
          Long,          \* those whose transcript may outgrow max_context_chars
          MaxTurns,      \* max_turns
          MaxToolCalls,  \* max_tool_calls
          Selected       \* how many skills select_skills finds for each, at most 3

ASSUME SessionAssumption ==
    /\ Granted \subseteq Requests /\ Long \subseteq Requests
    /\ MaxTurns \in Nat \ {0} /\ MaxToolCalls \in Nat \ {0}
    /\ Selected \in [Requests -> 0..3]

VARIABLES
    rows,       \* agent_events of the session: [seq, by, kind]
    cancelled,  \* the session is in the cancellation set
    req,        \* what each request's thread holds
    effects     \* the mutating tool calls carried out: [by, seq of ToolStarted]

vars == <<rows, cancelled, req, effects>>

(* A tool the registry does not know has no definition, and is treated as   *)
(* a read-only one until it is executed.                                   *)
Tools == {"reads", "mutates"}

Fresh == [pc |-> "new", seq |-> 0, skills |-> 0, turns |-> 0, calls |-> 0,
          tool |-> "reads", known |-> {}, transcript |-> {}]

Init ==
    /\ rows = {} /\ cancelled = FALSE /\ effects = {}
    /\ req = [r \in Requests |-> Fresh]

Ended == {"answered", "failed"}
Running(r) == req[r].pc \notin {"new"} \cup Ended

Becomes(r, s) == req' = [req EXCEPT ![r] = s]
Goto(r, pc) == Becomes(r, [req[r] EXCEPT !.pc = pc])

(* The client has its response, and the thread is gone. *)
Over(pc) == [Fresh EXCEPT !.pc = pc]
Respond(r, answer) == Becomes(r, Over(answer))

------------------------------------------------------------------------------
(* The store. *)

(* Mutant of Append: INSERT OR REPLACE. *)
AppendReplaces(r, kind, s) ==
    /\ rows' = {x \in rows : x.seq # req[r].seq}
               \cup {[seq |-> req[r].seq, by |-> r, kind |-> kind]}
    /\ Becomes(r, s)

(* append succeeds when the sequence number is free; the caller goes on    *)
(* with s.                                                                 *)
Append(r, kind, s) ==
    /\ \A x \in rows : x.seq # req[r].seq
    /\ rows' = rows \cup {[seq |-> req[r].seq, by |-> r, kind |-> kind]}
    /\ Becomes(r, s)

Then(r, pc) == [req[r] EXCEPT !.pc = pc, !.seq = @ + 1]

(* At these points the next thing the thread does is to append. *)
Appending == {"message", "skills", "cancelling", "compact", "request", "responded",
              "final", "act", "proposed", "asked", "denied", "start", "done"}

(* DuplicateSequence, or any other error of the database, ends the request *)
(* with an error response.                                                 *)
AppendFails(r) ==
    /\ req[r].pc \in Appending
    /\ Respond(r, "failed")
    /\ UNCHANGED <<rows, cancelled, effects>>

(* ORDER BY sequence, last. *)
LastSequence == IF rows = {} THEN 0 ELSE Max({x.seq : x \in rows})

------------------------------------------------------------------------------
(* handle_chat. *)

(* The request is refused (unreadable body, no user message, no store), or *)
(* taken: a cancellation of the session is forgotten.                      *)
Arrives(r) ==
    /\ req[r].pc = "new"
    /\ \/ Respond(r, "failed") /\ UNCHANGED cancelled
       \/ /\ Becomes(r, [req[r] EXCEPT !.pc = "read",
                            !.known = {q \in Requests : req[q].pc = "answered"}])
          /\ cancelled' = FALSE
    /\ UNCHANGED <<rows, effects>>

(* Mutant of ReadsTranscript: conversation_transcript keeps what the user  *)
(* said only. *)
ReadsNoAnswers(r) ==
    /\ req[r].pc = "read"
    /\ \/ Goto(r, "next")
       \/ Respond(r, "failed")
    /\ UNCHANGED <<rows, cancelled, effects>>

(* ensure_session, events, conversation_transcript. *)
ReadsTranscript(r) ==
    /\ req[r].pc = "read"
    /\ \/ Becomes(r, [req[r] EXCEPT !.pc = "next",
             !.transcript = {x.by : x \in {y \in rows : y.kind = "FinalResponseProduced"}}])
       \/ Respond(r, "failed")
    /\ UNCHANGED <<rows, cancelled, effects>>

(* next_sequence reads the events again. *)
ReadsSequence(r) ==
    /\ req[r].pc = "next"
    /\ \/ Becomes(r, [req[r] EXCEPT !.pc = "message", !.seq = LastSequence + 1])
       \/ Respond(r, "failed")
    /\ UNCHANGED <<rows, cancelled, effects>>

RecordsMessage(r) ==
    /\ req[r].pc = "message"
    /\ Append(r, "UserMessageReceived", Then(r, "skills"))
    /\ UNCHANGED <<cancelled, effects>>

LoadsSkill(r) ==
    /\ req[r].pc = "skills" /\ req[r].skills < Selected[r]
    /\ Append(r, "SkillLoaded", [Then(r, "skills") EXCEPT !.skills = @ + 1])
    /\ UNCHANGED <<cancelled, effects>>

(* Mutant of SetsUp: the number after the last event is counted twice. *)
SetsUpSkips(r) ==
    /\ req[r].pc = "skills" /\ req[r].skills = Selected[r]
    /\ Becomes(r, Then(r, "turn"))
    /\ UNCHANGED <<rows, cancelled, effects>>

(* Runtime token and tool registry. *)
SetsUp(r) ==
    /\ req[r].pc = "skills" /\ req[r].skills = Selected[r]
    /\ Goto(r, "turn") \/ Respond(r, "failed")
    /\ UNCHANGED <<rows, cancelled, effects>>

------------------------------------------------------------------------------
(* AgentRunner::run. *)

BeginsTurn(r) ==
    /\ req[r].pc = "turn" /\ req[r].turns < MaxTurns
    /\ Becomes(r, [req[r] EXCEPT !.turns = @ + 1,
                                 !.pc = IF cancelled THEN "cancelling" ELSE "compact"])
    /\ UNCHANGED <<rows, cancelled, effects>>

TurnLimit(r) ==
    /\ req[r].pc = "turn" /\ req[r].turns = MaxTurns
    /\ Respond(r, "failed")
    /\ UNCHANGED <<rows, cancelled, effects>>

RecordsCancel(r) ==
    /\ req[r].pc = "cancelling"
    /\ Append(r, "SessionCancelled", Over("failed"))
    /\ UNCHANGED <<cancelled, effects>>

(* compact_transcript: the transcript is too long, or not. *)
Compacts(r) ==
    /\ req[r].pc = "compact" /\ r \in Long
    /\ Append(r, "ContextCompacted", Then(r, "request"))
    /\ UNCHANGED <<cancelled, effects>>

RequestsModel(r) ==
    /\ req[r].pc \in {"compact", "request"}
    /\ Append(r, "ModelRequested", Then(r, "model"))
    /\ UNCHANGED <<cancelled, effects>>

(* provider.complete. *)
ModelAnswers(r) ==
    /\ req[r].pc = "model"
    /\ Goto(r, "responded") \/ Respond(r, "failed")
    /\ UNCHANGED <<rows, cancelled, effects>>

(* ModelResponded, then parse_action: an answer that does not parse, or a  *)
(* tool call beyond the limit, ends the run.                               *)
RecordsResponse(r) ==
    /\ req[r].pc = "responded"
    /\ \/ Append(r, "ModelResponded", Over("failed"))
       \/ Append(r, "ModelResponded", Then(r, "final"))
       \/ /\ req[r].calls < MaxToolCalls
          /\ \E tool \in Tools :
                Append(r, "ModelResponded",
                       [Then(r, "act") EXCEPT !.calls = @ + 1, !.tool = tool])
    /\ UNCHANGED <<cancelled, effects>>

(* A final answer is recorded, and then sent. *)
Finishes(r) ==
    /\ req[r].pc = "final"
    /\ Append(r, "FinalResponseProduced", Then(r, "reply"))
    /\ UNCHANGED <<cancelled, effects>>

Replies(r) ==
    /\ req[r].pc = "reply"
    /\ Respond(r, "answered")
    /\ UNCHANGED <<rows, cancelled, effects>>

Proposes(r) ==
    /\ req[r].pc = "act"
    /\ Append(r, "ToolProposed",
              Then(r, IF req[r].tool = "mutates" THEN "proposed" ELSE "start"))
    /\ UNCHANGED <<cancelled, effects>>

AsksApproval(r) ==
    /\ req[r].pc = "proposed"
    /\ Append(r, "ApprovalRequested", Then(r, "asked"))
    /\ UNCHANGED <<cancelled, effects>>

(* StaticApprovalProvider::decide, and ApprovalResolved. *)
ResolvesApproval(r) ==
    /\ req[r].pc = "asked"
    /\ IF r \in Granted THEN Append(r, "ApprovalGranted", Then(r, "start"))
                        ELSE Append(r, "ApprovalDenied", Then(r, "denied"))
    /\ UNCHANGED <<cancelled, effects>>

(* ToolCompleted with the reason as its error; the run goes on. *)
Denied(r) ==
    /\ req[r].pc = "denied"
    /\ Append(r, "ToolCompleted", Then(r, "turn"))
    /\ UNCHANGED <<cancelled, effects>>

(* Mutant of StartsTool: an error of the store is ignored. *)
StartsUnrecorded(r) ==
    /\ req[r].pc = "start"
    /\ \/ Append(r, "ToolStarted", Then(r, "execute"))
       \/ Becomes(r, Then(r, "execute")) /\ UNCHANGED rows
    /\ UNCHANGED <<cancelled, effects>>

StartsTool(r) ==
    /\ req[r].pc = "start"
    /\ Append(r, "ToolStarted", Then(r, "execute"))
    /\ UNCHANGED <<cancelled, effects>>

(* A tool that fails may have done part of its work, or nothing; either    *)
(* way the run goes on with the result.                                    *)
Executes(r) ==
    /\ req[r].pc = "execute"
    /\ \/ /\ req[r].tool = "mutates"
          /\ effects' = effects \cup {[by |-> r, seq |-> req[r].seq - 1]}
       \/ UNCHANGED effects
    /\ Goto(r, "done")
    /\ UNCHANGED <<rows, cancelled>>

CompletesTool(r) ==
    /\ req[r].pc = "done"
    /\ Append(r, "ToolCompleted", Then(r, "turn"))
    /\ UNCHANGED <<cancelled, effects>>

------------------------------------------------------------------------------
(* POST /v1/sessions/<id>/cancel. *)
Cancels ==
    /\ cancelled' = TRUE
    /\ UNCHANGED <<rows, req, effects>>

(* The server dies, with its threads and its cancellation set, and is      *)
(* started again; the clients see their connections fail.                  *)
ServerDies ==
    /\ req' = [r \in Requests |-> IF Running(r) THEN Over("failed") ELSE req[r]]
    /\ cancelled' = FALSE
    /\ UNCHANGED <<rows, effects>>

Chats(r) == ReadsTranscript(r) \/ ReadsSequence(r) \/ RecordsMessage(r)
            \/ LoadsSkill(r) \/ SetsUp(r)
Turns(r) == BeginsTurn(r) \/ TurnLimit(r) \/ RecordsCancel(r) \/ Compacts(r)
            \/ RequestsModel(r) \/ ModelAnswers(r) \/ RecordsResponse(r) \/ Finishes(r)
            \/ Replies(r)
Calls(r) == Proposes(r) \/ AsksApproval(r) \/ ResolvesApproval(r) \/ Denied(r)
            \/ StartsTool(r) \/ Executes(r) \/ CompletesTool(r)
Thread(r) == Chats(r) \/ Turns(r) \/ Calls(r) \/ AppendFails(r)

Next == Cancels \/ ServerDies \/ \E r \in Requests : Arrives(r) \/ Thread(r)

Spec == Init /\ [][Next]_vars

(* A thread is scheduled, and the model runtime answers or fails: the node  *)
(* runs the request in a worker bounded by its timeouts (WorkerJob), and a  *)
(* node that dies closes the connection.                                   *)
FairSpec == Spec /\ \A r \in Requests : WF_vars(Thread(r))

------------------------------------------------------------------------------
Kinds == {"UserMessageReceived", "SkillLoaded", "SessionCancelled", "ContextCompacted",
          "ModelRequested", "ModelResponded", "FinalResponseProduced", "ToolProposed",
          "ApprovalRequested", "ApprovalGranted", "ApprovalDenied", "ToolStarted",
          "ToolCompleted"}

Pcs == {"new", "read", "next", "turn", "model", "execute", "reply"} \cup Appending \cup Ended

Threads == [pc : Pcs, seq : Nat, skills : 0..3, turns : 0..MaxTurns,
            calls : 0..MaxToolCalls, tool : Tools,
            known : SUBSET Requests, transcript : SUBSET Requests]

(* Types; no request takes more turns, calls or skills than its limits.    *)
TypeOK ==
    /\ rows \subseteq [seq : Nat \ {0}, by : Requests, kind : Kinds]
    /\ cancelled \in BOOLEAN
    /\ req \in [Requests -> Threads]
    /\ effects \subseteq [by : Requests, seq : Nat]

(* The session replays without holes and without two events under one      *)
(* number, however many requests write to it and wherever they fail.       *)
StreamIsDense == {x.seq : x \in rows} = 1..Cardinality(rows)

NumbersOf(r) == {x.seq : x \in {y \in rows : y.by = r}}

(* Requests of one session run concurrently, each counting its own way     *)
(* from the number it read at its start; the events of two of them never   *)
(* interleave: what a request recorded is one block of the stream.         *)
RequestsDoNotInterleave ==
    \A r \in Requests :
        LET numbers == NumbersOf(r)
        IN \A m, n \in numbers : m < n => m + 1 \in numbers

(* docs/mundusx-agent.md: mutations are denied unless the caller enables   *)
(* them.  A tool changed something only for a request that carried the     *)
(* grant, and only after that request recorded its approval and the start  *)
(* of the call, whatever the other requests of the session were granted.   *)
MutationsAreRecorded ==
    \A e \in effects :
        /\ e.by \in Granted
        /\ [seq |-> e.seq, by |-> e.by, kind |-> "ToolStarted"] \in rows
        /\ [seq |-> e.seq - 1, by |-> e.by, kind |-> "ApprovalGranted"] \in rows

(* An answer the client was given is in the transcript every request that  *)
(* arrives afterwards hands to AgentRunner (which may cut a long one),     *)
(* across crashes of the server.                                           *)
AnswersAreRemembered ==
    \A r \in Requests :
        /\ req[r].pc = "answered" =>
              \E x \in rows : x.by = r /\ x.kind = "FinalResponseProduced"
        /\ req[r].pc \notin {"new", "read", "failed"} =>
              req[r].known \subseteq req[r].transcript

(* Every request that was taken ends: no sequence of denials, tool errors  *)
(* and conflicts in the store keeps the turns going.                       *)
RequestsEnd == \A r \in Requests : Running(r) ~> req[r].pc \in Ended

(* docs/mundusx-agent.md: a client can cancel between model/tool turns.    *)
(* An accepted cancel is not forgotten while a request runs that it was    *)
(* for: the request finds it at its next turn, or has ended.               *)
CancelReachesRunning ==
    [][\A r \in Requests : cancelled /\ Running(r) => cancelled' \/ ~Running(r)']_vars
==============================================================================
