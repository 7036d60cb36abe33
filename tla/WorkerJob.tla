------------------------------ MODULE WorkerJob ------------------------------
(***************************************************************************)
(* One claimed job, from execute_claimed_job to the release of its slot:   *)
(* the worker subprocess and its stderr pipe, the reader thread that       *)
(* forwards stream deltas into a channel, the relay thread that posts them *)
(* with sequence numbers and retries, and the final completion report.     *)
(*                                                                         *)
(* The deltas of a job are the numbers 1, 2, ... in the order the model    *)
(* produced them.  Pipe and channel are FIFO, so that each is a pair of    *)
(* counters: the pipe holds forwarded+1 .. emitted, the channel            *)
(* taken+1 .. forwarded.                                                   *)
(*                                                                         *)
(* A job of a contributed cluster has no subprocess: the request runs on   *)
(* the job's own thread, which sends the deltas into the channel itself.   *)
(***************************************************************************)
EXTENDS Integers, Sequences

CONSTANTS MaxDeltas,   \* bound: deltas one worker emits
          BatchMax,    \* STREAM_DELTA_BATCH_MAX_BYTES, in deltas
          Attempts,    \* STREAM_DELTA_RELAY_ATTEMPTS = COMPLETION_DELIVERY_ATTEMPTS
          OrphansEnd   \* whether a descendant that survives the worker ends

ASSUME JobAssumption ==
    /\ MaxDeltas \in Nat
    /\ BatchMax \in Nat \ {0}
    /\ Attempts \in Nat \ {0}
    /\ OrphansEnd \in BOOLEAN

VARIABLES
    native,     \* JSON tool deltas (TRUE) or plain text (FALSE)
    contributed, \* served by a contributed cluster, without a subprocess
    thread,     \* where execute_claimed_job is
    result,     \* status the completion will carry, "none" before
    worker,     \* subprocess or request: "running", "exited", "failed", "killed"
    orphan,     \* a descendant still holds the stderr pipe open
    emitted,    \* deltas written to the pipe
    reader,     \* what sends into the channel, the stderr reader: "reading", "eof"
    forwarded,  \* deltas sent into the channel
    relay,      \* relay thread: "recv", "post", "done", "broken"
    taken,      \* deltas the relay received from the channel
    seq,        \* the relay's sequence number
    batch,      \* the deltas being posted, <<first, last>>
    attempt,    \* number of the POST attempt in progress
    cpJob,      \* the control plane's record of the job
    cpLog,      \* deltas the control plane accepted, in its order
    cpSeq,      \* highest sequence number it accepted
    late        \* requests the client timed out on; they may still arrive

jobKind == <<native, contributed>>
jobVars == <<jobKind, thread, result>>
workerVars == <<worker, orphan, emitted>>
readerVars == <<reader, forwarded>>
relayVars == <<relay, taken, seq, batch, attempt>>
cpVars == <<cpJob, cpLog, cpSeq, late>>
vars == <<jobVars, workerVars, readerVars, relayVars, cpVars>>

Terminal == {"completed", "failed"}

(* A job is executed with stream and an assignment timestamp, so that a    *)
(* relay runs; without them there is no relay and nothing to interleave.   *)
Init ==
    /\ native \in BOOLEAN /\ contributed \in BOOLEAN
    /\ thread = "polling" /\ result = "none"
    /\ worker = "running" /\ orphan = FALSE /\ emitted = 0
    /\ reader = "reading" /\ forwarded = 0
    /\ relay = "recv" /\ taken = 0 /\ seq = 1 /\ batch = <<1, 0>> /\ attempt = 1
    /\ cpJob = "assigned" /\ cpLog = <<>> /\ cpSeq = 0 /\ late = {}

------------------------------------------------------------------------------
(* The worker subprocess.                                                  *)

(* A delta goes into the pipe; a contributed request's is sent at once.    *)
Emit ==
    /\ worker = "running" /\ emitted < MaxDeltas
    /\ emitted' = emitted + 1
    /\ forwarded' = IF contributed THEN emitted' ELSE forwarded
    /\ UNCHANGED <<jobVars, worker, orphan, reader, relayVars, cpVars>>

(* The worker ends by itself.  A process it started, such as a runtime, may *)
(* have inherited its pipe and outlive it.                                 *)
WorkerExits ==
    /\ worker = "running" /\ ~contributed
    /\ worker' \in {"exited", "failed"}
    /\ orphan' \in BOOLEAN
    /\ UNCHANGED <<jobVars, emitted, readerVars, relayVars, cpVars>>

(* A descendant that survived the worker closes the pipe when it ends.     *)
OrphanEnds ==
    /\ orphan
    /\ orphan' = FALSE
    /\ UNCHANGED <<jobVars, worker, emitted, readerVars, relayVars, cpVars>>

(* The pipe reports end of file once nobody holds its write end.           *)
PipeClosed == worker # "running" /\ ~orphan

(* The stderr reader: forwards a delta, or meets the end and drops its     *)
(* sender.                                                                 *)
ReaderForwards ==
    /\ reader = "reading" /\ forwarded < emitted
    /\ forwarded' = forwarded + 1
    /\ UNCHANGED <<jobVars, workerVars, reader, relayVars, cpVars>>

ReaderEnds ==
    /\ reader = "reading" /\ forwarded = emitted /\ PipeClosed
    /\ reader' = "eof"
    /\ UNCHANGED <<jobVars, workerVars, forwarded, relayVars, cpVars>>

------------------------------------------------------------------------------
(* launch_worker_with_stream, on the job's thread.                         *)

(* The poll loop finds that the worker has exited. *)
PollExit ==
    /\ thread = "polling" /\ worker \in {"exited", "failed"} /\ ~contributed
    /\ thread' = "joinReaders"
    /\ UNCHANGED <<jobKind, result, workerVars, readerVars, relayVars, cpVars>>

(* Mutant of JoinReaders: the exit status is not looked at. *)
JoinReadersAnyStatus ==
    /\ thread = "joinReaders" /\ reader = "eof"
    /\ result' \in Terminal
    /\ thread' = "joinRelay"
    /\ UNCHANGED <<jobKind, workerVars, readerVars, relayVars, cpVars>>

(* Both readers are joined, without a timeout.  The job failed unless the  *)
(* exit status is a success and the response that was printed says         *)
(* completed (build_completion_from_worker_response).                      *)
JoinReaders ==
    /\ thread = "joinReaders" /\ reader = "eof"
    /\ result' \in IF worker = "exited" THEN Terminal ELSE {"failed"}
    /\ thread' = "joinRelay"
    /\ UNCHANGED <<jobKind, workerVars, readerVars, relayVars, cpVars>>

(* Mutant of PollTimeout: no hard timeout, and the idle clock only starts  *)
(* with the first delta. *)
PollTimeoutAfterOutput ==
    /\ thread = "polling" /\ ~contributed /\ emitted > 0
    /\ IF worker = "running"
       THEN worker' = "killed" /\ orphan' \in BOOLEAN
       ELSE UNCHANGED <<worker, orphan>>
    /\ result' = "failed"
    /\ thread' = "joinRelay"
    /\ UNCHANGED <<jobKind, emitted, readerVars, relayVars, cpVars>>

(* The idle or the hard timeout: kill_process_tree kills the worker and    *)
(* its direct children; a deeper descendant may survive and hold the pipe. *)
(* The worker may have exited since the loop looked: its answer is lost,   *)
(* and what it left behind stays.  The readers are not joined.             *)
PollTimeout ==
    /\ thread = "polling" /\ ~contributed
    /\ IF worker = "running"
       THEN worker' = "killed" /\ orphan' \in BOOLEAN
       ELSE UNCHANGED <<worker, orphan>>
    /\ result' = "failed"
    /\ thread' = "joinRelay"
    /\ UNCHANGED <<jobKind, emitted, readerVars, relayVars, cpVars>>

(* The request to the contributed cluster is answered, fails or runs into  *)
(* its client's timeout; with_stream_delta_sender drops the sender.        *)
ClusterReturns ==
    /\ thread = "polling" /\ worker = "running" /\ contributed
    /\ \/ worker' = "exited" /\ result' \in Terminal
       \/ worker' = "failed" /\ result' = "failed"
    /\ reader' = "eof"
    /\ thread' = "joinRelay"
    /\ UNCHANGED <<jobKind, orphan, emitted, forwarded, relayVars, cpVars>>

------------------------------------------------------------------------------
(* The control plane (external): what handling a request does to it.       *)

(* /v1/jobs/delta accepts the next sequence number of a live assignment    *)
(* and acknowledges an old one as a duplicate.                             *)
DeltaAccepted(m) == cpJob = "assigned" /\ m.seq = cpSeq + 1
DeltaDuplicate(m) == cpJob = "assigned" /\ m.seq <= cpSeq

ApplyDelta(m) ==
    IF DeltaAccepted(m)
    THEN /\ cpLog' = cpLog \o [i \in 1..(m.last - m.first + 1) |-> m.first + i - 1]
         /\ cpSeq' = m.seq
    ELSE UNCHANGED <<cpLog, cpSeq>>

(* /v1/jobs/complete closes a live assignment. *)
ApplyCompletion(m) == cpJob' = IF cpJob = "assigned" THEN m.status ELSE cpJob

(* The control plane gives the job to another node. *)
Reassign ==
    /\ cpJob = "assigned"
    /\ cpJob' = "reassigned"
    /\ UNCHANGED <<jobVars, workerVars, readerVars, relayVars, cpLog, cpSeq, late>>

(* A request whose client timed out reaches the server after all. *)
LateArrival ==
    \E m \in late :
        /\ late' = late \ {m}
        /\ IF m.kind = "delta"
           THEN ApplyDelta(m) /\ UNCHANGED cpJob
           ELSE ApplyCompletion(m) /\ UNCHANGED <<cpLog, cpSeq>>
        /\ UNCHANGED <<jobVars, workerVars, readerVars, relayVars>>

------------------------------------------------------------------------------
(* The relay thread: relay_job_deltas, coalesce_stream_deltas and          *)
(* post_stream_delta.                                                      *)

(* coalesce_stream_deltas: a JSON delta travels alone; text is joined with *)
(* what the channel holds, up to the batch limit.  (A text fragment that   *)
(* happens to be valid JSON, such as a number, travels alone too.)         *)
BatchSizes == {n \in 1..(IF native THEN 1 ELSE BatchMax) : taken + n <= forwarded}

RelayRecv ==
    /\ relay = "recv"
    /\ \E n \in BatchSizes :
        /\ batch' = <<taken + 1, taken + n>>
        /\ taken' = taken + n
    /\ attempt' = 1
    /\ relay' = "post"
    /\ UNCHANGED <<jobVars, workerVars, readerVars, seq, cpVars>>

(* The channel is empty and its sender is gone. *)
RelayDisconnected ==
    /\ relay = "recv" /\ taken = forwarded /\ reader = "eof"
    /\ relay' = "done"
    /\ UNCHANGED <<jobVars, workerVars, readerVars, taken, seq, batch, attempt, cpVars>>

DeltaRequest == [kind |-> "delta", seq |-> seq, first |-> batch[1], last |-> batch[2]]

(* The POST is answered.  The sequence number moves on only when the delta *)
(* was accepted or known; otherwise the relay stops for good.              *)
RelayAcked ==
    /\ relay = "post"
    /\ ApplyDelta(DeltaRequest)
    /\ IF DeltaAccepted(DeltaRequest) \/ DeltaDuplicate(DeltaRequest)
       THEN relay' = "recv" /\ seq' = seq + 1
       ELSE relay' = "broken" /\ seq' = seq
    /\ UNCHANGED <<jobVars, workerVars, readerVars, taken, batch, attempt, cpJob, late>>

(* A retryable failure (transport, 408, 425, 429, 5xx): the request may    *)
(* still arrive.  The same delta is posted again under the same sequence   *)
(* number until the attempts are used up.                                  *)
RelayRetries ==
    /\ relay = "post" /\ attempt < Attempts
    /\ attempt' = attempt + 1
    /\ late' = late \cup {DeltaRequest}
    /\ UNCHANGED <<jobVars, workerVars, readerVars, relay, taken, seq, batch,
                   cpJob, cpLog, cpSeq>>

(* Mutant of RelayGivesUp: the relay drops the delta and carries on with   *)
(* the next one. *)
RelayGivesUpAndContinues ==
    /\ relay = "post"
    /\ attempt = Attempts
    /\ relay' = "recv"
    /\ late' \in {late, late \cup {DeltaRequest}}
    /\ UNCHANGED <<jobVars, workerVars, readerVars, taken, seq, batch, attempt,
                   cpJob, cpLog, cpSeq>>

(* The last attempt failed, or an error that is not retryable: stop.       *)
RelayGivesUp ==
    /\ relay = "post"
    /\ relay' = "broken"
    /\ \/ attempt = Attempts /\ late' = late \cup {DeltaRequest}
       \/ late' = late
    /\ UNCHANGED <<jobVars, workerVars, readerVars, taken, seq, batch, attempt,
                   cpJob, cpLog, cpSeq>>

RelayStopped == relay \in {"done", "broken"}

------------------------------------------------------------------------------
(* The end of execute_claimed_job. *)

(* Mutant of JoinRelay: the completion does not wait for the relay. *)
JoinRelayEarly ==
    /\ thread = "joinRelay"
    /\ thread' = "completing"
    /\ attempt' = 1
    /\ UNCHANGED <<jobKind, result, workerVars, readerVars, relay, taken, seq,
                   batch, cpVars>>

(* handle.join() on the relay thread. *)
JoinRelay ==
    /\ thread = "joinRelay" /\ RelayStopped
    /\ thread' = "completing"
    /\ attempt' = 1
    /\ UNCHANGED <<jobKind, result, workerVars, readerVars, relay, taken, seq,
                   batch, cpVars>>

CompletionRequest == [kind |-> "complete", status |-> result]

(* complete_job: answered, the response read, the permit dropped. *)
CompleteAcked ==
    /\ thread = "completing"
    /\ ApplyCompletion(CompletionRequest)
    /\ thread' = "released"
    /\ UNCHANGED <<jobKind, result, workerVars, readerVars, relayVars, cpLog, cpSeq, late>>

CompleteRetries ==
    /\ thread = "completing" /\ attempt < Attempts
    /\ attempt' = attempt + 1
    /\ late' = late \cup {CompletionRequest}
    /\ UNCHANGED <<jobVars, workerVars, readerVars, relay, taken, seq, batch,
                   cpJob, cpLog, cpSeq>>

(* Not retryable, or the last attempt: complete_job returns all the same.  *)
CompleteGivesUp ==
    /\ thread = "completing"
    /\ thread' = "released"
    /\ \/ attempt = Attempts
          /\ late' = late \cup {CompletionRequest}
       \/ late' = late
    /\ UNCHANGED <<jobKind, result, workerVars, readerVars, relayVars, cpJob, cpLog, cpSeq>>

------------------------------------------------------------------------------
JobThread == PollExit \/ JoinReaders \/ PollTimeout \/ ClusterReturns \/ JoinRelay
             \/ CompleteAcked \/ CompleteRetries \/ CompleteGivesUp
Reader == ReaderForwards \/ ReaderEnds
Relay == RelayRecv \/ RelayDisconnected \/ RelayAcked \/ RelayRetries \/ RelayGivesUp
Environment == Emit \/ WorkerExits \/ OrphanEnds \/ Reassign \/ LateArrival

Next == JobThread \/ Reader \/ Relay \/ Environment

Spec == Init /\ [][Next]_vars

(* Threads run; every request is answered or times out.  A worker need not *)
(* end by itself: the timeouts of the poll loop bound it, and the client's *)
(* timeout a contributed request.  A surviving descendant is only assumed  *)
(* to end where OrphansEnd says so.                                        *)
FairSpec ==
    /\ Spec
    /\ WF_vars(JobThread) /\ WF_vars(Reader) /\ WF_vars(Relay)
    /\ (OrphansEnd => WF_vars(OrphanEnds))

------------------------------------------------------------------------------
Requests ==
    [kind : {"delta"}, seq : 1..MaxDeltas, first : 1..MaxDeltas, last : 1..MaxDeltas]
    \cup [kind : {"complete"}, status : Terminal]

TypeOK ==
    /\ native \in BOOLEAN /\ contributed \in BOOLEAN
    /\ thread \in {"polling", "joinReaders", "joinRelay", "completing", "released"}
    /\ result \in Terminal \cup {"none"}
    /\ worker \in {"running", "exited", "failed", "killed"}
    /\ orphan \in BOOLEAN
    /\ reader \in {"reading", "eof"}
    /\ relay \in {"recv", "post", "done", "broken"}
    /\ emitted \in 0..MaxDeltas /\ forwarded \in 0..emitted /\ taken \in 0..forwarded
    /\ seq \in 1..(MaxDeltas + 1)
    /\ batch \in (1..(MaxDeltas + 1)) \X (0..MaxDeltas)
    /\ attempt \in 1..Attempts
    /\ cpJob \in Terminal \cup {"assigned", "reassigned"}
    /\ cpLog \in Seq(1..MaxDeltas) /\ cpSeq \in 0..MaxDeltas
    /\ late \subseteq Requests

(* However often a delta is retried, and however late a request arrives,   *)
(* the stream a reader of the control plane sees is the beginning of what  *)
(* the model produced: no gap, no repetition, no reordering.               *)
StreamIsPrefix == cpLog = [i \in 1..Len(cpLog) |-> i]

(* A relay that ended without giving up has delivered every delta of the   *)
(* worker, the killed worker's last ones included.                         *)
CleanRelayIsComplete ==
    relay = "done" /\ cpJob # "reassigned" => Len(cpLog) = emitted

(* Each JSON delta of a native tool stream is posted by itself, so that    *)
(* the control plane never sees two objects glued together.                *)
NativeDeltasTravelAlone ==
    native => \A m \in late \cup {DeltaRequest} :
                 m.kind = "delta" => m.last <= m.first

(* The report of a job is never overtaken by its own live stream: from the *)
(* first completion request on, no delta request is sent any more.         *)
NoDeltaSentAfterCompletion ==
    [][(thread \in {"completing", "released"})
         => \A m \in late' \ late : m.kind = "complete"]_vars

(* The control plane records success only for a worker that exited with    *)
(* success and whose result the node had read.                             *)
CompletedMeansWorkerSucceeded ==
    cpJob = "completed" => worker = "exited" /\ result = "completed"

(* The slot comes back: whatever the worker and the network do, the job's  *)
(* thread ends and drops its permit.                                       *)
SlotIsReleased == <>(thread = "released")

(* What launch_worker_with_stream expects of kill_process_tree: it closes  *)
(* every handle, so that the pipe's reader unwinds and the job ends.       *)
KillFreesSlot == (worker = "killed") ~> (thread = "released")
==============================================================================
