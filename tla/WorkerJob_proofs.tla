-------------------------- MODULE WorkerJob_proofs --------------------------
(***************************************************************************)
(* Proofs about WorkerJob for any number of deltas, any batch limit and    *)
(* any number of attempts: what the control plane holds of a stream, and   *)
(* what its record of the job says.                                        *)
(*                                                                         *)
(* That the log is a prefix is not inductive: a request that timed out may *)
(* arrive at any later time.  The invariant relates log, sequence numbers  *)
(* and the batch in flight, and says of every request still under way that *)
(* it is either the one being posted or old enough to be a duplicate.      *)
(***************************************************************************)
EXTENDS WorkerJob, SequenceTheorems, TLAPS

Count(n) == [i \in 1..n |-> i]

Counters ==
    /\ emitted \in Nat /\ forwarded \in Nat /\ taken \in Nat
    /\ taken <= forwarded /\ forwarded <= emitted
    /\ seq \in Nat \ {0} /\ cpSeq \in Nat
    /\ reader = "eof" => forwarded = emitted /\ worker # "running"
    /\ contributed => forwarded = emitted
    /\ relay = "done" => taken = forwarded /\ reader = "eof"
    /\ relay \in {"recv", "post", "done", "broken"}

(* The batch being posted, or given up, ends at what the relay has taken.  *)
Posting == relay \in {"post", "broken"}

Batch ==
    /\ DOMAIN batch = 1..2
    /\ Posting => /\ batch[1] \in Nat \ {0} /\ batch[2] = taken
                  /\ batch[1] <= batch[2]

(* What the control plane has: everything the relay took, or everything    *)
(* before the batch in flight.                                             *)
Log ==
    \E n \in Nat :
        /\ cpLog = Count(n)
        /\ \/ n = taken /\ cpSeq = IF Posting THEN seq ELSE seq - 1
           \/ Posting /\ n = batch[1] - 1 /\ cpSeq = seq - 1

(* A delta request under way is the one in flight, or was answered for.    *)
InFlight(m) ==
    m.kind = "delta" =>
        /\ m.seq \in Nat
        /\ \/ m.seq < seq
           \/ Posting /\ m.seq = seq /\ m.first = batch[1] /\ m.last = batch[2]

DeltaInv == Counters /\ Batch /\ Log /\ \A m \in late : InFlight(m)

(* What is recorded, and what is under way to be recorded, is the result   *)
(* the job's thread found.                                                 *)
ReportInv ==
    /\ thread \in {"completing", "released"} => RelayStopped
    /\ thread \in {"polling", "joinReaders"} <=> result = "none"
    /\ result = "completed" => worker = "exited"
    /\ cpJob = "completed" => result = "completed"
    /\ \A m \in late : m.kind = "delta" \/ (m.status = result /\ result # "none")

------------------------------------------------------------------------------
(* A batch appended to the log continues it. *)
LEMMA CountExtends ==
    ASSUME NEW first \in Nat \ {0}, NEW last \in Nat, first <= last
    PROVE  Count(first - 1) \o [i \in 1..(last - first + 1) |-> first + i - 1] = Count(last)
<1> DEFINE s == Count(first - 1)
           t == [i \in 1..(last - first + 1) |-> first + i - 1]
<1>1. s \in Seq(Nat) /\ Len(s) = first - 1 /\ \A i \in 1..(first - 1) : s[i] = i
  BY DEF Count
<1>2. t \in Seq(Nat) /\ Len(t) = last - first + 1
      /\ \A i \in 1..(last - first + 1) : t[i] = first + i - 1
  OBVIOUS
<1> HIDE DEF s, t
<1>3. /\ s \o t \in Seq(Nat) /\ Len(s \o t) = last
      /\ \A i \in 1..last : (s \o t)[i] = i
  <2>1. /\ s \o t \in Seq(Nat) /\ Len(s \o t) = Len(s) + Len(t)
        /\ \A i \in 1 .. Len(s) + Len(t) :
              (s \o t)[i] = IF i <= Len(s) THEN s[i] ELSE t[i - Len(s)]
    BY <1>1, <1>2, ConcatProperties
  <2>2. Len(s) + Len(t) = last
    BY <1>1, <1>2
  <2>3. ASSUME NEW i \in 1..last PROVE (s \o t)[i] = i
    <3>1. CASE i <= first - 1
      BY <1>1, <2>1, <2>2, <3>1
    <3>2. CASE ~(i <= first - 1)
      <4>1. i - (first - 1) \in 1..(last - first + 1)
        BY <3>2
      <4>2. t[i - (first - 1)] = first + (i - (first - 1)) - 1
        BY <1>2, <4>1
      <4>3. (s \o t)[i] = t[i - (first - 1)]
        BY <1>1, <2>1, <2>2, <3>2
      <4>4. first + (i - (first - 1)) - 1 = i
        OBVIOUS
      <4> QED BY <4>2, <4>3, <4>4
    <3> QED BY <3>1, <3>2
  <2> QED BY <2>1, <2>2, <2>3
<1>4. Count(last) \in Seq(Nat) /\ Len(Count(last)) = last /\ \A i \in 1..last : Count(last)[i] = i
  BY DEF Count
<1> QED BY <1>3, <1>4, SeqEqual DEF s, t

(* What the control plane does with a request that is in order. *)
LEMMA ApplyKeepsLog ==
    ASSUME DeltaInv, NEW m, m.kind = "delta", InFlight(m), ApplyDelta(m),
           UNCHANGED <<relay, taken, seq, batch>>
    PROVE  Log' /\ cpSeq' \in Nat
                /\ (DeltaAccepted(m) /\ m.seq = seq => cpLog' = Count(taken) /\ cpSeq' = seq)
<1>1. PICK n \in Nat :
        /\ cpLog = Count(n)
        /\ \/ n = taken /\ cpSeq = IF Posting THEN seq ELSE seq - 1
           \/ Posting /\ n = batch[1] - 1 /\ cpSeq = seq - 1
  BY DEF DeltaInv, Log
<1>2. Posting' = Posting
  BY DEF Posting
<1>3. CASE ~DeltaAccepted(m)
  <2>1. cpLog' = cpLog /\ cpSeq' = cpSeq
    BY <1>3 DEF ApplyDelta
  <2> QED BY <1>1, <1>2, <1>3, <2>1 DEF Log, DeltaInv, Counters
<1>4. CASE DeltaAccepted(m)
  <2>1. Posting /\ m.seq = seq /\ m.first = batch[1] /\ m.last = batch[2]
        /\ cpSeq = seq - 1 /\ n = batch[1] - 1
    BY <1>1, <1>4 DEF DeltaAccepted, InFlight, DeltaInv, Counters, Posting
  <2>2. /\ cpLog' = cpLog \o [i \in 1..(m.last - m.first + 1) |-> m.first + i - 1]
        /\ cpSeq' = seq
    BY <1>4, <2>1 DEF ApplyDelta
  <2>3. batch[1] \in Nat \ {0} /\ batch[2] = taken /\ batch[1] <= batch[2] /\ taken \in Nat
    BY <2>1 DEF DeltaInv, Batch, Counters
  <2>4. Count(batch[1] - 1) \o [i \in 1..(taken - batch[1] + 1) |-> batch[1] + i - 1]
          = Count(taken)
    BY <2>3, CountExtends
  <2>5. cpLog' = Count(taken)
    BY <1>1, <2>1, <2>2, <2>3, <2>4
  <2> QED BY <1>2, <2>1, <2>2, <2>5 DEF Log, DeltaInv, Counters
<1> QED BY <1>3, <1>4

------------------------------------------------------------------------------
(* A step that leaves the relay and the log alone and sends no delta. *)
LEMMA QuietStep ==
    ASSUME DeltaInv, Counters',
           UNCHANGED <<relay, taken, seq, batch, cpLog, cpSeq>>,
           \A m \in late' : m \in late \/ m.kind # "delta"
    PROVE  DeltaInv'
<1>1. Posting' = Posting
  BY DEF Posting
<1>2. Batch'
  BY <1>1 DEF DeltaInv, Batch
<1>3. Log'
  BY <1>1 DEF DeltaInv, Log
<1>4. ASSUME NEW m \in late' PROVE InFlight(m)'
  <2>1. CASE m \in late
    <3>1. InFlight(m)
      BY <2>1 DEF DeltaInv
    <3> QED BY <1>1, <3>1 DEF InFlight
  <2>2. CASE m.kind # "delta"
    BY <2>2 DEF InFlight
  <2> QED BY <1>4, <2>1, <2>2
<1> QED BY <1>2, <1>3, <1>4 DEF DeltaInv

(* Worker, reader, poll loop and completion are such steps. *)
LEMMA EnvironmentKeepsDelta ==
    ASSUME DeltaInv, Emit \/ WorkerExits \/ OrphanEnds \/ Reassign
    PROVE  DeltaInv'
<1>1. Counters' /\ UNCHANGED <<relay, taken, seq, batch, cpLog, cpSeq, late>>
  <2>1. CASE Emit
    BY <2>1 DEF Emit, DeltaInv, Counters, relayVars, cpVars, jobVars, jobKind
  <2>2. CASE WorkerExits
    BY <2>2 DEF WorkerExits, DeltaInv, Counters, relayVars, cpVars, readerVars, jobVars, jobKind
  <2>3. CASE OrphanEnds
    BY <2>3 DEF OrphanEnds, DeltaInv, Counters, relayVars, cpVars, readerVars, jobVars, jobKind
  <2>4. CASE Reassign
    BY <2>4 DEF Reassign, DeltaInv, Counters, relayVars, readerVars, workerVars, jobVars, jobKind
  <2> QED BY <2>1, <2>2, <2>3, <2>4
<1> QED BY <1>1, QuietStep

LEMMA ReaderKeepsDelta ==
    ASSUME DeltaInv, Reader
    PROVE  DeltaInv'
<1>1. Counters' /\ UNCHANGED <<relay, taken, seq, batch, cpLog, cpSeq, late>>
  <2>1. CASE ReaderForwards
    BY <2>1 DEF ReaderForwards, DeltaInv, Counters, relayVars, cpVars, workerVars, jobVars, jobKind
  <2>2. CASE ReaderEnds
    BY <2>2 DEF ReaderEnds, PipeClosed, DeltaInv, Counters, relayVars, cpVars, workerVars,
                jobVars, jobKind
  <2> QED BY <2>1, <2>2 DEF Reader
<1> QED BY <1>1, QuietStep

LEMMA JobThreadKeepsDelta ==
    ASSUME DeltaInv, JobThread
    PROVE  DeltaInv'
<1>1. /\ Counters' /\ UNCHANGED <<relay, taken, seq, batch, cpLog, cpSeq>>
      /\ late' \subseteq late \cup {CompletionRequest}
  <2>1. CASE PollExit \/ JoinReaders
    BY <2>1 DEF PollExit, JoinReaders, DeltaInv, Counters, relayVars, cpVars, workerVars,
                readerVars, jobKind
  <2>2. CASE PollTimeout
    BY <2>2 DEF PollTimeout, DeltaInv, Counters, relayVars, cpVars, readerVars, jobKind
  <2>7. CASE ClusterReturns
    BY <2>7 DEF ClusterReturns, DeltaInv, Counters, relayVars, cpVars, jobKind
  <2>3. CASE JoinRelay
    BY <2>3 DEF JoinRelay, DeltaInv, Counters, cpVars, workerVars, readerVars, jobKind
  <2>4. CASE CompleteAcked
    BY <2>4 DEF CompleteAcked, DeltaInv, Counters, relayVars, workerVars, readerVars, jobKind
  <2>5. CASE CompleteRetries
    BY <2>5 DEF CompleteRetries, DeltaInv, Counters, workerVars, readerVars, jobVars, jobKind
  <2>6. CASE CompleteGivesUp
    BY <2>6 DEF CompleteGivesUp, DeltaInv, Counters, relayVars, workerVars, readerVars, jobKind
  <2> QED BY <2>1, <2>2, <2>3, <2>4, <2>5, <2>6, <2>7 DEF JobThread
<1>2. CompletionRequest.kind # "delta"
  BY DEF CompletionRequest
<1>3. \A m \in late' : m \in late \/ m.kind # "delta"
  BY <1>1, <1>2
<1> QED BY <1>1, <1>3, QuietStep

------------------------------------------------------------------------------
(* The relay receives a batch: what it had taken is what the log holds. *)
LEMMA RecvKeepsDelta ==
    ASSUME DeltaInv, RelayRecv
    PROVE  DeltaInv'
<1>1. PICK n \in BatchSizes : batch' = <<taken + 1, taken + n>> /\ taken' = taken + n
  BY DEF RelayRecv
<1>2. n \in Nat \ {0} /\ taken + n <= forwarded
  <2>1. n \in 1..(IF native THEN 1 ELSE BatchMax) /\ taken + n <= forwarded
    BY <1>1 DEF BatchSizes
  <2>2. (IF native THEN 1 ELSE BatchMax) \in Nat
    BY JobAssumption
  <2> QED BY <2>1, <2>2
<1>3. /\ relay = "recv" /\ relay' = "post"
      /\ UNCHANGED <<seq, forwarded, reader, emitted, worker, contributed, cpLog, cpSeq, late>>
  BY DEF RelayRecv, readerVars, workerVars, cpVars, jobVars, jobKind
<1>4. ~Posting /\ Posting'
  BY <1>3 DEF Posting
<1>5. taken \in Nat /\ batch'[1] = taken + 1 /\ batch'[2] = taken + n /\ DOMAIN batch' = 1..2
  BY <1>1 DEF DeltaInv, Counters
<1>6. Counters'
  BY <1>1, <1>2, <1>3 DEF DeltaInv, Counters
<1>7. Batch'
  BY <1>1, <1>2, <1>5 DEF Batch
<1>8. Log'
  <2>1. cpLog = Count(taken) /\ cpSeq = seq - 1
    BY <1>4 DEF DeltaInv, Log
  <2>2. batch'[1] - 1 = taken
    BY <1>5
  <2> QED BY <1>3, <1>4, <1>5, <2>1, <2>2 DEF Log
<1>9. ASSUME NEW m \in late' PROVE InFlight(m)'
  <2>1. InFlight(m)
    BY <1>3, <1>9 DEF DeltaInv
  <2> QED BY <1>3, <1>4, <2>1 DEF InFlight
<1> QED BY <1>6, <1>7, <1>8, <1>9 DEF DeltaInv

LEMMA DisconnectKeepsDelta ==
    ASSUME DeltaInv, RelayDisconnected
    PROVE  DeltaInv'
<1>1. /\ relay = "recv" /\ relay' = "done" /\ taken = forwarded /\ reader = "eof"
      /\ UNCHANGED <<taken, seq, batch, forwarded, reader, emitted, worker, contributed, cpLog, cpSeq, late>>
  BY DEF RelayDisconnected, readerVars, workerVars, cpVars, jobVars, jobKind
<1>2. ~Posting /\ ~Posting'
  BY <1>1 DEF Posting
<1>3. Counters'
  BY <1>1 DEF DeltaInv, Counters
<1>4. Batch'
  BY <1>1, <1>2 DEF DeltaInv, Batch
<1>5. Log'
  <2>1. cpLog = Count(taken) /\ cpSeq = seq - 1 /\ taken \in Nat
    BY <1>2 DEF DeltaInv, Log, Counters
  <2> QED BY <1>1, <1>2, <2>1 DEF Log
<1>6. \A m \in late' : InFlight(m)'
  BY <1>1, <1>2 DEF DeltaInv, InFlight
<1> QED BY <1>3, <1>4, <1>5, <1>6 DEF DeltaInv

(* The request the relay posts is in order. *)
LEMMA RequestInFlight ==
    ASSUME DeltaInv, Posting
    PROVE  DeltaRequest.kind = "delta" /\ InFlight(DeltaRequest)
BY DEF DeltaInv, Counters, InFlight, DeltaRequest

(* Retrying and giving up add the request in flight to those under way. *)
LEMMA RetryKeepsDelta ==
    ASSUME DeltaInv, relay = "post", relay' \in {"post", "broken"},
           UNCHANGED <<taken, seq, batch, forwarded, reader, emitted, worker, contributed, cpLog, cpSeq>>,
           late' \subseteq late \cup {DeltaRequest}
    PROVE  DeltaInv'
<1>1. Posting /\ Posting'
  BY DEF Posting
<1>2. Counters' /\ Batch'
  BY <1>1 DEF DeltaInv, Counters, Batch
<1>3. Log'
  BY <1>1 DEF DeltaInv, Log
<1>4. ASSUME NEW m \in late' PROVE InFlight(m)'
  <2>1. InFlight(m)
    BY <1>1, <1>4, RequestInFlight DEF DeltaInv
  <2> QED BY <1>1, <2>1 DEF InFlight
<1> QED BY <1>2, <1>3, <1>4 DEF DeltaInv

(* An acknowledged delta is in the log; one refused leaves it in flight. *)
LEMMA AckKeepsDelta ==
    ASSUME DeltaInv, RelayAcked
    PROVE  DeltaInv'
<1>1. /\ relay = "post" /\ ApplyDelta(DeltaRequest)
      /\ UNCHANGED <<taken, batch, forwarded, reader, emitted, worker, contributed, late>>
  BY DEF RelayAcked, readerVars, workerVars, jobVars, jobKind
<1>2. Posting /\ DeltaRequest.seq = seq /\ DeltaRequest.kind = "delta" /\ InFlight(DeltaRequest)
  <2>1. Posting
    BY <1>1 DEF Posting
  <2> QED BY <2>1, RequestInFlight DEF DeltaRequest
<1>3. \A m \in late : InFlight(m)
  BY DEF DeltaInv
<1>4. PICK n \in Nat :
        /\ cpLog = Count(n)
        /\ \/ n = taken /\ cpSeq = seq
           \/ n = batch[1] - 1 /\ cpSeq = seq - 1
  BY <1>2 DEF DeltaInv, Log
<1>5. seq \in Nat \ {0} /\ taken \in Nat
  BY DEF DeltaInv, Counters
<1>6. CASE DeltaAccepted(DeltaRequest) \/ DeltaDuplicate(DeltaRequest)
  <2>1. relay' = "recv" /\ seq' = seq + 1
    BY <1>6 DEF RelayAcked
  <2>2. ~Posting'
    BY <2>1 DEF Posting
  <2>3. cpLog' = Count(taken) /\ cpSeq' = seq
    <3>1. CASE DeltaAccepted(DeltaRequest)
      <4>1. n = batch[1] - 1 /\ cpSeq = seq - 1
        BY <1>2, <1>4, <1>5, <3>1 DEF DeltaAccepted
      <4>2. batch[1] \in Nat \ {0} /\ batch[2] = taken /\ batch[1] <= batch[2]
        BY <1>2 DEF DeltaInv, Batch
      <4>3. Count(batch[1] - 1) \o [i \in 1..(taken - batch[1] + 1) |-> batch[1] + i - 1]
              = Count(taken)
        BY <1>5, <4>2, CountExtends
      <4>4. DeltaRequest.first = batch[1] /\ DeltaRequest.last = batch[2]
        BY DEF DeltaRequest
      <4>5. cpLog' = cpLog \o [i \in 1..(batch[2] - batch[1] + 1) |-> batch[1] + i - 1]
            /\ cpSeq' = seq
        BY <1>1, <1>2, <3>1, <4>4 DEF ApplyDelta
      <4> QED BY <1>4, <4>1, <4>2, <4>3, <4>5
    <3>2. CASE ~DeltaAccepted(DeltaRequest)
      <4>1. seq <= cpSeq
        BY <1>2, <1>6, <3>2 DEF DeltaDuplicate
      <4>2. cpLog' = cpLog /\ cpSeq' = cpSeq
        BY <1>1, <3>2 DEF ApplyDelta
      <4> QED BY <1>4, <1>5, <4>1, <4>2
    <3> QED BY <3>1, <3>2
  <2>4. Counters'
    BY <1>1, <1>5, <2>1, <2>3 DEF DeltaInv, Counters
  <2>5. Batch'
    BY <1>1, <2>2 DEF DeltaInv, Batch
  <2>6. Log'
    BY <1>1, <1>5, <2>1, <2>2, <2>3 DEF Log
  <2>7. ASSUME NEW m \in late' PROVE InFlight(m)'
    <3>1. InFlight(m)
      BY <1>1, <1>3, <2>7
    <3> QED BY <1>5, <2>1, <3>1 DEF InFlight
  <2> QED BY <2>4, <2>5, <2>6, <2>7 DEF DeltaInv
<1>7. CASE ~(DeltaAccepted(DeltaRequest) \/ DeltaDuplicate(DeltaRequest))
  <2>1. relay' = "broken" /\ seq' = seq /\ cpLog' = cpLog /\ cpSeq' = cpSeq
    BY <1>1, <1>7 DEF RelayAcked, ApplyDelta
  <2> QED BY <1>1, <2>1, RetryKeepsDelta
<1> QED BY <1>6, <1>7

(* A request that arrives late is applied, or known already. *)
LEMMA LateKeepsDelta ==
    ASSUME DeltaInv, LateArrival
    PROVE  DeltaInv'
<1>1. PICK m \in late :
        /\ late' = late \ {m}
        /\ IF m.kind = "delta"
           THEN ApplyDelta(m) /\ UNCHANGED cpJob
           ELSE ApplyCompletion(m) /\ UNCHANGED <<cpLog, cpSeq>>
  BY DEF LateArrival
<1>2. UNCHANGED <<relay, taken, seq, batch, forwarded, reader, emitted, worker, contributed>>
  BY DEF LateArrival, relayVars, readerVars, workerVars, jobVars, jobKind
<1>3. InFlight(m)
  BY DEF DeltaInv
<1>4. CASE m.kind = "delta"
  <2>1. Log' /\ cpSeq' \in Nat
    BY <1>1, <1>2, <1>3, <1>4, ApplyKeepsLog
  <2>2. Counters'
    BY <1>2, <2>1 DEF DeltaInv, Counters
  <2>3. Posting' = Posting
    BY <1>2 DEF Posting
  <2>4. Batch'
    BY <1>2, <2>3 DEF DeltaInv, Batch
  <2>5. \A k \in late' : InFlight(k)'
    BY <1>1, <1>2, <2>3 DEF DeltaInv, InFlight
  <2> QED BY <2>1, <2>2, <2>4, <2>5 DEF DeltaInv
<1>5. CASE m.kind # "delta"
  <2>1. UNCHANGED <<cpLog, cpSeq>>
    BY <1>1, <1>5
  <2>2. Counters'
    BY <1>2, <2>1 DEF DeltaInv, Counters
  <2> QED BY <1>1, <1>2, <2>1, <2>2, QuietStep
<1> QED BY <1>4, <1>5

LEMMA RelayKeepsDelta ==
    ASSUME DeltaInv, Relay
    PROVE  DeltaInv'
<1>1. CASE RelayRecv
  BY <1>1, RecvKeepsDelta
<1>2. CASE RelayDisconnected
  BY <1>2, DisconnectKeepsDelta
<1>3. CASE RelayAcked
  BY <1>3, AckKeepsDelta
<1>4. CASE RelayRetries
  BY <1>4, RetryKeepsDelta DEF RelayRetries, readerVars, workerVars, jobVars, jobKind
<1>5. CASE RelayGivesUp
  BY <1>5, RetryKeepsDelta DEF RelayGivesUp, readerVars, workerVars, jobVars, jobKind
<1> QED BY <1>1, <1>2, <1>3, <1>4, <1>5 DEF Relay

(* Whatever is retried, lost or late, the log, the sequence numbers and    *)
(* the batch in flight of relay_job_deltas stay in step.                   *)
THEOREM DeltaInvariant == Spec => []DeltaInv
<1>1. Init => DeltaInv
  <2> SUFFICES ASSUME Init PROVE DeltaInv
    OBVIOUS
  <2>1. Counters /\ Batch /\ late = {} /\ ~Posting
    BY DEF Init, Counters, Batch, Posting
  <2>2. <<>> = Count(0)
    BY DEF Count
  <2>3. Log
    BY <2>1, <2>2 DEF Init, Log
  <2> QED BY <2>1, <2>3 DEF DeltaInv
<1>2. DeltaInv /\ [Next]_vars => DeltaInv'
  <2> SUFFICES ASSUME DeltaInv, [Next]_vars PROVE DeltaInv'
    OBVIOUS
  <2>1. CASE JobThread
    BY <2>1, JobThreadKeepsDelta
  <2>2. CASE Reader
    BY <2>2, ReaderKeepsDelta
  <2>3. CASE Relay
    BY <2>3, RelayKeepsDelta
  <2>4. CASE Environment
    BY <2>4, EnvironmentKeepsDelta, LateKeepsDelta DEF Environment
  <2>5. CASE UNCHANGED vars
    <3>1. Counters' /\ UNCHANGED <<relay, taken, seq, batch, cpLog, cpSeq, late>>
      BY <2>5 DEF vars, relayVars, cpVars, readerVars, workerVars, jobVars, jobKind, DeltaInv,
                  Counters
    <3> QED BY <3>1, QuietStep
  <2> QED BY <2>1, <2>2, <2>3, <2>4, <2>5 DEF Next
<1> QED BY <1>1, <1>2, PTL DEF Spec

(* StreamIsPrefix for every number of deltas, batch limit and number of    *)
(* attempts: post_stream_delta may retry, time out and be answered late,   *)
(* and still the control plane holds a beginning of what the worker wrote. *)
THEOREM StreamStaysPrefix == Spec => []StreamIsPrefix
<1>1. DeltaInv => StreamIsPrefix
  <2> SUFFICES ASSUME DeltaInv PROVE StreamIsPrefix
    OBVIOUS
  <2>1. PICK n \in Nat : cpLog = Count(n)
    BY DEF DeltaInv, Log
  <2>2. Len(cpLog) = n
    BY <2>1 DEF Count
  <2> QED BY <2>1, <2>2 DEF StreamIsPrefix, Count
<1> QED BY <1>1, DeltaInvariant, PTL

(* A relay thread that ended because its channel closed, and not because   *)
(* it gave up, has delivered every delta the worker wrote to its stderr.   *)
THEOREM CleanRelayDelivers == Spec => []CleanRelayIsComplete
<1>1. DeltaInv => CleanRelayIsComplete
  <2> SUFFICES ASSUME DeltaInv, relay = "done" PROVE Len(cpLog) = emitted
    BY DEF CleanRelayIsComplete
  <2>1. ~Posting /\ taken = emitted /\ taken \in Nat
    BY DEF Posting, DeltaInv, Counters
  <2>2. cpLog = Count(taken)
    BY <2>1 DEF DeltaInv, Log
  <2> QED BY <2>1, <2>2 DEF Count
<1> QED BY <1>1, DeltaInvariant, PTL

(* What coalesce_stream_deltas joins is text: a native tool stream is      *)
(* posted, posted again and delivered late one JSON delta at a time.       *)
THEOREM NativeDeltasAreSingle == Spec => []NativeDeltasTravelAlone
<1> DEFINE Alone == native => \A m \in late \cup {DeltaRequest} :
                                 m.kind = "delta" => m.last <= m.first
<1>1. Init => Alone
  BY DEF Init, DeltaRequest
<1>2. DeltaInv /\ Alone /\ [Next]_vars => Alone'
  <2> SUFFICES ASSUME DeltaInv, Alone, [Next]_vars PROVE Alone'
    OBVIOUS
  <2>1. CASE RelayRecv
    <3>1. PICK n \in BatchSizes : batch' = <<taken + 1, taken + n>>
      BY <2>1 DEF RelayRecv
    <3>2. native => n = 1
      BY <3>1 DEF BatchSizes
    <3>3. DeltaRequest'.first = taken + 1 /\ DeltaRequest'.last = taken + n
      BY <3>1 DEF DeltaRequest
    <3>4. native' = native /\ late' = late /\ taken \in Nat
      BY <2>1 DEF RelayRecv, jobVars, jobKind, cpVars, DeltaInv, Counters
    <3> QED BY <3>2, <3>3, <3>4
  <2>2. CASE ~RelayRecv
    <3>1. native' = native /\ batch' = batch
      BY <2>2 DEF Next, JobThread, PollExit, JoinReaders, PollTimeout, ClusterReturns,
         JoinRelay, CompleteAcked,
         CompleteRetries, CompleteGivesUp, Reader, ReaderForwards, ReaderEnds, Relay,
         RelayDisconnected, RelayAcked, RelayRetries, RelayGivesUp, Environment, Emit,
         WorkerExits, OrphanEnds, Reassign, LateArrival, vars, jobVars, jobKind, relayVars
    <3>2. late' \subseteq late \cup {DeltaRequest, CompletionRequest}
      BY <2>2 DEF Next, JobThread, PollExit, JoinReaders, PollTimeout, ClusterReturns,
         JoinRelay, CompleteAcked,
         CompleteRetries, CompleteGivesUp, Reader, ReaderForwards, ReaderEnds, Relay,
         RelayDisconnected, RelayAcked, RelayRetries, RelayGivesUp, Environment, Emit,
         WorkerExits, OrphanEnds, Reassign, LateArrival, vars, cpVars
    <3>3. CompletionRequest.kind # "delta" /\ DeltaRequest.last = batch[2]
          /\ DeltaRequest.first = batch[1] /\ DeltaRequest.kind = "delta"
      BY DEF CompletionRequest, DeltaRequest
    <3>4. DeltaRequest'.last = batch'[2] /\ DeltaRequest'.first = batch'[1]
      BY DEF DeltaRequest
    <3>5. native => batch[2] <= batch[1]
      BY <3>3
    <3> QED BY <3>1, <3>2, <3>3, <3>4, <3>5
  <2> QED BY <2>1, <2>2
<1>3. Alone <=> NativeDeltasTravelAlone
  BY DEF NativeDeltasTravelAlone
<1> QED BY <1>1, <1>2, <1>3, DeltaInvariant, PTL DEF Spec

------------------------------------------------------------------------------
(* The report invariant, one step per action that touches it. *)
LEMMA ReportInit == Init => ReportInv
BY DEF Init, ReportInv

LEMMA ReportStep ==
    ASSUME ReportInv, [Next]_vars
    PROVE  ReportInv'
<1> USE DEF ReportInv, RelayStopped
<1>1. CASE PollExit \/ JoinReaders
  BY <1>1 DEF PollExit, JoinReaders, Terminal, workerVars, relayVars, cpVars
<1>2. CASE PollTimeout
  BY <1>2 DEF PollTimeout, relayVars, cpVars
<1>18. CASE ClusterReturns
  BY <1>18 DEF ClusterReturns, Terminal, relayVars, cpVars
<1>3. CASE JoinRelay
  BY <1>3 DEF JoinRelay, workerVars, cpVars
<1>4. CASE CompleteAcked
  BY <1>4 DEF CompleteAcked, ApplyCompletion, CompletionRequest, workerVars, relayVars
<1>5. CASE CompleteRetries
  BY <1>5 DEF CompleteRetries, CompletionRequest, jobVars, workerVars
<1>6. CASE CompleteGivesUp
  BY <1>6 DEF CompleteGivesUp, CompletionRequest, workerVars, relayVars
<1>7. CASE Reader
  BY <1>7 DEF Reader, ReaderForwards, ReaderEnds, jobVars, workerVars, relayVars, cpVars
<1>8. CASE RelayRecv
  BY <1>8 DEF RelayRecv, jobVars, workerVars, cpVars
<1>9. CASE RelayDisconnected
  BY <1>9 DEF RelayDisconnected, jobVars, workerVars, cpVars
<1>10. CASE RelayAcked
  BY <1>10 DEF RelayAcked, jobVars, workerVars
<1>11. CASE RelayRetries
  BY <1>11 DEF RelayRetries, DeltaRequest, jobVars, workerVars
<1>12. CASE RelayGivesUp
  BY <1>12 DEF RelayGivesUp, DeltaRequest, jobVars, workerVars
<1>13. CASE Emit \/ OrphanEnds
  BY <1>13 DEF Emit, OrphanEnds, jobVars, relayVars, cpVars
<1>14. CASE WorkerExits
  BY <1>14 DEF WorkerExits, jobVars, relayVars, cpVars
<1>15. CASE Reassign
  BY <1>15 DEF Reassign, jobVars, workerVars, relayVars
<1>16. CASE LateArrival
  <2>1. PICK m \in late :
          /\ late' = late \ {m}
          /\ IF m.kind = "delta" THEN UNCHANGED cpJob ELSE ApplyCompletion(m)
    BY <1>16 DEF LateArrival
  <2>2. UNCHANGED <<thread, result, worker, relay>>
    BY <1>16 DEF LateArrival, jobVars, workerVars, relayVars
  <2> QED BY <2>1, <2>2 DEF ApplyCompletion
<1>17. CASE UNCHANGED vars
  BY <1>17 DEF vars, jobVars, workerVars, relayVars, cpVars
<1> QED BY <1>1, <1>2, <1>3, <1>4, <1>5, <1>6, <1>7, <1>8, <1>9, <1>10, <1>11,
           <1>12, <1>13, <1>14, <1>15, <1>16, <1>17, <1>18
        DEF Next, JobThread, Relay, Environment

THEOREM ReportInvariant == Spec => []ReportInv
BY ReportInit, ReportStep, PTL DEF Spec

(* CompletedMeansWorkerSucceeded for every constant: no retry, late        *)
(* arrival or timeout makes the control plane record a success that        *)
(* launch_worker_with_stream did not see.                                  *)
THEOREM SuccessIsTrue == Spec => []CompletedMeansWorkerSucceeded
<1>1. ReportInv => CompletedMeansWorkerSucceeded
  BY DEF ReportInv, CompletedMeansWorkerSucceeded
<1> QED BY <1>1, ReportInvariant, PTL

(* execute_claimed_job joins the relay before complete_job: from the first *)
(* completion request on, no step sends a delta.                           *)
THEOREM CompletionIsLast == Spec => NoDeltaSentAfterCompletion
<1>1. ReportInv /\ [Next]_vars =>
        [(thread \in {"completing", "released"})
           => \A m \in late' \ late : m.kind = "complete"]_vars
  <2> SUFFICES ASSUME ReportInv, Next, thread \in {"completing", "released"}
               PROVE  \A m \in late' \ late : m.kind = "complete"
    OBVIOUS
  <2>1. RelayStopped
    BY DEF ReportInv
  <2>2. CASE JobThread
    BY <2>2 DEF JobThread, PollExit, JoinReaders, PollTimeout, ClusterReturns,
         JoinRelay, CompleteAcked,
                CompleteRetries, CompleteGivesUp, CompletionRequest, cpVars
  <2>3. CASE Reader
    BY <2>3 DEF Reader, ReaderForwards, ReaderEnds, cpVars
  <2>4. CASE Relay
    BY <2>1, <2>4 DEF Relay, RelayStopped, RelayRecv, RelayDisconnected, RelayAcked,
                      RelayRetries, RelayGivesUp
  <2>5. CASE Environment
    BY <2>5 DEF Environment, Emit, WorkerExits, OrphanEnds, Reassign, LateArrival, cpVars
  <2> QED BY <2>2, <2>3, <2>4, <2>5 DEF Next
<1> QED BY <1>1, ReportInvariant, PTL DEF Spec, NoDeltaSentAfterCompletion
=============================================================================
