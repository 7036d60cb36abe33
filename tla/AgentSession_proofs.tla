------------------------- MODULE AgentSession_proofs -------------------------
(***************************************************************************)
(* Proofs about AgentSession for any number of concurrent requests, any    *)
(* limits and any grants.                                                  *)
(*                                                                         *)
(* The shape of the stream rests on where each request stands: one that is *)
(* writing has the event before its number, all its events lie below it,   *)
(* and its number is at most one past the end.  With UNIQUE(session_id,    *)
(* sequence) a successful append is then always an append at the end.      *)
(***************************************************************************)
EXTENDS AgentSession, FiniteSetTheorems, TLAPS

Pending == {"new", "read", "next"}
Writing == {"turn", "model", "execute", "reply", "skills", "cancelling", "compact",
            "request", "responded", "final", "act", "proposed", "asked", "denied",
            "start", "done"}

(* A step that leaves the stream alone, seen by one request. *)
Moves(r) ==
    \/ req'[r].pc \in Ended /\ req[r].pc # "new"
    \/ req[r].pc = "new" /\ req'[r].pc \in Ended
    \/ req[r].pc \in Pending /\ req'[r].pc \in Pending
    \/ /\ req[r].pc = "next" /\ req'[r].pc = "message"
       /\ req'[r].seq = LastSequence + 1
    \/ req[r].pc \in Writing /\ req'[r].pc \in Writing /\ req'[r].seq = req[r].seq
    \/ req'[r] = req[r]

Quiet == UNCHANGED rows /\ \A r \in Requests : Moves(r)

(* A step in which r appends. *)
Writes(r, kind) ==
    /\ req[r].pc \in Writing \cup {"message"}
    /\ \A x \in rows : x.seq # req[r].seq
    /\ rows' = rows \cup {[seq |-> req[r].seq, by |-> r, kind |-> kind]}
    /\ \A q \in Requests \ {r} : req'[q] = req[q]
    /\ \/ req'[r].pc \in Ended
       \/ req'[r].pc \in Writing /\ req'[r].seq = req[r].seq + 1

(* Where a request stands in the stream. *)
Place(r) ==
    /\ req[r].pc \in Pending => NumbersOf(r) = {}
    /\ req[r].pc = "message" =>
          NumbersOf(r) = {} /\ req[r].seq \in 1..(Cardinality(rows) + 1)
    /\ req[r].pc \in Writing =>
          /\ req[r].seq - 1 \in NumbersOf(r)
          /\ \A m \in NumbersOf(r) : m < req[r].seq

StreamInv ==
    /\ TypeOK
    /\ IsFiniteSet(rows) /\ StreamIsDense
    /\ RequestsDoNotInterleave
    /\ \A r \in Requests : Place(r)

------------------------------------------------------------------------------
(* The record of an ended thread, and of one that moved on, is well typed. *)
LEMMA FreshTyped == Fresh \in Threads /\ \A pc \in Pcs : Over(pc) \in Threads
BY SessionAssumption DEF Fresh, Over, Threads, Pcs, Tools, Appending, Ended

(* Replacing one thread's record by a well-typed one. *)
LEMMA BecomesTyped ==
  ASSUME TypeOK, NEW r \in Requests, NEW s \in Threads, Becomes(r, s)
  PROVE  req' \in [Requests -> Threads]
BY DEF TypeOK, Becomes

(* An append of a well-typed record. *)
LEMMA AppendTyped ==
  ASSUME TypeOK, NEW r \in Requests, NEW kind \in Kinds, NEW s \in Threads,
         req[r].pc \in Writing \cup {"message"}, req[r].seq # 0,
         Append(r, kind, s)
  PROVE  /\ req' \in [Requests -> Threads]
         /\ rows' \subseteq [seq : Nat \ {0}, by : Requests, kind : Kinds]
<1>1. req' \in [Requests -> Threads]
  BY BecomesTyped DEF Append
<1>2. req[r].seq \in Nat \ {0}
  BY DEF TypeOK, Threads
<1>3. [seq |-> req[r].seq, by |-> r, kind |-> kind]
        \in [seq : Nat \ {0}, by : Requests, kind : Kinds]
  BY <1>2
<1> QED
  BY <1>1, <1>3 DEF Append, TypeOK

(* The record of a thread that counts on is well typed. *)
LEMMA MovedTyped ==
  ASSUME NEW t \in Threads, NEW pc \in Pcs, NEW n \in Nat
  PROVE  /\ [t EXCEPT !.pc = pc] \in Threads
         /\ [t EXCEPT !.pc = pc, !.seq = n] \in Threads
<1>1. [t EXCEPT !.pc = pc] \in Threads
  BY DEF Threads
<1>2. [t EXCEPT !.pc = pc, !.seq = n] \in Threads
  BY DEF Threads
<1> QED
  BY <1>1, <1>2

(* The events of a request carry numbers of the stream. *)
LEMMA NumbersBounded ==
  ASSUME StreamInv, NEW r \in Requests
  PROVE  NumbersOf(r) \subseteq 1..Cardinality(rows) /\ Cardinality(rows) \in Nat
<1>1. Cardinality(rows) \in Nat
  BY FS_CardinalityType DEF StreamInv
<1> QED
  BY <1>1 DEF StreamInv, StreamIsDense, NumbersOf

(* next_sequence is the number after the last event. *)
LEMMA LastIsSize ==
  ASSUME StreamInv
  PROVE  LastSequence = Cardinality(rows) /\ Cardinality(rows) \in Nat
<1>1. Cardinality(rows) \in Nat
  BY FS_CardinalityType DEF StreamInv
<1>2. CASE rows = {}
  BY <1>2, FS_EmptySet DEF LastSequence
<1>3. CASE rows # {}
  <2>1. Cardinality(rows) # 0
    BY <1>3, FS_EmptySet DEF StreamInv
  <2>2. LastSequence = Max(1..Cardinality(rows))
    BY <1>3 DEF LastSequence, StreamInv, StreamIsDense
  <2>3. /\ Cardinality(rows) \in 1..Cardinality(rows)
        /\ \A y \in 1..Cardinality(rows) : Cardinality(rows) >= y
    BY <1>1, <2>1
  <2>4. \A x \in 1..Cardinality(rows) :
           (\A y \in 1..Cardinality(rows) : x >= y) => x = Cardinality(rows)
    BY <1>1, <2>3
  <2> QED
    BY <1>1, <2>2, <2>3, <2>4 DEF Max
<1> QED
  BY <1>1, <1>2, <1>3

(* A request that writes has a number between 1 and one past the end. *)
LEMMA WriterNumber ==
  ASSUME StreamInv, NEW r \in Requests, req[r].pc \in Writing \cup {"message"}
  PROVE  req[r].seq \in 1..(Cardinality(rows) + 1)
<1>1. req[r].seq \in Nat
  BY DEF StreamInv, TypeOK, Threads
<1>2. CASE req[r].pc = "message"
  BY <1>2 DEF StreamInv, Place
<1>3. CASE req[r].pc \in Writing
  <2>1. req[r].seq - 1 \in NumbersOf(r)
    BY <1>3 DEF StreamInv, Place
  <2> QED
    BY <1>1, <2>1, NumbersBounded
<1> QED
  BY <1>2, <1>3

------------------------------------------------------------------------------
(* Every step keeps the types and the limits. *)
LEMMA TypeStep ==
  ASSUME StreamInv, Next
  PROVE  TypeOK'
<1> USE SessionAssumption
<1>0. TypeOK
  BY DEF StreamInv
<1>1. ASSUME Cancels PROVE TypeOK'
  BY <1>0, <1>1 DEF TypeOK, Cancels
<1>2. ASSUME ServerDies PROVE TypeOK'
  <2>1. Over("failed") \in Threads
    BY FreshTyped DEF Pcs, Ended
  <2>2. req' \in [Requests -> Threads]
    BY <1>0, <1>2, <2>1 DEF TypeOK, ServerDies
  <2> QED
    BY <1>0, <1>2, <2>2 DEF TypeOK, ServerDies
<1>3. ASSUME NEW r \in Requests, Arrives(r) \/ Thread(r) PROVE TypeOK'
  <2> DEFINE t == req[r]
  <2>1. t \in Threads /\ t.seq \in Nat /\ t.seq + 1 \in Nat /\ t.pc \in Pcs
    BY <1>0 DEF TypeOK, Threads
  <2>2. Over("failed") \in Threads /\ Over("answered") \in Threads
    BY FreshTyped DEF Pcs, Ended
  <2>3. \A pc \in Pcs : [t EXCEPT !.pc = pc] \in Threads /\ Then(r, pc) \in Threads
    BY <2>1, MovedTyped DEF Then
  (* A step that only replaces the thread's record. *)
  <2>4. ASSUME NEW s \in Threads, Becomes(r, s), UNCHANGED <<rows, effects>>,
               cancelled' \in BOOLEAN
        PROVE  TypeOK'
    BY <1>0, <2>4, BecomesTyped DEF TypeOK
  (* A step that appends. *)
  <2>5. ASSUME NEW s \in Threads, NEW kind \in Kinds, Append(r, kind, s),
               t.pc \in Writing \cup {"message"}, UNCHANGED <<cancelled, effects>>
        PROVE  TypeOK'
    <3>1. t.seq # 0
      BY <2>5, WriterNumber, LastIsSize DEF StreamInv
    <3> QED
      BY <1>0, <2>5, <3>1, AppendTyped DEF TypeOK
  <2>6. cancelled \in BOOLEAN /\ FALSE \in BOOLEAN
    BY <1>0 DEF TypeOK
  <2> HIDE DEF t
  <2>7. CASE Arrives(r)
    <3> DEFINE K == {q \in Requests : req[q].pc = "answered"}
    <3>1. [t EXCEPT !.pc = "read", !.known = K] \in Threads
      <4>1. K \in SUBSET Requests /\ "read" \in Pcs
        BY DEF Pcs
      <4> HIDE DEF K
      <4> QED
        BY <2>1, <4>1 DEF Threads
    <3> QED
      BY <2>2, <2>4, <2>6, <2>7, <3>1 DEF Arrives, Respond, t
  <2>8. CASE ReadsTranscript(r)
    <3> DEFINE K == {x.by : x \in {y \in rows : y.kind = "FinalResponseProduced"}}
    <3>1. [t EXCEPT !.pc = "next", !.transcript = K] \in Threads
      <4>1. K \in SUBSET Requests /\ "next" \in Pcs
        BY <1>0 DEF Pcs, TypeOK
      <4> HIDE DEF K
      <4> QED
        BY <2>1, <4>1 DEF Threads
    <3> QED
      BY <2>2, <2>4, <2>6, <2>8, <3>1 DEF ReadsTranscript, Respond, t
  <2>9. CASE ReadsSequence(r)
    <3>1. LastSequence + 1 \in Nat /\ "message" \in Pcs
      BY LastIsSize DEF Pcs, Appending
    <3>2. [t EXCEPT !.pc = "message", !.seq = LastSequence + 1] \in Threads
      BY <2>1, <3>1, MovedTyped
    <3> QED
      BY <2>2, <2>4, <2>6, <2>9, <3>2 DEF ReadsSequence, Respond, t
  <2>10. CASE LoadsSkill(r)
    <3>1. t.skills + 1 \in 0..3
      BY <2>1, <2>10 DEF LoadsSkill, Threads, t
    <3>2. [Then(r, "skills") EXCEPT !.skills = t.skills + 1] \in Threads
      BY <2>3, <3>1 DEF Threads, Pcs, Appending
    <3>3. Then(r, "skills").skills = t.skills
      BY <2>1 DEF Then, Threads, t
    <3> QED
      BY <2>5, <2>10, <3>2, <3>3 DEF LoadsSkill, Kinds, Writing, t
  <2>11. CASE BeginsTurn(r)
    <3>1. t.turns + 1 \in 0..MaxTurns
      BY <2>1, <2>11 DEF BeginsTurn, Threads, t
    <3>2. \A pc \in Pcs : [t EXCEPT !.turns = t.turns + 1, !.pc = pc] \in Threads
      BY <2>1, <3>1 DEF Threads
    <3> QED
      BY <2>4, <2>6, <2>11, <3>2 DEF BeginsTurn, Pcs, Appending, t
  <2>12. CASE RecordsResponse(r)
    <3>1. ASSUME t.calls < MaxToolCalls, NEW tool \in Tools
          PROVE  [Then(r, "act") EXCEPT !.calls = t.calls + 1, !.tool = tool] \in Threads
      <4>1. t.calls + 1 \in 0..MaxToolCalls
        BY <2>1, <3>1 DEF Threads
      <4> QED
        BY <2>3, <4>1 DEF Threads, Pcs, Appending
    <3>2. Then(r, "act").calls = t.calls
      BY <2>1 DEF Then, Threads, t
    <3>3. "final" \in Pcs /\ "ModelResponded" \in Kinds
      BY DEF Pcs, Appending, Kinds
    <3> QED
      BY <2>2, <2>3, <2>5, <2>12, <3>1, <3>2, <3>3 DEF RecordsResponse, Writing, t
  <2>13. CASE Executes(r)
    <3>1. t.seq # 0
      BY <2>13, WriterNumber DEF Executes, Writing, t
    <3>2. t.seq - 1 \in Nat
      BY <2>1, <3>1
    <3>3. req' \in [Requests -> Threads]
      BY <1>0, <2>3, <2>13, BecomesTyped DEF Executes, Goto, Pcs, Appending, t
    <3> QED
      BY <1>0, <2>13, <3>2, <3>3 DEF Executes, TypeOK, t
  <2>14. CASE SetsUp(r) \/ TurnLimit(r) \/ ModelAnswers(r) \/ Replies(r) \/ AppendFails(r)
    BY <2>2, <2>3, <2>4, <2>6, <2>14
    DEF SetsUp, TurnLimit, ModelAnswers, Replies, AppendFails, Goto, Respond, Pcs, Appending, t
  <2>15. CASE RecordsMessage(r) \/ RecordsCancel(r) \/ Compacts(r) \/ RequestsModel(r)
              \/ Finishes(r) \/ AsksApproval(r) \/ Denied(r)
              \/ StartsTool(r) \/ CompletesTool(r)
    BY <2>2, <2>3, <2>5, <2>15
    DEF RecordsMessage, RecordsCancel, Compacts, RequestsModel, Finishes,
        AsksApproval, Denied, StartsTool, CompletesTool, Writing, Kinds, Pcs, Appending, t
  <2>16. CASE Proposes(r) \/ ResolvesApproval(r)
    BY <2>3, <2>5, <2>16
    DEF Proposes, ResolvesApproval, Writing, Kinds, Pcs, Appending, t
  <2> QED
    BY <1>3, <2>7, <2>8, <2>9, <2>10, <2>11, <2>12, <2>13, <2>14, <2>15, <2>16
    DEF Thread, Chats, Turns, Calls
<1> QED
  BY <1>1, <1>2, <1>3 DEF Next

------------------------------------------------------------------------------
(* Every step leaves the stream alone or is one request's append. *)
LEMMA StepKinds ==
  ASSUME StreamInv, Next
  PROVE  Quiet \/ \E r \in Requests, kind \in Kinds : Writes(r, kind)
<1>0. req \in [Requests -> Threads] /\ \A q \in Requests : req[q].pc \in Pcs
  BY DEF StreamInv, TypeOK, Threads
<1>1. CASE Cancels
  BY <1>1 DEF Cancels, Quiet, Moves
<1>2. CASE ServerDies
  <2>1. Over("failed").pc = "failed"
    BY DEF Over, Fresh
  <2> QED
    BY <1>0, <1>2, <2>1 DEF ServerDies, Quiet, Moves, Running, Ended
<1>3. ASSUME NEW r \in Requests, Arrives(r) \/ Thread(r)
      PROVE  Quiet \/ \E kind \in Kinds : Writes(r, kind)
  <2> DEFINE t == req[r]
  <2>1. Over("failed").pc = "failed" /\ Over("answered").pc = "answered"
    BY DEF Over, Fresh
  <2>2. t \in Threads /\ t.pc \in Pcs /\ t.seq \in Nat
    BY <1>0 DEF Threads
  <2>3. \A pc \in Pcs : Then(r, pc).pc = pc /\ Then(r, pc).seq = t.seq + 1
    BY <2>2 DEF Then, Threads
  <2>4. ASSUME NEW s, Becomes(r, s)
        PROVE  req'[r] = s /\ \A q \in Requests \ {r} : req'[q] = req[q]
    BY <1>0, <2>4 DEF Becomes
  <2>5. ASSUME NEW s, Becomes(r, s), UNCHANGED rows,
               \/ s.pc \in Ended
               \/ t.pc \in Pending /\ s.pc \in Pending
               \/ t.pc = "next" /\ s.pc = "message" /\ s.seq = LastSequence + 1
               \/ t.pc \in Writing /\ s.pc \in Writing /\ s.seq = t.seq
        PROVE  Quiet
    BY <2>4, <2>5 DEF Quiet, Moves
  <2>6. ASSUME NEW s, NEW kind \in Kinds, Append(r, kind, s),
               t.pc \in Writing \cup {"message"},
               \/ s.pc \in Ended
               \/ s.pc \in Writing /\ s.seq = t.seq + 1
        PROVE  Writes(r, kind)
    BY <2>4, <2>6 DEF Append, Writes
  <2> HIDE DEF t
  <2>7. CASE Arrives(r)
    <3>1. [t EXCEPT !.pc = "read", !.known = {q \in Requests : req[q].pc = "answered"}].pc
            = "read"
      BY <2>2 DEF Threads
    <3> QED
      BY <2>1, <2>5, <2>7, <3>1 DEF Arrives, Respond, Pending, Ended, t
  <2>8. CASE ReadsTranscript(r)
    <3>1. \A K : [t EXCEPT !.pc = "next", !.transcript = K].pc = "next"
      BY <2>2 DEF Threads
    <3> QED
      BY <2>1, <2>5, <2>8, <3>1 DEF ReadsTranscript, Respond, Pending, Ended, t
  <2>9. CASE ReadsSequence(r)
    <3>1. \A n : /\ [t EXCEPT !.pc = "message", !.seq = n].pc = "message"
                 /\ [t EXCEPT !.pc = "message", !.seq = n].seq = n
      BY <2>2 DEF Threads
    <3> QED
      BY <2>1, <2>5, <2>9, <3>1 DEF ReadsSequence, Respond, Ended, t
  <2>10. CASE LoadsSkill(r)
    <3>1. \A k : /\ [Then(r, "skills") EXCEPT !.skills = k].pc = "skills"
                 /\ [Then(r, "skills") EXCEPT !.skills = k].seq = t.seq + 1
      BY <2>2 DEF Then, Threads, t
    <3> QED
      BY <2>6, <2>10, <3>1 DEF LoadsSkill, Kinds, Writing, t
  <2>11. CASE BeginsTurn(r)
    <3> DEFINE pc == IF cancelled THEN "cancelling" ELSE "compact"
               s == [t EXCEPT !.turns = t.turns + 1, !.pc = pc]
    <3>1. s.pc = pc /\ s.seq = t.seq
      BY <2>2 DEF Threads
    <3>2. t.pc = "turn" /\ Becomes(r, s) /\ UNCHANGED rows
      BY <2>11 DEF BeginsTurn, t
    <3>3. pc \in Writing
      BY DEF Writing
    <3> HIDE DEF s, pc
    <3> QED
      BY <2>5, <3>1, <3>2, <3>3 DEF Writing
  <2>12. CASE RecordsResponse(r)
    <3>1. t.pc = "responded" /\ t.pc \in Writing
      BY <2>12 DEF RecordsResponse, Writing, t
    <3>2. "final" \in Pcs /\ "ModelResponded" \in Kinds
      BY DEF Pcs, Appending, Kinds
    <3>3. CASE Append(r, "ModelResponded", Over("failed"))
      BY <2>1, <2>6, <3>1, <3>2, <3>3 DEF Ended
    <3>4. CASE Append(r, "ModelResponded", Then(r, "final"))
      BY <2>3, <2>6, <3>1, <3>2, <3>4 DEF Writing
    <3>5. ASSUME NEW tool \in Tools,
                 Append(r, "ModelResponded",
                        [Then(r, "act") EXCEPT !.calls = @ + 1, !.tool = tool])
          PROVE  Writes(r, "ModelResponded")
      <4> DEFINE s == [Then(r, "act") EXCEPT !.calls = @ + 1, !.tool = tool]
      <4>1. s.pc = "act" /\ s.seq = t.seq + 1
        BY <2>2 DEF Then, Threads, t
      <4> HIDE DEF s
      <4> QED
        BY <2>6, <3>1, <3>2, <3>5, <4>1 DEF Writing, s
    <3> QED
      BY <2>12, <3>2, <3>3, <3>4, <3>5 DEF RecordsResponse
  <2>13. CASE SetsUp(r) \/ TurnLimit(r) \/ ModelAnswers(r) \/ Replies(r) \/ AppendFails(r)
              \/ Executes(r)
    <3>1. \A pc : [t EXCEPT !.pc = pc].pc = pc /\ [t EXCEPT !.pc = pc].seq = t.seq
      BY <2>2 DEF Threads
    <3> QED
      BY <2>1, <2>5, <2>13, <3>1
      DEF SetsUp, TurnLimit, ModelAnswers, Replies, AppendFails, Executes, Goto, Respond,
          Writing, Ended, t
  <2>14. CASE RecordsMessage(r) \/ RecordsCancel(r) \/ Compacts(r) \/ RequestsModel(r)
              \/ Finishes(r) \/ AsksApproval(r) \/ Denied(r)
              \/ StartsTool(r) \/ CompletesTool(r)
    BY <2>1, <2>3, <2>6, <2>14
    DEF RecordsMessage, RecordsCancel, Compacts, RequestsModel, Finishes, AsksApproval,
        Denied, StartsTool, CompletesTool, Writing, Kinds, Pcs, Appending, Ended, t
  <2>15. CASE Proposes(r) \/ ResolvesApproval(r)
    BY <2>3, <2>6, <2>15
    DEF Proposes, ResolvesApproval, Writing, Kinds, Pcs, Appending, t
  <2> QED
    BY <1>3, <2>7, <2>8, <2>9, <2>10, <2>11, <2>12, <2>13, <2>14, <2>15
    DEF Thread, Chats, Turns, Calls
<1> QED
  BY <1>1, <1>2, <1>3 DEF Next

(* A step that leaves the stream alone keeps its shape. *)
LEMMA QuietStep ==
  ASSUME StreamInv, TypeOK', Quiet
  PROVE  StreamInv'
<1>1. rows' = rows /\ \A r \in Requests : NumbersOf(r)' = NumbersOf(r)
  BY DEF Quiet, NumbersOf
<1>2. ASSUME NEW r \in Requests PROVE Place(r)'
  <2>1. Place(r) /\ Moves(r)
    BY DEF StreamInv, Quiet
  <2>2. LastSequence + 1 \in 1..(Cardinality(rows) + 1)
    BY LastIsSize
  <2>3. req[r].pc \in Pcs /\ req'[r].pc \in Pcs
    BY DEF StreamInv, TypeOK, Threads
  <2>4. CASE req'[r] = req[r]
    BY <1>1, <2>1, <2>4 DEF Place
  <2>5. CASE req'[r].pc \in Ended
    BY <2>5 DEF Place, Ended, Pending, Writing
  <2> QED
    BY <1>1, <2>1, <2>2, <2>3, <2>4, <2>5
    DEF Place, Moves, Pending, Writing, Ended
<1>3. IsFiniteSet(rows') /\ StreamIsDense' /\ RequestsDoNotInterleave'
  BY <1>1 DEF StreamInv, StreamIsDense, RequestsDoNotInterleave
<1> QED
  BY <1>2, <1>3 DEF StreamInv

(* An append that succeeds is an append at the end. *)
LEMMA WriteStep ==
  ASSUME StreamInv, TypeOK', NEW r \in Requests, NEW kind \in Kinds, Writes(r, kind)
  PROVE  StreamInv'
<1> DEFINE n == Cardinality(rows)
           new == [seq |-> req[r].seq, by |-> r, kind |-> kind]
<1>0. n \in Nat
  BY LastIsSize
<1>1. req[r].seq = n + 1
  <2>1. req[r].seq \in 1..(n + 1)
    BY WriterNumber DEF Writes
  <2>2. req[r].seq \notin {x.seq : x \in rows}
    BY DEF Writes
  <2>3. req[r].seq \notin 1..n
    BY <2>2 DEF StreamInv, StreamIsDense
  <2> QED
    BY <1>0, <2>1, <2>3
<1>2. new.seq = n + 1 /\ new.by = r /\ new \notin rows /\ rows' = rows \cup {new}
  BY <1>1 DEF Writes
<1>3. IsFiniteSet(rows') /\ Cardinality(rows') = n + 1
  BY <1>2, FS_AddElement DEF StreamInv
<1>4. StreamIsDense'
  <2>1. {x.seq : x \in rows'} = {x.seq : x \in rows} \cup {n + 1}
    BY <1>2
  <2>2. {x.seq : x \in rows'} = 1..n \cup {n + 1}
    BY <2>1 DEF StreamInv, StreamIsDense
  <2>3. 1..n \cup {n + 1} = 1..(n + 1)
    BY <1>0
  <2> QED
    BY <1>3, <2>2, <2>3 DEF StreamIsDense
<1>5. NumbersOf(r)' = NumbersOf(r) \cup {n + 1}
  BY <1>2 DEF NumbersOf
<1>6. \A q \in Requests \ {r} : NumbersOf(q)' = NumbersOf(q)
  BY <1>2 DEF NumbersOf
<1> HIDE DEF n, new
<1>7. \A m \in NumbersOf(r) : m \in Nat /\ m <= n
  BY <1>0, NumbersBounded DEF n
<1>8. req[r].pc = "message" \/ req[r].pc \in Writing
  BY DEF Writes
<1>9. \A m, k \in NumbersOf(r)' : m < k => m + 1 \in NumbersOf(r)'
  <2> SUFFICES ASSUME NEW m \in NumbersOf(r)', NEW k \in NumbersOf(r)', m < k
               PROVE  m + 1 \in NumbersOf(r)'
    OBVIOUS
  <2>1. m \in NumbersOf(r) /\ m \in Nat
    BY <1>0, <1>5, <1>7
  <2>2. CASE k \in NumbersOf(r)
    <3>1. m + 1 \in NumbersOf(r)
      BY <2>1, <2>2 DEF StreamInv, RequestsDoNotInterleave
    <3> QED
      BY <1>5, <3>1
  <2>3. CASE k = n + 1
    <3>1. req[r].pc \in Writing
      BY <1>8, <2>1 DEF StreamInv, Place
    <3>2. n \in NumbersOf(r)
      <4>1. req[r].seq - 1 \in NumbersOf(r)
        BY <3>1 DEF StreamInv, Place
      <4> QED
        BY <1>0, <1>1, <4>1
    <3>3. m = n \/ m < n
      BY <1>0, <1>7, <2>1
    <3>4. m < n => m + 1 \in NumbersOf(r)
      BY <2>1, <3>2 DEF StreamInv, RequestsDoNotInterleave
    <3> QED
      BY <1>5, <3>3, <3>4
  <2> QED
    BY <1>5, <2>2, <2>3
<1>10. RequestsDoNotInterleave'
  <2>1. \A q \in Requests \ {r} :
           \A m, k \in NumbersOf(q)' : m < k => m + 1 \in NumbersOf(q)'
    BY <1>6 DEF StreamInv, RequestsDoNotInterleave
  <2> QED
    BY <1>9, <2>1 DEF RequestsDoNotInterleave
<1>11. Place(r)'
  <2>1. CASE req'[r].pc \in Ended
    BY <2>1 DEF Place, Ended, Pending, Writing
  <2>2. CASE req'[r].pc \in Writing /\ req'[r].seq = req[r].seq + 1
    <3>1. req'[r].seq - 1 = n + 1 /\ req'[r].seq = n + 2
      BY <1>0, <1>1, <2>2
    <3>2. \A m \in NumbersOf(r)' : m < n + 2
      BY <1>0, <1>5, <1>7
    <3> QED
      BY <1>5, <2>2, <3>1, <3>2 DEF Place, Pending, Writing
  <2> QED
    BY <2>1, <2>2 DEF Writes
<1>12. ASSUME NEW q \in Requests \ {r} PROVE Place(q)'
  <2>1. req'[q] = req[q] /\ NumbersOf(q)' = NumbersOf(q) /\ Place(q)
    BY <1>6 DEF Writes, StreamInv
  <2>2. 1..(n + 1) \subseteq 1..(n + 2)
    BY <1>0
  <2>3. Cardinality(rows') + 1 = n + 2
    BY <1>0, <1>3
  <2> QED
    BY <2>1, <2>2, <2>3 DEF Place, n
<1> QED
  BY <1>3, <1>4, <1>10, <1>11, <1>12 DEF StreamInv

(* The stream is well formed in every state. *)
LEMMA StreamAlways == Spec => []StreamInv
<1>1. Init => StreamInv
  <2> SUFFICES ASSUME Init PROVE StreamInv
    OBVIOUS
  <2>1. TypeOK
    BY FreshTyped DEF Init, TypeOK
  <2>2. IsFiniteSet(rows) /\ Cardinality(rows) = 0
    BY FS_EmptySet DEF Init
  <2>3. StreamIsDense
    BY <2>2 DEF Init, StreamIsDense
  <2>4. \A r \in Requests : NumbersOf(r) = {} /\ req[r].pc = "new"
    BY DEF Init, NumbersOf, Fresh
  <2> QED
    BY <2>1, <2>2, <2>3, <2>4
    DEF StreamInv, RequestsDoNotInterleave, Place, Pending, Writing
<1>2. StreamInv /\ [Next]_vars => StreamInv'
  <2> SUFFICES ASSUME StreamInv, [Next]_vars PROVE StreamInv'
    OBVIOUS
  <2>1. CASE Next
    BY <2>1, TypeStep, StepKinds, QuietStep, WriteStep
  <2>2. CASE UNCHANGED vars
    BY <2>2 DEF vars, StreamInv, TypeOK, StreamIsDense, RequestsDoNotInterleave, Place, NumbersOf
  <2> QED
    BY <2>1, <2>2
<1> QED
  BY <1>1, <1>2, PTL DEF Spec

(* Types and limits hold for any number of concurrent requests. *)
THEOREM TypeCorrect == Spec => []TypeOK
<1>1. StreamInv => TypeOK
  BY DEF StreamInv
<1> QED
  BY <1>1, StreamAlways, PTL

(* However many requests append to a session at once and wherever they     *)
(* fail, its event numbers are 1..n, each used once.                       *)
THEOREM DenseStream == Spec => []StreamIsDense
<1>1. StreamInv => StreamIsDense
  BY DEF StreamInv
<1> QED
  BY <1>1, StreamAlways, PTL

(* The events of one request are never interleaved with another's.         *)
THEOREM NoInterleaving == Spec => []RequestsDoNotInterleave
<1>1. StreamInv => RequestsDoNotInterleave
  BY DEF StreamInv
<1> QED
  BY <1>1, StreamAlways, PTL

------------------------------------------------------------------------------
(* What a request that is about to run a mutating tool has recorded. *)
Row(n, r, kind) == [seq |-> n, by |-> r, kind |-> kind]

Approved(r) ==
    req[r].tool = "mutates" =>
        /\ req[r].pc = "start" =>
              r \in Granted /\ Row(req[r].seq - 1, r, "ApprovalGranted") \in rows
        /\ req[r].pc = "execute" =>
              /\ r \in Granted
              /\ Row(req[r].seq - 1, r, "ToolStarted") \in rows
              /\ Row(req[r].seq - 1 - 1, r, "ApprovalGranted") \in rows

MutationInv == MutationsAreRecorded /\ \A r \in Requests : Approved(r)

(* Only an approval leads a mutating call to its start, and only a         *)
(* recorded start to its execution.                                        *)
LEMMA MutationStep ==
  ASSUME StreamInv, MutationInv, Next
  PROVE  MutationInv'
<1>0. req \in [Requests -> Threads]
  BY DEF StreamInv, TypeOK
<1>1. ASSUME rows \subseteq rows', UNCHANGED effects
      PROVE  MutationsAreRecorded'
  BY <1>1 DEF MutationInv, MutationsAreRecorded
<1>2. ASSUME NEW q \in Requests, rows \subseteq rows', req'[q] = req[q]
      PROVE  Approved(q)'
  BY <1>2 DEF MutationInv, Approved
<1>3. ASSUME NEW q \in Requests, req'[q].pc \notin {"start", "execute"}
      PROVE  Approved(q)'
  BY <1>3 DEF Approved
<1>4. CASE Cancels
  BY <1>1, <1>2, <1>4 DEF Cancels, MutationInv
<1>5. CASE ServerDies
  <2>1. Over("failed").pc = "failed"
    BY DEF Over, Fresh
  <2>2. ASSUME NEW q \in Requests PROVE Approved(q)'
    BY <1>2, <1>3, <1>5, <2>1 DEF ServerDies
  <2> QED
    BY <1>1, <1>5, <2>2 DEF ServerDies, MutationInv
<1>6. ASSUME NEW r \in Requests, Arrives(r) \/ Thread(r) PROVE MutationInv'
  <2> DEFINE t == req[r]
  <2>1. t \in Threads /\ t.seq \in Nat
    BY <1>0 DEF Threads
  <2>2. Over("failed").pc = "failed" /\ Over("answered").pc = "answered"
    BY DEF Over, Fresh
  <2>3. \A pc \in Pcs : /\ Then(r, pc).pc = pc /\ Then(r, pc).tool = t.tool
                         /\ Then(r, pc).seq = t.seq + 1
    BY <2>1 DEF Then, Threads
  <2>4. t.seq + 1 - 1 = t.seq /\ t.seq + 1 - 1 - 1 = t.seq - 1
    BY <2>1
  <2>5. ASSUME NEW s, Becomes(r, s)
        PROVE  req'[r] = s /\ \A q \in Requests \ {r} : req'[q] = req[q]
    BY <1>0, <2>5 DEF Becomes
  (* A step that keeps the events and takes r elsewhere. *)
  <2>6. ASSUME NEW s, Becomes(r, s), rows \subseteq rows', UNCHANGED effects,
               s.pc \notin {"start", "execute"}
        PROVE  MutationInv'
    BY <1>1, <1>2, <1>3, <2>5, <2>6 DEF MutationInv
  <2>7. ASSUME NEW s, NEW kind, Append(r, kind, s)
        PROVE  /\ Becomes(r, s) /\ rows \subseteq rows'
               /\ Row(t.seq, r, kind) \in rows'
    BY <2>7 DEF Append, Row
  <2>8. ASSUME NEW s, NEW kind, Append(r, kind, s), UNCHANGED effects,
               s.pc \notin {"start", "execute"}
        PROVE  MutationInv'
    BY <2>6, <2>7, <2>8
  <2> HIDE DEF t
  <2>9. CASE Proposes(r)
    <3> DEFINE pc == IF t.tool = "mutates" THEN "proposed" ELSE "start"
    <3>1. Append(r, "ToolProposed", Then(r, pc)) /\ UNCHANGED effects
      BY <2>9 DEF Proposes, t
    <3>2. pc \in Pcs
      BY DEF Pcs, Appending
    <3>3. Approved(r)'
      BY <2>3, <2>5, <2>7, <3>1, <3>2 DEF Approved
    <3> QED
      BY <1>1, <1>2, <2>5, <2>7, <3>1, <3>3 DEF MutationInv
  <2>10. CASE ResolvesApproval(r)
    <3>1. CASE r \in Granted
      <4>1. Append(r, "ApprovalGranted", Then(r, "start")) /\ UNCHANGED effects
        BY <2>10, <3>1 DEF ResolvesApproval
      <4>2. req'[r].pc = "start" /\ req'[r].seq - 1 = t.seq
        <5>1. req'[r] = Then(r, "start")
          BY <2>5, <2>7, <4>1
        <5>2. "start" \in Pcs
          BY DEF Pcs, Appending
        <5> QED
          BY <2>1, <2>3, <2>4, <5>1, <5>2
      <4>3. Approved(r)'
        BY <2>7, <3>1, <4>1, <4>2 DEF Approved
      <4> QED
        BY <1>1, <1>2, <2>5, <2>7, <4>1, <4>3 DEF MutationInv
    <3>2. CASE r \notin Granted
      BY <2>3, <2>8, <2>10, <3>2 DEF ResolvesApproval, Pcs, Appending
    <3> QED
      BY <3>1, <3>2
  <2>11. CASE StartsTool(r)
    <3>1. Append(r, "ToolStarted", Then(r, "execute")) /\ UNCHANGED effects /\ t.pc = "start"
      BY <2>11 DEF StartsTool, t
    <3>2. /\ req'[r].pc = "execute" /\ req'[r].tool = t.tool
          /\ req'[r].seq - 1 = t.seq /\ req'[r].seq - 1 - 1 = t.seq - 1
      <4>1. req'[r] = Then(r, "execute")
        BY <2>5, <2>7, <3>1
      <4>2. "execute" \in Pcs
        BY DEF Pcs
      <4> QED
        BY <2>1, <2>3, <2>4, <4>1, <4>2
    <3>3. t.tool = "mutates" => r \in Granted /\ Row(t.seq - 1, r, "ApprovalGranted") \in rows
      BY <3>1 DEF MutationInv, Approved, t
    <3>4. Approved(r)'
      BY <2>7, <3>1, <3>2, <3>3 DEF Approved
    <3> QED
      BY <1>1, <1>2, <2>5, <2>7, <3>1, <3>4 DEF MutationInv
  <2>12. CASE Executes(r)
    <3>1. /\ t.pc = "execute" /\ Becomes(r, [t EXCEPT !.pc = "done"]) /\ rows' = rows
          /\ \/ t.tool = "mutates" /\ effects' = effects \cup {[by |-> r, seq |-> t.seq - 1]}
             \/ effects' = effects
      BY <2>12 DEF Executes, Goto, t
    <3>2. [t EXCEPT !.pc = "done"].pc = "done"
      BY <2>1 DEF Threads
    <3>3. \A q \in Requests : Approved(q)'
      BY <1>2, <1>3, <2>5, <3>1, <3>2
    <3>4. t.tool = "mutates" =>
            /\ r \in Granted /\ Row(t.seq - 1, r, "ToolStarted") \in rows
            /\ Row(t.seq - 1 - 1, r, "ApprovalGranted") \in rows
      BY <3>1 DEF MutationInv, Approved, t
    <3>5. MutationsAreRecorded'
      <4>1. CASE effects' = effects
        BY <1>1, <3>1, <4>1
      <4>2. CASE t.tool = "mutates" /\ effects' = effects \cup {[by |-> r, seq |-> t.seq - 1]}
        <5> DEFINE new == [by |-> r, seq |-> t.seq - 1]
        <5>1. new.by = r /\ new.seq = t.seq - 1 /\ effects' = effects \cup {new}
          BY <4>2
        <5> HIDE DEF new
        <5>2. ASSUME NEW e \in effects'
              PROVE  /\ e.by \in Granted
                     /\ Row(e.seq, e.by, "ToolStarted") \in rows
                     /\ Row(e.seq - 1, e.by, "ApprovalGranted") \in rows
          <6>1. CASE e \in effects
            BY <6>1 DEF MutationInv, MutationsAreRecorded, Row
          <6>2. CASE e = new
            BY <3>4, <4>2, <5>1, <6>2
          <6> QED
            BY <5>1, <6>1, <6>2
        <5> QED
          BY <3>1, <5>2 DEF MutationsAreRecorded, Row
      <4> QED
        BY <3>1, <4>1, <4>2
    <3> QED
      BY <3>3, <3>5 DEF MutationInv
  <2>13. CASE Arrives(r) \/ ReadsTranscript(r) \/ ReadsSequence(r)
    <3>1. /\ \A K : /\ [t EXCEPT !.pc = "read", !.known = K].pc = "read"
                    /\ [t EXCEPT !.pc = "next", !.transcript = K].pc = "next"
          /\ \A n : [t EXCEPT !.pc = "message", !.seq = n].pc = "message"
      BY <2>1 DEF Threads
    <3> QED
      BY <2>2, <2>6, <2>13, <3>1 DEF Arrives, ReadsTranscript, ReadsSequence, Respond, t
  <2>14. CASE BeginsTurn(r)
    <3> DEFINE s == [t EXCEPT !.turns = t.turns + 1,
                              !.pc = IF cancelled THEN "cancelling" ELSE "compact"]
    <3>1. s.pc \in {"cancelling", "compact"}
      BY <2>1 DEF Threads
    <3>2. Becomes(r, s) /\ UNCHANGED <<rows, effects>>
      BY <2>14 DEF BeginsTurn, t
    <3> HIDE DEF s
    <3> QED
      BY <2>6, <3>1, <3>2
  <2>15. CASE LoadsSkill(r) \/ RecordsResponse(r)
    <3>1. [Then(r, "skills") EXCEPT !.skills = @ + 1].pc = "skills"
      BY <2>1 DEF Then, Threads, t
    <3>2. \A tool \in Tools : [Then(r, "act") EXCEPT !.calls = @ + 1, !.tool = tool].pc = "act"
      BY <2>1 DEF Then, Threads, t
    <3>3. "final" \in Pcs
      BY DEF Pcs, Appending
    <3> QED
      BY <2>2, <2>3, <2>8, <2>15, <3>1, <3>2, <3>3 DEF LoadsSkill, RecordsResponse
  <2>16. CASE SetsUp(r) \/ TurnLimit(r) \/ ModelAnswers(r) \/ Replies(r) \/ AppendFails(r)
    <3>1. \A pc : [t EXCEPT !.pc = pc].pc = pc
      BY <2>1 DEF Threads
    <3> QED
      BY <2>2, <2>6, <2>16, <3>1
      DEF SetsUp, TurnLimit, ModelAnswers, Replies, AppendFails, Goto, Respond, t
  <2>17. CASE RecordsMessage(r) \/ RecordsCancel(r) \/ Compacts(r) \/ RequestsModel(r)
              \/ Finishes(r) \/ AsksApproval(r) \/ Denied(r) \/ CompletesTool(r)
    BY <2>2, <2>3, <2>8, <2>17
    DEF RecordsMessage, RecordsCancel, Compacts, RequestsModel, Finishes, AsksApproval,
        Denied, CompletesTool, Pcs, Appending
  <2> QED
    BY <1>6, <2>9, <2>10, <2>11, <2>12, <2>13, <2>14, <2>15, <2>16, <2>17
    DEF Thread, Chats, Turns, Calls
<1> QED
  BY <1>4, <1>5, <1>6 DEF Next

(* No tool changes anything for a request without the grant, nor before    *)
(* the approval and the start of the call are in the session's stream.     *)
THEOREM MutationsOnlyApproved == Spec => []MutationsAreRecorded
<1>1. Init => MutationInv
  BY DEF Init, Fresh, MutationInv, MutationsAreRecorded, Approved
<1>2. StreamInv /\ MutationInv /\ [Next]_vars => MutationInv'
  <2> SUFFICES ASSUME StreamInv, MutationInv, [Next]_vars PROVE MutationInv'
    OBVIOUS
  <2>1. CASE UNCHANGED vars
    BY <2>1 DEF vars, MutationInv, MutationsAreRecorded, Approved
  <2> QED
    BY <2>1, MutationStep
<1>3. MutationInv => MutationsAreRecorded
  BY DEF MutationInv
<1> QED
  BY <1>1, <1>2, <1>3, StreamAlways, PTL DEF Spec

------------------------------------------------------------------------------
(* The answer of q is in the stream. *)
Final(q) == \E x \in rows : x.by = q /\ x.kind = "FinalResponseProduced"

(* Nothing is answered that is not recorded, and what a request must know  *)
(* is recorded before it reads its transcript.                             *)
Remembers(r) ==
    /\ req[r].pc \in {"reply", "answered"} => Final(r)
    /\ \A q \in req[r].known : Final(q)
    /\ req[r].pc \notin {"new", "read", "failed"} => req[r].known \subseteq req[r].transcript

(* Every step of any request keeps what the session remembers. *)
LEMMA MemoryStep ==
  ASSUME StreamInv, \A r \in Requests : Remembers(r), Next
  PROVE  \A r \in Requests : Remembers(r)'
<1>0. req \in [Requests -> Threads]
  BY DEF StreamInv, TypeOK
<1>1. ASSUME NEW q \in Requests, rows \subseteq rows', req'[q] = req[q]
      PROVE  Remembers(q)'
  BY <1>1 DEF Remembers, Final
<1>2. /\ Over("failed").pc = "failed" /\ Over("failed").known = {}
      /\ Over("answered").pc = "answered" /\ Over("answered").known = {}
  BY DEF Over, Fresh
<1>3. CASE Cancels
  BY <1>1, <1>3 DEF Cancels
<1>4. CASE ServerDies
  <2>1. ASSUME NEW q \in Requests, req'[q] = Over("failed") PROVE Remembers(q)'
    BY <1>2, <2>1 DEF Remembers
  <2> QED
    BY <1>1, <1>4, <2>1 DEF ServerDies
<1>5. ASSUME NEW r \in Requests, Arrives(r) \/ Thread(r)
      PROVE  \A q \in Requests : Remembers(q)'
  <2> DEFINE t == req[r]
  <2>1. t \in Threads /\ Remembers(r)
    BY <1>0
  <2>2. ASSUME NEW s, Becomes(r, s), rows \subseteq rows', Remembers(r)'
        PROVE  \A q \in Requests : Remembers(q)'
    BY <1>0, <1>1, <2>2 DEF Becomes
  <2>3. ASSUME NEW s, Becomes(r, s) PROVE req'[r] = s
    BY <1>0, <2>3 DEF Becomes
  <2>4. ASSUME NEW s, NEW kind, Append(r, kind, s)
        PROVE  Becomes(r, s) /\ rows \subseteq rows' /\ Row(t.seq, r, kind) \in rows'
    BY <2>4 DEF Append, Row
  (* A step that keeps what r knows and does not answer. *)
  <2>5. ASSUME NEW s, Becomes(r, s), rows \subseteq rows',
               \/ s = Over("failed")
               \/ /\ s.known = t.known /\ s.transcript = t.transcript
                  /\ s.pc \notin {"reply", "answered"}
                  /\ t.pc \notin {"new", "read", "failed"}
        PROVE  \A q \in Requests : Remembers(q)'
    <3>1. Remembers(r)'
      BY <1>2, <2>1, <2>3, <2>5 DEF Remembers, Final
    <3> QED
      BY <2>2, <2>5, <3>1
  <2>6. \A pc \in Pcs : /\ Then(r, pc).pc = pc /\ Then(r, pc).known = t.known
                         /\ Then(r, pc).transcript = t.transcript
    BY <2>1 DEF Then, Threads
  <2>7. \A pc : /\ [t EXCEPT !.pc = pc].pc = pc /\ [t EXCEPT !.pc = pc].known = t.known
                /\ [t EXCEPT !.pc = pc].transcript = t.transcript
    BY <2>1 DEF Threads
  <2> HIDE DEF t
  <2>8. CASE Arrives(r)
    <3> DEFINE K == {q \in Requests : req[q].pc = "answered"}
               s == [t EXCEPT !.pc = "read", !.known = K]
    <3>1. CASE Becomes(r, Over("failed"))
      BY <2>5, <2>8, <3>1 DEF Arrives
    <3>2. CASE Becomes(r, s)
      <4>1. s.pc = "read" /\ s.known = K
        BY <2>1 DEF Threads
      <4>2. \A q \in K : Final(q)
        BY DEF Remembers
      <4>3. rows' = rows
        BY <2>8 DEF Arrives
      <4> HIDE DEF s
      <4>4. Remembers(r)'
        BY <2>3, <3>2, <4>1, <4>2, <4>3 DEF Remembers, Final
      <4> QED
        BY <2>2, <3>2, <4>3, <4>4
    <3> QED
      BY <2>8, <3>1, <3>2 DEF Arrives, Respond, t
  <2>9. CASE ReadsTranscript(r)
    <3> DEFINE K == {x.by : x \in {y \in rows : y.kind = "FinalResponseProduced"}}
               s == [t EXCEPT !.pc = "next", !.transcript = K]
    <3>1. CASE Becomes(r, Over("failed"))
      BY <2>5, <2>9, <3>1 DEF ReadsTranscript
    <3>2. CASE Becomes(r, s)
      <4>1. s.pc = "next" /\ s.known = t.known /\ s.transcript = K
        BY <2>1 DEF Threads
      <4>2. t.known \subseteq K
        BY <2>1 DEF Remembers, Final, t
      <4>3. rows' = rows
        BY <2>9 DEF ReadsTranscript
      <4> HIDE DEF s, K
      <4>4. Remembers(r)'
        BY <2>1, <2>3, <3>2, <4>1, <4>2, <4>3 DEF Remembers, Final, t
      <4> QED
        BY <2>2, <3>2, <4>3, <4>4
    <3> QED
      BY <2>9, <3>1, <3>2 DEF ReadsTranscript, Respond, t
  <2>10. CASE ReadsSequence(r)
    <3> DEFINE s == [t EXCEPT !.pc = "message", !.seq = LastSequence + 1]
    <3>1. s.pc = "message" /\ s.known = t.known /\ s.transcript = t.transcript
      BY <2>1 DEF Threads
    <3>2. Becomes(r, s) \/ Becomes(r, Over("failed"))
      BY <2>10 DEF ReadsSequence, Respond, t
    <3> HIDE DEF s
    <3> QED
      BY <2>5, <2>10, <3>1, <3>2 DEF ReadsSequence, t
  <2>11. CASE Finishes(r)
    <3>1. Append(r, "FinalResponseProduced", Then(r, "reply")) /\ t.pc = "final"
      BY <2>11 DEF Finishes, t
    <3>2. Row(t.seq, r, "FinalResponseProduced") \in rows' /\ rows \subseteq rows'
          /\ req'[r] = Then(r, "reply") /\ Becomes(r, Then(r, "reply"))
      BY <2>3, <2>4, <3>1
    <3>3. Final(r)'
      BY <3>2 DEF Final, Row
    <3>4. "reply" \in Pcs
      BY DEF Pcs
    <3>5. Remembers(r)'
      BY <2>1, <2>6, <3>1, <3>2, <3>3, <3>4 DEF Remembers, Final, t
    <3> QED
      BY <2>2, <3>2, <3>5
  <2>12. CASE Replies(r)
    <3>1. Becomes(r, Over("answered")) /\ rows' = rows /\ t.pc = "reply"
      BY <2>12 DEF Replies, Respond, t
    <3>2. Final(r)'
      BY <2>1, <3>1 DEF Remembers, Final, t
    <3>3. Remembers(r)'
      BY <1>2, <2>3, <3>1, <3>2 DEF Remembers
    <3> QED
      BY <2>2, <3>1, <3>3
  <2>13. CASE BeginsTurn(r)
    <3> DEFINE s == [t EXCEPT !.turns = t.turns + 1,
                              !.pc = IF cancelled THEN "cancelling" ELSE "compact"]
    <3>1. s.pc \in {"cancelling", "compact"} /\ s.known = t.known /\ s.transcript = t.transcript
      BY <2>1 DEF Threads
    <3>2. Becomes(r, s) /\ rows' = rows /\ t.pc = "turn"
      BY <2>13 DEF BeginsTurn, t
    <3> HIDE DEF s
    <3> QED
      BY <2>5, <3>1, <3>2
  <2>14. CASE LoadsSkill(r)
    <3> DEFINE s == [Then(r, "skills") EXCEPT !.skills = @ + 1]
    <3>1. s.pc = "skills" /\ s.known = t.known /\ s.transcript = t.transcript
      BY <2>1 DEF Then, Threads, t
    <3>2. Append(r, "SkillLoaded", s) /\ t.pc = "skills"
      BY <2>14 DEF LoadsSkill, t
    <3> HIDE DEF s
    <3> QED
      BY <2>4, <2>5, <3>1, <3>2
  <2>15. CASE RecordsResponse(r)
    <3>1. t.pc = "responded"
      BY <2>15 DEF RecordsResponse, t
    <3>2. ASSUME NEW tool \in Tools,
                 Append(r, "ModelResponded",
                        [Then(r, "act") EXCEPT !.calls = @ + 1, !.tool = tool])
          PROVE  \A q \in Requests : Remembers(q)'
      <4> DEFINE s == [Then(r, "act") EXCEPT !.calls = @ + 1, !.tool = tool]
      <4>1. s.pc = "act" /\ s.known = t.known /\ s.transcript = t.transcript
        BY <2>1 DEF Then, Threads, t
      <4>2. Append(r, "ModelResponded", s)
        BY <3>2
      <4> HIDE DEF s
      <4> QED
        BY <2>4, <2>5, <3>1, <4>1, <4>2
    <3>3. CASE Append(r, "ModelResponded", Over("failed"))
      BY <2>4, <2>5, <3>3
    <3>4. CASE Append(r, "ModelResponded", Then(r, "final"))
      <4>1. "final" \in Pcs
        BY DEF Pcs, Appending
      <4> QED
        BY <2>4, <2>5, <2>6, <3>1, <3>4, <4>1
    <3> QED
      BY <2>15, <3>2, <3>3, <3>4 DEF RecordsResponse
  <2>16. CASE SetsUp(r) \/ TurnLimit(r) \/ ModelAnswers(r) \/ AppendFails(r) \/ Executes(r)
    BY <2>5, <2>7, <2>16
    DEF SetsUp, TurnLimit, ModelAnswers, AppendFails, Executes, Goto, Respond, t
  <2>17. CASE RecordsMessage(r) \/ RecordsCancel(r) \/ Compacts(r) \/ RequestsModel(r)
              \/ AsksApproval(r) \/ Denied(r) \/ StartsTool(r) \/ CompletesTool(r)
    BY <2>4, <2>5, <2>6, <2>17
    DEF RecordsMessage, RecordsCancel, Compacts, RequestsModel, AsksApproval,
        Denied, StartsTool, CompletesTool, Pcs, Appending, t
  <2>18. CASE Proposes(r) \/ ResolvesApproval(r)
    BY <2>4, <2>5, <2>6, <2>18
    DEF Proposes, ResolvesApproval, Pcs, Appending, t
  <2> QED
    BY <1>5, <2>8, <2>9, <2>10, <2>11, <2>12, <2>13, <2>14, <2>15, <2>16, <2>17, <2>18
    DEF Thread, Chats, Turns, Calls
<1> QED
  BY <1>3, <1>4, <1>5 DEF Next

(* What a client was answered is in the transcript of every later request  *)
(* of the session, whatever ran at the same time or crashed in between.    *)
THEOREM AnswersNotForgotten == Spec => []AnswersAreRemembered
<1> DEFINE Inv == \A r \in Requests : Remembers(r)
<1>1. Init => Inv
  BY DEF Init, Fresh, Remembers
<1>2. StreamInv /\ Inv /\ [Next]_vars => Inv'
  <2> SUFFICES ASSUME StreamInv, Inv, [Next]_vars PROVE Inv'
    OBVIOUS
  <2>1. CASE UNCHANGED vars
    BY <2>1 DEF vars, Remembers, Final
  <2> QED
    BY <2>1, MemoryStep
<1>3. Inv => AnswersAreRemembered
  BY DEF AnswersAreRemembered, Remembers, Final
<1> QED
  BY <1>1, <1>2, <1>3, StreamAlways, PTL DEF Spec
==============================================================================
