--------------------------- MODULE JobsWorkerProofs ---------------------------
(***************************************************************************)
(* Proofs about the jobs worker: the rebuild jobs it runs for the control  *)
(* plane (ControlJobs) and the views it derives from rooms (DerivedViews). *)
(*                                                                         *)
(* Of a job, for any shards, chunks, consumers and requests: its rows have *)
(* their types and no message is handled before its shard was staged;      *)
(* while no two consumers handle one shard's messages at a time, no        *)
(* checkpoint moves back; and when moreover the job is started once, it is *)
(* completed with a complete index only.  Of the views, for any rooms,     *)
(* events and workers and with no condition: no event's work is forgotten, *)
(* a query lists nothing that a room does not confirm, and a lookup finds  *)
(* the room that had the alias all along.                                  *)
(***************************************************************************)
EXTENDS ControlJobs, DerivedViews, SequenceTheorems, TLAPS

-----------------------------------------------------------------------------
(* The jobs: ControlJobs *)

\* A message or a message being handled is of a job all of whose shards were
\* staged, and so is a request that is about to send one.
StagedFirst ==
  \A s \in Shards : cp[s].status = "none" =>
    /\ \A m \in Messages : queue[m] = 0
    /\ \A c \in Consumers : work[c].pc = "idle"
    /\ \A r \in Requests : req[r].pc # "send"

\* A handler that goes on to a next chunk has one to go on to.
HasNextChunk ==
  \A c \in Consumers : work[c].pc \in {"continue", "sending", "publish"} =>
    Chunk(c) + 1 \in ChunkIds

\* The inductive invariant behind JobsInv.
JobsInd == TypeOK /\ StagedFirst /\ HasNextChunk

LEMMA MessagesAre ==
  /\ 0 \in ChunkIds
  /\ AnyMessage \in Messages
  /\ \A s \in Shards, n \in ChunkIds : [shard |-> s, chunk |-> n] \in Messages
<1>1. 0 \in ChunkIds
  BY Bounds DEF ChunkIds
<1>2. \A s \in Shards, n \in ChunkIds : [shard |-> s, chunk |-> n] \in Messages
  BY DEF Messages
<1>3. \E m : m \in Messages
  BY <1>1, <1>2, HasShards
<1> QED BY <1>1, <1>2, <1>3 DEF AnyMessage

ReqRecord == [pc : ReqSteps, row : Rows, todo : SUBSET Shards]
WorkRecord == [pc : WorkSteps, m : Messages, row : Rows, seen : Checkpoints, all : BOOLEAN]

LEMMA IdleRecords ==
  /\ NoRow \in Rows /\ IdleReq \in ReqRecord /\ IdleWork \in WorkRecord
  /\ \A n \in ChunkIds, b \in BOOLEAN : Queued(n, b) \in Checkpoints /\ Complete(n) \in Checkpoints
  /\ \A pc \in ReqSteps : [IdleReq EXCEPT !.pc = pc] \in ReqRecord
<1>1. NoRow \in Rows
  BY DEF NoRow, Rows, States
<1>2. \A n \in ChunkIds, b \in BOOLEAN : Queued(n, b) \in Checkpoints /\ Complete(n) \in Checkpoints
  BY DEF Queued, Complete, Checkpoints
<1>3. IdleReq \in ReqRecord
  BY <1>1 DEF IdleReq, ReqRecord, ReqSteps
<1>4. IdleWork \in WorkRecord
  BY <1>1, <1>2, MessagesAre DEF IdleWork, WorkRecord, WorkSteps
<1>5. \A pc \in ReqSteps : [IdleReq EXCEPT !.pc = pc] \in ReqRecord
  BY <1>3 DEF ReqRecord
<1> QED BY <1>1, <1>2, <1>3, <1>4, <1>5

LEMMA JobsIndInit == Init => JobsInd
<1> SUFFICES ASSUME Init PROVE JobsInd
  OBVIOUS
<1> USE DEF Init
<1>1. TypeOK
  BY IdleRecords, MessagesAre, Bounds DEF TypeOK, ReqRecord, WorkRecord, Checkpoints
<1>2. StagedFirst
  BY DEF StagedFirst, IdleWork, IdleReq
<1>3. HasNextChunk
  BY DEF HasNextChunk, IdleWork
<1> QED BY <1>1, <1>2, <1>3 DEF JobsInd

-----------------------------------------------------------------------------
(* Types *)

LEMMA RecordsAre ==
  ASSUME TypeOK
  PROVE  /\ \A r \in Requests : req[r] \in ReqRecord
         /\ \A c \in Consumers : /\ work[c] \in WorkRecord
                                 /\ Shard(c) \in Shards /\ Chunk(c) \in ChunkIds
         /\ \A s \in Shards : cp[s] \in Checkpoints
BY DEF TypeOK, ReqRecord, WorkRecord, Shard, Chunk, Messages

LEMMA SendTyped ==
  ASSUME TypeOK, NEW m \in Messages, Send(m)
  PROVE  queue' \in [Messages -> Nat]
BY DEF TypeOK, Send

LEMMA RequestTypes ==
  ASSUME TypeOK, NEW r \in Requests,
         Ask(r) \/ StartStep(r) \/ StartFails(r) \/ RequestLost(r)
  PROVE  TypeOK'
<1>0. /\ NoRow \in Rows /\ IdleReq \in ReqRecord
      /\ \A pc \in ReqSteps : [IdleReq EXCEPT !.pc = pc] \in ReqRecord
      /\ Queued(0, FALSE) \in Checkpoints
      /\ req[r] \in ReqRecord /\ req[r].row \in Rows /\ job \in Rows
      /\ req \in [Requests -> ReqRecord]
  BY IdleRecords, MessagesAre, RecordsAre DEF ReqRecord, TypeOK
<1>a. \A pc \in ReqSteps : Goto(r, pc) => req' \in [Requests -> ReqRecord]
  BY <1>0 DEF Goto
<1>b. \A row \in Rows, state \in States : UpdateJob(row, state) => job' \in Rows
  BY DEF UpdateJob, Rows
<1>c. \A pc \in ReqSteps, row \in Rows, todo \in SUBSET Shards :
        /\ [req EXCEPT ![r].pc = pc, ![r].row = row] \in [Requests -> ReqRecord]
        /\ [req EXCEPT ![r].pc = pc, ![r].todo = todo] \in [Requests -> ReqRecord]
        /\ [req EXCEPT ![r].todo = todo, ![r].pc = pc] \in [Requests -> ReqRecord]
  BY <1>0 DEF ReqRecord
<1> USE DEF TypeOK, ReqRecord
<1>1. CASE Reserve(r)
  BY <1>1, <1>0, <1>a DEF Reserve, ReqSteps, Rows, States
<1>2. CASE Replay(r)
  BY <1>2, <1>0, <1>a DEF Replay, ReqSteps
<1>3. CASE FinalizeSuccess(r)
  BY <1>3, <1>0, <1>a DEF FinalizeSuccess, ReqSteps
<1>4. CASE ReadForFailure(r)
  <2>1. "failing" \in ReqSteps
    BY DEF ReqSteps
  <2>2. [req EXCEPT ![r].pc = "failing", ![r].row = job] \in [Requests -> ReqRecord]
    BY <2>1, <1>0, <1>c, Zenon
  <2>3. req' = [req EXCEPT ![r].pc = "failing", ![r].row = job]
    BY <1>4, Zenon DEF ReadForFailure
  <2>4. req' \in [Requests -> ReqRecord]
    BY <2>2, <2>3, Zenon
  <2> HIDE <2>2, <2>3
  <2> QED BY <1>4, <2>4 DEF ReadForFailure
<1>5. CASE MarkFailed(r)
  BY <1>5, <1>0, <1>a, <1>b DEF MarkFailed, ReqSteps, States, Terminal
<1>6. CASE FinalizeFailure(r)
  BY <1>6, <1>0, <1>a DEF FinalizeFailure, ReqSteps
<1>7. CASE ReadJob(r)
  BY <1>7, <1>0 DEF ReadJob, ReqSteps
<1>8. CASE Reopen(r)
  BY <1>8, <1>0, <1>a, <1>b DEF Reopen, ReqSteps, States
<1>9. CASE ClearTarget(r)
  BY <1>9, <1>0, <1>a DEF ClearTarget, ReqSteps
<1>10. CASE Stage(r)
  <2>1. req' \in [Requests -> ReqRecord]
    BY <1>10, <1>c DEF Stage, ReqSteps
  <2>2. cp' \in [Shards -> Checkpoints]
    BY <1>10, <1>0 DEF Stage
  <2> QED BY <1>10, <2>1, <2>2 DEF Stage, Rows, States
<1>11. CASE SendShard(r)
  <2>1. PICK s \in req[r].todo :
          /\ Send([shard |-> s, chunk |-> 0])
          /\ req' = [req EXCEPT ![r].todo = @ \ {s},
                                ![r].pc = IF req[r].todo = {s} THEN "mark" ELSE "send"]
    BY <1>11 DEF SendShard
  <2>2. s \in Shards
    BY <1>0
  <2>3. queue' \in [Messages -> Nat]
    BY <2>1, <2>2, SendTyped, MessagesAre
  <2>4. ASSUME NEW pc \in ReqSteps,
               req' = [req EXCEPT ![r].todo = @ \ {s}, ![r].pc = pc]
        PROVE  req' \in [Requests -> ReqRecord]
    <3>1. req[r].todo \ {s} \in SUBSET Shards
      BY <1>0
    <3> QED BY <2>4, <3>1, <1>0, <1>c
  <2>5. (IF req[r].todo = {s} THEN "mark" ELSE "send") \in ReqSteps
    BY DEF ReqSteps
  <2>6. req' \in [Requests -> ReqRecord]
    BY <2>1, <2>4, <2>5, Zenon
  <2> QED BY <1>11, <2>3, <2>6 DEF SendShard
<1>12. CASE ReadForMark(r)
  <2>1. "marking" \in ReqSteps
    BY DEF ReqSteps
  <2>2. [req EXCEPT ![r].pc = "marking", ![r].row = job] \in [Requests -> ReqRecord]
    BY <2>1, <1>0, <1>c, Zenon
  <2>3. req' = [req EXCEPT ![r].pc = "marking", ![r].row = job]
    BY <1>12, Zenon DEF ReadForMark
  <2>4. req' \in [Requests -> ReqRecord]
    BY <2>2, <2>3, Zenon
  <2> HIDE <2>2, <2>3
  <2> QED BY <1>12, <2>4 DEF ReadForMark
<1>13. CASE MarkPublished(r)
  <2>1. [req[r].row EXCEPT !.delivery = "published"] \in Rows
    BY <1>0 DEF Rows
  <2> QED BY <1>13, <2>1, <1>a DEF MarkPublished, ReqSteps
<1>14. CASE StartFails(r)
  BY <1>14, <1>0, <1>a, Bounds DEF StartFails, ReqSteps
<1>15. CASE RequestLost(r)
  BY <1>15, <1>0, <1>a, Bounds DEF RequestLost, ReqSteps
<1> QED
  BY <1>1, <1>2, <1>3, <1>4, <1>5, <1>6, <1>7, <1>8, <1>9, <1>10, <1>11, <1>12,
     <1>13, <1>14, <1>15 DEF Ask, StartStep

LEMMA ConsumerTypes ==
  ASSUME TypeOK, HasNextChunk, NEW c \in Consumers,
         \/ \E m \in Messages : Deliver(c, m)
         \/ Process(c) \/ HandlerFails(c) \/ GiveUp(c) \/ DeliverAgain(c)
  PROVE  TypeOK'
<1>0. /\ NoRow \in Rows /\ IdleWork \in WorkRecord
      /\ \A n \in ChunkIds, b \in BOOLEAN :
           Queued(n, b) \in Checkpoints /\ Complete(n) \in Checkpoints
      /\ work[c] \in WorkRecord /\ work[c].row \in Rows /\ job \in Rows
      /\ work[c].m \in Messages /\ work[c].seen \in Checkpoints
      /\ work[c].seen.chunk \in ChunkIds
      /\ work \in [Consumers -> WorkRecord]
      /\ Shard(c) \in Shards /\ Chunk(c) \in ChunkIds
      /\ cp \in [Shards -> Checkpoints]
  BY IdleRecords, RecordsAre DEF WorkRecord, TypeOK, Checkpoints
<1>a. \A pc \in WorkSteps : Step(c, pc) => work' \in [Consumers -> WorkRecord]
  BY <1>0 DEF Step, WorkRecord
<1>b. \A row \in Rows, state \in States : UpdateJob(row, state) => job' \in Rows
  BY DEF UpdateJob, Rows
<1>c. Ack(c) => work' \in [Consumers -> WorkRecord]
  BY <1>0 DEF Ack
<1>d. \A m \in Messages : Send(m) => queue' \in [Messages -> Nat]
  BY SendTyped
<1>e. Retry(c) => work' \in [Consumers -> WorkRecord] /\ queue' \in [Messages -> Nat]
  BY <1>0, <1>c, <1>d DEF Retry
<1>f. \A k \in Checkpoints : SetCheckpoint(Shard(c), k) => cp' \in [Shards -> Checkpoints]
  BY <1>0 DEF SetCheckpoint
<1>g. \A pc \in WorkSteps : Sees(c, pc) => work' \in [Consumers -> WorkRecord]
  <2> SUFFICES ASSUME NEW pc \in WorkSteps, Sees(c, pc)
               PROVE  work' \in [Consumers -> WorkRecord]
    OBVIOUS
  <2>1. [work EXCEPT ![c].pc = pc] \in [Consumers -> WorkRecord]
    BY <1>0 DEF WorkRecord
  <2>2. cp[Shard(c)] \in Checkpoints
    BY <1>0
  <2> QED BY <2>1, <2>2, <1>0 DEF Sees, WorkRecord
<1>h. work[c].pc \in {"continue", "sending", "publish"} => Chunk(c) + 1 \in ChunkIds
  BY DEF HasNextChunk
<1> USE DEF TypeOK
<1>1. ASSUME NEW m \in Messages, Deliver(c, m) PROVE TypeOK'
  <2>1. work' \in [Consumers -> WorkRecord]
    BY <1>1, <1>0 DEF Deliver, WorkRecord, WorkSteps
  <2>2. queue' \in [Messages -> Nat]
    <3>1. queue[m] \in Nat /\ queue[m] > 0
      BY <1>1 DEF Deliver
    <3>2. queue[m] - 1 \in Nat
      BY <3>1
    <3> QED BY <1>1, <3>2 DEF Deliver
  <2> QED BY <1>1, <2>1, <2>2 DEF Deliver, WorkRecord
<1>2. CASE CancelFromQueue(c)
  BY <1>2, <1>c DEF CancelFromQueue, Rows, States, Terminal, WorkRecord
<1>3. CASE ReadCheckpoint(c)
  <2>1. work' \in [Consumers -> WorkRecord] /\ queue' \in [Messages -> Nat]
    BY <1>3, <1>c, <1>e, <1>g DEF ReadCheckpoint, WorkSteps
  <2> QED BY <1>3, <2>1 DEF ReadCheckpoint, WorkRecord
<1>4. CASE Recount(c)
  BY <1>4, <1>a, <1>c DEF Recount, WorkSteps, WorkRecord
<1>5. CASE CloseJob(c)
  BY <1>5, <1>c DEF CloseJob, Rows, States, Terminal, WorkRecord
<1>6. CASE Resend(c)
  <2>1. [shard |-> Shard(c), chunk |-> work[c].seen.chunk] \in Messages
    BY <1>0, MessagesAre
  <2> QED BY <1>6, <2>1, <1>a, <1>d DEF Resend, WorkSteps, WorkRecord
<1>7. CASE Remark(c)
  BY <1>7, <1>0, <1>c, <1>f DEF Remark, WorkRecord
<1>8. CASE StartScanning(c)
  <2>1. work' \in [Consumers -> WorkRecord]
    BY <1>8, <1>0 DEF StartScanning, WorkRecord, WorkSteps, Rows, States
  <2> QED BY <1>8, <2>1, <1>0, <1>b DEF StartScanning, WorkRecord, States
<1>9. CASE ClearShard(c)
  BY <1>9, <1>0, <1>a DEF ClearShard, WorkSteps, WorkRecord
<1>10. CASE Insert(c)
  BY <1>10, <1>0, <1>a DEF Insert, WorkSteps, WorkRecord
<1>11. CASE Continue(c)
  <2>1. Queued(Chunk(c) + 1, TRUE) \in Checkpoints
    BY <1>11, <1>0, <1>h DEF Continue
  <2> QED BY <1>11, <2>1, <1>a, <1>f DEF Continue, WorkSteps, WorkRecord
<1>12. CASE SendNext(c)
  <2>1. [shard |-> Shard(c), chunk |-> Chunk(c) + 1] \in Messages
    BY <1>12, <1>0, <1>h, MessagesAre DEF SendNext
  <2> QED BY <1>12, <2>1, <1>a, <1>d DEF SendNext, WorkSteps, WorkRecord
<1>13. CASE Publish(c)
  <2>1. Queued(Chunk(c) + 1, FALSE) \in Checkpoints
    BY <1>13, <1>0, <1>h DEF Publish
  <2> QED BY <1>13, <2>1, <1>a, <1>f DEF Publish, WorkSteps, WorkRecord
<1>14. CASE SaveComplete(c)
  BY <1>14, <1>0, <1>a, <1>f DEF SaveComplete, WorkSteps, WorkRecord
<1>15. CASE Count(c)
  <2>1. work' \in [Consumers -> WorkRecord]
    BY <1>15, <1>0 DEF Count, WorkRecord, WorkSteps, AllComplete
  <2> QED BY <1>15, <2>1 DEF Count, WorkRecord
<1>16. CASE Finish(c)
  BY <1>16, <1>0, <1>b, <1>c DEF Finish, States, Terminal, WorkRecord
<1>17. CASE FailJob(c)
  BY <1>17, <1>0, <1>b, <1>c DEF FailJob, States, Terminal, WorkRecord
<1>18. CASE HandlerFails(c)
  BY <1>18, <1>e, Bounds DEF HandlerFails, WorkRecord
<1>19. CASE GiveUp(c)
  <2>1. work' \in [Consumers -> WorkRecord]
    BY <1>19, <1>0, <1>c DEF GiveUp, WorkRecord, WorkSteps
  <2> QED BY <1>19, <2>1, Bounds DEF GiveUp, WorkRecord
<1>20. CASE DeliverAgain(c)
  BY <1>20, <1>0, <1>d, Bounds DEF DeliverAgain
<1> QED
  BY <1>1, <1>2, <1>3, <1>4, <1>5, <1>6, <1>7, <1>8, <1>9, <1>10, <1>11, <1>12, <1>13,
     <1>14, <1>15, <1>16, <1>17, <1>18, <1>19, <1>20 DEF Process

LEMMA CancelTypes ==
  ASSUME TypeOK, ReadForCancel \/ WriteCancel
  PROVE  TypeOK'
<1> USE DEF TypeOK
<1>1. CASE ReadForCancel
  BY <1>1, Bounds DEF ReadForCancel
<1>2. CASE WriteCancel
  <2>1. NoRow \in Rows
    BY IdleRecords
  <2> QED BY <1>2, <2>1 DEF WriteCancel, UpdateJob, Rows, States, Terminal
<1> QED BY <1>1, <1>2

-----------------------------------------------------------------------------
(* Staging *)

\* What a consumer's step works on has been staged, and stays so.
LEMMA ConsumerStaged ==
  ASSUME TypeOK, StagedFirst, NEW c \in Consumers,
         \/ \E m \in Messages : Deliver(c, m)
         \/ Process(c) \/ HandlerFails(c) \/ GiveUp(c) \/ DeliverAgain(c)
  PROVE  \A s \in Shards : cp[s].status # "none" /\ cp'[s].status # "none"
<1>1. \A s \in Shards : cp[s].status # "none"
  <2> SUFFICES ASSUME NEW s \in Shards, cp[s].status = "none"
               PROVE  FALSE
    OBVIOUS
  <2>1. work[c].pc = "idle" /\ \A m \in Messages : queue[m] = 0
    BY DEF StagedFirst
  <2>2. ~Process(c)
    BY <2>1 DEF Process, CancelFromQueue, ReadCheckpoint, Recount, CloseJob, Resend, Remark,
      StartScanning, ClearShard, Insert, Continue, SendNext, Publish, SaveComplete, Count,
      Finish, FailJob
  <2>3. ~(HandlerFails(c) \/ GiveUp(c) \/ DeliverAgain(c))
    BY <2>1 DEF HandlerFails, GiveUp, DeliverAgain
  <2>4. ASSUME NEW m \in Messages, Deliver(c, m) PROVE FALSE
    <3>1. queue[m] > 0
      BY <2>4, Zenon DEF Deliver
    <3>2. queue[m] = 0
      BY <2>1
    <3> QED BY <3>1, <3>2
  <2> QED BY <2>2, <2>3, <2>4
<1>2. \/ cp' = cp
      \/ \E n \in ChunkIds \cup {Chunk(c) + 1}, b \in BOOLEAN :
           \/ cp' = [cp EXCEPT ![Shard(c)] = Queued(n, b)]
           \/ cp' = [cp EXCEPT ![Shard(c)] = Complete(n)]
  <2>0. Chunk(c) \in ChunkIds /\ work[c].seen.chunk \in ChunkIds
    BY RecordsAre DEF WorkRecord, Checkpoints
  <2>1. CASE Remark(c) \/ Continue(c) \/ Publish(c) \/ SaveComplete(c)
    BY <2>1, <2>0 DEF Remark, Continue, Publish, SaveComplete, SetCheckpoint
  <2>2. CASE ~(Remark(c) \/ Continue(c) \/ Publish(c) \/ SaveComplete(c))
    BY <2>2 DEF Deliver, Process, CancelFromQueue, ReadCheckpoint, Recount, CloseJob, Resend,
      StartScanning, ClearShard, Insert, SendNext, Count, Finish, FailJob, HandlerFails,
      GiveUp, DeliverAgain
  <2> QED BY <2>1, <2>2
<1> QED BY <1>1, <1>2 DEF TypeOK, Queued, Complete

\* A consumer's step is its own: of the others, and of the shards it does not
\* handle, it changes nothing but the queue.
LEMMA ConsumerFrame ==
  ASSUME TypeOK, NEW c \in Consumers,
         \/ \E m \in Messages : Deliver(c, m)
         \/ Process(c) \/ HandlerFails(c) \/ GiveUp(c) \/ DeliverAgain(c)
  PROVE  /\ \A d \in Consumers \ {c} : work'[d] = work[d]
         /\ \A s \in Shards \ {Shard(c)} : cp'[s] = cp[s] /\ index'[s] = index[s]
         /\ work[c].pc = "idle" => cp' = cp /\ index' = index
         /\ req' = req /\ dedupe' = dedupe /\ cancel' = cancel
<1>0. /\ work \in [Consumers -> WorkRecord] /\ cp \in [Shards -> Checkpoints]
      /\ index \in [Shards -> SUBSET ChunkIds]
  BY DEF TypeOK, WorkRecord
<1>1. \A d \in Consumers \ {c} : work'[d] = work[d]
  BY <1>0 DEF Deliver, Process, CancelFromQueue, ReadCheckpoint, Recount, CloseJob, Resend,
      Remark, StartScanning, ClearShard, Insert, Continue, SendNext, Publish, SaveComplete,
      Count, Finish, FailJob, HandlerFails, GiveUp, DeliverAgain, Step, Sees, Ack, Retry
<1>2. \A s \in Shards \ {Shard(c)} : cp'[s] = cp[s]
  BY <1>0 DEF Deliver, Process, CancelFromQueue, ReadCheckpoint, Recount, CloseJob, Resend,
      Remark, StartScanning, ClearShard, Insert, Continue, SendNext, Publish, SaveComplete,
      Count, Finish, FailJob, HandlerFails, GiveUp, DeliverAgain, SetCheckpoint
<1>3. \A s \in Shards \ {Shard(c)} : index'[s] = index[s]
  BY <1>0 DEF Deliver, Process, CancelFromQueue, ReadCheckpoint, Recount, CloseJob, Resend,
      Remark, StartScanning, ClearShard, Insert, Continue, SendNext, Publish, SaveComplete,
      Count, Finish, FailJob, HandlerFails, GiveUp, DeliverAgain
<1>4. work[c].pc = "idle" => cp' = cp /\ index' = index
  BY DEF Deliver, Process, CancelFromQueue, ReadCheckpoint, Recount, CloseJob, Resend,
      Remark, StartScanning, ClearShard, Insert, Continue, SendNext, Publish, SaveComplete,
      Count, Finish, FailJob, HandlerFails, GiveUp, DeliverAgain
<1>5. req' = req /\ dedupe' = dedupe /\ cancel' = cancel
  BY DEF Deliver, Process, CancelFromQueue, ReadCheckpoint, Recount, CloseJob, Resend,
      Remark, StartScanning, ClearShard, Insert, Continue, SendNext, Publish, SaveComplete,
      Count, Finish, FailJob, HandlerFails, GiveUp, DeliverAgain
<1> QED BY <1>1, <1>2, <1>3, <1>4, <1>5

LEMMA ConsumerNextChunk ==
  ASSUME TypeOK, TypeOK', HasNextChunk, NEW c \in Consumers,
         \/ \E m \in Messages : Deliver(c, m)
         \/ Process(c) \/ HandlerFails(c) \/ GiveUp(c) \/ DeliverAgain(c)
  PROVE  HasNextChunk'
<1>0. /\ work \in [Consumers -> WorkRecord]
      /\ Chunk(c) \in ChunkIds /\ work[c].pc \in WorkSteps
  BY RecordsAre DEF TypeOK, WorkRecord
<1> SUFFICES \A d \in Consumers : \/ work'[d] = work[d]
                                  \/ work'[d].pc \notin {"continue", "sending", "publish"}
                                  \/ Chunk(d)' + 1 \in ChunkIds
  BY DEF HasNextChunk, Chunk
<1>1. \A d \in Consumers \ {c} : work'[d] = work[d]
  BY ConsumerFrame
<1>2. CASE Insert(c)
  <2>1. Chunk(c)' = Chunk(c)
    BY <1>2, <1>0 DEF Insert, Step, Chunk, WorkRecord
  <2>2. ~Last(c) => Chunk(c) + 1 \in ChunkIds
    BY <1>0, Bounds DEF Last, ChunkIds
  <2>3. Last(c) => work'[c].pc = "save"
    BY <1>2, <1>0 DEF Insert, Step, WorkRecord
  <2> QED BY <1>1, <2>1, <2>2, <2>3
<1>3. CASE Continue(c) \/ SendNext(c)
  <2>1. Chunk(c)' = Chunk(c)
    BY <1>3, <1>0 DEF Continue, SendNext, Step, Chunk, WorkRecord
  <2>2. Chunk(c) + 1 \in ChunkIds
    BY <1>3 DEF Continue, SendNext, HasNextChunk
  <2> QED BY <1>1, <2>1, <2>2
<1>4. CASE ~(Insert(c) \/ Continue(c) \/ SendNext(c))
  <2>1. \/ work'[c] = work[c]
        \/ work'[c].pc \notin {"continue", "sending", "publish"}
    <3>1. CASE \E m \in Messages : Deliver(c, m)
      <4>1. PICK m \in Messages : Deliver(c, m)
        BY <3>1
      <4>2. work' = [work EXCEPT ![c] = [IdleWork EXCEPT !.m = m, !.row = job,
              !.pc = IF job.state = "cancel_requested" THEN "canceling" ELSE "reading"]]
        BY <4>1, Zenon DEF Deliver
      <4> QED BY <4>2, <1>0, IdleRecords DEF WorkRecord
    <3>2. CASE Ack(c)
      BY <3>2, <1>0 DEF Ack, IdleWork
    <3>3. CASE \E pc \in WorkSteps \ {"continue", "sending", "publish"} : Step(c, pc)
      BY <3>3, <1>0 DEF Step, WorkRecord
    <3>4. CASE ReadCheckpoint(c) \/ StartScanning(c) \/ Count(c) \/ GiveUp(c)
      <4>1. CASE ReadCheckpoint(c)
        BY <4>1, <3>2, <1>0 DEF ReadCheckpoint, Sees, Retry, WorkRecord
      <4>2. CASE StartScanning(c)
        BY <4>2, <1>0 DEF StartScanning, WorkRecord
      <4>3. CASE Count(c)
        BY <4>3, <1>0 DEF Count, WorkRecord
      <4>4. CASE GiveUp(c)
        BY <4>4, <3>2, <1>0 DEF GiveUp, WorkRecord
      <4> QED BY <3>4, <4>1, <4>2, <4>3, <4>4
    <3>5. CASE DeliverAgain(c)
      BY <3>5 DEF DeliverAgain
    <3> QED
      BY <1>4, <3>1, <3>2, <3>3, <3>4, <3>5 DEF Process, CancelFromQueue, Recount, CloseJob,
        Resend, Remark, ClearShard, Publish, SaveComplete, Finish, FailJob, HandlerFails,
        Retry, WorkSteps
  <2> QED BY <1>1, <2>1
<1> QED BY <1>2, <1>3, <1>4

LEMMA JobsIndNext == JobsInd /\ [Next]_vars => JobsInd'
<1> SUFFICES ASSUME JobsInd, [Next]_vars PROVE JobsInd'
  OBVIOUS
<1>0. TypeOK /\ StagedFirst /\ HasNextChunk
  BY DEF JobsInd
<1>1. ASSUME NEW r \in Requests, Ask(r) \/ StartStep(r) \/ StartFails(r) \/ RequestLost(r)
      PROVE  JobsInd'
  <2>1. TypeOK'
    BY <1>0, <1>1, RequestTypes
  <2>2. HasNextChunk'
    <3>1. work' = work
      BY <1>1 DEF Ask, StartStep, Reserve, Replay, FinalizeSuccess, ReadForFailure, MarkFailed,
        FinalizeFailure, ReadJob, Reopen, ClearTarget, Stage, SendShard, ReadForMark,
        MarkPublished, StartFails, RequestLost
    <3> QED BY <1>0, <3>1 DEF HasNextChunk, Chunk
  <2>3. StagedFirst'
    <3>0. req \in [Requests -> ReqRecord] /\ cp \in [Shards -> Checkpoints]
      BY <1>0 DEF TypeOK, ReqRecord
    <3>1. CASE Stage(r)
      BY <3>1 DEF Stage, StagedFirst, Queued
    <3>2. CASE SendShard(r)
      BY <3>2, <1>0 DEF SendShard, StagedFirst
    <3>3. CASE ~(Stage(r) \/ SendShard(r))
      <4>1. cp' = cp /\ queue' = queue /\ work' = work
        BY <1>1, <3>3 DEF Ask, StartStep, Reserve, Replay, FinalizeSuccess, ReadForFailure,
          MarkFailed, FinalizeFailure, ReadJob, Reopen, ClearTarget, ReadForMark,
          MarkPublished, StartFails, RequestLost
      <4>2. \A q \in Requests : req'[q] = req[q] \/ req'[q].pc # "send"
        BY <1>1, <3>3, <3>0 DEF Ask, StartStep, Reserve, Replay, FinalizeSuccess, ReadForFailure,
          MarkFailed, FinalizeFailure, ReadJob, Reopen, ClearTarget, ReadForMark,
          MarkPublished, StartFails, RequestLost, Goto, ReqRecord, IdleReq
      <4> QED BY <4>1, <4>2, <1>0 DEF StagedFirst
    <3> QED BY <3>1, <3>2, <3>3
  <2> QED BY <2>1, <2>2, <2>3 DEF JobsInd
<1>2. ASSUME NEW c \in Consumers,
             \/ \E m \in Messages : Deliver(c, m)
             \/ Process(c) \/ HandlerFails(c) \/ GiveUp(c) \/ DeliverAgain(c)
      PROVE  JobsInd'
  <2>1. TypeOK'
    BY <1>0, <1>2, ConsumerTypes
  <2>2. HasNextChunk'
    BY <1>0, <1>2, <2>1, ConsumerNextChunk
  <2>3. StagedFirst'
    BY <1>0, <1>2, ConsumerStaged DEF StagedFirst
  <2> QED BY <2>1, <2>2, <2>3 DEF JobsInd
<1>3. CASE ReadForCancel \/ WriteCancel
  <2>1. TypeOK'
    BY <1>0, <1>3, CancelTypes
  <2>2. StagedFirst' /\ HasNextChunk'
    BY <1>0, <1>3 DEF ReadForCancel, WriteCancel, StagedFirst, HasNextChunk, Chunk
  <2> QED BY <2>1, <2>2 DEF JobsInd
<1>4. CASE UNCHANGED vars
  BY <1>0, <1>4 DEF JobsInd, TypeOK, StagedFirst, HasNextChunk, Chunk, vars
<1> QED
  <2>1. CASE Next
    BY <2>1, <1>1, <1>2, <1>3 DEF Next
  <2> QED BY <2>1, <1>4

LEMMA JobsAlways == Spec => []JobsInd
BY JobsIndInit, JobsIndNext, PTL DEF Spec

\* However the start and its retries, messages and their redelivery, failures
\* and a cancel interleave, no message is handled before the checkpoint of its
\* shard was staged: the throw of processQueueMessage for that case is dead.
THEOREM JobsInvariant == Spec => []JobsInv
<1>1. JobsInd => JobsInv
  BY DEF JobsInd, JobsInv, NeverUnstaged, StagedFirst, Unstaged, Shard, TypeOK, Messages
<1> QED BY <1>1, JobsAlways, PTL

-----------------------------------------------------------------------------
(* One consumer to a shard *)

\* No two consumers handle messages of one shard at the same time.
OnePerShard ==
  \A c, d \in Consumers : c # d /\ work[c].pc # "idle" /\ work[d].pc # "idle" =>
    Shard(c) # Shard(d)

\* The shard waits for chunk n, or was staged again.
Awaits(s, n) == cp[s].status = "queued" /\ Takes(cp[s], n)

\* The checkpoint of the shard a consumer handles is where its handler left it.
InStep(c) ==
  /\ work[c].pc \in {"running", "clear", "insert", "continue", "save"} =>
       Awaits(Shard(c), Chunk(c))
  /\ work[c].pc \in {"sending", "publish"} => Awaits(Shard(c), Chunk(c) + 1)
  /\ work[c].pc \in {"resend", "remark"} => Awaits(Shard(c), work[c].seen.chunk)

AllInStep == \A c \in Consumers : InStep(c)

\* What a consumer's own step leaves it with.
LEMMA OwnStep ==
  ASSUME TypeOK, NEW c \in Consumers, InStep(c),
         \/ \E m \in Messages : Deliver(c, m)
         \/ Process(c) \/ HandlerFails(c) \/ GiveUp(c) \/ DeliverAgain(c)
  PROVE  InStep(c)'
<1>0. /\ work \in [Consumers -> WorkRecord] /\ work[c] \in WorkRecord
      /\ cp \in [Shards -> Checkpoints] /\ Shard(c) \in Shards
      /\ Chunk(c) \in ChunkIds
  BY RecordsAre DEF TypeOK, WorkRecord
<1> DEFINE Relevant == {"running", "clear", "insert", "continue", "save", "sending",
                        "publish", "resend", "remark"}
<1>a. work'[c].pc \notin Relevant => InStep(c)'
  BY DEF InStep
<1> HIDE DEF Relevant
<1>b. Ack(c) => work'[c].pc \notin Relevant
  BY <1>0 DEF Ack, IdleWork, Relevant
<1>c. \A pc \in WorkSteps : Step(c, pc) =>
        work'[c].pc = pc /\ Shard(c)' = Shard(c) /\ Chunk(c)' = Chunk(c)
                         /\ work'[c].seen = work[c].seen
  BY <1>0 DEF Step, WorkRecord, Shard, Chunk
<1>1. ASSUME NEW m \in Messages, Deliver(c, m) PROVE InStep(c)'
  <2>1. work' = [work EXCEPT ![c] = [IdleWork EXCEPT !.m = m, !.row = job,
          !.pc = IF job.state = "cancel_requested" THEN "canceling" ELSE "reading"]]
    BY <1>1, Zenon DEF Deliver
  <2>2. work'[c].pc \notin Relevant
    BY <2>1, <1>0, IdleRecords DEF WorkRecord, Relevant
  <2> QED BY <2>2, <1>a
<1>2. CASE ReadCheckpoint(c)
  <2>1. \A pc \in WorkSteps : Sees(c, pc) =>
          /\ work'[c].pc = pc /\ Shard(c)' = Shard(c) /\ Chunk(c)' = Chunk(c)
          /\ work'[c].seen = cp[Shard(c)]
    BY <1>0 DEF Sees, WorkRecord, Shard, Chunk
  <2>2. cp' = cp
    BY <1>2 DEF ReadCheckpoint
  <2>3. Current(c) /\ Sees(c, "clear") => InStep(c)'
    BY <2>1, <2>2 DEF Current, InStep, Awaits, WorkSteps
  <2>4. Current(c) /\ Sees(c, "running") => InStep(c)'
    BY <2>1, <2>2 DEF Current, InStep, Awaits, WorkSteps
  <2>5. Stale(c) /\ Sees(c, "resend") => InStep(c)'
    BY <2>1, <2>2 DEF Stale, InStep, Awaits, Takes, WorkSteps
  <2>6. Sees(c, "recount") => InStep(c)'
    BY <2>1, <1>a DEF Relevant, WorkSteps
  <2> QED BY <1>2, <1>a, <1>b, <2>3, <2>4, <2>5, <2>6 DEF ReadCheckpoint, Retry
<1>3. CASE Resend(c)
  BY <1>3, <1>c DEF Resend, InStep, Awaits, WorkSteps
<1>4. CASE StartScanning(c)
  <2>1. /\ work'[c].pc = "clear" /\ Shard(c)' = Shard(c) /\ Chunk(c)' = Chunk(c)
    BY <1>4, <1>0 DEF StartScanning, WorkRecord, Shard, Chunk
  <2> QED BY <1>4, <2>1 DEF StartScanning, InStep, Awaits
<1>5. CASE ClearShard(c)
  BY <1>5, <1>c DEF ClearShard, InStep, Awaits, WorkSteps
<1>6. CASE Insert(c)
  BY <1>6, <1>c DEF Insert, InStep, Awaits, WorkSteps
<1>7. CASE Continue(c)
  <2>1. cp'[Shard(c)] = Queued(Chunk(c) + 1, TRUE)
    BY <1>7, <1>0 DEF Continue, SetCheckpoint
  <2>2. work'[c].pc = "sending" /\ Shard(c)' = Shard(c) /\ Chunk(c)' = Chunk(c)
    BY <1>7, <1>c DEF Continue, WorkSteps
  <2> QED BY <2>1, <2>2 DEF InStep, Awaits, Takes, Queued
<1>8. CASE SendNext(c)
  BY <1>8, <1>c DEF SendNext, InStep, Awaits, WorkSteps
<1>9. CASE \/ CancelFromQueue(c) \/ CloseJob(c) \/ Remark(c) \/ Finish(c) \/ FailJob(c)
           \/ HandlerFails(c)
  BY <1>9, <1>a, <1>b DEF CancelFromQueue, CloseJob, Remark, Finish, FailJob, HandlerFails, Retry
<1>10. CASE Recount(c) \/ Publish(c) \/ SaveComplete(c)
  <2>1. Ack(c) \/ \E pc \in {"closing", "finish", "count"} : Step(c, pc)
    BY <1>10 DEF Recount, Publish, SaveComplete
  <2>2. work'[c].pc \notin Relevant
    BY <2>1, <1>b, <1>c DEF WorkSteps, Relevant
  <2> QED BY <2>2, <1>a
<1>11. CASE Count(c)
  <2>1. work'[c].pc = "finish"
    BY <1>11, <1>0 DEF Count, WorkRecord
  <2> QED BY <2>1, <1>a DEF Relevant
<1>12. CASE GiveUp(c)
  <2>1. Ack(c) \/ work'[c].pc = "failing"
    BY <1>12, <1>0 DEF GiveUp, WorkRecord
  <2> QED BY <2>1, <1>a, <1>b DEF Relevant
<1>13. CASE DeliverAgain(c)
  BY <1>13 DEF DeliverAgain, InStep, Awaits, Shard, Chunk
<1> QED
  BY <1>1, <1>2, <1>3, <1>4, <1>5, <1>6, <1>7, <1>8, <1>9, <1>10, <1>11, <1>12, <1>13 DEF Process

LEMMA AllInStepNext ==
  ASSUME TypeOK, OnePerShard, AllInStep, [Next]_vars
  PROVE  AllInStep'
<1>1. ASSUME NEW r \in Requests, Ask(r) \/ StartStep(r) \/ StartFails(r) \/ RequestLost(r)
      PROVE  AllInStep'
  <2>1. work' = work
    BY <1>1 DEF Ask, StartStep, Reserve, Replay, FinalizeSuccess, ReadForFailure, MarkFailed,
      FinalizeFailure, ReadJob, Reopen, ClearTarget, Stage, SendShard, ReadForMark,
      MarkPublished, StartFails, RequestLost
  <2>2. cp' = cp \/ cp' = [s \in Shards |-> Queued(0, FALSE)]
    BY <1>1 DEF Ask, StartStep, Reserve, Replay, FinalizeSuccess, ReadForFailure, MarkFailed,
      FinalizeFailure, ReadJob, Reopen, ClearTarget, Stage, SendShard, ReadForMark,
      MarkPublished, StartFails, RequestLost
  <2>3. \A c \in Consumers : Shard(c) \in Shards
    BY RecordsAre
  <2> QED BY <2>1, <2>2, <2>3 DEF AllInStep, InStep, Awaits, Takes, Queued, Shard, Chunk
<1>2. ASSUME NEW c \in Consumers,
             \/ \E m \in Messages : Deliver(c, m)
             \/ Process(c) \/ HandlerFails(c) \/ GiveUp(c) \/ DeliverAgain(c)
      PROVE  AllInStep'
  <2>1. InStep(c)'
    BY <1>2, OwnStep DEF AllInStep
  <2>2. ASSUME NEW d \in Consumers \ {c} PROVE InStep(d)'
    <3>1. work'[d] = work[d]
      BY <1>2, ConsumerFrame
    <3>2. Shard(d) \in Shards
      BY RecordsAre
    <3>3. work[d].pc # "idle" => cp'[Shard(d)] = cp[Shard(d)]
      <4>1. CASE work[c].pc = "idle"
        BY <4>1, <1>2, ConsumerFrame
      <4>2. CASE work[c].pc # "idle" /\ work[d].pc # "idle"
        BY <4>2, <3>2, <1>2, ConsumerFrame DEF OnePerShard
      <4> QED BY <4>1, <4>2
    <3>4. InStep(d)
      BY DEF AllInStep
    <3> QED BY <3>1, <3>3, <3>4 DEF InStep, Awaits, Shard, Chunk
  <2> QED BY <2>1, <2>2 DEF AllInStep
<1>3. CASE ReadForCancel \/ WriteCancel \/ UNCHANGED vars
  BY <1>3 DEF ReadForCancel, WriteCancel, vars, AllInStep, InStep, Awaits, Shard, Chunk
<1> QED
  <2>1. CASE Next
    BY <2>1, <1>1, <1>2, <1>3 DEF Next
  <2> QED BY <2>1, <1>3

LEMMA ProgressStep ==
  ASSUME TypeOK, HasNextChunk, AllInStep, [Next]_vars
  PROVE  Staging \/ \A s \in Shards : Progress(cp[s]) <= Progress(cp'[s])
<1>0. /\ cp \in [Shards -> Checkpoints]
      /\ \A s \in Shards : Progress(cp[s]) \in 0..Chunks
  BY Bounds DEF TypeOK, Progress, Checkpoints, ChunkIds
<1>1. CASE cp' = cp
  BY <1>0, <1>1
<1>2. ASSUME NEW c \in Consumers,
             Remark(c) \/ Continue(c) \/ Publish(c) \/ SaveComplete(c)
      PROVE  \A s \in Shards : Progress(cp[s]) <= Progress(cp'[s])
  <2>0. Shard(c) \in Shards /\ Chunk(c) \in ChunkIds /\ work[c].seen.chunk \in ChunkIds
    BY RecordsAre DEF WorkRecord, Checkpoints
  <2>1. \A s \in Shards \ {Shard(c)} : cp'[s] = cp[s]
    BY <1>2, ConsumerFrame DEF Process
  <2>2. Progress(cp[Shard(c)]) <= Progress(cp'[Shard(c)])
    <3>1. CASE Remark(c)
      <4>1. cp'[Shard(c)] = Queued(work[c].seen.chunk, FALSE)
        BY <3>1, <1>0, <2>0 DEF Remark, SetCheckpoint
      <4>2. Awaits(Shard(c), work[c].seen.chunk)
        BY <3>1 DEF Remark, AllInStep, InStep
      <4> QED BY <4>1, <4>2, <2>0 DEF Awaits, Takes, Progress, Queued, ChunkIds
    <3>2. CASE Continue(c)
      <4>1. cp'[Shard(c)] = Queued(Chunk(c) + 1, TRUE)
        BY <3>2, <1>0, <2>0 DEF Continue, SetCheckpoint
      <4>2. Awaits(Shard(c), Chunk(c))
        BY <3>2 DEF Continue, AllInStep, InStep
      <4> QED BY <4>1, <4>2, <2>0 DEF Awaits, Takes, Progress, Queued, ChunkIds
    <3>3. CASE Publish(c)
      <4>1. cp'[Shard(c)] = Queued(Chunk(c) + 1, FALSE)
        BY <3>3, <1>0, <2>0 DEF Publish, SetCheckpoint
      <4>2. Awaits(Shard(c), Chunk(c) + 1)
        BY <3>3 DEF Publish, AllInStep, InStep
      <4> QED BY <4>1, <4>2, <2>0 DEF Awaits, Takes, Progress, Queued, ChunkIds
    <3>4. CASE SaveComplete(c)
      <4>1. cp'[Shard(c)] = Complete(Chunk(c))
        BY <3>4, <1>0, <2>0 DEF SaveComplete, SetCheckpoint
      <4> QED BY <4>1, <2>0, <1>0 DEF Progress, Complete
    <3> QED BY <1>2, <3>1, <3>2, <3>3, <3>4
  <2> QED BY <2>1, <2>2, <1>0
<1>3. ASSUME NEW r \in Requests, Stage(r) PROVE Staging
  BY <1>3, RecordsAre DEF Stage, Staging, TypeOK, ReqRecord
<1> QED
  <2>1. CASE \E r \in Requests : Ask(r) \/ StartStep(r) \/ StartFails(r) \/ RequestLost(r)
    <3>1. cp' = cp \/ \E r \in Requests : Stage(r)
      BY <2>1 DEF Ask, StartStep, Reserve, Replay, FinalizeSuccess, ReadForFailure, MarkFailed,
        FinalizeFailure, ReadJob, Reopen, ClearTarget, SendShard, ReadForMark,
        MarkPublished, StartFails, RequestLost
    <3> QED BY <3>1, <1>1, <1>3
  <2>2. CASE \E c \in Consumers : \/ \E m \in Messages : Deliver(c, m)
                                  \/ Process(c) \/ HandlerFails(c) \/ GiveUp(c) \/ DeliverAgain(c)
    <3>1. cp' = cp \/ \E c \in Consumers :
            Remark(c) \/ Continue(c) \/ Publish(c) \/ SaveComplete(c)
      BY <2>2 DEF Deliver, Process, CancelFromQueue, ReadCheckpoint, Recount, CloseJob, Resend,
        StartScanning, ClearShard, Insert, SendNext, Count, Finish, FailJob, HandlerFails,
        GiveUp, DeliverAgain
    <3> QED BY <3>1, <1>1, <1>2
  <2>3. CASE ReadForCancel \/ WriteCancel \/ UNCHANGED vars
    BY <2>3, <1>1 DEF ReadForCancel, WriteCancel, vars
  <2> QED BY <2>1, <2>2, <2>3 DEF Next

\* processQueueMessage: repeated, late and redelivered messages of a shard never
\* take its checkpoint back, only a start that stages the job again does, as long
\* as no two consumers handle messages of that shard at the same time: the chunk
\* cursors are compared before the handler's awaits, the checkpoint is written
\* after them.
THEOREM ProgressIsKept == Spec /\ []OnePerShard => ProgressKept
<1>1. Init => AllInStep
  BY DEF Init, AllInStep, InStep, IdleWork
<1>2. JobsInd /\ OnePerShard /\ AllInStep /\ [Next]_vars => AllInStep'
  BY AllInStepNext DEF JobsInd
<1>3. JobsInd /\ AllInStep /\ [Next]_vars =>
        [Staging \/ \A s \in Shards : Progress(cp[s]) <= Progress(cp'[s])]_vars
  BY ProgressStep DEF JobsInd
<1> QED BY <1>1, <1>2, <1>3, JobsAlways, PTL DEF Spec, ProgressKept

-----------------------------------------------------------------------------
(* One start *)

\* No replayed request starts the job again.
StartedOnce == \A r \in Requests \ {First} : req[r].pc \in {"idle", "done"}

\* Until the start has staged the job nothing was staged.
StagedOnce ==
  /\ req[First].pc = "idle" => dedupe = "none"
  /\ req[First].pc \in {"idle", "start", "reopen", "clear", "stage"} =>
       \A s \in Shards : cp[s].status = "none"

\* No message is ahead of its shard.
NoneAhead == \A m \in Messages : queue[m] > 0 => m.chunk <= Progress(cp[m.shard])

\* The checkpoint of the shard a consumer handles is exactly where its handler
\* left it, and so is the index.
Exact(c) ==
  /\ work[c].pc # "idle" => Chunk(c) <= Progress(cp[Shard(c)])
  /\ work[c].pc \in {"running", "clear", "insert", "continue", "save"} =>
       /\ cp[Shard(c)].status = "queued" /\ cp[Shard(c)].chunk = Chunk(c)
       /\ work[c].seen.chunk = Chunk(c)
  /\ work[c].pc \in {"sending", "publish"} =>
       cp[Shard(c)].status = "queued" /\ cp[Shard(c)].chunk = Chunk(c) + 1
  /\ work[c].pc \in {"resend", "remark"} =>
       cp[Shard(c)].status = "queued" /\ cp[Shard(c)].chunk = work[c].seen.chunk
  /\ work[c].pc \in {"continue", "save"} => Chunk(c) \in index[Shard(c)]
  /\ work[c].pc = "save" => Last(c)

AllExact == \A c \in Consumers : Exact(c)

\* The index has the chunks a shard has passed.
Indexed == \A s \in Shards : \A n \in ChunkIds : 
    cp[s].status # "none" /\ n < Progress(cp[s]) => n \in index[s]

\* Whoever takes the job for completed, or is about to write that it is.
Claimed ==
  \/ job.state = "completed" \/ cancel.row.state = "completed"
  \/ \E r \in Requests : req[r].row.state = "completed"
  \/ \E c \in Consumers :
       work[c].row.state = "completed" \/ work[c].all \/ work[c].pc = "closing"

ClaimedIsComplete == Claimed => AllComplete

OnceInd == StagedOnce /\ NoneAhead /\ AllExact /\ Indexed /\ ClaimedIsComplete

LEMMA OnceInit == Init => OnceInd
<1> SUFFICES ASSUME Init PROVE OnceInd
  OBVIOUS
<1>1. StagedOnce
  BY DEF Init, StagedOnce
<1>2. NoneAhead
  BY DEF Init, NoneAhead
<1>3. AllExact
  BY DEF Init, AllExact, Exact, IdleWork
<1>4. Indexed
  BY DEF Init, Indexed, Progress, ChunkIds
<1>5. ClaimedIsComplete
  BY DEF Init, ClaimedIsComplete, Claimed, IdleWork, IdleReq, NoRow
<1> QED BY <1>1, <1>2, <1>3, <1>4, <1>5 DEF OnceInd

LEMMA ExactIsInStep == AllExact => AllInStep
BY DEF AllExact, Exact, AllInStep, InStep, Awaits, Takes

LEMMA ProgressIs ==
  ASSUME TypeOK, NEW s \in Shards
  PROVE  /\ Progress(cp[s]) \in Nat /\ Progress(cp[s]) <= Chunks
         /\ cp[s].status = "complete" <=> Progress(cp[s]) = Chunks
         /\ cp[s].status # "complete" => Progress(cp[s]) = cp[s].chunk
BY Bounds DEF TypeOK, Progress, Checkpoints, ChunkIds

\* What a consumer's own step leaves it with.
LEMMA OwnExact ==
  ASSUME TypeOK, NoneAhead, NEW c \in Consumers, Exact(c),
         \/ \E m \in Messages : Deliver(c, m)
         \/ Process(c) \/ HandlerFails(c) \/ GiveUp(c) \/ DeliverAgain(c)
  PROVE  Exact(c)'
<1>0. /\ work \in [Consumers -> WorkRecord] /\ work[c] \in WorkRecord
      /\ cp \in [Shards -> Checkpoints] /\ Shard(c) \in Shards
      /\ Chunk(c) \in ChunkIds /\ Chunk(c) \in Nat
      /\ index \in [Shards -> SUBSET ChunkIds]
  BY RecordsAre DEF TypeOK, WorkRecord, ChunkIds
<1>p. Progress(cp[Shard(c)]) \in Nat /\ Progress(cp[Shard(c)]) <= Chunks
  BY <1>0, ProgressIs
<1> DEFINE Relevant == {"running", "clear", "insert", "continue", "save", "sending",
                        "publish", "resend", "remark"}
           Same == Shard(c)' = Shard(c) /\ Chunk(c)' = Chunk(c)
<1>a. work'[c].pc = "idle" => Exact(c)'
  BY DEF Exact
<1>aa. ASSUME work'[c].pc \notin Relevant, Same, cp' = cp, work[c].pc # "idle"
       PROVE  Exact(c)'
  BY <1>aa DEF Exact
<1> HIDE DEF Relevant
<1>b. Ack(c) => work'[c].pc = "idle"
  BY <1>0 DEF Ack, IdleWork
<1>c. \A pc \in WorkSteps : Step(c, pc) =>
        work'[c].pc = pc /\ Same /\ work'[c].seen = work[c].seen
  BY <1>0 DEF Step, WorkRecord, Shard, Chunk
<1>1. ASSUME NEW m \in Messages, Deliver(c, m) PROVE Exact(c)'
  <2>1. work' = [work EXCEPT ![c] = [IdleWork EXCEPT !.m = m, !.row = job,
          !.pc = IF job.state = "cancel_requested" THEN "canceling" ELSE "reading"]]
    BY <1>1, Zenon DEF Deliver
  <2>2. work'[c].pc \notin Relevant /\ Shard(c)' = m.shard /\ Chunk(c)' = m.chunk
    BY <2>1, <1>0, IdleRecords DEF WorkRecord, Relevant, Shard, Chunk
  <2>3. queue[m] > 0 /\ cp' = cp
    BY <1>1, Zenon DEF Deliver
  <2>4. m.chunk <= Progress(cp[m.shard])
    BY <2>3 DEF NoneAhead
  <2> QED BY <2>2, <2>3, <2>4 DEF Exact, Relevant
<1>2. CASE ReadCheckpoint(c)
  <2>1. \A pc \in WorkSteps : Sees(c, pc) =>
          work'[c].pc = pc /\ Same /\ work'[c].seen = cp[Shard(c)]
    BY <1>0 DEF Sees, WorkRecord, Shard, Chunk
  <2>2. cp' = cp /\ work[c].pc # "idle" /\ Chunk(c) <= Progress(cp[Shard(c)])
    BY <1>2 DEF ReadCheckpoint, Exact
  <2>3. Current(c) => cp[Shard(c)].chunk = Chunk(c)
    BY <2>2, <1>0 DEF Current, Takes, Progress, ChunkIds
  <2>4. Current(c) /\ Sees(c, "clear") => Exact(c)'
    BY <2>1, <2>2, <2>3 DEF Current, Exact, WorkSteps
  <2>5. Current(c) /\ Sees(c, "running") => Exact(c)'
    BY <2>1, <2>2, <2>3 DEF Current, Exact, WorkSteps
  <2>6. Stale(c) /\ Sees(c, "resend") => Exact(c)'
    BY <2>1, <2>2 DEF Stale, Exact, WorkSteps
  <2>7. Sees(c, "recount") => Exact(c)'
    BY <2>1, <2>2, <1>aa DEF Relevant, WorkSteps
  <2> QED BY <1>2, <1>a, <1>b, <2>4, <2>5, <2>6, <2>7 DEF ReadCheckpoint, Retry
<1>3. CASE Resend(c)
  BY <1>3, <1>c DEF Resend, Exact, WorkSteps
<1>4. CASE StartScanning(c)
  <2>1. work'[c].pc = "clear" /\ Same /\ work'[c].seen = work[c].seen
    BY <1>4, <1>0 DEF StartScanning, WorkRecord, Shard, Chunk
  <2> QED BY <1>4, <2>1 DEF StartScanning, Exact
<1>5. CASE ClearShard(c)
  BY <1>5, <1>c DEF ClearShard, Exact, WorkSteps
<1>6. CASE Insert(c)
  <2>1. Chunk(c) \in index'[Shard(c)] /\ cp' = cp
    BY <1>6, <1>0 DEF Insert
  <2>2. Same /\ work'[c].seen = work[c].seen
    BY <1>6, <1>c DEF Insert, WorkSteps
  <2>3. work'[c].pc = IF Last(c) THEN "save" ELSE "continue"
    BY <1>6, <1>c DEF Insert, WorkSteps
  <2>4. /\ cp[Shard(c)].status = "queued" /\ cp[Shard(c)].chunk = Chunk(c)
        /\ work[c].seen.chunk = Chunk(c) /\ Chunk(c) <= Progress(cp[Shard(c)])
    BY <1>6 DEF Insert, Exact
  <2> QED BY <2>1, <2>2, <2>3, <2>4 DEF Exact, Last
<1>7. CASE Continue(c)
  <2>1. cp'[Shard(c)] = Queued(Chunk(c) + 1, TRUE)
    BY <1>7, <1>0 DEF Continue, SetCheckpoint
  <2>2. work'[c].pc = "sending" /\ Same
    BY <1>7, <1>c DEF Continue, WorkSteps
  <2> QED BY <2>1, <2>2, <1>0 DEF Exact, Progress, Queued
<1>8. CASE SendNext(c)
  BY <1>8, <1>c DEF SendNext, Exact, WorkSteps
<1>9. CASE \/ CancelFromQueue(c) \/ CloseJob(c) \/ Remark(c) \/ Finish(c) \/ FailJob(c)
           \/ HandlerFails(c)
  BY <1>9, <1>a, <1>b DEF CancelFromQueue, CloseJob, Remark, Finish, FailJob, HandlerFails, Retry
<1>10. CASE Recount(c)
  <2>1. Ack(c) \/ Step(c, "closing")
    BY <1>10 DEF Recount
  <2>2. cp' = cp /\ work[c].pc # "idle"
    BY <1>10 DEF Recount
  <2> QED BY <2>1, <2>2, <1>a, <1>aa, <1>b, <1>c DEF WorkSteps, Relevant
<1>11. CASE Publish(c)
  <2>1. cp'[Shard(c)] = Queued(Chunk(c) + 1, FALSE)
    BY <1>11, <1>0 DEF Publish, SetCheckpoint
  <2>2. work'[c].pc = "finish" /\ Same
    BY <1>11, <1>c DEF Publish, WorkSteps
  <2> QED BY <2>1, <2>2, <1>0 DEF Exact, Progress, Queued
<1>12. CASE SaveComplete(c)
  <2>1. cp'[Shard(c)] = Complete(Chunk(c))
    BY <1>12, <1>0 DEF SaveComplete, SetCheckpoint
  <2>2. work'[c].pc = "count" /\ Same
    BY <1>12, <1>c DEF SaveComplete, WorkSteps
  <2> QED BY <2>1, <2>2, <1>0, Bounds DEF Exact, Progress, Complete, ChunkIds
<1>13. CASE Count(c)
  <2>1. work'[c].pc = "finish" /\ Same /\ cp' = cp /\ work[c].pc # "idle"
    BY <1>13, <1>0 DEF Count, WorkRecord, Shard, Chunk
  <2> QED BY <2>1, <1>aa DEF Relevant
<1>14. CASE GiveUp(c)
  <2>1. Ack(c) \/ (work'[c].pc = "failing" /\ Same)
    BY <1>14, <1>0 DEF GiveUp, WorkRecord, Shard, Chunk
  <2>2. cp' = cp /\ work[c].pc # "idle"
    BY <1>14 DEF GiveUp
  <2> QED BY <2>1, <2>2, <1>a, <1>aa, <1>b DEF Relevant
<1>15. CASE DeliverAgain(c)
  <2>1. cp' = cp /\ work' = work /\ index' = index
    BY <1>15 DEF DeliverAgain
  <2> QED BY <2>1 DEF Exact, Shard, Chunk, Last
<1> QED
  BY <1>1, <1>2, <1>3, <1>4, <1>5, <1>6, <1>7, <1>8, <1>9, <1>10, <1>11, <1>12, <1>13,
     <1>14, <1>15 DEF Process

\* A request's step, when the job is started once: nothing was staged, sent or
\* handled when it clears the index or stages.
LEMMA RequestOnce ==
  ASSUME TypeOK, StagedFirst, StagedOnce, StartedOnce, NEW r \in Requests,
         Ask(r) \/ StartStep(r) \/ StartFails(r) \/ RequestLost(r)
  PROVE  /\ work' = work /\ cancel' = cancel
         /\ \/ cp' = cp /\ index' = index
            \/ /\ \A s \in Shards : /\ cp[s].status = "none"
                                    /\ cp'[s].status = "none" \/ cp'[s] = Queued(0, FALSE)
               /\ \A c \in Consumers : work[c].pc = "idle"
               /\ \A m \in Messages : queue[m] = 0 /\ queue' = queue
<1>1. work' = work /\ cancel' = cancel
  BY DEF Ask, StartStep, Reserve, Replay, FinalizeSuccess, ReadForFailure, MarkFailed,
      FinalizeFailure, ReadJob, Reopen, ClearTarget, Stage, SendShard, ReadForMark,
      MarkPublished, StartFails, RequestLost
<1>2. CASE ClearTarget(r) \/ Stage(r)
  <2>0. req[r].pc \in {"clear", "stage"}
    BY <1>2 DEF ClearTarget, Stage
  <2>1. r = First
    BY <2>0 DEF StartedOnce
  <2>2. \A s \in Shards : cp[s].status = "none"
    BY <1>2, <2>1 DEF ClearTarget, Stage, StagedOnce
  <2>3. queue' = queue
    BY <1>2 DEF ClearTarget, Stage
  <2>4. /\ \A c \in Consumers : work[c].pc = "idle"
        /\ \A m \in Messages : queue[m] = 0
    BY <2>2, HasShards DEF StagedFirst
  <2>5. CASE ClearTarget(r)
    <3>1. cp' = cp
      BY <2>5 DEF ClearTarget
    <3> QED BY <1>1, <2>2, <2>3, <2>4, <3>1
  <2>6. CASE Stage(r)
    BY <2>6, <1>1, <2>2, <2>3, <2>4 DEF Stage
  <2> QED BY <1>2, <2>5, <2>6
<1>3. CASE ~(ClearTarget(r) \/ Stage(r))
  BY <1>1, <1>3 DEF Ask, StartStep, Reserve, Replay, FinalizeSuccess, ReadForFailure, MarkFailed,
      FinalizeFailure, ReadJob, Reopen, SendShard, ReadForMark,
      MarkPublished, StartFails, RequestLost
<1> QED BY <1>2, <1>3

LEMMA StagedOnceNext ==
  ASSUME TypeOK, StagedFirst, StagedOnce, StartedOnce, [Next]_vars
  PROVE  StagedOnce'
<1> DEFINE Beginning == {"idle", "start", "reopen", "clear", "stage"}
<1>0. req \in [Requests -> ReqRecord] /\ First \in Requests
  BY HasFirst DEF TypeOK, ReqRecord
<1>1. ASSUME NEW r \in Requests, Ask(r) \/ StartStep(r) \/ StartFails(r) \/ RequestLost(r)
      PROVE  StagedOnce'
  <2>1. CASE r = First
    <3>1. CASE Reserve(r)
      BY <2>1, <3>1, <1>0 DEF Reserve, Goto, StagedOnce, ReqRecord, IdleReq
    <3>2. CASE Replay(r)
      BY <2>1, <3>2 DEF Replay, StagedOnce
    <3>3. CASE ReadJob(r) \/ Reopen(r) \/ ClearTarget(r)
      <4>1. cp' = cp /\ req[r].pc \in Beginning
        BY <3>3 DEF ReadJob, Reopen, ClearTarget
      <4>2. req'[r].pc # "idle"
        <5>1. CASE ReadJob(r)
          BY <5>1, <1>0 DEF ReadJob, ReqRecord
        <5>2. CASE Reopen(r) \/ ClearTarget(r)
          BY <5>2, <1>0 DEF Reopen, ClearTarget, Goto, ReqRecord, IdleReq
        <5> QED BY <3>3, <5>1, <5>2
      <4> QED BY <2>1, <4>1, <4>2 DEF StagedOnce
    <3>4. CASE \/ Stage(r) \/ SendShard(r) \/ ReadForMark(r) \/ MarkPublished(r)
               \/ FinalizeSuccess(r) \/ ReadForFailure(r) \/ MarkFailed(r)
               \/ FinalizeFailure(r) \/ StartFails(r) \/ RequestLost(r)
      <4>1. req'[r].pc \notin Beginning
        <5>1. CASE Stage(r) \/ ReadForMark(r) \/ ReadForFailure(r)
          BY <5>1, <1>0 DEF Stage, ReadForMark, ReadForFailure, ReqRecord
        <5>2. CASE SendShard(r)
          <6>1. PICK s \in req[r].todo :
                  req' = [req EXCEPT ![r].todo = @ \ {s},
                                     ![r].pc = IF req[r].todo = {s} THEN "mark" ELSE "send"]
            BY <5>2 DEF SendShard
          <6> QED BY <6>1, <1>0 DEF ReqRecord
        <5>3. CASE MarkPublished(r) \/ FinalizeSuccess(r) \/ MarkFailed(r) \/ FinalizeFailure(r)
                   \/ StartFails(r) \/ RequestLost(r)
          BY <5>3, <1>0 DEF MarkPublished, FinalizeSuccess, MarkFailed, FinalizeFailure,
            StartFails, RequestLost, Goto, ReqRecord, IdleReq
        <5> QED BY <3>4, <5>1, <5>2, <5>3
      <4> QED BY <2>1, <4>1 DEF StagedOnce
    <3> QED BY <1>1, <3>1, <3>2, <3>3, <3>4 DEF Ask, StartStep
  <2>2. CASE r # First
    <3>1. req[r].pc \in {"idle", "done"}
      BY <2>2 DEF StartedOnce
    <3>2. Replay(r)
      BY <1>1, <2>2, <3>1 DEF Ask, StartStep, Reserve, FinalizeSuccess, ReadForFailure,
        MarkFailed, FinalizeFailure, ReadJob, Reopen, ClearTarget, Stage, SendShard,
        ReadForMark, MarkPublished, StartFails, RequestLost
    <3> QED BY <2>2, <3>2, <1>0 DEF Replay, Goto, StagedOnce
  <2> QED BY <2>1, <2>2
<1>2. ASSUME NEW c \in Consumers,
             \/ \E m \in Messages : Deliver(c, m)
             \/ Process(c) \/ HandlerFails(c) \/ GiveUp(c) \/ DeliverAgain(c)
      PROVE  StagedOnce'
  BY <1>2, ConsumerFrame, ConsumerStaged, HasShards DEF StagedOnce
<1>3. CASE ReadForCancel \/ WriteCancel \/ UNCHANGED vars
  BY <1>3 DEF ReadForCancel, WriteCancel, vars, StagedOnce
<1> QED
  <2>1. CASE Next
    BY <2>1, <1>1, <1>2, <1>3 DEF Next
  <2> QED BY <2>1, <1>3

LEMMA NoneAheadNext ==
  ASSUME TypeOK, TypeOK', HasNextChunk, StagedFirst, StagedOnce, StartedOnce, NoneAhead, AllExact,
         [Next]_vars
  PROVE  NoneAhead'
<1>0. /\ queue \in [Messages -> Nat] /\ cp \in [Shards -> Checkpoints]
      /\ \A m \in Messages : m.shard \in Shards /\ m.chunk \in Nat
      /\ \A s \in Shards : Progress(cp[s]) \in Nat /\ Progress(cp'[s]) \in Nat
  BY Bounds DEF TypeOK, Progress, Checkpoints, ChunkIds, Messages
\* A step that sends at most a message the shard is not behind.
<1>a. ASSUME NEW n \in Messages, n.chunk <= Progress(cp[n.shard]), 
             \A m \in Messages \ {n} : queue'[m] <= queue[m],
             \A s \in Shards : Progress(cp[s]) <= Progress(cp'[s])
      PROVE  NoneAhead'
  <2> SUFFICES ASSUME NEW m \in Messages, queue'[m] > 0
               PROVE  m.chunk <= Progress(cp'[m.shard])
    BY DEF NoneAhead
  <2>1. queue'[m] \in Nat /\ queue[m] \in Nat
    BY DEF TypeOK
  <2>2. m.chunk <= Progress(cp[m.shard])
    <3>1. CASE m = n
      BY <3>1, <1>a
    <3>2. CASE m # n
      <4>1. queue'[m] <= queue[m]
        BY <3>2, <1>a
      <4>2. queue[m] > 0
        BY <2>1, <4>1
      <4> QED BY <4>2 DEF NoneAhead
    <3> QED BY <3>1, <3>2
  <2>3. Progress(cp[m.shard]) <= Progress(cp'[m.shard])
    BY <1>a, <1>0
  <2> QED BY <2>2, <2>3, <1>0
<1>b. Staging \/ \A s \in Shards : Progress(cp[s]) <= Progress(cp'[s])
  BY ProgressStep, ExactIsInStep
<1>1. CASE Staging
  <2>1. PICK r \in Requests : req[r].pc = "stage" /\ req'[r].pc = "send"
    BY <1>1 DEF Staging
  <2>2. r = First
    BY <2>1 DEF StartedOnce
  <2>3. \A s \in Shards : cp[s].status = "none"
    BY <2>1, <2>2 DEF StagedOnce
  <2>4. \A m \in Messages : queue[m] = 0
    BY <2>3, HasShards DEF StagedFirst
  <2>5. queue' = queue
    <3>1. Next /\ req' # req
      BY <2>1 DEF vars
    <3>2. \E q \in Requests : Ask(q) \/ StartStep(q) \/ StartFails(q) \/ RequestLost(q)
      BY <3>1, ConsumerFrame DEF Next, ReadForCancel, WriteCancel
    <3>3. PICK q \in Requests : Ask(q) \/ StartStep(q) \/ StartFails(q) \/ RequestLost(q)
      BY <3>2
    <3>4. CASE SendShard(q)
      <4>1. req[q].pc = "send" /\ \A p \in Requests \ {q} : req'[p] = req[p]
        BY <3>4 DEF SendShard, TypeOK
      <4>2. r # q /\ req'[r] # req[r]
        BY <2>1, <4>1
      <4> QED BY <4>1, <4>2
    <3>5. CASE ~SendShard(q)
      BY <3>3, <3>5 DEF Ask, StartStep, Reserve, Replay, FinalizeSuccess, ReadForFailure,
        MarkFailed, FinalizeFailure, ReadJob, Reopen, ClearTarget, Stage, ReadForMark,
        MarkPublished, StartFails, RequestLost
    <3> QED BY <3>4, <3>5
  <2> QED BY <2>4, <2>5 DEF NoneAhead
<1>2. CASE ~Staging /\ \E n \in Messages :
             n.chunk <= Progress(cp[n.shard]) /\ \A m \in Messages \ {n} : queue'[m] <= queue[m]
  BY <1>2, <1>a, <1>b
<1>3. \E n \in Messages :
        n.chunk <= Progress(cp[n.shard]) /\ \A m \in Messages \ {n} : queue'[m] <= queue[m]
  <2>0. \A s \in Shards : [shard |-> s, chunk |-> 0] \in Messages
    BY MessagesAre
  <2>a. ASSUME NEW n \in Messages, n.chunk <= Progress(cp[n.shard]), Send(n) \/ queue' = queue
        PROVE  \E k \in Messages :
          k.chunk <= Progress(cp[k.shard]) /\ \A m \in Messages \ {k} : queue'[m] <= queue[m]
    <3>1. \A m \in Messages \ {n} : queue'[m] = queue[m] /\ queue[m] \in Nat
      BY <2>a, <1>0 DEF Send
    <3>2. \A m \in Messages \ {n} : queue'[m] <= queue[m]
      BY <3>1
    <3> QED BY <2>a, <3>2
  <2>1. CASE queue' = queue
    <3>1. PICK s \in Shards : TRUE
      BY HasShards
    <3>2. [shard |-> s, chunk |-> 0].chunk <= Progress(cp[s])
      BY <1>0
    <3> QED BY <2>a, <2>0, <2>1, <3>2
  <2>2. ASSUME NEW r \in Requests, SendShard(r)
        PROVE  \E k \in Messages :
          k.chunk <= Progress(cp[k.shard]) /\ \A m \in Messages \ {k} : queue'[m] <= queue[m]
    <3>1. PICK s \in req[r].todo : Send([shard |-> s, chunk |-> 0])
      BY <2>2 DEF SendShard
    <3>2. s \in Shards
      BY RecordsAre DEF ReqRecord
    <3>3. [shard |-> s, chunk |-> 0].chunk <= Progress(cp[s])
      BY <1>0, <3>2
    <3> QED BY <3>1, <3>2, <3>3, <2>0, <2>a
  <2>3. ASSUME NEW c \in Consumers, NEW m \in Messages, Deliver(c, m)
        PROVE  \E k \in Messages :
          k.chunk <= Progress(cp[k.shard]) /\ \A p \in Messages \ {k} : queue'[p] <= queue[p]
    <3>1. queue' = [queue EXCEPT ![m] = @ - 1] /\ queue[m] > 0
      BY <2>3, Zenon DEF Deliver
    <3>2. \A p \in Messages \ {m} : queue'[p] = queue[p] /\ queue[p] \in Nat
      BY <3>1, <1>0
    <3>3. \A p \in Messages \ {m} : queue'[p] <= queue[p]
      BY <3>2
    <3> QED BY <3>1, <3>3 DEF NoneAhead
  <2>4. ASSUME NEW c \in Consumers, Process(c) \/ HandlerFails(c) \/ DeliverAgain(c)
        PROVE  \E k \in Messages :
          k.chunk <= Progress(cp[k.shard]) /\ \A m \in Messages \ {k} : queue'[m] <= queue[m]
    <3>0. /\ work[c].m \in Messages /\ work[c].seen.chunk \in ChunkIds
          /\ Shard(c) \in Shards /\ Chunk(c) \in Nat
      BY RecordsAre DEF WorkRecord, Checkpoints, ChunkIds
    <3>1. CASE (Retry(c) /\ work[c].pc # "idle") \/ DeliverAgain(c)
      <4>1. Send(work[c].m) /\ work[c].pc # "idle"
        BY <3>1 DEF Retry, DeliverAgain
      <4>2. work[c].m.chunk <= Progress(cp[work[c].m.shard])
        BY <4>1 DEF AllExact, Exact, Chunk, Shard
      <4> QED BY <4>1, <4>2, <3>0, <2>a
    <3>2. CASE Resend(c)
      <4> DEFINE n == [shard |-> Shard(c), chunk |-> work[c].seen.chunk]
      <4>1. n \in Messages
        BY <3>0, MessagesAre
      <4>2. Send(n) /\ cp[Shard(c)].status = "queued" /\ cp[Shard(c)].chunk = work[c].seen.chunk
        BY <3>2 DEF Resend, AllExact, Exact
      <4>3. n.chunk <= Progress(cp[n.shard])
        BY <4>2, <3>0 DEF Progress, ChunkIds
      <4> HIDE DEF n
      <4> QED BY <4>1, <4>2, <4>3, <2>a
    <3>3. CASE SendNext(c)
      <4> DEFINE n == [shard |-> Shard(c), chunk |-> Chunk(c) + 1]
      <4>1. n \in Messages
        BY <3>0, <3>3, MessagesAre DEF SendNext, HasNextChunk
      <4>2. Send(n) /\ cp[Shard(c)].status = "queued" /\ cp[Shard(c)].chunk = Chunk(c) + 1
        BY <3>3 DEF SendNext, AllExact, Exact
      <4>3. n.chunk <= Progress(cp[n.shard])
        BY <4>2, <3>0 DEF Progress
      <4> HIDE DEF n
      <4> QED BY <4>1, <4>2, <4>3, <2>a
    <3>4. queue' = queue \/ (Retry(c) /\ work[c].pc # "idle") \/ DeliverAgain(c) \/ Resend(c)
            \/ SendNext(c)
      BY <2>4 DEF Process, CancelFromQueue, ReadCheckpoint, Recount, CloseJob, Remark,
        StartScanning, ClearShard, Insert, Continue, Publish, SaveComplete, Count, Finish,
        FailJob, HandlerFails
    <3> QED BY <3>1, <3>2, <3>3, <3>4, <2>1
  <2>5. \/ queue' = queue \/ \E r \in Requests : SendShard(r)
        \/ \E c \in Consumers, m \in Messages : Deliver(c, m)
        \/ \E c \in Consumers : Process(c) \/ HandlerFails(c) \/ DeliverAgain(c)
    BY DEF Next, vars, Ask, StartStep, Reserve, Replay, FinalizeSuccess, ReadForFailure,
      MarkFailed, FinalizeFailure, ReadJob, Reopen, ClearTarget, Stage, ReadForMark,
      MarkPublished, StartFails, RequestLost, GiveUp, ReadForCancel, WriteCancel
  <2> QED BY <2>1, <2>2, <2>3, <2>4, <2>5
<1> QED BY <1>1, <1>2, <1>3

LEMMA AllExactNext ==
  ASSUME TypeOK, StagedFirst, OnePerShard, StagedOnce, StartedOnce, NoneAhead, AllExact,
         [Next]_vars
  PROVE  AllExact'
<1>1. ASSUME NEW r \in Requests, Ask(r) \/ StartStep(r) \/ StartFails(r) \/ RequestLost(r)
      PROVE  AllExact'
  <2>1. /\ work' = work
        /\ \/ cp' = cp /\ index' = index
           \/ \A c \in Consumers : work[c].pc = "idle"
    BY <1>1, RequestOnce
  <2> QED BY <2>1 DEF AllExact, Exact, Shard, Chunk, Last
<1>2. ASSUME NEW c \in Consumers,
             \/ \E m \in Messages : Deliver(c, m)
             \/ Process(c) \/ HandlerFails(c) \/ GiveUp(c) \/ DeliverAgain(c)
      PROVE  AllExact'
  <2>1. Exact(c)'
    BY <1>2, OwnExact DEF AllExact
  <2>2. ASSUME NEW d \in Consumers \ {c} PROVE Exact(d)'
    <3>1. work'[d] = work[d]
      BY <1>2, ConsumerFrame
    <3>2. Shard(d) \in Shards
      BY RecordsAre
    <3>3. work[d].pc # "idle" => cp'[Shard(d)] = cp[Shard(d)] /\ index'[Shard(d)] = index[Shard(d)]
      <4>1. CASE work[c].pc = "idle"
        BY <4>1, <1>2, ConsumerFrame
      <4>2. CASE work[c].pc # "idle" /\ work[d].pc # "idle"
        BY <4>2, <3>2, <1>2, ConsumerFrame DEF OnePerShard
      <4> QED BY <4>1, <4>2
    <3>4. Exact(d)
      BY DEF AllExact
    <3> QED BY <3>1, <3>3, <3>4 DEF Exact, Shard, Chunk, Last
  <2> QED BY <2>1, <2>2 DEF AllExact
<1>3. CASE ReadForCancel \/ WriteCancel \/ UNCHANGED vars
  BY <1>3 DEF ReadForCancel, WriteCancel, vars, AllExact, Exact, Shard, Chunk, Last
<1> QED
  <2>1. CASE Next
    BY <2>1, <1>1, <1>2, <1>3 DEF Next
  <2> QED BY <2>1, <1>3

LEMMA IndexedNext ==
  ASSUME TypeOK, StagedFirst, StagedOnce, StartedOnce, AllExact, Indexed, [Next]_vars
  PROVE  Indexed'
<1>0. /\ cp \in [Shards -> Checkpoints] /\ index \in [Shards -> SUBSET ChunkIds]
      /\ ChunkIds \subseteq Nat
  BY DEF TypeOK, ChunkIds
<1>1. ASSUME NEW r \in Requests, Ask(r) \/ StartStep(r) \/ StartFails(r) \/ RequestLost(r)
      PROVE  Indexed'
  <2>1. \/ cp' = cp /\ index' = index
        \/ \A s \in Shards : cp'[s].status = "none" \/ cp'[s] = Queued(0, FALSE)
    BY <1>1, RequestOnce
  <2> QED BY <2>1, <1>0 DEF Indexed, Progress, Queued
<1>2. ASSUME NEW c \in Consumers,
             \/ \E m \in Messages : Deliver(c, m)
             \/ Process(c) \/ HandlerFails(c) \/ GiveUp(c) \/ DeliverAgain(c)
      PROVE  Indexed'
  <2>0. /\ Shard(c) \in Shards /\ Chunk(c) \in ChunkIds /\ Chunk(c) \in Nat
        /\ work[c].seen.chunk \in ChunkIds /\ work[c].seen.chunk \in Nat /\ Exact(c)
        /\ cp[Shard(c)].status # "none"
    BY <1>0, <1>2, RecordsAre, ConsumerStaged DEF WorkRecord, Checkpoints, AllExact
  <2>1. \A s \in Shards \ {Shard(c)} : cp'[s] = cp[s] /\ index'[s] = index[s]
    BY <1>2, ConsumerFrame
  <2> SUFFICES ASSUME NEW n \in ChunkIds, n < Progress(cp'[Shard(c)])
               PROVE  n \in index'[Shard(c)]
    BY <2>1 DEF Indexed
  <2>2. n < Progress(cp[Shard(c)]) => n \in index[Shard(c)]
    BY <2>0 DEF Indexed
  <2>3. n \in Nat
    BY <1>0
  <2>4. CASE Remark(c)
    <3>1. cp'[Shard(c)] = Queued(work[c].seen.chunk, FALSE) /\ index' = index
      BY <2>4, <1>0, <2>0 DEF Remark, SetCheckpoint
    <3>2. cp[Shard(c)].status = "queued" /\ cp[Shard(c)].chunk = work[c].seen.chunk
      BY <2>4, <2>0 DEF Remark, Exact
    <3> QED BY <2>2, <3>1, <3>2 DEF Progress, Queued
  <2>5. CASE Continue(c)
    <3>1. cp'[Shard(c)] = Queued(Chunk(c) + 1, TRUE) /\ index' = index
      BY <2>5, <1>0, <2>0 DEF Continue, SetCheckpoint
    <3>2. /\ cp[Shard(c)].status = "queued" /\ cp[Shard(c)].chunk = Chunk(c)
          /\ Chunk(c) \in index[Shard(c)]
      BY <2>5, <2>0 DEF Continue, Exact
    <3> QED BY <2>0, <2>2, <2>3, <3>1, <3>2 DEF Progress, Queued
  <2>6. CASE Publish(c)
    <3>1. cp'[Shard(c)] = Queued(Chunk(c) + 1, FALSE) /\ index' = index
      BY <2>6, <1>0, <2>0 DEF Publish, SetCheckpoint
    <3>2. cp[Shard(c)].status = "queued" /\ cp[Shard(c)].chunk = Chunk(c) + 1
      BY <2>6, <2>0 DEF Publish, Exact
    <3> QED BY <2>2, <3>1, <3>2 DEF Progress, Queued
  <2>7. CASE SaveComplete(c)
    <3>1. index' = index
      BY <2>7 DEF SaveComplete
    <3>2. /\ cp[Shard(c)].status = "queued" /\ cp[Shard(c)].chunk = Chunk(c)
          /\ Chunk(c) \in index[Shard(c)] /\ Chunk(c) + 1 = Chunks
      BY <2>7, <2>0 DEF SaveComplete, Exact, Last
    <3>3. n <= Chunk(c)
      BY <3>2, <2>0, Bounds DEF ChunkIds
    <3> QED BY <2>0, <2>2, <2>3, <3>1, <3>2, <3>3 DEF Progress
  <2>8. CASE ClearShard(c)
    <3>1. /\ cp[Shard(c)].status = "queued" /\ cp[Shard(c)].chunk = work[c].seen.chunk
          /\ cp' = cp
      BY <2>8, <2>0 DEF ClearShard, Exact
    <3>2. work[c].seen.chunk # 0
      BY <3>1, <2>3 DEF Progress
    <3>3. index' = index
      BY <2>8, <3>2 DEF ClearShard
    <3> QED BY <2>2, <3>1, <3>3
  <2>9. CASE Insert(c)
    <3>1. cp' = cp /\ index'[Shard(c)] = index[Shard(c)] \cup {Chunk(c)}
      BY <2>9, <1>0, <2>0 DEF Insert
    <3> QED BY <2>2, <3>1
  <2>10. CASE ~(\/ Remark(c) \/ Continue(c) \/ Publish(c) \/ SaveComplete(c) \/ ClearShard(c)
                \/ Insert(c))
    <3>1. cp' = cp /\ index' = index
      BY <1>2, <2>10 DEF Deliver, Process, CancelFromQueue, ReadCheckpoint, Recount, CloseJob,
        Resend, StartScanning, SendNext, Count, Finish, FailJob, HandlerFails, GiveUp,
        DeliverAgain
    <3> QED BY <2>2, <3>1
  <2> QED BY <2>4, <2>5, <2>6, <2>7, <2>8, <2>9, <2>10
<1>3. CASE ReadForCancel \/ WriteCancel \/ UNCHANGED vars
  BY <1>3 DEF ReadForCancel, WriteCancel, vars, Indexed
<1> QED
  <2>1. CASE Next
    BY <2>1, <1>1, <1>2, <1>3 DEF Next
  <2> QED BY <2>1, <1>3

\* No step undoes a complete checkpoint.
LEMMA CompleteStays ==
  ASSUME TypeOK, StagedFirst, StagedOnce, StartedOnce, AllExact, [Next]_vars, AllComplete
  PROVE  AllComplete'
<1>0. cp \in [Shards -> Checkpoints]
  BY DEF TypeOK
<1>1. ASSUME NEW r \in Requests, Ask(r) \/ StartStep(r) \/ StartFails(r) \/ RequestLost(r)
      PROVE  cp' = cp
  BY <1>1, RequestOnce, HasShards DEF AllComplete
<1>2. ASSUME NEW c \in Consumers,
             \/ \E m \in Messages : Deliver(c, m)
             \/ Process(c) \/ HandlerFails(c) \/ GiveUp(c) \/ DeliverAgain(c)
      PROVE  cp' = cp
  <2>1. cp[Shard(c)].status = "complete" /\ Exact(c)
    BY RecordsAre DEF AllComplete, AllExact
  <2>2. ~(Remark(c) \/ Continue(c) \/ Publish(c) \/ SaveComplete(c))
    BY <2>1 DEF Remark, Continue, Publish, SaveComplete, Exact
  <2> QED
    BY <1>2, <2>2 DEF Deliver, Process, CancelFromQueue, ReadCheckpoint, Recount, CloseJob,
      Resend, StartScanning, ClearShard, Insert, SendNext, Count, Finish, FailJob,
      HandlerFails, GiveUp, DeliverAgain
<1>3. CASE ReadForCancel \/ WriteCancel \/ UNCHANGED vars
  BY <1>3 DEF ReadForCancel, WriteCancel, vars, AllComplete
<1> QED
  <2>1. CASE Next
    BY <2>1, <1>1, <1>2, <1>3 DEF Next, AllComplete
  <2> QED BY <2>1, <1>3

\* Whoever comes to take the job for completed has it from a row that says so,
\* or has counted.
LEMMA ClaimedFrom ==
  ASSUME TypeOK, [Next]_vars, Claimed', ~Claimed
  PROVE  AllComplete
<1>0. /\ req \in [Requests -> ReqRecord] /\ work \in [Consumers -> WorkRecord]
      /\ job.state # "completed" /\ cancel.row.state # "completed"
      /\ \A r \in Requests : req[r].row.state # "completed"
      /\ \A c \in Consumers : work[c].row.state # "completed" /\ ~work[c].all /\ work[c].pc # "closing"
      /\ NoRow.state # "completed" /\ IdleReq.row = NoRow /\ IdleWork.row = NoRow
      /\ ~IdleWork.all /\ IdleWork.pc = "idle"
  BY DEF TypeOK, ReqRecord, WorkRecord, Claimed, NoRow, IdleReq, IdleWork
<1>1. ASSUME NEW r \in Requests, Ask(r) \/ StartStep(r) \/ StartFails(r) \/ RequestLost(r)
      PROVE  FALSE
  <2>1. work' = work /\ cancel' = cancel
    BY <1>1 DEF Ask, StartStep, Reserve, Replay, FinalizeSuccess, ReadForFailure, MarkFailed,
      FinalizeFailure, ReadJob, Reopen, ClearTarget, Stage, SendShard, ReadForMark,
      MarkPublished, StartFails, RequestLost
  <2>2. req[r] \in ReqRecord /\ req[r].row \in Rows
    BY <1>0 DEF ReqRecord
  <2>3. job'.state # "completed"
    <3>1. CASE MarkFailed(r)
      BY <3>1, <2>2 DEF MarkFailed, UpdateJob, Rows
    <3>2. CASE Reopen(r)
      BY <3>2, <2>2 DEF Reopen, UpdateJob, Rows
    <3>3. CASE MarkPublished(r)
      BY <3>3, <2>2, <1>0 DEF MarkPublished, Rows
    <3>4. CASE Reserve(r) \/ Stage(r)
      <4>1. \/ job' = [state |-> "pending", delivery |-> "none"]
            \/ job' = [state |-> "checkpointed", delivery |-> "staged"]
        BY <3>4, Zenon DEF Reserve, Stage
      <4> QED BY <4>1
    <3>5. CASE ~(MarkFailed(r) \/ Reopen(r) \/ MarkPublished(r) \/ Reserve(r) \/ Stage(r))
      BY <1>1, <3>5, <1>0 DEF Ask, StartStep, Replay, FinalizeSuccess, ReadForFailure,
        FinalizeFailure, ReadJob, ClearTarget, SendShard, ReadForMark, StartFails, RequestLost
    <3> QED BY <3>1, <3>2, <3>3, <3>4, <3>5
  <2>4. \A q \in Requests : req'[q].row.state # "completed"
    <3>1. \A q \in Requests \ {r} : req'[q] = req[q]
      BY <1>1, <1>0 DEF Ask, StartStep, Reserve, Replay, FinalizeSuccess, ReadForFailure, MarkFailed,
        FinalizeFailure, ReadJob, Reopen, ClearTarget, Stage, SendShard, ReadForMark,
        MarkPublished, StartFails, RequestLost, Goto
    <3>2. \A pc : Goto(r, pc) => req'[r].row = NoRow
      BY <1>0 DEF Goto, IdleReq, ReqRecord
    <3>3. req'[r].row \in {NoRow, job, req[r].row}
      <4>1. CASE ReadForFailure(r)
        BY <4>1, <2>2, <1>0 DEF ReadForFailure, ReqRecord
      <4>2. CASE ReadForMark(r)
        BY <4>2, <2>2, <1>0 DEF ReadForMark, ReqRecord
      <4>3. CASE ReadJob(r)
        BY <4>3, <2>2, <1>0 DEF ReadJob, ReqRecord
      <4>4. CASE Stage(r)
        BY <4>4, <2>2, <1>0 DEF Stage, ReqRecord
      <4>5. CASE SendShard(r)
        <5>1. PICK s \in req[r].todo :
                req' = [req EXCEPT ![r].todo = @ \ {s},
                                   ![r].pc = IF req[r].todo = {s} THEN "mark" ELSE "send"]
          BY <4>5 DEF SendShard
        <5> QED BY <5>1, <2>2, <1>0 DEF ReqRecord
      <4> QED
        BY <1>1, <3>2, <4>1, <4>2, <4>3, <4>4, <4>5 DEF Ask, StartStep, Reserve, Replay,
          FinalizeSuccess, MarkFailed, FinalizeFailure, Reopen, ClearTarget, MarkPublished,
          StartFails, RequestLost
    <3> QED BY <3>1, <3>3, <1>0
  <2> QED BY <2>1, <2>3, <2>4, <1>0 DEF Claimed
<1>2. ASSUME NEW c \in Consumers,
             \/ \E m \in Messages : Deliver(c, m)
             \/ Process(c) \/ HandlerFails(c) \/ GiveUp(c) \/ DeliverAgain(c)
      PROVE  AllComplete
  <2>0. /\ req' = req /\ cancel' = cancel /\ \A d \in Consumers \ {c} : work'[d] = work[d]
        /\ work[c] \in WorkRecord /\ work[c].row \in Rows
    BY <1>2, <1>0, ConsumerFrame DEF WorkRecord
  <2> SUFFICES ASSUME ~AllComplete PROVE FALSE
    OBVIOUS
  <2>1. job'.state # "completed"
    <3>1. CASE CloseJob(c)
      BY <3>1, <1>0 DEF CloseJob
    <3>2. CASE StartScanning(c) \/ Finish(c) \/ FailJob(c)
      BY <3>2, <2>0, <1>0 DEF StartScanning, Finish, FailJob, UpdateJob, Rows
    <3>3. CASE CancelFromQueue(c)
      BY <3>3 DEF CancelFromQueue
    <3>4. CASE ~(CloseJob(c) \/ StartScanning(c) \/ Finish(c) \/ FailJob(c) \/ CancelFromQueue(c))
      BY <1>2, <3>4, <1>0 DEF Deliver, Process, ReadCheckpoint, Recount, Resend, Remark,
        ClearShard, Insert, Continue, SendNext, Publish, SaveComplete, Count, HandlerFails,
        GiveUp, DeliverAgain
    <3> QED BY <3>1, <3>2, <3>3, <3>4
  <2>2. work'[c].row.state # "completed" /\ ~work'[c].all /\ work'[c].pc # "closing"
    <3>1. CASE Ack(c)
      BY <3>1, <1>0 DEF Ack
    <3>2. CASE \E m \in Messages : Deliver(c, m)
      <4>1. PICK m \in Messages : Deliver(c, m)
        BY <3>2
      <4>2. work' = [work EXCEPT ![c] = [IdleWork EXCEPT !.m = m, !.row = job,
              !.pc = IF job.state = "cancel_requested" THEN "canceling" ELSE "reading"]]
        BY <4>1, Zenon DEF Deliver
      <4> QED BY <4>2, <1>0, IdleRecords DEF WorkRecord
    <3>3. CASE \E pc \in WorkSteps \ {"closing"} : Step(c, pc)
      BY <3>3, <1>0, <2>0 DEF Step, WorkRecord
    <3>4. CASE ReadCheckpoint(c)
      BY <3>4, <3>1, <1>0, <2>0 DEF ReadCheckpoint, Sees, Retry, WorkRecord
    <3>5. CASE StartScanning(c)
      BY <3>5, <1>0, <2>0 DEF StartScanning, WorkRecord, Rows
    <3>6. CASE Count(c)
      BY <3>6, <1>0, <2>0 DEF Count, WorkRecord
    <3>7. CASE GiveUp(c)
      BY <3>7, <3>1, <1>0, <2>0 DEF GiveUp, WorkRecord
    <3>8. CASE Recount(c)
      BY <3>8, <3>1 DEF Recount
    <3>9. CASE DeliverAgain(c)
      BY <3>9, <1>0 DEF DeliverAgain
    <3> QED
      BY <1>2, <3>1, <3>2, <3>3, <3>4, <3>5, <3>6, <3>7, <3>8, <3>9 DEF Process, CancelFromQueue,
        CloseJob, Resend, Remark, ClearShard, Insert, Continue, SendNext, Publish, SaveComplete,
        Finish, FailJob, HandlerFails, Retry, WorkSteps
  <2> QED BY <2>0, <2>1, <2>2, <1>0 DEF Claimed
<1>3. CASE ReadForCancel
  BY <1>3, <1>0 DEF ReadForCancel, Claimed
<1>4. CASE WriteCancel
  BY <1>4, <1>0 DEF WriteCancel, UpdateJob, Claimed, TypeOK, Rows
<1>5. CASE UNCHANGED vars
  BY <1>5 DEF vars, Claimed
<1> QED
  <2>1. CASE Next
    BY <2>1, <1>1, <1>2, <1>3, <1>4 DEF Next
  <2> QED BY <2>1, <1>5

\* The step that completes the job leaves the index alone.
LEMMA CompletedStep ==
  ASSUME TypeOK, TypeOK', Indexed, ClaimedIsComplete', Indexed', [Next]_vars,
         job.state # "completed", job'.state = "completed"
  PROVE  \A s \in Shards : index[s] = ChunkIds
<1>1. index' = index
  <2>1. job' # job
    OBVIOUS
  <2> QED
    BY <2>1 DEF Next, vars, Ask, StartStep, Reserve, Replay, FinalizeSuccess, ReadForFailure,
      MarkFailed, FinalizeFailure, ReadJob, Reopen, ClearTarget, Stage, SendShard, ReadForMark,
      MarkPublished, StartFails, RequestLost, Deliver, Process, CancelFromQueue, ReadCheckpoint,
      Recount, CloseJob, Resend, Remark, StartScanning, ClearShard, Insert, Continue, SendNext,
      Publish, SaveComplete, Count, Finish, FailJob, HandlerFails, GiveUp, DeliverAgain,
      ReadForCancel, WriteCancel
<1>2. AllComplete'
  BY DEF ClaimedIsComplete, Claimed
<1>3. \A s \in Shards : Progress(cp'[s]) = Chunks /\ cp'[s].status # "none"
  BY <1>2 DEF AllComplete, Progress
<1>4. \A n \in ChunkIds : n < Chunks
  BY Bounds DEF ChunkIds
<1>5. \A s \in Shards : index[s] \subseteq ChunkIds
  BY DEF TypeOK
<1> QED BY <1>1, <1>3, <1>4, <1>5 DEF Indexed

\* processQueueMessage: a job becomes completed only when every chunk of every
\* shard is in the index, if each shard has one consumer at a time and no replayed
\* request starts the job again.  Consumers of different shards, the cancel and
\* failures interleave freely.  A second start clears the index under messages of
\* the first, and two consumers of a shard empty each other's first chunk.
THEOREM CompletedIsIndexed == Spec /\ []OnePerShard /\ []StartedOnce => IndexComplete
<1>1. Init => OnceInd
  BY OnceInit
<1>2. JobsInd /\ JobsInd' /\ OnePerShard /\ StartedOnce /\ OnceInd /\ [Next]_vars => OnceInd'
  <2> SUFFICES ASSUME JobsInd, JobsInd', OnePerShard, StartedOnce, OnceInd, [Next]_vars
               PROVE  OnceInd'
    OBVIOUS
  <2>1. TypeOK /\ TypeOK' /\ StagedFirst /\ HasNextChunk
    BY DEF JobsInd
  <2>2. StagedOnce /\ NoneAhead /\ AllExact /\ Indexed /\ ClaimedIsComplete
    BY DEF OnceInd
  <2>3. StagedOnce' /\ NoneAhead' /\ AllExact' /\ Indexed'
    BY <2>1, <2>2, StagedOnceNext, NoneAheadNext, AllExactNext, IndexedNext
  <2>4. ClaimedIsComplete'
    BY <2>1, <2>2, ClaimedFrom, CompleteStays DEF ClaimedIsComplete
  <2> QED BY <2>3, <2>4 DEF OnceInd
<1>3. JobsInd /\ JobsInd' /\ OnceInd /\ OnceInd' /\ [Next]_vars =>
        [job.state # "completed" /\ job'.state = "completed"
           => \A s \in Shards : index[s] = ChunkIds]_vars
  BY CompletedStep DEF JobsInd, OnceInd
<1> QED BY <1>1, <1>2, <1>3, JobsAlways, PTL DEF Spec, IndexComplete

-----------------------------------------------------------------------------
(* The views: DerivedViews *)

\* What events, answers and workers are.
EventType == [kind : Kinds, redacts : 0..MaxPos]
Answers == {<<v>> : v \in EntryType \cup [text : BOOLEAN]}
WorkerType == [todo : Seq(Keys), held : Answers \cup {None}, message : EventKeys \cup {None}]

\* The variables are functions of their types, which ViewsTypeOK says of their values.
Functions ==
  /\ events \in [Rooms -> Seq(EventType)]
  /\ workers \in [Workers -> WorkerType]
  /\ DOMAIN rows = Keys

\* What a worker holds is the answer for the key that it is to put next.
HeldIsNext ==
  \A w \in Workers : workers[w].held # None =>
    /\ workers[w].todo # <<>>
    /\ \E v \in RowType(Head(workers[w].todo)) : workers[w].held = <<v>>

\* Before a message comes to its last key the event it is about has its row.
EventFirst ==
  \A w \in Workers : workers[w].message # None =>
    \/ workers[w].todo # <<>> /\ rows[workers[w].message] # None
    \/ Len(workers[w].todo) >= 2 /\ Head(workers[w].todo) = workers[w].message

\* Work is asked for and queued for events there are.
OfEvents == \A k \in requests \cup indexQueue : k[2] \in DOMAIN events[k[1]]

\* The inductive invariant behind DerivedInv.
ViewsInd == DerivedInv /\ Functions /\ HeldIsNext /\ EventFirst /\ OfEvents

LEMMA NumbersAre == MaxPos \in Nat /\ MaxEvents \in Nat /\ MaxFailures \in Nat
BY BoundsAreNat

LEMMA FreeIs == Free \in WorkerType /\ Free.held = None /\ Free.message = None /\ Free.todo = <<>>
<1>1. <<>> \in Seq(Keys)
  OBVIOUS
<1> QED BY <1>1 DEF Free, WorkerType

LEMMA ViewsIndInit == ViewsInit => ViewsInd
<1> SUFFICES ASSUME ViewsInit PROVE ViewsInd
  OBVIOUS
<1> USE DEF ViewsInit
<1>1. ViewsTypeOK
  BY FreeIs, NumbersAre DEF ViewsTypeOK
<1>2. NothingForgotten
  <2>1. \A k \in EventKeys : events[k[1]] = <<>>
    BY DEF EventKeys
  <2> QED BY <2>1 DEF NothingForgotten
<1>3. Functions
  BY FreeIs DEF Functions
<1>4. HeldIsNext /\ EventFirst
  BY FreeIs DEF HeldIsNext, EventFirst
<1>5. OfEvents
  BY DEF OfEvents
<1> QED BY <1>1, <1>2, <1>3, <1>4, <1>5 DEF ViewsInd, DerivedInv

\* What the objects answer is an entry of its kind.
LEMMA TruthTyped ==
  ASSUME ViewsTypeOK, Functions, NEW k \in Keys
  PROVE  Truth(k) \in RowType(k)
<1>1. CASE k \in Rooms
  <2>1. Len(events[k]) \in 0..MaxPos
    BY <1>1, NumbersAre DEF ViewsTypeOK, Functions
  <2>2. HasAlias(k) \in BOOLEAN
    BY DEF HasAlias
  <2> QED BY <1>1, <2>1, <2>2 DEF Truth, RoomEntry, RowType, EntryType
<1>2. CASE k \notin Rooms
  <2>1. Redacted(k[1], k[2]) \in BOOLEAN
    BY DEF Redacted
  <2> QED BY <1>2, <2>1 DEF Truth, Projection, RowType
<1> QED BY <1>1, <1>2

LEMMA RowTypes ==
  ASSUME NEW k
  PROVE  RowType(k) \subseteq EntryType \cup [text : BOOLEAN] /\ None \notin RowType(k)
BY NoneIsNothing DEF RowType

\* The commit of an event.
LEMMA AdmitKeeps ==
  ASSUME ViewsInd, NEW r \in Rooms, NEW kind \in Kinds, NEW t \in 0..MaxPos, Admit(r, kind, t)
  PROVE  ViewsInd'
<1> DEFINE p == Len(events[r]) + 1
           e == [kind |-> kind, redacts |-> t]
<1>0. ViewsTypeOK /\ NothingForgotten /\ Functions /\ HeldIsNext /\ EventFirst /\ OfEvents
  BY DEF ViewsInd, DerivedInv
<1>1. /\ p <= MaxPos /\ events' = [events EXCEPT ![r] = Append(@, e)]
      /\ requests' = requests \cup {<<r, p>>} /\ held' \subseteq held
      /\ UNCHANGED <<indexQueue, workers, rows, lost, failures, query>>
  BY DEF Admit
<1>2. e \in EventType
  BY DEF EventType
<1>3. events[r] \in Seq(EventType) /\ Len(events[r]) \in Nat
  BY <1>0 DEF Functions
<1>4. /\ events' \in [Rooms -> Seq(EventType)]
      /\ \A q \in Rooms \ {r} : events'[q] = events[q]
      /\ events'[r] = Append(events[r], e) /\ Len(events'[r]) = p
      /\ DOMAIN events'[r] = DOMAIN events[r] \cup {p}
  <2>1. Append(events[r], e) \in Seq(EventType)
    BY <1>2, <1>3
  <2>2. events'[r] = Append(events[r], e) /\ \A q \in Rooms \ {r} : events'[q] = events[q]
    BY <1>0, <1>1 DEF Functions
  <2>3. Len(Append(events[r], e)) = p /\ DOMAIN Append(events[r], e) = DOMAIN events[r] \cup {p}
    BY <1>2, <1>3
  <2>4. events' \in [Rooms -> Seq(EventType)]
    BY <2>1, <1>0, <1>1 DEF Functions
  <2> QED BY <2>2, <2>3, <2>4
<1> HIDE DEF p, e
<1>5. <<r, p>> \in EventKeys
  BY <1>1, <1>3, NumbersAre DEF EventKeys, p
<1>6. ViewsTypeOK'
  BY <1>0, <1>1, <1>4, <1>5 DEF ViewsTypeOK, RowType
<1>7. NothingForgotten'
  <2> SUFFICES ASSUME NEW k \in EventKeys, k[2] \in DOMAIN events'[k[1]]
               PROVE  rows'[k] # None \/ k \in (requests \cup indexQueue \cup lost)'
    BY DEF NothingForgotten
  <2>1. k[1] \in Rooms /\ k = <<k[1], k[2]>>
    BY DEF EventKeys
  <2>2. CASE k[1] = r /\ k[2] = p
    BY <2>1, <2>2, <1>1
  <2>3. CASE ~(k[1] = r /\ k[2] = p)
    BY <2>1, <2>3, <1>0, <1>1, <1>4 DEF NothingForgotten
  <2> QED BY <2>2, <2>3
<1>8. Functions' /\ HeldIsNext' /\ EventFirst'
  BY <1>0, <1>1, <1>4 DEF Functions, HeldIsNext, EventFirst, RowType
<1>9. OfEvents'
  <2>1. \A k \in requests \cup indexQueue : k[1] \in Rooms
    BY <1>0 DEF ViewsTypeOK, EventKeys
  <2> QED BY <2>1, <1>0, <1>1, <1>4 DEF OfEvents
<1> QED BY <1>6, <1>7, <1>8, <1>9 DEF ViewsInd, DerivedInv

\* The work a consumer takes up: its first key is the event of the message.
LEMMA TakeKeeps ==
  ASSUME ViewsInd, NEW w \in Workers, NEW k \in indexQueue, Take(w, k)
  PROVE  ViewsInd'
<1> DEFINE target == events[k[1]][k[2]].redacts
           todo == <<k>> \o (IF target = 0 THEN <<>> ELSE <<<<k[1], target>>>>) \o <<k[1]>>
           rec == [todo |-> todo, held |-> None, message |-> k]
<1>0. ViewsTypeOK /\ NothingForgotten /\ Functions /\ HeldIsNext /\ EventFirst /\ OfEvents
  BY DEF ViewsInd, DerivedInv
<1>1. /\ workers' = [workers EXCEPT ![w] = rec]
      /\ UNCHANGED <<requests, indexQueue, rows, lost, failures, events, query, held>>
  BY DEF Take
<1>2. k \in EventKeys /\ k \in Keys /\ k[1] \in Rooms /\ k[1] \in Keys /\ k[2] \in 1..MaxPos
  BY <1>0 DEF ViewsTypeOK, EventKeys, Keys
<1>3. todo \in Seq(Keys) /\ Len(todo) >= 2 /\ Head(todo) = k
  <2> DEFINE mid == IF target = 0 THEN <<>> ELSE <<<<k[1], target>>>>
  <2>1. mid \in Seq(Keys)
    <3>1. CASE target # 0
      <4>1. events[k[1]][k[2]] \in EventType
        BY <1>0, <1>2 DEF Functions, OfEvents
      <4>2. target \in 1..MaxPos
        BY <3>1, <4>1, NumbersAre DEF EventType
      <4>3. <<k[1], target>> \in Keys
        BY <4>2, <1>2 DEF Keys, EventKeys
      <4> HIDE DEF target
      <4> QED BY <3>1, <4>3
    <3> QED BY <3>1
  <2> HIDE DEF mid
  <2>2. <<k>> \in Seq(Keys) /\ <<k[1]>> \in Seq(Keys)
    BY <1>2
  <2>3. /\ <<k>> \o mid \in Seq(Keys) /\ Len(<<k>> \o mid) = 1 + Len(mid)
        /\ (<<k>> \o mid)[1] = k /\ Len(mid) \in Nat
    BY <2>1, <2>2, ConcatProperties
  <2> DEFINE head == <<k>> \o mid
  <2>4. todo = head \o <<k[1]>>
    BY Zenon DEF todo, mid
  <2> HIDE DEF head, todo
  <2>5. head \in Seq(Keys) /\ Len(head) \in Nat \ {0} /\ head[1] = k
    BY <2>3 DEF head
  <2>6. /\ head \o <<k[1]>> \in Seq(Keys) /\ Len(head \o <<k[1]>>) = Len(head) + 1
        /\ (head \o <<k[1]>>)[1] = k
    BY <2>2, <2>5, ConcatProperties
  <2> QED BY <2>4, <2>5, <2>6
<1> HIDE DEF todo
<1>4. rec \in WorkerType
  BY <1>2, <1>3 DEF WorkerType
<1>5. /\ workers' \in [Workers -> WorkerType] /\ workers'[w] = rec
      /\ \A v \in Workers \ {w} : workers'[v] = workers[v]
  BY <1>0, <1>1, <1>4 DEF Functions
<1>6. ViewsTypeOK'
  <2>1. \A i \in DOMAIN todo : todo[i] \in Keys
    BY <1>3
  <2> QED BY <1>0, <1>1, <1>2, <1>5, <2>1 DEF ViewsTypeOK, RowType
<1>7. NothingForgotten' /\ OfEvents' /\ Functions'
  BY <1>0, <1>1, <1>5 DEF NothingForgotten, OfEvents, Functions
<1>8. HeldIsNext' /\ EventFirst'
  BY <1>0, <1>1, <1>3, <1>5 DEF HeldIsNext, EventFirst, RowType
<1> QED BY <1>6, <1>7, <1>8 DEF ViewsInd, DerivedInv

LEMMA ReadKeeps ==
  ASSUME ViewsInd, NEW w \in Workers, Read(w)
  PROVE  ViewsInd'
<1> DEFINE k == Head(workers[w].todo)
<1>0. ViewsTypeOK /\ NothingForgotten /\ Functions /\ HeldIsNext /\ EventFirst /\ OfEvents
  BY DEF ViewsInd, DerivedInv
<1>1. /\ workers' = [workers EXCEPT ![w].held = <<Truth(k)>>]
      /\ workers[w].todo # <<>>
      /\ UNCHANGED <<requests, indexQueue, rows, lost, failures, events, query, held>>
  BY DEF Read
<1>2. workers[w] \in WorkerType /\ workers[w].todo \in Seq(Keys) /\ k \in Keys
  BY <1>0, <1>1 DEF Functions, WorkerType
<1> HIDE DEF k
<1>3. Truth(k) \in RowType(k) /\ <<Truth(k)>> \in Answers
  BY <1>0, <1>2, TruthTyped, RowTypes DEF Answers
<1>4. /\ workers' \in [Workers -> WorkerType]
      /\ workers'[w].todo = workers[w].todo /\ workers'[w].message = workers[w].message
      /\ workers'[w].held = <<Truth(k)>>
      /\ \A v \in Workers \ {w} : workers'[v] = workers[v]
  BY <1>0, <1>1, <1>2, <1>3 DEF Functions, WorkerType
<1>5. ViewsTypeOK'
  BY <1>0, <1>1, <1>4 DEF ViewsTypeOK, RowType
<1>6. NothingForgotten' /\ OfEvents' /\ Functions'
  BY <1>0, <1>1, <1>4 DEF NothingForgotten, OfEvents, Functions
<1>7. HeldIsNext'
  BY <1>0, <1>1, <1>3, <1>4 DEF HeldIsNext, RowType, k
<1>8. EventFirst'
  BY <1>0, <1>1, <1>4 DEF EventFirst
<1> QED BY <1>5, <1>6, <1>7, <1>8 DEF ViewsInd, DerivedInv

LEMMA PutKeeps ==
  ASSUME ViewsInd, NEW w \in Workers, Put(w)
  PROVE  ViewsInd'
<1> DEFINE k == Head(workers[w].todo)
           todo == workers[w].todo
           m == workers[w].message
<1>0. ViewsTypeOK /\ NothingForgotten /\ Functions /\ HeldIsNext /\ EventFirst /\ OfEvents
  BY DEF ViewsInd, DerivedInv
<1>1. /\ workers[w].held # None
      /\ rows' = [rows EXCEPT ![k] = workers[w].held[1]]
      /\ workers' = [workers EXCEPT ![w] =
           IF Len(@.todo) = 1 THEN Free
           ELSE [todo |-> Tail(@.todo), held |-> None, message |-> @.message]]
      /\ indexQueue' = indexQueue \ Acked(w)
      /\ UNCHANGED <<requests, lost, failures, events, query, held>>
  BY DEF Put
<1>2. PICK v \in RowType(k) : workers[w].held = <<v>>
  BY <1>0, <1>1 DEF HeldIsNext
<1>3. /\ workers[w] \in WorkerType /\ todo \in Seq(Keys) /\ todo # <<>> /\ k \in Keys
      /\ Tail(todo) \in Seq(Keys) /\ Len(Tail(todo)) = Len(todo) - 1 /\ Len(todo) \in Nat \ {0}
      /\ m \in EventKeys \cup {None}
  BY <1>0, <1>1 DEF HeldIsNext, Functions, WorkerType
<1>4. /\ rows' = [rows EXCEPT ![k] = v] /\ v # None
  BY <1>1, <1>2, RowTypes
<1>5. DOMAIN rows' = Keys /\ rows'[k] = v /\ \A j \in Keys \ {k} : rows'[j] = rows[j]
  BY <1>0, <1>3, <1>4 DEF Functions
<1>6. \A j \in Keys : rows'[j] \in RowType(j) \cup {None} /\ (rows[j] # None => rows'[j] # None)
  BY <1>0, <1>2, <1>4, <1>5 DEF ViewsTypeOK
<1>7. /\ workers' \in [Workers -> WorkerType]
      /\ \A u \in Workers \ {w} : workers'[u] = workers[u]
      /\ Len(todo) = 1 => workers'[w] = Free
      /\ Len(todo) # 1 => /\ workers'[w].todo = Tail(todo) /\ workers'[w].held = None
                          /\ workers'[w].message = m
  <2> DEFINE rest == [todo |-> Tail(todo), held |-> None, message |-> m]
  <2>1. rest \in WorkerType
    BY <1>3 DEF WorkerType
  <2>2. workers' = [workers EXCEPT ![w] = IF Len(todo) = 1 THEN Free ELSE rest]
    BY <1>1
  <2>3. rest.todo = Tail(todo) /\ rest.held = None /\ rest.message = m
    OBVIOUS
  <2> HIDE DEF rest, todo, m
  <2> QED BY <1>0, <2>1, <2>2, <2>3, FreeIs DEF Functions
\* The event of a message has its row when the message is acknowledged.
<1>8. m # None => rows'[m] # None
  <2>1. CASE m # None /\ rows[m] # None
    BY <1>3, <1>6, <2>1 DEF Keys
  <2>2. CASE m # None /\ rows[m] = None
    <3>1. k = m
      BY <1>0, <2>2 DEF EventFirst
    <3> QED BY <3>1, <1>4, <1>5
  <2> QED BY <2>1, <2>2
<1> HIDE DEF k, todo, m
<1>9. Acked(w) \subseteq {m} \ {None}
  BY DEF Acked, m
<1>10. ViewsTypeOK'
  <2>1. \A u \in Workers : /\ workers'[u].message \in EventKeys \cup {None}
                           /\ workers'[u].todo \in Seq(Keys)
    BY <1>7 DEF WorkerType
  <2>2. \A u \in Workers : \A i \in DOMAIN workers'[u].todo : workers'[u].todo[i] \in Keys
    BY <2>1
  <2> QED BY <1>0, <1>1, <1>6, <2>1, <2>2 DEF ViewsTypeOK, RowType
<1>11. NothingForgotten'
  <2> SUFFICES ASSUME NEW j \in EventKeys, j[2] \in DOMAIN events[j[1]], rows'[j] = None
               PROVE  j \in requests \cup indexQueue' \cup lost
    BY <1>1 DEF NothingForgotten
  <2>1. rows[j] = None
    BY <1>6 DEF Keys
  <2>2. j \in requests \cup indexQueue \cup lost
    BY <2>1, <1>0 DEF NothingForgotten
  <2>3. j \notin Acked(w)
    BY <1>8, <1>9
  <2> QED BY <1>1, <2>2, <2>3
<1>12. Functions' /\ OfEvents'
  BY <1>0, <1>1, <1>5, <1>7 DEF Functions, OfEvents
<1>13. HeldIsNext'
  BY <1>0, <1>1, <1>7, FreeIs DEF HeldIsNext, RowType
<1>14. EventFirst'
  <2> SUFFICES ASSUME NEW u \in Workers, workers'[u].message # None
               PROVE  \/ workers'[u].todo # <<>> /\ rows'[workers'[u].message] # None
                      \/ /\ Len(workers'[u].todo) >= 2
                         /\ Head(workers'[u].todo) = workers'[u].message
    BY DEF EventFirst
  <2>1. CASE u = w
    <3>1. Len(todo) # 1
      BY <2>1, <1>7, FreeIs
    <3>2. workers'[w].todo # <<>>
      BY <3>1, <1>3, <1>7
    <3> QED BY <2>1, <3>1, <3>2, <1>7, <1>8
  <2>2. CASE u # w
    <3>1. workers'[u] = workers[u] /\ workers[u].message \in Keys
      BY <2>2, <1>0, <1>7 DEF Functions, WorkerType, Keys
    <3> QED BY <3>1, <1>0, <1>6 DEF EventFirst
  <2> QED BY <2>1, <2>2
<1> QED BY <1>10, <1>11, <1>12, <1>13, <1>14 DEF ViewsInd, DerivedInv

LEMMA QueueStepKeeps ==
  ASSUME ViewsInd,
         \/ \E w \in Workers, k \in requests : Fetch(w, k)
         \/ \E k \in requests : Forget(k)
         \/ \E w \in Workers, b \in BOOLEAN : Fail(w, b)
  PROVE  ViewsInd'
<1>0. ViewsTypeOK /\ NothingForgotten /\ Functions /\ HeldIsNext /\ EventFirst /\ OfEvents
  BY DEF ViewsInd, DerivedInv
<1>1. ASSUME NEW w \in Workers, NEW k \in requests, Fetch(w, k)
      PROVE  ViewsInd'
  <2> DEFINE rec == [workers[w] EXCEPT !.todo = <<k[1]>>]
  <2>1. /\ requests' = requests \ {k} /\ indexQueue' = indexQueue \cup {k}
        /\ workers' = [workers EXCEPT ![w] = rec] /\ workers[w] = Free
        /\ UNCHANGED <<rows, lost, failures, events, query, held>>
    BY <1>1 DEF Fetch
  <2>2. k \in EventKeys /\ k[1] \in Keys
    BY <1>0 DEF ViewsTypeOK, EventKeys, Keys
  <2>3. <<k[1]>> \in Seq(Keys)
    BY <2>2
  <2>4. rec \in WorkerType /\ rec.todo = <<k[1]>> /\ rec.held = None /\ rec.message = None
    BY <2>1, <2>3, FreeIs DEF WorkerType
  <2> HIDE DEF rec
  <2>5. /\ workers' \in [Workers -> WorkerType] /\ workers'[w] = rec
        /\ \A v \in Workers \ {w} : workers'[v] = workers[v]
    BY <1>0, <2>1, <2>4 DEF Functions
  <2>6. ViewsTypeOK'
    BY <1>0, <2>1, <2>2, <2>4, <2>5 DEF ViewsTypeOK, RowType
  <2>7. NothingForgotten' /\ OfEvents' /\ Functions'
    BY <1>0, <2>1, <2>5 DEF NothingForgotten, OfEvents, Functions
  <2>8. HeldIsNext' /\ EventFirst'
    BY <1>0, <2>1, <2>4, <2>5 DEF HeldIsNext, EventFirst, RowType
  <2> QED BY <2>6, <2>7, <2>8 DEF ViewsInd, DerivedInv
<1>2. ASSUME NEW k \in requests, Forget(k)
      PROVE  ViewsInd'
  <2>1. /\ requests' = requests \ {k} /\ lost' = lost \cup {k}
        /\ failures < MaxFailures /\ failures' = failures + 1
        /\ UNCHANGED <<indexQueue, workers, rows, events, query, held>>
    BY <1>2 DEF Forget
  <2>2. ViewsTypeOK'
    BY <1>0, <2>1, NumbersAre DEF ViewsTypeOK, RowType
  <2>3. NothingForgotten' /\ OfEvents' /\ Functions' /\ HeldIsNext' /\ EventFirst'
    BY <1>0, <2>1 DEF NothingForgotten, OfEvents, Functions, HeldIsNext, EventFirst, RowType
  <2> QED BY <2>2, <2>3 DEF ViewsInd, DerivedInv
<1>3. ASSUME NEW w \in Workers, NEW b \in BOOLEAN, Fail(w, b)
      PROVE  ViewsInd'
  <2>1. /\ workers' = [workers EXCEPT ![w] = Free]
        /\ failures < MaxFailures /\ failures' = failures + 1
        /\ indexQueue' = indexQueue \ Dropped(w, b)
        /\ lost' = IF b THEN lost ELSE lost \cup Dropped(w, b)
        /\ UNCHANGED <<requests, rows, events, query, held>>
    BY <1>3 DEF Fail
  <2>2. /\ Dropped(w, b) \subseteq EventKeys
        /\ b => Dropped(w, b) = {}
    BY <1>0 DEF Dropped, ViewsTypeOK
  <2>3. /\ workers' \in [Workers -> WorkerType] /\ workers'[w] = Free
        /\ \A v \in Workers \ {w} : workers'[v] = workers[v]
    BY <1>0, <2>1, FreeIs DEF Functions
  <2>4. ViewsTypeOK'
    BY <1>0, <2>1, <2>2, <2>3, FreeIs, NumbersAre DEF ViewsTypeOK, RowType
  <2>5. NothingForgotten' /\ OfEvents' /\ Functions'
    BY <1>0, <2>1, <2>2, <2>3 DEF NothingForgotten, OfEvents, Functions
  <2>6. HeldIsNext' /\ EventFirst'
    BY <1>0, <2>1, <2>3, FreeIs DEF HeldIsNext, EventFirst, RowType
  <2> QED BY <2>4, <2>5, <2>6 DEF ViewsInd, DerivedInv
<1> QED BY <1>1, <1>2, <1>3

\* A query changes nothing but itself.
LEMMA QueryStepKeeps ==
  ASSUME ViewsInd, AskRooms \/ AskAlias \/ AskSearch \/ (\E k \in Keys : Visit(k)) \/ Scan \/ End
  PROVE  ViewsInd'
<1>1. UNCHANGED <<events, derived>>
  BY DEF AskRooms, AskAlias, AskSearch, Begin, Visit, Scan, End
<1>2. held' \subseteq Rooms
  BY DEF AskRooms, AskAlias, AskSearch, Begin, Visit, Scan, End, ViewsInd, DerivedInv, ViewsTypeOK
<1> QED
  BY <1>1, <1>2 DEF derived, ViewsInd, DerivedInv, ViewsTypeOK, NothingForgotten, Functions,
    HeldIsNext, EventFirst, OfEvents, RowType

LEMMA ViewsIndNext == ViewsInd /\ [ViewsNext]_viewsVars => ViewsInd'
<1> SUFFICES ASSUME ViewsInd, [ViewsNext]_viewsVars PROVE ViewsInd'
  OBVIOUS
<1>1. ASSUME NEW r \in Rooms, NEW kind \in Kinds, NEW t \in 0..MaxPos, Admit(r, kind, t)
      PROVE  ViewsInd'
  BY <1>1, AdmitKeeps
<1>2. ASSUME NEW w \in Workers, NEW k \in indexQueue, Take(w, k)
      PROVE  ViewsInd'
  BY <1>2, TakeKeeps
<1>3. ASSUME NEW w \in Workers, Read(w) \/ Put(w)
      PROVE  ViewsInd'
  BY <1>3, ReadKeeps, PutKeeps
<1>4. CASE \/ \E w \in Workers, k \in requests : Fetch(w, k)
           \/ \E k \in requests : Forget(k)
           \/ \E w \in Workers, b \in BOOLEAN : Fail(w, b)
  BY <1>4, QueueStepKeeps
<1>5. CASE AskRooms \/ AskAlias \/ AskSearch \/ (\E k \in Keys : Visit(k)) \/ Scan \/ End
  BY <1>5, QueryStepKeeps
<1>6. CASE UNCHANGED viewsVars
  BY <1>6 DEF viewsVars, derived, ViewsInd, DerivedInv, ViewsTypeOK, NothingForgotten, Functions,
    HeldIsNext, EventFirst, OfEvents, RowType
<1> QED
  <2>1. CASE ViewsNext
    BY <2>1, <1>1, <1>2, <1>3, <1>4, <1>5 DEF ViewsNext
  <2> QED BY <2>1, <1>6

\* The jobs worker forgets no event: it has its row in the search index, or is
\* asked for, queued, or given up after the retries, whichever calls fail and
\* whatever the order in which requests and consumers read and put.
THEOREM DerivedInvariant == ViewsSpec => []DerivedInv
<1>1. ViewsInd => DerivedInv
  BY DEF ViewsInd
<1> QED BY <1>1, ViewsIndInit, ViewsIndNext, PTL DEF ViewsSpec

-----------------------------------------------------------------------------
(* Queries *)

QueryType ==
  [kind : {"rooms", "alias", "search"}, scan : BOOLEAN, left : SUBSET Keys, hit : SUBSET Rooms,
   row : [Rooms -> EntryType \cup {None}], answer : SUBSET (Keys \X (EntryType \cup [text : BOOLEAN]))]

\* A query for rooms asks rooms, and compares rows there were.
QueryTyped ==
  query # NoQuery =>
    /\ query \in QueryType
    /\ query.kind # "search" => query.left \subseteq Rooms

\* Every row of a room is an entry or none.
LEMMA RowsOfRooms ==
  ASSUME ViewsInd
  PROVE  /\ NoRows \in [Rooms -> EntryType \cup {None}]
         /\ Directory \in [Rooms -> EntryType \cup {None}]
BY DEF NoRows, Directory, ViewsInd, DerivedInv, ViewsTypeOK, Keys, RowType

\* What a query is given to list for a room is what the RoomDO says.
LEMMA ValidatedIsTrue ==
  ASSUME ViewsInd, QueryTyped, query # NoQuery, NEW r \in Rooms
  PROVE  Validated(r) = RoomEntry(r)
<1>1. CASE query.row[r] # None /\ IsCurrent(query.row[r], RoomEntry(r))
  <2>1. query.row[r] \in EntryType
    BY <1>1 DEF QueryTyped, QueryType
  <2>2. RoomEntry(r) = [serial |-> RoomEntry(r).serial, alias |-> RoomEntry(r).alias]
    BY DEF RoomEntry
  <2>3. query.row[r] = [serial |-> query.row[r].serial, alias |-> query.row[r].alias]
    BY <2>1 DEF EntryType
  <2> QED BY <1>1, <2>2, <2>3 DEF IsCurrent, Validated
<1>2. CASE ~(query.row[r] # None /\ IsCurrent(query.row[r], RoomEntry(r)))
  BY <1>2 DEF Validated
<1> QED BY <1>1, <1>2

LEMMA FoundIsTrue ==
  ASSUME ViewsInd, QueryTyped, query # NoQuery, NEW k \in query.left
  PROVE  Found(k) \subseteq {<<k, Truth(k)>>}
<1>1. CASE query.kind = "search"
  BY <1>1 DEF Found
<1>2. CASE query.kind # "search"
  <2>1. k \in Rooms
    BY <1>2 DEF QueryTyped
  <2>2. Validated(k) = Truth(k)
    BY <2>1, ValidatedIsTrue DEF Truth
  <2> QED BY <1>2, <2>2 DEF Found
<1> QED BY <1>1, <1>2

\* How a query begins.
LEMMA BeginIs ==
  ASSUME ViewsInd, AskRooms \/ AskAlias \/ AskSearch
  PROVE  /\ query = NoQuery /\ query' \in QueryType /\ query' # NoQuery
         /\ query'.kind # "search" => query'.left \subseteq Rooms
         /\ ~query'.scan /\ query'.answer = {}
         /\ query'.kind # "search" => query'.hit \subseteq query'.left
         /\ held' = {r \in Rooms : HasAlias(r)} /\ events' = events
<1>0. /\ Matching \subseteq Rooms /\ Rooms \subseteq Keys /\ EventKeys \subseteq Keys
      /\ NoRows \in [Rooms -> EntryType \cup {None}]
      /\ Directory \in [Rooms -> EntryType \cup {None}]
  BY RowsOfRooms DEF Matching, Keys
<1>a. ASSUME NEW kind \in {"rooms", "alias", "search"}, NEW keys \in SUBSET Keys,
             NEW hit \in SUBSET Rooms, NEW row \in [Rooms -> EntryType \cup {None}],
             kind # "search" => keys \subseteq Rooms /\ hit \subseteq keys,
             Begin(Query(kind, keys, hit, row))
      PROVE  /\ query = NoQuery /\ query' \in QueryType /\ query' # NoQuery
             /\ query'.kind # "search" => query'.left \subseteq Rooms
             /\ ~query'.scan /\ query'.answer = {}
             /\ query'.kind # "search" => query'.hit \subseteq query'.left
             /\ held' = {r \in Rooms : HasAlias(r)} /\ events' = events
  <2> DEFINE q == Query(kind, keys, hit, row)
  <2>1. /\ q \in QueryType /\ q.kind = kind /\ q.left = keys /\ q.hit = hit
        /\ ~q.scan /\ q.answer = {}
    BY DEF Query, QueryType
  <2>2. q # NoQuery
    BY DEF Query, NoQuery
  <2>3. /\ query = NoQuery /\ query' = q /\ events' = events
        /\ held' = {r \in Rooms : HasAlias(r)}
    BY <1>a DEF Begin
  <2> HIDE DEF q
  <2> QED BY <1>a, <2>1, <2>2, <2>3
<1>1. CASE AskRooms
  <2>1. Begin(Query("rooms", Matching, {}, Directory))
    BY <1>1 DEF AskRooms
  <2>2. Matching \in SUBSET Keys /\ {} \in SUBSET Rooms
    BY <1>0
  <2> QED BY <2>1, <2>2, <1>0, <1>a
<1>2. CASE AskAlias
  <2>1. PICK c \in SUBSET Matching : Begin(Query("alias", c, c, NoRows))
    BY <1>2 DEF AskAlias
  <2>2. c \in SUBSET Keys /\ c \in SUBSET Rooms
    BY <1>0
  <2> QED BY <2>1, <2>2, <1>0, <1>a
<1>3. CASE AskSearch
  <2>1. PICK k \in EventKeys : Begin(Query("search", {k}, {}, NoRows))
    BY <1>3 DEF AskSearch
  <2>2. {k} \in SUBSET Keys /\ {} \in SUBSET Rooms
    BY <1>0
  <2> QED BY <2>1, <2>2, <1>0, <1>a
<1> QED BY <1>1, <1>2, <1>3

\* What a visit and a scan do.
LEMMA VisitIs ==
  ASSUME ViewsInd, QueryTyped, NEW k \in Keys, Visit(k)
  PROVE  /\ query # NoQuery /\ k \in query.left /\ events' = events /\ held' = held
         /\ query' \in QueryType
         /\ query'.kind = query.kind /\ query'.scan = query.scan /\ query'.hit = query.hit
         /\ query'.answer = query.answer \cup Found(k)
         /\ query'.left \subseteq query.left
         /\ Found(k) = {} => query'.left = query.left \ {k}
<1>1. query # NoQuery /\ k \in query.left /\ events' = events /\ held' = held
  BY DEF Visit
<1>2. query \in QueryType
  BY <1>1 DEF QueryTyped
<1> DEFINE answer == query.answer \cup Found(k)
           left == IF query.kind = "alias" /\ Found(k) # {} THEN {} ELSE query.left \ {k}
<1>3. query' = [query EXCEPT !.answer = answer, !.left = left]
  BY DEF Visit
<1>4. answer \in SUBSET (Keys \X (EntryType \cup [text : BOOLEAN]))
  <2>1. Truth(k) \in EntryType \cup [text : BOOLEAN]
    BY TruthTyped, RowTypes DEF ViewsInd, DerivedInv
  <2>2. <<k, Truth(k)>> \in Keys \X (EntryType \cup [text : BOOLEAN])
    BY <2>1
  <2>3. Found(k) \subseteq {<<k, Truth(k)>>}
    BY <1>1, FoundIsTrue
  <2>4. query.answer \subseteq Keys \X (EntryType \cup [text : BOOLEAN])
    BY <1>2 DEF QueryType
  <2> QED BY <2>2, <2>3, <2>4
<1>5. left \in SUBSET Keys /\ left \subseteq query.left
  BY <1>2 DEF QueryType
<1>6. Found(k) = {} => left = query.left \ {k}
  OBVIOUS
<1> HIDE DEF answer, left
<1>7. /\ query' \in QueryType
      /\ query'.kind = query.kind /\ query'.scan = query.scan /\ query'.hit = query.hit
      /\ query'.answer = answer /\ query'.left = left
  BY <1>2, <1>3, <1>4, <1>5 DEF QueryType
<1> QED BY <1>1, <1>5, <1>6, <1>7 DEF answer

LEMMA ScanIs ==
  ASSUME ViewsInd, QueryTyped, Scan
  PROVE  /\ query # NoQuery /\ query.left = {} /\ query.answer = {} /\ ~query.scan
         /\ query.kind # "search" /\ events' = events /\ held' = held
         /\ query' \in QueryType /\ query'.kind = query.kind /\ query'.scan
         /\ query'.left = Registered \ query.hit /\ query'.answer = query.answer
<1>1. /\ query # NoQuery /\ query.left = {} /\ query.answer = {} /\ ~query.scan
      /\ query.kind # "search" /\ events' = events /\ held' = held
  BY DEF Scan, NeedsScan
<1> DEFINE row == IF query.kind = "rooms" THEN Directory ELSE NoRows
           left == Registered \ query.hit
<1>2. query' = [query EXCEPT !.scan = TRUE, !.left = left, !.row = row]
  BY DEF Scan
<1>3. row \in [Rooms -> EntryType \cup {None}] /\ left \in SUBSET Keys
  BY RowsOfRooms DEF Registered, Keys
<1>4. query \in QueryType
  BY <1>1 DEF QueryTyped
<1> HIDE DEF row, left
<1>5. /\ query' \in QueryType /\ query'.kind = query.kind /\ query'.scan
      /\ query'.left = left /\ query'.answer = query.answer
  BY <1>2, <1>3, <1>4 DEF QueryType
<1> QED BY <1>1, <1>5 DEF left

LEMMA QueryTypedNext ==
  ASSUME ViewsInd, QueryTyped, [ViewsNext]_viewsVars
  PROVE  QueryTyped'
<1>1. CASE AskRooms \/ AskAlias \/ AskSearch
  BY <1>1, BeginIs DEF QueryTyped
<1>2. CASE \E k \in Keys : Visit(k)
  <2>1. PICK k \in Keys : Visit(k)
    BY <1>2
  <2> QED BY <2>1, VisitIs DEF QueryTyped
<1>3. CASE Scan
  <2>1. query'.left \subseteq Rooms
    BY <1>3, ScanIs DEF Registered
  <2> QED BY <1>3, <2>1, ScanIs DEF QueryTyped
<1>4. CASE End
  BY <1>4 DEF End, QueryTyped
<1>5. CASE query' = query
  BY <1>5 DEF QueryTyped
<1> QED
  <2>1. CASE ViewsNext
    BY <2>1, <1>1, <1>2, <1>3, <1>4, <1>5 DEF ViewsNext, Admit, Fetch, Forget, Take, Read, Put, Fail
  <2> QED BY <2>1, <1>5 DEF viewsVars

LEMMA QueryAlways == ViewsSpec => [](ViewsInd /\ QueryTyped)
<1>1. ViewsInit => QueryTyped
  BY DEF ViewsInit, QueryTyped
<1>2. ViewsInd /\ QueryTyped /\ [ViewsNext]_viewsVars => QueryTyped'
  BY QueryTypedNext
<1> QED BY <1>1, <1>2, ViewsIndInit, ViewsIndNext, PTL DEF ViewsSpec

\* The gateway's search and directory queries: whatever stale row D1 holds, an
\* entry joins an answer only when the RoomDO that owns it says the same at that
\* moment.
THEOREM WhatIsListedIsTrue == ViewsSpec => ListedIsTrue
<1>1. ASSUME ViewsInd, QueryTyped, [ViewsNext]_viewsVars, query # NoQuery, query' # NoQuery,
             NEW x \in query'.answer \ query.answer
      PROVE  x[2] = Truth(x[1])
  <2>1. CASE \E k \in Keys : Visit(k)
    <3>1. PICK k \in Keys : Visit(k)
      BY <2>1
    <3>2. x \in Found(k) /\ k \in query.left
      BY <3>1, <1>1, VisitIs
    <3>3. x = <<k, Truth(k)>>
      BY <3>2, <1>1, FoundIsTrue
    <3> QED BY <3>3
  <2>2. CASE query' = query
    BY <2>2, <1>1
  <2>3. CASE Scan
    BY <2>3, <1>1, ScanIs
  <2>4. CASE AskRooms \/ AskAlias \/ AskSearch \/ End
    BY <2>4, <1>1, BeginIs DEF End
  <2> QED
    <3>1. CASE ViewsNext
      BY <1>1, <3>1, <2>1, <2>2, <2>3, <2>4
        DEF ViewsNext, Admit, Fetch, Forget, Take, Read, Put, Fail
    <3> QED BY <1>1, <3>1, <2>2 DEF viewsVars
<1>2. ViewsInd /\ QueryTyped /\ [ViewsNext]_viewsVars =>
        [query # NoQuery /\ query' # NoQuery =>
           \A x \in query'.answer \ query.answer : x[2] = Truth(x[1])]_viewsVars
  BY <1>1
<1> QED BY <1>2, QueryAlways, PTL DEF ViewsSpec, ListedIsTrue

-----------------------------------------------------------------------------
(* A room that has the alias *)

LEMMA LastIs ==
  ASSUME NEW ps \in SUBSET Nat, NEW p \in ps, \A q \in ps : q <= p
  PROVE  LastOf(ps) = p
<1>1. ps # {}
  OBVIOUS
<1>2. PICK q \in ps : q = LastOf(ps) /\ \A s \in ps : s <= q
  BY <1>1 DEF LastOf
<1>3. p <= q /\ q <= p /\ p \in Nat /\ q \in Nat
  BY <1>2
<1> QED BY <1>2, <1>3

\* A room that has the alias was registered.
LEMMA WithAliasIsRegistered ==
  ASSUME Functions, NEW r \in Rooms, HasAlias(r)
  PROVE  r \in Registered
<1>1. Positions(r, {"alias"}) # {}
  BY DEF HasAlias
<1>2. events[r] # <<>>
  BY <1>1 DEF Positions
<1> QED BY <1>2 DEF Registered

\* Only the event that takes it away takes it away.
LEMMA AdmitKeepsAlias ==
  ASSUME Functions, NEW r \in Rooms, NEW kind \in Kinds, NEW t \in 0..MaxPos, Admit(r, kind, t),
         NEW q \in Rooms, HasAlias(q), q # r \/ kind # "unalias"
  PROVE  HasAlias(q)'
<1> DEFINE p == Len(events[r]) + 1
           e == [kind |-> kind, redacts |-> t]
<1>1. events' = [events EXCEPT ![r] = Append(@, e)]
  BY DEF Admit
<1>2. CASE q # r
  <2>1. events'[q] = events[q]
    BY <1>1, <1>2 DEF Functions
  <2> QED BY <2>1 DEF HasAlias, Positions
<1>3. CASE q = r
  <2>1. events[r] \in Seq(EventType) /\ e \in EventType
    BY DEF Functions, EventType
  <2>2. events'[r] = Append(events[r], e)
    BY <1>1 DEF Functions
  <2>3. /\ DOMAIN events[r] \subseteq Nat /\ \A i \in DOMAIN events[r] : i < p
        /\ DOMAIN events'[r] = DOMAIN events[r] \cup {p} /\ p \in Nat
        /\ \A i \in DOMAIN events[r] : events'[r][i] = events[r][i]
        /\ events'[r][p] = e /\ p \notin DOMAIN events[r]
    BY <2>1, <2>2
  <2> HIDE DEF p
  <2>4. e.kind = kind
    OBVIOUS
  <2> HIDE DEF e
  <2>5. ASSUME kind \notin {"alias", "unalias"}
        PROVE  HasAlias(r)'
    <3>1. /\ Positions(r, {"alias", "unalias"})' = Positions(r, {"alias", "unalias"})
          /\ Positions(r, {"alias"})' = Positions(r, {"alias"})
      BY <2>3, <2>4, <2>5 DEF Positions
    <3> QED BY <1>3, <3>1 DEF HasAlias
  <2>6. ASSUME kind = "alias"
        PROVE  HasAlias(r)'
    <3> DEFINE ps == {i \in DOMAIN events'[r] : events'[r][i].kind \in {"alias", "unalias"}}
    <3>1. ps \in SUBSET Nat /\ p \in ps /\ \A i \in ps : i <= p
      BY <2>3, <2>4, <2>6
    <3>2. LastOf(ps) = p
      BY <3>1, LastIs
    <3>3. p \in {i \in DOMAIN events'[r] : events'[r][i].kind \in {"alias"}}
      BY <2>3, <2>4, <2>6
    <3> QED BY <3>2, <3>3 DEF HasAlias, Positions
  <2> QED BY <1>3, <2>5, <2>6
<1> QED BY <1>2, <1>3

\* The rooms of the history have the alias.
HeldHave == \A r \in held : r \in Rooms /\ HasAlias(r)

\* As long as it has found nothing, the query has not passed them: before the
\* scan it has not passed the one it has a row of, in the scan none.
NotPassed ==
  query # NoQuery /\ query.kind # "search" /\ query.answer = {} =>
    \/ ~query.scan /\ held \cap query.hit \subseteq query.left
    \/ query.scan /\ held \subseteq query.left

FindInd == ViewsInd /\ QueryTyped /\ HeldHave /\ NotPassed

LEMMA VisitNotPassed ==
  ASSUME ViewsInd, QueryTyped, HeldHave, NotPassed, NEW k \in Keys, Visit(k)
  PROVE  NotPassed'
<1> SUFFICES ASSUME query'.kind # "search", query'.answer = {}
             PROVE  \/ ~query'.scan /\ held' \cap query'.hit \subseteq query'.left
                    \/ query'.scan /\ held' \subseteq query'.left
  BY DEF NotPassed
<1>1. /\ query # NoQuery /\ k \in query.left /\ held' = held
      /\ query'.kind = query.kind /\ query'.scan = query.scan /\ query'.hit = query.hit
      /\ query'.answer = query.answer \cup Found(k)
      /\ Found(k) = {} => query'.left = query.left \ {k}
  BY VisitIs
<1>2. Found(k) = {} /\ query.answer = {} /\ query.kind # "search"
  BY <1>1
<1>3. k \notin held
  <2> SUFFICES ASSUME k \in held PROVE FALSE
    OBVIOUS
  <2>1. k \in Rooms /\ HasAlias(k)
    BY DEF HeldHave
  <2>2. Validated(k) = RoomEntry(k)
    BY <2>1, <1>1, ValidatedIsTrue
  <2>3. Validated(k).alias
    BY <2>1, <2>2 DEF RoomEntry
  <2>4. Found(k) # {}
    BY <1>2, <2>3 DEF Found
  <2> QED BY <1>2, <2>4
<1> QED BY <1>1, <1>2, <1>3 DEF NotPassed

LEMMA FindIndNext == FindInd /\ [ViewsNext]_viewsVars => FindInd'
<1> SUFFICES ASSUME FindInd, [ViewsNext]_viewsVars PROVE FindInd'
  OBVIOUS
<1>0. ViewsInd /\ QueryTyped /\ HeldHave /\ NotPassed /\ Functions
  BY DEF FindInd, ViewsInd
<1> SUFFICES HeldHave' /\ NotPassed'
  BY <1>0, ViewsIndNext, QueryTypedNext DEF FindInd
<1>2. ASSUME NEW r \in Rooms, NEW kind \in Kinds, NEW t \in 0..MaxPos, Admit(r, kind, t)
      PROVE  HeldHave' /\ NotPassed'
  <2>1. query' = query /\ held' = {q \in held : q # r \/ kind # "unalias"}
    BY <1>2 DEF Admit
  <2>2. HeldHave'
    BY <2>1, <1>0, <1>2, AdmitKeepsAlias DEF HeldHave
  <2> QED BY <2>1, <2>2, <1>0 DEF NotPassed
<1>a. events' = events => \A r \in Rooms : HasAlias(r)' = HasAlias(r)
  BY DEF HasAlias, Positions
<1>b. events' = events /\ held' \subseteq held => HeldHave'
  BY <1>0, <1>a DEF HeldHave
<1>3. CASE AskRooms \/ AskAlias \/ AskSearch
  <2>1. HeldHave'
    BY <1>3, <1>0, <1>a, BeginIs DEF HeldHave
  <2>2. NotPassed'
    <3>1. query'.kind # "search" => query'.hit \subseteq query'.left /\ ~query'.scan
      BY <1>3, <1>0, BeginIs
    <3> QED BY <3>1 DEF NotPassed
  <2> QED BY <2>1, <2>2
<1>4. CASE \E k \in Keys : Visit(k)
  <2>1. PICK k \in Keys : Visit(k)
    BY <1>4
  <2>2. events' = events /\ held' = held
    BY <2>1 DEF Visit
  <2> QED BY <2>1, <2>2, <1>0, <1>b, VisitNotPassed
<1>5. CASE Scan
  <2>1. held \subseteq Registered
    BY <1>0, WithAliasIsRegistered DEF HeldHave
  <2>2. held \cap query.hit = {}
    BY <1>0, <1>5, ScanIs DEF NotPassed
  <2>3. /\ held' = held /\ events' = events
        /\ query'.scan /\ query'.left = Registered \ query.hit
    BY <1>0, <1>5, ScanIs
  <2>4. NotPassed'
    BY <2>1, <2>2, <2>3 DEF NotPassed
  <2> QED BY <2>3, <2>4, <1>b
<1>6. CASE End
  BY <1>6, <1>b DEF End, NotPassed, derived
<1>7. CASE UNCHANGED <<events, query, held>>
  <2>1. NotPassed'
    BY <1>7, <1>0 DEF NotPassed
  <2> QED BY <1>7, <2>1, <1>b
<1>8. CASE \/ \E w \in Workers, k \in requests : Fetch(w, k)
           \/ \E k \in requests : Forget(k)
           \/ \E w \in Workers, k \in indexQueue : Take(w, k)
           \/ \E w \in Workers : Read(w) \/ Put(w) \/ \E b \in BOOLEAN : Fail(w, b)
  BY <1>7, <1>8 DEF Fetch, Forget, Take, Read, Put, Fail
<1>9. CASE UNCHANGED viewsVars
  BY <1>7, <1>9 DEF viewsVars
<1> QED BY <1>2, <1>3, <1>4, <1>5, <1>6, <1>8, <1>9 DEF ViewsNext

\* The gateway's lookup by alias and its public room list: a registered room that
\* had the alias all the while is found, whatever rows late or lost refreshes left
\* in D1 for it or for another room, and however many workers' reads and puts of
\* one key overlap.
THEOREM WhatIsThereIsFound == ViewsSpec => []FoundWhenThere
<1>1. ViewsInit => FindInd
  <2>1. ViewsInit => QueryTyped /\ HeldHave /\ NotPassed
    BY DEF ViewsInit, QueryTyped, HeldHave, NotPassed
  <2> QED BY <2>1, ViewsIndInit DEF FindInd
<1>2. FindInd => FoundWhenThere
  BY DEF FindInd, FoundWhenThere, Answered, NeedsScan, NotPassed
<1> QED BY <1>1, <1>2, FindIndNext, PTL DEF ViewsSpec
===============================================================================
