---------------------------- MODULE ControlJobs ----------------------------
(***************************************************************************)
(* One rebuild job of the control plane: the ops-worker's idempotent       *)
(* start, the jobs-worker's fan-out to a queue, the queue's consumers and  *)
(* the operator's cancel.  The job row and the checkpoints are rows of D1. *)
(* No writer holds a lock and no update compares before it sets: a writer  *)
(* reads the row, awaits, and writes the whole row back, so each step      *)
(* below is one database, queue or index call.                             *)
(*                                                                         *)
(* A shard's index is rebuilt in Chunks chunks; repair, restore and export *)
(* jobs are the case of one chunk.                                         *)
(***************************************************************************)
EXTENDS Naturals, FiniteSets

CONSTANTS Requests,    \* start requests with the same Idempotency-Key and body
          First,       \* the one of them that reaches the database first
          Consumers,   \* concurrent runs of the queue handler
          Shards,      \* shards the job fans out to
          Chunks,      \* chunks of a shard's index
          MaxCancels,  \* bound: cancel requests
          MaxCopies,   \* bound: messages the queue delivers once more
          MaxFaults    \* bound: failed or lost calls and repeated messages

ASSUME Bounds == /\ Chunks \in Nat \ {0}
                 /\ MaxCancels \in Nat /\ MaxCopies \in Nat /\ MaxFaults \in Nat
ASSUME HasFirst == First \in Requests
ASSUME HasShards == IsFiniteSet(Shards) /\ Shards # {}

VARIABLES job,      \* the job's row
          dedupe,   \* envelope stored under the Idempotency-Key
          cp,       \* the checkpoint row of each shard
          queue,    \* copies of each message waiting to be delivered
          index,    \* chunks of each shard that are in the derived index
          req,      \* per start request: where its handlers are
          work,     \* per consumer: the message it handles and what it has read
          cancel,   \* the operator's cancel
          copies, faults

vars == <<job, dedupe, cp, queue, index, req, work, cancel, copies, faults>>

ChunkIds == 0 .. (Chunks - 1)
Messages == [shard : Shards, chunk : ChunkIds]
Terminal == {"completed", "failed", "canceled"}
States == {"absent", "pending", "checkpointed", "scanning", "cancel_requested"} \cup Terminal
Rows == [state : States, delivery : {"none", "staged", "published"}]
NoRow == [state |-> "absent", delivery |-> "none"]

Checkpoints == [status : {"none", "queued", "complete"}, chunk : ChunkIds, staged : BOOLEAN]
Queued(n, staged) == [status |-> "queued", chunk |-> n, staged |-> staged]
Complete(n) == [status |-> "complete", chunk |-> n, staged |-> FALSE]

AnyMessage == CHOOSE m \in Messages : TRUE
IdleWork == [pc |-> "idle", m |-> AnyMessage, row |-> NoRow, seen |-> Queued(0, FALSE), all |-> FALSE]
IdleReq == [pc |-> "idle", row |-> NoRow, todo |-> {}]

Init == /\ job = NoRow
        /\ dedupe = "none"
        /\ cp = [s \in Shards |-> [status |-> "none", chunk |-> 0, staged |-> FALSE]]
        /\ queue = [m \in Messages |-> 0]
        /\ index = [s \in Shards |-> {}]
        /\ req = [r \in Requests |-> IdleReq]
        /\ work = [c \in Consumers |-> IdleWork]
        /\ cancel = [pc |-> "idle", row |-> NoRow, asked |-> 0]
        /\ copies = 0
        /\ faults = 0

(* updateJobState and updateJob: the whole row as its writer last read it, *)
(* with the new state.                                                     *)
UpdateJob(row, state) == job' = [row EXCEPT !.state = state]

Send(m) == queue' = [queue EXCEPT ![m] = @ + 1]

----------------------------------------------------------------------------
(* Starting the job: ops-worker. *)

Goto(r, pc) == req' = [req EXCEPT ![r] = [IdleReq EXCEPT !.pc = pc]]

(* reserveIdempotentWrite: the audit event, the dedupe record and the job  *)
(* are inserted in one transaction, which a second request with the key    *)
(* cannot repeat.                                                          *)
Reserve(r) ==
  /\ r = First
  /\ req[r].pc = "idle"
  /\ dedupe = "none"
  /\ dedupe' = "accepted"
  /\ job' = [state |-> "pending", delivery |-> "none"]
  /\ Goto(r, "start")
  /\ UNCHANGED <<cp, queue, index, work, cancel, copies, faults>>

(* A replayed request starts the job again when it never left pending, or  *)
(* when its start failed in a retryable way with its messages staged.      *)
Restarts == \/ dedupe \in {"accepted", "queued"} /\ job.state = "pending"
            \/ dedupe = "retryable" /\ job.delivery = "staged"

Replay(r) ==
  /\ req[r].pc = "idle"
  /\ dedupe # "none"
  /\ Goto(r, IF Restarts THEN "start" ELSE "done")
  /\ UNCHANGED <<job, dedupe, cp, queue, index, work, cancel, copies, faults>>

(* The jobs-worker answered: the request's record becomes the success.     *)
FinalizeSuccess(r) ==
  /\ req[r].pc = "answered"
  /\ dedupe' = "queued"
  /\ Goto(r, "done")
  /\ UNCHANGED <<job, cp, queue, index, work, cancel, copies, faults>>

(* The start failed: the request that created the job reads the row, marks *)
(* it failed and stores the error; a replay only reports the error.        *)
ReadForFailure(r) ==
  /\ req[r].pc = "failed"
  /\ req' = [req EXCEPT ![r].pc = "failing", ![r].row = job]
  /\ UNCHANGED <<job, dedupe, cp, queue, index, work, cancel, copies, faults>>

MarkFailed(r) ==
  /\ req[r].pc = "failing"
  /\ UpdateJob(req[r].row, "failed")
  /\ Goto(r, "refusing")
  /\ UNCHANGED <<dedupe, cp, queue, index, work, cancel, copies, faults>>

FinalizeFailure(r) ==
  /\ req[r].pc = "refusing"
  /\ dedupe' = "retryable"
  /\ Goto(r, "done")
  /\ UNCHANGED <<job, cp, queue, index, work, cancel, copies, faults>>

----------------------------------------------------------------------------
(* Starting the job: the jobs-worker's start handler, which the request    *)
(* waits for.                                                              *)

ReadJob(r) ==
  /\ req[r].pc = "start"
  /\ req' = [req EXCEPT ![r].row = job,
       ![r].pc = IF job.state = "failed" /\ job.delivery = "staged" THEN "reopen"
                 ELSE IF job.state = "pending" THEN "clear" ELSE "answered"]
  /\ UNCHANGED <<job, dedupe, cp, queue, index, work, cancel, copies, faults>>

Reopen(r) ==
  /\ req[r].pc = "reopen"
  /\ UpdateJob(req[r].row, "pending")
  /\ Goto(r, "clear")
  /\ UNCHANGED <<dedupe, cp, queue, index, work, cancel, copies, faults>>

(* A global rebuild empties the derived table before it stages its shards. *)
ClearTarget(r) ==
  /\ req[r].pc = "clear"
  /\ index' = [s \in Shards |-> {}]
  /\ Goto(r, "stage")
  /\ UNCHANGED <<job, dedupe, cp, queue, work, cancel, copies, faults>>

(* Mutant: only the job's row is staged, not the checkpoints. *)
StageJobOnly(r) ==
  /\ req[r].pc = "stage"
  /\ job' = [state |-> "checkpointed", delivery |-> "staged"]
  /\ req' = [req EXCEPT ![r].pc = "send", ![r].todo = Shards]
  /\ UNCHANGED <<dedupe, cp, queue, index, work, cancel, copies, faults>>

(* stageQueuedPayloads: one transaction. *)
Stage(r) ==
  /\ req[r].pc = "stage"
  /\ cp' = [s \in Shards |-> Queued(0, FALSE)]
  /\ job' = [state |-> "checkpointed", delivery |-> "staged"]
  /\ req' = [req EXCEPT ![r].pc = "send", ![r].todo = Shards]
  /\ UNCHANGED <<dedupe, queue, index, work, cancel, copies, faults>>

SendShard(r) ==
  /\ req[r].pc = "send"
  /\ \E s \in req[r].todo :
       /\ Send([shard |-> s, chunk |-> 0])
       /\ req' = [req EXCEPT ![r].todo = @ \ {s},
                             ![r].pc = IF req[r].todo = {s} THEN "mark" ELSE "send"]
  /\ UNCHANGED <<job, dedupe, cp, index, work, cancel, copies, faults>>

(* markQueuedPayloadsPublished: a read, then a write of the row read.      *)
ReadForMark(r) ==
  /\ req[r].pc = "mark"
  /\ req' = [req EXCEPT ![r].pc = "marking", ![r].row = job]
  /\ UNCHANGED <<job, dedupe, cp, queue, index, work, cancel, copies, faults>>

MarkPublished(r) ==
  /\ req[r].pc = "marking"
  /\ job' = [req[r].row EXCEPT !.delivery = "published"]
  /\ Goto(r, "answered")
  /\ UNCHANGED <<dedupe, cp, queue, index, work, cancel, copies, faults>>

(* A call of the start handler fails or its worker goes away: the request  *)
(* sees a retryable error.                                                 *)
StartFails(r) ==
  /\ req[r].pc \in {"start", "reopen", "clear", "stage", "send", "mark", "marking"}
  /\ faults < MaxFaults
  /\ faults' = faults + 1
  /\ Goto(r, IF r = First THEN "failed" ELSE "done")
  /\ UNCHANGED <<job, dedupe, cp, queue, index, work, cancel, copies>>

(* The ops-worker itself goes away. *)
RequestLost(r) ==
  /\ req[r].pc \notin {"idle", "done"}
  /\ faults < MaxFaults
  /\ faults' = faults + 1
  /\ Goto(r, "done")
  /\ UNCHANGED <<job, dedupe, cp, queue, index, work, cancel, copies>>

----------------------------------------------------------------------------
(* Queue consumers: processQueueMessage and the handler that calls it. *)

Shard(c) == work[c].m.shard
Chunk(c) == work[c].m.chunk
Step(c, pc) == work' = [work EXCEPT ![c].pc = pc]
Ack(c) == work' = [work EXCEPT ![c] = IdleWork]
Retry(c) == Send(work[c].m) /\ Ack(c)
SetCheckpoint(s, checkpoint) == cp' = [cp EXCEPT ![s] = checkpoint]
AllComplete == \A s \in Shards : cp[s].status = "complete"

(* A message is delivered and the job's row is read. *)
Deliver(c, m) ==
  /\ work[c].pc = "idle"
  /\ queue[m] > 0
  /\ queue' = [queue EXCEPT ![m] = @ - 1]
  /\ work' = [work EXCEPT ![c] = [IdleWork EXCEPT !.m = m, !.row = job,
       !.pc = IF job.state = "cancel_requested" THEN "canceling" ELSE "reading"]]
  /\ UNCHANGED <<job, dedupe, cp, index, req, cancel, copies, faults>>

CancelFromQueue(c) ==
  /\ work[c].pc = "canceling"
  /\ job' = [state |-> "canceled", delivery |-> "none"]
  /\ Ack(c)
  /\ UNCHANGED <<dedupe, cp, queue, index, req, cancel, copies, faults>>

(* The checkpoint's row is read: what the message still has to do.  A row  *)
(* that was never staged throws, which makes the queue deliver again.  A   *)
(* checkpoint that has not advanced yet has no cursor of its own and takes *)
(* whatever chunk a message brings.                                        *)
Unstaged(c) == cp[Shard(c)].status = "none"
Takes(checkpoint, n) == checkpoint.chunk \in {0, n}
Stale(c) == cp[Shard(c)].status = "queued" /\ ~Takes(cp[Shard(c)], Chunk(c))
Current(c) == cp[Shard(c)].status = "queued" /\ Takes(cp[Shard(c)], Chunk(c))

Sees(c, pc) == work' = [work EXCEPT ![c].pc = pc, ![c].seen = cp[Shard(c)]]

(* Mutant: a message whose chunk the shard has passed runs again. *)
ReadCheckpointUnordered(c) ==
  /\ work[c].pc = "reading"
  /\ \/ cp[Shard(c)].status = "complete" /\ Sees(c, "recount") /\ UNCHANGED queue
     \/ (Stale(c) \/ Current(c)) /\ work[c].row.state \in Terminal /\ Ack(c) /\ UNCHANGED queue
     \/ (Stale(c) \/ Current(c)) /\ work[c].row.state \in {"scanning", "checkpointed"}
        /\ Sees(c, "clear") /\ UNCHANGED queue
     \/ (Unstaged(c) \/ work[c].row.state = "pending") /\ Retry(c)
  /\ UNCHANGED <<job, dedupe, cp, index, req, cancel, copies, faults>>

ReadCheckpoint(c) ==
  /\ work[c].pc = "reading"
  /\ \/ cp[Shard(c)].status = "complete" /\ Sees(c, "recount") /\ UNCHANGED queue
     \/ Stale(c) /\ cp[Shard(c)].staged /\ Sees(c, "resend") /\ UNCHANGED queue
     \/ Stale(c) /\ ~cp[Shard(c)].staged /\ Ack(c) /\ UNCHANGED queue
     \/ Current(c) /\ work[c].row.state \in Terminal /\ Ack(c) /\ UNCHANGED queue
     \/ Current(c) /\ work[c].row.state = "scanning" /\ Sees(c, "clear") /\ UNCHANGED queue
     \/ Current(c) /\ work[c].row.state = "checkpointed" /\ Sees(c, "running") /\ UNCHANGED queue
     \/ (Unstaged(c) \/ (Current(c) /\ work[c].row.state = "pending")) /\ Retry(c)
  /\ UNCHANGED <<job, dedupe, cp, index, req, cancel, copies, faults>>

(* A complete checkpoint: the message only finishes the job if it is due.  *)
Recount(c) ==
  /\ work[c].pc = "recount"
  /\ IF AllComplete /\ work[c].row.state \notin Terminal THEN Step(c, "closing") ELSE Ack(c)
  /\ UNCHANGED <<job, dedupe, cp, queue, index, req, cancel, copies, faults>>

CloseJob(c) ==
  /\ work[c].pc = "closing"
  /\ job' = [state |-> "completed", delivery |-> "none"]
  /\ Ack(c)
  /\ UNCHANGED <<dedupe, cp, queue, index, req, cancel, copies, faults>>

(* The shard has moved on but the message of its next chunk may not have   *)
(* been sent: it is sent again and the checkpoint marked as published.     *)
Resend(c) ==
  /\ work[c].pc = "resend"
  /\ Send([shard |-> Shard(c), chunk |-> work[c].seen.chunk])
  /\ Step(c, "remark")
  /\ UNCHANGED <<job, dedupe, cp, index, req, cancel, copies, faults>>

Remark(c) ==
  /\ work[c].pc = "remark"
  /\ SetCheckpoint(Shard(c), Queued(work[c].seen.chunk, FALSE))
  /\ Ack(c)
  /\ UNCHANGED <<job, dedupe, queue, index, req, cancel, copies, faults>>

StartScanning(c) ==
  /\ work[c].pc = "running"
  /\ UpdateJob(work[c].row, "scanning")
  /\ work' = [work EXCEPT ![c].pc = "clear", ![c].row.state = "scanning"]
  /\ UNCHANGED <<dedupe, cp, queue, index, req, cancel, copies, faults>>

(* executeRebuildAction: the first chunk empties the shard's part of the   *)
(* index, which the checkpoint remembers; then the chunk is inserted.      *)
ClearShard(c) ==
  /\ work[c].pc = "clear"
  /\ index' = IF work[c].seen.chunk = 0 THEN [index EXCEPT ![Shard(c)] = {}] ELSE index
  /\ Step(c, "insert")
  /\ UNCHANGED <<job, dedupe, cp, queue, req, cancel, copies, faults>>

Last(c) == Chunk(c) + 1 = Chunks

Insert(c) ==
  /\ work[c].pc = "insert"
  /\ index' = [index EXCEPT ![Shard(c)] = @ \cup {Chunk(c)}]
  /\ Step(c, IF Last(c) THEN "save" ELSE "continue")
  /\ UNCHANGED <<job, dedupe, cp, queue, req, cancel, copies, faults>>

(* Mutant: the checkpoint counts as published before the message is sent. *)
ContinuePublished(c) ==
  /\ work[c].pc = "continue"
  /\ SetCheckpoint(Shard(c), Queued(Chunk(c) + 1, FALSE))
  /\ Step(c, "sending")
  /\ UNCHANGED <<job, dedupe, queue, index, req, cancel, copies, faults>>

(* More chunks: the checkpoint moves on, then the next message is sent,    *)
(* then the checkpoint is marked as published, then the row is written.    *)
Continue(c) ==
  /\ work[c].pc = "continue"
  /\ SetCheckpoint(Shard(c), Queued(Chunk(c) + 1, TRUE))
  /\ Step(c, "sending")
  /\ UNCHANGED <<job, dedupe, queue, index, req, cancel, copies, faults>>

SendNext(c) ==
  /\ work[c].pc = "sending"
  /\ Send([shard |-> Shard(c), chunk |-> Chunk(c) + 1])
  /\ Step(c, "publish")
  /\ UNCHANGED <<job, dedupe, cp, index, req, cancel, copies, faults>>

Publish(c) ==
  /\ work[c].pc = "publish"
  /\ SetCheckpoint(Shard(c), Queued(Chunk(c) + 1, FALSE))
  /\ Step(c, "finish")
  /\ UNCHANGED <<job, dedupe, queue, index, req, cancel, copies, faults>>

(* The last chunk: the checkpoint is complete, then the complete ones are  *)
(* counted, then the row is written.                                       *)
SaveComplete(c) ==
  /\ work[c].pc = "save"
  /\ SetCheckpoint(Shard(c), Complete(Chunk(c)))
  /\ Step(c, "count")
  /\ UNCHANGED <<job, dedupe, queue, index, req, cancel, copies, faults>>

(* Mutant: the last message of a job to be delivered closes it. *)
CountSome(c) ==
  /\ work[c].pc = "count"
  /\ work' = [work EXCEPT ![c].pc = "finish", ![c].all = \A m \in Messages : queue[m] = 0]
  /\ UNCHANGED <<job, dedupe, cp, queue, index, req, cancel, copies, faults>>

Count(c) ==
  /\ work[c].pc = "count"
  /\ work' = [work EXCEPT ![c].pc = "finish", ![c].all = AllComplete]
  /\ UNCHANGED <<job, dedupe, cp, queue, index, req, cancel, copies, faults>>

Finish(c) ==
  /\ work[c].pc = "finish"
  /\ UpdateJob(work[c].row, IF work[c].all THEN "completed" ELSE "checkpointed")
  /\ Ack(c)
  /\ UNCHANGED <<dedupe, cp, queue, index, req, cancel, copies, faults>>

(* A call fails, or the consumer goes away: the message is delivered again. *)
HandlerFails(c) ==
  /\ work[c].pc # "idle"
  /\ faults < MaxFaults
  /\ faults' = faults + 1
  /\ Retry(c)
  /\ UNCHANGED <<job, dedupe, cp, index, req, cancel, copies>>

(* An error that no retry can cure fails the job, whose row is read again. *)
GiveUp(c) ==
  /\ work[c].pc \in {"clear", "insert"}
  /\ faults < MaxFaults
  /\ faults' = faults + 1
  /\ IF job.state \in Terminal
     THEN Ack(c)
     ELSE work' = [work EXCEPT ![c].pc = "failing", ![c].row = job]
  /\ UNCHANGED <<job, dedupe, cp, queue, index, req, cancel, copies>>

FailJob(c) ==
  /\ work[c].pc = "failing"
  /\ UpdateJob(work[c].row, "failed")
  /\ Ack(c)
  /\ UNCHANGED <<dedupe, cp, queue, index, req, cancel, copies, faults>>

(* The queue delivers at least once. *)
DeliverAgain(c) ==
  /\ work[c].pc = "reading"
  /\ copies < MaxCopies
  /\ copies' = copies + 1
  /\ faults < MaxFaults
  /\ faults' = faults + 1
  /\ Send(work[c].m)
  /\ UNCHANGED <<job, dedupe, cp, index, req, work, cancel>>

----------------------------------------------------------------------------
(* POST /jobs/{jobId}/cancel, with no if_in_states: any state is accepted. *)

ReadForCancel ==
  /\ cancel.pc = "idle"
  /\ job # NoRow
  /\ cancel.asked < MaxCancels
  /\ cancel' = [pc |-> "writing", row |-> job, asked |-> cancel.asked + 1]
  /\ UNCHANGED <<job, dedupe, cp, queue, index, req, work, copies, faults>>

WriteCancel ==
  /\ cancel.pc = "writing"
  /\ UpdateJob(cancel.row, IF cancel.row.state \in {"pending", "checkpointed"}
                           THEN "canceled" ELSE "cancel_requested")
  /\ cancel' = [cancel EXCEPT !.pc = "idle", !.row = NoRow]
  /\ UNCHANGED <<dedupe, cp, queue, index, req, work, copies, faults>>

----------------------------------------------------------------------------
Ask(r) == Reserve(r) \/ Replay(r)

StartStep(r) ==
  \/ ReadJob(r) \/ Reopen(r) \/ ClearTarget(r) \/ Stage(r)
  \/ SendShard(r) \/ ReadForMark(r) \/ MarkPublished(r) \/ FinalizeSuccess(r)
  \/ ReadForFailure(r) \/ MarkFailed(r) \/ FinalizeFailure(r)

Process(c) ==
  \/ CancelFromQueue(c) \/ ReadCheckpoint(c) \/ Recount(c) \/ CloseJob(c)
  \/ Resend(c) \/ Remark(c) \/ StartScanning(c) \/ ClearShard(c) \/ Insert(c)
  \/ Continue(c) \/ SendNext(c) \/ Publish(c) \/ SaveComplete(c) \/ Count(c)
  \/ Finish(c) \/ FailJob(c)

Next == \/ \E r \in Requests : Ask(r) \/ StartStep(r) \/ StartFails(r) \/ RequestLost(r)
        \/ \E c \in Consumers, m \in Messages : Deliver(c, m)
        \/ \E c \in Consumers : Process(c) \/ HandlerFails(c) \/ GiveUp(c) \/ DeliverAgain(c)
        \/ ReadForCancel \/ WriteCancel

Spec == Init /\ [][Next]_vars

(* The runtime finishes the handlers it started, and the queue delivers    *)
(* every message it holds.                                                 *)
FairSpec == /\ Spec
            /\ \A r \in Requests : WF_vars(StartStep(r))
            /\ \A c \in Consumers : WF_vars(Process(c))
            /\ \A m \in Messages : SF_vars(\E c \in Consumers : Deliver(c, m))
            /\ WF_vars(WriteCancel)

----------------------------------------------------------------------------
WorkSteps == {"idle", "canceling", "reading", "recount", "closing", "resend", "remark",
  "running", "clear", "insert", "continue", "sending", "publish", "save", "count",
  "finish", "failing"}
ReqSteps == {"idle", "start", "reopen", "clear", "stage", "send", "mark", "marking",
  "answered", "failed", "failing", "refusing", "done"}

TypeOK ==
  /\ job \in Rows
  /\ dedupe \in {"none", "accepted", "queued", "retryable"}
  /\ cp \in [Shards -> Checkpoints]
  /\ queue \in [Messages -> Nat]
  /\ index \in [Shards -> SUBSET ChunkIds]
  /\ req \in [Requests -> [pc : ReqSteps, row : Rows, todo : SUBSET Shards]]
  /\ work \in [Consumers -> [pc : WorkSteps, m : Messages, row : Rows,
                             seen : Checkpoints, all : BOOLEAN]]
  /\ cancel \in [pc : {"idle", "writing"}, row : Rows, asked : 0 .. MaxCancels]
  /\ copies \in 0 .. MaxCopies
  /\ faults \in 0 .. MaxFaults

(* No message is handled before its checkpoint was staged: the throw of    *)
(* processQueueMessage for that case is never taken, whatever start is     *)
(* retried or lost.                                                        *)
NeverUnstaged == \A c \in Consumers : work[c].pc = "reading" => ~Unstaged(c)

JobsInv == TypeOK /\ NeverUnstaged

(* Messages may be repeated, late or delivered after a failed attempt, and *)
(* the start may be retried: a shard's checkpoint moves forward only,      *)
(* unless a start stages the job again (processQueueMessage's comparison   *)
(* of chunk cursors).                                                      *)
Progress(checkpoint) == IF checkpoint.status = "complete" THEN Chunks ELSE checkpoint.chunk
Staging == \E r \in Requests : req[r].pc = "stage" /\ req'[r].pc = "send"
ProgressKept == [][Staging \/ \A s \in Shards : Progress(cp[s]) <= Progress(cp'[s])]_vars

(* A shard whose next message is in the queue gets all its chunks handled, *)
(* unless the job ends otherwise, is staged once more or waits for that:   *)
(* no failure between the writes of a chunk loses the message of the next. *)
HasMessage(s) ==
  \E n \in ChunkIds : /\ queue[[shard |-> s, chunk |-> n]] > 0
                      /\ Takes(cp[s], n) \/ (n < cp[s].chunk /\ cp[s].staged)
ShardsGetDone ==
  \A s \in Shards :
    (cp[s].status = "queued" /\ HasMessage(s))
      ~> \/ cp[s].status = "complete"
         \/ job.state \in Terminal \cup {"pending"}
         \/ \E r \in Requests : req[r].pc = "stage"

(* When the job becomes completed, every chunk of every shard is in the    *)
(* index: consumers run concurrently, each counts checkpoints that others  *)
(* write, and a shard's first chunk empties its index.                     *)
IndexComplete ==
  [][job.state # "completed" /\ job'.state = "completed"
       => \A s \in Shards : index[s] = ChunkIds]_vars

(* A cancel takes effect at one point of the job's history: a job that is  *)
(* canceled stays canceled.                                                *)
CanceledIsFinal == [][job.state = "canceled" => job'.state = "canceled"]_vars
=============================================================================
