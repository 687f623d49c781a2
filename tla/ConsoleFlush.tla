---------------------------- MODULE ConsoleFlush ----------------------------
(***************************************************************************)
(* The backlog of captured console traffic in gns3-service                 *)
(* (console_capture.py, ConsoleCapture): sockets submit frames and         *)
(* commands without waiting, a background task writes them in batches,     *)
(* frames and commands in transactions of their own, and a stop cancels    *)
(* the task wherever it waits and writes what is left.                     *)
(***************************************************************************)
EXTENDS Naturals, SequencesExt

CONSTANTS
  Frames,       \* raw frames
  Commands,     \* reconstructed commands
  Size,         \* per item: its bytes
  QueueSize,    \* queue_size
  MaxBytes,     \* max_queue_bytes
  BatchSize,    \* batch_size
  MaxHalts      \* bound: stops and crashes

Items == Frames \cup Commands

ASSUME FlushAssumption ==
  /\ Frames \cap Commands = {}
  /\ Size \in [Items -> Nat]
  /\ QueueSize \in Nat /\ MaxBytes \in Nat /\ BatchSize \in Nat \ {0} /\ MaxHalts \in Nat

VARIABLES
  queue,      \* _queue
  bytes,      \* _queued_bytes
  inFlight,   \* _in_flight
  writer,     \* where _drain_once is, its batch, and whether stop has called it
  kept,     \* per item, how many rows of it are committed
  submitted,  \* the items of the sockets
  dropped,    \* those the backlog had no room for
  failed,     \* those in a transaction that failed
  doubtful,   \* those in a transaction that was cancelled
  stops       \* stops and crashes so far

flushVars == <<queue, bytes, inFlight, writer, kept, submitted, dropped, failed, doubtful, stops>>

Halted == [pc |-> "off", batch |-> <<>>, by |-> "loop"]

FlushInit ==
  /\ queue = <<>> /\ bytes = 0 /\ inFlight = <<>>
  /\ writer = Halted
  /\ kept = [i \in Items |-> 0]
  /\ submitted = {} /\ dropped = {} /\ failed = {} /\ doubtful = {} /\ stops = 0

\* The sum of a sequence of numbers, and the members of one that are of a kind, in order.
SumOf(q) ==
  LET sum[n \in 0 .. Len(q)] == IF n = 0 THEN 0 ELSE sum[n - 1] + q[n] IN sum[Len(q)]
Of(kind, s) ==
  LET those[n \in 0 .. Len(s)] ==
        IF n = 0 THEN <<>>
        ELSE IF s[n] \in kind THEN Append(those[n - 1], s[n]) ELSE those[n - 1]
  IN those[Len(s)]

TotalSize(s) == SumOf([n \in DOMAIN s |-> Size[s[n]]])
WriterAt(pc) == writer.pc = pc
WriterTo(pc) == writer' = [writer EXCEPT !.pc = pc]

\* submit: the newest is dropped when the backlog is full in items or in bytes.
Submit(i) ==
  /\ i \notin submitted
  /\ submitted' = submitted \cup {i}
  /\ IF bytes + Size[i] > MaxBytes \/ Len(queue) = QueueSize
     THEN dropped' = dropped \cup {i} /\ UNCHANGED <<queue, bytes>>
     ELSE queue' = Append(queue, i) /\ bytes' = bytes + Size[i] /\ UNCHANGED dropped
  /\ UNCHANGED <<inFlight, writer, kept, failed, doubtful, stops>>

StartFlusher ==
  /\ WriterAt("off") /\ writer' = [Halted EXCEPT !.pc = "sleep"]
  /\ UNCHANGED <<queue, bytes, inFlight, kept, submitted, dropped, failed, doubtful, stops>>

Wake ==
  /\ WriterAt("sleep") /\ WriterTo("collect")
  /\ UNCHANGED <<queue, bytes, inFlight, kept, submitted, dropped, failed, doubtful, stops>>

\* The batch a cancellation has interrupted comes first, filled from the queue.
Least(m, n) == IF m < n THEN m ELSE n
Room == BatchSize - Least(BatchSize, Len(inFlight))
Fetched == SubSeq(queue, 1, Least(Room, Len(queue)))

Collect ==
  /\ WriterAt("collect")
  /\ LET batch == inFlight \o Fetched IN
       /\ queue' = SubSeq(queue, Len(Fetched) + 1, Len(queue))
       /\ bytes' = bytes - TotalSize(Fetched)
       /\ inFlight' = batch
       /\ writer' = IF batch # <<>> THEN [writer EXCEPT !.pc = "frames", !.batch = batch]
                    ELSE [writer EXCEPT !.pc = IF writer.by = "stop" THEN "off" ELSE "sleep", !.batch = <<>>]
  /\ UNCHANGED <<kept, submitted, dropped, failed, doubtful, stops>>

Committed(kind) ==
  [i \in Items |-> IF i \in kind \cap ToSet(writer.batch) THEN kept[i] + 1 ELSE kept[i]]

\* After the frames only the commands are in flight.
Remaining == Of(Commands, writer.batch)

\* A transaction that fails is logged, and the other one goes on.
WriteFrames ==
  /\ WriterAt("frames")
  /\ \/ Of(Frames, writer.batch) = <<>> /\ UNCHANGED <<kept, inFlight, failed>>
     \/ /\ Of(Frames, writer.batch) # <<>>
        /\ kept' = Committed(Frames) /\ inFlight' = Remaining /\ UNCHANGED failed
     \/ /\ Of(Frames, writer.batch) # <<>>
        /\ failed' = failed \cup (Frames \cap ToSet(writer.batch)) /\ UNCHANGED <<kept, inFlight>>
  /\ WriterTo("commands")
  /\ UNCHANGED <<queue, bytes, submitted, dropped, doubtful, stops>>

WriteCommands ==
  /\ WriterAt("commands")
  /\ \/ Of(Commands, writer.batch) = <<>> /\ UNCHANGED <<kept, failed>>
     \/ Of(Commands, writer.batch) # <<>> /\ kept' = Committed(Commands) /\ UNCHANGED failed
     \/ /\ Of(Commands, writer.batch) # <<>>
        /\ failed' = failed \cup (Commands \cap ToSet(writer.batch)) /\ UNCHANGED kept
  /\ inFlight' = <<>>
  /\ writer' = [writer EXCEPT !.pc = "collect", !.batch = <<>>]
  /\ UNCHANGED <<queue, bytes, submitted, dropped, doubtful, stops>>

\* The transaction it waits for is committed, or not.
CutOff(kind) ==
  /\ kept' \in {kept, Committed(kind)}
  /\ doubtful' = doubtful \cup (kind \cap ToSet(writer.batch))

StopFlusher ==
  /\ ~WriterAt("off") /\ writer.by = "loop" /\ stops < MaxHalts
  /\ stops' = stops + 1
  /\ \/ WriterAt("frames") /\ CutOff(Frames)
     \/ WriterAt("commands") /\ CutOff(Commands)
     \/ writer.pc \in {"sleep", "collect"} /\ UNCHANGED <<kept, doubtful>>
  /\ writer' = [pc |-> "collect", batch |-> <<>>, by |-> "stop"]
  /\ UNCHANGED <<queue, bytes, inFlight, submitted, dropped, failed>>

FlushNext ==
  \/ \E i \in Items : Submit(i)
  \/ StartFlusher \/ Wake \/ Collect \/ WriteFrames \/ WriteCommands \/ StopFlusher

FlushSpec == FlushInit /\ [][FlushNext]_flushVars
-----------------------------------------------------------------------------
FlushTypeOK ==
  /\ queue \in Seq(Items) /\ inFlight \in Seq(Items) /\ writer.batch \in Seq(Items)
  /\ writer.pc \in {"off", "sleep", "collect", "frames", "commands"} /\ writer.by \in {"loop", "stop"}
  /\ kept \in [Items -> Nat]

\* Nothing a socket has submitted disappears without a trace, and nothing is
\* recorded twice: an item is kept, queued, in flight, or was dropped or in a
\* transaction that failed, and two rows of it there are only if a stop has cut
\* off its commit.  The backlog stays within its bounds and its byte count is
\* what it holds; after a stop nothing is left in flight.
BacklogAccounted ==
  /\ FlushTypeOK
  /\ \A i \in submitted :
       \/ kept[i] > 0 \/ i \in ToSet(queue) \cup ToSet(inFlight) \cup dropped \cup failed
  /\ \A i \in Items :
       /\ kept[i] > 0 => i \in submitted \ dropped /\ i \notin ToSet(queue)
       /\ kept[i] > 1 => i \in doubtful
  /\ bytes = TotalSize(queue) /\ bytes <= MaxBytes /\ Len(queue) <= QueueSize
  /\ Len(inFlight) <= BatchSize
  /\ WriterAt("off") => inFlight = <<>>
=============================================================================
