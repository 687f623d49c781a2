----------------------------- MODULE ConsoleTap -----------------------------
(***************************************************************************)
(* What one console socket hands to the backlog (console_capture.py,       *)
(* ConsoleTap): bytes are buffered into lines, what is typed at a password *)
(* prompt is masked, frames are numbered, and budgets of bytes and of rows *)
(* end the capture.  A byte is a key or a line break.                      *)
(***************************************************************************)
EXTENDS ConsoleFlush, Naturals, SequencesExt

CONSTANTS
  Inputs,     \* what one frame from the learner can hold
  ChunkBytes, \* MAX_CHUNK_BYTES
  MaxTyped,   \* MAX_CONNECTION_BYTES
  MaxRows,    \* MAX_CONNECTION_ROWS
  MaxPrompts  \* bound: password prompts of the node

ASSUME TapAssumption ==
  /\ Inputs \subseteq Seq({"key", "break"}) /\ <<>> \notin Inputs
  /\ ChunkBytes \in Nat \ {0} /\ MaxTyped \in Nat /\ MaxRows \in Nat /\ MaxPrompts \in Nat

VARIABLES
  buffer,    \* _buffers["in"].data: what was typed, and whether at a prompt
  taken,     \* _bytes
  armed,     \* _password_mode
  seq,       \* _seq
  rowsUsed,  \* _rows
  over,      \* _over_budget
  socket,    \* "open", "closing" or "closed"
  frames,    \* the frames submitted from the learner: their number and payload
  asking,    \* whether the node takes the next line as a password
  lineEmpty, \* whether it has seen a key of that line
  prompts    \* password prompts so far

tapVars == <<buffer, taken, armed, seq, rowsUsed, over, socket, frames, asking, lineEmpty, prompts>>

TapInit ==
  /\ buffer = <<>> /\ taken = 0 /\ armed = FALSE
  /\ seq = 0 /\ rowsUsed = 0 /\ over = FALSE /\ socket = "open"
  /\ frames = <<>>
  /\ asking = FALSE /\ lineEmpty = TRUE /\ prompts = 0

Lesser(m, n) == IF m < n THEN m ELSE n
IsBreak(b) == b.what = "break"
Breaks(s) == {i \in DOMAIN s : IsBreak(s[i])}
-----------------------------------------------------------------------------
(* Masking, byte by byte of a payload *)

\* keys: how many of this line are masked so far.
Scan(p) == [armed |-> p, keys |-> 0, out |-> <<>>]
Masked(st, b) == [st EXCEPT !.keys = @ + 1, !.out = Append(@, [b EXCEPT !.clear = FALSE])]
Kept(st, b) == [st EXCEPT !.out = Append(@, b)]

\* Mutant: any line ends the masking, also an empty one.
AnyLine(st, b) ==
  IF ~st.armed THEN Kept(st, b)
  ELSE IF ~IsBreak(b) THEN Masked(st, b)
  ELSE [Kept(st, b) EXCEPT !.armed = FALSE]

\* _mask_password: up to the end of the first line that is not empty.
MaskByte(st, b) ==
  IF ~st.armed THEN Kept(st, b)
  ELSE IF ~IsBreak(b) THEN Masked(st, b)
  ELSE [Kept(st, b) EXCEPT !.armed = (st.keys = 0)]

Mask(payload) ==
  LET scan[n \in 0 .. Len(payload)] ==
        IF n = 0 THEN Scan(armed) ELSE MaskByte(scan[n - 1], payload[n])
  IN scan[Len(payload)]
-----------------------------------------------------------------------------
(* Frames *)

\* The buffer is cut behind its last line break, or when a chunk is full.
CutAt(data) ==
  LET head == SubSeq(data, 1, Lesser(Len(data), ChunkBytes)) IN
  IF Breaks(head) # {} THEN CHOOSE i \in Breaks(head) : \A j \in Breaks(head) : j <= i
  ELSE IF Len(data) >= ChunkBytes THEN ChunkBytes ELSE 0

\* _emit_buffer: the row budget is asked before the frame is numbered.
Emit(size) ==
  LET masked == Mask(SubSeq(buffer, 1, size)) IN
    /\ buffer' = SubSeq(buffer, size + 1, Len(buffer))
    /\ armed' = masked.armed
    /\ IF rowsUsed >= MaxRows
       THEN over' = TRUE /\ UNCHANGED <<rowsUsed, seq, frames>>
       ELSE /\ rowsUsed' = rowsUsed + 1 /\ seq' = seq + 1 /\ UNCHANGED over
            /\ frames' = Append(frames, [seq |-> seq + 1, payload |-> masked.out])

Cutting == ~over /\ CutAt(buffer) > 0

EmitLine ==
  /\ Cutting
  /\ Emit(CutAt(buffer))
  /\ UNCHANGED <<taken, socket, asking, lineEmpty, prompts>>

\* What the node makes of each byte: the line that answers a prompt is a secret,
\* and an empty one does not answer it.
ReadByte(st, b) ==
  [asking |-> st.asking /\ (b = "break" => st.empty),
   empty |-> (b = "break"),
   read |-> Append(st.read, [what |-> b, secret |-> st.asking, clear |-> TRUE])]
NodeReads(data) ==
  LET node[n \in 0 .. Len(data)] ==
        IF n = 0 THEN [asking |-> asking, empty |-> lineEmpty, read |-> <<>>]
        ELSE ReadByte(node[n - 1], data[n])
  IN node[Len(data)]

\* Over budget nothing is taken any more; the output of the node counts as well, so
\* that the budget of bytes may be used up before all of it is typed.
FromClient(data) ==
  /\ socket = "open" /\ ~Cutting
  /\ LET node == NodeReads(data) IN
       /\ asking' = node.asking /\ lineEmpty' = node.empty
       /\ IF over THEN UNCHANGED <<buffer, taken, over>>
          ELSE /\ taken' = taken + Len(data)
               /\ over' \in {taken' > MaxTyped, TRUE}
               /\ buffer' = IF over' THEN buffer ELSE buffer \o node.read
  /\ UNCHANGED <<armed, seq, rowsUsed, socket, frames, prompts>>

\* A line or a command of the node's output uses a row, and only a line a number; what
\* does not end a line uses neither, and any output may use up a budget.
NodeRow ==
  \/ UNCHANGED <<over, rowsUsed, seq>>
  \/ ~over /\ over' = TRUE /\ UNCHANGED <<rowsUsed, seq>>
  \/ /\ ~over /\ rowsUsed < MaxRows
     /\ rowsUsed' = rowsUsed + 1 /\ seq' \in {seq, seq + 1} /\ UNCHANGED over

\* Output of the node, whose prompts are tracked over budget too.
FromNode(prompt) ==
  /\ socket = "open" /\ ~Cutting
  /\ prompt => prompts < MaxPrompts
  /\ prompts' = IF prompt THEN prompts + 1 ELSE prompts
  /\ armed' = (armed \/ prompt) /\ asking' = (asking \/ prompt)
  /\ NodeRow
  /\ UNCHANGED <<buffer, taken, socket, frames, lineEmpty>>

\* close: the rest of the buffer goes out, in chunks.
CloseTap ==
  /\ socket # "closed" /\ ~Cutting
  /\ IF buffer # <<>> /\ ~over
     THEN Emit(Lesser(Len(buffer), ChunkBytes)) /\ socket' = "closing"
     ELSE socket' = "closed" /\ UNCHANGED <<buffer, armed, seq, rowsUsed, over, frames>>
  /\ UNCHANGED <<taken, asking, lineEmpty, prompts>>

TapNext ==
  \/ EmitLine \/ CloseTap
  \/ \E data \in Inputs : FromClient(data)
  \/ \E prompt \in BOOLEAN : FromNode(prompt)

TapSpec == TapInit /\ [][TapNext]_tapVars
-----------------------------------------------------------------------------
TapTypeOK ==
  /\ buffer \in Seq([what : {"key", "break"}, secret : BOOLEAN, clear : BOOLEAN])
  /\ socket \in {"open", "closing", "closed"}
  /\ rowsUsed \in 0 .. MaxRows /\ seq \in 0 .. rowsUsed

\* What is typed at a password prompt is never recorded in clear, however the
\* line is cut into frames and chunks, pasted with others, preceded by empty
\* lines or broken off by the end of the connection.  Within the budgets every
\* byte is recorded, and the numbers of the frames rise.
SecretsMasked ==
  /\ TapTypeOK
  /\ \A i \in DOMAIN frames : \A j \in DOMAIN frames[i].payload :
       LET b == frames[i].payload[j] IN b.what = "key" /\ b.secret => ~b.clear
  /\ \A i, j \in DOMAIN frames : i < j => frames[i].seq < frames[j].seq
  /\ socket = "closed" /\ ~over => taken = SumOf([n \in DOMAIN frames |-> Len(frames[n].payload)])

\* The console capture of gns3-service loses no record unseen, and stores nothing that
\* was typed at a password prompt (console_capture.py).
CaptureSound == BacklogAccounted /\ SecretsMasked
=============================================================================
