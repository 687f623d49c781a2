---------------------------- MODULE ConsoleRelay ----------------------------
(***************************************************************************)
(* One console socket of a learner (gns3-service, routers/console_ws.py):  *)
(* what the node answers is relayed in frames of any length and read back  *)
(* as commands and their responses by an incremental parser                *)
(* (console_reconstruct.py), which must not depend on how the output is    *)
(* cut into frames.  A token of the output is a prompt, a word that no     *)
(* prompt can begin with, a backspace over one, or half a line break.      *)
(***************************************************************************)
EXTENDS Naturals, FiniteSetsExt, SequencesExt

CONSTANT Outputs     \* what nodes may print

Tokens == {"prompt", "word", "erase", "cr", "lf"}

VARIABLES
  output,     \* what this node prints while the socket is open
  said,       \* how much of it has been sent to the learner
  unheard,    \* how much of that the tap was not handed
  console,    \* the socket: "lookup", "open" or "closed"
  recorded,   \* whether the socket has a tap
  tail,       \* _buf: the line that has not ended, the backspaces applied
  parser      \* the open command, if any, with its response so far, and those finished

relayVars == <<output, said, unheard, console, recorded, tail, parser>>

NothingRead == [open |-> <<>>, response |-> <<>>, done |-> <<>>]

RelayInit ==
  /\ output \in Outputs /\ said = 0 /\ unheard = 0 /\ console = "lookup" /\ recorded = FALSE
  /\ tail = <<>> /\ parser = NothingRead
-----------------------------------------------------------------------------
(* ConsoleReconstructor *)

\* _clean: a backspace is applied.
Echoed(line, t) == IF t # "erase" THEN Append(line, t) ELSE IF line = <<>> THEN line ELSE Front(line)

StartsWithPrompt(line) == line # <<>> /\ Head(line) = "prompt"

\* What follows the prompt, and the prompt that the tail may repeat.
CommandOf(line) ==
  LET typed == {i \in DOMAIN line : line[i] # "prompt"}
  IN IF typed = {} THEN <<>> ELSE SubSeq(line, Min(typed), Len(line))

CloseCommand(p) ==
  IF p.open = <<>> THEN p
  ELSE [open |-> <<>>, response |-> <<>>,
        done |-> Append(p.done, [command |-> p.open, response |-> p.response])]

ConsumeLine(p, line) ==
  IF ~StartsWithPrompt(line)
  THEN IF p.open = <<>> THEN p ELSE [p EXCEPT !.response = Append(@, line)]
  ELSE [CloseCommand(p) EXCEPT !.open = CommandOf(line)]

\* A break ends the line, and "\r\n" is one break when both are there.
TakeToken(s, t) ==
  IF t = "lf" /\ s.cr THEN [s EXCEPT !.cr = FALSE]
  ELSE IF t \in {"cr", "lf"}
  THEN [line |-> <<>>, cr |-> t = "cr", parser |-> ConsumeLine(s.parser, s.line)]
  ELSE [s EXCEPT !.line = Echoed(@, t), !.cr = FALSE]

\* What is made of the tokens after the first n, as far as the m-th.
Taken(text, s, n, m) ==
  LET at[k \in n .. m] == IF k = n THEN s ELSE TakeToken(at[k - 1], text[k]) IN at[m]
Reading(line, p) == [line |-> line, cr |-> FALSE, parser |-> p]

\* No node erases the prompt it has printed: it echoes a backspace over what was typed.
KeepsPrompt(text) ==
  \A k \in 1 .. Len(text) :
    LET line == Taken(text, Reading(<<>>, NothingRead), 0, k - 1).line
    IN text[k] = "erase" /\ line # <<>> => Last(line) # "prompt"
ASSUME OutputsAssumption == \A text \in Outputs : text \in Seq(Tokens) /\ KeepsPrompt(text)

\* feed: a prompt at the end of the output closes the command.
TailDropped(line) == IF StartsWithPrompt(line) THEN <<>> ELSE line     \* mutant
TailKept(line) == line
Feed(n) ==
  LET s == Taken(output, Reading(tail, parser), said, said + n) IN
  /\ tail' = TailKept(s.line)
  /\ parser' = IF StartsWithPrompt(s.line) THEN CloseCommand(s.parser) ELSE s.parser

\* flush.  A tail that backspaces have emptied ends the response with a blank line at
\* most, and _close strips it.
Flushed(line, p) == CloseCommand(IF line = <<>> THEN p ELSE ConsumeLine(p, line))
-----------------------------------------------------------------------------
(* console_ws *)

\* The session is looked for after the node's console was opened; without one, or when
\* the lookup fails or takes too long, nothing is recorded.
AcceptConsole(tap) ==
  /\ console = "lookup" /\ console' = "open" /\ recorded' = tap
  /\ UNCHANGED <<output, said, unheard, tail, parser>>

RefuseConsole ==
  /\ console = "lookup" /\ console' = "closed"
  /\ UNCHANGED <<output, said, unheard, recorded, tail, parser>>

\* upstream_to_client: the learner first, the tap then.
NodeSays(n) ==
  /\ console = "open" /\ unheard = 0 /\ said + n <= Len(output)
  /\ said' = said + n
  /\ IF recorded THEN Feed(n) ELSE UNCHANGED <<tail, parser>>
  /\ UNCHANGED <<output, unheard, console, recorded>>

\* The relay ends while it sends a frame.
CutShort(n) ==
  /\ console = "open" /\ unheard = 0 /\ said + n <= Len(output)
  /\ said' = said + n /\ unheard' = n
  /\ UNCHANGED <<output, console, recorded, tail, parser>>

\* Either side goes: both pumps end, and the tap is closed.
CloseConsole ==
  /\ console = "open" /\ console' = "closed"
  /\ parser' = Flushed(tail, parser) /\ tail' = <<>>
  /\ UNCHANGED <<output, said, unheard, recorded>>

RelayNext ==
  \/ \E tap \in BOOLEAN : AcceptConsole(tap)
  \/ \E n \in 1 .. Len(output) : NodeSays(n) \/ CutShort(n)
  \/ RefuseConsole \/ CloseConsole

RelaySpec == RelayInit /\ [][RelayNext]_relayVars
-----------------------------------------------------------------------------
\* What the output would be read as in one piece, as far as the n-th token.
Whole(n) == Taken(output, Reading(<<>>, NothingRead), 0, n)
NoBlanks(response) ==
  LET kept[i \in 0 .. Len(response)] ==
        IF i = 0 THEN <<>>
        ELSE IF response[i] = <<>> THEN kept[i - 1] ELSE Append(kept[i - 1], response[i])
  IN kept[Len(response)]
Told(done) == [i \in DOMAIN done |-> [done[i] EXCEPT !.response = NoBlanks(@)]]

\* However the output was cut into frames, the commands recorded of a console that is
\* closed, their order and their responses are those of the output in one piece, but for
\* blank lines where a frame ended inside "\r\n"; all that was sent counts, but the frame
\* during which the relay ended (console_reconstruct.py:73, console_ws.py:149).
RelaySound ==
  console = "closed" =>
    LET whole == Whole(said - unheard)
    IN Told(parser.done) = IF recorded THEN Told(Flushed(whole.line, whole.parser).done) ELSE <<>>
=============================================================================
