------------------------------ MODULE ChatTurn ------------------------------
(***************************************************************************)
(* The tutor's answers in a chat (chat/service.py): the rounds with the    *)
(* language model and the tools it asks for, the events that stream to the *)
(* learner's tab, and the rows that keep the dialogue, while the model     *)
(* fails, the tab closes and several tabs ask at once.                     *)
(***************************************************************************)
EXTENDS Absent, Naturals, SequencesExt

CONSTANTS
  Turns,           \* requests to /chat/stream for one session
  MaxToolRounds,   \* MAX_TOOL_ROUNDS
  MaxChunks,       \* bound: pieces of text in a round
  MaxCalls,        \* bound: tool calls in a round
  ModelCatalog,         \* the models on offer
  DefaultModel     \* agents.chat_model

ASSUME ChatAssumption ==
  /\ MaxToolRounds \in Nat \ {0} /\ MaxChunks \in Nat \ {0} /\ MaxCalls \in Nat
  /\ DefaultModel \in ModelCatalog /\ None \notin ModelCatalog

VARIABLES
  turn,    \* per request: where it stands, what it has sent and what it will keep
  chat,    \* the rows of chat_messages
  model    \* learning_sessions.model_id

chatVars == <<turn, chat, model>>

(***************************************************************************)
(* round   tool_round                  text    pieces of text so far       *)
(* calls   tool_calls_buffer: how many next    the call that is due        *)
(* sent    the events of the stream    told    what was added to messages  *)
(* parts   assistant_parts: the rounds whose text is kept                  *)
(* gone    the tab has been closed                                         *)
(***************************************************************************)
NoTurn == [pc |-> "new", round |-> 0, text |-> 0, calls |-> 0, next |-> 1,
           sent |-> <<>>, told |-> <<>>, parts |-> <<>>, gone |-> FALSE]

ChatInit ==
  /\ turn = [t \in Turns |-> NoTurn]
  /\ chat = <<>>
  /\ model \in {None} \cup ModelCatalog

TurnAt(t, pc) == turn[t].pc = pc
TurnTo(t, pc) == turn' = [turn EXCEPT ![t].pc = pc]
Sends(t, pc, events) == turn' = [turn EXCEPT ![t].pc = pc, ![t].sent = @ \o events]

\* resolve_chat_model: the request and the preference count only with can_select.
Resolved(requested, preferred, canSelect) ==
  CHOOSE m \in ModelCatalog :
    IF canSelect /\ requested \in ModelCatalog THEN m = requested
    ELSE IF canSelect /\ preferred \in ModelCatalog THEN m = preferred
    ELSE IF model \in ModelCatalog THEN m = model
    ELSE m = DefaultModel
-----------------------------------------------------------------------------
\* The request is refused, or the learner's message is kept; when the last
\* message is not theirs, as when a tab asks again, there is nothing to keep.
Post(t) ==
  /\ TurnAt(t, "new")
  /\ \/ TurnTo(t, "refused") /\ UNCHANGED chat
     \/ TurnTo(t, "asked") /\ chat' \in {chat, Append(chat, <<t, "user">>)}
  /\ UNCHANGED model

\* The model is resolved and kept, and the prompt put together: the task, and what
\* the environment says, where a failing call counts as unavailable.
Prepare(t) ==
  /\ TurnAt(t, "asked")
  /\ \E requested, preferred \in {None} \cup ModelCatalog, canSelect \in BOOLEAN :
       model' = Resolved(requested, preferred, canSelect)
  /\ Sends(t, "open", <<<<"start">>>>)
  /\ UNCHANGED chat

\* Nothing catches an exception before the first event: no client can be built,
\* or the choice of the model cannot be committed.
PrepareFails(t) ==
  /\ TurnAt(t, "asked")
  /\ TurnTo(t, "over")
  /\ UNCHANGED <<chat, model>>

EndTurn(t, pc) == Sends(t, pc, <<<<"finish">>, <<"done">>>>)

\* A round: the model is asked with everything it has been told so far.  The loop
\* is left by the last round, or by a tab that has been closed.
OpenRound(t) ==
  /\ TurnAt(t, "open")
  /\ IF turn[t].round = MaxToolRounds \/ turn[t].gone
     THEN EndTurn(t, "closing")
     ELSE turn' = [turn EXCEPT ![t].pc = "chunk", ![t].text = 0, ![t].calls = 0, ![t].next = 1]
  /\ UNCHANGED <<chat, model>>

\* A piece of text; what is left of it without the thinking tokens may be nothing.
TextPiece(t) ==
  /\ TurnAt(t, "chunk") /\ ~turn[t].gone
  /\ turn[t].text < MaxChunks
  /\ LET r == turn[t].round
         opening == IF turn[t].text = 0 THEN <<<<"text-start", r>>>> ELSE <<>>
     IN turn' = [turn EXCEPT ![t].text = @ + 1,
                             ![t].sent = @ \o opening \o <<<<"text-delta", r>>>>]
  /\ UNCHANGED <<chat, model>>

\* The pieces of a tool call are collected; nothing is sent yet.
CallPiece(t) ==
  /\ TurnAt(t, "chunk") /\ ~turn[t].gone
  /\ turn[t].calls < MaxCalls
  /\ turn' = [turn EXCEPT ![t].calls = @ + 1]
  /\ UNCHANGED <<chat, model>>

\* The next chunk finds the tab closed: GeneratorExit.
TabFoundClosed(t) ==
  /\ TurnAt(t, "chunk") /\ turn[t].gone
  /\ TurnTo(t, "closing")
  /\ UNCHANGED <<chat, model>>

\* The stream of the round is through; its text is kept once its end has been sent.
RoundEnds(t) ==
  /\ TurnAt(t, "chunk")
  /\ Sends(t, "ended", IF turn[t].text = 0 THEN <<>> ELSE <<<<"text-end", turn[t].round>>>>)
  /\ UNCHANGED <<chat, model>>

KeepLastText(t) ==     \* mutant: the text of a round that goes on with tools is not kept
  IF turn[t].text = 0 \/ turn[t].calls > 0 THEN turn[t].parts ELSE Append(turn[t].parts, turn[t].round)
KeepText(t) ==
  IF turn[t].text = 0 THEN turn[t].parts ELSE Append(turn[t].parts, turn[t].round)

\* Without tool calls this was the answer; with some, the model is told that it
\* has asked for them.
TurnToTools(t) ==
  /\ TurnAt(t, "ended")
  /\ IF turn[t].calls = 0
     THEN turn' = [turn EXCEPT ![t].pc = "closing", ![t].parts = KeepText(t),
                               ![t].sent = @ \o <<<<"finish">>, <<"done">>>>]
     ELSE turn' = [turn EXCEPT ![t].pc = "tools", ![t].parts = KeepText(t),
                               ![t].told = Append(@, <<"calls", turn[t].round, turn[t].calls>>)]
  /\ UNCHANGED <<chat, model>>

Announce(t) ==
  /\ TurnAt(t, "tools") /\ turn[t].next <= turn[t].calls
  /\ Sends(t, "running", <<<<"tool-input", turn[t].round, turn[t].next>>>>)
  /\ UNCHANGED <<chat, model>>

\* execute_tool answers whatever happens: a tool that is not allowed, arguments
\* that cannot be read, a console that refuses and a failing call are texts too.
ToolAnswers(t) ==
  /\ TurnAt(t, "running")
  /\ LET r == turn[t].round
         k == turn[t].next
     IN turn' = [turn EXCEPT ![t].pc = "tools", ![t].next = @ + 1,
                             ![t].sent = Append(@, <<"tool-output", r, k>>),
                             ![t].told = Append(@, <<"tool", r, k>>)]
  /\ UNCHANGED <<chat, model>>

NextRound(t) ==
  /\ TurnAt(t, "tools") /\ turn[t].next > turn[t].calls
  /\ turn' = [turn EXCEPT ![t].pc = "open", ![t].round = @ + 1]
  /\ UNCHANGED <<chat, model>>

\* The model's service fails, when it is asked or in the middle of a stream.
RoundFails(t) ==
  /\ turn[t].pc \in {"open", "chunk"} /\ turn[t].round < MaxToolRounds
  /\ Sends(t, "closing", <<<<"error">>, <<"done">>>>)
  /\ UNCHANGED <<chat, model>>

\* finally: what has been kept becomes a row, unless it is nothing; a write that
\* fails is only logged.
SaveAnswer(t) ==
  /\ TurnAt(t, "closing")
  /\ TurnTo(t, "over")
  /\ chat' \in {chat} \cup (IF turn[t].parts = <<>> THEN {}
                             ELSE {Append(chat, <<t, "assistant", turn[t].parts>>)})
  /\ UNCHANGED model

\* A tab closes.  The server may cancel the response wherever it is: closed at an
\* event the generator still saves, cancelled it does not come to that.
CloseTab(t) ==
  /\ ~turn[t].gone /\ turn[t].pc \notin {"new", "refused", "over"}
  /\ turn' = [turn EXCEPT ![t].gone = TRUE]
  /\ UNCHANGED <<chat, model>>

CancelTurn(t) ==
  /\ turn[t].gone /\ turn[t].pc \in {"asked", "open", "chunk", "ended", "tools", "running", "closing"}
  /\ TurnTo(t, "over") \/ (~TurnAt(t, "asked") /\ TurnTo(t, "closing"))
  /\ UNCHANGED <<chat, model>>

ChatNext ==
  \E t \in Turns :
    \/ Post(t) \/ Prepare(t) \/ PrepareFails(t) \/ OpenRound(t) \/ TextPiece(t) \/ CallPiece(t)
    \/ TabFoundClosed(t) \/ RoundEnds(t) \/ TurnToTools(t) \/ Announce(t) \/ ToolAnswers(t)
    \/ NextRound(t) \/ RoundFails(t) \/ SaveAnswer(t) \/ CloseTab(t) \/ CancelTurn(t)

ChatSpec == ChatInit /\ [][ChatNext]_chatVars
-----------------------------------------------------------------------------
ChatTypeOK ==
  /\ model \in {None} \cup ModelCatalog
  /\ \A t \in Turns : /\ turn[t].round \in 0 .. MaxToolRounds /\ turn[t].text \in 0 .. MaxChunks
                      /\ turn[t].calls \in 0 .. MaxCalls /\ turn[t].gone \in BOOLEAN

\* The model is never asked with a call that has no result: after each message with
\* calls come its results, one each and in order.
CallsAnswered(told) ==
  \A i \in DOMAIN told : told[i][1] = "calls" =>
    /\ i + told[i][3] <= Len(told)
    /\ \A k \in 1 .. told[i][3] : told[i + k] = <<"tool", told[i][2], k>>

\* Every piece of text lies within its part, the parts end in the order of their rounds,
\* every result comes after its call, and nothing after [DONE].
WellFormed(sent) ==
  /\ sent # <<>> => sent[1] = <<"start">>
  /\ \A i \in DOMAIN sent :
       LET e == sent[i]
           before == {sent[j] : j \in 1 .. (i - 1)}
       IN /\ e[1] \in {"text-delta", "text-end"} =>
               <<"text-start", e[2]>> \in before /\ <<"text-end", e[2]>> \notin before
          /\ e[1] = "text-end" => \A f \in before : f[1] = "text-end" => f[2] < e[2]
          /\ e[1] = "tool-output" => <<"tool-input", e[2], e[3]>> \in before /\ e \notin before
          /\ e = <<"done">> => i = Len(sent)

\* The rounds whose text has been shown whole, and parts that are the first of these.
EndedTexts(sent) == {e[2] : e \in {f \in Range(sent) : f[1] = "text-end"}}
FirstOf(parts, ended) ==
  /\ \A i, j \in DOMAIN parts : i < j => parts[i] < parts[j]
  /\ Range(parts) \subseteq ended
  /\ \A r \in ended, p \in Range(parts) : r < p => r \in Range(parts)

\* The three records of a turn agree, whatever fails, whichever tab closes and
\* whatever other tabs ask meanwhile: the model gets a dialogue it can accept, the
\* tab a stream its client can parse, and the history what was shown: at most one
\* answer to a turn, after its question, made of the first texts the tab has seen
\* whole, and of all of them if the turn has finished.
TurnSound ==
  /\ ChatTypeOK
  /\ \A t \in Turns :
       /\ TurnAt(t, "open") => CallsAnswered(turn[t].told)
       /\ WellFormed(turn[t].sent)
       /\ FirstOf(turn[t].parts, EndedTexts(turn[t].sent))
       /\ <<"finish">> \in Range(turn[t].sent) => EndedTexts(turn[t].sent) \subseteq Range(turn[t].parts)
  /\ \A i, j \in DOMAIN chat :
       chat[i][1] = chat[j][1] /\ i < j => chat[i][2] = "user" /\ chat[j][2] = "assistant"
  /\ \A i \in DOMAIN chat :
       chat[i][2] = "assistant" => chat[i][3] # <<>> /\ chat[i][3] = turn[chat[i][1]].parts
=============================================================================
