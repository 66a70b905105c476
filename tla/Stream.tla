------------------------------- MODULE Stream -------------------------------
(***************************************************************************)
(* The translation of a provider's event stream into the stream of another *)
(* dialect (internal/protocol/stream.go, TranslateStream): the state it    *)
(* keeps while it reads, what one payload does to it, and what it makes of *)
(* the end.  Forward takes the steps.                                      *)
(*                                                                         *)
(* Abstracted: a text is its presence, the arguments of a call are the     *)
(* fragments they arrive in, a token count is its presence; identifiers,   *)
(* names and stop reasons are left out.                                    *)
(***************************************************************************)
EXTENDS Naturals, Sequences
LOCAL INSTANCE SequencesExt

Dialects == {"openai", "anthropic", "gemini"}
Indexes == {0, 1}

-----------------------------------------------------------------------------
(* decodeStreamDelta: what a payload of a provider of the dialect says. *)

NoDelta == [text |-> FALSE, tools |-> <<>>, stop |-> FALSE, done |-> FALSE, input |-> FALSE, output |-> FALSE]
Text == [NoDelta EXCEPT !.text = TRUE]
Done == [NoDelta EXCEPT !.done = TRUE]
Usage == [NoDelta EXCEPT !.input = TRUE, !.output = TRUE]
Tool(i, fragment) == [NoDelta EXCEPT !.tools = <<[index |-> i, fragment |-> fragment]>>]

\* A call is announced and its arguments follow in fragments; a second call has none.
Calls == {Tool(0, fragment) : fragment \in {"", "head", "tail"}} \cup {Tool(1, "")}
OpenAIPayloads ==
  {Text, Done, Usage, [NoDelta EXCEPT !.stop = TRUE]}
    \cup Calls
\* message_start and message_delta each report a part of the usage.
AnthropicPayloads ==
  {Text, Done, Usage, [NoDelta EXCEPT !.stop = TRUE, !.output = TRUE]}
    \cup Calls
\* Every payload holds whole calls, and their indexes count its own parts.
GeminiPayloads ==
  {Text, Tool(0, "whole"), [NoDelta EXCEPT !.tools = [i \in 1..2 |-> [index |-> i - 1, fragment |-> "whole"]]],
   [Usage EXCEPT !.stop = TRUE, !.done = TRUE]}
Payloads(dialect) ==
  CASE dialect = "openai" -> OpenAIPayloads
    [] dialect = "anthropic" -> AnthropicPayloads
    [] dialect = "gemini" -> GeminiPayloads

-----------------------------------------------------------------------------
(* The translator. *)

\* items: what the client was told of, in the order of its output indexes; sent:
\* history of what the provider's payloads held.
Fresh(dialect) ==
  [dialect |-> dialect, payloads |-> 0, items |-> <<>>, arguments |-> [i \in Indexes |-> <<>>], stopped |-> FALSE,
   input |-> FALSE, output |-> FALSE, terminalUsage |-> FALSE, completed |-> FALSE, sent |-> <<>>]

Added(items, item) == IF Contains(items, item) THEN items ELSE Append(items, item)
\* One call of Gemini is one part; elsewhere the index tells calls apart.
Told(s, item) == IF s.dialect = "gemini" THEN Append(s.sent, item) ELSE Added(s.sent, item)

ConsumeText(s) == [s EXCEPT !.items = Added(@, <<"text">>), !.sent = Added(@, <<"text">>)]
ConsumeTool(s, tool) ==
  [s EXCEPT !.items = Added(@, <<"call", tool.index>>), !.sent = Told(s, <<"call", tool.index>>),
            !.arguments[tool.index] = IF tool.fragment = "" THEN @ ELSE Append(@, tool.fragment)]

\* Whether the usage that ends a stream of the dialect has come with this delta.
TerminalUsage(s, delta) ==
  CASE s.dialect = "openai" -> (s.stopped \/ delta.stop) /\ delta.input /\ delta.output
    [] s.dialect = "anthropic" -> delta.stop /\ delta.output /\ (s.input \/ delta.input)
    [] s.dialect = "gemini" -> delta.done /\ delta.output /\ (s.input \/ delta.input)

Consume(s, delta) ==
  LET texted == IF delta.text THEN ConsumeText(s) ELSE s
      tooled == FoldLeft(ConsumeTool, texted, delta.tools)
  IN  [tooled EXCEPT !.payloads = @ + 1,
                     !.stopped = @ \/ delta.stop,
                     !.input = @ \/ delta.input,
                     !.output = @ \/ delta.output,
                     !.terminalUsage = @ \/ TerminalUsage(s, delta),
                     !.completed = @ \/ delta.done]

\* Whether the payload makes the translator write to a client of the dialect: a
\* Gemini client gets its calls with the end.
Writes(client, delta) == delta.text \/ (delta.tools # <<>> /\ client # "gemini")

\* json.Valid of the concatenated fragments; none at all counts as {}.
ValidUnchecked(arguments) == TRUE
Valid(arguments) == arguments \in {<<>>, <<"whole">>, <<"head", "tail">>}

\* How the end of the provider's stream is taken: interrupted when its terminal
\* event is missing, invalid for want of usage or of usable arguments.
Finished(s) ==
  IF ~s.completed THEN "retryable"
  ELSE IF s.terminalUsage /\ (\A i \in Indexes : Valid(s.arguments[i])) /\ s.input /\ s.output THEN "ok"
  ELSE "refused"
=============================================================================
