------------------------------ MODULE ChatText ------------------------------
(***************************************************************************)
(* The text of a conversation and of an answer (src/front/chat.cpp):       *)
(* render turns messages into the prompt of the chat template, and         *)
(* parse_output takes an answer apart again into reasoning, content and    *)
(* tool calls.                                                             *)
(*                                                                         *)
(* A text is a sequence of tokens: the tags of the template, line breaks   *)
(* and words.  A message is [role, reasoning, content, calls], a call is   *)
(* [name, args] and an argument [key, type, text], type "str" or "num".    *)
(***************************************************************************)
EXTENDS Integers, Sequences, FiniteSets, SequencesExt, FiniteSetsExt

CONSTANTS
    Numbers,    \* words that begin a JSON value which is not a string
    Refused      \* no value: an exception was thrown

NL == "\n"
Start == "<|im_start|>"
Stop == "<|im_end|>"

Trim(t) ==
    LET words == {i \in DOMAIN t : t[i] # NL}
    IN  IF words = {} THEN << >> ELSE SubSeq(t, Min(words), Max(words))

Turn(role, t) == <<Start, role, NL>> \o t \o <<Stop, NL>>

\* Two texts with something between them, where both are there.
Join(a, between, b) == IF a = << >> THEN b ELSE IF b = << >> THEN a ELSE a \o between \o b

-----------------------------------------------------------------------------
(* render                                                                  *)

System == {"system", "developer"}

\* How many messages lead the conversation as its system prompt.
NumSys(messages) ==
    Max({k \in 0 .. Len(messages) : \A i \in 1 .. k : messages[i].role \in System})

Merged(messages) ==
    FoldLeft(LAMBDA t, m : Join(t, <<NL>>, Trim(m.content)), << >>, SubSeq(messages, 1, NumSys(messages)))

Effort(opts) ==
    CASE ~opts.thinking -> << >>
      [] opts.thinking /\ opts.effort \in {"high", "xhigh"} -> <<"xhigh">>
      [] opts.thinking /\ opts.effort = "low" -> <<"low">>
      [] opts.thinking /\ opts.effort = "medium" -> << >>
      [] OTHER -> <<Refused>>

\* The first turn: effort, tools and the merged system prompt, if any is there.
SystemTurn(messages, opts) ==
    LET tools == IF opts.tools THEN <<"# Tools">> ELSE << >>
        t == Join(Join(Effort(opts), <<NL, NL>>, tools), <<NL, NL>>, Merged(messages))
    IN  IF t = << >> THEN << >> ELSE Turn("system", t)

RenderedArg(a) == <<"<parameter=", a.key, ">", NL>> \o a.text \o <<NL, "</parameter>", NL>>

RenderedCall(call) ==
    <<"<tool_call>", NL, "<function=", call.name, ">", NL>>
        \o FlattenSeq([i \in DOMAIN call.args |-> RenderedArg(call.args[i])])
        \o <<"</function>", NL, "</tool_call>">>

RenderedCalls(m) ==
    LET Before(i) == IF i > 1 THEN <<NL>> ELSE IF Trim(m.content) = << >> THEN << >> ELSE <<NL, NL>>
    IN  FlattenSeq([i \in DOMAIN m.calls |-> Before(i) \o RenderedCall(m.calls[i])])

\* What an assistant message says after "<think>\n": the text the model itself
\* would have answered with.
Answer(m) ==
    Trim(m.reasoning) \o <<NL, "</think>", NL, NL>> \o Trim(m.content) \o RenderedCalls(m)

\* Faulty variant: every tool result closes the turn.
ClosesAlways(messages, i) == TRUE

\* A run of tool results is one user turn: which of them open and close it.
OpensRun(messages, i) == i = 1 \/ messages[i - 1].role # "tool"
ClosesRun(messages, i) == i = Len(messages) \/ messages[i + 1].role # "tool"

ToolResult(messages, i) ==
    (IF OpensRun(messages, i) THEN <<Start, "user">> ELSE << >>)
        \o <<NL, "<tool_response>", NL>> \o Trim(messages[i].content) \o <<NL, "</tool_response>">>
        \o (IF ClosesRun(messages, i) THEN <<Stop, NL>> ELSE << >>)

Rendered(messages, i) ==
    LET m == messages[i] IN
    CASE m.role = "user" -> Turn("user", Trim(m.content))
      [] m.role = "assistant" /\ (\A c \in ToSet(m.calls) : c.name # "") ->
            Turn("assistant", <<"<think>", NL>> \o Answer(m))
      [] m.role = "tool" -> ToolResult(messages, i)
      [] OTHER -> <<Refused>>

Prompt(opts) ==
    <<Start, "assistant", NL, "<think>", NL>> \o (IF opts.thinking THEN << >> ELSE <<NL, "</think>", NL, NL>>)

Render(messages, opts) ==
    LET first == NumSys(messages) + 1
        text == SystemTurn(messages, opts)
                  \o FlattenSeq([k \in 1 .. Len(messages) - first + 1 |-> Rendered(messages, first + k - 1)])
                  \o Prompt(opts)
    IN  IF Refused \in ToSet(text) THEN Refused ELSE text

-----------------------------------------------------------------------------
(* parse_output                                                            *)

\* The first place of a tag from i on, and the text between two places; 0
\* stands for npos.
FindTag(t, tag, i) ==
    LET at == {k \in DOMAIN t : k >= i /\ t[k] = tag} IN IF at = {} THEN 0 ELSE Min(at)
Between(t, from, to) == SubSeq(t, from, IF to = 0 THEN Len(t) ELSE to - 1)

\* Faulty variant: the line breaks around a value stay.
Kept(v) == v

\* One line break is taken off each end of a value.
Unwrapped(v) ==
    LET w == IF v # << >> /\ v[1] = NL THEN Tail(v) ELSE v
    IN  IF w # << >> /\ Last(w) = NL THEN Front(w) ELSE w

\* The value as JSON where it begins like a number, a word of JSON, an array or
\* an object (what follows is ignored), else as a string.
Valued(key, v) ==
    LET t == Trim(v)
    IN  IF t # << >> /\ t[1] \in Numbers
        THEN [key |-> key, type |-> "num", text |-> <<t[1]>>]
        ELSE [key |-> key, type |-> "str", text |-> v]

\* The parameters of a call from place q on; a name that is cut off takes the
\* whole body for its value.
ParsedArgs(body, q0) ==
    LET from[q \in Nat] ==
            LET pa == FindTag(body, "<parameter=", q)
                pe == FindTag(body, ">", pa)
                ve == IF pe = 0 THEN 0 ELSE FindTag(body, "</parameter>", pe)
                key == Between(body, pa + 1, pe)
                v == Unwrapped(Between(body, pe + 1, ve))
            IN  IF pa = 0 THEN << >>
                ELSE <<Valued(IF key = << >> THEN "" ELSE key[1], v)>>
                       \o from[IF ve = 0 THEN Len(body) + 1 ELSE ve + 1]
    IN  from[q0]

\* The call of a tool_call block, none where it names no function.
ParsedCall(body) ==
    LET f == FindTag(body, "<function=", 1)
        fe == FindTag(body, ">", f)
        name == Between(body, f + 1, fe)
    IN  IF f = 0 THEN << >>
        ELSE <<[name |-> IF name = << >> THEN "" ELSE name[1], args |-> ParsedArgs(body, fe + 1)]>>

\* The content around the tool_call blocks, and the calls in them.
ParsedBlocks(t) ==
    LET scan[pos \in Nat] ==
            LET a == FindTag(t, "<tool_call>", pos)
                b == FindTag(t, "</tool_call>", a)
                rest == IF b = 0 THEN [content |-> << >>, calls |-> << >>] ELSE scan[b + 1]
            IN  IF a = 0 THEN [content |-> Between(t, pos, 0), calls |-> << >>]
                ELSE [content |-> Between(t, pos, a) \o rest.content,
                      calls |-> ParsedCall(Between(t, a + 1, b)) \o rest.calls]
    IN  scan[1]

ParseOutput(text, open) ==
    LET e == FindTag(text, "</think>", 1)
        blocks == ParsedBlocks(IF open THEN SubSeq(text, e + 1, Len(text)) ELSE text)
    IN  IF open /\ e = 0
        THEN [reasoning |-> Trim(text), content |-> << >>, calls |-> << >>]
        ELSE [reasoning |-> IF open THEN Trim(SubSeq(text, 1, e - 1)) ELSE << >>,
              content |-> Trim(blocks.content), calls |-> blocks.calls]
=============================================================================
