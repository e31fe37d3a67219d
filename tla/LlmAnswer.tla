------------------------------ MODULE LlmAnswer ------------------------------
(* How the AI slave takes the answer out of what a language model generates    *)
(* (GenerationOutputParser, slaves/ai/app/llm/generation.py). ai.llm feeds the *)
(* parser the whole text (llm/runtime.py), ai.chat the chunks of a stream, and *)
(* sends on what the parser returns (llm/chat.py).                            *)
EXTENDS Integers, FiniteSets, Sequences, SequencesExt

CONSTANTS
    Texts,      \* what the models may generate
    MaxChunk    \* bound: characters of a chunk

(* A marker is two characters, so that the end of a chunk can cut it.         *)
ReasoningStart(family) == IF family = "qwen" THEN <<"<think", ">">> ELSE <<"<|channel>", "thought">>
ReasoningEnd(family) == IF family = "qwen" THEN <<"</think", ">">> ELSE <<"<channel", "|>">>
TurnEnd == <<"<turn", "|>">>
Blank == " "
Object == "{}"      \* a JSON object, and any other text
Markers == {ReasoningStart(f) : f \in {"qwen", "gemma"}}
             \cup {ReasoningEnd(f) : f \in {"qwen", "gemma"}} \cup {TurnEnd}
Characters == {Object, Blank} \cup {m[1] : m \in Markers} \cup {m[2] : m \in Markers}

(* str.find and str.rfind of a marker, as 1-based places; 0 when there is none. *)
Places(string, mark) == {i \in 1..(Len(string) - 1) : SubSeq(string, i, i + 1) = mark}
Least(places) == IF places = {} THEN 0 ELSE CHOOSE i \in places : \A j \in places : i <= j
Greatest(places) == IF places = {} THEN 0 ELSE CHOOSE i \in places : \A j \in places : i >= j
From(string, i) == SubSeq(string, i, Len(string))

(* A model has the markers of one family, its own. *)
ASSUME TextsAssumption ==
    \A string \in Texts :
       /\ string \in Seq(Characters)
       /\ Places(string, ReasoningStart("gemma")) = {} \/ Places(string, ReasoningEnd("qwen")) = {}
ASSUME ChunkAssumption == MaxChunk \in Nat

VARIABLES
    text,       \* what the model generates
    fed,        \* how much of it the parser has been fed
    parser,     \* its fields
    streamed,   \* the deltas sent to the master, joined
    output      \* how the call ended

chatVars == <<text, fed, parser, streamed, output>>

(* lstrip, rstrip *)
NonBlank(string) == {i \in 1..Len(string) : string[i] # Blank}
LStrip(string) == IF NonBlank(string) = {} THEN << >> ELSE From(string, Least(NonBlank(string)))
RStrip(string) == SubSeq(string, 1, Greatest(NonBlank(string)))

Parser(expectReasoning, format) ==
    [expectReasoning |-> expectReasoning, format |-> format,
     state |-> IF expectReasoning THEN "detecting" ELSE "final", buffer |-> << >>,
     final |-> << >>, held |-> << >>, emitted |-> << >>, started |-> FALSE]

(* _accept_final: the last characters are held back, they may be a turn end.  *)
AcceptFinal(p, string) ==
    LET new  == IF p.started THEN string ELSE LStrip(string)
        held == p.held \o new
        cut  == IF Len(held) <= Len(TurnEnd) THEN 0 ELSE Len(held) - Len(TurnEnd)
        q    == [p EXCEPT !.final = @ \o new, !.started = @ \/ new # << >>]
    IN  IF p.format = "json" THEN q
        ELSE [q EXCEPT !.held = From(held, cut + 1), !.emitted = @ \o SubSeq(held, 1, cut)]

(* feed: what it returns is what it adds to emitted.                          *)
Feed(p, delta) ==
    LET buffer     == p.buffer \o delta
        gemmaStart == Least(Places(buffer, ReasoningStart("gemma")))
        gemmaEnd   == Least({i \in Places(buffer, ReasoningEnd("gemma")) : i > gemmaStart + 1})
        qwenEnd    == Greatest(Places(buffer, ReasoningEnd("qwen")))
        finalFrom(end) == AcceptFinal([p EXCEPT !.state = "final", !.buffer = << >>],
                                      From(buffer, end + 2))
    IN  CASE p.state = "final" -> AcceptFinal(p, delta)
          [] p.state # "final" /\ gemmaStart # 0 /\ gemmaEnd # 0 -> finalFrom(gemmaEnd)
          [] p.state # "final" /\ gemmaStart # 0 /\ gemmaEnd = 0 ->
                [p EXCEPT !.state = "gemma", !.buffer = buffer]
          [] p.state # "final" /\ gemmaStart = 0 /\ qwenEnd # 0 -> finalFrom(qwenEnd)
          [] OTHER ->
                [p EXCEPT !.buffer = buffer,
                          !.state = IF Places(buffer, ReasoningStart("qwen")) # {} THEN "qwen" ELSE @]

(* The last delta when what was accepted only at the end is taken for sent.   *)
BugPending(before, q, answer) == From(answer, Len(q.emitted) + 1)

(* pending_delta: what accepting the buffer emitted, and what was held back.  *)
Pending(before, q, answer) ==
    From(q.emitted, Len(before.emitted) + 1) \o From(answer, Len(q.emitted) + 1)

Failed == [ended |-> TRUE, failed |-> TRUE, answer |-> << >>, pending |-> << >>]
Answered(answer, pending) == [ended |-> TRUE, failed |-> FALSE, answer |-> answer, pending |-> pending]

(* finish: the text is stripped of blanks and one turn end; of a JSON answer   *)
(* the only object in it is left.                                             *)
FinishOutput(p) ==
    LET q == IF p.state = "detecting"
             THEN AcceptFinal([p EXCEPT !.state = "final", !.buffer = << >>], p.buffer) ELSE p
        stripped == RStrip(LStrip(q.final))
        n        == Len(stripped)
        answer   == IF IsSuffix(TurnEnd, stripped)
                    THEN RStrip(SubSeq(stripped, 1, n - 2)) ELSE stripped
        objects  == {i \in 1..Len(answer) : answer[i] = Object}
    IN  IF p.state \in {"gemma", "qwen"} \/ answer = << >> THEN Failed
        ELSE IF p.format = "text" THEN Answered(answer, Pending(p, q, answer))
        ELSE IF Cardinality(objects) = 1 THEN Answered(<<Object>>, <<Object>>)
        ELSE Failed

(* _generate_prompt_with_llm_locked: the text comes in one piece.             *)
OutputOf(string, expectReasoning, format) ==
    FinishOutput(Feed(Parser(expectReasoning, format), string))

Running == [ended |-> FALSE, failed |-> FALSE, answer |-> << >>, pending |-> << >>]
ChatInit ==
    /\ text \in Texts
    /\ fed = 0 /\ streamed = << >> /\ output = Running
    /\ \E expectReasoning \in BOOLEAN, format \in {"text", "json"} :
          parser = Parser(expectReasoning, format)

(* The next chunk; its delta is sent with those that wait for it, 33 ms later. *)
Chunk(n) ==
    /\ ~output.ended /\ n <= Len(text) - fed
    /\ fed' = fed + n
    /\ parser' = Feed(parser, SubSeq(text, fed + 1, fed + n))
    /\ streamed' = streamed \o From(parser'.emitted, Len(parser.emitted) + 1)
    /\ UNCHANGED <<text, output>>

(* The end of the stream. An empty answer never gets this far.                *)
StreamEnds ==
    /\ ~output.ended /\ fed = Len(text)
    /\ output' = FinishOutput(parser)
    /\ streamed' = streamed \o output'.pending
    /\ UNCHANGED <<text, fed, parser>>

ChatNext == StreamEnds \/ \E n \in 1..MaxChunk : Chunk(n)

ChatSpec == ChatInit /\ [][ChatNext]_chatVars

ChatTypeOK ==
    /\ fed \in 0..Len(text)
    /\ parser.state \in {"detecting", "gemma", "qwen", "final"}
    /\ parser.started \in BOOLEAN
    /\ Len(parser.held) <= Len(TurnEnd)
    /\ {output.ended, output.failed} \subseteq BOOLEAN

(* ---------------------------------------------------------------- properties *)

(* Wherever the chunks end, ai.chat answers what ai.llm answers to the same     *)
(* text and fails on the same texts, and what it has sent by then is that      *)
(* answer ("stream only final-answer text", slaves/README.md:39), with no      *)
(* character twice, missing or from the reasoning. Excepted is what the code  *)
(* does otherwise: of two </think> the first ends the reasoning only when the  *)
(* second is not there yet (rfind), and when blanks and a turn end are longer *)
(* than what is held back, their front is sent after the answer.              *)
SameAnswer ==
    LET whole == OutputOf(text, parser.expectReasoning, parser.format)
    IN  output.failed = whole.failed /\ output.answer = whole.answer
OnlyEnds(string) == \A i \in 1..Len(string) : string[i] \in {Blank, TurnEnd[1], TurnEnd[2]}
StreamIsAnswer ==
    output.ended /\ Cardinality(Places(text, ReasoningEnd("qwen"))) <= 1 =>
        /\ SameAnswer
        /\ ~output.failed => /\ IsPrefix(output.answer, streamed)
                             /\ OnlyEnds(From(streamed, Len(output.answer) + 1))
=============================================================================
