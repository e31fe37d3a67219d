------------------------------- MODULE MCParts ------------------------------
(* Eight parts of the system that share no state, in one instance for TLC: the *)
(* value of part says which one moves, and the others stay in their initial   *)
(* states, in which none of their fair actions is enabled.                    *)
EXTENDS AnswerWait, RunJob, CaeRun, SimArtifacts, GpuResidency, SessionTokens, AccessKeys,
        LlmAnswer

CONSTANTS p1, p2, p3
MCPolls == {p1, p2, p3}

Model(role, name, devices) ==
    [role |-> role, key |-> name, devices |-> devices, exclusive |-> FALSE]

\* Two devices: a language model split over both, others on one of them or on
\* the CPU, and the image models, which use the second device.
LlmConfig(name, useGpu, split) ==
    [name |-> name, useGpu |-> useGpu, mainGpu |-> 0, split |-> split, tensors |-> 0]
MCRequests ==
    {LlmRequest(config, 2) : config \in {LlmConfig("split", TRUE, "layer"),
                                         LlmConfig("first", TRUE, "none"),
                                         LlmConfig("cpu", FALSE, "layer")}}
      \cup {Model("sdxl", "t2i", {1}), Model("sdxl", "i2i", {1}), Model("clip", "only", {1})}

\* The key has a limit of two requests a minute.
MCRateLimit == [k \in Keys |-> 2]

\* What the models of a family generate: its markers, objects and blanks.
Lexemes(family) ==
    {<<Object>>, <<Blank>>, TurnEnd, ReasoningStart(family), ReasoningEnd(family)}
MaxLexemes == 4
MCTexts ==
    UNION {{FlattenSeq(l) : l \in [1..n -> Lexemes(f)]} : n \in 0..MaxLexemes, f \in {"qwen", "gemma"}}

VARIABLE part
partsVars ==
    <<part, pollVars, runVars, caeVars, simVars, gpuVars, tokenVars, keyVars, chatVars>>

PartsInit ==
    /\ part \in {"polls", "runs", "cae", "sim", "gpu", "tokens", "keys", "chat"}
    /\ PollInit /\ RunInit /\ CaeInit /\ SimInit /\ GpuInit /\ TokenInit /\ KeysInit /\ ChatInit
    /\ client.sdk = "python" \/ part = "runs"
    /\ (text = << >> /\ parser = Parser(FALSE, "text")) \/ part = "chat"

PartsNext ==
    /\ UNCHANGED part
    /\ \/ /\ part = "polls" /\ PollNext
          /\ UNCHANGED <<runVars, caeVars, simVars, gpuVars, tokenVars, keyVars, chatVars>>
       \/ /\ part = "runs" /\ RunNext
          /\ UNCHANGED <<pollVars, caeVars, simVars, gpuVars, tokenVars, keyVars, chatVars>>
       \/ /\ part = "cae" /\ CaeNextState
          /\ UNCHANGED <<pollVars, runVars, simVars, gpuVars, tokenVars, keyVars, chatVars>>
       \/ /\ part = "sim" /\ SimNext
          /\ UNCHANGED <<pollVars, runVars, caeVars, gpuVars, tokenVars, keyVars, chatVars>>
       \/ /\ part = "gpu" /\ GpuNext
          /\ UNCHANGED <<pollVars, runVars, caeVars, simVars, tokenVars, keyVars, chatVars>>
       \/ /\ part = "tokens" /\ TokenNext
          /\ UNCHANGED <<pollVars, runVars, caeVars, simVars, gpuVars, keyVars, chatVars>>
       \/ /\ part = "keys" /\ KeysNext
          /\ UNCHANGED <<pollVars, runVars, caeVars, simVars, gpuVars, tokenVars, chatVars>>
       \/ /\ part = "chat" /\ ChatNext
          /\ UNCHANGED <<pollVars, runVars, caeVars, simVars, gpuVars, tokenVars, keyVars>>

PartsSpec ==
    /\ PartsInit /\ [][PartsNext]_partsVars
    /\ PollFairness /\ RunFairness /\ CaeFairness /\ KeysFairness

\* Every variable of every part has its type.
PartsTypeOK ==
    /\ PollTypeOK /\ RunTypeOK /\ CaeTypeOK /\ SimTypeOK /\ GpuTypeOK /\ TokenTypeOK
    /\ KeysTypeOK /\ ChatTypeOK
=============================================================================
