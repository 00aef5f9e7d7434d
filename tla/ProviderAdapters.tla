--------------------------- MODULE ProviderAdapters ---------------------------
(***************************************************************************)
(* The provider adapters of the core gateway, and what proxy_messages does *)
(* with them: a client's request is read into one form to be scored, sent  *)
(* on as it came, and the provider's reply is read into blocks and scanned.*)
(* Every provider has formats of its own, and when a conversion fails the  *)
(* gateway goes on with less.                                              *)
(***************************************************************************)
EXTENDS Integers, Sequences

CONSTANTS
    Providers,              \* what config.yaml may name as active
    Texts,                  \* what a message says
    MaxMessages, MaxBlocks  \* bounds

KnownProviders == {"anthropic", "openai", "gemini", "ollama", "openrouter"}

VARIABLES
    provider,
    asked,      \* the client's request
    reading,    \* _norm_req: "none", "normalized" or "failed"; "raised" ends the request
    scored,     \* the texts the scorer looked at
    told,       \* the NEXUS fields of the audit line
    passedOn,   \* the texts the provider was sent
    reply,      \* what the provider answered
    judgement   \* of the scan

adapterVars == <<provider, asked, reading, scored, told, passedOn, reply, judgement>>

SeqsUpTo(S, k) == UNION {[1..j -> S] : j \in 0..k}

\* A message or content may be no object ("malformed"); the NEXUS headers are those
\* that name the agent and those that sign the envelope.
ModelRequests ==
    [messages : SeqsUpTo({"system", "user"} \X Texts, MaxMessages),
     malformed : BOOLEAN, nexus : SUBSET {"agent-id", "signature"}]

Blocks == {"text", "tool_use"} \X {"clean", "secret", "injection"}

\* form: the JSON of the reply is as the provider documents it; has null where a
\* list belongs, the one of blocks or the one of tool calls; is no object, or no JSON.
ModelReplies ==
    [blocks : SeqsUpTo(Blocks, MaxBlocks),
     form : {"proper", "null list", "null calls", "no object", "not JSON"}]

NoReply == [form |-> "none"]

AdapterInit ==
    /\ provider \in Providers /\ asked \in ModelRequests
    /\ reading = "none" /\ scored = {} /\ told = {"nothing yet"} /\ passedOn = {}
    /\ reply = NoReply /\ judgement = "none"

-----------------------------------------------------------------------------
Said(messages) == {messages[k][2] : k \in DOMAIN messages}
UsersSay(messages) == {messages[k][2] : k \in {j \in DOMAIN messages : messages[j][1] = "user"}}

\* normalize_request of the adapters: what becomes of the messages.  System messages
\* become system_prompt, which the scorer does not read; in Anthropic's format they
\* stay messages.
AnthropicSees(a) == Said(a.messages)
OpenAISees(a) == UsersSay(a.messages)
GeminiSees(a) == UsersSay(a.messages)
OllamaSees(a) == UsersSay(a.messages)
OpenRouterSees(a) == UsersSay(a.messages)

NormalizedSees(p, a) ==
    CASE p = "anthropic" -> AnthropicSees(a)
      [] p = "openai" -> OpenAISees(a)
      [] p = "gemini" -> GeminiSees(a)
      [] p = "ollama" -> OllamaSees(a)
      [] p = "openrouter" -> OpenRouterSees(a)

\* NormalizedRequest(**nexus) has fields for some of the headers only: a signature or
\* a nonce is an argument its constructor does not know.
NexusFits(a) == "signature" \notin a.nexus

\* get_adapter raises ValueError for a name it does not know.
Normalizes(p, a) ==
    p \in KnownProviders /\ NexusFits(a) /\ (a.malformed => p = "anthropic")

\* The raw body of a Gemini request has no "messages".
RawSees(p, a) == IF p = "gemini" THEN {} ELSE Said(a.messages)

\* The scorer calls get() on every message it is given.
ScorerRaises(p, a) == a.malformed /\ p # "gemini"

Reads ==
    /\ reading = "none"
    /\ reading' = CASE ScorerRaises(provider, asked) -> "raised"
                    [] Normalizes(provider, asked) -> "normalized"
                    [] OTHER -> "failed"
    /\ scored' = CASE reading' = "raised" -> {}
                   [] reading' = "normalized" -> NormalizedSees(provider, asked)
                   [] OTHER -> RawSees(provider, asked)
    /\ UNCHANGED <<provider, asked, told, passedOn, reply, judgement>>

\* forward(): the bytes as they came, under the adapter's own headers.  A provider
\* get_adapter does not know is an error 500 here.
ForwardsRequest ==
    /\ reading \in {"normalized", "failed"} /\ reply = NoReply
    /\ provider \in KnownProviders
    /\ passedOn' = Said(asked.messages)
    /\ reply' \in ModelReplies
    /\ UNCHANGED <<provider, asked, reading, scored, told, judgement>>

-----------------------------------------------------------------------------
\* extract_response_content of the adapters.
Broken(r) == r.form \in {"not JSON", "no object"}

Extracted(blocks) == [outcome |-> "blocks", blocks |-> blocks]
ExtractionRaises == [outcome |-> "raises", blocks |-> <<>>]

AnthropicBlocks(r) ==
    CASE Broken(r) -> ExtractionRaises
      [] r.form = "null list" -> [outcome |-> "null", blocks |-> <<>>]
      [] OTHER -> Extracted(r.blocks)

OpenAIBlocks(r) == IF r.form = "proper" THEN Extracted(r.blocks) ELSE ExtractionRaises
OpenRouterBlocks(r) == IF r.form = "proper" THEN Extracted(r.blocks) ELSE ExtractionRaises

\* The calls are parts like any other.
GeminiBlocks(r) ==
    IF Broken(r) \/ r.form = "null list" THEN ExtractionRaises ELSE Extracted(r.blocks)

\* A message that is null is taken for a reply of /api/generate, which has none.
OllamaBlocks(r) ==
    CASE Broken(r) \/ r.form = "null calls" -> ExtractionRaises
      [] r.form = "null list" -> Extracted(<<>>)
      [] OTHER -> Extracted(r.blocks)

BlocksOf(p, r) ==
    CASE p = "anthropic" -> AnthropicBlocks(r)
      [] p = "openai" -> OpenAIBlocks(r)
      [] p = "gemini" -> GeminiBlocks(r)
      [] p = "ollama" -> OllamaBlocks(r)
      [] p = "openrouter" -> OpenRouterBlocks(r)

\* Text is searched for secrets, the input of a tool for secrets and instructions.
Leaks(block) == block[2] = "secret" \/ block = <<"tool_use", "injection">>

Judged(blocks) ==
    IF \E k \in DOMAIN blocks : Leaks(blocks[k]) THEN "dirty" ELSE "clean"

\* ProviderAdapter.scan_response: what cannot be extracted is clean; a null list
\* is extracted, and raises in the scanner outside the try.
AdapterScan(p, r) ==
    LET found == BlocksOf(p, r) IN
    CASE found.outcome = "raises" -> "clean"
      [] found.outcome = "null" -> "raised"
      [] OTHER -> Judged(found.blocks)

\* scan_response of main.py knows Anthropic's format: a reply without "content" has
\* nothing to look at.
PlainScan(p, r) ==
    CASE r.form = "not JSON" -> "clean"
      [] r.form = "no object" -> "raised"
      [] p # "anthropic" -> "clean"
      [] r.form = "null list" -> "raised"
      [] OTHER -> Judged(r.blocks)

Scans ==
    /\ reply # NoReply /\ judgement = "none"
    /\ judgement' = IF reading = "normalized" THEN AdapterScan(provider, reply)
                                              ELSE PlainScan(provider, reply)
    /\ UNCHANGED <<provider, asked, reading, scored, told, passedOn, reply>>

\* extract_nexus_audit_fields, for the line of a reply that is let through.
TellsAudit ==
    /\ judgement = "clean" /\ told = {"nothing yet"}
    /\ told' = IF reading = "normalized" THEN asked.nexus ELSE {}
    /\ UNCHANGED <<provider, asked, reading, scored, passedOn, reply, judgement>>

AdapterNext == Reads \/ ForwardsRequest \/ Scans \/ TellsAudit

AdapterSpec == AdapterInit /\ [][AdapterNext]_adapterVars

-----------------------------------------------------------------------------
AdapterTypeOK ==
    /\ reading \in {"none", "normalized", "failed", "raised"}
    /\ scored \subseteq Texts /\ passedOn \subseteq Texts
    /\ judgement \in {"none", "clean", "dirty", "raised"}

\* Whatever the format and however the conversion goes, what a user's message says to
\* the provider was scored first.  Excepted is a Gemini request that could not be
\* normalized: its messages are where the scorer does not look.
\* (normalize_request of the five adapters; proxy_messages, main.py:1107-1118)
UsersAreScored ==
    reply # NoReply
      => \/ UsersSay(asked.messages) \subseteq scored
         \/ provider = "gemini" /\ reading = "failed"

\* A reply as its provider documents it is judged by its content and by nothing else:
\* no conversion loses a block the scan would object to.  Excepted is the reply to a
\* request that was not normalized, looked at in a format it does not have.
\* (extract_response_content of the five adapters, main.py:1187-1190)
VerdictIsOfContent ==
    judgement # "none" /\ reply.form = "proper"
      => \/ (judgement = "dirty") <=> \E k \in DOMAIN reply.blocks : Leaks(reply.blocks[k])
         \/ reading = "failed" /\ provider # "anthropic"

\* The audit line of a normalized request names the agent its headers name; no
\* conversion that failed half way leaves a part of them.
\* (extract_nexus_fields 165-178, extract_nexus_audit_fields 607-622)
AgentsOnRecord ==
    told # {"nothing yet"} /\ reading = "normalized" => told = asked.nexus

AdaptersAgree ==
    AdapterTypeOK /\ UsersAreScored /\ VerdictIsOfContent /\ AgentsOnRecord
=============================================================================
