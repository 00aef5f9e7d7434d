---------------------------- MODULE NexusEnvelope ----------------------------
(***************************************************************************)
(* The CAEL envelope of the NEXUS SDK and its protocol bridges.  An        *)
(* envelope is made, amended, signed and checked in any order (it is a     *)
(* mutable object), and every bridge says what its protocol has room for.  *)
(* A tool call is made once per attempt, and goes to a Guardian and to the *)
(* tool over bridges of its own.                                           *)
(***************************************************************************)
EXTENDS Integers, FiniteSets

CONSTANTS
    Goals,              \* what a message asks for, what a tool is called with
    Depths,             \* delegation depths, of which 4 is the highest allowed
    MaxAmendments, MaxAttempts      \* bounds

ASSUME EnvelopeAssumption ==
    /\ Depths \subseteq Nat
    /\ MaxAmendments \in Nat /\ MaxAttempts \in Nat

VARIABLES
    envelope,
    signature,  \* the signed fields its value was computed from
    heard,      \* what the last receiver reads, with the sender's checks
    amendments,
    attempts,   \* tool calls made: one per attempt
    carried,    \* the last that reached a tool or the Guardian
    guardianAnswer,     \* the Guardian's last
    decision    \* parse_verdict of it

envelopeVars ==
    <<envelope, signature, heard, amendments, attempts, carried, guardianAnswer, decision>>

NoDelegation == [depth |-> -1]
Delegations == {[depth |-> d] : d \in Depths}
Compartments == {"TASK_CONTEXT", "CREDENTIAL_SURFACE"}
Unsigned == [goal |-> "none"]
NothingHeard == [protocol |-> "none"]

EnvelopeInit ==
    /\ envelope \in [goal : Goals, delegation : Delegations \cup {NoDelegation},
                     sender : {"spiffe", "none"}, compartment : Compartments]
    /\ signature = Unsigned /\ heard = NothingHeard /\ amendments = 0
    /\ attempts = {} /\ carried = NothingHeard
    /\ guardianAnswer = "none" /\ decision = [allowed |-> FALSE, decision |-> "none"]

-----------------------------------------------------------------------------
\* compute_content_hash: the compartment (memory) is not among the signed fields.
SignedFields(e) == [goal |-> e.goal, delegation |-> e.delegation, sender |-> e.sender]

VerifySignature == signature # Unsigned /\ signature = SignedFields(envelope)

\* delegation_depth of a delegation that is absent, as every bridge reads it.
Depth(e) == IF e.delegation = NoDelegation THEN 0 ELSE e.delegation.depth

\* validate(): the signature must be there, it need not fit.
Violations ==
    (IF envelope.sender = "none" THEN {"spiffe_id"} ELSE {})
    \cup (IF Depth(envelope) > 4 THEN {"depth"} ELSE {})
    \cup (IF signature = Unsigned THEN {"unsigned"} ELSE {})
    \cup (IF envelope.compartment = "CREDENTIAL_SURFACE" /\ Depth(envelope) > 0
          THEN {"credential"} ELSE {})

Amends ==
    /\ amendments < MaxAmendments /\ amendments' = amendments + 1
    /\ \/ \E g \in Goals : envelope' = [envelope EXCEPT !.goal = g]
       \/ \E d \in Delegations \cup {NoDelegation} :
             envelope' = [envelope EXCEPT !.delegation = d]
       \/ \E c \in Compartments : envelope' = [envelope EXCEPT !.compartment = c]
    /\ UNCHANGED <<signature, heard, attempts, carried, guardianAnswer, decision>>

Signs ==
    /\ signature' = SignedFields(envelope)
    /\ UNCHANGED <<envelope, heard, amendments, attempts, carried, guardianAnswer, decision>>

\* What a receiver makes of the depth it is told.  REST drops a header that is "0".
A2ADepth(e) == Depth(e)
ACSDepth(e) == Depth(e)
RESTHeaders(e) == IF Depth(e) = 0 THEN {} ELSE {Depth(e)}
RESTDepth(e) == IF RESTHeaders(e) = {} THEN 0 ELSE CHOOSE d \in RESTHeaders(e) : TRUE

DepthOver(protocol, e) ==
    CASE protocol = "a2a" -> A2ADepth(e)
      [] protocol = "acs" -> ACSDepth(e)
      [] protocol = "rest" -> RESTDepth(e)

\* build_a2a_task, build_message_request, build_rest_request.  The compartment is not
\* told to a Guardian; the signature to nobody.
Bridges(protocol) ==
    /\ heard' = [protocol |-> protocol, goal |-> envelope.goal,
                 depth |-> DepthOver(protocol, envelope),
                 compartment |-> IF protocol = "acs" THEN "untold" ELSE envelope.compartment,
                 checked |-> Violations = {} /\ VerifySignature, signed |-> signature]
    /\ UNCHANGED <<envelope, signature, amendments, attempts, carried, guardianAnswer, decision>>

-----------------------------------------------------------------------------
\* CAELToolCall.__post_init__: the key is a hash of agent, tool and arguments.
IdempotencyKey(agent, arguments) == <<agent, "tool", arguments>>

MakesCall ==
    /\ Cardinality(attempts) < MaxAttempts
    /\ \E agent \in {"a1", "a2"}, g \in Goals, costed \in BOOLEAN,
          authorised \in BOOLEAN, d \in Depths :
          attempts' = attempts \cup
             {[number |-> Cardinality(attempts), agent |-> agent, arguments |-> g,
               key |-> IdempotencyKey(agent, g), costed |-> costed,
               authorised |-> authorised, depth |-> d]}
    /\ UNCHANGED <<envelope, signature, heard, amendments, carried, guardianAnswer, decision>>

\* to_dict() has None for a cost or a receipt that is missing, and get() of None raises.
MCPBuilds(call) == call.costed /\ call.authorised
OpenAIBuilds(call) == call.costed

Carries(protocol, call) ==
    /\ CASE protocol = "mcp" -> MCPBuilds(call)
         [] protocol = "openai" -> OpenAIBuilds(call)
         [] OTHER -> TRUE
    /\ carried' = [protocol |-> protocol, number |-> call.number, agent |-> call.agent,
                   arguments |-> call.arguments, depth |-> call.depth,
                   key |-> IF protocol \in {"mcp", "openai"} THEN call.key ELSE <<>>]
    /\ UNCHANGED <<envelope, signature, heard, amendments, attempts, guardianAnswer, decision>>

\* parse_verdict.
GuardianVerdict(a) ==
    CASE a = "error" -> [allowed |-> FALSE, decision |-> "deny"]
      [] a = "no decision" -> [allowed |-> FALSE, decision |-> "deny"]
      [] OTHER -> [allowed |-> a = "allow", decision |-> a]

GuardianAnswers ==
    /\ carried.protocol = "acs call"
    /\ guardianAnswer' \in {"allow", "deny", "modify", "error", "no decision"}
    /\ decision' = GuardianVerdict(guardianAnswer')
    /\ UNCHANGED <<envelope, signature, heard, amendments, attempts, carried>>

EnvelopeSteps ==
    Amends \/ Signs \/ \E protocol \in {"a2a", "acs", "rest"} : Bridges(protocol)

CallSteps ==
    \/ MakesCall \/ GuardianAnswers
    \/ \E protocol \in {"mcp", "openai", "acs call", "langchain"}, call \in attempts :
          Carries(protocol, call)

EnvelopeNext == EnvelopeSteps \/ CallSteps

EnvelopeSpec == EnvelopeInit /\ [][EnvelopeNext]_envelopeVars

-----------------------------------------------------------------------------
EnvelopeTypeOK ==
    /\ decision.allowed \in BOOLEAN /\ amendments \in 0..MaxAmendments
    /\ carried # NothingHeard => \E call \in attempts : call.number = carried.number

\* What was checked and verified when it went out is what was signed: amended later or
\* before, no receiver is told a goal or a depth the signature does not cover, nor more
\* than four delegations, nor given credentials by delegation.
\* (compute_content_hash 222-230, verify_signature 252-261, validate 263-286)
CheckedIsSigned ==
    heard # NothingHeard /\ heard.checked =>
        /\ heard.goal = heard.signed.goal
        /\ heard.depth = Depth(heard.signed) /\ heard.depth <= 4
        /\ heard.compartment = "CREDENTIAL_SURFACE" => heard.depth = 0

\* Attempts at the same call have the same idempotency key, whatever they cost and
\* whenever they are made, and other calls have others; tools are told the key of the
\* call they run.  (__post_init__, build_mcp_request, build_openai_tool_call)
RetriesShareKeys ==
    /\ \A c, d \in attempts :
          (c.key = d.key) <=> (c.agent = d.agent /\ c.arguments = d.arguments)
    /\ carried # NothingHeard /\ carried.key # <<>> =>
          \A c \in attempts :
             (c.key = carried.key)
                <=> (c.agent = carried.agent /\ c.arguments = carried.arguments)

\* Nothing but a Guardian's "allow" allows.  (parse_verdict)
AllowedByGuardian == decision.allowed => guardianAnswer = "allow"

EnvelopesHold ==
    EnvelopeTypeOK /\ CheckedIsSigned /\ RetriesShareKeys /\ AllowedByGuardian
=============================================================================
