------------------------------ MODULE McpServer ------------------------------
(***************************************************************************)
(* The MCP server (skills/mcp): its start, BearerAuthMiddleware and its    *)
(* token buckets, one for each tier and client address, and the tools it   *)
(* serves.  check() reads the clock before it takes the lock, and drops    *)
(* buckets that were idle.  A tool reads the tier from the context of its  *)
(* request; over stdio no middleware sets it.  A level counts 1/Window of  *)
(* a token, so that a second refills Limit.  Texts are the families of     *)
(* patterns they match; "other" is text no pattern matches.                *)
(***************************************************************************)
EXTENDS Integers, Sequences, FiniteSets

CONSTANTS
    Tokens, TokenTier,         \* TOKEN_MAP; "none" is a token it does not hold
    Addresses, Handlers,
    Window, FreeLimit, ProLimit,   \* _WINDOW_SECONDS, requests per window
    Stale, Cleanup,            \* _STALE_THRESHOLD, _CLEANUP_INTERVAL
    Lag,          \* seconds from a handler's look at the clock to the lock: none on the one
                  \* event loop of this server, some where handlers have threads of their own
    LastSecond,   \* bound
    Catalogue,    \* the controls of the JSON file, in its order
    Frameworks, FreeFrameworks,     \* FRAMEWORK_META, FREE_FRAMEWORKS
    FreeControls, ProControls,      \* control_limit of the two policies
    Resources,    \* RESOURCES: the tier each one requires
    ToolCalls,    \* the calls of tools that clients make
    Launches      \* the ways the server is launched

ASSUME McpAssumption ==
    /\ TokenTier \in [Tokens -> {"none", "free", "pro"}]
    /\ Window \in Nat \ {0} /\ FreeLimit \in Nat \ {0} /\ ProLimit \in Nat \ {0}
    /\ Stale \in Nat /\ Cleanup \in Nat /\ Lag \in Nat /\ LastSecond \in Nat
    /\ Window + 2 * Lag <= Stale + 1
    /\ FreeFrameworks \subseteq Frameworks /\ {"", "resource"} \cap Frameworks = {}
    /\ FreeControls \in Nat \ {0} /\ ProControls \in Nat
    /\ Len(Catalogue) \in 0 .. ProControls
    /\ \A m, n \in 1 .. Len(Catalogue) : m # n => Catalogue[m].id # Catalogue[n].id
    /\ "stdio" \notin Tokens
    /\ \A call \in ToolCalls :
           \/ call.tool \in {"lookup_control", "compliance_map", "code_review",
                            "agent_classify", "get_governance_resource"}
           \/ call.tool = "risk_score" /\ call.factor \in Int

VARIABLES
    second,
    buckets, lastCleanup,   \* _buckets, _last_cleanup
    checks,                 \* of each handler: the check() it is in
    served,                 \* history: when each key was granted
    promise,                \* history: when a refused key was told to come back
    denial,                 \* history: the last refusal
    launch, process,        \* how main() was called, and what it does
    contexts,               \* _tier_var, in the context of each handler's request
    returned                  \* what a tool has just returned

bucketVars == <<buckets, lastCleanup, served, promise, denial>>
mcpVars == <<second, bucketVars, checks, launch, process, contexts, returned>>

Keys == {"free", "pro"} \X Addresses
NoBucket == [last |-> -1]
NoCheck == [on |-> FALSE]
NotTold == -1
NoAnswer == [on |-> FALSE]

Limit(key) == IF key[1] = "pro" THEN ProLimit ELSE FreeLimit

McpTypeOK ==
    /\ second \in 0 .. LastSecond /\ lastCleanup \in 0 .. second
    /\ \A key \in Keys :
           \/ buckets[key] = NoBucket
           \/ /\ buckets[key].last \in 0 .. second
              /\ buckets[key].level \in -(Lag * Limit(key)) .. Limit(key) * Window
    /\ \A h \in Handlers : checks[h] = NoCheck \/ checks[h].token \in Tokens
    /\ process \in {"starting", "stdio", "http", "exited"}
    /\ contexts \in [Handlers -> {"free", "pro"}]

\* _verify_command_allowlist(): an empty sys.argv cannot be inspected and is allowed.
CommandAllowed(l) ==
    l.inspectable => l.executable /\ l.moduleOrEntry /\ l.installed \in {"unset", "inside"}

\* _verify_source_integrity(): opt-in, by MCP_SOURCE_HASH.
SourceIntact(l) == l.sourceHash \in {"unset", "same"}

\* verify_stdio_security() ends the process when one of them fails.
VerifiedForStdio(l) == CommandAllowed(l) /\ SourceIntact(l)

\* main(); over stdio the checks come first, and another transport ends it.
Starts ==
    /\ process = "starting"
    /\ process' = CASE launch.transport = "streamable-http" -> "http"
                     [] launch.transport = "stdio" /\ VerifiedForStdio(launch) -> "stdio"
                     [] OTHER -> "exited"
    /\ UNCHANGED <<second, bucketVars, checks, launch, contexts, returned>>

\* The tier is kept in one variable of the module.
SharedTier(h, tier) == [g \in Handlers |-> tier]

\* set_tier() in the context of one request.
SetTier(h, tier) == [contexts EXCEPT ![h] = tier]

\* dispatch() up to the lock of check(); another token is answered 401.
Authenticates(h, token, address) ==
    /\ process = "http"
    /\ checks[h] = NoCheck
    /\ TokenTier[token] # "none"
    /\ contexts' = SetTier(h, TokenTier[token])
    /\ checks' = [checks EXCEPT ![h] =
                      [on |-> TRUE, token |-> token,
                       key |-> <<TokenTier[token], address>>, now |-> second]]
    /\ returned' = NoAnswer
    /\ UNCHANGED <<second, bucketVars, launch, process>>

\* Buckets idle for a moment are dropped too.
CollectedEagerly(now) ==
    [key \in Keys |-> IF now - buckets[key].last > 0 THEN NoBucket ELSE buckets[key]]

\* _maybe_gc()
Collected(now) ==
    IF now - lastCleanup < Cleanup THEN buckets
    ELSE [key \in Keys |-> IF now - buckets[key].last > Stale THEN NoBucket ELSE buckets[key]]

\* The first request starts a bucket that is full but for its token.
Refilled(bucket, limit, now) ==
    IF bucket = NoBucket THEN limit * Window
    ELSE LET level == bucket.level + (now - bucket.last) * limit
         IN  IF level < limit * Window THEN level ELSE limit * Window

\* max(1, int((1.0 - tokens) / rate))
RetryAfter(level, limit) ==
    IF Window - level < limit THEN 1 ELSE (Window - level) \div limit

\* The rest of check(), under the lock: the request goes on to its tool, or ends with 429.
Checks(h) ==
    LET key == checks[h].key
        now == checks[h].now
        kept == Collected(now)
        level == Refilled(kept[key], Limit(key), now)
        granted == level >= Window
        pending == promise[key] # NotTold
    IN  /\ checks[h].on
        /\ checks' = [checks EXCEPT ![h] =
                          IF granted THEN [on |-> FALSE, token |-> @.token] ELSE NoCheck]
        /\ contexts' = IF granted THEN contexts ELSE [contexts EXCEPT ![h] = "free"]
        /\ lastCleanup' = IF now - lastCleanup < Cleanup THEN lastCleanup ELSE now
        /\ buckets' = [kept EXCEPT ![key] =
                           [last |-> now, level |-> IF granted THEN level - Window ELSE level]]
        /\ served' = IF granted THEN [served EXCEPT ![key] = Append(@, second)] ELSE served
        /\ promise' = [promise EXCEPT ![key] =
                           IF granted THEN NotTold
                           ELSE IF pending THEN @ ELSE now + RetryAfter(level, Limit(key))]
        /\ denial' = IF granted THEN denial
                     ELSE [on |-> TRUE, key |-> key, at |-> second,
                           early |-> ~pending \/ now < promise[key]]
        /\ returned' = NoAnswer
        /\ UNCHANGED <<second, launch, process>>

\* sanitize_output(): a pattern after the other replaces what it matches by the marker.
Redacted(text) ==
    IF text \subseteq {"other"} THEN text ELSE (text \cap {"other"}) \cup {"marker"}

\* ControlsDB.search(): the places of what is found; "" leaves a filter out.
Found(topic, framework) ==
    {n \in 1 .. Len(Catalogue) :
        /\ topic = "" \/ topic \in Catalogue[n].topics
        /\ framework = "" \/ framework \in Catalogue[n].frameworks}

\* apply_control_limit(): the first of what is found.
Limited(tier, found) ==
    LET limit == IF tier = "pro" THEN ProControls ELSE FreeControls
    IN  {n \in found : Cardinality({m \in found : m < n}) < limit}

\* gate_tool()
Gated(tier) == tier # "pro"

ControlsAt(places) == {Catalogue[n] : n \in places}
AllControls == ControlsAt(1 .. Len(Catalogue))
Listed(about, controls) ==
    {[about |-> about, name |-> c.id, text |-> Redacted(c.text)] : c \in controls}
Reply(gated, items, score) == [gated |-> gated, items |-> items, score |-> score]

\* control_lookup(): an id is answered for every tier.
LookedUp(tier, call) ==
    IF call.id # "" THEN {c \in AllControls : c.id = call.id}
    ELSE ControlsAt(Limited(tier, Found(call.topic, call.framework)))

\* The frameworks a caller may ask of, every one without framework_ids.
Available(tier, call) ==
    LET wanted == IF call.frameworks = {} THEN Frameworks ELSE call.frameworks
    IN  IF Gated(tier) THEN wanted \cap FreeFrameworks ELSE wanted

\* map_to_frameworks(): the topic narrows what is found, unless the requirement cites
\* an available framework or nothing would be left.
Mapped(tier, call) ==
    LET narrow(f) == Found(call.topic, f)
        cited == Available(tier, call) \cap call.cites # {}
        found(f) == IF cited \/ narrow(f) = {} THEN Found("", f) ELSE narrow(f)
    IN  UNION {Listed(f, ControlsAt(Limited(tier, found(f)))) : f \in Available(tier, call)}

\* review_code(): the selected controls, or those of a pillar and the selected CP ones.
Reviewed(pillar) ==
    {c \in AllControls :
        \/ c.selected /\ (pillar = "" \/ c.pillar \in {pillar, "CP"})
        \/ pillar # "" /\ c.pillar = pillar}

\* get_resource() and, for "", list_resources().
Retrieved(tier, name) ==
    {r \in DOMAIN Resources : name \in {"", r} /\ (Gated(tier) => Resources[r] = "free")}

\* calculate_risk_score(): the factors count for a pro caller, each clamped to 0 .. 10.
RiskScore(tier, call) ==
    LET clamped == IF call.factor < 0 THEN 0 ELSE IF call.factor > 10 THEN 10 ELSE call.factor
    IN  10 * call.cvss + (100 - call.pillarScore) + IF Gated(tier) THEN 0 ELSE clamped

\* _detect_tier(): signals are the tiers whose words the description or the tools hold.
DetectedAct(agent) ==
    CASE agent.spawns \/ 4 \in agent.signals -> 4
      [] ~agent.reviewed /\ (agent.unattended \/ agent.memory \/ 3 \in agent.signals) -> 3
      [] agent.reviewed /\ agent.tools -> 2
      [] OTHER -> IF 2 \in agent.signals /\ ~agent.unattended
                     /\ ~(agent.reviewed /\ ~agent.tools) THEN 2 ELSE 1

\* classify_agent(): what is mandatory, for ACT-3 and ACT-4 to a pro caller.
Classified(tier, act) ==
    IF Gated(tier) /\ act >= 3 THEN Reply(TRUE, {}, act)
    ELSE Reply(FALSE, Listed("", {c \in AllControls : act \in c.mandatory}), act)

\* What a tool returns to a caller of a tier.
ToolReply(tier, call) ==
    CASE call.tool = "lookup_control" -> Reply(FALSE, Listed("", LookedUp(tier, call)), 0)
      [] call.tool = "compliance_map" -> Reply(FALSE, Mapped(tier, call), 0)
      [] call.tool = "code_review" ->
             IF Gated(tier) THEN Reply(TRUE, {}, 0)
             ELSE Reply(FALSE, Listed("", Reviewed(call.pillar)), 0)
      [] call.tool = "agent_classify" -> Classified(tier, DetectedAct(call.agent))
      [] call.tool = "get_governance_resource" ->
             LET names == Retrieved(tier, call.name)
             IN  Reply(call.name # "" /\ names = {} /\ Gated(tier),
                       {[about |-> "resource", name |-> r, text |-> {}] : r \in names}, 0)
      [] call.tool = "risk_score" ->
             Reply(FALSE, {}, IF call.cvss \in 0 .. 10 /\ call.pillarScore \in 0 .. 100
                              THEN RiskScore(tier, call) ELSE 0)

\* call_next() of a granted request: the tool reads its tier from the context.
RunsTool(h, call) ==
    /\ checks[h] # NoCheck /\ ~checks[h].on
    /\ returned' = [on |-> TRUE, caller |-> checks[h].token, tier |-> contexts[h],
                  call |-> call, reply |-> ToolReply(contexts[h], call)]
    /\ checks' = [checks EXCEPT ![h] = NoCheck]
    /\ contexts' = [contexts EXCEPT ![h] = "free"]
    /\ UNCHANGED <<second, bucketVars, launch, process>>

\* A call over stdio: nothing sets the tier, which is the default of _tier_var.
RunsToolLocally(call) ==
    /\ process = "stdio"
    /\ returned' = [on |-> TRUE, caller |-> "stdio", tier |-> "free",
                  call |-> call, reply |-> ToolReply("free", call)]
    /\ UNCHANGED <<second, bucketVars, checks, launch, process, contexts>>

SecondPasses ==
    /\ second < LastSecond /\ process = "http"
    /\ \A h \in Handlers : checks[h].on => second < checks[h].now + Lag
    /\ second' = second + 1
    /\ returned' = NoAnswer
    /\ UNCHANGED <<bucketVars, checks, launch, process, contexts>>

McpInit ==
    /\ second = 0 /\ lastCleanup = 0
    /\ buckets = [key \in Keys |-> NoBucket]
    /\ checks = [h \in Handlers |-> NoCheck]
    /\ served = [key \in Keys |-> <<>>]
    /\ promise = [key \in Keys |-> NotTold]
    /\ denial = NoCheck
    /\ launch \in Launches /\ process = "starting"
    /\ contexts = [h \in Handlers |-> "free"] /\ returned = NoAnswer

McpNext ==
    \/ Starts
    \/ \E h \in Handlers, token \in Tokens, a \in Addresses : Authenticates(h, token, a)
    \/ \E h \in Handlers : Checks(h)
    \/ \E h \in Handlers, call \in ToolCalls : RunsTool(h, call)
    \/ \E call \in ToolCalls : RunsToolLocally(call)
    \/ SecondPasses

McpSpec == McpInit /\ [][McpNext]_mcpVars

-----------------------------------------------------------------------------
(* Properties *)

\* What a key is granted between any two moments is a full bucket and what the
\* time between them refills, whatever was dropped, restarted or out of order.
ServedBounded ==
    \A key \in Keys : LET s == served[key] IN
        \A m \in 1 .. Len(s) : \A n \in m .. Len(s) :
            (n - m + 1) * Window <= Limit(key) * (Window + s[n] - s[m] + Lag)

\* A key is refused only when, since some moment, it was granted all of a full
\* bucket and of the refill since, up to less than one token.
DeniedOnlyWhenSpent ==
    denial.on => LET s == served[denial.key]
                     limit == Limit(denial.key)
                 IN  \E m \in 1 .. Len(s) :
        (Len(s) - m + 2) * Window > limit * (Window + denial.at - s[m] - Lag)

\* A tool answers for the tier of the token its own request carried, whichever requests
\* were authenticated before it ran, and a local caller only after the checks passed.
TierOfItsOwn ==
    returned.on =>
        IF returned.caller = "stdio"
        THEN launch.transport = "stdio" /\ VerifiedForStdio(launch)
        ELSE returned.tier = TokenTier[returned.caller]

\* Whatever a free caller is told, a pro caller who asks the same is told too, with a
\* score that is no lower; and no text that matches a pattern leaves a tool.
FreeIsPartOfPro ==
    returned.on =>
        LET full == ToolReply("pro", returned.call)
        IN  /\ returned.reply.items \subseteq full.items
            /\ returned.reply.score <= full.score
            /\ ~full.gated
            /\ \A item \in full.items : item.text \subseteq {"other", "marker"}

\* What is sold is not given away: beyond single controls a free caller sees at most
\* FreeControls of each list, free frameworks and free resources.
PaidIsKept ==
    returned.on /\ returned.tier = "free" =>
        LET items == returned.reply.items IN
        /\ \A item \in items : item.about = "resource" => Resources[item.name] = "free"
        /\ returned.call.tool = "compliance_map" =>
               \A item \in items : item.about \in FreeFrameworks
        /\ returned.call.tool \in {"lookup_control", "compliance_map"} =>
               \A f \in Frameworks \cup {""} :
                   Cardinality({item \in items : item.about = f}) <= FreeControls

ToolsKeepTiers == TierOfItsOwn /\ FreeIsPartOfPro /\ PaidIsKept

\* A client that waits as long as it was told, and nobody else uses its key
\* meanwhile, is not refused again (auth.py: "Retry after N seconds").
RetryAfterHonoured == denial.on => denial.early
=============================================================================
