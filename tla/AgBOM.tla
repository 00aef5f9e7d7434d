-------------------------------- MODULE AgBOM --------------------------------
(***************************************************************************)
(* AgBOMManager of nexus_sdk/agbom.py.  A version lists the component      *)
(* objects themselves, not copies: whoever holds one can still change it.  *)
(* A hash is modelled by what it was computed over.                        *)
(***************************************************************************)
EXTENDS Integers, Sequences, FiniteSets

CONSTANTS
    Parts,          \* component objects; bom_ref names the object
    Contents,       \* what an object can say of its component
    MaxVersions     \* bound

ASSUME BomAssumption == MaxVersions \in Nat

VARIABLES
    content,      \* what each object says now
    registered,   \* _components
    history,      \* _version_history
    altered       \* history: objects changed after a version listed them

bomVars == <<content, registered, history, altered>>

Genesis == <<>>

BomTypeOK ==
    /\ content \in [Parts -> Contents]
    /\ registered \subseteq Parts
    /\ Len(history) <= MaxVersions
    /\ \A n \in 1 .. Len(history) : history[n].parts \subseteq Parts

\* What a digest of the listed components covers now.
Digest(parts) == {<<p, content[p]>> : p \in parts}

VersionHash(parent, parts) == Append(parent, Digest(parts))

\* _snapshot(): the whole set, chained to the hash of the version before.
Snapshot(parts) ==
    LET parent == IF history = <<>> THEN Genesis ELSE history[Len(history)].hash
    IN  [parts |-> parts, parent |-> parent, hash |-> VersionHash(parent, parts)]

\* add_component() with a new object, or again with one that is registered;
\* discover_mcp_server() adds a new object.
AddComponent(p) ==
    /\ Len(history) < MaxVersions
    /\ registered' = registered \union {p}
    /\ history' = Append(history, Snapshot(registered \union {p}))
    /\ UNCHANGED <<content, altered>>

RemoveComponent(p) ==
    /\ Len(history) < MaxVersions
    /\ p \in registered
    /\ registered' = registered \ {p}
    /\ history' = Append(history, Snapshot(registered \ {p}))
    /\ UNCHANGED <<content, altered>>

\* A holder of the object, from get_mcp_servers() or its own, changes it.
Alters(p) ==
    /\ \E c \in Contents \ {content[p]} : content' = [content EXCEPT ![p] = c]
    /\ altered' = IF \E n \in 1 .. Len(history) : p \in history[n].parts
                  THEN altered \union {p} ELSE altered
    /\ UNCHANGED <<registered, history>>

\* verify_chain_integrity(): the stored hashes, not what they cover.
VerifyChainIntegrity ==
    \A n \in 1 .. Len(history) :
        history[n].parent = IF n = 1 THEN Genesis ELSE history[n - 1].hash

BomInit ==
    /\ content \in [Parts -> Contents]
    /\ registered = {} /\ history = <<>> /\ altered = {}

BomNext == \E p \in Parts : AddComponent(p) \/ RemoveComponent(p) \/ Alters(p)

BomSpec == BomInit /\ [][BomNext]_bomVars

-----------------------------------------------------------------------------
(* Properties *)

\* The stored chain always verifies, and a version whose components nobody
\* altered since still says what was signed; consecutive versions differ by
\* the one component that was added or removed.
VersionsAsSigned ==
    /\ VerifyChainIntegrity
    /\ \A n \in 1 .. Len(history) : LET v == history[n] IN
           v.parts \cap altered = {} => v.hash = VersionHash(v.parent, v.parts)
    /\ \A n \in 1 .. Len(history) - 1 :
           LET gained == history[n + 1].parts \ history[n].parts
               dropped == history[n].parts \ history[n + 1].parts
           IN  Cardinality(gained \union dropped) <= 1
=============================================================================
