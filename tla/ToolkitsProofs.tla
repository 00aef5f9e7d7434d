--------------------------- MODULE ToolkitsProofs ---------------------------
(***************************************************************************)
(* The parts of MCToolkits, each proved about for all values of its        *)
(* constants, and then together: the Guardian, the inventory, the account  *)
(* and the envelopes of the NEXUS SDK; the proxy, the server, the wrapper  *)
(* and the assessor of the security toolkit; the adapters; the gateway and *)
(* the memory auditor of Hermes; the evaluator of the love equation.       *)
(***************************************************************************)
EXTENDS MCToolkits, Sums, SequenceTheorems

-----------------------------------------------------------------------------
(* The Guardian and the memory vaccine *)

GuardianInv == NexusTypeOK /\ DecisionsStand

\* Every verdict is one of the three decisions.
LEMMA VerdictKinds ==
  ASSUME NEW s, NEW word \in Replies, remote \in BOOLEAN
  PROVE  /\ ClientVerdict(s, word) \in Decisions
         /\ PolicyVerdict(s) \in {"allow", "deny"}
  BY Zenon DEF ClientVerdict, PolicyVerdict, Unavailable, Decisions, Replies

\* An allowance is the policy's, the remote Guardian's, or the fail mode's.
LEMMA AllowanceGiven ==
  ASSUME NEW s, NEW word \in Replies, remote \in BOOLEAN, ClientVerdict(s, word) = "allow"
  PROVE  \/ (IF remote /\ word # "not_asked" THEN word ELSE PolicyVerdict(s)) = "allow"
         \/ /\ (IF remote /\ word # "not_asked" THEN word ELSE PolicyVerdict(s)) = "no_reply"
            /\ failMode # "fail_closed"
  BY DEF ClientVerdict, Unavailable, Replies

\* What an evaluation does to the types and to AllowsWarranted.
LEMMA EvaluationFacts ==
  ASSUME NexusTypeOK, NEW s, NEW word \in Replies, Evaluates(s, word),
         UNCHANGED <<remote, failMode>>
  PROVE  /\ steps' = steps + 1 /\ steps' \in 0 .. MaxSteps /\ available' \in BOOLEAN
         /\ verdict'.decision \in Decisions /\ AllowsWarranted'
<1>1. /\ ClientVerdict(s, word) \in Decisions
      /\ verdict' = [decision |-> ClientVerdict(s, word),
                     says |-> IF remote /\ word # "not_asked" THEN word ELSE PolicyVerdict(s)]
  BY VerdictKinds DEF Evaluates, NexusTypeOK
<1>2. AllowsWarranted'
  <2> SUFFICES ASSUME ClientVerdict(s, word) = "allow"
               PROVE  \/ verdict'.says = "allow"
                      \/ verdict'.says = "no_reply" /\ failMode' # "fail_closed"
    BY <1>1 DEF AllowsWarranted
  <2> QED BY <1>1, AllowanceGiven DEF NexusTypeOK
<1>3. steps' = steps + 1 /\ steps' \in 0 .. MaxSteps /\ available' \in BOOLEAN
  BY NexusAssumption DEF Evaluates, Notices, NexusTypeOK, NexusAssumption
<1> QED BY <1>1, <1>2, <1>3

\* More drift is not rounded to less.
LEMMA RoundedGrows ==
  ASSUME NEW low \in Nat, NEW drift \in Nat, low < drift,
         GuardianThreshold < Rounded(low + 1)
  PROVE  GuardianThreshold < Rounded(drift)
<1>1. PICK a \in Nat : a = (low + 6) \div 10
  OBVIOUS
<1>2. PICK b \in Nat : b = (drift + 5) \div 10
  OBVIOUS
<1>3. 10 * a <= low + 6 /\ drift + 5 < 10 * b + 10
  BY <1>1, <1>2
<1>4. Rounded(low + 1) = 10 * a /\ Rounded(drift) = 10 * b
  BY <1>1, <1>2 DEF Rounded
<1>5. a <= b
  BY <1>3
<1> QED BY <1>4, <1>5 DEF GuardianThreshold

\* The local policy denies what the vaccine blocked, by its own rules.
LEMMA PolicyDeniesBlocked ==
  ASSUME NEW zone \in Zones, NEW mandate \in BOOLEAN, NEW drift \in Drifts,
         NEW ruling, ruling = Vaccine(zone, mandate, drift),
         NEW s, s = GuardianContext(zone, mandate, ruling),
         \/ ruling.result = "blocked_no_mandate"
         \/ ruling.result = "blocked_drift" /\ GuardianThreshold < Rounded(DriftThreshold + 1)
  PROVE  PolicyVerdict(s) = "deny"
<1>1. /\ s.agent = "good" /\ s.method = "memory" /\ s.zone = zone /\ zone # None
      /\ ruling.drift # NoDrift => s.drift = Rounded(ruling.drift)
      /\ (s.mandate = (mandate /\ ruling.result = "allowed"))
  BY DEF GuardianContext, Zones, None
<1>2. CASE ruling.result = "blocked_no_mandate"
  <2>1. zone = "permanent"
    BY <1>2 DEF Vaccine
  <2> QED BY <1>1, <1>2, <2>1 DEF PolicyVerdict, MemoryRules
<1>3. CASE ruling.result = "blocked_drift" /\ GuardianThreshold < Rounded(DriftThreshold + 1)
  <2>1. ruling.drift = drift /\ drift > DriftThreshold
    BY <1>3 DEF Vaccine
  <2>2. drift \in Nat /\ DriftThreshold \in Nat /\ DriftThreshold < drift /\ drift # NoDrift
    BY <2>1, NexusAssumption DEF NexusAssumption, NoDrift
  <2>3. GuardianThreshold < Rounded(drift)
    BY <1>3, <2>2, RoundedGrows
  <2>4. s.drift = Rounded(drift)
    BY <1>1, <2>1, <2>2
  <2> QED BY <1>1, <2>3, <2>4 DEF PolicyVerdict, MemoryRules, GuardianThreshold
<1> QED BY <1>2, <1>3

\* What both guards allow has drifted past neither, and has its mandate.
LEMMA AllowedIsVetted ==
  ASSUME remote \in BOOLEAN, NEW zone \in Zones, NEW mandate \in BOOLEAN, NEW drift \in Drifts,
         NEW word, NEW ruling, ruling = Vaccine(zone, mandate, drift),
         NEW s, s = GuardianContext(zone, mandate, ruling),
         ruling.result = "allowed", ClientVerdict(s, word) = "allow"
  PROVE  /\ zone # "session" => drift <= DriftThreshold
         /\ zone # "session" /\ ~remote => Rounded(drift) <= GuardianThreshold
         /\ zone = "permanent" => mandate
<1>1. /\ s.agent = "good" /\ s.method = "memory" /\ s.zone = zone /\ zone # None
      /\ ruling.drift # NoDrift => s.drift = Rounded(ruling.drift)
  BY DEF GuardianContext, Zones, None
<1>2. drift \in Nat /\ DriftThreshold \in Nat
  BY NexusAssumption DEF NexusAssumption
<1>3. /\ zone = "permanent" => mandate
      /\ zone # "session" => ~(drift > DriftThreshold) /\ ruling.drift = drift
  BY DEF Vaccine
<1>4. ASSUME ~remote, zone # "session" PROVE ~(Rounded(drift) > GuardianThreshold)
  <2>1. PolicyVerdict(s) = "allow"
    BY <1>4 DEF ClientVerdict
  <2>2. ~ MemoryRules(s)
    BY <2>1, <1>1 DEF PolicyVerdict
  <2>3. drift # NoDrift
    BY <1>2 DEF NoDrift
  <2> QED BY <2>2, <2>3, <1>1, <1>3, <1>4 DEF MemoryRules
<1>5. Rounded(drift) \in Int
  <2>1. PICK n \in Int : n = (drift + 5) \div 10
    BY <1>2
  <2> QED BY <2>1 DEF Rounded
<1> QED BY <1>2, <1>3, <1>4, <1>5 DEF GuardianThreshold

LEMMA GuardianStarts == NexusInit => GuardianInv
  BY NexusAssumption, EmptySeq
  DEF NexusInit, GuardianInv, NexusTypeOK, DecisionsStand, AllowsWarranted, ReceiptsTell,
      GuardianBacksVaccine, MemoryVetted, NexusAssumption, None, Decisions

LEMMA GuardianStep == GuardianInv /\ [NexusNext]_nexusVars => GuardianInv'
<1> SUFFICES ASSUME GuardianInv, [NexusNext]_nexusVars PROVE GuardianInv'
  OBVIOUS
<1> USE DEF GuardianInv, DecisionsStand
<1>1. ASSUME NEW s \in GatewaySteps, NEW word \in Replies, ToolCall(s, word)
      PROVE  GuardianInv'
  <2> DEFINE outcome == ClientVerdict(s, word)
             receipt == [outcome |-> outcome, class |-> EventClass(outcome)]
  <2>1. /\ Evaluates(s, word) /\ UNCHANGED <<remote, failMode, incidents, write>>
        /\ receipts' = Append(receipts, receipt) /\ answers' = Append(answers, outcome)
    BY <1>1 DEF ToolCall
  <2>2. outcome \in Decisions /\ receipt \in [outcome : Decisions, class : {"policy_violation", "api_activity"}]
    BY VerdictKinds DEF NexusTypeOK, EventClass
  <2>3. receipt.class = "policy_violation" <=> outcome = "deny"
    BY DEF EventClass
  <2> HIDE DEF outcome, receipt
  <2>4. /\ steps' = steps + 1 /\ steps' \in 0 .. MaxSteps /\ available' \in BOOLEAN
        /\ verdict'.decision \in Decisions /\ AllowsWarranted'
    BY <2>1, EvaluationFacts
  <2>5. NexusTypeOK'
    BY <2>1, <2>2, <2>4, AppendProperties DEF NexusTypeOK
  <2>6. ReceiptsTell'
    BY <2>1, <2>2, <2>3, AppendProperties DEF NexusTypeOK, ReceiptsTell
  <2> QED BY <2>1, <2>4, <2>5, <2>6 DEF GuardianBacksVaccine, MemoryVetted
<1>2. ASSUME NEW s, NEW word \in Replies, SdkStep(s, word)
      PROVE  GuardianInv'
  <2>1. /\ Evaluates(s, word)
        /\ UNCHANGED <<remote, failMode, answers, receipts, incidents, write>>
    BY <1>2 DEF SdkStep
  <2>2. /\ steps' = steps + 1 /\ steps' \in 0 .. MaxSteps /\ available' \in BOOLEAN
        /\ verdict'.decision \in Decisions /\ AllowsWarranted'
    BY <2>1, EvaluationFacts
  <2> QED BY <2>1, <2>2 DEF NexusTypeOK, ReceiptsTell, GuardianBacksVaccine, MemoryVetted
<1>3. ASSUME NEW zone \in Zones, NEW mandate \in BOOLEAN, NEW drift \in Drifts,
             NEW word \in Replies, MemoryWrite(zone, mandate, drift, word)
      PROVE  GuardianInv'
  <2> DEFINE ruling == Vaccine(zone, mandate, drift)
             s == GuardianContext(zone, mandate, ruling)
             outcome == ClientVerdict(s, word)
  <2>1. /\ Evaluates(s, word) /\ UNCHANGED <<remote, failMode, answers, receipts>>
        /\ incidents' \in {incidents, incidents + 1}
        /\ write' = [zone |-> zone, mandate |-> mandate, drift |-> drift,
                     vaccine |-> ruling.result, guardian |-> outcome,
                     done |-> ruling.result = "allowed" /\ outcome = "allow"]
    BY <1>3 DEF MemoryWrite
  <2>2. /\ steps' = steps + 1 /\ steps' \in 0 .. MaxSteps /\ available' \in BOOLEAN
        /\ verdict'.decision \in Decisions /\ AllowsWarranted'
    <3> HIDE DEF s
    <3> QED BY <2>1, EvaluationFacts
  <2>3. NexusTypeOK' /\ ReceiptsTell'
    BY <2>1, <2>2 DEF NexusTypeOK, ReceiptsTell
  <2>4. GuardianBacksVaccine'
    <3> SUFFICES ASSUME ~remote,
                        \/ ruling.result = "blocked_no_mandate"
                        \/ /\ ruling.result = "blocked_drift"
                           /\ GuardianThreshold < Rounded(DriftThreshold + 1)
                 PROVE  outcome = "deny"
      BY <2>1 DEF GuardianBacksVaccine
    <3>1. PolicyVerdict(s) = "deny"
      BY PolicyDeniesBlocked
    <3> QED BY <3>1 DEF ClientVerdict, NexusTypeOK
  <2>5. MemoryVetted'
    <3> SUFFICES ASSUME ruling.result = "allowed", outcome = "allow"
                 PROVE  /\ zone # "session" => drift <= DriftThreshold
                        /\ zone # "session" /\ ~remote => Rounded(drift) <= GuardianThreshold
                        /\ zone = "permanent" => mandate
      BY <2>1 DEF MemoryVetted
    <3> QED BY AllowedIsVetted DEF NexusTypeOK
  <2> QED BY <2>2, <2>3, <2>4, <2>5
<1>4. CASE Ping
  BY <1>4 DEF Ping, NexusTypeOK, AllowsWarranted, ReceiptsTell, GuardianBacksVaccine, MemoryVetted
<1>5. CASE UNCHANGED nexusVars
  BY <1>5 DEF nexusVars, NexusTypeOK, AllowsWarranted, ReceiptsTell, GuardianBacksVaccine, MemoryVetted
<1> QED BY <1>1, <1>2, <1>3, <1>4, <1>5 DEF NexusNext

\* What the SDK decides, stores and records agrees with what its guards said,
\* for any thresholds, scores and number of steps.  (guardian.py, memory.py)
THEOREM GuardedDecisions == NexusSpec => [](NexusTypeOK /\ DecisionsStand)
<1> QED BY GuardianStarts, GuardianStep, PTL DEF NexusSpec, GuardianInv

-----------------------------------------------------------------------------
(* The inventory *)

\* What the inventory holds is its last version; versions chain, and say what was
\* signed unless an object of theirs was altered.
Hashes == Seq(SUBSET (Parts \X Contents))
Version == [parts : SUBSET Parts, parent : Hashes, hash : Hashes]
Versions == Seq(Version)

LastParts == IF history = <<>> THEN {} ELSE history[Len(history)].parts
OneApart(older, newer) == Cardinality((newer \ older) \union (older \ newer)) <= 1

BomInv ==
    /\ BomTypeOK /\ history \in Versions
    /\ registered = LastParts
    /\ VersionsAsSigned

LEMMA OneApartOf ==
  ASSUME NEW older, NEW p, NEW newer, newer = older \union {p} \/ newer = older \ {p}
  PROVE  OneApart(older, newer)
<1>1. \/ (newer \ older) \union (older \ newer) = {p}
      \/ (newer \ older) \union (older \ newer) = {}
  OBVIOUS
<1>2. Cardinality({p}) = 1 /\ Cardinality({}) = 0
  BY FS_Singleton, FS_EmptySet
<1> QED BY <1>1, <1>2 DEF OneApart

LEMMA BomStarts == BomInit => BomInv
  BY EmptySeq, BomAssumption
  DEF BomAssumption, BomInit, BomInv, BomTypeOK, Versions, LastParts, VersionsAsSigned, VerifyChainIntegrity

\* A version more, of what is registered and one object added or removed.
LEMMA SnapshotKeeps ==
  ASSUME BomInv, Len(history) < MaxVersions, NEW p \in Parts, NEW parts,
         parts = registered \union {p} \/ parts = registered \ {p},
         registered' = parts, history' = Append(history, Snapshot(parts)),
         UNCHANGED <<content, altered>>
  PROVE  BomInv'
<1> DEFINE v == Snapshot(parts)
           n == Len(history)
<1> USE DEF BomInv
<1>1. parts \in SUBSET Parts
  BY DEF BomTypeOK
<1>2. /\ v.parts = parts /\ v.hash = VersionHash(v.parent, parts)
      /\ v.parent = IF n = 0 THEN Genesis ELSE history[n].hash
      /\ v = [parts |-> v.parts, parent |-> v.parent, hash |-> v.hash]
  BY DEF Snapshot, Versions
<1>3. v.parent \in Hashes
  <2>1. n \in Nat /\ (n # 0 => history[n].hash \in Hashes)
    <3>1. n \in Nat /\ (n # 0 => n \in 1 .. n)
      BY DEF Versions
    <3>2. n # 0 => history[n] \in Version
      BY <3>1, ElementOfSeq DEF Versions
    <3> QED BY <3>1, <3>2 DEF Version
  <2>2. Genesis \in Hashes
    BY EmptySeq DEF Hashes, Genesis
  <2> QED BY <1>2, <2>1, <2>2
<1>4. v.hash \in Hashes
  <2>1. Digest(parts) \in SUBSET (Parts \X Contents)
    BY <1>1 DEF Digest, BomTypeOK
  <2> QED BY <1>2, <1>3, <2>1, AppendProperties DEF VersionHash, Hashes
<1> HIDE DEF v
<1>5. v \in Version
  BY <1>1, <1>2, <1>3, <1>4 DEF Version
<1>6. /\ history' = Append(history, v) /\ Len(history') = n + 1 /\ n \in Nat
      /\ history' \in Versions /\ history'[n + 1] = v
      /\ \A k \in 1 .. n : history'[k] = history[k]
  BY <1>5, AppendProperties DEF Versions, v
<1>7. BomTypeOK'
  <2>1. Len(history') <= MaxVersions
    BY <1>6, BomAssumption DEF BomAssumption
  <2>2. ASSUME NEW k \in 1 .. n + 1 PROVE history'[k].parts \subseteq Parts
    BY <1>1, <1>2, <1>6 DEF BomTypeOK
  <2> QED BY <1>1, <1>6, <2>1, <2>2 DEF BomTypeOK
<1>8. registered' = LastParts'
  BY <1>2, <1>6 DEF LastParts
<1>9. VersionsAsSigned'
  <2>1. VerifyChainIntegrity'
    <3> SUFFICES ASSUME NEW k \in 1 .. n + 1
                 PROVE  history'[k].parent = IF k = 1 THEN Genesis ELSE history'[k - 1].hash
      BY <1>6 DEF VerifyChainIntegrity, Genesis
    <3>1. CASE k = n + 1
      BY <3>1, <1>2, <1>6
    <3>2. CASE k # n + 1
      BY <3>2, <1>6 DEF VersionsAsSigned, VerifyChainIntegrity
    <3> QED BY <3>1, <3>2
  <2>2. ASSUME NEW k \in 1 .. n + 1, history'[k].parts \cap altered' = {}
        PROVE  history'[k].hash = VersionHash(history'[k].parent, history'[k].parts)
    <3>1. CASE k = n + 1
      BY <3>1, <1>2, <1>6
    <3>2. CASE k # n + 1
      <4>1. k \in 1 .. n /\ history'[k] = history[k]
        BY <3>2, <1>6
      <4> QED BY <4>1, <2>2 DEF VersionsAsSigned
    <3> QED BY <3>1, <3>2
  <2>3. ASSUME NEW k \in 1 .. n
        PROVE  OneApart(history'[k].parts, history'[k + 1].parts)
    <3>1. CASE k = n
      <4>1. history'[k].parts = registered /\ history'[k + 1].parts = parts
        BY <3>1, <1>2, <1>6 DEF LastParts
      <4> QED BY <4>1, OneApartOf
    <3>2. CASE k # n
      BY <3>2, <1>6 DEF VersionsAsSigned, OneApart
    <3> QED BY <3>1, <3>2
  <2>4. ASSUME NEW parent, NEW listed
        PROVE  VersionHash(parent, listed)' = VersionHash(parent, listed)
    BY DEF VersionHash, Digest
  <2> HIDE DEF BomInv
  <2>5. Len(history') - 1 = n
    BY <1>6
  <2> QED BY <1>6, <2>1, <2>2, <2>3, <2>4, <2>5 DEF VersionsAsSigned, OneApart
<1> QED BY <1>6, <1>7, <1>8, <1>9

LEMMA AlterKeeps ==
  ASSUME BomInv, NEW p \in Parts, Alters(p)
  PROVE  BomInv'
<1> USE DEF BomInv
<1>1. /\ UNCHANGED <<registered, history>>
      /\ \A q \in Parts : q # p => content'[q] = content[q]
      /\ content' \in [Parts -> Contents]
  BY DEF Alters, BomTypeOK
<1>2. /\ altered \subseteq altered'
      /\ \A n \in 1 .. Len(history) : p \in history[n].parts => p \in altered'
  BY DEF Alters
<1>3. ASSUME NEW n \in 1 .. Len(history), history[n].parts \cap altered' = {}
      PROVE  history[n].hash = VersionHash(history[n].parent, history[n].parts)'
  <2>1. p \notin history[n].parts /\ history[n].parts \subseteq Parts
    BY <1>2, <1>3 DEF BomTypeOK
  <2>2. Digest(history[n].parts)' = Digest(history[n].parts)
    BY <1>1, <2>1 DEF Digest
  <2>3. history[n].hash = VersionHash(history[n].parent, history[n].parts)
    BY <1>2, <1>3 DEF VersionsAsSigned
  <2> QED BY <1>1, <2>2, <2>3 DEF VersionHash
<1>4. VersionsAsSigned'
  BY <1>1, <1>3 DEF VersionsAsSigned, VerifyChainIntegrity
<1> QED BY <1>1, <1>4 DEF BomTypeOK, Versions, LastParts, Hashes

LEMMA BomStep == BomInv /\ [BomNext]_bomVars => BomInv'
<1> SUFFICES ASSUME BomInv, [BomNext]_bomVars PROVE BomInv'
  OBVIOUS
<1>1. ASSUME NEW p \in Parts, AddComponent(p) PROVE BomInv'
  BY <1>1, SnapshotKeeps DEF AddComponent
<1>2. ASSUME NEW p \in Parts, RemoveComponent(p) PROVE BomInv'
  BY <1>2, SnapshotKeeps DEF RemoveComponent
<1>3. ASSUME NEW p \in Parts, Alters(p) PROVE BomInv'
  BY <1>3, AlterKeeps
<1>4. CASE UNCHANGED bomVars
  BY <1>4
  DEF bomVars, BomInv, BomTypeOK, Versions, LastParts, Hashes, VersionsAsSigned,
      VerifyChainIntegrity, VersionHash, Digest
<1> QED BY <1>1, <1>2, <1>3, <1>4 DEF BomNext

\* The chain of versions verifies, each says what was signed until an object of
\* its own is altered, and consecutive ones differ by one component at most, for
\* any objects, contents and number of versions.  (agbom.py)
THEOREM InventoryAsSigned == BomSpec => [](BomTypeOK /\ VersionsAsSigned)
<1>1. BomInv => BomTypeOK /\ VersionsAsSigned
  BY DEF BomInv
<1> QED BY <1>1, BomStarts, BomStep, PTL DEF BomSpec

-----------------------------------------------------------------------------
(* The accounts *)

Total(f) == SumFcn(f)[Accounts]
Amount(P) == [t \in P |-> t.amount]
Moving(P) == SumFcn(Amount(P))[P]

\* The sums of the model are those of Sums.
LEMMA FunctionsAddUp ==
  ASSUME NEW S, NEW f \in [S -> Int]
  PROVE  MapThenSumSet(LAMBDA a : f[a], S) = SumFcn(f)[S]
<1>1. DOMAIN f = S
  OBVIOUS
<1> QED BY <1>1, Zenon DEF MapThenSumSet, MapThenFoldSet, SumFcn, IsSum, SumStep, AllBut, Chosen

LEMMA TransfersAddUp ==
  ASSUME NEW P, IsFiniteSet(P), \A t \in P : t.amount \in Int
  PROVE  MapThenSumSet(LAMBDA t : t.amount, P) = Moving(P)
<1> DEFINE f == Amount(P)
           Is(g) == g = [s \in SUBSET P |-> IF s = {} THEN 0
                              ELSE (CHOOSE x \in s : TRUE).amount + g[s \ {CHOOSE x \in s : TRUE}]]
           G == CHOOSE g : Is(g)
<1>1. MapThenSumSet(LAMBDA t : t.amount, P) = G[P]
  BY Zenon DEF MapThenSumSet, MapThenFoldSet
<1>2. DOMAIN f = P /\ \A t \in P : f[t] = t.amount /\ f[t] \in Int
  BY DEF Amount
<1>3. ASSUME NEW g PROVE Is(g) <=> IsSum(g, f, P)
  <2>1. ASSUME NEW s \in SUBSET P
        PROVE  (IF s = {} THEN 0
                ELSE (CHOOSE x \in s : TRUE).amount + g[s \ {CHOOSE x \in s : TRUE}])
               = SumStep(g, f, s)
    <3>1. CASE s = {} BY <3>1 DEF SumStep
    <3>2. CASE s # {}
      <4>1. (CHOOSE x \in s : TRUE) \in P
        BY <3>2
      <4>2. f[CHOOSE x \in s : TRUE] = (CHOOSE x \in s : TRUE).amount
        BY <4>1, <1>2
      <4> QED BY <4>2, <3>2 DEF SumStep, AllBut, Chosen
    <3> QED BY <3>1, <3>2
  <2> QED BY <2>1 DEF IsSum
<1> HIDE DEF f, Is
<1>4. IsSum(SumFcn(f), f, P)
  BY <1>2, SumDefined
<1>5. Is(G)
  BY <1>3, <1>4
<1>6. IsSum(G, f, P)
  BY <1>3, <1>5
<1>7. G[P] = SumFcn(f)[P]
  BY <1>2, <1>6, SumUnique
<1> QED BY <1>1, <1>7 DEF Moving, f

\* An account gains or loses.
LEMMA TotalAdds ==
  ASSUME NEW f \in [Accounts -> Int], NEW g \in [Accounts -> Int], NEW a \in Accounts,
         \A b \in Accounts : b # a => g[b] = f[b]
  PROVE  Total(g) = Total(f) + (g[a] - f[a])
<1>1. /\ DOMAIN f = Accounts /\ DOMAIN g = Accounts /\ IsFiniteSet(Accounts)
      /\ \A b \in Accounts : f[b] \in Int /\ g[b] \in Int
  BY JouleAssumption DEF JouleAssumption
<1>2. SumFcn(g)[Accounts] = SumFcn(f)[Accounts] + IF a \in Accounts THEN g[a] - f[a] ELSE 0
  BY <1>1, SumChanges
<1> QED BY <1>2 DEF Total

\* A transfer sets out or arrives.
LEMMA MovingAdds ==
  ASSUME NEW P, IsFiniteSet(P), \A x \in P : x.amount \in Int, NEW t \in P
  PROVE  /\ Moving(P) = Moving(P \ {t}) + t.amount
         /\ Moving(P) \in Int /\ Moving(P \ {t}) \in Int
<1> DEFINE f == Amount(P)
           Q == P \ {t}
           g == Amount(Q)
<1>1. /\ DOMAIN f = P /\ \A x \in P : f[x] = x.amount /\ f[x] \in Int
      /\ DOMAIN g = Q /\ \A x \in Q : g[x] = x.amount /\ g[x] \in Int
      /\ Q \in SUBSET P
  BY DEF Amount
<1>2. IsFiniteSet(Q)
  BY FS_Subset
<1> HIDE DEF f, g
<1>3. SumFcn(f)[P] = f[t] + SumFcn(f)[Q]
  BY <1>1, SumSplits
<1>4. SumFcn(f)[Q] = SumFcn(g)[Q]
  <2> HIDE DEF Q
  <2> QED BY <1>1, <1>2, SumAgrees
<1>5. SumFcn(f)[P] \in Int /\ SumFcn(f)[Q] \in Int
  BY <1>1, SumInteger
<1> QED BY <1>1, <1>3, <1>4, <1>5 DEF Moving, f, g

\* Transfers under way are told apart by their number, and no work is lost.
Balanced == Total(balance) + Moving(pending) = Total(opening) + wages - Total(spent)

JouleInv ==
    /\ JouleTypeOK /\ OverdraftAnnounced
    /\ opening \in [Accounts -> Int] /\ wages \in Int /\ accountOps \in Nat
    /\ IsFiniteSet(pending)
    /\ \A t \in pending : t.to \in Accounts /\ t.amount \in Nat /\ t.id \in Nat /\ t.id < accountOps
    /\ Balanced

LEMMA BalancedIsConserved == JouleInv => (Balanced <=> WorkConserved)
<1> SUFFICES ASSUME JouleInv PROVE Balanced <=> WorkConserved
  OBVIOUS
<1>1. /\ MapThenSumSet(LAMBDA a : balance[a], Accounts) = Total(balance)
      /\ MapThenSumSet(LAMBDA a : opening[a], Accounts) = Total(opening)
      /\ MapThenSumSet(LAMBDA a : spent[a], Accounts) = Total(spent)
  <2>1. balance \in [Accounts -> Int] /\ opening \in [Accounts -> Int] /\ spent \in [Accounts -> Int]
    BY DEF JouleInv, JouleTypeOK
  <2> QED BY <2>1, FunctionsAddUp DEF Total
<1>2. MapThenSumSet(LAMBDA t : t.amount, pending) = Moving(pending)
  BY TransfersAddUp DEF JouleInv
<1> QED BY <1>1, <1>2 DEF Balanced, WorkConserved

LEMMA JouleStarts == JouleInit => JouleInv
<1> SUFFICES ASSUME JouleInit PROVE JouleInv
  OBVIOUS
<1> USE JouleAssumption DEF JouleAssumption
<1>0. Amounts \subseteq Nat
  OBVIOUS
<1>1. /\ JouleTypeOK /\ OverdraftAnnounced
      /\ opening \in [Accounts -> Int] /\ wages = 0 /\ accountOps \in Nat
      /\ pending = {} /\ balance = opening /\ spent = [a \in Accounts |-> 0]
  <2>1. opening \in [Accounts -> Nat]
    <3>1. opening \in [Accounts -> {0} \union Amounts] /\ {0} \union Amounts \subseteq Nat
      BY <1>0 DEF JouleInit
    <3> QED BY <3>1
  <2> QED BY <2>1 DEF JouleInit, JouleTypeOK, OverdraftAnnounced
<1>2. IsFiniteSet(pending)
  BY <1>1, FS_EmptySet
<1>3. Moving(pending) = 0
  <2>1. DOMAIN Amount(pending) = {} /\ {} \in SUBSET DOMAIN Amount(pending)
    BY <1>1 DEF Amount
  <2>2. IsFiniteSet(DOMAIN Amount(pending))
    BY <2>1, FS_EmptySet
  <2> QED BY <1>1, <2>1, <2>2, SumOfZeros DEF Moving
<1>4. Total(spent) = 0
  BY <1>1, SumOfZeros DEF Total
<1>5. Total(opening) \in Int
  BY <1>1, SumInteger DEF Total
<1> QED BY <1>1, <1>2, <1>3, <1>4, <1>5 DEF JouleInv, Balanced

LEMMA JouleStep == JouleInv /\ [JouleNext]_jouleVars => JouleInv'
<1> SUFFICES ASSUME JouleInv, [JouleNext]_jouleVars PROVE JouleInv'
  OBVIOUS
<1> USE JouleAssumption DEF JouleAssumption
<1>0. /\ balance \in [Accounts -> Int] /\ opening \in [Accounts -> Int]
      /\ earned \in [Accounts -> Nat] /\ spent \in [Accounts -> Nat]
      /\ spent \in [Accounts -> Int] /\ wages \in Int /\ accountOps \in Nat
      /\ answer \in [Accounts -> {"OK", "NEGATIVE_BALANCE", "EFFICIENCY_BELOW_FLOOR"}]
      /\ IsFiniteSet(pending) /\ IsFiniteSet(Accounts)
      /\ \A t \in pending : t.to \in Accounts /\ t.amount \in Nat /\ t.id \in Nat /\ t.id < accountOps
  BY DEF JouleInv, JouleTypeOK
<1>00. /\ Total(balance) \in Int /\ Total(opening) \in Int /\ Total(spent) \in Int
       /\ Moving(pending) \in Int
  <2>1. DOMAIN Amount(pending) = pending /\ \A t \in pending : Amount(pending)[t] \in Int
    BY <1>0 DEF Amount
  <2> QED BY <1>0, <2>1, SumInteger DEF Total, Moving
<1>1. ASSUME NEW a \in Accounts, PayPeriodWage(a) PROVE JouleInv'
  <2>1. /\ balance' = [balance EXCEPT ![a] = @ + BaseRate]
        /\ earned' = [earned EXCEPT ![a] = @ + BaseRate]
        /\ wages' = wages + BaseRate /\ accountOps' = accountOps + 1
        /\ UNCHANGED <<spent, pending, answer, opening>>
    BY <1>1 DEF PayPeriodWage, Counted, Credit
  <2>2. Total(balance') = Total(balance) + (balance'[a] - balance[a])
    <3>1. balance' \in [Accounts -> Int] /\ \A b \in Accounts : b # a => balance'[b] = balance[b]
      BY <1>0, <2>1
    <3> QED BY <1>0, <3>1, TotalAdds
  <2>3. Balanced'
    BY <1>0, <1>00, <2>1, <2>2 DEF JouleInv, Balanced, Total
  <2>4. JouleTypeOK' /\ OverdraftAnnounced'
    BY <1>0, <2>1 DEF JouleInv, JouleTypeOK, OverdraftAnnounced
  <2> QED BY <1>0, <2>1, <2>3, <2>4 DEF JouleInv
<1>2. ASSUME NEW a \in Accounts, NEW amount \in Amounts, Debit(a, amount) PROVE JouleInv'
  <2>1. /\ balance' = [balance EXCEPT ![a] = @ - amount]
        /\ spent' = [spent EXCEPT ![a] = @ + amount]
        /\ accountOps' = accountOps + 1
        /\ answer' = [answer EXCEPT ![a] = Verdict(a, amount)]
        /\ UNCHANGED <<earned, pending, opening, wages>>
        /\ amount \in Nat
    BY <1>2 DEF Debit, Counted
  <2>2. /\ Total(balance') = Total(balance) + (balance'[a] - balance[a])
        /\ Total(spent') = Total(spent) + (spent'[a] - spent[a])
    <3>1. /\ balance' \in [Accounts -> Int] /\ \A b \in Accounts : b # a => balance'[b] = balance[b]
          /\ spent' \in [Accounts -> Int] /\ \A b \in Accounts : b # a => spent'[b] = spent[b]
      BY <1>0, <2>1
    <3> QED BY <1>0, <3>1, TotalAdds
  <2>3. Balanced'
    BY <1>0, <1>00, <2>1, <2>2 DEF JouleInv, Balanced, Total
  <2>4. Verdict(a, amount) \in {"OK", "NEGATIVE_BALANCE", "EFFICIENCY_BELOW_FLOOR"}
    BY DEF Verdict
  <2>5. BreakOnNegative /\ balance[a] - amount < 0 => Verdict(a, amount) = "NEGATIVE_BALANCE"
    BY DEF Verdict
  <2>6. JouleTypeOK' /\ OverdraftAnnounced'
    BY <1>0, <2>1, <2>4, <2>5 DEF JouleInv, JouleTypeOK, OverdraftAnnounced
  <2> QED BY <1>0, <2>1, <2>3, <2>6 DEF JouleInv
<1>3. ASSUME NEW a \in Accounts, NEW b \in Accounts, NEW amount \in Amounts,
             TransferTo(a, b, amount)
      PROVE  JouleInv'
  <2> DEFINE t == [to |-> b, amount |-> amount, id |-> accountOps]
  <2>1. /\ balance' = [balance EXCEPT ![a] = @ - amount]
        /\ pending' = pending \union {t} /\ accountOps' = accountOps + 1
        /\ UNCHANGED <<earned, spent, answer, opening, wages>>
        /\ amount \in Nat /\ amount <= balance[a]
    BY <1>3 DEF TransferTo, Counted
  <2>2. t.to \in Accounts /\ t.amount = amount /\ t.id = accountOps /\ t.id \in Nat
    BY <1>0
  <2> HIDE DEF t
  <2>3. t \notin pending /\ IsFiniteSet(pending') /\ pending' \ {t} = pending /\ t \in pending'
    <3>1. t \notin pending
      BY <1>0, <2>2
    <3> QED BY <1>0, <2>1, <3>1, FS_AddElement
  <2>4. \A x \in pending' : x.to \in Accounts /\ x.amount \in Nat /\ x.id \in Nat /\ x.id < accountOps'
    BY <1>0, <2>1, <2>2
  <2>5. Total(balance') = Total(balance) + (balance'[a] - balance[a])
    <3>1. balance' \in [Accounts -> Int] /\ \A c \in Accounts : c # a => balance'[c] = balance[c]
      BY <1>0, <2>1
    <3> QED BY <1>0, <3>1, TotalAdds
  <2>6. Moving(pending') = Moving(pending) + amount
    <3>1. \A x \in pending' : x.amount \in Int
      BY <2>4
    <3> QED BY <2>2, <2>3, <3>1, MovingAdds
  <2>7. Balanced'
    BY <1>0, <1>00, <2>1, <2>5, <2>6 DEF JouleInv, Balanced, Total
  <2>8. JouleTypeOK' /\ OverdraftAnnounced'
    BY <1>0, <2>1 DEF JouleInv, JouleTypeOK, OverdraftAnnounced
  <2> QED BY <1>0, <2>1, <2>3, <2>4, <2>7, <2>8 DEF JouleInv
<1>4. ASSUME NEW t \in pending, ReceivesTransfer(t) PROVE JouleInv'
  <2>1. /\ balance' = [balance EXCEPT ![t.to] = @ + t.amount]
        /\ earned' = [earned EXCEPT ![t.to] = @ + t.amount]
        /\ pending' = pending \ {t}
        /\ UNCHANGED <<spent, answer, opening, wages, accountOps>>
        /\ t.to \in Accounts /\ t.amount \in Nat
    BY <1>0, <1>4 DEF ReceivesTransfer, Credit
  <2>2. Total(balance') = Total(balance) + (balance'[t.to] - balance[t.to])
    <3>1. /\ balance' \in [Accounts -> Int] /\ t.to \in Accounts
          /\ \A c \in Accounts : c # t.to => balance'[c] = balance[c]
      BY <1>0, <2>1
    <3> QED BY <1>0, <3>1, TotalAdds
  <2>3. Moving(pending) = Moving(pending') + t.amount /\ Moving(pending') \in Int
    BY <1>0, <2>1, MovingAdds
  <2>4. Balanced'
    BY <1>0, <1>00, <2>1, <2>2, <2>3 DEF JouleInv, Balanced, Total
  <2>5. JouleTypeOK' /\ OverdraftAnnounced'
    BY <1>0, <2>1 DEF JouleInv, JouleTypeOK, OverdraftAnnounced
  <2>6. IsFiniteSet(pending')
    BY <1>0, <2>1, FS_Subset
  <2> QED BY <1>0, <2>1, <2>4, <2>5, <2>6 DEF JouleInv
<1>5. CASE UNCHANGED jouleVars
  BY <1>5 DEF jouleVars, JouleInv, JouleTypeOK, OverdraftAnnounced, Balanced, Total
<1> QED BY <1>1, <1>2, <1>3, <1>4, <1>5 DEF JouleNext

\* Nobody overdraws unannounced, and work is neither made nor lost, for any
\* accounts, rates, amounts and number of operations.  (memory.py, JouleWorkAccount)
THEOREM WorkAccounted == JouleSpec => [](JouleTypeOK /\ OverdraftAnnounced /\ WorkConserved)
<1>1. JouleInv => JouleTypeOK /\ OverdraftAnnounced /\ WorkConserved
  BY BalancedIsConserved DEF JouleInv
<1> QED BY <1>1, JouleStarts, JouleStep, PTL DEF JouleSpec

-----------------------------------------------------------------------------
(* Envelopes and calls *)

AnyEnvelope ==
    [goal : Goals, delegation : Delegations \cup {NoDelegation},
     sender : {"spiffe", "none"}, compartment : Compartments]

\* A call carries the key of its agent and arguments, wherever it is carried.
EnvelopeInv ==
    /\ EnvelopesHold /\ envelope \in AnyEnvelope
    /\ \A c \in attempts : c.key = IdempotencyKey(c.agent, c.arguments)
    /\ carried # NothingHeard /\ carried.key # <<>>
         => carried.key = IdempotencyKey(carried.agent, carried.arguments)

\* Keys tell calls apart by agent and arguments.
LEMMA KeysTell ==
  ASSUME NEW a, NEW g, NEW b, NEW h
  PROVE  /\ (IdempotencyKey(a, g) = IdempotencyKey(b, h)) <=> (a = b /\ g = h)
         /\ IdempotencyKey(a, g) # <<>>
  BY DEF IdempotencyKey

LEMMA SameKeys ==
  ASSUME NEW c, NEW d, c.key = IdempotencyKey(c.agent, c.arguments),
         d.key = IdempotencyKey(d.agent, d.arguments)
  PROVE  (c.key = d.key) <=> (c.agent = d.agent /\ c.arguments = d.arguments)
  BY KeysTell

\* A receiver reads the depth that was signed, over any bridge.
LEMMA DepthTold ==
  ASSUME NEW protocol \in {"a2a", "acs", "rest"}, NEW e
  PROVE  DepthOver(protocol, e) = Depth(e)
<1>1. RESTDepth(e) = Depth(e)
  <2>1. CASE Depth(e) = 0
    BY <2>1 DEF RESTDepth, RESTHeaders
  <2>2. CASE Depth(e) # 0
    <3>1. RESTHeaders(e) = {Depth(e)}
      BY <2>2 DEF RESTHeaders
    <3> QED BY <3>1 DEF RESTDepth
  <2> QED BY <2>1, <2>2
<1> QED BY <1>1 DEF DepthOver, A2ADepth, ACSDepth

LEMMA DepthIsNumber == ASSUME NEW e \in AnyEnvelope PROVE Depth(e) \in Nat
  BY EnvelopeAssumption DEF EnvelopeAssumption, AnyEnvelope, Depth, Delegations

LEMMA BridgesTell ==
  ASSUME envelope \in AnyEnvelope, NEW protocol \in {"a2a", "acs", "rest"}, Bridges(protocol)
  PROVE  CheckedIsSigned'
<1> DEFINE n == Depth(envelope)
<1>1. /\ heard'.goal = envelope.goal /\ heard'.depth = DepthOver(protocol, envelope)
      /\ heard'.compartment \in {"untold", envelope.compartment}
      /\ heard'.signed = signature
      /\ heard'.checked = (Violations = {} /\ VerifySignature)
  BY DEF Bridges
<1>2. heard'.depth = n /\ n \in Nat
  BY <1>1, DepthTold, DepthIsNumber
<1> SUFFICES ASSUME Violations = {}, VerifySignature
             PROVE  /\ heard'.goal = heard'.signed.goal
                    /\ heard'.depth = Depth(heard'.signed) /\ heard'.depth <= 4
                    /\ heard'.compartment = "CREDENTIAL_SURFACE" => heard'.depth = 0
  BY <1>1 DEF CheckedIsSigned
<1>3. signature.goal = envelope.goal /\ signature.delegation = envelope.delegation
  BY DEF VerifySignature, SignedFields
<1>4. Depth(signature) = n
  BY <1>3 DEF Depth
<1>5. ~(n > 4) /\ ~(envelope.compartment = "CREDENTIAL_SURFACE" /\ n > 0)
  BY DEF Violations
<1> HIDE DEF n
<1> QED BY <1>1, <1>2, <1>3, <1>4, <1>5

LEMMA EnvelopeStarts == EnvelopeInit => EnvelopeInv
<1> SUFFICES ASSUME EnvelopeInit PROVE EnvelopeInv
  OBVIOUS
<1>1. /\ attempts = {} /\ carried = NothingHeard /\ heard = NothingHeard /\ amendments = 0
      /\ decision.allowed = FALSE /\ envelope \in AnyEnvelope
  BY DEF EnvelopeInit, AnyEnvelope
<1>2. EnvelopeTypeOK
  <2>1. decision.allowed \in BOOLEAN
    BY <1>1, Zenon
  <2> QED BY <1>1, <2>1, EnvelopeAssumption DEF EnvelopeAssumption, EnvelopeTypeOK
<1>3. CheckedIsSigned /\ RetriesShareKeys /\ AllowedByGuardian
  BY <1>1 DEF CheckedIsSigned, RetriesShareKeys, AllowedByGuardian
<1> QED BY <1>1, <1>2, <1>3 DEF EnvelopeInv, EnvelopesHold

LEMMA EnvelopeStep == EnvelopeInv /\ [EnvelopeNext]_envelopeVars => EnvelopeInv'
<1> SUFFICES ASSUME EnvelopeInv, [EnvelopeNext]_envelopeVars PROVE EnvelopeInv'
  OBVIOUS
<1> USE EnvelopeAssumption DEF EnvelopeAssumption, EnvelopeInv, EnvelopesHold
<1>1. CASE Amends
  <2>1. /\ amendments' \in 0 .. MaxAmendments
        /\ UNCHANGED <<signature, heard, attempts, carried, guardianAnswer, decision>>
    BY <1>1 DEF Amends, EnvelopeTypeOK
  <2>2. envelope' \in AnyEnvelope
    BY <1>1 DEF Amends, AnyEnvelope
  <2> QED
    BY <2>1, <2>2
    DEF EnvelopeTypeOK, CheckedIsSigned, RetriesShareKeys, AllowedByGuardian
<1>2. CASE Signs
  BY <1>2 DEF Signs, EnvelopeTypeOK, CheckedIsSigned, RetriesShareKeys, AllowedByGuardian
<1>3. ASSUME NEW protocol \in {"a2a", "acs", "rest"}, Bridges(protocol)
      PROVE  EnvelopeInv'
  <2>1. CheckedIsSigned'
    BY <1>3, BridgesTell
  <2>2. UNCHANGED <<envelope, signature, amendments, attempts, carried, guardianAnswer, decision>>
    BY <1>3 DEF Bridges
  <2> QED BY <2>1, <2>2 DEF EnvelopeTypeOK, RetriesShareKeys, AllowedByGuardian
<1>4. CASE MakesCall
  <2>1. /\ UNCHANGED <<envelope, signature, heard, amendments, carried, guardianAnswer, decision>>
        /\ attempts \subseteq attempts'
        /\ \A c \in attempts' : c.key = IdempotencyKey(c.agent, c.arguments)
    BY <1>4 DEF MakesCall
  <2>2. RetriesShareKeys'
    <3>1. carried' # NothingHeard /\ carried'.key # <<>>
            => carried'.key = IdempotencyKey(carried'.agent, carried'.arguments)
      BY <2>1
    <3> QED BY <2>1, <3>1, KeysTell DEF RetriesShareKeys
  <2> QED BY <2>1, <2>2 DEF EnvelopeTypeOK, CheckedIsSigned, AllowedByGuardian
<1>5. CASE GuardianAnswers
  <2>1. /\ decision'.allowed \in BOOLEAN
        /\ decision'.allowed => guardianAnswer' = "allow"
    BY <1>5 DEF GuardianAnswers, GuardianVerdict
  <2> QED
    BY <1>5, <2>1
    DEF GuardianAnswers, EnvelopeTypeOK, CheckedIsSigned, RetriesShareKeys, AllowedByGuardian
<1>6. ASSUME NEW protocol \in {"mcp", "openai", "acs call", "langchain"}, NEW call \in attempts,
             Carries(protocol, call)
      PROVE  EnvelopeInv'
  <2>1. /\ UNCHANGED <<envelope, signature, heard, amendments, attempts, guardianAnswer, decision>>
        /\ carried'.number = call.number
        /\ carried'.agent = call.agent /\ carried'.arguments = call.arguments
        /\ carried'.key \in {call.key, <<>>}
    BY <1>6 DEF Carries
  <2>2. carried'.key # <<>>
          => carried'.key = IdempotencyKey(carried'.agent, carried'.arguments)
    BY <2>1
  <2>3. RetriesShareKeys'
    <3>1. \A c \in attempts' : c.key = IdempotencyKey(c.agent, c.arguments)
      BY <2>1
    <3>2. ASSUME NEW c \in attempts', NEW d \in attempts'
          PROVE  (c.key = d.key) <=> (c.agent = d.agent /\ c.arguments = d.arguments)
      BY <3>1, SameKeys
    <3>3. ASSUME carried'.key # <<>>, NEW c \in attempts'
          PROVE  (c.key = carried'.key)
                   <=> (c.agent = carried'.agent /\ c.arguments = carried'.arguments)
      BY <2>2, <3>1, <3>3, SameKeys
    <3> QED BY <3>2, <3>3 DEF RetriesShareKeys
  <2> QED BY <2>1, <2>2, <2>3 DEF EnvelopeTypeOK, CheckedIsSigned, AllowedByGuardian
<1>7. CASE UNCHANGED envelopeVars
  BY <1>7
  DEF envelopeVars, EnvelopeTypeOK, CheckedIsSigned, RetriesShareKeys, AllowedByGuardian
<1> QED
  BY <1>1, <1>2, <1>3, <1>4, <1>5, <1>6, <1>7 DEF EnvelopeNext, EnvelopeSteps, CallSteps

\* What was checked when it went out is what was signed, retries share their key
\* and nothing but a Guardian's "allow" allows, for any goals, depths, and numbers
\* of amendments and attempts.  (cael.py, bridges)
THEOREM EnvelopesFaithful == EnvelopeSpec => []EnvelopesHold
<1>1. EnvelopeInv => EnvelopesHold
  BY DEF EnvelopeInv
<1> QED BY <1>1, EnvelopeStarts, EnvelopeStep, PTL DEF EnvelopeSpec

-----------------------------------------------------------------------------
(* The HTTP proxy *)

\* Since it let the m-th of a client's requests through, a bucket has not got more
\* than was left of it then and what it was refilled, and spent a token on each.
BucketPays(a, pail) ==
    /\ \A m \in 1 .. Len(a) : a[m] <= pail.last
    /\ \A m \in 1 .. Len(a) :
           pail.level + (Len(a) - m + 1) * Span <= Rate * (Span + pail.last - a[m])

Spared(a) ==
    \A m \in 1 .. Len(a) : \A n \in m .. Len(a) :
        (n - m + 1) * Span <= Rate * (Span + a[n] - a[m])

Alarmed == \E r \in audit \union lost : r.event = "schema_changed"

ProxyInv ==
    /\ ProxyTypeOK
    /\ DOMAIN requests = Requests
    /\ tokens \in [Clients -> [last : Int, level : Int]]
    /\ admitted \in [Clients -> Seq(Int)]
    /\ Rate > 0 => \A c \in Clients : BucketPays(admitted[c], tokens[c]) /\ Spared(admitted[c])
    /\ baseline = {} \/ \E list \in Lists : baseline = {list}
    /\ PinSchema => shown \subseteq baseline \/ Alarmed

\* What the refill gives at most.
LEMMA RefillFacts ==
  ASSUME ProxyInv, NEW c \in Clients
  PROVE  /\ Consume(c) \in [last : Int, level : Int]
         /\ Consume(c).last = moment /\ moment \in Nat
         /\ Consume(c).level \in 0 .. Rate * Span
         /\ Consume(c).level <= tokens[c].level + (moment - tokens[c].last) * Rate
<1> USE ProxyAssumption DEF ProxyAssumption
<1>1. /\ moment \in Nat /\ tokens[c].level \in Int /\ tokens[c].last \in Int
      /\ tokens[c].level >= 0 /\ tokens[c].level <= Rate * Span
      /\ tokens[c].last <= moment /\ tokens[c].last >= 0
  BY DEF ProxyInv, ProxyTypeOK
<1>2. (moment - tokens[c].last) * Rate \in Nat /\ Rate * Span \in Nat
  BY <1>1
<1> QED BY <1>1, <1>2 DEF Consume

\* The arithmetic of buckets: a refill,
LEMMA RefillAdds ==
  ASSUME NEW k \in Int, NEW level \in Int, NEW last \in Int, NEW now \in Int, NEW x \in Int,
         NEW new \in Int, new <= level + (now - last) * Rate,
         level + k * Span <= Rate * (Span + last - x)
  PROVE  new + k * Span <= Rate * (Span + now - x)
<1> USE ProxyAssumption DEF ProxyAssumption
<1>1. Rate * (Span + last - x) + (now - last) * Rate = Rate * (Span + now - x)
  OBVIOUS
<1> DEFINE used == k * Span
           refill == (now - last) * Rate
           before == Rate * (Span + last - x)
           after == Rate * (Span + now - x)
<1>2. used \in Int /\ refill \in Int /\ before \in Int /\ after \in Int
  OBVIOUS
<1>3. new <= level + refill /\ level + used <= before /\ before + refill = after
  BY <1>1
<1> HIDE DEF used, refill, before, after
<1>4. new + used <= after
  BY <1>2, <1>3
<1> QED BY <1>4 DEF used, after

\* and a token.
LEMMA TokenCosts ==
  ASSUME NEW k \in Int, NEW level \in Int, NEW most \in Int, level + k * Span <= most
  PROVE  (level - Span) + (k + 1) * Span <= most
<1> USE ProxyAssumption DEF ProxyAssumption
<1>1. (k + 1) * Span = k * Span + Span
  OBVIOUS
<1> DEFINE used == k * Span
<1>2. used \in Int
  OBVIOUS
<1> HIDE DEF used
<1> QED BY <1>1, <1>2 DEF used

LEMMA NothingOwed ==
  ASSUME NEW k \in Int, NEW level \in Nat, NEW x \in Int, level + k * Span <= Rate * x
  PROVE  k * Span <= Rate * x
<1> USE ProxyAssumption DEF ProxyAssumption
<1>1. k * Span \in Int /\ Rate * x \in Int
  OBVIOUS
<1> QED BY <1>1

LEMMA RefillPays ==
  ASSUME ProxyInv, Rate > 0, NEW c \in Clients
  PROVE  BucketPays(admitted[c], Consume(c))
<1> DEFINE a == admitted[c]
           old == tokens[c]
           new == Consume(c)
<1> USE ProxyAssumption DEF ProxyAssumption
<1>1. /\ a \in Seq(Int) /\ BucketPays(a, old)
      /\ old.level \in Int /\ old.last \in Int /\ old.last <= moment
  BY DEF ProxyInv, ProxyTypeOK
<1>2. /\ new.last = moment /\ moment \in Int /\ new.level \in Int
      /\ new.level <= old.level + (moment - old.last) * Rate
  BY RefillFacts
<1> HIDE DEF a, old, new
<1>3. ASSUME NEW m \in 1 .. Len(a)
      PROVE  /\ a[m] <= new.last
             /\ new.level + (Len(a) - m + 1) * Span <= Rate * (Span + new.last - a[m])
  <2>1. a[m] \in Int /\ Len(a) \in Nat /\ m \in Int
    BY <1>1
  <2>2. a[m] <= old.last /\ old.level + (Len(a) - m + 1) * Span <= Rate * (Span + old.last - a[m])
    BY <1>1 DEF BucketPays
  <2>3. Len(a) - m + 1 \in Int
    BY <2>1
  <2>4. new.level + (Len(a) - m + 1) * Span <= Rate * (Span + moment - a[m])
    BY <1>1, <1>2, <2>1, <2>2, <2>3, RefillAdds
  <2> QED BY <1>1, <1>2, <2>1, <2>2, <2>4
<1> QED BY <1>3 DEF BucketPays, a, new

\* A token is taken, and the request counted.
LEMMA TokenTaken ==
  ASSUME NEW a \in Seq(Int), NEW pail \in [last : Int, level : Int], Rate > 0,
         BucketPays(a, pail), Spared(a), pail.level >= Span, pail.level <= Rate * Span,
         NEW b, b = Append(a, pail.last),
         NEW left, left = [pail EXCEPT !.level = @ - Span]
  PROVE  BucketPays(b, left) /\ Spared(b)
<1> USE ProxyAssumption DEF ProxyAssumption
<1>0. pail.level \in Int /\ pail.last \in Int
  OBVIOUS
<1>1. /\ Len(b) = Len(a) + 1 /\ Len(a) \in Nat /\ b[Len(a) + 1] = pail.last
      /\ \A n \in 1 .. Len(a) : b[n] = a[n] /\ a[n] \in Int
      /\ left.last = pail.last /\ left.level = pail.level - Span
  BY <1>0, AppendProperties
<1>2. ASSUME NEW m \in 1 .. Len(b)
      PROVE  /\ b[m] <= left.last /\ b[m] \in Int
             /\ left.level + (Len(b) - m + 1) * Span <= Rate * (Span + left.last - b[m])
  <2>1. CASE m = Len(a) + 1
    <3>1. b[m] = pail.last /\ Len(b) - m + 1 = 1
      BY <1>1, <2>1
    <3>2. Span \in Int /\ pail.level \in Int /\ pail.last \in Int
      BY <1>0
    <3> HIDE ProxyAssumption
    <3>3. left.level + 1 * Span = pail.level
      BY <1>1, <3>2
    <3>4. Span + left.last - b[m] = Span
      BY <1>1, <3>2, <3>1
    <3> QED BY <1>1, <3>2, <3>1, <3>3, <3>4
  <2>2. CASE m # Len(a) + 1
    <3>1. m \in 1 .. Len(a) /\ m \in Int
      BY <1>1, <2>2
    <3>2. /\ a[m] <= pail.last /\ b[m] = a[m] /\ a[m] \in Int
          /\ pail.level + (Len(a) - m + 1) * Span <= Rate * (Span + pail.last - a[m])
      BY <1>1, <3>1 DEF BucketPays
    <3> DEFINE k == Len(a) - m + 1
               most == Rate * (Span + pail.last - a[m])
    <3>3. k \in Int /\ k + 1 = Len(b) - m + 1
      BY <1>1, <3>1
    <3>4. most \in Int
      <4>1. a[m] \in Int /\ Span \in Int
        BY <3>2
      <4> HIDE ProxyAssumption
      <4>2. Span + pail.last - a[m] \in Int
        BY <1>0, <4>1
      <4> QED BY <4>2, ProxyAssumption
    <3>5. pail.level + k * Span <= most
      BY <3>2
    <3> HIDE DEF k, most
    <3>6. (pail.level - Span) + (k + 1) * Span <= most
      BY <1>0, <3>3, <3>4, <3>5, TokenCosts
    <3> QED BY <1>1, <3>2, <3>3, <3>6 DEF most
  <2> QED BY <2>1, <2>2
<1>3. BucketPays(b, left)
  BY <1>2 DEF BucketPays
<1>4. ASSUME NEW m \in 1 .. Len(b), NEW n \in m .. Len(b)
      PROVE  (n - m + 1) * Span <= Rate * (Span + b[n] - b[m])
  <2>1. CASE n = Len(b)
    <3>1. /\ b[n] = left.last /\ left.level >= 0 /\ left.level \in Int
          /\ b[n] \in Int /\ b[m] \in Int /\ Span \in Int /\ m \in Int /\ n \in Int
      <4>1. m \in Int /\ n \in Int /\ n = Len(a) + 1 /\ Span \in Int
        BY <1>1, <2>1
      <4>2. b[n] = left.last /\ b[n] \in Int
        BY <1>0, <1>1, <4>1
      <4>3. left.level >= 0 /\ left.level \in Int
        BY <1>0, <1>1
      <4> QED BY <1>2, <4>1, <4>2, <4>3
    <3>2. left.level + (n - m + 1) * Span <= Rate * (Span + b[n] - b[m])
      BY <1>2, <2>1, <3>1
    <3>3. n - m + 1 \in Int /\ Span + b[n] - b[m] \in Int /\ left.level \in Nat
      <4> HIDE ProxyAssumption
      <4>1. \A i, j, k \in Int : j - i + 1 \in Int /\ k + j - i \in Int
        OBVIOUS
      <4>2. \A i \in Int : i >= 0 => i \in Nat
        OBVIOUS
      <4> QED BY <3>1, <4>1, <4>2, Zenon
    <3> QED BY <3>2, <3>3, NothingOwed
  <2>2. CASE n # Len(b)
    <3>1. m \in 1 .. Len(a) /\ n \in m .. Len(a) /\ n \in 1 .. Len(a)
      BY <1>1, <2>2
    <3> QED BY <1>1, <3>1 DEF Spared
  <2> QED BY <2>1, <2>2
<1> QED BY <1>3, <1>4 DEF Spared

\* What is written is in the log or lost.
LEMMA WrittenOrLost ==
  ASSUME NEW records, Writes(records)
  PROVE  /\ audit' \union lost' = (audit \union lost) \union records
         /\ Cardinality(lost') <= MaxLost
         /\ Alarmed => Alarmed'
  BY DEF Writes, Alarmed

LEMMA ProxyStarts == ProxyInit => ProxyInv
<1> SUFFICES ASSUME ProxyInit PROVE ProxyInv
  OBVIOUS
<1> USE ProxyAssumption DEF ProxyAssumption
<1>1. /\ moment = 0 /\ requests = [q \in Requests |-> Waiting]
      /\ tokens = [c \in Clients |-> [last |-> 0, level |-> Rate * Span]]
      /\ baseline = {} /\ audit = {} /\ lost = {}
      /\ admitted = [c \in Clients |-> <<>>] /\ shown = {}
  BY DEF ProxyInit
<1>2. Rate * Span \in Nat /\ Cardinality({}) = 0
  BY FS_EmptySet
<1>3. ProxyTypeOK
  BY <1>1, <1>2 DEF ProxyTypeOK, Waiting
<1>4. \A c \in Clients : BucketPays(admitted[c], tokens[c]) /\ Spared(admitted[c])
  BY <1>1 DEF BucketPays, Spared
<1>5. admitted \in [Clients -> Seq(Int)]
  BY <1>1
<1> QED BY <1>1, <1>2, <1>3, <1>4, <1>5 DEF ProxyInv

LEMMA ReceivesKeeps ==
  ASSUME ProxyInv, NEW q \in Requests, NEW c \in Clients, Receives(q, c)
  PROVE  ProxyInv'
<1> USE ProxyAssumption DEF ProxyAssumption
<1> DEFINE pail == Consume(c)
<1>1. /\ pail \in [last : Int, level : Int] /\ pail.last = moment /\ moment \in Nat
      /\ pail.level \in 0 .. Rate * Span
      /\ Rate > 0 => BucketPays(admitted[c], pail)
  BY RefillFacts, RefillPays
<1>2. UNCHANGED <<moment, baseline, shown>>
  BY DEF Receives
<1>3. DOMAIN requests' = Requests /\ \A r \in Requests :
        requests'[r].state \in {"waiting", "upstream", "limited", "unreadable", "failed", "answered"}
  <2>1. \/ requests' = [requests EXCEPT ![q] = Ended("limited")]
        \/ requests' = [requests EXCEPT ![q] = Ended("unreadable")]
        \/ \E method \in Methods, injected \in BOOLEAN :
              requests' = [requests EXCEPT ![q] = [state |-> "upstream", method |-> method,
                                                   dirty |-> injected /\ ~ScanInputs]]
    <3> HIDE DEF pail
    <3> QED BY DEF Receives
  <2>2. ASSUME NEW x, requests' = [requests EXCEPT ![q] = x],
               x.state \in {"limited", "unreadable", "upstream"}
        PROVE  DOMAIN requests' = Requests /\ \A r \in Requests :
                 requests'[r].state
                   \in {"waiting", "upstream", "limited", "unreadable", "failed", "answered"}
    BY <2>2 DEF ProxyInv, ProxyTypeOK
  <2>3. /\ Ended("limited").state = "limited" /\ Ended("unreadable").state = "unreadable"
        /\ \A method \in Methods, injected \in BOOLEAN :
             [state |-> "upstream", method |-> method, dirty |-> injected /\ ~ScanInputs].state
               = "upstream"
    BY DEF Ended
  <2> QED BY <2>1, <2>2, <2>3
<1>4. Cardinality(lost') <= MaxLost /\ (Alarmed => Alarmed')
  <2>1. \/ UNCHANGED <<audit, lost>>
        \/ \E records : Writes(records)
    BY DEF Receives
  <2>2. CASE UNCHANGED <<audit, lost>>
    BY <2>2 DEF ProxyInv, ProxyTypeOK, Alarmed
  <2> QED BY <2>1, <2>2, WrittenOrLost
<1>5. CASE Rate > 0 /\ pail.level < Span
  <2>1. tokens' = [tokens EXCEPT ![c] = pail] /\ admitted' = admitted
    BY <1>5 DEF Receives
  <2> HIDE DEF pail
  <2>2. /\ tokens' \in [Clients -> [last : Int, level : Int]]
        /\ \A d \in Clients :
             tokens'[d].level \in 0 .. Rate * Span /\ tokens'[d].last \in 0 .. moment
        /\ \A d \in Clients : BucketPays(admitted'[d], tokens'[d]) /\ Spared(admitted'[d])
    BY <1>1, <1>5, <2>1 DEF ProxyInv, ProxyTypeOK
  <2> QED BY <1>2, <1>3, <1>4, <2>1, <2>2 DEF ProxyInv, ProxyTypeOK
<1>6. CASE Rate > 0 /\ ~(pail.level < Span)
  <2> DEFINE left == [pail EXCEPT !.level = @ - Span]
             b == Append(admitted[c], moment)
  <2>1. tokens' = [tokens EXCEPT ![c] = left] /\ admitted' = [admitted EXCEPT ![c] = b]
    BY <1>6 DEF Receives
  <2>2. admitted[c] \in Seq(Int) /\ Spared(admitted[c])
    BY <1>6 DEF ProxyInv
  <2> HIDE DEF pail
  <2>3. /\ left \in [last : Int, level : Int] /\ left.last = moment
        /\ left.level \in 0 .. Rate * Span
    BY <1>1, <1>6
  <2>4. BucketPays(b, left) /\ Spared(b)
    <3>1. pail.level >= Span /\ pail.level <= Rate * Span
      BY <1>1, <1>6
    <3> QED BY <1>1, <1>6, <2>2, <3>1, TokenTaken
  <2>5. b \in Seq(Int)
    BY <1>1, <2>2, AppendProperties
  <2> HIDE DEF left, b
  <2>6. /\ tokens' \in [Clients -> [last : Int, level : Int]]
        /\ admitted' \in [Clients -> Seq(Int)]
        /\ \A d \in Clients :
             tokens'[d].level \in 0 .. Rate * Span /\ tokens'[d].last \in 0 .. moment
        /\ \A d \in Clients : BucketPays(admitted'[d], tokens'[d]) /\ Spared(admitted'[d])
    BY <1>1, <1>6, <2>1, <2>3, <2>4, <2>5 DEF ProxyInv, ProxyTypeOK
  <2> QED BY <1>2, <1>3, <1>4, <2>1, <2>6 DEF ProxyInv, ProxyTypeOK
<1>7. CASE ~(Rate > 0)
  <2>1. tokens' = tokens /\ admitted' = [admitted EXCEPT ![c] = Append(@, moment)]
    BY <1>7 DEF Receives
  <2>2. admitted' \in [Clients -> Seq(Int)]
    BY <1>1, <2>1, AppendProperties DEF ProxyInv
  <2> QED BY <1>2, <1>3, <1>4, <1>7, <2>1, <2>2 DEF ProxyInv, ProxyTypeOK
<1> QED BY <1>5, <1>6, <1>7

LEMMA AnswersKeeps ==
  ASSUME ProxyInv, NEW q \in Requests, NEW list \in Lists, NEW injected \in BOOLEAN,
         Answers(q, list, injected)
  PROVE  ProxyInv'
<1> DEFINE compares == PinSchema /\ requests[q].method = "tools/list"
           changed == compares /\ baseline \notin {{}, {list}}
           records == {Record("output_injection_detected", q) : f \in {ScanOutputs /\ injected} \ {FALSE}}
                  \union {Record("tool_invocation", q) : f \in {requests[q].method} \ {"ping"}}
                  \union {Record("schema_pinned", q) : f \in {compares /\ baseline = {}} \ {FALSE}}
                  \union {Record("schema_changed", q) : f \in {changed} \ {FALSE}}
<1>1. /\ requests' = [requests EXCEPT ![q] = Ended("answered")]
      /\ Writes(records)
      /\ baseline' = IF compares THEN Pinned(list) ELSE baseline
      /\ shown' = IF requests[q].method = "tools/list" THEN shown \union {list} ELSE shown
      /\ UNCHANGED <<moment, tokens, admitted>>
  BY DEF Answers
<1>2. changed => Record("schema_changed", q) \in records
  OBVIOUS
<1> HIDE DEF records
<1>3. /\ Cardinality(lost') <= MaxLost /\ (Alarmed => Alarmed')
      /\ changed => Alarmed'
  <2>1. /\ audit' \union lost' = (audit \union lost) \union records
        /\ Cardinality(lost') <= MaxLost /\ (Alarmed => Alarmed')
    BY <1>1, WrittenOrLost
  <2> QED BY <1>2, <2>1 DEF Alarmed, Record
<1>4. /\ baseline' \subseteq Lists
      /\ baseline' = {} \/ \E l \in Lists : baseline' = {l}
  BY <1>1 DEF ProxyInv, ProxyTypeOK, Pinned
<1>5. PinSchema => shown' \subseteq baseline' \/ Alarmed'
  <2> SUFFICES ASSUME PinSchema, ~ Alarmed' PROVE shown' \subseteq baseline'
    OBVIOUS
  <2>1. shown \subseteq baseline /\ ~ changed
    BY <1>3 DEF ProxyInv
  <2>2. CASE requests[q].method = "tools/list"
    <3>1. baseline \in {{}, {list}} /\ baseline' = {list}
      BY <1>1, <2>1, <2>2 DEF Pinned
    <3> QED BY <1>1, <2>1, <2>2, <3>1
  <2>3. CASE requests[q].method # "tools/list"
    BY <1>1, <2>1, <2>3
  <2> QED BY <2>2, <2>3
<1>6. DOMAIN requests' = Requests /\ \A r \in Requests :
        requests'[r].state \in {"waiting", "upstream", "limited", "unreadable", "failed", "answered"}
  BY <1>1 DEF ProxyInv, ProxyTypeOK, Ended
<1>7. /\ moment' = moment /\ tokens' = tokens /\ admitted' = admitted
  BY <1>1
<1> QED BY <1>3, <1>4, <1>5, <1>6, <1>7 DEF ProxyInv, ProxyTypeOK

LEMMA ProxyStep == ProxyInv /\ [ProxyNext]_proxyVars => ProxyInv'
<1> SUFFICES ASSUME ProxyInv, [ProxyNext]_proxyVars PROVE ProxyInv'
  OBVIOUS
<1>1. ASSUME NEW q \in Requests, UpstreamFails(q) PROVE ProxyInv'
  <2>1. requests' = [requests EXCEPT ![q] = Ended("failed")]
        /\ UNCHANGED <<moment, tokens, baseline, audit, lost, admitted, shown>>
    BY <1>1 DEF UpstreamFails
  <2>2. DOMAIN requests' = Requests /\ \A r \in Requests :
          requests'[r].state \in {"waiting", "upstream", "limited", "unreadable", "failed", "answered"}
    BY <2>1 DEF ProxyInv, ProxyTypeOK, Ended
  <2> QED BY <2>1, <2>2 DEF ProxyInv, ProxyTypeOK, Alarmed
<1>2. CASE MomentPasses
  <2>1. /\ moment' = moment + 1 /\ moment' \in 0 .. LastMoment
        /\ UNCHANGED <<requests, tokens, baseline, audit, lost, admitted, shown>>
    BY <1>2, ProxyAssumption DEF ProxyAssumption, MomentPasses, ProxyInv, ProxyTypeOK
  <2>2. \A c \in Clients : tokens[c].last \in 0 .. moment'
    BY <2>1 DEF ProxyInv, ProxyTypeOK
  <2> QED BY <2>1, <2>2 DEF ProxyInv, ProxyTypeOK, Alarmed
<1>3. CASE UNCHANGED proxyVars
  BY <1>3 DEF proxyVars, ProxyInv, ProxyTypeOK, Alarmed
<1> QED BY <1>1, <1>2, <1>3, ReceivesKeeps, AnswersKeeps DEF ProxyNext

LEMMA ProxyInvShows ==
  ProxyInv => ProxyTypeOK /\ AdmittedBounded /\ ListChangeShows
<1> SUFFICES ASSUME ProxyInv PROVE ProxyTypeOK /\ AdmittedBounded /\ ListChangeShows
  OBVIOUS
<1>1. AdmittedBounded
  BY DEF ProxyInv, AdmittedBounded, Spared
<1>2. ListChangeShows
  <2> SUFFICES ASSUME PinSchema, Cardinality(shown) > 1, ~ Alarmed PROVE FALSE
    BY DEF ListChangeShows, Alarmed
  <2>1. shown \subseteq baseline
    BY DEF ProxyInv
  <2>2. CASE shown = {}
    BY <2>2, FS_EmptySet
  <2>3. CASE shown # {}
    <3>1. PICK list : shown = {list}
      BY <2>1, <2>3 DEF ProxyInv
    <3> QED BY <3>1, FS_Singleton
  <2> QED BY <2>2, <2>3
<1> QED BY <1>1, <1>2 DEF ProxyInv

\* The proxy lets no client through faster than a full bucket and its refill, and
\* never shows two lists of tools without an alarm, for any clients, rate, lists and
\* number of lost records.  (proxy.py)
THEOREM ProxyKeeps == ProxySpec => [](ProxyTypeOK /\ AdmittedBounded /\ ListChangeShows)
<1> QED BY ProxyStarts, ProxyStep, ProxyInvShows, PTL DEF ProxySpec

-----------------------------------------------------------------------------
(* The MCP server: its buckets *)

\* Since the m-th grant of its key, a bucket has not got more than it held and what it
\* was refilled; a bucket that was dropped had been refilled completely.
GrantsPaid(key) ==
    LET s == served[key] b == buckets[key] IN
    \A m \in 1 .. Len(s) :
        IF b = NoBucket THEN (Len(s) - m + 1) * Window <= Limit(key) * (second - s[m])
        ELSE b.level + (Len(s) - m + 1) * Window <= Limit(key) * (Window + Lag + b.last - s[m])

\* Nothing is kept back: since some grant a bucket got its refill in full.
RefillKept(key) ==
    LET s == served[key] b == buckets[key] IN
    b # NoBucket =>
        \E m \in 1 .. Len(s) :
            b.level + (Len(s) - m + 1) * Window >= Limit(key) * (Window + b.last - s[m])

KeyBounded(key) ==
    LET s == served[key] IN
    \A m \in 1 .. Len(s) : \A n \in m .. Len(s) :
        (n - m + 1) * Window <= Limit(key) * (Window + s[n] - s[m] + Lag)

BucketOK(key) ==
    \/ buckets[key] = NoBucket
    \/ /\ buckets[key] \in [last : Nat, level : Int]
       /\ buckets[key].last <= second
       /\ buckets[key].level >= -(Lag * Limit(key))
       /\ buckets[key].level <= Limit(key) * Window
       /\ buckets[key].level + (second - buckets[key].last) * Limit(key) >= 0

CheckOK(h) ==
    \/ checks[h] = NoCheck
    \/ /\ checks[h].on = FALSE /\ checks[h].token \in Tokens
       /\ contexts[h] = TokenTier[checks[h].token]
    \/ /\ checks[h].on = TRUE /\ checks[h].token \in Tokens
       /\ contexts[h] = TokenTier[checks[h].token]
       /\ checks[h].key \in Keys
       /\ checks[h].now \in Nat /\ checks[h].now <= second /\ second <= checks[h].now + Lag

LimiterInv ==
    /\ second \in 0 .. LastSecond /\ lastCleanup \in 0 .. second
    /\ DOMAIN buckets = Keys /\ DOMAIN checks = Handlers /\ DOMAIN promise = Keys
    /\ served \in [Keys -> Seq(Int)]
    /\ \A key \in Keys : BucketOK(key) /\ GrantsPaid(key) /\ RefillKept(key) /\ KeyBounded(key)
    /\ \A h \in Handlers : CheckOK(h)
    /\ denial.on => denial.key \in Keys /\ denial.at \in Int
    /\ DeniedOnlyWhenSpent

ServerInv ==
    /\ process \in {"starting", "stdio", "http", "exited"}
    /\ process = "stdio" => launch.transport = "stdio" /\ VerifiedForStdio(launch)
    /\ contexts \in [Handlers -> {"free", "pro"}]

McpInv == LimiterInv /\ ServerInv

LEMMA McpNumbers ==
    /\ Window \in Nat \ {0} /\ Lag \in Nat /\ Stale \in Nat /\ Cleanup \in Nat
    /\ LastSecond \in Nat /\ Window + 2 * Lag <= Stale + 1
    /\ TokenTier \in [Tokens -> {"none", "free", "pro"}]
    /\ \A key : Limit(key) \in Nat \ {0}
  BY McpAssumption DEF McpAssumption, Limit

\* The arithmetic of buckets, of what k grants cost. A refill,
PaysAlike(L, paid, level, last, sum, now, x) ==
    /\ sum + paid <= L * (x + now) <=> level + paid <= L * (x + last)
    /\ sum + paid >= L * (x + now) <=> level + paid >= L * (x + last)

LEMMA McpRefill ==
  ASSUME NEW L \in Int, NEW paid \in Int, NEW level \in Int, NEW last \in Int,
         NEW now \in Int, NEW x \in Int, NEW sum, sum = level + (now - last) * L
  PROVE  PaysAlike(L, paid, level, last, sum, now, x)
<1>1. L * (x + now) = L * (x + last) + (now - last) * L
  OBVIOUS
<1> DEFINE a == L * (x + now)
           b == L * (x + last)
           d == (now - last) * L
<1>2. a \in Int /\ b \in Int /\ d \in Int /\ a = b + d /\ sum = level + d
  BY <1>1
<1> HIDE DEF a, b, d
<1>3. /\ sum + paid <= a <=> level + paid <= b
      /\ sum + paid >= a <=> level + paid >= b
  BY <1>2
<1> QED BY <1>3 DEF a, b, d, PaysAlike

\* a token,
LEMMA OneMore == ASSUME NEW k \in Int, NEW W \in Int
                 PROVE  (k + 1) * W = k * W + W /\ k * W \in Int
  OBVIOUS

\* and time.
LEMMA MoreTime == ASSUME NEW L \in Nat, NEW x \in Int, NEW y \in Int, x <= y
                  PROVE  L * x <= L * y /\ L * x \in Int /\ L * y \in Int
<1>1. L * (y - x) \in Nat /\ L * y = L * x + L * (y - x) /\ L * x \in Int /\ L * y \in Int
  OBVIOUS
<1> DEFINE d == L * (y - x)
           a == L * x
           b == L * y
<1>2. d \in Nat /\ b = a + d /\ a \in Int /\ b \in Int
  BY <1>1
<1> HIDE DEF a, b, d
<1>3. a <= b
  BY <1>2
<1> QED BY <1>2, <1>3 DEF a, b

LEMMA McpStarts == McpInit => McpInv
<1> SUFFICES ASSUME McpInit PROVE McpInv
  OBVIOUS
<1>1. \A key \in Keys : BucketOK(key) /\ GrantsPaid(key) /\ RefillKept(key) /\ KeyBounded(key)
  <2> TAKE key \in Keys
  <2>1. served[key] = <<>> /\ Len(served[key]) = 0 /\ 1 .. Len(served[key]) = {}
        /\ buckets[key] = NoBucket
    BY DEF McpInit
  <2> QED BY <2>1 DEF BucketOK, GrantsPaid, RefillKept, KeyBounded
<1>2. \A h \in Handlers : CheckOK(h)
  BY DEF McpInit, CheckOK
<1>3. served \in [Keys -> Seq(Int)]
  BY DEF McpInit
<1>4. ~denial.on
  BY DEF McpInit, NoCheck
<1>5. ServerInv
  BY DEF McpInit, ServerInv
<1> QED BY <1>1, <1>2, <1>3, <1>4, <1>5, McpNumbers DEF McpInit, McpInv, LimiterInv, DeniedOnlyWhenSpent

\* A bucket that is dropped had been refilled completely, even if its last check was late.
LEMMA DroppedIsFull ==
  ASSUME LimiterInv, NEW key \in Keys, NEW now \in Nat, now <= second
  PROVE  LET b == Collected(now)[key] IN
         /\ b = NoBucket \/ b = buckets[key]
         /\ b = NoBucket => \A m \in 1 .. Len(served[key]) :
                (Len(served[key]) - m + 1) * Window <= Limit(key) * (second - served[key][m])
<1> DEFINE b == Collected(now)[key]
           old == buckets[key]
           s == served[key]
           L == Limit(key)
<1> SUFFICES /\ b = NoBucket \/ b = old
             /\ b = NoBucket => \A m \in 1 .. Len(s) :
                    (Len(s) - m + 1) * Window <= L * (second - s[m])
  OBVIOUS
<1>1. BucketOK(key) /\ GrantsPaid(key) /\ s \in Seq(Int) /\ second \in Nat
  BY McpNumbers DEF LimiterInv
<1>2. b = old \/ (b = NoBucket /\ now - old.last > Stale)
  BY DEF Collected, LimiterInv
<1>3. ASSUME b = NoBucket, old # NoBucket, NEW m \in 1 .. Len(s)
      PROVE  (Len(s) - m + 1) * Window <= L * (second - s[m])
  <2>1. now - old.last > Stale
    BY <1>2, <1>3
  <2>2. /\ old.last \in Nat /\ old.level \in Int /\ old.level >= -(Lag * L)
        /\ L \in Nat /\ Lag \in Nat /\ Window \in Nat /\ s[m] \in Int /\ m \in Int
        /\ Len(s) \in Nat /\ Window + 2 * Lag <= Stale + 1 /\ Stale \in Nat
    <3>1. old \in [last : Nat, level : Int] /\ old.level >= -(Lag * L)
      BY <1>1, <1>3 DEF BucketOK
    <3>2. old.last \in Nat /\ old.level \in Int
      BY <3>1
    <3>3. /\ L \in Nat /\ Lag \in Nat /\ Window \in Nat /\ Stale \in Nat
          /\ Window + 2 * Lag <= Stale + 1
      BY McpNumbers
    <3>4. s[m] \in Int /\ m \in Int /\ Len(s) \in Nat
      BY <1>1, <1>3
    <3> QED BY <3>1, <3>2, <3>3, <3>4, Zenon
  <2>3. old.level + (Len(s) - m + 1) * Window <= L * (Window + Lag + old.last - s[m])
    BY <1>1, <1>3 DEF GrantsPaid
  <2> HIDE DEF b, old, s, L
  <2>4. L * (Window + Lag + old.last - s[m]) + Lag * L = L * (Window + 2 * Lag + old.last - s[m])
    BY <2>2
  <2>5. Window + 2 * Lag + old.last - s[m] <= second - s[m]
    BY SMTT(20), <1>1, <2>1, <2>2
  <2>6. /\ Window + 2 * Lag + old.last - s[m] \in Int /\ second - s[m] \in Int
        /\ Window + Lag + old.last - s[m] \in Int
        /\ Len(s) - m + 1 \in Int
    BY SMTT(20), <1>1, <2>2
  <2>7. L * (Window + 2 * Lag + old.last - s[m]) <= L * (second - s[m])
    BY <2>2, <2>5, <2>6, MoreTime
  <2> DEFINE cost == (Len(s) - m + 1) * Window
             most == L * (Window + Lag + old.last - s[m])
             owed == Lag * L
             all == L * (Window + 2 * Lag + old.last - s[m])
             time == L * (second - s[m])
  <2>8. cost \in Int /\ most \in Int /\ owed \in Int /\ all \in Int /\ time \in Int
    <3> DEFINE x == Len(s) - m + 1
               y == Window + Lag + old.last - s[m]
               z == Window + 2 * Lag + old.last - s[m]
               u == second - s[m]
    <3>1. x \in Int /\ y \in Int /\ z \in Int /\ u \in Int
      BY <2>6
    <3> HIDE DEF x, y, z, u
    <3>2. x * Window \in Int /\ L * y \in Int /\ Lag * L \in Int /\ L * z \in Int /\ L * u \in Int
      BY <2>2, <3>1
    <3> QED BY <3>2 DEF x, y, z, u
  <2>9. old.level + cost <= most /\ most + owed = all /\ all <= time /\ old.level >= -owed
        /\ old.level \in Int
    BY <2>2, <2>3, <2>4, <2>7
  <2> HIDE DEF cost, most, owed, all, time
  <2>10. cost <= time
    BY <2>8, <2>9
  <2> QED BY <2>10 DEF cost, time
<1>4. ASSUME b = NoBucket, old = NoBucket, NEW m \in 1 .. Len(s)
      PROVE  (Len(s) - m + 1) * Window <= L * (second - s[m])
  BY <1>1, <1>4 DEF GrantsPaid
<1> QED BY <1>2, <1>3, <1>4

\* What a bucket holds when a check has refilled it.
Refilling(key, now, level) ==
    LET s == served[key] L == Limit(key) IN
    /\ level \in Int /\ level <= L * Window /\ level + (second - now) * L >= 0
    /\ level >= -(Lag * L)
    /\ \A m \in 1 .. Len(s) :
           level + (Len(s) - m + 1) * Window <= L * (Window + Lag + now - s[m])
    /\ level = L * Window \/ \E m \in 1 .. Len(s) :
           level + (Len(s) - m + 1) * Window >= L * (Window + now - s[m])

LEMMA RefillsFairly ==
  ASSUME LimiterInv, NEW key \in Keys, NEW now \in Nat, now <= second, second <= now + Lag
  PROVE  Refilling(key, now, Refilled(Collected(now)[key], Limit(key), now))
<1> DEFINE b == Collected(now)[key]
           s == served[key]
           L == Limit(key)
           level == Refilled(b, L, now)
<1>1. /\ L \in Nat \ {0} /\ Window \in Nat \ {0} /\ Lag \in Nat /\ second \in Nat
      /\ s \in Seq(Int) /\ Len(s) \in Nat
      /\ \A m \in 1 .. Len(s) : s[m] \in Int /\ m \in Int
      /\ L * Window \in Nat /\ Lag * L \in Nat /\ (second - now) * L \in Nat
  BY McpNumbers DEF LimiterInv
<1>2. CASE b = NoBucket
  <2>1. level = L * Window
    BY <1>2 DEF Refilled
  <2>2. ASSUME NEW m \in 1 .. Len(s)
        PROVE  level + (Len(s) - m + 1) * Window <= L * (Window + Lag + now - s[m])
    <3>1. (Len(s) - m + 1) * Window <= L * (second - s[m])
      BY <1>2, DroppedIsFull
    <3> HIDE DEF b, s, L, level
    <3>2. /\ second - s[m] \in Int /\ now + Lag - s[m] \in Int
          /\ second - s[m] <= now + Lag - s[m]
      BY <1>1
    <3>3. L * (second - s[m]) <= L * (now + Lag - s[m])
      BY <1>1, <3>2, MoreTime
    <3>4. L * (Window + Lag + now - s[m]) = L * Window + L * (now + Lag - s[m])
      BY <1>1
    <3>5. Len(s) - m + 1 \in Int /\ Window \in Int
      BY <1>1
    <3> DEFINE cost == (Len(s) - m + 1) * Window
               a == L * (second - s[m])
               c == L * (now + Lag - s[m])
               d == L * (Window + Lag + now - s[m])
               full == L * Window
    <3>6. cost \in Int /\ a \in Int /\ c \in Int /\ full \in Int
      BY <1>1, <3>2, <3>5, OneMore, MoreTime
    <3>7. cost <= a /\ a <= c /\ d = full + c /\ level = full
      BY <2>1, <3>1, <3>3, <3>4
    <3> HIDE DEF cost, a, c, d, full
    <3>8. level + cost <= d
      BY <3>6, <3>7
    <3> QED BY <3>8 DEF cost, d
  <2>3. level \in Int /\ level + (second - now) * L >= 0 /\ level >= -(Lag * L)
    <3> HIDE DEF b, s, L, level
    <3> QED BY <1>1, <2>1
  <2> HIDE DEF level
  <2>4. Refilling(key, now, level)
    BY <1>1, <2>1, <2>2, <2>3 DEF Refilling
  <2> QED BY <2>4 DEF level
<1>3. CASE b # NoBucket
  <2>1. b = buckets[key]
    BY <1>3, DroppedIsFull
  <2>2. /\ b.last \in Nat /\ b.level \in Int /\ b.last <= second
        /\ b.level >= -(Lag * L) /\ b.level <= L * Window
        /\ b.level + (second - b.last) * L >= 0
    BY <1>3, <2>1 DEF LimiterInv, BucketOK
  <2>3. /\ \A m \in 1 .. Len(s) :
               b.level + (Len(s) - m + 1) * Window <= L * (Window + Lag + b.last - s[m])
        /\ \E m \in 1 .. Len(s) :
               b.level + (Len(s) - m + 1) * Window >= L * (Window + b.last - s[m])
    BY <1>3, <2>1 DEF LimiterInv, GrantsPaid, RefillKept
  <2> DEFINE sum == b.level + (now - b.last) * L
  <2>4. level = IF sum < L * Window THEN sum ELSE L * Window
    BY <1>3 DEF Refilled
  <2> HIDE DEF b, s, L, level
  <2>5. ASSUME NEW m \in 1 .. Len(s)
        PROVE  /\ sum + (Len(s) - m + 1) * Window <= L * (Window + Lag + now - s[m])
               /\ b.level + (Len(s) - m + 1) * Window >= L * (Window + b.last - s[m]) =>
                     sum + (Len(s) - m + 1) * Window >= L * (Window + now - s[m])
               /\ (Len(s) - m + 1) * Window \in Int
    <3>1. Len(s) - m + 1 \in Int /\ Window \in Int /\ L \in Int /\ now \in Int
      BY <1>1
    <3>2. (Len(s) - m + 1) * Window \in Int
      BY <3>1, OneMore
    <3>3. Window + Lag - s[m] \in Int /\ Window - s[m] \in Int
      BY <1>1
    <3>4. /\ Window + Lag + now - s[m] = (Window + Lag - s[m]) + now
          /\ Window + Lag + b.last - s[m] = (Window + Lag - s[m]) + b.last
          /\ Window + now - s[m] = (Window - s[m]) + now
          /\ Window + b.last - s[m] = (Window - s[m]) + b.last
      <4>1. Window \in Int /\ Lag \in Int /\ s[m] \in Int /\ now \in Int /\ b.last \in Int
        BY <1>1, <2>2
      <4> QED BY SMTT(20), <4>1
    <3>5. b.level + (Len(s) - m + 1) * Window <= L * ((Window + Lag - s[m]) + b.last)
      BY <2>3, <3>4
    <3>6. sum + (Len(s) - m + 1) * Window <= L * ((Window + Lag - s[m]) + now)
      <4> DEFINE paid == (Len(s) - m + 1) * Window
                 x == Window + Lag - s[m]
      <4>1. /\ paid \in Int /\ x \in Int /\ b.level \in Int /\ b.last \in Int /\ now \in Int
            /\ L \in Int /\ sum = b.level + (now - b.last) * L
        BY <2>2, <3>1, <3>2, <3>3 DEF sum
      <4>2. b.level + paid <= L * (x + b.last)
        BY <3>5
      <4> HIDE DEF paid, x, sum
      <4>3. sum + paid <= L * (x + now)
        <5>1. PaysAlike(L, paid, b.level, b.last, sum, now, x)
          BY <4>1, McpRefill
        <5> QED BY <4>2, <5>1 DEF PaysAlike
      <4> QED BY <4>3 DEF paid, x
    <3>7. b.level + (Len(s) - m + 1) * Window >= L * ((Window - s[m]) + b.last) <=>
             sum + (Len(s) - m + 1) * Window >= L * ((Window - s[m]) + now)
      <4> DEFINE paid == (Len(s) - m + 1) * Window
                 x == Window - s[m]
      <4>1. /\ paid \in Int /\ x \in Int /\ b.level \in Int /\ b.last \in Int /\ now \in Int
            /\ L \in Int /\ sum = b.level + (now - b.last) * L
        BY <2>2, <3>1, <3>2, <3>3 DEF sum
      <4> HIDE DEF paid, x, sum
      <4>2. b.level + paid >= L * (x + b.last) <=> sum + paid >= L * (x + now)
        <5>1. PaysAlike(L, paid, b.level, b.last, sum, now, x)
          BY <4>1, McpRefill
        <5> QED BY <5>1 DEF PaysAlike
      <4> QED BY <4>2 DEF paid, x
    <3> QED BY <3>2, <3>4, <3>6, <3>7
  <2>6. /\ sum \in Int /\ sum + (second - now) * L = b.level + (second - b.last) * L
        /\ sum >= -(Lag * L)
    <3>1. sum + (second - now) * L = b.level + (second - b.last) * L
      BY <1>1, <2>2
    <3>2. (second - now) * L <= Lag * L
      <4>1. second - now \in Int /\ second - now <= Lag /\ L \in Nat /\ Lag \in Int
        BY <1>1
      <4>2. L * (second - now) <= L * Lag
        BY <4>1, MoreTime
      <4> QED BY <1>1, <4>2
    <3>3. sum \in Int
      BY <1>1, <2>2
    <3> DEFINE c == (second - now) * L
               d == Lag * L
               e == b.level + (second - b.last) * L
    <3>4. c \in Int /\ d \in Int /\ e >= 0 /\ sum + c = e /\ c <= d /\ e \in Int
      BY <1>1, <2>2, <3>1, <3>2
    <3> HIDE DEF c, d, e, sum
    <3>5. sum >= -d
      BY <3>3, <3>4
    <3> QED BY <3>1, <3>3, <3>5 DEF d
  <2> HIDE DEF sum
  <2>7. CASE sum < L * Window
    <3>1. level = sum
      BY <2>4, <2>7
    <3>2. level \in Int /\ level <= L * Window /\ level + (second - now) * L >= 0
          /\ level >= -(Lag * L)
      BY <1>1, <2>2, <2>6, <2>7, <3>1
    <3>3. \E m \in 1 .. Len(s) :
              level + (Len(s) - m + 1) * Window >= L * (Window + now - s[m])
      BY <2>3, <2>5, <3>1
    <3>4. Refilling(key, now, level)
      BY <2>5, <3>1, <3>2, <3>3 DEF Refilling, s, L
    <3> QED BY <3>4 DEF level, L, b
  <2>8. CASE ~(sum < L * Window)
    <3>1. level = L * Window /\ level <= sum
      BY <1>1, <2>4, <2>6, <2>8
    <3>2. level \in Int /\ level + (second - now) * L >= 0 /\ level >= -(Lag * L)
      BY <1>1, <3>1
    <3>3. ASSUME NEW m \in 1 .. Len(s)
          PROVE  level + (Len(s) - m + 1) * Window <= L * (Window + Lag + now - s[m])
      <4>1. L * (Window + Lag + now - s[m]) \in Int
        <5>1. Window + Lag + now - s[m] \in Int /\ L \in Int
          BY <1>1
        <5> HIDE DEF L
        <5> QED BY <5>1
      <4> QED BY <2>5, <2>6, <3>1, <3>2, <4>1
    <3>4. Refilling(key, now, level)
      BY <3>1, <3>2, <3>3 DEF Refilling, s, L
    <3> QED BY <3>4 DEF level, L, b
  <2> QED BY <2>7, <2>8
<1> QED BY <1>2, <1>3

\* A token is taken from what the refill left.
LEMMA TokenGranted ==
  ASSUME LimiterInv, NEW key \in Keys, NEW now \in Nat, now <= second, second <= now + Lag,
         NEW level, Refilling(key, now, level), level >= Window,
         second' = second, buckets'[key] = [last |-> now, level |-> level - Window],
         served'[key] = Append(served[key], second)
  PROVE  (BucketOK(key) /\ GrantsPaid(key) /\ RefillKept(key) /\ KeyBounded(key))'
<1> DEFINE s == served[key]
           t == served'[key]
           L == Limit(key)
           n == Len(s)
           left == level - Window
<1>1. /\ L \in Nat \ {0} /\ Window \in Nat \ {0} /\ Lag \in Nat /\ second \in Nat
      /\ s \in Seq(Int) /\ n \in Nat /\ level \in Int /\ left \in Nat
  BY McpNumbers DEF LimiterInv, Refilling
<1>2. /\ Len(t) = n + 1 /\ t[n + 1] = second
      /\ \A m \in 1 .. n : t[m] = s[m] /\ s[m] \in Int /\ m \in Int
      /\ \A m \in 1 .. Len(t) : m \in Int /\ t[m] \in Int /\ (m = n + 1 \/ m \in 1 .. n)
  <2>1. second \in Int
    BY <1>1
  <2>2. /\ Len(t) = n + 1 /\ t[n + 1] = second
        /\ \A m \in 1 .. n : t[m] = s[m] /\ s[m] \in Int /\ m \in Int
    BY <1>1, <2>1, AppendProperties
  <2> QED BY SMTT(20), <1>1, <2>1, <2>2
<1>3. /\ level <= L * Window /\ level + (second - now) * L >= 0
      /\ \A m \in 1 .. n : level + (n - m + 1) * Window <= L * (Window + Lag + now - s[m])
      /\ level = L * Window \/ \E m \in 1 .. n :
             level + (n - m + 1) * Window >= L * (Window + now - s[m])
  BY DEF Refilling
<1>4. Limit(key) = L /\ buckets'[key].last = now /\ buckets'[key].level = left
      /\ buckets'[key] # NoBucket /\ L * Window \in Nat /\ Lag * L \in Nat
      /\ (second - now) * L \in Nat /\ NoBucket' = NoBucket /\ Limit(key)' = Limit(key)
  <2>1. buckets'[key].last = now /\ buckets'[key].level = left
    OBVIOUS
  <2>2. buckets'[key] # NoBucket
    BY <2>1 DEF NoBucket
  <2>3. second - now \in Nat
    BY <1>1
  <2>4. L * Window \in Nat /\ Lag * L \in Nat /\ (second - now) * L \in Nat
    <3> HIDE DEF L
    <3> QED BY <1>1, <2>3
  <2> QED BY <2>1, <2>2, <2>4 DEF NoBucket, Limit
<1> HIDE DEF s, t, L, n, left
<1>5. BucketOK(key)'
  <2> DEFINE full == L * Window
             owed == Lag * L
             refill == (second - now) * L
  <2>1. left <= full /\ left >= -owed /\ left + refill >= 0 /\ left \in Int
    <3>1. /\ full \in Nat /\ owed \in Nat /\ refill \in Nat /\ level <= full
          /\ left = level - Window /\ level \in Int /\ Window \in Nat /\ left \in Nat
      BY <1>1, <1>3, <1>4 DEF left
    <3> HIDE DEF full, owed, refill
    <3> QED BY <3>1
  <2> QED BY <1>4, <2>1 DEF BucketOK, L, left
\* What each grant costs, before and after.
<1>6. ASSUME NEW m \in 1 .. Len(t)
      PROVE  /\ left + (Len(t) - m + 1) * Window <= L * (Window + Lag + now - t[m])
             /\ L * (Window + Lag + now - t[m]) \in Int /\ (Len(t) - m + 1) * Window \in Int
  <2>0. /\ Window \in Int /\ Lag \in Int /\ now \in Int /\ t[m] \in Int /\ m \in Int
        /\ Len(t) \in Int /\ L \in Int /\ n \in Int /\ second \in Int
    <3>1. Window \in Int /\ Lag \in Int /\ L \in Int /\ n \in Int /\ second \in Int
      BY <1>1
    <3>2. Len(t) \in Int
      BY <1>2, <3>1
    <3>3. t[m] \in Int /\ m \in Int
      BY <1>2
    <3> QED BY <3>1, <3>2, <3>3
  <2>1. L * (Window + Lag + now - t[m]) \in Int /\ (Len(t) - m + 1) * Window \in Int
    <3>1. Window + Lag + now - t[m] \in Int /\ Len(t) - m + 1 \in Int
      BY <2>0
    <3> QED BY <2>0, <3>1
  <2>2. CASE m = n + 1
    <3>1. Len(t) - m + 1 = 1 /\ t[m] = second
      BY <1>1, <1>2, <2>2
    <3>2. left + 1 * Window = level
      BY <1>1 DEF left
    <3>3. Window <= Window + Lag + now - t[m] /\ Window + Lag + now - t[m] \in Int
      BY <1>1, <2>0, <3>1
    <3>4. L * Window <= L * (Window + Lag + now - t[m])
      BY <1>1, <2>0, <3>3, MoreTime
    <3>5. left + (Len(t) - m + 1) * Window = level
      BY <3>1, <3>2
    <3>6. level \in Int /\ L * Window \in Int /\ level <= L * Window
      BY <1>1, <1>3, <1>4
    <3>7. \A x, y, z \in Int : x <= y /\ y <= z => x <= z
      OBVIOUS
    <3> QED BY <2>1, <3>4, <3>5, <3>6, <3>7, Zenon
  <2>3. CASE m \in 1 .. n
    <3>1. t[m] = s[m] /\ Len(t) - m + 1 = (n - m + 1) + 1 /\ n - m + 1 \in Int
      <4>1. t[m] = s[m] /\ Len(t) = n + 1
        BY <1>2, <2>3
      <4>2. \A x, y \in Int : (x + 1) - y + 1 = (x - y + 1) + 1 /\ x - y + 1 \in Int
        OBVIOUS
      <4>3. m \in Int /\ n \in Int
        BY <2>0
      <4> QED BY <4>1, <4>2, <4>3, Zenon
    <3>2. (Len(t) - m + 1) * Window = (n - m + 1) * Window + Window /\ (n - m + 1) * Window \in Int
      BY <2>0, <3>1, OneMore
    <3>3. left + (Len(t) - m + 1) * Window = level + (n - m + 1) * Window
      <4> DEFINE x == (Len(t) - m + 1) * Window
                 y == (n - m + 1) * Window
      <4>1. x = y + Window /\ y \in Int /\ Window \in Int /\ level \in Int
        BY <1>1, <3>2
      <4> HIDE DEF x, y
      <4>2. left + x = level + y
        BY <4>1 DEF left
      <4> QED BY <4>2 DEF x, y
    <3> QED BY <1>3, <2>1, <2>3, <3>1, <3>3
  <2> QED BY <1>2, <2>1, <2>2, <2>3
<1>7. GrantsPaid(key)'
  BY <1>4, <1>6 DEF GrantsPaid, t, L
<1>8. RefillKept(key)'
  <2>1. CASE level = L * Window
    <3>1. Len(t) - (n + 1) + 1 = 1 /\ n + 1 \in 1 .. Len(t)
      BY <1>1, <1>2
    <3>2. left + 1 * Window = L * Window
      BY <1>1, <2>1 DEF left
    <3>3. Window + now - t[n + 1] <= Window /\ Window + now - t[n + 1] \in Int /\ Window \in Int
      BY <1>1, <1>2
    <3>4. L * (Window + now - t[n + 1]) <= L * Window
      BY <1>1, <3>3, MoreTime
    <3>5. left + (Len(t) - (n + 1) + 1) * Window >= L * (Window + now - t[n + 1])
      BY <3>1, <3>2, <3>4
    <3> QED BY <1>4, <3>1, <3>5 DEF RefillKept, t, L
  <2>2. ASSUME NEW m \in 1 .. n, level + (n - m + 1) * Window >= L * (Window + now - s[m])
        PROVE  RefillKept(key)'
    <3>1. /\ t[m] = s[m] /\ Len(t) - m + 1 = (n - m + 1) + 1 /\ n - m + 1 \in Int
          /\ m \in 1 .. Len(t)
      <4>1. n \in Int /\ m \in Int
        BY <1>1
      <4> QED BY <1>2, <4>1
    <3>2. (Len(t) - m + 1) * Window = (n - m + 1) * Window + Window /\ (n - m + 1) * Window \in Int
      <4>1. Window \in Int
        BY <1>1
      <4> QED BY <4>1, <3>1, OneMore
    <3>3. left + (Len(t) - m + 1) * Window = level + (n - m + 1) * Window
      <4> DEFINE x == (Len(t) - m + 1) * Window
                 y == (n - m + 1) * Window
      <4>1. x = y + Window /\ y \in Int /\ Window \in Int /\ level \in Int
        BY <1>1, <3>2
      <4> HIDE DEF x, y
      <4>2. left + x = level + y
        BY <4>1 DEF left
      <4> QED BY <4>2 DEF x, y
    <3>4. left + (Len(t) - m + 1) * Window >= L * (Window + now - t[m])
      BY <2>2, <3>1, <3>3
    <3> QED BY <1>4, <3>1, <3>4 DEF RefillKept, t, L
  <2> QED BY <1>3, <2>1, <2>2
<1>9. KeyBounded(key)'
  <2>1. ASSUME NEW m \in 1 .. Len(t), NEW j \in m .. Len(t)
        PROVE  (j - m + 1) * Window <= L * (Window + t[j] - t[m] + Lag)
    <3>1. CASE j = Len(t)
      <4>1. t[j] = second /\ t[m] \in Int
        BY <1>2, <3>1
      <4>2. left + (j - m + 1) * Window <= L * (Window + Lag + now - t[m])
        BY <1>6, <3>1
      <4>3. (j - m + 1) * Window <= L * (Window + Lag + now - t[m])
        BY <1>1, <1>6, <3>1, <4>2
      <4>4. /\ Window + Lag + now - t[m] \in Int /\ Window + t[j] - t[m] + Lag \in Int
            /\ Window + Lag + now - t[m] <= Window + t[j] - t[m] + Lag
        <5>1. Window \in Int /\ Lag \in Int /\ second \in Int
          BY <1>1
        <5>2. now \in Int /\ t[j] \in Int /\ now <= t[j]
          BY <4>1, <5>1
        <5> DEFINE late == t[j]
                   early == t[m]
        <5>3. late \in Int /\ early \in Int /\ now <= late
          BY <4>1, <5>2
        <5> HIDE DEF late, early
        <5>4. /\ Window + Lag + now - early \in Int /\ Window + late - early + Lag \in Int
              /\ Window + Lag + now - early <= Window + late - early + Lag
          BY <5>1, <5>2, <5>3
        <5> QED BY <5>4 DEF late, early
      <4>5. L * (Window + Lag + now - t[m]) <= L * (Window + t[j] - t[m] + Lag)
            /\ L * (Window + t[j] - t[m] + Lag) \in Int
        BY <1>1, <4>4, MoreTime
      <4>6. (j - m + 1) * Window \in Int
        BY <1>6, <3>1
      <4> QED BY <1>6, <4>3, <4>5, <4>6
    <3>2. CASE j # Len(t)
      <4>1. m \in 1 .. n /\ j \in m .. n /\ j \in 1 .. n
        <5>1. \A k, x, y \in Nat : x \in 1 .. k + 1 /\ y \in x .. k + 1 /\ y # k + 1
                                  => x \in 1 .. k /\ y \in x .. k /\ y \in 1 .. k
          OBVIOUS
        <5>2. m \in 1 .. n + 1 /\ j \in m .. n + 1 /\ j # n + 1
          BY <1>2, <3>2
        <5>3. n \in Nat
          BY <1>1
        <5>4. m \in Nat /\ j \in Nat
          BY <5>2, <5>3
        <5> QED BY <5>1, <5>2, <5>3, <5>4, Zenon
      <4>2. (j - m + 1) * Window <= L * (Window + s[j] - s[m] + Lag)
        BY <4>1 DEF LimiterInv, KeyBounded, s, n, L
      <4> QED BY <1>2, <4>1, <4>2
    <3> QED BY <3>1, <3>2
  <2> QED BY <1>4, <2>1 DEF KeyBounded, t, L
<1> QED BY <1>5, <1>7, <1>8, <1>9

\* A refusal: the level is kept, and was spent.
LEMMA TokenRefused ==
  ASSUME LimiterInv, NEW key \in Keys, NEW now \in Nat, now <= second, second <= now + Lag,
         NEW level, Refilling(key, now, level), ~(level >= Window),
         second' = second, buckets'[key] = [last |-> now, level |-> level],
         served' = served, denial'.on, denial'.key = key, denial'.at = second
  PROVE  /\ (BucketOK(key) /\ GrantsPaid(key) /\ RefillKept(key) /\ KeyBounded(key))'
         /\ DeniedOnlyWhenSpent'
<1> DEFINE s == served[key]
           L == Limit(key)
           n == Len(s)
<1>1. /\ L \in Nat \ {0} /\ Window \in Nat \ {0} /\ Lag \in Nat /\ second \in Nat
      /\ s \in Seq(Int) /\ n \in Nat /\ level \in Int
      /\ \A m \in 1 .. n : s[m] \in Int /\ m \in Int
  <2>1. L \in Nat \ {0} /\ Window \in Nat \ {0} /\ Lag \in Nat /\ LastSecond \in Nat
    BY McpNumbers
  <2>2. second \in 0 .. LastSecond /\ s \in Seq(Int)
    BY DEF LimiterInv
  <2>3. level \in Int
    BY DEF Refilling
  <2> HIDE DEF s, L
  <2>4. n \in Nat /\ \A m \in 1 .. n : s[m] \in Int /\ m \in Int
    BY <2>2
  <2>5. second \in Nat
    BY <2>1, <2>2
  <2> QED BY <2>1, <2>2, <2>3, <2>4, <2>5
<1>2. /\ level <= L * Window /\ level + (second - now) * L >= 0 /\ level >= -(Lag * L)
      /\ \A m \in 1 .. n : level + (n - m + 1) * Window <= L * (Window + Lag + now - s[m])
      /\ level = L * Window \/ \E m \in 1 .. n :
             level + (n - m + 1) * Window >= L * (Window + now - s[m])
  BY DEF Refilling
<1>3. level # L * Window
  <2>1. Window <= L * Window /\ L * Window \in Int
    <3>1. \A x, y \in Nat \ {0} : y <= x * y /\ x * y \in Int
      OBVIOUS
    <3> QED BY <1>1, <3>1, Zenon
  <2> HIDE DEF L
  <2> QED BY <1>1, <2>1
<1>4. buckets'[key].last = now /\ buckets'[key].level = level /\ buckets'[key] # NoBucket
  <2>1. buckets'[key].last = now /\ buckets'[key].level = level
    OBVIOUS
  <2> QED BY <2>1 DEF NoBucket
<1>5. BucketOK(key)'
  BY <1>1, <1>2, <1>4 DEF BucketOK, L, Limit
<1>6. GrantsPaid(key)' /\ RefillKept(key)'
  BY <1>2, <1>3, <1>4 DEF GrantsPaid, RefillKept, Limit, NoBucket
<1>7. KeyBounded(key)'
  BY DEF LimiterInv, KeyBounded, Limit
<1>8. DeniedOnlyWhenSpent'
  <2>1. PICK m \in 1 .. n : level + (n - m + 1) * Window >= L * (Window + now - s[m])
    BY <1>2, <1>3
  <2> HIDE DEF s, L, n
  <2>2. /\ Window \in Int /\ n \in Int /\ m \in Int /\ s[m] \in Int /\ L \in Nat /\ Lag \in Int
        /\ second \in Int /\ level < Window /\ level \in Int
    BY <1>1
  <2>3. /\ n - m + 2 = (n - m + 1) + 1 /\ n - m + 1 \in Int
        /\ Window + second - s[m] - Lag \in Int /\ Window + now - s[m] \in Int
        /\ Window + second - s[m] - Lag <= Window + now - s[m]
    BY <2>2
  <2>4. (n - m + 2) * Window = (n - m + 1) * Window + Window /\ (n - m + 1) * Window \in Int
    <3>1. PICK k \in Int : k = n - m + 1
      BY <2>3
    <3>2. (k + 1) * Window = k * Window + Window /\ k * Window \in Int
      BY <2>2, <3>1, OneMore
    <3> QED BY <2>3, <3>1, <3>2
  <2>5. /\ L * (Window + second - s[m] - Lag) <= L * (Window + now - s[m])
        /\ L * (Window + second - s[m] - Lag) \in Int /\ L * (Window + now - s[m]) \in Int
    BY <2>2, <2>3, MoreTime
  <2> DEFINE x == (n - m + 2) * Window
             y == (n - m + 1) * Window
             p == L * (Window + second - s[m] - Lag)
             q == L * (Window + now - s[m])
  <2>6. /\ x = y + Window /\ y \in Int /\ p <= q /\ p \in Int /\ q \in Int /\ level + y >= q
    BY <2>1, <2>4, <2>5
  <2> HIDE DEF x, y, p, q
  <2>7. x > p
    BY <2>2, <2>6
  <2>8. (n - m + 2) * Window > L * (Window + second - s[m] - Lag) /\ m \in 1 .. n
    BY <2>7 DEF x, p
  <2> QED BY <2>8 DEF DeniedOnlyWhenSpent, s, n, L, Limit
<1> QED BY <1>5, <1>6, <1>7, <1>8

\* A refusal stays explained: later grants only add to what was spent.
LEMMA DenialStands ==
  ASSUME LimiterInv, denial' = denial,
         \A key \in Keys : \/ served'[key] = served[key]
                           \/ served'[key] = Append(served[key], second)
  PROVE  DeniedOnlyWhenSpent'
<1> SUFFICES ASSUME denial.on
             PROVE  LET t == served'[denial.key] IN \E m \in 1 .. Len(t) :
                        (Len(t) - m + 2) * Window
                            > Limit(denial.key) * (Window + denial.at - t[m] - Lag)
  BY DEF DeniedOnlyWhenSpent, Limit
<1> DEFINE key == denial.key
           s == served[key]
           t == served'[key]
           L == Limit(key)
<1>1. key \in Keys /\ s \in Seq(Int) /\ Len(s) \in Nat /\ second \in Int
      /\ Window \in Nat /\ L \in Nat
  BY McpNumbers DEF LimiterInv
<1>2. PICK m \in 1 .. Len(s) : (Len(s) - m + 2) * Window > L * (Window + denial.at - s[m] - Lag)
  BY DEF LimiterInv, DeniedOnlyWhenSpent
<1>3. CASE t = s
  BY <1>2, <1>3
<1>4. CASE t = Append(s, second)
  <2>1. Len(t) = Len(s) + 1 /\ t[m] = s[m]
    BY <1>1, <1>4, AppendProperties
  <2> DEFINE most == L * (Window + denial.at - s[m] - Lag)
             k == Len(s) - m + 2
  <2>2. k \in Int /\ Len(t) - m + 2 = k + 1 /\ m \in 1 .. Len(t) /\ Window \in Int
    BY <1>1, <2>1
  <2>3. (k + 1) * Window = k * Window + Window /\ k * Window \in Int
    BY <2>2, OneMore
  <2>4. most \in Int
    <3>1. denial.at \in Int /\ s[m] \in Int /\ Lag \in Int
      BY <1>1, McpNumbers DEF LimiterInv
    <3> HIDE DEF s, L
    <3>2. Window \in Int /\ L \in Int
      BY <1>1
    <3>3. \A u, v, w, x, y \in Int : u * (v + w - x - y) \in Int
      OBVIOUS
    <3> QED BY <3>1, <3>2, <3>3, Zenon
  <2>5. k * Window > most
    BY <1>2
  <2>6. most = L * (Window + denial.at - t[m] - Lag)
    BY <2>1
  <2> HIDE DEF most, k, s, t, L
  <2>7. (k + 1) * Window > most
    <3> DEFINE x == k * Window
    <3>1. x \in Int /\ x > most /\ Window \in Nat /\ (k + 1) * Window = x + Window
      BY <1>1, <2>3, <2>5
    <3> HIDE DEF x
    <3> QED BY <2>4, <3>1
  <2> QED BY <2>2, <2>6, <2>7 DEF t, L
<1> QED BY <1>1, <1>3, <1>4

LEMMA ChecksKeeps ==
  ASSUME McpInv, NEW h \in Handlers, Checks(h)
  PROVE  LimiterInv'
<1>0. LimiterInv /\ CheckOK(h) /\ checks[h].on
  BY DEF McpInv, LimiterInv, Checks
<1>a. PICK key \in Keys, now \in Nat : key = checks[h].key /\ now = checks[h].now
  BY <1>0 DEF CheckOK, NoCheck
<1> DEFINE kept == Collected(now)
           level == Refilled(kept[key], Limit(key), now)
           enough == level >= Window
           awaited == promise[key] # NotTold
<1>1. LimiterInv /\ CheckOK(h) /\ checks[h].on /\ ServerInv
  BY DEF McpInv, LimiterInv, Checks
<1>2. /\ key \in Keys /\ now \in Nat /\ now <= second /\ second <= now + Lag
      /\ checks[h].token \in Tokens /\ contexts[h] = TokenTier[checks[h].token]
  BY <1>0, <1>a DEF CheckOK, NoCheck
<1>3. Refilling(key, now, level)
  BY <1>1, <1>2, RefillsFairly
<1>4. /\ second' = second
      /\ DOMAIN kept = Keys /\ DOMAIN buckets' = Keys /\ DOMAIN promise' = Keys
      /\ DOMAIN checks' = Handlers
      /\ \A k \in Keys : k # key => buckets'[k] = kept[k] /\ served'[k] = served[k]
      /\ buckets'[key] = [last |-> now, level |-> IF enough THEN level - Window ELSE level]
      /\ served' = IF enough THEN [served EXCEPT ![key] = Append(@, second)] ELSE served
      /\ \A g \in Handlers : g # h => checks'[g] = checks[g] /\ contexts'[g] = contexts[g]
  <2>1. DOMAIN kept = Keys
    BY <1>1 DEF LimiterInv, Collected
  <2>2. /\ buckets' = [kept EXCEPT ![key] =
                           [last |-> now, level |-> IF enough THEN level - Window ELSE level]]
        /\ served' = IF enough THEN [served EXCEPT ![key] = Append(@, second)] ELSE served
        /\ second' = second
    BY <1>a DEF Checks
  <2>3. DOMAIN checks' = Handlers /\ DOMAIN promise' = Keys
        /\ \A g \in Handlers : g # h => checks'[g] = checks[g] /\ contexts'[g] = contexts[g]
    BY <1>1 DEF Checks, LimiterInv, ServerInv
  <2>4. DOMAIN served = Keys
    BY <1>1 DEF LimiterInv
  <2> HIDE DEF kept, level, enough
  <2> QED BY <1>2, <2>1, <2>2, <2>3, <2>4
<1>5. lastCleanup' \in 0 .. second' /\ second' \in 0 .. LastSecond
  BY <1>1, <1>2, <1>a DEF Checks, LimiterInv
<1>6. \A g \in Handlers : CheckOK(g)'
  <2> TAKE g \in Handlers
  <2>1. CheckOK(g)
    BY <1>1 DEF LimiterInv
  <2>2. CASE g # h
    BY <1>4, <2>1, <2>2 DEF CheckOK, NoCheck
  <2>3. CASE g = h
    <3>1. /\ checks'[h] = IF enough THEN [on |-> FALSE, token |-> checks[h].token] ELSE NoCheck
          /\ enough => contexts' = contexts
      BY <1>1, <1>a DEF Checks, LimiterInv
    <3> HIDE DEF kept, level, enough
    <3>2. CASE enough
      BY <1>2, <2>3, <3>1, <3>2 DEF CheckOK
    <3>3. CASE ~enough
      BY <2>3, <3>1, <3>3 DEF CheckOK, NoCheck
    <3> QED BY <3>2, <3>3
  <2> QED BY <2>2, <2>3
<1>7. ASSUME NEW k \in Keys, k # key
      PROVE  (BucketOK(k) /\ GrantsPaid(k) /\ RefillKept(k) /\ KeyBounded(k))'
  <2>1. BucketOK(k) /\ GrantsPaid(k) /\ RefillKept(k) /\ KeyBounded(k)
    BY <1>1 DEF LimiterInv
  <2>2. /\ kept[k] = NoBucket \/ kept[k] = buckets[k]
        /\ kept[k] = NoBucket => \A m \in 1 .. Len(served[k]) :
               (Len(served[k]) - m + 1) * Window <= Limit(k) * (second - served[k][m])
    BY <1>1, <1>2, DroppedIsFull
  <2>3. buckets'[k] = kept[k] /\ served'[k] = served[k] /\ second' = second
    BY <1>4, <1>7
  <2> HIDE DEF kept
  <2>4. CASE kept[k] = NoBucket
    BY <2>1, <2>2, <2>3, <2>4 DEF BucketOK, GrantsPaid, RefillKept, KeyBounded, Limit, NoBucket
  <2>5. CASE kept[k] = buckets[k]
    BY <2>1, <2>3, <2>5 DEF BucketOK, GrantsPaid, RefillKept, KeyBounded, Limit, NoBucket
  <2> QED BY <2>2, <2>4, <2>5
<1>8. CASE enough
  <2>1. /\ served'[key] = Append(served[key], second) /\ denial' = denial
        /\ buckets'[key] = [last |-> now, level |-> level - Window]
        /\ served' = [served EXCEPT ![key] = Append(@, second)]
    <3>1. DOMAIN served = Keys /\ denial' = denial
      BY <1>1, <1>8, <1>a DEF LimiterInv, Checks
    <3> HIDE DEF kept, level
    <3> QED BY <1>2, <1>4, <1>8, <3>1
  <2>2. (BucketOK(key) /\ GrantsPaid(key) /\ RefillKept(key) /\ KeyBounded(key))'
    <3> HIDE DEF kept, level
    <3> QED BY <1>1, <1>2, <1>3, <1>4, <1>8, <2>1, TokenGranted DEF enough
  <2>3. served' \in [Keys -> Seq(Int)]
    <3>1. served \in [Keys -> Seq(Int)] /\ second \in Int
      BY <1>1 DEF LimiterInv
    <3> QED BY <1>2, <2>1, <3>1
  <2>4. DeniedOnlyWhenSpent'
    <3> HIDE DEF kept, level
    <3> QED BY <1>1, <1>4, <2>1, DenialStands
  <2>5. (denial.on => denial.key \in Keys /\ denial.at \in Int)'
    BY <1>1, <2>1 DEF LimiterInv, Keys
  <2>6. \A k \in Keys : (BucketOK(k) /\ GrantsPaid(k) /\ RefillKept(k) /\ KeyBounded(k))'
    BY <1>7, <2>2
  <2> QED BY <1>4, <1>5, <1>6, <2>3, <2>4, <2>5, <2>6 DEF LimiterInv, Keys
<1>9. CASE ~enough
  <2>1. /\ served' = served /\ buckets'[key] = [last |-> now, level |-> level]
        /\ denial'.on /\ denial'.key = key /\ denial'.at = second
    <3>1. denial' = [on |-> TRUE, key |-> key, at |-> second,
                     early |-> ~awaited \/ now < promise[key]]
      BY <1>9, <1>a DEF Checks
    <3> HIDE DEF kept, level, awaited
    <3> QED BY <1>4, <1>9, <3>1
  <2>2. /\ (BucketOK(key) /\ GrantsPaid(key) /\ RefillKept(key) /\ KeyBounded(key))'
        /\ DeniedOnlyWhenSpent'
    <3> HIDE DEF kept, level
    <3> QED BY <1>1, <1>2, <1>3, <1>4, <1>9, <2>1, TokenRefused DEF enough
  <2>3. served' \in [Keys -> Seq(Int)] /\ second \in Int
    BY <1>1, <2>1 DEF LimiterInv
  <2>5. (denial.on => denial.key \in Keys /\ denial.at \in Int)'
    BY <1>2, <2>1, <2>3 DEF Keys
  <2>6. \A k \in Keys : (BucketOK(k) /\ GrantsPaid(k) /\ RefillKept(k) /\ KeyBounded(k))'
    BY <1>7, <2>2
  <2> QED BY <1>4, <1>5, <1>6, <2>2, <2>3, <2>5, <2>6 DEF LimiterInv, Keys
<1> QED BY <1>8, <1>9

\* Time passes: the bound on the lag keeps every check within its reach.
LEMMA SecondKeeps ==
  ASSUME McpInv, SecondPasses
  PROVE  LimiterInv'
<1>1. /\ LimiterInv /\ second \in Nat /\ second' = second + 1 /\ second' \in 0 .. LastSecond
      /\ UNCHANGED <<buckets, lastCleanup, served, promise, denial, checks, contexts>>
      /\ lastCleanup \in 0 .. second
  BY McpNumbers DEF McpInv, LimiterInv, SecondPasses, bucketVars
<1>2. ASSUME NEW key \in Keys
      PROVE  (BucketOK(key) /\ GrantsPaid(key) /\ RefillKept(key) /\ KeyBounded(key))'
  <2> DEFINE b == buckets[key]
             s == served[key]
             L == Limit(key)
  <2>1. /\ BucketOK(key) /\ GrantsPaid(key) /\ RefillKept(key) /\ KeyBounded(key)
        /\ L \in Nat \ {0} /\ s \in Seq(Int) /\ Len(s) \in Nat /\ Limit(key)' = L
        /\ Window \in Int
    BY <1>1, McpNumbers DEF LimiterInv, Limit
  <2>2. BucketOK(key)'
    <3>1. CASE b = NoBucket
      BY <1>1, <3>1 DEF BucketOK, NoBucket
    <3>2. CASE b # NoBucket
      <4>1. /\ b \in [last : Nat, level : Int] /\ b.last <= second
            /\ b.level + (second - b.last) * L >= 0
        BY <2>1, <3>2 DEF BucketOK
      <4> DEFINE later == second'
                 x == (second - b.last) * L
                 y == (later - b.last) * L
      <4>2. later = second + 1 /\ later \in Nat /\ b.last <= later
        BY <1>1, <4>1
      <4> HIDE DEF later, b, L
      <4>3. y = x + L /\ x \in Int
        <5>1. later - b.last = (second - b.last) + 1 /\ second - b.last \in Int /\ L \in Int
          BY <1>1, <2>1, <4>1, <4>2
        <5> QED BY <5>1, OneMore
      <4>4. b.level + x >= 0 /\ b.level \in Int /\ L \in Nat
        BY <2>1, <4>1
      <4> HIDE DEF x, y
      <4>5. b.level + y >= 0
        BY <4>3, <4>4
      <4>6. b.level >= -(Lag * L) /\ b.level <= L * Window
        BY <2>1, <3>2 DEF BucketOK, b, L
      <4>7. buckets'[key] = b
        BY <1>1 DEF b
      <4> QED BY <2>1, <4>1, <4>2, <4>5, <4>6, <4>7 DEF BucketOK, y, later
    <3> QED BY <3>1, <3>2
  <2>3. GrantsPaid(key)'
    <3>1. CASE b = NoBucket
      <4> DEFINE later == second'
      <4>0. later = second + 1 /\ later \in Nat
        BY <1>1
      <4> HIDE DEF later
      <4>1. ASSUME NEW m \in 1 .. Len(s)
            PROVE  (Len(s) - m + 1) * Window <= L * (later - s[m])
        <5>1. s[m] \in Int /\ Len(s) - m + 1 \in Int /\ L \in Nat /\ second \in Int
          BY <1>1, <2>1
        <5>2. (Len(s) - m + 1) * Window <= L * (second - s[m])
          BY <2>1, <3>1 DEF GrantsPaid
        <5> HIDE DEF s, L
        <5>3. second - s[m] \in Int /\ later - s[m] \in Int /\ second - s[m] <= later - s[m]
          BY <4>0, <5>1
        <5>4. /\ L * (second - s[m]) <= L * (later - s[m])
              /\ L * (second - s[m]) \in Int /\ L * (later - s[m]) \in Int
              /\ (Len(s) - m + 1) * Window \in Int
          BY <2>1, <5>1, <5>3, MoreTime, OneMore
        <5> QED BY <5>2, <5>4
      <4>2. buckets'[key] = NoBucket /\ served'[key] = s /\ NoBucket' = NoBucket
        BY <1>1, <3>1 DEF NoBucket
      <4> HIDE DEF s, L
      <4> QED BY <2>1, <4>1, <4>2, Zenon DEF GrantsPaid, later
    <3>2. CASE b # NoBucket
      BY <1>1, <2>1, <3>2 DEF GrantsPaid, NoBucket
    <3> QED BY <3>1, <3>2
  <2>4. RefillKept(key)' /\ KeyBounded(key)'
    BY <1>1, <2>1 DEF RefillKept, KeyBounded, NoBucket
  <2> QED BY <2>2, <2>3, <2>4
<1>3. ASSUME NEW g \in Handlers
      PROVE  CheckOK(g)'
  <2>1. CheckOK(g) /\ (checks[g].on => second < checks[g].now + Lag)
    BY <1>1 DEF LimiterInv, SecondPasses
  <2>2. CASE checks[g] = NoCheck
    BY <1>1, <2>2 DEF CheckOK, NoCheck
  <2>3. CASE checks[g] # NoCheck /\ checks[g].on = FALSE
    BY <1>1, <2>1, <2>3 DEF CheckOK, NoCheck
  <2>4. CASE checks[g] # NoCheck /\ checks[g].on = TRUE
    <3>1. /\ checks[g].now \in Nat /\ checks[g].now <= second + 1
          /\ second + 1 <= checks[g].now + Lag
      BY <1>1, <2>1, <2>4, McpNumbers DEF CheckOK
    <3> QED BY <1>1, <2>1, <2>4, <3>1 DEF CheckOK, Keys
  <2> QED BY <2>1, <2>2, <2>3, <2>4 DEF CheckOK
<1>4. DeniedOnlyWhenSpent'
  BY <1>1 DEF LimiterInv, DeniedOnlyWhenSpent, Limit
<1>5. lastCleanup' \in 0 .. second'
  BY <1>1
<1> QED BY <1>1, <1>2, <1>3, <1>4, <1>5 DEF LimiterInv, Keys

-----------------------------------------------------------------------------
(* The MCP server: its tools *)

AnswerOf(tier) == returned.call \in ToolCalls /\ returned.reply = ToolReply(tier, returned.call)

\* What was returned last was a tool's answer to a call, in the tier of its caller.
ReturnedOK ==
    returned.on =>
        /\ returned.tier \in {"free", "pro"}
        /\ AnswerOf(returned.tier)
        /\ TierOfItsOwn

LEMMA UniqueIds ==
    \A m, n \in 1 .. Len(Catalogue) : m # n => Catalogue[m].id # Catalogue[n].id
  BY Zenon, McpAssumption DEF McpAssumption

LEMMA ControlsAre ==
    /\ Len(Catalogue) \in Nat /\ ProControls \in Nat /\ Len(Catalogue) <= ProControls
    /\ FreeControls \in Nat /\ FreeControls >= 1
<1>1. /\ ProControls \in Nat /\ FreeControls \in Nat \ {0} /\ Len(Catalogue) \in 0 .. ProControls
  BY Zenon, McpAssumption DEF McpAssumption
<1> HIDE McpAssumption
<1>2. /\ Len(Catalogue) \in Nat /\ Len(Catalogue) <= ProControls
      /\ FreeControls \in Nat /\ FreeControls >= 1
  BY <1>1
<1> QED BY <1>1, <1>2

\* The first elements of a set of numbers, as many as a limit allows.
First(found, limit) == {n \in found : Cardinality({m \in found : m < n}) < limit}

LEMMA FirstFacts ==
  ASSUME NEW N \in Nat, NEW found \in SUBSET (1 .. N), NEW limit \in Nat
  PROVE  /\ First(found, limit) \subseteq found
         /\ limit >= N => First(found, limit) = found
         /\ limit >= 1 => Cardinality(First(found, limit)) <= limit
         /\ IsFiniteSet(First(found, limit)) /\ Cardinality(First(found, limit)) \in Nat
<1>0. \A n \in found : n \in Int /\ n >= 1 /\ n <= N
  OBVIOUS
<1>1. First(found, limit) \subseteq found
  BY DEF First
<1>2. ASSUME limit >= N, NEW n \in found
      PROVE  Cardinality({m \in found : m < n}) < limit
  <2>1. n \in Int /\ n >= 1 /\ n <= N
    BY <1>0
  <2>2. {m \in found : m < n} \subseteq 1 .. (n - 1)
    <3> SUFFICES ASSUME NEW m \in found, m < n PROVE m \in 1 .. (n - 1)
      OBVIOUS
    <3>1. m \in Int /\ m >= 1
      BY <1>0
    <3> QED BY <2>1, <3>1
  <2>3. IsFiniteSet(1 .. (n - 1)) /\ Cardinality(1 .. (n - 1)) = n - 1
    <3>1. 1 \in Int /\ n - 1 \in Int
      BY <2>1
    <3>2. IsFiniteSet(1 .. (n - 1))
          /\ Cardinality(1 .. (n - 1)) = IF 1 > n - 1 THEN 0 ELSE (n - 1) - 1 + 1
      BY <3>1, FS_Interval
    <3> QED BY <2>1, <3>2
  <2>4. Cardinality({m \in found : m < n}) <= n - 1 /\ IsFiniteSet({m \in found : m < n})
    BY <2>2, <2>3, FS_Subset
  <2>5. Cardinality({m \in found : m < n}) \in Nat
    BY <2>4, FS_CardinalityType
  <2> QED BY <1>2, <2>1, <2>4, <2>5
<1>3. IsFiniteSet(1 .. N)
  BY FS_Interval
<1>4. IsFiniteSet(found)
  BY <1>3, FS_Subset
<1> DEFINE L == First(found, limit)
<1>5. L \subseteq found /\ IsFiniteSet(L) /\ Cardinality(L) \in Nat
  BY <1>1, <1>4, FS_Subset, FS_CardinalityType
<1>7. ASSUME L # {}, limit >= 1
      PROVE  Cardinality(L) <= limit
  <2> HIDE DEF L
  <2>1. PICK x \in L : \A n \in L : n <= x
    <3> DEFINE S == {N - n : n \in L}
    <3>1. S \subseteq Nat /\ S # {}
      <4>1. ASSUME NEW n \in L PROVE N - n \in Nat
        <5>1. n \in Int /\ n <= N
          BY <1>0, <1>5
        <5> QED BY <5>1
      <4> QED BY <1>7, <4>1
    <3>2. PICK k \in S : \A j \in S : k <= j
      BY <3>1, LeastNat
    <3>3. PICK x \in L : k = N - x
      BY <3>2
    <3>4. ASSUME NEW n \in L PROVE n <= x
      <4>1. N - x <= N - n
        BY <3>2, <3>3
      <4>2. n \in Int /\ x \in Int
        BY <1>0, <1>5
      <4> QED BY <4>1, <4>2
    <3> QED BY <3>4
  <2> DEFINE B == {m \in found : m < x}
  <2>2. IsFiniteSet(B) /\ x \notin B /\ Cardinality(B) \in Nat
    <3>1. x \in Int /\ B \subseteq found
      BY <1>0, <1>5
    <3> QED BY <1>4, <3>1, FS_Subset, FS_CardinalityType
  <2>3. Cardinality(B \union {x}) = Cardinality(B) + 1 /\ IsFiniteSet(B \union {x})
    BY <2>2, FS_AddElement
  <2>4. L \subseteq B \union {x}
    <3> SUFFICES ASSUME NEW n \in L, n # x PROVE n \in B
      OBVIOUS
    <3>1. n \in found /\ n \in Int /\ x \in Int /\ n <= x
      BY <1>0, <1>5, <2>1
    <3> QED BY <3>1
  <2>5. Cardinality(L) <= Cardinality(B \union {x})
    BY <2>3, <2>4, FS_Subset
  <2>6. Cardinality(B) < limit
    BY DEF L, First
  <2> QED BY <1>5, <2>2, <2>3, <2>5, <2>6
<1>8. limit >= 1 => Cardinality(L) <= limit
  BY <1>7, FS_EmptySet
<1>9. limit >= N => L = found
  BY <1>2 DEF First
<1> QED BY Zenon, <1>1, <1>5, <1>8, <1>9

\* A limit takes places of those found: for the pro tier all of them, for the free tier
\* no more than FreeControls.
LEMMA LimitedFacts ==
  ASSUME NEW found \in SUBSET (1 .. Len(Catalogue))
  PROVE  /\ Limited("free", found) \subseteq found
         /\ Limited("pro", found) = found
         /\ Cardinality(Limited("free", found)) <= FreeControls
         /\ IsFiniteSet(Limited("free", found)) /\ Cardinality(Limited("free", found)) \in Nat
<1>1. Limited("free", found) = First(found, FreeControls)
      /\ Limited("pro", found) = First(found, ProControls)
  BY Zenon DEF Limited, First
<1> DEFINE N == Len(Catalogue)
<1>2. N \in Nat /\ ProControls \in Nat /\ N <= ProControls /\ FreeControls \in Nat /\ FreeControls >= 1
  BY ControlsAre
<1>3. found \in SUBSET (1 .. N)
  OBVIOUS
<1> HIDE DEF N
<1>4. First(found, ProControls) = found
  BY <1>2, <1>3, FirstFacts
<1>5. /\ First(found, FreeControls) \subseteq found
      /\ Cardinality(First(found, FreeControls)) <= FreeControls
      /\ IsFiniteSet(First(found, FreeControls)) /\ Cardinality(First(found, FreeControls)) \in Nat
  BY <1>2, <1>3, FirstFacts
<1> QED BY Zenon, <1>1, <1>4, <1>5

\* No text leaves a tool that matches a pattern.
LEMMA ListedFacts ==
  ASSUME NEW about, NEW controls, NEW item \in Listed(about, controls)
  PROVE  item.text \subseteq {"other", "marker"} /\ item.about = about
         /\ \E c \in controls : item = [about |-> about, name |-> c.id, text |-> Redacted(c.text)]
<1>1. PICK c \in controls : item = [about |-> about, name |-> c.id, text |-> Redacted(c.text)]
  BY DEF Listed
<1>2. item.text = Redacted(c.text) /\ item.about = about
  BY <1>1
<1>3. Redacted(c.text) \subseteq {"other", "marker"}
  BY DEF Redacted
<1> QED BY <1>1, <1>2, <1>3

LEMMA ListedGrows ==
  ASSUME NEW about, NEW some, NEW more, some \subseteq more
  PROVE  Listed(about, some) \subseteq Listed(about, more)
  BY DEF Listed

LEMMA FoundPlaces ==
  ASSUME NEW topic, NEW framework
  PROVE  /\ Found(topic, framework) \in SUBSET (1 .. Len(Catalogue))
         /\ Found(topic, framework) \subseteq Found("", framework)
  BY DEF Found

\* The kinds of a reply.
LEMMA ReplyFields ==
  ASSUME NEW gated, NEW items, NEW sum
  PROVE  /\ Reply(gated, items, sum).gated = gated
         /\ Reply(gated, items, sum).items = items
         /\ Reply(gated, items, sum).score = sum
  BY DEF Reply

LEMMA CallKinds ==
  ASSUME NEW call \in ToolCalls
  PROVE  \/ call.tool \in {"lookup_control", "compliance_map", "code_review",
                           "agent_classify", "get_governance_resource"}
         \/ call.tool = "risk_score" /\ call.factor \in Int
  BY Zenon, McpAssumption DEF McpAssumption

\* A tool's reply to the free tier, to the pro tier, and what the two share.
TakesPart(free, full) ==
    /\ free.items \subseteq full.items
    /\ free.score \in Int /\ full.score \in Int /\ free.score <= full.score
    /\ full.gated = FALSE
    /\ \A item \in full.items : item.text \subseteq {"other", "marker"}

LEMMA RepliesPart ==
  ASSUME NEW g, NEW some, NEW low \in Int, NEW more, NEW high \in Int, some \subseteq more,
         low <= high, \A item \in more : item.text \subseteq {"other", "marker"}
  PROVE  TakesPart(Reply(g, some, low), Reply(FALSE, more, high))
<1> DEFINE a == Reply(g, some, low)
           b == Reply(FALSE, more, high)
<1>1. a.items = some /\ a.score = low /\ b.items = more /\ b.score = high
  BY DEF Reply
<1>3. b.gated = FALSE
  BY Zenon, ReplyFields
<1> HIDE DEF a, b
<1>2. TakesPart(a, b)
  BY Zenon, <1>1, <1>3 DEF TakesPart
<1> QED BY <1>2 DEF a, b

LEMMA FreeTakesPart ==
  ASSUME NEW call \in ToolCalls
  PROVE  TakesPart(ToolReply("free", call), ToolReply("pro", call))
<1>1. CASE call.tool = "lookup_control"
  <2>1. \A tier : ToolReply(tier, call) = Reply(FALSE, Listed("", LookedUp(tier, call)), 0)
    BY <1>1 DEF ToolReply
  <2>2. LookedUp("free", call) \subseteq LookedUp("pro", call)
    <3>1. Found(call.topic, call.framework) \in SUBSET (1 .. Len(Catalogue))
      BY FoundPlaces
    <3>2. Limited("free", Found(call.topic, call.framework))
              \subseteq Limited("pro", Found(call.topic, call.framework))
      BY <3>1, LimitedFacts
    <3> QED BY <3>2 DEF LookedUp, ControlsAt
  <2>3. Listed("", LookedUp("free", call)) \subseteq Listed("", LookedUp("pro", call))
    BY <2>2, ListedGrows
  <2>4. \A item \in Listed("", LookedUp("pro", call)) : item.text \subseteq {"other", "marker"}
    BY ListedFacts
  <2>0. 0 \in Int /\ 0 <= 0
    OBVIOUS
  <2> QED BY Zenon, <2>0, <2>1, <2>3, <2>4, RepliesPart
<1>2. CASE call.tool = "compliance_map"
  <2>1. \A tier : ToolReply(tier, call) = Reply(FALSE, Mapped(tier, call), 0)
    BY <1>2 DEF ToolReply
  <2>2. Available("free", call) \subseteq Available("pro", call)
    BY DEF Available, Gated
  <2> DEFINE cited(tier) == Available(tier, call) \cap call.cites # {}
             found(tier, f) == IF cited(tier) \/ Found(call.topic, f) = {} THEN Found("", f)
                               ELSE Found(call.topic, f)
             listed(tier, f) == Listed(f, ControlsAt(Limited(tier, found(tier, f))))
  <2>3. \A tier : Mapped(tier, call) = UNION {listed(tier, f) : f \in Available(tier, call)}
    BY DEF Mapped
  <2>4. ASSUME NEW f \in Available("free", call)
        PROVE  listed("free", f) \subseteq listed("pro", f)
    <3>1. found("free", f) \subseteq found("pro", f)
      BY <2>2, FoundPlaces
    <3>2. found("free", f) \in SUBSET (1 .. Len(Catalogue)) /\ found("pro", f) \in SUBSET (1 .. Len(Catalogue))
      BY FoundPlaces
    <3> HIDE DEF found
    <3>3. Limited("free", found("free", f)) \subseteq Limited("pro", found("pro", f))
      BY <3>1, <3>2, LimitedFacts
    <3>4. ControlsAt(Limited("free", found("free", f))) \subseteq ControlsAt(Limited("pro", found("pro", f)))
      BY <3>3 DEF ControlsAt
    <3> QED BY <3>4, ListedGrows
  <2>5. ASSUME NEW f, NEW item \in listed("pro", f)
        PROVE  item.text \subseteq {"other", "marker"}
    <3> DEFINE places == ControlsAt(Limited("pro", found("pro", f)))
    <3>1. item \in Listed(f, places)
      OBVIOUS
    <3> HIDE DEF places
    <3> QED BY <3>1, ListedFacts
  <2> HIDE DEF listed
  <2>6. Mapped("free", call) \subseteq Mapped("pro", call)
    BY <2>2, <2>3, <2>4
  <2>7. \A item \in Mapped("pro", call) : item.text \subseteq {"other", "marker"}
    BY <2>3, <2>5
  <2>0. 0 \in Int /\ 0 <= 0
    OBVIOUS
  <2> QED BY Zenon, <2>0, <2>1, <2>6, <2>7, RepliesPart
<1>3. CASE call.tool = "code_review"
  <2>1. /\ ToolReply("free", call) = Reply(TRUE, {}, 0)
        /\ ToolReply("pro", call) = Reply(FALSE, Listed("", Reviewed(call.pillar)), 0)
    BY <1>3 DEF ToolReply, Gated
  <2>2. \A item \in Listed("", Reviewed(call.pillar)) : item.text \subseteq {"other", "marker"}
    BY ListedFacts
  <2>0. 0 \in Int /\ 0 <= 0
    OBVIOUS
  <2> QED BY Zenon, <2>0, <2>1, <2>2, RepliesPart
<1>4. CASE call.tool = "agent_classify"
  <2> DEFINE act == DetectedAct(call.agent)
             items == Listed("", {c \in AllControls : act \in c.mandatory})
  <2>1. act \in Int /\ act <= act
    BY DEF DetectedAct
  <2>2. /\ ToolReply("free", call) = Reply(FALSE, items, act) \/ ToolReply("free", call) = Reply(TRUE, {}, act)
        /\ ToolReply("pro", call) = Reply(FALSE, items, act)
    BY <1>4 DEF ToolReply, Classified, Gated
  <2>3. \A item \in items : item.text \subseteq {"other", "marker"}
    BY ListedFacts
  <2> HIDE DEF act, items
  <2>4. {} \subseteq items /\ items \subseteq items
    OBVIOUS
  <2> QED BY Zenon, <2>1, <2>2, <2>3, <2>4, RepliesPart
<1>5. CASE call.tool = "get_governance_resource"
  <2> DEFINE names(tier) == Retrieved(tier, call.name)
             items(tier) == {[about |-> "resource", name |-> r, text |-> {}] : r \in names(tier)}
             g(tier) == call.name # "" /\ names(tier) = {} /\ Gated(tier)
  <2>1. \A tier : ToolReply(tier, call) = Reply(g(tier), items(tier), 0)
    BY <1>5 DEF ToolReply
  <2>2. names("free") \subseteq names("pro")
    BY DEF Retrieved, Gated
  <2>3. items("free") \subseteq items("pro") /\ \A item \in items("pro") : item.text \subseteq {"other", "marker"}
    BY <2>2
  <2>4. g("pro") = FALSE
    BY DEF Gated
  <2>5. /\ ToolReply("free", call) = Reply(g("free"), items("free"), 0)
        /\ ToolReply("pro", call) = Reply(FALSE, items("pro"), 0)
    BY Zenon, <2>1, <2>4
  <2> HIDE DEF items, g
  <2>0. 0 \in Int /\ 0 <= 0
    OBVIOUS
  <2> QED BY Zenon, <2>0, <2>5, <2>3, RepliesPart
<1>6. CASE call.tool = "risk_score" /\ call.factor \in Int
  <2> DEFINE valid == call.cvss \in 0 .. 10 /\ call.pillarScore \in 0 .. 100
             sum(tier) == IF valid THEN RiskScore(tier, call) ELSE 0
  <2>1. \A tier : ToolReply(tier, call) = Reply(FALSE, {}, sum(tier))
    BY <1>6 DEF ToolReply
  <2>2. sum("free") \in Int /\ sum("pro") \in Int /\ sum("free") <= sum("pro")
    <3>1. CASE valid
      <4>1. 10 * call.cvss + (100 - call.pillarScore) \in Int
        BY <3>1
      <4> DEFINE base == 10 * call.cvss + (100 - call.pillarScore)
                 clamped == IF call.factor < 0 THEN 0 ELSE IF call.factor > 10 THEN 10 ELSE call.factor
      <4>2. sum("free") = base + 0 /\ sum("pro") = base + clamped
        BY <3>1, Zenon DEF RiskScore, Gated
      <4>3. clamped \in Nat
        BY <1>6
      <4> HIDE DEF base, clamped, sum
      <4> QED BY <4>1, <4>2, <4>3 DEF base
    <3>2. CASE ~valid
      BY <3>2
    <3> QED BY <3>1, <3>2
  <2> HIDE DEF sum
  <2>0. 0 \in Int /\ 0 <= 0
    OBVIOUS
  <2> QED BY Zenon, <2>0, <2>1, <2>2, RepliesPart
<1> QED BY <1>1, <1>2, <1>3, <1>4, <1>5, <1>6, CallKinds

\* A list is no longer than the places it comes from.
LEMMA ListedCount ==
  ASSUME NEW about, NEW places, IsFiniteSet(places), Cardinality(places) <= FreeControls,
         NEW some, some \subseteq Listed(about, ControlsAt(places))
  PROVE  Cardinality(some) <= FreeControls
<1> DEFINE list == Listed(about, ControlsAt(places))
           item(c) == [about |-> about, name |-> c.id, text |-> Redacted(c.text)]
           f == [n \in places |-> item(Catalogue[n])]
<1>1. list = {item(c) : c \in ControlsAt(places)}
  BY DEF Listed
<1>2. list = {item(Catalogue[n]) : n \in places}
  <2> HIDE DEF item
  <2> QED BY <1>1 DEF ControlsAt
<1> HIDE DEF item, list
<1>3. f \in [places -> list] /\ \A t \in list : \E n \in places : f[n] = t
  BY <1>2
<1>4. f \in Surjection(places, list)
  BY <1>3 DEF Surjection
<1> HIDE DEF f
<1>5. IsFiniteSet(list) /\ Cardinality(list) <= Cardinality(places)
  BY <1>4, FS_Surjection
<1>6. some \subseteq list
  BY DEF list
<1>7. IsFiniteSet(some) /\ Cardinality(some) <= Cardinality(list)
  BY <1>5, <1>6, FS_Subset
<1>8. Cardinality(some) \in Nat /\ Cardinality(list) \in Nat /\ Cardinality(places) \in Nat
  BY <1>5, <1>7, FS_CardinalityType
<1> QED BY <1>5, <1>7, <1>8, ControlsAre

LEMMA FrameworkNames == FreeFrameworks \subseteq Frameworks /\ "" \notin Frameworks /\ "resource" \notin Frameworks
<1>1. FreeFrameworks \subseteq Frameworks /\ {"", "resource"} \cap Frameworks = {}
  BY Zenon, McpAssumption DEF McpAssumption
<1> QED BY <1>1

\* What a free caller is told of what is sold.
FreeShare(call, items) ==
    /\ \A item \in items : item.about = "resource" => Resources[item.name] = "free"
    /\ call.tool = "compliance_map" => \A item \in items : item.about \in FreeFrameworks
    /\ call.tool \in {"lookup_control", "compliance_map"} =>
           \A f \in Frameworks \cup {""} :
               Cardinality({item \in items : item.about = f}) <= FreeControls

LEMMA ItemsOf ==
  ASSUME NEW r, NEW gated, NEW items, NEW sum, r = Reply(gated, items, sum)
  PROVE  r.items = items
  BY DEF Reply

LEMMA FreeShareKept ==
  ASSUME NEW call \in ToolCalls
  PROVE  FreeShare(call, ToolReply("free", call).items)
<1>1. CASE call.tool = "lookup_control"
  <2> DEFINE items == Listed("", LookedUp("free", call))
  <2>0. ToolReply("free", call) = Reply(FALSE, items, 0)
    BY <1>1 DEF ToolReply
  <2>1. ToolReply("free", call).items = items
    BY Zenon, <2>0, ItemsOf
  <2>2. PICK places : /\ IsFiniteSet(places) /\ Cardinality(places) <= FreeControls
                      /\ LookedUp("free", call) \subseteq ControlsAt(places)
    <3>1. CASE call.id # ""
      <4>1. LookedUp("free", call) = {c \in AllControls : c.id = call.id}
        BY <3>1 DEF LookedUp
      <4>2. CASE LookedUp("free", call) = {}
        BY <4>2, FS_EmptySet, ControlsAre
      <4>3. CASE LookedUp("free", call) # {}
        <5>1. PICK n \in 1 .. Len(Catalogue) : Catalogue[n].id = call.id
          BY <4>1, <4>3 DEF AllControls, ControlsAt
        <5>2. LookedUp("free", call) \subseteq ControlsAt({n})
          BY <4>1, <5>1, UniqueIds DEF AllControls, ControlsAt
        <5>3. IsFiniteSet({n}) /\ Cardinality({n}) <= FreeControls
          BY FS_Singleton, ControlsAre
        <5> QED BY <5>2, <5>3
      <4> QED BY <4>2, <4>3
    <3>2. CASE call.id = ""
      <4> DEFINE found == Found(call.topic, call.framework)
      <4>1. LookedUp("free", call) = ControlsAt(Limited("free", found))
        BY <3>2 DEF LookedUp
      <4>2. IsFiniteSet(Limited("free", found)) /\ Cardinality(Limited("free", found)) <= FreeControls
        BY FoundPlaces, LimitedFacts
      <4> QED BY <4>1, <4>2
    <3> QED BY <3>1, <3>2
  <2>3. items \subseteq Listed("", ControlsAt(places))
    BY <2>2, ListedGrows
  <2>4. \A item \in items : item.about = ""
    BY ListedFacts
  <2> HIDE DEF items
  <2>5. ASSUME NEW f
        PROVE  Cardinality({item \in items : item.about = f}) <= FreeControls
    <3>1. {item \in items : item.about = f} \subseteq Listed("", ControlsAt(places))
      BY <2>3
    <3> QED BY <2>2, <3>1, ListedCount
  <2> QED BY <1>1, <2>1, <2>4, <2>5 DEF FreeShare
<1>2. CASE call.tool = "compliance_map"
  <2> DEFINE cited == Available("free", call) \cap call.cites # {}
             found(f) == IF cited \/ Found(call.topic, f) = {} THEN Found("", f)
                         ELSE Found(call.topic, f)
             listed(f) == Listed(f, ControlsAt(Limited("free", found(f))))
             items == UNION {listed(f) : f \in Available("free", call)}
  <2>0. ToolReply("free", call) = Reply(FALSE, items, 0)
    <3>1. ToolReply("free", call) = Reply(FALSE, Mapped("free", call), 0)
      BY <1>2 DEF ToolReply
    <3>2. Mapped("free", call) = items
      BY Zenon DEF Mapped
    <3> QED BY Zenon, <3>1, <3>2
  <2>1. ToolReply("free", call).items = items
    BY Zenon, <2>0, ItemsOf
  <2>2. Available("free", call) \subseteq FreeFrameworks
    BY DEF Available, Gated
  <2>3. ASSUME NEW f, NEW item \in listed(f) PROVE item.about = f
    <3> DEFINE c == ControlsAt(Limited("free", found(f)))
    <3>1. item \in Listed(f, c)
      OBVIOUS
    <3> HIDE DEF c
    <3> QED BY <3>1, ListedFacts
  <2>4. ASSUME NEW f PROVE Cardinality({item \in items : item.about = f}) <= FreeControls
    <3> DEFINE places == Limited("free", found(f))
    <3>1. found(f) \in SUBSET (1 .. Len(Catalogue))
      BY FoundPlaces
    <3>2. IsFiniteSet(places) /\ Cardinality(places) <= FreeControls
      <4> HIDE DEF found
      <4> QED BY <3>1, LimitedFacts
    <3>3. {item \in items : item.about = f} \subseteq Listed(f, ControlsAt(places))
      <4>1. listed(f) = Listed(f, ControlsAt(places))
        OBVIOUS
      <4> HIDE DEF listed, places
      <4> QED BY <2>3, <4>1
    <3> HIDE DEF places, items
    <3> QED BY <3>2, <3>3, ListedCount
  <2> HIDE DEF listed
  <2>5. \A item \in items : item.about \in FreeFrameworks
    BY <2>2, <2>3
  <2> HIDE DEF items
  <2>6. \A item \in items : item.about # "resource"
    BY <2>5, FrameworkNames
  <2> QED BY <2>1, <2>4, <2>5, <2>6 DEF FreeShare
<1>3. CASE call.tool = "code_review"
  <2>1. ToolReply("free", call) = Reply(TRUE, {}, 0)
    BY <1>3 DEF ToolReply, Gated
  <2>2. ToolReply("free", call).items = {}
    BY Zenon, <2>1, ItemsOf
  <2> QED BY <1>3, <2>2 DEF FreeShare
<1>4. CASE call.tool = "agent_classify"
  <2>1. PICK controls : ToolReply("free", call).items \subseteq Listed("", controls)
    <3> DEFINE act == DetectedAct(call.agent)
               controls == {c \in AllControls : act \in c.mandatory}
    <3>1. \/ ToolReply("free", call) = Reply(FALSE, Listed("", controls), act)
          \/ ToolReply("free", call) = Reply(TRUE, {}, act)
      BY <1>4 DEF ToolReply, Classified
    <3>2. \/ ToolReply("free", call).items = Listed("", controls)
          \/ ToolReply("free", call).items = {}
      BY Zenon, <3>1, ItemsOf
    <3> HIDE DEF controls
    <3> QED BY <3>2
  <2>2. \A item \in ToolReply("free", call).items : item.about = ""
    BY <2>1, ListedFacts
  <2> QED BY <1>4, <2>2 DEF FreeShare
<1>5. CASE call.tool = "get_governance_resource"
  <2>1. ToolReply("free", call).items =
            {[about |-> "resource", name |-> r, text |-> {}] : r \in Retrieved("free", call.name)}
    <3> DEFINE items == {[about |-> "resource", name |-> r, text |-> {}] : r \in Retrieved("free", call.name)}
               gated == call.name # "" /\ Retrieved("free", call.name) = {} /\ Gated("free")
    <3>1. ToolReply("free", call) = Reply(gated, items, 0)
      BY <1>5 DEF ToolReply
    <3> QED BY Zenon, <3>1, ItemsOf
  <2>2. \A r \in Retrieved("free", call.name) : Resources[r] = "free"
    BY DEF Retrieved, Gated
  <2> QED BY <1>5, <2>1, <2>2 DEF FreeShare
<1>6. CASE call.tool = "risk_score" /\ call.factor \in Int
  <2> DEFINE sum == IF call.cvss \in 0 .. 10 /\ call.pillarScore \in 0 .. 100
                      THEN RiskScore("free", call) ELSE 0
  <2>1. ToolReply("free", call) = Reply(FALSE, {}, sum)
    BY <1>6 DEF ToolReply
  <2>2. ToolReply("free", call).items = {}
    BY Zenon, <2>1, ItemsOf
  <2> QED BY <1>6, <2>2 DEF FreeShare
<1> QED BY <1>1, <1>2, <1>3, <1>4, <1>5, <1>6, CallKinds

\* What was returned keeps the tiers apart.
LEMMA AnswersKeepTiers ==
  ASSUME ReturnedOK, returned.on \in BOOLEAN
  PROVE  ToolsKeepTiers
<1>1. CASE ~returned.on
  BY <1>1 DEF ToolsKeepTiers, TierOfItsOwn, FreeIsPartOfPro, PaidIsKept
<1>2. CASE returned.on
  <2>1. /\ returned.tier \in {"free", "pro"} /\ returned.call \in ToolCalls /\ TierOfItsOwn
        /\ returned.reply = ToolReply(returned.tier, returned.call)
    BY <1>2 DEF ReturnedOK, AnswerOf
  <2> DEFINE free == ToolReply("free", returned.call)
             full == ToolReply("pro", returned.call)
  <2>2. TakesPart(free, full)
    BY <2>1, FreeTakesPart
  <2>3. returned.reply = free \/ returned.reply = full
    BY <2>1
  <2>4. FreeIsPartOfPro
    <3> HIDE DEF free
    <3>1. /\ returned.reply.items \subseteq full.items /\ returned.reply.score <= full.score
          /\ \A item \in full.items : item.text \subseteq {"other", "marker"}
      BY <2>2, <2>3 DEF TakesPart
    <3>2. ~full.gated
      BY Zenon, <2>2 DEF TakesPart
    <3> QED BY <3>1, <3>2, Zenon DEF FreeIsPartOfPro
  <2>5. PaidIsKept
    <3>1. FreeShare(returned.call, free.items)
      BY <2>1, FreeShareKept
    <3>2. returned.tier = "free" => returned.reply.items = free.items
      BY <2>1
    <3> HIDE DEF free
    <3> QED BY <3>1, <3>2, Zenon DEF FreeShare, PaidIsKept
  <2> QED BY <2>1, <2>4, <2>5 DEF ToolsKeepTiers
<1> QED BY <1>1, <1>2

McpAll == McpInv /\ ReturnedOK /\ returned.on \in BOOLEAN

LEMMA McpAllStarts == McpInit => McpAll
<1> SUFFICES ASSUME McpInit PROVE McpAll
  OBVIOUS
<1>1. returned.on = FALSE
  BY Zenon DEF McpInit, NoAnswer
<1> QED BY <1>1, McpStarts DEF McpAll, ReturnedOK

LEMMA McpUnchanged ==
  ASSUME McpAll, UNCHANGED <<second, bucketVars>>, DOMAIN checks' = Handlers,
         \A h \in Handlers : CheckOK(h)'
  PROVE  LimiterInv'
<1>1. LimiterInv
  BY DEF McpAll, McpInv
<1>2. \A key \in Keys : (BucketOK(key) /\ GrantsPaid(key) /\ RefillKept(key) /\ KeyBounded(key))'
  BY <1>1 DEF LimiterInv, BucketOK, GrantsPaid, RefillKept, KeyBounded, bucketVars, Limit, NoBucket
<1>3. DeniedOnlyWhenSpent'
  BY <1>1 DEF LimiterInv, DeniedOnlyWhenSpent, bucketVars, Limit
<1> QED BY <1>1, <1>2, <1>3 DEF LimiterInv, bucketVars, Keys

\* A handler's request that ends leaves the others alone.
LEMMA OthersChecks ==
  ASSUME McpAll, UNCHANGED <<second>>, NEW h \in Handlers,
         \A g \in Handlers : g # h => checks'[g] = checks[g] /\ contexts'[g] = contexts[g],
         CheckOK(h)'
  PROVE  \A g \in Handlers : CheckOK(g)'
<1> SUFFICES ASSUME NEW g \in Handlers, g # h PROVE CheckOK(g)'
  OBVIOUS
<1>1. CheckOK(g)
  BY DEF McpAll, McpInv, LimiterInv
<1> QED BY <1>1 DEF CheckOK, NoCheck, Keys

LEMMA McpStep == McpAll /\ [McpNext]_mcpVars => McpAll'
<1> SUFFICES ASSUME McpAll, [McpNext]_mcpVars PROVE McpAll'
  OBVIOUS
<1>0. /\ LimiterInv /\ ServerInv /\ ReturnedOK /\ returned.on \in BOOLEAN
      /\ DOMAIN checks = Handlers /\ \A h \in Handlers : CheckOK(h)
      /\ contexts \in [Handlers -> {"free", "pro"}]
  BY DEF McpAll, McpInv, LimiterInv, ServerInv
<1>a. returned' = NoAnswer => ReturnedOK' /\ (returned.on \in BOOLEAN)'
  <2> SUFFICES ASSUME returned' = NoAnswer PROVE ReturnedOK' /\ (returned.on \in BOOLEAN)'
    OBVIOUS
  <2>1. returned'.on = FALSE
    BY Zenon DEF NoAnswer
  <2> QED BY <2>1 DEF ReturnedOK
<1>1. CASE Starts
  <2>1. LimiterInv'
    BY <1>0, <1>1, McpUnchanged DEF Starts, CheckOK, NoCheck, Keys
  <2>2. ServerInv'
    BY <1>0, <1>1 DEF Starts, ServerInv, VerifiedForStdio, CommandAllowed, SourceIntact
  <2>3. ReturnedOK' /\ (returned.on \in BOOLEAN)'
    BY <1>0, <1>1 DEF Starts, ReturnedOK, AnswerOf, TierOfItsOwn, VerifiedForStdio, CommandAllowed,
                      SourceIntact
  <2> QED BY <2>1, <2>2, <2>3 DEF McpAll, McpInv
<1>2. ASSUME NEW h \in Handlers, NEW token \in Tokens, NEW a \in Addresses, Authenticates(h, token, a)
      PROVE  McpAll'
  <2> DEFINE tier == TokenTier[token]
             check == [on |-> TRUE, token |-> token, key |-> <<tier, a>>, now |-> second]
  <2>1. tier \in {"free", "pro"}
    BY <1>2, McpNumbers DEF Authenticates
  <2>2. /\ contexts' = [contexts EXCEPT ![h] = tier] /\ checks' = [checks EXCEPT ![h] = check]
        /\ UNCHANGED <<second, bucketVars, launch, process>> /\ returned' = NoAnswer
    BY <1>2 DEF Authenticates, SetTier
  <2>3. /\ checks'[h] = check /\ contexts'[h] = tier /\ DOMAIN checks' = Handlers
        /\ \A g \in Handlers : g # h => checks'[g] = checks[g] /\ contexts'[g] = contexts[g]
        /\ contexts' \in [Handlers -> {"free", "pro"}]
    <3> HIDE DEF tier, check
    <3> QED BY <1>0, <2>1, <2>2
  <2>4. CheckOK(h)'
    <3>1. <<tier, a>> \in Keys
      BY <2>1 DEF Keys
    <3>2. second \in Nat /\ second' = second /\ second <= second + Lag
      BY <1>0, <2>2, McpNumbers DEF LimiterInv
    <3>3. /\ check.on = TRUE /\ check.token = token /\ check.key = <<tier, a>> /\ check.now = second
      BY Zenon
    <3> HIDE DEF check
    <3> QED BY <2>3, <3>1, <3>2, <3>3 DEF CheckOK, Keys
  <2>5. LimiterInv'
    BY <2>2, <2>3, <2>4, OthersChecks, McpUnchanged
  <2>6. ServerInv'
    BY <1>0, <2>2, <2>3 DEF ServerInv, VerifiedForStdio, CommandAllowed, SourceIntact
  <2> QED BY <1>a, <2>2, <2>5, <2>6 DEF McpAll, McpInv
<1>3. ASSUME NEW h \in Handlers, Checks(h)
      PROVE  McpAll'
  <2>1. LimiterInv'
    BY <1>3, ChecksKeeps DEF McpAll
  <2>2. /\ contexts' = contexts \/ contexts' = [contexts EXCEPT ![h] = "free"]
        /\ UNCHANGED <<launch, process>> /\ returned' = NoAnswer
    BY <1>3 DEF Checks
  <2>3. ServerInv'
    BY <1>0, <2>2 DEF ServerInv, VerifiedForStdio, CommandAllowed, SourceIntact
  <2> QED BY <1>a, <2>1, <2>2, <2>3 DEF McpAll, McpInv
<1>4. ASSUME NEW h \in Handlers, NEW call \in ToolCalls, RunsTool(h, call)
      PROVE  McpAll'
  <2>1. /\ checks' = [checks EXCEPT ![h] = NoCheck] /\ contexts' = [contexts EXCEPT ![h] = "free"]
        /\ UNCHANGED <<second, bucketVars, launch, process>>
        /\ checks[h] # NoCheck /\ ~checks[h].on
    BY <1>4 DEF RunsTool
  <2>2. /\ checks'[h] = NoCheck /\ DOMAIN checks' = Handlers
        /\ \A g \in Handlers : g # h => checks'[g] = checks[g] /\ contexts'[g] = contexts[g]
        /\ contexts' \in [Handlers -> {"free", "pro"}]
    BY <1>0, <2>1
  <2>3. CheckOK(h)'
    BY <2>2 DEF CheckOK, NoCheck
  <2>4. LimiterInv'
    BY <2>1, <2>2, <2>3, OthersChecks, McpUnchanged
  <2>5. ServerInv'
    BY <1>0, <2>1, <2>2 DEF ServerInv, VerifiedForStdio, CommandAllowed, SourceIntact
  <2>6. /\ checks[h].token \in Tokens /\ contexts[h] = TokenTier[checks[h].token]
        /\ contexts[h] \in {"free", "pro"}
    BY <1>0, <2>1 DEF CheckOK
  <2> DEFINE answered == [on |-> TRUE, caller |-> checks[h].token, tier |-> contexts[h],
                        call |-> call, reply |-> ToolReply(contexts[h], call)]
  <2>7. returned' = answered
    BY <1>4 DEF RunsTool
  <2>8. /\ answered.on = TRUE /\ answered.caller = checks[h].token /\ answered.tier = contexts[h]
        /\ answered.call = call /\ answered.reply = ToolReply(contexts[h], call)
    BY Zenon
  <2>9. ReturnedOK' /\ (returned.on \in BOOLEAN)'
    <3> DEFINE given == checks[h].token
               tier == contexts[h]
    <3>0. "stdio" \notin Tokens
      BY Zenon, McpAssumption DEF McpAssumption
    <3>1. given # "stdio"
      BY <2>6, <3>0
    <3>2. /\ returned'.on = TRUE /\ returned'.caller = given /\ returned'.tier = tier
          /\ returned'.call = call /\ returned'.reply = ToolReply(tier, call)
      BY <2>7, <2>8
    <3>3. tier \in {"free", "pro"} /\ tier = TokenTier[given]
      BY <2>6
    <3> HIDE DEF answered, given, tier
    <3> QED BY <3>1, <3>2, <3>3 DEF ReturnedOK, AnswerOf, TierOfItsOwn
  <2> QED BY <2>4, <2>5, <2>9 DEF McpAll, McpInv
<1>5. ASSUME NEW call \in ToolCalls, RunsToolLocally(call)
      PROVE  McpAll'
  <2>1. UNCHANGED <<second, bucketVars, checks, launch, process, contexts>> /\ process = "stdio"
    BY <1>5 DEF RunsToolLocally
  <2>2. LimiterInv'
    BY <1>0, <2>1, McpUnchanged DEF CheckOK, NoCheck, Keys
  <2>3. ServerInv'
    BY <1>0, <2>1 DEF ServerInv, VerifiedForStdio, CommandAllowed, SourceIntact
  <2> DEFINE answered == [on |-> TRUE, caller |-> "stdio", tier |-> "free",
                        call |-> call, reply |-> ToolReply("free", call)]
  <2>4. returned' = answered
    BY <1>5 DEF RunsToolLocally
  <2>5. /\ answered.on = TRUE /\ answered.caller = "stdio" /\ answered.tier = "free"
        /\ answered.call = call /\ answered.reply = ToolReply("free", call)
    BY Zenon
  <2>6. launch.transport = "stdio" /\ VerifiedForStdio(launch) /\ launch' = launch
    BY <1>0, <2>1 DEF ServerInv
  <2>7. (launch.transport = "stdio" /\ VerifiedForStdio(launch))'
    BY <2>6 DEF VerifiedForStdio, CommandAllowed, SourceIntact
  <2> HIDE DEF answered
  <2>8. ReturnedOK' /\ (returned.on \in BOOLEAN)'
    BY <2>4, <2>5, <2>7 DEF ReturnedOK, AnswerOf, TierOfItsOwn
  <2> QED BY <2>2, <2>3, <2>8 DEF McpAll, McpInv
<1>6. CASE SecondPasses
  <2>1. LimiterInv'
    BY <1>6, SecondKeeps DEF McpAll
  <2>2. UNCHANGED <<launch, process, contexts>> /\ returned' = NoAnswer
    BY <1>6 DEF SecondPasses
  <2>3. ServerInv'
    BY <1>0, <2>2 DEF ServerInv, VerifiedForStdio, CommandAllowed, SourceIntact
  <2> QED BY <1>a, <2>1, <2>2, <2>3 DEF McpAll, McpInv
<1>7. CASE UNCHANGED mcpVars
  <2>1. UNCHANGED <<second, bucketVars, checks, launch, process, contexts, returned>>
    BY <1>7 DEF mcpVars
  <2>2. LimiterInv'
    BY <1>0, <2>1, McpUnchanged DEF CheckOK, NoCheck, Keys
  <2>3. ServerInv'
    BY <1>0, <2>1 DEF ServerInv, VerifiedForStdio, CommandAllowed, SourceIntact
  <2>4. ReturnedOK' /\ (returned.on \in BOOLEAN)'
    BY <1>0, <2>1 DEF ReturnedOK, AnswerOf, TierOfItsOwn, VerifiedForStdio, CommandAllowed,
                      SourceIntact
  <2> QED BY <2>2, <2>3, <2>4 DEF McpAll, McpInv
<1> QED BY <1>1, <1>2, <1>3, <1>4, <1>5, <1>6, <1>7 DEF McpNext

LEMMA McpAllShows == McpAll => McpTypeOK /\ ServedBounded /\ DeniedOnlyWhenSpent /\ ToolsKeepTiers
<1> SUFFICES ASSUME McpAll PROVE McpTypeOK /\ ServedBounded /\ DeniedOnlyWhenSpent /\ ToolsKeepTiers
  OBVIOUS
<1>1. LimiterInv /\ ServerInv
  BY DEF McpAll, McpInv
<1>2. McpTypeOK
  <2>1. ASSUME NEW key \in Keys
        PROVE  \/ buckets[key] = NoBucket
               \/ /\ buckets[key].last \in 0 .. second
                  /\ buckets[key].level \in -(Lag * Limit(key)) .. Limit(key) * Window
    <3>1. BucketOK(key) /\ Lag * Limit(key) \in Int /\ Limit(key) * Window \in Int /\ second \in Int
      BY <1>1, McpNumbers DEF LimiterInv
    <3> DEFINE owed == Lag * Limit(key)
               full == Limit(key) * Window
    <3>2. owed \in Int /\ full \in Int
      BY <3>1
    <3>3. \/ buckets[key] = NoBucket
          \/ /\ buckets[key].last \in Nat /\ buckets[key].level \in Int
             /\ buckets[key].last <= second
             /\ buckets[key].level >= -owed /\ buckets[key].level <= full
      BY <3>1 DEF BucketOK
    <3> HIDE DEF owed, full
    <3>4. \/ buckets[key] = NoBucket
          \/ buckets[key].last \in 0 .. second /\ buckets[key].level \in -owed .. full
      BY <3>1, <3>2, <3>3
    <3> QED BY <3>4 DEF owed, full
  <2>2. \A h \in Handlers : checks[h] = NoCheck \/ checks[h].token \in Tokens
    BY <1>1 DEF LimiterInv, CheckOK
  <2> QED BY <1>1, <2>1, <2>2 DEF McpTypeOK, LimiterInv, ServerInv
<1>3. ServedBounded
  BY <1>1 DEF LimiterInv, KeyBounded, ServedBounded
<1>4. ToolsKeepTiers
  BY AnswersKeepTiers DEF McpAll
<1> QED BY <1>1, <1>2, <1>3, <1>4 DEF LimiterInv

\* Each key is granted what its bucket holds and is refilled, and is refused only when that
\* is spent; and every tool answers for the tier of the token its own request carried.
THEOREM ServerKeeps ==
    McpSpec => [](McpTypeOK /\ ServedBounded /\ DeniedOnlyWhenSpent /\ ToolsKeepTiers)
<1> QED BY McpAllStarts, McpStep, McpAllShows, PTL DEF McpSpec

-----------------------------------------------------------------------------
(* The STDIO wrapper *)

AnyLine == [id : Int, kind : LineKinds]

\* Lines a client has written, numbered.
Numbered(lines) ==
    /\ lines \in Seq([id : 1 .. MaxLines, kind : LineKinds]) /\ Len(lines) <= MaxLines
    /\ \A n \in 1 .. Len(lines) : lines[n].id = n

\* What was written to the server is some of the first k lines, in order, and none
\* that was to be blocked.
MayPass(line) == ScanLines /\ BlockOnMatch => line.kind # "flagged"
Passed(lines, k, box) ==
    /\ box \in Seq(AnyLine) /\ Len(box) <= k
    /\ \A n \in 1 .. Len(box) : box[n].id \in 1 .. k /\ MayPass(lines[box[n].id])
    /\ \A m, n \in 1 .. Len(box) : m < n => box[m].id < box[n].id

\* Of the server's lines the first k are answered, with the client or on the way.
Answered(box, k, out, rep) ==
    /\ out \in Seq(AnyLine) /\ rep \in Seq(AnyLine)
    /\ k = Len(rep) + Len(out) /\ k <= Len(box)
    /\ \A n \in 1 .. Len(rep) : rep[n].id = box[n].id
    /\ \A n \in 1 .. Len(out) : out[n].id = box[Len(rep) + n].id
    /\ ScanReplies => \A n \in 1 .. Len(rep) : rep[n].kind # "flagged"

\* A finding is of a line read or of an answer.
StdioInv ==
    /\ {clientOpen, upTask, downTask, server} \subseteq BOOLEAN
    /\ bucket \in 0 .. LineLimit
    /\ Numbered(sent) /\ read \in 0 .. Len(sent)
    /\ Passed(sent, read, inbox)
    /\ Answered(inbox, handled, outbox, replies)
    /\ findings \in Nat /\ findings <= read + Len(replies)

LEMMA SanitizedFacts ==
  ASSUME NEW line \in AnyLine, NEW scans
  PROVE  /\ Sanitized(line, scans) \in AnyLine /\ Sanitized(line, scans).id = line.id
         /\ scans => Sanitized(line, scans).kind # "flagged"
  BY DEF Sanitized, AnyLine, LineKinds

\* A line is written,
LEMMA LineNumbered ==
  ASSUME NEW lines, Numbered(lines), Len(lines) < MaxLines, NEW kind \in LineKinds,
         NEW more, more = Append(lines, Line(Len(lines) + 1, kind))
  PROVE  /\ Numbered(more) /\ Len(more) = Len(lines) + 1
         /\ \A n \in 1 .. Len(lines) : more[n] = lines[n]
<1> DEFINE line == Line(Len(lines) + 1, kind)
<1>0. Len(lines) \in Nat /\ MaxLines \in Nat
  BY StdioAssumption DEF Numbered, StdioAssumption
<1>1. line \in [id : 1 .. MaxLines, kind : LineKinds] /\ line.id = Len(lines) + 1
  BY <1>0 DEF Line
<1> HIDE DEF line
<1>2. /\ more \in Seq([id : 1 .. MaxLines, kind : LineKinds]) /\ Len(more) = Len(lines) + 1
      /\ more[Len(lines) + 1] = line /\ \A n \in 1 .. Len(lines) : more[n] = lines[n]
  BY <1>1, AppendProperties DEF Numbered, line
<1>3. ASSUME NEW n \in 1 .. Len(more) PROVE more[n].id = n
  <2>1. n = Len(lines) + 1 \/ n \in 1 .. Len(lines)
    BY <1>0, <1>2
  <2> QED BY <1>1, <1>2, <2>1 DEF Numbered
<1> QED BY <1>0, <1>2, <1>3 DEF Numbered

\* which changes nothing of what was read before;
LEMMA PassedStays ==
  ASSUME NEW lines, NEW k \in Nat, NEW box, Passed(lines, k, box),
         NEW more, \A n \in 1 .. k : more[n] = lines[n]
  PROVE  Passed(more, k, box)
  BY DEF Passed, MayPass

\* the next line is dropped,
LEMMA LineDropped ==
  ASSUME NEW lines, NEW k \in Nat, NEW box, Passed(lines, k, box)
  PROVE  Passed(lines, k + 1, box)
<1>1. Len(box) \in Nat
  BY DEF Passed
<1> QED BY <1>1 DEF Passed

\* or passed on;
LEMMA LinePassed ==
  ASSUME NEW lines, NEW k \in Nat, NEW box, Passed(lines, k, box), MayPass(lines[k + 1]),
         NEW line \in AnyLine, line.id = k + 1
  PROVE  Passed(lines, k + 1, Append(box, line))
<1> DEFINE more == Append(box, line)
<1>1. Len(box) \in Nat /\ box \in Seq(AnyLine) /\ Len(box) <= k
  BY DEF Passed
<1>2. /\ more \in Seq(AnyLine) /\ Len(more) = Len(box) + 1
      /\ more[Len(box) + 1] = line /\ \A n \in 1 .. Len(box) : more[n] = box[n]
  BY <1>1, AppendProperties
<1> HIDE DEF more
<1>3. \A n \in 1 .. Len(more) : n = Len(box) + 1 \/ n \in 1 .. Len(box)
  BY <1>1, <1>2
<1>4. \A n \in 1 .. Len(box) : more[n].id \in 1 .. k /\ MayPass(lines[more[n].id])
  BY <1>2 DEF Passed
<1>5. ASSUME NEW n \in 1 .. Len(more)
      PROVE  more[n].id \in 1 .. (k + 1) /\ MayPass(lines[more[n].id])
  <2>1. CASE n = Len(box) + 1
    BY <1>2, <2>1
  <2>2. CASE n \in 1 .. Len(box)
    BY <1>4, <2>2
  <2> QED BY <1>3, <2>1, <2>2
<1>6. ASSUME NEW m \in 1 .. Len(more), NEW n \in 1 .. Len(more), m < n
      PROVE  more[m].id < more[n].id
  <2>1. m \in 1 .. Len(box)
    BY <1>1, <1>2, <1>6
  <2>2. CASE n = Len(box) + 1
    BY <1>2, <1>4, <2>1, <2>2
  <2>3. CASE n \in 1 .. Len(box)
    BY <1>2, <1>6, <2>1, <2>3 DEF Passed
  <2> QED BY <1>3, <2>2, <2>3
<1>7. Len(more) <= k + 1
  BY <1>1, <1>2
<1>8. Passed(lines, k + 1, more)
  BY <1>2, <1>5, <1>6, <1>7 DEF Passed
<1> QED BY <1>8 DEF more

\* lines the server gets do not change what it answered;
LEMMA AnsweredStays ==
  ASSUME NEW box, NEW k, NEW out, NEW rep, Answered(box, k, out, rep), NEW more,
         box \in Seq(AnyLine), NEW line \in AnyLine, more = Append(box, line)
  PROVE  Answered(more, k, out, rep)
<1>1. Len(box) \in Nat /\ Len(rep) \in Nat /\ Len(out) \in Nat /\ k = Len(rep) + Len(out) /\ k <= Len(box)
  BY DEF Answered
<1>2. Len(more) = Len(box) + 1 /\ \A n \in 1 .. Len(box) : more[n] = box[n]
  BY AppendProperties
<1>3. \A n \in 1 .. Len(rep) : n \in 1 .. Len(box)
  BY <1>1
<1>4. \A n \in 1 .. Len(out) : Len(rep) + n \in 1 .. Len(box)
  BY <1>1
<1>5. k <= Len(more)
  BY <1>1, <1>2
<1> QED BY <1>2, <1>3, <1>4, <1>5 DEF Answered

\* it answers the next one;
LEMMA OneAnswered ==
  ASSUME NEW box, NEW k, NEW out, NEW rep, Answered(box, k, out, rep), k < Len(box),
         box \in Seq(AnyLine), NEW line \in AnyLine, line.id = box[k + 1].id
  PROVE  Answered(box, k + 1, Append(out, line), rep)
<1> DEFINE more == Append(out, line)
<1>1. /\ Len(box) \in Nat /\ Len(rep) \in Nat /\ Len(out) \in Nat /\ k = Len(rep) + Len(out)
      /\ out \in Seq(AnyLine)
  BY DEF Answered
<1>2. /\ more \in Seq(AnyLine) /\ Len(more) = Len(out) + 1
      /\ more[Len(out) + 1] = line /\ \A n \in 1 .. Len(out) : more[n] = out[n]
  BY <1>1, AppendProperties
<1> HIDE DEF more
<1>3. ASSUME NEW n \in 1 .. Len(more) PROVE more[n].id = box[Len(rep) + n].id
  <2>1. CASE n = Len(out) + 1
    <3>1. Len(rep) + n = k + 1
      BY <1>1, <2>1
    <3> QED BY <1>2, <2>1, <3>1
  <2>2. CASE n \in 1 .. Len(out)
    BY <1>2, <2>2 DEF Answered
  <2> QED BY <1>1, <1>2, <2>1, <2>2
<1>4. k + 1 = Len(rep) + Len(more) /\ k + 1 <= Len(box)
  BY <1>1, <1>2
<1>5. Answered(box, k + 1, more, rep)
  BY <1>2, <1>3, <1>4 DEF Answered
<1> QED BY <1>5 DEF more

\* and an answer moves to the client, sanitized.
LEMMA OneDelivered ==
  ASSUME NEW box, NEW k, NEW out, NEW rep, Answered(box, k, out, rep), out # <<>>,
         NEW clean, clean = Sanitized(Head(out), ScanReplies)
  PROVE  /\ Answered(box, k, Tail(out), Append(rep, clean))
         /\ Len(Append(rep, clean)) = Len(rep) + 1
<1> DEFINE left == Tail(out)
           more == Append(rep, clean)
<1>1. /\ Len(rep) \in Nat /\ Len(out) \in Nat /\ k = Len(rep) + Len(out)
      /\ out \in Seq(AnyLine) /\ rep \in Seq(AnyLine)
  BY DEF Answered
<1>2. /\ Len(out) >= 1 /\ Head(out) = out[1] /\ Head(out) \in AnyLine
      /\ left \in Seq(AnyLine) /\ Len(left) = Len(out) - 1
      /\ \A n \in 1 .. Len(left) : left[n] = out[n + 1]
  BY <1>1, HeadTailProperties
<1>3. /\ clean \in AnyLine /\ clean.id = Head(out).id /\ (ScanReplies => clean.kind # "flagged")
  BY <1>2, SanitizedFacts
<1>4. /\ more \in Seq(AnyLine) /\ Len(more) = Len(rep) + 1
      /\ more[Len(rep) + 1] = clean /\ \A n \in 1 .. Len(rep) : more[n] = rep[n]
  BY <1>1, <1>3, AppendProperties
<1> HIDE DEF left, more
<1>5. clean.id = box[Len(rep) + 1].id
  BY <1>2, <1>3 DEF Answered
<1>6. ASSUME NEW n \in 1 .. Len(more)
      PROVE  more[n].id = box[n].id /\ (ScanReplies => more[n].kind # "flagged")
  <2>1. CASE n = Len(rep) + 1
    BY <1>3, <1>4, <1>5, <2>1
  <2>2. CASE n \in 1 .. Len(rep)
    BY <1>4, <2>2 DEF Answered
  <2> QED BY <1>1, <1>4, <2>1, <2>2
<1>7. ASSUME NEW n \in 1 .. Len(left) PROVE left[n].id = box[Len(more) + n].id
  <2>1. n + 1 \in 1 .. Len(out) /\ Len(rep) + (n + 1) = Len(more) + n
    BY <1>1, <1>2, <1>4
  <2>2. out[n + 1].id = box[Len(rep) + (n + 1)].id
    BY <2>1 DEF Answered
  <2> QED BY <1>2, <2>1, <2>2
<1>8. k = Len(more) + Len(left) /\ k <= Len(box)
  BY <1>1, <1>2, <1>4 DEF Answered
<1>9. Answered(box, k, left, more)
  BY <1>2, <1>4, <1>6, <1>7, <1>8 DEF Answered
<1> QED BY <1>4, <1>9 DEF left, more

LEMMA StdioStarts == StdioInit => StdioInv
  BY StdioAssumption DEF StdioInit, StdioInv, StdioAssumption, Numbered, Passed, Answered

LEMMA StdioStep == StdioInv /\ [StdioNext]_stdioVars => StdioInv'
<1> SUFFICES ASSUME StdioInv, [StdioNext]_stdioVars PROVE StdioInv'
  OBVIOUS
<1>0. /\ LineLimit \in Nat /\ MaxLines \in Nat /\ Len(sent) \in Nat /\ Len(inbox) \in Nat
      /\ Len(outbox) \in Nat /\ Len(replies) \in Nat /\ read \in Nat
  BY StdioAssumption DEF StdioAssumption, StdioInv, Numbered, Passed, Answered
<1>a. /\ {clientOpen, upTask, downTask, server} \subseteq BOOLEAN
      /\ bucket \in 0 .. LineLimit
      /\ Numbered(sent) /\ read \in 0 .. Len(sent)
      /\ Passed(sent, read, inbox)
      /\ Answered(inbox, handled, outbox, replies)
      /\ findings \in Nat /\ findings <= read + Len(replies)
      /\ inbox \in Seq(AnyLine)
  BY DEF StdioInv, Passed
<1>1. ASSUME NEW kind \in LineKinds, ClientWrites(kind) PROVE StdioInv'
  <2>1. /\ Numbered(sent') /\ Len(sent') = Len(sent) + 1
        /\ \A n \in 1 .. Len(sent) : sent'[n] = sent[n]
    BY <1>a, <1>1, LineNumbered DEF ClientWrites
  <2>2. Passed(sent', read, inbox)
    <3>1. \A n \in 1 .. read : sent'[n] = sent[n]
      BY <1>0, <1>a, <2>1
    <3> QED BY <1>0, <1>a, <3>1, PassedStays
  <2>3. read \in 0 .. Len(sent')
    BY <1>0, <1>a, <2>1
  <2> QED BY <1>a, <1>1, <2>1, <2>2, <2>3 DEF ClientWrites, StdioInv
<1>2. ASSUME NEW kind \in LineKinds, ServerAnswers(kind) PROVE StdioInv'
  <2> DEFINE line == Line(inbox[handled + 1].id, kind)
  <2>1. handled < Len(inbox) /\ handled \in Nat
    BY <1>0, <1>a, <1>2 DEF ServerAnswers, Answered
  <2>2. line \in AnyLine /\ line.id = inbox[handled + 1].id
    <3>1. inbox[handled + 1] \in AnyLine
      <4>1. handled + 1 \in 1 .. Len(inbox)
        BY <1>0, <2>1
      <4> QED BY <1>a, <4>1, ElementOfSeq
    <3> QED BY <3>1 DEF Line, AnyLine
  <2> HIDE DEF line
  <2>3. Answered(inbox, handled + 1, Append(outbox, line), replies)
    BY <1>a, <2>1, <2>2, OneAnswered
  <2>4. /\ handled' = handled + 1 /\ outbox' = Append(outbox, line)
        /\ UNCHANGED <<sent, clientOpen, read, bucket, inbox, replies, upTask, downTask, server, findings>>
    BY <1>2 DEF ServerAnswers, line
  <2> QED BY <1>a, <2>3, <2>4 DEF StdioInv
<1>3. CASE MovesUp
  <2> DEFINE line == sent[read + 1]
             limited == LineLimit > 0 /\ bucket = 0
             passes == ~limited /\ Forwards(line)
             more == Sanitized(line, ScanLines)
  <2>1. /\ read < Len(sent) /\ read' = read + 1
        /\ bucket' = IF LineLimit > 0 /\ ~limited THEN bucket - 1 ELSE bucket
        /\ UNCHANGED <<sent, clientOpen, handled, outbox, replies, downTask, server>>
    BY <1>3 DEF MovesUp
  <2>2. upTask' \in BOOLEAN
    <3>1. upTask \in BOOLEAN
      BY <1>a
    <3>2. IF passes /\ ~server THEN upTask' \in BOOLEAN ELSE UNCHANGED upTask
      BY <1>3, Zenon DEF MovesUp
    <3> QED BY <3>1, <3>2, Zenon
  <2>3. findings' = findings \/ findings' = findings + 1
    BY <1>3 DEF MovesUp
  <2>4. inbox' = inbox \/ (Forwards(line) /\ inbox' = Append(inbox, more))
    BY <1>3, Zenon DEF MovesUp
  <2>5. bucket' \in 0 .. LineLimit
    BY <1>0, <1>a, <2>1
  <2>6. read' \in 0 .. Len(sent) /\ findings' \in Nat /\ findings' <= read' + Len(replies)
    BY <1>0, <1>a, <2>1, <2>3
  <2>7. Passed(sent, read', inbox') /\ Answered(inbox', handled, outbox, replies)
    <3>1. CASE inbox' = inbox
      BY <1>0, <1>a, <2>1, <3>1, LineDropped
    <3>2. CASE Forwards(line) /\ inbox' = Append(inbox, more)
      <4>1. line \in AnyLine /\ line.id = read + 1
        <5>1. read + 1 \in 1 .. Len(sent)
          BY <1>0, <2>1
        <5>2. line \in [id : 1 .. MaxLines, kind : LineKinds] /\ line.id = read + 1
          <6>1. sent \in Seq([id : 1 .. MaxLines, kind : LineKinds]) /\ sent[read + 1].id = read + 1
            BY <1>a, <5>1 DEF Numbered
          <6> QED BY <5>1, <6>1, ElementOfSeq
        <5> HIDE DEF line
        <5> QED BY <1>0, <5>2 DEF AnyLine
      <4>2. MayPass(line)
        BY <3>2 DEF MayPass, Forwards
      <4>3. more \in AnyLine /\ more.id = read + 1
        BY <4>1, SanitizedFacts
      <4> HIDE DEF more
      <4>4. Passed(sent, read + 1, Append(inbox, more))
        BY <1>0, <1>a, <4>2, <4>3, LinePassed
      <4>5. Answered(inbox', handled, outbox, replies)
        BY <1>a, <3>2, <4>3, AnsweredStays
      <4> QED BY <2>1, <3>2, <4>4, <4>5
    <3> QED BY <2>4, <3>1, <3>2
  <2>8. {clientOpen, upTask', downTask, server} \subseteq BOOLEAN
    BY <1>a, <2>2, Zenon
  <2> QED BY <1>a, <2>1, <2>5, <2>6, <2>7, <2>8 DEF StdioInv
<1>4. CASE MovesDown
  <2> DEFINE clean == Sanitized(Head(outbox), ScanReplies)
  <2>1. /\ outbox # <<>> /\ outbox' = Tail(outbox) /\ replies' = Append(replies, clean)
        /\ findings' = findings + 1 \/ findings' = findings
        /\ UNCHANGED <<sent, clientOpen, read, bucket, inbox, handled, upTask, downTask, server>>
    BY <1>4 DEF MovesDown
  <2>2. Answered(inbox, handled, outbox', replies') /\ Len(replies') = Len(replies) + 1
    BY <1>a, <2>1, OneDelivered
  <2>3. findings' \in Nat /\ findings' <= read + Len(replies')
    BY <1>0, <1>a, <2>1, <2>2
  <2> QED BY <1>a, <2>1, <2>2, <2>3 DEF StdioInv
<1>5. CASE BucketRefills
  <2>1. bucket' \in 0 .. LineLimit
    BY <1>0, <1>a, <1>5 DEF BucketRefills
  <2> QED BY <1>a, <1>5, <2>1 DEF BucketRefills, StdioInv
<1>6. CASE ClientCloses \/ UpEnds \/ ServerExits \/ DownEnds \/ UNCHANGED stdioVars
  <2>1. /\ {clientOpen, upTask, downTask, server}' \subseteq BOOLEAN
        /\ UNCHANGED <<sent, read, bucket, inbox, handled, outbox, replies, findings>>
    BY <1>a, <1>6, Zenon DEF ClientCloses, UpEnds, ServerExits, DownEnds, stdioVars
  <2> QED BY <1>a, <2>1 DEF StdioInv
<1> QED BY <1>1, <1>2, <1>3, <1>4, <1>5, <1>6 DEF StdioNext

\* The client receives answers to lines it sent, each once and in order, and neither side
\* an injection the wrapper was to stop.
THEOREM WrapperRelays == StdioSpec => [](StdioTypeOK /\ RelayInOrder)
<1>1. StdioInv => StdioTypeOK /\ RelayInOrder
  <2> SUFFICES ASSUME StdioInv PROVE StdioTypeOK /\ RelayInOrder
    OBVIOUS
  <2>0. /\ MaxLines \in Nat /\ Len(sent) \in Nat /\ Len(inbox) \in Nat
        /\ Len(outbox) \in Nat /\ Len(replies) \in Nat /\ read \in Nat /\ read <= Len(sent)
        /\ Len(sent) <= MaxLines /\ handled \in 0 .. Len(inbox) /\ Len(inbox) <= read
        /\ Len(replies) <= handled /\ findings \in Nat /\ findings <= read + Len(replies)
    BY StdioAssumption DEF StdioAssumption, StdioInv, Numbered, Passed, Answered
  <2>1. findings \in 0 .. 2 * MaxLines
    BY <2>0
  <2>2. StdioTypeOK
    BY <2>0, <2>1 DEF StdioInv, StdioTypeOK, Numbered
  <2>3. ASSUME NEW m \in 1 .. Len(replies)
        PROVE  m \in 1 .. Len(inbox) /\ replies[m].id = inbox[m].id
    BY <2>0 DEF StdioInv, Answered
  <2>4. \A m, n \in 1 .. Len(replies) : m < n => replies[m].id < replies[n].id
    BY <2>3 DEF StdioInv, Passed
  <2>5. \A n \in 1 .. Len(replies) : ScanLines /\ BlockOnMatch => sent[replies[n].id].kind # "flagged"
    BY <2>3 DEF StdioInv, Passed, MayPass
  <2>6. ScanReplies => \A n \in 1 .. Len(replies) : replies[n].kind # "flagged"
    BY DEF StdioInv, Answered
  <2> QED BY <2>2, <2>4, <2>5, <2>6 DEF RelayInOrder
<1> QED BY <1>1, StdioStarts, StdioStep, PTL DEF StdioSpec

-----------------------------------------------------------------------------
(* The adapters of the core gateway's providers *)

\* What was scored, passed on, judged and told is what the conversions make of the
\* request and of the reply.
AdapterInv ==
    /\ asked \in ModelRequests
    /\ reading \in {"none", "normalized", "failed", "raised"}
    /\ reading = "none" => scored = {}
    /\ reading = "raised" => scored = {}
    /\ reading = "normalized" => Normalizes(provider, asked) /\ scored = NormalizedSees(provider, asked)
    /\ reading = "failed" => scored = RawSees(provider, asked)
    /\ passedOn \in {{}, Said(asked.messages)}
    /\ \/ reply = NoReply /\ judgement = "none"
       \/ reply \in ModelReplies /\ provider \in KnownProviders /\ reading \in {"normalized", "failed"}
    /\ judgement \in {"none", IF reading = "normalized" THEN AdapterScan(provider, reply)
                                                        ELSE PlainScan(provider, reply)}
    /\ told # {"nothing yet"} /\ reading = "normalized" => told = asked.nexus
    /\ told # {"nothing yet"} => judgement = "clean"

LEMMA SaidFacts ==
  ASSUME NEW a \in ModelRequests
  PROVE  Said(a.messages) \subseteq Texts /\ UsersSay(a.messages) \subseteq Said(a.messages)
<1>1. a.messages \in SeqsUpTo({"system", "user"} \X Texts, MaxMessages)
  BY DEF ModelRequests
<1>2. PICK j : a.messages \in [1 .. j -> {"system", "user"} \X Texts]
  BY <1>1 DEF SeqsUpTo
<1>3. \A k \in DOMAIN a.messages : a.messages[k][2] \in Texts
  BY <1>2
<1> QED BY <1>3 DEF Said, UsersSay

\* Each adapter reads what users say, the adapter of Anthropic what anyone says.
LEMMA SeenFacts ==
  ASSUME NEW p \in KnownProviders, NEW a \in ModelRequests
  PROVE  /\ UsersSay(a.messages) \subseteq NormalizedSees(p, a)
         /\ NormalizedSees(p, a) \subseteq Texts
<1>1. NormalizedSees(p, a) \in {Said(a.messages), UsersSay(a.messages)}
  BY DEF NormalizedSees, KnownProviders, AnthropicSees, OpenAISees, GeminiSees, OllamaSees,
         OpenRouterSees
<1> QED BY <1>1, SaidFacts

\* A reply as its provider documents it is read whole.
LEMMA ProperReply ==
  ASSUME NEW p \in KnownProviders, NEW r, r.form = "proper"
  PROVE  /\ AdapterScan(p, r) = Judged(r.blocks)
         /\ p = "anthropic" => PlainScan(p, r) = Judged(r.blocks)
<1>1. BlocksOf(p, r) = Extracted(r.blocks)
  BY DEF BlocksOf, KnownProviders, AnthropicBlocks, OpenAIBlocks, GeminiBlocks, OllamaBlocks,
         OpenRouterBlocks, Broken
<1>2. Extracted(r.blocks).outcome = "blocks" /\ Extracted(r.blocks).blocks = r.blocks
  BY DEF Extracted
<1>3. AdapterScan(p, r) = Judged(r.blocks)
  BY <1>1, <1>2 DEF AdapterScan
<1> QED BY <1>3 DEF PlainScan

LEMMA AdapterStarts == AdapterInit => AdapterInv
  BY DEF AdapterInit, AdapterInv

LEMMA AdapterStep == AdapterInv /\ [AdapterNext]_adapterVars => AdapterInv'
<1> SUFFICES ASSUME AdapterInv, [AdapterNext]_adapterVars PROVE AdapterInv'
  OBVIOUS
<1>1. CASE Reads
  <2>1. /\ reading = "none" /\ reply = NoReply /\ judgement = "none" /\ told = {"nothing yet"}
        /\ UNCHANGED <<provider, asked, told, passedOn, reply, judgement>>
    BY <1>1 DEF Reads, AdapterInv
  <2>2. \/ reading' = "raised" /\ scored' = {}
        \/ /\ reading' = "normalized" /\ Normalizes(provider, asked)
           /\ scored' = NormalizedSees(provider, asked)
        \/ reading' = "failed" /\ scored' = RawSees(provider, asked)
    BY <1>1 DEF Reads
  <2> QED BY <2>1, <2>2 DEF AdapterInv, Normalizes, NexusFits, NormalizedSees, RawSees, AnthropicSees,
             OpenAISees, GeminiSees, OllamaSees, OpenRouterSees
<1>2. CASE ForwardsRequest
  BY <1>2 DEF ForwardsRequest, AdapterInv, Normalizes, NexusFits, NormalizedSees, RawSees, AnthropicSees,
             OpenAISees, GeminiSees, OllamaSees, OpenRouterSees, NoReply, ModelReplies
<1>3. CASE Scans
  BY <1>3 DEF Scans, AdapterInv, Normalizes, NexusFits, NormalizedSees, RawSees, AnthropicSees,
             OpenAISees, GeminiSees, OllamaSees, OpenRouterSees
<1>4. CASE TellsAudit
  BY <1>4 DEF TellsAudit, AdapterInv, Normalizes, NexusFits, NormalizedSees, RawSees, AnthropicSees,
             OpenAISees, GeminiSees, OllamaSees, OpenRouterSees
<1>5. CASE UNCHANGED adapterVars
  BY <1>5 DEF adapterVars, AdapterInv, Normalizes, NexusFits, NormalizedSees, RawSees, AnthropicSees,
             OpenAISees, GeminiSees, OllamaSees, OpenRouterSees
<1> QED BY <1>1, <1>2, <1>3, <1>4, <1>5 DEF AdapterNext

LEMMA AdapterShows == AdapterInv => AdaptersAgree
<1> SUFFICES ASSUME AdapterInv PROVE AdaptersAgree
  OBVIOUS
<1> DEFINE a == asked
           p == provider
<1>0. asked \in ModelRequests
  BY DEF AdapterInv
<1>1. AdapterTypeOK
  <2>1. scored \subseteq Texts
    <3>1. CASE reading = "normalized"
      <4>1. p \in KnownProviders /\ scored = NormalizedSees(p, a)
        BY <3>1 DEF AdapterInv, Normalizes
      <4> QED BY <1>0, <4>1, SeenFacts
    <3>2. CASE reading = "failed"
      BY <1>0, <3>2, SaidFacts DEF AdapterInv, RawSees
    <3>3. CASE reading \in {"none", "raised"}
      BY <3>3 DEF AdapterInv
    <3> QED BY <3>1, <3>2, <3>3 DEF AdapterInv
  <2>2. passedOn \subseteq Texts
    BY <1>0, SaidFacts DEF AdapterInv
  <2>3. judgement \in {"none", "clean", "dirty", "raised"}
    <3>1. \A r, q : AdapterScan(q, r) \in {"clean", "raised", "dirty"} /\ PlainScan(q, r) \in {"clean", "raised", "dirty"}
      BY DEF AdapterScan, PlainScan, Judged
    <3> QED BY <3>1 DEF AdapterInv
  <2> QED BY <2>1, <2>2, <2>3 DEF AdapterTypeOK, AdapterInv
<1>2. UsersAreScored
  <2> SUFFICES ASSUME reply # NoReply, ~(provider = "gemini" /\ reading = "failed")
               PROVE  UsersSay(asked.messages) \subseteq scored
    BY DEF UsersAreScored
  <2>1. CASE reading = "normalized"
    <3>1. p \in KnownProviders /\ scored = NormalizedSees(p, a)
      BY <2>1 DEF AdapterInv, Normalizes
    <3> QED BY <1>0, <3>1, SeenFacts
  <2>2. CASE reading = "failed"
    BY <1>0, <2>2, SaidFacts DEF AdapterInv, RawSees
  <2> QED BY <2>1, <2>2 DEF AdapterInv
<1>3. VerdictIsOfContent
  <2> SUFFICES ASSUME judgement # "none", reply.form = "proper", ~(reading = "failed" /\ provider # "anthropic")
               PROVE  (judgement = "dirty") <=> \E k \in DOMAIN reply.blocks : Leaks(reply.blocks[k])
    BY DEF VerdictIsOfContent
  <2>1. /\ provider \in KnownProviders /\ reading \in {"normalized", "failed"}
        /\ judgement = IF reading = "normalized" THEN AdapterScan(provider, reply)
                                                 ELSE PlainScan(provider, reply)
    BY DEF AdapterInv
  <2>2. judgement = Judged(reply.blocks)
    BY <2>1, ProperReply
  <2> QED BY <2>2 DEF Judged
<1>4. AgentsOnRecord
  BY DEF AgentsOnRecord, AdapterInv
<1> QED BY <1>1, <1>2, <1>3, <1>4 DEF AdaptersAgree

\* Whatever the format and however its conversion goes, users' messages are scored before
\* they are sent on, and a proper reply is judged by its content.
THEOREM AdaptersFaithful == AdapterSpec => []AdaptersAgree
<1> QED BY AdapterStarts, AdapterStep, AdapterShows, PTL DEF AdapterSpec

-----------------------------------------------------------------------------
(* The Hermes gateway: its log *)

LineNames == {"blocked", "findings", "proxied", "activated", "deactivated"}
LogLine == [what : LineNames \cup {"started"}, of : Threads \cup {"main", "script"},
            prev : Int, own : Int, shared : BOOLEAN, whole : BOOLEAN]

Stages == {"new", "reading", "sending", "awaiting", "answering", "unlinking", "filing", "done"}
ReplyNames == {"none", "unreadable", "error", "unreachable", "inactive", "ok", "lost",
            "released", "cut", "killed", "forbidden"}
HermesThread ==
    [at : Stages, line : LineNames \cup {"none"}, pen : {"up", "read", "set"}, prev : Nat,
     own : Nat, shared : BOOLEAN, stopped : BOOLEAN, sent : BOOLEAN, answer : ReplyNames]

LastHashed(lines, j) ==
    /\ j \in 1 .. Len(lines) /\ lines[j].own # NoHash
    /\ \A i \in 1 .. Len(lines) : i > j => lines[i].own = NoHash

\* A hash the next line may name: the first one, that of a line that never got into the
\* file, or that of the last line that has one, unless two threads wrote at once.
Explained(h, lines, missing) ==
    \/ h = 0 \/ h \in missing
    \/ \E j : LastHashed(lines, j) /\ (lines[j].own = h \/ lines[j].shared)

\* A pen that is out and not shared is the only one, and nothing was set since it read.
PenOK(t) ==
    LET r == thread[t] IN
    /\ r \in HermesThread
    /\ r.at # "filing" => r.pen = "up" /\ r.line = "none"
    /\ r.at = "filing" => r.line \in LineNames
    /\ r.pen # "up" => r.prev \in 0 .. made
    /\ r.pen = "set" => r.own \in 1 .. made
    /\ r.pen # "up" /\ ~r.shared =>
           /\ \A u \in Threads : u # t => thread[u].pen = "up"
           /\ r.pen = "read" => r.prev = lastOf
           /\ r.pen = "set" => r.own = lastOf /\ Explained(r.prev, log, unfiled)

PensInv ==
    /\ made \in Nat /\ lastOf \in 0 .. made /\ unfiled \subseteq 1 .. made /\ ragged \in BOOLEAN
    /\ DOMAIN thread = Threads
    /\ log \in Seq(LogLine)
    /\ \A k \in 1 .. Len(log) :
           log[k].own # NoHash => log[k].own \in 1 .. made /\ log[k].prev \in 0 .. made
    /\ \A t \in Threads : PenOK(t)
    /\ \/ Explained(lastOf, log, unfiled)
       \/ \E t \in Threads : thread[t].pen = "set" /\ thread[t].own = lastOf
    /\ ChainExplained

\* A step that writes nothing: a thread whose pen is up goes on with its pen up.
Quiet(t, r) ==
    /\ UNCHANGED <<lastOf, log, ragged, made, unfiled>>
    /\ thread' = [thread EXCEPT ![t] = r]
    /\ thread[t].pen = "up" /\ r.pen = "up" /\ r \in HermesThread
    /\ IF r.at = "filing" THEN r.line \in LineNames ELSE r.line = "none"

LEMMA QuietKeepsPens ==
  ASSUME PensInv, NEW t \in Threads, NEW r, Quiet(t, r)
  PROVE  PensInv'
<1>1. /\ DOMAIN thread' = Threads /\ thread'[t] = r
      /\ \A u \in Threads : u # t => thread'[u] = thread[u]
      /\ \A u \in Threads : thread'[u].pen = thread[u].pen
      /\ UNCHANGED <<lastOf, log, ragged, made, unfiled>>
  BY DEF Quiet, PensInv
<1>2. ASSUME NEW u \in Threads PROVE PenOK(u)'
  <2>1. CASE u = t
    BY <1>1, <2>1 DEF Quiet, PenOK
  <2>2. CASE u # t
    <3>1. PenOK(u)
      BY DEF PensInv
    <3> QED BY <1>1, <2>2, <3>1 DEF PenOK
  <2> QED BY <2>1, <2>2
<1>3. \/ Explained(lastOf', log', unfiled')
      \/ \E u \in Threads : thread'[u].pen = "set" /\ thread'[u].own = lastOf'
  <2>1. CASE Explained(lastOf, log, unfiled)
    BY <1>1, <2>1
  <2>2. ASSUME NEW u \in Threads, thread[u].pen = "set", thread[u].own = lastOf
        PROVE  thread'[u].pen = "set" /\ thread'[u].own = lastOf'
    <3>1. u # t
      BY <2>2 DEF Quiet
    <3> QED BY <1>1, <2>2, <3>1
  <2> QED BY <2>1, <2>2 DEF PensInv
<1>4. ChainExplained'
  BY <1>1 DEF PensInv, ChainExplained, Hashed
<1> QED BY <1>1, <1>2, <1>3, <1>4 DEF PensInv

LEMMA PensStart == HermesInit => PensInv
<1> SUFFICES ASSUME HermesInit PROVE PensInv
  OBVIOUS
<1>1. \A t \in Threads : PenOK(t)
  <2>1. Fresh \in HermesThread
    BY DEF Fresh, HermesThread, Stages, ReplyNames, LineNames
  <2> QED BY <2>1 DEF HermesInit, PenOK, Fresh
<1>2. log = <<>> /\ Len(log) = 0 /\ log \in Seq(LogLine)
  BY DEF HermesInit
<1>3. ChainExplained
  BY <1>2 DEF ChainExplained, Hashed
<1>4. /\ made = 0 /\ lastOf = 0 /\ unfiled = {} /\ ragged = FALSE /\ DOMAIN thread = Threads
      /\ 0 \in Nat /\ 0 \in 0 .. 0
  BY DEF HermesInit
<1>5. Explained(lastOf, log, unfiled)
  BY <1>4 DEF Explained
<1>6. \A k \in 1 .. Len(log) :
          log[k].own # NoHash => log[k].own \in 1 .. made /\ log[k].prev \in 0 .. made
  BY <1>2
<1> QED BY <1>1, <1>2, <1>3, <1>4, <1>5, <1>6 DEF PensInv

\* One more line in the log.
LEMMA LineAdded ==
  ASSUME NEW lines \in Seq(LogLine), NEW line \in LogLine, NEW more, more = Append(lines, line)
  PROVE  /\ more \in Seq(LogLine) /\ Len(more) = Len(lines) + 1 /\ Len(lines) \in Nat
         /\ more[Len(more)] = line /\ more # <<>>
         /\ \A k \in 1 .. Len(lines) : more[k] = lines[k]
         /\ DOMAIN more = 1 .. Len(lines) + 1 /\ DOMAIN lines = 1 .. Len(lines)
  BY AppendProperties

\* The log stays explained when a line that has a hash names what it may.
LEMMA ChainGrows ==
  ASSUME ChainExplained, log \in Seq(LogLine), NEW line \in LogLine, log' = Append(log, line),
         unfiled \subseteq unfiled',
         line.own = NoHash \/ line.shared \/ Explained(line.prev, log, unfiled)
  PROVE  ChainExplained'
<1>1. /\ Len(log') = Len(log) + 1 /\ Len(log) \in Nat /\ log'[Len(log')] = line
      /\ \A k \in 1 .. Len(log) : log'[k] = log[k]
      /\ DOMAIN log' = 1 .. Len(log) + 1 /\ DOMAIN log = 1 .. Len(log)
  BY LineAdded
<1> SUFFICES ASSUME NEW j \in Hashed', NEW k \in Hashed', j < k,
                    \A i \in Hashed' : i <= j \/ k <= i
             PROVE  \/ log'[k].prev = log'[j].own
                    \/ log'[k].prev = 0
                    \/ log'[k].shared \/ log'[j].shared
                    \/ ~log'[k].whole \/ log'[k].prev \in unfiled'
  BY DEF ChainExplained
<1>2. /\ j \in 1 .. Len(log) + 1 /\ k \in 1 .. Len(log) + 1
      /\ log'[j].own # NoHash /\ log'[k].own # NoHash
  BY <1>1 DEF Hashed
<1>3. j \in 1 .. Len(log) /\ log'[j] = log[j] /\ log[j].own # NoHash
  BY <1>1, <1>2
<1>4. \A i \in 1 .. Len(log) : log[i].own # NoHash => i \in Hashed'
  BY <1>1 DEF Hashed
<1>5. CASE k = Len(log')
  <2>1. log'[k] = line /\ k = Len(log) + 1
    BY <1>1, <1>5
  <2>2. \A i \in 1 .. Len(log) : i > j => log[i].own = NoHash
    BY <1>1, <1>3, <1>4, <2>1
  <2>3. ASSUME NEW i, LastHashed(log, i) PROVE i = j
    BY <1>1, <1>3, <2>2, <2>3 DEF LastHashed
  <2> QED BY <1>2, <1>3, <2>1, <2>3 DEF Explained
<1>6. CASE k # Len(log')
  <2>1. k \in 1 .. Len(log) /\ log'[k] = log[k]
    BY <1>1, <1>2, <1>6
  <2>2. j \in Hashed /\ k \in Hashed
    BY <1>1, <1>2, <1>3, <2>1 DEF Hashed
  <2>3. \A i \in Hashed : i \in Hashed'
    BY <1>1, <1>4 DEF Hashed
  <2> QED BY <1>3, <2>1, <2>2, <2>3 DEF ChainExplained
<1> QED BY <1>5, <1>6

\* A line without a hash changes nothing of that.
LEMMA HashlessLine ==
  ASSUME PensInv, UNCHANGED <<lastOf, made, thread, unfiled>>, ragged' \in BOOLEAN,
         NEW line \in LogLine, line.own = NoHash, log' = Append(log, line)
  PROVE  PensInv'
<1>1. /\ made \in Nat /\ lastOf \in 0 .. made /\ unfiled \subseteq 1 .. made /\ ChainExplained
      /\ DOMAIN thread = Threads /\ log \in Seq(LogLine)
  BY DEF PensInv
<1>2. /\ log' \in Seq(LogLine) /\ Len(log') = Len(log) + 1 /\ Len(log) \in Nat
      /\ log'[Len(log')] = line /\ \A k \in 1 .. Len(log) : log'[k] = log[k]
  BY <1>1, LineAdded
<1>3. \A k \in 1 .. Len(log') : k \in 1 .. Len(log) \/ k = Len(log')
  BY <1>2
<1>4. ASSUME NEW h, Explained(h, log, unfiled) PROVE Explained(h, log', unfiled')
  <2>1. ASSUME NEW j, LastHashed(log, j) PROVE LastHashed(log', j) /\ log'[j] = log[j]
    BY <1>2, <1>3, <2>1 DEF LastHashed
  <2> QED BY <1>4, <2>1 DEF Explained
<1>5. ASSUME NEW t \in Threads PROVE PenOK(t)'
  <2>1. PenOK(t)
    BY DEF PensInv
  <2> QED BY <1>4, <2>1 DEF PenOK
<1>6. ChainExplained'
  BY <1>1, ChainGrows
<1>7. \A k \in 1 .. Len(log') :
          log'[k].own # NoHash => log'[k].own \in 1 .. made' /\ log'[k].prev \in 0 .. made'
  BY <1>2, <1>3 DEF PensInv
<1>8. \/ Explained(lastOf', log', unfiled')
      \/ \E u \in Threads : thread'[u].pen = "set" /\ thread'[u].own = lastOf'
  BY <1>4 DEF PensInv
<1> QED BY <1>1, <1>2, <1>5, <1>6, <1>7, <1>8 DEF PensInv

\* How the record of a thread changes.
Out(r, h, b) == [r EXCEPT !.pen = "read", !.prev = h, !.shared = b]
Sent(r) == [r EXCEPT !.at = "awaiting", !.sent = TRUE]
Inked(r, h) == [r EXCEPT !.pen = "set", !.own = h]

\* The fields of a thread's record after each kind of change.
LEMMA ThreadEnded ==
  ASSUME NEW r \in HermesThread, NEW what \in ReplyNames, NEW s, s = Ends(r, what)
  PROVE  /\ s \in HermesThread /\ s.at = "done" /\ s.line = "none" /\ s.pen = "up"
         /\ s.answer = what
         /\ (s.sent <=> r.sent) /\ (s.stopped <=> r.stopped) /\ (s.shared <=> r.shared)
<1>1. s \in HermesThread
  BY DEF Ends, HermesThread, Stages, ReplyNames, LineNames
<1>2. (s.sent <=> r.sent) /\ (s.stopped <=> r.stopped) /\ (s.shared <=> r.shared)
  BY Zenon DEF Ends, HermesThread, Stages, ReplyNames, LineNames
<1>3. s.at = "done" /\ s.line = "none" /\ s.pen = "up" /\ s.answer = what
  BY DEF Ends, HermesThread
<1> QED BY <1>1, <1>2, <1>3

LEMMA Filing ==
  ASSUME NEW r \in HermesThread, NEW what \in LineNames, NEW s, s = Files(r, what)
  PROVE  /\ s \in HermesThread /\ s.at = "filing" /\ s.line = what /\ s.pen = r.pen
         /\ s.answer = r.answer
         /\ (s.sent <=> r.sent) /\ (s.stopped <=> r.stopped)
<1>1. s \in HermesThread
  BY DEF Files, HermesThread, Stages, ReplyNames, LineNames
<1>2. (s.sent <=> r.sent) /\ (s.stopped <=> r.stopped)
  BY Zenon DEF Files, HermesThread, Stages, ReplyNames, LineNames
<1>3. s.at = "filing" /\ s.line = what /\ s.pen = r.pen /\ s.answer = r.answer
  BY DEF Files, HermesThread
<1> QED BY <1>1, <1>2, <1>3

LEMMA Moved ==
  ASSUME NEW r \in HermesThread, NEW where \in Stages, NEW s, s = [r EXCEPT !.at = where]
  PROVE  /\ s \in HermesThread /\ s.at = where /\ s.line = r.line /\ s.pen = r.pen
         /\ s.answer = r.answer /\ (s.sent <=> r.sent) /\ (s.stopped <=> r.stopped)
<1>1. (s.sent <=> r.sent) /\ (s.stopped <=> r.stopped)
  BY Zenon DEF HermesThread
<1> QED BY <1>1 DEF HermesThread

LEMMA LineJudged ==
  ASSUME NEW r \in HermesThread, NEW b \in BOOLEAN, NEW s, s = [r EXCEPT !.stopped = b]
  PROVE  /\ s \in HermesThread /\ s.at = r.at /\ s.line = r.line /\ s.pen = r.pen
         /\ s.answer = r.answer /\ (s.sent <=> r.sent) /\ (s.stopped <=> b)
<1>1. (s.sent <=> r.sent) /\ (s.stopped <=> b)
  BY Zenon DEF HermesThread
<1> QED BY <1>1 DEF HermesThread

LEMMA Posted ==
  ASSUME NEW r \in HermesThread, NEW s, s = Sent(r)
  PROVE  /\ s \in HermesThread /\ s.at = "awaiting" /\ s.line = r.line /\ s.pen = r.pen
         /\ s.answer = r.answer /\ s.sent /\ (s.stopped <=> r.stopped)
<1>1. s.sent /\ (s.stopped <=> r.stopped)
  BY Zenon DEF HermesThread, Sent, Stages, ReplyNames, LineNames
<1> QED BY <1>1 DEF HermesThread, Sent, Stages, ReplyNames, LineNames

LEMMA PenOut ==
  ASSUME NEW r \in HermesThread, NEW h \in Nat, NEW b \in BOOLEAN,
         NEW s, s = Out(r, h, b)
  PROVE  /\ s \in HermesThread /\ s.at = r.at /\ s.line = r.line /\ s.pen = "read"
         /\ s.prev = h /\ (s.shared <=> b)
         /\ s.answer = r.answer /\ (s.sent <=> r.sent) /\ (s.stopped <=> r.stopped)
<1>1. (s.sent <=> r.sent) /\ (s.stopped <=> r.stopped) /\ (s.shared <=> b)
  BY Zenon DEF HermesThread, Out
<1> QED BY <1>1 DEF HermesThread, Out

LEMMA PenSeen ==
  ASSUME NEW r \in HermesThread, NEW s, s = [r EXCEPT !.shared = TRUE]
  PROVE  /\ s \in HermesThread /\ s.at = r.at /\ s.line = r.line /\ s.pen = r.pen
         /\ s.prev = r.prev /\ s.own = r.own /\ s.shared
         /\ s.answer = r.answer /\ (s.sent <=> r.sent) /\ (s.stopped <=> r.stopped)
<1>1. (s.sent <=> r.sent) /\ (s.stopped <=> r.stopped) /\ s.shared
  BY Zenon DEF HermesThread
<1> QED BY <1>1 DEF HermesThread

LEMMA PenInked ==
  ASSUME NEW r \in HermesThread, NEW h \in Nat, NEW s, s = Inked(r, h)
  PROVE  /\ s \in HermesThread /\ s.at = r.at /\ s.line = r.line /\ s.pen = "set"
         /\ s.prev = r.prev /\ s.own = h /\ (s.shared <=> r.shared)
         /\ s.answer = r.answer /\ (s.sent <=> r.sent) /\ (s.stopped <=> r.stopped)
<1>1. (s.sent <=> r.sent) /\ (s.stopped <=> r.stopped) /\ (s.shared <=> r.shared)
  BY Zenon DEF HermesThread, Inked
<1> QED BY <1>1 DEF HermesThread, Inked

\* When its line is written, the thread's pen is up and it files nothing.
LEMMA LineDone ==
  ASSUME NEW r \in HermesThread, NEW s, s = AfterLine(r)
  PROVE  /\ s \in HermesThread /\ s.at \in {"done", "sending", "answering"} /\ s.line = "none"
         /\ s.pen = "up" /\ (s.sent <=> r.sent) /\ (s.stopped <=> r.stopped)
         /\ s.at = "sending" => r.line = "findings" /\ ~r.stopped /\ s.answer = r.answer
         /\ s.at = "answering" => r.line = "proxied"
         /\ s.answer \in {"released", "cut"} => r.line = "proxied" \/ s.answer = r.answer
         /\ s.answer = "forbidden" => r.line = "findings" \/ s.answer = r.answer
         /\ s.answer = "killed" => r.line = "blocked" \/ s.answer = r.answer
<1>1. CASE r.line = "blocked"
  <2>1. s = Ends(r, "killed")
    BY <1>1 DEF AfterLine
  <2>2. "killed" \in ReplyNames
    BY DEF ReplyNames
  <2>3. /\ s \in HermesThread /\ s.at = "done" /\ s.line = "none" /\ s.pen = "up"
        /\ s.answer = "killed" /\ (s.sent <=> r.sent) /\ (s.stopped <=> r.stopped)
    BY <2>1, <2>2, ThreadEnded
  <2> QED BY <1>1, <2>3
<1>2. CASE r.line = "findings" /\ r.stopped
  <2>1. s = Ends(r, "forbidden")
    BY <1>2 DEF AfterLine
  <2>2. "forbidden" \in ReplyNames
    BY DEF ReplyNames
  <2>3. /\ s \in HermesThread /\ s.at = "done" /\ s.line = "none" /\ s.pen = "up"
        /\ s.answer = "forbidden" /\ (s.sent <=> r.sent) /\ (s.stopped <=> r.stopped)
    BY <2>1, <2>2, ThreadEnded
  <2> QED BY <1>2, <2>3
<1>3. CASE r.line = "findings" /\ ~r.stopped
  <2>1. s = [r EXCEPT !.at = "sending", !.line = "none", !.pen = "up"]
    BY <1>3 DEF AfterLine
  <2>2. s.sent = r.sent /\ s.stopped = r.stopped
    BY Zenon, <2>1 DEF HermesThread
  <2>3. /\ s \in HermesThread /\ s.at = "sending" /\ s.line = "none" /\ s.pen = "up"
        /\ s.answer = r.answer
    BY <2>1 DEF HermesThread, Stages, LineNames
  <2> QED BY <1>3, <2>2, <2>3
<1>4. CASE r.line = "proxied"
  <2>1. PICK e : e = Ends(r, "released")
    OBVIOUS
  <2>2. s = [e EXCEPT !.at = "answering"]
    BY <1>4, <2>1 DEF AfterLine
  <2>3. "released" \in ReplyNames
    BY DEF ReplyNames
  <2>4. /\ e \in HermesThread /\ e.line = "none" /\ e.pen = "up" /\ e.answer = "released"
        /\ (e.sent <=> r.sent) /\ (e.stopped <=> r.stopped)
    BY <2>1, <2>3, ThreadEnded
  <2>5. "answering" \in Stages
    BY DEF Stages
  <2>6. /\ s \in HermesThread /\ s.at = "answering" /\ s.line = e.line /\ s.pen = e.pen
        /\ s.answer = e.answer /\ (s.sent <=> e.sent) /\ (s.stopped <=> e.stopped)
    BY <2>2, <2>4, <2>5, Moved
  <2> QED BY <1>4, <2>4, <2>6
<1>5. CASE r.line \notin {"blocked", "findings", "proxied"}
  <2>1. s = Ends(r, "ok")
    BY <1>5 DEF AfterLine
  <2>2. "ok" \in ReplyNames
    BY DEF ReplyNames
  <2>3. /\ s \in HermesThread /\ s.at = "done" /\ s.line = "none" /\ s.pen = "up"
        /\ s.answer = "ok" /\ (s.sent <=> r.sent) /\ (s.stopped <=> r.stopped)
    BY <2>1, <2>2, ThreadEnded
  <2> QED BY <1>5, <2>3
<1> QED BY <1>1, <1>2, <1>3, <1>4, <1>5

\* The other pens that are out see this one.
LEMMA PenReadsKeeps ==
  ASSUME PensInv, NEW t \in Threads, PenReads(t)
  PROVE  PensInv'
<1> DEFINE others == {u \in Threads \ {t} : thread[u].pen # "up"}
<1>1. /\ UNCHANGED <<lastOf, log, ragged, made, unfiled>> /\ DOMAIN thread' = Threads
      /\ thread[t].at = "filing" /\ thread[t].pen = "up"
      /\ thread'[t] = [thread[t] EXCEPT !.pen = "read", !.prev = lastOf, !.shared = others # {}]
      /\ \A u \in Threads \ {t} :
             thread'[u] = IF u \in others THEN [thread[u] EXCEPT !.shared = TRUE] ELSE thread[u]
  BY DEF PenReads
<1>2. \A u \in Threads : PenOK(u) /\ thread[u] \in HermesThread
  BY DEF PensInv, PenOK
<1>3. made \in Nat /\ lastOf \in 0 .. made /\ lastOf \in Nat
  BY DEF PensInv
<1>4. /\ thread'[t] \in HermesThread /\ thread'[t].at = "filing"
      /\ thread'[t].line = thread[t].line /\ thread'[t].pen = "read"
      /\ thread'[t].prev = lastOf /\ (thread'[t].shared <=> others # {})
  <2>1. PICK b \in BOOLEAN : b <=> others # {}
    OBVIOUS
  <2>2. thread'[t] = [thread[t] EXCEPT !.pen = "read", !.prev = lastOf, !.shared = b]
    BY <1>1, <2>1
  <2>3. PICK r \in HermesThread : r = thread[t]
    BY <1>2
  <2>4. PICK s : s = thread'[t]
    OBVIOUS
  <2>5. PICK h \in Nat : h = lastOf
    BY <1>3
  <2> HIDE DEF others
  <2>6. s = Out(r, h, b)
    BY <2>2, <2>3, <2>4, <2>5 DEF Out
  <2>7. /\ s \in HermesThread /\ s.at = r.at /\ s.line = r.line /\ s.pen = "read"
        /\ s.prev = h /\ (s.shared <=> b)
    BY <2>1, <2>3, <2>5, <2>6, PenOut
  <2> QED BY <1>1, <2>1, <2>3, <2>4, <2>5, <2>7
<1>5. \A u \in Threads \ {t} :
          /\ thread'[u] \in HermesThread /\ thread'[u].at = thread[u].at
          /\ thread'[u].line = thread[u].line /\ thread'[u].pen = thread[u].pen
          /\ thread'[u].prev = thread[u].prev /\ thread'[u].own = thread[u].own
          /\ thread[u].pen # "up" => thread'[u].shared
  <2> TAKE u \in Threads \ {t}
  <2>1. CASE u \in others
    BY <1>1, <1>2, <2>1, PenSeen
  <2>2. CASE u \notin others
    BY <1>1, <1>2, <2>2
  <2> QED BY <2>1, <2>2
<1>6. ASSUME NEW u \in Threads PROVE PenOK(u)'
  <2>1. CASE u = t
    <3>1. PenOK(t)
      BY <1>2
    <3>2. others = {} => \A v \in Threads : v # t => thread'[v].pen = "up"
      BY <1>5
    <3> QED BY <1>1, <1>3, <1>4, <2>1, <3>1, <3>2 DEF PenOK
  <2>2. CASE u # t
    <3>1. PenOK(u)
      BY <1>2
    <3> QED BY <1>1, <1>5, <2>2, <3>1 DEF PenOK
  <2> QED BY <2>1, <2>2
<1>7. \/ Explained(lastOf', log', unfiled')
      \/ \E u \in Threads : thread'[u].pen = "set" /\ thread'[u].own = lastOf'
  <2>1. CASE Explained(lastOf, log, unfiled)
    BY <1>1, <2>1
  <2>2. ASSUME NEW u \in Threads, thread[u].pen = "set", thread[u].own = lastOf
        PROVE  thread'[u].pen = "set" /\ thread'[u].own = lastOf'
    <3>1. u \in Threads \ {t}
      BY <1>1, <2>2
    <3> QED BY <1>1, <1>5, <2>2, <3>1
  <2> QED BY <2>1, <2>2 DEF PensInv
<1>8. ChainExplained'
  BY <1>1 DEF PensInv, ChainExplained, Hashed
<1> HIDE DEF others
<1> QED BY <1>1, <1>6, <1>7, <1>8 DEF PensInv

\* A hash is made: it is the one the next line will name.
LEMMA PenSetsKeeps ==
  ASSUME PensInv, NEW t \in Threads, PenSets(t)
  PROVE  PensInv'
<1>1. /\ UNCHANGED <<log, ragged, unfiled>> /\ DOMAIN thread' = Threads
      /\ made' = made + 1 /\ lastOf' = made + 1 /\ thread[t].pen = "read"
      /\ thread'[t] = [thread[t] EXCEPT !.pen = "set", !.own = made + 1]
      /\ \A u \in Threads : u # t => thread'[u] = thread[u]
  BY DEF PenSets, Set, PensInv
<1>2. \A u \in Threads : PenOK(u) /\ thread[u] \in HermesThread
  BY DEF PensInv, PenOK
<1>3. made \in Nat /\ made + 1 \in Nat /\ made + 1 \in 1 .. made' /\ 0 .. made \subseteq 0 .. made'
      /\ 1 .. made \subseteq 1 .. made'
  BY <1>1 DEF PensInv
<1>4. /\ thread'[t] \in HermesThread /\ thread'[t].at = thread[t].at
      /\ thread'[t].line = thread[t].line /\ thread'[t].pen = "set"
      /\ thread'[t].prev = thread[t].prev /\ thread'[t].own = made + 1
      /\ (thread'[t].shared <=> thread[t].shared)
  <2>1. PICK r \in HermesThread : r = thread[t]
    BY <1>2
  <2>2. PICK s : s = thread'[t]
    OBVIOUS
  <2>3. PICK h \in Nat : h = made + 1
    BY <1>3
  <2>4. s = Inked(r, h)
    BY <1>1, <2>1, <2>2, <2>3 DEF Inked
  <2>5. /\ s \in HermesThread /\ s.at = r.at /\ s.line = r.line /\ s.pen = "set"
        /\ s.prev = r.prev /\ s.own = h /\ (s.shared <=> r.shared)
    BY <2>1, <2>3, <2>4, PenInked
  <2> QED BY <2>1, <2>2, <2>3, <2>5
<1>5. ASSUME NEW u \in Threads PROVE PenOK(u)'
  <2>0. PenOK(u) /\ PenOK(t)
    BY <1>2
  <2>1. CASE u = t
    <3>1. ~thread[t].shared => /\ \A v \in Threads : v # t => thread[v].pen = "up"
                               /\ thread[t].prev = lastOf
      BY <1>1, <2>0 DEF PenOK
    <3>2. ~thread[t].shared => Explained(thread[t].prev, log, unfiled)
      <4>1. SUFFICES ASSUME ~thread[t].shared PROVE Explained(lastOf, log, unfiled)
        BY <3>1
      <4>2. ~ \E v \in Threads : thread[v].pen = "set" /\ thread[v].own = lastOf
        BY <1>1, <3>1, <4>1
      <4> QED BY <4>2 DEF PensInv
    <3> QED BY <1>1, <1>3, <1>4, <2>0, <2>1, <3>1, <3>2 DEF PenOK
  <2>2. CASE u # t
    <3>1. thread[u].pen # "up" => thread[u].shared
      BY <1>1, <2>0, <2>2 DEF PenOK
    <3> QED BY <1>1, <1>3, <2>0, <2>2, <3>1 DEF PenOK
  <2> QED BY <2>1, <2>2
<1>6. \E u \in Threads : thread'[u].pen = "set" /\ thread'[u].own = lastOf'
  BY <1>1, <1>4
<1>7. ChainExplained'
  BY <1>1 DEF PensInv, ChainExplained, Hashed
<1>8. \A k \in 1 .. Len(log') :
          log'[k].own # NoHash => log'[k].own \in 1 .. made' /\ log'[k].prev \in 0 .. made'
  BY <1>1, <1>3 DEF PensInv
<1>9. made' \in Nat /\ lastOf' \in 0 .. made' /\ unfiled' \subseteq 1 .. made'
  BY <1>1, <1>3 DEF PensInv
<1> QED BY <1>1, <1>5, <1>6, <1>7, <1>8, <1>9 DEF PensInv

\* A thread that ends, or whose line is written, has its pen up.
LEMMA PenWritesKeeps ==
  ASSUME PensInv, NEW t \in Threads, PenWrites(t)
  PROVE  PensInv'
<1>1. PICK line : line = AuditLineOf(t)
  OBVIOUS
<1>2. /\ UNCHANGED <<lastOf, made>> /\ DOMAIN thread' = Threads /\ thread[t].pen = "set"
      /\ log' = Append(log, line) /\ ragged' = FALSE
      /\ unfiled' = (IF ragged THEN unfiled \cup {thread[t].own} ELSE unfiled)
      /\ thread'[t] = AfterLine(thread[t])
      /\ \A u \in Threads : u # t => thread'[u] = thread[u]
  BY <1>1 DEF PenWrites, Set, PensInv
<1>3. \A u \in Threads : PenOK(u)
  BY DEF PensInv
<1>4. /\ made \in Nat /\ lastOf \in 0 .. made /\ unfiled \subseteq 1 .. made /\ log \in Seq(LogLine)
      /\ ragged \in BOOLEAN /\ ChainExplained
  BY DEF PensInv
<1>5. /\ thread[t] \in HermesThread /\ thread[t].line \in LineNames
      /\ thread[t].prev \in 0 .. made /\ thread[t].own \in 1 .. made
      /\ ~thread[t].shared => /\ \A u \in Threads : u # t => thread[u].pen = "up"
                              /\ thread[t].own = lastOf
                              /\ Explained(thread[t].prev, log, unfiled)
  BY <1>2, <1>3 DEF PenOK
<1>6. /\ line \in LogLine /\ line.own = thread[t].own /\ line.prev = thread[t].prev
      /\ (line.shared <=> thread[t].shared)
  <2>1. thread[t].prev \in Nat /\ thread[t].own \in Nat /\ thread[t].shared \in BOOLEAN
    BY <1>4, <1>5 DEF HermesThread
  <2>2. line = [what |-> thread[t].line, of |-> t, prev |-> thread[t].prev, own |-> thread[t].own,
                shared |-> thread[t].shared, whole |-> ~ragged]
    BY <1>1 DEF AuditLineOf
  <2>3. line.shared <=> thread[t].shared
    BY Zenon, <2>2
  <2>4. line.own = thread[t].own /\ line.prev = thread[t].prev
    BY <2>2
  <2>5. line \in LogLine
    BY <1>4, <1>5, <2>1, <2>2 DEF LogLine
  <2> QED BY <2>3, <2>4, <2>5
<1>7. /\ log' \in Seq(LogLine) /\ Len(log') = Len(log) + 1 /\ Len(log) \in Nat
      /\ log'[Len(log')] = line /\ log' # <<>>
      /\ \A k \in 1 .. Len(log) : log'[k] = log[k]
  BY <1>2, <1>4, <1>6, LineAdded
<1>8. ChainExplained'
  BY <1>2, <1>4, <1>5, <1>6, ChainGrows DEF Explained
<1>9. /\ thread'[t] \in HermesThread /\ thread'[t].at # "filing" /\ thread'[t].line = "none"
      /\ thread'[t].pen = "up"
  BY <1>2, <1>5, LineDone
<1>10. ASSUME NEW u \in Threads PROVE PenOK(u)'
  <2>1. CASE u = t
    BY <1>9, <2>1 DEF PenOK
  <2>2. CASE u # t
    <3>1. PenOK(u)
      BY <1>3
    <3>2. thread[u].pen # "up" => thread[u].shared
      BY <1>2, <2>2, <3>1 DEF PenOK
    <3> QED BY <1>2, <2>2, <3>1, <3>2 DEF PenOK
  <2> QED BY <2>1, <2>2
<1>11. Explained(lastOf', log', unfiled')
  <2>1. line.own # NoHash /\ (line.own = lastOf \/ line.shared)
    BY <1>4, <1>5, <1>6 DEF NoHash
  <2>2. LastHashed(log', Len(log'))
    BY <1>7, <2>1 DEF LastHashed
  <2> QED BY <1>2, <1>7, <2>1, <2>2 DEF Explained
<1>12. \A k \in 1 .. Len(log') :
          log'[k].own # NoHash => log'[k].own \in 1 .. made' /\ log'[k].prev \in 0 .. made'
  <2> TAKE k \in 1 .. Len(log')
  <2>1. CASE k \in 1 .. Len(log)
    BY <1>2, <1>7, <2>1 DEF PensInv
  <2>2. CASE k = Len(log')
    BY <1>2, <1>5, <1>6, <1>7, <2>2
  <2> QED BY <1>7, <2>1, <2>2
<1>13. unfiled' \subseteq 1 .. made'
  BY <1>2, <1>4, <1>5
<1> QED BY <1>2, <1>4, <1>7, <1>8, <1>10, <1>11, <1>12, <1>13 DEF PensInv

LEMMA PenFailsKeeps ==
  ASSUME PensInv, NEW t \in Threads, PenFails(t)
  PROVE  PensInv'
<1>1. /\ UNCHANGED <<lastOf, made, log>> /\ DOMAIN thread' = Threads /\ thread[t].pen = "set"
      /\ ragged' \in {ragged, TRUE} /\ unfiled' = unfiled \cup {thread[t].own}
      /\ thread'[t] = Ends(thread[t], "error")
      /\ \A u \in Threads : u # t => thread'[u] = thread[u]
  BY DEF PenFails, Set, PensInv
<1>2. \A u \in Threads : PenOK(u)
  BY DEF PensInv
<1>3. thread[t] \in HermesThread /\ thread[t].own \in 1 .. made
  BY <1>1, <1>2 DEF PenOK
<1>4. "error" \in ReplyNames
  BY DEF ReplyNames
<1>5. /\ thread'[t] \in HermesThread /\ thread'[t].at = "done" /\ thread'[t].line = "none"
      /\ thread'[t].pen = "up"
  BY <1>1, <1>3, <1>4, ThreadEnded
<1>6. \A h : Explained(h, log, unfiled) => Explained(h, log', unfiled')
  BY <1>1 DEF Explained
<1>7. ASSUME NEW u \in Threads PROVE PenOK(u)'
  <2>1. CASE u = t
    BY <1>5, <2>1 DEF PenOK
  <2>2. CASE u # t
    <3>1. PenOK(u)
      BY <1>2
    <3>2. thread[u].pen # "up" => thread[u].shared
      BY <1>1, <2>2, <3>1 DEF PenOK
    <3> QED BY <1>1, <2>2, <3>1, <3>2 DEF PenOK
  <2> QED BY <2>1, <2>2
<1>8. \/ Explained(lastOf', log', unfiled')
      \/ \E u \in Threads : thread'[u].pen = "set" /\ thread'[u].own = lastOf'
  <2>1. CASE Explained(lastOf, log, unfiled)
    BY <1>1, <1>6, <2>1
  <2>2. ASSUME NEW u \in Threads, thread[u].pen = "set", thread[u].own = lastOf
        PROVE  \/ Explained(lastOf', log', unfiled')
               \/ thread'[u].pen = "set" /\ thread'[u].own = lastOf'
    <3>1. CASE u = t
      BY <1>1, <2>2, <3>1 DEF Explained
    <3>2. CASE u # t
      BY <1>1, <2>2, <3>2
    <3> QED BY <3>1, <3>2
  <2> QED BY <2>1, <2>2 DEF PensInv
<1>9. ChainExplained'
  BY <1>1 DEF PensInv, ChainExplained, Hashed
<1>10. unfiled' \subseteq 1 .. made' /\ ragged' \in BOOLEAN
  BY <1>1, <1>3 DEF PensInv
<1>11. \A k \in 1 .. Len(log') :
          log'[k].own # NoHash => log'[k].own \in 1 .. made' /\ log'[k].prev \in 0 .. made'
  BY <1>1 DEF PensInv
<1>12. made' \in Nat /\ lastOf' \in 0 .. made' /\ log' \in Seq(LogLine)
  BY <1>1 DEF PensInv
<1> QED BY <1>1, <1>7, <1>8, <1>9, <1>10, <1>11, <1>12 DEF PensInv

\* A new process: every pen is up, and the last line is its own.
LEMMA RebootsKeeps ==
  ASSUME PensInv, Reboots
  PROVE  PensInv'
<1>1. PICK line : line = [what |-> "started", of |-> "main", prev |-> 0, own |-> made',
                          shared |-> FALSE, whole |-> ~ragged]
  OBVIOUS
<1>2. /\ made' = made + 1 /\ lastOf' = made' /\ log' = Append(log, line) /\ ragged' = FALSE
      /\ unfiled' = unfiled \cup {thread[t].own : t \in {u \in Threads : thread[u].pen = "set"}}
                            \cup (IF ragged THEN {made'} ELSE {})
      /\ DOMAIN thread' = Threads
      /\ \A t \in Threads :
             thread'[t] = IF thread[t].at \in {"new", "done"} THEN thread[t]
                          ELSE Ends(thread[t], "lost")
  BY <1>1 DEF Reboots
<1>3. \A u \in Threads : PenOK(u)
  BY DEF PensInv
<1>4. /\ made \in Nat /\ made' \in Nat /\ made' \in 1 .. made' /\ 1 .. made \subseteq 1 .. made'
      /\ 0 .. made \subseteq 0 .. made' /\ 0 \in 0 .. made'
      /\ log \in Seq(LogLine) /\ unfiled \subseteq 1 .. made /\ ragged \in BOOLEAN /\ ChainExplained
  BY <1>2 DEF PensInv
<1>5. /\ line \in LogLine /\ line.own = made' /\ line.prev = 0
  BY <1>1, <1>4 DEF LogLine
<1>6. /\ log' \in Seq(LogLine) /\ Len(log') = Len(log) + 1 /\ Len(log) \in Nat
      /\ log'[Len(log')] = line /\ log' # <<>>
      /\ \A k \in 1 .. Len(log) : log'[k] = log[k]
  BY <1>2, <1>4, <1>5, LineAdded
<1>7. "lost" \in ReplyNames
  BY DEF ReplyNames
<1>8. \A t \in Threads : /\ thread'[t] \in HermesThread /\ thread'[t].at # "filing"
                         /\ thread'[t].line = "none" /\ thread'[t].pen = "up"
  <2> TAKE t \in Threads
  <2>1. PenOK(t)
    BY <1>3
  <2>2. CASE thread[t].at \in {"new", "done"}
    BY <1>2, <2>1, <2>2 DEF PenOK
  <2>3. CASE thread[t].at \notin {"new", "done"}
    <3>1. thread'[t] = Ends(thread[t], "lost") /\ thread[t] \in HermesThread
      BY <1>2, <2>1, <2>3 DEF PenOK
    <3>2. thread'[t].at = "done" /\ thread'[t] \in HermesThread
          /\ thread'[t].line = "none" /\ thread'[t].pen = "up"
      BY <1>7, <3>1, ThreadEnded
    <3> QED BY <3>2
  <2> QED BY <2>2, <2>3
<1>9. \A t \in Threads : PenOK(t)'
  BY <1>8 DEF PenOK
<1>10. ChainExplained'
  <2>1. unfiled \subseteq unfiled' /\ Explained(line.prev, log, unfiled)
    BY <1>2, <1>5 DEF Explained
  <2> QED BY <1>2, <1>4, <1>5, <2>1, ChainGrows
<1>11. Explained(lastOf', log', unfiled')
  <2>1. line.own # NoHash /\ line.own = lastOf'
    BY <1>2, <1>4, <1>5 DEF NoHash
  <2>2. LastHashed(log', Len(log'))
    BY <1>6, <2>1 DEF LastHashed
  <2> QED BY <1>6, <2>1, <2>2 DEF Explained
<1>12. \A k \in 1 .. Len(log') :
          log'[k].own # NoHash => log'[k].own \in 1 .. made' /\ log'[k].prev \in 0 .. made'
  <2> TAKE k \in 1 .. Len(log')
  <2>1. CASE k \in 1 .. Len(log)
    BY <1>4, <1>6, <2>1 DEF PensInv
  <2>2. CASE k = Len(log')
    BY <1>4, <1>5, <1>6, <2>2
  <2> QED BY <1>6, <2>1, <2>2
<1>13. unfiled' \subseteq 1 .. made'
  <2>1. \A u \in Threads : thread[u].pen = "set" => thread[u].own \in 1 .. made
    BY <1>3 DEF PenOK
  <2> QED BY <1>2, <1>4, <2>1
<1>14. lastOf' \in 0 .. made'
  BY <1>2, <1>4
<1> QED BY <1>2, <1>4, <1>6, <1>9, <1>10, <1>11, <1>12, <1>13, <1>14 DEF PensInv

\* Where the thread of a chat is and what its lines say: nothing is sent before it was
\* let through, and nothing is answered before its line.
ChatFine(r, whats) ==
    /\ "proxied" \in whats => r.sent /\ ~r.stopped
    /\ r.answer \in {"released", "cut"} => "proxied" \in whats
    /\ r.answer = "forbidden" => "findings" \in whats /\ ~r.sent
    /\ r.answer = "killed" => "blocked" \in whats /\ ~r.sent
    /\ r.at \in {"new", "reading"} => ~r.sent /\ ~r.stopped /\ r.answer = "none"
    /\ r.at = "sending" => ~r.sent /\ ~r.stopped /\ r.answer = "none"
    /\ r.at = "awaiting" => r.sent /\ ~r.stopped /\ r.answer = "none"
    /\ r.at = "answering" => "proxied" \in whats
    /\ r.at = "filing" => /\ r.line \in {"blocked", "findings", "proxied"} /\ r.answer = "none"
                          /\ IF r.line = "proxied" THEN r.sent /\ ~r.stopped ELSE ~r.sent

\* A step of a chat that writes nothing.
ChatStep(t, r) ==
    /\ Quiet(t, r) /\ UNCHANGED <<switchOn, tangled, script>>
    /\ r.line \notin SwitchLines
    /\ \A whats : ChatFine(thread[t], whats) => ChatFine(r, whats)

LEMMA QuietChat ==
  ASSUME PensInv, NEW t \in Threads, ChatSteps(t)
  PROVE  \E r : ChatStep(t, r)
<1>1. PICK q \in HermesThread : q = thread[t] /\ PenOK(t)
  BY DEF PensInv, PenOK
<1>2. q.at # "filing" => q.pen = "up" /\ q.line = "none"
  BY <1>1 DEF PenOK
<1>3. "none" \notin SwitchLines /\ "blocked" \notin SwitchLines /\ "findings" \notin SwitchLines
      /\ "proxied" \notin SwitchLines
  BY DEF SwitchLines
<1>4. \A r : r \in HermesThread /\ r.pen = "up" /\ r.at # "filing" /\ r.line = "none"
             /\ q.pen = "up" /\ thread' = [thread EXCEPT ![t] = r]
             /\ UNCHANGED <<switchOn, lastOf, log, ragged, made, unfiled, tangled, script>>
             /\ (\A whats : ChatFine(q, whats) => ChatFine(r, whats))
             => ChatStep(t, r)
  BY <1>1, <1>3 DEF ChatStep, Quiet
<1>5. \A r : r \in HermesThread /\ r.pen = "up" /\ r.at = "filing"
             /\ r.line \in {"blocked", "findings", "proxied"}
             /\ q.pen = "up" /\ thread' = [thread EXCEPT ![t] = r]
             /\ UNCHANGED <<switchOn, lastOf, log, ragged, made, unfiled, tangled, script>>
             /\ (\A whats : ChatFine(q, whats) => ChatFine(r, whats))
             => ChatStep(t, r)
  BY <1>1, <1>3 DEF ChatStep, Quiet, LineNames
<1>6. CASE ChatChecked(t)
  <2>1. UNCHANGED <<switchOn, lastOf, log, ragged, made, unfiled, tangled, script>> /\ q.at = "new"
    BY <1>1, <1>6 DEF ChatChecked
  <2>2. CASE switchOn
    <3>1. PICK r : r = Files(q, "blocked") /\ thread' = [thread EXCEPT ![t] = r]
      BY <1>1, <1>6, <2>2 DEF ChatChecked, Set
    <3>2. "blocked" \in LineNames
      BY DEF LineNames
    <3>3. /\ r \in HermesThread /\ r.at = "filing" /\ r.line = "blocked" /\ r.pen = q.pen
          /\ r.answer = q.answer /\ (r.sent <=> q.sent) /\ (r.stopped <=> q.stopped)
      BY <3>1, <3>2, Filing
    <3>4. \A whats : ChatFine(q, whats) => ChatFine(r, whats)
      BY <2>1, <3>3 DEF ChatFine
    <3> QED BY <1>2, <1>5, <2>1, <3>1, <3>3, <3>4
  <2>3. CASE ~switchOn
    <3>1. PICK r : r = [q EXCEPT !.at = "reading"] /\ thread' = [thread EXCEPT ![t] = r]
      BY <1>1, <1>6, <2>3 DEF ChatChecked, Set
    <3>2. "reading" \in Stages
      BY DEF Stages
    <3>3. /\ r \in HermesThread /\ r.at = "reading" /\ r.line = q.line /\ r.pen = q.pen
          /\ r.answer = q.answer /\ (r.sent <=> q.sent) /\ (r.stopped <=> q.stopped)
      BY <3>1, <3>2, Moved
    <3>4. \A whats : ChatFine(q, whats) => ChatFine(r, whats)
      BY <2>1, <3>3 DEF ChatFine
    <3> QED BY <1>2, <1>4, <2>1, <3>1, <3>3, <3>4
  <2> QED BY <2>2, <2>3
<1>7. CASE ChatUnreadable(t)
  <2>1. UNCHANGED <<switchOn, lastOf, log, ragged, made, unfiled, tangled, script>> /\ q.at = "reading"
    BY <1>1, <1>7 DEF ChatUnreadable
  <2>2. PICK what \in {"unreadable", "error"} : thread' = [thread EXCEPT ![t] = Ends(q, what)]
    BY <1>1, <1>7 DEF ChatUnreadable, Set
  <2>3. PICK r : r = Ends(q, what)
    OBVIOUS
  <2>4. what \in ReplyNames
    BY <2>2 DEF ReplyNames
  <2>5. /\ r \in HermesThread /\ r.at = "done" /\ r.line = "none" /\ r.pen = "up"
        /\ r.answer = what /\ (r.sent <=> q.sent) /\ (r.stopped <=> q.stopped)
    BY <2>3, <2>4, ThreadEnded
  <2>6. \A whats : ChatFine(q, whats) => ChatFine(r, whats)
    BY <2>1, <2>2, <2>5 DEF ChatFine
  <2> QED BY <1>2, <1>4, <2>1, <2>2, <2>3, <2>5, <2>6
<1>8. CASE ChatInspected(t)
  <2>1. UNCHANGED <<switchOn, lastOf, log, ragged, made, unfiled, tangled, script>> /\ q.at = "reading"
    BY <1>1, <1>8 DEF ChatInspected
  <2>2. PICK seen \in Findings :
            LET r == [q EXCEPT !.stopped = Stops(seen)] IN
            thread' = [thread EXCEPT ![t] = IF seen = "none" THEN [r EXCEPT !.at = "sending"]
                                            ELSE Files(r, "findings")]
    BY <1>1, <1>8 DEF ChatInspected, Set
  <2>3. PICK b \in BOOLEAN : b = Stops(seen) /\ (seen = "none" => ~b)
    <3>1. Stops(seen) \in BOOLEAN
      BY DEF Stops
    <3>2. seen = "none" => ~Stops(seen)
      BY DEF Stops
    <3> QED BY Zenon, <3>1, <3>2
  <2>4. PICK p : p = [q EXCEPT !.stopped = b]
    OBVIOUS
  <2>5. /\ p \in HermesThread /\ p.at = q.at /\ p.line = q.line /\ p.pen = q.pen
        /\ p.answer = q.answer /\ (p.sent <=> q.sent) /\ (p.stopped <=> b)
    BY <2>3, <2>4, LineJudged
  <2>6. CASE seen = "none"
    <3>1. PICK r : r = [p EXCEPT !.at = "sending"] /\ thread' = [thread EXCEPT ![t] = r]
      BY <2>2, <2>3, <2>4, <2>6
    <3>2. "sending" \in Stages
      BY DEF Stages
    <3>3. /\ r \in HermesThread /\ r.at = "sending" /\ r.line = p.line /\ r.pen = p.pen
          /\ r.answer = p.answer /\ (r.sent <=> p.sent) /\ (r.stopped <=> p.stopped)
      BY <2>5, <3>1, <3>2, Moved
    <3>4. \A whats : ChatFine(q, whats) => ChatFine(r, whats)
      BY <2>1, <2>3, <2>5, <2>6, <3>3 DEF ChatFine
    <3> QED BY <1>2, <1>4, <2>1, <2>5, <3>1, <3>3, <3>4
  <2>7. CASE seen # "none"
    <3>1. PICK r : r = Files(p, "findings") /\ thread' = [thread EXCEPT ![t] = r]
      BY <2>2, <2>3, <2>4, <2>7
    <3>2. "findings" \in LineNames
      BY DEF LineNames
    <3>3. /\ r \in HermesThread /\ r.at = "filing" /\ r.line = "findings" /\ r.pen = p.pen
          /\ r.answer = p.answer /\ (r.sent <=> p.sent) /\ (r.stopped <=> p.stopped)
      BY <2>5, <3>1, <3>2, Filing
    <3>4. \A whats : ChatFine(q, whats) => ChatFine(r, whats)
      BY <2>1, <2>5, <3>3 DEF ChatFine
    <3> QED BY <1>2, <1>5, <2>1, <2>5, <3>1, <3>3, <3>4
  <2> QED BY <2>6, <2>7
<1>9. CASE ChatSends(t)
  <2>1. UNCHANGED <<switchOn, lastOf, log, ragged, made, unfiled, tangled, script>> /\ q.at = "sending"
    BY <1>1, <1>9 DEF ChatSends
  <2>2. PICK r : r = Sent(q) /\ thread' = [thread EXCEPT ![t] = r]
    BY <1>1, <1>9 DEF ChatSends, Set, Sent
  <2>3. /\ r \in HermesThread /\ r.at = "awaiting" /\ r.line = q.line /\ r.pen = q.pen
        /\ r.answer = q.answer /\ r.sent /\ (r.stopped <=> q.stopped)
    BY <2>2, Posted
  <2>4. \A whats : ChatFine(q, whats) => ChatFine(r, whats)
    BY <2>1, <2>3 DEF ChatFine
  <2> QED BY <1>2, <1>4, <2>1, <2>2, <2>3, <2>4
<1>10. CASE ChatUnanswered(t)
  <2>1. UNCHANGED <<switchOn, lastOf, log, ragged, made, unfiled, tangled, script>> /\ q.at = "awaiting"
    BY <1>1, <1>10 DEF ChatUnanswered
  <2>2. PICK r : r = Ends(q, "unreachable") /\ thread' = [thread EXCEPT ![t] = r]
    BY <1>1, <1>10 DEF ChatUnanswered, Set
  <2>3. "unreachable" \in ReplyNames
    BY DEF ReplyNames
  <2>4. /\ r \in HermesThread /\ r.at = "done" /\ r.line = "none" /\ r.pen = "up"
        /\ r.answer = "unreachable" /\ (r.sent <=> q.sent) /\ (r.stopped <=> q.stopped)
    BY <2>2, <2>3, ThreadEnded
  <2>5. \A whats : ChatFine(q, whats) => ChatFine(r, whats)
    BY <2>1, <2>4 DEF ChatFine
  <2> QED BY <1>2, <1>4, <2>1, <2>2, <2>4, <2>5
<1>11. CASE ChatAnswered(t)
  <2>1. UNCHANGED <<switchOn, lastOf, log, ragged, made, unfiled, tangled, script>> /\ q.at = "awaiting"
    BY <1>1, <1>11 DEF ChatAnswered
  <2>2. PICK r : r = Files(q, "proxied") /\ thread' = [thread EXCEPT ![t] = r]
    BY <1>1, <1>11 DEF ChatAnswered, Set
  <2>3. "proxied" \in LineNames
    BY DEF LineNames
  <2>4. /\ r \in HermesThread /\ r.at = "filing" /\ r.line = "proxied" /\ r.pen = q.pen
        /\ r.answer = q.answer /\ (r.sent <=> q.sent) /\ (r.stopped <=> q.stopped)
    BY <2>2, <2>3, Filing
  <2>5. \A whats : ChatFine(q, whats) => ChatFine(r, whats)
    BY <2>1, <2>4 DEF ChatFine
  <2> QED BY <1>2, <1>5, <2>1, <2>2, <2>4, <2>5
<1>12. CASE ChatDelivered(t)
  <2>1. UNCHANGED <<switchOn, lastOf, log, ragged, made, unfiled, tangled, script>> /\ q.at = "answering"
    BY <1>1, <1>12 DEF ChatDelivered
  <2>2. PICK what \in {"released", "cut"} : thread' = [thread EXCEPT ![t] = Ends(q, what)]
    BY <1>1, <1>12 DEF ChatDelivered, Set
  <2>3. PICK r : r = Ends(q, what)
    OBVIOUS
  <2>4. what \in ReplyNames
    BY <2>2 DEF ReplyNames
  <2>5. /\ r \in HermesThread /\ r.at = "done" /\ r.line = "none" /\ r.pen = "up"
        /\ r.answer = what /\ (r.sent <=> q.sent) /\ (r.stopped <=> q.stopped)
    BY <2>3, <2>4, ThreadEnded
  <2>6. \A whats : ChatFine(q, whats) => ChatFine(r, whats)
    BY <2>1, <2>2, <2>5 DEF ChatFine
  <2> QED BY <1>2, <1>4, <2>1, <2>2, <2>3, <2>5, <2>6
<1> QED BY <1>6, <1>7, <1>8, <1>9, <1>10, <1>11, <1>12 DEF ChatSteps

\* What the log tells of the switch.
Told(lines) ==
    LET toldAt == {k \in DOMAIN lines : lines[k].what \in SwitchLines} IN
    \E k \in toldAt : lines[k].what = "activated" /\ \A j \in toldAt : j <= k

\* One switch operation at a time, a request's or the script's, is on its way to its
\* line, and the switch is as it says; while none is, it is as the log tells.
SwitchInv ==
    /\ switchOn \in BOOLEAN /\ tangled \in BOOLEAN
    /\ script \in {"idle", "confirming"} \cup SwitchLines
    /\ \A t \in Chats : ~Pending(t)
    /\ tangled
       \/ /\ \A t, u \in Threads : Pending(t) /\ Pending(u) => t = u
          /\ \A t \in Threads : Pending(t) => /\ script \notin SwitchLines
                                              /\ switchOn <=> thread[t].line = "activated"
          /\ script \in SwitchLines => (switchOn <=> script = "activated")
          /\ script \notin SwitchLines /\ (\A t \in Threads : ~Pending(t))
                 => (switchOn <=> Told(log))

LEMMA SwitchShows == SwitchInv => SwitchOnRecord
<1> SUFFICES ASSUME SwitchInv PROVE SwitchOnRecord
  OBVIOUS
<1>1. CASE tangled \/ UnderWay
  BY <1>1 DEF SwitchOnRecord
<1>2. CASE ~tangled /\ ~UnderWay
  <2>1. switchOn <=> Told(log)
    BY <1>2 DEF SwitchInv, UnderWay
  <2>2. switchOn \in BOOLEAN
    BY DEF SwitchInv
  <2> QED BY Zenon, <2>1, <2>2 DEF SwitchOnRecord, Told
<1> QED BY <1>1, <1>2

LEMMA SwitchStart == HermesInit => SwitchInv
<1> SUFFICES ASSUME HermesInit PROVE SwitchInv
  OBVIOUS
<1>1. /\ switchOn = FALSE /\ tangled = FALSE /\ log = <<>> /\ script = "idle"
      /\ \A t \in Threads : thread[t].line = "none"
  BY DEF HermesInit, Fresh
<1>2. script \notin SwitchLines /\ \A t \in Threads : ~Pending(t)
  BY <1>1 DEF Pending, SwitchLines
<1>3. ~Told(log)
  BY <1>1 DEF Told
<1>4. Chats \subseteq Threads
  BY DEF Threads
<1> QED BY <1>1, <1>2, <1>3, <1>4 DEF SwitchInv

\* The last line about the switch is the one just written, or the one it was.
LEMMA TellsLast ==
  ASSUME NEW lines \in Seq(LogLine), NEW line \in LogLine, NEW more, more = Append(lines, line)
  PROVE  /\ line.what \in SwitchLines => (Told(more) <=> line.what = "activated")
         /\ line.what \notin SwitchLines => (Told(more) <=> Told(lines))
<1>1. /\ Len(more) = Len(lines) + 1 /\ Len(lines) \in Nat /\ more[Len(lines) + 1] = line
      /\ \A k \in 1 .. Len(lines) : more[k] = lines[k]
      /\ DOMAIN more = 1 .. Len(lines) + 1 /\ DOMAIN lines = 1 .. Len(lines)
  BY LineAdded
<1>2. PICK toldAt : toldAt = {k \in DOMAIN lines : lines[k].what \in SwitchLines}
  OBVIOUS
<1>3. PICK now : now = {k \in DOMAIN more : more[k].what \in SwitchLines}
  OBVIOUS
<1>4. /\ Told(lines) <=> \E k \in toldAt : lines[k].what = "activated" /\ \A j \in toldAt : j <= k
      /\ Told(more) <=> \E k \in now : more[k].what = "activated" /\ \A j \in now : j <= k
  BY <1>2, <1>3 DEF Told
<1>5. CASE line.what \in SwitchLines
  <2>1. Len(lines) + 1 \in now /\ \A j \in now : j <= Len(lines) + 1 /\ j \in Nat
    BY <1>1, <1>3, <1>5
  <2>2. \A k \in now : (\A j \in now : j <= k) => k = Len(lines) + 1
    BY <1>1, <2>1
  <2>3. Told(more) <=> line.what = "activated"
    BY <1>1, <1>4, <2>1, <2>2
  <2> QED BY <1>5, <2>3
<1>6. CASE line.what \notin SwitchLines
  <2>1. now = toldAt
    BY <1>1, <1>2, <1>3, <1>6
  <2>2. \A k \in toldAt : more[k] = lines[k]
    BY <1>1, <1>2
  <2> QED BY <1>4, <1>6, <2>1, <2>2
<1> QED BY <1>5, <1>6

\* Nobody's line about the switch is begun or written, and the switch is left alone.
LEMMA SwitchLeft ==
  ASSUME SwitchInv, UNCHANGED <<switchOn, tangled, script>>, Told(log') <=> Told(log),
         \A t \in Threads : (Pending(t)' <=> Pending(t)) /\ (Pending(t) => thread'[t].line = thread[t].line)
  PROVE  SwitchInv'
<1>1. Chats \subseteq Threads
  BY DEF Threads
<1>2. CASE tangled
  BY <1>1, <1>2 DEF SwitchInv
<1>3. CASE ~tangled
  <2>1. \A t, u \in Threads : Pending(t)' /\ Pending(u)' => t = u
    BY <1>3 DEF SwitchInv
  <2>2. \A t \in Threads : Pending(t)' => /\ script' \notin SwitchLines
                                          /\ switchOn' <=> thread'[t].line = "activated"
    BY <1>3 DEF SwitchInv
  <2>3. script' \in SwitchLines => (switchOn' <=> script' = "activated")
    BY <1>3 DEF SwitchInv
  <2>4. script' \notin SwitchLines /\ (\A t \in Threads : ~Pending(t)')
            => (switchOn' <=> Told(log'))
    BY <1>3 DEF SwitchInv
  <2> QED BY <1>1, <2>1, <2>2, <2>3, <2>4 DEF SwitchInv
<1> QED BY <1>2, <1>3

\* An operation on the switch begins, ends or does not take place.
LEMMA SwitchMoves ==
  ASSUME PensInv, SwitchInv, NEW t \in Threads, t \notin Chats, NEW r, Quiet(t, r), ~Pending(t),
         switchOn' \in BOOLEAN, tangled' \in BOOLEAN, tangled => tangled', UNCHANGED script,
         \/ r.line \notin SwitchLines /\ (tangled' \/ switchOn' = switchOn)
         \/ /\ r.line \in SwitchLines /\ (switchOn' <=> r.line = "activated")
            /\ UnderWay => tangled'
  PROVE  SwitchInv'
<1>1. /\ thread'[t] = r /\ log' = log /\ script' = script
      /\ \A u \in Threads : u # t => thread'[u] = thread[u]
  BY DEF Quiet, PensInv
<1>2. /\ Pending(t)' <=> r.line \in SwitchLines
      /\ \A u \in Threads : u # t => (Pending(u)' <=> Pending(u))
  BY <1>1 DEF Pending
<1>3. Chats \subseteq Threads
  BY DEF Threads
<1>4. /\ \A u \in Chats : ~Pending(u)'
      /\ script' \in {"idle", "confirming"} \cup SwitchLines
  BY <1>1, <1>2, <1>3 DEF SwitchInv
<1>5. CASE tangled'
  BY <1>4, <1>5 DEF SwitchInv
<1>6. CASE ~tangled' /\ r.line \notin SwitchLines
  <2>1. \A u \in Threads : Pending(u)' <=> Pending(u)
    BY <1>2, <1>6
  <2>2. \A u \in Threads : Pending(u) => thread'[u].line = thread[u].line
    BY <1>1
  <2>3. ~tangled /\ switchOn' = switchOn
    BY <1>6
  <2> QED BY <1>1, <1>4, <2>1, <2>2, <2>3 DEF SwitchInv
<1>7. CASE ~tangled' /\ r.line \in SwitchLines
  <2>1. script \notin SwitchLines /\ \A u \in Threads : ~Pending(u)
    BY <1>7 DEF UnderWay
  <2>2. \A u \in Threads : Pending(u)' <=> u = t
    BY <1>2, <1>7, <2>1
  <2> QED BY <1>1, <1>4, <1>7, <2>1, <2>2 DEF SwitchInv
<1> QED BY <1>5, <1>6, <1>7

LEMMA SwitchOperated ==
  ASSUME PensInv, SwitchInv, NEW t \in Kills \cup Revivals, KillSteps(t) \/ RevivalSteps(t)
  PROVE  (\E r : Quiet(t, r)) /\ SwitchInv'
<1>1. t \in Threads /\ t \notin Chats
  BY HermesAssumption DEF Threads
<1>2. PICK q \in HermesThread : q = thread[t] /\ PenOK(t)
  BY <1>1 DEF PensInv, PenOK
<1>3. q.at # "filing" => q.pen = "up" /\ q.line = "none"
  BY <1>2 DEF PenOK
<1>4. /\ "none" \notin SwitchLines
      /\ "activated" \in SwitchLines /\ "activated" \in LineNames
      /\ "deactivated" \in SwitchLines /\ "deactivated" \in LineNames
  BY DEF SwitchLines, LineNames
<1>5. q.line = "none" => ~Pending(t)
  BY <1>2, <1>4 DEF Pending
<1>6. switchOn \in BOOLEAN /\ tangled \in BOOLEAN
  BY DEF SwitchInv
<1>7. CASE KillPosted(t)
  <2>1. /\ UNCHANGED <<lastOf, log, ragged, made, unfiled, script>>
        /\ switchOn' = TRUE /\ q.at = "new" /\ tangled' = (tangled \/ UnderWay)
    BY <1>2, <1>7 DEF KillPosted
  <2>2. PICK r : r = Files(q, "activated") /\ thread' = [thread EXCEPT ![t] = r]
    BY <1>2, <1>7 DEF KillPosted, Set
  <2>3. r \in HermesThread /\ r.at = "filing" /\ r.line = "activated" /\ r.pen = q.pen
    BY <1>4, <2>2, Filing
  <2>4. Quiet(t, r)
    BY <1>2, <1>3, <1>4, <2>1, <2>2, <2>3 DEF Quiet
  <2>5. /\ switchOn' \in BOOLEAN /\ tangled' \in BOOLEAN /\ (tangled => tangled')
        /\ (switchOn' <=> r.line = "activated")
        /\ (UnderWay => tangled')
    BY <1>6, <2>1, <2>3 DEF UnderWay
  <2> QED BY <1>1, <1>3, <1>4, <1>5, <2>1, <2>3, <2>4, <2>5, SwitchMoves
<1>8. CASE KillFails(t)
  <2>1. /\ UNCHANGED <<lastOf, log, ragged, made, unfiled, script>> /\ switchOn' \in {switchOn, TRUE}
        /\ q.at = "new" /\ tangled' = (tangled \/ switchOn' # switchOn)
    BY <1>2, <1>8 DEF KillFails
  <2>2. PICK r : r = Ends(q, "error") /\ thread' = [thread EXCEPT ![t] = r]
    BY <1>2, <1>8 DEF KillFails, Set
  <2>3. "error" \in ReplyNames
    BY DEF ReplyNames
  <2>4. r \in HermesThread /\ r.at = "done" /\ r.line = "none" /\ r.pen = "up"
    BY <2>2, <2>3, ThreadEnded
  <2>5. Quiet(t, r)
    BY <1>2, <1>3, <2>1, <2>2, <2>4 DEF Quiet
  <2>6. /\ switchOn' \in BOOLEAN /\ tangled' \in BOOLEAN /\ (tangled => tangled')
        /\ (tangled' \/ switchOn' = switchOn)
    BY <1>6, <2>1
  <2> QED BY <1>1, <1>3, <1>4, <1>5, <2>1, <2>4, <2>5, <2>6, SwitchMoves
<1>9. CASE RevivalLooks(t)
  <2>1. UNCHANGED <<switchOn, tangled, lastOf, log, ragged, made, unfiled, script>> /\ q.at = "new"
    BY <1>2, <1>9 DEF RevivalLooks
  <2>2. PICK r : /\ r = IF switchOn THEN [q EXCEPT !.at = "unlinking"] ELSE Ends(q, "inactive")
                 /\ thread' = [thread EXCEPT ![t] = r]
    BY <1>2, <1>9 DEF RevivalLooks, Set
  <2>3. "unlinking" \in Stages
    BY DEF Stages
  <2>4. "inactive" \in ReplyNames
    BY DEF ReplyNames
  <2>5. r \in HermesThread /\ r.at # "filing" /\ r.line = "none" /\ r.pen = "up"
    <3>1. CASE switchOn
      <4>1. r = [q EXCEPT !.at = "unlinking"]
        BY <2>2, <3>1
      <4>2. r \in HermesThread /\ r.at = "unlinking" /\ r.line = q.line /\ r.pen = q.pen
        BY <2>3, <4>1, Moved
      <4> QED BY <1>3, <2>1, <4>2
    <3>2. CASE ~switchOn
      <4>1. r = Ends(q, "inactive")
        BY <2>2, <3>2
      <4>2. r \in HermesThread /\ r.at = "done" /\ r.line = "none" /\ r.pen = "up"
        BY <2>4, <4>1, ThreadEnded
      <4> QED BY <4>2
    <3> QED BY <3>1, <3>2
  <2>6. Quiet(t, r)
    BY <1>2, <1>3, <2>1, <2>2, <2>5 DEF Quiet
  <2> QED BY <1>1, <1>3, <1>4, <1>5, <1>6, <2>1, <2>5, <2>6, SwitchMoves
<1>10. CASE RevivalUnlinks(t)
  <2>1. /\ UNCHANGED <<lastOf, log, ragged, made, unfiled, script>> /\ switchOn' = FALSE
        /\ q.at = "unlinking"
    BY <1>2, <1>10 DEF RevivalUnlinks
  <2>2. CASE switchOn
    <3>1. tangled' = (tangled \/ UnderWay)
      BY <1>10, <2>2 DEF RevivalUnlinks
    <3>2. PICK r : r = Files(q, "deactivated") /\ thread' = [thread EXCEPT ![t] = r]
      BY <1>2, <1>10, <2>2 DEF RevivalUnlinks, Set
    <3>3. r \in HermesThread /\ r.at = "filing" /\ r.line = "deactivated" /\ r.pen = q.pen
      BY <1>4, <3>2, Filing
    <3>4. Quiet(t, r)
      BY <1>2, <1>3, <1>4, <2>1, <3>2, <3>3 DEF Quiet
    <3>5. /\ switchOn' \in BOOLEAN /\ tangled' \in BOOLEAN /\ (tangled => tangled')
          /\ (switchOn' <=> r.line = "activated")
          /\ (UnderWay => tangled')
      BY <1>6, <2>1, <3>1, <3>3 DEF UnderWay
    <3> QED BY <1>1, <1>3, <1>4, <1>5, <2>1, <3>3, <3>4, <3>5, SwitchMoves
  <2>3. CASE ~switchOn
    <3>1. tangled' = tangled
      BY <1>10, <2>3 DEF RevivalUnlinks
    <3>2. PICK r : r = Ends(q, "error") /\ thread' = [thread EXCEPT ![t] = r]
      BY <1>2, <1>10, <2>3 DEF RevivalUnlinks, Set
    <3>3. "error" \in ReplyNames
      BY DEF ReplyNames
    <3>4. r \in HermesThread /\ r.at = "done" /\ r.line = "none" /\ r.pen = "up"
      BY <3>2, <3>3, ThreadEnded
    <3>5. Quiet(t, r)
      BY <1>2, <1>3, <2>1, <3>2, <3>4 DEF Quiet
    <3>6. switchOn' \in BOOLEAN /\ tangled' \in BOOLEAN /\ switchOn' = switchOn
      BY <1>6, <2>1, <2>3, <3>1
    <3> QED BY <1>1, <1>3, <1>4, <1>5, <2>1, <3>1, <3>4, <3>5, <3>6, SwitchMoves
  <2> QED BY <2>2, <2>3
<1> QED BY <1>7, <1>8, <1>9, <1>10 DEF KillSteps, RevivalSteps

\* What the lines of a request say.
Whats(t, lines) == {lines[k].what : k \in {j \in DOMAIN lines : lines[j].of = t}}

ChatInv == \A t \in Chats : ChatFine(thread[t], Whats(t, log))

SameButPen(r, s) ==
    /\ s.at = r.at /\ s.line = r.line /\ s.answer = r.answer
    /\ (s.sent <=> r.sent) /\ (s.stopped <=> r.stopped)

LEMMA SameIsFine ==
  ASSUME NEW r, NEW s, NEW whats, SameButPen(r, s), ChatFine(r, whats)
  PROVE  ChatFine(s, whats)
  BY DEF SameButPen, ChatFine

Longer(lines, line, more) ==
    lines \in Seq(LogLine) /\ line \in LogLine /\ more = Append(lines, line)

LEMMA WhatsGrow ==
  ASSUME NEW lines, NEW line, NEW more, Longer(lines, line, more), NEW t
  PROVE  /\ line.of = t => Whats(t, more) = Whats(t, lines) \cup {line.what}
         /\ line.of # t => Whats(t, more) = Whats(t, lines)
<1>1. /\ Len(more) = Len(lines) + 1 /\ Len(lines) \in Nat /\ more[Len(lines) + 1] = line
      /\ \A k \in 1 .. Len(lines) : more[k] = lines[k]
      /\ DOMAIN more = 1 .. Len(lines) + 1 /\ DOMAIN lines = 1 .. Len(lines)
  BY LineAdded DEF Longer
<1>2. \A k \in 1 .. Len(lines) + 1 : k \in 1 .. Len(lines) \/ k = Len(lines) + 1
  BY <1>1
<1>3. \A what : what \in Whats(t, lines) <=>
                \E k \in 1 .. Len(lines) : lines[k].of = t /\ lines[k].what = what
  BY <1>1 DEF Whats
<1>4. \A what : what \in Whats(t, more) <=>
                \E k \in 1 .. Len(lines) + 1 : more[k].of = t /\ more[k].what = what
  BY <1>1 DEF Whats
<1>5. \A what : what \in Whats(t, more) <=>
                \/ what \in Whats(t, lines)
                \/ line.of = t /\ what = line.what
  <2> TAKE what
  <2>1. ASSUME NEW k \in 1 .. Len(lines) + 1, more[k].of = t, more[k].what = what
        PROVE  what \in Whats(t, lines) \/ (line.of = t /\ what = line.what)
    BY <1>1, <1>2, <1>3, <2>1
  <2>2. ASSUME NEW k \in 1 .. Len(lines), lines[k].of = t, lines[k].what = what
        PROVE  what \in Whats(t, more)
    <3>1. k \in 1 .. Len(lines) + 1 /\ more[k] = lines[k]
      BY <1>1
    <3> QED BY <1>4, <2>2, <3>1
  <2>3. ASSUME line.of = t, what = line.what
        PROVE  what \in Whats(t, more)
    <3>1. Len(lines) + 1 \in 1 .. Len(lines) + 1
      BY <1>1
    <3> QED BY <1>1, <1>4, <2>3, <3>1
  <2> QED BY <1>3, <1>4, <2>1, <2>2, <2>3
<1> HIDE DEF Whats
<1>6. CASE line.of = t
  <2>1. Whats(t, more) = Whats(t, lines) \cup {line.what}
    BY <1>5, <1>6
  <2> QED BY <1>6, <2>1
<1>7. CASE line.of # t
  <2>1. Whats(t, more) = Whats(t, lines)
    BY <1>5, <1>7
  <2> QED BY <1>7, <2>1
<1> QED BY <1>6, <1>7

\* Reading and setting the last hash changes nothing else.
LEMMA PenMoves ==
  ASSUME PensInv, NEW t \in Threads, PenReads(t) \/ PenSets(t)
  PROVE  /\ \A u \in Threads : SameButPen(thread[u], thread'[u])
         /\ UNCHANGED <<log, switchOn, tangled, script>>
<1>1. \A u \in Threads : PenOK(u) /\ thread[u] \in HermesThread
  BY DEF PensInv, PenOK
<1>2. CASE PenReads(t)
  <2> DEFINE others == {u \in Threads \ {t} : thread[u].pen # "up"}
  <2>1. /\ UNCHANGED <<log, switchOn, tangled, script>>
        /\ thread'[t] = [thread[t] EXCEPT !.pen = "read", !.prev = lastOf, !.shared = others # {}]
        /\ \A u \in Threads \ {t} :
               thread'[u] = IF u \in others THEN [thread[u] EXCEPT !.shared = TRUE] ELSE thread[u]
    BY <1>2 DEF PenReads
  <2>2. ASSUME NEW u \in Threads PROVE SameButPen(thread[u], thread'[u])
    <3>1. PICK r \in HermesThread : r = thread[u]
      BY <1>1
    <3>2. PICK s : s = thread'[u]
      OBVIOUS
    <3>3. CASE u = t
      <4>1. PICK b \in BOOLEAN : b <=> others # {}
        OBVIOUS
      <4>2. PICK h \in Nat : h = lastOf
        BY DEF PensInv
      <4>3. s = Out(r, h, b)
        BY <2>1, <3>1, <3>2, <3>3, <4>1, <4>2 DEF Out
      <4>4. /\ s.at = r.at /\ s.line = r.line /\ s.answer = r.answer
            /\ (s.sent <=> r.sent) /\ (s.stopped <=> r.stopped)
        BY <4>3, PenOut
      <4> QED BY <3>1, <3>2, <4>4 DEF SameButPen
    <3>4. CASE u # t /\ u \in others
      <4>1. s = [r EXCEPT !.shared = TRUE]
        BY <2>1, <3>1, <3>2, <3>4
      <4>2. /\ s.at = r.at /\ s.line = r.line /\ s.answer = r.answer
            /\ (s.sent <=> r.sent) /\ (s.stopped <=> r.stopped)
        BY <4>1, PenSeen
      <4> QED BY <3>1, <3>2, <4>2 DEF SameButPen
    <3>5. CASE u # t /\ u \notin others
      BY <2>1, <3>5 DEF SameButPen
    <3> QED BY <3>3, <3>4, <3>5
  <2> QED BY <2>1, <2>2
<1>3. CASE PenSets(t)
  <2>1. /\ UNCHANGED <<log, switchOn, tangled, script>>
        /\ thread'[t] = [thread[t] EXCEPT !.pen = "set", !.own = made + 1]
        /\ \A u \in Threads : u # t => thread'[u] = thread[u]
    BY <1>3 DEF PenSets, Set, PensInv
  <2>2. ASSUME NEW u \in Threads PROVE SameButPen(thread[u], thread'[u])
    <3>1. CASE u = t
      <4>1. PICK r \in HermesThread : r = thread[u]
        BY <1>1
      <4>2. PICK s : s = thread'[u]
        OBVIOUS
      <4>3. PICK h \in Nat : h = made + 1
        BY DEF PensInv
      <4>4. s = Inked(r, h)
        BY <2>1, <3>1, <4>1, <4>2, <4>3 DEF Inked
      <4>5. /\ s.at = r.at /\ s.line = r.line /\ s.answer = r.answer
            /\ (s.sent <=> r.sent) /\ (s.stopped <=> r.stopped)
        BY <4>4, PenInked
      <4> QED BY <4>1, <4>2, <4>5 DEF SameButPen
    <3>2. CASE u # t
      BY <2>1, <3>2 DEF SameButPen
    <3> QED BY <3>1, <3>2
  <2> QED BY <2>1, <2>2
<1> QED BY <1>2, <1>3

LEMMA NoPensInvolved ==
  ASSUME SwitchInv, ChatInv, UNCHANGED <<log, switchOn, tangled, script>>,
         \A u \in Threads : SameButPen(thread[u], thread'[u])
  PROVE  SwitchInv' /\ ChatInv'
<1>1. \A u \in Threads : (Pending(u)' <=> Pending(u)) /\ thread'[u].line = thread[u].line
  BY DEF SameButPen, Pending
<1>2. SwitchInv'
  <2>1. Told(log') <=> Told(log)
    OBVIOUS
  <2> QED BY <1>1, <2>1, SwitchLeft
<1>3. ASSUME NEW u \in Chats PROVE ChatFine(thread'[u], Whats(u, log'))
  <2>1. u \in Threads /\ ChatFine(thread[u], Whats(u, log')) /\ SameButPen(thread[u], thread'[u])
    BY DEF ChatInv, Threads
  <2> QED BY <2>1, SameIsFine
<1> QED BY <1>2, <1>3 DEF ChatInv

LEMMA ChatStepKeeps ==
  ASSUME PensInv, SwitchInv, ChatInv, NEW t \in Chats, NEW r, ChatStep(t, r)
  PROVE  SwitchInv' /\ ChatInv'
<1>1. /\ t \in Threads /\ thread'[t] = r /\ UNCHANGED <<log, switchOn, tangled, script>>
      /\ \A u \in Threads : u # t => thread'[u] = thread[u]
      /\ r.line \notin SwitchLines
  BY DEF ChatStep, Quiet, PensInv, Threads
<1>2. ~Pending(t) /\ ~Pending(t)'
  BY <1>1 DEF SwitchInv, Pending
<1>3. SwitchInv'
  <2>1. \A u \in Threads : (Pending(u)' <=> Pending(u))
                           /\ (Pending(u) => thread'[u].line = thread[u].line)
    BY <1>1, <1>2 DEF Pending
  <2> QED BY <1>1, <2>1, SwitchLeft
<1>4. ASSUME NEW u \in Chats PROVE ChatFine(thread'[u], Whats(u, log'))
  <2>1. u \in Threads /\ ChatFine(thread[u], Whats(u, log))
    BY DEF ChatInv, Threads
  <2>2. CASE u = t
    BY <1>1, <2>1, <2>2 DEF ChatStep
  <2>3. CASE u # t
    BY <1>1, <2>1, <2>3
  <2> QED BY <2>2, <2>3
<1> QED BY <1>3, <1>4 DEF ChatInv

\* A line is written: it is then what the log tells last, and what the client may be told.
LEMMA WritingKeeps ==
  ASSUME PensInv, SwitchInv, ChatInv, NEW t \in Threads, PenWrites(t)
  PROVE  SwitchInv' /\ ChatInv'
<1>1. PICK line : line = AuditLineOf(t)
  OBVIOUS
<1>2. /\ UNCHANGED <<switchOn, script>> /\ thread[t].pen = "set"
      /\ log' = Append(log, line) /\ tangled' = (tangled \/ (ragged /\ Pending(t)))
      /\ thread'[t] = AfterLine(thread[t])
      /\ \A u \in Threads : u # t => thread'[u] = thread[u]
  BY <1>1 DEF PenWrites, Set, PensInv
<1>3. PICK q \in HermesThread : q = thread[t] /\ PenOK(t)
  BY DEF PensInv, PenOK
<1>4. q.at = "filing" /\ q.line \in LineNames /\ q.prev \in Nat /\ q.own \in Nat
  BY <1>2, <1>3 DEF PenOK, PensInv, HermesThread
<1>5. PICK r : r = AfterLine(q)
  OBVIOUS
<1>6. /\ r \in HermesThread /\ r.at \in {"done", "sending", "answering"} /\ r.line = "none"
      /\ (r.sent <=> q.sent) /\ (r.stopped <=> q.stopped)
      /\ r.at = "sending" => q.line = "findings" /\ ~q.stopped /\ r.answer = q.answer
      /\ r.at = "answering" => q.line = "proxied"
      /\ r.answer \in {"released", "cut"} => q.line = "proxied" \/ r.answer = q.answer
      /\ r.answer = "forbidden" => q.line = "findings" \/ r.answer = q.answer
      /\ r.answer = "killed" => q.line = "blocked" \/ r.answer = q.answer
  BY <1>5, LineDone
<1>7. line \in LogLine /\ line.what = q.line /\ line.of = t
  <2>1. line = [what |-> q.line, of |-> t, prev |-> q.prev, own |-> q.own,
                shared |-> q.shared, whole |-> ~ragged]
    BY <1>1, <1>3 DEF AuditLineOf
  <2>2. ragged \in BOOLEAN /\ q.shared \in BOOLEAN
    BY DEF PensInv, HermesThread
  <2> QED BY <1>4, <2>1, <2>2 DEF LogLine
<1>8. log \in Seq(LogLine)
  BY DEF PensInv
<1>9. "none" \notin SwitchLines
  BY DEF SwitchLines
<1>10. ~Pending(t)' /\ (Pending(t) <=> q.line \in SwitchLines)
  BY <1>2, <1>3, <1>5, <1>6, <1>9 DEF Pending
<1>11. \A u \in Threads : u # t => (Pending(u)' <=> Pending(u))
  BY <1>2 DEF Pending
<1>12. SwitchInv'
  <2>1. CASE q.line \notin SwitchLines
    <3>1. Told(log') <=> Told(log)
      BY <1>2, <1>7, <1>8, <2>1, TellsLast
    <3>2. \A u \in Threads : (Pending(u)' <=> Pending(u))
                             /\ (Pending(u) => thread'[u].line = thread[u].line)
      BY <1>2, <1>10, <1>11, <2>1
    <3>3. UNCHANGED <<switchOn, tangled, script>>
      <4>1. ~Pending(t) /\ tangled \in BOOLEAN
        BY <1>10, <2>1 DEF SwitchInv
      <4> QED BY <1>2, <4>1
    <3> QED BY <3>1, <3>2, <3>3, SwitchLeft
  <2>2. CASE q.line \in SwitchLines
    <3>1. Told(log') <=> q.line = "activated"
      BY <1>2, <1>7, <1>8, <2>2, TellsLast
    <3>2. \A u \in Chats : ~Pending(u)'
      <4>1. Chats \subseteq Threads
        BY DEF Threads
      <4> QED BY <1>10, <1>11, <4>1 DEF SwitchInv
    <3>3. /\ tangled' \in BOOLEAN /\ switchOn' \in BOOLEAN /\ (tangled => tangled')
          /\ script' \in {"idle", "confirming"} \cup SwitchLines
      BY <1>2, Zenon DEF SwitchInv
    <3>4. CASE ~tangled'
      <4>1. \A u \in Threads : Pending(u) => u = t
        BY <1>10, <2>2, <3>3, <3>4 DEF SwitchInv
      <4>2. \A u \in Threads : ~Pending(u)'
        BY <1>10, <1>11, <4>1
      <4>3. script' \notin SwitchLines /\ (switchOn <=> q.line = "activated")
        <5>1. ~tangled
          BY <3>3, <3>4
        <5>2. Pending(t) => /\ script \notin SwitchLines
                            /\ switchOn <=> thread[t].line = "activated"
          BY <5>1 DEF SwitchInv
        <5> QED BY Zenon, <1>2, <1>3, <1>10, <2>2, <5>2
      <4> QED BY <1>2, <3>1, <3>2, <3>3, <4>2, <4>3 DEF SwitchInv
    <3>5. CASE tangled'
      BY <3>2, <3>3, <3>5 DEF SwitchInv
    <3> QED BY <3>4, <3>5
  <2> QED BY <2>1, <2>2
<1>13. ASSUME NEW u \in Chats PROVE ChatFine(thread'[u], Whats(u, log'))
  <2>1. u \in Threads /\ ChatFine(thread[u], Whats(u, log))
    BY DEF ChatInv, Threads
  <2>2. Whats(u, log') = IF t = u THEN Whats(u, log) \cup {q.line} ELSE Whats(u, log)
    <3>1. PICK more : more = log'
      OBVIOUS
    <3>2. PICK lines \in Seq(LogLine) : lines = log
      BY <1>7, <1>8
    <3>3. Longer(lines, line, more)
      BY <1>2, <1>7, <1>8, <3>1, <3>2 DEF Longer
    <3>4. line.of = u => Whats(u, more) = Whats(u, lines) \cup {line.what}
      BY <3>3, WhatsGrow
    <3>5. line.of # u => Whats(u, more) = Whats(u, lines)
      BY <3>3, WhatsGrow
    <3> QED BY <1>7, <3>1, <3>2, <3>4, <3>5
  <2>3. CASE u = t
    <3>1. PICK before : before = Whats(u, log)
      OBVIOUS
    <3>2. ChatFine(q, before)
      BY <1>3, <2>1, <2>3, <3>1
    <3>3. ChatFine(r, before \cup {q.line})
      BY <1>4, <1>6, <3>2 DEF ChatFine
    <3> QED BY <1>2, <1>3, <1>5, <2>2, <2>3, <3>1, <3>3
  <2>4. CASE u # t
    BY <1>2, <2>1, <2>2, <2>4
  <2> QED BY <2>3, <2>4
<1> QED BY <1>12, <1>13 DEF ChatInv

LEMMA FailingKeeps ==
  ASSUME PensInv, SwitchInv, ChatInv, NEW t \in Threads, PenFails(t)
  PROVE  SwitchInv' /\ ChatInv'
<1>1. /\ UNCHANGED <<switchOn, log, script>> /\ thread[t].pen = "set"
      /\ tangled' = (tangled \/ Pending(t))
      /\ thread'[t] = Ends(thread[t], "error")
      /\ \A u \in Threads : u # t => thread'[u] = thread[u]
  BY DEF PenFails, Set, PensInv
<1>2. PICK q \in HermesThread : q = thread[t] /\ PenOK(t)
  BY DEF PensInv, PenOK
<1>3. q.at = "filing"
  BY <1>1, <1>2 DEF PenOK
<1>4. "error" \in ReplyNames
  BY DEF ReplyNames
<1>5. PICK r : r = Ends(q, "error")
  OBVIOUS
<1>6. /\ r \in HermesThread /\ r.at = "done" /\ r.line = "none" /\ r.pen = "up"
      /\ r.answer = "error" /\ (r.sent <=> q.sent) /\ (r.stopped <=> q.stopped)
  BY <1>4, <1>5, ThreadEnded
<1>7. "none" \notin SwitchLines
  BY DEF SwitchLines
<1>8. ~Pending(t)' /\ \A u \in Threads : u # t => (Pending(u)' <=> Pending(u))
  BY <1>1, <1>2, <1>5, <1>6, <1>7 DEF Pending
<1>9. SwitchInv'
  <2>1. CASE Pending(t)
    <3>1. /\ tangled' = TRUE /\ switchOn' \in BOOLEAN
          /\ script' \in {"idle", "confirming"} \cup SwitchLines
      BY <1>1, <2>1 DEF SwitchInv
    <3>2. Chats \subseteq Threads
      BY DEF Threads
    <3> QED BY <1>8, <3>1, <3>2 DEF SwitchInv
  <2>2. CASE ~Pending(t)
    <3>1. \A u \in Threads : (Pending(u)' <=> Pending(u))
                             /\ (Pending(u) => thread'[u].line = thread[u].line)
      BY <1>1, <1>8, <2>2
    <3>2. tangled \in BOOLEAN
      BY DEF SwitchInv
    <3>3. UNCHANGED <<switchOn, tangled, script>> /\ (Told(log') <=> Told(log))
      BY <1>1, <2>2, <3>2
    <3> QED BY <3>1, <3>3, SwitchLeft
  <2> QED BY <2>1, <2>2
<1>10. ASSUME NEW u \in Chats PROVE ChatFine(thread'[u], Whats(u, log'))
  <2>1. u \in Threads /\ ChatFine(thread[u], Whats(u, log)) /\ log' = log
    BY <1>1 DEF ChatInv, Threads
  <2>2. CASE u = t
    <3>1. PICK whats : whats = Whats(u, log)
      OBVIOUS
    <3>2. ChatFine(q, whats)
      BY <1>2, <2>1, <2>2, <3>1
    <3>3. ChatFine(r, whats)
      BY <1>3, <1>6, <3>2 DEF ChatFine
    <3> QED BY <1>1, <1>2, <1>5, <2>1, <2>2, <3>1, <3>3
  <2>3. CASE u # t
    BY <1>1, <2>1, <2>3
  <2> QED BY <2>2, <2>3
<1> QED BY <1>9, <1>10 DEF ChatInv

LEMMA RebootingKeeps ==
  ASSUME PensInv, SwitchInv, ChatInv, Reboots
  PROVE  SwitchInv' /\ ChatInv'
<1>1. PICK line : line = [what |-> "started", of |-> "main", prev |-> 0, own |-> made',
                          shared |-> FALSE, whole |-> ~ragged]
  OBVIOUS
<1>2. /\ UNCHANGED <<switchOn, script>> /\ log' = Append(log, line) /\ made' = made + 1
      /\ tangled' = (tangled \/ \E t \in Threads : Pending(t))
      /\ \A t \in Threads :
             thread'[t] = IF thread[t].at \in {"new", "done"} THEN thread[t]
                          ELSE Ends(thread[t], "lost")
  BY <1>1 DEF Reboots
<1>3. log \in Seq(LogLine) /\ ragged \in BOOLEAN /\ made' \in Nat
  BY <1>2 DEF PensInv
<1>4. line \in LogLine /\ line.what = "started" /\ line.of = "main"
  BY <1>1, <1>3 DEF LogLine
<1>5. "started" \notin SwitchLines /\ "none" \notin SwitchLines
  BY DEF SwitchLines
<1>6. "lost" \in ReplyNames
  BY DEF ReplyNames
<1>7. ASSUME NEW t \in Threads
      PROVE  /\ thread'[t].line = "none"
             /\ \A whats : ChatFine(thread[t], whats) => ChatFine(thread'[t], whats)
  <2>1. PICK q \in HermesThread : q = thread[t] /\ PenOK(t)
    BY DEF PensInv, PenOK
  <2>2. CASE q.at \in {"new", "done"}
    BY <1>2, <2>1, <2>2 DEF PenOK
  <2>3. CASE q.at \notin {"new", "done"}
    <3>1. PICK r : r = Ends(q, "lost")
      OBVIOUS
    <3>2. /\ r.at = "done" /\ r.line = "none"
          /\ r.answer = "lost" /\ (r.sent <=> q.sent) /\ (r.stopped <=> q.stopped)
      BY <1>6, <3>1, ThreadEnded
    <3>3. \A whats : ChatFine(q, whats) => ChatFine(r, whats)
      BY <3>2 DEF ChatFine
    <3> QED BY <1>2, <2>1, <2>3, <3>1, <3>2, <3>3
  <2> QED BY <2>2, <2>3
<1>8. \A t \in Threads : ~Pending(t)'
  BY <1>5, <1>7 DEF Pending
<1>9. SwitchInv'
  <2>1. Told(log') <=> Told(log)
    BY <1>2, <1>3, <1>4, <1>5, TellsLast
  <2>2. CASE \E t \in Threads : Pending(t)
    <3>1. /\ tangled' = TRUE /\ switchOn' \in BOOLEAN
          /\ script' \in {"idle", "confirming"} \cup SwitchLines
      BY <1>2, <2>2 DEF SwitchInv
    <3>2. Chats \subseteq Threads
      BY DEF Threads
    <3> QED BY <1>8, <3>1, <3>2 DEF SwitchInv
  <2>3. CASE \A t \in Threads : ~Pending(t)
    <3>1. tangled \in BOOLEAN
      BY DEF SwitchInv
    <3>2. UNCHANGED <<switchOn, tangled, script>>
      BY <1>2, <2>3, <3>1
    <3> QED BY <1>8, <2>1, <2>3, <3>2, SwitchLeft
  <2> QED BY <2>2, <2>3
<1>10. ASSUME NEW u \in Chats PROVE ChatFine(thread'[u], Whats(u, log'))
  <2>1. PICK before : before = Whats(u, log)
    OBVIOUS
  <2>2. u \in Threads /\ ChatFine(thread[u], before)
    BY <2>1 DEF ChatInv, Threads
  <2>3. ChatFine(thread'[u], before)
    BY <1>7, <2>2
  <2>4. Whats(u, log') = IF "main" = u THEN before \cup {"started"} ELSE before
    <3>1. PICK more : more = log'
      OBVIOUS
    <3>2. PICK lines \in Seq(LogLine) : lines = log
      BY <1>3, <1>4
    <3>3. Longer(lines, line, more)
      BY <1>2, <1>3, <1>4, <3>1, <3>2 DEF Longer
    <3>4. line.of = u => Whats(u, more) = Whats(u, lines) \cup {line.what}
      BY <3>3, WhatsGrow
    <3>5. line.of # u => Whats(u, more) = Whats(u, lines)
      BY <3>3, WhatsGrow
    <3> QED BY <1>4, <2>1, <3>1, <3>2, <3>4, <3>5
  <2>5. ChatFine(thread'[u], before \cup {"started"})
    BY <2>3 DEF ChatFine
  <2> QED BY <2>3, <2>4, <2>5
<1> QED BY <1>9, <1>10 DEF ChatInv

\* The script leaves the log, its lines and the threads, or writes a line of its own.
LEMMA ScriptSwitches ==
  ASSUME PensInv, SwitchInv, ChatInv, UNCHANGED <<lastOf, log, made, thread, unfiled>>,
         ragged' \in BOOLEAN, switchOn' \in BOOLEAN, tangled' \in BOOLEAN,
         script' \in {"idle", "confirming"} \cup SwitchLines,
         \/ tangled'
         \/ /\ ~tangled /\ UNCHANGED switchOn
            /\ script \notin SwitchLines /\ script' \notin SwitchLines
         \/ ~UnderWay /\ script' \in SwitchLines /\ (switchOn' <=> script' = "activated")
  PROVE  PensInv' /\ SwitchInv' /\ ChatInv'
<1>1. PensInv'
  BY DEF PensInv, PenOK, ChainExplained, Hashed
<1>2. /\ \A t \in Threads : Pending(t)' <=> Pending(t)
      /\ \A t \in Chats : ~Pending(t)'
  <2>1. \A t : Pending(t)' <=> Pending(t)
    BY DEF Pending
  <2> QED BY <2>1 DEF SwitchInv
<1>3. SwitchInv'
  <2>1. CASE tangled'
    BY <1>2, <2>1 DEF SwitchInv
  <2>2. CASE /\ ~tangled /\ UNCHANGED switchOn
             /\ script \notin SwitchLines /\ script' \notin SwitchLines
    BY <1>2, <2>2 DEF SwitchInv
  <2>3. CASE ~UnderWay /\ script' \in SwitchLines /\ (switchOn' <=> script' = "activated")
    <3>1. \A t \in Threads : ~Pending(t)'
      BY <1>2, <2>3 DEF UnderWay
    <3> QED BY <1>2, <2>3, <3>1 DEF SwitchInv
  <2> QED BY <2>1, <2>2, <2>3
<1>4. ChatInv'
  BY DEF ChatInv
<1> QED BY <1>1, <1>3, <1>4

LEMMA ScriptWrites ==
  ASSUME PensInv, SwitchInv, ChatInv, ScriptLogs
  PROVE  PensInv' /\ SwitchInv' /\ ChatInv'
<1>1. PICK whole \in {~ragged, FALSE} :
        /\ log' = Append(log, [what |-> script, of |-> "script", prev |-> NoHash, own |-> NoHash,
                               shared |-> FALSE, whole |-> whole])
        /\ tangled' = (tangled \/ ~whole)
  BY DEF ScriptLogs
<1>2. PICK line : line = [what |-> script, of |-> "script", prev |-> NoHash, own |-> NoHash,
                          shared |-> FALSE, whole |-> whole]
  OBVIOUS
<1>3. /\ script \in SwitchLines /\ script' = "idle" /\ ragged' = FALSE
      /\ UNCHANGED <<switchOn, lastOf, made, thread, unfiled>>
  BY DEF ScriptLogs
<1>4. log \in Seq(LogLine) /\ whole \in BOOLEAN /\ log' = Append(log, line)
  BY <1>1, <1>2 DEF PensInv
<1>5. line \in LogLine /\ line.own = NoHash /\ line.what = script /\ line.of = "script"
  BY <1>2, <1>3, <1>4 DEF LogLine, LineNames, SwitchLines, NoHash
<1>6. PensInv'
  BY <1>3, <1>4, <1>5, HashlessLine
<1>7. Told(log') <=> script = "activated"
  BY <1>3, <1>4, <1>5, TellsLast
<1>8. "idle" \notin SwitchLines
  BY DEF SwitchLines
<1>9. /\ \A t \in Threads : Pending(t)' <=> Pending(t)
      /\ \A t \in Chats : ~Pending(t)'
  <2>1. \A t : Pending(t)' <=> Pending(t)
    BY <1>3 DEF Pending
  <2> QED BY <2>1 DEF SwitchInv
<1>10. /\ switchOn' \in BOOLEAN /\ tangled' \in BOOLEAN /\ (tangled => tangled')
       /\ script' \in {"idle", "confirming"} \cup SwitchLines
  <2>1. switchOn' \in BOOLEAN /\ tangled \in BOOLEAN
    BY <1>3 DEF SwitchInv
  <2> QED BY Zenon, <1>1, <1>3, <1>4, <2>1
<1>11. SwitchInv'
  <2>1. CASE tangled'
    BY <1>9, <1>10, <2>1 DEF SwitchInv
  <2>2. CASE ~tangled'
    <3>1. \A t \in Threads : ~Pending(t)'
      <4>1. ~tangled
        BY <1>10, <2>2
      <4>2. \A t \in Threads : ~Pending(t)
        BY <1>3, <4>1 DEF SwitchInv
      <4> QED BY <1>9, <4>2
    <3>2. switchOn' <=> Told(log')
      BY <1>3, <1>7, <1>10, <2>2 DEF SwitchInv
    <3> QED BY <1>3, <1>8, <1>9, <1>10, <3>1, <3>2 DEF SwitchInv
  <2> QED BY <2>1, <2>2
<1>12. ASSUME NEW u \in Chats PROVE ChatFine(thread'[u], Whats(u, log'))
  <2>1. PICK before : before = Whats(u, log)
    OBVIOUS
  <2>2. ChatFine(thread[u], before)
    BY <2>1 DEF ChatInv
  <2>3. Whats(u, log') = IF "script" = u THEN before \cup {script} ELSE before
    <3>1. PICK more : more = log'
      OBVIOUS
    <3>2. PICK lines \in Seq(LogLine) : lines = log
      BY <1>4
    <3>3. Longer(lines, line, more)
      BY <1>4, <1>5, <3>1, <3>2 DEF Longer
    <3>4. line.of = u => Whats(u, more) = Whats(u, lines) \cup {line.what}
      BY <3>3, WhatsGrow
    <3>5. line.of # u => Whats(u, more) = Whats(u, lines)
      BY <3>3, WhatsGrow
    <3> QED BY <1>5, <2>1, <3>1, <3>2, <3>4, <3>5
  <2>4. script # "proxied"
    BY <1>3 DEF SwitchLines
  <2>5. ChatFine(thread[u], before \cup {script})
    BY <2>2, <2>4 DEF ChatFine
  <2> QED BY <1>3, <2>2, <2>3, <2>5
<1> QED BY <1>6, <1>11, <1>12 DEF ChatInv

HermesInv == PensInv /\ SwitchInv /\ ChatInv

LEMMA HermesStarts == HermesInit => HermesInv
<1> SUFFICES ASSUME HermesInit PROVE HermesInv
  OBVIOUS
<1>1. ASSUME NEW t \in Chats PROVE ChatFine(thread[t], Whats(t, log))
  <2>1. t \in Threads /\ log = <<>>
    BY DEF Threads, HermesInit
  <2>2. thread[t] = Fresh
    BY <2>1 DEF HermesInit
  <2>3. Whats(t, log) = {}
    BY <2>1 DEF Whats
  <2> QED BY <2>2, <2>3 DEF ChatFine, Fresh
<1> QED BY <1>1, PensStart, SwitchStart DEF HermesInv, ChatInv

LEMMA HermesStep == HermesInv /\ [HermesNext]_hermesVars => HermesInv'
<1> SUFFICES ASSUME HermesInv, [HermesNext]_hermesVars PROVE HermesInv'
  OBVIOUS
<1>0. PensInv /\ SwitchInv /\ ChatInv
  BY DEF HermesInv
<1>1. ASSUME NEW t \in Chats, ChatSteps(t) PROVE HermesInv'
  <2>1. t \in Threads
    BY DEF Threads
  <2>2. PICK r : ChatStep(t, r)
    BY <1>0, <1>1, <2>1, QuietChat
  <2>3. PensInv'
    BY <1>0, <2>1, <2>2, QuietKeepsPens DEF ChatStep
  <2>4. SwitchInv' /\ ChatInv'
    BY <1>0, <2>2, ChatStepKeeps
  <2> QED BY <2>3, <2>4 DEF HermesInv
<1>2. ASSUME NEW t \in Kills \cup Revivals, KillSteps(t) \/ RevivalSteps(t) PROVE HermesInv'
  <2>1. t \in Threads /\ t \notin Chats
    BY HermesAssumption DEF Threads
  <2>2. SwitchInv'
    BY <1>0, <1>2, SwitchOperated
  <2>3. PICK r : Quiet(t, r)
    BY <1>0, <1>2, SwitchOperated
  <2>4. PensInv'
    BY <1>0, <2>1, <2>3, QuietKeepsPens
  <2>5. \A u \in Chats : thread'[u] = thread[u] /\ log' = log
    BY <1>0, <2>1, <2>3 DEF Quiet, PensInv, Threads
  <2>6. ChatInv'
    BY <1>0, <2>5 DEF ChatInv
  <2> QED BY <2>2, <2>4, <2>6 DEF HermesInv
<1>3. ASSUME NEW t \in Threads, PenReads(t) \/ PenSets(t) PROVE HermesInv'
  <2>1. PensInv'
    BY <1>0, <1>3, PenReadsKeeps, PenSetsKeeps
  <2>2. /\ \A u \in Threads : SameButPen(thread[u], thread'[u])
        /\ UNCHANGED <<log, switchOn, tangled, script>>
    BY <1>0, <1>3, PenMoves
  <2> QED BY <1>0, <2>1, <2>2, NoPensInvolved DEF HermesInv
<1>4. ASSUME NEW t \in Threads, PenWrites(t) PROVE HermesInv'
  BY <1>0, <1>4, PenWritesKeeps, WritingKeeps DEF HermesInv
<1>5. ASSUME NEW t \in Threads, PenFails(t) PROVE HermesInv'
  BY <1>0, <1>5, PenFailsKeeps, FailingKeeps DEF HermesInv
<1>6. CASE Reboots
  BY <1>0, <1>6, RebootsKeeps, RebootingKeeps DEF HermesInv
<1>7. CASE ScriptKills \/ ScriptAsks \/ ScriptRevives \/ ScriptStops
  <2>1. /\ UNCHANGED <<lastOf, log, made, thread, unfiled>>
        /\ ragged \in BOOLEAN /\ switchOn \in BOOLEAN /\ tangled \in BOOLEAN
        /\ UnderWay \in BOOLEAN
    BY <1>0, <1>7 DEF ScriptKills, ScriptAsks, ScriptRevives, ScriptStops, PensInv, SwitchInv, UnderWay
  <2>2. CASE ScriptKills
    <3>1. /\ switchOn' = TRUE /\ script' = "activated" /\ ragged' = ragged
          /\ tangled' = (tangled \/ UnderWay)
      BY <2>2 DEF ScriptKills
    <3>2. tangled' \in BOOLEAN /\ (tangled' \/ ~UnderWay)
      BY Zenon, <2>1, <3>1
    <3>3. "activated" \in SwitchLines
      BY DEF SwitchLines
    <3> QED BY <1>0, <2>1, <3>1, <3>2, <3>3, ScriptSwitches DEF HermesInv
  <2>3. CASE ScriptAsks
    <3>1. UNCHANGED <<switchOn, ragged, tangled>> /\ script = "idle" /\ script' = "confirming"
      BY <2>3 DEF ScriptAsks
    <3>2. script \notin SwitchLines /\ script' \notin SwitchLines
      BY <3>1 DEF SwitchLines
    <3> QED BY <1>0, <2>1, <3>1, <3>2, ScriptSwitches DEF HermesInv
  <2>4. CASE ScriptRevives
    <3>1. /\ switchOn' = FALSE /\ script' = "deactivated" /\ ragged' = ragged
          /\ tangled' = (tangled \/ UnderWay)
      BY <2>4 DEF ScriptRevives
    <3>2. tangled' \in BOOLEAN /\ (tangled' \/ ~UnderWay)
      BY Zenon, <2>1, <3>1
    <3>3. "deactivated" \in SwitchLines
      BY DEF SwitchLines
    <3> QED BY <1>0, <2>1, <3>1, <3>2, <3>3, ScriptSwitches DEF HermesInv
  <2>5. CASE ScriptStops
    <3>1. UNCHANGED switchOn /\ script' = "idle" /\ "idle" \notin SwitchLines
      BY <2>5 DEF ScriptStops, SwitchLines
    <3>2. CASE script = "confirming"
      <4>1. UNCHANGED <<ragged, tangled>>
        BY <2>5, <3>2 DEF ScriptStops
      <4>2. script \notin SwitchLines
        BY <3>2 DEF SwitchLines
      <4> QED BY <1>0, <2>1, <3>1, <4>1, <4>2, ScriptSwitches DEF HermesInv
    <3>3. CASE script # "confirming"
      <4>1. tangled' = TRUE /\ ragged' \in BOOLEAN
        BY <2>1, <2>5, <3>3 DEF ScriptStops
      <4> QED BY <1>0, <2>1, <3>1, <4>1, ScriptSwitches DEF HermesInv
    <3> QED BY <3>2, <3>3
  <2> QED BY <1>7, <2>2, <2>3, <2>4, <2>5
<1>8. CASE ScriptLogs
  BY <1>0, <1>8, ScriptWrites DEF HermesInv
<1>9. CASE UNCHANGED hermesVars
  <2>1. UNCHANGED <<lastOf, log, ragged, made, thread, unfiled, switchOn, tangled, script>>
    BY <1>9 DEF hermesVars
  <2>2. PensInv'
    BY <1>0, <2>1 DEF PensInv, PenOK, ChainExplained, Hashed
  <2>3. SwitchInv'
    BY <1>0, <2>1 DEF SwitchInv, Pending
  <2>4. ChatInv'
    BY <1>0, <2>1 DEF ChatInv
  <2> QED BY <2>2, <2>3, <2>4 DEF HermesInv
<1> QED BY <1>1, <1>2, <1>3, <1>4, <1>5, <1>6, <1>7, <1>8, <1>9 DEF HermesNext, PenSteps

LEMMA HermesShows == HermesInv => HermesTold
<1> SUFFICES ASSUME HermesInv PROVE HermesTold
  OBVIOUS
<1>1. HermesTypeOK
  <2>1. \A k \in Hashed : log[k].own \in 1 .. made /\ log[k].prev \in 0 .. made
    BY DEF HermesInv, PensInv, Hashed
  <2>2. /\ switchOn \in BOOLEAN /\ ragged \in BOOLEAN /\ tangled \in BOOLEAN
        /\ script \in {"idle", "confirming"} \cup SwitchLines
    BY DEF HermesInv, PensInv, SwitchInv
  <2>3. lastOf \in 0 .. made /\ unfiled \subseteq 1 .. made
    BY DEF HermesInv, PensInv
  <2> QED BY <2>1, <2>2, <2>3 DEF HermesTypeOK
<1>2. ChainExplained
  BY DEF HermesInv, PensInv
<1>3. SwitchOnRecord
  BY SwitchShows DEF HermesInv
<1>4. ChatsOnRecord
  BY DEF HermesInv, ChatInv, ChatFine, ChatsOnRecord, Whats
<1> QED BY <1>1, <1>2, <1>3, <1>4 DEF HermesTold

\* The log of the gateway tells what went before, the switch and every answer, whatever
\* the threads, the failures and the restarts.  (_write_audit, lines 107-119)
THEOREM GatewayTells == HermesSpec => []HermesTold
<1> QED BY HermesStarts, HermesStep, HermesShows, PTL DEF HermesSpec

-----------------------------------------------------------------------------
(* The memory auditor *)

NoteMarks == Severities \cup {"clean", "gone"}
Places == {NameOf[n] : n \in Notes} \X Nat
Takings == [of : Notes, text : NoteMarks, to : Places, pass : Nat, stale : BOOLEAN]
InHands == [of : Notes, text : NoteMarks, stale : BOOLEAN]
Tallies == [findings : Nat, critical : Nat]
NoHand == inHand = NoNote

MemoryTypes ==
    /\ note \in [Notes -> NoteMarks] /\ todo \subseteq Notes \cup Stores
    /\ \A d \in DOMAIN vault : vault[d].of \in Notes
    /\ taken \in Seq(Takings) /\ summaries \in Seq(Tallies) /\ allFindings \in Tallies
    /\ auditorSecond \in Nat /\ wakeAt \in Nat

\* Only a pass holds a file; what it holds was critical, and it will not come to it again.
HandFine ==
    \/ NoHand
    \/ /\ inHand \in InHands /\ phase = "scanning" /\ inHand.of \notin todo
       /\ note[inHand.of] = "CRITICAL" \/ inHand.stale

\* What was taken by a pass that is over was taken before the pause, what was taken by
\* this one is not taken again.
TakingFine(m) ==
    /\ m.to[2] <= auditorSecond /\ m.pass <= Len(summaries) + 1
    /\ m.text = "CRITICAL" \/ m.stale
    /\ m.pass <= Len(summaries) => m.to[2] + Interval <= wakeAt
    /\ m.pass = Len(summaries) + 1
         => /\ phase \in {"scanning", "dead"} /\ m.of \notin todo
            /\ ~NoHand => m.of # inHand.of

TakingsFine == \A k \in DOMAIN taken : TakingFine(taken[k])

OfPass(takings, p) == {i \in DOMAIN takings : takings[i].pass = p}

\* The findings count the files of the pass, also the one in hand.
TakingsCounted ==
    /\ \A p \in DOMAIN summaries : Cardinality(OfPass(taken, p)) <= summaries[p].critical
    /\ phase = "scanning" =>
           Cardinality(OfPass(taken, Len(summaries) + 1)) + (IF NoHand THEN 0 ELSE 1)
             <= allFindings.critical

InVault(v, takings) ==
    \A i \in DOMAIN takings :
        \/ v[takings[i].to] = [of |-> takings[i].of, text |-> takings[i].text]
        \/ \E j \in i + 1..Len(takings) : /\ takings[j].to = takings[i].to
                                          /\ takings[j].of # takings[i].of \/ Interval = 0

MemoryInv ==
    /\ MemoryTypes /\ HandFine /\ TakingsFine /\ TakingsCounted /\ InVault(vault, taken)
    /\ phase = "scanning" => auditorSecond >= wakeAt

LEMMA MemoryShows == MemoryInv => MemoryKept
  BY DEF MemoryInv, MemoryKept, MemoryTypes, MemoryTypeOK, NoteMarks, InVault, EvidenceKept,
         TakingsFine, TakingFine, TakenForCause, TakingsCounted, OfPass, TakenOnRecord

LEMMA TalliesAdd ==
  ASSUME NEW a \in Nat, NEW c \in Nat, NEW t \in Tallies, NEW s, s = Tally(t.findings + a, t.critical + c)
  PROVE  s \in Tallies /\ s.critical = t.critical + c
  BY DEF Tally, Tallies

LEMMA RowsCount == \A s : RowFindings(s) \in Tallies
<1> TAKE s
<1>1. ASSUME NEW P, P \subseteq 1 .. RowLimit PROVE Cardinality(P) \in Nat
  <2>1. IsFiniteSet(1 .. RowLimit)
    BY FS_Interval, MemoryAssumption
  <2> QED BY <1>1, <2>1, FS_Subset, FS_CardinalityType
<1> DEFINE Rows(levels) == {k \in 1 .. RowLimit : k \in DOMAIN row[s] /\ row[s][k] \in levels}
<1>2. Cardinality(Rows(Severities)) \in Nat /\ Cardinality(Rows({"CRITICAL"})) \in Nat
  BY <1>1
<1>3. RowFindings(s) = Tally(Cardinality(Rows(Severities)), Cardinality(Rows({"CRITICAL"})))
  BY Zenon DEF RowFindings
<1> HIDE DEF Rows
<1> QED BY <1>2, <1>3 DEF Tally, Tallies

LEMMA NoneHeld == \A h \in InHands : h # NoNote
  BY MemoryAssumption DEF InHands, NoNote

LEMMA CountsAreNat ==
  ASSUME taken \in Seq(Takings), NEW p
  PROVE  /\ IsFiniteSet(OfPass(taken, p)) /\ Cardinality(OfPass(taken, p)) \in Nat
         /\ (\A k \in DOMAIN taken : taken[k].pass # p) => Cardinality(OfPass(taken, p)) = 0
<1>1. DOMAIN taken = 1 .. Len(taken) /\ Len(taken) \in Nat
  OBVIOUS
<1>2. IsFiniteSet(1 .. Len(taken))
  BY <1>1, FS_Interval
<1>3. OfPass(taken, p) \subseteq 1 .. Len(taken)
  BY <1>1 DEF OfPass
<1>4. IsFiniteSet(OfPass(taken, p)) /\ Cardinality(OfPass(taken, p)) \in Nat
  BY <1>2, <1>3, FS_Subset, FS_CardinalityType
<1>5. ASSUME \A k \in DOMAIN taken : taken[k].pass # p PROVE Cardinality(OfPass(taken, p)) = 0
  <2>1. OfPass(taken, p) = {}
    BY <1>5 DEF OfPass
  <2> QED BY <2>1, FS_EmptySet
<1> QED BY <1>4, <1>5

LEMMA MemoryStarts == MemoryInit => MemoryInv
<1> SUFFICES ASSUME MemoryInit PROVE MemoryInv
  OBVIOUS
<1>1. /\ taken = <<>> /\ summaries = <<>> /\ NoHand /\ phase = "idle" /\ vault = <<>>
      /\ auditorSecond = 0 /\ wakeAt = 0 /\ todo = {} /\ allFindings = Tally(0, 0)
      /\ note \in [Notes -> {"clean", "CRITICAL"}]
  BY DEF MemoryInit, NoHand
<1>2. MemoryTypes
  <2>1. note \in [Notes -> NoteMarks]
    BY <1>1 DEF NoteMarks, Severities
  <2>2. DOMAIN vault = {}
    BY <1>1
  <2> QED BY <1>1, <2>1, <2>2 DEF MemoryTypes, Tally, Tallies
<1>3. DOMAIN taken = {} /\ DOMAIN summaries = {}
  BY <1>1
<1> QED BY <1>1, <1>2, <1>3
        DEF MemoryInv, HandFine, TakingsFine, TakingsCounted, InVault

\* A step that takes nothing away leaves what was taken as it was.
LEMMA NothingTaken ==
  ASSUME MemoryInv, UNCHANGED <<taken, summaries, vault, wakeAt>>, auditorSecond' \in Nat,
         auditorSecond' >= auditorSecond, todo' \subseteq Notes \cup Stores,
         note' \in [Notes -> NoteMarks], allFindings' \in Tallies, HandFine',
         phase' = "scanning" => auditorSecond' >= wakeAt,
         \/ /\ phase \in {"scanning", "dead"} => phase' \in {"scanning", "dead"}
            /\ phase' = "scanning" => phase = "scanning"
            /\ todo' \subseteq todo
            /\ \A n \in Notes : ~NoHand' /\ inHand'.of = n
                                  => n \in todo \/ (~NoHand /\ inHand.of = n)
            /\ phase' = "scanning"
                 => allFindings'.critical - (IF NoHand' THEN 0 ELSE 1)
                      >= allFindings.critical - (IF NoHand THEN 0 ELSE 1)
         \/ phase = "idle" /\ NoHand'
  PROVE  MemoryInv'
<1>0. /\ MemoryTypes /\ TakingsFine /\ TakingsCounted /\ InVault(vault, taken)
      /\ taken \in Seq(Takings) /\ allFindings \in Tallies
  BY DEF MemoryInv, MemoryTypes
<1>1. MemoryTypes'
  BY <1>0 DEF MemoryTypes
<1>2. ASSUME NEW k \in DOMAIN taken PROVE TakingFine(taken[k])'
  <2>1. PICK m \in Takings : m = taken[k] /\ TakingFine(m)
    BY <1>0 DEF TakingsFine
  <2>2. m.to[2] \in Nat /\ m.pass \in Nat /\ m.of \in Notes
    BY DEF Takings, Places
  <2>3. m.to[2] <= auditorSecond'
    BY <1>0, <2>1, <2>2 DEF TakingFine, MemoryTypes
  <2>4. m.pass = Len(summaries) + 1
          => /\ phase' \in {"scanning", "dead"} /\ m.of \notin todo'
             /\ ~NoHand' => m.of # inHand'.of
    BY <2>1, <2>2 DEF TakingFine
  <2> QED BY <2>1, <2>3, <2>4 DEF TakingFine, NoHand
<1>3. TakingsCounted'
  <2>1. \A p \in DOMAIN summaries : Cardinality(OfPass(taken, p)) <= summaries[p].critical
    BY <1>0 DEF TakingsCounted
  <2>2. ASSUME phase' = "scanning"
        PROVE  Cardinality(OfPass(taken, Len(summaries) + 1)) + (IF NoHand' THEN 0 ELSE 1)
                 <= allFindings'.critical
    <3>1. PICK c \in Nat : c = Cardinality(OfPass(taken, Len(summaries) + 1))
      BY <1>0, CountsAreNat
    <3>2. PICK a \in Nat, b \in Nat : a = allFindings.critical /\ b = allFindings'.critical
      BY <1>0 DEF Tallies
    <3>3. CASE phase = "scanning"
      <4>1. b - (IF NoHand' THEN 0 ELSE 1) >= a - (IF NoHand THEN 0 ELSE 1)
        BY <2>2, <3>2, <3>3
      <4>2. c + (IF NoHand THEN 0 ELSE 1) <= a
        BY <1>0, <3>1, <3>2, <3>3 DEF TakingsCounted
      <4> QED BY <3>1, <3>2, <4>1, <4>2
    <3>4. CASE phase = "idle" /\ NoHand'
      <4>1. \A k \in DOMAIN taken : taken[k].pass # Len(summaries) + 1
        BY <1>0, <3>4 DEF TakingsFine, TakingFine
      <4>2. c = 0
        BY <1>0, <3>1, <4>1, CountsAreNat
      <4>3. (IF NoHand' THEN 0 ELSE 1) = 0
        BY <3>4
      <4>4. 0 + 0 <= b
        BY <3>2
      <4> QED BY <3>1, <3>2, <4>2, <4>3, <4>4
    <3> QED BY <2>2, <3>3, <3>4
  <2> QED BY <2>1, <2>2 DEF TakingsCounted, NoHand
<1> QED BY <1>0, <1>1, <1>2, <1>3 DEF MemoryInv, TakingsFine, InVault, MemoryTypes

LEMMA PassBegins == MemoryInv /\ BeginsPass => MemoryInv'
<1> SUFFICES ASSUME MemoryInv, BeginsPass PROVE MemoryInv'
  OBVIOUS
<1>1. /\ phase = "idle" /\ auditorSecond >= wakeAt /\ phase' = "scanning"
      /\ todo' = Stores \cup {n \in Notes : note[n] # "gone"} /\ allFindings' = Tally(0, 0)
      /\ UNCHANGED <<note, vault, inHand, summaries, auditorSecond, wakeAt, taken>>
  BY DEF BeginsPass
<1>2. NoHand' /\ HandFine'
  BY <1>1 DEF MemoryInv, HandFine, NoHand
<1>3. allFindings' \in Tallies
  BY <1>1 DEF Tally, Tallies
<1>4. /\ note' \in [Notes -> NoteMarks] /\ auditorSecond \in Nat /\ wakeAt \in Nat
      /\ todo' \subseteq Notes \cup Stores
  BY <1>1 DEF MemoryInv, MemoryTypes
<1> QED BY <1>1, <1>2, <1>3, <1>4, NothingTaken

LEMMA StoreScanned == \A s \in Stores : MemoryInv /\ ScansStore(s) => MemoryInv'
<1> SUFFICES ASSUME NEW s \in Stores, MemoryInv, ScansStore(s) PROVE MemoryInv'
  OBVIOUS
<1>1. /\ phase = "scanning" /\ inHand = NoNote /\ todo' = todo \ {s}
      /\ UNCHANGED <<note, vault, phase, inHand, summaries, auditorSecond, wakeAt, taken>>
  BY DEF ScansStore
<1>2. PICK got \in {RowFindings(s), Tally(0, 0), Tally(1, 0)} : Adds(got)
  BY DEF ScansStore
<1>3. got \in Tallies
  BY <1>2, RowsCount DEF Tally, Tallies
<1>4. PICK a \in Nat, c \in Nat : a = got.findings /\ c = got.critical
  BY <1>3 DEF Tallies
<1>5. allFindings \in Tallies
  BY DEF MemoryInv, MemoryTypes
<1>6. allFindings' \in Tallies /\ allFindings'.critical = allFindings.critical + c
  <2>1. PICK x \in Nat, y \in Nat : x = allFindings.findings /\ y = allFindings.critical
    BY <1>5 DEF Tallies
  <2>2. allFindings' = Tally(x + a, y + c)
    BY <1>2, <1>4, <2>1 DEF Adds
  <2> QED BY <2>1, <2>2 DEF Tally, Tallies
<1>7. NoHand' /\ HandFine' /\ NoHand
  BY <1>1 DEF HandFine, NoHand
<1>8. /\ note' \in [Notes -> NoteMarks] /\ auditorSecond \in Nat /\ wakeAt \in Nat
      /\ todo' \subseteq Notes \cup Stores /\ auditorSecond >= wakeAt
      /\ todo' \subseteq todo
  BY <1>1 DEF MemoryInv, MemoryTypes
<1>9. allFindings.critical \in Nat
  BY <1>5 DEF Tallies
<1>10. allFindings'.critical - 0 >= allFindings.critical - 0
  BY <1>4, <1>6, <1>9
<1> QED BY <1>1, <1>6, <1>7, <1>8, <1>10, NothingTaken

LEMMA NoteScanned == \A n \in Notes : MemoryInv /\ ScansNote(n) => MemoryInv'
<1> SUFFICES ASSUME NEW n \in Notes, MemoryInv, ScansNote(n) PROVE MemoryInv'
  OBVIOUS
<1>1. /\ phase = "scanning" /\ NoHand /\ todo' = todo \ {n} /\ n \in todo
      /\ UNCHANGED <<note, vault, phase, summaries, auditorSecond, wakeAt, taken>>
  BY DEF ScansNote, NoHand
<1>2. PICK readable \in BOOLEAN :
        LET seen == readable /\ note[n] \in Severities IN
        /\ Adds(IF seen THEN Tally(1, IF note[n] = "CRITICAL" THEN 1 ELSE 0) ELSE Tally(0, 0))
        /\ inHand' = IF seen /\ note[n] = "CRITICAL" /\ AutoQuarantine
                     THEN [of |-> n, text |-> note[n], stale |-> FALSE] ELSE NoNote
  BY DEF ScansNote
<1>3. PICK a \in {0, 1}, c \in {0, 1} :
        /\ Adds(Tally(a, c))
        /\ \/ inHand' = NoNote
           \/ /\ inHand' = [of |-> n, text |-> note[n], stale |-> FALSE]
              /\ note[n] = "CRITICAL" /\ c = 1
  <2>1. CASE readable /\ note[n] \in Severities /\ note[n] = "CRITICAL"
    <3>1. Adds(Tally(1, 1))
      BY <1>2, <2>1
    <3>2. \/ inHand' = NoNote
          \/ inHand' = [of |-> n, text |-> note[n], stale |-> FALSE]
      BY <1>2
    <3> QED BY <2>1, <3>1, <3>2
  <2>2. CASE readable /\ note[n] \in Severities /\ note[n] # "CRITICAL"
    <3>1. Adds(Tally(1, 0)) /\ inHand' = NoNote
      BY <1>2, <2>2
    <3> QED BY <3>1
  <2>3. CASE ~(readable /\ note[n] \in Severities)
    <3>1. Adds(Tally(0, 0)) /\ inHand' = NoNote
      BY <1>2, <2>3
    <3> QED BY <3>1
  <2> QED BY <2>1, <2>2, <2>3
<1>4. allFindings \in Tallies /\ a \in Nat /\ c \in Nat
  BY DEF MemoryInv, MemoryTypes
<1>5. allFindings' \in Tallies /\ allFindings'.critical = allFindings.critical + c
  <2>1. PICK x \in Nat, y \in Nat : x = allFindings.findings /\ y = allFindings.critical
    BY <1>4 DEF Tallies
  <2>2. allFindings' = Tally(x + a, y + c)
    BY <1>3, <2>1 DEF Adds, Tally
  <2> QED BY <1>4, <2>1, <2>2 DEF Tally, Tallies
<1>6. /\ note' \in [Notes -> NoteMarks] /\ auditorSecond \in Nat /\ wakeAt \in Nat
      /\ todo' \subseteq Notes \cup Stores /\ auditorSecond >= wakeAt
      /\ todo' \subseteq todo /\ n \notin todo' /\ note[n] \in NoteMarks
  BY <1>1 DEF MemoryInv, MemoryTypes
<1>7. allFindings.critical \in Nat
  BY <1>4 DEF Tallies
<1>8. CASE inHand' = NoNote
  <2>1. NoHand' /\ HandFine'
    BY <1>8 DEF HandFine, NoHand
  <2>2. allFindings'.critical - 0 >= allFindings.critical - 0
    BY <1>4, <1>5, <1>7
  <2> QED BY <1>1, <1>5, <1>6, <2>1, <2>2, NothingTaken
<1>9. CASE inHand' = [of |-> n, text |-> note[n], stale |-> FALSE] /\ note[n] = "CRITICAL" /\ c = 1
  <2>1. inHand' \in InHands /\ inHand'.of = n
    BY <1>6, <1>9 DEF InHands
  <2>2. ~NoHand'
    BY <2>1, NoneHeld DEF NoHand
  <2>3. HandFine'
    BY <1>1, <1>6, <1>9, <2>1 DEF HandFine
  <2>4. allFindings'.critical - 1 >= allFindings.critical - 0
    BY <1>4, <1>5, <1>7, <1>9
  <2> QED BY <1>1, <1>5, <1>6, <2>1, <2>2, <2>3, <2>4, NothingTaken
<1> QED BY <1>3, <1>8, <1>9

LEMMA QuarantineFailed == MemoryInv /\ QuarantineFails => MemoryInv'
<1> SUFFICES ASSUME MemoryInv, QuarantineFails PROVE MemoryInv'
  OBVIOUS
<1>1. /\ ~NoHand /\ NoHand' /\ phase' \in {phase, "dead"} /\ phase = "scanning"
      /\ UNCHANGED <<note, vault, todo, allFindings, summaries, auditorSecond, wakeAt, taken>>
  BY DEF QuarantineFails, NoHand, MemoryInv, HandFine
<1>2. HandFine'
  BY <1>1 DEF HandFine
<1>3. /\ note' \in [Notes -> NoteMarks] /\ auditorSecond \in Nat /\ wakeAt \in Nat
      /\ todo' \subseteq Notes \cup Stores /\ allFindings' \in Tallies
      /\ phase' = "scanning" => auditorSecond' >= wakeAt
  BY <1>1 DEF MemoryInv, MemoryTypes
<1>4. allFindings.critical \in Nat
  BY <1>1, <1>3 DEF Tallies
<1>5. allFindings'.critical - 0 >= allFindings.critical - 1
  BY <1>1, <1>4
<1> QED BY <1>1, <1>2, <1>3, <1>5, NothingTaken

LEMMA SummaryFailed == MemoryInv /\ SummaryFails => MemoryInv'
<1> SUFFICES ASSUME MemoryInv, SummaryFails PROVE MemoryInv'
  OBVIOUS
<1>1. /\ NoHand /\ NoHand' /\ phase = "scanning" /\ phase' = "dead"
      /\ UNCHANGED <<note, vault, todo, allFindings, summaries, auditorSecond, wakeAt, taken>>
  BY DEF SummaryFails, NoHand
<1>2. HandFine'
  BY <1>1 DEF HandFine
<1>3. /\ note' \in [Notes -> NoteMarks] /\ auditorSecond \in Nat /\ wakeAt \in Nat
      /\ todo' \subseteq Notes \cup Stores /\ allFindings \in Tallies
  BY <1>1 DEF MemoryInv, MemoryTypes
<1> QED BY <1>1, <1>2, <1>3, NothingTaken

LEMMA AgentWrote == \A n \in Notes : MemoryInv /\ AgentWrites(n) => MemoryInv'
<1> SUFFICES ASSUME NEW n \in Notes, MemoryInv, AgentWrites(n) PROVE MemoryInv'
  OBVIOUS
<1>1. PICK text \in {"clean", "CRITICAL"} : note' = [note EXCEPT ![n] = text]
  BY DEF AgentWrites
<1>2. /\ inHand' = IF inHand.of = n THEN [inHand EXCEPT !.stale = TRUE] ELSE inHand
      /\ UNCHANGED <<vault, phase, todo, allFindings, summaries, auditorSecond, wakeAt, taken>>
  BY DEF AgentWrites
<1>3. /\ note \in [Notes -> NoteMarks] /\ auditorSecond \in Nat /\ wakeAt \in Nat
      /\ todo \subseteq Notes \cup Stores /\ allFindings \in Tallies
      /\ phase = "scanning" => auditorSecond >= wakeAt
  BY DEF MemoryInv, MemoryTypes
<1>4. note' \in [Notes -> NoteMarks]
  BY <1>1, <1>3 DEF NoteMarks, Severities
<1>5. allFindings.critical \in Nat
  BY <1>3 DEF Tallies
<1>6. CASE NoHand
  <2>1. inHand'= inHand
    BY <1>2, <1>6, MemoryAssumption DEF NoHand, NoNote
  <2>2. NoHand' /\ HandFine'
    BY <1>6, <2>1 DEF NoHand, HandFine
  <2> QED BY <1>2, <1>3, <1>4, <1>5, <1>6, <2>2, NothingTaken
<1>7. CASE ~NoHand
  <2>1. PICK h \in InHands : h = inHand
    BY <1>7 DEF MemoryInv, HandFine
  <2>2. phase = "scanning" /\ h.of \notin todo /\ (note[h.of] = "CRITICAL" \/ h.stale)
    BY <1>7, <2>1 DEF MemoryInv, HandFine
  <2>3. PICK g : g = inHand'
    OBVIOUS
  <2>4. g \in InHands /\ g.of = h.of /\ (h.of = n => g.stale) /\ (h.of # n => g = h)
    BY <1>2, <2>1, <2>3 DEF InHands
  <2>5. ~NoHand'
    BY <2>3, <2>4, NoneHeld DEF NoHand
  <2>6. HandFine'
    <3>1. h.of \in Notes
      BY DEF InHands
    <3>2. note'[h.of] = "CRITICAL" \/ g.stale
      BY <1>1, <1>3, <2>2, <2>4, <3>1
    <3> QED BY <1>2, <2>2, <2>3, <2>4, <3>2 DEF HandFine
  <2>7. \A x \in Notes : inHand'.of = x => inHand.of = x
    BY <2>1, <2>3, <2>4
  <2> QED BY <1>2, <1>3, <1>4, <1>5, <1>7, <2>5, <2>6, <2>7, NothingTaken
<1> QED BY <1>6, <1>7

LEMMA AuditorWaited == MemoryInv /\ AuditorWaits => MemoryInv'
<1> SUFFICES ASSUME MemoryInv, AuditorWaits PROVE MemoryInv'
  OBVIOUS
<1>1. /\ auditorSecond' = auditorSecond + 1
      /\ UNCHANGED <<note, vault, phase, todo, inHand, allFindings, summaries, wakeAt, taken>>
  BY DEF AuditorWaits
<1>2. HandFine' /\ (NoHand' <=> NoHand)
  BY <1>1 DEF MemoryInv, HandFine, NoHand
<1>3. /\ note' \in [Notes -> NoteMarks] /\ auditorSecond \in Nat /\ wakeAt \in Nat
      /\ todo' \subseteq Notes \cup Stores /\ allFindings \in Tallies
      /\ phase = "scanning" => auditorSecond >= wakeAt
  BY <1>1 DEF MemoryInv, MemoryTypes
<1>4. allFindings.critical \in Nat
  BY <1>3 DEF Tallies
<1>5. auditorSecond' \in Nat /\ auditorSecond' >= auditorSecond
  BY <1>1, <1>3
<1>6. phase = "scanning" => auditorSecond' >= wakeAt
  BY <1>1, <1>3
<1>7. allFindings'.critical - (IF NoHand' THEN 0 ELSE 1)
        >= allFindings.critical - (IF NoHand THEN 0 ELSE 1)
  BY <1>1, <1>2, <1>4
<1> QED BY <1>1, <1>2, <1>3, <1>5, <1>6, <1>7, NothingTaken

\* What one more file taken away does to what was taken.
More(takings, m, more) ==
    takings \in Seq(Takings) /\ m \in Takings /\ more = Append(takings, m)

LEMMA MoreTaken ==
  ASSUME NEW takings, NEW m, NEW more, More(takings, m, more)
  PROVE  /\ more \in Seq(Takings) /\ Len(takings) \in Nat /\ Len(more) = Len(takings) + 1
         /\ DOMAIN more = 1 .. Len(takings) + 1 /\ DOMAIN takings = 1 .. Len(takings)
         /\ more[Len(takings) + 1] = m
         /\ \A k \in 1 .. Len(takings) : more[k] = takings[k]
  BY AppendProperties DEF More

LEMMA PassGrows ==
  ASSUME NEW takings, NEW m, NEW more, More(takings, m, more), NEW p
  PROVE  /\ m.pass # p => OfPass(more, p) = OfPass(takings, p)
         /\ m.pass = p => OfPass(more, p) = OfPass(takings, p) \cup {Len(takings) + 1}
         /\ Len(takings) + 1 \notin OfPass(takings, p)
<1>1. /\ Len(takings) \in Nat
      /\ DOMAIN more = 1 .. Len(takings) + 1 /\ DOMAIN takings = 1 .. Len(takings)
      /\ more[Len(takings) + 1] = m
      /\ \A k \in 1 .. Len(takings) : more[k] = takings[k]
  BY MoreTaken
<1>2. \A k : k \in 1 .. Len(takings) + 1 <=> k \in 1 .. Len(takings) \/ k = Len(takings) + 1
  BY <1>1
<1>3. Len(takings) + 1 \notin 1 .. Len(takings)
  BY <1>1
<1>4. \A k : k \in OfPass(more, p) <=> k \in OfPass(takings, p) \/ (k = Len(takings) + 1 /\ m.pass = p)
  BY <1>1, <1>2, <1>3 DEF OfPass
<1>5. Len(takings) + 1 \notin OfPass(takings, p)
  BY <1>1, <1>3 DEF OfPass
<1>6. ASSUME m.pass # p PROVE OfPass(more, p) = OfPass(takings, p)
  <2> HIDE DEF OfPass
  <2> QED BY <1>4, <1>6
<1>7. ASSUME m.pass = p PROVE OfPass(more, p) = OfPass(takings, p) \cup {Len(takings) + 1}
  <2> HIDE DEF OfPass
  <2> QED BY <1>4, <1>7
<1> QED BY <1>5, <1>6, <1>7

\* What is moved replaces what another file left, or what nobody left.
LEMMA VaultGrows ==
  ASSUME NEW takings, NEW m, NEW more, More(takings, m, more), NEW v, NEW w,
         InVault(v, takings), \A k \in DOMAIN takings : takings[k].to \in DOMAIN v,
         w = [d \in DOMAIN v \cup {m.to} |-> IF d = m.to THEN [of |-> m.of, text |-> m.text]
                                            ELSE v[d]],
         \A k \in DOMAIN takings :
             takings[k].to = m.to => takings[k].of # m.of \/ Interval = 0
  PROVE  InVault(w, more) /\ \A k \in DOMAIN more : more[k].to \in DOMAIN w
<1>1. /\ Len(takings) \in Nat /\ Len(more) = Len(takings) + 1
      /\ DOMAIN more = 1 .. Len(takings) + 1 /\ DOMAIN takings = 1 .. Len(takings)
      /\ more[Len(takings) + 1] = m
      /\ \A k \in 1 .. Len(takings) : more[k] = takings[k]
  BY MoreTaken
<1>2. DOMAIN w = DOMAIN v \cup {m.to} /\ w[m.to] = [of |-> m.of, text |-> m.text]
      /\ \A d \in DOMAIN v : d # m.to => w[d] = v[d]
  OBVIOUS
<1>3. ASSUME NEW i \in DOMAIN more
      PROVE  /\ more[i].to \in DOMAIN w
             /\ \/ w[more[i].to] = [of |-> more[i].of, text |-> more[i].text]
                \/ \E j \in i + 1..Len(more) : /\ more[j].to = more[i].to
                                               /\ more[j].of # more[i].of \/ Interval = 0
  <2>1. CASE i = Len(takings) + 1
    BY <1>1, <1>2, <2>1
  <2>2. CASE i \in 1 .. Len(takings)
    <3>1. more[i] = takings[i] /\ takings[i].to \in DOMAIN v
      BY <1>1, <2>2
    <3>2. CASE takings[i].to = m.to
      <4>1. Len(takings) + 1 \in i + 1 .. Len(more)
        BY <1>1, <2>2
      <4>2. takings[i].of # m.of \/ Interval = 0
        BY <1>1, <2>2, <3>2
      <4> QED BY <1>1, <1>2, <3>1, <3>2, <4>1, <4>2
    <3>3. CASE takings[i].to # m.to
      <4>1. w[takings[i].to] = v[takings[i].to]
        BY <1>2, <3>1, <3>3
      <4>2. \/ v[takings[i].to] = [of |-> takings[i].of, text |-> takings[i].text]
            \/ \E j \in i + 1..Len(takings) : /\ takings[j].to = takings[i].to
                                              /\ takings[j].of # takings[i].of \/ Interval = 0
        BY <1>1, <2>2 DEF InVault
      <4>3. \A j \in i + 1..Len(takings) : j \in i + 1 .. Len(more) /\ more[j] = takings[j]
        BY <1>1, <2>2
      <4> QED BY <1>2, <3>1, <4>1, <4>2, <4>3
    <3> QED BY <3>2, <3>3
  <2> QED BY <1>1, <2>1, <2>2
<1> QED BY <1>3 DEF InVault

\* The pass takes the file it holds away.
LEMMA Quarantined ==
  ASSUME MemoryInv, Quarantines,
         \A k \in DOMAIN taken : taken[k].to \in DOMAIN vault
  PROVE  /\ MemoryInv'
         /\ \A k \in DOMAIN taken' : taken'[k].to \in DOMAIN vault'
<1>1. /\ ~NoHand /\ NoHand'
      /\ UNCHANGED <<phase, todo, allFindings, summaries, auditorSecond, wakeAt>>
  BY DEF Quarantines, NoHand
<1>2. /\ MemoryTypes /\ TakingsFine /\ TakingsCounted /\ InVault(vault, taken)
      /\ taken \in Seq(Takings) /\ allFindings \in Tallies /\ auditorSecond \in Nat
      /\ wakeAt \in Nat /\ todo \subseteq Notes \cup Stores
      /\ note \in [Notes -> NoteMarks]
  BY DEF MemoryInv, MemoryTypes
<1>3. PICK h \in InHands :
          /\ h = inHand /\ phase = "scanning" /\ h.of \notin todo
          /\ note[h.of] = "CRITICAL" \/ h.stale
  BY <1>1 DEF MemoryInv, HandFine
<1>4. PICK n \in Notes : n = h.of
  BY DEF InHands
<1>5. allFindings.critical \in Nat
  BY <1>2 DEF Tallies
<1>6. HandFine' /\ auditorSecond >= wakeAt
  BY <1>1, <1>3 DEF HandFine, MemoryInv
<1>7. CASE note[n] = "gone"
  <2>1. UNCHANGED <<note, vault, taken>>
    BY <1>3, <1>4, <1>7 DEF Quarantines
  <2>2. allFindings'.critical - 0 >= allFindings.critical - 1
    BY <1>1, <1>5
  <2>3. MemoryInv'
    BY <1>1, <1>2, <1>3, <1>6, <2>1, <2>2, NothingTaken
  <2> QED BY <2>1, <2>3
<1>8. CASE note[n] # "gone"
  <2>1. PICK m : m = [of |-> n, text |-> note[n], to |-> Destination(n),
                      pass |-> Len(summaries) + 1, stale |-> h.stale]
    OBVIOUS
  <2>2. /\ vault' = Put(Destination(n), [of |-> n, text |-> note[n]])
        /\ taken' = Append(taken, m) /\ note' = [note EXCEPT ![n] = "gone"]
    BY <1>3, <1>4, <1>8, <2>1 DEF Quarantines
  <2>3. m \in Takings /\ m.of = n /\ m.text = note[n] /\ m.to = Destination(n)
        /\ m.pass = Len(summaries) + 1 /\ (m.stale <=> h.stale) /\ Len(summaries) \in Nat
        /\ m.to[2] = auditorSecond /\ m.to \in Places
    <3>1. Len(summaries) \in Nat
      BY <1>2 DEF MemoryTypes
    <3>2. Destination(n) \in Places /\ Destination(n)[2] = auditorSecond
      BY <1>2 DEF Destination, Places
    <3>3. h.stale \in BOOLEAN /\ note[n] \in NoteMarks
      BY <1>2 DEF InHands
    <3>4. PICK place \in Places, p \in Nat, b \in BOOLEAN, mark \in NoteMarks :
            place = Destination(n) /\ p = Len(summaries) + 1 /\ b = h.stale /\ mark = note[n]
      BY <3>1, <3>2, <3>3
    <3>5. m = [of |-> n, text |-> mark, to |-> place, pass |-> p, stale |-> b]
      BY <2>1, <3>4
    <3>6. m \in Takings
      BY <3>2, <3>4, <3>5 DEF Takings
    <3>7. m.of = n /\ m.text = mark /\ m.to = place /\ m.pass = p
      BY <3>5
    <3>8. m.stale <=> b
      BY <3>5, Zenon
    <3> QED BY <3>1, <3>2, <3>4, <3>6, <3>7, <3>8
  <2>4. PICK more : more = taken'
    OBVIOUS
  <2>5. More(taken, m, more)
    BY <1>2, <2>2, <2>3, <2>4 DEF More
  <2>6. /\ more \in Seq(Takings) /\ Len(taken) \in Nat
        /\ DOMAIN more = 1 .. Len(taken) + 1 /\ DOMAIN taken = 1 .. Len(taken)
        /\ more[Len(taken) + 1] = m
        /\ \A k \in 1 .. Len(taken) : more[k] = taken[k]
    BY <2>5, MoreTaken
  <2>7. ASSUME NEW k \in DOMAIN taken, taken[k].to = m.to
        PROVE  taken[k].of # m.of \/ Interval = 0
    <3>1. PICK q \in Takings : q = taken[k] /\ TakingFine(q)
      BY <1>2, <2>7 DEF TakingsFine
    <3>2. q.to[2] = auditorSecond /\ q.pass \in Nat /\ Interval \in Nat
      BY <2>3, <2>7, <3>1, MemoryAssumption DEF Takings
    <3>3. CASE q.pass = Len(summaries) + 1
      BY <1>1, <1>3, <1>4, <2>3, <3>1, <3>3 DEF TakingFine
    <3>4. CASE q.pass # Len(summaries) + 1
      <4>1. q.pass <= Len(summaries)
        BY <2>3, <3>1, <3>2, <3>4 DEF TakingFine
      <4>2. auditorSecond + Interval <= wakeAt
        BY <3>1, <3>2, <4>1 DEF TakingFine
      <4> QED BY <1>2, <1>6, <3>2, <4>2
    <3> QED BY <3>1, <3>3, <3>4
  <2>8. InVault(vault', taken') /\ \A k \in DOMAIN taken' : taken'[k].to \in DOMAIN vault'
    <3>1. PICK w : w = vault'
      OBVIOUS
    <3>2. w = [d \in DOMAIN vault \cup {m.to} |->
                  IF d = m.to THEN [of |-> m.of, text |-> m.text] ELSE vault[d]]
      BY <2>2, <2>3, <3>1 DEF Put
    <3>3. InVault(w, more) /\ \A k \in DOMAIN more : more[k].to \in DOMAIN w
      BY <1>2, <2>5, <2>7, <3>2, VaultGrows
    <3> QED BY <2>4, <3>1, <3>3
  <2>9. MemoryTypes'
    <3>1. \A d \in DOMAIN vault' : vault'[d].of \in Notes
      BY <1>2, <2>2 DEF Put, MemoryTypes
    <3>2. note' \in [Notes -> NoteMarks]
      BY <1>2, <2>2 DEF NoteMarks
    <3> QED BY <1>1, <1>2, <2>4, <2>6, <3>1, <3>2 DEF MemoryTypes
  <2>10. TakingsFine'
    <3>1. ASSUME NEW q \in Takings, TakingFine(q) PROVE TakingFine(q)'
      BY <1>1, <3>1 DEF TakingFine
    <3>2. m.text = "CRITICAL" \/ m.stale
      BY <1>3, <1>4, <2>3
    <3>3. m.to[2] <= auditorSecond' /\ m.pass = Len(summaries') + 1
          /\ ~(m.pass <= Len(summaries')) /\ m.pass <= Len(summaries') + 1
      BY <1>1, <1>2, <2>3
    <3>4. phase' = "scanning" /\ m.of \notin todo' /\ NoHand'
      BY <1>1, <1>3, <1>4, <2>3
    <3>5. TakingFine(m)'
      BY <3>2, <3>3, <3>4 DEF TakingFine
    <3>6. ASSUME NEW k \in DOMAIN more PROVE TakingFine(more[k])'
      <4>1. k \in 1 .. Len(taken) \/ k = Len(taken) + 1
        BY <2>6
      <4>2. CASE k \in 1 .. Len(taken)
        <5>1. PICK q \in Takings : q = taken[k]
          BY <1>2, <4>2
        <5>2. TakingFine(q)
          BY <1>2, <2>6, <4>2, <5>1 DEF TakingsFine
        <5> QED BY <2>6, <3>1, <4>2, <5>1, <5>2
      <4>3. CASE k = Len(taken) + 1
        BY <2>6, <3>5, <4>3
      <4> QED BY <4>1, <4>2, <4>3
    <3> QED BY <2>4, <3>6 DEF TakingsFine, TakingFine
  <2>11. TakingsCounted'
    <3>1. ASSUME NEW p \in DOMAIN summaries
          PROVE  Cardinality(OfPass(more, p)) <= summaries[p].critical
      <4>1. p # Len(summaries) + 1
        BY <1>2, <2>3 DEF MemoryTypes
      <4>2. OfPass(more, p) = OfPass(taken, p)
        BY <2>3, <2>5, <4>1, PassGrows
      <4> QED BY <1>2, <4>2 DEF TakingsCounted
    <3>2. Cardinality(OfPass(more, Len(summaries) + 1)) + 0 <= allFindings.critical
      <4>1. PICK P : P = OfPass(taken, Len(summaries) + 1)
        OBVIOUS
      <4>2. IsFiniteSet(P) /\ Cardinality(P) \in Nat
        BY <1>2, <4>1, CountsAreNat
      <4>3. /\ OfPass(more, Len(summaries) + 1) = P \cup {Len(taken) + 1}
            /\ Len(taken) + 1 \notin P
        BY <2>3, <2>5, <4>1, PassGrows
      <4>4. Cardinality(P \cup {Len(taken) + 1}) = Cardinality(P) + 1
        BY <4>2, <4>3, FS_AddElement
      <4>5. Cardinality(P) + 1 <= allFindings.critical
        BY <1>1, <1>2, <1>3, <4>1 DEF TakingsCounted
      <4>6. \A c \in Nat : c + 1 <= allFindings.critical => (c + 1) + 0 <= allFindings.critical
        BY <1>5
      <4> QED BY <4>2, <4>3, <4>4, <4>5, <4>6
    <3> QED BY <1>1, <2>4, <3>1, <3>2 DEF TakingsCounted
  <2> QED BY <1>1, <1>6, <2>8, <2>9, <2>10, <2>11 DEF MemoryInv
<1> QED BY <1>7, <1>8

\* The pass ends with its summary.
LEMMA PassEnded ==
  ASSUME MemoryInv, EndsPass
  PROVE  MemoryInv'
<1>1. /\ phase = "scanning" /\ NoHand /\ NoHand' /\ todo = {}
      /\ summaries' = Append(summaries, allFindings) /\ wakeAt' = auditorSecond + Interval
      /\ UNCHANGED <<note, vault, todo, allFindings, auditorSecond, taken>>
  BY DEF EndsPass, NoHand, Summary
<1>2. phase' \notin {"scanning", "dead"}
  BY DEF EndsPass, AfterPass
<1>3. /\ MemoryTypes /\ TakingsFine /\ TakingsCounted /\ InVault(vault, taken)
      /\ taken \in Seq(Takings) /\ allFindings \in Tallies /\ auditorSecond \in Nat
      /\ wakeAt \in Nat /\ summaries \in Seq(Tallies) /\ auditorSecond >= wakeAt
  BY <1>1 DEF MemoryInv, MemoryTypes
<1>4. PICK n \in Nat : n = Len(summaries)
  BY <1>3
<1>5. /\ summaries' \in Seq(Tallies) /\ Len(summaries') = n + 1 /\ DOMAIN summaries = 1 .. n
      /\ DOMAIN summaries' = 1 .. n + 1 /\ summaries'[n + 1] = allFindings
      /\ \A p \in 1 .. n : summaries'[p] = summaries[p]
  BY <1>1, <1>3, <1>4, AppendProperties
<1>6. Interval \in Nat
  BY MemoryAssumption
<1>7. MemoryTypes'
  BY <1>1, <1>3, <1>5, <1>6 DEF MemoryTypes
<1>8. ASSUME NEW k \in DOMAIN taken PROVE TakingFine(taken[k])'
  <2>1. PICK m \in Takings : m = taken[k] /\ TakingFine(m)
    BY <1>3 DEF TakingsFine
  <2>2. m.to[2] \in Nat /\ m.pass \in Nat
    BY DEF Takings, Places
  <2>3. m.to[2] <= auditorSecond /\ m.pass <= n + 1
    BY <1>4, <2>1 DEF TakingFine
  <2>4. m.to[2] + Interval <= wakeAt'
    BY <1>1, <1>3, <1>6, <2>2, <2>3
  <2>5. m.pass <= (n + 1) + 1 /\ m.pass # (n + 1) + 1
    BY <2>2, <2>3
  <2> QED BY <1>1, <1>5, <2>1, <2>3, <2>4, <2>5 DEF TakingFine
<1>9. TakingsCounted'
  <2>1. ASSUME NEW p \in 1 .. n + 1
        PROVE  Cardinality(OfPass(taken, p)) <= summaries'[p].critical
    <3>1. CASE p \in 1 .. n
      BY <1>3, <1>5, <3>1 DEF TakingsCounted
    <3>2. CASE p = n + 1
      <4>1. PICK c \in Nat, a \in Nat : c = Cardinality(OfPass(taken, n + 1)) /\ a = allFindings.critical
        BY <1>3, CountsAreNat DEF Tallies
      <4>2. c + 0 <= a
        BY <1>1, <1>3, <1>4, <4>1 DEF TakingsCounted
      <4>3. c <= a
        BY <4>1, <4>2
      <4> QED BY <1>5, <3>2, <4>1, <4>3
    <3> QED BY <3>1, <3>2
  <2> QED BY <1>1, <1>2, <1>5, <2>1 DEF TakingsCounted
<1>10. HandFine'
  BY <1>1 DEF HandFine
<1> QED BY <1>1, <1>2, <1>3, <1>7, <1>8, <1>9, <1>10 DEF MemoryInv, TakingsFine

MemoryInvs == MemoryInv /\ \A k \in DOMAIN taken : taken[k].to \in DOMAIN vault

LEMMA MemoryStep == MemoryInvs /\ [MemoryNext]_memoryVars => MemoryInvs'
<1> SUFFICES ASSUME MemoryInvs, [MemoryNext]_memoryVars PROVE MemoryInvs'
  OBVIOUS
<1>1. MemoryInv /\ \A k \in DOMAIN taken : taken[k].to \in DOMAIN vault
  BY DEF MemoryInvs
<1>2. CASE Quarantines
  BY <1>1, <1>2, Quarantined DEF MemoryInvs
<1>3. ASSUME MemoryInv', UNCHANGED <<taken, vault>> PROVE MemoryInvs'
  BY <1>1, <1>3 DEF MemoryInvs
<1>4. CASE BeginsPass
  BY <1>1, <1>3, <1>4, PassBegins DEF BeginsPass
<1>5. CASE QuarantineFails
  BY <1>1, <1>3, <1>5, QuarantineFailed DEF QuarantineFails
<1>6. CASE EndsPass
  BY <1>1, <1>3, <1>6, PassEnded DEF EndsPass
<1>7. CASE SummaryFails
  BY <1>1, <1>3, <1>7, SummaryFailed DEF SummaryFails
<1>8. ASSUME NEW s \in Stores, ScansStore(s) PROVE MemoryInvs'
  BY <1>1, <1>3, <1>8, StoreScanned DEF ScansStore
<1>9. ASSUME NEW n \in Notes, ScansNote(n) PROVE MemoryInvs'
  BY <1>1, <1>3, <1>9, NoteScanned DEF ScansNote
<1>10. ASSUME NEW n \in Notes, AgentWrites(n) PROVE MemoryInvs'
  BY <1>1, <1>3, <1>10, AgentWrote DEF AgentWrites
<1>11. CASE AuditorWaits
  BY <1>1, <1>3, <1>11, AuditorWaited DEF AuditorWaits
<1>12. CASE UNCHANGED memoryVars
  <2>1. UNCHANGED <<note, row, vault, phase, todo, inHand, allFindings, summaries,
                    auditorSecond, wakeAt, taken>>
    BY <1>12 DEF memoryVars
  <2>2. MemoryInv'
    BY <1>1, <2>1 DEF MemoryInv, MemoryTypes, HandFine, NoHand, TakingsFine, TakingFine,
                      TakingsCounted, InVault
  <2> QED BY <1>3, <2>1, <2>2
<1> QED BY <1>2, <1>4, <1>5, <1>6, <1>7, <1>8, <1>9, <1>10, <1>11, <1>12 DEF MemoryNext

\* What the auditor takes away it keeps, with cause, and on record.
\* (memory_auditor.py, lines 206-262)
THEOREM EvidenceSafe == MemorySpec => []MemoryKept
<1>1. MemoryInit => MemoryInvs
  <2>1. MemoryInit => DOMAIN taken = {}
    BY DEF MemoryInit
  <2> QED BY <2>1, MemoryStarts DEF MemoryInvs
<1>2. MemoryInvs => MemoryKept
  BY MemoryShows DEF MemoryInvs
<1> QED BY <1>1, <1>2, MemoryStep, PTL DEF MemorySpec

-----------------------------------------------------------------------------
(* The assessor of MCP servers *)

CheckRanges ==
    [c \in CheckIds |->
        CASE c = "TLS" -> {0, 12} [] c = "AUTH" -> {0, 5, 15, 25} [] c = "HEADERS" -> 0 .. 10
          [] c = "RATE" -> {0, 5, 10} [] c = "INJECTION" -> 0 .. 20 [] c = "FSP" -> {0, 10}
          [] c = "SSRF" -> {0, 2, 5} [] OTHER -> {0, 5}]

ToolChecks == {"INJECTION", "FSP", "SSRF", "SESSION"}

\* The checks made before a request.
MadeBefore(where) ==
    CASE where = "TLS" -> {}
      [] where = "AUTH" -> {"TLS"}
      [] where \in {"OAUTH", "RATE"} -> {"TLS", "AUTH", "HEADERS"}
      [] where = "TOOLS" -> {"TLS", "AUTH", "HEADERS", "RATE"}
      [] OTHER -> CheckIds

AssessSteps == {"TLS", "AUTH", "OAUTH", "RATE", "TOOLS", "ATTESTATION", "done"}

FineScores(p, D) == p = [c \in D |-> p[c]] /\ \A c \in D : p[c] \in CheckRanges[c]
FineFound(found) == \A c \in DOMAIN found : found[c] \in CheckRanges[c]

AssessorInv ==
    /\ assessed \in Servers /\ hasToken \in BOOLEAN /\ exposed \in BOOLEAN /\ scanned \in BOOLEAN
    /\ budget \in 0 .. Burst /\ failures \in Nat /\ bonus \in 0 .. 25
    /\ step \in AssessSteps
    /\ FineScores(points, MadeBefore(step))
    /\ exposed => assessed.auth = "open"
    /\ step \notin {"TLS", "AUTH"} /\ points["AUTH"] > 0 => assessed.auth # "open"
    /\ step = "OAUTH" => assessed.auth # "open"
    /\ step \in {"TOOLS", "ATTESTATION", "done"} /\ points["RATE"] > 0 => assessed.limited
    /\ scanned => assessed.auth = "open" \/ hasToken
    /\ step \in {"ATTESTATION", "done"} /\ ~scanned
         => /\ failures > 0 \/ assessed.limited \/ (assessed.auth # "open" /\ ~hasToken)
            /\ \A c \in ToolChecks : points[c] = 0

LEMMA ServersAre ==
  ASSUME assessed \in Servers
  PROVE  /\ assessed.https \in BOOLEAN /\ assessed.auth \in {"open", "basic", "bearer", "oauth"}
         /\ assessed.limited \in BOOLEAN /\ assessed.hardening \in 0..5 /\ assessed.attests \in 0..25
         /\ assessed.tools.critical \in Nat /\ assessed.tools.high \in Nat
         /\ assessed.tools.urls \in Nat /\ Burst \in Nat
  BY AssessorAssumption

\* What a request reports, over what was reported before.
Reported(p, found) ==
    [c \in DOMAIN p \cup DOMAIN found |-> IF c \in DOMAIN found THEN found[c] ELSE p[c]]

\* The scores a step leaves: those of the checks made before it, and what it found.
LEMMA MoreReported ==
  ASSUME NEW D, NEW p, FineScores(p, D), NEW found, FineFound(found), NEW q, q = Reported(p, found)
  PROVE  /\ FineScores(q, D \cup DOMAIN found)
         /\ \A c \in DOMAIN found : q[c] = found[c]
         /\ \A c \in D : c \notin DOMAIN found => q[c] = p[c]
<1>1. DOMAIN p = D
  BY DEF FineScores
<1>2. /\ q = [c \in D \cup DOMAIN found |-> q[c]]
      /\ \A c \in DOMAIN found : q[c] = found[c]
      /\ \A c \in D : c \notin DOMAIN found => q[c] = p[c]
  BY <1>1 DEF Reported
<1>3. \A c \in D \cup DOMAIN found : q[c] \in CheckRanges[c]
  BY <1>2 DEF FineScores, FineFound
<1> QED BY <1>2, <1>3 DEF FineScores

LEMMA RangesAre ==
  /\ CheckRanges["TLS"] = {0, 12} /\ CheckRanges["AUTH"] = {0, 5, 15, 25}
  /\ CheckRanges["HEADERS"] = 0 .. 10 /\ CheckRanges["RATE"] = {0, 5, 10}
  /\ CheckRanges["INJECTION"] = 0 .. 20 /\ CheckRanges["FSP"] = {0, 10}
  /\ CheckRanges["SSRF"] = {0, 2, 5} /\ CheckRanges["SESSION"] = {0, 5}
  BY DEF CheckRanges, CheckIds

LEMMA StatusMeans ==
  ASSUME NEW a \in BOOLEAN, assessed \in Servers, budget \in 0 .. Burst
  PROVE  /\ Status(a) = 401 => assessed.auth # "open" /\ ~a
         /\ Status(a) = 429 => assessed.limited
         /\ Status(a) = 200 => assessed.auth = "open" \/ a
         /\ Status(a) # 200 => assessed.limited \/ (assessed.auth # "open" /\ ~a)
         /\ Posts(a) => budget' \in 0 .. Burst
<1>1. Posts(a) => budget' \in 0 .. Burst
  BY ServersAre DEF Posts, Costs
<1> QED BY <1>1 DEF Status, TurnedAway

LEMMA AssessorStarts == AssessorInit => AssessorInv
<1> SUFFICES ASSUME AssessorInit PROVE AssessorInv
  OBVIOUS
<1>1. /\ assessed \in Servers /\ hasToken \in BOOLEAN /\ step = "TLS"
      /\ points = [c \in {} |-> 0] /\ scanned = FALSE /\ exposed = FALSE /\ bonus = 0 /\ failures = 0
  BY DEF AssessorInit
<1>2. budget \in 0 .. Burst
  BY <1>1, ServersAre DEF AssessorInit
<1>3. MadeBefore(step) = {}
  BY <1>1 DEF MadeBefore
<1>4. FineScores(points, MadeBefore(step))
  BY <1>1, <1>3 DEF FineScores
<1>5. ~exposed /\ ~scanned /\ bonus \in 0 .. 25 /\ failures \in Nat /\ step \in AssessSteps
  BY <1>1 DEF AssessSteps
<1>6. exposed \in BOOLEAN /\ scanned \in BOOLEAN
  BY <1>1
<1> QED BY <1>1, <1>2, <1>4, <1>5, <1>6 DEF AssessorInv

LEMMA TlsChecked == AssessorInv /\ ChecksTls => AssessorInv'
<1> SUFFICES ASSUME AssessorInv, ChecksTls PROVE AssessorInv'
  OBVIOUS
<1>1. /\ step = "TLS" /\ step' = "AUTH" /\ UNCHANGED <<assessed, hasToken, probing, scanned, exposed, bonus>>
  BY DEF ChecksTls
<1>2. budget' = budget /\ failures' \in Nat
  BY DEF ChecksTls, RequestRaises, AssessorInv
<1>3. PICK x \in {0, 12} : Reports([TLS |-> x])
  BY DEF ChecksTls
<1>4. PICK found : found = [TLS |-> x]
  OBVIOUS
<1>5. DOMAIN found = {"TLS"} /\ found["TLS"] = x
  BY <1>4
<1>6. MadeBefore(step) = {} /\ MadeBefore(step') = {"TLS"}
  BY <1>1 DEF MadeBefore
<1>7. PICK q : q = points' /\ q = Reported(points, found)
  BY <1>3, <1>4 DEF Reports, Reported
<1>8. FineScores(points, {})
  BY <1>6 DEF AssessorInv
<1>9. FineFound(found)
  BY <1>5, RangesAre DEF FineFound
<1>10. {"TLS"} = {} \cup DOMAIN found
  BY <1>5
<1>11. FineScores(q, {"TLS"})
  BY <1>7, <1>8, <1>9, <1>10, MoreReported
<1>12. step' \in AssessSteps
  BY <1>1 DEF AssessSteps
<1> QED BY <1>1, <1>2, <1>6, <1>7, <1>11, <1>12 DEF AssessorInv

LEMMA BudgetKept ==
  ASSUME AssessorInv, NEW a \in BOOLEAN,
         \/ Posts(a) /\ UNCHANGED failures
         \/ RequestRaises
         \/ UNCHANGED <<budget, failures>>
  PROVE  /\ budget' \in 0 .. Burst /\ failures' \in Nat /\ failures' >= failures
         /\ RequestRaises => failures' > 0
<1>1. failures \in Nat /\ budget \in 0 .. Burst /\ assessed \in Servers
  BY DEF AssessorInv
<1>2. budget' \in 0 .. Burst
  BY <1>1, StatusMeans DEF RequestRaises
<1>3. failures' \in Nat /\ failures' >= failures
  BY <1>1 DEF RequestRaises
<1>4. RequestRaises => failures' > 0
  BY <1>1 DEF RequestRaises
<1> QED BY <1>2, <1>3, <1>4

LEMMA HeadersScore ==
  ASSUME assessed \in Servers
  PROVE  HeaderScore(TRUE) \in 0 .. 10 /\ HeaderScore(FALSE) \in 0 .. 10
<1>1. PICK n \in 0 .. 5 : n = assessed.hardening
  BY ServersAre
<1>2. 2 * n \in 0 .. 10
  OBVIOUS
<1> QED BY <1>1, <1>2 DEF HeaderScore

LEMMA AuthChecked == AssessorInv /\ ChecksAuth => AssessorInv'
<1> SUFFICES ASSUME AssessorInv, ChecksAuth PROVE AssessorInv'
  OBVIOUS
<1>1. /\ step = "AUTH" /\ UNCHANGED <<assessed, hasToken, probing, scanned, bonus>>
      /\ assessed \in Servers /\ budget \in 0 .. Burst
  BY DEF ChecksAuth, AssessorInv
<1>2. PICK x \in {0, 5, 15}, y \in 0 .. 10 :
          /\ Reports([AUTH |-> x, HEADERS |-> y]) /\ step' \in {"OAUTH", "RATE"}
          /\ budget' \in 0 .. Burst /\ failures' \in Nat /\ exposed' \in BOOLEAN
          /\ exposed' => assessed.auth = "open"
          /\ x > 0 => assessed.auth # "open"
          /\ step' = "OAUTH" => assessed.auth # "open"
  <2>1. CASE /\ Status(FALSE) = 401 /\ Posts(FALSE)
             /\ step' = "OAUTH" /\ exposed' = FALSE
             /\ Reports([AUTH |-> IF assessed.auth = "basic" THEN 5 ELSE 15,
                         HEADERS |-> HeaderScore(TRUE)])
             /\ UNCHANGED failures
    <3>1. PICK x \in {5, 15} : x = IF assessed.auth = "basic" THEN 5 ELSE 15
      OBVIOUS
    <3>2. PICK y \in 0 .. 10 : y = HeaderScore(TRUE)
      BY <1>1, HeadersScore
    <3>3. Reports([AUTH |-> x, HEADERS |-> y])
      BY <2>1, <3>1, <3>2
    <3>4. budget' \in 0 .. Burst /\ failures' \in Nat
      BY <2>1, BudgetKept
    <3>5. assessed.auth # "open"
      BY <1>1, <2>1, StatusMeans
    <3>6. x \in {0, 5, 15} /\ exposed' \in BOOLEAN /\ ~exposed'
      BY <2>1
    <3> QED BY <2>1, <3>3, <3>4, <3>5, <3>6
  <2>2. CASE /\ Status(FALSE) # 401 /\ Posts(FALSE)
             /\ step' = "RATE" /\ exposed' = (Status(FALSE) = 200)
             /\ Reports([AUTH |-> 0, HEADERS |-> HeaderScore(TRUE)])
             /\ UNCHANGED failures
    <3>1. PICK y \in 0 .. 10 : y = HeaderScore(TRUE)
      BY <1>1, HeadersScore
    <3>2. Reports([AUTH |-> 0, HEADERS |-> y])
      BY <2>2, <3>1
    <3>3. budget' \in 0 .. Burst /\ failures' \in Nat
      BY <2>2, BudgetKept
    <3>4. exposed' \in BOOLEAN /\ (exposed' => Status(FALSE) = 200)
      BY <2>2
    <3>5. exposed' => assessed.auth = "open"
      BY <1>1, <3>4, StatusMeans
    <3>6. step' = "RATE" /\ ~(0 > 0)
      BY <2>2
    <3> QED BY <3>2, <3>3, <3>4, <3>5, <3>6
  <2>3. CASE /\ RequestRaises
             /\ step' = "RATE" /\ exposed' = FALSE
             /\ Reports([AUTH |-> 0, HEADERS |-> HeaderScore(FALSE)])
    <3>1. PICK y \in 0 .. 10 : y = HeaderScore(FALSE)
      BY <1>1, HeadersScore
    <3>2. Reports([AUTH |-> 0, HEADERS |-> y])
      BY <2>3, <3>1
    <3>3. budget' \in 0 .. Burst /\ failures' \in Nat
      BY <2>3, BudgetKept
    <3>4. exposed' \in BOOLEAN /\ ~exposed'
      BY <2>3
    <3>5. step' = "RATE" /\ ~(0 > 0)
      BY <2>3
    <3> QED BY <3>2, <3>3, <3>4, <3>5
  <2> QED BY <2>1, <2>2, <2>3 DEF ChecksAuth
<1>3. PICK found : found = [AUTH |-> x, HEADERS |-> y]
  OBVIOUS
<1>4. DOMAIN found = {"AUTH", "HEADERS"} /\ found["AUTH"] = x /\ found["HEADERS"] = y
  BY <1>3
<1>5. PICK q : q = points' /\ q = Reported(points, found)
  BY <1>2, <1>3 DEF Reports, Reported
<1>6. MadeBefore(step) = {"TLS"} /\ MadeBefore(step') = {"TLS", "AUTH", "HEADERS"}
  BY <1>1, <1>2 DEF MadeBefore
<1>7. FineScores(points, {"TLS"})
  BY <1>6 DEF AssessorInv
<1>8. FineFound(found)
  <2>1. x \in {0, 5, 15, 25}
    OBVIOUS
  <2> QED BY <1>4, <2>1, RangesAre DEF FineFound
<1>9. {"TLS", "AUTH", "HEADERS"} = {"TLS"} \cup DOMAIN found
  BY <1>4
<1>10. FineScores(q, {"TLS", "AUTH", "HEADERS"}) /\ q["AUTH"] = x
  BY <1>4, <1>5, <1>7, <1>8, <1>9, MoreReported
<1>11. step' \in AssessSteps /\ step' \notin {"TLS", "AUTH", "TOOLS", "ATTESTATION", "done"}
  BY <1>2 DEF AssessSteps
<1> QED BY <1>1, <1>2, <1>5, <1>6, <1>10, <1>11 DEF AssessorInv

LEMMA MetadataFound == AssessorInv /\ FindsMetadata => AssessorInv'
<1> SUFFICES ASSUME AssessorInv, FindsMetadata PROVE AssessorInv'
  OBVIOUS
<1>1. /\ step = "OAUTH" /\ step' = "RATE" /\ UNCHANGED <<assessed, hasToken, scanned, exposed, bonus>>
      /\ assessed.auth # "open"
  BY DEF FindsMetadata, AssessorInv
<1>2. budget' \in 0 .. Burst /\ failures' \in Nat
  <2>1. RequestRaises \/ UNCHANGED <<budget, failures>>
    BY DEF FindsMetadata
  <2> QED BY <2>1, BudgetKept
<1>3. MadeBefore(step) = {"TLS", "AUTH", "HEADERS"} /\ MadeBefore(step') = {"TLS", "AUTH", "HEADERS"}
  BY <1>1 DEF MadeBefore
<1>4. FineScores(points, {"TLS", "AUTH", "HEADERS"})
  BY <1>3 DEF AssessorInv
<1>5. FineScores(points', {"TLS", "AUTH", "HEADERS"})
  <2>1. CASE UNCHANGED points
    BY <1>4, <2>1
  <2>2. CASE Reports([AUTH |-> 25])
    <3>1. PICK found : found = [AUTH |-> 25]
      OBVIOUS
    <3>2. DOMAIN found = {"AUTH"} /\ found["AUTH"] = 25
      BY <3>1
    <3>3. PICK q : q = points' /\ q = Reported(points, found)
      BY <2>2, <3>1 DEF Reports, Reported
    <3>4. FineFound(found)
      BY <3>2, RangesAre DEF FineFound
    <3>5. {"TLS", "AUTH", "HEADERS"} = {"TLS", "AUTH", "HEADERS"} \cup DOMAIN found
      BY <3>2
    <3> QED BY <1>4, <3>3, <3>4, <3>5, MoreReported
  <2> QED BY <2>1, <2>2 DEF FindsMetadata
<1>6. step' \in AssessSteps /\ step' \notin {"TLS", "AUTH", "OAUTH", "TOOLS", "ATTESTATION", "done"}
  BY <1>1 DEF AssessSteps
<1> QED BY <1>1, <1>2, <1>3, <1>5, <1>6 DEF AssessorInv

LEMMA RateFound ==
  ASSUME AssessorInv, NEW x \in {0, 5, 10}, Reports([RATE |-> x]), step = "RATE", step' = "TOOLS",
         x > 0 => assessed.limited, budget' \in 0 .. Burst, failures' \in Nat,
         UNCHANGED <<assessed, hasToken, scanned, exposed, bonus>>
  PROVE  AssessorInv'
<1>1. MadeBefore(step) = {"TLS", "AUTH", "HEADERS"}
      /\ MadeBefore(step') = {"TLS", "AUTH", "HEADERS", "RATE"}
  BY DEF MadeBefore
<1>2. FineScores(points, {"TLS", "AUTH", "HEADERS"})
  BY <1>1 DEF AssessorInv
<1>3. PICK found : found = [RATE |-> x]
  OBVIOUS
<1>4. DOMAIN found = {"RATE"} /\ found["RATE"] = x
  BY <1>3
<1>5. PICK q : q = points' /\ q = Reported(points, found)
  BY <1>3 DEF Reports, Reported
<1>6. FineFound(found)
  BY <1>4, RangesAre DEF FineFound
<1>7. {"TLS", "AUTH", "HEADERS", "RATE"} = {"TLS", "AUTH", "HEADERS"} \cup DOMAIN found
  BY <1>4
<1>8. FineScores(q, {"TLS", "AUTH", "HEADERS", "RATE"}) /\ q["RATE"] = x
  BY <1>2, <1>4, <1>5, <1>6, <1>7, MoreReported
<1>9. q["AUTH"] = points["AUTH"]
  <2>1. PICK D : D = {"TLS", "AUTH", "HEADERS"}
    OBVIOUS
  <2>2. "AUTH" \in D /\ "AUTH" \notin DOMAIN found /\ FineScores(points, D)
    BY <1>2, <1>4, <2>1
  <2>3. \A c \in D : c \notin DOMAIN found => q[c] = points[c]
    BY <1>5, <2>2 DEF FineScores, Reported
  <2> QED BY <2>2, <2>3
<1>10. step' \in AssessSteps /\ step' \notin {"TLS", "AUTH", "OAUTH", "ATTESTATION", "done"}
       /\ step \notin {"TLS", "AUTH"}
  BY DEF AssessSteps
<1>11. points["AUTH"] > 0 => assessed.auth # "open"
  BY <1>10 DEF AssessorInv
<1> QED BY <1>1, <1>5, <1>8, <1>9, <1>10, <1>11 DEF AssessorInv

LEMMA RateProbed == AssessorInv /\ (ProbesRate \/ FindsNoLimit) => AssessorInv'
<1> SUFFICES ASSUME AssessorInv, ProbesRate \/ FindsNoLimit PROVE AssessorInv'
  OBVIOUS
<1>1. /\ step = "RATE" /\ UNCHANGED <<assessed, hasToken, scanned, exposed, bonus>>
      /\ assessed \in Servers /\ budget \in 0 .. Burst /\ hasToken \in BOOLEAN
  BY DEF ProbesRate, FindsNoLimit, AssessorInv
<1>2. PICK a \in BOOLEAN : a = Authorised
  BY <1>1 DEF Authorised
<1>3. CASE FindsNoLimit
  <2>1. budget' \in 0 .. Burst /\ failures' \in Nat
    BY <1>3 DEF FindsNoLimit, AssessorInv
  <2>2. Reports([RATE |-> 0]) /\ step' = "TOOLS" /\ step = "RATE"
    BY <1>3 DEF FindsNoLimit
  <2>3. PICK x \in {0, 5, 10} : x = 0
    OBVIOUS
  <2>4. ~(x > 0) /\ Reports([RATE |-> x])
    BY <2>2, <2>3
  <2> QED BY <1>1, <2>1, <2>2, <2>4, RateFound
<1>4. CASE Status(a) = 429 /\ Posts(a) /\ step' = "TOOLS" /\ UNCHANGED failures
           /\ Reports([RATE |-> IF assessed.retryAfter THEN 10 ELSE 5])
  <2>1. PICK x \in {0, 5, 10} : x = IF assessed.retryAfter THEN 10 ELSE 5
    OBVIOUS
  <2>2. budget' \in 0 .. Burst /\ failures' \in Nat
    BY <1>4, BudgetKept
  <2>3. assessed.limited
    BY <1>1, <1>4, StatusMeans
  <2>4. Reports([RATE |-> x])
    BY <1>4, <2>1
  <2> QED BY <1>1, <1>4, <2>2, <2>3, <2>4, RateFound
<1>5. CASE /\ UNCHANGED <<points, step>>
           /\ \/ Posts(a) /\ UNCHANGED failures
              \/ RequestRaises
  <2>1. budget' \in 0 .. Burst /\ failures' \in Nat /\ failures' >= failures
    BY <1>5, BudgetKept
  <2>2. step \notin {"ATTESTATION", "done"}
    BY <1>1
  <2> QED BY <1>1, <1>5, <2>1, <2>2 DEF AssessorInv
<1> QED BY <1>2, <1>3, <1>4, <1>5 DEF ProbesRate

LEMMA ToolsFetched == AssessorInv /\ FetchesTools => AssessorInv'
<1> SUFFICES ASSUME AssessorInv, FetchesTools PROVE AssessorInv'
  OBVIOUS
<1>1. /\ step = "TOOLS" /\ step' = "ATTESTATION" /\ UNCHANGED <<assessed, hasToken, exposed, bonus>>
      /\ assessed \in Servers /\ budget \in 0 .. Burst /\ hasToken \in BOOLEAN /\ failures \in Nat
  <2>1. step = "TOOLS" /\ step' = "ATTESTATION" /\ UNCHANGED <<assessed, hasToken, exposed, bonus>>
    BY Zenon DEF FetchesTools
  <2>2. assessed \in Servers /\ budget \in 0 .. Burst /\ hasToken \in BOOLEAN /\ failures \in Nat
    BY Zenon DEF AssessorInv
  <2> QED BY Zenon, <2>1, <2>2
<1>2. PICK i \in 0 .. 20, f \in {0, 10}, s \in {0, 2, 5}, w \in {0, 5} :
          /\ Reports([INJECTION |-> i, FSP |-> f, SSRF |-> s, SESSION |-> w])
          /\ budget' \in 0 .. Burst /\ failures' \in Nat /\ scanned' \in BOOLEAN
          /\ scanned' => assessed.auth = "open" \/ hasToken
          /\ ~scanned' => /\ i = 0 /\ f = 0 /\ s = 0 /\ w = 0
                          /\ failures' > 0 \/ assessed.limited
                             \/ (assessed.auth # "open" /\ ~hasToken)
  <2>1. CASE /\ Status(hasToken) = 200 /\ Posts(hasToken) /\ UNCHANGED failures
             /\ scanned' = TRUE /\ Reports(ToolScores(assessed.tools))
    <3>1. PICK c \in Nat, h \in Nat, u \in Nat :
              c = assessed.tools.critical /\ h = assessed.tools.high /\ u = assessed.tools.urls
      BY <1>1, ServersAre
    <3>2. PICK i \in 0 .. 20 : i = InjectionScore(assessed.tools)
      <4>1. PICK k \in Nat : k = 20 * c + 5 * h
        OBVIOUS
      <4>2. InjectionScore(assessed.tools) = IF k > 20 THEN 0 ELSE 20 - k
        BY <3>1, <4>1 DEF InjectionScore
      <4> QED BY <4>1, <4>2
    <3>3. PICK f \in {0, 10}, s \in {0, 2, 5}, w \in {0, 5} :
              f = FspScore(assessed.tools) /\ s = SsrfScore(assessed.tools)
              /\ w = SessionScore(assessed.tools)
      BY DEF FspScore, SsrfScore, SessionScore
    <3>4. Reports([INJECTION |-> i, FSP |-> f, SSRF |-> s, SESSION |-> w])
      BY <2>1, <3>2, <3>3 DEF ToolScores
    <3>5. budget' \in 0 .. Burst /\ failures' \in Nat
      BY <1>1, <2>1, BudgetKept
    <3>6. assessed.auth = "open" \/ hasToken
      BY <1>1, <2>1, StatusMeans
    <3>7. scanned' /\ scanned' \in BOOLEAN
      BY <2>1
    <3> QED BY <3>4, <3>5, <3>6, <3>7
  <2>2. CASE /\ \/ Status(hasToken) # 200 /\ Posts(hasToken) /\ UNCHANGED failures
                \/ RequestRaises
             /\ scanned' = FALSE
             /\ Reports([INJECTION |-> 0, FSP |-> 0, SSRF |-> 0, SESSION |-> 0])
    <3>1. budget' \in 0 .. Burst /\ failures' \in Nat /\ (RequestRaises => failures' > 0)
      BY <1>1, <2>2, BudgetKept
    <3>2. failures' > 0 \/ assessed.limited \/ (assessed.auth # "open" /\ ~hasToken)
      <4>1. CASE RequestRaises
        BY <3>1, <4>1
      <4>2. CASE Status(hasToken) # 200
        BY <1>1, <4>2, StatusMeans
      <4> QED BY <2>2, <4>1, <4>2
    <3>3. scanned' \in BOOLEAN /\ ~scanned'
      BY <2>2
    <3>4. 0 \in 0 .. 20 /\ 0 \in {0, 10} /\ 0 \in {0, 2, 5} /\ 0 \in {0, 5}
      OBVIOUS
    <3> QED BY <2>2, <3>1, <3>2, <3>3, <3>4
  <2> QED BY <2>1, <2>2 DEF FetchesTools
<1>3. PICK found : found = [INJECTION |-> i, FSP |-> f, SSRF |-> s, SESSION |-> w]
  OBVIOUS
<1>4. /\ DOMAIN found = ToolChecks /\ found["INJECTION"] = i /\ found["FSP"] = f
      /\ found["SSRF"] = s /\ found["SESSION"] = w
  BY <1>3 DEF ToolChecks
<1>5. PICK q : q = points' /\ q = Reported(points, found)
  BY <1>2, <1>3 DEF Reports, Reported
<1>6. MadeBefore(step) = {"TLS", "AUTH", "HEADERS", "RATE"} /\ MadeBefore(step') = CheckIds
  BY <1>1 DEF MadeBefore
<1>7. FineScores(points, {"TLS", "AUTH", "HEADERS", "RATE"})
  BY <1>6 DEF AssessorInv
<1>8. FineFound(found)
  BY <1>4, RangesAre DEF FineFound, ToolChecks
<1>9. CheckIds = {"TLS", "AUTH", "HEADERS", "RATE"} \cup DOMAIN found
  BY <1>4 DEF CheckIds, ToolChecks
<1>10. FineScores(q, CheckIds) /\ \A c \in ToolChecks : q[c] = found[c]
  BY <1>4, <1>5, <1>7, <1>8, <1>9, MoreReported
<1>11. q["AUTH"] = points["AUTH"] /\ q["RATE"] = points["RATE"]
  <2>1. PICK D : D = {"TLS", "AUTH", "HEADERS", "RATE"}
    OBVIOUS
  <2>2. /\ "AUTH" \in D /\ "AUTH" \notin DOMAIN found /\ FineScores(points, D)
        /\ "RATE" \in D /\ "RATE" \notin DOMAIN found
    BY <1>4, <1>7, <2>1 DEF ToolChecks
  <2>3. \A c \in D : c \notin DOMAIN found => q[c] = points[c]
    BY <1>5, <2>2 DEF FineScores, Reported
  <2> QED BY <2>2, <2>3
<1>12. step' \in AssessSteps /\ step' \notin {"TLS", "AUTH", "OAUTH"}
       /\ step \notin {"TLS", "AUTH"} /\ step \in {"TOOLS", "ATTESTATION", "done"}
  BY <1>1 DEF AssessSteps
<1>13. /\ points["AUTH"] > 0 => assessed.auth # "open"
       /\ points["RATE"] > 0 => assessed.limited
       /\ exposed => assessed.auth = "open"
       /\ bonus \in 0 .. 25 /\ exposed \in BOOLEAN
  BY <1>12 DEF AssessorInv
<1>14. ~scanned' => \A c \in ToolChecks : q[c] = 0
  BY <1>2, <1>4, <1>10 DEF ToolChecks
<1> QED BY <1>1, <1>2, <1>5, <1>6, <1>10, <1>11, <1>12, <1>13, <1>14 DEF AssessorInv

LEMMA AttestationFetched == AssessorInv /\ FetchesAttestation => AssessorInv'
<1> SUFFICES ASSUME AssessorInv, FetchesAttestation PROVE AssessorInv'
  OBVIOUS
<1>1. /\ step = "ATTESTATION" /\ step' = "done"
      /\ UNCHANGED <<assessed, hasToken, points, scanned, exposed>>
      /\ assessed \in Servers
  BY DEF FetchesAttestation, AssessorInv
<1>2. budget' \in 0 .. Burst /\ failures' \in Nat /\ failures' >= failures
  <2>1. RequestRaises \/ UNCHANGED <<budget, failures>>
    BY DEF FetchesAttestation
  <2> QED BY <2>1, BudgetKept
<1>3. bonus' \in 0 .. 25
  <2>1. bonus' = assessed.attests \/ bonus' = 0
    BY DEF FetchesAttestation
  <2> QED BY <1>1, <2>1, ServersAre
<1>4. MadeBefore(step) = CheckIds /\ MadeBefore(step') = CheckIds
  BY <1>1 DEF MadeBefore
<1>5. step' \in AssessSteps /\ failures \in Nat
  BY DEF AssessSteps, FetchesAttestation, AssessorInv
<1>6. failures > 0 => failures' > 0
  BY <1>2, <1>5
<1> QED BY <1>1, <1>2, <1>3, <1>4, <1>5, <1>6 DEF AssessorInv

LEMMA AssessorStep == AssessorInv /\ [AssessorNext]_assessorVars => AssessorInv'
<1> SUFFICES ASSUME AssessorInv, [AssessorNext]_assessorVars PROVE AssessorInv'
  OBVIOUS
<1>1. CASE BudgetMoves
  <2>1. budget' \in 0 .. Burst
    BY <1>1 DEF BudgetMoves
  <2>2. UNCHANGED <<assessed, hasToken, step, points, scanned, exposed, bonus, failures>>
    BY <1>1 DEF BudgetMoves
  <2> QED BY <2>1, <2>2 DEF AssessorInv
<1>2. CASE UNCHANGED assessorVars
  BY <1>2 DEF assessorVars, AssessorInv
<1> QED BY <1>1, <1>2, TlsChecked, AuthChecked, MetadataFound, RateProbed, ToolsFetched,
           AttestationFetched
        DEF AssessorNext

\* The sum over the eight checks.
LEMMA EightScores ==
  ASSUME NEW p, FineScores(p, CheckIds)
  PROVE  MapThenSumSet(LAMBDA c : p[c], DOMAIN p)
           = p["TLS"] + p["AUTH"] + p["HEADERS"] + p["RATE"]
             + p["INJECTION"] + p["FSP"] + p["SSRF"] + p["SESSION"]
<1>1. DOMAIN p = CheckIds /\ \A c \in CheckIds : p[c] \in CheckRanges[c]
  BY DEF FineScores
<1>2. \A c \in CheckIds : p[c] \in Int
  BY <1>1, RangesAre DEF CheckIds
<1>3. IsFiniteSet(CheckIds)
  <2>1. IsFiniteSet({"TLS", "AUTH"}) /\ IsFiniteSet({"HEADERS", "RATE"})
        /\ IsFiniteSet({"INJECTION", "FSP"}) /\ IsFiniteSet({"SSRF", "SESSION"})
    <3>1. \A x, y : IsFiniteSet({x, y})
      <4> TAKE x, y
      <4>1. PICK s, t : s = {x} /\ t = {y}
        OBVIOUS
      <4>2. IsFiniteSet(s) /\ IsFiniteSet(t)
        BY <4>1, FS_Singleton
      <4>3. IsFiniteSet(s \cup t)
        BY <4>2, FS_Union
      <4>4. {x, y} = s \cup t
        BY <4>1
      <4> QED BY <4>3, <4>4
    <3> QED BY <3>1
  <2>2. CheckIds = ({"TLS", "AUTH"} \cup {"HEADERS", "RATE"})
                   \cup ({"INJECTION", "FSP"} \cup {"SSRF", "SESSION"})
    BY DEF CheckIds
  <2>3. IsFiniteSet({"TLS", "AUTH"} \cup {"HEADERS", "RATE"})
        /\ IsFiniteSet({"INJECTION", "FSP"} \cup {"SSRF", "SESSION"})
    BY <2>1, FS_Union
  <2> QED BY <2>2, <2>3, FS_Union
<1>4. p \in [CheckIds -> Int]
  <2>1. p = [c \in CheckIds |-> p[c]]
    BY DEF FineScores
  <2> QED BY <1>2, <2>1
<1>5. MapThenSumSet(LAMBDA c : p[c], CheckIds) = SumFcn(p)[CheckIds]
  BY <1>4, FunctionsAddUp
<1>6. MapThenSumSet(LAMBDA c : p[c], DOMAIN p) = SumFcn(p)[CheckIds]
  BY <1>1, <1>5, Zenon
<1>7. \A s \in SUBSET CheckIds : \A t \in s : SumFcn(p)[s] = p[t] + SumFcn(p)[s \ {t}]
  BY <1>1, <1>2, <1>3, SumSplits
<1> DEFINE A7 == CheckIds \ {"TLS"}  A6 == A7 \ {"AUTH"}  A5 == A6 \ {"HEADERS"}
           A4 == A5 \ {"RATE"}  A3 == A4 \ {"INJECTION"}  A2 == A3 \ {"FSP"}
           A1 == A2 \ {"SSRF"}  A0 == A1 \ {"SESSION"}
<1>8. /\ "TLS" \in CheckIds /\ "AUTH" \in A7 /\ "HEADERS" \in A6 /\ "RATE" \in A5
      /\ "INJECTION" \in A4 /\ "FSP" \in A3 /\ "SSRF" \in A2 /\ "SESSION" \in A1
      /\ A0 = {}
  BY DEF CheckIds
<1>9. /\ A7 \in SUBSET CheckIds /\ A6 \in SUBSET CheckIds /\ A5 \in SUBSET CheckIds
      /\ A4 \in SUBSET CheckIds /\ A3 \in SUBSET CheckIds /\ A2 \in SUBSET CheckIds
      /\ A1 \in SUBSET CheckIds /\ A0 \in SUBSET CheckIds
  OBVIOUS
<1>10. SumFcn(p)[A0] = 0
  BY <1>1, <1>2, <1>3, <1>8, <1>9, SumSteps DEF SumStep
<1>11. /\ SumFcn(p)[CheckIds] = p["TLS"] + SumFcn(p)[A7]
       /\ SumFcn(p)[A7] = p["AUTH"] + SumFcn(p)[A6]
       /\ SumFcn(p)[A6] = p["HEADERS"] + SumFcn(p)[A5]
       /\ SumFcn(p)[A5] = p["RATE"] + SumFcn(p)[A4]
       /\ SumFcn(p)[A4] = p["INJECTION"] + SumFcn(p)[A3]
       /\ SumFcn(p)[A3] = p["FSP"] + SumFcn(p)[A2]
       /\ SumFcn(p)[A2] = p["SSRF"] + SumFcn(p)[A1]
       /\ SumFcn(p)[A1] = p["SESSION"] + SumFcn(p)[A0]
  BY <1>7, <1>8, <1>9
<1>12. /\ p["TLS"] \in Int /\ p["AUTH"] \in Int /\ p["HEADERS"] \in Int /\ p["RATE"] \in Int
       /\ p["INJECTION"] \in Int /\ p["FSP"] \in Int /\ p["SSRF"] \in Int /\ p["SESSION"] \in Int
  BY <1>2 DEF CheckIds
<1> HIDE DEF A7, A6, A5, A4, A3, A2, A1, A0
<1>13. SumFcn(p)[CheckIds] = p["TLS"] + p["AUTH"] + p["HEADERS"] + p["RATE"]
             + p["INJECTION"] + p["FSP"] + p["SSRF"] + p["SESSION"]
  BY <1>10, <1>11, <1>12
<1> QED BY <1>6, <1>13

\* What a server gets whose tools were not seen.
Unseen(tls, auth, headers, rate, extra, base) ==
    /\ tls \in {0, 12} /\ auth \in {0, 5, 15, 25} /\ headers \in 0 .. 10
    /\ rate \in {0, 5, 10} /\ extra \in 0 .. 25
    /\ base = tls + auth + headers + rate + 0 + 0 + 0 + 0
    /\ Capped(Capped(base) + extra) >= 70

LEMMA UnseenScores ==
  ASSUME NEW tls, NEW auth, NEW headers, NEW rate, NEW extra, NEW base,
         Unseen(tls, auth, headers, rate, extra, base)
  PROVE  auth > 0 /\ extra >= 13 /\ (tls = 0 => extra = 25)
<1> USE DEF Unseen
<1>1. base <= 57 /\ base >= 0 /\ base \in Int
  OBVIOUS
<1>2. Capped(base) = base
  BY <1>1 DEF Capped
<1>3. base + extra >= 70
  <2>1. CASE base + extra > 100
    BY <1>1, <2>1
  <2>2. CASE ~(base + extra > 100)
    BY <1>1, <1>2, <2>2 DEF Capped
  <2> QED BY <2>1, <2>2
<1> QED BY <1>1, <1>3

LEMMA AssessorShows == AssessorInv => AssessmentSound
<1> SUFFICES ASSUME AssessorInv PROVE AssessmentSound
  OBVIOUS
<1>1. FineScores(points, MadeBefore(step))
  BY DEF AssessorInv
<1>2. DOMAIN points = MadeBefore(step)
  BY <1>1 DEF FineScores
<1>3. MadeBefore(step) \subseteq CheckIds /\ (step = "done" => MadeBefore(step) = CheckIds)
  BY DEF MadeBefore, CheckIds
<1>4. AssessorTypeOK
  BY <1>2, <1>3 DEF AssessorTypeOK, AssessorInv
<1>5. VerdictsTrue
  <2>1. "AUTH" \in DOMAIN points => step \notin {"TLS", "AUTH"}
    BY <1>2 DEF MadeBefore
  <2>2. "RATE" \in DOMAIN points => step \in {"TOOLS", "ATTESTATION", "done"}
    BY <1>2 DEF MadeBefore, AssessorInv, AssessSteps
  <2> QED BY <2>1, <2>2 DEF VerdictsTrue, AssessorInv
<1>6. MissedForCause
  BY DEF MissedForCause, AssessorInv
<1>7. BadgeHasGrounds
  <2> SUFFICES ASSUME step = "done", BadgeEligible, ~scanned
               PROVE  points["AUTH"] > 0 /\ bonus >= 13 /\ (points["TLS"] = 0 => bonus = 25)
    BY DEF BadgeHasGrounds
  <2>1. FineScores(points, CheckIds)
    BY <1>1, <1>3
  <2>2. \A c \in ToolChecks : points[c] = 0
    BY DEF AssessorInv
  <2>3. /\ points["INJECTION"] = 0 /\ points["FSP"] = 0 /\ points["SSRF"] = 0
        /\ points["SESSION"] = 0
    BY <2>2 DEF ToolChecks
  <2>4. \A c \in CheckIds : points[c] \in CheckRanges[c]
    BY <2>1 DEF FineScores
  <2>5. PICK tls \in {0, 12} : tls = points["TLS"]
    BY <2>4, RangesAre DEF CheckIds
  <2>6. PICK auth \in {0, 5, 15, 25} : auth = points["AUTH"]
    BY <2>4, RangesAre DEF CheckIds
  <2>7. PICK headers \in 0 .. 10 : headers = points["HEADERS"]
    BY <2>4, RangesAre DEF CheckIds
  <2>8. PICK rate \in {0, 5, 10} : rate = points["RATE"]
    BY <2>4, RangesAre DEF CheckIds
  <2>9. PICK base : base = MapThenSumSet(LAMBDA c : points[c], DOMAIN points)
    BY Zenon
  <2>10. PICK extra \in 0 .. 25 : extra = bonus
    BY DEF AssessorInv
  <2>11. base = tls + auth + headers + rate + 0 + 0 + 0 + 0
    <3>1. MapThenSumSet(LAMBDA c : points[c], DOMAIN points)
            = points["TLS"] + points["AUTH"] + points["HEADERS"] + points["RATE"]
              + points["INJECTION"] + points["FSP"] + points["SSRF"] + points["SESSION"]
      BY <2>1, EightScores
    <3>2. base = points["TLS"] + points["AUTH"] + points["HEADERS"] + points["RATE"]
              + points["INJECTION"] + points["FSP"] + points["SSRF"] + points["SESSION"]
      BY <2>9, <3>1, Zenon
    <3> QED BY <2>3, <2>5, <2>6, <2>7, <2>8, <3>2
  <2>12. Capped(Capped(base) + extra) >= 70
    <3>1. TotalScore = Capped(Capped(base) + extra)
      BY <2>9, <2>10, Zenon DEF TotalScore, BaseScore
    <3> QED BY <3>1 DEF BadgeEligible
  <2>13. auth > 0 /\ extra >= 13 /\ (tls = 0 => extra = 25)
    <3>1. Unseen(tls, auth, headers, rate, extra, base)
      BY <2>5, <2>6, <2>7, <2>8, <2>10, <2>11, <2>12 DEF Unseen
    <3> QED BY <3>1, UnseenScores
  <2> QED BY <2>5, <2>6, <2>10, <2>13
<1> QED BY <1>4, <1>5, <1>6, <1>7 DEF AssessmentSound

\* What the assessor reports of a server is so, and the badge has its grounds.
\* (assessor.py, lines 163-266)
THEOREM ReportsAreSound == AssessorSpec => []AssessmentSound
<1> QED BY AssessorStarts, AssessorStep, AssessorShows, PTL DEF AssessorSpec

-----------------------------------------------------------------------------
(* The evaluator *)

LEMMA EventsAre ==
  ASSUME NEW e \in Events
  PROVE  /\ e.direction \in Directions /\ e.weight \in 0..One
         /\ e.verifiability \in 0..One /\ e.confidence \in 0..One
         /\ StakesFactor[e.stakes] \in Nat /\ ReversalFactor[e.reversibility] \in Nat
         /\ e.flags \subseteq DOMAIN FlagFactor
<1>1. /\ e.stakes \in DOMAIN StakesFactor /\ e.reversibility \in DOMAIN ReversalFactor
      /\ e.direction \in Directions /\ e.weight \in 0..One
      /\ e.verifiability \in 0..One /\ e.confidence \in 0..One
      /\ e.flags \subseteq DOMAIN FlagFactor
  BY LoveAssumption
<1>2. StakesFactor[e.stakes] \in Nat
  BY <1>1 DEF StakesFactor
<1>3. ReversalFactor[e.reversibility] \in Nat
  BY <1>1 DEF ReversalFactor
<1> QED BY <1>1, <1>2, <1>3

LEMMA TimesIsNat ==
  ASSUME NEW w \in Nat, NEW f \in Nat
  PROVE  Times(w, f) \in Nat
<1>1. w * f \in Nat
  OBVIOUS
<1>2. PICK x \in Nat : x = w * f
  BY <1>1
<1>3. x \div 10 \in Nat
  OBVIOUS
<1> QED BY <1>2, <1>3 DEF Times

LEMMA RaisedIsNat ==
  ASSUME NEW e, NEW flag \in DOMAIN FlagFactor, NEW w \in Nat
  PROVE  Raised(e, flag, w) \in Nat
<1>1. FlagFactor[flag] \in Nat
  BY DEF FlagFactor
<1> QED BY <1>1, TimesIsNat DEF Raised

LEMMA WeightIsNat ==
  ASSUME NEW e \in Events
  PROVE  EffectiveWeight(e) \in Nat
<1>1. InContext(e) \in Nat
  <2>1. PICK b0 \in Nat :
            b0 = Times(Times(e.weight, StakesFactor[e.stakes]), ReversalFactor[e.reversibility])
    <3>1. e.weight \in Nat
      <4>1. e.weight \in 0..One
        BY EventsAre, Zenon
      <4>2. 0..One \subseteq Nat
        BY DEF One
      <4> QED BY <4>1, <4>2, Zenon
    <3>2. Times(e.weight, StakesFactor[e.stakes]) \in Nat
      BY <3>1, EventsAre, TimesIsNat
    <3> QED BY <3>2, EventsAre, TimesIsNat
  <2>2. /\ "sensitive_data" \in DOMAIN FlagFactor /\ "user_vulnerable" \in DOMAIN FlagFactor
        /\ "financial_impact" \in DOMAIN FlagFactor /\ "self_harm_risk" \in DOMAIN FlagFactor
        /\ "third_party_impact" \in DOMAIN FlagFactor
    BY DEF FlagFactor
  <2>3. PICK b1 \in Nat : b1 = Raised(e, "sensitive_data", b0)
    BY <2>2, RaisedIsNat
  <2>4. PICK b2 \in Nat : b2 = Raised(e, "user_vulnerable", b1)
    BY <2>2, RaisedIsNat
  <2>5. PICK b3 \in Nat : b3 = Raised(e, "financial_impact", b2)
    BY <2>2, RaisedIsNat
  <2>6. PICK b4 \in Nat : b4 = Raised(e, "self_harm_risk", b3)
    BY <2>2, RaisedIsNat
  <2>7. PICK b5 \in Nat : b5 = Raised(e, "third_party_impact", b4)
    BY <2>2, RaisedIsNat
  <2> QED BY <2>1, <2>3, <2>4, <2>5, <2>6, <2>7 DEF InContext
<1>2. DistrustPenalty(e) \in Nat
  <2>1. CASE e.direction = "defection" /\ e.confidence > e.verifiability
    <3>1. PICK c \in 0 .. One, v \in 0 .. One, w \in 0 .. One :
              c = e.confidence /\ v = e.verifiability /\ w = e.weight
      BY EventsAre
    <3>2. c > v /\ c - v \in Nat /\ w \in Nat
      BY <2>1, <3>1 DEF One
    <3>3. PICK x \in Nat : x = (c - v) * w
      BY <3>2
    <3>4. x \div 1000 \in Nat
      OBVIOUS
    <3> QED BY <2>1, <3>1, <3>3, <3>4 DEF DistrustPenalty, One
  <2>2. CASE ~(e.direction = "defection" /\ e.confidence > e.verifiability)
    BY <2>2 DEF DistrustPenalty
  <2> QED BY <2>1, <2>2
<1>3. \A x \in Nat : AtMost(3 * One, x) \in Nat
  BY DEF AtMost, One
<1>4. PICK p \in Nat, k \in Nat : p = DistrustPenalty(e) /\ k = AtMost(3 * One, InContext(e))
  BY <1>1, <1>2, <1>3
<1>5. k + p \in Nat
  OBVIOUS
<1> QED BY <1>3, <1>4, <1>5 DEF EffectiveWeight

WeightsOf(events, P) == [k \in P |-> EffectiveWeight(events[k])]

WeightSum(events, P) == MapThenSumSet(LAMBDA k : EffectiveWeight(events[k]), P)

LEMMA WeightsAddUp ==
  ASSUME NEW events, NEW P, IsFiniteSet(P), \A k \in P : EffectiveWeight(events[k]) \in Nat
  PROVE  WeightSum(events, P) \in Nat
<1> DEFINE f == WeightsOf(events, P)
           Is(g) == g = [s \in SUBSET P |-> IF s = {} THEN 0
                              ELSE EffectiveWeight(events[CHOOSE x \in s : TRUE])
                                     + g[s \ {CHOOSE x \in s : TRUE}]]
           G == CHOOSE g : Is(g)
<1>1. WeightSum(events, P) = G[P]
  BY Zenon DEF WeightSum, MapThenSumSet, MapThenFoldSet
<1>2. DOMAIN f = P /\ \A k \in P : f[k] = EffectiveWeight(events[k]) /\ f[k] \in Nat
  BY DEF WeightsOf
<1>0. \A k \in P : f[k] \in Int
  BY <1>2
<1>3. ASSUME NEW g PROVE Is(g) <=> IsSum(g, f, P)
  <2>1. ASSUME NEW s \in SUBSET P
        PROVE  (IF s = {} THEN 0
                ELSE EffectiveWeight(events[CHOOSE x \in s : TRUE])
                       + g[s \ {CHOOSE x \in s : TRUE}])
               = SumStep(g, f, s)
    <3>1. CASE s = {} BY <3>1 DEF SumStep
    <3>2. CASE s # {}
      <4>1. (CHOOSE x \in s : TRUE) \in P
        BY <3>2
      <4>2. f[CHOOSE x \in s : TRUE] = EffectiveWeight(events[CHOOSE x \in s : TRUE])
        BY <4>1, <1>2
      <4> QED BY <4>2, <3>2 DEF SumStep, AllBut, Chosen
    <3> QED BY <3>1, <3>2
  <2> QED BY <2>1 DEF IsSum
<1> HIDE DEF f, Is
<1>4. IsSum(SumFcn(f), f, P)
  BY <1>0, <1>2, SumDefined
<1>5. Is(G)
  BY <1>3, <1>4
<1>6. IsSum(G, f, P)
  BY <1>3, <1>5
<1>7. G[P] = SumFcn(f)[P]
  BY <1>0, <1>2, <1>6, SumUnique
<1>8. SumFcn(f)[P] \in Nat
  BY <1>2, SumNatural
<1> QED BY <1>1, <1>7, <1>8

LEMMA MetricBounded ==
  ASSUME NEW events \in Seq(Events), NEW d
  PROVE  Metric(d, events) \in 0 .. One
<1>1. CASE events = <<>>
  BY <1>1 DEF Metric, One
<1>2. CASE events # <<>>
  <2>1. PICK P : P = {k \in DOMAIN events : events[k].direction = d}
    OBVIOUS
  <2>2. Len(events) \in Nat /\ DOMAIN events = 1 .. Len(events) /\ Len(events) > 0
    BY <1>2
  <2>3. IsFiniteSet(P)
    <3>1. P \subseteq 1 .. Len(events)
      BY <2>1, <2>2
    <3>2. IsFiniteSet(1 .. Len(events))
      BY <2>2, FS_Interval
    <3> QED BY <3>1, <3>2, FS_Subset
  <2>4. \A k \in P : EffectiveWeight(events[k]) \in Nat
    BY <2>1, WeightIsNat
  <2>5. PICK w \in Nat : w = WeightSum(events, P)
    BY <2>3, <2>4, WeightsAddUp
  <2>6. Metric(d, events) = AtMost(One, w \div Len(events))
    BY <1>2, <2>1, <2>5, Zenon DEF Metric, WeightSum
  <2>7. PICK n \in Nat : n = Len(events) /\ n > 0
    BY <2>2
  <2>8. PICK x \in Nat : x = w \div n
    BY <2>7
  <2>9. Metric(d, events) = AtMost(One, x)
    BY <2>6, <2>7, <2>8
  <2> QED BY <2>9 DEF AtMost, One
<1> QED BY <1>1, <1>2

\* What a gap d between the two scores adds to a score s, at the rate b.
Shift(b, d, s) == (b * d * s) \div 1000000

Thousandths == 0 .. 1000
Gaps == (-1000) .. 1000

ShiftFine(b, d, s, q) ==
    /\ q \in Int
    /\ d <= 0 => q <= 0
    /\ 4 * b <= 1000 => 4 * q > -s - 4 /\ 4 * q <= s

LEMMA ShiftBounds ==
  ASSUME NEW b \in Nat, NEW d \in Gaps, NEW s \in Thousandths, NEW q, q = Shift(b, d, s)
  PROVE  ShiftFine(b, d, s, q)
<1>a. b \in Nat /\ d \in (-1000) .. 1000 /\ s \in 0 .. 1000
  BY SMT DEF Thousandths, Gaps
<1>1. PICK p \in Int : p = b * d
  BY SMT, <1>a
<1>2. PICK x \in Int : x = p * s
  BY SMT, <1>a
<1>3. q \in Int /\ q * 1000000 <= x /\ x < q * 1000000 + 1000000
  BY SMT, <1>a, <1>1, <1>2 DEF Shift
<1>4. d <= 0 => q <= 0
  <2>1. d <= 0 => p <= 0
    BY SMT, <1>a, <1>1
  <2>2. p <= 0 => x <= 0
    BY SMT, <1>a, <1>2
  <2> QED BY SMT, <1>3, <2>1, <2>2
<1>5. ASSUME 4 * b <= 1000 PROVE 4 * q > -s - 4 /\ 4 * q <= s
  <2>1. -250000 <= p /\ p <= 250000
    <3>1. b >= 0 /\ b <= 250
      BY SMT, <1>a, <1>5
    <3>2. b * d <= b * 1000 /\ b * d >= b * (-1000)
      BY SMT, <1>a, <3>1
    <3> QED BY SMT, <1>a, <1>1, <3>1, <3>2
  <2>2. -250000 * s <= x /\ x <= 250000 * s
    BY SMT, <1>a, <1>2, <2>1
  <2> QED BY SMT, <1>a, <1>3, <2>2
<1> QED BY <1>3, <1>4, <1>5 DEF ShiftFine

ResultFine(r) ==
    /\ r.old # "green" /\ r.new = "green" => r.cooperation > r.defection
    /\ r.old = "red" /\ r.new # "red" => r.cooperation > r.defection
    /\ "red" \in {r.old, r.new} => r.alert
    /\ 4 * r.rate <= One => {r.old, r.new} # {"green", "red"}

LoveInv ==
    /\ score \in 0..One /\ independence \in 0..MostIndependent
    /\ window \in Seq(Events) /\ Len(window) <= WindowSize
    /\ exported # NoRecord => exported.score \in 0..One /\ exported.independence \in 0..MostIndependent
    /\ result # NoRecord => ResultFine(result)

LEMMA LoveNumbers ==
  /\ Beta \in 0 .. 1000 /\ Gamma \in 0 .. 1000 /\ Kappa \in 0 .. 1000
  /\ MostIndependent \in 0 .. 1000 /\ WindowSize \in Nat /\ WindowSize > 0
  /\ FirstScores \subseteq 0 .. 1000 /\ One = 1000
<1>1. One = 1000
  BY DEF One
<1>2. /\ {Beta, Gamma, Kappa} \subseteq 0 .. 1000 /\ MostIndependent \in 0 .. 1000
      /\ FirstScores \subseteq 0 .. 1000 /\ WindowSize \in Nat \ {0}
  BY <1>1, LoveAssumption
<1> QED BY <1>1, <1>2

LEMMA ClampBounds ==
  ASSUME NEW x \in Int, NEW high \in Nat
  PROVE  Clamp(0, high, x) \in 0 .. high
  BY DEF Clamp, AtMost

LEMMA LoveStarts == LoveInit => LoveInv
<1> SUFFICES ASSUME LoveInit PROVE LoveInv
  OBVIOUS
<1>1. score \in 0 .. One
  BY LoveNumbers DEF LoveInit
<1>2. independence \in 0 .. MostIndependent
  BY LoveNumbers DEF LoveInit
<1>3. window \in Seq(Events) /\ Len(window) <= WindowSize
  BY LoveNumbers DEF LoveInit
<1> QED BY <1>1, <1>2, <1>3 DEF LoveInit, LoveInv

LEMMA EventAdded == \A e \in Events : LoveInv /\ AddEvent(e) => LoveInv'
<1> SUFFICES ASSUME NEW e \in Events, LoveInv, AddEvent(e) PROVE LoveInv'
  OBVIOUS
<1>1. PICK all : all = Append(window, e)
  OBVIOUS
<1>2. window' = SubSeq(all, 1 + Len(all) - AtMost(WindowSize, Len(all)), Len(all))
      /\ UNCHANGED <<score, independence, exported, result, granted>>
  BY <1>1 DEF AddEvent
<1>3. window \in Seq(Events)
  BY DEF LoveInv
<1>4. all \in Seq(Events)
  BY <1>1, <1>3
<1>5. PICK n \in Nat : n = Len(all)
  BY <1>4
<1>6. PICK k \in Nat : k = AtMost(WindowSize, n) /\ k <= WindowSize /\ k <= n
  BY LoveNumbers DEF AtMost
<1>7. PICK m \in Int : m = 1 + n - k /\ m >= 1
  BY <1>6
<1>8. \A i \in m .. n : all[i] \in Events
  BY <1>4, <1>5, <1>7
<1>9. /\ SubSeq(all, m, n) \in Seq(Events)
      /\ Len(SubSeq(all, m, n)) = IF m <= n THEN n - m + 1 ELSE 0
  BY <1>8, SubSeqProperties
<1>10. window' = SubSeq(all, m, n)
  BY <1>2, <1>5, <1>6, <1>7
<1>11. window' \in Seq(Events) /\ Len(window') <= WindowSize
  BY <1>6, <1>7, <1>9, <1>10, LoveNumbers
<1> QED BY <1>2, <1>11 DEF LoveInv, ResultFine

LEMMA AlertShows ==
  ASSUME NEW old, NEW new
  PROVE  \E alert \in BOOLEAN :
             /\ alert = (new = "red" \/ (old # new /\ old = "red"))
             /\ alert <=> (new = "red" \/ (old # new /\ old = "red"))
<1> DEFINE worst == (new = "red" \/ (old # new /\ old = "red"))
<1>1. worst \in BOOLEAN
  OBVIOUS
<1> HIDE DEF worst
<1>2. \E alert \in BOOLEAN : alert = worst /\ (alert <=> worst)
  BY <1>1, Zenon
<1> QED BY <1>2 DEF worst

LEMMA Evaluated == \A time \in TimeSteps : LoveInv /\ Evaluate(time) => LoveInv'
<1> SUFFICES ASSUME NEW time \in TimeSteps, LoveInv, Evaluate(time) PROVE LoveInv'
  OBVIOUS
<1>0. time \in Nat
  BY LoveAssumption
<1>1. /\ score' = NextScore(time) /\ independence' = NextIndependence(time)
      /\ UNCHANGED <<window, exported, granted>>
  BY DEF Evaluate
<1>2. window \in Seq(Events)
  BY DEF LoveInv
<1>3. PICK c, d, v : c = Cooperation /\ d = Defection /\ v = Novelty
  OBVIOUS
<1>a. c \in 0 .. 1000 /\ d \in 0 .. 1000 /\ v \in 0 .. 1000
  <2>1. /\ Cooperation \in 0 .. One
        /\ Defection \in 0 .. One
        /\ Novelty \in 0 .. One
    BY Zenon, <1>2, MetricBounded DEF Cooperation, Defection, Novelty
  <2> QED BY <1>3, <2>1, LoveNumbers
<1>4. PICK s, i : s = score /\ i = independence
  OBVIOUS
<1>b. s \in 0 .. 1000 /\ i \in 0 .. 1000 /\ i <= MostIndependent
  BY <1>4, LoveNumbers DEF LoveInv
<1>5. PICK b, g, h : b = time * Beta /\ g = Gamma /\ h = Kappa
  OBVIOUS
<1>c. b \in Nat /\ g \in 0 .. 1000 /\ h \in 0 .. 1000
  BY <1>0, <1>5, LoveNumbers
<1>6. PICK gap \in (-1000) .. 1000 : gap = c - d
  BY <1>a
<1>7. PICK q : q = Shift(b, gap, s)
  BY SMT
<1>8. /\ q \in Int
      /\ gap <= 0 => q <= 0
      /\ 4 * b <= 1000 => 4 * q > -s - 4 /\ 4 * q <= s
  <2>1. b \in Nat /\ gap \in Gaps /\ s \in Thousandths
    BY SMT, <1>6, <1>b, <1>c DEF Thousandths, Gaps
  <2>2. ShiftFine(b, gap, s, q)
    <3>1. \A x \in Nat, y \in Gaps, z \in Thousandths : \A w :
              w = Shift(x, y, z) => ShiftFine(x, y, z, w)
      BY SMT, ShiftBounds
    <3> QED BY SMT, <1>7, <2>1, <3>1
  <2> QED BY <2>2 DEF ShiftFine
<1>9. PICK t : t = score'
  BY SMT
<1>10. t = Clamp(0, 1000, s + q)
  <2>1. One * One = 1000000
    BY SMT, LoveNumbers
  <2>2. (time * Beta * (Cooperation - Defection) * score) \div (One * One) = q
    BY SMT, <1>3, <1>4, <1>5, <1>6, <1>7, <2>1 DEF Shift
  <2> QED BY SMT, <1>1, <1>4, <1>9, <2>2, LoveNumbers DEF NextScore
<1>11. t \in 0 .. 1000
  BY SMT, <1>8, <1>10, <1>b DEF Clamp, AtMost
<1>12. independence' \in 0 .. MostIndependent
  <2>1. PICK x \in Int : x = (g * (v - 1000 \div 2) * i) \div 1000000
    <3>1. g * (v - 1000 \div 2) * i \in Int
      BY SMT, <1>a, <1>b, <1>c
    <3> QED BY SMT, <3>1
  <2>2. PICK y \in Int : y = (h * i) \div 1000
    <3>1. h * i \in Int
      BY SMT, <1>b, <1>c
    <3> QED BY SMT, <3>1
  <2>3. One * One = 1000000
    BY SMT, LoveNumbers
  <2>4. PICK z \in Int : z = time * (x + y)
    BY SMT, <1>0
  <2>5. independence' = Clamp(0, MostIndependent, i + z)
    BY SMT, <1>1, <1>3, <1>4, <1>5, <2>1, <2>2, <2>3, <2>4, LoveNumbers DEF NextIndependence
  <2>6. i + z \in Int /\ MostIndependent \in Nat
    BY SMT, <1>b, <2>4, LoveNumbers
  <2> QED BY SMT, <2>5, <2>6, ClampBounds
<1>13. /\ t > s => gap > 0
       /\ 4 * b <= 1000 /\ s >= 800 => t >= 600
       /\ 4 * b <= 1000 /\ s < 600 => t < 800
  BY SMT, <1>8, <1>10, <1>b, <1>c DEF Clamp, AtMost
<1>14. PICK old, new : old = Band(s) /\ new = Band(t)
  OBVIOUS
<1>15. PICK alert \in BOOLEAN :
          /\ alert = (new = "red" \/ (old # new /\ old = "red"))
          /\ alert <=> (new = "red" \/ (old # new /\ old = "red"))
  BY SMT, AlertShows
<1> DEFINE r == [old |-> old, new |-> new, cooperation |-> c, defection |-> d,
                 rate |-> b, alert |-> alert]
<1>16. r = [old |-> old, new |-> new, cooperation |-> c, defection |-> d,
            rate |-> b, alert |-> alert]
  OBVIOUS
<1> HIDE DEF r
<1>17. result' = r
  BY <1>3, <1>4, <1>5, <1>9, <1>14, <1>15, <1>16 DEF Evaluate
<1>18. r.old = old /\ r.new = new /\ r.cooperation = c /\ r.defection = d /\ r.rate = b
  BY <1>16
<1>19. r.alert <=> alert
  BY <1>16, SMT
<1>20. ResultFine(r)
  <2>1. old # "green" /\ new = "green" => c > d
    BY <1>a, <1>b, <1>6, <1>11, <1>13, <1>14 DEF Band
  <2>2. old = "red" /\ new # "red" => c > d
    BY <1>a, <1>b, <1>6, <1>11, <1>13, <1>14 DEF Band
  <2>3. "red" \in {old, new} => alert
    <3>1. alert <=> (new = "red" \/ (old # new /\ old = "red"))
      BY SMT, <1>15
    <3> QED BY SMT, <3>1
  <2>4. 4 * b <= One => {old, new} # {"green", "red"}
    <3>1. 4 * b <= One => 4 * b <= 1000
      BY LoveNumbers
    <3>2. 4 * b <= 1000 => /\ old = "green" => new # "red"
                           /\ old = "red" => new # "green"
      BY <1>b, <1>c, <1>11, <1>13, <1>14 DEF Band
    <3> QED BY <3>1, <3>2
  <2> QED BY <1>18, <1>19, <2>1, <2>2, <2>3, <2>4 DEF ResultFine
<1>21. ResultFine(result')
  BY <1>17, <1>20
<1>22. score' \in 0..One /\ independence' \in 0..MostIndependent
  BY <1>9, <1>11, <1>12, LoveNumbers
<1>23. /\ window' \in Seq(Events) /\ Len(window') <= WindowSize
       /\ exported' # NoRecord => /\ exported'.score \in 0..One
                                  /\ exported'.independence \in 0..MostIndependent
  BY <1>1 DEF LoveInv
<1>24. (result # NoRecord => ResultFine(result))'
  BY <1>21 DEF ResultFine
<1> QED BY <1>22, <1>23, <1>24 DEF LoveInv

LEMMA LoveStep == LoveInv /\ [LoveNext]_loveVars => LoveInv'
<1> SUFFICES ASSUME LoveInv, [LoveNext]_loveVars PROVE LoveInv'
  OBVIOUS
<1>1. ASSUME UNCHANGED <<score, independence, window, exported, result>> PROVE LoveInv'
  BY <1>1 DEF LoveInv, ResultFine
<1>2. ASSUME NEW a \in BOOLEAN, NEW r \in BOOLEAN, NEW w \in BOOLEAN, CheckAction(a, r, w) PROVE LoveInv'
  BY <1>1, <1>2 DEF CheckAction
<1>3. CASE ExportState
  <2>1. exported' = [of |-> "state", score |-> score, independence |-> independence]
        /\ UNCHANGED <<score, independence, window, result>>
    BY <1>3 DEF ExportState
  <2>2. exported'.score = score /\ exported'.independence = independence
    BY <2>1
  <2>3. exported'.score \in 0 .. One /\ exported'.independence \in 0 .. MostIndependent
    BY <2>1, <2>2 DEF LoveInv
  <2>4. (result # NoRecord => ResultFine(result))'
    BY <2>1 DEF LoveInv, ResultFine
  <2> QED BY <2>1, <2>3, <2>4 DEF LoveInv
<1>4. CASE FromState
  <2>1. /\ score' = exported.score /\ independence' = exported.independence /\ exported # NoRecord
        /\ window' = <<>> /\ result' = NoRecord /\ UNCHANGED exported
    BY <1>4 DEF FromState
  <2>2. window' \in Seq(Events) /\ Len(window') <= WindowSize
    BY <2>1, LoveNumbers
  <2> QED BY <2>1, <2>2 DEF LoveInv
<1>5. CASE UNCHANGED loveVars
  BY <1>1, <1>5 DEF loveVars
<1> QED BY <1>2, <1>3, <1>4, <1>5, EventAdded, Evaluated DEF LoveNext

LEMMA BandsStricter == WorseBandsAreStricter
<1> SUFFICES ASSUME NEW a \in BOOLEAN, NEW r \in BOOLEAN, NEW w \in BOOLEAN
             PROVE  LET P(band) == Permission(band, a, r, w)
                        NoLaxer(worse, better) ==
                            P(worse).allowed => /\ P(better).allowed
                                                /\ P(better).confirm => P(worse).confirm
                    IN NoLaxer("yellow", "green") /\ NoLaxer("red", "yellow")
  BY Zenon DEF WorseBandsAreStricter
<1>1. Permission("green", a, r, w) = [allowed |-> TRUE, confirm |-> FALSE]
  BY DEF Permission
<1>2. Permission("yellow", a, r, w) = [allowed |-> TRUE, confirm |-> w \/ r]
  BY DEF Permission
<1>3. Permission("red", a, r, w) = [allowed |-> ~(a \/ r), confirm |-> ~(a \/ r)]
  BY DEF Permission
<1>4. PICK g, y, x : /\ g = Permission("green", a, r, w) /\ y = Permission("yellow", a, r, w)
                     /\ x = Permission("red", a, r, w)
  OBVIOUS
<1>a. g.allowed /\ ~g.confirm
  BY <1>1, <1>4
<1>b. y.allowed /\ (y.confirm <=> w \/ r)
  <2>1. y = [allowed |-> TRUE, confirm |-> w \/ r]
    BY <1>2, <1>4, Zenon
  <2> QED BY <2>1, Zenon
<1>c. (x.allowed <=> ~(a \/ r)) /\ (x.confirm <=> ~(a \/ r))
  <2>1. x = [allowed |-> ~(a \/ r), confirm |-> ~(a \/ r)]
    BY <1>3, <1>4, Zenon
  <2> QED BY <2>1, Zenon
<1>5. g.allowed /\ ~g.confirm /\ y.allowed /\ (y.confirm <=> w \/ r)
      /\ (x.allowed <=> ~(a \/ r)) /\ (x.confirm <=> ~(a \/ r))
  BY <1>a, <1>b, <1>c, Zenon
<1>6. /\ y.allowed => g.allowed /\ (g.confirm => y.confirm)
      /\ x.allowed => y.allowed /\ (y.confirm => x.confirm)
  BY <1>5, Zenon
<1> QED BY <1>4, <1>6, Zenon

LEMMA LoveShows == LoveInv => AlignmentHolds
<1> SUFFICES ASSUME LoveInv PROVE AlignmentHolds
  OBVIOUS
<1>1. LoveTypeOK
  BY DEF LoveInv, LoveTypeOK
<1>2. NoBandSkipped /\ RecoveryIsEarned
  BY DEF LoveInv, ResultFine, NoBandSkipped, RecoveryIsEarned
<1> QED BY <1>1, <1>2, BandsStricter DEF AlignmentHolds

\* Recovery is earned, and the bands are passed one at a time.
\* (love_equation/evaluator.py, lines 366-499)
THEOREM AlignmentKept == LoveSpec => []AlignmentHolds
<1> QED BY LoveStarts, LoveStep, LoveShows, PTL DEF LoveSpec

-----------------------------------------------------------------------------
(* The parts together: each takes only its own steps *)

LEMMA PartsStart ==
  ASSUME MCInit
  PROVE  /\ NexusInit /\ BomInit /\ JouleInit /\ EnvelopeInit
         /\ McpInit /\ AssessorInit /\ ProxyInit /\ StdioInit
         /\ AdapterInit /\ HermesInit /\ MemoryInit /\ LoveInit
  BY DEF MCInit

\* The requests that MCToolkits has time pass with are requests of the server.
LEMMA LimiterStepsAreSteps == LimiterSteps => McpNext
  BY ToolkitsAssumption DEF LimiterSteps, McpNext

LEMMA NexusPartSteps ==
  ASSUME [MCNext]_<<part, allVars>>
  PROVE  /\ [NexusNext]_nexusVars /\ [BomNext]_bomVars /\ [JouleNext]_jouleVars
         /\ [EnvelopeNext]_envelopeVars
<1>1. CASE NexusPart
  BY <1>1 DEF NexusPart, EnvelopeNext
<1>2. CASE UNCHANGED nexusPartVars
  BY <1>2 DEF nexusPartVars
<1>3. CASE McpPart
  BY <1>2, <1>3 DEF McpPart
<1>4. CASE OtherPart
  BY <1>2, <1>4 DEF OtherPart
<1>5. CASE UNCHANGED <<part, allVars>>
  BY <1>2, <1>5 DEF allVars
<1> QED BY <1>1, <1>3, <1>4, <1>5 DEF MCNext

LEMMA McpPartSteps ==
  ASSUME [MCNext]_<<part, allVars>>
  PROVE  /\ [McpNext]_mcpVars /\ [AssessorNext]_assessorVars /\ [ProxyNext]_proxyVars
         /\ [StdioNext]_stdioVars
<1>1. CASE McpPart
  BY <1>1, LimiterStepsAreSteps DEF McpPart, AnsweringSteps
<1>2. CASE UNCHANGED mcpPartVars
  BY <1>2 DEF mcpPartVars
<1>3. CASE NexusPart
  BY <1>2, <1>3 DEF NexusPart
<1>4. CASE OtherPart
  BY <1>2, <1>4 DEF OtherPart
<1>5. CASE UNCHANGED <<part, allVars>>
  BY <1>2, <1>5 DEF allVars
<1> QED BY <1>1, <1>3, <1>4, <1>5 DEF MCNext

LEMMA OtherPartSteps ==
  ASSUME [MCNext]_<<part, allVars>>
  PROVE  /\ [AdapterNext]_adapterVars /\ [HermesNext]_hermesVars /\ [MemoryNext]_memoryVars
         /\ [LoveNext]_loveVars
<1>1. CASE OtherPart
  BY <1>1 DEF OtherPart
<1>2. CASE UNCHANGED otherPartVars
  BY <1>2 DEF otherPartVars
<1>3. CASE NexusPart
  BY <1>2, <1>3 DEF NexusPart
<1>4. CASE McpPart
  BY <1>2, <1>4 DEF McpPart
<1>5. CASE UNCHANGED <<part, allVars>>
  BY <1>2, <1>5 DEF allVars
<1> QED BY <1>1, <1>3, <1>4, <1>5 DEF MCNext

\* The composition implements each of its parts.
THEOREM PartsTogether ==
  MCSpec => /\ NexusSpec /\ BomSpec /\ JouleSpec /\ EnvelopeSpec
            /\ McpSpec /\ AssessorSpec /\ ProxySpec /\ StdioSpec
            /\ AdapterSpec /\ HermesSpec /\ MemorySpec /\ LoveSpec
<1> QED BY PartsStart, NexusPartSteps, McpPartSteps, OtherPartSteps, PTL
        DEF MCSpec, NexusSpec, BomSpec, JouleSpec, EnvelopeSpec, McpSpec,
            AssessorSpec, ProxySpec, StdioSpec, AdapterSpec, HermesSpec, MemorySpec, LoveSpec

\* The token buckets of the MCP server and of the proxy keep their rates together.
\* (auth.py, RateLimiter; wrap/proxy.py, _RateLimiter)
THEOREM RatesAreKept == MCSpec => []RatesKept
<1> QED BY PartsTogether, ServerKeeps, ProxyKeeps, PTL DEF RatesKept

\* What the parts relay is what was there to relay.
THEOREM RelaysAreFaithful == MCSpec => []RelaysFaithful
<1> QED BY PartsTogether, ProxyKeeps, WrapperRelays, EnvelopesFaithful, AdaptersFaithful,
           ServerKeeps, PTL
        DEF RelaysFaithful

\* What is recorded is what happened: verdicts and receipts, versions of the inventory,
\* accounts, the log of the Hermes gateway, what its memory auditor takes away, the scores
\* of servers and of agents; and every variable keeps its type.
THEOREM RecordsDoAgree == MCSpec => []RecordsAgree
<1> QED BY PartsTogether, GuardedDecisions, InventoryAsSigned, WorkAccounted, ServerKeeps,
           ProxyKeeps, WrapperRelays, GatewayTells, EvidenceSafe, ReportsAreSound, AlignmentKept, PTL
        DEF RecordsAgree, TypesOK
=============================================================================
