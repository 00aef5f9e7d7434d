----------------------------- MODULE LoveEquation -----------------------------
(***************************************************************************)
(* The Love Equation evaluator: a score of alignment that every evaluation *)
(* moves by the events still in a sliding window, and the bands that allow *)
(* or forbid actions.  Scores and weights are in thousandths, rounded down.*)
(***************************************************************************)
EXTENDS Integers, Sequences, FiniteSets, FiniteSetsExt

CONSTANTS
    Events,            \* the events an agent may log
    FirstScores,       \* E of a new AgentState
    Beta, Gamma, Kappa, MostIndependent,  \* beta, gamma, kappa, Imax
    TimeSteps,         \* the values of delta_t
    WindowSize,
    MaxLoveOps         \* bound

One == 1000
Directions == {"cooperation", "defection", "neutral", "novelty"}

\* The multipliers of an event's context, in tenths.
StakesFactor == [low |-> 10, medium |-> 15, high |-> 25, critical |-> 40]
ReversalFactor == [reversible |-> 10, difficult |-> 15, irreversible |-> 25]
FlagFactor ==
    [sensitive_data |-> 20, user_vulnerable |-> 18, financial_impact |-> 16,
     self_harm_risk |-> 50, third_party_impact |-> 14]

ASSUME LoveAssumption ==
    /\ FirstScores \subseteq 0..One /\ WindowSize \in Nat \ {0}
    /\ {Beta, Gamma, Kappa} \subseteq 0..One /\ MostIndependent \in 0..One
    /\ TimeSteps \subseteq Nat
    /\ \A e \in Events : /\ e.direction \in Directions /\ e.weight \in 0..One
                         /\ e.verifiability \in 0..One /\ e.confidence \in 0..One
                         /\ e.stakes \in DOMAIN StakesFactor
                         /\ e.reversibility \in DOMAIN ReversalFactor
                         /\ e.flags \subseteq DOMAIN FlagFactor

VARIABLES
    score, independence,  \* E and I
    window,               \* event_window
    exported,             \* the last export_state(), or nothing
    result,               \* what the last evaluate() returned, or nothing
    granted,              \* what the last check_action_allowed() answered
    loveOps

loveVars == <<score, independence, window, exported, result, granted, loveOps>>

NoRecord == [of |-> "nothing"]

LoveInit ==
    /\ score \in FirstScores /\ independence = MostIndependent \div 2
    /\ window = <<>> /\ exported = NoRecord /\ result = NoRecord /\ granted = NoRecord
    /\ loveOps = 0

AtMost(limit, x) == IF x > limit THEN limit ELSE x
Clamp(low, high, x) == IF x < low THEN low ELSE AtMost(high, x)

\* effective_weight: the weight times the multipliers of its context, and for an
\* overconfident defection the distrust penalty on top.
Times(w, factor) == (w * factor) \div 10
Raised(e, flag, w) == IF flag \in e.flags THEN Times(w, FlagFactor[flag]) ELSE w

InContext(e) ==
    LET base == Times(Times(e.weight, StakesFactor[e.stakes]), ReversalFactor[e.reversibility])
    IN Raised(e, "third_party_impact", Raised(e, "self_harm_risk", Raised(e, "financial_impact",
          Raised(e, "user_vulnerable", Raised(e, "sensitive_data", base)))))

DistrustPenalty(e) ==
    IF e.direction = "defection" /\ e.confidence > e.verifiability
    THEN ((e.confidence - e.verifiability) * e.weight) \div One ELSE 0

EffectiveWeight(e) == AtMost(3 * One, AtMost(3 * One, InContext(e)) + DistrustPenalty(e))

Band(s) == IF s >= 800 THEN "green" ELSE IF s >= 600 THEN "yellow" ELSE "red"

-----------------------------------------------------------------------------
LoveCounted == loveOps < MaxLoveOps /\ loveOps' = loveOps + 1

AddEvent(e) ==
    /\ LoveCounted
    /\ LET all == Append(window, e) IN
        window' = SubSeq(all, 1 + Len(all) - AtMost(WindowSize, Len(all)), Len(all))
    /\ UNCHANGED <<score, independence, exported, result, granted>>

\* compute_C, compute_D and compute_N.
Metric(direction, events) ==
    LET Counted == {k \in DOMAIN events : events[k].direction = direction}
        Weight(k) == EffectiveWeight(events[k])
    IN IF events = <<>> THEN 0 ELSE AtMost(One, MapThenSumSet(Weight, Counted) \div Len(events))

Cooperation == Metric("cooperation", window)
Defection == Metric("defection", window)
Novelty == Metric("novelty", window)

NextScore(time) ==
    Clamp(0, One, score + (time * Beta * (Cooperation - Defection) * score) \div (One * One))

NextIndependence(time) ==
    Clamp(0, MostIndependent,
          independence + time * ((Gamma * (Novelty - One \div 2) * independence) \div (One * One)
                                 + (Kappa * independence) \div One))

Evaluate(time) ==
    /\ LoveCounted
    /\ score' = NextScore(time) /\ independence' = NextIndependence(time)
    /\ LET old == Band(score)
           new == Band(score')
       IN result' = [old |-> old, new |-> new, cooperation |-> Cooperation, defection |-> Defection,
                     rate |-> time * Beta, alert |-> new = "red" \/ (old # new /\ old = "red")]
    /\ UNCHANGED <<window, exported, granted>>

\* check_action_allowed.
Permission(band, autonomous, risky, writes) ==
    CASE band = "green" -> [allowed |-> TRUE, confirm |-> FALSE]
      [] band = "yellow" -> [allowed |-> TRUE, confirm |-> writes \/ risky]
      [] OTHER -> [allowed |-> ~(autonomous \/ risky), confirm |-> ~(autonomous \/ risky)]

CheckAction(autonomous, risky, writes) ==
    /\ LoveCounted
    /\ granted' = Permission(Band(score), autonomous, risky, writes)
    /\ UNCHANGED <<score, independence, window, exported, result>>

\* export_state() and, maybe in another process, from_state(): the events are
\* exported in part and never read back.
ExportState ==
    /\ LoveCounted
    /\ exported' = [of |-> "state", score |-> score, independence |-> independence]
    /\ UNCHANGED <<score, independence, window, result, granted>>

FromState ==
    /\ LoveCounted /\ exported # NoRecord
    /\ score' = exported.score /\ independence' = exported.independence
    /\ window' = <<>> /\ result' = NoRecord /\ granted' = NoRecord
    /\ UNCHANGED exported

LoveNext ==
    \/ \E e \in Events : AddEvent(e)
    \/ \E time \in TimeSteps : Evaluate(time)
    \/ \E autonomous, risky, writes \in BOOLEAN : CheckAction(autonomous, risky, writes)
    \/ ExportState \/ FromState

LoveSpec == LoveInit /\ [][LoveNext]_loveVars

-----------------------------------------------------------------------------
LoveTypeOK ==
    /\ score \in 0..One /\ independence \in 0..MostIndependent
    /\ Len(window) <= WindowSize

\* With a selection strength of at most a quarter for the time the evaluation spans, it
\* never takes an agent past the yellow band, however much the events in the window weigh: an operator sees
\* YELLOW first.  (evaluate, lines 366-435)
NoBandSkipped ==
    result # NoRecord /\ 4 * result.rate <= One => {result.old, result.new} # {"green", "red"}

\* An agent leaves RED, and a lower band altogether, only when the window holds more
\* cooperation than defection; and going into or out of RED is alerted.
\* (evaluate, lines 366-435)
RecoveryIsEarned ==
    result # NoRecord =>
        /\ result.old # "green" /\ result.new = "green"
             => result.cooperation > result.defection
        /\ result.old = "red" /\ result.new # "red"
             => result.cooperation > result.defection
        /\ "red" \in {result.old, result.new} => result.alert

\* What a worse band lets through the better ones let through, and with no more
\* confirmations.  (check_action_allowed, lines 437-499)
WorseBandsAreStricter ==
    \A autonomous, risky, writes \in BOOLEAN :
        LET P(band) == Permission(band, autonomous, risky, writes)
            NoLaxer(worse, better) ==
                P(worse).allowed => /\ P(better).allowed
                                    /\ P(better).confirm => P(worse).confirm
        IN NoLaxer("yellow", "green") /\ NoLaxer("red", "yellow")

AlignmentHolds ==
    LoveTypeOK /\ NoBandSkipped /\ RecoveryIsEarned /\ WorseBandsAreStricter
=============================================================================
