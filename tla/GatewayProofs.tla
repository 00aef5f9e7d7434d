--------------------------- MODULE GatewayProofs ---------------------------
(***************************************************************************)
(* Proofs about Heartbeat, for every interval, staleness, lateness and     *)
(* bound: a lost heartbeat is noticed in time, the file is not created     *)
(* behind the operator's back, and nothing but the operator ends safe      *)
(* mode.  And about Gateway, for any set of requests, any number of        *)
(* threads and every bound: its types, the refinement of GovernedProxy,    *)
(* the truth of the log, and what holds of the heartbeat with requests in  *)
(* flight.                                                                 *)
(*                                                                         *)
(* The lemmas about the heartbeat are about single steps, so that Gateway, *)
(* which takes the same steps among its own, uses them too.                *)
(***************************************************************************)
EXTENDS Gateway, SequenceTheorems, TLAPS

-----------------------------------------------------------------------------
(* The heartbeat *)

USE HeartbeatAssumption DEF HeartbeatAssumption

\* What LossDetected needs: while the task sleeps it wakes within the interval
\* and its lateness, and a loss began no earlier than one interval before the
\* task is due; while it is between its check and its write no time passes.
LossInv ==
    /\ HBTypeOK
    /\ ~running => loop = "off" /\ ~safe
    /\ loop = "off" => ~running
    /\ Calm => calmAt = now
    /\ calmAt <= now
    /\ loop = "checked" => calmAt = now
    /\ loop = "asleep" => now <= due + Slack /\ due <= now + Interval
    /\ loop = "asleep" /\ ~Calm => due <= calmAt + Interval

\* What NeverAutoCreates needs: between check and write the file is the one
\* that was checked, unless it changed.
RaceInv == loop = "checked" /\ ~raced => beat.kind = "beat"

HBInv == LossInv /\ RaceInv

-----------------------------------------------------------------------------
(* Types *)

\* The step of every action of the heartbeat.
HBAction ==
    \/ HBStep
    \/ HBCrash
    \/ Startup(TRUE)
    \/ Startup(FALSE)

LEMMA FileType == \A k \in Kinds : File(k) \in [kind : Kinds, at : Nat]
  BY DEF File

LEMMA WriteBeatType ==
  ASSUME now \in Nat, WriteBeat
  PROVE  beat' \in [kind : Kinds, at : Nat]
  BY DEF WriteBeat, Kinds

LEMMA BreakType ==
  ASSUME HBTypeOK, WriteBreaks
  PROVE  /\ beat' \in [kind : Kinds, at : Nat]
         /\ faults' \in Nat
  <1>1. "empty" \in Kinds
    BY DEF Kinds
  <1>2. beat' = beat \/ beat' = File("empty")
    BY DEF WriteBreaks
  <1>3. faults' = faults + 1
    BY DEF WriteBreaks, Fault
  <1> QED
    BY <1>1, <1>2, <1>3, FileType DEF HBTypeOK

LEMMA SpoiltType ==
  ASSUME NEW k \in {"missing", "empty", "malformed"}, beat' = File(k)
  PROVE  beat' \in [kind : Kinds, at : Nat]
  BY FileType DEF Kinds

\* What the types say without the history variables.
CoreTypeOK ==
    /\ now \in Nat
    /\ beat \in [kind : Kinds, at : Nat]
    /\ running \in BOOLEAN
    /\ loop \in {"off", "asleep", "checked", "dead"}
    /\ due \in Nat
    /\ safe \in BOOLEAN
    /\ operator \in {"idle", "posted", "admitted"}
    /\ faults \in Nat /\ tampers \in Nat

LEMMA CoreTypeStep ==
  ASSUME HBTypeOK, HBAction
  PROVE  CoreTypeOK'
  <1> USE DEF HBTypeOK, CoreTypeOK
  <1>1. CASE StartupFails
    BY <1>1, BreakType DEF StartupFails
  <1>2. CASE LoopChecks
    <2>1. \/ loop' = "checked" /\ due' = due /\ safe' = safe
          \/ loop' = "asleep" /\ due' = now + Interval /\ safe' = TRUE
      BY <1>2, Zenon DEF LoopChecks, Sleep
    <2>2. UNCHANGED <<now, beat, running, operator, faults, tampers>>
      BY <1>2, Zenon DEF LoopChecks
    <2>3. safe' \in BOOLEAN /\ running' \in BOOLEAN
      BY <2>1, <2>2, Zenon
    <2>4. due' \in Nat /\ loop' \in {"off", "asleep", "checked", "dead"}
      BY <2>1
    <2> QED
      BY <2>2, <2>3, <2>4
  <1>3. CASE LoopWrites
    BY <1>3, WriteBeatType DEF LoopWrites, Sleep
  <1>4. CASE LoopDies
    BY <1>4, BreakType DEF LoopDies, Fault
  <1>5. CASE OperatorPosts
    BY <1>5 DEF OperatorPosts
  <1>6. CASE OperatorAdmitted
    BY <1>6 DEF OperatorAdmitted
  <1>7. CASE OperatorThrottled
    BY <1>7 DEF OperatorThrottled
  <1>8. CASE OperatorDeactivates
    BY <1>8 DEF OperatorDeactivates
  <1>9. CASE FileSpoiled
    BY <1>9, SpoiltType DEF FileSpoiled, Tamper
  <1>10. CASE FileInitialized
    BY <1>10, WriteBeatType DEF FileInitialized, Tamper
  <1>11. CASE Tick
    BY <1>11 DEF Tick
  <1>12. CASE HBCrash
    <2>1. beat' \in [kind : Kinds, at : Nat] /\ faults' \in Nat
      BY <1>12, BreakType DEF HBCrash, Fault
    <2> QED
      BY <1>12, <2>1 DEF HBCrash
  <1>13. CASE Startup(TRUE) \/ Startup(FALSE)
    <2>1. now' = now /\ running' = TRUE /\ loop' = "asleep" /\ due' = now + Interval
          /\ operator' = operator /\ faults' = faults /\ tampers' = tampers
      BY <1>13 DEF Startup
    <2>2. safe' \in BOOLEAN
      BY <1>13, Zenon DEF Startup
    <2>3. beat' \in [kind : Kinds, at : Nat]
      BY <1>13, WriteBeatType DEF Startup
    <2> QED
      BY <2>1, <2>2, <2>3
  <1> QED
    BY <1>1, <1>2, <1>3, <1>4, <1>5, <1>6, <1>7, <1>8, <1>9, <1>10, <1>11,
       <1>12, <1>13, Zenon DEF HBAction, HBStep

-----------------------------------------------------------------------------
(* A loss is noticed *)

\* What a step has to show about the history variables.
LEMMA Observed ==
  ASSUME HBTypeOK, CoreTypeOK', Observe
  PROVE  /\ HBTypeOK'
         /\ Calm' => calmAt' = now'
         /\ ~Calm' => calmAt' = calmAt
  <1>1. /\ Calm' => calmAt' = now'
        /\ ~Calm' => calmAt' = calmAt
    BY Zenon DEF Observe
  <1>2. calmAt' \in Nat
    BY <1>1 DEF HBTypeOK, CoreTypeOK
  <1>3. raced' \in BOOLEAN
    BY Zenon DEF Observe
  <1> QED
    BY <1>1, <1>2, <1>3, Zenon DEF HBTypeOK, CoreTypeOK

\* No gateway, no task, or safe mode: nothing to detect.
LEMMA CalmWhen ==
  /\ ~running => Calm
  /\ loop = "dead" => Calm
  /\ safe => Calm
  BY Zenon DEF Calm

\* The steps that leave the clock and the task alone: the file or safe mode
\* may change under a sleeping task, which is due within one interval of now.
LEMMA QuietStep ==
  ASSUME LossInv, CoreTypeOK', Observe,
         UNCHANGED <<now, running, loop, due>>,
         ~running => ~safe'
  PROVE  LossInv'
  <1>1. /\ HBTypeOK'
        /\ Calm' => calmAt' = now'
        /\ ~Calm' => calmAt' = calmAt
    BY Observed DEF LossInv
  <1>2. /\ ~running' => loop' = "off" /\ ~safe'
        /\ loop' = "off" => ~running'
    BY Zenon DEF LossInv
  <1>3. calmAt' = now' \/ (calmAt' = calmAt /\ ~Calm')
    BY <1>1
  <1>4. calmAt' <= now'
    BY <1>3 DEF LossInv, HBTypeOK
  <1>5. loop' = "checked" => calmAt' = now'
    BY <1>3 DEF LossInv, HBTypeOK
  <1>6. loop' = "asleep" => now' <= due' + Slack /\ due' <= now' + Interval
    BY DEF LossInv
  <1>7. ASSUME loop' = "asleep", ~Calm'
        PROVE  due' <= calmAt' + Interval
    <2>1. calmAt' = calmAt /\ due' = due /\ loop = "asleep"
      BY <1>1, <1>7
    <2>2. CASE Calm
      BY <2>1, <2>2 DEF LossInv
    <2>3. CASE ~Calm
      BY <2>1, <2>3 DEF LossInv
    <2> QED
      BY <2>2, <2>3
  <1> QED
    BY <1>1, <1>2, <1>4, <1>5, <1>6, <1>7 DEF LossInv

\* The task goes back to sleep, or starts: it is due one interval from now, and
\* whatever is wrong then has only just been seen to be right.
LEMMA SleepStep ==
  ASSUME LossInv, CoreTypeOK', Observe,
         Sleep, now' = now, running' = TRUE,
         calmAt = now \/ Calm'
  PROVE  LossInv'
  <1>1. /\ HBTypeOK'
        /\ Calm' => calmAt' = now'
        /\ ~Calm' => calmAt' = calmAt
    BY Observed DEF LossInv
  <1>2. loop' = "asleep" /\ due' = now + Interval
    BY DEF Sleep
  <1>3. calmAt' = now'
    BY <1>1
  <1>4. now \in Nat
    BY DEF LossInv, HBTypeOK
  <1>5. /\ calmAt' <= now'
        /\ now' <= due' + Slack /\ due' <= now' + Interval
        /\ due' <= calmAt' + Interval
    BY <1>2, <1>3, <1>4
  <1> QED
    BY <1>1, <1>2, <1>3, <1>5 DEF LossInv
\* No task sleeps or writes after the step: nothing is left to notice.
LEMMA IdleStep ==
  ASSUME LossInv, CoreTypeOK', Observe, now' = now,
         \/ loop' = "dead" /\ running' = TRUE
         \/ loop' = "off" /\ running' = FALSE /\ safe' = FALSE
  PROVE  LossInv'
  <1>1. /\ HBTypeOK'
        /\ Calm' => calmAt' = now'
    BY Observed DEF LossInv
  <1>2. Calm'
    BY Zenon DEF Calm
  <1>3. calmAt' = now' /\ now \in Nat
    BY <1>1, <1>2 DEF LossInv, HBTypeOK
  <1>4. calmAt' <= now'
    BY <1>3
  <1> QED
    BY <1>1, <1>2, <1>3, <1>4 DEF LossInv

\* The clock moves only while the task is off, dead, or asleep and not late.
LEMMA TickStep ==
  ASSUME LossInv, CoreTypeOK', Observe, Tick
  PROVE  LossInv'
  <1>1. /\ HBTypeOK'
        /\ Calm' => calmAt' = now'
        /\ ~Calm' => calmAt' = calmAt
    BY Observed DEF LossInv
  <1>2. /\ now' = now + 1 /\ loop # "checked"
        /\ running' = running /\ loop' = loop /\ due' = due /\ safe' = safe
        /\ loop = "asleep" => now < due + Slack
    BY Zenon DEF Tick, LossInv
  <1>3. /\ now \in Nat /\ calmAt \in Nat /\ due \in Nat
        /\ calmAt <= now
        /\ loop = "asleep" => due <= now + Interval
        /\ Calm => calmAt = now
        /\ loop = "asleep" /\ ~Calm => due <= calmAt + Interval
    BY DEF LossInv, HBTypeOK
  <1>4. calmAt' <= now'
    BY <1>1, <1>2, <1>3
  <1>5. loop' = "asleep" => now' <= due' + Slack /\ due' <= now' + Interval
    BY <1>2, <1>3
  <1>6. ASSUME loop' = "asleep", ~Calm'
        PROVE  due' <= calmAt' + Interval
    <2>1. calmAt' = calmAt /\ due' = due /\ loop = "asleep"
      BY <1>1, <1>2, <1>6
    <2>2. CASE Calm
      BY <2>1, <2>2, <1>3
    <2>3. CASE ~Calm
      BY <2>1, <2>3, <1>3
    <2> QED
      BY <2>2, <2>3
  <1>7. /\ ~running' => loop' = "off" /\ ~safe'
        /\ loop' = "off" => ~running'
        /\ loop' # "checked"
    BY <1>2, Zenon DEF LossInv
  <1> QED
    BY <1>1, <1>4, <1>5, <1>6, <1>7 DEF LossInv

\* Every step of the heartbeat keeps the invariant.
LEMMA LossStep ==
  ASSUME LossInv, HBAction, Observe
  PROVE  LossInv'
  <1>0. CoreTypeOK'
    BY CoreTypeStep DEF LossInv
  <1>1. CASE \/ StartupFails \/ OperatorPosts \/ OperatorAdmitted \/ OperatorThrottled
             \/ OperatorDeactivates \/ FileSpoiled \/ FileInitialized
    <2>1. UNCHANGED <<now, running, loop, due>>
      BY <1>1, Zenon DEF StartupFails, OperatorPosts, OperatorAdmitted,
         OperatorThrottled, OperatorDeactivates, FileSpoiled, FileInitialized
    <2>2. safe' = safe \/ safe' = FALSE
      BY <1>1, Zenon DEF StartupFails, OperatorPosts, OperatorAdmitted,
         OperatorThrottled, OperatorDeactivates, FileSpoiled, FileInitialized
    <2>3. ~running => ~safe'
      BY <2>2, Zenon DEF LossInv
    <2> QED
      BY <1>0, <2>1, <2>3, QuietStep
  <1>2. CASE LoopChecks
    <2>1. now' = now /\ running' = running /\ running /\ beat' = beat /\ loop = "asleep"
      BY <1>2, Zenon DEF LoopChecks
    <2>2. CASE Valid(beat, now)
      <3>1. loop' = "checked" /\ due' = due /\ safe' = safe
        BY <1>2, <2>2, Zenon DEF LoopChecks
      <3>2. Calm'
        BY <2>1, <2>2, Zenon DEF Calm
      <3>3. /\ HBTypeOK'
            /\ calmAt' = now'
        BY <1>0, <3>2, Observed DEF LossInv
      <3>4. calmAt' <= now'
        BY <3>3 DEF HBTypeOK
      <3> QED
        BY <2>1, <3>1, <3>2, <3>3, <3>4 DEF LossInv
    <2>3. CASE ~Valid(beat, now)
      <3>1. Sleep /\ safe'
        BY <1>2, <2>3, Zenon DEF LoopChecks
      <3>2. Calm'
        BY <3>1, Zenon DEF Calm
      <3>3. running' = TRUE
        BY <2>1 DEF LossInv, HBTypeOK
      <3> QED
        BY <1>0, <2>1, <3>1, <3>2, <3>3, SleepStep
    <2> QED
      BY <2>2, <2>3
  <1>3. CASE LoopWrites
    <2>1. Sleep /\ now' = now /\ running' = running /\ loop = "checked"
      BY <1>3, Zenon DEF LoopWrites
    <2>2. running' = TRUE /\ calmAt = now
      BY <2>1 DEF LossInv, HBTypeOK
    <2> QED
      BY <1>0, <2>1, <2>2, SleepStep
  <1>4. CASE LoopDies
    <2>1. now' = now /\ loop' = "dead" /\ running' = running /\ running
      BY <1>4, Zenon DEF LoopDies
    <2>2. running' = TRUE
      BY <2>1 DEF LossInv, HBTypeOK
    <2> QED
      BY <1>0, <2>1, <2>2, IdleStep
  <1>5. CASE Tick
    BY <1>0, <1>5, TickStep
  <1>6. CASE HBCrash
    <2>1. now' = now /\ loop' = "off" /\ running' = FALSE /\ safe' = FALSE
      BY <1>6, Zenon DEF HBCrash
    <2> QED
      BY <1>0, <2>1, IdleStep
  <1>7. CASE Startup(TRUE) \/ Startup(FALSE)
    <2>1. /\ now' = now /\ running' = TRUE /\ ~running
          /\ loop' = "asleep" /\ due' = now + Interval
      BY <1>7, Zenon DEF Startup
    <2>2. Calm
      BY <2>1, CalmWhen
    <2>3. calmAt = now
      BY <2>2 DEF LossInv
    <2> QED
      BY <1>0, <2>1, <2>3, SleepStep DEF Sleep
  <1> QED
    BY <1>1, <1>2, <1>3, <1>4, <1>5, <1>6, <1>7, Zenon DEF HBAction, HBStep

LEMMA LossStutter ==
  ASSUME LossInv,
         UNCHANGED <<now, beat, running, loop, due, safe, operator, tampers, calmAt, raced>>,
         faults' \in Nat
  PROVE  LossInv'
  <1>1. Calm' <=> Calm
    BY Zenon DEF Calm
  <1> QED
    BY <1>1 DEF LossInv, HBTypeOK

\* The bound itself.
LEMMA LossBound ==
  ASSUME LossInv
  PROVE  LossDetected
  <1>1. now \in Nat /\ calmAt \in Nat /\ due \in Nat
    BY DEF LossInv, HBTypeOK
  <1>2. CASE Calm \/ loop = "checked"
    BY <1>1, <1>2 DEF LossInv, LossDetected
  <1>3. CASE ~Calm /\ loop # "checked"
    <2>1. loop = "asleep"
      BY <1>3, CalmWhen DEF LossInv, HBTypeOK
    <2>2. now <= due + Slack /\ due <= calmAt + Interval
      BY <1>3, <2>1 DEF LossInv
    <2> QED
      BY <1>1, <2>2 DEF LossDetected
  <1> QED
    BY <1>2, <1>3
-----------------------------------------------------------------------------
(* The file between check and write *)

LEMMA RaceStep ==
  ASSUME HBTypeOK, RaceInv, HBAction, Observe
  PROVE  RaceInv'
  <1> SUFFICES ASSUME loop' = "checked", ~raced'
               PROVE  beat'.kind = "beat"
    BY DEF RaceInv
  <1>1. CASE loop = "checked"
    <2>1. ~raced /\ beat' = beat
      BY <1>1, Zenon DEF Observe
    <2> QED
      BY <1>1, <2>1 DEF RaceInv
  <1>2. CASE loop # "checked"
    <2>1. LoopChecks
      BY <1>2 DEF HBAction, HBStep, StartupFails, LoopWrites, Sleep, LoopDies, OperatorPosts,
         OperatorAdmitted, OperatorThrottled, OperatorDeactivates, FileSpoiled,
         FileInitialized, Tick, HBCrash, Startup
    <2>2. Valid(beat, now) /\ beat' = beat
      BY <2>1 DEF LoopChecks, Sleep
    <2> QED
      BY <2>2 DEF Valid
  <1> QED
    BY <1>1, <1>2

\* Whoever writes the file while the gateway runs is the loop after its check,
\* or another process.
LEMMA WriterStep ==
  ASSUME RaceInv, HBAction, running, running', tampers' = tampers, HBTypeOK,
         beat.kind = "missing", ~raced
  PROVE  beat' = beat
  <1>1. loop # "checked"
    BY DEF RaceInv
  <1>2. ~Tamper
    BY DEF Tamper, HBTypeOK
  <1> QED
    BY <1>1, <1>2, Zenon DEF HBAction, HBStep, StartupFails, LoopChecks, LoopWrites,
       LoopDies, OperatorPosts, OperatorAdmitted, OperatorThrottled, OperatorDeactivates,
       FileSpoiled, FileInitialized, Tick, HBCrash, Startup

\* The flag goes from set to clear by an admitted request or with the process.
LEMMA SafeStep ==
  ASSUME LossInv, HBAction, safe, ~safe'
  PROVE  operator = "admitted" \/ ~running'
  <1>1. running
    BY Zenon DEF LossInv
  <1> QED
    BY <1>1, Zenon DEF HBAction, HBStep, StartupFails, LoopChecks, LoopWrites, Sleep,
       LoopDies, OperatorPosts, OperatorAdmitted, OperatorThrottled, OperatorDeactivates,
       FileSpoiled, FileInitialized, Tick, HBCrash, Startup

-----------------------------------------------------------------------------
(* The theorems *)

LEMMA HBInitInv ==
  ASSUME HBInit
  PROVE  HBInv
  <1>1. now \in Nat
    BY DEF HBInit
  <1>2. beat \in [kind : Kinds, at : Nat]
    BY FileType DEF HBInit, Kinds
  <1>3. HBTypeOK
    BY <1>1, <1>2 DEF HBInit, HBTypeOK
  <1>4. Calm
    BY Zenon DEF HBInit, Calm
  <1> QED
    BY <1>1, <1>3, <1>4 DEF HBInit, HBInv, LossInv, RaceInv

\* The invariant of the heartbeat on its own.
THEOREM HeartbeatInv == HBSpec => []HBInv
  <1>1. ASSUME HBInv, [HBNext]_hbVars
        PROVE  HBInv'
    <2>1. CASE HBNext
      <3>1. HBAction /\ Observe
        BY <2>1, Zenon DEF HBNext, HBAction
      <3> QED
        BY <1>1, <3>1, LossStep, RaceStep DEF HBInv, LossInv
    <2>2. CASE UNCHANGED hbVars
      <3>1. faults' \in Nat
        BY <1>1, <2>2 DEF hbVars, HBInv, LossInv, HBTypeOK
      <3>2. LossInv'
        BY <1>1, <2>2, <3>1, LossStutter DEF hbVars, HBInv
      <3> QED
        BY <1>1, <2>2, <3>2 DEF hbVars, HBInv, RaceInv
    <2> QED
      BY <1>1, <2>1, <2>2
  <1> QED
    BY <1>1, HBInitInv, PTL DEF HBSpec

\* A lost heartbeat is noticed within one interval and the loop's lateness,
\* whatever faults, crashes and deactivations come between, for every interval
\* and staleness.
THEOREM LossIsDetected == HBSpec => []LossDetected
  <1>1. HBInv => LossDetected
    BY LossBound DEF HBInv
  <1> QED
    BY <1>1, HeartbeatInv, PTL

\* A missing file is not created while the gateway runs, unless it vanished
\* between the loop's check and its write.
THEOREM FileNotCreated == HBSpec => NeverAutoCreates
  <1>1. ASSUME HBInv, [HBNext]_hbVars
        PROVE  [running /\ running' /\ tampers' = tampers
                 /\ beat.kind = "missing" /\ ~raced => beat' = beat]_hbVars
    <2>1. CASE HBNext
      <3>1. HBAction
        BY <2>1, Zenon DEF HBNext, HBAction
      <3> QED
        BY <1>1, <3>1, WriterStep, Zenon DEF HBInv, LossInv
    <2> QED
      BY <1>1, <2>1
  <1> QED
    BY <1>1, HeartbeatInv, PTL DEF HBSpec, NeverAutoCreates

\* Nothing automated clears safe mode in a running gateway.
THEOREM SafeModeHolds == HBSpec => OnlyOperatorLeavesSafeMode
  <1>1. ASSUME HBInv, [HBNext]_hbVars
        PROVE  [safe /\ ~safe' => operator = "admitted" \/ ~running']_hbVars
    <2>1. CASE HBNext
      <3>1. HBAction
        BY <2>1, Zenon DEF HBNext, HBAction
      <3> QED
        BY <1>1, <3>1, SafeStep, Zenon DEF HBInv
    <2> QED
      BY <1>1, <2>1
  <1> QED
    BY <1>1, HeartbeatInv, PTL DEF HBSpec, OnlyOperatorLeavesSafeMode

-----------------------------------------------------------------------------
(* The request path *)

Logs == Seq({"blocked", "passed"})

RequestTypeOK ==
    /\ stage \in [Requests -> Stages]
    /\ reply \in [Requests -> Replies]
    /\ answer \in [Requests -> Answers]
    /\ entries \in [Requests -> Logs]
    /\ approved \in SUBSET Requests
    /\ sent \in SUBSET Requests
    /\ raised \in SUBSET Requests

\* Where a request is tells what happened to it.
StageInv(r) ==
    /\ stage[r] = "done" <=> answer[r] # "none"
    /\ stage[r] \in {"new", "admitted"} => r \notin approved
    /\ stage[r] \in {"queued", "calling", "returned"} => r \in approved
    /\ r \in sent => r \in approved
    /\ reply[r] \in {"clean", "dirty"} => r \in sent
    /\ stage[r] # "done" => entries[r] = <<>> /\ r \notin raised
    /\ answer[r] \in {"turned away", "rejected"} => r \notin sent

\* What the log holds about a request tells what its client got.
LogInv(r) ==
    r \notin raised =>
        /\ answer[r] \in {"none", "lost", "turned away", "rejected"} => entries[r] = <<>>
        /\ answer[r] = "released" => entries[r] = <<"passed">>
        /\ answer[r] = "refused" => entries[r] = <<"blocked">>
        /\ answer[r] = "failed" =>
              \/ entries[r] = <<"blocked">>
              \/ entries[r] = <<>> /\ (r \in sent => reply[r] = "ValueError")

RequestInv ==
    /\ RequestTypeOK
    /\ \A r \in Requests : StageInv(r) /\ LogInv(r)

-----------------------------------------------------------------------------
(* One request at a time *)

\* A step that leaves a request alone keeps what is known of it.
LEMMA Frame ==
  ASSUME NEW s, StageInv(s), LogInv(s),
         stage'[s] = stage[s], reply'[s] = reply[s], answer'[s] = answer[s],
         entries'[s] = entries[s],
         s \in approved' <=> s \in approved,
         s \in sent' <=> s \in sent,
         s \in raised' <=> s \in raised
  PROVE  StageInv(s)' /\ LogInv(s)'
  BY DEF StageInv, LogInv

\* The possible ends of a handler, with an empty log before them.
Ended(r, a, log) ==
    \/ a = "released" /\ log = <<"passed">> /\ r \in sent
    \/ a = "refused" /\ log = <<"blocked">>
    \/ a = "failed" /\ log = <<"blocked">>
    \/ a = "failed" /\ log = <<>> /\ (r \in sent => reply[r] = "ValueError")
    \/ a \in {"turned away", "rejected"} /\ log = <<>> /\ r \notin approved

\* What an append() that raised may leave behind.
EndedTorn(r, log) ==
    \/ log \in {<<>>, <<"blocked">>, <<"blocked", "blocked">>}
    \/ log \in {<<"passed">>, <<"passed", "blocked">>} /\ r \in sent

EndStep(r) ==
    /\ UNCHANGED <<hbRest, reply, approved, sent>>
    /\ \/ /\ \E a, log : Ended(r, a, log) /\ Ends(r, a, log)
          /\ UNCHANGED <<faults, raised>>
       \/ /\ \E log : EndedTorn(r, log) /\ Ends(r, "failed", log)
          /\ AppendRaises(r)

\* Steps that do not end a handler.
MoveStep(r) ==
    \/ Admitted(r)
    \/ Approve(r)
    \/ WorkerTakes(r)
    \/ ProviderReceives(r)
    \/ WorkerReturns(r)

LEMMA Logged ==
  ASSUME NEW e \in {"blocked", "passed"}
  PROVE  /\ Append(<<>>, e) = <<e>>
         /\ Append(<<e>>, "blocked") = <<e, "blocked">>
         /\ <<>> \in Logs /\ <<e>> \in Logs /\ <<e, "blocked">> \in Logs
  <1> DEFINE S == {"blocked", "passed"}
  <1>1. <<>> \in Seq(S) /\ <<e>> \in Seq(S) /\ <<e, "blocked">> \in Seq(S)
    OBVIOUS
  <1>2. Append(<<>>, e) = <<e>>
    <2>1. /\ Append(<<>>, e) \in Seq(S)
          /\ Len(Append(<<>>, e)) = Len(<<>>) + 1
          /\ Append(<<>>, e)[Len(<<>>) + 1] = e
      BY <1>1, AppendProperties
    <2>2. /\ Len(Append(<<>>, e)) = 1 /\ Append(<<>>, e)[1] = e
          /\ Len(<<e>>) = 1 /\ <<e>>[1] = e
      BY <2>1
    <2>3. \A i \in 1 .. Len(Append(<<>>, e)) : Append(<<>>, e)[i] = <<e>>[i]
      BY <2>2
    <2> QED
      BY <1>1, <2>1, <2>2, <2>3, SeqEqual
  <1>3. Append(<<e>>, "blocked") = <<e, "blocked">>
    <2> DEFINE t == Append(<<e>>, "blocked")
    <2>1. /\ t \in Seq(S)
          /\ Len(t) = Len(<<e>>) + 1
          /\ \A i \in 1 .. Len(<<e>>) : t[i] = <<e>>[i]
          /\ t[Len(<<e>>) + 1] = "blocked"
      BY <1>1, AppendProperties
    <2> HIDE DEF t
    <2>2. /\ Len(t) = 2 /\ t[1] = e /\ t[2] = "blocked"
          /\ Len(<<e, "blocked">>) = 2
      BY <2>1
    <2>3. \A i \in 1 .. Len(t) : t[i] = <<e, "blocked">>[i]
      BY <2>2
    <2>4. t = <<e, "blocked">>
      BY <1>1, <2>1, <2>2, <2>3, SeqEqual
    <2> QED
      BY <2>4 DEF t
  <1> QED
    BY <1>1, <1>2, <1>3 DEF Logs

LEMMA AnsweredEnds ==
  ASSUME NEW r \in Requests, entries[r] = <<>>,
         NEW e \in {"blocked", "passed"}, NEW a,
         e = "passed" => r \in sent,
         Ended(r, a, <<e>>),
         UNCHANGED <<hbRest, reply, approved, sent>>,
         Answered(r, e, a)
  PROVE  EndStep(r)
  <1>1. Append(entries[r], e) = <<e>>
    BY Logged
  <1>2. CASE Ends(r, a, Append(entries[r], e)) /\ UNCHANGED <<faults, raised>>
    BY <1>1, <1>2, Zenon DEF EndStep
  <1>3. CASE /\ AppendRaises(r)
             /\ \E log \in Torn(entries[r], e) :
                    \E final \in Torn(log, "blocked") : Ends(r, "failed", final)
    <2>0. PICK log \in Torn(entries[r], e) :
              \E final \in Torn(log, "blocked") : Ends(r, "failed", final)
      BY <1>3
    <2>1. PICK final \in Torn(log, "blocked") : Ends(r, "failed", final)
      BY <2>0
    <2>2. log = <<>> \/ log = <<e>>
      BY <1>1, <2>0 DEF Torn
    <2>3. final = log \/ final = Append(log, "blocked")
      BY <2>1 DEF Torn
    <2>4. final \in {<<>>, <<"blocked">>, <<e>>, <<e, "blocked">>}
      <3>1. Append(<<>>, "blocked") = <<"blocked">>
        BY Logged
      <3> QED
        BY <2>2, <2>3, <3>1, Logged
    <2>5. EndedTorn(r, final)
      BY <2>4 DEF EndedTorn
    <2> QED
      BY <1>3, <2>1, <2>5, Zenon DEF EndStep
  <1> QED
    BY <1>2, <1>3, Zenon DEF Answered

LEMMA InternalErrorEnds ==
  ASSUME NEW r \in Requests, entries[r] = <<>>,
         UNCHANGED <<hbRest, reply, approved, sent>>,
         InternalError(r)
  PROVE  EndStep(r)
  <1>1. Append(entries[r], "blocked") = <<"blocked">>
    BY Logged
  <1>2. CASE Ends(r, "failed", Append(entries[r], "blocked")) /\ UNCHANGED <<faults, raised>>
    <2>1. Ended(r, "failed", <<"blocked">>)
      BY DEF Ended
    <2> QED
      BY <1>1, <1>2, <2>1, Zenon DEF EndStep
  <1>3. CASE /\ AppendRaises(r)
             /\ \E log \in Torn(entries[r], "blocked") : Ends(r, "failed", log)
    <2>1. PICK log \in Torn(entries[r], "blocked") : Ends(r, "failed", log)
      BY <1>3
    <2>2. log = <<>> \/ log = <<"blocked">>
      BY <1>1, <2>1 DEF Torn
    <2>3. EndedTorn(r, log)
      BY <2>2 DEF EndedTorn
    <2> QED
      BY <1>3, <2>1, <2>3, Zenon DEF EndStep
  <1> QED
    BY <1>2, <1>3, Zenon DEF InternalError

LEMMA HTTPErrorEnds ==
  ASSUME NEW r \in Requests, entries[r] = <<>>, NEW a,
         Ended(r, a, <<>>),
         UNCHANGED <<hbRest, reply, approved, sent>>,
         HTTPError(r, a)
  PROVE  EndStep(r)
  BY Zenon DEF HTTPError, EndStep
\* The actions that end a handler.
EndAction(r) ==
    \/ TurnedAway(r)
    \/ RejectBody(r)
    \/ Refuse(r)
    \/ EvaluationRaises(r)
    \/ NoProvider(r)
    \/ Release(r)
    \/ ScanBlocks(r)
    \/ CallRaised(r)
    \/ CallMisconfigured(r)

LEMMA EndActionEnds ==
  ASSUME NEW r \in Requests, StageInv(r), EndAction(r)
  PROVE  EndStep(r)
  <1>0. stage[r] \in {"new", "admitted", "returned"}
    BY DEF EndAction, At, TurnedAway, RejectBody, Refuse, EvaluationRaises, NoProvider,
       Release, ScanBlocks, CallRaised, CallMisconfigured
  <1>1. /\ entries[r] = <<>>
        /\ stage[r] \in {"new", "admitted"} => r \notin approved /\ r \notin sent
    BY <1>0 DEF StageInv
  <1>2. CASE TurnedAway(r)
    <2>1. Ended(r, "turned away", <<>>)
      BY <1>1, <1>2 DEF TurnedAway, At, Ended
    <2> QED
      BY <1>1, <1>2, <2>1, HTTPErrorEnds DEF TurnedAway, hbRest
  <1>3. CASE RejectBody(r)
    <2>1. Ended(r, "rejected", <<>>)
      BY <1>1, <1>3 DEF RejectBody, At, Ended
    <2> QED
      BY <1>1, <1>3, <2>1, HTTPErrorEnds DEF RejectBody, hbRest
  <1>4. CASE Refuse(r)
    <2>1. Ended(r, "refused", <<"blocked">>)
      BY DEF Ended
    <2> QED
      BY <1>1, <1>4, <2>1, AnsweredEnds DEF Refuse, hbRest
  <1>5. CASE EvaluationRaises(r)
    BY <1>1, <1>5, InternalErrorEnds DEF EvaluationRaises, hbRest
  <1>6. CASE NoProvider(r)
    <2>1. Ended(r, "failed", <<>>)
      BY <1>1, <1>6 DEF NoProvider, At, Ended
    <2> QED
      BY <1>1, <1>6, <2>1, HTTPErrorEnds DEF NoProvider, hbRest
  <1>7. CASE Release(r)
    <2>1. r \in sent
      BY <1>7 DEF Release, StageInv
    <2>2. Ended(r, "released", <<"passed">>)
      BY <2>1 DEF Ended
    <2> QED
      BY <1>1, <1>7, <2>1, <2>2, AnsweredEnds DEF Release, hbRest
  <1>8. CASE ScanBlocks(r)
    <2>1. Ended(r, "refused", <<"blocked">>)
      BY DEF Ended
    <2> QED
      BY <1>1, <1>8, <2>1, AnsweredEnds DEF ScanBlocks, hbRest
  <1>9. CASE CallRaised(r)
    BY <1>1, <1>9, InternalErrorEnds DEF CallRaised, hbRest
  <1>10. CASE CallMisconfigured(r)
    <2>1. Ended(r, "failed", <<>>)
      BY <1>10 DEF CallMisconfigured, Ended
    <2> QED
      BY <1>1, <1>10, <2>1, HTTPErrorEnds DEF CallMisconfigured, hbRest
  <1> QED
    BY <1>2, <1>3, <1>4, <1>5, <1>6, <1>7, <1>8, <1>9, <1>10, Zenon DEF EndAction
-----------------------------------------------------------------------------
(* Every step keeps the invariant of the requests *)

LEMMA LogTypes ==
  /\ <<>> \in Logs
  /\ <<"passed">> \in Logs /\ <<"blocked">> \in Logs
  /\ <<"passed", "blocked">> \in Logs /\ <<"blocked", "blocked">> \in Logs
  BY Logged

LEMMA EndKeeps ==
  ASSUME RequestInv, NEW r \in Requests, stage[r] # "done", EndStep(r)
  PROVE  RequestInv'
  <1>1. PICK a, log :
            /\ Ends(r, a, log)
            /\ \/ Ended(r, a, log) /\ raised' = raised
               \/ a = "failed" /\ EndedTorn(r, log) /\ raised' = raised \union {r}
    BY Zenon DEF EndStep, AppendRaises
  <1>2. /\ stage' = [stage EXCEPT ![r] = "done"]
        /\ answer' = [answer EXCEPT ![r] = a]
        /\ entries' = [entries EXCEPT ![r] = log]
    BY <1>1 DEF Ends, Goes
  <1>3. reply' = reply /\ approved' = approved /\ sent' = sent
    BY DEF EndStep
  <1>4. a \in Answers /\ a # "none" /\ a # "lost"
    BY <1>1 DEF Ended, Answers
  <1>5. log \in Logs
    BY <1>1, LogTypes DEF Ended, EndedTorn
  <1>6. RequestTypeOK'
    <2>1. stage' \in [Requests -> Stages]
      BY <1>2 DEF RequestInv, RequestTypeOK, Stages
    <2>2. answer' \in [Requests -> Answers]
      BY <1>2, <1>4 DEF RequestInv, RequestTypeOK
    <2>3. entries' \in [Requests -> Logs]
      BY <1>2, <1>5 DEF RequestInv, RequestTypeOK
    <2>4. raised' \in SUBSET Requests
      BY <1>1 DEF RequestInv, RequestTypeOK
    <2> QED
      BY <1>3, <2>1, <2>2, <2>3, <2>4 DEF RequestInv, RequestTypeOK
  <1>7. ASSUME NEW s \in Requests
        PROVE  StageInv(s)' /\ LogInv(s)'
    <2>1. CASE s # r
      <3>1. /\ stage'[s] = stage[s] /\ answer'[s] = answer[s] /\ entries'[s] = entries[s]
        BY <1>2, <2>1 DEF RequestInv, RequestTypeOK
      <3>2. s \in raised' <=> s \in raised
        BY <1>1, <2>1
      <3>3. StageInv(s) /\ LogInv(s)
        BY DEF RequestInv
      <3> QED
        BY <1>3, <3>1, <3>2, <3>3, Frame
    <2>2. CASE s = r
      <3>1. stage'[s] = "done" /\ answer'[s] = a /\ entries'[s] = log
        BY <1>2, <2>2 DEF RequestInv, RequestTypeOK
      <3>2. StageInv(s)
        BY DEF RequestInv
      <3>3. a \in {"turned away", "rejected"} => s \notin approved
        BY <1>1, <2>2 DEF Ended
      <3>4. StageInv(s)'
        BY <1>3, <1>4, <3>1, <3>2, <3>3 DEF StageInv
      <3>5. LogInv(s)'
        BY <1>1, <1>3, <1>4, <2>2, <3>1 DEF LogInv, Ended
      <3> QED
        BY <3>4, <3>5
    <2> QED
      BY <2>1, <2>2
  <1> QED
    BY <1>6, <1>7 DEF RequestInv

\* A step of one request that does not end its handler.
LEMMA MoveFrame ==
  ASSUME RequestInv, NEW r \in Requests,
         stage[r] # "done",
         NEW st \in Stages, stage' = [stage EXCEPT ![r] = st],
         NEW v \in Replies, reply' = [reply EXCEPT ![r] = v],
         approved' \in {approved, approved \union {r}},
         sent' \in {sent, sent \union {r}},
         UNCHANGED <<answer, entries, raised>>,
         StageInv(r)'
  PROVE  RequestInv'
  <1>1. RequestTypeOK'
    BY DEF RequestInv, RequestTypeOK
  <1>2. ASSUME NEW s \in Requests, s # r
        PROVE  StageInv(s)' /\ LogInv(s)'
    <2>1. stage'[s] = stage[s] /\ reply'[s] = reply[s]
      BY <1>2 DEF RequestInv, RequestTypeOK
    <2>2. /\ s \in approved' <=> s \in approved
          /\ s \in sent' <=> s \in sent
      BY <1>2
    <2>3. StageInv(s) /\ LogInv(s)
      BY <1>2 DEF RequestInv
    <2> QED
      BY <2>1, <2>2, <2>3, Frame
  <1>3. LogInv(r)'
    <2>1. answer[r] = "none" /\ entries[r] = <<>>
      BY DEF RequestInv, StageInv
    <2> QED
      BY <2>1 DEF LogInv
  <1> QED
    BY <1>1, <1>2, <1>3, Zenon DEF RequestInv

LEMMA MoveKeeps ==
  ASSUME RequestInv, NEW r \in Requests, MoveStep(r)
  PROVE  RequestInv'
  <1>1. stage[r] # "done"
    BY DEF MoveStep, Admitted, Approve, WorkerTakes, ProviderReceives, WorkerReturns, At
  <1>2. StageInv(r) /\ answer[r] = "none" /\ entries[r] = <<>> /\ r \notin raised
    BY <1>1 DEF RequestInv, StageInv
  <1>3. stage \in [Requests -> Stages] /\ reply \in [Requests -> Replies]
    BY DEF RequestInv, RequestTypeOK
  <1>4. /\ reply[r] \in Replies /\ stage[r] \in Stages
        /\ reply = [reply EXCEPT ![r] = reply[r]] /\ stage = [stage EXCEPT ![r] = stage[r]]
    BY <1>3
  <1>5. CASE Admitted(r)
    <2>1. /\ stage[r] = "new" /\ stage' = [stage EXCEPT ![r] = "admitted"]
          /\ UNCHANGED <<reply, approved, sent, answer, entries, raised>>
      BY <1>5 DEF Admitted, At, Goes
    <2>2. stage'[r] = "admitted" /\ "admitted" \in Stages
      BY <1>3, <2>1 DEF Stages
    <2>3. StageInv(r)'
      BY <1>2, <2>1, <2>2 DEF StageInv
    <2> QED
      BY <1>1, <1>4, <2>1, <2>2, <2>3, MoveFrame
  <1>6. CASE Approve(r)
    <2>1. /\ stage[r] = "admitted" /\ stage' = [stage EXCEPT ![r] = "queued"]
          /\ approved' = approved \union {r}
          /\ UNCHANGED <<reply, sent, answer, entries, raised>>
      BY <1>6 DEF Approve, At, Goes
    <2>2. stage'[r] = "queued" /\ "queued" \in Stages
      BY <1>3, <2>1 DEF Stages
    <2>3. StageInv(r)'
      BY <1>2, <2>1, <2>2 DEF StageInv
    <2> QED
      BY <1>1, <1>4, <2>1, <2>2, <2>3, MoveFrame
  <1>7. CASE WorkerTakes(r)
    <2>1. /\ stage[r] = "queued" /\ stage' = [stage EXCEPT ![r] = "calling"]
          /\ UNCHANGED <<reply, approved, sent, answer, entries, raised>>
      BY <1>7 DEF WorkerTakes, At, Goes
    <2>2. stage'[r] = "calling" /\ "calling" \in Stages
      BY <1>3, <2>1 DEF Stages
    <2>3. StageInv(r)'
      BY <1>2, <2>1, <2>2 DEF StageInv
    <2> QED
      BY <1>1, <1>4, <2>1, <2>2, <2>3, MoveFrame
  <1>8. CASE ProviderReceives(r)
    <2>1. /\ stage[r] = "calling" /\ sent' = sent \union {r}
          /\ UNCHANGED <<stage, reply, approved, answer, entries, raised>>
      BY <1>8 DEF ProviderReceives, At
    <2>2. StageInv(r)'
      BY <1>2, <2>1 DEF StageInv
    <2> QED
      BY <1>1, <1>4, <2>1, <2>2, MoveFrame
  <1>9. CASE WorkerReturns(r)
    <2>1. /\ stage[r] = "calling" /\ stage' = [stage EXCEPT ![r] = "returned"]
          /\ UNCHANGED <<approved, sent, answer, entries, raised>>
      BY <1>9 DEF WorkerReturns, At, Goes
    <2>2. PICK v \in Replies : /\ v \in {"clean", "dirty"} => r \in sent
                               /\ reply' = [reply EXCEPT ![r] = v]
      BY <1>9 DEF WorkerReturns
    <2>3. stage'[r] = "returned" /\ "returned" \in Stages /\ reply'[r] = v
      BY <1>3, <2>1, <2>2 DEF Stages
    <2>4. StageInv(r)'
      BY <1>2, <2>1, <2>2, <2>3 DEF StageInv
    <2> QED
      BY <1>1, <1>4, <2>1, <2>2, <2>3, <2>4, MoveFrame
  <1> QED
    BY <1>5, <1>6, <1>7, <1>8, <1>9, Zenon DEF MoveStep

\* The process dies: who was in flight gets no answer, and has no line yet.
LEMMA CrashKeeps ==
  ASSUME RequestInv, Crash
  PROVE  RequestInv'
  <1>1. /\ stage' = [r \in Requests |-> IF r \in InFlight THEN "done" ELSE stage[r]]
        /\ answer' = [r \in Requests |-> IF r \in InFlight THEN "lost" ELSE answer[r]]
        /\ UNCHANGED <<reply, entries, approved, sent, raised>>
    BY DEF Crash
  <1>2. RequestTypeOK'
    BY <1>1 DEF RequestInv, RequestTypeOK, Stages, Answers
  <1>3. ASSUME NEW s \in Requests
        PROVE  StageInv(s)' /\ LogInv(s)'
    <2>1. StageInv(s) /\ LogInv(s)
      BY DEF RequestInv
    <2>2. CASE s \in InFlight
      <3>1. stage'[s] = "done" /\ answer'[s] = "lost"
        BY <1>1, <2>2
      <3>2. stage[s] # "done" /\ stage[s] # "new"
        BY <2>2 DEF InFlight
      <3>3. StageInv(s)'
        BY <1>1, <2>1, <3>1, <3>2 DEF StageInv
      <3>4. LogInv(s)'
        BY <1>1, <2>1, <3>1, <3>2 DEF LogInv, StageInv
      <3> QED
        BY <3>3, <3>4
    <2>3. CASE s \notin InFlight
      <3>1. stage'[s] = stage[s] /\ answer'[s] = answer[s]
        BY <1>1, <2>3
      <3> QED
        BY <1>1, <2>1, <3>1, Frame
    <2> QED
      BY <2>2, <2>3
  <1> QED
    BY <1>2, <1>3 DEF RequestInv
-----------------------------------------------------------------------------
(* The whole gateway *)

GatewayInv == RequestInv /\ LossInv /\ RaceInv

\* What a step of the gateway is: an end or a move of one request, the death of
\* the process, or a step of the heartbeat with the requests as they are.
LEMMA StepKinds ==
  ASSUME GatewayInv, GatewayNext
  PROVE  \/ \E r \in Requests : stage[r] # "done" /\ EndStep(r)
         \/ \E r \in Requests : MoveStep(r) /\ UNCHANGED hbVars
         \/ Crash /\ HBAction /\ Observe
         \/ HBAction /\ Observe /\ UNCHANGED requestVars
  <1>1. CASE \E r \in Requests : RequestStep(r)
    <2>1. PICK r \in Requests : EndAction(r) \/ MoveStep(r)
      BY <1>1, Zenon DEF RequestStep, Handler, EndAction, MoveStep
    <2>2. CASE EndAction(r)
      <3>1. stage[r] # "done"
        BY <2>2 DEF EndAction, At, TurnedAway, RejectBody, Refuse, EvaluationRaises,
           NoProvider, Release, ScanBlocks, CallRaised, CallMisconfigured
      <3>2. EndStep(r)
        BY <2>2, EndActionEnds DEF GatewayInv, RequestInv
      <3> QED
        BY <3>1, <3>2
    <2>3. CASE MoveStep(r)
      <3>1. UNCHANGED hbVars
        BY <2>3, Zenon DEF MoveStep, Admitted, Approve, WorkerTakes, ProviderReceives,
           WorkerReturns
      <3> QED
        BY <2>3, <3>1
    <2> QED
      BY <2>1, <2>2, <2>3
  <1>2. CASE Crash /\ Observe
    BY <1>2, Zenon DEF Crash, HBAction
  <1>3. CASE (HBStep \/ Start) /\ Observe /\ UNCHANGED requestVars
    <2>1. Start => Startup(TRUE) \/ Startup(FALSE)
      BY DEF Start
    <2> QED
      BY <1>3, <2>1, Zenon DEF HBAction
  <1> QED
    BY <1>1, <1>2, <1>3, Zenon DEF GatewayNext

LEMMA HandlerKeepsHeartbeat ==
  ASSUME LossInv, RaceInv, UNCHANGED hbRest, faults' \in Nat
  PROVE  LossInv' /\ RaceInv'
  BY LossStutter DEF hbRest, RaceInv

LEMMA GatewayInitInv ==
  ASSUME GatewayInit
  PROVE  GatewayInv
  <1>1. LossInv /\ RaceInv
    BY HBInitInv DEF GatewayInit, HBInv
  <1>2. RequestTypeOK
    BY LogTypes DEF GatewayInit, RequestTypeOK, Stages, Replies, Answers
  <1>3. \A r \in Requests : StageInv(r) /\ LogInv(r)
    BY DEF GatewayInit, StageInv, LogInv
  <1> QED
    BY <1>1, <1>2, <1>3 DEF GatewayInv, RequestInv

\* The invariant of the composed gateway.
THEOREM InvariantHolds == GatewaySpec => []GatewayInv
  <1>1. ASSUME GatewayInv, [GatewayNext]_gwVars
        PROVE  GatewayInv'
    <2>1. CASE GatewayNext
      <3>1. ASSUME NEW r \in Requests, stage[r] # "done", EndStep(r)
            PROVE  GatewayInv'
        <4>1. faults' \in Nat
          BY <1>1, <3>1 DEF EndStep, AppendRaises, Fault, GatewayInv, LossInv, HBTypeOK
        <4>2. UNCHANGED hbRest
          BY <3>1 DEF EndStep
        <4> QED
          BY <1>1, <3>1, <4>1, <4>2, EndKeeps, HandlerKeepsHeartbeat DEF GatewayInv
      <3>2. ASSUME NEW r \in Requests, MoveStep(r), UNCHANGED hbVars
            PROVE  GatewayInv'
        <4>1. UNCHANGED hbRest /\ faults' = faults
          BY <3>2 DEF hbVars, hbRest
        <4>2. faults' \in Nat
          BY <1>1, <4>1 DEF GatewayInv, LossInv, HBTypeOK
        <4> QED
          BY <1>1, <3>2, <4>1, <4>2, MoveKeeps, HandlerKeepsHeartbeat DEF GatewayInv
      <3>3. CASE Crash /\ HBAction /\ Observe
        BY <1>1, <3>3, CrashKeeps, LossStep, RaceStep DEF GatewayInv, LossInv
      <3>4. CASE HBAction /\ Observe /\ UNCHANGED requestVars
        <4>1. RequestInv'
          BY <1>1, <3>4 DEF GatewayInv, requestVars, RequestInv, RequestTypeOK, StageInv, LogInv
        <4> QED
          BY <1>1, <3>4, <4>1, LossStep, RaceStep DEF GatewayInv, LossInv
      <3> QED
        BY <1>1, <2>1, <3>1, <3>2, <3>3, <3>4, StepKinds
    <2>2. CASE UNCHANGED gwVars
      <3>1. UNCHANGED hbRest /\ faults' = faults /\ UNCHANGED requestVars
        BY <2>2 DEF gwVars, hbVars, hbRest
      <3>2. faults' \in Nat
        BY <1>1, <3>1 DEF GatewayInv, LossInv, HBTypeOK
      <3>3. RequestInv'
        BY <1>1, <3>1 DEF GatewayInv, requestVars, RequestInv, RequestTypeOK, StageInv, LogInv
      <3> QED
        BY <1>1, <3>1, <3>2, <3>3, HandlerKeepsHeartbeat DEF GatewayInv
    <2> QED
      BY <1>1, <2>1, <2>2
  <1> QED
    BY <1>1, GatewayInitInv, PTL DEF GatewaySpec

\* The gateway's variables keep their types, and a handler that has ended has
\* answered, for every set of requests.
THEOREM GatewayTypes == GatewaySpec => []GatewayTypeOK
  <1>1. GatewayInv => GatewayTypeOK
    BY DEF GatewayInv, LossInv, RequestInv, RequestTypeOK, StageInv, GatewayTypeOK, Logs
  <1> QED
    BY <1>1, InvariantHolds, PTL

\* A lost heartbeat is noticed in time also with requests in flight, append()
\* failures and crashes among the heartbeat's own steps.
THEOREM GatewayLossDetected == GatewaySpec => []LossDetected
  <1>1. GatewayInv => LossDetected
    BY LossBound DEF GatewayInv
  <1> QED
    BY <1>1, InvariantHolds, PTL

\* The log tells what the client got, for every set of requests and number of
\* threads: whatever interleaving, provider failure or crash.
THEOREM LogTellsTheTruth == GatewaySpec => []LogIsTrue
  <1>1. ASSUME GatewayInv, NEW r \in Requests \ raised
        PROVE  /\ answer[r] = "released" <=>
                      \E i \in 1 .. Len(entries[r]) : entries[r][i] = "passed"
               /\ r \in sent /\ answer[r] \notin {"none", "lost"} /\ reply[r] # "ValueError"
                  => Len(entries[r]) = 1
    <2>1. answer[r] \in Answers /\ StageInv(r) /\ LogInv(r) /\ r \notin raised
      BY <1>1 DEF GatewayInv, RequestInv, RequestTypeOK
    <2>2. CASE answer[r] = "released"
      <3>1. entries[r] = <<"passed">>
        BY <2>1, <2>2 DEF LogInv
      <3>2. Len(entries[r]) = 1 /\ entries[r][1] = "passed"
        BY <3>1
      <3> QED
        BY <2>2, <3>2
    <2>3. CASE answer[r] # "released" /\ entries[r] = <<"blocked">>
      <3>1. Len(entries[r]) = 1 /\ entries[r][1] = "blocked"
        BY <2>3
      <3> QED
        BY <2>3, <3>1
    <2>4. CASE answer[r] # "released" /\ entries[r] = <<>>
      <3>1. Len(entries[r]) = 0
        BY <2>4
      <3>2. r \in sent /\ answer[r] \notin {"none", "lost"} => reply[r] = "ValueError"
        <4>1. <<"blocked">> # <<>>
          OBVIOUS
        <4>2. answer[r] # "refused"
          BY <2>1, <2>4, <4>1 DEF LogInv
        <4>3. answer[r] = "failed" /\ r \in sent => reply[r] = "ValueError"
          BY <2>1, <2>4, <4>1 DEF LogInv
        <4> QED
          BY <2>1, <2>4, <4>2, <4>3 DEF StageInv, Answers
      <3> QED
        BY <2>4, <3>1, <3>2
    <2>5. answer[r] = "released" \/ entries[r] = <<"blocked">> \/ entries[r] = <<>>
      BY <2>1 DEF LogInv, Answers
    <2> QED
      BY <2>2, <2>3, <2>4, <2>5
  <1>2. GatewayInv => LogIsTrue
    BY <1>1 DEF LogIsTrue
  <1> QED
    BY <1>2, InvariantHolds, PTL

\* A missing file stays missing while the gateway runs, whatever its handlers do.
THEOREM GatewayFileNotCreated == GatewaySpec => NeverAutoCreates
  <1>1. ASSUME GatewayInv, [GatewayNext]_gwVars
        PROVE  [running /\ running' /\ tampers' = tampers
                 /\ beat.kind = "missing" /\ ~raced => beat' = beat]_hbVars
    <2>1. CASE HBAction
      BY <1>1, <2>1, WriterStep, Zenon DEF GatewayInv, LossInv
    <2>2. CASE UNCHANGED hbRest
      BY <2>2 DEF hbRest
    <2>3. HBAction \/ UNCHANGED hbRest
      <3>1. UNCHANGED hbVars \/ UNCHANGED gwVars => UNCHANGED hbRest
        BY DEF hbVars, gwVars, hbRest
      <3>2. \A r \in Requests : EndStep(r) => UNCHANGED hbRest
        BY DEF EndStep, hbRest
      <3> QED
        BY <1>1, <3>1, <3>2, StepKinds, Zenon
    <2> QED
      BY <2>1, <2>2, <2>3
  <1> QED
    BY <1>1, InvariantHolds, PTL DEF GatewaySpec, NeverAutoCreates

\* No request, heartbeat or health check ends safe mode.
THEOREM GatewaySafeModeHolds == GatewaySpec => OnlyOperatorLeavesSafeMode
  <1>1. ASSUME GatewayInv, [GatewayNext]_gwVars
        PROVE  [safe /\ ~safe' => operator = "admitted" \/ ~running']_hbVars
    <2>1. CASE HBAction
      BY <1>1, <2>1, SafeStep, Zenon DEF GatewayInv
    <2>2. CASE UNCHANGED hbRest
      BY <2>2 DEF hbRest
    <2>3. HBAction \/ UNCHANGED hbRest
      <3>1. UNCHANGED hbVars \/ UNCHANGED gwVars => UNCHANGED hbRest
        BY DEF hbVars, gwVars, hbRest
      <3>2. \A r \in Requests : EndStep(r) => UNCHANGED hbRest
        BY DEF EndStep, hbRest
      <3> QED
        BY <1>1, <3>1, <3>2, StepKinds, Zenon
    <2> QED
      BY <2>1, <2>2, <2>3
  <1> QED
    BY <1>1, InvariantHolds, PTL DEF GatewaySpec, OnlyOperatorLeavesSafeMode

-----------------------------------------------------------------------------
(* The gateway implements the proxy *)

\* The proxy's variables change in one of these ways, or not at all.
LEMMA EndRefines ==
  ASSUME GatewayInv, NEW r \in Requests, stage[r] # "done", EndStep(r)
  PROVE  Proxy!Next
  <1>1. answer[r] = "none" /\ entries[r] = <<>> /\ approved' = approved /\ sent' = sent
    BY DEF GatewayInv, RequestInv, StageInv, EndStep
  <1>2. ASSUME NEW a, NEW log, Ended(r, a, log), Ends(r, a, log)
        PROVE  Proxy!Release(r) \/ Proxy!Refuse(r) \/ Proxy!TurnAway(r) \/ Proxy!Fail(r)
    <2>1. answer' = [answer EXCEPT ![r] = a] /\ entries' = [entries EXCEPT ![r] = log]
      BY <1>2 DEF Ends
    <2>2. Proxy!Answer(r, a)
      BY <1>1, <2>1 DEF Proxy!Answer
    <2>3. log = <<>> => entries' = entries
      BY <1>1, <2>1 DEF GatewayInv, RequestInv, RequestTypeOK
    <2> QED
      BY <1>2, <2>1, <2>2, <2>3 DEF Ended, Proxy!Release, Proxy!Refuse, Proxy!TurnAway, Proxy!Fail
  <1>3. ASSUME NEW log, EndedTorn(r, log), Ends(r, "failed", log)
        PROVE  Proxy!Fail(r)
    <2>1. answer' = [answer EXCEPT ![r] = "failed"] /\ entries' = [entries EXCEPT ![r] = log]
      BY <1>3 DEF Ends
    <2>2. Proxy!Answer(r, "failed")
      BY <1>1, <2>1 DEF Proxy!Answer
    <2>3. log = <<>> => entries' = entries
      BY <1>1, <2>1 DEF GatewayInv, RequestInv, RequestTypeOK
    <2> QED
      BY <1>3, <2>1, <2>2, <2>3 DEF EndedTorn, Proxy!Fail
  <1>4. Proxy!Release(r) \/ Proxy!Refuse(r) \/ Proxy!TurnAway(r) \/ Proxy!Fail(r)
    BY <1>2, <1>3, Zenon DEF EndStep
  <1> QED
    BY <1>4, Zenon DEF Proxy!Next

LEMMA MoveRefines ==
  ASSUME GatewayInv, NEW r \in Requests, MoveStep(r)
  PROVE  Proxy!Next \/ UNCHANGED <<approved, sent, answer, entries>>
  <1>1. CASE Approve(r)
    <2>1. answer[r] = "none"
      BY <1>1 DEF GatewayInv, RequestInv, StageInv, Approve, At
    <2>2. Proxy!Approve(r)
      BY <1>1, <2>1, Zenon DEF Approve, Proxy!Approve
    <2> QED
      BY <2>2, Zenon DEF Proxy!Next
  <1>2. CASE ProviderReceives(r)
    <2>1. answer[r] = "none" /\ r \in approved
      BY <1>2 DEF GatewayInv, RequestInv, StageInv, ProviderReceives, At
    <2>2. Proxy!Send(r)
      BY <1>2, <2>1, Zenon DEF ProviderReceives, Proxy!Send
    <2> QED
      BY <2>2, Zenon DEF Proxy!Next
  <1>3. CASE Admitted(r) \/ WorkerTakes(r) \/ WorkerReturns(r)
    BY <1>3, Zenon DEF Admitted, WorkerTakes, WorkerReturns
  <1> QED
    BY <1>1, <1>2, <1>3, Zenon DEF MoveStep

LEMMA CrashRefines ==
  ASSUME GatewayInv, Crash
  PROVE  Proxy!Next
  <1>1. /\ answer' = [r \in Requests |-> IF r \in InFlight THEN "lost" ELSE answer[r]]
        /\ UNCHANGED <<approved, sent, entries>>
    BY DEF Crash
  <1>2. InFlight \in SUBSET {r \in Requests : answer[r] = "none"}
    BY DEF InFlight, GatewayInv, RequestInv, StageInv
  <1>3. Proxy!Lose
    BY <1>1, <1>2, Zenon DEF Proxy!Lose
  <1> QED
    BY <1>3, Zenon DEF Proxy!Next

\* proxy_messages, with its middleware, its thread pool, its error paths and
\* its restarts, implements GovernedProxy.
THEOREM GatewayImplementsProxy == GatewaySpec => ImplementsProxy
  <1>1. GatewayInit => Proxy!Init
    BY Zenon DEF GatewayInit, Proxy!Init
  <1>2. ASSUME GatewayInv, [GatewayNext]_gwVars
        PROVE  [Proxy!Next]_(Proxy!proxyVars)
    <2>1. CASE GatewayNext
      <3>1. ASSUME NEW r \in Requests, stage[r] # "done", EndStep(r)
            PROVE  Proxy!Next
        BY <1>2, <3>1, EndRefines
      <3>2. ASSUME NEW r \in Requests, MoveStep(r)
            PROVE  Proxy!Next \/ UNCHANGED <<approved, sent, answer, entries>>
        BY <1>2, <3>2, MoveRefines
      <3>3. CASE Crash
        BY <1>2, <3>3, CrashRefines
      <3>4. CASE UNCHANGED requestVars
        BY <3>4 DEF requestVars, Proxy!proxyVars
      <3> QED
        BY <1>2, <2>1, <3>1, <3>2, <3>3, <3>4, StepKinds, Zenon DEF Proxy!proxyVars
    <2>2. CASE UNCHANGED gwVars
      BY <2>2 DEF gwVars, requestVars, Proxy!proxyVars
    <2> QED
      BY <1>2, <2>1, <2>2
  <1> QED
    BY <1>1, <1>2, InvariantHolds, PTL DEF GatewaySpec, ImplementsProxy, Proxy!Spec
=============================================================================
